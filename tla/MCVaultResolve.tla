--------------------------- MODULE MCVaultResolve ---------------------------
(***************************************************************************)
(* VaultResolve with leases on both sides of twice the margin, and a       *)
(* request of each kind of configuration.                                  *)
(***************************************************************************)
EXTENDS VaultResolve, TLC

SmallLeases == {1, 3}

SmallConfigs ==
    LET C(m, k, tok, p, a, b, e, o) ==
            [method |-> m, key |-> k, token |-> tok, path |-> p, auth |-> a,
             bearer |-> b, expired |-> e, own |-> o]
        k == CHOOSE x \in Complete : TRUE
        s == CHOOSE x \in Secrets : TRUE
    IN  {C("jwt", k, FALSE, s, "bearer", TRUE, FALSE, FALSE),
         C("jwt", CHOOSE x \in Keys \ Complete : TRUE, FALSE, s, "query_param", FALSE, FALSE, FALSE),
         C("token", k, TRUE, s, "query_param", FALSE, FALSE, FALSE),
         C("token", k, TRUE, s, "bearer", TRUE, TRUE, FALSE),
         C("token", k, FALSE, s, "bearer", FALSE, FALSE, FALSE),
         C("token", k, FALSE, NoPath, "bearer", TRUE, FALSE, TRUE),
         C("jwt", k, FALSE, NoPath, "negotiate", FALSE, FALSE, FALSE)}

Perms == Permutations(Threads)
=============================================================================
