-------------------------- MODULE MCConfigResolve --------------------------
(***************************************************************************)
(* ConfigResolve on every list of up to four different scopes of a small   *)
(* universe: two contents of "default", prefixes of three lengths, domains *)
(* of two, ties, a scope that is both, one that does not match; JSON that  *)
(* does not parse, fields absent or of the wrong type, a max_concurrent    *)
(* below one.  The scopes of a list are the keys of a JSON object, so no   *)
(* two are "default".                                                      *)
(***************************************************************************)
EXTENDS ConfigResolve

SmallFields == {"rate_limit", "max_concurrent"}
HardCoded == [f \in SmallFields |-> 10]

S(pre, l, dom, h, ok, here, v) ==
    [isDefault |-> FALSE, prefix |-> pre, len |-> l, domain |-> dom, hostLen |-> h,
     parses |-> ok, present |-> here, value |-> [f \in SmallFields |-> v]]

D(ok, here, v) == [S(FALSE, 7, FALSE, 0, ok, here, v) EXCEPT !.isDefault = TRUE]

Universe ==
    { D(TRUE, SmallFields, 20), D(FALSE, {}, 21),
      S(TRUE, 3, FALSE, 0, TRUE, {"rate_limit"}, 30),
      S(TRUE, 6, TRUE, 5, TRUE, SmallFields, 0),
      S(TRUE, 9, TRUE, 5, FALSE, {}, 31),
      S(FALSE, 12, TRUE, 5, TRUE, SmallFields, 40),
      S(FALSE, 14, TRUE, 5, TRUE, {"max_concurrent"}, -1),
      S(FALSE, 16, TRUE, 3, TRUE, {"rate_limit"}, 41),
      S(FALSE, 8, FALSE, 6, TRUE, SmallFields, 50) }

\* The empty scope is a prefix of every URL; the loop takes it for a match and
\* ApplyScope for none.
Empty == S(TRUE, 0, FALSE, 0, TRUE, SmallFields, 60)

Lists ==
    UNION { { l \in [1..k -> Universe \cup {Empty}] : \A a, b \in 1..k :
                  (l[a] = l[b] \/ (l[a].isDefault /\ l[b].isDefault)) => a = b } :
            k \in 0..4 }
=============================================================================
