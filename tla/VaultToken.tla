----------------------------- MODULE VaultToken -----------------------------
(***************************************************************************)
(* VaultTokenFromJwt and SsoJwt (src/blobhttp_oidc.cpp): the process-wide  *)
(* cache of Vault tokens, filled by a chain of four requests without a     *)
(* lock: OIDC discovery, the authorization with a Kerberos ticket, the     *)
(* exchange of its code for a JWT, and the login to Vault with the JWT.    *)
(*                                                                         *)
(* A token is modelled by the instant Vault issued it and its lease.       *)
(***************************************************************************)
EXTENDS Integers

CONSTANTS
    Threads,     \* the threads that resolve Vault secrets
    Keys,        \* cache keys: Vault address, role, issuer and client
    Complete,    \* the keys whose configuration names an issuer, a client and a role
    Leases,      \* the lease_duration values Vault may grant
    Margin,      \* "a minute early": 60 seconds
    LoginTime,   \* the longest time from Vault issuing a token to its store:
                 \* the timeout of the login request, and parsing its answer
    MaxClock     \* bound: time

ASSUME TokenAssumption ==
    /\ Complete \subseteq Keys
    /\ Leases \subseteq Nat
    /\ Margin \in Nat
    /\ LoginTime \in Nat
    /\ MaxClock \in Nat

VARIABLES
    clock,       \* std::chrono::steady_clock
    cached,      \* the keys that have an entry in the cache
    issued,      \* when Vault issued the cached token of a key
    lease,       \* its lease
    expires,     \* expires_at of a key's entry
    pc,          \* where each thread is
    key,         \* the key a thread asks for
    myIssued,    \* when the token a thread has was issued
    myLease,     \* its lease
    returnedAt   \* history: when the thread's last call returned

cacheVars == <<cached, issued, lease, expires>>
vars == <<clock, cacheVars, pc, key, myIssued, myLease, returnedAt>>

\* The chain of requests, and the request that follows each.
Chain == {"discover", "authorize", "exchange", "login"}
After == [discover |-> "authorize", authorize |-> "exchange", exchange |-> "login"]

PCs == Chain \cup {"idle", "check", "store", "returned", "threw"}

TypeOK ==
    /\ clock \in Nat
    /\ cached \subseteq Keys
    /\ issued \in [Keys -> Nat]
    /\ lease \in [Keys -> Nat]
    /\ expires \in [Keys -> Nat]
    /\ pc \in [Threads -> PCs]
    /\ key \in [Threads -> Keys]
    /\ myIssued \in [Threads -> Nat]
    /\ myLease \in [Threads -> Nat]
    /\ returnedAt \in [Threads -> Nat]

Init ==
    /\ clock = 0
    /\ cached = {}
    /\ issued = [k \in Keys |-> 0]
    /\ lease = [k \in Keys |-> 0]
    /\ expires = [k \in Keys |-> 0]
    /\ pc = [t \in Threads |-> "idle"]
    /\ key \in [Threads -> Keys]
    /\ myIssued = [t \in Threads |-> 0]
    /\ myLease = [t \in Threads |-> 0]
    /\ returnedAt = [t \in Threads |-> 0]

Goto(t, label) == pc' = [pc EXCEPT ![t] = label]

Call(t, k) ==
    /\ pc[t] = "idle"
    /\ key' = [key EXCEPT ![t] = k]
    /\ Goto(t, "check")
    /\ UNCHANGED <<clock, cacheVars, myIssued, myLease, returnedAt>>

\* The caller is done with the token, or with the error.
Leave(t) ==
    /\ pc[t] \in {"idle", "returned", "threw"}
    /\ myIssued' = [myIssued EXCEPT ![t] = 0]
    /\ myLease' = [myLease EXCEPT ![t] = 0]
    /\ returnedAt' = [returnedAt EXCEPT ![t] = 0]
    /\ Goto(t, "idle")
    /\ UNCHANGED <<clock, cacheVars, key>>

\* The check under the lock: a token is used until the entry expires.
Alive(k) == k \in cached /\ clock < expires[k]

Hit(t) ==
    /\ pc[t] = "check"
    /\ Alive(key[t])
    /\ myIssued' = [myIssued EXCEPT ![t] = issued[key[t]]]
    /\ myLease' = [myLease EXCEPT ![t] = lease[key[t]]]
    /\ returnedAt' = [returnedAt EXCEPT ![t] = clock]
    /\ Goto(t, "returned")
    /\ UNCHANGED <<clock, cacheVars, key>>

\* The configuration is only looked at when there is no token.
Miss(t) ==
    /\ pc[t] = "check"
    /\ ~Alive(key[t])
    /\ Goto(t, IF key[t] \in Complete THEN "discover" ELSE "threw")
    /\ UNCHANGED <<clock, cacheVars, key, myIssued, myLease, returnedAt>>

\* Discover, AuthorizeWithSpnego and ExchangeCode, each answered.
Request(t) ==
    /\ pc[t] \in Chain \ {"login"}
    /\ Goto(t, After[pc[t]])
    /\ UNCHANGED <<clock, cacheVars, key, myIssued, myLease, returnedAt>>

\* Vault accepts the JWT and issues a token.
Login(t, l) ==
    /\ pc[t] = "login"
    /\ myIssued' = [myIssued EXCEPT ![t] = clock]
    /\ myLease' = [myLease EXCEPT ![t] = l]
    /\ Goto(t, "store")
    /\ UNCHANGED <<clock, cacheVars, key, returnedAt>>

\* A request of the chain fails, or its answer lacks what the next one needs;
\* so may Vault's.
Throw(t) ==
    /\ pc[t] \in Chain \cup {"store"}
    /\ Goto(t, "threw")
    /\ UNCHANGED <<clock, cacheVars, key, myIssued, myLease, returnedAt>>

\* How long a token is kept: a minute less than its lease, or half of a short
\* lease.
Ttl_Late(l) == l + Margin
Ttl(l) == IF l > 2 * Margin THEN l - Margin ELSE l \div 2

\* The lifetime is counted from the store, not from Vault's answer.
Store(t) ==
    /\ pc[t] = "store"
    /\ cached' = cached \cup {key[t]}
    /\ issued' = [issued EXCEPT ![key[t]] = myIssued[t]]
    /\ lease' = [lease EXCEPT ![key[t]] = myLease[t]]
    /\ expires' = [expires EXCEPT ![key[t]] = clock + Ttl(myLease[t])]
    /\ returnedAt' = [returnedAt EXCEPT ![t] = clock]
    /\ Goto(t, "returned")
    /\ UNCHANGED <<clock, key, myIssued, myLease>>

\* The login's timeout: a token is stored at most LoginTime after its issue.
LoginInTime_Never == TRUE
LoginInTime == \A t \in Threads : pc[t] = "store" => clock - myIssued[t] < LoginTime

Tick ==
    /\ clock < MaxClock
    /\ LoginInTime
    /\ clock' = clock + 1
    /\ UNCHANGED <<cacheVars, pc, key, myIssued, myLease, returnedAt>>

VaultTokenFromJwt(t) ==
    \/ Hit(t) \/ Miss(t) \/ Request(t) \/ Throw(t) \/ Store(t)
    \/ \E l \in Leases : Login(t, l)

Step(t) == VaultTokenFromJwt(t) \/ Leave(t) \/ \E k \in Keys : Call(t, k)

Next == Tick \/ \E t \in Threads : Step(t)

Spec == Init /\ [][Next]_vars

-----------------------------------------------------------------------------
\* "Re-login a minute early": what the code means to keep in reserve of a lease.
Reserve(l) == IF l > 2 * Margin THEN Margin ELSE l - l \div 2

\* A token is handed out with its reserve left, less the time the login took to
\* be stored: for leases above two minutes never within a minute, less a login,
\* of its expiry, whichever of several racing logins was stored last.
TokenOutlivesUse ==
    \A t \in Threads :
        pc[t] = "returned" =>
            returnedAt[t] + Reserve(myLease[t]) <= myIssued[t] + myLease[t] + LoginTime
=============================================================================
