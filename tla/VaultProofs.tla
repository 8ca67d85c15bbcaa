---------------------------- MODULE VaultProofs ----------------------------
(***************************************************************************)
(* Proofs about VaultResolve, for any number of threads, logins, secrets   *)
(* and configurations, any TTL and any fetch time.  A step of VaultResolve *)
(* is a step of VaultToken or leaves its state alone, so what is shown     *)
(* of the token cache, for any leases, margin and login time, holds here.  *)
(***************************************************************************)
EXTENDS VaultResolve, TLAPS

-----------------------------------------------------------------------------
(* The login *)

\* A token on its way to the cache was issued at most LoginTime ago.
LoginRecent ==
    \A t \in Threads :
        pc[t] = "store" => myIssued[t] <= clock /\ clock - myIssued[t] <= LoginTime

\* A cached token's entry ends with its lifetime counted from the store.
EntrySound ==
    \A k \in Keys :
        k \in cached => expires[k] + Reserve(lease[k]) <= issued[k] + lease[k] + LoginTime

Inv == TypeOK /\ LoginRecent /\ EntrySound /\ TokenOutlivesUse

\* The lifetime of a cache entry and the reserve make up the lease.
LEMMA TtlAndReserve ==
    ASSUME NEW l \in Nat
    PROVE  Ttl(l) \in Nat /\ Reserve(l) \in Nat /\ Ttl(l) + Reserve(l) = l
  BY TokenAssumption DEF Ttl, Reserve

LEMMA InitInv == Init => Inv
  BY TokenAssumption
     DEF Init, Inv, TypeOK, LoginRecent, EntrySound, TokenOutlivesUse, PCs, Chain

LEMMA TypeStep == TypeOK /\ [Next]_vars => TypeOK'
<1> SUFFICES ASSUME TypeOK, [Next]_vars
             PROVE  TypeOK'
  OBVIOUS
<1> USE TokenAssumption
<1>1. ASSUME NEW t \in Threads, Store(t)
      PROVE  TypeOK'
  <2>1. clock + Ttl(myLease[t]) \in Nat
    <3>1. myLease[t] \in Nat /\ clock \in Nat
      BY <1>1 DEF TypeOK
    <3>2. Ttl(myLease[t]) \in Nat
      BY <3>1, TtlAndReserve
    <3> QED BY <3>1, <3>2
  <2> QED BY <1>1, <2>1 DEF Store, Goto, TypeOK, PCs, Chain
<1>2. ASSUME NEW t \in Threads, Step(t), ~Store(t)
      PROVE  TypeOK'
  BY <1>2 DEF Step, VaultTokenFromJwt, Call, Leave, Hit, Miss, Request, Throw, Login, Goto, cacheVars, TypeOK, PCs,
              Chain, After
<1>3. CASE Tick
  BY <1>3 DEF Tick, cacheVars, TypeOK
<1>4. CASE UNCHANGED vars
  BY <1>4 DEF vars, cacheVars, TypeOK
<1> QED BY <1>1, <1>2, <1>3, <1>4 DEF Next

LEMMA InvStep == Inv /\ [Next]_vars => Inv'
<1> SUFFICES ASSUME Inv, [Next]_vars
             PROVE  Inv'
  OBVIOUS
<1>1. TypeOK' /\ TypeOK
  BY TypeStep DEF Inv
<1> USE TokenAssumption DEF Inv
<1>2. CASE Tick
  BY <1>1, <1>2 DEF Tick, LoginInTime, cacheVars, TypeOK, LoginRecent, EntrySound, TokenOutlivesUse
<1>3. ASSUME NEW t \in Threads, NEW k \in Keys, Call(t, k)
      PROVE  Inv'
  BY <1>1, <1>3
     DEF Call, Goto, cacheVars, TypeOK, LoginRecent, EntrySound, TokenOutlivesUse
<1>9. ASSUME NEW t \in Threads, Leave(t)
      PROVE  Inv'
  BY <1>1, <1>9
     DEF Leave, Goto, cacheVars, TypeOK, LoginRecent, EntrySound, TokenOutlivesUse
<1>4. ASSUME NEW t \in Threads, Hit(t)
      PROVE  Inv'
  <2>1. clock + Reserve(lease[key[t]]) <= issued[key[t]] + lease[key[t]] + LoginTime
    <3>1. lease[key[t]] \in Nat /\ issued[key[t]] \in Nat /\ expires[key[t]] \in Nat /\ clock \in Nat
      BY <1>1, <1>4 DEF TypeOK
    <3>2. clock < expires[key[t]]
          /\ expires[key[t]] + Reserve(lease[key[t]]) <= issued[key[t]] + lease[key[t]] + LoginTime
      BY <1>1, <1>4 DEF Hit, Alive, EntrySound, TypeOK
    <3>3. Reserve(lease[key[t]]) \in Nat
      BY <3>1, TtlAndReserve
    <3> QED BY <3>1, <3>2, <3>3
  <2> QED BY <1>1, <1>4, <2>1
     DEF Hit, Goto, cacheVars, TypeOK, LoginRecent, EntrySound, TokenOutlivesUse
<1>5. ASSUME NEW t \in Threads, Miss(t) \/ Request(t) \/ Throw(t)
      PROVE  Inv'
  BY <1>1, <1>5
     DEF Miss, Request, Throw, Goto, Chain, After, cacheVars, TypeOK, LoginRecent, EntrySound,
         TokenOutlivesUse
<1>6. ASSUME NEW t \in Threads, NEW l \in Leases, Login(t, l)
      PROVE  Inv'
  BY <1>1, <1>6
     DEF Login, Goto, cacheVars, TypeOK, LoginRecent, EntrySound, TokenOutlivesUse
<1>7. ASSUME NEW t \in Threads, Store(t)
      PROVE  Inv'
  <2> DEFINE l == myLease[t]
  <2>1. l \in Nat /\ clock \in Nat /\ myIssued[t] \in Nat /\ clock <= myIssued[t] + LoginTime
    BY <1>1, <1>7 DEF Store, TypeOK, LoginRecent
  <2>2. Ttl(l) \in Nat /\ Reserve(l) \in Nat /\ Ttl(l) + Reserve(l) = l
    BY <2>1, TtlAndReserve
  <2>3. clock + Ttl(l) + Reserve(l) <= myIssued[t] + l + LoginTime
        /\ clock + Reserve(l) <= myIssued[t] + l + LoginTime
    BY <2>1, <2>2
  <2>4. EntrySound'
    BY <1>1, <1>7, <2>3 DEF Store, TypeOK, EntrySound
  <2> QED BY <1>1, <1>7, <2>3, <2>4 DEF Store, Goto, TypeOK, LoginRecent, TokenOutlivesUse
<1>8. CASE UNCHANGED vars
  BY <1>8 DEF vars, cacheVars, TypeOK, LoginRecent, EntrySound, TokenOutlivesUse
<1> QED BY <1>2, <1>3, <1>4, <1>5, <1>6, <1>7, <1>8, <1>9 DEF Next, Step, VaultTokenFromJwt

\* However logins race, the token VaultTokenFromJwt returns has its reserve of
\* the lease left, less the time of one login.
THEOREM TokenIsUsable == Spec => []TokenOutlivesUse
<1>1. Inv => TokenOutlivesUse
  BY DEF Inv
<1> QED BY <1>1, InitInv, InvStep, PTL DEF Spec

-----------------------------------------------------------------------------
(* The secrets *)

\* A fetch in progress began at most FetchTime ago, and brings a secret that
\* Vault served since.
FetchRecent ==
    \A t \in Threads :
        /\ stage[t] \in {"fetch", "store"} => began[t] <= clock /\ clock - began[t] <= FetchTime
        /\ stage[t] = "store" => began[t] <= secret[t]

\* A cached secret was served at most FetchTime before it was stored, and
\* neither lies in the future.
SecretRecent ==
    \A s \in Secrets :
        s \in known => /\ value[s] <= clock
                       /\ fetchedAt[s] <= clock
                       /\ fetchedAt[s] - value[s] <= FetchTime

\* No thread holds a secret from the future.
NotFuture == \A t \in Threads : secret[t] <= clock

\* What a thread that fetched has, seen without the configuration.
SecretAge ==
    \A t \in Threads : stage[t] \in {"session", "sent"} => gotAt[t] - secret[t] <= TTL + FetchTime

\* A thread has reset what its last request left.
Reset ==
    \A t \in Threads :
        stage[t] \in {"idle", "token", "check"} => secret[t] = 0 /\ gotAt[t] = 0

SecretInv ==
    ResolveTypeOK /\ FetchRecent /\ SecretRecent /\ NotFuture /\ SecretAge /\ Reset

LEMMA AnyConfigTyped == AnyConfig \in Configs
  BY VaultAssumption DEF AnyConfig

LEMMA ConfigTyped ==
    ASSUME NEW c \in Configs
    PROVE  /\ c.key \in Keys
           /\ c.path # NoPath => c.path \in Secrets
  BY VaultAssumption

LEMMA CredentialTyped ==
    ASSUME NEW c \in Configs
    PROVE  Credential(c) \in Credentials
  BY VaultAssumption DEF Credential, Bearer, Credentials

\* A step of the resolution is a step of the login, or leaves its state alone.
LEMMA LoginStep == [ResolveNext]_allVars => [Next]_vars
<1> SUFFICES ASSUME ResolveNext
             PROVE  [Next]_vars
  BY DEF allVars
<1>1. ASSUME NEW t \in Threads, Leave(t) \/ VaultTokenFromJwt(t) \/ UNCHANGED vars
      PROVE  [Next]_vars
  BY <1>1 DEF Next, Step
<1>2. ASSUME NEW t \in Threads, NEW c \in Configs, ResolveVaultAuth(t, c)
      PROVE  [Next]_vars
  BY <1>2, ConfigTyped DEF ResolveVaultAuth, Next, Step
<1>3. CASE ResolveTick
  BY <1>3 DEF ResolveTick, Next
<1>4. CASE Revoke
  BY <1>4 DEF Revoke
<1> QED BY <1>1, <1>2, <1>3, <1>4
     DEF ResolveNext, ResolveStep, LoggingIn, LoginThrew, SecretHit, SecretMiss, Answer, Fail,
         SecretStore, BuildSession, BuildFails, Perform, Return

LEMMA SecretInit == ResolveInit => SecretInv
<1> SUFFICES ASSUME ResolveInit
             PROVE  SecretInv
  OBVIOUS
<1>1. TypeOK
  BY InitInv DEF ResolveInit, Inv
<1>2. ResolveTypeOK
  BY <1>1, AnyConfigTyped DEF ResolveInit, ResolveTypeOK, Stages, Credentials
<1>3. clock = 0
  BY DEF ResolveInit, Init
<1>4. /\ stage = [t \in Threads |-> "idle"]
      /\ known = {}
      /\ secret = [t \in Threads |-> 0]
      /\ gotAt = [t \in Threads |-> 0]
  BY DEF ResolveInit
<1> QED BY <1>2, <1>3, <1>4, VaultAssumption
     DEF SecretInv, FetchRecent, SecretRecent, NotFuture, SecretAge, Reset

\* The clock only moves with Tick.
LEMMA ClockStays ==
    ASSUME NEW t \in Threads, Leave(t) \/ VaultTokenFromJwt(t) \/ (\E k \in Keys : Call(t, k))
    PROVE  clock' = clock
  BY DEF Leave, VaultTokenFromJwt, Call, Hit, Miss, Request, Throw, Store, Login

LEMMA SecretStep == SecretInv /\ [ResolveNext]_allVars => SecretInv'
<1> SUFFICES ASSUME SecretInv, [ResolveNext]_allVars
             PROVE  SecretInv'
  OBVIOUS
<1>1. TypeOK /\ TypeOK'
  BY LoginStep, TypeStep DEF SecretInv, ResolveTypeOK
<1>2. clock \in Nat /\ TTL \in Nat /\ FetchTime \in Nat
  BY <1>1, VaultAssumption DEF TypeOK
<1>3. CASE ResolveTick
  BY <1>1, <1>2, <1>3
     DEF ResolveTick, InTime, Tick, resolveVars, secretVars, SecretInv, ResolveTypeOK,
         FetchRecent, SecretRecent, NotFuture, SecretAge, Reset
<1>4. CASE Revoke
  <2>1. clock' = clock
    BY <1>4 DEF Revoke, vars
  <2> QED BY <1>1, <1>2, <1>4, <2>1
     DEF Revoke, secretVars, SecretInv, ResolveTypeOK, FetchRecent, SecretRecent, NotFuture,
         SecretAge, Reset
<1>5. ASSUME NEW t \in Threads, NEW c \in Configs, ResolveVaultAuth(t, c)
      PROVE  SecretInv'
  <2>1. clock' = clock
    BY <1>5, ClockStays, ConfigTyped DEF ResolveVaultAuth, vars
  <2>2. PICK l \in {"token", "check", "session"} :
            stage' = [stage EXCEPT ![t] = l] /\ (l # "session" => c.path \in Secrets)
    BY <1>5, ConfigTyped DEF ResolveVaultAuth, LogsIn, Fetches, Enter
  <2>3. secret[t] = 0 /\ gotAt[t] = 0
    BY <1>5 DEF ResolveVaultAuth, SecretInv, Reset
  <2>4. /\ config' = [config EXCEPT ![t] = c]
        /\ UNCHANGED <<known, value, fetchedAt, began, secret, gotAt, sent, revoked>>
    BY <1>5 DEF ResolveVaultAuth, secretVars
  <2>8. ResolveTypeOK'
    BY <1>1, <2>2, <2>4 DEF SecretInv, ResolveTypeOK, Stages
  <2>9. (FetchRecent /\ SecretRecent /\ NotFuture /\ SecretAge /\ Reset)'
    BY <1>2, <2>1, <2>2, <2>3, <2>4
       DEF SecretInv, ResolveTypeOK, FetchRecent, SecretRecent, NotFuture, SecretAge, Reset
  <2> QED BY <2>8, <2>9 DEF SecretInv
<1>6. ASSUME NEW t \in Threads, Return(t)
      PROVE  SecretInv'
  <2>1. clock' = clock
    BY <1>6, ClockStays DEF Return
  <2>8. ResolveTypeOK'
    BY <1>1, <1>2, <1>6, <2>1, AnyConfigTyped
       DEF Return, Enter, Stages, secretVars, SecretInv, ResolveTypeOK, Credentials
  <2>9. (FetchRecent /\ SecretRecent /\ NotFuture /\ SecretAge /\ Reset)'
    <3>1. /\ stage' = [stage EXCEPT ![t] = "idle"]
          /\ secret' = [secret EXCEPT ![t] = 0]
          /\ gotAt' = [gotAt EXCEPT ![t] = 0]
          /\ began' = [began EXCEPT ![t] = 0]
          /\ UNCHANGED <<known, value, fetchedAt>>
      BY <1>6 DEF Return, Enter, secretVars
    <3> QED BY <1>2, <2>1, <3>1
       DEF SecretInv, ResolveTypeOK, FetchRecent, SecretRecent, NotFuture, SecretAge, Reset
  <2> QED BY <2>8, <2>9 DEF SecretInv
<1>7. ASSUME NEW t \in Threads, LoggingIn(t)
      PROVE  SecretInv'
  <2>1. clock' = clock
    BY <1>7, ClockStays DEF LoggingIn
  <2>8. ResolveTypeOK'
    BY <1>1, <1>2, <1>7, <2>1
       DEF LoggingIn, Enter, Stages, secretVars, SecretInv, ResolveTypeOK
  <2>9. (FetchRecent /\ SecretRecent /\ NotFuture /\ SecretAge /\ Reset)'
    BY <1>1, <1>2, <1>7, <2>1
       DEF LoggingIn, Enter, secretVars, SecretInv, ResolveTypeOK, FetchRecent, SecretRecent,
           NotFuture, SecretAge, Reset
  <2> QED BY <2>8, <2>9 DEF SecretInv
<1>8. ASSUME NEW t \in Threads, SecretHit(t)
      PROVE  SecretInv'
  <2>1. clock' = clock
    BY <1>8 DEF SecretHit, vars
  <2>2. value[config[t].path] \in Nat
        /\ value[config[t].path] <= clock /\ clock - value[config[t].path] <= TTL + FetchTime
    BY <1>2, <1>8 DEF SecretHit, Fresh, SecretInv, ResolveTypeOK, SecretRecent
  <2>8. ResolveTypeOK'
    BY <1>1, <1>2, <1>8, <2>1, <2>2
       DEF SecretHit, Enter, Stages, secretVars, SecretInv, ResolveTypeOK
  <2>9. (FetchRecent /\ SecretRecent /\ NotFuture /\ SecretAge /\ Reset)'
    BY <1>1, <1>2, <1>8, <2>1, <2>2
       DEF SecretHit, Enter, secretVars, SecretInv, ResolveTypeOK, FetchRecent, SecretRecent,
           NotFuture, SecretAge, Reset
  <2> QED BY <2>8, <2>9 DEF SecretInv
<1>9. ASSUME NEW t \in Threads, SecretMiss(t)
      PROVE  SecretInv'
  <2>1. clock' = clock
    BY <1>9 DEF SecretMiss, vars
  <2>8. ResolveTypeOK'
    BY <1>1, <1>2, <1>9, <2>1
       DEF SecretMiss, Enter, Stages, secretVars, SecretInv, ResolveTypeOK
  <2>9. (FetchRecent /\ SecretRecent /\ NotFuture /\ SecretAge /\ Reset)'
    BY <1>1, <1>2, <1>9, <2>1
       DEF SecretMiss, Enter, secretVars, SecretInv, ResolveTypeOK, FetchRecent, SecretRecent,
           NotFuture, SecretAge, Reset
  <2> QED BY <2>8, <2>9 DEF SecretInv
<1>10. ASSUME NEW t \in Threads, Answer(t)
       PROVE  SecretInv'
  <2>1. clock' = clock
    BY <1>10 DEF Answer, vars
  <2>8. ResolveTypeOK'
    BY <1>1, <1>2, <1>10, <2>1
       DEF Answer, Enter, Stages, secretVars, SecretInv, ResolveTypeOK
  <2>9. (FetchRecent /\ SecretRecent /\ NotFuture /\ SecretAge /\ Reset)'
    BY <1>1, <1>2, <1>10, <2>1
       DEF Answer, Enter, secretVars, SecretInv, ResolveTypeOK, FetchRecent, SecretRecent,
           NotFuture, SecretAge, Reset
  <2> QED BY <2>8, <2>9 DEF SecretInv
<1>11. ASSUME NEW t \in Threads, SecretStore(t)
       PROVE  SecretInv'
  <2>1. clock' = clock
    BY <1>11 DEF SecretStore, vars
  <2>2. clock - secret[t] <= FetchTime /\ secret[t] <= clock /\ secret[t] \in Nat
    BY <1>2, <1>11 DEF SecretStore, SecretInv, ResolveTypeOK, FetchRecent, NotFuture
  <2>8. ResolveTypeOK'
    BY <1>1, <1>2, <1>11, <2>1, <2>2
       DEF SecretStore, Stamp, Enter, Stages, secretVars, SecretInv, ResolveTypeOK
  <2>9. (FetchRecent /\ SecretRecent /\ NotFuture /\ SecretAge /\ Reset)'
    BY <1>1, <1>2, <1>11, <2>1, <2>2
       DEF SecretStore, Stamp, Enter, secretVars, SecretInv, ResolveTypeOK, FetchRecent, SecretRecent,
           NotFuture, SecretAge, Reset
  <2> QED BY <2>8, <2>9 DEF SecretInv
<1>12. ASSUME NEW t \in Threads, BuildSession(t)
       PROVE  SecretInv'
  <2>1. clock' = clock
    BY <1>12 DEF BuildSession, vars
  <2>2. Credential(config[t]) \in Credentials
    BY CredentialTyped DEF SecretInv, ResolveTypeOK
  <2>8. ResolveTypeOK'
    BY <1>1, <1>2, <1>12, <2>1, <2>2
       DEF BuildSession, Enter, Stages, secretVars, SecretInv, ResolveTypeOK
  <2>9. (FetchRecent /\ SecretRecent /\ NotFuture /\ SecretAge /\ Reset)'
    BY <1>1, <1>2, <1>12, <2>1, <2>2
       DEF BuildSession, Enter, secretVars, SecretInv, ResolveTypeOK, FetchRecent, SecretRecent,
           NotFuture, SecretAge, Reset
  <2> QED BY <2>8, <2>9 DEF SecretInv
<1>13. CASE UNCHANGED allVars
  BY <1>1, <1>13
     DEF allVars, vars, resolveVars, secretVars, SecretInv, ResolveTypeOK, FetchRecent,
         SecretRecent, NotFuture, SecretAge, Reset
<1> QED BY <1>3, <1>4, <1>5, <1>6, <1>7, <1>8, <1>9, <1>10, <1>11, <1>12, <1>13
     DEF ResolveNext, ResolveStep, LoginThrew, Fail, BuildFails, Perform

-----------------------------------------------------------------------------
\* Every variable of the resolution keeps its type, and no thread looks for a
\* secret without a path.
THEOREM ResolveTypeCorrect == ResolveSpec => []ResolveTypeOK
<1>1. SecretInv => ResolveTypeOK
  BY DEF SecretInv
<1> QED BY <1>1, SecretInit, SecretStep, PTL DEF ResolveSpec

\* However fetches race, no request gets a secret older than the TTL plus one
\* fetch.
THEOREM StalenessIsBounded == ResolveSpec => []BoundedStaleness
<1>1. SecretInv => BoundedStaleness
  BY DEF SecretInv, SecretAge, BoundedStaleness
<1> QED BY <1>1, SecretInit, SecretStep, PTL DEF ResolveSpec

\* A late store puts back a secret at most one fetch older.
THEOREM RegressionIsBounded == ResolveSpec => RegressionBounded
<1>1. ASSUME SecretInv, [ResolveNext]_allVars
      PROVE  [\A s \in Secrets : s \in known => value'[s] + FetchTime >= value[s]]_allVars
  <2> SUFFICES ASSUME NEW s \in Secrets, s \in known, ResolveNext
               PROVE  value'[s] + FetchTime >= value[s]
    BY <1>1 DEF allVars
  <2>1. value[s] \in Nat /\ FetchTime \in Nat /\ value[s] <= clock /\ clock \in Nat
    BY <1>1, VaultAssumption DEF SecretInv, ResolveTypeOK, TypeOK, SecretRecent
  <2>2. CASE value' = value
    BY <2>1, <2>2
  <2>3. ASSUME NEW t \in Threads, SecretStore(t)
        PROVE  value'[s] + FetchTime >= value[s]
    <3>1. clock - secret[t] <= FetchTime /\ secret[t] \in Nat
      BY <1>1, <2>1, <2>3 DEF SecretInv, ResolveTypeOK, FetchRecent, SecretStore
    <3>2. value'[s] = secret[t] \/ value'[s] = value[s]
      BY <1>1, <2>3 DEF SecretInv, ResolveTypeOK, SecretStore
    <3> QED BY <2>1, <3>1, <3>2
  <2> QED BY <2>2, <2>3, AnyConfigTyped
     DEF ResolveNext, ResolveStep, ResolveTick, Revoke, ResolveVaultAuth, LoggingIn, LoginThrew,
         SecretHit, SecretMiss, Answer, Fail, BuildSession, BuildFails, Perform, Return,
         resolveVars, secretVars
<1> QED BY <1>1, SecretInit, SecretStep, PTL DEF ResolveSpec, RegressionBounded

-----------------------------------------------------------------------------
\* The login inside a resolution is the login of VaultToken: resolving secrets
\* adds nothing to what the token cache can do.
THEOREM ResolveImplementsLogin == ResolveSpec => Spec
<1>1. ResolveInit => Init
  BY DEF ResolveInit
<1> QED BY <1>1, LoginStep, PTL DEF ResolveSpec, Spec

\* So the token a request presents to Vault has its reserve of the lease left,
\* less the time of one login.
THEOREM ResolvedTokenIsUsable == ResolveSpec => []TokenOutlivesUse
  BY ResolveImplementsLogin, TokenIsUsable, PTL

\* Once a login's time has passed since the revocation, no store puts a revoked
\* token over a live one: a token on its way to the cache was issued at most a
\* login's time ago.
THEOREM OutageIsOver == ResolveSpec => OutageStaysOver
<1>1. ASSUME Inv, ResolveTypeOK, [ResolveNext]_allVars
      PROVE  [\A k \in cached : issued[k] >= revoked /\ issued'[k] < revoked
                                   => clock < revoked + LoginTime]_allVars
  <2> SUFFICES ASSUME NEW k \in cached, issued[k] >= revoked, issued'[k] < revoked
               PROVE  clock < revoked + LoginTime
    OBVIOUS
  <2>1. [Next]_vars
    BY <1>1, LoginStep
  <2>2. /\ clock \in Nat /\ revoked \in Nat /\ LoginTime \in Nat /\ k \in Keys
        /\ issued \in [Keys -> Nat]
    BY <1>1, TokenAssumption DEF ResolveTypeOK, TypeOK
  <2>3. issued' # issued
    BY <2>2
  <2>4. PICK t \in Threads : Store(t)
    BY <2>1, <2>3
       DEF Next, Step, VaultTokenFromJwt, Tick, Call, Leave, Hit, Miss, Request, Throw, Login,
           vars, cacheVars
  <2>5. issued'[k] = myIssued[t]
    BY <2>2, <2>4 DEF Store
  <2>6. myIssued[t] \in Nat /\ clock - myIssued[t] <= LoginTime
    BY <1>1, <2>4 DEF Inv, TypeOK, LoginRecent, Store
  <2> QED BY <2>2, <2>5, <2>6
<1>2. ResolveInit => Inv
  BY InitInv DEF ResolveInit
<1>3. Inv /\ [ResolveNext]_allVars => Inv'
  BY LoginStep, InvStep
<1> QED BY <1>1, <1>2, <1>3, ResolveTypeCorrect, PTL DEF ResolveSpec, OutageStaysOver

\* A request whose configuration fetches has its secret in the cache when it gets
\* to BuildSession, and goes out with the credential BuildSession chose.
Supplied ==
    \A t \in Threads :
        /\ stage[t] \in {"session", "sent"} /\ Fetches(config[t]) => config[t].path \in known
        /\ stage[t] = "sent" => sent[t] = Credential(config[t])

LEMMA SuppliedStep == ResolveTypeOK /\ Supplied /\ [ResolveNext]_allVars => Supplied'
<1> SUFFICES ASSUME ResolveTypeOK, Supplied, [ResolveNext]_allVars
             PROVE  Supplied'
  OBVIOUS
<1>1. ASSUME NEW t \in Threads, Return(t)
      PROVE  Supplied'
  <2>1. /\ stage' = [stage EXCEPT ![t] = "idle"] /\ known' = known
        /\ \A u \in Threads : u # t => config'[u] = config[u] /\ sent'[u] = sent[u]
    BY <1>1 DEF Return, Enter, secretVars, ResolveTypeOK
  <2> QED BY <2>1 DEF Supplied, ResolveTypeOK
<1>2. ASSUME NEW t \in Threads, NEW c \in Configs, ResolveVaultAuth(t, c)
      PROVE  Supplied'
  <2>1. /\ known' = known /\ sent' = sent
        /\ \A u \in Threads : u # t => config'[u] = config[u] /\ stage'[u] = stage[u]
    BY <1>2 DEF ResolveVaultAuth, Enter, secretVars, ResolveTypeOK
  <2>2. config'[t] = c /\ stage'[t] # "sent" /\ (stage'[t] = "session" => ~Fetches(c))
    BY <1>2 DEF ResolveVaultAuth, Enter, ResolveTypeOK
  <2> QED BY <2>1, <2>2 DEF Supplied
<1>3. ASSUME NEW t \in Threads, LoggingIn(t) \/ SecretMiss(t) \/ Answer(t)
      PROVE  Supplied'
  <2>1. /\ known' = known /\ sent' = sent /\ config' = config
        /\ \A u \in Threads : u # t => stage'[u] = stage[u]
        /\ stage'[t] \notin {"session", "sent"}
    BY <1>3 DEF LoggingIn, SecretMiss, Answer, Enter, secretVars, ResolveTypeOK
  <2> QED BY <2>1 DEF Supplied
<1>4. ASSUME NEW t \in Threads, SecretHit(t) \/ SecretStore(t)
      PROVE  Supplied'
  <2>1. /\ sent' = sent /\ config' = config /\ known \subseteq known'
        /\ \A u \in Threads : u # t => stage'[u] = stage[u]
        /\ stage'[t] = "session" /\ config[t].path \in known'
    BY <1>4 DEF SecretHit, SecretStore, Fresh, Enter, secretVars, ResolveTypeOK
  <2> QED BY <2>1 DEF Supplied
<1>5. ASSUME NEW t \in Threads, BuildSession(t)
      PROVE  Supplied'
  <2>1. /\ known' = known /\ config' = config /\ stage[t] = "session"
        /\ \A u \in Threads : u # t => stage'[u] = stage[u] /\ sent'[u] = sent[u]
        /\ stage'[t] = "sent" /\ sent'[t] = Credential(config[t])
    BY <1>5 DEF BuildSession, Enter, secretVars, ResolveTypeOK
  <2> QED BY <2>1 DEF Supplied
<1>6. CASE ResolveTick \/ Revoke \/ UNCHANGED allVars
  BY <1>6 DEF ResolveTick, Revoke, allVars, resolveVars, secretVars, Supplied
<1> QED BY <1>1, <1>2, <1>3, <1>4, <1>5, <1>6
     DEF ResolveNext, ResolveStep, LoginThrew, Fail, BuildFails, Perform

\* A bearer request that names a secret never goes out bare, nor with the token
\* given beside it: whatever fails on the way, an exception ends the request.
THEOREM SecretIsSentOrNothing == ResolveSpec => []SecretOrNothing
<1>1. Supplied => SecretOrNothing
  <2> SUFFICES ASSUME Supplied, NEW t \in Threads, stage[t] = "sent",
                      config[t].auth = "bearer", config[t].path # NoPath,
                      config[t].method = "jwt" \/ config[t].token, ~config[t].own
               PROVE  sent[t] = "secret" /\ config[t].path \in known
    BY DEF SecretOrNothing
  <2>1. Fetches(config[t])
    BY DEF Fetches
  <2>2. Credential(config[t]) = "secret"
    BY <2>1 DEF Credential, Bearer
  <2> QED BY <2>1, <2>2 DEF Supplied
<1>2. ResolveInit => Supplied
  <2> SUFFICES ASSUME ResolveInit PROVE Supplied
    OBVIOUS
  <2>1. stage = [t \in Threads |-> "idle"]
    BY DEF ResolveInit
  <2> QED BY <2>1 DEF Supplied
<1> QED BY <1>1, <1>2, SuppliedStep, ResolveTypeCorrect, PTL DEF ResolveSpec
=============================================================================
