---------------------------- MODULE AcquireProofs ----------------------------
(***************************************************************************)
(* Theorems about AcquireRateLimit, for every rate, burst, retry bound and *)
(* set of threads.                                                         *)
(***************************************************************************)
EXTENDS WireRate, FiniteSetTheorems, TLAPS

USE LimiterAssumption

TypeInv == TypeOK /\ Shape

\* The lists of counters a call or a response increments.
LEMMA RecordList ==
  ASSUME NEW t \in Threads
  PROVE  Record(t) \in Seq(Counters) /\ Record(t) # <<>>
  <1>1. /\ <<"requests", "paced">> \in Seq(Counters) \ {<<>>}
        /\ <<"requests">> \in Seq(Counters) \ {<<>>}
    BY DEF Counters
  <1> QED
    BY <1>1 DEF Record

LEMMA ResponseList ==
  /\ <<"responses", "throttled">> \in Seq(Counters) \ {<<>>}
  /\ <<"responses">> \in Seq(Counters) \ {<<>>}
  BY DEF Counters

LEMMA HeadTail ==
  ASSUME NEW l \in Seq(Counters), l # <<>>
  PROVE  Head(l) \in Counters /\ Tail(l) \in Seq(Counters)
  OBVIOUS

LEMMA TypeInit == Init => TypeInv
  BY DEF Init, TypeInv, TypeOK, Shape, Counters, PCs, None

LEMMA TypeStep == TypeInv /\ [Next]_vars => TypeInv'
  <1> SUFFICES ASSUME TypeInv, [Next]_vars PROVE TypeInv'
    OBVIOUS
  <1> USE DEF TypeInv, TypeOK, Shape, limiterVars, callVars, history
  <1>1. CASE Tick
    BY <1>1 DEF Tick
  <1>2. ASSUME NEW t \in Threads, Step(t) PROVE TypeInv'
    <2> USE DEF Goto, PCs
    <2>1. CASE Enter(t)
      BY <2>1, SMTT(30) DEF Enter
    <2>2. CASE TryAcquire(t)
      BY <2>2, SMTT(30) DEF TryAcquire, Later
    <2>3. CASE StoreTat(t)
      <3>1. /\ Record(t) \in Seq(Counters)
            /\ Record(t) # <<>>
        BY RecordList
      <3>2. todo' = [todo EXCEPT ![t] = Record(t)]
        BY <2>3 DEF StoreTat
      <3>3. todo' \in [Threads -> Seq(Counters)]
        BY <3>1, <3>2
      <3>4. TypeOK'
        BY <2>3, <3>3 DEF StoreTat
      <3>5. Shape'
        BY <2>3, <3>1, <3>2 DEF StoreTat
      <3> QED
        BY <3>4, <3>5
    <2>4. CASE Denied(t)
      BY <2>4, SMTT(30) DEF Denied, MayRetry
    <2>5. CASE GiveUp(t)
      <3>1. /\ Record(t) \in Seq(Counters)
            /\ Record(t) # <<>>
        BY RecordList
      <3>2. todo' = [todo EXCEPT ![t] = Record(t)]
        BY <2>5 DEF GiveUp
      <3>3. todo' \in [Threads -> Seq(Counters)]
        BY <3>1, <3>2
      <3>4. TypeOK'
        BY <2>5, <3>3 DEF GiveUp
      <3>5. Shape'
        BY <2>5, <3>1, <3>2 DEF GiveUp
      <3> QED
        BY <3>4, <3>5
    <2>6. CASE Sleep(t)
      BY <2>6 DEF Sleep, WaitTime
    <2>7. CASE Spin(t)
      BY <2>7 DEF Spin
    <2>8. CASE Wake(t)
      BY <2>8 DEF Wake
    <2>9. CASE CountLoad(t)
      <3>1. Head(todo[t]) \in Counters
        BY <2>9, HeadTail DEF CountLoad
      <3>2. counters[Head(todo[t])] + 1 \in Nat
        BY <3>1
      <3> QED
        BY <2>9, <3>2 DEF CountLoad
    <2>10. CASE CountStore(t)
      <3>1. /\ Head(todo[t]) \in Counters
            /\ Tail(todo[t]) \in Seq(Counters)
        BY <2>10, HeadTail DEF CountStore
      <3>2. counters' \in [Counters -> Nat]
        BY <2>10, <3>1 DEF CountStore
      <3> QED
        BY <2>10, <3>1, <3>2 DEF CountStore
    <2>11. CASE Acquired(t)
      BY <2>11 DEF Acquired
    <2>12. CASE Perform(t)
      BY <2>12 DEF Perform
    <2>13. ASSUME NEW is429 \in BOOLEAN, RecordResponse(t, is429) PROVE TypeInv'
      <3> DEFINE list == IF is429 THEN <<"responses", "throttled">>
                                  ELSE <<"responses">>
      <3>0. list \in Seq(Counters) \ {<<>>}
        BY ResponseList
      <3>1. todo' = [todo EXCEPT ![t] = list]
        BY <2>13 DEF RecordResponse
      <3> HIDE DEF list
      <3>2. todo' \in [Threads -> Seq(Counters)]
        BY <3>0, <3>1
      <3>5. inflight' \in [Threads -> Nat]
        <4>1. inflight[t] - 1 \in Nat
          BY <2>13 DEF RecordResponse
        <4> QED
          BY <2>13, <4>1 DEF RecordResponse
      <3>6. pc' \in [Threads -> PCs]
        BY <2>13 DEF RecordResponse
      <3>3. TypeOK'
        BY <2>13, <3>2, <3>5, <3>6 DEF RecordResponse
      <3>4. Shape'
        BY <2>13, <3>0, <3>1 DEF RecordResponse
      <3> QED
        BY <3>3, <3>4
    <2>14. ASSUME NEW r \in RetryAfters, RecordThrottle(t, r) PROVE TypeInv'
      BY <2>14 DEF RecordThrottle, BackedOff, Later
    <2>15. CASE StoreBackoff(t)
      BY <2>15 DEF StoreBackoff, NextResponse
    <2>16. CASE Responded(t)
      BY <2>16 DEF Responded, NextResponse
    <2> QED
      BY <1>2, <2>1, <2>2, <2>3, <2>4, <2>5, <2>6, <2>7, <2>8, <2>9, <2>10,
         <2>11, <2>12, <2>13, <2>14, <2>15, <2>16 DEF Step, Acquire, Respond
  <1>3. CASE UNCHANGED vars
    BY <1>3 DEF vars
  <1> QED
    BY <1>1, <1>2, <1>3 DEF Next

\* Every field of the limiter and every local of AcquireRateLimit keeps its
\* type; a response is never recorded twice.
THEOREM TypeCorrect == Spec => []TypeOK
  <1>1. Spec => []TypeInv
    BY TypeInit, TypeStep, PTL DEF Spec
  <1> QED
    BY <1>1, PTL DEF TypeInv

-----------------------------------------------------------------------------
(* The TAT that TryAcquire and RecordThrottle compute.                      *)

LEMMA GrantEffect ==
  ASSUME TypeOK, NEW t \in Threads, TryAcquire(t)
  PROVE  /\ reg'[t] \in Int
         /\ reg'[t] >= tat + Interval
         /\ reg'[t] >= clock + Interval
         /\ reg'[t] <= clock + BurstOffset
         /\ \A u \in Threads : u # t => reg'[u] = reg[u]
  <1>1. CASE tat < clock
    <2>1. reg' = [reg EXCEPT ![t] = clock + Interval]
      BY <1>1 DEF TryAcquire, Later
    <2>2. clock + Interval <= clock + BurstOffset
      BY <1>1 DEF TryAcquire, Allows, Later, TypeOK
    <2> QED
      BY <1>1, <2>1, <2>2 DEF TypeOK
  <1>2. CASE ~(tat < clock)
    <2>1. reg' = [reg EXCEPT ![t] = tat + Interval]
      BY <1>2 DEF TryAcquire, Later
    <2>2. tat + Interval <= clock + BurstOffset
      BY <1>2 DEF TryAcquire, Allows, Later, TypeOK
    <2> QED
      BY <1>2, <2>1, <2>2 DEF TypeOK
  <1> QED
    BY <1>1, <1>2

LEMMA ThrottleEffect ==
  ASSUME TypeOK, NEW t \in Threads, NEW r \in RetryAfters, RecordThrottle(t, r)
  PROVE  /\ reg'[t] \in Int
         /\ reg'[t] >= tat + r
         /\ reg'[t] >= clock + r
         /\ reg'[t] = tat + r \/ reg'[t] = clock + r
         /\ \A u \in Threads : u # t => reg'[u] = reg[u]
  <1>1. CASE tat < clock
    <2>1. reg' = [reg EXCEPT ![t] = clock + r]
      BY <1>1 DEF RecordThrottle, BackedOff, Later
    <2> QED
      BY <1>1, <2>1 DEF TypeOK
  <1>2. CASE ~(tat < clock)
    <2>1. reg' = [reg EXCEPT ![t] = tat + r]
      BY <1>2 DEF RecordThrottle, BackedOff, Later
    <2> QED
      BY <1>2, <2>1 DEF TypeOK
  <1> QED
    BY <1>1, <1>2

-----------------------------------------------------------------------------
(* The backlog, for any number of threads.                                  *)

\* BacklogBounded is not inductive: a thread may be about to store a TAT it
\* computed some time ago.  Such a value is bounded in the same way, because
\* the bound only grows.
PendingBounded ==
    \A t \in Threads :
        pc[t] \in {"store", "backoff"} => reg[t] - clock <= BurstOffset + owed

LEMMA MoreOwed ==
  ASSUME NEW x \in Int, NEW now \in Int, NEW o \in Int, NEW p \in Int,
         x - now <= BurstOffset + o, p >= o
  PROVE  x - now <= BurstOffset + p
  OBVIOUS

BacklogInv == TypeInv /\ owed >= 0 /\ BacklogBounded /\ PendingBounded

LEMMA BacklogStep ==
  ASSUME RetryAfters \subseteq Nat, BacklogInv, [Next]_vars
  PROVE  BacklogInv'
  <1> USE DEF BacklogInv, BacklogBounded, PendingBounded
  <1>0. TypeInv'
    BY TypeStep
  <1> USE DEF TypeInv, TypeOK, limiterVars, callVars, history
  <1>1. CASE Tick
    BY <1>0, <1>1 DEF Tick
  <1>2. ASSUME NEW t \in Threads, Step(t) PROVE BacklogInv'
    <2> USE DEF Goto
    <2>1. CASE TryAcquire(t)
      <3>1. /\ pc' = [pc EXCEPT ![t] = "store"]
            /\ UNCHANGED <<clock, tat, owed>>
        BY <2>1 DEF TryAcquire
      <3>2. /\ reg'[t] \in Int /\ reg'[t] <= clock + BurstOffset
            /\ \A u \in Threads : u # t => reg'[u] = reg[u]
        BY <2>1, GrantEffect
      <3>3. reg'[t] - clock' <= BurstOffset + owed'
        BY <3>1, <3>2
      <3>4. ASSUME NEW u \in Threads, u # t, pc'[u] \in {"store", "backoff"}
            PROVE  reg'[u] - clock' <= BurstOffset + owed'
        <4>1. reg[u] - clock <= BurstOffset + owed /\ reg[u] \in Int
          BY <3>1, <3>4
        <4> QED
          BY <3>1, <3>2, <3>4, <4>1
      <3>5. PendingBounded'
        BY <3>3, <3>4
      <3> QED
        BY <1>0, <3>1, <3>5
    <2>2. CASE StoreTat(t)
      BY <1>0, <2>2 DEF StoreTat
    <2>3. CASE \/ Enter(t) \/ Denied(t) \/ Spin(t) \/ Sleep(t) \/ Wake(t)
      BY <1>0, <2>3 DEF Enter, Denied, Spin, Sleep, Wake
    <2>4. CASE GiveUp(t)
      BY <1>0, <2>4 DEF GiveUp
    <2>5. CASE CountLoad(t) \/ CountStore(t)
      BY <1>0, <2>5 DEF CountLoad, CountStore
    <2>6. CASE Acquired(t) \/ Perform(t)
      BY <1>0, <2>6 DEF Acquired, Perform
    <2>7. ASSUME NEW is429 \in BOOLEAN, RecordResponse(t, is429) PROVE BacklogInv'
      BY <1>0, <2>7 DEF RecordResponse
    <2>8. ASSUME NEW r \in RetryAfters, RecordThrottle(t, r) PROVE BacklogInv'
      <3>1. /\ pc' = [pc EXCEPT ![t] = "backoff"]
            /\ owed' = owed + r
            /\ clock' = clock /\ tat' = tat
            /\ r \in Nat
        BY <2>8 DEF RecordThrottle
      <3>0. /\ owed' \in Int /\ owed' >= owed /\ owed' >= 0
            /\ BacklogBounded'
        BY <3>1
      <3>2. /\ reg'[t] \in Int
            /\ reg'[t] = tat + r \/ reg'[t] = clock + r
            /\ \A u \in Threads : u # t => reg'[u] = reg[u]
        BY <2>8, ThrottleEffect
      <3>3. reg'[t] - clock' <= BurstOffset + owed'
        BY <3>1, <3>2
      <3>4. ASSUME NEW u \in Threads, u # t, pc'[u] \in {"store", "backoff"}
            PROVE  reg'[u] - clock' <= BurstOffset + owed'
        <4>1. reg[u] - clock <= BurstOffset + owed /\ reg[u] \in Int
          BY <3>1, <3>4
        <4>2. reg'[u] = reg[u] /\ clock' = clock /\ clock \in Int
          BY <3>1, <3>2, <3>4
        <4>3. owed \in Int /\ owed' \in Int /\ owed' >= owed
          BY <3>0
        <4>4. reg[u] - clock <= BurstOffset + owed'
          BY <4>1, <4>2, <4>3, MoreOwed
        <4> QED
          BY <4>2, <4>4
      <3>5. PendingBounded'
        BY <3>3, <3>4
      <3> QED
        BY <1>0, <3>0, <3>5
    <2>9. CASE StoreBackoff(t)
      BY <1>0, <2>9 DEF StoreBackoff, NextResponse
    <2>10. CASE Responded(t)
      BY <1>0, <2>10 DEF Responded, NextResponse
    <2> QED
      BY <1>2, <2>1, <2>2, <2>3, <2>4, <2>5, <2>6, <2>7, <2>8, <2>9, <2>10
      DEF Step, Acquire, Respond
  <1>3. CASE UNCHANGED vars
    BY <1>0, <1>3 DEF vars
  <1> QED
    BY <1>1, <1>2, <1>3 DEF Next

\* However many threads race on the unlocked limiter, the delay it asks for is
\* at most one burst window plus every Retry-After received, provided no
\* Retry-After is negative.
THEOREM BacklogIsBounded ==
  ASSUME RetryAfters \subseteq Nat
  PROVE  Spec => []BacklogBounded
  <1>1. Init => BacklogInv
    BY TypeInit
    DEF Init, BacklogInv, BacklogBounded, PendingBounded
  <1>2. BacklogInv /\ [Next]_vars => BacklogInv'
    BY BacklogStep
  <1>3. BacklogInv => BacklogBounded
    BY DEF BacklogInv
  <1> QED
    BY <1>1, <1>2, <1>3, PTL DEF Spec

-----------------------------------------------------------------------------
(* One thread implements the contract.                                      *)

OneThread == \A t, u \in Threads : t = u

\* The TAT as the thread will leave it: what it has computed counts already.
Effective(t) == IF pc[t] \in {"store", "backoff"} THEN reg[t] ELSE tat

\* Why one timestamp is enough: it lies past every grant by one interval per
\* grant made since, that grant included, and past every back-off.
Covers(t) ==
    /\ \A i \in 1..Len(grants) :
          Effective(t) >= grants[i] + (Len(grants) - i + 1) * Interval
    /\ Effective(t) >= until
    /\ until >= 0

CoverInv == TypeInv /\ \A t \in Threads : Covers(t)

LEMMA Multiple ==
  ASSUME NEW k \in Int
  PROVE  /\ (k + 1) * Interval = k * Interval + Interval
         /\ k * Interval \in Int
  OBVIOUS

LEMMA OneMoreInterval ==
  ASSUME NEW x \in Int, NEW y \in Int, NEW g \in Int, NEW m \in Int,
         x >= y + Interval, y >= g + m
  PROVE  x >= g + (m + Interval)
  OBVIOUS

LEMMA FarEnough ==
  ASSUME NEW now \in Int, NEW y \in Int, NEW g \in Int, NEW m \in Int,
         y + Interval <= now + BurstOffset, y >= g + m
  PROVE  now - g >= m + Interval - BurstOffset
  OBVIOUS

\* The two threads of the next lemmas' hypotheses are the same thread, so a
\* step that leaves the effective TAT, the grants and the back-off alone leaves
\* Covers alone.
LEMMA CoverSame ==
  ASSUME OneThread, CoverInv, TypeInv', NEW t \in Threads,
         Effective(t)' = Effective(t), UNCHANGED <<grants, until>>
  PROVE  CoverInv'
  BY DEF OneThread, CoverInv, Covers

\* Appending a grant moves every earlier one a place further from the end.
LEMMA GrantAppended ==
  ASSUME grants \in Seq(Nat), clock \in Nat, grants' = Append(grants, clock)
  PROVE  /\ Len(grants) \in Nat
         /\ Len(grants') = Len(grants) + 1
         /\ grants'[Len(grants) + 1] = clock
         /\ \A i \in 1..Len(grants) : grants'[i] = grants[i] /\ grants[i] \in Nat
  OBVIOUS

LEMMA CoverGrant ==
  ASSUME OneThread, CoverInv, TypeInv', NEW t \in Threads, TryAcquire(t)
  PROVE  CoverInv'
  <1> DEFINE n == Len(grants)
  <1>1. TypeOK
    BY DEF CoverInv, TypeInv
  <1>2. clock \in Nat /\ tat \in Int /\ grants \in Seq(Nat) /\ until \in Int
    BY <1>1 DEF TypeOK
  <1>3. /\ grants' = Append(grants, clock)
        /\ until' = until
        /\ Effective(t) = tat
    BY DEF TryAcquire, Effective
  <1>4. Effective(t)' = reg'[t]
    BY <1>1 DEF TryAcquire, Effective, Goto, TypeOK
  <1>5. /\ reg'[t] \in Int
        /\ reg'[t] >= tat + Interval
        /\ reg'[t] >= clock + Interval
    BY <1>1, GrantEffect
  <1>6. /\ n \in Nat
        /\ Len(grants') = n + 1
        /\ grants'[n + 1] = clock
        /\ \A i \in 1..n : grants'[i] = grants[i] /\ grants[i] \in Nat
    BY <1>2, <1>3, GrantAppended
  <1>7. Covers(t)
    BY DEF CoverInv
  <1>8. \A i \in 1..n : tat >= grants[i] + (n - i + 1) * Interval
    BY <1>3, <1>7 DEF Covers
  <1>9. tat >= until /\ until >= 0
    BY <1>3, <1>7 DEF Covers
  <1> HIDE DEF n
  <1>10. ASSUME NEW i \in 1..(n + 1)
         PROVE  reg'[t] >= grants'[i] + (n + 1 - i + 1) * Interval
    <2>1. CASE i = n + 1
      <3>1. (n + 1 - i + 1) * Interval = Interval
        BY <1>6, <2>1
      <3> QED
        BY <1>2, <1>5, <1>6, <2>1, <3>1
    <2>2. CASE i \in 1..n
      <3> DEFINE k == n - i + 1
                 m == k * Interval
      <3>1. k \in Int /\ n + 1 - i + 1 = k + 1
        BY <1>6
      <3>2. (n + 1 - i + 1) * Interval = m + Interval /\ m \in Int
        <4> HIDE DEF k
        <4> QED
          BY <3>1, Multiple
      <3>3. tat >= grants[i] + m
        BY <1>8, <2>2
      <3>4. grants'[i] = grants[i] /\ grants[i] \in Nat
        BY <1>6, <2>2
      <3> HIDE DEF m
      <3>5. grants[i] \in Int /\ m \in Int /\ tat \in Int
        BY <1>2, <3>2, <3>4
      <3>6. reg'[t] >= grants[i] + (m + Interval)
        BY <1>5, <3>3, <3>5, OneMoreInterval
      <3> QED
        BY <3>2, <3>4, <3>6
    <2> QED
      BY <1>6, <2>1, <2>2
  <1>11. Covers(t)'
    <2>1. reg'[t] >= until' /\ until' >= 0
      BY <1>2, <1>3, <1>5, <1>9
    <2> QED
      BY <1>4, <1>6, <1>10, <2>1 DEF Covers
  <1> QED
    BY <1>11 DEF OneThread, CoverInv

LEMMA CoverStep ==
  ASSUME OneThread, RetryAfters \subseteq Nat, CoverInv, [Next]_vars
  PROVE  CoverInv'
  <1>0. TypeInv'
    BY TypeStep DEF CoverInv
  <1> USE DEF TypeInv, TypeOK, limiterVars, callVars, history
  <1>1. CASE Tick \/ UNCHANGED vars
    BY <1>0, <1>1 DEF Tick, vars, CoverInv, Covers, Effective
  <1>2. ASSUME NEW t \in Threads, Step(t) PROVE CoverInv'
    <2> USE DEF Goto
    <2>1. CASE TryAcquire(t)
      BY <1>0, <2>1, CoverGrant
    <2>2. ASSUME NEW r \in RetryAfters, RecordThrottle(t, r) PROVE CoverInv'
      <3>0. TypeOK /\ r \in Nat /\ until \in Int /\ clock \in Nat /\ tat \in Int
        BY DEF CoverInv
      <3>1. /\ Effective(t)' = reg'[t]
            /\ Effective(t) = tat
            /\ grants' = grants
            /\ until' = until \/ until' = clock + r
            /\ reg'[t] \in Int /\ reg'[t] >= tat + r /\ reg'[t] >= clock + r
        BY <2>2, <3>0, ThrottleEffect DEF RecordThrottle, BackedOff, Effective, CoverInv, Later
      <3>2. Effective(t)' >= Effective(t) /\ Effective(t)' >= until' /\ until' >= 0
        BY <3>0, <3>1 DEF CoverInv, Covers
      <3>3. ASSUME NEW i \in 1..Len(grants)
            PROVE  Effective(t)' >= grants[i] + (Len(grants) - i + 1) * Interval
        <4> DEFINE floor == grants[i] + (Len(grants) - i + 1) * Interval
        <4>1. Effective(t) >= floor
          BY DEF CoverInv, Covers
        <4>2. floor \in Int
          BY Multiple DEF CoverInv
        <4> HIDE DEF floor
        <4>3. Effective(t)' >= floor
          BY <3>0, <3>1, <3>2, <4>1, <4>2, SMTT(30)
        <4> QED
          BY <4>3 DEF floor
      <3>4. Covers(t)'
        BY <3>1, <3>2, <3>3 DEF Covers
      <3> QED
        BY <1>0, <3>4 DEF OneThread, CoverInv
    <2>3. CASE \/ Enter(t) \/ StoreTat(t) \/ Denied(t) \/ GiveUp(t) \/ Sleep(t)
               \/ Spin(t) \/ Wake(t) \/ CountLoad(t) \/ CountStore(t)
               \/ Acquired(t) \/ Perform(t) \/ StoreBackoff(t) \/ Responded(t)
      <3>1. UNCHANGED <<grants, until>> /\ Effective(t)' = Effective(t)
        BY <2>3
        DEF Enter, StoreTat, Denied, GiveUp, Sleep, Spin, Wake, CountLoad,
            CountStore, Acquired, Perform, StoreBackoff, Responded,
            NextResponse, Effective, CoverInv
      <3> QED
        BY <1>0, <3>1, CoverSame
    <2>4. ASSUME NEW is429 \in BOOLEAN, RecordResponse(t, is429) PROVE CoverInv'
      <3>1. UNCHANGED <<grants, until>> /\ Effective(t)' = Effective(t)
        BY <2>4 DEF RecordResponse, Effective, CoverInv
      <3> QED
        BY <1>0, <3>1, CoverSame
    <2> QED
      BY <1>2, <2>1, <2>2, <2>3, <2>4 DEF Step, Acquire, Respond
  <1> QED
    BY <1>1, <1>2 DEF Next

\* A step of the limiter is a step of the contract or changes nothing it sees.
LEMMA StepRefines ==
  ASSUME OneThread, RetryAfters \subseteq Nat, CoverInv, [Next]_vars
  PROVE  [Contract!Next]_(Contract!vars)
  <1> USE DEF CoverInv, TypeInv, TypeOK, limiterVars, callVars, history,
              Contract!vars, Contract!Next
  <1>1. CASE Tick \/ UNCHANGED vars
    BY <1>1 DEF Tick, vars, Contract!Tick
  <1>2. ASSUME NEW t \in Threads, Step(t)
        PROVE  [Contract!Next]_(Contract!vars)
    <2>1. CASE TryAcquire(t)
      <3>0. TypeOK /\ clock \in Nat /\ tat \in Int /\ until \in Int
        OBVIOUS
      <3>1. /\ grants' = Append(grants, clock)
            /\ UNCHANGED <<clock, until>>
            /\ Effective(t) = tat
        BY <2>1 DEF TryAcquire, Effective
      <3>3. /\ reg'[t] \in Int
            /\ reg'[t] >= tat + Interval
            /\ reg'[t] >= clock + Interval
            /\ reg'[t] <= clock + BurstOffset
        BY <2>1, <3>0, GrantEffect
      <3>4. /\ Interval <= BurstOffset
            /\ tat + Interval <= clock + BurstOffset
        BY <3>0, <3>3
      <3>2. ASSUME NEW i \in 1..Len(grants)
            PROVE  clock - grants[i] >= Contract!Span(Len(grants) - i + 2)
        <4> DEFINE k == Len(grants) - i + 1
                   m == k * Interval
                   l == (Len(grants) - i + 2) * Interval
        <4>1. tat >= grants[i] + m
          BY <3>1 DEF Covers
        <4>2. k \in Int /\ Len(grants) - i + 2 = k + 1 /\ grants[i] \in Nat
          OBVIOUS
        <4>3. l = m + Interval /\ m \in Int
          <5> HIDE DEF k
          <5> QED
            BY <4>2, Multiple
        <4> HIDE DEF m, l
        <4>4. clock - grants[i] >= l - BurstOffset
          <5>1. /\ clock \in Int /\ tat \in Int /\ grants[i] \in Int /\ m \in Int
                /\ tat + Interval <= clock + BurstOffset
            BY <3>0, <3>4, <4>2, <4>3
          <5>2. clock - grants[i] >= m + Interval - BurstOffset
            BY <4>1, <5>1, FarEnough
          <5> QED
            BY <4>3, <5>2
        <4>5. Contract!Span(Len(grants) - i + 2) = l - BurstOffset
          BY DEF l, Contract!Span
        <4> QED
          BY <4>4, <4>5
      <3>5. Contract!Span(1) <= 0 /\ clock >= until + Contract!Span(1)
        BY <3>0, <3>1, <3>4 DEF Contract!Span, Covers
      <3> QED
        BY <3>1, <3>2, <3>5 DEF Contract!Admit, Contract!Admissible
    <2>2. ASSUME NEW r \in RetryAfters, RecordThrottle(t, r)
          PROVE  [Contract!Next]_(Contract!vars)
      BY <2>2 DEF RecordThrottle, BackedOff, Later, Contract!BackOff, Covers
    <2>3. CASE \/ Enter(t) \/ StoreTat(t) \/ Denied(t) \/ GiveUp(t) \/ Sleep(t)
               \/ Spin(t) \/ Wake(t) \/ CountLoad(t) \/ CountStore(t)
               \/ Acquired(t) \/ Perform(t) \/ StoreBackoff(t) \/ Responded(t)
      BY <2>3
      DEF Enter, StoreTat, Denied, GiveUp, Sleep, Spin, Wake, CountLoad,
          CountStore, Acquired, Perform, StoreBackoff, Responded
    <2>4. ASSUME NEW is429 \in BOOLEAN, RecordResponse(t, is429)
          PROVE  [Contract!Next]_(Contract!vars)
      BY <2>4 DEF RecordResponse
    <2> QED
      BY <1>2, <2>1, <2>2, <2>3, <2>4 DEF Step, Acquire, Respond
  <1> QED
    BY <1>1, <1>2 DEF Next

\* For a client that uses the library from one thread, the single timestamp of
\* GCRARateLimiter implements the contract over the whole history of grants,
\* for every rate and burst, whatever non-negative Retry-After comes back.
THEOREM OneThreadImplementsContract ==
  ASSUME OneThread, RetryAfters \subseteq Nat
  PROVE  Spec => ImplementsContract
  <1>1. Init => Contract!Init
    BY DEF Init, Contract!Init
  <1>2. Init => CoverInv
    BY TypeInit DEF Init, CoverInv, Covers, Effective
  <1>3. CoverInv /\ [Next]_vars => CoverInv'
    BY CoverStep
  <1>4. CoverInv /\ [Next]_vars => [Contract!Next]_(Contract!vars)
    BY StepRefines
  <1> QED
    BY <1>1, <1>2, <1>3, <1>4, PTL DEF Spec, ImplementsContract, Contract!Spec

-----------------------------------------------------------------------------
(* One thread is denied at most once per call.                              *)

\* Why the attempt after a sleep succeeds: WaitTime sleeps until the TAT has
\* passed, and nobody but the thread itself moves it.
PacedOnce(t) ==
    /\ pc[t] = "try" => tries[t] = MaxRetries \/ (tries[t] = MaxRetries - 1 /\ tat <= clock)
    /\ pc[t] \in {"wait", "sleep"} => tries[t] = MaxRetries - 1
    /\ pc[t] = "sleep" => wake[t] >= tat

RetryInv == TypeInv /\ \A t \in Threads : PacedOnce(t)

LEMMA RetryStep ==
  ASSUME OneThread, Interval <= BurstOffset, RetryInv, [Next]_vars
  PROVE  RetryInv'
  <1>0. TypeInv' /\ TypeOK
    BY TypeStep DEF RetryInv, TypeInv
  <1>1. CASE Tick
    <2>1. /\ clock' = clock + 1 /\ clock \in Nat /\ tat \in Int
          /\ UNCHANGED <<tat, pc, tries, wake>>
      BY <1>0, <1>1 DEF Tick, limiterVars, callVars, TypeOK
    <2> QED
      BY <1>0, <2>1 DEF RetryInv, PacedOnce
  <1>2. CASE UNCHANGED vars
    BY <1>0, <1>2 DEF vars, limiterVars, callVars, RetryInv, PacedOnce
  <1>3. ASSUME NEW t \in Threads, Step(t)
        PROVE  RetryInv'
    <2>0. /\ clock \in Nat /\ tat \in Int /\ tries[t] \in 0..MaxRetries /\ wake[t] \in Nat
          /\ PacedOnce(t) /\ pc \in [Threads -> PCs] /\ tries \in [Threads -> 0..MaxRetries]
          /\ wake \in [Threads -> Nat]
      BY <1>0 DEF TypeOK, RetryInv
    <2>1. SUFFICES PacedOnce(t)'
      BY <1>0 DEF OneThread, RetryInv
    <2>2. CASE Enter(t)
      <3>1. pc'[t] = "try" /\ tries'[t] = MaxRetries
        BY <2>0, <2>2 DEF Enter, Goto
      <3> QED
        BY <3>1 DEF PacedOnce
    <2>3. CASE Denied(t)
      <3>1. ~(tat <= clock)
        BY <2>0, <2>3 DEF Denied, Allows, Later
      <3>2. tries[t] = MaxRetries
        BY <2>0, <2>3, <3>1 DEF Denied, PacedOnce
      <3>3. pc'[t] = "wait" /\ tries'[t] = MaxRetries - 1
        BY <2>0, <2>3, <3>2 DEF Denied, Goto
      <3> QED
        BY <3>3 DEF PacedOnce
    <2>4. CASE Sleep(t)
      <3>1. /\ pc[t] = "wait" /\ pc'[t] = "sleep" /\ wake'[t] = clock + WaitTime
            /\ UNCHANGED <<clock, tat, tries>>
        BY <2>0, <2>4 DEF Sleep, Goto, limiterVars
      <3>2. clock + WaitTime >= tat
        BY <2>0 DEF WaitTime
      <3> QED
        BY <2>0, <3>1, <3>2 DEF PacedOnce
    <2>5. CASE Spin(t)
      <3>1. /\ pc[t] = "wait" /\ pc'[t] = "try"
            /\ UNCHANGED <<clock, tat, tries>>
        BY <2>0, <2>5 DEF Spin, Goto, limiterVars, callVars
      <3>2. tat <= clock
        BY <2>0, <2>5 DEF Spin, WaitTime
      <3> QED
        BY <2>0, <3>1, <3>2 DEF PacedOnce
    <2>6. CASE Wake(t)
      <3>1. /\ pc[t] = "sleep" /\ pc'[t] = "try" /\ clock >= wake[t]
            /\ UNCHANGED <<clock, tat, tries>>
        BY <2>0, <2>6 DEF Wake, Goto, limiterVars
      <3>2. tat <= clock
        BY <2>0, <3>1 DEF PacedOnce
      <3> QED
        BY <2>0, <3>1, <3>2 DEF PacedOnce
    <2>7. CASE CountLoad(t) \/ CountStore(t)
      <3>1. UNCHANGED <<clock, tat, pc, tries, wake>>
        BY <2>7 DEF CountLoad, CountStore, limiterVars
      <3> QED
        BY <2>0, <3>1 DEF PacedOnce
    <2>8. CASE TryAcquire(t) \/ StoreTat(t) \/ GiveUp(t) \/ Acquired(t) \/ Perform(t)
      <3>1. pc'[t] \notin {"try", "wait", "sleep"}
        BY <2>0, <2>8 DEF TryAcquire, StoreTat, GiveUp, Acquired, Perform, Goto
      <3> QED
        BY <3>1 DEF PacedOnce
    <2>9. CASE Respond(t)
      <3>1. pc'[t] \notin {"try", "wait", "sleep"}
        BY <2>0, <2>9
           DEF Respond, RecordResponse, RecordThrottle, StoreBackoff, Responded, Goto, NextResponse
      <3> QED
        BY <3>1 DEF PacedOnce
    <2> QED
      BY <1>3, <2>2, <2>3, <2>4, <2>5, <2>6, <2>7, <2>8, <2>9 DEF Step, Acquire
  <1> QED
    BY <1>1, <1>2, <1>3 DEF Next

\* A client that uses the library from one thread never uses up its attempts,
\* whatever comes back, if the burst is at least one request: a call is denied
\* at most once, and no request of it goes ahead without a token.
THEOREM OneThreadIsDeniedOnce ==
  ASSUME OneThread, Interval <= BurstOffset
  PROVE  Spec => []OneRetryEnough
  <1>1. Init => RetryInv
    BY TypeInit DEF Init, RetryInv, PacedOnce
  <1>2. RetryInv /\ [Next]_vars => RetryInv'
    BY RetryStep
  <1>3. RetryInv => OneRetryEnough
    BY DEF RetryInv, TypeInv, TypeOK, PacedOnce, OneRetryEnough
  <1> QED
    BY <1>1, <1>2, <1>3, PTL DEF Spec

-----------------------------------------------------------------------------
(* One thread's statistics are exact.                                       *)

RequestLists == {<<"requests">>, <<"requests", "paced">>, <<"paced">>}
ResponseLists == {<<"responses">>, <<"responses", "throttled">>, <<"throttled">>}

\* One when the thread is about to count c, or is counting it.
Owing(t, c) == IF todo[t] # <<>> /\ Head(todo[t]) = c THEN 1 ELSE 0

At(t, labels) == IF pc[t] \in labels THEN 1 ELSE 0

\* Which list of counters a thread holds, and where.
Listed(t) ==
    /\ todo[t] \in {<<>>} \cup RequestLists \cup ResponseLists
    /\ todo[t] \in RequestLists => pc[t] = "record"
    /\ todo[t] \in ResponseLists => pc[t] \in {"response", "throttle"}
    /\ cnt[t] # None => cnt[t] = counters[Head(todo[t])] + 1

\* What the counters lack while a call or a response is under way: the token
\* not yet stored, the counter not yet incremented, the request not yet sent
\* or not yet answered.
Accounted(t) ==
    /\ counters["requests"] + Owing(t, "requests") + At(t, {"store"})
          = Len(grants) + bypasses
    /\ counters["responses"] + Owing(t, "responses") + inflight[t]
          + At(t, {"store", "record"})
          = Len(grants) + bypasses

StatsInv == TypeInv /\ \A t \in Threads : Listed(t) /\ Accounted(t)

\* What the lists hold, and what is left of them.
LEMMA Lists ==
  /\ \A l \in RequestLists :
        l # <<>> /\ Head(l) \in {"requests", "paced"} /\ Tail(l) \in {<<>>, <<"paced">>}
  /\ \A l \in ResponseLists :
        l # <<>> /\ Head(l) \in {"responses", "throttled"} /\ Tail(l) \in {<<>>, <<"throttled">>}
  /\ Head(<<"paced">>) = "paced" /\ Head(<<"throttled">>) = "throttled"
  /\ <<"paced">> # <<>> /\ <<"throttled">> # <<>>
  /\ RequestLists \cap ResponseLists = {}
  <1>1. /\ Head(<<"requests">>) = "requests" /\ Tail(<<"requests">>) = <<>>
        /\ Head(<<"requests", "paced">>) = "requests"
        /\ Tail(<<"requests", "paced">>) = <<"paced">>
        /\ Head(<<"paced">>) = "paced" /\ Tail(<<"paced">>) = <<>>
    OBVIOUS
  <1>2. /\ Head(<<"responses">>) = "responses" /\ Tail(<<"responses">>) = <<>>
        /\ Head(<<"responses", "throttled">>) = "responses"
        /\ Tail(<<"responses", "throttled">>) = <<"throttled">>
        /\ Head(<<"throttled">>) = "throttled" /\ Tail(<<"throttled">>) = <<>>
    OBVIOUS
  <1>3. \A l \in RequestLists : l # <<>> /\ Head(l) \in {"requests", "paced"}
    BY <1>1 DEF RequestLists
  <1>4. \A l \in ResponseLists : l # <<>> /\ Head(l) \in {"responses", "throttled"}
    BY <1>2 DEF ResponseLists
  <1>5. \A l \in RequestLists : Tail(l) \in {<<>>, <<"paced">>}
    BY <1>1 DEF RequestLists
  <1>6. \A l \in ResponseLists : Tail(l) \in {<<>>, <<"throttled">>}
    BY <1>2 DEF ResponseLists
  <1>7. \A l \in RequestLists : l \notin ResponseLists
    BY <1>3, <1>4
  <1> QED
    BY <1>1, <1>2, <1>3, <1>4, <1>5, <1>6, <1>7 DEF RequestLists, ResponseLists

\* The values the two equations of Accounted add up.
LEMMA Sums ==
  ASSUME TypeOK, NEW t \in Threads
  PROVE  /\ counters["requests"] \in Nat /\ counters["responses"] \in Nat
         /\ Owing(t, "requests") \in {0, 1} /\ Owing(t, "responses") \in {0, 1}
         /\ At(t, {"store"}) \in {0, 1} /\ At(t, {"store", "record"}) \in {0, 1}
         /\ inflight[t] \in Nat /\ Len(grants) \in Nat /\ bypasses \in Nat
  BY DEF TypeOK, Counters, Owing, At

LEMMA StatsStep ==
  ASSUME OneThread, StatsInv, [Next]_vars
  PROVE  StatsInv'
  <1>0. TypeInv' /\ TypeOK /\ Shape
    BY TypeStep DEF StatsInv, TypeInv
  <1>1. CASE Tick \/ UNCHANGED vars
    <2>1. UNCHANGED <<pc, counters, cnt, todo, inflight, grants, bypasses>>
      BY <1>1 DEF Tick, vars, limiterVars, callVars, history
    <2> QED
      BY <1>0, <2>1 DEF StatsInv, Listed, Accounted, Owing, At
  <1>2. ASSUME NEW t \in Threads, Step(t)
        PROVE  StatsInv'
    <2>0. /\ Listed(t) /\ Accounted(t)
          /\ pc \in [Threads -> PCs] /\ todo \in [Threads -> Seq(Counters)]
          /\ cnt \in [Threads -> Nat \cup {None}] /\ inflight \in [Threads -> Nat]
          /\ counters \in [Counters -> Nat] /\ grants \in Seq(Nat) /\ bypasses \in Nat
          /\ clock \in Nat
      BY <1>0 DEF TypeOK, StatsInv
    <2>s. /\ counters["requests"] \in Nat /\ counters["responses"] \in Nat
          /\ inflight[t] \in Nat /\ Len(grants) \in Nat
      BY <1>0, Sums
    <2>g. SUFFICES (Listed(t) /\ Accounted(t))'
      BY <1>0 DEF OneThread, StatsInv
    <2>1. CASE Enter(t) \/ Denied(t) \/ Sleep(t) \/ Spin(t) \/ Wake(t) \/ Perform(t)
      <3>1. /\ UNCHANGED <<counters, cnt, todo, inflight, grants, bypasses>>
            /\ pc[t] \notin {"store", "record", "response", "throttle"}
            /\ pc'[t] \notin {"store", "record", "response", "throttle"}
        BY <2>0, <2>1 DEF Enter, Denied, Sleep, Spin, Wake, Perform, Goto,
                          limiterVars, callVars, history
      <3> QED
        BY <2>0, <3>1 DEF Listed, Accounted, Owing, At
    <2>2. CASE TryAcquire(t)
      <3>1. /\ UNCHANGED <<counters, cnt, todo, inflight, bypasses>>
            /\ pc[t] = "try" /\ pc'[t] = "store"
            /\ Len(grants') = Len(grants) + 1
        BY <2>0, <2>2 DEF TryAcquire, Goto, limiterVars
      <3>2. Owing(t, "requests")' = Owing(t, "requests") /\ Owing(t, "responses")' = Owing(t, "responses")
        BY <3>1 DEF Owing
      <3>3. todo[t] = <<>>
        BY <2>0, <3>1 DEF Listed
      <3>4. /\ At(t, {"store"}) = 0 /\ At(t, {"store", "record"}) = 0
            /\ At(t, {"store"})' = 1 /\ At(t, {"store", "record"})' = 1
        BY <3>1 DEF At
      <3>5. Listed(t)'
        BY <2>0, <3>1, <3>3, Lists DEF Listed
      <3>6. Accounted(t)'
        <4>1. Owing(t, "requests") \in Nat /\ Owing(t, "responses") \in Nat
          BY DEF Owing
        <4> QED
          BY <2>0, <2>s, <3>1, <3>2, <3>4, <4>1 DEF Accounted
      <3> QED
        BY <3>5, <3>6
    <2>3. CASE StoreTat(t) \/ GiveUp(t)
      <3>1. /\ UNCHANGED <<counters, cnt, inflight>>
            /\ pc[t] \in {"store", "try"} /\ pc'[t] = "record"
            /\ todo'[t] = Record(t)
            /\ Len(grants') + bypasses' + At(t, {"store"}) = Len(grants) + bypasses + 1
        BY <2>0, <2>s, <2>3 DEF StoreTat, GiveUp, Goto, history, limiterVars, At
      <3>2. Record(t) \in RequestLists /\ Record(t) # <<>> /\ Head(Record(t)) = "requests"
        BY DEF Record, RequestLists
      <3>3. todo[t] = <<>> /\ cnt[t] = None
        BY <1>0, <2>0, <3>1 DEF Listed, Shape
      <3>4. Owing(t, "requests")' = 1 /\ Owing(t, "responses")' = 0
            /\ Owing(t, "requests") = 0 /\ Owing(t, "responses") = 0
        BY <3>1, <3>2, <3>3 DEF Owing
      <3>5. At(t, {"store"})' = 0 /\ At(t, {"store", "record"})' = 1
            /\ At(t, {"store", "record"}) = At(t, {"store"})
        BY <3>1 DEF At
      <3>6. Listed(t)'
        BY <3>1, <3>2, <3>3, Lists DEF Listed
      <3>7. Accounted(t)'
        <4>1. At(t, {"store"}) \in Nat /\ Len(grants') \in Nat /\ bypasses' \in Nat
          BY <1>0 DEF At, TypeInv, TypeOK
        <4>2. /\ counters'["requests"] + 1 + 0 = Len(grants') + bypasses'
              /\ counters'["responses"] + 0 + inflight'[t] + 1 = Len(grants') + bypasses'
          <5> DEFINE q == counters["requests"]
                     r == counters["responses"]
                     f == inflight[t]
                     a == At(t, {"store"})
                     n == Len(grants) + bypasses
                     m == Len(grants') + bypasses'
          <5>1. q + 0 + a = n /\ r + 0 + f + a = n
            BY <2>0, <3>4, <3>5 DEF Accounted
          <5>2. q \in Nat /\ r \in Nat /\ f \in Nat /\ a \in Nat /\ n \in Nat /\ m \in Nat
            BY <2>0, <2>s, <4>1
          <5>3. m + a = n + 1
            BY <3>1
          <5>4. counters'["requests"] = q /\ counters'["responses"] = r /\ inflight'[t] = f
            BY <3>1
          <5> HIDE DEF q, r, f, a, n, m
          <5>5. q + 1 + 0 = m /\ r + 0 + f + 1 = m
            BY <5>1, <5>2, <5>3
          <5> QED
            BY <5>4, <5>5 DEF m
        <4> QED
          BY <3>4, <3>5, <4>2 DEF Accounted
      <3> QED
        BY <3>6, <3>7
    <2>4. CASE CountLoad(t)
      <3>1. /\ UNCHANGED <<counters, pc, todo, inflight, grants, bypasses>>
            /\ cnt'[t] = counters[Head(todo[t])] + 1
        BY <2>0, <2>4 DEF CountLoad, limiterVars, history
      <3> QED
        BY <2>0, <3>1 DEF Listed, Accounted, Owing, At
    <2>5. CASE CountStore(t)
      <3> DEFINE c == Head(todo[t])
      <3>1. /\ UNCHANGED <<pc, inflight, grants, bypasses>>
            /\ cnt[t] # None /\ cnt'[t] = None
            /\ counters' = [counters EXCEPT ![c] = cnt[t]]
            /\ todo'[t] = Tail(todo[t])
        BY <2>0, <2>5 DEF CountStore, history
      <3>2. todo[t] # <<>> /\ cnt[t] = counters[c] + 1 /\ c \in Counters
        BY <1>0, <2>0, <3>1, HeadTail DEF Listed, Shape
      <3>3. /\ todo[t] \in RequestLists \cup ResponseLists
            /\ todo'[t] \in {<<>>, <<"paced">>, <<"throttled">>}
            /\ todo[t] \in RequestLists => todo'[t] \in {<<>>} \cup RequestLists
            /\ todo[t] \in ResponseLists => todo'[t] \in {<<>>} \cup ResponseLists
        <4>1. todo[t] \in RequestLists \cup ResponseLists
          BY <2>0, <3>2 DEF Listed
        <4>2. <<"paced">> \in RequestLists /\ <<"throttled">> \in ResponseLists
          BY DEF RequestLists, ResponseLists
        <4> QED
          BY <3>1, <4>1, <4>2, Lists
      <3>4. Owing(t, "requests")' = 0 /\ Owing(t, "responses")' = 0
        BY <3>3, Lists DEF Owing
      <3>5. /\ Owing(t, "requests") = IF c = "requests" THEN 1 ELSE 0
            /\ Owing(t, "responses") = IF c = "responses" THEN 1 ELSE 0
        BY <3>2 DEF Owing
      <3> HIDE DEF c
      <3>6. /\ counters'["requests"] = counters["requests"] + Owing(t, "requests")
            /\ counters'["responses"] = counters["responses"] + Owing(t, "responses")
        BY <2>0, <2>s, <3>1, <3>2, <3>5 DEF Counters
      <3>7. Listed(t)'
        BY <2>0, <3>1, <3>3, Lists DEF Listed
      <3>8. Accounted(t)'
        <4>1. At(t, {"store"})' = At(t, {"store"}) /\ At(t, {"store", "record"})' = At(t, {"store", "record"})
          BY <3>1 DEF At
        <4> QED
          BY <1>0, <2>0, <2>s, <3>1, <3>4, <3>6, <4>1, Sums DEF Accounted
      <3> QED
        BY <3>7, <3>8
    <2>6. CASE Acquired(t)
      <3>1. /\ UNCHANGED <<counters, cnt, todo, grants, bypasses>>
            /\ pc[t] = "record" /\ pc'[t] = "idle" /\ todo[t] = <<>>
            /\ inflight'[t] = inflight[t] + 1
        BY <2>0, <2>6 DEF Acquired, Goto, limiterVars, history
      <3>2. /\ At(t, {"store"}) = 0 /\ At(t, {"store", "record"}) = 1
            /\ At(t, {"store"})' = 0 /\ At(t, {"store", "record"})' = 0
            /\ Owing(t, "requests") = 0 /\ Owing(t, "responses") = 0
            /\ Owing(t, "requests")' = 0 /\ Owing(t, "responses")' = 0
        BY <3>1 DEF At, Owing
      <3>3. Listed(t)'
        BY <2>0, <3>1, Lists DEF Listed
      <3>4. /\ counters["requests"] + 0 + 0 = Len(grants) + bypasses
            /\ counters["responses"] + 0 + inflight[t] + 1 = Len(grants) + bypasses
        BY <2>0, <3>2 DEF Accounted
      <3>5. /\ counters'["requests"] + 0 + 0 = Len(grants') + bypasses'
            /\ counters'["responses"] + 0 + inflight'[t] + 0 = Len(grants') + bypasses'
        <4> DEFINE r == counters["responses"]
                   f == inflight[t]
                   n == Len(grants) + bypasses
        <4>1. r \in Nat /\ f \in Nat /\ r + 0 + f + 1 = n
          BY <2>s, <3>4
        <4> HIDE DEF r, f, n
        <4>2. r + 0 + (f + 1) + 0 = n
          BY <4>1
        <4> QED
          BY <3>1, <3>4, <4>2 DEF r, f, n
      <3>6. Accounted(t)'
        BY <3>2, <3>5 DEF Accounted
      <3> QED
        BY <3>3, <3>6
    <2>7. ASSUME NEW is429 \in BOOLEAN, RecordResponse(t, is429)
          PROVE  (Listed(t) /\ Accounted(t))'
      <3>1. /\ UNCHANGED <<counters, cnt, grants, bypasses>>
            /\ pc[t] = "drain" /\ pc'[t] \in {"throttle", "response"}
            /\ inflight'[t] = inflight[t] - 1
            /\ todo'[t] = IF is429 THEN <<"responses", "throttled">> ELSE <<"responses">>
        BY <2>0, <2>7 DEF RecordResponse, Goto, limiterVars, history
      <3>2. todo'[t] \in ResponseLists /\ todo'[t] # <<>> /\ Head(todo'[t]) = "responses"
        BY <3>1 DEF ResponseLists
      <3>3. todo[t] = <<>> /\ cnt[t] = None
        BY <1>0, <2>0, <3>1 DEF Listed, Shape
      <3>4. Listed(t)'
        BY <3>1, <3>2, <3>3, Lists DEF Listed
      <3>5. Accounted(t)'
        BY <2>0, <2>s, <3>1, <3>2, <3>3 DEF Accounted, Owing, At
      <3> QED
        BY <3>4, <3>5
    <2>8. ASSUME StoreBackoff(t) \/ Responded(t) \/ \E r \in RetryAfters : RecordThrottle(t, r)
          PROVE  (Listed(t) /\ Accounted(t))'
      <3>1. /\ UNCHANGED <<counters, cnt, todo, inflight, grants, bypasses>>
            /\ pc[t] \in {"backoff", "response", "throttle"}
            /\ pc'[t] \in {"idle", "drain", "backoff"}
            /\ pc[t] \in {"response", "throttle"} => todo[t] = <<>>
        BY <2>0, <2>8 DEF StoreBackoff, Responded, RecordThrottle, Goto, NextResponse,
                          limiterVars, callVars, history
      <3>2. todo[t] = <<>>
        BY <2>0, <3>1 DEF Listed
      <3> QED
        BY <2>0, <3>1, <3>2, Lists DEF Listed, Accounted, Owing, At
    <2> QED
      BY <1>2, <2>1, <2>2, <2>3, <2>4, <2>5, <2>6, <2>7, <2>8 DEF Step, Acquire, Respond
  <1> QED
    BY <1>1, <1>2 DEF Next

\* For a client that uses the library from one thread, the counters that
\* bh_rate_limit_stats_json reports between two sub-batches are exact: one
\* request per token or give-up and one response per request.
THEOREM OneThreadStatsAreExact ==
  ASSUME OneThread, NEW t \in Threads
  PROVE  Spec => []StatsExact
  <1>1. Init => StatsInv
    BY TypeInit, Lists DEF Init, StatsInv, Listed, Accounted, Owing, At, Counters, None
  <1>2. StatsInv /\ [Next]_vars => StatsInv'
    BY StatsStep
  <1>3. StatsInv => StatsExact
    <2> SUFFICES ASSUME StatsInv, Quiet PROVE StatsExact
      BY DEF StatsExact
    <2>1. pc[t] = "idle" /\ inflight[t] = 0 /\ TypeOK /\ Listed(t) /\ Accounted(t)
      BY DEF Quiet, StatsInv, TypeInv
    <2>2. todo[t] = <<>>
      BY <2>1 DEF Listed
    <2> QED
      BY <2>1, <2>2, Sums DEF Accounted, Owing, At, StatsExact
  <1> QED
    BY <1>1, <1>2, <1>3, PTL DEF Spec

-----------------------------------------------------------------------------
(* What one thread puts on the wire.                                        *)

GrantsPast == \A i \in 1..Len(grants) : grants[i] <= clock

GrantInv == CoverInv /\ GrantsPast /\ GrantsConform

\* All the wire sees of a step of the limiter: time passes, or one grant is
\* made now.
GrantOrTick ==
    \/ grants' = grants /\ clock' >= clock
    \/ grants' = Append(grants, clock) /\ clock' = clock

\* A grant that the contract admits keeps the whole history conforming.
LEMMA GrantStep ==
  ASSUME OneThread, RetryAfters \subseteq Nat, GrantInv, [Next]_vars
  PROVE  GrantInv' /\ GrantOrTick
  <1>0. CoverInv' /\ TypeOK /\ TypeOK'
    BY CoverStep DEF GrantInv, CoverInv, TypeInv
  <1>t. clock \in Nat /\ clock' \in Nat /\ grants \in Seq(Nat) /\ grants' \in Seq(Nat)
    BY <1>0 DEF TypeOK
  <1>1. [Contract!Next]_(Contract!vars)
    BY StepRefines DEF GrantInv
  <1>2. CASE grants' = grants /\ clock' >= clock
    <2>1. \A i \in 1..Len(grants) : grants[i] \in Nat
      BY <1>t
    <2>2. GrantsPast'
      BY <1>t, <1>2, <2>1 DEF GrantInv, GrantsPast
    <2>3. GrantsConform'
      BY <1>2 DEF GrantInv, GrantsConform
    <2> QED
      BY <1>0, <1>2, <2>2, <2>3 DEF GrantInv, GrantOrTick
  <1>3. CASE Contract!Admit
    <2> DEFINE n == Len(grants)
    <2>1. /\ grants' = Append(grants, clock) /\ clock' = clock
          /\ Contract!Span(1) <= 0
          /\ \A i \in 1..n : clock - grants[i] >= Contract!Span(n - i + 2)
      BY <1>3 DEF Contract!Admit, Contract!Admissible
    <2>2. /\ n \in Nat /\ Len(grants') = n + 1 /\ grants'[n + 1] = clock
          /\ \A i \in 1..n : grants'[i] = grants[i] /\ grants[i] \in Nat
      BY <1>t, <2>1, GrantAppended
    <2> HIDE DEF n
    <2>3. GrantsPast'
      <3>1. \A i \in 1..n : grants[i] <= clock
        BY DEF GrantInv, GrantsPast, n
      <3>2. \A i \in 1..(n + 1) : i \in 1..n \/ i = n + 1
        BY <2>2
      <3> QED
        BY <1>t, <2>1, <2>2, <3>1, <3>2 DEF GrantsPast
    <2>4. ASSUME NEW j \in 1..(n + 1), NEW i \in 1..j
          PROVE  grants'[j] - grants'[i] >= (j - i + 1) * Interval - BurstOffset
      <3>1. CASE j \in 1..n
        <4>1. i \in 1..n
          BY <2>2, <3>1
        <4>2. grants[j] - grants[i] >= (j - i + 1) * Interval - BurstOffset
          BY <3>1 DEF GrantInv, GrantsConform, n
        <4> QED
          BY <2>2, <3>1, <4>1, <4>2
      <3>2. CASE j = n + 1 /\ i = n + 1
        <4>1. (j - i + 1) * Interval = 1 * Interval
          BY <2>2, <3>2
        <4>2. grants'[j] - grants'[i] = 0
          BY <1>t, <2>2, <3>2
        <4> QED
          BY <2>1, <4>1, <4>2 DEF Contract!Span
      <3>3. CASE j = n + 1 /\ i \in 1..n
        <4>1. j - i + 1 = n - i + 2
          BY <2>2, <3>3
        <4>2. clock - grants[i] >= (j - i + 1) * Interval - BurstOffset
          BY <2>1, <3>3, <4>1 DEF Contract!Span
        <4> QED
          BY <2>2, <3>3, <4>2
      <3> QED
        BY <2>2, <3>1, <3>2, <3>3
    <2>5. GrantsConform'
      BY <2>2, <2>4 DEF GrantsConform
    <2> QED
      BY <1>0, <2>1, <2>3, <2>5 DEF GrantInv, GrantOrTick
  <1> QED
    BY <1>t, <1>1, <1>2, <1>3 DEF Contract!Next, Contract!vars, Contract!Tick, Contract!BackOff

LEMMA GrantInit == OneThread /\ Init => GrantInv
  BY TypeInit DEF Init, GrantInv, CoverInv, Covers, Effective, GrantsPast, GrantsConform

\* What two threads break (AcquireRace) a lone one keeps, for every rate and
\* burst: no run of tokens handed out by TryAcquire is shorter than the rate
\* and the burst allow.
THEOREM OneThreadConforms ==
  ASSUME OneThread, RetryAfters \subseteq Nat
  PROVE  Spec => []GrantsConform
  <1>1. Init => GrantInv
    BY GrantInit
  <1>2. GrantInv /\ [Next]_vars => GrantInv'
    BY GrantStep
  <1>3. GrantInv => GrantsConform
    BY DEF GrantInv
  <1> QED
    BY <1>1, <1>2, <1>3, PTL DEF Spec

SendType == [at : Nat, upto : Nat]

\* Where a sub-batch s lies in a history g of grants at the time now: the
\* grants it takes along were made by then, the others are made later.
Splits(s, now, g) ==
    /\ s.at <= now /\ s.upto <= Len(g)
    /\ \A i \in 1..Len(g) : IF i <= s.upto THEN g[i] <= s.at ELSE g[i] >= s.at

InOrder(r, s) == r.at <= s.at /\ r.upto <= s.upto

SendsInv ==
    /\ sends \in Seq(SendType)
    /\ \A k \in 1..Len(sends) : Splits(sends[k], clock, grants)
    /\ \A j \in 1..Len(sends) : \A i \in 1..(j - 1) : InOrder(sends[i], sends[j])

WireInv == GrantInv /\ RetryInv /\ bypasses = 0 /\ SendsInv

LEMMA SplitsLater ==
  ASSUME NEW now \in Nat, NEW later \in Nat, NEW g \in Seq(Nat),
         NEW s \in SendType, Splits(s, now, g), later >= now
  PROVE  Splits(s, later, g)
  BY DEF Splits, SendType

LEMMA SplitsAppended ==
  ASSUME NEW now \in Nat, NEW g \in Seq(Nat),
         NEW s \in SendType, Splits(s, now, g)
  PROVE  Splits(s, now, Append(g, now))
  <1> DEFINE n == Len(g)
             h == Append(g, now)
  <1>1. /\ n \in Nat /\ Len(h) = n + 1 /\ h[n + 1] = now
        /\ \A i \in 1..n : h[i] = g[i]
    OBVIOUS
  <1>2. /\ s.at <= now /\ s.upto <= n /\ s.upto \in Nat
        /\ \A i \in 1..n : IF i <= s.upto THEN g[i] <= s.at ELSE g[i] >= s.at
    BY DEF Splits, SendType
  <1> HIDE DEF n, h
  <1>3. ASSUME NEW i \in 1..(n + 1)
        PROVE  IF i <= s.upto THEN h[i] <= s.at ELSE h[i] >= s.at
    <2>1. CASE i = n + 1
      BY <1>1, <1>2, <2>1
    <2>2. CASE i \in 1..n
      BY <1>1, <1>2, <2>2
    <2> QED
      BY <1>1, <2>1, <2>2
  <1>4. s.upto <= n + 1
    BY <1>1, <1>2
  <1>5. Splits(s, now, h)
    BY <1>1, <1>2, <1>3, <1>4 DEF Splits
  <1> QED
    BY <1>5 DEF h

\* With a burst of at least one and an attempt to spare, a lone caller never
\* gives up: what it sends is what it has tokens for.
LEMMA NeverGivesUp ==
  ASSUME OneThread, Interval <= BurstOffset, MaxRetries > 0, RetryInv, bypasses = 0,
         [Next]_vars
  PROVE  bypasses' = 0
  <1>1. ASSUME NEW t \in Threads
        PROVE  ~GiveUp(t)
    <2>1. /\ clock \in Nat /\ tat \in Int /\ tries[t] \in 0..MaxRetries /\ MaxRetries \in Nat
          /\ Interval \in Nat /\ BurstOffset \in Nat
      BY LimiterAssumption DEF RetryInv, TypeInv, TypeOK
    <2>2. CASE pc[t] = "try" /\ ~Allows
      <3>1. ~(tat <= clock)
        BY <2>1, <2>2 DEF Allows, Later
      <3>2. tries[t] = MaxRetries
        BY <2>2, <3>1 DEF RetryInv, PacedOnce
      <3> QED
        BY <2>1, <3>2 DEF GiveUp, MayRetry
    <2> QED
      BY <2>2 DEF GiveUp
  <1>2. CASE UNCHANGED vars \/ Tick
    BY <1>2 DEF Tick, vars, history
  <1>3. ASSUME NEW t \in Threads, Step(t)
        PROVE  bypasses' = 0
    BY <1>1, <1>3
       DEF Step, Enter, Acquire, TryAcquire, StoreTat, Denied, Sleep, Spin, Wake, CountLoad,
           CountStore, Acquired, Perform, Respond, RecordResponse, RecordThrottle,
           StoreBackoff, Responded, history
  <1> QED
    BY <1>2, <1>3 DEF Next

\* A sub-batch sent now follows every earlier one, and takes every grant along.
LEMMA WireSend ==
  ASSUME WireInv, GrantInv', RetryInv', bypasses' = 0, NEW t \in Threads, Send(t)
  PROVE  WireInv'
  <1> DEFINE s == [at |-> clock, upto |-> Len(grants)]
             n == Len(sends)
  <1>1. /\ clock \in Nat /\ grants \in Seq(Nat) /\ sends \in Seq(SendType)
    BY DEF WireInv, GrantInv, CoverInv, TypeInv, TypeOK, SendsInv
  <1>2. /\ clock' = clock /\ grants' = grants /\ sends' = Append(sends, s)
    <2>1. Len(grants) + bypasses = Len(grants)
      BY <1>1 DEF WireInv
    <2> QED
      BY <2>1 DEF Send, Perform, history
  <1>3. s \in SendType /\ s.at = clock /\ s.upto = Len(grants)
    BY <1>1 DEF SendType
  <1> HIDE DEF s
  <1>4. /\ n \in Nat /\ Len(sends') = n + 1 /\ sends'[n + 1] = s
        /\ \A k \in 1..n : sends'[k] = sends[k] /\ sends[k] \in SendType
        /\ sends' \in Seq(SendType)
    BY <1>1, <1>2, <1>3
  <1>5. Splits(s, clock, grants)
    BY <1>1, <1>3 DEF WireInv, GrantInv, GrantsPast, Splits
  <1>6. \A k \in 1..n : Splits(sends[k], clock, grants)
    BY DEF WireInv, SendsInv
  <1>7. \A j \in 1..n : \A i \in 1..(j - 1) : InOrder(sends[i], sends[j])
    BY DEF WireInv, SendsInv
  <1> HIDE DEF n
  <1>8. \A k \in 1..n : InOrder(sends[k], s)
    BY <1>3, <1>6 DEF InOrder, Splits
  <1>9. \A k \in 1..(n + 1) : Splits(sends'[k], clock', grants')
    <2>1. \A k \in 1..(n + 1) : k \in 1..n \/ k = n + 1
      BY <1>4
    <2> QED
      BY <1>2, <1>4, <1>5, <1>6, <2>1
  <1>10. ASSUME NEW j \in 1..(n + 1), NEW i \in 1..(j - 1)
         PROVE  InOrder(sends'[i], sends'[j])
    <2>1. i \in 1..n
      BY <1>4
    <2>2. CASE j = n + 1
      BY <1>4, <1>8, <2>1, <2>2
    <2>3. CASE j \in 1..n
      BY <1>4, <1>7, <2>1, <2>3
    <2> QED
      BY <1>4, <2>2, <2>3
  <1> QED
    BY <1>4, <1>9, <1>10 DEF WireInv, SendsInv

LEMMA WireStep ==
  ASSUME OneThread, RetryAfters \subseteq Nat, Interval <= BurstOffset, MaxRetries > 0,
         WireInv, [WireNext]_WireVars
  PROVE  WireInv'
  <1>1. [Next]_vars
    BY DEF WireNext, WireVars, Send, Next, Step
  <1>2. GrantInv' /\ GrantOrTick
    BY <1>1, GrantStep DEF WireInv
  <1>6. RetryInv' /\ bypasses' = 0
    BY <1>1, RetryStep, NeverGivesUp DEF WireInv
  <1>3. /\ clock \in Nat /\ clock' \in Nat /\ grants \in Seq(Nat)
        /\ sends \in Seq(SendType)
    BY <1>2 DEF WireInv, GrantInv, CoverInv, TypeInv, TypeOK, SendsInv
  <1>4. CASE sends' = sends
    <2>1. \A k \in 1..Len(sends) : Splits(sends[k], clock, grants)
      BY DEF WireInv, SendsInv
    <2>2. ASSUME NEW k \in 1..Len(sends)
          PROVE  Splits(sends[k], clock', grants')
      <3>1. sends[k] \in SendType
        BY <1>3
      <3>2. CASE grants' = grants /\ clock' >= clock
        BY <1>3, <2>1, <3>1, <3>2, SplitsLater
      <3>3. CASE grants' = Append(grants, clock) /\ clock' = clock
        BY <1>3, <2>1, <3>1, <3>3, SplitsAppended
      <3> QED
        BY <1>2, <3>2, <3>3 DEF GrantOrTick
    <2> QED
      BY <1>2, <1>4, <1>6, <2>2 DEF WireInv, SendsInv
  <1>5. ASSUME NEW t \in Threads, Send(t) PROVE WireInv'
    BY <1>2, <1>5, <1>6, WireSend
  <1> QED
    BY <1>4, <1>5 DEF WireNext, WireVars

\* Two sub-batches with grants between them lie at least as far apart as the
\* first and the last of those grants.
LEMMA WireFits == WireInv => WireConforms
  <1> SUFFICES ASSUME WireInv, NEW j \in 1..Len(sends), NEW i \in 1..(j - 1)
               PROVE  sends[j].at - sends[i].at
                        >= (sends[j].upto - sends[i].upto) * Interval - BurstOffset
    BY DEF WireConforms
  <1> DEFINE a == sends[i].at
             b == sends[j].at
             u == sends[i].upto
             v == sends[j].upto
  <1>1. grants \in Seq(Nat) /\ sends \in Seq(SendType)
    BY DEF WireInv, GrantInv, CoverInv, TypeInv, TypeOK, SendsInv
  <1>2. i \in 1..Len(sends) /\ sends[i] \in SendType /\ sends[j] \in SendType
    BY <1>1
  <1>3. a \in Nat /\ b \in Nat /\ u \in Nat /\ v \in Nat
    BY <1>2 DEF SendType
  <1>4. a <= b /\ u <= v
    BY DEF WireInv, SendsInv, InOrder
  <1>5. /\ v <= Len(grants)
        /\ \A k \in 1..Len(grants) : k <= v => grants[k] <= b
        /\ \A k \in 1..Len(grants) : ~(k <= u) => grants[k] >= a
    BY <1>2 DEF WireInv, SendsInv, Splits
  <1> HIDE DEF a, b, u, v
  <1>6. b - a >= (v - u) * Interval - BurstOffset
    <2>1. CASE u = v
      <3>1. (v - u) * Interval = 0
        BY <1>3, <2>1
      <3> QED
        BY <1>3, <1>4, <3>1
    <2>2. CASE u < v
      <3>1. v \in 1..Len(grants) /\ u + 1 \in 1..Len(grants) /\ u + 1 \in 1..v
        BY <1>1, <1>3, <1>5, <2>2
      <3>2. grants[v] - grants[u + 1] >= (v - (u + 1) + 1) * Interval - BurstOffset
        BY <3>1 DEF WireInv, GrantInv, GrantsConform
      <3>3. v - (u + 1) + 1 = v - u
        BY <1>3
      <3>4. grants[v] <= b /\ grants[u + 1] >= a /\ grants[v] \in Nat /\ grants[u + 1] \in Nat
        BY <1>1, <1>3, <1>5, <3>1
      <3> DEFINE m == (v - u) * Interval
      <3>5. m \in Int /\ grants[v] - grants[u + 1] >= m - BurstOffset
        BY <1>3, <3>2, <3>3
      <3> HIDE DEF m
      <3>6. b - a >= m - BurstOffset
        BY <1>3, <3>4, <3>5
      <3> QED
        BY <3>6 DEF m
    <2> QED
      BY <1>3, <1>4, <2>1, <2>2
  <1> QED
    BY <1>6 DEF a, b, u, v

\* Although a sub-batch of a lone thread may put more than a burst on the wire
\* at once, what it sends from one sub-batch to any later one fits the rate and
\* the burst, for every rate, every burst of at least one and every non-negative
\* Retry-After.  Every request it sends counts, with a token or without.
THEOREM OneThreadWireConforms ==
  ASSUME OneThread, RetryAfters \subseteq Nat, Interval <= BurstOffset, MaxRetries > 0
  PROVE  WireSpec => []WireConforms
  <1>1. WireInit => WireInv
    BY GrantInit, TypeInit DEF WireInit, Init, WireInv, SendsInv, RetryInv, PacedOnce
  <1>2. WireInv /\ [WireNext]_WireVars => WireInv'
    BY WireStep
  <1> QED
    BY <1>1, <1>2, WireFits, PTL DEF WireSpec

-----------------------------------------------------------------------------
(* Any number of threads: a burst below one.                                *)

\* Nothing is granted, so only a Retry-After moves the TAT.
SmallInv ==
    /\ TypeInv /\ owed >= 0
    /\ grants = <<>>
    /\ tat - clock <= owed
    /\ \A t \in Threads :
          /\ pc[t] # "store"
          /\ pc[t] = "backoff" => reg[t] - clock <= owed

LEMMA NothingAllowed ==
  ASSUME TypeOK, BurstOffset < Interval
  PROVE  ~Allows
  <1>1. Later(tat, clock) - clock >= 0 /\ Later(tat, clock) \in Int
    BY DEF TypeOK, Later
  <1> QED
    BY <1>1 DEF Allows, TypeOK

LEMMA SmallStep ==
  ASSUME RetryAfters \subseteq Nat, BurstOffset < Interval, SmallInv, [Next]_vars
  PROVE  SmallInv'
  <1>0. TypeInv' /\ TypeOK /\ ~Allows
    BY TypeStep, NothingAllowed DEF SmallInv, TypeInv
  <1>t. clock \in Nat /\ tat \in Int /\ owed \in Int /\ reg \in [Threads -> Int]
        /\ pc \in [Threads -> PCs]
    BY <1>0 DEF TypeOK
  <1>1. CASE Tick \/ UNCHANGED vars
    <2>1. /\ UNCHANGED <<grants, owed, pc, reg, tat>>
          /\ clock' = clock \/ clock' = clock + 1
      BY <1>1 DEF Tick, vars, limiterVars, callVars, history
    <2> QED
      BY <1>0, <1>t, <2>1 DEF SmallInv
  <1>2. ASSUME NEW t \in Threads, Step(t) PROVE SmallInv'
    <2> USE DEF Goto
    <2>1. CASE \/ Enter(t) \/ Denied(t) \/ GiveUp(t) \/ Sleep(t) \/ Spin(t) \/ Wake(t)
               \/ CountLoad(t) \/ CountStore(t) \/ Acquired(t) \/ Perform(t) \/ Responded(t)
               \/ \E is429 \in BOOLEAN : RecordResponse(t, is429)
      <3>1. /\ UNCHANGED <<grants, owed, reg, tat, clock>>
            /\ \/ pc' = pc
               \/ \E l \in PCs \ {"store", "backoff"} : pc' = [pc EXCEPT ![t] = l]
        BY <2>1 DEF Enter, Denied, GiveUp, Sleep, Spin, Wake, CountLoad, CountStore, Acquired,
                    Perform, Responded, NextResponse, RecordResponse, limiterVars, callVars,
                    history, PCs
      <3> QED
        BY <1>0, <1>t, <3>1 DEF SmallInv
    <2>2. CASE TryAcquire(t)
      BY <1>0, <2>2 DEF TryAcquire
    <2>3. CASE StoreTat(t)
      BY <2>3 DEF StoreTat, SmallInv
    <2>4. ASSUME NEW r \in RetryAfters, RecordThrottle(t, r) PROVE SmallInv'
      <3>1. /\ pc' = [pc EXCEPT ![t] = "backoff"]
            /\ UNCHANGED <<clock, tat, grants>> /\ owed' = owed + r /\ r \in Nat
        BY <2>4 DEF RecordThrottle, limiterVars
      <3>2. /\ reg'[t] \in Int
            /\ reg'[t] = tat + r \/ reg'[t] = clock + r
            /\ \A u \in Threads : u # t => reg'[u] = reg[u]
        BY <1>0, <2>4, ThrottleEffect
      <3>3. reg'[t] - clock' <= owed'
        BY <1>t, <3>1, <3>2 DEF SmallInv
      <3>4. ASSUME NEW u \in Threads, u # t
            PROVE  pc'[u] # "store" /\ (pc'[u] = "backoff" => reg'[u] - clock' <= owed')
        <4>1. pc'[u] = pc[u] /\ reg'[u] = reg[u] /\ reg[u] \in Int
          BY <1>t, <3>1, <3>2, <3>4
        <4> QED
          BY <1>t, <3>1, <4>1 DEF SmallInv
      <3>5. pc'[t] = "backoff"
        BY <1>t, <3>1
      <3> QED
        BY <1>0, <1>t, <3>1, <3>3, <3>4, <3>5 DEF SmallInv
    <2>5. CASE StoreBackoff(t)
      <3>1. /\ UNCHANGED <<clock, grants, owed>> /\ tat' = reg[t] /\ pc[t] = "backoff"
            /\ reg' = [reg EXCEPT ![t] = 0]
            /\ \E l \in {"idle", "drain"} : pc' = [pc EXCEPT ![t] = l]
        BY <2>5 DEF StoreBackoff, NextResponse, history
      <3> QED
        BY <1>0, <1>t, <3>1 DEF SmallInv
    <2> QED
      BY <1>2, <2>1, <2>2, <2>3, <2>4, <2>5 DEF Step, Acquire, Respond
  <1> QED
    BY <1>1, <1>2 DEF Next

\* A limiter whose burst is below one never grants a request, whatever the number
\* of threads, and the delay it asks for is at most the sum of the Retry-Afters
\* received so far: calls sleep after a 429 with a positive one, and else not.
THEOREM BelowOneIsUnpaced ==
  ASSUME RetryAfters \subseteq Nat
  PROVE  Spec => []BelowOneUnpaced
  <1>1. CASE BurstOffset < Interval
    <2>1. Init => SmallInv
      BY TypeInit DEF Init, SmallInv
    <2>2. SmallInv /\ [Next]_vars => SmallInv'
      BY <1>1, SmallStep
    <2>3. SmallInv => BelowOneUnpaced
      BY DEF SmallInv, BelowOneUnpaced
    <2> QED
      BY <2>1, <2>2, <2>3, PTL DEF Spec
  <1>2. CASE ~(BurstOffset < Interval)
    <2>1. BelowOneUnpaced
      BY <1>2 DEF BelowOneUnpaced
    <2> QED
      BY <2>1, PTL
  <1> QED
    BY <1>1, <1>2

-----------------------------------------------------------------------------
(* Any number of threads: each call ends.                                   *)

\* Only a thread that records a call or a response has counters to increment, and
\* those of the one or of the other.
Queued(t) ==
    /\ todo[t] \in {<<>>} \cup RequestLists \cup ResponseLists
    /\ todo[t] \in RequestLists => pc[t] = "record"
    /\ todo[t] \in ResponseLists => pc[t] \in {"response", "throttle"}

ListInv == TypeInv /\ \A t \in Threads : Queued(t)

\* A step leaves the locals of the other threads alone.
LEMMA Elsewhere ==
  ASSUME TypeOK, NEW t \in Threads, Step(t), NEW u \in Threads, u # t
  PROVE  /\ pc'[u] = pc[u] /\ todo'[u] = todo[u] /\ cnt'[u] = cnt[u]
         /\ inflight'[u] = inflight[u] /\ tries'[u] = tries[u]
  <1> USE DEF Goto, TypeOK, limiterVars, callVars, history
  <1>1. CASE Enter(t)
    BY <1>1 DEF Enter
  <1>2. CASE TryAcquire(t)
    BY <1>2 DEF TryAcquire
  <1>3. CASE StoreTat(t)
    BY <1>3 DEF StoreTat
  <1>4. CASE Denied(t) \/ GiveUp(t)
    BY <1>4 DEF Denied, GiveUp
  <1>5. CASE Sleep(t) \/ Spin(t) \/ Wake(t)
    BY <1>5 DEF Sleep, Spin, Wake
  <1>6. CASE CountLoad(t) \/ CountStore(t)
    BY <1>6 DEF CountLoad, CountStore
  <1>7. CASE Acquired(t) \/ Perform(t)
    BY <1>7 DEF Acquired, Perform
  <1>8. CASE \E is429 \in BOOLEAN : RecordResponse(t, is429)
    BY <1>8 DEF RecordResponse
  <1>9. CASE \E r \in RetryAfters : RecordThrottle(t, r)
    BY <1>9 DEF RecordThrottle
  <1>10. CASE StoreBackoff(t) \/ Responded(t)
    BY <1>10 DEF StoreBackoff, Responded
  <1> QED
    BY <1>1, <1>2, <1>3, <1>4, <1>5, <1>6, <1>7, <1>8, <1>9, <1>10 DEF Step, Acquire, Respond

\* The measure at each place, and what is left to count of each list.
LEMMA StepsAt ==
  ASSUME NEW t \in Threads
  PROVE  /\ pc[t] = "idle" => StepsLeft(t) = 0
         /\ pc[t] = "try" => StepsLeft(t) = 7 + 3 * tries[t]
         /\ pc[t] = "sleep" => StepsLeft(t) = 8 + 3 * tries[t]
         /\ pc[t] = "wait" => StepsLeft(t) = 9 + 3 * tries[t]
         /\ pc[t] = "store" => StepsLeft(t) = 6
         /\ pc[t] = "record" => StepsLeft(t) = 1 + ToCount(t)
         /\ pc[t] = "drain" => StepsLeft(t) = 8 * inflight[t]
         /\ pc[t] = "response" => StepsLeft(t) = 8 * inflight[t] + 1 + ToCount(t)
         /\ pc[t] = "throttle" => StepsLeft(t) = 8 * inflight[t] + 3 + ToCount(t)
         /\ pc[t] = "backoff" => StepsLeft(t) = 8 * inflight[t] + 2
  BY DEF StepsLeft

LEMMA ToCountFact ==
  ASSUME TypeInv, NEW t \in Threads
  PROVE  /\ ToCount(t) \in Nat
         /\ todo[t] = <<>> => ToCount(t) = 0 /\ cnt[t] = None
  <1>1. todo[t] \in Seq(Counters) /\ (cnt[t] # None => todo[t] # <<>>)
    BY DEF TypeInv, TypeOK, Shape
  <1> QED
    BY <1>1 DEF ToCount

LEMMA Lengths ==
  \A l \in RequestLists \cup ResponseLists :
      l # <<>> /\ Len(l) \in {1, 2}
  <1>1. /\ Len(<<"requests">>) = 1 /\ Len(<<"requests", "paced">>) = 2 /\ Len(<<"paced">>) = 1
        /\ Len(<<"responses">>) = 1 /\ Len(<<"responses", "throttled">>) = 2
        /\ Len(<<"throttled">>) = 1
    OBVIOUS
  <1> QED
    BY <1>1, Lists DEF RequestLists, ResponseLists

LEMMA StepsFrom ==
  ASSUME TypeInv, TypeInv', NEW t \in Threads, Queued(t), Step(t)
  PROVE  /\ Queued(t)'
         /\ pc[t] # "idle" => StepsLeft(t)' \in 0..(StepsLeft(t) - 1)
  <1>t. /\ pc \in [Threads -> PCs] /\ todo \in [Threads -> Seq(Counters)]
        /\ cnt \in [Threads -> Nat \cup {None}] /\ inflight \in [Threads -> Nat]
        /\ tries \in [Threads -> 0..MaxRetries]
        /\ inflight'[t] \in Nat /\ tries'[t] \in 0..MaxRetries /\ tries[t] \in 0..MaxRetries
        /\ inflight[t] \in Nat
    BY DEF TypeInv, TypeOK
  <1>d. /\ cnt'[t] = None => ToCount(t)' = 2 * Len(todo'[t])
        /\ cnt'[t] # None => ToCount(t)' = 2 * Len(todo'[t]) - 1
        /\ cnt[t] = None => ToCount(t) = 2 * Len(todo[t])
        /\ cnt[t] # None => ToCount(t) = 2 * Len(todo[t]) - 1
    <2>1. Len(todo[t]) \in Nat /\ Len(todo'[t]) \in Nat
      BY SMTT(30) DEF TypeInv, TypeOK
    <2>2. ToCount(t)' = 2 * Len(todo'[t]) - (IF cnt'[t] = None THEN 0 ELSE 1)
      BY DEF ToCount
    <2>3. ToCount(t) = 2 * Len(todo[t]) - (IF cnt[t] = None THEN 0 ELSE 1)
      BY DEF ToCount
    <2>4. ASSUME NEW n \in Nat PROVE 2 * n - 0 = 2 * n
      OBVIOUS
    <2> QED
      BY <2>1, <2>2, <2>3, <2>4
  <1>c. /\ ToCount(t) \in Nat /\ ToCount(t)' \in Nat
        /\ todo[t] = <<>> => ToCount(t) = 0 /\ cnt[t] = None
        /\ todo'[t] = <<>> => ToCount(t)' = 0 /\ cnt'[t] = None
    <2>1. todo'[t] \in Seq(Counters) /\ (cnt'[t] # None => todo'[t] # <<>>)
      BY DEF TypeInv, TypeOK, Shape
    <2> QED
      BY <1>d, <2>1, ToCountFact
  <1>a. /\ pc'[t] = "idle" => StepsLeft(t)' = 0
        /\ pc'[t] = "try" => StepsLeft(t)' = 7 + 3 * tries'[t]
        /\ pc'[t] = "sleep" => StepsLeft(t)' = 8 + 3 * tries'[t]
        /\ pc'[t] = "wait" => StepsLeft(t)' = 9 + 3 * tries'[t]
        /\ pc'[t] = "store" => StepsLeft(t)' = 6
        /\ pc'[t] = "record" => StepsLeft(t)' = 1 + ToCount(t)'
        /\ pc'[t] = "drain" => StepsLeft(t)' = 8 * inflight'[t]
        /\ pc'[t] = "response" => StepsLeft(t)' = 8 * inflight'[t] + 1 + ToCount(t)'
        /\ pc'[t] = "throttle" => StepsLeft(t)' = 8 * inflight'[t] + 3 + ToCount(t)'
        /\ pc'[t] = "backoff" => StepsLeft(t)' = 8 * inflight'[t] + 2
    BY DEF StepsLeft
  <1>l. RequestLists \cap ResponseLists = {} /\ <<>> \notin RequestLists \cup ResponseLists
    BY Lists
  <1>1. CASE Enter(t) \/ Perform(t)
    <2>1. /\ pc[t] = "idle" /\ todo'[t] = todo[t]
      BY <1>t, <1>1 DEF Enter, Perform, callVars
    <2> QED
      BY <1>l, <2>1 DEF Queued
  <1>2. CASE TryAcquire(t)
    <2>1. /\ pc[t] = "try" /\ pc'[t] = "store" /\ todo'[t] = todo[t]
      BY <1>t, <1>2 DEF TryAcquire, Goto
    <2> QED
      BY <1>t, <1>a, <1>l, <2>1, StepsAt DEF Queued
  <1>3. CASE StoreTat(t) \/ GiveUp(t)
    <2>1. /\ pc[t] \in {"store", "try"} /\ pc'[t] = "record" /\ todo'[t] = Record(t)
          /\ cnt'[t] = cnt[t]
      BY <1>t, <1>3 DEF StoreTat, GiveUp, Goto
    <2>2. Record(t) \in RequestLists
      BY DEF Record, RequestLists
    <2>3. Queued(t)'
      BY <1>l, <2>1, <2>2 DEF Queued
    <2>4. ToCount(t)' <= 4
      <3>1. Len(todo'[t]) \in {1, 2}
        BY <2>1, <2>2, Lengths
      <3>2. \/ ToCount(t)' = 2 * Len(todo'[t])
            \/ ToCount(t)' = 2 * Len(todo'[t]) - 1
        BY <1>d
      <3>3. ASSUME NEW x \in Nat, NEW n \in {1, 2}, x = 2 * n \/ x = 2 * n - 1
            PROVE  x <= 4
        BY <3>3
      <3> QED
        BY <1>c, <3>1, <3>2, <3>3
    <2>5. StepsLeft(t)' \in 0..5
      BY <1>a, <1>c, <2>1, <2>4
    <2>6. StepsLeft(t) >= 6 /\ StepsLeft(t) \in Int
      BY <1>t, <2>1, StepsAt
    <2> QED
      BY <2>3, <2>5, <2>6
  <1>4. CASE Denied(t)
    <2>1. /\ pc[t] = "try" /\ pc'[t] = "wait" /\ todo'[t] = todo[t]
          /\ tries'[t] = tries[t] - 1
      BY <1>t, <1>4 DEF Denied, Goto
    <2> QED
      BY <1>t, <1>a, <1>l, <2>1, StepsAt DEF Queued
  <1>5. CASE Sleep(t) \/ Spin(t) \/ Wake(t)
    <2>1. /\ todo'[t] = todo[t] /\ tries'[t] = tries[t]
          /\ \/ pc[t] = "wait" /\ pc'[t] \in {"sleep", "try"}
             \/ pc[t] = "sleep" /\ pc'[t] = "try"
      BY <1>t, <1>5 DEF Sleep, Spin, Wake, Goto, callVars
    <2> QED
      BY <1>t, <1>a, <1>l, <2>1, StepsAt, SMTT(30) DEF Queued
  <1>6. CASE CountLoad(t) \/ CountStore(t)
    <2>1. /\ pc'[t] = pc[t] /\ inflight'[t] = inflight[t] /\ todo[t] # <<>>
          /\ \/ todo'[t] = todo[t] /\ cnt[t] = None /\ cnt'[t] # None
             \/ todo'[t] = Tail(todo[t]) /\ cnt[t] # None /\ cnt'[t] = None
      <3>1. CASE CountLoad(t)
        <4>1. counters[Head(todo[t])] + 1 # None
          <5>1. Head(todo[t]) \in Counters
            BY <1>t, <3>1, HeadTail DEF CountLoad
          <5>2. counters[Head(todo[t])] \in Nat
            BY <5>1 DEF TypeInv, TypeOK
          <5> QED
            BY <5>2 DEF None
        <4> QED
          BY <1>t, <3>1, <4>1 DEF CountLoad
      <3>2. CASE CountStore(t)
        BY <1>t, <1>c, <3>2 DEF CountStore
      <3> QED
        BY <1>6, <3>1, <3>2
    <2>2. todo[t] \in RequestLists \cup ResponseLists
      BY <2>1 DEF Queued
    <2>3. Queued(t)'
      <3>1. /\ todo[t] \in RequestLists => Tail(todo[t]) \in {<<>>} \cup RequestLists
            /\ todo[t] \in ResponseLists => Tail(todo[t]) \in {<<>>} \cup ResponseLists
        <4>1. <<"paced">> \in RequestLists /\ <<"throttled">> \in ResponseLists
          BY DEF RequestLists, ResponseLists
        <4> QED
          BY <4>1, Lists
      <3> QED
        BY <1>l, <2>1, <2>2, <3>1 DEF Queued
    <2>4. ToCount(t)' = ToCount(t) - 1
      <3>1. todo[t] \in Seq(Counters) /\ Len(Tail(todo[t])) = Len(todo[t]) - 1
            /\ Len(todo[t]) \in Nat
        BY <1>t, <2>1
      <3>2. ASSUME NEW n \in Nat PROVE 2 * n - 1 = (2 * n) - 1 /\ 2 * (n - 1) = (2 * n - 1) - 1
        OBVIOUS
      <3> QED
        BY <1>d, <2>1, <3>1, <3>2
    <2>5. pc[t] \in {"record", "response", "throttle"}
      BY <2>2 DEF Queued
    <2> QED
      BY <1>t, <1>a, <1>c, <2>1, <2>3, <2>4, <2>5, StepsAt, SMTT(30)
  <1>7. CASE Acquired(t)
    <2>1. pc[t] = "record" /\ pc'[t] = "idle" /\ todo[t] = <<>> /\ todo'[t] = <<>>
      BY <1>t, <1>7 DEF Acquired, Goto
    <2> QED
      BY <1>a, <1>c, <1>l, <2>1, StepsAt DEF Queued
  <1>8. ASSUME NEW is429 \in BOOLEAN, RecordResponse(t, is429)
        PROVE  Queued(t)' /\ StepsLeft(t)' \in 0..(StepsLeft(t) - 1)
    <2>1. /\ pc[t] = "drain" /\ pc'[t] \in {"throttle", "response"}
          /\ inflight'[t] = inflight[t] - 1
          /\ todo'[t] \in {<<"responses", "throttled">>, <<"responses">>}
      BY <1>t, <1>8 DEF RecordResponse, Goto
    <2>2. todo'[t] \in ResponseLists
      BY <2>1 DEF ResponseLists
    <2>3. Queued(t)'
      BY <1>l, <2>1, <2>2 DEF Queued
    <2>4. ToCount(t)' <= 4
      <3>1. Len(todo'[t]) \in {1, 2}
        BY <2>2, Lengths
      <3>2. \/ ToCount(t)' = 2 * Len(todo'[t])
            \/ ToCount(t)' = 2 * Len(todo'[t]) - 1
        BY <1>d
      <3>3. ASSUME NEW x \in Nat, NEW n \in {1, 2}, x = 2 * n \/ x = 2 * n - 1
            PROVE  x <= 4
        BY <3>3
      <3> QED
        BY <1>c, <3>1, <3>2, <3>3
    <2>5. StepsLeft(t) = 8 * inflight[t] /\ inflight'[t] = inflight[t] - 1
      BY <2>1, StepsAt
    <2>6. \/ StepsLeft(t)' = 8 * inflight'[t] + 1 + ToCount(t)'
          \/ StepsLeft(t)' = 8 * inflight'[t] + 3 + ToCount(t)'
      BY <1>a, <2>1
    <2>7. ASSUME NEW i \in Nat, NEW k \in Nat, NEW x \in Nat, k = i - 1, x <= 4
          PROVE  /\ 8 * k + 1 + x \in 0..(8 * i - 1)
                 /\ 8 * k + 3 + x \in 0..(8 * i - 1)
      BY <2>7
    <2>8. /\ 8 * inflight'[t] + 1 + ToCount(t)' \in 0..(8 * inflight[t] - 1)
          /\ 8 * inflight'[t] + 3 + ToCount(t)' \in 0..(8 * inflight[t] - 1)
      BY <1>t, <1>c, <2>4, <2>5, <2>7
    <2> QED
      BY <2>3, <2>5, <2>6, <2>8
  <1>9. ASSUME NEW r \in RetryAfters, RecordThrottle(t, r)
        PROVE  Queued(t)' /\ StepsLeft(t)' \in 0..(StepsLeft(t) - 1)
    <2>1. /\ pc[t] = "throttle" /\ pc'[t] = "backoff" /\ inflight'[t] = inflight[t]
          /\ todo[t] = <<>> /\ todo'[t] = <<>>
      BY <1>t, <1>9 DEF RecordThrottle, Goto
    <2> QED
      BY <1>t, <1>a, <1>c, <1>l, <2>1, StepsAt DEF Queued
  <1>10. CASE StoreBackoff(t) \/ Responded(t)
    <2>1. /\ pc[t] \in {"backoff", "response"} /\ inflight'[t] = inflight[t]
          /\ pc'[t] = NextResponse(t) /\ todo'[t] = todo[t]
          /\ pc[t] = "response" => todo[t] = <<>>
      BY <1>t, <1>10 DEF StoreBackoff, Responded, Goto, callVars
    <2>2. pc'[t] = "idle" \/ pc'[t] = "drain"
      BY <2>1 DEF NextResponse
    <2>3. todo[t] = <<>>
      BY <1>l, <2>1 DEF Queued
    <2> QED
      BY <1>t, <1>a, <1>c, <1>l, <2>1, <2>2, <2>3, StepsAt DEF Queued
  <1> QED
    BY <1>1, <1>2, <1>3, <1>4, <1>5, <1>6, <1>7, <1>8, <1>9, <1>10 DEF Step, Acquire, Respond

LEMMA ListNext == ListInv /\ [Next]_vars => ListInv'
  <1> SUFFICES ASSUME ListInv, [Next]_vars PROVE ListInv'
    OBVIOUS
  <1>0. TypeInv' /\ TypeInv /\ TypeOK
    BY TypeStep DEF ListInv, TypeInv
  <1>1. CASE Tick \/ UNCHANGED vars
    <2>1. UNCHANGED <<pc, todo>>
      BY <1>1 DEF Tick, vars, limiterVars, callVars, history
    <2> QED
      BY <1>0, <2>1 DEF ListInv, Queued
  <1>2. ASSUME NEW t \in Threads, Step(t) PROVE ListInv'
    <2>1. Queued(t)'
      BY <1>0, <1>2, StepsFrom DEF ListInv
    <2>2. ASSUME NEW u \in Threads, u # t PROVE Queued(u)'
      <3>1. pc'[u] = pc[u] /\ todo'[u] = todo[u]
        BY <1>0, <1>2, <2>2, Elsewhere
      <3> QED
        BY <3>1 DEF ListInv, Queued
    <2> QED
      BY <1>0, <2>1, <2>2 DEF ListInv
  <1> QED
    BY <1>1, <1>2 DEF Next

LEMMA ListAlways == Spec => []ListInv
  <1>1. Init => ListInv
    BY TypeInit, Lists DEF Init, ListInv, Queued
  <1> QED
    BY <1>1, ListNext, PTL DEF Spec

\* AcquireRateLimit returns after a bounded number of a thread's own steps, and so
\* does the recording of a sub-batch's responses, whatever the other threads do
\* and in whatever order.
THEOREM CallsAreBounded == Spec => CallsBounded
  <1>1. ASSUME ListInv, Next, NEW t \in Threads, pc[t] # "idle"
        PROVE  \/ UNCHANGED <<pc[t], cnt[t]>>
               \/ StepsLeft(t)' \in 0..(StepsLeft(t) - 1)
    <2>0. TypeInv' /\ TypeInv /\ TypeOK /\ Queued(t)
      BY <1>1, TypeStep DEF ListInv, TypeInv
    <2>1. CASE Tick
      BY <2>1 DEF Tick, callVars
    <2>2. ASSUME NEW u \in Threads, Step(u), u # t
          PROVE  UNCHANGED <<pc[t], cnt[t]>>
      BY <2>0, <2>2, Elsewhere
    <2>3. CASE Step(t)
      BY <1>1, <2>0, <2>3, StepsFrom
    <2> QED
      BY <1>1, <2>1, <2>2, <2>3 DEF Next
  <1> DEFINE A == \A t \in Threads : pc[t] # "idle" =>
                    \/ UNCHANGED <<pc[t], cnt[t]>>
                    \/ StepsLeft(t)' \in 0..(StepsLeft(t) - 1)
  <1>2. ListInv /\ [Next]_vars => [A]_vars
    BY <1>1
  <1>3. CallsBounded <=> [][A]_vars
    BY DEF CallsBounded
  <1> HIDE DEF A
  <1> QED
    BY <1>2, <1>3, ListAlways, PTL DEF Spec

-----------------------------------------------------------------------------
(* Any number of threads: no counter is ahead of what happened.  Every       *)
(* increment that may still come is a ticket, kept by one thread; a token or *)
(* a give-up pays for one ticket of each counter, and a store uses one up.   *)

Total == Len(grants) + bypasses

ResponseCounters == {"responses", "throttled"}

Named(l) == {c \in Counters : \E i \in DOMAIN l : l[i] = c}

\* The tickets of counter c that thread t keeps: one for the call it has been let
\* through for, or the response it is recording, and one for each response it
\* awaits.
Held(t, c) ==
    (IF \/ pc[t] = "store" \/ c \in Named(todo[t])
        \/ pc[t] = "record" /\ c \in ResponseCounters THEN {0} ELSE {})
    \cup (IF c \in ResponseCounters THEN 1..inflight[t] ELSE {})

Tickets(c) == {p \in Threads \X Nat : p[2] \in Held(p[1], c)}

\* A counter, or the value a thread has in a register for it, leaves room for the
\* increments that may still come.
NeverAhead ==
    \A c \in Counters :
        /\ IsFiniteSet(Tickets(c))
        /\ counters[c] + Cardinality(Tickets(c)) <= Total
        /\ \A t \in Threads : cnt[t] # None /\ Head(todo[t]) = c =>
              cnt[t] + Cardinality(Tickets(c)) <= Total + 1

StatsNeverInv == ListInv /\ NeverAhead

\* The size of a set after one change.
LEMMA SizeKept ==
  ASSUME NEW A, IsFiniteSet(A), NEW B, B \subseteq A
  PROVE  IsFiniteSet(B) /\ Cardinality(B) <= Cardinality(A)
  BY FS_Subset

LEMMA SizeGrown ==
  ASSUME NEW A, IsFiniteSet(A), NEW x, NEW B, B \subseteq A \cup {x}
  PROVE  IsFiniteSet(B) /\ Cardinality(B) <= Cardinality(A) + 1
  <1>1. /\ IsFiniteSet(A \cup {x}) /\ Cardinality(A \cup {x}) <= Cardinality(A) + 1
        /\ Cardinality(A) \in Nat /\ Cardinality(A \cup {x}) \in Nat
    BY FS_AddElement, FS_CardinalityType
  <1>2. IsFiniteSet(B) /\ Cardinality(B) <= Cardinality(A \cup {x}) /\ Cardinality(B) \in Nat
    BY <1>1, FS_Subset, FS_CardinalityType
  <1> QED
    BY <1>1, <1>2

LEMMA SizeDropped ==
  ASSUME NEW A, IsFiniteSet(A), NEW x \in A, NEW B, B \subseteq A \ {x}
  PROVE  IsFiniteSet(B) /\ Cardinality(B) + 1 <= Cardinality(A)
  <1>1. /\ IsFiniteSet(A \ {x}) /\ Cardinality(A \ {x}) = Cardinality(A) - 1
        /\ Cardinality(A) \in Nat /\ Cardinality(A \ {x}) \in Nat
    BY FS_RemoveElement, FS_CardinalityType
  <1>2. IsFiniteSet(B) /\ Cardinality(B) <= Cardinality(A \ {x}) /\ Cardinality(B) \in Nat
    BY <1>1, FS_Subset, FS_CardinalityType
  <1> QED
    BY <1>1, <1>2

LEMMA SizeMoved ==
  ASSUME NEW A, IsFiniteSet(A), NEW x \in A, NEW y, NEW B, B \subseteq (A \ {x}) \cup {y}
  PROVE  IsFiniteSet(B) /\ Cardinality(B) <= Cardinality(A)
  <1>1. /\ IsFiniteSet(A \ {x}) /\ Cardinality(A \ {x}) + 1 <= Cardinality(A)
        /\ Cardinality(A) \in Nat /\ Cardinality(A \ {x}) \in Nat
    BY SizeDropped, FS_RemoveElement, FS_CardinalityType
  <1>2. IsFiniteSet(B) /\ Cardinality(B) <= Cardinality(A \ {x}) + 1
    BY <1>1, SizeGrown
  <1> QED
    BY <1>1, <1>2, FS_CardinalityType

\* The lists of counters name each counter once.
LEMMA Names ==
  /\ Named(<<>>) = {}
  /\ \A l \in RequestLists : Named(l) \subseteq {"requests", "paced"}
  /\ \A l \in ResponseLists : Named(l) \subseteq ResponseCounters
  /\ \A l \in RequestLists \cup ResponseLists :
        Head(l) \in Named(l) /\ Named(Tail(l)) \subseteq Named(l) \ {Head(l)}
  <1>1. /\ Named(<<>>) = {} /\ Named(<<"requests">>) = {"requests"}
        /\ Named(<<"requests", "paced">>) = {"requests", "paced"}
        /\ Named(<<"paced">>) = {"paced"} /\ Named(<<"responses">>) = {"responses"}
        /\ Named(<<"responses", "throttled">>) = {"responses", "throttled"}
        /\ Named(<<"throttled">>) = {"throttled"}
    BY DEF Named, Counters
  <1>2. /\ \A l \in RequestLists : Named(l) \subseteq {"requests", "paced"}
        /\ \A l \in ResponseLists : Named(l) \subseteq ResponseCounters
    BY <1>1 DEF RequestLists, ResponseLists, ResponseCounters
  <1>3. ASSUME NEW l \in RequestLists \cup ResponseLists
        PROVE  Head(l) \in Named(l) /\ Named(Tail(l)) \subseteq Named(l) \ {Head(l)}
    <2>1. /\ Head(<<"requests">>) = "requests" /\ Tail(<<"requests">>) = <<>>
          /\ Head(<<"requests", "paced">>) = "requests"
          /\ Tail(<<"requests", "paced">>) = <<"paced">>
          /\ Head(<<"paced">>) = "paced" /\ Tail(<<"paced">>) = <<>>
      OBVIOUS
    <2>2. /\ Head(<<"responses">>) = "responses" /\ Tail(<<"responses">>) = <<>>
          /\ Head(<<"responses", "throttled">>) = "responses"
          /\ Tail(<<"responses", "throttled">>) = <<"throttled">>
          /\ Head(<<"throttled">>) = "throttled" /\ Tail(<<"throttled">>) = <<>>
      OBVIOUS
    <2> QED
      BY <1>1, <2>1, <2>2 DEF RequestLists, ResponseLists
  <1> QED
    BY <1>1, <1>2, <1>3

LEMMA TotalType == TypeOK => Total \in Nat
  <1>1. TypeOK => Len(grants) \in Nat /\ bypasses \in Nat
    BY DEF TypeOK
  <1> QED
    BY <1>1 DEF Total

LEMMA TotalTypeNext == TypeOK' => Total' \in Nat
  <1>1. TypeOK' => Len(grants') \in Nat /\ bypasses' \in Nat
    BY DEF TypeOK
  <1> QED
    BY <1>1 DEF Total

\* What fits in the total still does after tickets and total have changed together.
LEMMA StillFits ==
  ASSUME NEW n \in Nat, NEW d \in Nat, NEW e \in Nat, NEW a \in Nat, NEW b \in Nat,
         e + a <= d + b
  PROVE  /\ n + d <= a => n + e <= b
         /\ n + d <= a + 1 => n + e <= b + 1
         /\ n + d <= a => (n + 1) + e <= b + 1
  OBVIOUS

LEMMA HeldType ==
  ASSUME TypeOK, NEW t \in Threads, NEW c
  PROVE  Held(t, c) \subseteq Nat
  <1>1. inflight[t] \in Nat
    BY DEF TypeOK
  <1> QED
    BY <1>1 DEF Held

\* A step of a thread keeps its tickets, takes one that a token or a give-up pays
\* for, or exchanges one.
LEMMA HeldStep ==
  ASSUME ListInv, TypeOK', NEW t \in Threads, Step(t), NEW c \in Counters
  PROVE  \/ Held(t, c)' \subseteq Held(t, c) /\ Total' = Total
         \/ Held(t, c)' \subseteq Held(t, c) \cup {0} /\ Total' = Total + 1
         \/ /\ \E x \in Held(t, c) : \E y \in Nat :
                  Held(t, c)' \subseteq (Held(t, c) \ {x}) \cup {y}
            /\ Total' = Total
  <1>t. /\ pc \in [Threads -> PCs] /\ todo \in [Threads -> Seq(Counters)]
        /\ inflight \in [Threads -> Nat] /\ inflight[t] \in Nat /\ inflight'[t] \in Nat
        /\ grants \in Seq(Nat) /\ bypasses \in Nat /\ clock \in Nat
    BY DEF ListInv, TypeInv, TypeOK
  <1>q. Queued(t)
    BY DEF ListInv
  <1>n. /\ Named(Record(t)) \cap ResponseCounters = {}
        /\ Named(<<>>) = {}
    <2>1. Record(t) \in RequestLists
      BY DEF Record, RequestLists
    <2> QED
      BY <2>1, Names DEF ResponseCounters
  <1>l. <<>> \notin RequestLists \cup ResponseLists
    BY Lists
  <1>1. CASE \/ Enter(t) \/ Denied(t) \/ Sleep(t) \/ Spin(t) \/ Wake(t)
             \/ Perform(t) \/ CountLoad(t) \/ StoreBackoff(t) \/ Responded(t)
             \/ \E r \in RetryAfters : RecordThrottle(t, r)
    <2>1. /\ UNCHANGED <<todo, inflight, grants, bypasses>>
          /\ pc'[t] # "store"
          /\ pc'[t] = "record" => pc[t] = "record"
      <3>1. CASE Enter(t) \/ Denied(t) \/ Sleep(t) \/ Spin(t) \/ Wake(t) \/ Perform(t)
        BY <1>t, <3>1 DEF Enter, Denied, Sleep, Spin, Wake, Perform, Goto, callVars, history
      <3>2. CASE CountLoad(t)
        <4>1. pc[t] # "store"
          BY <1>q, <1>l, <3>2 DEF CountLoad, Queued
        <4> QED
          BY <3>2, <4>1 DEF CountLoad, history
      <3>3. CASE \E r \in RetryAfters : RecordThrottle(t, r)
        BY <1>t, <3>3 DEF RecordThrottle, Goto
      <3>4. CASE StoreBackoff(t) \/ Responded(t)
        BY <1>t, <3>4 DEF StoreBackoff, Responded, NextResponse, Goto, callVars, history
      <3> QED
        BY <1>1, <3>1, <3>2, <3>3, <3>4
    <2> QED
      BY <2>1 DEF Held, Total
  <1>2. CASE TryAcquire(t)
    <2>1. /\ todo' = todo /\ inflight' = inflight /\ Total' = Total + 1
          /\ pc'[t] = "store"
      BY <1>t, <1>2 DEF TryAcquire, Goto, Total
    <2> QED
      BY <2>1 DEF Held
  <1>3. CASE StoreTat(t)
    <2>1. /\ pc[t] = "store" /\ inflight' = inflight /\ Total' = Total
      BY <1>t, <1>3 DEF StoreTat, Goto, Total, history
    <2> QED
      BY <2>1 DEF Held
  <1>4. CASE GiveUp(t)
    <2>1. /\ inflight' = inflight /\ Total' = Total + 1
      BY <1>t, <1>4 DEF GiveUp, Goto, Total
    <2> QED
      BY <2>1 DEF Held
  <1>5. CASE CountStore(t)
    <2>1. /\ inflight' = inflight /\ pc' = pc /\ todo'[t] = Tail(todo[t]) /\ Total' = Total
      BY <1>t, <1>5 DEF CountStore, Total, history
    <2>2. todo[t] \in RequestLists \cup ResponseLists
      BY <1>q, <1>5 DEF ListInv, TypeInv, Shape, CountStore, Queued
    <2>3. Named(todo'[t]) \subseteq Named(todo[t])
      BY <2>1, <2>2, Names
    <2> QED
      BY <2>1, <2>3 DEF Held
  <1>6. CASE Acquired(t)
    <2>1. /\ pc[t] = "record" /\ pc'[t] = "idle" /\ todo[t] = <<>> /\ todo'[t] = <<>>
          /\ inflight'[t] = inflight[t] + 1 /\ Total' = Total
      BY <1>t, <1>6 DEF Acquired, Goto, Total, history
    <2>2. CASE c \in ResponseCounters
      <3>1. 0 \in Held(t, c) /\ inflight'[t] \in Nat
        BY <1>t, <2>1, <2>2 DEF Held
      <3>2. Held(t, c)' \subseteq (Held(t, c) \ {0}) \cup {inflight'[t]}
        BY <1>t, <1>n, <2>1, <2>2 DEF Held
      <3> QED
        BY <2>1, <3>1, <3>2
    <2>3. CASE c \notin ResponseCounters
      BY <1>n, <2>1, <2>3 DEF Held
    <2> QED
      BY <2>2, <2>3
  <1>7. CASE \E is429 \in BOOLEAN : RecordResponse(t, is429)
    <2>1. /\ pc[t] = "drain" /\ pc'[t] \in {"throttle", "response"}
          /\ inflight'[t] = inflight[t] - 1 /\ inflight[t] > 0 /\ Total' = Total
          /\ todo'[t] \in ResponseLists
      BY <1>t, <1>7
         DEF RecordResponse, Goto, Total, history, ResponseLists, ListInv, TypeInv, Shape
    <2>2. CASE c \in ResponseCounters
      <3>1. inflight[t] \in Held(t, c) /\ 0 \in Nat
        BY <1>t, <2>1, <2>2 DEF Held
      <3>2. Held(t, c)' \subseteq (Held(t, c) \ {inflight[t]}) \cup {0}
        BY <1>t, <2>1, <2>2 DEF Held
      <3> QED
        BY <2>1, <3>1, <3>2
    <2>3. CASE c \notin ResponseCounters
      <3>1. c \notin Named(todo'[t])
        BY <2>1, <2>3, Names
      <3> QED
        BY <2>1, <2>3, <3>1 DEF Held
    <2> QED
      BY <2>2, <2>3
  <1> QED
    BY <1>1, <1>2, <1>3, <1>4, <1>5, <1>6, <1>7 DEF Step, Acquire, Respond

\* The tickets after a step are those of the other threads and the thread's own.
LEMMA TicketsFrom ==
  ASSUME TypeOK, NEW t \in Threads, Step(t), NEW c \in Counters, NEW X,
         Held(t, c)' \subseteq X
  PROVE  Tickets(c)' \subseteq {p \in Tickets(c) : p[1] # t} \cup ({t} \X X)
  <1>1. \A u \in Threads : u # t => Held(u, c)' = Held(u, c)
    BY Elsewhere DEF Held
  <1> QED
    BY <1>1 DEF Tickets

\* Whatever step is taken, the tickets of a counter grow only as tokens and
\* give-ups do.
LEMMA DebtStep ==
  ASSUME ListInv, TypeOK', NEW t \in Threads, Step(t), NEW c \in Counters,
         IsFiniteSet(Tickets(c))
  PROVE  /\ IsFiniteSet(Tickets(c)')
         /\ Cardinality(Tickets(c)') + Total <= Cardinality(Tickets(c)) + Total'
         /\ Total' >= Total
  <1>t. TypeOK /\ Total \in Nat /\ Total' \in Nat /\ Held(t, c) \subseteq Nat
    <2>1. TypeOK /\ Total \in Nat /\ Total' \in Nat
      BY TotalType, TotalTypeNext DEF ListInv, TypeInv
    <2> QED
      BY <2>1, HeldType
  <1>c. Cardinality(Tickets(c)) \in Nat
    BY FS_CardinalityType
  <1>1. CASE Held(t, c)' \subseteq Held(t, c) /\ Total' = Total
    <2>1. Tickets(c)' \subseteq Tickets(c)
      BY <1>t, <1>1, TicketsFrom DEF Tickets
    <2>2. IsFiniteSet(Tickets(c)') /\ Cardinality(Tickets(c)') <= Cardinality(Tickets(c))
      BY <2>1, SizeKept
    <2> QED
      BY <1>1, <1>c, <1>t, <2>2, FS_CardinalityType
  <1>2. CASE Held(t, c)' \subseteq Held(t, c) \cup {0} /\ Total' = Total + 1
    <2>1. Tickets(c)' \subseteq Tickets(c) \cup {<<t, 0>>}
      BY <1>t, <1>2, TicketsFrom DEF Tickets
    <2>2. IsFiniteSet(Tickets(c)') /\ Cardinality(Tickets(c)') <= Cardinality(Tickets(c)) + 1
      BY <2>1, SizeGrown
    <2> QED
      BY <1>2, <1>c, <1>t, <2>2, FS_CardinalityType
  <1>3. ASSUME NEW x \in Held(t, c), NEW y \in Nat,
               Held(t, c)' \subseteq (Held(t, c) \ {x}) \cup {y}, Total' = Total
        PROVE  /\ IsFiniteSet(Tickets(c)')
               /\ Cardinality(Tickets(c)') <= Cardinality(Tickets(c))
    <2>1. <<t, x>> \in Tickets(c)
      BY <1>3, <1>t DEF Tickets
    <2>2. Tickets(c)' \subseteq (Tickets(c) \ {<<t, x>>}) \cup {<<t, y>>}
      <3>1. Tickets(c)' \subseteq {p \in Tickets(c) : p[1] # t}
                                  \cup ({t} \X ((Held(t, c) \ {x}) \cup {y}))
        BY <1>3, <1>t, TicketsFrom
      <3> QED
        BY <1>t, <3>1 DEF Tickets
    <2> QED
      BY <2>1, <2>2, SizeMoved
  <1>4. CASE /\ \E x \in Held(t, c) : \E y \in Nat :
                  Held(t, c)' \subseteq (Held(t, c) \ {x}) \cup {y}
             /\ Total' = Total
    <2>1. IsFiniteSet(Tickets(c)') /\ Cardinality(Tickets(c)') <= Cardinality(Tickets(c))
      BY <1>3, <1>4
    <2> QED
      BY <1>4, <1>c, <1>t, <2>1, FS_CardinalityType
  <1> QED
    BY <1>1, <1>2, <1>4, HeldStep

\* A store uses up the ticket of the counter it increments.
LEMMA StoreDropsTicket ==
  ASSUME ListInv, NEW t \in Threads, CountStore(t), NEW c \in Counters, c = Head(todo[t]),
         IsFiniteSet(Tickets(c))
  PROVE  /\ IsFiniteSet(Tickets(c)')
         /\ Cardinality(Tickets(c)') + 1 <= Cardinality(Tickets(c))
  <1>1. /\ inflight' = inflight /\ pc' = pc /\ todo'[t] = Tail(todo[t])
        /\ \A u \in Threads : u # t => todo'[u] = todo[u]
    BY DEF CountStore, ListInv, TypeInv, TypeOK
  <1>2. todo[t] \in RequestLists \cup ResponseLists
    BY DEF ListInv, TypeInv, Shape, CountStore, Queued
  <1>3. /\ c \in Named(todo[t]) /\ c \notin Named(todo'[t])
        /\ Named(todo'[t]) \subseteq Named(todo[t])
    BY <1>1, <1>2, Names
  <1>4. c \in ResponseCounters => todo[t] \in ResponseLists
    BY <1>2, <1>3, Names DEF ResponseCounters
  <1>5. pc[t] # "store" /\ (c \in ResponseCounters => pc[t] # "record")
    BY <1>2, <1>4 DEF ListInv, Queued
  <1>6. 0 \in Held(t, c) /\ Held(t, c)' \subseteq Held(t, c) \ {0}
    <2>1. inflight[t] \in Nat
      BY DEF ListInv, TypeInv, TypeOK
    <2> QED
      BY <1>1, <1>3, <1>5, <2>1 DEF Held
  <1>7. <<t, 0>> \in Tickets(c)
    BY <1>6 DEF Tickets
  <1>8. Tickets(c)' \subseteq Tickets(c) \ {<<t, 0>>}
    <2>1. \A u \in Threads : u # t => Held(u, c)' = Held(u, c)
      BY <1>1 DEF Held
    <2> QED
      BY <1>6, <2>1 DEF Tickets
  <1> QED
    BY <1>7, <1>8, SizeDropped

\* Only the two halves of an increment touch the counters and the register, and a
\* list with a value in the register stays as it is.
LEMMA StoreKeepsRegister ==
  ASSUME ListInv, NEW t \in Threads, Step(t), ~(CountLoad(t) \/ CountStore(t))
  PROVE  /\ counters' = counters /\ cnt' = cnt
         /\ cnt[t] # None => todo'[t] = todo[t]
  <1> USE DEF Goto, limiterVars, callVars, history
  <1>q. /\ cnt[t] # None => pc[t] \in {"record", "response", "throttle"}
        /\ cnt[t] # None => todo[t] # <<>>
    BY DEF ListInv, TypeInv, Shape, Queued
  <1>1. CASE Enter(t) \/ Perform(t) \/ TryAcquire(t) \/ Denied(t)
    BY <1>1 DEF Enter, Perform, TryAcquire, Denied
  <1>2. CASE StoreTat(t) \/ GiveUp(t)
    BY <1>q, <1>2 DEF StoreTat, GiveUp
  <1>3. CASE Sleep(t) \/ Spin(t) \/ Wake(t) \/ Acquired(t)
    BY <1>3 DEF Sleep, Spin, Wake, Acquired
  <1>4. CASE \E is429 \in BOOLEAN : RecordResponse(t, is429)
    BY <1>q, <1>4 DEF RecordResponse
  <1>5. CASE \E r \in RetryAfters : RecordThrottle(t, r)
    BY <1>5 DEF RecordThrottle
  <1>6. CASE StoreBackoff(t) \/ Responded(t)
    BY <1>6 DEF StoreBackoff, Responded
  <1> QED
    BY <1>1, <1>2, <1>3, <1>4, <1>5, <1>6 DEF Step, Acquire, Respond

LEMMA StatsNeverStep == StatsNeverInv /\ [Next]_vars => StatsNeverInv'
  <1> SUFFICES ASSUME StatsNeverInv, [Next]_vars PROVE StatsNeverInv'
    OBVIOUS
  <1>0. ListInv /\ ListInv' /\ TypeInv /\ TypeInv' /\ TypeOK /\ TypeOK'
    BY ListNext DEF StatsNeverInv, ListInv, TypeInv
  <1>1. CASE Tick \/ UNCHANGED vars
    <2>1. UNCHANGED <<counters, pc, cnt, todo, inflight, grants, bypasses>>
      BY <1>1 DEF Tick, vars, limiterVars, callVars, history
    <2>2. Total' = Total /\ \A c \in Counters : Tickets(c)' = Tickets(c)
      BY <2>1 DEF Total, Tickets, Held
    <2> QED
      BY <1>0, <2>1, <2>2 DEF StatsNeverInv, NeverAhead
  <1>2. ASSUME NEW t \in Threads, Step(t), NEW c \in Counters
        PROVE  /\ IsFiniteSet(Tickets(c)')
               /\ counters'[c] + Cardinality(Tickets(c)') <= Total'
               /\ \A u \in Threads : cnt'[u] # None /\ Head(todo'[u]) = c =>
                     cnt'[u] + Cardinality(Tickets(c)') <= Total' + 1
    <2> DEFINE d == Cardinality(Tickets(c))
               e == Cardinality(Tickets(c)')
    <2>1. /\ IsFiniteSet(Tickets(c)) /\ counters[c] + d <= Total
          /\ \A u \in Threads : cnt[u] # None /\ Head(todo[u]) = c => cnt[u] + d <= Total + 1
      BY DEF StatsNeverInv, NeverAhead
    <2>2. IsFiniteSet(Tickets(c)') /\ e + Total <= d + Total' /\ Total' >= Total
      BY <1>0, <1>2, <2>1, DebtStep
    <2>3. /\ d \in Nat /\ e \in Nat /\ Total \in Nat /\ Total' \in Nat
          /\ counters[c] \in Nat /\ counters \in [Counters -> Nat]
          /\ cnt \in [Threads -> Nat \cup {None}]
      <3>1. d \in Nat /\ e \in Nat
        BY <2>1, <2>2, FS_CardinalityType
      <3>2. Total \in Nat /\ Total' \in Nat
        BY <1>0, TotalType, TotalTypeNext
      <3> QED
        BY <1>0, <3>1, <3>2 DEF TypeOK
    <2> HIDE DEF d, e
    <2>4. ASSUME NEW u \in Threads, u # t, cnt'[u] # None, Head(todo'[u]) = c
          PROVE  cnt'[u] + e <= Total' + 1
      <3>1. cnt'[u] = cnt[u] /\ todo'[u] = todo[u]
        BY <1>0, <1>2, <2>4, Elsewhere
      <3>2. cnt[u] \in Nat /\ cnt[u] + d <= Total + 1
        BY <2>1, <2>3, <2>4, <3>1
      <3> QED
        BY <2>2, <2>3, <3>1, <3>2, StillFits
    <2>5. CASE CountLoad(t)
      <3>1. /\ counters' = counters /\ todo' = todo
            /\ cnt'[t] = counters[Head(todo[t])] + 1
        BY <2>3, <2>5 DEF CountLoad, limiterVars
      <3>2. counters'[c] + e <= Total'
        BY <2>1, <2>2, <2>3, <3>1, StillFits
      <3>3. Head(todo'[t]) = c => cnt'[t] + e <= Total' + 1
        BY <2>1, <2>2, <2>3, <3>1, StillFits
      <3> QED
        BY <2>2, <2>4, <3>2, <3>3 DEF e
    <2>6. CASE CountStore(t)
      <3>1. /\ counters' = [counters EXCEPT ![Head(todo[t])] = cnt[t]]
            /\ cnt'[t] = None /\ Total' = Total /\ cnt[t] # None
        BY <2>3, <2>6 DEF CountStore, Total, history
      <3>2. counters'[c] + e <= Total'
        <4>1. CASE c = Head(todo[t])
          <5>1. e + 1 <= d
            BY <1>0, <2>1, <2>6, <4>1, StoreDropsTicket DEF d, e
          <5>2. cnt[t] \in Nat /\ cnt[t] + d <= Total + 1 /\ counters'[c] = cnt[t]
            BY <2>1, <2>3, <3>1, <4>1
          <5> QED
            BY <2>3, <3>1, <5>1, <5>2
        <4>2. CASE c # Head(todo[t])
          <5>1. counters'[c] = counters[c]
            BY <2>3, <3>1, <4>2
          <5>2. counters[c] + e <= Total'
            BY <2>1, <2>2, <2>3, StillFits
          <5> QED
            BY <5>1, <5>2
        <4> QED
          BY <4>1, <4>2
      <3> QED
        BY <2>2, <2>4, <3>1, <3>2 DEF e
    <2>7. CASE ~(CountLoad(t) \/ CountStore(t))
      <3>1. /\ counters' = counters /\ cnt' = cnt
            /\ cnt[t] # None => todo'[t] = todo[t]
        BY <1>0, <1>2, <2>7, StoreKeepsRegister
      <3>2. counters'[c] + e <= Total'
        <4>1. counters[c] + e <= Total'
          BY <2>1, <2>2, <2>3, StillFits
        <4> QED
          BY <3>1, <4>1
      <3>3. cnt'[t] # None /\ Head(todo'[t]) = c => cnt'[t] + e <= Total' + 1
        BY <2>1, <2>2, <2>3, <3>1, StillFits
      <3> QED
        BY <2>2, <2>4, <3>2, <3>3 DEF e
    <2> QED
      BY <2>5, <2>6, <2>7
  <1> QED
    BY <1>0, <1>1, <1>2 DEF Next, StatsNeverInv, NeverAhead

\* A thread that shares a limiter with any number of others may lose increments of
\* its counters, and those of the others, but bh_rate_limit_stats_json never reports
\* a request, a pacing, a response or a 429 more than there were requests let
\* through.
THEOREM StatsAreNeverInvented == Spec => []StatsNeverInvented
  <1>1. Init => StatsNeverInv
    <2> SUFFICES ASSUME Init PROVE StatsNeverInv
      OBVIOUS
    <2>1. ListInv
      BY TypeInit, Lists DEF Init, ListInv, Queued
    <2>2. \A c \in Counters : Tickets(c) = {}
      BY Names DEF Init, Tickets, Held
    <2>3. Total = 0
      BY DEF Init, Total
    <2>4. ASSUME NEW c \in Counters
          PROVE  /\ IsFiniteSet(Tickets(c))
                 /\ counters[c] + Cardinality(Tickets(c)) <= Total
      <3>1. IsFiniteSet(Tickets(c)) /\ Cardinality(Tickets(c)) = 0 /\ counters[c] = 0
        BY <2>2, FS_EmptySet DEF Init
      <3> QED
        BY <2>3, <3>1
    <2>5. \A t \in Threads : cnt[t] = None
      BY DEF Init
    <2> QED
      BY <2>1, <2>4, <2>5 DEF StatsNeverInv, NeverAhead
  <1>2. StatsNeverInv => StatsNeverInvented
    <2> SUFFICES ASSUME StatsNeverInv, NEW c \in Counters PROVE counters[c] <= Total
      BY DEF StatsNeverInvented, Total
    <2>1. counters[c] \in Nat /\ Total \in Nat
      BY DEF StatsNeverInv, ListInv, TypeInv, TypeOK, Total
    <2>2. Cardinality(Tickets(c)) \in Nat
      BY FS_CardinalityType DEF StatsNeverInv, NeverAhead
    <2> QED
      BY <2>1, <2>2 DEF StatsNeverInv, NeverAhead
  <1> QED
    BY <1>1, <1>2, StatsNeverStep, PTL DEF Spec
=============================================================================
