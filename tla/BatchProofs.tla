---------------------------- MODULE BatchProofs ----------------------------
(***************************************************************************)
(* Proofs about BatchPerform, for any number of threads and any batches.   *)
(***************************************************************************)
EXTENDS BatchPerform, FiniteSetTheorems, TLAPS

-----------------------------------------------------------------------------
(* Types *)

PCs == {"idle", "resolve", "global", "useGlobal", "host", "useHost", "multi", "record",
        "useRecord", "snapshot", "useSnapshot", "useStats", "list", "done", "failed"}

Locals ==
    [pc : PCs, batch : Seq(RequestType), i : Nat, start : Nat, ptr : Nat, results : Nat,
     performed : Nat, sent : Seq(Nat), tokens : Nat]

ThreadsOK == th \in [Threads -> Locals]

\* The loop that takes tokens, the one that records, and the places outside
\* bh_batch_perform.
Taking == {"global", "useGlobal", "host", "useHost"}
Recording == {"record", "useRecord", "snapshot", "useSnapshot"}
Outside == {"idle", "useStats", "list"}

\* Where a thread is inside its batch: how far it has sent, taken tokens and
\* written results, at each place of the loops.
Progress(t) ==
    LET x == th[t] IN
    /\ x.sent = [k \in 1..Len(x.sent) |-> k]
    /\ x.pc \in Outside => Batch(t) = <<>>
    /\ x.pc \in Outside \cup {"resolve"} =>
          x.start = 1 /\ x.i = 1 /\ Len(x.sent) = 0 /\ x.results = 0 /\ x.tokens = 0
    /\ x.pc \in Taking =>
          /\ Resolved(t) /\ Len(Batch(t)) > 0
          /\ 1 <= x.start /\ x.start <= x.i /\ x.i <= End(t)
          /\ Len(x.sent) = x.start - 1 /\ x.results = x.start - 1 /\ x.tokens = x.i - 1
    /\ x.pc = "multi" =>
          /\ Resolved(t) /\ Len(Batch(t)) > 0
          /\ 1 <= x.start /\ x.start <= End(t)
          /\ Len(x.sent) = x.start - 1 /\ x.results = x.start - 1 /\ x.tokens = End(t)
    /\ x.pc \in Recording =>
          /\ Resolved(t) /\ Len(Batch(t)) > 0
          /\ 1 <= x.start /\ x.start <= x.i /\ x.i <= End(t)
          /\ Len(x.sent) = End(t) /\ x.results = x.i - 1 /\ x.tokens = End(t)
    /\ x.pc = "done" =>
          /\ Resolved(t)
          /\ Len(x.sent) = Len(Batch(t)) /\ x.results = Len(x.sent) /\ x.tokens = Len(x.sent)
    /\ x.pc = "failed" =>
          /\ Resolved(t) \/ Len(x.sent) = 0
          /\ x.results = Len(x.sent) /\ Len(x.sent) <= x.tokens /\ x.tokens <= Len(Batch(t))

BatchInv == ThreadsOK /\ \A t \in Threads : Progress(t)

LEMMA Typed ==
    ASSUME ThreadsOK, NEW t \in Threads
    PROVE  /\ th[t] \in Locals /\ th[t].pc \in PCs
           /\ th[t].i \in Nat /\ th[t].start \in Nat /\ th[t].ptr \in Nat
           /\ th[t].results \in Nat /\ th[t].tokens \in Nat /\ th[t].performed \in Nat
           /\ th[t].sent \in Seq(Nat) /\ Len(th[t].sent) \in Nat
           /\ Batch(t) \in Seq(RequestType) /\ Len(Batch(t)) \in Nat
<1>1. th[t] \in Locals
  BY DEF ThreadsOK
<1> QED BY <1>1 DEF Locals, Batch

\* A thread whose locals stay is where it was.
LEMMA Stays ==
    ASSUME NEW u \in Threads, Progress(u), th'[u] = th[u]
    PROVE  Progress(u)'
  BY DEF Progress, Batch, Resolved, End, NextStart, MaxConcurrent

LEMMA BatchInit == Init => BatchInv
  BY DEF Init, BatchInv, ThreadsOK, Locals, PCs, Idle, Progress, Batch, Null, Taking, Recording, Outside

\* The arithmetic of sub-batches.
LEMMA EndFact ==
    ASSUME NEW t \in Threads, ThreadsOK, Len(Batch(t)) > 0
    PROVE  /\ MaxConcurrent(t) \in Nat /\ MaxConcurrent(t) >= 1
           /\ NextStart(t) \in Nat /\ NextStart(t) > th[t].start
           /\ End(t) \in Int /\ End(t) <= Len(Batch(t)) /\ End(t) < NextStart(t)
           /\ End(t) < Len(Batch(t)) => End(t) = NextStart(t) - 1
           /\ th[t].start <= Len(Batch(t)) => th[t].start <= End(t)
           /\ NextStart(t) <= Len(Batch(t)) => End(t) = NextStart(t) - 1
           /\ ~(NextStart(t) <= Len(Batch(t))) => End(t) = Len(Batch(t))
<1>1. th[t].start \in Nat /\ Batch(t) \in Seq(RequestType)
  BY Typed
<1>0. Batch(t)[1] \in RequestType
  BY <1>1
<1>2. Batch(t)[1].conc \in Int
  BY <1>0 DEF RequestType
<1>3. MaxConcurrent(t) \in Nat /\ MaxConcurrent(t) >= 1
  BY <1>2 DEF MaxConcurrent
<1>4. NextStart(t) \in Nat /\ NextStart(t) > th[t].start
  BY <1>1, <1>3 DEF NextStart
<1>5. Len(Batch(t)) \in Nat
  BY <1>1
<1> QED BY <1>1, <1>3, <1>4, <1>5 DEF End

\* What a step of thread t leaves to the others.
LEMMA Lift ==
    ASSUME BatchInv, NEW t \in Threads, NEW x \in Locals,
           th' = [th EXCEPT ![t] = x], Progress(t)'
    PROVE  BatchInv'
<1>1. ThreadsOK'
  BY DEF BatchInv, ThreadsOK
<1>2. \A u \in Threads : u # t => th'[u] = th[u]
  BY DEF BatchInv, ThreadsOK
<1> QED BY <1>1, <1>2, Stays DEF BatchInv

\* A step that moves only the program counter, and maybe the pointer, within
\* one of the three loops, or out of the first by an exception.
LEMMA Moves ==
    ASSUME BatchInv, NEW t \in Threads, NEW label \in PCs, NEW ptr \in Nat,
           th' = [th EXCEPT ![t] = [th[t] EXCEPT !.ptr = ptr, !.pc = label]],
           \/ label \in Taking /\ th[t].pc \in Taking
           \/ label \in Recording /\ th[t].pc \in Recording
           \/ label \in Outside /\ th[t].pc \in Outside
           \/ label = "failed" /\ th[t].pc \in Taking
    PROVE  BatchInv'
<1> DEFINE x == [th[t] EXCEPT !.ptr = ptr, !.pc = label]
<1>1. th[t] \in Locals /\ x \in Locals
  BY DEF BatchInv, ThreadsOK, Locals
<1>2. th'[t] = x
  BY DEF BatchInv, ThreadsOK
<1>3. /\ x.pc = label /\ x.batch = th[t].batch /\ x.i = th[t].i /\ x.start = th[t].start
      /\ x.results = th[t].results /\ x.sent = th[t].sent /\ x.tokens = th[t].tokens
  BY <1>1 DEF Locals
<1> HIDE DEF x
<1>4. (Resolved(t)' <=> Resolved(t)) /\ End(t)' = End(t) /\ Batch(t)' = Batch(t)
  BY <1>2, <1>3 DEF Resolved, End, NextStart, MaxConcurrent, Batch
<1>5. /\ Len(Batch(t)) \in Nat /\ th[t].i \in Nat /\ th[t].start \in Nat
      /\ Len(th[t].sent) \in Nat /\ th[t].tokens \in Nat
  BY Typed DEF BatchInv
<1>6. Progress(t)
  BY DEF BatchInv
<1>7. ASSUME label # "failed" PROVE Progress(t)'
  BY <1>2, <1>3, <1>4, <1>6, <1>7 DEF Progress, Taking, Recording, Outside
<1>8. ASSUME label = "failed" PROVE Progress(t)'
  <2>1. th[t].pc \in Taking
    BY <1>8 DEF Taking, Recording, Outside
  <2>2. End(t) \in Int /\ End(t) <= Len(Batch(t))
    BY <1>6, <2>1, EndFact DEF Progress, BatchInv
  <2>3. /\ Resolved(t) /\ th[t].results = Len(th[t].sent)
        /\ Len(th[t].sent) <= th[t].tokens /\ th[t].tokens <= Len(Batch(t))
    BY <1>5, <1>6, <2>1, <2>2 DEF Progress
  <2>4. th[t].sent = [k \in 1..Len(th[t].sent) |-> k]
    BY <1>6 DEF Progress
  <2> QED BY <1>2, <1>3, <1>4, <1>8, <2>3, <2>4 DEF Progress, Taking, Recording, Outside
<1>9. th' = [th EXCEPT ![t] = x]
  BY DEF x
<1> QED BY <1>1, <1>7, <1>8, <1>9, Lift

\* The token of one request has been taken.
LEMMA TokenStep ==
    ASSUME BatchInv, NEW t \in Threads, th[t].pc \in Taking, NextToken(t)
    PROVE  BatchInv'
<1> DEFINE x == [th[t] EXCEPT !.tokens = @ + 1,
                              !.i = IF More(t) THEN @ + 1 ELSE @,
                              !.pc = IF More(t) THEN "global" ELSE "multi"]
<1>1. th' = [th EXCEPT ![t] = x]
  BY DEF NextToken
<1>0. th[t] \in Locals
  BY Typed DEF BatchInv
<1>2. x \in Locals
  <2>1. th[t].tokens + 1 \in Nat /\ (IF More(t) THEN th[t].i + 1 ELSE th[t].i) \in Nat
    BY <1>0 DEF Locals
  <2>2. (IF More(t) THEN "global" ELSE "multi") \in PCs
    BY DEF PCs
  <2> QED BY <1>0, <2>1, <2>2 DEF Locals
<1>3. th'[t] = x
  BY <1>1 DEF BatchInv, ThreadsOK
<1>4. /\ x.pc = IF More(t) THEN "global" ELSE "multi"
      /\ x.i = IF More(t) THEN th[t].i + 1 ELSE th[t].i
      /\ x.tokens = th[t].tokens + 1
      /\ x.batch = th[t].batch /\ x.start = th[t].start
      /\ x.results = th[t].results /\ x.sent = th[t].sent
  BY Typed DEF BatchInv, Locals
<1> HIDE DEF x
<1>5. (Resolved(t)' <=> Resolved(t)) /\ End(t)' = End(t) /\ Batch(t)' = Batch(t)
  BY <1>3, <1>4 DEF Resolved, End, NextStart, MaxConcurrent, Batch
<1>6. /\ Resolved(t) /\ Len(Batch(t)) > 0
      /\ 1 <= th[t].start /\ th[t].start <= th[t].i /\ th[t].i <= End(t)
      /\ Len(th[t].sent) = th[t].start - 1 /\ th[t].results = th[t].start - 1
      /\ th[t].tokens = th[t].i - 1
      /\ th[t].sent = [k \in 1..Len(th[t].sent) |-> k]
  BY DEF BatchInv, Progress
<1>7. th[t].i \in Nat /\ th[t].start \in Nat /\ th[t].tokens \in Nat /\ End(t) \in Int
  BY <1>6, Typed, EndFact DEF BatchInv
<1>8. ASSUME More(t) PROVE Progress(t)'
  <2>1. x.pc = "global" /\ x.i = th[t].i + 1 /\ x.i <= End(t)
    BY <1>4, <1>7, <1>8 DEF More
  <2> QED BY <1>3, <1>4, <1>5, <1>6, <1>7, <2>1 DEF Progress, Taking, Recording, Outside
<1>9. ASSUME ~More(t) PROVE Progress(t)'
  <2>1. x.pc = "multi" /\ x.i = th[t].i /\ x.i = End(t)
    BY <1>4, <1>6, <1>7, <1>9 DEF More
  <2> QED BY <1>3, <1>4, <1>5, <1>6, <1>7, <2>1 DEF Progress, Taking, Recording, Outside
<1> QED BY <1>1, <1>2, <1>8, <1>9, Lift

\* Requests 1 to m have been sent, and m + 1 to n follow.
LEMMA SentOn ==
    ASSUME NEW m \in Nat, NEW n \in Nat, m <= n
    PROVE  /\ [k \in 1..m |-> k] \o [k \in 1..(n - m) |-> m + k] = [k \in 1..n |-> k]
           /\ [k \in 1..n |-> k] \in Seq(Nat)
           /\ Len([k \in 1..n |-> k]) = n
<1> DEFINE a == [k \in 1..m |-> k]
           b == [k \in 1..(n - m) |-> m + k]
           c == [k \in 1..n |-> k]
<1>1. a \in Seq(Nat) /\ Len(a) = m /\ b \in Seq(Nat) /\ Len(b) = n - m
  OBVIOUS
<1>2. c \in Seq(Nat) /\ Len(c) = n
  OBVIOUS
<1>3. a \o b \in Seq(Nat) /\ Len(a \o b) = n
  BY <1>1
<1>4. \A k \in 1..n : (a \o b)[k] = c[k]
  BY <1>1
<1> QED BY <1>2, <1>3, <1>4

\* What a sub-batch adds to what was sent.
LEMMA SentFirst ==
    ASSUME BatchInv, NEW t \in Threads, th[t].pc = "multi"
    PROVE  th[t].sent \o [k \in 1..(End(t) - th[t].start + 1) |-> th[t].start + k - 1]
             = [k \in 1..End(t) |-> k]
<1> DEFINE more == [k \in 1..(End(t) - th[t].start + 1) |-> th[t].start + k - 1]
<1>1. /\ Len(Batch(t)) > 0 /\ 1 <= th[t].start /\ th[t].start <= End(t)
      /\ Len(th[t].sent) = th[t].start - 1
      /\ th[t].sent = [k \in 1..Len(th[t].sent) |-> k]
  BY DEF BatchInv, Progress
<1>2. th[t].start \in Nat /\ End(t) \in Nat
  BY <1>1, Typed, EndFact DEF BatchInv
<1>3. th[t].sent \o more = [k \in 1..End(t) |-> k]
  <2>1. more = [k \in 1..(End(t) - (th[t].start - 1)) |-> (th[t].start - 1) + k]
    BY <1>2
  <2>2. th[t].start - 1 \in Nat /\ th[t].start - 1 <= End(t)
    BY <1>1, <1>2
  <2> DEFINE m == th[t].start - 1
  <2>3. th[t].sent = [k \in 1..m |-> k]
    BY <1>1
  <2> HIDE DEF m, more
  <2>4. [k \in 1..m |-> k] \o [k \in 1..(End(t) - m) |-> m + k] = [k \in 1..End(t) |-> k]
    BY <1>2, <2>2, SentOn DEF m
  <2>5. more = [k \in 1..(End(t) - m) |-> m + k]
    BY <2>1 DEF m
  <2> QED BY <2>3, <2>4, <2>5
<1> QED BY <1>3

LEMMA SendStep ==
    ASSUME BatchInv, NEW t \in Threads, MultiPerform(t)
    PROVE  BatchInv'
<1> DEFINE n == End(t) - th[t].start + 1
           more == [k \in 1..n |-> th[t].start + k - 1]
           x == [th[t] EXCEPT !.sent = @ \o more, !.i = th[t].start, !.pc = "record"]
<1>1. th' = [th EXCEPT ![t] = x] /\ th[t].pc = "multi"
  BY DEF MultiPerform, At
<1>2. /\ Resolved(t) /\ Len(Batch(t)) > 0
      /\ 1 <= th[t].start /\ th[t].start <= End(t)
      /\ Len(th[t].sent) = th[t].start - 1 /\ th[t].results = th[t].start - 1
      /\ th[t].tokens = End(t)
      /\ th[t].sent = [k \in 1..Len(th[t].sent) |-> k]
  BY <1>1 DEF BatchInv, Progress
<1>3. th[t].start \in Nat /\ End(t) \in Nat
  BY <1>2, Typed, EndFact DEF BatchInv
<1>4. th[t].sent \o more = [k \in 1..End(t) |-> k]
  BY <1>1, SentFirst DEF BatchInv
<1>5. [k \in 1..End(t) |-> k] \in Seq(Nat) /\ Len([k \in 1..End(t) |-> k]) = End(t)
  BY <1>3, SentOn
<1>6. x \in Locals
  <2>1. th[t] \in Locals
    BY Typed DEF BatchInv
  <2>2. th[t].start \in Nat /\ th[t].sent \o more \in Seq(Nat)
    BY <1>3, <1>4, <1>5
  <2> HIDE DEF more
  <2> QED BY <2>1, <2>2, ZenonT(30) DEF Locals, PCs
<1>7. /\ x.pc = "record" /\ x.i = th[t].start /\ x.sent = [k \in 1..End(t) |-> k]
      /\ x.tokens = th[t].tokens /\ x.batch = th[t].batch /\ x.start = th[t].start
      /\ x.results = th[t].results
  BY <1>4, Typed DEF BatchInv, Locals
<1> HIDE DEF x
<1>8. th'[t] = x
  BY <1>1 DEF BatchInv, ThreadsOK
<1>9. (Resolved(t)' <=> Resolved(t)) /\ End(t)' = End(t) /\ Batch(t)' = Batch(t)
  BY <1>7, <1>8 DEF Resolved, End, NextStart, MaxConcurrent, Batch
<1>10. Len(x.sent) = End(t) /\ x.sent = [k \in 1..Len(x.sent) |-> k]
  BY <1>5, <1>7
<1>11. Progress(t)'
  BY <1>2, <1>3, <1>10, <1>7, <1>8, <1>9 DEF Progress, Taking, Recording, Outside
<1> QED BY <1>1, <1>6, <1>11, Lift

\* The response of one request has been recorded.
LEMMA ResultStep ==
    ASSUME BatchInv, NEW t \in Threads, WriteResult(t)
    PROVE  BatchInv'
<1> DEFINE j == IF More(t) THEN th[t].i + 1 ELSE NextStart(t)
           first == IF More(t) THEN th[t].start ELSE NextStart(t)
           label == IF More(t) THEN "record"
                    ELSE IF NextStart(t) <= Len(Batch(t)) THEN "global" ELSE "done"
           x == [th[t] EXCEPT !.results = @ + 1, !.i = j, !.start = first, !.pc = label]
<1>1. th' = [th EXCEPT ![t] = x] /\ th[t].pc \in Recording
  BY DEF WriteResult, At, Recording
<1>2. /\ Resolved(t) /\ Len(Batch(t)) > 0
      /\ 1 <= th[t].start /\ th[t].start <= th[t].i /\ th[t].i <= End(t)
      /\ Len(th[t].sent) = End(t) /\ th[t].results = th[t].i - 1 /\ th[t].tokens = End(t)
      /\ th[t].sent = [k \in 1..Len(th[t].sent) |-> k]
  BY <1>1 DEF BatchInv, Progress
<1>3. /\ th[t] \in Locals /\ th[t].i \in Nat /\ th[t].start \in Nat /\ th[t].results \in Nat
      /\ Len(Batch(t)) \in Nat
  BY Typed DEF BatchInv
<1>4. /\ NextStart(t) \in Nat /\ NextStart(t) > th[t].start /\ End(t) \in Int
      /\ NextStart(t) <= Len(Batch(t)) => End(t) = NextStart(t) - 1
      /\ ~(NextStart(t) <= Len(Batch(t))) => End(t) = Len(Batch(t))
  BY <1>2, EndFact DEF BatchInv
<1>5. j \in Nat /\ first \in Nat /\ label \in PCs /\ th[t].results + 1 \in Nat
  BY <1>3, <1>4 DEF PCs
<1> HIDE DEF j, first, label
<1>6. x \in Locals
  BY <1>3, <1>5 DEF Locals
<1>7. /\ x.pc = label /\ x.i = j /\ x.start = first /\ x.results = th[t].results + 1
      /\ x.batch = th[t].batch /\ x.sent = th[t].sent /\ x.tokens = th[t].tokens
  BY <1>3 DEF Locals
<1> HIDE DEF x
<1>8. th'[t] = x
  BY <1>1 DEF BatchInv, ThreadsOK
<1>9. (Resolved(t)' <=> Resolved(t)) /\ Batch(t)' = Batch(t) /\ MaxConcurrent(t)' = MaxConcurrent(t)
  BY <1>7, <1>8 DEF Resolved, MaxConcurrent, Batch
<1>10. ASSUME More(t) PROVE Progress(t)'
  <2>1. label = "record" /\ j = th[t].i + 1 /\ first = th[t].start /\ j <= End(t)
    BY <1>3, <1>4, <1>10 DEF More, j, first, label
  <2>2. End(t)' = End(t)
    BY <1>7, <1>8, <1>9, <2>1 DEF End, NextStart
  <2>3. /\ x.pc = "record" /\ x.start = th[t].start /\ x.i = th[t].i + 1 /\ x.i <= End(t)
        /\ x.results = x.i - 1 /\ 1 <= x.start /\ x.start <= x.i
    BY <1>2, <1>3, <1>7, <2>1
  <2> QED BY <1>2, <1>7, <1>8, <1>9, <2>2, <2>3 DEF Progress, Taking, Recording, Outside
<1>11. ASSUME ~More(t), NextStart(t) <= Len(Batch(t)) PROVE Progress(t)'
  <2>1. label = "global" /\ j = NextStart(t) /\ first = NextStart(t) /\ th[t].i = End(t)
    BY <1>2, <1>3, <1>4, <1>11 DEF More, j, first, label
  <2>2. ThreadsOK'
    BY <1>1, <1>6 DEF BatchInv, ThreadsOK
  <2>3. (MaxConcurrent(t))' \in Nat /\ (MaxConcurrent(t))' >= 1
    BY <1>2, <1>9, EndFact DEF BatchInv
  <2>4. End(t)' \in Int /\ first <= End(t)'
    BY <1>3, <1>4, <1>7, <1>8, <1>9, <1>11, <2>1, <2>3, SMTT(30) DEF End, NextStart
  <2> QED BY <1>2, <1>3, <1>4, <1>7, <1>8, <1>9, <1>11, <2>1, <2>4
          DEF Progress, Taking, Recording, Outside
<1>12. ASSUME ~More(t), ~(NextStart(t) <= Len(Batch(t))) PROVE Progress(t)'
  <2>1. label = "done" /\ th[t].i = Len(Batch(t)) /\ End(t) = Len(Batch(t))
    BY <1>2, <1>3, <1>4, <1>12 DEF More, label
  <2> QED BY <1>2, <1>3, <1>7, <1>8, <1>9, <2>1 DEF Progress, Taking, Recording, Outside
<1> QED BY <1>1, <1>6, <1>10, <1>11, <1>12, Lift

LEMMA IdleLocals ==
    ASSUME NEW n \in Nat
    PROVE  Idle(n) \in Locals
<1>1. "idle" \in PCs /\ <<>> \in Seq(RequestType) /\ <<>> \in Seq(Nat)
  BY DEF PCs
<1> QED BY <1>1 DEF Idle, Locals, Null

\* A thread enters the library, with a batch or for the statistics, or leaves it.
LEMMA FreshStep ==
    ASSUME BatchInv, NEW t \in Threads, NEW x \in Locals, th' = [th EXCEPT ![t] = x],
           x.i = 1, x.start = 1, x.results = 0, x.sent = <<>>, x.tokens = 0,
           x.pc = "resolve" \/ (x.pc \in Outside /\ x.batch = <<>>)
    PROVE  BatchInv'
<1>1. th'[t] = x
  BY DEF BatchInv, ThreadsOK
<1>2. x.sent = [k \in 1..Len(x.sent) |-> k] /\ Len(x.sent) = 0
  OBVIOUS
<1>3. Progress(t)'
  BY <1>1, <1>2 DEF Progress, Batch, Outside, Taking, Recording
<1> QED BY <1>3, Lift

\* Every request is resolved before the first is looked at.
LEMMA ResolveStep ==
    ASSUME BatchInv, NEW t \in Threads, Resolve(t)
    PROVE  BatchInv'
<1> DEFINE label == IF ~Resolved(t) THEN "failed"
                    ELSE IF Batch(t) = <<>> THEN "done" ELSE "global"
           x == [th[t] EXCEPT !.pc = label]
<1>1. th' = [th EXCEPT ![t] = x] /\ th[t].pc = "resolve"
  BY DEF Resolve, Throw, Goto, At
<1>2. th[t] \in Locals /\ label \in PCs
  BY Typed DEF BatchInv, PCs
<1> HIDE DEF label
<1>3. x \in Locals
  BY <1>2 DEF Locals
<1>4. /\ x.pc = label /\ x.batch = th[t].batch /\ x.i = th[t].i /\ x.start = th[t].start
      /\ x.results = th[t].results /\ x.sent = th[t].sent /\ x.tokens = th[t].tokens
  BY <1>2 DEF Locals
<1> HIDE DEF x
<1>5. th'[t] = x
  BY <1>1 DEF BatchInv, ThreadsOK
<1>6. (Resolved(t)' <=> Resolved(t)) /\ End(t)' = End(t) /\ Batch(t)' = Batch(t)
  BY <1>4, <1>5 DEF Resolved, End, NextStart, MaxConcurrent, Batch
<1>7. /\ th[t].start = 1 /\ th[t].i = 1 /\ Len(th[t].sent) = 0 /\ th[t].results = 0
      /\ th[t].tokens = 0 /\ th[t].sent = [k \in 1..Len(th[t].sent) |-> k]
  BY <1>1 DEF BatchInv, Progress
<1>8. Batch(t) \in Seq(RequestType) /\ Len(Batch(t)) \in Nat
  BY Typed DEF BatchInv
<1>9. ASSUME label = "failed" PROVE Progress(t)'
  BY <1>4, <1>5, <1>6, <1>7, <1>8, <1>9 DEF Progress, Taking, Recording, Outside
<1>10. ASSUME label = "done" PROVE Progress(t)'
  <2>1. Resolved(t) /\ Len(Batch(t)) = 0
    BY <1>8, <1>10 DEF label
  <2> QED BY <1>4, <1>5, <1>6, <1>7, <1>10, <2>1 DEF Progress, Taking, Recording, Outside
<1>11. ASSUME label = "global" PROVE Progress(t)'
  <2>1. Resolved(t) /\ Len(Batch(t)) > 0
    BY <1>8, <1>11 DEF label
  <2>2. 1 <= End(t)
    BY <1>7, <1>8, <2>1, EndFact DEF BatchInv
  <2> QED BY <1>4, <1>5, <1>6, <1>7, <1>11, <2>1, <2>2 DEF Progress, Taking, Recording, Outside
<1> QED BY <1>1, <1>3, <1>9, <1>10, <1>11, Lift DEF label

-----------------------------------------------------------------------------
(* The registry *)

\* The rate specs, the ones the code itself writes among them.
Specs == STRING \cup {Default, ""}

LimiterNode == [key : Hosts, id : Nat, spec : Specs]

\* A host has one limiter, and a limiter one identity, never used again.
LimitersOK ==
    /\ registry \in Seq(LimiterNode)
    /\ global \in [id : Nat, spec : Specs]
    /\ made \in Nat
    /\ Len(registry) <= MaxHosts
    /\ \A p, q \in 1..Len(registry) : registry[p].key = registry[q].key => p = q
    /\ \A p, q \in 1..Len(registry) : registry[p].id = registry[q].id => p = q
    /\ \A p \in 1..Len(registry) : 1 <= registry[p].id /\ registry[p].id <= made

LEMMA NodeFact ==
    ASSUME NEW s \in Seq(LimiterNode)
    PROVE  /\ Len(s) \in Nat
           /\ \A i \in 1..Len(s) : s[i].key \in Hosts /\ s[i].id \in Nat /\ s[i].spec \in Specs
<1>1. \A x \in LimiterNode : x.key \in Hosts /\ x.id \in Nat /\ x.spec \in Specs
  BY DEF LimiterNode
<1>2. Len(s) \in Nat /\ \A i \in 1..Len(s) : s[i] \in LimiterNode
  OBVIOUS
<1> QED BY <1>1, <1>2

LEMMA PushFact ==
    ASSUME NEW S, NEW s \in Seq(S), NEW x \in S
    PROVE  /\ <<x>> \o s \in Seq(S) /\ Len(<<x>> \o s) = Len(s) + 1
           /\ (<<x>> \o s)[1] = x
           /\ \A i \in 2..(Len(s) + 1) : (<<x>> \o s)[i] = s[i - 1]
  OBVIOUS

\* A lookup that finds the host moves its limiter to the front and keeps the rest.
LEMMA Found ==
    ASSUME LimitersOK, NEW host \in Hosts, HasKey(registry, host), UNCHANGED <<global, made>>,
           registry' = MoveToFront(registry, PositionOf(registry, host))
    PROVE  /\ LimitersOK'
           /\ Len(registry') = Len(registry) /\ Len(registry) > 0
           /\ registry'[1].key = host
           /\ \A q \in 1..Len(registry') : \E p \in 1..Len(registry) : registry'[q] = registry[p]
           /\ \A p \in 1..Len(registry) : \E q \in 1..Len(registry') : registry'[q] = registry[p]
<1> DEFINE n == Len(registry)
           at == PositionOf(registry, host)
           src == [i \in 1..n |-> IF i = 1 THEN at ELSE IF i <= at THEN i - 1 ELSE i]
<1>1. registry \in Seq(LimiterNode) /\ n \in Nat
  BY DEF LimitersOK
<1>2. at \in 1..n /\ registry[at].key = host
  BY DEF HasKey, PositionOf
<1> HIDE DEF at
<1>3. /\ registry' = [i \in 1..n |-> IF i = 1 THEN registry[at]
                                    ELSE IF i <= at THEN registry[i - 1] ELSE registry[i]]
  BY DEF MoveToFront, at
<1>4. registry' \in Seq(LimiterNode) /\ Len(registry') = n
  BY <1>1, <1>2, <1>3
<1>5. \A i \in 1..n : registry'[i] = registry[src[i]] /\ src[i] \in 1..n
  BY <1>1, <1>2, <1>3
<1>6. \A i, j \in 1..n : src[i] = src[j] => i = j
  BY <1>1, <1>2
<1>7. \A j \in 1..n : \E i \in 1..n : src[i] = j
  <2> SUFFICES ASSUME NEW j \in 1..n PROVE \E i \in 1..n : src[i] = j
    OBVIOUS
  <2>1. CASE j = at
    <3>1. 1 \in 1..n /\ src[1] = j
      BY <1>1, <1>2, <2>1
    <3> QED BY <3>1
  <2>2. CASE j < at
    <3>1. j + 1 \in 1..n /\ src[j + 1] = j
      BY <1>1, <1>2, <2>2
    <3> HIDE DEF src
    <3> QED BY <3>1
  <2>3. CASE j > at
    <3>1. src[j] = j
      BY <1>1, <1>2, <2>3
    <3> HIDE DEF src
    <3> QED BY <3>1
  <2> QED BY <1>1, <1>2, <2>1, <2>2, <2>3
<1>8. registry'[1].key = host /\ n > 0
  BY <1>1, <1>2, <1>3
<1> HIDE DEF src
<1>9. LimitersOK'
  <2>1. /\ \A p, q \in 1..n : registry[p].key = registry[q].key => p = q
        /\ \A p, q \in 1..n : registry[p].id = registry[q].id => p = q
        /\ \A p \in 1..n : 1 <= registry[p].id /\ registry[p].id <= made
        /\ global \in [id : Nat, spec : Specs] /\ made \in Nat /\ n <= MaxHosts
    BY DEF LimitersOK
  <2> HIDE DEF n
  <2>2. \A p, q \in 1..n : registry'[p].key = registry'[q].key => p = q
    BY <1>5, <1>6, <2>1
  <2>3. \A p, q \in 1..n : registry'[p].id = registry'[q].id => p = q
    BY <1>5, <1>6, <2>1
  <2>4. \A p \in 1..n : 1 <= registry'[p].id /\ registry'[p].id <= made
    BY <1>5, <2>1
  <2> QED BY <1>4, <2>1, <2>2, <2>3, <2>4 DEF LimitersOK
<1>10. \A q \in 1..n : \E p \in 1..n : registry'[q] = registry[p]
  BY <1>5
<1>11. ASSUME NEW p \in 1..n PROVE \E q \in 1..n : registry'[q] = registry[p]
  <2>1. PICK q \in 1..n : src[q] = p
    BY <1>7
  <2> QED BY <1>5, <2>1
<1> HIDE DEF n
<1>12. Len(registry) = n
  BY DEF n
<1>13. Len(registry') = n
  BY <1>4
<1>14. \A q \in 1..Len(registry') : \E p \in 1..Len(registry) : registry'[q] = registry[p]
  BY <1>10, <1>12, <1>13
<1>15. \A p \in 1..Len(registry) : \E q \in 1..Len(registry') : registry'[q] = registry[p]
  BY <1>11, <1>12, <1>13
<1>16. Len(registry') = Len(registry) /\ Len(registry) > 0 /\ registry'[1].key = host
  BY <1>8, <1>12, <1>13
<1> QED BY <1>9, <1>14, <1>15, <1>16

\* A lookup that does not find the host builds its limiter, and drops the last
\* one only when the registry is full.
LEMMA Built ==
    ASSUME LimitersOK, NEW host \in Hosts, NEW spec \in Specs, ~HasKey(registry, host),
           registry' = PushFront(IF Len(registry) >= MaxHosts THEN DropLast(registry) ELSE registry,
                                 [key |-> host, id |-> made + 1, spec |-> spec]),
           made' = made + 1, global' = global
    PROVE  /\ LimitersOK' /\ Len(registry') > 0
           /\ registry'[1] = [key |-> host, id |-> made + 1, spec |-> spec]
           /\ \A q \in 2..Len(registry') : \E p \in 1..Len(registry) : registry'[q] = registry[p]
           /\ Len(registry) < MaxHosts =>
                \A p \in 1..Len(registry) : \E q \in 1..Len(registry') : registry'[q] = registry[p]
<1> DEFINE new == [key |-> host, id |-> made + 1, spec |-> spec]
           room == IF Len(registry) >= MaxHosts THEN DropLast(registry) ELSE registry
           n == Len(room)
<1>1. /\ registry \in Seq(LimiterNode) /\ Len(registry) \in Nat /\ Len(registry) <= MaxHosts
      /\ MaxHosts \in Nat /\ MaxHosts > 0 /\ made \in Nat
      /\ \A p, q \in 1..Len(registry) : registry[p].key = registry[q].key => p = q
      /\ \A p, q \in 1..Len(registry) : registry[p].id = registry[q].id => p = q
      /\ \A p \in 1..Len(registry) : 1 <= registry[p].id /\ registry[p].id <= made
      /\ global \in [id : Nat, spec : Specs]
  BY BatchAssumption DEF LimitersOK
<1>2. /\ room \in Seq(LimiterNode) /\ n \in Nat /\ n < MaxHosts /\ n <= Len(registry)
      /\ \A i \in 1..n : room[i] = registry[i]
      /\ Len(registry) < MaxHosts => n = Len(registry)
  <2>1. CASE Len(registry) >= MaxHosts
    BY <1>1, <2>1 DEF DropLast
  <2>2. CASE ~(Len(registry) >= MaxHosts)
    BY <1>1, <2>2
  <2> QED BY <2>1, <2>2
<1>3. new \in LimiterNode
  BY <1>1 DEF LimiterNode
<1> HIDE DEF room, new
<1>4. registry' = <<new>> \o room
  BY DEF PushFront, room, new
<1>5. /\ registry' \in Seq(LimiterNode) /\ Len(registry') = n + 1 /\ registry'[1] = new
      /\ \A i \in 2..(n + 1) : registry'[i] = room[i - 1]
  <2>1. room \in Seq(LimiterNode)
    BY <1>2
  <2>2. /\ <<new>> \o room \in Seq(LimiterNode) /\ Len(<<new>> \o room) = Len(room) + 1
        /\ (<<new>> \o room)[1] = new
        /\ \A i \in 2..(Len(room) + 1) : (<<new>> \o room)[i] = room[i - 1]
    BY <1>3, <2>1, PushFact
  <2> QED BY <1>4, <2>2
<1>6. \A i \in 2..(n + 1) : i - 1 \in 1..Len(registry) /\ registry'[i] = registry[i - 1]
  BY <1>1, <1>2, <1>5
<1>7. new.key = host /\ new.id = made + 1 /\ \A p \in 1..Len(registry) : registry[p].key # host
  BY DEF HasKey, new
<1> HIDE DEF n
<1>8. LimitersOK'
  <2>1. \A p, q \in 1..(n + 1) : registry'[p].key = registry'[q].key => p = q
    <3> SUFFICES ASSUME NEW p \in 1..(n + 1), NEW q \in 1..(n + 1),
                        registry'[p].key = registry'[q].key
                 PROVE  p = q
      OBVIOUS
    <3>1. (p = 1 \/ p \in 2..(n + 1)) /\ (q = 1 \/ q \in 2..(n + 1))
      BY <1>2
    <3>4. \A i \in 2..(n + 1) : registry'[i].key # host
      BY <1>6, <1>7
    <3>2. (p = 1 /\ q = 1) \/ (p \in 2..(n + 1) /\ q \in 2..(n + 1))
      BY <1>5, <1>7, <3>1, <3>4
    <3>3. CASE p \in 2..(n + 1) /\ q \in 2..(n + 1)
      <4>1. registry[p - 1].key = registry[q - 1].key
        BY <1>6, <3>3
      <4>2. p - 1 = q - 1
        BY <1>1, <1>6, <3>3, <4>1
      <4> QED BY <1>2, <4>2
    <3> QED BY <3>2, <3>3
  <2>2. \A p, q \in 1..(n + 1) : registry'[p].id = registry'[q].id => p = q
    <3> SUFFICES ASSUME NEW p \in 1..(n + 1), NEW q \in 1..(n + 1),
                        registry'[p].id = registry'[q].id
                 PROVE  p = q
      OBVIOUS
    <3>1. (p = 1 \/ p \in 2..(n + 1)) /\ (q = 1 \/ q \in 2..(n + 1))
      BY <1>2
    <3>4. \A i \in 2..(n + 1) : registry'[i].id <= made /\ registry'[i].id \in Nat
      <4>1. \A j \in 1..Len(registry) : registry[j].id \in Nat
        BY <1>1, NodeFact
      <4> QED BY <1>1, <1>6, <4>1
    <3>2. (p = 1 /\ q = 1) \/ (p \in 2..(n + 1) /\ q \in 2..(n + 1))
      BY <1>1, <1>5, <1>7, <3>1, <3>4
    <3>3. CASE p \in 2..(n + 1) /\ q \in 2..(n + 1)
      <4>1. registry[p - 1].id = registry[q - 1].id
        BY <1>6, <3>3
      <4>2. p - 1 = q - 1
        BY <1>1, <1>6, <3>3, <4>1
      <4> QED BY <1>2, <4>2
    <3> QED BY <3>2, <3>3
  <2>3. \A p \in 1..(n + 1) : 1 <= registry'[p].id /\ registry'[p].id <= made + 1
    <3> SUFFICES ASSUME NEW p \in 1..(n + 1)
                 PROVE  1 <= registry'[p].id /\ registry'[p].id <= made + 1
      OBVIOUS
    <3>1. CASE p = 1
      BY <1>1, <1>5, <1>7, <3>1
    <3>2. CASE p \in 2..(n + 1)
      <4>1. \A j \in 1..Len(registry) : registry[j].id \in Nat
        BY <1>1, NodeFact
      <4> QED BY <1>1, <1>6, <3>2, <4>1
    <3> QED BY <1>2, <3>1, <3>2
  <2>4. n + 1 <= MaxHosts
    BY <1>1, <1>2 DEF n
  <2> QED BY <1>1, <1>5, <2>1, <2>2, <2>3, <2>4 DEF LimitersOK
<1>9. Len(registry) < MaxHosts =>
        \A p \in 1..Len(registry) : p + 1 \in 2..(n + 1) /\ registry'[p + 1] = registry[p]
  BY <1>1, <1>2, <1>6 DEF n
<1>10. \A q \in 2..Len(registry') : \E p \in 1..Len(registry) : registry'[q] = registry[p]
  BY <1>5, <1>6
<1>11. ASSUME Len(registry) < MaxHosts, NEW p \in 1..Len(registry)
       PROVE  \E q \in 1..Len(registry') : registry'[q] = registry[p]
  <2>1. p + 1 \in 1..Len(registry') /\ registry'[p + 1] = registry[p]
    BY <1>2, <1>5, <1>9, <1>11 DEF n
  <2> QED BY <2>1
<1>12. Len(registry') > 0
  BY <1>2, <1>5 DEF n
<1>13. registry'[1] = new
  BY <1>5
<1> QED BY <1>8, <1>10, <1>11, <1>12, <1>13 DEF new

\* What a lookup does to the registry, found or built.
LEMMA Lookup ==
    ASSUME LimitersOK, NEW t \in Threads, NEW host \in Hosts, NEW spec \in Specs, NEW label,
           GetOrCreate(t, host, spec, label)
    PROVE  /\ LimitersOK' /\ Len(registry') > 0 /\ registry'[1].key = host
           /\ registry'[1].id \in Nat /\ global' = global
           /\ th' = [th EXCEPT ![t] = [th[t] EXCEPT !.ptr = registry'[1].id, !.pc = label]]
           /\ \A q \in 2..Len(registry') : \E p \in 1..Len(registry) : registry'[q] = registry[p]
           /\ registry'[1].spec = spec \/ \E p \in 1..Len(registry) : registry'[1] = registry[p]
           /\ HasKey(registry, host) \/ Len(registry) < MaxHosts =>
                \A p \in 1..Len(registry) : \E q \in 1..Len(registry') : registry'[q] = registry[p]
<1>1. th' = [th EXCEPT ![t] = [th[t] EXCEPT !.ptr = registry'[1].id, !.pc = label]]
  BY DEF GetOrCreate
<1>2. global' = global
  BY DEF GetOrCreate
<1>3. CASE HasKey(registry, host)
  <2>1. /\ LimitersOK' /\ Len(registry') = Len(registry) /\ Len(registry) > 0
        /\ registry'[1].key = host
        /\ \A q \in 1..Len(registry') : \E p \in 1..Len(registry) : registry'[q] = registry[p]
        /\ \A p \in 1..Len(registry) : \E q \in 1..Len(registry') : registry'[q] = registry[p]
    BY <1>3, Found DEF GetOrCreate
  <2>2. Len(registry') \in Nat /\ registry' \in Seq(LimiterNode)
    BY <2>1 DEF LimitersOK
  <2>3. 1 \in 1..Len(registry')
    BY <2>1, <2>2
  <2>4. \A q \in 1..Len(registry') : registry'[q].id \in Nat
    BY <2>2, NodeFact
  <2>5. 2..Len(registry') \subseteq 1..Len(registry')
    BY <2>2
  <2> QED BY <1>1, <1>2, <2>1, <2>3, <2>4, <2>5
<1>4. CASE ~HasKey(registry, host)
  <2>1. /\ LimitersOK' /\ Len(registry') > 0
        /\ registry'[1] = [key |-> host, id |-> made + 1, spec |-> spec]
        /\ \A q \in 2..Len(registry') : \E p \in 1..Len(registry) : registry'[q] = registry[p]
        /\ Len(registry) < MaxHosts =>
             \A p \in 1..Len(registry) : \E q \in 1..Len(registry') : registry'[q] = registry[p]
    BY <1>4, Built DEF GetOrCreate
  <2>2. made + 1 \in Nat
    BY DEF LimitersOK
  <2> QED BY <1>1, <1>2, <1>4, <2>1, <2>2
<1> QED BY <1>3, <1>4

LEMMA RequestFact ==
    ASSUME BatchInv, NEW t \in Threads, th[t].pc \in Taking \cup Recording
    PROVE  /\ Request(t) \in RequestType /\ Request(t).host \in Hosts
           /\ Request(t).spec \in Specs /\ Request(t).gspec \in Specs
           /\ th[t].i \in 1..Len(Batch(t))
<1>1. Len(Batch(t)) > 0 /\ 1 <= th[t].start /\ th[t].start <= th[t].i /\ th[t].i <= End(t)
  BY DEF BatchInv, Progress
<1>2. /\ th[t].i \in Nat /\ th[t].start \in Nat /\ Batch(t) \in Seq(RequestType)
      /\ End(t) \in Int /\ End(t) <= Len(Batch(t)) /\ Len(Batch(t)) \in Nat
  BY <1>1, Typed, EndFact DEF BatchInv
<1>3. th[t].i \in 1..Len(Batch(t))
  BY <1>1, <1>2
<1>4. Request(t) \in RequestType
  BY <1>2, <1>3 DEF Request
<1> QED BY <1>3, <1>4 DEF RequestType, Specs

\* A step that only moves a thread.
LEMMA GotoMoves ==
    ASSUME BatchInv, NEW t \in Threads, NEW label \in PCs, Goto(t, label),
           \/ label \in Taking /\ th[t].pc \in Taking
           \/ label \in Recording /\ th[t].pc \in Recording
           \/ label \in Outside /\ th[t].pc \in Outside
           \/ label = "failed" /\ th[t].pc \in Taking
    PROVE  BatchInv'
<1>1. th[t] \in Locals /\ th[t].ptr \in Nat
  BY Typed DEF BatchInv
<1>2. [th[t] EXCEPT !.pc = label] = [th[t] EXCEPT !.ptr = th[t].ptr, !.pc = label]
  BY <1>1 DEF Locals
<1>3. th' = [th EXCEPT ![t] = [th[t] EXCEPT !.ptr = th[t].ptr, !.pc = label]]
  BY <1>2 DEF Goto
<1> QED BY <1>1, <1>3, Moves

LEMMA LookupMoves ==
    ASSUME BatchInv, LimitersOK, NEW t \in Threads, NEW host \in Hosts, NEW spec \in Specs,
           NEW label \in PCs, GetOrCreate(t, host, spec, label),
           \/ label \in Taking /\ th[t].pc \in Taking
           \/ label \in Recording /\ th[t].pc \in Recording
    PROVE  BatchInv' /\ LimitersOK'
<1>1. /\ LimitersOK' /\ registry'[1].id \in Nat
      /\ th' = [th EXCEPT ![t] = [th[t] EXCEPT !.ptr = registry'[1].id, !.pc = label]]
  BY Lookup
<1> QED BY <1>1, Moves

LEMMA BatchNext ==
    ASSUME BatchInv, LimitersOK, [Next]_vars
    PROVE  BatchInv' /\ LimitersOK'
<1>0. LimitersOK /\ UNCHANGED shared => LimitersOK'
  BY DEF LimitersOK, shared
<1>1. CASE UNCHANGED vars
  <2>1. th' = th
    BY <1>1 DEF vars
  <2>2. \A u \in Threads : Progress(u)'
    BY <2>1, Stays DEF BatchInv
  <2>3. ThreadsOK'
    BY <2>1 DEF BatchInv, ThreadsOK
  <2> QED BY <1>0, <1>1, <2>2, <2>3 DEF BatchInv, vars
<1>2. ASSUME NEW t \in Threads, Begin(t) \/ Perform(t) \/ Free(t) \/ Stats(t)
      PROVE  BatchInv' /\ LimitersOK'
  <2>0. th[t].performed \in Nat /\ th[t].performed + 1 \in Nat /\ global.id \in Nat
    BY Typed DEF BatchInv, LimitersOK
  <2>1. CASE Begin(t)
    <3>1. PICK b \in Batches :
            th' = [th EXCEPT ![t] = [Idle(@.performed + 1) EXCEPT !.batch = b, !.pc = "resolve"]]
      BY <2>1 DEF Begin
    <3> DEFINE x == [Idle(th[t].performed + 1) EXCEPT !.batch = b, !.pc = "resolve"]
    <3>2. b \in Seq(RequestType) /\ "resolve" \in PCs
      BY BatchAssumption DEF PCs
    <3>3. \A y \in Locals : [y EXCEPT !.batch = b, !.pc = "resolve"] \in Locals
      BY <3>2 DEF Locals
    <3>4. x \in Locals
      BY <2>0, <3>3, IdleLocals
    <3>5. /\ x.i = 1 /\ x.start = 1 /\ x.results = 0 /\ x.sent = <<>> /\ x.tokens = 0
          /\ x.pc = "resolve"
      BY DEF Idle
    <3>6. th' = [th EXCEPT ![t] = x]
      BY <3>1
    <3> HIDE DEF x
    <3>7. BatchInv'
      BY <3>4, <3>5, <3>6, FreshStep
    <3> QED BY <1>0, <2>1, <3>7 DEF Begin
  <2>2. CASE Resolve(t)
    BY <1>0, <2>2, ResolveStep DEF Resolve, Throw, Goto
  <2>3. CASE GlobalLimiter(t)
    <3>1. th[t].pc \in Taking /\ "useGlobal" \in PCs /\ "useGlobal" \in Taking
      BY <2>3 DEF GlobalLimiter, At, Taking, PCs
    <3>2. Request(t).gspec \in Specs
      BY <3>1, RequestFact
    <3>3. LimitersOK' /\ global'.id \in Nat
      <4>0. global \in [id : Nat, spec : Specs] /\ made \in Nat /\ made + 1 \in Nat
        BY DEF LimitersOK
      <4>5. [id |-> made + 1, spec |-> Request(t).gspec] \in [id : Nat, spec : Specs]
        BY <3>2, <4>0
      <4>6. /\ global' = global \/ global' = [id |-> made + 1, spec |-> Request(t).gspec]
            /\ made' = made \/ made' = made + 1
        BY <2>3 DEF GlobalLimiter
      <4>1. global' \in [id : Nat, spec : Specs] /\ made' \in Nat /\ made' >= made
        BY <4>0, <4>5, <4>6
      <4>2. registry' = registry /\ registry \in Seq(LimiterNode) /\ made \in Nat
        BY <2>3 DEF GlobalLimiter, LimitersOK
      <4>3. \A p \in 1..Len(registry) : registry[p].id \in Nat
        BY <4>2, NodeFact
      <4> QED BY <4>1, <4>2, <4>3 DEF LimitersOK
    <3>4. th' = [th EXCEPT ![t] = [th[t] EXCEPT !.ptr = global'.id, !.pc = "useGlobal"]]
      BY <2>3 DEF GlobalLimiter
    <3> QED BY <3>1, <3>3, <3>4, Moves
  <2>4. CASE NoGlobalLimiter(t) \/ UseGlobal(t)
    <3>1. th[t].pc \in Taking /\ "host" \in PCs /\ "host" \in Taking /\ Goto(t, "host")
      BY <2>4 DEF NoGlobalLimiter, UseGlobal, At, Taking, PCs
    <3> QED BY <1>0, <3>1, GotoMoves DEF Goto
  <2>5. CASE GlobalSpecThrows(t) \/ HostSpecThrows(t)
    <3>1. th[t].pc \in Taking /\ "failed" \in PCs /\ Goto(t, "failed")
      BY <2>5 DEF GlobalSpecThrows, HostSpecThrows, Throw, At, Taking, PCs
    <3> QED BY <1>0, <3>1, GotoMoves DEF Goto
  <2>6. CASE HostLimiter(t)
    <3>1. th[t].pc \in Taking /\ "useHost" \in PCs /\ "useHost" \in Taking
      BY <2>6 DEF HostLimiter, At, Taking, PCs
    <3>2. Request(t).host \in Hosts /\ Request(t).spec \in Specs
      BY <3>1, RequestFact
    <3>3. GetOrCreate(t, Request(t).host, Request(t).spec, "useHost")
      BY <2>6 DEF HostLimiter, Asked
    <3> QED BY <3>1, <3>2, <3>3, LookupMoves
  <2>7. CASE NoHostLimiter(t) \/ UseHost(t)
    <3>1. th[t].pc \in Taking /\ NextToken(t)
      BY <2>7 DEF NoHostLimiter, UseHost, At, Taking
    <3> QED BY <1>0, <3>1, TokenStep DEF NextToken
  <2>8. CASE MultiPerform(t)
    BY <1>0, <2>8, SendStep DEF MultiPerform
  <2>9. CASE RecordLimiter(t)
    <3>1. th[t].pc \in Recording /\ "useRecord" \in PCs /\ "useRecord" \in Recording
      BY <2>9 DEF RecordLimiter, At, Recording, PCs
    <3>2. Request(t).host \in Hosts /\ Default \in Specs
      <4>1. Default \in Specs
        BY DEF Specs
      <4> QED BY <3>1, <4>1, RequestFact
    <3>3. GetOrCreate(t, Request(t).host, Default, "useRecord")
      BY <2>9 DEF RecordLimiter
    <3> QED BY <3>1, <3>2, <3>3, LookupMoves
  <2>10. CASE UseRecord(t)
    <3>1. th[t].pc \in Recording /\ "snapshot" \in PCs /\ "snapshot" \in Recording
          /\ Goto(t, "snapshot")
      BY <2>10 DEF UseRecord, At, Recording, PCs
    <3> QED BY <1>0, <3>1, GotoMoves DEF Goto
  <2>11. CASE RecordGlobal(t)
    <3>1. th[t].pc \in Recording /\ "useSnapshot" \in PCs /\ "useSnapshot" \in Recording
      BY <2>11 DEF RecordGlobal, At, Recording, PCs
    <3>2. th' = [th EXCEPT ![t] = [th[t] EXCEPT !.ptr = global.id, !.pc = "useSnapshot"]]
      BY <2>11 DEF RecordGlobal, Snapshot
    <3>3. BatchInv'
      BY <2>0, <3>1, <3>2, Moves
    <3> QED BY <1>0, <2>11, <3>3 DEF RecordGlobal, Snapshot
  <2>12. CASE WriteResult(t)
    BY <1>0, <2>12, ResultStep DEF WriteResult
  <2>13. CASE Free(t) \/ StatsForEach(t)
    <3> DEFINE x == Idle(th[t].performed)
    <3>1. x \in Locals
      BY <2>0, IdleLocals
    <3>2. /\ x.i = 1 /\ x.start = 1 /\ x.results = 0 /\ x.sent = <<>> /\ x.tokens = 0
          /\ x.pc \in Outside /\ x.batch = <<>>
      BY DEF Idle, Outside
    <3>3. th' = [th EXCEPT ![t] = x]
      BY <2>13 DEF Free, StatsForEach
    <3> HIDE DEF x
    <3>4. BatchInv'
      BY <3>1, <3>2, <3>3, FreshStep
    <3> QED BY <1>0, <2>13, <3>4 DEF Free, StatsForEach
  <2>14. CASE StatsSnapshot(t)
    <3> DEFINE x == [Idle(th[t].performed + 1) EXCEPT !.ptr = global.id, !.pc = "useStats"]
    <3>1. "useStats" \in PCs /\ \A y \in Locals :
            [y EXCEPT !.ptr = global.id, !.pc = "useStats"] \in Locals
      BY <2>0 DEF Locals, PCs
    <3>2. x \in Locals
      BY <2>0, <3>1, IdleLocals
    <3>3. /\ x.i = 1 /\ x.start = 1 /\ x.results = 0 /\ x.sent = <<>> /\ x.tokens = 0
          /\ x.pc \in Outside /\ x.batch = <<>>
      BY DEF Idle, Outside
    <3>4. th' = [th EXCEPT ![t] = x]
      BY <2>14 DEF StatsSnapshot
    <3> HIDE DEF x
    <3>5. BatchInv'
      BY <3>2, <3>3, <3>4, FreshStep
    <3> QED BY <1>0, <2>14, <3>5 DEF StatsSnapshot
  <2>15. CASE StatsGlobal(t)
    <3>1. th[t].pc \in Outside /\ "list" \in PCs /\ "list" \in Outside /\ Goto(t, "list")
      BY <2>15 DEF StatsGlobal, At, Outside, PCs
    <3> QED BY <1>0, <3>1, GotoMoves DEF Goto
  <2> QED BY <1>2, <2>1, <2>2, <2>3, <2>4, <2>5, <2>6, <2>7, <2>8, <2>9, <2>10, <2>11, <2>12,
             <2>13, <2>14, <2>15 DEF Perform, Stats
<1> QED BY <1>1, <1>2 DEF Next

LEMMA LimitersInit == Init => LimitersOK
<1>1. Init => registry \in Seq(LimiterNode) /\ Len(registry) = 0
  BY DEF Init
<1>2. Init => global \in [id : Nat, spec : Specs] /\ made \in Nat
  <2>1. "" \in Specs
    BY DEF Specs
  <2>2. NoGlobal \in [id : Nat, spec : Specs]
    BY <2>1 DEF NoGlobal, Null
  <2> QED BY <2>2 DEF Init
<1>3. MaxHosts \in Nat
  BY BatchAssumption
<1> QED BY <1>1, <1>2, <1>3 DEF LimitersOK

LEMMA BatchAlways == Spec => [](BatchInv /\ LimitersOK)
<1>1. Init => BatchInv /\ LimitersOK
  BY BatchInit, LimitersInit
<1>2. BatchInv /\ LimitersOK /\ [Next]_vars => (BatchInv /\ LimitersOK)'
  BY BatchNext
<1> QED BY <1>1, <1>2, PTL DEF Spec

-----------------------------------------------------------------------------
(* What one batch does *)

\* Every request of a batch is sent once, in order, and answered; a batch in
\* which one request cannot be resolved sends nothing (bh_batch_perform,
\* src/blobhttp_core.cpp), whatever max_concurrent and the other threads do.
THEOREM BatchEachSentOnce == Spec => []EachSentOnce
<1>1. BatchInv => EachSentOnce
  <2> SUFFICES ASSUME BatchInv, NEW t \in Threads
               PROVE  /\ th[t].sent = [k \in 1..Len(th[t].sent) |-> k]
                      /\ At(t, "done") =>
                           Len(th[t].sent) = Len(Batch(t)) /\ th[t].results = Len(Batch(t))
                      /\ (\E k \in 1..Len(Batch(t)) : ~Batch(t)[k].resolves) => th[t].sent = <<>>
    BY DEF EachSentOnce
  <2>1. Progress(t) /\ th[t].pc \in PCs
    BY Typed DEF BatchInv
  <2>2. Resolved(t) \/ Len(th[t].sent) = 0
    BY <2>1 DEF Progress, PCs, Outside, Taking, Recording
  <2>3. Len(th[t].sent) = 0 => th[t].sent = <<>>
    BY Typed DEF BatchInv
  <2> QED BY <2>1, <2>2, <2>3 DEF Progress, Resolved, At
<1> QED BY <1>1, BatchAlways, PTL

\* A request goes out only when tokens have been taken for it and for all
\* before it, whichever way the sub-batches are cut.
THEOREM BatchTokensBeforeSend == Spec => []TokensBeforeSend
<1>1. BatchInv => TokensBeforeSend
  <2> SUFFICES ASSUME BatchInv, NEW t \in Threads
               PROVE  Len(th[t].sent) <= th[t].tokens
    BY DEF TokensBeforeSend
  <2>1. Progress(t) /\ th[t].pc \in PCs
    BY Typed DEF BatchInv
  <2>2. /\ th[t].i \in Nat /\ th[t].start \in Nat /\ th[t].tokens \in Nat
        /\ Len(th[t].sent) \in Nat
        /\ Len(Batch(t)) > 0 => End(t) \in Int
    BY Typed, EndFact DEF BatchInv
  <2> QED BY <2>1, <2>2, SMTT(30) DEF Progress, PCs, Outside, Taking, Recording
<1> QED BY <1>1, BatchAlways, PTL

\* However a batch ends, each response it received has been recorded and
\* written: no exception leaves a request sent and not accounted for.
THEOREM BatchSentAreRecorded == Spec => []SentAreRecorded
<1>1. BatchInv => SentAreRecorded
  BY DEF BatchInv, SentAreRecorded, Completed, Progress
<1> QED BY <1>1, BatchAlways, PTL

-----------------------------------------------------------------------------
(* Threads that agree *)

\* A registry with room for every host is full only when it holds them all.
LEMMA NeverEvicts ==
    ASSUME LimitersOK, RoomForAll, NEW host \in Hosts
    PROVE  HasKey(registry, host) \/ Len(registry) < MaxHosts
<1> SUFFICES ASSUME ~HasKey(registry, host), ~(Len(registry) < MaxHosts)
             PROVE  FALSE
  OBVIOUS
<1> DEFINE n == Len(registry)
           rest == Hosts \ {host}
           f == [p \in 1..n |-> registry[p].key]
<1>1. registry \in Seq(LimiterNode) /\ n \in Nat /\ MaxHosts \in Nat
  BY BatchAssumption DEF LimitersOK
<1>2. IsFiniteSet(rest) /\ Cardinality(rest) = Cardinality(Hosts) - 1
  BY FS_RemoveElement DEF RoomForAll
<1>3. Cardinality(Hosts) \in Nat /\ Cardinality(Hosts) <= MaxHosts
  BY FS_CardinalityType DEF RoomForAll
<1>4. IsFiniteSet(1..n) /\ Cardinality(1..n) = n
  <2>1. n \in Int /\ 1 \in Int /\ (IF 1 > n THEN 0 ELSE n - 1 + 1) = n
    BY <1>1
  <2> HIDE DEF n
  <2>2. IsFiniteSet(1..n) /\ Cardinality(1..n) = IF 1 > n THEN 0 ELSE n - 1 + 1
    BY <2>1, FS_Interval, Zenon
  <2> QED BY <2>1, <2>2
<1>5. \A p \in 1..n : registry[p].key \in rest
  BY <1>1, NodeFact DEF HasKey
<1>6. f \in [1..n -> rest]
  BY <1>5
<1>7. Cardinality(rest) < Cardinality(1..n)
  BY <1>1, <1>2, <1>3, <1>4
<1>8. \A p, q \in 1..n : f[p] = f[q] => p = q
  BY DEF LimitersOK
<1> HIDE DEF f, n, rest
<1>9. \E p, q \in 1..n : p # q /\ f[p] = f[q]
  BY <1>2, <1>4, <1>6, <1>7, FS_PigeonHole, Zenon
<1> QED BY <1>8, <1>9

PointerPCs == {"useGlobal", "useHost", "useRecord", "useSnapshot", "useStats"}

\* What each limiter pointer designates until it is used.
PtrOK(t) ==
    LET x == th[t] IN
    /\ x.pc = "useGlobal" => x.ptr = global.id /\ x.ptr # Null
    /\ x.pc \in {"useSnapshot", "useStats"} => x.ptr = Null \/ x.ptr = global.id
    /\ x.pc = "useRecord" => \E p \in 1..Len(registry) : registry[p].id = x.ptr
    /\ x.pc = "useHost" =>
          /\ \E p \in 1..Len(registry) :
               registry[p].id = x.ptr /\ registry[p].key = Request(t).host
          /\ Request(t).spec \notin {"none", "bad"}

PtrInv(g) ==
    /\ global.id # Null => global.spec = g
    /\ \A t \in Threads : PtrOK(t) /\ Batch(t) \in Batches \cup {<<>>}

\* No limiter that is there disappears in a step.
Keeps ==
    /\ global.id # Null => global' = global
    /\ \A p \in 1..Len(registry) : \E q \in 1..Len(registry') : registry'[q] = registry[p]

LEMMA Others ==
    ASSUME ThreadsOK, NEW t \in Threads, NEW x, th' = [th EXCEPT ![t] = x]
    PROVE  th'[t] = x /\ \A u \in Threads : u # t => th'[u] = th[u]
  BY DEF ThreadsOK

LEMMA PtrLift ==
    ASSUME NEW g, PtrInv(g), NEW t \in Threads, Keeps,
           \A u \in Threads : u # t => th'[u] = th[u],
           PtrOK(t)', Batch(t)' \in Batches \cup {<<>>},
           global'.id # Null => global'.spec = g
    PROVE  PtrInv(g)'
<1>1. ASSUME NEW u \in Threads, th'[u] = th[u]
      PROVE  PtrOK(u)' /\ Batch(u)' \in Batches \cup {<<>>}
  <2>1. PtrOK(u) /\ Batch(u) \in Batches \cup {<<>>}
    BY DEF PtrInv
  <2>2. Request(u)' = Request(u) /\ Batch(u)' = Batch(u)
    BY <1>1 DEF Request, Batch
  <2>3. \A p \in 1..Len(registry) : \E q \in 1..Len(registry') :
          registry'[q].id = registry[p].id /\ registry'[q].key = registry[p].key
    BY DEF Keeps
  <2>4. global.id # Null => global'.id = global.id
    BY DEF Keeps
  <2> QED BY <1>1, <2>1, <2>2, <2>3, <2>4 DEF PtrOK
<1> QED BY <1>1 DEF PtrInv

\* A step that leaves the limiters alone and its thread with no pointer to use.
LEMMA Quiet ==
    ASSUME NEW g, PtrInv(g), NEW t \in Threads, UNCHANGED shared,
           \A u \in Threads : u # t => th'[u] = th[u],
           th'[t].pc \notin PointerPCs, th'[t].batch \in Batches \cup {<<>>}
    PROVE  PtrInv(g)'
<1>1. Keeps
  BY DEF Keeps, shared
<1>2. PtrOK(t)'
  BY DEF PtrOK, PointerPCs
<1>3. Batch(t)' \in Batches \cup {<<>>} /\ (global'.id # Null => global'.spec = g)
  BY DEF Batch, PtrInv, shared
<1> QED BY <1>1, <1>2, <1>3, PtrLift

\* A lookup keeps every limiter, and its thread holds the one of the host.
LEMMA LookupKeeps ==
    ASSUME BatchInv, LimitersOK, RoomForAll, NEW t \in Threads, NEW host \in Hosts,
           NEW spec \in Specs, NEW label, GetOrCreate(t, host, spec, label)
    PROVE  /\ Keeps /\ global' = global
           /\ \A u \in Threads : u # t => th'[u] = th[u]
           /\ th'[t].pc = label /\ th'[t].batch = th[t].batch /\ th'[t].i = th[t].i
           /\ th'[t].tokens = th[t].tokens
           /\ 1 \in 1..Len(registry') /\ registry'[1].key = host /\ th'[t].ptr = registry'[1].id
<1>1. /\ LimitersOK' /\ Len(registry') > 0 /\ registry'[1].key = host /\ global' = global
      /\ th' = [th EXCEPT ![t] = [th[t] EXCEPT !.ptr = registry'[1].id, !.pc = label]]
      /\ HasKey(registry, host) \/ Len(registry) < MaxHosts =>
           \A p \in 1..Len(registry) : \E q \in 1..Len(registry') : registry'[q] = registry[p]
  BY Lookup
<1>2. Keeps
  BY <1>1, NeverEvicts DEF Keeps
<1>3. registry' \in Seq(LimiterNode)
  BY <1>1 DEF LimitersOK
<1>4. 1 \in 1..Len(registry')
  BY <1>1, <1>3
<1>5. th[t] \in Locals
  BY Typed DEF BatchInv
<1>6. /\ th'[t] = [th[t] EXCEPT !.ptr = registry'[1].id, !.pc = label]
      /\ \A u \in Threads : u # t => th'[u] = th[u]
  BY <1>1, Others DEF BatchInv
<1>7. /\ th'[t].pc = label /\ th'[t].batch = th[t].batch /\ th'[t].i = th[t].i
      /\ th'[t].tokens = th[t].tokens /\ th'[t].ptr = registry'[1].id
  BY <1>5, <1>6 DEF Locals
<1> QED BY <1>1, <1>2, <1>4, <1>6, <1>7

\* While the global spec is g for all, the global limiter is built once.
LEMMA GlobalKeeps ==
    ASSUME BatchInv, LimitersOK, NEW g, OneGlobal(Batches, g), PtrInv(g),
           NEW t \in Threads, GlobalLimiter(t)
    PROVE  /\ Keeps /\ global'.id # Null /\ global'.spec = g
           /\ \A u \in Threads : u # t => th'[u] = th[u]
           /\ th'[t].pc = "useGlobal" /\ th'[t].ptr = global'.id /\ th'[t].batch = th[t].batch
<1>1. th[t].pc \in Taking /\ Request(t).gspec \notin {"", "bad"}
  BY DEF GlobalLimiter, At, Taking
<1>2. th[t].i \in 1..Len(Batch(t)) /\ Batch(t) \in Batches
  <2>1. th[t].i \in 1..Len(Batch(t))
    BY <1>1, RequestFact
  <2>2. Batch(t) # <<>>
    BY <2>1, Typed DEF BatchInv
  <2> QED BY <2>1, <2>2 DEF PtrInv
<1>3. Request(t).gspec = g
  BY <1>1, <1>2 DEF OneGlobal, Request
<1>4. made \in Nat /\ made + 1 # Null
  BY DEF LimitersOK, Null
<1>5. global.id # Null => global' = global
  BY <1>3 DEF GlobalLimiter, Serves, PtrInv
<1>6. global.id = Null => global' = [id |-> made + 1, spec |-> g]
  BY <1>3 DEF GlobalLimiter, Serves
<1>7. global'.id # Null /\ global'.spec = g
  BY <1>4, <1>5, <1>6 DEF PtrInv
<1>8. th[t] \in Locals
  BY Typed DEF BatchInv
<1> DEFINE x == [th[t] EXCEPT !.ptr = global'.id, !.pc = "useGlobal"]
<1>13. th' = [th EXCEPT ![t] = x]
  BY DEF GlobalLimiter
<1>14. x.pc = "useGlobal" /\ x.ptr = global'.id /\ x.batch = th[t].batch
  BY <1>8 DEF Locals
<1> HIDE DEF x
<1>9. th'[t] = x /\ \A u \in Threads : u # t => th'[u] = th[u]
  BY <1>13, Others DEF BatchInv
<1>10. th'[t].pc = "useGlobal" /\ th'[t].ptr = global'.id /\ th'[t].batch = th[t].batch
  BY <1>9, <1>14
<1>11. registry' = registry
  BY DEF GlobalLimiter
<1>12. Keeps
  BY <1>5, <1>11 DEF Keeps
<1> QED BY <1>7, <1>9, <1>10, <1>12

LEMMA PtrNext ==
    ASSUME BatchInv, LimitersOK, RoomForAll, NEW g, OneGlobal(Batches, g), PtrInv(g),
           [Next]_vars
    PROVE  PtrInv(g)'
<1>1. CASE UNCHANGED vars
  BY <1>1 DEF vars, shared, PtrInv, PtrOK, Request, Batch
<1>2. ASSUME NEW t \in Threads, Begin(t) \/ Perform(t) \/ Free(t) \/ Stats(t)
      PROVE  PtrInv(g)'
  <2>0. /\ th[t] \in Locals /\ th[t].batch \in Batches \cup {<<>>}
        /\ PtrOK(t) /\ (global.id # Null => global.spec = g)
    BY Typed DEF BatchInv, PtrInv, Batch
  <2>1. CASE Begin(t)
    <3>1. PICK b \in Batches :
            th' = [th EXCEPT ![t] = [Idle(@.performed + 1) EXCEPT !.batch = b, !.pc = "resolve"]]
      BY <2>1 DEF Begin
    <3>2. /\ th'[t] = [Idle(th[t].performed + 1) EXCEPT !.batch = b, !.pc = "resolve"]
          /\ \A u \in Threads : u # t => th'[u] = th[u]
      BY <3>1, Others DEF BatchInv
    <3>3. th'[t].pc = "resolve" /\ th'[t].batch = b
      BY <3>2 DEF Idle
    <3> QED BY <2>1, <3>2, <3>3, Quiet DEF Begin, PointerPCs
  <2>2. CASE GlobalLimiter(t)
    <3>1. /\ Keeps /\ global'.id # Null /\ global'.spec = g
          /\ \A u \in Threads : u # t => th'[u] = th[u]
          /\ th'[t].pc = "useGlobal" /\ th'[t].ptr = global'.id /\ th'[t].batch = th[t].batch
      BY <2>2, GlobalKeeps
    <3>2. PtrOK(t)'
      BY <3>1 DEF PtrOK
    <3> QED BY <2>0, <3>1, <3>2, PtrLift DEF Batch
  <2>3. CASE HostLimiter(t)
    <3>1. th[t].pc \in Taking /\ Request(t).spec \notin {"none", "bad"}
          /\ GetOrCreate(t, Request(t).host, Request(t).spec, "useHost")
      BY <2>3 DEF HostLimiter, Asked, At, Taking
    <3>2. Request(t).host \in Hosts /\ Request(t).spec \in Specs
      BY <3>1, RequestFact
    <3>3. /\ Keeps /\ global' = global
          /\ \A u \in Threads : u # t => th'[u] = th[u]
          /\ th'[t].pc = "useHost" /\ th'[t].batch = th[t].batch /\ th'[t].i = th[t].i
          /\ 1 \in 1..Len(registry') /\ registry'[1].key = Request(t).host
          /\ th'[t].ptr = registry'[1].id
      BY <3>1, <3>2, LookupKeeps
    <3>4. Request(t)' = Request(t)
      BY <3>3 DEF Request, Batch
    <3>5. PtrOK(t)'
      BY <3>1, <3>3, <3>4 DEF PtrOK
    <3> QED BY <2>0, <3>3, <3>5, PtrLift DEF Batch
  <2>4. CASE RecordLimiter(t)
    <3>1. th[t].pc \in Recording
          /\ GetOrCreate(t, Request(t).host, Default, "useRecord")
      BY <2>4 DEF RecordLimiter, At, Recording
    <3>2. Request(t).host \in Hosts
      BY <3>1, RequestFact
    <3>6. Default \in Specs
      BY DEF Specs
    <3>3. /\ Keeps /\ global' = global
          /\ \A u \in Threads : u # t => th'[u] = th[u]
          /\ th'[t].pc = "useRecord" /\ th'[t].batch = th[t].batch
          /\ 1 \in 1..Len(registry') /\ th'[t].ptr = registry'[1].id
      BY <3>1, <3>2, <3>6, LookupKeeps
    <3>5. PtrOK(t)'
      BY <3>3 DEF PtrOK
    <3> QED BY <2>0, <3>3, <3>5, PtrLift DEF Batch
  <2>5. CASE RecordGlobal(t) \/ StatsSnapshot(t)
    <3>1. \A u \in Threads : u # t => th'[u] = th[u]
      BY <2>5, Others DEF BatchInv, RecordGlobal, Snapshot, StatsSnapshot
    <3>2. /\ th'[t].pc \in {"useSnapshot", "useStats"} /\ th'[t].ptr = global.id
          /\ th'[t].batch \in Batches \cup {<<>>}
      <4>1. CASE RecordGlobal(t)
        <5> DEFINE x == [th[t] EXCEPT !.ptr = global.id, !.pc = "useSnapshot"]
        <5>3. th' = [th EXCEPT ![t] = x]
          BY <4>1 DEF RecordGlobal, Snapshot
        <5> HIDE DEF x
        <5>4. th'[t] = x
          BY <5>3, Others DEF BatchInv
        <5>1. th'[t] = [th[t] EXCEPT !.ptr = global.id, !.pc = "useSnapshot"]
          BY <5>4 DEF x
        <5>2. /\ th'[t].pc = "useSnapshot" /\ th'[t].ptr = global.id
              /\ th'[t].batch = th[t].batch
          BY <2>0, <5>1 DEF Locals
        <5> QED BY <2>0, <5>2
      <4>2. CASE StatsSnapshot(t)
        <5>1. th'[t] = [Idle(th[t].performed + 1) EXCEPT !.ptr = global.id, !.pc = "useStats"]
          BY <4>2, Others DEF BatchInv, StatsSnapshot
        <5> QED BY <5>1 DEF Idle
      <4> QED BY <2>5, <4>1, <4>2
    <3>3. UNCHANGED shared
      BY <2>5 DEF RecordGlobal, Snapshot, StatsSnapshot
    <3>4. Keeps /\ global' = global
      BY <3>3 DEF Keeps, shared
    <3>5. PtrOK(t)'
      BY <3>2, <3>4 DEF PtrOK
    <3> QED BY <2>0, <3>1, <3>2, <3>4, <3>5, PtrLift DEF Batch
  <2>6. ASSUME NEW label, Goto(t, label), label \notin PointerPCs
        PROVE  PtrInv(g)'
    <3>1. /\ th'[t] = [th[t] EXCEPT !.pc = label]
          /\ \A u \in Threads : u # t => th'[u] = th[u]
      BY <2>6, Others DEF BatchInv, Goto
    <3>2. th'[t].pc = label /\ th'[t].batch = th[t].batch
      BY <2>0, <3>1 DEF Locals
    <3> QED BY <2>0, <2>6, <3>1, <3>2, Quiet DEF Goto
  <2>7. CASE Resolve(t)
    BY <2>6, <2>7 DEF Resolve, Throw, PointerPCs
  <2>8. CASE NoGlobalLimiter(t) \/ UseGlobal(t) \/ GlobalSpecThrows(t) \/ HostSpecThrows(t)
             \/ UseRecord(t) \/ StatsGlobal(t)
    BY <2>6, <2>8 DEF NoGlobalLimiter, UseGlobal, GlobalSpecThrows, HostSpecThrows, UseRecord,
                      StatsGlobal, Throw, PointerPCs
  <2>9. CASE NoHostLimiter(t) \/ UseHost(t)
    <3>1. NextToken(t)
      BY <2>9 DEF NoHostLimiter, UseHost
    <3> DEFINE x == [th[t] EXCEPT !.tokens = @ + 1,
                                  !.i = IF More(t) THEN @ + 1 ELSE @,
                                  !.pc = IF More(t) THEN "global" ELSE "multi"]
    <3>4. th' = [th EXCEPT ![t] = x]
      BY <3>1 DEF NextToken
    <3>5. x.pc \in {"global", "multi"} /\ x.batch = th[t].batch
      BY <2>0 DEF Locals
    <3> HIDE DEF x
    <3>2. th'[t] = x /\ \A u \in Threads : u # t => th'[u] = th[u]
      BY <3>4, Others DEF BatchInv
    <3>3. th'[t].pc \in {"global", "multi"} /\ th'[t].batch = th[t].batch
      BY <3>2, <3>5
    <3> QED BY <2>0, <3>1, <3>2, <3>3, Quiet DEF NextToken, PointerPCs
  <2>10. CASE MultiPerform(t)
    <3> DEFINE more == [k \in 1..(End(t) - th[t].start + 1) |-> th[t].start + k - 1]
           x == [th[t] EXCEPT !.sent = @ \o more, !.i = th[t].start, !.pc = "record"]
    <3>3. th' = [th EXCEPT ![t] = x]
      BY <2>10 DEF MultiPerform
    <3>4. x.pc = "record" /\ x.batch = th[t].batch
      BY <2>0 DEF Locals
    <3> HIDE DEF x
    <3>1. th'[t] = x /\ \A u \in Threads : u # t => th'[u] = th[u]
      BY <3>3, Others DEF BatchInv
    <3>2. th'[t].pc = "record" /\ th'[t].batch = th[t].batch
      BY <3>1, <3>4
    <3> QED BY <2>0, <2>10, <3>1, <3>2, Quiet DEF MultiPerform, PointerPCs
  <2>11. CASE WriteResult(t)
    <3> DEFINE x == [th[t] EXCEPT
                !.results = @ + 1,
                !.i = IF More(t) THEN @ + 1 ELSE NextStart(t),
                !.start = IF More(t) THEN @ ELSE NextStart(t),
                !.pc = IF More(t) THEN "record"
                       ELSE IF NextStart(t) <= Len(Batch(t)) THEN "global" ELSE "done"]
    <3>3. th' = [th EXCEPT ![t] = x]
      BY <2>11 DEF WriteResult
    <3>4. x.pc \in {"record", "global", "done"} /\ x.batch = th[t].batch
      BY <2>0 DEF Locals
    <3> HIDE DEF x
    <3>1. th'[t] = x /\ \A u \in Threads : u # t => th'[u] = th[u]
      BY <3>3, Others DEF BatchInv
    <3>2. th'[t].pc \in {"record", "global", "done"} /\ th'[t].batch = th[t].batch
      BY <3>1, <3>4
    <3> QED BY <2>0, <2>11, <3>1, <3>2, Quiet DEF WriteResult, PointerPCs
  <2>12. CASE Free(t) \/ StatsForEach(t)
    <3>1. /\ th'[t] = Idle(th[t].performed)
          /\ \A u \in Threads : u # t => th'[u] = th[u]
      BY <2>12, Others DEF BatchInv, Free, StatsForEach
    <3>2. th'[t].pc = "idle" /\ th'[t].batch = <<>>
      BY <3>1 DEF Idle
    <3> QED BY <2>12, <3>1, <3>2, Quiet DEF Free, StatsForEach, PointerPCs
  <2> QED BY <1>2, <2>1, <2>2, <2>3, <2>4, <2>5, <2>7, <2>8, <2>9, <2>10, <2>11, <2>12
          DEF Perform, Stats
<1> QED BY <1>1, <1>2 DEF Next

LEMMA PtrInit ==
    ASSUME NEW g, Init
    PROVE  PtrInv(g)
<1>1. global.id = Null
  BY DEF Init, NoGlobal
<1>2. \A t \in Threads : th[t].pc = "idle" /\ th[t].batch = <<>>
  BY DEF Init, Idle
<1> QED BY <1>1, <1>2 DEF PtrInv, PtrOK, Batch

\* When the configurations agree on the global rate and the registry has room for
\* every host (200 in the code), no pointer to a limiter is used after the limiter
\* went: neither GlobalLimiter nor the registry frees what another thread holds.
\* The run BatchHostEvicted shows that room is needed.
THEOREM BatchPointersLive ==
    ASSUME RoomForAll, NEW g, OneGlobal(Batches, g)
    PROVE  Spec => []PointersLive
<1>1. Init => PtrInv(g)
  BY PtrInit
<1>2. BatchInv /\ LimitersOK /\ PtrInv(g) /\ [Next]_vars => PtrInv(g)'
  BY PtrNext
<1>3. PtrInv(g) => PointersLive
  <2> SUFFICES ASSUME PtrInv(g), NEW t \in Threads, Dereferences(t)
               PROVE  th[t].ptr \in LiveLimiters
    BY DEF PointersLive
  <2>1. PtrOK(t)
    BY DEF PtrInv
  <2> QED BY <2>1 DEF PtrOK, Dereferences, LiveLimiters
<1> QED BY <1>1, <1>2, <1>3, BatchAlways, PTL DEF Spec

\* A request through both limiters has a rate that parses, and its host, unless
\* it is not limited, has a limiter from then on.
Took(t) ==
    \A k \in 1..Len(Batch(t)) : k <= th[t].tokens =>
        /\ Batch(t)[k].spec # "bad"
        /\ Batch(t)[k].spec # "none" => HasKey(registry, Batch(t)[k].host)

RateInv(rate) ==
    /\ \A p \in 1..Len(registry) : registry[p].spec = rate[registry[p].key]
    /\ \A t \in Threads : Took(t)

\* A request in the loops is one of a batch the configurations agree on.
LEMMA RequestRate ==
    ASSUME BatchInv, NEW g, PtrInv(g), NEW rate, OneRate(Batches, rate),
           NEW t \in Threads, th[t].pc \in Taking \cup Recording
    PROVE  /\ Request(t).spec \notin {"none", "bad"} => rate[Request(t).host] = Request(t).spec
           /\ Request(t).spec = "none" => rate[Request(t).host] = Default
<1>1. th[t].i \in 1..Len(Batch(t))
  BY RequestFact
<1>2. Batch(t) # <<>>
  BY <1>1, Typed DEF BatchInv
<1>3. Batch(t) \in Batches
  BY <1>2 DEF PtrInv
<1> QED BY <1>1, <1>3 DEF OneRate, Request

\* The limiter of a host is built with the rate the host is given.
LEMMA RegistryRate ==
    ASSUME BatchInv, LimitersOK, RoomForAll, NEW g, PtrInv(g),
           NEW rate, OneRate(Batches, rate), RateInv(rate), [Next]_vars
    PROVE  /\ \A p \in 1..Len(registry') : registry'[p].spec = rate[registry'[p].key]
           /\ \A p \in 1..Len(registry) : \E q \in 1..Len(registry') : registry'[q] = registry[p]
<1>0. \A p \in 1..Len(registry) : registry[p].spec = rate[registry[p].key]
  BY DEF RateInv
<1>1. CASE registry' = registry
  BY <1>0, <1>1
<1>2. ASSUME NEW t \in Threads, HostLimiter(t)
      PROVE  /\ \A p \in 1..Len(registry') : registry'[p].spec = rate[registry'[p].key]
             /\ \A p \in 1..Len(registry) : \E q \in 1..Len(registry') : registry'[q] = registry[p]
  <2>1. /\ th[t].pc \in Taking /\ Request(t).spec \notin {"none", "bad"}
        /\ GetOrCreate(t, Request(t).host, Request(t).spec, "useHost")
    BY <1>2 DEF HostLimiter, Asked, At, Taking
  <2>2. Request(t).host \in Hosts /\ Request(t).spec \in Specs
    BY <2>1, RequestFact
  <2>3. rate[Request(t).host] = Request(t).spec
    BY <2>1, RequestRate
  <2>4. /\ LimitersOK' /\ registry'[1].key = Request(t).host
        /\ \A q \in 2..Len(registry') : \E p \in 1..Len(registry) : registry'[q] = registry[p]
        /\ registry'[1].spec = Request(t).spec \/ \E p \in 1..Len(registry) : registry'[1] = registry[p]
    <3>1. registry'[1].key = Request(t).host
      BY <2>1, <2>2, Lookup
    <3>2. \A q \in 2..Len(registry') : \E p \in 1..Len(registry) : registry'[q] = registry[p]
      BY <2>1, <2>2, Lookup
    <3>3. registry'[1].spec = Request(t).spec \/ \E p \in 1..Len(registry) : registry'[1] = registry[p]
      BY <2>1, <2>2, Lookup, ZenonT(40)
    <3>4. LimitersOK'
      BY <2>1, <2>2, Lookup
    <3> QED BY <3>1, <3>2, <3>3, <3>4
  <2>5. registry'[1].spec = rate[registry'[1].key]
    BY <1>0, <2>3, <2>4
  <2>6. \A q \in 2..Len(registry') : registry'[q].spec = rate[registry'[q].key]
    BY <1>0, <2>4
  <2>7. \A q \in 1..Len(registry') : q = 1 \/ q \in 2..Len(registry')
    BY <2>4 DEF LimitersOK
  <2>8. Keeps
    BY <2>1, <2>2, LookupKeeps
  <2> QED BY <2>5, <2>6, <2>7, <2>8 DEF Keeps
<1>3. ASSUME NEW t \in Threads, RecordLimiter(t)
      PROVE  /\ \A p \in 1..Len(registry') : registry'[p].spec = rate[registry'[p].key]
             /\ \A p \in 1..Len(registry) : \E q \in 1..Len(registry') : registry'[q] = registry[p]
  <2>1. th[t].pc \in Recording /\ GetOrCreate(t, Request(t).host, Default, "useRecord")
    BY <1>3 DEF RecordLimiter, At, Recording
  <2>2. Request(t).host \in Hosts /\ Default \in Specs /\ th[t].i \in 1..Len(Batch(t))
    <3>1. Default \in Specs
      BY DEF Specs
    <3> QED BY <2>1, <3>1, RequestFact
  <2>3. rate[Request(t).host] = Default \/ HasKey(registry, Request(t).host)
    <3>1. th[t].tokens = End(t) /\ th[t].i <= End(t)
      BY <2>1 DEF BatchInv, Progress
    <3>2. Request(t).spec # "none" => HasKey(registry, Request(t).host)
      BY <2>2, <3>1 DEF RateInv, Took, Request
    <3> QED BY <2>1, <3>2, RequestRate
  <2>4. /\ LimitersOK' /\ registry'[1].key = Request(t).host
        /\ \A q \in 2..Len(registry') : \E p \in 1..Len(registry) : registry'[q] = registry[p]
        /\ registry'[1].spec = Default \/ \E p \in 1..Len(registry) : registry'[1] = registry[p]
    <3>1. registry'[1].key = Request(t).host
      BY <2>1, <2>2, Lookup
    <3>2. \A q \in 2..Len(registry') : \E p \in 1..Len(registry) : registry'[q] = registry[p]
      BY <2>1, <2>2, Lookup
    <3>3. registry'[1].spec = Default \/ \E p \in 1..Len(registry) : registry'[1] = registry[p]
      BY <2>1, <2>2, Lookup, ZenonT(40)
    <3>4. LimitersOK'
      BY <2>1, <2>2, Lookup
    <3> QED BY <3>1, <3>2, <3>3, <3>4
  <2>5. registry'[1].spec = rate[registry'[1].key]
    <3>1. CASE HasKey(registry, Request(t).host)
      <4>1. /\ Len(registry') = Len(registry) /\ Len(registry) > 0
            /\ \A q \in 1..Len(registry') : \E p \in 1..Len(registry) : registry'[q] = registry[p]
        BY <2>1, <2>2, <3>1, Found DEF GetOrCreate
      <4>2. 1 \in 1..Len(registry')
        BY <2>4, <4>1 DEF LimitersOK
      <4> QED BY <1>0, <4>1, <4>2, SMTT(30)
    <3>2. CASE rate[Request(t).host] = Default
      BY <1>0, <2>4, <3>2
    <3> QED BY <2>3, <3>1, <3>2
  <2>6. \A q \in 2..Len(registry') : registry'[q].spec = rate[registry'[q].key]
    BY <1>0, <2>4
  <2>7. \A q \in 1..Len(registry') : q = 1 \/ q \in 2..Len(registry')
    BY <2>4 DEF LimitersOK
  <2>8. Keeps
    BY <2>1, <2>2, LookupKeeps
  <2> QED BY <2>5, <2>6, <2>7, <2>8 DEF Keeps
<1>4. \/ registry' = registry
      \/ \E t \in Threads : HostLimiter(t) \/ RecordLimiter(t)
  BY ZenonT(40) DEF Next, vars, shared, Perform, Stats, Begin, Resolve, GlobalLimiter, NoGlobalLimiter,
         GlobalSpecThrows, UseGlobal, NoHostLimiter, HostSpecThrows, UseHost, MultiPerform,
         UseRecord, RecordGlobal, WriteResult, Free, StatsSnapshot, StatsGlobal, StatsForEach,
         Throw, Goto, NextToken, Snapshot
<1> QED BY <1>1, <1>2, <1>3, <1>4

\* What a thread's step does to its count of tokens.
LEMMA TokensTaken ==
    ASSUME BatchInv, NEW t \in Threads, Begin(t) \/ Perform(t) \/ Free(t) \/ Stats(t)
    PROVE  /\ \A u \in Threads : u # t => th'[u] = th[u]
           /\ \/ th'[t].tokens = 0
              \/ th'[t].batch = th[t].batch /\ th'[t].tokens = th[t].tokens
              \/ /\ NoHostLimiter(t) \/ UseHost(t)
                 /\ th'[t].batch = th[t].batch /\ th'[t].tokens = th[t].tokens + 1
<1>0. th[t] \in Locals
  BY Typed DEF BatchInv
<1>1. ASSUME NEW x, th' = [th EXCEPT ![t] = x]
      PROVE  th'[t] = x /\ \A u \in Threads : u # t => th'[u] = th[u]
  BY <1>1, Others DEF BatchInv
<1>2. CASE Begin(t)
  <2>1. PICK b \in Batches :
          th' = [th EXCEPT ![t] = [Idle(@.performed + 1) EXCEPT !.batch = b, !.pc = "resolve"]]
    BY <1>2 DEF Begin
  <2> DEFINE x == [Idle(th[t].performed + 1) EXCEPT !.batch = b, !.pc = "resolve"]
  <2>2. x.tokens = 0
    BY DEF Idle
  <2>3. th' = [th EXCEPT ![t] = x]
    BY <2>1
  <2> HIDE DEF x
  <2> QED BY <1>1, <2>2, <2>3
<1>3. CASE StatsSnapshot(t)
  <2> DEFINE x == [Idle(th[t].performed + 1) EXCEPT !.ptr = global.id, !.pc = "useStats"]
  <2>1. x.tokens = 0
    BY DEF Idle
  <2>2. th' = [th EXCEPT ![t] = x]
    BY <1>3 DEF StatsSnapshot
  <2> HIDE DEF x
  <2> QED BY <1>1, <2>1, <2>2
<1>4. CASE Free(t) \/ StatsForEach(t)
  <2> DEFINE x == Idle(th[t].performed)
  <2>1. x.tokens = 0
    BY DEF Idle
  <2>2. th' = [th EXCEPT ![t] = x]
    BY <1>4 DEF Free, StatsForEach
  <2> HIDE DEF x
  <2> QED BY <1>1, <2>1, <2>2
<1>5. CASE NoHostLimiter(t) \/ UseHost(t)
  <2> DEFINE x == [th[t] EXCEPT !.tokens = @ + 1,
                                !.i = IF More(t) THEN @ + 1 ELSE @,
                                !.pc = IF More(t) THEN "global" ELSE "multi"]
  <2>1. x.tokens = th[t].tokens + 1 /\ x.batch = th[t].batch
    BY <1>0 DEF Locals
  <2>2. th' = [th EXCEPT ![t] = x]
    BY <1>5 DEF NoHostLimiter, UseHost, NextToken
  <2> HIDE DEF x
  <2> QED BY <1>1, <1>5, <2>1, <2>2
<1>6. ASSUME NEW label, Goto(t, label)
      PROVE  /\ \A u \in Threads : u # t => th'[u] = th[u]
             /\ th'[t].batch = th[t].batch /\ th'[t].tokens = th[t].tokens
  <2> DEFINE x == [th[t] EXCEPT !.pc = label]
  <2>1. x.tokens = th[t].tokens /\ x.batch = th[t].batch
    BY <1>0 DEF Locals
  <2>2. th' = [th EXCEPT ![t] = x]
    BY <1>6 DEF Goto
  <2> HIDE DEF x
  <2> QED BY <1>1, <2>1, <2>2
<1>7. CASE Resolve(t) \/ NoGlobalLimiter(t) \/ GlobalSpecThrows(t) \/ UseGlobal(t)
           \/ HostSpecThrows(t) \/ UseRecord(t) \/ StatsGlobal(t)
  BY <1>6, <1>7 DEF Resolve, NoGlobalLimiter, GlobalSpecThrows, UseGlobal, HostSpecThrows,
                    UseRecord, StatsGlobal, Throw
<1>8. ASSUME NEW label, NEW ptr,
             th' = [th EXCEPT ![t] = [th[t] EXCEPT !.ptr = ptr, !.pc = label]]
      PROVE  /\ \A u \in Threads : u # t => th'[u] = th[u]
             /\ th'[t].batch = th[t].batch /\ th'[t].tokens = th[t].tokens
  <2> DEFINE x == [th[t] EXCEPT !.ptr = ptr, !.pc = label]
  <2>1. x.tokens = th[t].tokens /\ x.batch = th[t].batch
    BY <1>0 DEF Locals
  <2>2. th' = [th EXCEPT ![t] = x]
    BY <1>8
  <2> HIDE DEF x
  <2> QED BY <1>1, <2>1, <2>2
<1>9. CASE GlobalLimiter(t)
  <2>1. th' = [th EXCEPT ![t] = [th[t] EXCEPT !.ptr = global'.id, !.pc = "useGlobal"]]
    BY <1>9 DEF GlobalLimiter
  <2> QED BY <1>8, <2>1
<1>10. CASE HostLimiter(t) \/ RecordLimiter(t)
  <2>1. PICK label : th' = [th EXCEPT ![t] = [th[t] EXCEPT !.ptr = registry'[1].id, !.pc = label]]
    BY <1>10 DEF HostLimiter, RecordLimiter, GetOrCreate
  <2> QED BY <1>8, <2>1
<1>11. CASE RecordGlobal(t)
  <2>1. th' = [th EXCEPT ![t] = [th[t] EXCEPT !.ptr = global.id, !.pc = "useSnapshot"]]
    BY <1>11 DEF RecordGlobal, Snapshot
  <2> QED BY <1>8, <2>1
<1>12. CASE MultiPerform(t)
  <2> DEFINE more == [k \in 1..(End(t) - th[t].start + 1) |-> th[t].start + k - 1]
             x == [th[t] EXCEPT !.sent = @ \o more, !.i = th[t].start, !.pc = "record"]
  <2>1. x.tokens = th[t].tokens /\ x.batch = th[t].batch
    BY <1>0 DEF Locals
  <2>2. th' = [th EXCEPT ![t] = x]
    BY <1>12 DEF MultiPerform
  <2> HIDE DEF x
  <2> QED BY <1>1, <2>1, <2>2
<1>13. CASE WriteResult(t)
  <2> DEFINE x == [th[t] EXCEPT
              !.results = @ + 1,
              !.i = IF More(t) THEN @ + 1 ELSE NextStart(t),
              !.start = IF More(t) THEN @ ELSE NextStart(t),
              !.pc = IF More(t) THEN "record"
                     ELSE IF NextStart(t) <= Len(Batch(t)) THEN "global" ELSE "done"]
  <2>1. x.tokens = th[t].tokens /\ x.batch = th[t].batch
    BY <1>0 DEF Locals
  <2>2. th' = [th EXCEPT ![t] = x]
    BY <1>13 DEF WriteResult
  <2> HIDE DEF x
  <2> QED BY <1>1, <2>1, <2>2
<1> QED BY <1>2, <1>3, <1>4, <1>5, <1>7, <1>9, <1>10, <1>11, <1>12, <1>13 DEF Perform, Stats

LEMMA RateNext ==
    ASSUME BatchInv, LimitersOK, RoomForAll, NEW g, PtrInv(g),
           NEW rate, OneRate(Batches, rate), RateInv(rate), [Next]_vars
    PROVE  RateInv(rate)'
<1>1. /\ \A p \in 1..Len(registry') : registry'[p].spec = rate[registry'[p].key]
      /\ \A p \in 1..Len(registry) : \E q \in 1..Len(registry') : registry'[q] = registry[p]
  BY RegistryRate
<1>2. \A host : HasKey(registry, host) => HasKey(registry, host)'
  BY <1>1 DEF HasKey
<1>3. ASSUME NEW u \in Threads, th'[u].batch = th[u].batch, th'[u].tokens = th[u].tokens
      PROVE  Took(u)'
  BY <1>2, <1>3 DEF Took, Batch, RateInv
<1>4. ASSUME NEW t \in Threads, Begin(t) \/ Perform(t) \/ Free(t) \/ Stats(t)
      PROVE  \A u \in Threads : Took(u)'
  <2>1. /\ \A u \in Threads : u # t => th'[u] = th[u]
        /\ \/ th'[t].tokens = 0
           \/ th'[t].batch = th[t].batch /\ th'[t].tokens = th[t].tokens
           \/ /\ NoHostLimiter(t) \/ UseHost(t)
              /\ th'[t].batch = th[t].batch /\ th'[t].tokens = th[t].tokens + 1
    BY <1>4, TokensTaken
  <2>2. \A u \in Threads : u # t => Took(u)'
    BY <1>3, <2>1
  <2>3. CASE th'[t].tokens = 0
    BY <2>3, <2>2 DEF Took
  <2>4. CASE /\ NoHostLimiter(t) \/ UseHost(t)
             /\ th'[t].batch = th[t].batch /\ th'[t].tokens = th[t].tokens + 1
    <3>1. th[t].pc \in Taking
      BY <2>4 DEF NoHostLimiter, UseHost, At, Taking
    <3>2. th[t].i \in Nat /\ th[t].tokens = th[t].i - 1 /\ th[t].tokens \in Nat
      BY <3>1, Typed DEF BatchInv, Progress
    <3>3. /\ Request(t).spec # "bad"
          /\ Request(t).spec # "none" => HasKey(registry, Request(t).host)
      <4>1. CASE NoHostLimiter(t)
        BY <4>1 DEF NoHostLimiter
      <4>2. CASE UseHost(t)
        <5>1. PtrOK(t) /\ th[t].pc = "useHost"
          BY <4>2 DEF PtrInv, UseHost, At
        <5> QED BY <5>1 DEF PtrOK, HasKey
      <4> QED BY <2>4, <4>1, <4>2
    <3>4. ASSUME NEW k \in 1..Len(Batch(t)), k <= th[t].tokens + 1
          PROVE  /\ Batch(t)[k].spec # "bad"
                 /\ Batch(t)[k].spec # "none" => HasKey(registry, Batch(t)[k].host)
      <4>1. k <= th[t].tokens \/ k = th[t].i
        BY <3>2, <3>4
      <4> QED BY <3>3, <4>1 DEF RateInv, Took, Request
    <3>5. Took(t)'
      BY <1>2, <2>4, <3>4 DEF Took, Batch
    <3> QED BY <2>2, <3>5
  <2> QED BY <1>3, <2>1, <2>2, <2>3, <2>4
<1>5. CASE UNCHANGED vars
  BY <1>1, <1>3, <1>5 DEF RateInv, vars
<1>6. CASE Next
  BY <1>1, <1>4, <1>6 DEF RateInv, Next
<1> QED BY <1>5, <1>6

\* When the configurations agree and the registry has room for every host, a token
\* is always taken from a limiter of the rate the request's configuration names,
\* although recording a response looks the host up with the default rate and could
\* build it a limiter of that rate, as it does after an eviction.
THEOREM BatchUsesConfiguredRate ==
    ASSUME RoomForAll, NEW g, OneGlobal(Batches, g), NEW rate, OneRate(Batches, rate)
    PROVE  Spec => []UsesConfiguredRate
<1>1. Init => PtrInv(g) /\ RateInv(rate)
  <2>1. Init => RateInv(rate)
    <3> SUFFICES ASSUME Init PROVE RateInv(rate)
      OBVIOUS
    <3>1. Len(registry) = 0 /\ \A t \in Threads : th[t].batch = <<>>
      BY DEF Init, Idle
    <3> QED BY <3>1 DEF RateInv, Took, Batch
  <2> QED BY <2>1, PtrInit
<1>2. BatchInv /\ LimitersOK /\ PtrInv(g) /\ RateInv(rate) /\ [Next]_vars
        => (PtrInv(g) /\ RateInv(rate))'
  BY PtrNext, RateNext
<1>3. BatchInv /\ LimitersOK /\ PtrInv(g) /\ RateInv(rate) => UsesConfiguredRate
  <2> SUFFICES ASSUME BatchInv, LimitersOK, PtrInv(g), RateInv(rate),
                      NEW t \in Threads, At(t, "useHost"),
                      NEW p \in 1..Len(registry), registry[p].id = th[t].ptr
               PROVE  registry[p].spec = Request(t).spec
    BY DEF UsesConfiguredRate
  <2>1. PtrOK(t) /\ th[t].pc \in Taking
    BY DEF PtrInv, At, Taking
  <2>2. PICK q \in 1..Len(registry) :
          registry[q].id = th[t].ptr /\ registry[q].key = Request(t).host
    BY <2>1 DEF PtrOK, At
  <2>3. p = q
    BY <2>2 DEF LimitersOK
  <2>4. rate[Request(t).host] = Request(t).spec
    BY <2>1, RequestRate DEF PtrOK, At
  <2> QED BY <2>2, <2>3, <2>4 DEF RateInv
<1> QED BY <1>1, <1>2, <1>3, BatchAlways, PTL DEF Spec

-----------------------------------------------------------------------------
(* Every call ends *)

\* What is left of a batch: tokens, recordings, sub-batches.
LEMMA RemainingBounds ==
    \A n, k, r, s \in Nat :
        /\ Remaining(n, k, r, s) \in Int
        /\ k <= n /\ r <= n /\ s <= n => Remaining(n, k, r, s) >= 1
        /\ k <= n /\ r <= n - 1 /\ s <= n => Remaining(n, k, r, s) >= 5
        /\ k <= n /\ r <= n - 1 /\ s <= n - 1 => Remaining(n, k, r, s) >= 6
        /\ k <= n - 1 /\ r <= n - 1 /\ s <= n - 1 => Remaining(n, k, r, s) >= 10
  BY DEF Remaining

LEMMA RemainingTokens ==
    ASSUME NEW n \in Nat, NEW k \in Nat, NEW r \in Nat, NEW s \in Nat
    PROVE  Remaining(n, k + 1, r, s) = Remaining(n, k, r, s) - 4
  BY DEF Remaining

LEMMA RemainingResults ==
    ASSUME NEW n \in Nat, NEW k \in Nat, NEW r \in Nat, NEW s \in Nat
    PROVE  Remaining(n, k, r + 1, s) = Remaining(n, k, r, s) - 4
  BY DEF Remaining

LEMMA RemainingSends ==
    \A n, k, r, s, m \in Nat :
        m > s => Remaining(n, k, r, m) \in Int /\ Remaining(n, k, r, m) <= Remaining(n, k, r, s) - 1
  BY DEF Remaining

LEMMA PlaceAt ==
    ASSUME NEW t \in Threads
    PROVE  /\ th[t].pc \in {"global", "multi", "record"} => Place(t) = 0
           /\ th[t].pc \in {"useGlobal", "useRecord"} => Place(t) = 1
           /\ th[t].pc \in {"host", "snapshot"} => Place(t) = 2
           /\ th[t].pc \in {"useHost", "useSnapshot"} => Place(t) = 3
  BY DEF Place

LEMMA PlaceAtNext ==
    ASSUME NEW t \in Threads
    PROVE  /\ th'[t].pc \in {"global", "multi", "record"} => Place(t)' = 0
           /\ th'[t].pc \in {"useGlobal", "useRecord"} => Place(t)' = 1
           /\ th'[t].pc \in {"host", "snapshot"} => Place(t)' = 2
           /\ th'[t].pc \in {"useHost", "useSnapshot"} => Place(t)' = 3
  BY DEF Place

LEMMA StepsAt ==
    ASSUME NEW t \in Threads
    PROVE  /\ th[t].pc = "idle" => StepsLeft(t) = 0
           /\ th[t].pc \in {"done", "failed", "list"} => StepsLeft(t) = 1
           /\ th[t].pc = "useStats" => StepsLeft(t) = 2
           /\ th[t].pc = "resolve" => StepsLeft(t) = Left(t) + 1
           /\ th[t].pc \in {"global", "multi", "record"} => StepsLeft(t) = Left(t) - 0
           /\ th[t].pc \in {"useGlobal", "useRecord"} => StepsLeft(t) = Left(t) - 1
           /\ th[t].pc \in {"host", "snapshot"} => StepsLeft(t) = Left(t) - 2
           /\ th[t].pc \in {"useHost", "useSnapshot"} => StepsLeft(t) = Left(t) - 3
<1>1. th[t].pc \notin {"idle", "done", "failed", "list", "useStats", "resolve"} =>
        StepsLeft(t) = Left(t) - Place(t)
  BY DEF StepsLeft, At
<1>2. /\ th[t].pc = "idle" => StepsLeft(t) = 0
      /\ th[t].pc \in {"done", "failed", "list"} => StepsLeft(t) = 1
      /\ th[t].pc = "useStats" => StepsLeft(t) = 2
      /\ th[t].pc = "resolve" => StepsLeft(t) = Left(t) + 1
  BY DEF StepsLeft, At
<1> QED BY <1>1, <1>2, PlaceAt

LEMMA StepsAtNext ==
    ASSUME NEW t \in Threads
    PROVE  /\ th'[t].pc = "idle" => StepsLeft(t)' = 0
           /\ th'[t].pc \in {"done", "failed", "list"} => StepsLeft(t)' = 1
           /\ th'[t].pc \in {"global", "multi", "record"} => StepsLeft(t)' = Left(t)' - 0
           /\ th'[t].pc \in {"useGlobal", "useRecord"} => StepsLeft(t)' = Left(t)' - 1
           /\ th'[t].pc \in {"host", "snapshot"} => StepsLeft(t)' = Left(t)' - 2
           /\ th'[t].pc \in {"useHost", "useSnapshot"} => StepsLeft(t)' = Left(t)' - 3
<1>1. th'[t].pc \notin {"idle", "done", "failed", "list", "useStats", "resolve"} =>
        StepsLeft(t)' = Left(t)' - Place(t)'
  BY DEF StepsLeft, At
<1>2. /\ th'[t].pc = "idle" => StepsLeft(t)' = 0
      /\ th'[t].pc \in {"done", "failed", "list"} => StepsLeft(t)' = 1
  BY DEF StepsLeft, At
<1> QED BY <1>1, <1>2, PlaceAtNext

\* At each place of the loops enough is left for the steps that lead out of it.
LEMMA LeftFact ==
    ASSUME BatchInv, NEW t \in Threads
    PROVE  /\ Left(t) \in Int
           /\ th[t].pc \in Taking => Left(t) >= 10
           /\ th[t].pc = "multi" => Left(t) >= 6
           /\ th[t].pc \in Recording => Left(t) >= 5
           /\ th[t].pc = "resolve" => Left(t) >= 1
<1> DEFINE n == Len(Batch(t))
           k == th[t].tokens
           r == th[t].results
           s == Len(th[t].sent)
<1>1. /\ n \in Nat /\ k \in Nat /\ r \in Nat /\ s \in Nat
      /\ th[t].i \in Nat /\ th[t].start \in Nat
  BY Typed DEF BatchInv
<1>2. n > 0 => End(t) \in Int /\ End(t) <= n
  BY EndFact DEF BatchInv
<1>3. Progress(t)
  BY DEF BatchInv
<1>4. th[t].pc \in Taking =>
        /\ n > 0 /\ th[t].start <= th[t].i /\ th[t].i <= End(t)
        /\ s = th[t].start - 1 /\ r = th[t].start - 1 /\ k = th[t].i - 1
  BY <1>3 DEF Progress
<1>5. th[t].pc = "multi" =>
        /\ n > 0 /\ th[t].start <= End(t)
        /\ s = th[t].start - 1 /\ r = th[t].start - 1 /\ k = End(t)
  BY <1>3 DEF Progress
<1>6. th[t].pc \in Recording =>
        n > 0 /\ th[t].i <= End(t) /\ s = End(t) /\ r = th[t].i - 1 /\ k = End(t)
  BY <1>3 DEF Progress
<1>7. th[t].pc = "resolve" => k = 0 /\ r = 0 /\ s = 0
  BY <1>3 DEF Progress
<1>8. Left(t) = Remaining(n, k, r, s)
  BY DEF Left
<1> HIDE DEF n, k, r, s
<1>9. th[t].pc \in Taking => k <= n - 1 /\ r <= n - 1 /\ s <= n - 1
  BY <1>1, <1>2, <1>4
<1>10. th[t].pc = "multi" => k <= n /\ r <= n - 1 /\ s <= n - 1
  BY <1>1, <1>2, <1>5
<1>11. th[t].pc \in Recording => k <= n /\ r <= n - 1 /\ s <= n
  BY <1>1, <1>2, <1>6
<1>12. th[t].pc = "resolve" => k <= n /\ r <= n /\ s <= n
  BY <1>1, <1>7
<1>13. /\ Left(t) \in Int
       /\ k <= n /\ r <= n /\ s <= n => Left(t) >= 1
       /\ k <= n /\ r <= n - 1 /\ s <= n => Left(t) >= 5
       /\ k <= n /\ r <= n - 1 /\ s <= n - 1 => Left(t) >= 6
       /\ k <= n - 1 /\ r <= n - 1 /\ s <= n - 1 => Left(t) >= 10
  <2>1. /\ Remaining(n, k, r, s) \in Int
        /\ k <= n /\ r <= n /\ s <= n => Remaining(n, k, r, s) >= 1
        /\ k <= n /\ r <= n - 1 /\ s <= n => Remaining(n, k, r, s) >= 5
        /\ k <= n /\ r <= n - 1 /\ s <= n - 1 => Remaining(n, k, r, s) >= 6
        /\ k <= n - 1 /\ r <= n - 1 /\ s <= n - 1 => Remaining(n, k, r, s) >= 10
    BY <1>1, RemainingBounds, Zenon
  <2> QED BY <1>8, <2>1
<1> QED BY <1>9, <1>10, <1>11, <1>12, <1>13

\* The same, in the state a sub-batch leaves behind.
EnoughLeft == \A t \in Threads : th[t].pc = "record" => Left(t) \in Int /\ Left(t) >= 5

LEMMA EnoughIsLeft == BatchInv => EnoughLeft
  BY LeftFact DEF EnoughLeft, Recording

LEMMA LeftFactNext == BatchInv' => EnoughLeft'
  BY EnoughIsLeft, PTL

\* A step that only moves the thread, or gives it a pointer.
LEMMA MovesLeft ==
    ASSUME ThreadsOK, NEW t \in Threads, NEW label, NEW ptr,
           th' = [th EXCEPT ![t].ptr = ptr, ![t].pc = label]
    PROVE  th'[t].pc = label /\ Left(t)' = Left(t)
<1>1. th[t] \in Locals
  BY Typed
<1>2. th'[t] = [th[t] EXCEPT !.ptr = ptr, !.pc = label]
  BY DEF ThreadsOK
<1>3. /\ th'[t].pc = label /\ th'[t].tokens = th[t].tokens /\ th'[t].results = th[t].results
      /\ th'[t].sent = th[t].sent /\ th'[t].batch = th[t].batch
  BY <1>1, <1>2, ZenonT(60) DEF Locals
<1> QED BY <1>3 DEF Left, Batch

LEMMA GotoLeft ==
    ASSUME ThreadsOK, NEW t \in Threads, NEW label, Goto(t, label)
    PROVE  th'[t].pc = label /\ Left(t)' = Left(t)
<1>1. th[t] \in Locals
  BY Typed
<1>2. th'[t] = [th[t] EXCEPT !.pc = label]
  BY DEF ThreadsOK, Goto
<1>3. /\ th'[t].pc = label /\ th'[t].tokens = th[t].tokens /\ th'[t].results = th[t].results
      /\ th'[t].sent = th[t].sent /\ th'[t].batch = th[t].batch
  BY <1>1, <1>2 DEF Locals
<1> QED BY <1>3 DEF Left, Batch

\* A token, a sub-batch and a result each use up their share.
LEMMA TokenLeft ==
    ASSUME BatchInv, NEW t \in Threads, NextToken(t)
    PROVE  th'[t].pc \in {"global", "multi"} /\ Left(t)' = Left(t) - 4
<1>1. th[t] \in Locals /\ th[t].tokens \in Nat
  BY Typed DEF BatchInv
<1> DEFINE j == IF More(t) THEN th[t].i + 1 ELSE th[t].i
           label == IF More(t) THEN "global" ELSE "multi"
<1>2. th'[t] = [th[t] EXCEPT !.tokens = th[t].tokens + 1, !.i = j, !.pc = label]
  BY DEF NextToken, BatchInv, ThreadsOK
<1>3. label \in {"global", "multi"}
  OBVIOUS
<1> HIDE DEF j, label
<1>4. /\ th'[t].pc = label /\ th'[t].tokens = th[t].tokens + 1 /\ th'[t].results = th[t].results
      /\ th'[t].sent = th[t].sent /\ th'[t].batch = th[t].batch
  BY <1>1, <1>2 DEF Locals
<1>5. Len(Batch(t)) \in Nat /\ th[t].results \in Nat /\ Len(th[t].sent) \in Nat
  BY Typed DEF BatchInv
<1>6. Batch(t)' = Batch(t)
  BY <1>4 DEF Batch
<1>7. Left(t)' = Remaining(Len(Batch(t)), th[t].tokens + 1, th[t].results, Len(th[t].sent))
  BY <1>4, <1>6 DEF Left
<1>8. Left(t) = Remaining(Len(Batch(t)), th[t].tokens, th[t].results, Len(th[t].sent))
  BY DEF Left
<1>9. Left(t)' = Left(t) - 4
  <2>1. Remaining(Len(Batch(t)), th[t].tokens + 1, th[t].results, Len(th[t].sent))
          = Remaining(Len(Batch(t)), th[t].tokens, th[t].results, Len(th[t].sent)) - 4
    BY <1>1, <1>5, RemainingTokens, ZenonT(60)
  <2> QED BY <1>7, <1>8, <2>1, Zenon
<1> QED BY <1>3, <1>4, <1>9

LEMMA SendLeft ==
    ASSUME BatchInv, BatchInv', NEW t \in Threads, MultiPerform(t)
    PROVE  th'[t].pc = "record" /\ Left(t)' <= Left(t) - 1 /\ Left(t)' \in Int
<1>1. th[t] \in Locals /\ th[t].pc = "multi"
  BY Typed DEF BatchInv, MultiPerform, At
<1> DEFINE n == End(t) - th[t].start + 1
           more == th[t].sent \o [k \in 1..n |-> th[t].start + k - 1]
<1>2. th'[t] = [th[t] EXCEPT !.sent = more, !.i = th[t].start, !.pc = "record"]
  BY DEF MultiPerform, BatchInv, ThreadsOK
<1> HIDE DEF more
<1>3. /\ th'[t].pc = "record" /\ th'[t].tokens = th[t].tokens /\ th'[t].results = th[t].results
      /\ th'[t].batch = th[t].batch /\ th'[t].start = th[t].start
  BY <1>1, <1>2 DEF Locals
<1>4. End(t)' = End(t)
  BY <1>3 DEF End, NextStart, MaxConcurrent, Batch
<1>5. /\ Len(th[t].sent) = th[t].start - 1 /\ th[t].start <= End(t) /\ Len(Batch(t)) > 0
      /\ Len(th'[t].sent) = End(t)
  BY <1>1, <1>3, <1>4 DEF BatchInv, Progress, Recording
<1>6. /\ Len(Batch(t)) \in Nat /\ th[t].results \in Nat /\ th[t].tokens \in Nat
      /\ th[t].start \in Nat /\ End(t) \in Int
  BY <1>5, Typed, EndFact DEF BatchInv
<1>7. Len(th[t].sent) \in Nat /\ Len(th'[t].sent) \in Nat /\ Len(th'[t].sent) > Len(th[t].sent)
  <2>1. Len(th[t].sent) \in Nat /\ End(t) \in Nat
    BY <1>5, <1>6, Typed DEF BatchInv
  <2> QED BY <1>5, <1>6, <2>1
<1>8. Batch(t)' = Batch(t)
  BY <1>3 DEF Batch
<1>9. Left(t)' = Remaining(Len(Batch(t)), th[t].tokens, th[t].results, Len(th'[t].sent))
  BY <1>3, <1>8 DEF Left
<1>10. Left(t) = Remaining(Len(Batch(t)), th[t].tokens, th[t].results, Len(th[t].sent))
  BY DEF Left
<1> DEFINE b == Len(th'[t].sent)
<1>11. b \in Nat /\ b > Len(th[t].sent)
  BY <1>7
<1>12. Left(t)' = Remaining(Len(Batch(t)), th[t].tokens, th[t].results, b)
  BY <1>9
<1> HIDE DEF b
<1>13. Left(t)' <= Left(t) - 1 /\ Left(t)' \in Int
  <2>1. LET r == Remaining(Len(Batch(t)), th[t].tokens, th[t].results, b)
        IN  r \in Int
            /\ r <= Remaining(Len(Batch(t)), th[t].tokens, th[t].results, Len(th[t].sent)) - 1
    BY <1>6, <1>7, <1>11, RemainingSends, Zenon
  <2> QED BY <1>10, <1>12, <2>1, Zenon
<1> QED BY <1>3, <1>13

LEMMA ResultLeft ==
    ASSUME BatchInv, NEW t \in Threads, WriteResult(t)
    PROVE  th'[t].pc \in {"record", "global", "done"} /\ Left(t)' = Left(t) - 4
<1>1. th[t] \in Locals /\ th[t].results \in Nat
  BY Typed DEF BatchInv
<1> DEFINE j == IF More(t) THEN th[t].i + 1 ELSE NextStart(t)
           first == IF More(t) THEN th[t].start ELSE NextStart(t)
           label == IF More(t) THEN "record"
                    ELSE IF NextStart(t) <= Len(Batch(t)) THEN "global" ELSE "done"
<1>2. th'[t] = [th[t] EXCEPT !.results = th[t].results + 1, !.i = j, !.start = first, !.pc = label]
  BY DEF WriteResult, BatchInv, ThreadsOK
<1>3. label \in {"record", "global", "done"}
  OBVIOUS
<1> HIDE DEF j, first, label
<1>4. /\ th'[t].pc = label /\ th'[t].tokens = th[t].tokens /\ th'[t].results = th[t].results + 1
      /\ th'[t].sent = th[t].sent /\ th'[t].batch = th[t].batch
  BY <1>1, <1>2 DEF Locals
<1>5. Len(Batch(t)) \in Nat /\ th[t].tokens \in Nat /\ Len(th[t].sent) \in Nat
  BY Typed DEF BatchInv
<1>6. Batch(t)' = Batch(t)
  BY <1>4 DEF Batch
<1>7. Left(t)' = Remaining(Len(Batch(t)), th[t].tokens, th[t].results + 1, Len(th[t].sent))
  BY <1>4, <1>6 DEF Left
<1>8. Left(t) = Remaining(Len(Batch(t)), th[t].tokens, th[t].results, Len(th[t].sent))
  BY DEF Left
<1>9. Left(t)' = Left(t) - 4
  <2>1. Remaining(Len(Batch(t)), th[t].tokens, th[t].results + 1, Len(th[t].sent))
          = Remaining(Len(Batch(t)), th[t].tokens, th[t].results, Len(th[t].sent)) - 4
    BY <1>1, <1>5, RemainingResults, ZenonT(60)
  <2> QED BY <1>7, <1>8, <2>1, Zenon
<1> QED BY <1>3, <1>4, <1>9

LEMMA StepsFrom ==
    ASSUME BatchInv, BatchInv', NEW t \in Threads, Perform(t) \/ Free(t) \/ Stats(t), ~At(t, "idle")
    PROVE  StepsLeft(t)' \in 0..(StepsLeft(t) - 1)
<1>0. ThreadsOK /\ th[t].pc \in PCs /\ Left(t) \in Int /\ Len(Batch(t)) \in Nat
  BY Typed, LeftFact DEF BatchInv
<1> USE DEF At, Taking, Recording
<1>1. CASE Resolve(t)
  <2>1. th[t].pc = "resolve" /\ \E l \in {"failed", "done", "global"} : Goto(t, l)
    BY <1>1 DEF Resolve, Throw
  <2>2. th'[t].pc \in {"failed", "done", "global"} /\ Left(t)' = Left(t)
    BY <1>0, <2>1, GotoLeft
  <2>3. Left(t) >= 1 /\ StepsLeft(t) = Left(t) + 1
    BY <2>1, LeftFact, StepsAt
  <2>4. StepsLeft(t)' = 1 \/ StepsLeft(t)' = Left(t) - 0
    BY <2>2, StepsAtNext
  <2> QED BY <1>0, <2>3, <2>4
<1>2. CASE GlobalLimiter(t)
  <2>1. th[t].pc = "global" /\ th' = [th EXCEPT ![t].ptr = global'.id, ![t].pc = "useGlobal"]
    BY <1>2 DEF GlobalLimiter
  <2>2. th'[t].pc = "useGlobal" /\ Left(t)' = Left(t) /\ Left(t) >= 10
    BY <1>0, <2>1, MovesLeft, LeftFact
  <2>3. StepsLeft(t) = Left(t) - 0 /\ StepsLeft(t)' = Left(t) - 1
    BY <2>1, <2>2, StepsAt, StepsAtNext
  <2> QED BY <1>0, <2>2, <2>3
<1>3. CASE NoGlobalLimiter(t) \/ UseGlobal(t)
  <2>1. th[t].pc \in {"global", "useGlobal"} /\ Goto(t, "host")
    BY <1>3 DEF NoGlobalLimiter, UseGlobal
  <2>2. th'[t].pc = "host" /\ Left(t)' = Left(t) /\ Left(t) >= 10
    BY <1>0, <2>1, GotoLeft, LeftFact
  <2>3. StepsLeft(t)' = Left(t) - 2 /\ (StepsLeft(t) = Left(t) - 0 \/ StepsLeft(t) = Left(t) - 1)
    BY <2>1, <2>2, StepsAt, StepsAtNext
  <2> QED BY <1>0, <2>2, <2>3
<1>4. CASE GlobalSpecThrows(t) \/ HostSpecThrows(t)
  <2>1. th[t].pc \in {"global", "host"} /\ Goto(t, "failed")
    BY <1>4 DEF GlobalSpecThrows, HostSpecThrows, Throw
  <2>2. th'[t].pc = "failed" /\ Left(t) >= 10
    BY <1>0, <2>1, GotoLeft, LeftFact
  <2>3. StepsLeft(t)' = 1 /\ (StepsLeft(t) = Left(t) - 0 \/ StepsLeft(t) = Left(t) - 2)
    BY <2>1, <2>2, StepsAt, StepsAtNext
  <2> QED BY <1>0, <2>2, <2>3
<1>5. CASE HostLimiter(t)
  <2>1. th[t].pc = "host" /\ th' = [th EXCEPT ![t].ptr = registry'[1].id, ![t].pc = "useHost"]
    BY <1>5 DEF HostLimiter, GetOrCreate
  <2>2. th'[t].pc = "useHost" /\ Left(t)' = Left(t) /\ Left(t) >= 10
    BY <1>0, <2>1, MovesLeft, LeftFact
  <2>3. StepsLeft(t) = Left(t) - 2 /\ StepsLeft(t)' = Left(t) - 3
    BY <2>1, <2>2, StepsAt, StepsAtNext
  <2> QED BY <1>0, <2>2, <2>3
<1>6. CASE NoHostLimiter(t) \/ UseHost(t)
  <2>1. th[t].pc \in {"host", "useHost"} /\ NextToken(t)
    BY <1>6 DEF NoHostLimiter, UseHost
  <2>2. th'[t].pc \in {"global", "multi"} /\ Left(t)' = Left(t) - 4 /\ Left(t) >= 10
    BY <2>1, TokenLeft, LeftFact
  <2>3. /\ StepsLeft(t)' = (Left(t) - 4) - 0
        /\ StepsLeft(t) = Left(t) - 2 \/ StepsLeft(t) = Left(t) - 3
    BY <2>1, <2>2, StepsAt, StepsAtNext
  <2> QED BY <1>0, <2>2, <2>3
<1>7. CASE MultiPerform(t)
  <2>1. th[t].pc = "multi"
    BY <1>7 DEF MultiPerform
  <2>2. th'[t].pc = "record" /\ Left(t)' <= Left(t) - 1 /\ Left(t)' \in Int /\ Left(t) >= 6
    BY <1>7, <2>1, SendLeft, LeftFact
  <2>3. Left(t)' >= 5
    BY <2>2, LeftFactNext DEF EnoughLeft
  <2>4. StepsLeft(t) = Left(t) - 0 /\ StepsLeft(t)' = Left(t)' - 0
    BY <2>1, <2>2, StepsAt, StepsAtNext
  <2> QED BY <1>0, <2>2, <2>3, <2>4
<1>8. CASE RecordLimiter(t)
  <2>1. th[t].pc = "record" /\ th' = [th EXCEPT ![t].ptr = registry'[1].id, ![t].pc = "useRecord"]
    BY <1>8 DEF RecordLimiter, GetOrCreate
  <2>2. th'[t].pc = "useRecord" /\ Left(t)' = Left(t) /\ Left(t) >= 5
    BY <1>0, <2>1, MovesLeft, LeftFact
  <2>3. StepsLeft(t) = Left(t) - 0 /\ StepsLeft(t)' = Left(t) - 1
    BY <2>1, <2>2, StepsAt, StepsAtNext
  <2> QED BY <1>0, <2>2, <2>3
<1>9. CASE UseRecord(t)
  <2>1. th[t].pc = "useRecord" /\ Goto(t, "snapshot")
    BY <1>9 DEF UseRecord
  <2>2. th'[t].pc = "snapshot" /\ Left(t)' = Left(t) /\ Left(t) >= 5
    BY <1>0, <2>1, GotoLeft, LeftFact
  <2>3. StepsLeft(t) = Left(t) - 1 /\ StepsLeft(t)' = Left(t) - 2
    BY <2>1, <2>2, StepsAt, StepsAtNext
  <2> QED BY <1>0, <2>2, <2>3
<1>10. CASE RecordGlobal(t)
  <2>1. th[t].pc = "snapshot" /\ th' = [th EXCEPT ![t].ptr = global.id, ![t].pc = "useSnapshot"]
    BY <1>10 DEF RecordGlobal, Snapshot
  <2>2. th'[t].pc = "useSnapshot" /\ Left(t)' = Left(t) /\ Left(t) >= 5
    BY <1>0, <2>1, MovesLeft, LeftFact
  <2>3. StepsLeft(t) = Left(t) - 2 /\ StepsLeft(t)' = Left(t) - 3
    BY <2>1, <2>2, StepsAt, StepsAtNext
  <2> QED BY <1>0, <2>2, <2>3
<1>11. CASE WriteResult(t)
  <2>1. th[t].pc = "useSnapshot" /\ Left(t) >= 5
    <3>1. th[t].pc = "useSnapshot"
      BY <1>11 DEF WriteResult
    <3> QED BY <3>1, LeftFact
  <2>2. th'[t].pc \in {"record", "global", "done"} /\ Left(t)' = Left(t) - 4
    BY <1>11, ResultLeft
  <2>3. /\ StepsLeft(t) = Left(t) - 3
        /\ StepsLeft(t)' = 1 \/ StepsLeft(t)' = (Left(t) - 4) - 0
    BY <2>1, <2>2, StepsAt, StepsAtNext
  <2> QED BY <1>0, <2>1, <2>2, <2>3
<1>12. CASE Free(t) \/ StatsForEach(t)
  <2>1. th[t].pc \in {"done", "failed", "list"} /\ th'[t] = Idle(th[t].performed)
    BY <1>0, <1>12 DEF Free, StatsForEach, ThreadsOK
  <2>2. th'[t].pc = "idle"
    BY <2>1 DEF Idle
  <2> QED BY <2>1, <2>2, StepsAt, StepsAtNext
<1>13. CASE StatsGlobal(t)
  <2>1. th[t].pc = "useStats" /\ Goto(t, "list")
    BY <1>13 DEF StatsGlobal
  <2>2. th'[t].pc = "list"
    BY <1>0, <2>1, GotoLeft
  <2> QED BY <2>1, <2>2, StepsAt, StepsAtNext
<1>14. CASE StatsSnapshot(t)
  BY <1>14 DEF StatsSnapshot
<1> QED BY <1>1, <1>2, <1>3, <1>4, <1>5, <1>6, <1>7, <1>8, <1>9, <1>10, <1>11, <1>12, <1>13, <1>14
        DEF Perform, Stats

\* bh_batch_perform ends: whatever the other threads do to the limiters between two
\* steps of a thread, a batch of n requests never takes more than 9 * n + 2.
THEOREM BatchCallsBounded == Spec => CallsBounded
<1> DEFINE A == \A t \in Threads : ~At(t, "idle") =>
                  th'[t] = th[t] \/ StepsLeft(t)' \in 0..(StepsLeft(t) - 1)
<1>1. ASSUME BatchInv, BatchInv', Next, NEW t \in Threads, ~At(t, "idle")
      PROVE  th'[t] = th[t] \/ StepsLeft(t)' \in 0..(StepsLeft(t) - 1)
  <2>1. PICK u \in Threads : Begin(u) \/ Perform(u) \/ Free(u) \/ Stats(u)
    BY <1>1 DEF Next
  <2>2. CASE u = t
    BY <1>1, <2>1, <2>2, StepsFrom DEF Begin
  <2>3. CASE u # t
    <3>1. \E x : th' = [th EXCEPT ![u] = x]
      BY <2>1 DEF Begin, Perform, Free, Stats, Resolve, Throw, Goto, GlobalLimiter,
                  NoGlobalLimiter, GlobalSpecThrows, UseGlobal, HostLimiter, NoHostLimiter,
                  HostSpecThrows, UseHost, NextToken, GetOrCreate, MultiPerform, RecordLimiter,
                  UseRecord, RecordGlobal, Snapshot, WriteResult, StatsSnapshot, StatsGlobal,
                  StatsForEach
    <3> QED BY <1>1, <2>3, <3>1, Others DEF BatchInv
  <2> QED BY <2>2, <2>3
<1>2. BatchInv /\ BatchInv' /\ [Next]_vars => [A]_vars
  BY <1>1
<1>3. CallsBounded <=> [][A]_vars
  BY DEF CallsBounded
<1> HIDE DEF A
<1> QED BY <1>2, <1>3, BatchAlways, PTL DEF Spec

-----------------------------------------------------------------------------
(* The contract *)

LEMMA ViewFields ==
    ASSUME NEW x
    PROVE  /\ View(x).state = StateOf(x) /\ View(x).batch = x.batch
           /\ View(x).sent = x.sent /\ View(x).answered = x.results
  BY DEF View

\* A step of one thread changes the view of its call only.
LEMMA CallsStep ==
    ASSUME ThreadsOK, NEW t \in Threads, NEW x, th' = [th EXCEPT ![t] = x]
    PROVE  /\ Calls[t] = View(th[t])
           /\ Calls' = [Calls EXCEPT ![t] = View(x)]
           /\ View(x) = View(th[t]) => Calls' = Calls
<1>1. th'[t] = x /\ \A u \in Threads : u # t => th'[u] = th[u]
  BY Others
<1>2. Calls' = [u \in Threads |-> View(th'[u])]
  BY DEF Calls
<1>3. \A u \in Threads : Calls'[u] = View(th'[u])
  BY <1>2
<1>4. DOMAIN Calls' = Threads /\ Calls' = [u \in Threads |-> Calls'[u]]
  BY <1>2
<1>5. Calls = [u \in Threads |-> View(th[u])]
  BY DEF Calls
<1>6. Calls' = [Calls EXCEPT ![t] = View(x)]
  BY <1>1, <1>2, <1>5
<1>7. View(x) = View(th[t]) => Calls' = Calls
  BY <1>1, <1>2, <1>5
<1> QED BY <1>5, <1>6, <1>7

\* Where the caller sees nothing new.
LEMMA SameView ==
    ASSUME NEW x, NEW y, StateOf(x) = StateOf(y), x.batch = y.batch, x.sent = y.sent,
           x.results = y.results
    PROVE  View(x) = View(y)
  BY DEF View

LEMMA OpenState ==
    ASSUME NEW x, x.pc \in Taking \cup Recording \cup {"resolve", "multi"}
    PROVE  StateOf(x) = "open"
  BY DEF StateOf, Taking, Recording

LEMMA HiddenMove ==
    ASSUME ThreadsOK, NEW t \in Threads, NEW label, NEW ptr,
           th' = [th EXCEPT ![t].ptr = ptr, ![t].pc = label],
           \/ th[t].pc \in Taking \cup Recording \cup {"resolve", "multi"}
              /\ label \in Taking \cup Recording \cup {"resolve", "multi"}
           \/ th[t].pc \in Outside /\ label \in Outside
    PROVE  Calls' = Calls
<1> DEFINE x == [th[t] EXCEPT !.ptr = ptr, !.pc = label]
<1>1. th[t] \in Locals
  BY Typed
<1>2. /\ x.pc = label /\ x.batch = th[t].batch /\ x.results = th[t].results
      /\ x.sent = th[t].sent
  BY <1>1 DEF Locals
<1>3. th' = [th EXCEPT ![t] = x]
  OBVIOUS
<1> HIDE DEF x
<1>4. StateOf(x) = StateOf(th[t])
  <2>1. CASE th[t].pc \in Outside /\ label \in Outside
    BY <1>2, <2>1 DEF StateOf, Outside
  <2> QED BY <1>2, <2>1, OpenState
<1>5. View(x) = View(th[t])
  BY <1>2, <1>4, SameView
<1> QED BY <1>3, <1>5, CallsStep

LEMMA HiddenGoto ==
    ASSUME ThreadsOK, NEW t \in Threads, NEW label, Goto(t, label),
           \/ th[t].pc \in Taking \cup Recording \cup {"resolve", "multi"}
              /\ label \in Taking \cup Recording \cup {"resolve", "multi"}
           \/ th[t].pc \in Outside /\ label \in Outside
    PROVE  Calls' = Calls
<1>1. th[t] \in Locals
  BY Typed
<1>2. [th[t] EXCEPT !.pc = label] = [th[t] EXCEPT !.ptr = th[t].ptr, !.pc = label]
  BY <1>1 DEF Locals
<1>3. th' = [th EXCEPT ![t].ptr = th[t].ptr, ![t].pc = label]
  BY <1>2 DEF Goto
<1> QED BY <1>3, HiddenMove

\* The token of a request is taken behind the caller's back too.
LEMMA HiddenToken ==
    ASSUME ThreadsOK, NEW t \in Threads, th[t].pc \in Taking, NextToken(t)
    PROVE  Calls' = Calls
<1> DEFINE label == IF More(t) THEN "global" ELSE "multi"
           j == IF More(t) THEN th[t].i + 1 ELSE th[t].i
           x == [th[t] EXCEPT !.tokens = th[t].tokens + 1, !.i = j, !.pc = label]
<1>1. th[t] \in Locals
  BY Typed
<1>2. th' = [th EXCEPT ![t] = x]
  BY DEF NextToken
<1>3. label \in Taking \cup {"multi"}
  BY DEF Taking
<1> HIDE DEF label, j
<1>4. /\ x.pc = label /\ x.batch = th[t].batch /\ x.results = th[t].results
      /\ x.sent = th[t].sent
  BY <1>1 DEF Locals
<1> HIDE DEF x
<1>5. View(x) = View(th[t])
  BY <1>3, <1>4, OpenState, SameView
<1> QED BY <1>2, <1>5, CallsStep

\* What Begin makes of no call.
LEMMA NewCall ==
    ASSUME NEW b, NEW x, x = [state |-> "none", batch |-> <<>>, sent |-> <<>>, answered |-> 0]
    PROVE  [x EXCEPT !.state = "open", !.batch = b]
             = [state |-> "open", batch |-> b, sent |-> <<>>, answered |-> 0]
<1> DEFINE R == [state : {"none", "open"}, batch : {<<>>, b}, sent : {<<>>}, answered : {0}]
           z == [x EXCEPT !.state = "open", !.batch = b]
<1>1. x \in R
  OBVIOUS
<1>2. z \in R /\ z.state = "open" /\ z.batch = b /\ z.sent = <<>> /\ z.answered = 0
  BY <1>1
<1> HIDE DEF z
<1>3. z = [state |-> z.state, batch |-> z.batch, sent |-> z.sent, answered |-> z.answered]
  BY <1>2
<1>4. z = [state |-> "open", batch |-> b, sent |-> <<>>, answered |-> 0]
  BY <1>2, <1>3
<1> QED BY <1>4 DEF z

\* An exception is a failure of the contract: nothing in the air, requests left.
LEMMA ThrowFails ==
    ASSUME BatchInv, NEW t \in Threads, Throw(t),
           th[t].pc \in Taking \/ (th[t].pc = "resolve" /\ ~Resolved(t))
    PROVE  Contract!Fail(t)
<1> DEFINE x == [th[t] EXCEPT !.pc = "failed"]
<1>1. ThreadsOK /\ th[t] \in Locals /\ th' = [th EXCEPT ![t] = x]
  BY Typed DEF BatchInv, Throw, Goto
<1>2. /\ x.pc = "failed" /\ x.batch = th[t].batch /\ x.results = th[t].results
      /\ x.sent = th[t].sent
  BY <1>1 DEF Locals
<1> HIDE DEF x
<1>3. Calls[t] = View(th[t]) /\ Calls' = [Calls EXCEPT ![t] = View(x)]
  BY <1>1, CallsStep
<1>4. View(th[t]).state = "open" /\ StateOf(x) = "error"
  BY <1>2, OpenState, ViewFields DEF StateOf
<1>5. th[t].results = Len(th[t].sent) /\ Len(th[t].sent) < Len(Batch(t))
  <2>1. CASE th[t].pc \in Taking
    <3>1. /\ Len(Batch(t)) > 0 /\ 1 <= th[t].start /\ th[t].start <= th[t].i /\ th[t].i <= End(t)
          /\ Len(th[t].sent) = th[t].start - 1 /\ th[t].results = th[t].start - 1
      BY <2>1 DEF BatchInv, Progress
    <3>2. /\ th[t].start \in Nat /\ th[t].i \in Nat /\ End(t) \in Int
          /\ End(t) <= Len(Batch(t)) /\ Len(Batch(t)) \in Nat
      BY <1>1, <3>1, Typed, EndFact
    <3> QED BY <3>1, <3>2
  <2>2. CASE th[t].pc = "resolve" /\ ~Resolved(t)
    <3>1. Len(th[t].sent) = 0 /\ th[t].results = 0
      BY <2>2 DEF BatchInv, Progress
    <3>2. Len(Batch(t)) \in Nat /\ Len(Batch(t)) # 0
      BY <1>1, <2>2, Typed DEF Resolved
    <3> QED BY <3>1, <3>2
  <2> QED BY <2>1, <2>2
<1>6. View(x) = [View(th[t]) EXCEPT !.state = "error"]
  BY <1>2, <1>4 DEF View
<1>7. Contract!Settled(t)
  BY <1>3, <1>4, <1>5, ViewFields DEF Contract!Settled
<1>8. Len(Calls[t].sent) < Contract!Size(t)
  BY <1>3, <1>5, ViewFields DEF Contract!Size, Batch
<1>9. Calls' = [Calls EXCEPT ![t].state = "error"]
  BY <1>3, <1>6
<1> QED BY <1>7, <1>8, <1>9 DEF Contract!Fail

\* A sub-batch is what the contract sends next.
LEMMA SubBatchSends ==
    ASSUME BatchInv, NEW t \in Threads, MultiPerform(t)
    PROVE  Contract!Send(t)
<1> DEFINE n == End(t) - th[t].start + 1
           more == th[t].sent \o [k \in 1..n |-> th[t].start + k - 1]
           x == [th[t] EXCEPT !.sent = more, !.i = th[t].start, !.pc = "record"]
<1>1. /\ ThreadsOK /\ th[t] \in Locals /\ th[t].pc = "multi" /\ th' = [th EXCEPT ![t] = x]
  BY Typed DEF BatchInv, MultiPerform, At
<1>2. /\ Resolved(t) /\ Len(Batch(t)) > 0 /\ 1 <= th[t].start /\ th[t].start <= End(t)
      /\ Len(th[t].sent) = th[t].start - 1 /\ th[t].results = th[t].start - 1
  BY <1>1 DEF BatchInv, Progress
<1>3. /\ th[t].start \in Nat /\ End(t) \in Int /\ End(t) <= Len(Batch(t))
      /\ Len(Batch(t)) \in Nat /\ th[t].sent \in Seq(Nat) /\ MaxConcurrent(t) \in Nat
  BY <1>1, <1>2, Typed, EndFact
<1>4. more = Contract!First(End(t))
  BY <1>1, SentFirst DEF Contract!First
<1> HIDE DEF more
<1>5. /\ x.pc = "record" /\ x.batch = th[t].batch /\ x.results = th[t].results
      /\ x.sent = more
  BY <1>1 DEF Locals
<1> HIDE DEF x
<1>6. Calls[t] = View(th[t]) /\ Calls' = [Calls EXCEPT ![t] = View(x)]
  BY <1>1, CallsStep
<1>7. View(th[t]).state = "open" /\ StateOf(x) = "open"
  BY <1>1, <1>5, OpenState, ViewFields DEF Recording
<1>8. View(x) = [View(th[t]) EXCEPT !.sent = Contract!First(End(t))]
  BY <1>4, <1>5, <1>7 DEF View
<1>9. Contract!Size(t) = Len(Batch(t)) /\ Contract!Together(t) = MaxConcurrent(t)
  BY <1>6, ViewFields DEF Contract!Size, Contract!Together, MaxConcurrent, Batch
<1>10. End(t) = Contract!Least(Len(Calls[t].sent) + Contract!Together(t), Contract!Size(t))
  <2>1. Len(Calls[t].sent) = th[t].start - 1
    BY <1>2, <1>6, ViewFields
  <2>2. NextStart(t) - 1 = (th[t].start - 1) + MaxConcurrent(t)
    BY <1>3 DEF NextStart
  <2> QED BY <1>9, <2>1, <2>2 DEF End, Contract!Least
<1>11. Contract!Settled(t) /\ Len(Calls[t].sent) < Contract!Size(t)
  <2>1. Calls[t].answered = th[t].start - 1 /\ Len(Calls[t].sent) = th[t].start - 1
    BY <1>2, <1>6, ViewFields
  <2>2. th[t].start - 1 < Len(Batch(t))
    BY <1>2, <1>3
  <2> QED BY <1>6, <1>7, <1>9, <2>1, <2>2 DEF Contract!Settled
<1>12. \A k \in 1..Contract!Size(t) : Calls[t].batch[k].resolves
  BY <1>2, <1>6, <1>9, ViewFields DEF Resolved, Batch
<1>13. Calls' = [Calls EXCEPT ![t].sent = Contract!First(Contract!Least(Len(Calls[t].sent) + Contract!Together(t), Contract!Size(t)))]
  BY <1>6, <1>8, <1>10
<1> QED BY <1>11, <1>12, <1>13 DEF Contract!Send

\* A result is an answer, and the last one ends the call.
LEMMA ResultAnswers ==
    ASSUME BatchInv, NEW t \in Threads, WriteResult(t)
    PROVE  Contract!Answer(t)
<1> DEFINE j == IF More(t) THEN th[t].i + 1 ELSE NextStart(t)
           first == IF More(t) THEN th[t].start ELSE NextStart(t)
           label == IF More(t) THEN "record"
                    ELSE IF NextStart(t) <= Len(Batch(t)) THEN "global" ELSE "done"
           x == [th[t] EXCEPT !.results = th[t].results + 1, !.i = j, !.start = first, !.pc = label]
<1>1. /\ ThreadsOK /\ th[t] \in Locals /\ th[t].pc \in Recording /\ th' = [th EXCEPT ![t] = x]
  BY Typed DEF BatchInv, WriteResult, At, Recording
<1>2. /\ Len(Batch(t)) > 0 /\ 1 <= th[t].start /\ th[t].start <= th[t].i /\ th[t].i <= End(t)
      /\ Len(th[t].sent) = End(t) /\ th[t].results = th[t].i - 1
  BY <1>1 DEF BatchInv, Progress
<1>3. /\ th[t].i \in Nat /\ End(t) \in Int /\ Len(Batch(t)) \in Nat /\ NextStart(t) \in Nat
      /\ End(t) <= Len(Batch(t)) /\ End(t) < NextStart(t)
      /\ ~(NextStart(t) <= Len(Batch(t))) => End(t) = Len(Batch(t))
  BY <1>1, <1>2, Typed, EndFact
<1>4. /\ label = "done" <=> th[t].i = Len(Batch(t))
      /\ label # "done" => label \in Taking \cup Recording
  BY <1>2, <1>3 DEF More, Taking, Recording
<1> HIDE DEF j, first, label
<1>5. /\ x.pc = label /\ x.batch = th[t].batch /\ x.results = th[t].results + 1
      /\ x.sent = th[t].sent
  BY <1>1 DEF Locals
<1> HIDE DEF x
<1>6. Calls[t] = View(th[t]) /\ Calls' = [Calls EXCEPT ![t] = View(x)]
  BY <1>1, CallsStep
<1>7. View(th[t]).state = "open"
  BY <1>1, OpenState, ViewFields
<1>8. StateOf(x) = IF th[t].i = Len(Batch(t)) THEN "ok" ELSE "open"
  <2>1. CASE label = "done"
    BY <1>4, <1>5, <2>1 DEF StateOf
  <2>2. CASE label # "done"
    BY <1>4, <1>5, <2>2, OpenState
  <2> QED BY <2>1, <2>2
<1>9. th[t].results + 1 = th[t].i
  BY <1>2, <1>3
<1>10. /\ Calls[t].state = "open" /\ Calls[t].answered = th[t].results
       /\ Len(Calls[t].sent) = End(t) /\ Contract!Size(t) = Len(Batch(t))
  BY <1>2, <1>6, <1>7, ViewFields DEF Contract!Size, Batch
<1>11. Calls[t].answered < Len(Calls[t].sent)
  BY <1>2, <1>3, <1>10
<1>12. View(x) = [View(th[t]) EXCEPT !.answered = th[t].results + 1, !.state = StateOf(x)]
  <2>1. View(x) = [state |-> StateOf(x), batch |-> th[t].batch, sent |-> th[t].sent,
                   answered |-> th[t].results + 1]
    BY <1>5 DEF View
  <2>2. View(th[t]) = [state |-> StateOf(th[t]), batch |-> th[t].batch, sent |-> th[t].sent,
                       answered |-> th[t].results]
    BY DEF View
  <2> DEFINE v == View(th[t])
             c == th[t].results + 1
             r == StateOf(x)
             old == StateOf(th[t])
             b == th[t].batch
             n == th[t].sent
             a == th[t].results
  <2>3. v = [state |-> old, batch |-> b, sent |-> n, answered |-> a]
    BY <2>2
  <2>4. View(x) = [state |-> r, batch |-> b, sent |-> n, answered |-> c]
    BY <2>1
  <2> HIDE DEF v, c, r, old, b, n, a
  <2>5. [v EXCEPT !.answered = c, !.state = r]
          = [state |-> r, batch |-> b, sent |-> n, answered |-> c]
    <3> DEFINE R == [state : {old, r}, batch : {b}, sent : {n}, answered : {a, c}]
               z == [v EXCEPT !.answered = c, !.state = r]
    <3>1. v \in R
      BY <2>3
    <3>2. z \in R /\ z.state = r /\ z.batch = b /\ z.sent = n /\ z.answered = c
      BY <2>3, <3>1
    <3> HIDE DEF z
    <3>3. z = [state |-> z.state, batch |-> z.batch, sent |-> z.sent, answered |-> z.answered]
      BY <3>2
    <3>4. z = [state |-> r, batch |-> b, sent |-> n, answered |-> c]
      BY <3>2, <3>3
    <3> QED BY <3>4 DEF z
  <2>6. View(x) = [v EXCEPT !.answered = c, !.state = r]
    BY <2>4, <2>5
  <2> QED BY <2>6 DEF v, c, r
<1>13. Calls' = [Calls EXCEPT ![t].answered = Calls[t].answered + 1,
                              ![t].state = IF Calls[t].answered + 1 = Contract!Size(t)
                                           THEN "ok" ELSE "open"]
  BY <1>6, <1>8, <1>9, <1>10, <1>12
<1> QED BY <1>10, <1>11, <1>13 DEF Contract!Answer

LEMMA BeginBegins ==
    ASSUME BatchInv, NEW t \in Threads, Begin(t)
    PROVE  Contract!Begin(t)
<1>1. PICK b \in Batches :
        th' = [th EXCEPT ![t] = [Idle(th[t].performed + 1) EXCEPT !.batch = b, !.pc = "resolve"]]
  BY DEF Begin
<1> DEFINE x == [Idle(th[t].performed + 1) EXCEPT !.batch = b, !.pc = "resolve"]
<1>2. x.pc = "resolve" /\ x.batch = b /\ x.sent = <<>> /\ x.results = 0
  BY DEF Idle
<1> HIDE DEF x
<1>3. th' = [th EXCEPT ![t] = x] /\ ThreadsOK
  BY <1>1 DEF x, BatchInv
<1>4. Calls[t] = View(th[t]) /\ Calls' = [Calls EXCEPT ![t] = View(x)]
  BY <1>3, CallsStep
<1>5. View(th[t]).state = "none"
  BY ViewFields DEF Begin, At, StateOf
<1>6. View(x) = [Contract!NoCall EXCEPT !.state = "open", !.batch = b]
  <2>1. StateOf(x) = "open"
    BY <1>2, OpenState
  <2>2. View(x) = [state |-> "open", batch |-> b, sent |-> <<>>, answered |-> 0]
    BY <1>2, <2>1 DEF View
  <2> QED BY <2>2, NewCall DEF Contract!NoCall
<1> QED BY <1>4, <1>5, <1>6 DEF Contract!Begin

LEMMA FreeFrees ==
    ASSUME BatchInv, NEW t \in Threads, Free(t)
    PROVE  Contract!Free(t)
<1>1. th' = [th EXCEPT ![t] = Idle(th[t].performed)] /\ ThreadsOK
  BY DEF Free, BatchInv
<1>2. Calls[t] = View(th[t]) /\ Calls' = [Calls EXCEPT ![t] = View(Idle(th[t].performed))]
  BY <1>1, CallsStep
<1>3. View(th[t]).state \in {"ok", "error"}
  BY ViewFields DEF Free, StateOf
<1>4. View(Idle(th[t].performed)) = Contract!NoCall
  BY DEF View, StateOf, Idle, Contract!NoCall
<1> QED BY <1>2, <1>3, <1>4 DEF Contract!Free

LEMMA ResolveRefines ==
    ASSUME BatchInv, NEW t \in Threads, Resolve(t)
    PROVE  Contract!Next \/ Calls' = Calls
<1>1. th[t].pc = "resolve" /\ ThreadsOK
  BY DEF Resolve, At, BatchInv
<1>2. CASE ~Resolved(t)
  <2>1. Contract!Fail(t)
    BY <1>1, <1>2, ThrowFails DEF Resolve
  <2> QED BY <2>1 DEF Contract!Next
<1>3. CASE Resolved(t) /\ Batch(t) # <<>>
  <2>1. Goto(t, "global")
    BY <1>3 DEF Resolve
  <2> QED BY <1>1, <2>1, HiddenGoto DEF Taking
<1>4. CASE Resolved(t) /\ Batch(t) = <<>>
  <2> DEFINE x == [th[t] EXCEPT !.pc = "done"]
  <2>1. th' = [th EXCEPT ![t] = x]
    BY <1>4 DEF Resolve, Goto
  <2>2. th[t] \in Locals
    BY <1>1, Typed
  <2>3. /\ x.pc = "done" /\ x.batch = th[t].batch /\ x.results = th[t].results
        /\ x.sent = th[t].sent
    BY <2>2 DEF Locals
  <2> HIDE DEF x
  <2>4. Calls[t] = View(th[t]) /\ Calls' = [Calls EXCEPT ![t] = View(x)]
    BY <1>1, <2>1, CallsStep
  <2>5. th[t].results = 0 /\ Len(th[t].sent) = 0
    BY <1>1 DEF BatchInv, Progress
  <2>6. View(x) = [View(th[t]) EXCEPT !.state = "ok"]
    BY <2>3 DEF View, StateOf
  <2>7. View(th[t]).state = "open"
    BY <1>1, OpenState, ViewFields
  <2>8. Contract!Settled(t) /\ Contract!Size(t) = 0
    BY <1>4, <2>4, <2>5, <2>7, ViewFields DEF Contract!Settled, Contract!Size, Batch
  <2>9. Calls' = [Calls EXCEPT ![t].state = "ok"]
    BY <2>4, <2>6
  <2>10. Contract!Nothing(t)
    BY <2>8, <2>9 DEF Contract!Nothing
  <2> QED BY <2>10 DEF Contract!Next
<1> QED BY <1>2, <1>3, <1>4

LEMMA StatsHidden ==
    ASSUME BatchInv, NEW t \in Threads, Stats(t)
    PROVE  Calls' = Calls
<1>0. ThreadsOK /\ th[t] \in Locals
  BY Typed DEF BatchInv
<1>1. CASE StatsGlobal(t)
  BY <1>0, <1>1, HiddenGoto DEF StatsGlobal, At, Outside
<1>2. CASE StatsSnapshot(t) \/ StatsForEach(t)
  <2>1. th[t].pc \in Outside
    BY <1>2 DEF StatsSnapshot, StatsForEach, At, Outside
  <2>2. th[t].batch = <<>> /\ th[t].results = 0 /\ th[t].sent = [k \in 1..0 |-> k]
    BY <2>1 DEF BatchInv, Progress, Batch
  <2>3. PICK x : /\ th' = [th EXCEPT ![t] = x] /\ x.pc \in Outside
                 /\ x.batch = <<>> /\ x.results = 0 /\ x.sent = <<>>
    <3>1. CASE StatsSnapshot(t)
      <4> DEFINE y == [Idle(th[t].performed + 1) EXCEPT !.ptr = global.id, !.pc = "useStats"]
      <4>1. th' = [th EXCEPT ![t] = y]
        BY <3>1 DEF StatsSnapshot
      <4>2. /\ y.pc \in Outside /\ y.batch = <<>> /\ y.results = 0 /\ y.sent = <<>>
        BY DEF Idle, Outside
      <4> HIDE DEF y
      <4> QED BY <4>1, <4>2
    <3>2. CASE StatsForEach(t)
      <4>1. th' = [th EXCEPT ![t] = Idle(th[t].performed)]
        BY <3>2 DEF StatsForEach
      <4>2. /\ Idle(th[t].performed).pc \in Outside /\ Idle(th[t].performed).batch = <<>>
            /\ Idle(th[t].performed).results = 0 /\ Idle(th[t].performed).sent = <<>>
        BY DEF Idle, Outside
      <4> QED BY <4>1, <4>2
    <3> QED BY <1>2, <3>1, <3>2
  <2>4. StateOf(x) = StateOf(th[t])
    BY <2>1, <2>3 DEF StateOf, Outside
  <2>5. x.sent = th[t].sent
    BY <2>2, <2>3
  <2>6. View(x) = View(th[t])
    BY <2>2, <2>3, <2>4, <2>5, SameView
  <2> QED BY <1>0, <2>3, <2>6, CallsStep
<1> QED BY <1>1, <1>2 DEF Stats

\* Every step of a thread is a step of its call, or one the caller does not see.
LEMMA StepRefines ==
    ASSUME BatchInv, NEW t \in Threads, Begin(t) \/ Perform(t) \/ Free(t) \/ Stats(t)
    PROVE  Contract!Next \/ Calls' = Calls
<1>0. ThreadsOK
  BY DEF BatchInv
<1> USE DEF At, Taking, Recording
<1>1. CASE Begin(t)
  BY <1>1, BeginBegins DEF Contract!Next
<1>2. CASE Free(t)
  BY <1>2, FreeFrees DEF Contract!Next
<1>3. CASE Stats(t)
  BY <1>3, StatsHidden
<1>4. CASE Resolve(t)
  BY <1>4, ResolveRefines
<1>5. CASE GlobalLimiter(t)
  <2>1. th[t].pc = "global" /\ th' = [th EXCEPT ![t].ptr = global'.id, ![t].pc = "useGlobal"]
    BY <1>5 DEF GlobalLimiter
  <2> QED BY <1>0, <2>1, HiddenMove
<1>6. CASE NoGlobalLimiter(t) \/ UseGlobal(t)
  <2>1. th[t].pc \in {"global", "useGlobal"} /\ Goto(t, "host")
    BY <1>6 DEF NoGlobalLimiter, UseGlobal
  <2> QED BY <1>0, <2>1, HiddenGoto
<1>7. CASE GlobalSpecThrows(t) \/ HostSpecThrows(t)
  <2>1. th[t].pc \in Taking /\ Throw(t)
    BY <1>7 DEF GlobalSpecThrows, HostSpecThrows
  <2> QED BY <2>1, ThrowFails DEF Contract!Next
<1>8. CASE HostLimiter(t)
  <2>1. th[t].pc = "host" /\ th' = [th EXCEPT ![t].ptr = registry'[1].id, ![t].pc = "useHost"]
    BY <1>8 DEF HostLimiter, GetOrCreate
  <2> QED BY <1>0, <2>1, HiddenMove
<1>9. CASE NoHostLimiter(t) \/ UseHost(t)
  <2>1. th[t].pc \in Taking /\ NextToken(t)
    BY <1>9 DEF NoHostLimiter, UseHost
  <2> QED BY <1>0, <2>1, HiddenToken
<1>10. CASE MultiPerform(t)
  BY <1>10, SubBatchSends DEF Contract!Next
<1>11. CASE RecordLimiter(t)
  <2>1. th[t].pc = "record" /\ th' = [th EXCEPT ![t].ptr = registry'[1].id, ![t].pc = "useRecord"]
    BY <1>11 DEF RecordLimiter, GetOrCreate
  <2> QED BY <1>0, <2>1, HiddenMove
<1>12. CASE UseRecord(t)
  <2>1. th[t].pc = "useRecord" /\ Goto(t, "snapshot")
    BY <1>12 DEF UseRecord
  <2> QED BY <1>0, <2>1, HiddenGoto
<1>13. CASE RecordGlobal(t)
  <2>1. th[t].pc = "snapshot" /\ th' = [th EXCEPT ![t].ptr = global.id, ![t].pc = "useSnapshot"]
    BY <1>13 DEF RecordGlobal, Snapshot
  <2> QED BY <1>0, <2>1, HiddenMove
<1>14. CASE WriteResult(t)
  BY <1>14, ResultAnswers DEF Contract!Next
<1> QED BY <1>1, <1>2, <1>3, <1>4, <1>5, <1>6, <1>7, <1>8, <1>9, <1>10, <1>11, <1>12, <1>13, <1>14
        DEF Perform

\* bh_batch_perform keeps its contract with every caller, however many threads
\* share the limiters and whatever the limiters do to each other: requests go out in
\* order, never more than max_concurrent in the air, each sub-batch after the one
\* ahead is answered and recorded, and a failure strikes only in between.
THEOREM BatchImplementsContract == Spec => ImplementsContract
<1>1. Init => Contract!Init
  BY DEF Init, Calls, View, StateOf, Idle, Contract!Init, Contract!NoCall
<1>2. BatchInv /\ [Next]_vars => [Contract!Next]_Calls
  <2> SUFFICES ASSUME BatchInv, [Next]_vars
               PROVE  Contract!Next \/ Calls' = Calls
    OBVIOUS
  <2>1. CASE Next
    BY <2>1, StepRefines DEF Next
  <2>2. CASE UNCHANGED vars
    BY <2>2 DEF vars, Calls
  <2> QED BY <2>1, <2>2
<1> QED BY <1>1, <1>2, BatchAlways, PTL DEF Spec, ImplementsContract, Contract!Spec
=============================================================================
