---------------------------- MODULE BatchContract ----------------------------
(***************************************************************************)
(* What bh_batch_perform promises its callers, whatever limiters pace the  *)
(* requests: they go out in the order they were added, in sub-batches of   *)
(* the first request's max_concurrent, and a sub-batch only when every     *)
(* request before it is answered and recorded.  A call that fails does so  *)
(* between sub-batches, with nothing in the air.                           *)
(***************************************************************************)
EXTENDS Integers, Sequences

CONSTANTS
    Threads,      \* the callers
    Batches       \* what they may ask for: sequences of requests

VARIABLE call     \* each caller's call: its batch, what was sent, how many answered

NoCall == [state |-> "none", batch |-> <<>>, sent |-> <<>>, answered |-> 0]

Init == call = [t \in Threads |-> NoCall]

Size(t) == Len(call[t].batch)

\* All that was sent has been answered.
Settled(t) == call[t].state = "open" /\ call[t].answered = Len(call[t].sent)

Begin(t) ==
    /\ call[t].state = "none"
    /\ \E b \in Batches : call' = [call EXCEPT ![t] = [NoCall EXCEPT !.state = "open", !.batch = b]]

\* The next requests, as many as may be in the air together.
Least(a, b) == IF a < b THEN a ELSE b
Together(t) == IF call[t].batch[1].conc < 1 THEN 1 ELSE call[t].batch[1].conc

\* The first n requests, in the order they were added.
First(n) == [k \in 1..n |-> k]

Send(t) ==
    /\ Settled(t)
    /\ Len(call[t].sent) < Size(t)
    /\ \A k \in 1..Size(t) : call[t].batch[k].resolves
    /\ call' = [call EXCEPT ![t].sent = First(Least(Len(call[t].sent) + Together(t), Size(t)))]

Answer(t) ==
    /\ call[t].state = "open"
    /\ call[t].answered < Len(call[t].sent)
    /\ call' = [call EXCEPT ![t].answered = call[t].answered + 1,
                            ![t].state = IF call[t].answered + 1 = Size(t) THEN "ok" ELSE "open"]

\* An empty batch is complete at once.
Nothing(t) ==
    /\ Settled(t)
    /\ Size(t) = 0
    /\ call' = [call EXCEPT ![t].state = "ok"]

Fail(t) ==
    /\ Settled(t)
    /\ Len(call[t].sent) < Size(t)
    /\ call' = [call EXCEPT ![t].state = "error"]

Free(t) ==
    /\ call[t].state \in {"ok", "error"}
    /\ call' = [call EXCEPT ![t] = NoCall]

Next == \E t \in Threads : Begin(t) \/ Send(t) \/ Answer(t) \/ Nothing(t) \/ Fail(t) \/ Free(t)

Spec == Init /\ [][Next]_call
=============================================================================
