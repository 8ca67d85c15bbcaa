------------------------------ MODULE WireRate ------------------------------
(***************************************************************************)
(* AcquireRateLimit with a history of what reaches the wire: MultiPerform  *)
(* sends a sub-batch at one instant, however its tokens were spread.       *)
(***************************************************************************)
EXTENDS AcquireRateLimit

VARIABLE sends     \* when each sub-batch was sent, and the requests sent by then

WireVars == <<vars, sends>>

WireInit == Init /\ sends = <<>>

\* A request goes out whether it has a token or gave up: with one thread, what
\* AcquireRateLimit has let through either way and is not sent yet is what this
\* sub-batch sends.
Send(t) ==
    /\ Perform(t)
    /\ sends' = Append(sends, [at |-> clock, upto |-> Len(grants) + bypasses])

WireNext ==
    \/ \E t \in Threads : Send(t)
    \/ /\ Tick \/ \E t \in Threads : Enter(t) \/ Acquire(t) \/ Respond(t)
       /\ UNCHANGED sends

WireSpec == WireInit /\ [][WireNext]_WireVars

\* A lone thread's sub-batch may put more than a burst on the wire at once; but
\* from one sub-batch of bh_batch_perform to any later one, the requests sent in
\* between, the later one's included, fit the rate and the burst, if the burst is
\* at least one: below one, every request gives up and goes out unpaced.
WireConforms ==
    \A j \in 1..Len(sends) : \A i \in 1..(j - 1) :
        sends[j].at - sends[i].at
            >= (sends[j].upto - sends[i].upto) * Interval - BurstOffset
=============================================================================
