-------------------------- MODULE AcquireRateLimit --------------------------
(***************************************************************************)
(* One GCRARateLimiter (include/rate_limiter.hpp) used by any number of    *)
(* threads the way bh_batch_perform and PostChatCompletion use it: each    *)
(* thread takes a token per request (AcquireRateLimit), sends the          *)
(* sub-batch it has tokens for, and records every response, a 429 pushing  *)
(* the limiter's timestamp forward (RecordResponseStats).                  *)
(*                                                                         *)
(* The pool hands out a bare pointer and GCRARateLimiter has no lock, so   *)
(* every read-modify-write of tat_ and of the counters is two steps here:  *)
(* a load into a register of the thread, and a store.  A load reads the    *)
(* clock and the shared field together; a tick between the two would only  *)
(* make the thread's "now" older, as a tick before the load does.          *)
(*                                                                         *)
(* Time is counted in ticks.  Interval and BurstOffset are independent, so *)
(* BurstOffset < Interval is the limiter of a burst below one.             *)
(***************************************************************************)
EXTENDS Integers, Sequences

CONSTANTS
    Threads,       \* the threads that share the limiter
    Interval,      \* interval_ = 1 / rate, in ticks
    BurstOffset,   \* burst_offset_ = interval_ * burst, in ticks
    MaxRetries,    \* max_retries of AcquireRateLimit: 50 in the code
    RetryAfters,   \* the values a Retry-After header may take, in ticks
    MaxCalls,      \* bound: requests each thread makes
    MaxClock       \* bound: ticks that pass with nobody asleep

ASSUME LimiterAssumption ==
    /\ Interval \in Nat /\ Interval > 0
    /\ BurstOffset \in Nat
    /\ MaxRetries \in Nat
    /\ RetryAfters \subseteq Int /\ RetryAfters # {}
    /\ MaxCalls \in Nat
    /\ MaxClock \in Nat

Counters == {"requests", "paced", "responses", "throttled"}

PCs == {"idle", "try", "store", "wait", "sleep", "record",
        "drain", "response", "throttle", "backoff"}

None == -1         \* the counter register holds nothing

VARIABLES
    clock,         \* std::chrono::steady_clock, in ticks
    tat,           \* tat_: the theoretical arrival time
    counters,      \* requests_, paced_, total_responses_, throttled_429_
    pc,            \* where each thread is
    reg,           \* the new TAT a thread has computed and not stored yet
    cnt,           \* the counter value a thread has computed and not stored yet
    todo,          \* the counters a thread has yet to increment
    tries,         \* max_retries, counting down
    slept,         \* paced: the thread has slept in this call
    wake,          \* the instant the thread's sleep_for ends
    inflight,      \* requests of the thread with a token and no response yet
    calls,         \* calls of AcquireRateLimit the thread has made
    grants,        \* history: the instants at which TryAcquire said yes
    bypasses,      \* history: requests that went ahead without a token
    until,         \* history: the latest instant a 429 asked to wait for
    owed           \* history: the sum of every Retry-After received

limiterVars == <<tat, counters>>
callVars == <<reg, cnt, todo, tries, slept, wake, inflight, calls>>
history == <<grants, bypasses, until, owed>>
vars == <<clock, limiterVars, pc, callVars, history>>

TypeOK ==
    /\ clock \in Nat
    /\ tat \in Int
    /\ counters \in [Counters -> Nat]
    /\ pc \in [Threads -> PCs]
    /\ reg \in [Threads -> Int]
    /\ cnt \in [Threads -> Nat \cup {None}]
    /\ todo \in [Threads -> Seq(Counters)]
    /\ tries \in [Threads -> 0..MaxRetries]
    /\ slept \in [Threads -> BOOLEAN]
    /\ wake \in [Threads -> Nat]
    /\ inflight \in [Threads -> Nat]
    /\ calls \in [Threads -> Nat]
    /\ grants \in Seq(Nat)
    /\ bypasses \in Nat
    /\ until \in Int
    /\ owed \in Int

\* A thread recording responses has one left to record, and a counter value in
\* a register belongs to the counter at the head of the list.
Shape ==
    \A t \in Threads :
        /\ pc[t] = "drain" => inflight[t] > 0
        /\ cnt[t] # None => todo[t] # <<>>

-----------------------------------------------------------------------------
(* GCRARateLimiter *)

Later(a, b) == IF a < b THEN b ELSE a

\* The test of TryAcquire: the new TAT would not lie further ahead of now than
\* the burst window.
Allows_Open == Later(tat, clock) - clock <= BurstOffset
Allows == Later(tat, clock) - clock + Interval <= BurstOffset

WaitTime_Never == 0
WaitTime == IF tat - clock > 0 THEN tat - clock ELSE 0

\* The constructor: the TAT of a fresh limiter is now, its counters are zero.
Init ==
    /\ clock = 0
    /\ tat = 0
    /\ counters = [c \in Counters |-> 0]
    /\ pc = [t \in Threads |-> "idle"]
    /\ reg = [t \in Threads |-> 0]
    /\ cnt = [t \in Threads |-> None]
    /\ todo = [t \in Threads |-> <<>>]
    /\ tries = [t \in Threads |-> 0]
    /\ slept = [t \in Threads |-> FALSE]
    /\ wake = [t \in Threads |-> 0]
    /\ inflight = [t \in Threads |-> 0]
    /\ calls = [t \in Threads |-> 0]
    /\ grants = <<>>
    /\ bypasses = 0
    /\ until = 0
    /\ owed = 0

-----------------------------------------------------------------------------
(* AcquireRateLimit *)

Goto(t, label) == pc' = [pc EXCEPT ![t] = label]

Enter(t) ==
    /\ pc[t] = "idle"
    /\ calls[t] < MaxCalls
    /\ calls' = [calls EXCEPT ![t] = @ + 1]
    /\ tries' = [tries EXCEPT ![t] = MaxRetries]
    /\ Goto(t, "try")
    /\ UNCHANGED <<clock, limiterVars, reg, cnt, todo, slept, wake, inflight,
                   history>>

\* TryAcquire up to the assignment of tat_: the token is granted here, and the
\* new TAT is still in the thread's register.
TryAcquire(t) ==
    /\ pc[t] = "try"
    /\ Allows
    /\ reg' = [reg EXCEPT ![t] = Later(tat, clock) + Interval]
    /\ grants' = Append(grants, clock)
    /\ Goto(t, "store")
    /\ UNCHANGED <<clock, limiterVars, cnt, todo, tries, slept, wake, inflight,
                   calls, bypasses, until, owed>>

\* RecordRequest and RecordPacing: the counters a completed call increments.
Record_PerAttempt(t) == IF slept[t] THEN <<"requests", "requests">> ELSE <<"requests">>
Record_PacedOnly(t) == IF slept[t] THEN <<"requests", "paced">> ELSE <<>>
Record(t) == IF slept[t] THEN <<"requests", "paced">> ELSE <<"requests">>

\* The assignment of tat_; TryAcquire returns true and the loop ends.
StoreTat(t) ==
    /\ pc[t] = "store"
    /\ tat' = reg[t]
    /\ reg' = [reg EXCEPT ![t] = 0]
    /\ todo' = [todo EXCEPT ![t] = Record(t)]
    /\ Goto(t, "record")
    /\ UNCHANGED <<clock, counters, cnt, tries, slept, wake, inflight, calls,
                   history>>

\* TryAcquire returns false with an attempt left: max_retries-- > 0.
MayRetry_Always(t) == TRUE
MayRetry(t) == tries[t] > 0

Denied(t) ==
    /\ pc[t] = "try"
    /\ ~Allows
    /\ MayRetry(t)
    /\ tries' = [tries EXCEPT ![t] = @ - 1]
    /\ Goto(t, "wait")
    /\ UNCHANGED <<clock, limiterVars, reg, cnt, todo, slept, wake, inflight,
                   calls, history>>

\* TryAcquire returns false with no attempt left: the loop ends and the
\* request goes ahead without a token.
GiveUp(t) ==
    /\ pc[t] = "try"
    /\ ~Allows
    /\ ~MayRetry(t)
    /\ bypasses' = bypasses + 1
    /\ todo' = [todo EXCEPT ![t] = Record(t)]
    /\ Goto(t, "record")
    /\ UNCHANGED <<clock, limiterVars, reg, cnt, tries, slept, wake, inflight,
                   calls, grants, until, owed>>

\* WaitTime, and the start of sleep_for when it is positive.
Sleep(t) ==
    /\ pc[t] = "wait"
    /\ WaitTime > 0
    /\ slept' = [slept EXCEPT ![t] = TRUE]
    /\ wake' = [wake EXCEPT ![t] = clock + WaitTime]
    /\ Goto(t, "sleep")
    /\ UNCHANGED <<clock, limiterVars, reg, cnt, todo, tries, inflight, calls,
                   history>>

Spin(t) ==
    /\ pc[t] = "wait"
    /\ WaitTime = 0
    /\ Goto(t, "try")
    /\ UNCHANGED <<clock, limiterVars, callVars, history>>

Wake(t) ==
    /\ pc[t] = "sleep"
    /\ clock >= wake[t]
    /\ wake' = [wake EXCEPT ![t] = 0]
    /\ Goto(t, "try")
    /\ UNCHANGED <<clock, limiterVars, reg, cnt, todo, tries, slept, inflight,
                   calls, history>>

\* counter_++ is a load, then a store, of the same field.
CountLoad(t) ==
    /\ todo[t] # <<>>
    /\ cnt[t] = None
    /\ cnt' = [cnt EXCEPT ![t] = counters[Head(todo[t])] + 1]
    /\ UNCHANGED <<clock, limiterVars, pc, reg, todo, tries, slept, wake,
                   inflight, calls, history>>

CountStore(t) ==
    /\ cnt[t] # None
    /\ counters' = [counters EXCEPT ![Head(todo[t])] = cnt[t]]
    /\ cnt' = [cnt EXCEPT ![t] = None]
    /\ todo' = [todo EXCEPT ![t] = Tail(@)]
    /\ UNCHANGED <<clock, tat, pc, reg, tries, slept, wake, inflight, calls,
                   history>>

\* AcquireRateLimit returns, and its locals go out of scope.
Acquired(t) ==
    /\ pc[t] = "record"
    /\ todo[t] = <<>>
    /\ inflight' = [inflight EXCEPT ![t] = @ + 1]
    /\ tries' = [tries EXCEPT ![t] = 0]
    /\ slept' = [slept EXCEPT ![t] = FALSE]
    /\ Goto(t, "idle")
    /\ UNCHANGED <<clock, limiterVars, reg, cnt, todo, wake, calls, history>>

-----------------------------------------------------------------------------
(* The sub-batch and RecordResponseStats *)

\* MultiPerform sends every request the thread holds a token for, and returns
\* when they are all answered.
Perform(t) ==
    /\ pc[t] = "idle"
    /\ inflight[t] > 0
    /\ Goto(t, "drain")
    /\ UNCHANGED <<clock, limiterVars, callVars, history>>

\* RecordResponse counts the response (its sizes, times and errors are left
\* out); a 429 then enters RecordThrottle, which counts it before it touches
\* the TAT.
RecordResponse(t, is429) ==
    /\ pc[t] = "drain"
    /\ inflight' = [inflight EXCEPT ![t] = @ - 1]
    /\ todo' = [todo EXCEPT ![t] =
                    IF is429 THEN <<"responses", "throttled">> ELSE <<"responses">>]
    /\ Goto(t, IF is429 THEN "throttle" ELSE "response")
    /\ UNCHANGED <<clock, limiterVars, reg, cnt, tries, slept, wake, calls,
                   history>>

\* RecordThrottle up to the assignment of tat_.
BackedOff_FromNow(retryAfter) == clock + retryAfter
BackedOff(retryAfter) == Later(tat, clock) + retryAfter

RecordThrottle(t, retryAfter) ==
    /\ pc[t] = "throttle"
    /\ todo[t] = <<>>
    /\ reg' = [reg EXCEPT ![t] = BackedOff(retryAfter)]
    /\ until' = Later(until, clock + retryAfter)
    /\ owed' = owed + retryAfter
    /\ Goto(t, "backoff")
    /\ UNCHANGED <<clock, limiterVars, cnt, todo, tries, slept, wake, inflight,
                   calls, grants, bypasses>>

\* Where the loop over the sub-batch's responses goes next.
NextResponse(t) == IF inflight[t] = 0 THEN "idle" ELSE "drain"

StoreBackoff(t) ==
    /\ pc[t] = "backoff"
    /\ tat' = reg[t]
    /\ reg' = [reg EXCEPT ![t] = 0]
    /\ Goto(t, NextResponse(t))
    /\ UNCHANGED <<clock, counters, cnt, todo, tries, slept, wake, inflight,
                   calls, history>>

Responded(t) ==
    /\ pc[t] = "response"
    /\ todo[t] = <<>>
    /\ Goto(t, NextResponse(t))
    /\ UNCHANGED <<clock, limiterVars, callVars, history>>

-----------------------------------------------------------------------------
\* Time passes freely up to MaxClock, and past it as long as a thread sleeps.
Tick ==
    /\ clock < MaxClock \/ \E t \in Threads : pc[t] = "sleep" /\ clock < wake[t]
    /\ clock' = clock + 1
    /\ UNCHANGED <<limiterVars, pc, callVars, history>>

Acquire(t) ==
    \/ TryAcquire(t) \/ StoreTat(t) \/ Denied(t) \/ GiveUp(t)
    \/ Sleep(t) \/ Spin(t) \/ Wake(t)
    \/ CountLoad(t) \/ CountStore(t) \/ Acquired(t)

Respond(t) ==
    \/ \E is429 \in BOOLEAN : RecordResponse(t, is429)
    \/ \E r \in RetryAfters : RecordThrottle(t, r)
    \/ StoreBackoff(t) \/ Responded(t)

Step(t) == Enter(t) \/ Acquire(t) \/ Perform(t) \/ Respond(t)

Next == Tick \/ \E t \in Threads : Step(t)

Spec == Init /\ [][Next]_vars

-----------------------------------------------------------------------------
(* What one thread is promised *)

Contract == INSTANCE RateContract WITH blocked <- until

\* With one thread the single timestamp of GCRARateLimiter implements the
\* contract over the whole grant history, 429 back-offs included: no run of
\* grants of TryAcquire is too short, and none comes earlier in a back-off than
\* the burst window, less one interval, before its end.  (The back-off moves the
\* TAT to its end, and TryAcquire lets the burst window be used ahead of the TAT.)
ImplementsContract == Contract!Spec

\* A lone caller, with a burst of at least one, is denied at most once per call:
\* WaitTime sleeps until the TAT has drained, so the attempt after a sleep of
\* AcquireRateLimit succeeds and its 50 attempts are never used up.
OneRetryEnough ==
    \A t \in Threads :
        pc[t] \in {"try", "wait", "sleep"} => tries[t] >= MaxRetries - 1

Quiet == \A t \in Threads : pc[t] = "idle" /\ inflight[t] = 0

\* Between sub-batches the counters bh_rate_limit_stats_json reports agree with
\* what happened: one request per token or give-up, one response per request.
StatsExact ==
    Quiet => /\ counters["requests"] = Len(grants) + bypasses
             /\ counters["responses"] = counters["requests"]

-----------------------------------------------------------------------------
(* What holds for any number of threads *)

\* However the threads interleave, the limiter never owes more delay than one
\* burst window plus every Retry-After received: no sleep of AcquireRateLimit
\* is longer than that.
BacklogBounded == tat - clock <= BurstOffset + owed

\* The counters bh_rate_limit_stats_json reports only ever lose: increments that
\* threads make together may overwrite each other, and a late store may take many
\* away, but none is counted for a request that was not let through.
StatsNeverInvented == \A c \in Counters : counters[c] <= Len(grants) + bypasses

\* A limiter with a burst below one never grants, and the delay a call may sleep
\* for is at most what the Retry-Afters of earlier answers add up to; without a
\* 429 it is zero.  Every request uses up the 50 attempts and goes out all the same.
BelowOneUnpaced == BurstOffset < Interval => grants = <<>> /\ tat - clock <= owed

\* The steps a thread has left until AcquireRateLimit returns, or the responses
\* of its sub-batch are recorded.
ToCount(t) == 2 * Len(todo[t]) - (IF cnt[t] = None THEN 0 ELSE 1)
StepsLeft(t) ==
    CASE pc[t] = "idle"     -> 0
      [] pc[t] = "try"      -> 7 + 3 * tries[t]
      [] pc[t] = "sleep"    -> 8 + 3 * tries[t]
      [] pc[t] = "wait"     -> 9 + 3 * tries[t]
      [] pc[t] = "store"    -> 6
      [] pc[t] = "record"   -> 1 + ToCount(t)
      [] pc[t] = "drain"    -> 8 * inflight[t]
      [] pc[t] = "response" -> 8 * inflight[t] + 1 + ToCount(t)
      [] pc[t] = "throttle" -> 8 * inflight[t] + 3 + ToCount(t)
      [] pc[t] = "backoff"  -> 8 * inflight[t] + 2

\* Whatever the other threads do to the limiter, and whenever they do it, each
\* step of a thread brings its call nearer to its end: it may be denied, and sleep,
\* but nobody keeps it in the loop of AcquireRateLimit.
CallsBounded ==
    [][ \A t \in Threads : pc[t] # "idle" =>
          \/ UNCHANGED <<pc[t], cnt[t]>>
          \/ StepsLeft(t)' \in 0..(StepsLeft(t) - 1) ]_vars

-----------------------------------------------------------------------------
(* What the documentation says and the code does not do *)

\* docs/design-notes-http-layering.md:139 and include/blobhttp.h:26: the shared
\* limiter is synchronised, so its grants conform to the rate whoever asks.
GrantsConform ==
    \A j \in 1..Len(grants) : \A i \in 1..j :
        grants[j] - grants[i] >= (j - i + 1) * Interval - BurstOffset
=============================================================================
