---------------------------- MODULE RateContract ----------------------------
(***************************************************************************)
(* What a rate limiter promises to the server behind it, without saying    *)
(* how: any run of k consecutive grants spans at least k * Interval -      *)
(* BurstOffset ticks, and after a 429 nothing is granted until the burst   *)
(* window, less one interval, before the end of the back-off it asked for. *)
(* A limiter does not wait for that end: a back-off no longer than the     *)
(* window less one interval denies nothing by itself.  The whole grant     *)
(* history is the state here; the implementation                           *)
(* (include/rate_limiter.hpp) keeps one timestamp.  AcquireRateLimit is    *)
(* shown to implement this specification.                                  *)
(***************************************************************************)
EXTENDS Integers, Sequences

CONSTANTS
    Interval,      \* ticks between two requests at the configured rate (interval_)
    BurstOffset    \* the burst window in ticks (burst_offset_)

VARIABLES
    clock,         \* the time, in ticks
    grants,        \* the instants at which a request was let through, in order
    blocked        \* the latest instant a 429 asked the client to stay away until

vars == <<clock, grants, blocked>>

\* k consecutive requests may not fit in less than this many ticks.
Span(k) == k * Interval - BurstOffset

\* A request at instant t leaves every run of grants that ends with it long
\* enough, the run made of that request alone included; and it comes no earlier
\* than the burst window, less one interval, before the end of the back-off.
Admissible(t) ==
    /\ Span(1) <= 0
    /\ \A i \in 1..Len(grants) : t - grants[i] >= Span(Len(grants) - i + 2)
    /\ t >= blocked + Span(1)

Init ==
    /\ clock = 0
    /\ grants = <<>>
    /\ blocked = 0

Tick ==
    /\ clock' = clock + 1
    /\ UNCHANGED <<grants, blocked>>

Admit ==
    /\ Admissible(clock)
    /\ grants' = Append(grants, clock)
    /\ UNCHANGED <<clock, blocked>>

BackOff ==
    /\ blocked' \in Nat
    /\ blocked' > blocked
    /\ UNCHANGED <<clock, grants>>

Next == Tick \/ Admit \/ BackOff

Spec == Init /\ [][Next]_vars
=============================================================================
