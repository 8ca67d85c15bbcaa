--------------------------- MODULE MCBatchPerform ---------------------------
(***************************************************************************)
(* BatchPerform on small sets of batches.  A request is written Req(host,  *)
(* rate, global rate, max_concurrent).                                     *)
(***************************************************************************)
EXTENDS BatchPerform, TLC

Req(h, s, g, c) == [host |-> h, spec |-> s, gspec |-> g, conc |-> c, resolves |-> TRUE]
Unresolvable(h) == [host |-> h, spec |-> "5/s", gspec |-> "", conc |-> 2, resolves |-> FALSE]

\* Threads that agree on the rate of each host and on the global rate: several
\* sub-batches, a partial last one, a max_concurrent of zero, and errors of every
\* kind at the first request and later.
Agreeing ==
    { <<>>,
      <<Req("h1", "5/s", "g1", 2), Req("h2", "9/s", "", 1), Req("h1", "5/s", "g1", 2)>>,
      <<Req("h2", "9/s", "g1", 0), Req("h1", "5/s", "", 3)>>,
      <<Req("h3", "none", "g1", 2), Unresolvable("h1")>>,
      <<Req("h1", "5/s", "", 1), Req("h1", "bad", "g1", 1)>>,
      <<Req("h3", "20/s", "", 2)>>,
      <<Req("h3", "none", "", 1), Req("h2", "9/s", "bad", 2)>> }

ASSUME AgreeingAgree ==
    /\ OneGlobal(Agreeing, "g1")
    /\ OneRate(Agreeing, ("h1" :> "5/s") @@ ("h2" :> "9/s") @@ ("h3" :> Default))

\* More hosts than a registry of one holds.
TwoHosts == { <<Req("h1", "5/s", "", 1)>>, <<Req("h2", "5/s", "", 1)>> }

\* One host more than a registry of two holds, in one sub-batch, and one of them
\* again in the next.
OneTooMany ==
    { <<Req("h1", "5/s", "", 3), Req("h2", "5/s", "", 3), Req("h3", "5/s", "", 3),
        Req("h3", "5/s", "", 3)>> }
=============================================================================
