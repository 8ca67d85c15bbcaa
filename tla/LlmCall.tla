------------------------------ MODULE LlmCall ------------------------------
(***************************************************************************)
(* The functions that hand back a string of the core: chat completion,     *)
(* adapter prompts, SSO tokens, Negotiate headers and limiter statistics,  *)
(* as DuckDB, SQLite and Python offer them.  DuckDB calls a function with  *)
(* a chunk of rows, SQLite once per row until a row fails, Python once.    *)
(* Each row is one call of the C ABI, whose answer is a malloc'd string,   *)
(* or NULL and a message in bh_errmsg.                                     *)
(*                                                                         *)
(* A row is what its arguments are like:                                   *)
(*   "good"    accepted all the way down                                   *)
(*   "shaped"  good, with a response_jmespath (adapters only)              *)
(*   "null"    the first argument is NULL, None in Python                  *)
(*   "empty"   the first argument is the empty text                        *)
(*   "bad"     a JSON argument that does not parse; SQLite's adapter gives *)
(*             its own to the template engine, which renders nothing then  *)
(*   "absent"  no adapter of that name, no template, nothing rendered      *)
(*   "column"  an adapter whose schema or jmespath column is NULL          *)
(***************************************************************************)
EXTENDS LlmLoop

CONSTANT Batches     \* what may be called: a host, an operation and its rows

ASSUME CallAssumption == \A c \in Batches : c.rows \in Seq(STRING)

VARIABLE host        \* the call in progress, see CallInit

callVars == <<vars, host>>

None == [row |-> 0, what |-> ""]                 \* an empty bh_errmsg
Message(n, what) == [row |-> n, what |-> what]

Op == host.call.op
Row == host.call.rows[host.row]
Completes == Op \in {"complete", "adapt"}

CallInit ==
    /\ Init
    /\ host \in [call : Batches, at : {"idle"}, row : {1}, buffer : {FALSE},
                 errmsg : {None}, reported : {None}, cause : {""},
                 written : {<<>>}, entered : {<<>>}]

\* A step of the host or of a wrapper, outside LlmCompleteLoop.
Host(next) == host' = next /\ UNCHANGED vars

-----------------------------------------------------------------------------
(* The hosts *)

\* A call; bh_errmsg is whatever the thread's last call left there.
Invoke ==
    /\ host.at \in {"idle", "done", "error"}
    /\ \E c \in Batches :
           Host([host EXCEPT !.call = c, !.at = IF c.rows = <<>> THEN "done" ELSE "row",
                             !.row = 1, !.reported = None, !.cause = "",
                             !.written = <<>>, !.entered = <<>>])

\* What each host refuses before it calls the core.
Refused ==
    {<<"duckdb", "complete", "bad">>, <<"duckdb", "adapt", "null">>,
     <<"duckdb", "sso", "null">>, <<"duckdb", "token", "null">>,
     <<"sqlite", "complete", "bad">>,
     <<"sqlite", "adapt", "null">>, <<"sqlite", "adapt", "empty">>,
     <<"sqlite", "adapt", "bad">>,
     <<"sqlite", "adapt", "absent">>, <<"sqlite", "adapt", "column">>,
     <<"sqlite", "sso", "null">>, <<"sqlite", "sso", "empty">>,
     <<"sqlite", "token", "null">>, <<"sqlite", "token", "empty">>,
     <<"python", "complete", "bad">>}

IsRefused(n) == <<host.call.host, Op, host.call.rows[n]>> \in Refused

\* llm_complete of SQLite with no URL: the result is NULL.
IsNull(n) ==
    /\ host.call.host = "sqlite" /\ Op = "complete"
    /\ host.call.rows[n] \in {"null", "empty"}

\* A row is written, and the next one begins.
Wrote(value) ==
    [host EXCEPT !.written = Append(@, value), !.buffer = FALSE, !.row = @ + 1,
                 !.at = IF host.row = Len(host.call.rows) THEN "done" ELSE "row"]

WriteNull ==
    /\ host.at = "row"
    /\ IsNull(host.row)
    /\ Host(Wrote([schema |-> FALSE, json |-> FALSE]))

\* The statement ends with the message: no later row is looked at.  The string
\* of the core, if there is one, goes out of scope.
Report_GoOn(message) ==
    [Wrote([schema |-> FALSE, json |-> FALSE]) EXCEPT !.reported = message]
Report_Leak(message) == [host EXCEPT !.reported = message, !.at = "error"]
Report(message) == [host EXCEPT !.reported = message, !.buffer = FALSE, !.at = "error"]

Refuse ==
    /\ host.at = "row"
    /\ IsRefused(host.row)
    /\ Host([Report(Message(host.row, "refused")) EXCEPT !.cause = "refused"])

\* Into the core, which clears the message first.
Enter ==
    /\ host.at = "row"
    /\ ~IsRefused(host.row) /\ ~IsNull(host.row)
    /\ Host([host EXCEPT !.at = "core", !.errmsg = None, !.entered = Append(@, host.row)])

\* The core returned NULL: the host reports bh_errmsg.
Failed ==
    /\ host.at = "failed"
    /\ Host(Report(host.errmsg))

\* The access_token of the provider's answer is taken out of it by the host.
UnpackFails ==
    /\ host.at = "result"
    /\ Op = "token"
    /\ Host([Report(Message(host.row, "unpack")) EXCEPT !.cause = "unpack"])

Write ==
    /\ host.at = "result"
    /\ Host(Wrote([schema |-> Completes /\ useSchema, json |-> Completes /\ json]))

-----------------------------------------------------------------------------
(* The C ABI *)

\* What bh_llm_complete, bh_llm_adapt, bh_sso_jwt and bh_negotiate_auth_header
\* find wrong with their argument before anything is sent.  Limiter statistics
\* take no argument.  DuckDB's Negotiate functions do not look whether a row is
\* NULL and hand on whatever its slot holds, which may be good or not.
BadArgument ==
    /\ Op # "stats"
    /\ <<host.call.host, Op, Row>> # <<"duckdb", "negotiate", "null">>
    /\ Row \in {"null", "empty"} \/ (Row \in {"bad", "column"} /\ Op # "negotiate")

SetError_Silent(what) == [host EXCEPT !.cause = what, !.at = "failed"]
SetError(what) ==
    [host EXCEPT !.errmsg = Message(host.row, what), !.cause = what, !.at = "failed"]

\* A wrong argument; a configuration, a ticket, a provider or a Vault that does
\* not deliver; no memory for the answer.
CoreFails ==
    /\ host.at = "core"
    /\ Host(SetError("core"))

\* The answer is copied out: DupString.
Dup == [host EXCEPT !.buffer = TRUE, !.at = "result"]

CoreReturns ==
    /\ host.at = "core"
    /\ ~Completes /\ ~BadArgument
    /\ Host(Dup)

StartLoop ==
    /\ host.at = "core"
    /\ Completes /\ ~BadArgument
    /\ Call
    /\ host' = [host EXCEPT !.at = "loop"]

InLoop ==
    /\ host.at = "loop"
    /\ Loop
    /\ UNCHANGED host

LoopFails ==
    /\ host.at = "loop"
    /\ pc \in Outcomes \ {"returned"}
    /\ Host(SetError("loop"))

\* The answer came and is not delivered: it is not JSON and there is a
\* response_jmespath, the expression is wrong, there is no memory.
AnswerLost ==
    /\ host.at = "loop"
    /\ pc = "returned"
    /\ Host(SetError("answer"))

\* bh_llm_adapt reshapes the answer, which has to be JSON for that; its data is
\* JSON if the answer is, and a string otherwise.
AnswerReturns ==
    /\ host.at = "loop"
    /\ pc = "returned"
    /\ Row = "shaped" => json
    /\ Host(Dup)

CallStep ==
    \/ Refuse \/ WriteNull \/ Enter \/ Failed \/ UnpackFails \/ Write
    \/ CoreFails \/ CoreReturns \/ StartLoop \/ InLoop
    \/ LoopFails \/ AnswerLost \/ AnswerReturns

CallNext == Invoke \/ CallStep

\* The thread that made the call is scheduled, and every POST is answered or
\* times out; nobody has to make another call.
CallSpec == CallInit /\ [][CallNext]_callVars /\ WF_callVars(CallStep)

-----------------------------------------------------------------------------
(* Properties *)

\* Every call returns to its host, whatever the model and the validator answer:
\* the two loops of LlmCompleteLoop always end, and so do the rows.
CallReturns == (host.at = "row") ~> (host.at \in {"done", "error"})

\* The steps a call has left at most, its rows' loops included.
RowSteps == AtLeast(MaxRetries, 1) * AttemptSteps + 6
StepsLeft ==
    LET later == (Len(host.call.rows) - host.row) * RowSteps
    IN  CASE host.at = "row"                -> later + RowSteps
          [] host.at = "core"               -> later + RowSteps - 1
          [] host.at = "loop"               -> later + LoopLeft + 2
          [] host.at \in {"result", "failed"} -> later + 1
          [] OTHER                          -> 0

\* Whatever the model answers and the validator says of it, each step brings the
\* call nearer to its end: a call of n rows never takes more than n * RowSteps.
CallProgress ==
    [][host.at \notin {"idle", "done", "error"} => StepsLeft' \in 0..(StepsLeft - 1)]_callVars

\* The row in error, or the last one.
LastRow == IF host.at = "error" THEN host.row ELSE Len(host.call.rows)

\* Up to the row that fails, every row is written once and in order, and enters
\* the core once, unless its host answers it alone; after it, none does, so that a
\* statement that has failed pays for no further completion.
RowsStopAtError ==
    host.at = "done" \/ host.reported # None =>
        /\ host.at = (IF host.reported = None THEN "done" ELSE "error")
        /\ Len(host.written) = (IF host.at = "error" THEN LastRow - 1 ELSE LastRow)
        /\ \A i, j \in 1..Len(host.entered) : i < j => host.entered[i] < host.entered[j]
        /\ \A n \in 1..Len(host.call.rows) :
              (\E i \in 1..Len(host.entered) : host.entered[i] = n) <=>
                  n <= LastRow /\ ~IsRefused(n) /\ ~IsNull(n)

\* The message a failed statement shows is that of the row and the step that
\* failed, and not one bh_errmsg kept from an earlier row or call.
ReportsOwnError ==
    host.at = "error" => host.reported = Message(host.row, host.cause)

\* The string of a row is freed before the next row, and on every way out.
StringsFreed == host.at \in {"row", "done", "error"} => ~host.buffer

\* What is written for a call with an output schema is JSON.
SchemaMeansJson ==
    \A k \in 1..Len(host.written) : host.written[k].schema => host.written[k].json
=============================================================================
