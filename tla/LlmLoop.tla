------------------------------ MODULE LlmLoop ------------------------------
(***************************************************************************)
(* LlmCompleteLoop (src/blobhttp_llm.cpp): chat completion, continued      *)
(* while the model stops on "length" and, when an output schema is given,  *)
(* retried with the validation errors as correction.                       *)
(*                                                                         *)
(* What the model answers is free: each 200 answer brings one part of      *)
(* text, identified by the number of the POST that brought it, and is      *)
(* truncated or not.  A text is the sequence of its parts; a turn is a     *)
(* role and a text (<<>> for the texts the loop writes itself).  Whether a *)
(* complete answer is JSON, and what the schema validator says of it, is   *)
(* free too.  The loop is entered afresh for every call.                   *)
(***************************************************************************)
EXTENDS Integers, Sequences

CONSTANTS
    MaxContinuations,   \* max_continuations: 10 by default
    MaxRetries          \* max_retries: 3 by default

ASSUME LlmAssumption ==
    /\ MaxContinuations \in Int
    /\ MaxRetries \in Int

VARIABLES
    useSchema,   \* an output schema was given
    pc,
    attempt,     \* attempts begun before this one
    cont,        \* cont: POSTs of this attempt that came back truncated
    messages,    \* body["messages"]
    asked,       \* attempt_body["messages"]: what the next POST carries
    text,        \* accumulated
    json,        \* the complete answer is JSON
    stats,       \* http_requests, continuations, retries
    whole        \* history: the parts that ended their answer

talk == <<messages, asked, text, json>>
vars == <<useSchema, pc, attempt, cont, talk, stats, whole>>

Outcomes == {"returned", "threw", "limit", "exhausted"}
PCs == {"idle", "setup", "attempt", "post", "validate"} \cup Outcomes

User == [role |-> "user", text |-> <<>>]
Assistant(s) == [role |-> "assistant", text |-> s]

NoStats == [requests |-> 0, continuations |-> 0, retries |-> 0]

\* The caller's prompt is one user turn.
Init ==
    /\ useSchema \in BOOLEAN
    /\ pc = "idle"
    /\ attempt = 0 /\ cont = 0
    /\ messages = <<User>> /\ asked = <<>> /\ text = <<>> /\ json = FALSE
    /\ stats = NoStats
    /\ whole = {}

-----------------------------------------------------------------------------
\* LlmCompleteLoop is entered: its locals and its LlmStats are new.
Call ==
    /\ pc \in Outcomes \cup {"idle"}
    /\ pc' = "setup"
    /\ useSchema' \in BOOLEAN
    /\ attempt' = 0 /\ cont' = 0
    /\ messages' = <<User>> /\ asked' = <<>> /\ text' = <<>> /\ json' = FALSE
    /\ stats' = NoStats
    /\ whole' = {}

\* The schema, if there is one, is parsed, compiled and imposed as a forced tool
\* call.
Setup ==
    /\ pc = "setup"
    /\ pc' = "attempt"
    /\ UNCHANGED <<useSchema, attempt, cont, talk, stats, whole>>

\* An exception: no valid schema; a body that cannot be written as JSON (error
\* texts are cut at 2000 bytes, maybe inside a character), a status other than
\* 200, an answer that is not a completion; a validator that fails.
Throw ==
    /\ (pc = "setup" /\ useSchema) \/ pc \in {"post", "validate"}
    /\ pc' = "threw"
    /\ UNCHANGED <<useSchema, attempt, cont, talk, stats, whole>>

\* The loop condition of do_complete, after n POSTs.
MayPost_OneMore(n) == n <= MaxContinuations
MayPost(n) == n < MaxContinuations

\* The body of an attempt is a copy: the turns its continuations add are not
\* seen by the next attempt.
AttemptBody_Shared ==
    IF asked = <<>> THEN messages
    ELSE asked \o SubSeq(messages, Len(messages) - 1, Len(messages))
AttemptBody == messages

\* do_complete starts with nothing accumulated.
Accumulated_Kept == text
Accumulated == <<>>

\* do_complete is entered: once without a schema, once per attempt with one.
BeginAttempt ==
    /\ pc = "attempt"
    /\ useSchema => attempt < MaxRetries
    /\ asked' = AttemptBody
    /\ cont' = 0
    /\ text' = Accumulated
    /\ pc' = IF MayPost(0) THEN "post" ELSE "limit"
    /\ UNCHANGED <<useSchema, attempt, messages, json, stats, whole>>

\* The attempts are used up: "Schema validation failed after N attempts".
AttemptsOver_Late == attempt > MaxRetries
AttemptsOver == attempt >= MaxRetries

Exhausted ==
    /\ pc = "attempt"
    /\ useSchema /\ AttemptsOver
    /\ pc' = "exhausted"
    /\ UNCHANGED <<useSchema, attempt, cont, talk, stats, whole>>

\* The part the POST in progress brings.
Part == stats.requests + 1

\* AccumulateUsage counts the POST.
AccumulateUsage(s) == [s EXCEPT !.requests = @ + 1]

\* finish_reason is not "length": the POST is counted, its content appended, and
\* do_complete returns.
Finish ==
    /\ pc = "post"
    /\ text' = Append(text, Part)
    /\ json' \in BOOLEAN
    /\ whole' = whole \cup {Part}
    /\ stats' = AccumulateUsage(stats)
    /\ pc' = IF useSchema THEN "validate" ELSE "returned"
    /\ UNCHANGED <<useSchema, attempt, cont, messages, asked>>

\* What a truncated answer adds to the attempt, and an invalid one to the body:
\* the model's own text, and a user turn that asks for the rest, or carries the
\* errors.
Correction_NoUser(s) == <<Assistant(s)>>
Correction(s) == <<Assistant(s), User>>

Continued_Uncounted(s) == s
Continued(s) == [s EXCEPT !.continuations = @ + 1]

\* Truncated: the POST is counted, and another one made if the loop allows it.
Truncated ==
    /\ pc = "post"
    /\ text' = Append(text, Part)
    /\ stats' = Continued(AccumulateUsage(stats))
    /\ asked' = asked \o Correction(text')
    /\ cont' = cont + 1
    /\ pc' = IF MayPost(cont + 1) THEN "post" ELSE "limit"
    /\ UNCHANGED <<useSchema, attempt, messages, json, whole>>

Parses_Any == TRUE
Parses == json

\* The answer parses and the validator does not report it invalid.
Valid ==
    /\ pc = "validate"
    /\ Parses
    /\ pc' = "returned"
    /\ UNCHANGED <<useSchema, attempt, cont, talk, stats, whole>>

\* Not JSON, or invalid: the answer and the errors go into the body, and the
\* next attempt begins.
Invalid ==
    /\ pc = "validate"
    /\ messages' = messages \o Correction(text)
    /\ stats' = [stats EXCEPT !.retries = @ + 1]
    /\ attempt' = attempt + 1
    /\ pc' = "attempt"
    /\ UNCHANGED <<useSchema, cont, asked, text, json, whole>>

Loop ==
    \/ Setup \/ Throw \/ BeginAttempt \/ Exhausted
    \/ Finish \/ Truncated \/ Valid \/ Invalid

Next == Call \/ Loop

Spec == Init /\ [][Next]_vars

-----------------------------------------------------------------------------
(* Properties *)

\* The steps the loop has left at most: an attempt begins, makes its POSTs, and its
\* answer is judged.
AtLeast(n, m) == IF n < m THEN m ELSE n
AttemptSteps == AtLeast(MaxContinuations, 0) + 2
AttemptsLeft == (IF useSchema THEN AtLeast(MaxRetries, 0) ELSE 1) - attempt
LoopLeft ==
    CASE pc = "setup"    -> AttemptsLeft * AttemptSteps + 2
      [] pc = "attempt"  -> AttemptsLeft * AttemptSteps + 1
      [] pc = "post"     -> (AttemptsLeft - 1) * AttemptSteps + 2 + MaxContinuations - cont
      [] pc = "validate" -> (AttemptsLeft - 1) * AttemptSteps + 2
      [] OTHER           -> 0

\* It never makes more POSTs than the limits on both loops allow together.
RequestsBounded ==
    \/ stats.requests = 0
    \/ stats.requests <= (IF useSchema THEN MaxRetries ELSE 1) * MaxContinuations

\* The statistics of a call that returns account for every POST: the first, the
\* continuations and the retries.
StatsAddUp ==
    pc = "returned" => stats.requests = 1 + stats.continuations + stats.retries

\* The content that is returned, and every answer that is validated, is the
\* whole answer of one attempt: its parts in order, none of another attempt, and
\* the last one not truncated.
AnswerWhole ==
    pc \in {"validate", "returned"} =>
        /\ text = [k \in 1..(cont + 1) |-> stats.requests - cont - 1 + k]
        /\ \A k \in 1..(cont + 1) : text[k] \in whole <=> k = cont + 1

\* Every POST carries a conversation the model can answer: the roles alternate,
\* and the last turn is the user's.
TurnsAlternate ==
    pc = "post" =>
        /\ \A k \in 1..Len(asked) : asked[k].role = "user" <=> k % 2 = 1
        /\ asked[Len(asked)].role = "user"

\* An attempt is shown every failed answer before it, whole, and of the
\* truncated ones only its own.
CorrectionsCarried ==
    pc = "post" =>
        /\ Len(asked) = 1 + 2 * attempt + 2 * cont
        /\ \A k \in 1..attempt :
              LET answer == asked[2 * k].text
              IN  answer # <<>> /\ answer[Len(answer)] \in whole
=============================================================================
