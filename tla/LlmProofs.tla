----------------------------- MODULE LlmProofs -----------------------------
(***************************************************************************)
(* Proofs about LlmLoop, for every limit on continuations and retries, and *)
(* about LlmCall, for every chunk of rows.                                 *)
(***************************************************************************)
EXTENDS LlmCall, TLAPS

\* The parts of the loop's state the theorems are about.
Counts ==
    /\ useSchema \in BOOLEAN
    /\ pc \in PCs
    /\ attempt \in Nat
    /\ cont \in Nat
    /\ stats \in [requests : Nat, continuations : Nat, retries : Nat]

\* One POST beyond the continuations and the retries is an answer that is
\* complete and not yet judged, or returned.
Extra == IF pc \in {"validate", "returned"} THEN 1 ELSE 0

Accounted ==
    pc # "threw" => stats.requests = stats.continuations + stats.retries + Extra

\* The POSTs of this attempt are within the limit on continuations.
InAttempt ==
    /\ pc = "post" => cont + 1 <= MaxContinuations
    /\ pc \in {"validate", "returned"} => cont + 1 <= MaxContinuations
    /\ pc = "limit" => cont <= MaxContinuations \/ cont = 0
    /\ pc \in {"setup", "attempt"} /\ attempt = 0 => stats.requests = 0
    /\ attempt > 0 => MaxContinuations > 0

\* The attempts are within the limit on retries.
Attempts ==
    /\ ~useSchema => attempt = 0 /\ pc # "validate"
    /\ useSchema => attempt = 0 \/ attempt <= MaxRetries
    /\ useSchema /\ pc \in {"post", "validate", "returned", "limit"} => attempt < MaxRetries

\* What earlier attempts and this one may have posted.
Budget(a) == a * MaxContinuations

Spent ==
    /\ pc \in {"setup", "attempt", "exhausted"} => stats.requests <= Budget(attempt)
    /\ pc \in {"post", "validate", "returned", "limit"} =>
           stats.requests <= Budget(attempt) + cont + Extra

Inv == Counts /\ Accounted /\ InAttempt /\ Attempts /\ Spent /\ RequestsBounded

LEMMA BudgetStep ==
    ASSUME NEW a \in Nat
    PROVE  Budget(a) \in Int /\ Budget(a + 1) = Budget(a) + MaxContinuations /\ Budget(0) = 0
  BY LlmAssumption DEF Budget

\* More attempts, more POSTs.
LEMMA BudgetGrows ==
    ASSUME NEW a \in Nat, NEW b \in Int, a < b, MaxContinuations > 0
    PROVE  Budget(a + 1) <= b * MaxContinuations
<1>1. b - (a + 1) \in Nat
  OBVIOUS
<1>2. (b - (a + 1)) * MaxContinuations >= 0
  BY <1>1, LlmAssumption
<1>3. b * MaxContinuations = (a + 1) * MaxContinuations + (b - (a + 1)) * MaxContinuations
  BY LlmAssumption
<1> QED BY <1>2, <1>3, LlmAssumption DEF Budget

\* What a truncated answer does to the statistics.
LEMMA UsageCounts ==
    ASSUME NEW s \in [requests : Nat, continuations : Nat, retries : Nat]
    PROVE  LET c == Continued(AccumulateUsage(s)) IN
               /\ c \in [requests : Nat, continuations : Nat, retries : Nat]
               /\ c.requests = s.requests + 1
               /\ c.continuations = s.continuations + 1
               /\ c.retries = s.retries
<1> DEFINE u == AccumulateUsage(s)
<1>1. /\ u \in [requests : Nat, continuations : Nat, retries : Nat]
      /\ u.requests = s.requests + 1
      /\ u.continuations = s.continuations
      /\ u.retries = s.retries
  BY DEF AccumulateUsage
<1> HIDE DEF u
<1>2. LET c == Continued(u) IN
          /\ c \in [requests : Nat, continuations : Nat, retries : Nat]
          /\ c.requests = u.requests
          /\ c.continuations = u.continuations + 1
          /\ c.retries = u.retries
  BY <1>1 DEF Continued
<1> QED BY <1>1, <1>2 DEF u

LEMMA CountsStep == Counts /\ [Next]_vars => Counts'
<1> SUFFICES ASSUME Counts, [Next]_vars
             PROVE  Counts'
  OBVIOUS
<1>1. CASE Setup \/ Throw \/ Exhausted \/ Valid
  BY <1>1 DEF Counts, PCs, Outcomes, Setup, Throw, Exhausted, Valid
<1>7. CASE Call
  BY <1>7 DEF Counts, PCs, Outcomes, Call, NoStats
<1>2. CASE BeginAttempt
  BY <1>2 DEF Counts, PCs, Outcomes, BeginAttempt
<1>3. CASE Finish
  BY <1>3 DEF Counts, PCs, Outcomes, Finish, AccumulateUsage
<1>4. CASE Truncated
  <2>1. stats' \in [requests : Nat, continuations : Nat, retries : Nat]
    BY <1>4, UsageCounts DEF Counts, Truncated
  <2> QED BY <1>4, <2>1 DEF Counts, PCs, Outcomes, Truncated
<1>5. CASE Invalid
  BY <1>5 DEF Counts, PCs, Outcomes, Invalid
<1>6. CASE UNCHANGED vars
  BY <1>6 DEF Counts, vars
<1> QED BY <1>1, <1>2, <1>3, <1>4, <1>5, <1>6, <1>7 DEF Next, Loop

\* The bound once a POST of this attempt has been counted.
LEMMA WithinBounds ==
    ASSUME Counts, InAttempt, Attempts, Spent, pc = "post", NEW r \in Nat, r = stats.requests + 1
    PROVE  r <= (IF useSchema THEN MaxRetries ELSE 1) * MaxContinuations
<1>1. r <= Budget(attempt) + MaxContinuations /\ MaxContinuations > 0
  <2>1. stats.requests <= Budget(attempt) + cont /\ cont + 1 <= MaxContinuations
    BY BudgetStep DEF Spent, Extra, InAttempt, Counts
  <2> QED BY <2>1, BudgetStep, LlmAssumption DEF Counts
<1>2. r <= Budget(attempt + 1)
  BY <1>1, BudgetStep, LlmAssumption DEF Counts
<1>3. CASE useSchema
  <2>1. Budget(attempt + 1) <= MaxRetries * MaxContinuations
    BY <1>1, <1>3, BudgetGrows, LlmAssumption DEF Attempts, Counts
  <2>2. Budget(attempt + 1) \in Int /\ MaxRetries * MaxContinuations \in Int
    BY BudgetStep, LlmAssumption DEF Counts
  <2> QED BY <1>2, <1>3, <2>1, <2>2
<1>4. CASE ~useSchema
  <2>1. attempt = 0
    BY <1>4 DEF Attempts
  <2> QED BY <1>1, <1>4, <2>1, BudgetStep, LlmAssumption
<1> QED BY <1>3, <1>4

LEMMA InvStep == Inv /\ [Next]_vars => Inv'
<1> SUFFICES ASSUME Inv, [Next]_vars
             PROVE  Inv'
  OBVIOUS
<1>1. Counts' /\ Counts
  BY CountsStep DEF Inv
<1>2. /\ Budget(attempt) \in Int /\ Budget(attempt + 1) = Budget(attempt) + MaxContinuations
      /\ Budget(0) = 0
  BY <1>1, BudgetStep DEF Counts
<1> USE LlmAssumption DEF Inv
<1>12. CASE Call
  <2>1. pc' = "setup" /\ attempt' = 0 /\ stats'.requests = 0 /\ stats'.continuations = 0
        /\ stats'.retries = 0
    BY <1>12 DEF Call, NoStats
  <2>2. RequestsBounded' /\ Accounted'
    BY <2>1 DEF RequestsBounded, Accounted, Extra
  <2>3. InAttempt' /\ Attempts'
    BY <2>1 DEF InAttempt, Attempts
  <2>4. Spent'
    BY <1>2, <2>1 DEF Spent
  <2> QED BY <1>1, <2>2, <2>3, <2>4
<1>3. CASE Setup
  BY <1>1, <1>2, <1>3
     DEF Setup, Counts, Accounted, Extra, InAttempt, Attempts, Spent, RequestsBounded
<1>4. CASE Throw
  BY <1>1, <1>2, <1>4
     DEF Throw, Counts, Accounted, Extra, InAttempt, Attempts, Spent, RequestsBounded
<1>5. CASE BeginAttempt
  BY <1>1, <1>2, <1>5
     DEF BeginAttempt, MayPost, Counts, Accounted, Extra, InAttempt, Attempts, Spent,
         RequestsBounded
<1>6. CASE Exhausted
  BY <1>1, <1>2, <1>6
     DEF Exhausted, AttemptsOver, Counts, Accounted, Extra, InAttempt, Attempts, Spent, RequestsBounded
<1>7. CASE Finish
  <2>1. /\ pc = "post" /\ pc' = (IF useSchema THEN "validate" ELSE "returned")
        /\ attempt' = attempt /\ cont' = cont /\ useSchema' = useSchema
    BY <1>7 DEF Finish
  <2>2. /\ stats'.requests = stats.requests + 1
        /\ stats'.continuations = stats.continuations /\ stats'.retries = stats.retries
    BY <1>1, <1>7 DEF Finish, AccumulateUsage, Counts
  <2>3. Extra = 0 /\ Extra' = 1
    BY <1>1, <2>1 DEF Extra, Counts
  <2>4. RequestsBounded'
    <3>1. stats'.requests \in Nat
      BY <1>1 DEF Counts
    <3> QED BY <1>1, <2>1, <2>2, <3>1, WithinBounds DEF RequestsBounded
  <2>5. Accounted'
    <3>1. stats.requests = stats.continuations + stats.retries
      BY <1>1, <2>1, <2>3 DEF Accounted, Counts
    <3> QED BY <1>1, <2>2, <2>3, <3>1 DEF Accounted, Counts
  <2>6. InAttempt' /\ Attempts'
    BY <1>1, <2>1 DEF InAttempt, Attempts, Counts
  <2>7. Spent'
    <3>1. stats.requests <= Budget(attempt) + cont
      BY <1>1, <1>2, <2>1, <2>3 DEF Spent, Counts
    <3>2. stats'.requests <= Budget(attempt') + cont' + Extra'
      BY <1>1, <1>2, <2>1, <2>2, <2>3, <3>1 DEF Counts
    <3> QED BY <1>1, <2>1, <3>2 DEF Spent, Counts
  <2> QED BY <1>1, <2>4, <2>5, <2>6, <2>7
<1>8. CASE Truncated
  <2>1. /\ pc = "post" /\ pc' = (IF MayPost(cont + 1) THEN "post" ELSE "limit")
        /\ attempt' = attempt /\ cont' = cont + 1 /\ useSchema' = useSchema
    BY <1>8 DEF Truncated
  <2>2. /\ stats'.requests = stats.requests + 1
        /\ stats'.continuations = stats.continuations + 1 /\ stats'.retries = stats.retries
    BY <1>1, <1>8, UsageCounts DEF Truncated, Counts
  <2>3. Extra = 0 /\ Extra' = 0
    BY <2>1 DEF Extra
  <2>4. RequestsBounded'
    <3>1. stats'.requests \in Nat
      BY <1>1 DEF Counts
    <3> QED BY <1>1, <2>1, <2>2, <3>1, WithinBounds DEF RequestsBounded
  <2>5. Accounted'
    <3>1. stats.requests = stats.continuations + stats.retries
      BY <1>1, <2>1, <2>3 DEF Accounted, Counts
    <3> QED BY <1>1, <2>2, <2>3, <3>1 DEF Accounted, Counts
  <2>6. InAttempt' /\ Attempts'
    BY <1>1, <2>1 DEF MayPost, InAttempt, Attempts, Counts
  <2>7. Spent'
    <3>1. stats.requests <= Budget(attempt) + cont
      BY <1>1, <1>2, <2>1, <2>3 DEF Spent, Counts
    <3>2. stats'.requests <= Budget(attempt') + cont' + Extra'
      BY <1>1, <1>2, <2>1, <2>2, <2>3, <3>1 DEF Counts
    <3> QED BY <2>1, <3>2 DEF Spent
  <2> QED BY <1>1, <2>4, <2>5, <2>6, <2>7
<1>9. CASE Valid
  BY <1>1, <1>2, <1>9
     DEF Valid, Parses, Counts, Accounted, Extra, InAttempt, Attempts, Spent, RequestsBounded
<1>10. CASE Invalid
  <2>1. pc = "validate" /\ pc' = "attempt" /\ attempt' = attempt + 1 /\ useSchema' = useSchema
    BY <1>10 DEF Invalid
  <2>2. /\ stats'.requests = stats.requests
        /\ stats'.continuations = stats.continuations /\ stats'.retries = stats.retries + 1
    BY <1>1, <1>10 DEF Invalid, Counts
  <2>3. Extra = 1 /\ Extra' = 0
    BY <2>1 DEF Extra
  <2>4. RequestsBounded'
    BY <2>1, <2>2 DEF RequestsBounded
  <2>5. Accounted'
    <3>1. stats.requests = stats.continuations + stats.retries + 1
      BY <2>1, <2>3 DEF Accounted
    <3> QED BY <1>1, <2>2, <2>3, <3>1 DEF Accounted, Counts
  <2>6. cont + 1 <= MaxContinuations
    BY <2>1 DEF InAttempt
  <2>7. InAttempt'
    BY <1>1, <2>1, <2>6 DEF InAttempt, Counts
  <2>8. Attempts'
    <3>1. useSchema
      BY <1>1, <2>1 DEF Attempts, Counts
    <3> QED BY <1>1, <2>1, <3>1 DEF Attempts, Counts
  <2>9. Spent'
    <3>1. stats.requests <= Budget(attempt) + cont + 1
      BY <2>1, <2>3 DEF Spent
    <3>2. stats'.requests <= Budget(attempt + 1)
      BY <1>1, <1>2, <2>2, <2>6, <3>1 DEF Counts
    <3> QED BY <2>1, <3>2 DEF Spent
  <2> QED BY <1>1, <2>4, <2>5, <2>7, <2>8, <2>9
<1>11. CASE UNCHANGED vars
  BY <1>11
     DEF vars, talk, Counts, Accounted, Extra, InAttempt, Attempts, Spent, RequestsBounded
<1> QED BY <1>3, <1>4, <1>5, <1>6, <1>7, <1>8, <1>9, <1>10, <1>11, <1>12 DEF Next, Loop

LEMMA Inductive == Spec => []Inv
<1>1. Init => Inv
  BY BudgetStep, LlmAssumption
     DEF Init, NoStats, Inv, Counts, PCs, Accounted, Extra, InAttempt, Attempts, Spent, RequestsBounded
<1> QED BY <1>1, InvStep, PTL DEF Spec

\* LlmCompleteLoop never posts more than max_retries times max_continuations
\* requests, and max_continuations without a schema.
THEOREM PostsAreBounded == Spec => []RequestsBounded
<1>1. Inv => RequestsBounded
  BY DEF Inv
<1> QED BY <1>1, Inductive, PTL

\* The statistics of a call that returns account for each of its POSTs.
THEOREM StatsAreComplete == Spec => []StatsAddUp
<1>1. ASSUME Inv PROVE StatsAddUp
  BY <1>1 DEF Inv, Counts, Accounted, Extra, StatsAddUp
<1> QED BY <1>1, Inductive, PTL

-----------------------------------------------------------------------------
(* What is said *)

Turn == [role : {"user", "assistant"}, text : Seq(Nat)]

TalkOK ==
    /\ messages \in Seq(Turn) /\ asked \in Seq(Turn) /\ text \in Seq(Nat)
    /\ whole \subseteq 1..stats.requests

\* A conversation that alternates from the user's prompt to the user's last turn.
Alternates(s) == \A k \in 1..Len(s) : s[k].role = "user" <=> k % 2 = 1

\* The answers of n failed attempts follow the prompt, each with its last part.
Shows(s, n) ==
    \A k \in 1..n : LET answer == s[2 * k].text
                    IN  answer # <<>> /\ answer[Len(answer)] \in whole

\* The last n parts that came, in order.
LastParts(n) == [k \in 1..n |-> stats.requests - n + k]

\* The body carries the failed attempts, and an attempt its truncated answers.
Said ==
    /\ Len(messages) = 1 + 2 * attempt /\ Alternates(messages) /\ Shows(messages, attempt)
    /\ pc = "post" =>
          /\ Len(asked) = 1 + 2 * attempt + 2 * cont /\ Alternates(asked) /\ Shows(asked, attempt)
          /\ text = LastParts(cont)
          /\ \A k \in 1..cont : text[k] \notin whole
    /\ pc \in {"validate", "returned"} =>
          /\ text = LastParts(cont + 1)
          /\ \A k \in 1..(cont + 1) : text[k] \in whole <=> k = cont + 1
    /\ pc = "returned" /\ useSchema => json

TalkInv == Counts /\ (~useSchema => pc # "validate") /\ TalkOK /\ Said

LEMMA JoinFact ==
    ASSUME NEW s \in Seq(Turn), NEW d \in Seq(Turn)
    PROVE  /\ s \o d \in Seq(Turn) /\ Len(s \o d) = Len(s) + Len(d)
           /\ \A k \in 1..Len(s) : (s \o d)[k] = s[k]
           /\ \A k \in 1..Len(d) : (s \o d)[Len(s) + k] = d[k]
  OBVIOUS

\* A model's text and the user's answer to it, at the end of a conversation.
LEMMA CorrectionFact ==
    ASSUME NEW s \in Seq(Turn), NEW x \in Seq(Nat), NEW n \in Nat, Len(s) = 1 + 2 * n,
           Alternates(s)
    PROVE  LET c == s \o Correction(x) IN
               /\ c \in Seq(Turn) /\ Len(c) = 1 + 2 * (n + 1)
               /\ Alternates(c)
               /\ \A k \in 1..n : c[2 * k] = s[2 * k]
               /\ c[2 * (n + 1)].text = x
<1> DEFINE c == s \o Correction(x)
<1>1. Assistant(x) \in Turn /\ User \in Turn /\ Assistant(x).text = x
      /\ Assistant(x).role = "assistant" /\ User.role = "user"
  BY DEF Turn, Assistant, User
<1>2. Correction(x) = <<Assistant(x), User>>
  BY DEF Correction
<1> DEFINE y == Assistant(x)
           z == User
<1>3. /\ c \in Seq(Turn) /\ Len(c) = Len(s) + 2
      /\ \A k \in 1..Len(s) : c[k] = s[k]
      /\ c[Len(s) + 1] = y /\ c[Len(s) + 2] = z
  <2> DEFINE d == <<y, z>>
  <2>1. y \in Turn /\ z \in Turn /\ c = s \o d
    BY <1>1, <1>2
  <2> HIDE DEF y, z, c
  <2>2. d \in Seq(Turn) /\ Len(d) = 2 /\ d[1] = y /\ d[2] = z
    BY <2>1
  <2> HIDE DEF d
  <2>3. 1 \in 1..Len(d) /\ 2 \in 1..Len(d)
    BY <2>2
  <2>4. /\ s \o d \in Seq(Turn) /\ Len(s \o d) = Len(s) + Len(d)
        /\ \A k \in 1..Len(s) : (s \o d)[k] = s[k]
        /\ \A k \in 1..Len(d) : (s \o d)[Len(s) + k] = d[k]
    BY <2>2, JoinFact, Zenon
  <2> QED BY <2>1, <2>2, <2>3, <2>4
<1> HIDE DEF c
<1>4. \A k \in 1..Len(c) : c[k].role = "user" <=> k % 2 = 1
  <2> SUFFICES ASSUME NEW k \in 1..Len(c) PROVE c[k].role = "user" <=> k % 2 = 1
    OBVIOUS
  <2>1. CASE k <= Len(s)
    BY <1>3, <2>1 DEF Alternates
  <2>2. CASE k = Len(s) + 1
    <3>1. k = 2 * (n + 1)
      BY <2>2
    <3>2. k % 2 = 0
      BY <3>1
    <3>3. c[k].role = "assistant"
      BY <1>1, <1>3, <2>2
    <3> QED BY <3>2, <3>3
  <2>3. CASE k = Len(s) + 2
    <3>1. k = 2 * (n + 1) + 1
      BY <2>3
    <3>2. k % 2 = 1
      <4>1. \A m \in Nat : (2 * m + 1) % 2 = 1
        OBVIOUS
      <4> QED BY <3>1, <4>1
    <3>3. c[k].role = "user"
      BY <1>1, <1>3, <2>3
    <3> QED BY <3>2, <3>3
  <2> QED BY <1>3, <2>1, <2>2, <2>3
<1>5. \A k \in 1..n : 2 * k \in 1..Len(s)
  OBVIOUS
<1>6. Len(s) + 1 = 2 * (n + 1)
  OBVIOUS
<1>7. \A k \in 1..n : c[2 * k] = s[2 * k]
  BY <1>3, <1>5
<1>8. c[2 * (n + 1)].text = x
  BY <1>1, <1>3, <1>6
<1>9. Len(c) = 1 + 2 * (n + 1)
  BY <1>3
<1> QED BY <1>3, <1>4, <1>7, <1>8, <1>9 DEF c, Alternates

\* One more part.
LEMMA PartFact ==
    ASSUME Counts, NEW n \in Nat, text = LastParts(n)
    PROVE  /\ Append(text, Part) = [k \in 1..(n + 1) |-> Part - (n + 1) + k]
           /\ Append(text, Part)[n + 1] = Part
           /\ \A k \in 1..n : Append(text, Part)[k] = text[k]
<1>1. stats.requests \in Nat
  BY DEF Counts
<1>2. text = [k \in 1..n |-> stats.requests - n + k]
  BY DEF LastParts
<1>3. text \in Seq(Int) /\ Len(text) = n
  BY <1>1, <1>2
<1> DEFINE a == Append(text, Part)
           b == [k \in 1..(n + 1) |-> Part - (n + 1) + k]
<1>4. a \in Seq(Int) /\ Len(a) = n + 1 /\ a[n + 1] = Part /\ \A k \in 1..n : a[k] = text[k]
  BY <1>1, <1>3 DEF Part
<1>5. b \in Seq(Int) /\ Len(b) = n + 1
  BY <1>1 DEF Part
<1>6. ASSUME NEW k \in 1..(n + 1) PROVE a[k] = b[k]
  <2>1. b[k] = stats.requests + 1 - (n + 1) + k
    BY <1>1 DEF Part
  <2>2. k \in 1..n => a[k] = stats.requests - n + k
    BY <1>2, <1>4
  <2>3. k \in 1..n \/ k = n + 1
    OBVIOUS
  <2> HIDE DEF a, b
  <2> QED BY <1>1, <1>4, <2>1, <2>2, <2>3 DEF Part
<1> HIDE DEF a, b
<1>7. a = b
  BY <1>4, <1>5, <1>6
<1> QED BY <1>4, <1>7 DEF a, b

\* What a step of another kind leaves of the conversations.
LEMMA SaidSame ==
    ASSUME TalkOK, Said, UNCHANGED <<messages, asked, text, json, whole, stats, attempt, cont>>,
           useSchema' = useSchema, pc' \in {"attempt", "threw", "exhausted", "returned"},
           pc' = "returned" => pc = "validate" /\ json
    PROVE  TalkOK' /\ Said'
<1>1. TalkOK'
  BY DEF TalkOK
<1>2. Alternates(messages)' /\ Shows(messages, attempt)' /\ Len(messages') = 1 + 2 * attempt'
  BY DEF Said, Alternates, Shows
<1>3. LastParts(cont + 1)' = LastParts(cont + 1)
  BY DEF LastParts
<1> QED BY <1>1, <1>2, <1>3 DEF Said

LEMMA TalkNext ==
    ASSUME TalkInv, [Next]_vars
    PROVE  TalkInv'
<1>1. Counts /\ Counts' /\ TalkOK /\ Said
  BY CountsStep DEF TalkInv
<1>2. (~useSchema => pc # "validate")'
  BY <1>1 DEF TalkInv, Next, Loop, Call, Setup, Throw, BeginAttempt, Exhausted, Finish, Truncated,
              Valid, Invalid, vars, Outcomes, Counts
<1>3. /\ stats.requests \in Nat /\ attempt \in Nat /\ cont \in Nat
      /\ messages \in Seq(Turn) /\ asked \in Seq(Turn) /\ text \in Seq(Nat)
      /\ whole \subseteq 1..stats.requests
      /\ Len(messages) = 1 + 2 * attempt /\ Alternates(messages) /\ Shows(messages, attempt)
  BY <1>1 DEF Counts, TalkOK, Said
<1>4. CASE Call
  <2>1. /\ pc' = "setup" /\ attempt' = 0 /\ cont' = 0 /\ messages' = <<User>> /\ asked' = <<>>
        /\ text' = <<>> /\ whole' = {}
    BY <1>4 DEF Call
  <2>2. User \in Turn /\ User.role = "user"
    BY DEF User, Turn
  <2>3. /\ messages' \in Seq(Turn) /\ Len(messages') = 1 /\ messages'[1].role = "user"
        /\ asked' \in Seq(Turn) /\ text' \in Seq(Nat)
    BY <2>1, <2>2
  <2>4. Alternates(messages)' /\ Shows(messages, attempt)'
    BY <2>1, <2>3 DEF Alternates, Shows
  <2>5. TalkOK'
    BY <2>1, <2>3 DEF TalkOK
  <2>6. Said'
    BY <2>1, <2>3, <2>4 DEF Said
  <2> QED BY <1>1, <1>2, <2>5, <2>6 DEF TalkInv
<1>5. CASE Setup \/ Throw \/ Exhausted \/ Valid
  <2>1. /\ UNCHANGED <<messages, asked, text, json, whole, stats, attempt, cont>>
        /\ useSchema' = useSchema /\ pc' \in {"attempt", "threw", "exhausted", "returned"}
        /\ pc' = "returned" => pc = "validate" /\ json
    BY <1>5 DEF Setup, Throw, Exhausted, Valid, Parses, talk
  <2> QED BY <1>1, <1>2, <2>1, SaidSame DEF TalkInv
<1>6. CASE BeginAttempt
  <2>1. /\ asked' = messages /\ cont' = 0 /\ text' = <<>> /\ pc' \in {"post", "limit"}
        /\ messages' = messages /\ attempt' = attempt /\ whole' = whole /\ stats' = stats
    BY <1>6 DEF BeginAttempt, AttemptBody, Accumulated
  <2>2. TalkOK'
    BY <1>1, <1>3, <2>1 DEF TalkOK
  <2>3. /\ Alternates(messages)' /\ Shows(messages, attempt)'
        /\ Alternates(asked)' /\ Shows(asked, attempt)'
    BY <1>3, <2>1 DEF Alternates, Shows
  <2>4. text' = LastParts(cont)'
    BY <2>1 DEF LastParts
  <2> QED BY <1>1, <1>2, <1>3, <2>1, <2>2, <2>3, <2>4 DEF TalkInv, Said
<1>7. CASE Finish
  <2>1. /\ pc = "post" /\ pc' = (IF useSchema THEN "validate" ELSE "returned")
        /\ text' = Append(text, Part) /\ whole' = whole \cup {Part}
        /\ messages' = messages /\ asked' = asked /\ attempt' = attempt /\ cont' = cont
        /\ useSchema' = useSchema
    BY <1>7 DEF Finish
  <2>2. stats'.requests = stats.requests + 1 /\ Part = stats.requests + 1
    BY <1>1, <1>7 DEF Finish, AccumulateUsage, Counts, Part
  <2>3. text = LastParts(cont) /\ \A k \in 1..cont : text[k] \notin whole
    BY <1>1, <2>1 DEF Said
  <2>4. /\ text' = [k \in 1..(cont + 1) |-> Part - (cont + 1) + k]
        /\ text'[cont + 1] = Part
        /\ \A k \in 1..cont : text'[k] = text[k]
    <3> cont \in Nat
      BY <1>3
    <3> QED BY <1>1, <2>1, <2>3, PartFact
  <2>5. text' = LastParts(cont + 1)'
    <3>1. stats'.requests = Part /\ cont' + 1 = cont + 1
      BY <2>1, <2>2
    <3> QED BY <2>4, <3>1, Zenon DEF LastParts
  <2>6. \A k \in 1..(cont + 1) : text'[k] \in whole' <=> k = cont + 1
    <3> SUFFICES ASSUME NEW k \in 1..(cont + 1) PROVE text'[k] \in whole' <=> k = cont + 1
      OBVIOUS
    <3>1. CASE k = cont + 1
      BY <2>1, <2>2, <2>4, <3>1
    <3>2. CASE k \in 1..cont
      <4>1. text'[k] = Part - (cont + 1) + k
        BY <2>4
      <4>2. text'[k] # Part
        <5>1. Part \in Nat
          BY <1>3, <2>2
        <5> QED BY <1>3, <3>2, <4>1, <5>1
      <4>3. text'[k] \notin whole
        BY <2>3, <2>4, <3>2
      <4>4. k # cont + 1
        BY <1>3, <3>2
      <4> QED BY <2>1, <4>2, <4>3, <4>4
    <3> QED BY <1>3, <3>1, <3>2
  <2>7. TalkOK'
    <3>1. text' \in Seq(Nat)
      BY <1>3, <2>1, <2>2
    <3>2. whole' \subseteq 1..stats'.requests
      <4>1. Part \in 1..stats'.requests /\ 1..stats.requests \subseteq 1..stats'.requests
        BY <1>3, <2>2
      <4> QED BY <1>3, <2>1, <4>1
    <3> QED BY <1>3, <2>1, <3>1, <3>2 DEF TalkOK
  <2>8. Alternates(messages)' /\ Shows(messages, attempt)'
    BY <1>3, <2>1 DEF Alternates, Shows
  <2>9. Said'
    BY <1>3, <2>1, <2>5, <2>6, <2>8 DEF Said
  <2> QED BY <1>1, <1>2, <2>7, <2>9 DEF TalkInv
<1>8. CASE Truncated
  <2>1. /\ pc = "post" /\ pc' \in {"post", "limit"}
        /\ text' = Append(text, Part) /\ whole' = whole
        /\ messages' = messages /\ attempt' = attempt /\ cont' = cont + 1
        /\ asked' = asked \o Correction(text')
    BY <1>8 DEF Truncated
  <2>2. stats'.requests = stats.requests + 1 /\ Part = stats.requests + 1
    BY <1>1, <1>8, UsageCounts DEF Truncated, Counts, Part
  <2>3. /\ text = LastParts(cont) /\ \A k \in 1..cont : text[k] \notin whole
        /\ Len(asked) = 1 + 2 * attempt + 2 * cont /\ Alternates(asked) /\ Shows(asked, attempt)
    BY <1>1, <2>1 DEF Said
  <2>4. /\ text' = [k \in 1..(cont + 1) |-> Part - (cont + 1) + k]
        /\ text'[cont + 1] = Part
        /\ \A k \in 1..cont : text'[k] = text[k]
    <3> cont \in Nat
      BY <1>3
    <3> QED BY <1>1, <2>1, <2>3, PartFact
  <2>5. text' = LastParts(cont)'
    <3>1. stats'.requests = Part /\ cont' = cont + 1
      BY <2>1, <2>2
    <3> QED BY <2>4, <3>1, Zenon DEF LastParts
  <2>6. \A k \in 1..(cont + 1) : text'[k] \notin whole'
    <3> SUFFICES ASSUME NEW k \in 1..(cont + 1) PROVE text'[k] \notin whole
      BY <2>1
    <3>1. CASE k = cont + 1
      BY <1>3, <2>2, <2>4, <3>1
    <3>2. CASE k \in 1..cont
      BY <2>3, <2>4, <3>2
    <3> QED BY <1>3, <3>1, <3>2
  <2>7. text' \in Seq(Nat)
    BY <1>3, <2>1, <2>2
  <2> DEFINE n == attempt + cont
             s == text'
  <2>8. n \in Nat /\ Len(asked) = 1 + 2 * n
    BY <1>3, <2>3
  <2> HIDE DEF n, s
  <2>9. /\ asked \o Correction(s) \in Seq(Turn)
        /\ Len(asked \o Correction(s)) = 1 + 2 * (n + 1)
        /\ Alternates(asked \o Correction(s))
        /\ \A k \in 1..n : (asked \o Correction(s))[2 * k] = asked[2 * k]
    BY <1>3, <2>3, <2>7, <2>8, CorrectionFact, SMTT(30) DEF s
  <2>10. /\ asked' \in Seq(Turn) /\ Len(asked') = 1 + 2 * attempt' + 2 * cont'
         /\ Alternates(asked)' /\ \A k \in 1..attempt : asked'[2 * k] = asked[2 * k]
    <3>1. asked' = asked \o Correction(s)
      BY <2>1 DEF s
    <3>2. \A k \in 1..attempt : k \in 1..n
      BY <1>3 DEF n
    <3>3. 1 + 2 * (n + 1) = 1 + 2 * attempt' + 2 * cont'
      BY <1>3, <2>1 DEF n
    <3> QED BY <2>9, <3>1, <3>2, <3>3 DEF Alternates
  <2>11. Shows(asked, attempt)'
    BY <2>1, <2>3, <2>10 DEF Shows
  <2>12. Alternates(messages)' /\ Shows(messages, attempt)'
    BY <1>3, <2>1 DEF Alternates, Shows
  <2>13. TalkOK'
    <3>1. whole' \subseteq 1..stats'.requests
      BY <1>3, <2>1, <2>2
    <3> QED BY <1>3, <2>1, <2>7, <2>10, <3>1 DEF TalkOK
  <2>14. Said'
    BY <1>3, <2>1, <2>5, <2>6, <2>10, <2>11, <2>12 DEF Said
  <2> QED BY <1>1, <1>2, <2>13, <2>14 DEF TalkInv
<1>9. CASE Invalid
  <2>1. /\ pc = "validate" /\ pc' = "attempt" /\ messages' = messages \o Correction(text)
        /\ attempt' = attempt + 1 /\ asked' = asked /\ text' = text /\ whole' = whole
    BY <1>9 DEF Invalid
  <2>2. stats'.requests = stats.requests
    BY <1>1, <1>9 DEF Invalid, Counts
  <2>3. /\ text = LastParts(cont + 1) /\ text[cont + 1] \in whole
    BY <1>1, <1>3, <2>1 DEF Said
  <2>4. Len(text) = cont + 1 /\ text # <<>>
    <3>1. DOMAIN text = 1..(cont + 1)
      BY <2>3 DEF LastParts
    <3> QED BY <1>3, <3>1
  <2>5. /\ messages' \in Seq(Turn) /\ Len(messages') = 1 + 2 * attempt' /\ Alternates(messages)'
        /\ \A k \in 1..attempt : messages'[2 * k] = messages[2 * k]
        /\ messages'[2 * (attempt + 1)].text = text
    <3>1. LET c == messages \o Correction(text) IN
            /\ c \in Seq(Turn) /\ Len(c) = 1 + 2 * (attempt + 1) /\ Alternates(c)
            /\ \A k \in 1..attempt : c[2 * k] = messages[2 * k]
            /\ c[2 * (attempt + 1)].text = text
      <4>1. /\ messages \in Seq(Turn) /\ text \in Seq(Nat) /\ attempt \in Nat
            /\ Len(messages) = 1 + 2 * attempt /\ Alternates(messages)
        BY <1>3
      <4> QED BY <4>1, CorrectionFact, Zenon
    <3> QED BY <2>1, <3>1 DEF Alternates
  <2>6. Shows(messages, attempt)'
    <3>1. \A k \in 1..(attempt + 1) : k \in 1..attempt \/ k = attempt + 1
      BY <1>3
    <3>2. \A k \in 1..attempt : LET answer == messages'[2 * k].text
                                IN  answer # <<>> /\ answer[Len(answer)] \in whole'
      BY <1>3, <2>1, <2>5 DEF Shows
    <3>3. LET answer == messages'[2 * (attempt + 1)].text
          IN  answer # <<>> /\ answer[Len(answer)] \in whole'
      BY <2>1, <2>3, <2>4, <2>5
    <3> QED BY <2>1, <3>1, <3>2, <3>3 DEF Shows
  <2>7. TalkOK'
    BY <1>3, <2>1, <2>2, <2>5 DEF TalkOK
  <2>8. Said'
    BY <2>1, <2>5, <2>6 DEF Said
  <2> QED BY <1>1, <1>2, <2>7, <2>8 DEF TalkInv
<1>10. CASE UNCHANGED vars
  <2>1. /\ UNCHANGED <<messages, asked, text, json, whole, stats, attempt, cont, useSchema, pc>>
    BY <1>10 DEF vars, talk
  <2>2. TalkOK'
    BY <1>1, <2>1 DEF TalkOK
  <2>3. Said'
    BY <1>1, <2>1 DEF Said, Alternates, Shows, LastParts
  <2> QED BY <1>1, <1>2, <2>2, <2>3 DEF TalkInv
<1> QED BY <1>4, <1>5, <1>6, <1>7, <1>8, <1>9, <1>10 DEF Next, Loop

LEMMA TalkInit == Init => TalkInv
<1> SUFFICES ASSUME Init PROVE TalkInv
  OBVIOUS
<1>1. User \in Turn /\ User.role = "user"
  BY DEF User, Turn
<1>2. /\ messages \in Seq(Turn) /\ Len(messages) = 1 /\ messages[1].role = "user"
      /\ asked \in Seq(Turn) /\ text \in Seq(Nat) /\ whole = {} /\ attempt = 0 /\ pc = "idle"
  BY <1>1 DEF Init
<1>3. Counts
  BY DEF Init, NoStats, Counts, PCs
<1>4. TalkOK /\ Said
  BY <1>2 DEF TalkOK, Said, Alternates, Shows
<1> QED BY <1>2, <1>3, <1>4 DEF TalkInv

LEMMA TalkAlways == Spec => []TalkInv
<1> QED BY TalkInit, TalkNext, PTL DEF Spec

\* What LlmCompleteLoop returns or validates is the concatenation of the parts of
\* one attempt, in order and up to one that was not truncated.
THEOREM AnswersAreWhole == Spec => []AnswerWhole
<1>1. TalkInv => AnswerWhole
  BY DEF TalkInv, Said, AnswerWhole, LastParts, Counts
<1> QED BY <1>1, TalkAlways, PTL

\* Every POST carries a conversation in which user and assistant alternate, and
\* which ends with the user, after any number of continuations and corrections.
THEOREM TurnsAlternateAlways == Spec => []TurnsAlternate
<1>1. ASSUME TalkInv, pc = "post"
      PROVE  /\ \A k \in 1..Len(asked) : asked[k].role = "user" <=> k % 2 = 1
             /\ asked[Len(asked)].role = "user"
  <2>1. Alternates(asked) /\ Len(asked) = 1 + 2 * attempt + 2 * cont
        /\ attempt \in Nat /\ cont \in Nat
    BY <1>1 DEF TalkInv, Said, Counts
  <2>2. \A m \in Nat : (2 * m + 1) % 2 = 1
    OBVIOUS
  <2>3. Len(asked) % 2 = 1 /\ Len(asked) \in 1..Len(asked)
    <3>1. attempt + cont \in Nat /\ Len(asked) = 2 * (attempt + cont) + 1
      BY <2>1
    <3> QED BY <2>2, <3>1
  <2> QED BY <2>1, <2>3 DEF Alternates
<1>2. TalkInv => TurnsAlternate
  BY <1>1 DEF TurnsAlternate
<1> QED BY <1>2, TalkAlways, PTL

\* An attempt carries each failed answer before it, whole, and no truncated answer
\* of another attempt: the length leaves no room for one.
THEOREM CorrectionsAreCarried == Spec => []CorrectionsCarried
<1>1. TalkInv => CorrectionsCarried
  BY DEF TalkInv, Said, Shows, CorrectionsCarried
<1> QED BY <1>1, TalkAlways, PTL

-----------------------------------------------------------------------------
(* The calls that hand back a string *)

Places == {"idle", "row", "core", "loop", "result", "failed", "done", "error"}
Causes == {"", "refused", "unpack", "core", "loop", "answer"}
Messages == [row : Nat, what : Causes]
Value == [schema : BOOLEAN, json : BOOLEAN]

HostType ==
    [call : Batches, at : Places, row : Nat, buffer : BOOLEAN, errmsg : Messages,
     reported : Messages, cause : Causes, written : Seq(Value), entered : Seq(Nat)]

Size == Len(host.call.rows)

\* The rows that are over, or begun and past their host's own checks.
Begun == IF host.at = "row" THEN host.row - 1 ELSE IF host.at = "done" THEN Size ELSE host.row

\* A row is at one place, holds a string only while its result is read, and all
\* rows before it are written.
RowOK ==
    /\ host.at \notin {"idle", "done"} =>
          1 <= host.row /\ host.row <= Size /\ Len(host.written) = host.row - 1
    /\ host.at = "done" => Len(host.written) = Size
    /\ host.buffer => host.at = "result"

\* A message is reported at the end of a failed call, and is the failing step's.
ErrorOK ==
    /\ host.reported # None <=> host.at = "error"
    /\ host.at = "failed" => host.errmsg = Message(host.row, host.cause)
    /\ host.at = "error" => host.reported = Message(host.row, host.cause)

\* The rows that entered the core are those begun that no host answers alone.
EnteredOK ==
    host.at # "idle" =>
        /\ \A i \in 1..Len(host.entered) : 1 <= host.entered[i] /\ host.entered[i] <= Begun
        /\ \A i, j \in 1..Len(host.entered) : i < j => host.entered[i] < host.entered[j]
        /\ \A n \in 1..Size :
              (\E i \in 1..Len(host.entered) : host.entered[i] = n) <=>
                  n <= Begun /\ ~IsRefused(n) /\ ~IsNull(n)

\* What is read as a completion is the answer the loop returned.
ValueOK ==
    /\ host.at = "result" /\ Completes => pc = "returned"
    /\ SchemaMeansJson

CallInv == host \in HostType /\ RowOK /\ ErrorOK /\ EnteredOK /\ ValueOK /\ TalkInv

LEMMA HostFact ==
    ASSUME host \in HostType
    PROVE  /\ host.call \in Batches /\ host.at \in Places /\ host.row \in Nat
           /\ host.buffer \in BOOLEAN /\ host.errmsg \in Messages /\ host.reported \in Messages
           /\ host.cause \in Causes /\ host.written \in Seq(Value) /\ host.entered \in Seq(Nat)
           /\ Len(host.written) \in Nat /\ Len(host.entered) \in Nat
           /\ host.call.rows \in Seq(STRING) /\ Size \in Nat
<1>1. host.call \in Batches /\ host.written \in Seq(Value) /\ host.entered \in Seq(Nat)
  BY DEF HostType
<1>2. host.call.rows \in Seq(STRING)
  BY <1>1, CallAssumption
<1> QED BY <1>1, <1>2 DEF HostType, Size

\* The call itself does not change while it is in progress.
LEMMA SameCall ==
    ASSUME host'.call = host.call
    PROVE  Size' = Size /\ (Completes' <=> Completes)
           /\ \A n : (IsRefused(n)' <=> IsRefused(n)) /\ (IsNull(n)' <=> IsNull(n))
  BY DEF Size, Completes, Op, IsRefused, IsNull

\* The loop sees nothing of its caller but that it is called.
LEMMA LoopSteps == [CallNext]_callVars => [Next]_vars
  BY DEF CallNext, CallStep, callVars, Invoke, Refuse, WriteNull, Enter, Failed, UnpackFails,
         Write, CoreFails, CoreReturns, StartLoop, InLoop, LoopFails, AnswerLost,
         AnswerReturns, Host, Next

\* bh_llm_complete and bh_llm_adapt leave the loop's state to LlmCompleteLoop,
\* whatever fails around it: what is proved of the loop by itself holds of every
\* call of every host.
THEOREM CallImplementsLoop == CallSpec => Spec
<1>1. CallInit => Init
  BY DEF CallInit
<1> QED BY <1>1, LoopSteps, PTL DEF CallSpec, Spec

LEMMA CallInitInv == CallInit => CallInv
<1> SUFFICES ASSUME CallInit PROVE CallInv
  OBVIOUS
<1>1. TalkInv
  BY TalkInit DEF CallInit
<1>2. PICK c \in Batches :
        host = [call |-> c, at |-> "idle", row |-> 1, buffer |-> FALSE, errmsg |-> None,
                reported |-> None, cause |-> "", written |-> <<>>, entered |-> <<>>]
  BY DEF CallInit
<1>3. None \in Messages /\ "idle" \in Places /\ "" \in Causes
  BY DEF None, Messages, Places, Causes
<1>4. /\ host.at = "idle" /\ host.buffer = FALSE /\ host.reported = None
      /\ host.written = <<>>
  BY <1>2
<1>5. <<>> \in Seq(Value) /\ <<>> \in Seq(Nat)
  OBVIOUS
<1>6. host \in HostType
  BY <1>2, <1>3, <1>5 DEF HostType
<1> QED BY <1>1, <1>4, <1>6 DEF CallInv, RowOK, ErrorOK, EnteredOK, ValueOK, SchemaMeansJson

LEMMA InvokeStep ==
    ASSUME CallInv, Invoke, UNCHANGED vars
    PROVE  (host \in HostType /\ RowOK /\ ErrorOK /\ EnteredOK /\ ValueOK)'
<1>1. PICK c \in Batches :
        host' = [host EXCEPT !.call = c, !.at = IF c.rows = <<>> THEN "done" ELSE "row",
                             !.row = 1, !.reported = None, !.cause = "",
                             !.written = <<>>, !.entered = <<>>]
  BY DEF Invoke, Host
<1> DEFINE place == IF c.rows = <<>> THEN "done" ELSE "row"
<1>2. host \in HostType
  BY DEF CallInv
<1>3. place \in Places /\ None \in Messages /\ "" \in Causes
  BY DEF Places, None, Messages, Causes
<1> HIDE DEF place
<1>4. host' = [host EXCEPT !.call = c, !.at = place, !.row = 1, !.reported = None, !.cause = "",
                           !.written = <<>>, !.entered = <<>>]
  BY <1>1 DEF place
<1>5. <<>> \in Seq(Value) /\ <<>> \in Seq(Nat) /\ 1 \in Nat
  OBVIOUS
<1>6. host' \in HostType
  BY <1>2, <1>3, <1>4, <1>5 DEF HostType
<1>7. /\ host'.call = c /\ host'.at = place /\ host'.row = 1 /\ host'.reported = None
      /\ host'.written = <<>> /\ host'.entered = <<>> /\ host'.buffer = host.buffer
  BY <1>2, <1>4 DEF HostType
<1>8. c.rows \in Seq(STRING) /\ Size' = Len(c.rows)
  BY <1>7, CallAssumption DEF Size
<1>9. host.at \in {"idle", "done", "error"} /\ ~host.buffer
  <2>1. host.at \in {"idle", "done", "error"}
    BY DEF Invoke
  <2> QED BY <2>1 DEF CallInv, RowOK
<1>10. (place = "done" /\ Size' = 0) \/ (place = "row" /\ Size' >= 1 /\ Size' \in Nat)
  <2>1. CASE c.rows = <<>>
    <3>1. Len(c.rows) = 0
      BY <2>1
    <3> QED BY <1>8, <2>1, <3>1 DEF place
  <2>2. CASE c.rows # <<>>
    <3>1. Len(c.rows) \in Nat /\ Len(c.rows) >= 1
      BY <1>8, <2>2
    <3> QED BY <1>8, <2>2, <3>1 DEF place
  <2> QED BY <2>1, <2>2
<1>11. RowOK'
  BY <1>7, <1>9, <1>10 DEF RowOK
<1>12. ErrorOK'
  BY <1>7, <1>10 DEF ErrorOK
<1>13. EnteredOK'
  <2>1. Begun' = 0
    BY <1>7, <1>10 DEF Begun
  <2>2. Len(host'.entered) = 0
    BY <1>7
  <2> QED BY <1>10, <2>1, <2>2 DEF EnteredOK
<1>14. ValueOK'
  BY <1>7, <1>10 DEF ValueOK, SchemaMeansJson
<1> QED BY <1>6, <1>11, <1>12, <1>13, <1>14

\* A row is written and the next one begins, if there is one.
LEMMA WroteStep ==
    ASSUME CallInv, NEW v \in Value, v.schema => v.json, host' = Wrote(v),
           host.at = "result" \/ (host.at = "row" /\ IsNull(host.row))
    PROVE  (host \in HostType /\ RowOK /\ ErrorOK /\ EnteredOK /\ ValueOK)'
<1> DEFINE place == IF host.row = Size THEN "done" ELSE "row"
<1>1. host \in HostType /\ host.row \in Nat /\ Size \in Nat /\ host.written \in Seq(Value)
  BY HostFact DEF CallInv
<1>2. 1 <= host.row /\ host.row <= Size /\ Len(host.written) = host.row - 1
  BY DEF CallInv, RowOK
<1>3. place \in Places
  BY DEF Places
<1>4. (place = "done" /\ host.row = Size) \/ (place = "row" /\ host.row + 1 <= Size)
  <2>1. CASE host.row = Size
    BY <2>1
  <2>2. CASE host.row # Size
    <3>1. host.row + 1 <= Size
      BY <1>1, <1>2, <2>2
    <3> QED BY <2>2, <3>1
  <2> QED BY <2>1, <2>2
<1> DEFINE w == Append(host.written, v)
<1>5. w \in Seq(Value) /\ Len(w) = host.row /\ \A k \in 1..Len(w) : w[k].schema => w[k].json
  <2>1. \A k \in 1..Len(host.written) : host.written[k].schema => host.written[k].json
    BY DEF CallInv, ValueOK, SchemaMeansJson
  <2>2. w \in Seq(Value) /\ Len(w) = Len(host.written) + 1 /\ w[Len(w)] = v
        /\ \A k \in 1..Len(host.written) : w[k] = host.written[k]
    BY <1>1
  <2> HIDE DEF w
  <2>3. \A k \in 1..Len(w) : k \in 1..Len(host.written) \/ k = Len(w)
    BY <1>1, <2>2
  <2>4. Len(w) = host.row
    BY <1>1, <1>2, <2>2
  <2>5. ASSUME NEW k \in 1..Len(w), w[k].schema PROVE w[k].json
    BY <2>1, <2>2, <2>3, <2>5
  <2> QED BY <2>2, <2>4, <2>5
<1> HIDE DEF place, w
<1>6. host' = [host EXCEPT !.written = w, !.buffer = FALSE, !.row = host.row + 1, !.at = place]
  BY DEF Wrote, place, w, Size
<1>7. host.row + 1 \in Nat
  BY <1>1
<1>8. host' \in HostType
  BY <1>1, <1>3, <1>5, <1>6, <1>7 DEF HostType
<1>9. /\ host'.call = host.call /\ host'.at = place /\ host'.row = host.row + 1
      /\ host'.buffer = FALSE /\ host'.reported = host.reported /\ host'.written = w
      /\ host'.entered = host.entered
  BY <1>1, <1>6 DEF HostType
<1>10. RowOK'
  BY <1>1, <1>2, <1>4, <1>5, <1>9, SameCall DEF RowOK
<1>11. ErrorOK'
  BY <1>4, <1>9 DEF CallInv, ErrorOK
<1>12. EnteredOK'
  <2>1. Begun' = host.row
    BY <1>1, <1>4, <1>9, SameCall DEF Begun
  <2>2. /\ \A i, j \in 1..Len(host.entered) : i < j => host.entered[i] < host.entered[j]
        /\ \A i \in 1..Len(host.entered) : 1 <= host.entered[i] /\ host.entered[i] <= Begun
        /\ \A n \in 1..Size : (\E i \in 1..Len(host.entered) : host.entered[i] = n) <=>
                                  n <= Begun /\ ~IsRefused(n) /\ ~IsNull(n)
    BY DEF CallInv, EnteredOK
  <2>3. Begun <= host.row /\ Begun >= host.row - 1
    BY <1>1 DEF Begun
  <2>4. ASSUME NEW n \in 1..Size
        PROVE  (\E i \in 1..Len(host.entered) : host.entered[i] = n) <=>
                   n <= host.row /\ ~IsRefused(n) /\ ~IsNull(n)
    <3>1. CASE host.at = "result"
      <4>1. Begun = host.row
        BY <3>1 DEF Begun
      <4> QED BY <2>2, <4>1
    <3>2. CASE host.at = "row" /\ IsNull(host.row)
      <4>1. Begun = host.row - 1
        BY <3>2 DEF Begun
      <4>2. n <= Begun <=> n <= host.row /\ n # host.row
        BY <1>1, <4>1
      <4> QED BY <2>2, <3>2, <4>2
    <3> QED BY <3>1, <3>2
  <2>5. \A i \in 1..Len(host.entered) : host.entered[i] \in Nat
    BY <1>1 DEF HostType
  <2>6. \A i \in 1..Len(host.entered) : 1 <= host.entered[i] /\ host.entered[i] <= host.row
    <3>1. Begun \in Int
      BY <1>1 DEF Begun
    <3> QED BY <1>1, <2>2, <2>3, <2>5, <3>1
  <2> QED BY <1>9, <2>1, <2>2, <2>4, <2>6, SameCall DEF EnteredOK
<1>13. ValueOK'
  BY <1>4, <1>5, <1>9 DEF ValueOK, SchemaMeansJson
<1> QED BY <1>8, <1>10, <1>11, <1>12, <1>13

\* A failure is reported, of a row the host refuses or one begun.
LEMMA ReportStep ==
    ASSUME CallInv, NEW what \in Causes, NEW message,
           message = Message(host.row, what),
           host' = [host EXCEPT !.reported = message, !.buffer = FALSE, !.at = "error",
                                !.cause = what],
           host.at \in {"result", "failed"} \/ (host.at = "row" /\ IsRefused(host.row))
    PROVE  (host \in HostType /\ RowOK /\ ErrorOK /\ EnteredOK /\ ValueOK)'
<1>1. host \in HostType /\ host.row \in Nat /\ Size \in Nat
  BY HostFact DEF CallInv
<1>2. 1 <= host.row /\ host.row <= Size /\ Len(host.written) = host.row - 1
  BY DEF CallInv, RowOK
<1>3. message \in Messages /\ message # None /\ "error" \in Places
  <2>1. message = [row |-> host.row, what |-> what] /\ message.row = host.row
    BY DEF Message
  <2>2. message \in Messages
    BY <1>1, <2>1 DEF Messages
  <2>3. None.row = 0
    BY DEF None
  <2>4. message # None
    BY <1>1, <1>2, <2>1, <2>3
  <2> QED BY <2>2, <2>4 DEF Places
<1>4. host' \in HostType
  BY <1>1, <1>3 DEF HostType
<1>5. /\ host'.call = host.call /\ host'.at = "error" /\ host'.row = host.row
      /\ host'.buffer = FALSE /\ host'.reported = message /\ host'.written = host.written
      /\ host'.entered = host.entered /\ host'.cause = what
  BY <1>1 DEF HostType
<1>6. RowOK'
  BY <1>2, <1>5, SameCall DEF RowOK
<1>7. ErrorOK'
  BY <1>3, <1>5 DEF ErrorOK
<1>8. EnteredOK'
  <2>1. Begun' = host.row
    BY <1>5 DEF Begun
  <2>2. /\ \A i, j \in 1..Len(host.entered) : i < j => host.entered[i] < host.entered[j]
        /\ \A i \in 1..Len(host.entered) : 1 <= host.entered[i] /\ host.entered[i] <= Begun
        /\ \A n \in 1..Size : (\E i \in 1..Len(host.entered) : host.entered[i] = n) <=>
                                  n <= Begun /\ ~IsRefused(n) /\ ~IsNull(n)
    BY DEF CallInv, EnteredOK
  <2>3. Begun <= host.row /\ Begun \in Int
    BY <1>1 DEF Begun
  <2>4. ASSUME NEW n \in 1..Size
        PROVE  (\E i \in 1..Len(host.entered) : host.entered[i] = n) <=>
                   n <= host.row /\ ~IsRefused(n) /\ ~IsNull(n)
    <3>1. CASE host.at \in {"result", "failed"}
      <4>1. Begun = host.row
        BY <3>1 DEF Begun
      <4> QED BY <2>2, <4>1
    <3>2. CASE host.at = "row" /\ IsRefused(host.row)
      <4>1. Begun = host.row - 1
        BY <3>2 DEF Begun
      <4>2. n <= Begun <=> n <= host.row /\ n # host.row
        BY <1>1, <4>1
      <4> QED BY <2>2, <3>2, <4>2
    <3> QED BY <3>1, <3>2
  <2>5. \A i \in 1..Len(host.entered) : host.entered[i] \in Nat
    BY <1>1 DEF HostType
  <2>6. \A i \in 1..Len(host.entered) : 1 <= host.entered[i] /\ host.entered[i] <= host.row
    BY <1>1, <2>2, <2>3, <2>5
  <2> QED BY <1>5, <2>1, <2>2, <2>4, <2>6, SameCall DEF EnteredOK
<1>9. ValueOK'
  BY <1>5 DEF CallInv, ValueOK, SchemaMeansJson
<1> QED BY <1>4, <1>6, <1>7, <1>8, <1>9

LEMMA EnterStep ==
    ASSUME CallInv, Enter
    PROVE  (host \in HostType /\ RowOK /\ ErrorOK /\ EnteredOK /\ ValueOK)'
<1> DEFINE e == Append(host.entered, host.row)
<1>1. host \in HostType /\ host.row \in Nat /\ Size \in Nat /\ host.entered \in Seq(Nat)
  BY HostFact DEF CallInv
<1>2. /\ host' = [host EXCEPT !.at = "core", !.errmsg = None, !.entered = e]
      /\ host.at = "row" /\ ~IsRefused(host.row) /\ ~IsNull(host.row)
  BY DEF Enter, Host
<1>3. 1 <= host.row /\ host.row <= Size /\ Len(host.written) = host.row - 1 /\ ~host.buffer
  BY <1>2 DEF CallInv, RowOK
<1>4. /\ e \in Seq(Nat) /\ Len(e) = Len(host.entered) + 1 /\ e[Len(e)] = host.row
      /\ \A i \in 1..Len(host.entered) : e[i] = host.entered[i]
  BY <1>1
<1> HIDE DEF e
<1>5. None \in Messages /\ "core" \in Places
  BY DEF None, Messages, Places, Causes
<1>6. host' \in HostType
  BY <1>1, <1>2, <1>4, <1>5 DEF HostType
<1>7. /\ host'.call = host.call /\ host'.at = "core" /\ host'.row = host.row
      /\ host'.buffer = host.buffer /\ host'.reported = host.reported
      /\ host'.written = host.written /\ host'.entered = e
  BY <1>1, <1>2 DEF HostType
<1>8. RowOK'
  BY <1>3, <1>7, SameCall DEF RowOK
<1>9. ErrorOK'
  BY <1>2, <1>7 DEF CallInv, ErrorOK
<1>10. EnteredOK'
  <2>1. Begun' = host.row /\ Begun = host.row - 1
    BY <1>2, <1>7 DEF Begun
  <2>2. /\ \A i, j \in 1..Len(host.entered) : i < j => host.entered[i] < host.entered[j]
        /\ \A i \in 1..Len(host.entered) : 1 <= host.entered[i] /\ host.entered[i] <= Begun
        /\ \A n \in 1..Size : (\E i \in 1..Len(host.entered) : host.entered[i] = n) <=>
                                  n <= Begun /\ ~IsRefused(n) /\ ~IsNull(n)
    BY <1>2 DEF CallInv, EnteredOK
  <2> DEFINE m == Len(host.entered)
  <2>3. m \in Nat /\ Len(e) = m + 1 /\ \A i \in 1..(m + 1) : (i \in 1..m \/ i = m + 1)
    BY <1>1, <1>4
  <2>4. /\ \A i \in 1..m : e[i] = host.entered[i] /\ e[i] \in Nat /\ 1 <= e[i] /\ e[i] <= host.row - 1
        /\ e[m + 1] = host.row
    <3>1. \A i \in 1..m : host.entered[i] \in Nat
      BY <1>1
    <3> QED BY <1>4, <2>1, <2>2, <2>3, <3>1
  <2> HIDE DEF m
  <2>5. \A i \in 1..(m + 1) : 1 <= e[i] /\ e[i] <= host.row
    BY <1>1, <1>3, <2>3, <2>4
  <2>6. \A i, j \in 1..(m + 1) : i < j => e[i] < e[j]
    <3> SUFFICES ASSUME NEW i \in 1..(m + 1), NEW j \in 1..(m + 1), i < j PROVE e[i] < e[j]
      OBVIOUS
    <3>1. i \in 1..m
      BY <2>3
    <3>2. CASE j = m + 1
      BY <1>1, <2>4, <3>1, <3>2
    <3>3. CASE j \in 1..m
      BY <2>2, <2>4, <3>1, <3>3 DEF m
    <3> QED BY <2>3, <3>2, <3>3
  <2>7. ASSUME NEW n \in 1..Size
        PROVE  (\E i \in 1..(m + 1) : e[i] = n) <=>
                   n <= host.row /\ ~IsRefused(n) /\ ~IsNull(n)
    <3>1. CASE n = host.row
      <4>1. m + 1 \in 1..(m + 1) /\ e[m + 1] = n
        BY <2>3, <2>4, <3>1
      <4> QED BY <1>1, <1>2, <3>1, <4>1
    <3>2. CASE n # host.row
      <4>1. (\E i \in 1..(m + 1) : e[i] = n) <=> (\E i \in 1..m : host.entered[i] = n)
        <5>1. \A i \in 1..m : i \in 1..(m + 1)
          BY <2>3
        <5> QED BY <2>3, <2>4, <3>2, <5>1
      <4>2. n <= host.row - 1 <=> n <= host.row
        BY <1>1, <3>2
      <4> QED BY <2>1, <2>2, <4>1, <4>2 DEF m
    <3> QED BY <3>1, <3>2
  <2> QED BY <1>7, <2>1, <2>3, <2>5, <2>6, <2>7, SameCall DEF EnteredOK
<1>11. ValueOK'
  BY <1>7 DEF CallInv, ValueOK, SchemaMeansJson
<1> QED BY <1>6, <1>8, <1>9, <1>10, <1>11

\* The row moves on inside the core, or out of it with a string or a message.
LEMMA InsideStep ==
    ASSUME CallInv, NEW place, NEW buffer \in BOOLEAN, NEW errmsg \in Messages,
           NEW cause \in Causes,
           host' = [host EXCEPT !.at = place, !.buffer = buffer, !.errmsg = errmsg,
                                !.cause = cause],
           host.at \in {"core", "loop"}, place \in {"loop", "result", "failed"},
           buffer => place = "result",
           place = "failed" => errmsg = Message(host.row, cause),
           place = "result" /\ Completes => pc' = "returned"
    PROVE  (host \in HostType /\ RowOK /\ ErrorOK /\ EnteredOK /\ ValueOK)'
<1>1. host \in HostType
  BY DEF CallInv
<1>2. place \in Places
  BY DEF Places
<1>3. host' \in HostType
  BY <1>1, <1>2 DEF HostType
<1>4. /\ host'.call = host.call /\ host'.at = place /\ host'.row = host.row
      /\ host'.buffer = buffer /\ host'.reported = host.reported
      /\ host'.written = host.written /\ host'.entered = host.entered
      /\ host'.errmsg = errmsg /\ host'.cause = cause
  BY <1>1 DEF HostType
<1>5. RowOK'
  BY <1>4, SameCall DEF CallInv, RowOK
<1>6. ErrorOK'
  BY <1>4 DEF CallInv, ErrorOK
<1>7. Begun' = Begun
  BY <1>4 DEF Begun
<1>8. EnteredOK'
  BY <1>4, <1>7, SameCall DEF CallInv, EnteredOK
<1>9. ValueOK'
  BY <1>4, SameCall DEF CallInv, ValueOK, SchemaMeansJson
<1> QED BY <1>3, <1>5, <1>6, <1>8, <1>9

LEMMA CallNextInv == CallInv /\ [CallNext]_callVars => CallInv'
<1> SUFFICES ASSUME CallInv, [CallNext]_callVars PROVE CallInv'
  OBVIOUS
<1>1. TalkInv'
  BY LoopSteps, TalkNext DEF CallInv
<1> DEFINE Nothing == [schema |-> FALSE, json |-> FALSE]
<1>2. /\ host \in HostType /\ host.row \in Nat /\ host.cause \in Causes
      /\ host.buffer \in BOOLEAN /\ host.errmsg \in Messages
  BY HostFact DEF CallInv
<1>3. CASE Invoke
  <2>1. UNCHANGED vars
    BY <1>3 DEF Invoke, Host
  <2> QED BY <1>1, <1>3, <2>1, InvokeStep DEF CallInv
<1>4. CASE Refuse
  <2> DEFINE m == Message(host.row, "refused")
  <2>1. host' = [host EXCEPT !.reported = m, !.buffer = FALSE, !.at = "error",
                             !.cause = "refused"]
    BY <1>4 DEF Refuse, Host, Report
  <2>2. host.at = "row" /\ IsRefused(host.row) /\ "refused" \in Causes
    BY <1>4 DEF Refuse, Causes
  <2> HIDE DEF m
  <2>3. m = Message(host.row, "refused")
    BY DEF m
  <2> QED BY <1>1, <2>1, <2>2, <2>3, ReportStep DEF CallInv
<1>5. CASE UnpackFails
  <2> DEFINE m == Message(host.row, "unpack")
  <2>1. host' = [host EXCEPT !.reported = m, !.buffer = FALSE, !.at = "error",
                             !.cause = "unpack"]
    BY <1>5 DEF UnpackFails, Host, Report
  <2>2. host.at \in {"result", "failed"} /\ "unpack" \in Causes
    BY <1>5 DEF UnpackFails, Causes
  <2> HIDE DEF m
  <2>3. m = Message(host.row, "unpack")
    BY DEF m
  <2>4. (host \in HostType /\ RowOK /\ ErrorOK /\ EnteredOK /\ ValueOK)'
    BY <2>1, <2>2, <2>3, ReportStep
  <2> QED BY <1>1, <2>4 DEF CallInv
<1>6. CASE Failed
  <2> DEFINE m == host.errmsg
  <2>1. /\ host' = [host EXCEPT !.reported = host.errmsg, !.buffer = FALSE, !.at = "error"]
        /\ host.at = "failed"
    BY <1>6 DEF Failed, Host, Report
  <2>2. host' = [host EXCEPT !.reported = m, !.buffer = FALSE, !.at = "error",
                             !.cause = host.cause]
    BY <1>2, <2>1 DEF HostType
  <2>3. m = Message(host.row, host.cause)
    BY <2>1 DEF CallInv, ErrorOK
  <2>4. host.at \in {"result", "failed"}
    BY <2>1
  <2> HIDE DEF m
  <2>5. (host \in HostType /\ RowOK /\ ErrorOK /\ EnteredOK /\ ValueOK)'
    BY <1>2, <2>2, <2>3, <2>4, ReportStep
  <2> QED BY <1>1, <2>5 DEF CallInv
<1>7. CASE WriteNull
  <2>1. /\ host.at = "row" /\ IsNull(host.row)
        /\ host' = Wrote(Nothing)
    BY <1>7 DEF WriteNull, Host
  <2>2. Nothing \in Value /\ (Nothing.schema => Nothing.json)
    BY DEF Value
  <2> HIDE DEF Nothing
  <2> QED BY <1>1, <2>1, <2>2, WroteStep DEF CallInv
<1>8. CASE Write
  <2> DEFINE v == [schema |-> Completes /\ useSchema, json |-> Completes /\ json]
  <2>1. host.at = "result" /\ host' = Wrote(v)
    BY <1>8 DEF Write, Host
  <2>2. v.schema => v.json
    <3>1. Completes => pc = "returned"
      BY <2>1 DEF CallInv, ValueOK
    <3>2. pc = "returned" /\ useSchema => json
      BY DEF CallInv, TalkInv, Said
    <3> QED BY <3>1, <3>2
  <2>3. v \in Value
    BY DEF Value, Completes, CallInv, TalkInv
  <2> HIDE DEF v
  <2>4. (host \in HostType /\ RowOK /\ ErrorOK /\ EnteredOK /\ ValueOK)'
    BY <2>1, <2>2, <2>3, WroteStep
  <2> QED BY <1>1, <2>4 DEF CallInv
<1>9. CASE Enter
  BY <1>1, <1>9, EnterStep DEF CallInv
<1>10. CASE CoreFails \/ LoopFails \/ AnswerLost
  <2>1. PICK what \in Causes : host' = SetError(what) /\ host.at \in {"core", "loop"}
    BY <1>10 DEF CoreFails, LoopFails, AnswerLost, Host, Causes
  <2> DEFINE m == Message(host.row, what)
  <2>2. host' = [host EXCEPT !.errmsg = m, !.cause = what, !.at = "failed"]
    BY <2>1 DEF SetError
  <2>3. m \in Messages
    BY <1>2 DEF Message, Messages
  <2>4. ~host.buffer
    BY <2>1 DEF CallInv, RowOK
  <2>5. m = Message(host.row, what)
    OBVIOUS
  <2> HIDE DEF m
  <2>6. host' = [host EXCEPT !.at = "failed", !.buffer = FALSE, !.errmsg = m, !.cause = what]
    BY <1>2, <2>2, <2>4 DEF HostType
  <2> QED BY <1>1, <2>1, <2>3, <2>5, <2>6, InsideStep DEF CallInv
<1>11. CASE CoreReturns \/ AnswerReturns
  <2>1. host' = [host EXCEPT !.buffer = TRUE, !.at = "result"] /\ host.at \in {"core", "loop"}
        /\ (Completes => pc' = "returned")
    BY <1>11 DEF CoreReturns, AnswerReturns, Host, Dup, vars, talk
  <2>2. host' = [host EXCEPT !.at = "result", !.buffer = TRUE, !.errmsg = host.errmsg,
                             !.cause = host.cause]
    BY <1>2, <2>1 DEF HostType
  <2>3. ASSUME NEW place, place = "result", NEW b \in BOOLEAN, b = TRUE
        PROVE  (host \in HostType /\ RowOK /\ ErrorOK /\ EnteredOK /\ ValueOK)'
    <3>1. host' = [host EXCEPT !.at = place, !.buffer = b, !.errmsg = host.errmsg,
                               !.cause = host.cause]
      BY <2>2, <2>3
    <3>2. place \in {"loop", "result", "failed"} /\ place # "failed"
      BY <2>3
    <3> QED BY <1>2, <2>1, <2>3, <3>1, <3>2, InsideStep, ZenonT(30)
  <2> QED BY <1>1, <2>3 DEF CallInv
<1>12. CASE StartLoop \/ InLoop
  <2>1. host' = [host EXCEPT !.at = "loop"] /\ host.at \in {"core", "loop"}
    BY <1>2, <1>12 DEF StartLoop, InLoop, HostType
  <2>2. host' = [host EXCEPT !.at = "loop", !.buffer = FALSE, !.errmsg = host.errmsg,
                             !.cause = host.cause]
    <3>1. ~host.buffer
      BY <2>1 DEF CallInv, RowOK
    <3> QED BY <1>2, <2>1, <3>1 DEF HostType
  <2>3. (host \in HostType /\ RowOK /\ ErrorOK /\ EnteredOK /\ ValueOK)'
    BY <1>2, <2>1, <2>2, InsideStep
  <2> QED BY <1>1, <2>3 DEF CallInv
<1>13. CASE UNCHANGED callVars
  <2>1. host' = host /\ pc' = pc
    BY <1>13 DEF callVars, vars, talk
  <2>2. host' \in HostType /\ RowOK' /\ ErrorOK'
    BY <2>1 DEF CallInv, RowOK, ErrorOK, Size
  <2>3. Begun' = Begun
    BY <2>1 DEF Begun, Size
  <2>4. EnteredOK'
    BY <2>1, <2>3, SameCall DEF CallInv, EnteredOK
  <2>5. ValueOK'
    BY <2>1, SameCall DEF CallInv, ValueOK, SchemaMeansJson
  <2> QED BY <1>1, <2>2, <2>4, <2>5 DEF CallInv
<1> QED BY <1>3, <1>4, <1>5, <1>6, <1>7, <1>8, <1>9, <1>10, <1>11, <1>12, <1>13
        DEF CallNext, CallStep

LEMMA CallAlways == CallSpec => []CallInv
<1> QED BY CallInitInv, CallNextInv, PTL DEF CallSpec

\* The string of a row is freed before the next row begins and on every way out.
THEOREM CallFreesStrings == CallSpec => []StringsFreed
<1>1. CallInv => StringsFreed
  BY DEF CallInv, RowOK, StringsFreed
<1> QED BY <1>1, CallAlways, PTL

\* A failed statement shows the message of the row and step that failed, never
\* one that bh_errmsg kept.
THEOREM CallReportsOwnError == CallSpec => []ReportsOwnError
<1>1. CallInv => ReportsOwnError
  BY DEF CallInv, ErrorOK, ReportsOwnError
<1> QED BY <1>1, CallAlways, PTL

\* Up to the row that fails every row is written once and in order and enters the
\* core once, unless its host answers it alone; no later row does.
THEOREM CallStopsAtError == CallSpec => []RowsStopAtError
<1>1. ASSUME CallInv, host.at = "done" \/ host.reported # None
      PROVE  /\ host.at = (IF host.reported = None THEN "done" ELSE "error")
             /\ Len(host.written) = (IF host.at = "error" THEN LastRow - 1 ELSE LastRow)
             /\ \A i, j \in 1..Len(host.entered) : i < j => host.entered[i] < host.entered[j]
             /\ \A n \in 1..Len(host.call.rows) :
                   (\E i \in 1..Len(host.entered) : host.entered[i] = n) <=>
                       n <= LastRow /\ ~IsRefused(n) /\ ~IsNull(n)
  <2>1. \/ host.at = "done" /\ host.reported = None
        \/ host.at = "error" /\ host.reported # None
    BY <1>1 DEF CallInv, ErrorOK
  <2>2. LastRow = Begun
    BY <2>1 DEF LastRow, Begun, Size
  <2>3. Len(host.written) = (IF host.at = "error" THEN LastRow - 1 ELSE LastRow)
    BY <1>1, <2>1 DEF CallInv, RowOK, LastRow, Size
  <2>4. /\ \A i, j \in 1..Len(host.entered) : i < j => host.entered[i] < host.entered[j]
        /\ \A n \in 1..Size :
              (\E i \in 1..Len(host.entered) : host.entered[i] = n) <=>
                  n <= Begun /\ ~IsRefused(n) /\ ~IsNull(n)
    BY <1>1, <2>1 DEF CallInv, EnteredOK
  <2>5. host.at = (IF host.reported = None THEN "done" ELSE "error")
    BY <2>1
  <2> QED BY <2>2, <2>3, <2>4, <2>5 DEF Size
<1>2. CallInv => RowsStopAtError
  BY <1>1 DEF RowsStopAtError
<1> QED BY <1>2, CallAlways, PTL

\* What is written for a call with an output schema is JSON: the answer that
\* the loop validated is the one that is copied out.
THEOREM CallSchemaMeansJson == CallSpec => []SchemaMeansJson
<1>1. CallInv => SchemaMeansJson
  BY DEF CallInv, ValueOK
<1> QED BY <1>1, CallAlways, PTL

-----------------------------------------------------------------------------
(* Every call ends *)

LEMMA StepSizes ==
  /\ AttemptSteps \in Nat /\ AttemptSteps >= 2
  /\ MaxContinuations > 0 => AttemptSteps = MaxContinuations + 2
  /\ AtLeast(MaxRetries, 1) \in Nat /\ AtLeast(MaxRetries, 1) >= 1
  /\ AtLeast(MaxRetries, 0) \in Nat /\ AtLeast(MaxRetries, 0) <= AtLeast(MaxRetries, 1)
  BY LlmAssumption DEF AttemptSteps, AtLeast

LEMMA Product ==
    ASSUME NEW k \in Int, NEW s \in Nat
    PROVE  k * s \in Int /\ (k - 1) * s = k * s - s /\ (k >= 0 => k * s >= 0) /\ 0 * s = 0
<1>1. k * s \in Int /\ (k - 1) * s = k * s - s /\ 0 * s = 0
  OBVIOUS
<1>2. CASE k >= 0
  <2>1. k \in Nat
    BY <1>2
  <2> QED BY <1>1, <2>1
<1>3. CASE ~(k >= 0)
  BY <1>1, <1>3
<1> QED BY <1>2, <1>3

LEMMA ProductGrows ==
    ASSUME NEW a \in Nat, NEW b \in Nat, a <= b, NEW s \in Nat
    PROVE  a * s <= b * s
<1>1. (b - a) * s >= 0 /\ b * s = a * s + (b - a) * s
  <2>1. b - a \in Nat
    OBVIOUS
  <2> QED BY <2>1, Product
<1> QED BY <1>1

\* What is left at each place of the loop.
LEMMA LeftAt ==
  /\ pc = "setup" => LoopLeft = AttemptsLeft * AttemptSteps + 2
  /\ pc = "attempt" => LoopLeft = AttemptsLeft * AttemptSteps + 1
  /\ pc = "post" => LoopLeft = (AttemptsLeft - 1) * AttemptSteps + 2 + MaxContinuations - cont
  /\ pc = "validate" => LoopLeft = (AttemptsLeft - 1) * AttemptSteps + 2
  /\ pc \in Outcomes => LoopLeft = 0
  BY DEF LoopLeft, Outcomes

LEMMA LeftAtNext ==
  /\ pc' = "setup" => LoopLeft' = AttemptsLeft' * AttemptSteps + 2
  /\ pc' = "attempt" => LoopLeft' = AttemptsLeft' * AttemptSteps + 1
  /\ pc' = "post" =>
        LoopLeft' = (AttemptsLeft' - 1) * AttemptSteps + 2 + MaxContinuations - cont'
  /\ pc' = "validate" => LoopLeft' = (AttemptsLeft' - 1) * AttemptSteps + 2
  /\ pc' \in Outcomes => LoopLeft' = 0
  BY DEF LoopLeft, Outcomes

\* An attempt is left for every POST and every judgement.
LEMMA AttemptsFact ==
    ASSUME Inv
    PROVE  /\ AttemptsLeft \in Nat
           /\ pc \in {"post", "validate"} => AttemptsLeft >= 1
           /\ pc \in {"post", "validate"} =>
                 MaxContinuations > 0 /\ MaxContinuations - cont \in Nat \ {0}
<1>1. Counts /\ InAttempt /\ Attempts
  BY DEF Inv
<1>2. useSchema => (attempt <= MaxRetries \/ attempt = 0) /\ attempt \in Nat
  BY <1>1 DEF Attempts, Counts
<1>3. AttemptsLeft \in Nat
  BY <1>1, <1>2, LlmAssumption DEF AttemptsLeft, AtLeast, Attempts, Counts
<1>4. pc \in {"post", "validate"} => AttemptsLeft >= 1
  BY <1>1, LlmAssumption DEF AttemptsLeft, AtLeast, Attempts, Counts
<1>5. pc \in {"post", "validate"} => cont + 1 <= MaxContinuations /\ cont \in Nat
  BY <1>1 DEF InAttempt, Counts
<1> QED BY <1>3, <1>4, <1>5, LlmAssumption

\* Each step of the loop uses up at least one of those left.
LEMMA LoopDecreases ==
    ASSUME Inv, Inv', Loop
    PROVE  LoopLeft' \in 0..(LoopLeft - 1)
<1> DEFINE a == AttemptsLeft
           s == AttemptSteps
           m == MaxContinuations
<1>1. /\ a \in Nat /\ s \in Nat /\ s >= 2 /\ m \in Int /\ cont \in Nat
      /\ m > 0 => s = m + 2
  BY AttemptsFact, StepSizes, LlmAssumption DEF Inv, Counts
<1>2. a * s \in Nat /\ (a - 1) * s = a * s - s /\ (a >= 1 => a * s - s \in Nat)
  <2>1. a * s \in Int /\ a * s >= 0 /\ (a - 1) * s = a * s - s
    BY <1>1, Product
  <2>2. a >= 1 => (a - 1) * s >= 0
    BY <1>1, Product
  <2> QED BY <1>1, <2>1, <2>2
<1>3. /\ pc \in {"post", "validate"} => a >= 1 /\ m > 0 /\ m - cont >= 1
  BY AttemptsFact, <1>1
<1>4. pc' \in {"post", "validate"} => m - cont' >= 1 /\ m > 0 /\ cont' \in Nat
  <2>1. pc' \in {"post", "validate"} => cont' + 1 <= m /\ cont' \in Nat
    BY DEF Inv, InAttempt, Counts
  <2> QED BY <1>1, <2>1
<1>5. CASE Setup
  <2>1. pc = "setup" /\ pc' = "attempt" /\ AttemptsLeft' = a
    BY <1>5 DEF Setup, AttemptsLeft
  <2>2. LoopLeft = a * s + 2 /\ LoopLeft' = a * s + 1
    BY <2>1, LeftAt, LeftAtNext
  <2> HIDE DEF a, s
  <2> QED BY <1>2, <2>2
<1>6. CASE Throw \/ Exhausted \/ Valid
  <2>1. pc' \in Outcomes /\ pc \in {"setup", "attempt", "post", "validate"}
    BY <1>6 DEF Throw, Exhausted, Valid, Outcomes
  <2>2. LoopLeft' = 0
    BY <2>1, LeftAtNext
  <2>3. LoopLeft \in Nat \ {0}
    <3>1. \/ LoopLeft = a * s + 2 \/ LoopLeft = a * s + 1
          \/ (a >= 1 /\ m - cont >= 1 /\ LoopLeft = (a - 1) * s + 2 + m - cont)
          \/ (a >= 1 /\ LoopLeft = (a - 1) * s + 2)
      BY <1>3, <2>1, LeftAt
    <3> HIDE DEF a, s, m
    <3> QED BY <1>1, <1>2, <3>1
  <2> QED BY <2>2, <2>3
<1>7. CASE BeginAttempt
  <2>1. pc = "attempt" /\ pc' \in {"post", "limit"} /\ AttemptsLeft' = a /\ cont' = 0
    BY <1>7 DEF BeginAttempt, AttemptsLeft
  <2>2. LoopLeft = a * s + 1
    BY <2>1, LeftAt
  <2>3. CASE pc' = "limit"
    <3>1. LoopLeft' = 0
      BY <2>3, LeftAtNext DEF Outcomes
    <3> HIDE DEF a, s
    <3> QED BY <1>2, <2>2, <3>1
  <2>4. CASE pc' = "post"
    <3>1. LoopLeft' = (a - 1) * s + 2 + m - 0 /\ m > 0
      BY <1>4, <2>1, <2>4, LeftAtNext
    <3>2. a >= 1
      <4>1. /\ useSchema => attempt < MaxRetries
            /\ ~useSchema => attempt = 0
            /\ attempt \in Nat
        BY <1>7 DEF BeginAttempt, Inv, Attempts, Counts
      <4> QED BY <4>1, LlmAssumption DEF AttemptsLeft, AtLeast
    <3> HIDE DEF a, s, m
    <3> QED BY <1>1, <1>2, <2>2, <3>1, <3>2
  <2> QED BY <2>1, <2>3, <2>4
<1>8. CASE Finish
  <2>1. /\ pc = "post" /\ pc' \in {"validate", "returned"} /\ AttemptsLeft' = a
    BY <1>8 DEF Finish, AttemptsLeft
  <2>2. LoopLeft = (a - 1) * s + 2 + m - cont
    BY <2>1, LeftAt
  <2>3. LoopLeft' = 0 \/ LoopLeft' = (a - 1) * s + 2
    BY <2>1, LeftAtNext DEF Outcomes
  <2>4. a >= 1 /\ m - cont >= 1
    BY <1>3, <2>1
  <2> HIDE DEF a, s, m
  <2> QED BY <1>1, <1>2, <2>2, <2>3, <2>4
<1>9. CASE Truncated
  <2>1. /\ pc = "post" /\ pc' \in {"post", "limit"} /\ AttemptsLeft' = a /\ cont' = cont + 1
    BY <1>9 DEF Truncated, AttemptsLeft
  <2>2. LoopLeft = (a - 1) * s + 2 + m - cont
    BY <2>1, LeftAt
  <2>3. LoopLeft' = 0 \/ (m - cont' >= 1 /\ LoopLeft' = (a - 1) * s + 2 + m - cont')
    BY <1>4, <2>1, LeftAtNext DEF Outcomes
  <2>4. a >= 1 /\ m - cont >= 1 /\ cont' = cont + 1
    BY <1>3, <2>1
  <2> HIDE DEF a, s, m
  <2> QED BY <1>1, <1>2, <2>2, <2>3, <2>4
<1>10. CASE Invalid
  <2>1. /\ pc = "validate" /\ pc' = "attempt" /\ AttemptsLeft' = a - 1
    BY <1>10, LlmAssumption, SMTT(30) DEF Invalid, AttemptsLeft, AtLeast, Inv, Counts
  <2>2. LoopLeft = (a - 1) * s + 2 /\ LoopLeft' = (a - 1) * s + 1
    BY <2>1, LeftAt, LeftAtNext
  <2>3. a >= 1
    BY <1>3, <2>1
  <2> HIDE DEF a, s
  <2> QED BY <1>1, <1>2, <2>2, <2>3
<1> QED BY <1>5, <1>6, <1>7, <1>8, <1>9, <1>10 DEF Loop

\* A loop that is entered has no more steps than a row allows for it.
LEMMA LoopFits ==
    ASSUME Inv', Call
    PROVE  LoopLeft' \in 0..(RowSteps - 4)
<1> DEFINE a == AttemptsLeft'
           b == AtLeast(MaxRetries, 1)
           s == AttemptSteps
<1>1. pc' = "setup" /\ attempt' = 0
  BY DEF Call
<1>2. a \in Nat /\ b \in Nat /\ a <= b /\ s \in Nat
  BY <1>1, StepSizes DEF AttemptsLeft
<1>3. LoopLeft' = a * s + 2
  BY <1>1, LeftAtNext
<1>4. RowSteps = b * s + 6
  BY DEF RowSteps
<1> HIDE DEF a, b, s
<1>5. a * s <= b * s /\ a * s >= 0 /\ a * s \in Int /\ b * s \in Int
  BY <1>2, Product, ProductGrows
<1> QED BY <1>3, <1>4, <1>5

\* What is left of a call, at each place.
Later == (Size - host.row) * RowSteps

LEMMA StepsAt ==
  /\ host.at = "row" => StepsLeft = Later + RowSteps
  /\ host.at = "core" => StepsLeft = Later + RowSteps - 1
  /\ host.at = "loop" => StepsLeft = Later + LoopLeft + 2
  /\ host.at \in {"result", "failed"} => StepsLeft = Later + 1
  /\ host.at \in {"idle", "done", "error"} => StepsLeft = 0
  BY DEF StepsLeft, Later, Size

LEMMA StepsAtNext ==
  /\ host'.at = "row" => StepsLeft' = Later' + RowSteps
  /\ host'.at = "core" => StepsLeft' = Later' + RowSteps - 1
  /\ host'.at = "loop" => StepsLeft' = Later' + LoopLeft' + 2
  /\ host'.at \in {"result", "failed"} => StepsLeft' = Later' + 1
  /\ host'.at \in {"idle", "done", "error"} => StepsLeft' = 0
  BY DEF StepsLeft, Later, Size

\* The value of a row that is over leads to the next row, or to the end.
LEMMA WroteMoves ==
    ASSUME host \in HostType, NEW v, host' = Wrote(v)
    PROVE  \/ host'.at = "done"
           \/ host'.at = "row" /\ host'.row = host.row + 1 /\ host'.call = host.call
<1> DEFINE place == IF host.row = Len(host.call.rows) THEN "done" ELSE "row"
           w == Append(host.written, v)
           n == host.row + 1
<1>1. host' = [host EXCEPT !.written = w, !.buffer = FALSE, !.row = n, !.at = place]
  BY DEF Wrote
<1>2. place \in {"done", "row"}
  OBVIOUS
<1> HIDE DEF place, w, n
<1>3. host'.at = place /\ host'.row = n /\ host'.call = host.call
  BY <1>1 DEF HostType
<1> QED BY <1>2, <1>3 DEF n

\* A step of a call in progress, but for the steps of the loop.
LEMMA CallMoves ==
    ASSUME CallInv, CallStep, ~InLoop
    PROVE  \/ host'.at \in {"done", "error"}
           \/ /\ host.at \in {"row", "result"}
              /\ host'.at = "row" /\ host'.row = host.row + 1 /\ host'.call = host.call
           \/ /\ host'.row = host.row /\ host'.call = host.call
              /\ \/ host.at = "row" /\ host'.at = "core"
                 \/ host.at = "core" /\ host'.at \in {"result", "failed"}
                 \/ host.at = "core" /\ host'.at = "loop" /\ Call
                 \/ host.at = "loop" /\ pc \in Outcomes /\ host'.at \in {"result", "failed"}
<1>t. host \in HostType
  BY DEF CallInv
<1>1. CASE Refuse \/ Failed \/ UnpackFails
  BY <1>t, <1>1 DEF Refuse, Failed, UnpackFails, Host, Report, HostType
<1>2. CASE WriteNull \/ Write
  <2>1. host.at \in {"row", "result"} /\ \E v : host' = Wrote(v)
    BY <1>2 DEF WriteNull, Write, Host
  <2> QED BY <1>t, <2>1, WroteMoves
<1>3. CASE Enter
  <2> DEFINE e == Append(host.entered, host.row)
  <2>1. host.at = "row" /\ host' = [host EXCEPT !.at = "core", !.errmsg = None, !.entered = e]
    BY <1>3 DEF Enter, Host
  <2> HIDE DEF e
  <2> QED BY <1>t, <2>1 DEF HostType
<1>4. CASE CoreFails \/ LoopFails \/ AnswerLost
  <2>1. /\ host.at = "core" \/ (host.at = "loop" /\ pc \in Outcomes)
        /\ \E what : host' = SetError(what)
    BY <1>4 DEF CoreFails, LoopFails, AnswerLost, Host, Outcomes
  <2>2. PICK what : host' = SetError(what)
    BY <2>1
  <2> DEFINE m == Message(host.row, what)
  <2>3. host' = [host EXCEPT !.errmsg = m, !.cause = what, !.at = "failed"]
    BY <2>2 DEF SetError
  <2> HIDE DEF m
  <2> QED BY <1>t, <2>1, <2>3 DEF HostType
<1>5. CASE CoreReturns \/ AnswerReturns
  BY <1>t, <1>5 DEF CoreReturns, AnswerReturns, Host, Dup, Outcomes, HostType
<1>6. CASE StartLoop
  BY <1>t, <1>6 DEF StartLoop, HostType
<1> QED BY <1>1, <1>2, <1>3, <1>4, <1>5, <1>6 DEF CallStep

\* Every call ends: a call of n rows never takes more than n * RowSteps steps,
\* whatever the model, the validator and the hosts' checks say of its rows.
THEOREM CallsEnd == CallSpec => CallProgress
<1> DEFINE busy == host.at \notin {"idle", "done", "error"}
           A == busy => StepsLeft' \in 0..(StepsLeft - 1)
<1>1. ASSUME CallInv, CallInv', Inv, Inv', CallNext, busy
      PROVE  StepsLeft' \in 0..(StepsLeft - 1)
  <2>1. CallStep
    BY <1>1 DEF CallNext, Invoke
  <2> DEFINE c == RowSteps
  <2>2. c \in Nat /\ c >= 8
    <3>1. AtLeast(MaxRetries, 1) * AttemptSteps \in Nat /\ AtLeast(MaxRetries, 1) * AttemptSteps >= 2
      <4>1. /\ 1 * AttemptSteps <= AtLeast(MaxRetries, 1) * AttemptSteps
            /\ AtLeast(MaxRetries, 1) * AttemptSteps \in Int
            /\ AttemptSteps \in Nat /\ AttemptSteps >= 2
        BY StepSizes, Product, ProductGrows
      <4> QED BY <4>1
    <3> QED BY <3>1 DEF RowSteps
  <2>3. /\ host.row \in Nat /\ Size \in Nat /\ host.row <= Size
        /\ host'.row \in Nat /\ Size' \in Nat
        /\ host'.at \notin {"idle", "done"} => host'.row <= Size'
        /\ host.at \in Places /\ host'.at \in Places
    <3>1. /\ host.row \in Nat /\ Size \in Nat /\ host.at \in Places
          /\ host.row <= Size
      BY <1>1, HostFact DEF CallInv, RowOK
    <3>2. host' \in HostType => host'.row \in Nat /\ host'.at \in Places
      BY DEF HostType
    <3>3. Size' \in Nat
      <4>1. host'.call \in Batches
        BY <1>1 DEF CallInv, HostType
      <4>2. host'.call.rows \in Seq(STRING)
        BY <4>1, CallAssumption
      <4> QED BY <4>2 DEF Size
    <3> QED BY <1>1, <3>1, <3>2, <3>3 DEF CallInv, RowOK
  <2>4. /\ Later \in Nat
        /\ host.row + 1 <= Size => (Size - (host.row + 1)) * c = Later - c
    <3>1. Size - host.row \in Nat /\ Size - (host.row + 1) = (Size - host.row) - 1
      BY <2>3
    <3> HIDE DEF c
    <3>2. (Size - host.row) * c \in Int /\ (Size - host.row) * c >= 0
          /\ ((Size - host.row) - 1) * c = (Size - host.row) * c - c
      BY <2>2, <3>1, Product
    <3> QED BY <3>1, <3>2 DEF c, Later
  <2>5. host'.call = host.call => Size' = Size
    BY DEF Size
  <2>6. CASE InLoop
    <3>1. host' = host /\ host.at = "loop" /\ Later' = Later
      BY <2>6 DEF InLoop, Later, Size
    <3>2. LoopLeft' \in 0..(LoopLeft - 1)
      BY <1>1, <2>6, LoopDecreases DEF InLoop
    <3>3. StepsLeft = Later + LoopLeft + 2 /\ StepsLeft' = Later + LoopLeft' + 2
      BY <3>1, StepsAt, StepsAtNext
    <3>4. LoopLeft \in Int
      <4>1. AttemptsLeft \in Nat /\ AttemptSteps \in Nat /\ cont \in Nat
        BY <1>1, AttemptsFact, StepSizes DEF Inv, Counts
      <4>2. AttemptsLeft * AttemptSteps \in Int /\ (AttemptsLeft - 1) * AttemptSteps \in Int
        BY <4>1, Product
      <4>3. pc \in {"setup", "attempt", "post", "validate"}
        BY <2>6 DEF InLoop, Loop, Setup, Throw, BeginAttempt, Exhausted, Finish, Truncated,
                    Valid, Invalid
      <4> QED BY <4>1, <4>2, <4>3, LeftAt, LlmAssumption
    <3>5. ASSUME NEW l \in Nat, NEW x \in Int, NEW y \in 0..(x - 1)
          PROVE  l + y + 2 \in 0..((l + x + 2) - 1)
      OBVIOUS
    <3>6. Later + LoopLeft' + 2 \in 0..((Later + LoopLeft + 2) - 1)
      BY <2>4, <3>2, <3>4, <3>5
    <3> QED BY <3>3, <3>6
  <2>7. CASE ~InLoop
    <3>1. CASE host'.at \in {"done", "error"}
      <4>1. StepsLeft' = 0
        BY <3>1, StepsAtNext
      <4>2. StepsLeft \in Nat \ {0}
        <5>1. host.at \in {"row", "core", "loop", "result", "failed"}
          BY <1>1, <2>3 DEF Places
        <5>2. host.at # "loop"
          BY <1>1, <2>1, <2>7, <3>1
             DEF CallStep, Refuse, WriteNull, Enter, Failed, UnpackFails, Write, CoreFails,
                 CoreReturns, StartLoop, LoopFails, AnswerLost, AnswerReturns, Host, SetError,
                 Dup, CallInv, HostType
        <5> QED BY <2>2, <2>4, <5>1, <5>2, StepsAt
      <4> QED BY <4>1, <4>2
    <3>2. CASE /\ host.at \in {"row", "result"}
               /\ host'.at = "row" /\ host'.row = host.row + 1 /\ host'.call = host.call
      <4>1. StepsLeft' = Later' + c /\ Later' = (Size - (host.row + 1)) * c
        BY <2>5, <3>2, StepsAtNext DEF Later
      <4>2. host.row + 1 <= Size
        BY <2>3, <2>5, <3>2
      <4>3. StepsLeft = Later + c \/ StepsLeft = Later + 1
        BY <3>2, StepsAt
      <4>4. Later - c \in Nat
        <5>1. Size - (host.row + 1) \in Nat
          BY <2>3, <4>2
        <5> HIDE DEF c
        <5>2. (Size - (host.row + 1)) * c >= 0
          BY <2>2, <5>1, Product
        <5> QED BY <2>2, <2>4, <4>2, <5>2
      <4> HIDE DEF c
      <4> QED BY <2>2, <2>4, <4>1, <4>2, <4>3, <4>4
    <3>3. CASE /\ host'.row = host.row /\ host'.call = host.call
               /\ \/ host.at = "row" /\ host'.at = "core"
                  \/ host.at = "core" /\ host'.at \in {"result", "failed"}
                  \/ host.at = "core" /\ host'.at = "loop" /\ Call
                  \/ host.at = "loop" /\ pc \in Outcomes /\ host'.at \in {"result", "failed"}
      <4>1. Later' = Later
        BY <2>5, <3>3 DEF Later
      <4>2. CASE host.at = "row" /\ host'.at = "core"
        BY <2>2, <2>4, <4>1, <4>2, StepsAt, StepsAtNext
      <4>3. CASE host.at = "core" /\ host'.at \in {"result", "failed"}
        BY <2>2, <2>4, <4>1, <4>3, StepsAt, StepsAtNext
      <4>4. CASE host.at = "core" /\ host'.at = "loop" /\ Call
        <5>1. LoopLeft' \in 0..(c - 4)
          BY <1>1, <4>4, LoopFits
        <5>2. StepsLeft = Later + c - 1 /\ StepsLeft' = Later + LoopLeft' + 2
          BY <4>1, <4>4, StepsAt, StepsAtNext
        <5>3. ASSUME NEW l \in Nat, NEW x \in Nat, NEW y \in 0..(x - 4)
              PROVE  l + y + 2 \in 0..((l + x - 1) - 1)
          OBVIOUS
        <5> HIDE DEF c
        <5>4. Later + LoopLeft' + 2 \in 0..((Later + c - 1) - 1)
          BY <2>2, <2>4, <5>1, <5>3
        <5> QED BY <5>2, <5>4
      <4>5. CASE host.at = "loop" /\ pc \in Outcomes /\ host'.at \in {"result", "failed"}
        <5>1. LoopLeft = 0
          BY <4>5, LeftAt
        <5>2. StepsLeft = Later + 0 + 2 /\ StepsLeft' = Later + 1
          BY <4>1, <4>5, <5>1, StepsAt, StepsAtNext
        <5> QED BY <2>4, <5>2
      <4> QED BY <3>3, <4>2, <4>3, <4>4, <4>5
    <3> QED BY <1>1, <2>1, <2>7, <3>1, <3>2, <3>3, CallMoves
  <2> QED BY <2>6, <2>7
<1>2. CallInv /\ CallInv' /\ Inv /\ Inv' /\ [CallNext]_callVars => [A]_callVars
  BY <1>1
<1>3. CallProgress <=> [][A]_callVars
  BY DEF CallProgress
<1> HIDE DEF A
<1>4. CallSpec => []Inv
  BY CallImplementsLoop, Inductive, PTL
<1> QED BY <1>2, <1>3, <1>4, CallAlways, PTL DEF CallSpec
=============================================================================
