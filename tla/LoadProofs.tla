----------------------------- MODULE LoadProofs -----------------------------
(***************************************************************************)
(* Proofs about ExtensionLoad: whatever registrations the engine refuses,  *)
(* and however many.                                                       *)
(***************************************************************************)
EXTENDS ExtensionLoad, TLAPS

-----------------------------------------------------------------------------
(* The two orders *)

LEMMA DuckdbList ==
    /\ Len(DuckdbOrder) = 17
    /\ DuckdbOrder[1] = "bh_negotiate_auth_header"
    /\ DuckdbOrder[2] = "bh_negotiate_auth_header_json"
    /\ DuckdbOrder[3] = "bh_sso_jwt"
    /\ DuckdbOrder[4] = "bh_sso_jwt_json"
    /\ DuckdbOrder[5] = "bh_negotiate_available"
    /\ DuckdbOrder[6] = "_bh_http_raw_request"
    /\ DuckdbOrder[7] = "_bh_http_raw_request_volatile"
    /\ DuckdbOrder[8] = "bh_http_rate_limit_stats"
    /\ DuckdbOrder[9] = "_llm_complete_raw"
    /\ DuckdbOrder[10] = "_llm_adapt_raw"
    /\ DuckdbOrder[11] = "_bh_http_config"
    /\ DuckdbOrder[12] = "bh_http_get"
    /\ DuckdbOrder[13] = "bh_http_post"
    /\ DuckdbOrder[14] = "bh_http_config_set"
    /\ DuckdbOrder[15] = "bh_http_config_set_bearer"
    /\ DuckdbOrder[16] = "llm_complete"
    /\ DuckdbOrder[17] = "llm_adapt"
  BY DEF DuckdbOrder, EntryPoint, RegisterHttpFunctions, RegisterLlmFunctions,
         RegisterLlmAdaptFunction, RegisterHttpMacros

LEMMA SqliteList ==
    /\ Len(SqliteOrder) = 17
    /\ SqliteOrder[1] = "bh_http_request"
    /\ SqliteOrder[2] = "bh_http_get"
    /\ SqliteOrder[3] = "bh_http_post"
    /\ SqliteOrder[4] = "bh_http_body"
    /\ SqliteOrder[5] = "bh_sso_jwt"
    /\ SqliteOrder[6] = "bh_sso_jwt_json"
    /\ SqliteOrder[7] = "bh_negotiate_auth_header"
    /\ SqliteOrder[8] = "bh_negotiate_auth_header_json"
    /\ SqliteOrder[9] = "bh_http_head"
    /\ SqliteOrder[10] = "bh_http_options"
    /\ SqliteOrder[11] = "bh_http_delete"
    /\ SqliteOrder[12] = "bh_http_put"
    /\ SqliteOrder[13] = "bh_http_patch"
    /\ SqliteOrder[14] = "llm_complete"
    /\ SqliteOrder[15] = "bh_negotiate_available"
    /\ SqliteOrder[16] = "bh_http_rate_limit_stats"
    /\ SqliteOrder[17] = "bh_http_adapt"
  BY DEF SqliteOrder, Verbs

LEMMA Seventeen ==
    ASSUME NEW k \in 1..17
    PROVE  \/ k = 1 \/ k = 2 \/ k = 3 \/ k = 4 \/ k = 5 \/ k = 6 \/ k = 7 \/ k = 8
           \/ k = 9 \/ k = 10 \/ k = 11 \/ k = 12 \/ k = 13 \/ k = 14 \/ k = 15
           \/ k = 16 \/ k = 17
  OBVIOUS

\* Nothing is registered twice.
LEMMA DuckdbDistinct ==
    \A i, j \in 1..17 : DuckdbOrder[i] = DuckdbOrder[j] => i = j
<1> DEFINE d == DuckdbOrder
<1>1. ASSUME NEW i \in 1..17, NEW j \in 1..17, d[i] = d[j] PROVE i = j
  BY <1>1, DuckdbList, Seventeen
<1> QED BY <1>1

LEMMA SqliteDistinct ==
    \A i, j \in 1..17 : SqliteOrder[i] = SqliteOrder[j] => i = j
<1> DEFINE d == SqliteOrder
<1>1. ASSUME NEW i \in 1..17, NEW j \in 1..17, d[i] = d[j] PROVE i = j
  BY <1>1, SqliteList, Seventeen
<1> QED BY <1>1

\* What a macro's body names comes before it, but for what the user provides.
LEMMA NeedsPrecede ==
    ASSUME NEW k \in 1..17, DuckdbOrder[k] \in Macros \ Optional
    PROVE  /\ Needs[DuckdbOrder[k]] \in SUBSET {DuckdbOrder[j] : j \in 1..(k - 1)}
           /\ Needs[DuckdbOrder[k]] \cap
                 {"llm_adapt", "llm_adapter", "bt_template_render"} = {}
<1> DEFINE d == DuckdbOrder
<1>1. k \in {11, 12, 13, 14, 15, 16}
  BY DuckdbList, Seventeen DEF Macros, Optional, Needs
<1>2. Needs[d[k]] \subseteq {d[6], d[7], d[9], d[11], d[14]}
  BY <1>1, DuckdbList DEF Needs
<1>3. Needs[d[k]] \cap {"llm_adapt", "llm_adapter", "bt_template_render"} = {}
  BY <1>2, DuckdbList
<1>4. ASSUME NEW m \in Needs[d[k]] PROVE \E j \in 1..(k - 1) : m = d[j]
  <2>1. CASE k = 11
    BY <2>1, DuckdbList DEF Needs
  <2>2. CASE k = 12
    <3>1. m \in {d[6], d[11]}
      BY <2>2, DuckdbList DEF Needs
    <3> QED BY <2>2, <3>1
  <2>3. CASE k = 13
    <3>1. m \in {d[7], d[11]}
      BY <2>3, DuckdbList DEF Needs
    <3> QED BY <2>3, <3>1
  <2>4. CASE k = 14
    <3>1. m = d[11]
      BY <2>4, DuckdbList DEF Needs
    <3> QED BY <2>4, <3>1
  <2>5. CASE k = 15
    <3>1. m = d[14]
      BY <2>5, DuckdbList DEF Needs
    <3> QED BY <2>5, <3>1
  <2>6. CASE k = 16
    <3>1. m \in {d[9], d[11]}
      BY <2>6, DuckdbList DEF Needs
    <3> QED BY <2>6, <3>1
  <2> QED BY <1>1, <2>1, <2>2, <2>3, <2>4, <2>5, <2>6
<1> QED BY <1>3, <1>4

\* Every macro is registered.
LEMMA MacrosNeeded == Macros \subseteq {DuckdbOrder[k] : k \in 1..17}
<1> DEFINE d == DuckdbOrder
<1>1. Macros = {d[11], d[12], d[13], d[14], d[15], d[16], d[17]}
  BY DuckdbList DEF Macros, Needs
<1> QED BY <1>1

-----------------------------------------------------------------------------
(* The invariant *)

\* The names tried so far.
Tried == {Order[k] : k \in 1..step}

\* A name that was tried is there, or it was refused, or it is a macro that needs
\* something that was tried before it and is not there: that will not come later.
Accounted ==
    \A n \in Tried \ (names \cup Optional) :
        \/ n \in faults
        \/ n \in Macros /\ \E m \in Needs[n] : m \in Tried \ names /\ m # "llm_adapt"

\* A macro is created after all it names, which stays.
Founded == \A m \in (names \cap Macros) \ Optional : Needs[m] \subseteq names

LoadInv ==
    /\ engine \in {"duckdb", "sqlite"}
    /\ step \in 0..17
    /\ rc \in {"loading", "ok", "error"}
    /\ rc = "ok" => step = 17
    /\ engine = "sqlite" => names = Tried
    /\ engine = "sqlite" /\ rc = "error" => step < 17
    /\ engine = "duckdb" =>
          /\ rc # "error"
          /\ names \subseteq Tried
          /\ printed = ((Macros \cap Tried) \ (names \cup Optional))
          /\ Accounted
          /\ Founded

\* Both extensions register seventeen names, all different.
LEMMA OrderFact ==
    ASSUME engine \in {"duckdb", "sqlite"}
    PROVE  /\ Len(Order) = 17
           /\ \A i, j \in 1..17 : Order[i] = Order[j] => i = j
  BY DuckdbList, SqliteList, DuckdbDistinct, SqliteDistinct DEF Order

\* The name that is tried next was not tried before.
LEMMA FreshFact ==
    ASSUME LoadInv, Loading
    PROVE  /\ step < 17 /\ step + 1 \in 1..17
           /\ Name = Order[step + 1] /\ Name \notin Tried
           /\ {Order[k] : k \in 1..(step + 1)} = Tried \cup {Name}
<1>1. step < 17 /\ step \in 0..17 /\ Len(Order) = 17
  BY OrderFact DEF LoadInv, Loading
<1>2. Name = Order[step + 1]
  BY DEF Name
<1>3. \A i, j \in 1..17 : Order[i] = Order[j] => i = j
  BY OrderFact DEF LoadInv
<1>4. Order[step + 1] \notin Tried
  BY <1>1, <1>3 DEF Tried
<1>5. \A k \in 1..(step + 1) : k \in 1..step \/ k = step + 1
  BY <1>1
<1>6. /\ \A k \in 1..step : k \in 1..(step + 1)
      /\ step + 1 \in 1..(step + 1)
  BY <1>1
<1>7. {Order[k] : k \in 1..(step + 1)} = Tried \cup {Order[step + 1]}
  BY <1>5, <1>6 DEF Tried
<1> QED BY <1>1, <1>2, <1>4, <1>7

LEMMA LoadInit == Init => LoadInv
<1> SUFFICES ASSUME Init PROVE LoadInv
  OBVIOUS
<1>1. Tried = {}
  BY DEF Init, Tried
<1> QED BY <1>1 DEF Init, LoadInv, Accounted, Founded

\* A registration that changes the engine's answer only.
LEMMA TriedNext ==
    ASSUME LoadInv, Loading, engine' = engine, step' = step + 1
    PROVE  /\ Tried' = Tried \cup {Name} /\ Name \notin Tried
           /\ step' \in 0..17 /\ step' \in 1..17
<1>1. Order' = Order
  BY DEF Order
<1>2. Tried' = {Order[k] : k \in 1..(step + 1)}
  BY <1>1 DEF Tried
<1> QED BY <1>2, FreshFact

LEMMA RegisterStep == LoadInv /\ Register => LoadInv'
<1> SUFFICES ASSUME LoadInv, Register PROVE LoadInv'
  OBVIOUS
<1>1. /\ Loading /\ engine' = engine /\ step' = step + 1 /\ rc' = rc /\ rc = "loading"
      /\ names' = names \cup {Name} /\ printed' = printed /\ faults' = faults
  BY DEF Register, Loading
<1>2. /\ Tried' = Tried \cup {Name} /\ Name \notin Tried /\ step' \in 0..17
  BY <1>1, TriedNext
<1>3. engine = "duckdb" => Accounted'
  BY <1>1, <1>2 DEF LoadInv, Accounted
<1>4. engine = "duckdb" =>
        printed' = ((Macros \cap Tried') \ (names' \cup Optional))
  BY <1>1, <1>2 DEF LoadInv
<1>5. engine = "duckdb" => names' \subseteq Tried'
  BY <1>1, <1>2 DEF LoadInv
<1>6. engine = "duckdb" => Founded'
  <2> SUFFICES ASSUME engine = "duckdb", NEW m \in (names' \cap Macros) \ Optional
               PROVE  Needs[m] \subseteq names'
    BY DEF Founded
  <2>1. CASE m \in names
    BY <1>1, <2>1 DEF LoadInv, Founded
  <2>2. CASE m = Name
    <3>1. Needs[m] \subseteq Callable
      BY <2>2 DEF Register
    <3>2. step + 1 \in 1..17 /\ Name = DuckdbOrder[step + 1]
      BY <1>1, FreshFact DEF LoadInv, Order
    <3>3. Needs[m] \cap {"llm_adapt", "llm_adapter", "bt_template_render"} = {}
      BY <2>2, <3>2, NeedsPrecede
    <3> QED BY <1>1, <3>1, <3>3 DEF Callable
  <2> QED BY <1>1, <2>1, <2>2
<1> QED BY <1>1, <1>2, <1>3, <1>4, <1>5, <1>6 DEF LoadInv

LEMMA FunctionFailsStep == LoadInv /\ FunctionFails => LoadInv'
<1> SUFFICES ASSUME LoadInv, FunctionFails PROVE LoadInv'
  OBVIOUS
<1>1. /\ Loading /\ engine' = engine /\ step' = step + 1 /\ rc' = rc /\ rc = "loading"
      /\ names' = names /\ printed' = printed /\ faults' = faults \cup {Name}
      /\ engine = "duckdb" /\ Name \notin Macros
  BY DEF FunctionFails, Loading
<1>2. /\ Tried' = Tried \cup {Name} /\ Name \notin Tried /\ step' \in 0..17
  BY <1>1, TriedNext
<1>3. Accounted'
  BY <1>1, <1>2 DEF LoadInv, Accounted
<1>4. Founded'
  BY <1>1 DEF LoadInv, Founded
<1> QED BY <1>1, <1>2, <1>3, <1>4 DEF LoadInv

LEMMA MacroFailsStep == LoadInv /\ MacroFails => LoadInv'
<1> SUFFICES ASSUME LoadInv, MacroFails PROVE LoadInv'
  OBVIOUS
<1>1. /\ Loading /\ engine' = engine /\ step' = step + 1 /\ rc' = rc /\ rc = "loading"
      /\ names' = names /\ printed' = printed \cup ({Name} \ Optional)
      /\ engine = "duckdb" /\ Name \in Macros /\ faults \subseteq faults'
  BY DEF MacroFails, Loading, Reports
<1>2. /\ Tried' = Tried \cup {Name} /\ Name \notin Tried /\ step' \in 0..17
  BY <1>1, TriedNext
<1>3. \/ Name \in faults' \/ Name \in Optional
      \/ \E m \in Needs[Name] : m \in Tried \ names /\ m # "llm_adapt"
  <2>1. CASE Name \notin faults' /\ Name \notin Optional
    <3>1. PICK m \in Needs[Name] : m \notin Callable
      BY <2>1 DEF MacroFails
    <3>2. /\ step + 1 \in 1..17 /\ step \in 0..17 /\ Name = DuckdbOrder[step + 1]
          /\ Order = DuckdbOrder
      BY <1>1, FreshFact DEF LoadInv, Order
    <3>3. /\ Needs[Name] \in SUBSET {DuckdbOrder[j] : j \in 1..((step + 1) - 1)}
          /\ "llm_adapt" \notin Needs[Name]
      BY <1>1, <2>1, <3>2, NeedsPrecede
    <3>4. (step + 1) - 1 = step
      BY <3>2
    <3>5. m \in Tried /\ m # "llm_adapt"
      BY <3>2, <3>3, <3>4 DEF Tried
    <3>6. m \notin names
      BY <3>1 DEF Callable
    <3> QED BY <3>5, <3>6
  <2> QED BY <2>1
<1>4. Accounted'
  BY <1>1, <1>2, <1>3 DEF LoadInv, Accounted
<1>5. printed' = ((Macros \cap Tried') \ (names' \cup Optional))
  BY <1>1, <1>2 DEF LoadInv
<1>6. Founded'
  BY <1>1 DEF LoadInv, Founded
<1> QED BY <1>1, <1>2, <1>4, <1>5, <1>6 DEF LoadInv

LEMMA CreateFailsStep == LoadInv /\ CreateFails => LoadInv'
<1> SUFFICES ASSUME LoadInv, CreateFails PROVE LoadInv'
  OBVIOUS
<1>1. /\ engine' = engine /\ engine = "sqlite" /\ step' = step /\ rc' = "error"
      /\ names' = names /\ Loading
  BY DEF CreateFails, ReturnCode
<1>2. step < 17
  BY <1>1, FreshFact
<1>3. Tried' = Tried
  BY <1>1 DEF Tried, Order
<1> QED BY <1>1, <1>2, <1>3 DEF LoadInv

LEMMA RunAdaptSqlStep == LoadInv /\ RunAdaptSql => LoadInv'
<1> SUFFICES ASSUME LoadInv, RunAdaptSql PROVE LoadInv'
  OBVIOUS
<1>1. /\ engine' = engine /\ engine = "duckdb" /\ step' = step /\ rc' = rc /\ rc = "ok"
      /\ names' = names \cup {"llm_adapt"} /\ printed' = printed /\ faults' = faults
  BY DEF RunAdaptSql
<1>2. Tried' = Tried
  BY <1>1 DEF Tried, Order
<1>3. "llm_adapt" \in Tried
  <2>1. step = 17 /\ Order = DuckdbOrder /\ 17 \in 1..17
    BY <1>1 DEF LoadInv, Order
  <2> QED BY <2>1, DuckdbList DEF Tried
<1>4. "llm_adapt" \in Optional
  BY DEF Optional
<1>5. Accounted'
  BY <1>1, <1>2, <1>4 DEF LoadInv, Accounted
<1>6. printed' = ((Macros \cap Tried') \ (names' \cup Optional))
  BY <1>1, <1>2, <1>4 DEF LoadInv
<1>7. Founded'
  BY <1>1, <1>4 DEF LoadInv, Founded
<1> QED BY <1>1, <1>2, <1>3, <1>5, <1>6, <1>7 DEF LoadInv

LEMMA LoadNext == LoadInv /\ [Next]_vars => LoadInv'
<1> SUFFICES ASSUME LoadInv, [Next]_vars PROVE LoadInv'
  OBVIOUS
<1>1. CASE Loaded
  <2>1. /\ engine' = engine /\ step' = step /\ rc' = "ok" /\ step = Len(Order)
        /\ names' = names /\ printed' = printed /\ faults' = faults
    BY <1>1 DEF Loaded
  <2>2. step = 17
    BY <2>1, OrderFact DEF LoadInv
  <2>3. Tried' = Tried
    BY <2>1 DEF Tried, Order
  <2> QED BY <2>1, <2>2, <2>3 DEF LoadInv, Accounted, Founded
<1>2. CASE MakeAdapters \/ UNCHANGED vars
  <2>1. UNCHANGED <<engine, step, names, printed, faults, rc>>
    BY <1>2 DEF MakeAdapters, vars
  <2>2. Tried' = Tried
    BY <2>1 DEF Tried, Order
  <2> QED BY <2>1, <2>2 DEF LoadInv, Accounted, Founded
<1> QED BY <1>1, <1>2, RegisterStep, FunctionFailsStep, MacroFailsStep, CreateFailsStep,
           RunAdaptSqlStep DEF Next

LEMMA LoadAlways == Spec => []LoadInv
  BY LoadInit, LoadNext, PTL DEF Spec

-----------------------------------------------------------------------------
(* The theorems *)

LEMMA NeededFact ==
    ASSUME LoadInv
    PROVE  /\ rc = "ok" => Tried = Needed
           /\ Tried \subseteq Needed
           /\ engine = "duckdb" => Macros \subseteq Needed
<1>1. Len(Order) = 17 /\ step \in 0..17
  BY OrderFact DEF LoadInv
<1>2. rc = "ok" => step = 17
  BY DEF LoadInv
<1>3. engine = "duckdb" => Order = DuckdbOrder
  BY DEF Order
<1> QED BY <1>1, <1>2, <1>3, MacrosNeeded DEF Tried, Needed

\* Nothing is registered before what it names: what a loaded extension lacks was
\* refused by the engine, or needs something that was; llm_adapt apart.
THEOREM LoadsInOrder == Spec => []NothingTooEarly
<1>1. LoadInv => NothingTooEarly
  <2> SUFFICES ASSUME LoadInv, rc = "ok", NEW n \in Needed \ (names \cup Optional)
               PROVE  n \in faults \/ (n \in Macros /\ \E m \in Needs[n] : m \in Needed \ names)
    BY DEF NothingTooEarly
  <2>1. Tried = Needed
    BY NeededFact
  <2> QED BY <2>1 DEF LoadInv, Accounted
<1> QED BY <1>1, LoadAlways, PTL

\* DuckDB's log names exactly the macros that are missing, llm_adapt apart, and so
\* every macro that a missing function took with it (a missing function that no
\* macro names leaves no trace); SQLite has every function, or an error and the
\* functions before the one that failed.
THEOREM LoadReportsMissingMacros == Spec => []MissingMacrosReported
<1>1. LoadInv => MissingMacrosReported
  <2> SUFFICES ASSUME LoadInv PROVE MissingMacrosReported
    OBVIOUS
  <2>1. rc = "ok" /\ engine = "duckdb" => (Macros \ (names \cup Optional)) = printed
    BY NeededFact DEF LoadInv
  <2>2. rc = "ok" /\ engine = "sqlite" => names = Needed
    BY NeededFact DEF LoadInv
  <2>3. ASSUME rc = "error" PROVE names = Tried /\ names # Needed
    <3>1. engine = "sqlite" /\ step < 17 /\ names = Tried /\ step \in 0..17
      BY <2>3 DEF LoadInv
    <3>2. Len(Order) = 17 /\ \A i, j \in 1..17 : Order[i] = Order[j] => i = j
      BY <3>1, OrderFact
    <3>3. Order[17] \in Needed
      BY <3>2 DEF Needed
    <3>4. Order[17] \notin Tried
      BY <3>1, <3>2 DEF Tried
    <3> QED BY <3>1, <3>3, <3>4
  <2>4. ASSUME rc = "ok", engine = "duckdb", NEW n \in Needed \ names
        PROVE  Users(n) \subseteq printed
    BY <2>1, <2>4 DEF LoadInv, Founded, Users
  <2> QED BY <2>1, <2>2, <2>3, <2>4 DEF MissingMacrosReported, Tried
<1> QED BY <1>1, LoadAlways, PTL
=============================================================================
