---------------------------- MODULE ExtensionLoad ----------------------------
(***************************************************************************)
(* The entry points of the two extensions: what each registers, in which   *)
(* order, and what becomes of a registration that fails.                   *)
(*                                                                         *)
(* DuckDB ignores the result of registering a function, so one it refuses  *)
(* is missing without a word; a macro that is not created is reported on   *)
(* stderr, all but llm_adapt, and loading succeeds all the same.           *)
(* DuckDB creates a macro only if what its body names exists, as the       *)
(* comment in the entry point says.  SQLite stops at the first failure.    *)
(*                                                                         *)
(* Verbs and helpers with the same needs are one macro here: get stands    *)
(* for head, options, put and delete, post for patch, request and          *)
(* request_json, set for remove and get.                                   *)
(***************************************************************************)
EXTENDS Integers, Sequences, FiniteSets

CONSTANT MaxFaults       \* bound: registrations the engine refuses

ASSUME LoadAssumption == MaxFaults \in Nat

VARIABLES
    engine,      \* "duckdb" or "sqlite"
    step,        \* registrations tried
    names,       \* what can be called
    printed,     \* macros reported on stderr
    faults,      \* history: registrations the engine refused
    rc,          \* "loading", "ok" or "error"
    adapters     \* the llm_adapter table and bt_template_render exist

vars == <<engine, step, names, printed, faults, rc, adapters>>

-----------------------------------------------------------------------------
(* DuckDB *)

EntryPoint == <<"bh_negotiate_auth_header", "bh_negotiate_auth_header_json",
                "bh_sso_jwt", "bh_sso_jwt_json", "bh_negotiate_available">>

RegisterHttpFunctions == <<"_bh_http_raw_request", "_bh_http_raw_request_volatile",
                           "bh_http_rate_limit_stats">>

RegisterLlmFunctions == <<"_llm_complete_raw">>
RegisterLlmAdaptFunction == <<"_llm_adapt_raw">>

\* The groups of sql/*.sql in the order of macro_groups.
RegisterHttpMacros ==
    <<"_bh_http_config", "bh_http_get", "bh_http_post", "bh_http_config_set",
      "bh_http_config_set_bearer", "llm_complete", "llm_adapt">>

\* What the body of each macro names.
Needs ==
    [_bh_http_config |-> {},
     bh_http_get |-> {"_bh_http_raw_request", "_bh_http_config"},
     bh_http_post |-> {"_bh_http_raw_request_volatile", "_bh_http_config"},
     bh_http_config_set |-> {"_bh_http_config"},
     bh_http_config_set_bearer |-> {"bh_http_config_set"},
     llm_complete |-> {"_llm_complete_raw", "_bh_http_config"},
     llm_adapt |-> {"_llm_adapt_raw", "llm_adapter", "bt_template_render"}]

Macros == DOMAIN Needs
Optional == {"llm_adapt"}

\* Every raw function before the first macro; the order of an earlier version
\* registered the macros with the HTTP functions.
DuckdbOrder_MacrosEarly ==
    EntryPoint \o RegisterHttpFunctions \o RegisterHttpMacros
        \o RegisterLlmFunctions \o RegisterLlmAdaptFunction
DuckdbOrder ==
    EntryPoint \o RegisterHttpFunctions \o RegisterLlmFunctions
        \o RegisterLlmAdaptFunction \o RegisterHttpMacros

-----------------------------------------------------------------------------
(* SQLite *)

Verbs == <<"bh_http_head", "bh_http_options", "bh_http_delete", "bh_http_put",
           "bh_http_patch">>

SqliteOrder ==
    <<"bh_http_request", "bh_http_get", "bh_http_post", "bh_http_body", "bh_sso_jwt",
      "bh_sso_jwt_json", "bh_negotiate_auth_header", "bh_negotiate_auth_header_json">>
        \o Verbs
        \o <<"llm_complete", "bh_negotiate_available", "bh_http_rate_limit_stats",
             "bh_http_adapt">>

-----------------------------------------------------------------------------
Order == IF engine = "duckdb" THEN DuckdbOrder ELSE SqliteOrder
Name == Order[step + 1]

\* What a macro body can name.
Callable ==
    names \cup (IF adapters THEN {"llm_adapter", "bt_template_render"} ELSE {})

Init ==
    /\ engine \in {"duckdb", "sqlite"}
    /\ adapters \in BOOLEAN
    /\ step = 0
    /\ names = {} /\ printed = {} /\ faults = {}
    /\ rc = "loading"

Loading == rc = "loading" /\ step < Len(Order)

MayFault == Cardinality(faults) < MaxFaults

\* A function is registered, or a macro created.
Register ==
    /\ Loading
    /\ Name \in Macros /\ engine = "duckdb" => Needs[Name] \subseteq Callable
    /\ names' = names \cup {Name}
    /\ step' = step + 1
    /\ UNCHANGED <<engine, printed, faults, rc, adapters>>

\* DuckDB refuses a function; nothing looks at the result.
FunctionFails ==
    /\ Loading
    /\ engine = "duckdb" /\ Name \notin Macros
    /\ MayFault
    /\ faults' = faults \cup {Name}
    /\ step' = step + 1
    /\ UNCHANGED <<engine, names, printed, rc, adapters>>

\* What TryRegisterMacro prints of a macro that is not created.
Reports(macro) == {macro} \ Optional

\* A macro is not created: something it names is missing, or DuckDB refuses it.
MacroFails ==
    /\ Loading
    /\ engine = "duckdb" /\ Name \in Macros
    /\ \/ ~(Needs[Name] \subseteq Callable) /\ UNCHANGED faults
       \/ MayFault /\ faults' = faults \cup {Name}
    /\ printed' = printed \cup Reports(Name)
    /\ step' = step + 1
    /\ UNCHANGED <<engine, names, rc, adapters>>

\* sqlite3_create_function fails, and its code is returned at once.
ReturnCode_Ignored == rc' = rc /\ step' = step + 1
ReturnCode == rc' = "error" /\ step' = step

CreateFails ==
    /\ Loading
    /\ engine = "sqlite"
    /\ MayFault
    /\ faults' = faults \cup {Name}
    /\ ReturnCode
    /\ UNCHANGED <<engine, names, printed, adapters>>

Loaded ==
    /\ rc = "loading" /\ step = Len(Order)
    /\ rc' = "ok"
    /\ UNCHANGED <<engine, step, names, printed, faults, adapters>>

\* The user makes the table and loads blobtemplates, at any time, and runs
\* sql/llm_adapt.sql after that.
MakeAdapters ==
    /\ ~adapters
    /\ adapters' = TRUE
    /\ UNCHANGED <<engine, step, names, printed, faults, rc>>

RunAdaptSql ==
    /\ engine = "duckdb" /\ rc = "ok"
    /\ Needs["llm_adapt"] \subseteq Callable
    /\ names' = names \cup {"llm_adapt"}
    /\ UNCHANGED <<engine, step, printed, faults, rc, adapters>>

Next ==
    \/ Register \/ FunctionFails \/ MacroFails \/ CreateFails \/ Loaded
    \/ MakeAdapters \/ RunAdaptSql

Spec == Init /\ [][Next]_vars

-----------------------------------------------------------------------------
(* Properties *)

Needed == {Order[k] : k \in 1..Len(Order)}

\* What the engine did not refuse is there once the extension is loaded, but
\* for what needs something it did refuse: no registration comes too early,
\* which once left DuckDB without its LLM functions.  llm_adapt is exempt: it is
\* optional, and TryRegisterMacro is allowed to fail even where all it names exists.
NothingTooEarly ==
    rc = "ok" =>
        \A n \in Needed \ (names \cup Optional) :
            n \in faults \/ (n \in Macros /\ \E m \in Needs[n] : m \in Needed \ names)

\* The macros whose body names a function, all but the optional one.
Users(n) == {m \in Macros \ Optional : n \in Needs[m]}

\* DuckDB's log names exactly the macros that are missing, llm_adapt apart, and so
\* every macro that a missing function took with it; a refused function that no
\* macro names, such as bh_sso_jwt, and llm_adapt are missing in silence.  SQLite
\* has every function, or an error and the functions before the one that failed.
MissingMacrosReported ==
    /\ rc = "ok" /\ engine = "duckdb" =>
          /\ (Macros \ (names \cup Optional)) = printed
          /\ \A n \in Needed \ names : Users(n) \subseteq printed
    /\ rc = "ok" /\ engine = "sqlite" => names = Needed
    /\ rc = "error" => names = {Order[k] : k \in 1..step} /\ names # Needed
=============================================================================
