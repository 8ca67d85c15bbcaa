----------------------------- MODULE MCLlmCall -----------------------------
(***************************************************************************)
(* LlmCall with one or two rows, the second or the only one of any kind.   *)
(***************************************************************************)
EXTENDS LlmCall

Kinds(h, op) ==
    CASE op = "stats" -> {"good"}
      [] op = "adapt" -> {"good", "shaped", "null", "empty", "bad", "column"}
                             \cup (IF h = "sqlite" THEN {"absent"} ELSE {})
      [] OTHER -> {"good", "null", "empty", "bad"}

Ops(h) ==
    {"complete", "adapt", "sso", "negotiate", "stats"}
        \cup (IF h = "python" THEN {} ELSE {"token"})

Chunks(h, op) ==
    {<<k>> : k \in Kinds(h, op)}
        \cup (IF h = "python" THEN {} ELSE {<<"good", k>> : k \in Kinds(h, op)})
        \cup (IF h = "duckdb" THEN {<<>>} ELSE {})

SmallBatches ==
    UNION {UNION {{[host |-> h, op |-> op, rows |-> rs] : rs \in Chunks(h, op)}
                     : op \in Ops(h)} : h \in {"duckdb", "sqlite", "python"}}
=============================================================================
