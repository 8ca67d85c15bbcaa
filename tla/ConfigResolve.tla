--------------------------- MODULE ConfigResolve ---------------------------
(***************************************************************************)
(* ResolveConfig and HttpConfig::MergeFrom (include/http_config.hpp): the  *)
(* configuration of one request URL, from a list of scopes in the order    *)
(* the caller gives them.                                                  *)
(*                                                                         *)
(* A scope is what the string comparisons with the URL make of it:         *)
(*   isDefault   it is the word "default"                                  *)
(*   prefix      the URL starts with it; len is its length                 *)
(*   domain      its host is the URL's host or a parent domain of it;      *)
(*               hostLen is that host's length (zero when it has none)     *)
(* and its JSON: whether it parses, the fields that are present with the   *)
(* right JSON type, and their values (numbers here; what matters of a      *)
(* value is only which scope it came from, max_concurrent excepted).       *)
(***************************************************************************)
EXTENDS Integers, Sequences

CONSTANTS
    ScopeLists,     \* the lists of scopes a request may be resolved against
    Fields,         \* the fields of HttpConfig
    Fallback        \* the hard-coded value of each field

Clamped == "max_concurrent"   \* the one field MergeFrom adjusts

Scope == [isDefault : BOOLEAN, prefix : BOOLEAN, len : Nat, domain : BOOLEAN,
          hostLen : Nat, parses : BOOLEAN, present : SUBSET Fields, value : [Fields -> Int]]

\* A domain match has a host.
ASSUME ConfigAssumption ==
    /\ ScopeLists \subseteq Seq(Scope)
    /\ \A s \in ScopeLists : \A k \in 1..Len(s) : s[k].domain => s[k].hostLen > 0
    /\ Fallback \in [Fields -> Int]

VARIABLES
    entries,        \* config_entries
    pc,
    n,              \* the entry the second loop looks at
    best,           \* the entry of best_scope and best_json; None for ""
    bestIsPrefix,   \* best_is_prefix
    config          \* the HttpConfig being built

vars == <<entries, pc, n, best, bestIsPrefix, config>>

None == 0

TypeOK ==
    /\ entries \in ScopeLists
    /\ pc \in {"default", "scan", "apply", "done"}
    /\ n \in 1..(Len(entries) + 1)
    /\ best \in 0..Len(entries)
    /\ bestIsPrefix \in BOOLEAN
    /\ config \in [Fields -> Int]

Init ==
    /\ entries \in ScopeLists
    /\ pc = "default"
    /\ n = 1
    /\ best = None
    /\ bestIsPrefix = FALSE
    /\ config = Fallback

-----------------------------------------------------------------------------
\* max_concurrent is at least one.
Adjusted(f, v) == IF f = Clamped /\ v < 1 THEN 1 ELSE v

\* MergeFrom: a field that is present with the right type is overwritten.  A
\* JSON that does not parse leaves the configuration alone.
MergeFrom_Whole(c, s) ==
    IF s.parses THEN [f \in Fields |-> IF f \in s.present THEN Adjusted(f, s.value[f])
                                       ELSE Fallback[f]]
    ELSE c

MergeFrom(c, s) ==
    IF s.parses THEN [f \in Fields |-> IF f \in s.present THEN Adjusted(f, s.value[f])
                                       ELSE c[f]]
    ELSE c

\* Where "default" is in the list: the first one, None when there is none.
IsFirstDefault(d) ==
    \/ /\ d \in 1..Len(entries)
       /\ entries[d].isDefault
       /\ \A k \in 1..(d - 1) : ~entries[k].isDefault
    \/ /\ d = None
       /\ \A k \in 1..Len(entries) : ~entries[k].isDefault

\* The first loop: "default" is applied first, wherever it is in the list.
ApplyDefault ==
    /\ pc = "default"
    /\ \E d \in 0..Len(entries) :
        /\ IsFirstDefault(d)
        /\ config' = IF d = None THEN config ELSE MergeFrom(config, entries[d])
    /\ pc' = "scan"
    /\ UNCHANGED <<entries, n, best, bestIsPrefix>>

BestLen == IF best = None THEN 0 ELSE entries[best].len
BestHostLen == IF best = None THEN 0 ELSE entries[best].hostLen

\* The scope takes the place of the best one: a prefix that is longer, or the
\* first; as long as there is no prefix, a domain that is longer.
Replaces_Longest(s) ==
    IF s.prefix THEN s.len > BestLen ELSE s.domain /\ s.hostLen > BestHostLen

Replaces(s) ==
    IF s.prefix THEN ~bestIsPrefix \/ s.len > BestLen
    ELSE ~bestIsPrefix /\ s.domain /\ s.hostLen > BestHostLen

\* One round of the second loop.
Advance ==
    /\ n' = n + 1
    /\ UNCHANGED <<entries, pc, config>>

TakeScope ==
    /\ pc = "scan" /\ n <= Len(entries)
    /\ ~entries[n].isDefault /\ Replaces(entries[n])
    /\ best' = n
    /\ bestIsPrefix' = entries[n].prefix
    /\ Advance

PassScope ==
    /\ pc = "scan" /\ n <= Len(entries)
    /\ entries[n].isDefault \/ ~Replaces(entries[n])
    /\ UNCHANGED <<best, bestIsPrefix>>
    /\ Advance

EndScan ==
    /\ pc = "scan" /\ n > Len(entries)
    /\ pc' = "apply"
    /\ UNCHANGED <<entries, n, best, bestIsPrefix, config>>

\* best_scope is empty when no scope matched, and also when the empty scope did.
Applies == best # None /\ BestLen > 0

ApplyScope ==
    /\ pc = "apply"
    /\ config' = IF Applies THEN MergeFrom(config, entries[best]) ELSE config
    /\ pc' = "done"
    /\ UNCHANGED <<entries, n, best, bestIsPrefix>>

Next == ApplyDefault \/ TakeScope \/ PassScope \/ EndScan \/ ApplyScope

Spec == Init /\ [][Next]_vars

-----------------------------------------------------------------------------
(* Properties *)

Scopes == {k \in 1..Len(entries) : ~entries[k].isDefault}
Prefixes == {k \in Scopes : entries[k].prefix}
Domains == {k \in Scopes : entries[k].domain /\ ~entries[k].prefix}

\* The longest scope that is a prefix of the URL is chosen, in whatever order the
\* scopes come and however many domain matches come before it.
LongestPrefixWins ==
    pc \in {"apply", "done"} /\ Prefixes # {} =>
        /\ best \in Prefixes
        /\ \A k \in Prefixes : entries[k].len <= entries[best].len

\* Without a prefix match the scope of the longest matching domain is chosen, if
\* there is one.
LongestDomainOtherwise ==
    pc \in {"apply", "done"} /\ Prefixes = {} =>
        IF Domains = {} THEN best = None
        ELSE /\ best \in Domains
             /\ \A k \in Domains : entries[k].hostLen <= entries[best].hostLen

\* ResolveConfig chooses the most specific scope, whatever the order of the
\* scopes: a prefix before a domain, and of each kind the longest.
BestScopeChosen == LongestPrefixWins /\ LongestDomainOtherwise

\* The value of a field: of the chosen scope, or else of "default", or else the
\* hard-coded one; a JSON that does not parse, or a value of the wrong type, is
\* as if it were absent.
Gives(k, f) == k # None /\ entries[k].parses /\ f \in entries[k].present

FieldPrecedence ==
    pc = "done" =>
        \A f \in Fields : \E d \in 0..Len(entries) :
            /\ IsFirstDefault(d)
            /\ config[f] = IF Applies /\ Gives(best, f) THEN Adjusted(f, entries[best].value[f])
                           ELSE IF Gives(d, f) THEN Adjusted(f, entries[d].value[f])
                           ELSE Fallback[f]

\* bh_batch_perform never gets a max_concurrent below one from ResolveConfig,
\* whatever the scopes say.
ConcurrencyPositive ==
    (Clamped \in Fields /\ Fallback[Clamped] >= 1) => config[Clamped] >= 1
=============================================================================
