---------------------------- MODULE ConfigProofs ----------------------------
(***************************************************************************)
(* Proofs about ConfigResolve, for every list of scopes: the scope that is *)
(* chosen, the value of every field, and the range of max_concurrent.      *)
(***************************************************************************)
EXTENDS ConfigResolve, TLAPS

\* What the second loop knows of the entries it has been through.
Seen == {k \in Scopes : k < n}

BestSoFar ==
    IF bestIsPrefix
    THEN /\ best \in Seen \cap Prefixes
         /\ \A k \in Seen \cap Prefixes : entries[k].len <= entries[best].len
    ELSE /\ Seen \cap Prefixes = {}
         /\ \/ best = None /\ Seen \cap Domains = {}
            \/ /\ best \in Seen \cap Domains
               /\ \A k \in Seen \cap Domains : entries[k].hostLen <= entries[best].hostLen

Inv ==
    /\ TypeOK
    /\ BestSoFar
    /\ pc \in {"apply", "done"} => n = Len(entries) + 1

\* The facts on a list of scopes the steps below need.
LEMMA EntryFacts ==
    ASSUME TypeOK
    PROVE  /\ Len(entries) \in Nat
           /\ \A k \in 1..Len(entries) :
                /\ entries[k].isDefault \in BOOLEAN /\ entries[k].prefix \in BOOLEAN
                /\ entries[k].domain \in BOOLEAN
                /\ entries[k].len \in Nat /\ entries[k].hostLen \in Nat
                /\ entries[k].parses \in BOOLEAN
                /\ entries[k].value \in [Fields -> Int]
                /\ entries[k].domain => entries[k].hostLen > 0
<1>1. entries \in Seq(Scope)
  BY ConfigAssumption DEF TypeOK
<1>2. Len(entries) \in Nat /\ \A k \in 1..Len(entries) : entries[k] \in Scope
  BY <1>1
<1>3. \A k \in 1..Len(entries) : entries[k].domain => entries[k].hostLen > 0
  BY ConfigAssumption DEF TypeOK
<1> QED BY <1>2, <1>3 DEF Scope

\* Merging keeps a configuration a configuration.
LEMMA MergeType ==
    ASSUME TypeOK, NEW k \in 1..Len(entries)
    PROVE  MergeFrom(config, entries[k]) \in [Fields -> Int]
  BY EntryFacts DEF TypeOK, MergeFrom, Adjusted

\* BestSoFar after a round of the loop.
LEMMA ScanStep ==
    ASSUME Inv, TakeScope \/ PassScope
    PROVE  BestSoFar'
<1> USE DEF Inv
<1>1. pc = "scan" /\ n \in 1..Len(entries) /\ entries' = entries /\ n' = n + 1
  BY EntryFacts DEF TypeOK, TakeScope, PassScope, Advance
<1>2. Prefixes' = Prefixes /\ Domains' = Domains /\ Scopes' = Scopes
  BY <1>1 DEF Prefixes, Domains, Scopes
<1>3. Seen' = IF entries[n].isDefault THEN Seen ELSE Seen \cup {n}
  BY <1>1, <1>2, EntryFacts DEF Seen, Scopes
<1>4. Prefixes \subseteq Scopes /\ Domains \subseteq Scopes /\ Seen \subseteq 1..(n - 1)
  BY <1>1, EntryFacts DEF Seen, Scopes, Prefixes, Domains
<1>5. CASE TakeScope
  <2>1. best' = n /\ bestIsPrefix' = entries[n].prefix /\ n \in Scopes /\ n \in Seen'
    BY <1>1, <1>3, <1>5 DEF TakeScope, Scopes
  <2>2. CASE entries[n].prefix
    <3>1. n \in Prefixes
      BY <2>1, <2>2 DEF Prefixes
    <3>2. \A k \in Seen \cap Prefixes : entries[k].len <= entries[n].len
      <4>1. CASE bestIsPrefix
        <5>1. best \in 1..Len(entries) /\ entries[n].len > entries[best].len
          BY <1>5, <2>2, <4>1, EntryFacts
             DEF TakeScope, Replaces, BestSoFar, BestLen, Seen, Scopes, None
        <5>2. \A k \in Seen \cap Prefixes : entries[k].len <= entries[best].len
          BY <4>1 DEF BestSoFar
        <5>3. entries[n].len \in Nat /\ entries[best].len \in Nat
              /\ \A k \in Seen : entries[k].len \in Nat
          BY <1>1, <5>1, EntryFacts DEF Seen, Scopes
        <5> QED BY <5>1, <5>2, <5>3
      <4>2. CASE ~bestIsPrefix
        BY <4>2 DEF BestSoFar
      <4> QED BY <4>1, <4>2
    <3> QED BY <1>1, <1>2, <1>3, <2>1, <2>2, <3>1, <3>2, EntryFacts DEF BestSoFar
  <2>3. CASE ~entries[n].prefix
    <3>1. n \in Domains /\ n \notin Prefixes /\ ~bestIsPrefix
      BY <1>5, <2>1, <2>3 DEF Domains, Prefixes, TakeScope, Replaces
    <3>2. \A k \in Seen \cap Domains : entries[k].hostLen <= entries[n].hostLen
      <4>1. CASE best = None
        BY <3>1, <4>1 DEF BestSoFar, Seen, Scopes, None
      <4>2. CASE best # None
        <5>1. best \in 1..Len(entries) /\ entries[n].hostLen > entries[best].hostLen
          BY <1>5, <2>3, <4>2, EntryFacts
             DEF TakeScope, Replaces, BestHostLen, TypeOK, None
        <5>2. \A k \in Seen \cap Domains : entries[k].hostLen <= entries[best].hostLen
          BY <3>1, <4>2 DEF BestSoFar
        <5>3. entries[n].hostLen \in Nat /\ entries[best].hostLen \in Nat
              /\ \A k \in Seen : entries[k].hostLen \in Nat
          BY <1>1, <5>1, EntryFacts DEF Seen, Scopes
        <5> QED BY <5>1, <5>2, <5>3
      <4> QED BY <4>1, <4>2
    <3>3. Seen' \cap Prefixes = {}
      BY <1>3, <3>1 DEF BestSoFar
    <3> QED BY <1>1, <1>2, <1>3, <2>1, <2>3, <3>1, <3>2, <3>3, EntryFacts DEF BestSoFar
  <2> QED BY <2>2, <2>3
<1>6. CASE PassScope
  <2>1. best' = best /\ bestIsPrefix' = bestIsPrefix
    BY <1>6 DEF PassScope
  <2>2. CASE entries[n].isDefault
    BY <1>1, <1>2, <1>3, <2>1, <2>2 DEF BestSoFar
  <2>3. CASE ~entries[n].isDefault
    <3>1. ~Replaces(entries[n]) /\ n \in Scopes
      BY <1>1, <1>6, <2>3 DEF PassScope, Scopes
    <3>2. CASE bestIsPrefix
      <4>1. n \in Prefixes => entries[n].len <= entries[best].len
        BY <1>1, <3>1, <3>2, EntryFacts DEF Replaces, Prefixes, BestLen, BestSoFar, Seen, Scopes, None
      <4> QED BY <1>1, <1>2, <1>3, <2>1, <2>3, <3>2, <4>1 DEF BestSoFar
    <3>3. CASE ~bestIsPrefix
      <4>1. n \notin Prefixes
        BY <3>1, <3>3 DEF Replaces, Prefixes
      <4>2. n \in Domains => best # None /\ entries[n].hostLen <= entries[best].hostLen
        BY <1>1, <3>1, <3>3, EntryFacts DEF Replaces, Domains, BestHostLen, BestSoFar, Seen, Scopes, None
      <4> QED BY <1>1, <1>2, <1>3, <2>1, <2>3, <3>3, <4>1, <4>2 DEF BestSoFar
    <3> QED BY <3>2, <3>3 DEF TypeOK
  <2> QED BY <2>2, <2>3
<1> QED BY <1>5, <1>6

LEMMA Inductive == Spec => []Inv
<1>1. Init => Inv
  <2> SUFFICES ASSUME Init PROVE Inv
    OBVIOUS
  <2>1. Len(entries) \in Nat
    BY ConfigAssumption DEF Init
  <2>2. TypeOK
    <3>1. n \in 1..(Len(entries) + 1) /\ best \in 0..Len(entries)
      BY <2>1 DEF Init, None
    <3>2. config \in [Fields -> Int]
      BY ConfigAssumption DEF Init
    <3> QED BY <3>1, <3>2 DEF Init, TypeOK
  <2>3. Seen = {}
    BY <2>1 DEF Init, Seen, Scopes
  <2> QED BY <2>2, <2>3 DEF Init, Inv, BestSoFar
<1>2. ASSUME Inv, [Next]_vars
      PROVE  Inv'
  <2> USE <1>2 DEF Inv
  <2>1. CASE ApplyDefault
    <3>1. config' \in [Fields -> Int]
      BY <2>1, MergeType DEF ApplyDefault, IsFirstDefault, TypeOK
    <3> QED BY <2>1, <3>1 DEF ApplyDefault, TypeOK, BestSoFar, Seen, Scopes, Prefixes, Domains
  <2>2. CASE TakeScope
    BY <2>2, ScanStep, EntryFacts DEF TakeScope, Advance, TypeOK
  <2>3. CASE PassScope
    BY <2>3, ScanStep, EntryFacts DEF PassScope, Advance, TypeOK
  <2>4. CASE EndScan
    BY <2>4, EntryFacts DEF EndScan, TypeOK, BestSoFar, Seen, Scopes, Prefixes, Domains
  <2>5. CASE ApplyScope
    <3>1. config' \in [Fields -> Int]
      BY <2>5, MergeType DEF ApplyScope, Applies, TypeOK, None
    <3> QED BY <2>5, <3>1 DEF ApplyScope, TypeOK, BestSoFar, Seen, Scopes, Prefixes, Domains
  <2>6. CASE UNCHANGED vars
    BY <2>6 DEF vars, TypeOK, BestSoFar, Seen, Scopes, Prefixes, Domains
  <2> QED BY <1>2, <2>1, <2>2, <2>3, <2>4, <2>5, <2>6 DEF Next
<1> QED BY <1>1, <1>2, PTL DEF Spec

\* Whatever the scopes and their order, the longest prefix of the URL is the
\* scope ResolveConfig chooses.
LEMMA PrefixChosen == Spec => []LongestPrefixWins
<1>1. ASSUME Inv PROVE LongestPrefixWins
  <2> SUFFICES ASSUME pc \in {"apply", "done"}, Prefixes # {}
               PROVE  /\ best \in Prefixes
                      /\ \A k \in Prefixes : entries[k].len <= entries[best].len
    BY DEF LongestPrefixWins
  <2>1. Seen \cap Prefixes = Prefixes
    BY <1>1, EntryFacts DEF Inv, Seen, Scopes, Prefixes
  <2> QED BY <1>1, <2>1 DEF Inv, BestSoFar
<1> QED BY <1>1, Inductive, PTL

\* Without a prefix match it chooses the longest matching domain, or nothing.
LEMMA DomainChosen == Spec => []LongestDomainOtherwise
<1>1. ASSUME Inv PROVE LongestDomainOtherwise
  <2> SUFFICES ASSUME pc \in {"apply", "done"}, Prefixes = {}
               PROVE  IF Domains = {} THEN best = None
                      ELSE /\ best \in Domains
                           /\ \A k \in Domains : entries[k].hostLen <= entries[best].hostLen
    BY DEF LongestDomainOtherwise
  <2>1. Seen \cap Domains = Domains
    BY <1>1, EntryFacts DEF Inv, Seen, Scopes, Domains
  <2> QED BY <1>1, <2>1 DEF Inv, BestSoFar
<1> QED BY <1>1, Inductive, PTL

\* The most specific scope is chosen, for every list of scopes in every order.
THEOREM ScopeChosen == Spec => []BestScopeChosen
<1>1. LongestPrefixWins /\ LongestDomainOtherwise => BestScopeChosen
  BY DEF BestScopeChosen
<1> QED BY <1>1, PrefixChosen, DomainChosen, PTL

\* max_concurrent is at least one in every configuration, whatever the scopes
\* give it.
THEOREM ConcurrencyIsPositive == Spec => []ConcurrencyPositive
<1>1. Init => ConcurrencyPositive
  BY DEF Init, ConcurrencyPositive
<1>2. ASSUME Inv, ConcurrencyPositive, [Next]_vars
      PROVE  ConcurrencyPositive'
  <2> SUFFICES ASSUME Clamped \in Fields, config[Clamped] >= 1
               PROVE  config'[Clamped] >= 1
    BY <1>2 DEF ConcurrencyPositive
  <2>1. \A k \in 1..Len(entries) : MergeFrom(config, entries[k])[Clamped] >= 1
    BY <1>2, EntryFacts DEF MergeFrom, Adjusted, Inv
  <2> QED BY <1>2, <2>1 DEF Next, vars, ApplyDefault, IsFirstDefault, TakeScope, PassScope,
             Advance, EndScan, ApplyScope, Applies, Inv, TypeOK, None
<1> QED BY <1>1, <1>2, Inductive, PTL DEF Spec

\* The layers of the configuration as they are laid: the hard-coded values, then
\* those of the first "default", then those of the chosen scope.
Base(d) ==
    [f \in Fields |-> IF Gives(d, f) THEN Adjusted(f, entries[d].value[f]) ELSE Fallback[f]]

Layers ==
    /\ pc = "default" => config = Fallback
    /\ pc \in {"scan", "apply"} =>
          \E d \in 0..Len(entries) : IsFirstDefault(d) /\ config = Base(d)
    /\ FieldPrecedence

\* Every field has the value of the chosen scope if that gives one, else of the
\* first "default", else the hard-coded one, wherever "default" is in the list.
\* A shorter matching scope that gives the field is ignored.
THEOREM FieldsPrecede == Spec => []FieldPrecedence
<1>1. Init => Layers
  BY DEF Init, Layers, FieldPrecedence
<1>2. ASSUME Inv, Layers, [Next]_vars
      PROVE  Layers'
  <2>1. CASE ApplyDefault
    <3>1. PICK d \in 0..Len(entries) :
             /\ IsFirstDefault(d)
             /\ config' = IF d = None THEN config ELSE MergeFrom(config, entries[d])
      BY <2>1 DEF ApplyDefault
    <3>2. config = Fallback /\ Fallback = [f \in Fields |-> Fallback[f]]
      BY <1>2, <2>1, ConfigAssumption DEF ApplyDefault, Layers
    <3>3. config' = Base(d)
      <4>1. CASE d = None
        BY <3>1, <3>2, <4>1 DEF Base, Gives
      <4>2. CASE d # None
        <5>1. config' = MergeFrom(Fallback, entries[d])
          BY <3>1, <3>2, <4>2
        <5>2. CASE entries[d].parses
          BY <4>2, <5>1, <5>2 DEF MergeFrom, Base, Gives
        <5>3. CASE ~entries[d].parses
          BY <3>2, <4>2, <5>1, <5>3 DEF MergeFrom, Base, Gives
        <5> QED BY <5>2, <5>3
      <4> QED BY <4>1, <4>2
    <3>4. pc' = "scan" /\ entries' = entries
      BY <2>1 DEF ApplyDefault
    <3>5. IsFirstDefault(d)' /\ (config = Base(d))'
      BY <3>1, <3>3, <3>4 DEF IsFirstDefault, Base, Gives
    <3> QED BY <3>4, <3>5 DEF Layers, FieldPrecedence
  <2>2. CASE TakeScope \/ PassScope \/ EndScan
    <3>1. /\ pc = "scan" /\ pc' \in {"scan", "apply"}
          /\ entries' = entries /\ config' = config
      BY <2>2 DEF TakeScope, PassScope, EndScan, Advance
    <3>2. PICK d \in 0..Len(entries) : IsFirstDefault(d) /\ config = Base(d)
      BY <1>2, <3>1 DEF Layers
    <3>3. IsFirstDefault(d)' /\ (config = Base(d))'
      BY <3>1, <3>2 DEF IsFirstDefault, Base, Gives
    <3> QED BY <3>1, <3>3 DEF Layers, FieldPrecedence
  <2>3. CASE ApplyScope
    <3>1. /\ pc = "apply" /\ pc' = "done" /\ entries' = entries /\ best' = best
          /\ config' = IF Applies THEN MergeFrom(config, entries[best]) ELSE config
      BY <2>3 DEF ApplyScope
    <3>2. PICK d \in 0..Len(entries) : IsFirstDefault(d) /\ config = Base(d)
      BY <1>2, <3>1 DEF Layers
    <3>3. ASSUME NEW f \in Fields
          PROVE  config'[f] = IF Applies /\ Gives(best, f) THEN Adjusted(f, entries[best].value[f])
                              ELSE Base(d)[f]
      <4>1. CASE Applies
        <5>1. best # None
          BY <4>1 DEF Applies
        <5>2. CASE entries[best].parses
          BY <3>1, <3>2, <4>1, <5>1, <5>2 DEF MergeFrom, Gives
        <5>3. CASE ~entries[best].parses
          BY <3>1, <3>2, <4>1, <5>3 DEF MergeFrom, Gives
        <5> QED BY <5>2, <5>3
      <4>2. CASE ~Applies
        BY <3>1, <3>2, <4>2
      <4> QED BY <4>1, <4>2
    <3>4. \A f \in Fields :
             config'[f] = IF Applies /\ Gives(best, f) THEN Adjusted(f, entries[best].value[f])
                          ELSE IF Gives(d, f) THEN Adjusted(f, entries[d].value[f])
                          ELSE Fallback[f]
      BY <3>3 DEF Base
    <3>5. /\ Applies' = Applies /\ IsFirstDefault(d)'
          /\ \A f : Gives(best, f)' = Gives(best, f) /\ Gives(d, f)' = Gives(d, f)
      BY <3>1, <3>2 DEF Applies, BestLen, IsFirstDefault, Gives
    <3> QED BY <3>1, <3>4, <3>5 DEF Layers, FieldPrecedence
  <2>4. CASE UNCHANGED vars
    BY <1>2, <2>4 DEF vars, Layers, FieldPrecedence, IsFirstDefault, Base, Gives, Applies, BestLen
  <2> QED BY <1>2, <2>1, <2>2, <2>3, <2>4 DEF Next
<1>3. Layers => FieldPrecedence
  BY DEF Layers
<1> QED BY <1>1, <1>2, <1>3, Inductive, PTL DEF Spec
=============================================================================
