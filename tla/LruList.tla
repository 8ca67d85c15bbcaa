------------------------------ MODULE LruList ------------------------------
(***************************************************************************)
(* The std::list operations LRUPool (include/lru_pool.hpp) is built from,  *)
(* on sequences of nodes, most recently used first.  A node has a key.     *)
(***************************************************************************)
EXTENDS Integers, Sequences

\* order_.splice(order_.begin(), order_, it), it pointing at position p.
MoveToFront_Swap(s, p) ==
    [i \in 1..Len(s) |-> IF i = 1 THEN s[p] ELSE IF i = p THEN s[1] ELSE s[i]]

MoveToFront(s, p) ==
    [i \in 1..Len(s) |-> IF i = 1 THEN s[p]
                         ELSE IF i <= p THEN s[i - 1] ELSE s[i]]

\* order_.pop_back()
DropLast(s) == [i \in 1..(Len(s) - 1) |-> s[i]]

\* order_.emplace_front(...)
PushFront(s, x) == <<x>> \o s

HasKey(s, k) == \E p \in 1..Len(s) : s[p].key = k

PositionOf(s, k) == CHOOSE p \in 1..Len(s) : s[p].key = k
=============================================================================
