------------------------------ MODULE LruPool ------------------------------
(***************************************************************************)
(* LRUPool<K, V> of include/lru_pool.hpp, the store of the per-host rate   *)
(* limiters (RateLimiterRegistry).  Every operation runs under mutex_, so  *)
(* each is one step whichever thread calls it.                             *)
(*                                                                         *)
(* A list node is a key and the identity of the value built for it (what a *)
(* returned pointer points at).  index_ maps a key to its node: the        *)
(* iterator is modelled by the identity of the node it points at.          *)
(***************************************************************************)
EXTENDS LruList

CONSTANTS
    Keys,      \* host names
    MaxSize,   \* max_size_: 200 for the registry
    MaxOps     \* bound: operations on the pool

ASSUME PoolAssumption ==
    /\ MaxSize \in Nat /\ MaxSize > 0
    /\ MaxOps \in Nat

Null == 0      \* nullptr, and index_.end()

VARIABLES
    order,     \* order_: the nodes, most recently used first
    index,     \* index_: the node of each key, Null when the key is absent
    ops,       \* history: operations so far
    lastUse    \* history: the operation that last returned a key's value

vars == <<order, index, ops, lastUse>>

Node == [key : Keys, id : Nat]

TypeOK ==
    /\ order \in Seq(Node)
    /\ index \in [Keys -> Nat]
    /\ ops \in Nat
    /\ lastUse \in [Keys -> Nat]

Init ==
    /\ order = <<>>
    /\ index = [k \in Keys |-> Null]
    /\ ops = 0
    /\ lastUse = [k \in Keys |-> 0]

Used(k) ==
    /\ ops < MaxOps
    /\ ops' = ops + 1
    /\ lastUse' = [lastUse EXCEPT ![k] = ops + 1]

-----------------------------------------------------------------------------
\* The key is in the index: its node moves to the front and its value is
\* returned.  GetOrCreate and Get share this path.
Hit(k) ==
    /\ Used(k)
    /\ index[k] # Null
    /\ order' = MoveToFront(order, CHOOSE p \in 1..Len(order) : order[p].id = index[k])
    /\ UNCHANGED index

\* Room for one more: the factory's value goes to the front.  Node identities
\* are never reused here, so a stale pointer is never mistaken for a live one.
Insert(k, kept, evicted) ==
    /\ order' = PushFront(kept, [key |-> k, id |-> ops + 1])
    /\ index' = [x \in Keys |-> IF x = k THEN ops + 1
                                ELSE IF x \in evicted THEN Null ELSE index[x]]

Create(k) ==
    /\ Used(k)
    /\ index[k] = Null
    /\ Len(order) < MaxSize
    /\ Insert(k, order, {})

\* At capacity the last node is dropped from the index and the list first.
EvictAndCreate_KeepIndex(k) ==
    /\ Used(k)
    /\ index[k] = Null
    /\ Len(order) >= MaxSize
    /\ Insert(k, DropLast(order), {})

EvictAndCreate(k) ==
    /\ Used(k)
    /\ index[k] = Null
    /\ Len(order) >= MaxSize
    /\ Insert(k, DropLast(order), {order[Len(order)].key})

GetOrCreate(k) == Hit(k) \/ Create(k) \/ EvictAndCreate(k)

\* Get on an absent key returns nullptr and changes nothing (a stuttering
\* step); on a present key it is Hit.
Get(k) == Hit(k)

Next == \E k \in Keys : GetOrCreate(k) \/ Get(k)

Spec == Init /\ [][Next]_vars

-----------------------------------------------------------------------------
\* Size() and the keys ForEach visits.
Size == Len(order)
Visited == {order[p].key : p \in 1..Len(order)}

\* The list and the index describe the same pool at every unlock: each key has
\* one node, which its index entry designates, and a key without a node has no
\* entry.  An entry left behind would be a dangling iterator.
ListAndIndexAgree ==
    /\ \A p, q \in 1..Len(order) : order[p].key = order[q].key => p = q
    /\ \A p \in 1..Len(order) : index[order[p].key] = order[p].id
    /\ \A k \in Keys : index[k] # Null => HasKey(order, k)

\* The pool never holds more than max_size_ limiters.
Bounded == Size <= MaxSize

\* The list is in order of use, so its back is the entry to evict.
MostRecentFirst ==
    \A p, q \in 1..Len(order) :
        p < q => lastUse[order[p].key] > lastUse[order[q].key]

\* A value lives until it is evicted ("owned by the pool, valid until
\* evicted"): no step replaces it in place, and the only key a step may drop is
\* the least recently used one, to make room for a key that was absent.
ValidUntilEvicted ==
    [][ \A k \in Keys : index[k] # Null /\ index'[k] # index[k] =>
            /\ index'[k] = Null
            /\ Size = MaxSize
            /\ \A x \in Keys : index[x] # Null => lastUse[k] <= lastUse[x]
      ]_vars
=============================================================================
