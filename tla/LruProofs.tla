----------------------------- MODULE LruProofs -----------------------------
(***************************************************************************)
(* LruPool for every set of keys and every capacity: the list and the      *)
(* index stay in step, and a value is dropped only when it is the least    *)
(* recently used one of a full pool.                                       *)
(***************************************************************************)
EXTENDS LruPool, TLAPS

USE PoolAssumption

\* What the properties need to be inductive: node identities are operation
\* numbers already used, no two nodes share one, and no use lies in the future.
Identities ==
    /\ \A p \in 1..Len(order) : order[p].id > 0 /\ order[p].id <= ops
    /\ \A p, q \in 1..Len(order) : order[p].id = order[q].id => p = q
    /\ \A k \in Keys : lastUse[k] <= ops

PoolInv == TypeOK /\ ListAndIndexAgree /\ Bounded /\ MostRecentFirst /\ Identities

LEMMA MoveToFrontFact ==
  ASSUME NEW s \in Seq(Node), NEW p \in 1..Len(s)
  PROVE  /\ MoveToFront(s, p) \in Seq(Node)
         /\ Len(MoveToFront(s, p)) = Len(s)
         /\ \A i \in 1..Len(s) :
               MoveToFront(s, p)[i] = IF i = 1 THEN s[p]
                                      ELSE IF i <= p THEN s[i - 1] ELSE s[i]
  BY DEF MoveToFront

LEMMA DropLastFact ==
  ASSUME NEW s \in Seq(Node), Len(s) > 0
  PROVE  /\ DropLast(s) \in Seq(Node)
         /\ Len(DropLast(s)) = Len(s) - 1
         /\ \A i \in 1..(Len(s) - 1) : DropLast(s)[i] = s[i]
  BY DEF DropLast

LEMMA PushFrontFact ==
  ASSUME NEW s \in Seq(Node), NEW x \in Node
  PROVE  /\ PushFront(s, x) \in Seq(Node)
         /\ Len(PushFront(s, x)) = Len(s) + 1
         /\ PushFront(s, x)[1] = x
         /\ \A i \in 2..(Len(s) + 1) : PushFront(s, x)[i] = s[i - 1]
  BY DEF PushFront

LEMMA PoolInit == Init => PoolInv
  BY DEF Init, PoolInv, TypeOK, ListAndIndexAgree, Bounded, MostRecentFirst,
         Identities, Size, Null

\* The nodes of a list, seen as keys and identities.
LEMMA NodeFact ==
  ASSUME NEW s \in Seq(Node)
  PROVE  /\ Len(s) \in Nat
         /\ \A i \in 1..Len(s) : s[i].key \in Keys /\ s[i].id \in Nat
  <1>1. \A x \in Node : x.key \in Keys /\ x.id \in Nat
    BY DEF Node
  <1>2. Len(s) \in Nat /\ \A i \in 1..Len(s) : s[i] \in Node
    OBVIOUS
  <1> QED
    BY <1>1, <1>2

\* A hit permutes the list: the node at p goes first, those before it move
\* back.  src says where each node of the new list comes from.
LEMMA HitStep ==
  ASSUME PoolInv, NEW k \in Keys, Hit(k)
  PROVE  PoolInv'
  <1> DEFINE n == Len(order)
  <1>1. /\ order \in Seq(Node) /\ index \in [Keys -> Nat] /\ ops \in Nat
        /\ lastUse \in [Keys -> Nat]
    BY DEF PoolInv, TypeOK
  <1>2. n \in Nat /\ \A i \in 1..n : order[i].key \in Keys /\ order[i].id \in Nat
    BY <1>1, NodeFact
  <1>3. PICK p \in 1..n : order[p].id = index[k] /\ order[p].key = k
    BY DEF Hit, PoolInv, ListAndIndexAgree, HasKey
  <1>4. p = CHOOSE q \in 1..n : order[q].id = index[k]
    BY <1>3 DEF PoolInv, Identities
  <1>5. /\ order' = MoveToFront(order, p)
        /\ index' = index
        /\ ops' = ops + 1
        /\ lastUse' = [lastUse EXCEPT ![k] = ops + 1]
    BY <1>4 DEF Hit, Used
  <1> DEFINE src == [i \in 1..n |-> IF i = 1 THEN p ELSE IF i <= p THEN i - 1 ELSE i]
  <1>6. /\ order' \in Seq(Node)
        /\ Len(order') = n
        /\ \A i \in 1..n : order'[i] = order[src[i]]
    <2>1. \A i \in 1..n : MoveToFront(order, p)[i] = order[src[i]]
      BY <1>1, <1>2 DEF MoveToFront
    <2> HIDE DEF src
    <2> QED
      BY <1>1, <1>5, <2>1, MoveToFrontFact
  <1>7. /\ \A i \in 1..n : src[i] \in 1..n
        /\ src[1] = p
        /\ \A i \in 2..n : src[i] # p
        /\ \A i, j \in 2..n : i < j => src[i] < src[j]
    BY <1>2
  <1>8. \A j \in 1..n : \E i \in 1..n : src[i] = j
    <2> SUFFICES ASSUME NEW j \in 1..n PROVE \E i \in 1..n : src[i] = j
      OBVIOUS
    <2>1. CASE j = p
      BY <1>2, <1>7, <2>1
    <2>2. CASE j < p
      <3>1. j + 1 \in 1..n /\ src[j + 1] = j
        BY <1>2, <2>2
      <3> HIDE DEF src
      <3> QED
        BY <3>1
    <2>3. CASE j > p
      <3>1. src[j] = j
        BY <1>2, <2>3
      <3> HIDE DEF src
      <3> QED
        BY <3>1
    <2> QED
      BY <1>2, <2>1, <2>2, <2>3
  <1>9. \A i, j \in 1..n : src[i] = src[j] => i = j
    BY <1>2
  <1> HIDE DEF src, n
  <1>10. TypeOK'
    BY <1>1, <1>5, <1>6 DEF TypeOK
  <1>11. ListAndIndexAgree'
    <2>1. /\ \A i, j \in 1..n : order[i].key = order[j].key => i = j
          /\ \A i \in 1..n : index[order[i].key] = order[i].id
          /\ \A x \in Keys : index[x] # Null => \E i \in 1..n : order[i].key = x
      BY DEF PoolInv, ListAndIndexAgree, HasKey, n
    <2>2. \A i, j \in 1..n : order'[i].key = order'[j].key => i = j
      BY <1>6, <1>7, <1>9, <2>1
    <2>3. \A i \in 1..n : index'[order'[i].key] = order'[i].id
      BY <1>5, <1>6, <1>7, <2>1
    <2>4. ASSUME NEW x \in Keys, index'[x] # Null
          PROVE  \E i \in 1..n : order'[i].key = x
      <3>1. PICK j \in 1..n : order[j].key = x
        BY <1>5, <2>1, <2>4
      <3>2. PICK i \in 1..n : src[i] = j
        BY <1>8
      <3> QED
        BY <1>6, <3>1, <3>2
    <2> QED
      BY <1>6, <2>2, <2>3, <2>4 DEF ListAndIndexAgree, HasKey
  <1>12. Bounded'
    BY <1>6 DEF PoolInv, Bounded, Size, n
  <1>13. MostRecentFirst'
    <2> SUFFICES ASSUME NEW i \in 1..n, NEW j \in 1..n, i < j
                 PROVE  lastUse'[order'[i].key] > lastUse'[order'[j].key]
      BY <1>6 DEF MostRecentFirst
    <2>1. \A a, b \in 1..n : order[a].key = order[b].key => a = b
      BY DEF PoolInv, ListAndIndexAgree, n
    <2>2. \A a \in 1..n : /\ lastUse[order[a].key] <= ops
                          /\ lastUse[order[a].key] \in Nat
      BY <1>1, <1>2 DEF PoolInv, Identities
    <2>3. j \in 2..n /\ src[j] \in 1..n /\ src[j] # p
      BY <1>2, <1>7
    <2>4. lastUse'[order'[j].key] = lastUse[order[src[j]].key]
      BY <1>1, <1>2, <1>3, <1>5, <1>6, <2>1, <2>3
    <2>5. CASE i = 1
      <3>1. lastUse'[order'[i].key] = ops + 1
        BY <1>1, <1>3, <1>5, <1>6, <1>7, <2>5
      <3> QED
        BY <1>1, <2>2, <2>3, <2>4, <3>1, SMTT(30)
    <2>6. CASE i > 1
      <3>1. i \in 2..n /\ src[i] \in 1..n /\ src[i] # p /\ src[i] < src[j]
        BY <1>2, <1>7, <2>3, <2>6
      <3>2. lastUse'[order'[i].key] = lastUse[order[src[i]].key]
        BY <1>1, <1>2, <1>3, <1>5, <1>6, <2>1, <3>1
      <3>3. lastUse[order[src[i]].key] > lastUse[order[src[j]].key]
        BY <2>3, <3>1 DEF PoolInv, MostRecentFirst, n
      <3> QED
        BY <2>4, <3>2, <3>3
    <2> QED
      BY <1>2, <2>5, <2>6
  <1>14. Identities'
    <2>1. /\ \A i \in 1..n : order[i].id > 0 /\ order[i].id <= ops
          /\ \A i, j \in 1..n : order[i].id = order[j].id => i = j
          /\ \A x \in Keys : lastUse[x] <= ops
      BY DEF PoolInv, Identities, n
    <2>2. \A i \in 1..n : order'[i].id > 0 /\ order'[i].id <= ops'
      <3> SUFFICES ASSUME NEW i \in 1..n
                   PROVE  order'[i].id > 0 /\ order'[i].id <= ops'
        OBVIOUS
      <3>1. order'[i].id = order[src[i]].id /\ src[i] \in 1..n
        BY <1>6, <1>7
      <3> QED
        BY <1>1, <1>2, <1>5, <2>1, <3>1
    <2>3. \A i, j \in 1..n : order'[i].id = order'[j].id => i = j
      BY <1>6, <1>7, <1>9, <2>1
    <2>4. \A x \in Keys : lastUse'[x] <= ops'
      BY <1>1, <1>5, <2>1
    <2> QED
      BY <1>6, <2>2, <2>3, <2>4 DEF Identities
  <1> QED
    BY <1>10, <1>11, <1>12, <1>13, <1>14 DEF PoolInv

\* An insertion: the nodes kept are an initial part of the list, the keys they
\* have are those whose index entry stays, and the new key is not among them.
LEMMA InsertStep ==
  ASSUME PoolInv, NEW k \in Keys, Used(k), index[k] = Null,
         NEW m \in 0..Len(order), m < MaxSize,
         NEW kept \in Seq(Node), Len(kept) = m,
         \A i \in 1..m : kept[i] = order[i],
         NEW evicted \in SUBSET Keys,
         \A i \in 1..Len(order) : order[i].key \in evicted <=> i > m,
         Insert(k, kept, evicted)
  PROVE  PoolInv'
  <1> DEFINE n == Len(order)
             new == [key |-> k, id |-> ops + 1]
  <1>1. /\ order \in Seq(Node) /\ index \in [Keys -> Nat] /\ ops \in Nat
        /\ lastUse \in [Keys -> Nat]
    BY DEF PoolInv, TypeOK
  <1>2. /\ n \in Nat /\ m \in Nat /\ m <= n
        /\ \A i \in 1..n : order[i].key \in Keys /\ order[i].id \in Nat
    BY <1>1, NodeFact
  <1>3. /\ ops' = ops + 1
        /\ lastUse' = [lastUse EXCEPT ![k] = ops + 1]
        /\ order' = PushFront(kept, new)
        /\ index' = [x \in Keys |-> IF x = k THEN ops + 1
                                    ELSE IF x \in evicted THEN Null ELSE index[x]]
    BY DEF Used, Insert
  <1>4. new \in Node /\ new.key = k /\ new.id = ops + 1
    BY <1>1 DEF Node
  <1> HIDE DEF new, n
  <1>5. /\ order' \in Seq(Node)
        /\ Len(order') = m + 1
        /\ order'[1] = new
        /\ \A i \in 2..(m + 1) : order'[i] = kept[i - 1]
    BY <1>3, <1>4, PushFrontFact
  <1>6. \A i \in 2..(m + 1) : i - 1 \in 1..m /\ i - 1 \in 1..n /\ order'[i] = order[i - 1]
    <2> SUFFICES ASSUME NEW i \in 2..(m + 1)
                 PROVE  i - 1 \in 1..m /\ i - 1 \in 1..n /\ order'[i] = order[i - 1]
      OBVIOUS
    <2>1. i - 1 \in 1..m /\ i - 1 \in 1..n
      BY <1>2
    <2>2. order'[i] = kept[i - 1]
      BY <1>5
    <2>3. kept[i - 1] = order[i - 1]
      BY <2>1
    <2> QED
      BY <2>1, <2>2, <2>3
  <1>7. /\ \A i, j \in 1..n : order[i].key = order[j].key => i = j
        /\ \A i \in 1..n : index[order[i].key] = order[i].id
        /\ \A x \in Keys : index[x] # Null => \E i \in 1..n : order[i].key = x
    BY DEF PoolInv, ListAndIndexAgree, HasKey, n
  <1>8. /\ \A i \in 1..n : order[i].id > 0 /\ order[i].id <= ops
        /\ \A i, j \in 1..n : order[i].id = order[j].id => i = j
        /\ \A x \in Keys : lastUse[x] <= ops
    BY DEF PoolInv, Identities, n
  <1>9. \A i \in 1..n : order[i].key # k
    BY <1>2, <1>7, <1>8 DEF Null
  <1>10. TypeOK'
    <2>1. index' \in [Keys -> Nat]
      BY <1>1, <1>3 DEF Null
    <2> QED
      BY <1>1, <1>3, <1>5, <2>1 DEF TypeOK
  <1>11. ListAndIndexAgree'
    <2>1. \A i, j \in 1..(m + 1) : order'[i].key = order'[j].key => i = j
      <3> SUFFICES ASSUME NEW i \in 1..(m + 1), NEW j \in 1..(m + 1),
                          order'[i].key = order'[j].key
                   PROVE  i = j
        OBVIOUS
      <3>1. \A a \in 1..(m + 1) : a = 1 \/ a \in 2..(m + 1)
        BY <1>2
      <3>2. \A a \in 2..(m + 1) : order'[a].key # k
        BY <1>6, <1>9
      <3>3. order'[1].key = k
        BY <1>4, <1>5
      <3>4. CASE i \in 2..(m + 1) /\ j \in 2..(m + 1)
        <4>1. order[i - 1].key = order[j - 1].key
          BY <1>6, <3>4
        <4>2. i - 1 = j - 1
          BY <1>6, <1>7, <3>4, <4>1
        <4> QED
          BY <1>2, <4>2
      <3> QED
        BY <3>1, <3>2, <3>3, <3>4
    <2>2. ASSUME NEW i \in 1..(m + 1)
          PROVE  index'[order'[i].key] = order'[i].id
      <3>1. CASE i = 1
        BY <1>3, <1>4, <1>5, <3>1
      <3>2. CASE i \in 2..(m + 1)
        <4>1. order'[i] = order[i - 1] /\ i - 1 \in 1..m /\ i - 1 \in 1..n
          BY <1>6, <3>2
        <4>2. order[i - 1].key \notin evicted
          BY <1>2, <4>1 DEF n
        <4>3. order[i - 1].key \in Keys /\ order[i - 1].key # k
          BY <1>2, <1>9, <4>1
        <4> QED
          BY <1>3, <1>7, <4>1, <4>2, <4>3
      <3> QED
        BY <1>2, <3>1, <3>2
    <2>3. ASSUME NEW x \in Keys, index'[x] # Null
          PROVE  \E i \in 1..(m + 1) : order'[i].key = x
      <3>1. CASE x = k
        BY <1>2, <1>4, <1>5, <3>1
      <3>2. CASE x # k
        <4>1. index[x] # Null /\ x \notin evicted
          BY <1>3, <2>3, <3>2
        <4>2. PICK j \in 1..n : order[j].key = x
          BY <1>7, <4>1
        <4>3. j <= m
          BY <1>2, <4>1, <4>2 DEF n
        <4>4. j + 1 \in 2..(m + 1) /\ j + 1 - 1 = j
          BY <1>2, <4>3
        <4>5. order'[j + 1] = order[j] /\ j + 1 \in 1..(m + 1)
          BY <1>6, <4>4
        <4> QED
          BY <4>2, <4>5
      <3> QED
        BY <3>1, <3>2
    <2> QED
      BY <1>5, <2>1, <2>2, <2>3 DEF ListAndIndexAgree, HasKey
  <1>12. Bounded'
    BY <1>2, <1>5 DEF Bounded, Size
  <1>13. MostRecentFirst'
    <2> SUFFICES ASSUME NEW i \in 1..(m + 1), NEW j \in 1..(m + 1), i < j
                 PROVE  lastUse'[order'[i].key] > lastUse'[order'[j].key]
      BY <1>5 DEF MostRecentFirst
    <2>0. \A a \in 2..(m + 1) :
             /\ lastUse'[order'[a].key] = lastUse[order[a - 1].key]
             /\ lastUse[order[a - 1].key] \in Nat
             /\ lastUse[order[a - 1].key] <= ops
      BY <1>1, <1>2, <1>3, <1>6, <1>8, <1>9
    <2>1. j \in 2..(m + 1) /\ (i = 1 \/ i \in 2..(m + 1))
      BY <1>2
    <2>2. CASE i = 1
      <3>1. lastUse'[order'[i].key] = ops + 1
        BY <1>1, <1>3, <1>4, <1>5, <2>2
      <3>2. /\ lastUse'[order'[j].key] \in Nat
            /\ lastUse'[order'[j].key] <= ops
        BY <2>0, <2>1
      <3> QED
        BY <1>1, <3>1, <3>2
    <2>3. CASE i \in 2..(m + 1)
      <3>1. i - 1 \in 1..n /\ j - 1 \in 1..n /\ i - 1 < j - 1
        BY <1>2, <1>6, <2>1, <2>3
      <3>2. lastUse[order[i - 1].key] > lastUse[order[j - 1].key]
        BY <3>1 DEF PoolInv, MostRecentFirst, n
      <3> QED
        BY <2>0, <2>1, <2>3, <3>2
    <2> QED
      BY <2>1, <2>2, <2>3
  <1>14. Identities'
    <2>0. \A a \in 1..(m + 1) : a = 1 \/ a \in 2..(m + 1)
      BY <1>2
    <2>1. \A a \in 2..(m + 1) : /\ order'[a].id > 0 /\ order'[a].id <= ops
                                /\ order'[a].id \in Nat
      BY <1>2, <1>6, <1>8
    <2>2. order'[1].id = ops + 1
      BY <1>4, <1>5
    <2>3. \A i \in 1..(m + 1) : order'[i].id > 0 /\ order'[i].id <= ops'
      BY <1>1, <1>3, <2>0, <2>1, <2>2
    <2>4. ASSUME NEW i \in 1..(m + 1), NEW j \in 1..(m + 1),
                 order'[i].id = order'[j].id
          PROVE  i = j
      <3>1. CASE i \in 2..(m + 1) /\ j \in 2..(m + 1)
        <4>1. i - 1 = j - 1
          BY <1>6, <1>8, <2>4, <3>1
        <4> QED
          BY <1>2, <4>1
      <3>2. CASE i = 1 /\ j \in 2..(m + 1)
        BY <1>1, <2>1, <2>2, <2>4, <3>2
      <3>3. CASE j = 1 /\ i \in 2..(m + 1)
        BY <1>1, <2>1, <2>2, <2>4, <3>3
      <3> QED
        BY <2>0, <3>1, <3>2, <3>3
    <2>5. \A x \in Keys : lastUse'[x] <= ops'
      BY <1>1, <1>3, <1>8
    <2> QED
      BY <1>5, <2>3, <2>4, <2>5 DEF Identities
  <1> QED
    BY <1>10, <1>11, <1>12, <1>13, <1>14 DEF PoolInv

LEMMA PoolStep == PoolInv /\ [Next]_vars => PoolInv'
  <1> SUFFICES ASSUME PoolInv, [Next]_vars PROVE PoolInv'
    OBVIOUS
  <1>1. ASSUME NEW k \in Keys, Hit(k) PROVE PoolInv'
    BY <1>1, HitStep
  <1>2. ASSUME NEW k \in Keys, Create(k) PROVE PoolInv'
    <2>1. order \in Seq(Node) /\ Len(order) \in 0..Len(order)
      BY DEF PoolInv, TypeOK
    <2>2. /\ Used(k) /\ index[k] = Null /\ Len(order) < MaxSize
          /\ Insert(k, order, {})
      BY <1>2 DEF Create
    <2> QED
      BY <2>1, <2>2, InsertStep
  <1>3. ASSUME NEW k \in Keys, EvictAndCreate(k) PROVE PoolInv'
    <2> DEFINE last == order[Len(order)].key
               m == Len(order) - 1
    <2>1. /\ order \in Seq(Node) /\ Len(order) \in Nat /\ Len(order) <= MaxSize
          /\ Len(order) > 0
      BY <1>3 DEF PoolInv, TypeOK, Bounded, Size, EvictAndCreate
    <2>2. /\ DropLast(order) \in Seq(Node) /\ Len(DropLast(order)) = m
          /\ \A i \in 1..m : DropLast(order)[i] = order[i]
      BY <2>1, DropLastFact
    <2>3. m \in 0..Len(order) /\ m < MaxSize
      BY <2>1
    <2>4. last \in Keys /\ {last} \in SUBSET Keys
      BY <2>1, NodeFact
    <2>5. \A i \in 1..Len(order) : order[i].key \in {last} <=> i > m
      BY <2>1 DEF PoolInv, ListAndIndexAgree
    <2>6. /\ Used(k) /\ index[k] = Null
          /\ Insert(k, DropLast(order), {last})
      BY <1>3 DEF EvictAndCreate
    <2> HIDE DEF m, last
    <2> QED
      BY <2>2, <2>3, <2>4, <2>5, <2>6, InsertStep
  <1>4. CASE UNCHANGED vars
    BY <1>4 DEF vars, PoolInv, TypeOK, ListAndIndexAgree, Bounded, Size,
                MostRecentFirst, Identities, HasKey
  <1> QED
    BY <1>1, <1>2, <1>3, <1>4 DEF Next, GetOrCreate, Get

\* The pool's list and index never disagree: no iterator in the index dangles
\* and no key has two nodes, for every capacity and every sequence of calls.
THEOREM PoolConsistent == Spec => []ListAndIndexAgree
  <1>1. PoolInv => ListAndIndexAgree
    BY DEF PoolInv
  <1> QED
    BY <1>1, PoolInit, PoolStep, PTL DEF Spec

\* The pool never holds more limiters than its capacity.
THEOREM PoolBounded == Spec => []Bounded
  <1>1. PoolInv => Bounded
    BY DEF PoolInv
  <1> QED
    BY <1>1, PoolInit, PoolStep, PTL DEF Spec

\* The list is always in order of use, so pop_back drops the right limiter.
THEOREM PoolOrdered == Spec => []MostRecentFirst
  <1>1. PoolInv => MostRecentFirst
    BY DEF PoolInv
  <1> QED
    BY <1>1, PoolInit, PoolStep, PTL DEF Spec

\* What ValidUntilEvicted says of one step.
Drops(k) ==
    index[k] # Null /\ index'[k] # index[k] =>
        /\ index'[k] = Null
        /\ Size = MaxSize
        /\ \A x \in Keys : index[x] # Null => lastUse[k] <= lastUse[x]

LEMMA EvictDropsLru ==
  ASSUME PoolInv, NEW new \in Keys, EvictAndCreate(new), NEW k \in Keys
  PROVE  Drops(k)
  <1> DEFINE n == Len(order)
             last == order[n].key
  <1>1. /\ order \in Seq(Node) /\ n \in Nat /\ n = MaxSize
        /\ lastUse \in [Keys -> Nat]
    BY DEF PoolInv, TypeOK, Bounded, Size, EvictAndCreate
  <1>2. /\ index[new] = Null
        /\ index' = [x \in Keys |-> IF x = new THEN ops + 1
                                    ELSE IF x \in {last} THEN Null ELSE index[x]]
    BY DEF EvictAndCreate, Insert
  <1>3. \A x \in Keys : index[x] # Null => lastUse[last] <= lastUse[x]
    <2> SUFFICES ASSUME NEW x \in Keys, index[x] # Null
                 PROVE  lastUse[last] <= lastUse[x]
      OBVIOUS
    <2>1. PICK j \in 1..n : order[j].key = x
      BY DEF PoolInv, ListAndIndexAgree, HasKey
    <2>2. last \in Keys
      BY <1>1, NodeFact
    <2>3. CASE j = n
      BY <1>1, <2>1, <2>3
    <2>4. CASE j < n
      <3>1. lastUse[order[j].key] > lastUse[order[n].key]
        BY <1>1, <2>4 DEF PoolInv, MostRecentFirst
      <3> QED
        BY <1>1, <2>1, <2>2, <3>1
    <2> QED
      BY <1>1, <2>3, <2>4
  <1> HIDE DEF last
  <1>4. ASSUME index[k] # Null, index'[k] # index[k]
        PROVE  k = last /\ index'[k] = Null
    BY <1>2, <1>4
  <1> QED
    BY <1>1, <1>3, <1>4 DEF Drops, Size

\* A limiter handed out by the registry stays the limiter of its host until it
\* is evicted, and only the least recently used limiter of a full pool is.
THEOREM PoolValidUntilEvicted == Spec => ValidUntilEvicted
  <1>1. PoolInv /\ [Next]_vars => [\A k \in Keys : Drops(k)]_vars
    <2> SUFFICES ASSUME PoolInv, Next, NEW k \in Keys PROVE Drops(k)
      OBVIOUS
    <2>1. ASSUME NEW x \in Keys, Hit(x) PROVE Drops(k)
      BY <2>1 DEF Hit, Drops
    <2>2. ASSUME NEW x \in Keys, Create(x) PROVE Drops(k)
      BY <2>2 DEF Create, Insert, Drops, PoolInv, TypeOK
    <2>3. ASSUME NEW x \in Keys, EvictAndCreate(x) PROVE Drops(k)
      BY <2>3, EvictDropsLru
    <2> QED
      BY <2>1, <2>2, <2>3 DEF Next, GetOrCreate, Get
  <1> QED
    BY <1>1, PoolInit, PoolStep, PTL DEF Spec, ValidUntilEvicted, Drops
=============================================================================
