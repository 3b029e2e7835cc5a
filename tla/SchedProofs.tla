----------------------------- MODULE SchedProofs -----------------------------
(***************************************************************************)
(* What the list operations do to a well-formed list, for any number of     *)
(* elements: a list l that queues the members of S is described by one of   *)
(* the orders of S, and each lemma gives the order after the operation.     *)
(* Then the scheduler, which keeps its ready list and its status words in   *)
(* agreement for any set of threads and any slice.  Its inductive invariant *)
(* is SchedInv; schedule() is handled once, for whatever list and statuses  *)
(* its caller has left, and then cited by every operation that calls it.    *)
(***************************************************************************)
EXTENDS Sched, FiniteSetTheorems, SequenceTheorems, WellFoundedInduction, TLAPS

-----------------------------------------------------------------------------
(* The lists.                                                              *)

\* The orders of a set are sequences as long as the set is large.
LEMMA OrderLen ==
    ASSUME NEW n \in Nat, NEW S, NEW s \in [1..n -> S]
    PROVE  s \in Seq(S) /\ Len(s) = n
<1>1. s \in Seq(S)
  OBVIOUS
<1>2. DOMAIN s = 1..n /\ DOMAIN s = 1..Len(s) /\ Len(s) \in Nat
  BY <1>1, LenProperties
<1> QED
  BY <1>1, <1>2

\* Two positions of a duplicate-free sequence and the sentinels are different
\* nodes: At is injective on 0..n+1.
LEMMA AtInjective ==
    ASSUME NEW n \in Nat, NEW s \in [1..n -> Elem],
           \A i, j \in 1..n : s[i] = s[j] => i = j,
           NEW i \in 0..(n + 1), NEW j \in 0..(n + 1), At(s, i) = At(s, j)
    PROVE  i = j
<1>1. Len(s) = n
  BY OrderLen
<1>2. \A k \in 1..n : At(s, k) = s[k] /\ s[k] \in Elem
  BY <1>1 DEF At
<1>3. At(s, 0) = HEAD /\ At(s, n + 1) = TAIL
  BY <1>1 DEF At
<1>4. HEAD # TAIL /\ HEAD \notin Elem /\ TAIL \notin Elem
  BY SentinelAssumption
<1>5. i \in 1..n \/ i = 0 \/ i = n + 1
  OBVIOUS
<1>6. j \in 1..n \/ j = 0 \/ j = n + 1
  OBVIOUS
<1> QED
  BY <1>2, <1>3, <1>4, <1>5, <1>6

\* list_append puts the element after all others.
LEMMA AppendHolds ==
    ASSUME NEW n \in Nat, NEW s \in [1..n -> Elem], NEW l \in ListType, NEW e \in Elem,
           \A i, j \in 1..n : s[i] = s[j] => i = j,
           \A i \in 1..n : s[i] # e,
           Holds(l, s)
    PROVE  LET r == [i \in 1..(n + 1) |-> IF i = n + 1 THEN e ELSE s[i]]
           IN  Holds(list_append(l, e), r)
<1> DEFINE r == [i \in 1..(n + 1) |-> IF i = n + 1 THEN e ELSE s[i]]
           m == list_append(l, e)
<1>1. Len(s) = n
  BY OrderLen
<1>2. r \in [1..(n + 1) -> Elem] /\ Len(r) = n + 1
  <2>1. r \in [1..(n + 1) -> Elem]
    OBVIOUS
  <2> QED
    BY <2>1, OrderLen
<1>3. \A k \in 0..n : At(r, k) = At(s, k)
  BY <1>1, <1>2 DEF At
<1>4. At(r, n + 1) = e /\ At(r, n + 2) = TAIL /\ At(s, n + 1) = TAIL
  BY <1>1, <1>2 DEF At
<1>5. \A k \in 0..n : At(s, k) \in Node /\ At(s, k) # e /\ At(s, k) # TAIL
  BY <1>1, SentinelAssumption DEF At, Node
<1>6. \A k \in 0..n : At(s, k) = At(s, n) => k = n
  BY AtInjective
<1>7. l.prev[TAIL] = At(s, n)
  BY <1>1, <1>4 DEF Holds
<1>8. /\ m.next = [l.next EXCEPT ![At(s, n)] = e, ![e] = TAIL]
      /\ m.prev = [l.prev EXCEPT ![e] = At(s, n), ![TAIL] = e]
  BY <1>7 DEF list_append, list_insert
<1>9. /\ l.next \in [Node -> Node \cup {NULL}]
      /\ l.prev \in [Node -> Node \cup {NULL}]
      /\ e \in Node /\ TAIL \in Node /\ e # TAIL
  BY SentinelAssumption DEF ListType, Node
<1>9a. \A x \in Node :
        /\ m.next[x] = IF x = e THEN TAIL ELSE IF x = At(s, n) THEN e ELSE l.next[x]
        /\ m.prev[x] = IF x = TAIL THEN e ELSE IF x = e THEN At(s, n) ELSE l.prev[x]
  BY <1>5, <1>8, <1>9
<1>10. SUFFICES ASSUME NEW k \in 0..(n + 1)
                PROVE  m.next[At(r, k)] = At(r, k + 1) /\ m.prev[At(r, k + 1)] = At(r, k)
  BY <1>2 DEF Holds
<1>11. CASE k < n
  <2>1. l.next[At(s, k)] = At(s, k + 1) /\ l.prev[At(s, k + 1)] = At(s, k)
    BY <1>1, <1>11 DEF Holds
  <2>2. At(r, k) = At(s, k) /\ At(r, k + 1) = At(s, k + 1)
    BY <1>3, <1>11
  <2>3. /\ At(s, k) \in Node /\ At(s, k) # e /\ At(s, k) # At(s, n)
        /\ At(s, k + 1) \in Node /\ At(s, k + 1) # e /\ At(s, k + 1) # TAIL
    BY <1>5, <1>6, <1>11
  <2> QED
    BY <1>9, <1>9a, <2>1, <2>2, <2>3
<1>12. CASE k = n
  <2>1. At(r, k) = At(s, n) /\ At(r, k + 1) = e
    BY <1>3, <1>4, <1>12
  <2> QED
    BY <1>5, <1>9, <1>9a, <2>1
<1>13. CASE k = n + 1
  <2>1. At(r, k) = e /\ At(r, k + 1) = TAIL
    BY <1>4, <1>13
  <2> QED
    BY <1>5, <1>9, <1>9a, <2>1
<1> QED
  BY <1>11, <1>12, <1>13

\* list_push puts the element before all others.
LEMMA PushHolds ==
    ASSUME NEW n \in Nat, NEW s \in [1..n -> Elem], NEW l \in ListType, NEW e \in Elem,
           \A i, j \in 1..n : s[i] = s[j] => i = j,
           \A i \in 1..n : s[i] # e,
           Holds(l, s)
    PROVE  LET r == [i \in 1..(n + 1) |-> IF i = 1 THEN e ELSE s[i - 1]]
           IN  Holds(list_push(l, e), r)
<1> DEFINE r == [i \in 1..(n + 1) |-> IF i = 1 THEN e ELSE s[i - 1]]
           m == list_push(l, e)
<1>1. Len(s) = n
  BY OrderLen
<1>2. r \in [1..(n + 1) -> Elem] /\ Len(r) = n + 1
  <2>1. r \in [1..(n + 1) -> Elem]
    OBVIOUS
  <2> QED
    BY <2>1, OrderLen
<1>3. \A k \in 1..(n + 1) : At(r, k + 1) = At(s, k)
  BY <1>1, <1>2 DEF At
<1>4. At(r, 0) = HEAD /\ At(r, 1) = e /\ At(s, 0) = HEAD
  BY <1>1, <1>2 DEF At
<1>5. \A k \in 1..(n + 1) : At(s, k) \in Node /\ At(s, k) # e /\ At(s, k) # HEAD
  BY <1>1, SentinelAssumption DEF At, Node
<1>6. \A k \in 1..(n + 1) : At(s, k) = At(s, 1) => k = 1
  BY AtInjective
<1>7. l.next[HEAD] = At(s, 1) /\ l.prev[At(s, 1)] = HEAD
  <2>1. 0 \in 0..Len(s)
    BY <1>1
  <2> QED
    BY <1>4, <2>1 DEF Holds
<1>8. /\ m.next = [l.next EXCEPT ![HEAD] = e, ![e] = At(s, 1)]
      /\ m.prev = [l.prev EXCEPT ![e] = HEAD, ![At(s, 1)] = e]
  BY <1>7 DEF list_push, list_insert
<1>9. /\ l.next \in [Node -> Node \cup {NULL}]
      /\ l.prev \in [Node -> Node \cup {NULL}]
      /\ e \in Node /\ HEAD \in Node /\ e # HEAD
  BY SentinelAssumption DEF ListType, Node
<1>9a. \A x \in Node :
        /\ m.next[x] = IF x = e THEN At(s, 1) ELSE IF x = HEAD THEN e ELSE l.next[x]
        /\ m.prev[x] = IF x = At(s, 1) THEN e ELSE IF x = e THEN HEAD ELSE l.prev[x]
  BY <1>5, <1>8, <1>9
<1>10. SUFFICES ASSUME NEW k \in 0..(n + 1)
                PROVE  m.next[At(r, k)] = At(r, k + 1) /\ m.prev[At(r, k + 1)] = At(r, k)
  BY <1>2 DEF Holds
<1>11. CASE k = 0
  BY <1>4, <1>5, <1>9, <1>9a, <1>11
<1>12. CASE k = 1
  <2>1. At(r, k) = e /\ At(r, k + 1) = At(s, 1) /\ At(s, 1) \in Node /\ At(s, 1) # e
    BY <1>3, <1>4, <1>5, <1>12
  <2> QED
    BY <1>9, <1>9a, <2>1
<1>13. CASE k > 1
  <2>1. k - 1 \in 1..n /\ (k - 1) + 1 = k
    BY <1>13
  <2>2. l.next[At(s, k - 1)] = At(s, k) /\ l.prev[At(s, k)] = At(s, k - 1)
    BY <1>1, <2>1 DEF Holds
  <2>3. At(r, k) = At(s, k - 1) /\ At(r, k + 1) = At(s, k)
    BY <1>3, <1>13, <2>1
  <2>4. /\ At(s, k - 1) \in Node /\ At(s, k - 1) # e /\ At(s, k - 1) # HEAD
        /\ At(s, k) \in Node /\ At(s, k) # e /\ At(s, k) # At(s, 1)
    BY <1>5, <1>6, <1>13, <2>1
  <2> QED
    BY <1>9, <1>9a, <2>2, <2>3, <2>4
<1> QED
  BY <1>11, <1>12, <1>13

\* Removing the first element leaves the others in their order.
LEMMA RemoveFirstHolds ==
    ASSUME NEW n \in Nat \ {0}, NEW s \in [1..n -> Elem], NEW l \in ListType,
           \A i, j \in 1..n : s[i] = s[j] => i = j,
           Holds(l, s)
    PROVE  LET r == [i \in 1..(n - 1) |-> s[i + 1]]
           IN  Holds(list_remove(l, s[1]), r)
<1> DEFINE r == [i \in 1..(n - 1) |-> s[i + 1]]
           m == list_remove(l, s[1])
<1>1. Len(s) = n
  BY OrderLen
<1>2. r \in [1..(n - 1) -> Elem] /\ Len(r) = n - 1
  <2>1. r \in [1..(n - 1) -> Elem] /\ n - 1 \in Nat
    OBVIOUS
  <2> QED
    BY <2>1, OrderLen
<1>3. \A k \in 1..n : At(r, k) = At(s, k + 1)
  BY <1>1, <1>2 DEF At
<1>4. At(r, 0) = HEAD /\ At(s, 0) = HEAD /\ At(s, 1) = s[1]
  BY <1>1, <1>2 DEF At
<1>5. \A k \in 1..(n + 1) : At(s, k) \in Node /\ At(s, k) # HEAD
  BY <1>1, SentinelAssumption DEF At, Node
<1>6. \A k \in 0..(n + 1) : At(s, k) = At(s, 2) => k = 2
  BY AtInjective
<1>7. /\ l.next[HEAD] = s[1] /\ l.prev[s[1]] = HEAD
      /\ l.next[s[1]] = At(s, 2) /\ l.prev[At(s, 2)] = s[1]
  <2>1. 0 \in 0..Len(s) /\ 1 \in 0..Len(s)
    BY <1>1
  <2> QED
    BY <1>4, <2>1 DEF Holds
<1>8. /\ m.next = [l.next EXCEPT ![HEAD] = At(s, 2)]
      /\ m.prev = [l.prev EXCEPT ![At(s, 2)] = HEAD]
  BY <1>7 DEF list_remove
<1>9. /\ l.next \in [Node -> Node \cup {NULL}]
      /\ l.prev \in [Node -> Node \cup {NULL}]
      /\ HEAD \in Node /\ At(s, 2) \in Node
  BY <1>5 DEF ListType, Node
<1>9a. \A x \in Node :
        /\ m.next[x] = IF x = HEAD THEN At(s, 2) ELSE l.next[x]
        /\ m.prev[x] = IF x = At(s, 2) THEN HEAD ELSE l.prev[x]
  BY <1>8, <1>9
<1>10. SUFFICES ASSUME NEW k \in 0..(n - 1)
                PROVE  m.next[At(r, k)] = At(r, k + 1) /\ m.prev[At(r, k + 1)] = At(r, k)
  BY <1>2 DEF Holds
<1>11. CASE k = 0
  <2>1. At(r, k) = HEAD /\ At(r, k + 1) = At(s, 2)
    BY <1>3, <1>4, <1>11
  <2> QED
    BY <1>9, <1>9a, <2>1
<1>12. CASE k > 0
  <2>1. At(r, k) = At(s, k + 1) /\ At(r, k + 1) = At(s, k + 2)
    BY <1>3, <1>12
  <2>2. l.next[At(s, k + 1)] = At(s, k + 2) /\ l.prev[At(s, k + 2)] = At(s, k + 1)
    <3>1. k + 1 \in 0..Len(s) /\ (k + 1) + 1 = k + 2
      BY <1>1
    <3> QED
      BY <3>1 DEF Holds
  <2>3. At(s, k + 1) # HEAD /\ At(s, k + 2) # At(s, 2) /\ At(s, k + 1) \in Node /\ At(s, k + 2) \in Node
    BY <1>5, <1>6, <1>12
  <2> QED
    BY <1>9, <1>9a, <2>1, <2>2, <2>3
<1> QED
  BY <1>11, <1>12

-----------------------------------------------------------------------------
(* The same, for the set of elements a list queues.                        *)

\* The operations keep every link inside the list's nodes.
LEMMA ListOpType ==
    ASSUME NEW l \in ListType, NEW e \in Elem,
           l.next[HEAD] \in Node, l.prev[TAIL] \in Node
    PROVE  /\ list_append(l, e) \in ListType
           /\ list_push(l, e) \in ListType
<1>1. /\ l.next \in [Node -> Node \cup {NULL}]
      /\ l.prev \in [Node -> Node \cup {NULL}]
      /\ e \in Node /\ HEAD \in Node /\ TAIL \in Node
  BY DEF ListType, Node
<1>2. list_append(l, e) \in ListType
  BY <1>1 DEF ListType, list_append, list_insert
<1>3. list_push(l, e) \in ListType
  BY <1>1 DEF ListType, list_push, list_insert
<1> QED
  BY <1>2, <1>3

\* A queue has well-defined ends, and its sentinels meet only when it is empty.
LEMMA QueueEnds ==
    ASSUME NEW l \in ListType, NEW S \in SUBSET Elem, IsFiniteSet(S), Queues(l, S)
    PROVE  /\ l.next[HEAD] \in S \cup {TAIL}
           /\ l.prev[TAIL] \in S \cup {HEAD}
           /\ list_empty(l) <=> S = {}
<1> DEFINE n == Cardinality(S)
<1>1. n \in Nat /\ (n = 0 <=> S = {})
  BY FS_CardinalityType, FS_EmptySet
<1>2. PICK s \in [1..n -> S] : Holds(l, s)
  BY DEF Queues, Orders
<1>3. Len(s) = n
  BY <1>1, OrderLen
<1>4. l.next[HEAD] = At(s, 1) /\ l.prev[TAIL] = At(s, n)
  <2>1. 0 \in 0..Len(s) /\ n \in 0..Len(s)
    BY <1>1, <1>3
  <2>2. At(s, 0) = HEAD /\ At(s, n + 1) = TAIL
    BY <1>1, <1>3 DEF At
  <2> QED
    BY <1>2, <2>1, <2>2 DEF Holds
<1>5. At(s, 1) = IF n = 0 THEN TAIL ELSE s[1]
  BY <1>1, <1>3 DEF At
<1>6. At(s, n) = IF n = 0 THEN HEAD ELSE s[n]
  BY <1>1, <1>3 DEF At
<1>7. n # 0 => s[1] \in S /\ s[n] \in S
  BY <1>1, <1>2
<1> QED
  BY <1>1, <1>4, <1>5, <1>6, <1>7, SentinelAssumption DEF list_empty

\* Appending a new element to a queue of S gives a queue of S and that element.
LEMMA AppendQueues ==
    ASSUME NEW l \in ListType, NEW S \in SUBSET Elem, IsFiniteSet(S), Queues(l, S),
           NEW e \in Elem \ S
    PROVE  list_append(l, e) \in ListType /\ Queues(list_append(l, e), S \cup {e})
<1> DEFINE n == Cardinality(S)
<1>1. n \in Nat /\ Cardinality(S \cup {e}) = n + 1
  BY FS_CardinalityType, FS_AddElement
<1>2. PICK s \in Orders(S) : Holds(l, s)
  BY DEF Queues
<1>3. s \in [1..n -> S] /\ \A i, j \in 1..n : s[i] = s[j] => i = j
  BY <1>2 DEF Orders
<1> DEFINE r == [i \in 1..(n + 1) |-> IF i = n + 1 THEN e ELSE s[i]]
<1>4. Holds(list_append(l, e), r)
  <2>1. s \in [1..n -> Elem] /\ \A i \in 1..n : s[i] # e
    BY <1>3
  <2> QED
    BY <1>1, <1>2, <1>3, <2>1, AppendHolds
<1>5. r \in Orders(S \cup {e})
  <2>1. r \in [1..(n + 1) -> S \cup {e}]
    BY <1>1, <1>3
  <2>2. ASSUME NEW i \in 1..(n + 1), NEW j \in 1..(n + 1), r[i] = r[j]
        PROVE  i = j
    <3>1. \A k \in 1..n : s[k] # e
      BY <1>3
    <3> QED
      BY <1>1, <1>3, <2>2, <3>1
  <2> QED
    BY <1>1, <2>1, <2>2 DEF Orders
<1>6. list_append(l, e) \in ListType
  BY QueueEnds, ListOpType DEF Node
<1> QED
  BY <1>4, <1>5, <1>6 DEF Queues

\* So does pushing it.
LEMMA PushQueues ==
    ASSUME NEW l \in ListType, NEW S \in SUBSET Elem, IsFiniteSet(S), Queues(l, S),
           NEW e \in Elem \ S
    PROVE  list_push(l, e) \in ListType /\ Queues(list_push(l, e), S \cup {e})
<1> DEFINE n == Cardinality(S)
<1>1. n \in Nat /\ Cardinality(S \cup {e}) = n + 1
  BY FS_CardinalityType, FS_AddElement
<1>2. PICK s \in Orders(S) : Holds(l, s)
  BY DEF Queues
<1>3. s \in [1..n -> S] /\ \A i, j \in 1..n : s[i] = s[j] => i = j
  BY <1>2 DEF Orders
<1> DEFINE r == [i \in 1..(n + 1) |-> IF i = 1 THEN e ELSE s[i - 1]]
<1>4. Holds(list_push(l, e), r)
  <2>1. s \in [1..n -> Elem] /\ \A i \in 1..n : s[i] # e
    BY <1>3
  <2> HIDE DEF n
  <2> QED
    BY <1>1, <1>2, <1>3, <2>1, PushHolds
<1>5. r \in Orders(S \cup {e})
  <2>1. r \in [1..(n + 1) -> S \cup {e}]
    <3>1. ASSUME NEW i \in 1..(n + 1) PROVE r[i] \in S \cup {e}
      <4>1. i = 1 \/ i - 1 \in 1..n
        BY <1>1
      <4> QED BY <1>3, <4>1
    <3> QED BY <3>1
  <2>2. ASSUME NEW i \in 1..(n + 1), NEW j \in 1..(n + 1), r[i] = r[j]
        PROVE  i = j
    <3>1. i = 1 \/ i - 1 \in 1..n
      BY <1>1
    <3>2. j = 1 \/ j - 1 \in 1..n
      BY <1>1
    <3>3. \A k \in 1..n : s[k] # e
      BY <1>3
    <3> QED
      BY <1>1, <1>3, <2>2, <3>1, <3>2, <3>3
  <2> QED
    BY <1>1, <2>1, <2>2 DEF Orders
<1>6. list_push(l, e) \in ListType
  BY QueueEnds, ListOpType DEF Node
<1> QED
  BY <1>4, <1>5, <1>6 DEF Queues

\* Popping a queue of a set that is not empty returns one of its members and
\* leaves a queue of the others.
LEMMA PopQueues ==
    ASSUME NEW l \in ListType, NEW S \in SUBSET Elem, IsFiniteSet(S), Queues(l, S), S # {}
    PROVE  /\ PopElem(l) \in S
           /\ PopRest(l) \in ListType
           /\ Queues(PopRest(l), S \ {PopElem(l)})
<1> DEFINE n == Cardinality(S)
           e == PopElem(l)
<1>1. n \in Nat \ {0}
  BY FS_CardinalityType, FS_EmptySet
<1>2. PICK s \in Orders(S) : Holds(l, s)
  BY DEF Queues
<1>3. s \in [1..n -> S] /\ \A i, j \in 1..n : s[i] = s[j] => i = j
  BY <1>2 DEF Orders
<1>4. Len(s) = n
  BY <1>1, <1>3, OrderLen
<1>5. ~list_empty(l)
  BY QueueEnds
<1>6. e = s[1] /\ PopRest(l) = list_remove(l, s[1])
  <2>1. l.next[At(s, 0)] = At(s, 1)
    BY <1>1, <1>2, <1>4 DEF Holds
  <2>2. At(s, 0) = HEAD /\ At(s, 1) = s[1]
    BY <1>1, <1>4 DEF At
  <2> QED
    BY <1>5, <2>1, <2>2 DEF PopElem, PopRest
<1>7. s[1] \in S
  BY <1>1, <1>3
<1> DEFINE r == [i \in 1..(n - 1) |-> s[i + 1]]
<1>8. Holds(PopRest(l), r)
  <2>1. s \in [1..n -> Elem]
    BY <1>3
  <2> QED
    BY <1>1, <1>2, <1>3, <1>6, <2>1, RemoveFirstHolds
<1>9. Cardinality(S \ {e}) = n - 1
  <2>1. e \in S
    BY <1>6, <1>7
  <2> HIDE DEF e
  <2> QED
    BY <2>1, FS_RemoveElement
<1>10. r \in Orders(S \ {e})
  <2>1. \A i \in 1..(n - 1) : s[i + 1] \in S \ {e}
    BY <1>1, <1>3, <1>6
  <2>2. \A i, j \in 1..(n - 1) : r[i] = r[j] => i = j
    BY <1>1, <1>3
  <2> QED
    BY <1>9, <2>1, <2>2 DEF Orders
<1>11. PopRest(l) \in ListType
  <2>1. 1 \in 0..Len(s) /\ 0 \in 0..Len(s)
    BY <1>1, <1>4
  <2>2. l.next[s[1]] = At(s, 2) /\ l.prev[s[1]] = HEAD
    BY <1>1, <1>2, <1>4, <2>1 DEF Holds, At
  <2>3. At(s, 2) \in Node /\ s[1] \in Node
    BY <1>1, <1>3, <1>4 DEF At, Node
  <2> QED
    BY <1>6, <2>2, <2>3 DEF ListType, list_remove, Node
<1> QED
  BY <1>6, <1>7, <1>8, <1>10, <1>11 DEF Queues

-----------------------------------------------------------------------------
(* The walk through a list.                                                *)

\* The least-number principle, for the recursion of a walk.
LEMMA NatOrder == \E R : IsWellFoundedOn(R, Nat) /\ \A x, y \in Nat : x < y => <<x, y>> \in R
<1>1. \A x, y \in Nat : x < y => <<x, y>> \in OpToRel(<, Nat)
  BY DEF OpToRel
<1> QED BY <1>1, NatLessThanWellFounded

LEMMA NatLeast ==
    ASSUME NEW S, S \subseteq Nat, S # {}
    PROVE  \E m \in S : \A n \in S : m <= n
<1>1. PICK R : IsWellFoundedOn(R, Nat) /\ \A x, y \in Nat : x < y => <<x, y>> \in R
  BY NatOrder
<1>2. IsWellFoundedOn(R, Nat)
  BY <1>1
<1>3. \E x \in S : \A y \in S : <<y, x>> \notin R
  BY <1>2, WFMin
<1>4. \A x, y \in S : x \in Nat /\ y \in Nat /\ (x <= y \/ y < x)
  OBVIOUS
<1> QED BY <1>1, <1>3, <1>4

Walks(f, l) ==
    f = [i \in Nat |-> IF i = 0 THEN l.next[HEAD]
                       ELSE IF f[i - 1] \in Elem THEN l.next[f[i - 1]] ELSE f[i - 1]]

\* A walk of a list that holds s meets the elements of s in turn and stops at TAIL.
LEMMA WalkIs ==
    ASSUME NEW n \in Nat, NEW s \in [1..n -> Elem], NEW l, Holds(l, s)
    PROVE  \A i \in Nat : Walk(l)[i] = IF i <= n THEN At(s, i + 1) ELSE TAIL
<1> DEFINE g == [i \in Nat |-> IF i <= n THEN At(s, i + 1) ELSE TAIL]
<1>1. Len(s) = n
  BY OrderLen
<1>2. /\ \A k \in 1..n : At(s, k) = s[k] /\ s[k] \in Elem
      /\ At(s, 0) = HEAD /\ At(s, n + 1) = TAIL /\ TAIL \notin Elem
  BY <1>1, SentinelAssumption DEF At
<1>3. \A k \in 0..n : l.next[At(s, k)] = At(s, k + 1)
  BY <1>1 DEF Holds
<1>4. ASSUME NEW i \in Nat
      PROVE  g[i] = IF i = 0 THEN l.next[HEAD]
                    ELSE IF g[i - 1] \in Elem THEN l.next[g[i - 1]] ELSE g[i - 1]
  <2>1. CASE i = 0
    BY <1>2, <1>3, <2>1
  <2>2. CASE i # 0 /\ i <= n
    <3>1. i - 1 \in Nat /\ i - 1 <= n /\ (i - 1) + 1 = i /\ i \in 1..n
      BY <2>2
    <3>2. g[i - 1] = At(s, i) /\ g[i] = At(s, i + 1)
      BY <2>2, <3>1
    <3> QED BY <1>2, <1>3, <2>2, <3>1, <3>2
  <2>3. CASE i # 0 /\ i = n + 1
    <3>1. i - 1 \in Nat /\ i - 1 = n
      BY <2>3
    <3>2. g[i - 1] = TAIL /\ g[i] = TAIL
      BY <1>2, <2>3, <3>1
    <3> QED BY <1>2, <2>3, <3>2
  <2>4. CASE i # 0 /\ i > n + 1
    <3>1. i - 1 \in Nat /\ i - 1 > n
      BY <2>4
    <3>2. g[i - 1] = TAIL /\ g[i] = TAIL
      BY <2>4, <3>1
    <3> QED BY <1>2, <2>4, <3>2
  <2> QED BY <2>1, <2>2, <2>3, <2>4
<1>5. Walks(g, l)
  <2>1. g = [i \in Nat |-> g[i]]
    OBVIOUS
  <2> HIDE DEF g
  <2> QED BY <1>4, <2>1 DEF Walks
<1> DEFINE w == CHOOSE f : Walks(f, l)
<1>6. Walk(l) = w
  BY DEF Walk, Walks
<1>7. Walks(w, l)
  BY <1>5
<1> HIDE DEF w
<1>8. \A i \in Nat : w[i] = IF i = 0 THEN l.next[HEAD]
                            ELSE IF w[i - 1] \in Elem THEN l.next[w[i - 1]] ELSE w[i - 1]
  BY <1>7 DEF Walks
<1> DEFINE D == {i \in Nat : w[i] # g[i]}
<1>9. ASSUME D # {} PROVE FALSE
  <2>1. PICK d \in D : \A m \in D : d <= m
    <3>1. D \subseteq Nat
      OBVIOUS
    <3> HIDE DEF D
    <3> QED BY <1>9, <3>1, NatLeast
  <2>2. d \in Nat /\ w[d] # g[d]
    OBVIOUS
  <2>3. CASE d = 0
    <3> HIDE DEF g
    <3> QED BY <1>4, <1>8, <2>2, <2>3
  <2>4. CASE d # 0
    <3>1. d - 1 \in Nat /\ d - 1 \notin D
      BY <2>1, <2>4
    <3>2. w[d - 1] = g[d - 1]
      BY <3>1
    <3> HIDE DEF g
    <3> QED BY <1>4, <1>8, <2>2, <2>4, <3>2
  <2> QED BY <2>3, <2>4
<1>10. \A i \in Nat : w[i] = g[i]
  BY <1>9
<1> QED BY <1>6, <1>10

\* So what a walk meets is what the list holds.
LEMMA ItemsIs ==
    ASSUME NEW n \in Nat, NEW s \in [1..n -> Elem], NEW l, Holds(l, s),
           n <= Cardinality(Elem), Cardinality(Elem) \in Nat
    PROVE  Items(l) = s
<1>1. Len(s) = n /\ s \in Seq(Elem)
  BY OrderLen
<1> DEFINE w == Walk(l)
           Good(m) == /\ \A i \in 0..(m - 1) : w[i] \in Elem
                      /\ m < Cardinality(Elem) => w[m] \notin Elem
           len == CHOOSE m \in 0..Cardinality(Elem) : Good(m)
<1>2. /\ \A i \in 0..(n - 1) : w[i] = s[i + 1] /\ w[i] \in Elem
      /\ w[n] = TAIL /\ w[n] \notin Elem
  <2>1. \A i \in Nat : w[i] = IF i <= n THEN At(s, i + 1) ELSE TAIL
    BY WalkIs
  <2>2. /\ \A k \in 1..n : At(s, k) = s[k] /\ s[k] \in Elem
        /\ At(s, n + 1) = TAIL /\ TAIL \notin Elem
    BY <1>1, SentinelAssumption DEF At
  <2> HIDE DEF w
  <2>3. ASSUME NEW i \in 0..(n - 1) PROVE w[i] = s[i + 1] /\ w[i] \in Elem
    <3>1. i \in Nat /\ i <= n /\ i + 1 \in 1..n
      OBVIOUS
    <3> QED BY <2>1, <2>2, <3>1
  <2>4. n <= n
    OBVIOUS
  <2> QED BY <2>1, <2>2, <2>3, <2>4
<1>3. Items(l) = [i \in 1..len |-> w[i - 1]]
  BY DEF Items
<1> HIDE DEF w
<1>4. n \in 0..Cardinality(Elem) /\ Good(n)
  BY <1>2
<1>5. len \in 0..Cardinality(Elem) /\ Good(len)
  <2> HIDE DEF Good
  <2> QED BY <1>4
<1> HIDE DEF len
<1>6. len = n
  <2>1. len \in Nat /\ len <= Cardinality(Elem)
    BY <1>5
  <2>2. ASSUME len < n PROVE FALSE
    <3>1. len \in 0..(n - 1) /\ len < Cardinality(Elem)
      BY <2>1, <2>2
    <3> QED BY <1>2, <1>5, <3>1
  <2>3. ASSUME n < len PROVE FALSE
    <3>1. n \in 0..(len - 1)
      BY <2>1, <2>3
    <3> QED BY <1>2, <1>5, <3>1
  <2> QED BY <2>1, <2>2, <2>3
<1>7. \A i \in 1..n : w[i - 1] = s[i]
  <2>1. \A i \in 1..n : i - 1 \in 0..(n - 1) /\ (i - 1) + 1 = i
    OBVIOUS
  <2> QED BY <1>2, <2>1
<1>8. Items(l) = [i \in 1..n |-> s[i]]
  BY <1>3, <1>6, <1>7
<1> QED BY <1>8

-----------------------------------------------------------------------------
(* What the walk meets after each operation.                               *)

\* A walk of a queue of S meets the members of S, each once.
LEMMA QueueItems ==
    ASSUME NEW l, NEW S \in SUBSET Elem, Queues(l, S)
    PROVE  /\ IsFiniteSet(S) /\ Cardinality(S) \in Nat
           /\ Holds(l, Items(l))
           /\ Items(l) \in [1..Cardinality(S) -> S]
           /\ \A i, j \in 1..Cardinality(S) : Items(l)[i] = Items(l)[j] => i = j
           /\ Items(l) \in Seq(S) /\ Items(l) \in Seq(Elem)
           /\ Len(Items(l)) = Cardinality(S)
           /\ Items(l) = <<>> <=> S = {}
<1> DEFINE n == Cardinality(S)
<1>1. IsFiniteSet(Elem) /\ Cardinality(Elem) \in Nat
  BY ThreadsAssumption, FS_CardinalityType DEF Threads
<1>2. IsFiniteSet(S) /\ n \in Nat /\ n <= Cardinality(Elem) /\ (n = 0 <=> S = {})
  BY <1>1, FS_Subset, FS_CardinalityType, FS_EmptySet
<1>3. PICK s \in Orders(S) : Holds(l, s)
  BY DEF Queues
<1>4. s \in [1..n -> S] /\ \A i, j \in 1..n : s[i] = s[j] => i = j
  BY <1>3 DEF Orders
<1> HIDE DEF n
<1>5. s \in [1..n -> Elem]
  BY <1>4
<1>6. Items(l) = s
  BY <1>1, <1>2, <1>3, <1>5, ItemsIs
<1>7. s \in Seq(S) /\ Len(s) = n /\ s \in Seq(Elem)
  BY <1>2, <1>4, <1>5, OrderLen
<1>8. s = <<>> <=> n = 0
  BY <1>2, <1>7, EmptySeq
<1> QED
  BY <1>2, <1>3, <1>4, <1>6, <1>7, <1>8 DEF n

\* Appended, an element is met last.
LEMMA AppendItems ==
    ASSUME NEW l \in ListType, NEW S \in SUBSET Elem, Queues(l, S), NEW e \in Elem \ S
    PROVE  Items(list_append(l, e)) = Append(Items(l), e)
<1> DEFINE n == Cardinality(S)
           s == Items(l)
           r == [i \in 1..(n + 1) |-> IF i = n + 1 THEN e ELSE s[i]]
           a == Append(s, e)
<1>1. /\ IsFiniteSet(S) /\ n \in Nat /\ Holds(l, s) /\ s \in [1..n -> S]
      /\ \A i, j \in 1..n : s[i] = s[j] => i = j
      /\ s \in Seq(Elem) /\ Len(s) = n
  BY QueueItems
<1>2. n + 1 <= Cardinality(Elem) /\ Cardinality(Elem) \in Nat
  <2>1. Cardinality(S \cup {e}) = n + 1
    BY <1>1, FS_AddElement
  <2>2. S \cup {e} \in SUBSET Elem
    OBVIOUS
  <2> QED
    BY <2>1, <2>2, ThreadsAssumption, FS_Subset, FS_CardinalityType DEF Threads
<1> HIDE DEF n, s
<1>3. s \in [1..n -> Elem] /\ \A i \in 1..n : s[i] # e
  BY <1>1
<1>4. Holds(list_append(l, e), r)
  BY <1>1, <1>3, AppendHolds
<1>5. r \in [1..(n + 1) -> Elem] /\ n + 1 \in Nat
  BY <1>1, <1>3
<1>6. r \in Seq(Elem) /\ Len(r) = n + 1
  BY <1>5, OrderLen
<1>7. Items(list_append(l, e)) = r
  <2> HIDE DEF r
  <2> QED BY <1>2, <1>4, <1>5, ItemsIs
<1>8. /\ a \in Seq(Elem) /\ Len(a) = n + 1 /\ a[n + 1] = e
      /\ \A i \in 1..n : a[i] = s[i]
  BY <1>1, AppendProperties
<1>9. \A i \in 1..(n + 1) : r[i] = a[i]
  BY <1>1, <1>8
<1>10. r = a
  <2> HIDE DEF r, a
  <2> QED BY <1>6, <1>8, <1>9, SeqEqual
<1> QED
  BY <1>7, <1>10 DEF s

\* Pushed, it is met first.
LEMMA PushItems ==
    ASSUME NEW l \in ListType, NEW S \in SUBSET Elem, Queues(l, S), NEW e \in Elem \ S
    PROVE  Items(list_push(l, e)) = <<e>> \o Items(l)
<1> DEFINE n == Cardinality(S)
           s == Items(l)
           r == [i \in 1..(n + 1) |-> IF i = 1 THEN e ELSE s[i - 1]]
           a == <<e>> \o s
<1>1. /\ IsFiniteSet(S) /\ n \in Nat /\ Holds(l, s) /\ s \in [1..n -> S]
      /\ \A i, j \in 1..n : s[i] = s[j] => i = j
      /\ s \in Seq(Elem) /\ Len(s) = n
  BY QueueItems
<1>2. n + 1 <= Cardinality(Elem) /\ Cardinality(Elem) \in Nat
  <2>1. Cardinality(S \cup {e}) = n + 1
    BY <1>1, FS_AddElement
  <2>2. S \cup {e} \in SUBSET Elem
    OBVIOUS
  <2> QED
    BY <2>1, <2>2, ThreadsAssumption, FS_Subset, FS_CardinalityType DEF Threads
<1> HIDE DEF n, s
<1>3. s \in [1..n -> Elem] /\ \A i \in 1..n : s[i] # e
  BY <1>1
<1>4. Holds(list_push(l, e), r)
  BY <1>1, <1>3, PushHolds
<1>5. r \in [1..(n + 1) -> Elem] /\ n + 1 \in Nat
  <2>1. ASSUME NEW i \in 1..(n + 1) PROVE r[i] \in Elem
    <3>1. i = 1 \/ i - 1 \in 1..n
      BY <1>1
    <3> QED BY <1>3, <3>1
  <2> QED BY <1>1, <2>1
<1>6. r \in Seq(Elem) /\ Len(r) = n + 1
  BY <1>5, OrderLen
<1>7. Items(list_push(l, e)) = r
  <2> HIDE DEF r
  <2> QED BY <1>2, <1>4, <1>5, ItemsIs
<1>8. /\ a \in Seq(Elem) /\ Len(a) = n + 1
      /\ \A i \in 1..(n + 1) : a[i] = IF i = 1 THEN e ELSE s[i - 1]
  <2>1. <<e>> \in Seq(Elem) /\ Len(<<e>>) = 1 /\ <<e>>[1] = e
    OBVIOUS
  <2>2. /\ a \in Seq(Elem) /\ Len(a) = 1 + n
        /\ \A i \in 1..(1 + n) : a[i] = IF i <= 1 THEN <<e>>[i] ELSE s[i - 1]
    BY <1>1, <2>1, ConcatProperties
  <2> HIDE DEF a
  <2> QED BY <1>1, <2>1, <2>2
<1>9. \A i \in 1..(n + 1) : r[i] = a[i]
  BY <1>8
<1>10. r = a
  <2> HIDE DEF r, a
  <2> QED BY <1>6, <1>8, <1>9, SeqEqual
<1> QED
  BY <1>7, <1>10 DEF s

\* The element popped is the first, and the others are met in their order.
LEMMA PopItems ==
    ASSUME NEW l \in ListType, NEW S \in SUBSET Elem, Queues(l, S), S # {}
    PROVE  PopElem(l) = Head(Items(l)) /\ Items(PopRest(l)) = Tail(Items(l))
<1> DEFINE n == Cardinality(S)
           s == Items(l)
           r == [i \in 1..(n - 1) |-> s[i + 1]]
           a == Tail(s)
<1>1. /\ IsFiniteSet(S) /\ n \in Nat /\ Holds(l, s) /\ s \in [1..n -> S]
      /\ \A i, j \in 1..n : s[i] = s[j] => i = j
      /\ s \in Seq(Elem) /\ Len(s) = n /\ s # <<>>
  BY QueueItems
<1>2. n <= Cardinality(Elem) /\ Cardinality(Elem) \in Nat /\ n # 0
  BY <1>1, ThreadsAssumption, FS_Subset, FS_CardinalityType, FS_EmptySet DEF Threads
<1>3. ~list_empty(l)
  BY <1>1, QueueEnds
<1> HIDE DEF n, s
<1>4. s \in [1..n -> Elem] /\ n \in Nat \ {0}
  BY <1>1, <1>2
<1>5. l.next[HEAD] = s[1] /\ PopElem(l) = s[1] /\ PopRest(l) = list_remove(l, s[1])
  <2>1. l.next[At(s, 0)] = At(s, 1)
    BY <1>1, <1>4 DEF Holds
  <2>2. At(s, 0) = HEAD /\ At(s, 1) = s[1]
    BY <1>1, <1>4 DEF At
  <2> QED
    BY <1>3, <2>1, <2>2 DEF PopElem, PopRest
<1>6. Holds(PopRest(l), r)
  BY <1>1, <1>4, <1>5, RemoveFirstHolds
<1>7. r \in [1..(n - 1) -> Elem] /\ n - 1 \in Nat
  BY <1>4
<1>8. r \in Seq(Elem) /\ Len(r) = n - 1
  BY <1>7, OrderLen
<1>9. Items(PopRest(l)) = r
  <2> HIDE DEF r
  <2>1. n - 1 <= Cardinality(Elem)
    <3>1. PICK c \in Nat : Cardinality(Elem) = c
      BY <1>2
    <3>2. n \in Nat /\ n <= c
      BY <1>2, <1>4, <3>1
    <3>3. n - 1 <= c
      BY <3>2
    <3> QED BY <3>1, <3>3
  <2> QED BY <1>2, <1>6, <1>7, <2>1, ItemsIs
<1>10. /\ a \in Seq(Elem) /\ Len(a) = n - 1 /\ \A i \in 1..(n - 1) : a[i] = s[i + 1]
       /\ Head(s) = s[1]
  <2>1. Len(a) = Len(s) - 1
    BY <1>1, HeadTailProperties
  <2> QED BY <1>1, <2>1, HeadTailProperties
<1>11. r = a
  <2>1. \A i \in 1..(n - 1) : r[i] = a[i]
    BY <1>10
  <2> HIDE DEF r, a
  <2> QED BY <1>8, <1>10, <2>1, SeqEqual
<1> QED
  BY <1>5, <1>9, <1>10, <1>11 DEF s

-----------------------------------------------------------------------------
(* The scheduler.                                                          *)

\* What schedule() needs of the values its caller leaves.
SchedulePre(s) ==
    /\ s \in [ready : ListType, status : [Threads -> Status], slice : [Threads -> 0..Slice]]
    /\ Queues(s.ready, {t \in all : s.status[t] = "READY"})
    /\ s.status[cur] \in BlockStates \cup {"RUNNING", "READY"}
    /\ \A t \in all \ {cur} : s.status[t] \in BlockStates \cup {"READY"}

\* The status words are pairwise different.
LEMMA StatusDistinct ==
    /\ "READY" \notin BlockStates /\ "RUNNING" \notin BlockStates
    /\ "none" \notin BlockStates /\ "DIED" \notin BlockStates
    /\ BlockStates \subseteq Status
    /\ {"READY", "RUNNING", "none", "DIED"} \subseteq Status
BY DEF BlockStates, Status

\* Subsets of the registered threads are finite sets of list elements.
LEMMA RegisteredFinite ==
    ASSUME NEW S \in SUBSET Threads
    PROVE  S \in SUBSET Elem /\ IsFiniteSet(S)
BY ThreadsAssumption, FS_Subset DEF Threads

\* Waking a registered thread that sleeps adds it to the queue (thread.c:217-220).
LEMMA UnblockStage ==
    ASSUME all \in SUBSET Threads, NEW s, SchedulePre(s), NEW t \in all
    PROVE  /\ SchedulePre(Unblock(s, t))
           /\ s.status[t] \in BlockStates => Unblock(s, t).status[t] = "READY"
<1>1. CASE s.status[t] \notin BlockStates
  BY <1>1 DEF Unblock
<1>2. CASE s.status[t] \in BlockStates
  <2> DEFINE u == Unblock(s, t)
             S == {x \in all : s.status[x] = "READY"}
  <2>1. u = [ready |-> list_push(s.ready, t),
             status |-> [s.status EXCEPT ![t] = "READY"],
             slice |-> s.slice]
    BY <1>2 DEF Unblock, SchedulePre
  <2>2. t \in Elem \ S /\ S \in SUBSET Elem /\ IsFiniteSet(S)
    BY <1>2, StatusDistinct, RegisteredFinite DEF Threads
  <2>3. s.ready \in ListType /\ Queues(s.ready, S)
    BY DEF SchedulePre
  <2>4. list_push(s.ready, t) \in ListType /\ Queues(list_push(s.ready, t), S \cup {t})
    BY <2>2, <2>3, PushQueues
  <2>5. u \in [ready : ListType, status : [Threads -> Status], slice : [Threads -> 0..Slice]]
    BY <2>1, <2>4, StatusDistinct DEF SchedulePre
  <2>6. {x \in all : u.status[x] = "READY"} = S \cup {t}
    BY <2>1 DEF SchedulePre
  <2>7. /\ u.ready = list_push(s.ready, t)
        /\ u.status = [s.status EXCEPT ![t] = "READY"]
    BY <2>1
  <2> HIDE DEF u
  <2>8. SchedulePre(u) /\ u.status[t] = "READY"
    BY <2>4, <2>5, <2>6, <2>7, StatusDistinct DEF SchedulePre
  <2> QED
    BY <2>8 DEF u
<1> QED
  BY <1>1, <1>2

\* A thread that is still RUNNING joins the queue (sched.c:47-52).
LEMMA RequeueStage ==
    ASSUME all \in SUBSET Threads, cur \in all, NEW s, SchedulePre(s)
    PROVE  /\ SchedulePre(Requeue(s))
           /\ Requeue(s).status[cur] \in BlockStates \cup {"READY"}
<1>1. CASE s.status[cur] # "RUNNING"
  BY <1>1 DEF Requeue, SchedulePre
<1>2. CASE s.status[cur] = "RUNNING"
  <2> DEFINE u == Requeue(s)
             S == {x \in all : s.status[x] = "READY"}
  <2>1. u = [ready |-> list_append(s.ready, cur),
             status |-> [s.status EXCEPT ![cur] = "READY"],
             slice |-> [s.slice EXCEPT ![cur] = Slice]]
    BY <1>2 DEF Requeue
  <2>2. cur \in Elem \ S /\ S \in SUBSET Elem /\ IsFiniteSet(S)
    BY <1>2, RegisteredFinite DEF Threads
  <2>3. s.ready \in ListType /\ Queues(s.ready, S)
    BY DEF SchedulePre
  <2>4. list_append(s.ready, cur) \in ListType /\ Queues(list_append(s.ready, cur), S \cup {cur})
    BY <2>2, <2>3, AppendQueues
  <2>5. u \in [ready : ListType, status : [Threads -> Status], slice : [Threads -> 0..Slice]]
    BY <2>1, <2>4, StatusDistinct, SliceAssumption DEF SchedulePre
  <2>6. {x \in all : u.status[x] = "READY"} = S \cup {cur}
    BY <2>1 DEF SchedulePre
  <2> QED
    BY <2>1, <2>4, <2>5, <2>6, StatusDistinct DEF SchedulePre
<1> QED
  BY <1>1, <1>2

\* After the fallback the queue is not empty: the idle thread is ready, or it
\* sleeps and is woken (sched.c:55-58).
LEMMA FallBackStage ==
    ASSUME all \in SUBSET Threads, cur \in all, Idle \in all, NEW s, SchedulePre(s),
           s.status[cur] \in BlockStates \cup {"READY"}
    PROVE  /\ SchedulePre(FallBack(s))
           /\ FallBack(s).status[cur] \in BlockStates \cup {"READY"}
           /\ {t \in all : FallBack(s).status[t] = "READY"} # {}
<1> DEFINE S == {x \in all : s.status[x] = "READY"}
<1>1. list_empty(s.ready) <=> S = {}
  <2>1. S \in SUBSET Elem /\ IsFiniteSet(S) /\ s.ready \in ListType /\ Queues(s.ready, S)
    BY RegisteredFinite DEF SchedulePre, Threads
  <2> QED
    BY <2>1, QueueEnds
<1>2. CASE S # {}
  BY <1>1, <1>2 DEF FallBack
<1>3. CASE S = {}
  <2>1. s.status[Idle] \in BlockStates
    BY <1>3 DEF SchedulePre
  <2>2. FallBack(s) = Unblock(s, Idle)
    BY <1>1, <1>3 DEF FallBack
  <2>3. SchedulePre(Unblock(s, Idle)) /\ Unblock(s, Idle).status[Idle] = "READY"
    BY <2>1, UnblockStage
  <2>4. Unblock(s, Idle).status[cur] \in BlockStates \cup {"READY"}
    BY <2>1 DEF Unblock, SchedulePre
  <2> QED
    BY <2>2, <2>3, <2>4
<1> QED
  BY <1>2, <1>3

\* schedule() keeps the queue and the statuses in agreement and leaves exactly
\* one running thread, whichever operation called it.
LEMMA ScheduleStage ==
    ASSUME all \in SUBSET Threads, cur \in all, Idle \in all, NEW s, SchedulePre(s),
           Schedule(s), all' = all
    PROVE  SchedInv' /\ status'[cur'] = "RUNNING"
<1> DEFINE u == FallBack(Requeue(s))
           S == {x \in all : u.status[x] = "READY"}
           next == PopElem(u.ready)
<1>1. SchedulePre(u) /\ u.status[cur] \in BlockStates \cup {"READY"} /\ S # {}
  BY RequeueStage, FallBackStage
<1>2. /\ ready' = PopRest(u.ready)
      /\ status' = [u.status EXCEPT ![next] = "RUNNING"]
      /\ time_slice' = u.slice
      /\ cur' = next
  BY DEF Schedule, Dispatch
<1> HIDE DEF u
<1>3. S \in SUBSET Elem /\ IsFiniteSet(S) /\ u.ready \in ListType /\ Queues(u.ready, S)
  BY <1>1, RegisteredFinite DEF SchedulePre, Threads
<1>4. /\ next \in S
      /\ PopRest(u.ready) \in ListType
      /\ Queues(PopRest(u.ready), S \ {next})
  BY <1>1, <1>3, PopQueues
<1>5. /\ u.status \in [Threads -> Status] /\ u.slice \in [Threads -> 0..Slice]
      /\ \A t \in all : u.status[t] \in BlockStates \cup {"READY"}
  BY <1>1 DEF SchedulePre
<1> HIDE DEF next
<1>6. TypeOK'
  BY <1>2, <1>4, <1>5, StatusDistinct DEF TypeOK, Threads
<1>7. ReadySet' = S \ {next}
  BY <1>2, <1>4, <1>5 DEF ReadySet
<1>8. ReadyListSound'
  BY <1>2, <1>4, <1>7 DEF ReadyListSound
<1>9. status'[cur'] = "RUNNING"
  BY <1>2, <1>4, <1>5
<1>10. OthersWait'
  BY <1>2, <1>4, <1>5, <1>9 DEF OthersWait, Booting
<1> QED
  BY <1>6, <1>8, <1>9, <1>10 DEF SchedInv

-----------------------------------------------------------------------------
\* list_init queues nobody.
LEMMA EmptyQueue == list_init \in ListType /\ Queues(list_init, {})
<1>1. list_init \in ListType
  BY SentinelAssumption DEF ListType, list_init, Node
<1>2. Cardinality({}) = 0
  BY FS_EmptySet
<1>3. <<>> \in Orders({})
  BY <1>2 DEF Orders
<1>4. Holds(list_init, <<>>)
  BY SentinelAssumption DEF Holds, At, list_init, Node
<1> QED
  BY <1>1, <1>3, <1>4 DEF Queues

\* kthread_init queues the idle thread first.
LEMMA IdleQueue == list_append(list_init, Idle) \in ListType /\ Queues(list_append(list_init, Idle), {Idle})
<1>1. IsFiniteSet({}) /\ {} \in SUBSET Elem /\ Idle \in Elem \ {} /\ {} \cup {Idle} = {Idle}
  BY ThreadsAssumption, FS_EmptySet DEF Threads
<1> QED
  BY <1>1, EmptyQueue, AppendQueues

\* The list main_thread_init leaves: the idle thread, then main.
LEMMA BootQueue ==
    /\ BootList \in ListType
    /\ Queues(BootList, {Idle, Main})
<1>2. Idle \in Elem /\ Main \in Elem /\ Main # Idle
  BY ThreadsAssumption DEF Threads
<1> DEFINE l == list_append(list_init, Idle)
<1>3. l \in ListType /\ Queues(l, {Idle})
  BY IdleQueue
<1> HIDE DEF l
<1>4. list_append(l, Main) \in ListType /\ Queues(list_append(l, Main), {Idle} \cup {Main})
  <2>1. IsFiniteSet({Idle}) /\ {Idle} \in SUBSET Elem /\ Main \in Elem \ {Idle}
    BY <1>2, RegisteredFinite, ThreadsAssumption
  <2> QED
    BY <1>3, <2>1, AppendQueues
<1>5. {Idle} \cup {Main} = {Idle, Main}
  OBVIOUS
<1> QED
  BY <1>4, <1>5 DEF BootList, l

\* The first yield of main appends the element that is already last; popping
\* the idle thread before it repairs its links (thread.c:233, list.c:19-25).
LEMMA BootYield ==
    LET l == list_append(BootList, Main)
    IN  /\ ~list_empty(l)
        /\ PopElem(l) = Idle
        /\ PopRest(l) \in ListType
        /\ Queues(PopRest(l), {Main})
<1> DEFINE l == list_append(BootList, Main)
           m == PopRest(l)
<1>1. /\ Idle \in Node /\ Main \in Node /\ HEAD \in Node /\ TAIL \in Node
      /\ Idle # Main /\ Idle # HEAD /\ Idle # TAIL /\ Main # HEAD /\ Main # TAIL /\ HEAD # TAIL
  BY ThreadsAssumption, SentinelAssumption DEF Threads, Node
<1>2. BootList \in ListType
  BY BootQueue
<1>3. /\ BootList.next[HEAD] = Idle /\ BootList.next[Idle] = Main
      /\ BootList.prev[Idle] = HEAD /\ BootList.prev[TAIL] = Main
  BY <1>1 DEF BootList, list_append, list_insert, list_init
<1>4. l \in ListType
  BY <1>1, <1>2, <1>3, ListOpType, ThreadsAssumption DEF Threads
<1>5. /\ l.next[HEAD] = Idle /\ l.next[Idle] = Main /\ l.next[Main] = TAIL
      /\ l.prev[Idle] = HEAD /\ l.prev[TAIL] = Main
  BY <1>1, <1>2, <1>3 DEF list_append, list_insert, ListType
<1> HIDE DEF l
<1>6. ~list_empty(l) /\ PopElem(l) = Idle /\ m = list_remove(l, Idle)
  BY <1>1, <1>5 DEF list_empty, PopElem, PopRest
<1>7. m \in ListType
  BY <1>1, <1>4, <1>5, <1>6 DEF list_remove, ListType
<1>8. m.next[HEAD] = Main /\ m.next[Main] = TAIL /\ m.prev[Main] = HEAD /\ m.prev[TAIL] = Main
  BY <1>1, <1>4, <1>5, <1>6 DEF list_remove, ListType
<1> HIDE DEF m
<1>9. Holds(m, <<Main>>)
  BY <1>8 DEF Holds, At
<1>10. <<Main>> \in Orders({Main})
  <2>1. Cardinality({Main}) = 1
    BY FS_EmptySet, FS_AddElement, FS_Singleton
  <2> QED
    BY <2>1 DEF Orders
<1>11. Queues(m, {Main})
  BY <1>9, <1>10 DEF Queues
<1> QED
  BY <1>6, <1>7, <1>11 DEF l, m

-----------------------------------------------------------------------------
\* kthread_init establishes the invariant.
LEMMA SchedInit == Init => SchedInv
<1> SUFFICES ASSUME Init PROVE SchedInv
  OBVIOUS
<1>1. Idle \in Threads /\ Main \in Threads /\ Idle # Main
  BY ThreadsAssumption
<1>2. ready = BootList
  BY DEF Init, BootList
<1>3. TypeOK
  BY <1>1, <1>2, BootQueue, StatusDistinct, SliceAssumption DEF Init, TypeOK
<1>4. ReadySet = {Idle, Main}
  BY <1>1 DEF Init, ReadySet
<1>5. ReadyListSound
  BY <1>2, <1>4, BootQueue DEF ReadyListSound
<1>6. OthersWait
  BY <1>1, <1>2 DEF Init, OthersWait, Booting
<1> QED
  BY <1>3, <1>5, <1>6 DEF SchedInv

\* The values schedule() starts from, when nothing has been changed yet.
LEMMA NowPre ==
    ASSUME SchedInv
    PROVE  /\ SchedulePre(Now)
           /\ all \in SUBSET Threads /\ cur \in all /\ Idle \in all
BY DEF SchedInv, TypeOK, ReadyListSound, ReadySet, OthersWait, SchedulePre, Now

\* Every operation keeps the invariant.
LEMMA SchedNext == SchedInv /\ [Next]_vars => SchedInv'
<1> SUFFICES ASSUME SchedInv, [Next]_vars PROVE SchedInv'
  OBVIOUS
<1> USE StatusDistinct
<1>1. /\ TypeOK /\ ReadyListSound /\ OthersWait
      /\ all \in SUBSET Threads /\ cur \in all /\ Idle \in all
      /\ SchedulePre(Now)
  BY NowPre DEF SchedInv
<1>2. ASSUME NEW t \in Tasks, kthread_create(t) PROVE SchedInv'
  <2>1. t \notin all
    BY <1>1, <1>2 DEF kthread_create, OthersWait
  <2>2. TypeOK'
    BY <1>1, <1>2, SliceAssumption DEF kthread_create, TypeOK, Tasks
  <2>3. ReadySet' = ReadySet /\ ready' = ready
    BY <1>1, <1>2, <2>1 DEF kthread_create, ReadySet, TypeOK
  <2>4. ReadyListSound'
    BY <1>1, <2>3 DEF ReadyListSound
  <2>5. OthersWait'
    BY <1>1, <1>2, <2>1 DEF kthread_create, OthersWait, Booting, TypeOK
  <2> QED
    BY <2>2, <2>4, <2>5 DEF SchedInv
<1>3. ASSUME NEW t \in Tasks, kthread_run(t) PROVE SchedInv'
  <2>1. /\ t \in Elem \ ReadySet /\ ReadySet \in SUBSET Elem /\ IsFiniteSet(ReadySet)
        /\ ready \in ListType /\ Queues(ready, ReadySet)
    BY <1>1, <1>3, RegisteredFinite DEF kthread_run, ReadySet, Tasks, Threads, TypeOK, ReadyListSound
  <2>2. ready' \in ListType /\ Queues(ready', ReadySet \cup {t})
    BY <1>3, <2>1, AppendQueues DEF kthread_run
  <2>3. TypeOK'
    BY <1>1, <1>3, <2>2, SliceAssumption DEF kthread_run, TypeOK, Tasks
  <2>4. ReadySet' = ReadySet \cup {t}
    BY <1>1, <1>3 DEF kthread_run, ReadySet, TypeOK, Tasks
  <2>5. ReadyListSound'
    BY <2>2, <2>4 DEF ReadyListSound
  <2>6. OthersWait'
    BY <1>1, <1>3 DEF kthread_run, OthersWait, Booting, TypeOK, Tasks
  <2> QED
    BY <2>3, <2>5, <2>6 DEF SchedInv
<1>4. CASE kthread_yield
  <2> DEFINE s == [ready |-> list_append(ready, cur),
                   status |-> [status EXCEPT ![cur] = "READY"],
                   slice |-> time_slice]
  <2>1. Schedule(s) /\ all' = all
    BY <1>4 DEF kthread_yield
  <2>2. /\ s.ready = list_append(ready, cur)
        /\ s.status = [status EXCEPT ![cur] = "READY"]
        /\ s.slice = time_slice
    OBVIOUS
  <2>3. CASE Booting
    <3> DEFINE l == list_append(BootList, Main)
    <3>1. /\ cur = Main /\ all = {Idle, Main} /\ status[Idle] = "READY" /\ status[Main] = "READY"
          /\ ready = BootList
      BY <1>1, <2>3 DEF OthersWait, Booting
    <3>2. s.ready = l /\ s.status = status /\ s.slice = time_slice
      BY <1>1, <2>2, <3>1 DEF TypeOK
    <3>3. FallBack(Requeue(s)) = s
      BY <3>1, <3>2, BootYield DEF FallBack, Requeue
    <3>4. /\ ready' = PopRest(l) /\ status' = [status EXCEPT ![Idle] = "RUNNING"]
          /\ time_slice' = time_slice /\ cur' = Idle
      BY <2>1, <3>2, <3>3, BootYield DEF Schedule, Dispatch
    <3>5. TypeOK'
      BY <1>1, <2>1, <3>4, BootYield, ThreadsAssumption DEF TypeOK
    <3>6. ReadySet' = {Main}
      BY <1>1, <2>1, <3>1, <3>4, ThreadsAssumption DEF ReadySet, TypeOK
    <3>7. ReadyListSound'
      BY <3>4, <3>6, BootYield DEF ReadyListSound
    <3>8. OthersWait'
      BY <1>1, <2>1, <3>1, <3>4, ThreadsAssumption DEF OthersWait, Booting, TypeOK
    <3> QED
      BY <3>5, <3>7, <3>8 DEF SchedInv
  <2>4. CASE ~Booting
    <3>1. /\ cur \in Elem \ ReadySet /\ ReadySet \in SUBSET Elem /\ IsFiniteSet(ReadySet)
          /\ ready \in ListType /\ Queues(ready, ReadySet)
      BY <1>1, <2>4, RegisteredFinite DEF Booting, ReadySet, Threads, TypeOK, ReadyListSound
    <3>2. s.ready \in ListType /\ Queues(s.ready, ReadySet \cup {cur})
      BY <2>2, <3>1, AppendQueues
    <3>3. {x \in all : s.status[x] = "READY"} = ReadySet \cup {cur}
      BY <1>1, <2>2 DEF ReadySet, TypeOK
    <3>4. SchedulePre(s)
      BY <1>1, <3>2, <3>3 DEF SchedulePre, OthersWait, TypeOK
    <3> QED
      BY <1>1, <2>1, <3>4, ScheduleStage
  <2> QED
    BY <2>3, <2>4
<1>5. ASSUME NEW stat \in BlockStates, kthread_block(stat) PROVE SchedInv'
  <2> DEFINE s == [Now EXCEPT !.status[cur] = stat]
  <2>1. Schedule(s) /\ all' = all /\ ~Booting
    BY <1>5 DEF kthread_block
  <2>2. s = [ready |-> ready, status |-> [status EXCEPT ![cur] = stat], slice |-> time_slice]
    BY DEF Now
  <2>3. {x \in all : s.status[x] = "READY"} = ReadySet
    BY <1>1, <2>1, <2>2 DEF ReadySet, TypeOK, Booting
  <2>4. SchedulePre(s)
    BY <1>1, <2>2, <2>3 DEF SchedulePre, OthersWait, TypeOK, ReadyListSound
  <2> QED
    BY <1>1, <2>1, <2>4, ScheduleStage
<1>6. ASSUME NEW t \in all \ {Idle}, kthread_unblock(t) PROVE SchedInv'
  <2> DEFINE u == Unblock(Now, t)
  <2>1. SchedulePre(u)
    BY <1>1, UnblockStage
  <2>2. ready' = u.ready /\ status' = u.status /\ UNCHANGED <<all, time_slice, cur>>
    BY <1>6 DEF kthread_unblock
  <2>3. u.status[cur] = status[cur] /\ u.status[Idle] = status[Idle]
    BY <1>1, <1>6 DEF Unblock, Now, OthersWait, TypeOK
  <2>4. Booting => u.ready = ready
    BY <1>1, <1>6 DEF Unblock, Now, OthersWait, Booting
  <2> HIDE DEF u
  <2>5. TypeOK'
    BY <1>1, <2>1, <2>2 DEF SchedulePre, TypeOK
  <2>6. ReadyListSound'
    BY <2>1, <2>2 DEF SchedulePre, ReadyListSound, ReadySet
  <2>7. OthersWait'
    BY <1>1, <2>1, <2>2, <2>3, <2>4 DEF SchedulePre, OthersWait, Booting
  <2> QED
    BY <2>5, <2>6, <2>7 DEF SchedInv
<1>7. CASE timer_handler
  <2>1. CASE time_slice[cur] = 0
    BY <1>1, <1>7, <2>1, ScheduleStage DEF timer_handler
  <2>2. CASE time_slice[cur] # 0
    <3>1. /\ time_slice' = [time_slice EXCEPT ![cur] = time_slice[cur] - 1]
          /\ UNCHANGED <<ready, all, status, cur>>
      BY <1>7, <2>2 DEF timer_handler
    <3>2. time_slice[cur] - 1 \in 0..Slice
      BY <1>1, <2>2, SliceAssumption DEF TypeOK
    <3>3. TypeOK'
      BY <1>1, <3>1, <3>2 DEF TypeOK
    <3> QED
      BY <1>1, <3>1, <3>3 DEF SchedInv, ReadyListSound, ReadySet, OthersWait, Booting
  <2> QED
    BY <2>1, <2>2
<1>8. CASE UNCHANGED vars
  BY <1>1, <1>8 DEF vars, SchedInv, TypeOK, ReadyListSound, ReadySet, OthersWait, Booting
<1> QED
  BY <1>2, <1>3, <1>4, <1>5, <1>6, <1>7, <1>8, BlockAssumption DEF Next

\* The strengthened invariant holds of the scheduler whatever threads exist.
THEOREM SchedInvariant == Spec => []SchedInv
BY SchedInit, SchedNext, PTL DEF Spec

\* Type correctness: in particular the CPU always has a thread, so schedule()
\* never pops an empty list.
THEOREM SchedTypeCorrect == Spec => []TypeOK
<1>1. SchedInv => TypeOK
  BY DEF SchedInv
<1> QED
  BY <1>1, SchedInvariant, PTL

\* No thread is lost from the ready list, and none that sleeps is on it.
THEOREM ReadyListCorrect == Spec => []ReadyListSound
<1>1. SchedInv => ReadyListSound
  BY DEF SchedInv
<1> QED
  BY <1>1, SchedInvariant, PTL

\* Exactly one registered thread is RUNNING, and it is the one on the CPU,
\* once main has been switched out the first time.
THEOREM OneRunningThread == Spec => []OneRunning
<1>1. SchedInv => OneRunning
  BY StatusDistinct DEF SchedInv, OthersWait, OneRunning, Booting
<1> QED
  BY <1>1, SchedInvariant, PTL

-----------------------------------------------------------------------------
(* The scheduler implements RoundRobin.                                    *)

\* What is asleep among the values schedule() works on.
SleepersOf(s) == {t \in all : s.status[t] \in BlockStates}

\* The queue schedule() takes the next thread from, unless it is empty.
Candidates(s) ==
    IF s.status[cur] = "RUNNING" THEN Append(Items(s.ready), cur) ELSE Items(s.ready)

\* A thread that is still RUNNING becomes the last candidate (sched.c:47-52).
LEMMA RequeueItems ==
    ASSUME all \in SUBSET Threads, cur \in all, NEW s, SchedulePre(s)
    PROVE  /\ Items(Requeue(s).ready) = Candidates(s)
           /\ SleepersOf(Requeue(s)) = SleepersOf(s)
<1>1. CASE s.status[cur] # "RUNNING"
  BY <1>1 DEF Requeue, Candidates
<1>2. CASE s.status[cur] = "RUNNING"
  <2> DEFINE u == Requeue(s)
             S == {x \in all : s.status[x] = "READY"}
  <2>1. u = [ready |-> list_append(s.ready, cur),
             status |-> [s.status EXCEPT ![cur] = "READY"],
             slice |-> [s.slice EXCEPT ![cur] = Slice]]
    BY <1>2 DEF Requeue
  <2>2. cur \in Elem \ S /\ S \in SUBSET Elem
    BY <1>2, RegisteredFinite DEF Threads
  <2>3. s.ready \in ListType /\ Queues(s.ready, S) /\ s.status \in [Threads -> Status]
    BY DEF SchedulePre
  <2>4. Items(list_append(s.ready, cur)) = Append(Items(s.ready), cur)
    <3> HIDE DEF S
    <3> QED BY <2>2, <2>3, AppendItems
  <2>5. u.ready = list_append(s.ready, cur) /\ u.status = [s.status EXCEPT ![cur] = "READY"]
    BY <2>1
  <2> HIDE DEF u
  <2>6. SleepersOf(u) = SleepersOf(s)
    BY <1>2, <2>3, <2>5, StatusDistinct DEF SleepersOf
  <2> QED
    BY <1>2, <2>4, <2>5, <2>6 DEF Candidates, u
<1> QED
  BY <1>1, <1>2

\* The idle thread is woken exactly when there is no other (sched.c:55-58).
LEMMA FallBackItems ==
    ASSUME all \in SUBSET Threads, cur \in all, Idle \in all, NEW s, SchedulePre(s),
           s.status[cur] \in BlockStates \cup {"READY"}
    PROVE  /\ Items(s.ready) # <<>> =>
                  Items(FallBack(s).ready) = Items(s.ready) /\ SleepersOf(FallBack(s)) = SleepersOf(s)
           /\ Items(s.ready) = <<>> =>
                  /\ Items(FallBack(s).ready) = <<Idle>>
                  /\ SleepersOf(FallBack(s)) = SleepersOf(s) \ {Idle}
<1> DEFINE S == {x \in all : s.status[x] = "READY"}
<1>1. /\ S \in SUBSET Elem /\ IsFiniteSet(S) /\ s.ready \in ListType /\ Queues(s.ready, S)
      /\ s.status \in [Threads -> Status]
  BY RegisteredFinite DEF SchedulePre, Threads
<1>2. (list_empty(s.ready) <=> S = {}) /\ (Items(s.ready) = <<>> <=> S = {})
  <2> HIDE DEF S
  <2> QED BY <1>1, QueueEnds, QueueItems
<1>3. CASE S # {}
  BY <1>2, <1>3 DEF FallBack
<1>4. CASE S = {}
  <2>1. s.status[Idle] \in BlockStates
    BY <1>4 DEF SchedulePre
  <2> DEFINE u == FallBack(s)
  <2>2. u.ready = list_push(s.ready, Idle) /\ u.status = [s.status EXCEPT ![Idle] = "READY"]
    BY <1>2, <1>4, <2>1 DEF FallBack, Unblock, SchedulePre
  <2> HIDE DEF u
  <2>3. Items(list_push(s.ready, Idle)) = <<Idle>> \o Items(s.ready)
    <3>1. Idle \in Elem \ S
      BY <1>4 DEF Threads
    <3> HIDE DEF S
    <3> QED BY <1>1, <3>1, PushItems
  <2>4. Items(s.ready) = <<>>
    BY <1>2, <1>4
  <2>5. <<Idle>> \o <<>> = <<Idle>>
    <3>1. <<Idle>> \in Seq({Idle})
      OBVIOUS
    <3> QED BY <3>1, ConcatEmptySeq
  <2>6. Items(u.ready) = <<Idle>>
    BY <2>2, <2>3, <2>4, <2>5
  <2>7. SleepersOf(u) = SleepersOf(s) \ {Idle}
    BY <1>1, <2>2, StatusDistinct DEF SleepersOf
  <2> QED
    BY <2>4, <2>6, <2>7 DEF u
<1> QED
  BY <1>3, <1>4

\* schedule() as RoundRobin sees it, whichever operation called it: the first
\* candidate runs, the others stay queued, and nobody falls asleep.
LEMMA ScheduleItems ==
    ASSUME all \in SUBSET Threads, cur \in all, Idle \in all, NEW s, SchedulePre(s),
           Schedule(s), all' = all
    PROVE  /\ Candidates(s) # <<>> =>
                  /\ cur' = Head(Candidates(s)) /\ RunQueue' = Tail(Candidates(s))
                  /\ Asleep' = SleepersOf(s)
           /\ Candidates(s) = <<>> =>
                  /\ cur' = Idle /\ RunQueue' = <<>>
                  /\ Asleep' = SleepersOf(s) \ {Idle}
<1> DEFINE v == Requeue(s)
           u == FallBack(v)
           S == {x \in all : u.status[x] = "READY"}
           next == PopElem(u.ready)
<1>1. /\ SchedulePre(v) /\ v.status[cur] \in BlockStates \cup {"READY"}
      /\ Items(v.ready) = Candidates(s) /\ SleepersOf(v) = SleepersOf(s)
  BY RequeueStage, RequeueItems
<1>2. SchedulePre(u) /\ u.status[cur] \in BlockStates \cup {"READY"} /\ S # {}
  BY RequeueStage, FallBackStage
<1>3. /\ ready' = PopRest(u.ready)
      /\ status' = [u.status EXCEPT ![next] = "RUNNING"]
      /\ cur' = next
  BY DEF Schedule, Dispatch
<1> HIDE DEF v
<1>4. /\ Candidates(s) # <<>> => Items(u.ready) = Candidates(s) /\ SleepersOf(u) = SleepersOf(s)
      /\ Candidates(s) = <<>> => Items(u.ready) = <<Idle>> /\ SleepersOf(u) = SleepersOf(s) \ {Idle}
  BY <1>1, FallBackItems
<1> HIDE DEF u
<1>5. /\ S \in SUBSET Elem /\ IsFiniteSet(S) /\ u.ready \in ListType /\ Queues(u.ready, S)
      /\ u.status \in [Threads -> Status]
  BY <1>2, RegisteredFinite DEF SchedulePre, Threads
<1>6. next \in S /\ next = Head(Items(u.ready)) /\ Items(PopRest(u.ready)) = Tail(Items(u.ready))
  <2> HIDE DEF S
  <2> QED BY <1>2, <1>5, PopQueues, PopItems
<1> HIDE DEF next
<1>7. Asleep' = SleepersOf(u)
  BY <1>3, <1>5, <1>6, StatusDistinct DEF Asleep, SleepersOf
<1>8. RunQueue' = Items(ready')
  <2>1. ~Booting'
    BY <1>3, <1>5, <1>6 DEF Booting
  <2> QED BY <2>1 DEF RunQueue
<1>9. Head(<<Idle>>) = Idle /\ Tail(<<Idle>>) = <<>>
  OBVIOUS
<1> QED
  BY <1>3, <1>4, <1>6, <1>7, <1>8, <1>9

\* The two threads of the boot, in the order they were queued.
LEMMA BootSeq ==
    /\ Append(<<>>, Idle) = <<Idle>> /\ Append(<<Idle>>, Main) = <<Idle, Main>>
    /\ Head(<<Idle, Main>>) = Idle /\ Tail(<<Idle, Main>>) = <<Main>>
    /\ SubSeq(<<Idle, Main>>, 1, 1) = <<Idle>>
    /\ \A q \in Seq({Main}) : Len(q) = 1 => q = <<Main>>
    /\ <<Idle>> \in Seq(Threads)
<1>0. Idle \in Threads /\ Main \in Threads
  BY ThreadsAssumption
<1>1. /\ <<Idle>> \in Seq(Threads) /\ Len(<<Idle>>) = 1 /\ <<Idle>>[1] = Idle
      /\ <<Main>> \in Seq(Threads) /\ Len(<<Main>>) = 1 /\ <<Main>>[1] = Main
      /\ <<Idle, Main>> \in Seq(Threads) /\ Len(<<Idle, Main>>) = 2
      /\ <<Idle, Main>>[1] = Idle /\ <<Idle, Main>>[2] = Main
      /\ <<>> \in Seq(Threads) /\ Len(<<>>) = 0
  BY <1>0
<1>2. Append(<<>>, Idle) = <<Idle>>
  <2> DEFINE s == Append(<<>>, Idle)
  <2>1. s \in Seq(Threads) /\ Len(s) = 0 + 1 /\ s[0 + 1] = Idle
    BY <1>0, <1>1, AppendProperties
  <2> HIDE DEF s
  <2>2. Len(s) = 1 /\ \A i \in 1..Len(s) : s[i] = <<Idle>>[i]
    BY <1>0, <1>1, <2>1
  <2> QED BY <1>0, <1>1, <2>1, <2>2, SeqEqual DEF s
<1>3. Append(<<Idle>>, Main) = <<Idle, Main>>
  <2> DEFINE s == Append(<<Idle>>, Main)
  <2>1. s \in Seq(Threads) /\ Len(s) = 1 + 1 /\ s[1 + 1] = Main /\ s[1] = Idle
    BY <1>0, <1>1, AppendProperties
  <2> HIDE DEF s
  <2>2. Len(s) = 2 /\ \A i \in 1..Len(s) : i = 1 \/ i = 2
    BY <2>1
  <2>3. \A i \in 1..Len(s) : s[i] = <<Idle, Main>>[i]
    BY <1>0, <1>1, <2>1, <2>2
  <2> QED BY <1>0, <1>1, <2>1, <2>2, <2>3, SeqEqual DEF s
<1>4. Head(<<Idle, Main>>) = Idle /\ Tail(<<Idle, Main>>) = <<Main>>
  <2> DEFINE s == Tail(<<Idle, Main>>)
  <2>1. <<Idle, Main>> # <<>>
    BY <1>1
  <2>2. s \in Seq(Threads) /\ Len(s) = 2 - 1 /\ \A i \in 1..Len(s) : s[i] = <<Idle, Main>>[i + 1]
    BY <1>0, <1>1, <2>1, HeadTailProperties
  <2> HIDE DEF s
  <2>3. Len(s) = 1 /\ \A i \in 1..Len(s) : i = 1
    BY <2>2
  <2>4. \A i \in 1..Len(s) : s[i] = <<Main>>[i]
    BY <1>0, <1>1, <2>2, <2>3
  <2>5. s = <<Main>>
    BY <1>0, <1>1, <2>2, <2>3, <2>4, SeqEqual
  <2>6. Head(<<Idle, Main>>) = Idle
    OBVIOUS
  <2> QED BY <2>5, <2>6 DEF s
<1>5. SubSeq(<<Idle, Main>>, 1, 1) = <<Idle>>
  <2> DEFINE s == SubSeq(<<Idle, Main>>, 1, 1)
  <2>1. s \in Seq(Threads) /\ Len(s) = 1 /\ s[1] = Idle
    BY <1>0, <1>1, SubSeqProperties
  <2> HIDE DEF s
  <2>2. \A i \in 1..Len(s) : s[i] = <<Idle>>[i]
    BY <1>0, <1>1, <2>1
  <2> QED BY <1>0, <1>1, <2>1, <2>2, SeqEqual DEF s
<1>6. ASSUME NEW q \in Seq({Main}), Len(q) = 1 PROVE q = <<Main>>
  <2>1. q[1] = Main
    <3>1. 1 \in 1..Len(q)
      BY <1>6
    <3> QED BY <3>1, ElementOfSeq
  <2>1a. q \in Seq(Threads)
    BY <1>0
  <2>2. \A i \in 1..Len(q) : q[i] = <<Main>>[i]
    BY <1>0, <1>1, <1>6, <2>1
  <2> QED BY <1>0, <1>1, <1>6, <2>1a, <2>2, SeqEqual
<1> QED
  BY <1>0, <1>1, <1>2, <1>3, <1>4, <1>5, <1>6

\* While main boots the list is the idle thread and main.
LEMMA BootItems == Items(BootList) = <<Idle, Main>>
<1>1. Idle \in Elem /\ Main \in Elem /\ Main # Idle
  BY ThreadsAssumption DEF Threads
<1>2. list_init \in ListType /\ Queues(list_init, {})
  BY EmptyQueue
<1> DEFINE l == list_append(list_init, Idle)
<1>3. l \in ListType /\ Queues(l, {Idle})
  BY IdleQueue
<1>4. Items(list_init) = <<>>
  BY <1>2, QueueItems
<1>5. Items(l) = Append(<<>>, Idle)
  <2>1. {} \in SUBSET Elem /\ Idle \in Elem \ {}
    BY <1>1
  <2> QED BY <1>2, <1>4, <2>1, AppendItems
<1> HIDE DEF l
<1>6. Items(list_append(l, Main)) = Append(Items(l), Main)
  <2>1. {Idle} \in SUBSET Elem /\ Main \in Elem \ {Idle}
    BY <1>1
  <2> QED BY <1>3, <2>1, AppendItems
<1>7. Append(Append(<<>>, Idle), Main) = <<Idle, Main>>
  BY BootSeq
<1> QED
  BY <1>5, <1>6, <1>7 DEF BootList, l

\* What RoundRobin sees of a state: in boot the idle thread waits behind main;
\* then the list itself, whose members are the ready threads.
LEMMA RunQueueIs ==
    ASSUME SchedInv
    PROVE  /\ Booting => RunQueue = <<Idle>> /\ cur = Main /\ Asleep = {}
           /\ ~Booting => RunQueue = Items(ready) /\ status[cur] = "RUNNING"
           /\ ready \in ListType /\ ReadySet \in SUBSET Elem /\ Queues(ready, ReadySet)
           /\ Items(ready) \in Seq(ReadySet)
<1>1. TypeOK /\ ReadyListSound /\ OthersWait
  BY DEF SchedInv
<1>2. ready \in ListType /\ ReadySet \in SUBSET Elem /\ Queues(ready, ReadySet)
  BY <1>1 DEF TypeOK, ReadyListSound, ReadySet, Threads
<1>3. ASSUME Booting PROVE RunQueue = <<Idle>> /\ cur = Main /\ Asleep = {}
  <2>1. /\ cur = Main /\ all = {Idle, Main} /\ ready = BootList
        /\ status[Idle] = "READY" /\ status[Main] = "READY"
    BY <1>1, <1>3 DEF OthersWait, Booting
  <2>2. Items(ready) = <<Idle, Main>>
    BY <2>1, BootItems
  <2>3. SubSeq(<<Idle, Main>>, 1, Len(<<Idle, Main>>) - 1) = <<Idle>>
    <3>1. Len(<<Idle, Main>>) - 1 = 1
      OBVIOUS
    <3>2. SubSeq(<<Idle, Main>>, 1, 1) = <<Idle>>
      BY BootSeq
    <3> QED BY <3>1, <3>2
  <2> QED BY <1>3, <2>1, <2>2, <2>3, StatusDistinct DEF RunQueue, Asleep
<1>4. ~Booting => RunQueue = Items(ready) /\ status[cur] = "RUNNING"
  BY <1>1 DEF RunQueue, OthersWait, Booting
<1> QED
  BY <1>2, <1>3, <1>4, QueueItems

\* A schedule() whose candidates are the queue and the running thread is the
\* abstract Rotate: a yield, or the end of a time slice.
LEMMA RotateStep ==
    ASSUME SchedInv, NEW s, SchedulePre(s), Schedule(s), all' = all,
           Candidates(s) = Append(RunQueue, cur), SleepersOf(s) = Asleep
    PROVE  RR!Rotate
<1>1. all \in SUBSET Threads /\ cur \in all /\ Idle \in all
  BY NowPre
<1>2. Append(RunQueue, cur) # <<>>
  <2>1. RunQueue \in Seq(Threads) /\ cur \in Threads
    <3>1. CASE Booting
      <4>1. RunQueue = <<Idle>> /\ Idle \in Threads
        BY <1>1, <3>1, RunQueueIs
      <4> QED BY <1>1, <4>1, BootSeq
    <3>2. CASE ~Booting
      <4>1. RunQueue \in Seq(ReadySet) /\ ReadySet \subseteq Threads
        BY <3>2, RunQueueIs DEF Threads
      <4> QED BY <1>1, <4>1
    <3> QED BY <3>1, <3>2
  <2> QED BY <2>1, AppendProperties
<1>3. cur' = Head(Append(RunQueue, cur)) /\ RunQueue' = Tail(Append(RunQueue, cur)) /\ Asleep' = Asleep
  BY <1>1, <1>2, ScheduleItems
<1> QED
  BY <1>3 DEF RR!Rotate

\* In boot, main's element is the last of the list already, so the end of its
\* slice and its yield are the same rotation; the yield appends the element a
\* second time, which the pop of the idle thread repairs.
LEMMA BootYieldStep ==
    ASSUME SchedInv, Booting, kthread_yield
    PROVE  RR!Rotate
<1> DEFINE l == list_append(BootList, Main)
           s == [ready |-> list_append(ready, cur),
                 status |-> [status EXCEPT ![cur] = "READY"],
                 slice |-> time_slice]
<1>1. TypeOK /\ OthersWait /\ Schedule(s) /\ all' = all
  BY DEF SchedInv, kthread_yield
<1>2. /\ cur = Main /\ all = {Idle, Main} /\ status[Idle] = "READY" /\ status[Main] = "READY"
      /\ ready = BootList
  BY <1>1 DEF OthersWait, Booting
<1>3. s.ready = l /\ s.status = status
  BY <1>1, <1>2 DEF TypeOK
<1>4. FallBack(Requeue(s)) = s
  BY <1>2, <1>3, BootYield DEF FallBack, Requeue
<1>5. ready' = PopRest(l) /\ status' = [status EXCEPT ![Idle] = "RUNNING"] /\ cur' = Idle
  BY <1>1, <1>3, <1>4, BootYield DEF Schedule, Dispatch
<1>6. Items(PopRest(l)) = <<Main>>
  <2>1. Queues(PopRest(l), {Main}) /\ {Main} \in SUBSET Elem
    BY BootYield, ThreadsAssumption DEF Threads
  <2> DEFINE q == Items(PopRest(l))
  <2>2. q \in [1..Cardinality({Main}) -> {Main}] /\ q \in Seq({Main}) /\ Len(q) = Cardinality({Main})
    BY <2>1, QueueItems
  <2>3. Cardinality({Main}) = 1
    BY FS_Singleton
  <2> HIDE DEF q
  <2>4. Len(q) = 1 /\ q \in Seq({Main})
    BY <2>2, <2>3
  <2> QED BY <2>4, BootSeq DEF q
<1> HIDE DEF l, s
<1>7. RunQueue' = <<Main>>
  <2>1. ~Booting'
    BY <1>1, <1>5, ThreadsAssumption DEF Booting, TypeOK
  <2> QED BY <1>5, <1>6, <2>1 DEF RunQueue
<1>8. Asleep' = {} /\ Asleep = {}
  BY <1>1, <1>2, <1>5, ThreadsAssumption, StatusDistinct DEF Asleep, TypeOK
<1>9. RunQueue = <<Idle>>
  BY RunQueueIs
<1>10. Head(Append(<<Idle>>, Main)) = Idle /\ Tail(Append(<<Idle>>, Main)) = <<Main>>
  BY BootSeq
<1> QED
  BY <1>2, <1>5, <1>7, <1>8, <1>9, <1>10 DEF RR!Rotate

\* Every step of the scheduler is a step of RoundRobin or leaves it as it is.
LEMMA RoundRobinStep == SchedInv /\ [Next]_vars => [RR!RRNext]_(RR!rrvars)
<1> SUFFICES ASSUME SchedInv, [Next]_vars PROVE [RR!RRNext]_(RR!rrvars)
  OBVIOUS
<1> USE StatusDistinct
<1>1. /\ TypeOK /\ ReadyListSound /\ OthersWait
      /\ all \in SUBSET Threads /\ cur \in all /\ Idle \in all
      /\ SchedulePre(Now) /\ Now.status = status /\ Now.ready = ready
  BY NowPre DEF SchedInv, Now
<1>2. /\ Booting => RunQueue = <<Idle>> /\ cur = Main /\ Asleep = {}
      /\ ~Booting => RunQueue = Items(ready) /\ status[cur] = "RUNNING"
      /\ ready \in ListType /\ ReadySet \in SUBSET Elem /\ Queues(ready, ReadySet)
      /\ Items(ready) \in Seq(ReadySet)
  BY RunQueueIs
<1>3. ASSUME NEW t \in Tasks, kthread_create(t) PROVE UNCHANGED RR!rrvars
  <2>1. t \notin all /\ status' = [status EXCEPT ![t] = "RUNNING"] /\ UNCHANGED <<ready, all, cur>>
    BY <1>1, <1>3 DEF kthread_create, OthersWait
  <2>2. Asleep' = Asleep /\ Booting' = Booting
    BY <1>1, <2>1 DEF Asleep, Booting, TypeOK
  <2>3. RunQueue' = RunQueue
    BY <2>1, <2>2 DEF RunQueue
  <2> QED BY <2>1, <2>2, <2>3 DEF RR!rrvars
<1>4. ASSUME NEW t \in Tasks, kthread_run(t) PROVE RR!Start(t)
  <2>1. /\ ~Booting /\ t \notin all /\ status' = [status EXCEPT ![t] = "READY"]
        /\ ready' = list_append(ready, t) /\ all' = all \cup {t} /\ cur' = cur
    BY <1>4 DEF kthread_run
  <2>2. t \in Elem \ ReadySet /\ t \in Threads
    BY <2>1 DEF ReadySet, Tasks, Threads
  <2>3. Items(ready') = Append(Items(ready), t)
    BY <1>2, <2>1, <2>2, AppendItems
  <2>4. Asleep' = Asleep /\ ~Booting'
    BY <1>1, <2>1, <2>2 DEF Asleep, Booting, TypeOK
  <2>5. RunQueue' = Append(RunQueue, t)
    BY <1>2, <2>1, <2>3, <2>4 DEF RunQueue
  <2>6. t # cur /\ t \notin Asleep /\ \A i \in DOMAIN RunQueue : RunQueue[i] # t
    <3>1. \A i \in DOMAIN Items(ready) : Items(ready)[i] \in ReadySet
      BY <1>2
    <3> QED BY <1>1, <1>2, <2>1, <2>2, <3>1 DEF Asleep
  <2> QED BY <2>1, <2>4, <2>5, <2>6 DEF RR!Start, RR!Alive, RR!Queued
<1>5. CASE kthread_yield
  <2>1. CASE Booting
    BY <1>5, <2>1, BootYieldStep DEF RR!RRNext
  <2>2. CASE ~Booting
    <3> DEFINE s == [ready |-> list_append(ready, cur),
                     status |-> [status EXCEPT ![cur] = "READY"],
                     slice |-> time_slice]
    <3>1. Schedule(s) /\ all' = all
      BY <1>5 DEF kthread_yield
    <3>2. /\ s.ready = list_append(ready, cur)
          /\ s.status = [status EXCEPT ![cur] = "READY"]
          /\ s.slice = time_slice
      OBVIOUS
    <3>3. cur \in Elem \ ReadySet /\ IsFiniteSet(ReadySet)
      BY <1>1, <1>2, <2>2, RegisteredFinite DEF ReadySet, Threads
    <3>4. s.ready \in ListType /\ Queues(s.ready, ReadySet \cup {cur})
      BY <1>2, <3>2, <3>3, AppendQueues
    <3>5. {x \in all : s.status[x] = "READY"} = ReadySet \cup {cur}
      BY <1>1, <3>2 DEF ReadySet, TypeOK
    <3>6. SchedulePre(s)
      BY <1>1, <3>4, <3>5 DEF SchedulePre, OthersWait, TypeOK
    <3>7. Items(s.ready) = Append(RunQueue, cur)
      BY <1>2, <2>2, <3>2, <3>3, AppendItems
    <3>8. Candidates(s) = Append(RunQueue, cur) /\ SleepersOf(s) = Asleep
      BY <1>1, <1>2, <2>2, <3>2, <3>7 DEF Candidates, SleepersOf, Asleep, TypeOK
    <3> HIDE DEF s
    <3>9. RR!Rotate
      BY <3>1, <3>6, <3>8, RotateStep
    <3> QED BY <3>9 DEF RR!RRNext
  <2> QED BY <2>1, <2>2
<1>6. ASSUME NEW stat \in BlockStates, kthread_block(stat) PROVE RR!Sleep
  <2> DEFINE s == [Now EXCEPT !.status[cur] = stat]
  <2>1. Schedule(s) /\ all' = all /\ ~Booting
    BY <1>6 DEF kthread_block
  <2>2. s = [ready |-> ready, status |-> [status EXCEPT ![cur] = stat], slice |-> time_slice]
    BY DEF Now
  <2>3. {x \in all : s.status[x] = "READY"} = ReadySet
    BY <1>1, <1>2, <2>1, <2>2 DEF ReadySet, TypeOK
  <2>4. SchedulePre(s)
    BY <1>1, <2>2, <2>3 DEF SchedulePre, OthersWait, TypeOK, ReadyListSound
  <2>5. s.ready = ready /\ s.status = [status EXCEPT ![cur] = stat]
    BY <2>2
  <2> HIDE DEF s
  <2>6. Candidates(s) = RunQueue /\ SleepersOf(s) = Asleep \cup {cur}
    BY <1>1, <1>2, <2>1, <2>5 DEF Candidates, SleepersOf, Asleep, TypeOK
  <2>7. /\ RunQueue # <<>> =>
               cur' = Head(RunQueue) /\ RunQueue' = Tail(RunQueue) /\ Asleep' = Asleep \cup {cur}
        /\ RunQueue = <<>> =>
               cur' = Idle /\ RunQueue' = RunQueue /\ Asleep' = (Asleep \cup {cur}) \ {Idle}
    BY <1>1, <2>1, <2>4, <2>6, ScheduleItems
  <2> QED BY <2>7 DEF RR!Sleep
<1>7. ASSUME NEW t \in all \ {Idle}, kthread_unblock(t) PROVE RR!Wake(t) \/ UNCHANGED RR!rrvars
  <2>1. /\ ready' = Unblock(Now, t).ready /\ status' = Unblock(Now, t).status
        /\ UNCHANGED <<all, time_slice, cur>>
    BY <1>7 DEF kthread_unblock
  <2>2. CASE status[t] \notin BlockStates
    <3>1. ready' = ready /\ status' = status
      BY <1>1, <2>1, <2>2 DEF Unblock
    <3> QED BY <2>1, <3>1 DEF RR!rrvars, RunQueue, Booting, Asleep
  <2>3. CASE status[t] \in BlockStates
    <3>1. ready' = list_push(ready, t) /\ status' = [status EXCEPT ![t] = "READY"]
      BY <1>1, <2>1, <2>3 DEF Unblock, Now
    <3>2. t \in Asleep /\ t # cur /\ t \in Elem \ ReadySet /\ ~Booting
      BY <1>1, <1>2, <2>3 DEF Asleep, OthersWait, Threads, ReadySet
    <3>3. Items(ready') = <<t>> \o Items(ready)
      BY <1>2, <3>1, <3>2, PushItems
    <3>4. Asleep' = Asleep \ {t} /\ ~Booting'
      BY <1>1, <2>1, <3>1, <3>2 DEF Asleep, Booting, TypeOK
    <3>5. RunQueue' = <<t>> \o RunQueue
      BY <1>2, <3>2, <3>3, <3>4 DEF RunQueue
    <3> QED BY <2>1, <3>2, <3>4, <3>5 DEF RR!Wake
  <2> QED BY <2>2, <2>3
<1>8. CASE timer_handler
  <2>1. CASE time_slice[cur] = 0
    <3>1. Schedule(Now) /\ all' = all
      BY <1>8, <2>1 DEF timer_handler
    <3>2. SleepersOf(Now) = Asleep
      BY <1>1 DEF SleepersOf, Asleep
    <3>3. Candidates(Now) = Append(RunQueue, cur)
      <4>1. CASE Booting
        <5>1. ready = BootList /\ status[cur] = "READY"
          BY <1>1, <4>1 DEF OthersWait, Booting
        <5>2. Candidates(Now) = <<Idle, Main>>
          BY <1>1, <5>1, BootItems DEF Candidates
        <5>3. Append(<<Idle>>, Main) = <<Idle, Main>>
          BY BootSeq
        <5> QED BY <1>2, <4>1, <5>2, <5>3
      <4>2. CASE ~Booting
        BY <1>1, <1>2, <4>2 DEF Candidates
      <4> QED BY <4>1, <4>2
    <3>4. RR!Rotate
      BY <1>1, <3>1, <3>2, <3>3, RotateStep
    <3> QED BY <3>4 DEF RR!RRNext
  <2>2. CASE time_slice[cur] # 0
    <3>1. UNCHANGED <<ready, all, status, cur>>
      BY <1>8, <2>2 DEF timer_handler
    <3> QED BY <3>1 DEF RR!rrvars, RunQueue, Booting, Asleep
  <2> QED BY <2>1, <2>2
<1>9. CASE UNCHANGED vars
  BY <1>9 DEF vars, RR!rrvars, RunQueue, Booting, Asleep
<1>10. Tasks \subseteq Threads /\ all \subseteq Threads
  BY <1>1 DEF Tasks
<1> QED
  BY <1>3, <1>4, <1>5, <1>6, <1>7, <1>8, <1>9, <1>10, BlockAssumption DEF Next, RR!RRNext

\* The scheduler keeps its promise to the rest of the kernel: FIFO among the
\* ready threads, woken threads first, the idle thread when nobody is left.
THEOREM SchedImplementsRoundRobin == Spec => ImplementsRoundRobin
<1>1. Init => RR!RRInit
  <2> SUFFICES ASSUME Init PROVE RR!RRInit
    OBVIOUS
  <2>1. Booting
    BY ThreadsAssumption DEF Init, Booting
  <2>2. RunQueue = <<Idle>> /\ cur = Main /\ Asleep = {}
    BY <2>1, SchedInit, RunQueueIs
  <2> QED BY <2>2 DEF RR!RRInit
<1>2. SchedInv /\ [Next]_vars => [RR!RRNext]_(RR!rrvars)
  BY RoundRobinStep
<1> QED
  BY <1>1, <1>2, SchedInvariant, PTL DEF Spec, ImplementsRoundRobin, RR!RRSpec
=============================================================================
