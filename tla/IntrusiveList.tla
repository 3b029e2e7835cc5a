---------------------------- MODULE IntrusiveList ----------------------------
(***************************************************************************)
(* The doubly linked list of lib/src/list.c.  The code embeds a list_elem   *)
(* in the object it queues, so a "list" is nothing but the next and prev    *)
(* words of its two sentinels and of every object's element.  It is         *)
(* modelled the same way: a list value is a record of two functions over    *)
(* Node, and each operator performs the stores of the C function in their   *)
(* order, also when the element is already linked or is stale.              *)
(***************************************************************************)
EXTENDS Naturals, Sequences, FiniteSets

CONSTANTS
    Elem,       \* the objects that embed a list_elem
    HEAD, TAIL, \* the sentinels of struct list
    NULL

ASSUME SentinelAssumption ==
    /\ HEAD # TAIL
    /\ NULL \notin Elem \cup {HEAD, TAIL}
    /\ Elem \cap {HEAD, TAIL} = {}

Node == Elem \cup {HEAD, TAIL}

ListType == [next : [Node -> Node \cup {NULL}], prev : [Node -> Node \cup {NULL}]]

\* list_init on memory the C code has zeroed: no element is linked.
list_init ==
    [next |-> [n \in Node |-> IF n = HEAD THEN TAIL ELSE NULL],
     prev |-> [n \in Node |-> IF n = TAIL THEN HEAD ELSE NULL]]

\* prev_elem->prev->next = elem; elem->prev = prev_elem->prev;
\* elem->next = prev_elem; prev_elem->prev = elem
list_insert(l, p, e) ==
    [next |-> [l.next EXCEPT ![l.prev[p]] = e, ![e] = p],
     prev |-> [l.prev EXCEPT ![e] = l.prev[p], ![p] = e]]

list_remove(l, e) ==
    [next |-> [l.next EXCEPT ![l.prev[e]] = l.next[e]],
     prev |-> [l.prev EXCEPT ![l.next[e]] = l.prev[e]]]

list_append(l, e) == list_insert(l, TAIL, e)
list_push(l, e) == list_insert(l, l.next[HEAD], e)
list_empty(l) == l.next[HEAD] = TAIL

\* list_pop is a value and an effect; both are those of an empty list when
\* there is nothing to pop.
PopElem(l) == IF list_empty(l) THEN NULL ELSE l.next[HEAD]
PopRest(l) == IF list_empty(l) THEN l ELSE list_remove(l, l.next[HEAD])

-----------------------------------------------------------------------------
(* What a list value holds.                                                *)

\* The i-th node of a list whose elements are s, the sentinels included.
At(s, i) == IF i = 0 THEN HEAD ELSE IF i = Len(s) + 1 THEN TAIL ELSE s[i]

\* l links exactly the elements of s, in that order, forwards and backwards.
Holds(l, s) ==
    \A i \in 0..Len(s) :
        /\ l.next[At(s, i)] = At(s, i + 1)
        /\ l.prev[At(s, i + 1)] = At(s, i)

\* The ways to queue every member of the finite set S exactly once.
Orders(S) ==
    {s \in [1..Cardinality(S) -> S] :
        \A i, j \in 1..Cardinality(S) : s[i] = s[j] => i = j}

\* l is a queue of exactly the members of S.
Queues(l, S) == \E s \in Orders(S) : Holds(l, s)

\* The node reached after i steps of a forward walk from the first element,
\* which is how list_len, list_find and list_traversal go through a list.
Walk(l) ==
    LET walk[i \in Nat] ==
            IF i = 0 THEN l.next[HEAD]
            ELSE IF walk[i - 1] \in Elem THEN l.next[walk[i - 1]] ELSE walk[i - 1]
    IN  walk

\* The elements the walk meets before it stops at a sentinel or a wild
\* pointer; a walk longer than Elem has entered a cycle.
Items(l) ==
    LET walk == Walk(l)
        len == CHOOSE n \in 0..Cardinality(Elem) :
                  /\ \A i \in 0..(n - 1) : walk[i] \in Elem
                  /\ n < Cardinality(Elem) => walk[n] \notin Elem
    IN  [i \in 1..len |-> walk[i - 1]]
=============================================================================
