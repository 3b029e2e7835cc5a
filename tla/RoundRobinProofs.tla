--------------------------- MODULE RoundRobinProofs ---------------------------
(***************************************************************************)
(* A thread is in one place of the scheduler, for any set of threads and    *)
(* any order of its operations: on the CPU, once in the queue, or asleep.   *)
(* The locks rest on it, since a thread that sleeps takes no step.          *)
(***************************************************************************)
EXTENDS RoundRobin, SequenceTheorems, TLAPS

OnePlace ==
    /\ queue \in Seq(Thread) /\ running \in Thread /\ asleep \subseteq Thread
    /\ \A i, j \in 1..Len(queue) : queue[i] = queue[j] => i = j
    /\ \A i \in 1..Len(queue) : queue[i] # running /\ queue[i] \notin asleep
    /\ running \notin asleep

\* A thread put in front of a queue is its head, and the queue is the rest.
LEMMA FrontOfSeq ==
    ASSUME NEW S, NEW s \in Seq(S), NEW e \in S
    PROVE  <<e>> \o s # <<>> /\ Head(<<e>> \o s) = e /\ Tail(<<e>> \o s) = s
<1> DEFINE q == <<e>> \o s
<1>1. /\ q \in Seq(S) /\ Len(q) = 1 + Len(s) /\ Len(s) \in Nat
      /\ \A i \in 1..Len(q) : q[i] = IF i <= 1 THEN e ELSE s[i - 1]
  <2>1. <<e>> \in Seq(S) /\ Len(<<e>>) = 1 /\ <<e>>[1] = e
    OBVIOUS
  <2> QED BY <2>1, ConcatProperties
<1> HIDE DEF q
<1>2. q # <<>>
  BY <1>1, EmptySeq
<1>3. Head(q) = e
  BY <1>1, <1>2
<1>4. Tail(q) \in Seq(S) /\ Len(Tail(q)) = Len(s) /\ \A i \in 1..Len(s) : Tail(q)[i] = s[i]
  BY <1>1, <1>2, HeadTailProperties
<1>5. Tail(q) = s
  BY <1>4, SeqEqual
<1> QED BY <1>2, <1>3, <1>5 DEF q

LEMMA FrontBack ==
    ASSUME NEW S, NEW s \in Seq(S), s # <<>>
    PROVE  <<Head(s)>> \o Tail(s) = s
<1> DEFINE q == <<Head(s)>> \o Tail(s)
<1>1. /\ Head(s) \in S /\ Head(s) = s[1] /\ Tail(s) \in Seq(S) /\ Len(Tail(s)) = Len(s) - 1
      /\ Len(s) \in Nat \ {0} /\ \A i \in 1..Len(Tail(s)) : Tail(s)[i] = s[i + 1]
  BY HeadTailProperties, EmptySeq
<1>2. /\ q \in Seq(S) /\ Len(q) = Len(s)
      /\ \A i \in 1..Len(q) : q[i] = IF i <= 1 THEN s[1] ELSE Tail(s)[i - 1]
  <2>1. <<Head(s)>> \in Seq(S) /\ Len(<<Head(s)>>) = 1 /\ <<Head(s)>>[1] = s[1]
    BY <1>1
  <2> QED BY <1>1, <2>1, ConcatProperties
<1> HIDE DEF q
<1>3. \A i \in 1..Len(q) : q[i] = s[i]
  BY <1>1, <1>2
<1>4. q = s
  BY <1>2, <1>3, SeqEqual
<1> QED BY <1>4 DEF q

LEMMA PlaceInit == RRInit => OnePlace
BY ThreadAssumption DEF RRInit, OnePlace

LEMMA PlaceStart ==
    ASSUME OnePlace, NEW t \in Thread, Start(t)
    PROVE  OnePlace'
<1>1. /\ t # running /\ t \notin asleep /\ \A i \in 1..Len(queue) : queue[i] # t
      /\ queue' = Append(queue, t) /\ running' = running /\ asleep' = asleep
  BY DEF Start, Alive, Queued, OnePlace
<1> QED BY <1>1 DEF OnePlace

LEMMA PlaceRotate ==
    ASSUME OnePlace, Rotate
    PROVE  OnePlace'
<1> DEFINE q == Append(queue, running)
<1>1. running' = Head(q) /\ queue' = Tail(q) /\ asleep' = asleep
  BY DEF Rotate
<1>2. q \in Seq(Thread) /\ Len(q) = Len(queue) + 1 /\ Len(queue) \in Nat
      /\ \A i \in 1..Len(q) : q[i] = IF i = Len(queue) + 1 THEN running ELSE queue[i]
  BY AppendProperties DEF OnePlace
<1> HIDE DEF q
<1>3. /\ q \in Seq(Thread) /\ q # <<>>
      /\ \A i, j \in 1..Len(q) : q[i] = q[j] => i = j
      /\ \A i \in 1..Len(q) : q[i] \notin asleep
  <2>1. q # <<>>
    BY <1>2, EmptySeq
  <2>2. ASSUME NEW i \in 1..Len(q) PROVE q[i] \notin asleep
    BY <1>2 DEF OnePlace
  <2>3. ASSUME NEW i \in 1..Len(q), NEW j \in 1..Len(q), q[i] = q[j] PROVE i = j
    BY <1>2, <2>3 DEF OnePlace
  <2> QED BY <1>2, <2>1, <2>2, <2>3
<1>4. /\ Head(q) = q[1] /\ Head(q) \in Thread /\ Tail(q) \in Seq(Thread)
      /\ Len(Tail(q)) = Len(q) - 1 /\ \A i \in 1..Len(Tail(q)) : Tail(q)[i] = q[i + 1]
  BY <1>3, HeadTailProperties
<1>5. asleep \subseteq Thread
  BY DEF OnePlace
<1> QED BY <1>3, <1>1, <1>4, <1>5 DEF OnePlace

LEMMA PlaceSleep ==
    ASSUME OnePlace, Sleep
    PROVE  OnePlace'
<1>1. CASE queue # <<>>
  <2>1. /\ Head(queue) = queue[1] /\ Head(queue) \in Thread /\ Tail(queue) \in Seq(Thread)
        /\ Len(Tail(queue)) = Len(queue) - 1
        /\ \A i \in 1..Len(Tail(queue)) : Tail(queue)[i] = queue[i + 1]
    BY <1>1, HeadTailProperties DEF OnePlace
  <2>2. running' = Head(queue) /\ queue' = Tail(queue) /\ asleep' = asleep \cup {running}
    BY <1>1 DEF Sleep
  <2>3. Len(queue) \in Nat \ {0}
    BY <1>1, EmptySeq DEF OnePlace
  <2> QED BY <2>1, <2>2, <2>3 DEF OnePlace
<1>2. CASE queue = <<>>
  <2>1. running' = Idle /\ asleep' = (asleep \cup {running}) \ {Idle} /\ queue' = queue
    BY <1>2 DEF Sleep
  <2> QED BY <1>2, <2>1, ThreadAssumption DEF OnePlace
<1> QED BY <1>1, <1>2

LEMMA PlaceWake ==
    ASSUME OnePlace, NEW t, Wake(t)
    PROVE  OnePlace'
<1> DEFINE q == <<t>> \o queue
<1>1. t \in Thread /\ <<t>> \in Seq(Thread) /\ queue \in Seq(Thread) /\ Len(<<t>>) = 1 /\ <<t>>[1] = t
  BY DEF Wake, OnePlace
<1>2. q \in Seq(Thread) /\ Len(q) = 1 + Len(queue)
      /\ \A i \in 1..Len(q) : q[i] = IF i <= 1 THEN t ELSE queue[i - 1]
  BY <1>1, ConcatProperties
<1>3. t \in asleep /\ queue' = q /\ asleep' = asleep \ {t} /\ running' = running
  BY DEF Wake
<1> HIDE DEF q
<1>4. t # running /\ \A i \in 1..Len(queue) : queue[i] # t
  BY <1>3 DEF OnePlace
<1>5. ASSUME NEW i \in 1..Len(q), NEW j \in 1..Len(q), q[i] = q[j] PROVE i = j
  <2>1. CASE i = 1 \/ j = 1
    BY <1>1, <1>2, <1>4, <1>5, <2>1
  <2>2. CASE i # 1 /\ j # 1
    <3>1. i - 1 \in 1..Len(queue) /\ j - 1 \in 1..Len(queue) /\ queue[i - 1] = queue[j - 1]
      BY <1>1, <1>2, <1>5, <2>2
    <3> QED BY <3>1 DEF OnePlace
  <2> QED BY <2>1, <2>2
<1>6. ASSUME NEW i \in 1..Len(q) PROVE q[i] # running /\ q[i] \notin asleep \ {t}
  <2>1. CASE i = 1
    BY <1>2, <1>4, <2>1
  <2>2. CASE i # 1
    <3>1. i - 1 \in 1..Len(queue) /\ q[i] = queue[i - 1]
      BY <1>1, <1>2, <2>2
    <3> QED BY <3>1 DEF OnePlace
  <2> QED BY <2>1, <2>2
<1> QED BY <1>2, <1>3, <1>5, <1>6 DEF OnePlace

\* Any operation of the scheduler, or none, leaves every thread in one place.
LEMMA OnePlaceNext == OnePlace /\ [RRNext]_rrvars => OnePlace'
<1> SUFFICES ASSUME OnePlace, [RRNext]_rrvars PROVE OnePlace'
  OBVIOUS
<1>1. CASE UNCHANGED rrvars
  BY <1>1 DEF rrvars, OnePlace
<1> QED BY <1>1, PlaceStart, PlaceWake, PlaceRotate, PlaceSleep DEF RRNext

\* A thread is on the CPU, in the queue once, or asleep, at all times.
THEOREM OnePlaceHolds == RRSpec => []OnePlace
BY PlaceInit, OnePlaceNext, PTL DEF RRSpec
=============================================================================
