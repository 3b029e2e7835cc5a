----------------------------- MODULE MutexProofs -----------------------------
(***************************************************************************)
(* Exclusion of the spinlock and of the mutex, for any number of threads    *)
(* and whatever the scheduler does: that argument uses only that a step is  *)
(* taken by the running thread, never which thread that is.  Then what does *)
(* depend on the scheduler: a waiter stays in its frame while an unlock can *)
(* reach it, and the mutex implements BlockingMutex.                        *)
(***************************************************************************)
EXTENDS Mutex, RoundRobinProofs

\* What makes exclusion inductive: the labels a thread reaches agree with the
\* function it is in, and the owner it saw NULL is still NULL when it stores
\* itself there, because it holds the spinlock.
LabelsAgree ==
    \A t \in Thread :
        /\ pc[t] \in {"test", "take", "took", "park", "parked", "block", "cs"} => op[t] = "lock"
        /\ pc[t] \in {"clear", "pop", "wake", "release"} => op[t] = "unlock"
        /\ pc[t] = "take" => owner = NULL
        /\ pc[t] = "wake" => wakee[t] # NULL
ExclusionInv == TypeOK /\ pc[Idle] = "out" /\ LabelsAgree /\ SlockExclusion /\ MutualExclusion

\* A step of one thread leaves the label of every other alone.
LEMMA GoEffect ==
    ASSUME pc \in [Thread -> PcLabel], NEW t \in Thread, NEW a, NEW b, Go(t, a, b)
    PROVE  /\ pc[t] = a /\ pc'[t] = b
           /\ \A u \in Thread \ {t} : pc'[u] = pc[u]
           /\ b \in PcLabel => pc' \in [Thread -> PcLabel]
BY DEF Go

\* No thread has called either function yet.
LEMMA ExclusionInit == Init => ExclusionInv
BY ThreadAssumption, NullAssumption
   DEF Init, ExclusionInv, TypeOK, LabelsAgree, SlockExclusion, MutualExclusion,
       HoldsSlock, Owns, PcLabel, Locker

\* Steps that do not touch the lock: the scheduler's, and the idle thread's.
LEMMA ExclusionStutter == ExclusionInv /\ UNCHANGED lockvars => ExclusionInv'
BY DEF lockvars, ExclusionInv, TypeOK, LabelsAgree, SlockExclusion, MutualExclusion,
       HoldsSlock, Owns

\* The three ways a step can affect who is inside the spinlock.
LEMMA SlockKept ==
    ASSUME SlockExclusion, NEW t \in Thread, \A u \in Thread \ {t} : pc'[u] = pc[u],
           HoldsSlock(t)' <=> HoldsSlock(t), slock' = slock
    PROVE  SlockExclusion'
BY DEF SlockExclusion, HoldsSlock

LEMMA SlockTaken ==
    ASSUME SlockExclusion, NEW t \in Thread, \A u \in Thread \ {t} : pc'[u] = pc[u],
           HoldsSlock(t)', slock # 1, slock' = 1
    PROVE  SlockExclusion'
BY DEF SlockExclusion, HoldsSlock

LEMMA SlockReleased ==
    ASSUME SlockExclusion, NEW t \in Thread, \A u \in Thread \ {t} : pc'[u] = pc[u],
           HoldsSlock(t), ~HoldsSlock(t)', slock' = 0
    PROVE  SlockExclusion'
BY DEF SlockExclusion, HoldsSlock

\* A step that does not store to owner keeps exclusion of the mutex when it
\* leaves the thread's claim to it alone.
LEMMA OwnerKept ==
    ASSUME MutualExclusion, NEW t \in Thread, \A u \in Thread \ {t} : pc'[u] = pc[u] /\ op'[u] = op[u],
           Owns(t)' <=> Owns(t), owner' = owner
    PROVE  MutualExclusion'
BY DEF MutualExclusion, Owns

\* Labels agree after a step that does not change owner, if the thread's own do.
LEMMA LabelsKept ==
    ASSUME LabelsAgree, NEW t \in Thread,
           \A u \in Thread \ {t} : pc'[u] = pc[u] /\ op'[u] = op[u] /\ wakee'[u] = wakee[u],
           owner' = owner,
           pc'[t] \in {"test", "take", "took", "park", "parked", "block", "cs"} => op'[t] = "lock",
           pc'[t] \in {"clear", "pop", "wake", "release"} => op'[t] = "unlock",
           pc'[t] = "take" => owner = NULL,
           pc'[t] = "wake" => wakee'[t] # NULL
    PROVE  LabelsAgree'
BY DEF LabelsAgree

\* Every step of a thread through mutex_lock and mutex_unlock keeps exclusion.
LEMMA ExclusionStep ==
    ASSUME ExclusionInv, NEW t \in Thread, Step(t)
    PROVE  ExclusionInv'
<1>1. t # Idle /\ t \in Locker /\ NULL \notin Thread
  BY NullAssumption
  DEF ExclusionInv, Step, SpinXchg, SpinTest, SpinYield, Enter, LockTest, LockTake, LockTook,
      LockPark, LockParked, LockBlock, Leave, UnlockClear, UnlockPop, UnlockWake,
      UnlockRelease, Go, Locker
<1>2. /\ TypeOK /\ pc[Idle] = "out" /\ LabelsAgree /\ SlockExclusion /\ MutualExclusion
      /\ pc \in [Thread -> PcLabel] /\ op \in [Thread -> {"lock", "unlock"}]
      /\ wakee \in [Thread -> Locker \cup {NULL}] /\ slock \in {0, 1} /\ wait_list \in Seq(Locker)
      /\ owner \in Locker \cup {NULL}
  BY DEF ExclusionInv, TypeOK
<1>3. CASE SpinXchg(t)
  <2>1. /\ \A u \in Thread \ {t} : pc'[u] = pc[u] /\ op'[u] = op[u] /\ wakee'[u] = wakee[u]
        /\ pc' \in [Thread -> PcLabel]
    BY <1>1, <1>2, <1>3, GoEffect DEF SpinXchg, Inside, PcLabel
  <2>2. TypeOK'
    BY <1>1, <1>2, <1>3, <2>1 DEF SpinXchg, Inside, TypeOK
  <2>3. LabelsAgree'
    BY <1>1, <1>2, <1>3, <2>1, GoEffect, LabelsKept DEF SpinXchg, Inside, LabelsAgree
  <2>4. SlockExclusion'
    <3>1. CASE slock = 1
      BY <1>2, <1>3, <2>1, <3>1, GoEffect, SlockKept DEF SpinXchg, Inside, HoldsSlock
    <3>2. CASE slock # 1
      <4>1. pc'[t] \in {"test", "clear"} /\ slock' = 1
        BY <1>2, <1>3, <3>2, GoEffect DEF SpinXchg, Inside
      <4> QED
        BY <1>2, <2>1, <3>2, <4>1, SlockTaken DEF HoldsSlock
    <3> QED
      BY <3>1, <3>2
  <2>5. MutualExclusion'
    BY <1>2, <1>3, <2>1, GoEffect, OwnerKept DEF SpinXchg, Inside, Owns, LabelsAgree
  <2> QED
    BY <1>1, <1>2, <2>1, <2>2, <2>3, <2>4, <2>5, ThreadAssumption DEF ExclusionInv
<1>4. CASE SpinTest(t)
  <2>1. /\ \A u \in Thread \ {t} : pc'[u] = pc[u] /\ op'[u] = op[u] /\ wakee'[u] = wakee[u]
        /\ pc' \in [Thread -> PcLabel]
    BY <1>1, <1>2, <1>4, GoEffect DEF SpinTest, PcLabel
  <2>2. TypeOK'
    BY <1>1, <1>2, <1>4, <2>1 DEF SpinTest, TypeOK
  <2>3. LabelsAgree'
    BY <1>1, <1>2, <1>4, <2>1, GoEffect, LabelsKept DEF SpinTest, LabelsAgree
  <2>4. SlockExclusion'
    BY <1>2, <1>4, <2>1, GoEffect, SlockKept DEF SpinTest, HoldsSlock
  <2>5. MutualExclusion'
    BY <1>2, <1>4, <2>1, GoEffect, OwnerKept DEF SpinTest, Owns, LabelsAgree
  <2> QED
    BY <1>1, <1>2, <2>1, <2>2, <2>3, <2>4, <2>5, ThreadAssumption DEF ExclusionInv
<1>5. CASE SpinYield(t)
  <2>1. /\ \A u \in Thread \ {t} : pc'[u] = pc[u] /\ op'[u] = op[u] /\ wakee'[u] = wakee[u]
        /\ pc' \in [Thread -> PcLabel]
    BY <1>1, <1>2, <1>5, GoEffect DEF SpinYield, PcLabel
  <2>2. TypeOK'
    BY <1>1, <1>2, <1>5, <2>1 DEF SpinYield, TypeOK
  <2>3. LabelsAgree'
    BY <1>1, <1>2, <1>5, <2>1, GoEffect, LabelsKept DEF SpinYield, LabelsAgree
  <2>4. SlockExclusion'
    BY <1>2, <1>5, <2>1, GoEffect, SlockKept DEF SpinYield, HoldsSlock
  <2>5. MutualExclusion'
    BY <1>2, <1>5, <2>1, GoEffect, OwnerKept DEF SpinYield, Owns, LabelsAgree
  <2> QED
    BY <1>1, <1>2, <2>1, <2>2, <2>3, <2>4, <2>5, ThreadAssumption DEF ExclusionInv
<1>6. CASE Enter(t)
  <2>1. /\ \A u \in Thread \ {t} : pc'[u] = pc[u] /\ op'[u] = op[u] /\ wakee'[u] = wakee[u]
        /\ pc' \in [Thread -> PcLabel]
    BY <1>1, <1>2, <1>6, GoEffect DEF Enter, PcLabel
  <2>2. TypeOK'
    BY <1>1, <1>2, <1>6, <2>1 DEF Enter, TypeOK
  <2>3. LabelsAgree'
    BY <1>1, <1>2, <1>6, <2>1, GoEffect, LabelsKept DEF Enter, LabelsAgree
  <2>4. SlockExclusion'
    BY <1>2, <1>6, <2>1, GoEffect, SlockKept DEF Enter, HoldsSlock
  <2>5. MutualExclusion'
    BY <1>2, <1>6, <2>1, GoEffect, OwnerKept DEF Enter, Owns, LabelsAgree
  <2> QED
    BY <1>1, <1>2, <2>1, <2>2, <2>3, <2>4, <2>5, ThreadAssumption DEF ExclusionInv
<1>7. CASE LockTest(t)
  <2>1. /\ \A u \in Thread \ {t} : pc'[u] = pc[u] /\ op'[u] = op[u] /\ wakee'[u] = wakee[u]
        /\ pc' \in [Thread -> PcLabel]
    BY <1>1, <1>2, <1>7, GoEffect DEF LockTest, PcLabel
  <2>2. TypeOK'
    BY <1>1, <1>2, <1>7, <2>1 DEF LockTest, TypeOK
  <2>3. LabelsAgree'
    BY <1>1, <1>2, <1>7, <2>1, GoEffect, LabelsKept DEF LockTest, LabelsAgree
  <2>4. SlockExclusion'
    BY <1>2, <1>7, <2>1, GoEffect, SlockKept DEF LockTest, HoldsSlock
  <2>5. MutualExclusion'
    BY <1>2, <1>7, <2>1, GoEffect, OwnerKept DEF LockTest, Owns, LabelsAgree
  <2> QED
    BY <1>1, <1>2, <2>1, <2>2, <2>3, <2>4, <2>5, ThreadAssumption DEF ExclusionInv
<1>8. CASE LockTake(t)
  <2>1. /\ \A u \in Thread \ {t} : pc'[u] = pc[u] /\ op'[u] = op[u] /\ wakee'[u] = wakee[u]
        /\ pc' \in [Thread -> PcLabel]
    BY <1>1, <1>2, <1>8, GoEffect DEF LockTake, PcLabel
  <2>2. TypeOK'
    BY <1>1, <1>2, <1>8, <2>1 DEF LockTake, TypeOK
  <2>3. LabelsAgree'
    <3>1. pc[t] = "take" /\ pc'[t] = "took" /\ op' = op
      BY <1>2, <1>8, GoEffect DEF LockTake
    <3>2. \A u \in Thread \ {t} : pc[u] # "take"
      BY <1>2, <3>1 DEF SlockExclusion, HoldsSlock
    <3> QED
      BY <1>2, <2>1, <3>1, <3>2 DEF LabelsAgree
  <2>4. SlockExclusion'
    BY <1>2, <1>8, <2>1, GoEffect, SlockKept DEF LockTake, HoldsSlock
  <2>5. MutualExclusion'
    <3>1. pc[t] = "take" /\ pc'[t] = "took" /\ op' = op /\ owner' = t
      BY <1>2, <1>8, GoEffect DEF LockTake
    <3>2. owner = NULL
      BY <1>2, <3>1 DEF LabelsAgree
    <3> QED
      BY <1>1, <1>2, <2>1, <3>1, <3>2 DEF MutualExclusion, Owns
  <2> QED
    BY <1>1, <1>2, <2>1, <2>2, <2>3, <2>4, <2>5, ThreadAssumption DEF ExclusionInv
<1>9. CASE LockTook(t)
  <2>1. /\ \A u \in Thread \ {t} : pc'[u] = pc[u] /\ op'[u] = op[u] /\ wakee'[u] = wakee[u]
        /\ pc' \in [Thread -> PcLabel]
    BY <1>1, <1>2, <1>9, GoEffect DEF LockTook, PcLabel
  <2>2. TypeOK'
    BY <1>1, <1>2, <1>9, <2>1 DEF LockTook, TypeOK
  <2>3. LabelsAgree'
    BY <1>1, <1>2, <1>9, <2>1, GoEffect, LabelsKept DEF LockTook, LabelsAgree
  <2>4. SlockExclusion'
    BY <1>2, <1>9, <2>1, GoEffect, SlockReleased DEF LockTook, HoldsSlock
  <2>5. MutualExclusion'
    BY <1>2, <1>9, <2>1, GoEffect, OwnerKept DEF LockTook, Owns, LabelsAgree
  <2> QED
    BY <1>1, <1>2, <2>1, <2>2, <2>3, <2>4, <2>5, ThreadAssumption DEF ExclusionInv
<1>10. CASE LockPark(t)
  <2>1. /\ \A u \in Thread \ {t} : pc'[u] = pc[u] /\ op'[u] = op[u] /\ wakee'[u] = wakee[u]
        /\ pc' \in [Thread -> PcLabel]
    BY <1>1, <1>2, <1>10, GoEffect DEF LockPark, PcLabel
  <2>2. TypeOK'
    BY <1>1, <1>2, <1>10, <2>1 DEF LockPark, TypeOK
  <2>3. LabelsAgree'
    BY <1>1, <1>2, <1>10, <2>1, GoEffect, LabelsKept DEF LockPark, LabelsAgree
  <2>4. SlockExclusion'
    BY <1>2, <1>10, <2>1, GoEffect, SlockKept DEF LockPark, HoldsSlock
  <2>5. MutualExclusion'
    BY <1>2, <1>10, <2>1, GoEffect, OwnerKept DEF LockPark, Owns, LabelsAgree
  <2> QED
    BY <1>1, <1>2, <2>1, <2>2, <2>3, <2>4, <2>5, ThreadAssumption DEF ExclusionInv
<1>11. CASE LockParked(t)
  <2>1. /\ \A u \in Thread \ {t} : pc'[u] = pc[u] /\ op'[u] = op[u] /\ wakee'[u] = wakee[u]
        /\ pc' \in [Thread -> PcLabel]
    BY <1>1, <1>2, <1>11, GoEffect DEF LockParked, PcLabel
  <2>2. TypeOK'
    BY <1>1, <1>2, <1>11, <2>1 DEF LockParked, TypeOK
  <2>3. LabelsAgree'
    BY <1>1, <1>2, <1>11, <2>1, GoEffect, LabelsKept DEF LockParked, LabelsAgree
  <2>4. SlockExclusion'
    BY <1>2, <1>11, <2>1, GoEffect, SlockReleased DEF LockParked, HoldsSlock
  <2>5. MutualExclusion'
    BY <1>2, <1>11, <2>1, GoEffect, OwnerKept DEF LockParked, Owns, LabelsAgree
  <2> QED
    BY <1>1, <1>2, <2>1, <2>2, <2>3, <2>4, <2>5, ThreadAssumption DEF ExclusionInv
<1>12. CASE LockBlock(t)
  <2>1. /\ \A u \in Thread \ {t} : pc'[u] = pc[u] /\ op'[u] = op[u] /\ wakee'[u] = wakee[u]
        /\ pc' \in [Thread -> PcLabel]
    BY <1>1, <1>2, <1>12, GoEffect DEF LockBlock, PcLabel
  <2>2. TypeOK'
    BY <1>1, <1>2, <1>12, <2>1 DEF LockBlock, TypeOK
  <2>3. LabelsAgree'
    BY <1>1, <1>2, <1>12, <2>1, GoEffect, LabelsKept DEF LockBlock, LabelsAgree
  <2>4. SlockExclusion'
    BY <1>2, <1>12, <2>1, GoEffect, SlockKept DEF LockBlock, HoldsSlock
  <2>5. MutualExclusion'
    BY <1>2, <1>12, <2>1, GoEffect, OwnerKept DEF LockBlock, Owns, LabelsAgree
  <2> QED
    BY <1>1, <1>2, <2>1, <2>2, <2>3, <2>4, <2>5, ThreadAssumption DEF ExclusionInv
<1>13. CASE Leave(t)
  <2>1. /\ \A u \in Thread \ {t} : pc'[u] = pc[u] /\ op'[u] = op[u] /\ wakee'[u] = wakee[u]
        /\ pc' \in [Thread -> PcLabel]
    BY <1>1, <1>2, <1>13, GoEffect DEF Leave, PcLabel
  <2>2. TypeOK'
    BY <1>1, <1>2, <1>13, <2>1 DEF Leave, TypeOK
  <2>3. LabelsAgree'
    BY <1>1, <1>2, <1>13, <2>1, GoEffect, LabelsKept DEF Leave, LabelsAgree
  <2>4. SlockExclusion'
    BY <1>2, <1>13, <2>1, GoEffect, SlockKept DEF Leave, HoldsSlock
  <2>5. MutualExclusion'
    BY <1>2, <1>13, <2>1, GoEffect, OwnerKept DEF Leave, Owns, LabelsAgree
  <2> QED
    BY <1>1, <1>2, <2>1, <2>2, <2>3, <2>4, <2>5, ThreadAssumption DEF ExclusionInv
<1>14. CASE UnlockClear(t)
  <2>1. /\ \A u \in Thread \ {t} : pc'[u] = pc[u] /\ op'[u] = op[u] /\ wakee'[u] = wakee[u]
        /\ pc' \in [Thread -> PcLabel]
    BY <1>1, <1>2, <1>14, GoEffect DEF UnlockClear, PcLabel
  <2>2. TypeOK'
    BY <1>1, <1>2, <1>14, <2>1 DEF UnlockClear, TypeOK
  <2>3. LabelsAgree'
    BY <1>1, <1>2, <1>14, <2>1, GoEffect, LabelsKept DEF UnlockClear, LabelsAgree
  <2>4. SlockExclusion'
    BY <1>2, <1>14, <2>1, GoEffect, SlockKept DEF UnlockClear, HoldsSlock
  <2>5. MutualExclusion'
    <3>1. pc[t] = "clear" /\ pc'[t] = "pop" /\ op' = op /\ owner' = NULL
      BY <1>2, <1>14, GoEffect DEF UnlockClear
    <3>2. owner = t
      BY <1>2, <3>1 DEF MutualExclusion, Owns
    <3> QED
      BY <1>1, <1>2, <2>1, <3>1, <3>2 DEF MutualExclusion, Owns
  <2> QED
    BY <1>1, <1>2, <2>1, <2>2, <2>3, <2>4, <2>5, ThreadAssumption DEF ExclusionInv
<1>15. CASE UnlockPop(t)
  <2>1. /\ \A u \in Thread \ {t} : pc'[u] = pc[u] /\ op'[u] = op[u] /\ wakee'[u] = wakee[u]
        /\ pc' \in [Thread -> PcLabel]
    BY <1>1, <1>2, <1>15, GoEffect DEF UnlockPop, PcLabel
  <2>1a. wait_list # <<>> => Head(wait_list) \in Locker /\ Tail(wait_list) \in Seq(Locker)
    BY <1>2, HeadTailProperties
  <2>2. TypeOK'
    BY <1>1, <1>2, <1>15, <2>1, <2>1a DEF UnlockPop, TypeOK
  <2>3. LabelsAgree'
    <3>1. pc[t] = "pop" /\ op[t] = "unlock" /\ op' = op /\ owner' = owner
      BY <1>2, <1>15, GoEffect DEF UnlockPop, LabelsAgree
    <3>2. pc'[t] = "release" \/ (pc'[t] = "wake" /\ wakee'[t] # NULL)
      BY <1>1, <1>2, <1>15, <2>1a, GoEffect DEF UnlockPop, Locker
    <3> QED
      BY <1>2, <2>1, <3>1, <3>2, LabelsKept
  <2>4. SlockExclusion'
    BY <1>2, <1>15, <2>1, GoEffect, SlockKept DEF UnlockPop, HoldsSlock
  <2>5. MutualExclusion'
    BY <1>2, <1>15, <2>1, GoEffect, OwnerKept DEF UnlockPop, Owns, LabelsAgree
  <2> QED
    BY <1>1, <1>2, <2>1, <2>2, <2>3, <2>4, <2>5, ThreadAssumption DEF ExclusionInv
<1>16. CASE UnlockWake(t)
  <2>1. /\ \A u \in Thread \ {t} : pc'[u] = pc[u] /\ op'[u] = op[u] /\ wakee'[u] = wakee[u]
        /\ pc' \in [Thread -> PcLabel]
    BY <1>1, <1>2, <1>16, GoEffect DEF UnlockWake, PcLabel
  <2>2. TypeOK'
    BY <1>1, <1>2, <1>16, <2>1 DEF UnlockWake, TypeOK
  <2>3. LabelsAgree'
    BY <1>1, <1>2, <1>16, <2>1, GoEffect, LabelsKept DEF UnlockWake, LabelsAgree
  <2>4. SlockExclusion'
    BY <1>2, <1>16, <2>1, GoEffect, SlockKept DEF UnlockWake, HoldsSlock
  <2>5. MutualExclusion'
    BY <1>2, <1>16, <2>1, GoEffect, OwnerKept DEF UnlockWake, Owns, LabelsAgree
  <2> QED
    BY <1>1, <1>2, <2>1, <2>2, <2>3, <2>4, <2>5, ThreadAssumption DEF ExclusionInv
<1>17. CASE UnlockRelease(t)
  <2>1. /\ \A u \in Thread \ {t} : pc'[u] = pc[u] /\ op'[u] = op[u] /\ wakee'[u] = wakee[u]
        /\ pc' \in [Thread -> PcLabel]
    BY <1>1, <1>2, <1>17, GoEffect DEF UnlockRelease, PcLabel
  <2>2. TypeOK'
    BY <1>1, <1>2, <1>17, <2>1 DEF UnlockRelease, TypeOK
  <2>3. LabelsAgree'
    BY <1>1, <1>2, <1>17, <2>1, GoEffect, LabelsKept DEF UnlockRelease, LabelsAgree
  <2>4. SlockExclusion'
    BY <1>2, <1>17, <2>1, GoEffect, SlockReleased DEF UnlockRelease, HoldsSlock
  <2>5. MutualExclusion'
    BY <1>2, <1>17, <2>1, GoEffect, OwnerKept DEF UnlockRelease, Owns, LabelsAgree
  <2> QED
    BY <1>1, <1>2, <2>1, <2>2, <2>3, <2>4, <2>5, ThreadAssumption DEF ExclusionInv
<1> QED
  BY <1>3, <1>4, <1>5, <1>6, <1>7, <1>8, <1>9, <1>10, <1>11, <1>12, <1>13, <1>14, <1>15, <1>16, <1>17 DEF Step

\* Every step of the system does.
LEMMA ExclusionNext == ExclusionInv /\ [Next]_vars => ExclusionInv'
<1> SUFFICES ASSUME ExclusionInv, [Next]_vars PROVE ExclusionInv'
  OBVIOUS
<1>1. ASSUME NEW t \in Thread, Step(t) PROVE ExclusionInv'
  BY <1>1, ExclusionStep
<1>2. CASE UNCHANGED lockvars
  BY <1>2, ExclusionStutter
<1> QED
  BY <1>1, <1>2 DEF Next, Spawn, IdleBlock, Preempt, vars

\* The strengthened invariant.
THEOREM ExclusionInvariant == Spec => []ExclusionInv
BY ExclusionInit, ExclusionNext, PTL DEF Spec

\* At most one thread is inside the spinlock, and its word tells.
THEOREM SlockExclusionHolds == Spec => []SlockExclusion
<1>1. ExclusionInv => SlockExclusion
  BY DEF ExclusionInv
<1> QED
  BY <1>1, ExclusionInvariant, PTL

\* At most one thread is inside the mutex, and it is the owner.
THEOREM MutualExclusionHolds == Spec => []MutualExclusion
<1>1. ExclusionInv => MutualExclusion
  BY DEF ExclusionInv
<1> QED
  BY <1>1, ExclusionInvariant, PTL

\* The fields of the mutex and of its users keep their types.
THEOREM MutexTypeCorrect == Spec => []TypeOK
<1>1. ExclusionInv => TypeOK
  BY DEF ExclusionInv
<1> QED
  BY <1>1, ExclusionInvariant, PTL

-----------------------------------------------------------------------------
(* The waiters.                                                            *)

\* A thread between its list_append and its return from kthread_block.
Waiting(w) == op[w] = "lock" /\ (pc[w] \in {"parked", "block"} \/ (pc[w] = "xchg" /\ w \in asleep))

WaitersWait ==
    /\ \A i, j \in 1..Len(wait_list) : wait_list[i] = wait_list[j] => i = j
    /\ \A i \in 1..Len(wait_list) : Waiting(wait_list[i])
\* mutex_unlock has a task in its local variable only while it holds the
\* spinlock, and has unlinked its waiter.
WakeesWait ==
    \A t \in Thread :
        /\ wakee[t] # NULL <=> pc[t] = "wake"
        /\ pc[t] = "wake" => /\ Waiting(wakee[t])
                             /\ \A i \in 1..Len(wait_list) : wait_list[i] # wakee[t]
WaitInv == ExclusionInv /\ OnePlace /\ WaitersWait /\ WakeesWait

\* What a step of the lock functions, or of the scheduler under them, asks of
\* RoundRobin is one of its operations.
LEMMA NextOnScheduler == OnePlace /\ [Next]_vars => [RRNext]_rrvars
<1> SUFFICES ASSUME OnePlace, [Next]_vars PROVE [RRNext]_rrvars
  OBVIOUS
<1>1. ASSUME NEW t \in Thread, UnlockWake(t) PROVE [RRNext]_rrvars
  <2>1. wakee[t] \in asleep => wakee[t] \in Thread
    BY DEF OnePlace
  <2> QED BY <1>1, <2>1 DEF UnlockWake, RRNext
<1>2. ASSUME NEW t \in Thread, Step(t), ~UnlockWake(t) PROVE UNCHANGED rrvars \/ Rotate \/ Sleep
  BY <1>2
  DEF Step, SpinXchg, SpinTest, SpinYield, Enter, LockTest, LockTake, LockTook, LockPark,
      LockParked, LockBlock, Leave, UnlockClear, UnlockPop, UnlockRelease
<1>3. (\E t \in Thread : Step(t)) \/ UNCHANGED rrvars \/ Rotate \/ Sleep \/ \E t \in Thread : Start(t)
  BY DEF Next, Spawn, IdleBlock, Preempt, vars
<1> QED
  BY <1>1, <1>2, <1>3 DEF RRNext

\* A step of t that leaves the list and every wakee alone keeps all waiters
\* waiting, if nobody is woken and t stays a waiter when it was one.
LEMMA WaitersKept ==
    ASSUME WaitInv, NEW t \in Thread, t \notin asleep,
           \A u \in Thread \ {t} : pc'[u] = pc[u] /\ op'[u] = op[u],
           wait_list' = wait_list, wakee' = wakee, asleep \ {Idle} \subseteq asleep',
           pc'[t] = "wake" <=> pc[t] = "wake",
           pc[t] \in {"parked", "block"} => Waiting(t)'
    PROVE  WaitersWait' /\ WakeesWait'
<1>1. /\ wait_list \in Seq(Locker) /\ wakee \in [Thread -> Locker \cup {NULL}] /\ pc[Idle] = "out"
      /\ WaitersWait /\ WakeesWait /\ \A i \in 1..Len(wait_list) : wait_list[i] \in Locker
  BY ElementOfSeq DEF WaitInv, ExclusionInv, TypeOK
<1>2. ASSUME NEW w \in Locker, Waiting(w) PROVE Waiting(w)'
  BY <1>2 DEF Waiting, Locker
<1>3. WaitersWait'
  BY <1>1, <1>2 DEF WaitersWait
<1>4. WakeesWait'
  BY <1>1, <1>2 DEF WakeesWait
<1> QED BY <1>3, <1>4

\* The steps that change neither the list nor a wakee.
LEMMA WaitersQuiet ==
    ASSUME WaitInv, NEW t \in Thread,
           \/ SpinXchg(t) \/ SpinTest(t) \/ SpinYield(t) \/ Enter(t) \/ LockTest(t) \/ LockTake(t)
           \/ LockTook(t) \/ LockParked(t) \/ LockBlock(t) \/ Leave(t) \/ UnlockClear(t)
           \/ UnlockRelease(t)
    PROVE  WaitersWait' /\ WakeesWait'
<1>1. /\ pc \in [Thread -> PcLabel] /\ op \in [Thread -> {"lock", "unlock"}]
      /\ OnePlace /\ LabelsAgree
  BY DEF WaitInv, ExclusionInv, TypeOK
<1>2. running = t /\ t \notin asleep
  BY <1>1
  DEF OnePlace, SpinXchg, SpinTest, SpinYield, Enter, LockTest, LockTake, LockTook, LockParked,
      LockBlock, Leave, UnlockClear, UnlockRelease, Go
<1>3. wait_list' = wait_list /\ wakee' = wakee
  BY DEF SpinXchg, SpinTest, SpinYield, Enter, LockTest, LockTake, LockTook, LockParked,
      LockBlock, Leave, UnlockClear, UnlockRelease
<1>4. \A u \in Thread \ {t} : pc'[u] = pc[u] /\ op'[u] = op[u]
  BY <1>1
  DEF SpinXchg, SpinTest, SpinYield, Enter, LockTest, LockTake, LockTook, LockParked,
      LockBlock, Leave, UnlockClear, UnlockRelease, Go
<1>5. asleep \ {Idle} \subseteq asleep'
  BY DEF SpinXchg, SpinTest, SpinYield, Enter, LockTest, LockTake, LockTook, LockParked,
      LockBlock, Leave, UnlockClear, UnlockRelease, Rotate, Sleep, rrvars
<1>6. pc[t] # "wake" /\ pc'[t] # "wake"
  BY <1>1
  DEF SpinXchg, SpinTest, SpinYield, Enter, LockTest, LockTake, LockTook, LockParked,
      LockBlock, Leave, UnlockClear, UnlockRelease, Go, Inside
<1>7. ASSUME pc[t] \in {"parked", "block"} PROVE Waiting(t)'
  <2>1. op[t] = "lock" /\ op' = op /\ (LockParked(t) \/ LockBlock(t))
    BY <1>1, <1>7
    DEF LabelsAgree, SpinXchg, SpinTest, SpinYield, Enter, LockTest, LockTake, LockTook, LockParked,
        LockBlock, Leave, UnlockClear, UnlockRelease, Go
  <2>2. CASE LockParked(t)
    BY <1>1, <2>1, <2>2, GoEffect DEF LockParked, Waiting
  <2>3. CASE LockBlock(t)
    <3>1. pc'[t] = "xchg" /\ Sleep
      BY <1>1, <2>3, GoEffect DEF LockBlock
    <3>2. t # Idle
      BY <1>7 DEF WaitInv, ExclusionInv
    <3>3. t \in asleep'
      BY <1>2, <3>1, <3>2 DEF Sleep
    <3> QED BY <2>1, <3>1, <3>3 DEF Waiting
  <2> QED BY <2>1, <2>2, <2>3
<1> QED
  BY <1>2, <1>3, <1>4, <1>5, <1>6, <1>7, WaitersKept

\* list_append links a thread that is not on the list, nor being woken.
LEMMA WaitersPark ==
    ASSUME WaitInv, NEW t \in Thread, LockPark(t)
    PROVE  WaitersWait' /\ WakeesWait'
<1>1. /\ pc \in [Thread -> PcLabel] /\ op \in [Thread -> {"lock", "unlock"}] /\ OnePlace
      /\ LabelsAgree /\ SlockExclusion /\ wait_list \in Seq(Locker) /\ pc[Idle] = "out"
      /\ WaitersWait /\ WakeesWait
  BY DEF WaitInv, ExclusionInv, TypeOK
<1>2. /\ running = t /\ t \notin asleep /\ pc[t] = "park" /\ pc'[t] = "parked" /\ op[t] = "lock"
      /\ \A u \in Thread \ {t} : pc'[u] = pc[u]
      /\ op' = op /\ wakee' = wakee /\ asleep' = asleep
  BY <1>1, GoEffect DEF LockPark, Go, OnePlace, LabelsAgree, rrvars
<1>3. t \in Locker /\ t # Idle
  BY <1>1, <1>2 DEF Locker
<1>4. /\ wait_list' \in Seq(Locker) /\ Len(wait_list') = Len(wait_list) + 1 /\ Len(wait_list) \in Nat
      /\ \A i \in 1..Len(wait_list) : wait_list'[i] = wait_list[i] /\ wait_list[i] \in Locker
      /\ wait_list'[Len(wait_list) + 1] = t
  BY <1>1, <1>3, AppendProperties, ElementOfSeq, LenProperties DEF LockPark
<1>5. ASSUME NEW w, Waiting(w) PROVE w # t /\ (w \in Locker => Waiting(w)')
  BY <1>2, <1>5 DEF Waiting, Locker
<1>6. Waiting(t)'
  BY <1>2 DEF Waiting
<1>7. WaitersWait'
  <2>1. \A i \in 1..Len(wait_list) : wait_list[i] # t /\ Waiting(wait_list[i])'
    BY <1>1, <1>4, <1>5 DEF WaitersWait
  <2>2. ASSUME NEW i \in 1..Len(wait_list'), NEW j \in 1..Len(wait_list'),
               wait_list'[i] = wait_list'[j]
        PROVE  i = j
    BY <1>1, <1>4, <2>1, <2>2 DEF WaitersWait
  <2>3. ASSUME NEW i \in 1..Len(wait_list') PROVE Waiting(wait_list[i])'
    <3>1. CASE i = Len(wait_list) + 1
      BY <1>4, <1>6, <3>1 DEF Waiting
    <3>2. CASE i # Len(wait_list) + 1
      <4>1. i \in 1..Len(wait_list) /\ wait_list'[i] = wait_list[i]
        BY <1>4, <3>2
      <4> QED BY <2>1, <4>1 DEF Waiting
    <3> QED BY <3>1, <3>2
  <2> QED BY <2>2, <2>3 DEF WaitersWait
<1>8. WakeesWait'
  <2>1. \A u \in Thread : pc[u] # "wake" /\ pc'[u] # "wake"
    BY <1>1, <1>2 DEF SlockExclusion, HoldsSlock
  <2> QED BY <1>1, <1>2, <2>1 DEF WakeesWait
<1> QED BY <1>7, <1>8

\* mutex_unlock unlinks the first waiter, which goes on waiting.
LEMMA WaitersPop ==
    ASSUME WaitInv, NEW t \in Thread, UnlockPop(t)
    PROVE  WaitersWait' /\ WakeesWait'
<1>1. /\ pc \in [Thread -> PcLabel] /\ wakee \in [Thread -> Locker \cup {NULL}]
      /\ SlockExclusion /\ wait_list \in Seq(Locker) /\ WaitersWait /\ WakeesWait
  BY DEF WaitInv, ExclusionInv, TypeOK
<1>2. /\ pc[t] = "pop" /\ \A u \in Thread \ {t} : pc'[u] = pc[u]
      /\ op' = op /\ asleep' = asleep /\ pc'[t] = IF wait_list = <<>> THEN "release" ELSE "wake"
  BY <1>1, GoEffect DEF UnlockPop, rrvars
<1>3. \A w : Waiting(w) => w # t
  BY <1>2 DEF Waiting
<1>4. \A w \in Thread : Waiting(w) => Waiting(w)'
  BY <1>2, <1>3 DEF Waiting
<1>5. \A u \in Thread \ {t} : pc[u] # "wake" /\ pc'[u] # "wake"
  BY <1>1, <1>2 DEF SlockExclusion, HoldsSlock
<1>6. CASE wait_list = <<>>
  <2>1. wait_list' = wait_list /\ wakee' = wakee
    BY <1>6 DEF UnlockPop
  <2>2. WaitersWait'
    BY <1>1, <1>6, <2>1, EmptySeq DEF WaitersWait
  <2>3. WakeesWait'
    BY <1>1, <1>2, <1>5, <1>6, <2>1 DEF WakeesWait
  <2> QED BY <2>2, <2>3
<1>7. CASE wait_list # <<>>
  <2>0. PICK w \in Locker : w = Head(wait_list)
    BY <1>1, <1>7, HeadTailProperties
  <2>1. /\ w = wait_list[1] /\ Tail(wait_list) \in Seq(Locker)
        /\ Len(wait_list) \in Nat \ {0} /\ Len(Tail(wait_list)) = Len(wait_list) - 1
        /\ \A i \in 1..Len(Tail(wait_list)) : Tail(wait_list)[i] = wait_list[i + 1]
    BY <1>1, <1>7, <2>0, HeadTailProperties, EmptySeq
  <2>2. wait_list' = Tail(wait_list) /\ wakee' = [wakee EXCEPT ![t] = w]
    BY <1>7, <2>0 DEF UnlockPop
  <2>3. /\ wait_list' \in Seq(Locker) /\ Len(wait_list') = Len(wait_list) - 1
        /\ \A i \in 1..Len(wait_list') : i + 1 \in 1..Len(wait_list) /\ wait_list'[i] = wait_list[i + 1]
    BY <2>1, <2>2
  <2>4. WaitersWait'
    <3>1. ASSUME NEW i \in 1..Len(wait_list') PROVE Waiting(wait_list[i])'
      <4>1. wait_list[i + 1] \in Thread /\ Waiting(wait_list[i + 1])
        BY <1>1, <2>3, ElementOfSeq DEF WaitersWait, Locker
      <4> QED BY <1>4, <2>3, <4>1 DEF Waiting
    <3>2. ASSUME NEW i \in 1..Len(wait_list'), NEW j \in 1..Len(wait_list'),
                 wait_list'[i] = wait_list'[j]
          PROVE  i = j
      BY <1>1, <2>3, <3>2 DEF WaitersWait
    <3> QED BY <3>1, <3>2 DEF WaitersWait
  <2>5. /\ wakee'[t] = w /\ \A u \in Thread \ {t} : wakee'[u] = wakee[u]
        /\ w # NULL /\ w \in Thread
    BY <1>1, <2>1, <2>2, NullAssumption DEF Locker
  <2>6. Waiting(w)' /\ \A i \in 1..Len(wait_list') : wait_list'[i] # w
    <3>1. Waiting(w) /\ 1 \in 1..Len(wait_list)
      BY <1>1, <2>1 DEF WaitersWait
    <3>2. ASSUME NEW i \in 1..Len(wait_list') PROVE wait_list'[i] # w
      BY <1>1, <2>1, <2>3, <3>1 DEF WaitersWait
    <3> QED BY <1>4, <2>5, <3>1, <3>2
  <2>7. WakeesWait'
    BY <1>1, <1>2, <1>5, <1>7, <2>5, <2>6 DEF WakeesWait, Waiting
  <2> QED BY <2>4, <2>7
<1> QED BY <1>6, <1>7

\* kthread_unblock makes ready a thread that is not on the list.
LEMMA WaitersWake ==
    ASSUME WaitInv, NEW t \in Thread, UnlockWake(t)
    PROVE  WaitersWait' /\ WakeesWait'
<1>1. /\ pc \in [Thread -> PcLabel] /\ wakee \in [Thread -> Locker \cup {NULL}]
      /\ SlockExclusion /\ wait_list \in Seq(Locker) /\ WaitersWait /\ WakeesWait
  BY DEF WaitInv, ExclusionInv, TypeOK
<1>2. /\ pc[t] = "wake" /\ pc'[t] = "release" /\ \A u \in Thread \ {t} : pc'[u] = pc[u]
      /\ op' = op /\ wait_list' = wait_list /\ wakee' = [wakee EXCEPT ![t] = NULL]
      /\ asleep \ {wakee[t]} \subseteq asleep'
  BY <1>1, GoEffect DEF UnlockWake, Wake, rrvars
<1>3. \A u \in Thread \ {t} : pc[u] # "wake" /\ pc'[u] # "wake"
  BY <1>1, <1>2 DEF SlockExclusion, HoldsSlock
<1>4. ASSUME NEW w \in Thread, Waiting(w), w # wakee[t] PROVE Waiting(w)'
  BY <1>2, <1>4 DEF Waiting
<1>5. WaitersWait'
  <2>1. ASSUME NEW i \in 1..Len(wait_list) PROVE Waiting(wait_list[i])'
    <3>1. wait_list[i] \in Thread /\ Waiting(wait_list[i]) /\ wait_list[i] # wakee[t]
      BY <1>1, <1>2, ElementOfSeq DEF WaitersWait, WakeesWait, Locker
    <3> QED BY <1>2, <1>4, <3>1 DEF Waiting
  <2> QED BY <1>1, <1>2, <2>1 DEF WaitersWait
<1>6. WakeesWait'
  BY <1>1, <1>2, <1>3 DEF WakeesWait
<1> QED BY <1>5, <1>6

\* Steps of the scheduler alone.
LEMMA WaitersStutter ==
    ASSUME WaitInv, UNCHANGED lockvars, asleep \ {Idle} \subseteq asleep'
    PROVE  WaitersWait' /\ WakeesWait'
<1>1. /\ wait_list \in Seq(Locker) /\ wakee \in [Thread -> Locker \cup {NULL}]
      /\ WaitersWait /\ WakeesWait /\ \A i \in 1..Len(wait_list) : wait_list[i] \in Locker
  BY ElementOfSeq DEF WaitInv, ExclusionInv, TypeOK
<1>2. wait_list' = wait_list /\ wakee' = wakee /\ pc' = pc /\ op' = op
  BY DEF lockvars
<1>3. ASSUME NEW w \in Locker, Waiting(w) PROVE Waiting(w)'
  BY <1>2, <1>3 DEF Waiting, Locker
<1>4. WaitersWait'
  BY <1>1, <1>2, <1>3 DEF WaitersWait
<1>5. WakeesWait'
  BY <1>1, <1>2, <1>3 DEF WakeesWait
<1> QED BY <1>4, <1>5

LEMMA WaitNext == WaitInv /\ [Next]_vars => WaitInv'
<1> SUFFICES ASSUME WaitInv, [Next]_vars PROVE WaitInv'
  OBVIOUS
<1>1. ExclusionInv' /\ OnePlace'
  BY ExclusionNext, NextOnScheduler, OnePlaceNext DEF WaitInv
<1>2. ASSUME NEW t \in Thread, Step(t) PROVE WaitersWait' /\ WakeesWait'
  BY <1>2, WaitersQuiet, WaitersPark, WaitersPop, WaitersWake DEF Step
<1>3. ASSUME UNCHANGED lockvars, Rotate \/ Sleep \/ (\E t \in Thread : Start(t)) \/ UNCHANGED rrvars
      PROVE  WaitersWait' /\ WakeesWait'
  <2>1. asleep \ {Idle} \subseteq asleep'
    BY <1>3 DEF Rotate, Sleep, Start, rrvars
  <2> QED BY <1>3, <2>1, WaitersStutter
<1> QED
  BY <1>1, <1>2, <1>3 DEF WaitInv, Next, Spawn, IdleBlock, Preempt, vars

LEMMA WaitInit == Init => WaitInv
<1> SUFFICES ASSUME Init PROVE WaitInv
  OBVIOUS
<1>1. ExclusionInv /\ OnePlace
  BY ExclusionInit, PlaceInit DEF Init
<1>2. WaitersWait
  BY EmptySeq DEF Init, WaitersWait
<1>3. WakeesWait
  BY DEF Init, WakeesWait
<1> QED BY <1>1, <1>2, <1>3 DEF WaitInv

THEOREM WaitInvariant == Spec => []WaitInv
BY WaitInit, WaitNext, PTL DEF Spec

\* As long as mutex_unlock can reach a waiter, its thread is between its
\* list_append and its return from kthread_block: the frame is live.
THEOREM WaitersLiveHolds == Spec => []WaitersLive
<1>1. ASSUME WaitInv PROVE WaitersLive
  <2>1. DOMAIN wait_list = 1..Len(wait_list)
    BY <1>1, LenProperties DEF WaitInv, ExclusionInv, TypeOK
  <2> QED
    BY <1>1, <2>1 DEF WaitInv, WaitersLive, WaitersWait, WakeesWait, Waiting, InLockFrame
<1> QED
  BY <1>1, WaitInvariant, PTL

-----------------------------------------------------------------------------
(* The refinement.                                                         *)

\* What a thread inside the spinlock has read of the owner field stays true.
OwnerAsRead ==
    \A t \in Thread :
        /\ pc[t] \in {"pop", "wake"} => owner = NULL
        /\ pc[t] = "park" => owner # NULL
SeenInv == WaitInv /\ OwnerAsRead

LEMMA SeenInit == Init => SeenInv
BY WaitInit DEF SeenInv, OwnerAsRead, Init

\* Only the holder of the spinlock stores to owner.
LEMMA SeenNext == SeenInv /\ [Next]_vars => SeenInv'
<1> SUFFICES ASSUME SeenInv, [Next]_vars PROVE SeenInv'
  OBVIOUS
<1>1. /\ WaitInv' /\ OwnerAsRead /\ SlockExclusion
      /\ pc \in [Thread -> PcLabel]
  BY WaitNext DEF SeenInv, WaitInv, ExclusionInv, TypeOK
<1>2. ASSUME NEW t \in Thread, LockTake(t) \/ UnlockClear(t) PROVE OwnerAsRead'
  <2>1. /\ HoldsSlock(t) /\ \A u \in Thread \ {t} : pc'[u] = pc[u]
        /\ pc'[t] \in {"took", "pop"} /\ (pc'[t] = "pop" => owner' = NULL)
    BY <1>1, <1>2, GoEffect DEF LockTake, UnlockClear, HoldsSlock
  <2>2. \A u \in Thread \ {t} : ~HoldsSlock(u)
    BY <1>1, <2>1 DEF SlockExclusion
  <2> QED
    BY <2>1, <2>2 DEF OwnerAsRead, HoldsSlock
<1>3. ASSUME NEW t \in Thread, Step(t), ~LockTake(t), ~UnlockClear(t) PROVE OwnerAsRead'
  <2>1. owner' = owner
    BY <1>3
    DEF Step, SpinXchg, SpinTest, SpinYield, Enter, LockTest, LockTook, LockPark,
        LockParked, LockBlock, Leave, UnlockPop, UnlockWake, UnlockRelease
  <2>2. \A u \in Thread \ {t} : pc'[u] = pc[u]
    BY <1>1, <1>3
    DEF Step, SpinXchg, SpinTest, SpinYield, Enter, LockTest, LockTook, LockPark,
        LockParked, LockBlock, Leave, UnlockPop, UnlockWake, UnlockRelease, Go
  <2>3. /\ pc'[t] \in {"pop", "wake"} => pc[t] = "pop"
        /\ pc'[t] = "park" => owner # NULL
    BY <1>1, <1>3
    DEF Step, SpinXchg, SpinTest, SpinYield, Enter, LockTest, LockTook, LockPark,
        LockParked, LockBlock, Leave, UnlockPop, UnlockWake, UnlockRelease, Go, Inside
  <2> QED
    BY <1>1, <2>1, <2>2, <2>3 DEF OwnerAsRead
<1>4. CASE UNCHANGED lockvars
  BY <1>1, <1>4 DEF SeenInv, OwnerAsRead, lockvars
<1> QED
  BY <1>1, <1>2, <1>3, <1>4 DEF SeenInv, Next, Spawn, IdleBlock, Preempt, vars

\* What is seen of the mutex, by where the thread inside the spinlock is, in a
\* state and in the next one.
LEMMA SeenNow ==
    ASSUME SlockExclusion, NEW t \in Thread, HoldsSlock(t)
    PROVE  /\ pc[t] \in {"pop", "wake"} => OwnerSeen = t
           /\ pc[t] \notin {"pop", "wake"} => OwnerSeen = owner
           /\ pc[t] = "wake" => WaitersSeen = <<wakee[t]>> \o wait_list
           /\ pc[t] # "wake" => WaitersSeen = wait_list
<1>1. \A u \in Thread : pc[u] \in {"pop", "wake"} => u = t
  BY DEF SlockExclusion, HoldsSlock
<1>2. Unlocker = (IF pc[t] \in {"pop", "wake"} THEN {t} ELSE {})
  BY <1>1 DEF Unlocker
<1>3. Waking = (IF pc[t] = "wake" THEN {t} ELSE {})
  BY <1>1 DEF Waking
<1> QED BY <1>2, <1>3 DEF OwnerSeen, WaitersSeen

LEMMA SeenThen ==
    ASSUME NEW t \in Thread, \A u \in Thread \ {t} : pc'[u] \notin {"pop", "wake"}
    PROVE  /\ pc'[t] \in {"pop", "wake"} => OwnerSeen' = t
           /\ pc'[t] \notin {"pop", "wake"} => OwnerSeen' = owner'
           /\ pc'[t] = "wake" => WaitersSeen' = <<wakee'[t]>> \o wait_list'
           /\ pc'[t] # "wake" => WaitersSeen' = wait_list'
<1>1. Unlocker' = (IF pc'[t] \in {"pop", "wake"} THEN {t} ELSE {})
  BY DEF Unlocker
<1>2. Waking' = (IF pc'[t] = "wake" THEN {t} ELSE {})
  BY DEF Waking
<1> QED BY <1>1, <1>2 DEF OwnerSeen, WaitersSeen

\* The phase of a thread follows from its label and the function it is in.
LEMMA PhaseOf ==
    ASSUME NEW t \in Thread
    PROVE  /\ pc[t] \in {"parked", "block"} => PhaseSeen[t] = "parked"
           /\ pc[t] \in {"took", "cs", "clear", "pop", "wake"} => PhaseSeen[t] = "owner"
           /\ pc[t] \in {"xchg", "spin", "yield"} =>
                PhaseSeen[t] = IF op[t] = "unlock" THEN "owner" ELSE "out"
           /\ pc[t] \in {"out", "test", "take", "park", "release"} => PhaseSeen[t] = "out"
BY DEF PhaseSeen, Owns, Unlocker

LEMMA PhaseThen ==
    ASSUME NEW t \in Thread, \A u \in Thread \ {t} : pc'[u] = pc[u] /\ op'[u] = op[u]
    PROVE  /\ pc'[t] \in {"parked", "block"} => PhaseSeen' = [PhaseSeen EXCEPT ![t] = "parked"]
           /\ pc'[t] \in {"took", "cs", "clear", "pop", "wake"} =>
                PhaseSeen' = [PhaseSeen EXCEPT ![t] = "owner"]
           /\ pc'[t] \in {"xchg", "spin", "yield"} =>
                PhaseSeen' = [PhaseSeen EXCEPT ![t] = IF op'[t] = "unlock" THEN "owner" ELSE "out"]
           /\ pc'[t] \in {"out", "test", "take", "park", "release"} =>
                PhaseSeen' = [PhaseSeen EXCEPT ![t] = "out"]
<1> DEFINE Ph(u, p, o) == IF p \in {"parked", "block"} THEN "parked"
                          ELSE IF p \in {"took", "cs", "clear", "pop", "wake"}
                                  \/ (o = "unlock" /\ p \in {"xchg", "spin", "yield"})
                               THEN "owner" ELSE "out"
<1>1. PhaseSeen = [u \in Thread |-> Ph(u, pc[u], op[u])]
  BY DEF PhaseSeen, Owns, Unlocker
<1>2. PhaseSeen' = [u \in Thread |-> Ph(u, pc'[u], op'[u])]
  BY DEF PhaseSeen, Owns, Unlocker
<1>3. PhaseSeen' = [PhaseSeen EXCEPT ![t] = Ph(t, pc'[t], op'[t])]
  BY <1>1, <1>2
<1> QED BY <1>3

\* Steps that nobody sees: labels change, but not what they stand for.
LEMMA SeenKept ==
    ASSUME NEW t \in Thread, \A u \in Thread \ {t} : pc'[u] = pc[u] /\ op'[u] = op[u],
           pc[t] \notin {"pop", "wake"}, pc'[t] \notin {"pop", "wake"},
           owner' = owner, wait_list' = wait_list, wakee' = wakee
    PROVE  OwnerSeen' = OwnerSeen /\ WaitersSeen' = WaitersSeen
<1>1. Unlocker' = Unlocker /\ Waking' = Waking
  BY DEF Unlocker, Waking
<1> QED BY <1>1 DEF OwnerSeen, WaitersSeen

LEMMA UnseenStep ==
    ASSUME SeenInv, NEW t \in Thread,
           \/ SpinXchg(t) \/ SpinTest(t) \/ SpinYield(t) \/ Enter(t) \/ LockTest(t) \/ LockTook(t)
           \/ LockParked(t) \/ Leave(t) \/ UnlockRelease(t)
    PROVE  UNCHANGED Sections!mutexvars /\ (UNCHANGED rrvars \/ Rotate)
<1>1. pc \in [Thread -> PcLabel] /\ op \in [Thread -> {"lock", "unlock"}] /\ LabelsAgree
  BY DEF SeenInv, WaitInv, ExclusionInv, TypeOK
<1>2. \A u \in Thread \ {t} : pc'[u] = pc[u] /\ op'[u] = op[u]
  BY <1>1 DEF SpinXchg, SpinTest, SpinYield, Enter, LockTest, LockTook, LockParked, Leave,
              UnlockRelease, Go
<1>3. pc[t] \notin {"pop", "wake"} /\ pc'[t] \notin {"pop", "wake"}
  BY <1>1 DEF SpinXchg, SpinTest, SpinYield, Enter, LockTest, LockTook, LockParked, Leave,
              UnlockRelease, Go, Inside
<1>4. /\ owner' = owner /\ wait_list' = wait_list /\ wakee' = wakee
      /\ UNCHANGED rrvars \/ Rotate
  BY DEF SpinXchg, SpinTest, SpinYield, Enter, LockTest, LockTook, LockParked, Leave,
         UnlockRelease
<1>5. PhaseSeen' = [PhaseSeen EXCEPT ![t] = PhaseSeen[t]]
  <2>1. CASE Enter(t) \/ Leave(t)
    <3>1. /\ Enter(t) => pc[t] = "out" /\ pc'[t] = "xchg" /\ op'[t] = "lock"
          /\ Leave(t) => pc[t] = "cs" /\ pc'[t] = "xchg" /\ op'[t] = "unlock"
      BY <1>1 DEF Enter, Leave, Go
    <3> QED BY <1>2, <2>1, <3>1, PhaseOf, PhaseThen
  <2>2. CASE SpinXchg(t) \/ SpinTest(t) \/ SpinYield(t)
    <3>1. /\ op'[t] = op[t] /\ pc[t] \in {"xchg", "spin", "yield"}
          /\ pc'[t] \in {"xchg", "spin", "yield", IF op[t] = "unlock" THEN "clear" ELSE "test"}
      BY <1>1, <2>2 DEF SpinXchg, SpinTest, SpinYield, Go, Inside
    <3> QED BY <1>2, <3>1, PhaseOf, PhaseThen
  <2>3. CASE LockTest(t) \/ LockTook(t) \/ LockParked(t) \/ UnlockRelease(t)
    <3>1. \/ pc[t] = "test" /\ pc'[t] \in {"take", "park"}
          \/ pc[t] = "took" /\ pc'[t] = "cs"
          \/ pc[t] = "parked" /\ pc'[t] = "block"
          \/ pc[t] = "release" /\ pc'[t] = "out"
      BY <1>1, <2>3 DEF LockTest, LockTook, LockParked, UnlockRelease, Go
    <3> QED BY <1>2, <3>1, PhaseOf, PhaseThen
  <2> QED BY <2>1, <2>2, <2>3
<1>6. PhaseSeen' = PhaseSeen
  BY <1>5 DEF PhaseSeen
<1> QED
  BY <1>2, <1>3, <1>4, <1>6, SeenKept DEF Sections!mutexvars

\* The stores, and the reads of the wait list, that are seen.
LEMMA TakeIsAcquire ==
    ASSUME SeenInv, NEW t \in Thread, LockTake(t)
    PROVE  Sections!Acquire(t)
<1>1. /\ pc \in [Thread -> PcLabel] /\ SlockExclusion /\ LabelsAgree /\ pc[Idle] = "out"
  BY DEF SeenInv, WaitInv, ExclusionInv, TypeOK
<1>2. /\ pc[t] = "take" /\ pc'[t] = "took" /\ \A u \in Thread \ {t} : pc'[u] = pc[u] /\ op'[u] = op[u]
      /\ owner' = t /\ wait_list' = wait_list /\ running = t /\ UNCHANGED rrvars
  BY <1>1, GoEffect DEF LockTake, Go
<1>3. HoldsSlock(t) /\ owner = NULL /\ t # Idle
  BY <1>1, <1>2 DEF HoldsSlock, LabelsAgree
<1>4. \A u \in Thread \ {t} : pc'[u] \notin {"pop", "wake"}
  BY <1>1, <1>2, <1>3 DEF SlockExclusion, HoldsSlock
<1>5. OwnerSeen = NULL /\ WaitersSeen = wait_list /\ OwnerSeen' = t /\ WaitersSeen' = wait_list'
  BY <1>1, <1>2, <1>3, <1>4, SeenNow, SeenThen
<1>6. PhaseSeen[t] = "out" /\ PhaseSeen' = [PhaseSeen EXCEPT ![t] = "owner"]
  BY <1>2, PhaseOf, PhaseThen
<1> QED
  BY <1>2, <1>3, <1>5, <1>6 DEF Sections!Acquire, Sections!Moves, Sections!rrvars, rrvars

LEMMA ParkIsPark ==
    ASSUME SeenInv, NEW t \in Thread, LockPark(t)
    PROVE  Sections!Park(t)
<1>1. /\ pc \in [Thread -> PcLabel] /\ SlockExclusion /\ OwnerAsRead /\ pc[Idle] = "out"
  BY DEF SeenInv, WaitInv, ExclusionInv, TypeOK
<1>2. /\ pc[t] = "park" /\ pc'[t] = "parked" /\ \A u \in Thread \ {t} : pc'[u] = pc[u] /\ op'[u] = op[u]
      /\ owner' = owner /\ wait_list' = Append(wait_list, t) /\ running = t /\ UNCHANGED rrvars
  BY <1>1, GoEffect DEF LockPark, Go
<1>3. HoldsSlock(t) /\ owner # NULL /\ t # Idle
  BY <1>1, <1>2 DEF HoldsSlock, OwnerAsRead
<1>4. \A u \in Thread \ {t} : pc'[u] \notin {"pop", "wake"}
  BY <1>1, <1>2, <1>3 DEF SlockExclusion, HoldsSlock
<1>5. OwnerSeen = owner /\ WaitersSeen = wait_list /\ OwnerSeen' = owner' /\ WaitersSeen' = wait_list'
  BY <1>1, <1>2, <1>3, <1>4, SeenNow, SeenThen
<1>6. PhaseSeen[t] = "out" /\ PhaseSeen' = [PhaseSeen EXCEPT ![t] = "parked"]
  BY <1>2, PhaseOf, PhaseThen
<1> QED
  BY <1>2, <1>3, <1>5, <1>6 DEF Sections!Park, Sections!Moves, Sections!rrvars, rrvars

LEMMA BlockIsBlock ==
    ASSUME SeenInv, NEW t \in Thread, LockBlock(t)
    PROVE  Sections!Block(t)
<1>1. /\ pc \in [Thread -> PcLabel] /\ LabelsAgree /\ pc[Idle] = "out"
  BY DEF SeenInv, WaitInv, ExclusionInv, TypeOK
<1>2. /\ pc[t] = "block" /\ pc'[t] = "xchg" /\ \A u \in Thread \ {t} : pc'[u] = pc[u] /\ op'[u] = op[u]
      /\ op'[t] = "lock" /\ owner' = owner /\ wait_list' = wait_list /\ wakee' = wakee /\ running = t
      /\ Sleep
  BY <1>1, GoEffect DEF LockBlock, Go, LabelsAgree
<1>3. OwnerSeen' = OwnerSeen /\ WaitersSeen' = WaitersSeen
  BY <1>2, SeenKept
<1>4. PhaseSeen[t] = "parked" /\ PhaseSeen' = [PhaseSeen EXCEPT ![t] = "out"]
  BY <1>2, PhaseOf, PhaseThen
<1>5. t # Idle
  BY <1>1, <1>2
<1> QED
  BY <1>2, <1>3, <1>4, <1>5 DEF Sections!Block, Sections!Moves, Sections!Sleep, Sleep

LEMMA ClearUnseen ==
    ASSUME SeenInv, NEW t \in Thread, UnlockClear(t)
    PROVE  UNCHANGED <<rrvars, Sections!mutexvars>>
<1>1. pc \in [Thread -> PcLabel] /\ SlockExclusion /\ MutualExclusion
  BY DEF SeenInv, WaitInv, ExclusionInv, TypeOK
<1>2. /\ pc[t] = "clear" /\ pc'[t] = "pop" /\ \A u \in Thread \ {t} : pc'[u] = pc[u] /\ op'[u] = op[u]
      /\ wait_list' = wait_list /\ UNCHANGED rrvars
  BY <1>1, GoEffect DEF UnlockClear
<1>3. HoldsSlock(t) /\ owner = t
  BY <1>1, <1>2 DEF HoldsSlock, MutualExclusion, Owns
<1>4. \A u \in Thread \ {t} : pc'[u] \notin {"pop", "wake"}
  BY <1>1, <1>2, <1>3 DEF SlockExclusion, HoldsSlock
<1>5. OwnerSeen = t /\ WaitersSeen = wait_list /\ OwnerSeen' = t /\ WaitersSeen' = wait_list'
  BY <1>1, <1>2, <1>3, <1>4, SeenNow, SeenThen
<1>6. PhaseSeen[t] = "owner" /\ PhaseSeen' = [PhaseSeen EXCEPT ![t] = "owner"]
  BY <1>2, PhaseOf, PhaseThen
<1>7. PhaseSeen' = PhaseSeen
  BY <1>6 DEF PhaseSeen
<1> QED
  BY <1>2, <1>5, <1>7 DEF Sections!mutexvars

LEMMA PopIsReleaseOrUnseen ==
    ASSUME SeenInv, NEW t \in Thread, UnlockPop(t)
    PROVE  Sections!Release(t) \/ UNCHANGED <<rrvars, Sections!mutexvars>>
<1>1. /\ pc \in [Thread -> PcLabel] /\ SlockExclusion /\ OwnerAsRead /\ pc[Idle] = "out"
      /\ wakee \in [Thread -> Locker \cup {NULL}] /\ wait_list \in Seq(Locker)
  BY DEF SeenInv, WaitInv, ExclusionInv, TypeOK
<1>2. /\ pc[t] = "pop" /\ \A u \in Thread \ {t} : pc'[u] = pc[u] /\ op'[u] = op[u]
      /\ pc'[t] = IF wait_list = <<>> THEN "release" ELSE "wake"
      /\ owner' = owner /\ running = t /\ UNCHANGED rrvars
  BY <1>1, GoEffect DEF UnlockPop, Go
<1>3. HoldsSlock(t) /\ owner = NULL /\ t # Idle
  BY <1>1, <1>2 DEF HoldsSlock, OwnerAsRead
<1>4. \A u \in Thread \ {t} : pc'[u] \notin {"pop", "wake"}
  BY <1>1, <1>2, <1>3 DEF SlockExclusion, HoldsSlock
<1>5. OwnerSeen = t /\ WaitersSeen = wait_list /\ PhaseSeen[t] = "owner"
  BY <1>1, <1>2, <1>3, SeenNow, PhaseOf
<1>6. CASE wait_list = <<>>
  <2>1. wait_list' = <<>> /\ OwnerSeen' = NULL /\ WaitersSeen' = wait_list'
    BY <1>2, <1>3, <1>4, <1>6, SeenThen DEF UnlockPop
  <2>2. PhaseSeen' = [PhaseSeen EXCEPT ![t] = "out"]
    BY <1>2, <1>6, PhaseThen
  <2> QED
    BY <1>2, <1>3, <1>5, <1>6, <2>1, <2>2 DEF Sections!Release, Sections!Moves, Sections!rrvars, rrvars
<1>7. CASE wait_list # <<>>
  <2>1. wait_list' = Tail(wait_list) /\ wakee'[t] = Head(wait_list)
    BY <1>1, <1>7 DEF UnlockPop
  <2>2. OwnerSeen' = t /\ WaitersSeen' = <<wakee'[t]>> \o wait_list'
    BY <1>2, <1>4, <1>7, SeenThen
  <2>3. <<Head(wait_list)>> \o Tail(wait_list) = wait_list
    BY <1>1, <1>7, FrontBack
  <2>4. PhaseSeen' = [PhaseSeen EXCEPT ![t] = "owner"]
    BY <1>2, <1>7, PhaseThen
  <2>5. PhaseSeen' = PhaseSeen
    BY <1>5, <2>4 DEF PhaseSeen
  <2> QED
    BY <1>2, <1>5, <2>1, <2>2, <2>3, <2>5 DEF Sections!mutexvars
<1> QED BY <1>6, <1>7

LEMMA WakeIsRelease ==
    ASSUME SeenInv, NEW t \in Thread, UnlockWake(t)
    PROVE  Sections!Release(t)
<1>1. /\ pc \in [Thread -> PcLabel] /\ SlockExclusion /\ OwnerAsRead /\ pc[Idle] = "out"
      /\ wakee \in [Thread -> Locker \cup {NULL}] /\ wait_list \in Seq(Locker) /\ LabelsAgree
  BY DEF SeenInv, WaitInv, ExclusionInv, TypeOK
<1>2. /\ pc[t] = "wake" /\ \A u \in Thread \ {t} : pc'[u] = pc[u] /\ op'[u] = op[u]
      /\ pc'[t] = "release" /\ owner' = owner /\ running = t /\ wait_list' = wait_list
      /\ IF wakee[t] \in asleep THEN Wake(wakee[t]) ELSE UNCHANGED rrvars
  BY <1>1, GoEffect DEF UnlockWake, Go
<1>3. HoldsSlock(t) /\ owner = NULL /\ t # Idle /\ wakee[t] \in Locker
  BY <1>1, <1>2 DEF HoldsSlock, OwnerAsRead, LabelsAgree
<1>4. \A u \in Thread \ {t} : pc'[u] \notin {"pop", "wake"}
  BY <1>1, <1>2, <1>3 DEF SlockExclusion, HoldsSlock
<1>5. OwnerSeen = t /\ WaitersSeen = <<wakee[t]>> \o wait_list /\ PhaseSeen[t] = "owner"
  BY <1>1, <1>2, <1>3, SeenNow, PhaseOf
<1>6. OwnerSeen' = NULL /\ WaitersSeen' = wait_list
  BY <1>2, <1>3, <1>4, SeenThen
<1>7. PhaseSeen' = [PhaseSeen EXCEPT ![t] = "out"]
  BY <1>2, PhaseThen
<1>8. WaitersSeen # <<>> /\ Head(WaitersSeen) = wakee[t] /\ Tail(WaitersSeen) = wait_list
  BY <1>1, <1>3, <1>5, FrontOfSeq
<1>9. IF wakee[t] \in asleep THEN Sections!Wake(wakee[t]) ELSE UNCHANGED Sections!rrvars
  BY <1>2 DEF Sections!Wake, Sections!rrvars, Wake, rrvars
<1> QED
  BY <1>2, <1>3, <1>5, <1>6, <1>7, <1>8, <1>9 DEF Sections!Release, Sections!Moves

\* The scheduler's own steps leave what is seen of the mutex alone.
LEMMA OthersAreOthers ==
    ASSUME UNCHANGED lockvars,
           Rotate \/ (running = Idle /\ Sleep) \/ (running # Idle /\ \E t \in Thread : Start(t))
    PROVE  Sections!Others
<1>1. UNCHANGED Sections!mutexvars
  BY DEF lockvars, Sections!mutexvars, OwnerSeen, WaitersSeen, PhaseSeen, Unlocker, Waking, Owns
<1> QED
  BY <1>1 DEF Sections!Others, Sections!Rotate, Sections!Sleep, Sections!Start, Sections!Alive,
              Sections!Queued, Rotate, Sleep, Start, Alive, Queued

LEMMA SectionsInit == Init => Sections!RRInit /\ Sections!MutexInit
<1> SUFFICES ASSUME Init PROVE Sections!RRInit /\ Sections!MutexInit
  OBVIOUS
<1>1. Unlocker = {} /\ Waking = {}
  BY DEF Init, Unlocker, Waking
<1>2. PhaseSeen = [t \in Thread |-> "out"]
  BY DEF Init, PhaseSeen, Owns, Unlocker
<1> QED
  BY <1>1, <1>2 DEF Init, RRInit, Sections!RRInit, Sections!MutexInit, OwnerSeen, WaitersSeen

LEMMA SectionsNext ==
    SeenInv /\ [Next]_vars => [Sections!MutexNext]_<<Sections!rrvars, Sections!mutexvars>>
<1> SUFFICES ASSUME SeenInv, [Next]_vars
             PROVE  Sections!MutexNext \/ UNCHANGED <<Sections!rrvars, Sections!mutexvars>>
  OBVIOUS
<1>1. UNCHANGED rrvars <=> UNCHANGED Sections!rrvars
  BY DEF rrvars, Sections!rrvars
<1>2. ASSUME NEW t \in Thread, Step(t)
      PROVE  Sections!MutexNext \/ UNCHANGED <<Sections!rrvars, Sections!mutexvars>>
  <2>1. \/ UNCHANGED Sections!mutexvars /\ (UNCHANGED rrvars \/ Rotate)
        \/ Sections!Acquire(t) \/ Sections!Park(t) \/ Sections!Block(t) \/ Sections!Release(t)
    BY <1>2, UnseenStep, TakeIsAcquire, ParkIsPark, BlockIsBlock, ClearUnseen,
       PopIsReleaseOrUnseen, WakeIsRelease DEF Step
  <2>2. Rotate => Sections!Rotate
    BY DEF Rotate, Sections!Rotate
  <2> QED
    BY <1>1, <2>1, <2>2 DEF Sections!MutexNext, Sections!Others
<1>3. CASE UNCHANGED vars
  BY <1>1, <1>3
  DEF vars, lockvars, Sections!mutexvars, OwnerSeen, WaitersSeen, PhaseSeen, Unlocker, Waking, Owns
<1> QED
  BY <1>2, <1>3, OthersAreOthers DEF Next, Spawn, IdleBlock, Preempt, Sections!MutexNext

THEOREM SeenInvariant == Spec => []SeenInv
BY SeenInit, SeenNext, PTL DEF Spec

\* Seen from outside, what mutex_lock and mutex_unlock do under the spinlock is
\* one step, wherever the timer cuts it: printk may be modelled on that.
THEOREM MutexImplementsBlockingMutex == Spec => ImplementsBlockingMutex
BY SectionsInit, SectionsNext, SeenInvariant, PTL
DEF Spec, ImplementsBlockingMutex, Sections!MutexSpec
=============================================================================
