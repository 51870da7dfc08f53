---------------------------- MODULE LockingProofs -----------------------------
(***************************************************************************)
(* lab2: the two locks of lab2/src/4 and, in the third part, the queue of  *)
(* lab2/src/1 that has none.                                               *)
(*                                                                         *)
(* Safety of the futex mutex for any finite set of threads, any number of  *)
(* iterations. The invariant IInv ties the futex word to the program       *)
(* counters (the word says LOCK exactly while a thread is in its critical  *)
(* section) and the kernel's wait queue to the sleeping threads.           *)
(*                                                                         *)
(* The second part is about the program of test.c. No sum over threads is  *)
(* needed to count their increments: the counter is the cardinality of the *)
(* set of the increments made, pairs of a thread and an iteration.         *)
(***************************************************************************)
EXTENDS LockTest, QueueRaw, FiniteSetTheorems, TLAPS

\* The word says LOCK only while its taker has not released it yet.
LockedHasOwner == lock = STATUS_LOCK => \E t \in Threads : InCS(t)

\* The kernel's queue holds exactly the threads blocked in FUTEX_WAIT.
SleepersAsleep == \A t \in Threads : t \in sleepers <=> pc[t] = "asleep"

\* A thread inside the loop has an iteration left to finish.
LeftPositive == \A t \in Threads : pc[t] # "done" => left[t] > 0

IInv ==
  /\ TypeOK
  /\ LeftPositive
  /\ SleepersAsleep
  /\ MutualExclusion
  /\ LockedHasOwner
  /\ OwnerNotRefused
  /\ NoLostWakeup

\* mutex_init and the threads main starts satisfy the invariant.
LEMMA InitIInv == Init => IInv
BY IncrementsAssumption, NoTidAssumption
   DEF Init, IInv, TypeOK, LeftPositive, SleepersAsleep, MutualExclusion,
       LockedHasOwner, OwnerNotRefused, NoLostWakeup, InCS, PCs,
       STATUS_LOCK, STATUS_UNLOCK

\* The compare-and-swap of mutex_lock preserves the invariant.
LEMMA TryLockIInv ==
  ASSUME IInv, NEW t \in Threads, TryLock(t)
  PROVE  IInv'
BY DEF IInv, TryLock, TypeOK, LeftPositive, SleepersAsleep, MutualExclusion,
       LockedHasOwner, OwnerNotRefused, NoLostWakeup, InCS, PCs,
       STATUS_LOCK, STATUS_UNLOCK

\* FUTEX_WAIT preserves the invariant: it queues only while the word is LOCK,
\* and then some thread is in its critical section.
LEMMA FutexWaitIInv ==
  ASSUME IInv, NEW t \in Threads, FutexWait(t)
  PROVE  IInv'
BY DEF IInv, FutexWait, TypeOK, LeftPositive, SleepersAsleep, MutualExclusion,
       LockedHasOwner, OwnerNotRefused, NoLostWakeup, InCS, PCs,
       STATUS_LOCK, STATUS_UNLOCK

\* An interrupted FUTEX_WAIT preserves the invariant.
LEMMA FutexInterruptedIInv ==
  ASSUME IInv, NEW t \in Threads, FutexInterrupted(t)
  PROVE  IInv'
BY DEF IInv, FutexInterrupted, TypeOK, LeftPositive, SleepersAsleep,
       MutualExclusion, LockedHasOwner, OwnerNotRefused, NoLostWakeup, InCS,
       PCs, STATUS_LOCK, STATUS_UNLOCK

\* The accesses of the lock's holder to m->tid and counter preserve it.
LEMMA CriticalIInv ==
  ASSUME IInv, NEW t \in Threads, SetTid(t) \/ Load(t) \/ Store(t)
  PROVE  IInv'
<1> USE DEF IInv, TypeOK, LeftPositive, SleepersAsleep, MutualExclusion,
            LockedHasOwner, OwnerNotRefused, NoLostWakeup, InCS, PCs
<1>1. CASE SetTid(t)
  BY <1>1 DEF SetTid
<1>2. CASE Load(t)
  BY <1>2 DEF Load
<1>3. CASE Store(t)
  BY <1>3 DEF Store
<1> QED
  BY <1>1, <1>2, <1>3

\* The ownership test and the compare-and-swap of mutex_unlock preserve it:
\* the test succeeds and the word is LOCK.
LEMMA UnlockIInv ==
  ASSUME IInv, NEW t \in Threads, CheckOwner(t) \/ Release(t)
  PROVE  IInv'
<1> USE DEF IInv, TypeOK, LeftPositive, SleepersAsleep, MutualExclusion,
            LockedHasOwner, OwnerNotRefused, NoLostWakeup, InCS, PCs,
            STATUS_LOCK, STATUS_UNLOCK
<1>1. CASE CheckOwner(t)
  <2>1. tid = t
    BY <1>1 DEF CheckOwner
  <2> QED
    BY <1>1, <2>1 DEF CheckOwner
<1>2. CASE Release(t)
  <2>1. lock = STATUS_LOCK
    BY <1>2 DEF Release
  <2> QED
    BY <1>2, <2>1 DEF Release
<1> QED
  BY <1>1, <1>2

\* FUTEX_WAKE preserves it: the thread it wakes is about to retry.
LEMMA FutexWakeIInv ==
  ASSUME IInv, NEW t \in Threads, FutexWake(t)
  PROVE  IInv'
<1> USE DEF IInv, TypeOK, LeftPositive, SleepersAsleep, MutualExclusion,
            LockedHasOwner, OwnerNotRefused, NoLostWakeup, InCS, PCs,
            STATUS_LOCK, STATUS_UNLOCK
<1>0. left[t] \in 1..Increments /\ left[t] - 1 \in 0..Increments
  BY IncrementsAssumption DEF FutexWake
<1>1. CASE sleepers = {} /\ NextIteration(t) /\ UNCHANGED sleepers
  BY <1>0, <1>1, IncrementsAssumption DEF FutexWake, NextIteration
<1>2. ASSUME NEW w \in sleepers, sleepers' = sleepers \ {w},
             NextIterationWaking(t, w)
      PROVE  IInv'
  <2>1. w \in Threads /\ w # t /\ pc[w] = "asleep" /\ pc[t] = "wake"
    BY <1>2 DEF FutexWake
  <2>2. pc' = [pc EXCEPT ![t] = IF left[t] = 1 THEN "done" ELSE "cas",
                         ![w] = "cas"]
    BY <1>2 DEF NextIterationWaking
  <2>3. pc'[w] = "cas" /\ pc'[t] \in {"done", "cas"}
        /\ \A u \in Threads \ {t, w} : pc'[u] = pc[u]
    BY <2>1, <2>2
  <2>4. TypeOK' /\ LeftPositive'
    BY <1>0, <1>2, <2>1, <2>2, IncrementsAssumption DEF FutexWake, NextIterationWaking
  <2>5. SleepersAsleep'
    BY <1>2, <2>1, <2>3
  <2>6. MutualExclusion' /\ LockedHasOwner' /\ OwnerNotRefused'
    BY <2>1, <2>3 DEF FutexWake
  <2>7. NoLostWakeup'
    BY <2>1, <2>3
  <2> QED
    BY <2>4, <2>5, <2>6, <2>7
<1> QED
  BY <1>1, <1>2 DEF FutexWake

\* Every step of the threads and of main preserves the invariant.
LEMMA NextIInv == IInv /\ [Next]_vars => IInv'
<1> SUFFICES ASSUME IInv, [Next]_vars PROVE IInv'
  OBVIOUS
<1>1. CASE UNCHANGED vars
  BY <1>1 DEF vars, IInv, TypeOK, LeftPositive, SleepersAsleep,
     MutualExclusion, LockedHasOwner, OwnerNotRefused, NoLostWakeup, InCS
<1>2. ASSUME NEW t \in Threads, Step(t) \/ FutexInterrupted(t) PROVE IInv'
  BY <1>2, TryLockIInv, FutexWaitIInv, FutexInterruptedIInv, CriticalIInv,
     UnlockIInv, FutexWakeIInv DEF Step
<1> QED
  BY <1>1, <1>2 DEF Next, Finished

\* The invariant holds throughout every behaviour of the mutex.
THEOREM Invariance == Spec => []IInv
BY InitIInv, NextIInv, PTL DEF Spec

\* mutex.c: every field keeps its type, whatever the number of threads.
THEOREM TypeCorrect == Spec => []TypeOK
BY Invariance, PTL DEF IInv

\* mutex.c: at most one thread between the two compare-and-swaps, for any set
\* of threads.
THEOREM MutexSafe == Spec => []MutualExclusion
BY Invariance, PTL DEF IInv

\* mutex.c: mutex_unlock never refuses the thread that holds the lock, so the
\* "not access" return never leaves the mutex locked for ever.
THEOREM UnlockAccepted == Spec => []OwnerNotRefused
BY Invariance, PTL DEF IInv

\* mutex.c: the compare in FUTEX_WAIT and the single FUTEX_WAKE lose no wakeup.
THEOREM WakeupKept == Spec => []NoLostWakeup
BY Invariance, PTL DEF IInv

-----------------------------------------------------------------------------
(* Counting increments *)

\* The increments made when every thread t has made m[t].
Increment(m) == {p \in Threads \X (1..Increments) : p[2] <= m[p[1]]}

\* Their number: 0 before the first one, one more with every one, and all of
\* them at the end.
LEMMA IncrementFacts ==
  ASSUME NEW m \in [Threads -> 0..Increments]
  PROVE  /\ Cardinality(Increment(m)) \in Nat
         /\ (\A t \in Threads : m[t] = 0) => Cardinality(Increment(m)) = 0
         /\ (\A t \in Threads : m[t] = Increments) =>
              Cardinality(Increment(m)) = Increments * Cardinality(Threads)
         /\ \A t \in Threads : m[t] < Increments =>
              Cardinality(Increment([m EXCEPT ![t] = m[t] + 1])) = Cardinality(Increment(m)) + 1
<1> USE IncrementsAssumption
<1> DEFINE All == Threads \X (1..Increments)
<1>1. IsFiniteSet(1..Increments) /\ Cardinality(1..Increments) = Increments
  BY FS_Interval
<1>2. IsFiniteSet(All) /\ Cardinality(All) = Cardinality(Threads) * Increments
  BY <1>1, ThreadsAssumption, FS_Product
<1>3. Cardinality(Threads) \in Nat
  BY ThreadsAssumption, FS_CardinalityType
<1>4. IsFiniteSet(Increment(m))
  BY <1>2, FS_Subset DEF Increment
<1>5. Cardinality(Increment(m)) \in Nat
  BY <1>4, FS_CardinalityType
<1>6. ASSUME \A t \in Threads : m[t] = 0 PROVE Cardinality(Increment(m)) = 0
  <2>1. Increment(m) = {}
    BY <1>6 DEF Increment
  <2> QED
    BY <2>1, FS_EmptySet
<1>7. ASSUME \A t \in Threads : m[t] = Increments
      PROVE  Cardinality(Increment(m)) = Increments * Cardinality(Threads)
  <2>1. Increment(m) = All
    BY <1>7 DEF Increment
  <2> QED
    BY <1>2, <1>3, <2>1
<1>8. ASSUME NEW t \in Threads, m[t] < Increments
      PROVE  Cardinality(Increment([m EXCEPT ![t] = m[t] + 1])) = Cardinality(Increment(m)) + 1
  <2> DEFINE m1 == [m EXCEPT ![t] = m[t] + 1]
             x == <<t, m[t] + 1>>
  <2>1. x \in All /\ x \notin Increment(m)
    BY <1>8 DEF Increment
  <2>2. m1[t] = m[t] + 1 /\ \A u \in Threads \ {t} : m1[u] = m[u]
    OBVIOUS
  <2> HIDE DEF m1
  <2>3. \A p \in All : p \in Increment(m1) <=> p \in Increment(m) \/ p = x
    <3> SUFFICES ASSUME NEW u \in Threads, NEW k \in 1..Increments
                 PROVE  <<u, k>> \in Increment(m1) <=> <<u, k>> \in Increment(m) \/ <<u, k>> = x
      OBVIOUS
    <3>1. /\ <<u, k>> \in Increment(m1) <=> k <= m1[u]
          /\ <<u, k>> \in Increment(m) <=> k <= m[u]
      BY DEF Increment
    <3>2. CASE u = t
      BY <2>2, <3>1, <3>2
    <3>3. CASE u # t
      BY <2>2, <3>1, <3>3
    <3> QED
      BY <3>2, <3>3
  <2>4. Increment(m1) = Increment(m) \cup {x}
    BY <2>1, <2>3 DEF Increment
  <2> QED
    BY <1>4, <2>1, <2>4, FS_AddElement DEF m1
<1> QED
  BY <1>5, <1>6, <1>7, <1>8

-----------------------------------------------------------------------------
(* The counter under the mutex *)

\* Per thread: the increments it has made.
Made ==
  [t \in Threads |->
     (Increments - left[t]) + (IF pc[t] \in {"check", "release", "wake"} THEN 1 ELSE 0)]

\* The counter has every increment made, also where a thread is about to store
\* what it loaded.
CountInv ==
  /\ counter = Cardinality(Increment(Made))
  /\ \A t \in Threads : pc[t] = "store" => reg[t] = counter
  /\ \A t \in Threads : pc[t] = "done" => left[t] = 0

\* Nobody makes more increments than it has iterations.
LEMMA MadeType == IInv => Made \in [Threads -> 0..Increments]
BY IncrementsAssumption DEF IInv, TypeOK, LeftPositive, Made

\* Nothing has been counted yet.
LEMMA InitCount == Init => CountInv
<1> SUFFICES ASSUME Init PROVE CountInv
  OBVIOUS
<1>1. Made \in [Threads -> 0..Increments]
  BY MadeType, InitIInv
<1>2. \A t \in Threads : Made[t] = 0
  BY IncrementsAssumption DEF Init, Made
<1>3. Cardinality(Increment(Made)) = 0
  BY <1>1, <1>2, IncrementFacts
<1> QED
  BY <1>3 DEF Init, CountInv

\* A thread's step counts what it did.
LEMMA StepCount ==
  ASSUME IInv, CountInv, NEW t \in Threads, Step(t) \/ FutexInterrupted(t)
  PROVE  CountInv'
<1> USE IncrementsAssumption
<1>0. /\ Made \in [Threads -> 0..Increments]
      /\ left \in [Threads -> 0..Increments] /\ pc \in [Threads -> PCs] /\ reg \in [Threads -> Nat]
      /\ counter \in Nat
      /\ pc[t] # "done" => left[t] > 0
  BY MadeType DEF IInv, TypeOK, LeftPositive
<1>1. CASE Store(t)
  <2>1. /\ pc[t] = "store" /\ counter' = reg[t] + 1 /\ pc' = [pc EXCEPT ![t] = "check"]
        /\ left' = left /\ reg' = reg
    BY <1>1 DEF Store
  <2>2. reg[t] = counter
    BY <2>1 DEF CountInv
  <2>3. Made' = [Made EXCEPT ![t] = Made[t] + 1] /\ Made[t] < Increments
    <3>1. pc'[t] = "check" /\ \A u \in Threads \ {t} : pc'[u] = pc[u]
      BY <1>0, <2>1
    <3>2. /\ left[t] \in 1..Increments
          /\ Made[t] = Increments - left[t] /\ Made'[t] = (Increments - left[t]) + 1
      BY <1>0, <2>1, <3>1 DEF Made
    <3>3. \A u \in Threads \ {t} : Made'[u] = Made[u]
      BY <2>1, <3>1 DEF Made
    <3>4. DOMAIN Made' = Threads /\ Made' = [u \in Threads |-> Made'[u]]
      BY DEF Made
    <3> QED
      BY <1>0, <3>2, <3>3, <3>4
  <2>4. Cardinality(Increment(Made')) = Cardinality(Increment(Made)) + 1
    BY <1>0, <2>3, IncrementFacts
  <2>5. counter' = Cardinality(Increment(Made))'
    BY <2>1, <2>2, <2>4 DEF CountInv, Increment
  <2>6. \A u \in Threads \ {t} : pc[u] # "store"
    BY <2>1 DEF IInv, MutualExclusion, InCS
  <2>7. /\ \A u \in Threads : pc'[u] = "store" => reg'[u] = counter'
        /\ \A u \in Threads : pc'[u] = "done" => left'[u] = 0
    BY <1>0, <2>1, <2>6 DEF CountInv
  <2> QED
    BY <2>5, <2>7 DEF CountInv
<1>2. CASE ~Store(t)
  <2>1. /\ counter' = counter /\ Made' = Made
        /\ \A u \in Threads : pc'[u] = "store" => reg'[u] = counter
        /\ \A u \in Threads : pc'[u] = "done" => left'[u] = 0
    <3>1. CASE TryLock(t)
      BY <1>0, <3>1 DEF TryLock, Made, CountInv
    <3>2. CASE FutexWait(t) \/ FutexInterrupted(t)
      BY <1>0, <3>2 DEF FutexWait, FutexInterrupted, Made, CountInv
    <3>3. CASE SetTid(t) \/ Load(t)
      BY <1>0, <3>3 DEF SetTid, Load, Made, CountInv
    <3>4. CASE CheckOwner(t)
      <4>1. tid = t
        BY <3>4 DEF CheckOwner, IInv, OwnerNotRefused
      <4> QED
        BY <1>0, <3>4, <4>1 DEF CheckOwner, Made, CountInv
    <3>5. CASE Release(t)
      <4>1. lock = STATUS_LOCK
        BY <3>5 DEF Release, IInv, MutualExclusion, InCS
      <4> QED
        BY <1>0, <3>5, <4>1 DEF Release, Made, CountInv
    <3>6. CASE FutexWake(t)
      <4>1. /\ pc[t] = "wake" /\ left' = [left EXCEPT ![t] = left[t] - 1] /\ counter' = counter
            /\ reg' = reg
        BY <3>6 DEF FutexWake, NextIteration, NextIterationWaking
      <4>2. \A w \in sleepers : w \in Threads /\ w # t /\ pc[w] = "asleep"
        BY <4>1 DEF IInv, SleepersAsleep, TypeOK
      <4>3. /\ pc'[t] = IF left[t] = 1 THEN "done" ELSE "cas"
            /\ \A u \in Threads \ {t} : pc'[u] = pc[u] \/ (pc[u] = "asleep" /\ pc'[u] = "cas")
        BY <1>0, <3>6, <4>2 DEF FutexWake, NextIteration, NextIterationWaking
      <4>4. left'[t] = left[t] - 1 /\ \A u \in Threads \ {t} : left'[u] = left[u]
        BY <1>0, <4>1
      <4>5. \A u \in Threads : Made'[u] = Made[u]
        BY <1>0, <4>1, <4>3, <4>4 DEF Made
      <4>6. Made' = Made
        BY <4>5 DEF Made
      <4> QED
        BY <1>0, <4>1, <4>3, <4>4, <4>6 DEF CountInv
    <3> QED
      BY <1>2, <3>1, <3>2, <3>3, <3>4, <3>5, <3>6 DEF Step
  <2>2. counter' = Cardinality(Increment(Made))'
    BY <2>1 DEF CountInv, Increment
  <2> QED
    BY <2>1, <2>2 DEF CountInv
<1> QED
  BY <1>1, <1>2

\* Every step keeps the count.
LEMMA NextCount == IInv /\ CountInv /\ [Next]_vars => CountInv'
<1> SUFFICES ASSUME IInv, CountInv, [Next]_vars PROVE CountInv'
  OBVIOUS
<1>1. CASE UNCHANGED vars
  BY <1>1 DEF vars, CountInv, Made, Increment
<1>2. CASE \E t \in Threads : Step(t) \/ FutexInterrupted(t)
  BY <1>2, StepCount
<1> QED
  BY <1>1, <1>2 DEF Next, Finished

-----------------------------------------------------------------------------
(* The counter under the spinlock, and the program *)

InSpin(t) == spc[t] \in {"load", "store", "unlock"}

SpinMade ==
  [t \in Threads |-> (Increments - sleft[t]) + (IF spc[t] = "unlock" THEN 1 ELSE 0)]

SpinTypes ==
  /\ phase \in {"spinlock", "mutex"}
  /\ spinlock \in {STATUS_LOCK, STATUS_UNLOCK}
  /\ spun \in Nat
  /\ spc \in [Threads -> {"cas", "load", "store", "unlock", "done"}]
  /\ sreg \in [Threads -> Nat]
  /\ sleft \in [Threads -> 0..Increments]
  /\ \A t \in Threads : sleft[t] = 0 <=> spc[t] = "done"

\* The spinlock admits one thread, and its counter has every increment made.
SpinInv ==
  /\ SpinTypes
  /\ \A t \in Threads : InSpin(t) => spinlock = STATUS_LOCK
  /\ \A s, t \in Threads : InSpin(s) /\ InSpin(t) => s = t
  /\ \A t \in Threads : spc[t] = "store" => sreg[t] = spun
  /\ spun = Cardinality(Increment(SpinMade))
  /\ phase = "mutex" => \A t \in Threads : spc[t] = "done"

\* What every thread has made so far in the first phase is within its loop.
LEMMA SpinMadeType == SpinTypes => SpinMade \in [Threads -> 0..Increments]
BY IncrementsAssumption DEF SpinTypes, SpinMade

\* Nothing has been counted yet.
LEMMA InitSpin == TestInit => SpinInv
<1> SUFFICES ASSUME TestInit PROVE SpinInv
  OBVIOUS
<1>1. SpinTypes
  BY IncrementsAssumption DEF TestInit, SpinTypes
<1>2. \A t \in Threads : SpinMade[t] = 0
  BY IncrementsAssumption DEF TestInit, SpinMade
<1>3. Cardinality(Increment(SpinMade)) = 0
  BY <1>1, <1>2, SpinMadeType, IncrementFacts
<1> QED
  BY <1>1, <1>3 DEF TestInit, SpinInv, InSpin

\* A thread's step under the spinlock keeps the lock and the count.
LEMMA SpinStep ==
  ASSUME SpinInv, NEW t \in Threads, Spin(t)
  PROVE  SpinInv'
<1> USE IncrementsAssumption DEF SpinGoto, STATUS_LOCK, STATUS_UNLOCK
<1>0. SpinTypes /\ SpinMade \in [Threads -> 0..Increments] /\ phase' = phase /\ phase = "spinlock"
  BY SpinMadeType DEF SpinInv, Spin
<1>1. CASE SpinStore(t)
  <2>1. /\ spc[t] = "store" /\ spun' = sreg[t] + 1 /\ spc' = [spc EXCEPT ![t] = "unlock"]
        /\ UNCHANGED <<spinlock, sreg, sleft>>
    BY <1>1 DEF SpinStore
  <2>2. sreg[t] = spun /\ \A u \in Threads \ {t} : ~InSpin(u)
    BY <2>1 DEF SpinInv, InSpin
  <2>3. SpinMade' = [SpinMade EXCEPT ![t] = SpinMade[t] + 1] /\ SpinMade[t] < Increments
    <3>1. spc'[t] = "unlock" /\ \A u \in Threads \ {t} : spc'[u] = spc[u]
      BY <1>0, <2>1 DEF SpinTypes
    <3>2. /\ sleft[t] \in 1..Increments
          /\ SpinMade[t] = Increments - sleft[t] /\ SpinMade'[t] = (Increments - sleft[t]) + 1
      BY <1>0, <2>1, <3>1 DEF SpinMade, SpinTypes
    <3>3. \A u \in Threads \ {t} : SpinMade'[u] = SpinMade[u]
      BY <2>1, <3>1 DEF SpinMade
    <3>4. DOMAIN SpinMade' = Threads /\ SpinMade' = [u \in Threads |-> SpinMade'[u]]
      BY DEF SpinMade
    <3> QED
      BY <1>0, <3>2, <3>3, <3>4
  <2>4. Cardinality(Increment(SpinMade')) = Cardinality(Increment(SpinMade)) + 1
    BY <1>0, <2>3, IncrementFacts
  <2>5. spun' = Cardinality(Increment(SpinMade))'
    BY <2>1, <2>2, <2>4 DEF SpinInv, Increment
  <2>6. SpinTypes'
    BY <1>0, <2>1 DEF SpinTypes
  <2> QED
    BY <1>0, <2>1, <2>2, <2>5, <2>6 DEF SpinInv, InSpin, SpinTypes
<1>2. CASE ~SpinStore(t)
  <2>1. SpinTypes' /\ SpinMade' = SpinMade /\ spun' = spun
    <3>1. CASE SpinLock(t) \/ SpinLoad(t)
      BY <1>0, <3>1 DEF SpinLock, SpinLoad, SpinTypes, SpinMade
    <3>2. CASE SpinUnlock(t)
      BY <1>0, <3>2 DEF SpinUnlock, SpinTypes, SpinMade
    <3> QED
      BY <1>2, <3>1, <3>2 DEF Spin
  <2>2. spun' = Cardinality(Increment(SpinMade))'
    BY <2>1 DEF SpinInv, Increment
  <2>3. /\ \A u \in Threads : InSpin(u)' => spinlock' = STATUS_LOCK
        /\ \A s, u \in Threads : InSpin(s)' /\ InSpin(u)' => s = u
        /\ \A u \in Threads : spc'[u] = "store" => sreg'[u] = spun'
    BY <1>0, <1>2 DEF Spin, SpinLock, SpinLoad, SpinUnlock, SpinInv, SpinTypes, InSpin
  <2> QED
    BY <1>0, <2>1, <2>2, <2>3 DEF SpinInv
<1> QED
  BY <1>1, <1>2

\* The program preserves it.
LEMMA NextSpin == SpinInv /\ [TestNext]_testVars => SpinInv'
<1> SUFFICES ASSUME SpinInv, [TestNext]_testVars PROVE SpinInv'
  OBVIOUS
<1>1. CASE \E t \in Threads : Spin(t)
  BY <1>1, SpinStep
<1>2. CASE JoinSpinners
  BY <1>2 DEF JoinSpinners, SpinInv, SpinTypes, InSpin, SpinMade, Increment
<1>3. CASE UNCHANGED spinVars
  BY <1>3 DEF spinVars, SpinInv, SpinTypes, InSpin, SpinMade, Increment
<1> QED
  BY <1>1, <1>2, <1>3 DEF TestNext, Mutex, testVars

\* test.c: under the program every step of a mutex variable is a step of the
\* mutex, so all that is proved of Spec holds of the program.
THEOREM TestUsesMutex == TestSpec => Spec
<1>1. TestInit => Init
  BY DEF TestInit
<1>2. [TestNext]_testVars => [Next]_vars
  BY DEF TestNext, Spin, JoinSpinners, Mutex, testVars
<1> QED
  BY <1>1, <1>2, PTL DEF TestSpec, Spec

\* test.c: when the threads of a phase have been joined, the counter that main
\* prints has every increment, under the spinlock and under the mutex, for any
\* number of threads and of iterations.
THEOREM NoIncrementLost == TestSpec => []CountersFinal
<1>1. IInv /\ CountInv /\ SpinInv => CountersFinal
  <2> SUFFICES ASSUME IInv, CountInv, SpinInv PROVE CountersFinal
    OBVIOUS
  <2>1. ASSUME phase = "mutex" PROVE spun = Increments * Cardinality(Threads)
    <3>1. \A t \in Threads : SpinMade[t] = Increments
      BY <2>1, IncrementsAssumption DEF SpinInv, SpinTypes, SpinMade
    <3> QED
      BY <3>1, SpinMadeType, IncrementFacts DEF SpinInv
  <2>2. ASSUME AllDone PROVE counter = Increments * Cardinality(Threads)
    <3>1. \A t \in Threads : Made[t] = Increments
      BY <2>2, IncrementsAssumption DEF AllDone, CountInv, Made
    <3> QED
      BY <3>1, MadeType, IncrementFacts DEF CountInv
  <2> QED
    BY <2>1, <2>2 DEF CountersFinal
<1>2. Spec => [](IInv /\ CountInv)
  BY InitIInv, NextIInv, InitCount, NextCount, PTL DEF Spec
<1>3. TestSpec => []SpinInv
  BY InitSpin, NextSpin, PTL DEF TestSpec
<1> QED
  BY <1>1, <1>2, <1>3, TestUsesMutex, PTL

-----------------------------------------------------------------------------
(***************************************************************************)
(* QueueRaw: the assertions of the unsynchronised queue hold for every     *)
(* capacity.                                                               *)
(*                                                                         *)
(* The counter is written by two threads without a lock. What keeps it in  *)
(* bounds is that the writer only raises and the reader only lowers it:    *)
(* room the writer has seen stays, because the reader stores at most       *)
(* MaxCount - 1, and a value the reader has seen stays, because the writer *)
(* stores at least 1.                                                      *)
(***************************************************************************)

\* The writer has seen room and has not stored the count yet.
RoomSeen ==
  /\ wpc \in {"link", "first", "next", "last", "load"} => count < MaxCount
  /\ wpc = "store" => wreg \in 0..(MaxCount - 1)

\* The reader has seen a value and has not stored the count yet.
ValueSeen ==
  /\ rpc \in {"tmp", "val", "first", "next", "set", "free", "load"} => count > 0
  /\ rpc = "store" => rreg \in 1..MaxCount

\* The inductive invariant.
RawCountInv ==
  /\ count \in 0..MaxCount
  /\ ~asserted
  /\ RoomSeen
  /\ ValueSeen

\* Every step of the writer preserves the invariant.
LEMMA WriterStep == RawCountInv /\ Writer => RawCountInv'
<1> SUFFICES ASSUME RawCountInv, Writer PROVE RawCountInv'
  OBVIOUS
<1> USE MaxCountAssumption DEF RawCountInv, RoomSeen, ValueSeen, W, queueVars, readerVars
<1>1. CASE AddAssert
  <2>1. count <= MaxCount
    OBVIOUS
  <2>2. ~asserted'
    BY <1>1, <2>1 DEF AddAssert
  <2>3. wpc' = "test" /\ UNCHANGED <<count, wreg, rpc, rreg>>
    BY <1>1 DEF AddAssert
  <2> QED
    BY <2>2, <2>3
<1>2. CASE AddTest
  BY <1>2 DEF AddTest
<1>3. CASE AddLink
  BY <1>3 DEF AddLink
<1>4. CASE AddFirst
  BY <1>4 DEF AddFirst
<1>5. CASE AddNext
  BY <1>5 DEF AddNext
<1>6. CASE AddLast
  BY <1>6 DEF AddLast
<1>7. CASE AddLoad
  BY <1>7 DEF AddLoad
<1>8. CASE AddStore
  BY <1>8 DEF AddStore
<1> QED
  BY <1>1, <1>2, <1>3, <1>4, <1>5, <1>6, <1>7, <1>8 DEF Writer

\* Every step of the reader preserves the invariant.
LEMMA ReaderStep == RawCountInv /\ Reader => RawCountInv'
<1> SUFFICES ASSUME RawCountInv, Reader PROVE RawCountInv'
  OBVIOUS
<1> USE MaxCountAssumption DEF RawCountInv, RoomSeen, ValueSeen, R, queueVars, writerVars
<1>1. CASE GetAssert
  <2>1. count >= 0
    OBVIOUS
  <2>2. ~asserted'
    BY <1>1, <2>1 DEF GetAssert
  <2>3. rpc' = "test" /\ UNCHANGED <<count, rreg, wpc, wreg>>
    BY <1>1 DEF GetAssert
  <2> QED
    BY <2>2, <2>3
<1>2. CASE GetTest
  BY <1>2 DEF GetTest
<1>3. CASE GetTmp
  BY <1>3 DEF GetTmp
<1>4. CASE GetVal
  BY <1>4 DEF GetVal
<1>5. CASE GetFirst
  BY <1>5 DEF GetFirst
<1>6. CASE GetNext
  BY <1>6 DEF GetNext
<1>7. CASE GetSet
  BY <1>7 DEF GetSet
<1>8. CASE GetFree
  BY <1>8 DEF GetFree
<1>9. CASE GetLoad
  BY <1>9 DEF GetLoad
<1>10. CASE GetStore
  BY <1>10 DEF GetStore
<1> QED
  BY <1>1, <1>2, <1>3, <1>4, <1>5, <1>6, <1>7, <1>8, <1>9, <1>10 DEF Reader

\* The bounds of q->count hold in every state of lab2/src/1/queue.
THEOREM RawCountInvariance == RawSpec => []RawCountInv
<1>1. RawInit => RawCountInv
  BY MaxCountAssumption DEF RawInit, RawCountInv, RoomSeen, ValueSeen
<1>2. RawCountInv /\ [RawNext]_rawVars => RawCountInv'
  <2> SUFFICES ASSUME RawCountInv, [RawNext]_rawVars PROVE RawCountInv'
    OBVIOUS
  <2>1. CASE Writer
    BY <2>1, WriterStep
  <2>2. CASE Reader
    BY <2>2, ReaderStep
  <2>3. CASE UNCHANGED rawVars
    BY <2>3 DEF RawCountInv, RoomSeen, ValueSeen, rawVars, queueVars, writerVars, readerVars
  <2> QED
    BY <2>1, <2>2, <2>3 DEF RawNext, Ended
<1> QED
  BY <1>1, <1>2, PTL DEF RawSpec

\* The assertions of queue_add and queue_get never fail, whatever the capacity
\* and however the unsynchronised accesses to count interleave.
THEOREM AssertionsNeverFail == RawSpec => []AssertionsHold
<1>1. RawCountInv => AssertionsHold
  BY DEF RawCountInv, AssertionsHold
<1> QED
  BY <1>1, RawCountInvariance, PTL

\* What keeps the pointers in their types: the writer calls queue_add only
\* while it has a node left, and the reader comes to free with the node whose
\* value it read.
TypeInv ==
  /\ RawTypeOK
  /\ RawCountInv
  /\ wpc # "assert" => i < MaxAdds
  /\ rpc \in {"first", "next", "set", "free"} /\ ~crashed => tmp \in Nodes

\* Every step of the writer preserves the types.
LEMMA WriterTypes == TypeInv /\ ~crashed /\ Writer => TypeInv'
<1> SUFFICES ASSUME TypeInv, ~crashed, Writer PROVE TypeInv'
  OBVIOUS
<1>0. RawCountInv'
  BY WriterStep DEF TypeInv
<1> USE MaxAddsAssumption, <1>0 DEF TypeInv, RawTypeOK, RawCountInv, RoomSeen, Nodes, NULL, Bad, W,
        queueVars, readerVars
<1>1. CASE AddAssert
  BY <1>1 DEF AddAssert
<1>2. CASE AddTest
  BY <1>2 DEF AddTest
<1>3. CASE AddLink
  BY <1>3 DEF AddLink
<1>4. CASE AddFirst
  BY <1>4 DEF AddFirst
<1>5. CASE AddNext
  BY <1>5 DEF AddNext
<1>6. CASE AddLast
  BY <1>6 DEF AddLast
<1>7. CASE AddLoad
  BY <1>7 DEF AddLoad
<1>8. CASE AddStore
  BY <1>8 DEF AddStore
<1> QED
  BY <1>1, <1>2, <1>3, <1>4, <1>5, <1>6, <1>7, <1>8 DEF Writer

\* Every step of the reader preserves the types.
LEMMA ReaderTypes == TypeInv /\ ~crashed /\ Reader => TypeInv'
<1> SUFFICES ASSUME TypeInv, ~crashed, Reader PROVE TypeInv'
  OBVIOUS
<1>0. RawCountInv'
  BY ReaderStep DEF TypeInv
<1> USE MaxAddsAssumption, <1>0 DEF TypeInv, RawTypeOK, RawCountInv, ValueSeen, Nodes, NULL, Bad, R,
        queueVars, writerVars
<1>1. CASE GetAssert
  BY <1>1 DEF GetAssert
<1>2. CASE GetTest
  BY <1>2 DEF GetTest
<1>3. CASE GetTmp
  BY <1>3 DEF GetTmp
<1>4. CASE GetVal
  BY <1>4 DEF GetVal
<1>5. CASE GetFirst
  BY <1>5 DEF GetFirst
<1>6. CASE GetNext
  BY <1>6 DEF GetNext
<1>7. CASE GetSet
  BY <1>7 DEF GetSet
<1>8. CASE GetFree
  BY <1>8 DEF GetFree
<1>9. CASE GetLoad
  BY <1>9 DEF GetLoad
<1>10. CASE GetStore
  BY <1>10 DEF GetStore
<1> QED
  BY <1>1, <1>2, <1>3, <1>4, <1>5, <1>6, <1>7, <1>8, <1>9, <1>10 DEF Reader

\* What keeps the types holds in every state.
LEMMA TypeInvariance == RawSpec => []TypeInv
<1>1. RawInit => TypeInv
  <2> SUFFICES ASSUME RawInit PROVE TypeInv
    OBVIOUS
  <2>1. RawCountInv
    BY MaxCountAssumption DEF RawInit, RawCountInv, RoomSeen, ValueSeen
  <2>2. asserted \in BOOLEAN /\ crashed \in BOOLEAN
    BY Zenon DEF RawInit
  <2>3. /\ first = 0 /\ last = 0 /\ got = 0 /\ tmp = 0 /\ cur = 0 /\ count = 0 /\ i = 0
        /\ wreg = 0 /\ rreg = 0 /\ wpc = "assert" /\ rpc = "assert"
        /\ freed = {} /\ nxt \in [Nodes -> Nodes \cup {NULL}]
    BY DEF RawInit, NULL
  <2>4. RawTypeOK
    BY <2>2, <2>3, MaxCountAssumption, MaxAddsAssumption DEF RawTypeOK, NULL
  <2> QED
    BY <2>1, <2>3, <2>4 DEF TypeInv
<1>2. TypeInv /\ [RawNext]_rawVars => TypeInv'
  <2> SUFFICES ASSUME TypeInv, [RawNext]_rawVars PROVE TypeInv'
    OBVIOUS
  <2>1. CASE ~crashed /\ Writer
    BY <2>1, WriterTypes
  <2>2. CASE ~crashed /\ Reader
    BY <2>2, ReaderTypes
  <2>3. CASE UNCHANGED rawVars
    BY <2>3 DEF TypeInv, RawTypeOK, RawCountInv, RoomSeen, ValueSeen, rawVars, queueVars,
                writerVars, readerVars
  <2> QED
    BY <2>1, <2>2, <2>3 DEF RawNext, Ended
<1> QED
  BY <1>1, <1>2, PTL DEF RawSpec

\* The queue of lab2/src/1 keeps its types up to the crash: its pointers name
\* nodes the writer allocated or NULL, and only such nodes are freed.
THEOREM RawTypes == RawSpec => []RawTypeOK
<1>1. TypeInv => RawTypeOK
  BY DEF TypeInv
<1> QED
  BY <1>1, TypeInvariance, PTL

-----------------------------------------------------------------------------
(* The order of the values *)

\* The newest node that the reader can come to: the writer's new node once it
\* is linked.
Newest == IF wpc \in {"last", "load", "store"} THEN i + 1 ELSE i

\* Links lead to newer nodes, and no pointer is ahead of the writer.
LinksForward ==
  /\ \A n \in Nodes : nxt[n] = NULL \/ nxt[n] > n
  /\ \A n \in Nodes : nxt[n] <= Newest
  /\ first <= Newest /\ tmp <= Newest /\ got <= Newest /\ cur <= Newest
  /\ last <= IF wpc = "first" THEN i + 1 ELSE Newest
  /\ wpc = "last" => last <= i

\* Until the crash q->first is NULL or a node the reader has not had yet, and it
\* stays the node the reader is about to take until the reader has stored its
\* next.  The writer sets it only when it has seen it NULL, and while the reader
\* is between its load and its store q->first is a node.  What the reader stores
\* may be stale, a NULL next that the writer has set since, but is never older.
FirstIsNew ==
  /\ wpc = "first" => first = NULL
  /\ rpc \notin {"first", "next", "set"} => first = NULL \/ first > got
  /\ rpc \in {"first", "next", "set"} => got = tmp
  /\ rpc \in {"val", "first", "next", "set"} /\ tmp # NULL => first = tmp
  /\ rpc = "next" => cur = tmp
  /\ rpc = "set" => cur = NULL \/ cur > got

OrderInv == ~crashed => LinksForward /\ FirstIsNew

\* Every step of the writer keeps the order.
LEMMA WriterOrder ==
  ASSUME TypeInv, OrderInv, ~crashed, Writer
  PROVE  OrderInv'
<1> USE MaxAddsAssumption DEF TypeInv, RawTypeOK, OrderInv, LinksForward, FirstIsNew, Newest,
        Nodes, NULL, Bad, W, queueVars, readerVars
<1>1. CASE AddAssert
  BY <1>1 DEF AddAssert
<1>2. CASE AddTest
  BY <1>2 DEF AddTest
<1>3. CASE AddLink
  BY <1>3 DEF AddLink
<1>4. CASE AddFirst
  BY <1>4 DEF AddFirst
<1>5. CASE AddNext
  BY <1>5 DEF AddNext
<1>6. CASE AddLast
  BY <1>6 DEF AddLast
<1>7. CASE AddLoad
  BY <1>7 DEF AddLoad
<1>8. CASE AddStore
  BY <1>8 DEF AddStore
<1> QED
  BY <1>1, <1>2, <1>3, <1>4, <1>5, <1>6, <1>7, <1>8 DEF Writer

\* Every step of the reader keeps the order.
LEMMA ReaderOrder ==
  ASSUME TypeInv, OrderInv, ~crashed, Reader
  PROVE  OrderInv'
<1> USE MaxAddsAssumption DEF TypeInv, RawTypeOK, OrderInv, LinksForward, FirstIsNew, Newest,
        Nodes, NULL, Bad, R, queueVars, writerVars
<1>1. CASE GetAssert
  BY <1>1 DEF GetAssert
<1>2. CASE GetTest
  BY <1>2 DEF GetTest
<1>3. CASE GetTmp
  BY <1>3 DEF GetTmp
<1>4. CASE GetVal
  BY <1>4 DEF GetVal
<1>5. CASE GetFirst
  BY <1>5 DEF GetFirst
<1>6. CASE GetNext
  <2>1. rpc = "next" /\ rpc' = "set" /\ tmp \in Nodes /\ cur = tmp /\ got = tmp /\ first = tmp
    BY <1>6 DEF GetNext
  <2>2. CASE Bad(cur)
    BY <1>6, <2>2 DEF GetNext
  <2>3. CASE ~Bad(cur)
    <3>1. cur' = nxt[cur] /\ UNCHANGED <<first, last, nxt, writerVars, got, tmp>>
      BY <1>6, <2>3 DEF GetNext
    <3>2. nxt[cur] = NULL \/ nxt[cur] > got
      BY <2>1
    <3>3. LinksForward'
      BY <2>1, <3>1
    <3>4. FirstIsNew'
      BY <2>1, <3>1, <3>2
    <3> QED
      BY <3>3, <3>4
  <2> QED
    BY <2>2, <2>3
<1>7. CASE GetSet
  BY <1>7 DEF GetSet
<1>8. CASE GetFree
  BY <1>8 DEF GetFree
<1>9. CASE GetLoad
  BY <1>9 DEF GetLoad
<1>10. CASE GetStore
  BY <1>10 DEF GetStore
<1> QED
  BY <1>1, <1>2, <1>3, <1>4, <1>5, <1>6, <1>7, <1>8, <1>9, <1>10 DEF Reader

\* Up to the crash the links of lab2/src/1/queue lead to newer nodes.
THEOREM OrderInvariance == RawSpec => []OrderInv
<1>1. RawInit => OrderInv
  BY MaxAddsAssumption DEF RawInit, OrderInv, LinksForward, FirstIsNew, Newest, NULL
<1>2. TypeInv /\ OrderInv /\ [RawNext]_rawVars => OrderInv'
  <2> SUFFICES ASSUME TypeInv, OrderInv, [RawNext]_rawVars PROVE OrderInv'
    OBVIOUS
  <2>1. CASE ~crashed /\ Writer
    BY <2>1, WriterOrder
  <2>2. CASE ~crashed /\ Reader
    BY <2>2, ReaderOrder
  <2>3. CASE UNCHANGED rawVars
    BY <2>3 DEF OrderInv, LinksForward, FirstIsNew, Newest, rawVars, queueVars, writerVars, readerVars
  <2> QED
    BY <2>1, <2>2, <2>3 DEF RawNext, Ended
<1> QED
  BY <1>1, <1>2, TypeInvariance, PTL DEF RawSpec

\* The unsynchronised queue may lose values or crash, but up to then it hands
\* the reader no value twice and none out of order, whatever the capacity.
THEOREM ReaderSeesOrder == RawSpec => ValuesIncrease
<1>1. TypeInv /\ OrderInv /\ [RawNext]_rawVars => [GetVal /\ ~crashed' => tmp > got]_rawVars
  <2> SUFFICES ASSUME TypeInv, OrderInv, [RawNext]_rawVars, GetVal, ~crashed', ~UNCHANGED rawVars
               PROVE  tmp > got
    OBVIOUS
  <2>1. ~crashed
    BY DEF RawNext, Ended
  <2>2. rpc = "val" /\ tmp # NULL
    BY DEF GetVal, R, Bad
  <2> QED
    BY <2>1, <2>2 DEF OrderInv, FirstIsNew
<1> QED
  BY <1>1, OrderInvariance, TypeInvariance, PTL DEF RawSpec, ValuesIncrease
===============================================================================
