------------------------------- MODULE LockTest -------------------------------
(***************************************************************************)
(* main of lab2/src/4/test.c: the threads increment the counter under the  *)
(* spinlock of lab2/src/4/spinlock; when they are joined the counter is    *)
(* set to 0 and new threads do the same under the mutex (FutexMutex).      *)
(***************************************************************************)
EXTENDS FutexMutex

VARIABLES
  phase,     \* the loop of main: "spinlock" or "mutex"
  spinlock,  \* the spinlock
  spun,      \* counter in the first phase
  spc,       \* per thread of the first phase: its next operation,
  sreg,      \* the register of its counter++
  sleft      \* and its loop iterations still to finish

spinVars == <<phase, spinlock, spun, spc, sreg, sleft>>
testVars == <<vars, spinVars>>

\* spinlock_init, and main having started the threads of the first phase.
TestInit ==
  /\ Init
  /\ phase = "spinlock"
  /\ spinlock = STATUS_UNLOCK
  /\ spun = 0
  /\ spc = [t \in Threads |-> "cas"]
  /\ sreg = [t \in Threads |-> 0]
  /\ sleft = [t \in Threads |-> Increments]

SpinGoto(t, p, q) == spc[t] = p /\ spc' = [spc EXCEPT ![t] = q]

\* Mutant: an unconditional exchange, its old value ignored.
SpinLockBlind(t) ==
  /\ SpinGoto(t, "cas", "load")
  /\ spinlock' = STATUS_LOCK
  /\ UNCHANGED <<spun, sreg, sleft>>

\* spinlock_lock: the compare-and-swap that succeeds; one that fails is only
\* tried again.
SpinLock(t) ==
  /\ SpinGoto(t, "cas", "load")
  /\ spinlock = STATUS_UNLOCK
  /\ spinlock' = STATUS_LOCK
  /\ UNCHANGED <<spun, sreg, sleft>>

\* counter++: a load and a store.
SpinLoad(t) ==
  /\ SpinGoto(t, "load", "store")
  /\ sreg' = [sreg EXCEPT ![t] = spun]
  /\ UNCHANGED <<spinlock, spun, sleft>>

SpinStore(t) ==
  /\ SpinGoto(t, "store", "unlock")
  /\ spun' = sreg[t] + 1
  /\ UNCHANGED <<spinlock, sreg, sleft>>

\* spinlock_unlock, a compare-and-swap whose failure is ignored, and the end of
\* the iteration.
SpinUnlock(t) ==
  /\ SpinGoto(t, "unlock", IF sleft[t] = 1 THEN "done" ELSE "cas")
  /\ spinlock' = IF spinlock = STATUS_LOCK THEN STATUS_UNLOCK ELSE spinlock
  /\ sleft' = [sleft EXCEPT ![t] = @ - 1]
  /\ UNCHANGED <<spun, sreg>>

Spin(t) ==
  /\ phase = "spinlock"
  /\ SpinLock(t) \/ SpinLoad(t) \/ SpinStore(t) \/ SpinUnlock(t)
  /\ UNCHANGED <<vars, phase>>

\* The threads are joined, the counter is printed and set to 0.
JoinSpinners ==
  /\ phase = "spinlock"
  /\ \A t \in Threads : spc[t] = "done"
  /\ phase' = "mutex"
  /\ UNCHANGED <<vars, spinlock, spun, spc, sreg, sleft>>

Mutex(A) == phase = "mutex" /\ A /\ UNCHANGED spinVars

TestNext ==
  \/ \E t \in Threads : Spin(t)
  \/ JoinSpinners
  \/ Mutex(Next)

\* The scheduler runs every thread.  The spinlock favours nobody, but the other
\* threads finish their loops and leave it free.
TestSpec ==
  /\ TestInit
  /\ [][TestNext]_testVars
  /\ WF_testVars(JoinSpinners)
  /\ \A t \in Threads : WF_testVars(Spin(t)) /\ WF_testVars(Mutex(Step(t)))

-----------------------------------------------------------------------------
\* "Final counter value with spinlock" and "Final counter value with mutex":
\* when the threads of a phase have been joined no increment was lost.
CountersFinal ==
  /\ phase = "mutex" => spun = Increments * Cardinality(Threads)
  /\ AllDone => counter = Increments * Cardinality(Threads)
===============================================================================
