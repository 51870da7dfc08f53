------------------------------ MODULE FutexMutex ------------------------------
(***************************************************************************)
(* The futex mutex of lab2/src/4/mutex/mutex.c, used by the threads of     *)
(* lab2/src/4/test.c to guard a shared counter.  One action per atomic     *)
(* operation of the C code: a compare-and-swap, one futex system call, or  *)
(* one plain access to m->tid or counter.                                  *)
(***************************************************************************)
EXTENDS Integers, FiniteSets

CONSTANTS Threads,     \* threads running increment_with_mutex
          Increments,  \* iterations of its loop (INCREMENTS)
          NoTid        \* NO_TID

ASSUME IncrementsAssumption == Increments \in Nat \ {0}
ASSUME NoTidAssumption == NoTid \notin Threads
ASSUME ThreadsAssumption == IsFiniteSet(Threads)

STATUS_LOCK == 0
STATUS_UNLOCK == 1

VARIABLES
  lock,      \* m->lock, also the futex word
  tid,       \* m->tid
  sleepers,  \* threads queued by the kernel on the futex
  counter,   \* the shared counter of test.c
  reg,       \* per thread: the register of its load/add/store of counter
  left,      \* per thread: loop iterations still to finish
  pc         \* per thread: the next operation

vars == <<lock, tid, sleepers, counter, reg, left, pc>>

PCs == {"cas", "wait", "asleep", "owner", "load", "store",
        "check", "release", "wake", "done"}

TypeOK ==
  /\ lock \in {STATUS_LOCK, STATUS_UNLOCK}
  /\ tid \in Threads \cup {NoTid}
  /\ sleepers \in SUBSET Threads
  /\ counter \in Nat
  /\ reg \in [Threads -> Nat]
  /\ left \in [Threads -> 0..Increments]
  /\ pc \in [Threads -> PCs]

\* mutex_init, and main having started every thread.
Init ==
  /\ lock = STATUS_UNLOCK
  /\ tid = NoTid
  /\ sleepers = {}
  /\ counter = 0
  /\ reg = [t \in Threads |-> 0]
  /\ left = [t \in Threads |-> Increments]
  /\ pc = [t \in Threads |-> "cas"]

-----------------------------------------------------------------------------
(* mutex_lock *)

\* Mutant: an unconditional exchange, its old value ignored.
TryLockBlind(t) ==
  /\ pc[t] = "cas"
  /\ lock' = STATUS_LOCK
  /\ pc' = [pc EXCEPT ![t] = "owner"]
  /\ UNCHANGED <<tid, sleepers, counter, reg, left>>

\* atomic_compare_exchange_strong(&m->lock, UNLOCK, LOCK).
TryLock(t) ==
  /\ pc[t] = "cas"
  /\ IF lock = STATUS_UNLOCK
       THEN /\ lock' = STATUS_LOCK
            /\ pc' = [pc EXCEPT ![t] = "owner"]
       ELSE /\ pc' = [pc EXCEPT ![t] = "wait"]
            /\ UNCHANGED lock
  /\ UNCHANGED <<tid, sleepers, counter, reg, left>>

\* Mutant: the caller sleeps without the kernel re-checking the futex word.
FutexWaitUnchecked(t) ==
  /\ pc[t] = "wait"
  /\ sleepers' = sleepers \cup {t}
  /\ pc' = [pc EXCEPT ![t] = "asleep"]
  /\ UNCHANGED <<lock, tid, counter, reg, left>>

\* FUTEX_WAIT: the kernel compares the word with 0 (STATUS_LOCK) and queues
\* the caller in one step; a different word is EAGAIN and the loop retries.
FutexWait(t) ==
  /\ pc[t] = "wait"
  /\ IF lock = STATUS_LOCK
       THEN /\ sleepers' = sleepers \cup {t}
            /\ pc' = [pc EXCEPT ![t] = "asleep"]
       ELSE /\ pc' = [pc EXCEPT ![t] = "cas"]
            /\ UNCHANGED sleepers
  /\ UNCHANGED <<lock, tid, counter, reg, left>>

\* FUTEX_WAIT ends early (a signal, a spurious wakeup): futex_wait returns,
\* its result is ignored and the loop retries.
FutexInterrupted(t) ==
  /\ pc[t] = "asleep"
  /\ sleepers' = sleepers \ {t}
  /\ pc' = [pc EXCEPT ![t] = "cas"]
  /\ UNCHANGED <<lock, tid, counter, reg, left>>

\* Mutant: the owner does not record itself in m->tid.
SetTidForgotten(t) ==
  /\ pc[t] = "owner"
  /\ pc' = [pc EXCEPT ![t] = "load"]
  /\ UNCHANGED <<lock, tid, sleepers, counter, reg, left>>

\* m->tid = gettid(), after the lock is taken.
SetTid(t) ==
  /\ pc[t] = "owner"
  /\ tid' = t
  /\ pc' = [pc EXCEPT ![t] = "load"]
  /\ UNCHANGED <<lock, sleepers, counter, reg, left>>

-----------------------------------------------------------------------------
(* counter++ : a load and a store *)

Load(t) ==
  /\ pc[t] = "load"
  /\ reg' = [reg EXCEPT ![t] = counter]
  /\ pc' = [pc EXCEPT ![t] = "store"]
  /\ UNCHANGED <<lock, tid, sleepers, counter, left>>

Store(t) ==
  /\ pc[t] = "store"
  /\ counter' = reg[t] + 1
  /\ pc' = [pc EXCEPT ![t] = "check"]
  /\ UNCHANGED <<lock, tid, sleepers, reg, left>>

-----------------------------------------------------------------------------
(* mutex_unlock, and the end of a loop iteration *)

NextIteration(t) ==
  /\ left' = [left EXCEPT ![t] = @ - 1]
  /\ pc' = [pc EXCEPT ![t] = IF left[t] = 1 THEN "done" ELSE "cas"]

\* Returning from mutex_unlock while a wakeup is handed to another thread.
NextIterationWaking(t, w) ==
  /\ left' = [left EXCEPT ![t] = @ - 1]
  /\ pc' = [pc EXCEPT ![t] = IF left[t] = 1 THEN "done" ELSE "cas",
                      ![w] = "cas"]

\* if (!pthread_equal(m->tid, gettid())) return: the lock stays taken.
CheckOwner(t) ==
  /\ pc[t] = "check"
  /\ IF tid = t
       THEN pc' = [pc EXCEPT ![t] = "release"] /\ UNCHANGED left
       ELSE NextIteration(t)
  /\ UNCHANGED <<lock, tid, sleepers, counter, reg>>

\* atomic_compare_exchange_strong(&m->lock, LOCK, UNLOCK); m->tid is kept.
Release(t) ==
  /\ pc[t] = "release"
  /\ IF lock = STATUS_LOCK
       THEN /\ lock' = STATUS_UNLOCK
            /\ pc' = [pc EXCEPT ![t] = "wake"]
            /\ UNCHANGED left
       ELSE NextIteration(t) /\ UNCHANGED lock
  /\ UNCHANGED <<tid, sleepers, counter, reg>>

\* Mutant: FUTEX_WAKE with a count of 0 wakes nobody.
FutexWakeNobody(t) ==
  /\ pc[t] = "wake"
  /\ NextIteration(t)
  /\ UNCHANGED <<lock, tid, sleepers, counter, reg>>

\* FUTEX_WAKE with a count of 1: one sleeper, if there is any, retries.
FutexWake(t) ==
  /\ pc[t] = "wake"
  /\ \/ /\ sleepers = {}
        /\ NextIteration(t)
        /\ UNCHANGED sleepers
     \/ \E w \in sleepers :
          /\ sleepers' = sleepers \ {w}
          /\ NextIterationWaking(t, w)
  /\ UNCHANGED <<lock, tid, counter, reg>>

-----------------------------------------------------------------------------
AllDone == \A t \in Threads : pc[t] = "done"

\* main joins every thread and prints the counter.
Finished == AllDone /\ UNCHANGED vars

Step(t) ==
  \/ TryLock(t) \/ FutexWait(t) \/ SetTid(t) \/ Load(t) \/ Store(t)
  \/ CheckOwner(t) \/ Release(t) \/ FutexWake(t)

Next == (\E t \in Threads : Step(t) \/ FutexInterrupted(t)) \/ Finished

Spec == Init /\ [][Next]_vars

-----------------------------------------------------------------------------
InCS(t) == pc[t] \in {"owner", "load", "store", "check", "release"}

\* Between a successful compare-and-swap in mutex_lock and the one in
\* mutex_unlock at most one thread runs, and the word says LOCK.
MutualExclusion ==
  /\ \A s, t \in Threads : InCS(s) /\ InCS(t) => s = t
  /\ \A t \in Threads : InCS(t) => lock = STATUS_LOCK

\* The ownership test of mutex_unlock never refuses the real owner, although
\* m->tid is written after the lock is taken and never reset.
OwnerNotRefused ==
  \A t \in Threads : pc[t] \in {"load", "store", "check", "release"} => tid = t

\* No lost wakeup: while a thread sleeps on the futex, the mutex is held (its
\* holder will wake someone) or some thread is about to wake one or to retry.
NoLostWakeup ==
  sleepers # {} =>
    \/ \E t \in Threads : InCS(t)
    \/ \E t \in Threads : pc[t] \in {"wake", "cas", "wait"}

\* Every thread finishes its loop, so main's joins return.
Termination == <>AllDone
===============================================================================
