-------------------------------- MODULE Queues --------------------------------
(***************************************************************************)
(* The program of lab2/src/2, which is built with one of four queues: each *)
(* behaviour is that of one build.                                         *)
(***************************************************************************)
EXTENDS QueueThreads

VARIABLES
  build,      \* the queue in use
  pc,         \* per thread, except with the mutex queue
  lock,       \* the spinlock
  abandoned,  \* a thread that ended holds the mutex of the condition variables
  empty, full  \* the semaphore queue

variantVars == <<pc, lock, abandoned, empty, full>>
vars == <<listVars, mainVars, build, variantVars>>

M == INSTANCE QueueMutex
S == INSTANCE QueueSpinlock
C == INSTANCE QueueCondvar
E == INSTANCE QueueSemaphore

\* An action of one build, which leaves the variables of the others alone.
Mutex(A) == build = "mutex" /\ A /\ UNCHANGED <<build, variantVars>>
Spinlock(A) ==
  build = "spinlock" /\ A /\ UNCHANGED <<build, abandoned, empty, full>>
Condvar(A) ==
  build = "condvar" /\ A /\ UNCHANGED <<build, lock, empty, full>>
Semaphore(A) == build = "semaphore" /\ A /\ UNCHANGED <<build, lock, abandoned>>

Init ==
  /\ build \in {"mutex", "spinlock", "condvar", "semaphore"}
  /\ S!Init
  /\ C!Init
  /\ E!Init

Next ==
  \/ Mutex(M!Next)
  \/ Spinlock(S!Next)
  \/ Condvar(C!Next)
  \/ Semaphore(E!Next)

Spec == Init /\ [][Next]_vars

\* The scheduler runs every thread, and a thread that waits for a mutex or in
\* sem_wait gets on when it can, as there is one other thread only.  Nothing is
\* assumed of main's sleep: a run may be as long as one likes.  The spinlock favours nobody: a thread may find it taken at every turn
\* for as long as the other one goes on.  A reader or a writer of the mutex
\* queue comes to pthread_testcancel whenever it goes round its loop.
FairSpec ==
  /\ Spec
  /\ WF_vars(Mutex(M!Add)) /\ WF_vars(Mutex(M!Get))
  /\ \A t \in Threads :
       /\ WF_vars(Mutex(Die(t)))
       /\ WF_vars(Spinlock(S!Step(t)))
       /\ WF_vars(Condvar(C!Step(t)))
       /\ WF_vars(Semaphore(E!Step(t)))
  /\ WF_vars(Spinlock(S!queue_add)) /\ WF_vars(Spinlock(S!queue_get))
  /\ WF_vars(Condvar(C!Add)) /\ WF_vars(Condvar(C!Get))
  /\ WF_vars(Semaphore(E!WaitEmpty)) /\ WF_vars(Semaphore(E!Add))
  /\ WF_vars(Semaphore(E!WaitFull)) /\ WF_vars(Semaphore(E!Get))
  /\ WF_vars((CancelWriter \/ Join) /\ UNCHANGED <<build, variantVars>>)
  /\ WF_vars(\/ Mutex(Destroy) \/ Spinlock(S!queue_destroy) \/ Condvar(C!queue_destroy))

-----------------------------------------------------------------------------
TypeOK ==
  CASE build = "mutex" -> M!TypeOK
    [] build = "spinlock" -> S!TypeOK
    [] build = "condvar" -> C!TypeOK
    [] build = "semaphore" -> E!TypeOK

\* The variables keep their types, and the list is one chain of live nodes that
\* agrees with count except in the critical sections of the spinlock (those of
\* the other queues are single steps): no operation reads or writes a freed
\* node or NULL, though last goes on pointing to a freed one (queue.c:84).  The
\* semaphores account for every place of the list, also those promised to a
\* thread that is then cancelled (queue_semaphore/queue.c:82, 117).
IntactOutsideLock ==
  /\ TypeOK
  /\ (build = "spinlock" /\ lock) \/ ListIntact
  /\ build = "semaphore" => E!SemaphoresExact

\* Every value the writer adds is read, unless main cancels the threads.  The
\* spinlock may starve the reader.
Delivered ==
  build # "spinlock" =>
    \A v \in 1..MaxAdds : i >= v ~> (expected >= v \/ mpc # "sleep")

\* Once main cancels, both threads act on it, wherever it meets them, and main
\* returns; with the semaphores it comes to destroy the queue with the mutex
\* free.  The exception is a thread cancelled in pthread_cond_wait, which takes
\* the mutex with it.
ProgramEnds ==
  mpc = "cancel" ~>
    \/ mpc = "returned"
    \/ build = "condvar" /\ abandoned
    \/ /\ build = "semaphore" /\ mpc = "destroy"
       /\ \A t \in Threads : pc[t] # "lock"
===============================================================================
