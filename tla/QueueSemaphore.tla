---------------------------- MODULE QueueSemaphore ----------------------------
(***************************************************************************)
(* The queue of lab2/src/2/queue_semaphore: the semaphore empty counts the *)
(* free places, full the values, and a mutex guards the list.  sem_wait is *)
(* a cancellation point outside the mutex, so a cancelled thread ends with *)
(* the mutex free.  The model ends with main's joins: this queue_destroy   *)
(* takes a queue_t ** and main passes it a queue_t *, which has no defined *)
(* meaning.                                                                *)
(***************************************************************************)
EXTENDS QueueThreads

VARIABLES
  empty, full,  \* the values of the semaphores
  pc            \* per thread: "top", "sem" (in sem_wait) or "lock"

vars == <<listVars, mainVars, empty, full, pc>>

TypeOK ==
  /\ ThreadsTypeOK
  /\ empty \in 0..MaxCount
  /\ full \in 0..MaxCount
  /\ pc \in [Threads -> {"top", "sem", "lock"}]

Init ==
  /\ ThreadsInit
  /\ empty = MaxCount
  /\ full = 0
  /\ pc = [t \in Threads |-> "top"]

\* pthread_testcancel, or the call of queue_add or queue_get up to sem_wait,
\* whose assertion on count, read without the mutex, holds by SemaphoresExact.
\* The writer makes at most MaxAdds calls.
TestCancel(t) ==
  /\ pc[t] = "top"
  /\ t \notin dead
  /\ t = "writer" /\ i = MaxAdds => t \in cancelled
  /\ IF t \in cancelled
       THEN dead' = dead \cup {t} /\ UNCHANGED pc
       ELSE pc' = [pc EXCEPT ![t] = "sem"] /\ UNCHANGED dead
  /\ UNCHANGED <<listVars, cancelled, mpc, empty, full>>

\* sem_wait(&q->empty) returns.
WaitEmpty ==
  /\ pc["writer"] = "sem"
  /\ "writer" \notin dead
  /\ empty > 0
  /\ empty' = empty - 1
  /\ pc' = [pc EXCEPT !["writer"] = "lock"]
  /\ UNCHANGED <<listVars, mainVars, full>>

\* sem_wait(&q->full) returns.
WaitFull ==
  /\ pc["reader"] = "sem"
  /\ "reader" \notin dead
  /\ full > 0
  /\ full' = full - 1
  /\ pc' = [pc EXCEPT !["reader"] = "lock"]
  /\ UNCHANGED <<listVars, mainVars, empty>>

\* The cancellation acts in sem_wait.
CancelledInWait(t) ==
  /\ pc[t] = "sem"
  /\ Die(t)
  /\ UNCHANGED <<empty, full, pc>>

\* queue_add under the mutex: add the value and post full.
Add ==
  /\ pc["writer"] = "lock"
  /\ Enqueue
  /\ full' = full + 1
  /\ pc' = [pc EXCEPT !["writer"] = "top"]
  /\ UNCHANGED <<mainVars, empty>>

\* queue_get under the mutex: take a value and post empty.
Get ==
  /\ pc["reader"] = "lock"
  /\ Dequeue
  /\ empty' = empty + 1
  /\ pc' = [pc EXCEPT !["reader"] = "top"]
  /\ UNCHANGED <<mainVars, full>>

Joined == mpc = "destroy" /\ UNCHANGED vars

Step(t) == TestCancel(t) \/ CancelledInWait(t)

Next ==
  \/ \E t \in Threads : Step(t)
  \/ WaitEmpty \/ WaitFull \/ Add \/ Get
  \/ Main /\ UNCHANGED <<empty, full, pc>>
  \/ Joined

Spec == Init /\ [][Next]_vars

-----------------------------------------------------------------------------
Holds(t, p) == IF pc[t] = p THEN 1 ELSE 0

\* The semaphores account for the list: every place is free, promised to the
\* writer, in use, or being emptied by the reader, and a thread that was
\* cancelled has taken nothing with it.  So count stays in 0..MaxCount, as the
\* assertions of queue_add and queue_get say without holding the mutex.
SemaphoresExact ==
  /\ full + Holds("reader", "lock") = count
  /\ empty + Holds("writer", "lock") + count = MaxCount
===============================================================================
