----------------------------- MODULE QueueCondvar -----------------------------
(***************************************************************************)
(* The queue of lab2/src/2/queue_condvar: queue_add waits on               *)
(* condvar_writer while the queue is full and queue_get on condvar_reader  *)
(* while it is empty.  pthread_cond_wait is a cancellation point: a thread *)
(* cancelled in it takes the mutex again before it ends, and, as no        *)
(* cleanup handler is pushed, ends with the mutex locked.                  *)
(***************************************************************************)
EXTENDS QueueThreads

VARIABLES
  pc,         \* per thread: "top", "call" or "waiting"
  abandoned   \* q->mutex is held by a thread that has ended

vars == <<listVars, mainVars, pc, abandoned>>

TypeOK ==
  /\ ThreadsTypeOK
  /\ pc \in [Threads -> {"top", "call", "waiting"}]
  /\ abandoned \in BOOLEAN

Init ==
  /\ ThreadsInit
  /\ pc = [t \in Threads |-> "top"]
  /\ abandoned = FALSE

\* The head of the loop: pthread_testcancel, or the call of queue_add or
\* queue_get.  The writer makes at most MaxAdds calls.
TestCancel(t) ==
  /\ pc[t] = "top"
  /\ t \notin dead
  /\ t = "writer" /\ i = MaxAdds => t \in cancelled
  /\ IF t \in cancelled
       THEN dead' = dead \cup {t} /\ UNCHANGED pc
       ELSE pc' = [pc EXCEPT ![t] = "call"] /\ UNCHANGED dead
  /\ UNCHANGED <<listVars, cancelled, mpc, abandoned>>

\* pthread_cond_signal: t, if it waits, goes on to take the mutex.
Signal(t) == IF pc[t] = "waiting" THEN "call" ELSE pc[t]

\* pthread_mutex_lock, or pthread_cond_wait taking the mutex back, and the test
\* of the while loop: wait, for room or for a value.  A cancellation that is
\* pending acts when pthread_cond_wait is entered.
Wait(t) ==
  /\ pc[t] = "call"
  /\ ~abandoned
  /\ count = IF t = "writer" THEN MaxCount ELSE 0
  /\ IF t \in cancelled
       THEN Die(t) /\ abandoned' = TRUE /\ UNCHANGED pc
       ELSE /\ pc' = [pc EXCEPT ![t] = "waiting"]
            /\ UNCHANGED <<listVars, mainVars, abandoned>>

\* Mutant: the writer signals only when the queue was not empty.
AddSignalsLate ==
  /\ pc["writer"] = "call"
  /\ ~abandoned
  /\ count # MaxCount
  /\ Enqueue
  /\ pc' = [writer |-> "top", reader |-> IF count > 0 THEN Signal("reader") ELSE pc["reader"]]
  /\ UNCHANGED <<mainVars, abandoned>>

\* queue_add from its last test of the loop to its return: add the value,
\* signal condvar_reader, unlock.
Add ==
  /\ pc["writer"] = "call"
  /\ ~abandoned
  /\ count # MaxCount
  /\ Enqueue
  /\ pc' = [writer |-> "top", reader |-> Signal("reader")]
  /\ UNCHANGED <<mainVars, abandoned>>

\* queue_get in the same way: take a value, signal condvar_writer, unlock.
Get ==
  /\ pc["reader"] = "call"
  /\ ~abandoned
  /\ count # 0
  /\ Dequeue
  /\ pc' = [reader |-> "top", writer |-> Signal("writer")]
  /\ UNCHANGED <<mainVars, abandoned>>

SpuriousWakeup(t) ==
  /\ pc[t] = "waiting"
  /\ t \notin dead
  /\ pc' = [pc EXCEPT ![t] = "call"]
  /\ UNCHANGED <<listVars, mainVars, abandoned>>

\* The cancellation acts in pthread_cond_wait, which locks q->mutex first.
CancelledInWait(t) ==
  /\ pc[t] = "waiting"
  /\ ~abandoned
  /\ Die(t)
  /\ abandoned' = TRUE
  /\ UNCHANGED pc

\* queue_destroy locks q->mutex.
queue_destroy ==
  /\ ~abandoned
  /\ Destroy
  /\ UNCHANGED <<pc, abandoned>>

-----------------------------------------------------------------------------
\* The program has ended, or a thread that is gone holds the mutex and whoever
\* needs it waits for ever.
Stopped ==
  /\ mpc = "returned" \/ abandoned
  /\ UNCHANGED vars

Step(t) == TestCancel(t) \/ Wait(t) \/ CancelledInWait(t)

Next ==
  \/ Add \/ Get
  \/ \E t \in Threads : Step(t) \/ SpuriousWakeup(t)
  \/ Main /\ UNCHANGED <<pc, abandoned>>
  \/ queue_destroy
  \/ Stopped

Spec == Init /\ [][Next]_vars
===============================================================================
