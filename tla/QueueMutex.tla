------------------------------ MODULE QueueMutex ------------------------------
(***************************************************************************)
(* The queue of lab2/src/2/queue_mutex.  queue_add and queue_get never     *)
(* wait for room or for a value: on a full or an empty queue they return 0 *)
(* and the thread tries again, which changes nothing.  Each is one         *)
(* critical section of q->mutex and one action.                            *)
(***************************************************************************)
EXTENDS QueueThreads

vars == <<listVars, mainVars>>

TypeOK == ThreadsTypeOK

Init == ThreadsInit

\* queue_add returns 1.
Add ==
  /\ "writer" \notin dead
  /\ count # MaxCount
  /\ Enqueue
  /\ UNCHANGED mainVars

\* queue_get returns 1.
Get ==
  /\ "reader" \notin dead
  /\ count # 0
  /\ Dequeue
  /\ UNCHANGED mainVars

\* The program is over.
Returned == mpc = "returned" /\ UNCHANGED vars

Next ==
  \/ Add \/ Get
  \/ \E t \in Threads : Die(t)
  \/ Main \/ Destroy
  \/ Returned

Spec == Init /\ [][Next]_vars
===============================================================================
