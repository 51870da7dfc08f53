----------------------------- MODULE QueueThreads -----------------------------
(***************************************************************************)
(* The program of lab2/src/2/queue_threads.c, which is built once for each *)
(* of the four queues: a reader, a writer, and main, which cancels and     *)
(* joins both and destroys the queue.  What queue_add and queue_get do     *)
(* between their first and last step is left to the modules that extend    *)
(* this one.                                                               *)
(***************************************************************************)
EXTENDS QueueList

VARIABLES
  dead,       \* threads that acted on their cancellation
  cancelled,  \* threads pthread_cancel was called for
  mpc         \* main: "sleep", "cancel", "join", "destroy" or "returned"

mainVars == <<dead, cancelled, mpc>>

Threads == {"reader", "writer"}

ThreadsTypeOK ==
  /\ ListTypeOK
  /\ dead \in SUBSET Threads
  /\ cancelled \in SUBSET Threads
  /\ mpc \in {"sleep", "cancel", "join", "destroy", "returned"}

ThreadsInit ==
  /\ ListInit
  /\ dead = {}
  /\ cancelled = {}
  /\ mpc = "sleep"

\* pthread_testcancel at the head of either loop, or another cancellation point.
Die(t) ==
  /\ t \in cancelled \ dead
  /\ dead' = dead \cup {t}
  /\ UNCHANGED <<listVars, cancelled, mpc>>

\* sleep returns, then pthread_cancel(rtid).
CancelReader ==
  /\ mpc = "sleep"
  /\ cancelled' = cancelled \cup {"reader"}
  /\ mpc' = "cancel"
  /\ UNCHANGED <<listVars, dead>>

\* Mutant: the writer is not cancelled.
CancelWriterForgotten ==
  /\ mpc = "cancel"
  /\ mpc' = "join"
  /\ UNCHANGED <<listVars, dead, cancelled>>

\* pthread_cancel(wtid).
CancelWriter ==
  /\ mpc = "cancel"
  /\ cancelled' = cancelled \cup {"writer"}
  /\ mpc' = "join"
  /\ UNCHANGED <<listVars, dead>>

\* pthread_join of both threads.
Join ==
  /\ mpc = "join"
  /\ dead = Threads
  /\ mpc' = "destroy"
  /\ UNCHANGED <<listVars, dead, cancelled>>

Main == CancelReader \/ CancelWriter \/ Join

\* queue_destroy, once it has the queue's lock.
Destroy ==
  /\ mpc = "destroy"
  /\ FreeAll
  /\ mpc' = "returned"
  /\ UNCHANGED <<dead, cancelled>>

-----------------------------------------------------------------------------
\* Until queue_destroy the list is one chain of live nodes that agrees with
\* count: no queue operation reads or writes a freed node or NULL.
ListIntact == mpc # "returned" => Chained

\* The linked list, its lock and its two users make up a bounded first-in
\* first-out queue.
Abstract == INSTANCE Fifo WITH queue <- Contents
ImplementsFifo == Abstract!Spec
===============================================================================
