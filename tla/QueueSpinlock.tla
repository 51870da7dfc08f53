---------------------------- MODULE QueueSpinlock -----------------------------
(***************************************************************************)
(* The queue of lab2/src/2/queue_spinlock, whose lock is a byte set by     *)
(* __atomic_test_and_set.  Here taking the lock, the two halves of a       *)
(* critical section (the list, then the counters) and releasing the lock   *)
(* are steps of their own, so that another thread may run in between.      *)
(***************************************************************************)
EXTENDS QueueThreads

VARIABLES
  lock,   \* q->lock->lock
  pc      \* per thread: "top", "spin", "in", "linked" or "out"

vars == <<listVars, mainVars, lock, pc>>

TypeOK ==
  /\ ThreadsTypeOK
  /\ lock \in BOOLEAN
  /\ pc \in [Threads -> {"top", "spin", "in", "linked", "out"}]

Init ==
  /\ ThreadsInit
  /\ lock = FALSE
  /\ pc = [t \in Threads |-> "top"]

Goto(t, p) == pc' = [pc EXCEPT ![t] = p]

\* The head of the loop: pthread_testcancel ends the thread, or it goes on and
\* calls queue_add or queue_get.
TestCancel(t) ==
  /\ pc[t] = "top"
  /\ t \notin dead
  /\ IF t \in cancelled
       THEN dead' = dead \cup {t} /\ UNCHANGED pc
       ELSE Goto(t, "spin") /\ UNCHANGED dead
  /\ UNCHANGED <<listVars, cancelled, mpc, lock>>

\* The turn of the spinning loop that finds the lock free; the others change
\* nothing.
spinlock_lock(t) ==
  /\ pc[t] = "spin"
  /\ ~lock
  /\ lock' = TRUE
  /\ Goto(t, "in")
  /\ UNCHANGED <<listVars, mainVars>>

spinlock_unlock(t) ==
  /\ pc[t] = "out"
  /\ lock' = FALSE
  /\ Goto(t, "top")
  /\ UNCHANGED <<listVars, mainVars>>

\* queue_add: return 0 on a full queue, or link the new node.
queue_add ==
  /\ pc["writer"] = "in"
  /\ IF count = MaxCount \/ i = MaxAdds
       THEN Goto("writer", "out") /\ UNCHANGED listVars
       ELSE /\ val' = [val EXCEPT ![i + 1] = i]
            /\ Link(i + 1)
            /\ last' = i + 1
            /\ i' = i + 1
            /\ Goto("writer", "linked")
            /\ UNCHANGED <<freed, count, expected>>
  /\ UNCHANGED <<mainVars, lock>>

\* queue_get: return 0 on an empty queue, or unlink and free the first node.
queue_get ==
  /\ pc["reader"] = "in"
  /\ IF count = 0
       THEN Goto("reader", "out") /\ UNCHANGED listVars
       ELSE /\ first' = nxt[first]
            /\ freed' = freed \cup {first}
            /\ expected' = val[first] + 1
            /\ Goto("reader", "linked")
            /\ UNCHANGED <<last, nxt, val, count, i>>
  /\ UNCHANGED <<mainVars, lock>>

\* q->count++ in queue_add, q->count-- in queue_get.
Count(t) ==
  /\ pc[t] = "linked"
  /\ count' = IF t = "writer" THEN count + 1 ELSE count - 1
  /\ Goto(t, "out")
  /\ UNCHANGED <<first, last, nxt, val, freed, i, expected, mainVars, lock>>

\* queue_destroy spins for the lock and does not release it: q is freed.
queue_destroy ==
  /\ ~lock
  /\ lock' = TRUE
  /\ Destroy
  /\ UNCHANGED pc

Step(t) == TestCancel(t) \/ spinlock_lock(t) \/ Count(t) \/ spinlock_unlock(t)

Returned == mpc = "returned" /\ UNCHANGED vars

Next ==
  \/ \E t \in Threads : Step(t)
  \/ queue_add \/ queue_get
  \/ Main /\ UNCHANGED <<lock, pc>>
  \/ queue_destroy
  \/ Returned

Spec == Init /\ [][Next]_vars
===============================================================================
