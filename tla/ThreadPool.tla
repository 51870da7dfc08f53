------------------------------ MODULE ThreadPool ------------------------------
(***************************************************************************)
(* The thread pool of lab3/src/threadpool/threadpool.c.  The list hanging  *)
(* off last_task is a stack: pushes and pops happen at its last element.   *)
(* Every critical section of pool->mutex is one action; a worker inside    *)
(* pthread_cond_wait has given the mutex up.                               *)
(***************************************************************************)
EXTENDS Integers, Sequences, FiniteSets

CONSTANTS Workers,  \* the MAX_THREADS threads init_threadpool starts
          Tasks,    \* task nodes: a node whose task is done is freed and may be used again
          NoTask    \* NULL

ASSUME WorkersAssumption == IsFiniteSet(Workers)
ASSUME NoTaskAssumption == NoTask \notin Tasks

VARIABLES
  stack,       \* the prev chain from last_task, newest task first
  queue_size,  \* pool->queue_size
  stop,        \* pool->stop
  wpc,         \* per worker: "lock", "waiting", "run" or "exited"
  task,        \* per worker: the task it is executing
  pushed,      \* tasks handed to threadpool_push_task
  done,        \* those of them whose function returned
  dpc          \* destroy_threadpool: "no", "join" or "returned"

poolVars == <<stack, queue_size, stop, wpc, task, pushed, done, dpc>>

PoolTypeOK ==
  /\ stack \in Seq(Tasks)
  /\ queue_size \in Nat
  /\ stop \in BOOLEAN
  /\ wpc \in [Workers -> {"lock", "waiting", "run", "exited"}]
  /\ task \in [Workers -> Tasks \cup {NoTask}]
  /\ pushed \in SUBSET Tasks
  /\ done \in SUBSET Tasks
  /\ dpc \in {"no", "join", "returned"}

\* init_threadpool.
PoolInit ==
  /\ stack = <<>>
  /\ queue_size = 0
  /\ stop = FALSE
  /\ wpc = [w \in Workers |-> "lock"]
  /\ task = [w \in Workers |-> NoTask]
  /\ pushed = {}
  /\ done = {}
  /\ dpc = "no"

-----------------------------------------------------------------------------
(* threadpool_push_task *)

InPC(p) == {w \in Workers : wpc[w] = p}

\* Mutant: the condition is signalled only when the queue was empty.
SignalIfEmpty ==
  IF InPC("waiting") = {} \/ queue_size > 0
    THEN UNCHANGED wpc
    ELSE \E w \in InPC("waiting") : wpc' = [wpc EXCEPT ![w] = "lock"]

\* Mutant: the condition is not signalled.
SignalNobody == UNCHANGED wpc

\* pthread_cond_signal: one waiter, if there is any, leaves its wait and goes
\* to take the mutex again.
Signal ==
  IF InPC("waiting") = {}
    THEN UNCHANGED wpc
    ELSE \E w \in InPC("waiting") : wpc' = [wpc EXCEPT ![w] = "lock"]

\* Called by the owner of the pool, which does not push once it destroys it and
\* until then may push for ever.
Push(t) ==
  /\ dpc = "no"
  /\ t \notin pushed \ done
  /\ stack' = <<t>> \o stack
  /\ queue_size' = queue_size + 1
  /\ pushed' = pushed \cup {t}
  /\ done' = done \ {t}
  /\ Signal
  /\ UNCHANGED <<stop, task, dpc>>

-----------------------------------------------------------------------------
(* worker *)

\* Nothing to do: pthread_cond_wait releases the mutex.
Wait(w) ==
  /\ wpc[w] = "lock"
  /\ queue_size = 0 /\ ~stop
  /\ wpc' = [wpc EXCEPT ![w] = "waiting"]
  /\ UNCHANGED <<stack, queue_size, stop, task, pushed, done, dpc>>

\* pthread_cond_wait may return without a signal.
SpuriousWakeup(w) ==
  /\ wpc[w] = "waiting"
  /\ wpc' = [wpc EXCEPT ![w] = "lock"]
  /\ UNCHANGED <<stack, queue_size, stop, task, pushed, done, dpc>>

\* if (pool->stop) break, whatever is still queued.
Exit(w) ==
  /\ wpc[w] = "lock"
  /\ stop
  /\ wpc' = [wpc EXCEPT ![w] = "exited"]
  /\ UNCHANGED <<stack, queue_size, stop, task, pushed, done, dpc>>

\* Mutant: the popped task stays last_task.
TakeWithoutPop(w) ==
  /\ wpc[w] = "lock"
  /\ queue_size > 0 /\ ~stop
  /\ task' = [task EXCEPT ![w] = Head(stack)]
  /\ queue_size' = queue_size - 1
  /\ wpc' = [wpc EXCEPT ![w] = "run"]
  /\ UNCHANGED <<stack, stop, pushed, done, dpc>>

\* Pop last_task.
Take(w) ==
  /\ wpc[w] = "lock"
  /\ queue_size > 0 /\ ~stop
  /\ task' = [task EXCEPT ![w] = IF stack = <<>> THEN NoTask ELSE Head(stack)]
  /\ queue_size' = queue_size - 1
  /\ stack' = IF stack = <<>> THEN stack ELSE Tail(stack)
  /\ wpc' = [wpc EXCEPT ![w] = "run"]
  /\ UNCHANGED <<stop, pushed, done, dpc>>

\* task->function(task->argument) returns.
Finish(w) ==
  /\ wpc[w] = "run"
  /\ done' = done \cup {task[w]}
  /\ task' = [task EXCEPT ![w] = NoTask]
  /\ wpc' = [wpc EXCEPT ![w] = "lock"]
  /\ UNCHANGED <<stack, queue_size, stop, pushed, dpc>>

-----------------------------------------------------------------------------
(* destroy_threadpool *)

\* Mutant: pthread_cond_signal in place of pthread_cond_broadcast.
StopSignalled ==
  /\ dpc = "no"
  /\ stop' = TRUE
  /\ dpc' = "join"
  /\ Signal
  /\ UNCHANGED <<stack, queue_size, task, pushed, done>>

\* Set stop and broadcast, under the mutex.
Stop ==
  /\ dpc = "no"
  /\ stop' = TRUE
  /\ dpc' = "join"
  /\ wpc' = [w \in Workers |-> IF wpc[w] = "waiting" THEN "lock" ELSE wpc[w]]
  /\ UNCHANGED <<stack, queue_size, task, pushed, done>>

\* Every worker is joined; the tasks still in the list are freed unrun.
JoinAndFree ==
  /\ dpc = "join"
  /\ \A w \in Workers : wpc[w] = "exited"
  /\ stack' = <<>>
  /\ dpc' = "returned"
  /\ UNCHANGED <<queue_size, stop, wpc, task, pushed, done>>

-----------------------------------------------------------------------------
\* The pool is gone.
Destroyed == dpc = "returned" /\ UNCHANGED poolVars

WorkerStep(w) == Wait(w) \/ Exit(w) \/ Take(w) \/ Finish(w)

PoolNext ==
  \/ \E t \in Tasks : Push(t)
  \/ \E w \in Workers : WorkerStep(w) \/ SpuriousWakeup(w)
  \/ Stop
  \/ JoinAndFree
  \/ Destroyed

PoolSpec == PoolInit /\ [][PoolNext]_poolVars

\* Every thread that can run is scheduled again, and the tasks return.
\* Nothing makes the owner push or destroy.
PoolFairSpec ==
  /\ PoolSpec
  /\ \A w \in Workers : WF_poolVars(WorkerStep(w))
  /\ WF_poolVars(JoinAndFree)

-----------------------------------------------------------------------------
Queued == {stack[i] : i \in 1..Len(stack)}
Running == {task[w] : w \in InPC("run")}

\* A task is in one place: it is never queued twice, run by two workers, or
\* queued again after it was started; and none disappears before the pool is
\* destroyed.
TaskOnce ==
  /\ \A i, j \in 1..Len(stack) : stack[i] = stack[j] => i = j
  /\ \A v, w \in InPC("run") : task[v] = task[w] => v = w
  /\ Queued \cap Running = {} /\ Queued \cap done = {} /\ Running \cap done = {}
  /\ Queued \cup Running \cup done \subseteq pushed
  /\ dpc # "returned" => pushed \subseteq Queued \cup Running \cup done

\* A worker sleeps in pthread_cond_wait only if every queued task has a worker
\* of its own on the way to it: one signal per push is enough.
NoSleepOnWork ==
  /\ InPC("waiting") # {} => Len(stack) <= Cardinality(InPC("lock"))
  /\ stop => InPC("waiting") = {}

\* No task is pushed.
NoPush == \A t \in Tasks : ~Push(t)

\* If the pushing ends, every pushed task is run, unless the pool is stopped
\* first.  The list is a stack (threadpool.c:25 and 76): under a server that goes
\* on pushing the oldest task may stay at its bottom for ever.
PushedRuns ==
  <>[][NoPush]_poolVars => \A t \in Tasks : t \in pushed \ done ~> (t \in done \/ stop)

\* destroy_threadpool returns once the running tasks have: every sleeping
\* worker hears about stop.
DestroyReturns == dpc = "join" ~> dpc = "returned"
===============================================================================
