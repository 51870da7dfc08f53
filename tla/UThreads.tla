------------------------------- MODULE UThreads -------------------------------
(***************************************************************************)
(* The two user-level thread schedulers of lab1/src/7, used as main.c uses *)
(* them: main adds tasks, runs the scheduler until it comes back, and may  *)
(* reset it and do so again.  Everything runs on one kernel thread, so an  *)
(* action is what happens between two switches of context.                 *)
(*                                                                         *)
(* Nodes are numbered in the order of their creation and NULL is 0.  In    *)
(* uthreadpool.c they are a list: size, size - 1, ..., 1, the newest at    *)
(* its head.  In uthreadpool2.c they are a ring: 1, 2, ..., size, 1, with  *)
(* the head at size.  init_scheduler does not set head_uthread: the memory *)
(* it gets from the process's first malloc is zero.                        *)
(***************************************************************************)
EXTENDS Integers, FiniteSets

CONSTANTS Tasks,      \* calls of add_to_scheduler
          NoTask,     \* no function given to a node yet
          MaxYields,  \* bound on the yields of a task
          MaxRuns     \* bound on the calls of run_scheduler

ASSUME TasksAssumption == IsFiniteSet(Tasks) /\ NoTask \notin Tasks
ASSUME MaxYieldsAssumption == MaxYields \in Nat
ASSUME MaxRunsAssumption == MaxRuns \in Nat

VARIABLES
  ring,         \* the program is linked with uthreadpool2.c
  size,         \* scheduler->size
  status,       \* per node: uthread->status
  func,         \* per node: the task it was given last
  active,       \* scheduler->active_uthread
  is_finished,  \* scheduler->is_finished
  yields,       \* per task: calls of usched_yield in its function
  left,         \* per task: those still to come
  added,        \* tasks given to add_to_scheduler
  done,         \* tasks whose function returned
  runs,         \* calls of run_scheduler
  mpc           \* "main" or, while a uthread runs, "uthread"

vars == <<ring, size, status, func, active, is_finished, yields, left, added, done, runs, mpc>>

NULL == 0
Nodes == 1..Cardinality(Tasks)

TypeOK ==
  /\ ring \in BOOLEAN
  /\ size \in 0..Cardinality(Tasks)
  /\ status \in [Nodes -> {"IDLE", "READY", "RUNNING", "TERMINATED"}]
  /\ func \in [Nodes -> Tasks \cup {NoTask}]
  /\ active \in Nodes \cup {NULL}
  /\ is_finished \in BOOLEAN
  /\ yields \in [Tasks -> 0..MaxYields]
  /\ left \in [Tasks -> 0..MaxYields]
  /\ added \in SUBSET Tasks
  /\ done \in SUBSET Tasks
  /\ runs \in 0..MaxRuns
  /\ mpc \in {"main", "uthread"}

\* init_scheduler.
Init ==
  /\ ring \in BOOLEAN
  /\ size = 0
  /\ status = [n \in Nodes |-> "IDLE"]
  /\ func = [n \in Nodes |-> NoTask]
  /\ active = NULL
  /\ is_finished = FALSE
  /\ yields \in [Tasks -> 0..MaxYields]
  /\ left = yields
  /\ added = {}
  /\ done = {}
  /\ runs = 0
  /\ mpc = "main"

-----------------------------------------------------------------------------
(* The searches *)

Having(s) == {n \in 1..size : status[n] = s}

\* uthreadpool.c: from the head of the list to its end.
FirstWith(s) ==
  IF Having(s) = {} THEN NULL
  ELSE CHOOSE n \in Having(s) : \A m \in Having(s) : m <= n

\* uthreadpool2.c: the node k steps after n in the ring.
After(n, k) == ((n - 1 + k) % size) + 1

\* The first of limit nodes of the ring from n on that has status s.
FirstFrom(n, limit, s) ==
  LET at == {k \in 0..(limit - 1) : status[After(n, k)] = s} IN
  IF at = {} THEN NULL
  ELSE After(n, CHOOSE k \in at : \A j \in at : k <= j)

\* The searches of add_to_scheduler and run_scheduler.
Search(s) == IF ring THEN FirstFrom(size, size, s) ELSE FirstWith(s)

\* Mutant: the search stops one node earlier still.
NextReadyEarly ==
  IF ring THEN FirstFrom(active, size - 2, "READY") ELSE FirstWith("READY")

\* Mutant: the search in the ring always starts at the head.
NextReadyFromHead ==
  IF ring THEN FirstFrom(size, size - 1, "READY") ELSE FirstWith("READY")

\* Mutant: the search in the list gives up with one READY node.
NextReadyOfTwo ==
  IF ring THEN FirstFrom(active, size - 1, "READY")
  ELSE IF Cardinality(Having("READY")) < 2 THEN NULL ELSE FirstWith("READY")

\* The search of usched_yield.  That of the ring starts at the active node and
\* ends after size - 1 steps; the node it stopped at is then taken for a
\* failure, whatever its status.
NextReady ==
  IF ring THEN FirstFrom(active, size - 1, "READY") ELSE FirstWith("READY")

-----------------------------------------------------------------------------
(* The operations, given the node that their search finds *)

\* add_to_scheduler: an idle node is used again, or one is created.
AddTo(t, idle) ==
  LET n == IF idle = NULL THEN size + 1 ELSE idle IN
  /\ mpc = "main"
  /\ t \notin added
  /\ size' = IF idle = NULL THEN size + 1 ELSE size
  /\ status' = [status EXCEPT ![n] = "READY"]
  /\ func' = [func EXCEPT ![n] = t]
  /\ added' = added \cup {t}
  /\ UNCHANGED <<ring, active, is_finished, yields, left, done, runs, mpc>>

\* run_scheduler: it returns at once if the scheduler is finished or there is
\* nothing to run; otherwise control goes to a uthread.
RunFrom(ready) ==
  /\ mpc = "main"
  /\ runs < MaxRuns
  /\ runs' = runs + 1
  /\ IF is_finished \/ ready = NULL
       THEN UNCHANGED <<status, active, mpc>>
       ELSE /\ status' = [status EXCEPT ![ready] = "RUNNING"]
            /\ active' = ready
            /\ mpc' = "uthread"
  /\ UNCHANGED <<ring, size, func, is_finished, yields, left, added, done>>

\* usched_yield: switch to the node found; or, if none was, run_scheduler
\* returns to main and the current uthread's context is not saved.
YieldTo(ready, now) ==
  IF ready = NULL
    THEN /\ is_finished' = TRUE
         /\ mpc' = "main"
         /\ status' = [status EXCEPT ![active] = now]
         /\ UNCHANGED active
    ELSE /\ status' = [status EXCEPT ![active] = IF now = "TERMINATED" THEN "IDLE" ELSE "READY",
                                     ![ready] = "RUNNING"]
         /\ active' = ready
         /\ UNCHANGED <<is_finished, mpc>>

\* The running task goes on to its next usched_yield.
TaskYields(ready) ==
  LET t == func[active] IN
  /\ mpc = "uthread"
  /\ left[t] > 0
  /\ left' = [left EXCEPT ![t] = @ - 1]
  /\ YieldTo(ready, "RUNNING")
  /\ UNCHANGED <<ring, size, func, yields, added, done, runs>>

\* Mutant: __func_wrapper does not set TERMINATED.
TaskReturnsReady(ready) ==
  LET t == func[active] IN
  /\ mpc = "uthread"
  /\ left[t] = 0
  /\ done' = done \cup {t}
  /\ YieldTo(ready, "RUNNING")
  /\ UNCHANGED <<ring, size, func, yields, left, added, runs>>

\* The running task returns to __func_wrapper, which yields for the last time.
TaskReturns(ready) ==
  LET t == func[active] IN
  /\ mpc = "uthread"
  /\ left[t] = 0
  /\ done' = done \cup {t}
  /\ YieldTo(ready, "TERMINATED")
  /\ UNCHANGED <<ring, size, func, yields, left, added, runs>>

\* reset_scheduler.
Reset ==
  /\ mpc = "main"
  /\ is_finished
  /\ is_finished' = FALSE
  /\ UNCHANGED <<ring, size, status, func, active, yields, left, added, done, runs, mpc>>

\* main calls destroy_scheduler.
Destroyed == mpc = "main" /\ UNCHANGED vars

-----------------------------------------------------------------------------
add_to_scheduler(t) == AddTo(t, Search("IDLE"))

run_scheduler == RunFrom(Search("READY"))

usched_yield == TaskYields(NextReady) \/ TaskReturns(NextReady)

Next ==
  \/ \E t \in Tasks : add_to_scheduler(t)
  \/ run_scheduler
  \/ usched_yield
  \/ Reset
  \/ Destroyed

Spec == Init /\ [][Next]_vars

-----------------------------------------------------------------------------
Unfinished == added \ done
Returns == mpc = "uthread" /\ mpc' = "main"

\* The variables keep their types, and a node's status says what its task is
\* doing: a finished task is never switched to again, and a node is never given
\* away with its task unfinished.
StatusTruthful ==
  /\ TypeOK
  /\ \A n \in 1..size :
       status[n] \in {"READY", "RUNNING"} <=> func[n] \in Unfinished
  /\ \A m, n \in 1..size : func[m] = func[n] /\ func[m] \in Unfinished => m = n
  /\ \A t \in Unfinished : \E n \in 1..size : func[n] = t
  /\ mpc = "uthread" => status[active] = "RUNNING"

\* When run_scheduler comes back no uthread of the list is READY, and of the
\* ring at most one: the node just before the active one, which the search of
\* usched_yield never tests.
OnlyPredecessorMissed ==
  [][Returns => Having("READY")' \subseteq
       (IF ring THEN {After(active, size - 1)} ELSE {})]_vars

\* main.c: its ten tasks, which yield once each, all finish and COUNT is
\* 2 * TASKS.  The list needs an even number of tasks for that, since the last
\* of an odd number is alone when it yields; the ring needs three.
MainTasksFinish ==
  [][/\ Returns /\ runs = 1
     /\ \A t \in added : yields[t] = 1
     /\ IF ring THEN Cardinality(added) >= 3 ELSE Cardinality(added) % 2 = 0
     => done' = added]_vars

\* The ring is round robin: in the first run two unfinished tasks differ by at
\* most one yield.
InStep ==
  ring /\ mpc = "uthread" /\ runs = 1 =>
    \A s, t \in Unfinished : yields[s] - left[s] <= (yields[t] - left[t]) + 1
===============================================================================
