------------------------------- MODULE SwapList -------------------------------
(***************************************************************************)
(* The list of lab2/src/3 with a lock in every node: swap_routine threads  *)
(* exchange neighbours, __compare_routine threads walk along, and both     *)
(* take the locks hand over hand from the first node to the last.          *)
(*                                                                         *)
(* Taking a lock is the step a thread may have to wait for; the unlocks    *)
(* and the reads that follow it belong to the same action, a write to a    *)
(* next field starts another.  Whether to swap is a coin toss.  Of the     *)
(* statistics only swap_count is modelled, whose ++ is a load and a store  *)
(* made under the lock of a node that depends on the thread.  NULL is 0    *)
(* and ll->first is node 1, which is never moved.                          *)
(***************************************************************************)
EXTENDS Integers, FiniteSets

CONSTANTS Swappers, Comparers,  \* the threads of each kind
          N,                    \* STORAGE_SIZE
          Shared,               \* read_lock may be shared (USE_RWLOCK)
          MaxSwaps              \* bound on the exchanges

ASSUME NAssumption == N \in Nat \ {0}
ASSUME SharedAssumption == Shared \in BOOLEAN
ASSUME MaxSwapsAssumption == MaxSwaps \in Nat
ASSUME ThreadsAssumption == IsFiniteSet(Swappers) /\ Swappers \cap Comparers = {}

Threads == Swappers \cup Comparers
Nodes == 1..N
NULL == 0

VARIABLES
  nxt,         \* per node: next
  writer,      \* per node: the threads that hold its lock for writing, one at most
  readers,     \* per node: the threads that hold it for reading
  pc,          \* per thread
  prev, cur, next,  \* per thread: its locals
  visited,     \* per thread: the nodes of this pass
  reg,         \* per thread: the register of swap_count++
  swap_count,  \* the global counter
  swaps,       \* exchanges made
  stop         \* ll->stop

localVars == <<pc, prev, cur, next, visited, reg>>
vars == <<nxt, writer, readers, localVars, swap_count, swaps, stop>>

SwapPCs == {"top", "first", "loop", "cur", "next", "prev", "relink", "insert", "store", "exit"}

TypeOK ==
  /\ nxt \in [Nodes -> Nodes \cup {NULL}]
  /\ \A n \in Nodes : writer[n] \in SUBSET Threads /\ Cardinality(writer[n]) <= 1
  /\ readers \in [Nodes -> SUBSET Comparers]
  /\ pc \in [Threads -> SwapPCs]
  /\ prev \in [Threads -> Nodes]
  /\ cur \in [Threads -> Nodes]
  /\ next \in [Threads -> Nodes]
  /\ visited \in [Threads -> SUBSET Nodes]
  /\ reg \in [Threads -> 0..MaxSwaps]
  /\ swap_count \in 0..MaxSwaps
  /\ swaps \in 0..MaxSwaps
  /\ stop \in BOOLEAN

\* main builds the list and starts the threads.
Init ==
  /\ nxt = [n \in Nodes |-> IF n = N THEN NULL ELSE n + 1]
  /\ writer = [n \in Nodes |-> {}]
  /\ readers = [n \in Nodes |-> {}]
  /\ pc = [t \in Threads |-> "top"]
  /\ prev = [t \in Threads |-> 1]
  /\ cur = [t \in Threads |-> 1]
  /\ next = [t \in Threads |-> 1]
  /\ visited = [t \in Threads |-> {}]
  /\ reg = [t \in Threads |-> 0]
  /\ swap_count = 0
  /\ swaps = 0
  /\ stop = FALSE

-----------------------------------------------------------------------------
(* lock.c: write_lock and read_lock wait for these *)

CanWrite(n) == writer[n] = {} /\ readers[n] = {}
CanRead(n) == writer[n] = {} /\ (Shared \/ readers[n] = {})

\* t takes the locks of the nodes in L for writing and gives up those in U.
WriteLocks(t, L, U) ==
  writer' = [n \in Nodes |-> IF n \in L THEN {t} ELSE IF n \in U THEN writer[n] \ {t} ELSE writer[n]]
ReadLocks(t, L, U) ==
  readers' = [n \in Nodes |-> IF n \in L THEN readers[n] \cup {t}
                              ELSE IF n \in U THEN readers[n] \ {t} ELSE readers[n]]

Goto(t, p) == pc' = [pc EXCEPT ![t] = p]

-----------------------------------------------------------------------------
(* swap_routine *)

\* Mutant: the loop does not look at stop.
SwapBeginForever(t) ==
  /\ pc[t] = "top"
  /\ Goto(t, "first")
  /\ UNCHANGED <<nxt, writer, readers, prev, cur, next, visited, reg, swap_count, swaps, stop>>

\* while (!ll->stop).
SwapBegin(t) ==
  /\ pc[t] = "top"
  /\ Goto(t, IF stop THEN "exit" ELSE "first")
  /\ UNCHANGED <<nxt, writer, readers, prev, cur, next, visited, reg, swap_count, swaps, stop>>

\* Lock the first node.
SwapFirst(t) ==
  /\ pc[t] = "first"
  /\ CanWrite(1)
  /\ WriteLocks(t, {1}, {})
  /\ prev' = [prev EXCEPT ![t] = 1]
  /\ Goto(t, "loop")
  /\ UNCHANGED <<nxt, readers, cur, next, visited, reg, swap_count, swaps, stop>>

\* prev->next is NULL: unlock prev, the pass is over.
SwapEnd(t) ==
  /\ pc[t] = "loop"
  /\ nxt[prev[t]] = NULL
  /\ WriteLocks(t, {}, {prev[t]})
  /\ Goto(t, "top")
  /\ UNCHANGED <<nxt, readers, prev, cur, next, visited, reg, swap_count, swaps, stop>>

\* No swap here: lock the next node, unlock prev.
SwapSkip(t) ==
  LET c == nxt[prev[t]] IN
  /\ pc[t] = "loop"
  /\ c # NULL
  /\ CanWrite(c)
  /\ WriteLocks(t, {c}, {prev[t]})
  /\ prev' = [prev EXCEPT ![t] = c]
  /\ UNCHANGED <<nxt, readers, pc, cur, next, visited, reg, swap_count, swaps, stop>>

\* A swap: lock cur; without a node behind it, unlock both and end the pass.
SwapLockCur(t) ==
  LET c == nxt[prev[t]] IN
  /\ pc[t] = "loop"
  /\ c # NULL
  /\ swaps + Cardinality({s \in Swappers : pc[s] \in {"next", "prev", "relink"}}) < MaxSwaps
  /\ CanWrite(c)
  /\ IF nxt[c] = NULL
       THEN WriteLocks(t, {}, {prev[t]}) /\ Goto(t, "top") /\ UNCHANGED <<cur, next>>
       ELSE /\ WriteLocks(t, {c}, {})
            /\ cur' = [cur EXCEPT ![t] = c]
            /\ next' = [next EXCEPT ![t] = nxt[c]]
            /\ Goto(t, "next")
  /\ UNCHANGED <<nxt, readers, prev, visited, reg, swap_count, swaps, stop>>

\* Mutant: the third node is not locked.
SwapLockNextNot(t) ==
  /\ pc[t] = "next"
  /\ Goto(t, "prev")
  /\ UNCHANGED <<nxt, writer, readers, prev, cur, next, visited, reg, swap_count, swaps, stop>>

\* Lock next.
SwapLockNext(t) ==
  /\ pc[t] = "next"
  /\ CanWrite(next[t])
  /\ WriteLocks(t, {next[t]}, {})
  /\ Goto(t, "prev")
  /\ UNCHANGED <<nxt, readers, prev, cur, next, visited, reg, swap_count, swaps, stop>>

\* prev->next = next; unlock(&prev->lock).
SwapPrev(t) ==
  /\ pc[t] = "prev"
  /\ nxt' = [nxt EXCEPT ![prev[t]] = next[t]]
  /\ WriteLocks(t, {}, {prev[t]})
  /\ Goto(t, "relink")
  /\ UNCHANGED <<readers, prev, cur, next, visited, reg, swap_count, swaps, stop>>

\* cur->next = next->next; unlock(&cur->lock).
SwapRelink(t) ==
  /\ pc[t] = "relink"
  /\ nxt' = [nxt EXCEPT ![cur[t]] = nxt[next[t]]]
  /\ WriteLocks(t, {}, {cur[t]})
  /\ Goto(t, "insert")
  /\ swaps' = swaps + 1
  /\ UNCHANGED <<readers, prev, cur, next, visited, reg, swap_count, stop>>

\* next->next = cur; the load of swap_count++; prev = next.
SwapInsert(t) ==
  /\ pc[t] = "insert"
  /\ nxt' = [nxt EXCEPT ![next[t]] = cur[t]]
  /\ reg' = [reg EXCEPT ![t] = swap_count]
  /\ prev' = [prev EXCEPT ![t] = next[t]]
  /\ Goto(t, "store")
  /\ UNCHANGED <<writer, readers, cur, next, visited, swap_count, swaps, stop>>

\* The store of swap_count++.
SwapStore(t) ==
  /\ pc[t] = "store"
  /\ swap_count' = reg[t] + 1
  /\ Goto(t, "loop")
  /\ UNCHANGED <<nxt, writer, readers, prev, cur, next, visited, reg, swaps, stop>>

-----------------------------------------------------------------------------
(* __compare_routine *)

CompareBegin(t) ==
  /\ pc[t] = "top"
  /\ Goto(t, IF stop THEN "exit" ELSE "first")
  /\ UNCHANGED <<nxt, writer, readers, prev, cur, next, visited, reg, swap_count, swaps, stop>>

CompareFirst(t) ==
  /\ pc[t] = "first"
  /\ CanRead(1)
  /\ ReadLocks(t, {1}, {})
  /\ prev' = [prev EXCEPT ![t] = 1]
  /\ visited' = [visited EXCEPT ![t] = {1}]
  /\ Goto(t, "loop")
  /\ UNCHANGED <<nxt, writer, cur, next, reg, swap_count, swaps, stop>>

\* Mutant: prev is unlocked before cur is locked.
ComparePairUnlocked(t) ==
  /\ \/ /\ pc[t] = "loop" /\ nxt[prev[t]] # NULL
        /\ cur' = [cur EXCEPT ![t] = nxt[prev[t]]]
        /\ ReadLocks(t, {}, {prev[t]})
        /\ Goto(t, "cur")
        /\ UNCHANGED <<prev, visited>>
     \/ /\ pc[t] = "cur" /\ CanRead(cur[t])
        /\ ReadLocks(t, {cur[t]}, {})
        /\ prev' = [prev EXCEPT ![t] = cur[t]]
        /\ visited' = [visited EXCEPT ![t] = @ \cup {cur[t]}]
        /\ Goto(t, "loop")
        /\ UNCHANGED cur
  /\ UNCHANGED <<nxt, writer, next, reg, swap_count, swaps, stop>>

\* The next pair: lock cur, unlock prev, compare.
ComparePair(t) ==
  LET c == nxt[prev[t]] IN
  /\ pc[t] = "loop"
  /\ c # NULL
  /\ CanRead(c)
  /\ ReadLocks(t, {c}, {prev[t]})
  /\ prev' = [prev EXCEPT ![t] = c]
  /\ visited' = [visited EXCEPT ![t] = @ \cup {c}]
  /\ UNCHANGED <<nxt, writer, pc, cur, next, reg, swap_count, swaps, stop>>

\* The end of the list: unlock prev, (*iter)++.
CompareEnd(t) ==
  /\ pc[t] = "loop"
  /\ nxt[prev[t]] = NULL
  /\ ReadLocks(t, {}, {prev[t]})
  /\ Goto(t, "top")
  /\ UNCHANGED <<nxt, writer, prev, cur, next, visited, reg, swap_count, swaps, stop>>

-----------------------------------------------------------------------------
\* main: sleep is over.
Stop ==
  /\ ~stop
  /\ stop' = TRUE
  /\ UNCHANGED <<nxt, writer, readers, localVars, swap_count, swaps>>

AllExited == \A t \in Threads : pc[t] = "exit"

\* main has joined the threads and destroys the list.
Joined == AllExited /\ UNCHANGED vars

SwapStep(t) ==
  \/ SwapBegin(t) \/ SwapFirst(t) \/ SwapEnd(t) \/ SwapSkip(t) \/ SwapLockCur(t) \/ SwapLockNext(t)
  \/ SwapPrev(t) \/ SwapRelink(t) \/ SwapInsert(t) \/ SwapStore(t)
CompareStep(t) == CompareBegin(t) \/ CompareFirst(t) \/ ComparePair(t) \/ CompareEnd(t)

Next ==
  \/ \E t \in Swappers : SwapStep(t)
  \/ \E t \in Comparers : CompareStep(t)
  \/ Stop
  \/ Joined

Spec == Init /\ [][Next]_vars

\* The scheduler runs every thread, a lock that stays free is taken, and main's
\* sleep ends.  No lock is fair: a thread may be passed over again and again.
FairSpec ==
  /\ Spec
  /\ \A t \in Swappers : WF_vars(SwapStep(t))
  /\ \A t \in Comparers : WF_vars(CompareStep(t))
  /\ WF_vars(Stop)

-----------------------------------------------------------------------------
\* The node k steps after the first one.
Walk[k \in 0..N] ==
  IF k = 0 THEN 1 ELSE IF Walk[k - 1] = NULL THEN NULL ELSE nxt[Walk[k - 1]]

\* The variables keep their types, and between two exchanges the list holds
\* every node once and ends: nothing is lost, and linked_list_destroy frees all
\* of it.  swap_count, whose ++ may overlap with another thread's and be lost
\* (routine.c:70), never runs ahead of the exchanges and never misses them all.
ListWhole ==
  /\ TypeOK
  /\ (\A t \in Swappers : pc[t] \notin {"relink", "insert"}) =>
       /\ {Walk[k] : k \in 0..(N - 1)} = Nodes
       /\ Walk[N] = NULL
  /\ swap_count <= swaps
  /\ AllExited /\ swaps > 0 => swap_count > 0

\* A pass of __compare_routine sees every node of the list, and none twice,
\* whatever is exchanged before and behind it: the node a pass is about to go to
\* is one it has not been at, and when there is none it has been at all of them.
PassSeesAll ==
  \A t \in Comparers : pc[t] = "loop" =>
    IF nxt[prev[t]] = NULL THEN visited[t] = Nodes ELSE nxt[prev[t]] \notin visited[t]

\* Once stop is set every thread ends: the walks never block each other in a
\* circle.
ThreadsEnd == <>AllExited
===============================================================================
