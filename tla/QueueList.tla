------------------------------ MODULE QueueList -------------------------------
(***************************************************************************)
(* The singly linked list inside the queues of lab2/src/2, with the values *)
(* queue_threads.c passes through it: its writer adds 0, 1, 2, ... and its *)
(* reader compares every value it gets with the one it expects.  The four  *)
(* queues differ in how they synchronise, not in the list.                 *)
(*                                                                         *)
(* Nodes are numbered in the order of their allocation and NULL is 0; an   *)
(* address that malloc reuses gets a new number.  last goes on pointing  *)
(* to the freed node when the list becomes empty, as in the code.          *)
(***************************************************************************)
EXTENDS Integers, Sequences

CONSTANTS MaxCount,  \* max_count, the capacity given to queue_init
          MaxAdds    \* bound on the values the writer adds

ASSUME MaxCountAssumption == MaxCount \in Nat \ {0}
ASSUME MaxAddsAssumption == MaxAdds \in Nat

VARIABLES
  first, last,  \* q->first, q->last
  nxt, val,     \* per node: next and val
  freed,        \* nodes given back to free
  count,        \* q->count
  i,            \* the writer's i; also the number of nodes allocated
  expected      \* the reader's expected

nodeVars == <<first, last, nxt, val, freed, count>>
listVars == <<nodeVars, i, expected>>

NULL == 0
Nodes == 1..MaxAdds

ListTypeOK ==
  /\ first \in Nodes \cup {NULL}
  /\ last \in Nodes \cup {NULL}
  /\ nxt \in [Nodes -> Nodes \cup {NULL}]
  /\ val \in [Nodes -> Int]
  /\ freed \in SUBSET Nodes
  /\ count \in 0..MaxCount
  /\ i \in 0..MaxAdds
  /\ expected \in Int

\* queue_init, and the locals of the reader and the writer.
ListInit ==
  /\ first = NULL
  /\ last = NULL
  /\ nxt = [n \in Nodes |-> NULL]
  /\ val = [n \in Nodes |-> 0]
  /\ freed = {}
  /\ count = 0
  /\ i = 0
  /\ expected = 0

\* Mutant: the emptiness test looks at last, which is never reset.
LinkByLast(n) ==
  IF last = NULL
    THEN first' = n /\ nxt' = [nxt EXCEPT ![n] = NULL]
    ELSE nxt' = [nxt EXCEPT ![n] = NULL, ![last] = n] /\ UNCHANGED first

\* Mutant: the new node goes to the front.
LinkFront(n) == first' = n /\ nxt' = [nxt EXCEPT ![n] = first]

\* The new node becomes the only one, or follows q->last.
Link(n) ==
  IF first = NULL
    THEN first' = n /\ nxt' = [nxt EXCEPT ![n] = NULL]
    ELSE nxt' = [nxt EXCEPT ![n] = NULL, ![last] = n] /\ UNCHANGED first

\* The body of queue_add once there is room, and the writer's i++.
Enqueue ==
  LET n == i + 1 IN
  /\ i < MaxAdds
  /\ val' = [val EXCEPT ![n] = i]
  /\ Link(n)
  /\ last' = n
  /\ count' = count + 1
  /\ i' = i + 1
  /\ UNCHANGED <<freed, expected>>

\* The body of queue_get once there is a node, and the reader's comparison.
Dequeue ==
  /\ first' = nxt[first]
  /\ freed' = freed \cup {first}
  /\ count' = count - 1
  /\ expected' = val[first] + 1
  /\ UNCHANGED <<last, nxt, val, i>>

\* queue_destroy walks the list and frees every node of it.
FreeAll ==
  /\ freed' = freed \cup {n \in Nodes : first # NULL /\ first <= n /\ n <= last}
  /\ first' = NULL
  /\ UNCHANGED <<last, nxt, val, count, i, expected>>

-----------------------------------------------------------------------------
\* The list is one chain of live nodes from first to last, count of them, and
\* ends in NULL: no queue operation reads or writes a freed node or NULL.
Chained ==
  /\ count = 0 <=> first = NULL
  /\ first # NULL =>
       /\ last = first + count - 1
       /\ nxt[last] = NULL
       /\ \A n \in first..last :
            /\ n \notin freed
            /\ n < last => nxt[n] = n + 1

\* What the list holds, oldest value first.
Contents ==
  IF first = NULL THEN <<>> ELSE [k \in 1..(last - first + 1) |-> val[first + k - 1]]
===============================================================================
