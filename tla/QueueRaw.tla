------------------------------- MODULE QueueRaw -------------------------------
(***************************************************************************)
(* The queue of lab2/src/1/queue, which has no lock, with the reader and   *)
(* the writer of lab2/src/1/b.c.  Every access to a field that both        *)
(* threads use is a step of its own; count++ and count-- are a load and a  *)
(* store.  A thread that dereferences NULL or touches a freed node ends    *)
(* the program: what happens after that is not defined.                    *)
(*                                                                         *)
(* Nodes are numbered in the order of their allocation and NULL is 0.      *)
(***************************************************************************)
EXTENDS Integers

CONSTANTS MaxCount,  \* the capacity given to queue_init
          MaxAdds    \* bound on the values the writer adds

ASSUME MaxCountAssumption == MaxCount \in Nat \ {0}
ASSUME MaxAddsAssumption == MaxAdds \in Nat

VARIABLES
  first, last, count,  \* the fields of the queue
  nxt,                 \* per node: next
  freed,               \* nodes given back to free
  i,                   \* the writer's i: node n holds the value n - 1
  got,                 \* the node whose value the reader took last, or 0
  wpc, wreg,           \* the writer, and the register of its count++
  rpc, rreg, tmp,      \* the reader, the register of its count--, its tmp
  cur,                 \* the register of q->first = q->first->next
  asserted,            \* an assertion failed
  crashed              \* NULL or a freed node was dereferenced

queueVars == <<first, last, count, nxt, freed>>
writerVars == <<i, wpc, wreg>>
readerVars == <<got, rpc, rreg, tmp, cur>>
rawVars == <<queueVars, writerVars, readerVars, asserted, crashed>>

NULL == 0
Nodes == 1..MaxAdds

RawTypeOK ==
  /\ first \in Nodes \cup {NULL}
  /\ last \in Nodes \cup {NULL}
  /\ count \in 0..MaxCount
  /\ nxt \in [Nodes -> Nodes \cup {NULL}]
  /\ freed \in SUBSET Nodes
  /\ i \in 0..MaxAdds
  /\ got \in Nodes \cup {NULL}
  /\ wpc \in {"assert", "test", "link", "first", "next", "last", "load", "store"}
  /\ wreg \in Int
  /\ rpc \in {"assert", "test", "tmp", "val", "first", "next", "set", "free", "load", "store"}
  /\ rreg \in Int
  /\ tmp \in Nodes \cup {NULL}
  /\ cur \in Nodes \cup {NULL}
  /\ asserted \in BOOLEAN
  /\ crashed \in BOOLEAN

RawInit ==
  /\ first = NULL
  /\ last = NULL
  /\ count = 0
  /\ nxt = [n \in Nodes |-> NULL]
  /\ freed = {}
  /\ i = 0
  /\ got = NULL
  /\ wpc = "assert"
  /\ wreg = 0
  /\ rpc = "assert"
  /\ rreg = 0
  /\ tmp = NULL
  /\ cur = NULL
  /\ asserted = FALSE
  /\ crashed = FALSE

Bad(n) == n = NULL \/ n \in freed

-----------------------------------------------------------------------------
(* queue_add *)

W(p, q) == wpc = p /\ wpc' = q

\* assert(q->count <= q->max_count).
AddAssert ==
  /\ i < MaxAdds
  /\ W("assert", "test")
  /\ asserted' = (asserted \/ ~(count <= MaxCount))
  /\ UNCHANGED <<queueVars, i, wreg, readerVars, crashed>>

\* Return 0 on a full queue, or allocate a node.
AddTest ==
  /\ wpc = "test"
  /\ wpc' = IF count = MaxCount THEN "assert" ELSE "link"
  /\ UNCHANGED <<queueVars, i, wreg, readerVars, asserted, crashed>>

\* if (!q->first): the inner assignment of q->first = q->last = new, or the
\* else branch.
AddLink ==
  /\ wpc = "link"
  /\ IF first = NULL
       THEN wpc' = "first" /\ last' = i + 1
       ELSE wpc' = "next" /\ UNCHANGED last
  /\ UNCHANGED <<first, count, nxt, freed, i, wreg, readerVars, asserted, crashed>>

AddFirst ==
  /\ W("first", "load")
  /\ first' = i + 1
  /\ UNCHANGED <<last, count, nxt, freed, i, wreg, readerVars, asserted, crashed>>

\* Mutant: the node is put before the first one.
AddNextFront ==
  /\ W("next", "load")
  /\ nxt' = [nxt EXCEPT ![i + 1] = first]
  /\ first' = i + 1
  /\ UNCHANGED <<last, count, freed, i, wreg, readerVars, asserted, crashed>>

\* q->last->next = new.
AddNext ==
  /\ W("next", "last")
  /\ crashed' = Bad(last)
  /\ nxt' = IF Bad(last) THEN nxt ELSE [nxt EXCEPT ![last] = i + 1]
  /\ UNCHANGED <<first, last, count, freed, i, wreg, readerVars, asserted>>

\* q->last = q->last->next.
AddLast ==
  /\ W("last", "load")
  /\ crashed' = Bad(last)
  /\ last' = IF Bad(last) THEN last ELSE nxt[last]
  /\ UNCHANGED <<first, count, nxt, freed, i, wreg, readerVars, asserted>>

\* q->count++, then the writer's i++.
AddLoad ==
  /\ W("load", "store")
  /\ wreg' = count
  /\ UNCHANGED <<queueVars, i, readerVars, asserted, crashed>>

AddStore ==
  /\ W("store", "assert")
  /\ count' = wreg + 1
  /\ i' = i + 1
  /\ UNCHANGED <<first, last, nxt, freed, wreg, readerVars, asserted, crashed>>

-----------------------------------------------------------------------------
(* queue_get *)

R(p, q) == rpc = p /\ rpc' = q

\* assert(q->count >= 0).
GetAssert ==
  /\ R("assert", "test")
  /\ asserted' = (asserted \/ ~(count >= 0))
  /\ UNCHANGED <<queueVars, writerVars, got, rreg, tmp, cur, crashed>>

\* Mutant: queue_get does not test the count.
GetTestNever ==
  /\ R("test", "tmp")
  /\ UNCHANGED <<queueVars, writerVars, got, rreg, tmp, cur, asserted, crashed>>

\* Return 0 on an empty queue.
GetTest ==
  /\ rpc = "test"
  /\ rpc' = IF count = 0 THEN "assert" ELSE "tmp"
  /\ UNCHANGED <<queueVars, writerVars, got, rreg, tmp, cur, asserted, crashed>>

\* tmp = q->first.
GetTmp ==
  /\ R("tmp", "val")
  /\ tmp' = first
  /\ UNCHANGED <<queueVars, writerVars, got, rreg, cur, asserted, crashed>>

\* *val = tmp->val.
GetVal ==
  /\ R("val", "first")
  /\ crashed' = Bad(tmp)
  /\ got' = IF Bad(tmp) THEN got ELSE tmp
  /\ UNCHANGED <<queueVars, writerVars, rreg, tmp, cur, asserted>>

\* q->first = q->first->next: load first, load its next, store first.
GetFirst ==
  /\ R("first", "next")
  /\ cur' = first
  /\ UNCHANGED <<queueVars, writerVars, got, rreg, tmp, asserted, crashed>>

GetNext ==
  /\ R("next", "set")
  /\ crashed' = Bad(cur)
  /\ cur' = IF Bad(cur) THEN cur ELSE nxt[cur]
  /\ UNCHANGED <<queueVars, writerVars, got, rreg, tmp, asserted>>

GetSet ==
  /\ R("set", "free")
  /\ first' = cur
  /\ UNCHANGED <<last, count, nxt, freed, writerVars, got, rreg, tmp, cur, asserted, crashed>>

\* free(tmp).
GetFree ==
  /\ R("free", "load")
  /\ freed' = freed \cup {tmp}
  /\ UNCHANGED <<first, last, count, nxt, writerVars, got, rreg, tmp, cur, asserted, crashed>>

\* q->count--.
GetLoad ==
  /\ R("load", "store")
  /\ rreg' = count
  /\ UNCHANGED <<queueVars, writerVars, got, tmp, cur, asserted, crashed>>

GetStore ==
  /\ R("store", "assert")
  /\ count' = rreg - 1
  /\ UNCHANGED <<first, last, nxt, freed, writerVars, got, rreg, tmp, cur, asserted, crashed>>

-----------------------------------------------------------------------------
Writer ==
  AddAssert \/ AddTest \/ AddLink \/ AddFirst \/ AddNext \/ AddLast \/ AddLoad \/ AddStore
Reader ==
  GetAssert \/ GetTest \/ GetTmp \/ GetVal \/ GetFirst \/ GetNext \/ GetSet
    \/ GetFree \/ GetLoad \/ GetStore

\* The program crashed.
Ended == crashed /\ UNCHANGED rawVars

RawNext ==
  \/ ~crashed /\ Writer
  \/ ~crashed /\ Reader
  \/ Ended

RawSpec == RawInit /\ [][RawNext]_rawVars

-----------------------------------------------------------------------------
\* assert(q->count <= q->max_count) and assert(q->count >= 0) never fail,
\* although both threads change count without a lock and may lose each other's
\* update: the counter drifts, but stays within its bounds.
AssertionsHold == ~asserted

\* Values may be missed, never repeated or reordered: until the program
\* crashes, a value the reader gets is newer than the one before.
ValuesIncrease == [][GetVal /\ ~crashed' => tmp > got]_rawVars
===============================================================================
