--------------------------------- MODULE Fifo ---------------------------------
(***************************************************************************)
(* What the queues of lab2/src/2 promise to the reader and the writer of   *)
(* queue_threads.c: a bounded first-in first-out queue that hands over the *)
(* values 0, 1, 2, ... without losing, repeating or reordering one.        *)
(***************************************************************************)
EXTENDS Integers, Sequences

CONSTANT MaxCount   \* capacity

VARIABLES
  queue,     \* the values in the queue, oldest first
  i,         \* the writer's next value
  expected   \* the value the reader expects

Init == queue = <<>> /\ i = 0 /\ expected = 0

Add ==
  /\ Len(queue) < MaxCount
  /\ queue' = Append(queue, i)
  /\ i' = i + 1
  /\ UNCHANGED expected

Get ==
  /\ queue # <<>>
  /\ Head(queue) = expected
  /\ queue' = Tail(queue)
  /\ expected' = expected + 1
  /\ UNCHANGED i

\* queue_destroy frees what is left.
Drop == queue' = <<>> /\ UNCHANGED <<i, expected>>

Next == Add \/ Get \/ Drop

Spec == Init /\ [][Next]_<<queue, i, expected>>
===============================================================================
