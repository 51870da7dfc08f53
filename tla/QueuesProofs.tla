----------------------------- MODULE QueuesProofs -----------------------------
(***************************************************************************)
(* The four queues of lab2/src/2 keep their list intact and implement      *)
(* Fifo, for every capacity and every number of values.                    *)
(*                                                                         *)
(* The nodes in the list are always the newest ones, first up to i, so     *)
(* that last, which goes on pointing to a freed node, is right again       *)
(* whenever it is read: queue_add looks at it only when first is not NULL. *)
(* What the four builds add is why nobody else is at the list meanwhile,   *)
(* and why count fits it: a lock held by one thread, semaphores that       *)
(* account for every place, or a single step.                              *)
(***************************************************************************)
EXTENDS Queues, SequenceTheorems, TLAPS

\* The number of nodes in the list.
Length == IF first = NULL THEN 0 ELSE last - first + 1

\* The nodes from first to i, each holding the value it was added with.
ChainInv ==
  /\ first # NULL => first <= i /\ last = i /\ nxt[i] = NULL
  /\ first # NULL => \A n \in first..i : n \notin freed /\ (n < i => nxt[n] = n + 1)
  /\ \A n \in 1..i : val[n] = n - 1
  /\ freed \subseteq 1..i
  /\ mpc # "returned" => expected = IF first = NULL THEN i ELSE first - 1

At(t, p) == build = "spinlock" /\ pc[t] = p

\* count agrees with the list, but for the step between the two in a critical
\* section of the spinlock.
CountInv ==
  mpc # "returned" =>
    count = Length + (IF At("reader", "linked") THEN 1 ELSE 0)
                   - (IF At("writer", "linked") THEN 1 ELSE 0)

\* main destroys the queue after both threads have ended.
MainInv == mpc \in {"destroy", "returned"} => dead = Threads

Inside(t) == pc[t] \in {"in", "linked", "out"}

\* The spinlock: at most one thread is inside, and it is alive.
SpinInv ==
  /\ lock \in BOOLEAN
  /\ pc \in [Threads -> {"top", "spin", "in", "linked", "out"}]
  /\ \A t \in Threads : Inside(t) => lock
  /\ ~(Inside("reader") /\ Inside("writer"))
  /\ \A t \in dead : pc[t] = "top"
  /\ pc["writer"] = "linked" => count < MaxCount

\* The condition variables: a thread that ended inside pthread_cond_wait has
\* left the mutex locked.
CondInv ==
  /\ pc \in [Threads -> {"top", "call", "waiting"}]
  /\ abandoned \in BOOLEAN
  /\ \A t \in dead : pc[t] # "top" => abandoned

\* The semaphores: nobody ends between sem_wait and sem_post.
SemInv ==
  /\ pc \in [Threads -> {"top", "sem", "lock"}]
  /\ empty \in 0..MaxCount
  /\ full \in 0..MaxCount
  /\ E!SemaphoresExact
  /\ \A t \in dead : pc[t] # "lock"
  /\ mpc # "returned"

VariantInv ==
  /\ build \in {"mutex", "spinlock", "condvar", "semaphore"}
  /\ build = "spinlock" => SpinInv
  /\ build = "condvar" => CondInv
  /\ build = "semaphore" => SemInv

\* The inductive invariant.
IInv == ThreadsTypeOK /\ ChainInv /\ CountInv /\ MainInv /\ VariantInv

-----------------------------------------------------------------------------
(* The list *)

\* The list part of queue_add and of queue_get, without the counter.
PutNode ==
  /\ i < MaxAdds
  /\ val' = [val EXCEPT ![i + 1] = i]
  /\ Link(i + 1)
  /\ last' = i + 1
  /\ i' = i + 1
  /\ UNCHANGED <<freed, expected>>

TakeNode ==
  /\ first' = nxt[first]
  /\ freed' = freed \cup {first}
  /\ expected' = val[first] + 1
  /\ UNCHANGED <<last, nxt, val, i>>

\* The types of the list but for count.
NodesTypeOK ==
  /\ first \in Nodes \cup {NULL}
  /\ last \in Nodes \cup {NULL}
  /\ nxt \in [Nodes -> Nodes \cup {NULL}]
  /\ val \in [Nodes -> Int]
  /\ freed \in SUBSET Nodes
  /\ i \in 0..MaxAdds
  /\ expected \in Int

\* What the list holds are the numbers from expected on.
ContentsRun ==
  /\ Length \in Nat
  /\ Length = 0 <=> first = NULL
  /\ Contents = [k \in 1..Length |-> expected + k - 1]
  /\ i = expected + Length

\* It does as long as the queue exists.
LEMMA ContentsAre == NodesTypeOK /\ ChainInv /\ mpc # "returned" => ContentsRun
<1> SUFFICES ASSUME NodesTypeOK, ChainInv, mpc # "returned" PROVE ContentsRun
  OBVIOUS
<1> USE DEF ContentsRun
<1> USE MaxAddsAssumption DEF NodesTypeOK, Nodes, NULL
<1>1. CASE first = NULL
  BY <1>1 DEF Length, Contents, ChainInv
<1>2. CASE first # NULL
  <2>1. /\ first \in 1..i /\ last = i /\ Length = i - first + 1 /\ Length = last - first + 1
        /\ expected = first - 1
    BY <1>2 DEF ChainInv, Length
  <2>2. \A k \in 1..Length : val[first + k - 1] = expected + k - 1
    <3> SUFFICES ASSUME NEW k \in 1..Length
                 PROVE  val[first + k - 1] = expected + k - 1
      OBVIOUS
    <3>1. first + k - 1 \in 1..i
      BY <2>1
    <3> QED
      BY <3>1, <2>1 DEF ChainInv
  <2>3. Length \in Nat /\ Length # 0 /\ i = expected + Length
    BY <2>1
  <2>4. Contents = [k \in 1..Length |-> val[first + k - 1]]
    BY <1>2, <2>1 DEF Contents
  <2> QED
    BY <1>2, <2>2, <2>3, <2>4
<1> QED
  BY <1>1, <1>2

\* The same of the state after a step.
LEMMA ContentsAreNext ==
  NodesTypeOK' /\ ChainInv' /\ (mpc # "returned")' => ContentsRun'
BY ContentsAre, PTL

\* queue_add's list part puts one node, with the value i, behind the others.
LEMMA PutFacts ==
  ASSUME NodesTypeOK, ChainInv, PutNode, mpc' = mpc, mpc # "returned"
  PROVE  NodesTypeOK' /\ ChainInv' /\ Length' = Length + 1 /\ first' # NULL
<1> USE MaxAddsAssumption DEF NodesTypeOK, Nodes, NULL, PutNode
<1>0. i \in Nat /\ i + 1 \in Nodes
  OBVIOUS
<1>1. val' \in [Nodes -> Int] /\ \A n \in 1..(i + 1) : val'[n] = n - 1
  BY DEF ChainInv
<1>2. CASE first = NULL
  <2>1. first' = i + 1 /\ nxt' = [nxt EXCEPT ![i + 1] = NULL]
    BY <1>2 DEF Link
  <2>2. NodesTypeOK'
    BY <1>0, <1>1, <2>1
  <2>3. ChainInv'
    BY <1>0, <1>1, <1>2, <2>1 DEF ChainInv
  <2> QED
    BY <1>0, <1>2, <2>1, <2>2, <2>3 DEF Length
<1>3. CASE first # NULL
  <2>0. first \in 1..i /\ last = i
    BY <1>3 DEF ChainInv
  <2>1. first' = first /\ nxt' = [nxt EXCEPT ![i + 1] = NULL, ![i] = i + 1]
    BY <1>3, <2>0 DEF Link
  <2>2. NodesTypeOK'
    BY <1>0, <1>1, <2>0, <2>1
  <2>3. nxt'[i + 1] = NULL /\ nxt'[i] = i + 1 /\ \A n \in Nodes : n < i => nxt'[n] = nxt[n]
    BY <1>0, <2>0, <2>1
  <2>4. \A n \in first..(i + 1) : n \notin freed /\ (n < i + 1 => nxt'[n] = n + 1)
    <3> SUFFICES ASSUME NEW n \in first..(i + 1)
                 PROVE  n \notin freed /\ (n < i + 1 => nxt'[n] = n + 1)
      OBVIOUS
    <3>1. CASE n = i + 1
      BY <1>0, <3>1 DEF ChainInv
    <3>2. CASE n \in first..i
      BY <1>0, <1>3, <2>0, <2>3, <3>2, SMTT(20) DEF ChainInv
    <3> QED
      BY <1>0, <2>0, <3>1, <3>2
  <2>5. ChainInv'
    BY <1>0, <1>1, <1>3, <2>0, <2>1, <2>3, <2>4 DEF ChainInv
  <2> QED
    BY <1>3, <2>0, <2>1, <2>2, <2>5 DEF Length
<1> QED
  BY <1>2, <1>3

\* queue_get's list part takes the first node, which holds the expected value.
LEMMA TakeFacts ==
  ASSUME NodesTypeOK, ChainInv, TakeNode, first # NULL, mpc' = mpc, mpc # "returned"
  PROVE  /\ NodesTypeOK' /\ ChainInv' /\ Length' = Length - 1
         /\ expected' = expected + 1
         /\ first' = IF Length = 1 THEN NULL ELSE first + 1
<1> USE MaxAddsAssumption DEF NodesTypeOK, Nodes, NULL, TakeNode
<1>0. first \in 1..i /\ last = i /\ val[first] = first - 1 /\ expected = first - 1
  BY DEF ChainInv
<1>1. first' = IF first = i THEN NULL ELSE first + 1
  BY <1>0 DEF ChainInv
<1>2. NodesTypeOK'
  BY <1>0, <1>1
<1>3. ChainInv'
  BY <1>0, <1>1 DEF ChainInv
<1> QED
  BY <1>0, <1>1, <1>2, <1>3 DEF Length

-----------------------------------------------------------------------------
(* The list as a queue of values *)

\* Consecutive numbers: what Append and Tail make of them.
LEMMA RunFacts ==
  ASSUME NEW e \in Int, NEW n \in Nat
  PROVE  LET run(b, m) == [k \in 1..m |-> b + k - 1] IN
         /\ Len(run(e, n)) = n
         /\ Append(run(e, n), e + n) = run(e, n + 1)
         /\ n # 0 => /\ run(e, n) # <<>>
                     /\ Head(run(e, n)) = e
                     /\ Tail(run(e, n)) = run(e + 1, n - 1)
<1> DEFINE run(b, m) == [k \in 1..m |-> b + k - 1]
<1>1. \A b \in Int, m \in Nat :
        run(b, m) \in Seq(Int) /\ Len(run(b, m)) = m /\ \A k \in 1..m : run(b, m)[k] = b + k - 1
  OBVIOUS
<1> DEFINE r == run(e, n)
<1> HIDE DEF run
<1>2. r \in Seq(Int) /\ Len(r) = n /\ \A k \in 1..n : r[k] = e + k - 1
  BY <1>1
<1>3. Append(r, e + n) = run(e, n + 1)
  <2> DEFINE s == run(e, n + 1)
  <2>0. s \in Seq(Int) /\ Len(s) = n + 1 /\ \A k \in 1..(n + 1) : s[k] = e + k - 1
    BY <1>1
  <2> HIDE DEF r, s
  <2>1. Append(r, e + n) \in Seq(Int) /\ Len(Append(r, e + n)) = n + 1
    BY <1>2
  <2>2. \A k \in 1..(n + 1) : Append(r, e + n)[k] = s[k]
    BY <1>2, <2>0
  <2>3. Append(r, e + n) = s
    BY <2>0, <2>1, <2>2, SeqEqual
  <2> QED
    BY <2>3 DEF s
<1>4. ASSUME n # 0 PROVE r # <<>> /\ Head(r) = e /\ Tail(r) = run(e + 1, n - 1)
  <2> DEFINE s == run(e + 1, n - 1)
  <2>0. s \in Seq(Int) /\ Len(s) = n - 1 /\ \A k \in 1..(n - 1) : s[k] = (e + 1) + k - 1
    <3>1. n - 1 \in Nat /\ e + 1 \in Int
      BY <1>4
    <3> QED
      BY <1>1, <3>1
  <2> HIDE DEF r, s
  <2>1. r # <<>> /\ Head(r) = e
    BY <1>2, <1>4
  <2>2. Tail(r) \in Seq(Int) /\ Len(Tail(r)) = n - 1
    BY <1>2, <2>1
  <2>3. \A k \in 1..(n - 1) : Tail(r)[k] = s[k]
    BY <1>2, <2>0, <2>1
  <2>4. Tail(r) = s
    BY <2>0, <2>2, <2>3, SeqEqual
  <2> QED
    BY <2>1, <2>4 DEF s
<1> QED
  BY <1>2, <1>3, <1>4 DEF run, r

\* Putting a node is the abstract queue's Add.
LEMMA PutIsAdd ==
  ASSUME NodesTypeOK, ChainInv, PutNode, mpc' = mpc, mpc # "returned", Length < MaxCount
  PROVE  Abstract!Add
<1>1. /\ Length \in Nat /\ expected \in Int /\ i = expected + Length
      /\ Contents = [k \in 1..Length |-> expected + k - 1]
  BY ContentsAre DEF NodesTypeOK, ContentsRun
<1>2. /\ NodesTypeOK' /\ ChainInv' /\ Length' = Length + 1
      /\ expected' = expected /\ i' = i + 1
  BY PutFacts DEF PutNode
<1>3. Contents' = [k \in 1..Length' |-> expected' + k - 1]
  BY <1>2, ContentsAreNext DEF ContentsRun
<1>4. Contents' = [k \in 1..(Length + 1) |-> expected + k - 1]
  BY <1>2, <1>3
<1>5. Len(Contents) = Length /\ Contents' = Append(Contents, i)
  BY <1>1, <1>4, RunFacts
<1> QED
  BY <1>2, <1>5 DEF Abstract!Add

\* Taking a node is the abstract queue's Get.
LEMMA TakeIsGet ==
  ASSUME NodesTypeOK, ChainInv, TakeNode, mpc' = mpc, mpc # "returned", first # NULL
  PROVE  Abstract!Get
<1>1. /\ Length \in Nat /\ Length # 0 /\ expected \in Int
      /\ Contents = [k \in 1..Length |-> expected + k - 1]
  BY ContentsAre DEF NodesTypeOK, ContentsRun
<1>2. /\ NodesTypeOK' /\ ChainInv' /\ Length' = Length - 1
      /\ expected' = expected + 1 /\ i' = i
  BY TakeFacts DEF TakeNode
<1>3. Contents' = [k \in 1..Length' |-> expected' + k - 1]
  BY <1>2, ContentsAreNext DEF ContentsRun
<1>4. Contents' = [k \in 1..(Length - 1) |-> (expected + 1) + k - 1]
  BY <1>2, <1>3
<1>5. Contents # <<>> /\ Head(Contents) = expected /\ Contents' = Tail(Contents)
  BY <1>1, <1>4, RunFacts
<1> QED
  BY <1>2, <1>5 DEF Abstract!Get

-----------------------------------------------------------------------------
(* What a step of any build does to the list *)

\* queue_destroy's list part.
DropNodes ==
  /\ FreeAll
  /\ mpc' = "returned"

\* Nothing happens to the nodes.
KeepNodes ==
  /\ UNCHANGED <<first, last, nxt, val, freed, i, expected>>
  /\ mpc' = "returned" <=> mpc = "returned"

ListEffect ==
  \/ PutNode /\ Length < MaxCount /\ mpc' = mpc /\ mpc # "returned"
  \/ TakeNode /\ first # NULL /\ mpc' = mpc /\ mpc # "returned"
  \/ DropNodes
  \/ KeepNodes

\* Each of the four keeps the chain and is a step of the abstract queue.
LEMMA EffectFacts ==
  ASSUME NodesTypeOK, ChainInv, ListEffect
  PROVE  NodesTypeOK' /\ ChainInv' /\ [Abstract!Next]_<<Contents, i, expected>>
<1>1. CASE PutNode /\ Length < MaxCount /\ mpc' = mpc /\ mpc # "returned"
  BY <1>1, PutFacts, PutIsAdd DEF Abstract!Next
<1>2. CASE TakeNode /\ first # NULL /\ mpc' = mpc /\ mpc # "returned"
  BY <1>2, TakeFacts, TakeIsGet DEF Abstract!Next
<1>3. CASE DropNodes
  <2>1. first' = NULL /\ UNCHANGED <<last, nxt, val, i, expected>> /\ mpc' = "returned"
    BY <1>3 DEF DropNodes, FreeAll
  <2>2. freed' \subseteq 1..i /\ freed' \subseteq Nodes
    <3> SUFFICES ASSUME NEW n \in freed' PROVE n \in 1..i /\ n \in Nodes
      OBVIOUS
    <3>1. CASE n \in freed
      BY <3>1 DEF ChainInv, NodesTypeOK
    <3>2. CASE n \in Nodes /\ first # NULL /\ n <= last
      BY <3>2, MaxAddsAssumption DEF ChainInv, NodesTypeOK, Nodes
    <3> QED
      BY <1>3, <3>1, <3>2 DEF DropNodes, FreeAll
  <2>3. NodesTypeOK' /\ ChainInv'
    BY <2>1, <2>2 DEF NodesTypeOK, ChainInv
  <2>4. Contents' = <<>>
    BY <2>1 DEF Contents
  <2> QED
    BY <2>1, <2>3, <2>4 DEF Abstract!Next, Abstract!Drop
<1>4. CASE KeepNodes
  <2>1. UNCHANGED <<first, last, nxt, val, freed, i, expected>>
    BY <1>4 DEF KeepNodes
  <2>2. NodesTypeOK' /\ ChainInv'
    BY <1>4, <2>1 DEF KeepNodes, NodesTypeOK, ChainInv
  <2>3. Contents' = Contents
    BY <2>1 DEF Contents
  <2> QED
    BY <2>1, <2>2, <2>3
<1> QED
  BY <1>1, <1>2, <1>3, <1>4 DEF ListEffect

\* The list and main are the same in each of the four builds.
LEMMA SameProgram ==
  /\ M!Enqueue => PutNode /\ count' = count + 1
  /\ C!Enqueue => PutNode /\ count' = count + 1
  /\ E!Enqueue => PutNode /\ count' = count + 1
  /\ M!Dequeue => TakeNode /\ count' = count - 1
  /\ C!Dequeue => TakeNode /\ count' = count - 1
  /\ E!Dequeue => TakeNode /\ count' = count - 1
  /\ M!Main => Main
  /\ S!Main => Main
  /\ C!Main => Main
  /\ E!Main => Main
  /\ M!Destroy => Destroy
  /\ S!Destroy => Destroy
  /\ C!Destroy => Destroy
  /\ Threads = M!Threads /\ Threads = S!Threads /\ Threads = C!Threads /\ Threads = E!Threads
<1>1. /\ M!Enqueue => PutNode /\ count' = count + 1
      /\ C!Enqueue => PutNode /\ count' = count + 1
      /\ E!Enqueue => PutNode /\ count' = count + 1
  BY DEF M!Enqueue, C!Enqueue, E!Enqueue, M!Link, C!Link, E!Link, Link, PutNode,
         M!NULL, C!NULL, E!NULL, NULL
<1>2. /\ M!Dequeue => TakeNode /\ count' = count - 1
      /\ C!Dequeue => TakeNode /\ count' = count - 1
      /\ E!Dequeue => TakeNode /\ count' = count - 1
  BY DEF M!Dequeue, C!Dequeue, E!Dequeue, TakeNode
<1>3. /\ (M!Main => Main) /\ (S!Main => Main) /\ (C!Main => Main) /\ (E!Main => Main)
      /\ Threads = M!Threads /\ Threads = S!Threads /\ Threads = C!Threads /\ Threads = E!Threads
  BY DEF Main, CancelReader, CancelWriter, Join, Threads, listVars, nodeVars,
         M!Main, M!CancelReader, M!CancelWriter, M!Join, M!Threads, M!listVars, M!nodeVars,
         S!Main, S!CancelReader, S!CancelWriter, S!Join, S!Threads, S!listVars, S!nodeVars,
         C!Main, C!CancelReader, C!CancelWriter, C!Join, C!Threads, C!listVars, C!nodeVars,
         E!Main, E!CancelReader, E!CancelWriter, E!Join, E!Threads, E!listVars, E!nodeVars
<1>4. /\ M!Destroy => Destroy
      /\ S!Destroy => Destroy
      /\ C!Destroy => Destroy
  BY DEF Destroy, FreeAll, Nodes, NULL, M!Destroy, M!FreeAll, M!Nodes, M!NULL,
         S!Destroy, S!FreeAll, S!Nodes, S!NULL, C!Destroy, C!FreeAll, C!Nodes, C!NULL
<1> QED
  BY <1>1, <1>2, <1>3, <1>4

-----------------------------------------------------------------------------
(* The steps of the builds *)

\* The invariant but for the nodes.
CommonInv ==
  /\ count \in 0..MaxCount
  /\ dead \in SUBSET Threads
  /\ cancelled \in SUBSET Threads
  /\ mpc \in {"sleep", "cancel", "join", "destroy", "returned"}
  /\ CountInv
  /\ MainInv

\* The invariant falls into the nodes, the counters and the build's own part.
LEMMA IInvParts == IInv <=> NodesTypeOK /\ ChainInv /\ CommonInv /\ VariantInv
BY DEF IInv, ThreadsTypeOK, ListTypeOK, NodesTypeOK, CommonInv

\* Steps of the threads and of main that leave the list alone.
LEMMA QuietStep ==
  ASSUME IInv, UNCHANGED <<listVars, build>>,
         UNCHANGED mainVars \/ Main \/ \E t \in Threads : Die(t),
         At("reader", "linked")' = At("reader", "linked"),
         At("writer", "linked")' = At("writer", "linked")
  PROVE  ListEffect /\ CommonInv'
<1>1. UNCHANGED <<first, last, nxt, val, freed, count, i, expected>>
  BY DEF listVars, nodeVars
<1>2. /\ dead' \in SUBSET Threads /\ cancelled' \in SUBSET Threads
      /\ mpc' \in {"sleep", "cancel", "join", "destroy", "returned"}
      /\ mpc' = "returned" <=> mpc = "returned"
      /\ MainInv'
  BY DEF IInv, ThreadsTypeOK, MainInv, mainVars, Main, CancelReader, CancelWriter, Join, Die, Threads
<1>3. Length' = Length
  BY <1>1 DEF Length
<1>4. CountInv'
  BY <1>1, <1>2, <1>3 DEF IInv, CountInv
<1>5. KeepNodes
  BY <1>1, <1>2 DEF KeepNodes
<1> QED
  BY <1>1, <1>2, <1>4, <1>5, IInvParts DEF ListEffect, CommonInv

\* queue_destroy.
LEMMA DestroyStep ==
  ASSUME IInv, Destroy, build' = build
  PROVE  ListEffect /\ CommonInv'
<1>1. DropNodes /\ mpc = "destroy" /\ mpc' = "returned" /\ UNCHANGED <<count, dead, cancelled>>
  BY DEF Destroy, DropNodes, FreeAll
<1> QED
  BY <1>1, IInvParts DEF ListEffect, CommonInv, CountInv, MainInv

\* A whole queue_add or queue_get, in a build in which it is one step.
LEMMA AddStep ==
  ASSUME IInv, PutNode, count' = count + 1, count # MaxCount, mpc # "returned",
         UNCHANGED <<mainVars, build>>, build # "spinlock"
  PROVE  ListEffect /\ CommonInv' /\ first' # NULL
<1>1. NodesTypeOK /\ ChainInv /\ CommonInv
  BY IInvParts
<1>2. UNCHANGED <<dead, cancelled, mpc>>
  BY DEF mainVars
<1>3. Length \in Nat /\ count = Length /\ count \in 0..MaxCount
  BY <1>1, ContentsAre DEF ContentsRun, CommonInv, CountInv, At
<1>4. Length < MaxCount /\ count' \in 0..MaxCount
  BY <1>3, MaxCountAssumption
<1>5. Length' = Length + 1 /\ first' # NULL
  BY <1>1, <1>2, PutFacts
<1>6. CountInv'
  BY <1>2, <1>3, <1>5 DEF CountInv, At
<1> QED
  BY <1>1, <1>2, <1>4, <1>5, <1>6 DEF ListEffect, CommonInv, MainInv

\* The other one.
LEMMA GetStep ==
  ASSUME IInv, TakeNode, count' = count - 1, count # 0, mpc # "returned",
         UNCHANGED <<mainVars, build>>, build # "spinlock"
  PROVE  ListEffect /\ CommonInv'
<1>1. NodesTypeOK /\ ChainInv /\ CommonInv
  BY IInvParts
<1>2. UNCHANGED <<dead, cancelled, mpc>>
  BY DEF mainVars
<1>3. Length \in Nat /\ count = Length /\ count \in 0..MaxCount /\ first # NULL
  BY <1>1, ContentsAre DEF ContentsRun, CommonInv, CountInv, At
<1>4. count' \in 0..MaxCount
  BY <1>3, MaxCountAssumption
<1>5. Length' = Length - 1
  BY <1>1, <1>2, <1>3, TakeFacts
<1>6. CountInv'
  BY <1>2, <1>3, <1>5 DEF CountInv, At
<1> QED
  BY <1>1, <1>2, <1>3, <1>4, <1>6 DEF ListEffect, CommonInv, MainInv

\* A step of the build with a mutex: a critical section is one step.
LEMMA MutexStep ==
  ASSUME IInv, Mutex(M!Next)
  PROVE  ListEffect /\ CommonInv' /\ VariantInv'
<1>0. build = "mutex" /\ UNCHANGED <<build, variantVars>> /\ M!Next
  BY DEF Mutex
<1>v. VariantInv'
  BY <1>0 DEF VariantInv
<1>a. UNCHANGED At("reader", "linked") /\ UNCHANGED At("writer", "linked")
  BY <1>0 DEF At
<1>d. mpc = "returned" => dead = Threads
  BY DEF IInv, MainInv
<1>1. CASE M!Add
  <2>1. PutNode /\ count' = count + 1
    BY <1>1, SameProgram DEF M!Add
  <2>2. count # MaxCount /\ mpc # "returned" /\ UNCHANGED mainVars
    BY <1>1, <1>d DEF M!Add, M!mainVars, mainVars, Threads
  <2> QED
    BY <1>0, <1>v, <2>1, <2>2, AddStep
<1>2. CASE M!Get
  <2>1. TakeNode /\ count' = count - 1
    BY <1>2, SameProgram DEF M!Get
  <2>2. count # 0 /\ mpc # "returned" /\ UNCHANGED mainVars
    BY <1>2, <1>d DEF M!Get, M!mainVars, mainVars, Threads
  <2> QED
    BY <1>0, <1>v, <2>1, <2>2, GetStep
<1>3. CASE \E t \in Threads : M!Die(t)
  <2>1. (\E t \in Threads : Die(t)) /\ UNCHANGED listVars
    BY <1>3 DEF M!Die, Die, M!listVars, M!nodeVars, listVars, nodeVars
  <2> QED
    BY <1>0, <1>v, <1>a, <2>1, QuietStep
<1>4. CASE M!Main
  <2>1. Main /\ UNCHANGED listVars
    BY <1>4, SameProgram DEF Main, CancelReader, CancelWriter, Join
  <2> QED
    BY <1>0, <1>v, <1>a, <2>1, QuietStep
<1>5. CASE M!Destroy
  BY <1>0, <1>v, <1>5, DestroyStep, SameProgram
<1>6. CASE M!Returned
  <2>1. UNCHANGED <<listVars, mainVars>>
    BY <1>6 DEF M!Returned, M!vars, M!listVars, M!nodeVars, M!mainVars, listVars, nodeVars, mainVars
  <2> QED
    BY <1>0, <1>v, <1>a, <2>1, QuietStep
<1> QED
  BY <1>0, <1>1, <1>2, <1>3, <1>4, <1>5, <1>6, SameProgram DEF M!Next

\* queue_add and queue_get of the spinlock up to the counter.
LEMMA SpinListStep ==
  ASSUME IInv, build = "spinlock", UNCHANGED <<build, abandoned, empty, full>>,
         S!queue_add \/ S!queue_get
  PROVE  ListEffect /\ CommonInv' /\ VariantInv'
<1>0. NodesTypeOK /\ ChainInv /\ CommonInv /\ SpinInv
  BY IInvParts DEF VariantInv
<1>1. ContentsRun \/ mpc = "returned"
  BY <1>0, ContentsAre
<1> USE DEF S!Goto, Threads
<1>2. UNCHANGED <<dead, cancelled, mpc, lock>>
  BY DEF S!queue_add, S!queue_get, S!mainVars
<1>3. CASE S!queue_add
  <2>1. pc["writer"] = "in" /\ "writer" \notin dead
    BY <1>0, <1>3 DEF S!queue_add, SpinInv
  <2>2. mpc # "returned" /\ count = Length /\ Length \in Nat
    BY <1>0, <1>1, <2>1 DEF CommonInv, MainInv, CountInv, At, SpinInv, Inside, ContentsRun
  <2>3. CASE count = MaxCount \/ i = MaxAdds
    <3>1. pc' = [pc EXCEPT !["writer"] = "out"] /\ UNCHANGED listVars
      BY <1>3, <2>3 DEF S!queue_add, S!listVars, S!nodeVars, listVars, nodeVars
    <3>2. SpinInv'
      BY <1>0, <1>2, <2>1, <3>1 DEF SpinInv, Inside, listVars, nodeVars
    <3>3. UNCHANGED At("reader", "linked") /\ UNCHANGED At("writer", "linked")
      BY <1>0, <2>1, <3>1 DEF At, SpinInv
    <3>4. UNCHANGED mainVars
      BY <1>2 DEF mainVars
    <3> QED
      BY <3>1, <3>2, <3>3, <3>4, QuietStep DEF VariantInv
  <2>4. CASE ~(count = MaxCount \/ i = MaxAdds)
    <3>1. PutNode /\ pc' = [pc EXCEPT !["writer"] = "linked"] /\ count' = count
      BY <1>0, <1>3, <2>4, MaxAddsAssumption
         DEF S!queue_add, S!Link, S!NULL, Link, NULL, PutNode, NodesTypeOK
    <3>2. Length < MaxCount /\ count < MaxCount
      BY <1>0, <2>2, <2>4, MaxCountAssumption DEF CommonInv
    <3>3. Length' = Length + 1
      BY <1>0, <1>2, <2>2, <3>1, PutFacts
    <3>4. SpinInv'
      BY <1>0, <1>2, <2>1, <3>1, <3>2 DEF SpinInv, Inside
    <3>5. At("writer", "linked")' /\ ~At("reader", "linked")'
      BY <1>0, <2>1, <3>1, <3>4 DEF At, SpinInv, Inside
    <3>6. CountInv'
      BY <1>2, <2>2, <3>1, <3>3, <3>5 DEF CountInv
    <3> QED
      BY <1>0, <1>2, <2>2, <3>1, <3>2, <3>4, <3>6 DEF ListEffect, CommonInv, MainInv, VariantInv
  <2> QED
    BY <2>3, <2>4
<1>4. CASE S!queue_get
  <2>1. pc["reader"] = "in" /\ "reader" \notin dead
    BY <1>0, <1>4 DEF S!queue_get, SpinInv
  <2>2. mpc # "returned" /\ count = Length /\ Length \in Nat
    BY <1>0, <1>1, <2>1 DEF CommonInv, MainInv, CountInv, At, SpinInv, Inside, ContentsRun
  <2>3. CASE count = 0
    <3>1. pc' = [pc EXCEPT !["reader"] = "out"] /\ UNCHANGED listVars
      BY <1>4, <2>3 DEF S!queue_get, S!listVars, S!nodeVars, listVars, nodeVars
    <3>2. SpinInv'
      BY <1>0, <1>2, <2>1, <3>1 DEF SpinInv, Inside, listVars, nodeVars
    <3>3. UNCHANGED At("reader", "linked") /\ UNCHANGED At("writer", "linked")
      BY <1>0, <2>1, <3>1 DEF At, SpinInv
    <3>4. UNCHANGED mainVars
      BY <1>2 DEF mainVars
    <3> QED
      BY <3>1, <3>2, <3>3, <3>4, QuietStep DEF VariantInv
  <2>4. CASE count # 0
    <3>1. TakeNode /\ pc' = [pc EXCEPT !["reader"] = "linked"] /\ count' = count
      BY <1>4, <2>4 DEF S!queue_get, TakeNode
    <3>2. first # NULL
      BY <1>1, <2>2, <2>4 DEF ContentsRun
    <3>3. Length' = Length - 1
      BY <1>0, <1>2, <2>2, <3>1, <3>2, TakeFacts
    <3>4. SpinInv'
      BY <1>0, <1>2, <2>1, <3>1 DEF SpinInv, Inside
    <3>5. At("reader", "linked")' /\ ~At("writer", "linked")'
      BY <1>0, <2>1, <3>1, <3>4 DEF At, SpinInv, Inside
    <3>6. CountInv'
      BY <1>2, <2>2, <3>1, <3>3, <3>5 DEF CountInv
    <3> QED
      BY <1>0, <1>2, <2>2, <3>1, <3>2, <3>4, <3>6 DEF ListEffect, CommonInv, MainInv, VariantInv
  <2> QED
    BY <2>3, <2>4
<1> QED
  BY <1>3, <1>4

\* q->count++ and q->count-- under the spinlock.
LEMMA SpinCountStep ==
  ASSUME IInv, build = "spinlock", UNCHANGED <<build, abandoned, empty, full>>,
         NEW t \in Threads, S!Count(t)
  PROVE  ListEffect /\ CommonInv' /\ VariantInv'
<1>0. NodesTypeOK /\ ChainInv /\ CommonInv /\ SpinInv
  BY IInvParts DEF VariantInv
<1>1. /\ UNCHANGED <<first, last, nxt, val, freed, i, expected, dead, cancelled, mpc, lock>>
      /\ pc[t] = "linked" /\ pc' = [pc EXCEPT ![t] = "out"]
      /\ count' = IF t = "writer" THEN count + 1 ELSE count - 1
  BY DEF S!Count, S!Goto, S!mainVars
<1>2. mpc # "returned" /\ ContentsRun
  BY <1>0, <1>1, ContentsAre DEF SpinInv, CommonInv, MainInv
<1>3. Length' = Length /\ Length \in Nat
  BY <1>1, <1>2 DEF Length, ContentsRun
<1>4. ~At("reader", "linked")' /\ ~At("writer", "linked")'
  BY <1>0, <1>1 DEF At, SpinInv, Inside, Threads
<1>5. SpinInv'
  BY <1>0, <1>1 DEF SpinInv, Inside, Threads
<1>6. count' = Length /\ count' \in 0..MaxCount
  <2>1. CASE t = "writer"
    <3>1. At("writer", "linked") /\ ~At("reader", "linked")
      BY <1>0, <1>1, <2>1 DEF At, SpinInv, Inside
    <3> QED
      BY <1>0, <1>1, <1>2, <1>3, <2>1, <3>1, MaxCountAssumption DEF CommonInv, CountInv, SpinInv
  <2>2. CASE t = "reader"
    <3>1. At("reader", "linked") /\ ~At("writer", "linked")
      BY <1>0, <1>1, <2>2 DEF At, SpinInv, Inside
    <3> QED
      BY <1>0, <1>1, <1>2, <1>3, <2>2, <3>1, MaxCountAssumption DEF CommonInv, CountInv
  <2> QED
    BY <2>1, <2>2 DEF Threads
<1>7. CountInv'
  BY <1>3, <1>4, <1>6 DEF CountInv
<1> QED
  BY <1>0, <1>1, <1>5, <1>6, <1>7 DEF ListEffect, KeepNodes, CommonInv, MainInv, VariantInv

\* A step of the build with the spinlock.
LEMMA SpinlockStep ==
  ASSUME IInv, Spinlock(S!Next)
  PROVE  ListEffect /\ CommonInv' /\ VariantInv'
<1>0. build = "spinlock" /\ UNCHANGED <<build, abandoned, empty, full>> /\ S!Next
  BY DEF Spinlock
<1>s. SpinInv /\ CommonInv
  BY <1>0, IInvParts DEF VariantInv
<1> USE DEF S!Goto
<1>1. CASE \E t \in Threads : S!TestCancel(t) \/ S!spinlock_lock(t) \/ S!spinlock_unlock(t)
  <2> PICK t \in Threads : S!TestCancel(t) \/ S!spinlock_lock(t) \/ S!spinlock_unlock(t)
    BY <1>1
  <2>1. UNCHANGED listVars
    BY DEF S!TestCancel, S!spinlock_lock, S!spinlock_unlock, S!listVars, S!nodeVars, listVars, nodeVars
  <2>2. UNCHANGED mainVars \/ Die(t)
    BY <2>1 DEF S!TestCancel, S!spinlock_lock, S!spinlock_unlock, S!mainVars, mainVars, Die
  <2>3. UNCHANGED At("reader", "linked") /\ UNCHANGED At("writer", "linked")
    BY <1>0, <1>s DEF S!TestCancel, S!spinlock_lock, S!spinlock_unlock, At, SpinInv, Threads
  <2>4. SpinInv'
    <3>1. CASE S!TestCancel(t)
      <4>1. /\ pc[t] = "top" /\ UNCHANGED <<lock, count>>
            /\ \/ dead' = dead \cup {t} /\ pc' = pc
               \/ t \notin dead /\ pc' = [pc EXCEPT ![t] = "spin"] /\ dead' = dead
        BY <2>1, <3>1 DEF S!TestCancel, listVars, nodeVars
      <4>2. pc' \in [Threads -> {"top", "spin", "in", "linked", "out"}]
        BY <1>s, <4>1 DEF SpinInv
      <4>3. \A u \in Threads : /\ Inside(u)' => Inside(u)
                              /\ pc'[u] = "linked" => pc[u] = "linked"
        BY <1>s, <4>1 DEF SpinInv, Inside
      <4>4. \A u \in dead' : pc'[u] = "top"
        BY <1>s, <4>1 DEF SpinInv, CommonInv
      <4>5. lock' \in BOOLEAN /\ \A u \in Threads : Inside(u)' => lock'
        BY <1>s, <4>1, <4>3 DEF SpinInv, Inside
      <4>6. ~(Inside("reader")' /\ Inside("writer")')
        BY <1>s, <4>1, <4>2 DEF SpinInv, Threads, Inside
      <4>7. pc'["writer"] = "linked" => count' < MaxCount
        BY <1>s, <4>1, <4>3 DEF SpinInv, Threads
      <4> QED
        BY <4>2, <4>4, <4>5, <4>6, <4>7 DEF SpinInv
    <3>2. CASE S!spinlock_lock(t)
      BY <1>s, <2>1, <3>2 DEF S!spinlock_lock, S!mainVars, SpinInv, Inside, Threads, listVars, nodeVars
    <3>3. CASE S!spinlock_unlock(t)
      <4>1. /\ pc[t] = "out" /\ lock' = FALSE /\ UNCHANGED <<dead, count>>
            /\ pc' = [pc EXCEPT ![t] = "top"]
        BY <2>1, <3>3 DEF S!spinlock_unlock, S!mainVars, listVars, nodeVars
      <4>2. pc' \in [Threads -> {"top", "spin", "in", "linked", "out"}]
        BY <1>s, <4>1 DEF SpinInv
      <4>3. \A u \in Threads : ~Inside(u)' /\ pc'[u] # "linked"
        BY <1>s, <4>1 DEF SpinInv, Inside, Threads
      <4>4. \A u \in dead' : pc'[u] = "top"
        BY <1>s, <4>1 DEF SpinInv, CommonInv
      <4> QED
        BY <4>1, <4>2, <4>3, <4>4 DEF SpinInv, Threads
    <3> QED
      BY <3>1, <3>2, <3>3
  <2> QED
    BY <1>0, <2>1, <2>2, <2>3, <2>4, QuietStep DEF VariantInv
<1>2. CASE S!queue_add \/ S!queue_get
  BY <1>0, <1>2, SpinListStep
<1>3. CASE \E t \in Threads : S!Count(t)
  BY <1>0, <1>3, SpinCountStep
<1>4. CASE S!Main /\ UNCHANGED <<lock, pc>>
  <2>1. Main /\ UNCHANGED listVars /\ dead' = dead
    BY <1>4, SameProgram DEF Main, CancelReader, CancelWriter, Join
  <2>2. SpinInv'
    BY <1>4, <1>s, <2>1 DEF SpinInv, Inside, listVars, nodeVars
  <2>3. UNCHANGED At("reader", "linked") /\ UNCHANGED At("writer", "linked")
    BY <1>0, <1>4 DEF At
  <2> QED
    BY <1>0, <2>1, <2>2, <2>3, QuietStep DEF VariantInv
<1>5. CASE S!queue_destroy
  <2>1. Destroy /\ pc' = pc /\ lock' = TRUE /\ UNCHANGED <<count, dead>>
    BY <1>5, SameProgram DEF S!queue_destroy, Destroy, FreeAll
  <2>2. SpinInv'
    BY <1>s, <2>1 DEF SpinInv, Inside
  <2> QED
    BY <1>0, <2>1, <2>2, DestroyStep DEF VariantInv
<1>6. CASE S!Returned
  <2>1. UNCHANGED <<listVars, mainVars, lock, pc>>
    BY <1>6 DEF S!Returned, S!vars, S!listVars, S!nodeVars, S!mainVars, listVars, nodeVars, mainVars
  <2>2. SpinInv'
    BY <1>s, <2>1 DEF SpinInv, Inside, listVars, nodeVars, mainVars
  <2>3. UNCHANGED At("reader", "linked") /\ UNCHANGED At("writer", "linked")
    BY <1>0, <2>1 DEF At
  <2> QED
    BY <1>0, <2>1, <2>2, <2>3, QuietStep DEF VariantInv
<1> QED
  BY <1>0, <1>1, <1>2, <1>3, <1>4, <1>5, <1>6, SameProgram DEF S!Next, S!Step

\* A step of the build with condition variables.
LEMMA CondvarStep ==
  ASSUME IInv, Condvar(C!Next)
  PROVE  ListEffect /\ CommonInv' /\ VariantInv'
<1>0. build = "condvar" /\ UNCHANGED <<build, lock, empty, full>> /\ C!Next
  BY DEF Condvar
<1>c. CondInv /\ CommonInv
  BY <1>0, IInvParts DEF VariantInv
<1>a. UNCHANGED At("reader", "linked") /\ UNCHANGED At("writer", "linked")
  BY <1>0 DEF At
<1>v. CondInv' => VariantInv'
  BY <1>0 DEF VariantInv
<1>l. \A t \in Threads : pc[t] = "call" /\ ~abandoned => mpc # "returned"
  BY <1>c DEF CondInv, CommonInv, MainInv
<1>1. CASE C!Add
  <2>1. PutNode /\ count' = count + 1 /\ count # MaxCount /\ UNCHANGED mainVars
    BY <1>1, SameProgram DEF C!Add, C!mainVars, mainVars
  <2>2. /\ pc["writer"] = "call" /\ ~abandoned /\ UNCHANGED <<dead, abandoned>>
        /\ pc' = [writer |-> "top", reader |-> C!Signal("reader")]
    BY <1>1 DEF C!Add, C!mainVars
  <2>3. C!Signal("reader") \in {"top", "call", "waiting"}
    BY <1>c DEF C!Signal, CondInv, Threads
  <2>4. pc' \in [Threads -> {"top", "call", "waiting"}] /\ pc'["writer"] = "top"
        /\ (pc'["reader"] = "top" <=> pc["reader"] = "top")
    BY <1>c, <2>2, <2>3 DEF Threads, C!Signal, CondInv
  <2>5. CondInv'
    BY <1>c, <2>2, <2>4 DEF CondInv, CommonInv, Threads
  <2>6. mpc # "returned"
    BY <1>l, <2>2 DEF Threads
  <2> QED
    BY <1>0, <1>v, <2>1, <2>5, <2>6, AddStep
<1>2. CASE C!Get
  <2>1. TakeNode /\ count' = count - 1 /\ count # 0 /\ UNCHANGED mainVars
    BY <1>2, SameProgram DEF C!Get, C!mainVars, mainVars
  <2>2. /\ pc["reader"] = "call" /\ ~abandoned /\ UNCHANGED <<dead, abandoned>>
        /\ pc' = [reader |-> "top", writer |-> C!Signal("writer")]
    BY <1>2 DEF C!Get, C!mainVars
  <2>3. C!Signal("writer") \in {"top", "call", "waiting"}
    BY <1>c DEF C!Signal, CondInv, Threads
  <2>4. pc' \in [Threads -> {"top", "call", "waiting"}] /\ pc'["reader"] = "top"
        /\ (pc'["writer"] = "top" <=> pc["writer"] = "top")
    BY <1>c, <2>2, <2>3 DEF Threads, C!Signal, CondInv
  <2>5. CondInv'
    BY <1>c, <2>2, <2>4 DEF CondInv, CommonInv, Threads
  <2>6. mpc # "returned"
    BY <1>l, <2>2 DEF Threads
  <2> QED
    BY <1>0, <1>v, <2>1, <2>5, <2>6, GetStep
<1>3. CASE \E t \in Threads : C!Step(t) \/ C!SpuriousWakeup(t)
  <2> PICK t \in Threads : C!Step(t) \/ C!SpuriousWakeup(t)
    BY <1>3
  <2> USE DEF C!Step, C!TestCancel, C!Wait, C!CancelledInWait, C!SpuriousWakeup
  <2>1. UNCHANGED listVars
    BY DEF C!Die, C!listVars, C!nodeVars, listVars, nodeVars
  <2>2. UNCHANGED mainVars \/ Die(t)
    BY <2>1 DEF C!Die, C!mainVars, mainVars, Die
  <2> SUFFICES CondInv'
    BY <1>0, <1>a, <1>v, <2>1, <2>2, QuietStep
  <2>3. CASE C!TestCancel(t)
    BY <1>c, <2>3 DEF CondInv, CommonInv
  <2>4. CASE C!Wait(t)
    BY <1>c, <2>4 DEF CondInv, CommonInv, C!Die, C!mainVars
  <2>5. CASE C!CancelledInWait(t)
    BY <1>c, <2>5 DEF CondInv, CommonInv, C!Die
  <2>6. CASE C!SpuriousWakeup(t)
    BY <1>c, <2>6 DEF CondInv, CommonInv, C!mainVars
  <2> QED
    BY <2>3, <2>4, <2>5, <2>6
<1>4. CASE C!Main /\ UNCHANGED <<pc, abandoned>>
  <2>1. Main /\ UNCHANGED listVars /\ dead' = dead
    BY <1>4, SameProgram DEF Main, CancelReader, CancelWriter, Join
  <2>2. CondInv'
    BY <1>4, <1>c, <2>1 DEF CondInv
  <2> QED
    BY <1>0, <1>a, <1>v, <2>1, <2>2, QuietStep
<1>5. CASE C!queue_destroy
  <2>1. Destroy /\ UNCHANGED <<pc, abandoned, dead>>
    BY <1>5, SameProgram DEF C!queue_destroy, Destroy
  <2>2. CondInv'
    BY <1>c, <2>1 DEF CondInv
  <2> QED
    BY <1>0, <1>v, <2>1, <2>2, DestroyStep
<1>6. CASE C!Stopped
  <2>1. UNCHANGED <<listVars, mainVars, pc, abandoned>>
    BY <1>6 DEF C!Stopped, C!vars, C!listVars, C!nodeVars, C!mainVars, listVars, nodeVars, mainVars
  <2>2. CondInv'
    BY <1>c, <2>1 DEF CondInv, mainVars
  <2> QED
    BY <1>0, <1>a, <1>v, <2>1, <2>2, QuietStep
<1> QED
  BY <1>0, <1>1, <1>2, <1>3, <1>4, <1>5, <1>6, SameProgram DEF C!Next

\* A step of the build with semaphores.
LEMMA SemaphoreStep ==
  ASSUME IInv, Semaphore(E!Next)
  PROVE  ListEffect /\ CommonInv' /\ VariantInv'
<1>0. build = "semaphore" /\ UNCHANGED <<build, lock, abandoned>> /\ E!Next
  BY DEF Semaphore
<1>e. SemInv /\ CommonInv
  BY <1>0, IInvParts DEF VariantInv
<1>a. UNCHANGED At("reader", "linked") /\ UNCHANGED At("writer", "linked")
  BY <1>0 DEF At
<1>v. SemInv' => VariantInv'
  BY <1>0 DEF VariantInv
<1> USE MaxCountAssumption DEF E!SemaphoresExact, E!Holds
<1>1. CASE E!Add
  <2>1. PutNode /\ count' = count + 1 /\ UNCHANGED mainVars
    BY <1>1, SameProgram DEF E!Add, E!mainVars, mainVars
  <2>2. /\ pc["writer"] = "lock" /\ UNCHANGED <<dead, mpc, empty>>
        /\ pc' = [pc EXCEPT !["writer"] = "top"] /\ full' = full + 1
    BY <1>1 DEF E!Add, E!mainVars
  <2>3. pc' \in [Threads -> {"top", "sem", "lock"}] /\ pc'["writer"] = "top"
        /\ pc'["reader"] = pc["reader"]
    BY <1>e, <2>2 DEF SemInv, Threads
  <2>4. count # MaxCount
    BY <1>e, <2>2 DEF SemInv, CommonInv
  <2>5. SemInv'
    BY <1>e, <2>1, <2>2, <2>3 DEF SemInv, CommonInv, Threads
  <2> QED
    BY <1>0, <1>e, <1>v, <2>1, <2>4, <2>5, AddStep DEF SemInv
<1>2. CASE E!Get
  <2>1. TakeNode /\ count' = count - 1 /\ UNCHANGED mainVars
    BY <1>2, SameProgram DEF E!Get, E!mainVars, mainVars
  <2>2. /\ pc["reader"] = "lock" /\ UNCHANGED <<dead, mpc, full>>
        /\ pc' = [pc EXCEPT !["reader"] = "top"] /\ empty' = empty + 1
    BY <1>2 DEF E!Get, E!mainVars
  <2>3. pc' \in [Threads -> {"top", "sem", "lock"}] /\ pc'["reader"] = "top"
        /\ pc'["writer"] = pc["writer"]
    BY <1>e, <2>2 DEF SemInv, Threads
  <2>4. count # 0
    BY <1>e, <2>2 DEF SemInv, CommonInv
  <2>5. SemInv'
    BY <1>e, <2>1, <2>2, <2>3 DEF SemInv, CommonInv, Threads
  <2> QED
    BY <1>0, <1>e, <1>v, <2>1, <2>4, <2>5, GetStep DEF SemInv
<1>3. CASE E!WaitEmpty \/ E!WaitFull
  <2>1. UNCHANGED <<listVars, mainVars, count, dead, mpc>>
    BY <1>3 DEF E!WaitEmpty, E!WaitFull, E!listVars, E!nodeVars, E!mainVars, listVars, nodeVars, mainVars
  <2>2. SemInv'
    BY <1>3, <1>e, <2>1 DEF E!WaitEmpty, E!WaitFull, SemInv, CommonInv, Threads
  <2> QED
    BY <1>0, <1>a, <1>v, <2>1, <2>2, QuietStep
<1>4. CASE \E t \in Threads : E!Step(t)
  <2> PICK t \in Threads : E!Step(t)
    BY <1>4
  <2> USE DEF E!Step, E!TestCancel, E!CancelledInWait
  <2>1. UNCHANGED <<listVars, mpc, empty, full, count>>
    BY DEF E!Die, E!listVars, E!nodeVars, listVars, nodeVars
  <2>2. UNCHANGED mainVars \/ Die(t)
    BY <2>1 DEF E!Die, mainVars, Die
  <2> SUFFICES SemInv'
    BY <1>0, <1>a, <1>v, <2>1, <2>2, QuietStep
  <2>3. CASE E!TestCancel(t)
    BY <1>e, <2>1, <2>3 DEF SemInv, CommonInv, Threads
  <2>4. CASE E!CancelledInWait(t)
    BY <1>e, <2>1, <2>4 DEF SemInv, CommonInv, E!Die
  <2> QED
    BY <2>3, <2>4
<1>5. CASE E!Main /\ UNCHANGED <<empty, full, pc>>
  <2>1. Main /\ UNCHANGED <<listVars, count, dead>> /\ mpc' # "returned"
    BY <1>5, SameProgram DEF Main, CancelReader, CancelWriter, Join, listVars, nodeVars
  <2>2. SemInv'
    BY <1>5, <1>e, <2>1 DEF SemInv
  <2> QED
    BY <1>0, <1>a, <1>v, <2>1, <2>2, QuietStep
<1>6. CASE E!Joined
  <2>1. UNCHANGED <<listVars, mainVars, empty, full, pc, count, dead, mpc>>
    BY <1>6 DEF E!Joined, E!vars, E!listVars, E!nodeVars, E!mainVars, listVars, nodeVars, mainVars
  <2>2. SemInv'
    BY <1>e, <2>1 DEF SemInv
  <2> QED
    BY <1>0, <1>a, <1>v, <2>1, <2>2, QuietStep
<1> QED
  BY <1>0, <1>1, <1>2, <1>3, <1>4, <1>5, <1>6, SameProgram DEF E!Next

-----------------------------------------------------------------------------
\* queue_init and the start of the threads satisfy the invariant.
LEMMA InitIInv == Init => IInv
<1> SUFFICES ASSUME Init PROVE IInv
  OBVIOUS
<1>1. /\ first = NULL /\ last = NULL /\ nxt = [n \in Nodes |-> NULL]
      /\ val = [n \in Nodes |-> 0] /\ freed = {} /\ count = 0 /\ i = 0 /\ expected = 0
      /\ dead = {} /\ cancelled = {} /\ mpc = "sleep"
  BY DEF Init, S!Init, S!ThreadsInit, S!ListInit, S!Nodes, S!NULL, Nodes, NULL
<1>2. NodesTypeOK /\ ChainInv
  BY <1>1, MaxAddsAssumption DEF NodesTypeOK, ChainInv, NULL
<1>3. /\ build \in {"mutex", "spinlock", "condvar", "semaphore"}
      /\ pc = [t \in Threads |-> "top"] /\ empty = MaxCount /\ full = 0
  BY DEF Init, S!Init, E!Init, S!Threads, Threads
<1>4. lock \in BOOLEAN /\ abandoned \in BOOLEAN
  BY Zenon DEF Init, S!Init, C!Init
<1>5. CommonInv
  BY <1>1, <1>3, MaxCountAssumption DEF CommonInv, CountInv, MainInv, Length, At, Threads
<1>6. SpinInv
  BY <1>1, <1>3, <1>4 DEF SpinInv, Inside, Threads
<1>7. CondInv
  BY <1>1, <1>3, <1>4 DEF CondInv
<1>8. SemInv
  BY <1>1, <1>3, MaxCountAssumption DEF SemInv, E!SemaphoresExact, E!Holds, Threads
<1> QED
  BY <1>2, <1>3, <1>5, <1>6, <1>7, <1>8, IInvParts DEF VariantInv

\* Every step of every build preserves the invariant and is a step of the
\* abstract queue, or changes nothing that the abstract queue has.
LEMMA NextIInv ==
  ASSUME IInv, [Next]_vars
  PROVE  IInv' /\ [Abstract!Next]_<<Contents, i, expected>>
<1>0. NodesTypeOK /\ ChainInv
  BY IInvParts
<1>1. CASE Next
  <2>1. ListEffect /\ CommonInv' /\ VariantInv'
    BY <1>1, MutexStep, SpinlockStep, CondvarStep, SemaphoreStep DEF Next
  <2>2. NodesTypeOK' /\ ChainInv' /\ [Abstract!Next]_<<Contents, i, expected>>
    BY <1>0, <2>1, EffectFacts
  <2>3. (IInv <=> NodesTypeOK /\ ChainInv /\ CommonInv /\ VariantInv)'
    BY DEF IInv, ThreadsTypeOK, ListTypeOK, NodesTypeOK, CommonInv
  <2> QED
    BY <2>1, <2>2, <2>3
<1>2. CASE UNCHANGED vars
  <2>1. UNCHANGED <<listVars, mainVars, build, variantVars>>
    BY <1>2 DEF vars
  <2>2. UNCHANGED At("reader", "linked") /\ UNCHANGED At("writer", "linked")
    BY <2>1 DEF At, variantVars
  <2>3. ListEffect /\ CommonInv'
    BY <2>1, <2>2, QuietStep
  <2>4. NodesTypeOK' /\ ChainInv' /\ [Abstract!Next]_<<Contents, i, expected>>
    BY <1>0, <2>3, EffectFacts
  <2>5. VariantInv'
    <3>1. /\ UNCHANGED <<pc, lock, abandoned, empty, full, build, count, dead, mpc>>
          /\ VariantInv
      BY <2>1, IInvParts DEF variantVars, listVars, nodeVars, mainVars
    <3>2. (SpinInv => SpinInv') /\ (CondInv => CondInv')
      BY <3>1 DEF SpinInv, Inside, CondInv
    <3>3. SemInv => SemInv'
      BY <3>1 DEF SemInv, E!SemaphoresExact, E!Holds
    <3> QED
      BY <3>1, <3>2, <3>3 DEF VariantInv
  <2>6. (IInv <=> NodesTypeOK /\ ChainInv /\ CommonInv /\ VariantInv)'
    BY DEF IInv, ThreadsTypeOK, ListTypeOK, NodesTypeOK, CommonInv
  <2> QED
    BY <2>3, <2>4, <2>5, <2>6
<1> QED
  BY <1>1, <1>2

\* The invariant holds in every state of the program of lab2/src/2.
THEOREM Invariance == Spec => []IInv
<1>1. IInv /\ [Next]_vars => IInv'
  BY NextIInv
<1> QED
  BY <1>1, InitIInv, PTL DEF Spec

\* lab2/src/2/queue_*/queue.c: whatever the capacity, the list of each of the
\* four queues is one chain of live nodes that agrees with count whenever the
\* lock is free, and the semaphores account for every place of it.
THEOREM ListsIntact == Spec => []IntactOutsideLock
<1>1. IInv => IntactOutsideLock
  <2> SUFFICES ASSUME IInv PROVE IntactOutsideLock
    OBVIOUS
  <2>0. NodesTypeOK /\ ChainInv /\ CommonInv /\ VariantInv
    BY IInvParts
  <2>1. TypeOK
    <3>1. ThreadsTypeOK
      BY DEF IInv
    <3>2. CASE build = "mutex"
      BY <3>1, <3>2 DEF TypeOK, M!TypeOK, M!ThreadsTypeOK, M!ListTypeOK, M!Nodes, M!NULL, M!Threads,
                        ThreadsTypeOK, ListTypeOK, Nodes, NULL, Threads
    <3>3. CASE build = "spinlock"
      BY <2>0, <3>1, <3>3 DEF TypeOK, S!TypeOK, S!ThreadsTypeOK, S!ListTypeOK, S!Nodes, S!NULL, S!Threads,
                        ThreadsTypeOK, ListTypeOK, Nodes, NULL, Threads, VariantInv, SpinInv
    <3>4. CASE build = "condvar"
      BY <2>0, <3>1, <3>4 DEF TypeOK, C!TypeOK, C!ThreadsTypeOK, C!ListTypeOK, C!Nodes, C!NULL, C!Threads,
                        ThreadsTypeOK, ListTypeOK, Nodes, NULL, Threads, VariantInv, CondInv
    <3>5. CASE build = "semaphore"
      BY <2>0, <3>1, <3>5 DEF TypeOK, E!TypeOK, E!ThreadsTypeOK, E!ListTypeOK, E!Nodes, E!NULL, E!Threads,
                        ThreadsTypeOK, ListTypeOK, Nodes, NULL, Threads, VariantInv, SemInv
    <3> QED
      BY <2>0, <3>2, <3>3, <3>4, <3>5 DEF VariantInv
  <2>2. ASSUME ~(build = "spinlock" /\ lock), mpc # "returned" PROVE Chained
    <3>1. ~At("reader", "linked") /\ ~At("writer", "linked")
      BY <2>0, <2>2 DEF At, VariantInv, SpinInv, Inside, Threads
    <3>2. ContentsRun /\ count = Length
      BY <2>0, <2>2, <3>1, ContentsAre DEF CommonInv, CountInv, ContentsRun
    <3>3. first # NULL => last = i /\ Length = last - first + 1
      BY <2>0 DEF ChainInv, Length
    <3> QED
      BY <2>0, <3>2, <3>3, MaxAddsAssumption, SMTT(20)
         DEF Chained, ContentsRun, ChainInv, NodesTypeOK, Nodes, NULL
  <2>3. build = "semaphore" => E!SemaphoresExact
    BY <2>0 DEF VariantInv, SemInv
  <2> QED
    BY <2>1, <2>2, <2>3 DEF IntactOutsideLock, ListIntact
<1> QED
  BY <1>1, Invariance, PTL

\* lab2/src/2: the list, its lock and the two threads make up a bounded first-in
\* first-out queue, in each of the four builds: every step is an Add, a Get or a
\* Drop of Fifo or leaves its variables alone.
THEOREM RefinesFifo == Spec => ImplementsFifo
<1>1. Init => Abstract!Init
  <2> SUFFICES ASSUME Init PROVE Abstract!Init
    OBVIOUS
  <2>1. first = NULL /\ i = 0 /\ expected = 0
    BY DEF Init, S!Init, S!ThreadsInit, S!ListInit, S!NULL, NULL
  <2> QED
    BY <2>1 DEF Abstract!Init, Contents
<1>2. IInv /\ [Next]_vars => [Abstract!Next]_<<Contents, i, expected>>
  BY NextIInv
<1> QED
  BY <1>1, <1>2, Invariance, PTL DEF Spec, ImplementsFifo, Abstract!Spec
===============================================================================
