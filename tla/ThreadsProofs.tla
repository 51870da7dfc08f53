---------------------------- MODULE ThreadsProofs -----------------------------
(***************************************************************************)
(* lab1: the two schedulers of lab1/src/7 and, in the second part, the     *)
(* threads on clone of lab1/src/6, for every number of tasks or threads    *)
(* and every number of yields.                                             *)
(*                                                                         *)
(* UThreads. Three arguments share one invariant. The status of a node is  *)
(* what its task is doing (StatusTruthful), which is inductive once the    *)
(* nodes created are known to hold tasks that were added (Housekeeping).   *)
(* In the ring the tasks run in rounds that begin at the head: in round r  *)
(* the nodes before the active one have yielded r + 1 times and the others *)
(* r times (Rounds), so that no unfinished task is two yields ahead of     *)
(* another. And main.c's tasks, which yield once each, finish because of   *)
(* where they stand: in the ring all of them yield in the first round and  *)
(* return in the second (RingOfOnes); in the list, where a search begins   *)
(* at the head again, they do so two by two from the head down             *)
(* (ListOfOnes), which is why an odd one out is missed.                    *)
(***************************************************************************)
EXTENDS UThreads, MyThread, FiniteSetTheorems, NaturalsInduction, TLAPS

\* Every task that was added once has a node, and a node that runs is one of
\* those created.
Housekeeping ==
  /\ done \subseteq added
  /\ size <= Cardinality(added)
  /\ \A n \in 1..size : func[n] \in added
  /\ mpc = "uthread" => active \in 1..size

\* The first call of run_scheduler is under way.
FirstRun == runs = 1 /\ mpc = "uthread"

\* Up to the end of the first run no node is used again.
Fresh ==
  /\ runs = 0 => /\ mpc = "main" /\ done = {} /\ left = yields
                 /\ \A n \in 1..size : status[n] = "READY"
  /\ FirstRun => \A n \in 1..size : n # active => status[n] \in {"READY", "IDLE"}
  /\ runs = 0 \/ FirstRun => size = Cardinality(added)

\* A node's place in a round of the ring, which begins at the head.
Pos(n) == IF n = size THEN 0 ELSE n

\* In round r the nodes before the active one have yielded once more.
InRound(r) ==
  \A n \in 1..size :
    func[n] \in Unfinished =>
      yields[func[n]] - left[func[n]] = IF Pos(n) < Pos(active) THEN r + 1 ELSE r

\* Two unfinished tasks of the ring differ by at most one yield.
Rounds == ring /\ FirstRun => \E r \in Nat : InRound(r)

\* The tasks of main.c yield once each.
Ones == \A t \in added : yields[t] = 1

\* main.c's tasks in the ring: all yield in the first round and return in the
\* second.
RoundOfOnes(r) ==
  \A n \in 1..size :
    /\ left[func[n]] = IF r = 1 \/ Pos(n) < Pos(active) THEN 0 ELSE 1
    /\ func[n] \in done <=> r = 1 /\ Pos(n) < Pos(active)

\* Three such tasks or more in the ring are in one of these two rounds.
RingOfOnes == ring /\ FirstRun /\ Ones /\ size >= 3 => \E r \in {0, 1} : RoundOfOnes(r)

\* main.c's tasks in the list: the nodes 2h and 2h - 1 take turns until both are
\* done; those above are, those below have not begun.
Pair(h) ==
  /\ 2 * h <= size
  /\ \A n \in 1..size : n > 2 * h => func[n] \in done
  /\ \A n \in 1..size : n < 2 * h - 1 => left[func[n]] = 1 /\ func[n] \notin done
  /\ func[2 * h - 1] \notin done
  /\ \/ /\ active = 2 * h /\ func[2 * h] \notin done
        /\ left[func[2 * h]] = left[func[2 * h - 1]]
        /\ left[func[2 * h]] \in {0, 1}
     \/ /\ active = 2 * h - 1 /\ func[2 * h] \notin done
        /\ left[func[2 * h]] = 0 /\ left[func[2 * h - 1]] = 1
     \/ /\ active = 2 * h - 1 /\ func[2 * h] \in done
        /\ left[func[2 * h - 1]] = 0

\* An even number of them in the list has such a pair at work.
ListOfOnes ==
  ~ring /\ FirstRun /\ Ones /\ size % 2 = 0 => \E h \in 1..size : Pair(h)

\* The inductive invariant.
IInv == StatusTruthful /\ Housekeeping /\ Fresh /\ Rounds /\ RingOfOnes /\ ListOfOnes

-----------------------------------------------------------------------------
(* The searches *)

\* A set of numbers that is not empty has a least one.
LEMMA LeastFacts ==
  ASSUME NEW S \in SUBSET Nat, S # {}
  PROVE  \E x \in S : \A y \in S : x <= y
<1> DEFINE R == OpToRel(<, Nat)
<1>1. R = {ss \in Nat \X Nat : ss[1] < ss[2]}
  BY DEF OpToRel
<1>2. IsWellFoundedOn(R, Nat)
  BY NatLessThanWellFounded
<1> HIDE DEF R
<1>3. PICK x \in S : \A y \in S : ~(<<y, x>> \in R)
  BY <1>2, WFMin
<1>4. \A y \in S : ~(y < x)
  BY <1>1, <1>3
<1> QED
  BY <1>4

\* A set of nodes that is not empty has a greatest one.
LEMMA GreatestFacts ==
  ASSUME NEW k \in Nat, NEW S \in SUBSET (1..k), S # {}
  PROVE  \E x \in S : \A y \in S : y <= x
<1> DEFINE T == {i \in Nat : k - i \in S}
<1>1. PICK z : z \in S
  OBVIOUS
<1>2. k - z \in Nat /\ k - (k - z) = z
  BY <1>1
<1>3. T # {}
  BY <1>1, <1>2
<1>4. T \in SUBSET Nat
  OBVIOUS
<1> HIDE DEF T
<1>5. PICK i \in T : \A j \in T : i <= j
  BY <1>3, <1>4, LeastFacts
<1>6. i \in Nat /\ k - i \in S
  BY <1>5 DEF T
<1>7. ASSUME NEW y \in S PROVE y <= k - i
  <2>1. y \in 1..k /\ k - y \in Nat /\ k - (k - y) = y
    OBVIOUS
  <2>2. k - y \in T
    BY <2>1 DEF T
  <2> QED
    BY <1>5, <1>6, <2>1, <2>2
<1> QED
  BY <1>6, <1>7

\* The node k steps after n, without the remainder.
LEMMA AfterFacts ==
  ASSUME size \in Nat, NEW n \in 1..size, NEW k \in 0..(size - 1)
  PROVE  After(n, k) = IF n + k <= size THEN n + k ELSE n + k - size
<1>1. ASSUME NEW x \in Nat, x < size PROVE x % size = x
  BY <1>1
<1>2. ASSUME NEW x \in Nat, x < size PROVE (x + size) % size = x
  BY <1>2
<1>3. CASE n + k <= size
  <2>1. n - 1 + k \in Nat /\ n - 1 + k < size
    BY <1>3
  <2> QED
    BY <1>1, <1>3, <2>1 DEF After
<1>4. CASE ~(n + k <= size)
  <2> DEFINE x == n - 1 + k - size
  <2>1. x \in Nat /\ x < size /\ n - 1 + k = x + size
    BY <1>4
  <2>2. (n - 1 + k) % size = x
    BY <1>2, <2>1
  <2> QED
    BY <1>4, <2>1, <2>2 DEF After
<1> QED
  BY <1>3, <1>4

\* The search of the list finds the greatest node, if there is one.
LEMMA FirstWithFacts ==
  ASSUME size \in Nat, NEW s
  PROVE  /\ FirstWith(s) = NULL => \A n \in 1..size : status[n] # s
         /\ FirstWith(s) # NULL =>
              /\ FirstWith(s) \in 1..size /\ status[FirstWith(s)] = s
              /\ \A n \in 1..size : status[n] = s => n <= FirstWith(s)
<1>1. CASE Having(s) = {}
  BY <1>1 DEF FirstWith, Having, NULL
<1>2. CASE Having(s) # {}
  <2>1. Having(s) \in SUBSET (1..size)
    BY DEF Having
  <2>2. \E x \in Having(s) : \A y \in Having(s) : y <= x
    BY <1>2, <2>1, GreatestFacts
  <2>3. FirstWith(s) \in Having(s) /\ \A y \in Having(s) : y <= FirstWith(s)
    BY <1>2, <2>2 DEF FirstWith
  <2> QED
    BY <2>1, <2>3 DEF Having, NULL
<1> QED
  BY <1>1, <1>2

\* The steps from node a to node n of the ring.
Steps(a, n) == IF a <= n THEN n - a ELSE n - a + size

\* The search of the ring finds the nearest node, if there is one among those
\* it looks at.
LEMMA FirstFromFacts ==
  ASSUME size \in Nat, NEW a \in 1..size, NEW limit \in 0..size, NEW s
  PROVE  /\ FirstFrom(a, limit, s) = NULL =>
              \A n \in 1..size : Steps(a, n) < limit => status[n] # s
         /\ FirstFrom(a, limit, s) # NULL =>
              /\ FirstFrom(a, limit, s) \in 1..size /\ status[FirstFrom(a, limit, s)] = s
              /\ \A n \in 1..size :
                   status[n] = s => Steps(a, FirstFrom(a, limit, s)) <= Steps(a, n)
<1> DEFINE at == {k \in 0..(limit - 1) : status[After(a, k)] = s}
           k0 == CHOOSE k \in at : \A j \in at : k <= j
<1>1. FirstFrom(a, limit, s) = IF at = {} THEN NULL ELSE After(a, k0)
  BY DEF FirstFrom
<1>2. \A n \in 1..size : Steps(a, n) \in 0..(size - 1) /\ After(a, Steps(a, n)) = n
  <2> SUFFICES ASSUME NEW n \in 1..size
               PROVE  Steps(a, n) \in 0..(size - 1) /\ After(a, Steps(a, n)) = n
    OBVIOUS
  <2>1. Steps(a, n) \in 0..(size - 1)
    BY DEF Steps
  <2>2. IF a + Steps(a, n) <= size THEN a + Steps(a, n) = n ELSE a + Steps(a, n) - size = n
    BY DEF Steps
  <2> QED
    BY <2>1, <2>2, AfterFacts
<1>3. \A k \in 0..(size - 1) : After(a, k) \in 1..size /\ Steps(a, After(a, k)) = k
  <2> SUFFICES ASSUME NEW k \in 0..(size - 1)
               PROVE  After(a, k) \in 1..size /\ Steps(a, After(a, k)) = k
    OBVIOUS
  <2>1. After(a, k) = IF a + k <= size THEN a + k ELSE a + k - size
    BY AfterFacts
  <2> QED
    BY <2>1 DEF Steps
<1>4. \A n \in 1..size : status[n] = s /\ Steps(a, n) < limit => Steps(a, n) \in at
  BY <1>2
<1>5. CASE at = {}
  <2>1. FirstFrom(a, limit, s) = NULL
    BY <1>1, <1>5
  <2>2. \A n \in 1..size : Steps(a, n) < limit => status[n] # s
    BY <1>4, <1>5
  <2> QED
    BY <2>1, <2>2
<1>6. CASE at # {}
  <2>1. at \in SUBSET Nat
    OBVIOUS
  <2> HIDE DEF at
  <2>2. \E x \in at : \A y \in at : x <= y
    BY <1>6, <2>1, LeastFacts
  <2>3. k0 \in at /\ \A y \in at : k0 <= y
    BY <2>2
  <2> HIDE DEF k0
  <2>4. FirstFrom(a, limit, s) = After(a, k0)
    BY <1>1, <1>6
  <2>5. k0 \in 0..(limit - 1) /\ status[After(a, k0)] = s
    BY <2>3 DEF at
  <2>6. k0 \in 0..(size - 1)
    BY <2>5
  <2>7. After(a, k0) \in 1..size /\ Steps(a, After(a, k0)) = k0
    BY <1>3, <2>6
  <2>8. ASSUME NEW n \in 1..size, status[n] = s PROVE k0 <= Steps(a, n)
    <3>1. Steps(a, n) \in 0..(size - 1)
      BY <1>2
    <3>2. CASE Steps(a, n) < limit
      BY <1>4, <2>3, <2>8, <3>2
    <3>3. CASE ~(Steps(a, n) < limit)
      BY <2>5, <3>1, <3>3
    <3> QED
      BY <3>2, <3>3
  <2> QED
    BY <2>4, <2>5, <2>7, <2>8 DEF NULL
<1> QED
  BY <1>5, <1>6

\* add_to_scheduler and run_scheduler look at every node, from the newest on.
LEMMA SearchFacts ==
  ASSUME size \in Nat, NEW s
  PROVE  /\ Search(s) = NULL => \A n \in 1..size : status[n] # s
         /\ Search(s) # NULL => Search(s) \in 1..size /\ status[Search(s)] = s
         /\ size > 0 /\ status[size] = s => Search(s) = size
<1>1. CASE ~ring
  <2>1. Search(s) = FirstWith(s)
    BY <1>1 DEF Search
  <2> QED
    BY <2>1, FirstWithFacts DEF NULL
<1>2. CASE ring /\ size > 0
  <2>1. Search(s) = FirstFrom(size, size, s)
    BY <1>2 DEF Search
  <2>2. size \in 1..size /\ size \in 0..size
    BY <1>2
  <2> HIDE DEF NULL
  <2>3. /\ Search(s) = NULL => \A n \in 1..size : Steps(size, n) < size => status[n] # s
        /\ Search(s) # NULL =>
              /\ Search(s) \in 1..size /\ status[Search(s)] = s
              /\ \A n \in 1..size : status[n] = s => Steps(size, Search(s)) <= Steps(size, n)
    BY <2>1, <2>2, FirstFromFacts
  <2>4. \A n \in 1..size : Steps(size, n) \in 0..(size - 1) /\ (Steps(size, n) = 0 <=> n = size)
    BY DEF Steps
  <2>5. \A n \in 1..size : Steps(size, n) < size
    BY <2>4
  <2>6. Search(s) = NULL => \A n \in 1..size : status[n] # s
    BY <2>3, <2>5
  <2>7. ASSUME status[size] = s PROVE Search(s) = size
    <3>1. Search(s) # NULL
      BY <2>2, <2>6, <2>7
    <3>2. Search(s) \in 1..size /\ Steps(size, Search(s)) <= Steps(size, size)
      BY <2>2, <2>3, <2>7, <3>1
    <3> QED
      BY <2>2, <2>4, <3>2
  <2> QED
    BY <2>3, <2>6, <2>7
<1>3. CASE ring /\ size = 0
  <2>1. Search(s) = NULL
    BY <1>3 DEF Search, FirstFrom
  <2> QED
    BY <1>3, <2>1
<1> QED
  BY <1>1, <1>2, <1>3

\* The node before a in the ring.
Before(a) == IF a = 1 THEN size ELSE a - 1

\* usched_yield of the list looks at every node; that of the ring leaves out the
\* one before the active node.
LEMMA NextReadyFacts ==
  ASSUME size \in Nat, active \in 1..size
  PROVE  /\ NextReady # NULL => NextReady \in 1..size /\ status[NextReady] = "READY"
         /\ ~ring => /\ NextReady = NULL => \A n \in 1..size : status[n] # "READY"
                     /\ NextReady # NULL =>
                          \A n \in 1..size : status[n] = "READY" => n <= NextReady
         /\ ring => /\ NextReady = NULL =>
                          \A n \in 1..size : status[n] = "READY" => n = Before(active)
                    /\ NextReady # NULL =>
                          \A n \in 1..size :
                            status[n] = "READY" => Steps(active, NextReady) <= Steps(active, n)
<1> HIDE DEF NULL
<1>1. CASE ~ring
  <2>1. NextReady = FirstWith("READY")
    BY <1>1 DEF NextReady
  <2> QED
    BY <1>1, <2>1, FirstWithFacts
<1>2. CASE ring
  <2>1. NextReady = FirstFrom(active, size - 1, "READY")
    BY <1>2 DEF NextReady
  <2>2. size - 1 \in 0..size
    OBVIOUS
  <2>3. /\ NextReady = NULL =>
              \A n \in 1..size : Steps(active, n) < size - 1 => status[n] # "READY"
        /\ NextReady # NULL =>
              /\ NextReady \in 1..size /\ status[NextReady] = "READY"
              /\ \A n \in 1..size :
                   status[n] = "READY" => Steps(active, NextReady) <= Steps(active, n)
    BY <2>1, <2>2, FirstFromFacts
  <2>4. \A n \in 1..size : ~(Steps(active, n) < size - 1) => n = Before(active)
    BY DEF Steps, Before
  <2> QED
    BY <1>2, <2>3, <2>4
<1> QED
  BY <1>1, <1>2

\* A task that was not added yet leaves room for another node.
LEMMA RoomFacts ==
  ASSUME added \in SUBSET Tasks, NEW t \in Tasks \ added
  PROVE  /\ IsFiniteSet(added) /\ Cardinality(added) \in Nat /\ Cardinality(Tasks) \in Nat
         /\ Cardinality(added \cup {t}) = Cardinality(added) + 1
         /\ Cardinality(added) + 1 <= Cardinality(Tasks)
<1>1. IsFiniteSet(Tasks)
  BY TasksAssumption
<1>2. IsFiniteSet(added) /\ added \cup {t} \in SUBSET Tasks
  BY <1>1, FS_Subset
<1>3. Cardinality(added \cup {t}) = Cardinality(added) + 1
  BY <1>2, FS_AddElement
<1>4. Cardinality(added \cup {t}) <= Cardinality(Tasks)
  BY <1>1, <1>2, FS_Subset
<1> QED
  BY <1>1, <1>2, <1>3, <1>4, FS_CardinalityType

-----------------------------------------------------------------------------
(* The steps *)

\* The initial states satisfy the invariant.
LEMMA InitIInv == Init => IInv
<1> SUFFICES ASSUME Init PROVE IInv
  OBVIOUS
<1>1. Cardinality(Tasks) \in Nat /\ Cardinality({}) = 0
  BY TasksAssumption, FS_CardinalityType, FS_EmptySet
<1>2. 1..size = {} /\ size = 0 /\ runs = 0 /\ mpc = "main" /\ added = {} /\ done = {}
  BY DEF Init
<1>3. left \in [Tasks -> 0..MaxYields] /\ left = yields
  BY DEF Init
<1>4. runs \in 0..MaxRuns
  BY <1>2, MaxRunsAssumption
<1>5. size \in 0..Cardinality(Tasks)
  BY <1>1, <1>2
<1>6. TypeOK
  BY <1>2, <1>3, <1>4, <1>5 DEF Init, TypeOK, NULL
<1>7. StatusTruthful
  BY <1>2, <1>6 DEF StatusTruthful, Unfinished
<1>8. Housekeeping /\ Fresh
  BY <1>1, <1>2, <1>3 DEF Housekeeping, Fresh, FirstRun
<1>9. Rounds /\ RingOfOnes /\ ListOfOnes
  BY <1>2 DEF Rounds, RingOfOnes, ListOfOnes, FirstRun
<1> QED
  BY <1>7, <1>8, <1>9 DEF IInv

\* What the proofs of the steps use of the invariant.
LEMMA SizeFacts ==
  ASSUME TypeOK
  PROVE  /\ size \in Nat /\ Cardinality(Tasks) \in Nat
         /\ 1..size \subseteq Nodes
         /\ IsFiniteSet(added) /\ Cardinality(added) \in Nat
<1>1. Cardinality(Tasks) \in Nat
  BY TasksAssumption, FS_CardinalityType
<1>2. size \in 0..Cardinality(Tasks) /\ added \in SUBSET Tasks
  BY DEF TypeOK
<1>3. IsFiniteSet(added)
  BY <1>2, TasksAssumption, FS_Subset
<1> QED
  BY <1>1, <1>2, <1>3, FS_CardinalityType DEF Nodes

\* add_to_scheduler gives away a node only when its task is done.
LEMMA AddTruthful ==
  ASSUME IInv, NEW t \in Tasks, add_to_scheduler(t)
  PROVE  StatusTruthful' /\ Housekeeping'
<1> DEFINE idle == Search("IDLE")
           n == IF idle = NULL THEN size + 1 ELSE idle
<1>1. TypeOK /\ StatusTruthful /\ Housekeeping
  BY DEF IInv, StatusTruthful
<1>2. /\ idle = NULL => \A m \in 1..size : status[m] # "IDLE"
      /\ idle # NULL => idle \in 1..size /\ status[idle] = "IDLE"
  BY <1>1, SizeFacts, SearchFacts
<1>3. /\ mpc = "main" /\ t \notin added
      /\ size' = (IF idle = NULL THEN size + 1 ELSE size)
      /\ status' = [status EXCEPT ![n] = "READY"]
      /\ func' = [func EXCEPT ![n] = t]
      /\ added' = added \cup {t}
      /\ UNCHANGED <<ring, active, is_finished, yields, left, done, runs, mpc>>
  BY DEF add_to_scheduler, AddTo
<1> HIDE DEF idle
<1>4. /\ Cardinality(added') = Cardinality(added) + 1
      /\ Cardinality(added) + 1 <= Cardinality(Tasks)
  BY <1>1, <1>3, RoomFacts DEF TypeOK
<1>5. size' \in 0..Cardinality(Tasks) /\ size' <= Cardinality(added') /\ size <= size' /\ size' <= size + 1
  BY <1>1, <1>3, <1>4, SizeFacts DEF Housekeeping
<1>6. n \in 1..size' /\ n \in Nodes /\ (n \in 1..size => status[n] = "IDLE") /\ 1..size' = 1..size \cup {n}
  BY <1>1, <1>2, <1>3, <1>5, SizeFacts DEF Nodes, NULL
<1> HIDE DEF n
<1>7. TypeOK'
  BY <1>1, <1>3, <1>5, <1>6 DEF TypeOK
<1>8. /\ status'[n] = "READY" /\ func'[n] = t
      /\ \A m \in 1..size' : m # n => m \in 1..size /\ status'[m] = status[m] /\ func'[m] = func[m]
  BY <1>1, <1>3, <1>6, SizeFacts DEF TypeOK
<1>9. Unfinished' = Unfinished \cup {t} /\ t \notin Unfinished
  BY <1>1, <1>3 DEF Unfinished, Housekeeping
<1>10. \A m \in 1..size : func[m] # t
  BY <1>1, <1>3 DEF Housekeeping
<1>11. n \in 1..size => func[n] \notin Unfinished
  BY <1>1, <1>6 DEF StatusTruthful
<1>12. \A m \in 1..size' : status'[m] \in {"READY", "RUNNING"} <=> func'[m] \in Unfinished'
  BY <1>1, <1>8, <1>9, <1>10 DEF StatusTruthful
<1>13. \A l, m \in 1..size' : func'[l] = func'[m] /\ func'[l] \in Unfinished' => l = m
  BY <1>1, <1>8, <1>9, <1>10 DEF StatusTruthful
<1>14. \A u \in Unfinished' : \E m \in 1..size' : func'[m] = u
  BY <1>1, <1>6, <1>8, <1>9, <1>11 DEF StatusTruthful
<1>15. StatusTruthful'
  BY <1>3, <1>7, <1>12, <1>13, <1>14 DEF StatusTruthful
<1>16. Housekeeping'
  BY <1>1, <1>3, <1>5, <1>8 DEF Housekeeping
<1> QED
  BY <1>15, <1>16

\* run_scheduler starts a task that is not done.
LEMMA RunTruthful ==
  ASSUME IInv, run_scheduler
  PROVE  StatusTruthful' /\ Housekeeping'
<1> DEFINE ready == Search("READY")
<1>1. TypeOK /\ StatusTruthful /\ Housekeeping
  BY DEF IInv, StatusTruthful
<1>2. ready # NULL => ready \in 1..size /\ status[ready] = "READY"
  BY <1>1, SizeFacts, SearchFacts
<1>3. RunFrom(ready)
  BY DEF run_scheduler
<1> HIDE DEF ready
<1>4. runs' \in 0..MaxRuns /\ UNCHANGED <<ring, size, func, is_finished, yields, left, added, done>>
  BY <1>1, <1>3, MaxRunsAssumption DEF RunFrom, TypeOK
<1>5. CASE is_finished \/ ready = NULL
  <2>1. UNCHANGED <<status, active, mpc>>
    BY <1>3, <1>5 DEF RunFrom
  <2> QED
    BY <1>1, <1>4, <2>1 DEF StatusTruthful, Housekeeping, TypeOK, Unfinished
<1>6. CASE ~(is_finished \/ ready = NULL)
  <2>1. status' = [status EXCEPT ![ready] = "RUNNING"] /\ active' = ready /\ mpc' = "uthread"
    BY <1>3, <1>6 DEF RunFrom
  <2>2. ready \in 1..size /\ ready \in Nodes /\ status[ready] = "READY"
    BY <1>1, <1>2, <1>6, SizeFacts
  <2>3. TypeOK'
    BY <1>1, <1>4, <2>1, <2>2 DEF TypeOK
  <2>4. /\ status'[ready] = "RUNNING"
        /\ \A m \in 1..size : m # ready => status'[m] = status[m]
    BY <1>1, <2>1, <2>2, SizeFacts DEF TypeOK
  <2>5. \A m \in 1..size : status'[m] \in {"READY", "RUNNING"} <=> func[m] \in Unfinished
    BY <1>1, <2>2, <2>4 DEF StatusTruthful
  <2>6. Unfinished' = Unfinished
    BY <1>4 DEF Unfinished
  <2> QED
    BY <1>1, <1>4, <2>1, <2>2, <2>3, <2>4, <2>5, <2>6 DEF StatusTruthful, Housekeeping
<1> QED
  BY <1>5, <1>6

\* The effect of usched_yield on the nodes, whichever function called it.
LEMMA YieldFacts ==
  ASSUME IInv, mpc = "uthread", NEW now \in {"RUNNING", "TERMINATED"},
         YieldTo(NextReady, now)
  PROVE  /\ active \in 1..size /\ active \in Nodes /\ status[active] = "RUNNING"
         /\ active' \in Nodes \cup {NULL} /\ is_finished' \in BOOLEAN /\ mpc' \in {"main", "uthread"}
         /\ status' \in [Nodes -> {"IDLE", "READY", "RUNNING", "TERMINATED"}]
         /\ \A n \in 1..size : status'[n] \in {"READY", "RUNNING"} <=>
                status[n] \in {"READY", "RUNNING"} /\ (n = active => now = "RUNNING")
         /\ \A n \in 1..size : n # active /\ n # active' => status'[n] = status[n]
         /\ mpc' = "uthread" => /\ active' = NextReady /\ NextReady # NULL
                                /\ active' \in 1..size /\ active' # active
                                /\ status[active'] = "READY" /\ status'[active'] = "RUNNING"
                                /\ status'[active] = IF now = "TERMINATED" THEN "IDLE" ELSE "READY"
         /\ mpc' = "main" => active' = active /\ NextReady = NULL /\ status'[active] = now
<1>1. TypeOK /\ StatusTruthful /\ Housekeeping
  BY DEF IInv, StatusTruthful
<1>2. active \in 1..size /\ active \in Nodes /\ status[active] = "RUNNING"
  BY <1>1, SizeFacts DEF StatusTruthful, Housekeeping
<1>3. NextReady # NULL => NextReady \in 1..size /\ status[NextReady] = "READY"
  BY <1>1, <1>2, SizeFacts, NextReadyFacts
<1>4. CASE NextReady = NULL
  <2>1. /\ is_finished' = TRUE /\ mpc' = "main" /\ active' = active
        /\ status' = [status EXCEPT ![active] = now]
    BY <1>4 DEF YieldTo
  <2>2. status' \in [Nodes -> {"IDLE", "READY", "RUNNING", "TERMINATED"}]
    BY <1>1, <1>2, <2>1 DEF TypeOK
  <2>3. status'[active] = now /\ \A n \in 1..size : n # active => status'[n] = status[n]
    BY <1>1, <1>2, <2>1, SizeFacts DEF TypeOK
  <2> QED
    BY <1>2, <1>4, <2>1, <2>2, <2>3
<1>5. CASE NextReady # NULL
  <2>1. /\ active' = NextReady /\ is_finished' = is_finished /\ mpc' = mpc
        /\ status' = [status EXCEPT ![active] = IF now = "TERMINATED" THEN "IDLE" ELSE "READY",
                                    ![NextReady] = "RUNNING"]
    BY <1>5 DEF YieldTo
  <2>2. NextReady \in 1..size /\ status[NextReady] = "READY" /\ NextReady \in Nodes /\ NextReady # active
    BY <1>1, <1>2, <1>3, <1>5, SizeFacts
  <2>3. status' \in [Nodes -> {"IDLE", "READY", "RUNNING", "TERMINATED"}]
    BY <1>1, <1>2, <2>1, <2>2 DEF TypeOK
  <2>4. /\ status'[NextReady] = "RUNNING"
        /\ status'[active] = IF now = "TERMINATED" THEN "IDLE" ELSE "READY"
        /\ \A n \in 1..size : n # active /\ n # NextReady => status'[n] = status[n]
    BY <1>1, <1>2, <2>1, <2>2, SizeFacts DEF TypeOK
  <2>5. is_finished' \in BOOLEAN
    BY <1>1, <2>1 DEF TypeOK
  <2>6. \A n \in 1..size : status'[n] \in {"READY", "RUNNING"} <=>
                status[n] \in {"READY", "RUNNING"} /\ (n = active => now = "RUNNING")
    BY <1>2, <2>2, <2>4
  <2> QED
    BY <1>2, <1>5, <2>1, <2>2, <2>3, <2>4, <2>5, <2>6
<1> QED
  BY <1>4, <1>5

\* usched_yield switches to a task that is not done.
LEMMA YieldTruthful ==
  ASSUME IInv, usched_yield
  PROVE  StatusTruthful' /\ Housekeeping'
<1> DEFINE t == func[active]
<1>1. TypeOK /\ StatusTruthful /\ Housekeeping
  BY DEF IInv, StatusTruthful
<1>2. mpc = "uthread"
  BY DEF usched_yield, TaskYields, TaskReturns
<1>3. UNCHANGED <<ring, size, func, yields, added, runs>>
  BY DEF usched_yield, TaskYields, TaskReturns
<1>4. CASE TaskYields(NextReady)
  <2>1. left[t] > 0 /\ left' = [left EXCEPT ![t] = @ - 1] /\ YieldTo(NextReady, "RUNNING") /\ done' = done
    BY <1>4 DEF TaskYields
  <2>2. t \in Tasks /\ left \in [Tasks -> 0..MaxYields]
    BY <1>1, <1>2 DEF Housekeeping, TypeOK
  <2>3. left' \in [Tasks -> 0..MaxYields]
    BY <2>1, <2>2, MaxYieldsAssumption
  <2>4. Unfinished' = Unfinished
    BY <1>3, <2>1 DEF Unfinished
  <2> DEFINE now == "RUNNING"
  <2>5. /\ active' \in Nodes \cup {NULL} /\ is_finished' \in BOOLEAN /\ mpc' \in {"main", "uthread"}
        /\ status' \in [Nodes -> {"IDLE", "READY", "RUNNING", "TERMINATED"}]
    BY <1>2, <2>1, YieldFacts
  <2>6. \A n \in 1..size :
          status'[n] \in {"READY", "RUNNING"} <=> status[n] \in {"READY", "RUNNING"}
    BY <1>2, <2>1, YieldFacts
  <2>7. mpc' = "uthread" => active' \in 1..size /\ status'[active'] = "RUNNING"
    BY <1>2, <2>1, YieldFacts
  <2>8. TypeOK'
    BY <1>1, <1>3, <2>1, <2>3, <2>5 DEF TypeOK
  <2>9. Housekeeping'
    BY <1>1, <1>3, <2>1, <2>7 DEF Housekeeping
  <2>10. StatusTruthful'
    BY <1>1, <1>3, <2>4, <2>6, <2>7, <2>8 DEF StatusTruthful
  <2> QED
    BY <2>9, <2>10
<1>5. CASE TaskReturns(NextReady)
  <2>1. left[t] = 0 /\ left' = left /\ YieldTo(NextReady, "TERMINATED") /\ done' = done \cup {t}
    BY <1>5 DEF TaskReturns
  <2>2. t \in added /\ added \in SUBSET Tasks /\ active \in 1..size
    BY <1>1, <1>2 DEF Housekeeping, TypeOK
  <2>3. Unfinished' = Unfinished \ {t}
    BY <1>3, <2>1 DEF Unfinished
  <2>4. /\ active' \in Nodes \cup {NULL} /\ is_finished' \in BOOLEAN /\ mpc' \in {"main", "uthread"}
        /\ status' \in [Nodes -> {"IDLE", "READY", "RUNNING", "TERMINATED"}]
    BY <1>2, <2>1, YieldFacts
  <2>5. \A n \in 1..size :
          status'[n] \in {"READY", "RUNNING"} <=> status[n] \in {"READY", "RUNNING"} /\ n # active
    BY <1>2, <2>1, YieldFacts
  <2>6. mpc' = "uthread" => active' \in 1..size /\ status'[active'] = "RUNNING"
    BY <1>2, <2>1, YieldFacts
  <2>7. TypeOK'
    BY <1>1, <1>3, <2>1, <2>2, <2>4 DEF TypeOK
  <2>8. Housekeeping'
    BY <1>1, <1>3, <2>1, <2>2, <2>6 DEF Housekeeping
  <2>9. t \in Unfinished
    BY <1>1, <1>2, <2>2 DEF StatusTruthful
  <2>10. \A n \in 1..size : func[n] = t => n = active
    BY <1>1, <2>2, <2>9 DEF StatusTruthful
  <2>11. \A n \in 1..size : status'[n] \in {"READY", "RUNNING"} <=> func[n] \in Unfinished'
    BY <1>1, <2>3, <2>5, <2>10 DEF StatusTruthful
  <2>12. \A u \in Unfinished' : \E n \in 1..size : func[n] = u
    BY <1>1, <2>3 DEF StatusTruthful
  <2>13. StatusTruthful'
    BY <1>1, <1>3, <2>3, <2>6, <2>7, <2>11, <2>12 DEF StatusTruthful
  <2> QED
    BY <2>8, <2>13
<1> QED
  BY <1>4, <1>5 DEF usched_yield

\* A step of the first run: which nodes are READY, and what the step changes.
LEMMA FirstRunFacts ==
  ASSUME IInv, FirstRun, usched_yield
  PROVE  /\ UNCHANGED <<ring, size, func, yields, added, runs>>
         /\ size \in Nat /\ active \in 1..size
         /\ func[active] \in added \ done
         /\ \A n \in 1..size : /\ func[n] \in added
                               /\ yields[func[n]] \in Nat /\ left[func[n]] \in Nat
         /\ \A n \in 1..size : n # active =>
              /\ status[n] = "READY" <=> func[n] \notin done
              /\ func[n] # func[active]
              /\ left'[func[n]] = left[func[n]]
              /\ func[n] \in done' <=> func[n] \in done
         /\ \/ /\ left[func[active]] > 0 /\ left'[func[active]] = left[func[active]] - 1
               /\ func[active] \notin done'
            \/ /\ left[func[active]] = 0 /\ left'[func[active]] = 0
               /\ func[active] \in done'
<1>1. TypeOK /\ StatusTruthful /\ Housekeeping /\ Fresh
  BY DEF IInv, StatusTruthful
<1>2. UNCHANGED <<ring, size, func, yields, added, runs>>
  BY DEF usched_yield, TaskYields, TaskReturns
<1>3. size \in Nat /\ active \in 1..size
  BY <1>1, SizeFacts DEF Housekeeping, FirstRun
<1>4. \A n \in 1..size : func[n] \in added /\ yields[func[n]] \in Nat /\ left[func[n]] \in Nat
  <2>1. added \subseteq Tasks /\ yields \in [Tasks -> 0..MaxYields] /\ left \in [Tasks -> 0..MaxYields]
    BY <1>1 DEF TypeOK
  <2>2. \A n \in 1..size : func[n] \in added
    BY <1>1 DEF Housekeeping
  <2>3. 0..MaxYields \subseteq Nat
    BY MaxYieldsAssumption
  <2>4. \A u \in Tasks : yields[u] \in Nat /\ left[u] \in Nat
    BY <2>1, <2>3
  <2> QED
    BY <2>1, <2>2, <2>4
<1>5. func[active] \in added \ done
  BY <1>1, <1>3 DEF StatusTruthful, Unfinished, FirstRun
<1>6. \A n \in 1..size : n # active => func[n] # func[active]
  BY <1>1, <1>3, <1>5 DEF StatusTruthful, Unfinished
<1>7. \A n \in 1..size : n # active => (status[n] = "READY" <=> func[n] \notin done)
  <2> SUFFICES ASSUME NEW n \in 1..size, n # active
               PROVE  status[n] = "READY" <=> func[n] \notin done
    OBVIOUS
  <2>1. status[n] \in {"READY", "IDLE"}
    BY <1>1 DEF Fresh
  <2>2. status[n] \in {"READY", "RUNNING"} <=> func[n] \in Unfinished
    BY <1>1 DEF StatusTruthful
  <2> QED
    BY <1>4, <2>1, <2>2 DEF Unfinished
<1>8. left \in [Tasks -> 0..MaxYields] /\ func[active] \in Tasks /\ left[func[active]] \in Nat
  BY <1>1, <1>3, <1>4, <1>5 DEF TypeOK
<1>9. CASE TaskYields(NextReady)
  <2>1. /\ left[func[active]] > 0 /\ done' = done
        /\ left' = [left EXCEPT ![func[active]] = @ - 1]
    BY <1>9 DEF TaskYields
  <2>2. /\ left'[func[active]] = left[func[active]] - 1
        /\ \A n \in 1..size : n # active => left'[func[n]] = left[func[n]]
    <3>1. \A u \in Tasks : u # func[active] => left'[u] = left[u]
      BY <1>8, <2>1
    <3>2. \A n \in 1..size : func[n] \in Tasks
      BY <1>1, <1>4 DEF TypeOK
    <3> QED
      BY <1>6, <1>8, <2>1, <3>1, <3>2
  <2> QED
    BY <1>2, <1>3, <1>4, <1>5, <1>6, <1>7, <2>1, <2>2
<1>10. CASE TaskReturns(NextReady)
  <2>1. left[func[active]] = 0 /\ left' = left /\ done' = done \cup {func[active]}
    BY <1>10 DEF TaskReturns
  <2> QED
    BY <1>2, <1>3, <1>4, <1>5, <1>6, <1>7, <2>1
<1> QED
  BY <1>9, <1>10 DEF usched_yield

\* Where usched_yield goes in the first run.
LEMMA FirstRunNext ==
  ASSUME IInv, FirstRun, usched_yield
  PROVE  /\ mpc' = "uthread" =>
              /\ active' \in 1..size /\ active' # active /\ func[active'] \notin done
              /\ ~ring => \A n \in 1..size :
                            n # active /\ func[n] \notin done => n <= active'
              /\ ring => \A n \in 1..size : n # active /\ func[n] \notin done =>
                            Steps(active, active') <= Steps(active, n)
         /\ mpc' = "main" =>
              /\ ~ring => \A n \in 1..size : n # active => func[n] \in done
              /\ ring => \A n \in 1..size :
                            n # active /\ func[n] \notin done => n = Before(active)
<1>1. PICK now \in {"RUNNING", "TERMINATED"} : YieldTo(NextReady, now)
  BY DEF usched_yield, TaskYields, TaskReturns
<1>2. /\ size \in Nat /\ active \in 1..size
      /\ \A n \in 1..size : n # active => (status[n] = "READY" <=> func[n] \notin done)
  BY FirstRunFacts
<1>3. /\ mpc' = "uthread" => /\ active' = NextReady /\ NextReady # NULL
                             /\ active' \in 1..size /\ active' # active
                             /\ status[active'] = "READY"
      /\ mpc' = "main" => NextReady = NULL
  BY <1>1, YieldFacts DEF FirstRun
<1> HIDE DEF NULL
<1>4. ASSUME mpc' = "uthread"
      PROVE  /\ active' \in 1..size /\ active' # active /\ func[active'] \notin done
             /\ ~ring => \A n \in 1..size :
                            n # active /\ func[n] \notin done => n <= active'
             /\ ring => \A n \in 1..size : n # active /\ func[n] \notin done =>
                            Steps(active, active') <= Steps(active, n)
  BY <1>2, <1>3, <1>4, NextReadyFacts
<1>5. ASSUME mpc' = "main"
      PROVE  /\ ~ring => \A n \in 1..size : n # active => func[n] \in done
             /\ ring => \A n \in 1..size :
                            n # active /\ func[n] \notin done => n = Before(active)
  BY <1>2, <1>3, <1>5, NextReadyFacts
<1> QED
  BY <1>4, <1>5

\* The nearest node of those left ends the round or is the next one of it.
LEMMA NearestFacts ==
  ASSUME size \in Nat, NEW a \in 1..size, NEW b \in 1..size, NEW n \in 1..size,
         a # b, n # a, Steps(a, b) <= Steps(a, n)
  PROVE  /\ Pos(a) < Pos(b) => (Pos(n) < Pos(b) <=> Pos(n) < Pos(a))
         /\ ~(Pos(a) < Pos(b)) => Pos(n) < Pos(a) /\ ~(Pos(n) < Pos(b))
  BY DEF Steps, Pos

\* In the first run a yield makes no node free for another task.
LEMMA YieldFresh ==
  ASSUME IInv, usched_yield
  PROVE  Fresh'
<1>1. Fresh /\ UNCHANGED <<ring, size, func, yields, added, runs>> /\ mpc = "uthread"
  BY DEF IInv, usched_yield, TaskYields, TaskReturns
<1>2. PICK now \in {"RUNNING", "TERMINATED"} : YieldTo(NextReady, now)
  BY DEF usched_yield, TaskYields, TaskReturns
<1>3. runs # 0
  BY <1>1 DEF Fresh
<1>4. ASSUME FirstRun'
      PROVE  \A n \in 1..size : n # active' => status'[n] \in {"READY", "IDLE"}
  <2>1. FirstRun
    BY <1>1, <1>4 DEF FirstRun
  <2>2. \A n \in 1..size : n # active => status[n] \in {"READY", "IDLE"}
    BY <1>1, <2>1 DEF Fresh
  <2>3. /\ \A n \in 1..size : n # active /\ n # active' => status'[n] = status[n]
        /\ status'[active] \in {"READY", "IDLE"}
    BY <1>1, <1>2, <1>4, YieldFacts DEF FirstRun
  <2> QED
    BY <2>2, <2>3
<1>5. FirstRun' => size' = Cardinality(added')
  BY <1>1 DEF Fresh, FirstRun
<1> QED
  BY <1>1, <1>3, <1>4, <1>5 DEF Fresh

\* A yield in the ring goes on with the round, or begins the next one.
LEMMA YieldRounds ==
  ASSUME IInv, usched_yield
  PROVE  Rounds'
<1> SUFFICES ASSUME ring', FirstRun' PROVE \E r \in Nat : InRound(r)'
  BY DEF Rounds
<1>1. ring /\ FirstRun /\ mpc' = "uthread" /\ Rounds
  BY DEF usched_yield, TaskYields, TaskReturns, FirstRun, IInv
<1>2. PICK r \in Nat : InRound(r)
  BY <1>1 DEF Rounds
<1> DEFINE a == active
           b == active'
<1>3. /\ size \in Nat /\ a \in 1..size /\ b \in 1..size /\ b # a
      /\ \A n \in 1..size : n # a /\ func[n] \notin done => Steps(a, b) <= Steps(a, n)
  BY <1>1, FirstRunFacts, FirstRunNext
<1>4. /\ UNCHANGED <<size, func, yields, added>>
      /\ func[a] \in added \ done
      /\ \A n \in 1..size : /\ func[n] \in added
                            /\ yields[func[n]] \in Nat /\ left[func[n]] \in Nat
      /\ \A n \in 1..size : n # a =>
              /\ left'[func[n]] = left[func[n]]
              /\ func[n] \in done' <=> func[n] \in done
      /\ func[a] \notin done' => left'[func[a]] = left[func[a]] - 1
  BY <1>1, FirstRunFacts
<1> HIDE DEF a, b
<1>5. \A n \in 1..size : func[n] \notin done =>
        yields[func[n]] - left[func[n]] = IF Pos(n) < Pos(a) THEN r + 1 ELSE r
  BY <1>2, <1>4 DEF InRound, Unfinished, a
<1>6. yields[func[a]] - left[func[a]] = r
  BY <1>3, <1>4, <1>5 DEF Pos
<1>7. \A n \in 1..size : Pos(n)' = Pos(n)
  BY <1>4 DEF Pos
<1>8. CASE Pos(a) < Pos(b)
  <2>1. ASSUME NEW n \in 1..size, func[n] \notin done'
        PROVE  yields[func[n]] - left'[func[n]] = IF Pos(n) < Pos(b) THEN r + 1 ELSE r
    <3>1. CASE n = a
      BY <1>3, <1>4, <1>6, <1>8, <2>1, <3>1
    <3>2. CASE n # a
      <4>1. func[n] \notin done /\ left'[func[n]] = left[func[n]]
        BY <1>4, <2>1, <3>2
      <4>2. Pos(n) < Pos(b) <=> Pos(n) < Pos(a)
        BY <1>3, <1>8, <3>2, <4>1, NearestFacts
      <4> QED
        BY <1>5, <4>1, <4>2
    <3> QED
      BY <3>1, <3>2
  <2>2. InRound(r)'
    BY <1>4, <2>1 DEF InRound, Unfinished, Pos, b
  <2> QED
    BY <2>2
<1>9. CASE ~(Pos(a) < Pos(b))
  <2>1. ASSUME NEW n \in 1..size, func[n] \notin done'
        PROVE  yields[func[n]] - left'[func[n]] = r + 1 /\ ~(Pos(n) < Pos(b))
    <3>1. CASE n = a
      BY <1>3, <1>4, <1>6, <1>9, <2>1, <3>1
    <3>2. CASE n # a
      <4>1. func[n] \notin done /\ left'[func[n]] = left[func[n]]
        BY <1>4, <2>1, <3>2
      <4>2. Pos(n) < Pos(a) /\ ~(Pos(n) < Pos(b))
        BY <1>3, <1>9, <3>2, <4>1, NearestFacts
      <4> QED
        BY <1>5, <4>1, <4>2
    <3> QED
      BY <3>1, <3>2
  <2>2. InRound(r + 1)'
    BY <1>4, <2>1 DEF InRound, Unfinished, Pos, b
  <2> QED
    BY <2>2
<1> QED
  BY <1>8, <1>9

\* The tasks of main.c in the ring: a yield stays in the round or ends the first.
LEMMA YieldRingOfOnes ==
  ASSUME IInv, usched_yield
  PROVE  RingOfOnes'
<1> SUFFICES ASSUME ring', FirstRun', Ones', size' >= 3
             PROVE  \E r \in {0, 1} : RoundOfOnes(r)'
  BY DEF RingOfOnes
<1>1. ring /\ FirstRun /\ mpc' = "uthread" /\ RingOfOnes
  BY DEF usched_yield, TaskYields, TaskReturns, FirstRun, IInv
<1> DEFINE a == active
           b == active'
<1>2. /\ size \in Nat /\ a \in 1..size /\ b \in 1..size /\ b # a /\ func[b] \notin done
      /\ \A n \in 1..size : n # a /\ func[n] \notin done => Steps(a, b) <= Steps(a, n)
  BY <1>1, FirstRunFacts, FirstRunNext
<1>3. UNCHANGED <<size, func, yields, added>>
  BY <1>1, FirstRunFacts
<1>4. /\ func[a] \notin done
      /\ \A n \in 1..size : n # a =>
              /\ left'[func[n]] = left[func[n]]
              /\ func[n] \in done' <=> func[n] \in done
      /\ \/ left[func[a]] > 0 /\ left'[func[a]] = left[func[a]] - 1 /\ func[a] \notin done'
         \/ left[func[a]] = 0 /\ left'[func[a]] = 0 /\ func[a] \in done'
  BY <1>1, FirstRunFacts
<1>5. Ones /\ size >= 3
  BY <1>3 DEF Ones
<1>6. PICK r \in {0, 1} : RoundOfOnes(r)
  BY <1>1, <1>5 DEF RingOfOnes
<1> HIDE DEF a, b
<1>7. \A n \in 1..size :
        /\ left[func[n]] = IF r = 1 \/ Pos(n) < Pos(a) THEN 0 ELSE 1
        /\ func[n] \in done <=> r = 1 /\ Pos(n) < Pos(a)
  BY <1>6 DEF RoundOfOnes, a
<1>8. \A n \in 1..size : Pos(n)' = Pos(n) /\ Pos(n) \in Nat
  BY <1>2, <1>3 DEF Pos
<1>9. \A n \in 1..size : n # a /\ func[n] \notin done =>
        /\ Pos(a) < Pos(b) => (Pos(n) < Pos(b) <=> Pos(n) < Pos(a))
        /\ ~(Pos(a) < Pos(b)) => Pos(n) < Pos(a) /\ ~(Pos(n) < Pos(b))
  BY <1>2, NearestFacts
<1>10. left[func[a]] = IF r = 1 THEN 0 ELSE 1
  BY <1>2, <1>7, <1>8
<1>11. CASE r = 0
  <2>1. left'[func[a]] = 0 /\ func[a] \notin done'
    BY <1>4, <1>10, <1>11
  <2>2. \A n \in 1..size : func[n] \notin done'
    BY <1>4, <1>7, <1>11, <2>1
  <2>3. CASE Pos(a) < Pos(b)
    <3>1. \A n \in 1..size : left'[func[n]] = IF Pos(n) < Pos(b) THEN 0 ELSE 1
      BY <1>4, <1>7, <1>9, <1>11, <2>1, <2>3
    <3>2. \A n \in 1..size' : ~(0 = 1 \/ Pos(n)' < Pos(active)') => ~(Pos(n) < Pos(b))
      BY <1>3 DEF Pos, b
    <3>3. \A n \in 1..size' : Pos(n)' < Pos(active)' => Pos(n) < Pos(b)
      BY <1>3 DEF Pos, b
    <3>4. RoundOfOnes(0)'
      BY <1>3, <2>2, <3>1, <3>2, <3>3 DEF RoundOfOnes
    <3> QED
      BY <3>4
  <2>4. CASE ~(Pos(a) < Pos(b))
    <3>1. \A n \in 1..size : left'[func[n]] = 0 /\ ~(Pos(n) < Pos(b))
      BY <1>4, <1>7, <1>9, <1>11, <2>1, <2>4
    <3>2. RoundOfOnes(1)'
      BY <1>3, <2>2, <3>1 DEF RoundOfOnes, Pos, b
    <3> QED
      BY <3>2
  <2> QED
    BY <2>3, <2>4
<1>12. CASE r = 1
  <2>1. left'[func[a]] = 0 /\ func[a] \in done'
    BY <1>4, <1>10, <1>12
  <2>2. Pos(a) < Pos(b)
    BY <1>2, <1>7, <1>9, <1>12
  <2>3. \A n \in 1..size : left'[func[n]] = 0
    BY <1>4, <1>7, <1>12, <2>1
  <2>4. \A n \in 1..size : func[n] \in done' <=> Pos(n) < Pos(b)
    <3> SUFFICES ASSUME NEW n \in 1..size PROVE func[n] \in done' <=> Pos(n) < Pos(b)
      OBVIOUS
    <3>1. CASE n = a
      BY <2>1, <2>2, <3>1
    <3>2. CASE n # a /\ func[n] \in done
      BY <1>2, <1>4, <1>7, <1>8, <1>12, <2>2, <3>2
    <3>3. CASE n # a /\ func[n] \notin done
      BY <1>4, <1>7, <1>9, <1>12, <2>2, <3>3
    <3> QED
      BY <3>1, <3>2, <3>3
  <2>5. RoundOfOnes(1)'
    BY <1>3, <2>3, <2>4 DEF RoundOfOnes, Pos, b
  <2> QED
    BY <2>5
<1> QED
  BY <1>11, <1>12

\* The tasks of main.c in the list: a yield goes on within a pair, or to the next
\* pair when both are done.
LEMMA YieldListOfOnes ==
  ASSUME IInv, usched_yield
  PROVE  ListOfOnes'
<1> SUFFICES ASSUME ~ring', FirstRun', Ones', size' % 2 = 0
             PROVE  \E h \in 1..size' : Pair(h)'
  BY DEF ListOfOnes
<1>1. ~ring /\ FirstRun /\ mpc' = "uthread" /\ ListOfOnes
  BY DEF usched_yield, TaskYields, TaskReturns, FirstRun, IInv
<1> DEFINE a == active
           b == active'
<1>2. /\ size \in Nat /\ a \in 1..size /\ b \in 1..size /\ b # a /\ func[b] \notin done
      /\ \A n \in 1..size : n # a /\ func[n] \notin done => n <= b
  BY <1>1, FirstRunFacts, FirstRunNext
<1>3. UNCHANGED <<size, func, yields, added>>
  BY <1>1, FirstRunFacts
<1>4. /\ func[a] \notin done
      /\ \A n \in 1..size : n # a =>
              /\ left'[func[n]] = left[func[n]]
              /\ func[n] \in done' <=> func[n] \in done
      /\ \/ left[func[a]] > 0 /\ left'[func[a]] = left[func[a]] - 1 /\ func[a] \notin done'
         \/ left[func[a]] = 0 /\ left'[func[a]] = 0 /\ func[a] \in done'
  BY <1>1, FirstRunFacts
<1>5. Ones /\ size % 2 = 0
  BY <1>3 DEF Ones
<1>6. PICK h \in 1..size : Pair(h)
  BY <1>1, <1>5 DEF ListOfOnes
<1> DEFINE x == 2 * h
           y == 2 * h - 1
<1>7. x \in 1..size /\ y \in 1..size /\ y < x /\ y = x - 1
  BY <1>2, <1>6 DEF Pair
<1>8. /\ \A n \in 1..size : n > x => func[n] \in done
      /\ \A n \in 1..size : n < y => left[func[n]] = 1 /\ func[n] \notin done
      /\ func[y] \notin done
  BY <1>6 DEF Pair
<1>9. \/ a = x /\ func[x] \notin done /\ left[func[x]] = left[func[y]] /\ left[func[x]] \in {0, 1}
      \/ a = y /\ func[x] \notin done /\ left[func[x]] = 0 /\ left[func[y]] = 1
      \/ a = y /\ func[x] \in done /\ left[func[y]] = 0
  BY <1>6 DEF Pair
<1>10. Pair(h)' <=>
      /\ x <= size
      /\ \A n \in 1..size : n > x => func[n] \in done'
      /\ \A n \in 1..size : n < y => left'[func[n]] = 1 /\ func[n] \notin done'
      /\ func[y] \notin done'
      /\ \/ b = x /\ func[x] \notin done' /\ left'[func[x]] = left'[func[y]] /\ left'[func[x]] \in {0, 1}
         \/ b = y /\ func[x] \notin done' /\ left'[func[x]] = 0 /\ left'[func[y]] = 1
         \/ b = y /\ func[x] \in done' /\ left'[func[y]] = 0
  BY <1>3 DEF Pair
<1>11. \A n \in 1..size : n # a => n # x \/ n # y
  BY <1>7
<1> HIDE DEF x, y, a, b
<1>12. CASE a = x
  <2>1. b = y
    BY <1>2, <1>7, <1>8, <1>12
  <2>2. /\ left'[func[y]] = left[func[y]] /\ func[y] \notin done'
        /\ left[func[x]] = left[func[y]] /\ left[func[x]] \in {0, 1}
    BY <1>4, <1>7, <1>8, <1>9, <1>12
  <2>3. \/ left[func[y]] = 1 /\ left'[func[x]] = 0 /\ func[x] \notin done'
        \/ left[func[y]] = 0 /\ left'[func[x]] = 0 /\ func[x] \in done'
    BY <1>4, <1>12, <2>2
  <2>4. /\ \A n \in 1..size : n > x => func[n] \in done'
        /\ \A n \in 1..size : n < y => left'[func[n]] = 1 /\ func[n] \notin done'
    BY <1>4, <1>7, <1>8, <1>12
  <2>5. Pair(h)'
    BY <1>7, <1>10, <2>1, <2>2, <2>3, <2>4
  <2> QED
    BY <1>3, <2>5
<1>13. CASE a = y /\ func[x] \notin done
  <2>1. b = x
    BY <1>2, <1>7, <1>8, <1>13
  <2>2. left'[func[x]] = 0 /\ func[x] \notin done' /\ left'[func[y]] = 0 /\ func[y] \notin done'
    BY <1>4, <1>7, <1>9, <1>13
  <2>3. /\ \A n \in 1..size : n > x => func[n] \in done'
        /\ \A n \in 1..size : n < y => left'[func[n]] = 1 /\ func[n] \notin done'
    BY <1>4, <1>7, <1>8, <1>13
  <2>4. Pair(h)'
    BY <1>7, <1>10, <2>1, <2>2, <2>3
  <2> QED
    BY <1>3, <2>4
<1>14. CASE a = y /\ func[x] \in done
  <2>1. left'[func[y]] = 0 /\ func[y] \in done' /\ func[x] \in done'
    BY <1>4, <1>7, <1>9, <1>14
  <2>2. b < y
    BY <1>2, <1>7, <1>8, <1>14
  <2>3. x - 2 \in 1..size /\ y - 2 \in Int /\ x - 2 < y
    BY <1>2, <1>7, <2>2
  <2>4. b = x - 2
    BY <1>2, <1>7, <1>8, <1>14, <2>2, <2>3
  <2>5. h - 1 \in 1..size /\ 2 * (h - 1) = x - 2 /\ 2 * (h - 1) - 1 = y - 2
    <3>1. h \in Int /\ size \in Nat /\ h <= size /\ 2 * h - 2 >= 1
      BY <1>2, <1>6, <2>3 DEF x
    <3>2. h - 1 >= 1 /\ h - 1 <= size /\ 2 * (h - 1) = 2 * h - 2 /\ 2 * (h - 1) - 1 = 2 * h - 1 - 2
      BY <3>1
    <3> QED
      BY <3>1, <3>2 DEF x, y
  <2>6. y - 2 \in 1..size
    <3>1. h - 1 \in Int /\ h - 1 >= 1 /\ y - 2 = 2 * (h - 1) - 1 /\ y \in 1..size /\ size \in Nat
      BY <1>2, <1>7, <2>5
    <3> QED
      BY <3>1
  <2>7. \A n \in 1..size : n > x - 2 => func[n] \in done'
    BY <1>4, <1>7, <1>8, <1>14, <2>1
  <2>8. \A n \in 1..size : n < y => left'[func[n]] = 1 /\ func[n] \notin done'
    BY <1>4, <1>7, <1>8, <1>14
  <2>9. \A n \in 1..size : n < y - 2 => left'[func[n]] = 1 /\ func[n] \notin done'
    BY <1>7, <2>8
  <2>10. /\ left'[func[x - 2]] = 1 /\ func[x - 2] \notin done'
         /\ left'[func[y - 2]] = 1 /\ func[y - 2] \notin done'
    BY <1>7, <2>3, <2>6, <2>8
  <2>11. x - 2 <= size
    BY <2>3
  <2>12. Pair(h - 1)'
    BY <1>3, <2>4, <2>5, <2>7, <2>9, <2>10, <2>11 DEF Pair, b
  <2> QED
    BY <1>3, <2>5, <2>12
<1> QED
  BY <1>9, <1>12, <1>13, <1>14

\* add_to_scheduler preserves the rest of the invariant: it runs in main.
LEMMA AddOthers ==
  ASSUME IInv, NEW t \in Tasks, add_to_scheduler(t)
  PROVE  Fresh' /\ Rounds' /\ RingOfOnes' /\ ListOfOnes'
<1> DEFINE idle == Search("IDLE")
           n == IF idle = NULL THEN size + 1 ELSE idle
<1>1. TypeOK /\ Housekeeping /\ Fresh
  BY DEF IInv, StatusTruthful
<1>2. idle # NULL => idle \in 1..size /\ status[idle] = "IDLE"
  BY <1>1, SizeFacts, SearchFacts
<1>3. /\ mpc = "main" /\ t \notin added
      /\ size' = (IF idle = NULL THEN size + 1 ELSE size)
      /\ status' = [status EXCEPT ![n] = "READY"]
      /\ added' = added \cup {t}
      /\ UNCHANGED <<ring, active, is_finished, yields, left, done, runs, mpc>>
  BY DEF add_to_scheduler, AddTo
<1> HIDE DEF idle
<1>4. ~FirstRun'
  BY <1>3 DEF FirstRun
<1>5. CASE runs = 0
  <2>1. /\ done = {} /\ left = yields /\ size = Cardinality(added)
        /\ \A m \in 1..size : status[m] = "READY"
    BY <1>1, <1>5 DEF Fresh
  <2>2. idle = NULL
    BY <1>2, <2>1
  <2>3. Cardinality(added') = Cardinality(added) + 1 /\ Cardinality(added) + 1 <= Cardinality(Tasks)
    BY <1>1, <1>3, RoomFacts DEF TypeOK
  <2>4. size' = size + 1 /\ status' = [status EXCEPT ![size + 1] = "READY"]
    BY <1>3, <2>2
  <2>5. size + 1 \in Nodes /\ \A m \in 1..size' : m \in Nodes
    BY <1>1, <2>1, <2>3, <2>4, SizeFacts DEF Nodes
  <2>6. \A m \in 1..size' : status'[m] = "READY"
    <3> SUFFICES ASSUME NEW m \in 1..size' PROVE status'[m] = "READY"
      OBVIOUS
    <3>1. m = size + 1 \/ m \in 1..size
      BY <1>1, <2>4, SizeFacts
    <3>2. m \in Nodes /\ status \in [Nodes -> {"IDLE", "READY", "RUNNING", "TERMINATED"}]
      BY <1>1, <2>5 DEF TypeOK
    <3> QED
      BY <2>1, <2>4, <3>1, <3>2
  <2>7. Fresh'
    BY <1>3, <1>4, <2>1, <2>3, <2>4, <2>6 DEF Fresh
  <2> QED
    BY <1>4, <2>7 DEF Rounds, RingOfOnes, ListOfOnes
<1>6. CASE runs # 0
  BY <1>3, <1>4, <1>6 DEF Fresh, Rounds, RingOfOnes, ListOfOnes
<1> QED
  BY <1>5, <1>6

\* run_scheduler begins the first round at the head, or the first pair at the top.
LEMMA RunOthers ==
  ASSUME IInv, run_scheduler
  PROVE  Fresh' /\ Rounds' /\ RingOfOnes' /\ ListOfOnes'
<1> DEFINE ready == Search("READY")
<1>1. TypeOK /\ StatusTruthful /\ Housekeeping /\ Fresh /\ runs \in Nat
  BY MaxRunsAssumption DEF IInv, StatusTruthful, TypeOK
<1>2. size \in Nat /\ 1..size \subseteq Nodes
  BY <1>1, SizeFacts
<1>3. RunFrom(ready)
  BY DEF run_scheduler
<1>4. /\ runs' = runs + 1 /\ mpc = "main"
      /\ UNCHANGED <<ring, size, func, is_finished, yields, left, added, done>>
  BY <1>3 DEF RunFrom
<1>5. runs' # 0
  BY <1>1, <1>4
<1>6. CASE ~FirstRun'
  BY <1>5, <1>6 DEF Fresh, Rounds, RingOfOnes, ListOfOnes
<1>7. CASE FirstRun'
  <2>1. runs = 0 /\ mpc' = "uthread"
    BY <1>1, <1>4, <1>7 DEF FirstRun
  <2>2. /\ done = {} /\ left = yields /\ size = Cardinality(added)
        /\ \A n \in 1..size : status[n] = "READY"
    BY <1>1, <2>1 DEF Fresh
  <2>3. ready # NULL /\ status' = [status EXCEPT ![ready] = "RUNNING"] /\ active' = ready
    BY <1>3, <1>4, <2>1 DEF RunFrom
  <2>4. size > 0
    BY <1>2, <2>3, SearchFacts
  <2>5. size \in 1..size
    BY <1>2, <2>4
  <2>6. ready = size
    BY <1>2, <2>2, <2>4, <2>5, SearchFacts
  <2> HIDE DEF ready
  <2>7. \A n \in 1..size : n # active' => status'[n] = "READY"
    <3> SUFFICES ASSUME NEW n \in 1..size, n # active' PROVE status'[n] = "READY"
      OBVIOUS
    <3>1. n \in Nodes /\ status \in [Nodes -> {"IDLE", "READY", "RUNNING", "TERMINATED"}]
      BY <1>1, <1>2 DEF TypeOK
    <3> QED
      BY <2>2, <2>3, <3>1
  <2>8. Fresh'
    BY <1>4, <1>5, <2>2, <2>7 DEF Fresh
  <2>9. \A n \in 1..size : func[n] \in Tasks /\ yields[func[n]] \in Nat /\ func[n] \in added
    <3>1. added \subseteq Tasks /\ yields \in [Tasks -> 0..MaxYields]
      BY <1>1 DEF TypeOK
    <3>2. \A n \in 1..size : func[n] \in added
      BY <1>1 DEF Housekeeping
    <3>3. 0..MaxYields \subseteq Nat
      BY MaxYieldsAssumption
    <3> QED
      BY <3>1, <3>2, <3>3
  <2>10. \A n \in 1..size : ~(Pos(n) < Pos(size))'
    BY <1>2, <1>4, <2>5 DEF Pos
  <2>11. active' = size'
    BY <1>4, <2>3, <2>6
  <2>12. Rounds'
    <3>1. \A n \in 1..size' : ~(Pos(n)' < Pos(active)')
      BY <1>2, <1>4, <2>5, <2>11 DEF Pos
    <3>2. \A n \in 1..size' : yields'[func'[n]] - left'[func'[n]] = 0
      BY <1>4, <2>2, <2>9
    <3>3. InRound(0)'
      BY <3>1, <3>2 DEF InRound
    <3> QED
      BY <3>3 DEF Rounds
  <2>13. RingOfOnes'
    <3> SUFFICES ASSUME Ones' PROVE RoundOfOnes(0)'
      BY DEF RingOfOnes
    <3>1. \A n \in 1..size' : ~(Pos(n)' < Pos(active)')
      BY <1>2, <1>4, <2>5, <2>11 DEF Pos
    <3>2. \A n \in 1..size' : left'[func'[n]] = 1 /\ func'[n] \notin done'
      BY <1>4, <2>2, <2>9 DEF Ones
    <3> QED
      BY <3>1, <3>2 DEF RoundOfOnes
  <2>14. ListOfOnes'
    <3> SUFFICES ASSUME Ones', size % 2 = 0 PROVE \E h \in 1..size' : Pair(h)'
      BY <1>4 DEF ListOfOnes
    <3>1. PICK h \in 1..size : size = 2 * h
      BY <1>2, <2>4
    <3>2. \A n \in 1..size : left'[func'[n]] = 1 /\ func'[n] \notin done'
      BY <1>4, <2>2, <2>9 DEF Ones
    <3>3. 2 * h \in 1..size /\ 2 * h - 1 \in 1..size
      BY <3>1
    <3>4. \A n \in 1..size : ~(n > 2 * h)
      BY <3>1
    <3>5. Pair(h)'
      BY <1>4, <2>11, <3>1, <3>2, <3>3, <3>4 DEF Pair
    <3> QED
      BY <1>4, <3>5
  <2> QED
    BY <2>8, <2>12, <2>13, <2>14
<1> QED
  BY <1>6, <1>7

\* Every step preserves the invariant.
LEMMA NextIInv == IInv /\ [Next]_vars => IInv'
<1> SUFFICES ASSUME IInv, [Next]_vars PROVE IInv'
  OBVIOUS
<1>1. ASSUME NEW t \in Tasks, add_to_scheduler(t) PROVE IInv'
  BY <1>1, AddTruthful, AddOthers DEF IInv
<1>2. CASE run_scheduler
  BY <1>2, RunTruthful, RunOthers DEF IInv
<1>3. CASE usched_yield
  BY <1>3, YieldTruthful, YieldFresh, YieldRounds, YieldRingOfOnes, YieldListOfOnes DEF IInv
<1>4. CASE Reset
  <2>1. /\ is_finished' = FALSE
        /\ UNCHANGED <<ring, size, status, func, active, yields, left, added, done, runs, mpc>>
    BY <1>4 DEF Reset
  <2>2. TypeOK' /\ StatusTruthful'
    BY <2>1 DEF IInv, StatusTruthful, TypeOK, Unfinished
  <2>3. Housekeeping' /\ Fresh'
    BY <2>1 DEF IInv, Housekeeping, Fresh, FirstRun
  <2>4. Rounds'
    BY <2>1 DEF IInv, Rounds, FirstRun, InRound, Unfinished, Pos
  <2>5. RingOfOnes'
    BY <2>1 DEF IInv, RingOfOnes, FirstRun, Ones, RoundOfOnes, Pos
  <2>6. ListOfOnes'
    BY <2>1 DEF IInv, ListOfOnes, FirstRun, Ones, Pair
  <2> QED
    BY <2>2, <2>3, <2>4, <2>5, <2>6 DEF IInv
<1>5. CASE UNCHANGED vars
  <2>1. UNCHANGED <<ring, size, status, func, active, is_finished, yields, left, added, done, runs, mpc>>
    BY <1>5 DEF vars
  <2>2. TypeOK' /\ StatusTruthful'
    BY <2>1 DEF IInv, StatusTruthful, TypeOK, Unfinished
  <2>3. Housekeeping' /\ Fresh'
    BY <2>1 DEF IInv, Housekeeping, Fresh, FirstRun
  <2>4. Rounds'
    BY <2>1 DEF IInv, Rounds, FirstRun, InRound, Unfinished, Pos
  <2>5. RingOfOnes'
    BY <2>1 DEF IInv, RingOfOnes, FirstRun, Ones, RoundOfOnes, Pos
  <2>6. ListOfOnes'
    BY <2>1 DEF IInv, ListOfOnes, FirstRun, Ones, Pair
  <2> QED
    BY <2>2, <2>3, <2>4, <2>5, <2>6 DEF IInv
<1> QED
  BY <1>1, <1>2, <1>3, <1>4, <1>5 DEF Next, Destroyed

\* The invariant holds in every state of lab1/src/7.
THEOREM Invariance == Spec => []IInv
<1> QED
  BY InitIInv, NextIInv, PTL DEF Spec

\* uthreadpool.c, uthreadpool2.c: the status of a node says what its task is doing,
\* for any tasks, any numbers of yields and any number of runs.
THEOREM Truthful == Spec => []StatusTruthful
<1>1. IInv => StatusTruthful
  BY DEF IInv
<1> QED
  BY <1>1, Invariance, PTL

\* uthreadpool2.c: the ring is round robin in the first run.
THEOREM RoundRobin == Spec => []InStep
<1>1. IInv => InStep
  <2> SUFFICES ASSUME IInv, ring, mpc = "uthread", runs = 1,
                      NEW s \in Unfinished, NEW t \in Unfinished
               PROVE  yields[s] - left[s] <= (yields[t] - left[t]) + 1
    BY DEF InStep
  <2>1. PICK r \in Nat : InRound(r)
    BY DEF IInv, Rounds, FirstRun
  <2>2. PICK m \in 1..size : func[m] = s
    BY DEF IInv, StatusTruthful
  <2>3. PICK n \in 1..size : func[n] = t
    BY DEF IInv, StatusTruthful
  <2>4. yields[s] - left[s] \in {r, r + 1} /\ yields[t] - left[t] \in {r, r + 1}
    BY <2>1, <2>2, <2>3 DEF InRound
  <2> QED
    BY <2>4
<1> QED
  BY <1>1, Invariance, PTL

\* The step that comes back from run_scheduler.
LEMMA ReturnFacts ==
  ASSUME IInv, [Next]_vars, Returns
  PROVE  usched_yield
<1>1. mpc = "uthread" /\ mpc' = "main"
  BY DEF Returns
<1> QED
  BY <1>1 DEF Next, vars, add_to_scheduler, AddTo, run_scheduler, RunFrom, Reset, Destroyed

\* usched_yield comes back to main with no READY node in the list, and in the
\* ring with the node before the active one at most.
THEOREM PredecessorOnly == Spec => OnlyPredecessorMissed
<1>1. ASSUME IInv, [Next]_vars, Returns
      PROVE  Having("READY")' \subseteq (IF ring THEN {After(active, size - 1)} ELSE {})
  <2>1. usched_yield /\ mpc = "uthread" /\ mpc' = "main"
    BY <1>1, ReturnFacts DEF Returns
  <2>2. PICK now \in {"RUNNING", "TERMINATED"} : YieldTo(NextReady, now)
    BY <2>1 DEF usched_yield, TaskYields, TaskReturns
  <2>3. TypeOK /\ size \in Nat
    BY <1>1, SizeFacts DEF IInv, StatusTruthful
  <2>4. /\ active \in 1..size /\ NextReady = NULL
        /\ status'[active] = now /\ active' = active
        /\ \A n \in 1..size : n # active => status'[n] = status[n]
    BY <1>1, <2>1, <2>2, YieldFacts
  <2>5. size' = size
    BY <2>1 DEF usched_yield, TaskYields, TaskReturns
  <2>6. Having("READY")' = {n \in 1..size : status'[n] = "READY"}
    BY <2>5 DEF Having
  <2>7. \A n \in 1..size : status'[n] = "READY" => status[n] = "READY"
    BY <2>4
  <2>8. CASE ~ring
    BY <2>3, <2>4, <2>6, <2>7, <2>8, NextReadyFacts
  <2>9. CASE ring
    <3>1. \A n \in 1..size : status[n] = "READY" => n = Before(active)
      BY <2>3, <2>4, <2>9, NextReadyFacts
    <3>2. size - 1 \in 0..(size - 1)
      BY <2>3, <2>4
    <3>3. After(active, size - 1) = Before(active)
      BY <2>3, <2>4, <3>2, AfterFacts DEF Before
    <3> QED
      BY <2>6, <2>7, <2>9, <3>1, <3>3
  <2> QED
    BY <2>8, <2>9
<1> QED
  BY <1>1, Invariance, PTL DEF OnlyPredecessorMissed, Spec

\* main.c: tasks that yield once each all finish, in the ring if they are three
\* or more, in the list if their number is even.
THEOREM TasksFinish == Spec => MainTasksFinish
<1> DEFINE Hyp == /\ Returns /\ runs = 1
                  /\ \A t \in added : yields[t] = 1
                  /\ IF ring THEN Cardinality(added) >= 3 ELSE Cardinality(added) % 2 = 0
<1>1. ASSUME IInv, [Next]_vars, Hyp PROVE done' = added
  <2>1. usched_yield /\ FirstRun /\ mpc' = "main" /\ Ones
    BY <1>1, ReturnFacts DEF Returns, FirstRun, Ones
  <2>2. size = Cardinality(added)
    BY <1>1, <2>1 DEF IInv, Fresh
  <2>3. /\ size \in Nat /\ active \in 1..size /\ added' = added
        /\ \A n \in 1..size : n # active => (func[n] \in done' <=> func[n] \in done)
        /\ left[func[active]] = 0 => func[active] \in done'
    BY <1>1, <2>1, FirstRunFacts
  <2>4. /\ ~ring => \A n \in 1..size : n # active => func[n] \in done
        /\ ring => \A n \in 1..size :
                     n # active /\ func[n] \notin done => n = Before(active)
    BY <1>1, <2>1, FirstRunNext
  <2>5. ASSUME ~ring PROVE \A n \in 1..size : func[n] \in done'
    <3>1. PICK h \in 1..size : Pair(h)
      BY <1>1, <2>1, <2>2, <2>5 DEF IInv, ListOfOnes
    <3>2. 2 * h \in 1..size /\ 2 * h - 1 \in 1..size /\ 2 * h # 2 * h - 1
      BY <2>3, <3>1 DEF Pair
    <3>3. left[func[active]] = 0 /\ active = 2 * h - 1
      BY <2>4, <2>5, <3>1, <3>2 DEF Pair
    <3>4. \A n \in 1..size : func[n] \in done'
      BY <2>3, <2>4, <2>5, <3>3
    <3> QED
      BY <3>4
  <2>6. ASSUME ring PROVE \A n \in 1..size : func[n] \in done'
    <3>1. size >= 3
      BY <1>1, <2>2, <2>6
    <3>2. PICK r \in {0, 1} : RoundOfOnes(r)
      BY <1>1, <2>1, <2>6, <3>1 DEF IInv, RingOfOnes
    <3>3. \A n \in 1..size : func[n] \notin done => r = 0 \/ ~(Pos(n) < Pos(active))
      BY <3>2 DEF RoundOfOnes
    <3>4. \A n \in 1..size : r = 0 \/ ~(Pos(n) < Pos(active)) => func[n] \notin done
      BY <3>2 DEF RoundOfOnes
    <3>5. PICK n \in 1..size : n # active /\ n # Before(active)
      <4>1. 1 \in 1..size /\ 2 \in 1..size /\ 3 \in 1..size
        BY <2>3, <3>1
      <4>2. Before(active) \in Int /\ active \in Int
        BY <2>3 DEF Before
      <4> QED
        BY <4>1, <4>2
    <3>6. func[n] \in done
      BY <2>4, <2>6, <3>5
    <3>7. r = 1 /\ Pos(n) < Pos(active)
      BY <3>2, <3>4, <3>5, <3>6
    <3>8. left[func[active]] = 0
      BY <2>3, <3>2, <3>7 DEF RoundOfOnes
    <3>9. Pos(Before(active)) < Pos(active) /\ Before(active) \in 1..size
      BY <2>3, <3>1, <3>5, <3>7 DEF Pos, Before
    <3>10. func[Before(active)] \in done
      BY <3>2, <3>7, <3>9 DEF RoundOfOnes
    <3> QED
      BY <2>3, <2>4, <2>6, <3>8, <3>10
  <2>7. \A n \in 1..size : func[n] \in done'
    BY <2>5, <2>6
  <2>8. StatusTruthful' /\ Housekeeping'
    BY <1>1, <2>1, YieldTruthful
  <2>9. added' \subseteq done'
    <3>1. func' = func /\ size' = size
      BY <2>1 DEF usched_yield, TaskYields, TaskReturns
    <3> QED
      BY <2>7, <2>8, <3>1 DEF StatusTruthful, Unfinished
  <2> QED
    BY <2>3, <2>8, <2>9 DEF Housekeeping
<1> QED
  BY <1>1, Invariance, PTL DEF MainTasksFinish, Spec

-----------------------------------------------------------------------------
(***************************************************************************)
(* MyThread: StackKept and OnlyRefusedLeft of the threads on clone, for    *)
(* every number of threads and every set of addresses.                     *)
(*                                                                         *)
(* Two facts carry the argument. While main creates threads it unmaps      *)
(* nothing, so that a region given to one thread is never given to a       *)
(* second one. And finished is the thread's own word once it is not junk,  *)
(* so that clear, which looks at it, takes the region of a thread that has *)
(* written it.                                                             *)
(***************************************************************************)

\* The threads that have stored to g.
Stored == {i \in Threads : pc[i] \in {"free", "flag", "exit", "gone"}}

\* Every increment of g was made by a thread that is past its store: what keeps
\* g within 0..N although the increments are not atomic.
CounterInv ==
  /\ g \in Nat /\ g <= Cardinality(Stored)
  /\ \A i \in Threads : reg[i] \in Nat /\ reg[i] <= Cardinality(Stored)

Types ==
  /\ mapped \in [Regions -> SUBSET Whole]
  /\ guard \in [Threads -> Regions \cup {NoRegion}]
  /\ finished \in [Threads -> BOOLEAN]
  /\ junk \in [Threads -> BOOLEAN]
  /\ pc \in [Threads -> Running \cup {"none", "gone"}]
  /\ reg \in [Threads -> Nat]
  /\ next \in 1..(N + 1)
  /\ phase \in {"create", "clear", "end"}
  /\ phase = "end" => next = N + 1
  /\ refused \subseteq Threads

\* Who has which region.
RegionInv ==
  /\ \A i \in Threads : pc[i] # "none" => guard[i] \in Regions
  /\ \A i, j \in Threads :
       pc[i] # "none" /\ pc[j] # "none" /\ guard[i] = guard[j] => i = j
  /\ phase = "create" =>
       \A i \in Threads :
         /\ i >= next => pc[i] = "none" /\ guard[i] = NoRegion
         /\ pc[i] # "none" => mapped[guard[i]] = Whole

\* The flag of a thread is junk or was written by the thread.
FlagInv ==
  \A i \in Threads : finished[i] => junk[i] \/ pc[i] \in {"exit", "gone"}

\* The invariant proper of StackKept.
KeptInv ==
  \A i \in Threads :
    pc[i] \in Running \ {"exit"} /\ mapped[guard[i]] # Whole =>
      \E j \in Threads : junk[j] /\ guard[j] = guard[i]

\* Every mapping is one that clear will come to, has refused, or cannot see.
LeftInv ==
  \A r \in Regions : mapped[r] # {} =>
    \/ \E i \in Threads : guard[i] = r /\ (phase = "create" \/ i >= next \/ i \in refused)
    \/ r \in halved /\ mapped[r] = {"top"}

\* The inductive invariant.
CloneInv == Types /\ CounterInv /\ RegionInv /\ FlagInv /\ KeptInv /\ LeftInv

\* What main and the threads use of the constants.
LEMMA ThreadFacts ==
  /\ N \in Nat /\ N >= 1
  /\ IsFiniteSet(Threads) /\ Cardinality(Threads) = N
<1>1. N \in Nat /\ N >= 1
  BY NAssumption
<1>2. 1 \in Int /\ N \in Int /\ ~(1 > N)
  BY <1>1
<1>3. IsFiniteSet(Threads) /\ Cardinality(Threads) = N - 1 + 1
  BY <1>2, FS_Interval DEF Threads
<1> QED
  BY <1>1, <1>3

\* Stored is finite, so its cardinality is a number up to N.
LEMMA StoredFacts ==
  /\ IsFiniteSet(Stored)
  /\ Cardinality(Stored) \in Nat
  /\ Cardinality(Stored) <= N
<1>1. Stored \in SUBSET Threads
  BY DEF Stored
<1>2. IsFiniteSet(Stored) /\ Cardinality(Stored) <= Cardinality(Threads)
  BY <1>1, ThreadFacts, FS_Subset
<1> QED
  BY <1>2, ThreadFacts, FS_CardinalityType

\* The initial states satisfy the invariant.
LEMMA InitCloneInv == CloneInit => CloneInv
<1> SUFFICES ASSUME CloneInit PROVE CloneInv
  OBVIOUS
<1>1. Types
  BY ThreadFacts DEF CloneInit, Types, Whole
<1>2. CounterInv
  BY StoredFacts DEF CloneInit, CounterInv
<1>3. RegionInv /\ KeptInv /\ LeftInv
  BY DEF CloneInit, RegionInv, KeptInv, LeftInv, Running, Threads
<1>4. FlagInv
  BY Zenon DEF CloneInit, FlagInv
<1> QED
  BY <1>1, <1>2, <1>3, <1>4 DEF CloneInv

-----------------------------------------------------------------------------
(* The count *)

\* g and the registers stay below the number of stores made: a store adds its
\* thread to Stored, and no other step takes one out.
LEMMA CounterStep ==
  Types /\ CounterInv /\ RegionInv /\ (Main \/ \E i \in Threads : Thread(i)) => CounterInv'
<1> SUFFICES ASSUME Types, CounterInv, RegionInv, Main \/ \E i \in Threads : Thread(i)
             PROVE  CounterInv'
  OBVIOUS
<1> DEFINE n == Cardinality(Stored)
           m == Cardinality(Stored')
<1>0. n \in Nat /\ IsFiniteSet(Stored)
  BY StoredFacts
<1>1. ASSUME UNCHANGED <<g, reg>>, Stored' = Stored PROVE CounterInv'
  BY <1>1 DEF CounterInv
<1>2. CASE Main
  <2>1. UNCHANGED <<g, reg>>
    BY <1>2 DEF Main, MmapFails, Sleep, Clear, EndOfMain, Create, MprotectFails, CloneFails, Creating
  <2>2. CASE \E r \in Regions : Create(r)
    <3>1. next \in Threads /\ pc[next] = "none" /\ pc' = [pc EXCEPT ![next] = "load"]
      BY <2>2, ThreadFacts DEF Create, Creating, Types, RegionInv, Threads
    <3>2. Stored' = Stored
      BY <3>1 DEF Stored, Types
    <3> QED
      BY <2>1, <3>2, <1>1
  <2>3. CASE ~\E r \in Regions : Create(r)
    <3>1. pc' = pc
      BY <1>2, <2>3 DEF Main, MmapFails, Sleep, Clear, EndOfMain, MprotectFails, CloneFails
    <3> QED
      BY <3>1, <2>1, <1>1 DEF Stored
  <2> QED
    BY <2>2, <2>3
<1>3. CASE \E i \in Threads : Thread(i)
  <2> PICK i \in Threads : Thread(i)
    BY <1>3
  <2> USE DEF Goto, OnStack
  <2>1. CASE Load(i)
    <3>1. Stored' = Stored
      BY <2>1 DEF Load, Stored, Types
    <3>2. g' = g /\ reg' = [reg EXCEPT ![i] = g]
      BY <2>1 DEF Load
    <3> QED
      BY <3>1, <3>2 DEF CounterInv, Types
  <2>2. CASE Store(i)
    <3>1. Stored' = Stored \cup {i} /\ i \notin Stored
      BY <2>2 DEF Store, Stored, Types
    <3>2. m = n + 1
      BY <1>0, <3>1, FS_AddElement
    <3>3. g' = reg[i] + 1 /\ reg' = reg
      BY <2>2 DEF Store
    <3> HIDE DEF n, m
    <3>4. g' \in Nat /\ g' <= m
      BY <1>0, <3>2, <3>3 DEF CounterInv, n
    <3>5. \A j \in Threads : reg'[j] \in Nat /\ reg'[j] <= m
      BY <1>0, <3>2, <3>3 DEF CounterInv, n
    <3> QED
      BY <3>4, <3>5 DEF CounterInv, m
  <2>3. CASE Free(i) \/ Flag(i) \/ Exit(i) \/ Die(i)
    <3>1. UNCHANGED <<g, reg>>
      BY <2>3 DEF Free, Flag, Exit, Die
    <3>2. Stored' = Stored
      BY <2>3 DEF Free, Flag, Exit, Die, Stored, Types
    <3> QED
      BY <3>1, <3>2, <1>1
  <2> QED
    BY <2>1, <2>2, <2>3 DEF Thread
<1> QED
  BY <1>2, <1>3

-----------------------------------------------------------------------------
(* The regions *)

\* The parts of the invariant that speak of regions and flags.
MapInv == Types /\ RegionInv /\ FlagInv /\ KeptInv /\ LeftInv

\* Creating a thread, in each of the ways in which it can end.
LEMMA CreateStep ==
  ASSUME MapInv, NEW r \in Regions, Create(r) \/ MprotectFails(r) \/ CloneFails(r)
  PROVE  MapInv'
<1>0. /\ next \in Threads /\ pc[next] = "none" /\ guard[next] = NoRegion
      /\ phase = "create" /\ phase' = phase
      /\ next' = next + 1 /\ mapped[r] = {}
      /\ UNCHANGED <<finished, junk, reg, refused>>
  BY ThreadFacts DEF MapInv, Types, RegionInv, Threads, Create, MprotectFails, CloneFails, Creating
<1>n. next \in 1..N /\ next' \in 1..(N + 1)
  BY <1>0, ThreadFacts DEF Threads
<1> USE <1>0 DEF MapInv
<1>1. CASE Create(r)
  <2> USE <1>1 DEF Create
  <2>1. Types'
    <3>1. mapped' \in [Regions -> SUBSET Whole]
      BY DEF Types
    <3>2. guard' \in [Threads -> Regions \cup {NoRegion}]
      BY DEF Types
    <3>3. pc' \in [Threads -> Running \cup {"none", "gone"}]
      BY DEF Types, Running
    <3> QED
      BY <3>1, <3>2, <3>3, <1>n DEF Types
  <2>2. RegionInv'
    <3>1. \A i \in Threads : i # next => pc'[i] = pc[i] /\ guard'[i] = guard[i]
      BY DEF Types
    <3>2. pc'[next] = "load" /\ guard'[next] = r
      BY DEF Types
    <3>3. \A i \in Threads : i # next /\ pc[i] # "none" => guard[i] # r /\ guard[i] \in Regions
      BY DEF RegionInv, Whole
    <3>4. \A i \in Threads : i >= next' => i # next /\ i >= next
      BY <1>n, ThreadFacts DEF Threads
    <3>5. mapped'[r] = Whole /\ \A q \in Regions : q # r => mapped'[q] = mapped[q]
      BY DEF Types
    <3> QED
      BY <3>1, <3>2, <3>3, <3>4, <3>5 DEF RegionInv
  <2>3. FlagInv'
    BY Zenon DEF FlagInv, Types
  <2>4. KeptInv'
    BY <2>2 DEF RegionInv, KeptInv, Running
  <2>5. LeftInv'
    <3>1. \A i \in Threads : guard[i] \in Regions => i # next /\ guard'[i] = guard[i]
      BY NoRegionAssumption DEF Types
    <3>2. guard'[next] = r /\ \A q \in Regions : q # r => mapped'[q] = mapped[q]
      BY DEF Types
    <3> QED
      BY <3>1, <3>2 DEF LeftInv
  <2> QED
    BY <2>1, <2>2, <2>3, <2>4, <2>5
<1>2. CASE MprotectFails(r)
  <2> USE <1>2 DEF MprotectFails
  <2>1. Types'
    BY <1>n DEF Types, Whole
  <2>2. RegionInv'
    <3>1. \A i \in Threads : i >= next' => i >= next
      BY <1>n, ThreadFacts DEF Threads
    <3>2. \A i \in Threads : pc[i] # "none" => guard[i] # r
      BY DEF RegionInv, Whole
    <3> QED
      BY <3>1, <3>2 DEF RegionInv, Types
  <2>3. FlagInv'
    BY DEF FlagInv
  <2>4. KeptInv'
    BY <2>2 DEF RegionInv, KeptInv, Running
  <2>5. LeftInv'
    BY DEF LeftInv, Types
  <2> QED
    BY <2>1, <2>2, <2>3, <2>4, <2>5
<1>3. CASE CloneFails(r)
  <2> USE <1>3 DEF CloneFails
  <2>1. Types'
    BY <1>n DEF Types
  <2>2. RegionInv'
    <3>1. \A i \in Threads : i >= next' => i >= next /\ i # next
      BY <1>n, ThreadFacts DEF Threads
    <3>2. \A i \in Threads : i # next => guard'[i] = guard[i]
      BY DEF Types
    <3> QED
      BY <3>1, <3>2 DEF RegionInv
  <2>3. FlagInv'
    BY DEF FlagInv
  <2>4. KeptInv'
    BY <2>2 DEF RegionInv, KeptInv, Running
  <2>5. LeftInv'
    <3>1. \A i \in Threads : guard[i] \in Regions => i # next /\ guard'[i] = guard[i]
      BY NoRegionAssumption DEF Types
    <3> QED
      BY <3>1 DEF LeftInv
  <2> QED
    BY <2>1, <2>2, <2>3, <2>4, <2>5
<1> QED
  BY <1>1, <1>2, <1>3

\* main's steps that create nothing: a failed mmap, the end of the sleep and of
\* main.
LEMMA IdleStep ==
  ASSUME MapInv, MmapFails \/ Sleep \/ EndOfMain
  PROVE  MapInv'
<1>0. UNCHANGED <<mapped, guard, finished, pc, reg, refused, junk, halved>>
  BY DEF MmapFails, Sleep, EndOfMain
<1> USE <1>0 DEF MapInv
<1>1. /\ next' \in 1..(N + 1)
      /\ phase' = "create" => phase = "create" /\ next' >= next
      /\ phase' = "end" => next' = N + 1
      /\ phase' \in {"create", "clear", "end"}
      /\ phase' = "create" \/ next' = 1 \/ (next' = next /\ phase = "clear")
  BY ThreadFacts DEF MmapFails, Sleep, EndOfMain, Creating, Types
<1>2. Types'
  BY <1>1 DEF Types
<1>3. RegionInv'
  <2>1. phase' = "create" => \A i \in Threads : i >= next' => i >= next
    BY <1>1, ThreadFacts DEF Types, Threads
  <2> QED
    BY <1>1, <2>1 DEF RegionInv
<1>4. FlagInv' /\ KeptInv'
  BY DEF FlagInv, KeptInv
<1>5. LeftInv'
  <2>1. \A i \in Threads : i >= 1
    BY ThreadFacts DEF Threads
  <2> QED
    BY <1>1, <2>1 DEF LeftInv
<1> QED
  BY <1>2, <1>3, <1>4, <1>5

\* clear: the thread it believes has finished has written its flag, or the flag
\* is junk.
LEMMA ClearStep ==
  ASSUME MapInv, Clear
  PROVE  MapInv'
<1>0. /\ next \in Threads /\ phase = "clear" /\ phase' = phase /\ next' = next + 1
      /\ next' \in 1..(N + 1)
      /\ UNCHANGED <<guard, finished, pc, reg, junk, halved>>
  BY ThreadFacts DEF Clear, MapInv, Types, Threads
<1>g. \A i \in Threads : i >= next /\ i # next => i >= next'
  BY <1>0, ThreadFacts DEF Threads
<1> USE <1>0 DEF MapInv
<1>1. CASE finished[next]
  <2>0. /\ mapped' = [r \in Regions |-> IF r = guard[next] THEN {} ELSE mapped[r]]
        /\ refused' = refused
    BY <1>1 DEF Clear
  <2>1. Types'
    <3>1. mapped' \in [Regions -> SUBSET Whole]
      BY <2>0 DEF Types
    <3> QED
      BY <2>0, <3>1 DEF Types
  <2>2. RegionInv'
    BY DEF RegionInv
  <2>3. FlagInv'
    BY DEF FlagInv
  <2>4. KeptInv'
    <3> SUFFICES ASSUME NEW i \in Threads, pc[i] \in Running \ {"exit"}, mapped'[guard[i]] # Whole
                 PROVE  \E j \in Threads : junk[j] /\ guard[j] = guard[i]
      BY DEF KeptInv
    <3>1. guard[i] \in Regions /\ pc[i] # "none" /\ pc[i] \notin {"exit", "gone"}
      BY DEF RegionInv, Running
    <3>2. CASE guard[i] = guard[next]
      <4>1. CASE pc[next] \in {"exit", "gone"}
        BY <3>1, <3>2, <4>1 DEF RegionInv
      <4>2. CASE junk[next]
        BY <3>2, <4>2
      <4> QED
        BY <1>1, <4>1, <4>2, Zenon DEF FlagInv
    <3>3. CASE guard[i] # guard[next]
      <4>1. mapped'[guard[i]] = mapped[guard[i]]
        BY <2>0, <3>1, <3>3
      <4> QED
        BY <4>1 DEF KeptInv
    <3> QED
      BY <3>2, <3>3
  <2>5. LeftInv'
    <3>1. \A r \in Regions : mapped'[r] # {} => mapped'[r] = mapped[r] /\ r # guard[next]
      BY <2>0
    <3> QED
      BY <3>1, <2>0, <1>g DEF LeftInv
  <2> QED
    BY <2>1, <2>2, <2>3, <2>4, <2>5
<1>2. CASE ~finished[next]
  <2>0. refused' = refused \cup {next} /\ mapped' = mapped
    BY <1>2 DEF Clear
  <2>1. Types'
    BY <2>0 DEF Types
  <2>2. RegionInv'
    BY DEF RegionInv
  <2>3. FlagInv' /\ KeptInv'
    BY <2>0 DEF FlagInv, KeptInv
  <2>4. LeftInv'
    BY <2>0, <1>g DEF LeftInv
  <2> QED
    BY <2>1, <2>2, <2>3, <2>4
<1> QED
  BY <1>1, <1>2

\* A thread's step: it changes its own pc, its register and its flag only.
LEMMA ThreadStep ==
  ASSUME MapInv, NEW i \in Threads, Thread(i), CounterInv, CounterInv'
  PROVE  MapInv'
<1> USE DEF MapInv
<1>0. UNCHANGED <<mapped, guard, next, phase, refused, junk, halved>>
  BY DEF Thread, Load, Store, Free, Flag, Exit, Die
<1>1. /\ pc' \in [Threads -> Running \cup {"none", "gone"}]
      /\ \A j \in Threads : (pc[j] = "none") <=> (pc'[j] = "none")
      /\ \A j \in Threads : pc[j] \in {"exit", "gone"} => pc'[j] \in {"exit", "gone"}
      /\ \A j \in Threads : pc'[j] \in Running \ {"exit"} => pc[j] \in Running \ {"exit"}
  BY DEF Thread, Load, Store, Free, Flag, Exit, Die, Goto, Types, Running
<1>2. reg' \in [Threads -> Nat]
  BY DEF Thread, Load, Store, Free, Flag, Exit, Die, Types, CounterInv
<1>3. /\ finished' \in [Threads -> BOOLEAN]
      /\ \A j \in Threads : finished'[j] => finished[j] \/ pc'[j] \in {"exit", "gone"}
  <2>1. CASE Flag(i)
    <3>1. finished' = [finished EXCEPT ![i] = TRUE] /\ pc'[i] = "exit"
      BY <2>1 DEF Flag, Goto, Types
    <3>2. finished' \in [Threads -> BOOLEAN]
      BY <3>1 DEF Types
    <3> QED
      BY <3>1, <3>2, Zenon DEF Types
  <2>2. CASE ~Flag(i)
    <3>1. finished' = finished
      BY <2>2 DEF Thread, Load, Store, Free, Exit, Die
    <3> QED
      BY <3>1, Zenon DEF Types
  <2> QED
    BY <2>1, <2>2
<1>4. Types'
  BY <1>0, <1>1, <1>2, <1>3 DEF Types
<1>5. RegionInv'
  BY <1>0, <1>1 DEF RegionInv
<1>6. FlagInv'
  <2> SUFFICES ASSUME NEW j \in Threads, finished'[j]
               PROVE  junk[j] \/ pc'[j] \in {"exit", "gone"}
    BY <1>0 DEF FlagInv
  <2> QED
    BY <1>1, <1>3, Zenon DEF FlagInv
<1>7. KeptInv'
  BY <1>0, <1>1 DEF KeptInv
<1>8. LeftInv'
  BY <1>0 DEF LeftInv
<1> QED
  BY <1>4, <1>5, <1>6, <1>7, <1>8

-----------------------------------------------------------------------------
\* Every step preserves the invariant.
LEMMA NextCloneInv == CloneInv /\ [CloneNext]_cloneVars => CloneInv'
<1> SUFFICES ASSUME CloneInv, [CloneNext]_cloneVars PROVE CloneInv'
  OBVIOUS
<1>0. MapInv /\ CounterInv
  BY DEF CloneInv, MapInv
<1>1. CASE Main
  <2>1. CounterInv'
    BY <1>1, CounterStep DEF CloneInv
  <2>2. MapInv'
    BY <1>0, <1>1, CreateStep, IdleStep, ClearStep DEF Main
  <2> QED
    BY <2>1, <2>2 DEF CloneInv, MapInv
<1>2. CASE \E i \in Threads : Thread(i)
  <2>1. CounterInv'
    BY <1>2, CounterStep DEF CloneInv
  <2>2. MapInv'
    BY <1>0, <1>2, <2>1, ThreadStep
  <2> QED
    BY <2>1, <2>2 DEF CloneInv, MapInv
<1>3. CASE UNCHANGED cloneVars
  <2>1. Stored' = Stored
    BY <1>3 DEF cloneVars, Stored
  <2>2. CounterInv'
    BY <1>3, <2>1 DEF cloneVars, CloneInv, CounterInv
  <2>3. Types' /\ RegionInv' /\ LeftInv'
    BY <1>3 DEF cloneVars, CloneInv, Types, RegionInv, LeftInv
  <2>4. FlagInv' /\ KeptInv'
    BY <1>3 DEF cloneVars, CloneInv, FlagInv, KeptInv
  <2> QED
    BY <2>2, <2>3, <2>4 DEF CloneInv
<1> QED
  BY <1>1, <1>2, <1>3 DEF CloneNext, Over

\* The invariant holds in every state of lab1/src/6.
THEOREM CloneInvariance == CloneSpec => []CloneInv
<1> QED
  BY InitCloneInv, NextCloneInv, PTL DEF CloneSpec

\* The variables keep their types; that g stays within N, although g++ is three
\* steps, is part of it.
THEOREM CloneTypes == CloneSpec => []CloneTypeOK
<1>1. CloneInv => CloneTypeOK
  <2> SUFFICES ASSUME CloneInv PROVE CloneTypeOK
    OBVIOUS
  <2>1. g \in 0..N /\ \A i \in Threads : reg[i] \in 0..N
    BY ThreadFacts, StoredFacts DEF CloneInv, CounterInv
  <2>2. reg \in [Threads -> 0..N]
    BY <2>1 DEF CloneInv, Types
  <2> QED
    BY <2>1, <2>2 DEF CloneInv, Types, CloneTypeOK
<1> QED
  BY <1>1, CloneInvariance, PTL

\* clear (my_thread.c:59-69) takes no stack from a thread that has not written its
\* flag, unless the flag it looked at was never written.
THEOREM StacksKept == CloneSpec => []StackKept
<1>1. CloneInv /\ CloneTypeOK => StackKept
  BY DEF CloneInv, KeptInv, StackKept, OnStack
<1> QED
  BY <1>1, CloneInvariance, CloneTypes, PTL

\* What main leaves mapped: the stacks that clear refused, and the tops of the
\* regions whose mprotect failed.
THEOREM OnlyRefusedRemain == CloneSpec => []OnlyRefusedLeft
<1>1. CloneInv => OnlyRefusedLeft
  <2> SUFFICES ASSUME CloneInv, phase = "end", NEW r \in Regions, mapped[r] # {}
               PROVE  (\E i \in refused : guard[i] = r) \/ (r \in halved /\ mapped[r] = {"top"})
    BY DEF OnlyRefusedLeft
  <2>1. \A i \in Threads : ~(i >= next)
    BY ThreadFacts DEF CloneInv, Types, Threads
  <2> QED
    BY <2>1 DEF CloneInv, LeftInv
<1> QED
  BY <1>1, CloneInvariance, PTL
===============================================================================
