-------------------------- MODULE SubscriptionProofs --------------------------
(***************************************************************************)
(* Safety of a subscription manager for any number of chunks and any set   *)
(* of clients that a char can count.                                       *)
(***************************************************************************)
EXTENDS Subscription, FiniteSetTheorems, TLAPS

\* The two operations of the chunk container are short enough to be expanded
\* everywhere.
USE DEF StoreChunk, HasChunk

\* No more clients than flag, a char, can hold.
FewClients == Cardinality(Clients) <= CharMax

\* The main thread holds manager->lock exactly at these points.
LockedInv == locked <=> mpc \in {"dispatch", "check", "close", "stuck"}

\* The subscribers of this round wait in todo only while __send_chunks runs.
TodoInv ==
  /\ chunks = calls /\ (InAddChunk => calls > 0)
  /\ todo # {} => mpc = "dispatch"
  /\ \A c \in todo : status[c] = "in" /\ joined[c] < chunks /\ loaded[c] < chunks

\* Pending tasks belong to the running call and to a subscriber it visited.
PendingInv ==
  /\ \A k \in TaskIds : tpc[k] # "none" => k[2] <= calls
  /\ \A k \in Pending : /\ InAddChunk
                        /\ k[2] = calls
                        /\ status[k[1]] = "in"
                        /\ joined[k[1]] < chunks
  /\ \A c \in todo : tpc[<<c, calls>>] = "none"

\* A subscriber's lock is held by the one task that is past taking it.
HolderInv ==
  \A k \in TaskIds :
    tpc[k] \in {"send", "end", "unlock"} <=> holder[k[1]] = k

\* The locals of a running task.
LocalsInv ==
  \A k \in TaskIds :
    /\ tpc[k] = "send" => /\ next[k] = loaded[k[1]]
                          /\ next[k] < last[k]
                          /\ last[k] = chunks
    /\ tpc[k] = "end" => loaded[k[1]] = chunks \/ k[1] \in broken

\* What a client has been sent so far.
LoadedInv ==
  \A c \in Clients :
    /\ joined[c] <= chunks /\ loaded[c] <= chunks
    /\ joined[c] = chunks => loaded[c] = 0
    /\ status[c] = "new" => joined[c] = 0 /\ loaded[c] = 0

\* A subscriber of the last call has every chunk, failed, or is being served.
ServedInv ==
  \A c \in Clients :
    status[c] \in {"in", "out", "closed"} /\ c \notin broken /\ joined[c] < chunks
      => loaded[c] = chunks \/ c \in todo \/ (calls > 0 /\ <<c, calls>> \in Pending)

\* The main thread is closing the session.
Finishing == mpc \in {"finish", "unsub", "close", "destroy"}

\* Nobody leaves the list before the session ends.
LeftInv ==
  \A c \in Clients :
    /\ status[c] \in {"out", "closed"} => Finishing \/ mpc \in {"freed", "stuck"}
    /\ status[c] = "out" <=> (mpc = "close" /\ c = cur)
    /\ status[c] = "closed" => holder[c] = NoTask

\* The walk of finish_pending_chunks is on a subscriber still in the list.
WalkInv ==
  /\ mpc = "finish" => cur = NoClient \/ status[cur] = "in"
  /\ mpc = "unsub" => cur \in Clients /\ status[cur] = "in"
  /\ mpc = "close" => cur \in Clients /\ status[cur] = "out"
  /\ mpc \in {"unsub", "close"} =>
       tmp = NoClient \/ (tmp # cur /\ status[tmp] = "in")

\* subscribers_count counts the list, and the subscriber being closed.
CountInv ==
  count = Cardinality(Subscribers) + (IF mpc = "close" THEN 1 ELSE 0)

FlagInv == flag = Cardinality(Pending) + Cardinality(todo)

\* The barrier's counter: flag is the number of upload tasks that have not
\* decremented it, those still to be pushed included.
FlagCountsTasks ==
  mpc # "stuck" => flag = Cardinality(Pending) + Cardinality(todo)

ControlInv ==
  /\ LockedInv
  /\ TodoInv
  /\ PendingInv
  /\ HolderInv
  /\ LocalsInv
  /\ LoadedInv
  /\ ServedInv
  /\ LeftInv
  /\ WalkInv

IInv ==
  /\ TypeOK
  /\ ControlInv
  /\ CountInv
  /\ FlagInv
  /\ InOrder

-----------------------------------------------------------------------------
\* A task id is a client and a call.
LEMMA TaskIdFacts ==
  /\ \A k \in TaskIds : /\ k[1] \in Clients /\ k[2] \in 1..MaxChunks
                        /\ k = <<k[1], k[2]>> /\ k # NoTask
  /\ \A c \in Clients, r \in 1..MaxChunks :
       <<c, r>> \in TaskIds /\ <<c, r>>[1] = c /\ <<c, r>>[2] = r
BY ClientsAssumption DEF TaskIds, NoTask

\* The sets the counters count are finite.
LEMMA Finiteness ==
  /\ \A S \in SUBSET Clients : IsFiniteSet(S) /\ Cardinality(S) \in Nat
                               /\ Cardinality(S) <= Cardinality(Clients)
  /\ \A S \in SUBSET TaskIds : IsFiniteSet(S) /\ Cardinality(S) \in Nat
<1>1. IsFiniteSet(TaskIds)
  <2>1. IsFiniteSet(1..MaxChunks)
    BY MaxChunksAssumption, FS_Interval
  <2> QED
    BY <2>1, ClientsAssumption, FS_Product DEF TaskIds
<1> QED
  BY <1>1, ClientsAssumption, FS_Subset, FS_CardinalityType

\* A char keeps the numbers it can hold.
LEMMA CharKeeps ==
  ASSUME NEW n \in 0..CharMax
  PROVE  Char(n) = n
<1>1. n + CharMax + 1 \in 0..(2 * (CharMax + 1) - 1)
  BY CharMaxAssumption
<1>2. ASSUME NEW a \in Nat, NEW b \in Nat, a < b PROVE a % b = a
  BY <1>2
<1>3. (n + CharMax + 1) % (2 * (CharMax + 1)) = n + CharMax + 1
  BY <1>1, <1>2, CharMaxAssumption
<1> QED
  BY <1>3, CharMaxAssumption DEF Char

\* Every conversion to a char is in range.
LEMMA CharType ==
  ASSUME NEW n \in Int
  PROVE  Char(n) \in -(CharMax + 1)..CharMax
<1>1. ASSUME NEW a \in Int, NEW b \in Nat, b > 0 PROVE a % b \in 0..(b - 1)
  BY <1>1
<1>2. (n + CharMax + 1) % (2 * (CharMax + 1)) \in 0..(2 * (CharMax + 1) - 1)
  BY <1>1, CharMaxAssumption
<1> QED
  BY <1>2, CharMaxAssumption DEF Char

\* Two tasks of one client are not both past taking the client's lock.
LEMMA OneHolder ==
  ASSUME HolderInv, NEW j \in TaskIds, NEW k \in TaskIds, j[1] = k[1],
         tpc[j] \in {"send", "end", "unlock"}, tpc[k] \in {"send", "end", "unlock"}
  PROVE  j = k
BY DEF HolderInv

-----------------------------------------------------------------------------
\* A freshly created manager satisfies the invariant.
LEMMA InitIInv == Init => IInv
<1> SUFFICES ASSUME Init PROVE IInv
  OBVIOUS
<1> USE TaskIdFacts, ClientsAssumption, MaxChunksAssumption, CharMaxAssumption
<1>1. Pending = {} /\ Subscribers = {} /\ todo = {}
  BY DEF Init, Pending, Subscribers
<1>2. TypeOK
  <2>1. /\ status \in [Clients -> {"new", "in", "out", "closed"}]
        /\ joined \in [Clients -> 0..MaxChunks] /\ loaded \in [Clients -> 0..MaxChunks]
        /\ received \in [Clients -> Seq(1..MaxChunks)]
        /\ holder \in [Clients -> TaskIds \cup {NoTask}]
    BY DEF Init
  <2>2. /\ tpc \in [TaskIds -> {"none", "queued", "send", "end", "unlock", "done"}]
        /\ next \in [TaskIds -> 0..MaxChunks] /\ last \in [TaskIds -> 0..MaxChunks]
    BY DEF Init
  <2>3. /\ count \in Nat /\ flag \in -(CharMax + 1)..CharMax
        /\ chunks \in 0..MaxChunks /\ calls \in 0..MaxChunks
    BY DEF Init
  <2> QED
    BY <2>1, <2>2, <2>3 DEF Init, TypeOK, MainPCs
<1>3. LockedInv /\ TodoInv /\ WalkInv
  BY DEF Init, LockedInv, TodoInv, WalkInv, InAddChunk
<1>4. PendingInv /\ HolderInv /\ LocalsInv
  BY <1>1 DEF Init, PendingInv, HolderInv, LocalsInv
<1>5. LoadedInv /\ ServedInv /\ LeftInv
  BY DEF Init, LoadedInv, ServedInv, LeftInv
<1>6. CountInv /\ FlagInv
  BY <1>1, FS_EmptySet DEF Init, CountInv, FlagInv
<1>7. InOrder
  BY DEF Init, InOrder
<1> QED
  BY <1>2, <1>3, <1>4, <1>5, <1>6, <1>7 DEF IInv, ControlInv

\* A step of the main thread that moves only its program counter and the walk
\* leaves everything about clients and tasks alone.
LEMMA MainOnly ==
  ASSUME IInv, UNCHANGED <<clientVars, taskVars, flag, chunks, calls, todo>>
  PROVE  /\ HolderInv' /\ LocalsInv' /\ LoadedInv' /\ ServedInv'
         /\ FlagInv' /\ InOrder'
         /\ Pending' = Pending /\ Subscribers' = Subscribers
<1>1. Pending' = Pending /\ Subscribers' = Subscribers
  BY DEF Pending, Subscribers, taskVars, clientVars
<1>2. HolderInv' /\ LocalsInv' /\ LoadedInv'
  BY DEF IInv, ControlInv, HolderInv, LocalsInv, LoadedInv, taskVars, clientVars
<1>3. ServedInv'
  BY <1>1 DEF IInv, ControlInv, ServedInv, taskVars, clientVars
<1>4. FlagInv' /\ InOrder'
  BY <1>1 DEF IInv, FlagInv, InOrder, clientVars
<1> QED
  BY <1>1, <1>2, <1>3, <1>4

\* subscribe adds a client that no running call counts.
LEMMA SubscribeIInv ==
  ASSUME IInv, FewClients, NEW c \in Clients, Subscribe(c)
  PROVE  IInv'
<1> USE TaskIdFacts, ClientsAssumption, MaxChunksAssumption
        DEF IInv, ControlInv, clientVars, managerVars, taskVars, mainVars
<1>1. TypeOK'
  <2>1. count' \in Nat /\ status' \in [Clients -> {"new", "in", "out", "closed"}]
    BY SMTT(20) DEF Subscribe, TypeOK
  <2>2. joined' \in [Clients -> 0..MaxChunks]
    BY DEF Subscribe, TypeOK
  <2> QED
    BY <2>1, <2>2 DEF Subscribe, TypeOK
<1>2. LockedInv' /\ TodoInv'
  BY DEF Subscribe, TypeOK, LockedInv, TodoInv, InAddChunk
<1>3. PendingInv'
  BY DEF Subscribe, TypeOK, PendingInv, Pending, InAddChunk, TodoInv, LockedInv
<1>4. HolderInv' /\ LocalsInv'
  BY DEF Subscribe, HolderInv, LocalsInv
<1>5. LoadedInv'
  BY DEF Subscribe, TypeOK, LoadedInv
<1>6. ServedInv'
  BY DEF Subscribe, TypeOK, ServedInv, Pending
<1>7. LeftInv' /\ WalkInv'
  BY DEF Subscribe, TypeOK, LeftInv, WalkInv, Finishing
<1>8. CountInv'
  <2>1. Subscribers' = Subscribers \cup {c} /\ c \notin Subscribers
    BY DEF Subscribe, TypeOK, Subscribers
  <2>2. Cardinality(Subscribers') = Cardinality(Subscribers) + 1
    BY <2>1, Finiteness, FS_AddElement DEF Subscribers
  <2>3. Cardinality(Subscribers) \in Nat
    BY Finiteness DEF Subscribers
  <2> QED
    BY <2>2, <2>3 DEF CountInv, Subscribe
<1>9. FlagInv' /\ InOrder'
  BY DEF Subscribe, FlagInv, InOrder, Pending
<1> QED
  BY <1>1, <1>2, <1>3, <1>4, <1>5, <1>6, <1>7, <1>8, <1>9

\* The steps of the main thread that change its program counter alone.
LEMMA ControlStepIInv ==
  ASSUME IInv, BecomeMain \/ EndSendChunks \/ Relock \/ SpuriousWakeup
               \/ Finish \/ ReadNext \/ EndFinish \/ Destroy
  PROVE  IInv'
<1> USE DEF BecomeMain, EndSendChunks, Relock, SpuriousWakeup, Finish, ReadNext,
            EndFinish, Destroy, managerVars, clientVars, taskVars
<1>1. UNCHANGED <<clientVars, taskVars, flag, chunks, calls, todo>>
  OBVIOUS
<1>2. /\ HolderInv' /\ LocalsInv' /\ LoadedInv' /\ ServedInv'
      /\ FlagInv' /\ InOrder'
      /\ Pending' = Pending /\ Subscribers' = Subscribers
  BY <1>1, MainOnly
<1>3. TypeOK'
  BY DEF IInv, TypeOK, MainPCs, Subscribers
<1>4. LockedInv' /\ TodoInv'
  BY DEF IInv, ControlInv, TypeOK, LockedInv, TodoInv, InAddChunk
<1>5. PendingInv'
  BY <1>2 DEF IInv, ControlInv, PendingInv, TodoInv, InAddChunk
<1>6. LeftInv'
  BY DEF IInv, ControlInv, TypeOK, LeftInv, Finishing
<1>7. WalkInv'
  BY ClientsAssumption DEF IInv, ControlInv, TypeOK, WalkInv, LeftInv, Subscribers
<1>8. CountInv'
  BY <1>2 DEF IInv, CountInv
<1> QED
  BY <1>2, <1>3, <1>4, <1>5, <1>6, <1>7, <1>8 DEF IInv, ControlInv

\* add_chunk stores a chunk nobody has and sets flag to the length of the list.
LEMMA BeginAddChunkIInv ==
  ASSUME IInv, FewClients, BeginAddChunk
  PROVE  IInv'
<1> USE TaskIdFacts, ClientsAssumption, MaxChunksAssumption, CharMaxAssumption
        DEF clientVars, taskVars
<1>a. /\ calls' = calls + 1 /\ chunks' = chunks + 1 /\ chunks \in Nat
      /\ calls \in Nat /\ calls' \in 1..MaxChunks /\ mpc = "fetch"
  BY SMTT(20) DEF IInv, TypeOK, BeginAddChunk
<1>b. Pending = {} /\ Pending' = {}
  BY <1>a DEF IInv, ControlInv, PendingInv, InAddChunk, BeginAddChunk, Pending
<1>c. chunks < MaxChunks
  BY DEF IInv, ControlInv, TypeOK, BeginAddChunk, TodoInv
<1>d. /\ count = Cardinality(Subscribers) /\ count \in 0..CharMax
      /\ flag' = count
  <2>1. count = Cardinality(Subscribers)
    BY <1>a, Finiteness DEF IInv, CountInv, Subscribers
  <2>2. count \in 0..CharMax
    BY <2>1, Finiteness, FS_CardinalityType DEF FewClients, Subscribers
  <2> QED
    BY <2>1, <2>2, CharKeeps DEF BeginAddChunk
<1>1. TypeOK'
  <2>1. flag' \in -(CharMax + 1)..CharMax /\ chunks' \in 0..MaxChunks
    BY <1>a, <1>c, <1>d
  <2>2. calls' \in 0..MaxChunks
    BY <1>a
  <2>3. todo' \in SUBSET Clients /\ locked' \in BOOLEAN /\ mpc' \in MainPCs
    BY DEF BeginAddChunk, MainPCs, Subscribers
  <2> QED
    BY <2>1, <2>2, <2>3 DEF IInv, TypeOK, BeginAddChunk
<1>2. LockedInv' /\ WalkInv'
  BY DEF BeginAddChunk, LockedInv, WalkInv
<1>e. \A c \in Clients : /\ joined[c] \in Nat /\ joined[c] < chunks'
                         /\ loaded[c] \in Nat /\ loaded[c] < chunks'
  BY <1>a, SMTT(20) DEF IInv, ControlInv, TypeOK, LoadedInv
<1>3. TodoInv'
  BY <1>a, <1>e DEF IInv, ControlInv, TodoInv, BeginAddChunk, Subscribers, InAddChunk
<1>4. PendingInv'
  <2>1. \A k \in TaskIds : tpc'[k] # "none" => k[2] <= calls
    BY DEF IInv, ControlInv, PendingInv, BeginAddChunk
  <2>2. ASSUME NEW c \in Clients PROVE tpc'[<<c, calls'>>] = "none"
    BY <1>a, <2>1
  <2>3. \A k \in TaskIds : tpc'[k] # "none" => k[2] <= calls'
    BY <1>a, <2>1
  <2>4. todo' \subseteq Clients
    BY DEF BeginAddChunk, Subscribers
  <2> QED
    BY <1>b, <2>2, <2>3, <2>4 DEF PendingInv
<1>5. HolderInv'
  BY DEF IInv, ControlInv, HolderInv, BeginAddChunk
<1>6. LocalsInv'
  BY <1>b DEF IInv, ControlInv, LocalsInv, BeginAddChunk, Pending
<1>7. LoadedInv'
  BY <1>a, <1>e DEF IInv, ControlInv, LoadedInv, BeginAddChunk
<1>8. ServedInv' /\ LeftInv'
  BY <1>a DEF IInv, ControlInv, TypeOK, ServedInv, LeftInv, LoadedInv, BeginAddChunk,
              Subscribers, Finishing
<1>9. CountInv' /\ InOrder'
  BY <1>a DEF IInv, CountInv, InOrder, BeginAddChunk, Subscribers
<1>10. FlagInv'
  BY <1>b, <1>d, FS_EmptySet DEF FlagInv, BeginAddChunk, IInv, TypeOK
<1> QED
  BY <1>1, <1>2, <1>3, <1>4, <1>5, <1>6, <1>7, <1>8, <1>9, <1>10 DEF IInv, ControlInv

\* __send_chunks turns one subscriber of todo into a queued task; nobody in
\* todo has every chunk, so the lock is not taken twice.
LEMMA SendChunksIInv ==
  ASSUME IInv, NEW c \in Clients, SendChunks(c)
  PROVE  IInv'
<1> DEFINE p == <<c, calls>>
<1>a. /\ p \in TaskIds /\ p[1] = c /\ p[2] = calls /\ mpc = "dispatch"
      /\ c \in todo /\ todo' = todo \ {c} /\ loaded[c] # chunks
  BY TaskIdFacts, MaxChunksAssumption
     DEF IInv, ControlInv, TypeOK, SendChunks, TodoInv, InAddChunk
<1>b. /\ mpc' = mpc /\ tpc' = [tpc EXCEPT ![p] = "queued"]
      /\ UNCHANGED <<managerVars, clientVars, next, last, cur, tmp>>
  BY <1>a DEF SendChunks
<1> HIDE DEF p
<1>c. /\ tpc[p] = "none" /\ tpc'[p] = "queued"
      /\ \A k \in TaskIds \ {p} : tpc'[k] = tpc[k]
  BY <1>a, <1>b DEF IInv, ControlInv, TypeOK, PendingInv, p
<1>d. Pending' = Pending \cup {p} /\ p \notin Pending
  BY <1>a, <1>c DEF Pending
<1> USE TaskIdFacts DEF managerVars, clientVars
<1>1. TypeOK'
  BY <1>a, <1>b DEF IInv, TypeOK
<1>2. LockedInv' /\ TodoInv' /\ LeftInv' /\ WalkInv' /\ LoadedInv'
  BY <1>a, <1>b DEF IInv, ControlInv, LockedInv, TodoInv, LeftInv, WalkInv, LoadedInv,
                    InAddChunk, Finishing
<1>3. PendingInv'
  <2>1. status[c] = "in" /\ joined[c] < chunks /\ calls \in Nat
    BY <1>a DEF IInv, ControlInv, TodoInv, TypeOK
  <2>2. \A k \in TaskIds : tpc'[k] # "none" => k[2] <= calls
    BY <1>a, <1>c, <2>1 DEF IInv, ControlInv, PendingInv
  <2>3. \A k \in Pending' : InAddChunk /\ k[2] = calls /\ status[k[1]] = "in"
                            /\ joined[k[1]] < chunks
    BY <1>a, <1>d, <2>1 DEF IInv, ControlInv, PendingInv, InAddChunk
  <2>4. ASSUME NEW d \in todo' PROVE tpc'[<<d, calls>>] = "none"
    <3>1. d # c /\ d \in todo /\ d \in Clients /\ <<d, calls>> # p
      BY <1>a DEF IInv, TypeOK, p
    <3>2. <<d, calls>> \in TaskIds
      BY <1>a, <3>1 DEF p, TaskIds
    <3> QED
      BY <1>c, <3>1, <3>2 DEF IInv, ControlInv, PendingInv
  <2> QED
    BY <1>b, <2>2, <2>3, <2>4 DEF PendingInv, InAddChunk
<1>4. HolderInv'
  BY <1>b, <1>c DEF IInv, ControlInv, HolderInv
<1>5. LocalsInv'
  BY <1>b, <1>c DEF IInv, ControlInv, LocalsInv
<1>6. ServedInv'
  <2>1. calls > 0
    BY <1>a DEF IInv, ControlInv, TodoInv, InAddChunk
  <2> QED
    BY <1>a, <1>b, <1>d, <2>1 DEF IInv, ControlInv, ServedInv, p
<1>7. CountInv' /\ InOrder'
  BY <1>a, <1>b DEF IInv, CountInv, InOrder, Subscribers
<1>8. FlagInv'
  <2>1. Cardinality(Pending') = Cardinality(Pending) + 1
    BY <1>d, Finiteness, FS_AddElement DEF Pending
  <2>2. Cardinality(todo') = Cardinality(todo) - 1
    <3>1. IsFiniteSet(todo)
      BY Finiteness DEF IInv, TypeOK
    <3> QED
      BY <1>a, <3>1, FS_RemoveElement
  <2>3. Cardinality(todo) \in Nat /\ Cardinality(Pending) \in Nat
    BY Finiteness DEF IInv, TypeOK, Pending
  <2> QED
    BY <1>b, <2>1, <2>2, <2>3 DEF IInv, FlagInv
<1> QED
  BY <1>1, <1>2, <1>3, <1>4, <1>5, <1>6, <1>7, <1>8 DEF IInv, ControlInv

\* add_chunk leaves its loop only when no task is pending.
LEMMA WaitForAllIInv ==
  ASSUME IInv, WaitForAll
  PROVE  IInv'
<1> USE DEF WaitForAll, clientVars, taskVars
<1>1. /\ HolderInv' /\ LocalsInv' /\ LoadedInv' /\ ServedInv'
      /\ FlagInv' /\ InOrder'
      /\ Pending' = Pending /\ Subscribers' = Subscribers
  BY MainOnly
<1>2. TypeOK' /\ CountInv'
  BY <1>1 DEF IInv, TypeOK, CountInv, MainPCs
<1>3. LockedInv' /\ TodoInv' /\ LeftInv' /\ WalkInv'
  BY DEF IInv, ControlInv, LockedInv, TodoInv, LeftInv, WalkInv, InAddChunk, Finishing
<1>4. mpc' = "fetch" => Pending = {}
  <2> SUFFICES ASSUME mpc' = "fetch" PROVE Pending = {}
    OBVIOUS
  <2>1. todo = {} /\ ~(flag > 0)
    BY DEF IInv, ControlInv, TodoInv
  <2>2. Cardinality(Pending) \in Nat /\ IsFiniteSet(Pending)
    BY Finiteness DEF Pending
  <2>3. Cardinality(Pending) = 0
    BY <2>1, <2>2, FS_EmptySet DEF IInv, FlagInv
  <2> QED
    BY <2>2, <2>3, FS_EmptySet
<1>5. PendingInv'
  BY <1>1, <1>4 DEF IInv, ControlInv, PendingInv, InAddChunk, TodoInv
<1> QED
  BY <1>1, <1>2, <1>3, <1>5 DEF IInv, ControlInv

\* A task that takes its subscriber's lock becomes its only holder.
LEMMA StartTaskIInv ==
  ASSUME IInv, NEW k \in TaskIds, StartTask(k)
  PROVE  IInv'
<1> USE TaskIdFacts DEF managerVars, mainVars
<1>a. /\ k \in Pending /\ k[1] \in Clients /\ status[k[1]] = "in"
      /\ holder[k[1]] = NoTask /\ loaded[k[1]] \in Nat /\ chunks \in Nat
      /\ loaded[k[1]] <= chunks
  BY DEF IInv, ControlInv, TypeOK, StartTask, Pending, PendingInv, LoadedInv
<1>b. /\ tpc'[k] = IF loaded[k[1]] < chunks THEN "send" ELSE "end"
      /\ next'[k] = loaded[k[1]] /\ last'[k] = chunks
      /\ \A j \in TaskIds \ {k} : tpc'[j] = tpc[j] /\ next'[j] = next[j] /\ last'[j] = last[j]
      /\ holder'[k[1]] = k
      /\ \A c \in Clients \ {k[1]} : holder'[c] = holder[c]
  BY DEF IInv, TypeOK, StartTask
<1>c. Pending' = Pending
  BY <1>a, <1>b DEF Pending
<1>1. TypeOK'
  BY <1>a DEF IInv, TypeOK, StartTask
<1>2. LockedInv' /\ TodoInv' /\ LoadedInv' /\ WalkInv'
  BY DEF IInv, ControlInv, StartTask, LockedInv, TodoInv, LoadedInv, WalkInv, InAddChunk
<1>3. PendingInv'
  <2>1. \A j \in TaskIds : tpc'[j] = "none" <=> tpc[j] = "none"
    BY <1>b DEF StartTask
  <2>2. \A c \in todo : <<c, calls>> \in TaskIds
    BY MaxChunksAssumption DEF IInv, ControlInv, TypeOK, TodoInv, InAddChunk, TaskIds
  <2> QED
    BY <1>c, <2>1, <2>2 DEF IInv, ControlInv, PendingInv, InAddChunk, StartTask
<1>4. HolderInv'
  <2> SUFFICES ASSUME NEW j \in TaskIds
               PROVE  tpc'[j] \in {"send", "end", "unlock"} <=> holder'[j[1]] = j
    BY DEF HolderInv
  <2>1. CASE j = k
    BY <1>b, <2>1
  <2>2. CASE j # k /\ j[1] = k[1]
    BY <1>a, <1>b, <2>2 DEF IInv, ControlInv, HolderInv
  <2>3. CASE j[1] # k[1]
    BY <1>b, <2>3 DEF IInv, ControlInv, HolderInv
  <2> QED
    BY <2>1, <2>2, <2>3
<1>5. LocalsInv'
  <2>1. UNCHANGED <<loaded, chunks, broken>>
    BY DEF StartTask
  <2>2. CASE loaded[k[1]] < chunks
    BY <1>b, <2>1, <2>2 DEF IInv, ControlInv, LocalsInv
  <2>3. CASE ~(loaded[k[1]] < chunks)
    BY <1>a, <1>b, <2>1, <2>3 DEF IInv, ControlInv, LocalsInv
  <2> QED
    BY <2>2, <2>3
<1>6. ServedInv'
  BY <1>c DEF IInv, ControlInv, ServedInv, StartTask
<1>7. LeftInv'
  BY <1>a, <1>b DEF IInv, ControlInv, LeftInv, StartTask, Finishing
<1>8. CountInv' /\ FlagInv' /\ InOrder'
  BY <1>c DEF IInv, CountInv, FlagInv, InOrder, StartTask, Subscribers
<1> QED
  BY <1>1, <1>2, <1>3, <1>4, <1>5, <1>6, <1>7, <1>8 DEF IInv, ControlInv

\* A send that succeeds delivers the next chunk; the task ends with the last.
LEMMA SendOkIInv ==
  ASSUME IInv, NEW k \in TaskIds, SendOk(k)
  PROVE  IInv'
<1> USE TaskIdFacts, MaxChunksAssumption DEF managerVars, mainVars
<1> DEFINE c == k[1]
           n == loaded[c]
<1>a. /\ k \in Pending /\ c \in Clients /\ status[c] = "in" /\ joined[c] < chunks
      /\ next[k] = n /\ last[k] = chunks /\ n < chunks /\ n \in Nat
      /\ chunks \in 0..MaxChunks /\ tpc[k] = "send" /\ c \notin todo
  <2>1. tpc[k] = "send" /\ k \in Pending /\ c \in Clients
    BY DEF SendOk, Pending
  <2>2. status[c] = "in" /\ joined[c] < chunks /\ k = <<c, calls>>
    BY <2>1 DEF IInv, ControlInv, PendingInv
  <2>3. c \notin todo
    BY <2>1, <2>2 DEF IInv, ControlInv, PendingInv
  <2>4. next[k] = n /\ last[k] = chunks /\ n < chunks
    BY <2>1 DEF IInv, ControlInv, LocalsInv
  <2> QED
    BY <2>1, <2>2, <2>3, <2>4 DEF IInv, TypeOK
<1>b. /\ tpc'[k] = IF n + 1 < chunks THEN "send" ELSE "end"
      /\ next'[k] = n + 1 /\ last' = last
      /\ \A j \in TaskIds \ {k} : tpc'[j] = tpc[j] /\ next'[j] = next[j]
      /\ loaded'[c] = n + 1
      /\ \A d \in Clients \ {c} : loaded'[d] = loaded[d]
      /\ received'[c] = Append(received[c], n + 1)
      /\ \A d \in Clients \ {c} : received'[d] = received[d]
      /\ UNCHANGED <<managerVars, status, joined, broken, holder, mainVars>>
  <2>1. /\ next'[k] = n + 1 /\ last' = last
        /\ \A j \in TaskIds \ {k} : tpc'[j] = tpc[j] /\ next'[j] = next[j]
    BY <1>a DEF IInv, TypeOK, SendOk
  <2>2. tpc'[k] = IF n + 1 < chunks THEN "send" ELSE "end"
    BY <1>a DEF IInv, TypeOK, SendOk
  <2>3. loaded'[c] = n + 1 /\ \A d \in Clients \ {c} : loaded'[d] = loaded[d]
    BY <1>a DEF IInv, TypeOK, SendOk
  <2>4. /\ received'[c] = Append(received[c], n + 1)
        /\ \A d \in Clients \ {c} : received'[d] = received[d]
    BY <1>a, SMTT(20) DEF IInv, TypeOK, SendOk
  <2> QED
    BY <2>1, <2>2, <2>3, <2>4 DEF SendOk
<1>c. Pending' = Pending
  BY <1>a, <1>b DEF Pending
<1>d. n + 1 \in 1..MaxChunks
  BY <1>a
<1> HIDE DEF n, c
<1>1. TypeOK'
  <2>1. received' \in [Clients -> Seq(1..MaxChunks)]
    BY <1>a, <1>d, SMTT(20) DEF IInv, TypeOK, SendOk, n, c
  <2>2. loaded' \in [Clients -> 0..MaxChunks] /\ next' \in [TaskIds -> 0..MaxChunks]
    BY <1>a, <1>d, SMTT(20) DEF IInv, TypeOK, SendOk, n, c
  <2>3. tpc' \in [TaskIds -> {"none", "queued", "send", "end", "unlock", "done"}]
    BY DEF IInv, TypeOK, SendOk
  <2> QED
    BY <1>b, <2>1, <2>2, <2>3 DEF IInv, TypeOK
<1>2. LockedInv' /\ WalkInv' /\ LeftInv'
  BY <1>b DEF IInv, ControlInv, LockedInv, WalkInv, LeftInv, Finishing
<1>3. TodoInv'
  BY <1>a, <1>b DEF IInv, ControlInv, TypeOK, TodoInv, InAddChunk
<1>4. PendingInv'
  <2>1. \A j \in TaskIds : tpc'[j] = "none" <=> tpc[j] = "none"
    BY <1>a, <1>b
  <2>2. \A d \in todo : <<d, calls>> \in TaskIds
    BY DEF IInv, ControlInv, TypeOK, TodoInv, InAddChunk, TaskIds
  <2> QED
    BY <1>b, <1>c, <2>1, <2>2 DEF IInv, ControlInv, PendingInv, InAddChunk
<1>5. HolderInv'
  <2>1. \A j \in TaskIds : tpc'[j] \in {"send", "end", "unlock"}
                           <=> tpc[j] \in {"send", "end", "unlock"}
    BY <1>a, <1>b
  <2> QED
    BY <1>b, <2>1 DEF IInv, ControlInv, HolderInv
<1>6. LocalsInv'
  <2> SUFFICES ASSUME NEW j \in TaskIds
               PROVE  /\ tpc'[j] = "send" => /\ next'[j] = loaded'[j[1]]
                                             /\ next'[j] < last'[j]
                                             /\ last'[j] = chunks'
                      /\ tpc'[j] = "end" => loaded'[j[1]] = chunks' \/ j[1] \in broken'
    BY DEF LocalsInv
  <2>1. CASE j = k
    BY <1>a, <1>b, <2>1 DEF c
  <2>2. CASE j # k /\ j[1] = c
    <3>1. tpc[j] \notin {"send", "end", "unlock"}
      BY <1>a, <2>2, OneHolder DEF IInv, ControlInv, c
    <3> QED
      BY <1>b, <2>2, <3>1
  <2>3. CASE j[1] # c
    BY <1>b, <2>3 DEF IInv, ControlInv, LocalsInv, c
  <2> QED
    BY <2>1, <2>2, <2>3
<1>7. LoadedInv'
  <2>1. ASSUME NEW d \in Clients, d # c
        PROVE  /\ joined'[d] <= chunks' /\ loaded'[d] <= chunks'
               /\ joined'[d] = chunks' => loaded'[d] = 0
               /\ status'[d] = "new" => joined'[d] = 0 /\ loaded'[d] = 0
    BY <1>b, <2>1 DEF IInv, ControlInv, LoadedInv
  <2>2. /\ joined'[c] <= chunks' /\ loaded'[c] <= chunks'
        /\ joined'[c] # chunks' /\ status'[c] # "new"
    <3>1. joined[c] \in Nat /\ chunks \in Nat
      BY <1>a DEF IInv, TypeOK
    <3> QED
      BY <1>a, <1>b, <3>1
  <2> QED
    BY <2>1, <2>2 DEF LoadedInv
<1>8. ServedInv'
  <2>1. k = <<c, calls>> /\ calls > 0
    BY <1>a DEF IInv, ControlInv, PendingInv, TodoInv, c
  <2>2. ASSUME NEW d \in Clients, d # c, status'[d] \in {"in", "out", "closed"},
               d \notin broken', joined'[d] < chunks'
        PROVE  loaded'[d] = chunks' \/ d \in todo' \/ (calls' > 0 /\ <<d, calls'>> \in Pending')
    BY <1>b, <1>c, <2>2 DEF IInv, ControlInv, ServedInv
  <2>3. calls' > 0 /\ <<c, calls'>> \in Pending'
    BY <1>a, <1>b, <1>c, <2>1
  <2> QED
    BY <2>2, <2>3 DEF ServedInv
<1>9. CountInv' /\ FlagInv'
  BY <1>b, <1>c DEF IInv, CountInv, FlagInv, Subscribers
<1>10. InOrder'
  <2>1. Append(received[c], n + 1) = [i \in 1..(n + 1) |-> i]
    <3>1. received[c] = [i \in 1..n |-> i] /\ received[c] \in Seq(1..MaxChunks)
      BY <1>a DEF IInv, InOrder, TypeOK, n
    <3>2. Len(received[c]) = n
      BY <1>a, <3>1
    <3>3. /\ Append(received[c], n + 1) \in Seq(1..MaxChunks)
          /\ Len(Append(received[c], n + 1)) = n + 1
          /\ \A i \in 1..(n + 1) : Append(received[c], n + 1)[i] = i
      BY <1>a, <1>d, <3>1, <3>2
    <3> QED
      BY <1>a, <3>3
  <2> QED
    BY <1>a, <1>b, <2>1 DEF IInv, InOrder
<1> QED
  BY <1>1, <1>2, <1>3, <1>4, <1>5, <1>6, <1>7, <1>8, <1>9, <1>10 DEF IInv, ControlInv

\* A send that fails marks the client broken and ends the task.
LEMMA SendErrorIInv ==
  ASSUME IInv, NEW k \in TaskIds, SendError(k)
  PROVE  IInv'
<1> USE TaskIdFacts, MaxChunksAssumption DEF managerVars, mainVars
<1>a. /\ k \in Pending /\ k[1] \in Clients /\ tpc[k] = "send" /\ tpc'[k] = "end"
      /\ \A j \in TaskIds \ {k} : tpc'[j] = tpc[j]
      /\ broken' = broken \cup {k[1]}
      /\ UNCHANGED <<managerVars, status, joined, loaded, received, holder,
                     next, last, mainVars>>
  BY DEF IInv, TypeOK, SendError, Pending
<1>b. Pending' = Pending
  BY <1>a DEF Pending
<1>1. TypeOK'
  <2>1. tpc' \in [TaskIds -> {"none", "queued", "send", "end", "unlock", "done"}]
    BY DEF IInv, TypeOK, SendError
  <2>2. broken' \in SUBSET Clients
    BY <1>a DEF IInv, TypeOK
  <2> QED
    BY <1>a, <2>1, <2>2 DEF IInv, TypeOK
<1>2. LockedInv' /\ WalkInv' /\ LeftInv' /\ TodoInv' /\ LoadedInv'
  BY <1>a DEF IInv, ControlInv, LockedInv, WalkInv, LeftInv, TodoInv, LoadedInv,
              Finishing, InAddChunk
<1>3. PendingInv'
  <2>1. \A j \in TaskIds : tpc'[j] = "none" <=> tpc[j] = "none"
    BY <1>a
  <2>2. \A d \in todo : <<d, calls>> \in TaskIds
    BY DEF IInv, ControlInv, TypeOK, TodoInv, InAddChunk, TaskIds
  <2> QED
    BY <1>a, <1>b, <2>1, <2>2 DEF IInv, ControlInv, PendingInv, InAddChunk
<1>4. HolderInv'
  <2>1. \A j \in TaskIds : tpc'[j] \in {"send", "end", "unlock"}
                           <=> tpc[j] \in {"send", "end", "unlock"}
    BY <1>a
  <2> QED
    BY <1>a, <2>1 DEF IInv, ControlInv, HolderInv
<1>5. LocalsInv'
  BY <1>a DEF IInv, ControlInv, LocalsInv
<1>6. ServedInv'
  BY <1>a, <1>b DEF IInv, ControlInv, ServedInv
<1>7. CountInv' /\ FlagInv' /\ InOrder'
  BY <1>a, <1>b DEF IInv, CountInv, FlagInv, InOrder, Subscribers
<1> QED
  BY <1>1, <1>2, <1>3, <1>4, <1>5, <1>6, <1>7 DEF IInv, ControlInv

\* A task leaves Pending and decrements flag in one critical section.
LEMMA FinishTaskIInv ==
  ASSUME IInv, FewClients, NEW k \in TaskIds, FinishTask(k)
  PROVE  IInv'
<1> USE TaskIdFacts, MaxChunksAssumption DEF clientVars
<1>a. /\ k \in Pending /\ k[1] \in Clients /\ tpc[k] = "end" /\ tpc'[k] = "unlock"
      /\ \A j \in TaskIds \ {k} : tpc'[j] = tpc[j]
      /\ mpc' = (IF mpc = "waiting" THEN "woken" ELSE mpc)
      /\ UNCHANGED <<count, locked, chunks, calls, clientVars, next, last, todo, cur, tmp>>
  BY DEF IInv, TypeOK, FinishTask, Pending
<1>b. Pending' = Pending \ {k}
  BY <1>a DEF Pending
<1>c. flag' = flag - 1 /\ flag' = Cardinality(Pending') + Cardinality(todo')
  <2>0. IsFiniteSet(Pending)
    BY Finiteness DEF Pending
  <2>1. Cardinality(Pending') = Cardinality(Pending) - 1
    BY <1>a, <1>b, <2>0, FS_RemoveElement
  <2>2. Cardinality(Pending') \in Nat /\ Cardinality(todo) \in Nat
    BY Finiteness DEF Pending, IInv, TypeOK
  <2>3. flag = Cardinality(Pending) + Cardinality(todo)
    BY DEF IInv, FlagInv
  <2>4. flag - 1 \in 0..CharMax
    <3>1. flag \in Int /\ flag <= CharMax
      BY CharMaxAssumption DEF IInv, TypeOK
    <3>2. flag - 1 = Cardinality(Pending') + Cardinality(todo)
      BY <2>0, <2>1, <2>2, <2>3, FS_CardinalityType
    <3> QED
      BY <2>2, <3>1, <3>2, CharMaxAssumption
  <2>5. Char(flag - 1) = flag - 1
    BY <2>4, CharKeeps
  <2> QED
    BY <1>a, <2>1, <2>2, <2>3, <2>5, Finiteness DEF FinishTask, Pending
<1>1. TypeOK'
  <2>1. tpc' \in [TaskIds -> {"none", "queued", "send", "end", "unlock", "done"}]
    BY DEF IInv, TypeOK, FinishTask
  <2>2. flag' \in -(CharMax + 1)..CharMax
    BY CharType, SMTT(20) DEF IInv, TypeOK, FinishTask
  <2>3. mpc' \in MainPCs
    BY <1>a DEF IInv, TypeOK, MainPCs
  <2> QED
    BY <1>a, <2>1, <2>2, <2>3 DEF IInv, TypeOK
<1>2. LockedInv' /\ WalkInv' /\ LeftInv' /\ TodoInv' /\ LoadedInv'
  BY <1>a DEF IInv, ControlInv, LockedInv, WalkInv, LeftInv, TodoInv, LoadedInv,
              Finishing, InAddChunk
<1>3. PendingInv'
  <2>1. \A j \in TaskIds : tpc'[j] = "none" <=> tpc[j] = "none"
    BY <1>a
  <2>2. \A d \in todo : <<d, calls>> \in TaskIds
    BY DEF IInv, ControlInv, TypeOK, TodoInv, InAddChunk, TaskIds
  <2> QED
    BY <1>a, <1>b, <2>1, <2>2 DEF IInv, ControlInv, PendingInv, InAddChunk
<1>4. HolderInv'
  <2>1. \A j \in TaskIds : tpc'[j] \in {"send", "end", "unlock"}
                           <=> tpc[j] \in {"send", "end", "unlock"}
    BY <1>a
  <2> QED
    BY <1>a, <2>1 DEF IInv, ControlInv, HolderInv
<1>5. LocalsInv'
  BY <1>a DEF IInv, ControlInv, LocalsInv
<1>6. ServedInv'
  <2>1. loaded[k[1]] = chunks \/ k[1] \in broken
    BY <1>a DEF IInv, ControlInv, LocalsInv
  <2>2. \A d \in Clients : d # k[1] => <<d, calls>> # k
    OBVIOUS
  <2> QED
    BY <1>a, <1>b, <2>1, <2>2 DEF IInv, ControlInv, ServedInv
<1>7. CountInv' /\ InOrder'
  BY <1>a DEF IInv, CountInv, InOrder, Subscribers
<1>8. FlagInv'
  BY <1>c DEF FlagInv
<1> QED
  BY <1>1, <1>2, <1>3, <1>4, <1>5, <1>6, <1>7, <1>8 DEF IInv, ControlInv

\* A task releases its subscriber after its last use of it.
LEMMA UnlockSubscriberIInv ==
  ASSUME IInv, NEW k \in TaskIds, UnlockSubscriber(k)
  PROVE  IInv'
<1> USE TaskIdFacts, MaxChunksAssumption DEF managerVars, mainVars
<1>a. /\ k[1] \in Clients /\ tpc[k] = "unlock" /\ tpc'[k] = "done"
      /\ \A j \in TaskIds \ {k} : tpc'[j] = tpc[j]
      /\ holder'[k[1]] = NoTask
      /\ \A d \in Clients \ {k[1]} : holder'[d] = holder[d]
      /\ UNCHANGED <<managerVars, status, joined, loaded, received, broken,
                     next, last, mainVars>>
  BY DEF IInv, TypeOK, UnlockSubscriber
<1>b. Pending' = Pending
  BY <1>a DEF Pending
<1>1. TypeOK'
  BY DEF IInv, TypeOK, UnlockSubscriber
<1>2. LockedInv' /\ WalkInv' /\ TodoInv' /\ LoadedInv'
  BY <1>a DEF IInv, ControlInv, LockedInv, WalkInv, TodoInv, LoadedInv, InAddChunk
<1>3. PendingInv'
  <2>1. \A j \in TaskIds : tpc'[j] = "none" <=> tpc[j] = "none"
    BY <1>a
  <2>2. \A d \in todo : <<d, calls>> \in TaskIds
    BY DEF IInv, ControlInv, TypeOK, TodoInv, InAddChunk, TaskIds
  <2> QED
    BY <1>a, <1>b, <2>1, <2>2 DEF IInv, ControlInv, PendingInv, InAddChunk
<1>4. HolderInv'
  <2> SUFFICES ASSUME NEW j \in TaskIds
               PROVE  tpc'[j] \in {"send", "end", "unlock"} <=> holder'[j[1]] = j
    BY DEF HolderInv
  <2>1. CASE j = k
    BY <1>a, <2>1
  <2>2. CASE j # k /\ j[1] = k[1]
    <3>1. tpc[j] \notin {"send", "end", "unlock"}
      BY <1>a, <2>2, OneHolder DEF IInv, ControlInv
    <3> QED
      BY <1>a, <2>2, <3>1
  <2>3. CASE j[1] # k[1]
    BY <1>a, <2>3 DEF IInv, ControlInv, HolderInv
  <2> QED
    BY <2>1, <2>2, <2>3
<1>5. LocalsInv'
  BY <1>a DEF IInv, ControlInv, LocalsInv
<1>6. ServedInv' /\ LeftInv'
  BY <1>a, <1>b DEF IInv, ControlInv, ServedInv, LeftInv, Finishing
<1>7. CountInv' /\ FlagInv' /\ InOrder'
  BY <1>a, <1>b DEF IInv, CountInv, FlagInv, InOrder, Subscribers
<1> QED
  BY <1>1, <1>2, <1>3, <1>4, <1>5, <1>6, <1>7 DEF IInv, ControlInv

\* unsubscribe takes the subscriber of the walk out of the list.
LEMMA UnlinkIInv ==
  ASSUME IInv, Unlink
  PROVE  IInv'
<1> USE TaskIdFacts, ClientsAssumption DEF taskVars
<1>a. /\ mpc = "unsub" /\ mpc' = "close" /\ locked' = TRUE
      /\ cur \in Clients /\ status[cur] = "in" /\ status'[cur] = "out"
      /\ \A c \in Clients \ {cur} : status'[c] = status[c]
      /\ UNCHANGED <<count, flag, chunks, calls, joined, loaded, received, broken,
                     holder, taskVars, todo, cur, tmp>>
  BY DEF IInv, ControlInv, TypeOK, WalkInv, Unlink
<1>b. Pending = {} /\ Pending' = {} /\ todo = {}
  BY <1>a DEF IInv, ControlInv, PendingInv, TodoInv, InAddChunk, Pending
<1>1. TypeOK'
  <2>1. status' \in [Clients -> {"new", "in", "out", "closed"}]
    BY DEF IInv, TypeOK, Unlink
  <2> QED
    BY <1>a, <2>1 DEF IInv, TypeOK, MainPCs
<1>2. LockedInv' /\ TodoInv'
  BY <1>a, <1>b DEF IInv, ControlInv, LockedInv, TodoInv, InAddChunk
<1>3. WalkInv'
  BY <1>a DEF IInv, ControlInv, TypeOK, WalkInv
<1>4. PendingInv' /\ HolderInv' /\ LocalsInv'
  BY <1>a, <1>b DEF IInv, ControlInv, PendingInv, HolderInv, LocalsInv
<1>5. LoadedInv'
  BY <1>a DEF IInv, ControlInv, LoadedInv
<1>6. ServedInv'
  BY <1>a, <1>b DEF IInv, ControlInv, ServedInv, TypeOK
<1>7. LeftInv'
  BY <1>a DEF IInv, ControlInv, LeftInv, Finishing
<1>8. CountInv'
  <2>1. Subscribers' = Subscribers \ {cur} /\ cur \in Subscribers
    BY <1>a DEF Subscribers
  <2>2. /\ Cardinality(Subscribers') = Cardinality(Subscribers) - 1
        /\ Cardinality(Subscribers) \in Nat
    <3>1. IsFiniteSet(Subscribers)
      BY Finiteness DEF Subscribers
    <3> QED
      BY <2>1, <3>1, FS_RemoveElement, FS_CardinalityType
  <2> QED
    BY <1>a, <2>2 DEF IInv, CountInv
<1>9. FlagInv' /\ InOrder'
  BY <1>a, <1>b DEF IInv, FlagInv, InOrder
<1> QED
  BY <1>1, <1>2, <1>3, <1>4, <1>5, <1>6, <1>7, <1>8, <1>9 DEF IInv, ControlInv

\* unsubscribe frees a subscriber whose lock nobody holds.
LEMMA CloseIInv ==
  ASSUME IInv, Close
  PROVE  IInv'
<1> USE TaskIdFacts, ClientsAssumption DEF taskVars
<1>a. /\ mpc = "close" /\ mpc' = "finish" /\ locked' = FALSE
      /\ cur \in Clients /\ status[cur] = "out" /\ status'[cur] = "closed"
      /\ cur' = tmp /\ holder[cur] = NoTask /\ count' = count - 1
      /\ \A c \in Clients \ {cur} : status'[c] = status[c]
      /\ UNCHANGED <<flag, chunks, calls, joined, loaded, received, broken, holder,
                     taskVars, todo, tmp>>
  BY DEF IInv, ControlInv, TypeOK, WalkInv, Close
<1>b. Pending = {} /\ Pending' = {} /\ todo = {}
  BY <1>a DEF IInv, ControlInv, PendingInv, TodoInv, InAddChunk, Pending
<1>c. Subscribers' = Subscribers /\ Cardinality(Subscribers) \in Nat
  BY <1>a, Finiteness DEF Subscribers
<1>1. TypeOK'
  <2>1. status' \in [Clients -> {"new", "in", "out", "closed"}]
    BY DEF IInv, TypeOK, Close
  <2>2. count' \in Nat
    BY <1>a, <1>c DEF IInv, CountInv
  <2> QED
    BY <1>a, <2>1, <2>2 DEF IInv, TypeOK, MainPCs
<1>2. LockedInv' /\ TodoInv'
  BY <1>a, <1>b DEF IInv, ControlInv, LockedInv, TodoInv, InAddChunk
<1>3. WalkInv'
  BY <1>a DEF IInv, ControlInv, TypeOK, WalkInv
<1>4. PendingInv' /\ HolderInv' /\ LocalsInv'
  BY <1>a, <1>b DEF IInv, ControlInv, PendingInv, HolderInv, LocalsInv
<1>5. LoadedInv'
  BY <1>a DEF IInv, ControlInv, LoadedInv
<1>6. ServedInv'
  BY <1>a, <1>b DEF IInv, ControlInv, ServedInv, TypeOK
<1>7. LeftInv'
  BY <1>a DEF IInv, ControlInv, LeftInv, Finishing
<1>8. CountInv'
  BY <1>a, <1>c DEF IInv, CountInv, TypeOK
<1>9. FlagInv' /\ InOrder'
  BY <1>a, <1>b DEF IInv, FlagInv, InOrder
<1> QED
  BY <1>1, <1>2, <1>3, <1>4, <1>5, <1>6, <1>7, <1>8, <1>9 DEF IInv, ControlInv

\* Every step of the clients, the tasks and the main thread preserves it.
LEMMA NextIInv ==
  ASSUME FewClients, IInv, [Next]_vars
  PROVE  IInv'
<1>1. CASE UNCHANGED vars
  <2>1. UNCHANGED <<clientVars, taskVars, flag, chunks, calls, todo>>
    BY <1>1 DEF vars, managerVars, mainVars
  <2>2. /\ HolderInv' /\ LocalsInv' /\ LoadedInv' /\ ServedInv'
        /\ FlagInv' /\ InOrder'
        /\ Pending' = Pending /\ Subscribers' = Subscribers
    BY <2>1, MainOnly
  <2>3. TypeOK' /\ LockedInv' /\ TodoInv' /\ LeftInv' /\ WalkInv'
    BY <1>1 DEF IInv, ControlInv, vars, managerVars, clientVars, taskVars, mainVars,
       TypeOK, LockedInv, TodoInv, LeftInv, WalkInv, InAddChunk, Finishing
  <2>4. PendingInv' /\ CountInv'
    BY <1>1, <2>2 DEF IInv, ControlInv, vars, managerVars, clientVars, taskVars,
       mainVars, PendingInv, CountInv, InAddChunk
  <2> QED
    BY <2>2, <2>3, <2>4 DEF IInv, ControlInv
<1>2. CASE \E c \in Clients : Subscribe(c)
  BY <1>2, SubscribeIInv
<1>3. CASE \E k \in TaskIds : TaskStep(k)
  BY <1>3, StartTaskIInv, SendOkIInv, SendErrorIInv, FinishTaskIInv,
     UnlockSubscriberIInv DEF TaskStep
<1>4. CASE MainStep \/ SpuriousWakeup
  BY <1>4, ControlStepIInv, BeginAddChunkIInv, SendChunksIInv, WaitForAllIInv,
     UnlinkIInv, CloseIInv DEF MainStep
<1> QED
  BY <1>1, <1>2, <1>3, <1>4 DEF Next, Over

-----------------------------------------------------------------------------
\* The invariant holds throughout every session with no more subscribers than
\* a char can count.
THEOREM Invariance ==
  ASSUME FewClients
  PROVE  Spec => []IInv
BY InitIInv, NextIInv, PTL DEF Spec

\* subscription.c: the manager's state keeps its type.
THEOREM TypeCorrect ==
  ASSUME FewClients
  PROVE  Spec => []TypeOK
BY Invariance, PTL DEF IInv

\* subscription.c: add_chunk's barrier waits for every upload task it pushed,
\* and every subscriber it served has every chunk, for any number of chunks
\* and up to CharMax clients.
THEOREM BarrierWaits ==
  ASSUME FewClients
  PROVE  Spec => []WaitsForAll
<1>1. IInv => WaitsForAll
  <2> SUFFICES ASSUME IInv, ~InAddChunk, mpc # "stuck" PROVE
        /\ Pending = {}
        /\ \A c \in Subscribers \ broken : joined[c] < chunks => loaded[c] = chunks
    BY DEF WaitsForAll
  <2>1. Pending = {} /\ todo = {}
    BY DEF IInv, ControlInv, PendingInv, TodoInv, InAddChunk
  <2> QED
    BY <2>1 DEF IInv, ControlInv, ServedInv, Subscribers
<1> QED
  BY <1>1, Invariance, PTL

\* subscription.c: flag counts the upload tasks that have not finished.
THEOREM FlagCounts ==
  ASSUME FewClients
  PROVE  Spec => []FlagCountsTasks
<1>1. IInv => FlagCountsTasks
  BY DEF IInv, FlagInv, FlagCountsTasks
<1> QED
  BY <1>1, Invariance, PTL

\* subscription.c: no upload task outlives its subscriber or the manager.
THEOREM TasksOnLiveMemory ==
  ASSUME FewClients
  PROVE  Spec => []NoUseAfterFree
<1>1. IInv => NoUseAfterFree
  <2> SUFFICES ASSUME IInv, NEW k \in TaskIds
               PROVE  /\ tpc[k] \in {"queued", "send", "end", "unlock"}
                           => status[k[1]] # "closed"
                      /\ tpc[k] \in {"queued", "send", "end"} => mpc # "freed"
    BY DEF NoUseAfterFree
  <2>1. CASE k \in Pending
    BY <2>1 DEF IInv, ControlInv, PendingInv, InAddChunk, Pending
  <2>2. CASE tpc[k] = "unlock"
    BY <2>2, TaskIdFacts DEF IInv, ControlInv, HolderInv, LeftInv
  <2> QED
    BY <2>1, <2>2 DEF Pending
<1> QED
  BY <1>1, Invariance, PTL

\* subscription.c: every client is sent the chunks in order, once each.
THEOREM ChunksInOrder ==
  ASSUME FewClients
  PROVE  Spec => []InOrder
BY Invariance, PTL DEF IInv

\* subscription.c: a client whose connection held is closed with the whole
\* response, or with nothing if it subscribed after the last chunk.
THEOREM ClosedWhole ==
  ASSUME FewClients
  PROVE  Spec => []WholeOrNothing
<1>1. IInv => WholeOrNothing
  <2> SUFFICES ASSUME IInv, NEW c \in Clients, status[c] = "closed", c \notin broken
               PROVE  loaded[c] = IF joined[c] < chunks THEN chunks ELSE 0
    BY DEF WholeOrNothing
  <2>1. Pending = {} /\ todo = {}
    BY DEF IInv, ControlInv, PendingInv, TodoInv, LeftInv, InAddChunk, Finishing
  <2>2. joined[c] <= chunks /\ (joined[c] = chunks => loaded[c] = 0)
        /\ joined[c] \in Nat /\ chunks \in Nat
    BY DEF IInv, ControlInv, LoadedInv, TypeOK
  <2>3. CASE joined[c] < chunks
    BY <2>1, <2>3 DEF IInv, ControlInv, ServedInv
  <2>4. CASE ~(joined[c] < chunks)
    BY <2>2, <2>4
  <2> QED
    BY <2>3, <2>4
<1> QED
  BY <1>1, Invariance, PTL

-----------------------------------------------------------------------------
\* Whom finish_pending_chunks no longer visits: once it has read a tmp of NULL,
\* the subscribers besides its own are those that came behind the last chunk.
\* destroy_subscription_manager blocks on nobody else.
LateInv ==
  /\ (mpc = "finish" /\ cur = NoClient) \/ mpc = "destroy" =>
       \A c \in Subscribers : joined[c] = chunks
  /\ mpc \in {"unsub", "close"} /\ tmp = NoClient =>
       \A c \in Subscribers \ {cur} : joined[c] = chunks
  /\ mpc = "stuck" => \E c \in Subscribers : joined[c] = chunks

\* Every step preserves it, next to the invariant above.
LEMMA LateStep ==
  ASSUME IInv, LateInv, [Next]_vars
  PROVE  LateInv'
<1>1. ASSUME UNCHANGED <<status, joined, chunks, cur, tmp>>,
             mpc' = mpc \/ mpc' \notin {"finish", "destroy", "unsub", "close", "stuck"}
      PROVE  LateInv'
  BY <1>1 DEF LateInv, Subscribers
<1>2. CASE UNCHANGED vars
  BY <1>1, <1>2 DEF vars, managerVars, clientVars, mainVars
<1>3. CASE \E c \in Clients : Subscribe(c)
  <2> PICK c \in Clients : Subscribe(c)
    BY <1>3
  <2>1. /\ mpc # "stuck" /\ UNCHANGED <<mpc, cur, tmp, chunks>>
        /\ Subscribers' = Subscribers \cup {c}
        /\ joined'[c] = chunks
        /\ \A d \in Clients : d # c => joined'[d] = joined[d]
    BY DEF Subscribe, Subscribers, mainVars, IInv, ControlInv, LockedInv, TypeOK
  <2>2. Subscribers \subseteq Clients
    BY DEF Subscribers
  <2> QED
    BY <2>1, <2>2 DEF LateInv
<1>4. CASE \E k \in TaskIds : TaskStep(k)
  <2> PICK k \in TaskIds : TaskStep(k)
    BY <1>4
  <2>1. UNCHANGED <<status, joined, chunks, cur, tmp>>
    BY DEF TaskStep, StartTask, SendOk, SendError, FinishTask, UnlockSubscriber,
           managerVars, clientVars, mainVars
  <2>2. mpc' = mpc \/ mpc' = "woken"
    BY DEF TaskStep, StartTask, SendOk, SendError, FinishTask, UnlockSubscriber, mainVars
  <2> QED
    BY <1>1, <2>1, <2>2
<1>5. CASE \/ BecomeMain \/ EndSendChunks \/ WaitForAll \/ Relock \/ SpuriousWakeup
  BY <1>1, <1>5 DEF BecomeMain, EndSendChunks, WaitForAll, Relock, SpuriousWakeup,
                    managerVars, clientVars
<1>6. CASE \E c \in Clients : SendChunks(c)
  <2> PICK c \in Clients : SendChunks(c)
    BY <1>6
  <2>1. loaded[c] # chunks
    BY DEF SendChunks, IInv, ControlInv, TodoInv, TypeOK
  <2> QED
    BY <1>1, <2>1 DEF SendChunks, managerVars, clientVars
<1>7. CASE BeginAddChunk
  BY <1>7 DEF BeginAddChunk, LateInv
<1>8. CASE Finish
  <2>1. /\ mpc' = "finish" /\ UNCHANGED <<status, joined, chunks>>
        /\ Subscribers = {} \/ cur' \in Subscribers
    BY <1>8 DEF Finish, managerVars, clientVars
  <2>2. NoClient \notin Subscribers /\ Subscribers' = Subscribers
    BY <2>1, ClientsAssumption DEF Subscribers
  <2> QED
    BY <2>1, <2>2 DEF LateInv
<1>9. CASE ReadNext
  <2>1. /\ mpc' = "unsub" /\ UNCHANGED <<status, joined, chunks, cur>>
        /\ Subscribers = {cur} \/ tmp' \in Subscribers
    BY <1>9 DEF ReadNext, managerVars, clientVars
  <2>2. NoClient \notin Subscribers /\ Subscribers' = Subscribers
    BY <2>1, ClientsAssumption DEF Subscribers
  <2> QED
    BY <2>1, <2>2 DEF LateInv
<1>10. CASE Unlink
  <2>1. /\ mpc = "unsub" /\ mpc' = "close" /\ UNCHANGED <<joined, chunks, cur, tmp>>
    BY <1>10 DEF Unlink
  <2>2. Subscribers' \subseteq Subscribers
    BY <1>10 DEF Unlink, Subscribers, IInv, TypeOK
  <2> QED
    BY <2>1, <2>2 DEF LateInv
<1>11. CASE Close
  <2>1. /\ mpc = "close" /\ mpc' = "finish" /\ UNCHANGED <<joined, chunks, tmp>> /\ cur' = tmp
    BY <1>11 DEF Close
  <2>2. Subscribers' \subseteq Subscribers \ {cur}
    BY <1>11 DEF Close, Subscribers, IInv, TypeOK
  <2> QED
    BY <2>1, <2>2 DEF LateInv
<1>12. CASE EndFinish
  <2>1. /\ mpc = "finish" /\ cur = NoClient /\ mpc' = "destroy"
        /\ UNCHANGED <<status, joined, chunks, cur, tmp>>
    BY <1>12 DEF EndFinish, managerVars, clientVars
  <2> QED
    BY <2>1 DEF LateInv, Subscribers
<1>13. CASE Destroy
  <2>1. /\ mpc = "destroy" /\ mpc' \in {"freed", "stuck"}
        /\ mpc' = "stuck" => Subscribers # {}
        /\ UNCHANGED <<status, joined, chunks, cur, tmp>>
    BY <1>13 DEF Destroy, clientVars
  <2> QED
    BY <2>1 DEF LateInv, Subscribers
<1> QED
  BY <1>2, <1>3, <1>4, <1>5, <1>6, <1>7, <1>8, <1>9, <1>10, <1>11, <1>12, <1>13
     DEF Next, Over, MainStep

\* subscription.c: the main thread blocks on its own lock only for a client that
\* came behind the last chunk, and with no upload task left.
THEOREM RelocksForLate ==
  ASSUME FewClients
  PROVE  Spec => []RelocksOnlyForLate
<1>1. Init => LateInv
  BY DEF Init, LateInv
<1>2. IInv /\ LateInv => RelocksOnlyForLate
  <2> SUFFICES ASSUME IInv, LateInv, mpc = "stuck"
               PROVE  /\ Pending = {} /\ flag = 0
                      /\ \E c \in Subscribers : joined[c] = chunks
    BY DEF RelocksOnlyForLate
  <2>1. Pending = {} /\ todo = {}
    BY DEF IInv, ControlInv, PendingInv, TodoInv, InAddChunk
  <2>2. flag = 0
    BY <2>1, FS_EmptySet DEF IInv, FlagInv
  <2> QED
    BY <2>1, <2>2 DEF LateInv
<1> QED
  BY <1>1, <1>2, LateStep, Invariance, PTL DEF Spec
===============================================================================
