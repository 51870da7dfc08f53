----------------------------- MODULE Subscription -----------------------------
(***************************************************************************)
(* One subscription manager of the caching proxy                           *)
(* (lab3/src/chunk/subscription.c): the session main thread adds the       *)
(* chunks of a response one by one, an upload task per subscriber sends    *)
(* them, and add_chunk waits for all of these tasks before it returns.     *)
(*                                                                         *)
(* A critical section of manager->lock that cannot block is one action;    *)
(* the main thread's sections span several, so locked says when it holds   *)
(* the lock.  The subscriber list is the set of clients with status "in":  *)
(* its order only orders tasks that the upload pool may run in any order.  *)
(* Allocations succeed.                                                    *)
(***************************************************************************)
EXTENDS Integers, Sequences, FiniteSets

CONSTANTS Clients,    \* connections that ask for this path
          NoClient,   \* NULL subscriber
          MaxChunks,  \* bound on the calls of add_chunk
          CharMax     \* largest value of a char, the type of manager->flag

ASSUME ClientsAssumption == IsFiniteSet(Clients) /\ NoClient \notin Clients
ASSUME MaxChunksAssumption == MaxChunks \in Nat
ASSUME CharMaxAssumption == CharMax \in Nat

\* An upload task: the subscriber it serves and the call that pushed it.
TaskIds == Clients \X (1..MaxChunks)
NoTask == <<NoClient, 0>>

VARIABLES
  status,    \* per client: "new", "in" the list, "out" of it, or "closed"
  joined,    \* per client: container->count when it subscribed
  count,     \* manager->subscribers_count
  flag,      \* manager->flag
  locked,    \* the main thread holds manager->lock
  chunks,    \* container->count
  calls,     \* calls of add_chunk so far
  loaded,    \* per client: subscriber->chunk_loaded
  received,  \* per client: the chunks its socket was given
  broken,    \* clients whose connection failed
  holder,    \* per client: the task that holds subscriber->lock
  tpc,       \* per task: "none", "queued", "send", "end", "unlock" or "done"
  next,      \* per task: the loop variable i
  last,      \* per task: last_chunk
  mpc,       \* the main thread
  todo,      \* subscribers __send_chunks has not visited
  cur, tmp   \* finish_pending_chunks: subscriber and tmp

managerVars == <<count, flag, locked, chunks, calls>>
clientVars == <<status, joined, loaded, received, broken, holder>>
taskVars == <<tpc, next, last>>
mainVars == <<mpc, todo, cur, tmp>>
vars == <<managerVars, clientVars, taskVars, mainVars>>

MainPCs == {"idle", "fetch", "dispatch", "check", "waiting", "woken",
            "finish", "unsub", "close", "destroy", "stuck", "freed"}

\* The conversion of an int to a signed char.
Char(n) == ((n + CharMax + 1) % (2 * (CharMax + 1))) - (CharMax + 1)

TypeOK ==
  /\ status \in [Clients -> {"new", "in", "out", "closed"}]
  /\ joined \in [Clients -> 0..MaxChunks]
  /\ count \in Nat
  /\ flag \in -(CharMax + 1)..CharMax
  /\ locked \in BOOLEAN
  /\ chunks \in 0..MaxChunks
  /\ calls \in 0..MaxChunks
  /\ loaded \in [Clients -> 0..MaxChunks]
  /\ received \in [Clients -> Seq(1..MaxChunks)]
  /\ broken \in SUBSET Clients
  /\ holder \in [Clients -> TaskIds \cup {NoTask}]
  /\ tpc \in [TaskIds -> {"none", "queued", "send", "end", "unlock", "done"}]
  /\ next \in [TaskIds -> 0..MaxChunks]
  /\ last \in [TaskIds -> 0..MaxChunks]
  /\ mpc \in MainPCs
  /\ todo \in SUBSET Clients
  /\ cur \in Clients \cup {NoClient}
  /\ tmp \in Clients \cup {NoClient}

\* create_subscription_manager, its result already in the map.
Init ==
  /\ status = [c \in Clients |-> "new"]
  /\ joined = [c \in Clients |-> 0]
  /\ count = 0
  /\ flag = 0
  /\ locked = FALSE
  /\ chunks = 0
  /\ calls = 0
  /\ loaded = [c \in Clients |-> 0]
  /\ received = [c \in Clients |-> <<>>]
  /\ broken = {}
  /\ holder = [c \in Clients |-> NoTask]
  /\ tpc = [k \in TaskIds |-> "none"]
  /\ next = [k \in TaskIds |-> 0]
  /\ last = [k \in TaskIds |-> 0]
  /\ mpc = "idle"
  /\ todo = {}
  /\ cur = NoClient
  /\ tmp = NoClient

Subscribers == {c \in Clients : status[c] = "in"}

-----------------------------------------------------------------------------
(* The handlers of the clients *)

\* subscribe, by the handler of c, which found the manager in the map.
Subscribe(c) ==
  /\ status[c] = "new"
  /\ ~locked
  /\ mpc # "freed"
  /\ status' = [status EXCEPT ![c] = "in"]
  /\ joined' = [joined EXCEPT ![c] = chunks]
  /\ count' = count + 1
  /\ UNCHANGED <<flag, locked, chunks, calls, loaded, received, broken, holder,
                 taskVars, mainVars>>

\* One subscriber's handler wins cas(&manager->is_busy, 0, 1) and becomes the
\* session main thread; the handlers that lose return.
BecomeMain ==
  /\ mpc = "idle"
  /\ Subscribers # {}
  /\ mpc' = "fetch"
  /\ UNCHANGED <<managerVars, clientVars, taskVars, todo, cur, tmp>>

-----------------------------------------------------------------------------
(* add_chunk, called by curl's callback or by share_cache *)

\* Mutant: the number of tasks is not stored in flag.
BeginAddChunkNoFlag ==
  /\ mpc = "fetch" /\ ~locked
  /\ calls < MaxChunks
  /\ locked' = TRUE
  /\ chunks' = chunks + 1
  /\ calls' = calls + 1
  /\ todo' = Subscribers
  /\ mpc' = "dispatch"
  /\ UNCHANGED <<flag, count, clientVars, taskVars, cur, tmp>>

\* Mutant: __add_chunk returns without storing the chunk.
StoreNothing == chunks' = chunks

\* __add_chunk puts the chunk behind the last one.
StoreChunk == chunks' = chunks + 1

\* Lock the manager, __add_chunk, and the head of __send_chunks.
BeginAddChunk ==
  /\ mpc = "fetch" /\ ~locked
  /\ calls < MaxChunks
  /\ locked' = TRUE
  /\ StoreChunk
  /\ calls' = calls + 1
  /\ flag' = Char(count)
  /\ todo' = Subscribers
  /\ mpc' = "dispatch"
  /\ UNCHANGED <<count, clientVars, taskVars, cur, tmp>>

\* One turn of the loop in __send_chunks: push a task for c.  A subscriber
\* that has every chunk already makes the thread lock manager->lock again,
\* which it holds: it never returns.
SendChunks(c) ==
  /\ mpc = "dispatch"
  /\ c \in todo
  /\ todo' = todo \ {c}
  /\ IF loaded[c] = chunks
       THEN mpc' = "stuck" /\ UNCHANGED tpc
       ELSE tpc' = [tpc EXCEPT ![<<c, calls>>] = "queued"] /\ UNCHANGED mpc
  /\ UNCHANGED <<managerVars, clientVars, next, last, cur, tmp>>

EndSendChunks ==
  /\ mpc = "dispatch"
  /\ todo = {}
  /\ mpc' = "check"
  /\ UNCHANGED <<managerVars, clientVars, taskVars, todo, cur, tmp>>

\* Mutant: "if" in place of "while" around pthread_cond_wait.
WaitForAllOnce ==
  /\ mpc = "check"
  /\ IF flag > 0 /\ \A k \in TaskIds : tpc[k] # "unlock"
       THEN mpc' = "waiting"
       ELSE mpc' = "fetch"
  /\ locked' = FALSE
  /\ UNCHANGED <<count, flag, chunks, calls, clientVars, taskVars, todo, cur, tmp>>

\* while (manager->flag > 0) wait; then unlock and return.
WaitForAll ==
  /\ mpc = "check"
  /\ IF flag > 0
       THEN mpc' = "waiting"
       ELSE mpc' = "fetch"
  /\ locked' = FALSE
  /\ UNCHANGED <<count, flag, chunks, calls, clientVars, taskVars, todo, cur, tmp>>

\* pthread_cond_wait takes the mutex again before it returns.
Relock ==
  /\ mpc = "woken" /\ ~locked
  /\ locked' = TRUE
  /\ mpc' = "check"
  /\ UNCHANGED <<count, flag, chunks, calls, clientVars, taskVars, todo, cur, tmp>>

SpuriousWakeup ==
  /\ mpc = "waiting"
  /\ mpc' = "woken"
  /\ UNCHANGED <<managerVars, clientVars, taskVars, todo, cur, tmp>>

-----------------------------------------------------------------------------
(* __send_chunks_to_subscriber, run by the upload pool *)

\* Mutant: the task sends the response from its first chunk.
StartTaskFromZero(k) ==
  /\ tpc[k] = "queued"
  /\ holder' = [holder EXCEPT ![k[1]] = k]
  /\ next' = [next EXCEPT ![k] = 0]
  /\ last' = [last EXCEPT ![k] = chunks]
  /\ tpc' = [tpc EXCEPT ![k] = "send"]
  /\ UNCHANGED <<managerVars, status, joined, loaded, received, broken, mainVars>>

\* get_chunk finds the chunk with an index below container->count, from the
\* nearer end of the list, and nothing at or beyond it.
HasChunk(index) == index < chunks

\* Lock the subscriber and read start_chunk and last_chunk.
StartTask(k) ==
  /\ tpc[k] = "queued"
  /\ holder[k[1]] = NoTask
  /\ holder' = [holder EXCEPT ![k[1]] = k]
  /\ next' = [next EXCEPT ![k] = loaded[k[1]]]
  /\ last' = [last EXCEPT ![k] = chunks]
  /\ tpc' = [tpc EXCEPT ![k] = IF HasChunk(loaded[k[1]]) THEN "send" ELSE "end"]
  /\ UNCHANGED <<managerVars, status, joined, loaded, received, broken, mainVars>>

\* One turn of the loop whose send succeeds.
SendOk(k) ==
  /\ tpc[k] = "send"
  /\ k[1] \notin broken
  /\ received' = [received EXCEPT ![k[1]] = Append(@, next[k] + 1)]
  /\ loaded' = [loaded EXCEPT ![k[1]] = @ + 1]
  /\ next' = [next EXCEPT ![k] = @ + 1]
  /\ tpc' = [tpc EXCEPT ![k] = IF next[k] + 1 < last[k] THEN "send" ELSE "end"]
  /\ UNCHANGED <<managerVars, status, joined, broken, holder, last, mainVars>>

\* One turn whose send fails, as every later one will: the peer is gone.  The
\* subscriber stays in the list.
SendError(k) ==
  /\ tpc[k] = "send"
  /\ broken' = broken \cup {k[1]}
  /\ tpc' = [tpc EXCEPT ![k] = "end"]
  /\ UNCHANGED <<managerVars, status, joined, loaded, received, holder,
                 next, last, mainVars>>

\* Mutant: the task does not signal the condition.
FinishTaskNoSignal(k) ==
  /\ tpc[k] = "end" /\ ~locked
  /\ flag' = Char(flag - 1)
  /\ tpc' = [tpc EXCEPT ![k] = "unlock"]
  /\ UNCHANGED <<count, locked, chunks, calls, clientVars, next, last, mainVars>>

\* Lock the manager, flag--, pthread_cond_signal, unlock.
FinishTask(k) ==
  /\ tpc[k] = "end" /\ ~locked
  /\ flag' = Char(flag - 1)
  /\ tpc' = [tpc EXCEPT ![k] = "unlock"]
  /\ mpc' = IF mpc = "waiting" THEN "woken" ELSE mpc
  /\ UNCHANGED <<count, locked, chunks, calls, clientVars, next, last, todo, cur, tmp>>

\* pthread_mutex_unlock(&subscriber->lock), the task's last use of it.
UnlockSubscriber(k) ==
  /\ tpc[k] = "unlock"
  /\ holder' = [holder EXCEPT ![k[1]] = NoTask]
  /\ tpc' = [tpc EXCEPT ![k] = "done"]
  /\ UNCHANGED <<managerVars, status, joined, loaded, received, broken,
                 next, last, mainVars>>

-----------------------------------------------------------------------------
(* The end of the session: finish_pending_chunks, then                     *)
(* destroy_subscription_manager                                            *)

\* The transfer ended; subscriber = manager->first_subscriber, unlocked.
Finish ==
  /\ mpc = "fetch"
  /\ IF Subscribers = {} THEN cur' = NoClient ELSE cur' \in Subscribers
  /\ mpc' = "finish"
  /\ UNCHANGED <<managerVars, clientVars, taskVars, todo, tmp>>

\* tmp = subscriber->next, still without the lock: a client that joins behind
\* the last subscriber after this read is not visited.
ReadNext ==
  /\ mpc = "finish"
  /\ cur # NoClient
  /\ IF Subscribers = {cur} THEN tmp' = NoClient ELSE tmp' \in Subscribers \ {cur}
  /\ mpc' = "unsub"
  /\ UNCHANGED <<managerVars, clientVars, taskVars, todo, cur>>

\* unsubscribe: lock the manager and unlink the subscriber.
Unlink ==
  /\ mpc = "unsub" /\ ~locked
  /\ locked' = TRUE
  /\ status' = [status EXCEPT ![cur] = "out"]
  /\ mpc' = "close"
  /\ UNCHANGED <<count, flag, chunks, calls, joined, loaded, received, broken,
                 holder, taskVars, todo, cur, tmp>>

\* Mutant: the subscriber is freed without waiting for its lock.
CloseNow ==
  /\ mpc = "close"
  /\ status' = [status EXCEPT ![cur] = "closed"]
  /\ count' = count - 1
  /\ locked' = FALSE
  /\ cur' = tmp
  /\ mpc' = "finish"
  /\ UNCHANGED <<flag, chunks, calls, joined, loaded, received, broken, holder,
                 taskVars, todo, tmp>>

\* unsubscribe: lock the subscriber, close its socket, free it, unlock.
Close ==
  /\ mpc = "close"
  /\ holder[cur] = NoTask
  /\ status' = [status EXCEPT ![cur] = "closed"]
  /\ count' = count - 1
  /\ locked' = FALSE
  /\ cur' = tmp
  /\ mpc' = "finish"
  /\ UNCHANGED <<flag, chunks, calls, joined, loaded, received, broken, holder,
                 taskVars, todo, tmp>>

\* The walk is over.
EndFinish ==
  /\ mpc = "finish"
  /\ cur = NoClient
  /\ mpc' = "destroy"
  /\ UNCHANGED <<managerVars, clientVars, taskVars, todo, cur, tmp>>

\* destroy_subscription_manager locks the manager and unsubscribes whoever is
\* left: unsubscribe locks the manager again, which this thread holds.
Destroy ==
  /\ mpc = "destroy" /\ ~locked
  /\ IF Subscribers = {}
       THEN mpc' = "freed" /\ UNCHANGED locked
       ELSE mpc' = "stuck" /\ locked' = TRUE
  /\ UNCHANGED <<count, flag, chunks, calls, clientVars, taskVars, todo, cur, tmp>>

-----------------------------------------------------------------------------
TaskStep(k) ==
  \/ StartTask(k) \/ SendOk(k) \/ SendError(k) \/ FinishTask(k)
  \/ UnlockSubscriber(k)

MainStep ==
  \/ BecomeMain \/ BeginAddChunk \/ (\E c \in Clients : SendChunks(c))
  \/ EndSendChunks \/ WaitForAll \/ Relock
  \/ Finish \/ ReadNext \/ Unlink \/ Close \/ EndFinish \/ Destroy

\* The manager is gone, or its main thread blocks on its own lock for ever.
Over == mpc \in {"freed", "stuck"} /\ UNCHANGED vars

Next ==
  \/ \E c \in Clients : Subscribe(c)
  \/ \E k \in TaskIds : TaskStep(k)
  \/ MainStep
  \/ SpuriousWakeup
  \/ Over

Spec == Init /\ [][Next]_vars

\* The origin goes on answering; the upload pool runs its tasks (ThreadPool)
\* and a send returns, since the peer reads or goes away; and of the tasks that
\* wait for the manager's lock, which spurious wakeups may take and release
\* again and again, one gets it in the end.
FairSpec ==
  /\ Spec
  /\ WF_vars(MainStep)
  /\ WF_vars(\E k \in TaskIds : TaskStep(k))
  /\ SF_vars(\E k \in TaskIds : FinishTask(k))

-----------------------------------------------------------------------------
Pending == {k \in TaskIds : tpc[k] \in {"queued", "send", "end"}}
InAddChunk == mpc \in {"dispatch", "check", "waiting", "woken"}

\* "wait for all" (subscription.c:141): outside add_chunk no upload task is
\* left over, and every subscriber that was there at the last call has every
\* chunk unless its connection failed.
WaitsForAll ==
  ~InAddChunk /\ mpc # "stuck" =>
    /\ Pending = {}
    /\ \A c \in Subscribers \ broken : joined[c] < chunks => loaded[c] = chunks

\* No upload task runs on a freed subscriber or a freed manager.
NoUseAfterFree ==
  \A k \in TaskIds :
    /\ tpc[k] \in {"queued", "send", "end", "unlock"} => status[k[1]] # "closed"
    /\ tpc[k] \in {"queued", "send", "end"} => mpc # "freed"

\* A client is sent the chunks in order, none twice and none skipped, whoever
\* sends them and however often a failed round is resumed.
InOrder ==
  \A c \in Clients : received[c] = [i \in 1..loaded[c] |-> i]

\* A client whose connection held is closed with the whole response, unless it
\* subscribed after the last chunk: then it is closed with nothing.
WholeOrNothing ==
  \A c \in Clients :
    status[c] = "closed" /\ c \notin broken =>
      loaded[c] = IF joined[c] < chunks THEN chunks ELSE 0

\* The main thread locks manager->lock twice, and blocks for ever, only in
\* destroy_subscription_manager and only for a client that subscribed after
\* the last chunk: never in __send_chunks, where upload tasks are under way.
RelocksOnlyForLate ==
  mpc = "stuck" =>
    /\ Pending = {} /\ flag = 0
    /\ \E c \in Subscribers : joined[c] = chunks

\* A session ends: its manager is freed and every client closed, or its main
\* thread is left blocked in destroy_subscription_manager.
SessionEnds ==
  mpc = "fetch" ~> \/ mpc = "stuck"
                   \/ mpc = "freed" /\ Subscribers = {}
===============================================================================
