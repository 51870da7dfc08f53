-------------------------------- MODULE HashMap --------------------------------
(***************************************************************************)
(* The hash map of lab3/src/common/hashmap.c, pointer by pointer, used as  *)
(* __handle_client uses it: get; if the path is missing, insert; delete by *)
(* the handler that was elected, when its session is over.  There is no    *)
(* lock, so there is one action per load or store of the table or of a     *)
(* node.  malloc hands freed nodes out again; an access to a node that is  *)
(* free at that moment is a fault.                                         *)
(***************************************************************************)
EXTENDS Integers, Sequences, FiniteSets, SequencesExt

CONSTANTS Threads,   \* workers of the handler pool
          Keys,      \* request->path
          Hash,      \* per key: hashn(key, MAX_KEY_LENGTH) % TABLE_SIZE
          Addresses, \* where malloc may put a node_t
          NULL,
          Requests   \* bound on the requests handled

ASSUME KeysAssumption == Keys # {}
ASSUME NullAssumption == NULL \notin Addresses
ASSUME AddressesAssumption == IsFiniteSet(Addresses)
ASSUME RequestsAssumption == Requests \in Nat

Buckets == {Hash[k] : k \in Keys}
NoValue == 0
Values == 1..Requests     \* managers: every request would insert its own

VARIABLES
  table,      \* ht->table
  node,       \* per address: key, value and next
  allocated,  \* addresses between malloc and free
  pc, key,    \* per thread: its next step, the key of its request
  mine,       \* per thread: the manager it creates if get finds none
  cur, prev,  \* per thread: current (in insert new_node) and previous
  reg,        \* per thread: current->next, as delete loaded it
  res,        \* per thread: what its get returned
  busy,       \* managers with is_busy set
  requests,   \* requests accepted so far
  destroyed,  \* destroy_hashmap has run
  fault,      \* a free node was accessed
  spec,       \* history: per bucket, the pairs a correct map holds, newest first
  want,       \* history, per thread: what its get has to return
  lossy,      \* history: buckets in which two inserts overlapped
  wild        \* history: a delete overlapped with another operation on its bucket

heapVars == <<table, node, allocated>>
walkVars == <<cur, prev, reg>>
vars == <<heapVars, walkVars, pc, key, mine, busy, res, requests, destroyed, fault, spec, want,
          lossy, wild>>

Getting == {"compare", "next"}
Deleting == {"match", "advance", "unlink", "store", "free"}

TypeOK ==
  /\ table \in [Buckets -> Addresses \cup {NULL}]
  /\ node \in [Addresses -> [key : Keys, value : Values \cup {NoValue},
                             next : Addresses \cup {NULL}]]
  /\ allocated \subseteq Addresses
  /\ pc \in [Threads -> Getting \cup Deleting
                          \cup {"idle", "malloc", "link", "push", "elect", "session", "over"}]
  /\ key \in [Threads -> Keys]
  /\ mine \in [Threads -> Values \cup {NoValue}]
  /\ cur \in [Threads -> Addresses \cup {NULL}]
  /\ prev \in [Threads -> Addresses \cup {NULL}]
  /\ reg \in [Threads -> Addresses \cup {NULL}]
  /\ res \in [Threads -> Values \cup {NoValue}]
  /\ busy \subseteq Values \cup {NoValue}
  /\ lossy \subseteq Buckets

\* create_table.
Init ==
  /\ table = [b \in Buckets |-> NULL]
  /\ node = [n \in Addresses |-> [key |-> CHOOSE k \in Keys : TRUE, value |-> NoValue, next |-> NULL]]
  /\ allocated = {}
  /\ pc = [t \in Threads |-> "idle"]
  /\ key = [t \in Threads |-> CHOOSE k \in Keys : TRUE]
  /\ mine = [t \in Threads |-> NoValue]
  /\ cur = [t \in Threads |-> NULL]
  /\ prev = [t \in Threads |-> NULL]
  /\ reg = [t \in Threads |-> NULL]
  /\ res = [t \in Threads |-> NoValue]
  /\ busy = {}
  /\ requests = 0
  /\ destroyed = FALSE
  /\ fault = FALSE
  /\ spec = [b \in Buckets |-> <<>>]
  /\ want = [t \in Threads |-> NoValue]
  /\ lossy = {}
  /\ wild = FALSE

Bucket(t) == Hash[key[t]]
Goto(t, p) == pc' = [pc EXCEPT ![t] = p]

-----------------------------------------------------------------------------
(* What a correct map does with the pairs of one bucket *)

Having(pairs, k) == {i \in DOMAIN pairs : pairs[i][1] = k}
FirstWith(pairs, k) == CHOOSE i \in Having(pairs, k) : \A j \in Having(pairs, k) : i <= j
Found(pairs, k) == IF Having(pairs, k) = {} THEN NoValue ELSE pairs[FirstWith(pairs, k)][2]
Without(pairs, k) ==
  IF Having(pairs, k) = {} THEN pairs ELSE RemoveAt(pairs, FirstWith(pairs, k))

-----------------------------------------------------------------------------
(* get *)

\* A request arrives; get loads the head of its bucket.
GetHead(t, k) ==
  /\ pc[t] = "idle"
  /\ requests < Requests
  /\ requests' = requests + 1
  /\ key' = [key EXCEPT ![t] = k]
  /\ mine' = [mine EXCEPT ![t] = requests + 1]
  /\ cur' = [cur EXCEPT ![t] = table[Hash[k]]]
  /\ want' = [want EXCEPT ![t] = Found(spec[Hash[k]], k)]
  /\ Goto(t, "compare")
  /\ UNCHANGED <<heapVars, prev, reg, busy, res, spec>>

\* Mutant: strncmp is taken for true when it differs.
GetCompareAny(t) ==
  /\ pc[t] = "compare"
  /\ IF cur[t] = NULL
       THEN res' = [res EXCEPT ![t] = NoValue] /\ Goto(t, "malloc")
       ELSE res' = [res EXCEPT ![t] = node[cur[t]].value] /\ Goto(t, "elect")
  /\ UNCHANGED <<heapVars, walkVars, key, mine, busy, requests, spec, want>>

\* The end of the chain, the key found, or on to the next node.
GetCompare(t) ==
  /\ pc[t] = "compare"
  /\ \/ /\ cur[t] = NULL
        /\ res' = [res EXCEPT ![t] = NoValue]
        /\ Goto(t, "malloc")
     \/ /\ cur[t] # NULL /\ node[cur[t]].key = key[t]
        /\ res' = [res EXCEPT ![t] = node[cur[t]].value]
        /\ Goto(t, "elect")
     \/ /\ cur[t] # NULL /\ node[cur[t]].key # key[t]
        /\ Goto(t, "next")
        /\ UNCHANGED res
  /\ UNCHANGED <<heapVars, walkVars, key, mine, busy, requests, spec, want>>

\* Mutant: the loop does not advance.
GetNextSame(t) ==
  /\ pc[t] = "next"
  /\ Goto(t, "compare")
  /\ UNCHANGED <<heapVars, walkVars, key, mine, busy, res, requests, spec, want>>

GetNext(t) ==
  /\ pc[t] = "next"
  /\ cur' = [cur EXCEPT ![t] = node[cur[t]].next]
  /\ Goto(t, "compare")
  /\ UNCHANGED <<heapVars, prev, reg, key, mine, busy, res, requests, spec, want>>

-----------------------------------------------------------------------------
(* insert *)

InsertAlloc(t) ==
  /\ pc[t] = "malloc"
  /\ \E n \in Addresses \ allocated :
       /\ allocated' = allocated \cup {n}
       /\ node' = [node EXCEPT ![n].key = key[t], ![n].value = mine[t]]
       /\ cur' = [cur EXCEPT ![t] = n]
  /\ Goto(t, "link")
  /\ UNCHANGED <<table, prev, reg, key, mine, busy, res, requests, spec, want>>

\* malloc fails: insert returns, and the handler does not notice.
InsertFails(t) ==
  /\ pc[t] = "malloc"
  /\ Goto(t, "elect")
  /\ UNCHANGED <<heapVars, walkVars, key, mine, busy, res, requests, spec, want>>

InsertLink(t) ==
  /\ pc[t] = "link"
  /\ node' = [node EXCEPT ![cur[t]].next = table[Bucket(t)]]
  /\ Goto(t, "push")
  /\ UNCHANGED <<table, allocated, walkVars, key, mine, busy, res, requests, spec, want>>

InsertPush(t) ==
  /\ pc[t] = "push"
  /\ table' = [table EXCEPT ![Bucket(t)] = cur[t]]
  /\ spec' = [spec EXCEPT ![Bucket(t)] = <<<<key[t], mine[t]>>>> \o @]
  /\ Goto(t, "elect")
  /\ UNCHANGED <<node, allocated, walkVars, key, mine, busy, res, requests, want>>

-----------------------------------------------------------------------------
\* cas(&manager->is_busy, 0, 1) on the manager that get returned, or on the new
\* one: who wins will delete the path, whoever inserted it.  The manager of a
\* session that is over is freed, and its memory may have anything in is_busy.
Manager(t) == IF res[t] = NoValue THEN mine[t] ELSE res[t]
Elect(t) ==
  /\ pc[t] = "elect"
  /\ \/ /\ \A s \in Threads : pc[s] = "session" => Manager(s) # Manager(t)
        /\ busy' = busy \cup {Manager(t)}
        /\ Goto(t, "session")
     \/ /\ Manager(t) \in busy
        /\ Goto(t, "idle")
        /\ UNCHANGED busy
  /\ UNCHANGED <<heapVars, walkVars, key, mine, res, requests, spec, want>>

-----------------------------------------------------------------------------
(* delete *)

\* The session is over and its manager freed.
EndSession(t) ==
  /\ pc[t] = "session"
  /\ Goto(t, "over")
  /\ UNCHANGED <<heapVars, walkVars, key, mine, busy, res, requests, spec, want>>

DeleteHead(t) ==
  /\ pc[t] = "over"
  /\ cur' = [cur EXCEPT ![t] = table[Bucket(t)]]
  /\ prev' = [prev EXCEPT ![t] = NULL]
  /\ Goto(t, "match")
  /\ UNCHANGED <<heapVars, reg, key, mine, busy, res, requests, spec, want>>

DeleteMatch(t) ==
  /\ pc[t] = "match"
  /\ Goto(t, IF cur[t] = NULL THEN "idle"
             ELSE IF node[cur[t]].key = key[t] THEN "unlink" ELSE "advance")
  /\ UNCHANGED <<heapVars, walkVars, key, mine, busy, res, requests, spec, want>>

DeleteAdvance(t) ==
  /\ pc[t] = "advance"
  /\ prev' = [prev EXCEPT ![t] = cur[t]]
  /\ cur' = [cur EXCEPT ![t] = node[cur[t]].next]
  /\ Goto(t, "match")
  /\ UNCHANGED <<heapVars, reg, key, mine, busy, res, requests, spec, want>>

\* current->next is loaded ...
DeleteUnlink(t) ==
  /\ pc[t] = "unlink"
  /\ reg' = [reg EXCEPT ![t] = node[cur[t]].next]
  /\ Goto(t, "store")
  /\ UNCHANGED <<heapVars, cur, prev, key, mine, busy, res, requests, spec, want>>

\* Mutant: previous is not followed.
DeleteStoreHead(t) ==
  /\ pc[t] = "store"
  /\ table' = [table EXCEPT ![Bucket(t)] = reg[t]]
  /\ spec' = [spec EXCEPT ![Bucket(t)] = Without(@, key[t])]
  /\ Goto(t, "free")
  /\ UNCHANGED <<node, allocated, walkVars, key, mine, busy, res, requests, want>>

\* ... and stored in the table or in previous.
DeleteStore(t) ==
  /\ pc[t] = "store"
  /\ IF prev[t] = NULL
       THEN table' = [table EXCEPT ![Bucket(t)] = reg[t]] /\ UNCHANGED node
       ELSE node' = [node EXCEPT ![prev[t]].next = reg[t]] /\ UNCHANGED table
  /\ spec' = [spec EXCEPT ![Bucket(t)] = Without(@, key[t])]
  /\ Goto(t, "free")
  /\ UNCHANGED <<allocated, walkVars, key, mine, busy, res, requests, want>>

DeleteFree(t) ==
  /\ pc[t] = "free"
  /\ allocated' = allocated \ {cur[t]}
  /\ Goto(t, "idle")
  /\ UNCHANGED <<table, node, walkVars, key, mine, busy, res, requests, spec, want>>

-----------------------------------------------------------------------------
\* The i-th node after the head of bucket b.
Chain(b) ==
  LET at[i \in 0..Cardinality(Addresses)] ==
        IF i = 0 THEN table[b]
        ELSE IF at[i - 1] = NULL THEN NULL ELSE node[at[i - 1]].next
  IN at

\* destroy_hashmap, when no handler is at work on the map: some may have ended
\* without a delete, or wait in their session.
Destroy ==
  /\ ~destroyed
  /\ \A t \in Threads : pc[t] \in {"idle", "session"}
  /\ destroyed' = TRUE
  /\ allocated' = allocated \ UNION {{Chain(b)[i] : i \in DOMAIN Chain(b)} : b \in Buckets}
  /\ UNCHANGED <<table, node, walkVars, pc, key, mine, busy, res, requests, fault, spec, want,
                 lossy, wild>>

\* The node that the next step of t reads, writes or frees.
Touched(t) ==
  IF pc[t] \in {"compare", "next", "match", "advance", "unlink", "free"} THEN cur[t]
  ELSE IF pc[t] = "store" THEN prev[t] ELSE NULL

Safe(t) == Touched(t) \in allocated \cup {NULL}

Operate(t) ==
  \/ GetCompare(t) \/ GetNext(t)
  \/ InsertAlloc(t) \/ InsertFails(t) \/ InsertLink(t) \/ InsertPush(t) \/ Elect(t)
  \/ DeleteHead(t) \/ DeleteMatch(t) \/ DeleteAdvance(t) \/ DeleteUnlink(t)
  \/ DeleteStore(t) \/ DeleteFree(t)

Together(s, t, p, q) == s # t /\ Bucket(s) = Bucket(t) /\ pc[s] \in p /\ pc[t] \in q

\* An insert is exposed between its load and its store of the head.
InsertsMeet(b) == \E s, t \in Threads : Together(s, t, {"push"}, {"push"}) /\ Bucket(s) = b
DeleteMeets == \E s, t \in Threads : Together(s, t, Deleting, Getting \cup {"push"} \cup Deleting)
Watch ==
  /\ lossy' = lossy \cup {b \in Buckets : InsertsMeet(b)'}
  /\ wild' = (wild \/ DeleteMeets')

\* A step of a handler inside an operation.
Handle(t) ==
  /\ ~fault /\ ~destroyed
  /\ \/ Safe(t) /\ Operate(t) /\ UNCHANGED fault
     \/ /\ ~Safe(t)
        /\ fault' = TRUE
        /\ UNCHANGED <<heapVars, walkVars, pc, key, mine, busy, res, requests, spec, want>>
  /\ Watch
  /\ UNCHANGED destroyed

\* A request arrives, or a session ends.
Begin(t) ==
  /\ ~fault /\ ~destroyed
  /\ (\E k \in Keys : GetHead(t, k)) \/ EndSession(t)
  /\ Watch
  /\ UNCHANGED <<fault, destroyed>>

Over == (fault \/ destroyed) /\ UNCHANGED vars

Next ==
  \/ \E t \in Threads : Handle(t) \/ Begin(t)
  \/ ~fault /\ Destroy
  \/ Over

Spec == Init /\ [][Next]_vars

\* A worker that runs is scheduled again; nothing promises another request or
\* the end of a session.
FairSpec == Spec /\ \A t \in Threads : WF_vars(Handle(t))

-----------------------------------------------------------------------------
\* A bucket holds exactly the pairs a correct map would, in their order, on
\* nodes that are not free, if none of its inserts overlapped and no delete
\* anywhere overlapped with another operation on its bucket.  Inserts that
\* overlap only lose nodes of their own bucket (hashmap.c:27); a delete that is
\* overlapped may free a node of any bucket, since it may free one twice
\* (hashmap.c:54).  Without either, destroy_hashmap frees every node.
MapExact ==
  /\ TypeOK
  /\ fault => wild
  /\ ~destroyed /\ ~wild =>
       \A b \in Buckets \ lossy :
         /\ Chain(b)[Len(spec[b])] = NULL
         /\ \A i \in DOMAIN spec[b] :
              LET n == Chain(b)[i - 1] IN
              n \in allocated /\ <<node[n].key, node[n].value>> = spec[b][i]
  /\ destroyed /\ ~wild /\ lossy = {} => allocated = {}

\* get answers what the map held when it read the head of the bucket, although
\* an insert may go on while it walks.
GetRight ==
  \A t \in Threads :
    /\ pc[t] \in {"idle", "malloc", "elect"}
    /\ ~wild /\ Bucket(t) \notin lossy
    => res[t] = want[t]

\* An operation ends, even in a chain that overlapping inserts left, unless a
\* delete was overlapped: a node that is freed and used again too early can
\* make a chain a cycle.
OperationsEnd ==
  \A t \in Threads :
    (pc[t] \notin {"idle", "session"}) ~> (pc[t] \in {"idle", "session"} \/ wild)
================================================================================
