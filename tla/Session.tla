------------------------------- MODULE Session --------------------------------
(***************************************************************************)
(* The sessions of the caching proxy: the handlers of lab3/src/handler,    *)
(* the map from paths to subscription managers (lab3/src/common/hashmap.c) *)
(* and the cache files (lab3/src/chunk/cache.c).  One action per step of   *)
(* __handle_client between which another handler may run.                  *)
(*                                                                         *)
(* add_chunk is one action: module Subscription shows that it returns only *)
(* after every subscriber was sent every chunk.  A map operation is one    *)
(* action.  Client connections do not break, allocations succeed.  Cache   *)
(* files are made of chunks, each lost, sent or read as a whole.           *)
(***************************************************************************)
EXTENDS Integers, Sequences, FiniteSets

CONSTANTS Clients,     \* connections, one handler each
          Path,        \* per client: request->path, the key of the map
          Methods,     \* per client: the methods its request may have
          CacheName(_, _),  \* of a method and a path: the name of the cache file
          NoManager,   \* NULL
          Length,      \* per client: chunks in a full response to its request
          MaxCrashes   \* bound on restarts of the proxy

ASSUME LengthAssumption == Length \in [Clients -> Nat]
ASSUME NoManagerAssumption == NoManager \notin Clients
ASSUME MaxCrashesAssumption == MaxCrashes \in Nat

\* parse_request_to_cachename: the file of a method and a path.  Only a hash of
\* the path is part of the name, so that paths may share a file.
Files == UNION {{CacheName(x, Path[c]) : x \in Methods[c]} : c \in Clients}
\* Managers are named after the client whose handler created them.
Managers == Clients

VARIABLES
  method,   \* per client: request->method
  hpc,      \* per client: its handler
  mgr,      \* per handler: manager
  pos,      \* per handler: chunks downloaded, read or written so far
  off,      \* per handler: the offset at which save_cache writes next
  mstate,   \* per manager: "none", "live", "stuck" (locked for ever) or "freed"
  busy,     \* managers with is_busy set
  subs,     \* per manager: its subscribers
  content,  \* per manager: its chunks
  failed,   \* managers whose transfer failed or was not answered with 2xx, or
            \* whose cache file is torn or was not read to its end
  map,      \* nodes of the map, newest first
  cached,   \* the cache files there are
  file,     \* per cache file: the chunks in it
  torn,     \* history: cache files that two handlers wrote at once, to which a
            \* write failed or that were being written when the process died
  got,      \* per client: the chunks it was sent
  joined,   \* per client: chunks its manager had when it subscribed
  closed,   \* clients whose connection was closed
  fault,    \* a freed manager was used
  crashes,
  raced     \* history: Race held in this or in an earlier state

handlerVars == <<hpc, mgr, pos, off>>
managerVars == <<mstate, busy, subs, content, failed>>
clientVars == <<got, joined, closed>>
fileVars == <<cached, file, torn>>
vars == <<method, handlerVars, managerVars, clientVars, map, fileVars, fault, crashes, raced>>

File(c) == CacheName(method[c], Path[c])
\* Chunk i of what the handler of client d downloads: two downloads of one path
\* need not bring the same.
Chunk(d, i) == <<d, i>>
Response(d) == [i \in 1..Length[d] |-> Chunk(d, i)]
Hole == <<"zeros", 0>>
Chunks == {x \in Clients \X Nat : x[2] \in 1..Length[x[1]]} \cup {Hole}
MapNodes == [key : {Path[c] : c \in Clients}, value : Managers]

HandlerPCs == {"idle", "recv", "create", "subscribe", "elect", "check",
               "download", "share", "save", "write", "finish", "destroy",
               "delete", "stuck", "done", "lost"}

TypeOK ==
  /\ \A c \in Clients : method[c] \in Methods[c]
  /\ hpc \in [Clients -> HandlerPCs]
  /\ mgr \in [Clients -> Managers \cup {NoManager}]
  /\ pos \in [Clients -> Nat]
  /\ off \in [Clients -> Nat]
  /\ mstate \in [Managers -> {"none", "live", "stuck", "freed"}]
  /\ busy \subseteq Managers
  /\ subs \in [Managers -> SUBSET Clients]
  /\ \A m \in Managers : content[m] \in Seq(Chunks)
  /\ failed \subseteq Managers
  /\ map \in Seq(MapNodes)
  /\ cached \subseteq Files
  /\ \A f \in Files : file[f] \in Seq(Chunks)
  /\ torn \subseteq Files
  /\ joined \in [Clients -> Nat]
  /\ closed \subseteq Clients
  /\ fault \in BOOLEAN
  /\ crashes \in 0..MaxCrashes
  /\ raced \in BOOLEAN

Init ==
  /\ method \in {f \in [Clients -> UNION {Methods[c] : c \in Clients}] :
                   \A c \in Clients : f[c] \in Methods[c]}
  /\ hpc = [c \in Clients |-> "idle"]
  /\ mgr = [c \in Clients |-> NoManager]
  /\ pos = [c \in Clients |-> 0]
  /\ off = [c \in Clients |-> 0]
  /\ mstate = [m \in Managers |-> "none"]
  /\ busy = {}
  /\ subs = [m \in Managers |-> {}]
  /\ content = [m \in Managers |-> <<>>]
  /\ failed = {}
  /\ map = <<>>
  /\ cached = {}
  /\ file = [f \in Files |-> <<>>]
  /\ torn = {}
  /\ got = [c \in Clients |-> <<>>]
  /\ joined = [c \in Clients |-> 0]
  /\ closed = {}
  /\ fault = FALSE
  /\ crashes = 0
  /\ raced = FALSE

Goto(c, p) == hpc' = [hpc EXCEPT ![c] = p]

-----------------------------------------------------------------------------
(* The map *)

Nodes(key) == {i \in 1..Len(map) : map[i].key = key}
FirstNode(key) == CHOOSE i \in Nodes(key) : \A j \in Nodes(key) : i <= j

\* Mutant: the map compares only the length of the keys.
getAny(key) == IF map = <<>> THEN NoManager ELSE map[1].value

get(key) == IF Nodes(key) = {} THEN NoManager ELSE map[FirstNode(key)].value

\* insert puts a node in front and does not look for the key.
insert(key, m) == <<[key |-> key, value |-> m]>> \o map

\* delete unlinks the first node with the key.
delete(key) ==
  IF Nodes(key) = {}
    THEN map
    ELSE SubSeq(map, 1, FirstNode(key) - 1)
         \o SubSeq(map, FirstNode(key) + 1, Len(map))

-----------------------------------------------------------------------------
(* __handle_client up to the election of the session main thread *)

\* accept, handle_client, and a worker of the handler pool starts the task.
Accept(c) ==
  /\ hpc[c] = "idle"
  /\ Goto(c, "recv")
  /\ UNCHANGED <<mgr, pos, off, managerVars, clientVars, map, fileVars, fault, crashes>>

\* __recv fails, or the request does not parse or validate: close(fd).
Reject(c) ==
  /\ hpc[c] = "recv"
  /\ closed' = closed \cup {c}
  /\ Goto(c, "done")
  /\ UNCHANGED <<mgr, pos, off, managerVars, got, joined, map, fileVars, fault, crashes>>

\* manager = get(map, request->path).
Lookup(c) ==
  /\ hpc[c] = "recv"
  /\ mgr' = [mgr EXCEPT ![c] = get(Path[c])]
  /\ Goto(c, IF get(Path[c]) = NoManager THEN "create" ELSE "subscribe")
  /\ UNCHANGED <<pos, off, managerVars, clientVars, map, fileVars, fault, crashes>>

\* create_subscription_manager and insert.
Create(c) ==
  /\ hpc[c] = "create"
  /\ mstate' = [mstate EXCEPT ![c] = "live"]
  /\ mgr' = [mgr EXCEPT ![c] = c]
  /\ map' = insert(Path[c], c)
  /\ Goto(c, "subscribe")
  /\ UNCHANGED <<pos, off, busy, subs, content, failed, clientVars, fileVars, fault, crashes>>

\* subscribe(manager, fd); a freed manager is undefined behaviour, a manager
\* whose lock is never released blocks the handler.
Subscribe(c) ==
  /\ hpc[c] = "subscribe"
  /\ LET m == mgr[c] IN
       \/ /\ mstate[m] = "live"
          /\ subs' = [subs EXCEPT ![m] = @ \cup {c}]
          /\ joined' = [joined EXCEPT ![c] = Len(content[m])]
          /\ Goto(c, "elect")
          /\ UNCHANGED fault
       \/ /\ mstate[m] = "freed"
          /\ fault' = TRUE
          /\ UNCHANGED <<subs, joined, hpc>>
  /\ UNCHANGED <<mgr, pos, off, mstate, busy, content, failed, got, closed, map, fileVars, crashes>>

\* Mutant: a load and a store in place of the compare-and-swap.
ElectBlind(c) ==
  /\ hpc[c] = "elect"
  /\ mstate[mgr[c]] # "freed"
  /\ busy' = busy \cup {mgr[c]}
  /\ Goto(c, "check")
  /\ UNCHANGED <<mgr, pos, off, mstate, subs, content, failed, clientVars, map, fileVars,
                 fault, crashes>>

\* cas(&manager->is_busy, 0, 1): the winner is the session main thread, the
\* others return and leave their client to it.
Elect(c) ==
  /\ hpc[c] = "elect"
  /\ LET m == mgr[c] IN
       IF mstate[m] = "freed"
         THEN fault' = TRUE /\ UNCHANGED <<hpc, busy>>
         ELSE /\ busy' = busy \cup {m}
              /\ Goto(c, IF m \in busy THEN "done" ELSE "check")
              /\ UNCHANGED fault
  /\ UNCHANGED <<mgr, pos, off, mstate, subs, content, failed, clientVars, map, fileVars, crashes>>

-----------------------------------------------------------------------------
(* The session main thread *)

\* cache_exists: stat of the cache file.
CacheExists(f) == f \in cached

\* __check_cache.
CheckCache(c) ==
  /\ hpc[c] = "check"
  /\ pos' = [pos EXCEPT ![c] = 0]
  /\ Goto(c, IF CacheExists(File(c)) THEN "share" ELSE "download")
  /\ UNCHANGED <<mgr, off, managerVars, clientVars, map, fileVars, fault, crashes>>

\* add_chunk: the chunk is stored and every subscriber has been sent all.
AddChunk(c, x) ==
  LET m == mgr[c]
      new == Append(content[m], x)
  IN /\ content' = [content EXCEPT ![m] = new]
     /\ got' = [s \in Clients |-> IF s \in subs[m] THEN new ELSE got[s]]

\* curl's callback.
DownloadChunk(c) ==
  /\ hpc[c] = "download"
  /\ pos[c] < Length[c]
  /\ AddChunk(c, Chunk(c, pos[c] + 1))
  /\ pos' = [pos EXCEPT ![c] = @ + 1]
  /\ UNCHANGED <<hpc, mgr, off, mstate, busy, subs, failed, joined, closed, map, fileVars,
                 fault, crashes>>

\* Mutant: the response is saved whatever its code, complete or not.
DownloadEndsAlwaysSaved(c) ==
  /\ hpc[c] = "download"
  /\ \/ pos[c] = Length[c] /\ UNCHANGED failed
     \/ failed' = failed \cup {mgr[c]}
  /\ Goto(c, "save")
  /\ UNCHANGED <<mgr, pos, off, mstate, busy, subs, content, clientVars, map, fileVars,
                 fault, crashes>>

\* send_http_request returns.  Only a 2xx response, complete, is saved; a
\* transfer that breaks off returns -1.
DownloadEnds(c) ==
  /\ hpc[c] = "download"
  /\ \/ pos[c] = Length[c] /\ Goto(c, "save") /\ UNCHANGED failed
     \/ failed' = failed \cup {mgr[c]} /\ Goto(c, "finish")
  /\ UNCHANGED <<mgr, pos, off, mstate, busy, subs, content, clientVars, map, fileVars,
                 fault, crashes>>

\* save_cache: fopen with "wb" makes an empty file, or empties the one there is.
SaveOpen(c) ==
  /\ hpc[c] = "save"
  /\ cached' = cached \cup {File(c)}
  /\ file' = [file EXCEPT ![File(c)] = <<>>]
  /\ torn' = IF \E d \in Clients : hpc[d] = "write" /\ File(d) = File(c)
               THEN torn \cup {File(c)}
               ELSE torn
  /\ pos' = [pos EXCEPT ![c] = 0]
  /\ off' = [off EXCEPT ![c] = 0]
  /\ Goto(c, "write")
  /\ UNCHANGED <<mgr, managerVars, clientVars, map, fault, crashes>>

\* save_cache: fopen fails and the response is not saved.
SaveFails(c) ==
  /\ hpc[c] = "save"
  /\ Goto(c, "finish")
  /\ UNCHANGED <<mgr, pos, off, managerVars, clientVars, map, fileVars, fault, crashes>>

\* A write at an offset of a file; what lies between the end of the file and the
\* offset is filled with zeros.
WriteAt(s, o, x) ==
  [i \in 1..(IF Len(s) > o THEN Len(s) ELSE o + 1) |->
     IF i = o + 1 THEN x ELSE IF i <= Len(s) THEN s[i] ELSE Hole]

\* save_cache: fwrite of the next chunk, at this handler's offset.
SaveChunk(c) ==
  /\ hpc[c] = "write"
  /\ pos[c] < Len(content[mgr[c]])
  /\ file' = [file EXCEPT ![File(c)] = WriteAt(@, off[c], content[mgr[c]][pos[c] + 1])]
  /\ pos' = [pos EXCEPT ![c] = @ + 1]
  /\ off' = [off EXCEPT ![c] = @ + 1]
  /\ UNCHANGED <<hpc, mgr, managerVars, clientVars, map, cached, torn, fault, crashes>>

\* save_cache: fwrite fails, or fclose to write what fwrite had put aside.  The
\* chunk is not in the file, nobody notices and the loop goes on.
SaveLoses(c) ==
  /\ hpc[c] = "write"
  /\ pos[c] < Len(content[mgr[c]])
  /\ torn' = torn \cup {File(c)}
  /\ pos' = [pos EXCEPT ![c] = @ + 1]
  /\ UNCHANGED <<hpc, mgr, off, managerVars, clientVars, map, cached, file, fault, crashes>>

\* save_cache: fclose.
SaveEnds(c) ==
  /\ hpc[c] = "write"
  /\ pos[c] = Len(content[mgr[c]])
  /\ Goto(c, "finish")
  /\ UNCHANGED <<mgr, pos, off, managerVars, clientVars, map, fileVars, fault, crashes>>

\* share_cache: the next buffer of the file.
ShareChunk(c) ==
  /\ hpc[c] = "share"
  /\ pos[c] < Len(file[File(c)])
  /\ AddChunk(c, file[File(c)][pos[c] + 1])
  /\ pos' = [pos EXCEPT ![c] = @ + 1]
  /\ UNCHANGED <<hpc, mgr, off, mstate, busy, subs, failed, joined, closed, map, fileVars,
                 fault, crashes>>

\* share_cache: end of file.
ShareEnds(c) ==
  /\ hpc[c] = "share"
  /\ pos[c] >= Len(file[File(c)])
  /\ failed' = IF File(c) \in torn THEN failed \cup {mgr[c]} ELSE failed
  /\ Goto(c, "finish")
  /\ UNCHANGED <<mgr, pos, off, mstate, busy, subs, content, clientVars, map, fileVars,
                 fault, crashes>>

\* share_cache: fopen fails and nothing is sent, or fread fails and the rest of
\* the file is not sent.  The session ends as if the file did.
ShareFails(c) ==
  /\ hpc[c] = "share"
  /\ failed' = failed \cup {mgr[c]}
  /\ Goto(c, "finish")
  /\ UNCHANGED <<mgr, pos, off, mstate, busy, subs, content, clientVars, map, fileVars,
                 fault, crashes>>

\* Mutant: only the session main thread's own client is closed.
FinishOwn(c) ==
  /\ hpc[c] = "finish"
  /\ closed' = closed \cup {c}
  /\ subs' = [subs EXCEPT ![mgr[c]] = {}]
  /\ Goto(c, "destroy")
  /\ UNCHANGED <<mgr, pos, off, mstate, busy, content, failed, got, joined, map, fileVars,
                 fault, crashes>>

\* finish_pending_chunks: every subscriber is unlinked and closed.
Finish(c) ==
  /\ hpc[c] = "finish"
  /\ closed' = closed \cup subs[mgr[c]]
  /\ subs' = [subs EXCEPT ![mgr[c]] = {}]
  /\ Goto(c, "destroy")
  /\ UNCHANGED <<mgr, pos, off, mstate, busy, content, failed, got, joined, map, fileVars,
                 fault, crashes>>

\* destroy_subscription_manager frees the chunks; a client that subscribed since makes the
\* thread block on the manager's lock, which it holds.
Destroy(c) ==
  /\ hpc[c] = "destroy"
  /\ content' = [content EXCEPT ![mgr[c]] = <<>>]
  /\ IF subs[mgr[c]] = {}
       THEN mstate' = [mstate EXCEPT ![mgr[c]] = "freed"] /\ Goto(c, "delete")
       ELSE mstate' = [mstate EXCEPT ![mgr[c]] = "stuck"] /\ Goto(c, "stuck")
  /\ UNCHANGED <<mgr, pos, off, busy, subs, failed, clientVars, map, fileVars, fault, crashes>>

\* delete(map, request->path), after the manager was freed.
Delete(c) ==
  /\ hpc[c] = "delete"
  /\ map' = delete(Path[c])
  /\ Goto(c, "done")
  /\ UNCHANGED <<mgr, pos, off, managerVars, clientVars, fileVars, fault, crashes>>

-----------------------------------------------------------------------------
\* The process dies and starts again: its memory and its connections are gone,
\* the cache files stay as they are.
Crash ==
  /\ crashes < MaxCrashes
  /\ crashes' = crashes + 1
  /\ hpc' = [c \in Clients |-> IF hpc[c] = "idle" THEN "idle" ELSE
                               IF c \in closed THEN "done" ELSE "lost"]
  /\ mgr' = [c \in Clients |-> NoManager]
  /\ pos' = [c \in Clients |-> 0]
  /\ off' = [c \in Clients |-> 0]
  /\ mstate' = [m \in Managers |-> "none"]
  /\ busy' = {}
  /\ subs' = [m \in Managers |-> {}]
  /\ content' = [m \in Managers |-> <<>>]
  /\ failed' = {}
  /\ map' = <<>>
  /\ torn' = torn \cup {File(c) : c \in {d \in Clients : hpc[d] = "write"}}
  /\ UNCHANGED <<clientVars, cached, file, fault>>

Step(c) ==
  \/ Lookup(c) \/ Create(c) \/ Subscribe(c) \/ Elect(c) \/ CheckCache(c)
  \/ DownloadChunk(c) \/ DownloadEnds(c) \/ SaveOpen(c) \/ SaveFails(c)
  \/ SaveChunk(c) \/ SaveLoses(c) \/ SaveEnds(c)
  \/ ShareChunk(c) \/ ShareEnds(c) \/ ShareFails(c)
  \/ Finish(c) \/ Destroy(c) \/ Delete(c)

\* Two requests are in each other's way: they are for one path, one is on its
\* way to become a subscriber and another is too, or is ending the session; or
\* their paths share a cache file that one writes while the other writes or
\* reads it.
Starting == {c \in Clients : hpc[c] \in {"recv", "create", "subscribe", "elect"}}
Ending == {c \in Clients : hpc[c] \in {"save", "write", "finish", "destroy", "delete"}}
Writing == {c \in Clients : hpc[c] = "write"}
Reading == {c \in Clients : hpc[c] = "share"}
Race ==
  \/ \E c \in Starting : \E d \in (Starting \cup Ending) \ {c} : Path[c] = Path[d]
  \/ \E c \in Writing : \E d \in (Writing \cup Reading) \ {c} : File(c) = File(d)
Watch == UNCHANGED method /\ raced' = (raced \/ Race')

\* What a handler does next; after a use of freed memory nothing is known.
Handle(c) == ~fault /\ Step(c) /\ Watch

\* Every request was handled, or its handler waits for a lock that a handler
\* locked twice.
Quiet ==
  /\ \/ fault
     \/ \A c \in Clients :
          \/ hpc[c] \in {"done", "lost", "stuck"}
          \/ hpc[c] = "subscribe" /\ mstate[mgr[c]] = "stuck"
  /\ UNCHANGED vars

Next ==
  \/ \E c \in Clients : ~fault /\ Accept(c) /\ Watch
  \/ \E c \in Clients : ~fault /\ Reject(c) /\ Watch
  \/ \E c \in Clients : Handle(c)
  \/ ~fault /\ Crash /\ Watch
  \/ Quiet

Spec == Init /\ [][Next]_vars

\* As long as a handler can go on, one does: the pool runs the tasks, the
\* origin answers or curl gives up.
FairSpec == Spec /\ WF_vars(\E c \in Clients : Handle(c))

-----------------------------------------------------------------------------
\* The variables keep their types and, races, failed writes and crashes or not,
\* a chunk a client is sent was downloaded for its own path or for one whose
\* cache file has the same name (hashmap.c compares whole paths, cache.c:76 names
\* a file by the hash of its path).
PathsNotMixed ==
  /\ TypeOK
  /\ \A c \in Clients : \A i \in 1..Len(got[c]) :
       got[c][i] # Hole =>
         \E e \in Clients : Path[e] = Path[c] /\ File(got[c][i][1]) = File(e)

\* A cache file that nobody is writing holds one whole 2xx response to a request
\* for which the file is named, unless two handlers wrote it at once, a write
\* failed unnoticed (cache.c:50) or the process died writing it: nothing else
\* tears a file, neither a failed transfer (handler.c:121) nor a handler that
\* overwrites what another one saved.
CacheWhole ==
  \A f \in cached \ torn :
    \/ \E c \in Writing : File(c) = f
    \/ \E d \in Clients : File(d) = f /\ file[f] = Response(d)

\* Chunks of the response to d's request, in their order.
PartOf(d, s) ==
  \A i \in 1..Len(s) :
    /\ \E k \in 1..Length[d] : s[i] = Chunk(d, k)
    /\ \A j \in 1..(i - 1) : s[j][2] < s[i][2]

\* Without races no freed manager is used (handler.c:105 frees it before 106
\* unmaps it) and a client is sent, in order, chunks of one response, also where
\* share_cache reads a file that a crash or a failed write left incomplete: the
\* response to a request named like the one that opened its session, which has
\* the client's path but, as the map knows paths only (handler.c:75), not always
\* its method.  All clients of a session get the same response; one that
\* subscribed before the last chunk is closed with the whole of it, from the
\* origin or from the cache, also after a crash, unless the transfer failed, the
\* file is torn or reading it failed.
ServedWhole ==
  ~raced =>
    /\ ~fault
    /\ \A c \in Clients : \E e \in Clients : \E d \in Clients :
         Path[e] = Path[c] /\ File(d) = File(e) /\ PartOf(d, got[c])
    /\ \A m \in Managers : \E d \in Clients :
         /\ File(d) = File(m)
         /\ \A c \in Clients : mgr[c] = m =>
              /\ PartOf(d, got[c])
              /\ c \in closed /\ m \notin failed /\ joined[c] < Length[d]
                 => got[c] = Response(d)

\* In the end every connection that arrived has been closed, whoever was the
\* main thread of its session, unless requests raced or the process died.
EveryoneClosed ==
  <>[](raced \/ \A c \in Clients : c \in closed \/ hpc[c] \in {"idle", "lost"})
===============================================================================
