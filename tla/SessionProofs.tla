---------------------------- MODULE SessionProofs -----------------------------
(***************************************************************************)
(* The sessions keep paths apart and leave whole cache files, for every    *)
(* set of clients, every assignment of paths, methods, names of cache      *)
(* files and lengths of responses to them, whatever the handlers' races,   *)
(* failed writes and crashes.                                              *)
(*                                                                         *)
(* A manager is named after the client whose handler created it, so it has *)
(* that client's path: all the proof needs of the map is that a node's     *)
(* value has the path that is its key.  A manager has one main thread at   *)
(* most, the one that won the compare-and-swap, so what it has in content  *)
(* is what this thread has put there.  A file that is not torn has one     *)
(* writer at most, and has in it what this writer has written so far.      *)
(*                                                                         *)
(* The second part is about what clients are served while no two requests  *)
(* are in each other's way.  A path then has one manager at most, whose    *)
(* creator is also its main thread, and everyone else at this path is      *)
(* subscribed to it; and every manager has one source, the download whose  *)
(* chunks it hands out.                                                    *)
(***************************************************************************)
EXTENDS Session, SequenceTheorems, WellFoundedInduction, TLAPS

\* What a cache file may have in it, and what a client of path p may be sent.
FileChunks(f) == {x \in Chunks : x = Hole \/ File(x[1]) = f}
ChunksOf(p) ==
  {x \in Chunks : x = Hole \/ \E e \in Clients : Path[e] = p /\ File(x[1]) = File(e)}

MainPCs == {"check", "download", "share", "save", "write", "finish", "destroy"}

\* The parts of TypeOK that no other part speaks of.
Types ==
  /\ \A c \in Clients : method[c] \in Methods[c]
  /\ hpc \in [Clients -> HandlerPCs]
  /\ mgr \in [Clients -> Managers \cup {NoManager}]
  /\ pos \in [Clients -> Nat]
  /\ off \in [Clients -> Nat]
  /\ mstate \in [Managers -> {"none", "live", "stuck", "freed"}]
  /\ busy \subseteq Managers
  /\ failed \subseteq Managers
  /\ joined \in [Clients -> Nat]
  /\ closed \subseteq Clients
  /\ crashes \in 0..MaxCrashes

BoolInv == fault \in BOOLEAN /\ raced \in BOOLEAN

\* Managers, their subscribers and the nodes of the map agree on the path.
PathInv ==
  /\ \A c \in Clients : mgr[c] \in Managers => Path[mgr[c]] = Path[c]
  /\ \A c \in Clients : hpc[c] \in MainPCs \cup {"subscribe", "elect"} => mgr[c] \in Managers
  /\ subs \in [Managers -> SUBSET Clients]
  /\ \A m \in Managers : \A s \in subs[m] : Path[s] = Path[m]
  /\ map \in Seq(MapNodes)
  /\ \A k \in 1..Len(map) : map[k].key = Path[map[k].value]

\* So do the chunks of a manager and those that were sent.
ContentInv ==
  /\ DOMAIN content = Managers
  /\ DOMAIN got = Clients
  /\ \A m \in Managers : content[m] \in Seq(ChunksOf(Path[m]))
  /\ \A c \in Clients : got[c] \in Seq(ChunksOf(Path[c]))

\* t is the beginning of what d's handler downloads, or the whole of it.
Begins(d, t) == \A i \in 1..Len(t) : t[i] = Chunk(d, i)
Whole(d, t) == Len(t) = Length[d] /\ Begins(d, t)

\* A manager's chunks are those its one main thread has put there.
Put(c) ==
  /\ hpc[c] = "check" => content[mgr[c]] = <<>>
  /\ hpc[c] \in {"download", "share"} => Len(content[mgr[c]]) = pos[c]
  /\ hpc[c] = "download" => pos[c] <= Length[c] /\ Begins(c, content[mgr[c]])
  /\ hpc[c] \in {"save", "write"} => Whole(c, content[mgr[c]])
MainInv ==
  /\ \A c \in Clients : hpc[c] \in MainPCs => mgr[c] \in busy
  /\ \A c, d \in Clients :
       hpc[c] \in MainPCs /\ hpc[d] \in MainPCs /\ mgr[c] = mgr[d] => c = d
  /\ \A m \in Managers : m \notin busy => content[m] = <<>>
  /\ \A c \in Clients : Put(c)

\* A file that is not torn is whole, or is being written by one handler, which
\* has written all of the beginning of its response.
CacheInv ==
  /\ cached \subseteq Files
  /\ torn \subseteq Files
  /\ DOMAIN file = Files
  /\ \A f \in Files : file[f] \in Seq(FileChunks(f))
  /\ \A f \in cached \ torn :
       \/ \E c \in Clients : hpc[c] = "write" /\ File(c) = f
       \/ \E d \in Clients : File(d) = f /\ Whole(d, file[f])
  /\ \A c \in Clients : hpc[c] = "write" /\ File(c) \notin torn =>
       /\ Len(file[File(c)]) = pos[c] /\ off[c] = pos[c]
       /\ Begins(c, file[File(c)])
       /\ \A d \in Clients : hpc[d] = "write" /\ File(d) = File(c) => d = c

\* The inductive invariant.
IInv == Types /\ BoolInv /\ PathInv /\ ContentInv /\ MainInv /\ CacheInv

-----------------------------------------------------------------------------
(* What holds as long as no two requests raced *)

OwnerPCs == MainPCs \cup {"subscribe", "elect", "delete"}
EarlyPCs == {"idle", "recv", "create"}

\* c made the manager that its path has now, and is or will be its main thread.
Owns(c) == mgr[c] = c /\ hpc[c] \in OwnerPCs
Owners == {c \in Clients : Owns(c)}

\* A path has one owner at most, and everyone else joins the owner's session.
OwnerInv ==
  /\ \A c \in Clients : hpc[c] \in MainPCs \cup {"delete"} => mgr[c] = c
  /\ \A c \in Clients : hpc[c] \in {"subscribe", "elect"} => Owns(mgr[c])
  /\ \A c, d \in Clients : Owns(c) /\ Owns(d) /\ Path[c] = Path[d] => c = d
  /\ \A c, d \in Clients : hpc[c] = "create" /\ Owns(d) => Path[c] # Path[d]
  /\ \A c \in Clients :
       hpc[c] \in EarlyPCs => mgr[c] = NoManager /\ c \notin busy /\ c \notin failed
  /\ \A c \in Clients : Owns(c) /\ hpc[c] \in {"subscribe", "elect"} => c \notin busy
  /\ \A c \in Clients :
       Owns(c) => mstate[c] = (IF hpc[c] = "delete" THEN "freed" ELSE "live")

\* The map has one node for every owner and no other.
MapInv ==
  /\ \A k \in 1..Len(map) : map[k].value \in Owners
  /\ \A c \in Owners : \E k \in 1..Len(map) : map[k].value = c
  /\ \A j, k \in 1..Len(map) : map[j].value = map[k].value => j = k

\* Subscribers are linked while the session lasts, and closed at its end.
SubsInv ==
  /\ \A m \in Managers : \A s \in subs[m] :
       /\ mgr[s] = m
       /\ hpc[s] \in {"elect", "done"} \cup (MainPCs \ {"destroy"})
       /\ Owns(m) /\ hpc[m] # "destroy" /\ hpc[m] # "delete"
  /\ \A c \in closed : hpc[c] \in {"done", "destroy", "delete"}
  /\ \A c \in closed : \A m \in Managers : c \notin subs[m]

\* A subscriber has been sent all that its manager has, if anything came since
\* it joined; nobody has been sent anything before its session has started.
FreshPCs == {"subscribe", "elect", "check"}
SentInv ==
  /\ \A c \in Clients : hpc[c] \in EarlyPCs => got[c] = <<>>
  /\ \A m \in Managers : \A s \in subs[m] :
       /\ joined[s] <= Len(content[m])
       /\ joined[s] < Len(content[m]) => got[s] = content[m]
  /\ \A c \in Clients : mgr[c] \in Managers =>
       /\ mgr[mgr[c]] = mgr[c]
       /\ hpc[mgr[c]] \in FreshPCs => got[c] = <<>> /\ c \notin closed

\* A cache file has chunks of one download, in their order.
FileInv ==
  /\ \A f \in cached : \E d \in Clients : File(d) = f /\ PartOf(d, file[f])
  /\ \A c \in Clients : hpc[c] = "write" =>
       /\ off[c] = Len(file[File(c)]) /\ PartOf(c, file[File(c)])
       /\ \A i \in 1..Len(file[File(c)]) : file[File(c)][i][2] <= pos[c]

\* Manager m hands out what d's handler downloaded, all of it in the end.
Source(m, d) ==
  /\ File(d) = File(m)
  /\ PartOf(d, content[m])
  /\ \A c \in Clients : mgr[c] = m => PartOf(d, got[c])
  /\ hpc[m] \in {"download", "save", "write"} => d = m
  /\ hpc[m] = "share" =>
       /\ PartOf(d, file[File(m)]) /\ (File(m) \in torn \/ Whole(d, file[File(m)]))
       /\ pos[m] <= Len(file[File(m)])
       /\ \A i \in 1..pos[m] : content[m][i] = file[File(m)][i]
  /\ hpc[m] = "finish" /\ m \notin failed => Whole(d, content[m])
  /\ \A c \in closed :
       mgr[c] = m /\ m \notin failed /\ joined[c] < Length[d] => Whole(d, got[c])
SourceInv == \A m \in Managers : \E d \in Clients : Source(m, d)

\* What a client was sent by a process that died is part of a response too.
Named(c, t) ==
  \E e \in Clients : \E d \in Clients : Path[e] = Path[c] /\ File(d) = File(e) /\ PartOf(d, t)
LeftInv == \A c \in Clients : mgr[c] = NoManager => Named(c, got[c])

\* ~Race, spelled out.
StartPCs == {"recv", "create", "subscribe", "elect"}
EndPCs == {"save", "write", "finish", "destroy", "delete"}
Apart ==
  /\ \A c, d \in Clients :
       hpc[c] \in StartPCs /\ hpc[d] \in StartPCs \cup EndPCs /\ Path[c] = Path[d] => c = d
  /\ \A c, d \in Clients :
       hpc[c] = "write" /\ hpc[d] \in {"write", "share"} /\ File(c) = File(d) => c = d

Calm == OwnerInv /\ MapInv /\ SubsInv /\ SentInv /\ FileInv /\ SourceInv /\ LeftInv
CalmInv == ~raced => Apart /\ ~fault /\ Calm

-----------------------------------------------------------------------------
(* The map *)

\* The first node with a key exists when there is one at all.
LEMMA FirstNodeFacts ==
  ASSUME map \in Seq(MapNodes), NEW key, Nodes(key) # {}
  PROVE  /\ FirstNode(key) \in 1..Len(map)
         /\ map[FirstNode(key)].key = key
         /\ \A j \in Nodes(key) : FirstNode(key) <= j
<1>1. Nodes(key) \subseteq Nat
  BY DEF Nodes
<1> DEFINE R == OpToRel(<, Nat)
<1>2. R = {ss \in Nat \X Nat : ss[1] < ss[2]}
  BY DEF OpToRel
<1>3. IsWellFoundedOn(R, Nat)
  BY NatLessThanWellFounded
<1> HIDE DEF R
<1>4. \E x \in Nodes(key) : \A y \in Nodes(key) : ~(<<y, x>> \in R)
  BY <1>1, <1>3, WFMin
<1>5. \E x \in Nodes(key) : \A y \in Nodes(key) : x <= y
  <2> PICK x \in Nodes(key) : \A y \in Nodes(key) : ~(<<y, x>> \in R)
    BY <1>4
  <2>1. \A y \in Nodes(key) : ~(y < x)
    BY <1>1, <1>2
  <2> QED
    BY <1>1, <2>1
<1>6. FirstNode(key) \in Nodes(key) /\ \A j \in Nodes(key) : FirstNode(key) <= j
  BY <1>5 DEF FirstNode
<1> QED
  BY <1>6 DEF Nodes

\* get returns NULL or a manager of the path.
LEMMA GetFacts ==
  ASSUME PathInv, NEW c \in Clients, get(Path[c]) # NoManager
  PROVE  get(Path[c]) \in Managers /\ Path[get(Path[c])] = Path[c]
<1> DEFINE k == FirstNode(Path[c])
<1>1. Nodes(Path[c]) # {} /\ get(Path[c]) = map[k].value
  BY DEF get
<1>2. k \in 1..Len(map) /\ map[k].key = Path[c]
  BY <1>1, FirstNodeFacts DEF PathInv
<1>3. map[k] \in MapNodes /\ map[k].key = Path[map[k].value]
  BY <1>2 DEF PathInv
<1> QED
  BY <1>1, <1>2, <1>3 DEF MapNodes

\* insert and delete keep the map a sequence of nodes whose key is their path.
LEMMA InsertFacts ==
  ASSUME PathInv, NEW c \in Clients
  PROVE  /\ insert(Path[c], c) \in Seq(MapNodes)
         /\ \A k \in 1..Len(insert(Path[c], c)) :
              insert(Path[c], c)[k].key = Path[insert(Path[c], c)[k].value]
         /\ Len(insert(Path[c], c)) = Len(map) + 1
         /\ insert(Path[c], c)[1].value = c
         /\ \A k \in 2..(Len(map) + 1) : insert(Path[c], c)[k] = map[k - 1]
<1> DEFINE n == [key |-> Path[c], value |-> c]
           t == insert(Path[c], c)
<1>1. <<n>> \in Seq(MapNodes) /\ Len(<<n>>) = 1 /\ <<n>>[1] = n /\ map \in Seq(MapNodes)
  BY DEF MapNodes, Managers, PathInv
<1>2. t = <<n>> \o map
  BY DEF insert
<1> HIDE DEF t
<1>3. /\ t \in Seq(MapNodes) /\ Len(t) = 1 + Len(map)
      /\ \A k \in 1..(1 + Len(map)) : t[k] = IF k <= 1 THEN n ELSE map[k - 1]
  BY <1>1, <1>2, ConcatProperties
<1>4. Len(map) \in Nat
  BY <1>1
<1>5. \A k \in 1..Len(t) : t[k].key = Path[t[k].value]
  <2> SUFFICES ASSUME NEW k \in 1..Len(t) PROVE t[k].key = Path[t[k].value]
    OBVIOUS
  <2>1. CASE k = 1
    BY <1>3, <1>4, <2>1
  <2>2. CASE k # 1
    <3>1. k - 1 \in 1..Len(map) /\ t[k] = map[k - 1]
      BY <1>3, <1>4, <2>2
    <3> QED
      BY <3>1 DEF PathInv
  <2> QED
    BY <2>1, <2>2
<1>6. t[1].value = c /\ \A k \in 2..(Len(map) + 1) : t[k] = map[k - 1]
  BY <1>3, <1>4
<1> QED
  BY <1>3, <1>4, <1>5, <1>6 DEF t

\* The same of delete, which drops the first node with the key.
LEMMA DeleteFacts ==
  ASSUME PathInv, NEW key
  PROVE  /\ delete(key) \in Seq(MapNodes)
         /\ \A k \in 1..Len(delete(key)) :
              \E j \in 1..Len(map) : delete(key)[k] = map[j]
         /\ Nodes(key) # {} =>
              /\ Len(delete(key)) = Len(map) - 1
              /\ \A k \in 1..Len(delete(key)) :
                   delete(key)[k] = IF k < FirstNode(key) THEN map[k] ELSE map[k + 1]
<1>0. map \in Seq(MapNodes) /\ Len(map) \in Nat /\ \A j \in 1..Len(map) : map[j] \in MapNodes
  BY DEF PathInv
<1>1. CASE Nodes(key) = {}
  BY <1>0, <1>1 DEF delete
<1>2. CASE Nodes(key) # {}
  <2> DEFINE q == FirstNode(key)
             a == SubSeq(map, 1, q - 1)
             b == SubSeq(map, q + 1, Len(map))
             t == delete(key)
  <2>1. q \in 1..Len(map)
    BY <1>0, <1>2, FirstNodeFacts
  <2>2. t = a \o b
    BY <1>2 DEF delete
  <2> HIDE DEF q, t
  <2>3. /\ a \in Seq(MapNodes) /\ Len(a) = q - 1
        /\ \A k \in 1..(q - 1) : a[k] = map[k]
    <3>1. 1 \in Int /\ q - 1 \in Int /\ \A j \in 1..(q - 1) : map[j] \in MapNodes
      BY <1>0, <2>1
    <3>2. /\ a \in Seq(MapNodes)
          /\ Len(a) = IF 1 <= q - 1 THEN (q - 1) - 1 + 1 ELSE 0
          /\ \A k \in 1..((q - 1) - 1 + 1) : a[k] = map[1 + k - 1]
      BY <3>1, SubSeqProperties
    <3> QED
      BY <2>1, <3>2
  <2>4. /\ b \in Seq(MapNodes) /\ Len(b) = Len(map) - q
        /\ \A k \in 1..(Len(map) - q) : b[k] = map[q + k]
    <3>1. q + 1 \in Int /\ Len(map) \in Int /\ \A j \in (q + 1)..Len(map) : map[j] \in MapNodes
      BY <1>0, <2>1
    <3>2. /\ b \in Seq(MapNodes)
          /\ Len(b) = IF q + 1 <= Len(map) THEN Len(map) - (q + 1) + 1 ELSE 0
          /\ \A k \in 1..(Len(map) - (q + 1) + 1) : b[k] = map[(q + 1) + k - 1]
      BY <3>1, SubSeqProperties
    <3> QED
      BY <1>0, <2>1, <3>2
  <2> HIDE DEF a, b
  <2>5. /\ t \in Seq(MapNodes) /\ Len(t) = Len(a) + Len(b)
        /\ \A k \in 1..(Len(a) + Len(b)) : t[k] = IF k <= Len(a) THEN a[k] ELSE b[k - Len(a)]
    BY <2>2, <2>3, <2>4, ConcatProperties
  <2>6. \A k \in 1..Len(t) : \E j \in 1..Len(map) : t[k] = map[j]
    <3> SUFFICES ASSUME NEW k \in 1..Len(t) PROVE \E j \in 1..Len(map) : t[k] = map[j]
      OBVIOUS
    <3>1. CASE k <= q - 1
      <4>1. t[k] = map[k] /\ k \in 1..Len(map)
        BY <1>0, <2>1, <2>3, <2>4, <2>5, <3>1
      <4> QED
        BY <4>1
    <3>2. CASE ~(k <= q - 1)
      <4>1. t[k] = map[k + 1] /\ k + 1 \in 1..Len(map)
        BY <1>0, <2>1, <2>3, <2>4, <2>5, <3>2
      <4> QED
        BY <4>1
    <3> QED
      BY <3>1, <3>2
  <2>7. Len(t) = Len(map) - 1
    BY <1>0, <2>1, <2>3, <2>4, <2>5
  <2>8. \A k \in 1..Len(t) : t[k] = IF k < q THEN map[k] ELSE map[k + 1]
    <3> SUFFICES ASSUME NEW k \in 1..Len(t) PROVE t[k] = IF k < q THEN map[k] ELSE map[k + 1]
      OBVIOUS
    <3>1. CASE k < q
      BY <1>0, <2>1, <2>3, <2>4, <2>5, <3>1
    <3>2. CASE ~(k < q)
      BY <1>0, <2>1, <2>3, <2>4, <2>5, <3>2
    <3> QED
      BY <3>1, <3>2
  <2> QED
    BY <2>5, <2>6, <2>7, <2>8 DEF q, t
<1> QED
  BY <1>1, <1>2

-----------------------------------------------------------------------------
(* The inductive invariant *)

\* A step of one handler.
Moves(c) == Accept(c) \/ Reject(c) \/ Step(c)

\* The initial states satisfy the invariant.
LEMMA InitIInv == Init => IInv
<1> SUFFICES ASSUME Init PROVE IInv
  OBVIOUS
<1>1. Types
  BY MaxCrashesAssumption DEF Init, Types, HandlerPCs, Managers
<1>2. BoolInv
  BY DEF Init, BoolInv
<1>3. PathInv
  BY NoManagerAssumption DEF Init, PathInv, Managers, MainPCs
<1>4. ContentInv
  BY DEF Init, ContentInv, Managers
<1>5. MainInv
  BY DEF Init, MainInv, Put, MainPCs, Managers
<1>6. CacheInv
  BY DEF Init, CacheInv
<1> QED
  BY <1>1, <1>2, <1>3, <1>4, <1>5, <1>6 DEF IInv

\* A handler's file is one of the cache files.
LEMMA FileFacts ==
  ASSUME Types, NEW c \in Clients
  PROVE  File(c) \in Files
BY DEF Types, File, Files

\* Chunks of a client's download and of its file are chunks of its path.
LEMMA ChunkSets ==
  ASSUME NEW c \in Clients
  PROVE  /\ \A i \in 1..Length[c] : Chunk(c, i) \in FileChunks(File(c))
         /\ Hole \in FileChunks(File(c))
         /\ FileChunks(File(c)) \subseteq ChunksOf(Path[c])
<1>1. \A i \in 1..Length[c] : Chunk(c, i) \in Chunks /\ Chunk(c, i)[1] = c
  BY DEF Chunks, Chunk
<1>2. Hole \in Chunks
  BY DEF Chunks
<1> HIDE DEF Hole
<1> QED
  BY <1>1, <1>2 DEF FileChunks, ChunksOf

\* Requests keep their methods, so files keep their names.
LEMMA NameFacts ==
  ASSUME method' = method
  PROVE  /\ \A d \in Clients : File(d)' = File(d)
         /\ Files' = Files
         /\ \A f : FileChunks(f)' = FileChunks(f)
         /\ \A p : ChunksOf(p)' = ChunksOf(p)
<1>1. \A d : File(d)' = File(d)
  BY DEF File
<1> QED
  BY <1>1 DEF Files, FileChunks, ChunksOf, File

\* A step of a handler keeps the types.
LEMMA TypesStep ==
  ASSUME IInv, NEW c \in Clients, Moves(c), Watch
  PROVE  Types'
<1> USE DEF Types, Managers
<1>0. Types /\ method' = method
  BY DEF IInv, Watch
<1>1. CASE Accept(c) \/ Reject(c)
  BY <1>0, <1>1 DEF Accept, Reject, Goto, HandlerPCs, clientVars, managerVars
<1>2. CASE Lookup(c)
  <2>1. get(Path[c]) \in Managers \cup {NoManager}
    BY GetFacts DEF IInv
  <2> QED
    BY <1>0, <1>2, <2>1 DEF Lookup, Goto, HandlerPCs, clientVars, managerVars
<1>3. CASE Create(c)
  BY <1>0, <1>3 DEF Create, Goto, HandlerPCs, clientVars, managerVars
<1>4. CASE Subscribe(c)
  <2>1. mgr[c] \in Managers
    BY <1>4 DEF IInv, PathInv, Subscribe
  <2>2. Len(content[mgr[c]]) \in Nat
    BY <2>1 DEF IInv, ContentInv
  <2>3. joined' \in [Clients -> Nat]
    BY <1>0, <1>4, <2>2 DEF Subscribe
  <2>4. hpc' \in [Clients -> HandlerPCs]
    BY <1>0, <1>4 DEF Subscribe, Goto, HandlerPCs
  <2>5. UNCHANGED <<mgr, pos, off, mstate, busy, failed, closed, crashes>>
    BY <1>4 DEF Subscribe
  <2> QED
    BY <1>0, <2>3, <2>4, <2>5
<1>5. CASE Elect(c)
  <2>1. mgr[c] \in Managers
    BY <1>5 DEF IInv, PathInv, Elect
  <2> QED
    BY <1>0, <1>5, <2>1 DEF Elect, Goto, HandlerPCs, clientVars
<1>6. CASE CheckCache(c)
  BY <1>0, <1>6 DEF CheckCache, Goto, HandlerPCs, clientVars, managerVars
<1>7. CASE DownloadChunk(c) \/ ShareChunk(c)
  <2>1. /\ pos' = [pos EXCEPT ![c] = pos[c] + 1]
        /\ UNCHANGED <<hpc, mgr, off, mstate, busy, failed, joined, closed, crashes>>
    BY <1>7 DEF DownloadChunk, ShareChunk
  <2>2. pos' \in [Clients -> Nat]
    BY <1>0, <2>1
  <2> QED
    BY <1>0, <2>1, <2>2
<1>8. CASE DownloadEnds(c) \/ ShareEnds(c) \/ ShareFails(c)
  <2>1. mgr[c] \in Managers
    BY <1>8 DEF IInv, PathInv, DownloadEnds, ShareEnds, ShareFails, MainPCs
  <2> QED
    BY <1>0, <1>8, <2>1 DEF DownloadEnds, ShareEnds, ShareFails, Goto, HandlerPCs, clientVars
<1>9. CASE SaveOpen(c) \/ SaveFails(c) \/ SaveEnds(c)
  <2>1. /\ pos' = [pos EXCEPT ![c] = 0] \/ pos' = pos
        /\ off' = [off EXCEPT ![c] = 0] \/ off' = off
        /\ hpc' = [hpc EXCEPT ![c] = "write"] \/ hpc' = [hpc EXCEPT ![c] = "finish"]
        /\ UNCHANGED <<mgr, mstate, busy, failed, joined, closed, crashes>>
    BY <1>9 DEF SaveOpen, SaveFails, SaveEnds, Goto, clientVars, managerVars
  <2>2. pos' \in [Clients -> Nat] /\ off' \in [Clients -> Nat]
    BY <1>0, <2>1
  <2>3. hpc' \in [Clients -> HandlerPCs]
    BY <1>0, <2>1 DEF HandlerPCs
  <2> QED
    BY <1>0, <2>1, <2>2, <2>3
<1>10. CASE SaveChunk(c) \/ SaveLoses(c)
  <2>1. /\ pos' = [pos EXCEPT ![c] = pos[c] + 1]
        /\ off' = [off EXCEPT ![c] = off[c] + 1] \/ off' = off
        /\ UNCHANGED <<hpc, mgr, mstate, busy, failed, joined, closed, crashes>>
    BY <1>10 DEF SaveChunk, SaveLoses, clientVars, managerVars
  <2>2. pos' \in [Clients -> Nat] /\ off' \in [Clients -> Nat]
    BY <1>0, <2>1
  <2> QED
    BY <1>0, <2>1, <2>2
<1>11. CASE Finish(c)
  <2>1. mgr[c] \in Managers /\ subs[mgr[c]] \subseteq Clients
    BY <1>11 DEF IInv, PathInv, Finish, MainPCs
  <2> QED
    BY <1>0, <1>11, <2>1 DEF Finish, Goto, HandlerPCs
<1>12. CASE Destroy(c)
  BY <1>0, <1>12 DEF Destroy, Goto, HandlerPCs, clientVars
<1>13. CASE Delete(c)
  BY <1>0, <1>13 DEF Delete, Goto, HandlerPCs, clientVars, managerVars
<1> QED
  BY <1>1, <1>2, <1>3, <1>4, <1>5, <1>6, <1>7, <1>8, <1>9, <1>10, <1>11, <1>12, <1>13
  DEF Moves, Step

\* A step of a handler keeps the Boolean variables Boolean.
LEMMA BoolStep ==
  ASSUME BoolInv, NEW c \in Clients, Moves(c), Watch
  PROVE  BoolInv'
<1>1. raced' \in BOOLEAN
  BY DEF BoolInv, Watch
<1>2. fault' = TRUE \/ fault' = fault
  BY DEF Moves, Step, Accept, Reject, Lookup, Create, Subscribe, Elect, CheckCache, DownloadChunk,
         DownloadEnds, SaveOpen, SaveFails, SaveChunk, SaveLoses, SaveEnds, ShareChunk, ShareEnds,
         ShareFails, Finish, Destroy, Delete
<1> QED
  BY <1>1, <1>2, Zenon DEF BoolInv

\* A step of a handler keeps the paths of managers, subscribers and nodes together.
LEMMA PathStep ==
  ASSUME IInv, NEW c \in Clients, Moves(c), Watch
  PROVE  PathInv'
<1> USE DEF Managers, MainPCs
<1>0. /\ PathInv
      /\ hpc \in [Clients -> HandlerPCs]
      /\ mgr \in [Clients -> Managers \cup {NoManager}]
  BY DEF IInv, Types
<1>1. CASE Accept(c) \/ Reject(c)
  BY <1>0, <1>1 DEF PathInv, Accept, Reject, Goto, managerVars
<1>2. CASE Lookup(c)
  <2>1. get(Path[c]) # NoManager => get(Path[c]) \in Managers /\ Path[get(Path[c])] = Path[c]
    BY <1>0, GetFacts
  <2> QED
    BY <1>0, <1>2, <2>1, NoManagerAssumption DEF PathInv, Lookup, Goto, managerVars
<1>3. CASE Create(c)
  <2>1. map' \in Seq(MapNodes) /\ \A k \in 1..Len(map') : map'[k].key = Path[map'[k].value]
    BY <1>0, <1>3, InsertFacts DEF Create
  <2>2. MapNodes' = MapNodes
    BY DEF MapNodes
  <2> QED
    BY <1>0, <1>3, <2>1, <2>2 DEF PathInv, Create, Goto
<1>4. CASE Subscribe(c)
  BY <1>0, <1>4 DEF PathInv, Subscribe, Goto
<1>5. CASE Elect(c)
  BY <1>0, <1>5 DEF PathInv, Elect, Goto
<1>6. CASE \/ CheckCache(c) \/ SaveOpen(c) \/ SaveFails(c) \/ SaveChunk(c) \/ SaveLoses(c)
           \/ SaveEnds(c) \/ ShareEnds(c) \/ ShareFails(c)
  <2>1. /\ UNCHANGED <<mgr, subs, map>> /\ hpc[c] \in MainPCs
        /\ \A d \in Clients \ {c} : hpc'[d] = hpc[d]
    BY <1>0, <1>6 DEF CheckCache, SaveOpen, SaveFails, SaveChunk, SaveLoses, SaveEnds,
                      ShareEnds, ShareFails, Goto, managerVars
  <2> QED
    BY <1>0, <2>1 DEF PathInv
<1>7. CASE DownloadChunk(c) \/ ShareChunk(c)
  BY <1>0, <1>7 DEF PathInv, DownloadChunk, ShareChunk
<1>8. CASE DownloadEnds(c) \/ Destroy(c)
  BY <1>0, <1>8 DEF PathInv, DownloadEnds, Destroy, Goto
<1>9. CASE Finish(c)
  BY <1>0, <1>9 DEF PathInv, Finish, Goto
<1>10. CASE Delete(c)
  <2>1. map' \in Seq(MapNodes)
    BY <1>0, <1>10, DeleteFacts DEF Delete
  <2>2. \A k \in 1..Len(map') : map'[k].key = Path[map'[k].value]
    BY <1>0, <1>10, DeleteFacts DEF Delete, PathInv
  <2>3. MapNodes' = MapNodes
    BY DEF MapNodes
  <2> QED
    BY <1>0, <1>10, <2>1, <2>2, <2>3 DEF PathInv, Delete, Goto, managerVars
<1> QED
  BY <1>1, <1>2, <1>3, <1>4, <1>5, <1>6, <1>7, <1>8, <1>9, <1>10 DEF Moves, Step

\* A chunk of the right path, added, keeps the chunks and what was sent apart by path.
LEMMA AddChunkFacts ==
  ASSUME IInv, NEW c \in Clients, hpc[c] \in MainPCs, NEW x \in ChunksOf(Path[c]), AddChunk(c, x),
         method' = method
  PROVE  /\ ContentInv'
         /\ content'[mgr[c]] = Append(content[mgr[c]], x)
         /\ Len(content'[mgr[c]]) = Len(content[mgr[c]]) + 1
         /\ content'[mgr[c]][Len(content[mgr[c]]) + 1] = x
         /\ \A i \in 1..Len(content[mgr[c]]) : content'[mgr[c]][i] = content[mgr[c]][i]
         /\ \A m \in Managers \ {mgr[c]} : content'[m] = content[m]
<1> DEFINE m == mgr[c]
           new == Append(content[m], x)
<1>1. /\ m \in Managers /\ Path[m] = Path[c]
      /\ content[m] \in Seq(ChunksOf(Path[c]))
      /\ subs[m] \subseteq Clients /\ \A s \in subs[m] : Path[s] = Path[c]
  BY DEF IInv, PathInv, ContentInv
<1>2. /\ new \in Seq(ChunksOf(Path[c])) /\ Len(new) = Len(content[m]) + 1
      /\ new[Len(content[m]) + 1] = x /\ \A i \in 1..Len(content[m]) : new[i] = content[m][i]
  BY <1>1, AppendProperties
<1>3. /\ content' = [content EXCEPT ![m] = new]
      /\ got' = [s \in Clients |-> IF s \in subs[m] THEN new ELSE got[s]]
  BY DEF AddChunk
<1> HIDE DEF m, new
<1>4. \A p : ChunksOf(p)' = ChunksOf(p)
  BY NameFacts
<1>5. /\ DOMAIN content' = Managers /\ DOMAIN got' = Clients
      /\ content'[m] = new
      /\ \A k \in Managers \ {m} : content'[k] = content[k]
  BY <1>1, <1>3 DEF IInv, ContentInv
<1>6. \A k \in Managers : content'[k] \in Seq(ChunksOf(Path[k]))
  BY <1>1, <1>2, <1>5 DEF IInv, ContentInv
<1>7. \A s \in Clients : got'[s] \in Seq(ChunksOf(Path[s]))
  BY <1>1, <1>2, <1>3 DEF IInv, ContentInv
<1>8. ContentInv'
  BY <1>4, <1>5, <1>6, <1>7 DEF ContentInv, Managers
<1> QED
  BY <1>2, <1>5, <1>8 DEF m, new

\* The two actions that add a chunk add one of the path's.
LEMMA ChunkFacts ==
  ASSUME IInv, NEW c \in Clients
  PROVE  /\ DownloadChunk(c) =>
              /\ Chunk(c, pos[c] + 1) \in ChunksOf(Path[c]) /\ pos[c] + 1 \in 1..Length[c]
              /\ AddChunk(c, Chunk(c, pos[c] + 1)) /\ hpc[c] \in MainPCs
         /\ ShareChunk(c) =>
              /\ file[File(c)][pos[c] + 1] \in ChunksOf(Path[c])
              /\ AddChunk(c, file[File(c)][pos[c] + 1]) /\ hpc[c] \in MainPCs
<1>0. pos[c] \in Nat /\ Length[c] \in Nat
  BY LengthAssumption DEF IInv, Types
<1>1. ASSUME DownloadChunk(c) PROVE pos[c] + 1 \in 1..Length[c]
  BY <1>0, <1>1 DEF DownloadChunk
<1>2. ASSUME ShareChunk(c) PROVE file[File(c)][pos[c] + 1] \in FileChunks(File(c))
  <2>1. file[File(c)] \in Seq(FileChunks(File(c)))
    BY FileFacts DEF IInv, CacheInv
  <2>2. pos[c] + 1 \in 1..Len(file[File(c)])
    BY <1>0, <1>2, <2>1 DEF ShareChunk
  <2> QED
    BY <2>1, <2>2
<1>3. DownloadChunk(c) => AddChunk(c, Chunk(c, pos[c] + 1)) /\ hpc[c] \in MainPCs
  BY DEF DownloadChunk, MainPCs
<1>4. ShareChunk(c) => AddChunk(c, file[File(c)][pos[c] + 1]) /\ hpc[c] \in MainPCs
  BY DEF ShareChunk, MainPCs
<1> QED
  BY <1>1, <1>2, <1>3, <1>4, ChunkSets

\* A step of a handler keeps the chunks apart by path.
LEMMA ContentStep ==
  ASSUME IInv, NEW c \in Clients, Moves(c), Watch
  PROVE  ContentInv'
<1>0. ContentInv /\ method' = method /\ \A p : ChunksOf(p)' = ChunksOf(p)
  BY NameFacts DEF IInv, Watch
<1>1. CASE DownloadChunk(c) \/ ShareChunk(c)
  BY <1>0, <1>1, ChunkFacts, AddChunkFacts
<1>2. CASE Destroy(c)
  <2>1. mgr[c] \in Managers /\ content' = [content EXCEPT ![mgr[c]] = <<>>] /\ got' = got
    BY <1>2 DEF Destroy, IInv, PathInv, MainPCs, clientVars
  <2>2. <<>> \in Seq(ChunksOf(Path[mgr[c]]))
    OBVIOUS
  <2>3. \A m \in Managers : content'[m] \in Seq(ChunksOf(Path[m]))
    BY <1>0, <2>1, <2>2 DEF ContentInv
  <2>4. DOMAIN content' = Managers
    BY <1>0, <2>1 DEF ContentInv
  <2> QED
    BY <1>0, <2>1, <2>3, <2>4 DEF ContentInv, Managers
<1>3. CASE ~(DownloadChunk(c) \/ ShareChunk(c) \/ Destroy(c))
  <2>1. content' = content /\ got' = got
    BY <1>3 DEF Moves, Step, Accept, Reject, Lookup, Create, Subscribe, Elect, CheckCache,
                DownloadEnds, SaveOpen, SaveFails, SaveChunk, SaveLoses, SaveEnds, ShareEnds,
                ShareFails, Finish, Delete, managerVars, clientVars
  <2> QED
    BY <1>0, <2>1 DEF ContentInv, Managers
<1> QED
  BY <1>1, <1>2, <1>3

\* A step of a handler leaves every manager at most one main thread, whose
\* chunks it holds.
LEMMA MainStep ==
  ASSUME IInv, NEW c \in Clients, Moves(c), Watch
  PROVE  MainInv'
<1> USE DEF Managers, MainPCs
<1>0. /\ MainInv
      /\ hpc \in [Clients -> HandlerPCs]
      /\ mgr \in [Clients -> Managers \cup {NoManager}]
      /\ pos \in [Clients -> Nat]
      /\ hpc[c] \in MainPCs \cup {"subscribe", "elect"} => mgr[c] \in Managers
      /\ DOMAIN content = Managers
      /\ \A m \in Managers : Len(content[m]) \in Nat
      /\ Length[c] \in Nat /\ method' = method
  BY LengthAssumption DEF IInv, Types, PathInv, ContentInv, Watch
<1>1. CASE Accept(c) \/ Reject(c) \/ Lookup(c) \/ Create(c) \/ Subscribe(c) \/ Delete(c)
  <2>1. /\ hpc'[c] \notin MainPCs /\ \A d \in Clients \ {c} : hpc'[d] = hpc[d] /\ mgr'[d] = mgr[d]
        /\ UNCHANGED <<busy, content, pos>>
    BY <1>0, <1>1 DEF Accept, Reject, Lookup, Create, Subscribe, Delete, Goto, managerVars
  <2>2. \A d \in Clients : hpc'[d] \in MainPCs => mgr'[d] \in busy'
    BY <1>0, <2>1 DEF MainInv
  <2>3. \A d, e \in Clients :
          hpc'[d] \in MainPCs /\ hpc'[e] \in MainPCs /\ mgr'[d] = mgr'[e] => d = e
    BY <1>0, <2>1 DEF MainInv
  <2>4. \A m \in Managers : m \notin busy' => content'[m] = <<>>
    BY <1>0, <2>1 DEF MainInv
  <2>5. \A d \in Clients : Put(d)'
    BY <1>0, <2>1 DEF MainInv, Put
  <2> QED
    BY <2>2, <2>3, <2>4, <2>5 DEF MainInv
<1>2. CASE Elect(c)
  <2>1. CASE mgr[c] \in busy \/ mstate[mgr[c]] = "freed"
    BY <1>0, <1>2, <2>1, SMTT(20) DEF MainInv, Put, Elect, Goto
  <2>2. CASE mgr[c] \notin busy /\ mstate[mgr[c]] # "freed"
    <3>1. /\ busy' = busy \cup {mgr[c]} /\ hpc' = [hpc EXCEPT ![c] = "check"]
          /\ UNCHANGED <<mgr, pos, content>>
      BY <1>2, <2>2 DEF Elect, Goto
    <3>2. content[mgr[c]] = <<>> /\ \A d \in Clients : hpc[d] \in MainPCs => mgr[d] # mgr[c]
      BY <1>0, <1>2, <2>2 DEF MainInv, Elect
    <3> QED
      BY <1>0, <3>1, <3>2 DEF MainInv, Put
  <2> QED
    BY <2>1, <2>2
<1>3. CASE \/ CheckCache(c) \/ DownloadEnds(c) \/ SaveOpen(c) \/ SaveFails(c) \/ SaveChunk(c)
           \/ SaveLoses(c) \/ SaveEnds(c) \/ ShareEnds(c) \/ ShareFails(c) \/ Finish(c)
  <2>1. /\ hpc[c] \in MainPCs /\ UNCHANGED <<mgr, busy, content>>
        /\ \A d \in Clients \ {c} : hpc'[d] = hpc[d] /\ pos'[d] = pos[d]
        /\ \/ hpc[c] = "check" /\ hpc'[c] \in {"download", "share"} /\ pos'[c] = 0
           \/ hpc'[c] \in {"finish", "destroy"}
           \/ hpc[c] \in {"save", "write"} /\ hpc'[c] = "write"
           \/ hpc[c] = "download" /\ pos[c] = Length[c] /\ hpc'[c] = "save"
    BY <1>0, <1>3 DEF CheckCache, DownloadEnds, SaveOpen, SaveFails, SaveChunk, SaveLoses, SaveEnds,
                      ShareEnds, ShareFails, Finish, Goto, managerVars
  <2>2. \A d \in Clients : hpc'[d] \in MainPCs => hpc[d] \in MainPCs
    BY <2>1
  <2>3. \A d \in Clients : hpc'[d] \in MainPCs => mgr'[d] \in busy'
    BY <1>0, <2>1, <2>2 DEF MainInv
  <2>4. \A d, e \in Clients :
          hpc'[d] \in MainPCs /\ hpc'[e] \in MainPCs /\ mgr'[d] = mgr'[e] => d = e
    BY <1>0, <2>1, <2>2 DEF MainInv
  <2>5. \A m \in Managers : m \notin busy' => content'[m] = <<>>
    BY <1>0, <2>1 DEF MainInv
  <2>6. \A d \in Clients \ {c} : Put(d)'
    BY <1>0, <2>1 DEF MainInv, Put
  <2>7. Put(c)'
    <3>1. Put(c) /\ Len(<<>>) = 0 /\ Begins(c, <<>>)
      BY <1>0 DEF MainInv, Begins
    <3> QED
      BY <1>0, <2>1, <3>1 DEF Put, Whole
  <2> QED
    BY <2>3, <2>4, <2>5, <2>6, <2>7 DEF MainInv
<1>4. CASE DownloadChunk(c) \/ ShareChunk(c)
  <2>1. /\ UNCHANGED <<hpc, mgr, busy>> /\ pos' = [pos EXCEPT ![c] = @ + 1]
        /\ hpc[c] \in {"download", "share"} /\ mgr[c] \in Managers
    BY <1>0, <1>4 DEF DownloadChunk, ShareChunk
  <2>2. /\ Len(content'[mgr[c]]) = Len(content[mgr[c]]) + 1
        /\ \A i \in 1..Len(content[mgr[c]]) : content'[mgr[c]][i] = content[mgr[c]][i]
        /\ \A m \in Managers \ {mgr[c]} : content'[m] = content[m]
    BY <1>0, <1>4, ChunkFacts, AddChunkFacts
  <2>3. \A m \in Managers : m \notin busy' => content'[m] = <<>>
    BY <1>0, <2>1, <2>2 DEF MainInv
  <2>4. \A d \in Clients \ {c} : hpc[d] \in MainPCs => mgr[d] \in Managers \ {mgr[c]}
    BY <1>0, <2>1 DEF MainInv, IInv, PathInv
  <2>5. \A d \in Clients \ {c} : Put(d)'
    BY <1>0, <2>1, <2>2, <2>4 DEF MainInv, Put
  <2>6. Put(c)'
    <3>1. CASE DownloadChunk(c)
      <4>1. /\ content'[mgr[c]][Len(content[mgr[c]]) + 1] = Chunk(c, pos[c] + 1)
            /\ pos[c] + 1 \in 1..Length[c]
        BY <1>0, <3>1, ChunkFacts, AddChunkFacts
      <4>2. hpc[c] = "download" /\ Len(content[mgr[c]]) = pos[c] /\ Begins(c, content[mgr[c]])
        BY <1>0, <3>1 DEF MainInv, Put, DownloadChunk
      <4>3. pos'[c] = pos[c] + 1 /\ Len(content'[mgr[c]]) = pos[c] + 1 /\ pos[c] \in Nat
        BY <1>0, <2>1, <2>2, <4>2
      <4>4. Begins(c, content'[mgr[c]])
        <5> SUFFICES ASSUME NEW i \in 1..(pos[c] + 1) PROVE content'[mgr[c]][i] = Chunk(c, i)
          BY <4>3 DEF Begins
        <5>1. CASE i = pos[c] + 1
          BY <4>1, <4>2, <5>1
        <5>2. CASE i # pos[c] + 1
          <6>1. i \in 1..pos[c]
            BY <4>3, <5>2
          <6> QED
            BY <2>2, <4>2, <6>1 DEF Begins
        <5> QED
          BY <5>1, <5>2
      <4> QED
        BY <1>0, <2>1, <4>1, <4>2, <4>3, <4>4 DEF Put
    <3>2. CASE ShareChunk(c)
      BY <1>0, <2>1, <2>2, <3>2 DEF MainInv, Put, ShareChunk
    <3> QED
      BY <1>4, <3>1, <3>2
  <2> QED
    BY <1>0, <2>1, <2>3, <2>5, <2>6 DEF MainInv
<1>5. CASE Destroy(c)
  <2>1. /\ content' = [content EXCEPT ![mgr[c]] = <<>>] /\ UNCHANGED <<mgr, busy, pos>>
        /\ hpc[c] = "destroy" /\ mgr[c] \in Managers
        /\ \/ hpc' = [hpc EXCEPT ![c] = "delete"]
           \/ hpc' = [hpc EXCEPT ![c] = "stuck"]
    BY <1>0, <1>5 DEF Destroy, Goto
  <2>2. \A d \in Clients \ {c} : hpc[d] \in MainPCs => mgr[d] \in Managers \ {mgr[c]}
    BY <1>0, <2>1 DEF MainInv, IInv, PathInv
  <2>3. /\ content'[mgr[c]] = <<>> /\ Len(<<>>) = 0
        /\ \A m \in Managers \ {mgr[c]} : content'[m] = content[m]
    BY <1>0, <2>1
  <2>4. hpc'[c] \notin MainPCs /\ \A d \in Clients \ {c} : hpc'[d] = hpc[d]
    BY <1>0, <2>1
  <2> QED
    <3>1. \A m \in Managers : m \notin busy' => content'[m] = <<>>
      BY <1>0, <2>1, <2>3 DEF MainInv
    <3>2. \A d \in Clients : Put(d)'
      BY <1>0, <2>1, <2>2, <2>3, <2>4 DEF MainInv, Put
    <3> QED
      BY <1>0, <2>1, <2>4, <3>1, <3>2 DEF MainInv
<1> QED
  BY <1>1, <1>2, <1>3, <1>4, <1>5 DEF Moves, Step

\* A write gives a sequence, and at the end of the file appends to it.
LEMMA WriteFacts ==
  ASSUME NEW S, NEW s \in Seq(S), NEW o \in Nat, NEW x \in S, Hole \in S
  PROVE  /\ WriteAt(s, o, x) \in Seq(S)
         /\ o = Len(s) => WriteAt(s, o, x) = Append(s, x)
<1> HIDE DEF Hole
<1> DEFINE n == IF Len(s) > o THEN Len(s) ELSE o + 1
           t == WriteAt(s, o, x)
<1>1. n \in Nat /\ t = [i \in 1..n |-> IF i = o + 1 THEN x ELSE IF i <= Len(s) THEN s[i] ELSE Hole]
  BY DEF WriteAt
<1> HIDE DEF n
<1>2. \A i \in 1..n :
        (IF i = o + 1 THEN x ELSE IF i <= Len(s) THEN s[i] ELSE Hole) \in S
  BY <1>1
<1>3. t \in [1..n -> S]
  BY <1>1, <1>2
<1>4. t \in Seq(S) /\ Len(t) = n
  BY <1>1, <1>3
<1>5. ASSUME o = Len(s) PROVE t = Append(s, x)
  <2>1. n = Len(s) + 1
    BY <1>5 DEF n
  <2>2. \A i \in 1..n : t[i] = Append(s, x)[i]
    BY <1>1, <1>5, <2>1
  <2>3. Append(s, x) \in Seq(S) /\ Len(Append(s, x)) = n
    BY <2>1
  <2> QED
    BY <1>4, <2>2, <2>3, SeqEqual
<1> QED
  BY <1>4, <1>5

\* One handler's chunk, lost or written, or its opening or closing of the file
\* leaves the others' files as they are, and its own one torn, whole or begun.
LEMMA CacheStep ==
  ASSUME IInv, NEW c \in Clients, Moves(c), Watch
  PROVE  CacheInv'
<1> DEFINE F == File(c)
           Held(f) == \/ \E d \in Clients : hpc'[d] = "write" /\ File(d) = f
                      \/ \E d \in Clients : File(d) = f /\ Whole(d, file'[f])
           Own(d) == /\ Len(file'[File(d)]) = pos'[d] /\ off'[d] = pos'[d]
                     /\ Begins(d, file'[File(d)])
                     /\ \A e \in Clients : hpc'[e] = "write" /\ File(e) = File(d) => e = d
<1>0. /\ CacheInv /\ DOMAIN file = Files
      /\ hpc \in [Clients -> HandlerPCs]
      /\ pos \in [Clients -> Nat] /\ off \in [Clients -> Nat]
      /\ \A d \in Clients : File(d) \in Files
      /\ \A d \in Clients : File(d)' = File(d)
      /\ Files' = Files /\ \A f : FileChunks(f)' = FileChunks(f)
      /\ cached \subseteq Files /\ torn \subseteq Files
      /\ \A f \in Files : file[f] \in Seq(FileChunks(f))
  BY FileFacts, NameFacts DEF IInv, Types, CacheInv, Watch
<1>1. SUFFICES /\ cached' \subseteq Files /\ torn' \subseteq Files /\ DOMAIN file' = Files
               /\ \A f \in Files : file'[f] \in Seq(FileChunks(f))
               /\ \A f \in cached' \ torn' : Held(f)
               /\ \A d \in Clients : hpc'[d] = "write" /\ File(d) \notin torn' => Own(d)
  <2>1. (\A f \in Files : file[f] \in Seq(FileChunks(f)))'
    BY <1>0, <1>1
  <2>2. (\A f \in cached \ torn :
           \/ \E d \in Clients : hpc[d] = "write" /\ File(d) = f
           \/ \E d \in Clients : File(d) = f /\ Whole(d, file[f]))'
    BY <1>0, <1>1
  <2>3. ASSUME NEW d \in Clients, hpc'[d] = "write", File(d)' \notin torn'
        PROVE  (/\ Len(file[File(d)]) = pos[d] /\ off[d] = pos[d]
                /\ Begins(d, file[File(d)])
                /\ \A e \in Clients : hpc[e] = "write" /\ File(e) = File(d) => e = d)'
    <3>1. Own(d) /\ File(d)' = File(d) /\ \A e \in Clients : File(e)' = File(e)
      BY <1>0, <1>1, <2>3
    <3> QED
      BY <3>1
  <2> QED
    BY <1>0, <1>1, <2>1, <2>2, <2>3 DEF CacheInv
<1>2. CASE ~(SaveOpen(c) \/ SaveChunk(c) \/ SaveLoses(c) \/ SaveEnds(c))
  <2>1. /\ UNCHANGED <<cached, file, torn>>
        /\ \A d \in Clients : hpc'[d] = "write" <=> hpc[d] = "write"
        /\ \A d \in Clients : hpc[d] = "write" => pos'[d] = pos[d] /\ off'[d] = off[d]
    BY <1>0, <1>2 DEF Moves, Step, Accept, Reject, Lookup, Create, Subscribe, Elect, CheckCache,
                DownloadChunk, DownloadEnds, SaveFails, ShareChunk, ShareEnds, ShareFails, Finish,
                Destroy, Delete, Goto, fileVars
  <2> QED
    BY <1>0, <2>1 DEF CacheInv
<1>3. CASE SaveOpen(c)
  <2>1. /\ cached' = cached \cup {F} /\ file' = [file EXCEPT ![F] = <<>>]
        /\ hpc' = [hpc EXCEPT ![c] = "write"] /\ pos' = [pos EXCEPT ![c] = 0]
        /\ off' = [off EXCEPT ![c] = 0] /\ hpc[c] = "save"
        /\ torn' = IF \E d \in Clients : hpc[d] = "write" /\ File(d) = F
                     THEN torn \cup {F} ELSE torn
    BY <1>3 DEF SaveOpen, Goto
  <2>2. /\ \A f \in Files \ {F} : file'[f] = file[f]
        /\ file'[F] = <<>> /\ DOMAIN file' = Files
        /\ hpc'[c] = "write" /\ pos'[c] = 0 /\ off'[c] = 0
        /\ \A d \in Clients \ {c} : hpc'[d] = hpc[d] /\ pos'[d] = pos[d] /\ off'[d] = off[d]
    BY <1>0, <2>1
  <2>3. torn \subseteq torn' /\ torn' \subseteq Files
        /\ \A f \in Files \ {F} : f \in torn' => f \in torn
    BY <1>0, <2>1
  <2>4. F \notin torn' => \A d \in Clients : hpc'[d] = "write" /\ File(d) = F => d = c
    BY <2>1, <2>2
  <2> HIDE DEF F
  <2>5. \A f \in cached' \ torn' : Held(f)
    <3> SUFFICES ASSUME NEW f \in cached' \ torn' PROVE Held(f)
      OBVIOUS
    <3>1. CASE f = F
      BY <2>2, <3>1 DEF F
    <3>2. CASE f # F
      <4>1. f \in cached \ torn /\ file'[f] = file[f]
        BY <1>0, <2>1, <2>2, <2>3, <3>2
      <4> QED
        BY <1>0, <2>1, <2>2, <4>1 DEF CacheInv
    <3> QED
      BY <3>1, <3>2
  <2>6. ASSUME NEW d \in Clients, hpc'[d] = "write", File(d) \notin torn' PROVE Own(d)
    <3>1. CASE d = c
      <4>1. File(d) = F /\ Begins(d, <<>>) /\ Len(<<>>) = 0
        BY <3>1 DEF F, Begins
      <4> QED
        BY <2>2, <2>4, <2>6, <3>1, <4>1
    <3>2. CASE d # c
      <4>1. File(d) # F
        BY <2>4, <2>6, <3>2
      <4>2. hpc[d] = "write" /\ File(d) \notin torn /\ file'[File(d)] = file[File(d)]
        BY <1>0, <2>2, <2>3, <2>6, <3>2, <4>1
      <4>3. \A e \in Clients : hpc'[e] = "write" /\ File(e) = File(d) => hpc[e] = "write"
        BY <2>2, <4>1 DEF F
      <4> QED
        BY <1>0, <2>2, <3>2, <4>2, <4>3 DEF CacheInv
    <3> QED
      BY <3>1, <3>2
  <2>7. \A f \in Files : file'[f] \in Seq(FileChunks(f))
    <3>1. <<>> \in Seq(FileChunks(F))
      OBVIOUS
    <3> QED
      BY <1>0, <2>2, <3>1
  <2> QED
    BY <1>0, <2>1, <2>2, <2>3, <2>5, <2>6, <2>7 DEF F
<1>4. CASE SaveChunk(c)
  <2> DEFINE x == content[mgr[c]][pos[c] + 1]
             t == WriteAt(file[F], off[c], x)
  <2>1. /\ hpc[c] = "write" /\ UNCHANGED <<hpc, cached, torn>>
        /\ pos' = [pos EXCEPT ![c] = pos[c] + 1] /\ off' = [off EXCEPT ![c] = off[c] + 1]
        /\ pos[c] < Len(content[mgr[c]])
        /\ file' = [file EXCEPT ![F] = t]
    BY <1>4 DEF SaveChunk
  <2>2. Whole(c, content[mgr[c]]) /\ Length[c] \in Nat /\ pos[c] \in Nat /\ off[c] \in Nat
    BY <1>0, <2>1, LengthAssumption DEF IInv, MainInv, Put
  <2>3. x = Chunk(c, pos[c] + 1) /\ pos[c] + 1 \in 1..Length[c]
    BY <2>1, <2>2 DEF Whole, Begins
  <2>4. x \in FileChunks(F) /\ Hole \in FileChunks(F)
    BY <2>3, ChunkSets
  <2>5. /\ t \in Seq(FileChunks(F))
        /\ off[c] = Len(file[F]) =>
             /\ Len(t) = off[c] + 1 /\ t[off[c] + 1] = x
             /\ \A i \in 1..off[c] : t[i] = file[F][i]
    <3>1. file[F] \in Seq(FileChunks(F)) /\ off[c] \in Nat
      BY <1>0, <2>2
    <3> HIDE DEF x, F
    <3>2. t \in Seq(FileChunks(F)) /\ (off[c] = Len(file[F]) => t = Append(file[F], x))
      BY <2>4, <3>1, WriteFacts
    <3> QED
      BY <2>4, <3>1, <3>2
  <2> HIDE DEF x, t, F
  <2>6. /\ DOMAIN file' = Files /\ file'[F] = t
        /\ \A f \in Files \ {F} : file'[f] = file[f]
        /\ pos'[c] = pos[c] + 1 /\ off'[c] = off[c] + 1
        /\ \A d \in Clients \ {c} : pos'[d] = pos[d] /\ off'[d] = off[d]
    BY <1>0, <2>1 DEF F
  <2>7. \A f \in Files : file'[f] \in Seq(FileChunks(f))
    BY <1>0, <2>5, <2>6
  <2>8. \A f \in cached' \ torn' : Held(f)
    <3> SUFFICES ASSUME NEW f \in cached \ torn PROVE Held(f)
      BY <2>1
    <3>1. CASE f = F
      BY <2>1, <3>1 DEF F
    <3>2. CASE f # F
      BY <1>0, <2>1, <2>6, <3>2 DEF CacheInv
    <3> QED
      BY <3>1, <3>2
  <2>9. ASSUME NEW d \in Clients, hpc'[d] = "write", File(d) \notin torn' PROVE Own(d)
    <3>0. hpc[d] = "write" /\ File(d) \notin torn
      BY <2>1, <2>9
    <3>1. CASE d = c
      <4>1. /\ Len(file[F]) = pos[c] /\ off[c] = pos[c] /\ Begins(c, file[F])
            /\ \A e \in Clients : hpc[e] = "write" /\ File(e) = F => e = c
        BY <1>0, <3>0, <3>1 DEF CacheInv, F
      <4>2. Begins(c, t)
        <5> SUFFICES ASSUME NEW i \in 1..(pos[c] + 1) PROVE t[i] = Chunk(c, i)
          BY <2>5, <4>1 DEF Begins
        <5>1. CASE i = pos[c] + 1
          BY <2>3, <2>5, <4>1, <5>1
        <5>2. CASE i # pos[c] + 1
          <6>1. i \in 1..pos[c]
            BY <2>2, <5>2
          <6> QED
            BY <2>5, <4>1, <6>1 DEF Begins
        <5> QED
          BY <5>1, <5>2
      <4> QED
        BY <2>1, <2>5, <2>6, <3>1, <4>1, <4>2 DEF F
    <3>2. CASE d # c
      <4>1. File(d) # F
        BY <1>0, <2>1, <3>0, <3>2 DEF CacheInv, F
      <4> QED
        BY <1>0, <2>1, <2>6, <3>0, <3>2, <4>1 DEF CacheInv
    <3> QED
      BY <3>1, <3>2
  <2> QED
    BY <1>0, <2>1, <2>6, <2>7, <2>8, <2>9
<1>5. CASE SaveLoses(c)
  <2>1. /\ hpc[c] = "write" /\ UNCHANGED <<hpc, cached, file, off>> /\ torn' = torn \cup {F}
        /\ pos' = [pos EXCEPT ![c] = pos[c] + 1]
    BY <1>5 DEF SaveLoses
  <2>2. \A d \in Clients \ {c} : pos'[d] = pos[d]
    BY <1>0, <2>1
  <2>3. ASSUME NEW d \in Clients, hpc'[d] = "write", File(d) \notin torn' PROVE Own(d)
    <3>1. d # c /\ File(d) \notin torn /\ hpc[d] = "write"
      BY <2>1, <2>3
    <3> QED
      BY <1>0, <2>1, <2>2, <3>1 DEF CacheInv
  <2>4. \A f \in cached' \ torn' : Held(f)
    BY <1>0, <2>1 DEF CacheInv
  <2> QED
    BY <1>0, <2>1, <2>3, <2>4
<1>6. CASE SaveEnds(c)
  <2>1. /\ hpc[c] = "write" /\ UNCHANGED <<pos, off, cached, file, torn>>
        /\ hpc' = [hpc EXCEPT ![c] = "finish"]
        /\ pos[c] = Len(content[mgr[c]])
    BY <1>6 DEF SaveEnds, Goto, fileVars
  <2>2. hpc'[c] # "write" /\ \A d \in Clients \ {c} : hpc'[d] = hpc[d]
    BY <1>0, <2>1
  <2>3. pos[c] = Length[c]
    BY <2>1 DEF IInv, MainInv, Put, Whole
  <2>4. F \notin torn => Whole(c, file[F])
    BY <1>0, <2>1, <2>3 DEF CacheInv, Whole
  <2> HIDE DEF F
  <2>5. \A f \in cached' \ torn' : Held(f)
    <3> SUFFICES ASSUME NEW f \in cached \ torn PROVE Held(f)
      BY <2>1
    <3>1. CASE f = F
      BY <2>1, <2>4, <3>1 DEF F
    <3>2. CASE f # F
      <4>1. \A d \in Clients : File(d) = f => d # c
        BY <3>2 DEF F
      <4> QED
        BY <1>0, <2>1, <2>2, <4>1 DEF CacheInv
    <3> QED
      BY <3>1, <3>2
  <2>6. ASSUME NEW d \in Clients, hpc'[d] = "write", File(d) \notin torn' PROVE Own(d)
    <3>1. d # c /\ File(d) \notin torn /\ hpc[d] = "write"
      BY <2>1, <2>2, <2>6
    <3>2. \A e \in Clients : hpc'[e] = "write" => hpc[e] = "write"
      BY <2>1, <2>2
    <3> QED
      BY <1>0, <2>1, <3>1, <3>2 DEF CacheInv
  <2> QED
    BY <1>0, <2>1, <2>5, <2>6
<1> QED
  BY <1>2, <1>3, <1>4, <1>5, <1>6

\* A crash empties what the invariant speaks of, except the cache files, of which
\* it tears those being written, and what was sent.
LEMMA CrashStep ==
  ASSUME IInv, Crash, Watch
  PROVE  IInv'
<1>0. method' = method
  BY DEF Watch
<1>1. Types'
  BY <1>0, MaxCrashesAssumption DEF IInv, Types, Crash, HandlerPCs, Managers, clientVars
<1>2. BoolInv'
  <2>1. raced' \in BOOLEAN /\ fault' = fault
    BY DEF IInv, BoolInv, Crash, Watch
  <2> QED
    BY <2>1 DEF IInv, BoolInv
<1>3. PathInv'
  BY NoManagerAssumption DEF PathInv, Crash, Managers, MainPCs, IInv, Types
<1>4. ContentInv'
  <2>1. got' = got /\ content' = [m \in Managers |-> <<>>] /\ \A p : ChunksOf(p)' = ChunksOf(p)
    BY <1>0, NameFacts DEF Crash, clientVars
  <2> QED
    BY <2>1 DEF IInv, ContentInv, Managers
<1>5. MainInv'
  BY DEF MainInv, Put, Crash, Managers, MainPCs
<1>6. CacheInv'
  <2>1. /\ cached' = cached /\ file' = file
        /\ torn' = torn \cup {File(c) : c \in {d \in Clients : hpc[d] = "write"}}
        /\ \A d \in Clients : hpc'[d] # "write"
    BY DEF Crash
  <2>2. /\ Files' = Files /\ \A f : FileChunks(f)' = FileChunks(f)
        /\ \A d \in Clients : File(d)' = File(d)
        /\ \A d \in Clients : File(d) \in Files
    BY <1>0, NameFacts, FileFacts DEF IInv
  <2>3. CacheInv /\ torn' \subseteq Files
    BY <2>1, <2>2 DEF IInv, CacheInv
  <2>4. \A f \in cached' \ torn' : \E d \in Clients : File(d) = f /\ Whole(d, file'[f])
    BY <2>1, <2>3 DEF CacheInv
  <2> QED
    BY <2>1, <2>2, <2>3, <2>4 DEF CacheInv
<1> QED
  BY <1>1, <1>2, <1>3, <1>4, <1>5, <1>6 DEF IInv

\* Every step preserves the invariant.
LEMMA NextIInv == IInv /\ [Next]_vars => IInv'
<1> SUFFICES ASSUME IInv, [Next]_vars PROVE IInv'
  OBVIOUS
<1>1. CASE \E c \in Clients : Moves(c) /\ Watch
  <2> PICK c \in Clients : Moves(c) /\ Watch
    BY <1>1
  <2>1. BoolInv'
    BY BoolStep DEF IInv
  <2> QED
    BY <2>1, TypesStep, PathStep, ContentStep, MainStep, CacheStep DEF IInv
<1>2. CASE Crash /\ Watch
  BY <1>2, CrashStep
<1>3. CASE UNCHANGED vars
  <2>0. /\ method' = method
        /\ \A d \in Clients : File(d)' = File(d)
        /\ Files' = Files /\ \A f : FileChunks(f)' = FileChunks(f)
        /\ \A p : ChunksOf(p)' = ChunksOf(p)
    BY <1>3, NameFacts DEF vars
  <2>1. Types' /\ PathInv' /\ MainInv'
    BY <1>3 DEF vars, handlerVars, managerVars, clientVars, IInv, Types, PathInv, MainInv, Put,
                Managers, HandlerPCs, MainPCs, MapNodes
  <2>2. BoolInv'
    BY <1>3 DEF vars, IInv, BoolInv
  <2>3. ContentInv'
    BY <1>3, <2>0 DEF vars, managerVars, clientVars, IInv, ContentInv, Managers
  <2>4. CacheInv'
    BY <1>3, <2>0 DEF vars, handlerVars, fileVars, IInv, CacheInv
  <2> QED
    BY <2>1, <2>2, <2>3, <2>4 DEF IInv
<1> QED
  BY <1>1, <1>2, <1>3 DEF Next, Handle, Moves, Quiet

-----------------------------------------------------------------------------
(* The theorems *)

\* The inductive invariant holds in every reachable state.
THEOREM Invariance == Spec => []IInv
BY InitIInv, NextIInv, PTL DEF Spec

\* The chunks of a path and of a file are chunks.
LEMMA ChunkTypes ==
  /\ \A p : \A t \in Seq(ChunksOf(p)) : t \in Seq(Chunks)
  /\ \A f : \A t \in Seq(FileChunks(f)) : t \in Seq(Chunks)
<1>1. \A p : ChunksOf(p) \subseteq Chunks
  BY DEF ChunksOf
<1>2. \A f : FileChunks(f) \subseteq Chunks
  BY DEF FileChunks
<1> QED
  BY <1>1, <1>2

\* Whatever requests race, writes fail and processes crash, a client is only
\* sent chunks downloaded for its own path, or for one that has the same cache
\* file (handle_client of handler.c, the map of hashmap.c and the file names of
\* cache.c); and the variables keep their types.
THEOREM PathsApart == Spec => []PathsNotMixed
<1>1. IInv => PathsNotMixed
  <2> SUFFICES ASSUME IInv PROVE PathsNotMixed
    OBVIOUS
  <2>1. TypeOK
    <3>1. \A m \in Managers : content[m] \in Seq(Chunks)
      BY ChunkTypes DEF IInv, ContentInv
    <3>2. \A f \in Files : file[f] \in Seq(Chunks)
      BY ChunkTypes DEF IInv, CacheInv
    <3> QED
      BY <3>1, <3>2 DEF IInv, Types, BoolInv, PathInv, CacheInv, TypeOK
  <2>2. ASSUME NEW c \in Clients, NEW i \in 1..Len(got[c]), got[c][i] # Hole
        PROVE  \E e \in Clients : Path[e] = Path[c] /\ File(got[c][i][1]) = File(e)
    <3>1. got[c] \in Seq(ChunksOf(Path[c]))
      BY DEF IInv, ContentInv
    <3>2. got[c][i] \in ChunksOf(Path[c])
      BY <3>1
    <3> QED
      BY <2>2, <3>2 DEF ChunksOf
  <2> QED
    BY <2>1, <2>2 DEF PathsNotMixed
<1> QED
  BY <1>1, Invariance, PTL

\* The beginning of a response that is as long is the response.
LEMMA WholeFacts ==
  ASSUME NEW S, NEW t \in Seq(S), NEW d \in Clients, Whole(d, t)
  PROVE  t = Response(d)
<1> DEFINE R == Response(d)
           C == {Chunk(d, i) : i \in 1..Length[d]}
<1>1. Length[d] \in Nat /\ Len(t) = Length[d] /\ \A i \in 1..Len(t) : t[i] = Chunk(d, i)
  BY LengthAssumption DEF Whole, Begins
<1>2. \A i \in 1..Length[d] : R[i] = Chunk(d, i) /\ R[i] \in C
  BY DEF Response
<1>3. R \in Seq(C) /\ Len(R) = Length[d]
  BY <1>1, SMTT(20) DEF Response
<1>4. t \in Seq(C)
  BY <1>1
<1> HIDE DEF R, C
<1>5. \A i \in 1..Len(t) : t[i] = R[i]
  BY <1>1, <1>2
<1> QED
  BY <1>1, <1>3, <1>4, <1>5, SeqEqual DEF R

\* A cache file that nobody is writing holds one whole 2xx response, also after
\* a crash and whatever requests race, unless a write to it failed, two handlers
\* wrote it at once or the process died writing it (save_cache of cache.c,
\* called at handler.c:121).
THEOREM CacheFilesWhole == Spec => []CacheWhole
<1>1. IInv => CacheWhole
  <2> SUFFICES ASSUME IInv, NEW f \in cached \ torn
               PROVE  \/ \E c \in Writing : File(c) = f
                      \/ \E d \in Clients : File(d) = f /\ file[f] = Response(d)
    BY DEF CacheWhole
  <2>1. CASE \E c \in Clients : hpc[c] = "write" /\ File(c) = f
    BY <2>1 DEF Writing
  <2>2. CASE \E d \in Clients : File(d) = f /\ Whole(d, file[f])
    <3>1. file[f] \in Seq(FileChunks(f))
      BY DEF IInv, CacheInv
    <3> QED
      BY <2>2, <3>1, WholeFacts
  <2> QED
    BY <2>1, <2>2 DEF IInv, CacheInv
<1> QED
  BY <1>1, Invariance, PTL

-----------------------------------------------------------------------------
(* Without races *)

\* Apart is the negation of Race.
LEMMA ApartFacts == ~Race => Apart
BY DEF Race, Apart, Starting, Ending, Writing, Reading, StartPCs, EndPCs

\* What get returns is the session of the path's owner, if the path has one.
LEMMA LookupFacts ==
  ASSUME IInv, Calm, NEW c \in Clients
  PROVE  IF get(Path[c]) = NoManager
           THEN \A d \in Clients : Owns(d) => Path[d] # Path[c]
           ELSE get(Path[c]) \in Clients /\ Owns(get(Path[c]))
<1> USE NoManagerAssumption DEF Managers
<1>0. PathInv /\ MapInv /\ map \in Seq(MapNodes) /\ \A k \in 1..Len(map) : map[k] \in MapNodes
  BY DEF IInv, Calm, PathInv
<1>1. CASE Nodes(Path[c]) = {}
  <2>1. get(Path[c]) = NoManager
    BY <1>1 DEF get
  <2>2. \A k \in 1..Len(map) : Path[map[k].value] # Path[c]
    BY <1>0, <1>1 DEF PathInv, Nodes
  <2> QED
    BY <1>0, <2>1, <2>2 DEF MapInv, Owners
<1>2. CASE Nodes(Path[c]) # {}
  <2> DEFINE k == FirstNode(Path[c])
  <2>1. k \in 1..Len(map) /\ get(Path[c]) = map[k].value
    BY <1>0, <1>2, FirstNodeFacts DEF get
  <2>2. map[k].value \in Clients
    BY <1>0, <2>1 DEF MapNodes
  <2> QED
    BY <1>0, <2>1, <2>2 DEF MapInv, Owners
<1> QED
  BY <1>1, <1>2

\* A handler on its way to a session finds it alive: it is the owner itself, or
\* the owner is the main thread and not yet ending.
LEMMA JoinFacts ==
  ASSUME IInv, Apart, Calm, NEW c \in Clients, hpc[c] \in {"subscribe", "elect"}
  PROVE  /\ mgr[c] \in Clients /\ Owns(mgr[c]) /\ Path[mgr[c]] = Path[c]
         /\ mstate[mgr[c]] = "live"
         /\ mgr[c] = c \/ (mgr[c] \in busy /\ hpc[mgr[c]] \in {"check", "download", "share"})
<1> DEFINE m == mgr[c]
<1>1. m \in Clients /\ Owns(m) /\ Path[m] = Path[c] /\ mgr[m] = m
  BY DEF IInv, PathInv, Calm, OwnerInv, Owns, Managers
<1>2. m # c => hpc[m] \in {"check", "download", "share"}
  BY <1>1 DEF Apart, StartPCs, EndPCs, Owns, OwnerPCs, MainPCs
<1>3. hpc[m] \in {"check", "download", "share"} => m \in busy
  BY <1>1 DEF IInv, MainInv, MainPCs
<1>4. mstate[m] = "live"
  BY <1>1, <1>2 DEF Calm, OwnerInv
<1> QED
  BY <1>1, <1>2, <1>3, <1>4

\* The steps of a main thread before it destroys the manager.
Middle(c) ==
  \/ CheckCache(c) \/ DownloadChunk(c) \/ DownloadEnds(c) \/ SaveOpen(c) \/ SaveFails(c)
  \/ SaveChunk(c) \/ SaveLoses(c) \/ SaveEnds(c)
  \/ ShareChunk(c) \/ ShareEnds(c) \/ ShareFails(c) \/ Finish(c)

\* They leave it the main thread of its own session.
LEMMA MiddleFacts ==
  ASSUME IInv, Calm, NEW c \in Clients, Middle(c)
  PROVE  /\ mgr[c] = c /\ hpc[c] \in MainPCs /\ hpc'[c] \in MainPCs /\ Owns(c)
         /\ \A d \in Clients \ {c} : hpc'[d] = hpc[d]
         /\ \A d \in Clients : Owns(d)' <=> Owns(d)
         /\ UNCHANGED <<mgr, mstate, busy, map, fault, crashes>>
         /\ failed' \subseteq failed \cup {c}
<1> USE DEF MainPCs
<1>0. hpc \in [Clients -> HandlerPCs] /\ (hpc[c] \in MainPCs => mgr[c] = c)
  BY DEF IInv, Types, Calm, OwnerInv
<1>1. /\ hpc[c] \in MainPCs /\ hpc'[c] \in MainPCs
      /\ \A d \in Clients \ {c} : hpc'[d] = hpc[d]
  BY <1>0 DEF Middle, CheckCache, DownloadChunk, DownloadEnds, SaveOpen, SaveFails, SaveChunk,
              SaveLoses, SaveEnds, ShareChunk, ShareEnds, ShareFails, Finish, Goto
<1>2. UNCHANGED <<mgr, mstate, busy, map, fault, crashes>>
  BY DEF Middle, CheckCache, DownloadChunk, DownloadEnds, SaveOpen, SaveFails, SaveChunk,
         SaveLoses, SaveEnds, ShareChunk, ShareEnds, ShareFails, Finish, managerVars
<1>3. failed' \subseteq failed \cup {c}
  BY <1>0, <1>1 DEF Middle, CheckCache, DownloadChunk, DownloadEnds, SaveOpen, SaveFails,
                    SaveChunk, SaveLoses, SaveEnds, ShareChunk, ShareEnds, ShareFails, Finish,
                    managerVars
<1> QED
  BY <1>0, <1>1, <1>2, <1>3 DEF Owns, OwnerPCs

\* Only Create makes an owner and only Delete unmakes one.
LEMMA OwnsStep ==
  ASSUME IInv, Apart, Calm, NEW c \in Clients, Moves(c), ~Create(c), ~Delete(c)
  PROVE  \A d \in Clients : Owns(d)' <=> Owns(d)
<1>0. /\ hpc \in [Clients -> HandlerPCs] /\ mgr \in [Clients -> Managers \cup {NoManager}]
      /\ OwnerInv
  BY DEF IInv, Types, Calm
<1>1. CASE Middle(c)
  BY <1>1, MiddleFacts
<1>2. CASE Accept(c) \/ Reject(c)
  BY <1>0, <1>2 DEF Accept, Reject, Goto, Owns, OwnerPCs, MainPCs
<1>3. CASE Lookup(c)
  <2>1. get(Path[c]) # c
    BY <1>3, LookupFacts, NoManagerAssumption DEF Lookup, Owns, OwnerPCs, MainPCs
  <2> QED
    BY <1>0, <1>3, <2>1 DEF Lookup, Goto, Owns, OwnerPCs, MainPCs
<1>4. CASE Subscribe(c)
  BY <1>0, <1>4 DEF Subscribe, Goto, Owns, OwnerPCs, MainPCs
<1>5. CASE Elect(c)
  <2>1. mgr[c] = c => c \notin busy
    BY <1>0, <1>5 DEF Elect, OwnerInv, Owns, OwnerPCs
  <2> QED
    BY <1>0, <1>5, <2>1 DEF Elect, Goto, Owns, OwnerPCs, MainPCs
<1>6. CASE Destroy(c)
  <2>1. mgr[c] = c /\ subs[c] = {}
    BY <1>0, <1>6 DEF Destroy, OwnerInv, MainPCs, Calm, SubsInv, Managers
  <2> QED
    BY <1>0, <1>6, <2>1 DEF Destroy, Goto, Owns, OwnerPCs, MainPCs
<1> QED
  BY <1>1, <1>2, <1>3, <1>4, <1>5, <1>6 DEF Moves, Step, Middle

\* No freed manager is used.
LEMMA FaultStep ==
  ASSUME IInv, Apart, ~fault, Calm, NEW c \in Clients, Moves(c)
  PROVE  ~fault'
<1>1. hpc[c] \in {"subscribe", "elect"} => mstate[mgr[c]] = "live"
  BY JoinFacts
<1>2. fault' = fault
  BY <1>1 DEF Moves, Step, Accept, Reject, Lookup, Create, Subscribe, Elect, CheckCache,
              DownloadChunk, DownloadEnds, SaveOpen, SaveFails, SaveChunk, SaveLoses, SaveEnds,
              ShareChunk, ShareEnds, ShareFails, Finish, Destroy, Delete
<1> QED
  BY <1>2

\* A path keeps one owner at most.
LEMMA OwnerStep ==
  ASSUME IInv, Apart, Calm, NEW c \in Clients, Moves(c)
  PROVE  OwnerInv'
<1> USE NoManagerAssumption DEF MainPCs, EarlyPCs, OwnerPCs
<1>0. /\ hpc \in [Clients -> HandlerPCs] /\ mgr \in [Clients -> Clients \cup {NoManager}]
      /\ mstate \in [Clients -> {"none", "live", "stuck", "freed"}]
      /\ OwnerInv
  BY DEF IInv, Types, Calm, Managers
<1>1. CASE Middle(c) \/ Accept(c) \/ Reject(c)
  <2>1. /\ mgr' = mgr /\ mstate' = mstate /\ busy' = busy
        /\ \A d \in Clients : hpc'[d] \in EarlyPCs /\ d \in failed' => d \in failed
        /\ \A d \in Clients : hpc'[d] \in EarlyPCs => hpc[d] \in EarlyPCs
        /\ \A d \in Clients : hpc'[d] \in MainPCs <=> hpc[d] \in MainPCs
        /\ \A d \in Clients : \A p \in {"create", "subscribe", "elect", "delete"} :
             hpc'[d] = p <=> hpc[d] = p
    <3>1. CASE Middle(c)
      BY <3>1, MiddleFacts
    <3>2. CASE Accept(c) \/ Reject(c)
      BY <1>0, <3>2 DEF Accept, Reject, Goto, managerVars
    <3> QED
      BY <1>1, <3>1, <3>2
  <2>2. \A d \in Clients : Owns(d)' <=> Owns(d)
    BY <2>1 DEF Owns
  <2>3. \A d \in Clients : hpc'[d] \in {"subscribe", "elect"} => Owns(mgr[d])'
    <3>1. \A d \in Clients : hpc[d] \in {"subscribe", "elect"} => mgr[d] \in Clients
      BY DEF IInv, PathInv, Managers
    <3> QED
      BY <1>0, <2>1, <3>1 DEF OwnerInv, Owns
  <2>4. \A d \in Clients : Owns(d)' => mstate'[d] = (IF hpc'[d] = "delete" THEN "freed" ELSE "live")
    BY <1>0, <2>1, <2>2 DEF OwnerInv
  <2>5. \A d \in Clients : hpc'[d] \in MainPCs \cup {"delete"} => mgr'[d] = d
    BY <1>0, <2>1 DEF OwnerInv
  <2> QED
    BY <1>0, <2>1, <2>2, <2>3, <2>4, <2>5 DEF OwnerInv
<1>2. CASE Lookup(c)
  <2> DEFINE g == get(Path[c])
  <2>1. /\ hpc[c] = "recv" /\ mgr' = [mgr EXCEPT ![c] = g]
        /\ hpc' = [hpc EXCEPT ![c] = IF g = NoManager THEN "create" ELSE "subscribe"]
        /\ UNCHANGED <<mstate, busy, failed>>
    BY <1>2 DEF Lookup, Goto, managerVars
  <2>2. IF g = NoManager THEN \A d \in Clients : Owns(d) => Path[d] # Path[c]
                         ELSE g \in Clients /\ Owns(g)
    BY LookupFacts
  <2> HIDE DEF g
  <2>3. \A d \in Clients : Owns(d)' <=> Owns(d)
    BY <1>0, <2>1, <2>2 DEF Owns
  <2>4. CASE g = NoManager
    BY <1>0, <2>1, <2>2, <2>3, <2>4 DEF OwnerInv, Owns
  <2>5. CASE g # NoManager
    BY <1>0, <2>1, <2>2, <2>3, <2>5 DEF OwnerInv, Owns
  <2> QED
    BY <2>4, <2>5
<1>3. CASE Create(c)
  <2>1. /\ hpc[c] = "create" /\ mgr' = [mgr EXCEPT ![c] = c]
        /\ hpc' = [hpc EXCEPT ![c] = "subscribe"]
        /\ mstate' = [mstate EXCEPT ![c] = "live"] /\ UNCHANGED <<busy, failed>>
    BY <1>3 DEF Create, Goto
  <2>2. Owns(c)' /\ ~Owns(c) /\ \A d \in Clients \ {c} : Owns(d)' <=> Owns(d)
    BY <1>0, <2>1 DEF Owns
  <2>3. \A d \in Clients \ {c} : Owns(d) => Path[d] # Path[c]
    BY <1>0, <2>1 DEF OwnerInv
  <2>4. \A d \in Clients \ {c} : hpc[d] = "create" => Path[d] # Path[c]
    BY <2>1 DEF Apart, StartPCs
  <2>5. \A d \in Clients : hpc'[d] \in {"subscribe", "elect"} => Owns(mgr[d])'
    BY <1>0, <2>1, <2>2 DEF OwnerInv, Owns
  <2>6. \A d, e \in Clients : Owns(d)' /\ Owns(e)' /\ Path[d] = Path[e] => d = e
    BY <1>0, <2>2, <2>3 DEF OwnerInv
  <2>7. \A d, e \in Clients : hpc'[d] = "create" /\ Owns(e)' => Path[d] # Path[e]
    BY <1>0, <2>1, <2>2, <2>4 DEF OwnerInv
  <2>8. \A d \in Clients : Owns(d)' => mstate'[d] = (IF hpc'[d] = "delete" THEN "freed" ELSE "live")
    BY <1>0, <2>1, <2>2 DEF OwnerInv
  <2>9. \A d \in Clients : hpc'[d] \in MainPCs \cup {"delete"} => mgr'[d] = d
    BY <1>0, <2>1 DEF OwnerInv
  <2>10. \A d \in Clients :
           hpc'[d] \in EarlyPCs => mgr'[d] = NoManager /\ d \notin busy' /\ d \notin failed'
    BY <1>0, <2>1 DEF OwnerInv
  <2>11. \A d \in Clients : Owns(d)' /\ hpc'[d] \in {"subscribe", "elect"} => d \notin busy'
    BY <1>0, <2>1, <2>2 DEF OwnerInv
  <2> QED
    BY <2>5, <2>6, <2>7, <2>8, <2>9, <2>10, <2>11 DEF OwnerInv
<1>4. CASE Subscribe(c)
  BY <1>0, <1>4, JoinFacts DEF OwnerInv, Owns, Subscribe, Goto
<1>5. CASE Elect(c)
  <2>1. /\ mgr[c] \in Clients /\ Owns(mgr[c]) /\ mstate[mgr[c]] = "live"
        /\ mgr[c] = c \/ mgr[c] \in busy
        /\ hpc[c] = "elect"
    BY <1>5, JoinFacts DEF Elect
  <2>2. /\ busy' = busy \cup {mgr[c]} /\ UNCHANGED <<mgr, mstate, failed>>
        /\ hpc' = [hpc EXCEPT ![c] = IF mgr[c] \in busy THEN "done" ELSE "check"]
    BY <1>5, <2>1 DEF Elect, Goto
  <2>3. mgr[c] = c => c \notin busy
    BY <1>0, <2>1 DEF OwnerInv
  <2>4. \A d \in Clients : Owns(d)' <=> Owns(d)
    BY <1>0, <2>1, <2>2, <2>3 DEF Owns
  <2>5. CASE mgr[c] = c
    BY <1>0, <2>1, <2>2, <2>3, <2>4, <2>5 DEF OwnerInv, Owns
  <2>6. CASE mgr[c] # c
    BY <1>0, <2>1, <2>2, <2>4, <2>6 DEF OwnerInv, Owns
  <2> QED
    BY <2>5, <2>6
<1>6. CASE Destroy(c)
  <2>1. mgr[c] = c /\ subs[c] = {} /\ Owns(c)
    BY <1>0, <1>6 DEF Destroy, OwnerInv, Calm, SubsInv, Managers, Owns
  <2>2. /\ hpc' = [hpc EXCEPT ![c] = "delete"] /\ mstate' = [mstate EXCEPT ![c] = "freed"]
        /\ UNCHANGED <<mgr, busy, failed>>
    BY <1>6, <2>1 DEF Destroy, Goto
  <2> QED
    BY <1>0, <2>1, <2>2 DEF OwnerInv, Owns
<1>7. CASE Delete(c)
  <2>1. hpc[c] = "delete" /\ mgr[c] = c
    BY <1>0, <1>7 DEF Delete, OwnerInv
  <2>2. hpc' = [hpc EXCEPT ![c] = "done"] /\ UNCHANGED <<mgr, mstate, busy, failed>>
    BY <1>7 DEF Delete, Goto, managerVars
  <2>3. \A d \in Clients : hpc[d] \in {"subscribe", "elect"} => mgr[d] # c
    BY <2>1 DEF Apart, StartPCs, EndPCs, IInv, PathInv, Managers
  <2> QED
    BY <1>0, <2>1, <2>2, <2>3 DEF OwnerInv, Owns
<1> QED
  BY <1>1, <1>2, <1>3, <1>4, <1>5, <1>6, <1>7 DEF Moves, Step, Middle

\* The map keeps one node for every owner.
LEMMA MapStep ==
  ASSUME IInv, Apart, Calm, NEW c \in Clients, Moves(c)
  PROVE  MapInv'
<1> USE DEF Managers
<1>0. /\ PathInv /\ MapInv /\ map \in Seq(MapNodes) /\ Len(map) \in Nat
      /\ \A k \in 1..Len(map) : map[k].value \in Clients /\ map[k].key = Path[map[k].value]
      /\ hpc \in [Clients -> HandlerPCs] /\ mgr \in [Clients -> Clients \cup {NoManager}]
      /\ Owners \subseteq Clients
  <2>1. /\ PathInv /\ MapInv /\ map \in Seq(MapNodes)
        /\ hpc \in [Clients -> HandlerPCs] /\ mgr \in [Clients -> Clients \cup {NoManager}]
    BY DEF IInv, Types, Calm, PathInv
  <2>2. \A k \in 1..Len(map) : map[k] \in MapNodes
    BY <2>1
  <2>3. \A k \in 1..Len(map) : map[k].value \in Clients
    BY <2>2 DEF MapNodes
  <2> QED
    BY <2>1, <2>3 DEF PathInv, Owners
<1>1. CASE ~Create(c) /\ ~Delete(c)
  <2>1. map' = map
    BY <1>1 DEF Moves, Step, Accept, Reject, Lookup, Subscribe, Elect, CheckCache,
                DownloadChunk, DownloadEnds, SaveOpen, SaveFails, SaveChunk, SaveLoses,
                SaveEnds, ShareChunk, ShareEnds, ShareFails, Finish, Destroy
  <2>2. Owners' = Owners
    BY <1>1, OwnsStep DEF Owners
  <2> QED
    BY <1>0, <2>1, <2>2 DEF MapInv
<1>2. CASE Create(c)
  <2>1. /\ Len(map') = Len(map) + 1 /\ map'[1].value = c
        /\ \A k \in 2..(Len(map) + 1) : map'[k] = map[k - 1]
    BY <1>0, <1>2, InsertFacts DEF Create
  <2>2. c \in Owners' /\ c \notin Owners /\ \A d \in Clients \ {c} : d \in Owners' <=> d \in Owners
    BY <1>0, <1>2 DEF Create, Goto, Owners, Owns, OwnerPCs, MainPCs
  <2>3. \A k \in 1..Len(map) : map[k].value # c
    BY <1>0, <2>2 DEF MapInv
  <2>4. \A k \in 1..Len(map') : k = 1 \/ (k - 1 \in 1..Len(map) /\ map'[k] = map[k - 1])
    BY <1>0, <2>1
  <2>5. \A k \in 1..Len(map) : k + 1 \in 1..Len(map') /\ map'[k + 1] = map[k]
    BY <1>0, <2>1
  <2>6. \A k \in 1..Len(map') : map'[k].value \in Owners'
    BY <1>0, <2>1, <2>2, <2>4 DEF MapInv
  <2>7. \A d \in Owners' : \E k \in 1..Len(map') : map'[k].value = d
    <3> SUFFICES ASSUME NEW d \in Owners' PROVE \E k \in 1..Len(map') : map'[k].value = d
      OBVIOUS
    <3>1. CASE d = c
      BY <1>0, <2>1, <3>1
    <3>2. CASE d # c
      <4>1. d \in Owners
        BY <2>2, <3>2 DEF Owners
      <4> QED
        BY <1>0, <2>5, <4>1 DEF MapInv
    <3> QED
      BY <3>1, <3>2
  <2>8. \A j, k \in 1..Len(map') : map'[j].value = map'[k].value => j = k
    BY <1>0, <2>1, <2>3, <2>4 DEF MapInv
  <2> QED
    BY <2>6, <2>7, <2>8 DEF MapInv
<1>3. CASE Delete(c)
  <2> DEFINE q == FirstNode(Path[c])
  <2>1. hpc[c] = "delete" /\ mgr[c] = c /\ c \in Owners /\ map' = delete(Path[c])
    BY <1>3 DEF Delete, Calm, OwnerInv, Owners, Owns, OwnerPCs
  <2>2. Nodes(Path[c]) # {}
    BY <1>0, <2>1 DEF MapInv, Nodes
  <2>3. q \in 1..Len(map) /\ map[q].key = Path[c]
    BY <1>0, <2>2, FirstNodeFacts
  <2>4. map[q].value = c
    BY <1>0, <2>1, <2>3 DEF MapInv, Calm, OwnerInv, Owners
  <2>5. /\ Len(map') = Len(map) - 1
        /\ \A k \in 1..Len(map') : map'[k] = IF k < q THEN map[k] ELSE map[k + 1]
    BY <1>0, <2>1, <2>2, DeleteFacts
  <2>6. c \notin Owners' /\ \A d \in Clients \ {c} : d \in Owners' <=> d \in Owners
    BY <1>0, <1>3 DEF Delete, Goto, Owners, Owns, OwnerPCs, MainPCs
  <2> HIDE DEF q
  <2>7. \A k \in 1..Len(map') :
          \E j \in 1..Len(map) \ {q} : map'[k] = map[j] /\ j = IF k < q THEN k ELSE k + 1
    BY <1>0, <2>3, <2>5
  <2>8. \A j \in 1..Len(map) \ {q} : \E k \in 1..Len(map') : map'[k] = map[j]
    <3> SUFFICES ASSUME NEW j \in 1..Len(map), j # q PROVE \E k \in 1..Len(map') : map'[k] = map[j]
      OBVIOUS
    <3>1. CASE j < q
      BY <1>0, <2>3, <2>5, <3>1
    <3>2. CASE j > q
      <4>1. j - 1 \in 1..Len(map') /\ ~(j - 1 < q) /\ (j - 1) + 1 = j
        BY <1>0, <2>3, <2>5, <3>2
      <4> QED
        BY <2>5, <4>1
    <3> QED
      BY <1>0, <2>3, <3>1, <3>2
  <2>9. \A j \in 1..Len(map) \ {q} : map[j].value # c
    BY <1>0, <2>3, <2>4 DEF MapInv
  <2>10. \A k \in 1..Len(map') : map'[k].value \in Owners'
    BY <1>0, <2>6, <2>7, <2>9 DEF MapInv
  <2>11. \A d \in Owners' : \E k \in 1..Len(map') : map'[k].value = d
    <3>1. Owners' \subseteq Owners \ {c}
      BY <2>6 DEF Owners
    <3> QED
      BY <1>0, <2>4, <2>8, <3>1 DEF MapInv
  <2>12. \A j, k \in 1..Len(map') : map'[j].value = map'[k].value => j = k
    BY <1>0, <2>3, <2>5, <2>7 DEF MapInv
  <2> QED
    BY <2>10, <2>11, <2>12 DEF MapInv
<1> QED
  BY <1>1, <1>2, <1>3

\* Subscribers stay linked while the session lasts.
LEMMA SubsStep ==
  ASSUME IInv, Apart, Calm, NEW c \in Clients, Moves(c)
  PROVE  SubsInv'
<1> USE NoManagerAssumption DEF MainPCs, Managers
<1>0. /\ hpc \in [Clients -> HandlerPCs] /\ mgr \in [Clients -> Clients \cup {NoManager}]
      /\ subs \in [Clients -> SUBSET Clients] /\ closed \subseteq Clients
      /\ SubsInv /\ OwnerInv
  BY DEF IInv, Types, PathInv, Calm
<1>1. CASE Middle(c) /\ ~Finish(c)
  <2>1. /\ mgr' = mgr /\ subs' = subs /\ closed' = closed
        /\ hpc[c] \in MainPCs \ {"destroy"} /\ hpc'[c] \in MainPCs \ {"destroy"}
        /\ \A d \in Clients \ {c} : hpc'[d] = hpc[d]
    BY <1>0, <1>1 DEF Middle, CheckCache, DownloadChunk, DownloadEnds, SaveOpen, SaveFails,
                      SaveChunk, SaveLoses, SaveEnds, ShareChunk, ShareEnds, ShareFails, Goto,
                      managerVars, clientVars
  <2>2. \A d \in Clients : Owns(d)' <=> Owns(d)
    BY <1>1, MiddleFacts
  <2> QED
    BY <1>0, <2>1, <2>2 DEF SubsInv
<1>2. CASE Accept(c) \/ Reject(c) \/ Lookup(c) \/ Create(c)
  <2>1. /\ hpc[c] \in EarlyPCs /\ subs' = subs /\ closed' \subseteq closed \cup {c}
        /\ \A d \in Clients \ {c} : hpc'[d] = hpc[d] /\ mgr'[d] = mgr[d]
        /\ c \in closed' => c \in closed \/ hpc'[c] = "done"
    BY <1>0, <1>2 DEF EarlyPCs, Accept, Reject, Lookup, Create, Goto, managerVars, clientVars
  <2>2. c \notin closed /\ subs[c] = {} /\ \A m \in Clients : c \notin subs[m]
    BY <1>0, <2>1 DEF SubsInv, EarlyPCs, Owns, OwnerPCs
  <2>3. \A d \in Clients \ {c} : Owns(d)' <=> Owns(d)
    BY <2>1 DEF Owns
  <2> QED
    BY <1>0, <2>1, <2>2, <2>3 DEF SubsInv
<1>3. CASE Subscribe(c)
  <2> DEFINE m == mgr[c]
  <2>1. /\ m \in Clients /\ Owns(m) /\ hpc[c] = "subscribe" /\ mstate[m] = "live"
        /\ hpc[m] # "destroy" /\ hpc[m] # "delete"
    BY <1>3, JoinFacts DEF Subscribe
  <2>2. /\ subs' = [subs EXCEPT ![m] = subs[m] \cup {c}] /\ hpc' = [hpc EXCEPT ![c] = "elect"]
        /\ mgr' = mgr /\ closed' = closed
    BY <1>3, <2>1 DEF Subscribe, Goto
  <2>3. \A d \in Clients : Owns(d)' <=> Owns(d)
    BY <1>0, <2>1, <2>2 DEF Owns, OwnerPCs
  <2> HIDE DEF m
  <2>4. /\ hpc'[c] = "elect" /\ \A d \in Clients \ {c} : hpc'[d] = hpc[d]
        /\ subs'[m] = subs[m] \cup {c} /\ \A k \in Clients \ {m} : subs'[k] = subs[k]
    BY <1>0, <2>1, <2>2
  <2>5. c \notin closed /\ \A k \in Clients : c \notin subs[k]
    BY <1>0, <2>1 DEF SubsInv
  <2>6. ASSUME NEW k \in Clients, NEW s \in subs'[k]
        PROVE  /\ mgr'[s] = k
               /\ hpc'[s] \in {"elect", "done"} \cup (MainPCs \ {"destroy"})
               /\ Owns(k)' /\ hpc'[k] # "destroy" /\ hpc'[k] # "delete"
    <3>1. CASE s = c
      <4>1. k = m
        BY <2>4, <2>5, <2>6, <3>1
      <4> QED
        BY <2>1, <2>2, <2>3, <2>4, <3>1, <4>1 DEF m
    <3>2. CASE s # c
      <4>1. s \in subs[k] /\ s \in Clients
        BY <1>0, <2>1, <2>4, <3>2, <2>6
      <4> QED
        BY <1>0, <2>2, <2>3, <2>4, <3>2, <4>1 DEF SubsInv
    <3> QED
      BY <3>1, <3>2
  <2>7. \A d \in closed' : hpc'[d] \in {"done", "destroy", "delete"}
    BY <1>0, <2>2, <2>4, <2>5 DEF SubsInv
  <2>8. \A d \in closed' : \A k \in Clients : d \notin subs'[k]
    BY <1>0, <2>1, <2>2, <2>4, <2>5 DEF SubsInv
  <2> QED
    BY <2>6, <2>7, <2>8 DEF SubsInv
<1>4. CASE Elect(c)
  <2>1. /\ hpc[c] = "elect" /\ hpc'[c] \in {"check", "done"} /\ mgr' = mgr /\ subs' = subs
        /\ closed' = closed
        /\ \A d \in Clients \ {c} : hpc'[d] = hpc[d]
    BY <1>0, <1>4, JoinFacts DEF Elect, Goto, clientVars
  <2>2. \A d \in Clients : Owns(d)' <=> Owns(d)
    BY <1>4, OwnsStep DEF Elect, Create, Delete
  <2> QED
    BY <1>0, <2>1, <2>2 DEF SubsInv
<1>5. CASE Finish(c)
  <2>1. hpc[c] = "finish" /\ mgr[c] = c /\ Owns(c)
    BY <1>0, <1>5 DEF Finish, OwnerInv, Owns, OwnerPCs
  <2>2. /\ closed' = closed \cup subs[c] /\ subs' = [subs EXCEPT ![c] = {}]
        /\ hpc' = [hpc EXCEPT ![c] = "destroy"] /\ mgr' = mgr
    BY <1>5, <2>1 DEF Finish, Goto
  <2>3. \A s \in subs[c] \ {c} : hpc[s] = "done"
    <3> SUFFICES ASSUME NEW s \in subs[c], s # c PROVE hpc[s] = "done"
      OBVIOUS
    <3>1. s \in Clients /\ mgr[s] = c /\ hpc[s] \in {"elect", "done"} \cup (MainPCs \ {"destroy"})
      BY <1>0 DEF SubsInv
    <3>2. hpc[s] \notin MainPCs
      BY <1>0, <3>1 DEF OwnerInv
    <3>3. hpc[s] # "elect"
      BY <2>1, <3>1 DEF Apart, StartPCs, EndPCs, IInv, PathInv
    <3> QED
      BY <3>1, <3>2, <3>3
  <2>4. /\ hpc'[c] = "destroy" /\ subs'[c] = {}
        /\ \A d \in Clients \ {c} : hpc'[d] = hpc[d] /\ subs'[d] = subs[d]
    BY <1>0, <2>2
  <2>5. \A d \in Clients : Owns(d)' <=> Owns(d)
    BY <1>5, MiddleFacts DEF Middle
  <2>6. ASSUME NEW k \in Clients, NEW s \in subs'[k]
        PROVE  /\ mgr'[s] = k
               /\ hpc'[s] \in {"elect", "done"} \cup (MainPCs \ {"destroy"})
               /\ Owns(k)' /\ hpc'[k] # "destroy" /\ hpc'[k] # "delete"
    <3>1. k # c /\ s \in subs[k] /\ s \in Clients
      BY <1>0, <2>4, <2>6
    <3>2. mgr[s] = k /\ s # c
      BY <1>0, <2>1, <3>1 DEF SubsInv
    <3> QED
      BY <1>0, <2>2, <2>4, <2>5, <3>1, <3>2 DEF SubsInv
  <2>7. \A d \in closed' : hpc'[d] \in {"done", "destroy", "delete"}
    BY <1>0, <2>1, <2>2, <2>3, <2>4 DEF SubsInv
  <2>8. \A d \in closed' : \A k \in Clients : d \notin subs'[k]
    BY <1>0, <2>2, <2>4 DEF SubsInv
  <2> QED
    BY <2>6, <2>7, <2>8 DEF SubsInv
<1>6. CASE Destroy(c) \/ Delete(c)
  <2>1. mgr[c] = c /\ subs[c] = {}
    BY <1>0, <1>6 DEF Destroy, Delete, OwnerInv, SubsInv
  <2>2. /\ hpc[c] \in {"destroy", "delete"} /\ hpc'[c] \in {"delete", "done"}
        /\ mgr' = mgr /\ subs' = subs /\ closed' = closed
        /\ \A d \in Clients \ {c} : hpc'[d] = hpc[d]
    BY <1>0, <1>6, <2>1 DEF Destroy, Delete, Goto, managerVars, clientVars
  <2>3. \A d \in Clients \ {c} : Owns(d)' <=> Owns(d)
    BY <2>2 DEF Owns
  <2> QED
    BY <1>0, <2>1, <2>2, <2>3 DEF SubsInv
<1> QED
  BY <1>1, <1>2, <1>3, <1>4, <1>5, <1>6 DEF Moves, Step, Middle

-----------------------------------------------------------------------------
(* What is sent and saved without races *)

\* Nothing is part of every response, and so is the beginning of a part; the
\* beginning of a response is a part of it, and stays one when a later chunk is
\* appended.
LEMMA PartFacts ==
  /\ \A d : PartOf(d, <<>>)
  /\ \A d, s, t :
       /\ PartOf(d, s) /\ Len(s) \in Nat /\ Len(t) \in Nat /\ Len(t) <= Len(s)
       /\ \A i \in 1..Len(t) : t[i] = s[i]
       => PartOf(d, t)
  /\ \A d \in Clients : \A t :
       Begins(d, t) /\ Len(t) \in Nat /\ Len(t) <= Length[d] => PartOf(d, t)
<1>1. \A d : PartOf(d, <<>>)
  BY DEF PartOf
<1>2. ASSUME NEW d, NEW s, NEW t, PartOf(d, s), Len(s) \in Nat, Len(t) \in Nat,
             Len(t) <= Len(s), \A i \in 1..Len(t) : t[i] = s[i]
      PROVE  PartOf(d, t)
  <2> SUFFICES ASSUME NEW i \in 1..Len(t)
               PROVE  /\ \E k \in 1..Length[d] : t[i] = Chunk(d, k)
                      /\ \A j \in 1..(i - 1) : t[j][2] < t[i][2]
    BY DEF PartOf
  <2>1. i \in 1..Len(s) /\ t[i] = s[i] /\ \A j \in 1..(i - 1) : j \in 1..Len(t) /\ t[j] = s[j]
    BY <1>2
  <2> QED
    BY <1>2, <2>1 DEF PartOf
<1>3. ASSUME NEW d \in Clients, NEW t, Begins(d, t), Len(t) \in Nat, Len(t) <= Length[d]
      PROVE  PartOf(d, t)
  <2> SUFFICES ASSUME NEW i \in 1..Len(t)
               PROVE  /\ \E k \in 1..Length[d] : t[i] = Chunk(d, k)
                      /\ \A j \in 1..(i - 1) : t[j][2] < t[i][2]
    BY DEF PartOf
  <2>1. i \in 1..Length[d] /\ t[i] = Chunk(d, i)
    BY <1>3, LengthAssumption DEF Begins
  <2>2. ASSUME NEW j \in 1..(i - 1) PROVE t[j][2] < t[i][2]
    <3>1. j \in 1..Len(t) /\ j < i
      BY <1>3
    <3>2. t[j] = Chunk(d, j)
      BY <1>3, <3>1 DEF Begins
    <3> QED
      BY <2>1, <3>1, <3>2 DEF Chunk
  <2> QED
    BY <2>1, <2>2
<1> QED
  BY <1>1, <1>2, <1>3

LEMMA PartAppend ==
  ASSUME NEW S, NEW s \in Seq(S), NEW d, PartOf(d, s), NEW k \in 1..Length[d],
         Length[d] \in Nat, \A i \in 1..Len(s) : s[i][2] < k,
         NEW t, Len(t) = Len(s) + 1, t[Len(s) + 1] = Chunk(d, k), \A i \in 1..Len(s) : t[i] = s[i]
  PROVE  PartOf(d, t)
<1> SUFFICES ASSUME NEW i \in 1..Len(t)
             PROVE  /\ \E n \in 1..Length[d] : t[i] = Chunk(d, n)
                    /\ \A j \in 1..(i - 1) : t[j][2] < t[i][2]
  BY DEF PartOf
<1>0. Len(s) \in Nat /\ \A j \in 1..(i - 1) : j \in 1..Len(s)
  OBVIOUS
<1>1. CASE i = Len(s) + 1
  <2>1. t[i] = Chunk(d, k) /\ t[i][2] = k
    BY <1>1 DEF Chunk
  <2> QED
    BY <1>0, <2>1
<1>2. CASE i # Len(s) + 1
  <2>1. i \in 1..Len(s)
    BY <1>0, <1>2
  <2> QED
    BY <1>0, <2>1 DEF PartOf
<1> QED
  BY <1>1, <1>2

\* A cache file keeps to one download.
LEMMA FileStep ==
  ASSUME IInv, Apart, Apart', Calm, NEW c \in Clients, Moves(c), Watch
  PROVE  FileInv'
<1> DEFINE F == File(c)
           Own(d) == /\ off'[d] = Len(file'[File(d)]) /\ PartOf(d, file'[File(d)])
                     /\ \A i \in 1..Len(file'[File(d)]) : file'[File(d)][i][2] <= pos'[d]
<1>0. /\ FileInv /\ DOMAIN file = Files
      /\ hpc \in [Clients -> HandlerPCs]
      /\ pos \in [Clients -> Nat] /\ off \in [Clients -> Nat]
      /\ \A d \in Clients : File(d) \in Files
      /\ \A d \in Clients : File(d)' = File(d)
      /\ cached \subseteq Files
      /\ \A f \in Files : file[f] \in Seq(FileChunks(f))
  BY FileFacts, NameFacts DEF IInv, Types, CacheInv, Watch, Calm
<1>1. SUFFICES /\ \A f \in cached' : \E d \in Clients : File(d) = f /\ PartOf(d, file'[f])
               /\ \A d \in Clients : hpc'[d] = "write" => Own(d)
  <2>1. (\A f \in cached : \E d \in Clients : File(d) = f /\ PartOf(d, file[f]))'
    BY <1>0, <1>1
  <2>2. ASSUME NEW d \in Clients, hpc'[d] = "write"
        PROVE  (/\ off[d] = Len(file[File(d)]) /\ PartOf(d, file[File(d)])
                /\ \A i \in 1..Len(file[File(d)]) : file[File(d)][i][2] <= pos[d])'
    <3>1. Own(d) /\ File(d)' = File(d)
      BY <1>0, <1>1, <2>2
    <3> QED
      BY <3>1
  <2> QED
    BY <2>1, <2>2 DEF FileInv
<1>2. CASE ~(SaveOpen(c) \/ SaveChunk(c) \/ SaveLoses(c))
  <2>1. /\ UNCHANGED <<cached, file>>
        /\ \A d \in Clients : hpc'[d] = "write" => hpc[d] = "write"
        /\ \A d \in Clients : hpc[d] = "write" => pos'[d] = pos[d] /\ off'[d] = off[d]
    BY <1>0, <1>2 DEF Moves, Step, Accept, Reject, Lookup, Create, Subscribe, Elect, CheckCache,
                DownloadChunk, DownloadEnds, SaveFails, SaveEnds, ShareChunk, ShareEnds, ShareFails,
                Finish, Destroy, Delete, Goto, fileVars
  <2> QED
    BY <1>0, <2>1 DEF FileInv
<1>3. CASE SaveOpen(c) \/ SaveChunk(c) \/ SaveLoses(c)
  <2>1. /\ hpc'[c] = "write" /\ cached' \subseteq cached \cup {F}
        /\ \A f \in Files \ {F} : file'[f] = file[f]
        /\ \A d \in Clients \ {c} : hpc'[d] = hpc[d] /\ pos'[d] = pos[d] /\ off'[d] = off[d]
    BY <1>0, <1>3 DEF SaveOpen, SaveChunk, SaveLoses, Goto
  <2>2. \A d \in Clients \ {c} : hpc'[d] = "write" => File(d) # F
    BY <1>0, <2>1 DEF Apart
  <2>3. Own(c)
    <3>1. CASE SaveOpen(c)
      <4>1. file'[F] = <<>> /\ off'[c] = 0 /\ Len(<<>>) = 0
        BY <1>0, <3>1 DEF SaveOpen
      <4> QED
        BY <4>1, PartFacts
    <3>2. CASE SaveChunk(c) \/ SaveLoses(c)
      <4>1. /\ hpc[c] = "write" /\ pos[c] < Len(content[mgr[c]])
            /\ pos' = [pos EXCEPT ![c] = pos[c] + 1]
        BY <3>2 DEF SaveChunk, SaveLoses
      <4>2. /\ off[c] = Len(file[F]) /\ PartOf(c, file[F])
            /\ \A i \in 1..Len(file[F]) : file[F][i][2] <= pos[c]
        BY <1>0, <4>1 DEF FileInv
      <4>3. Whole(c, content[mgr[c]]) /\ Length[c] \in Nat /\ pos[c] \in Nat /\ off[c] \in Nat
        BY <1>0, <4>1, LengthAssumption DEF IInv, MainInv, Put
      <4>4. /\ pos[c] + 1 \in 1..Length[c] /\ content[mgr[c]][pos[c] + 1] = Chunk(c, pos[c] + 1)
            /\ pos'[c] = pos[c] + 1
        <5> DEFINE t == content[mgr[c]]
        <5>1. Len(t) = Length[c] /\ pos[c] < Len(t) /\ \A i \in 1..Len(t) : t[i] = Chunk(c, i)
          BY <4>1, <4>3 DEF Whole, Begins
        <5>2. pos'[c] = pos[c] + 1
          BY <1>0, <4>1
        <5> HIDE DEF t
        <5>3. pos[c] + 1 \in 1..Len(t)
          BY <4>3, <5>1
        <5>4. t[pos[c] + 1] = Chunk(c, pos[c] + 1)
          BY <5>1, <5>3
        <5> QED
          BY <5>1, <5>2, <5>3, <5>4 DEF t
      <4>5. file[F] \in Seq(FileChunks(F)) /\ F \in Files
        BY <1>0
      <4>6. \A i \in 1..Len(file[F]) : file[F][i][2] < pos[c] + 1 /\ file[F][i][2] <= pos[c] + 1
        <5> SUFFICES ASSUME NEW i \in 1..Len(file[F])
                     PROVE  file[F][i][2] < pos[c] + 1 /\ file[F][i][2] <= pos[c] + 1
          OBVIOUS
        <5>1. PICK k \in 1..Length[c] : file[F][i] = Chunk(c, k)
          BY <4>2 DEF PartOf
        <5>2. file[F][i][2] = k /\ k \in Nat
          BY <5>1 DEF Chunk
        <5> QED
          BY <4>2, <4>3, <5>2
      <4>7. CASE SaveLoses(c)
        <5>1. file' = file /\ off' = off
          BY <4>7 DEF SaveLoses
        <5> QED
          BY <4>2, <4>4, <4>6, <5>1
      <4>8. CASE SaveChunk(c)
        <5> DEFINE x == Chunk(c, pos[c] + 1)
                   t == WriteAt(file[F], off[c], x)
        <5>1. /\ file' = [file EXCEPT ![F] = t]
              /\ off' = [off EXCEPT ![c] = off[c] + 1]
          BY <4>4, <4>8 DEF SaveChunk
        <5>2. x \in FileChunks(F) /\ Hole \in FileChunks(F)
          BY <4>4, ChunkSets
        <5>3. t = Append(file[F], x)
          <6> HIDE DEF x, F
          <6> QED
            BY <4>2, <4>3, <4>5, <5>2, WriteFacts
        <5>4. file'[F] = t /\ off'[c] = off[c] + 1
          BY <1>0, <5>1
        <5> HIDE DEF t, x
        <5>5. /\ Len(t) = Len(file[F]) + 1 /\ t[Len(file[F]) + 1] = x
              /\ \A i \in 1..Len(file[F]) : t[i] = file[F][i]
          BY <4>5, <5>2, <5>3
        <5>6. PartOf(c, t)
          <6> DEFINE S == FileChunks(F)
                     s == file[F]
                     k == pos[c] + 1
          <6>1. /\ s \in Seq(S) /\ PartOf(c, s) /\ k \in 1..Length[c] /\ Length[c] \in Nat
                /\ \A i \in 1..Len(s) : s[i][2] < k
                /\ Len(t) = Len(s) + 1 /\ t[Len(s) + 1] = Chunk(c, k)
                /\ \A i \in 1..Len(s) : t[i] = s[i]
            BY <4>2, <4>3, <4>4, <4>5, <4>6, <5>5 DEF x
          <6> HIDE DEF S, s, k
          <6> QED
            BY <6>1, PartAppend
        <5>7. \A i \in 1..Len(t) : t[i][2] <= pos[c] + 1
          <6> SUFFICES ASSUME NEW i \in 1..Len(t) PROVE t[i][2] <= pos[c] + 1
            OBVIOUS
          <6>1. CASE i = Len(file[F]) + 1
            <7>1. t[i] = x /\ x[2] = pos[c] + 1
              BY <5>5, <6>1 DEF x, Chunk
            <7> QED
              BY <4>3, <7>1
          <6>2. CASE i # Len(file[F]) + 1
            <7>1. i \in 1..Len(file[F])
              BY <4>5, <5>5, <6>2
            <7> QED
              BY <4>6, <5>5, <7>1
          <6> QED
            BY <6>1, <6>2
        <5> QED
          BY <4>2, <4>4, <5>4, <5>5, <5>6, <5>7
      <4> QED
        BY <3>2, <4>7, <4>8
    <3> QED
      BY <1>3, <3>1, <3>2
  <2> HIDE DEF F
  <2>4. ASSUME NEW d \in Clients, hpc'[d] = "write" PROVE Own(d)
    <3>1. CASE d # c
      <4>1. hpc[d] = "write" /\ File(d) \in Files \ {F}
        BY <1>0, <2>1, <2>2, <2>4, <3>1
      <4> QED
        BY <1>0, <2>1, <3>1, <4>1 DEF FileInv
    <3> QED
      BY <2>3, <3>1
  <2>5. ASSUME NEW f \in cached' PROVE \E d \in Clients : File(d) = f /\ PartOf(d, file'[f])
    <3>1. CASE f = F
      BY <2>3, <3>1 DEF F
    <3>2. CASE f # F
      <4>1. f \in cached /\ f \in Files \ {F}
        BY <1>0, <2>1, <3>2
      <4> QED
        BY <1>0, <2>1, <4>1 DEF FileInv
    <3> QED
      BY <3>1, <3>2
  <2> QED
    BY <2>4, <2>5
<1> QED
  BY <1>2, <1>3


\* A chunk that comes from the origin or from the file is put behind the others
\* and everyone subscribed has all of them.
LEMMA AddFacts ==
  ASSUME IInv, Calm, NEW c \in Clients, DownloadChunk(c) \/ ShareChunk(c), method' = method
  PROVE  /\ mgr[c] = c /\ pos[c] \in Nat /\ Len(content[c]) = pos[c] /\ pos'[c] = pos[c] + 1
         /\ content[c] \in Seq(ChunksOf(Path[c]))
         /\ Len(content'[c]) = pos[c] + 1
         /\ content'[c][pos[c] + 1] =
              IF DownloadChunk(c) THEN Chunk(c, pos[c] + 1) ELSE file[File(c)][pos[c] + 1]
         /\ \A i \in 1..pos[c] : content'[c][i] = content[c][i]
         /\ \A m \in Clients \ {c} : content'[m] = content[m] /\ pos'[m] = pos[m]
         /\ \A s \in subs[c] : got'[s] = content'[c]
         /\ \A s \in Clients \ subs[c] : got'[s] = got[s]
         /\ UNCHANGED <<hpc, mgr, subs, joined, closed, failed, fileVars>>
<1> DEFINE x == IF DownloadChunk(c) THEN Chunk(c, pos[c] + 1) ELSE file[File(c)][pos[c] + 1]
           new == Append(content[c], x)
<1>0. /\ mgr[c] = c /\ pos[c] = Len(content[c]) /\ pos \in [Clients -> Nat]
  BY DEF DownloadChunk, ShareChunk, IInv, Types, MainInv, Put, Calm, OwnerInv, MainPCs
<1>1. content[c] \in Seq(ChunksOf(Path[c])) /\ DOMAIN content = Clients /\ subs[c] \subseteq Clients
  BY DEF IInv, ContentInv, PathInv, Managers
<1>2. AddChunk(c, x) /\ x \in ChunksOf(Path[c])
  BY ChunkFacts
<1> HIDE DEF x
<1>3. /\ content' = [content EXCEPT ![c] = new]
      /\ got' = [s \in Clients |-> IF s \in subs[c] THEN new ELSE got[s]]
  BY <1>0, <1>2 DEF AddChunk
<1>4. /\ Len(new) = Len(content[c]) + 1 /\ new[Len(content[c]) + 1] = x
      /\ \A i \in 1..Len(content[c]) : new[i] = content[c][i]
  BY <1>1, <1>2
<1> HIDE DEF new
<1>5. content'[c] = new /\ \A m \in Clients \ {c} : content'[m] = content[m]
  BY <1>1, <1>3
<1>6. /\ UNCHANGED <<hpc, mgr, subs, joined, closed, failed, fileVars>>
      /\ pos' = [pos EXCEPT ![c] = pos[c] + 1]
  BY DEF DownloadChunk, ShareChunk
<1>7. /\ \A s \in subs[c] : got'[s] = content'[c]
      /\ \A s \in Clients \ subs[c] : got'[s] = got[s]
  BY <1>1, <1>3, <1>5
<1>8. content'[c][pos[c] + 1] = x
  BY <1>0, <1>4, <1>5
<1> QED
  BY <1>0, <1>1, <1>4, <1>5, <1>6, <1>7, <1>8 DEF x

\* Subscribers keep up with their manager.
LEMMA SentStep ==
  ASSUME IInv, Apart, Calm, NEW c \in Clients, Moves(c), Watch
  PROVE  SentInv'
<1> USE NoManagerAssumption DEF Managers
<1>0. /\ hpc \in [Clients -> HandlerPCs] /\ mgr \in [Clients -> Clients \cup {NoManager}]
      /\ subs \in [Clients -> SUBSET Clients] /\ joined \in [Clients -> Nat]
      /\ DOMAIN content = Clients /\ DOMAIN got = Clients
      /\ \A m \in Clients : Len(content[m]) \in Nat
      /\ SentInv /\ SubsInv /\ OwnerInv
      /\ method' = method
  BY DEF IInv, Types, PathInv, ContentInv, Calm, Watch
<1> DEFINE Early(d) == hpc'[d] \in EarlyPCs => got'[d] = <<>>
           Kept(m, s) == /\ joined'[s] <= Len(content'[m])
                         /\ joined'[s] < Len(content'[m]) => got'[s] = content'[m]
           Led(d) == mgr'[d] \in Clients =>
                       /\ mgr'[mgr'[d]] = mgr'[d]
                       /\ hpc'[mgr'[d]] \in FreshPCs => got'[d] = <<>> /\ d \notin closed'
<1>1. SUFFICES /\ \A d \in Clients : Early(d)
               /\ \A m \in Clients : \A s \in subs'[m] : Kept(m, s)
               /\ \A d \in Clients : Led(d)
  BY <1>1 DEF SentInv, EarlyPCs, FreshPCs
<1>2. \A m \in Clients : \A s \in subs[m] : mgr[s] = m /\ s \in Clients /\ hpc[s] \notin EarlyPCs
  BY <1>0 DEF SubsInv, EarlyPCs, MainPCs
<1>3. CASE DownloadChunk(c) \/ ShareChunk(c)
  <2>1. /\ Len(content'[c]) = Len(content[c]) + 1
        /\ \A m \in Clients \ {c} : content'[m] = content[m]
        /\ \A s \in subs[c] : got'[s] = content'[c]
        /\ \A s \in Clients \ subs[c] : got'[s] = got[s]
        /\ UNCHANGED <<hpc, mgr, subs, joined, closed>>
    BY <1>0, <1>3, AddFacts
  <2>2. hpc[c] \notin FreshPCs
    BY <1>3 DEF DownloadChunk, ShareChunk, FreshPCs
  <2>3. \A d \in Clients : Early(d)
    BY <1>0, <1>2, <2>1 DEF SentInv
  <2>4. ASSUME NEW d \in Clients PROVE Led(d)
    <3>1. CASE d \in subs[c]
      BY <1>0, <1>2, <2>1, <2>2, <3>1 DEF SentInv
    <3>2. CASE d \notin subs[c]
      BY <1>0, <2>1, <3>2 DEF SentInv
    <3> QED
      BY <3>1, <3>2
  <2>5. ASSUME NEW m \in Clients, NEW s \in subs'[m] PROVE Kept(m, s)
    <3>0. s \in subs[m] /\ s \in Clients /\ joined[s] <= Len(content[m]) /\ joined[s] \in Nat
      BY <1>0, <2>1, <2>5 DEF SentInv
    <3>1. CASE m = c
      BY <1>0, <2>1, <3>0, <3>1
    <3>2. CASE m # c
      <4>1. s \notin subs[c]
        BY <1>2, <3>0, <3>2
      <4> QED
        BY <1>0, <2>1, <3>0, <3>2, <4>1 DEF SentInv
    <3> QED
      BY <3>1, <3>2
  <2> QED
    BY <2>3, <2>4, <2>5
<1>4. CASE Accept(c) \/ Reject(c) \/ Lookup(c) \/ Create(c)
  <2>1. /\ hpc[c] \in EarlyPCs /\ UNCHANGED <<content, subs, got, joined>>
        /\ \A d \in Clients \ {c} : hpc'[d] = hpc[d] /\ mgr'[d] = mgr[d]
        /\ closed' \subseteq closed \cup {c}
        /\ mgr'[c] = c \/ (mgr'[c] = mgr[c] \/ mgr'[c] = get(Path[c]))
        /\ mgr'[c] # mgr[c] => closed' = closed
    BY <1>0, <1>4 DEF EarlyPCs, Accept, Reject, Lookup, Create, Goto, managerVars, clientVars
  <2>2. /\ got[c] = <<>> /\ c \notin closed /\ mgr[c] = NoManager
        /\ \A m \in Clients : c \notin subs[m]
    BY <1>0, <1>2, <2>1 DEF SentInv, SubsInv, OwnerInv, EarlyPCs
  <2>3. \A d \in Clients : Early(d)
    BY <1>0, <2>1, <2>2 DEF SentInv
  <2>4. \A m \in Clients : \A s \in subs'[m] : Kept(m, s)
    BY <1>0, <2>1 DEF SentInv
  <2>5. mgr'[c] \in Clients \ {c} => mgr[mgr'[c]] = mgr'[c]
    BY <2>1, <2>2, LookupFacts DEF Owns
  <2>6. Led(c)
    BY <2>1, <2>2, <2>5
  <2>7. ASSUME NEW d \in Clients \ {c} PROVE Led(d)
    <3>1. mgr[d] \in Clients => mgr[mgr[d]] = mgr[d] /\ mgr[d] # c
      BY <1>0, <2>2 DEF SentInv
    <3> QED
      BY <1>0, <2>1, <3>1 DEF SentInv
  <2> QED
    BY <2>3, <2>4, <2>6, <2>7
<1>5. CASE Subscribe(c)
  <2> DEFINE m == mgr[c]
  <2>1. m \in Clients /\ hpc[c] = "subscribe" /\ mstate[m] = "live"
    BY <1>5, JoinFacts DEF Subscribe
  <2>2. /\ subs' = [subs EXCEPT ![m] = subs[m] \cup {c}] /\ hpc' = [hpc EXCEPT ![c] = "elect"]
        /\ joined' = [joined EXCEPT ![c] = Len(content[m])]
        /\ mgr' = mgr /\ content' = content /\ got' = got /\ closed' = closed
    BY <1>5, <2>1 DEF Subscribe, Goto
  <2> HIDE DEF m
  <2>3. /\ hpc'[c] = "elect" /\ \A d \in Clients \ {c} : hpc'[d] = hpc[d] /\ joined'[d] = joined[d]
        /\ joined'[c] = Len(content[m])
        /\ subs'[m] = subs[m] \cup {c} /\ \A k \in Clients \ {m} : subs'[k] = subs[k]
    BY <1>0, <2>1, <2>2
  <2>4. \A k \in Clients : c \notin subs[k]
    BY <1>0, <2>1 DEF SubsInv, MainPCs
  <2>5. ASSUME NEW k \in Clients, NEW s \in subs'[k] PROVE Kept(k, s)
    <3>1. CASE s = c
      <4>1. k = m
        BY <2>3, <2>4, <2>5, <3>1
      <4> QED
        BY <1>0, <2>1, <2>2, <2>3, <3>1, <4>1
    <3>2. CASE s # c
      <4>1. s \in subs[k] /\ s \in Clients
        BY <1>0, <2>1, <2>3, <2>5, <3>2
      <4> QED
        BY <1>0, <2>2, <2>3, <3>2, <4>1 DEF SentInv
    <3> QED
      BY <3>1, <3>2
  <2>6. /\ \A d \in Clients : hpc'[d] \in EarlyPCs => hpc[d] \in EarlyPCs
        /\ \A d \in Clients : hpc'[d] \in FreshPCs => hpc[d] \in FreshPCs
    BY <2>1, <2>3 DEF EarlyPCs, FreshPCs
  <2>7. \A d \in Clients : Early(d) /\ Led(d)
    BY <1>0, <2>2, <2>6 DEF SentInv
  <2> QED
    BY <2>5, <2>7
<1>6. CASE Destroy(c)
  <2>1. mgr[c] = c /\ subs[c] = {}
    BY <1>0, <1>6 DEF Destroy, OwnerInv, SubsInv, MainPCs
  <2>2. /\ content' = [content EXCEPT ![c] = <<>>] /\ UNCHANGED <<mgr, subs, got, joined, closed>>
        /\ \A d \in Clients : hpc'[d] \in EarlyPCs => hpc[d] \in EarlyPCs
        /\ \A d \in Clients : hpc'[d] \in FreshPCs => hpc[d] \in FreshPCs
    BY <1>0, <1>6, <2>1 DEF Destroy, Goto, EarlyPCs, FreshPCs, clientVars
  <2>3. content'[c] = <<>> /\ \A m \in Clients \ {c} : content'[m] = content[m]
    BY <1>0, <2>2
  <2> QED
    BY <1>0, <2>1, <2>2, <2>3 DEF SentInv
<1>7. CASE Finish(c)
  <2>1. /\ mgr[c] = c /\ subs' = [subs EXCEPT ![c] = {}] /\ UNCHANGED <<mgr, content, got, joined>>
        /\ \A d \in Clients : hpc'[d] \in EarlyPCs => hpc[d] \in EarlyPCs
        /\ \A d \in Clients : hpc'[d] \in FreshPCs => hpc[d] \in FreshPCs
        /\ hpc[c] = "finish" /\ closed' = closed \cup subs[c]
    BY <1>0, <1>7 DEF Finish, Goto, EarlyPCs, FreshPCs, OwnerInv, MainPCs
  <2>2. \A m \in Clients : subs'[m] \subseteq subs[m]
    BY <1>0, <2>1
  <2>3. ASSUME NEW d \in Clients PROVE Led(d)
    <3>1. d \in subs[c] => mgr[d] = c /\ hpc[c] \notin FreshPCs
      BY <1>2, <2>1 DEF FreshPCs
    <3> QED
      BY <1>0, <2>1, <3>1 DEF SentInv
  <2> QED
    BY <1>0, <2>1, <2>2, <2>3 DEF SentInv
<1>8. CASE \/ Elect(c) \/ CheckCache(c) \/ DownloadEnds(c) \/ SaveOpen(c) \/ SaveFails(c)
           \/ SaveChunk(c) \/ SaveLoses(c) \/ SaveEnds(c) \/ ShareEnds(c) \/ ShareFails(c)
           \/ Delete(c)
  <2>1. /\ UNCHANGED <<mgr, subs, content, got, joined, closed>>
        /\ \A d \in Clients : hpc'[d] \in EarlyPCs => hpc[d] \in EarlyPCs
        /\ \A d \in Clients : hpc'[d] \in FreshPCs => hpc[d] \in FreshPCs
    BY <1>0, <1>8 DEF Elect, CheckCache, DownloadEnds, SaveOpen, SaveFails, SaveChunk, SaveLoses,
                      SaveEnds, ShareEnds, ShareFails, Delete, Goto, EarlyPCs, FreshPCs,
                      managerVars, clientVars
  <2> QED
    BY <1>0, <2>1 DEF SentInv
<1> QED
  BY <1>3, <1>4, <1>5, <1>6, <1>7, <1>8 DEF Moves, Step

\* What keeps d the source of manager m: nothing is added to the manager, its
\* clients and its file are left alone and it ends with the whole response.
Steady(m, d) ==
  /\ method' = method /\ torn \subseteq torn' /\ failed \subseteq failed'
  /\ content'[m] = content[m] \/ (content'[m] = <<>> /\ hpc'[m] \notin {"share", "finish"})
  /\ \A x \in Clients : mgr'[x] = m => (mgr[x] = m /\ got'[x] = got[x]) \/ got'[x] = <<>>
  /\ hpc'[m] \in {"download", "save", "write"} => d = m
  /\ hpc'[m] = "share" =>
       hpc[m] = "share" /\ pos'[m] = pos[m] /\ file'[File(m)] = file[File(m)]
  /\ hpc'[m] = "finish" /\ m \notin failed' => Whole(d, content[m])
  /\ \A x \in closed' : mgr'[x] = m /\ m \notin failed' /\ joined'[x] < Length[d] =>
       \/ x \in closed /\ mgr[x] = m /\ got'[x] = got[x] /\ joined'[x] = joined[x]
       \/ Whole(d, got'[x])

LEMMA SteadyFacts ==
  ASSUME NEW m \in Clients, NEW d \in Clients, Source(m, d), Steady(m, d)
  PROVE  Source(m, d)'
<1> USE DEF Steady
<1>0. File(d)' = File(d) /\ File(m)' = File(m)
  BY DEF File
<1>1. (File(d) = File(m))'
  BY <1>0 DEF Source
<1>2. PartOf(d, content'[m]) /\ \A x \in Clients : mgr'[x] = m => PartOf(d, got'[x])
  BY PartFacts DEF Source
<1>3. hpc'[m] = "share" =>
        /\ PartOf(d, file'[File(m)]) /\ (File(m) \in torn' \/ Whole(d, file'[File(m)]))
        /\ pos'[m] <= Len(file'[File(m)])
        /\ \A i \in 1..pos'[m] : content'[m][i] = file'[File(m)][i]
  BY DEF Source
<1>4. hpc'[m] = "finish" /\ m \notin failed' => Whole(d, content'[m])
  OBVIOUS
<1>5. \A x \in closed' :
        mgr'[x] = m /\ m \notin failed' /\ joined'[x] < Length[d] => Whole(d, got'[x])
  BY DEF Source
<1>6. hpc'[m] \in {"download", "save", "write"} => d = m
  OBVIOUS
<1> HIDE DEF Steady
<1> QED
  BY <1>0, <1>1, <1>2, <1>3, <1>4, <1>5, <1>6 DEF Source

\* What a step of c's handler leaves alone.
LEMMA FrameFacts ==
  ASSUME IInv, Apart, Calm, NEW c \in Clients, Moves(c), Watch
  PROVE  /\ method' = method /\ torn \subseteq torn' /\ failed \subseteq failed'
         /\ \A m \in Clients \ {c} : /\ hpc'[m] = hpc[m] /\ pos'[m] = pos[m]
                                     /\ content'[m] = content[m]
                                     /\ mgr'[m] = mgr[m] /\ joined'[m] = joined[m]
         /\ \A x \in Clients : got'[x] = got[x] \/ (x \in subs[c] /\ mgr[x] = c /\ x \notin closed)
         /\ (mgr'[c] = mgr[c] /\ joined'[c] = joined[c]) \/ c \notin closed'
         /\ mgr'[c] = mgr[c] \/ got'[c] = <<>>
         /\ \A x \in closed' : x \in closed \/ mgr'[x] \in {NoManager, c}
         /\ \A f \in Files : file'[f] = file[f] \/ (f = File(c) /\ hpc'[c] = "write")
<1> USE NoManagerAssumption DEF Managers
<1>0. /\ hpc \in [Clients -> HandlerPCs] /\ mgr \in [Clients -> Clients \cup {NoManager}]
      /\ subs \in [Clients -> SUBSET Clients] /\ joined \in [Clients -> Nat]
      /\ pos \in [Clients -> Nat]
      /\ DOMAIN content = Clients /\ DOMAIN got = Clients /\ DOMAIN file = Files
      /\ SentInv /\ SubsInv /\ OwnerInv
      /\ method' = method
  BY DEF IInv, Types, PathInv, ContentInv, CacheInv, Calm, Watch
<1>1. CASE DownloadChunk(c) \/ ShareChunk(c)
  <2>1. \A x \in subs[c] : mgr[x] = c /\ x \notin closed
    BY <1>0 DEF SubsInv
  <2>2. UNCHANGED <<hpc, mgr, subs, joined, closed, failed, cached, file, torn>>
    BY <1>0, <1>1, AddFacts DEF fileVars
  <2> QED
    BY <1>0, <1>1, <2>1, <2>2, AddFacts
<1>2. CASE Accept(c) \/ Reject(c) \/ Lookup(c) \/ Create(c)
  <2>1. /\ hpc[c] \in EarlyPCs
        /\ UNCHANGED <<pos, content, failed, got, joined, file, torn>>
        /\ \A d \in Clients \ {c} : hpc'[d] = hpc[d] /\ mgr'[d] = mgr[d]
        /\ closed' = closed \/ (closed' = closed \cup {c} /\ mgr'[c] = mgr[c])
    BY <1>0, <1>2 DEF EarlyPCs, Accept, Reject, Lookup, Create, Goto, managerVars, clientVars,
                      fileVars
  <2>2. got[c] = <<>> /\ c \notin closed /\ mgr[c] = NoManager
    BY <1>0, <2>1 DEF SentInv, SubsInv, OwnerInv, EarlyPCs
  <2> QED
    BY <1>0, <2>1, <2>2
<1>3. CASE Subscribe(c) \/ Elect(c)
  <2>1. /\ hpc[c] \in {"subscribe", "elect"}
        /\ UNCHANGED <<mgr, pos, content, failed, got, closed, file, torn>>
        /\ \A d \in Clients \ {c} : hpc'[d] = hpc[d] /\ joined'[d] = joined[d]
    BY <1>0, <1>3 DEF Subscribe, Elect, Goto, clientVars, fileVars
  <2>2. c \notin closed
    BY <1>0, <2>1 DEF SubsInv
  <2> QED
    BY <1>0, <2>1, <2>2
<1>4. CASE CheckCache(c) \/ DownloadEnds(c) \/ ShareEnds(c) \/ ShareFails(c)
           \/ SaveFails(c) \/ SaveEnds(c) \/ Delete(c)
  BY <1>0, <1>4 DEF CheckCache, DownloadEnds, ShareEnds, ShareFails, SaveFails, SaveEnds, Delete,
                    Goto, managerVars, clientVars, fileVars
<1>5. CASE SaveOpen(c) \/ SaveChunk(c) \/ SaveLoses(c)
  BY <1>0, <1>5, SMTT(20) DEF SaveOpen, SaveChunk, SaveLoses, Goto, managerVars, clientVars
<1>6. CASE Finish(c)
  <2>1. mgr[c] = c /\ \A x \in subs[c] : mgr[x] = c
    BY <1>0, <1>6 DEF Finish, OwnerInv, MainPCs, SubsInv
  <2> QED
    BY <1>0, <1>6, <2>1 DEF Finish, Goto, fileVars
<1>7. CASE Destroy(c)
  <2>1. mgr[c] = c
    BY <1>0, <1>7 DEF Destroy, OwnerInv, MainPCs
  <2> QED
    BY <1>0, <1>7, <2>1 DEF Destroy, Goto, clientVars, fileVars
<1> QED
  BY <1>1, <1>2, <1>3, <1>4, <1>5, <1>6, <1>7 DEF Moves, Step

\* A handler that moves on leaves the sources of the other managers as they are.
LEMMA OtherSource ==
  ASSUME IInv, Apart, Apart', Calm, NEW c \in Clients, Moves(c), Watch,
         NEW m \in Clients \ {c}, NEW d \in Clients, Source(m, d)
  PROVE  Source(m, d)'
<1> USE NoManagerAssumption
<1>1. /\ method' = method /\ torn \subseteq torn' /\ failed \subseteq failed'
      /\ hpc'[m] = hpc[m] /\ pos'[m] = pos[m] /\ content'[m] = content[m]
      /\ closed \subseteq Clients
  BY FrameFacts DEF IInv, Types
<1>2. ASSUME NEW x \in Clients, mgr'[x] = m
      PROVE  (mgr[x] = m /\ got'[x] = got[x]) \/ got'[x] = <<>>
  BY <1>2, FrameFacts
<1>3. hpc'[m] = "share" => file'[File(m)] = file[File(m)]
  <2>1. File(m) \in Files /\ File(m)' = File(m) /\ File(c)' = File(c)
    BY <1>1, FileFacts, NameFacts DEF IInv
  <2>2. hpc'[m] = "share" /\ hpc'[c] = "write" => File(m) # File(c)
    BY <2>1 DEF Apart
  <2> QED
    BY <2>1, <2>2, FrameFacts
<1>4. ASSUME NEW x \in closed', mgr'[x] = m
      PROVE  x \in closed /\ mgr[x] = m /\ got'[x] = got[x] /\ joined'[x] = joined[x]
  <2>1. x \in closed
    BY <1>4, FrameFacts
  <2> QED
    BY <1>1, <1>4, <2>1, FrameFacts
<1>5. Steady(m, d)
  BY <1>1, <1>2, <1>3, <1>4 DEF Steady, Source
<1> QED
  BY <1>5, SteadyFacts

\* The steps of a handler itself that add nothing to its manager, after which it
\* does not read its file.
LEMMA OwnSteady ==
  ASSUME IInv, Apart, Calm, NEW c \in Clients, Moves(c), Watch, NEW d \in Clients, Source(c, d),
         content'[c] = content[c] \/ (content'[c] = <<>> /\ hpc'[c] # "finish"),
         hpc'[c] # "share", got' = got, \A x \in closed' : x \in closed \/ mgr'[x] = NoManager,
         hpc'[c] \in {"download", "save", "write"} => d = c,
         hpc'[c] = "finish" /\ c \notin failed' => Whole(d, content[c])
  PROVE  Source(c, d)'
<1> USE NoManagerAssumption
<1>1. /\ method' = method /\ torn \subseteq torn' /\ failed \subseteq failed'
      /\ closed \subseteq Clients
  BY FrameFacts DEF IInv, Types
<1>2. ASSUME NEW x \in Clients, mgr'[x] = c
      PROVE  (mgr[x] = c /\ got'[x] = got[x]) \/ got'[x] = <<>>
  BY <1>2, FrameFacts
<1>3. ASSUME NEW x \in closed', mgr'[x] = c
      PROVE  x \in closed /\ mgr[x] = c /\ got'[x] = got[x] /\ joined'[x] = joined[x]
  <2>1. x \in closed
    BY <1>3
  <2> QED
    BY <1>1, <1>3, <2>1, FrameFacts
<1>4. Steady(c, d)
  BY <1>1, <1>2, <1>3 DEF Steady
<1> QED
  BY <1>4, SteadyFacts

\* __check_cache chooses the source: the handler's own download, or the one
\* that the cache file holds a part of, all of it unless the file is torn.
LEMMA CheckSource ==
  ASSUME IInv, Apart', Calm, NEW c \in Clients, CheckCache(c), Watch
  PROVE  \E d \in Clients : Source(c, d)'
<1> USE NoManagerAssumption DEF Managers
<1> DEFINE F == File(c)
<1>0. /\ mgr[c] = c /\ hpc[c] = "check" /\ F \in Files
      /\ \A d \in Clients : File(d)' = File(d)
      /\ hpc \in [Clients -> HandlerPCs] /\ pos \in [Clients -> Nat] /\ closed \subseteq Clients
      /\ content[c] = <<>>
  BY FileFacts, NameFacts
     DEF CheckCache, IInv, Types, MainInv, Put, Calm, OwnerInv, MainPCs, Watch
<1>1. /\ pos'[c] = 0 /\ UNCHANGED <<mgr, content, got, closed, failed, file, torn>>
      /\ hpc'[c] = IF F \in cached THEN "share" ELSE "download"
      /\ \A d \in Clients \ {c} : hpc'[d] = hpc[d]
  BY <1>0 DEF CheckCache, CacheExists, Goto, managerVars, clientVars, fileVars
<1>2. \A x \in Clients : mgr[x] = c => got[x] = <<>> /\ x \notin closed
  BY <1>0 DEF Calm, SentInv, FreshPCs
<1>3. ASSUME NEW d \in Clients, File(d) = F,
             F \in cached => PartOf(d, file[F]) /\ (F \in torn \/ Whole(d, file[F])),
             F \notin cached => d = c
      PROVE  Source(c, d)'
  <2>1. PartOf(d, <<>>)
    BY PartFacts
  <2>2. file[F] \in Seq(FileChunks(F))
    BY <1>0 DEF IInv, CacheInv
  <2>3. 0 <= Len(file[F]) /\ \A i \in 1..0 : content[c][i] = file[F][i]
    BY <2>2
  <2> HIDE DEF F
  <2>4. File(c)' = F /\ File(d)' = F
    BY <1>0, <1>3 DEF F
  <2> QED
    BY <1>0, <1>1, <1>2, <1>3, <2>1, <2>3, <2>4 DEF Source
<1>4. CASE F \notin cached
  BY <1>0, <1>3, <1>4
<1>5. CASE F \in torn /\ F \in cached
  <2>1. PICK d \in Clients : File(d) = F /\ PartOf(d, file[F])
    BY <1>5 DEF Calm, FileInv
  <2> QED
    BY <1>3, <1>5, <2>1
<1>6. CASE F \in cached \ torn
  <2>1. ~\E d \in Clients : hpc[d] = "write" /\ File(d) = F
    <3> SUFFICES ASSUME NEW d \in Clients, hpc[d] = "write", File(d) = F PROVE FALSE
      OBVIOUS
    <3>1. d # c /\ hpc'[d] = "write" /\ hpc'[c] = "share" /\ File(d)' = File(c)'
      BY <1>0, <1>1, <1>6
    <3> QED
      BY <3>1 DEF Apart
  <2>2. PICK d \in Clients : File(d) = F /\ Whole(d, file[F])
    BY <1>6, <2>1 DEF IInv, CacheInv
  <2>3. PartOf(d, file[F])
    BY <2>2, PartFacts, LengthAssumption DEF Whole
  <2> QED
    BY <1>3, <1>6, <2>2, <2>3
<1> QED
  BY <1>4, <1>5, <1>6

\* A chunk that is added comes from the source.
LEMMA AddSource ==
  ASSUME IInv, IInv', Calm, NEW c \in Clients, DownloadChunk(c) \/ ShareChunk(c), Watch,
         NEW d \in Clients, Source(c, d)
  PROVE  Source(c, d)'
<1>0. /\ method' = method /\ File(c)' = File(c) /\ File(d)' = File(d)
      /\ File(c) \in Files /\ closed \subseteq Clients
      /\ file[File(c)] \in Seq(FileChunks(File(c)))
  BY FileFacts, NameFacts DEF Watch, IInv, Types, CacheInv
<1>1. /\ mgr[c] = c /\ pos[c] \in Nat /\ pos'[c] = pos[c] + 1
      /\ Len(content'[c]) = pos[c] + 1
      /\ \A i \in 1..pos[c] : content'[c][i] = content[c][i]
      /\ \A s \in subs[c] : got'[s] = content'[c]
      /\ \A s \in Clients \ subs[c] : got'[s] = got[s]
      /\ UNCHANGED <<hpc, mgr, subs, joined, closed, failed, file, torn>>
      /\ ~DownloadChunk(c) => content'[c][pos[c] + 1] = file[File(c)][pos[c] + 1]
  BY <1>0, AddFacts DEF fileVars
<1>2. PartOf(d, content'[c]) /\ (hpc[c] = "share" =>
                                    /\ pos'[c] <= Len(file[File(c)])
                                    /\ \A i \in 1..pos'[c] : content'[c][i] = file[File(c)][i])
  <2>1. CASE DownloadChunk(c)
    <3>1. hpc[c] = "download" /\ d = c
      BY <2>1 DEF DownloadChunk, Source
    <3>2. pos'[c] <= Length[c] /\ Begins(c, content'[c])
      BY <1>1, <3>1 DEF IInv, MainInv, Put
    <3> QED
      BY <1>1, <3>1, <3>2, PartFacts
  <2>2. CASE ~DownloadChunk(c)
    <3> DEFINE s == file[File(c)]
               t == content'[c]
    <3>1. /\ hpc[c] = "share" /\ pos[c] < Len(s) /\ Len(s) \in Nat
          /\ PartOf(d, s) /\ \A i \in 1..pos[c] : content[c][i] = s[i]
      BY <1>0, <2>2 DEF ShareChunk, Source
    <3>2. /\ Len(t) \in Nat /\ Len(t) <= Len(s) /\ pos'[c] = Len(t)
          /\ \A i \in 1..Len(t) : t[i] = s[i]
      <4> SUFFICES ASSUME NEW i \in 1..Len(t) PROVE t[i] = s[i]
        BY <1>1, <3>1
      <4>1. i \in 1..pos[c] \/ i = pos[c] + 1
        BY <1>1
      <4> QED
        BY <1>1, <2>2, <3>1, <4>1
    <3> HIDE DEF s, t
    <3>3. PartOf(d, t)
      BY <3>1, <3>2, PartFacts
    <3> QED
      BY <3>2, <3>3 DEF s, t
  <2> QED
    BY <2>1, <2>2
<1>3. \A x \in Clients : mgr[x] = c => PartOf(d, got'[x])
  BY <1>1, <1>2 DEF Source
<1>4. \A x \in closed : got'[x] = got[x]
  BY <1>0, <1>1 DEF Calm, SubsInv, Managers
<1>5. hpc[c] \in {"download", "share"}
  BY DEF DownloadChunk, ShareChunk
<1> QED
  BY <1>0, <1>1, <1>2, <1>3, <1>4, <1>5 DEF Source

\* The source of a session that ends has been handed out as a whole.
LEMMA EndSource ==
  ASSUME IInv, Apart, Calm, NEW c \in Clients, Moves(c), Watch,
         ShareEnds(c) \/ Finish(c), NEW d \in Clients, Source(c, d)
  PROVE  Source(c, d)'
<1> USE DEF Managers
<1>0. mgr[c] = c /\ File(c) \in Files /\ hpc \in [Clients -> HandlerPCs] /\ pos[c] \in Nat
  BY FileFacts DEF ShareEnds, Finish, IInv, Types, Calm, OwnerInv, MainPCs
<1>1. CASE ShareEnds(c)
  <2> DEFINE s == file[File(c)]
             t == content[c]
  <2>1. /\ hpc[c] = "share" /\ pos[c] >= Len(s) /\ hpc'[c] = "finish"
        /\ failed' = IF File(c) \in torn THEN failed \cup {c} ELSE failed
        /\ UNCHANGED <<content, got, closed>>
    BY <1>0, <1>1 DEF ShareEnds, Goto, clientVars
  <2>2. /\ File(c) \in torn \/ Whole(d, s)
        /\ pos[c] <= Len(s) /\ \A i \in 1..pos[c] : t[i] = s[i]
    BY <2>1 DEF Source
  <2>3. s \in Seq(FileChunks(File(c))) /\ Len(t) = pos[c]
    BY <1>0, <2>1 DEF IInv, CacheInv, MainInv, Put
  <2>4. Len(s) \in Nat /\ Len(t) = Len(s)
    BY <1>0, <2>1, <2>2, <2>3
  <2>5. c \notin failed' => Whole(d, t)
    <3> HIDE DEF s, t
    <3> QED
      BY <2>1, <2>2, <2>3, <2>4 DEF Whole, Begins
  <2> QED
    BY <2>1, <2>5, OwnSteady
<1>2. CASE Finish(c)
  <2>1. /\ hpc[c] = "finish" /\ hpc'[c] = "destroy" /\ closed' = closed \cup subs[c]
        /\ UNCHANGED <<mgr, content, failed, got, joined>>
    BY <1>0, <1>2 DEF Finish, Goto
  <2>2. method' = method /\ torn \subseteq torn'
    BY FrameFacts
  <2>3. ASSUME NEW x \in subs[c], c \notin failed, joined[x] < Length[d]
        PROVE  Whole(d, got[x])
    <3>1. Whole(d, content[c])
      BY <2>1, <2>3 DEF Source
    <3> QED
      BY <2>3, <3>1 DEF Calm, SentInv, Whole
  <2>4. Steady(c, d)
    BY <2>1, <2>2, <2>3 DEF Steady
  <2> QED
    BY <2>4, SteadyFacts
<1> QED
  BY <1>1, <1>2

\* Every manager keeps having a source.
LEMMA SourceStep ==
  ASSUME IInv, IInv', Apart, Apart', Calm, NEW c \in Clients, Moves(c), Watch
  PROVE  SourceInv'
<1> USE NoManagerAssumption DEF Managers
<1> SUFFICES ASSUME NEW m \in Clients PROVE \E d \in Clients : Source(m, d)'
  BY DEF SourceInv
<1>0. PICK d \in Clients : Source(m, d)
  BY DEF Calm, SourceInv
<1>1. CASE m # c
  BY <1>0, <1>1, OtherSource
<1>2. CASE CheckCache(c) /\ m = c
  BY <1>2, CheckSource
<1>3. CASE (DownloadChunk(c) \/ ShareChunk(c)) /\ m = c
  BY <1>0, <1>3, AddSource
<1>4. CASE (ShareEnds(c) \/ Finish(c)) /\ m = c
  BY <1>0, <1>4, EndSource
<1>5. CASE m = c /\ ~(\/ CheckCache(c) \/ DownloadChunk(c) \/ ShareChunk(c) \/ ShareEnds(c)
                      \/ Finish(c))
  <2>0. /\ hpc \in [Clients -> HandlerPCs] /\ DOMAIN content = Clients
        /\ closed \subseteq Clients /\ OwnerInv /\ SubsInv
        /\ \A x \in Clients : mgr[x] \in Clients \cup {NoManager}
    BY DEF IInv, Types, ContentInv, Calm
  <2>1. CASE Accept(c) \/ Reject(c) \/ Lookup(c) \/ Create(c)
    <3>1. /\ UNCHANGED <<content, got>> /\ hpc[c] \in EarlyPCs
          /\ hpc'[c] \in {"recv", "done", "create", "subscribe"}
          /\ closed' = closed \/ (closed' = closed \cup {c} /\ mgr'[c] = mgr[c])
      BY <2>0, <2>1 DEF Accept, Reject, Lookup, Create, Goto, managerVars, clientVars, EarlyPCs
    <3>2. mgr[c] = NoManager
      BY <2>0, <3>1 DEF OwnerInv
    <3> QED
      BY <1>0, <1>5, <3>1, <3>2, OwnSteady
  <2>2. CASE Subscribe(c) \/ Elect(c)
    <3>1. UNCHANGED <<content, got, closed>> /\ hpc'[c] \in {"subscribe", "elect", "done", "check"}
      BY <2>0, <2>2 DEF Subscribe, Elect, Goto, clientVars
    <3> QED
      BY <1>0, <1>5, <3>1, OwnSteady
  <2>3. CASE \/ DownloadEnds(c) \/ SaveOpen(c) \/ SaveFails(c) \/ SaveChunk(c) \/ SaveLoses(c)
             \/ SaveEnds(c) \/ ShareFails(c)
    <3>0. mgr[c] = c /\ Put(c)
      BY <2>3, MiddleFacts DEF Middle, IInv, MainInv
    <3>1. UNCHANGED <<content, got, closed>>
      BY <2>3 DEF DownloadEnds, SaveOpen, SaveFails, SaveChunk, SaveLoses, SaveEnds, ShareFails,
                  managerVars, clientVars
    <3>2. /\ hpc'[c] \in {"save", "write", "finish"}
          /\ hpc'[c] = "finish" => c \in failed' \/ hpc[c] \in {"save", "write"}
          /\ hpc'[c] \in {"save", "write"} => hpc[c] \in {"download", "save", "write"}
          /\ hpc[c] \in {"download", "save", "write", "share"}
      BY <2>0, <2>3, <3>0 DEF DownloadEnds, SaveOpen, SaveFails, SaveChunk, SaveLoses, SaveEnds,
                              ShareFails, Goto
    <3>3. hpc[c] \in {"download", "save", "write"} => d = c
      BY <1>0, <1>5 DEF Source
    <3>4. hpc'[c] = "finish" /\ c \notin failed' => Whole(d, content[c])
      BY <3>0, <3>2, <3>3 DEF Put
    <3> QED
      BY <1>0, <1>5, <3>1, <3>2, <3>3, <3>4, OwnSteady
  <2>4. CASE Destroy(c) \/ Delete(c)
    <3>0. mgr[c] = c
      BY <2>0, <2>4 DEF Destroy, Delete, OwnerInv, MainPCs
    <3>1. /\ UNCHANGED <<got, closed>> /\ hpc'[c] \in {"delete", "stuck", "done"}
          /\ content'[c] = content[c] \/ content'[c] = <<>>
      BY <2>0, <2>4, <3>0 DEF Destroy, Delete, Goto, managerVars, clientVars
    <3> QED
      BY <1>0, <1>5, <3>1, OwnSteady
  <2> QED
    BY <1>5, <2>1, <2>2, <2>3, <2>4 DEF Moves, Step
<1> QED
  BY <1>1, <1>2, <1>3, <1>4, <1>5

\* What a client was sent has a name: that of its manager's source, or the one
\* it had when the process died.
LEMMA NamedFacts ==
  ASSUME IInv, SourceInv, LeftInv, NEW c \in Clients
  PROVE  Named(c, got[c])
<1>1. CASE mgr[c] = NoManager
  BY <1>1 DEF LeftInv
<1>2. CASE mgr[c] # NoManager
  <2>1. mgr[c] \in Managers /\ mgr[c] \in Clients /\ Path[mgr[c]] = Path[c]
    BY <1>2 DEF IInv, Types, PathInv, Managers
  <2>2. PICK d \in Clients : Source(mgr[c], d)
    BY <2>1 DEF SourceInv
  <2> QED
    BY <2>1, <2>2 DEF Source, Named
<1> QED
  BY <1>1, <1>2

\* Files keep their names, so this does not change.
LEMMA NamedSame ==
  ASSUME method' = method, NEW c \in Clients, NEW t, Named(c, t)
  PROVE  \E e \in Clients : \E d \in Clients :
           Path[e] = Path[c] /\ File(d)' = File(e)' /\ PartOf(d, t)
<1>1. PICK e \in Clients, d \in Clients : Path[e] = Path[c] /\ File(d) = File(e) /\ PartOf(d, t)
  BY DEF Named
<1>2. File(d)' = File(d) /\ File(e)' = File(e)
  BY DEF File
<1> QED
  BY <1>1, <1>2

LEMMA LeftStep ==
  ASSUME IInv, Apart, Calm, NEW c \in Clients, Moves(c), Watch
  PROVE  LeftInv'
<1> USE NoManagerAssumption
<1> SUFFICES ASSUME NEW x \in Clients, mgr'[x] = NoManager
             PROVE  \E e \in Clients : \E d \in Clients :
                      Path[e] = Path[x] /\ File(d)' = File(e)' /\ PartOf(d, got'[x])
  BY DEF LeftInv, Named
<1>1. CASE got'[x] = <<>>
  BY <1>1, PartFacts
<1>2. CASE got'[x] # <<>>
  <2>1. mgr[x] = NoManager /\ got'[x] = got[x] /\ method' = method
    BY <1>2, FrameFacts
  <2>2. Named(x, got[x])
    BY <2>1 DEF Calm, LeftInv
  <2> QED
    BY <2>1, <2>2, NamedSame
<1> QED
  BY <1>1, <1>2

\* After a crash nobody owns a session and nobody is subscribed.
LEMMA CalmCrash ==
  ASSUME IInv, Calm, Crash, Watch
  PROVE  Calm'
<1> USE NoManagerAssumption DEF Managers
<1>0. /\ hpc' \in [Clients -> {"idle", "done", "lost"}]
      /\ \A c \in Clients : hpc'[c] = "idle" => hpc[c] = "idle"
      /\ \A c \in closed : hpc'[c] \in {"idle", "done"}
      /\ closed \subseteq Clients
      /\ mgr' = [c \in Clients |-> NoManager] /\ busy' = {} /\ failed' = {} /\ map' = <<>>
      /\ subs' = [m \in Clients |-> {}] /\ content' = [m \in Clients |-> <<>>]
      /\ UNCHANGED <<got, closed, cached, file, method>>
      /\ \A c \in Clients : File(c)' = File(c)
  BY NameFacts DEF Crash, Watch, IInv, Types, clientVars
<1>1. OwnerInv'
  BY <1>0 DEF OwnerInv, Owns, OwnerPCs, MainPCs
<1>2. MapInv'
  BY <1>0 DEF MapInv, Owners, Owns, OwnerPCs, MainPCs
<1>3. SubsInv'
  <2>1. \A c \in closed : hpc'[c] = "done"
    BY DEF Crash, Calm, SubsInv, IInv, Types
  <2> QED
    BY <1>0, <2>1 DEF SubsInv
<1>4. SentInv'
  <2>1. \A c \in Clients : hpc'[c] \in EarlyPCs => got'[c] = <<>>
    BY <1>0 DEF Calm, SentInv, EarlyPCs
  <2> QED
    BY <1>0, <2>1 DEF SentInv
<1>5. FileInv'
  BY <1>0 DEF Calm, FileInv
<1>6. SourceInv'
  <2> SUFFICES ASSUME NEW m \in Clients PROVE Source(m, m)'
    BY DEF SourceInv
  <2>1. PartOf(m, content'[m])
    BY <1>0, PartFacts
  <2> QED
    BY <1>0, <2>1 DEF Source
<1>7. LeftInv'
  <2> SUFFICES ASSUME NEW c \in Clients
               PROVE  \E e \in Clients : \E d \in Clients :
                        Path[e] = Path[c] /\ File(d)' = File(e)' /\ PartOf(d, got'[c])
    BY DEF LeftInv, Named
  <2>1. Named(c, got[c])
    BY NamedFacts DEF Calm
  <2> QED
    BY <1>0, <2>1, NamedSame
<1> QED
  BY <1>1, <1>2, <1>3, <1>4, <1>5, <1>6, <1>7 DEF Calm

\* Initially nobody owns a session either.
LEMMA CalmInit == Init => Apart /\ Calm
<1> SUFFICES ASSUME Init PROVE Apart /\ Calm
  OBVIOUS
<1> USE NoManagerAssumption DEF Managers
<1>1. Apart
  BY DEF Init, Apart, StartPCs
<1>2. OwnerInv
  BY DEF Init, OwnerInv, Owns, OwnerPCs, MainPCs
<1>3. MapInv
  BY DEF Init, MapInv, Owners, Owns, OwnerPCs, MainPCs
<1>4. SubsInv
  BY DEF Init, SubsInv
<1>5. SentInv
  BY DEF Init, SentInv
<1>6. FileInv
  BY DEF Init, FileInv
<1>7. SourceInv
  <2> SUFFICES ASSUME NEW m \in Clients PROVE Source(m, m)
    BY DEF SourceInv
  <2> QED
    BY PartFacts DEF Init, Source
<1>8. LeftInv
  BY PartFacts DEF Init, LeftInv, Named
<1> QED
  BY <1>1, <1>2, <1>3, <1>4, <1>5, <1>6, <1>7, <1>8 DEF Calm

\* Every step without a race preserves what holds without races.
LEMMA CalmNext == IInv /\ CalmInv /\ [Next]_vars => CalmInv'
<1> SUFFICES ASSUME IInv, CalmInv, [Next]_vars PROVE CalmInv'
  OBVIOUS
<1>0. IInv'
  BY NextIInv
<1>1. CASE Watch /\ ((\E c \in Clients : Moves(c)) \/ Crash)
  <2> SUFFICES ASSUME ~raced' PROVE Apart' /\ ~fault' /\ Calm'
    BY DEF CalmInv
  <2>1. ~raced /\ ~Race'
    BY <1>1 DEF Watch, IInv, BoolInv
  <2>2. Apart /\ ~fault /\ Calm
    BY <2>1 DEF CalmInv
  <2>3. Apart'
    BY <2>1, ApartFacts, PTL
  <2>4. ASSUME NEW c \in Clients, Moves(c) PROVE ~fault' /\ Calm'
    <3>1. ~fault'
      BY <2>2, <2>4, FaultStep
    <3>2. OwnerInv' /\ MapInv' /\ SubsInv'
      BY <2>2, <2>4, OwnerStep, MapStep, SubsStep
    <3>3. SentInv' /\ FileInv'
      BY <1>1, <2>2, <2>3, <2>4, SentStep, FileStep
    <3>4. SourceInv' /\ LeftInv'
      BY <1>0, <1>1, <2>2, <2>3, <2>4, SourceStep, LeftStep
    <3> QED
      BY <3>1, <3>2, <3>3, <3>4 DEF Calm
  <2>5. ASSUME Crash PROVE ~fault' /\ Calm'
    <3>1. Calm'
      BY <1>1, <2>2, <2>5, CalmCrash
    <3>2. fault' = fault
      BY <2>5 DEF Crash
    <3> QED
      BY <2>2, <3>1, <3>2
  <2> QED
    BY <1>1, <2>3, <2>4, <2>5
<1>2. CASE UNCHANGED vars
  <2>1. UNCHANGED <<raced, fault>> /\ Apart' = Apart
    BY <1>2 DEF vars, handlerVars, Apart, File
  <2>2. OwnerInv' = OwnerInv /\ MapInv' = MapInv /\ SubsInv' = SubsInv
    BY <1>2 DEF vars, handlerVars, managerVars, clientVars, OwnerInv, MapInv, SubsInv, Owners, Owns
  <2>3. SentInv' = SentInv /\ FileInv' = FileInv
    BY <1>2 DEF vars, handlerVars, managerVars, clientVars, fileVars, SentInv, FileInv, File
  <2>4. SourceInv' = SourceInv /\ LeftInv' = LeftInv
    BY <1>2 DEF vars, handlerVars, managerVars, clientVars, fileVars, SourceInv, Source, LeftInv,
                Named, File
  <2> QED
    BY <2>1, <2>2, <2>3, <2>4 DEF CalmInv, Calm
<1> QED
  BY <1>1, <1>2 DEF Next, Handle, Moves, Quiet

-----------------------------------------------------------------------------
\* As long as requests have not raced, no freed manager is used, what a client
\* was sent are chunks of one response, in order, and every session has one
\* response: a client of it that is closed, and that joined before the last
\* chunk, has been sent the whole of it, unless the transfer failed, the cache
\* file is torn or was not read to its end (__handle_client of handler.c,
\* add_chunk and finish_pending_chunks of subscription.c, save_cache and
\* share_cache of cache.c).
THEOREM Served == Spec => []ServedWhole
<1>1. Init => CalmInv
  <2> SUFFICES ASSUME Init PROVE CalmInv
    OBVIOUS
  <2>1. fault = FALSE
    BY DEF Init
  <2> QED
    BY <2>1, CalmInit DEF CalmInv
<1>2. IInv /\ CalmInv => ServedWhole
  <2> SUFFICES ASSUME IInv, CalmInv, ~raced PROVE ServedWhole
    BY DEF ServedWhole
  <2>1. ~fault /\ SourceInv /\ LeftInv
    BY DEF CalmInv, Calm
  <2>2. \A c \in Clients : \E e \in Clients : \E d \in Clients :
          Path[e] = Path[c] /\ File(d) = File(e) /\ PartOf(d, got[c])
    BY <2>1, NamedFacts DEF Named
  <2>3. ASSUME NEW m \in Managers
        PROVE  \E d \in Clients :
                 /\ File(d) = File(m)
                 /\ \A c \in Clients : mgr[c] = m =>
                      /\ PartOf(d, got[c])
                      /\ c \in closed /\ m \notin failed /\ joined[c] < Length[d]
                         => got[c] = Response(d)
    <3>1. PICK d \in Clients : Source(m, d)
      BY <2>1 DEF SourceInv
    <3>2. \A c \in Clients : Whole(d, got[c]) => got[c] = Response(d)
      <4>1. \A c \in Clients : got[c] \in Seq(ChunksOf(Path[c]))
        BY DEF IInv, ContentInv
      <4> QED
        BY <4>1, WholeFacts
    <3> QED
      BY <3>1, <3>2 DEF Source
  <2> QED
    BY <2>1, <2>2, <2>3 DEF ServedWhole
<1> QED
  BY <1>1, <1>2, CalmNext, Invariance, PTL DEF Spec

\* Where the names of the cache files tell the paths apart, where no two paths
\* have the same hash (hashn of common.c), a client is only sent chunks that were
\* downloaded for its own path, whatever the races, failed writes and crashes.
THEOREM OwnPathOnly ==
  ASSUME \A c, d \in Clients : \A x \in Methods[c], y \in Methods[d] :
           CacheName(x, Path[c]) = CacheName(y, Path[d]) => Path[c] = Path[d]
  PROVE  Spec => [](\A c \in Clients : \A i \in 1..Len(got[c]) :
                      got[c][i] # Hole => Path[got[c][i][1]] = Path[c])
<1>1. IInv => \A c \in Clients : \A i \in 1..Len(got[c]) :
                got[c][i] # Hole => Path[got[c][i][1]] = Path[c]
  <2> SUFFICES ASSUME IInv, NEW c \in Clients, NEW i \in 1..Len(got[c]), got[c][i] # Hole
               PROVE  Path[got[c][i][1]] = Path[c]
    OBVIOUS
  <2>1. got[c][i] \in ChunksOf(Path[c])
    BY DEF IInv, ContentInv
  <2>2. PICK e \in Clients : Path[e] = Path[c] /\ File(got[c][i][1]) = File(e)
    BY <2>1 DEF ChunksOf
  <2>3. got[c][i][1] \in Clients
    BY <2>1 DEF ChunksOf, Chunks
  <2> QED
    BY <2>2, <2>3 DEF File, IInv, Types
<1> QED
  BY <1>1, Invariance, PTL
===============================================================================
