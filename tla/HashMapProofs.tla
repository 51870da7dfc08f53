---------------------------- MODULE HashMapProofs ----------------------------
(***************************************************************************)
(* The hash map of lab3 used by any number of threads: it does what a      *)
(* correct map would as long as no delete is overlapped by another         *)
(* operation, for every set of keys, values, addresses, buckets and        *)
(* threads.                                                                *)
(*                                                                         *)
(* A bucket's chain is a function from 1..m to addresses: it starts at     *)
(* table[b], each node leads to the next and the last to NULL, and no node *)
(* is met twice (Linked). Outside every chain are the loose nodes, each of *)
(* which one thread alone holds: the new node of an insert, up to the      *)
(* store of the head, and the one a delete has taken out, up to free       *)
(* (LooseInv).                                                             *)
(*                                                                         *)
(* No thread that walks can be caught out while no delete is overlapped    *)
(* (~wild). A delete stands at a place of the bucket's chain, behind nodes *)
(* of other keys (DeleterAt). A get walks a chain of its own, because an   *)
(* insert can put a head in front of the one it read, or lose that head;   *)
(* what it has to return is in the rest of its chain (GetterAt). An insert *)
(* carries the chain its node will continue with (PusherAt).               *)
(*                                                                         *)
(* Two inserts that overlap can lose nodes, and such a bucket is in lossy: *)
(* its chain is still a chain, but it no longer is the map's. In every     *)
(* other bucket the chain holds exactly the pairs of the correct map       *)
(* (Exact) and every allocated node that is not loose (Owned), so that     *)
(* destroy frees all of them. Meet says that the overlaps that matter have *)
(* been noted in wild and lossy.                                           *)
(***************************************************************************)
EXTENDS HashMap, SequenceTheorems, FiniteSetTheorems, WellFoundedInduction, TLAPS

-----------------------------------------------------------------------------
(* The inductive invariant *)

\* Where a thread has a node in hand.
Walking == {"next", "advance", "unlink", "store", "free", "link", "push"}
\* What spec is made of.
Pairs == Keys \X (Values \cup {NoValue})

\* The types, of the history too.
Types ==
  /\ TypeOK
  /\ requests \in 0..Requests
  /\ spec \in [Buckets -> Seq(Pairs)]
  /\ want \in [Threads -> Values \cup {NoValue}]
  /\ \A t \in Threads : pc[t] \in Walking => cur[t] \in Addresses

\* A node between malloc and the store of the head, or between the store that
\* takes it out of its chain and free, belongs to one thread.
LoosePc == {"link", "push", "free"}
Loose == {cur[t] : t \in {s \in Threads : pc[s] \in LoosePc}}
\* The nodes that may be in a chain.
Linkable == allocated \ Loose

\* Its key is one of the thread's bucket, and after malloc the thread's own key.
LooseInv ==
  /\ \A t \in Threads : pc[t] \in LoosePc =>
       cur[t] \in allocated /\ Hash[node[cur[t]].key] = Bucket(t)
  /\ \A t \in Threads : pc[t] \in {"link", "push"} =>
       node[cur[t]].key = key[t] /\ node[cur[t]].value = mine[t]
  /\ \A s, t \in Threads : pc[s] \in LoosePc /\ pc[t] \in LoosePc /\ cur[s] = cur[t] => s = t

\* The chain c of m nodes starts at x, ends with NULL and holds keys of bucket b
\* in nodes of fr, none of them twice.
Nth(m, c, i) == IF i <= m THEN c[i] ELSE NULL
Linked(nd, fr, m, c, x, b) ==
  /\ x = Nth(m, c, 1)
  /\ \A i \in 1..m :
       c[i] \in fr /\ Hash[nd[c[i]].key] = b /\ nd[c[i]].next = Nth(m, c, i + 1)
  /\ \A i, j \in 1..m : c[i] = c[j] => i = j

\* A delete is at node j of the chain of its bucket, past nodes of other keys.
At(t, m, c, j) ==
  /\ cur[t] = Nth(m, c, j)
  /\ prev[t] = IF j > 1 THEN c[j - 1] ELSE NULL
  /\ \A i \in 1..(j - 1) : node[c[i]].key # key[t]
DeleterAt(t, m, c) ==
  /\ pc[t] = "match" => \E j \in 1..(m + 1) : At(t, m, c, j)
  /\ pc[t] = "advance" => \E j \in 1..m : At(t, m, c, j) /\ node[c[j]].key # key[t]
  /\ pc[t] \in {"unlink", "store"} =>
       \E j \in 1..m : /\ At(t, m, c, j)
                       /\ node[c[j]].key = key[t]
                       /\ pc[t] = "store" => reg[t] = node[c[j]].next

\* Unless inserts overlapped, the chain holds the pairs of the correct map, and
\* every node of the bucket.
Exact(b, m, c) ==
  b \notin lossy =>
    /\ Len(spec[b]) = m
    /\ \A i \in 1..m : spec[b][i] = <<node[c[i]].key, node[c[i]].value>>
Owned(b, m, c) ==
  b \notin lossy =>
    \A n \in allocated : Hash[node[n].key] = b => n \in Loose \/ \E i \in 1..m : c[i] = n
\* The chain of bucket b, and the deletes that walk it.
Main(b, m, c) ==
  /\ Linked(node, Linkable, m, c, table[b], b)
  /\ Exact(b, m, c)
  /\ Owned(b, m, c)
  /\ \A t \in Threads : Bucket(t) = b => DeleterAt(t, m, c)

\* A get walks a chain, of its own since an insert may lose nodes; what it has
\* to answer is in the rest of it.
Answers(m, c, k, v) ==
  \/ v = NoValue /\ \A i \in 1..m : node[c[i]].key # k
  \/ \E i \in 1..m : /\ node[c[i]].key = k
                     /\ v = node[c[i]].value
                     /\ \A j \in 1..(i - 1) : node[c[j]].key # k
GetterAt(t, m, c) ==
  /\ Linked(node, Linkable, m, c, cur[t], Bucket(t))
  /\ Bucket(t) \notin lossy => Answers(m, c, key[t], want[t])
  /\ pc[t] = "next" => m > 0 /\ node[c[1]].key # key[t]

\* The new node of an insert continues with a chain, the bucket's unless another
\* insert overlaps.
PusherAt(t, m, c) ==
  /\ Linked(node, Linkable, m, c, node[cur[t]].next, Bucket(t))
  /\ Bucket(t) \notin lossy => node[cur[t]].next = table[Bucket(t)]

\* The chains, while no delete was overlapped.
TameInv ==
  /\ LooseInv
  /\ \A b \in Buckets : \E m \in Nat : \E c \in [1..m -> Addresses] : Main(b, m, c)
  /\ \A t \in Threads : pc[t] \in Getting =>
       \E m \in Nat : \E c \in [1..m -> Addresses] : GetterAt(t, m, c)
  /\ \A t \in Threads : pc[t] = "push" =>
       \E m \in Nat : \E c \in [1..m -> Addresses] : PusherAt(t, m, c)

\* Operations that meet are noted.
Meet ==
  /\ ~wild => ~DeleteMeets
  /\ \A b \in Buckets : InsertsMeet(b) => b \in lossy

\* A get that has ended has returned what it had to.
ResInv ==
  \A t \in Threads : pc[t] \notin Getting /\ ~wild /\ Bucket(t) \notin lossy => res[t] = want[t]

\* The inductive invariant.
IInv ==
  /\ Types
  /\ Meet
  /\ fault => wild
  /\ ResInv
  /\ ~wild /\ ~destroyed => TameInv
  /\ ~wild /\ destroyed /\ lossy = {} => allocated = {}

-----------------------------------------------------------------------------
(* The pairs of a correct map *)

\* A set of places that is not empty has a least one.
LEMMA LeastExists ==
  ASSUME NEW S \in SUBSET Nat, S # {}
  PROVE  \E x \in S : \A y \in S : x <= y
<1> DEFINE R == OpToRel(<, Nat)
<1>1. R = {ss \in Nat \X Nat : ss[1] < ss[2]}
  BY DEF OpToRel
<1>2. IsWellFoundedOn(R, Nat)
  BY NatLessThanWellFounded
<1> HIDE DEF R
<1>3. PICK x \in S : \A y \in S : ~(<<y, x>> \in R)
  BY <1>2, WFMin
<1>4. \A y \in S : ~(y < x)
  BY <1>1, <1>3
<1>5. \A y \in S : x <= y
  BY <1>4
<1> QED
  BY <1>5

\* FirstWith is the first place of a key.
LEMMA FirstFacts ==
  ASSUME NEW s \in Seq(Pairs), NEW k, Having(s, k) # {}
  PROVE  /\ FirstWith(s, k) \in 1..Len(s)
         /\ s[FirstWith(s, k)][1] = k
         /\ \A i \in 1..Len(s) : s[i][1] = k => FirstWith(s, k) <= i
<1> DEFINE H == Having(s, k)
<1>1. DOMAIN s = 1..Len(s) /\ Len(s) \in Nat
  OBVIOUS
<1>2. H \in SUBSET Nat /\ \A i : i \in H <=> i \in 1..Len(s) /\ s[i][1] = k
  BY <1>1 DEF Having
<1>3. \E x \in H : \A y \in H : x <= y
  BY <1>2, LeastExists
<1>4. FirstWith(s, k) \in H /\ \A y \in H : FirstWith(s, k) <= y
  BY <1>3 DEF FirstWith
<1> HIDE DEF H
<1> QED
  BY <1>2, <1>4

\* A place past which no pair has the key, and that has it, is FirstWith.
LEMMA FirstIs ==
  ASSUME NEW s \in Seq(Pairs), NEW k, NEW j \in 1..Len(s), s[j][1] = k,
         \A i \in 1..(j - 1) : s[i][1] # k
  PROVE  Having(s, k) # {} /\ FirstWith(s, k) = j
<1>1. Len(s) \in Nat /\ DOMAIN s = 1..Len(s)
  OBVIOUS
<1>2. Having(s, k) # {}
  BY <1>1 DEF Having
<1>3. /\ FirstWith(s, k) \in 1..Len(s)
      /\ s[FirstWith(s, k)][1] = k
      /\ FirstWith(s, k) <= j
  BY <1>2, FirstFacts
<1>4. ~(FirstWith(s, k) \in 1..(j - 1))
  BY <1>3
<1> QED
  BY <1>1, <1>2, <1>3, <1>4

\* Taking out pair j moves the ones behind it up.
LEMMA RemoveFacts ==
  ASSUME NEW s \in Seq(Pairs), NEW j \in 1..Len(s)
  PROVE  /\ RemoveAt(s, j) \in Seq(Pairs)
         /\ Len(RemoveAt(s, j)) = Len(s) - 1
         /\ \A i \in 1..(Len(s) - 1) : RemoveAt(s, j)[i] = IF i < j THEN s[i] ELSE s[i + 1]
<1> DEFINE a == SubSeq(s, 1, j - 1)
           z == SubSeq(s, j + 1, Len(s))
<1>1. RemoveAt(s, j) = a \o z
  BY DEF RemoveAt
<1>2. Len(s) \in Nat /\ j \in Nat
  OBVIOUS
<1>3. a \in Seq(Pairs) /\ Len(a) = j - 1 /\ \A i \in 1..(j - 1) : a[i] = s[i]
  BY <1>2
<1>4. z \in Seq(Pairs) /\ Len(z) = Len(s) - j /\ \A i \in 1..(Len(s) - j) : z[i] = s[i + j]
  BY <1>2
<1> HIDE DEF a, z
<1>5. /\ a \o z \in Seq(Pairs)
      /\ Len(a \o z) = Len(a) + Len(z)
      /\ \A i \in 1..(Len(a) + Len(z)) : (a \o z)[i] = IF i <= Len(a) THEN a[i] ELSE z[i - Len(a)]
  BY <1>3, <1>4, ConcatProperties
<1>6. ASSUME NEW i \in 1..(Len(s) - 1) PROVE (a \o z)[i] = IF i < j THEN s[i] ELSE s[i + 1]
  <2>1. CASE i < j
    BY <1>2, <1>3, <1>4, <1>5, <2>1
  <2>2. CASE ~(i < j)
    <3>1. (a \o z)[i] = z[i - (j - 1)]
      BY <1>2, <1>3, <1>4, <1>5, <2>2
    <3>2. i - (j - 1) \in 1..(Len(s) - j) /\ (i - (j - 1)) + j = i + 1
      BY <1>2, <2>2
    <3> QED
      BY <1>4, <2>2, <3>1, <3>2
  <2> QED
    BY <2>1, <2>2
<1>7. Len(a \o z) = Len(s) - 1
  BY <1>2, <1>3, <1>4, <1>5
<1> QED
  BY <1>1, <1>5, <1>6, <1>7

\* Deleting a key leaves a sequence of pairs.
LEMMA WithoutType ==
  ASSUME NEW s \in Seq(Pairs), NEW k
  PROVE  Without(s, k) \in Seq(Pairs)
BY FirstFacts, RemoveFacts DEF Without

\* A correct map answers a value or none.
LEMMA FoundType ==
  ASSUME NEW s \in Seq(Pairs), NEW k
  PROVE  Found(s, k) \in Values \cup {NoValue}
<1>1. CASE Having(s, k) = {}
  BY <1>1 DEF Found
<1>2. CASE Having(s, k) # {}
  <2>1. FirstWith(s, k) \in 1..Len(s)
    BY <1>2, FirstFacts
  <2>2. s[FirstWith(s, k)] \in Pairs
    BY <2>1
  <2>3. s[FirstWith(s, k)][2] \in Values \cup {NoValue}
    BY <2>2 DEF Pairs
  <2> QED
    BY <1>2, <2>3 DEF Found
<1> QED
  BY <1>1, <1>2

\* A new pair comes first.
LEMMA PushFacts ==
  ASSUME NEW s \in Seq(Pairs), NEW x \in Pairs
  PROVE  /\ <<x>> \o s \in Seq(Pairs)
         /\ Len(<<x>> \o s) = Len(s) + 1
         /\ \A i \in 1..(Len(s) + 1) : (<<x>> \o s)[i] = IF i = 1 THEN x ELSE s[i - 1]
<1> DEFINE a == <<x>>
<1>1. a \in Seq(Pairs) /\ Len(a) = 1 /\ a[1] = x /\ Len(s) \in Nat
  OBVIOUS
<1> HIDE DEF a
<1>2. /\ a \o s \in Seq(Pairs)
      /\ Len(a \o s) = Len(a) + Len(s)
      /\ \A i \in 1..(Len(a) + Len(s)) : (a \o s)[i] = IF i <= Len(a) THEN a[i] ELSE s[i - Len(a)]
  BY <1>1, ConcatProperties
<1>3. \A i \in 1..(Len(s) + 1) : (a \o s)[i] = IF i = 1 THEN x ELSE s[i - 1]
  BY <1>1, <1>2
<1> QED
  BY <1>1, <1>2, <1>3 DEF a

-----------------------------------------------------------------------------
(* Types *)

\* Every key has a bucket.
LEMMA HashBucket ==
  ASSUME NEW k \in Keys
  PROVE  Hash[k] \in Buckets
BY DEF Buckets

\* create_table: every chain is empty.
LEMMA InitIInv == Init => IInv
<1> SUFFICES ASSUME Init PROVE IInv
  OBVIOUS
<1>1. Types
  <2>1. (CHOOSE k \in Keys : TRUE) \in Keys
    BY KeysAssumption
  <2>2. NoValue \in Values \cup {NoValue} /\ <<>> \in Seq(Pairs)
    OBVIOUS
  <2> QED
    BY <2>1, <2>2, RequestsAssumption
       DEF Init, Types, TypeOK, Walking, Getting, Deleting
<1>2. Meet
  BY DEF Init, Meet, DeleteMeets, InsertsMeet, Together, Deleting
<1>3. ResInv
  BY DEF Init, ResInv
<1>4. TameInv
  <2>1. LooseInv
    BY DEF Init, LooseInv, LoosePc
  <2>2. ASSUME NEW b \in Buckets PROVE \E m \in Nat : \E c \in [1..m -> Addresses] : Main(b, m, c)
    <3> DEFINE c == [i \in 1..0 |-> NULL]
    <3>1. c \in [1..0 -> Addresses]
      OBVIOUS
    <3>2. Linked(node, Linkable, 0, c, table[b], b)
      BY DEF Init, Linked, Nth
    <3>3. Exact(b, 0, c) /\ Owned(b, 0, c)
      BY DEF Init, Exact, Owned
    <3>4. \A t \in Threads : DeleterAt(t, 0, c)
      BY DEF Init, DeleterAt
    <3>5. Main(b, 0, c)
      BY <3>2, <3>3, <3>4 DEF Main
    <3> QED
      BY <3>1, <3>5
  <2>3. \A t \in Threads : pc[t] = "idle"
    BY DEF Init
  <2> QED
    BY <2>1, <2>2, <2>3 DEF TameInv, Getting
<1>5. ~fault /\ allocated = {}
  BY DEF Init
<1> QED
  BY <1>1, <1>2, <1>3, <1>4, <1>5 DEF IInv

\* node_t.
Node == [key : Keys, value : Values \cup {NoValue}, next : Addresses \cup {NULL}]

\* What InsertAlloc does when malloc returns n.
Filled(t, n) ==
  /\ allocated' = allocated \cup {n}
  /\ cur' = [cur EXCEPT ![t] = n]
  /\ node' \in [Addresses -> Node]
  /\ node'[n] = [key |-> key[t], value |-> mine[t], next |-> node[n].next]
  /\ \A x \in Addresses : x # n => node'[x] = node[x]

\* InsertAlloc, address by address.
LEMMA AllocFacts ==
  ASSUME Types, NEW t \in Threads, InsertAlloc(t)
  PROVE  \E n \in Addresses \ allocated : Filled(t, n)
<1>1. PICK n \in Addresses \ allocated :
        /\ allocated' = allocated \cup {n}
        /\ node' = [node EXCEPT ![n].key = key[t], ![n].value = mine[t]]
        /\ cur' = [cur EXCEPT ![t] = n]
  BY DEF InsertAlloc
<1>2. key[t] \in Keys /\ mine[t] \in Values \cup {NoValue} /\ n \in Addresses
  BY DEF Types, TypeOK
<1>3. node \in [Addresses -> Node]
  BY DEF Types, TypeOK, Node
<1>4. node' = [node EXCEPT ![n].key = key[t], ![n].value = mine[t]]
  BY <1>1
<1> DEFINE h == [node EXCEPT ![n].key = key[t]]
<1>5. node' = [h EXCEPT ![n].value = mine[t]]
  BY <1>4
<1>6. /\ h \in [Addresses -> Node]
      /\ h[n] = [node[n] EXCEPT !.key = key[t]]
      /\ \A x \in Addresses : x # n => h[x] = node[x]
  BY <1>2, <1>3 DEF Node
<1> HIDE DEF h
<1>7. h[n].key = key[t] /\ h[n].next = node[n].next /\ h[n] \in Node
  BY <1>2, <1>3, <1>6 DEF Node
<1>8. /\ node' \in [Addresses -> Node]
      /\ node'[n] = [h[n] EXCEPT !.value = mine[t]]
      /\ \A x \in Addresses : x # n => node'[x] = h[x]
  BY <1>2, <1>5, <1>6 DEF Node
<1>9. node'[n] = [key |-> key[t], value |-> mine[t], next |-> node[n].next]
  BY <1>7, <1>8 DEF Node
<1> QED
  BY <1>1, <1>6, <1>8, <1>9 DEF Filled

\* Every step of a handler preserves the types, overlapped or not.
LEMMA TypesStep ==
  ASSUME Types, NEW t \in Threads,
         Operate(t) \/ (\E k \in Keys : GetHead(t, k)) \/ EndSession(t),
         lossy' \subseteq Buckets
  PROVE  Types'
<1> USE DEF Types, TypeOK, Goto, Walking, Getting, Deleting, heapVars, walkVars
<1>0. Bucket(t) \in Buckets
  BY HashBucket DEF Bucket
<1>1. CASE GetCompare(t)
  BY <1>1, ZenonT(30) DEF GetCompare
<1>2. CASE GetNext(t)
  BY <1>2 DEF GetNext
<1>3. CASE InsertAlloc(t)
  <2>1. PICK n \in Addresses \ allocated : Filled(t, n)
    BY <1>3, AllocFacts
  <2>2. node' \in [Addresses -> [key : Keys, value : Values \cup {NoValue}, next : Addresses \cup {NULL}]]
    BY <2>1 DEF Node, Filled
  <2>3. allocated' \subseteq Addresses /\ cur' \in [Threads -> Addresses \cup {NULL}]
    BY <2>1 DEF Filled
  <2>4. \A s \in Threads : pc'[s] \in Walking => cur'[s] \in Addresses
    BY <1>3, <2>1 DEF InsertAlloc, Filled
  <2> QED
    BY <1>3, <2>2, <2>3, <2>4 DEF InsertAlloc
<1>4. CASE InsertFails(t)
  BY <1>4 DEF InsertFails
<1>5. CASE InsertLink(t)
  <2>1. table[Bucket(t)] \in Addresses \cup {NULL}
    BY <1>0
  <2> QED
    BY <1>5, <2>1 DEF InsertLink
<1>6. CASE InsertPush(t)
  <2>1. cur[t] \in Addresses /\ <<key[t], mine[t]>> \in Pairs /\ spec[Bucket(t)] \in Seq(Pairs)
    BY <1>0, <1>6 DEF InsertPush, Pairs
  <2>2. <<<<key[t], mine[t]>>>> \o spec[Bucket(t)] \in Seq(Pairs)
    BY <2>1, PushFacts
  <2>3. spec' \in [Buckets -> Seq(Pairs)]
    BY <1>6, <2>2 DEF InsertPush
  <2> QED
    BY <1>6, <2>1, <2>3 DEF InsertPush
<1>7. CASE DeleteMatch(t)
  BY <1>7 DEF DeleteMatch
<1>8. CASE DeleteAdvance(t)
  BY <1>8 DEF DeleteAdvance
<1>9. CASE DeleteUnlink(t)
  BY <1>9 DEF DeleteUnlink
<1>10. CASE DeleteStore(t)
  <2>1. Without(spec[Bucket(t)], key[t]) \in Seq(Pairs)
    BY <1>0, WithoutType
  <2>2. spec' \in [Buckets -> Seq(Pairs)]
    BY <1>10, <2>1 DEF DeleteStore
  <2>3. table' \in [Buckets -> Addresses \cup {NULL}]
    BY <1>10 DEF DeleteStore
  <2>4. node' \in [Addresses -> [key : Keys, value : Values \cup {NoValue}, next : Addresses \cup {NULL}]]
    <3>1. CASE prev[t] = NULL
      BY <1>10, <3>1 DEF DeleteStore
    <3>2. CASE prev[t] # NULL
      <4>1. prev[t] \in Addresses /\ reg[t] \in Addresses \cup {NULL}
        BY <3>2
      <4>2. node' = [node EXCEPT ![prev[t]].next = reg[t]]
        BY <1>10, <3>2 DEF DeleteStore
      <4>3. node \in [Addresses -> [key : Keys, value : Values \cup {NoValue}, next : Addresses \cup {NULL}]]
        OBVIOUS
      <4> HIDE DEF Types, TypeOK, Goto, Walking, Getting, Deleting, heapVars, walkVars
      <4> QED
        BY <4>1, <4>2, <4>3, ZenonT(30)
    <3> QED
      BY <3>1, <3>2
  <2> QED
    BY <1>10, <2>2, <2>3, <2>4 DEF DeleteStore
<1>11. CASE DeleteFree(t)
  BY <1>11 DEF DeleteFree
<1>12. CASE \E k \in Keys : GetHead(t, k)
  <2>1. PICK k \in Keys : GetHead(t, k)
    BY <1>12
  <2>2. requests + 1 \in Values /\ requests' \in 0..Requests
    BY <2>1, RequestsAssumption DEF GetHead, Values
  <2>3. table[Hash[k]] \in Addresses \cup {NULL}
    BY HashBucket
  <2>4. Found(spec[Hash[k]], k) \in Values \cup {NoValue}
    BY HashBucket, FoundType
  <2> QED
    BY <2>1, <2>2, <2>3, <2>4 DEF GetHead
<1>13. CASE DeleteHead(t)
  <2>1. table[Bucket(t)] \in Addresses \cup {NULL}
    BY <1>0
  <2> QED
    BY <1>13, <2>1 DEF DeleteHead
<1>14. CASE Elect(t)
  <2>1. Manager(t) \in Values \cup {NoValue}
    BY DEF Manager
  <2> QED
    BY <1>14, <2>1 DEF Elect
<1>15. CASE EndSession(t)
  BY <1>15 DEF EndSession
<1> QED
  BY <1>1, <1>2, <1>3, <1>4, <1>5, <1>6, <1>7, <1>8, <1>9, <1>10, <1>11, <1>12, <1>13, <1>14, <1>15
     DEF Operate

-----------------------------------------------------------------------------
(* What a step leaves alone *)

\* The other threads stand still.
Others(t) ==
  \A s \in Threads : s # t =>
    /\ pc'[s] = pc[s] /\ key'[s] = key[s] /\ mine'[s] = mine[s]
    /\ cur'[s] = cur[s] /\ prev'[s] = prev[s] /\ reg'[s] = reg[s]
    /\ res'[s] = res[s] /\ want'[s] = want[s]

\* The nodes of the chains of bucket b are left alone.
Kept(b) ==
  \A n \in Linkable : Hash[node[n].key] = b => n \in Linkable' /\ node'[n] = node[n]

\* Bucket b gets no other head and no other nodes.
Still(b) ==
  /\ table'[b] = table[b]
  /\ spec'[b] = spec[b]
  /\ \A n \in allocated' : Hash[node'[n].key] = b =>
       n \in Loose' \/ (n \in Linkable /\ Hash[node[n].key] = b)

\* A chain is still one if its nodes are left alone.
LEMMA LinkedKeep ==
  ASSUME NEW m \in Nat, NEW c \in [1..m -> Addresses], NEW x, NEW b, Kept(b),
         Linked(node, Linkable, m, c, x, b)
  PROVE  /\ Linked(node', Linkable', m, c, x, b)
         /\ \A i \in 1..m : node'[c[i]] = node[c[i]]
<1>1. \A i \in 1..m : c[i] \in Linkable /\ Hash[node[c[i]].key] = b /\ node[c[i]].next = Nth(m, c, i + 1)
  BY DEF Linked
<1>2. \A i \in 1..m : c[i] \in Linkable' /\ node'[c[i]] = node[c[i]]
  BY <1>1 DEF Kept
<1>3. x = Nth(m, c, 1) /\ \A i, j \in 1..m : c[i] = c[j] => i = j
  BY DEF Linked
<1> QED
  BY <1>1, <1>2, <1>3 DEF Linked

\* So is the place of a delete in it ...
LEMMA DeleterKeep ==
  ASSUME NEW m \in Nat, NEW c \in [1..m -> Addresses], NEW s \in Threads,
         pc'[s] = pc[s], key'[s] = key[s], cur'[s] = cur[s], prev'[s] = prev[s], reg'[s] = reg[s],
         \A i \in 1..m : node'[c[i]] = node[c[i]],
         DeleterAt(s, m, c)
  PROVE  DeleterAt(s, m, c)'
<1>1. ASSUME NEW j \in 1..(m + 1), At(s, m, c, j) PROVE At(s, m, c, j)'
  <2>1. \A i \in 1..(j - 1) : i \in 1..m
    OBVIOUS
  <2> QED
    BY <1>1, <2>1 DEF At
<1>2. \A j \in 1..m : j \in 1..(m + 1)
  OBVIOUS
<1>3. ASSUME pc[s] = "match" PROVE \E j \in 1..(m + 1) : At(s, m, c, j)'
  BY <1>1, <1>3 DEF DeleterAt
<1>4. ASSUME pc[s] = "advance" PROVE \E j \in 1..m : At(s, m, c, j)' /\ node'[c[j]].key # key'[s]
  <2>1. PICK j \in 1..m : At(s, m, c, j) /\ node[c[j]].key # key[s]
    BY <1>4 DEF DeleterAt
  <2>2. At(s, m, c, j)'
    BY <1>1, <1>2, <2>1
  <2> QED
    BY <2>1, <2>2
<1>5. ASSUME pc[s] \in {"unlink", "store"}
      PROVE  \E j \in 1..m : /\ At(s, m, c, j)'
                             /\ node'[c[j]].key = key'[s]
                             /\ pc'[s] = "store" => reg'[s] = node'[c[j]].next
  <2>1. PICK j \in 1..m : /\ At(s, m, c, j)
                          /\ node[c[j]].key = key[s]
                          /\ pc[s] = "store" => reg[s] = node[c[j]].next
    BY <1>5 DEF DeleterAt
  <2>2. At(s, m, c, j)'
    BY <1>1, <1>2, <2>1
  <2> QED
    BY <2>1, <2>2
<1> QED
  BY <1>3, <1>4, <1>5 DEF DeleterAt

\* The chain of a bucket that a step leaves alone.
LEMMA MainKeep ==
  ASSUME NEW t \in Threads, NEW b \in Buckets, NEW m \in Nat, NEW c \in [1..m -> Addresses],
         Others(t), Kept(b), Still(b), lossy \subseteq lossy', Main(b, m, c),
         Bucket(t)' = b => DeleterAt(t, m, c)'
  PROVE  Main(b, m, c)'
<1>1. /\ Linked(node', Linkable', m, c, table[b], b)
      /\ \A i \in 1..m : node'[c[i]] = node[c[i]]
  BY LinkedKeep DEF Main
<1>2. Linked(node, Linkable, m, c, table[b], b)'
  BY <1>1 DEF Still
<1>3. Exact(b, m, c)'
  BY <1>1 DEF Main, Exact, Still
<1>4. Owned(b, m, c)'
  <2> SUFFICES ASSUME b \notin lossy', NEW n \in allocated', Hash[node'[n].key] = b, n \notin Loose'
               PROVE  \E i \in 1..m : c[i] = n
    BY DEF Owned
  <2>1. n \in Linkable /\ Hash[node[n].key] = b
    BY DEF Still
  <2>2. n \in allocated /\ n \notin Loose
    BY <2>1 DEF Linkable
  <2> QED
    BY <2>1, <2>2 DEF Main, Owned
<1>5. ASSUME NEW s \in Threads, Bucket(s)' = b PROVE DeleterAt(s, m, c)'
  <2>1. CASE s = t
    BY <1>5, <2>1
  <2>2. CASE s # t
    <3>1. /\ pc'[s] = pc[s] /\ key'[s] = key[s] /\ cur'[s] = cur[s] /\ prev'[s] = prev[s]
          /\ reg'[s] = reg[s]
      BY <2>2 DEF Others
    <3>2. Bucket(s) = b
      BY <1>5, <3>1 DEF Bucket
    <3>3. DeleterAt(s, m, c)
      BY <3>2 DEF Main
    <3> QED
      BY <1>1, <3>1, <3>3, DeleterKeep
  <2> QED
    BY <2>1, <2>2
<1> QED
  BY <1>2, <1>3, <1>4, <1>5 DEF Main

\* ... the chain of a get, and what it has to answer ...
LEMMA GetterKeep ==
  ASSUME NEW s \in Threads, NEW m \in Nat, NEW c \in [1..m -> Addresses],
         pc'[s] = pc[s], key'[s] = key[s], cur'[s] = cur[s], want'[s] = want[s],
         Kept(Bucket(s)), lossy \subseteq lossy', GetterAt(s, m, c)
  PROVE  GetterAt(s, m, c)'
<1>1. /\ Linked(node', Linkable', m, c, cur[s], Bucket(s))
      /\ \A i \in 1..m : node'[c[i]] = node[c[i]]
  BY LinkedKeep DEF GetterAt
<1>2. Bucket(s)' = Bucket(s)
  BY DEF Bucket
<1>3. Linked(node, Linkable, m, c, cur[s], Bucket(s))'
  BY <1>1, <1>2
<1>4. ASSUME Bucket(s)' \notin lossy' PROVE Answers(m, c, key[s], want[s])'
  <2>1. Answers(m, c, key[s], want[s])
    BY <1>2, <1>4 DEF GetterAt
  <2>2. CASE want[s] = NoValue /\ \A i \in 1..m : node[c[i]].key # key[s]
    BY <1>1, <2>2 DEF Answers
  <2>3. ASSUME NEW i \in 1..m, node[c[i]].key = key[s], want[s] = node[c[i]].value,
               \A j \in 1..(i - 1) : node[c[j]].key # key[s]
        PROVE  Answers(m, c, key[s], want[s])'
    <3>1. \A j \in 1..(i - 1) : j \in 1..m
      OBVIOUS
    <3> QED
      BY <1>1, <2>3, <3>1 DEF Answers
  <2> QED
    BY <2>1, <2>2, <2>3 DEF Answers
<1>5. pc'[s] = "next" => m > 0 /\ node'[c[1]].key # key'[s]
  BY <1>1 DEF GetterAt
<1> QED
  BY <1>3, <1>4, <1>5 DEF GetterAt

\* ... and the chain behind the new node of an insert.
LEMMA PusherKeep ==
  ASSUME NEW s \in Threads, NEW m \in Nat, NEW c \in [1..m -> Addresses],
         key'[s] = key[s], cur'[s] = cur[s], node'[cur[s]].next = node[cur[s]].next,
         Bucket(s) \notin lossy' => table'[Bucket(s)] = table[Bucket(s)],
         Kept(Bucket(s)), lossy \subseteq lossy', PusherAt(s, m, c)
  PROVE  PusherAt(s, m, c)'
<1>1. Linked(node', Linkable', m, c, node[cur[s]].next, Bucket(s))
  BY LinkedKeep DEF PusherAt
<1>2. Bucket(s)' = Bucket(s)
  BY DEF Bucket
<1>3. Linked(node, Linkable, m, c, node[cur[s]].next, Bucket(s))'
  BY <1>1, <1>2
<1> QED
  BY <1>2, <1>3 DEF PusherAt

\* The chains after a step of t: those t leaves alone, and its own.
LEMMA TameKeep ==
  ASSUME NEW t \in Threads, Types, TameInv, LooseInv', Others(t), lossy \subseteq lossy',
         \A b \in Buckets : \E m \in Nat : \E c \in [1..m -> Addresses] : Main(b, m, c)',
         \A s \in Threads : s # t /\ pc[s] \in Getting => Kept(Bucket(s)),
         \A s \in Threads : s # t /\ pc[s] = "push" =>
           /\ Kept(Bucket(s))
           /\ node'[cur[s]] = node[cur[s]]
           /\ Bucket(s) \notin lossy' => table'[Bucket(s)] = table[Bucket(s)],
         pc'[t] \in Getting => \E m \in Nat : \E c \in [1..m -> Addresses] : GetterAt(t, m, c)',
         pc'[t] = "push" => \E m \in Nat : \E c \in [1..m -> Addresses] : PusherAt(t, m, c)'
  PROVE  TameInv'
<1>1. ASSUME NEW s \in Threads, s # t, pc'[s] \in Getting
      PROVE  \E m \in Nat : \E c \in [1..m -> Addresses] : GetterAt(s, m, c)'
  <2>1. pc'[s] = pc[s] /\ key'[s] = key[s] /\ cur'[s] = cur[s] /\ want'[s] = want[s]
    BY <1>1 DEF Others
  <2>2. PICK m \in Nat : \E c \in [1..m -> Addresses] : GetterAt(s, m, c)
    BY <1>1, <2>1 DEF TameInv
  <2>3. PICK c \in [1..m -> Addresses] : GetterAt(s, m, c)
    BY <2>2
  <2>4. Kept(Bucket(s))
    BY <1>1, <2>1
  <2>5. GetterAt(s, m, c)'
    BY <2>1, <2>3, <2>4, GetterKeep
  <2> QED
    BY <2>5
<1>2. ASSUME NEW s \in Threads, s # t, pc'[s] = "push"
      PROVE  \E m \in Nat : \E c \in [1..m -> Addresses] : PusherAt(s, m, c)'
  <2>1. pc'[s] = pc[s] /\ key'[s] = key[s] /\ cur'[s] = cur[s]
    BY <1>2 DEF Others
  <2>2. PICK m \in Nat : \E c \in [1..m -> Addresses] : PusherAt(s, m, c)
    BY <1>2, <2>1 DEF TameInv
  <2>3. PICK c \in [1..m -> Addresses] : PusherAt(s, m, c)
    BY <2>2
  <2>4. /\ Kept(Bucket(s))
        /\ node'[cur[s]].next = node[cur[s]].next
        /\ Bucket(s) \notin lossy' => table'[Bucket(s)] = table[Bucket(s)]
    BY <1>2, <2>1
  <2>5. PusherAt(s, m, c)'
    BY <2>1, <2>3, <2>4, PusherKeep
  <2> QED
    BY <2>5
<1> QED
  BY <1>1, <1>2 DEF TameInv

\* A step that changes no chain.
LEMMA QuietTame ==
  ASSUME NEW t \in Threads, Types, TameInv, LooseInv', Others(t), lossy \subseteq lossy',
         \A b \in Buckets : Kept(b) /\ Still(b),
         \A s \in Threads : s # t /\ pc[s] = "push" => node'[cur[s]] = node[cur[s]],
         \A b \in Buckets : \A m \in Nat : \A c \in [1..m -> Addresses] :
           Main(b, m, c) /\ Bucket(t)' = b => DeleterAt(t, m, c)',
         pc'[t] \in Getting => \E m \in Nat : \E c \in [1..m -> Addresses] : GetterAt(t, m, c)',
         pc'[t] = "push" => \E m \in Nat : \E c \in [1..m -> Addresses] : PusherAt(t, m, c)'
  PROVE  TameInv'
<1>1. ASSUME NEW b \in Buckets PROVE \E m \in Nat : \E c \in [1..m -> Addresses] : Main(b, m, c)'
  <2>1. PICK m \in Nat : \E c \in [1..m -> Addresses] : Main(b, m, c)
    BY DEF TameInv
  <2>2. PICK c \in [1..m -> Addresses] : Main(b, m, c)
    BY <2>1
  <2>3. Bucket(t)' = b => DeleterAt(t, m, c)'
    BY <2>2
  <2>4. Main(b, m, c)'
    BY <2>2, <2>3, MainKeep
  <2> QED
    BY <2>4
<1>2. \A s \in Threads : Bucket(s) \in Buckets
  BY HashBucket DEF Bucket, Types, TypeOK
<1>3. \A s \in Threads : Kept(Bucket(s)) /\ table'[Bucket(s)] = table[Bucket(s)]
  BY <1>2 DEF Still
<1> QED
  BY <1>1, <1>3, TameKeep

\* Who has the nodes of Loose.
LEMMA LooseFacts ==
  /\ \A n : n \in Loose <=> \E s \in Threads : pc[s] \in LoosePc /\ cur[s] = n
  /\ \A n : n \in Loose' <=> \E s \in Threads : pc'[s] \in LoosePc /\ cur'[s] = n
BY DEF Loose

\* The nodes of single threads stay the same.
LEMMA ReadLoose ==
  ASSUME NEW t \in Threads, Others(t), allocated' = allocated, pc[t] \notin LoosePc, pc'[t] \notin LoosePc
  PROVE  Loose' = Loose /\ Linkable' = Linkable
<1>1. \A s \in Threads : /\ pc'[s] \in LoosePc <=> pc[s] \in LoosePc
                         /\ pc[s] \in LoosePc => cur'[s] = cur[s]
  BY DEF Others
<1>2. \A n : n \in Loose' <=> n \in Loose
  BY <1>1, LooseFacts
<1>3. Loose' = Loose
  BY <1>2 DEF Loose
<1> QED
  BY <1>3 DEF Linkable

\* A step that only reads the map.
LEMMA ReadTame ==
  ASSUME NEW t \in Threads, Types, TameInv, Others(t), lossy \subseteq lossy',
         table' = table, node' = node, allocated' = allocated, spec' = spec,
         pc[t] \notin LoosePc, pc'[t] \notin LoosePc,
         \A b \in Buckets : \A m \in Nat : \A c \in [1..m -> Addresses] :
           Main(b, m, c) /\ Bucket(t)' = b => DeleterAt(t, m, c)',
         pc'[t] \in Getting => \E m \in Nat : \E c \in [1..m -> Addresses] : GetterAt(t, m, c)'
  PROVE  TameInv'
<1>2. Loose' = Loose
  BY ReadLoose
<1>3. Linkable' = Linkable
  BY ReadLoose
<1>4. LooseInv'
  <2>1. \A s \in Threads : pc'[s] \in LoosePc =>
          /\ pc'[s] = pc[s] /\ key'[s] = key[s] /\ mine'[s] = mine[s] /\ cur'[s] = cur[s]
          /\ Bucket(s)' = Bucket(s)
    BY DEF Others, Bucket
  <2>2. LooseInv
    BY DEF TameInv
  <2> QED
    BY <2>1, <2>2 DEF LooseInv, LoosePc
<1>5. \A b \in Buckets : Kept(b) /\ Still(b)
  BY <1>2, <1>3 DEF Kept, Still, Linkable
<1>6. pc'[t] # "push"
  BY DEF LoosePc
<1> QED
  BY <1>4, <1>5, <1>6, QuietTame

\* A node that its thread alone knows is in no chain.
LEMMA LinkedFree ==
  ASSUME NEW m \in Nat, NEW c \in [1..m -> Addresses], NEW x, NEW b,
         Linked(node, Linkable, m, c, x, b)
  PROVE  \A i \in 1..m : c[i] \in allocated /\ c[i] \notin Loose /\ c[i] # NULL
<1>1. \A i \in 1..m : c[i] \in Linkable /\ c[i] \in Addresses
  BY DEF Linked
<1> QED
  BY <1>1, NullAssumption DEF Linkable

-----------------------------------------------------------------------------
(* The steps of get *)

\* A step of a handler changes the registers of no other.
LEMMA StepOthers ==
  ASSUME Types, NEW t \in Threads,
         Operate(t) \/ (\E k \in Keys : GetHead(t, k)) \/ EndSession(t)
  PROVE  Others(t)
<1> USE DEF Types, TypeOK, Goto, heapVars, walkVars, Others
<1>1. CASE GetCompare(t)
  BY <1>1 DEF GetCompare
<1>2. CASE GetNext(t)
  BY <1>2 DEF GetNext
<1>3. CASE InsertAlloc(t)
  BY <1>3 DEF InsertAlloc
<1>4. CASE InsertFails(t)
  BY <1>4 DEF InsertFails
<1>5. CASE InsertLink(t)
  BY <1>5 DEF InsertLink
<1>6. CASE InsertPush(t)
  BY <1>6 DEF InsertPush
<1>7. CASE DeleteMatch(t)
  BY <1>7 DEF DeleteMatch
<1>8. CASE DeleteAdvance(t)
  BY <1>8 DEF DeleteAdvance
<1>9. CASE DeleteUnlink(t)
  BY <1>9 DEF DeleteUnlink
<1>10. CASE DeleteStore(t)
  BY <1>10 DEF DeleteStore
<1>11. CASE DeleteFree(t)
  BY <1>11 DEF DeleteFree
<1>12. CASE \E k \in Keys : GetHead(t, k)
  BY <1>12 DEF GetHead
<1>13. CASE DeleteHead(t)
  BY <1>13 DEF DeleteHead
<1>14. CASE Elect(t)
  BY <1>14 DEF Elect
<1>15. CASE EndSession(t)
  BY <1>15 DEF EndSession
<1> QED
  BY <1>1, <1>2, <1>3, <1>4, <1>5, <1>6, <1>7, <1>8, <1>9, <1>10, <1>11, <1>12, <1>13, <1>14, <1>15
     DEF Operate

\* What a correct map answers is what the chain of its pairs answers.
LEMMA FoundAnswers ==
  ASSUME NEW b \in Buckets, NEW m \in Nat, NEW c \in [1..m -> Addresses], NEW k,
         spec[b] \in Seq(Pairs), Exact(b, m, c), b \notin lossy
  PROVE  Answers(m, c, k, Found(spec[b], k))
<1> DEFINE s == spec[b]
           j == FirstWith(s, k)
<1>1. Len(s) = m /\ \A i \in 1..m : s[i] = <<node[c[i]].key, node[c[i]].value>>
  BY DEF Exact
<1>2. \A i \in 1..m : s[i][1] = node[c[i]].key /\ s[i][2] = node[c[i]].value
  BY <1>1
<1>3. CASE Having(s, k) = {}
  <2>1. \A i \in 1..m : s[i][1] # k
    BY <1>1, <1>3 DEF Having
  <2> QED
    BY <1>2, <1>3, <2>1 DEF Answers, Found
<1>4. CASE Having(s, k) # {}
  <2>1. j \in 1..m /\ s[j][1] = k /\ \A i \in 1..m : s[i][1] = k => j <= i
    BY <1>1, <1>4, FirstFacts
  <2>2. Found(s, k) = s[j][2]
    BY <1>4 DEF Found
  <2> HIDE DEF j
  <2>3. \A i \in 1..(j - 1) : i \in 1..m /\ ~(j <= i)
    BY <2>1
  <2>4. /\ node[c[j]].key = k
        /\ Found(s, k) = node[c[j]].value
        /\ \A i \in 1..(j - 1) : node[c[i]].key # k
    BY <1>2, <2>1, <2>2, <2>3
  <2> HIDE DEF s
  <2>5. Answers(m, c, k, Found(s, k))
    BY <2>1, <2>4 DEF Answers
  <2> QED
    BY <2>5 DEF s
<1> QED
  BY <1>3, <1>4

\* get loads the head: it walks the chain of its bucket as it is now.
LEMMA GetHeadTame ==
  ASSUME Types, TameInv, NEW t \in Threads, NEW k \in Keys, GetHead(t, k), lossy \subseteq lossy'
  PROVE  TameInv'
<1> DEFINE b == Hash[k]
<1>1. /\ pc[t] = "idle" /\ pc'[t] = "compare" /\ key'[t] = k /\ cur'[t] = table[b]
      /\ want'[t] = Found(spec[b], k)
      /\ table' = table /\ node' = node /\ allocated' = allocated /\ spec' = spec
  BY DEF GetHead, Goto, heapVars, Types, TypeOK
<1>2. Others(t)
  BY StepOthers
<1>3. pc[t] \notin LoosePc /\ pc'[t] \notin LoosePc
  BY <1>1 DEF LoosePc
<1>4. b \in Buckets /\ Bucket(t)' = b
  BY <1>1, HashBucket DEF Bucket
<1>5. PICK m \in Nat : \E c \in [1..m -> Addresses] : Main(b, m, c)
  BY <1>4 DEF TameInv
<1>6. PICK c \in [1..m -> Addresses] : Main(b, m, c)
  BY <1>5
<1>7. Linkable' = Linkable
  BY <1>1, <1>2, <1>3, ReadLoose
<1>8. GetterAt(t, m, c)'
  <2>1. Linked(node, Linkable, m, c, table[b], b)
    BY <1>6 DEF Main
  <2>2. Linked(node, Linkable, m, c, cur[t], Bucket(t))'
    BY <1>1, <1>4, <1>7, <2>1
  <2>3. ASSUME Bucket(t)' \notin lossy' PROVE Answers(m, c, key[t], want[t])'
    <3>1. b \notin lossy /\ spec[b] \in Seq(Pairs) /\ Exact(b, m, c)
      BY <1>4, <1>6, <2>3 DEF Main, Types
    <3>2. Answers(m, c, k, Found(spec[b], k))
      BY <1>4, <3>1, FoundAnswers
    <3> QED
      BY <1>1, <3>2 DEF Answers
  <2> QED
    BY <1>1, <2>2, <2>3 DEF GetterAt
<1>9. \A bb \in Buckets : \A mm \in Nat : \A cc \in [1..mm -> Addresses] :
        Main(bb, mm, cc) /\ Bucket(t)' = bb => DeleterAt(t, mm, cc)'
  BY <1>1 DEF DeleterAt
<1> QED
  BY <1>1, <1>2, <1>3, <1>8, <1>9, ReadTame

\* What the first node of a chain says.
LEMMA LinkedHead ==
  ASSUME NEW m \in Nat, NEW c \in [1..m -> Addresses], NEW x, NEW b,
         Linked(node, Linkable, m, c, x, b)
  PROVE  /\ x = NULL => m = 0
         /\ x # NULL => m > 0 /\ x = c[1] /\ x \in allocated /\ node[x].next = Nth(m, c, 2)
<1>1. x = Nth(m, c, 1)
  BY DEF Linked
<1>2. CASE m = 0
  BY <1>1, <1>2 DEF Nth
<1>3. CASE m # 0
  <2>1. 1 \in 1..m /\ x = c[1] /\ c[1] # NULL
    BY <1>1, <1>3, NullAssumption DEF Nth
  <2>2. c[1] \in Linkable /\ node[c[1]].next = Nth(m, c, 1 + 1)
    BY <2>1 DEF Linked
  <2> QED
    BY <1>3, <2>1, <2>2 DEF Linkable
<1> QED
  BY <1>2, <1>3

\* get compares: what it returns is what a correct map returned at the head.
LEMMA GetCompareTame ==
  ASSUME Types, TameInv, NEW t \in Threads, GetCompare(t), lossy \subseteq lossy'
  PROVE  /\ TameInv'
         /\ pc'[t] \notin Getting /\ Bucket(t) \notin lossy => res'[t] = want'[t]
<1>1. /\ pc[t] = "compare" /\ key'[t] = key[t] /\ cur'[t] = cur[t] /\ want'[t] = want[t]
      /\ table' = table /\ node' = node /\ allocated' = allocated /\ spec' = spec
      /\ \/ cur[t] = NULL /\ res'[t] = NoValue /\ pc'[t] = "malloc"
         \/ cur[t] # NULL /\ node[cur[t]].key = key[t] /\ res'[t] = node[cur[t]].value /\ pc'[t] = "elect"
         \/ cur[t] # NULL /\ node[cur[t]].key # key[t] /\ pc'[t] = "next"
  BY DEF GetCompare, Goto, heapVars, walkVars, Types, TypeOK
<1>2. Others(t)
  BY StepOthers DEF Operate
<1>3. pc[t] \notin LoosePc /\ pc'[t] \notin LoosePc
  BY <1>1 DEF LoosePc
<1>4. PICK m \in Nat : \E c \in [1..m -> Addresses] : GetterAt(t, m, c)
  BY <1>1 DEF TameInv, Getting
<1>5. PICK c \in [1..m -> Addresses] : GetterAt(t, m, c)
  BY <1>4
<1>6. /\ cur[t] = NULL => m = 0
      /\ cur[t] # NULL => m > 0 /\ cur[t] = c[1]
  BY <1>5, LinkedHead DEF GetterAt
<1>7. Linkable' = Linkable
  BY <1>1, <1>2, <1>3, ReadLoose
<1>8. ASSUME pc'[t] \in Getting PROVE GetterAt(t, m, c)'
  <2>1. pc'[t] = "next" /\ m > 0 /\ node'[c[1]].key # key'[t]
    BY <1>1, <1>6, <1>8 DEF Getting
  <2>2. Linked(node, Linkable, m, c, cur[t], Bucket(t))'
    BY <1>1, <1>5, <1>7 DEF GetterAt, Bucket
  <2>3. Bucket(t)' \notin lossy' => Answers(m, c, key[t], want[t])'
    BY <1>1, <1>5 DEF GetterAt, Bucket, Answers
  <2> QED
    BY <2>1, <2>2, <2>3 DEF GetterAt
<1>9. \A bb \in Buckets : \A mm \in Nat : \A cc \in [1..mm -> Addresses] :
        Main(bb, mm, cc) /\ Bucket(t)' = bb => DeleterAt(t, mm, cc)'
  BY <1>1 DEF DeleterAt
<1>10. TameInv'
  BY <1>1, <1>2, <1>3, <1>8, <1>9, ReadTame
<1>11. ASSUME pc'[t] \notin Getting, Bucket(t) \notin lossy PROVE res'[t] = want'[t]
  <2>1. Answers(m, c, key[t], want[t])
    BY <1>5, <1>11 DEF GetterAt
  <2>2. CASE cur[t] = NULL
    BY <1>1, <1>6, <2>1, <2>2 DEF Answers
  <2>3. CASE cur[t] # NULL
    <3>1. /\ m > 0 /\ cur[t] = c[1] /\ node[c[1]].key = key[t] /\ res'[t] = node[c[1]].value
          /\ want'[t] = want[t] /\ 1 \in 1..m
      BY <1>1, <1>6, <1>11, <2>3 DEF Getting
    <3>2. PICK i \in 1..m : /\ want[t] = node[c[i]].value
                            /\ \A j \in 1..(i - 1) : node[c[j]].key # key[t]
      BY <2>1, <3>1 DEF Answers
    <3>3. i = 1
      BY <3>1, <3>2
    <3> QED
      BY <3>1, <3>2, <3>3
  <2> QED
    BY <2>2, <2>3
<1> QED
  BY <1>10, <1>11

\* The chain behind the first node.
LEMMA TailLinked ==
  ASSUME NEW m \in Nat, m > 0, NEW c \in [1..m -> Addresses], NEW x, NEW b,
         Linked(node, Linkable, m, c, x, b)
  PROVE  LET d == [i \in 1..(m - 1) |-> c[i + 1]] IN
         /\ d \in [1..(m - 1) -> Addresses]
         /\ Linked(node, Linkable, m - 1, d, node[c[1]].next, b)
<1> DEFINE d == [i \in 1..(m - 1) |-> c[i + 1]]
<1>1. \A i \in 1..(m - 1) : i + 1 \in 1..m /\ d[i] = c[i + 1]
  OBVIOUS
<1>2. d \in [1..(m - 1) -> Addresses]
  BY <1>1
<1> HIDE DEF d
<1>3. \A i \in 1..m : /\ c[i] \in Linkable
                      /\ Hash[node[c[i]].key] = b
                      /\ node[c[i]].next = Nth(m, c, i + 1)
  BY DEF Linked
<1>4. \A i \in 1..m : Nth(m - 1, d, i) = Nth(m, c, i + 1)
  <2> SUFFICES ASSUME NEW i \in 1..m PROVE Nth(m - 1, d, i) = Nth(m, c, i + 1)
    OBVIOUS
  <2>1. CASE i = m
    BY <2>1 DEF Nth
  <2>2. CASE i # m
    <3>1. i \in 1..(m - 1)
      BY <2>2
    <3> QED
      BY <1>1, <3>1 DEF Nth
  <2> QED
    BY <2>1, <2>2
<1>5. node[c[1]].next = Nth(m - 1, d, 1)
  BY <1>3, <1>4
<1>6. \A i \in 1..(m - 1) : /\ d[i] \in Linkable
                            /\ Hash[node[d[i]].key] = b
                            /\ node[d[i]].next = Nth(m - 1, d, i + 1)
  BY <1>1, <1>3, <1>4
<1>7. \A i, j \in 1..(m - 1) : d[i] = d[j] => i = j
  <2> SUFFICES ASSUME NEW i \in 1..(m - 1), NEW j \in 1..(m - 1), d[i] = d[j] PROVE i = j
    OBVIOUS
  <2>1. i + 1 = j + 1
    BY <1>1 DEF Linked
  <2> QED
    BY <2>1
<1>8. Linked(node, Linkable, m - 1, d, node[c[1]].next, b)
  BY <1>5, <1>6, <1>7 DEF Linked
<1> QED
  BY <1>2, <1>8 DEF d

\* get goes on: the answer is in the rest of its chain.
LEMMA GetNextTame ==
  ASSUME Types, TameInv, NEW t \in Threads, GetNext(t), lossy \subseteq lossy'
  PROVE  TameInv'
<1>1. /\ pc[t] = "next" /\ pc'[t] = "compare" /\ key'[t] = key[t] /\ want'[t] = want[t]
      /\ cur'[t] = node[cur[t]].next
      /\ table' = table /\ node' = node /\ allocated' = allocated /\ spec' = spec
  BY DEF GetNext, Goto, heapVars, Types, TypeOK
<1>2. Others(t)
  BY StepOthers DEF Operate
<1>3. pc[t] \notin LoosePc /\ pc'[t] \notin LoosePc
  BY <1>1 DEF LoosePc
<1>4. PICK m \in Nat : \E c \in [1..m -> Addresses] : GetterAt(t, m, c)
  BY <1>1 DEF TameInv, Getting
<1>5. PICK c \in [1..m -> Addresses] : GetterAt(t, m, c)
  BY <1>4
<1>6. m > 0 /\ node[c[1]].key # key[t] /\ Linked(node, Linkable, m, c, cur[t], Bucket(t))
  BY <1>1, <1>5 DEF GetterAt
<1>7. cur[t] = c[1]
  BY <1>6 DEF Linked, Nth
<1> DEFINE d == [i \in 1..(m - 1) |-> c[i + 1]]
<1>8. /\ d \in [1..(m - 1) -> Addresses]
      /\ Linked(node, Linkable, m - 1, d, node[c[1]].next, Bucket(t))
  BY <1>6, TailLinked
<1>9. \A i \in 1..(m - 1) : i + 1 \in 1..m /\ d[i] = c[i + 1]
  BY <1>6
<1> HIDE DEF d
<1>10. Linkable' = Linkable
  BY <1>1, <1>2, <1>3, ReadLoose
<1>11. ASSUME Bucket(t) \notin lossy PROVE Answers(m - 1, d, key[t], want[t])
  <2>1. Answers(m, c, key[t], want[t])
    BY <1>5, <1>11 DEF GetterAt
  <2>2. CASE want[t] = NoValue /\ \A i \in 1..m : node[c[i]].key # key[t]
    BY <1>9, <2>2 DEF Answers
  <2>3. ASSUME NEW i \in 1..m, node[c[i]].key = key[t], want[t] = node[c[i]].value,
               \A j \in 1..(i - 1) : node[c[j]].key # key[t]
        PROVE  Answers(m - 1, d, key[t], want[t])
    <3>1. i # 1
      BY <1>6, <2>3
    <3>2. i - 1 \in 1..(m - 1) /\ d[i - 1] = c[i]
      BY <1>9, <3>1
    <3>3. ASSUME NEW j \in 1..((i - 1) - 1) PROVE node[d[j]].key # key[t]
      <4>1. j \in 1..(m - 1) /\ j + 1 \in 1..(i - 1)
        OBVIOUS
      <4> QED
        BY <1>9, <2>3, <4>1
    <3> QED
      BY <2>3, <3>2, <3>3 DEF Answers
  <2> QED
    BY <2>1, <2>2, <2>3 DEF Answers
<1>12. GetterAt(t, m - 1, d)'
  <2>1. Linked(node, Linkable, m - 1, d, cur[t], Bucket(t))'
    BY <1>1, <1>7, <1>8, <1>10 DEF Bucket
  <2>2. Bucket(t)' \notin lossy' => Answers(m - 1, d, key[t], want[t])'
    BY <1>1, <1>11 DEF Answers, Bucket
  <2> QED
    BY <1>1, <2>1, <2>2 DEF GetterAt
<1>13. \A bb \in Buckets : \A mm \in Nat : \A cc \in [1..mm -> Addresses] :
        Main(bb, mm, cc) /\ Bucket(t)' = bb => DeleterAt(t, mm, cc)'
  BY <1>1 DEF DeleterAt
<1>14. m - 1 \in Nat
  BY <1>6
<1>15. \E mm \in Nat : \E cc \in [1..mm -> Addresses] : GetterAt(t, mm, cc)'
  BY <1>8, <1>12, <1>14
<1> QED
  BY <1>1, <1>2, <1>3, <1>13, <1>15, ReadTame

-----------------------------------------------------------------------------
(* The steps of insert, and free *)

\* A thread gets a node of its own, or gives it up.
LEMMA LooseEnter ==
  ASSUME NEW t \in Threads, Others(t), pc[t] \notin LoosePc, pc'[t] \in LoosePc
  PROVE  \A x : x \in Loose' <=> x \in Loose \/ x = cur'[t]
<1>1. \A s \in Threads : s # t => pc'[s] = pc[s] /\ cur'[s] = cur[s]
  BY DEF Others
<1> QED
  BY <1>1, LooseFacts

\* A thread gives its own node up.
LEMMA LooseLeave ==
  ASSUME NEW t \in Threads, Others(t), LooseInv, pc[t] \in LoosePc, pc'[t] \notin LoosePc
  PROVE  /\ \A x : x \in Loose' <=> x \in Loose /\ x # cur[t]
         /\ cur[t] \in Loose
<1>1. \A s \in Threads : s # t => pc'[s] = pc[s] /\ cur'[s] = cur[s]
  BY DEF Others
<1>2. \A s \in Threads : s # t /\ pc[s] \in LoosePc => cur[s] # cur[t]
  BY DEF LooseInv
<1> QED
  BY <1>1, <1>2, LooseFacts

\* malloc fails, a handler is elected or not, or its session ends: nothing
\* changes in the map.
LEMMA RestTame ==
  ASSUME Types, TameInv, NEW t \in Threads, InsertFails(t) \/ Elect(t) \/ EndSession(t),
         lossy \subseteq lossy'
  PROVE  TameInv'
<1>1. /\ pc[t] \in {"malloc", "elect", "session"} /\ pc'[t] \in {"elect", "session", "idle", "over"}
      /\ table' = table /\ node' = node /\ allocated' = allocated /\ spec' = spec
  BY DEF InsertFails, Elect, EndSession, Goto, heapVars, Types, TypeOK
<1>2. Others(t)
  BY StepOthers DEF Operate
<1>3. pc[t] \notin LoosePc /\ pc'[t] \notin LoosePc /\ pc'[t] \notin Getting
  BY <1>1 DEF LoosePc, Getting
<1>4. \A bb \in Buckets : \A mm \in Nat : \A cc \in [1..mm -> Addresses] :
        Main(bb, mm, cc) /\ Bucket(t)' = bb => DeleterAt(t, mm, cc)'
  BY <1>1 DEF DeleterAt
<1> QED
  BY <1>1, <1>2, <1>3, <1>4, ReadTame

\* malloc returns a node that is in no chain.
LEMMA InsertAllocTame ==
  ASSUME Types, TameInv, NEW t \in Threads, InsertAlloc(t), lossy \subseteq lossy'
  PROVE  TameInv'
<1>1. /\ pc[t] = "malloc" /\ pc'[t] = "link" /\ key'[t] = key[t] /\ mine'[t] = mine[t]
      /\ table' = table /\ spec' = spec
  BY DEF InsertAlloc, Goto, Types, TypeOK
<1>2. Others(t)
  BY StepOthers DEF Operate
<1>3. PICK n \in Addresses \ allocated : Filled(t, n)
  BY AllocFacts
<1>4. /\ allocated' = allocated \cup {n} /\ cur'[t] = n
      /\ node'[n].key = key[t] /\ node'[n].value = mine[t]
      /\ \A x \in Addresses : x # n => node'[x] = node[x]
  BY <1>3 DEF Filled, Types, TypeOK
<1>5. LooseInv
  BY DEF TameInv
<1>6. \A x \in allocated : x \in Addresses /\ x # n /\ node'[x] = node[x]
  BY <1>3, <1>4 DEF Types, TypeOK
<1>7. \A x : x \in Loose' <=> x \in Loose \/ x = n
  BY <1>1, <1>2, <1>4, LooseEnter DEF LoosePc
<1>8. \A x \in Linkable : x \in Linkable' /\ node'[x] = node[x]
  BY <1>4, <1>6, <1>7 DEF Linkable
<1>9. \A b \in Buckets : Kept(b)
  BY <1>8 DEF Kept
<1>10. ASSUME NEW b \in Buckets PROVE Still(b)
  <2>1. ASSUME NEW x \in allocated', Hash[node'[x].key] = b, x \notin Loose'
        PROVE  x \in Linkable /\ Hash[node[x].key] = b
    <3>1. x # n /\ x \notin Loose /\ x \in allocated
      BY <1>4, <1>7, <2>1
    <3> QED
      BY <1>6, <2>1, <3>1 DEF Linkable
  <2> QED
    BY <1>1, <2>1 DEF Still
<1>11. LooseInv'
  <2>1. \A s \in Threads : s # t =>
          /\ pc'[s] = pc[s] /\ key'[s] = key[s] /\ mine'[s] = mine[s] /\ cur'[s] = cur[s]
          /\ Bucket(s)' = Bucket(s)
    BY <1>2 DEF Others, Bucket
  <2>2. \A s \in Threads : s # t /\ pc[s] \in LoosePc => cur[s] \in allocated
    BY <1>5 DEF LooseInv
  <2>3. ASSUME NEW s \in Threads, pc'[s] \in LoosePc
        PROVE  cur'[s] \in allocated' /\ Hash[node'[cur'[s]].key] = Bucket(s)'
    <3>1. CASE s = t
      BY <1>1, <1>4, <3>1 DEF Bucket
    <3>2. CASE s # t
      BY <1>4, <1>5, <1>6, <2>1, <2>2, <2>3, <3>2 DEF LooseInv
    <3> QED
      BY <3>1, <3>2
  <2>4. ASSUME NEW s \in Threads, pc'[s] \in {"link", "push"}
        PROVE  node'[cur'[s]].key = key'[s] /\ node'[cur'[s]].value = mine'[s]
    <3>1. CASE s = t
      BY <1>1, <1>4, <3>1
    <3>2. CASE s # t
      BY <1>5, <1>6, <2>1, <2>2, <2>4, <3>2 DEF LooseInv, LoosePc
    <3> QED
      BY <3>1, <3>2
  <2>5. ASSUME NEW s \in Threads, NEW u \in Threads, pc'[s] \in LoosePc, pc'[u] \in LoosePc,
               cur'[s] = cur'[u]
        PROVE  s = u
    BY <1>4, <1>5, <1>6, <2>1, <2>2, <2>5 DEF LooseInv
  <2> QED
    BY <2>3, <2>4, <2>5 DEF LooseInv
<1>12. \A s \in Threads : s # t /\ pc[s] = "push" => node'[cur[s]] = node[cur[s]]
  BY <1>5, <1>6 DEF LooseInv, LoosePc
<1>13. \A bb \in Buckets : \A mm \in Nat : \A cc \in [1..mm -> Addresses] :
        Main(bb, mm, cc) /\ Bucket(t)' = bb => DeleterAt(t, mm, cc)'
  BY <1>1 DEF DeleterAt
<1>14. pc'[t] \notin Getting /\ pc'[t] # "push"
  BY <1>1 DEF Getting
<1> QED
  BY <1>2, <1>9, <1>10, <1>11, <1>12, <1>13, <1>14, QuietTame

\* The new node continues with the chain of its bucket.
LEMMA InsertLinkTame ==
  ASSUME Types, TameInv, NEW t \in Threads, InsertLink(t), lossy \subseteq lossy'
  PROVE  TameInv'
<1> DEFINE b0 == Bucket(t)
<1>1. /\ pc[t] = "link" /\ pc'[t] = "push" /\ key' = key /\ mine' = mine /\ cur' = cur
      /\ table' = table /\ spec' = spec /\ allocated' = allocated
      /\ node' = [node EXCEPT ![cur[t]].next = table[b0]]
      /\ cur[t] \in Addresses
  BY DEF InsertLink, Goto, walkVars, Types, TypeOK, Walking
<1>2. Others(t)
  BY StepOthers DEF Operate
<1>3. /\ node'[cur[t]].next = table[b0]
      /\ node'[cur[t]].key = node[cur[t]].key
      /\ node'[cur[t]].value = node[cur[t]].value
      /\ \A x \in Addresses : x # cur[t] => node'[x] = node[x]
  BY <1>1 DEF Types, TypeOK
<1>4. \A x \in Addresses : node'[x].key = node[x].key /\ node'[x].value = node[x].value
  BY <1>3
<1>5. LooseInv
  BY DEF TameInv
<1>6. \A s \in Threads : pc'[s] \in LoosePc <=> pc[s] \in LoosePc
  BY <1>1, <1>2 DEF Others, LoosePc
<1>7. \A x : x \in Loose' <=> x \in Loose
  BY <1>1, <1>6, LooseFacts
<1>8. cur[t] \in Loose
  BY <1>1, LooseFacts DEF LoosePc
<1>9. allocated \subseteq Addresses
  BY DEF Types, TypeOK
<1>10. \A x \in Linkable : x \in Linkable' /\ node'[x] = node[x]
  BY <1>1, <1>3, <1>7, <1>8, <1>9 DEF Linkable
<1>11. \A b : Kept(b)
  BY <1>10 DEF Kept
<1>12. \A b \in Buckets : Still(b)
  BY <1>1, <1>4, <1>7, <1>9 DEF Still, Linkable
<1>13. LooseInv'
  <2>1. \A s \in Threads : Bucket(s)' = Bucket(s)
    BY <1>1 DEF Bucket
  <2>2. \A s \in Threads : pc'[s] \in {"link", "push"} <=> pc[s] \in {"link", "push"}
    BY <1>1, <1>2 DEF Others
  <2>3. \A s \in Threads : pc[s] \in LoosePc => cur[s] \in Addresses
    BY <1>5, <1>9 DEF LooseInv
  <2>4. \A s \in Threads : pc[s] \in {"link", "push"} => pc[s] \in LoosePc
    BY DEF LoosePc
  <2>5. ASSUME NEW s \in Threads, pc'[s] \in LoosePc
        PROVE  cur'[s] \in allocated' /\ Hash[node'[cur'[s]].key] = Bucket(s)'
    BY <1>1, <1>4, <1>5, <1>6, <2>1, <2>3, <2>5 DEF LooseInv
  <2>6. ASSUME NEW s \in Threads, pc'[s] \in {"link", "push"}
        PROVE  node'[cur'[s]].key = key'[s] /\ node'[cur'[s]].value = mine'[s]
    BY <1>1, <1>4, <1>5, <2>2, <2>3, <2>4, <2>6 DEF LooseInv
  <2>7. ASSUME NEW s \in Threads, NEW u \in Threads, pc'[s] \in LoosePc, pc'[u] \in LoosePc,
               cur'[s] = cur'[u]
        PROVE  s = u
    BY <1>1, <1>5, <1>6, <2>7 DEF LooseInv
  <2> QED
    BY <2>5, <2>6, <2>7 DEF LooseInv
<1>14. ASSUME NEW s \in Threads, s # t, pc[s] = "push" PROVE node'[cur[s]] = node[cur[s]]
  <2>1. cur[s] # cur[t] /\ cur[s] \in Addresses
    BY <1>1, <1>5, <1>9, <1>14 DEF LooseInv, LoosePc
  <2> QED
    BY <1>3, <2>1
<1>15. \A bb \in Buckets : \A mm \in Nat : \A cc \in [1..mm -> Addresses] :
        Main(bb, mm, cc) /\ Bucket(t)' = bb => DeleterAt(t, mm, cc)'
  BY <1>1 DEF DeleterAt
<1>16. b0 \in Buckets
  BY HashBucket DEF Bucket, Types, TypeOK
<1>17. PICK m \in Nat : \E c \in [1..m -> Addresses] : Main(b0, m, c)
  BY <1>16 DEF TameInv
<1>18. PICK c \in [1..m -> Addresses] : Main(b0, m, c)
  BY <1>17
<1>19. PusherAt(t, m, c)'
  <2>1. Linked(node, Linkable, m, c, table[b0], b0)
    BY <1>18 DEF Main
  <2>2. Linked(node', Linkable', m, c, table[b0], b0)
    BY <1>11, <2>1, LinkedKeep
  <2>3. Bucket(t)' = b0
    BY <1>1 DEF Bucket
  <2>4. node'[cur'[t]].next = table[b0] /\ table'[b0] = table[b0]
    BY <1>1, <1>3
  <2>5. Linked(node, Linkable, m, c, node[cur[t]].next, Bucket(t))'
    BY <2>2, <2>3, <2>4
  <2> QED
    BY <2>3, <2>4, <2>5 DEF PusherAt
<1>20. pc'[t] \notin Getting
  BY <1>1 DEF Getting
<1> QED
  BY <1>2, <1>11, <1>12, <1>13, <1>14, <1>15, <1>19, <1>20, QuietTame

\* free: the node is in no chain any more.
LEMMA DeleteFreeTame ==
  ASSUME Types, TameInv, NEW t \in Threads, DeleteFree(t), lossy \subseteq lossy'
  PROVE  TameInv'
<1>1. /\ pc[t] = "free" /\ pc'[t] = "idle" /\ key' = key /\ mine' = mine /\ cur' = cur
      /\ table' = table /\ spec' = spec /\ node' = node
      /\ allocated' = allocated \ {cur[t]}
  BY DEF DeleteFree, Goto, walkVars, Types, TypeOK
<1>2. Others(t)
  BY StepOthers DEF Operate
<1>3. LooseInv
  BY DEF TameInv
<1>4. /\ \A x : x \in Loose' <=> x \in Loose /\ x # cur[t]
      /\ cur[t] \in Loose
  BY <1>1, <1>2, <1>3, LooseLeave DEF LoosePc
<1>5. \A b : Kept(b)
  BY <1>1, <1>4 DEF Kept, Linkable
<1>6. \A b \in Buckets : Still(b)
  BY <1>1, <1>4 DEF Still, Linkable
<1>7. LooseInv'
  <2>1. \A s \in Threads : Bucket(s)' = Bucket(s)
    BY <1>1 DEF Bucket
  <2>2. \A s \in Threads : pc'[s] \in LoosePc => s # t /\ pc'[s] = pc[s]
    BY <1>1, <1>2 DEF Others, LoosePc
  <2>3. \A s \in Threads : s # t /\ pc[s] \in LoosePc => cur[s] # cur[t]
    BY <1>1, <1>3 DEF LooseInv, LoosePc
  <2>4. ASSUME NEW s \in Threads, pc'[s] \in LoosePc
        PROVE  cur'[s] \in allocated' /\ Hash[node'[cur'[s]].key] = Bucket(s)'
    BY <1>1, <1>3, <2>1, <2>2, <2>3, <2>4 DEF LooseInv
  <2>5. ASSUME NEW s \in Threads, pc'[s] \in {"link", "push"}
        PROVE  node'[cur'[s]].key = key'[s] /\ node'[cur'[s]].value = mine'[s]
    <3>1. pc'[s] \in LoosePc
      BY <2>5 DEF LoosePc
    <3>2. pc[s] \in {"link", "push"}
      BY <2>2, <2>5, <3>1
    <3> QED
      BY <1>1, <1>3, <3>2 DEF LooseInv
  <2>6. ASSUME NEW s \in Threads, NEW u \in Threads, pc'[s] \in LoosePc, pc'[u] \in LoosePc,
               cur'[s] = cur'[u]
        PROVE  s = u
    BY <1>1, <1>3, <2>2, <2>6 DEF LooseInv
  <2> QED
    BY <2>4, <2>5, <2>6 DEF LooseInv
<1>8. \A bb \in Buckets : \A mm \in Nat : \A cc \in [1..mm -> Addresses] :
        Main(bb, mm, cc) /\ Bucket(t)' = bb => DeleterAt(t, mm, cc)'
  BY <1>1 DEF DeleterAt
<1>9. pc'[t] \notin Getting /\ pc'[t] # "push"
  BY <1>1 DEF Getting
<1> QED
  BY <1>1, <1>2, <1>5, <1>6, <1>7, <1>8, <1>9, QuietTame

-----------------------------------------------------------------------------
(* The steps of delete *)

\* delete loads the head: it is at the first node of the chain.
LEMMA DeleteHeadTame ==
  ASSUME Types, TameInv, NEW t \in Threads, DeleteHead(t), lossy \subseteq lossy'
  PROVE  TameInv'
<1>1. /\ pc[t] = "over" /\ pc'[t] = "match" /\ key' = key
      /\ cur'[t] = table[Bucket(t)] /\ prev'[t] = NULL
      /\ table' = table /\ node' = node /\ allocated' = allocated /\ spec' = spec
  BY DEF DeleteHead, Goto, heapVars, Types, TypeOK
<1>2. Others(t)
  BY StepOthers DEF Operate
<1>3. pc[t] \notin LoosePc /\ pc'[t] \notin LoosePc /\ pc'[t] \notin Getting
  BY <1>1 DEF LoosePc, Getting
<1>4. ASSUME NEW b \in Buckets, NEW m \in Nat, NEW c \in [1..m -> Addresses], Main(b, m, c), Bucket(t)' = b
      PROVE  DeleterAt(t, m, c)'
  <2>1. Bucket(t) = b
    BY <1>1, <1>4 DEF Bucket
  <2>2. cur'[t] = Nth(m, c, 1)
    BY <1>1, <1>4, <2>1 DEF Main, Linked
  <2>3. At(t, m, c, 1)'
    BY <1>1, <2>2 DEF At
  <2>4. 1 \in 1..(m + 1)
    OBVIOUS
  <2> QED
    BY <1>1, <2>3, <2>4 DEF DeleterAt
<1> QED
  BY <1>1, <1>2, <1>3, <1>4, ReadTame

\* delete compares, at the same place.
LEMMA DeleteMatchTame ==
  ASSUME Types, TameInv, NEW t \in Threads, DeleteMatch(t), lossy \subseteq lossy'
  PROVE  TameInv'
<1>1. /\ pc[t] = "match" /\ key' = key /\ cur' = cur /\ prev' = prev /\ reg' = reg
      /\ table' = table /\ node' = node /\ allocated' = allocated /\ spec' = spec
      /\ pc'[t] = IF cur[t] = NULL THEN "idle"
                  ELSE IF node[cur[t]].key = key[t] THEN "unlink" ELSE "advance"
  BY DEF DeleteMatch, Goto, heapVars, walkVars, Types, TypeOK
<1>2. Others(t)
  BY StepOthers DEF Operate
<1>3. pc[t] \notin LoosePc /\ pc'[t] \notin LoosePc /\ pc'[t] \notin Getting
  BY <1>1 DEF LoosePc, Getting
<1>4. ASSUME NEW b \in Buckets, NEW m \in Nat, NEW c \in [1..m -> Addresses], Main(b, m, c), Bucket(t)' = b
      PROVE  DeleterAt(t, m, c)'
  <2>1. Bucket(t) = b
    BY <1>1, <1>4 DEF Bucket
  <2>2. PICK j \in 1..(m + 1) : At(t, m, c, j)
    BY <1>1, <1>4, <2>1 DEF Main, DeleterAt
  <2>3. At(t, m, c, j)'
    BY <1>1, <2>2 DEF At
  <2>4. CASE cur[t] = NULL
    BY <1>1, <2>4 DEF DeleterAt
  <2>5. CASE cur[t] # NULL
    <3>1. j \in 1..m /\ cur[t] = c[j]
      BY <2>2, <2>5 DEF At, Nth
    <3>2. CASE node[cur[t]].key = key[t]
      <4>1. pc'[t] = "unlink" /\ node'[c[j]].key = key'[t]
        BY <1>1, <2>5, <3>1, <3>2
      <4> QED
        BY <2>3, <3>1, <4>1 DEF DeleterAt
    <3>3. CASE node[cur[t]].key # key[t]
      <4>1. pc'[t] = "advance" /\ node'[c[j]].key # key'[t]
        BY <1>1, <2>5, <3>1, <3>3
      <4> QED
        BY <2>3, <3>1, <4>1 DEF DeleterAt
    <3> QED
      BY <3>2, <3>3
  <2> QED
    BY <2>4, <2>5
<1> QED
  BY <1>1, <1>2, <1>3, <1>4, ReadTame

\* delete goes on to the next place.
LEMMA DeleteAdvanceTame ==
  ASSUME Types, TameInv, NEW t \in Threads, DeleteAdvance(t), lossy \subseteq lossy'
  PROVE  TameInv'
<1>1. /\ pc[t] = "advance" /\ pc'[t] = "match" /\ key' = key
      /\ prev'[t] = cur[t] /\ cur'[t] = node[cur[t]].next
      /\ table' = table /\ node' = node /\ allocated' = allocated /\ spec' = spec
  BY DEF DeleteAdvance, Goto, heapVars, Types, TypeOK
<1>2. Others(t)
  BY StepOthers DEF Operate
<1>3. pc[t] \notin LoosePc /\ pc'[t] \notin LoosePc /\ pc'[t] \notin Getting
  BY <1>1 DEF LoosePc, Getting
<1>4. ASSUME NEW b \in Buckets, NEW m \in Nat, NEW c \in [1..m -> Addresses], Main(b, m, c), Bucket(t)' = b
      PROVE  DeleterAt(t, m, c)'
  <2>1. Bucket(t) = b
    BY <1>1, <1>4 DEF Bucket
  <2>2. PICK j \in 1..m : At(t, m, c, j) /\ node[c[j]].key # key[t]
    BY <1>1, <1>4, <2>1 DEF Main, DeleterAt
  <2>3. cur[t] = c[j] /\ \A i \in 1..(j - 1) : node[c[i]].key # key[t]
    BY <2>2 DEF At, Nth
  <2>4. node[c[j]].next = Nth(m, c, j + 1)
    BY <1>4 DEF Main, Linked
  <2>5. \A i \in 1..((j + 1) - 1) : node[c[i]].key # key[t]
    BY <2>2, <2>3
  <2>6. j + 1 > 1 /\ (j + 1) - 1 = j /\ j + 1 \in 1..(m + 1)
    OBVIOUS
  <2>7. At(t, m, c, j + 1)'
    BY <1>1, <2>3, <2>4, <2>5, <2>6 DEF At
  <2> QED
    BY <1>1, <2>6, <2>7 DEF DeleterAt
<1> QED
  BY <1>1, <1>2, <1>3, <1>4, ReadTame

\* delete loads what follows the node it has found.
LEMMA DeleteUnlinkTame ==
  ASSUME Types, TameInv, NEW t \in Threads, DeleteUnlink(t), lossy \subseteq lossy'
  PROVE  TameInv'
<1>1. /\ pc[t] = "unlink" /\ pc'[t] = "store" /\ key' = key /\ cur' = cur /\ prev' = prev
      /\ reg'[t] = node[cur[t]].next
      /\ table' = table /\ node' = node /\ allocated' = allocated /\ spec' = spec
  BY DEF DeleteUnlink, Goto, heapVars, Types, TypeOK
<1>2. Others(t)
  BY StepOthers DEF Operate
<1>3. pc[t] \notin LoosePc /\ pc'[t] \notin LoosePc /\ pc'[t] \notin Getting
  BY <1>1 DEF LoosePc, Getting
<1>4. ASSUME NEW b \in Buckets, NEW m \in Nat, NEW c \in [1..m -> Addresses], Main(b, m, c), Bucket(t)' = b
      PROVE  DeleterAt(t, m, c)'
  <2>1. Bucket(t) = b
    BY <1>1, <1>4 DEF Bucket
  <2>2. PICK j \in 1..m : At(t, m, c, j) /\ node[c[j]].key = key[t]
    BY <1>1, <1>4, <2>1 DEF Main, DeleterAt
  <2>3. At(t, m, c, j)' /\ cur[t] = c[j]
    BY <1>1, <2>2 DEF At, Nth
  <2>4. node'[c[j]].key = key'[t] /\ reg'[t] = node'[c[j]].next
    BY <1>1, <2>2, <2>3
  <2> QED
    BY <1>1, <2>3, <2>4 DEF DeleterAt
<1> QED
  BY <1>1, <1>2, <1>3, <1>4, ReadTame

-----------------------------------------------------------------------------
(* The two stores that change a chain *)

\* A new node in front of a chain.
LEMMA ConsLinked ==
  ASSUME NEW m \in Nat, NEW c \in [1..m -> Addresses], NEW b, NEW n \in Addresses,
         NEW fr, NEW fr2, n \notin fr, n \in fr2, fr \subseteq fr2, Hash[node[n].key] = b,
         Linked(node, fr, m, c, node[n].next, b)
  PROVE  LET d == [i \in 1..(m + 1) |-> IF i = 1 THEN n ELSE c[i - 1]] IN
         /\ d \in [1..(m + 1) -> Addresses]
         /\ Linked(node, fr2, m + 1, d, n, b)
<1> DEFINE d == [i \in 1..(m + 1) |-> IF i = 1 THEN n ELSE c[i - 1]]
<1>1. \A i \in 1..(m + 1) : /\ i = 1 => d[i] = n
                            /\ i # 1 => i - 1 \in 1..m /\ d[i] = c[i - 1]
  OBVIOUS
<1>2. d \in [1..(m + 1) -> Addresses]
  BY <1>1
<1> HIDE DEF d
<1>3. \A i \in 1..m : /\ c[i] \in fr
                      /\ Hash[node[c[i]].key] = b
                      /\ node[c[i]].next = Nth(m, c, i + 1)
  BY DEF Linked
<1>4. ASSUME NEW i \in 1..(m + 1) PROVE Nth(m + 1, d, i + 1) = Nth(m, c, i)
  <2>1. CASE i = m + 1
    BY <2>1 DEF Nth
  <2>2. CASE i # m + 1
    <3>1. i + 1 \in 1..(m + 1) /\ i + 1 # 1 /\ (i + 1) - 1 = i
      BY <2>2
    <3>2. d[i + 1] = c[i]
      BY <1>1, <3>1
    <3> QED
      BY <2>2, <3>1, <3>2 DEF Nth
  <2> QED
    BY <2>1, <2>2
<1>5. ASSUME NEW i \in 1..(m + 1)
      PROVE  d[i] \in fr2 /\ Hash[node[d[i]].key] = b /\ node[d[i]].next = Nth(m + 1, d, i + 1)
  <2>1. CASE i = 1
    <3>1. node[n].next = Nth(m, c, 1)
      BY DEF Linked
    <3>2. d[i] = n /\ Nth(m + 1, d, i + 1) = Nth(m, c, 1)
      BY <1>1, <1>4, <2>1
    <3> QED
      BY <3>1, <3>2
  <2>2. CASE i # 1
    <3>1. i - 1 \in 1..m /\ d[i] = c[i - 1] /\ (i - 1) + 1 = i
      BY <1>1, <2>2
    <3>2. Nth(m + 1, d, i + 1) = Nth(m, c, i)
      BY <1>4
    <3> QED
      BY <1>3, <3>1, <3>2
  <2> QED
    BY <2>1, <2>2
<1>6. ASSUME NEW i \in 1..(m + 1), NEW j \in 1..(m + 1), d[i] = d[j] PROVE i = j
  <2>1. \A k \in 1..m : c[k] # n
    BY <1>3
  <2>2. CASE i = 1 \/ j = 1
    BY <1>1, <1>6, <2>1, <2>2
  <2>3. CASE i # 1 /\ j # 1
    <3>1. i - 1 \in 1..m /\ j - 1 \in 1..m /\ c[i - 1] = c[j - 1]
      BY <1>1, <1>6, <2>3
    <3>2. i - 1 = j - 1
      BY <3>1 DEF Linked
    <3> QED
      BY <3>2
  <2> QED
    BY <2>2, <2>3
<1>7. n = Nth(m + 1, d, 1)
  BY <1>1 DEF Nth
<1>8. Linked(node, fr2, m + 1, d, n, b)
  BY <1>5, <1>6, <1>7 DEF Linked
<1> QED
  BY <1>2, <1>8 DEF d

\* insert stores the head: its node comes in front of the chain, the bucket's if
\* no insert overlaps, of another one if some nodes are lost.
LEMMA InsertPushTame ==
  ASSUME Types, TameInv, Meet, ~wild, NEW t \in Threads, InsertPush(t), lossy \subseteq lossy'
  PROVE  TameInv'
<1>0. PICK b0 \in Buckets : b0 = Bucket(t)
  BY HashBucket DEF Bucket, Types, TypeOK
<1>n. PICK n \in Addresses : n = cur[t]
  BY DEF InsertPush, Types, Walking
<1>1. /\ pc[t] = "push" /\ pc'[t] = "elect" /\ key' = key /\ mine' = mine /\ cur' = cur
      /\ node' = node /\ allocated' = allocated
      /\ table'[b0] = n
      /\ spec'[b0] = <<<<key[t], mine[t]>>>> \o spec[b0]
      /\ \A b \in Buckets : b # b0 => table'[b] = table[b] /\ spec'[b] = spec[b]
  BY <1>0, <1>n DEF InsertPush, Goto, walkVars, Types, TypeOK
<1>2. Others(t)
  BY StepOthers DEF Operate
<1>3. LooseInv
  BY DEF TameInv
<1>4. n \in allocated /\ n \in Addresses /\ node[n].key = key[t] /\ node[n].value = mine[t]
      /\ Hash[node[n].key] = b0
  BY <1>0, <1>n, <1>1, <1>3 DEF LooseInv, LoosePc
<1>5. /\ \A x : x \in Loose' <=> x \in Loose /\ x # n
      /\ n \in Loose
  BY <1>n, <1>1, <1>2, <1>3, LooseLeave DEF LoosePc
<1>6. \A x : x \in Linkable' <=> x \in Linkable \/ x = n
  BY <1>1, <1>4, <1>5 DEF Linkable
<1>7. n \notin Linkable
  BY <1>5 DEF Linkable
<1>8. \A b : Kept(b)
  BY <1>1, <1>6 DEF Kept
<1>9. \A s \in Threads : Bucket(s)' = Bucket(s)
  BY <1>1 DEF Bucket
<1>10. ASSUME NEW s \in Threads, s # t, Bucket(s) = b0 PROVE pc[s] \notin Deleting
  BY <1>0, <1>1, <1>10 DEF Meet, DeleteMeets, Together
<1>11. ASSUME NEW s \in Threads, s # t, pc[s] = "push", Bucket(s) \notin lossy'
       PROVE  table'[Bucket(s)] = table[Bucket(s)]
  <2>1. Bucket(s) \in Buckets
    BY HashBucket DEF Bucket, Types, TypeOK
  <2>2. Bucket(s) # b0
    <3> SUFFICES ASSUME Bucket(s) = b0 PROVE FALSE
      OBVIOUS
    <3>1. Together(s, t, {"push"}, {"push"})
      BY <1>0, <1>1, <1>11 DEF Together
    <3>2. InsertsMeet(b0)
      BY <1>0, <3>1 DEF InsertsMeet
    <3> QED
      BY <1>0, <1>11, <3>2 DEF Meet
  <2> QED
    BY <1>1, <2>1, <2>2
<1>12. LooseInv'
  <2>1. \A s \in Threads : pc'[s] \in LoosePc => s # t /\ pc'[s] = pc[s]
    BY <1>1, <1>2 DEF Others, LoosePc
  <2>2. ASSUME NEW s \in Threads, pc'[s] \in LoosePc
        PROVE  cur'[s] \in allocated' /\ Hash[node'[cur'[s]].key] = Bucket(s)'
    BY <1>1, <1>3, <1>9, <2>1, <2>2 DEF LooseInv
  <2>3. ASSUME NEW s \in Threads, pc'[s] \in {"link", "push"}
        PROVE  node'[cur'[s]].key = key'[s] /\ node'[cur'[s]].value = mine'[s]
    <3>1. pc'[s] \in LoosePc
      BY <2>3 DEF LoosePc
    <3>2. pc[s] \in {"link", "push"}
      BY <2>1, <2>3, <3>1
    <3> QED
      BY <1>1, <1>3, <3>2 DEF LooseInv
  <2>4. ASSUME NEW s \in Threads, NEW u \in Threads, pc'[s] \in LoosePc, pc'[u] \in LoosePc,
               cur'[s] = cur'[u]
        PROVE  s = u
    BY <1>1, <1>3, <2>1, <2>4 DEF LooseInv
  <2> QED
    BY <2>2, <2>3, <2>4 DEF LooseInv
<1>13. \A s \in Threads : Bucket(s) = b0 => pc'[s] \notin {"match", "advance", "unlink", "store"}
  BY <1>1, <1>2, <1>10 DEF Others, Deleting
<1>14. ASSUME NEW b \in Buckets, b # b0
       PROVE  \E m \in Nat : \E c \in [1..m -> Addresses] : Main(b, m, c)'
  <2>1. PICK m \in Nat : \E c \in [1..m -> Addresses] : Main(b, m, c)
    BY DEF TameInv
  <2>2. PICK c \in [1..m -> Addresses] : Main(b, m, c)
    BY <2>1
  <2>3. Still(b)
    BY <1>1, <1>4, <1>5, <1>14 DEF Still, Linkable
  <2>4. Main(b, m, c)'
    BY <1>0, <1>2, <1>8, <1>9, <1>14, <2>2, <2>3, MainKeep
  <2> QED
    BY <2>4
<1>15. \E m \in Nat : \E c \in [1..m -> Addresses] : Main(b0, m, c)'
  <2>1. \E m \in Nat : \E c \in [1..m -> Addresses] :
          /\ Linked(node, Linkable, m, c, node[n].next, b0)
          /\ b0 \notin lossy => Exact(b0, m, c) /\ Owned(b0, m, c)
    <3>1. CASE b0 \notin lossy
      <4>1. PICK m \in Nat : \E c \in [1..m -> Addresses] : Main(b0, m, c)
        BY <1>0 DEF TameInv
      <4>2. PICK c \in [1..m -> Addresses] : Main(b0, m, c)
        BY <4>1
      <4>3. node[n].next = table[b0]
        BY <1>0, <1>n, <1>1, <3>1 DEF TameInv, PusherAt
      <4> QED
        BY <4>2, <4>3 DEF Main
    <3>2. CASE b0 \in lossy
      BY <1>0, <1>n, <1>1, <3>2 DEF TameInv, PusherAt
    <3> QED
      BY <3>1, <3>2
  <2>2. PICK m \in Nat : \E c \in [1..m -> Addresses] :
          /\ Linked(node, Linkable, m, c, node[n].next, b0)
          /\ b0 \notin lossy => Exact(b0, m, c) /\ Owned(b0, m, c)
    BY <2>1
  <2>3. PICK c \in [1..m -> Addresses] :
          /\ Linked(node, Linkable, m, c, node[n].next, b0)
          /\ b0 \notin lossy => Exact(b0, m, c) /\ Owned(b0, m, c)
    BY <2>2
  <2> DEFINE d == [i \in 1..(m + 1) |-> IF i = 1 THEN n ELSE c[i - 1]]
  <2>4. n \in Linkable' /\ Linkable \subseteq Linkable'
    BY <1>6
  <2>5. d \in [1..(m + 1) -> Addresses] /\ Linked(node, Linkable', m + 1, d, n, b0)
    BY <1>4, <1>7, <2>3, <2>4, ConsLinked
  <2>6. \A i \in 1..(m + 1) : /\ i = 1 => d[i] = n
                              /\ i # 1 => i - 1 \in 1..m /\ d[i] = c[i - 1]
    OBVIOUS
  <2>7. \A i \in 1..m : i + 1 \in 1..(m + 1) /\ d[i + 1] = c[i]
    OBVIOUS
  <2>8. 1 \in 1..(m + 1) /\ d[1] = n
    OBVIOUS
  <2> HIDE DEF d
  <2>9. Linked(node, Linkable, m + 1, d, table[b0], b0)'
    BY <1>1, <2>5
  <2>10. ASSUME b0 \notin lossy'
         PROVE  /\ Len(spec'[b0]) = m + 1
                /\ \A i \in 1..(m + 1) : spec'[b0][i] = <<node'[d[i]].key, node'[d[i]].value>>
    <3> DEFINE s == spec[b0]
               x == <<key[t], mine[t]>>
    <3>1. s \in Seq(Pairs) /\ x \in Pairs
      BY <1>0 DEF Types, TypeOK, Pairs
    <3>2. Len(s) = m /\ \A i \in 1..m : s[i] = <<node[c[i]].key, node[c[i]].value>>
      BY <2>3, <2>10 DEF Exact
    <3>3. x = <<node[n].key, node[n].value>>
      BY <1>4
    <3>4. spec'[b0] = <<x>> \o s
      BY <1>1
    <3> HIDE DEF s, x
    <3>5. /\ Len(spec'[b0]) = m + 1
          /\ \A i \in 1..(m + 1) : spec'[b0][i] = IF i = 1 THEN x ELSE s[i - 1]
      BY <3>1, <3>2, <3>4, PushFacts
    <3>6. \A i \in 1..(m + 1) : spec'[b0][i] = <<node[d[i]].key, node[d[i]].value>>
      BY <2>6, <3>2, <3>3, <3>5
    <3> QED
      BY <1>1, <3>5, <3>6
  <2>11. ASSUME b0 \notin lossy', NEW x \in allocated', Hash[node'[x].key] = b0, x \notin Loose'
         PROVE  \E i \in 1..(m + 1) : d[i] = x
    <3>1. CASE x = n
      BY <2>8, <3>1
    <3>2. CASE x # n
      <4>1. x \notin Loose /\ x \in allocated /\ Hash[node[x].key] = b0
        BY <1>1, <1>5, <2>11, <3>2
      <4>2. PICK i \in 1..m : c[i] = x
        BY <2>3, <2>11, <4>1 DEF Owned
      <4> QED
        BY <2>7, <4>2
    <3> QED
      BY <3>1, <3>2
  <2>12. \A s \in Threads : Bucket(s)' = b0 => DeleterAt(s, m + 1, d)'
    BY <1>9, <1>13 DEF DeleterAt
  <2>13. Exact(b0, m + 1, d)' /\ Owned(b0, m + 1, d)'
    BY <2>10, <2>11 DEF Exact, Owned
  <2>14. Main(b0, m + 1, d)'
    BY <2>9, <2>12, <2>13 DEF Main
  <2>15. m + 1 \in Nat
    OBVIOUS
  <2> QED
    BY <2>5, <2>14, <2>15
<1>16. pc'[t] \notin Getting /\ pc'[t] # "push"
  BY <1>1 DEF Getting
<1> QED
  BY <1>1, <1>2, <1>8, <1>11, <1>12, <1>14, <1>15, <1>16, TameKeep

\* A chain without its node j.
LEMMA CutLinked ==
  ASSUME NEW m \in Nat, NEW c \in [1..m -> Addresses], NEW b, NEW j \in 1..m,
         NEW nd, NEW nd2, NEW fr, NEW fr2, NEW x, NEW x2,
         Linked(nd, fr, m, c, x, b),
         \A i \in 1..m : i # j => c[i] \in fr2 /\ nd2[c[i]].key = nd[c[i]].key,
         \A i \in 1..m : nd2[c[i]].next = IF i = j - 1 THEN Nth(m, c, j + 1) ELSE nd[c[i]].next,
         x2 = IF j = 1 THEN Nth(m, c, 2) ELSE x
  PROVE  LET d == [i \in 1..(m - 1) |-> IF i < j THEN c[i] ELSE c[i + 1]] IN
         /\ d \in [1..(m - 1) -> Addresses]
         /\ Linked(nd2, fr2, m - 1, d, x2, b)
<1> DEFINE d == [i \in 1..(m - 1) |-> IF i < j THEN c[i] ELSE c[i + 1]]
<1>1. \A i \in 1..(m - 1) : /\ i \in 1..m /\ i + 1 \in 1..m
                            /\ i < j => d[i] = c[i]
                            /\ ~(i < j) => d[i] = c[i + 1]
  OBVIOUS
<1>2. d \in [1..(m - 1) -> Addresses]
  BY <1>1
<1> HIDE DEF d
<1>3. \A i \in 1..m : /\ c[i] \in fr
                      /\ Hash[nd[c[i]].key] = b
                      /\ nd[c[i]].next = Nth(m, c, i + 1)
  BY DEF Linked
<1>4. ASSUME NEW i \in 1..m PROVE Nth(m - 1, d, i) = IF i < j THEN c[i] ELSE Nth(m, c, i + 1)
  <2>1. CASE i = m
    BY <2>1 DEF Nth
  <2>2. CASE i # m
    <3>1. i \in 1..(m - 1) /\ i <= m - 1 /\ i + 1 <= m
      BY <2>2
    <3> QED
      BY <1>1, <3>1 DEF Nth
  <2> QED
    BY <2>1, <2>2
<1>5. ASSUME NEW i \in 1..(m - 1)
      PROVE  d[i] \in fr2 /\ Hash[nd2[d[i]].key] = b /\ nd2[d[i]].next = Nth(m - 1, d, i + 1)
  <2>1. i + 1 \in 1..m /\ i \in 1..m
    OBVIOUS
  <2>2. CASE i < j
    <3>1. d[i] = c[i] /\ i # j
      BY <1>1, <2>2
    <3>2. d[i] \in fr2 /\ Hash[nd2[d[i]].key] = b
      BY <1>3, <2>1, <3>1
    <3>3. CASE i = j - 1
      <4>1. ~(i + 1 < j) /\ (i + 1) + 1 = j + 1
        BY <3>3
      <4>2. Nth(m - 1, d, i + 1) = Nth(m, c, j + 1)
        BY <1>4, <2>1, <4>1
      <4> QED
        BY <2>1, <3>1, <3>2, <3>3, <4>2
    <3>4. CASE i # j - 1
      <4>1. i + 1 < j /\ i + 1 <= m
        BY <2>2, <3>4
      <4>2. Nth(m - 1, d, i + 1) = c[i + 1]
        BY <1>4, <2>1, <4>1
      <4>3. nd2[c[i]].next = nd[c[i]].next
        BY <2>1, <3>4
      <4>4. nd[c[i]].next = c[i + 1]
        BY <1>3, <2>1, <4>1 DEF Nth
      <4> QED
        BY <3>1, <3>2, <4>2, <4>3, <4>4
    <3> QED
      BY <3>3, <3>4
  <2>3. CASE ~(i < j)
    <3>1. d[i] = c[i + 1] /\ i + 1 # j /\ i + 1 # j - 1 /\ ~(i + 1 < j)
      BY <1>1, <2>3
    <3>2. d[i] \in fr2 /\ Hash[nd2[d[i]].key] = b
      BY <1>3, <2>1, <3>1
    <3>3. Nth(m - 1, d, i + 1) = Nth(m, c, (i + 1) + 1)
      BY <1>4, <2>1, <3>1
    <3>4. nd2[c[i + 1]].next = nd[c[i + 1]].next
      BY <2>1, <3>1
    <3>5. nd[c[i + 1]].next = Nth(m, c, (i + 1) + 1)
      BY <1>3, <2>1
    <3> QED
      BY <3>1, <3>2, <3>3, <3>4, <3>5
  <2> QED
    BY <2>2, <2>3
<1>6. ASSUME NEW i \in 1..(m - 1), NEW k \in 1..(m - 1), d[i] = d[k] PROVE i = k
  <2>1. \A p, q \in 1..m : c[p] = c[q] => p = q
    BY DEF Linked
  <2> QED
    BY <1>1, <1>6, <2>1
<1>7. x2 = Nth(m - 1, d, 1)
  <2>1. 1 \in 1..m /\ (1 < j <=> j # 1)
    OBVIOUS
  <2>2. x = c[1]
    BY <2>1 DEF Linked, Nth
  <2> QED
    BY <1>4, <2>1, <2>2
<1>8. Linked(nd2, fr2, m - 1, d, x2, b)
  BY <1>5, <1>6, <1>7 DEF Linked
<1> QED
  BY <1>2, <1>8 DEF d

\* delete stores what follows its node into the one before it or into the table:
\* its node is no longer in the chain, and the pair no longer in the correct map.
LEMMA DeleteStoreTame ==
  ASSUME Types, TameInv, Meet, ~wild, NEW t \in Threads, DeleteStore(t), lossy \subseteq lossy'
  PROVE  TameInv'
<1>0. PICK b0 \in Buckets : b0 = Bucket(t)
  BY HashBucket DEF Bucket, Types, TypeOK
<1>1. /\ pc[t] = "store" /\ pc'[t] = "free" /\ key' = key /\ mine' = mine /\ cur' = cur
      /\ allocated' = allocated
      /\ spec'[b0] = Without(spec[b0], key[t])
      /\ \A b \in Buckets : b # b0 => table'[b] = table[b] /\ spec'[b] = spec[b]
      /\ prev[t] = NULL => table'[b0] = reg[t] /\ node' = node
      /\ prev[t] # NULL => table'[b0] = table[b0] /\ node' = [node EXCEPT ![prev[t]].next = reg[t]]
  BY <1>0 DEF DeleteStore, Goto, walkVars, Types, TypeOK
<1>2. Others(t)
  BY StepOthers DEF Operate
<1>3. LooseInv
  BY DEF TameInv
<1>4. PICK m \in Nat : \E c \in [1..m -> Addresses] : Main(b0, m, c)
  BY DEF TameInv
<1>5. PICK c \in [1..m -> Addresses] : Main(b0, m, c)
  BY <1>4
<1>6. DeleterAt(t, m, c)
  BY <1>0, <1>5 DEF Main
<1>7. PICK j \in 1..m : /\ At(t, m, c, j)
                        /\ node[c[j]].key = key[t]
                        /\ reg[t] = node[c[j]].next
  BY <1>1, <1>6 DEF DeleterAt
<1>8. /\ cur[t] = c[j]
      /\ prev[t] = IF j > 1 THEN c[j - 1] ELSE NULL
      /\ \A i \in 1..(j - 1) : node[c[i]].key # key[t]
  BY <1>7 DEF At, Nth
<1>9. Linked(node, Linkable, m, c, table[b0], b0)
  BY <1>5 DEF Main
<1>10. /\ \A i \in 1..m : /\ c[i] \in Linkable /\ c[i] \in Addresses
                          /\ Hash[node[c[i]].key] = b0
                          /\ node[c[i]].next = Nth(m, c, i + 1)
       /\ \A i, k \in 1..m : c[i] = c[k] => i = k
  BY <1>9 DEF Linked
<1>11. \A x : x \in Loose' <=> x \in Loose \/ x = c[j]
  BY <1>1, <1>2, <1>8, LooseEnter DEF LoosePc
<1>12. \A x : x \in Linkable' <=> x \in Linkable /\ x # c[j]
  BY <1>1, <1>11 DEF Linkable
<1>13. j > 1 => j - 1 \in 1..m /\ prev[t] = c[j - 1] /\ prev[t] # NULL /\ prev[t] \in Addresses
  BY <1>8, <1>10, NullAssumption
<1>14. j = 1 => prev[t] = NULL
  BY <1>8
<1>15. \A x \in Addresses : /\ node'[x].key = node[x].key /\ node'[x].value = node[x].value
                            /\ (j = 1 \/ x # c[j - 1]) => node'[x] = node[x]
                            /\ j > 1 /\ x = c[j - 1] => node'[x].next = reg[t]
  <2>1. CASE j = 1
    BY <1>1, <1>14, <2>1
  <2>2. CASE j > 1
    <3>1. node' = [node EXCEPT ![c[j - 1]].next = reg[t]] /\ c[j - 1] \in Addresses
      BY <1>1, <1>13, <2>2
    <3> QED
      BY <2>2, <3>1 DEF Types, TypeOK
  <2> QED
    BY <2>1, <2>2
<1>16. j > 1 => c[j - 1] \in Linkable /\ Hash[node[c[j - 1]].key] = b0
  BY <1>10, <1>13
<1>17. allocated \subseteq Addresses /\ Linkable \subseteq Addresses
  BY DEF Types, TypeOK, Linkable
<1>18. \A b \in Buckets : b # b0 => Kept(b)
  <2> SUFFICES ASSUME NEW b \in Buckets, b # b0, NEW x \in Linkable, Hash[node[x].key] = b
               PROVE  x \in Linkable' /\ node'[x] = node[x]
    BY DEF Kept
  <2>1. x # c[j] /\ (j = 1 \/ x # c[j - 1])
    BY <1>10, <1>16
  <2> QED
    BY <1>12, <1>15, <1>17, <2>1
<1>19. \A s \in Threads : Bucket(s)' = Bucket(s)
  BY <1>1 DEF Bucket
<1>20. ASSUME NEW s \in Threads, s # t, Bucket(s) = b0
       PROVE  pc[s] \notin Getting \cup {"push"} \cup Deleting
  <2>1. ~Together(t, s, Deleting, Getting \cup {"push"} \cup Deleting)
    BY DEF Meet, DeleteMeets
  <2>2. pc[t] \in Deleting
    BY <1>1 DEF Deleting
  <2> QED
    BY <1>0, <1>20, <2>1, <2>2 DEF Together
<1>21. \A s \in Threads : Bucket(s) \in Buckets
  BY HashBucket DEF Bucket, Types, TypeOK
<1>22. \A s \in Threads : s # t /\ pc[s] \in Getting => Kept(Bucket(s))
  BY <1>18, <1>20, <1>21
<1>23. ASSUME NEW s \in Threads, s # t, pc[s] = "push"
       PROVE  /\ Kept(Bucket(s))
              /\ node'[cur[s]] = node[cur[s]]
              /\ table'[Bucket(s)] = table[Bucket(s)]
  <2>1. Bucket(s) # b0
    BY <1>20, <1>23
  <2>2. cur[s] \in allocated /\ cur[s] \in Loose
    BY <1>3, <1>23, LooseFacts DEF LooseInv, LoosePc
  <2>3. j = 1 \/ cur[s] # c[j - 1]
    BY <1>16, <2>2 DEF Linkable
  <2> QED
    BY <1>1, <1>15, <1>17, <1>18, <1>21, <2>1, <2>2, <2>3
<1>24. LooseInv'
  <2>1. \A s \in Threads : s # t => pc'[s] = pc[s]
    BY <1>2 DEF Others
  <2>2. c[j] \in allocated /\ c[j] \notin Loose /\ c[j] \in Addresses /\ Hash[node[c[j]].key] = b0
    BY <1>10 DEF Linkable
  <2>3. ASSUME NEW s \in Threads, pc'[s] \in LoosePc
        PROVE  cur'[s] \in allocated' /\ Hash[node'[cur'[s]].key] = Bucket(s)'
    <3>1. CASE s = t
      BY <1>0, <1>1, <1>8, <1>15, <1>19, <2>2, <3>1
    <3>2. CASE s # t
      BY <1>1, <1>3, <1>15, <1>17, <1>19, <2>1, <2>3, <3>2 DEF LooseInv
    <3> QED
      BY <3>1, <3>2
  <2>4. ASSUME NEW s \in Threads, pc'[s] \in {"link", "push"}
        PROVE  node'[cur'[s]].key = key'[s] /\ node'[cur'[s]].value = mine'[s]
    <3>1. s # t /\ pc[s] \in {"link", "push"} /\ pc[s] \in LoosePc
      BY <1>1, <2>1, <2>4 DEF LoosePc
    <3>2. cur[s] \in Addresses
      BY <1>3, <1>17, <3>1 DEF LooseInv
    <3> QED
      BY <1>1, <1>3, <1>15, <3>1, <3>2 DEF LooseInv
  <2>5. ASSUME NEW s \in Threads, NEW u \in Threads, pc'[s] \in LoosePc, pc'[u] \in LoosePc,
               cur'[s] = cur'[u]
        PROVE  s = u
    <3>1. \A v \in Threads : v # t /\ pc'[v] \in LoosePc => pc[v] \in LoosePc /\ cur[v] # cur[t]
      BY <1>8, <2>1, <2>2, LooseFacts
    <3> QED
      BY <1>1, <1>3, <2>5, <3>1 DEF LooseInv
  <2> QED
    BY <2>3, <2>4, <2>5 DEF LooseInv
<1>25. ASSUME NEW b \in Buckets, b # b0
       PROVE  \E mm \in Nat : \E cc \in [1..mm -> Addresses] : Main(b, mm, cc)'
  <2>1. PICK mm \in Nat : \E cc \in [1..mm -> Addresses] : Main(b, mm, cc)
    BY DEF TameInv
  <2>2. PICK cc \in [1..mm -> Addresses] : Main(b, mm, cc)
    BY <2>1
  <2>3. Still(b)
    BY <1>1, <1>11, <1>15, <1>17, <1>25 DEF Still, Linkable
  <2>4. Bucket(t)' # b
    BY <1>0, <1>19, <1>25
  <2>5. Main(b, mm, cc)'
    BY <1>2, <1>18, <1>25, <2>2, <2>3, <2>4, MainKeep
  <2> QED
    BY <2>5
<1> DEFINE d == [i \in 1..(m - 1) |-> IF i < j THEN c[i] ELSE c[i + 1]]
<1>26. d \in [1..(m - 1) -> Addresses] /\ Linked(node', Linkable', m - 1, d, table'[b0], b0)
  <2>1. \A i \in 1..m : i # j => c[i] \in Linkable' /\ node'[c[i]].key = node[c[i]].key
    BY <1>10, <1>12, <1>15
  <2>2. \A i \in 1..m : node'[c[i]].next = IF i = j - 1 THEN Nth(m, c, j + 1) ELSE node[c[i]].next
    <3> SUFFICES ASSUME NEW i \in 1..m
                 PROVE  node'[c[i]].next = IF i = j - 1 THEN Nth(m, c, j + 1) ELSE node[c[i]].next
      OBVIOUS
    <3>1. reg[t] = Nth(m, c, j + 1)
      BY <1>7, <1>10
    <3>2. CASE i = j - 1
      <4>1. j > 1 /\ c[i] = c[j - 1] /\ c[i] \in Addresses
        BY <1>10, <3>2
      <4> QED
        BY <1>15, <3>1, <3>2, <4>1
    <3>3. CASE i # j - 1
      <4>1. j = 1 \/ c[i] # c[j - 1]
        BY <1>10, <1>13, <3>3
      <4> QED
        BY <1>10, <1>15, <3>3, <4>1
    <3> QED
      BY <3>2, <3>3
  <2>3. table'[b0] = IF j = 1 THEN Nth(m, c, 2) ELSE table[b0]
    <3>1. CASE j = 1
      <4>1. reg[t] = Nth(m, c, 1 + 1)
        BY <1>7, <1>10, <3>1
      <4> QED
        BY <1>1, <1>14, <3>1, <4>1
    <3>2. CASE j # 1
      BY <1>1, <1>13, <3>2
    <3> QED
      BY <3>1, <3>2
  <2> QED
    BY <1>9, <2>1, <2>2, <2>3, CutLinked
<1>27. \A i \in 1..(m - 1) : /\ i \in 1..m /\ i + 1 \in 1..m
                             /\ i < j => d[i] = c[i]
                             /\ ~(i < j) => d[i] = c[i + 1]
  OBVIOUS
<1>28. ASSUME NEW i \in 1..m, i # j PROVE \E k \in 1..(m - 1) : d[k] = c[i]
  <2>1. CASE i < j
    <3>1. i \in 1..(m - 1)
      BY <2>1
    <3> QED
      BY <2>1, <3>1
  <2>2. CASE ~(i < j)
    <3>1. i - 1 \in 1..(m - 1) /\ ~(i - 1 < j) /\ (i - 1) + 1 = i
      BY <1>28, <2>2
    <3> QED
      BY <1>27, <3>1
  <2> QED
    BY <2>1, <2>2
<1> HIDE DEF d
<1>29. Main(b0, m - 1, d)'
  <2>1. Linked(node, Linkable, m - 1, d, table[b0], b0)'
    BY <1>26
  <2>2. ASSUME b0 \notin lossy'
        PROVE  /\ Len(spec'[b0]) = m - 1
               /\ \A i \in 1..(m - 1) : spec'[b0][i] = <<node'[d[i]].key, node'[d[i]].value>>
    <3> DEFINE s == spec[b0]
    <3>1. s \in Seq(Pairs)
      BY DEF Types
    <3>2. Len(s) = m /\ \A i \in 1..m : s[i] = <<node[c[i]].key, node[c[i]].value>>
      BY <1>5, <2>2 DEF Main, Exact
    <3>3. \A i \in 1..m : s[i][1] = node[c[i]].key
      BY <3>2
    <3>4. s[j][1] = key[t] /\ \A i \in 1..(j - 1) : s[i][1] # key[t]
      BY <1>7, <1>8, <3>3
    <3>5. spec'[b0] = Without(s, key[t])
      BY <1>1
    <3> HIDE DEF s
    <3>6. spec'[b0] = RemoveAt(s, j)
      BY <3>1, <3>2, <3>4, <3>5, FirstIs DEF Without
    <3>7. /\ Len(spec'[b0]) = m - 1
          /\ \A i \in 1..(m - 1) : spec'[b0][i] = IF i < j THEN s[i] ELSE s[i + 1]
      BY <3>1, <3>2, <3>6, RemoveFacts, ZenonT(30)
    <3>8. \A i \in 1..(m - 1) : spec'[b0][i] = <<node[d[i]].key, node[d[i]].value>>
      BY <1>27, <3>2, <3>7
    <3>9. \A i \in 1..(m - 1) : d[i] \in Addresses
      BY <1>26
    <3> QED
      BY <1>15, <3>7, <3>8, <3>9
  <2>3. ASSUME b0 \notin lossy', NEW x \in allocated', Hash[node'[x].key] = b0, x \notin Loose'
        PROVE  \E i \in 1..(m - 1) : d[i] = x
    <3>1. x \in allocated /\ x # c[j] /\ x \notin Loose /\ Hash[node[x].key] = b0
      BY <1>1, <1>11, <1>15, <1>17, <2>3
    <3>2. PICK i \in 1..m : c[i] = x
      BY <1>5, <2>3, <3>1 DEF Main, Owned
    <3> QED
      BY <1>28, <3>1, <3>2
  <2>4. \A s \in Threads : Bucket(s) = b0 => pc'[s] \notin {"match", "advance", "unlink", "store"}
    BY <1>1, <1>2, <1>20 DEF Others, Deleting
  <2>5. \A s \in Threads : Bucket(s)' = b0 => DeleterAt(s, m - 1, d)'
    BY <1>19, <2>4 DEF DeleterAt
  <2>6. Exact(b0, m - 1, d)' /\ Owned(b0, m - 1, d)'
    BY <2>2, <2>3 DEF Exact, Owned
  <2> QED
    BY <2>1, <2>5, <2>6 DEF Main
<1>30. \E mm \in Nat : \E cc \in [1..mm -> Addresses] : Main(b0, mm, cc)'
  <2>1. m - 1 \in Nat
    OBVIOUS
  <2> QED
    BY <1>26, <1>29, <2>1
<1>31. pc'[t] \notin Getting /\ pc'[t] # "push"
  BY <1>1 DEF Getting
<1> QED
  BY <1>2, <1>22, <1>23, <1>24, <1>25, <1>30, <1>31, TameKeep

-----------------------------------------------------------------------------
(* Every step *)

\* A thread touches no free node.
LEMMA TameSafe ==
  ASSUME Types, TameInv, NEW t \in Threads
  PROVE  Safe(t)
<1>0. Bucket(t) \in Buckets
  BY HashBucket DEF Bucket, Types, TypeOK
<1>1. CASE pc[t] \in Getting
  <2>1. PICK m \in Nat : \E c \in [1..m -> Addresses] : GetterAt(t, m, c)
    BY <1>1 DEF TameInv
  <2>2. PICK c \in [1..m -> Addresses] : GetterAt(t, m, c)
    BY <2>1
  <2>3. cur[t] \in allocated \cup {NULL}
    BY <2>2, LinkedHead DEF GetterAt
  <2> QED
    BY <1>1, <2>3 DEF Safe, Touched, Getting
<1>2. CASE pc[t] \in {"match", "advance", "unlink", "store"}
  <2>1. PICK m \in Nat : \E c \in [1..m -> Addresses] : Main(Bucket(t), m, c)
    BY <1>0 DEF TameInv
  <2>2. PICK c \in [1..m -> Addresses] : Main(Bucket(t), m, c)
    BY <2>1
  <2>3. DeleterAt(t, m, c) /\ Linked(node, Linkable, m, c, table[Bucket(t)], Bucket(t))
    BY <2>2 DEF Main
  <2>4. PICK j \in 1..(m + 1) : At(t, m, c, j)
    <3>1. \A i \in 1..m : i \in 1..(m + 1)
      OBVIOUS
    <3> QED
      BY <1>2, <2>3, <3>1 DEF DeleterAt
  <2>5. \A i \in 1..m : c[i] \in allocated
    BY <2>3, LinkedFree
  <2>6. cur[t] \in allocated \cup {NULL}
    BY <2>4, <2>5 DEF At, Nth
  <2>7. prev[t] \in allocated \cup {NULL}
    <3>1. CASE j > 1
      <4>1. j - 1 \in 1..m
        BY <3>1
      <4> QED
        BY <2>4, <2>5, <3>1, <4>1 DEF At
    <3>2. CASE ~(j > 1)
      BY <2>4, <3>2 DEF At
    <3> QED
      BY <3>1, <3>2
  <2> QED
    BY <1>2, <2>6, <2>7 DEF Safe, Touched
<1>3. CASE pc[t] = "free"
  BY <1>3 DEF Safe, Touched, TameInv, LooseInv, LoosePc
<1>4. CASE pc[t] \notin Getting \cup Deleting
  BY <1>4 DEF Safe, Touched, Getting, Deleting
<1> QED
  BY <1>1, <1>2, <1>3, <1>4 DEF Deleting

\* Every step of a handler preserves the chains.
LEMMA TameStep ==
  ASSUME Types, TameInv, Meet, ~wild, NEW t \in Threads,
         Operate(t) \/ (\E k \in Keys : GetHead(t, k)) \/ EndSession(t),
         lossy \subseteq lossy'
  PROVE  TameInv'
BY GetHeadTame, GetCompareTame, GetNextTame, InsertAllocTame, RestTame, InsertLinkTame,
   InsertPushTame, DeleteHeadTame, DeleteMatchTame, DeleteAdvanceTame, DeleteUnlinkTame,
   DeleteStoreTame, DeleteFreeTame
   DEF Operate

\* Every step of a handler preserves the answers.
LEMMA ResStep ==
  ASSUME Types, TameInv, ResInv, ~wild, NEW t \in Threads,
         Operate(t) \/ (\E k \in Keys : GetHead(t, k)) \/ EndSession(t),
         lossy \subseteq lossy'
  PROVE  ResInv'
<1>1. Others(t)
  BY StepOthers
<1>2. ASSUME NEW s \in Threads, s # t, pc'[s] \notin Getting, Bucket(s)' \notin lossy'
      PROVE  res'[s] = want'[s]
  <2>1. pc'[s] = pc[s] /\ key'[s] = key[s] /\ res'[s] = res[s] /\ want'[s] = want[s]
    BY <1>1, <1>2 DEF Others
  <2> QED
    BY <1>2, <2>1 DEF ResInv, Bucket
<1>3. ASSUME pc'[t] \notin Getting, Bucket(t)' \notin lossy' PROVE res'[t] = want'[t]
  <2>1. CASE GetCompare(t)
    <3>1. Bucket(t)' = Bucket(t)
      BY <2>1 DEF GetCompare, Bucket
    <3> QED
      BY <1>3, <2>1, <3>1, GetCompareTame
  <2>2. CASE ~GetCompare(t)
    <3>1. res' = res /\ want' = want /\ key' = key /\ pc[t] \notin Getting
      BY <1>3, <2>2 DEF Operate, GetHead, GetNext, InsertAlloc, InsertFails, InsertLink, InsertPush,
         Elect, EndSession, DeleteHead, DeleteMatch, DeleteAdvance, DeleteUnlink, DeleteStore, DeleteFree, Goto, Getting,
         heapVars, walkVars, Types, TypeOK
    <3> QED
      BY <1>3, <3>1 DEF ResInv, Bucket
  <2> QED
    BY <2>1, <2>2
<1> QED
  BY <1>2, <1>3 DEF ResInv

\* Watch notes what meets.
LEMMA WatchMeet ==
  ASSUME Watch, lossy \subseteq Buckets
  PROVE  /\ Meet'
         /\ lossy \subseteq lossy' /\ lossy' \subseteq Buckets
         /\ wild => wild'
<1>1. lossy' = lossy \cup {b \in Buckets : InsertsMeet(b)'}
  BY DEF Watch
<1>2. wild' = (wild \/ DeleteMeets')
  BY DEF Watch
<1>3. \A b \in Buckets : InsertsMeet(b)' => b \in lossy'
  BY <1>1
<1>4. ~wild' => ~DeleteMeets'
  BY <1>2
<1>5. Meet'
  BY <1>3, <1>4 DEF Meet
<1> QED
  BY <1>1, <1>2, <1>5

-----------------------------------------------------------------------------
(* destroy_hashmap *)

\* Chain follows the chain to its end.
LEMMA ChainFacts ==
  ASSUME NEW b \in Buckets, NEW m \in Nat, NEW c \in [1..m -> Addresses],
         Linked(node, Linkable, m, c, table[b], b)
  PROVE  /\ m <= Cardinality(Addresses) /\ Cardinality(Addresses) \in Nat
         /\ DOMAIN Chain(b) = 0..Cardinality(Addresses)
         /\ \A i \in 0..Cardinality(Addresses) : Chain(b)[i] = Nth(m, c, i + 1)
<1> DEFINE N == Cardinality(Addresses)
           D == 0..N
           IsChain(g) == g = [i \in D |-> IF i = 0 THEN table[b]
                                          ELSE IF g[i - 1] = NULL THEN NULL ELSE node[g[i - 1]].next]
           f == [i \in D |-> Nth(m, c, i + 1)]
<1>1. N \in Nat
  BY AddressesAssumption, FS_CardinalityType
<1>2. m <= N
  <2>1. c \in Injection(1..m, Addresses)
    BY DEF Linked, Injection, IsInjective
  <2>2. Cardinality(1..m) <= N
    BY <2>1, AddressesAssumption, FS_Injection
  <2>3. Cardinality(1..m) = m
    BY FS_Interval
  <2> QED
    BY <2>2, <2>3
<1> HIDE DEF N
<1>3. \A i \in 1..m : c[i] # NULL /\ node[c[i]].next = Nth(m, c, i + 1)
  BY NullAssumption DEF Linked
<1>4. 0 \in D /\ f[0] = table[b]
  BY <1>1 DEF Linked
<1>5. ASSUME NEW i \in D, i # 0
      PROVE  /\ i - 1 \in D /\ i - 1 < i
             /\ f[i] = IF f[i - 1] = NULL THEN NULL ELSE node[f[i - 1]].next
  <2>1. i - 1 \in D /\ (i - 1) + 1 = i
    BY <1>1, <1>5
  <2>2. f[i - 1] = Nth(m, c, i) /\ f[i] = Nth(m, c, i + 1)
    BY <2>1
  <2>3. CASE i <= m
    <3>1. i \in 1..m /\ f[i - 1] = c[i]
      BY <1>1, <1>5, <2>2, <2>3 DEF Nth
    <3> QED
      BY <1>3, <1>1, <2>1, <2>2, <3>1
  <2>4. CASE ~(i <= m)
    <3>1. Nth(m, c, i) = NULL /\ Nth(m, c, i + 1) = NULL
      BY <1>1, <1>5, <2>4 DEF Nth
    <3> QED
      BY <1>1, <2>1, <2>2, <3>1
  <2> QED
    BY <2>3, <2>4
<1>6. IsChain(f)
  <2>1. \A i \in D : f[i] = IF i = 0 THEN table[b]
                         ELSE IF f[i - 1] = NULL THEN NULL ELSE node[f[i - 1]].next
    BY <1>4, <1>5
  <2>2. f = [i \in D |-> f[i]]
    OBVIOUS
  <2> HIDE DEF f
  <2> QED
    BY <2>1, <2>2
<1>7. \A i \in D : f[i] = Nth(m, c, i + 1)
  OBVIOUS
<1> HIDE DEF f
<1> DEFINE ch == Chain(b)
<1>8. IsChain(ch)
  <2>1. \E g : IsChain(g)
    BY <1>6
  <2>2. Chain(b) = CHOOSE g : IsChain(g)
    BY DEF Chain, N
  <2> HIDE DEF IsChain
  <2> QED
    BY <2>1, <2>2
<1> HIDE DEF ch
<1>9. /\ DOMAIN ch = D
      /\ \A i \in D : ch[i] = IF i = 0 THEN table[b] ELSE IF ch[i - 1] = NULL THEN NULL ELSE node[ch[i - 1]].next
  BY <1>8
<1> HIDE DEF IsChain
<1>10. \A i \in D : ch[i] = f[i]
  <2> DEFINE Bad == {i \in D : ch[i] # f[i]}
  <2> SUFFICES ASSUME Bad # {} PROVE FALSE
    OBVIOUS
  <2>1. Bad \in SUBSET Nat
    BY <1>1
  <2>2. PICK x \in Bad : \A y \in Bad : x <= y
    BY <2>1, LeastExists
  <2>3. x \in D /\ x # 0
    BY <1>4, <1>9, <2>2
  <2>4. x - 1 \in D /\ ~(x <= x - 1)
    BY <1>1, <1>5, <2>3
  <2>5. ch[x - 1] = f[x - 1]
    BY <2>2, <2>4
  <2>6. ch[x] = f[x]
    BY <1>5, <1>9, <2>3, <2>5
  <2> QED
    BY <2>2, <2>6
<1> QED
  BY <1>1, <1>2, <1>7, <1>9, <1>10 DEF ch, N

\* destroy_hashmap frees every node if none was lost.
LEMMA DestroyAll ==
  ASSUME Types, TameInv, Destroy, lossy = {}
  PROVE  allocated' = {}
<1> SUFFICES ASSUME NEW n \in allocated
             PROVE  \E b \in Buckets : \E i \in DOMAIN Chain(b) : Chain(b)[i] = n
  BY DEF Destroy
<1>1. n \in Addresses /\ node[n].key \in Keys
  BY DEF Types, TypeOK
<1>2. PICK b \in Buckets : b = Hash[node[n].key]
  BY <1>1, HashBucket
<1>3. PICK m \in Nat : \E c \in [1..m -> Addresses] : Main(b, m, c)
  BY DEF TameInv
<1>4. PICK c \in [1..m -> Addresses] : Main(b, m, c)
  BY <1>3
<1>5. n \notin Loose
  BY LooseFacts DEF Destroy, LoosePc
<1>6. PICK i \in 1..m : c[i] = n
  BY <1>2, <1>4, <1>5 DEF Main, Owned
<1>7. /\ m <= Cardinality(Addresses) /\ Cardinality(Addresses) \in Nat
      /\ DOMAIN Chain(b) = 0..Cardinality(Addresses)
      /\ \A k \in 0..Cardinality(Addresses) : Chain(b)[k] = Nth(m, c, k + 1)
  BY <1>4, ChainFacts DEF Main
<1>8. i - 1 \in 0..Cardinality(Addresses) /\ (i - 1) + 1 = i /\ i <= m
  BY <1>7
<1>9. Chain(b)[i - 1] = n
  BY <1>6, <1>7, <1>8 DEF Nth
<1> QED
  BY <1>7, <1>8, <1>9

-----------------------------------------------------------------------------
(* The invariant *)

\* Stuttering.
LEMMA UnchangedIInv == IInv /\ UNCHANGED vars => IInv'
<1> SUFFICES ASSUME IInv, UNCHANGED vars PROVE IInv'
  OBVIOUS
<1> USE DEF vars, heapVars, walkVars
<1>1. Types'
  BY DEF IInv, Types, TypeOK
<1>2. Meet'
  BY DEF IInv, Meet, DeleteMeets, InsertsMeet, Together, Bucket
<1>3. ResInv'
  BY DEF IInv, ResInv, Bucket
<1>4. Loose' = Loose /\ Linkable' = Linkable
  BY DEF Loose, Linkable
<1>5. ASSUME TameInv PROVE TameInv'
  <2>1. \A t \in Threads : Bucket(t)' = Bucket(t)
    BY DEF Bucket
  <2>2. LooseInv'
    BY <1>5, <2>1 DEF TameInv, LooseInv
  <2>3. \A b, m, c : Exact(b, m, c)' <=> Exact(b, m, c)
    BY DEF Exact
  <2>4. \A b, m, c : Owned(b, m, c)' <=> Owned(b, m, c)
    BY <1>4 DEF Owned
  <2>5. \A t, m, c, j : At(t, m, c, j)' <=> At(t, m, c, j)
    BY DEF At
  <2>6. \A t, m, c : DeleterAt(t, m, c)' <=> DeleterAt(t, m, c)
    BY <2>5 DEF DeleterAt
  <2>7. \A b, m, c : Main(b, m, c)' <=> Main(b, m, c)
    BY <1>4, <2>1, <2>3, <2>4, <2>6 DEF Main
  <2>8. \A m, c : \A t \in Threads : GetterAt(t, m, c)' <=> GetterAt(t, m, c)
    BY <1>4, <2>1 DEF GetterAt, Answers
  <2>9. \A m, c : \A t \in Threads : PusherAt(t, m, c)' <=> PusherAt(t, m, c)
    BY <1>4, <2>1 DEF PusherAt
  <2> QED
    BY <1>5, <2>2, <2>7, <2>8, <2>9 DEF TameInv
<1> QED
  BY <1>1, <1>2, <1>3, <1>5 DEF IInv

\* A step of a handler that touches no free node.
LEMMA StepIInv ==
  ASSUME IInv, NEW t \in Threads, ~fault, ~destroyed, Watch, UNCHANGED <<fault, destroyed>>,
         Operate(t) \/ (\E k \in Keys : GetHead(t, k)) \/ EndSession(t)
  PROVE  IInv'
<1>1. Types /\ Meet /\ ResInv /\ (~wild => TameInv) /\ lossy \subseteq Buckets
  BY DEF IInv, Types, TypeOK
<1>2. Meet' /\ lossy \subseteq lossy' /\ lossy' \subseteq Buckets /\ (wild => wild')
  BY <1>1, WatchMeet
<1>3. Types'
  BY <1>1, <1>2, TypesStep
<1>4. ~wild => TameInv'
  BY <1>1, <1>2, TameStep
<1>5. ResInv'
  <2>1. CASE wild
    BY <1>2, <2>1 DEF ResInv
  <2>2. CASE ~wild
    BY <1>1, <1>2, <2>2, ResStep
  <2> QED
    BY <2>1, <2>2
<1> QED
  BY <1>2, <1>3, <1>4, <1>5 DEF IInv

\* Every step preserves the invariant.
LEMMA NextIInv == IInv /\ [Next]_vars => IInv'
<1> SUFFICES ASSUME IInv, [Next]_vars PROVE IInv'
  OBVIOUS
<1>1. ASSUME NEW t \in Threads, Handle(t) PROVE IInv'
  <2>1. ~fault /\ ~destroyed /\ Watch /\ destroyed' = destroyed
    BY <1>1 DEF Handle
  <2>2. CASE Safe(t) /\ Operate(t) /\ UNCHANGED fault
    BY <2>1, <2>2, StepIInv
  <2>3. ASSUME ~Safe(t), fault' = TRUE,
               UNCHANGED <<heapVars, walkVars, pc, key, mine, busy, res, requests, spec, want>>
        PROVE  IInv'
    <3>1. Types /\ ~TameInv
      BY <2>3, TameSafe DEF IInv
    <3>2. wild
      BY <2>1, <3>1 DEF IInv
    <3>3. Meet' /\ lossy' \subseteq Buckets /\ wild'
      BY <2>1, <3>1, <3>2, WatchMeet DEF Types, TypeOK
    <3>4. Types'
      BY <2>3, <3>1, <3>3 DEF Types, TypeOK, heapVars, walkVars
    <3>5. ResInv'
      BY <3>3 DEF ResInv
    <3> QED
      BY <3>3, <3>4, <3>5 DEF IInv
  <2> QED
    BY <1>1, <2>2, <2>3 DEF Handle
<1>2. ASSUME NEW t \in Threads, Begin(t) PROVE IInv'
  BY <1>2, StepIInv DEF Begin
<1>3. CASE ~fault /\ Destroy
  <2>1. /\ destroyed' = TRUE /\ allocated' \subseteq allocated
        /\ UNCHANGED <<table, node, walkVars, pc, key, mine, busy, res, requests, fault, spec, want,
                       lossy, wild>>
        /\ ~destroyed
    BY <1>3 DEF Destroy
  <2>2. Types'
    BY <2>1 DEF IInv, Types, TypeOK, walkVars
  <2>3. Meet'
    BY <2>1 DEF IInv, Meet, DeleteMeets, InsertsMeet, Together, Bucket
  <2>4. ResInv'
    BY <2>1 DEF IInv, ResInv, Bucket
  <2>5. ~wild /\ lossy = {} => allocated' = {}
    BY <1>3, <2>1, DestroyAll DEF IInv
  <2> QED
    BY <2>1, <2>2, <2>3, <2>4, <2>5 DEF IInv
<1>4. CASE Over
  BY <1>4, UnchangedIInv DEF Over
<1>5. CASE UNCHANGED vars
  BY <1>5, UnchangedIInv
<1> QED
  BY <1>1, <1>2, <1>3, <1>4, <1>5 DEF Next

\* The invariant holds in every state of the hash map.
THEOREM Invariance == Spec => []IInv
<1>1. Init => IInv
  BY InitIInv
<1>2. IInv /\ [Next]_vars => IInv'
  BY NextIInv
<1> QED
  BY <1>1, <1>2, PTL DEF Spec

\* hashmap.c: for any threads, keys, hash function and number of nodes, the map is
\* exact in every bucket whose inserts did not overlap, and touches no free node,
\* as long as no delete is overlapped.
THEOREM Exactness == Spec => []MapExact
<1>1. IInv => MapExact
  <2> SUFFICES ASSUME IInv PROVE MapExact
    OBVIOUS
  <2>1. TypeOK /\ Types /\ (fault => wild) /\ (~wild /\ destroyed /\ lossy = {} => allocated = {})
    BY DEF IInv, Types
  <2>2. ASSUME ~destroyed, ~wild, NEW b \in Buckets \ lossy
        PROVE  /\ Chain(b)[Len(spec[b])] = NULL
               /\ \A i \in DOMAIN spec[b] :
                    /\ Chain(b)[i - 1] \in allocated
                    /\ <<node[Chain(b)[i - 1]].key, node[Chain(b)[i - 1]].value>> = spec[b][i]
    <3>1. PICK m \in Nat : \E c \in [1..m -> Addresses] : Main(b, m, c)
      BY <2>2 DEF IInv, TameInv
    <3>2. PICK c \in [1..m -> Addresses] : Main(b, m, c)
      BY <3>1
    <3>3. /\ m <= Cardinality(Addresses) /\ Cardinality(Addresses) \in Nat
          /\ \A k \in 0..Cardinality(Addresses) : Chain(b)[k] = Nth(m, c, k + 1)
      BY <3>2, ChainFacts DEF Main
    <3>4. spec[b] \in Seq(Pairs) /\ Len(spec[b]) = m
          /\ \A i \in 1..m : spec[b][i] = <<node[c[i]].key, node[c[i]].value>>
      BY <2>1, <3>2 DEF Main, Exact, Types
    <3>5. DOMAIN spec[b] = 1..m
      BY <3>4
    <3>6. Chain(b)[m] = NULL
      <4>1. m \in 0..Cardinality(Addresses) /\ ~(m + 1 <= m)
        BY <3>3
      <4> QED
        BY <3>3, <4>1 DEF Nth
    <3>7. ASSUME NEW i \in 1..m PROVE Chain(b)[i - 1] = c[i] /\ c[i] \in allocated
      <4>1. i - 1 \in 0..Cardinality(Addresses) /\ (i - 1) + 1 = i /\ i <= m
        BY <3>3
      <4>2. Chain(b)[i - 1] = c[i]
        BY <3>3, <4>1 DEF Nth
      <4> QED
        BY <3>2, <4>2, LinkedFree DEF Main
    <3> QED
      BY <3>4, <3>5, <3>6, <3>7
  <2> QED
    BY <2>1, <2>2 DEF MapExact
<1> QED
  BY <1>1, Invariance, PTL

\* hashmap.c: get answers what the map held when it read the head of the bucket.
THEOREM GetsRight == Spec => []GetRight
<1>1. IInv => GetRight
  BY DEF IInv, ResInv, GetRight, Getting
<1> QED
  BY <1>1, Invariance, PTL

=============================================================================
