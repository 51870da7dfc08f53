---------------------------- MODULE SwapListProofs ----------------------------
(***************************************************************************)
(* The list of lab2/src/3 stays whole, and every walk along it sees every  *)
(* node, for any length of the list, any threads and either kind of lock.  *)
(*                                                                         *)
(* The proof follows the order of the nodes as it will be when the         *)
(* exchanges under way are complete: an order changes in one step of an    *)
(* exchange, the one that writes prev->next, and there by swapping two     *)
(* neighbours.  The pointers agree with the order except in the nodes that *)
(* an exchange has still to write, and these are locked.  What a thread    *)
(* knows of its place in the order stays true because whoever changes the  *)
(* order holds the locks of the three nodes involved.                      *)
(***************************************************************************)
EXTENDS SwapList, FiniteSetTheorems, WellFoundedInduction, TLAPS

Types ==
  /\ nxt \in [Nodes -> Nodes \cup {NULL}]
  /\ writer \in [Nodes -> SUBSET Swappers]
  /\ readers \in [Nodes -> SUBSET Comparers]
  /\ pc \in [Threads -> SwapPCs]
  /\ \A t \in Comparers : pc[t] \in {"top", "first", "loop", "exit"}
  /\ prev \in [Threads -> Nodes]
  /\ cur \in [Threads -> Nodes]
  /\ next \in [Threads -> Nodes]
  /\ visited \in [Threads -> SUBSET Nodes]

-----------------------------------------------------------------------------
(* The locks *)

\* The nodes a swap_routine has locked.
Held(s) ==
  (IF pc[s] \in {"loop", "next", "prev", "store"} THEN {prev[s]} ELSE {})
    \cup (IF pc[s] \in {"next", "prev", "relink"} THEN {cur[s]} ELSE {})
    \cup (IF pc[s] \in {"prev", "relink", "insert"} THEN {next[s]} ELSE {})

LockInv ==
  /\ \A n \in Nodes : writer[n] = {} \/ \E s \in Swappers : writer[n] = {s} /\ readers[n] = {}
  /\ \A s \in Swappers : \A n \in Held(s) : writer[n] = {s}
  /\ \A t \in Comparers : pc[t] = "loop" => t \in readers[prev[t]]

-----------------------------------------------------------------------------
(* The order of the nodes *)

\* What an exchange has still to write.
Stale(n) ==
  \E s \in Swappers :
    \/ pc[s] = "relink" /\ n \in {cur[s], next[s]}
    \/ pc[s] = "insert" /\ n = next[s]

\* The node after the i-th of the order p.
Succ(p, i) == IF i = N THEN NULL ELSE p[i + 1]

Permutation(p) ==
  /\ p \in [Nodes -> Nodes]
  /\ p[1] = 1
  /\ \A i, j \in Nodes : p[i] = p[j] => i = j
  /\ \A n \in Nodes : \E i \in Nodes : p[i] = n

\* The pointers follow the order p.
Linked(p) == \A i \in Nodes : ~Stale(p[i]) => nxt[p[i]] = Succ(p, i)

\* An exchange has three neighbours before its first write, and two after it.
Exchanging(p) ==
  \A s \in Swappers :
    /\ pc[s] \in {"next", "prev"} =>
         \E i \in Nodes : i + 2 \in Nodes /\ p[i] = prev[s] /\ p[i + 1] = cur[s] /\ p[i + 2] = next[s]
    /\ pc[s] \in {"relink", "insert"} =>
         \E i \in Nodes : i + 1 \in Nodes /\ p[i] = next[s] /\ p[i + 1] = cur[s]
                          /\ (pc[s] = "relink" => nxt[next[s]] = Succ(p, i + 1))

\* A walk has visited the nodes up to the one it is at.
Walking(p) ==
  \A t \in Comparers : pc[t] = "loop" =>
    \E i \in Nodes : p[i] = prev[t] /\ visited[t] = {p[k] : k \in 1..i}

Order(p) == Permutation(p) /\ Linked(p) /\ Exchanging(p) /\ Walking(p)

OrderInv == \E p \in [Nodes -> Nodes] : Order(p)

-----------------------------------------------------------------------------
(* The counters *)

Claimed == {s \in Swappers : pc[s] \in {"next", "prev", "relink"}}
Pending == {s \in Swappers : pc[s] \in {"insert", "store"}}

\* swap_count and the threads yet to count their exchange never exceed the
\* exchanges made; nor will what a thread is about to store.
CountInv ==
  /\ swaps \in Nat /\ swap_count \in Nat /\ reg \in [Threads -> Nat]
  /\ swaps + Cardinality(Claimed) <= MaxSwaps
  /\ swap_count + Cardinality(Pending) <= swaps
  /\ \A t \in Threads : reg[t] <= MaxSwaps
  /\ \A s \in Swappers : pc[s] = "store" => reg[s] + Cardinality(Pending) <= swaps
  /\ swaps > 0 => swap_count > 0 \/ Pending # {}

\* The inductive invariant.
IInv == Types /\ stop \in BOOLEAN /\ LockInv /\ OrderInv /\ CountInv

-----------------------------------------------------------------------------
(* The locks are kept *)

\* The nodes of an exchange differ.
LEMMA Distinct ==
  ASSUME Types, OrderInv, NEW s \in Swappers
  PROVE  /\ pc[s] \in {"next", "prev"} => prev[s] # cur[s] /\ prev[s] # next[s] /\ cur[s] # next[s]
         /\ pc[s] \in {"relink", "insert"} => cur[s] # next[s]
<1> PICK p \in [Nodes -> Nodes] : Order(p)
  BY DEF OrderInv
<1>1. \A i, j \in Nodes : p[i] = p[j] => i = j
  BY DEF Order, Permutation
<1>2. ASSUME pc[s] \in {"next", "prev"}
      PROVE  prev[s] # cur[s] /\ prev[s] # next[s] /\ cur[s] # next[s]
  <2>1. PICK i \in Nodes : i + 2 \in Nodes /\ p[i] = prev[s] /\ p[i + 1] = cur[s] /\ p[i + 2] = next[s]
    BY <1>2 DEF Order, Exchanging
  <2>2. i + 1 \in Nodes /\ i # i + 1 /\ i # i + 2 /\ i + 1 # i + 2
    BY <2>1, NAssumption DEF Nodes
  <2> QED
    BY <1>1, <2>1, <2>2
<1>3. ASSUME pc[s] \in {"relink", "insert"}
      PROVE  cur[s] # next[s]
  <2>1. PICK i \in Nodes : i + 1 \in Nodes /\ p[i] = next[s] /\ p[i + 1] = cur[s]
    BY <1>3 DEF Order, Exchanging
  <2> QED
    BY <1>1, <2>1, NAssumption DEF Nodes
<1> QED
  BY <1>2, <1>3

\* The locks t gave up are its own and those it keeps are still its own.
LEMMA LockKeep ==
  ASSUME Types, LockInv, NEW t \in Swappers, NEW L \in SUBSET Nodes, NEW U \in SUBSET Nodes,
         \A n \in L : CanWrite(n), \A n \in U : writer[n] = {t},
         WriteLocks(t, L, U), readers' = readers,
         \A s \in Swappers \ {t} : Held(s)' = Held(s),
         Held(t)' \subseteq (Held(t) \ U) \cup L,
         Held(t)' \subseteq Nodes, \A s \in Swappers : Held(s) \subseteq Nodes,
         \A c \in Comparers : pc'[c] = pc[c] /\ prev'[c] = prev[c]
  PROVE  LockInv'
<1>0. \A n \in U : n \notin L
  BY DEF CanWrite
<1>1. /\ \A n \in L : writer'[n] = {t}
      /\ \A n \in U : writer'[n] = {}
      /\ \A n \in Nodes \ (L \cup U) : writer'[n] = writer[n]
  BY <1>0 DEF WriteLocks
<1>5. \A n \in Nodes : writer'[n] = {} \/ \E s \in Swappers : writer'[n] = {s} /\ readers'[n] = {}
  BY <1>1 DEF CanWrite, LockInv
<1>2. \A n \in Held(t)' : writer'[n] = {t}
  BY <1>1 DEF LockInv
<1>3. ASSUME NEW s \in Swappers \ {t}, NEW n \in Held(s)' PROVE writer'[n] = {s}
  <2>1. n \in Held(s) /\ n \in Nodes /\ writer[n] = {s}
    BY <1>3 DEF LockInv
  <2>2. n \notin L /\ n \notin U
    BY <2>1 DEF CanWrite
  <2> QED
    BY <1>1, <2>1, <2>2
<1>4. \A c \in Comparers : pc'[c] = "loop" => c \in readers'[prev'[c]]
  BY DEF LockInv
<1> QED
  BY <1>2, <1>3, <1>4, <1>5 DEF LockInv

\* What a swap_routine holds are nodes of the list.
LEMMA HeldNodes ==
  ASSUME Types
  PROVE  \A s \in Swappers : Held(s) \subseteq Nodes
BY DEF Types, Held, Threads

\* Only what t does to its own variables changes what a swap_routine holds.
LEMMA LockSwap ==
  ASSUME IInv, NEW t \in Swappers, SwapStep(t)
  PROVE  LockInv'
<1> USE DEF SwapPCs
<1>0. /\ Types /\ LockInv /\ OrderInv /\ t \in Threads /\ t \notin Comparers
      /\ prev[t] \in Nodes /\ cur[t] \in Nodes /\ next[t] \in Nodes
      /\ nxt[prev[t]] \in Nodes \cup {NULL} /\ Comparers \subseteq Threads
      /\ 1 \in Nodes
  BY ThreadsAssumption, NAssumption DEF IInv, Types, Threads, Nodes
<1>1. \A s \in Swappers : Held(s) \subseteq Nodes
  BY <1>0, HeldNodes
<1>2. readers' = readers
  BY DEF SwapStep, SwapBegin, SwapFirst, SwapEnd, SwapSkip, SwapLockCur, SwapLockNext, SwapPrev, SwapRelink,
         SwapInsert, SwapStore
<1>3. /\ \A s \in Threads \ {t} : pc'[s] = pc[s] /\ prev'[s] = prev[s] /\ cur'[s] = cur[s] /\ next'[s] = next[s]
  BY <1>0 DEF Types, Goto, SwapStep, SwapBegin, SwapFirst, SwapEnd, SwapSkip, SwapLockCur, SwapLockNext, SwapPrev, SwapRelink,
         SwapInsert, SwapStore
<1>4. \A s \in Swappers \ {t} : Held(s)' = Held(s)
  BY <1>3 DEF Held, Threads
<1>5. \A c \in Comparers : pc'[c] = pc[c] /\ prev'[c] = prev[c]
  BY <1>0, <1>3
<1> DEFINE Post(L, U) ==
             /\ WriteLocks(t, L, U) /\ \A n \in L : CanWrite(n)
             /\ U \subseteq Held(t)
             /\ Held(t)' \subseteq (Held(t) \ U) \cup L
<1>6. ASSUME NEW L \in SUBSET Nodes, NEW U \in SUBSET Nodes, Post(L, U)
      PROVE  LockInv'
  <2>1. \A n \in U : writer[n] = {t}
    BY <1>0, <1>6 DEF LockInv
  <2>2. Held(t)' \subseteq Nodes
    BY <1>1, <1>6
  <2> QED
    BY <1>0, <1>1, <1>2, <1>4, <1>5, <1>6, <2>1, <2>2, LockKeep
<1>7. ASSUME writer' = writer PROVE WriteLocks(t, {}, {})
  BY <1>0, <1>7 DEF WriteLocks, Types
<1>8. CASE SwapBegin(t)
  <2>1. writer' = writer /\ pc'[t] \in {"first", "exit"}
    BY <1>0, <1>8 DEF SwapBegin, Goto, Types
  <2>2. Post({}, {})
    BY <1>7, <2>1 DEF Held
  <2> QED
    BY <1>6, <2>2
<1>8a. CASE SwapFirst(t)
  <2>1. CanWrite(1) /\ WriteLocks(t, {1}, {}) /\ pc'[t] = "loop" /\ prev'[t] = 1
    BY <1>0, <1>8a DEF SwapFirst, Goto, Types
  <2>2. Post({1}, {})
    BY <2>1 DEF Held
  <2> QED
    BY <1>0, <1>6, <2>2
<1>9. CASE SwapEnd(t)
  <2>1. pc[t] = "loop" /\ WriteLocks(t, {}, {prev[t]}) /\ pc'[t] = "top"
    BY <1>0, <1>9 DEF SwapEnd, Goto, Types
  <2>2. Post({}, {prev[t]})
    BY <2>1 DEF Held
  <2> QED
    BY <1>0, <1>6, <2>2
<1>10. CASE SwapSkip(t)
  <2> DEFINE c == nxt[prev[t]]
  <2>1. pc[t] = "loop" /\ c \in Nodes /\ CanWrite(c) /\ WriteLocks(t, {c}, {prev[t]})
        /\ pc'[t] = "loop" /\ prev'[t] = c
    BY <1>0, <1>10 DEF SwapSkip, Types
  <2>2. Post({c}, {prev[t]})
    BY <2>1 DEF Held
  <2> HIDE DEF c
  <2> QED
    BY <1>0, <1>6, <2>1, <2>2
<1>11. CASE SwapLockCur(t)
  <2> DEFINE c == nxt[prev[t]]
  <2>1. pc[t] = "loop" /\ c \in Nodes /\ CanWrite(c) /\ prev'[t] = prev[t]
    BY <1>0, <1>11 DEF SwapLockCur
  <2>2. CASE nxt[c] = NULL
    <3>1. WriteLocks(t, {}, {prev[t]}) /\ pc'[t] = "top"
      BY <1>0, <1>11, <2>2 DEF SwapLockCur, Goto, Types
    <3>2. Post({}, {prev[t]})
      BY <2>1, <3>1 DEF Held
    <3> QED
      BY <1>0, <1>6, <3>2
  <2>3. CASE nxt[c] # NULL
    <3>1. WriteLocks(t, {c}, {}) /\ pc'[t] = "next" /\ cur'[t] = c
      BY <1>0, <1>11, <2>3 DEF SwapLockCur, Goto, Types
    <3>2. Post({c}, {})
      BY <2>1, <3>1 DEF Held
    <3> HIDE DEF c
    <3> QED
      BY <1>0, <1>6, <2>1, <3>2
  <2> QED
    BY <2>2, <2>3
<1>12. CASE SwapLockNext(t)
  <2>1. pc[t] = "next" /\ CanWrite(next[t]) /\ WriteLocks(t, {next[t]}, {}) /\ pc'[t] = "prev"
        /\ prev'[t] = prev[t] /\ cur'[t] = cur[t] /\ next'[t] = next[t]
    BY <1>0, <1>12 DEF SwapLockNext, Goto, Types
  <2>2. Post({next[t]}, {})
    BY <2>1 DEF Held
  <2> QED
    BY <1>0, <1>6, <2>2
<1>13. CASE SwapPrev(t)
  <2>1. pc[t] = "prev" /\ WriteLocks(t, {}, {prev[t]}) /\ pc'[t] = "relink"
        /\ cur'[t] = cur[t] /\ next'[t] = next[t]
    BY <1>0, <1>13 DEF SwapPrev, Goto, Types
  <2>2. prev[t] # cur[t] /\ prev[t] # next[t]
    BY <1>0, <2>1, Distinct
  <2>3. Post({}, {prev[t]})
    BY <2>1, <2>2 DEF Held
  <2> QED
    BY <1>0, <1>6, <2>3
<1>14. CASE SwapRelink(t)
  <2>1. pc[t] = "relink" /\ WriteLocks(t, {}, {cur[t]}) /\ pc'[t] = "insert" /\ next'[t] = next[t]
    BY <1>0, <1>14 DEF SwapRelink, Goto, Types
  <2>2. cur[t] # next[t]
    BY <1>0, <2>1, Distinct
  <2>3. Post({}, {cur[t]})
    BY <2>1, <2>2 DEF Held
  <2> QED
    BY <1>0, <1>6, <2>3
<1>15. CASE SwapInsert(t)
  <2>1. pc[t] = "insert" /\ writer' = writer /\ pc'[t] = "store" /\ prev'[t] = next[t]
    BY <1>0, <1>15 DEF SwapInsert, Goto, Types
  <2>2. Post({}, {})
    BY <1>7, <2>1 DEF Held
  <2> QED
    BY <1>6, <2>2
<1>16. CASE SwapStore(t)
  <2>1. pc[t] = "store" /\ writer' = writer /\ pc'[t] = "loop" /\ prev'[t] = prev[t]
    BY <1>0, <1>16 DEF SwapStore, Goto, Types
  <2>2. Post({}, {})
    BY <1>7, <2>1 DEF Held
  <2> QED
    BY <1>6, <2>2
<1> QED
  BY <1>8, <1>8a, <1>9, <1>10, <1>11, <1>12, <1>13, <1>14, <1>15, <1>16 DEF SwapStep

\* A compare_routine locks no node that a swap_routine holds, and none for writing.
LEMMA LockCompare ==
  ASSUME IInv, NEW t \in Comparers, CompareStep(t)
  PROVE  LockInv'
<1>0. /\ Types /\ LockInv /\ t \in Threads /\ t \notin Swappers
      /\ prev[t] \in Nodes /\ nxt[prev[t]] \in Nodes \cup {NULL}
      /\ Swappers \subseteq Threads /\ Comparers \subseteq Threads /\ 1 \in Nodes
  BY ThreadsAssumption, NAssumption DEF IInv, Types, Threads, Nodes
<1>1. /\ writer' = writer
      /\ \A s \in Threads \ {t} : pc'[s] = pc[s] /\ prev'[s] = prev[s]
      /\ cur' = cur /\ next' = next
  BY <1>0 DEF CompareStep, CompareBegin, CompareFirst, ComparePair, CompareEnd, Goto, Types
<1>2. \A s \in Swappers : Held(s)' = Held(s)
  BY <1>0, <1>1 DEF Held
<1> DEFINE Post ==
             /\ \A n \in Nodes : readers'[n] \ {t} = readers[n] \ {t}
             /\ \A n \in Nodes : t \in readers'[n] /\ t \notin readers[n] => writer[n] = {}
             /\ pc'[t] = "loop" => t \in readers'[prev'[t]]
<1>3. ASSUME Post PROVE LockInv'
  <2>1. \A n \in Nodes : writer'[n] = {} \/ \E s \in Swappers : writer'[n] = {s} /\ readers'[n] = {}
    BY <1>0, <1>1, <1>3 DEF LockInv
  <2>2. \A s \in Swappers : \A n \in Held(s)' : writer'[n] = {s}
    BY <1>0, <1>1, <1>2 DEF LockInv
  <2>3. \A c \in Comparers : prev[c] \in Nodes
    BY <1>0 DEF Types
  <2>4. \A c \in Comparers : pc'[c] = "loop" => c \in readers'[prev'[c]]
    BY <1>0, <1>1, <1>3, <2>3 DEF LockInv
  <2> QED
    BY <2>1, <2>2, <2>4 DEF LockInv
<1> HIDE DEF Post
<1>4. CASE CompareBegin(t)
  BY <1>0, <1>3, <1>4 DEF CompareBegin, Goto, Types, Post
<1>4a. CASE CompareFirst(t)
  <2>1. CanRead(1) /\ ReadLocks(t, {1}, {}) /\ prev'[t] = 1
    BY <1>0, <1>4a DEF CompareFirst, Types
  <2>2. Post
    BY <1>0, <2>1 DEF ReadLocks, CanRead, Post
  <2> QED
    BY <1>3, <2>2
<1>5. CASE ComparePair(t)
  <2>1. nxt[prev[t]] \in Nodes /\ CanRead(nxt[prev[t]]) /\ ReadLocks(t, {nxt[prev[t]]}, {prev[t]})
        /\ prev'[t] = nxt[prev[t]]
    BY <1>0, <1>5 DEF ComparePair, Types
  <2>2. Post
    BY <1>0, <2>1 DEF ReadLocks, CanRead, Post
  <2> QED
    BY <1>3, <2>2
<1>6. CASE CompareEnd(t)
  <2>1. ReadLocks(t, {}, {prev[t]}) /\ pc'[t] = "top"
    BY <1>0, <1>6 DEF CompareEnd, Goto, Types
  <2>2. Post
    BY <1>0, <2>1 DEF ReadLocks, Post
  <2> QED
    BY <1>3, <2>2
<1> QED
  BY <1>4, <1>4a, <1>5, <1>6 DEF CompareStep

-----------------------------------------------------------------------------
(* The order is kept *)

\* A node that an exchange has still to write is locked by it.
LEMMA StaleHeld ==
  ASSUME LockInv, NEW n
  PROVE  Stale(n) => \E s \in Swappers : writer[n] = {s} /\ pc[s] \in {"relink", "insert"} /\ n \in Held(s)
BY DEF Stale, Held, LockInv

\* The place of a node that is not to be written, and what follows it.
LEMMA Place ==
  ASSUME Types, NEW p \in [Nodes -> Nodes], Permutation(p), Linked(p), NEW i \in Nodes, ~Stale(p[i])
  PROVE  /\ nxt[p[i]] = NULL => i = N
         /\ nxt[p[i]] # NULL => i + 1 \in Nodes /\ nxt[p[i]] = p[i + 1]
<1>1. nxt[p[i]] = Succ(p, i)
  BY DEF Linked
<1>2. i # N => i + 1 \in Nodes /\ p[i + 1] # NULL
  BY NAssumption DEF Nodes, NULL
<1> QED
  BY <1>1, <1>2 DEF Succ

\* Whoever neither writes a pointer nor is in the middle of an exchange keeps
\* the order of the nodes.
LEMMA QuietSwap ==
  ASSUME Types, NEW p \in [Nodes -> Nodes], Order(p), NEW t \in Swappers, nxt' = nxt,
         \A u \in Threads \ {t} : /\ pc'[u] = pc[u] /\ prev'[u] = prev[u] /\ cur'[u] = cur[u]
                                  /\ next'[u] = next[u],
         visited' = visited,
         pc[t] \notin {"relink", "insert"}, pc'[t] \notin {"relink", "insert"},
         pc'[t] \in {"next", "prev"} =>
           \E i \in Nodes : i + 2 \in Nodes /\ p[i] = prev'[t] /\ p[i + 1] = cur'[t] /\ p[i + 2] = next'[t]
  PROVE  Order(p)'
<1>0. t \in Threads /\ t \notin Comparers /\ Swappers \subseteq Threads /\ Comparers \subseteq Threads
  BY ThreadsAssumption DEF Threads
<1>1. Permutation(p)'
  BY DEF Order, Permutation
<1>2. \A n : Stale(n)' <=> Stale(n)
  BY <1>0 DEF Stale
<1>3. Linked(p)'
  BY <1>2 DEF Order, Linked, Succ
<1>4. Exchanging(p)'
  BY <1>0 DEF Order, Exchanging, Succ
<1>5. Walking(p)'
  BY <1>0 DEF Order, Walking
<1> QED
  BY <1>1, <1>3, <1>4, <1>5 DEF Order

\* Three places in a row.
LEMMA Places ==
  ASSUME NEW i \in Nodes, i + 2 \in Nodes
  PROVE  i + 1 \in Nodes /\ i + 1 # 1 /\ i + 2 # 1 /\ i + 1 # i + 2 /\ i # i + 1 /\ i # i + 2 /\ 1 \in Nodes
BY NAssumption DEF Nodes

\* SwapPrev: the order with the two nodes behind the i-th exchanged.
LEMMA Transposed ==
  ASSUME NEW p \in [Nodes -> Nodes], Permutation(p), NEW i \in Nodes, i + 2 \in Nodes,
         NEW q \in [Nodes -> Nodes], q[i + 1] = p[i + 2], q[i + 2] = p[i + 1],
         \A k \in Nodes : k # i + 1 /\ k # i + 2 => q[k] = p[k]
  PROVE  /\ Permutation(q)
         /\ \A k \in Nodes : k < i \/ k > i + 2 => {q[m] : m \in 1..k} = {p[m] : m \in 1..k}
<1>1. i + 1 \in Nodes /\ i + 1 # 1 /\ i + 2 # 1 /\ i + 1 # i + 2 /\ 1 \in Nodes
  BY Places
<1>4. q[1] = 1
  BY <1>1 DEF Permutation
<1>5. \A j, k \in Nodes : q[j] = q[k] => j = k
  BY <1>1 DEF Permutation
<1>6. ASSUME NEW n \in Nodes PROVE \E j \in Nodes : q[j] = n
  <2>1. PICK l \in Nodes : p[l] = n
    BY DEF Permutation
  <2>2. CASE l = i + 1
    BY <2>1, <2>2
  <2>3. CASE l = i + 2
    BY <1>1, <2>1, <2>3
  <2>4. CASE l # i + 1 /\ l # i + 2
    BY <2>1, <2>4
  <2> QED
    BY <2>2, <2>3, <2>4
<1>7. ASSUME NEW k \in Nodes, k < i \/ k > i + 2
      PROVE  {q[m] : m \in 1..k} = {p[m] : m \in 1..k}
  <2>1. k \in Int /\ i \in Int /\ 1..k \subseteq Nodes
    BY NAssumption DEF Nodes
  <2> DEFINE K == 1..k
  <2>2. \A m \in K : \E l \in K : q[m] = p[l]
    <3>1. CASE k < i
      BY <2>1, <3>1
    <3>2. CASE k > i + 2
      BY <1>1, <2>1, <3>2 DEF Nodes
    <3> QED
      BY <1>7, <3>1, <3>2
  <2>3. \A m \in K : \E l \in K : p[m] = q[l]
    <3>1. CASE k < i
      BY <2>1, <3>1
    <3>2. CASE k > i + 2
      BY <1>1, <2>1, <3>2 DEF Nodes
    <3> QED
      BY <1>7, <3>1, <3>2
  <2> HIDE DEF K
  <2>4. {q[m] : m \in K} = {p[m] : m \in K}
    BY <2>2, <2>3
  <2> QED
    BY <2>4 DEF K
<1>8. Permutation(q)
  BY <1>4, <1>5, <1>6 DEF Permutation
<1> QED
  BY <1>7, <1>8

\* The step of an exchange that changes the order.
LEMMA PrevOrder ==
  ASSUME IInv, NEW t \in Swappers, SwapPrev(t)
  PROVE  OrderInv'
<1>0. /\ Types /\ LockInv /\ OrderInv /\ t \in Threads /\ t \notin Comparers
      /\ Swappers \subseteq Threads /\ Comparers \subseteq Threads
      /\ prev[t] \in Nodes /\ cur[t] \in Nodes /\ next[t] \in Nodes
  BY ThreadsAssumption DEF IInv, Types, Threads
<1>1. /\ pc[t] = "prev" /\ pc'[t] = "relink" /\ \A u \in Threads \ {t} : pc'[u] = pc[u]
      /\ nxt' = [nxt EXCEPT ![prev[t]] = next[t]]
      /\ prev' = prev /\ cur' = cur /\ next' = next /\ visited' = visited
  BY <1>0 DEF SwapPrev, Goto, Types
<1> PICK p \in [Nodes -> Nodes] : Order(p)
  BY <1>0 DEF OrderInv
<1>2. Permutation(p) /\ Linked(p) /\ Exchanging(p) /\ Walking(p)
  BY DEF Order
<1>3. PICK i \in Nodes : i + 2 \in Nodes /\ p[i] = prev[t] /\ p[i + 1] = cur[t] /\ p[i + 2] = next[t]
  BY <1>1, <1>2 DEF Exchanging
<1>4. i + 1 \in Nodes /\ i + 1 # 1 /\ i + 2 # 1 /\ i + 1 # i + 2 /\ i # i + 1 /\ i # i + 2
  BY <1>3, Places
<1>5. \A j, k \in Nodes : p[j] = p[k] => j = k
  BY <1>2 DEF Permutation
<1>6. PICK q \in [Nodes -> Nodes] :
             /\ q[i + 1] = p[i + 2] /\ q[i + 2] = p[i + 1]
             /\ \A k \in Nodes : k # i + 1 /\ k # i + 2 => q[k] = p[k]
  <2> DEFINE f == [k \in Nodes |-> IF k = i + 1 THEN p[i + 2] ELSE IF k = i + 2 THEN p[i + 1] ELSE p[k]]
  <2>1. f \in [Nodes -> Nodes]
    BY <1>3, <1>4
  <2>2. /\ f[i + 1] = p[i + 2] /\ f[i + 2] = p[i + 1]
        /\ \A k \in Nodes : k # i + 1 /\ k # i + 2 => f[k] = p[k]
    BY <1>3, <1>4
  <2> HIDE DEF f
  <2> QED
    BY <2>1, <2>2
<1>7. /\ Permutation(q)
      /\ \A k \in Nodes : k < i \/ k > i + 2 => {q[m] : m \in 1..k} = {p[m] : m \in 1..k}
  BY <1>2, <1>3, <1>6, Transposed, SMTT(20)
\* The three places are those of t: nobody else has a lock there.
<1>8. \A k \in {i, i + 1, i + 2} : writer[p[k]] = {t}
  BY <1>0, <1>1, <1>3 DEF LockInv, Held
<1>9. \A k \in {i, i + 1, i + 2} : readers[p[k]] = {}
  <2>1. \A k \in {i, i + 1, i + 2} : p[k] \in Nodes
    BY <1>3, <1>4
  <2> QED
    BY <1>0, <1>8, <2>1 DEF LockInv
<1>10. \A k \in Nodes : k \notin {i, i + 1, i + 2} => k + 1 \notin {i + 1, i + 2}
  BY NAssumption DEF Nodes
<1>11. \A k \in Nodes : k \notin {i, i + 1} => Succ(q, k) = Succ(p, k)
  <2>1. \A k \in Nodes : k # N => k + 1 \in Nodes
    BY NAssumption DEF Nodes
  <2>2. \A k \in Nodes : k \notin {i, i + 1} => k + 1 # i + 1 /\ k + 1 # i + 2
    BY NAssumption DEF Nodes
  <2> QED
    BY <1>6, <2>1, <2>2 DEF Succ
<1>12. \A n \in Nodes : n # prev[t] => nxt'[n] = nxt[n]
  BY <1>0, <1>1 DEF Types
<1>13. Linked(q)'
  <2> SUFFICES ASSUME NEW k \in Nodes, ~Stale(q[k])' PROVE nxt'[q[k]] = Succ(q, k)
    BY DEF Linked, Succ
  <2>1. CASE k = i
    <3>1. i # N /\ q[i] = prev[t] /\ q[i + 1] = next[t]
      BY <1>3, <1>4, <1>6, NAssumption DEF Nodes
    <3> QED
      BY <1>0, <1>1, <2>1, <3>1 DEF Succ, Types
  <2>2. CASE k = i + 1
    <3>1. q[k] = next[t]
      BY <1>3, <1>6, <2>2
    <3> QED
      BY <1>1, <3>1 DEF Stale
  <2>3. CASE k = i + 2
    <3>1. q[k] = cur[t]
      BY <1>3, <1>6, <2>3
    <3> QED
      BY <1>1, <3>1 DEF Stale
  <2>4. CASE k \notin {i, i + 1, i + 2}
    <3>1. q[k] = p[k] /\ p[k] # prev[t]
      BY <1>3, <1>5, <1>6, <2>4
    <3>2. ~Stale(p[k])
      <4>1. ~Stale(p[k])'
        BY <3>1
      <4> QED
        BY <1>0, <1>1, <4>1 DEF Stale
    <3> QED
      BY <1>2, <1>11, <1>12, <2>4, <3>1, <3>2 DEF Linked
  <2> QED
    BY <2>1, <2>2, <2>3, <2>4
<1>14. ASSUME NEW s \in Swappers \ {t}, NEW k \in Nodes, p[k] \in Held(s)
       PROVE  k \notin {i, i + 1, i + 2} /\ q[k] = p[k] /\ (k + 1 \in Nodes => q[k + 1] = p[k + 1])
  <2>1. k \notin {i, i + 1, i + 2}
    BY <1>0, <1>8, <1>14 DEF LockInv
  <2> QED
    BY <1>6, <1>10, <2>1
<1>15. ASSUME NEW s \in Swappers, pc'[s] \in {"next", "prev"}
       PROVE  \E j \in Nodes : j + 2 \in Nodes /\ q[j] = prev'[s] /\ q[j + 1] = cur'[s] /\ q[j + 2] = next'[s]
  <2>1. s # t /\ pc[s] \in {"next", "prev"}
    BY <1>0, <1>1, <1>15
  <2>2. PICK j \in Nodes : j + 2 \in Nodes /\ p[j] = prev[s] /\ p[j + 1] = cur[s] /\ p[j + 2] = next[s]
    BY <1>2, <2>1 DEF Exchanging
  <2>3. j + 1 \in Nodes /\ (j + 1) + 1 = j + 2
    BY <2>2, NAssumption DEF Nodes
  <2>4. p[j] \in Held(s) /\ p[j + 1] \in Held(s)
    BY <2>1, <2>2 DEF Held
  <2>5. q[j] = p[j] /\ q[j + 1] = p[j + 1]
    BY <1>14, <2>1, <2>3, <2>4
  <2>6. q[j + 2] = p[j + 2]
    BY <1>14, <2>1, <2>2, <2>3, <2>4
  <2> QED
    BY <1>1, <2>2, <2>5, <2>6
<1>16. ASSUME NEW s \in Swappers, pc'[s] \in {"relink", "insert"}
       PROVE  \E j \in Nodes : j + 1 \in Nodes /\ q[j] = next'[s] /\ q[j + 1] = cur'[s]
                               /\ (pc'[s] = "relink" => nxt'[next'[s]] = Succ(q, j + 1))
  <2>1. CASE s = t
    <3>1. (i + 1) + 1 = i + 2
      BY DEF Nodes
    <3>2. ~Stale(p[i + 2])
      BY <1>0, <1>1, <1>8, StaleHeld
    <3>3. nxt[next[t]] = Succ(p, i + 2) /\ next[t] # prev[t]
      BY <1>2, <1>3, <1>4, <1>5, <3>2 DEF Linked
    <3>4. nxt'[next[t]] = Succ(q, i + 2)
      BY <1>0, <1>3, <1>4, <1>11, <1>12, <3>3
    <3> QED
      BY <1>1, <1>3, <1>4, <1>6, <2>1, <3>1, <3>4
  <2>2. CASE s # t
    <3>1. pc[s] = pc'[s]
      BY <1>0, <1>1, <2>2
    <3>2. PICK j \in Nodes : j + 1 \in Nodes /\ p[j] = next[s] /\ p[j + 1] = cur[s]
                             /\ (pc[s] = "relink" => nxt[next[s]] = Succ(p, j + 1))
      BY <1>2, <1>16, <3>1 DEF Exchanging
    <3>3. p[j] \in Held(s)
      BY <1>16, <3>1, <3>2 DEF Held
    <3>4. j \notin {i, i + 1, i + 2} /\ q[j] = p[j] /\ q[j + 1] = p[j + 1]
      BY <1>14, <2>2, <3>2, <3>3
    <3>5. ASSUME pc[s] = "relink" PROVE nxt'[next[s]] = Succ(q, j + 1)
      <4>1. p[j + 1] \in Held(s)
        BY <3>2, <3>5 DEF Held
      <4>2. j + 1 \notin {i, i + 1, i + 2}
        BY <1>14, <2>2, <3>2, <4>1
      <4>3. next[s] # prev[t] /\ next[s] \in Nodes
        BY <1>3, <1>5, <3>2, <3>4
      <4> QED
        BY <1>11, <1>12, <3>2, <3>5, <4>2, <4>3
    <3> QED
      BY <1>1, <3>1, <3>2, <3>4, <3>5
  <2> QED
    BY <2>1, <2>2
<1>17. ASSUME NEW c \in Comparers, pc'[c] = "loop"
       PROVE  \E j \in Nodes : q[j] = prev'[c] /\ visited'[c] = {q[m] : m \in 1..j}
  <2>1. pc[c] = "loop"
    BY <1>0, <1>1, <1>17
  <2>2. PICK j \in Nodes : p[j] = prev[c] /\ visited[c] = {p[m] : m \in 1..j}
    BY <1>2, <2>1 DEF Walking
  <2>3. c \in readers[p[j]]
    BY <1>0, <2>1, <2>2 DEF LockInv
  <2>4. j \notin {i, i + 1, i + 2}
    BY <1>9, <2>3
  <2>5. j < i \/ j > i + 2
    BY <2>4, NAssumption DEF Nodes
  <2> QED
    BY <1>1, <1>6, <1>7, <2>2, <2>4, <2>5
<1>18. Exchanging(q)'
  BY <1>15, <1>16 DEF Exchanging, Succ
<1>19. Walking(q)'
  BY <1>17 DEF Walking
<1>20. Order(q)'
  BY <1>7, <1>13, <1>18, <1>19 DEF Order, Permutation
<1> QED
  BY <1>20 DEF OrderInv

\* The other two writes of an exchange bring the pointers in line with it.
LEMMA RelinkOrder ==
  ASSUME IInv, NEW t \in Swappers, SwapRelink(t) \/ SwapInsert(t)
  PROVE  OrderInv'
<1>0. /\ Types /\ LockInv /\ OrderInv /\ t \in Threads /\ t \notin Comparers
      /\ Swappers \subseteq Threads /\ Comparers \subseteq Threads
      /\ cur[t] \in Nodes /\ next[t] \in Nodes
  BY ThreadsAssumption DEF IInv, Types, Threads
<1> DEFINE n == IF pc[t] = "relink" THEN cur[t] ELSE next[t]
           v == IF pc[t] = "relink" THEN nxt[next[t]] ELSE cur[t]
<1>1. /\ \/ pc[t] = "relink" /\ pc'[t] = "insert"
         \/ pc[t] = "insert" /\ pc'[t] = "store"
      /\ \A u \in Threads \ {t} : pc'[u] = pc[u] /\ prev'[u] = prev[u]
      /\ nxt' = [nxt EXCEPT ![n] = v]
      /\ cur' = cur /\ next' = next /\ visited' = visited
  <2>1. CASE SwapRelink(t)
    BY <1>0, <2>1 DEF SwapRelink, Goto, Types
  <2>2. CASE SwapInsert(t)
    BY <1>0, <2>2 DEF SwapInsert, Goto, Types
  <2> QED
    BY <2>1, <2>2
<1> PICK p \in [Nodes -> Nodes] : Order(p)
  BY <1>0 DEF OrderInv
<1>2. Permutation(p) /\ Linked(p) /\ Exchanging(p) /\ Walking(p)
  BY DEF Order
<1>3. PICK i \in Nodes : i + 1 \in Nodes /\ p[i] = next[t] /\ p[i + 1] = cur[t]
                         /\ (pc[t] = "relink" => nxt[next[t]] = Succ(p, i + 1))
  BY <1>1, <1>2 DEF Exchanging
<1>4. n \in Nodes /\ n \in Held(t) /\ writer[n] = {t}
  BY <1>0, <1>1 DEF LockInv, Held
<1>5. \A k \in Nodes : p[k] = n => v = Succ(p, k)
  <2>1. \A j, k \in Nodes : p[j] = p[k] => j = k
    BY <1>2 DEF Permutation
  <2>2. i # N
    BY <1>3, NAssumption DEF Nodes
  <2> QED
    BY <1>1, <1>3, <2>1, <2>2 DEF Succ
<1>6. nxt'[n] = v /\ \A m \in Nodes : m # n => nxt'[m] = nxt[m]
  BY <1>0, <1>1, <1>4 DEF Types
<1>7. \A m \in Nodes : m # n => (Stale(m)' <=> Stale(m))
  BY <1>0, <1>1 DEF Stale
<1> HIDE DEF n, v
<1>8. Linked(p)'
  <2> SUFFICES ASSUME NEW k \in Nodes, ~Stale(p[k])' PROVE nxt'[p[k]] = Succ(p, k)
    BY DEF Linked, Succ
  <2>1. CASE p[k] = n
    BY <1>5, <1>6, <2>1
  <2>2. CASE p[k] # n
    <3>1. p[k] \in Nodes /\ ~Stale(p[k])
      BY <1>7, <2>2
    <3> QED
      BY <1>2, <1>6, <2>2, <3>1 DEF Linked
  <2> QED
    BY <2>1, <2>2
<1>9. ASSUME NEW s \in Swappers, pc'[s] \in {"next", "prev"}
      PROVE  \E j \in Nodes : j + 2 \in Nodes /\ p[j] = prev'[s] /\ p[j + 1] = cur'[s] /\ p[j + 2] = next'[s]
  BY <1>0, <1>1, <1>2, <1>9 DEF Exchanging
<1>10. ASSUME NEW s \in Swappers, pc'[s] \in {"relink", "insert"}
       PROVE  \E j \in Nodes : j + 1 \in Nodes /\ p[j] = next'[s] /\ p[j + 1] = cur'[s]
                               /\ (pc'[s] = "relink" => nxt'[next'[s]] = Succ(p, j + 1))
  <2>1. CASE s = t
    BY <1>1, <1>3, <1>10, <2>1
  <2>2. CASE s # t
    <3>1. pc[s] = pc'[s]
      BY <1>0, <1>1, <2>2
    <3>2. next[s] # n /\ next[s] \in Nodes
      <4>1. next[s] \in Held(s) /\ next[s] \in Nodes
        BY <1>0, <1>10, <3>1 DEF Held, Types
      <4>2. writer[next[s]] = {s}
        BY <1>0, <4>1 DEF LockInv
      <4> QED
        BY <1>4, <2>2, <4>1, <4>2
    <3>3. PICK j \in Nodes : j + 1 \in Nodes /\ p[j] = next[s] /\ p[j + 1] = cur[s]
                             /\ (pc[s] = "relink" => nxt[next[s]] = Succ(p, j + 1))
      BY <1>2, <1>10, <3>1 DEF Exchanging
    <3> QED
      BY <1>1, <1>6, <3>1, <3>2, <3>3
  <2> QED
    BY <2>1, <2>2
<1>11. Exchanging(p)'
  BY <1>9, <1>10 DEF Exchanging, Succ
<1>12. Walking(p)'
  BY <1>0, <1>1, <1>2 DEF Walking
<1>13. Order(p)'
  BY <1>2, <1>8, <1>11, <1>12 DEF Order, Permutation
<1> QED
  BY <1>13 DEF OrderInv

\* Every step of a swap_routine leaves an order of the nodes that the pointers follow.
LEMMA OrderSwap ==
  ASSUME IInv, NEW t \in Swappers, SwapStep(t)
  PROVE  OrderInv'
<1>0. /\ Types /\ LockInv /\ OrderInv /\ t \in Threads
  BY DEF IInv, Threads
<1>1. CASE SwapPrev(t)
  BY <1>1, PrevOrder
<1>2. CASE SwapRelink(t) \/ SwapInsert(t)
  BY <1>2, RelinkOrder
<1>3. CASE SwapBegin(t) \/ SwapFirst(t) \/ SwapEnd(t) \/ SwapSkip(t) \/ SwapLockCur(t) \/ SwapLockNext(t) \/ SwapStore(t)
  <2> PICK p \in [Nodes -> Nodes] : Order(p)
    BY <1>0 DEF OrderInv
  <2>1. /\ nxt' = nxt /\ visited' = visited
        /\ \A u \in Threads \ {t} : /\ pc'[u] = pc[u] /\ prev'[u] = prev[u] /\ cur'[u] = cur[u]
                                    /\ next'[u] = next[u]
        /\ pc[t] \notin {"relink", "insert"} /\ pc'[t] \notin {"relink", "insert"}
    BY <1>0, <1>3 DEF SwapBegin, SwapFirst, SwapEnd, SwapSkip, SwapLockCur, SwapLockNext, SwapStore, Goto, Types
  <2>2. ASSUME pc'[t] \in {"next", "prev"}
        PROVE  \E i \in Nodes : i + 2 \in Nodes /\ p[i] = prev'[t] /\ p[i + 1] = cur'[t] /\ p[i + 2] = next'[t]
    <3>1. CASE SwapLockNext(t)
      BY <1>0, <2>2, <3>1 DEF SwapLockNext, Order, Exchanging
    <3>2. CASE SwapLockCur(t)
      <4> DEFINE c == nxt[prev[t]]
      <4>1. /\ pc[t] = "loop" /\ c # NULL /\ CanWrite(c) /\ nxt[c] # NULL
            /\ prev'[t] = prev[t] /\ cur'[t] = c /\ next'[t] = nxt[c]
        BY <1>0, <2>2, <3>2 DEF SwapLockCur, Goto, Types
      <4>2. prev[t] \in Nodes
        BY <1>0 DEF Types
      <4>3. PICK i \in Nodes : p[i] = prev[t]
        BY <4>2 DEF Order, Permutation
      <4>4. writer[prev[t]] = {t} /\ writer[c] = {}
        BY <1>0, <4>1 DEF LockInv, Held, CanWrite
      <4>5. ~Stale(p[i]) /\ ~Stale(c)
        BY <1>0, <4>1, <4>3, <4>4, StaleHeld
      <4>6. i + 1 \in Nodes /\ c = p[i + 1]
        BY <1>0, <4>1, <4>3, <4>5, Place DEF Order
      <4>7. (i + 1) + 1 \in Nodes /\ nxt[c] = p[(i + 1) + 1]
        BY <1>0, <4>1, <4>5, <4>6, Place DEF Order
      <4>8. (i + 1) + 1 = i + 2
        BY NAssumption DEF Nodes
      <4> QED
        BY <4>1, <4>3, <4>6, <4>7, <4>8
    <3>3. CASE SwapBegin(t) \/ SwapFirst(t) \/ SwapEnd(t) \/ SwapSkip(t) \/ SwapStore(t)
      BY <1>0, <2>2, <3>3 DEF SwapBegin, SwapFirst, SwapEnd, SwapSkip, SwapStore, Goto, Types
    <3> QED
      BY <1>3, <3>1, <3>2, <3>3
  <2>3. Order(p)'
    BY <1>0, <2>1, <2>2, QuietSwap
  <2> QED
    BY <2>3 DEF OrderInv
<1> QED
  BY <1>1, <1>2, <1>3 DEF SwapStep

\* Where a walk is, and what it reads there.
LEMMA WalkPlace ==
  ASSUME IInv, NEW t \in Comparers, pc[t] = "loop", NEW p \in [Nodes -> Nodes], Order(p)
  PROVE  \E i \in Nodes :
           /\ p[i] = prev[t] /\ visited[t] = {p[k] : k \in 1..i}
           /\ nxt[prev[t]] = NULL => i = N
           /\ nxt[prev[t]] # NULL => i + 1 \in Nodes /\ nxt[prev[t]] = p[i + 1]
<1>1. PICK i \in Nodes : p[i] = prev[t] /\ visited[t] = {p[k] : k \in 1..i}
  BY DEF Order, Walking
<1>2. p[i] \in Nodes /\ t \in readers[p[i]]
  BY <1>1 DEF IInv, LockInv
<1>3. ~Stale(p[i])
  <2>1. writer[p[i]] = {}
    BY <1>2 DEF IInv, LockInv
  <2> QED
    BY <2>1, StaleHeld DEF IInv
<1>4. /\ nxt[p[i]] = NULL => i = N
      /\ nxt[p[i]] # NULL => i + 1 \in Nodes /\ nxt[p[i]] = p[i + 1]
  BY <1>3, Place DEF IInv, Order
<1> QED
  BY <1>1, <1>4

\* A compare_routine changes no pointer: the order stays, and its pass moves on in it.
LEMMA OrderCompare ==
  ASSUME IInv, NEW t \in Comparers, CompareStep(t)
  PROVE  OrderInv'
<1>0. /\ Types /\ LockInv /\ OrderInv /\ t \in Threads /\ t \notin Swappers
      /\ Swappers \subseteq Threads /\ Comparers \subseteq Threads /\ 1 \in Nodes
  BY ThreadsAssumption, NAssumption DEF IInv, Threads, Nodes
<1> PICK p \in [Nodes -> Nodes] : Order(p)
  BY <1>0 DEF OrderInv
<1>1. Permutation(p) /\ Linked(p) /\ Exchanging(p) /\ Walking(p)
  BY DEF Order
<1>2. /\ nxt' = nxt /\ cur' = cur /\ next' = next
      /\ \A u \in Threads \ {t} : pc'[u] = pc[u] /\ prev'[u] = prev[u] /\ visited'[u] = visited[u]
  BY <1>0 DEF CompareStep, CompareBegin, CompareFirst, ComparePair, CompareEnd, Goto, Types
<1>3. \A n : Stale(n)' <=> Stale(n)
  BY <1>0, <1>2 DEF Stale
<1>4. Linked(p)'
  BY <1>1, <1>2, <1>3 DEF Linked, Succ
<1>5. Exchanging(p)'
  BY <1>0, <1>1, <1>2 DEF Exchanging, Succ
<1>6. ASSUME pc'[t] = "loop"
      PROVE  \E i \in Nodes : p[i] = prev'[t] /\ visited'[t] = {p[k] : k \in 1..i}
  <2>0. CASE CompareBegin(t)
    BY <1>0, <1>6, <2>0 DEF CompareBegin, Goto, Types
  <2>1. CASE CompareFirst(t)
    <3>1. prev'[t] = 1 /\ visited'[t] = {1}
      BY <1>0, <1>6, <2>1 DEF CompareFirst, Goto, Types
    <3>2. p[1] = 1 /\ {p[k] : k \in 1..1} = {1}
      BY <1>1 DEF Permutation
    <3> QED
      BY <1>0, <3>1, <3>2
  <2>2. CASE ComparePair(t)
    <3>1. /\ pc[t] = "loop" /\ nxt[prev[t]] # NULL /\ prev'[t] = nxt[prev[t]]
          /\ visited'[t] = visited[t] \cup {nxt[prev[t]]}
      BY <1>0, <2>2 DEF ComparePair, Types
    <3>2. PICK i \in Nodes : /\ p[i] = prev[t] /\ visited[t] = {p[k] : k \in 1..i}
                             /\ i + 1 \in Nodes /\ nxt[prev[t]] = p[i + 1]
      BY <3>1, WalkPlace
    <3>3. {p[k] : k \in 1..(i + 1)} = {p[k] : k \in 1..i} \cup {p[i + 1]}
      <4> DEFINE K == 1..i
                 L == 1..(i + 1)
                 m == i + 1
      <4>1. L = K \cup {m}
        BY NAssumption DEF Nodes
      <4> HIDE DEF K, L, m
      <4>2. {p[k] : k \in L} = {p[k] : k \in K} \cup {p[m]}
        BY <4>1
      <4> QED
        BY <4>2 DEF K, L, m
    <3> QED
      BY <3>1, <3>2, <3>3
  <2>3. CASE CompareEnd(t)
    BY <1>0, <1>6, <2>3 DEF CompareEnd, Goto, Types
  <2> QED
    BY <2>0, <2>1, <2>2, <2>3 DEF CompareStep
<1>7. Walking(p)'
  BY <1>0, <1>1, <1>2, <1>6 DEF Walking
<1>8. Order(p)'
  BY <1>1, <1>4, <1>5, <1>7 DEF Order, Permutation
<1> QED
  BY <1>8 DEF OrderInv

-----------------------------------------------------------------------------
(* The counters and the types are kept *)

\* The threads with an exchange to count are finitely many.
LEMMA CountSets ==
  /\ IsFiniteSet(Claimed) /\ Cardinality(Claimed) \in Nat
  /\ IsFiniteSet(Pending) /\ Cardinality(Pending) \in Nat
<1>1. Claimed \subseteq Swappers /\ Pending \subseteq Swappers
  BY DEF Claimed, Pending
<1>2. IsFiniteSet(Claimed) /\ IsFiniteSet(Pending)
  BY <1>1, ThreadsAssumption, FS_Subset
<1> QED
  BY <1>2, FS_CardinalityType

\* A step that moves nobody between the stages of an exchange.
LEMMA CountQuiet ==
  ASSUME CountInv, UNCHANGED <<reg, swap_count, swaps>>,
         \A s \in Swappers : /\ pc'[s] \in {"next", "prev", "relink"} <=> pc[s] \in {"next", "prev", "relink"}
                             /\ (pc'[s] \in {"insert", "store"}) <=> (pc[s] \in {"insert", "store"})
                             /\ pc'[s] = "store" => pc[s] = "store"
  PROVE  CountInv'
<1>1. Claimed' = Claimed /\ Pending' = Pending
  BY DEF Claimed, Pending
<1> QED
  BY <1>1 DEF CountInv

\* swap_count stays within the exchanges made, whatever increments are lost.
LEMMA CountSwap ==
  ASSUME IInv, NEW t \in Swappers, SwapStep(t)
  PROVE  CountInv'
<1>0. Types /\ CountInv /\ t \in Threads /\ Swappers \subseteq Threads /\ pc \in [Threads -> SwapPCs]
  BY DEF IInv, Types, Threads
<1>1. /\ IsFiniteSet(Claimed) /\ Cardinality(Claimed) \in Nat
      /\ IsFiniteSet(Pending) /\ Cardinality(Pending) \in Nat
  BY CountSets
<1>2. CASE SwapBegin(t) \/ SwapFirst(t) \/ SwapEnd(t) \/ SwapSkip(t) \/ SwapLockNext(t) \/ SwapPrev(t)
  <2>1. UNCHANGED <<reg, swap_count, swaps>>
    BY <1>2 DEF SwapBegin, SwapFirst, SwapEnd, SwapSkip, SwapLockNext, SwapPrev
  <2>2. /\ \A s \in Threads \ {t} : pc'[s] = pc[s]
        /\ \/ pc[t] \in {"top", "first", "loop"} /\ pc'[t] \in {"top", "first", "loop", "exit"}
           \/ pc[t] \in {"next", "prev"} /\ pc'[t] \in {"prev", "relink"}
    BY <1>0, <1>2 DEF SwapBegin, SwapFirst, SwapEnd, SwapSkip, SwapLockNext, SwapPrev, Goto
  <2> QED
    BY <1>0, <2>1, <2>2, CountQuiet
<1>3. CASE SwapLockCur(t)
  <2>1. UNCHANGED <<reg, swap_count, swaps>> /\ pc[t] = "loop" /\ swaps + Cardinality(Claimed) < MaxSwaps
        /\ \A s \in Threads \ {t} : pc'[s] = pc[s]
    BY <1>0, <1>3 DEF SwapLockCur, Goto, Claimed
  <2>2. CASE pc'[t] = "top"
    BY <1>0, <2>1, <2>2, CountQuiet
  <2>3. CASE pc'[t] = "next"
    <3>1. Claimed' = Claimed \cup {t} /\ t \notin Claimed /\ Pending' = Pending
      BY <1>0, <2>1, <2>3 DEF Claimed, Pending
    <3>2. Cardinality(Claimed') = Cardinality(Claimed) + 1
      BY <1>1, <3>1, FS_AddElement
    <3>3. \A s \in Swappers : pc'[s] = "store" => pc[s] = "store"
      BY <1>0, <2>1, <2>3
    <3>4. swaps' + Cardinality(Claimed') <= MaxSwaps
      BY <1>0, <1>1, <2>1, <3>2, MaxSwapsAssumption DEF CountInv
    <3> QED
      BY <1>0, <2>1, <3>1, <3>3, <3>4 DEF CountInv
  <2>4. pc'[t] \in {"top", "next"}
    BY <1>0, <1>3 DEF SwapLockCur, Goto
  <2> QED
    BY <2>2, <2>3, <2>4
<1>4. CASE SwapRelink(t)
  <2>1. /\ swaps' = swaps + 1 /\ reg' = reg /\ swap_count' = swap_count
        /\ pc[t] = "relink" /\ pc'[t] = "insert" /\ \A s \in Threads \ {t} : pc'[s] = pc[s]
    BY <1>0, <1>4 DEF SwapRelink, Goto
  <2>2. /\ Claimed' = Claimed \ {t} /\ t \in Claimed
        /\ Pending' = Pending \cup {t} /\ t \notin Pending
    BY <1>0, <2>1 DEF Claimed, Pending
  <2>3. Cardinality(Claimed') = Cardinality(Claimed) - 1
    BY <1>1, <2>2, FS_RemoveElement
  <2>4. Cardinality(Pending') = Cardinality(Pending) + 1
    BY <1>1, <2>2, FS_AddElement
  <2>5. \A s \in Swappers : pc'[s] = "store" => pc[s] = "store"
    BY <1>0, <2>1
  <2>6. Pending' # {}
    BY <2>2
  <2>7. /\ swaps' \in Nat /\ swaps' + Cardinality(Claimed') <= MaxSwaps
        /\ swap_count' + Cardinality(Pending') <= swaps'
    BY <1>0, <1>1, <2>1, <2>3, <2>4, MaxSwapsAssumption DEF CountInv
  <2>8. ASSUME NEW s \in Swappers, pc'[s] = "store" PROVE reg'[s] + Cardinality(Pending') <= swaps'
    <3>1. reg[s] \in Nat /\ reg[s] + Cardinality(Pending) <= swaps /\ swaps \in Nat
      BY <1>0, <2>5, <2>8 DEF CountInv
    <3> QED
      BY <1>1, <2>1, <2>4, <3>1
  <2> QED
    BY <1>0, <2>1, <2>6, <2>7, <2>8 DEF CountInv
<1>5. CASE SwapInsert(t)
  <2>1. /\ swaps' = swaps /\ reg' = [reg EXCEPT ![t] = swap_count] /\ swap_count' = swap_count
        /\ pc[t] = "insert" /\ pc'[t] = "store" /\ \A s \in Threads \ {t} : pc'[s] = pc[s]
    BY <1>0, <1>5 DEF SwapInsert, Goto
  <2>2. Claimed' = Claimed /\ Pending' = Pending
    BY <1>0, <2>1 DEF Claimed, Pending
  <2>3. swap_count \in Nat /\ swap_count <= MaxSwaps
    BY <1>0, <1>1, MaxSwapsAssumption DEF CountInv
  <2>4. reg' \in [Threads -> Nat] /\ \A u \in Threads : reg'[u] <= MaxSwaps
    BY <1>0, <2>1, <2>3 DEF CountInv
  <2>5. ASSUME NEW s \in Swappers, pc'[s] = "store" PROVE reg'[s] + Cardinality(Pending') <= swaps'
    BY <1>0, <2>1, <2>2, <2>5 DEF CountInv
  <2> QED
    BY <1>0, <2>1, <2>2, <2>4, <2>5 DEF CountInv
<1>6. CASE SwapStore(t)
  <2>1. /\ swaps' = swaps /\ reg' = reg /\ swap_count' = reg[t] + 1
        /\ pc[t] = "store" /\ pc'[t] = "loop" /\ \A s \in Threads \ {t} : pc'[s] = pc[s]
    BY <1>0, <1>6 DEF SwapStore, Goto
  <2>2. Claimed' = Claimed /\ Pending' = Pending \ {t} /\ t \in Pending
    BY <1>0, <2>1 DEF Claimed, Pending
  <2>3. Cardinality(Pending') = Cardinality(Pending) - 1
    BY <1>1, <2>2, FS_RemoveElement
  <2>4. reg[t] \in Nat /\ reg[t] + Cardinality(Pending) <= swaps /\ swaps \in Nat
    BY <1>0, <2>1 DEF CountInv
  <2>5. swap_count' \in Nat /\ swap_count' > 0 /\ swap_count' + Cardinality(Pending') <= swaps'
    BY <1>1, <2>1, <2>3, <2>4
  <2>6. ASSUME NEW s \in Swappers, pc'[s] = "store" PROVE reg'[s] + Cardinality(Pending') <= swaps'
    <3>1. pc[s] = "store"
      BY <1>0, <2>1, <2>6
    <3>2. reg[s] \in Nat /\ reg[s] + Cardinality(Pending) <= swaps
      BY <1>0, <3>1 DEF CountInv
    <3> QED
      BY <1>1, <2>1, <2>3, <2>4, <3>2
  <2> QED
    BY <1>0, <2>1, <2>2, <2>5, <2>6 DEF CountInv
<1> QED
  BY <1>2, <1>3, <1>4, <1>5, <1>6 DEF SwapStep

\* A compare_routine leaves swap_count and the exchanges alone.
LEMMA CountCompare ==
  ASSUME IInv, NEW t \in Comparers, CompareStep(t)
  PROVE  CountInv'
<1>1. /\ \A s \in Swappers : pc'[s] = pc[s]
      /\ UNCHANGED <<reg, swap_count, swaps>>
  BY ThreadsAssumption
  DEF IInv, Types, Threads, CompareStep, CompareBegin, CompareFirst, ComparePair, CompareEnd, Goto
<1> QED
  BY <1>1, CountQuiet DEF IInv

\* Every step of a swap_routine keeps the types.
LEMMA TypesSwap ==
  ASSUME IInv, NEW t \in Swappers, SwapStep(t)
  PROVE  Types'
<1>0. /\ Types /\ t \in Threads /\ t \notin Comparers /\ Comparers \subseteq Threads
      /\ prev[t] \in Nodes /\ cur[t] \in Nodes /\ next[t] \in Nodes /\ 1 \in Nodes
      /\ nxt[prev[t]] \in Nodes \cup {NULL} /\ nxt[next[t]] \in Nodes \cup {NULL}
  BY ThreadsAssumption, NAssumption DEF IInv, Types, Threads, Nodes
<1> USE DEF SwapStep, SwapBegin, SwapFirst, SwapEnd, SwapSkip, SwapLockCur, SwapLockNext, SwapPrev, SwapRelink,
            SwapInsert, SwapStore
<1>1. nxt' \in [Nodes -> Nodes \cup {NULL}]
  BY <1>0 DEF Types
<1>2. writer' \in [Nodes -> SUBSET Swappers]
  BY <1>0 DEF Types, WriteLocks
<1>3. readers' \in [Nodes -> SUBSET Comparers]
  BY <1>0 DEF Types
<1>4. pc' \in [Threads -> SwapPCs] /\ \A u \in Comparers : pc'[u] = pc[u]
  BY <1>0 DEF Types, Goto, SwapPCs
<1>5. prev' \in [Threads -> Nodes]
  BY <1>0 DEF Types
<1>6. cur' \in [Threads -> Nodes]
  BY <1>0 DEF Types
<1>7. next' \in [Threads -> Nodes]
  BY <1>0 DEF Types
<1>8. visited' \in [Threads -> SUBSET Nodes]
  BY <1>0 DEF Types
<1> QED
  BY <1>0, <1>1, <1>2, <1>3, <1>4, <1>5, <1>6, <1>7, <1>8 DEF Types

\* Every step of a compare_routine keeps the types.
LEMMA TypesCompare ==
  ASSUME IInv, NEW t \in Comparers, CompareStep(t)
  PROVE  Types'
<1>0. /\ Types /\ t \in Threads /\ Comparers \subseteq Threads
      /\ prev[t] \in Nodes /\ 1 \in Nodes /\ nxt[prev[t]] \in Nodes \cup {NULL}
  BY NAssumption DEF IInv, Types, Threads, Nodes
<1> USE DEF CompareStep, CompareBegin, CompareFirst, ComparePair, CompareEnd
<1>1. UNCHANGED <<nxt, writer, cur, next>>
  OBVIOUS
<1>2. readers' \in [Nodes -> SUBSET Comparers]
  BY <1>0 DEF Types, ReadLocks
<1>3. pc' \in [Threads -> SwapPCs] /\ \A u \in Comparers : pc'[u] \in {"top", "first", "loop", "exit"}
  BY <1>0 DEF Types, Goto, SwapPCs
<1>4. prev' \in [Threads -> Nodes]
  BY <1>0 DEF Types
<1>5. visited' \in [Threads -> SUBSET Nodes]
  BY <1>0 DEF Types
<1> QED
  BY <1>0, <1>1, <1>2, <1>3, <1>4, <1>5 DEF Types

-----------------------------------------------------------------------------
\* The list that main.c builds satisfies the invariant.
LEMMA InitIInv == Init => IInv
<1> SUFFICES ASSUME Init PROVE IInv
  OBVIOUS
<1>0. 1 \in Nodes /\ N \in Nodes
  BY NAssumption DEF Nodes
<1>1. nxt \in [Nodes -> Nodes \cup {NULL}]
  BY NAssumption DEF Init, Nodes
<1>2. Types
  BY <1>0, <1>1 DEF Init, Types, Threads, SwapPCs
<1>3. stop \in BOOLEAN
  BY DEF Init
<1>4. LockInv
  BY DEF Init, LockInv, Held, Threads
<1>5. OrderInv
  <2> DEFINE p == [n \in Nodes |-> n]
  <2>1. Permutation(p)
    BY <1>0 DEF Permutation
  <2>2. Linked(p)
    BY NAssumption DEF Init, Linked, Succ, Nodes
  <2>3. Exchanging(p) /\ Walking(p)
    BY DEF Init, Exchanging, Walking, Threads
  <2>4. p \in [Nodes -> Nodes]
    OBVIOUS
  <2>5. Order(p)
    BY <2>1, <2>2, <2>3 DEF Order
  <2> HIDE DEF p
  <2> QED
    BY <2>4, <2>5 DEF OrderInv
<1>6. CountInv
  <2>1. Claimed = {} /\ Pending = {}
    BY DEF Init, Claimed, Pending, Threads
  <2>2. Cardinality(Claimed) = 0 /\ Cardinality(Pending) = 0
    BY <2>1, FS_EmptySet
  <2> QED
    BY <2>2, MaxSwapsAssumption DEF Init, CountInv, Threads
<1> QED
  BY <1>2, <1>3, <1>4, <1>5, <1>6 DEF IInv

\* The invariant does not speak of stop, which main sets.
LEMMA UnchangedIInv ==
  ASSUME IInv, UNCHANGED <<nxt, writer, readers, localVars, swap_count, swaps>>, stop' \in BOOLEAN
  PROVE  IInv'
<1> USE DEF localVars
<1>1. Types'
  BY DEF IInv, Types
<1>2. LockInv'
  BY DEF IInv, LockInv, Held
<1>3. OrderInv'
  BY SMTT(20) DEF IInv, OrderInv, Order, Permutation, Linked, Exchanging, Walking, Stale, Succ
<1>4. CountInv'
  BY DEF IInv, CountInv, Claimed, Pending
<1> QED
  BY <1>1, <1>2, <1>3, <1>4 DEF IInv

\* Every step of the program preserves the invariant.
LEMMA NextIInv == IInv /\ [Next]_vars => IInv'
<1> SUFFICES ASSUME IInv, [Next]_vars PROVE IInv'
  OBVIOUS
<1>1. ASSUME NEW t \in Swappers, SwapStep(t) PROVE IInv'
  <2>1. stop' = stop
    BY <1>1 DEF SwapStep, SwapBegin, SwapFirst, SwapEnd, SwapSkip, SwapLockCur, SwapLockNext, SwapPrev, SwapRelink,
                SwapInsert, SwapStore
  <2>2. stop' \in BOOLEAN
    BY <2>1 DEF IInv
  <2> QED
    BY <1>1, <2>2, TypesSwap, LockSwap, OrderSwap, CountSwap DEF IInv
<1>2. ASSUME NEW t \in Comparers, CompareStep(t) PROVE IInv'
  <2>1. stop' = stop
    BY <1>2 DEF CompareStep, CompareBegin, CompareFirst, ComparePair, CompareEnd
  <2>2. stop' \in BOOLEAN
    BY <2>1 DEF IInv
  <2> QED
    BY <1>2, <2>2, TypesCompare, LockCompare, OrderCompare, CountCompare DEF IInv
<1>3. CASE Stop
  BY <1>3, UnchangedIInv DEF Stop
<1>4. CASE UNCHANGED vars
  <2>1. stop' \in BOOLEAN
    BY <1>4 DEF vars, IInv
  <2> QED
    BY <1>4, <2>1, UnchangedIInv DEF vars
<1> QED
  BY <1>1, <1>2, <1>3, <1>4 DEF Next, Joined

\* The inductive invariant of the list of lockable nodes.
THEOREM Invariance == Spec => []IInv
<1> QED
  BY InitIInv, NextIInv, PTL DEF Spec

-----------------------------------------------------------------------------
(* The walk along a list without an exchange under way *)

\* Walk is the function its definition describes.  The order p gives one; the
\* least place where another one differs cannot exist.
LEMMA WalkFacts ==
  ASSUME Types, NEW p \in [Nodes -> Nodes], Permutation(p), \A i \in Nodes : nxt[p[i]] = Succ(p, i)
  PROVE  /\ \A k \in 0..(N - 1) : Walk[k] = p[k + 1]
         /\ Walk[N] = NULL
<1> DEFINE D == 0..N
           IsWalk(g) == g = [k \in D |-> IF k = 0 THEN 1
                                         ELSE IF g[k - 1] = NULL THEN NULL ELSE nxt[g[k - 1]]]
           f == [k \in D |-> IF k = N THEN NULL ELSE p[k + 1]]
<1>1. N \in Nat /\ N # 0
  BY NAssumption
<1>2. \A k \in D : k # N => k + 1 \in Nodes /\ p[k + 1] \in Nodes /\ p[k + 1] # NULL
  BY <1>1 DEF Nodes, NULL
<1>3. \A k \in D : k # 0 => k - 1 \in D /\ k - 1 # N /\ (k - 1) + 1 = k /\ k \in Nodes
  BY <1>1 DEF Nodes
<1>4. f[0] = 1 /\ 0 \in D /\ N \in D
  BY <1>1 DEF Permutation
<1>5. ASSUME NEW k \in D, k # 0 PROVE f[k - 1] # NULL /\ f[k] = nxt[f[k - 1]]
  <2>1. f[k - 1] = p[k]
    BY <1>3, <1>5
  <2>2. nxt[p[k]] = Succ(p, k) /\ p[k] # NULL
    BY <1>2, <1>3, <1>5
  <2>3. f[k] = Succ(p, k)
    BY DEF Succ
  <2> QED
    BY <2>1, <2>2, <2>3
<1>6. IsWalk(f)
  <2>1. \A k \in D : f[k] = IF k = 0 THEN 1 ELSE IF f[k - 1] = NULL THEN NULL ELSE nxt[f[k - 1]]
    BY <1>4, <1>5
  <2>2. f = [k \in D |-> f[k]]
    OBVIOUS
  <2> HIDE DEF f
  <2> QED
    BY <2>1, <2>2
<1> HIDE DEF f
<1>7. IsWalk(Walk)
  <2>1. \E g : IsWalk(g)
    BY <1>6
  <2>2. Walk = CHOOSE g : IsWalk(g)
    BY DEF Walk
  <2> HIDE DEF IsWalk
  <2> QED
    BY <2>1, <2>2
<1>8. \A k \in D : Walk[k] = IF k = 0 THEN 1 ELSE IF Walk[k - 1] = NULL THEN NULL ELSE nxt[Walk[k - 1]]
  BY <1>7
<1> HIDE DEF IsWalk
<1>9. \A k \in D : Walk[k] = f[k]
  <2> DEFINE Bad == {k \in D : Walk[k] # f[k]}
             R == OpToRel(<, Nat)
  <2> SUFFICES ASSUME Bad # {} PROVE FALSE
    OBVIOUS
  <2>1. Bad \subseteq Nat
    BY <1>1
  <2>2. R = {ss \in Nat \X Nat : ss[1] < ss[2]}
    BY DEF OpToRel
  <2>3. IsWellFoundedOn(R, Nat)
    BY NatLessThanWellFounded
  <2> HIDE DEF R
  <2>4. PICK x \in Bad : \A y \in Bad : ~(<<y, x>> \in R)
    BY <2>1, <2>3, WFMin
  <2>5. \A y \in Bad : ~(y < x)
    BY <2>1, <2>2, <2>4
  <2>6. x # 0
    BY <1>4, <1>8
  <2>7. x - 1 \in D /\ x - 1 < x
    BY <1>3, <2>1, <2>6
  <2>8. Walk[x - 1] = f[x - 1]
    BY <2>5, <2>7
  <2>9. Walk[x] = f[x]
    BY <1>5, <1>8, <2>6, <2>8
  <2> QED
    BY <2>9
<1>10. ASSUME NEW k \in 0..(N - 1) PROVE Walk[k] = p[k + 1]
  <2>1. k \in D /\ k # N
    BY <1>1
  <2> QED
    BY <1>9, <2>1 DEF f
<1>11. Walk[N] = NULL
  BY <1>4, <1>9 DEF f
<1> QED
  BY <1>10, <1>11

\* ListWhole holds: the types, the whole list between two exchanges, and the
\* bounds of swap_count.
THEOREM ListStaysWhole == Spec => []ListWhole
<1>1. IInv => ListWhole
  <2> SUFFICES ASSUME IInv PROVE ListWhole
    OBVIOUS
  <2>0. Types /\ LockInv /\ OrderInv /\ CountInv /\ stop \in BOOLEAN
    BY DEF IInv
  <2>1. \A n \in Nodes : writer[n] \in SUBSET Threads /\ Cardinality(writer[n]) <= 1
    <3> SUFFICES ASSUME NEW n \in Nodes PROVE writer[n] \in SUBSET Threads /\ Cardinality(writer[n]) <= 1
      OBVIOUS
    <3>1. CASE writer[n] = {}
      <4>1. Cardinality(writer[n]) = 0
        BY <3>1, FS_EmptySet
      <4> QED
        BY <3>1, <4>1
    <3>2. CASE writer[n] # {}
      <4>1. PICK s \in Swappers : writer[n] = {s}
        BY <2>0, <3>2 DEF LockInv
      <4>2. Cardinality(writer[n]) = 1
        BY <4>1, FS_Singleton
      <4> QED
        BY <4>1, <4>2 DEF Threads
    <3> QED
      BY <3>1, <3>2
  <2>2. /\ swap_count \in 0..MaxSwaps /\ swaps \in 0..MaxSwaps /\ reg \in [Threads -> 0..MaxSwaps]
        /\ swap_count <= swaps
    BY <2>0, CountSets, MaxSwapsAssumption DEF CountInv
  <2>3. TypeOK
    BY <2>0, <2>1, <2>2 DEF Types, TypeOK
  <2>4. ASSUME \A t \in Swappers : pc[t] \notin {"relink", "insert"}
        PROVE  {Walk[k] : k \in 0..(N - 1)} = Nodes /\ Walk[N] = NULL
    <3> PICK p \in [Nodes -> Nodes] : Order(p)
      BY <2>0 DEF OrderInv
    <3>1. Permutation(p) /\ \A i \in Nodes : nxt[p[i]] = Succ(p, i)
      BY <2>4 DEF Order, Linked, Stale
    <3>2. (\A k \in 0..(N - 1) : Walk[k] = p[k + 1]) /\ Walk[N] = NULL
      BY <2>0, <3>1, WalkFacts
    <3> DEFINE D == 0..(N - 1)
    <3>3. \A k \in D : Walk[k] \in Nodes
      BY <3>2, NAssumption DEF Nodes
    <3>4. \A n \in Nodes : \E k \in D : Walk[k] = n
      <4> SUFFICES ASSUME NEW n \in Nodes PROVE \E k \in D : Walk[k] = n
        OBVIOUS
      <4>1. PICK i \in Nodes : p[i] = n
        BY <3>1 DEF Permutation
      <4>2. i - 1 \in D /\ (i - 1) + 1 = i
        BY NAssumption DEF Nodes
      <4> QED
        BY <3>2, <4>1, <4>2
    <3> HIDE DEF D
    <3>5. {Walk[k] : k \in D} = Nodes
      BY <3>3, <3>4
    <3> QED
      BY <3>2, <3>5 DEF D
  <2>5. ASSUME AllExited, swaps > 0 PROVE swap_count > 0
    <3>1. Pending = {}
      BY <2>5 DEF AllExited, Pending, Threads
    <3> QED
      BY <2>0, <2>5, <3>1 DEF CountInv
  <2> QED
    BY <2>2, <2>3, <2>4, <2>5 DEF ListWhole
<1> QED
  BY <1>1, Invariance, PTL

\* PassSeesAll holds: a pass of __compare_routine goes to no node twice, and one
\* that is at the end of the list has been at every node.
THEOREM PassesSeeAll == Spec => []PassSeesAll
<1>1. IInv => PassSeesAll
  <2> SUFFICES ASSUME IInv, NEW t \in Comparers, pc[t] = "loop"
               PROVE  IF nxt[prev[t]] = NULL THEN visited[t] = Nodes ELSE nxt[prev[t]] \notin visited[t]
    BY DEF PassSeesAll
  <2> PICK p \in [Nodes -> Nodes] : Order(p)
    BY DEF IInv, OrderInv
  <2>1. ASSUME nxt[prev[t]] = NULL PROVE visited[t] = Nodes
    <3>1. visited[t] = {p[k] : k \in 1..N}
      BY <2>1, WalkPlace
    <3>2. visited[t] = {p[k] : k \in Nodes}
      BY <3>1 DEF Nodes
    <3> QED
      BY <3>2 DEF Order, Permutation
  <2>2. ASSUME nxt[prev[t]] # NULL PROVE nxt[prev[t]] \notin visited[t]
    <3>1. PICK i \in Nodes : /\ visited[t] = {p[k] : k \in 1..i}
                             /\ i + 1 \in Nodes /\ nxt[prev[t]] = p[i + 1]
      BY <2>2, WalkPlace
    <3>2. \A k \in 1..i : k \in Nodes /\ k # i + 1
      BY NAssumption DEF Nodes
    <3>3. \A k \in 1..i : p[k] # p[i + 1]
      BY <3>1, <3>2 DEF Order, Permutation
    <3> QED
      BY <3>1, <3>3
  <2> QED
    BY <2>1, <2>2
<1> QED
  BY <1>1, Invariance, PTL
===============================================================================
