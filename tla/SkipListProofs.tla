--------------------------- MODULE SkipListProofs ---------------------------
(***************************************************************************)
(* Proofs about SkipList and, for stores that become visible in program    *)
(* order, SkipListRelaxed, for every number of keys, height and set of     *)
(* readers: the inductive invariants and what follows from them.           *)
(***************************************************************************)
EXTENDS SkipListRelaxed, SequenceTheorems, TLAPS

USE MaxKeyAssumption, MaxHeightAssumption, WriterAssumption
USE DEF Threads, Keys, HeadNode, Nodes, Nil, Junk, Levels

\* What never changes without a step of Insert.
LEMMA OnLevelFrame ==
    ASSUME UNCHANGED <<tower, index>>,
           pc'[Writer] = pc[Writer], key'[Writer] = key[Writer]
    PROVE  /\ Linking' <=> Linking
           /\ \A l : OnLevel(l)' = OnLevel(l)
BY DEF OnLevel, Linking

\* The empty list satisfies the invariant.
LEMMA InitIInv == Init => IInv
<1> SUFFICES ASSUME Init PROVE IInv
  OBVIOUS
<1>1. TypeOK
  BY DEF Init, TypeOK
<1>2. \A l \in Levels : OnLevel(l) = {}
  BY DEF Init, OnLevel
<1>3. SortedChains
  <2> SUFFICES ASSUME NEW l \in Levels, NEW n \in {HeadNode} \cup OnLevel(l)
               PROVE  IsSuccessor(next[l][n], n, OnLevel(l))
    BY DEF SortedChains
  <2>1. OnLevel(l) = {} /\ n = HeadNode /\ next[l][n] = Nil
    BY <1>2 DEF Init
  <2> QED BY <2>1 DEF IsSuccessor
<1>4. WalkOnLinkedNodes
  BY DEF Init, WalkOnLinkedNodes
<1>5. SpliceAtPredecessor
  BY DEF Init, SpliceAtPredecessor, Linking
<1> QED BY <1>1, <1>3, <1>4, <1>5 DEF IInv

\* A call starts.
LEMMA CallStep ==
    ASSUME IInv, NEW t \in Threads, NEW k \in Keys, Call(t, k)
    PROVE  IInv'
<1> USE DEF IInv, Call, shared, walk
<1>1. TypeOK'
  BY DEF TypeOK
<1>2. \A l : OnLevel(l)' = OnLevel(l)
  BY DEF OnLevel, Linking, TypeOK
<1>3. SortedChains'
  BY <1>2 DEF SortedChains, IsSuccessor
<1>4. WalkOnLinkedNodes'
  BY <1>2 DEF WalkOnLinkedNodes, TypeOK, Ahead
<1>5. SpliceAtPredecessor'
  BY <1>2 DEF SpliceAtPredecessor, Predecessor, Linking, TypeOK
<1> QED BY <1>1, <1>3, <1>4, <1>5

\* FindGreaterOrEqual starts.
LEMMA LoadHeightStep ==
    ASSUME IInv, NEW t \in Threads, LoadHeight(t)
    PROVE  IInv'
<1> USE DEF IInv, LoadHeight, shared
<1>1. TypeOK'
  <2>1. cur_height - 1 \in Levels
    BY DEF TypeOK
  <2> QED BY <2>1 DEF TypeOK
<1>2. \A l : OnLevel(l)' = OnLevel(l)
  BY DEF OnLevel, Linking, TypeOK
<1>3. SortedChains'
  BY <1>2 DEF SortedChains, IsSuccessor
<1>4. WalkOnLinkedNodes'
  <2> SUFFICES ASSUME NEW s \in Threads, pc'[s] = "walk"
               PROVE  /\ cur'[s] \in {HeadNode} \cup OnLevel(level[s])'
                      /\ next'[level'[s]][cur'[s]] # Junk
                      /\ cur'[s] < key'[s]
    BY DEF WalkOnLinkedNodes, Ahead
  <2>1. CASE s = t
    <3>1. level'[t] \in Levels /\ cur'[t] = HeadNode
      BY DEF TypeOK
    <3>2. next[level'[t]][HeadNode] # Junk
      BY <3>1 DEF SortedChains, IsSuccessor, OnLevel
    <3> QED BY <2>1, <3>1, <3>2 DEF TypeOK, Ahead
  <2>2. CASE s # t
    <3>1. cur'[s] = cur[s] /\ level'[s] = level[s] /\ pc[s] = "walk"
      BY <2>2 DEF TypeOK
    <3> QED BY <1>2, <3>1 DEF WalkOnLinkedNodes, Ahead, OnLevel
  <2> QED BY <2>1, <2>2
<1>5. SpliceAtPredecessor'
  BY <1>2 DEF SpliceAtPredecessor, Predecessor, Linking, TypeOK
<1> QED BY <1>1, <1>3, <1>4, <1>5

\* Next(level) is still before the key.
LEMMA ForwardStep ==
    ASSUME IInv, NEW t \in Threads, Forward(t)
    PROVE  IInv'
<1> USE DEF IInv, Forward, shared
<1>1. /\ level[t] \in Levels
      /\ Ahead(t) \in OnLevel(level[t])
      /\ Ahead(t) \in Keys
      /\ Ahead(t) < key[t]
  BY DEF TypeOK, KeyIsAfterNode, WalkOnLinkedNodes, SortedChains, IsSuccessor,
         Ahead, OnLevel
<1>2. TypeOK'
  BY <1>1 DEF TypeOK
<1>3. \A l : OnLevel(l)' = OnLevel(l)
  BY OnLevelFrame
<1>4. SortedChains'
  BY <1>3 DEF SortedChains, IsSuccessor
<1>5. WalkOnLinkedNodes'
  <2> SUFFICES ASSUME NEW s \in Threads, pc'[s] = "walk"
               PROVE  /\ cur'[s] \in {HeadNode} \cup OnLevel(level[s])'
                      /\ next'[level'[s]][cur'[s]] # Junk
                      /\ cur'[s] < key'[s]
    BY DEF WalkOnLinkedNodes, Ahead
  <2>1. CASE s = t
    <3>1. next[level[t]][Ahead(t)] # Junk
      BY <1>1 DEF SortedChains, IsSuccessor, OnLevel
    <3>2. cur'[s] = Ahead(t) /\ level'[s] = level[t]
      BY <2>1 DEF TypeOK
    <3> QED BY <1>1, <1>3, <2>1, <3>1, <3>2 DEF OnLevel
  <2>2. CASE s # t
    <3>1. cur'[s] = cur[s] /\ level'[s] = level[s] /\ pc[s] = "walk"
      BY <2>2 DEF TypeOK
    <3> QED BY <1>3, <3>1 DEF WalkOnLinkedNodes, Ahead, OnLevel
  <2> QED BY <2>1, <2>2
<1>6. SpliceAtPredecessor'
  BY <1>3 DEF SpliceAtPredecessor, Predecessor, Linking, TypeOK
<1> QED BY <1>2, <1>4, <1>5, <1>6

\* A thread that stops short of its key on a level has found the place there.
LEMMA StopHere ==
    ASSUME IInv, NEW t \in Threads, pc[t] = "walk",
           ~ KeyIsAfterNode(key[t], Ahead(t))
    PROVE  /\ level[t] \in Levels
           /\ cur[t] \in {HeadNode} \cup OnLevel(level[t])
           /\ cur[t] < key[t]
           /\ Ahead(t) \in Keys \cup {Nil}
           /\ key[t] <= Ahead(t)
BY DEF IInv, TypeOK, KeyIsAfterNode, WalkOnLinkedNodes, SortedChains, IsSuccessor,
       Ahead, OnLevel

\* A tower that stands on a level stands on the levels below.
LEMMA LowerLevel ==
    ASSUME IInv, NEW l \in Levels, l > 0
    PROVE  OnLevel(l) \subseteq OnLevel(l - 1)
BY DEF IInv, TypeOK, OnLevel

\* A walk that goes down a level keeps the invariant.
LEMMA DownStep ==
    ASSUME IInv, NEW t \in Threads, Down(t)
    PROVE  IInv'
<1> USE DEF IInv, Down, shared
<1>1. /\ level[t] \in Levels
      /\ level[t] - 1 \in Levels
      /\ cur[t] \in {HeadNode} \cup OnLevel(level[t])
      /\ cur[t] \in {HeadNode} \cup OnLevel(level[t] - 1)
      /\ cur[t] < key[t]
      /\ cur[t] \in Nodes
      /\ key[t] <= Ahead(t)
  <2>1. level[t] \in Levels /\ level[t] - 1 \in Levels
    BY DEF TypeOK
  <2>2. cur[t] \in {HeadNode} \cup OnLevel(level[t])
    BY StopHere
  <2>3. OnLevel(level[t]) \subseteq OnLevel(level[t] - 1)
    BY <2>1, LowerLevel
  <2> QED BY <2>1, <2>2, <2>3, StopHere DEF TypeOK
<1>2. TypeOK'
  BY <1>1 DEF TypeOK, RecordPrev
<1>3. \A l : OnLevel(l)' = OnLevel(l)
  BY OnLevelFrame
<1>4. SortedChains'
  BY <1>3 DEF SortedChains, IsSuccessor
<1>5. WalkOnLinkedNodes'
  <2> SUFFICES ASSUME NEW s \in Threads, pc'[s] = "walk"
               PROVE  /\ cur'[s] \in {HeadNode} \cup OnLevel(level[s])'
                      /\ next'[level'[s]][cur'[s]] # Junk
                      /\ cur'[s] < key'[s]
    BY DEF WalkOnLinkedNodes, Ahead
  <2>1. CASE s = t
    <3>1. next[level[t] - 1][cur[t]] # Junk
      BY <1>1 DEF SortedChains, IsSuccessor, OnLevel
    <3>2. level'[t] = level[t] - 1
      BY DEF TypeOK
    <3> QED BY <1>1, <1>3, <2>1, <3>1, <3>2 DEF OnLevel
  <2>2. CASE s # t
    <3>1. cur'[s] = cur[s] /\ level'[s] = level[s] /\ pc[s] = "walk"
      BY <2>2 DEF TypeOK
    <3> QED BY <1>3, <3>1 DEF WalkOnLinkedNodes, Ahead, OnLevel
  <2> QED BY <2>1, <2>2
<1>6. SpliceAtPredecessor'
  <2>1. CASE t = Writer
    <3>1. level'[t] = level[t] - 1 /\ pc[Writer] = "walk"
      BY <2>1 DEF TypeOK
    <3>2. ASSUME NEW l \in Levels, level'[Writer] < l, l < cur_height
          PROVE  Predecessor(l)'
      <4>1. CASE l = level[t]
        <5>1. prev'[l] = cur[t]
          BY <2>1, <4>1 DEF RecordPrev, TypeOK
        <5> QED BY <1>1, <1>3, <2>1, <4>1, <5>1 DEF Predecessor, Ahead
      <4>2. CASE l # level[t]
        <5>1. prev'[l] = prev[l] /\ Predecessor(l)
          BY <2>1, <3>1, <3>2, <4>2, <1>1 DEF RecordPrev, TypeOK, SpliceAtPredecessor
        <5> QED BY <1>3, <5>1 DEF Predecessor
      <4> QED BY <4>1, <4>2
    <3>3. level'[Writer] < cur_height'
      BY <1>1, <2>1, <3>1 DEF SpliceAtPredecessor, TypeOK
    <3> QED BY <2>1, <3>1, <3>2, <3>3 DEF SpliceAtPredecessor, Linking
  <2>2. CASE t # Writer
    BY <1>3, <2>2 DEF SpliceAtPredecessor, Predecessor, Linking, TypeOK, RecordPrev
  <2> QED BY <2>1, <2>2
<1> QED BY <1>2, <1>4, <1>5, <1>6

\* Contains returns.
LEMMA ReturnContainsStep ==
    ASSUME IInv, NEW r \in Readers, ReturnContains(r)
    PROVE  IInv'
<1> USE DEF IInv, ReturnContains, shared, walk
<1>1. TypeOK'
  BY DEF TypeOK, AtBottom
<1>2. \A l : OnLevel(l)' = OnLevel(l)
  BY DEF OnLevel, Linking, TypeOK
<1>3. SortedChains'
  BY <1>2 DEF SortedChains, IsSuccessor
<1>4. WalkOnLinkedNodes'
  BY <1>2 DEF WalkOnLinkedNodes, TypeOK, Ahead
<1>5. SpliceAtPredecessor'
  BY <1>2 DEF SpliceAtPredecessor, Predecessor, Linking, TypeOK
<1> QED BY <1>1, <1>3, <1>4, <1>5

\* Insert knows the place of its key on every level in use.
LEMMA FoundPlaceStep ==
    ASSUME IInv, FoundPlace
    PROVE  IInv'
<1> USE DEF IInv, FoundPlace, shared, walk
<1>1. /\ pc[Writer] = "walk" /\ level[Writer] = 0
      /\ cur[Writer] \in {HeadNode} \cup OnLevel(0)
      /\ cur[Writer] < key[Writer]
      /\ cur[Writer] \in Nodes
      /\ key[Writer] \in Keys
      /\ Ahead(Writer) = next[0][cur[Writer]]
      /\ Ahead(Writer) \in Keys \cup {Nil}
      /\ key[Writer] <= Ahead(Writer)
  BY StopHere DEF AtBottom, Ahead, TypeOK
<1>2. TypeOK'
  BY <1>1 DEF TypeOK, RecordPrev
<1>3. \A l : OnLevel(l)' = OnLevel(l)
  BY <1>1 DEF OnLevel, Linking, TypeOK
<1>4. SortedChains'
  BY <1>3 DEF SortedChains, IsSuccessor
<1>5. WalkOnLinkedNodes'
  BY <1>3 DEF WalkOnLinkedNodes, TypeOK, Ahead
<1>6. SpliceAtPredecessor'
  <2>1. ASSUME pc'[Writer] = "allocate" PROVE tower[key[Writer]] = 0
    <3>1. Ahead(Writer) # key[Writer]
      BY <2>1 DEF TypeOK
    <3>2. key[Writer] \notin OnLevel(0)
      BY <1>1, <3>1 DEF SortedChains, IsSuccessor
    <3> QED BY <1>1, <3>2 DEF OnLevel, Linking, TypeOK
  <2>2. ASSUME NEW l \in Levels, l < cur_height PROVE Predecessor(l)'
    <3>1. CASE l = 0
      <4>1. prev'[0] = cur[Writer]
        BY <1>1 DEF RecordPrev, TypeOK
      <4> QED BY <1>1, <1>3, <3>1, <4>1 DEF Predecessor
    <3>2. CASE l # 0
      <4>1. prev'[l] = prev[l] /\ Predecessor(l)
        BY <1>1, <2>2, <3>2 DEF RecordPrev, TypeOK, SpliceAtPredecessor
      <4> QED BY <1>3, <4>1 DEF Predecessor
    <3> QED BY <3>1, <3>2
  <2>3. pc'[Writer] \in {"idle", "allocate"}
    BY DEF TypeOK
  <2> QED BY <2>1, <2>2, <2>3 DEF SpliceAtPredecessor, Linking
<1> QED BY <1>2, <1>4, <1>5, <1>6

\* The new node exists; no pointer leads to it yet.
LEMMA AllocateStep ==
    ASSUME IInv, NEW h \in RandomHeights, Allocate(h)
    PROVE  IInv'
<1> DEFINE k == key[Writer]
<1> USE DEF IInv, Allocate, RandomHeights, walk
<1>1. k \in Keys /\ tower[k] = 0 /\ h > 0 /\ tower'[k] = h /\ pc'[Writer] = "fill"
  BY DEF TypeOK, SpliceAtPredecessor
<1>2. TypeOK'
  <2>1. cur_height' \in 1 .. MaxHeight
    BY DEF TypeOK
  <2>2. tower' \in [Keys -> 0 .. MaxHeight]
    BY DEF TypeOK
  <2>3. prev' \in [Levels -> Nodes \cup {Nil}]
    BY DEF TypeOK
  <2>4. /\ pc' \in [Threads -> {"idle", "start", "walk", "allocate", "fill", "link"}]
        /\ \A r \in Readers : pc'[r] = pc[r]
    BY DEF TypeOK
  <2>5. index' \in 0 .. MaxHeight
    OBVIOUS
  <2> QED BY <2>1, <2>2, <2>3, <2>4, <2>5 DEF TypeOK
<1>3. \A l \in Levels : OnLevel(l)' = OnLevel(l)
  <2> SUFFICES ASSUME NEW l \in Levels, NEW n \in Keys
               PROVE  n \in OnLevel(l)' <=> n \in OnLevel(l)
    BY DEF OnLevel
  <2>1. CASE n = k
    BY <1>1, <2>1 DEF OnLevel, Linking, TypeOK
  <2>2. CASE n # k
    BY <1>1, <2>2 DEF OnLevel, Linking, TypeOK
  <2> QED BY <2>1, <2>2
<1>4. SortedChains'
  BY <1>3 DEF SortedChains, IsSuccessor
<1>5. WalkOnLinkedNodes'
  BY <1>3 DEF WalkOnLinkedNodes, TypeOK, Ahead
<1>6. SpliceAtPredecessor'
  <2>1. ASSUME NEW l \in Levels, l < h PROVE Predecessor(l)'
    <3>1. CASE l < cur_height
      BY <1>3, <3>1 DEF Predecessor, SpliceAtPredecessor, TypeOK
    <3>2. CASE l >= cur_height
      <4>1. OnLevel(l) = {}
        BY <3>2 DEF OnLevel, SpliceAtPredecessor, TypeOK
      <4>2. next[l][HeadNode] = Nil
        BY <4>1 DEF SortedChains, IsSuccessor
      <4>3. prev'[l] = HeadNode
        BY <2>1, <3>2
      <4> QED BY <1>1, <4>2, <4>3 DEF Predecessor
    <3> QED BY <3>1, <3>2 DEF TypeOK
  <2>2. \A n \in Keys : tower'[n] <= cur_height'
    BY <1>1 DEF TypeOK, SpliceAtPredecessor
  <2> QED BY <1>1, <1>2, <2>1, <2>2 DEF SpliceAtPredecessor, Linking, TypeOK
<1> QED BY <1>2, <1>4, <1>5, <1>6

\* The new node's pointer is set; the node is still on no level from index up.
LEMMA FillNextStep ==
    ASSUME IInv, FillNext
    PROVE  IInv'
<1> DEFINE k == key[Writer]
           p == prev[index]
<1> USE DEF IInv, FillNext, walk
<1>1. /\ k \in Keys /\ index \in Levels /\ index < tower[k]
      /\ Linking /\ Predecessor(index)
      /\ p \in {HeadNode} \cup OnLevel(index) /\ p < k
      /\ k \notin OnLevel(index)
      /\ next[index][p] \in Keys \cup {Nil}
  BY DEF TypeOK, SpliceAtPredecessor, Linking, Predecessor, OnLevel,
         SortedChains, IsSuccessor
<1>2. TypeOK'
  BY <1>1 DEF TypeOK
<1>3. \A l : OnLevel(l)' = OnLevel(l)
  BY DEF OnLevel, Linking, TypeOK
<1>4. ASSUME NEW l \in Levels, NEW n \in {HeadNode} \cup OnLevel(l)
      PROVE  next'[l][n] = next[l][n]
  BY <1>1 DEF TypeOK, OnLevel
<1>5. SortedChains'
  BY <1>3, <1>4 DEF SortedChains
<1>6. WalkOnLinkedNodes'
  BY <1>3, <1>4 DEF WalkOnLinkedNodes, TypeOK, Ahead, OnLevel
<1>7. SpliceAtPredecessor'
  <2>1. pc'[Writer] = "link"
    BY DEF TypeOK
  <2>2. next'[index][k] = next'[index][p]
    BY <1>1, <1>4 DEF TypeOK
  <2>3. ASSUME NEW l \in Levels, index <= l, l < tower[k]
        PROVE  Predecessor(l)'
    BY <1>1, <1>3, <1>4, <2>3 DEF Predecessor, SpliceAtPredecessor
  <2> QED BY <1>1, <2>1, <2>2, <2>3 DEF SpliceAtPredecessor, Linking
<1> QED BY <1>2, <1>5, <1>6, <1>7

\* The new node joins one more level.
LEMMA LinkOnLevel ==
    ASSUME IInv, Link, NEW l \in Levels
    PROVE  OnLevel(l)' = OnLevel(l) \cup (IF l = index THEN {key[Writer]} ELSE {})
<1> USE DEF IInv, Link
<1>1. /\ key[Writer] \in Keys /\ index \in Levels
      /\ index < tower[key[Writer]] /\ Linking
  BY DEF TypeOK, SpliceAtPredecessor, Linking
<1>2. ASSUME NEW n \in Keys, n # key[Writer]
      PROVE  n \in OnLevel(l)' <=> n \in OnLevel(l)
  BY <1>1, <1>2 DEF OnLevel, Linking, TypeOK
<1>3. key[Writer] \in OnLevel(l) <=> l < index
  BY <1>1 DEF OnLevel, Linking, TypeOK
<1>4. key[Writer] \in OnLevel(l)' <=> l <= index
  <2>1. CASE index + 1 < tower[key[Writer]]
    BY <1>1, <2>1 DEF OnLevel, Linking, TypeOK
  <2>2. CASE ~ (index + 1 < tower[key[Writer]])
    BY <1>1, <2>2 DEF OnLevel, Linking, TypeOK
  <2> QED BY <2>1, <2>2
<1>5. OnLevel(l) \subseteq Keys /\ OnLevel(l)' \subseteq Keys
  BY DEF OnLevel
<1> QED BY <1>1, <1>2, <1>3, <1>4, <1>5

\* Linking a node on one more level keeps the invariant.
LEMMA LinkStep ==
    ASSUME IInv, Link
    PROVE  IInv'
<1> DEFINE k == key[Writer]
           p == prev[index]
           m == next[index][p]
<1> USE DEF IInv, Link, walk
<1>1. /\ k \in Keys /\ index \in Levels /\ index < tower[k]
      /\ Linking /\ Predecessor(index)
      /\ p \in {HeadNode} \cup OnLevel(index) /\ p < k
      /\ p \in Nodes
      /\ k \notin OnLevel(index)
      /\ next[index][k] = m
  BY DEF TypeOK, SpliceAtPredecessor, Linking, Predecessor, OnLevel
<1>2. IsSuccessor(m, p, OnLevel(index)) /\ k < m
  <2>1. IsSuccessor(m, p, OnLevel(index))
    BY <1>1 DEF SortedChains
  <2>2. m \in Keys \cup {Nil} /\ m # k /\ k <= m
    BY <1>1, <2>1 DEF IsSuccessor, Predecessor, OnLevel
  <2> QED BY <1>1, <2>1, <2>2
<1>3. TypeOK'
  <2>1. next' \in [Levels -> [Nodes -> Keys \cup {Nil, Junk}]]
    BY <1>1 DEF TypeOK
  <2>2. pc' \in [Threads -> {"idle", "start", "walk", "allocate", "fill", "link"}]
        /\ \A r \in Readers : pc'[r] = pc[r]
    BY DEF TypeOK
  <2>3. index' \in 0 .. MaxHeight
    BY <1>1
  <2> QED BY <2>1, <2>2, <2>3 DEF TypeOK
<1>4. /\ \A l \in Levels : l # index => OnLevel(l)' = OnLevel(l)
      /\ \A i \in Levels : i = index => OnLevel(i)' = OnLevel(i) \cup {k}
  <2>1. ASSUME NEW l \in Levels, l # index PROVE OnLevel(l)' = OnLevel(l)
    BY <2>1, LinkOnLevel
  <2>2. ASSUME NEW l \in Levels, l = index PROVE OnLevel(l)' = OnLevel(l) \cup {k}
    BY <2>2, LinkOnLevel
  <2> QED BY <2>1, <2>2
<1>5. /\ \A l \in Levels : l # index => next'[l] = next[l]
      /\ \A n \in Nodes : n # p => next'[index][n] = next[index][n]
      /\ next'[index][p] = k
  BY <1>1 DEF TypeOK
<1>6. SortedChains'
  <2> SUFFICES ASSUME NEW l \in Levels, NEW n \in {HeadNode} \cup OnLevel(l)'
               PROVE  IsSuccessor(next'[l][n], n, OnLevel(l)')
    BY DEF SortedChains, IsSuccessor
  <2>1. CASE l # index
    BY <1>4, <1>5, <2>1 DEF SortedChains
  <2>2. CASE l = index /\ n = p
    BY <1>1, <1>2, <1>4, <1>5, <2>2 DEF IsSuccessor, OnLevel
  <2>3. CASE l = index /\ n = k
    BY <1>1, <1>2, <1>4, <1>5, <2>3 DEF IsSuccessor, OnLevel
  <2>4. CASE l = index /\ n # p /\ n # k
    <3>1. n \in {HeadNode} \cup OnLevel(index) /\ n \in Nodes
      BY <1>4, <2>4 DEF OnLevel
    <3>2. next'[index][n] = next[index][n]
      BY <1>5, <2>4, <3>1
    <3>3. IsSuccessor(next[index][n], n, OnLevel(index))
      BY <1>1, <3>1 DEF SortedChains
    <3>4. n < k => next[index][n] <= k
      BY <1>1, <1>2, <2>4, <3>1, <3>3 DEF IsSuccessor, OnLevel
    <3>5. next[index][n] \in OnLevel(l)' \cup {Nil} /\ n < next[index][n]
      BY <1>4, <2>4, <3>3 DEF IsSuccessor
    <3>6. \A j \in OnLevel(l)' : n < j => next[index][n] <= j
      BY <1>4, <2>4, <3>3, <3>4 DEF IsSuccessor
    <3> QED BY <2>4, <3>2, <3>5, <3>6 DEF IsSuccessor
  <2> QED BY <2>1, <2>2, <2>3, <2>4
<1>7. WalkOnLinkedNodes'
  <2> SUFFICES ASSUME NEW s \in Threads, pc'[s] = "walk"
               PROVE  /\ cur[s] \in {HeadNode} \cup OnLevel(level[s])'
                      /\ next'[level[s]][cur[s]] # Junk
                      /\ cur[s] < key[s]
    BY DEF WalkOnLinkedNodes, Ahead
  <2>1. pc[s] = "walk" /\ level[s] \in Levels
    BY DEF TypeOK
  <2>2. cur[s] \in {HeadNode} \cup OnLevel(level[s])'
    BY <1>4, <2>1, LinkOnLevel DEF WalkOnLinkedNodes
  <2> QED BY <2>1, <2>2, <1>6 DEF WalkOnLinkedNodes, SortedChains, IsSuccessor, OnLevel
<1>8. SpliceAtPredecessor'
  <2>1. ASSUME pc'[Writer] = "fill"
        PROVE  index + 1 < tower[k]
    BY <2>1 DEF TypeOK
  <2>2. ASSUME NEW l \in Levels, index + 1 <= l, l < tower[k]
        PROVE  Predecessor(l)'
    BY <1>1, <1>4, <1>5, <2>2 DEF Predecessor, SpliceAtPredecessor, TypeOK
  <2>3. pc'[Writer] \in {"fill", "idle"}
    BY DEF TypeOK
  <2> QED BY <2>1, <2>2, <2>3 DEF SpliceAtPredecessor, Linking
<1> QED BY <1>3, <1>6, <1>7, <1>8

\* The invariant speaks of the variables only.
LEMMA StutterStep ==
    ASSUME IInv, UNCHANGED vars
    PROVE  IInv'
BY DEF IInv, vars, TypeOK, SortedChains, IsSuccessor, WalkOnLinkedNodes, Ahead,
       SpliceAtPredecessor, Predecessor, OnLevel, Linking

\* Every step of a walk keeps the invariant.
LEMMA WalkStepStep ==
    ASSUME IInv, NEW t \in Threads, WalkStep(t)
    PROVE  IInv'
BY LoadHeightStep, ForwardStep, DownStep DEF WalkStep

\* Every step keeps the invariant.
LEMMA NextStep == IInv /\ [Next]_vars => IInv'
<1> SUFFICES ASSUME IInv, [Next]_vars PROVE IInv'
  OBVIOUS
<1>1. CASE \E t \in Threads, k \in Keys : Call(t, k)
  BY <1>1, CallStep
<1>2. CASE InsertStep
  BY <1>2, WalkStepStep, FoundPlaceStep, AllocateStep, FillNextStep, LinkStep
     DEF InsertStep
<1>3. CASE \E r \in Readers : ContainsStep(r)
  BY <1>3, WalkStepStep, ReturnContainsStep DEF ContainsStep
<1>4. CASE UNCHANGED vars
  BY <1>4, StutterStep
<1> QED BY <1>1, <1>2, <1>3, <1>4 DEF Next

\* The inductive invariant holds in every reachable state.
THEOREM Invariance == Spec => []IInv
BY InitIInv, NextStep, PTL DEF Spec

\* Every variable keeps its type.
THEOREM TypeCorrect == Spec => []TypeOK
<1>1. IInv => TypeOK
  BY DEF IInv
<1> QED BY <1>1, Invariance, PTL

\* Every level stays the sorted chain of exactly the nodes linked on it while
\* the stores of Insert (skiplist.h:52-55) interleave with readers.
THEOREM ChainsStaySorted == Spec => []SortedChains
<1>1. IInv => SortedChains
  BY DEF IInv
<1> QED BY <1>1, Invariance, PTL

\* No thread in FindGreaterOrEqual (skiplist.h:73-95) loads a next_ entry that
\* is out of bounds or was never set.
THEOREM WalkIsSafe == Spec => []WalkOnLinkedNodes
<1>1. IInv => WalkOnLinkedNodes
  BY DEF IInv
<1> QED BY <1>1, Invariance, PTL

\* The predecessors Insert gathered are still the right ones when it splices.
THEOREM SpliceIsRight == Spec => []SpliceAtPredecessor
<1>1. IInv => SpliceAtPredecessor
  BY DEF IInv
<1> QED BY <1>1, Invariance, PTL

-----------------------------------------------------------------------------
(* Refinement of OrderedSet.                                               *)

\* The empty list is the empty set.
LEMMA RefineInit == Init => Set!Init
<1> SUFFICES ASSUME Init PROVE Set!Init
  OBVIOUS
<1>1. OnLevel(0) = {}
  BY DEF Init, OnLevel
<1> QED BY <1>1 DEF Init, Set!Init, Set!Threads, abstractStatus

\* A step that moves a thread within its call and links nothing.
LEMMA SilentStep ==
    ASSUME UNCHANGED <<tower, key, answer>>,
           Linking' <=> Linking, Linking => index' = index,
           \A t \in Threads : pc'[t] = "idle" <=> pc[t] = "idle"
    PROVE  UNCHANGED Set!vars
<1>1. OnLevel(0)' = OnLevel(0)
  BY DEF OnLevel
<1>2. abstractStatus' = abstractStatus
  BY DEF abstractStatus
<1> QED BY <1>1, <1>2 DEF Set!vars

\* A call of the list is a call of the set.
LEMMA RefineCall ==
    ASSUME IInv, NEW t \in Threads, NEW k \in Keys, Call(t, k)
    PROVE  Set!Call(t, k)
<1> USE DEF IInv, Call, shared, walk
<1>1. OnLevel(0)' = OnLevel(0)
  BY DEF OnLevel, Linking, TypeOK
<1>2. abstractStatus' = [abstractStatus EXCEPT ![t] = "running"]
  BY DEF abstractStatus, Linking, TypeOK
<1>3. abstractStatus[t] = "idle"
  BY DEF abstractStatus
<1> QED BY <1>1, <1>2, <1>3 DEF Set!Call

\* A step of a walk, before its last load, is a stutter of the set.
LEMMA RefineWalk ==
    ASSUME IInv, IInv', NEW t \in Threads, WalkStep(t)
    PROVE  UNCHANGED Set!vars
<1>1. UNCHANGED <<tower, key, answer, index>>
  BY DEF WalkStep, LoadHeight, Forward, Down, shared
<1>2. \A s \in Threads : pc'[s] = pc[s] \/ (s = t /\ pc[s] = "start" /\ pc'[s] = "walk")
  BY DEF WalkStep, LoadHeight, Forward, Down, IInv, TypeOK
<1>3. Linking' <=> Linking
  BY <1>2 DEF Linking
<1> QED BY <1>1, <1>2, <1>3, SilentStep

\* At its last load Contains sees whether its key is on level 0.
LEMMA RefineLookup ==
    ASSUME IInv, NEW r \in Readers, ReturnContains(r)
    PROVE  Set!Lookup(r)
<1> USE DEF IInv, ReturnContains, shared, walk
<1>1. /\ cur[r] \in {HeadNode} \cup OnLevel(0) /\ cur[r] < key[r]
      /\ key[r] <= Ahead(r) /\ key[r] \in Keys
      /\ IsSuccessor(Ahead(r), cur[r], OnLevel(0))
  BY StopHere DEF AtBottom, TypeOK, Ahead, SortedChains
<1>2. (Ahead(r) # Nil /\ Ahead(r) = key[r]) = (key[r] \in OnLevel(0))
  BY <1>1 DEF IsSuccessor, OnLevel
<1>3. answer' = [answer EXCEPT ![r] = key[r] \in OnLevel(0)]
  BY <1>2
<1>4. OnLevel(0)' = OnLevel(0)
  BY DEF OnLevel, Linking, TypeOK
<1>5. abstractStatus' = [abstractStatus EXCEPT ![r] = "idle"]
  BY DEF abstractStatus, Linking, TypeOK
<1>6. abstractStatus[r] = "running"
  BY DEF abstractStatus, AtBottom
<1> QED BY <1>3, <1>4, <1>5, <1>6 DEF Set!Lookup

\* The end of Insert's walk is the return for a key the set has, or a stutter.
LEMMA RefineFoundPlace ==
    ASSUME IInv, IInv', FoundPlace
    PROVE  Set!RejectInsert \/ UNCHANGED Set!vars
<1> USE DEF FoundPlace, shared, walk
<1>1. /\ pc[Writer] = "walk"
      /\ cur[Writer] \in {HeadNode} \cup OnLevel(0) /\ cur[Writer] < key[Writer]
      /\ IsSuccessor(Ahead(Writer), cur[Writer], OnLevel(0))
      /\ key[Writer] \in Keys
  BY StopHere DEF AtBottom, TypeOK, Ahead, SortedChains, IInv
<1>2. CASE Ahead(Writer) = key[Writer]
  <2>1. key[Writer] \in OnLevel(0)
    BY <1>1, <1>2 DEF IsSuccessor
  <2>2. OnLevel(0)' = OnLevel(0)
    BY <1>1, <1>2 DEF OnLevel, Linking, TypeOK, IInv
  <2>3. abstractStatus' = [abstractStatus EXCEPT ![Writer] = "idle"]
    BY <1>1, <1>2 DEF abstractStatus, Linking, TypeOK, IInv
  <2>4. abstractStatus[Writer] = "running"
    BY <1>1 DEF abstractStatus, Linking
  <2> QED BY <2>1, <2>2, <2>3, <2>4 DEF Set!RejectInsert
<1>3. CASE Ahead(Writer) # key[Writer]
  <2>1. pc' = [pc EXCEPT ![Writer] = "allocate"]
    BY <1>3
  <2>2. ~ Linking /\ ~ Linking'
    BY <1>1, <2>1 DEF Linking, TypeOK, IInv
  <2>3. \A s \in Threads : pc'[s] = "idle" <=> pc[s] = "idle"
    BY <1>1, <2>1 DEF TypeOK, IInv
  <2> QED BY <2>2, <2>3, SilentStep
<1> QED BY <1>2, <1>3

\* Allocating a node is invisible in the set.
LEMMA RefineAllocate ==
    ASSUME IInv, IInv', NEW h \in RandomHeights, Allocate(h)
    PROVE  UNCHANGED Set!vars
<1> USE DEF Allocate, walk
<1>1. /\ key[Writer] \in Keys /\ tower[key[Writer]] = 0
      /\ pc'[Writer] = "fill" /\ pc[Writer] = "allocate" /\ index' = 0
  BY DEF IInv, TypeOK, SpliceAtPredecessor
<1>2. \A n \in Keys : n \in OnLevel(0)' <=> n \in OnLevel(0)
  BY <1>1 DEF OnLevel, Linking, IInv, TypeOK
<1>3. OnLevel(0)' = OnLevel(0)
  BY <1>2 DEF OnLevel
<1>4. abstractStatus' = abstractStatus
  BY <1>1 DEF abstractStatus, Linking, IInv, TypeOK
<1> QED BY <1>3, <1>4 DEF Set!vars

\* Filling next_ of a node is invisible in the set.
LEMMA RefineFillNext ==
    ASSUME IInv, IInv', FillNext
    PROVE  UNCHANGED Set!vars
<1> USE DEF FillNext, walk
<1>1. Linking /\ Linking'
  BY DEF Linking, IInv, TypeOK
<1>2. \A s \in Threads : pc'[s] = "idle" <=> pc[s] = "idle"
  BY DEF IInv, TypeOK
<1> QED BY <1>1, <1>2, SilentStep

\* Insert takes effect when its node appears on level 0.
LEMMA RefineLink ==
    ASSUME IInv, IInv', Link
    PROVE  Set!ApplyInsert \/ Set!ReturnInsert \/ UNCHANGED Set!vars
<1> USE DEF Link, walk
<1> DEFINE s == IF index + 1 < tower[key[Writer]] THEN "applied" ELSE "idle"
<1>1. /\ key[Writer] \in Keys /\ index \in Levels /\ Linking
      /\ index < tower[key[Writer]] /\ 0 \in Levels /\ pc[Writer] = "link"
  BY DEF IInv, TypeOK, SpliceAtPredecessor, Linking
<1>2. abstractStatus' = [abstractStatus EXCEPT ![Writer] = s]
  <2>1. CASE index + 1 < tower[key[Writer]]
    <3>1. pc'[Writer] = "fill" /\ index' > 0 /\ Linking'
      BY <1>1, <2>1 DEF Linking, IInv, TypeOK
    <3>2. \A t \in Threads : t # Writer => pc'[t] = pc[t]
      BY DEF IInv, TypeOK
    <3> QED BY <1>1, <2>1, <3>1, <3>2 DEF abstractStatus
  <2>2. CASE ~ (index + 1 < tower[key[Writer]])
    BY <1>1, <2>2 DEF abstractStatus, Linking, IInv, TypeOK
  <2> QED BY <2>1, <2>2
<1>3. OnLevel(0)' = OnLevel(0) \cup (IF 0 = index THEN {key[Writer]} ELSE {})
  BY <1>1, LinkOnLevel
<1>4. CASE index = 0
  <2>1. abstractStatus[Writer] = "running"
    BY <1>1, <1>4 DEF abstractStatus
  <2>2. key[Writer] \notin OnLevel(0)
    BY <1>1, <1>4 DEF OnLevel
  <2>3. OnLevel(0)' = OnLevel(0) \cup {key[Writer]}
    BY <1>3, <1>4
  <2> QED BY <1>2, <2>1, <2>2, <2>3 DEF Set!ApplyInsert
<1>5. CASE index # 0
  <2>1. abstractStatus[Writer] = "applied"
    BY <1>1, <1>5 DEF abstractStatus
  <2>2. OnLevel(0)' = OnLevel(0)
    BY <1>3, <1>5
  <2>3. abstractStatus' = abstractStatus \/ abstractStatus' = [abstractStatus EXCEPT ![Writer] = "idle"]
    BY <1>2, <2>1 DEF abstractStatus
  <2> QED BY <2>1, <2>2, <2>3 DEF Set!ReturnInsert, Set!vars
<1> QED BY <1>4, <1>5

\* Every step of the list is a step of the set, or a stutter.
LEMMA RefineNext == IInv /\ IInv' /\ [Next]_vars => [Set!Next]_(Set!vars)
<1> SUFFICES ASSUME IInv, IInv', [Next]_vars PROVE [Set!Next]_(Set!vars)
  OBVIOUS
<1>1. CASE \E t \in Threads, k \in Keys : Call(t, k)
  BY <1>1, RefineCall DEF Set!Next, Set!Threads
<1>2. CASE InsertStep
  BY <1>2, RefineWalk, RefineFoundPlace, RefineAllocate, RefineFillNext, RefineLink
     DEF InsertStep, Set!Next
<1>3. CASE \E r \in Readers : ContainsStep(r)
  BY <1>3, RefineWalk, RefineLookup DEF ContainsStep, Set!Next
<1>4. CASE UNCHANGED vars
  BY <1>4 DEF vars, Set!vars, OnLevel, Linking, abstractStatus
<1> QED BY <1>1, <1>2, <1>3, <1>4 DEF Next

\* Contains and Insert are linearizable: the skip list with its unlocked readers
\* behaves as a set whose operations happen at one instant each.
THEOREM LinearizableTheorem == Spec => Linearizable
<1>1. Spec => []IInv
  BY Invariance
<1>2. Spec => Set!Init
  BY RefineInit DEF Spec
<1>3. []IInv /\ [][Next]_vars => [][Set!Next]_(Set!vars)
  BY RefineNext, PTL
<1> QED BY <1>1, <1>2, <1>3, PTL DEF Spec, Linearizable, Set!Spec

-----------------------------------------------------------------------------
(* Stores in program order.  With ProgramOrder the readers see a memory the *)
(* writer left behind: every store in flight leads from one memory that is  *)
(* a sound list to the next, up to the memory the writer sees.              *)

\* A memory: cur_height_, every next_ pointer, and the constructed nodes.
Memories == [height : 1 .. MaxHeight, next : [Levels -> [Nodes -> Keys \cup {Nil, Junk}]],
             keys : SUBSET Nodes]

\* What the writer may have in flight.
Stores == {HeightStore(h) : h \in 1 .. MaxHeight} \cup {KeyStore(k) : k \in Keys}
          \cup {NextStore(l, n, m) : l \in Levels, n \in Nodes, m \in Keys \cup {Nil}}

\* What the readers see, and what the writer does.
Seen   == [height |-> seenHeight, next |-> seenNext, keys |-> seenKeys]
Actual == [height |-> cur_height, next |-> next,
           keys |-> {HeadNode} \cup {k \in Keys : tower[k] > 0}]

\* The keys a pointer of level l leads to in a memory.
KeysOn(m, l) == {k \in Keys : \E n \in Nodes : m.next[l][n] = k}

\* SeenChains of a memory, whose nodes are constructed.
Sound(m) ==
    \A l \in Levels :
        /\ \A n \in {HeadNode} \cup KeysOn(m, l) : IsSuccessor(m.next[l][n], n, KeysOn(m, l))
        /\ l > 0 => KeysOn(m, l) \subseteq KeysOn(m, l - 1)
        /\ KeysOn(m, l) \subseteq m.keys

\* m2 has on every level what m has.
Grows(m, m2) == \A l \in Levels : KeysOn(m, l) \subseteq KeysOn(m2, l)

\* Store s leads from m to m2.
StoreStep(m, s, m2) ==
    /\ m2.height = IF s.cell[1] = "height" THEN s.value ELSE m.height
    /\ m2.keys = IF s.cell[1] = "key" THEN m.keys \cup {s.value} ELSE m.keys
    /\ m2.next = IF s.cell[1] = "next"
                 THEN [m.next EXCEPT ![s.cell[2]][s.cell[3]] = s.value]
                 ELSE m.next

\* The stores of q lead from the first memory to the last.
History(M, q, first, last) ==
    /\ M[0] = first /\ M[Len(q)] = last
    /\ \A i \in 0 .. Len(q) : Sound(M[i])
    /\ \A i \in 1 .. Len(q) : StoreStep(M[i - 1], q[i], M[i])
    /\ \A i, j \in 0 .. Len(q) : i <= j => Grows(M[i], M[j])

\* The stores in flight lead from what the readers see to what the writer did.
InFlightIInv ==
    /\ inflight \in Seq(Stores)
    /\ \E M \in [0 .. Len(inflight) -> Memories] : History(M, inflight, Seen, Actual)

\* A pointer leads to a linked node or is not set, and a linked node is led to.
Pointed ==
    \A l \in Levels :
        /\ \A n \in Nodes : next[l][n] \in OnLevel(l) \cup {Nil, Junk}
        /\ \A k \in OnLevel(l) : \E n \in {HeadNode} \cup OnLevel(l) : next[l][n] = k

\* A reader stands on a node that the readers see linked.
ReadersOnSeen ==
    \A r \in Readers : pc[r] = "walk" => cur[r] \in {HeadNode} \cup KeysOn(Seen, level[r])

\* Inductive for RelaxedSpec when stores become visible in program order.
RelaxedIInv == IInv /\ Pointed /\ InFlightIInv /\ ReadersOnSeen

\* The memory of the writer is a sound list of the nodes it linked.
ActualIsList ==
    /\ Actual \in Memories /\ Sound(Actual)
    /\ \A l \in Levels : KeysOn(Actual, l) = OnLevel(l)

\* The memory of the writer is sound.
LEMMA ActualIsSound == IInv /\ Pointed => ActualIsList
<1> SUFFICES ASSUME IInv, Pointed PROVE ActualIsList
  OBVIOUS
<1>1. Actual \in Memories
  BY DEF IInv, TypeOK, Actual, Memories
<1>2. ASSUME NEW l \in Levels PROVE KeysOn(Actual, l) = OnLevel(l)
  <2>1. KeysOn(Actual, l) = {k \in Keys : \E n \in Nodes : next[l][n] = k}
    BY DEF KeysOn, Actual
  <2>2. OnLevel(l) \subseteq Keys
    BY DEF OnLevel
  <2>3. ASSUME NEW k \in Keys, NEW n \in Nodes, next[l][n] = k PROVE k \in OnLevel(l)
    BY <2>3 DEF Pointed
  <2>4. ASSUME NEW k \in OnLevel(l) PROVE \E n \in Nodes : next[l][n] = k
    BY <2>2, <2>4 DEF Pointed
  <2> QED BY <2>1, <2>2, <2>3, <2>4
<1>3. ASSUME NEW l \in Levels
      PROVE  /\ \A n \in {HeadNode} \cup KeysOn(Actual, l) :
                    IsSuccessor(Actual.next[l][n], n, KeysOn(Actual, l))
             /\ l > 0 => KeysOn(Actual, l) \subseteq KeysOn(Actual, l - 1)
             /\ KeysOn(Actual, l) \subseteq Actual.keys
  <2>1. Actual.next = next /\ Actual.keys = {HeadNode} \cup {k \in Keys : tower[k] > 0}
    BY DEF Actual
  <2>2. \A n \in {HeadNode} \cup OnLevel(l) : IsSuccessor(next[l][n], n, OnLevel(l))
    BY DEF IInv, SortedChains
  <2>3. OnLevel(l) \subseteq {k \in Keys : tower[k] > 0}
    BY DEF OnLevel, IInv, TypeOK
  <2>4. l > 0 => l - 1 \in Levels /\ OnLevel(l) \subseteq OnLevel(l - 1)
    BY LowerLevel
  <2>5. l > 0 => KeysOn(Actual, l - 1) = OnLevel(l - 1)
    BY <1>2, <2>4
  <2> QED BY <1>2, <2>1, <2>2, <2>3, <2>4, <2>5
<1> QED BY <1>1, <1>2, <1>3 DEF Sound, ActualIsList

\* So it is after a step.
LEMMA ActualStaysSound == IInv' /\ Pointed' => ActualIsList'
BY ActualIsSound, PTL

\* One store more at the end of a history.
LEMMA HistoryExtended ==
    ASSUME NEW q \in Seq(Stores), NEW M \in [0 .. Len(q) -> Memories], NEW first, NEW last,
           History(M, q, first, last), NEW s \in Stores, NEW m \in Memories,
           Sound(m), StoreStep(last, s, m), Grows(last, m)
    PROVE  /\ Append(q, s) \in Seq(Stores)
           /\ \E N \in [0 .. Len(Append(q, s)) -> Memories] : History(N, Append(q, s), first, m)
<1> DEFINE n == Len(q)
           p == Append(q, s)
           N == [i \in 0 .. n + 1 |-> IF i = n + 1 THEN m ELSE M[i]]
<1>1. /\ n \in Nat /\ p \in Seq(Stores) /\ Len(p) = n + 1 /\ p[n + 1] = s
      /\ \A i \in 1 .. n : p[i] = q[i]
  <2> DEFINE X == Stores
  <2>1. q \in Seq(X) /\ s \in X
    OBVIOUS
  <2> HIDE DEF X
  <2>2. /\ Append(q, s) \in Seq(X) /\ Len(Append(q, s)) = Len(q) + 1
        /\ Append(q, s)[Len(q) + 1] = s /\ \A i \in 1 .. Len(q) : Append(q, s)[i] = q[i]
    BY <2>1, AppendProperties
  <2> QED BY <2>2 DEF X
<1>2. /\ M[0] = first /\ M[n] = last
      /\ \A i \in 0 .. n : Sound(M[i])
      /\ \A i \in 1 .. n : StoreStep(M[i - 1], q[i], M[i])
      /\ \A i, j \in 0 .. n : i <= j => Grows(M[i], M[j])
  BY DEF History
<1>3. \A i \in 0 .. n : M[i] \in Memories
  OBVIOUS
<1> HIDE DEF n, p
<1>4. /\ N \in [0 .. n + 1 -> Memories] /\ N[n + 1] = m
      /\ \A i \in 0 .. n : N[i] = M[i]
  BY <1>1, <1>3
<1> HIDE DEF N
<1>5. N[0] = first /\ \A i \in 0 .. n + 1 : Sound(N[i])
  BY <1>1, <1>2, <1>4
<1>6. ASSUME NEW i \in 1 .. n + 1 PROVE StoreStep(N[i - 1], p[i], N[i])
  <2>1. CASE i = n + 1
    <3>1. i - 1 = n /\ N[i - 1] = last /\ p[i] = s /\ N[i] = m
      BY <1>1, <1>2, <1>4, <2>1
    <3> QED BY <3>1
  <2>2. CASE i # n + 1
    <3>1. i \in 1 .. n /\ i - 1 \in 0 .. n /\ i \in 0 .. n
      BY <1>1, <2>2
    <3> QED BY <1>1, <1>2, <1>4, <3>1
  <2> QED BY <2>1, <2>2
<1>7. ASSUME NEW i \in 0 .. n + 1, NEW j \in 0 .. n + 1, i <= j PROVE Grows(N[i], N[j])
  <2>1. CASE i = n + 1
    <3>1. N[i] = N[j]
      BY <1>1, <1>7, <2>1
    <3> QED BY <3>1 DEF Grows
  <2>2. CASE i # n + 1 /\ j = n + 1
    <3>1. i \in 0 .. n /\ n \in 0 .. n /\ N[i] = M[i] /\ N[j] = m
      BY <1>1, <1>4, <2>2
    <3>2. Grows(M[i], last)
      BY <1>1, <1>2, <3>1
    <3> QED BY <3>1, <3>2 DEF Grows
  <2>3. CASE i # n + 1 /\ j # n + 1
    <3>1. i \in 0 .. n /\ j \in 0 .. n
      BY <1>1, <2>3
    <3> QED BY <1>2, <1>4, <1>7, <3>1
  <2> QED BY <2>1, <2>2, <2>3
<1>8. History(N, p, first, m)
  BY <1>1, <1>4, <1>5, <1>6, <1>7 DEF History
<1> QED BY <1>1, <1>4, <1>8 DEF p

\* The oldest store of a history reaches memory.
LEMMA HistoryShortened ==
    ASSUME NEW q \in Seq(Stores), NEW M \in [0 .. Len(q) -> Memories], NEW first, NEW last,
           History(M, q, first, last), Len(q) > 0
    PROVE  /\ RemoveAt(q, 1) \in Seq(Stores) /\ q[1] \in Stores
           /\ M[1] \in Memories /\ Sound(M[1]) /\ Grows(first, M[1])
           /\ StoreStep(first, q[1], M[1])
           /\ \E N \in [0 .. Len(RemoveAt(q, 1)) -> Memories] : History(N, RemoveAt(q, 1), M[1], last)
<1> DEFINE n == Len(q) - 1
           p == RemoveAt(q, 1)
           N == [i \in 0 .. n |-> M[i + 1]]
<1>1. n \in Nat /\ Len(q) = n + 1
  OBVIOUS
<1>2. p \in Seq(Stores) /\ Len(p) = n /\ \A i \in 1 .. n : p[i] = q[i + 1]
  <2> DEFINE X == Stores
             a == SubSeq(q, 1, 0)
             b == SubSeq(q, 2, Len(q))
  <2>1. q \in Seq(X) /\ Len(q) = n + 1 /\ n \in Nat
    BY <1>1
  <2>2. p = a \o b
    BY DEF RemoveAt
  <2> HIDE DEF X, p, n
  <2>3. a = <<>>
    BY <2>1
  <2>4. /\ b \in Seq(X) /\ Len(b) = IF 2 <= Len(q) THEN Len(q) - 2 + 1 ELSE 0
        /\ \A i \in 1 .. Len(q) - 2 + 1 : b[i] = q[2 + i - 1]
    <3>1. \A i \in 2 .. Len(q) : q[i] \in X
      BY <2>1
    <3> QED BY <2>1, <3>1, SubSeqProperties
  <2>5. Len(b) = n /\ \A i \in 1 .. n : b[i] = q[i + 1]
    BY <2>1, <2>4
  <2> HIDE DEF a, b
  <2>6. p = b
    BY <2>2, <2>3, <2>4, ConcatEmptySeq
  <2> QED BY <2>4, <2>5, <2>6 DEF X
<1>3. /\ M[0] = first /\ M[n + 1] = last
      /\ \A i \in 0 .. n + 1 : Sound(M[i])
      /\ \A i \in 1 .. n + 1 : StoreStep(M[i - 1], q[i], M[i])
      /\ \A i, j \in 0 .. n + 1 : i <= j => Grows(M[i], M[j])
  <2> HIDE DEF n
  <2> QED BY <1>1 DEF History
<1>4. \A i \in 0 .. n + 1 : M[i] \in Memories
  BY <1>1
<1>5. q[1] \in Stores
  BY <1>1, ElementOfSeq
<1> HIDE DEF n, p
<1>6. /\ N \in [0 .. n -> Memories]
      /\ \A i \in 0 .. n : i + 1 \in 0 .. n + 1 /\ N[i] = M[i + 1]
  BY <1>1, <1>4
<1> HIDE DEF N
<1>7. N[0] = M[1] /\ N[n] = last /\ \A i \in 0 .. n : Sound(N[i])
  BY <1>1, <1>3, <1>6
<1>8. ASSUME NEW i \in 1 .. n PROVE StoreStep(N[i - 1], p[i], N[i])
  <2>1. /\ i \in 0 .. n /\ i - 1 \in 0 .. n /\ i + 1 \in 1 .. n + 1 /\ (i - 1) + 1 = i
        /\ (i + 1) - 1 = i
    BY <1>1
  <2>2. StoreStep(M[(i + 1) - 1], q[i + 1], M[i + 1])
    BY <1>3, <2>1
  <2>3. N[i - 1] = M[i] /\ N[i] = M[i + 1] /\ p[i] = q[i + 1]
    BY <1>2, <1>6, <2>1
  <2> QED BY <2>1, <2>2, <2>3
<1>9. ASSUME NEW i \in 0 .. n, NEW j \in 0 .. n, i <= j PROVE Grows(N[i], N[j])
  <2>1. i + 1 \in 0 .. n + 1 /\ j + 1 \in 0 .. n + 1 /\ i + 1 <= j + 1
    BY <1>1, <1>9
  <2> QED BY <1>3, <1>6, <2>1
<1>10. History(N, p, M[1], last)
  BY <1>2, <1>7, <1>8, <1>9 DEF History
<1>11. /\ 0 \in 0 .. n + 1 /\ 1 \in 0 .. n + 1 /\ 1 \in 1 .. n + 1 /\ 1 - 1 = 0
  BY <1>1
<1>12. Grows(first, M[1]) /\ StoreStep(first, q[1], M[1])
  BY <1>3, <1>11
<1> QED BY <1>2, <1>3, <1>4, <1>5, <1>6, <1>10, <1>11, <1>12 DEF p

\* A step that neither stores nor sees a store, and moves readers soundly.
LEMMA QuietStep ==
    ASSUME RelaxedIInv, IInv', UNCHANGED <<shared, inflight, memory>>,
           \A l \in Levels : OnLevel(l)' = OnLevel(l), ReadersOnSeen'
    PROVE  RelaxedIInv'
<1>1. Seen' = Seen
  BY DEF Seen, memory
<1>2. Actual' = Actual
  BY DEF Actual, shared
<1>3. InFlightIInv'
  BY <1>1, <1>2 DEF RelaxedIInv, InFlightIInv
<1>4. Pointed'
  BY DEF RelaxedIInv, Pointed, shared
<1> QED BY <1>3, <1>4 DEF RelaxedIInv

\* What the readers see linked is linked.
LEMMA SeenIsLinked ==
    ASSUME RelaxedIInv
    PROVE  /\ Seen \in Memories /\ Sound(Seen)
           /\ \A l \in Levels : KeysOn(Seen, l) \subseteq OnLevel(l)
<1>1. PICK M \in [0 .. Len(inflight) -> Memories] : History(M, inflight, Seen, Actual)
  BY DEF RelaxedIInv, InFlightIInv
<1>2. Len(inflight) \in Nat
  BY DEF RelaxedIInv, InFlightIInv
<1>3. /\ M[0] = Seen /\ M[Len(inflight)] = Actual
      /\ M[0] \in Memories /\ Sound(M[0]) /\ Grows(M[0], M[Len(inflight)])
  BY <1>1, <1>2 DEF History
<1>4. \A l \in Levels : KeysOn(Actual, l) = OnLevel(l)
  BY ActualIsSound DEF RelaxedIInv, ActualIsList
<1> QED BY <1>3, <1>4 DEF Grows

\* A reader that does not store moves to a node it sees linked.
LEMMA ReaderKeeps ==
    ASSUME RelaxedIInv, NEW r \in Readers, TypeOK',
           UNCHANGED <<shared, prev, index, inflight, memory>>,
           \A t \in Threads : t # r => /\ pc'[t] = pc[t] /\ key'[t] = key[t]
                                       /\ cur'[t] = cur[t] /\ level'[t] = level[t],
           pc'[r] = "walk" => /\ cur'[r] \in {HeadNode} \cup KeysOn(Seen, level'[r])
                              /\ cur'[r] < key'[r]
    PROVE  RelaxedIInv'
<1>1. /\ IInv /\ Writer # r /\ Writer \in Threads
      /\ pc'[Writer] = pc[Writer] /\ key'[Writer] = key[Writer] /\ level'[Writer] = level[Writer]
  BY DEF RelaxedIInv
<1>2. /\ Linking' <=> Linking
      /\ \A l : OnLevel(l)' = OnLevel(l)
  <2>1. UNCHANGED <<tower, index>>
    BY DEF shared
  <2> QED BY <1>1, <2>1, OnLevelFrame
<1>3. next' = next /\ cur_height' = cur_height /\ tower' = tower /\ prev' = prev /\ index' = index
  BY DEF shared
<1>4. SortedChains'
  BY <1>1, <1>2, <1>3 DEF IInv, SortedChains, IsSuccessor
<1>5. WalkOnLinkedNodes'
  <2> SUFFICES ASSUME NEW s \in Threads, pc'[s] = "walk"
               PROVE  /\ cur'[s] \in {HeadNode} \cup OnLevel(level[s])'
                      /\ next'[level'[s]][cur'[s]] # Junk
                      /\ cur'[s] < key'[s]
    BY DEF WalkOnLinkedNodes, Ahead
  <2>1. CASE s = r
    <3>1. level'[r] \in Levels
      BY DEF TypeOK
    <3>2. cur'[r] \in {HeadNode} \cup OnLevel(level'[r])
      BY <2>1, <3>1, SeenIsLinked
    <3>3. next[level'[r]][cur'[r]] # Junk
      BY <1>1, <3>1, <3>2 DEF IInv, SortedChains, IsSuccessor, OnLevel
    <3> QED BY <1>2, <1>3, <2>1, <3>2, <3>3 DEF OnLevel
  <2>2. CASE s # r
    <3>1. cur'[s] = cur[s] /\ level'[s] = level[s] /\ pc[s] = "walk" /\ key'[s] = key[s]
      BY <2>2
    <3> QED BY <1>1, <1>2, <1>3, <3>1 DEF IInv, WalkOnLinkedNodes, Ahead, OnLevel
  <2> QED BY <2>1, <2>2
<1>6. SpliceAtPredecessor'
  BY <1>1, <1>2, <1>3 DEF IInv, SpliceAtPredecessor, Predecessor, Linking, TypeOK
<1>7. IInv'
  BY <1>4, <1>5, <1>6 DEF IInv
<1>8. ReadersOnSeen'
  <2>1. Seen' = Seen
    BY DEF Seen, memory
  <2> SUFFICES ASSUME NEW s \in Readers, pc'[s] = "walk"
               PROVE  cur'[s] \in {HeadNode} \cup KeysOn(Seen, level'[s])
    BY <2>1 DEF ReadersOnSeen, KeysOn
  <2>2. CASE s = r
    BY <2>2
  <2>3. CASE s # r
    BY <2>3 DEF RelaxedIInv, ReadersOnSeen
  <2> QED BY <2>2, <2>3
<1> QED BY <1>2, <1>7, <1>8, QuietStep

\* The entry a reader stands at is set and leads to what it sees linked.
LEMMA SeenAheadFacts ==
    ASSUME RelaxedIInv, NEW r \in Readers, pc[r] = "walk"
    PROVE  /\ level[r] \in Levels /\ cur[r] \in {HeadNode} \cup KeysOn(Seen, level[r])
           /\ SeenAhead(r) \in KeysOn(Seen, level[r]) \cup {Nil}
           /\ KeysOn(Seen, level[r]) \subseteq Keys
           /\ \A k \in KeysOn(Seen, level[r]) : cur[r] < k => SeenAhead(r) <= k
           /\ SeenAhead(r) # Nil => SeenAhead(r) \in seenKeys
           /\ cur[r] \in Nodes /\ cur[r] < key[r] /\ key[r] \in Keys
<1>1. /\ level[r] \in Levels /\ cur[r] \in Nodes /\ key[r] \in Keys /\ cur[r] < key[r]
      /\ cur[r] \in {HeadNode} \cup KeysOn(Seen, level[r])
  BY DEF RelaxedIInv, IInv, TypeOK, WalkOnLinkedNodes, ReadersOnSeen
<1>2. Seen.next = seenNext /\ Seen.keys = seenKeys
  BY DEF Seen
<1>3. IsSuccessor(SeenAhead(r), cur[r], KeysOn(Seen, level[r])) /\ KeysOn(Seen, level[r]) \subseteq seenKeys
  BY <1>1, <1>2, SeenIsLinked DEF Sound, SeenAhead
<1>4. KeysOn(Seen, level[r]) \subseteq Keys
  BY DEF KeysOn
<1> QED BY <1>1, <1>3, <1>4 DEF IsSuccessor

\* A call of Contains.
LEMMA ReaderCallStep ==
    ASSUME RelaxedIInv, NEW r \in Readers, NEW k \in Keys, ReaderCall(r, k)
    PROVE  RelaxedIInv'
<1>1. Call(r, k) /\ UNCHANGED <<inflight, memory>> /\ IInv /\ r \in Threads /\ r # Writer
  BY DEF ReaderCall, RelaxedIInv
<1>2. IInv'
  BY <1>1, CallStep
<1>3. \A t \in Threads : t # r => /\ pc'[t] = pc[t] /\ key'[t] = key[t]
                                  /\ cur'[t] = cur[t] /\ level'[t] = level[t]
  BY <1>1 DEF Call, walk, IInv, TypeOK
<1>4. pc'[r] = "start" /\ UNCHANGED <<shared, prev, index>>
  BY <1>1 DEF Call, IInv, TypeOK
<1> QED BY <1>1, <1>2, <1>3, <1>4, ReaderKeeps DEF IInv

\* The steps of Contains over the memory the readers see.
LEMMA ReaderStepStep ==
    ASSUME RelaxedIInv, NEW r \in Readers,
           ReaderLoadHeight(r) \/ ReaderForward(r) \/ ReaderDown(r) \/ ReaderReturn(r)
    PROVE  RelaxedIInv'
<1>0. IInv /\ TypeOK
  BY DEF RelaxedIInv, IInv
<1>1. CASE ReaderLoadHeight(r)
  <2>1. seenHeight - 1 \in Levels
    <3>1. Seen.height \in 1 .. MaxHeight
      BY SeenIsLinked DEF Memories
    <3>2. seenHeight \in 1 .. MaxHeight
      BY <3>1 DEF Seen
    <3> QED BY <3>2
  <2>2. TypeOK'
    BY <1>0, <1>1, <2>1 DEF TypeOK, ReaderLoadHeight, shared
  <2>3. UNCHANGED <<shared, prev, index, inflight, memory>>
    BY <1>1 DEF ReaderLoadHeight
  <2>4. \A t \in Threads : t # r => /\ pc'[t] = pc[t] /\ key'[t] = key[t]
                                    /\ cur'[t] = cur[t] /\ level'[t] = level[t]
    BY <1>0, <1>1 DEF TypeOK, ReaderLoadHeight
  <2>5. cur'[r] = HeadNode /\ HeadNode < key'[r]
    BY <1>0, <1>1 DEF TypeOK, ReaderLoadHeight
  <2> QED BY <2>2, <2>3, <2>4, <2>5, ReaderKeeps
<1>2. CASE ReaderForward(r)
  <2>1. pc[r] = "walk" /\ SeenAhead(r) # Nil /\ SeenAhead(r) < key[r]
    BY <1>2 DEF ReaderForward, KeyIsAfterNode
  <2>2. SeenAhead(r) \in KeysOn(Seen, level[r]) /\ SeenAhead(r) \in Nodes
    BY <2>1, SeenAheadFacts
  <2>3. TypeOK'
    BY <1>0, <1>2, <2>2 DEF TypeOK, ReaderForward, shared
  <2>4. UNCHANGED <<shared, prev, index, inflight, memory>>
    BY <1>2 DEF ReaderForward
  <2>5. \A t \in Threads : t # r => /\ pc'[t] = pc[t] /\ key'[t] = key[t]
                                    /\ cur'[t] = cur[t] /\ level'[t] = level[t]
    BY <1>0, <1>2 DEF TypeOK, ReaderForward
  <2>6. cur'[r] \in {HeadNode} \cup KeysOn(Seen, level'[r]) /\ cur'[r] < key'[r]
    BY <1>0, <1>2, <2>1, <2>2 DEF TypeOK, ReaderForward
  <2> QED BY <2>3, <2>4, <2>5, <2>6, ReaderKeeps
<1>3. CASE ReaderDown(r)
  <2>1. /\ pc[r] = "walk" /\ level[r] \in Levels /\ level[r] > 0 /\ level[r] - 1 \in Levels
        /\ level' = [level EXCEPT ![r] = level[r] - 1]
    BY <1>0, <1>3 DEF ReaderDown, TypeOK
  <2>2. cur[r] \in {HeadNode} \cup KeysOn(Seen, level[r] - 1) /\ cur[r] < key[r]
    BY <2>1, SeenAheadFacts, SeenIsLinked DEF Sound
  <2>3. TypeOK'
    BY <1>0, <1>3, <2>1 DEF TypeOK, ReaderDown, shared
  <2>4. UNCHANGED <<shared, prev, index, inflight, memory>>
    BY <1>3 DEF ReaderDown
  <2>5. \A t \in Threads : t # r => /\ pc'[t] = pc[t] /\ key'[t] = key[t]
                                    /\ cur'[t] = cur[t] /\ level'[t] = level[t]
    BY <1>0, <1>3 DEF TypeOK, ReaderDown
  <2>6. cur'[r] = cur[r] /\ key'[r] = key[r] /\ level'[r] = level[r] - 1
    BY <1>0, <1>3 DEF TypeOK, ReaderDown
  <2> QED BY <2>2, <2>3, <2>4, <2>5, <2>6, ReaderKeeps
<1>4. CASE ReaderReturn(r)
  <2>1. TypeOK'
    BY <1>0, <1>4 DEF TypeOK, ReaderReturn, shared, walk
  <2>2. UNCHANGED <<shared, prev, index, inflight, memory>>
    BY <1>4 DEF ReaderReturn
  <2>3. \A t \in Threads : t # r => /\ pc'[t] = pc[t] /\ key'[t] = key[t]
                                    /\ cur'[t] = cur[t] /\ level'[t] = level[t]
    BY <1>0, <1>4 DEF TypeOK, ReaderReturn, walk
  <2>4. pc'[r] = "idle"
    BY <1>0, <1>4 DEF TypeOK, ReaderReturn
  <2> QED BY <2>1, <2>2, <2>3, <2>4, ReaderKeeps
<1> QED BY <1>1, <1>2, <1>3, <1>4

\* The oldest store in flight becomes visible.
LEMMA VisibleStep ==
    ASSUME RelaxedIInv, ProgramOrder, NEW i \in 1 .. Len(inflight), BecomeVisible(i)
    PROVE  RelaxedIInv'
<1>1. inflight \in Seq(Stores) /\ Len(inflight) \in Nat /\ Len(inflight) > 0
  BY DEF RelaxedIInv, InFlightIInv
<1>2. i = 1
  <2>1. \A j \in 1 .. i - 1 : ~ ProgramOrder
    BY DEF BecomeVisible
  <2>2. i # 1 => 1 \in 1 .. i - 1
    OBVIOUS
  <2> QED BY <2>1, <2>2
<1>3. PICK M \in [0 .. Len(inflight) -> Memories] : History(M, inflight, Seen, Actual)
  BY DEF RelaxedIInv, InFlightIInv
<1>4. /\ RemoveAt(inflight, 1) \in Seq(Stores)
      /\ M[1] \in Memories /\ Sound(M[1]) /\ Grows(Seen, M[1])
      /\ StoreStep(Seen, inflight[1], M[1])
      /\ \E N \in [0 .. Len(RemoveAt(inflight, 1)) -> Memories] :
            History(N, RemoveAt(inflight, 1), M[1], Actual)
  BY <1>1, <1>3, HistoryShortened
<1> DEFINE s == inflight[1]
<1>5. /\ inflight' = RemoveAt(inflight, 1) /\ UNCHANGED vars
      /\ seenHeight' = IF s.cell[1] = "height" THEN s.value ELSE seenHeight
      /\ seenKeys' = IF s.cell[1] = "key" THEN seenKeys \cup {s.value} ELSE seenKeys
      /\ seenNext' = IF s.cell[1] = "next"
                     THEN [seenNext EXCEPT ![s.cell[2]][s.cell[3]] = s.value]
                     ELSE seenNext
  BY <1>2 DEF BecomeVisible
<1>6. Seen' = M[1]
  <2>1. Seen.height = seenHeight /\ Seen.next = seenNext /\ Seen.keys = seenKeys
    BY DEF Seen
  <2> DEFINE m == M[1]
  <2>2. m.height = seenHeight' /\ m.next = seenNext' /\ m.keys = seenKeys'
    BY <1>4, <1>5, <2>1 DEF StoreStep
  <2> HIDE DEF m
  <2>3. m = [height |-> m.height, next |-> m.next, keys |-> m.keys]
    <3>1. m \in Memories
      BY <1>4 DEF m
    <3> QED BY <3>1 DEF Memories
  <2>4. Seen' = m
    BY <2>2, <2>3 DEF Seen
  <2> QED BY <2>4 DEF m
<1>7. UNCHANGED <<cur_height, next, tower, pc, key, cur, level, prev, index, answer>>
  BY <1>5 DEF vars
<1>8. Actual' = Actual
  BY <1>7 DEF Actual
<1>9. InFlightIInv'
  BY <1>4, <1>5, <1>6, <1>8 DEF InFlightIInv
<1>10. IInv'
  BY <1>5, StutterStep DEF RelaxedIInv
<1>11. Pointed'
  BY <1>7 DEF RelaxedIInv, Pointed, OnLevel, Linking
<1>12. ReadersOnSeen'
  <2> SUFFICES ASSUME NEW r \in Readers, pc[r] = "walk"
               PROVE  cur[r] \in {HeadNode} \cup KeysOn(M[1], level[r])
    BY <1>6, <1>7 DEF ReadersOnSeen, KeysOn
  <2>1. cur[r] \in {HeadNode} \cup KeysOn(Seen, level[r]) /\ level[r] \in Levels
    BY SeenAheadFacts
  <2> QED BY <1>4, <2>1 DEF Grows
<1> QED BY <1>9, <1>10, <1>11, <1>12 DEF RelaxedIInv

\* A step of the writer that stores nothing.
LEMMA WriterQuiet ==
    ASSUME RelaxedIInv, IInv', Issue(<<>>), UNCHANGED shared,
           \A l \in Levels : OnLevel(l)' = OnLevel(l),
           \A r \in Readers : pc'[r] = pc[r] /\ cur'[r] = cur[r] /\ level'[r] = level[r]
    PROVE  RelaxedIInv'
<1>1. UNCHANGED <<inflight, memory>>
  <2>1. inflight \in Seq(Stores)
    BY DEF RelaxedIInv, InFlightIInv
  <2>2. inflight \o <<>> = inflight
    BY <2>1, ConcatEmptySeq
  <2> QED BY <2>2 DEF Issue
<1>2. ReadersOnSeen'
  <2>1. Seen' = Seen
    BY <1>1 DEF Seen, memory
  <2> SUFFICES ASSUME NEW r \in Readers, pc[r] = "walk"
               PROVE  cur[r] \in {HeadNode} \cup KeysOn(Seen, level[r])
    BY <2>1 DEF ReadersOnSeen, KeysOn
  <2> QED BY DEF RelaxedIInv, ReadersOnSeen
<1> QED BY <1>1, <1>2, QuietStep

\* Insert up to the place it finds.
LEMMA WriterFindStep ==
    ASSUME RelaxedIInv, (\E k \in Keys : WriterCall(k)) \/ WriterWalk \/ WriterFind
    PROVE  RelaxedIInv'
<1>0. IInv /\ TypeOK /\ Writer \in Threads /\ Writer \notin Readers
  BY DEF RelaxedIInv, IInv
<1>1. CASE \E k \in Keys : WriterCall(k)
  <2>1. PICK k \in Keys : Call(Writer, k) /\ Issue(<<>>)
    BY <1>1 DEF WriterCall
  <2>2. IInv'
    BY <1>0, <2>1, CallStep
  <2>3. \A l : OnLevel(l)' = OnLevel(l)
    BY <1>0, <2>1 DEF OnLevel, Linking, TypeOK, Call, shared
  <2>4. /\ UNCHANGED shared
        /\ \A r \in Readers : pc'[r] = pc[r] /\ cur'[r] = cur[r] /\ level'[r] = level[r]
    BY <1>0, <2>1 DEF Call, walk, TypeOK
  <2> QED BY <2>1, <2>2, <2>3, <2>4, WriterQuiet
<1>2. CASE WriterWalk
  <2>1. WalkStep(Writer) /\ Issue(<<>>)
    BY <1>2 DEF WriterWalk
  <2>2. IInv'
    BY <1>0, <2>1, WalkStepStep
  <2>3. \A l : OnLevel(l)' = OnLevel(l)
    BY <1>0, <2>1 DEF OnLevel, Linking, TypeOK, WalkStep, LoadHeight, Forward, Down, shared
  <2>4. /\ UNCHANGED shared
        /\ \A r \in Readers : pc'[r] = pc[r] /\ cur'[r] = cur[r] /\ level'[r] = level[r]
    BY <1>0, <2>1 DEF WalkStep, LoadHeight, Forward, Down, TypeOK
  <2> QED BY <2>1, <2>2, <2>3, <2>4, WriterQuiet
<1>3. CASE WriterFind
  <2>1. FoundPlace /\ Issue(<<>>)
    BY <1>3 DEF WriterFind
  <2>2. IInv'
    BY <1>0, <2>1, FoundPlaceStep
  <2>3. \A l : OnLevel(l)' = OnLevel(l)
    BY <1>0, <2>1 DEF OnLevel, Linking, TypeOK, FoundPlace, AtBottom, shared
  <2>4. /\ UNCHANGED shared
        /\ \A r \in Readers : pc'[r] = pc[r] /\ cur'[r] = cur[r] /\ level'[r] = level[r]
    BY <1>0, <2>1 DEF FoundPlace, AtBottom, walk, TypeOK
  <2> QED BY <2>1, <2>2, <2>3, <2>4, WriterQuiet
<1> QED BY <1>1, <1>2, <1>3

\* A store of the writer is one more in flight.
LEMMA StoreInFlight ==
    ASSUME NEW q \in Seq(Stores), NEW first, NEW last,
           \E M \in [0 .. Len(q) -> Memories] : History(M, q, first, last),
           NEW s \in Stores, NEW m \in Memories,
           Sound(m), StoreStep(last, s, m), Grows(last, m)
    PROVE  /\ q \o <<s>> \in Seq(Stores)
           /\ \E N \in [0 .. Len(q \o <<s>>) -> Memories] : History(N, q \o <<s>>, first, m)
<1>1. q \o <<s>> = Append(q, s)
  <2> DEFINE X == Stores
  <2>1. q \in Seq(X) /\ s \in X
    OBVIOUS
  <2> HIDE DEF X
  <2> QED BY <2>1, AppendIsConcat
<1>2. PICK M \in [0 .. Len(q) -> Memories] : History(M, q, first, last)
  OBVIOUS
<1>3. /\ Append(q, s) \in Seq(Stores)
      /\ \E N \in [0 .. Len(Append(q, s)) -> Memories] : History(N, Append(q, s), first, m)
  BY <1>2, HistoryExtended
<1> QED BY <1>1, <1>3

\* A step of the writer that stores.
LEMMA WriterStores ==
    ASSUME RelaxedIInv, IInv', Pointed', UNCHANGED memory,
           inflight' \in Seq(Stores),
           \E N \in [0 .. Len(inflight') -> Memories] : History(N, inflight', Seen, Actual'),
           \A r \in Readers : pc'[r] = pc[r] /\ cur'[r] = cur[r] /\ level'[r] = level[r]
    PROVE  RelaxedIInv'
<1>1. Seen' = Seen
  BY DEF Seen, memory
<1>2. InFlightIInv'
  BY <1>1 DEF InFlightIInv
<1>3. ReadersOnSeen'
  <2> SUFFICES ASSUME NEW r \in Readers, pc[r] = "walk"
               PROVE  cur[r] \in {HeadNode} \cup KeysOn(Seen, level[r])
    BY <1>1 DEF ReadersOnSeen, KeysOn
  <2> QED BY DEF RelaxedIInv, ReadersOnSeen
<1> QED BY <1>2, <1>3 DEF RelaxedIInv

\* A store of the writer into next_, which drops no key.
LEMMA NextStored ==
    ASSUME RelaxedIInv, IInv', Pointed', NEW l \in Levels, NEW n \in Nodes, NEW v \in Keys \cup {Nil},
           next' = [next EXCEPT ![l][n] = v], UNCHANGED <<cur_height, tower>>,
           Issue(<<NextStore(l, n, v)>>),
           \A i \in Levels : OnLevel(i) \subseteq OnLevel(i)',
           \A r \in Readers : pc'[r] = pc[r] /\ cur'[r] = cur[r] /\ level'[r] = level[r]
    PROVE  RelaxedIInv'
<1> DEFINE s == NextStore(l, n, v)
           m == Actual'
<1>1. inflight' = inflight \o <<s>> /\ UNCHANGED memory
  BY DEF Issue
<1>2. /\ inflight \in Seq(Stores)
      /\ \E M \in [0 .. Len(inflight) -> Memories] : History(M, inflight, Seen, Actual)
  BY DEF RelaxedIInv, InFlightIInv
<1>3. s \in Stores
  BY DEF Stores
<1>4. /\ ActualIsList /\ ActualIsList'
  BY ActualIsSound, ActualStaysSound DEF RelaxedIInv
<1>5. m \in Memories /\ Sound(m) /\ \A i \in Levels : KeysOn(m, i) = OnLevel(i)'
  BY <1>4 DEF ActualIsList, KeysOn
<1>6. Grows(Actual, m)
  BY <1>4, <1>5 DEF ActualIsList, Grows
<1>7. StoreStep(Actual, s, m)
  BY DEF StoreStep, Actual, NextStore
<1> HIDE DEF s, m
<1>8. /\ inflight' \in Seq(Stores)
      /\ \E N \in [0 .. Len(inflight') -> Memories] : History(N, inflight', Seen, m)
  BY <1>1, <1>2, <1>3, <1>5, <1>6, <1>7, StoreInFlight
<1> QED BY <1>1, <1>8, WriterStores DEF m

\* The new node gets its pointer.
LEMMA WriterFillStep ==
    ASSUME RelaxedIInv, WriterFill
    PROVE  RelaxedIInv'
<1> DEFINE k == key[Writer]
           v == next[index][prev[index]]
<1>0. IInv /\ TypeOK /\ Pointed /\ Writer \notin Readers
  BY DEF RelaxedIInv, IInv
<1>1. FillNext /\ Issue(<<NextStore(index, k, v)>>)
  BY DEF WriterFill
<1>2. /\ k \in Keys /\ index \in Levels /\ index < tower[k] /\ Linking
      /\ prev[index] \in {HeadNode} \cup OnLevel(index) /\ k \notin OnLevel(index)
  BY <1>0, <1>1 DEF FillNext, IInv, TypeOK, SpliceAtPredecessor, Linking, Predecessor, OnLevel
<1>3. v \in OnLevel(index) \cup {Nil} /\ OnLevel(index) \subseteq Keys
  BY <1>0, <1>2 DEF IInv, SortedChains, IsSuccessor, OnLevel
<1>4. IInv'
  BY <1>0, <1>1, FillNextStep
<1>5. \A l : OnLevel(l)' = OnLevel(l)
  BY <1>0, <1>1 DEF OnLevel, Linking, TypeOK, FillNext
<1>6. next' = [next EXCEPT ![index][k] = v] /\ UNCHANGED <<cur_height, tower>>
  BY <1>1 DEF FillNext
<1>7. \A r \in Readers : pc'[r] = pc[r] /\ cur'[r] = cur[r] /\ level'[r] = level[r]
  BY <1>0, <1>1 DEF FillNext, walk, TypeOK
<1> HIDE DEF v, k
<1>8. \A l \in Levels : \A n \in Nodes : next'[l][n] = IF l = index /\ n = k THEN v ELSE next[l][n]
  BY <1>0, <1>2, <1>6 DEF TypeOK
<1>9. Pointed'
  <2> SUFFICES ASSUME NEW l \in Levels
               PROVE  /\ \A n \in Nodes : next'[l][n] \in OnLevel(l) \cup {Nil, Junk}
                      /\ \A j \in OnLevel(l) : \E n \in {HeadNode} \cup OnLevel(l) : next'[l][n] = j
    BY <1>5 DEF Pointed
  <2>1. /\ \A n \in Nodes : next[l][n] \in OnLevel(l) \cup {Nil, Junk}
        /\ \A j \in OnLevel(l) : \E n \in {HeadNode} \cup OnLevel(l) : next[l][n] = j
    BY <1>0 DEF Pointed
  <2>2. \A n \in {HeadNode} \cup OnLevel(l) : n \in Nodes /\ next'[l][n] = next[l][n]
    <3>1. OnLevel(l) \subseteq Keys
      BY DEF OnLevel
    <3> QED BY <1>2, <1>8, <3>1
  <2> QED BY <1>3, <1>8, <2>1, <2>2
<1>10. k \in Nodes /\ v \in Keys \cup {Nil} /\ \A l \in Levels : OnLevel(l) \subseteq OnLevel(l)'
  BY <1>2, <1>3, <1>5
<1>11. Issue(<<NextStore(index, k, v)>>)
  BY <1>1 DEF k, v
<1> QED BY <1>2, <1>4, <1>6, <1>7, <1>9, <1>10, <1>11, NextStored

\* The new node is linked.
LEMMA WriterLinkStep ==
    ASSUME RelaxedIInv, WriterLink
    PROVE  RelaxedIInv'
<1> DEFINE k == key[Writer]
           p == prev[index]
<1>0. IInv /\ TypeOK /\ Pointed /\ Writer \notin Readers
  BY DEF RelaxedIInv, IInv
<1>1. Link /\ Issue(<<NextStore(index, p, k)>>)
  BY DEF WriterLink
<1>2. /\ k \in Keys /\ index \in Levels /\ Linking
      /\ p \in {HeadNode} \cup OnLevel(index) /\ p \in Nodes /\ p # k /\ k \notin OnLevel(index)
      /\ next[index][k] = next[index][p]
  BY <1>0, <1>1 DEF Link, IInv, TypeOK, SpliceAtPredecessor, Linking, Predecessor, OnLevel
<1>3. IInv'
  BY <1>0, <1>1, LinkStep
<1>4. \A l \in Levels : OnLevel(l)' = OnLevel(l) \cup (IF l = index THEN {k} ELSE {})
  BY <1>0, <1>1, LinkOnLevel
<1>5. next' = [next EXCEPT ![index][p] = k] /\ UNCHANGED <<cur_height, tower>>
  BY <1>1 DEF Link
<1>6. \A r \in Readers : pc'[r] = pc[r] /\ cur'[r] = cur[r] /\ level'[r] = level[r]
  BY <1>0, <1>1 DEF Link, walk, TypeOK
<1> HIDE DEF k, p
<1>7. \A l \in Levels : \A n \in Nodes : next'[l][n] = IF l = index /\ n = p THEN k ELSE next[l][n]
  BY <1>0, <1>2, <1>5 DEF TypeOK
<1>8. Pointed'
  <2> SUFFICES ASSUME NEW l \in Levels
               PROVE  /\ \A n \in Nodes : next'[l][n] \in OnLevel(l)' \cup {Nil, Junk}
                      /\ \A j \in OnLevel(l)' : \E n \in {HeadNode} \cup OnLevel(l)' : next'[l][n] = j
    BY DEF Pointed
  <2>1. /\ \A n \in Nodes : next[l][n] \in OnLevel(l) \cup {Nil, Junk}
        /\ \A j \in OnLevel(l) : \E n \in {HeadNode} \cup OnLevel(l) : next[l][n] = j
        /\ OnLevel(l) \subseteq Keys
    BY <1>0 DEF Pointed, OnLevel
  <2>2. ASSUME NEW n \in Nodes PROVE next'[l][n] \in OnLevel(l)' \cup {Nil, Junk}
    BY <1>4, <1>7, <2>1
  <2>3. ASSUME NEW j \in OnLevel(l)' PROVE \E n \in {HeadNode} \cup OnLevel(l)' : next'[l][n] = j
    <3>1. CASE l = index /\ j = k
      <4>1. next'[l][p] = j /\ p \in {HeadNode} \cup OnLevel(l)'
        BY <1>2, <1>4, <1>7, <3>1
      <4> QED BY <4>1
    <3>2. CASE ~ (l = index /\ j = k)
      <4>1. j \in OnLevel(l)
        BY <1>4, <3>2
      <4>2. PICK n \in {HeadNode} \cup OnLevel(l) : next[l][n] = j
        BY <2>1, <4>1
      <4>3. n \in Nodes /\ n \in {HeadNode} \cup OnLevel(l)'
        BY <1>4, <2>1
      <4>4. CASE l = index /\ n = p
        <5>1. next'[l][k] = j /\ k \in {HeadNode} \cup OnLevel(l)'
          BY <1>2, <1>4, <1>7, <4>2, <4>4
        <5> QED BY <5>1
      <4>5. CASE ~ (l = index /\ n = p)
        <5>1. next'[l][n] = j
          BY <1>7, <4>2, <4>3, <4>5
        <5> QED BY <4>3, <5>1
      <4> QED BY <4>4, <4>5
    <3> QED BY <3>1, <3>2
  <2> QED BY <2>2, <2>3
<1>9. k \in Keys \cup {Nil} /\ \A l \in Levels : OnLevel(l) \subseteq OnLevel(l)'
  BY <1>2, <1>4
<1>10. Issue(<<NextStore(index, p, k)>>)
  BY <1>1 DEF k, p
<1> QED BY <1>2, <1>3, <1>5, <1>6, <1>8, <1>9, <1>10, NextStored

\* The new node is constructed, on a higher list if its tower is.
LEMMA WriterAllocateStep ==
    ASSUME RelaxedIInv, NEW h \in RandomHeights, WriterAllocate(h)
    PROVE  RelaxedIInv'
<1> DEFINE k == key[Writer]
           a == HeightStore(h)
           b == KeyStore(k)
           c == IF h > cur_height THEN h ELSE cur_height
           m == [height |-> c, next |-> next, keys |-> {HeadNode} \cup {j \in Keys : tower[j] > 0}]
           z == Actual'
<1>0. /\ IInv /\ TypeOK /\ Pointed /\ Writer \notin Readers /\ inflight \in Seq(Stores)
      /\ \E M \in [0 .. Len(inflight) -> Memories] : History(M, inflight, Seen, Actual)
  BY DEF RelaxedIInv, IInv, InFlightIInv
<1>1. /\ Allocate(h) /\ UNCHANGED memory
      /\ inflight' = inflight \o ((IF h > cur_height THEN <<a>> ELSE <<>>) \o <<b>>)
  BY DEF WriterAllocate, Issue
<1>2. /\ k \in Keys /\ h \in 1 .. MaxHeight /\ cur_height \in 1 .. MaxHeight
      /\ pc[Writer] = "allocate" /\ tower[k] = 0 /\ tower' = [tower EXCEPT ![k] = h]
      /\ cur_height' = c /\ next' = next /\ key' = key /\ index' = 0 /\ pc'[Writer] = "fill"
  BY <1>0, <1>1 DEF Allocate, RandomHeights, IInv, TypeOK, SpliceAtPredecessor
<1>3. IInv'
  BY <1>0, <1>1, AllocateStep
<1>4. \A l \in Levels : OnLevel(l)' = OnLevel(l)
  <2> SUFFICES ASSUME NEW l \in Levels, NEW n \in Keys
               PROVE  n \in OnLevel(l)' <=> n \in OnLevel(l)
    BY DEF OnLevel
  <2>1. CASE n = k
    BY <1>0, <1>2, <2>1 DEF OnLevel, Linking, TypeOK
  <2>2. CASE n # k
    BY <1>0, <1>2, <2>2 DEF OnLevel, Linking, TypeOK
  <2> QED BY <2>1, <2>2
<1>5. \A r \in Readers : pc'[r] = pc[r] /\ cur'[r] = cur[r] /\ level'[r] = level[r]
  BY <1>0, <1>1 DEF Allocate, walk, TypeOK
<1>6. Pointed'
  BY <1>0, <1>2, <1>4 DEF Pointed
<1>7. ActualIsList /\ ActualIsList'
  BY <1>0, <1>3, <1>6, ActualIsSound, ActualStaysSound
<1>8. a \in Stores /\ b \in Stores
  BY <1>2 DEF Stores
<1>9. /\ Actual.height = cur_height /\ Actual.next = next
      /\ Actual.keys = {HeadNode} \cup {j \in Keys : tower[j] > 0}
      /\ z.height = c /\ z.next = next
      /\ z.keys = Actual.keys \cup {k}
  <2>1. \A j \in Keys : tower'[j] > 0 <=> (tower[j] > 0 \/ j = k)
    BY <1>0, <1>2 DEF TypeOK
  <2> QED BY <1>2, <2>1 DEF Actual
<1>10. /\ m.height = c /\ m.next = next /\ m.keys = Actual.keys /\ m \in Memories
  <2>1. c \in 1 .. MaxHeight /\ next \in [Levels -> [Nodes -> Keys \cup {Nil, Junk}]]
    BY <1>0, <1>2 DEF TypeOK
  <2> HIDE DEF c
  <2> QED BY <1>9, <2>1 DEF Memories
<1> HIDE DEF m, z
<1>11. \A l \in Levels : KeysOn(m, l) = KeysOn(Actual, l) /\ KeysOn(z, l) = KeysOn(Actual, l)
  BY <1>9, <1>10 DEF KeysOn
<1>12. Grows(Actual, m) /\ Grows(m, z) /\ Grows(Actual, z)
  BY <1>11 DEF Grows
<1>13. Sound(m)
  <2>1. Sound(Actual)
    BY <1>7 DEF ActualIsList
  <2>2. \A l \in Levels : l > 0 => l - 1 \in Levels
    OBVIOUS
  <2> QED BY <1>9, <1>10, <1>11, <2>1, <2>2 DEF Sound
<1>14. z \in Memories /\ Sound(z)
  BY <1>7 DEF ActualIsList, z
<1>15. StoreStep(m, b, z) /\ (h > cur_height => StoreStep(Actual, a, m))
       /\ (~ (h > cur_height) => StoreStep(Actual, b, z))
  BY <1>2, <1>9, <1>10 DEF StoreStep, HeightStore, KeyStore
<1> HIDE DEF a, b, c
<1>16. /\ inflight' \in Seq(Stores)
       /\ \E N \in [0 .. Len(inflight') -> Memories] : History(N, inflight', Seen, z)
  <2>1. CASE h > cur_height
    <3> DEFINE q == inflight \o <<a>>
    <3>1. q \in Seq(Stores) /\ \E N \in [0 .. Len(q) -> Memories] : History(N, q, Seen, m)
      BY <1>0, <1>8, <1>10, <1>12, <1>13, <1>15, <2>1, StoreInFlight
    <3>2. inflight' = q \o <<b>>
      <4> DEFINE X == Stores
      <4>1. inflight \in Seq(X) /\ <<a>> \in Seq(X) /\ <<b>> \in Seq(X)
        BY <1>0, <1>8
      <4> HIDE DEF X
      <4>2. inflight \o (<<a>> \o <<b>>) = (inflight \o <<a>>) \o <<b>>
        BY <4>1, ConcatAssociative
      <4> QED BY <1>1, <2>1, <4>2
    <3> HIDE DEF q
    <3>3. /\ q \o <<b>> \in Seq(Stores)
          /\ \E N \in [0 .. Len(q \o <<b>>) -> Memories] : History(N, q \o <<b>>, Seen, z)
      BY <1>8, <1>10, <1>12, <1>14, <1>15, <3>1, StoreInFlight
    <3> QED BY <3>2, <3>3
  <2>2. CASE ~ (h > cur_height)
    <3>1. inflight' = inflight \o <<b>>
      <4>1. <<>> \o <<b>> = <<b>>
        OBVIOUS
      <4> QED BY <1>1, <2>2, <4>1
    <3>2. /\ inflight \o <<b>> \in Seq(Stores)
          /\ \E N \in [0 .. Len(inflight \o <<b>>) -> Memories] : History(N, inflight \o <<b>>, Seen, z)
      BY <1>0, <1>8, <1>12, <1>14, <1>15, <2>2, StoreInFlight
    <3> QED BY <3>1, <3>2
  <2> QED BY <2>1, <2>2
<1> QED BY <1>1, <1>3, <1>5, <1>6, <1>16, WriterStores DEF z

\* Every step over a memory that is seen in program order.
LEMMA RelaxedStep ==
    ASSUME RelaxedIInv, ProgramOrder, [RelaxedNext]_relaxedVars
    PROVE  RelaxedIInv'
<1>1. CASE (\E k \in Keys : WriterCall(k)) \/ WriterWalk \/ WriterFind
  BY <1>1, WriterFindStep
<1>2. CASE \E h \in RandomHeights : WriterAllocate(h)
  BY <1>2, WriterAllocateStep
<1>3. CASE WriterFill \/ WriterLink
  BY <1>3, WriterFillStep, WriterLinkStep
<1>4. CASE \E i \in 1 .. Len(inflight) : BecomeVisible(i)
  BY <1>4, VisibleStep
<1>5. ASSUME NEW r \in Readers,
             \/ \E k \in Keys : ReaderCall(r, k)
             \/ ReaderLoadHeight(r) \/ ReaderForward(r) \/ ReaderDown(r) \/ ReaderReturn(r)
      PROVE  RelaxedIInv'
  BY <1>5, ReaderCallStep, ReaderStepStep
<1>6. CASE UNCHANGED relaxedVars
  <2>1. UNCHANGED vars /\ UNCHANGED <<inflight, memory>>
    BY <1>6 DEF relaxedVars
  <2>2. UNCHANGED <<cur_height, next, tower, pc, key, cur, level, prev, index, answer>>
    BY <2>1 DEF vars
  <2>3. IInv'
    BY <2>1, StutterStep DEF RelaxedIInv
  <2>4. \A l \in Levels : OnLevel(l)' = OnLevel(l)
    BY <2>2 DEF OnLevel, Linking
  <2>5. ReadersOnSeen'
    <3>1. Seen' = Seen
      BY <2>1 DEF Seen, memory
    <3> QED BY <2>2, <3>1 DEF RelaxedIInv, ReadersOnSeen, KeysOn
  <2>6. UNCHANGED <<shared, inflight, memory>>
    BY <2>1, <2>2 DEF shared
  <2> QED BY <2>3, <2>4, <2>5, <2>6, QuietStep
<1> QED BY <1>1, <1>2, <1>3, <1>4, <1>5, <1>6 DEF RelaxedNext

\* The empty list, and no store in flight.
LEMMA RelaxedInitIInv == RelaxedInit => RelaxedIInv
<1> SUFFICES ASSUME RelaxedInit PROVE RelaxedIInv
  OBVIOUS
<1>1. Init /\ inflight = <<>> /\ seenHeight = cur_height /\ seenNext = next /\ seenKeys = {HeadNode}
  BY DEF RelaxedInit
<1>2. IInv
  BY <1>1, InitIInv
<1>3. \A l \in Levels : OnLevel(l) = {}
  BY <1>1 DEF Init, OnLevel
<1>4. Pointed
  BY <1>1, <1>3 DEF Init, Pointed
<1>5. Seen = Actual
  <2>1. {k \in Keys : tower[k] > 0} = {}
    BY <1>1 DEF Init
  <2> QED BY <1>1, <2>1 DEF Seen, Actual
<1>6. ActualIsList
  BY <1>2, <1>4, ActualIsSound
<1>7. InFlightIInv
  <2> DEFINE M == [i \in 0 .. 0 |-> Actual]
  <2>1. Len(inflight) = 0 /\ inflight \in Seq(Stores)
    BY <1>1
  <2>2. M \in [0 .. 0 -> Memories] /\ M[0] = Actual /\ \A i \in 0 .. 0 : i = 0 /\ M[i] = Actual
    BY <1>6 DEF ActualIsList
  <2> HIDE DEF M
  <2>3. Grows(Actual, Actual) /\ Sound(Actual)
    BY <1>6 DEF Grows, ActualIsList
  <2>4. \A i \in 0 .. 0 : Sound(M[i])
    BY <2>2, <2>3
  <2>5. \A i, j \in 0 .. 0 : i <= j => Grows(M[i], M[j])
    BY <2>2, <2>3
  <2>6. History(M, inflight, Seen, Actual)
    BY <1>5, <2>1, <2>2, <2>4, <2>5 DEF History
  <2> QED BY <2>1, <2>2, <2>6 DEF InFlightIInv
<1>8. ReadersOnSeen
  BY <1>1 DEF Init, ReadersOnSeen
<1> QED BY <1>2, <1>4, <1>7, <1>8 DEF RelaxedIInv

\* With stores visible in program order the invariant holds in every behaviour.
THEOREM InOrderInvariant == ASSUME ProgramOrder PROVE RelaxedSpec => []RelaxedIInv
<1>1. RelaxedIInv /\ [RelaxedNext]_relaxedVars => RelaxedIInv'
  BY RelaxedStep
<1> QED BY <1>1, RelaxedInitIInv, PTL DEF RelaxedSpec

\* With stores visible in program order, however late, Insert publishes a node
\* after its construction for every reader, although skiplist.h:52-55 asks for
\* no order: what a reader loads from next_ was set and is constructed.
THEOREM InOrderInitialized == ASSUME ProgramOrder PROVE RelaxedSpec => []FullyInitialized
<1>1. RelaxedIInv => FullyInitialized
  <2> SUFFICES ASSUME RelaxedIInv, NEW r \in Readers, pc[r] = "walk"
               PROVE  SeenAhead(r) # Junk /\ (SeenAhead(r) # Nil => SeenAhead(r) \in seenKeys)
    BY DEF FullyInitialized
  <2> QED BY SeenAheadFacts
<1> QED BY <1>1, InOrderInvariant, PTL

\* What the readers see on a level.
LEMMA SeenOnLevelIs == \A l : SeenOnLevel(l) = KeysOn(Seen, l)
BY DEF SeenOnLevel, KeysOn, Seen

\* The readers see a sorted chain of inserted keys on every level at every
\* instant between two stores of any Insert.
THEOREM InOrderChains == ASSUME ProgramOrder PROVE RelaxedSpec => []SeenChains
<1>1. RelaxedIInv => SeenChains
  <2> SUFFICES ASSUME RelaxedIInv, NEW l \in Levels
               PROVE  /\ \A n \in {HeadNode} \cup SeenOnLevel(l) :
                             IsSuccessor(seenNext[l][n], n, SeenOnLevel(l))
                      /\ l > 0 => SeenOnLevel(l) \subseteq SeenOnLevel(l - 1)
    BY DEF SeenChains
  <2>1. Seen.next = seenNext /\ Sound(Seen)
    BY SeenIsLinked DEF Seen
  <2> QED BY <2>1, SeenOnLevelIs DEF Sound
<1> QED BY <1>1, InOrderInvariant, PTL

\* Contains finds every key the readers see linked, and none nobody inserted,
\* however far memory lags behind the writer.
THEOREM InOrderAnswers == ASSUME ProgramOrder PROVE RelaxedSpec => SeenAnswers
<1>1. ASSUME RelaxedIInv, NEW r \in Readers, ReaderReturn(r)
      PROVE  /\ key[r] \in SeenOnLevel(0) => answer'[r]
             /\ answer'[r] => key[r] \in OnLevel(0)
  <2>1. /\ pc[r] = "walk" /\ level[r] = 0 /\ ~ KeyIsAfterNode(key[r], SeenAhead(r))
        /\ answer'[r] = (SeenAhead(r) = key[r])
    BY <1>1 DEF ReaderReturn, RelaxedIInv, IInv, TypeOK
  <2>2. /\ cur[r] < key[r] /\ key[r] \in Keys /\ 0 \in Levels
        /\ SeenAhead(r) \in KeysOn(Seen, 0) \cup {Nil} /\ KeysOn(Seen, 0) \subseteq Keys
        /\ \A k \in KeysOn(Seen, 0) : cur[r] < k => SeenAhead(r) <= k
    <3> DEFINE l == level[r]
    <3>1. /\ l \in Levels /\ SeenAhead(r) \in KeysOn(Seen, l) \cup {Nil}
          /\ KeysOn(Seen, l) \subseteq Keys
          /\ \A k \in KeysOn(Seen, l) : cur[r] < k => SeenAhead(r) <= k
          /\ cur[r] < key[r] /\ key[r] \in Keys
      BY <1>1, <2>1, SeenAheadFacts
    <3>2. l = 0
      BY <2>1
    <3> HIDE DEF l
    <3> QED BY <3>1, <3>2
  <2>3. key[r] \in KeysOn(Seen, 0) => SeenAhead(r) = key[r]
    BY <2>1, <2>2 DEF KeyIsAfterNode
  <2>4. SeenAhead(r) = key[r] => key[r] \in OnLevel(0)
    <3>1. KeysOn(Seen, 0) \subseteq OnLevel(0)
      BY <1>1, <2>2, SeenIsLinked
    <3>2. SeenAhead(r) = key[r] => key[r] \in KeysOn(Seen, 0)
      BY <2>2
    <3> QED BY <3>1, <3>2
  <2> QED BY <2>1, <2>3, <2>4, SeenOnLevelIs
<1>2. RelaxedIInv /\ [RelaxedNext]_relaxedVars
         => [\A r \in Readers : ReaderReturn(r) =>
                /\ key[r] \in SeenOnLevel(0) => answer'[r]
                /\ answer'[r] => key[r] \in OnLevel(0)]_relaxedVars
  BY <1>1
<1> QED BY <1>2, InOrderInvariant, PTL DEF RelaxedSpec, SeenAnswers

-----------------------------------------------------------------------------
(* Calls are bounded: what a leads-to property rests on, without fairness.  *)

\* What Insert has to do once the walk is over.
SpliceSteps(t) == IF t = Writer THEN 2 * MaxHeight + 1 ELSE 0

\* A bound on the steps a thread still makes in its call.  A walk never goes
\* back: every step is towards the key or down a level.
StepsLeft(t) ==
    CASE pc[t] = "start"    -> SpliceSteps(t) + MaxHeight + MaxKey
      [] pc[t] = "walk"     -> SpliceSteps(t) + level[t] + (key[t] - cur[t])
      [] pc[t] = "allocate" -> 2 * MaxHeight + 1
      [] pc[t] = "fill"     -> 2 * (tower[key[t]] - index)
      [] pc[t] = "link"     -> 2 * (tower[key[t]] - index) - 1
      [] OTHER              -> 0

\* Every step of a thread in its call takes it nearer to the end, and no step
\* of another one takes it back.
EveryStepCounts ==
    /\ InsertStep => StepsLeft(Writer)' < StepsLeft(Writer)
    /\ \A r \in Readers : ContainsStep(r) => StepsLeft(r)' < StepsLeft(r)
    /\ \A t \in Threads : pc[t] # "idle" => StepsLeft(t)' <= StepsLeft(t)

\* The bound is a number, and 0 when there is no call.
BoundIsNatural ==
    \A t \in Threads :
        /\ StepsLeft(t) \in 0 .. SpliceSteps(t) + MaxHeight + MaxKey
        /\ pc[t] # "idle" => StepsLeft(t) > 0

\* What keeps the bound of a thread.
SameWalk(t) ==
    /\ pc'[t] = pc[t] /\ key'[t] = key[t] /\ cur'[t] = cur[t] /\ level'[t] = level[t]
    /\ pc[t] \in {"fill", "link"} => UNCHANGED <<index, tower>>

\* A thread that does not move keeps it.
LEMMA SameBound ==
    ASSUME NEW t \in Threads, SameWalk(t)
    PROVE  StepsLeft(t)' = StepsLeft(t)
BY DEF SameWalk, StepsLeft, SpliceSteps

\* The bound in every state of the invariant.
LEMMA BoundHolds == IInv => BoundIsNatural
<1> SUFFICES ASSUME IInv, NEW t \in Threads
             PROVE  /\ StepsLeft(t) \in 0 .. SpliceSteps(t) + MaxHeight + MaxKey
                    /\ pc[t] # "idle" => StepsLeft(t) > 0
  BY DEF BoundIsNatural
<1>1. /\ MaxHeight \in Nat \ {0} /\ MaxKey \in Nat \ {0}
      /\ pc[t] \in {"idle", "start", "walk", "allocate", "fill", "link"}
      /\ key[t] \in Keys /\ cur[t] \in Nodes /\ level[t] \in Levels /\ index \in 0 .. MaxHeight
      /\ tower[key[t]] \in 0 .. MaxHeight
      /\ pc[t] \in {"allocate", "fill", "link"} => t = Writer
  BY DEF IInv, TypeOK
<1>2. pc[t] = "walk" => cur[t] < key[t]
  BY DEF IInv, WalkOnLinkedNodes
<1>3. pc[t] \in {"fill", "link"} => index < tower[key[t]]
  BY <1>1 DEF IInv, SpliceAtPredecessor, Linking
<1>4. SpliceSteps(t) \in Nat /\ (t = Writer => SpliceSteps(t) = 2 * MaxHeight + 1)
  BY <1>1 DEF SpliceSteps
<1> QED BY <1>1, <1>2, <1>3, <1>4 DEF StepsLeft

\* And in the state after a step.
LEMMA BoundStays == IInv' => BoundIsNatural'
BY BoundHolds, PTL

\* A step of a walk.
LEMMA WalkCounts ==
    ASSUME IInv, NEW t \in Threads, WalkStep(t)
    PROVE  /\ StepsLeft(t)' < StepsLeft(t)
           /\ \A s \in Threads \ {t} : SameWalk(s)
<1>1. /\ MaxHeight \in Nat \ {0} /\ MaxKey \in Nat \ {0} /\ cur_height \in 1 .. MaxHeight
      /\ key[t] \in Keys /\ cur[t] \in Nodes /\ level[t] \in Levels
      /\ pc \in [Threads -> {"idle", "start", "walk", "allocate", "fill", "link"}]
      /\ cur \in [Threads -> Nodes] /\ level \in [Threads -> Levels]
  BY DEF IInv, TypeOK
<1>2. SpliceSteps(t) \in Nat /\ SpliceSteps(t)' = SpliceSteps(t)
  BY <1>1 DEF SpliceSteps
<1>3. CASE LoadHeight(t)
  <2>1. /\ pc[t] = "start" /\ pc'[t] = "walk" /\ key'[t] = key[t]
        /\ cur'[t] = 0 /\ level'[t] = cur_height - 1
    BY <1>1, <1>3 DEF LoadHeight
  <2>2. \A s \in Threads \ {t} : SameWalk(s)
    BY <1>1, <1>3 DEF LoadHeight, SameWalk, shared
  <2> QED BY <1>1, <1>2, <2>1, <2>2 DEF StepsLeft
<1>4. CASE Forward(t)
  <2>1. /\ pc[t] = "walk" /\ pc'[t] = "walk" /\ key'[t] = key[t]
        /\ cur'[t] = Ahead(t) /\ level'[t] = level[t]
    BY <1>1, <1>4 DEF Forward
  <2>2. Ahead(t) \in Keys /\ cur[t] < Ahead(t)
    BY <1>4 DEF IInv, Forward, TypeOK, KeyIsAfterNode, WalkOnLinkedNodes, SortedChains, IsSuccessor,
                Ahead, OnLevel
  <2>3. \A s \in Threads \ {t} : SameWalk(s)
    BY <1>1, <1>4 DEF Forward, SameWalk, shared
  <2> QED BY <1>1, <1>2, <2>1, <2>2, <2>3 DEF StepsLeft
<1>5. CASE Down(t)
  <2>1. /\ pc[t] = "walk" /\ pc'[t] = "walk" /\ key'[t] = key[t]
        /\ cur'[t] = cur[t] /\ level'[t] = level[t] - 1
    BY <1>1, <1>5 DEF Down
  <2>2. \A s \in Threads \ {t} : SameWalk(s)
    BY <1>1, <1>5 DEF Down, SameWalk, shared
  <2> QED BY <1>1, <1>2, <2>1, <2>2 DEF StepsLeft
<1> QED BY <1>3, <1>4, <1>5 DEF WalkStep

\* A step of Insert.
LEMMA InsertCounts ==
    ASSUME IInv, InsertStep
    PROVE  /\ StepsLeft(Writer)' < StepsLeft(Writer)
           /\ \A s \in Threads \ {Writer} : SameWalk(s)
<1>1. /\ MaxHeight \in Nat \ {0} /\ MaxKey \in Nat \ {0}
      /\ pc \in [Threads -> {"idle", "start", "walk", "allocate", "fill", "link"}]
      /\ \A r \in Readers : pc[r] \in {"idle", "start", "walk"}
      /\ key[Writer] \in Keys /\ index \in 0 .. MaxHeight /\ tower \in [Keys -> 0 .. MaxHeight]
  BY DEF IInv, TypeOK
<1>2. pc[Writer] \in {"fill", "link"} => index < tower[key[Writer]]
  BY DEF IInv, SpliceAtPredecessor, Linking
<1>3. pc[Writer] # "idle" => StepsLeft(Writer) \in Nat \ {0}
  <2>1. MaxHeight \in Nat /\ MaxKey \in Nat /\ SpliceSteps(Writer) \in Nat
    BY <1>1 DEF SpliceSteps
  <2> QED BY <2>1, BoundHolds DEF BoundIsNatural
<1>4. CASE WalkStep(Writer)
  BY <1>4, WalkCounts
<1>5. CASE FoundPlace
  <2>1. /\ pc[Writer] = "walk" /\ pc'[Writer] \in {"idle", "allocate"}
        /\ UNCHANGED <<key, tower, index, cur, level>>
        /\ \A s \in Threads \ {Writer} : SameWalk(s)
    BY <1>1, <1>5 DEF FoundPlace, AtBottom, SameWalk, shared, walk
  <2>2. StepsLeft(Writer) = 2 * MaxHeight + 1 + level[Writer] + (key[Writer] - cur[Writer])
    BY <2>1 DEF StepsLeft, SpliceSteps
  <2>3. level[Writer] \in Nat /\ cur[Writer] \in Nat /\ cur[Writer] < key[Writer]
    BY <2>1 DEF IInv, TypeOK, WalkOnLinkedNodes
  <2>4. StepsLeft(Writer)' \in {0, 2 * MaxHeight + 1}
    BY <2>1 DEF StepsLeft
  <2> QED BY <1>1, <2>1, <2>2, <2>3, <2>4
<1>6. ASSUME NEW h \in RandomHeights, Allocate(h)
      PROVE  /\ StepsLeft(Writer)' < StepsLeft(Writer)
             /\ \A s \in Threads \ {Writer} : SameWalk(s)
  <2>1. /\ pc[Writer] = "allocate" /\ pc'[Writer] = "fill" /\ key' = key /\ index' = 0
        /\ tower'[key[Writer]] = h
        /\ \A s \in Threads \ {Writer} : SameWalk(s)
    BY <1>1, <1>6 DEF Allocate, SameWalk, walk
  <2>2. StepsLeft(Writer) = 2 * MaxHeight + 1 /\ StepsLeft(Writer)' = 2 * (h - 0)
    BY <2>1 DEF StepsLeft
  <2> QED BY <1>1, <2>1, <2>2 DEF RandomHeights
<1>7. CASE FillNext
  <2>1. /\ pc[Writer] = "fill" /\ pc'[Writer] = "link" /\ UNCHANGED <<key, tower, index>>
        /\ \A s \in Threads \ {Writer} : SameWalk(s)
    BY <1>1, <1>7 DEF FillNext, SameWalk, walk
  <2>2. /\ StepsLeft(Writer) = 2 * (tower[key[Writer]] - index)
        /\ StepsLeft(Writer)' = 2 * (tower[key[Writer]] - index) - 1
    BY <2>1 DEF StepsLeft
  <2> QED BY <1>1, <1>2, <2>1, <2>2
<1>8. CASE Link
  <2>1. /\ pc[Writer] = "link" /\ key' = key /\ tower' = tower /\ index' = index + 1
        /\ pc'[Writer] \in {"fill", "idle"}
        /\ \A s \in Threads \ {Writer} : SameWalk(s)
    BY <1>1, <1>8 DEF Link, SameWalk, walk
  <2>2. /\ StepsLeft(Writer) = 2 * (tower[key[Writer]] - index) - 1
        /\ StepsLeft(Writer)' \in {0, 2 * (tower[key[Writer]] - (index + 1))}
    BY <2>1 DEF StepsLeft
  <2> QED BY <1>1, <1>2, <2>1, <2>2
<1> QED BY <1>4, <1>5, <1>6, <1>7, <1>8 DEF InsertStep

\* A step of Contains.
LEMMA ContainsCounts ==
    ASSUME IInv, NEW r \in Readers, ContainsStep(r)
    PROVE  /\ StepsLeft(r)' < StepsLeft(r)
           /\ \A s \in Threads \ {r} : SameWalk(s)
<1>1. CASE WalkStep(r)
  BY <1>1, WalkCounts
<1>2. CASE ReturnContains(r)
  <2>1. /\ pc[r] = "walk" /\ pc'[r] = "idle"
        /\ \A s \in Threads \ {r} : SameWalk(s)
    BY <1>2 DEF ReturnContains, AtBottom, SameWalk, shared, walk, IInv, TypeOK
  <2>2. StepsLeft(r)' = 0
    BY <2>1 DEF StepsLeft
  <2>3. StepsLeft(r) > 0
    BY <2>1, BoundHolds DEF BoundIsNatural
  <2> QED BY <2>1, <2>2, <2>3
<1> QED BY <1>1, <1>2 DEF ContainsStep

\* Every step counts.
LEMMA NextCounts == IInv /\ IInv' /\ [Next]_vars => [EveryStepCounts]_vars
<1> SUFFICES ASSUME IInv, IInv', [Next]_vars, ~ UNCHANGED vars PROVE EveryStepCounts
  OBVIOUS
<1>1. InsertStep => StepsLeft(Writer)' < StepsLeft(Writer)
  BY InsertCounts
<1>2. \A r \in Readers : ContainsStep(r) => StepsLeft(r)' < StepsLeft(r)
  BY ContainsCounts
<1>3. ASSUME NEW t \in Threads, pc[t] # "idle" PROVE StepsLeft(t)' <= StepsLeft(t)
  <2>1. SpliceSteps(t) \in Nat /\ SpliceSteps(t)' = SpliceSteps(t) /\ MaxHeight \in Nat /\ MaxKey \in Nat
    BY DEF SpliceSteps
  <2>2. StepsLeft(t) \in Nat /\ StepsLeft(t)' \in Nat
    <3>1. BoundIsNatural /\ BoundIsNatural'
      BY BoundHolds, BoundStays
    <3> QED BY <2>1, <3>1 DEF BoundIsNatural
  <2>3. SameWalk(t) => StepsLeft(t)' <= StepsLeft(t)
    BY <2>2, SameBound
  <2>4. CASE InsertStep
    BY <1>1, <2>2, <2>3, <2>4, InsertCounts
  <2>5. ASSUME NEW r \in Readers, ContainsStep(r) PROVE StepsLeft(t)' <= StepsLeft(t)
    BY <1>2, <2>2, <2>3, <2>5, ContainsCounts
  <2>6. ASSUME NEW s \in Threads, NEW k \in Keys, Call(s, k) PROVE StepsLeft(t)' <= StepsLeft(t)
    <3>1. s # t
      BY <1>3, <2>6 DEF Call
    <3>2. SameWalk(t)
      BY <2>6, <3>1 DEF Call, SameWalk, shared, walk, IInv, TypeOK
    <3> QED BY <2>3, <3>2
  <2> QED BY <2>4, <2>5, <2>6 DEF Next
<1> QED BY <1>1, <1>2, <1>3 DEF EveryStepCounts

\* Insert and Contains are wait-free: a lookup makes at most MaxHeight + MaxKey
\* steps, an insertion 2 * MaxHeight + 1 more, whatever the other threads do
\* in the meantime (FindGreaterOrEqual, skiplist.h:73-95).
THEOREM CallsAreBounded == Spec => []BoundIsNatural /\ [][EveryStepCounts]_vars
<1> QED BY Invariance, BoundHolds, NextCounts, PTL DEF Spec
=============================================================================
