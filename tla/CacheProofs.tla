---------------------------- MODULE CacheProofs -----------------------------
(***************************************************************************)
(* Proofs about ShardCache and BlockReader, for any keys and hashes, any   *)
(* number of shards, clients and readers, and every size of a shard.       *)
(***************************************************************************)
EXTENDS BlockReader, FiniteSetTheorems, SequenceTheorems, TLAPS

-----------------------------------------------------------------------------
(* The inductive invariant of the cache                                    *)

Cells   == [elem : Elems, node : Nat]
Records == [key : Keys, value : Nodes, refs : 0 .. RefModulus - 1, in_cache : BOOLEAN]
Maps(V) == UNION {[D -> V] : D \in SUBSET Keys}

KeyOf(q, i, hp) == hp[q[i].node].key

\* A shard s with the list q and the index ix over the CacheNodes hp: each is
\* the other's inverse.
ShardOK(s, q, ix, hp) ==
    /\ q \in Seq(Cells) /\ Len(q) <= Capacity
    /\ ix \in Maps(Elems)
    /\ \A i \in 1 .. Len(q) :
           /\ q[i].node \in 1 .. Len(hp)
           /\ ShardOf(KeyOf(q, i, hp)) = s
           /\ KeyOf(q, i, hp) \in DOMAIN ix
           /\ ix[KeyOf(q, i, hp)] = q[i].elem
    /\ \A i, j \in 1 .. Len(q) : q[i].elem = q[j].elem => i = j
    /\ \A k \in DOMAIN ix : \E i \in 1 .. Len(q) : KeyOf(q, i, hp) = k

\* The value of a node is the number of the Insert that built it.
HeapOK(hp) ==
    /\ hp \in Seq(Records) /\ Len(hp) <= MaxNodes
    /\ \A n \in 1 .. Len(hp) : hp[n].value = n

WaitOK(w, hp) == w \in Maps(Nat) /\ \A k \in DOMAIN w : w[k] \in 1 .. Len(hp)

\* Unref only ever gets nodes, and then does nothing: no node is deleted.
CacheIInv ==
    /\ HeapOK(heap) /\ freed = {}
    /\ nodes \in [Shards -> Seq(Cells)]
    /\ index \in [Shards -> Maps(Elems)]
    /\ wait_erase \in [Shards -> Maps(Nat)]
    /\ \A s \in Shards : ShardOK(s, nodes[s], index[s], heap) /\ WaitOK(wait_erase[s], heap)
    /\ held \in [Clients -> {Null} \cup 1 .. Len(heap)]
    /\ pruned \in [Clients -> Shards]
    /\ last \in Keys

-----------------------------------------------------------------------------
(* Maps, lists and a shard                                                 *)

USE HashAssumption, NumShardsAssumption, CapacityAssumption, MaxNodesAssumption,
    RefModulusAssumption

\* Every key has a shard.
LEMMA ShardOfKey == \A k \in Keys : ShardOf(k) \in Shards
<1> SUFFICES ASSUME NEW k \in Keys PROVE ShardOf(k) \in Shards
  OBVIOUS
<1>1. Hash[k] \in Nat
  OBVIOUS
<1> QED BY <1>1 DEF ShardOf, Shards

\* A part of a map.
LEMMA RestrictProperties ==
    ASSUME NEW V, NEW m \in Maps(V), NEW D \in SUBSET DOMAIN m
    PROVE  /\ DOMAIN m \subseteq Keys
           /\ Restrict(m, D) \in Maps(V) /\ DOMAIN Restrict(m, D) = D
           /\ \A x \in D : Restrict(m, D)[x] = m[x]
<1>1. PICK E \in SUBSET Keys : m \in [E -> V]
  BY DEF Maps
<1>2. Restrict(m, D) \in [D -> V] /\ D \in SUBSET Keys
  BY <1>1 DEF Restrict
<1>3. [D -> V] \subseteq Maps(V)
  BY <1>2 DEF Maps
<1> QED BY <1>1, <1>2, <1>3 DEF Restrict

\* An index with one more key.
LEMMA IndexWith ==
    ASSUME NEW ix \in Maps(Elems), NEW k \in Keys, NEW e \in Elems, k \notin DOMAIN ix
    PROVE  /\ With(ix, k, e) \in Maps(Elems) /\ DOMAIN With(ix, k, e) = DOMAIN ix \cup {k}
           /\ With(ix, k, e)[k] = e
           /\ \A x \in DOMAIN ix : With(ix, k, e)[x] = ix[x]
<1>1. PICK D \in SUBSET Keys : ix \in [D -> Elems]
  BY DEF Maps
<1>2. With(ix, k, e) \in [D \cup {k} -> Elems] /\ D \cup {k} \in SUBSET Keys
  BY <1>1 DEF With
<1>3. [D \cup {k} -> Elems] \subseteq Maps(Elems)
  BY <1>2 DEF Maps
<1> QED BY <1>1, <1>2, <1>3 DEF With

\* wait_erase_ with one more node.
LEMMA WaitWith ==
    ASSUME NEW w \in Maps(Nat), NEW k \in Keys, NEW n \in Nat, k \notin DOMAIN w
    PROVE  /\ With(w, k, n) \in Maps(Nat) /\ DOMAIN With(w, k, n) = DOMAIN w \cup {k}
           /\ With(w, k, n)[k] = n
           /\ \A x \in DOMAIN w : With(w, k, n)[x] = w[x]
<1>1. PICK D \in SUBSET Keys : w \in [D -> Nat]
  BY DEF Maps
<1>2. With(w, k, n) \in [D \cup {k} -> Nat] /\ D \cup {k} \in SUBSET Keys
  BY <1>1 DEF With
<1>3. [D \cup {k} -> Nat] \subseteq Maps(Nat)
  BY <1>2 DEF Maps
<1> QED BY <1>1, <1>2, <1>3 DEF With

\* The list without its element at p, ...
LEMMA RemoveAtProperties ==
    ASSUME NEW X, NEW q \in Seq(X), NEW p \in 1 .. Len(q)
    PROVE  /\ RemoveAt(q, p) \in Seq(X) /\ Len(RemoveAt(q, p)) = Len(q) - 1
           /\ \A i \in 1 .. Len(q) - 1 : RemoveAt(q, p)[i] = q[IF i < p THEN i ELSE i + 1]
<1> DEFINE a == SubSeq(q, 1, p - 1)
           b == SubSeq(q, p + 1, Len(q))
<1>1. p \in Nat /\ Len(q) \in Nat /\ 1 <= p /\ p <= Len(q)
  OBVIOUS
<1>2. /\ a \in Seq(X) /\ Len(a) = p - 1
      /\ \A i \in 1 .. p - 1 : a[i] = q[i]
  BY <1>1, SubSeqProperties
<1>3. /\ b \in Seq(X) /\ Len(b) = Len(q) - p
      /\ \A i \in 1 .. Len(q) - p : b[i] = q[p + i]
  <2>1. \A i \in p + 1 .. Len(q) : q[i] \in X
    BY <1>1
  <2>2. /\ b \in Seq(X)
        /\ Len(b) = IF p + 1 <= Len(q) THEN Len(q) - (p + 1) + 1 ELSE 0
        /\ \A i \in 1 .. Len(q) - (p + 1) + 1 : b[i] = q[p + 1 + i - 1]
    BY <1>1, <2>1, SubSeqProperties
  <2>3. Len(b) = Len(q) - p
    BY <1>1, <2>2
  <2>4. \A i \in 1 .. Len(q) - p : i \in 1 .. Len(q) - (p + 1) + 1 /\ p + 1 + i - 1 = p + i
    BY <1>1
  <2> HIDE DEF b
  <2> QED BY <2>2, <2>3, <2>4
<1>4. RemoveAt(q, p) = a \o b
  BY DEF RemoveAt
<1> HIDE DEF a, b
<1>5. /\ a \o b \in Seq(X) /\ Len(a \o b) = Len(a) + Len(b)
      /\ \A i \in 1 .. Len(a) + Len(b) : (a \o b)[i] = IF i <= Len(a) THEN a[i] ELSE b[i - Len(a)]
  BY <1>2, <1>3, ConcatProperties
<1>6. Len(a) + Len(b) = Len(q) - 1
  BY <1>1, <1>2, <1>3
<1>7. ASSUME NEW i \in 1 .. Len(q) - 1
      PROVE  (a \o b)[i] = q[IF i < p THEN i ELSE i + 1]
  <2>1. CASE i < p
    <3>1. i <= Len(a) /\ i \in 1 .. p - 1 /\ i \in 1 .. Len(a) + Len(b)
      BY <1>1, <1>2, <1>6, <2>1
    <3> QED BY <1>2, <1>5, <2>1, <3>1
  <2>2. CASE ~ (i < p)
    <3>1. ~ (i <= Len(a)) /\ i - Len(a) \in 1 .. Len(q) - p /\ p + (i - Len(a)) = i + 1
          /\ i \in 1 .. Len(a) + Len(b)
      BY <1>1, <1>2, <1>6, <2>2
    <3> QED BY <1>3, <1>5, <2>2, <3>1
  <2> QED BY <2>1, <2>2
<1> QED BY <1>4, <1>5, <1>6, <1>7

\* ... in terms of the positions that stay.
LEMMA RemoveAtPositions ==
    ASSUME NEW X, NEW q \in Seq(X), NEW p \in 1 .. Len(q)
    PROVE  /\ \A i \in 1 .. Len(q) - 1 :
                  \E j \in 1 .. Len(q) : /\ j # p /\ RemoveAt(q, p)[i] = q[j]
                                         /\ j = IF i < p THEN i ELSE i + 1
           /\ \A j \in 1 .. Len(q) : j # p =>
                  \E i \in 1 .. Len(q) - 1 : RemoveAt(q, p)[i] = q[j]
<1>1. p \in Nat /\ Len(q) \in Nat /\ 1 <= p /\ p <= Len(q)
  OBVIOUS
<1>2. \A i \in 1 .. Len(q) - 1 : RemoveAt(q, p)[i] = q[IF i < p THEN i ELSE i + 1]
  BY RemoveAtProperties
<1>3. ASSUME NEW i \in 1 .. Len(q) - 1
      PROVE  \E j \in 1 .. Len(q) : /\ j # p /\ RemoveAt(q, p)[i] = q[j]
                                    /\ j = IF i < p THEN i ELSE i + 1
  <2> DEFINE j == IF i < p THEN i ELSE i + 1
  <2>1. j \in 1 .. Len(q) /\ j # p
    BY <1>1
  <2> QED BY <1>2, <2>1
<1>4. ASSUME NEW j \in 1 .. Len(q), j # p
      PROVE  \E i \in 1 .. Len(q) - 1 : RemoveAt(q, p)[i] = q[j]
  <2> DEFINE i == IF j < p THEN j ELSE j - 1
  <2>1. i \in 1 .. Len(q) - 1 /\ (IF i < p THEN i ELSE i + 1) = j
    BY <1>1, <1>4
  <2> HIDE DEF i
  <2>2. RemoveAt(q, p)[i] = q[j]
    BY <1>2, <2>1
  <2> QED BY <2>1, <2>2
<1> QED BY <1>3, <1>4

\* A new front.
LEMMA PushFrontProperties ==
    ASSUME NEW X, NEW q \in Seq(X), NEW x \in X
    PROVE  /\ <<x>> \o q \in Seq(X) /\ Len(<<x>> \o q) = Len(q) + 1
           /\ (<<x>> \o q)[1] = x
           /\ \A i \in 1 .. Len(q) : (<<x>> \o q)[i + 1] = q[i]
<1>1. <<x>> \in Seq(X) /\ Len(<<x>>) = 1 /\ <<x>>[1] = x /\ Len(q) \in Nat
  OBVIOUS
<1>2. /\ <<x>> \o q \in Seq(X) /\ Len(<<x>> \o q) = 1 + Len(q)
      /\ \A i \in 1 .. 1 + Len(q) : (<<x>> \o q)[i] = IF i <= 1 THEN <<x>>[i] ELSE q[i - 1]
  BY <1>1, ConcatProperties
<1> DEFINE new == <<x>> \o q
<1> HIDE DEF new
<1>3. new \in Seq(X) /\ Len(new) = Len(q) + 1
  BY <1>1, <1>2 DEF new
<1>4. new[1] = x
  BY <1>1, <1>2 DEF new
<1>5. \A i \in 1 .. Len(q) : i + 1 \in 1 .. 1 + Len(q) /\ ~ (i + 1 <= 1) /\ i + 1 - 1 = i
  BY <1>1
<1>6. \A i \in 1 .. Len(q) : new[i + 1] = q[i]
  BY <1>2, <1>5 DEF new
<1> QED BY <1>3, <1>4, <1>6 DEF new

-----------------------------------------------------------------------------
(* A shard                                                                 *)

\* A key is on the list once.
LEMMA KeysDiffer ==
    ASSUME NEW s, NEW q, NEW ix, NEW hp, ShardOK(s, q, ix, hp),
           NEW i \in 1 .. Len(q), NEW j \in 1 .. Len(q), KeyOf(q, i, hp) = KeyOf(q, j, hp)
    PROVE  i = j
<1>1. q[i].elem = q[j].elem
  BY DEF ShardOK
<1> QED BY <1>1 DEF ShardOK

\* Erasing an element, and its key from the index.
LEMMA RemoveNode ==
    ASSUME NEW s, NEW q, NEW ix, NEW hp, ShardOK(s, q, ix, hp), NEW p \in 1 .. Len(q),
           NEW r, r = RemoveAt(q, p), NEW k, k = KeyOf(q, p, hp),
           NEW jx, jx = Restrict(ix, DOMAIN ix \ {k})
    PROVE  /\ ShardOK(s, r, jx, hp) /\ Len(r) = Len(q) - 1
           /\ k \notin DOMAIN jx /\ k \in DOMAIN ix
           /\ ElemsOf(r) \subseteq ElemsOf(q) \ {q[p].elem}
<1>1. /\ q \in Seq(Cells) /\ Len(q) <= Capacity /\ ix \in Maps(Elems)
      /\ \A i \in 1 .. Len(q) : /\ q[i].node \in 1 .. Len(hp)
                                /\ ShardOf(KeyOf(q, i, hp)) = s
                                /\ KeyOf(q, i, hp) \in DOMAIN ix
                                /\ ix[KeyOf(q, i, hp)] = q[i].elem
      /\ \A i, j \in 1 .. Len(q) : q[i].elem = q[j].elem => i = j
      /\ \A x \in DOMAIN ix : \E i \in 1 .. Len(q) : KeyOf(q, i, hp) = x
  BY DEF ShardOK
<1> DEFINE X == Cells
<1> HIDE DEF X
<1>2. q \in Seq(X)
  BY <1>1 DEF X
<1>3. r \in Seq(X) /\ Len(r) = Len(q) - 1 /\ Len(q) \in Nat
  BY <1>2, RemoveAtProperties
<1>4. /\ \A i \in 1 .. Len(q) - 1 :
             \E j \in 1 .. Len(q) : /\ j # p /\ r[i] = q[j]
                                    /\ j = IF i < p THEN i ELSE i + 1
      /\ \A j \in 1 .. Len(q) : j # p => \E i \in 1 .. Len(q) - 1 : r[i] = q[j]
  <2>1. /\ \A i \in 1 .. Len(q) - 1 :
               \E j \in 1 .. Len(q) : /\ j # p /\ RemoveAt(q, p)[i] = q[j]
                                      /\ j = IF i < p THEN i ELSE i + 1
        /\ \A j \in 1 .. Len(q) : j # p => \E i \in 1 .. Len(q) - 1 : RemoveAt(q, p)[i] = q[j]
    BY <1>2, RemoveAtPositions, Zenon
  <2>2. RemoveAt(q, p) = r
    OBVIOUS
  <2> QED BY <2>1, <2>2, Zenon
<1>5. /\ jx \in Maps(Elems) /\ DOMAIN jx = DOMAIN ix \ {k}
      /\ \A x \in DOMAIN ix \ {k} : jx[x] = ix[x]
  BY <1>1, RestrictProperties
<1>6. k \in DOMAIN ix
  BY <1>1
<1>7. ASSUME NEW i \in 1 .. Len(r)
      PROVE  /\ r[i].node \in 1 .. Len(hp)
             /\ ShardOf(KeyOf(r, i, hp)) = s
             /\ KeyOf(r, i, hp) \in DOMAIN jx
             /\ jx[KeyOf(r, i, hp)] = r[i].elem
  <2>1. PICK j \in 1 .. Len(q) : j # p /\ r[i] = q[j]
    BY <1>3, <1>4
  <2>2. KeyOf(r, i, hp) = KeyOf(q, j, hp)
    BY <2>1 DEF KeyOf
  <2>3. KeyOf(q, j, hp) # k
    BY <2>1, KeysDiffer
  <2>4. /\ q[j].node \in 1 .. Len(hp) /\ ShardOf(KeyOf(q, j, hp)) = s
        /\ KeyOf(q, j, hp) \in DOMAIN ix /\ ix[KeyOf(q, j, hp)] = q[j].elem
    BY <1>1
  <2> QED BY <1>5, <2>1, <2>2, <2>3, <2>4
<1>8. ASSUME NEW i \in 1 .. Len(r), NEW j \in 1 .. Len(r), r[i].elem = r[j].elem PROVE i = j
  <2>1. PICK a \in 1 .. Len(q) : r[i] = q[a] /\ a = IF i < p THEN i ELSE i + 1
    BY <1>3, <1>4
  <2>2. PICK b \in 1 .. Len(q) : r[j] = q[b] /\ b = IF j < p THEN j ELSE j + 1
    BY <1>3, <1>4
  <2>3. a = b
    BY <1>1, <1>8, <2>1, <2>2
  <2> QED BY <1>3, <2>1, <2>2, <2>3
<1>9. ASSUME NEW x \in DOMAIN jx PROVE \E i \in 1 .. Len(r) : KeyOf(r, i, hp) = x
  <2>1. PICK j \in 1 .. Len(q) : KeyOf(q, j, hp) = x
    BY <1>1, <1>5
  <2>2. j # p
    BY <1>5, <2>1
  <2>3. PICK i \in 1 .. Len(q) - 1 : r[i] = q[j]
    BY <1>4, <2>2
  <2> QED BY <1>3, <2>1, <2>3 DEF KeyOf
<1>10. ElemsOf(r) \subseteq ElemsOf(q) \ {q[p].elem}
  <2> SUFFICES ASSUME NEW i \in 1 .. Len(r) PROVE r[i].elem \in ElemsOf(q) \ {q[p].elem}
    BY DEF ElemsOf
  <2>1. PICK j \in 1 .. Len(q) : j # p /\ r[i] = q[j]
    BY <1>3, <1>4
  <2>2. q[j].elem # q[p].elem
    BY <1>1, <2>1
  <2> QED BY <2>1, <2>2 DEF ElemsOf
<1>11. Len(r) <= Capacity /\ r \in Seq(Cells)
  BY <1>1, <1>3 DEF X
<1>12. ShardOK(s, r, jx, hp)
  BY <1>5, <1>7, <1>8, <1>9, <1>11 DEF ShardOK
<1> QED BY <1>3, <1>5, <1>6, <1>10, <1>12

\* A node at the front, in an element of its own.
LEMMA PushNode ==
    ASSUME NEW s, NEW q, NEW ix, NEW hp, ShardOK(s, q, ix, hp), Len(q) < Capacity,
           NEW n \in 1 .. Len(hp), NEW k \in Keys, k = hp[n].key, ShardOf(k) = s,
           k \notin DOMAIN ix, Len(hp) \in Nat,
           NEW e \in Elems, e \notin ElemsOf(q), NEW r, r = PushFront(q, e, n),
           NEW jx, jx = With(ix, k, e)
    PROVE  ShardOK(s, r, jx, hp)
<1> DEFINE c == [elem |-> e, node |-> n]
           X == Cells
<1>1. /\ q \in Seq(Cells) /\ Len(q) <= Capacity /\ ix \in Maps(Elems)
      /\ \A i \in 1 .. Len(q) : /\ q[i].node \in 1 .. Len(hp)
                                /\ ShardOf(KeyOf(q, i, hp)) = s
                                /\ KeyOf(q, i, hp) \in DOMAIN ix
                                /\ ix[KeyOf(q, i, hp)] = q[i].elem
      /\ \A i, j \in 1 .. Len(q) : q[i].elem = q[j].elem => i = j
      /\ \A x \in DOMAIN ix : \E i \in 1 .. Len(q) : KeyOf(q, i, hp) = x
  BY DEF ShardOK
<1>2. c \in X /\ c.elem = e /\ c.node = n
  BY DEF Cells
<1>3. r = <<c>> \o q
  BY DEF PushFront
<1> HIDE DEF X, c
<1>4. q \in Seq(X)
  BY <1>1 DEF X
<1>5. /\ r \in Seq(X) /\ Len(r) = Len(q) + 1 /\ r[1] = c /\ Len(q) \in Nat
      /\ \A i \in 1 .. Len(q) : r[i + 1] = q[i]
  BY <1>2, <1>3, <1>4, PushFrontProperties
<1>6. \A i \in 1 .. Len(r) : i = 1 \/ \E j \in 1 .. Len(q) : i = j + 1 /\ r[i] = q[j]
  <2>1. \A l \in Nat : \A i \in 1 .. l + 1 : i = 1 \/ (i - 1 \in 1 .. l /\ i = (i - 1) + 1)
    OBVIOUS
  <2>2. \A i \in 1 .. Len(r) : i = 1 \/ (i - 1 \in 1 .. Len(q) /\ i = (i - 1) + 1)
    BY <1>5, <2>1
  <2> QED BY <1>5, <2>2
<1>7. /\ jx \in Maps(Elems) /\ DOMAIN jx = DOMAIN ix \cup {k} /\ jx[k] = e
      /\ \A x \in DOMAIN ix : jx[x] = ix[x]
  <2>1. ix \in Maps(Elems) /\ k \in Keys /\ e \in Elems /\ k \notin DOMAIN ix
    BY <1>1
  <2>2. /\ With(ix, k, e) \in Maps(Elems) /\ DOMAIN With(ix, k, e) = DOMAIN ix \cup {k}
        /\ With(ix, k, e)[k] = e
        /\ \A x \in DOMAIN ix : With(ix, k, e)[x] = ix[x]
    BY ONLY <2>1, IndexWith
  <2> QED BY <2>2
<1>8. KeyOf(r, 1, hp) = k
  BY <1>2, <1>5 DEF KeyOf
<1>9. ASSUME NEW i \in 1 .. Len(r)
      PROVE  /\ r[i].node \in 1 .. Len(hp)
             /\ ShardOf(KeyOf(r, i, hp)) = s
             /\ KeyOf(r, i, hp) \in DOMAIN jx
             /\ jx[KeyOf(r, i, hp)] = r[i].elem
  <2>1. CASE i = 1
    BY <1>2, <1>5, <1>7, <1>8, <2>1
  <2>2. CASE i # 1
    <3>1. PICK j \in 1 .. Len(q) : r[i] = q[j]
      BY <1>6, <2>2
    <3>2. KeyOf(r, i, hp) = KeyOf(q, j, hp)
      BY <3>1 DEF KeyOf
    <3> QED BY <1>1, <1>7, <3>1, <3>2
  <2> QED BY <2>1, <2>2
<1>10. \A j \in 1 .. Len(q) : q[j].elem # e
  BY DEF ElemsOf
<1>11. ASSUME NEW i \in 1 .. Len(r), NEW j \in 1 .. Len(r), r[i].elem = r[j].elem PROVE i = j
  <2>1. CASE i # 1 /\ j # 1
    <3>1. PICK a \in 1 .. Len(q) : i = a + 1 /\ r[i] = q[a]
      BY <1>6, <2>1
    <3>2. PICK b \in 1 .. Len(q) : j = b + 1 /\ r[j] = q[b]
      BY <1>6, <2>1
    <3>3. a = b
      BY <1>1, <1>11, <3>1, <3>2
    <3> QED BY <3>1, <3>2, <3>3
  <2>2. CASE i = 1 \/ j = 1
    <3>1. r[1].elem = e
      BY <1>2, <1>5
    <3>2. \A l \in 1 .. Len(r) : l = 1 \/ r[l].elem # e
      BY <1>6, <1>10
    <3> QED BY <1>11, <2>2, <3>1, <3>2
  <2> QED BY <2>1, <2>2
<1>12. ASSUME NEW x \in DOMAIN jx PROVE \E i \in 1 .. Len(r) : KeyOf(r, i, hp) = x
  <2>1. CASE x = k
    <3>1. 1 \in 1 .. Len(r)
      BY <1>5
    <3> QED BY <1>8, <2>1, <3>1
  <2>2. CASE x # k
    <3>1. PICK j \in 1 .. Len(q) : KeyOf(q, j, hp) = x
      BY <1>1, <1>7, <2>2
    <3>2. j + 1 \in 1 .. Len(r) /\ r[j + 1] = q[j]
      BY <1>5
    <3> DEFINE m == j + 1
    <3>3. m \in 1 .. Len(r) /\ r[m] = q[j]
      BY <3>2
    <3> HIDE DEF m
    <3> QED BY <3>1, <3>3 DEF KeyOf
  <2> QED BY <2>1, <2>2
<1>13. Len(r) <= Capacity /\ r \in Seq(Cells)
  BY <1>5 DEF X
<1> QED BY <1>7, <1>9, <1>11, <1>12, <1>13 DEF ShardOK

\* New nodes, and what Unref and Ref do to the old, leave the shard as it is.
LEMMA LaterHeap ==
    ASSUME NEW s, NEW q, NEW ix, NEW hp, NEW hq, ShardOK(s, q, ix, hp),
           Len(hp) \in Nat, Len(hq) \in Nat, Len(hp) <= Len(hq),
           \A n \in 1 .. Len(hp) : hq[n].key = hp[n].key
    PROVE  ShardOK(s, q, ix, hq)
<1>1. \A i \in 1 .. Len(q) : q[i].node \in 1 .. Len(hp)
  BY DEF ShardOK
<1>2. \A i \in 1 .. Len(q) : KeyOf(q, i, hq) = KeyOf(q, i, hp) /\ q[i].node \in 1 .. Len(hq)
  BY <1>1 DEF KeyOf
<1> QED BY <1>2 DEF ShardOK

\* There always is an element for one more node.
LEMMA FreshElemExists ==
    ASSUME NEW q \in Seq(Cells), Len(q) <= Capacity
    PROVE  FreshElem(q) \in Elems \ ElemsOf(q)
<1>1. \E e \in Elems : e \notin ElemsOf(q)
  <2> SUFFICES ASSUME Elems \subseteq ElemsOf(q) PROVE FALSE
    OBVIOUS
  <2>1. Len(q) \in Nat /\ Capacity \in Nat
    OBVIOUS
  <2>2. IsFiniteSet(1 .. Len(q)) /\ Cardinality(1 .. Len(q)) = Len(q)
    <3> DEFINE l == Len(q)
    <3>1. l \in Nat /\ 1 \in Int /\ l \in Int
      BY <2>1
    <3> HIDE DEF l
    <3>2. IsFiniteSet(1 .. l) /\ Cardinality(1 .. l) = IF 1 > l THEN 0 ELSE l - 1 + 1
      BY <3>1, FS_Interval, Zenon
    <3>3. Cardinality(1 .. l) = l
      BY <3>1, <3>2
    <3> QED BY <3>2, <3>3 DEF l
  <2> DEFINE f == [i \in 1 .. Len(q) |-> q[i].elem]
  <2>3. ElemsOf(q) = {f[i] : i \in 1 .. Len(q)}
    BY DEF ElemsOf
  <2>4. f \in Surjection(1 .. Len(q), ElemsOf(q))
    BY <2>3 DEF Surjection
  <2> HIDE DEF f
  <2>5. IsFiniteSet(ElemsOf(q)) /\ Cardinality(ElemsOf(q)) <= Len(q)
    BY <2>2, <2>4, FS_Surjection
  <2>6. IsFiniteSet(Elems) /\ Cardinality(Elems) = Capacity + 1
    BY <2>1, FS_Interval DEF Elems
  <2>7. Cardinality(Elems) <= Cardinality(ElemsOf(q))
    BY <2>5, FS_Subset
  <2>8. Cardinality(ElemsOf(q)) \in Nat
    BY <2>5, FS_CardinalityType
  <2> QED BY <2>1, <2>5, <2>6, <2>7, <2>8
<1> QED BY <1>1 DEF FreshElem

\* The iterator of a cached key points to the element of its node.
LEMMA PositionOfKey ==
    ASSUME NEW s, ShardOK(s, nodes[s], index[s], heap), NEW k \in DOMAIN index[s]
    PROVE  /\ Position(s, k) \in 1 .. Len(nodes[s])
           /\ KeyOf(nodes[s], Position(s, k), heap) = k
           /\ NodeAt(s, k) \in 1 .. Len(heap) /\ heap[NodeAt(s, k)].key = k
<1>1. PICK i \in 1 .. Len(nodes[s]) : KeyOf(nodes[s], i, heap) = k
  BY DEF ShardOK
<1>2. nodes[s][i].elem = index[s][k]
  BY <1>1 DEF ShardOK
<1>3. Position(s, k) \in 1 .. Len(nodes[s]) /\ nodes[s][Position(s, k)].elem = index[s][k]
  BY <1>2 DEF Position
<1>4. Position(s, k) = i
  BY <1>2, <1>3 DEF ShardOK
<1>5. nodes[s][i].node \in 1 .. Len(heap)
  BY DEF ShardOK
<1> QED BY <1>1, <1>4, <1>5 DEF NodeAt, KeyOf

-----------------------------------------------------------------------------
(* The heap and wait_erase_                                                *)

\* hq is hp after some steps: nodes keep their keys and are never taken back.
Later(hp, hq) ==
    /\ HeapOK(hq) /\ Len(hp) <= Len(hq)
    /\ \A n \in 1 .. Len(hp) : hq[n].key = hp[n].key

Stored(hp, w) == [heap |-> hp, wait |-> w, freed |-> {}]

\* Another heap in a store.
LEMMA StoredHeap == \A hp, hq, w : [Stored(hp, w) EXCEPT !.heap = hq] = Stored(hq, w)
BY DEF Stored

\* A heap with one more node.
LEMMA NewNodeKeeps ==
    ASSUME NEW hp, HeapOK(hp), Len(hp) < MaxNodes, NEW k \in Keys, NEW x,
           x = [key |-> k, value |-> Len(hp) + 1, refs |-> 1, in_cache |-> TRUE]
    PROVE  /\ Later(hp, Append(hp, x)) /\ Len(Append(hp, x)) = Len(hp) + 1
           /\ Append(hp, x)[Len(hp) + 1].key = k
<1> DEFINE R == Records
           hq == Append(hp, x)
<1>1. hp \in Seq(R) /\ Len(hp) \in Nat
  BY DEF HeapOK
<1>2. x \in R /\ x.key = k /\ x.value = Len(hp) + 1
  <2>1. Len(hp) + 1 \in Nodes /\ 1 \in 0 .. RefModulus - 1
    BY <1>1 DEF Nodes
  <2> QED BY <2>1 DEF Records
<1> HIDE DEF R
<1>3. /\ hq \in Seq(R) /\ Len(hq) = Len(hp) + 1 /\ hq[Len(hp) + 1] = x
      /\ \A n \in 1 .. Len(hp) : hq[n] = hp[n]
  BY <1>1, <1>2, AppendProperties
<1> HIDE DEF hq
<1>4. \A n \in 1 .. Len(hq) : n \in 1 .. Len(hp) \/ n = Len(hp) + 1
  BY <1>1, <1>3
<1>5. \A n \in 1 .. Len(hq) : hq[n].value = n
  BY <1>2, <1>3, <1>4 DEF HeapOK
<1>6. Len(hq) <= MaxNodes /\ Len(hp) <= Len(hq)
  BY <1>1, <1>3
<1>7. HeapOK(hq)
  BY <1>3, <1>5, <1>6 DEF HeapOK, R
<1>8. Later(hp, hq) /\ Len(hq) = Len(hp) + 1 /\ hq[Len(hp) + 1].key = k
  BY <1>2, <1>3, <1>6, <1>7 DEF Later
<1> QED BY <1>8 DEF hq

\* A heap with another record for a node: only count and in_cache differ.
LEMMA NewRecordKeeps ==
    ASSUME NEW hp, HeapOK(hp), NEW n \in 1 .. Len(hp), NEW x \in Records,
           x.key = hp[n].key, x.value = hp[n].value, NEW hq, hq = [hp EXCEPT ![n] = x]
    PROVE  Later(hp, hq) /\ Len(hq) = Len(hp)
<1>1. hp \in Seq(Records) /\ Len(hp) \in Nat
  BY DEF HeapOK
<1>2. hq \in Seq(Records) /\ Len(hq) = Len(hp)
  BY <1>1
<1>3. \A m \in 1 .. Len(hp) : hq[m].key = hp[m].key /\ hq[m].value = hp[m].value
  BY <1>1
<1>4. HeapOK(hq)
  BY <1>2, <1>3 DEF HeapOK
<1> QED BY <1>1, <1>2, <1>3, <1>4 DEF Later

\* One step after another.
LEMMA LaterTransitive ==
    ASSUME NEW a, NEW b, NEW c, HeapOK(a), Later(a, b), Later(b, c)
    PROVE  Later(a, c)
<1>1. Len(a) \in Nat /\ Len(b) \in Nat /\ Len(c) \in Nat
  BY DEF Later, HeapOK
<1>2. \A n \in 1 .. Len(a) : n \in 1 .. Len(b)
  BY <1>1 DEF Later
<1> QED BY <1>1, <1>2 DEF Later

\* FinishErase leaves the node to wait_erase_, and deletes nothing.
LEMMA FinishEraseKeeps ==
    ASSUME NEW hp, HeapOK(hp), NEW w, WaitOK(w, hp), NEW n \in 1 .. Len(hp),
           NEW st, st = FinishErase(Stored(hp, w), n)
    PROVE  /\ Later(hp, st.heap) /\ Len(st.heap) = Len(hp)
           /\ st.freed = {} /\ WaitOK(st.wait, st.heap)
<1> DEFINE x == [hp[n] EXCEPT !.in_cache = FALSE]
           hq == [hp EXCEPT ![n] = x]
           k == hp[n].key
           done == IF k \in DOMAIN w THEN w ELSE With(w, k, n)
<1>1. hp \in Seq(Records) /\ Len(hp) \in Nat /\ n \in Nat /\ n # 0
  BY DEF HeapOK
<1>2. hp[n] \in Records
  BY <1>1
<1>3. x \in Records /\ x.key = hp[n].key /\ x.value = hp[n].value /\ k \in Keys
  BY <1>2 DEF Records
<1>4. Later(hp, hq) /\ Len(hq) = Len(hp)
  <2> HIDE DEF x
  <2> QED BY <1>3, NewRecordKeeps
<1>5. [Stored(hp, w) EXCEPT !.heap[n].in_cache = FALSE] = Stored(hq, w)
  <2>1. [hp EXCEPT ![n].in_cache = FALSE] = hq
    OBVIOUS
  <2>2. [Stored(hp, w) EXCEPT !.heap[n].in_cache = FALSE]
          = [heap |-> [hp EXCEPT ![n].in_cache = FALSE], wait |-> w, freed |-> {}]
    <3> DEFINE z == Stored(hp, w)
    <3>1. z.heap = hp
      BY DEF Stored
    <3> HIDE DEF z
    <3>2. [z EXCEPT !.heap[n].in_cache = FALSE] = [z EXCEPT !.heap = [@ EXCEPT ![n].in_cache = FALSE]]
      OBVIOUS
    <3>3. [z EXCEPT !.heap[n].in_cache = FALSE] = [z EXCEPT !.heap = [hp EXCEPT ![n].in_cache = FALSE]]
      BY <3>1, <3>2
    <3> DEFINE y == [hp EXCEPT ![n].in_cache = FALSE]
    <3> HIDE DEF y
    <3>4. [Stored(hp, w) EXCEPT !.heap = y] = Stored(y, w)
      BY StoredHeap
    <3> QED BY <3>3, <3>4 DEF z, y, Stored
  <2> HIDE DEF hq
  <2> QED BY <2>1, <2>2 DEF Stored
<1>6. hq[n].key = k
  BY <1>1
<1>7. MoveToEraseContainer(Stored(hq, w), n) = Stored(hq, done)
  <2> HIDE DEF hq, k
  <2>1. Stored(hq, w).heap = hq /\ Stored(hq, w).wait = w
    BY DEF Stored
  <2>2. CASE k \in DOMAIN w
    BY <1>6, <2>1, <2>2 DEF MoveToEraseContainer
  <2>3. CASE k \notin DOMAIN w
    BY <1>6, <2>1, <2>3 DEF MoveToEraseContainer, Stored
  <2> QED BY <2>2, <2>3
<1>8. Unref(Stored(hq, done), n) = Stored(hq, done)
  BY <1>1 DEF Unref, Null
<1>9. st = Stored(hq, done)
  <2> HIDE DEF hq, done, x
  <2> QED BY <1>5, <1>7, <1>8 DEF FinishErase, x
<1>10. WaitOK(done, hp)
  <2>1. w \in Maps(Nat) /\ \A y \in DOMAIN w : w[y] \in 1 .. Len(hp)
    BY DEF WaitOK
  <2>2. CASE k \in DOMAIN w
    BY <2>2
  <2>3. CASE k \notin DOMAIN w
    <3> HIDE DEF k
    <3>1. /\ With(w, k, n) \in Maps(Nat) /\ DOMAIN With(w, k, n) = DOMAIN w \cup {k}
          /\ With(w, k, n)[k] = n
          /\ \A y \in DOMAIN w : With(w, k, n)[y] = w[y]
      <4>1. w \in Maps(Nat) /\ k \in Keys /\ n \in Nat /\ k \notin DOMAIN w
        BY <1>1, <1>3, <2>1, <2>3
      <4> QED BY ONLY <4>1, WaitWith
    <3>2. done = With(w, k, n)
      BY <2>3
    <3> HIDE DEF done
    <3> QED BY <2>1, <3>1, <3>2 DEF WaitOK
  <2> QED BY <2>2, <2>3
<1> HIDE DEF hq, done
<1>11. st.heap = hq /\ st.wait = done /\ st.freed = {}
  BY ONLY <1>9 DEF Stored
<1>12. WaitOK(done, hq)
  BY <1>4, <1>10 DEF WaitOK
<1> QED BY <1>4, <1>11, <1>12

-----------------------------------------------------------------------------
(* Every step keeps the invariant                                          *)

\* The parts of the invariant about one shard.
LEMMA ShardFacts ==
    ASSUME CacheIInv, NEW s \in Shards
    PROVE  /\ nodes[s] \in Seq(Cells) /\ index[s] \in Maps(Elems) /\ wait_erase[s] \in Maps(Nat)
           /\ ShardOK(s, nodes[s], index[s], heap) /\ WaitOK(wait_erase[s], heap)
           /\ HeapOK(heap) /\ Len(heap) \in Nat /\ Len(nodes[s]) \in Nat
           /\ Store(s) = Stored(heap, wait_erase[s])
<1>1. /\ ShardOK(s, nodes[s], index[s], heap) /\ WaitOK(wait_erase[s], heap)
      /\ HeapOK(heap) /\ freed = {}
  BY DEF CacheIInv
<1>2. nodes[s] \in Seq(Cells) /\ index[s] \in Maps(Elems) /\ wait_erase[s] \in Maps(Nat)
  BY DEF CacheIInv
<1>3. Store(s) = Stored(heap, wait_erase[s])
  BY <1>1 DEF Store, Stored
<1> QED BY <1>1, <1>2, <1>3 DEF HeapOK

\* A step on one shard leaves the others as they are.
LEMMA ShardStep ==
    ASSUME CacheIInv, NEW s \in Shards, NEW q, NEW ix, NEW w,
           Later(heap, heap'), freed' = {},
           nodes' = [nodes EXCEPT ![s] = q], index' = [index EXCEPT ![s] = ix],
           wait_erase' = [wait_erase EXCEPT ![s] = w],
           ShardOK(s, q, ix, heap'), WaitOK(w, heap'),
           held' \in [Clients -> {Null} \cup 1 .. Len(heap')],
           pruned' \in [Clients -> Shards], last' \in Keys
    PROVE  CacheIInv'
<1>1. q \in Seq(Cells) /\ ix \in Maps(Elems) /\ w \in Maps(Nat)
  BY DEF ShardOK, WaitOK
<1>2. /\ nodes' \in [Shards -> Seq(Cells)] /\ index' \in [Shards -> Maps(Elems)]
      /\ wait_erase' \in [Shards -> Maps(Nat)]
  BY <1>1 DEF CacheIInv
<1>3. HeapOK(heap') /\ Len(heap) \in Nat /\ Len(heap') \in Nat /\ Len(heap) <= Len(heap')
  BY DEF CacheIInv, Later, HeapOK
<1>4. ASSUME NEW t \in Shards
      PROVE  ShardOK(t, nodes'[t], index'[t], heap') /\ WaitOK(wait_erase'[t], heap')
  <2>1. CASE t = s
    <3>1. nodes'[t] = q /\ index'[t] = ix /\ wait_erase'[t] = w
      BY <2>1 DEF CacheIInv
    <3> QED BY <2>1, <3>1
  <2>2. CASE t # s
    <3>1. nodes'[t] = nodes[t] /\ index'[t] = index[t] /\ wait_erase'[t] = wait_erase[t]
      BY <2>2 DEF CacheIInv
    <3>2. ShardOK(t, nodes[t], index[t], heap) /\ WaitOK(wait_erase[t], heap)
      BY ShardFacts
    <3>3. ShardOK(t, nodes[t], index[t], heap')
      BY <1>3, <3>2, LaterHeap DEF Later
    <3>4. WaitOK(wait_erase[t], heap')
      BY <1>3, <3>2 DEF WaitOK
    <3> QED BY <3>1, <3>3, <3>4
  <2> QED BY <2>1, <2>2
<1> QED BY <1>2, <1>3, <1>4 DEF CacheIInv

\* A node that is held stays one.
LEMMA HeldLater ==
    ASSUME CacheIInv, Later(heap, heap')
    PROVE  held \in [Clients -> {Null} \cup 1 .. Len(heap')]
<1>1. Len(heap) \in Nat /\ Len(heap') \in Nat /\ Len(heap) <= Len(heap')
  BY DEF CacheIInv, Later, HeapOK
<1>2. held \in [Clients -> {Null} \cup 1 .. Len(heap)]
  BY DEF CacheIInv
<1> QED BY <1>1, <1>2

\* The last element is at Len(q).
LEMMA FrontIsRemoveAt ==
    ASSUME NEW X, NEW q \in Seq(X), Len(q) # 0
    PROVE  Front(q) = RemoveAt(q, Len(q))
<1> DEFINE l == Len(q)
           r == RemoveAt(q, l)
           f == Front(q)
<1>1. l \in Nat /\ 1 <= l /\ l \in 1 .. Len(q)
  OBVIOUS
<1>2. f \in Seq(X) /\ Len(f) = l - 1 /\ \A i \in 1 .. l - 1 : f[i] = q[i]
  <2> DEFINE m == l - 1
  <2>1. 1 \in Int /\ m \in Int /\ 1 <= m + 1 /\ m <= Len(q) /\ m \in Nat
    BY <1>1
  <2>2. f = SubSeq(q, 1, m)
    BY DEF Front
  <2>3. SubSeq(q, 1, m) \in Seq(X)
    BY <2>1
  <2>4. Len(SubSeq(q, 1, m)) = m /\ \A i \in 1 .. m : SubSeq(q, 1, m)[i] = q[i]
    <3> HIDE DEF m
    <3> QED BY <2>1
  <2> QED BY <2>2, <2>3, <2>4
<1>3. /\ r \in Seq(X) /\ Len(r) = l - 1
      /\ \A i \in 1 .. l - 1 : r[i] = q[IF i < l THEN i ELSE i + 1]
  <2> HIDE DEF r
  <2>1. /\ RemoveAt(q, l) \in Seq(X) /\ Len(RemoveAt(q, l)) = Len(q) - 1
        /\ \A i \in 1 .. Len(q) - 1 : RemoveAt(q, l)[i] = q[IF i < l THEN i ELSE i + 1]
    BY <1>1, RemoveAtProperties
  <2> QED BY <2>1 DEF r
<1>4. \A i \in 1 .. l - 1 : i < l
  BY <1>1
<1> HIDE DEF r, f
<1>5. \A i \in 1 .. Len(f) : f[i] = r[i]
  BY <1>2, <1>3, <1>4
<1>6. f = r
  BY <1>2, <1>3, <1>5, SeqEqual
<1> QED BY <1>6 DEF f, r

\* The iterator of one key changes.
LEMMA IndexSet ==
    ASSUME NEW ix \in Maps(Elems), NEW k \in DOMAIN ix, NEW e \in Elems
    PROVE  /\ With(Restrict(ix, DOMAIN ix \ {k}), k, e) = [ix EXCEPT ![k] = e]
           /\ k \in Keys
<1>1. PICK D \in SUBSET Keys : ix \in [D -> Elems]
  BY DEF Maps
<1>2. (DOMAIN ix \ {k}) \cup {k} = DOMAIN ix
  OBVIOUS
<1> QED BY <1>1, <1>2 DEF With, Restrict

\* Insert of a new key: a full shard gives its last node to wait_erase_.
LEMMA InsertMissKeeps ==
    ASSUME CacheIInv, NEW k \in Keys, Len(heap) < MaxNodes, InsertMiss(k),
           last' = k, UNCHANGED <<held, pruned>>
    PROVE  /\ CacheIInv' /\ Len(heap') = Len(heap) + 1 /\ Later(heap, heap')
           /\ heap'[Len(heap) + 1].key = k
<1> DEFINE s == ShardOf(k)
           q == nodes[s]
           ix == index[s]
           w == wait_erase[s]
           n == Len(heap) + 1
           e == FreshElem(q)
           built == Append(heap, NewNode(k))
<1>1. s \in Shards
  BY ShardOfKey
<1>2. /\ q \in Seq(Cells) /\ ix \in Maps(Elems) /\ ShardOK(s, q, ix, heap) /\ WaitOK(w, heap)
      /\ HeapOK(heap) /\ Len(heap) \in Nat /\ Len(q) \in Nat /\ Store(s) = Stored(heap, w)
  <2> HIDE DEF s
  <2> QED BY <1>1, ShardFacts
<1>3. Later(heap, built) /\ Len(built) = Len(heap) + 1 /\ built[n].key = k
  <2> DEFINE x == NewNode(k)
  <2>1. x = [key |-> k, value |-> Len(heap) + 1, refs |-> 1, in_cache |-> TRUE]
    BY DEF NewNode
  <2> HIDE DEF x
  <2> QED BY <1>2, <2>1, NewNodeKeeps DEF x
<1>4. e \in Elems /\ e \notin ElemsOf(q)
  <2> HIDE DEF q, s
  <2>1. Len(q) <= Capacity
    BY <1>2 DEF ShardOK
  <2> QED BY <1>2, <2>1, FreshElemExists
<1>5. k \notin DOMAIN ix
  BY DEF InsertMiss
<1>6. [Store(s) EXCEPT !.heap = Append(@, NewNode(k))] = Stored(built, w)
  <2>1. Stored(heap, w).heap = heap
    BY DEF Stored
  <2> HIDE DEF s, w
  <2>2. [Stored(heap, w) EXCEPT !.heap = Append(@, NewNode(k))]
          = [Stored(heap, w) EXCEPT !.heap = built]
    BY <2>1
  <2> HIDE DEF built
  <2> QED BY <1>2, <2>2, StoredHeap
<1>7. n \in 1 .. Len(built) /\ HeapOK(built) /\ WaitOK(w, built)
  <2>1. Len(built) = Len(heap) + 1 /\ HeapOK(built)
    BY <1>3 DEF Later
  <2> HIDE DEF built, w
  <2>2. \A y \in 1 .. Len(heap) : y \in 1 .. Len(built)
    BY <1>2, <2>1
  <2> QED BY <1>2, <2>1, <2>2 DEF WaitOK
<1>8. CASE ~ Full(s)
  <2>1. Len(q) < Capacity
    BY <1>2, <1>8 DEF Full, ShardOK
  <2>2. ix = Restrict(ix, DOMAIN ix)
    <3>1. PICK D \in SUBSET Keys : ix \in [D -> Elems]
      BY <1>2 DEF Maps
    <3> QED BY <3>1 DEF Restrict
  <2>3. /\ nodes' = [nodes EXCEPT ![s] = PushFront(q, e, n)]
        /\ index' = [index EXCEPT ![s] = With(ix, k, e)]
        /\ heap' = built /\ freed' = {} /\ wait_erase' = [wait_erase EXCEPT ![s] = w]
    <3>1. SetStore(s, Stored(built, w))
      BY <1>6, <1>8 DEF InsertMiss
    <3>2. nodes' = [nodes EXCEPT ![s] = PushFront(q, e, n)]
      BY <1>8 DEF InsertMiss
    <3>3. index' = [index EXCEPT ![s] = With(Restrict(@, DOMAIN ix), k, e)]
      BY <1>8 DEF InsertMiss
    <3>4. index' = [index EXCEPT ![s] = With(ix, k, e)]
      BY <2>2, <3>3
    <3>5. Stored(built, w).heap = built /\ Stored(built, w).wait = w /\ Stored(built, w).freed = {}
      BY DEF Stored
    <3> HIDE DEF built, w, s
    <3>6. heap' = built /\ freed' = {} /\ wait_erase' = [wait_erase EXCEPT ![s] = w]
      BY <3>1, <3>5 DEF SetStore
    <3> QED BY <3>2, <3>4, <3>6
  <2> HIDE DEF built, s, q, ix, w, n, e
  <2>4. ShardOK(s, q, ix, built)
    BY <1>2, <1>3, <1>7, LaterHeap DEF Later, HeapOK
  <2>5. ShardOK(s, PushFront(q, e, n), With(ix, k, e), built)
    <3>1. Len(built) \in Nat
      BY <1>2, <1>3
    <3> QED BY <1>3, <1>4, <1>5, <1>7, <2>1, <2>4, <3>1, PushNode DEF s
  <2>6. held' \in [Clients -> {Null} \cup 1 .. Len(heap')]
    BY <1>3, <2>3, HeldLater
  <2>7. pruned' \in [Clients -> Shards] /\ last' \in Keys
    BY DEF CacheIInv
  <2>8. CacheIInv'
    BY <1>1, <1>3, <1>7, <2>3, <2>5, <2>6, <2>7, ShardStep
  <2> QED BY <1>3, <2>3, <2>8 DEF n
<1>9. CASE Full(s)
  <2> DEFINE p == Len(q)
             tail == q[p].node
             kt == heap[tail].key
             r == RemoveAt(q, p)
             jx == Restrict(ix, DOMAIN ix \ {kt})
             st == FinishErase(Stored(built, w), tail)
  <2>1. p \in 1 .. Len(q) /\ Len(q) = Capacity /\ Len(q) # 0
    BY <1>2, <1>9 DEF Full
  <2>2. Front(q) = r
    <3> HIDE DEF q
    <3> QED BY <1>2, <2>1, FrontIsRemoveAt
  <2>3. /\ nodes' = [nodes EXCEPT ![s] = PushFront(r, e, n)]
        /\ index' = [index EXCEPT ![s] = With(jx, k, e)]
        /\ SetStore(s, st)
    BY <1>6, <1>9, <2>2 DEF InsertMiss
  <2>4. kt = KeyOf(q, p, heap) /\ tail \in 1 .. Len(heap)
    <3>1. q[p].node \in 1 .. Len(heap)
      BY <1>2, <2>1 DEF ShardOK
    <3> QED BY <3>1 DEF KeyOf
  <2> HIDE DEF s, q, ix, w, n, e, built, p, tail
  <2>5. /\ ShardOK(s, r, jx, heap) /\ Len(r) = Len(q) - 1
        /\ k \notin DOMAIN jx
        /\ ElemsOf(r) \subseteq ElemsOf(q) \ {q[p].elem}
    <3> HIDE DEF r, kt, jx
    <3>1. r = RemoveAt(q, p) /\ jx = Restrict(ix, DOMAIN ix \ {kt}) /\ kt = KeyOf(q, p, heap)
      BY <2>4 DEF r, jx
    <3>2. /\ ShardOK(s, r, jx, heap) /\ Len(r) = Len(q) - 1 /\ ElemsOf(r) \subseteq ElemsOf(q) \ {q[p].elem}
      BY ONLY <1>2, <2>1, <3>1, RemoveNode
    <3>3. DOMAIN jx = DOMAIN ix \ {kt}
      BY ONLY <1>2, <3>1, RestrictProperties
    <3> QED BY <1>5, <3>2, <3>3
  <2>6. /\ Later(built, st.heap) /\ Len(st.heap) = Len(built)
        /\ st.freed = {} /\ WaitOK(st.wait, st.heap)
    <3>1. tail \in 1 .. Len(built)
      BY <1>2, <1>3, <2>4
    <3> QED BY <1>7, <3>1, FinishEraseKeeps
  <2> HIDE DEF r, kt, jx, st
  <2>7. heap' = st.heap /\ wait_erase' = [wait_erase EXCEPT ![s] = st.wait] /\ freed' = {}
    BY <2>3, <2>6 DEF SetStore
  <2>8. Later(heap, heap') /\ Len(heap') = Len(heap) + 1 /\ heap'[n].key = k /\ n \in 1 .. Len(heap')
    <3>1. Later(heap, st.heap)
      BY <1>2, <1>3, <2>6, LaterTransitive
    <3>2. st.heap[n].key = built[n].key
      BY <1>7, <2>6 DEF Later
    <3> QED BY <1>3, <1>7, <2>6, <2>7, <3>1, <3>2
  <2>9. ShardOK(s, r, jx, heap')
    <3>1. Len(heap') \in Nat
      BY <1>2, <2>8
    <3> QED BY <1>2, <2>5, <2>8, <3>1, LaterHeap DEF Later
  <2>10. ShardOK(s, PushFront(r, e, n), With(jx, k, e), heap')
    <3>1. Len(heap') \in Nat /\ Len(r) < Capacity /\ e \notin ElemsOf(r)
      BY <1>2, <1>4, <2>1, <2>5, <2>8
    <3>2. ShardOf(k) = s /\ e \in Elems
      BY <1>4 DEF s
    <3> QED BY <2>5, <2>8, <2>9, <3>1, <3>2, PushNode
  <2>11. held' \in [Clients -> {Null} \cup 1 .. Len(heap')]
    BY <2>8, HeldLater
  <2>12. pruned' \in [Clients -> Shards] /\ last' \in Keys
    BY DEF CacheIInv
  <2>13. WaitOK(st.wait, heap')
    BY <2>6, <2>7
  <2>14. CacheIInv'
    BY <1>1, <2>3, <2>7, <2>8, <2>10, <2>11, <2>12, <2>13, ShardStep
  <2> QED BY <2>8, <2>14 DEF n
<1> QED BY <1>8, <1>9

\* A cached key of a shard: its node, and the shard without it.
LEMMA CachedKey ==
    ASSUME CacheIInv, NEW s \in Shards, NEW k \in DOMAIN index[s]
    PROVE  LET q  == nodes[s]
               ix == index[s]
               p  == Position(s, k)
               r  == RemoveAt(q, p)
               jx == Restrict(ix, DOMAIN ix \ {k})
           IN  /\ p \in 1 .. Len(q) /\ q[p] \in Cells /\ NodeAt(s, k) = q[p].node
               /\ NodeAt(s, k) \in 1 .. Len(heap) /\ heap[NodeAt(s, k)].key = k
               /\ k \in Keys /\ ShardOf(k) = s /\ ix[k] = q[p].elem
               /\ ShardOK(s, r, jx, heap) /\ Len(r) = Len(q) - 1 /\ Len(q) <= Capacity
               /\ k \notin DOMAIN jx /\ ElemsOf(r) \subseteq ElemsOf(q) \ {q[p].elem}
<1> DEFINE q == nodes[s]
           ix == index[s]
           p == Position(s, k)
           r == RemoveAt(q, p)
           jx == Restrict(ix, DOMAIN ix \ {k})
<1>1. /\ q \in Seq(Cells) /\ ix \in Maps(Elems) /\ ShardOK(s, q, ix, heap) /\ Len(q) \in Nat
      /\ HeapOK(heap)
  BY ShardFacts
<1>2. /\ p \in 1 .. Len(q) /\ KeyOf(q, p, heap) = k
      /\ NodeAt(s, k) \in 1 .. Len(heap) /\ heap[NodeAt(s, k)].key = k
  BY <1>1, PositionOfKey
<1>3. NodeAt(s, k) = q[p].node
  BY DEF NodeAt
<1>4. ShardOf(k) = s /\ ix[k] = q[p].elem /\ Len(q) <= Capacity
  <2> HIDE DEF q, ix, p
  <2> QED BY <1>1, <1>2 DEF ShardOK
<1>5. k \in Keys
  BY <1>1 DEF Maps
<1>6. /\ ShardOK(s, r, jx, heap) /\ Len(r) = Len(q) - 1
      /\ k \notin DOMAIN jx /\ ElemsOf(r) \subseteq ElemsOf(q) \ {q[p].elem}
  <2>1. k = KeyOf(q, p, heap) /\ r = RemoveAt(q, p) /\ jx = Restrict(ix, DOMAIN ix \ {k})
    BY <1>2
  <2>2. p \in 1 .. Len(q)
    BY <1>2
  <2> HIDE DEF q, ix, p, r, jx
  <2> QED BY ONLY <1>1, <2>1, <2>2, RemoveNode
<1>7. q[p] \in Cells
  BY <1>1, <1>2
<1> HIDE DEF q, ix, p, r, jx
<1> QED BY <1>2, <1>3, <1>4, <1>5, <1>6, <1>7 DEF q, ix, p, r, jx

\* Erase of a cached key.
LEMMA EraseHitKeeps ==
    ASSUME CacheIInv, NEW k \in Keys, EraseHit(k), UNCHANGED <<held, pruned>>
    PROVE  CacheIInv' /\ Len(heap') = Len(heap) /\ Later(heap, heap')
<1> DEFINE s == ShardOf(k)
           q == nodes[s]
           ix == index[s]
           w == wait_erase[s]
           p == Position(s, k)
           r == RemoveAt(q, p)
           jx == Restrict(ix, DOMAIN ix \ {k})
           n == NodeAt(s, k)
           st == FinishErase(Stored(heap, w), n)
<1>1. s \in Shards /\ k \in DOMAIN ix
  BY ShardOfKey DEF EraseHit
<1>2. HeapOK(heap) /\ WaitOK(w, heap) /\ Store(s) = Stored(heap, w)
  <2> HIDE DEF s
  <2> QED BY <1>1, ShardFacts
<1>3. n \in 1 .. Len(heap) /\ ShardOK(s, r, jx, heap)
  <2> HIDE DEF s
  <2>1. CacheIInv /\ s \in Shards /\ k \in DOMAIN index[s]
    BY <1>1
  <2> QED BY ONLY <2>1, CachedKey
<1>4. /\ Later(heap, st.heap) /\ Len(st.heap) = Len(heap)
      /\ st.freed = {} /\ WaitOK(st.wait, st.heap)
  <2> HIDE DEF n, w
  <2> QED BY <1>2, <1>3, FinishEraseKeeps
<1>5. /\ nodes' = [nodes EXCEPT ![s] = r] /\ index' = [index EXCEPT ![s] = jx]
      /\ SetStore(s, st) /\ last' = k
  BY <1>2 DEF EraseHit
<1> HIDE DEF s, q, ix, w, p, r, jx, n, st
<1>6. heap' = st.heap /\ wait_erase' = [wait_erase EXCEPT ![s] = st.wait] /\ freed' = {}
  BY <1>4, <1>5 DEF SetStore
<1>7. ShardOK(s, r, jx, heap')
  <2>1. Len(heap) \in Nat /\ Len(heap') \in Nat
    BY <1>2, <1>4, <1>6 DEF HeapOK
  <2> QED BY <1>3, <1>4, <1>6, <2>1, LaterHeap DEF Later
<1>8. held' \in [Clients -> {Null} \cup 1 .. Len(heap')]
  BY <1>4, <1>6, HeldLater
<1>9. pruned' \in [Clients -> Shards] /\ last' \in Keys
  BY <1>5 DEF CacheIInv
<1>10. Later(heap, heap') /\ WaitOK(st.wait, heap') /\ Len(heap') = Len(heap)
  BY <1>4, <1>6
<1>11. CacheIInv'
  BY <1>1, <1>5, <1>6, <1>7, <1>8, <1>9, <1>10, ShardStep
<1> QED BY <1>10, <1>11

\* Insert of a cached key: the node at the front is the old one.
LEMMA InsertHitKeeps ==
    ASSUME CacheIInv, NEW k \in Keys, Len(heap) < MaxNodes, InsertHit(k),
           last' = k, UNCHANGED <<held, pruned>>
    PROVE  CacheIInv' /\ Len(heap') = Len(heap) + 1 /\ Later(heap, heap')
<1> DEFINE s == ShardOf(k)
           q == nodes[s]
           ix == index[s]
           w == wait_erase[s]
           p == Position(s, k)
           r == RemoveAt(q, p)
           jx == Restrict(ix, DOMAIN ix \ {k})
           n == NodeAt(s, k)
           e == q[p].elem
           built == Append(heap, NewNode(k))
           st == FinishErase(Stored(built, w), n)
<1>1. s \in Shards /\ k \in DOMAIN ix
  BY ShardOfKey DEF InsertHit
<1>2. /\ HeapOK(heap) /\ WaitOK(w, heap) /\ Store(s) = Stored(heap, w) /\ Len(heap) \in Nat
      /\ ix \in Maps(Elems) /\ Len(q) \in Nat
  <2> HIDE DEF s
  <2> QED BY <1>1, ShardFacts
<1>3. /\ p \in 1 .. Len(q) /\ q[p] \in Cells /\ n = q[p].node
      /\ n \in 1 .. Len(heap) /\ heap[n].key = k /\ ShardOf(k) = s /\ ix[k] = e
      /\ ShardOK(s, r, jx, heap) /\ Len(r) = Len(q) - 1 /\ Len(q) <= Capacity
      /\ k \notin DOMAIN jx /\ ElemsOf(r) \subseteq ElemsOf(q) \ {e}
  <2> HIDE DEF s
  <2>1. CacheIInv /\ s \in Shards /\ k \in DOMAIN index[s]
    BY <1>1
  <2>2. /\ p \in 1 .. Len(q) /\ q[p] \in Cells /\ NodeAt(s, k) = q[p].node
        /\ NodeAt(s, k) \in 1 .. Len(heap) /\ heap[NodeAt(s, k)].key = k
        /\ k \in Keys /\ ShardOf(k) = s /\ ix[k] = q[p].elem
        /\ ShardOK(s, r, jx, heap) /\ Len(r) = Len(q) - 1 /\ Len(q) <= Capacity
        /\ k \notin DOMAIN jx /\ ElemsOf(r) \subseteq ElemsOf(q) \ {q[p].elem}
    BY ONLY <2>1, CachedKey
  <2> HIDE DEF q, p, ix, r, jx
  <2> QED BY <2>2
<1>4. Later(heap, built) /\ Len(built) = Len(heap) + 1
  <2> DEFINE x == NewNode(k)
  <2>1. x = [key |-> k, value |-> Len(heap) + 1, refs |-> 1, in_cache |-> TRUE]
    BY DEF NewNode
  <2>2. HeapOK(heap) /\ Len(heap) < MaxNodes /\ k \in Keys
    BY <1>2
  <2> HIDE DEF x
  <2>3. Later(heap, Append(heap, x)) /\ Len(Append(heap, x)) = Len(heap) + 1
    BY ONLY <2>1, <2>2, NewNodeKeeps
  <2> QED BY <2>3 DEF x
<1>5. [Store(s) EXCEPT !.heap = Append(@, NewNode(k))] = Stored(built, w)
  <2>1. Stored(heap, w).heap = heap
    BY DEF Stored
  <2> HIDE DEF s, w
  <2>2. [Stored(heap, w) EXCEPT !.heap = Append(@, NewNode(k))]
          = [Stored(heap, w) EXCEPT !.heap = built]
    BY <2>1
  <2> HIDE DEF built
  <2> QED BY <1>2, <2>2, StoredHeap
<1>6. /\ Later(built, st.heap) /\ Len(st.heap) = Len(built)
      /\ st.freed = {} /\ WaitOK(st.wait, st.heap)
  <2> HIDE DEF n, w, built
  <2>1. HeapOK(built) /\ n \in 1 .. Len(built) /\ \A y \in 1 .. Len(heap) : y \in 1 .. Len(built)
    BY <1>2, <1>3, <1>4 DEF Later
  <2>2. WaitOK(w, built)
    BY <1>2, <2>1 DEF WaitOK
  <2> QED BY <2>1, <2>2, FinishEraseKeeps
<1>7. SetStore(s, st)
  BY <1>5 DEF InsertHit
<1>8. nodes' = [nodes EXCEPT ![s] = <<q[p]>> \o r] /\ UNCHANGED index
  BY DEF InsertHit, SpliceToFront
<1> HIDE DEF s, q, ix, w, p, n, built, e, r, jx, st
<1>9. <<q[p]>> \o r = PushFront(r, e, n)
  <2>1. q[p] = [elem |-> e, node |-> n]
    BY <1>3 DEF Cells, e
  <2> QED BY <2>1 DEF PushFront
<1>10. With(jx, k, e) = ix /\ e \in Elems
  <2>1. e \in Elems
    BY <1>3 DEF Cells, e
  <2>2. With(jx, k, e) = [ix EXCEPT ![k] = e]
    <3>1. ix \in Maps(Elems) /\ k \in DOMAIN ix /\ jx = Restrict(ix, DOMAIN ix \ {k})
      BY <1>1, <1>2 DEF jx
    <3> QED BY ONLY <2>1, <3>1, IndexSet
  <2>3. [ix EXCEPT ![k] = e] = ix
    <3>1. PICK D \in SUBSET Keys : ix \in [D -> Elems]
      BY <1>2 DEF Maps
    <3> QED BY <1>3, <3>1
  <2> QED BY <2>1, <2>2, <2>3
<1>11. heap' = st.heap /\ wait_erase' = [wait_erase EXCEPT ![s] = st.wait] /\ freed' = {}
  BY <1>6, <1>7 DEF SetStore
<1>12. Later(heap, heap') /\ Len(heap') = Len(heap) + 1 /\ n \in 1 .. Len(heap') /\ heap'[n].key = k
  <2>1. Later(heap, st.heap)
    BY <1>2, <1>4, <1>6, LaterTransitive
  <2>2. n \in 1 .. Len(st.heap)
    BY <1>2, <1>3, <1>4, <1>6
  <2> QED BY <1>3, <1>4, <1>6, <1>11, <2>1, <2>2 DEF Later
<1>13. ShardOK(s, r, jx, heap') /\ Len(heap') \in Nat
  <2>1. Len(heap') \in Nat
    BY <1>2, <1>12
  <2> QED BY <1>2, <1>3, <1>12, <2>1, LaterHeap DEF Later
<1>14. ShardOK(s, PushFront(r, e, n), ix, heap')
  <2>1. Len(r) < Capacity /\ e \notin ElemsOf(r) /\ k = heap'[n].key
    BY <1>2, <1>3, <1>12
  <2>2. ShardOK(s, PushFront(r, e, n), With(jx, k, e), heap')
    BY <1>3, <1>10, <1>12, <1>13, <2>1, PushNode
  <2> QED BY <1>10, <2>2
<1>15. index' = [index EXCEPT ![s] = ix]
  BY <1>1, <1>8 DEF ix, CacheIInv
<1>16. held' \in [Clients -> {Null} \cup 1 .. Len(heap')]
  BY <1>12, HeldLater
<1>17. pruned' \in [Clients -> Shards] /\ last' \in Keys
  BY DEF CacheIInv
<1>18. nodes' = [nodes EXCEPT ![s] = PushFront(r, e, n)] /\ WaitOK(st.wait, heap')
  BY <1>6, <1>8, <1>9, <1>11
<1> QED BY <1>1, <1>11, <1>12, <1>14, <1>15, <1>16, <1>17, <1>18, ShardStep

\* Get of a cached key: its node goes to the front, in a new element.
LEMMA GetHitKeeps ==
    ASSUME CacheIInv, NEW c \in Clients, NEW k \in Keys, GetHit(c, k), UNCHANGED pruned
    PROVE  /\ CacheIInv' /\ Len(heap') = Len(heap) /\ held'[c] \in 1 .. Len(heap)
           /\ Later(heap, heap')
<1> DEFINE s == ShardOf(k)
           q == nodes[s]
           ix == index[s]
           w == wait_erase[s]
           p == Position(s, k)
           r == RemoveAt(q, p)
           jx == Restrict(ix, DOMAIN ix \ {k})
           n == NodeAt(s, k)
           e == FreshElem(q)
           x == [heap[n] EXCEPT !.refs = (@ + 1) % RefModulus]
           hq == [heap EXCEPT ![n] = x]
<1>1. s \in Shards /\ k \in DOMAIN ix
  BY ShardOfKey DEF GetHit
<1>2. /\ HeapOK(heap) /\ WaitOK(w, heap) /\ Store(s) = Stored(heap, w) /\ Len(heap) \in Nat
      /\ ix \in Maps(Elems) /\ Len(q) \in Nat /\ q \in Seq(Cells)
  <2> HIDE DEF s
  <2> QED BY <1>1, ShardFacts
<1>3. /\ p \in 1 .. Len(q) /\ q[p] \in Cells /\ NodeAt(s, k) = q[p].node
      /\ NodeAt(s, k) \in 1 .. Len(heap) /\ heap[NodeAt(s, k)].key = k
      /\ k \in Keys /\ ShardOf(k) = s /\ ix[k] = q[p].elem
      /\ ShardOK(s, r, jx, heap) /\ Len(r) = Len(q) - 1 /\ Len(q) <= Capacity
      /\ k \notin DOMAIN jx /\ ElemsOf(r) \subseteq ElemsOf(q) \ {q[p].elem}
  <2> HIDE DEF s
  <2>1. CacheIInv /\ s \in Shards /\ k \in DOMAIN index[s]
    BY <1>1
  <2> QED BY ONLY <2>1, CachedKey
<1>4. e \in Elems /\ e \notin ElemsOf(r)
  <2> HIDE DEF s, q, r, p
  <2>1. e \in Elems \ ElemsOf(q)
    BY <1>2, <1>3, FreshElemExists
  <2> HIDE DEF e
  <2> QED BY <1>3, <2>1
<1>5. /\ nodes' = [nodes EXCEPT ![s] = PushFront(r, e, n)]
      /\ index' = Reindex(s, k, e) /\ SetStore(s, Ref(Stored(heap, w), n))
      /\ held' = [held EXCEPT ![c] = n] /\ last' = k
  <2> HIDE DEF s
  <2> QED BY <1>2, <1>3 DEF GetHit, s
<1> HIDE DEF s, q, ix, w, p, r, jx, n, e
<1>6. /\ n \in 1 .. Len(heap) /\ heap[n].key = k /\ s = ShardOf(k)
      /\ ShardOK(s, r, jx, heap) /\ Len(r) = Len(q) - 1 /\ Len(q) <= Capacity /\ k \notin DOMAIN jx
  BY <1>3 DEF n
<1>7. Later(heap, hq) /\ Len(hq) = Len(heap)
  <2>1. heap[n] \in Records
    BY <1>2, <1>6 DEF HeapOK
  <2>2. (heap[n].refs + 1) % RefModulus \in 0 .. RefModulus - 1
    BY <2>1 DEF Records
  <2>3. x \in Records /\ x.key = heap[n].key /\ x.value = heap[n].value
    BY <2>1, <2>2 DEF Records
  <2> HIDE DEF x
  <2> QED BY <1>2, <1>6, <2>3, NewRecordKeeps
<1>8. Ref(Stored(heap, w), n) = Stored(hq, w)
  <2> DEFINE z == Stored(heap, w)
  <2>1. z.heap = heap
    BY DEF Stored
  <2> HIDE DEF z
  <2>2. Ref(z, n) = [z EXCEPT !.heap = [z.heap EXCEPT ![n].refs = (z.heap[n].refs + 1) % RefModulus]]
    BY DEF Ref
  <2>3. Ref(z, n) = [z EXCEPT !.heap = hq]
    <3>1. hq = [heap EXCEPT ![n].refs = (heap[n].refs + 1) % RefModulus]
      OBVIOUS
    <3> HIDE DEF hq
    <3> QED BY <2>1, <2>2, <3>1
  <2> HIDE DEF hq
  <2>4. [Stored(heap, w) EXCEPT !.heap = hq] = Stored(hq, w)
    BY StoredHeap
  <2> QED BY <2>3, <2>4 DEF z
<1> HIDE DEF hq
<1>9. heap' = hq /\ wait_erase' = [wait_erase EXCEPT ![s] = w] /\ freed' = {}
  <2>1. SetStore(s, Stored(hq, w))
    BY <1>5, <1>8
  <2>2. Stored(hq, w).heap = hq /\ Stored(hq, w).wait = w /\ Stored(hq, w).freed = {}
    BY DEF Stored
  <2> QED BY <2>1, <2>2 DEF SetStore
<1>10. index' = [index EXCEPT ![s] = With(jx, k, e)]
  <2>1. With(jx, k, e) = [ix EXCEPT ![k] = e]
    <3>1. ix \in Maps(Elems) /\ k \in DOMAIN ix /\ jx = Restrict(ix, DOMAIN ix \ {k}) /\ e \in Elems
      BY <1>1, <1>2, <1>4 DEF jx
    <3> QED BY ONLY <3>1, IndexSet
  <2>2. index' = [index EXCEPT ![s] = [ix EXCEPT ![k] = e]]
    BY <1>1, <1>5 DEF Reindex, ix, CacheIInv
  <2> QED BY <2>1, <2>2
<1>11. ShardOK(s, r, jx, heap') /\ Len(heap') \in Nat /\ heap'[n].key = k /\ n \in 1 .. Len(heap')
  <2>1. Len(heap') = Len(heap) /\ \A y \in 1 .. Len(heap) : heap'[y].key = heap[y].key
    BY <1>7, <1>9 DEF Later
  <2> QED BY <1>2, <1>6, <2>1, LaterHeap
<1>12. ShardOK(s, PushFront(r, e, n), With(jx, k, e), heap')
  <2>1. Len(r) < Capacity
    BY <1>2, <1>6
  <2> QED BY <1>4, <1>6, <1>11, <2>1, PushNode
<1>13. held' \in [Clients -> {Null} \cup 1 .. Len(heap')] /\ held'[c] = n
  <2>1. held \in [Clients -> {Null} \cup 1 .. Len(heap')]
    BY <1>7, <1>9 DEF CacheIInv
  <2> QED BY <1>5, <1>11, <2>1
<1>14. pruned' \in [Clients -> Shards] /\ last' \in Keys
  BY <1>5 DEF CacheIInv
<1>15. WaitOK(w, heap') /\ Later(heap, heap') /\ Len(heap') = Len(heap)
  BY <1>2, <1>7, <1>9 DEF WaitOK
<1>16. CacheIInv'
  BY <1>1, <1>5, <1>9, <1>10, <1>12, <1>13, <1>14, <1>15, ShardStep
<1> QED BY <1>6, <1>13, <1>15, <1>16

\* Release returns the node and, with Unref as it is, nothing else.
LEMMA ReleaseKeeps ==
    ASSUME CacheIInv, NEW c \in Clients, Release(c)
    PROVE  CacheIInv' /\ UNCHANGED heap
<1> DEFINE n == held[c]
           s == ShardOf(heap[n].key)
<1>1. n \in 1 .. Len(heap) /\ n # Null
  BY DEF CacheIInv, Release, Null
<1>2. heap[n].key \in Keys
  <2> DEFINE m == held[c]
  <2>1. heap \in Seq(Records) /\ m \in 1 .. Len(heap)
    BY <1>1 DEF CacheIInv, HeapOK
  <2> HIDE DEF m
  <2>2. heap[m] \in Records
    BY <2>1
  <2> QED BY <2>2 DEF Records, m
<1>3. s \in Shards
  BY <1>2, ShardOfKey
<1>4. Unref(Store(s), n) = Store(s)
  BY <1>1 DEF Unref
<1>5. SetStore(s, Store(s))
  BY <1>4 DEF Release
<1> HIDE DEF s
<1>6. heap' = heap /\ freed' = freed /\ wait_erase' = wait_erase
  BY <1>3, <1>5 DEF SetStore, Store, CacheIInv
<1>7. held' \in [Clients -> {Null} \cup 1 .. Len(heap)] /\ UNCHANGED <<nodes, index, pruned, last>>
  BY DEF Release, CacheIInv
<1> QED BY <1>6, <1>7 DEF CacheIInv

\* Prune takes no node from wait_erase_ either.
LEMMA PruneKeeps ==
    ASSUME CacheIInv, NEW c \in Clients, Prune(c)
    PROVE  CacheIInv' /\ UNCHANGED heap
<1> DEFINE s == pruned[c]
           w == wait_erase[s]
<1>1. s \in Shards
  BY DEF CacheIInv
<1>2. WaitOK(w, heap) /\ Store(s) = Stored(heap, w) /\ HeapOK(heap)
  <2> HIDE DEF s
  <2> QED BY <1>1, ShardFacts
<1>3. \A n \in Range(w) : n # Null
  BY <1>2 DEF WaitOK, Range, Null
<1>4. \A n \in Range(w) : Unref(Store(s), n) = Stored(heap, w)
  BY <1>2, <1>3 DEF Unref
<1>5. Stored(heap, w).heap = heap /\ Stored(heap, w).wait = w /\ Stored(heap, w).freed = {}
  BY DEF Stored
<1>6. heap' = heap
  <2>1. heap' = [n \in DOMAIN heap |-> IF n \in Range(w) THEN Unref(Store(s), n).heap[n] ELSE heap[n]]
    BY DEF Prune, PruneShard
  <2>2. \A n \in DOMAIN heap :
            (IF n \in Range(w) THEN Unref(Store(s), n).heap[n] ELSE heap[n]) = heap[n]
    BY <1>4, <1>5
  <2>3. heap = [n \in DOMAIN heap |-> heap[n]]
    BY <1>2 DEF HeapOK
  <2> QED BY <2>1, <2>2, <2>3
<1>7. \A k \in DOMAIN w : w[k] \in Range(w)
  BY DEF Range
<1>8. wait_erase' = wait_erase
  <2> DEFINE stay == {k \in DOMAIN w : k \in DOMAIN Unref(Store(s), w[k]).wait}
  <2>1. wait_erase' = [wait_erase EXCEPT ![s] = Restrict(w, stay)]
    BY DEF Prune, PruneShard
  <2>2. \A k \in DOMAIN w : Unref(Store(s), w[k]).wait = w
    BY <1>4, <1>5, <1>7
  <2>3. stay = DOMAIN w
    BY <2>2
  <2> HIDE DEF stay
  <2>4. Restrict(w, stay) = w
    <3>1. PICK D \in SUBSET Keys : w \in [D -> Nat]
      BY <1>2 DEF WaitOK, Maps
    <3> QED BY <2>3, <3>1 DEF Restrict
  <2> QED BY <1>1, <2>1, <2>4 DEF CacheIInv
<1>9. freed' = {}
  <2>1. freed' = freed \cup UNION {Unref(Store(s), n).freed : n \in Range(w)}
    BY DEF Prune, PruneShard
  <2>2. \A n \in Range(w) : Unref(Store(s), n).freed = {}
    BY <1>4, <1>5
  <2> QED BY <2>1, <2>2 DEF CacheIInv
<1>10. pruned' \in [Clients -> Shards]
  <2>1. (s + 1) % NumShards \in Shards
    BY <1>1 DEF Shards
  <2> QED BY <2>1 DEF Prune, CacheIInv
<1>11. UNCHANGED <<nodes, index, held, last>>
  BY DEF Prune
<1> QED BY <1>6, <1>8, <1>9, <1>10, <1>11 DEF CacheIInv

-----------------------------------------------------------------------------
(* The operations of a client                                              *)

\* Insert builds one node, whether the key is cached or not.
LEMMA InsertKeeps ==
    ASSUME CacheIInv, NEW c \in Clients, NEW k \in Keys, Insert(c, k)
    PROVE  CacheIInv' /\ Len(heap') = Len(heap) + 1 /\ UNCHANGED held
<1>1. Len(heap) < MaxNodes /\ last' = k /\ UNCHANGED <<held, pruned>>
  BY DEF Insert
<1>2. CASE InsertMiss(k)
  BY <1>1, <1>2, InsertMissKeeps
<1>3. CASE InsertHit(k)
  BY <1>1, <1>3, InsertHitKeeps
<1> QED BY <1>1, <1>2, <1>3 DEF Insert

\* Get returns a node of the heap, or none.
LEMMA GetKeeps ==
    ASSUME CacheIInv, NEW c \in Clients, NEW k \in Keys, Get(c, k)
    PROVE  /\ CacheIInv' /\ Len(heap') = Len(heap)
           /\ \A d \in Clients \ {c} : held'[d] = held[d]
           /\ held'[c] = Null \/ held'[c] \in 1 .. Len(heap)
<1>1. CASE GetHit(c, k)
  <2>1. CacheIInv' /\ Len(heap') = Len(heap) /\ held'[c] \in 1 .. Len(heap)
    BY <1>1, GetHitKeeps DEF Get
  <2>2. \A d \in Clients \ {c} : held'[d] = held[d]
    BY <1>1 DEF GetHit, CacheIInv
  <2> QED BY <2>1, <2>2
<1>2. CASE GetMiss(c, k)
  <2>1. UNCHANGED <<nodes, index, wait_erase, heap, freed, held, pruned>> /\ last' = k
    BY <1>2 DEF Get, GetMiss
  <2>2. held'[c] = Null
    BY <2>1 DEF Get
  <2>3. CacheIInv'
    BY <2>1 DEF CacheIInv
  <2> QED BY <2>1, <2>2, <2>3
<1> QED BY <1>1, <1>2 DEF Get

\* Erase builds no node, and clients keep theirs.
LEMMA EraseKeeps ==
    ASSUME CacheIInv, NEW c \in Clients, NEW k \in Keys, Erase(c, k)
    PROVE  CacheIInv' /\ Len(heap') = Len(heap) /\ UNCHANGED held
<1>1. UNCHANGED <<held, pruned>>
  BY DEF Erase
<1>2. CASE EraseHit(k)
  BY <1>1, <1>2, EraseHitKeeps
<1>3. CASE EraseMiss(k)
  <2>1. UNCHANGED <<nodes, index, wait_erase, heap, freed, held, pruned>> /\ last' = k
    BY <1>1, <1>3 DEF EraseMiss
  <2>2. CacheIInv'
    BY <2>1 DEF CacheIInv
  <2> QED BY <2>1, <2>2
<1> QED BY <1>2, <1>3 DEF Erase

\* Any step of a client that is no reader.
LEMMA ClientStepKeeps ==
    ASSUME CacheIInv, NEW c \in Clients, ClientStep(c)
    PROVE  CacheIInv' /\ Len(heap) <= Len(heap')
<1>1. Len(heap) \in Nat
  BY DEF CacheIInv, HeapOK
<1>2. ASSUME NEW k \in Keys, Insert(c, k) \/ Get(c, k) \/ Erase(c, k)
      PROVE  CacheIInv' /\ Len(heap) <= Len(heap')
  BY <1>1, <1>2, InsertKeeps, GetKeeps, EraseKeeps
<1>3. CASE Release(c)
  BY <1>1, <1>3, ReleaseKeeps
<1>4. CASE Prune(c)
  BY <1>1, <1>4, PruneKeeps
<1> QED BY <1>2, <1>3, <1>4 DEF ClientStep

-----------------------------------------------------------------------------
(* The readers                                                             *)

Cleanups == {"none", "DeleteBlock", "ReleaseBlock"}

\* A client reads a block or has an iterator, but not both, and only the
\* iterator of a miss owns its block.
ReaderIInv ==
    /\ readers \in SUBSET Clients
    /\ reading \in [Clients -> {Null} \cup Keys]
    /\ iter \in [Clients -> [block : Nat, cleanup : Cleanups]]
    /\ \A c \in Clients \ readers : reading[c] = Null /\ iter[c] = NoIterator
    /\ \A c \in Clients : reading[c] # Null => held[c] = Null /\ iter[c] = NoIterator
    /\ \A c \in Clients : Owned(c) \subseteq 1 .. Len(heap) /\ Owned(c) \cap deleted = {}
    /\ \A c, d \in Clients : c # d => Owned(c) \cap Owned(d) = {}
    /\ deleted \subseteq 1 .. Len(heap)
    /\ readers # {} => 1 .. Len(heap) = deleted \cup UNION {Owned(c) : c \in Clients}

IInv == CacheIInv /\ ReaderIInv

\* Without an iterator, no block.
LEMMA NoIteratorOwns == \A c \in Clients : iter[c] = NoIterator => Owned(c) = {}
BY DEF Owned, NoIterator

\* A hit gives the reader an iterator that owns nothing, a miss a key to read.
LEMMA LookUpKeeps ==
    ASSUME IInv, NEW c \in readers, NEW k \in Keys, LookUp(c, k)
    PROVE  IInv'
<1>1. c \in Clients /\ Get(c, k) /\ reading[c] = Null /\ iter[c] = NoIterator
      /\ UNCHANGED <<readers, deleted>>
  BY DEF LookUp, IInv, ReaderIInv
<1>2. /\ CacheIInv' /\ Len(heap') = Len(heap)
      /\ \A d \in Clients \ {c} : held'[d] = held[d]
      /\ held'[c] = Null \/ held'[c] \in 1 .. Len(heap)
  BY <1>1, GetKeeps DEF IInv
<1>3. Owned(c) = {}
  BY <1>1, NoIteratorOwns
<1>4. CASE held'[c] # Null
  <2> DEFINE v == heap[held'[c]].value
  <2>1. /\ iter' = [iter EXCEPT ![c] = [block |-> v, cleanup |-> "ReleaseBlock"]]
        /\ UNCHANGED reading
    BY <1>4 DEF LookUp, NewIterator, Cleanup
  <2>2. v \in Nat
    <3>1. held'[c] \in 1 .. Len(heap)
      BY <1>2, <1>4
    <3> QED BY <3>1 DEF IInv, CacheIInv, HeapOK
  <2> HIDE DEF v
  <2>3. iter' \in [Clients -> [block : Nat, cleanup : Cleanups]]
    <3>1. [block |-> v, cleanup |-> "ReleaseBlock"] \in [block : Nat, cleanup : Cleanups]
      BY <2>2 DEF Cleanups
    <3> QED BY <2>1, <3>1 DEF IInv, ReaderIInv
  <2>4. \A d \in Clients : Owned(d)' = Owned(d)
    <3>1. iter'[c] = [block |-> v, cleanup |-> "ReleaseBlock"] /\ \A d \in Clients \ {c} : iter'[d] = iter[d]
      BY <1>1, <2>1 DEF IInv, ReaderIInv
    <3> QED BY <1>3, <3>1 DEF Owned
  <2>5. \A d \in Clients : reading'[d] # Null => held'[d] = Null /\ iter'[d] = NoIterator
    BY <1>1, <1>2, <2>1 DEF IInv, ReaderIInv
  <2>6. \A d \in Clients \ readers : reading'[d] = Null /\ iter'[d] = NoIterator
    BY <1>1, <2>1 DEF IInv, ReaderIInv
  <2>7. UNION {Owned(d)' : d \in Clients} = UNION {Owned(d) : d \in Clients}
    BY <2>4
  <2>8. ReaderIInv'
    BY <1>1, <1>2, <2>1, <2>3, <2>4, <2>5, <2>6, <2>7 DEF IInv, ReaderIInv
  <2> QED BY <1>2, <2>8 DEF IInv
<1>5. CASE held'[c] = Null
  <2>1. reading' = [reading EXCEPT ![c] = k] /\ UNCHANGED iter
    BY <1>5 DEF LookUp
  <2>2. \A d \in Clients : reading'[d] # Null => held'[d] = Null /\ iter'[d] = NoIterator
    BY <1>1, <1>2, <1>5, <2>1 DEF IInv, ReaderIInv
  <2>3. \A d \in Clients \ readers : reading'[d] = Null /\ iter'[d] = NoIterator
    BY <1>1, <2>1 DEF IInv, ReaderIInv
  <2>4. reading' \in [Clients -> {Null} \cup Keys]
    BY <2>1 DEF IInv, ReaderIInv
  <2>5. \A d \in Clients : Owned(d)' = Owned(d)
    BY <2>1 DEF Owned
  <2>6. UNION {Owned(d)' : d \in Clients} = UNION {Owned(d) : d \in Clients}
    BY <2>5
  <2>7. ReaderIInv'
    BY <1>1, <1>2, <2>1, <2>2, <2>3, <2>4, <2>5, <2>6 DEF IInv, ReaderIInv
  <2> QED BY <1>2, <2>7 DEF IInv
<1> QED BY <1>4, <1>5

\* The block of a miss is new, and the reader's alone.
LEMMA InsertBlockKeeps ==
    ASSUME IInv, NEW c \in readers, InsertBlock(c)
    PROVE  IInv'
<1> DEFINE n == Len(heap) + 1
<1>1. /\ c \in Clients /\ reading[c] \in Keys /\ held[c] = Null /\ iter[c] = NoIterator
      /\ Insert(c, reading[c]) /\ UNCHANGED <<readers, deleted>>
      /\ reading' = [reading EXCEPT ![c] = Null]
  BY DEF InsertBlock, IInv, ReaderIInv
<1>2. CacheIInv' /\ Len(heap') = n /\ UNCHANGED held
  BY <1>1, InsertKeeps DEF IInv
<1>3. Len(heap) \in Nat
  BY DEF IInv, CacheIInv, HeapOK
<1>4. heap'[Len(heap')].value = n
  <2>1. HeapOK(heap') /\ n \in 1 .. Len(heap')
    BY <1>2, <1>3 DEF CacheIInv
  <2> QED BY <1>2, <2>1 DEF HeapOK
<1>5. iter' = [iter EXCEPT ![c] = [block |-> n, cleanup |-> "DeleteBlock"]]
  BY <1>1, <1>4 DEF InsertBlock, NewIterator, Cleanup
<1>6. n \in Nat /\ n \notin 1 .. Len(heap) /\ 1 .. n = 1 .. Len(heap) \cup {n}
  BY <1>3
<1> HIDE DEF n
<1>7. iter' \in [Clients -> [block : Nat, cleanup : Cleanups]]
  <2>1. [block |-> n, cleanup |-> "DeleteBlock"] \in [block : Nat, cleanup : Cleanups]
    BY <1>6 DEF Cleanups
  <2> QED BY <1>5, <2>1 DEF IInv, ReaderIInv
<1>8. /\ iter'[c] = [block |-> n, cleanup |-> "DeleteBlock"]
      /\ \A d \in Clients \ {c} : iter'[d] = iter[d]
  BY <1>1, <1>5 DEF IInv, ReaderIInv
<1>9. Owned(c)' = {n} /\ \A d \in Clients \ {c} : Owned(d)' = Owned(d)
  BY <1>8 DEF Owned
<1>10. \A d \in Clients : Owned(d)' \subseteq 1 .. Len(heap') /\ Owned(d)' \cap deleted' = {}
  <2>1. \A d \in Clients : Owned(d) \subseteq 1 .. Len(heap) /\ Owned(d) \cap deleted = {}
    BY DEF IInv, ReaderIInv
  <2>2. deleted' = deleted /\ n \notin deleted
    BY <1>1, <1>6 DEF IInv, ReaderIInv
  <2>3. 1 .. Len(heap') = 1 .. Len(heap) \cup {n}
    BY <1>2, <1>6
  <2>4. Owned(c)' \subseteq 1 .. Len(heap') /\ Owned(c)' \cap deleted' = {}
    BY <1>9, <2>2, <2>3
  <2>5. ASSUME NEW d \in Clients \ {c}
        PROVE  Owned(d)' \subseteq 1 .. Len(heap') /\ Owned(d)' \cap deleted' = {}
    BY <1>9, <2>1, <2>2, <2>3
  <2> QED BY <2>4, <2>5
<1>11. \A d, e \in Clients : d # e => Owned(d)' \cap Owned(e)' = {}
  <2>1. \A d \in Clients : n \notin Owned(d)
    BY <1>6 DEF IInv, ReaderIInv
  <2> QED BY <1>9, <2>1 DEF IInv, ReaderIInv
<1>12. UNION {Owned(d)' : d \in Clients} = (UNION {Owned(d) : d \in Clients}) \cup {n}
  <2>1. Owned(c) = {}
    BY <1>1, NoIteratorOwns
  <2> QED BY <1>1, <1>9, <2>1
<1>13. 1 .. Len(heap') = deleted' \cup UNION {Owned(d)' : d \in Clients}
  <2>1. 1 .. Len(heap) = deleted \cup UNION {Owned(d) : d \in Clients}
    BY DEF IInv, ReaderIInv
  <2> QED BY <1>1, <1>2, <1>6, <1>12, <2>1
<1>14. \A d \in Clients : reading'[d] # Null => held'[d] = Null /\ iter'[d] = NoIterator
  BY <1>1, <1>2, <1>8 DEF IInv, ReaderIInv
<1>15. \A d \in Clients \ readers : reading'[d] = Null /\ iter'[d] = NoIterator
  BY <1>1, <1>8 DEF IInv, ReaderIInv
<1>16. reading' \in [Clients -> {Null} \cup Keys] /\ deleted' \subseteq 1 .. Len(heap')
  BY <1>1, <1>2, <1>6 DEF IInv, ReaderIInv
<1>17. ReaderIInv'
  BY <1>1, <1>7, <1>10, <1>11, <1>13, <1>14, <1>15, <1>16 DEF IInv, ReaderIInv
<1> QED BY <1>2, <1>17 DEF IInv

\* After a failure there is nothing to delete.
LEMMA ReadFailsKeeps ==
    ASSUME IInv, NEW c \in readers, ReadFails(c)
    PROVE  IInv'
<1>1. UNCHANGED <<vars, readers, iter, deleted>> /\ reading' = [reading EXCEPT ![c] = Null]
      /\ c \in Clients
  BY DEF ReadFails, IInv, ReaderIInv
<1>2. CacheIInv' /\ UNCHANGED <<heap, held>>
  BY <1>1 DEF IInv, CacheIInv, vars
<1>3. \A d \in Clients : Owned(d)' = Owned(d)
  BY <1>1 DEF Owned
<1>4. UNION {Owned(d)' : d \in Clients} = UNION {Owned(d) : d \in Clients}
  BY <1>3
<1>5. \A d \in Clients : reading'[d] # Null => held'[d] = Null /\ iter'[d] = NoIterator
  BY <1>1, <1>2 DEF IInv, ReaderIInv
<1>6. \A d \in Clients \ readers : reading'[d] = Null /\ iter'[d] = NoIterator
  BY <1>1 DEF IInv, ReaderIInv
<1>7. reading' \in [Clients -> {Null} \cup Keys]
  BY <1>1 DEF IInv, ReaderIInv
<1>8. ReaderIInv'
  BY <1>1, <1>2, <1>3, <1>4, <1>5, <1>6, <1>7 DEF IInv, ReaderIInv
<1> QED BY <1>2, <1>8 DEF IInv

\* The block that an iterator owns is deleted with it.
LEMMA DeleteIteratorKeeps ==
    ASSUME IInv, NEW c \in readers, DeleteIterator(c)
    PROVE  IInv'
<1>1. /\ c \in Clients /\ iter[c] # NoIterator
      /\ iter' = [iter EXCEPT ![c] = NoIterator] /\ held' = [held EXCEPT ![c] = Null]
      /\ UNCHANGED <<nodes, index, wait_erase, heap, freed, pruned, last, readers, reading>>
  BY DEF DeleteIterator, IInv, ReaderIInv
<1>2. deleted' = deleted \cup Owned(c)
  BY DEF DeleteIterator, Owned
<1>3. CacheIInv'
  <2>1. held' \in [Clients -> {Null} \cup 1 .. Len(heap)]
    BY <1>1 DEF IInv, CacheIInv
  <2> QED BY <1>1, <2>1 DEF IInv, CacheIInv
<1>4. iter'[c] = NoIterator /\ \A d \in Clients \ {c} : iter'[d] = iter[d]
  BY <1>1 DEF IInv, ReaderIInv
<1>5. Owned(c)' = {} /\ \A d \in Clients \ {c} : Owned(d)' = Owned(d)
  BY <1>4 DEF Owned, NoIterator
<1>6. \A d \in Clients \ {c} : Owned(d) \cap Owned(c) = {}
  BY <1>1 DEF IInv, ReaderIInv
<1>7. \A d \in Clients : Owned(d)' \subseteq 1 .. Len(heap') /\ Owned(d)' \cap deleted' = {}
  BY <1>1, <1>2, <1>5, <1>6 DEF IInv, ReaderIInv
<1>8. \A d, e \in Clients : d # e => Owned(d)' \cap Owned(e)' = {}
  BY <1>5 DEF IInv, ReaderIInv
<1>9. deleted' \cup UNION {Owned(d)' : d \in Clients} = deleted \cup UNION {Owned(d) : d \in Clients}
  BY <1>1, <1>2, <1>5
<1>10. iter' \in [Clients -> [block : Nat, cleanup : Cleanups]]
  <2>1. NoIterator \in [block : Nat, cleanup : Cleanups]
    BY DEF NoIterator, Null, Cleanups
  <2> QED BY <1>1, <2>1 DEF IInv, ReaderIInv
<1>11. \A d \in Clients : reading'[d] # Null => held'[d] = Null /\ iter'[d] = NoIterator
  BY <1>1, <1>4 DEF IInv, ReaderIInv, CacheIInv
<1>12. \A d \in Clients \ readers : reading'[d] = Null /\ iter'[d] = NoIterator
  BY <1>1, <1>4 DEF IInv, ReaderIInv
<1>13. deleted' \subseteq 1 .. Len(heap')
  BY <1>1, <1>2 DEF IInv, ReaderIInv
<1>14. readers # {} => 1 .. Len(heap') = deleted' \cup UNION {Owned(d)' : d \in Clients}
  BY <1>1, <1>9 DEF IInv, ReaderIInv
<1>15. ReaderIInv'
  BY <1>1, <1>7, <1>8, <1>10, <1>11, <1>12, <1>13, <1>14 DEF IInv, ReaderIInv
<1> QED BY <1>3, <1>15 DEF IInv

\* Erase and Prune of the others build and delete no block.
LEMMA MaintenanceKeeps ==
    ASSUME IInv, NEW c \in Clients, MaintenanceStep(c), UNCHANGED reader_vars
    PROVE  IInv'
<1>1. CacheIInv' /\ Len(heap') = Len(heap) /\ UNCHANGED held
  <2>1. CacheIInv
    BY DEF IInv
  <2>2. ASSUME NEW k \in Keys, Erase(c, k)
        PROVE  CacheIInv' /\ Len(heap') = Len(heap) /\ UNCHANGED held
    BY <2>1, <2>2, EraseKeeps
  <2>3. ASSUME Prune(c) PROVE CacheIInv' /\ Len(heap') = Len(heap) /\ UNCHANGED held
    <3>1. CacheIInv' /\ UNCHANGED heap
      BY <2>1, <2>3, PruneKeeps
    <3> QED BY <2>3, <3>1 DEF Prune
  <2> QED BY <2>2, <2>3 DEF MaintenanceStep
<1>2. \A d \in Clients : Owned(d)' = Owned(d)
  BY DEF Owned, reader_vars
<1>3. UNION {Owned(d)' : d \in Clients} = UNION {Owned(d) : d \in Clients}
  BY <1>2
<1>4. ReaderIInv'
  BY <1>1, <1>2, <1>3 DEF IInv, ReaderIInv, reader_vars
<1> QED BY <1>1, <1>4 DEF IInv

\* Without readers there are no iterators.
LEMMA PlainStepKeeps ==
    ASSUME IInv, NEW c \in Clients, readers = {}, ClientStep(c), UNCHANGED reader_vars
    PROVE  IInv'
<1>1. CacheIInv' /\ Len(heap) <= Len(heap') /\ Len(heap) \in Nat /\ Len(heap') \in Nat
  BY ClientStepKeeps DEF IInv, CacheIInv, HeapOK
<1>2. \A d \in Clients : reading[d] = Null /\ iter[d] = NoIterator
  BY DEF IInv, ReaderIInv
<1>3. \A d \in Clients : Owned(d)' = {}
  BY <1>2 DEF Owned, NoIterator, reader_vars
<1>4. deleted' \subseteq 1 .. Len(heap')
  <2>1. deleted \subseteq 1 .. Len(heap)
    BY DEF IInv, ReaderIInv
  <2> QED BY <1>1, <2>1 DEF reader_vars
<1>5. ReaderIInv'
  BY <1>2, <1>3, <1>4 DEF IInv, ReaderIInv, reader_vars
<1> QED BY <1>1, <1>5 DEF IInv

-----------------------------------------------------------------------------
(* The theorems                                                            *)

\* An empty cache.
LEMMA CacheInit == Init => CacheIInv
<1> SUFFICES ASSUME Init PROVE CacheIInv
  OBVIOUS
<1>1. HeapOK(heap) /\ freed = {} /\ heap = <<>>
  BY DEF Init, HeapOK
<1>2. /\ <<>> \in Seq(Cells) /\ Len(<<>>) = 0
      /\ <<>> \in Maps(Elems) /\ <<>> \in Maps(Nat) /\ DOMAIN <<>> = {}
  <2>1. <<>> \in Seq(Elems) /\ <<>> \in Seq(Nat) /\ Len(<<>>) = 0 /\ <<>> \in Seq(Cells)
    OBVIOUS
  <2>2. <<>> \in [1 .. 0 -> Elems] /\ <<>> \in [1 .. 0 -> Nat] /\ DOMAIN <<>> = 1 .. 0
    BY <2>1, LenProperties
  <2>3. 1 .. 0 = {}
    OBVIOUS
  <2>4. [{} -> Elems] \subseteq Maps(Elems) /\ [{} -> Nat] \subseteq Maps(Nat)
    BY DEF Maps
  <2> QED BY <2>1, <2>2, <2>3, <2>4
<1>3. \A s \in Shards : nodes[s] = <<>> /\ index[s] = <<>> /\ wait_erase[s] = <<>>
  BY DEF Init
<1>4. ASSUME NEW s \in Shards
      PROVE  ShardOK(s, nodes[s], index[s], heap) /\ WaitOK(wait_erase[s], heap)
  <2> DEFINE z == <<>>
  <2>1. nodes[s] = z /\ index[s] = z /\ wait_erase[s] = z
    BY <1>3
  <2>2. /\ z \in Seq(Cells) /\ Len(z) = 0
        /\ z \in Maps(Elems) /\ z \in Maps(Nat) /\ DOMAIN z = {}
    BY <1>2
  <2> HIDE DEF z
  <2>3. 1 .. Len(z) = {} /\ 0 <= Capacity
    BY <2>2
  <2> QED BY <2>1, <2>2, <2>3 DEF ShardOK, WaitOK
<1>5. 0 \in Shards
  BY DEF Shards
<1> QED BY <1>1, <1>2, <1>4, <1>5 DEF Init, CacheIInv

\* Every step of any clients keeps the invariant of the cache.
LEMMA CacheStep == CacheIInv /\ [Next]_vars => CacheIInv'
<1> SUFFICES ASSUME CacheIInv, [Next]_vars PROVE CacheIInv'
  OBVIOUS
<1>1. CASE Next
  BY <1>1, ClientStepKeeps DEF Next
<1>2. CASE UNCHANGED vars
  BY <1>2 DEF vars, CacheIInv
<1> QED BY <1>1, <1>2

\* The sizes that IndexMatchesList compares are those of the list.
LEMMA ShardSizes ==
    ASSUME NEW s, NEW q, NEW ix, NEW hp, ShardOK(s, q, ix, hp)
    PROVE  Cardinality(DOMAIN ix) = Len(q) /\ Cardinality(ElemsOf(q)) = Len(q)
<1> DEFINE f == [i \in 1 .. Len(q) |-> KeyOf(q, i, hp)]
           g == [i \in 1 .. Len(q) |-> q[i].elem]
           l == Len(q)
<1>1. l \in Nat
  BY DEF ShardOK
<1>2. f \in Bijection(1 .. l, DOMAIN ix)
  <2>1. f \in [1 .. l -> DOMAIN ix]
    BY DEF ShardOK
  <2>2. \A i, j \in 1 .. l : f[i] = f[j] => i = j
    BY KeysDiffer
  <2>3. \A k \in DOMAIN ix : \E i \in 1 .. l : f[i] = k
    BY DEF ShardOK
  <2> HIDE DEF f, l
  <2> QED BY <2>1, <2>2, <2>3 DEF Bijection, Injection, Surjection, IsInjective
<1>3. g \in Bijection(1 .. l, ElemsOf(q))
  <2>1. g \in [1 .. l -> ElemsOf(q)] /\ \A e \in ElemsOf(q) : \E i \in 1 .. l : g[i] = e
    BY DEF ElemsOf
  <2>2. \A i, j \in 1 .. l : g[i] = g[j] => i = j
    BY DEF ShardOK
  <2> HIDE DEF g, l
  <2> QED BY <2>1, <2>2 DEF Bijection, Injection, Surjection, IsInjective
<1> HIDE DEF f, g, l
<1>4. ExistsBijection(1 .. l, DOMAIN ix) /\ ExistsBijection(1 .. l, ElemsOf(q))
  BY <1>2, <1>3 DEF ExistsBijection
<1>5. Cardinality(DOMAIN ix) = l /\ Cardinality(ElemsOf(q)) = l
  BY <1>1, <1>4, FS_CountingElements
<1> QED BY <1>5 DEF l

\* The invariant has the types, ...
LEMMA CacheIInvTypes == CacheIInv => TypeOK
<1> SUFFICES ASSUME CacheIInv PROVE TypeOK
  OBVIOUS
<1>1. \A n \in 1 .. Len(heap) :
          heap[n] \in [key : Keys, value : Nodes, refs : 0 .. RefModulus - 1, in_cache : BOOLEAN]
  <2>1. \A n \in 1 .. Len(heap) : heap[n] \in Records
    BY DEF CacheIInv, HeapOK
  <2> QED BY <2>1 DEF Records
<1>2. ASSUME NEW s \in Shards
      PROVE  /\ Len(nodes[s]) <= Capacity
             /\ \A i \in 1 .. Len(nodes[s]) : nodes[s][i] \in [elem : Elems, node : 1 .. Len(heap)]
             /\ DOMAIN index[s] \subseteq Keys /\ DOMAIN wait_erase[s] \subseteq Keys
  <2>1. /\ nodes[s] \in Seq(Cells) /\ index[s] \in Maps(Elems) /\ wait_erase[s] \in Maps(Nat)
        /\ ShardOK(s, nodes[s], index[s], heap)
    BY ShardFacts
  <2>2. \A i \in 1 .. Len(nodes[s]) : nodes[s][i] \in Cells /\ nodes[s][i].node \in 1 .. Len(heap)
    BY <2>1 DEF ShardOK
  <2>3. \A i \in 1 .. Len(nodes[s]) : nodes[s][i] \in [elem : Elems, node : 1 .. Len(heap)]
    BY <2>2 DEF Cells
  <2>4. DOMAIN index[s] \subseteq Keys /\ DOMAIN wait_erase[s] \subseteq Keys
    BY <2>1 DEF Maps
  <2> QED BY <2>1, <2>3, <2>4 DEF ShardOK
<1> QED BY <1>1, <1>2 DEF CacheIInv, TypeOK

\* ... agreement of index and list, ...
LEMMA CacheIInvIndex == CacheIInv => IndexMatchesList
<1> SUFFICES ASSUME CacheIInv, NEW s \in Shards
             PROVE  /\ Cardinality(DOMAIN index[s]) = Len(nodes[s])
                    /\ Cardinality(ElemsOf(nodes[s])) = Len(nodes[s])
                    /\ \A i \in 1 .. Len(nodes[s]) :
                           LET k == heap[nodes[s][i].node].key IN
                           ShardOf(k) = s /\ k \in DOMAIN index[s] /\ index[s][k] = nodes[s][i].elem
  BY DEF IndexMatchesList
<1>1. ShardOK(s, nodes[s], index[s], heap)
  BY ShardFacts
<1>2. Cardinality(DOMAIN index[s]) = Len(nodes[s]) /\ Cardinality(ElemsOf(nodes[s])) = Len(nodes[s])
  BY <1>1, ShardSizes
<1>3. \A i \in 1 .. Len(nodes[s]) :
          LET k == heap[nodes[s][i].node].key IN
          ShardOf(k) = s /\ k \in DOMAIN index[s] /\ index[s][k] = nodes[s][i].elem
  BY <1>1 DEF ShardOK, KeyOf
<1> QED BY <1>2, <1>3

\* ... and no deleted node.
LEMMA CacheIInvDangling == CacheIInv => NoDanglingNode
BY DEF CacheIInv, NoDanglingNode

\* Nobody has a block at first.
LEMMA ReaderInitInv == ReaderInit => IInv
<1> SUFFICES ASSUME ReaderInit PROVE IInv
  OBVIOUS
<1>1. CacheIInv /\ heap = <<>> /\ Len(heap) = 0
  BY CacheInit DEF ReaderInit, Init
<1>2. \A c \in Clients : reading[c] = Null /\ iter[c] = NoIterator
  BY DEF ReaderInit
<1>3. \A c \in Clients : Owned(c) = {}
  BY <1>2, NoIteratorOwns
<1>4. iter \in [Clients -> [block : Nat, cleanup : Cleanups]]
  <2>1. NoIterator \in [block : Nat, cleanup : Cleanups]
    BY DEF NoIterator, Null, Cleanups
  <2> QED BY <2>1 DEF ReaderInit
<1>5. 1 .. Len(heap) = {}
  BY <1>1
<1>6. 1 .. Len(heap) = deleted \cup UNION {Owned(c) : c \in Clients}
  BY <1>3, <1>5 DEF ReaderInit
<1>7. ReaderIInv
  BY <1>2, <1>3, <1>4, <1>5, <1>6 DEF ReaderInit, ReaderIInv
<1> QED BY <1>1, <1>7 DEF IInv

\* Every step of the readers and the others keeps the invariant.
LEMMA ReaderStepInv == IInv /\ [ReaderNext]_<<vars, reader_vars>> => IInv'
<1> SUFFICES ASSUME IInv, [ReaderNext]_<<vars, reader_vars>> PROVE IInv'
  OBVIOUS
<1>1. ASSUME NEW c \in readers, ReaderStep(c) PROVE IInv'
  BY <1>1, LookUpKeeps, InsertBlockKeeps, ReadFailsKeeps, DeleteIteratorKeeps DEF ReaderStep
<1>2. ASSUME NEW c \in Clients, MaintenanceStep(c), UNCHANGED reader_vars PROVE IInv'
  BY <1>2, MaintenanceKeeps
<1>3. ASSUME NEW c \in Clients, readers = {}, ClientStep(c), UNCHANGED reader_vars PROVE IInv'
  BY <1>3, PlainStepKeeps
<1>4. CASE UNCHANGED <<vars, reader_vars>>
  <2>1. CacheIInv' /\ UNCHANGED <<heap, held>>
    BY <1>4 DEF IInv, CacheIInv, vars
  <2>2. \A c \in Clients : Owned(c)' = Owned(c)
    BY <1>4 DEF Owned, reader_vars
  <2>3. UNION {Owned(c)' : c \in Clients} = UNION {Owned(c) : c \in Clients}
    BY <2>2
  <2>4. ReaderIInv'
    BY <1>4, <2>1, <2>2, <2>3 DEF IInv, ReaderIInv, reader_vars
  <2> QED BY <2>1, <2>4 DEF IInv
<1> QED BY <1>1, <1>2, <1>3, <1>4 DEF ReaderNext

\* Each block that was read has one owner, or was deleted.
LEMMA IInvOwners == IInv => NothingDeletedInUse
<1> SUFFICES ASSUME IInv PROVE NothingDeletedInUse
  OBVIOUS
<1>1. NoDanglingNode
  BY CacheIInvDangling DEF IInv
<1>2. DeletedByCache = {}
  BY DEF DeletedByCache, IInv, CacheIInv
<1>3. DOMAIN heap = 1 .. Len(heap)
  BY DEF IInv, CacheIInv, HeapOK
<1>4. BlockHasOneOwner
  BY <1>2, <1>3 DEF BlockHasOneOwner, IInv, ReaderIInv
<1> QED BY <1>1, <1>4 DEF NothingDeletedInUse

\* The cache and its readers keep the invariant.
THEOREM CacheInvariant == ReaderSpec => []IInv
<1> QED BY ReaderInitInv, ReaderStepInv, PTL DEF ReaderSpec

\* TypeOK: every list fits its shard, and clients hold nodes that exist.
THEOREM CacheTypeCorrect == ReaderSpec => []TypeOK
<1>1. IInv => TypeOK
  BY CacheIInvTypes DEF IInv
<1> QED BY <1>1, CacheInvariant, PTL

\* IndexMatchesList: no iterator of index_ is ever stale (lru.h:50-136).
THEOREM IndexTheorem == ReaderSpec => []IndexMatchesList
<1>1. IInv => IndexMatchesList
  BY CacheIInvIndex DEF IInv
<1> QED BY <1>1, CacheInvariant, PTL

\* NothingDeletedInUse: no node is deleted while somebody has it, and every
\* block that was read is deleted once, by the iterator of the miss
\* (table.cpp:88-137).
THEOREM OwnerTheorem == ReaderSpec => []NothingDeletedInUse
<1> QED BY IInvOwners, CacheInvariant, PTL

\* The same of any clients of ShardCache, readers or not (cache.h).
THEOREM CacheAloneTheorem == Spec => [](TypeOK /\ IndexMatchesList /\ NoDanglingNode)
<1>1. CacheIInv => TypeOK /\ IndexMatchesList /\ NoDanglingNode
  BY CacheIInvTypes, CacheIInvIndex, CacheIInvDangling
<1> QED BY <1>1, CacheInit, CacheStep, PTL DEF Spec

-----------------------------------------------------------------------------
(* The cache implements RecencyCache                                       *)

\* The keys of a list, in its order.
KeyList(q, hp) == [i \in 1 .. Len(q) |-> KeyOf(q, i, hp)]

Order == [s \in Shards |-> KeyList(nodes[s], heap)]

\* Every node has a key.
LEMMA KeyListType ==
    ASSUME NEW s, NEW q, NEW ix, NEW hp, ShardOK(s, q, ix, hp), HeapOK(hp)
    PROVE  KeyList(q, hp) \in Seq(Keys) /\ Len(KeyList(q, hp)) = Len(q)
<1>1. Len(q) \in Nat
  BY DEF ShardOK
<1>2. \A i \in 1 .. Len(q) : KeyOf(q, i, hp) \in Keys
  <2> SUFFICES ASSUME NEW i \in 1 .. Len(q) PROVE KeyOf(q, i, hp) \in Keys
    OBVIOUS
  <2> DEFINE n == q[i].node
  <2>1. hp \in Seq(Records) /\ n \in 1 .. Len(hp)
    BY DEF ShardOK, HeapOK
  <2> HIDE DEF n
  <2>2. hp[n] \in Records
    BY <2>1
  <2>3. hp[n].key \in Keys
    BY <2>2 DEF Records
  <2> QED BY <2>3 DEF KeyOf, n
<1> QED BY <1>1, <1>2 DEF KeyList

\* Nodes keep their keys.
LEMMA KeyListLater ==
    ASSUME NEW s, NEW q, NEW ix, NEW hp, NEW hq, ShardOK(s, q, ix, hp), Later(hp, hq)
    PROVE  KeyList(q, hq) = KeyList(q, hp)
<1>1. \A i \in 1 .. Len(q) : KeyOf(q, i, hq) = KeyOf(q, i, hp)
  BY DEF ShardOK, KeyOf, Later
<1> QED BY <1>1 DEF KeyList

\* A node leaves the list with its key, ...
LEMMA KeyListRemove ==
    ASSUME NEW s, NEW q, NEW ix, NEW hp, ShardOK(s, q, ix, hp), HeapOK(hp),
           NEW p \in 1 .. Len(q)
    PROVE  KeyList(RemoveAt(q, p), hp) = RemoveAt(KeyList(q, hp), p)
<1> DEFINE kq == KeyList(q, hp)
           a == KeyList(RemoveAt(q, p), hp)
           b == RemoveAt(kq, p)
           X == Cells
<1>1. kq \in Seq(Keys) /\ Len(kq) = Len(q) /\ Len(q) \in Nat /\ q \in Seq(X)
  <2>1. q \in Seq(X) /\ Len(q) \in Nat
    BY DEF ShardOK
  <2> HIDE DEF X
  <2>2. KeyList(q, hp) \in Seq(Keys) /\ Len(KeyList(q, hp)) = Len(q)
    BY KeyListType
  <2> QED BY <2>1, <2>2
<1>2. \A i \in 1 .. Len(q) : kq[i] = KeyOf(q, i, hp)
  BY DEF KeyList
<1> HIDE DEF kq, X
<1>3. /\ Len(RemoveAt(q, p)) = Len(q) - 1
      /\ \A i \in 1 .. Len(q) - 1 : RemoveAt(q, p)[i] = q[IF i < p THEN i ELSE i + 1]
  BY <1>1, RemoveAtProperties
<1>4. /\ b \in Seq(Keys) /\ Len(b) = Len(q) - 1
      /\ \A i \in 1 .. Len(q) - 1 : b[i] = kq[IF i < p THEN i ELSE i + 1]
  BY <1>1, RemoveAtProperties
<1>5. a \in [1 .. Len(q) - 1 -> Keys] /\ \A i \in 1 .. Len(q) - 1 : a[i] = b[i]
  <2>1. ASSUME NEW i \in 1 .. Len(q) - 1 PROVE a[i] = b[i] /\ b[i] \in Keys
    <3> DEFINE j == IF i < p THEN i ELSE i + 1
    <3>1. j \in 1 .. Len(q)
      BY <1>1
    <3>2. RemoveAt(q, p)[i] = q[j] /\ b[i] = kq[j]
      BY <1>3, <1>4
    <3> HIDE DEF j, b
    <3>3. a[i] = KeyOf(RemoveAt(q, p), i, hp)
      BY <1>3 DEF KeyList
    <3>4. a[i] = b[i]
      BY <1>2, <3>1, <3>2, <3>3 DEF KeyOf
    <3> QED BY <1>4, <3>4
  <2>2. DOMAIN a = 1 .. Len(q) - 1 /\ a = [i \in 1 .. Len(q) - 1 |-> a[i]]
    BY <1>3 DEF KeyList
  <2> HIDE DEF a, b
  <2> QED BY <2>1, <2>2
<1>6. b \in [1 .. Len(q) - 1 -> Keys]
  <2> HIDE DEF b
  <2> QED BY <1>4, LenProperties
<1> HIDE DEF a, b
<1>7. a = b
  BY <1>5, <1>6
<1> QED BY <1>7 DEF a, b, kq

\* ... and joins it at the front.
LEMMA KeyListPush ==
    ASSUME NEW q \in Seq(Cells), NEW hp, KeyList(q, hp) \in Seq(Keys),
           NEW e \in Elems, NEW n \in Nat, NEW k \in Keys, k = hp[n].key
    PROVE  KeyList(PushFront(q, e, n), hp) = <<k>> \o KeyList(q, hp)
<1> DEFINE X == Cells
           c == [elem |-> e, node |-> n]
           kq == KeyList(q, hp)
           a == KeyList(PushFront(q, e, n), hp)
           b == <<k>> \o kq
           r == PushFront(q, e, n)
<1>1. Len(q) \in Nat /\ q \in Seq(X) /\ c \in X
  BY DEF Cells
<1>2. r = <<c>> \o q /\ c.node = n
  BY DEF PushFront
<1>3. \A i \in 1 .. Len(q) : kq[i] = KeyOf(q, i, hp)
  BY DEF KeyList
<1>4. Len(kq) = Len(q)
  BY <1>1, LenProperties DEF KeyList
<1> HIDE DEF kq, X, c, r
<1>5. /\ Len(r) = Len(q) + 1 /\ r[1] = c /\ \A i \in 1 .. Len(q) : r[i + 1] = q[i]
  BY <1>1, <1>2, PushFrontProperties
<1>6. /\ b \in Seq(Keys) /\ Len(b) = Len(q) + 1 /\ b[1] = k
      /\ \A i \in 1 .. Len(q) : b[i + 1] = kq[i]
  <2>1. kq \in Seq(Keys)
    BY DEF kq
  <2> QED BY <1>4, <2>1, PushFrontProperties
<1>7. ASSUME NEW i \in 1 .. Len(q) + 1 PROVE KeyOf(r, i, hp) = b[i] /\ b[i] \in Keys
  <2>1. b[i] \in Keys
    <3> HIDE DEF b
    <3> QED BY <1>6
  <2>2. CASE i = 1
    BY <1>2, <1>5, <1>6, <2>1, <2>2 DEF KeyOf
  <2>3. CASE i # 1
    <3> DEFINE j == i - 1
    <3>1. j \in 1 .. Len(q) /\ j + 1 = i
      BY <1>1, <2>3
    <3> HIDE DEF j, b
    <3>2. r[i] = q[j] /\ b[i] = kq[j]
      BY <1>5, <1>6, <3>1
    <3> QED BY <1>3, <2>1, <3>1, <3>2 DEF KeyOf
  <2> QED BY <2>2, <2>3
<1>8. a = [i \in 1 .. Len(q) + 1 |-> KeyOf(r, i, hp)]
  BY <1>5 DEF KeyList, r
<1> HIDE DEF a, b
<1>9. b \in [1 .. Len(q) + 1 -> Keys]
  BY <1>6, LenProperties
<1>10. a = b
  BY <1>7, <1>8, <1>9
<1> QED BY <1>10 DEF a, b, kq

\* A key is listed if it is in the index.
LEMMA ListedKey ==
    ASSUME NEW s, NEW q, NEW ix, NEW hp, ShardOK(s, q, ix, hp), HeapOK(hp), NEW k
    PROVE  /\ k \in Recency!KeysOf(KeyList(q, hp)) <=> k \in DOMAIN ix
           /\ \A p \in 1 .. Len(q) :
                  KeyOf(q, p, hp) = k => Recency!Position(KeyList(q, hp), k) = p
<1> DEFINE kq == KeyList(q, hp)
<1>1. Len(kq) = Len(q) /\ \A i \in 1 .. Len(q) : kq[i] = KeyOf(q, i, hp)
  BY KeyListType DEF KeyList
<1> HIDE DEF kq
<1>2. k \in Recency!KeysOf(kq) <=> \E i \in 1 .. Len(q) : KeyOf(q, i, hp) = k
  BY <1>1 DEF Recency!KeysOf
<1>3. (\E i \in 1 .. Len(q) : KeyOf(q, i, hp) = k) <=> k \in DOMAIN ix
  BY DEF ShardOK
<1>4. ASSUME NEW p \in 1 .. Len(q), KeyOf(q, p, hp) = k
      PROVE  Recency!Position(kq, k) = p
  <2>1. \A i \in 1 .. Len(kq) : kq[i] = k <=> i = p
    BY <1>1, <1>4, KeysDiffer
  <2> QED BY <1>1, <2>1 DEF Recency!Position
<1> QED BY <1>2, <1>3, <1>4 DEF kq

\* What a step on one shard does to the order.
LEMMA OrderStep ==
    ASSUME CacheIInv, NEW s \in Shards, Later(heap, heap'), NEW q,
           nodes' = [nodes EXCEPT ![s] = q]
    PROVE  Order' = [Order EXCEPT ![s] = KeyList(q, heap')]
<1>1. nodes \in [Shards -> Seq(Cells)]
  BY DEF CacheIInv
<1>2. ASSUME NEW t \in Shards, t # s PROVE KeyList(nodes'[t], heap') = KeyList(nodes[t], heap)
  <2>1. nodes'[t] = nodes[t]
    BY <1>1, <1>2
  <2>2. ShardOK(t, nodes[t], index[t], heap)
    BY ShardFacts
  <2> QED BY <2>1, <2>2, KeyListLater
<1>3. nodes'[s] = q
  BY <1>1
<1>4. Order' = [t \in Shards |-> KeyList(nodes'[t], heap')]
  BY DEF Order
<1>5. \A t \in Shards : Order[t] = KeyList(nodes[t], heap)
  BY DEF Order
<1>6. DOMAIN Order = Shards
  BY DEF Order
<1> DEFINE v == KeyList(q, heap')
           o == Order
<1>7. \A t \in Shards : KeyList(nodes'[t], heap') = IF t = s THEN v ELSE o[t]
  <2> SUFFICES ASSUME NEW t \in Shards
               PROVE  KeyList(nodes'[t], heap') = IF t = s THEN v ELSE o[t]
    OBVIOUS
  <2>1. CASE t = s
    BY <1>3, <2>1
  <2>2. CASE t # s
    BY <1>2, <1>5, <2>2
  <2> QED BY <2>1, <2>2
<1>8. [o EXCEPT ![s] = v] = [t \in Shards |-> IF t = s THEN v ELSE o[t]]
  <2>1. DOMAIN o = Shards
    BY <1>6
  <2> HIDE DEF o, v
  <2> QED BY <2>1
<1> QED BY <1>4, <1>7, <1>8

\* Recency's view of a shard.
LEMMA OrderFacts ==
    ASSUME CacheIInv, NEW s \in Shards
    PROVE  /\ Order[s] = KeyList(nodes[s], heap) /\ Order[s] \in Seq(Keys)
           /\ Len(Order[s]) = Len(nodes[s]) /\ Len(nodes[s]) \in Nat /\ Len(nodes[s]) <= Capacity
           /\ \A k : k \in Recency!KeysOf(Order[s]) <=> k \in DOMAIN index[s]
           /\ \A k \in DOMAIN index[s] :
                  /\ Recency!Without(Order[s], k) = KeyList(RemoveAt(nodes[s], Position(s, k)), heap)
                  /\ RemoveAt(nodes[s], Position(s, k)) \in Seq(Cells)
                  /\ KeyList(RemoveAt(nodes[s], Position(s, k)), heap) \in Seq(Keys)
<1> DEFINE q == nodes[s]
           ix == index[s]
<1>1. /\ q \in Seq(Cells) /\ ShardOK(s, q, ix, heap) /\ HeapOK(heap) /\ Len(q) \in Nat
      /\ Len(q) <= Capacity
  BY ShardFacts DEF ShardOK
<1>2. Order[s] = KeyList(q, heap)
  BY DEF Order
<1>3. KeyList(q, heap) \in Seq(Keys) /\ Len(KeyList(q, heap)) = Len(q)
  BY <1>1, KeyListType
<1>4. ASSUME NEW k
      PROVE  k \in Recency!KeysOf(KeyList(q, heap)) <=> k \in DOMAIN ix
  BY <1>1, ListedKey
<1>5. ASSUME NEW k \in DOMAIN ix
      PROVE  /\ Recency!Without(KeyList(q, heap), k) = KeyList(RemoveAt(q, Position(s, k)), heap)
             /\ RemoveAt(q, Position(s, k)) \in Seq(Cells)
             /\ KeyList(RemoveAt(q, Position(s, k)), heap) \in Seq(Keys)
  <2> DEFINE p == Position(s, k)
  <2>1. p \in 1 .. Len(q) /\ KeyOf(q, p, heap) = k
    BY <1>1, PositionOfKey
  <2> HIDE DEF p, q, ix
  <2>2. Recency!Position(KeyList(q, heap), k) = p
    BY <1>1, <2>1, ListedKey
  <2>3. Recency!Without(KeyList(q, heap), k) = RemoveAt(KeyList(q, heap), p)
    <3>1. k \in Recency!KeysOf(KeyList(q, heap))
      BY <1>4
    <3> QED BY <2>2, <3>1 DEF Recency!Without, Recency!RemoveAt, RemoveAt
  <2>4. KeyList(RemoveAt(q, p), heap) = RemoveAt(KeyList(q, heap), p)
    BY <1>1, <2>1, KeyListRemove
  <2>5. RemoveAt(KeyList(q, heap), p) \in Seq(Keys)
    <3>1. p \in 1 .. Len(KeyList(q, heap))
      BY <1>3, <2>1
    <3> QED BY <1>3, <3>1, RemoveAtProperties
  <2>6. RemoveAt(q, p) \in Seq(Cells)
    <3> DEFINE X == Cells
    <3>1. q \in Seq(X)
      BY <1>1
    <3> HIDE DEF X
    <3>2. RemoveAt(q, p) \in Seq(X)
      BY <2>1, <3>1, RemoveAtProperties
    <3> QED BY <3>2 DEF X
  <2> QED BY <2>3, <2>4, <2>5, <2>6 DEF p
<1> HIDE DEF q, ix
<1> QED BY <1>1, <1>2, <1>3, <1>4, <1>5 DEF q, ix

\* The actions of RecencyCache, of the order that the lists have.
LEMMA RecencyActions ==
    ASSUME NEW k \in Keys, last' = k
    PROVE  LET s == ShardOf(k)
               q == Order[s]
               room == IF ~ k \in Recency!KeysOf(q) /\ Len(q) = Capacity
                       THEN SubSeq(q, 1, Len(q) - 1) ELSE q
           IN  /\ Order' = [Order EXCEPT ![s] = Recency!Recent(room, k)] => Recency!Insert(k)
               /\ Order' = (IF k \in Recency!KeysOf(q)
                            THEN [Order EXCEPT ![s] = Recency!Recent(@, k)] ELSE Order)
                      => Recency!Get(k)
               /\ Order' = [Order EXCEPT ![s] = Recency!Without(@, k)] => Recency!Erase(k)
<1>1. \A x \in Keys : Recency!ShardOf(x) = ShardOf(x)
  BY DEF Recency!ShardOf, ShardOf
<1> QED BY <1>1 DEF Recency!Insert, Recency!Get, Recency!Erase, Order, KeyList, KeyOf

\* The node of a cached key goes to the front, and its key with it.
LEMMA FrontOrder ==
    ASSUME CacheIInv, NEW s \in Shards, NEW k \in DOMAIN index[s], Later(heap, heap'),
           NEW e \in Elems,
           nodes' = [nodes EXCEPT ![s] = PushFront(RemoveAt(nodes[s], Position(s, k)), e, NodeAt(s, k))]
    PROVE  Order' = [Order EXCEPT ![s] = Recency!Recent(@, k)]
<1> DEFINE q == nodes[s]
           p == Position(s, k)
           ix == index[s]
           r == RemoveAt(q, p)
           jx == Restrict(ix, DOMAIN ix \ {k})
           n == NodeAt(s, k)
           o == Order[s]
<1>1. /\ p \in 1 .. Len(q) /\ q[p] \in Cells /\ NodeAt(s, k) = q[p].node
      /\ NodeAt(s, k) \in 1 .. Len(heap) /\ heap[NodeAt(s, k)].key = k
      /\ k \in Keys /\ ShardOf(k) = s /\ ix[k] = q[p].elem
      /\ ShardOK(s, r, jx, heap) /\ Len(r) = Len(q) - 1 /\ Len(q) <= Capacity
      /\ k \notin DOMAIN jx /\ ElemsOf(r) \subseteq ElemsOf(q) \ {q[p].elem}
  BY CachedKey
<1>2. Recency!Without(o, k) = KeyList(r, heap) /\ r \in Seq(Cells) /\ KeyList(r, heap) \in Seq(Keys)
  BY OrderFacts
<1> HIDE DEF q, p, ix, r, jx, n, o
<1>3. n \in 1 .. Len(heap) /\ heap[n].key = k /\ ShardOK(s, r, jx, heap) /\ k \in Keys
  BY <1>1 DEF n
<1>4. KeyList(r, heap') = KeyList(r, heap)
  BY <1>3, KeyListLater
<1>5. heap'[n].key = k /\ n \in Nat
  BY <1>3 DEF Later
<1>6. KeyList(PushFront(r, e, n), heap') = <<k>> \o KeyList(r, heap)
  BY <1>2, <1>3, <1>4, <1>5, KeyListPush
<1>7. nodes' = [nodes EXCEPT ![s] = PushFront(r, e, n)]
  BY DEF q, p, r, n
<1>8. Order' = [Order EXCEPT ![s] = <<k>> \o KeyList(r, heap)]
  BY <1>6, <1>7, OrderStep
<1>9. Recency!Recent(o, k) = <<k>> \o KeyList(r, heap)
  BY <1>2 DEF Recency!Recent
<1> QED BY <1>8, <1>9 DEF o

\* A full shard without its last node.
LEMMA LastNode ==
    ASSUME CacheIInv, NEW s \in Shards, Len(nodes[s]) # 0
    PROVE  /\ \E jx : /\ ShardOK(s, Front(nodes[s]), jx, heap)
                      /\ DOMAIN jx \subseteq DOMAIN index[s]
           /\ SubSeq(Order[s], 1, Len(Order[s]) - 1) = KeyList(Front(nodes[s]), heap)
<1> DEFINE q == nodes[s]
           ix == index[s]
           l == Len(q)
           r == RemoveAt(q, l)
           k == KeyOf(q, l, heap)
           jx == Restrict(ix, DOMAIN ix \ {k})
           X == Cells
           o == Order[s]
<1>1. /\ q \in Seq(X) /\ ix \in Maps(Elems) /\ ShardOK(s, q, ix, heap) /\ HeapOK(heap)
      /\ l \in 1 .. Len(q) /\ l \in Nat
  BY ShardFacts
<1>2. o = KeyList(q, heap) /\ o \in Seq(Keys) /\ Len(o) = l
  BY OrderFacts
<1> HIDE DEF q, ix, X, o
<1>3. Front(q) = r
  <2>1. Front(q) = RemoveAt(q, Len(q))
    BY <1>1, FrontIsRemoveAt DEF q
  <2> QED BY <2>1
<1>4. ShardOK(s, r, jx, heap)
  <2>1. k = KeyOf(q, l, heap) /\ r = RemoveAt(q, l) /\ jx = Restrict(ix, DOMAIN ix \ {k})
    OBVIOUS
  <2> HIDE DEF l, r, k, jx
  <2> QED BY ONLY <1>1, <2>1, RemoveNode
<1>5. DOMAIN jx \subseteq DOMAIN ix
  <2>1. DOMAIN ix \ {k} \in SUBSET DOMAIN ix
    OBVIOUS
  <2> HIDE DEF k
  <2> QED BY <1>1, <2>1, RestrictProperties
<1>6. KeyList(r, heap) = RemoveAt(o, l)
  <2> HIDE DEF l
  <2>1. KeyList(RemoveAt(q, l), heap) = RemoveAt(KeyList(q, heap), l)
    BY <1>1, KeyListRemove
  <2> QED BY <1>2, <2>1
<1>7. SubSeq(o, 1, Len(o) - 1) = RemoveAt(o, l)
  <2>1. Len(o) # 0
    BY <1>1, <1>2 
  <2>2. Front(o) = RemoveAt(o, Len(o))
    BY <1>2, <2>1, FrontIsRemoveAt
  <2> QED BY <1>2, <2>2 DEF Front
<1> HIDE DEF r, jx, k
<1> QED BY <1>3, <1>4, <1>5, <1>6, <1>7 DEF q, ix, o

\* Insert puts its key to the front; a full shard loses the last one first.
LEMMA InsertOrder ==
    ASSUME CacheIInv, NEW c \in Clients, NEW k \in Keys, Insert(c, k)
    PROVE  Recency!Insert(k)
<1> DEFINE s == ShardOf(k)
           q == nodes[s]
           ix == index[s]
           n == Len(heap) + 1
           o == Order[s]
           room == IF ~ k \in Recency!KeysOf(o) /\ Len(o) = Capacity
                   THEN SubSeq(o, 1, Len(o) - 1) ELSE o
<1>1. s \in Shards /\ last' = k /\ Len(heap) < MaxNodes /\ UNCHANGED <<held, pruned>>
  BY ShardOfKey DEF Insert
<1>2. /\ ShardOK(s, q, ix, heap) /\ HeapOK(heap) /\ Len(heap) \in Nat /\ q \in Seq(Cells)
  <2> HIDE DEF s
  <2> QED BY <1>1, ShardFacts
<1>3. /\ o = KeyList(q, heap) /\ o \in Seq(Keys) /\ Len(o) = Len(q) /\ Len(q) \in Nat
      /\ k \in Recency!KeysOf(o) <=> k \in DOMAIN ix
  <2> HIDE DEF s
  <2> QED BY <1>1, OrderFacts
<1>4. Order' = [Order EXCEPT ![s] = Recency!Recent(room, k)]
  <2>1. CASE InsertHit(k)
    <3>1. Later(heap, heap') /\ k \in DOMAIN ix
      BY <1>1, <2>1, InsertHitKeeps DEF InsertHit
    <3> DEFINE p == Position(s, k)
               e == q[p].elem
    <3>2. q[p] \in Cells /\ NodeAt(s, k) = q[p].node
      <4> HIDE DEF s
      <4> QED BY <1>1, <3>1, CachedKey
    <3>3. <<q[p]>> \o RemoveAt(q, p) = PushFront(RemoveAt(q, p), e, NodeAt(s, k)) /\ e \in Elems
      <4>1. q[p] = [elem |-> e, node |-> NodeAt(s, k)] /\ e \in Elems
        <5> HIDE DEF q, p, s
        <5> QED BY <3>2 DEF Cells
      <4> HIDE DEF q, p, e
      <4> QED BY <4>1 DEF PushFront
    <3>4. nodes' = [nodes EXCEPT ![s] = <<q[p]>> \o RemoveAt(q, p)]
      BY <2>1 DEF InsertHit, SpliceToFront
    <3>5. nodes' = [nodes EXCEPT ![s] = PushFront(RemoveAt(nodes[s], Position(s, k)), e, NodeAt(s, k))]
      BY <3>3, <3>4
    <3> HIDE DEF e
    <3>6. room = o
      BY <1>3, <3>1
    <3> HIDE DEF s, room
    <3>7. Order' = [Order EXCEPT ![s] = Recency!Recent(@, k)]
      BY <1>1, <3>1, <3>3, <3>5, FrontOrder
    <3> QED BY <3>6, <3>7
  <2>2. CASE InsertMiss(k)
    <3> DEFINE e == FreshElem(q)
               rest == IF Full(s) THEN Front(q) ELSE q
    <3>1. Later(heap, heap') /\ heap'[n].key = k /\ k \notin DOMAIN ix
      BY <1>1, <2>2, InsertMissKeeps DEF InsertMiss
    <3>2. nodes' = [nodes EXCEPT ![s] = PushFront(rest, e, n)]
      BY <2>2 DEF InsertMiss
    <3>3. e \in Elems
      <4> HIDE DEF q
      <4> QED BY <1>2, FreshElemExists DEF ShardOK
    <3>4. \E jx : ShardOK(s, rest, jx, heap) /\ k \notin DOMAIN jx
      <4>1. CASE Full(s)
        <5>1. Len(nodes[s]) # 0
          BY <4>1 DEF Full
        <5> HIDE DEF s
        <5>2. \E jx : ShardOK(s, Front(nodes[s]), jx, heap) /\ DOMAIN jx \subseteq DOMAIN index[s]
          BY <1>1, <5>1, LastNode
        <5> QED BY <3>1, <4>1, <5>2
      <4>2. CASE ~ Full(s)
        <5> HIDE DEF s, q, ix
        <5> QED BY <1>2, <3>1, <4>2
      <4> QED BY <4>1, <4>2
    <3>5. room = KeyList(rest, heap)
      <4>1. CASE Full(s)
        <5>1. Len(nodes[s]) # 0 /\ Len(q) = Capacity
          BY <4>1 DEF Full
        <5>2. SubSeq(o, 1, Len(o) - 1) = KeyList(Front(q), heap)
          <6> HIDE DEF s
          <6> QED BY <1>1, <5>1, LastNode
        <5> HIDE DEF s, q, o, ix
        <5> QED BY <1>3, <3>1, <4>1, <5>1, <5>2
      <4>2. CASE ~ Full(s)
        <5>1. Len(q) # Capacity
          BY <4>2 DEF Full
        <5> HIDE DEF s, q, o, ix
        <5> QED BY <1>3, <3>1, <4>2, <5>1
      <4> QED BY <4>1, <4>2
    <3> HIDE DEF s, q, ix, o, room, e, rest
    <3>6. PICK jx : ShardOK(s, rest, jx, heap) /\ k \notin DOMAIN jx
      BY <3>4
    <3>7. rest \in Seq(Cells) /\ KeyList(rest, heap') = KeyList(rest, heap) /\ KeyList(rest, heap) \in Seq(Keys)
      <4>1. KeyList(rest, heap') = KeyList(rest, heap)
        BY <3>1, <3>6, KeyListLater
      <4>2. KeyList(rest, heap) \in Seq(Keys)
        BY <1>2, <3>6, KeyListType
      <4> QED BY <3>6, <4>1, <4>2 DEF ShardOK
    <3>8. ~ k \in Recency!KeysOf(KeyList(rest, heap))
      BY <1>2, <3>6, ListedKey
    <3>9. Recency!Recent(room, k) = <<k>> \o KeyList(rest, heap)
      BY <3>5, <3>8 DEF Recency!Recent, Recency!Without
    <3>10. KeyList(PushFront(rest, e, n), heap') = <<k>> \o KeyList(rest, heap)
      <4>1. n \in Nat
        BY <1>2
      <4> HIDE DEF n
      <4> QED BY <3>1, <3>3, <3>7, <4>1, KeyListPush
    <3> HIDE DEF n
    <3> QED BY <1>1, <3>1, <3>2, <3>9, <3>10, OrderStep
  <2> QED BY <2>1, <2>2 DEF Insert
<1> HIDE DEF room, o
<1> QED BY <1>1, <1>4, RecencyActions DEF room, o

\* Get puts a cached key to the front, and leaves the order alone otherwise.
LEMMA GetOrder ==
    ASSUME CacheIInv, NEW c \in Clients, NEW k \in Keys, Get(c, k)
    PROVE  Recency!Get(k)
<1> DEFINE s == ShardOf(k)
           o == Order[s]
<1>1. s \in Shards /\ UNCHANGED pruned
  BY ShardOfKey DEF Get
<1>2. k \in Recency!KeysOf(o) <=> k \in DOMAIN index[s]
  <2> HIDE DEF s
  <2> QED BY <1>1, OrderFacts
<1>3. /\ last' = k
      /\ Order' = IF k \in Recency!KeysOf(o) THEN [Order EXCEPT ![s] = Recency!Recent(@, k)] ELSE Order
  <2>1. CASE GetHit(c, k)
    <3> DEFINE e == FreshElem(nodes[s])
    <3>1. Later(heap, heap') /\ k \in DOMAIN index[s] /\ last' = k
      BY <1>1, <2>1, GetHitKeeps DEF GetHit
    <3>2. nodes' = [nodes EXCEPT ![s] = PushFront(RemoveAt(nodes[s], Position(s, k)), e, NodeAt(s, k))]
      BY <2>1 DEF GetHit
    <3> HIDE DEF s
    <3>3. e \in Elems
      <4>1. nodes[s] \in Seq(Cells) /\ Len(nodes[s]) <= Capacity
        BY <1>1, ShardFacts DEF ShardOK
      <4> QED BY <4>1, FreshElemExists
    <3> HIDE DEF e
    <3>4. Order' = [Order EXCEPT ![s] = Recency!Recent(@, k)]
      BY <1>1, <3>1, <3>2, <3>3, FrontOrder
    <3> QED BY <1>2, <3>1, <3>4
  <2>2. CASE GetMiss(c, k)
    <3>1. k \notin DOMAIN index[s] /\ last' = k /\ UNCHANGED <<nodes, heap>>
      BY <2>2 DEF GetMiss
    <3>2. Order' = Order
      BY <3>1 DEF Order
    <3> QED BY <1>2, <3>1, <3>2
  <2> QED BY <2>1, <2>2 DEF Get
<1> HIDE DEF o
<1> QED BY <1>3, RecencyActions DEF o

\* Erase takes its key out.
LEMMA EraseOrder ==
    ASSUME CacheIInv, NEW c \in Clients, NEW k \in Keys, Erase(c, k)
    PROVE  Recency!Erase(k)
<1> DEFINE s == ShardOf(k)
           o == Order[s]
<1>1. s \in Shards /\ UNCHANGED <<held, pruned>>
  BY ShardOfKey DEF Erase
<1>2. k \in Recency!KeysOf(o) <=> k \in DOMAIN index[s]
  <2> HIDE DEF s
  <2> QED BY <1>1, OrderFacts
<1>3. last' = k /\ Order' = [Order EXCEPT ![s] = Recency!Without(@, k)]
  <2>1. CASE EraseHit(k)
    <3> DEFINE r == RemoveAt(nodes[s], Position(s, k))
               ix == index[s]
               jx == Restrict(ix, DOMAIN ix \ {k})
    <3>1. Later(heap, heap') /\ k \in DOMAIN index[s] /\ last' = k
      BY <1>1, <2>1, EraseHitKeeps DEF EraseHit
    <3>2. nodes' = [nodes EXCEPT ![s] = r]
      BY <2>1 DEF EraseHit
    <3> HIDE DEF s
    <3>3. Recency!Without(o, k) = KeyList(r, heap)
      BY <1>1, <3>1, OrderFacts
    <3>4. ShardOK(s, r, jx, heap)
      BY <1>1, <3>1, CachedKey
    <3> HIDE DEF r, ix, jx
    <3>5. KeyList(r, heap') = KeyList(r, heap)
      BY <3>1, <3>4, KeyListLater
    <3>6. Order' = [Order EXCEPT ![s] = KeyList(r, heap')]
      BY <1>1, <3>1, <3>2, OrderStep
    <3> QED BY <3>1, <3>3, <3>5, <3>6
  <2>2. CASE EraseMiss(k)
    <3>1. k \notin DOMAIN index[s] /\ last' = k /\ UNCHANGED <<nodes, heap>>
      BY <2>2 DEF EraseMiss
    <3>2. Order' = Order
      BY <3>1 DEF Order
    <3>3. Recency!Without(o, k) = o
      BY <1>2, <3>1 DEF Recency!Without
    <3>4. [Order EXCEPT ![s] = o] = Order
      BY <1>1 DEF Order
    <3> QED BY <3>1, <3>2, <3>3, <3>4
  <2> QED BY <2>1, <2>2 DEF Erase
<1> HIDE DEF o
<1> QED BY <1>3, RecencyActions DEF o

\* The other steps leave the lists and the keys of their nodes alone.
LEMMA OrderUnchanged ==
    ASSUME UNCHANGED <<nodes, heap, last>>
    PROVE  UNCHANGED Recency!vars
BY DEF Recency!vars

\* Every step of the cache and its readers is one of RecencyCache, or none.
LEMMA RecencyStep == IInv /\ [ReaderNext]_<<vars, reader_vars>> => [Recency!Next]_Recency!vars
<1> SUFFICES ASSUME IInv, [ReaderNext]_<<vars, reader_vars>>
             PROVE  Recency!Next \/ UNCHANGED Recency!vars
  OBVIOUS
<1>1. CacheIInv /\ readers \subseteq Clients
  BY DEF IInv, ReaderIInv
<1>2. ASSUME NEW c \in Clients, NEW k \in Keys, Insert(c, k) \/ Get(c, k) \/ Erase(c, k)
      PROVE  Recency!Next
  <2>1. Recency!Insert(k) \/ Recency!Get(k) \/ Recency!Erase(k)
    BY <1>1, <1>2, InsertOrder, GetOrder, EraseOrder
  <2> QED BY <2>1 DEF Recency!Next
<1>3. ASSUME NEW c \in Clients, Prune(c) PROVE UNCHANGED Recency!vars
  <2>1. UNCHANGED <<nodes, heap, last>>
    BY <1>1, <1>3, PruneKeeps DEF Prune
  <2> QED BY <2>1, OrderUnchanged
<1>4. ASSUME NEW c \in Clients, Release(c) PROVE UNCHANGED Recency!vars
  <2>1. UNCHANGED <<nodes, heap, last>>
    BY <1>1, <1>4, ReleaseKeeps DEF Release
  <2> QED BY <2>1, OrderUnchanged
<1>5. ASSUME NEW c \in readers, ReaderStep(c) PROVE Recency!Next \/ UNCHANGED Recency!vars
  <2>1. c \in Clients
    BY <1>1
  <2>2. ASSUME NEW k \in Keys, LookUp(c, k) PROVE Recency!Next
    BY <1>2, <2>1, <2>2 DEF LookUp
  <2>3. CASE InsertBlock(c)
    <3>1. reading[c] \in Keys /\ Insert(c, reading[c])
      BY <2>1, <2>3 DEF InsertBlock, IInv, ReaderIInv
    <3> QED BY <1>2, <2>1, <3>1
  <2>4. CASE ReadFails(c)
    BY <2>4, OrderUnchanged DEF ReadFails, vars
  <2>5. CASE DeleteIterator(c)
    BY <2>5, OrderUnchanged DEF DeleteIterator
  <2> QED BY <1>5, <2>2, <2>3, <2>4, <2>5 DEF ReaderStep
<1>6. ASSUME NEW c \in Clients, MaintenanceStep(c) PROVE Recency!Next \/ UNCHANGED Recency!vars
  BY <1>2, <1>3, <1>6 DEF MaintenanceStep
<1>7. ASSUME NEW c \in Clients, ClientStep(c) PROVE Recency!Next \/ UNCHANGED Recency!vars
  BY <1>2, <1>3, <1>4, <1>7 DEF ClientStep
<1>8. CASE UNCHANGED <<vars, reader_vars>>
  BY <1>8, OrderUnchanged DEF vars
<1> QED BY <1>5, <1>6, <1>7, <1>8 DEF ReaderNext

\* Shards that hold nothing yet.
LEMMA RecencyInit == ReaderInit => Recency!Init
<1> SUFFICES ASSUME ReaderInit PROVE Recency!Init
  OBVIOUS
<1>1. \A s \in Shards : nodes[s] = <<>>
  BY DEF ReaderInit, Init
<1>2. ASSUME NEW s \in Shards
      PROVE  [i \in 1 .. Len(nodes[s]) |-> heap[nodes[s][i].node].key] = <<>>
  BY <1>1, <1>2
<1>3. Recency!Shards = Shards
  BY DEF Recency!Shards, Shards
<1> QED BY <1>2, <1>3 DEF Recency!Init, ReaderInit, Init

\* EvictsLeastRecent: behind list elements, iterators and reference counts the
\* cache keeps the most recently used keys of each shard, in order
\* (lru.h:39-78, 96-110).
THEOREM RecencyTheorem == ReaderSpec => EvictsLeastRecent
<1> QED BY CacheInvariant, RecencyInit, RecencyStep, PTL
        DEF ReaderSpec, EvictsLeastRecent, Recency!Spec
=============================================================================
