-------------------------- MODULE DataBlockProofs ---------------------------
(***************************************************************************)
(* Proofs about DataBlock, for any keys, any restart intervals and any     *)
(* number of entries.                                                      *)
(***************************************************************************)
EXTENDS DataBlock, SequenceTheorems, WellFoundedInduction, TLAPS

-----------------------------------------------------------------------------
(* The inductive invariant                                                 *)

Bytes   == 1 .. ByteModulus - 1
Entries == [shared : Nat, rest : Seq(Bytes), value : Keys]
K(i)    == entries[i].value

\* A shared prefix is that of the key before, and the rest is stored.
EntryOK(i) ==
    /\ entries[i].shared <= Len(K(i))
    /\ entries[i].rest = SubSeq(K(i), entries[i].shared + 1, Len(K(i)))
    /\ entries[i].shared > 0 =>
          /\ i > 1 /\ entries[i].shared <= Len(K(i - 1))
          /\ \A j \in 1 .. entries[i].shared : K(i - 1)[j] = K(i)[j]

EntriesOK ==
    /\ entries \in Seq(Entries)
    /\ \A i \in 1 .. Len(entries) : EntryOK(i)
    /\ \A i, j \in 1 .. Len(entries) : i < j => Less(K(i), K(j))
    /\ pre_key = IF entries = <<>> THEN <<>> ELSE K(Len(entries))

\* Restart points ascend from 0, and shared prefixes begin anew at them.
RestartsOK ==
    /\ restarts \in Seq(Nat) /\ restarts # <<>> /\ restarts[1] = 0
    /\ \A i, j \in 1 .. Len(restarts) : i < j => restarts[i] < restarts[j]
    /\ \A i \in 1 .. Len(restarts) :
          /\ restarts[i] < Len(entries) \/ (i = 1 /\ entries = <<>>)
          /\ restarts[i] < Len(entries) => entries[restarts[i] + 1].shared = 0

BlockIInv ==
    /\ interval \in Nat \ {0} /\ counter \in 0 .. interval
    /\ entries = <<>> => counter = 0
    /\ EntriesOK /\ RestartsOK

\* The next entry can be rebuilt: key_ is that of the entry before it, or empty
\* where nothing is shared.
KeyOK ==
    it.offset < End =>
        \/ it.key = <<>> /\ entries[it.offset + 1].shared = 0
        \/ it.offset >= 1 /\ it.key = K(it.offset)

\* On an entry.
Settled ==
    Valid =>
        /\ it.offset = it.current + 1
        /\ it.key = K(it.offset) /\ it.value = K(it.offset)
        /\ it.restart_index \in Points
        /\ Point(it.restart_index) <= it.current
        /\ \A i \in Points : i > it.restart_index => Point(i) >= it.current

Iterators ==
    [current : Nat, restart_index : Nat, key : Seq(Bytes), value : Seq(Bytes), offset : Nat,
     status : {"success"}]

IterIInv ==
    /\ it \in Iterators
    /\ it.current <= End /\ it.offset <= End /\ KeyOK
    /\ pc = "build" => it.current = 0 /\ it.offset = 0 /\ it.key = <<>>
    /\ pc \notin {"build", "parse"} => Settled
    /\ pc = "parse" => it.restart_index \in Points /\ Point(it.restart_index) <= it.offset

\* Where an operation stands.
OpIInv ==
    /\ op \in [op : {"none", "first", "last", "next", "prev", "seek"}, target : Seq(Bytes)]
    /\ pc \in {"build", "ready", "first", "last", "next", "prev", "seek", "search", "parse"}
    /\ pc \in {"build", "ready"} <=> op = NoOp
    /\ pc \notin {"build", "ready", "search", "parse"} => op.op = pc
    /\ pc = "search" => op.op = "seek"
    /\ pc = "parse" => op.op # "none"
    /\ left \in Points /\ right \in Points /\ original \in Nat

\* What it has found out.
SearchIInv ==
    /\ pc \in {"next", "prev"} => Valid /\ origin = K(it.current + 1)
    /\ pc = "search" => left = 0 \/ Less(K(Point(left) + 1), op.target)
    /\ pc = "parse" =>
          /\ op.op = "first" => it.offset = 0
          /\ op.op = "last"  => it.offset < End \/ End = 0
          /\ op.op = "next"  => it.offset >= 1 /\ origin = K(it.offset)
          /\ op.op = "prev"  => /\ it.offset < original /\ original < End
                                /\ origin = K(original + 1)
          /\ op.op = "seek"  => \A i \in 1 .. it.offset : Less(K(i), op.target)

IInv == BlockIInv /\ IterIInv /\ OpIInv /\ SearchIInv

USE ByteModulusAssumption, KeysAssumption, IntervalsAssumption

-----------------------------------------------------------------------------
(* The order of keys                                                       *)

\* Keys are strings of bytes.
LEMMA KeyStrings == Keys \subseteq Seq(Bytes) /\ <<>> \notin Keys
BY DEF Strings, Bytes

\* No string is less than itself.
LEMMA LessIrreflexive ==
    ASSUME NEW a \in Seq(Bytes)
    PROVE  ~ Less(a, a)
<1> SUFFICES ASSUME NEW d \in 1 .. Len(a), a[d] < a[d] PROVE FALSE
  BY DEF Less
<1>1. Len(a) \in Nat /\ a[d] \in Int
  BY DEF Bytes
<1> QED BY <1>1

\* Two strings that are less than a third: where they first differ is where one
\* of them differs from the second.
LEMMA LessTransitive ==
    ASSUME NEW a \in Seq(Bytes), NEW b \in Seq(Bytes), NEW c \in Seq(Bytes), Less(a, b), Less(b, c)
    PROVE  Less(a, c)
<1> DEFINE Differ(x, y, d) == /\ d \in 1 .. Len(y) /\ d <= Len(x) + 1
                              /\ \A i \in 1 .. d - 1 : x[i] = y[i]
                              /\ d <= Len(x) => x[d] < y[d]
<1>1. PICK d : Differ(a, b, d)
  BY DEF Less
<1>2. PICK e : Differ(b, c, e)
  BY DEF Less
<1>3. Len(a) \in Nat /\ Len(b) \in Nat /\ Len(c) \in Nat
  OBVIOUS
<1>4. /\ \A i \in 1 .. Len(a) : a[i] \in Int
      /\ \A i \in 1 .. Len(b) : b[i] \in Int
      /\ \A i \in 1 .. Len(c) : c[i] \in Int
  BY DEF Bytes
<1>5. CASE d < e
  <2>1. Differ(a, c, d)
    BY <1>1, <1>2, <1>3, <1>5
  <2> QED BY <2>1 DEF Less
<1>6. CASE e < d
  <2>1. Differ(a, c, e)
    BY <1>1, <1>2, <1>3, <1>6
  <2> QED BY <2>1 DEF Less
<1>7. CASE d = e
  <2>1. ASSUME d <= Len(a) PROVE a[d] < c[d]
    <3>1. d \in 1 .. Len(a) /\ d \in 1 .. Len(b) /\ d \in 1 .. Len(c)
      BY <1>1, <1>2, <1>3, <1>7, <2>1
    <3>2. a[d] < b[d] /\ b[d] < c[d]
      BY <1>1, <1>2, <1>3, <1>7, <2>1, <3>1
    <3> QED BY <1>4, <3>1, <3>2
  <2>2. Differ(a, c, d)
    BY <1>1, <1>2, <1>3, <1>7, <2>1
  <2> QED BY <2>2 DEF Less
<1> QED BY <1>1, <1>2, <1>5, <1>6, <1>7

\* What Add shares with the key before it.
LEMMA SharedPrefix ==
    ASSUME NEW a \in Seq(Bytes), NEW b \in Seq(Bytes), Less(a, b)
    PROVE  /\ CommonLen(a, b) \in 0 .. Len(a) /\ CommonLen(a, b) <= Len(b)
           /\ \A i \in 1 .. CommonLen(a, b) : a[i] = b[i]
<1>1. PICK d \in 1 .. Len(b) : /\ d <= Len(a) + 1
                               /\ \A i \in 1 .. d - 1 : a[i] = b[i]
                               /\ d <= Len(a) => a[d] < b[d]
  BY DEF Less
<1>2. Len(a) \in Nat /\ Len(b) \in Nat
  OBVIOUS
<1>3. d <= Len(a) => a[d] # b[d]
  <2>1. d <= Len(a) => a[d] \in Int /\ b[d] \in Int
    BY <1>2 DEF Bytes
  <2> QED BY <1>1, <2>1
<1>4. d - 1 \in 0 .. Len(a) /\ d - 1 <= Len(b) /\ (d - 1 = Len(a) \/ d <= Len(a)) /\ (d - 1) + 1 = d
  BY <1>1, <1>2
<1>5. \E n \in 0 .. Len(a) : /\ n <= Len(b) /\ \A i \in 1 .. n : a[i] = b[i]
                             /\ n = Len(a) \/ n = Len(b) \/ a[n + 1] # b[n + 1]
  BY <1>1, <1>3, <1>4
<1> QED BY <1>5 DEF CommonLen

-----------------------------------------------------------------------------
(* The builder                                                             *)

\* What an entry stores.
LEMMA EntryParts ==
    ASSUME NEW k \in Keys, NEW s \in 0 .. Len(k)
    PROVE  /\ EntryOf(k, s) \in Entries /\ EntryOf(k, s).value = k
           /\ EntryOf(k, s).shared = s /\ EntryOf(k, s).rest = SubSeq(k, s + 1, Len(k))
<1>1. k \in Seq(Bytes) /\ Len(k) \in Nat
  BY KeyStrings
<1>2. SubSeq(k, s + 1, Len(k)) \in Seq(Bytes)
  <2>1. \A i \in s + 1 .. Len(k) : k[i] \in Bytes
    BY <1>1
  <2> QED BY <1>1, <2>1, SubSeqProperties
<1> QED BY <1>1, <1>2 DEF EntryOf, Entries

\* An entry more.
LEMMA EntryAdded ==
    ASSUME EntriesOK, NEW k \in Keys, NEW s \in 0 .. Len(k), Less(pre_key, k),
           entries' = Append(entries, EntryOf(k, s)), pre_key' = k,
           s > 0 => /\ entries # <<>> /\ s <= Len(pre_key)
                    /\ \A j \in 1 .. s : pre_key[j] = k[j]
    PROVE  /\ EntriesOK' /\ Len(entries') = Len(entries) + 1
           /\ entries'[Len(entries) + 1].shared = s
           /\ \A i \in 1 .. Len(entries) : entries'[i] = entries[i]
<1>0. PICK n \in Nat : n = Len(entries)
  BY DEF EntriesOK
<1> DEFINE e == EntryOf(k, s)
<1>1. /\ e \in Entries /\ e.value = k /\ e.shared = s
      /\ e.rest = SubSeq(k, s + 1, Len(k))
  BY EntryParts
<1>2. entries \in Seq(Entries) /\ n \in Nat
  BY DEF EntriesOK
<1> HIDE DEF e
<1>3. /\ entries' \in Seq(Entries) /\ Len(entries') = n + 1 /\ entries'[n + 1] = e
      /\ \A i \in 1 .. n : entries'[i] = entries[i]
  <2> DEFINE X == Entries
  <2>1. entries \in Seq(X) /\ e \in X /\ entries' = Append(entries, e)
    BY <1>1, <1>2 DEF e
  <2> HIDE DEF X
  <2>2. /\ entries' \in Seq(X) /\ Len(entries') = Len(entries) + 1
        /\ entries'[Len(entries) + 1] = e
        /\ \A i \in 1 .. Len(entries) : entries'[i] = entries[i]
    BY <2>1, AppendProperties
  <2> QED BY <1>0, <2>2 DEF X
<1>4. n > 0 => pre_key = K(n) /\ entries # <<>>
  BY <1>0, <1>2 DEF EntriesOK
<1>5. entries = <<>> <=> n = 0
  BY <1>0, <1>2
<1>6. \A i \in 1 .. n : K(i)' = K(i)
  BY <1>3 DEF K
<1>7. K(n + 1)' = k
  BY <1>1, <1>3 DEF K
<1>8. \A i \in 1 .. n : EntryOK(i)'
  <2> SUFFICES ASSUME NEW i \in 1 .. n PROVE EntryOK(i)'
    OBVIOUS
  <2>1. EntryOK(i) /\ K(i)' = K(i) /\ entries'[i] = entries[i]
    BY <1>0, <1>3, <1>6 DEF EntriesOK
  <2>2. i > 1 => i - 1 \in 1 .. n /\ K(i - 1)' = K(i - 1)
    BY <1>2, <1>6
  <2> QED BY <2>1, <2>2 DEF EntryOK
<1>9. EntryOK(n + 1)'
  <2>1. s > 0 => n \in 1 .. n /\ K(n)' = pre_key /\ n + 1 > 1 /\ (n + 1) - 1 = n
    BY <1>2, <1>4, <1>5, <1>6
  <2> QED BY <1>1, <1>3, <1>7, <2>1 DEF EntryOK
<1>10. \A i \in 1 .. n : Less(K(i), k)
  <2> SUFFICES ASSUME NEW i \in 1 .. n PROVE Less(K(i), k)
    OBVIOUS
  <2>1. n \in 1 .. n /\ pre_key = K(n)
    BY <1>2, <1>4
  <2>2. K(i) \in Seq(Bytes) /\ K(n) \in Seq(Bytes) /\ k \in Seq(Bytes)
    <3>1. entries[i] \in Entries /\ entries[n] \in Entries
      BY <1>0, <1>2, <2>1, ElementOfSeq
    <3> QED BY <3>1, KeyStrings DEF Entries, K
  <2>3. CASE i = n
    BY <2>1, <2>3
  <2>4. CASE i < n
    <3>1. Less(K(i), K(n))
      BY <1>0, <2>1, <2>4 DEF EntriesOK
    <3> QED BY <2>1, <2>2, <3>1, LessTransitive
  <2> QED BY <1>2, <2>3, <2>4
<1>11. \A i, j \in 1 .. n + 1 : i < j => Less(K(i)', K(j)')
  <2> SUFFICES ASSUME NEW i \in 1 .. n + 1, NEW j \in 1 .. n + 1, i < j
               PROVE  Less(K(i)', K(j)')
    OBVIOUS
  <2>1. i \in 1 .. n
    BY <1>2
  <2>2. CASE j = n + 1
    BY <1>6, <1>7, <1>10, <2>1, <2>2
  <2>3. CASE j # n + 1
    <3>1. j \in 1 .. n
      BY <1>2, <2>3
    <3> QED BY <1>0, <1>6, <2>1, <3>1 DEF EntriesOK
  <2> QED BY <2>2, <2>3
<1>12. pre_key' = (IF entries = <<>> THEN <<>> ELSE K(Len(entries)))'
  <2>1. entries' # <<>> /\ Len(entries') = n + 1
    BY <1>2, <1>3
  <2> QED BY <1>7, <2>1
<1>13. \A i \in 1 .. Len(entries') : EntryOK(i)'
  <2>1. \A i \in 1 .. n + 1 : i \in 1 .. n \/ i = n + 1
    BY <1>2
  <2> QED BY <1>3, <1>8, <1>9, <2>1
<1>14. \A i, j \in 1 .. Len(entries') : i < j => Less(K(i)', K(j)')
  BY <1>3, <1>11
<1>15. EntriesOK'
  BY <1>3, <1>12, <1>13, <1>14 DEF EntriesOK
<1> QED BY <1>0, <1>1, <1>3, <1>15

\* The builder keeps its invariant.
LEMMA AddKeeps ==
    ASSUME BlockIInv, NEW k \in Keys, Add(k)
    PROVE  BlockIInv' /\ Len(entries') = Len(entries) + 1
<1> DEFINE n == Len(entries)
<1>1. /\ Less(pre_key, k) /\ pre_key' = k /\ interval' = interval
      /\ AddRestart(k) \/ AddShared(k)
  BY DEF Add
<1>2. /\ EntriesOK /\ RestartsOK /\ interval \in Nat \ {0} /\ counter \in 0 .. interval
      /\ (entries = <<>> => counter = 0) /\ entries \in Seq(Entries) /\ n \in Nat
      /\ restarts \in Seq(Nat) /\ Len(restarts) \in Nat \ {0}
  BY DEF BlockIInv, EntriesOK, RestartsOK
<1>3. k \in Seq(Bytes) /\ Len(k) \in Nat
  BY KeyStrings
<1>4. pre_key \in Seq(Bytes) /\ (entries = <<>> => pre_key = <<>>)
  <2>1. entries # <<>> => Len(entries) \in 1 .. Len(entries)
    BY <1>2
  <2>2. entries # <<>> => K(Len(entries)) \in Seq(Bytes)
    <3>1. entries # <<>> => entries[Len(entries)] \in Entries
      BY <1>2, <2>1, ElementOfSeq
    <3> QED BY <3>1, KeyStrings DEF Entries, K
  <2> QED BY <1>2, <2>2 DEF EntriesOK
<1>5. CASE AddRestart(k)
  <2>1. /\ counter >= interval /\ restarts' = Append(restarts, n) /\ counter' = 1
        /\ entries' = Append(entries, EntryOf(k, 0))
    BY <1>5 DEF AddRestart
  <2>2. 0 \in 0 .. Len(k) /\ ~ (0 > 0)
    BY <1>3
  <2>3. /\ EntriesOK' /\ Len(entries') = n + 1 /\ entries'[n + 1].shared = 0
        /\ \A i \in 1 .. n : entries'[i] = entries[i]
    BY <1>1, <1>2, <2>1, <2>2, EntryAdded
  <2>4. n > 0 /\ entries # <<>>
    BY <1>2, <2>1
  <2> HIDE DEF n
  <2> DEFINE m == Len(restarts)
  <2>5. /\ restarts' \in Seq(Nat) /\ Len(restarts') = m + 1 /\ restarts'[m + 1] = n
        /\ \A i \in 1 .. m : restarts'[i] = restarts[i]
    BY <1>2, <2>1, AppendProperties
  <2>6. \A i \in 1 .. m : restarts[i] \in Nat /\ restarts[i] < n /\ entries[restarts[i] + 1].shared = 0
    BY <1>2, <2>4 DEF RestartsOK, n
  <2>7. restarts[1] = 0 /\ \A i, j \in 1 .. m : i < j => restarts[i] < restarts[j]
    BY <1>2 DEF RestartsOK
  <2>8. m \in Nat \ {0}
    BY <1>2
  <2> HIDE DEF m
  <2>9. restarts' # <<>> /\ restarts'[1] = 0
    BY <2>5, <2>7, <2>8
  <2>10. \A i, j \in 1 .. m + 1 : i < j => restarts'[i] < restarts'[j]
    <3> SUFFICES ASSUME NEW i \in 1 .. m + 1, NEW j \in 1 .. m + 1, i < j
                 PROVE  restarts'[i] < restarts'[j]
      OBVIOUS
    <3>1. i \in 1 .. m /\ (j \in 1 .. m \/ j = m + 1)
      BY <2>8
    <3> QED BY <2>5, <2>6, <2>7, <3>1
  <2>11. \A i \in 1 .. m + 1 : restarts'[i] < n + 1 /\ entries'[restarts'[i] + 1].shared = 0
    <3> SUFFICES ASSUME NEW i \in 1 .. m + 1
                 PROVE  restarts'[i] < n + 1 /\ entries'[restarts'[i] + 1].shared = 0
      OBVIOUS
    <3>1. CASE i = m + 1
      BY <1>2, <2>3, <2>5, <3>1
    <3>2. CASE i # m + 1
      <4>1. i \in 1 .. m
        BY <2>8, <3>2
      <4>2. restarts[i] + 1 \in 1 .. n /\ restarts[i] < n + 1
        BY <1>2, <2>6, <4>1
      <4> QED BY <2>3, <2>5, <2>6, <4>1, <4>2
    <3> QED BY <3>1, <3>2
  <2>12. RestartsOK'
    BY <2>3, <2>5, <2>9, <2>10, <2>11 DEF RestartsOK
  <2>13. entries' # <<>> /\ counter' \in 0 .. interval'
    BY <1>1, <1>2, <2>1, <2>3
  <2> QED BY <1>1, <1>2, <2>3, <2>12, <2>13 DEF BlockIInv, n
<1>6. CASE AddShared(k)
  <2> DEFINE s == CommonLen(pre_key, k)
  <2>1. /\ counter < interval /\ restarts' = restarts /\ counter' = counter + 1
        /\ entries' = Append(entries, EntryOf(k, s))
    BY <1>6 DEF AddShared
  <2>2. s \in 0 .. Len(pre_key) /\ s <= Len(k) /\ \A i \in 1 .. s : pre_key[i] = k[i]
    BY <1>1, <1>3, <1>4, SharedPrefix
  <2> HIDE DEF s
  <2>3. Len(pre_key) \in Nat /\ (entries = <<>> => Len(pre_key) = 0)
    BY <1>4
  <2>4. s \in 0 .. Len(k) /\ (s > 0 => entries # <<>>) /\ s <= Len(pre_key) /\ (entries = <<>> => s = 0)
    BY <1>3, <2>2, <2>3
  <2>5. /\ EntriesOK' /\ Len(entries') = n + 1 /\ entries'[n + 1].shared = s
        /\ \A i \in 1 .. n : entries'[i] = entries[i]
    BY <1>1, <1>2, <2>1, <2>2, <2>4, EntryAdded
  <2>6. entries = <<>> => n = 0 /\ s = 0
    BY <2>4
  <2> HIDE DEF n
  <2>7. ASSUME NEW i \in 1 .. Len(restarts)
        PROVE  restarts[i] < n + 1 /\ entries'[restarts[i] + 1].shared = 0
    <3>1. restarts[i] \in Nat
      BY <1>2
    <3>2. CASE restarts[i] < n
      <4>1. restarts[i] + 1 \in 1 .. n /\ restarts[i] < n + 1
        BY <1>2, <3>1, <3>2
      <4>2. entries[restarts[i] + 1].shared = 0
        BY <1>2, <3>2 DEF RestartsOK, n
      <4> QED BY <2>5, <4>1, <4>2
    <3>3. CASE ~ (restarts[i] < n)
      <4>1. i = 1 /\ entries = <<>> /\ restarts[1] = 0
        BY <1>2, <3>3 DEF RestartsOK, n
      <4> QED BY <2>5, <2>6, <4>1
    <3> QED BY <3>2, <3>3
  <2>8. RestartsOK'
    BY <1>2, <2>1, <2>5, <2>7 DEF RestartsOK
  <2>9. entries' # <<>> /\ counter' \in 0 .. interval'
    BY <1>1, <1>2, <2>1, <2>5
  <2> QED BY <1>1, <1>2, <2>5, <2>8, <2>9 DEF BlockIInv, n
<1> QED BY <1>1, <1>5, <1>6

-----------------------------------------------------------------------------
(* The block                                                               *)

\* A bounded set of numbers has a greatest one.
LEMMA GreatestOf ==
    ASSUME NEW m \in Nat, NEW T, T \subseteq 0 .. m, T # {}
    PROVE  Max(T) \in T /\ \A y \in T : y <= Max(T)
<1> DEFINE U == {d \in Nat : m - d \in T}
<1>1. U # {} /\ U \subseteq Nat
  <2>1. PICK y : y \in T
    OBVIOUS
  <2>2. m - y \in Nat /\ m - (m - y) = y
    BY <2>1
  <2> QED BY <2>1, <2>2
<1>2. PICK d \in U : \A y \in U : ~ (<<y, d>> \in OpToRel(<, Nat))
  <2> HIDE DEF U
  <2> QED BY <1>1, WFMin, NatLessThanWellFounded
<1>3. d \in Nat /\ m - d \in T
  BY <1>2, Zenon
<1>4. ASSUME NEW y \in T PROVE m - d >= y
  <2>1. y \in Nat /\ y <= m /\ m - y \in Nat /\ m - (m - y) = y
    OBVIOUS
  <2>2. m - y \in U
    BY <2>1
  <2>3. ~ (m - y < d)
    <3> SUFFICES ASSUME m - y < d PROVE FALSE
      OBVIOUS
    <3>1. <<m - y, d>> \in {ss \in Nat \X Nat : ss[1] < ss[2]}
      BY <1>3, <2>1
    <3>2. <<m - y, d>> \in OpToRel(<, Nat)
      BY <3>1 DEF OpToRel
    <3> HIDE DEF U
    <3> QED BY <1>2, <2>2, <3>2
  <2> QED BY <1>3, <2>1, <2>3
<1>5. Max(T) \in T /\ \A y \in T : Max(T) >= y
  BY <1>3, <1>4 DEF Max
<1> QED BY <1>5

\* Entries and restart points.
LEMMA BlockFacts ==
    ASSUME BlockIInv
    PROVE  /\ End \in Nat /\ (End = 0 <=> entries = <<>>)
           /\ \A i \in 1 .. End : /\ K(i) \in Keys /\ K(i) \in Seq(Bytes) /\ K(i) # <<>>
                                  /\ entries[i].value = K(i)
                                  /\ entries[i].shared \in Nat /\ EntryOK(i)
           /\ Len(restarts) \in Nat \ {0} /\ 0 \in Points /\ Len(restarts) - 1 \in Points
           /\ Point(0) = 0
           /\ \A i \in Points : /\ i \in Nat /\ Point(i) \in Nat
                                /\ Point(i) < End \/ (i = 0 /\ End = 0)
                                /\ Point(i) < End => entries[Point(i) + 1].shared = 0
                                /\ \A j \in Points : i < j => Point(i) < Point(j)
<1>1. /\ entries \in Seq(Entries) /\ \A i \in 1 .. Len(entries) : EntryOK(i)
  BY DEF BlockIInv, EntriesOK
<1>2. /\ restarts \in Seq(Nat) /\ restarts # <<>> /\ restarts[1] = 0
      /\ \A i, j \in 1 .. Len(restarts) : i < j => restarts[i] < restarts[j]
      /\ \A i \in 1 .. Len(restarts) :
          /\ restarts[i] < Len(entries) \/ (i = 1 /\ entries = <<>>)
          /\ restarts[i] < Len(entries) => entries[restarts[i] + 1].shared = 0
  BY DEF BlockIInv, RestartsOK
<1>3. End \in Nat /\ (End = 0 <=> entries = <<>>)
  BY <1>1 DEF End
<1>4. ASSUME NEW i \in 1 .. End
      PROVE  /\ K(i) \in Keys /\ K(i) \in Seq(Bytes) /\ K(i) # <<>>
             /\ entries[i].value = K(i) /\ entries[i].shared \in Nat /\ EntryOK(i)
  <2>1. entries[i] \in Entries
    BY <1>1, ElementOfSeq DEF End
  <2> QED BY <1>1, <2>1, KeyStrings DEF Entries, K, End
<1>5. Len(restarts) \in Nat \ {0} /\ 0 \in Points /\ Len(restarts) - 1 \in Points
  BY <1>2 DEF Points
<1>6. ASSUME NEW i \in Points
      PROVE  /\ i \in Nat /\ i + 1 \in 1 .. Len(restarts) /\ Point(i) = restarts[i + 1]
             /\ restarts[i + 1] \in Nat
  BY <1>2, <1>5 DEF Points, Point
<1>7. Point(0) = 0
  BY <1>2, <1>5, <1>6
<1>8. ASSUME NEW i \in Points
      PROVE  /\ Point(i) < End \/ (i = 0 /\ End = 0)
             /\ Point(i) < End => entries[Point(i) + 1].shared = 0
             /\ \A j \in Points : i < j => Point(i) < Point(j)
  <2>1. i \in Nat /\ i + 1 \in 1 .. Len(restarts) /\ Point(i) = restarts[i + 1]
    BY <1>6
  <2>2. Point(i) < End \/ (i = 0 /\ End = 0)
    BY <1>2, <1>3, <2>1 DEF End
  <2>3. Point(i) < End => entries[Point(i) + 1].shared = 0
    BY <1>2, <2>1 DEF End
  <2>4. ASSUME NEW j \in Points, i < j PROVE Point(i) < Point(j)
    <3>1. i + 1 < j + 1 /\ j + 1 \in 1 .. Len(restarts) /\ Point(j) = restarts[j + 1]
      BY <1>6, <2>1, <2>4
    <3> QED BY <1>2, <2>1, <3>1
  <2> QED BY <2>2, <2>3, <2>4
<1> QED BY <1>3, <1>4, <1>5, <1>6, <1>7, <1>8

\* The shared prefix of the key before and the rest are the key.
LEMMA Rebuilt ==
    ASSUME BlockIInv, NEW i \in 1 .. End, NEW key \in Seq(Bytes),
           \/ key = <<>> /\ entries[i].shared = 0
           \/ i > 1 /\ key = K(i - 1)
    PROVE  /\ entries[i].shared <= Len(key)
           /\ SubSeq(key, 1, entries[i].shared) \o entries[i].rest = K(i)
<1> DEFINE s == entries[i].shared
           k == K(i)
           a == SubSeq(key, 1, s)
           b == SubSeq(k, s + 1, Len(k))
<1>1. /\ k \in Seq(Bytes) /\ Len(k) \in Nat /\ s \in Nat /\ s <= Len(k)
      /\ entries[i].rest = b
      /\ s > 0 => /\ i > 1 /\ s <= Len(K(i - 1))
                  /\ \A j \in 1 .. s : K(i - 1)[j] = k[j]
  BY BlockFacts DEF EntryOK
<1>2. s <= Len(key) /\ \A j \in 1 .. s : key[j] = k[j]
  <2>1. CASE s = 0
    BY <2>1
  <2>2. CASE s # 0
    <3>1. s > 0 /\ key = K(i - 1)
      BY <1>1, <2>2
    <3> QED BY <1>1, <3>1
  <2> QED BY <2>1, <2>2
<1> HIDE DEF s, k
<1>3. a \in Seq(Bytes) /\ Len(a) = s /\ \A j \in 1 .. s : a[j] = k[j]
  <2>1. Len(key) \in Nat /\ \A j \in 1 .. s : key[j] \in Bytes
    BY <1>1, <1>2
  <2>2. /\ a \in Seq(Bytes) /\ Len(a) = IF 1 <= s THEN s - 1 + 1 ELSE 0
        /\ \A j \in 1 .. s - 1 + 1 : a[j] = key[1 + j - 1]
    BY <1>1, <1>2, <2>1, SubSeqProperties
  <2> QED BY <1>1, <1>2, <2>2
<1>4. b \in Seq(Bytes) /\ Len(b) = Len(k) - s /\ \A j \in 1 .. Len(k) - s : b[j] = k[s + j]
  <2>1. \A j \in s + 1 .. Len(k) : k[j] \in Bytes
    BY <1>1
  <2>2. /\ b \in Seq(Bytes) /\ Len(b) = IF s + 1 <= Len(k) THEN Len(k) - (s + 1) + 1 ELSE 0
        /\ \A j \in 1 .. Len(k) - (s + 1) + 1 : b[j] = k[(s + 1) + j - 1]
    BY <1>1, <2>1, SubSeqProperties
  <2> QED BY <1>1, <2>2
<1> HIDE DEF a, b
<1>5. /\ a \o b \in Seq(Bytes) /\ Len(a \o b) = Len(k)
      /\ \A j \in 1 .. Len(k) : (a \o b)[j] = k[j]
  <2>1. /\ a \o b \in Seq(Bytes) /\ Len(a \o b) = Len(a) + Len(b)
        /\ \A j \in 1 .. Len(a) + Len(b) : (a \o b)[j] = IF j <= Len(a) THEN a[j] ELSE b[j - Len(a)]
    BY <1>3, <1>4, ConcatProperties
  <2>2. ASSUME NEW j \in 1 .. Len(k) PROVE (a \o b)[j] = k[j]
    <3>1. CASE j <= s
      BY <1>1, <1>3, <1>4, <2>1, <3>1
    <3>2. CASE ~ (j <= s)
      <4>1. j - s \in 1 .. Len(k) - s /\ s + (j - s) = j
        BY <1>1, <3>2
      <4> QED BY <1>1, <1>3, <1>4, <2>1, <3>2, <4>1
    <3> QED BY <3>1, <3>2
  <2> QED BY <1>1, <1>3, <1>4, <2>1, <2>2
<1>6. a \o b = k
  BY <1>1, <1>5, SeqEqual
<1> QED BY <1>1, <1>2, <1>6 DEF s, k, a, b

-----------------------------------------------------------------------------
(* The iterator                                                            *)

\* Where the loop over the restart points stops.
LEMMA RestartIndexMoves ==
    ASSUME BlockIInv, NEW c \in Nat, it.restart_index \in Points, Point(it.restart_index) <= c
    PROVE  /\ RestartIndexAt(c) \in Points /\ Point(RestartIndexAt(c)) <= c
           /\ \A i \in Points : i > RestartIndexAt(c) => Point(i) >= c
<1> DEFINE ri == it.restart_index
           Passed(i) == i > ri /\ \A j \in ri + 1 .. i : Point(j) < c
           T == {ri} \cup {i \in Points : Passed(i)}
           r == RestartIndexAt(c)
<1>1. r = Max(T)
  BY DEF RestartIndexAt
<1>2. /\ Len(restarts) \in Nat \ {0} /\ Points = 0 .. Len(restarts) - 1
      /\ ri \in Points /\ Point(ri) <= c
      /\ \A i \in Points : /\ i \in Nat /\ Point(i) \in Nat
                           /\ \A j \in Points : i < j => Point(i) < Point(j)
  BY BlockFacts DEF Points
<1> HIDE DEF r, ri
<1>3. r \in T /\ \A y \in T : y <= r
  <2> DEFINE m == Len(restarts) - 1
  <2>1. m \in Nat /\ T \subseteq 0 .. m /\ T # {}
    BY <1>2
  <2> HIDE DEF m, T
  <2>2. Max(T) \in T /\ \A y \in T : y <= Max(T)
    BY <2>1, GreatestOf
  <2> QED BY <1>1, <2>2
<1>4. r \in Points /\ Point(r) <= c /\ r >= ri
  <2>1. CASE r = ri
    BY <1>2, <2>1
  <2>2. CASE r # ri
    <3>1. r \in Points /\ Passed(r)
      BY <1>3, <2>2
    <3>2. r \in ri + 1 .. r
      BY <1>2, <3>1
    <3> QED BY <1>2, <3>1, <3>2
  <2> QED BY <2>1, <2>2
<1>5. ASSUME NEW i \in Points, i > r PROVE Point(i) >= c
  <2>1. ~ Passed(i)
    BY <1>2, <1>3, <1>4, <1>5
  <2>2. i > ri /\ i \in Nat /\ ri \in Nat
    BY <1>2, <1>4, <1>5
  <2>3. PICK j \in ri + 1 .. i : ~ (Point(j) < c)
    BY <2>1, <2>2
  <2>4. j \in Points /\ (j < i \/ j = i)
    BY <1>2, <2>2, <2>3
  <2> QED BY <1>2, <2>3, <2>4
<1> QED BY <1>4, <1>5 DEF r

\* A call of ParseNextKey: the end of the block, or the next entry; what the
\* builder wrote is never taken for a corruption.
LEMMA ParseResult ==
    ASSUME BlockIInv, IterIInv, pc = "parse"
    PROVE  /\ it.offset >= End => ParseNextKey = Invalid
           /\ it.offset < End =>
                /\ ParseNextKey \in Iterators
                /\ ParseNextKey.current = it.offset
                /\ ParseNextKey.restart_index = RestartIndexAt(it.offset)
                /\ ParseNextKey.key = K(it.offset + 1)
                /\ ParseNextKey.value = K(it.offset + 1)
                /\ ParseNextKey.offset = it.offset + 1
<1>1. it \in Iterators /\ KeyOK
  BY DEF IterIInv
<1>2. End \in Nat
  BY BlockFacts
<1>3. it.offset >= End => ParseNextKey = Invalid
  BY DEF ParseNextKey
<1>4. CASE it.offset < End
  <2> DEFINE i == it.offset + 1
             e == entries[i]
             r == RestartIndexAt(it.offset)
  <2>1. i \in 1 .. End /\ i - 1 = it.offset /\ it.key \in Seq(Bytes) /\ it.offset \in Nat
    BY <1>1, <1>2, <1>4 DEF Iterators
  <2>2. \/ it.key = <<>> /\ e.shared = 0
        \/ i > 1 /\ it.key = K(i - 1)
    BY <1>1, <1>4, <2>1 DEF KeyOK
  <2>3. /\ e.shared <= Len(it.key) /\ e.value = K(i) /\ K(i) \in Seq(Bytes)
        /\ SubSeq(it.key, 1, e.shared) \o e.rest = K(i) /\ e.shared \in Nat
    BY <2>1, <2>2, Rebuilt, BlockFacts
  <2>4. ~ (it.offset >= End) /\ ~ (Len(it.key) < e.shared)
    BY <1>1, <1>2, <1>4, <2>1, <2>3
  <2>5. DecodeEntry(it.offset) = e
    BY DEF DecodeEntry
  <2>6. ParseNextKey = ParseEntry
    BY <2>4, <2>5 DEF ParseNextKey
  <2>7. r \in Nat
    <3>1. it.restart_index \in Points /\ Point(it.restart_index) <= it.offset
      BY DEF IterIInv
    <3> QED BY <2>1, <3>1, RestartIndexMoves, BlockFacts
  <2> DEFINE k == K(i)
  <2> HIDE DEF e, r, k
  <2>8. ParseEntry = [it EXCEPT !.current = it.offset, !.restart_index = r,
                                !.key = k, !.value = k, !.offset = i]
    BY <2>3, <2>5 DEF ParseEntry, r, k
  <2>9. k \in Seq(Bytes) /\ i \in Nat
    BY <2>1, <2>3 DEF k
  <2> HIDE DEF i
  <2>10. /\ ParseEntry \in Iterators /\ ParseEntry.current = it.offset
         /\ ParseEntry.restart_index = r /\ ParseEntry.key = k /\ ParseEntry.value = k
         /\ ParseEntry.offset = i
    <3> HIDE DEF Bytes
    <3> QED BY <1>1, <2>1, <2>7, <2>8, <2>9 DEF Iterators
  <2> QED BY <2>4, <2>6, <2>10 DEF i, r, k
<1> QED BY <1>3, <1>4

\* The iterator at a restart point.
LEMMA AtRestartFacts ==
    ASSUME BlockIInv, IterIInv, NEW i \in Points
    PROVE  /\ AtRestart(i) \in Iterators /\ AtRestart(i).current = it.current
           /\ AtRestart(i).restart_index = i /\ AtRestart(i).key = <<>>
           /\ AtRestart(i).offset = Point(i)
<1> DEFINE p == Point(i)
<1>1. it \in Iterators /\ i \in Nat /\ p \in Nat /\ <<>> \in Seq(Bytes)
  BY BlockFacts DEF IterIInv
<1>2. AtRestart(i) = [it EXCEPT !.key = <<>>, !.value = <<>>, !.restart_index = i, !.offset = p]
  BY DEF AtRestart
<1> HIDE DEF p, Bytes
<1>3. /\ AtRestart(i) \in Iterators /\ AtRestart(i).current = it.current
      /\ AtRestart(i).restart_index = i /\ AtRestart(i).key = <<>> /\ AtRestart(i).offset = p
  BY <1>1, <1>2 DEF Iterators
<1> QED BY <1>3 DEF p

\* The iterator behind the last entry.
LEMMA InvalidFacts ==
    ASSUME BlockIInv, IterIInv
    PROVE  /\ Invalid \in Iterators /\ Invalid.current = End
           /\ Invalid.key = it.key /\ Invalid.offset = it.offset
<1> DEFINE p == End
           l == Len(restarts)
<1>1. it \in Iterators /\ p \in Nat /\ l \in Nat
  BY BlockFacts DEF IterIInv
<1>2. Invalid = [it EXCEPT !.current = p, !.restart_index = l]
  BY DEF Invalid
<1> HIDE DEF p, l, Bytes
<1>3. Invalid \in Iterators /\ Invalid.current = p /\ Invalid.key = it.key /\ Invalid.offset = it.offset
  BY <1>1, <1>2 DEF Iterators
<1> QED BY <1>3 DEF p

\* The block does not change under its iterator.
LEMMA SameBlock ==
    ASSUME BlockIInv, UNCHANGED block_vars
    PROVE  /\ BlockIInv' /\ End' = End /\ Points' = Points /\ entries' = entries
           /\ \A i : K(i)' = K(i) /\ Point(i)' = Point(i)
<1>1. /\ entries' = entries /\ restarts' = restarts /\ interval' = interval
      /\ counter' = counter /\ pre_key' = pre_key
  BY DEF block_vars
<1>2. BlockIInv'
  BY <1>1 DEF BlockIInv, EntriesOK, EntryOK, K, RestartsOK
<1> QED BY <1>1, <1>2 DEF End, Points, K, Point

\* From a restart point the next entry can be rebuilt.
LEMMA RestartKeepsIter ==
    ASSUME BlockIInv, IterIInv, UNCHANGED block_vars, NEW i \in Points, it' = AtRestart(i),
           pc' = "parse"
    PROVE  IterIInv'
<1>1. /\ End' = End /\ Points' = Points /\ entries' = entries
      /\ \A j : K(j)' = K(j) /\ Point(j)' = Point(j)
  BY SameBlock
<1>2. /\ it' \in Iterators /\ it'.current = it.current /\ it'.restart_index = i
      /\ it'.key = <<>> /\ it'.offset = Point(i)
  BY AtRestartFacts
<1>3. /\ End \in Nat /\ i \in Nat /\ Point(i) \in Nat /\ Point(i) <= End
      /\ Point(i) < End => entries[Point(i) + 1].shared = 0
  BY BlockFacts
<1>4. it.current <= End
  BY DEF IterIInv
<1>5. KeyOK'
  BY <1>1, <1>2, <1>3 DEF KeyOK
<1>6. /\ it' \in Iterators /\ it'.current <= End' /\ it'.offset <= End'
      /\ it'.restart_index \in Points' /\ Point(it'.restart_index) <= it'.offset
  BY <1>1, <1>2, <1>3, <1>4
<1>7. Point(it.restart_index)' <= it'.offset
  BY <1>1, <1>6
<1> QED BY <1>5, <1>6, <1>7 DEF IterIInv, Iterators

\* An iterator that stays where it is.
LEMMA SameIter ==
    ASSUME BlockIInv, IterIInv, UNCHANGED <<block_vars, it>>, pc \notin {"build", "parse"},
           pc' \notin {"build", "parse"}
    PROVE  IterIInv'
<1>1. /\ End' = End /\ Points' = Points /\ entries' = entries /\ it' = it
      /\ \A j : K(j)' = K(j) /\ Point(j)' = Point(j)
  BY SameBlock
<1>2. /\ it \in Iterators /\ it.current <= End /\ it.offset <= End /\ KeyOK /\ Settled
  BY DEF IterIInv
<1>3. KeyOK'
  BY <1>1, <1>2 DEF KeyOK
<1>4. Settled'
  BY <1>1, <1>2 DEF Settled, Valid
<1> QED BY <1>1, <1>2, <1>3, <1>4 DEF IterIInv, Iterators

-----------------------------------------------------------------------------
(* Every step keeps the invariant                                          *)

\* The initial states.
LEMMA InitIInv == Init => IInv
<1> SUFFICES ASSUME Init PROVE IInv
  OBVIOUS
<1>1. /\ interval \in Nat \ {0} /\ entries = <<>> /\ restarts = <<0>> /\ counter = 0
      /\ pre_key = <<>> /\ op = NoOp /\ pc = "build" /\ original = 0 /\ left = 0 /\ right = 0
      /\ it = [current |-> 0, restart_index |-> 0, key |-> <<>>, value |-> <<>>,
               offset |-> 0, status |-> "success"]
  BY DEF Init
<1>2. EntriesOK
  BY <1>1 DEF EntriesOK
<1>3. RestartsOK
  BY <1>1 DEF RestartsOK
<1>4. BlockIInv
  BY <1>1, <1>2, <1>3 DEF BlockIInv
<1>5. /\ it.current = 0 /\ it.offset = 0 /\ it.key = <<>> /\ End = 0
      /\ it \in Iterators
  BY <1>1 DEF End, Iterators
<1>6. IterIInv
  BY <1>1, <1>5 DEF IterIInv, KeyOK
<1>7. OpIInv
  BY <1>1 DEF OpIInv, NoOp, Points
<1>8. SearchIInv
  BY <1>1 DEF SearchIInv
<1> QED BY <1>4, <1>6, <1>7, <1>8 DEF IInv

\* An entry is added.
LEMMA AddStep == ASSUME IInv, NEW k \in Keys, Add(k) PROVE IInv'
<1>1. BlockIInv /\ IterIInv /\ OpIInv /\ SearchIInv
  BY DEF IInv
<1>2. BlockIInv' /\ Len(entries') = Len(entries) + 1
  BY <1>1, AddKeeps
<1>3. /\ pc = "build" /\ pc' = pc /\ it' = it /\ op' = op /\ left' = left /\ right' = right
      /\ original' = original
      /\ AddRestart(k) \/ AddShared(k)
  BY DEF Add, local_vars
<1>4. Points \subseteq Points'
  <2>1. Len(restarts') \in {Len(restarts), Len(restarts) + 1}
    BY <1>1, <1>3 DEF AddRestart, AddShared, BlockIInv, RestartsOK
  <2>2. Len(restarts) \in Nat
    BY <1>1, BlockFacts
  <2> QED BY <2>1, <2>2 DEF Points
<1>5. entries'[1].shared = 0
  <2>1. 1 \in 1 .. Len(restarts') /\ restarts'[1] = 0 /\ entries' # <<>> /\ Len(entries') > 0
    BY <1>2, <1>1, BlockFacts DEF BlockIInv, RestartsOK, End
  <2>2. restarts'[1] < Len(entries')
    BY <2>1
  <2>3. entries'[restarts'[1] + 1].shared = 0
    BY <1>2, <2>1, <2>2 DEF BlockIInv, RestartsOK
  <2> QED BY <2>1, <2>3
<1>6. /\ it \in Iterators /\ it.current = 0 /\ it.offset = 0 /\ it.key = <<>>
  BY <1>1, <1>3 DEF IterIInv
<1>7. KeyOK'
  BY <1>3, <1>5, <1>6 DEF KeyOK
<1>8. End' \in Nat
  BY <1>1, <1>2, BlockFacts DEF End
<1>9. IterIInv'
  BY <1>3, <1>6, <1>7, <1>8 DEF IterIInv, Iterators
<1>10. OpIInv'
  BY <1>1, <1>3, <1>4 DEF OpIInv
<1>11. SearchIInv'
  BY <1>3 DEF SearchIInv
<1> QED BY <1>2, <1>9, <1>10, <1>11 DEF IInv

\* The block is finished.
LEMMA FinishStep == ASSUME IInv, Finish PROVE IInv'
<1>1. BlockIInv /\ IterIInv /\ OpIInv /\ SearchIInv
  BY DEF IInv
<1>2. /\ pc = "build" /\ pc' = "ready" /\ it' = NewIterator /\ UNCHANGED block_vars
      /\ op' = op /\ left' = left /\ right' = right /\ original' = original
  BY DEF Finish, local_vars
<1>3. /\ BlockIInv' /\ End' = End /\ Points' = Points /\ entries' = entries
      /\ \A j : K(j)' = K(j) /\ Point(j)' = Point(j)
  BY <1>1, <1>2, SameBlock
<1>4. /\ End \in Nat /\ Len(restarts) \in Nat /\ Point(0) = 0 /\ 0 \in Points
      /\ Point(0) < End => entries[Point(0) + 1].shared = 0
  BY <1>1, BlockFacts
<1>5. /\ it' \in Iterators /\ it'.current = End /\ it'.key = <<>> /\ it'.offset = 0
  BY <1>2, <1>4 DEF NewIterator, Iterators, End
<1>6. KeyOK'
  BY <1>3, <1>4, <1>5 DEF KeyOK
<1>7. Settled'
  BY <1>3, <1>4, <1>5 DEF Settled, Valid
<1>8. IterIInv'
  BY <1>2, <1>3, <1>4, <1>5, <1>6, <1>7 DEF IterIInv, Iterators
<1>9. OpIInv'
  BY <1>1, <1>2, <1>3 DEF OpIInv
<1>10. SearchIInv'
  BY <1>2 DEF SearchIInv
<1> QED BY <1>3, <1>8, <1>9, <1>10 DEF IInv

\* A call.
LEMMA CallStep ==
    ASSUME IInv, NEW name \in {"first", "last", "next", "prev", "seek"}, NEW target \in Seq(Bytes),
           Call(name, target), name \in {"next", "prev"} => Valid
    PROVE  IInv'
<1>1. BlockIInv /\ IterIInv /\ OpIInv /\ SearchIInv
  BY DEF IInv
<1>2. /\ pc = "ready" /\ pc' = name /\ UNCHANGED <<block_vars, it>>
      /\ op' = [op |-> name, target |-> target]
      /\ origin' = (IF Valid THEN it.key ELSE <<>>)
      /\ left' = left /\ right' = right /\ original' = original
  BY DEF Call, local_vars
<1>3. /\ BlockIInv' /\ End' = End /\ Points' = Points /\ entries' = entries
      /\ \A j : K(j)' = K(j) /\ Point(j)' = Point(j)
  BY <1>1, <1>2, SameBlock
<1>4. IterIInv'
  BY <1>1, <1>2, SameIter
<1>5. OpIInv'
  <2>1. op' \in [op : {"none", "first", "last", "next", "prev", "seek"}, target : Seq(Bytes)]
    BY <1>2
  <2>2. op'.op = name /\ op' # NoOp
    BY <1>2 DEF NoOp
  <2>3. /\ pc' \in {"build", "ready", "first", "last", "next", "prev", "seek", "search", "parse"}
        /\ pc' \notin {"build", "ready", "search", "parse"} /\ op'.op = pc'
    BY <1>2, <2>2
  <2>4. left' \in Points' /\ right' \in Points' /\ original' \in Nat
    BY <1>1, <1>2, <1>3 DEF OpIInv
  <2> QED BY <2>1, <2>2, <2>3, <2>4 DEF OpIInv
<1>6. SearchIInv'
  <2>1. name \in {"next", "prev"} => it.key = K(it.current + 1)
    BY <1>1, <1>2 DEF IterIInv, Settled
  <2>2. name \in {"next", "prev"} => Valid' /\ origin' = K(it'.current + 1)
    BY <1>2, <1>3, <2>1 DEF Valid
  <2>3. pc' \in {"next", "prev"} => Valid' /\ origin' = K(it.current + 1)'
    BY <1>2, <1>3, <2>2
  <2> QED BY <1>2, <2>3 DEF SearchIInv
<1> QED BY <1>3, <1>4, <1>5, <1>6 DEF IInv

\* An operation goes to a restart point and will parse from there.
LEMMA RestartStep ==
    ASSUME IInv, UNCHANGED block_vars, NEW i \in Points, it' = AtRestart(i), op' = op,
           op.op # "none", pc' = "parse", left' = left, right' = right, original' \in Nat
    PROVE  /\ BlockIInv' /\ IterIInv' /\ OpIInv' /\ it'.offset = Point(i)
           /\ Point(i) < End \/ (i = 0 /\ End = 0)
           /\ End' = End /\ \A j : K(j)' = K(j)
<1>1. BlockIInv /\ IterIInv /\ OpIInv
  BY DEF IInv
<1>2. /\ BlockIInv' /\ End' = End /\ Points' = Points
      /\ \A j : K(j)' = K(j) /\ Point(j)' = Point(j)
  BY <1>1, SameBlock
<1>3. IterIInv'
  BY <1>1, RestartKeepsIter
<1>4. op # NoOp
  BY DEF NoOp
<1>5. OpIInv'
  BY <1>1, <1>2, <1>4 DEF OpIInv
<1> QED BY <1>1, <1>2, <1>3, <1>5, AtRestartFacts, BlockFacts

\* SeekToFirst goes to the first restart point.
LEMMA SeekToFirstStep == ASSUME IInv, SeekToFirst PROVE IInv'
<1>1. BlockIInv /\ IterIInv /\ OpIInv /\ SearchIInv
  BY DEF IInv
<1>2. /\ pc = "first" /\ pc' = "parse" /\ it' = AtRestart(0) /\ UNCHANGED block_vars
      /\ op' = op /\ left' = left /\ right' = right /\ original' = original
  BY DEF SeekToFirst, local_vars
<1>3. op.op = "first" /\ original \in Nat /\ 0 \in Points /\ Point(0) = 0
  BY <1>1, <1>2, BlockFacts DEF OpIInv
<1>4. BlockIInv' /\ IterIInv' /\ OpIInv' /\ it'.offset = Point(0)
  BY <1>2, <1>3, RestartStep
<1>5. SearchIInv'
  BY <1>2, <1>3, <1>4 DEF SearchIInv
<1> QED BY <1>4, <1>5 DEF IInv

\* SeekToLast goes to the last one.
LEMMA SeekToLastStep == ASSUME IInv, SeekToLast PROVE IInv'
<1>1. BlockIInv /\ IterIInv /\ OpIInv /\ SearchIInv
  BY DEF IInv
<1> DEFINE l == Len(restarts) - 1
<1>2. /\ pc = "last" /\ pc' = "parse" /\ it' = AtRestart(l) /\ UNCHANGED block_vars
      /\ op' = op /\ left' = left /\ right' = right /\ original' = original
  BY DEF SeekToLast, local_vars
<1>3. op.op = "last" /\ original \in Nat /\ l \in Points
  BY <1>1, <1>2, BlockFacts DEF OpIInv
<1> HIDE DEF l
<1>4. /\ BlockIInv' /\ IterIInv' /\ OpIInv' /\ it'.offset = Point(l)
      /\ Point(l) < End \/ (l = 0 /\ End = 0)
      /\ End' = End
  BY <1>2, <1>3, RestartStep
<1>5. it'.offset < End' \/ End' = 0
  BY <1>4
<1>6. SearchIInv'
  BY <1>2, <1>3, <1>5 DEF SearchIInv
<1> QED BY <1>4, <1>6 DEF IInv

\* Next parses the entry after the current one.
LEMMA NextStepStep == ASSUME IInv, NextStep PROVE IInv'
<1>1. BlockIInv /\ IterIInv /\ OpIInv /\ SearchIInv
  BY DEF IInv
<1>2. /\ pc = "next" /\ pc' = "parse" /\ it' = it /\ UNCHANGED block_vars
      /\ op' = op /\ left' = left /\ right' = right /\ original' = original /\ origin' = origin
  BY DEF NextStep, local_vars
<1>3. /\ BlockIInv' /\ End' = End /\ Points' = Points /\ entries' = entries
      /\ \A j : K(j)' = K(j) /\ Point(j)' = Point(j)
  BY <1>1, <1>2, SameBlock
<1>4. op.op = "next" /\ op # NoOp /\ Valid /\ origin = K(it.current + 1)
  BY <1>1, <1>2 DEF OpIInv, SearchIInv, NoOp
<1>5. /\ it \in Iterators /\ it.current <= End /\ it.offset <= End /\ KeyOK
      /\ it.offset = it.current + 1 /\ it.restart_index \in Points
      /\ Point(it.restart_index) <= it.current /\ Point(it.restart_index) \in Nat
  BY <1>1, <1>2, <1>4, BlockFacts DEF IterIInv, Settled
<1>6. it.current \in Nat /\ Point(it.restart_index) <= it.offset
  BY <1>5 DEF Iterators
<1>7. KeyOK'
  BY <1>2, <1>3, <1>5 DEF KeyOK
<1>8. IterIInv'
  BY <1>2, <1>3, <1>5, <1>6, <1>7 DEF IterIInv, Iterators
<1>9. OpIInv'
  BY <1>1, <1>2, <1>3, <1>4 DEF OpIInv
<1>10. it.offset >= 1 /\ origin = K(it.offset)
  BY <1>4, <1>5, <1>6
<1>12. it'.offset >= 1 /\ origin' = K(it.offset)'
  BY <1>2, <1>3, <1>10 DEF K
<1>11. SearchIInv'
  BY <1>2, <1>4, <1>12 DEF SearchIInv
<1> QED BY <1>3, <1>8, <1>9, <1>11 DEF IInv

\* Prev goes back to a restart point before the current entry, or before all of them.
LEMMA PrevRestartStep == ASSUME IInv, PrevRestart PROVE IInv'
<1>1. BlockIInv /\ IterIInv /\ OpIInv /\ SearchIInv
  BY DEF IInv
<1> DEFINE B == PointsBefore(it.current)
<1>2. /\ pc = "prev" /\ UNCHANGED block_vars /\ original' = it.current
      /\ left' = left /\ right' = right /\ origin' = origin
      /\ IF B = {} THEN it' = Invalid /\ pc' = "ready" /\ op' = NoOp
                   ELSE it' = AtRestart(Max(B)) /\ pc' = "parse" /\ op' = op
  BY DEF PrevRestart, Return
<1>3. /\ BlockIInv' /\ End' = End /\ Points' = Points /\ entries' = entries
      /\ \A j : K(j)' = K(j) /\ Point(j)' = Point(j)
  BY <1>1, <1>2, SameBlock
<1>4. /\ op.op = "prev" /\ op # NoOp /\ Valid /\ origin = K(it.current + 1)
      /\ left \in Points /\ right \in Points
  BY <1>1, <1>2 DEF OpIInv, SearchIInv, NoOp
<1>5. /\ it \in Iterators /\ it.current <= End /\ it.offset <= End /\ KeyOK
      /\ it.restart_index \in Points
  BY <1>1, <1>2, <1>4 DEF IterIInv, Settled
<1>6. it.current \in Nat /\ it.current < End /\ End \in Nat
  BY <1>1, <1>4, <1>5, BlockFacts DEF Iterators, Valid
<1>7. CASE B = {}
  <2>1. it' = Invalid /\ pc' = "ready" /\ op' = NoOp
    BY <1>2, <1>7
  <2>2. it' \in Iterators /\ it'.current = End /\ it'.key = it.key /\ it'.offset = it.offset
    BY <1>1, <2>1, InvalidFacts
  <2>3. KeyOK'
    BY <1>3, <1>5, <2>2 DEF KeyOK
  <2>4. Settled'
    BY <1>3, <1>6, <2>2 DEF Settled, Valid
  <2>5. IterIInv'
    BY <1>3, <1>5, <1>6, <2>1, <2>2, <2>3, <2>4 DEF IterIInv, Iterators
  <2>6. OpIInv'
    BY <1>2, <1>3, <1>4, <1>6, <2>1 DEF OpIInv, NoOp
  <2>7. SearchIInv'
    BY <2>1 DEF SearchIInv
  <2> QED BY <1>3, <2>5, <2>6, <2>7 DEF IInv
<1>8. CASE B # {}
  <2> DEFINE r == Max(B)
  <2>1. it' = AtRestart(r) /\ pc' = "parse" /\ op' = op
    BY <1>2, <1>8
  <2>2. it.restart_index \in Nat /\ Points = 0 .. Len(restarts) - 1 /\ Len(restarts) \in Nat
    BY <1>1, <1>5, BlockFacts DEF Points
  <2>3. r \in B
    <3>1. B \subseteq 0 .. it.restart_index
      BY DEF PointsBefore
    <3> HIDE DEF B
    <3> QED BY <1>8, <2>2, <3>1, GreatestOf
  <2>4. r \in 0 .. it.restart_index /\ Point(r) < it.current
    BY <2>3 DEF PointsBefore
  <2>5. r \in Points
    BY <1>5, <2>2, <2>4
  <2> HIDE DEF r
  <2>6. BlockIInv' /\ IterIInv' /\ OpIInv' /\ it'.offset = Point(r)
    BY <1>2, <1>4, <1>6, <2>1, <2>5, RestartStep
  <2>7. it'.offset < original' /\ original' < End' /\ origin' = K(original + 1)'
    BY <1>2, <1>3, <1>4, <1>6, <2>4, <2>6
  <2>8. SearchIInv'
    BY <1>4, <2>1, <2>7 DEF SearchIInv
  <2> QED BY <2>6, <2>8 DEF IInv
<1> QED BY <1>7, <1>8

\* Seek starts with all restart points.
LEMMA SeekStartStep == ASSUME IInv, SeekStart PROVE IInv'
<1>1. BlockIInv /\ IterIInv /\ OpIInv /\ SearchIInv
  BY DEF IInv
<1>2. /\ pc = "seek" /\ pc' = "search" /\ UNCHANGED <<block_vars, it>>
      /\ op' = op /\ left' = 0 /\ right' = Len(restarts) - 1 /\ original' = original
  BY DEF SeekStart
<1>3. /\ BlockIInv' /\ End' = End /\ Points' = Points
      /\ \A j : K(j)' = K(j) /\ Point(j)' = Point(j)
  BY <1>1, <1>2, SameBlock
<1>4. IterIInv'
  BY <1>1, <1>2, SameIter
<1>5. left' \in Points' /\ right' \in Points'
  BY <1>1, <1>2, <1>3, BlockFacts
<1>6. op.op = "seek" /\ op # NoOp
  BY <1>1, <1>2 DEF OpIInv, NoOp
<1>7. OpIInv'
  BY <1>1, <1>2, <1>3, <1>5, <1>6 DEF OpIInv
<1>8. SearchIInv'
  BY <1>2 DEF SearchIInv
<1> QED BY <1>3, <1>4, <1>7, <1>8 DEF IInv

\* Between two restart points there is one in the middle, above the left one.
LEMMA MidFacts ==
    ASSUME BlockIInv, left \in Points, right \in Points, left < right
    PROVE  Mid \in Points /\ left < Mid /\ Mid <= right /\ Mid - 1 \in Points
<1>1. Points = 0 .. Len(restarts) - 1 /\ Len(restarts) \in Nat
  BY BlockFacts DEF Points
<1> QED BY <1>1 DEF Mid

\* A prefix of a string is less than it.
LEMMA PrefixIsLess ==
    ASSUME NEW a \in Seq(Bytes), NEW b \in Seq(Bytes), IsStrictPrefix(a, b)
    PROVE  Less(a, b)
<1>1. /\ Len(a) \in Nat /\ Len(b) \in Nat /\ Len(a) <= Len(b) /\ a # b
      /\ \A i \in 1 .. Len(a) : a[i] = b[i]
  <2>1. a # b /\ Len(a) <= Len(b) /\ a = SubSeq(b, 1, Len(a))
    BY DEF IsStrictPrefix, IsPrefix
  <2>2. Len(a) \in Nat /\ Len(b) \in Nat
    OBVIOUS
  <2>3. \A i \in 1 .. Len(a) : a[i] = b[i]
    <3> DEFINE n == Len(a)
    <3>1. n \in Nat /\ \A i \in 1 .. n : b[i] \in Bytes
      BY <2>1, <2>2
    <3> HIDE DEF n
    <3>2. \A i \in 1 .. n - 1 + 1 : SubSeq(b, 1, n)[i] = b[1 + i - 1]
      BY <3>1, SubSeqProperties
    <3>3. \A i \in 1 .. n : SubSeq(b, 1, n)[i] = b[i]
      BY <3>1, <3>2
    <3> QED BY <2>1, <3>3 DEF n
  <2> QED BY <2>1, <2>2, <2>3
<1>2. Len(a) # Len(b)
  BY <1>1, SeqEqual
<1>3. Len(a) + 1 \in 1 .. Len(b) /\ (Len(a) + 1) - 1 = Len(a) /\ ~ (Len(a) + 1 <= Len(a))
  BY <1>1, <1>2
<1> QED BY <1>1, <1>3 DEF Less

\* The keys before one that is less than a string are less than it.
LEMMA KeysBelow ==
    ASSUME BlockIInv, NEW n \in 1 .. End, NEW t \in Seq(Bytes), Less(K(n), t)
    PROVE  \A i \in 1 .. n : Less(K(i), t)
<1> SUFFICES ASSUME NEW i \in 1 .. n PROVE Less(K(i), t)
  OBVIOUS
<1>1. End \in Nat /\ i \in 1 .. End /\ K(i) \in Seq(Bytes) /\ K(n) \in Seq(Bytes)
  BY BlockFacts
<1>2. CASE i < n
  <2>1. Less(K(i), K(n))
    BY <1>1, <1>2 DEF BlockIInv, EntriesOK, End
  <2> QED BY <1>1, <2>1, LessTransitive
<1>3. CASE i = n
  BY <1>3
<1> QED BY <1>1, <1>2, <1>3

\* A step of the binary search: wherever the comparison reads past the key, the
\* key is less than the target.
LEMMA SearchStepStep == ASSUME IInv, SearchStep PROVE IInv'
<1>1. BlockIInv /\ IterIInv /\ OpIInv /\ SearchIInv
  BY DEF IInv
<1> DEFINE e == DecodeEntry(Point(Mid))
<1>2. pc = "search" /\ left < right /\ op.op = "seek" /\ left \in Points /\ right \in Points
      /\ op.target \in Seq(Bytes)
  BY <1>1 DEF SearchStep, OpIInv
<1>3. Mid \in Points /\ left < Mid /\ Mid <= right /\ Mid - 1 \in Points
  BY <1>1, <1>2, MidFacts
<1>4. /\ Point(Mid) < End /\ Point(Mid) \in Nat /\ End \in Nat /\ entries[Point(Mid) + 1].shared = 0
  <2>1. 0 \in Points /\ left \in Nat /\ Mid # 0
    BY <1>1, <1>2, <1>3, BlockFacts
  <2> QED BY <1>1, <1>3, <2>1, BlockFacts
<1> DEFINE n == Point(Mid) + 1
<1>5. n \in 1 .. End /\ e = entries[n] /\ e.shared = 0
  BY <1>4 DEF DecodeEntry
<1>6. e.rest = K(n) /\ K(n) \in Seq(Bytes)
  <2>1. /\ K(n) \in Seq(Bytes) /\ EntryOK(n)
    BY <1>1, <1>5, BlockFacts
  <2>2. e.rest = SubSeq(K(n), 1, Len(K(n))) /\ Len(K(n)) \in Nat
    BY <1>5, <2>1 DEF EntryOK
  <2>3. SubSeq(K(n), 1, Len(K(n))) = K(n)
    BY <2>1
  <2> QED BY <2>1, <2>2, <2>3
<1> HIDE DEF e
<1>7. /\ UNCHANGED <<block_vars, it>> /\ op' = op /\ pc' = pc /\ original' = original
      /\ \E goes_right \in SearchGoesRight(e.rest) :
            IF goes_right THEN left' = Mid /\ right' = right ELSE right' = Mid - 1 /\ left' = left
  <2>1. ~ (e.shared # 0)
    BY <1>5
  <2> QED BY <2>1 DEF SearchStep, e
<1>8. /\ BlockIInv' /\ End' = End /\ Points' = Points
      /\ \A j : K(j)' = K(j) /\ Point(j)' = Point(j)
  BY <1>1, <1>7, SameBlock
<1>9. IterIInv'
  BY <1>1, <1>2, <1>7, SameIter
<1>10. PICK goes_right \in SearchGoesRight(K(n)) :
            IF goes_right THEN left' = Mid /\ right' = right ELSE right' = Mid - 1 /\ left' = left
  BY <1>6, <1>7
<1>11. goes_right \in BOOLEAN /\ (goes_right => Less(K(n), op.target))
  <2>1. CASE IsStrictPrefix(K(n), op.target)
    <3>1. Less(K(n), op.target)
      BY <1>2, <1>6, <2>1, PrefixIsLess
    <3> QED BY <1>10, <2>1, <3>1 DEF SearchGoesRight
  <2>2. CASE ~ IsStrictPrefix(K(n), op.target)
    <3>1. goes_right = Less(K(n), op.target)
      BY <1>10, <2>2 DEF SearchGoesRight
    <3>2. Less(K(n), op.target) \in BOOLEAN
      BY DEF Less
    <3> QED BY <3>1, <3>2
  <2> QED BY <2>1, <2>2
<1>12. left' \in Points' /\ right' \in Points'
  BY <1>2, <1>3, <1>8, <1>10
<1>13. OpIInv'
  BY <1>1, <1>7, <1>12 DEF OpIInv
<1>14. left' = 0 \/ Less(K(Point(left) + 1)', op'.target)
  <2>1. CASE goes_right
    <3>1. left' = Mid /\ Less(K(n), op.target)
      BY <1>10, <1>11, <2>1
    <3>2. Point(left)' = Point(Mid)
      BY <1>7, <3>1 DEF Point, block_vars
    <3>3. K(Point(left) + 1)' = K(n)
      BY <1>7, <3>2 DEF K, block_vars
    <3> QED BY <1>7, <3>1, <3>3
  <2>2. CASE ~ goes_right
    <3>1. left' = left
      BY <1>10, <2>2
    <3>2. Point(left)' = Point(left)
      BY <1>7, <3>1 DEF Point, block_vars
    <3>3. K(Point(left) + 1)' = K(Point(left) + 1)
      BY <1>7, <3>2 DEF K, block_vars
    <3> QED BY <1>1, <1>2, <1>7, <3>1, <3>3 DEF SearchIInv
  <2> QED BY <2>1, <2>2
<1>15. (Less(K(Point(left) + 1), op.target))' <=> Less(K(Point(left) + 1)', op'.target)
  BY DEF Less
<1>16. SearchIInv'
  BY <1>2, <1>7, <1>14, <1>15 DEF SearchIInv
<1> QED BY <1>8, <1>9, <1>13, <1>16 DEF IInv

\* The search ends at a restart point, before which every key is less than the target.
LEMMA SearchDoneStep == ASSUME IInv, SearchDone PROVE IInv'
<1>1. BlockIInv /\ IterIInv /\ OpIInv /\ SearchIInv
  BY DEF IInv
<1>2. /\ pc = "search" /\ pc' = "parse" /\ it' = AtRestart(left) /\ UNCHANGED block_vars
      /\ op' = op /\ left' = left /\ right' = right /\ original' = original
  BY DEF SearchDone, local_vars
<1>3. /\ op.op = "seek" /\ original \in Nat /\ left \in Points /\ op.target \in Seq(Bytes)
      /\ left = 0 \/ Less(K(Point(left) + 1), op.target)
  BY <1>1, <1>2 DEF OpIInv, SearchIInv
<1>4. /\ BlockIInv' /\ IterIInv' /\ OpIInv' /\ it'.offset = Point(left)
      /\ Point(left) < End \/ (left = 0 /\ End = 0)
      /\ \A j : K(j)' = K(j)
  BY <1>2, <1>3, RestartStep
<1>5. \A i \in 1 .. Point(left) : Less(K(i), op.target)
  <2>1. Point(left) \in Nat /\ Point(0) = 0 /\ End \in Nat
    BY <1>1, <1>3, BlockFacts
  <2>2. CASE left = 0
    BY <2>1, <2>2
  <2>3. CASE left # 0
    <3> DEFINE n == Point(left) + 1
    <3>1. n \in 1 .. End /\ Less(K(n), op.target)
      BY <1>3, <1>4, <2>1, <2>3
    <3>2. \A i \in 1 .. n : Less(K(i), op.target)
      BY <1>1, <1>3, <3>1, KeysBelow
    <3> QED BY <2>1, <3>2
  <2> QED BY <2>2, <2>3
<1>6. \A i \in 1 .. it'.offset : Less(K(i)', op'.target)
  BY <1>2, <1>4, <1>5
<1>7. (\A i \in 1 .. it.offset : Less(K(i), op.target))'
  BY <1>6 DEF Less
<1>8. SearchIInv'
  BY <1>2, <1>3, <1>7 DEF SearchIInv
<1> QED BY <1>4, <1>8 DEF IInv

\* An entry is parsed.
LEMMA ParsedFacts ==
    ASSUME IInv, pc = "parse", it.offset < End, it' = ParseNextKey, UNCHANGED block_vars,
           pc' \in {"parse", "ready"}
    PROVE  /\ IterIInv' /\ it'.current = it.offset /\ it'.offset = it.offset + 1
           /\ it'.key = K(it.offset + 1) /\ it'.value = K(it.offset + 1)
<1>1. BlockIInv /\ IterIInv
  BY DEF IInv
<1> DEFINE n == it.offset
           r == RestartIndexAt(n)
<1>2. /\ it' \in Iterators /\ it'.current = n /\ it'.restart_index = r
      /\ it'.key = K(n + 1) /\ it'.value = K(n + 1) /\ it'.offset = n + 1
  BY <1>1, ParseResult
<1>3. /\ BlockIInv' /\ End' = End /\ Points' = Points /\ entries' = entries
      /\ \A j : K(j)' = K(j) /\ Point(j)' = Point(j)
  BY <1>1, SameBlock
<1>4. /\ n \in Nat /\ End \in Nat /\ n < End /\ it.restart_index \in Points
      /\ Point(it.restart_index) <= n
  BY <1>1, BlockFacts DEF IterIInv, Iterators
<1>5. /\ r \in Points /\ Point(r) <= n /\ Point(r) \in Nat
      /\ \A i \in Points : i > r => Point(i) >= n
  <2> HIDE DEF n
  <2> QED BY <1>1, <1>4, RestartIndexMoves, BlockFacts DEF n
<1> HIDE DEF n, r
<1>6. K(it.offset)' = K(n + 1)
  BY <1>2, <1>3 DEF K
<1>7. KeyOK'
  BY <1>2, <1>4, <1>6 DEF KeyOK
<1>8. Point(it.restart_index)' = Point(r)
  BY <1>2, <1>3 DEF Point
<1>9. \A i \in Points' : i > r => Point(i)' >= n
  BY <1>3, <1>5
<1>10. Settled'
  BY <1>2, <1>3, <1>4, <1>5, <1>6, <1>8, <1>9 DEF Settled
<1>11. n + 1 <= End /\ Point(r) <= n + 1
  BY <1>4, <1>5
<1>12. IterIInv'
  BY <1>2, <1>3, <1>4, <1>5, <1>7, <1>8, <1>10, <1>11 DEF IterIInv, Iterators
<1> QED BY <1>2, <1>12 DEF n

\* A call of ParseNextKey and what its caller makes of the result.
LEMMA ParseStep == ASSUME IInv, Parse PROVE IInv'
<1>1. BlockIInv /\ IterIInv /\ OpIInv /\ SearchIInv
  BY DEF IInv
<1>2. /\ pc = "parse" /\ it' = ParseNextKey /\ UNCHANGED block_vars
      /\ left' = left /\ right' = right /\ original' = original /\ origin' = origin
      /\ IF GoesOn(ParseNextKey) THEN pc' = pc /\ op' = op ELSE pc' = "ready" /\ op' = NoOp
  BY DEF Parse, Return, local_vars
<1>3. /\ BlockIInv' /\ End' = End /\ Points' = Points /\ entries' = entries
      /\ \A j : K(j)' = K(j) /\ Point(j)' = Point(j)
  BY <1>1, <1>2, SameBlock
<1>4. /\ op.op \in {"first", "last", "next", "prev", "seek"} /\ op # NoOp
      /\ left \in Points /\ right \in Points /\ original \in Nat /\ op.target \in Seq(Bytes)
  BY <1>1, <1>2 DEF OpIInv, NoOp
<1>5. End \in Nat /\ it \in Iterators /\ it.offset \in Nat /\ it.offset <= End
  BY <1>1, BlockFacts DEF IterIInv, Iterators
<1>6. CASE it.offset >= End
  <2>1. it' = Invalid /\ ParseNextKey = Invalid
    BY <1>1, <1>2, <1>6, ParseResult
  <2>2. it' \in Iterators /\ it'.current = End /\ it'.key = it.key /\ it'.offset = it.offset
    BY <1>1, <2>1, InvalidFacts
  <2>3. pc' = "ready" /\ op' = NoOp
    <3>1. ~ GoesOn(ParseNextKey)
      BY <1>2, <1>5, <2>1, <2>2 DEF GoesOn
    <3> QED BY <1>2, <3>1
  <2>4. KeyOK'
    BY <1>3, <1>5, <1>6, <2>2 DEF KeyOK
  <2>5. Settled'
    BY <1>3, <1>5, <2>2 DEF Settled, Valid
  <2>6. IterIInv'
    BY <1>3, <1>5, <2>2, <2>3, <2>4, <2>5 DEF IterIInv, Iterators
  <2>7. OpIInv'
    BY <1>2, <1>3, <1>4, <2>3 DEF OpIInv, NoOp
  <2>8. SearchIInv'
    BY <2>3 DEF SearchIInv
  <2> QED BY <1>3, <2>6, <2>7, <2>8 DEF IInv
<1>7. CASE it.offset < End
  <2> DEFINE n == it.offset
  <2>1. pc' \in {"parse", "ready"}
    BY <1>2
  <2>2. /\ IterIInv' /\ it'.current = n /\ it'.offset = n + 1 /\ it'.key = K(n + 1)
    BY <1>2, <1>7, <2>1, ParsedFacts
  <2>3. CASE ~ GoesOn(ParseNextKey)
    <3>1. pc' = "ready" /\ op' = NoOp
      BY <1>2, <2>3
    <3>2. OpIInv'
      BY <1>2, <1>3, <1>4, <3>1 DEF OpIInv, NoOp
    <3>3. SearchIInv'
      BY <3>1 DEF SearchIInv
    <3> QED BY <1>3, <2>2, <3>2, <3>3 DEF IInv
  <2>4. CASE GoesOn(ParseNextKey)
    <3>1. pc' = "parse" /\ op' = op
      BY <1>2, <2>4
    <3>2. OpIInv'
      BY <1>1, <1>2, <1>3, <1>4, <3>1 DEF OpIInv
    <3>3. /\ op.op = "seek" => Less(K(n + 1), op.target)
          /\ op.op = "last" => n + 1 < End
          /\ op.op = "prev" => n + 1 < original
          /\ op.op \in {"seek", "last", "prev"}
      <4>1. GoesOn(it')
        BY <1>2, <2>4
      <4> QED BY <1>4, <2>2, <4>1 DEF GoesOn
    <3>4. op.op = "seek" => (\A i \in 1 .. it.offset : Less(K(i), op.target))'
      <4> SUFFICES ASSUME op.op = "seek", NEW i \in 1 .. n + 1 PROVE Less(K(i), op.target)
        BY <1>3, <2>2, <3>1 DEF Less
      <4>1. i \in 1 .. n \/ i = n + 1
        BY <1>5
      <4>2. \A j \in 1 .. n : Less(K(j), op.target)
        BY <1>1, <1>2 DEF SearchIInv
      <4> QED BY <3>3, <4>1, <4>2
    <3>5. op.op = "prev" => original < End /\ origin = K(original + 1)
      BY <1>1, <1>2 DEF SearchIInv
    <3>6. op.op = "prev" => /\ it'.offset < original' /\ original' < End'
                            /\ origin' = K(original + 1)'
      BY <1>2, <1>3, <2>2, <3>3, <3>5
    <3>7. SearchIInv'
      BY <1>3, <2>2, <3>1, <3>3, <3>4, <3>6 DEF SearchIInv
    <3> QED BY <1>3, <2>2, <3>2, <3>7 DEF IInv
  <2> QED BY <2>3, <2>4
<1> QED BY <1>5, <1>6, <1>7

\* Every step.
LEMMA StepIInv == IInv /\ [Next]_vars => IInv'
<1> SUFFICES ASSUME IInv, [Next]_vars PROVE IInv'
  OBVIOUS
<1>1. CASE UNCHANGED vars
  <2>1. UNCHANGED <<interval, entries, restarts, counter, pre_key, it, op, pc, original, left, right, origin>>
    BY <1>1 DEF vars, block_vars, local_vars
  <2>2. BlockIInv'
    BY <2>1, SameBlock DEF IInv, block_vars
  <2>3. IterIInv'
    BY <2>1 DEF IInv, IterIInv, Iterators, KeyOK, Settled, Valid, End, K, Points, Point
  <2>4. OpIInv'
    BY <2>1 DEF IInv, OpIInv, Points, NoOp
  <2>5. SearchIInv'
    BY <2>1 DEF IInv, SearchIInv, Valid, End, K, Point, Less
  <2> QED BY <2>2, <2>3, <2>4, <2>5 DEF IInv
<1>2. ASSUME NEW k \in Keys, Add(k) \/ Call("seek", k) PROVE IInv'
  <2>1. CASE Add(k)
    BY <2>1, AddStep
  <2>2. CASE Call("seek", k)
    <3>1. k \in Seq(Bytes)
      BY KeyStrings
    <3> QED BY <2>2, <3>1, CallStep
  <2> QED BY <1>2, <2>1, <2>2
<1>3. CASE Finish
  BY <1>3, FinishStep
<1>4. <<>> \in Seq(Bytes)
  OBVIOUS
<1>5. CASE Call("first", <<>>)
  BY <1>4, <1>5, CallStep
<1>6. CASE Call("last", <<>>)
  BY <1>4, <1>6, CallStep
<1>7. CASE Valid /\ Call("next", <<>>)
  BY <1>4, <1>7, CallStep
<1>8. CASE Valid /\ Call("prev", <<>>)
  BY <1>4, <1>8, CallStep
<1>9. CASE IterStep
  BY <1>9, SeekToFirstStep, SeekToLastStep, NextStepStep, PrevRestartStep, SeekStartStep,
     SearchStepStep, SearchDoneStep, ParseStep
  DEF IterStep
<1> QED BY <1>1, <1>2, <1>3, <1>5, <1>6, <1>7, <1>8, <1>9 DEF Next

-----------------------------------------------------------------------------
(* The theorems                                                            *)

\* The invariant holds in every behaviour.
THEOREM BlockInvariant == Spec => []IInv
BY InitIInv, StepIInv, PTL DEF Spec

\* Types of a block and its iterator, restart points inside of the block, and a
\* restart index that GetRestartPoint accepts on every entry.
THEOREM BlockTypeCorrect == Spec => []TypeOK
<1>1. IInv => TypeOK
  <2> SUFFICES ASSUME IInv PROVE TypeOK
    OBVIOUS
  <2>1. BlockIInv /\ IterIInv /\ OpIInv
    BY DEF IInv
  <2>2. \A i \in 1 .. Len(entries) : entries[i].value \in Keys /\ entries[i].shared \in 0 .. Len(entries[i].value)
    <3> SUFFICES ASSUME NEW i \in 1 .. End
                 PROVE  entries[i].value \in Keys /\ entries[i].shared \in 0 .. Len(entries[i].value)
      BY DEF End
    <3>1. /\ entries[i].value = K(i) /\ K(i) \in Keys /\ K(i) \in Seq(Bytes)
          /\ entries[i].shared \in Nat /\ entries[i].shared <= Len(K(i))
      BY <2>1, BlockFacts DEF EntryOK
    <3> QED BY <3>1
  <2>3. End \in Nat /\ \A i \in Points : Point(i) \in 0 .. End
    BY <2>1, BlockFacts
  <2>4. pre_key \in Keys \cup {<<>>}
    <3>1. entries # <<>> => Len(entries) \in 1 .. End
      BY <2>1, BlockFacts DEF End
    <3> QED BY <2>1, <3>1, BlockFacts DEF BlockIInv, EntriesOK
  <2>5. it.current \in 0 .. End /\ it.offset \in 0 .. End
    BY <2>1, <2>3 DEF IterIInv, Iterators
  <2>6. pc # "build" /\ Valid => it.restart_index \in Points
    BY <2>1 DEF IterIInv, Settled
  <2> QED BY <2>1, <2>2, <2>3, <2>4, <2>5, <2>6 DEF TypeOK, BlockIInv, OpIInv
<1> QED BY <1>1, BlockInvariant, PTL

\* restart_index_ is that of the current entry after any operations: the restart
\* points after it are not before the entry (the loop of ParseNextKey, the
\* backward scan of Prev and the search of Seek all leave it so).
THEOREM RestartIndexTheorem == Spec => []RestartIndexFollows
<1>1. IInv => RestartIndexFollows
  BY DEF IInv, IterIInv, Settled, RestartIndexFollows
<1> QED BY <1>1, BlockInvariant, PTL

\* key_, put together from shared prefixes, is the key that was added with the
\* value shown, and no block the builder wrote is taken for a corrupted one.
THEOREM RebuildsTheorem == Spec => []RebuildsWhatWasAdded
<1>1. IInv => RebuildsWhatWasAdded
  BY DEF IInv, IterIInv, Iterators, Settled, RebuildsWhatWasAdded
<1> QED BY <1>1, BlockInvariant, PTL

-----------------------------------------------------------------------------
(* The cursor over the keys in their order                                 *)

\* The abstract order is that of the block.
LEMMA SameOrder == \A a, b : Cursor!Less(a, b) <=> Less(a, b)
BY DEF Less, Cursor!Less

\* Entries are in key order, and their keys are those of the block.
LEMMA KeysOrder ==
    ASSUME BlockIInv
    PROVE  /\ \A i, j \in 1 .. End : Less(K(i), K(j)) <=> i < j
           /\ \A i \in 1 .. End : K(i) \in AddedKeys
           /\ \A k \in AddedKeys : \E i \in 1 .. End : k = K(i)
<1>1. ASSUME NEW i \in 1 .. End, NEW j \in 1 .. End PROVE Less(K(i), K(j)) <=> i < j
  <2>1. End \in Nat /\ K(i) \in Seq(Bytes) /\ K(j) \in Seq(Bytes)
    BY BlockFacts
  <2>2. i < j => Less(K(i), K(j))
    BY DEF BlockIInv, EntriesOK, End
  <2>3. i = j => ~ Less(K(i), K(j))
    BY <2>1, LessIrreflexive
  <2>4. CASE j < i
    <3>1. Less(K(j), K(i))
      BY <2>4 DEF BlockIInv, EntriesOK, End
    <3>2. Less(K(i), K(j)) => Less(K(i), K(i))
      BY <2>1, <3>1, LessTransitive
    <3>3. ~ Less(K(i), K(i))
      BY <2>1, LessIrreflexive
    <3> QED BY <2>1, <2>4, <3>2, <3>3
  <2> QED BY <2>1, <2>2, <2>3, <2>4
<1>2. /\ \A i \in 1 .. End : K(i) \in AddedKeys
      /\ \A k \in AddedKeys : \E i \in 1 .. End : k = K(i)
  BY DEF AddedKeys, K, End
<1> QED BY <1>1, <1>2

\* The least key of a set is that of the first entry in it.
LEMMA LeastIs ==
    ASSUME BlockIInv, NEW S \in SUBSET AddedKeys, NEW m \in 1 .. End, K(m) \in S,
           \A i \in 1 .. End : K(i) \in S => m <= i
    PROVE  Cursor!Least(S) = K(m)
<1>1. End \in Nat
  BY BlockFacts
<1>2. ASSUME NEW j \in S PROVE ~ Cursor!Less(j, K(m))
  <2>1. PICK i \in 1 .. End : j = K(i)
    BY KeysOrder
  <2>2. ~ (i < m)
    BY <1>1, <2>1
  <2> QED BY <2>1, <2>2, KeysOrder, SameOrder
<1>3. ASSUME NEW k \in S, \A j \in S : ~ Cursor!Less(j, k) PROVE k = K(m)
  <2>1. PICK i \in 1 .. End : k = K(i)
    BY KeysOrder
  <2>2. ~ Less(K(m), K(i))
    BY <1>3, <2>1, SameOrder
  <2>3. ~ (m < i) /\ m <= i
    BY <2>1, <2>2, KeysOrder
  <2> QED BY <1>1, <2>1, <2>3
<1>4. S # {}
  OBVIOUS
<1>5. (CHOOSE k \in S : \A j \in S : ~ Cursor!Less(j, k)) = K(m)
  BY <1>2, <1>3
<1> QED BY <1>4, <1>5 DEF Cursor!Least

\* The greatest key of a set is that of the last entry in it.
LEMMA GreatestIs ==
    ASSUME BlockIInv, NEW S \in SUBSET AddedKeys, NEW m \in 1 .. End, K(m) \in S,
           \A i \in 1 .. End : K(i) \in S => i <= m
    PROVE  Cursor!Greatest(S) = K(m)
<1>1. End \in Nat
  BY BlockFacts
<1>2. ASSUME NEW j \in S PROVE ~ Cursor!Less(K(m), j)
  <2>1. PICK i \in 1 .. End : j = K(i)
    BY KeysOrder
  <2>2. ~ (m < i)
    BY <1>1, <2>1
  <2> QED BY <2>1, <2>2, KeysOrder, SameOrder
<1>3. ASSUME NEW k \in S, \A j \in S : ~ Cursor!Less(k, j) PROVE k = K(m)
  <2>1. PICK i \in 1 .. End : k = K(i)
    BY KeysOrder
  <2>2. ~ Less(K(i), K(m))
    BY <1>3, <2>1, SameOrder
  <2>3. ~ (i < m) /\ i <= m
    BY <2>1, <2>2, KeysOrder
  <2> QED BY <1>1, <2>1, <2>3
<1>4. S # {}
  OBVIOUS
<1>5. (CHOOSE k \in S : \A j \in S : ~ Cursor!Less(k, j)) = K(m)
  BY <1>2, <1>3
<1> QED BY <1>4, <1>5 DEF Cursor!Greatest

\* Where an operation gets to, in the order of the block.
LEMMA ReachedIs ==
    ASSUME op # NoOp
    PROVE  /\ op.op = "first" => Cursor!Reached = Cursor!Least(AddedKeys)
           /\ op.op = "last"  => Cursor!Reached = Cursor!Greatest(AddedKeys)
           /\ op.op = "next"  => Cursor!Reached = Cursor!Least({k \in AddedKeys : Less(origin, k)})
           /\ op.op = "prev"  => Cursor!Reached = Cursor!Greatest({k \in AddedKeys : Less(k, origin)})
           /\ op.op = "seek"  => Cursor!Reached = Cursor!Least({k \in AddedKeys : ~ Less(k, op.target)})
<1>1. Shown = origin
  BY DEF Shown
<1>2. /\ {k \in AddedKeys : Cursor!Less(Shown, k)} = {k \in AddedKeys : Less(origin, k)}
      /\ {k \in AddedKeys : Cursor!Less(k, Shown)} = {k \in AddedKeys : Less(k, origin)}
      /\ {k \in AddedKeys : ~ Cursor!Less(k, op.target)} = {k \in AddedKeys : ~ Less(k, op.target)}
  BY <1>1, SameOrder
<1> QED BY <1>2 DEF Cursor!Reached

\* No key: the iterator ends behind the last entry.
LEMMA NothingReached ==
    Cursor!Least({}) = <<>> /\ Cursor!Greatest({}) = <<>>
BY DEF Cursor!Least, Cursor!Greatest

\* The entry an operation stops at is the one it was to reach.
LEMMA StopsAtReached ==
    ASSUME IInv, pc = "parse", it.offset < End, ~ GoesOn(ParseNextKey)
    PROVE  Cursor!Reached = K(it.offset + 1)
<1> DEFINE m == it.offset + 1
<1>1. BlockIInv /\ IterIInv /\ OpIInv /\ SearchIInv
  BY DEF IInv
<1>2. /\ op.op \in {"first", "last", "next", "prev", "seek"} /\ op # NoOp /\ original \in Nat
  BY <1>1 DEF OpIInv, NoOp
<1>3. End \in Nat /\ it.offset \in Nat /\ m \in 1 .. End /\ K(m) \in AddedKeys
  BY <1>1, BlockFacts, KeysOrder DEF IterIInv, Iterators
<1>4. /\ ParseNextKey.current < End /\ ParseNextKey.key = K(m) /\ ParseNextKey.offset = m
  BY <1>1, ParseResult
<1>5. /\ op.op = "seek" => ~ Less(K(m), op.target)
      /\ op.op = "last" => ~ (m < End)
      /\ op.op = "prev" => ~ (m < original)
  BY <1>2, <1>4 DEF GoesOn
<1>6. CASE op.op = "first"
  <2>1. m = 1
    BY <1>1, <1>3, <1>6 DEF SearchIInv
  <2>2. \A i \in 1 .. End : m <= i
    BY <1>3, <2>1
  <2> HIDE DEF m
  <2>3. Cursor!Least(AddedKeys) = K(m)
    BY <1>1, <1>3, <2>2, LeastIs
  <2> QED BY <1>2, <1>6, <2>3, ReachedIs DEF m
<1>7. CASE op.op = "last"
  <2>1. \A i \in 1 .. End : i <= m
    BY <1>3, <1>5, <1>7
  <2> HIDE DEF m
  <2>2. Cursor!Greatest(AddedKeys) = K(m)
    BY <1>1, <1>3, <2>1, GreatestIs
  <2> QED BY <1>2, <1>7, <2>2, ReachedIs DEF m
<1>8. CASE op.op = "next"
  <2> DEFINE S == {k \in AddedKeys : Less(origin, k)}
  <2>1. it.offset \in 1 .. End /\ origin = K(it.offset)
    BY <1>1, <1>3, <1>8 DEF SearchIInv
  <2>2. \A i \in 1 .. End : K(i) \in S <=> it.offset < i
    BY <1>1, <2>1, KeysOrder
  <2>3. K(m) \in S /\ \A i \in 1 .. End : K(i) \in S => m <= i
    BY <1>3, <2>2
  <2>4. S \in SUBSET AddedKeys
    OBVIOUS
  <2> HIDE DEF m, S
  <2>5. Cursor!Least(S) = K(m)
    BY <1>1, <1>3, <2>3, <2>4, LeastIs
  <2> QED BY <1>2, <1>8, <2>5, ReachedIs DEF m, S
<1>9. CASE op.op = "prev"
  <2> DEFINE S == {k \in AddedKeys : Less(k, origin)}
  <2>1. /\ it.offset < original /\ original < End /\ origin = K(original + 1)
    BY <1>1, <1>9 DEF SearchIInv
  <2>2. m = original /\ original + 1 \in 1 .. End
    BY <1>2, <1>3, <1>5, <1>9, <2>1
  <2>3. \A i \in 1 .. End : K(i) \in S <=> i < original + 1
    BY <1>1, <2>1, <2>2, KeysOrder
  <2>4. K(m) \in S /\ \A i \in 1 .. End : K(i) \in S => i <= m
    BY <1>2, <1>3, <2>2, <2>3
  <2>5. S \in SUBSET AddedKeys
    OBVIOUS
  <2> HIDE DEF m, S
  <2>6. Cursor!Greatest(S) = K(m)
    BY <1>1, <1>3, <2>4, <2>5, GreatestIs
  <2> QED BY <1>2, <1>9, <2>6, ReachedIs DEF m, S
<1>10. CASE op.op = "seek"
  <2> DEFINE S == {k \in AddedKeys : ~ Less(k, op.target)}
  <2>1. \A i \in 1 .. it.offset : Less(K(i), op.target)
    BY <1>1, <1>10 DEF SearchIInv
  <2>2. K(m) \in S
    BY <1>3, <1>5, <1>10
  <2>3. ASSUME NEW i \in 1 .. End, K(i) \in S PROVE m <= i
    <3>1. i \notin 1 .. it.offset
      BY <2>1, <2>3
    <3> QED BY <1>3, <3>1
  <2>4. S \in SUBSET AddedKeys
    OBVIOUS
  <2> HIDE DEF m, S
  <2>5. Cursor!Least(S) = K(m)
    BY <1>1, <1>3, <2>2, <2>3, <2>4, LeastIs
  <2> QED BY <1>2, <1>10, <2>5, ReachedIs DEF m, S
<1> QED BY <1>2, <1>6, <1>7, <1>8, <1>9, <1>10

\* Where an operation runs into the end of the block there is nothing to reach.
LEMMA EndsAtNothing ==
    ASSUME IInv, pc = "parse", it.offset >= End
    PROVE  Cursor!Reached = <<>>
<1>1. BlockIInv /\ IterIInv /\ OpIInv /\ SearchIInv
  BY DEF IInv
<1>2. /\ op.op \in {"first", "last", "next", "prev", "seek"} /\ op # NoOp /\ original \in Nat
  BY <1>1 DEF OpIInv, NoOp
<1>3. End \in Nat /\ it.offset \in Nat /\ it.offset = End
  BY <1>1, BlockFacts DEF IterIInv, Iterators
<1>4. CASE op.op \in {"first", "last"}
  <2>1. End = 0
    BY <1>1, <1>3, <1>4 DEF SearchIInv
  <2>2. AddedKeys = {}
    BY <1>1, <2>1, KeysOrder
  <2> QED BY <1>2, <1>4, <2>2, ReachedIs, NothingReached
<1>5. CASE op.op = "next"
  <2>1. End \in 1 .. End /\ origin = K(End)
    BY <1>1, <1>3, <1>5 DEF SearchIInv
  <2>2. {k \in AddedKeys : Less(origin, k)} = {}
    <3> SUFFICES ASSUME NEW k \in AddedKeys, Less(origin, k) PROVE FALSE
      OBVIOUS
    <3>1. PICK i \in 1 .. End : k = K(i)
      BY <1>1, KeysOrder
    <3>2. End < i
      BY <1>1, <2>1, <3>1, KeysOrder
    <3> QED BY <1>3, <3>2
  <2> QED BY <1>2, <1>5, <2>2, ReachedIs, NothingReached
<1>6. CASE op.op = "prev"
  BY <1>1, <1>2, <1>3, <1>6 DEF SearchIInv
<1>7. CASE op.op = "seek"
  <2>1. {k \in AddedKeys : ~ Less(k, op.target)} = {}
    <3> SUFFICES ASSUME NEW k \in AddedKeys, ~ Less(k, op.target) PROVE FALSE
      OBVIOUS
    <3>1. PICK i \in 1 .. End : k = K(i)
      BY <1>1, KeysOrder
    <3> QED BY <1>1, <1>3, <1>7, <3>1 DEF SearchIInv
  <2> QED BY <1>2, <1>7, <2>1, ReachedIs, NothingReached
<1> QED BY <1>2, <1>4, <1>5, <1>6, <1>7

\* Prev finds no restart point only at the first entry, which has none before it.
LEMMA PrevReachesNothing ==
    ASSUME IInv, pc = "prev", PointsBefore(it.current) = {}
    PROVE  Cursor!Reached = <<>>
<1>1. BlockIInv /\ IterIInv /\ OpIInv /\ SearchIInv
  BY DEF IInv
<1>2. op.op = "prev" /\ op # NoOp /\ Valid /\ origin = K(it.current + 1)
  BY <1>1 DEF OpIInv, SearchIInv, NoOp
<1>3. /\ it.current \in Nat /\ it.restart_index \in Points
  BY <1>1, <1>2 DEF IterIInv, Iterators, Settled
<1>4. /\ End \in Nat /\ it.restart_index \in Nat /\ Point(0) = 0
  BY <1>1, <1>3, BlockFacts
<1>5. it.current = 0
  <2>1. 0 \in 0 .. it.restart_index
    BY <1>4
  <2>2. ~ (Point(0) < it.current)
    BY <2>1 DEF PointsBefore
  <2> QED BY <1>3, <1>4, <2>2
<1>6. 1 \in 1 .. End /\ origin = K(1)
  BY <1>2, <1>4, <1>5 DEF Valid
<1>7. {k \in AddedKeys : Less(k, origin)} = {}
  <2> SUFFICES ASSUME NEW k \in AddedKeys, Less(k, origin) PROVE FALSE
    OBVIOUS
  <2>1. PICK i \in 1 .. End : k = K(i)
    BY <1>1, KeysOrder
  <2>2. i < 1
    BY <1>1, <1>6, <2>1, KeysOrder
  <2> QED BY <2>2
<1> QED BY <1>2, <1>7, ReachedIs, NothingReached

\* What the cursor shows between the operations and during one.
LEMMA ShownFacts ==
    ASSUME IInv
    PROVE  /\ pc = "build" => op = NoOp /\ Shown = <<>>
           /\ pc = "ready" => op = NoOp /\ Shown = (IF Valid THEN it.key ELSE <<>>)
           /\ pc \notin {"build", "ready"} => op # NoOp /\ Shown = origin
<1>1. pc \in {"build", "ready"} <=> op = NoOp
  BY DEF IInv, OpIInv
<1> QED BY <1>1 DEF Shown

\* A step within an operation is none of the cursor.
LEMMA InnerStep ==
    ASSUME IInv, pc \notin {"build", "ready"}, UNCHANGED <<block_vars, op, origin>>
    PROVE  UNCHANGED Cursor!vars
<1>1. op # NoOp
  BY ShownFacts
<1>2. op' # NoOp' /\ entries' = entries
  BY <1>1 DEF NoOp, block_vars
<1>3. Shown = origin /\ Shown' = origin'
  BY <1>1, <1>2 DEF Shown
<1>4. AddedKeys' = AddedKeys
  BY <1>2 DEF AddedKeys
<1> QED BY <1>3, <1>4 DEF Cursor!vars

\* An operation returns with what it was to reach.
LEMMA ReturnStep ==
    ASSUME IInv, pc \notin {"build", "ready"}, UNCHANGED block_vars, op' = NoOp, pc' = "ready",
           (IF Valid THEN it.key ELSE <<>>)' = Cursor!Reached
    PROVE  Cursor!Return
<1>1. op # NoOp
  BY ShownFacts
<1>2. Shown' = Cursor!Reached
  BY DEF Shown, NoOp
<1>3. AddedKeys' = AddedKeys
  BY DEF AddedKeys, block_vars
<1>4. Cursor!None = NoOp
  BY DEF Cursor!None, NoOp
<1> QED BY <1>1, <1>2, <1>3, <1>4 DEF Cursor!Return

\* An operation is called.
LEMMA RequestStep ==
    ASSUME IInv, NEW name \in {"first", "last", "next", "prev", "seek"}, NEW target,
           Call(name, target), name \in {"next", "prev"} => Valid
    PROVE  Cursor!Request(name, target)
<1>1. /\ pc = "ready" /\ pc' = name /\ UNCHANGED <<block_vars, it>>
      /\ op' = [op |-> name, target |-> target]
      /\ origin' = (IF Valid THEN it.key ELSE <<>>)
  BY DEF Call
<1>2. op = NoOp /\ Shown = (IF Valid THEN it.key ELSE <<>>)
  BY <1>1, ShownFacts
<1>3. op'.op = name /\ op' # NoOp'
  BY <1>1 DEF NoOp
<1>4. Shown' = origin'
  BY <1>3 DEF Shown
<1>5. AddedKeys' = AddedKeys
  BY <1>1 DEF AddedKeys, block_vars
<1>6. name \in {"next", "prev"} => Shown # <<>>
  <2> SUFFICES ASSUME Valid PROVE it.key # <<>>
    BY <1>2
  <2>1. it.key = K(it.offset) /\ it.offset = it.current + 1 /\ it.current \in Nat /\ it.current < End
    BY <1>1 DEF IInv, IterIInv, Iterators, Settled, Valid
  <2>2. End \in Nat
    BY BlockFacts DEF IInv
  <2>3. it.offset \in 1 .. End
    BY <2>1, <2>2
  <2> QED BY <2>1, <2>3, BlockFacts DEF IInv
<1>7. Cursor!None = NoOp
  BY DEF Cursor!None, NoOp
<1> QED BY <1>1, <1>2, <1>4, <1>5, <1>6, <1>7 DEF Cursor!Request

\* Every step is one of the cursor or none.
LEMMA CursorStep == IInv /\ [Next]_vars => Cursor!Next \/ UNCHANGED Cursor!vars
<1> SUFFICES ASSUME IInv, [Next]_vars PROVE Cursor!Next \/ UNCHANGED Cursor!vars
  OBVIOUS
<1>0. BlockIInv /\ IterIInv /\ OpIInv
  BY DEF IInv
<1>1. CASE UNCHANGED vars
  <2>1. UNCHANGED <<entries, it, op, pc, origin>>
    BY <1>1 DEF vars, block_vars
  <2> QED BY <2>1 DEF Cursor!vars, AddedKeys, Shown, Valid, End, NoOp
<1>2. ASSUME NEW k \in Keys, Add(k) PROVE Cursor!Add(k)
  <2>1. /\ pc = "build" /\ pc' = pc /\ op' = op /\ it' = it
        /\ AddRestart(k) \/ AddShared(k)
    BY <1>2 DEF Add
  <2>2. op = NoOp /\ Shown = <<>>
    BY <2>1, ShownFacts
  <2>3. Shown' = <<>>
    BY <2>1, <2>2 DEF Shown, NoOp
  <2>4. AddedKeys' = AddedKeys \cup {k}
    <3>1. PICK e : entries' = Append(entries, e) /\ e.value = k
      BY <2>1 DEF AddRestart, AddShared, EntryOf
    <3>2. entries \in Seq(Entries) /\ Len(entries) \in Nat
      BY <1>0 DEF BlockIInv, EntriesOK
    <3> DEFINE n == Len(entries)
    <3>3. /\ Len(entries') = n + 1 /\ entries'[n + 1] = e
          /\ \A i \in 1 .. n : entries'[i] = entries[i]
      BY <3>1, <3>2
    <3>4. AddedKeys' = {entries'[i].value : i \in 1 .. n + 1}
      BY <3>3 DEF AddedKeys
    <3>5. AddedKeys = {entries[i].value : i \in 1 .. n}
      BY DEF AddedKeys
    <3> HIDE DEF n
    <3>6. \A i \in 1 .. n + 1 : i \in 1 .. n \/ i = n + 1
      BY <3>2 DEF n
    <3>7. n + 1 \in 1 .. n + 1 /\ \A i \in 1 .. n : i \in 1 .. n + 1
      BY <3>2 DEF n
    <3> QED BY <3>1, <3>3, <3>4, <3>5, <3>6, <3>7
  <2>5. Cursor!None = NoOp
    BY DEF Cursor!None, NoOp
  <2> QED BY <2>1, <2>2, <2>3, <2>4, <2>5 DEF Cursor!Add
<1>3. CASE Finish
  <2>1. /\ pc = "build" /\ pc' = "ready" /\ op' = op /\ it' = NewIterator /\ UNCHANGED block_vars
    BY <1>3 DEF Finish
  <2>2. op = NoOp /\ Shown = <<>>
    BY <2>1, ShownFacts
  <2>3. ~ Valid'
    <3>1. it'.current = Len(entries) /\ End' = Len(entries) /\ Len(entries) \in Nat
      BY <1>0, <2>1, BlockFacts DEF NewIterator, End, block_vars
    <3> QED BY <3>1 DEF Valid
  <2>4. Shown' = <<>>
    BY <2>1, <2>2, <2>3 DEF Shown, NoOp
  <2>5. AddedKeys' = AddedKeys
    BY <2>1 DEF AddedKeys, block_vars
  <2> QED BY <2>1, <2>2, <2>4, <2>5 DEF Cursor!vars
<1>4. ASSUME NEW k \in Keys, Call("seek", k) PROVE Cursor!Request("seek", k)
  BY <1>4, RequestStep
<1>5. ASSUME NEW name \in {"first", "last", "next", "prev"}, Call(name, <<>>),
             name \in {"next", "prev"} => Valid
      PROVE  Cursor!Request(name, <<>>)
  BY <1>5, RequestStep
<1>6. CASE PrevRestart
  <2>1. /\ pc = "prev" /\ UNCHANGED <<block_vars, origin>>
        /\ IF PointsBefore(it.current) = {} THEN it' = Invalid /\ pc' = "ready" /\ op' = NoOp
                                            ELSE op' = op
    BY <1>6 DEF PrevRestart, Return
  <2>2. CASE PointsBefore(it.current) = {}
    <3>1. it'.current = End /\ End' = End /\ End \in Nat
      BY <1>0, <2>1, <2>2, InvalidFacts, SameBlock, BlockFacts
    <3>2. ~ Valid'
      BY <3>1 DEF Valid
    <3>3. (IF Valid THEN it.key ELSE <<>>)' = Cursor!Reached
      <4>1. Cursor!Reached = <<>>
        BY <2>1, <2>2, PrevReachesNothing
      <4> QED BY <3>2, <4>1
    <3>4. Cursor!Return
      BY <2>1, <2>2, <3>3, ReturnStep
    <3> QED BY <3>4 DEF Cursor!Next
  <2>3. CASE PointsBefore(it.current) # {}
    <3>1. pc \notin {"build", "ready"} /\ UNCHANGED <<block_vars, op, origin>>
      BY <2>1, <2>3
    <3> QED BY <3>1, InnerStep
  <2> QED BY <2>2, <2>3
<1>7. CASE Parse
  <2>1. /\ pc = "parse" /\ it' = ParseNextKey /\ UNCHANGED <<block_vars, origin>>
        /\ IF GoesOn(ParseNextKey) THEN op' = op /\ pc' = pc ELSE pc' = "ready" /\ op' = NoOp
    BY <1>7 DEF Parse, Return
  <2>2. CASE GoesOn(ParseNextKey)
    <3>1. pc \notin {"build", "ready"} /\ UNCHANGED <<block_vars, op, origin>>
      BY <2>1, <2>2
    <3> QED BY <3>1, InnerStep
  <2>3. CASE ~ GoesOn(ParseNextKey)
    <3>1. End' = End /\ End \in Nat /\ it.offset \in Nat
      BY <1>0, <2>1, SameBlock, BlockFacts DEF IterIInv, Iterators
    <3>2. ASSUME it.offset >= End PROVE (IF Valid THEN it.key ELSE <<>>)' = Cursor!Reached
      <4>1. it'.current = End
        BY <1>0, <2>1, <3>2, ParseResult, InvalidFacts
      <4>2. ~ Valid'
        BY <3>1, <4>1 DEF Valid
      <4>3. Cursor!Reached = <<>>
        BY <2>1, <3>2, EndsAtNothing
      <4> QED BY <4>2, <4>3
    <3>3. ASSUME it.offset < End PROVE (IF Valid THEN it.key ELSE <<>>)' = Cursor!Reached
      <4>1. it'.current = it.offset /\ it'.key = K(it.offset + 1)
        BY <1>0, <2>1, <3>3, ParseResult
      <4>2. Valid'
        BY <3>1, <3>3, <4>1 DEF Valid
      <4>3. Cursor!Reached = K(it.offset + 1)
        BY <2>1, <2>3, <3>3, StopsAtReached
      <4> QED BY <4>1, <4>2, <4>3
    <3>4. (IF Valid THEN it.key ELSE <<>>)' = Cursor!Reached
      BY <3>1, <3>2, <3>3
    <3>5. Cursor!Return
      BY <2>1, <2>3, <3>4, ReturnStep
    <3> QED BY <3>5 DEF Cursor!Next
  <2> QED BY <2>2, <2>3
<1>8. CASE SearchStep
  <2>1. DecodeEntry(Point(Mid)).shared = 0
    <3>1. left \in Points /\ right \in Points /\ left < right
      BY <1>0, <1>8 DEF SearchStep, OpIInv
    <3>2. Mid \in Points /\ left < Mid /\ left \in Nat
      BY <1>0, <3>1, MidFacts, BlockFacts
    <3>3. Mid # 0
      BY <1>0, <3>2, BlockFacts
    <3> QED BY <1>0, <3>2, <3>3, BlockFacts DEF DecodeEntry
  <2>2. pc = "search" /\ UNCHANGED <<block_vars, op, origin>>
    BY <1>8, <2>1 DEF SearchStep
  <2> QED BY <2>2, InnerStep
<1>9. CASE SeekToFirst \/ SeekToLast \/ NextStep \/ SeekStart \/ SearchDone
  <2>1. pc \notin {"build", "ready"} /\ UNCHANGED <<block_vars, op, origin>>
    BY <1>9 DEF SeekToFirst, SeekToLast, NextStep, SeekStart, SearchDone
  <2> QED BY <2>1, InnerStep
<1>10. CASE \E k \in Keys : Add(k) \/ Call("seek", k)
  BY <1>2, <1>4, <1>10 DEF Cursor!Next
<1>11. CASE Call("first", <<>>) \/ Call("last", <<>>) \/ (Valid /\ (Call("next", <<>>) \/ Call("prev", <<>>)))
  <2>1. \E name \in {"first", "last", "next", "prev"} : Cursor!Request(name, <<>>)
    BY <1>5, <1>11
  <2> QED BY <2>1 DEF Cursor!Next
<1> QED BY <1>1, <1>3, <1>6, <1>7, <1>8, <1>9, <1>10, <1>11 DEF Next, IterStep

\* An empty block.
LEMMA CursorInit == Init => Cursor!Init
<1> SUFFICES ASSUME Init PROVE Cursor!Init
  OBVIOUS
<1>1. entries = <<>> /\ op = NoOp /\ pc = "build"
  BY DEF Init
<1>2. AddedKeys = {}
  BY <1>1 DEF AddedKeys
<1>3. Shown = <<>>
  BY <1>1 DEF Shown
<1> QED BY <1>1, <1>2, <1>3 DEF Cursor!Init, Cursor!None, NoOp

\* The iterator of a block is a cursor over its keys in their order: each of
\* Seek, Next, Prev, SeekToFirst and SeekToLast ends on the very entry it is
\* asked for, or on none when there is none (data_block.cpp:60-232).
THEOREM CursorTheorem == Spec => IsSortedCursor
BY BlockInvariant, CursorInit, CursorStep, PTL DEF Spec, IsSortedCursor, Cursor!Spec

-----------------------------------------------------------------------------
(* Operations are bounded                                                  *)

\* Steps to the end of the operation in progress: entries that are left to
\* parse, and before that the part of the restart array that is left to search.
StepsLeft ==
    CASE pc = "seek"                               -> Len(restarts) + End + 2
      [] pc = "search"                             -> (right - left) + End + 2
      [] pc \in {"first", "last", "next", "prev"}  -> End + 2
      [] pc = "parse"                              -> (End - it.offset) + 1
      [] OTHER                                     -> 0

\* The search keeps a restart point to go on from.
SearchLeavesOne == pc = "search" => left <= right

\* At most a step for each entry and for each restart point, and two more; and
\* one at least inside an operation.
StepsAreBounded ==
    /\ StepsLeft \in 0 .. Len(restarts) + End + 2
    /\ pc \notin {"build", "ready"} => StepsLeft > 0

\* Every step of an operation counts.
EveryStepCounts == IterStep => StepsLeft' < StepsLeft

\* Nothing that is done to a block moves the bounds of a search past each other.
LEMMA SearchLeavesOneStep == IInv /\ SearchLeavesOne /\ [Next]_vars => SearchLeavesOne'
<1> SUFFICES ASSUME IInv, SearchLeavesOne, [Next]_vars PROVE SearchLeavesOne'
  OBVIOUS
<1>0. BlockIInv /\ OpIInv
  BY DEF IInv
<1>1. CASE SearchStep
  <2>1. left \in Points /\ right \in Points /\ pc = "search" /\ left < right
    BY <1>0, <1>1 DEF OpIInv, SearchStep
  <2>2. Mid \in Points /\ left < Mid /\ Mid <= right /\ left \in Nat /\ right \in Nat /\ Mid \in Nat
    BY <1>0, <2>1, MidFacts, BlockFacts
  <2>3. \/ pc' = "ready"
        \/ left' = Mid /\ right' = right
        \/ left' = left /\ right' = Mid - 1
    BY <1>1 DEF SearchStep, Return
  <2> QED BY <2>1, <2>2, <2>3 DEF SearchLeavesOne
<1>2. CASE SeekStart
  <2>1. left' = 0 /\ right' = Len(restarts) - 1 /\ Len(restarts) \in Nat \ {0}
    BY <1>0, <1>2, BlockFacts DEF SeekStart
  <2> QED BY <2>1 DEF SearchLeavesOne
<1>3. ASSUME \/ \E k \in Keys : Add(k)
             \/ \E name \in {"first", "last", "next", "prev", "seek"}, target \in Keys \cup {<<>>} :
                    Call(name, target)
             \/ Finish \/ SeekToFirst \/ SeekToLast \/ NextStep \/ PrevRestart \/ SearchDone \/ Parse
      PROVE  pc' # "search"
  <2>1. CASE \E k \in Keys : Add(k)
    BY <2>1 DEF Add
  <2>2. CASE Finish \/ SeekToFirst \/ SeekToLast \/ NextStep \/ PrevRestart \/ SearchDone
    BY <2>2 DEF Finish, SeekToFirst, SeekToLast, NextStep, PrevRestart, SearchDone, Return
  <2>3. CASE Parse
    BY <2>3 DEF Parse, Return
  <2>4. CASE \E name \in {"first", "last", "next", "prev", "seek"}, target \in Keys \cup {<<>>} :
                 Call(name, target)
    BY <2>4 DEF Call
  <2> QED BY <1>3, <2>1, <2>2, <2>3, <2>4
<1>4. CASE UNCHANGED vars
  BY <1>4 DEF vars, local_vars, SearchLeavesOne
<1> QED BY <1>1, <1>2, <1>3, <1>4 DEF Next, IterStep, SearchLeavesOne

\* The measure counts from a bound down to 0.
LEMMA StepsBounded == IInv /\ SearchLeavesOne => StepsAreBounded
<1> SUFFICES ASSUME IInv, SearchLeavesOne PROVE StepsAreBounded
  OBVIOUS
<1>1. BlockIInv /\ IterIInv /\ OpIInv
  BY DEF IInv
<1>2. /\ End \in Nat /\ Len(restarts) \in Nat \ {0} /\ it.offset \in Nat /\ it.offset <= End
      /\ left \in Points /\ right \in Points
  BY <1>1, BlockFacts DEF IterIInv, Iterators, OpIInv
<1>3. left \in 0 .. Len(restarts) - 1 /\ right \in 0 .. Len(restarts) - 1
  BY <1>2 DEF Points
<1> HIDE DEF End
<1>4. CASE pc = "search"
  <2>1. StepsLeft = (right - left) + End + 2
    BY <1>4 DEF StepsLeft
  <2> QED BY <1>2, <1>3, <1>4, <2>1 DEF StepsAreBounded, SearchLeavesOne
<1>5. CASE pc # "search"
  <2>1. /\ StepsLeft \in {Len(restarts) + End + 2, End + 2, (End - it.offset) + 1, 0}
        /\ pc \notin {"build", "ready"} =>
               StepsLeft \in {Len(restarts) + End + 2, End + 2, (End - it.offset) + 1}
    BY <1>1, <1>5 DEF StepsLeft, OpIInv
  <2> QED BY <1>2, <2>1 DEF StepsAreBounded
<1> QED BY <1>4, <1>5

\* Each round of a loop comes nearer to the end of its operation.
LEMMA StepCounts == IInv /\ SearchLeavesOne => [EveryStepCounts]_vars
<1> SUFFICES ASSUME IInv, SearchLeavesOne, IterStep PROVE StepsLeft' < StepsLeft
  BY DEF EveryStepCounts
<1>1. BlockIInv /\ IterIInv /\ OpIInv
  BY DEF IInv
<1>2. /\ End \in Nat /\ Len(restarts) \in Nat \ {0} /\ it.offset \in Nat /\ it.offset <= End
      /\ left \in Points /\ right \in Points
      /\ \A i \in Points : i \in Nat /\ Point(i) \in Nat
  BY <1>1, BlockFacts DEF IterIInv, Iterators, OpIInv
<1>3. restarts' = restarts /\ End' = End
  BY DEF IterStep, SeekToFirst, SeekToLast, NextStep, PrevRestart, SeekStart, SearchStep,
         SearchDone, Parse, block_vars, End
<1> HIDE DEF End
<1>4. ASSUME NEW i \in Points, it' = AtRestart(i), pc' = "parse"
      PROVE  StepsLeft' <= End + 1
  <2>1. it'.offset = Point(i)
    BY <1>1, <1>4, AtRestartFacts
  <2>2. StepsLeft' = (End - Point(i)) + 1
    BY <1>3, <1>4, <2>1 DEF StepsLeft
  <2> QED BY <1>2, <2>2
<1>5. CASE SeekToFirst \/ SeekToLast
  <2>1. pc \in {"first", "last"} /\ pc' = "parse" /\ (it' = AtRestart(0) \/ it' = AtRestart(Len(restarts) - 1))
    BY <1>5 DEF SeekToFirst, SeekToLast
  <2>2. 0 \in Points /\ Len(restarts) - 1 \in Points
    BY <1>1, BlockFacts
  <2>3. StepsLeft = End + 2
    BY <2>1 DEF StepsLeft
  <2>4. StepsLeft' <= End + 1
    BY <1>4, <2>1, <2>2
  <2>5. StepsLeft' \in Int
    BY <1>1, <1>2, <1>3, <2>1, <2>2, AtRestartFacts DEF StepsLeft
  <2> QED BY <1>2, <2>3, <2>4, <2>5
<1>6. CASE NextStep
  <2>1. pc = "next" /\ pc' = "parse" /\ it' = it
    BY <1>6 DEF NextStep
  <2>2. StepsLeft = End + 2 /\ StepsLeft' = (End - it.offset) + 1
    BY <1>3, <2>1 DEF StepsLeft
  <2> QED BY <1>2, <2>2
<1>7. CASE PrevRestart
  <2> DEFINE S == PointsBefore(it.current)
  <2>1. pc = "prev" /\ StepsLeft = End + 2
    BY <1>7 DEF PrevRestart, StepsLeft
  <2>2. CASE S = {}
    <3>1. pc' = "ready"
      BY <1>7, <2>2 DEF PrevRestart, Return
    <3>2. StepsLeft' = 0
      BY <3>1 DEF StepsLeft
    <3> QED BY <1>2, <2>1, <3>2
  <2>3. CASE S # {}
    <3>1. it' = AtRestart(Max(S)) /\ pc' = "parse"
      BY <1>7, <2>3 DEF PrevRestart
    <3>2. Valid /\ it.current \in Nat
      BY <1>1, <2>1 DEF IInv, SearchIInv, IterIInv, Iterators
    <3>3. Max(S) \in Points
      <4>1. it.restart_index \in Points
        BY <1>1, <2>1, <3>2 DEF IterIInv, Settled
      <4>2. it.restart_index \in Nat /\ Points = 0 .. Len(restarts) - 1
        BY <1>2, <4>1 DEF Points
      <4>3. S \subseteq 0 .. it.restart_index
        BY DEF PointsBefore
      <4> HIDE DEF S
      <4>4. Max(S) \in S
        BY <2>3, <4>2, <4>3, GreatestOf
      <4>5. \A i \in 0 .. it.restart_index : i \in Points
        BY <1>2, <4>1, <4>2
      <4> QED BY <4>3, <4>4, <4>5
    <3>4. StepsLeft' <= End + 1
      BY <1>4, <3>1, <3>3
    <3>5. StepsLeft' \in Int
      BY <1>1, <1>2, <1>3, <3>1, <3>3, AtRestartFacts DEF StepsLeft
    <3> QED BY <1>2, <2>1, <3>4, <3>5
  <2> QED BY <2>2, <2>3
<1>8. CASE SeekStart
  <2>1. /\ pc = "seek" /\ pc' = "search" /\ left' = 0 /\ right' = Len(restarts) - 1
    BY <1>8 DEF SeekStart
  <2>2. StepsLeft = Len(restarts) + End + 2 /\ StepsLeft' = ((Len(restarts) - 1) - 0) + End + 2
    BY <1>3, <2>1 DEF StepsLeft
  <2> QED BY <1>2, <2>2
<1>9. CASE SearchStep
  <2>1. /\ pc = "search" /\ left < right
        /\ \/ pc' = "ready"
           \/ pc' = pc /\ left' = Mid /\ right' = right
           \/ pc' = pc /\ left' = left /\ right' = Mid - 1
    BY <1>9 DEF SearchStep, Return
  <2>2. Mid \in Points /\ left < Mid /\ Mid <= right
    BY <1>1, <1>2, <2>1, MidFacts
  <2>3. left \in Nat /\ right \in Nat /\ Mid \in Nat
    BY <1>2, <2>2
  <2>4. StepsLeft = (right - left) + End + 2
    BY <2>1 DEF StepsLeft
  <2> HIDE DEF Mid
  <2>5. StepsLeft' \in {0, (right - Mid) + End + 2, ((Mid - 1) - left) + End + 2}
    BY <1>3, <2>1 DEF StepsLeft
  <2> QED BY <1>2, <2>1, <2>2, <2>3, <2>4, <2>5
<1>10. CASE SearchDone
  <2>1. pc = "search" /\ pc' = "parse" /\ it' = AtRestart(left)
    BY <1>10 DEF SearchDone
  <2>2. StepsLeft = (right - left) + End + 2 /\ left <= right /\ left \in Nat /\ right \in Nat
    BY <1>2, <2>1 DEF StepsLeft, SearchLeavesOne
  <2>3. StepsLeft' <= End + 1
    BY <1>2, <1>4, <2>1
  <2>4. StepsLeft' \in Int
    BY <1>1, <1>2, <1>3, <2>1, AtRestartFacts DEF StepsLeft
  <2> QED BY <1>2, <2>2, <2>3, <2>4
<1>11. CASE Parse
  <2>1. /\ pc = "parse" /\ it' = ParseNextKey
        /\ IF GoesOn(ParseNextKey) THEN pc' = pc ELSE pc' = "ready"
    BY <1>11 DEF Parse, Return
  <2>2. StepsLeft = (End - it.offset) + 1
    BY <2>1 DEF StepsLeft
  <2>3. CASE GoesOn(ParseNextKey)
    <3>1. ParseNextKey.current < End
      BY <2>3 DEF GoesOn
    <3>2. it.offset < End
      <4> SUFFICES ASSUME it.offset >= End PROVE FALSE
        BY <1>2
      <4>1. ParseNextKey.current = End
        BY <1>1, <2>1, ParseResult, InvalidFacts
      <4> QED BY <1>2, <3>1, <4>1
    <3>3. it'.offset = it.offset + 1
      BY <1>1, <2>1, <3>2, ParseResult
    <3>4. StepsLeft' = (End - (it.offset + 1)) + 1
      BY <1>3, <2>1, <2>3, <3>3 DEF StepsLeft
    <3> QED BY <1>2, <2>2, <3>4
  <2>4. CASE ~ GoesOn(ParseNextKey)
    <3>1. StepsLeft' = 0
      BY <2>1, <2>4 DEF StepsLeft
    <3> QED BY <1>2, <2>2, <3>1
  <2> QED BY <2>3, <2>4
<1> QED BY <1>5, <1>6, <1>7, <1>8, <1>9, <1>10, <1>11 DEF IterStep

\* Operations on a block end: each round of the loops of Seek, Prev and
\* ParseNextKey leaves fewer, and there are never more than the block has entries
\* and restart points, and two (data_block.cpp:60-232).
THEOREM OperationsAreBounded == Spec => []StepsAreBounded /\ [][EveryStepCounts]_vars
<1>1. Init => SearchLeavesOne
  BY DEF Init, SearchLeavesOne
<1> QED BY <1>1, BlockInvariant, SearchLeavesOneStep, StepsBounded, StepCounts, PTL DEF Spec
=============================================================================
