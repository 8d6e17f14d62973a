--------------------------- MODULE ManifestProofs ---------------------------
(***************************************************************************)
(* Proofs about Manifest, for every set of tables, every number of levels, *)
(* of calls and of crashes.                                                *)
(***************************************************************************)
EXTENDS Manifest, FiniteSetTheorems, SequenceTheorems, TLAPS

-----------------------------------------------------------------------------
(* The inductive invariant                                                 *)

Changes == [op : {"create", "delete"}, id : Tables \cup {0}, level : Levels]

\* A batch, and a file of batches, hold the record of a table on a level.
InBatch(b, t, l)   == \E j \in 1 .. Len(b) : b[j] = Create(t, l)
InBatches(f, t, l) == \E i \in 1 .. Len(f) : InBatch(f[i], t, l)

Shape ==
    /\ level_tables \in Seq(SUBSET Tables) /\ Len(level_tables) <= MaxLevel + 1
    /\ table_levels \in [DOMAIN table_levels -> Levels]
    /\ DOMAIN table_levels \subseteq Tables /\ IsFiniteSet(DOMAIN table_levels)
    /\ creations \in Nat /\ deletions \in Nat
    /\ files \in [DOMAIN files -> Seq(Seq(Changes))]
    /\ DOMAIN files \subseteq {"MANIFEST", "REWRITE"}
    /\ ssts \subseteq Tables
    /\ pc \in {"down", "started", "up", "append", "rename", "undefined"}
    /\ batch \in Seq(Changes)
    /\ opened \in {"no", "true", "false"}

\* A process that has not opened the manifest knows no table.
EmptyWhenDown == pc \in {"down", "started"} => table_levels = <<>>

\* Known tables are in MANIFEST; inside AddChanges they may still be in the
\* batch, and inside ReWrite they are in REWRITE as well.
Saved ==
    \A t \in DOMAIN table_levels :
        /\ pc \in {"up", "rename"} => InBatches(Contents("MANIFEST"), t, table_levels[t])
        /\ pc = "append" => \/ InBatches(Contents("MANIFEST"), t, table_levels[t])
                            \/ InBatch(batch, t, table_levels[t])
        /\ pc = "rename" => InBatches(Contents("REWRITE"), t, table_levels[t])

IInv == Shape /\ EmptyWhenDown /\ MapsAgree /\ Saved

-----------------------------------------------------------------------------
(* Operators of the model                                                  *)

USE TablesAssumption, MaxLevelAssumption

\* What a file records does not depend on which batch records it.
LEMMA RecordedIsInBatches ==
    ASSUME NEW t, NEW l
    PROVE  Recorded(t, l) <=> InBatches(Contents("MANIFEST"), t, l)
BY DEF Recorded, InBatches, InBatch

\* Appending a batch to a file adds the records of that batch to it.
LEMMA AppendRecords ==
    ASSUME NEW f \in Seq(Seq(Changes)), NEW b \in Seq(Changes), NEW t, NEW l
    PROVE  /\ Append(f, b) \in Seq(Seq(Changes))
           /\ InBatches(f, t, l) => InBatches(Append(f, b), t, l)
           /\ InBatch(b, t, l) => InBatches(Append(f, b), t, l)
<1> DEFINE C == Seq(Changes)
<1> HIDE DEF C
<1>1. f \in Seq(C) /\ b \in C
  BY DEF C
<1>2. /\ Append(f, b) \in Seq(C)
      /\ Len(Append(f, b)) = Len(f) + 1
      /\ \A i \in 1 .. Len(f) : Append(f, b)[i] = f[i]
      /\ Append(f, b)[Len(f) + 1] = b
  BY <1>1, AppendProperties
<1>3. Len(f) \in Nat
  BY <1>1
<1>4. \A i \in 1 .. Len(f) : i \in 1 .. Len(Append(f, b))
  BY <1>2, <1>3
<1>5. Len(f) + 1 \in 1 .. Len(Append(f, b))
  BY <1>2, <1>3
<1> QED BY <1>2, <1>4, <1>5 DEF InBatches, C

\* The elements of a finite set, in some order, are all there.
LEMMA SetToSeqHasAll ==
    ASSUME NEW S, IsFiniteSet(S)
    PROVE  /\ SetToSeq(S) \in [1 .. Cardinality(S) -> S]
           /\ \A x \in S : \E i \in 1 .. Cardinality(S) : SetToSeq(S)[i] = x
<1> DEFINE n == Cardinality(S)
<1>1. n \in Nat /\ ExistsBijection(1 .. n, S)
  BY FS_CardinalityType
<1>2. \E f \in [1 .. n -> S] : IsInjective(f)
  BY <1>1 DEF ExistsBijection, Bijection, Injection
<1>3. SetToSeq(S) \in [1 .. n -> S] /\ IsInjective(SetToSeq(S))
  BY <1>2 DEF SetToSeq
<1>4. SetToSeq(S) \in Injection(1 .. n, S)
  BY <1>3 DEF Injection
<1>5. IsFiniteSet(1 .. n) /\ Cardinality(1 .. n) = n
  BY <1>1, FS_Interval
<1>6. SetToSeq(S) \in Surjection(1 .. n, S)
  BY <1>4, <1>5, FS_Injection
<1> QED BY <1>3, <1>6 DEF Surjection

-----------------------------------------------------------------------------
(* ApplyChangeSet                                                          *)

MapsType ==
    [levels : Seq(SUBSET Tables), where : UNION {[S -> Levels] : S \in SUBSET Tables},
     creations : Nat, stop : BOOLEAN, undefined : BOOLEAN]

\* The two maps between two changes.
GoodMaps(m) ==
    /\ m \in MapsType
    /\ Len(m.levels) <= MaxLevel + 1
    /\ IsFiniteSet(DOMAIN m.where)
    /\ ~ m.undefined => \A t \in DOMAIN m.where : /\ m.where[t] < Len(m.levels)
                                                  /\ t \in m.levels[m.where[t] + 1]
    /\ \A i \in 1 .. Len(m.levels) : m.levels[i] \subseteq DOMAIN m.where

\* Every table that n knows was known to m on that level, or c created it.
KnownFrom(n, m, c) ==
    \A t \in DOMAIN n.where :
        \/ t \in DOMAIN m.where /\ n.where[t] = m.where[t]
        \/ c = Create(t, n.where[t])

\* A change that leaves n out of bounds asked for the level one beyond the last.
Missed(n, c) == n.undefined => c.op = "create" /\ c.level = Len(n.levels)

\* resize keeps the sets of the levels there are, and adds empty ones.
LEMMA ResizedType ==
    ASSUME NEW levels \in Seq(SUBSET Tables), NEW l \in Levels,
           Len(levels) <= MaxLevel + 1
    PROVE  /\ Resized(levels, l) \in Seq(SUBSET Tables)
           /\ Len(Resized(levels, l)) <= MaxLevel + 1
           /\ Len(levels) <= Len(Resized(levels, l))
           /\ \A i \in 1 .. Len(levels) : Resized(levels, l)[i] = levels[i]
           /\ \A i \in Len(levels) + 1 .. Len(Resized(levels, l)) : Resized(levels, l)[i] = {}
           /\ ~ (l < Len(Resized(levels, l))) =>
                  Resized(levels, l) = levels /\ l = Len(levels)
<1>1. CASE Len(levels) < l
  <2> DEFINE more == [i \in 1 .. l + 1 - Len(levels) |-> {}]
             T == SUBSET Tables
  <2>1. l \in Nat /\ l <= MaxLevel /\ Len(levels) \in Nat
    BY DEF Levels
  <2>2. /\ more \in Seq(T) /\ Len(more) = l + 1 - Len(levels)
        /\ \A i \in 1 .. Len(more) : more[i] = {}
    BY <1>1, <2>1
  <2> HIDE DEF more, T
  <2>3. levels \in Seq(T)
    BY DEF T
  <2>4. /\ levels \o more \in Seq(T)
        /\ Len(levels \o more) = Len(levels) + Len(more)
        /\ \A i \in 1 .. Len(levels) + Len(more) :
              (levels \o more)[i] = IF i <= Len(levels) THEN levels[i] ELSE more[i - Len(levels)]
    BY <2>2, <2>3, ConcatProperties
  <2>5. Resized(levels, l) = levels \o more
    BY <1>1 DEF Resized, more
  <2> QED BY <1>1, <2>1, <2>2, <2>4, <2>5 DEF T
<1>2. CASE ~ (Len(levels) < l)
  <2>1. Resized(levels, l) = levels /\ Len(levels) \in Nat /\ l \in Nat
    BY <1>2 DEF Resized, Levels
  <2> QED BY <1>2, <2>1
<1> QED BY <1>1, <1>2

\* A creation enters the table into both maps, or finds no level for it.
LEMMA CreateKeepsMaps ==
    ASSUME NEW m, GoodMaps(m), ~ m.undefined, NEW t \in Tables, NEW l \in Levels
    PROVE  /\ GoodMaps(ApplyCreate(m, Create(t, l)))
           /\ KnownFrom(ApplyCreate(m, Create(t, l)), m, Create(t, l))
           /\ Missed(ApplyCreate(m, Create(t, l)), Create(t, l))
<1> DEFINE c      == Create(t, l)
           levels == Resized(m.levels, l)
           n      == ApplyCreate(m, c)
<1>1. c.op = "create" /\ c.id = t /\ c.level = l
  BY DEF Create
<1>2. /\ m \in MapsType /\ Len(m.levels) <= MaxLevel + 1 /\ IsFiniteSet(DOMAIN m.where)
      /\ \A s \in DOMAIN m.where : m.where[s] < Len(m.levels) /\ s \in m.levels[m.where[s] + 1]
      /\ \A i \in 1 .. Len(m.levels) : m.levels[i] \subseteq DOMAIN m.where
  BY DEF GoodMaps
<1>3. PICK S \in SUBSET Tables : m.where \in [S -> Levels]
  BY <1>2 DEF MapsType
<1>4. m.levels \in Seq(SUBSET Tables) /\ Len(m.levels) \in Nat /\ m.creations \in Nat
  BY <1>2 DEF MapsType
<1>5. /\ levels \in Seq(SUBSET Tables) /\ Len(levels) \in Nat
      /\ Len(levels) <= MaxLevel + 1
      /\ Len(m.levels) <= Len(levels)
      /\ \A i \in 1 .. Len(m.levels) : levels[i] = m.levels[i]
      /\ \A i \in Len(m.levels) + 1 .. Len(levels) : levels[i] = {}
      /\ ~ (l < Len(levels)) => levels = m.levels /\ l = Len(m.levels)
  BY <1>2, <1>4, ResizedType
<1> HIDE DEF levels
<1>6. CASE l < Len(levels)
  <2> DEFINE where  == With(m.where, t, l)
             filled == [levels EXCEPT ![l + 1] = @ \cup {t}]
  <2>1. n = [m EXCEPT !.where = where, !.levels = filled, !.creations = @ + 1]
    BY <1>1, <1>6 DEF ApplyCreate, levels
  <2>2. /\ where \in [S \cup {t} -> Levels]
        /\ DOMAIN where = S \cup {t} /\ where[t] = l
        /\ \A s \in S : s # t => where[s] = m.where[s]
    BY <1>3 DEF With
  <2>3. l + 1 \in 1 .. Len(levels)
    BY <1>5, <1>6 DEF Levels
  <2>4. /\ filled \in Seq(SUBSET Tables) /\ Len(filled) = Len(levels)
        /\ t \in filled[l + 1]
        /\ \A i \in 1 .. Len(levels) : /\ levels[i] \subseteq filled[i]
                                      /\ filled[i] \subseteq levels[i] \cup {t}
    <3>1. levels[l + 1] \cup {t} \in SUBSET Tables
      BY <1>5, <2>3
    <3> QED BY <1>5, <2>3, <3>1
  <2> HIDE DEF where, filled
  <2>5. n.where = where /\ n.levels = filled /\ n.undefined = m.undefined
    BY <1>2, <2>1 DEF MapsType
  <2>6. n \in MapsType
    <3>1. where \in UNION {[R -> Levels] : R \in SUBSET Tables}
      BY <2>2
    <3>2. m.creations + 1 \in Nat
      BY <1>4
    <3> QED BY <1>2, <2>1, <2>4, <3>1, <3>2 DEF MapsType
  <2>7. IsFiniteSet(DOMAIN where)
    BY <1>2, <1>3, <2>2, FS_AddElement
  <2>8. ASSUME NEW s \in DOMAIN where
        PROVE  where[s] < Len(filled) /\ s \in filled[where[s] + 1]
    <3>1. CASE s = t
      BY <1>6, <2>2, <2>4, <3>1
    <3>2. CASE s # t
      <4>1. s \in S /\ s \in DOMAIN m.where
        BY <1>3, <2>2, <3>2, <2>8
      <4>3. where[s] = m.where[s] /\ m.where[s] \in Nat
        BY <1>3, <2>2, <3>2, <4>1 DEF Levels
      <4>2. m.where[s] + 1 \in 1 .. Len(m.levels) /\ s \in m.levels[m.where[s] + 1]
        BY <1>2, <1>4, <4>1, <4>3
      <4> QED BY <1>4, <1>5, <2>4, <4>1, <4>2, <4>3
    <3> QED BY <3>1, <3>2
  <2>9. ASSUME NEW i \in 1 .. Len(filled)
        PROVE  filled[i] \subseteq DOMAIN where
    <3>1. levels[i] \subseteq S
      <4>1. CASE i \in 1 .. Len(m.levels)
        BY <1>2, <1>3, <1>5, <4>1
      <4>2. CASE i \notin 1 .. Len(m.levels)
        BY <1>4, <1>5, <2>4, <2>9, <4>2
      <4> QED BY <4>1, <4>2
    <3> QED BY <2>2, <2>4, <3>1
  <2>12. GoodMaps(n)
    BY <1>5, <2>4, <2>5, <2>6, <2>7, <2>8, <2>9 DEF GoodMaps
  <2>10. KnownFrom(n, m, c)
    <3>1. ASSUME NEW s \in DOMAIN where
          PROVE  \/ s \in DOMAIN m.where /\ where[s] = m.where[s]
                 \/ c = Create(s, where[s])
      BY <1>3, <2>2, <3>1
    <3> QED BY <2>5, <3>1 DEF KnownFrom
  <2>11. Missed(n, c)
    BY <2>5 DEF Missed
  <2> QED BY <2>10, <2>11, <2>12
<1>7. CASE ~ (l < Len(levels))
  <2>1. n = [m EXCEPT !.undefined = TRUE]
    BY <1>1, <1>7 DEF ApplyCreate, levels
  <2>2. n.where = m.where /\ n.levels = m.levels /\ n.undefined /\ n \in MapsType
    BY <1>2, <2>1 DEF MapsType
  <2> QED BY <1>1, <1>2, <1>5, <1>7, <2>2 DEF GoodMaps, KnownFrom, Missed
<1> QED BY <1>6, <1>7

\* A deletion leaves both maps as they are.
LEMMA DeleteKeepsMaps ==
    ASSUME NEW m, GoodMaps(m), ~ m.undefined, NEW t \in Tables
    PROVE  /\ GoodMaps(ApplyDelete(m, Delete(t)))
           /\ KnownFrom(ApplyDelete(m, Delete(t)), m, Delete(t))
           /\ Missed(ApplyDelete(m, Delete(t)), Delete(t))
<1> DEFINE n == ApplyDelete(m, Delete(t))
<1>1. m \in MapsType
  BY DEF GoodMaps
<1>2. \/ n = m
      \/ n = [m EXCEPT !.stop = TRUE]
  <2>1. ASSUME t \in DOMAIN m.where PROVE ~ (Len(m.levels) < m.where[t])
    <3>1. PICK S \in SUBSET Tables : m.where \in [S -> Levels]
      BY <1>1 DEF MapsType
    <3>2. m.where[t] \in Nat
      <4>1. t \in S /\ m.where[t] \in Levels
        BY <2>1, <3>1
      <4> QED BY <4>1 DEF Levels
    <3>3. m.levels \in Seq(SUBSET Tables)
      BY <1>1 DEF MapsType
    <3>4. Len(m.levels) \in Nat
      BY <3>3
    <3>5. m.where[t] < Len(m.levels)
      BY <2>1 DEF GoodMaps
    <3> QED BY <3>2, <3>4, <3>5
  <2> QED BY <2>1 DEF ApplyDelete, Delete
<1>3. /\ n \in MapsType /\ n.where = m.where /\ n.levels = m.levels
      /\ n.undefined = m.undefined
  BY <1>1, <1>2 DEF MapsType
<1> QED BY <1>3 DEF GoodMaps, KnownFrom, Missed

Single == {Create(t, l) : t \in Tables, l \in Levels} \cup {Delete(t) : t \in Tables}

\* A change keeps the two maps of the manifest in agreement.
LEMMA ChangeKeepsMaps ==
    ASSUME NEW m, GoodMaps(m), NEW c \in Single
    PROVE  /\ GoodMaps(ApplyChange(m, c))
           /\ KnownFrom(ApplyChange(m, c), m, c)
           /\ m.undefined \/ Missed(ApplyChange(m, c), c)
<1> DEFINE n == ApplyChange(m, c)
<1>1. CASE m.stop \/ m.undefined
  <2>1. n = m
    BY <1>1 DEF ApplyChange
  <2> QED BY <2>1 DEF KnownFrom, Missed
<1>2. CASE ~ (m.stop \/ m.undefined)
  <2>1. ASSUME NEW t \in Tables, NEW l \in Levels, c = Create(t, l)
        PROVE  GoodMaps(n) /\ KnownFrom(n, m, c) /\ Missed(n, c)
    <3>1. n = ApplyCreate(m, c)
      BY <1>2, <2>1 DEF ApplyChange, Create
    <3> QED BY <1>2, <2>1, <3>1, CreateKeepsMaps
  <2>2. ASSUME NEW t \in Tables, c = Delete(t)
        PROVE  GoodMaps(n) /\ KnownFrom(n, m, c) /\ Missed(n, c)
    <3>1. n = ApplyDelete(m, c)
      BY <1>2, <2>2 DEF ApplyChange, Delete
    <3> QED BY <1>2, <2>2, <3>1, DeleteKeepsMaps
  <2> QED BY <2>1, <2>2 DEF Single
<1> QED BY <1>1, <1>2

\* A change set leaves good maps, and what they know is known before or created
\* by it; one that goes out of bounds does so at the level beyond the last.
LEMMA ChangeSetKeepsMaps ==
    ASSUME IInv, pc = "up", NEW b \in Batches
    PROVE  /\ GoodMaps(ApplyChangeSet(b))
           /\ \A t \in DOMAIN ApplyChangeSet(b).where :
                 \/ t \in DOMAIN table_levels /\ ApplyChangeSet(b).where[t] = table_levels[t]
                 \/ InBatch(b, t, ApplyChangeSet(b).where[t])
           /\ ApplyChangeSet(b).undefined =>
                 \E j \in 1 .. Len(b) : Missed(ApplyChangeSet(b), b[j])
<1> DEFINE m == [levels |-> level_tables, where |-> table_levels,
                 creations |-> creations, stop |-> FALSE, undefined |-> FALSE]
           first == ApplyChange(m, b[1])
           second == ApplyChange(first, b[2])
<1>1. GoodMaps(m)
  <2>1. table_levels \in UNION {[S -> Levels] : S \in SUBSET Tables}
    BY DEF IInv, Shape
  <2> QED BY <2>1 DEF IInv, Shape, GoodMaps, MapsType, MapsAgree, KnownIsListed, ListedIsKnown
<1>2. /\ b[1] \in Single
      /\ \/ Len(b) = 1
         \/ Len(b) = 2 /\ b[2] \in Single
  BY DEF Batches, Single
<1>3. GoodMaps(first) /\ KnownFrom(first, m, b[1]) /\ Missed(first, b[1])
  BY <1>1, <1>2, ChangeKeepsMaps
<1>4. m.where = table_levels
  OBVIOUS
<1>5. ApplyChangeSet(b) = IF Len(b) = 1 THEN first ELSE second
  BY DEF ApplyChangeSet
<1> HIDE DEF m, first
<1>6. CASE Len(b) = 1
  <2>1. 1 \in 1 .. Len(b)
    BY <1>6
  <2> QED BY <1>3, <1>4, <1>5, <1>6, <2>1 DEF KnownFrom, InBatch
<1>7. CASE Len(b) = 2
  <2>1. /\ GoodMaps(second) /\ KnownFrom(second, first, b[2])
        /\ first.undefined \/ Missed(second, b[2])
    BY <1>2, <1>3, <1>7, ChangeKeepsMaps
  <2>2. 1 \in 1 .. Len(b) /\ 2 \in 1 .. Len(b)
    BY <1>7
  <2>3. first.undefined => second = first
    BY DEF ApplyChange
  <2> HIDE DEF second
  <2>4. ApplyChangeSet(b) = second
    BY <1>5, <1>7
  <2>5. second.undefined => \E j \in 1 .. Len(b) : Missed(second, b[j])
    BY <1>3, <2>1, <2>2, <2>3
  <2> QED BY <1>3, <1>4, <2>1, <2>2, <2>4, <2>5 DEF KnownFrom, InBatch
<1> QED BY <1>2, <1>6, <1>7
-----------------------------------------------------------------------------
(* The files                                                               *)

Names == {"MANIFEST", "REWRITE"}
Files == Seq(Seq(Changes))

\* What files' keeps of the records of the file name.
Keeps(name) ==
    \A t, l : InBatches(Contents(name), t, l) => InBatches(Contents(name)', t, l)

FilesTyped == files \in [DOMAIN files -> Files] /\ DOMAIN files \subseteq Names

\* A file that does not exist reads as an empty one.
LEMMA ContentsType ==
    ASSUME FilesTyped, NEW name
    PROVE  Contents(name) \in Files
<1>1. <<>> \in Files
  BY DEF Files
<1> QED BY <1>1 DEF Contents, FilesTyped

\* Writing one file leaves the other as it is.
LEMMA WriteFile ==
    ASSUME FilesTyped, NEW name \in Names, NEW f \in Files, files' = With(files, name, f)
    PROVE  /\ FilesTyped'
           /\ Contents(name)' = f
           /\ \A other \in Names : other # name => Contents(other)' = Contents(other)
BY DEF FilesTyped, With, Contents

\* An append to a file loses no record, and adds those of its batch.
LEMMA AppendFile ==
    ASSUME FilesTyped, NEW name \in Names, NEW b \in Seq(Changes),
           files' = AppendTo(name, b)
    PROVE  /\ FilesTyped'
           /\ \A other \in Names : Keeps(other)
           /\ \A t, l : InBatch(b, t, l) => InBatches(Contents(name)', t, l)
<1> DEFINE f == Append(Contents(name), b)
<1>1. Contents(name) \in Files
  BY ContentsType
<1>2. f \in Files /\ \A t, l : /\ InBatches(Contents(name), t, l) => InBatches(f, t, l)
                               /\ InBatch(b, t, l) => InBatches(f, t, l)
  BY <1>1, AppendRecords DEF Files
<1>3. /\ FilesTyped' /\ Contents(name)' = f
      /\ \A other \in Names : other # name => Contents(other)' = Contents(other)
  BY <1>2, WriteFile DEF AppendTo
<1> HIDE DEF f
<1> QED BY <1>2, <1>3 DEF Keeps

\* What a crash inside an append leaves is still a file, with all its records.
LEMMA InterruptedFile ==
    ASSUME FilesTyped, NEW name \in Names, NEW b \in Seq(Changes),
           files' \in Interrupted(name, b)
    PROVE  FilesTyped' /\ \A other \in Names : Keeps(other)
<1>1. CASE files' = With(files, name, Contents(name))
  <2>1. Contents(name) \in Files
    BY ContentsType
  <2>2. \A other \in Names : Contents(other)' = Contents(other)
    BY <1>1, <2>1, WriteFile
  <2> QED BY <1>1, <2>1, <2>2, WriteFile DEF Keeps
<1>2. ASSUME NEW i \in 0 .. Len(b), files' = AppendTo(name, SubSeq(b, 1, i))
      PROVE  FilesTyped' /\ \A other \in Names : Keeps(other)
  <2> DEFINE C == Changes
  <2> HIDE DEF C
  <2>1. b \in Seq(C)
    BY DEF C
  <2>2. SubSeq(b, 1, i) \in Seq(C)
    BY <1>2, <2>1, SubSeqProperties
  <2> QED BY <1>2, <2>2, AppendFile DEF C
<1> QED BY <1>1, <1>2 DEF Interrupted

\* REWRITE takes the place of MANIFEST.
LEMMA RenamedFile ==
    ASSUME FilesTyped, "REWRITE" \in DOMAIN files, files' = Renamed
    PROVE  FilesTyped' /\ Contents("MANIFEST")' = Contents("REWRITE")
<1> DEFINE rest == Restrict(files, DOMAIN files \ {"REWRITE"})
<1>1. /\ DOMAIN rest = DOMAIN files \ {"REWRITE"}
      /\ \A x \in DOMAIN rest : rest[x] \in Files
  BY DEF Restrict, FilesTyped
<1> HIDE DEF rest
<1>2. files' = With(rest, "MANIFEST", files["REWRITE"])
  BY DEF Renamed, rest
<1>3. files["REWRITE"] \in Files
  BY DEF FilesTyped
<1>4. DOMAIN files' = DOMAIN rest \cup {"MANIFEST"} /\ files'["MANIFEST"] = files["REWRITE"]
  BY <1>2 DEF With
<1>5. files' \in [DOMAIN files' -> Files]
  BY <1>1, <1>2, <1>3 DEF With
<1> QED BY <1>1, <1>4, <1>5 DEF FilesTyped, Names, Contents

\* The batch ReWrite writes records every table the process knows.
LEMMA ParseRecords ==
    ASSUME Shape
    PROVE  /\ ParseFromManifest \in Seq(Changes)
           /\ \A t \in DOMAIN table_levels : InBatch(ParseFromManifest, t, table_levels[t])
<1> DEFINE K  == DOMAIN table_levels
           S  == {Create(t, table_levels[t]) : t \in K}
           ds == [i \in 1 .. Cardinality(K) |-> Create(0, 0)]
           es == SetToSeq(S)
           C  == Changes
<1>1. IsFiniteSet(K) /\ Cardinality(K) \in Nat
  BY FS_CardinalityType DEF Shape
<1>2. IsFiniteSet(S)
  <2> DEFINE create == [t \in K |-> Create(t, table_levels[t])]
  <2>1. create \in Surjection(K, S)
    BY DEF Surjection
  <2> QED BY <1>1, <2>1, FS_Surjection
<1>3. S \subseteq C
  BY DEF Shape, Create, Changes
<1>4. Create(0, 0) \in C
  BY DEF Create, Changes, Levels
<1>5. Cardinality(S) \in Nat
  BY <1>2, FS_CardinalityType
<1>6. /\ es \in [1 .. Cardinality(S) -> S]
      /\ \A x \in S : \E i \in 1 .. Cardinality(S) : es[i] = x
  BY <1>2, SetToSeqHasAll
<1>7. \A t \in K : Create(t, table_levels[t]) \in S
  OBVIOUS
<1>8. ParseFromManifest = ds \o es
  BY DEF ParseFromManifest
<1> HIDE DEF S, C, es
<1>9. ds \in Seq(C)
  BY <1>1, <1>4
<1> HIDE DEF ds
<1>10. es \in Seq(C) /\ Len(es) = Cardinality(S)
  BY <1>3, <1>5, <1>6
<1>11. /\ ds \o es \in Seq(C)
       /\ Len(ds \o es) = Len(ds) + Len(es)
       /\ \A i \in 1 .. Len(ds) + Len(es) :
             (ds \o es)[i] = IF i <= Len(ds) THEN ds[i] ELSE es[i - Len(ds)]
  BY <1>9, <1>10, ConcatProperties
<1>12. \A i \in 1 .. Len(es) : /\ i + Len(ds) \in 1 .. Len(ds \o es)
                               /\ (ds \o es)[i + Len(ds)] = es[i]
  BY <1>9, <1>10, <1>11
<1>13. ASSUME NEW t \in K
       PROVE  \E j \in 1 .. Len(ds \o es) : (ds \o es)[j] = Create(t, table_levels[t])
  <2>1. PICK i \in 1 .. Len(es) : es[i] = Create(t, table_levels[t])
    BY <1>6, <1>7, <1>10, <1>13
  <2> QED BY <1>12, <2>1
<1> QED BY <1>8, <1>11, <1>13 DEF InBatch, C
-----------------------------------------------------------------------------
(* The invariant holds at the start and is kept by every step              *)

\* The files are part of the invariant.
LEMMA FilesInShape == IInv => FilesTyped
BY DEF IInv, Shape, FilesTyped, Files, Names

\* An empty map knows no table.
LEMMA NothingKnown == ASSUME table_levels' = <<>> PROVE DOMAIN table_levels' = {}
OBVIOUS

\* A new directory satisfies the invariant.
LEMMA InitInvariant == Init => IInv
<1> SUFFICES ASSUME Init PROVE IInv
  OBVIOUS
<1>1. DOMAIN table_levels = {} /\ DOMAIN files = {}
  BY DEF Init
<1>2. IsFiniteSet({})
  BY FS_EmptySet
<1>3. level_tables \in Seq(SUBSET Tables) /\ Len(level_tables) = 0 /\ batch \in Seq(Changes)
  BY DEF Init
<1>4. Shape
  BY <1>1, <1>2, <1>3 DEF Init, Shape
<1> QED BY <1>1, <1>4
    DEF Init, IInv, EmptyWhenDown, MapsAgree, KnownIsListed, ListedIsKnown,
        MissedBySizeOnly, Saved

\* A table file that is only written is on no level yet.
LEMMA WriteTableInvariant ==
    ASSUME IInv, NEW t \in Tables, WriteTable(t)
    PROVE  IInv'
<1>1. Shape'
  BY DEF IInv, Shape, WriteTable, memory, bounds
<1> QED BY <1>1
    DEF IInv, WriteTable, EmptyWhenDown, MapsAgree, KnownIsListed, ListedIsKnown,
        MissedBySizeOnly, Saved, Contents, memory

\* AddChanges: what the maps know now was known before or is in the batch.
LEMMA AddChangesInvariant ==
    ASSUME IInv, NEW b \in Batches, AddChanges(b)
    PROVE  IInv'
<1> DEFINE m == ApplyChangeSet(b)
<1>1. /\ GoodMaps(m)
      /\ \A t \in DOMAIN m.where : \/ t \in DOMAIN table_levels /\ m.where[t] = table_levels[t]
                                   \/ InBatch(b, t, m.where[t])
      /\ m.undefined => \E j \in 1 .. Len(b) : Missed(m, b[j])
  BY ChangeSetKeepsMaps DEF AddChanges
<1>2. /\ pc = "up" /\ batch' = b /\ files' = files
      /\ level_tables' = m.levels /\ table_levels' = m.where /\ creations' = m.creations
      /\ pc' = IF m.undefined THEN "undefined" ELSE "append"
      /\ UNCHANGED <<deletions, files, ssts, opened>>
  BY DEF AddChanges
<1> HIDE DEF m
<1>3. b \in Seq(Changes)
  <2>1. \A t \in Tables : Delete(t) \in Changes /\ \A l \in Levels : Create(t, l) \in Changes
    BY DEF Changes, Create, Delete, Levels
  <2> DEFINE C == Changes
  <2> HIDE DEF C
  <2>2. \A c, d \in C : <<c>> \in Seq(C) /\ <<c, d>> \in Seq(C)
    OBVIOUS
  <2>3. CASE \E t \in Tables, l \in Levels : b = <<Create(t, l)>>
    BY <2>1, <2>2, <2>3 DEF C
  <2>4. CASE \E t \in Tables : b = <<Delete(t)>>
    BY <2>1, <2>2, <2>4 DEF C
  <2>5. CASE \E t \in Tables, l \in Levels : b = <<Delete(t), Create(t, l)>>
    BY <2>1, <2>2, <2>5 DEF C
  <2> QED BY <2>3, <2>4, <2>5 DEF Batches
<1>4. m.undefined \in BOOLEAN /\ m \in MapsType
  BY <1>1 DEF GoodMaps, MapsType
<1>5. pc' \in {"undefined", "append"} /\ (pc' # "undefined" => ~ m.undefined)
  BY <1>2, <1>4
<1>6. Shape'
  <2>1. PICK S \in SUBSET Tables : m.where \in [S -> Levels]
    BY <1>4 DEF MapsType
  <2>2. m.where \in [DOMAIN m.where -> Levels] /\ DOMAIN m.where \subseteq Tables
    BY <2>1
  <2>3. m.levels \in Seq(SUBSET Tables) /\ m.creations \in Nat
    BY <1>4 DEF MapsType
  <2>4. Len(m.levels) <= MaxLevel + 1 /\ IsFiniteSet(DOMAIN m.where)
    BY <1>1 DEF GoodMaps
  <2> QED BY <1>2, <1>3, <1>5, <2>2, <2>3, <2>4 DEF IInv, Shape
<1>7. MapsAgree'
  <2>1. KnownIsListed' /\ ListedIsKnown'
    BY <1>1, <1>2, <1>5 DEF GoodMaps, KnownIsListed, ListedIsKnown
  <2>2. MissedBySizeOnly'
    BY <1>1, <1>2, <1>4 DEF Missed, MissedBySizeOnly
  <2> QED BY <2>1, <2>2 DEF MapsAgree
<1>8. Saved'
  BY <1>1, <1>2, <1>5 DEF IInv, Saved, Contents
<1> QED BY <1>5, <1>6, <1>7, <1>8 DEF IInv, EmptyWhenDown

\* The second half of AddChanges: the batch reaches the file.
LEMMA AppendBatchInvariant ==
    ASSUME IInv, AppendBatch
    PROVE  IInv' /\ Keeps("MANIFEST")
<1>1. /\ pc = "append" /\ pc' = "up" /\ files' = AppendTo("MANIFEST", batch)
      /\ UNCHANGED <<level_tables, table_levels, creations, deletions, ssts, batch, opened>>
  BY DEF AppendBatch, memory
<1>2. FilesTyped /\ batch \in Seq(Changes) /\ "MANIFEST" \in Names
  BY FilesInShape DEF IInv, Shape, Names
<1>3. /\ FilesTyped' /\ Keeps("MANIFEST")
      /\ \A t, l : InBatch(batch, t, l) => InBatches(Contents("MANIFEST")', t, l)
  BY <1>1, <1>2, AppendFile
<1>4. Shape'
  BY <1>1, <1>3 DEF IInv, Shape, FilesTyped, Files, Names
<1>5. Saved'
  BY <1>1, <1>3 DEF IInv, Saved, Keeps
<1> QED BY <1>1, <1>3, <1>4, <1>5
    DEF IInv, EmptyWhenDown, MapsAgree, KnownIsListed, ListedIsKnown,
        MissedBySizeOnly

\* ReWrite writes every known table to REWRITE.
LEMMA RewriteAppendInvariant ==
    ASSUME IInv, RewriteAppend
    PROVE  IInv' /\ Keeps("MANIFEST")
<1>1. /\ pc = "up" /\ pc' = "rename"
      /\ files' = IF table_levels = <<>> THEN files ELSE AppendTo("REWRITE", ParseFromManifest)
      /\ UNCHANGED <<level_tables, table_levels, creations, deletions, ssts, batch, opened>>
  BY DEF RewriteAppend, memory
<1>2. FilesTyped /\ Shape /\ "REWRITE" \in Names /\ "MANIFEST" \in Names
  BY FilesInShape DEF IInv, Names
<1>3. CASE table_levels = <<>>
  <2>1. DOMAIN table_levels' = {}
    BY <1>1, <1>3
  <2>2. Shape'
    BY <1>1, <1>3 DEF IInv, Shape
  <2> QED BY <1>1, <1>3, <2>1, <2>2
      DEF IInv, EmptyWhenDown, MapsAgree, KnownIsListed, ListedIsKnown,
          MissedBySizeOnly, Saved, Keeps, Contents
<1>4. CASE table_levels # <<>>
  <2>1. files' = AppendTo("REWRITE", ParseFromManifest)
    BY <1>1, <1>4
  <2>2. /\ ParseFromManifest \in Seq(Changes)
        /\ \A t \in DOMAIN table_levels : InBatch(ParseFromManifest, t, table_levels[t])
    BY <1>2, ParseRecords
  <2>3. /\ FilesTyped' /\ Keeps("MANIFEST")
        /\ \A t, l : InBatch(ParseFromManifest, t, l) => InBatches(Contents("REWRITE")', t, l)
    BY <1>2, <2>1, <2>2, AppendFile
  <2>4. Shape'
    BY <1>1, <2>3 DEF IInv, Shape, FilesTyped, Files, Names
  <2>5. Saved'
    BY <1>1, <2>2, <2>3 DEF IInv, Saved, Keeps
  <2> QED BY <1>1, <2>3, <2>4, <2>5
      DEF IInv, EmptyWhenDown, MapsAgree, KnownIsListed, ListedIsKnown,
          MissedBySizeOnly
<1> QED BY <1>3, <1>4

\* The rename replaces MANIFEST by a file that holds every known table.
LEMMA RewriteRenameInvariant ==
    ASSUME IInv, RewriteRename
    PROVE  /\ IInv'
           /\ \A t \in DOMAIN table_levels :
                 InBatches(Contents("MANIFEST")', t, table_levels[t])
<1>1. /\ pc = "rename" /\ pc' = "up" /\ "REWRITE" \in DOMAIN files /\ files' = Renamed
      /\ creations' = Cardinality(DOMAIN table_levels) /\ deletions' = 0
      /\ UNCHANGED <<level_tables, table_levels, ssts, batch, opened>>
  BY DEF RewriteRename
<1>2. FilesTyped' /\ Contents("MANIFEST")' = Contents("REWRITE")
  BY <1>1, FilesInShape, RenamedFile
<1>3. creations' \in Nat
  BY <1>1, FS_CardinalityType DEF IInv, Shape
<1>4. Shape'
  BY <1>1, <1>2, <1>3 DEF IInv, Shape, FilesTyped, Files, Names
<1>5. \A t \in DOMAIN table_levels : InBatches(Contents("MANIFEST")', t, table_levels[t])
  BY <1>1, <1>2 DEF IInv, Saved
<1>6. Saved'
  BY <1>1, <1>5 DEF Saved
<1> QED BY <1>1, <1>4, <1>5, <1>6
    DEF IInv, EmptyWhenDown, MapsAgree, KnownIsListed, ListedIsKnown,
        MissedBySizeOnly

\* A ReWrite that fails before its rename leaves MANIFEST as it was.
LEMMA RewriteFailsInvariant ==
    ASSUME IInv, RewriteFails
    PROVE  IInv'
<1>1. Shape'
  BY DEF IInv, Shape, RewriteFails, memory, bounds
<1> QED BY <1>1
    DEF IInv, RewriteFails, EmptyWhenDown, MapsAgree, KnownIsListed, ListedIsKnown,
        MissedBySizeOnly, Saved, Contents, memory

\* An open clears the maps; a rename that recovers REWRITE has no MANIFEST to lose.
LEMMA OpenInvariant ==
    ASSUME IInv, OpenManifestFile
    PROVE  IInv' /\ Keeps("MANIFEST")
<1>1. /\ pc' = "up"
      /\ level_tables' = <<>> /\ table_levels' = <<>> /\ creations' = 0 /\ deletions' = 0
      /\ opened' \in {"true", "false"}
      /\ UNCHANGED <<ssts, batch>>
  BY DEF OpenManifestFile, Cleared
<1>2. DOMAIN table_levels' = {}
  BY <1>1, NothingKnown
<1>3. FilesTyped' /\ Keeps("MANIFEST")
  <2>1. CASE "MANIFEST" \notin DOMAIN files /\ "REWRITE" \in DOMAIN files
    <3>1. files' = Renamed
      BY <2>1 DEF OpenManifestFile
    <3>2. \A t, l : ~ InBatches(Contents("MANIFEST"), t, l)
      BY <2>1 DEF Contents, InBatches
    <3> QED BY <2>1, <3>1, <3>2, FilesInShape, RenamedFile DEF Keeps
  <2>2. CASE ~ ("MANIFEST" \notin DOMAIN files /\ "REWRITE" \in DOMAIN files)
    <3>1. files' = files
      BY <2>2 DEF OpenManifestFile
    <3> QED BY <3>1, FilesInShape DEF FilesTyped, Keeps, Contents
  <2> QED BY <2>1, <2>2
<1>4. Shape'
  <2>1. IsFiniteSet({})
    BY FS_EmptySet
  <2>2. <<>> \in Seq(SUBSET Tables) /\ Len(<<>>) = 0
    OBVIOUS
  <2> QED BY <1>1, <1>2, <1>3, <2>1, <2>2 DEF IInv, Shape, FilesTyped, Files, Names
<1> QED BY <1>1, <1>2, <1>3, <1>4
    DEF IInv, EmptyWhenDown, MapsAgree, KnownIsListed, ListedIsKnown,
        MissedBySizeOnly, Saved

\* A process that opens no manifest knows no table.
LEMMA SkipOpenInvariant ==
    ASSUME IInv, SkipOpen
    PROVE  IInv'
<1>1. Shape'
  BY DEF IInv, Shape, SkipOpen, memory, bounds
<1>2. table_levels' = <<>>
  BY DEF IInv, EmptyWhenDown, SkipOpen, memory
<1>3. DOMAIN table_levels' = {}
  BY <1>2, NothingKnown
<1> QED BY <1>1, <1>3
    DEF IInv, SkipOpen, EmptyWhenDown, MapsAgree, KnownIsListed, ListedIsKnown,
        MissedBySizeOnly, Saved, memory

\* RevertToManifest removes files of tables, and no record of them.
LEMMA RevertInvariant ==
    ASSUME IInv, RevertToManifest
    PROVE  IInv'
<1>1. Shape'
  BY DEF IInv, Shape, RevertToManifest, memory, bounds
<1> QED BY <1>1
    DEF IInv, RevertToManifest, EmptyWhenDown, MapsAgree, KnownIsListed,
        ListedIsKnown, MissedBySizeOnly, Saved, Contents, memory

\* A crash forgets the maps, and leaves of the files every record they had.
LEMMA CrashInvariant ==
    ASSUME IInv, Crash
    PROVE  IInv' /\ Keeps("MANIFEST")
<1>1. /\ pc' = "down" /\ batch' = <<>> /\ opened' = "no" /\ ssts' = ssts
      /\ level_tables' = <<>> /\ table_levels' = <<>> /\ creations' = 0 /\ deletions' = 0
  BY DEF Crash, Cleared
<1>2. DOMAIN table_levels' = {}
  BY <1>1, NothingKnown
<1>3. FilesTyped /\ Shape /\ "REWRITE" \in Names /\ "MANIFEST" \in Names
  BY FilesInShape DEF IInv, Names
<1>4. FilesTyped' /\ Keeps("MANIFEST")
  <2>1. CASE files' = files
    BY <1>3, <2>1 DEF FilesTyped, Keeps, Contents
  <2>2. CASE files' \in Interrupted("MANIFEST", batch)
    <3>1. batch \in Seq(Changes)
      BY <1>3 DEF Shape
    <3> QED BY <1>3, <2>2, <3>1, InterruptedFile
  <2>3. CASE files' \in Interrupted("REWRITE", ParseFromManifest)
    BY <1>3, <2>3, InterruptedFile, ParseRecords
  <2> QED BY <2>1, <2>2, <2>3 DEF Crash
<1>5. Shape'
  <2>1. IsFiniteSet({})
    BY FS_EmptySet
  <2>2. <<>> \in Seq(SUBSET Tables) /\ Len(<<>>) = 0 /\ <<>> \in Seq(Changes)
    OBVIOUS
  <2> QED BY <1>1, <1>2, <1>3, <1>4, <2>1, <2>2 DEF Shape, FilesTyped, Files, Names
<1> QED BY <1>1, <1>2, <1>4, <1>5
    DEF IInv, EmptyWhenDown, MapsAgree, KnownIsListed, ListedIsKnown,
        MissedBySizeOnly, Saved

\* A crash loses the process and no file.
LEMMA RestartInvariant ==
    ASSUME IInv, Restart
    PROVE  IInv'
<1>1. Shape'
  BY DEF IInv, Shape, Restart, memory, bounds
<1> QED BY <1>1
    DEF IInv, Restart, EmptyWhenDown, MapsAgree, KnownIsListed, ListedIsKnown,
        MissedBySizeOnly, Saved, memory

\* A step that changes nothing of Manifest.
LEMMA StutterInvariant ==
    ASSUME IInv, UNCHANGED vars
    PROVE  IInv'
<1>1. Shape'
  BY DEF IInv, Shape, vars, memory
<1> QED BY <1>1
    DEF IInv, vars, memory, EmptyWhenDown, MapsAgree, KnownIsListed, ListedIsKnown,
        MissedBySizeOnly, Saved, Contents

\* Every step keeps the invariant.
LEMMA NextInvariant == IInv /\ [Next]_vars => IInv'
<1> SUFFICES ASSUME IInv, [Next]_vars PROVE IInv'
  OBVIOUS
<1>1. ASSUME NEW t \in Tables, WriteTable(t) PROVE IInv'
  BY <1>1, WriteTableInvariant
<1>2. ASSUME NEW b \in Batches, AddChanges(b) PROVE IInv'
  BY <1>2, AddChangesInvariant
<1>3. CASE AppendBatch
  BY <1>3, AppendBatchInvariant
<1>4. CASE RewriteAppend
  BY <1>4, RewriteAppendInvariant
<1>5. CASE RewriteRename
  BY <1>5, RewriteRenameInvariant
<1>6. CASE RewriteFails
  BY <1>6, RewriteFailsInvariant
<1>7. CASE OpenManifestFile
  BY <1>7, OpenInvariant
<1>8. CASE SkipOpen
  BY <1>8, SkipOpenInvariant
<1>9. CASE RevertToManifest
  BY <1>9, RevertInvariant
<1>10. CASE Crash
  BY <1>10, CrashInvariant
<1>11. CASE Restart
  BY <1>11, RestartInvariant
<1>12. CASE UNCHANGED vars
  BY <1>12, StutterInvariant
<1> QED
  BY <1>1, <1>2, <1>3, <1>4, <1>5, <1>6, <1>7, <1>8, <1>9, <1>10, <1>11, <1>12 DEF Next

-----------------------------------------------------------------------------
(* The theorems                                                            *)

\* The inductive invariant holds in every state of every behaviour.
THEOREM ManifestInvariant == Spec => []IInv
<1>1. Init => IInv
  BY InitInvariant
<1>2. IInv /\ [Next]_vars => IInv'
  BY NextInvariant
<1> QED BY <1>1, <1>2, PTL DEF Spec

\* Type correctness: among it, no change ever makes level_tables_map longer than
\* the levels there are, and no name but the two is ever a manifest file.
THEOREM ManifestTypeCorrect == Spec => []TypeOK
<1>1. IInv => TypeOK
  BY DEF IInv, Shape, TypeOK
<1> QED BY <1>1, ManifestInvariant, PTL

\* After any number of changes, in any order, level_tables_map has every table on
\* the level table_levels_map names for it, and no table but the known ones; only a
\* change for the level right behind the last one is applied out of bounds.
THEOREM MapsTheorem == Spec => []MapsAgree
<1>1. IInv => MapsAgree
  BY DEF IInv
<1> QED BY <1>1, ManifestInvariant, PTL

\* Whatever AddChanges, ReWrite and crashes did, between two calls every table
\* the process knows is in the file MANIFEST.
THEOREM RecordedTheorem == Spec => []KnownIsRecorded
<1>1. IInv => KnownIsRecorded
  BY RecordedIsInBatches DEF IInv, Saved, KnownIsRecorded
<1> QED BY <1>1, ManifestInvariant, PTL

\* A record leaves MANIFEST by the rename of ReWrite only, and then the process
\* does not know the table on that level any more.
LEMMA LosesNothing ==
    ASSUME IInv, [Next]_vars, NEW t \in Tables, NEW l \in Levels,
           Recorded(t, l), ~ Recorded(t, l)'
    PROVE  pc = "rename" /\ ~ (t \in DOMAIN table_levels /\ table_levels[t] = l)
<1>1. /\ InBatches(Contents("MANIFEST"), t, l)
      /\ ~ InBatches(Contents("MANIFEST")', t, l)
  BY DEF Recorded, InBatches, InBatch
<1>2. ~ Keeps("MANIFEST")
  BY <1>1 DEF Keeps
<1>3. files' # files
  BY <1>1 DEF Contents
<1>4. RewriteRename
  <2>1. ~ AppendBatch /\ ~ RewriteAppend /\ ~ OpenManifestFile /\ ~ Crash
    BY <1>2, AppendBatchInvariant, RewriteAppendInvariant, OpenInvariant, CrashInvariant
  <2>2. /\ \A s \in Tables : ~ WriteTable(s)
        /\ \A b \in Batches : ~ AddChanges(b)
        /\ ~ RewriteFails /\ ~ SkipOpen /\ ~ RevertToManifest /\ ~ Restart
        /\ ~ UNCHANGED vars
    BY <1>3 DEF WriteTable, AddChanges, RewriteFails, SkipOpen, RevertToManifest, Restart, vars
  <2> QED BY <2>1, <2>2 DEF Next
<1>5. \A s \in DOMAIN table_levels : InBatches(Contents("MANIFEST")', s, table_levels[s])
  BY <1>4, RewriteRenameInvariant
<1> QED BY <1>1, <1>4, <1>5 DEF RewriteRename

\* A crash at any step of ReWrite, or of any other call, loses nothing known.
THEOREM RewriteTheorem == Spec => RewriteLosesNothing
<1>1. IInv /\ [Next]_vars =>
        [\A t \in Tables, l \in Levels :
            Recorded(t, l) /\ ~ Recorded(t, l)'
                => pc = "rename" /\ ~ (t \in DOMAIN table_levels /\ table_levels[t] = l)]_vars
  BY LosesNothing
<1> QED BY <1>1, ManifestInvariant, PTL DEF Spec, RewriteLosesNothing
=============================================================================
