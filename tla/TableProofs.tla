---------------------------- MODULE TableProofs -----------------------------
(***************************************************************************)
(* Proofs about FileWriter, for every size of the buffer, every sequence   *)
(* of calls and every number of partial and failing writes; and about      *)
(* Table and TableBuilder on one, for every set of keys, every size of     *)
(* blocks and every filter policy.  Bytes is the set of what an owner of a *)
(* FileWriter may append.                                                  *)
(***************************************************************************)
EXTENDS Table, SequenceTheorems, FiniteSetTheorems, TLAPS

-----------------------------------------------------------------------------
(* FileWriter: the inductive invariant                                     *)

\* While Writen runs, the buffer is empty: what it writes was copied out.
Shape(Bytes) ==
    /\ {file, buffer, pending, rest} \subseteq Seq([number : Nat, item : Bytes])
    /\ Len(buffer) <= BufferSize
    /\ call \in {"none", "append", "rest", "flush", "close"}
    /\ call = "none" => pending = <<>> /\ rest = <<>>
    /\ call # "none" => buffer = <<>> /\ is_open
    /\ call # "append" => rest = <<>>
    /\ result \in BOOLEAN /\ is_open \in BOOLEAN
    /\ appended \in Nat /\ failures \in 0 .. MaxFailures

\* Numbers are given out in order, so what is appended comes last.
NumbersGivenOut == \A i \in 1 .. Len(Stream) : Stream[i].number <= appended

FileIInv(Bytes) == Shape(Bytes) /\ NumbersGivenOut /\ StreamIsKept

-----------------------------------------------------------------------------
USE BufferSizeAssumption, MaxFailuresAssumption

\* The four parts in which the bytes travel are one sequence.
LEMMA StreamType ==
    ASSUME NEW Bytes, Shape(Bytes)
    PROVE  /\ Stream \in Seq([number : Nat, item : Bytes])
           /\ Len(Stream) \in Nat
           /\ Len(Stream) = Len(file) + Len(pending) + Len(rest) + Len(buffer)
<1> DEFINE B == [number : Nat, item : Bytes]
<1>1. file \in Seq(B) /\ buffer \in Seq(B) /\ pending \in Seq(B) /\ rest \in Seq(B)
  BY DEF Shape
<1> HIDE DEF B
<1>2. file \o pending \in Seq(B) /\ Len(file \o pending) = Len(file) + Len(pending)
  BY <1>1, ConcatProperties
<1>3. /\ file \o pending \o rest \in Seq(B)
      /\ Len(file \o pending \o rest) = Len(file \o pending) + Len(rest)
  BY <1>1, <1>2, ConcatProperties
<1>4. Stream \in Seq(B) /\ Len(Stream) = Len(file \o pending \o rest) + Len(buffer)
  BY <1>1, <1>3, ConcatProperties DEF Stream
<1> QED BY <1>2, <1>3, <1>4, LenProperties DEF B

\* A call of Append puts its data at the end of the stream, whether the buffer
\* takes it or Writen is called.
LEMMA AppendEffect ==
    ASSUME NEW Bytes, Shape(Bytes), is_open,
           NEW items \in Seq(Bytes), AppendBytes(items)
    PROVE  /\ Shape(Bytes)'
           /\ Numbered(items) \in Seq([number : Nat, item : Bytes])
           /\ Len(Numbered(items)) = Len(items)
           /\ Stream' = Stream \o Numbered(items)
           /\ appended' = appended + Len(items) /\ failures' = failures
<1> DEFINE B == [number : Nat, item : Bytes]
           data == Numbered(items)
<1>1. data \in Seq(B) /\ Len(data) = Len(items) /\ Len(items) \in Nat
  <2>1. \A i \in 1 .. Len(items) : [number |-> appended + i, item |-> items[i]] \in B
    BY DEF Shape
  <2> QED BY <2>1 DEF Numbered
<1>2. file \in Seq(B) /\ buffer \in Seq(B) /\ pending = <<>> /\ rest = <<>>
  BY DEF Shape, AppendBytes
<1>b. B = [number : Nat, item : Bytes]
  OBVIOUS
<1> HIDE DEF B, data
<1>3. Stream = file \o buffer
  <2>1. file \o <<>> = file
    BY <1>2, ConcatEmptySeq
  <2> QED BY <1>2, <2>1 DEF Stream
<1>4. CASE Len(data) <= Room
  <2>1. /\ buffer' = buffer \o data
        /\ UNCHANGED <<file, pending, rest, call, is_open, failures>>
        /\ result' = TRUE /\ appended' = appended + Len(items)
    BY <1>4 DEF AppendBytes, data
  <2>2. buffer' \in Seq(B) /\ Len(buffer') <= BufferSize
    <3>1. buffer \o data \in Seq(B) /\ Len(buffer \o data) = Len(buffer) + Len(data)
      BY <1>1, <1>2, ConcatProperties
    <3>2. Len(buffer) \in Nat
      BY <1>2, LenProperties
    <3> QED BY <1>1, <1>4, <2>1, <3>1, <3>2 DEF Room
  <2>3. Stream' = file \o (buffer \o data)
    <3>1. file \o <<>> = file
      BY <1>2, ConcatEmptySeq
    <3> QED BY <1>2, <2>1, <3>1 DEF Stream
  <2>4. Stream' = Stream \o data
    <3>1. (file \o buffer) \o data = file \o (buffer \o data)
      BY <1>1, <1>2, ConcatAssociative
    <3> QED BY <1>3, <2>3, <3>1
  <2>5. Shape(Bytes)'
    BY <1>1, <1>2, <1>b, <2>1, <2>2 DEF Shape, AppendBytes
  <2> QED BY <1>1, <1>b, <2>1, <2>4, <2>5 DEF data
<1>5. CASE ~ (Len(data) <= Room)
  <2> DEFINE first == SubSeq(data, 1, Room)
             last  == SubSeq(data, Room + 1, Len(data))
  <2>1. /\ pending' = buffer \o first /\ rest' = last
        /\ buffer' = <<>> /\ call' = "append"
        /\ UNCHANGED <<file, result, is_open, failures>>
        /\ appended' = appended + Len(items)
    BY <1>5 DEF AppendBytes, data
  <2>2. Room \in 0 .. Len(data)
    BY <1>1, <1>2, <1>5 DEF Room, Shape
  <2>3. first \in Seq(B) /\ last \in Seq(B) /\ first \o last = data
    <3>1. 1 \in 1 .. Len(data) + 1 /\ Room \in 1 - 1 .. Len(data) /\ Len(data) \in Room .. Len(data)
      BY <1>1, <2>2
    <3>2. first \o last = SubSeq(data, 1, Len(data))
      BY <1>1, <3>1, ConcatAdjacentSubSeq
    <3>3. SubSeq(data, 1, Len(data)) = data
      BY <1>1, SubSeqFull
    <3>4. first \in Seq(B) /\ last \in Seq(B)
      BY <1>1, <2>2, SubSeqProperties, ElementOfSeq
    <3> QED BY <3>2, <3>3, <3>4
  <2> HIDE DEF first, last
  <2>4. Stream' = Stream \o data
    <3>1. pending' \in Seq(B) /\ file \o pending' \in Seq(B) /\ file \o pending' \o rest' \in Seq(B)
      BY <1>2, <2>1, <2>3, ConcatProperties
    <3>2. Stream' = file \o pending' \o rest'
      BY <2>1, <3>1, ConcatEmptySeq DEF Stream
    <3>3. file \o pending' = Stream \o first
      <4>1. (file \o buffer) \o first = file \o (buffer \o first)
        BY <1>2, <2>3, ConcatAssociative
      <4> QED BY <1>3, <2>1, <4>1
    <3>4. Stream \in Seq(B)
      BY <1>2, <1>3, ConcatProperties
    <3>5. (Stream \o first) \o last = Stream \o (first \o last)
      <4>1. first \in Seq(B) /\ last \in Seq(B)
        BY <2>3
      <4> QED BY <3>4, <4>1, ConcatAssociative
    <3> QED BY <2>1, <2>3, <3>2, <3>3, <3>5
  <2>5. Shape(Bytes)'
    <3>1. pending' \in Seq(B)
      BY <1>2, <2>1, <2>3, ConcatProperties
    <3>2. Len(<<>>) = 0 /\ <<>> \in Seq(B)
      OBVIOUS
    <3> QED BY <1>1, <1>2, <1>b, <2>1, <2>3, <3>1, <3>2 DEF Shape, AppendBytes
  <2> QED BY <1>1, <1>b, <2>1, <2>4, <2>5 DEF data
<1> QED BY <1>4, <1>5

\* FlushBuffer and Close hand the buffer to Writen.
LEMMA HandOver ==
    ASSUME NEW Bytes, Shape(Bytes), is_open, FlushBuffer \/ Close
    PROVE  /\ Shape(Bytes)' /\ Stream' = Stream
           /\ appended' = appended /\ failures' = failures
<1> DEFINE B == [number : Nat, item : Bytes]
<1>1. file \in Seq(B) /\ buffer \in Seq(B) /\ pending = <<>> /\ rest = <<>>
  BY DEF Shape, FlushBuffer, Close
<1>2. /\ pending' = buffer /\ buffer' = <<>> /\ call' \in {"flush", "close"}
      /\ UNCHANGED <<file, rest, result, is_open, appended, failures>>
  BY DEF FlushBuffer, Close
<1>3. Shape(Bytes)'
  BY <1>1, <1>2 DEF Shape
<1>4. Stream = file \o buffer /\ Stream' = file \o buffer
  <2> HIDE DEF B
  <2>1. file \o <<>> = file /\ file \o buffer \in Seq(B)
    BY <1>1, ConcatProperties, ConcatEmptySeq
  <2>2. file \o buffer \o <<>> = file \o buffer
    BY <2>1, ConcatEmptySeq
  <2> QED BY <1>1, <1>2, <2>1, <2>2 DEF Stream
<1> QED BY <1>2, <1>3, <1>4

\* A partial write moves the front of what is pending to the end of the file.
LEMMA WriteEffect ==
    ASSUME NEW Bytes, Shape(Bytes), NEW n \in 1 .. Len(pending), WriteSome(n)
    PROVE  /\ Shape(Bytes)' /\ Stream' = Stream
           /\ appended' = appended /\ failures' = failures
<1> DEFINE B == [number : Nat, item : Bytes]
           first == SubSeq(pending, 1, n)
           last  == SubSeq(pending, n + 1, Len(pending))
<1>1. file \in Seq(B) /\ buffer \in Seq(B) /\ pending \in Seq(B) /\ rest \in Seq(B)
  BY DEF Shape
<1>2. file' = file \o first /\ pending' = last /\ UNCHANGED <<buffer, rest, call, result, is_open, appended, failures>>
  BY DEF WriteSome
<1>3. Len(pending) \in Nat /\ n \in 1 .. Len(pending) /\ pending # <<>>
  BY <1>1
<1>b. B = [number : Nat, item : Bytes]
  OBVIOUS
<1> HIDE DEF B
<1>4. first \in Seq(B) /\ last \in Seq(B)
  BY <1>1, <1>3, SubSeqProperties, ElementOfSeq
<1>5. first \o last = pending
  <2>1. 1 \in 1 .. Len(pending) + 1 /\ n \in 1 - 1 .. Len(pending) /\ Len(pending) \in n .. Len(pending)
    BY <1>3
  <2>2. first \o last = SubSeq(pending, 1, Len(pending))
    BY <1>1, <2>1, ConcatAdjacentSubSeq
  <2> QED BY <1>1, <2>2, SubSeqFull
<1> HIDE DEF first, last
<1>6. (file \o first) \o last = file \o (first \o last)
  <2>1. file \in Seq(B) /\ first \in Seq(B) /\ last \in Seq(B)
    BY <1>1, <1>4
  <2> QED BY <2>1, ConcatAssociative
<1>7. Stream' = Stream
  BY <1>2, <1>5, <1>6 DEF Stream
<1>8. file' \in Seq(B) /\ pending' \in Seq(B)
  BY <1>1, <1>2, <1>4, ConcatProperties
<1>9. call # "none"
  BY <1>3 DEF Shape
<1> QED BY <1>1, <1>2, <1>7, <1>8, <1>9, <1>b DEF Shape

\* After a failing write only the file is left of the stream.
LEMMA FailEffect ==
    ASSUME NEW Bytes, Shape(Bytes), WriteFails
    PROVE  /\ Shape(Bytes)'
           /\ \A i \in 1 .. Len(Stream') : i \in 1 .. Len(Stream) /\ Stream'[i] = Stream[i]
           /\ appended' = appended /\ failures' > 0
<1> DEFINE B == [number : Nat, item : Bytes]
<1>1. file \in Seq(B) /\ buffer = <<>> /\ pending \in Seq(B) /\ rest \in Seq(B)
  BY DEF Shape, WriteFails
<1>2. Shape(Bytes)' /\ appended' = appended /\ failures' > 0
  <2>1. result' \in BOOLEAN /\ is_open' \in BOOLEAN
    BY DEF Shape, WriteFails
  <2>2. failures' \in 0 .. MaxFailures /\ failures' > 0 /\ UNCHANGED <<file, buffer, appended>>
    BY DEF Shape, WriteFails
  <2>3. pending' = <<>> /\ rest' = <<>> /\ call' = "none"
    BY DEF WriteFails
  <2> QED BY <1>1, <2>1, <2>2, <2>3 DEF Shape
<1> HIDE DEF B
<1>3. Stream' = file
  <2>1. file' = file /\ pending' = <<>> /\ rest' = <<>> /\ buffer' = <<>>
    BY <1>1 DEF WriteFails
  <2>2. file \o <<>> = file
    BY <1>1, ConcatEmptySeq
  <2> QED BY <2>1, <2>2 DEF Stream
<1>4. Stream = file \o (pending \o rest)
  <2>1. (file \o pending) \o rest = file \o (pending \o rest)
    BY <1>1, ConcatAssociative
  <2>2. file \o pending \o rest \in Seq(B)
    BY <1>1, ConcatProperties
  <2>3. file \o pending \o rest \o <<>> = file \o pending \o rest
    BY <2>2, ConcatEmptySeq
  <2> QED BY <1>1, <2>1, <2>3 DEF Stream
<1>5. pending \o rest \in Seq(B)
  BY <1>1, ConcatProperties
<1>6. Len(file) \in Nat /\ Len(pending \o rest) \in Nat
  BY <1>1, <1>5, LenProperties
<1>7. ASSUME NEW i \in 1 .. Len(file)
      PROVE  i \in 1 .. Len(Stream) /\ file[i] = Stream[i]
  <2>1. i \in 1 .. Len(file) + Len(pending \o rest)
    BY <1>6
  <2> QED BY <1>1, <1>4, <1>5, <1>6, <2>1, ConcatProperties
<1> QED BY <1>2, <1>3, <1>7

\* When Writen returns, what is left of an Append goes to the buffer, or to
\* Writen again.
LEMMA ReturnEffect ==
    ASSUME NEW Bytes, Shape(Bytes), AppendRest \/ Written
    PROVE  /\ Shape(Bytes)' /\ Stream' = Stream
           /\ appended' = appended /\ failures' = failures
<1> DEFINE B == [number : Nat, item : Bytes]
<1>1. file \in Seq(B) /\ buffer = <<>> /\ pending = <<>> /\ rest \in Seq(B) /\ file' = file
  BY DEF Shape, AppendRest, Written
<1>2. Stream = file \o rest
  <2> HIDE DEF B
  <2>1. file \o <<>> = file /\ file \o rest \in Seq(B)
    BY <1>1, ConcatProperties, ConcatEmptySeq
  <2>2. file \o rest \o <<>> = file \o rest
    BY <2>1, ConcatEmptySeq
  <2> QED BY <1>1, <2>1, <2>2 DEF Stream
<1>3. CASE AppendRest
  <2>1. rest' = <<>> /\ \/ buffer' = rest /\ pending' = <<>>
                        \/ buffer' = <<>> /\ pending' = rest
    BY <1>1, <1>3 DEF AppendRest, BufferRest
  <2>2. Shape(Bytes)'
    <3>1. is_open' /\ result' \in BOOLEAN /\ is_open' \in BOOLEAN
      BY <1>3 DEF Shape, AppendRest
    <3>2. UNCHANGED <<file, appended, failures>> /\ call' \in {"none", "rest"}
      BY <1>3 DEF AppendRest
    <3>3. Len(buffer') <= BufferSize
      BY <1>1, <1>3 DEF AppendRest, BufferRest
    <3>4. call' = "none" => pending' = <<>>
      BY <1>1, <1>3 DEF AppendRest
    <3>5. call' = "rest" => buffer' = <<>>
      BY <1>1, <1>3 DEF AppendRest
    <3>6. file' \in Seq(B) /\ buffer' \in Seq(B) /\ pending' \in Seq(B) /\ rest' = <<>>
      <4>1. <<>> \in Seq(B)
        OBVIOUS
      <4> QED BY <1>1, <2>1, <4>1
    <3> QED BY <3>1, <3>2, <3>3, <3>4, <3>5, <3>6 DEF Shape
  <2>3. Stream' = file \o rest
    <3> HIDE DEF B
    <3>1. file \o <<>> = file /\ file \o rest \in Seq(B)
      BY <1>1, ConcatProperties, ConcatEmptySeq
    <3>2. file \o rest \o <<>> = file \o rest
      BY <3>1, ConcatEmptySeq
    <3> QED BY <1>1, <2>1, <3>1, <3>2 DEF Stream
  <2> QED BY <1>2, <1>3, <2>2, <2>3 DEF AppendRest
<1>4. CASE Written
  <2>1. Shape(Bytes)'
    <3>1. result' \in BOOLEAN /\ is_open' \in BOOLEAN
      BY <1>4 DEF Shape, Written
    <3>2. UNCHANGED <<file, buffer, pending, rest, appended, failures>> /\ call' = "none" /\ rest = <<>>
      BY <1>4 DEF Shape, Written
    <3> QED BY <1>1, <3>1, <3>2 DEF Shape
  <2> QED BY <1>4, <2>1 DEF Written, Stream
<1> QED BY <1>3, <1>4

-----------------------------------------------------------------------------
(* The steps keep the invariant                                            *)

\* Numbers that follow all those given out keep the order of the stream.
LEMMA AppendKeepsStream ==
    ASSUME NEW Bytes, FileIInv(Bytes), is_open,
           NEW items \in Seq(Bytes), AppendBytes(items)
    PROVE  FileIInv(Bytes)'
<1> DEFINE B == [number : Nat, item : Bytes]
           data == Numbered(items)
<1>1. Shape(Bytes)
  BY DEF FileIInv
<1>2. /\ Shape(Bytes)' /\ data \in Seq(B) /\ Len(data) = Len(items)
      /\ Stream' = Stream \o data
      /\ appended' = appended + Len(items) /\ failures' = failures
  BY <1>1, AppendEffect
<1>3. Stream \in Seq(B) /\ Len(Stream) \in Nat /\ Len(items) \in Nat /\ appended \in Nat
  <2>1. Stream \in Seq(B) /\ Len(Stream) \in Nat
    BY <1>1, StreamType
  <2>2. Len(items) \in Nat /\ appended \in Nat
    BY <1>1 DEF Shape
  <2> QED BY <2>1, <2>2
<1>4. \A i \in 1 .. Len(data) : data[i].number = appended + i
  BY <1>2 DEF Numbered
<1> HIDE DEF data
<1>5. /\ Len(Stream') = Len(Stream) + Len(items)
      /\ \A i \in 1 .. Len(Stream') :
            Stream'[i] = IF i <= Len(Stream) THEN Stream[i] ELSE data[i - Len(Stream)]
  <2> HIDE DEF B
  <2>1. Stream \in Seq(B) /\ data \in Seq(B)
    BY <1>2, <1>3
  <2>2. /\ Len(Stream \o data) = Len(Stream) + Len(data)
        /\ \A i \in 1 .. Len(Stream) + Len(data) :
              (Stream \o data)[i] = IF i <= Len(Stream) THEN Stream[i] ELSE data[i - Len(Stream)]
    BY <2>1, ConcatProperties
  <2> QED BY <1>2, <2>2
<1>6. \A i \in 1 .. Len(Stream') :
         \/ i \in 1 .. Len(Stream) /\ Stream'[i] = Stream[i]
         \/ i > Len(Stream) /\ Stream'[i].number = appended + (i - Len(Stream))
  <2> TAKE i \in 1 .. Len(Stream')
  <2>1. CASE i <= Len(Stream)
    <3>1. i \in 1 .. Len(Stream)
      BY <1>3, <1>5, <2>1
    <3>2. Stream'[i] = Stream[i]
      BY <1>5, <2>1, Zenon
    <3> QED BY <3>1, <3>2
  <2>2. CASE ~ (i <= Len(Stream))
    <3>1. i > Len(Stream) /\ i - Len(Stream) \in 1 .. Len(items)
      BY <1>3, <1>5, <2>2
    <3>2. Stream'[i] = data[i - Len(Stream)]
      BY <1>5, <2>2, Zenon
    <3>3. data[i - Len(Stream)].number = appended + (i - Len(Stream))
      BY <1>2, <1>4, <3>1
    <3> QED BY <3>1, <3>2, <3>3
  <2> QED BY <2>1, <2>2
<1>7. \A i \in 1 .. Len(Stream) : Stream[i].number \in Nat
  <2>1. \A i \in 1 .. Len(Stream) : Stream[i] \in B
    <3> HIDE DEF B
    <3> QED BY <1>3, ElementOfSeq
  <2> QED BY <2>1
<1>8. NumbersGivenOut'
  <2> SUFFICES ASSUME NEW i \in 1 .. Len(Stream')
               PROVE  Stream'[i].number <= appended'
    BY DEF NumbersGivenOut
  <2>1. CASE i \in 1 .. Len(Stream) /\ Stream'[i] = Stream[i]
    <3>1. Stream[i].number \in Nat /\ Stream[i].number <= appended
      BY <1>7, <2>1 DEF FileIInv, NumbersGivenOut
    <3> QED BY <1>2, <1>3, <2>1, <3>1
  <2>2. CASE i > Len(Stream) /\ Stream'[i].number = appended + (i - Len(Stream))
    <3>1. i - Len(Stream) <= Len(items) /\ i - Len(Stream) \in Nat
      BY <1>3, <1>5, <2>2
    <3> QED BY <1>2, <1>3, <2>2, <3>1
  <2> QED BY <1>6, <2>1, <2>2
<1>9. KeptInOrder'
  <2> SUFFICES ASSUME NEW i \in 1 .. Len(Stream'), NEW j \in 1 .. Len(Stream'), i < j
               PROVE  Stream'[i].number < Stream'[j].number
    BY DEF KeptInOrder
  <2>1. CASE j <= Len(Stream)
    <3>1. i \in 1 .. Len(Stream) /\ j \in 1 .. Len(Stream)
      BY <1>3, <1>5, <2>1
    <3>2. Stream'[i] = Stream[i] /\ Stream'[j] = Stream[j]
      BY <1>3, <1>6, <3>1
    <3>3. Stream[i].number < Stream[j].number
      BY <3>1 DEF FileIInv, StreamIsKept, KeptInOrder
    <3> QED BY <3>2, <3>3
  <2>2. CASE i > Len(Stream)
    <3>1. /\ Stream'[i].number = appended + (i - Len(Stream))
          /\ Stream'[j].number = appended + (j - Len(Stream))
      BY <1>3, <1>6, <2>2
    <3>2. i \in Nat /\ j \in Nat
      OBVIOUS
    <3> QED BY <1>3, <3>1, <3>2
  <2>3. CASE i <= Len(Stream) /\ j > Len(Stream)
    <3>1. Stream'[i].number \in Nat /\ Stream'[i].number <= appended
      <4>1. i \in 1 .. Len(Stream)
        BY <1>3, <2>3
      <4>2. Stream'[i] = Stream[i]
        BY <1>6, <4>1
      <4>3. Stream[i].number \in Nat
        BY <1>7, <4>1
      <4>4. Stream[i].number <= appended
        BY <4>1 DEF FileIInv, NumbersGivenOut
      <4> QED BY ONLY <4>2, <4>3, <4>4
    <3>2. Stream'[j].number = appended + (j - Len(Stream)) /\ j - Len(Stream) \in Nat
          /\ j - Len(Stream) > 0
      BY <1>3, <1>6, <2>3
    <3> HIDE DEF B, data
    <3> QED BY <1>3, <3>1, <3>2
  <2> QED BY <1>3, <1>5, <2>1, <2>2, <2>3
<1>10. OnlyFailureLoses'
  <2> SUFFICES ASSUME failures = 0
               PROVE  /\ Len(Stream') = appended'
                      /\ \A i \in 1 .. Len(Stream') : Stream'[i].number = i
    BY <1>2 DEF OnlyFailureLoses
  <2>1. Len(Stream) = appended /\ \A i \in 1 .. Len(Stream) : Stream[i].number = i
    BY DEF FileIInv, StreamIsKept, OnlyFailureLoses
  <2> QED BY <1>2, <1>3, <1>5, <1>6, <2>1
<1> QED BY <1>2, <1>8, <1>9, <1>10 DEF FileIInv, StreamIsKept

\* A step that moves no byte past another keeps the order.
LEMMA SameStream ==
    ASSUME NEW Bytes, FileIInv(Bytes), Shape(Bytes)', Stream' = Stream,
           appended' = appended, failures' = failures
    PROVE  FileIInv(Bytes)'
BY DEF FileIInv, NumbersGivenOut, StreamIsKept, KeptInOrder, OnlyFailureLoses

\* Every call and every step of a call keeps the invariant.
LEMMA FileNextInvariant ==
    ASSUME NEW Bytes, FileIInv(Bytes), [FileCall(Bytes) \/ FileStep]_file_vars
    PROVE  FileIInv(Bytes)'
<1>1. Shape(Bytes)
  BY DEF FileIInv
<1>2. ASSUME NEW items \in Seq(Bytes), is_open, AppendBytes(items) PROVE FileIInv(Bytes)'
  BY <1>2, AppendKeepsStream
<1>3. CASE is_open /\ (FlushBuffer \/ Close)
  BY <1>1, <1>3, HandOver, SameStream
<1>4. ASSUME NEW n \in 1 .. Len(pending), WriteSome(n) PROVE FileIInv(Bytes)'
  BY <1>1, <1>4, WriteEffect, SameStream
<1>5. CASE WriteFails
  <2>1. /\ Shape(Bytes)'
        /\ \A i \in 1 .. Len(Stream') : i \in 1 .. Len(Stream) /\ Stream'[i] = Stream[i]
        /\ appended' = appended /\ failures' > 0
    BY <1>1, <1>5, FailEffect
  <2>2. NumbersGivenOut' /\ KeptInOrder'
    BY <2>1 DEF FileIInv, NumbersGivenOut, StreamIsKept, KeptInOrder
  <2>3. OnlyFailureLoses'
    BY <2>1 DEF OnlyFailureLoses
  <2> QED BY <2>1, <2>2, <2>3 DEF FileIInv, StreamIsKept
<1>6. CASE AppendRest \/ Written
  BY <1>1, <1>6, ReturnEffect, SameStream
<1>7. CASE UNCHANGED file_vars
  <2>1. Stream' = Stream /\ appended' = appended /\ failures' = failures
    BY <1>7 DEF file_vars, Stream
  <2>2. Shape(Bytes)'
    BY <1>1, <1>7 DEF file_vars, Shape
  <2> QED BY <2>1, <2>2, SameStream
<1> QED BY <1>2, <1>3, <1>4, <1>5, <1>6, <1>7 DEF FileCall, FileStep

\* A new FileWriter satisfies the invariant.
LEMMA FileInitInvariant ==
    ASSUME NEW Bytes, FileInit
    PROVE  FileIInv(Bytes)
<1>1. Shape(Bytes)
  BY DEF FileInit, Shape
<1>2. Stream = <<>>
  BY DEF FileInit, Stream
<1> QED BY <1>1, <1>2 DEF FileInit, FileIInv, NumbersGivenOut, StreamIsKept,
                          KeptInOrder, OnlyFailureLoses

\* Every sequence of calls on an open writer keeps the order of the bytes
\* (FileWriter::Append, FlushBuffer, Close and Writen, src/src/file/file.cpp),
\* and all of them as long as no write fails.
THEOREM StreamTheorem ==
    ASSUME NEW CONSTANT Bytes
    PROVE  FileSpec(Bytes) => []StreamIsKept
<1>1. FileInit => FileIInv(Bytes)
  BY FileInitInvariant
<1>2. FileIInv(Bytes) /\ [FileCall(Bytes) \/ FileStep]_file_vars => FileIInv(Bytes)'
  BY FileNextInvariant
<1>3. FileIInv(Bytes) => StreamIsKept
  BY DEF FileIInv
<1> QED BY <1>1, <1>2, <1>3, PTL DEF FileSpec

\* A bound on what a call of the writer still does: the bytes that write(2) has
\* not taken, if it takes one at a time, and the returns of Writen.
WritesLeft ==
    CASE call = "append"                    -> Len(pending) + Len(rest) + 2
      [] call \in {"rest", "flush", "close"} -> Len(pending) + 1
      [] OTHER                              -> 0

\* Every step takes a call nearer to its end.
FileStepCounts == FileStep => WritesLeft' < WritesLeft

\* The bound is a number, and 0 when no call is in progress.
WritesAreBounded == WritesLeft \in Nat /\ (call # "none" => WritesLeft > 0)

\* The invariant makes it one.
LEMMA WritesBounded ==
    ASSUME NEW Bytes, FileIInv(Bytes)
    PROVE  WritesAreBounded
BY DEF FileIInv, Shape, WritesLeft, WritesAreBounded

\* A step of Writen or of what follows it.
LEMMA FileCounts ==
    ASSUME NEW Bytes, FileIInv(Bytes), FileStep
    PROVE  WritesLeft' < WritesLeft
<1> DEFINE B == [number : Nat, item : Bytes]
<1>1. /\ pending \in Seq(B) /\ rest \in Seq(B) /\ Len(pending) \in Nat /\ Len(rest) \in Nat
      /\ call \in {"none", "append", "rest", "flush", "close"}
      /\ call = "none" => pending = <<>>
  BY DEF FileIInv, Shape
<1> HIDE DEF B
<1>2. Len(<<>>) = 0
  OBVIOUS
<1>3. ASSUME NEW n \in 1 .. Len(pending), WriteSome(n) PROVE WritesLeft' < WritesLeft
  <2>1. call # "none"
    BY <1>1, <1>2
  <2>2. Len(SubSeq(pending, n + 1, Len(pending))) = Len(pending) - n
    BY <1>1, SubSeqProperties
  <2>3. call' = call /\ rest' = rest /\ Len(pending') = Len(pending) - n
    BY <1>3, <2>2 DEF WriteSome
  <2> QED BY <1>1, <2>1, <2>3 DEF WritesLeft
<1>4. CASE WriteFails
  <2>1. call # "none" /\ call' = "none"
    BY <1>1, <1>4 DEF WriteFails
  <2> QED BY <1>1, <2>1 DEF WritesLeft
<1>5. CASE AppendRest
  <2>1. /\ call = "append" /\ pending = <<>>
        /\ \/ call' = "none"
           \/ call' = "rest" /\ pending' = rest
    BY <1>5 DEF AppendRest
  <2> QED BY <1>1, <1>2, <2>1 DEF WritesLeft
<1>6. CASE Written
  <2>1. call \in {"rest", "flush", "close"} /\ call' = "none"
    BY <1>6 DEF Written
  <2> QED BY <1>1, <2>1 DEF WritesLeft
<1> QED BY <1>3, <1>4, <1>5, <1>6 DEF FileStep

\* A call of Append, FlushBuffer or Close ends: write(2) may take as little as
\* one byte at a time or fail anywhere, and no step of Writen leaves it with
\* as much to do as before (file.cpp).
THEOREM WritenTheorem ==
    ASSUME NEW CONSTANT Bytes
    PROVE  FileSpec(Bytes) => []WritesAreBounded /\ [][FileStepCounts]_file_vars
<1>1. FileInit => FileIInv(Bytes)
  BY FileInitInvariant
<1>2. FileIInv(Bytes) /\ [FileCall(Bytes) \/ FileStep]_file_vars => FileIInv(Bytes)'
  BY FileNextInvariant
<1>3. FileIInv(Bytes) => WritesAreBounded
  BY WritesBounded
<1>4. FileIInv(Bytes) => [FileStepCounts]_file_vars
  BY FileCounts DEF FileStepCounts
<1> QED BY <1>1, <1>2, <1>3, <1>4, PTL DEF FileSpec

-----------------------------------------------------------------------------
(* TableBuilder and Table: the inductive invariant                         *)

Places == [offset : Nat, length : Nat]

IndexItems ==
    {IndexEntry(FindShortest(p, k), w) : p \in Keys \cup {<<>>}, k \in Keys, w \in Places}
    \cup {IndexEntry(p, w) : p \in Keys, w \in Places}

\* What a builder hands to its FileWriter.
Items ==
    {Entry(k) : k \in Keys} \cup {Restarts, Trailer} \cup IndexItems
    \cup {MetaEntry(w) : w \in Places}
    \cup [of : {"filter"}, bits : Seq(BOOLEAN), hash_num : Nat]
    \cup [of : {"footer"}, meta : Places, index : Places]

BuilderShape ==
    /\ filter \in BOOLEAN /\ need_index \in BOOLEAN
    /\ status \in BOOLEAN /\ finishing \in BOOLEAN
    /\ datas \subseteq Keys /\ IsFiniteSet(datas)
    /\ policy \in Seq(BOOLEAN)
    /\ block \in Seq(Keys)
    /\ CurrentSize(block) < BlockSize \/ block = <<>>
    /\ index \in Seq(IndexItems)
    /\ pre_key \in Keys \cup {<<>>}
    /\ at \in [Kinds -> Places]
    /\ block_offset \in Nat /\ entry_count \in Nat
    /\ pc \in {"ready", "trailer", "written", "flush", "close", "done"} \cup Kinds
    /\ writing \in Kinds

\* Which FileWriter call may be running, and what a writer without a failure says.
Control ==
    /\ pc # "done" => is_open /\ call # "close"
    /\ ~ is_open => buffer = <<>>
    /\ pc \in {"ready"} \cup Kinds => call = "none"
    /\ finishing => pc # "ready"
    /\ ~ finishing => pc \in {"ready", "trailer", "written", "flush"} /\ writing = "data"
    /\ pc \in Kinds => writing = pc
    /\ pc = "flush" => writing = "data"
    /\ writing \in {"filter", "meta"} => filter
    /\ failures = 0 => result /\ status
    /\ failures = 0 /\ pc \in {"close", "done"} => writing = "index"

\* What the builder has counted is what it has handed over, up to the block it
\* is writing.
Offsets ==
    failures = 0 =>
        /\ pc = "trailer" => /\ at[writing].offset = block_offset
                             /\ appended = block_offset + at[writing].length
        /\ pc = "written" => /\ at[writing].offset = block_offset
                             /\ appended = block_offset + at[writing].length + 1
        /\ pc \notin {"trailer", "written"} => block_offset = appended

\* A place of a stream s that has a trailer behind it, that holds a data block,
\* and that holds these items.
BlockIn(s, w) ==
    w.offset + w.length < Len(s) /\ s[w.offset + w.length + 1].item = Trailer
EntriesIn(s, w) ==
    /\ w.length > 0 /\ w.offset + w.length <= Len(s)
    /\ \A i \in 1 .. w.length - 1 : s[w.offset + i].item.of = "entry"
    /\ s[w.offset + w.length].item = Restarts
ItemsIn(s, w, items) ==
    /\ w.length = Len(items) /\ w.offset + w.length <= Len(s)
    /\ \A i \in 1 .. Len(items) : s[w.offset + i].item = items[i]
IndexedIn(s, ix) ==
    \A i \in 1 .. Len(ix) : BlockIn(s, ix[i].where) /\ EntriesIn(s, ix[i].where)

\* Finish has written the block of this kind, but for the trailer perhaps.
There(kind) ==
    /\ finishing
    /\ \/ writing = kind
       \/ kind = "filter" /\ writing = "meta"
       \/ kind # "data" /\ writing = "index" /\ filter

Complete(kind) == BlockIn(Stream, at[kind]) \/ (kind = writing /\ pc = "trailer")

DataBlocks ==
    failures = 0 =>
        /\ IndexedIn(Stream, index)
        /\ need_index => EntriesIn(Stream, at["data"]) /\ Complete("data")
        /\ writing = "data" /\ pc \in {"trailer", "written"} => EntriesIn(Stream, at["data"])
        /\ writing = "data" /\ pc = "written" => BlockIn(Stream, at["data"])

FinishBlocks ==
    failures = 0 =>
        /\ There("filter") => /\ Complete("filter")
                              /\ ItemsIn(Stream, at["filter"], FilterBlock(policy))
        /\ There("meta") => /\ Complete("meta")
                            /\ ItemsIn(Stream, at["meta"], <<MetaEntry(at["filter"]), Restarts>>)
        /\ There("index") => /\ Complete("index")
                             /\ ItemsIn(Stream, at["index"], Append(index, Restarts))
        /\ pc \in {"close", "done"} => Len(Stream) > 0 /\ Stream[Len(Stream)].item = Footer

BuilderIInv ==
    /\ FileIInv(Items) /\ BuilderShape /\ Control
    /\ Offsets /\ DataBlocks /\ FinishBlocks

-----------------------------------------------------------------------------
(* Types                                                                   *)

\* The number of hash functions, and the size of a filter in bits.
LEMMA BloomNumbers ==
    /\ HashNum \in Nat
    /\ \A n \in Nat : WholeBytes(n) \in Nat /\ Modulus(n) \in Nat
<1>1. BitsPerKey \in Nat /\ MinBits \in Nat /\ ByteBits \in Nat \ {0}
  BY BitsAssumption
<1>2. HashNum \in Nat
  BY <1>1 DEF HashNum
<1>3. \A n \in Nat : WholeBytes(n) \in Nat
  <2> TAKE n \in Nat
  <2>1. n + ByteBits - 1 \in Nat
    BY <1>1
  <2>2. ASSUME NEW a \in Nat, NEW d \in Nat \ {0} PROVE (a \div d) \in Nat
    BY <2>2
  <2>3. (n + ByteBits - 1) \div ByteBits \in Nat
    BY <1>1, <2>1, <2>2
  <2>4. ASSUME NEW a \in Nat, NEW d \in Nat PROVE a * d \in Nat
    BY <2>4
  <2> QED BY <1>1, <2>3, <2>4 DEF WholeBytes
<1>4. \A n \in Nat : Modulus(n) \in Nat
  <2> TAKE n \in Nat
  <2>1. ASSUME NEW a \in Nat, NEW d \in Nat PROVE a * d \in Nat
    BY <2>1
  <2>2. n * BitsPerKey \in Nat
    BY <1>1, <2>1
  <2> QED BY <1>1, <1>3, <2>2 DEF Modulus
<1> QED BY <1>2, <1>3, <1>4

\* CreateFilter appends bits to bits.
LEMMA CreateFilterType ==
    ASSUME NEW data \in Seq(BOOLEAN), NEW keys, IsFiniteSet(keys)
    PROVE  CreateFilter(data, keys) \in Seq(BOOLEAN)
<1> DEFINE n    == Cardinality(keys)
           ones == UNION {Positions(k, Modulus(n), HashNum) : k \in keys}
           new  == [i \in 1 .. WholeBytes(Modulus(n)) |-> i - 1 \in ones]
<1>1. WholeBytes(Modulus(n)) \in Nat
  BY FS_CardinalityType, BloomNumbers
<1>2. CreateFilter(data, keys) = data \o new
  BY DEF CreateFilter
<1> HIDE DEF ones
<1>3. new \in Seq(BOOLEAN)
  <2> DEFINE m == WholeBytes(Modulus(n))
  <2>1. new \in [1 .. m -> BOOLEAN]
    <3>1. \A i \in 1 .. m : new[i] = (i - 1 \in ones)
      BY Zenon
    <3>2. new = [i \in 1 .. m |-> new[i]]
      BY Zenon
    <3> HIDE DEF new, m
    <3>3. \A i \in 1 .. m : (i - 1 \in ones) \in BOOLEAN
      BY SMT
    <3>4. \A i \in 1 .. m : new[i] \in BOOLEAN
      BY <3>1, <3>3, Zenon
    <3> QED BY <3>2, <3>4, SMT
  <2> HIDE DEF m, new
  <2>2. m \in Nat
    BY <1>1 DEF m
  <2> QED BY <2>1, <2>2
<1> HIDE DEF new
<1> QED BY <1>2, <1>3, ConcatProperties

\* What the builder appends are items, whole blocks among them.
LEMMA ItemTypes ==
    ASSUME BuilderShape
    PROVE  /\ \A b \in Seq(Keys) : DataOf(b) \in Seq(Items) /\ Len(DataOf(b)) = Len(b) + 1
           /\ <<Trailer>> \in Seq(Items)
           /\ \A d \in Seq(BOOLEAN) : FilterBlock(d) \in Seq(Items)
           /\ <<MetaEntry(at["filter"]), Restarts>> \in Seq(Items)
           /\ \A ix \in Seq(IndexItems) : Append(ix, Restarts) \in Seq(Items)
           /\ <<Footer>> \in Seq(Items)
<1>1. Restarts \in Items /\ Trailer \in Items /\ (\A k \in Keys : Entry(k) \in Items)
  BY DEF Items
<1>2. IndexItems \subseteq Items
  BY DEF Items
<1>3. at["filter"] \in Places /\ at["meta"] \in Places /\ at["index"] \in Places
  BY DEF BuilderShape, Kinds
<1>4. MetaEntry(at["filter"]) \in Items
  BY <1>3 DEF Items
<1>5. Footer \in Items
  BY <1>3 DEF Items, Footer
<1>6. \A d \in Seq(BOOLEAN) : [of |-> "filter", bits |-> d, hash_num |-> HashNum] \in Items
  BY BloomNumbers DEF Items
<1> DEFINE I == Items  r == Restarts
<1> HIDE DEF I, r
<1>7. I = Items /\ r = Restarts
  BY DEF I, r
<1>8. \A x, y \in I : <<x>> \in Seq(I) /\ <<x, y>> \in Seq(I) /\ <<>> \in Seq(I)
  OBVIOUS
<1>9. ASSUME NEW b \in Seq(Keys)
      PROVE  DataOf(b) \in Seq(I) /\ Len(DataOf(b)) = Len(b) + 1
  <2> DEFINE es == [i \in 1 .. Len(b) |-> Entry(b[i])]
  <2>1. Len(b) \in Nat /\ \A i \in 1 .. Len(b) : b[i] \in Keys
    OBVIOUS
  <2>2. es \in Seq(I) /\ Len(es) = Len(b)
    BY <1>1, <1>7, <2>1
  <2>3. DataOf(b) = es \o <<r>> /\ <<r>> \in Seq(I) /\ Len(<<r>>) = 1
    BY <1>1, <1>7, <1>8 DEF DataOf
  <2> HIDE DEF es
  <2> QED BY <2>2, <2>3, ConcatProperties
<1>10. \A ix \in Seq(IndexItems) : Append(ix, r) \in Seq(I)
  <2> TAKE ix \in Seq(IndexItems)
  <2> DEFINE X == IndexItems
  <2> HIDE DEF X
  <2>1. X \subseteq I /\ ix \in Seq(X)
    BY <1>2, <1>7 DEF X
  <2>2. ix \in Seq(I) /\ r \in I
    BY <1>1, <1>7, <2>1
  <2> QED BY <2>2
<1>11. \A d \in Seq(BOOLEAN) : FilterBlock(d) \in Seq(I)
  BY <1>1, <1>6, <1>7, <1>8 DEF FilterBlock
<1> QED BY <1>1, <1>4, <1>5, <1>7, <1>8, <1>9, <1>10, <1>11

-----------------------------------------------------------------------------
(* The stream only grows                                                   *)

Extends(t, s) ==
    /\ Len(s) \in Nat /\ Len(t) \in Nat /\ Len(s) <= Len(t)
    /\ \A i \in 1 .. Len(s) : t[i].item = s[i].item

\* What is in a stream is at the same place of a longer one.
LEMMA ExtendsKeeps ==
    ASSUME NEW s, NEW t, Extends(t, s), NEW w \in Places, NEW items \in Seq(Items)
    PROVE  /\ BlockIn(s, w) => BlockIn(t, w)
           /\ EntriesIn(s, w) => EntriesIn(t, w)
           /\ ItemsIn(s, w, items) => ItemsIn(t, w, items)
<1>1. w.offset \in Nat /\ w.length \in Nat
  BY DEF Places
<1>2. Len(s) \in Nat /\ Len(t) \in Nat /\ Len(s) <= Len(t)
  BY DEF Extends
<1>3. \A i \in Nat : w.offset + i <= Len(s) /\ w.offset + i > 0 => t[w.offset + i].item = s[w.offset + i].item
  BY <1>1, <1>2 DEF Extends
<1>4. ASSUME BlockIn(s, w) PROVE BlockIn(t, w)
  <2>1. w.length + 1 \in Nat /\ w.offset + (w.length + 1) <= Len(s) /\ w.offset + (w.length + 1) > 0
    BY <1>1, <1>2, <1>4 DEF BlockIn
  <2>2. t[w.offset + (w.length + 1)].item = s[w.offset + (w.length + 1)].item
    BY <1>3, <2>1
  <2>3. w.offset + (w.length + 1) = w.offset + w.length + 1
    BY <1>1
  <2> QED BY <1>1, <1>2, <1>4, <2>2, <2>3 DEF BlockIn
<1>5. ASSUME EntriesIn(s, w) PROVE EntriesIn(t, w)
  <2>1. w.length > 0 /\ w.offset + w.length <= Len(s)
    BY <1>5 DEF EntriesIn
  <2>2. \A i \in 1 .. w.length : t[w.offset + i].item = s[w.offset + i].item
    BY <1>1, <1>2, <1>3, <2>1
  <2>3. /\ \A i \in 1 .. w.length - 1 : s[w.offset + i].item.of = "entry"
        /\ s[w.offset + w.length].item = Restarts
    BY <1>5 DEF EntriesIn
  <2>4. w.length \in 1 .. w.length /\ \A i \in 1 .. w.length - 1 : i \in 1 .. w.length
    BY <1>1, <2>1
  <2>5. w.offset + w.length <= Len(t)
    BY <1>1, <1>2, <2>1
  <2> QED BY <2>1, <2>2, <2>3, <2>4, <2>5 DEF EntriesIn
<1>6. ASSUME ItemsIn(s, w, items) PROVE ItemsIn(t, w, items)
  <2>1. w.length = Len(items) /\ w.offset + w.length <= Len(s)
        /\ \A i \in 1 .. Len(items) : s[w.offset + i].item = items[i]
    BY <1>6 DEF ItemsIn
  <2>2. \A i \in 1 .. Len(items) : t[w.offset + i].item = s[w.offset + i].item
    BY <1>1, <1>2, <1>3, <2>1
  <2>3. w.offset + w.length <= Len(t)
    BY <1>1, <1>2, <2>1
  <2> QED BY <2>1, <2>2, <2>3 DEF ItemsIn
<1> QED BY <1>4, <1>5, <1>6

\* What the index names is still there.
LEMMA ExtendsIndexed ==
    ASSUME NEW s, NEW t, Extends(t, s), NEW ix \in Seq(IndexItems), IndexedIn(s, ix)
    PROVE  IndexedIn(t, ix)
<1>1. <<>> \in Seq(Items)
  OBVIOUS
<1>2. ASSUME NEW i \in 1 .. Len(ix) PROVE ix[i].where \in Places
  <2>1. ix[i] \in IndexItems
    BY <1>2
  <2> QED BY <2>1 DEF IndexItems, IndexEntry
<1> QED BY <1>1, <1>2, ExtendsKeeps DEF IndexedIn

\* While no write fails, a call puts these items behind the stream.
Grew(items) ==
    failures' = 0 =>
        /\ failures = 0
        /\ Extends(Stream', Stream)
        /\ Len(Stream) = appended /\ Len(Stream') = appended'
        /\ appended' = appended + Len(items)
        /\ \A i \in 1 .. Len(items) : Stream'[appended + i].item = items[i]

\* Append puts its items behind the stream.
LEMMA AppendGrows ==
    ASSUME FileIInv(Items), is_open, NEW items \in Seq(Items), AppendBytes(items)
    PROVE  FileIInv(Items)' /\ Grew(items)
<1>1. FileIInv(Items)'
  BY AppendKeepsStream
<1>2. /\ Numbered(items) \in Seq([number : Nat, item : Items])
      /\ Len(Numbered(items)) = Len(items)
      /\ Stream' = Stream \o Numbered(items)
      /\ appended' = appended + Len(items) /\ failures' = failures
  BY AppendEffect DEF FileIInv
<1>3. Stream \in Seq([number : Nat, item : Items]) /\ Len(Stream) \in Nat
  BY StreamType DEF FileIInv
<1>4. Len(items) \in Nat /\ \A i \in 1 .. Len(items) : Numbered(items)[i].item = items[i]
  BY DEF Numbered
<1> DEFINE B == [number : Nat, item : Items]  data == Numbered(items)
<1> HIDE DEF B, data
<1>5. data \in Seq(B) /\ Stream \in Seq(B) /\ Len(data) = Len(items) /\ Stream' = Stream \o data
  BY <1>2, <1>3 DEF B, data
<1>6. /\ Len(Stream') = Len(Stream) + Len(items)
      /\ \A i \in 1 .. Len(Stream) + Len(items) :
            Stream'[i] = IF i <= Len(Stream) THEN Stream[i] ELSE data[i - Len(Stream)]
  <2>1. /\ Len(Stream \o data) = Len(Stream) + Len(data)
        /\ \A i \in 1 .. Len(Stream) + Len(data) :
              (Stream \o data)[i] = IF i <= Len(Stream) THEN Stream[i] ELSE data[i - Len(Stream)]
    BY <1>5, ConcatProperties
  <2> QED BY <1>5, <2>1
<1>7. Extends(Stream', Stream)
  BY <1>3, <1>4, <1>6 DEF Extends
<1>8. \A i \in 1 .. Len(items) : Stream'[Len(Stream) + i] = data[i]
  <2> TAKE i \in 1 .. Len(items)
  <2>1. Len(Stream) + i \in 1 .. Len(Stream) + Len(items) /\ ~ (Len(Stream) + i <= Len(Stream))
    BY <1>3, <1>4
  <2>2. Len(Stream) + i - Len(Stream) = i
    BY <1>3
  <2> QED BY <1>6, <2>1, <2>2
<1>9. failures = 0 => Len(Stream) = appended
  BY DEF FileIInv, StreamIsKept, OnlyFailureLoses
<1>10. failures' = 0 => Len(Stream') = appended'
  BY <1>1 DEF FileIInv, StreamIsKept, OnlyFailureLoses
<1> QED BY <1>1, <1>2, <1>4, <1>7, <1>8, <1>9, <1>10 DEF Grew, data

\* No other step of the writer puts anything there.
LEMMA StepGrows ==
    ASSUME FileIInv(Items), FileStep \/ (is_open /\ (FlushBuffer \/ Close)) \/ UNCHANGED file_vars
    PROVE  FileIInv(Items)' /\ Grew(<<>>)
<1>1. FileIInv(Items)'
  BY FileNextInvariant DEF FileCall
<1>2. failures' = 0 => Stream' = Stream /\ appended' = appended /\ failures = 0
  <2>1. Shape(Items)
    BY DEF FileIInv
  <2>2. CASE is_open /\ (FlushBuffer \/ Close)
    BY <2>1, <2>2, HandOver
  <2>3. CASE FileStep
    BY <2>1, <2>3, WriteEffect, FailEffect, ReturnEffect DEF FileStep
  <2>4. CASE UNCHANGED file_vars
    BY <2>4 DEF file_vars, Stream
  <2> QED BY <2>2, <2>3, <2>4
<1>3. Len(Stream) \in Nat
  BY StreamType DEF FileIInv
<1>4. failures = 0 => Len(Stream) = appended
  BY DEF FileIInv, StreamIsKept, OnlyFailureLoses
<1>5. Len(<<>>) = 0 /\ 1 .. 0 = {}
  OBVIOUS
<1> QED BY <1>1, <1>2, <1>3, <1>4, <1>5 DEF Grew, Extends

-----------------------------------------------------------------------------
(* Writing a block                                                         *)

\* WriteBytesBlock puts the block where it says it does.
LEMMA WriteBlock ==
    ASSUME BuilderIInv, NEW kind \in Kinds, NEW items \in Seq(Items),
           pc \in {"ready"} \cup Kinds, WriteBytesBlock(kind, items)
    PROVE  /\ FileIInv(Items)' /\ is_open' /\ call' # "close"
           /\ at' \in [Kinds -> Places] /\ pc' = "trailer" /\ writing' = kind
           /\ \A k \in Kinds \ {kind} : at'[k] = at[k]
           /\ failures' = 0 => /\ failures = 0 /\ result' /\ Extends(Stream', Stream)
                               /\ ItemsIn(Stream', at'[kind], items)
                               /\ at'[kind].offset = block_offset
                               /\ appended' = block_offset + at'[kind].length
<1>1. /\ at' = [at EXCEPT ![kind] = [offset |-> block_offset, length |-> Len(items)]]
      /\ writing' = kind /\ pc' = "trailer" /\ AppendBytes(items)
  BY DEF WriteBytesBlock
<1>2. /\ FileIInv(Items) /\ is_open /\ at \in [Kinds -> Places] /\ block_offset \in Nat
      /\ pc \notin {"trailer", "written", "done"}
  BY DEF BuilderIInv, BuilderShape, Control, Kinds
<1>3. FileIInv(Items)' /\ Grew(items)
  BY <1>1, <1>2, AppendGrows
<1>4. /\ at' \in [Kinds -> Places]
      /\ at'[kind] = [offset |-> block_offset, length |-> Len(items)]
      /\ \A k \in Kinds \ {kind} : at'[k] = at[k]
  <2>1. [offset |-> block_offset, length |-> Len(items)] \in Places
    BY <1>2 DEF Places
  <2> QED BY <1>1, <1>2, <2>1
<1>5. is_open' /\ call' # "close" /\ failures' = failures /\ (result => result')
  <2>1. is_open' = is_open /\ failures' = failures /\ call = "none"
    BY <1>1 DEF AppendBytes
  <2>2. call' \in {"none", "append"} /\ (result => result')
    BY <1>1, <2>1 DEF AppendBytes
  <2> QED BY <1>2, <2>1, <2>2
<1>6. ASSUME failures' = 0
      PROVE  /\ failures = 0 /\ result' /\ Extends(Stream', Stream)
             /\ ItemsIn(Stream', at'[kind], items)
             /\ at'[kind].offset = block_offset
             /\ appended' = block_offset + at'[kind].length
  <2>1. failures = 0 /\ result /\ block_offset = appended
    BY <1>2, <1>5, <1>6 DEF BuilderIInv, Control, Offsets
  <2>2. /\ Extends(Stream', Stream) /\ Len(Stream') = appended + Len(items)
        /\ appended' = appended + Len(items)
        /\ \A i \in 1 .. Len(items) : Stream'[appended + i].item = items[i]
    BY <1>3, <1>6 DEF Grew
  <2>3. /\ at'[kind].offset = block_offset /\ at'[kind].length = Len(items)
    BY <1>4
  <2>4. appended \in Nat /\ Len(items) \in Nat
    BY <1>2, <2>1
  <2>5. ItemsIn(Stream', at'[kind], items)
    BY <2>1, <2>2, <2>3, <2>4 DEF ItemsIn
  <2> QED BY <1>5, <2>1, <2>2, <2>3, <2>5
<1> QED BY <1>1, <1>3, <1>4, <1>5, <1>6

\* A data block is its entries and the restart array.
LEMMA DataIsEntries ==
    ASSUME NEW s, NEW w \in Places, NEW b \in Seq(Keys), ItemsIn(s, w, DataOf(b)),
           Len(DataOf(b)) = Len(b) + 1
    PROVE  EntriesIn(s, w)
<1>1. Len(b) \in Nat /\ w.length = Len(b) + 1 /\ w.offset + w.length <= Len(s)
  BY DEF ItemsIn
<1>2. \A i \in 1 .. w.length : s[w.offset + i].item = DataOf(b)[i]
  BY <1>1 DEF ItemsIn
<1>3. /\ \A i \in 1 .. Len(b) : DataOf(b)[i] = Entry(b[i])
      /\ DataOf(b)[Len(b) + 1] = Restarts
  <2> DEFINE es == [i \in 1 .. Len(b) |-> Entry(b[i])]
             E  == {Entry(k) : k \in Keys} \cup {Restarts}
  <2>1. es \in Seq(E) /\ Len(es) = Len(b) /\ \A i \in 1 .. Len(b) : es[i] = Entry(b[i])
    <3>1. \A i \in 1 .. Len(b) : Entry(b[i]) \in E
      OBVIOUS
    <3> HIDE DEF E
    <3> QED BY <1>1, <3>1
  <2>2. DataOf(b) = es \o <<Restarts>>
    BY DEF DataOf
  <2>3. <<Restarts>> \in Seq(E) /\ Len(<<Restarts>>) = 1 /\ <<Restarts>>[1] = Restarts
    <3>1. Restarts \in E
      OBVIOUS
    <3> HIDE DEF E
    <3> QED BY <3>1
  <2> HIDE DEF es, E
  <2>4. \A i \in 1 .. Len(es) + Len(<<Restarts>>) :
           (es \o <<Restarts>>)[i] = IF i <= Len(es) THEN es[i] ELSE <<Restarts>>[i - Len(es)]
    BY <2>1, <2>3, ConcatProperties
  <2> QED BY <1>1, <2>1, <2>2, <2>3, <2>4
<1>4. \A i \in 1 .. w.length - 1 : s[w.offset + i].item.of = "entry"
  <2> TAKE i \in 1 .. w.length - 1
  <2>1. i \in 1 .. Len(b) /\ i \in 1 .. w.length
    BY <1>1
  <2>2. s[w.offset + i].item = Entry(b[i])
    BY <1>2, <1>3, <2>1
  <2> QED BY <2>2 DEF Entry
<1> QED BY <1>1, <1>2, <1>3, <1>4 DEF EntriesIn

\* One more entry of the index.
LEMMA IndexGrows ==
    ASSUME NEW s, NEW ix \in Seq(IndexItems), IndexedIn(s, ix),
           NEW e \in IndexItems, BlockIn(s, e.where), EntriesIn(s, e.where)
    PROVE  Append(ix, e) \in Seq(IndexItems) /\ IndexedIn(s, Append(ix, e))
<1> DEFINE X == IndexItems
<1> HIDE DEF X
<1>1. ix \in Seq(X) /\ e \in X
  BY DEF X
<1>2. /\ Append(ix, e) \in Seq(X)
      /\ Len(Append(ix, e)) = Len(ix) + 1
      /\ \A i \in 1 .. Len(ix) : Append(ix, e)[i] = ix[i]
      /\ Append(ix, e)[Len(ix) + 1] = e
  BY <1>1, AppendProperties
<1>3. \A i \in 1 .. Len(Append(ix, e)) : i \in 1 .. Len(ix) \/ i = Len(ix) + 1
  BY <1>1, <1>2
<1> QED BY <1>2, <1>3 DEF IndexedIn, X

\* While nothing failed, the place of the last block is a data block, if an entry
\* of the index waits for it between two calls.
LEMMA EntryForBlock ==
    ASSUME BuilderIInv, pc # "trailer", NEW e \in IndexItems, e.where = at["data"]
    PROVE  LET ix == IF need_index THEN Append(index, e) ELSE index IN
           ix \in Seq(IndexItems) /\ (failures = 0 => IndexedIn(Stream, ix))
<1>1. index \in Seq(IndexItems) /\ need_index \in BOOLEAN
  BY DEF BuilderIInv, BuilderShape
<1>2. Append(index, e) \in Seq(IndexItems)
  <2> DEFINE X == IndexItems
  <2> HIDE DEF X
  <2>1. index \in Seq(X) /\ e \in X
    BY <1>1 DEF X
  <2> QED BY <2>1 DEF X
<1>3. ASSUME failures = 0, need_index
      PROVE  IndexedIn(Stream, Append(index, e))
  <2>1. IndexedIn(Stream, index) /\ EntriesIn(Stream, at["data"]) /\ BlockIn(Stream, at["data"])
    BY <1>3 DEF BuilderIInv, DataBlocks, Complete
  <2> QED BY <1>1, <2>1, IndexGrows
<1>4. failures = 0 => IndexedIn(Stream, index)
  BY DEF BuilderIInv, DataBlocks
<1> QED BY <1>1, <1>2, <1>3, <1>4

-----------------------------------------------------------------------------
(* Every step keeps the invariant                                          *)

\* A step that leaves the writer alone leaves the stream.
LEMMA StreamSame == UNCHANGED file_vars => Stream' = Stream /\ failures' = failures
BY DEF file_vars, Stream

\* Before Finish only data blocks are written.
LEMMA NotFinishing ==
    ASSUME ~ finishing', failures' = 0 => pc' \notin {"close", "done"}
    PROVE  FinishBlocks'
BY DEF FinishBlocks, There

\* Add: the pending index entry, and a block that is full.
LEMMA AddInvariant ==
    ASSUME BuilderIInv, NEW k \in Keys, Add(k)
    PROVE  BuilderIInv'
<1> DEFINE e == IndexEntry(FindShortest(pre_key, k), at["data"])
           b == Append(block, k)
<1>1. /\ pc = "ready" /\ need_index' = FALSE /\ pre_key' = k /\ entry_count' = entry_count + 1
      /\ index' = (IF need_index THEN Append(index, e) ELSE index)
      /\ datas' = IF filter THEN datas \cup {k} ELSE datas
      /\ UNCHANGED <<filter, policy, block_offset, status, finishing>>
  BY DEF Add, IndexBefore
<1>2. BuilderShape /\ FileIInv(Items) /\ Control
  BY DEF BuilderIInv
<1>3. call = "none" /\ ~ finishing /\ writing = "data" /\ is_open
  BY <1>1, <1>2 DEF Control
<1>4. index' \in Seq(IndexItems) /\ (failures = 0 => IndexedIn(Stream, index'))
  <2>1. e \in IndexItems /\ e.where = at["data"]
    <3>1. at["data"] \in Places /\ pre_key \in Keys \cup {<<>>}
      BY <1>2 DEF BuilderShape, Kinds
    <3> QED BY <3>1 DEF IndexItems, IndexEntry
  <2> HIDE DEF e
  <2> QED BY <1>1, <2>1, EntryForBlock
<1>5. b \in Seq(Keys) /\ Len(b) \in Nat
  BY <1>2 DEF BuilderShape
<1>6. /\ datas' \subseteq Keys /\ IsFiniteSet(datas') /\ pre_key' \in Keys \cup {<<>>}
      /\ entry_count' \in Nat
  <2>1. IsFiniteSet(datas \cup {k})
    BY <1>2, FS_AddElement DEF BuilderShape
  <2> QED BY <1>1, <1>2, <2>1 DEF BuilderShape
<1> HIDE DEF e
<1>7. CASE CurrentSize(b) >= BlockSize
  <2>1. WriteBytesBlock("data", DataOf(b)) /\ block' = <<>>
    BY <1>7 DEF Add
  <2>2. DataOf(b) \in Seq(Items) /\ Len(DataOf(b)) = Len(b) + 1 /\ "data" \in Kinds
    BY <1>2, <1>5, ItemTypes DEF Kinds
  <2> DEFINE data == DataOf(b)
  <2> HIDE DEF data, b
  <2>3. /\ FileIInv(Items)' /\ is_open' /\ call' # "close"
        /\ at' \in [Kinds -> Places] /\ pc' = "trailer" /\ writing' = "data"
        /\ failures' = 0 => /\ failures = 0 /\ result' /\ Extends(Stream', Stream)
                            /\ ItemsIn(Stream', at'["data"], data)
                            /\ at'["data"].offset = block_offset
                            /\ appended' = block_offset + at'["data"].length
    BY <1>1, <2>1, <2>2, WriteBlock DEF data
  <2>4. BuilderShape'
    <3>1. block' \in Seq(Keys) /\ block' = <<>>
      BY <2>1
    <3>2. need_index' \in BOOLEAN /\ UNCHANGED <<filter, policy, block_offset, status, finishing>>
      BY <1>1
    <3> QED BY <1>2, <1>4, <1>6, <2>2, <2>3, <3>1, <3>2 DEF BuilderShape
  <2>5. Control'
    BY <1>1, <1>2, <1>3, <2>3 DEF Control, Kinds
  <2>6. Offsets'
    BY <1>1, <2>3 DEF Offsets
  <2>7. ASSUME failures' = 0
        PROVE  IndexedIn(Stream', index') /\ EntriesIn(Stream', at'["data"])
    <3>1. at'["data"] \in Places
      BY <2>2, <2>3
    <3>2. EntriesIn(Stream', at'["data"])
      BY <1>5, <2>2, <2>3, <2>7, <3>1, DataIsEntries DEF data
    <3> QED BY <1>4, <2>3, <2>7, <3>2, ExtendsIndexed
  <2>8. DataBlocks'
    BY <1>1, <2>3, <2>7 DEF DataBlocks
  <2>9. FinishBlocks'
    BY <1>1, <1>3, <2>3, NotFinishing
  <2> QED BY <2>3, <2>4, <2>5, <2>6, <2>8, <2>9 DEF BuilderIInv
<1>8. CASE ~ (CurrentSize(b) >= BlockSize)
  <2>1. block' = b /\ UNCHANGED <<file_vars, at, pc, writing>>
    BY <1>8 DEF Add
  <2>2. FileIInv(Items)' /\ Grew(<<>>)
    BY <1>2, <2>1, StepGrows
  <2>3. CurrentSize(b) < BlockSize
    BY <1>5, <1>8, BlockSizeAssumption DEF CurrentSize
  <2> HIDE DEF b
  <2>4. BuilderShape'
    BY <1>1, <1>2, <1>4, <1>5, <1>6, <2>1, <2>3 DEF BuilderShape, CurrentSize
  <2>5. Control' /\ Offsets'
    BY <1>1, <1>2, <2>1 DEF BuilderIInv, Control, Offsets, file_vars, Kinds
  <2>6. DataBlocks'
    BY <1>1, <1>4, <2>1, StreamSame DEF DataBlocks, file_vars
  <2>7. FinishBlocks'
    BY <1>1, <1>3, <2>1, NotFinishing
  <2> QED BY <2>2, <2>4, <2>5, <2>6, <2>7 DEF BuilderIInv
<1> QED BY <1>7, <1>8

\* Finish writes the last data block, or gives up after a failure.
LEMMA FinishInvariant ==
    ASSUME BuilderIInv, Finish
    PROVE  BuilderIInv'
<1>1. /\ pc = "ready" /\ finishing' = TRUE
      /\ UNCHANGED <<filter, policy, datas, index, pre_key, block_offset, entry_count,
                     need_index, status>>
  BY DEF Finish, filter_vars
<1>2. BuilderShape /\ FileIInv(Items) /\ Control
  BY DEF BuilderIInv
<1>3. call = "none" /\ ~ finishing /\ writing = "data" /\ is_open
  BY <1>1, <1>2 DEF Control
<1>4. CASE status
  <2> DEFINE data == DataOf(block)
  <2>1. WriteBytesBlock("data", data) /\ block' = <<>>
    BY <1>4 DEF Finish
  <2>2. /\ data \in Seq(Items) /\ Len(data) = Len(block) + 1 /\ "data" \in Kinds
        /\ block \in Seq(Keys)
    BY <1>2, ItemTypes DEF Kinds, BuilderShape
  <2> HIDE DEF data
  <2>3. /\ FileIInv(Items)' /\ is_open' /\ call' # "close"
        /\ at' \in [Kinds -> Places] /\ pc' = "trailer" /\ writing' = "data"
        /\ failures' = 0 => /\ failures = 0 /\ result' /\ Extends(Stream', Stream)
                            /\ ItemsIn(Stream', at'["data"], data)
                            /\ at'["data"].offset = block_offset
                            /\ appended' = block_offset + at'["data"].length
    BY <1>1, <2>1, <2>2, WriteBlock
  <2>4. BuilderShape'
    BY <1>1, <1>2, <2>1, <2>2, <2>3 DEF BuilderShape
  <2>5. Control'
    BY <1>1, <1>2, <1>3, <2>3 DEF Control, Kinds
  <2>6. Offsets'
    BY <1>1, <2>3 DEF Offsets
  <2>7. ASSUME failures' = 0
        PROVE  IndexedIn(Stream', index') /\ EntriesIn(Stream', at'["data"])
    <3>1. at'["data"] \in Places
      BY <2>2, <2>3
    <3>2. EntriesIn(Stream', at'["data"])
      BY <2>2, <2>3, <2>7, <3>1, DataIsEntries DEF data
    <3>3. index \in Seq(IndexItems) /\ IndexedIn(Stream, index)
      BY <1>2, <2>3, <2>7 DEF BuilderIInv, BuilderShape, DataBlocks
    <3> QED BY <1>1, <2>3, <2>7, <3>2, <3>3, ExtendsIndexed
  <2>8. DataBlocks'
    BY <1>1, <2>3, <2>7 DEF DataBlocks, Complete
  <2>9. FinishBlocks'
    BY <2>3 DEF FinishBlocks, There
  <2> QED BY <2>3, <2>4, <2>5, <2>6, <2>8, <2>9 DEF BuilderIInv
<1>5. CASE ~ status
  <2>1. pc' = "done" /\ UNCHANGED <<file_vars, at, writing, block>>
    BY <1>5 DEF Finish
  <2>2. FileIInv(Items)'
    BY <1>2, <2>1, StepGrows
  <2>3. failures' # 0 /\ failures = failures'
    BY <1>2, <1>5, <2>1 DEF Control, file_vars
  <2>4. BuilderShape'
    BY <1>1, <1>2, <2>1 DEF BuilderShape
  <2>5. Control'
    BY <1>1, <1>2, <1>3, <2>1, <2>3 DEF Control, file_vars, Kinds
  <2> QED BY <2>2, <2>3, <2>4, <2>5 DEF BuilderIInv, Offsets, DataBlocks, FinishBlocks
<1> QED BY <1>2, <1>4, <1>5 DEF BuilderShape

\* A step that adds to the stream and changes no place leaves every block there.
LEMMA BlocksStay ==
    ASSUME BuilderIInv, failures = 0, Extends(Stream', Stream),
           UNCHANGED <<filter, policy, datas, index, at, writing, finishing>>
    PROVE  /\ IndexedIn(Stream, index)'
           /\ EntriesIn(Stream, at["data"]) => EntriesIn(Stream, at["data"])'
           /\ \A k \in Kinds : /\ BlockIn(Stream, at[k]) => BlockIn(Stream', at'[k])
                               /\ There(k)' <=> There(k)
           /\ There("filter") => ItemsIn(Stream, at["filter"], FilterBlock(policy))'
           /\ There("meta") => ItemsIn(Stream, at["meta"], <<MetaEntry(at["filter"]), Restarts>>)'
           /\ There("index") => ItemsIn(Stream, at["index"], Append(index, Restarts))'
<1>1. BuilderShape /\ DataBlocks /\ FinishBlocks
  BY DEF BuilderIInv
<1>2. \A k \in Kinds : at[k] \in Places
  BY <1>1 DEF BuilderShape
<1>3. "data" \in Kinds /\ "filter" \in Kinds /\ "meta" \in Kinds /\ "index" \in Kinds
  BY DEF Kinds
<1>4. <<>> \in Seq(Items)
  OBVIOUS
<1>5. IndexedIn(Stream', index')
  BY <1>1, ExtendsIndexed DEF BuilderShape, DataBlocks
<1>6. EntriesIn(Stream, at["data"]) => EntriesIn(Stream', at'["data"])
  BY <1>2, <1>3, <1>4, ExtendsKeeps
<1>7. \A k \in Kinds : /\ BlockIn(Stream, at[k]) => BlockIn(Stream', at'[k])
                       /\ There(k)' <=> There(k)
  BY <1>2, <1>4, ExtendsKeeps DEF There
<1>8. ASSUME There("filter")
      PROVE  ItemsIn(Stream', at'["filter"], FilterBlock(policy)')
  <2>1. policy \in Seq(BOOLEAN)
    BY <1>1 DEF BuilderShape
  <2>2. FilterBlock(policy) \in Seq(Items)
    BY <1>1, <2>1, ItemTypes
  <2>3. FilterBlock(policy)' = FilterBlock(policy)
    BY DEF FilterBlock
  <2> QED BY <1>1, <1>2, <1>3, <1>8, <2>2, <2>3, ExtendsKeeps DEF FinishBlocks
<1>9. ASSUME There("meta")
      PROVE  ItemsIn(Stream', at'["meta"], <<MetaEntry(at'["filter"]), Restarts>>)
  <2>1. <<MetaEntry(at["filter"]), Restarts>> \in Seq(Items)
    BY <1>1, ItemTypes
  <2>2. ItemsIn(Stream, at["meta"], <<MetaEntry(at["filter"]), Restarts>>)
    BY <1>1, <1>9 DEF FinishBlocks
  <2> DEFINE items == <<MetaEntry(at["filter"]), Restarts>>
  <2>3. items = <<MetaEntry(at'["filter"]), Restarts>> /\ at'["meta"] = at["meta"]
    OBVIOUS
  <2> HIDE DEF items
  <2>4. items \in Seq(Items) /\ ItemsIn(Stream, at["meta"], items) /\ at["meta"] \in Places
    BY <1>2, <1>3, <2>1, <2>2 DEF items
  <2>5. ItemsIn(Stream', at["meta"], items)
    BY <2>4, ExtendsKeeps
  <2> QED BY <2>3, <2>5
<1>10. ASSUME There("index")
       PROVE  ItemsIn(Stream', at'["index"], Append(index', Restarts))
  <2>1. Append(index, Restarts) \in Seq(Items)
    BY <1>1, ItemTypes DEF BuilderShape
  <2>2. ItemsIn(Stream, at["index"], Append(index, Restarts))
    BY <1>1, <1>10 DEF FinishBlocks
  <2> QED BY <1>2, <1>3, <2>1, <2>2, ExtendsKeeps
<1> QED BY <1>5, <1>6, <1>7, <1>8, <1>9, <1>10

\* The trailer comes right behind its block.
LEMMA TrailerInvariant ==
    ASSUME BuilderIInv, AppendTrailer
    PROVE  BuilderIInv'
<1>1. /\ pc = "trailer" /\ pc' = "written" /\ AppendBytes(<<Trailer>>)
      /\ UNCHANGED <<filter, policy, datas, block, index, pre_key, at, block_offset,
                     entry_count, need_index, status, writing, finishing>>
  BY DEF AppendTrailer, other_vars, filter_vars
<1>2. BuilderShape /\ FileIInv(Items) /\ Control
  BY DEF BuilderIInv
<1>3. is_open
  BY <1>1, <1>2 DEF Control
<1>4. <<Trailer>> \in Seq(Items) /\ Len(<<Trailer>>) = 1 /\ <<Trailer>>[1] = Trailer
  BY <1>2, ItemTypes
<1>5. FileIInv(Items)' /\ Grew(<<Trailer>>)
  BY <1>1, <1>2, <1>3, <1>4, AppendGrows
<1>6. is_open' /\ call' # "close" /\ failures' = failures /\ (result => result')
  <2>1. is_open' = is_open /\ failures' = failures /\ call = "none"
    BY <1>1 DEF AppendBytes
  <2>2. call' \in {"none", "append"} /\ (result => result')
    BY <1>1, <2>1 DEF AppendBytes
  <2> QED BY <1>3, <2>1, <2>2
<1>7. BuilderShape'
  BY <1>1, <1>2 DEF BuilderShape
<1>8. Control'
  BY <1>1, <1>2, <1>6 DEF Control, Kinds
<1>9. ASSUME failures' = 0
      PROVE  /\ failures = 0 /\ Extends(Stream', Stream)
             /\ BlockIn(Stream', at'[writing'])
             /\ at'[writing'].offset = block_offset'
             /\ appended' = block_offset' + at'[writing'].length + 1
  <2>1. /\ failures = 0 /\ Extends(Stream', Stream) /\ Len(Stream') = appended'
        /\ appended' = appended + 1 /\ Stream'[appended + 1].item = Trailer
    BY <1>4, <1>5, <1>9 DEF Grew
  <2>2. /\ at[writing].offset = block_offset
        /\ appended = block_offset + at[writing].length
    BY <1>1, <2>1 DEF BuilderIInv, Offsets
  <2>3. at[writing].offset \in Nat /\ at[writing].length \in Nat /\ appended \in Nat
    BY <1>2, <2>2 DEF BuilderShape, Places
  <2> QED BY <1>1, <2>1, <2>2, <2>3 DEF BlockIn
<1>10. Offsets'
  BY <1>1, <1>9 DEF Offsets
<1>11. DataBlocks'
  <2> SUFFICES ASSUME failures' = 0 PROVE DataBlocks'
    BY DEF DataBlocks
  <2>1. /\ IndexedIn(Stream, index)'
        /\ EntriesIn(Stream, at["data"]) => EntriesIn(Stream, at["data"])'
        /\ BlockIn(Stream, at["data"]) => BlockIn(Stream', at'["data"])
    BY <1>1, <1>9, BlocksStay DEF Kinds
  <2>2. (need_index \/ writing = "data") => EntriesIn(Stream, at["data"])
    BY <1>1, <1>9 DEF BuilderIInv, DataBlocks
  <2>3. need_index => BlockIn(Stream, at["data"]) \/ writing = "data"
    BY <1>1, <1>9 DEF BuilderIInv, DataBlocks, Complete
  <2> QED BY <1>1, <1>9, <2>1, <2>2, <2>3 DEF DataBlocks, Complete
<1>12. FinishBlocks'
  <2> SUFFICES ASSUME failures' = 0 PROVE FinishBlocks'
    BY DEF FinishBlocks
  <2>1. /\ \A k \in Kinds : /\ BlockIn(Stream, at[k]) => BlockIn(Stream', at'[k])
                            /\ There(k)' <=> There(k)
        /\ There("filter") => ItemsIn(Stream, at["filter"], FilterBlock(policy))'
        /\ There("meta") => ItemsIn(Stream, at["meta"], <<MetaEntry(at["filter"]), Restarts>>)'
        /\ There("index") => ItemsIn(Stream, at["index"], Append(index, Restarts))'
    BY <1>1, <1>9, BlocksStay
  <2>2. \A k \in {"filter", "meta", "index"} :
            There(k) => BlockIn(Stream, at[k]) \/ k = writing
    BY <1>9 DEF BuilderIInv, FinishBlocks, Complete
  <2>3. \A k \in {"filter", "meta", "index"} : There(k) => Complete(k)'
    BY <1>1, <1>9, <2>1, <2>2 DEF Complete, Kinds
  <2> QED BY <1>1, <2>1, <2>3 DEF FinishBlocks, Kinds
<1> QED BY <1>5, <1>7, <1>8, <1>10, <1>11, <1>12 DEF BuilderIInv

\* Between two calls the blocks that are there are complete.
LEMMA CompleteBlocks ==
    ASSUME BuilderIInv, failures = 0, pc # "trailer"
    PROVE  /\ need_index => EntriesIn(Stream, at["data"]) /\ BlockIn(Stream, at["data"])
           /\ \A k \in {"filter", "meta", "index"} : There(k) => BlockIn(Stream, at[k])
BY DEF BuilderIInv, DataBlocks, FinishBlocks, Complete

\* A step after a block: nothing is appended, no block is begun.
LEMMA QuietFinish ==
    ASSUME BuilderIInv, pc # "trailer", Grew(<<>>), Len(<<>>) = 0,
           UNCHANGED <<filter, policy, datas, index, at, writing, finishing>>,
           pc' \in {"close", "done"} => pc \in {"close", "done"} \/ failures' # 0
    PROVE  FinishBlocks' /\ (failures' = 0 => IndexedIn(Stream, index)')
<1> SUFFICES ASSUME failures' = 0 PROVE FinishBlocks' /\ IndexedIn(Stream, index)'
  BY DEF FinishBlocks
<1>1. /\ failures = 0 /\ Extends(Stream', Stream)
      /\ Len(Stream) = appended /\ Len(Stream') = appended' /\ appended' = appended + 0
  BY DEF Grew
<1>2. /\ IndexedIn(Stream, index)'
      /\ \A k \in Kinds : /\ BlockIn(Stream, at[k]) => BlockIn(Stream', at'[k])
                          /\ There(k)' <=> There(k)
      /\ There("filter") => ItemsIn(Stream, at["filter"], FilterBlock(policy))'
      /\ There("meta") => ItemsIn(Stream, at["meta"], <<MetaEntry(at["filter"]), Restarts>>)'
      /\ There("index") => ItemsIn(Stream, at["index"], Append(index, Restarts))'
  BY <1>1, BlocksStay
<1>3. \A k \in {"filter", "meta", "index"} : There(k) => Complete(k)'
  BY <1>1, <1>2, CompleteBlocks DEF Complete, Kinds
<1>4. ASSUME pc' \in {"close", "done"}
      PROVE  Len(Stream') > 0 /\ Stream'[Len(Stream')].item = Footer'
  <2>1. Len(Stream) > 0 /\ Stream[Len(Stream)].item = Footer
    BY <1>1, <1>4 DEF BuilderIInv, FinishBlocks
  <2>2. Len(Stream) \in Nat /\ Len(Stream') = Len(Stream)
    BY <1>1 DEF Extends
  <2>3. Stream'[Len(Stream)].item = Stream[Len(Stream)].item
    BY <1>1, <2>1, <2>2 DEF Extends
  <2> QED BY <2>1, <2>2, <2>3 DEF Footer
<1> QED BY <1>2, <1>3, <1>4 DEF FinishBlocks, Kinds

\* The end of WriteBytesBlock; a data block is flushed and waits for its index.
LEMMA BlockWrittenInvariant ==
    ASSUME BuilderIInv, BlockWritten
    PROVE  BuilderIInv'
<1>1. /\ pc = "written" /\ call = "none" /\ status' = result
      /\ block_offset' = IF result THEN OffsetAfter(writing) ELSE block_offset
      /\ UNCHANGED <<filter, policy, datas, block, index, pre_key, at, entry_count,
                     writing, finishing>>
      /\ \/ /\ writing = "data" /\ result /\ need_index' = TRUE /\ FlushBuffer /\ pc' = "flush"
         \/ /\ pc' = IF finishing THEN writing ELSE "ready"
            /\ UNCHANGED <<need_index, file_vars>>
  BY DEF BlockWritten, filter_vars
<1>2. BuilderShape /\ FileIInv(Items) /\ Control
  BY DEF BuilderIInv
<1>3. is_open
  BY <1>1, <1>2 DEF Control
<1>4. FileIInv(Items)' /\ Grew(<<>>)
  BY <1>1, <1>2, <1>3, StepGrows
<1>5. failures' = failures /\ is_open' /\ call' # "close" /\ result' = result
  BY <1>1, <1>3 DEF FlushBuffer, file_vars
<1>6. at[writing].length \in Nat /\ result \in BOOLEAN
  BY <1>2 DEF BuilderShape, FileIInv, Shape, Places
<1>7. BuilderShape'
  <2>1. block_offset' \in Nat
    BY <1>1, <1>2, <1>6 DEF BuilderShape, OffsetAfter
  <2>2. need_index' \in BOOLEAN /\ status' \in BOOLEAN
    BY <1>1, <1>2, <1>6 DEF BuilderShape
  <2>3. pc' \in {"flush", "ready"} \cup Kinds
    BY <1>1, <1>2 DEF BuilderShape
  <2> QED BY <1>1, <1>2, <2>1, <2>2, <2>3 DEF BuilderShape
<1>8. pc' \in {"flush", "ready"} \cup Kinds /\ pc' \notin {"trailer", "written", "close", "done"}
  BY <1>1, <1>2 DEF BuilderShape, Kinds
<1>9. Control'
  <2>1. failures = 0 => result
    BY <1>2 DEF Control
  <2>2. CASE pc' = "flush" /\ writing = "data"
    BY <1>1, <1>2, <1>5, <2>1, <2>2 DEF Control, Kinds
  <2>3. CASE pc' = (IF finishing THEN writing ELSE "ready") /\ UNCHANGED file_vars
    <3>1. call' = "none"
      BY <1>1, <2>3 DEF file_vars
    <3>2. finishing \in BOOLEAN /\ writing \in Kinds
      BY <1>2 DEF BuilderShape
    <3>3. CASE finishing
      BY <1>1, <1>2, <1>5, <2>1, <2>3, <3>1, <3>2, <3>3 DEF Control, Kinds
    <3>4. CASE ~ finishing
      BY <1>1, <1>2, <1>5, <2>1, <2>3, <3>1, <3>4 DEF Control, Kinds
    <3> QED BY <3>3, <3>4
  <2> QED BY <1>1, <2>2, <2>3
<1>10. Offsets'
  <2> SUFFICES ASSUME failures' = 0 PROVE block_offset' = appended'
    BY <1>8 DEF Offsets
  <2>1. failures = 0 /\ result /\ appended' = appended
    BY <1>2, <1>4 DEF Grew, Control, FileIInv, Shape
  <2>2. appended = block_offset + at[writing].length + 1
    BY <1>1, <2>1 DEF BuilderIInv, Offsets
  <2> QED BY <1>1, <2>1, <2>2 DEF OffsetAfter
<1>11. Len(<<>>) = 0
  OBVIOUS
<1>12. FinishBlocks' /\ (failures' = 0 => IndexedIn(Stream, index)')
  BY <1>1, <1>4, <1>8, <1>11, QuietFinish
<1>13. DataBlocks'
  <2> SUFFICES ASSUME failures' = 0 PROVE DataBlocks'
    BY DEF DataBlocks
  <2>1. failures = 0 /\ Extends(Stream', Stream)
    BY <1>4 DEF Grew
  <2>2. /\ EntriesIn(Stream, at["data"]) => EntriesIn(Stream, at["data"])'
        /\ BlockIn(Stream, at["data"]) => BlockIn(Stream', at'["data"])
    BY <1>1, <2>1, BlocksStay DEF Kinds
  <2>3. writing = "data" \/ need_index => EntriesIn(Stream, at["data"]) /\ BlockIn(Stream, at["data"])
    BY <1>1, <2>1, CompleteBlocks DEF BuilderIInv, DataBlocks
  <2>4. need_index' => writing = "data" \/ need_index
    BY <1>1
  <2> QED BY <1>8, <1>12, <2>2, <2>3, <2>4 DEF DataBlocks, Complete
<1> QED BY <1>4, <1>7, <1>9, <1>10, <1>12, <1>13 DEF BuilderIInv

\* A step of the writer, or the return of Flush or Close: the builder goes on as
\* it was.
LEMMA QuietStep ==
    ASSUME BuilderIInv, FileIInv(Items)', Grew(<<>>), Control',
           pc \notin {"trailer", "written"} \/ pc' = pc,
           pc' \in {"trailer", "written"} => pc' = pc,
           pc' \in {"close", "done"} => pc \in {"close", "done"},
           pc' \in {"ready", "trailer", "written", "flush", "close", "done"} \cup Kinds,
           status' \in BOOLEAN,
           UNCHANGED <<filter, policy, datas, block, index, pre_key, at, block_offset,
                       entry_count, need_index, writing, finishing>>
    PROVE  BuilderIInv'
<1>1. BuilderShape'
  BY DEF BuilderIInv, BuilderShape
<1>2. Len(<<>>) = 0
  OBVIOUS
<1>3. Offsets'
  <2> SUFFICES ASSUME failures' = 0 PROVE Offsets'
    BY DEF Offsets
  <2>1. failures = 0 /\ appended' = appended + 0 /\ Len(Stream) = appended /\ Len(Stream) \in Nat
    BY <1>2 DEF Grew, Extends
  <2> QED BY <2>1 DEF BuilderIInv, Offsets
<1>4. DataBlocks'
  <2> SUFFICES ASSUME failures' = 0 PROVE DataBlocks'
    BY DEF DataBlocks
  <2>1. failures = 0 /\ Extends(Stream', Stream)
    BY DEF Grew
  <2>2. /\ IndexedIn(Stream, index)'
        /\ EntriesIn(Stream, at["data"]) => EntriesIn(Stream, at["data"])'
        /\ BlockIn(Stream, at["data"]) => BlockIn(Stream', at'["data"])
    BY <2>1, BlocksStay DEF Kinds
  <2> QED BY <2>1, <2>2 DEF BuilderIInv, DataBlocks, Complete
<1>5. FinishBlocks'
  <2>1. CASE pc # "trailer"
    BY <1>2, <2>1, QuietFinish
  <2>2. CASE pc = "trailer" /\ failures' = 0
    <3>1. failures = 0 /\ Extends(Stream', Stream)
      BY <2>2 DEF Grew
    <3>2. /\ \A k \in Kinds : /\ BlockIn(Stream, at[k]) => BlockIn(Stream', at'[k])
                              /\ There(k)' <=> There(k)
          /\ There("filter") => ItemsIn(Stream, at["filter"], FilterBlock(policy))'
          /\ There("meta") => ItemsIn(Stream, at["meta"], <<MetaEntry(at["filter"]), Restarts>>)'
          /\ There("index") => ItemsIn(Stream, at["index"], Append(index, Restarts))'
      BY <3>1, BlocksStay
    <3>3. \A k \in {"filter", "meta", "index"} : There(k) => Complete(k)'
      BY <2>2, <3>1, <3>2 DEF Complete, Kinds, BuilderIInv, FinishBlocks
    <3> QED BY <2>2, <3>2, <3>3 DEF FinishBlocks, Kinds
  <2>3. CASE failures' # 0
    BY <2>3 DEF FinishBlocks
  <2> QED BY <2>1, <2>2, <2>3
<1> QED BY <1>1, <1>3, <1>4, <1>5 DEF BuilderIInv

\* The end of Flush.
LEMMA FlushedInvariant ==
    ASSUME BuilderIInv, Flushed
    PROVE  BuilderIInv'
<1>1. /\ pc = "flush" /\ call = "none" /\ status' = result
      /\ pc' = IF finishing THEN "data" ELSE "ready"
      /\ UNCHANGED <<filter, policy, datas, block, index, pre_key, at, block_offset,
                     entry_count, need_index, writing, finishing>>
      /\ UNCHANGED file_vars
  BY DEF Flushed, filter_vars
<1>2. BuilderShape /\ FileIInv(Items) /\ Control
  BY DEF BuilderIInv
<1>3. FileIInv(Items)' /\ Grew(<<>>)
  BY <1>1, <1>2, StepGrows
<1>4. result \in BOOLEAN /\ finishing \in BOOLEAN
  BY <1>2 DEF BuilderShape, FileIInv, Shape
<1>5. UNCHANGED <<call, is_open, buffer, result, failures>>
  BY <1>1 DEF file_vars
<1>6. Control'
  BY <1>1, <1>2, <1>4, <1>5 DEF Control, Kinds
<1>7. pc' \in {"ready", "data"}
  BY <1>1
<1> QED BY <1>1, <1>2, <1>3, <1>4, <1>6, <1>7, QuietStep DEF Kinds

\* A step of the writer.
LEMMA FileStepsInvariant ==
    ASSUME BuilderIInv, FileSteps
    PROVE  BuilderIInv'
<1>1. /\ FileStep
      /\ UNCHANGED <<filter, policy, datas, block, index, pre_key, at, block_offset,
                     entry_count, need_index, status, pc, writing, finishing>>
  BY DEF FileSteps, builder_vars, other_vars, filter_vars
<1>2. BuilderShape /\ FileIInv(Items) /\ Control
  BY DEF BuilderIInv
<1>3. FileIInv(Items)' /\ Grew(<<>>)
  BY <1>1, <1>2, StepGrows
<1>4. Shape(Items) /\ Shape(Items)'
  BY <1>2, <1>3 DEF FileIInv
<1>5. call # "none"
  <2>1. call = "none" => pending = <<>>
    BY <1>4 DEF Shape
  <2>2. Len(<<>>) = 0
    OBVIOUS
  <2>3. ASSUME NEW n \in 1 .. Len(pending), WriteSome(n) PROVE pending # <<>>
    <3> SUFFICES ASSUME pending = <<>> PROVE FALSE
      OBVIOUS
    <3> QED BY <2>2, <2>3
  <2> QED BY <1>1, <2>1, <2>3 DEF FileStep, WriteFails, AppendRest, Written
<1>6. is_open /\ buffer = <<>>
  BY <1>4, <1>5 DEF Shape
<1>7. /\ is_open' \/ call = "close"
      /\ call' = "close" => call = "close"
      /\ ~ is_open' => buffer' = <<>>
      /\ failures' = 0 => failures = 0 /\ (result => result')
  <2>1. ASSUME NEW n \in 1 .. Len(pending), WriteSome(n)
        PROVE  UNCHANGED <<buffer, call, result, is_open, failures>>
    BY <2>1 DEF WriteSome
  <2>2. CASE WriteFails
    <3>1. failures \in Nat /\ failures' = failures + 1 /\ call' = "none" /\ buffer' = buffer
      BY <1>4, <2>2 DEF WriteFails, Shape
    <3>2. is_open' \/ call = "close"
      BY <1>6, <2>2 DEF WriteFails
    <3> QED BY <1>6, <3>1, <3>2
  <2>3. CASE AppendRest
    <3>1. is_open' = is_open /\ failures' = failures /\ call' \in {"none", "rest"}
      BY <2>3 DEF AppendRest
    <3>2. result => result'
      BY <2>3 DEF AppendRest
    <3> QED BY <1>6, <3>1, <3>2
  <2>4. CASE Written
    <3>1. failures' = failures /\ call' = "none" /\ buffer' = buffer
      BY <2>4 DEF Written
    <3>2. is_open' \/ call = "close"
      BY <1>6, <2>4 DEF Written
    <3>3. result => result'
      BY <2>4 DEF Written
    <3> QED BY <1>6, <3>1, <3>2, <3>3
  <2> QED BY <1>1, <1>6, <2>1, <2>2, <2>3, <2>4 DEF FileStep
<1>8. Control'
  BY <1>1, <1>2, <1>5, <1>6, <1>7 DEF Control, Kinds
<1> QED BY <1>1, <1>2, <1>3, <1>8, QuietStep DEF BuilderShape

\* The invariant speaks of the variables only.
LEMMA BuilderStutter ==
    ASSUME BuilderIInv, UNCHANGED vars
    PROVE  BuilderIInv'
<1>1. /\ UNCHANGED file_vars
      /\ UNCHANGED <<filter, policy, datas, block, index, pre_key, at, block_offset,
                     entry_count, need_index, status, pc, writing, finishing>>
  BY DEF vars, builder_vars, other_vars, filter_vars
<1>2. BuilderShape /\ FileIInv(Items) /\ Control
  BY DEF BuilderIInv
<1>3. FileIInv(Items)' /\ Grew(<<>>)
  BY <1>1, <1>2, StepGrows
<1>4. Control'
  BY <1>1, <1>2 DEF Control, Kinds, file_vars
<1> QED BY <1>1, <1>2, <1>3, <1>4, QuietStep DEF BuilderShape

\* Finish hands the last of the buffer over and closes the file.
LEMMA FinishCloseInvariant ==
    ASSUME BuilderIInv, FinishClose
    PROVE  BuilderIInv'
<1>1. /\ pc = "close" /\ pc' = "done" /\ Close
      /\ UNCHANGED <<filter, policy, datas, block, index, pre_key, at, block_offset,
                     entry_count, need_index, status, writing, finishing>>
  BY DEF FinishClose, other_vars, filter_vars
<1>2. BuilderShape /\ FileIInv(Items) /\ Control
  BY DEF BuilderIInv
<1>3. is_open
  BY <1>1, <1>2 DEF Control
<1>4. FileIInv(Items)' /\ Grew(<<>>)
  BY <1>1, <1>2, <1>3, StepGrows
<1>5. UNCHANGED <<is_open, result, failures>> /\ buffer' = <<>>
  BY <1>1 DEF Close
<1>6. Control'
  BY <1>1, <1>2, <1>3, <1>5 DEF Control, Kinds
<1> QED BY <1>1, <1>2, <1>4, <1>6, QuietStep DEF BuilderShape

\* The footer is the last of the stream.
LEMMA FinishFooterInvariant ==
    ASSUME BuilderIInv, FinishFooter
    PROVE  BuilderIInv'
<1>1. /\ pc = "index" /\ pc' = "close" /\ AppendBytes(<<Footer>>)
      /\ block_offset' = block_offset + 1
      /\ UNCHANGED <<filter, policy, datas, block, index, pre_key, at, entry_count,
                     need_index, status, writing, finishing>>
  BY DEF FinishFooter, filter_vars
<1>2. BuilderShape /\ FileIInv(Items) /\ Control
  BY DEF BuilderIInv
<1>3. is_open
  BY <1>1, <1>2 DEF Control
<1>4. <<Footer>> \in Seq(Items) /\ Len(<<Footer>>) = 1 /\ <<Footer>>[1] = Footer
  BY <1>2, ItemTypes
<1>5. FileIInv(Items)' /\ Grew(<<Footer>>)
  BY <1>1, <1>2, <1>3, <1>4, AppendGrows
<1>6. is_open' /\ call' # "close" /\ failures' = failures /\ (result => result')
  <2>1. is_open' = is_open /\ failures' = failures /\ call = "none"
    BY <1>1 DEF AppendBytes
  <2>2. call' \in {"none", "append"} /\ (result => result')
    BY <1>1, <2>1 DEF AppendBytes
  <2> QED BY <1>3, <2>1, <2>2
<1>7. BuilderShape'
  BY <1>1, <1>2 DEF BuilderShape
<1>8. Control'
  BY <1>1, <1>2, <1>6 DEF Control, Kinds
<1>9. ASSUME failures' = 0
      PROVE  /\ failures = 0 /\ Extends(Stream', Stream)
             /\ block_offset' = appended'
             /\ Len(Stream') > 0 /\ Stream'[Len(Stream')].item = Footer'
  <2>1. /\ failures = 0 /\ Extends(Stream', Stream) /\ Len(Stream') = appended'
        /\ Len(Stream) = appended
        /\ appended' = appended + 1 /\ Stream'[appended + 1].item = Footer
    BY <1>4, <1>5, <1>9 DEF Grew
  <2>2. block_offset = appended
    BY <1>1, <2>1 DEF BuilderIInv, Offsets
  <2>3. appended \in Nat
    BY <2>1 DEF Extends
  <2>4. Footer' = Footer
    BY <1>1 DEF Footer
  <2> QED BY <1>1, <2>1, <2>2, <2>3, <2>4
<1>10. Offsets'
  BY <1>1, <1>9 DEF Offsets
<1>11. DataBlocks'
  <2> SUFFICES ASSUME failures' = 0 PROVE DataBlocks'
    BY DEF DataBlocks
  <2>1. /\ IndexedIn(Stream, index)'
        /\ EntriesIn(Stream, at["data"]) => EntriesIn(Stream, at["data"])'
        /\ BlockIn(Stream, at["data"]) => BlockIn(Stream', at'["data"])
    BY <1>1, <1>9, BlocksStay DEF Kinds
  <2>2. need_index => EntriesIn(Stream, at["data"]) /\ BlockIn(Stream, at["data"])
    BY <1>1, <1>9, CompleteBlocks
  <2> QED BY <1>1, <2>1, <2>2 DEF DataBlocks, Complete
<1>12. FinishBlocks'
  <2> SUFFICES ASSUME failures' = 0 PROVE FinishBlocks'
    BY DEF FinishBlocks
  <2>1. /\ \A k \in Kinds : /\ BlockIn(Stream, at[k]) => BlockIn(Stream', at'[k])
                            /\ There(k)' <=> There(k)
        /\ There("filter") => ItemsIn(Stream, at["filter"], FilterBlock(policy))'
        /\ There("meta") => ItemsIn(Stream, at["meta"], <<MetaEntry(at["filter"]), Restarts>>)'
        /\ There("index") => ItemsIn(Stream, at["index"], Append(index, Restarts))'
    BY <1>1, <1>9, BlocksStay
  <2>2. \A k \in {"filter", "meta", "index"} : There(k) => Complete(k)'
    BY <1>1, <1>9, <2>1, CompleteBlocks DEF Complete, Kinds
  <2> QED BY <1>9, <2>1, <2>2 DEF FinishBlocks, Kinds
<1> QED BY <1>5, <1>7, <1>8, <1>10, <1>11, <1>12 DEF BuilderIInv

\* Finish writes the filter, the meta or the index block behind those there are.
LEMMA FinishWrites ==
    ASSUME BuilderIInv, NEW kind \in {"filter", "meta", "index"}, NEW items \in Seq(Items),
           pc \in Kinds, WriteBytesBlock(kind, items), kind # "index" => filter,
           UNCHANGED <<filter, datas, block, pre_key, block_offset, entry_count, status, finishing>>,
           policy' \in Seq(BOOLEAN), index' \in Seq(IndexItems),
           failures = 0 => IndexedIn(Stream, index'),
           need_index' = need_index \/ need_index' = FALSE
    PROVE  /\ FileIInv(Items)' /\ BuilderShape' /\ Control' /\ Offsets' /\ DataBlocks'
           /\ finishing /\ finishing' /\ pc' = "trailer" /\ writing' = kind
           /\ \A k \in Kinds \ {kind} : at'[k] = at[k]
           /\ failures' = 0 =>
                /\ failures = 0 /\ Extends(Stream', Stream) /\ ItemsIn(Stream', at'[kind], items)
                /\ \A k \in {"filter", "meta", "index"} \ {kind} :
                       There(k) => BlockIn(Stream', at'[k])
<1>1. BuilderShape /\ FileIInv(Items) /\ Control /\ kind \in Kinds
  BY DEF BuilderIInv, Kinds
<1>2. pc \notin {"ready", "trailer", "written", "flush", "close", "done"} /\ finishing
  BY <1>1 DEF Control, Kinds
<1>3. /\ FileIInv(Items)' /\ is_open' /\ call' # "close"
      /\ at' \in [Kinds -> Places] /\ pc' = "trailer" /\ writing' = kind
      /\ \A k \in Kinds \ {kind} : at'[k] = at[k]
      /\ failures' = 0 => /\ failures = 0 /\ result' /\ Extends(Stream', Stream)
                          /\ ItemsIn(Stream', at'[kind], items)
                          /\ at'[kind].offset = block_offset
                          /\ appended' = block_offset + at'[kind].length
  BY <1>1, WriteBlock
<1>4. BuilderShape'
  <2>1. need_index' \in BOOLEAN
    BY <1>1 DEF BuilderShape
  <2> QED BY <1>1, <1>3, <2>1 DEF BuilderShape
<1>5. Control'
  <2>1. failures' = 0 => status'
    BY <1>1, <1>3 DEF Control
  <2> QED BY <1>1, <1>2, <1>3, <2>1 DEF Control, Kinds
<1>6. Offsets'
  BY <1>3 DEF Offsets
<1>7. ASSUME failures' = 0, NEW k \in Kinds \ {kind}, BlockIn(Stream, at[k])
      PROVE  BlockIn(Stream', at'[k])
  <2>1. <<>> \in Seq(Items) /\ at[k] \in Places
    BY <1>1 DEF BuilderShape
  <2> QED BY <1>3, <1>7, <2>1, ExtendsKeeps
<1>8. DataBlocks'
  <2> SUFFICES ASSUME failures' = 0 PROVE DataBlocks'
    BY DEF DataBlocks
  <2>1. IndexedIn(Stream', index')
    BY <1>3, ExtendsIndexed
  <2>2. need_index => EntriesIn(Stream, at["data"]) /\ BlockIn(Stream, at["data"])
    BY <1>2, <1>3, CompleteBlocks
  <2>3. "data" \in Kinds /\ "data" # kind /\ at["data"] \in Places /\ <<>> \in Seq(Items)
    BY <1>1 DEF BuilderShape, Kinds
  <2>4. at'["data"] = at["data"]
    BY <1>3, <2>3
  <2>5. need_index => EntriesIn(Stream', at'["data"]) /\ BlockIn(Stream', at'["data"])
    BY <1>3, <2>2, <2>3, <2>4, ExtendsKeeps
  <2> QED BY <1>3, <2>1, <2>3, <2>5 DEF DataBlocks, Complete
<1>9. ASSUME failures' = 0, NEW k \in {"filter", "meta", "index"} \ {kind}, There(k)
      PROVE  BlockIn(Stream', at'[k])
  <2>1. BlockIn(Stream, at[k])
    BY <1>2, <1>3, <1>9, CompleteBlocks
  <2> QED BY <1>7, <1>9, <2>1 DEF Kinds
<1> QED BY <1>2, <1>3, <1>4, <1>5, <1>6, <1>8, <1>9

\* The array of this table and the filter block with all of the policy's data.
LEMMA FinishFilterInvariant ==
    ASSUME BuilderIInv, FinishFilter
    PROVE  BuilderIInv'
<1> DEFINE data  == IF datas = {} THEN policy ELSE CreateFilter(policy, datas)
           items == FilterBlock(data)
<1>1. /\ pc = "data" /\ filter /\ policy' = data /\ WriteBytesBlock("filter", items)
      /\ UNCHANGED <<filter, datas, block, index, pre_key, block_offset, entry_count,
                     need_index, status, finishing>>
  BY DEF FinishFilter
<1>2. BuilderShape
  BY DEF BuilderIInv
<1>3. data \in Seq(BOOLEAN)
  BY <1>2, CreateFilterType DEF BuilderShape
<1> HIDE DEF data
<1>4. items \in Seq(Items) /\ items = FilterBlock(policy)'
  BY <1>1, <1>2, <1>3, ItemTypes DEF FilterBlock
<1> HIDE DEF items
<1>5. index' \in Seq(IndexItems) /\ (failures = 0 => IndexedIn(Stream, index'))
  BY <1>1, <1>2 DEF BuilderIInv, BuilderShape, DataBlocks
<1>6. /\ FileIInv(Items)' /\ BuilderShape' /\ Control' /\ Offsets' /\ DataBlocks'
      /\ pc' = "trailer" /\ writing' = "filter"
      /\ failures' = 0 => ItemsIn(Stream', at'["filter"], items)
  BY <1>1, <1>3, <1>4, <1>5, FinishWrites DEF Kinds
<1>7. FinishBlocks'
  BY <1>4, <1>6 DEF FinishBlocks, There, Complete
<1> QED BY <1>6, <1>7 DEF BuilderIInv

\* The meta block says where the filter block is.
LEMMA FinishMetaInvariant ==
    ASSUME BuilderIInv, FinishMeta
    PROVE  BuilderIInv'
<1> DEFINE items == <<MetaEntry(at["filter"]), Restarts>>
<1>1. /\ pc = "filter" /\ WriteBytesBlock("meta", items)
      /\ UNCHANGED <<filter, policy, datas, block, index, pre_key, block_offset, entry_count,
                     need_index, status, finishing>>
  BY DEF FinishMeta, filter_vars
<1>2. BuilderShape /\ Control
  BY DEF BuilderIInv
<1>3. writing = "filter" /\ filter /\ finishing
  BY <1>1, <1>2 DEF Control, Kinds
<1>4. items \in Seq(Items)
  BY <1>2, ItemTypes
<1>5. /\ index' \in Seq(IndexItems) /\ policy' \in Seq(BOOLEAN)
      /\ (failures = 0 => IndexedIn(Stream, index'))
  BY <1>1, <1>2 DEF BuilderIInv, BuilderShape, DataBlocks
<1> HIDE DEF items
<1>6. /\ FileIInv(Items)' /\ BuilderShape' /\ Control' /\ Offsets' /\ DataBlocks'
      /\ pc' = "trailer" /\ writing' = "meta"
      /\ at'["filter"] = at["filter"]
      /\ failures' = 0 => /\ failures = 0 /\ Extends(Stream', Stream)
                          /\ ItemsIn(Stream', at'["meta"], items)
                          /\ There("filter") => BlockIn(Stream', at'["filter"])
  BY <1>1, <1>3, <1>4, <1>5, FinishWrites DEF Kinds
<1>7. There("filter")
  BY <1>3 DEF There
<1>8. ASSUME failures' = 0
      PROVE  ItemsIn(Stream', at'["filter"], FilterBlock(policy)')
  <2>1. ItemsIn(Stream, at["filter"], FilterBlock(policy))
    BY <1>6, <1>7, <1>8 DEF BuilderIInv, FinishBlocks
  <2>2. FilterBlock(policy)' = FilterBlock(policy)
    BY <1>1 DEF FilterBlock
  <2>3. FilterBlock(policy) \in Seq(Items) /\ at["filter"] \in Places
    BY <1>2, ItemTypes DEF BuilderShape, Kinds
  <2> QED BY <1>6, <1>8, <2>1, <2>2, <2>3, ExtendsKeeps
<1>9. items = <<MetaEntry(at'["filter"]), Restarts>>
  BY <1>6 DEF items
<1>10. FinishBlocks'
  BY <1>6, <1>7, <1>8, <1>9 DEF FinishBlocks, There, Complete
<1> QED BY <1>6, <1>10 DEF BuilderIInv

\* The index block, with the entry of the last block.
LEMMA FinishIndexInvariant ==
    ASSUME BuilderIInv, FinishIndex
    PROVE  BuilderIInv'
<1> DEFINE items == Append(index', Restarts)
           e     == IndexEntry(pre_key, at["data"])
<1>1. /\ pc = (IF filter THEN "meta" ELSE "data") /\ WriteBytesBlock("index", items)
      /\ index' = LastIndex /\ need_index' = FALSE
      /\ UNCHANGED <<filter, policy, datas, block, pre_key, block_offset, entry_count,
                     status, finishing>>
  BY DEF FinishIndex, filter_vars
<1>2. BuilderShape /\ Control
  BY DEF BuilderIInv
<1>3. pc \in Kinds /\ writing = pc /\ finishing /\ (filter => writing = "meta")
      /\ (~ filter => writing = "data") /\ filter \in BOOLEAN
  BY <1>1, <1>2 DEF Control, Kinds, BuilderShape
<1>4. /\ index' \in Seq(IndexItems) /\ policy' \in Seq(BOOLEAN)
      /\ (failures = 0 => IndexedIn(Stream, index'))
  <2>1. CASE need_index /\ pre_key # <<>>
    <3>1. e \in IndexItems /\ e.where = at["data"]
      BY <1>2, <2>1 DEF BuilderShape, Kinds, IndexItems, IndexEntry
    <3>2. index' = Append(index, e) /\ pc # "trailer"
      BY <1>1, <1>3, <2>1 DEF LastIndex, Kinds
    <3> HIDE DEF e
    <3> QED BY <1>1, <1>2, <2>1, <3>1, <3>2, EntryForBlock DEF BuilderShape
  <2>2. CASE ~ (need_index /\ pre_key # <<>>)
    BY <1>1, <1>2, <2>2 DEF LastIndex, BuilderIInv, BuilderShape, DataBlocks
  <2> QED BY <2>1, <2>2
<1>5. items \in Seq(Items)
  BY <1>2, <1>4, ItemTypes
<1> HIDE DEF items
<1>6. /\ FileIInv(Items)' /\ BuilderShape' /\ Control' /\ Offsets' /\ DataBlocks'
      /\ pc' = "trailer" /\ writing' = "index"
      /\ at'["filter"] = at["filter"] /\ at'["meta"] = at["meta"]
      /\ failures' = 0 => /\ failures = 0 /\ Extends(Stream', Stream)
                          /\ ItemsIn(Stream', at'["index"], items)
                          /\ There("filter") => BlockIn(Stream', at'["filter"])
                          /\ There("meta") => BlockIn(Stream', at'["meta"])
  BY <1>1, <1>3, <1>4, <1>5, FinishWrites DEF Kinds
<1>7. filter => There("filter") /\ There("meta")
  BY <1>3 DEF There
<1>8. ASSUME failures' = 0, filter
      PROVE  /\ ItemsIn(Stream', at'["filter"], FilterBlock(policy)')
             /\ ItemsIn(Stream', at'["meta"], <<MetaEntry(at'["filter"]), Restarts>>)
  <2>1. /\ ItemsIn(Stream, at["filter"], FilterBlock(policy))
        /\ ItemsIn(Stream, at["meta"], <<MetaEntry(at["filter"]), Restarts>>)
    BY <1>6, <1>7, <1>8 DEF BuilderIInv, FinishBlocks
  <2>2. FilterBlock(policy)' = FilterBlock(policy)
    BY <1>1 DEF FilterBlock
  <2>3. FilterBlock(policy) \in Seq(Items) /\ at["filter"] \in Places /\ at["meta"] \in Places
    BY <1>2, ItemTypes DEF BuilderShape, Kinds
  <2> DEFINE meta == <<MetaEntry(at["filter"]), Restarts>>
  <2>4. meta \in Seq(Items)
    BY <1>2, ItemTypes
  <2>5. meta = <<MetaEntry(at'["filter"]), Restarts>>
    BY <1>6
  <2> HIDE DEF meta
  <2>6. ItemsIn(Stream', at'["filter"], FilterBlock(policy))
    BY <1>6, <1>8, <2>1, <2>3, ExtendsKeeps
  <2>7. ItemsIn(Stream, at["meta"], meta)
    BY <2>1 DEF meta
  <2>8. ItemsIn(Stream', at["meta"], meta)
    BY <1>6, <1>8, <2>3, <2>4, <2>7, ExtendsKeeps
  <2> QED BY <1>6, <2>2, <2>5, <2>6, <2>8
<1>9. FinishBlocks'
  <2> SUFFICES ASSUME failures' = 0 PROVE FinishBlocks'
    BY DEF FinishBlocks
  <2>1. There("filter")' \/ There("meta")' => filter
    BY <1>1, <1>6 DEF There
  <2>2. Complete("index")'
    BY <1>6 DEF Complete
  <2>3. filter => Complete("filter")' /\ Complete("meta")'
    BY <1>6, <1>7 DEF Complete
  <2> QED BY <1>6, <1>8, <2>1, <2>2, <2>3 DEF FinishBlocks, items
<1> QED BY <1>6, <1>9 DEF BuilderIInv

-----------------------------------------------------------------------------
(* The builder                                                             *)

\* A new builder satisfies the invariant.
LEMMA BuilderInitInvariant == Init => BuilderIInv
<1> SUFFICES ASSUME Init PROVE BuilderIInv
  OBVIOUS
<1>1. FileIInv(Items)
  BY FileInitInvariant DEF Init
<1>2. policy \in Seq(BOOLEAN)
  <2>1. PICK keys \in EarlierTables :
           policy = IF filter /\ keys # {} THEN CreateFilter(<<>>, keys) ELSE <<>>
    BY DEF Init
  <2>2. IsFiniteSet(keys) /\ <<>> \in Seq(BOOLEAN)
    BY EarlierTablesAssumption
  <2> QED BY <2>1, <2>2, CreateFilterType
<1>3. IsFiniteSet({}) /\ <<>> \in Seq(Keys) /\ <<>> \in Seq(IndexItems)
  BY FS_EmptySet
<1>4. BuilderShape
  BY <1>2, <1>3 DEF Init, BuilderShape, Kinds, Places
<1>5. Control /\ Offsets
  BY DEF Init, FileInit, Control, Offsets, Kinds
<1>6. Len(<<>>) = 0
  OBVIOUS
<1>7. DataBlocks
  BY <1>6 DEF Init, DataBlocks, IndexedIn
<1>8. FinishBlocks
  BY DEF Init, FinishBlocks, There
<1> QED BY <1>1, <1>4, <1>5, <1>7, <1>8 DEF BuilderIInv

\* Every step of the builder and of its writer keeps the invariant.
LEMMA BuilderNextInvariant ==
    ASSUME BuilderIInv, [Next]_vars
    PROVE  BuilderIInv'
<1>1. ASSUME NEW k \in Keys, Add(k) PROVE BuilderIInv'
  BY <1>1, AddInvariant
<1>2. CASE Finish
  BY <1>2, FinishInvariant
<1>3. CASE BuilderStep
  BY <1>3, TrailerInvariant, BlockWrittenInvariant, FlushedInvariant, FinishFilterInvariant,
     FinishMetaInvariant, FinishIndexInvariant, FinishFooterInvariant, FinishCloseInvariant
     DEF BuilderStep
<1>4. CASE FileSteps
  BY <1>4, FileStepsInvariant
<1>5. CASE UNCHANGED vars
  BY <1>5, BuilderStutter
<1> QED BY <1>1, <1>2, <1>3, <1>4, <1>5 DEF Next

-----------------------------------------------------------------------------
(* The reader                                                              *)

\* Once a table is opened nothing changes any more.
OpenedIInv ==
    /\ opened \in {"no", "success"}
    /\ opened = "no" => index_data = <<>> /\ bf = <<>>
    /\ opened = "success" =>
           /\ Closed
           /\ index_data = index \o <<Restarts, Trailer>>
           /\ filter => bf = FilterBlock(policy)

TableIInv == BuilderIInv /\ OpenedIInv

\* All that was appended to a closed file is in it, and Finish wrote every block.
LEMMA ClosedFile ==
    ASSUME BuilderIInv, Closed
    PROVE  /\ Stream = file /\ file \in Seq([number : Nat, item : Items])
           /\ call = "none" /\ pending = <<>>
           /\ Len(file) > 0 /\ file[Len(file)].item = Footer
           /\ There("index") /\ (filter => There("filter") /\ There("meta"))
<1>1. pc = "done" /\ ~ is_open /\ failures = 0 /\ Control /\ Shape(Items)
  BY DEF Closed, BuilderIInv, FileIInv
<1>2. call = "none" /\ buffer = <<>> /\ pending = <<>> /\ rest = <<>>
  BY <1>1 DEF Control, Shape
<1>3. file \in Seq([number : Nat, item : Items])
  BY <1>1 DEF Shape
<1> DEFINE B == [number : Nat, item : Items]
<1> HIDE DEF B
<1>4. file \o <<>> = file
  <2>1. file \in Seq(B)
    BY <1>3 DEF B
  <2> QED BY <2>1, ConcatEmptySeq
<1>5. Stream = file
  BY <1>2, <1>4 DEF Stream
<1>6. writing = "index" /\ finishing
  BY <1>1 DEF Control
<1>7. Len(Stream) > 0 /\ Stream[Len(Stream)].item = Footer
  BY <1>1 DEF BuilderIInv, FinishBlocks
<1> QED BY <1>2, <1>3, <1>5, <1>6, <1>7 DEF There

\* Nobody touches a closed table.
LEMMA ClosedStays ==
    ASSUME BuilderIInv, Closed, [Next]_vars
    PROVE  UNCHANGED vars
<1>1. pc = "done" /\ call = "none" /\ pending = <<>>
  BY ClosedFile DEF Closed
<1>2. ~ FileStep
  <2>1. \A n \in 1 .. Len(pending) : FALSE
    <3>1. Len(pending) = 0
      BY <1>1
    <3> QED BY <3>1
  <2> QED BY <1>1, <2>1 DEF FileStep, WriteFails, AppendRest, Written
<1>3. ~ Finish /\ \A k \in Keys : ~ Add(k)
  BY <1>1 DEF Finish, Add
<1>4. ~ AppendTrailer /\ ~ BlockWritten /\ ~ Flushed
  BY <1>1 DEF AppendTrailer, BlockWritten, Flushed
<1>5. ~ FinishFilter /\ ~ FinishMeta /\ ~ FinishIndex /\ ~ FinishFooter /\ ~ FinishClose
  BY <1>1 DEF FinishFilter, FinishMeta, FinishIndex, FinishFooter, FinishClose
<1> QED BY <1>2, <1>3, <1>4, <1>5 DEF Next, BuilderStep, FileSteps

\* A block that is read back is what was appended, and its trailer.
LEMMA ReadBack ==
    ASSUME NEW B, file \in Seq([number : Nat, item : B]), NEW w \in Places,
           NEW items \in Seq(B), ItemsIn(file, w, items), BlockIn(file, w)
    PROVE  /\ ReadBlock(w) \in Seq(B) /\ Len(ReadBlock(w)) = Len(items) + 1
           /\ \A i \in 1 .. Len(items) : ReadBlock(w)[i] = items[i]
           /\ ReadBlock(w)[Len(items) + 1] = Trailer
<1>1. /\ w.offset \in Nat /\ w.length \in Nat /\ w.length = Len(items)
      /\ w.offset + w.length < Len(file) /\ Len(file) \in Nat
  BY DEF Places, ItemsIn, BlockIn
<1>2. /\ \A i \in 1 .. Len(items) : file[w.offset + i].item = items[i]
      /\ file[w.offset + w.length + 1].item = Trailer
  BY DEF ItemsIn, BlockIn
<1>3. ReadBlock(w) = [i \in 1 .. w.length + 1 |-> file[w.offset + i].item]
  BY DEF ReadBlock, Read
<1>4. \A i \in 1 .. w.length + 1 : file[w.offset + i].item \in B
  <2> TAKE i \in 1 .. w.length + 1
  <2>1. w.offset + i \in 1 .. Len(file)
    BY <1>1
  <2> DEFINE R == [number : Nat, item : B]
  <2>2. file[w.offset + i] \in R
    <3> HIDE DEF R
    <3>1. file \in Seq(R)
      BY DEF R
    <3> QED BY <2>1, <3>1, ElementOfSeq
  <2> QED BY <2>2
<1> DEFINE n == w.length + 1
<1>5. n \in Nat /\ n = Len(items) + 1 /\ \A i \in 1 .. Len(items) : i \in 1 .. n
  BY <1>1
<1>6. \A i \in 1 .. n : ReadBlock(w)[i] = file[w.offset + i].item
  BY <1>3
<1>7. ReadBlock(w) \in [1 .. n -> B]
  BY <1>3, <1>4
<1>8. w.offset + n = w.offset + w.length + 1 /\ n \in 1 .. n
  <2>1. \A o, l \in Nat : o + (l + 1) = o + l + 1 /\ l + 1 \in 1 .. l + 1
    OBVIOUS
  <2> QED BY <1>1, <2>1, Zenon
<1> HIDE DEF n
<1>9. ReadBlock(w) \in Seq(B) /\ Len(ReadBlock(w)) = n
  BY <1>5, <1>7
<1> QED BY <1>2, <1>5, <1>6, <1>8, <1>9

\* Open reads the index block and the filter block, whole.
LEMMA OpenInvariant ==
    ASSUME TableIInv, Open
    PROVE  TableIInv'
<1> DEFINE footer == Read(Len(file) - 1, 1)[1]
<1>1. /\ Closed /\ UNCHANGED vars /\ opened' = "success"
      /\ index_data' = ReadBlock(footer.index)
      /\ bf' = IF filter THEN ReadFilter(ReadMeta(footer)) ELSE <<>>
  BY DEF Open
<1>2. BuilderIInv /\ BuilderIInv' /\ failures = 0 /\ pc # "trailer" /\ BuilderShape
  BY <1>1, BuilderStutter DEF TableIInv, Closed, BuilderIInv
<1>3. /\ Stream = file /\ file \in Seq([number : Nat, item : Items])
      /\ Len(file) > 0 /\ file[Len(file)].item = Footer
      /\ There("index") /\ (filter => There("filter") /\ There("meta"))
  BY <1>1, <1>2, ClosedFile
<1>4. footer = Footer
  <2>1. Len(file) \in Nat
    BY <1>3
  <2>2. footer = file[Len(file) - 1 + 1].item
    BY DEF Read
  <2>3. Len(file) - 1 + 1 = Len(file)
    BY <2>1
  <2> QED BY <1>3, <2>2, <2>3
<1>5. footer.index = at["index"] /\ footer.meta = at["meta"]
  BY <1>4 DEF Footer
<1> HIDE DEF footer
<1>6. at["index"] \in Places /\ at["meta"] \in Places /\ at["filter"] \in Places
  BY <1>2 DEF BuilderShape, Kinds
<1>7. /\ BlockIn(file, at["index"]) /\ ItemsIn(file, at["index"], Append(index, Restarts))
      /\ filter => /\ BlockIn(file, at["meta"]) /\ BlockIn(file, at["filter"])
                   /\ ItemsIn(file, at["meta"], <<MetaEntry(at["filter"]), Restarts>>)
                   /\ ItemsIn(file, at["filter"], FilterBlock(policy))
  BY <1>2, <1>3, CompleteBlocks DEF BuilderIInv, FinishBlocks
<1>8. index_data' = index \o <<Restarts, Trailer>>
  <2> DEFINE items == Append(index, Restarts)
             I     == Items
             two   == <<Restarts, Trailer>>
  <2>1. index \in Seq(I) /\ Restarts \in I /\ Trailer \in I /\ Len(index) \in Nat
    BY <1>2 DEF BuilderShape, Items
  <2> HIDE DEF I
  <2>2. items \in Seq(I) /\ Len(items) = Len(index) + 1
        /\ (\A i \in 1 .. Len(index) : items[i] = index[i]) /\ items[Len(index) + 1] = Restarts
    BY <2>1, AppendProperties
  <2>3. two \in Seq(I) /\ Len(two) = 2 /\ two[1] = Restarts /\ two[2] = Trailer
    BY <2>1
  <2> HIDE DEF two
  <2>4. /\ index \o two \in Seq(I) /\ Len(index \o two) = Len(index) + 2
        /\ \A i \in 1 .. Len(index) + 2 :
              (index \o two)[i] = IF i <= Len(index) THEN index[i] ELSE two[i - Len(index)]
    <3>1. /\ index \o two \in Seq(I) /\ Len(index \o two) = Len(index) + Len(two)
          /\ \A i \in 1 .. Len(index) + Len(two) :
                (index \o two)[i] = IF i <= Len(index) THEN index[i] ELSE two[i - Len(index)]
      BY <2>1, <2>3, ConcatProperties
    <3> QED BY <2>3, <3>1
  <2>5. ItemsIn(file, at["index"], items)
    BY <1>7
  <2> HIDE DEF items
  <2> DEFINE read == ReadBlock(at["index"])
  <2>6. /\ read \in Seq(I) /\ Len(read) = Len(items) + 1
        /\ \A i \in 1 .. Len(items) : read[i] = items[i]
        /\ read[Len(items) + 1] = Trailer
    BY <1>3, <1>6, <1>7, <2>2, <2>5, ReadBack DEF I
  <2> HIDE DEF read
  <2>7. \A i \in 1 .. Len(read) : read[i] = (index \o two)[i]
    <3> TAKE i \in 1 .. Len(read)
    <3>1. Len(read) = Len(index) + 2
      BY <2>1, <2>2, <2>6
    <3>2. CASE i <= Len(index)
      <4>1. i \in 1 .. Len(index) /\ i \in 1 .. Len(items) /\ i \in 1 .. Len(index) + 2
        BY <2>1, <2>2, <3>1, <3>2
      <4>2. (index \o two)[i] = index[i]
        BY <2>4, <3>2, <4>1
      <4>3. read[i] = items[i]
        BY <2>6, <4>1
      <4>4. items[i] = index[i]
        BY <2>2, <4>1
      <4> QED BY <4>2, <4>3, <4>4
    <3>3. CASE i = Len(index) + 1
      <4>1. (index \o two)[i] = two[1]
        BY <2>1, <2>4, <3>1, <3>3
      <4>2. read[i] = items[Len(index) + 1]
        BY <2>1, <2>2, <2>6, <3>3
      <4> QED BY <2>2, <2>3, <4>1, <4>2
    <3>4. CASE i = Len(index) + 2
      <4>1. (index \o two)[i] = two[2]
        BY <2>1, <2>4, <3>1, <3>4
      <4>2. i = Len(items) + 1
        BY <2>1, <2>2, <3>4
      <4> QED BY <2>3, <2>6, <4>1, <4>2
    <3>5. i <= Len(index) \/ i = Len(index) + 1 \/ i = Len(index) + 2
      <4>1. \A n \in Nat : \A m \in 1 .. n + 2 : m <= n \/ m = n + 1 \/ m = n + 2
        OBVIOUS
      <4> QED BY <2>1, <3>1, <4>1
    <3> QED BY <3>2, <3>3, <3>4, <3>5, Zenon
  <2>8. Len(read) = Len(index \o two)
    BY <2>1, <2>2, <2>4, <2>6
  <2>9. read = index \o two
    BY <2>4, <2>6, <2>7, <2>8, SeqEqual
  <2> QED BY <1>1, <1>5, <2>9 DEF read, two
<1>9. ASSUME filter PROVE bf' = FilterBlock(policy)
  <2> DEFINE meta  == <<MetaEntry(at["filter"]), Restarts>>
             block_ == FilterBlock(policy)
             I     == Items
  <2>1. meta \in Seq(Items) /\ Len(meta) = 2 /\ meta[1] = MetaEntry(at["filter"])
    BY <1>2, ItemTypes
  <2>2. block_ \in Seq(Items)
    BY <1>2, ItemTypes DEF BuilderShape
  <2>3. ItemsIn(file, at["meta"], meta) /\ BlockIn(file, at["meta"])
    BY <1>7, <1>9
  <2>4. ItemsIn(file, at["filter"], block_) /\ BlockIn(file, at["filter"])
    BY <1>7, <1>9
  <2> HIDE DEF meta, block_
  <2>5. ReadBlock(at["meta"])[1] = MetaEntry(at["filter"])
    <3>1. \A i \in 1 .. Len(meta) : ReadBlock(at["meta"])[i] = meta[i]
      BY <1>3, <1>6, <2>1, <2>3, ReadBack
    <3> QED BY <2>1, <3>1
  <2>6. ReadMeta(footer) = at["filter"]
    <3>1. MetaEntry(at["filter"]).where = at["filter"]
      BY DEF MetaEntry
    <3>2. at["filter"] = [offset |-> at["filter"].offset, length |-> at["filter"].length]
      BY <1>6 DEF Places
    <3> QED BY <1>5, <2>5, <3>1, <3>2 DEF ReadMeta, Decode
  <2> DEFINE read == ReadBlock(at["filter"])
  <2>7. /\ read \in Seq(Items) /\ Len(read) = Len(block_) + 1
        /\ \A i \in 1 .. Len(block_) : read[i] = block_[i]
    BY <1>3, <1>6, <2>2, <2>4, ReadBack
  <2>8. bf' = SubSeq(read, 1, Len(block_))
    <3>1. at["filter"].length = Len(block_)
      BY <2>4 DEF ItemsIn
    <3> QED BY <1>1, <1>9, <2>6, <3>1 DEF ReadFilter
  <2> HIDE DEF read, I
  <2>9. read \in Seq(I) /\ block_ \in Seq(I) /\ Len(block_) \in Nat
    BY <2>2, <2>7 DEF I
  <2>10. /\ SubSeq(read, 1, Len(block_)) \in Seq(I)
         /\ Len(SubSeq(read, 1, Len(block_))) = Len(block_)
         /\ \A i \in 1 .. Len(block_) : SubSeq(read, 1, Len(block_))[i] = read[i]
    BY <2>7, <2>9
  <2>11. SubSeq(read, 1, Len(block_)) = block_
    BY <2>7, <2>9, <2>10, SeqEqual
  <2> QED BY <2>8, <2>11 DEF block_
<1>10. Closed' /\ index' = index /\ filter' = filter /\ FilterBlock(policy)' = FilterBlock(policy)
  BY <1>1 DEF Closed, vars, builder_vars, other_vars, filter_vars, file_vars, FilterBlock
<1> QED BY <1>1, <1>2, <1>8, <1>9, <1>10 DEF TableIInv, OpenedIInv

\* Before the table is opened the invariant is the builder's.
LEMMA TableInitInvariant == TableInit => TableIInv
BY BuilderInitInvariant DEF TableInit, TableIInv, OpenedIInv

\* Every step of builder, writer and reader keeps the invariant.
LEMMA TableNextInvariant ==
    ASSUME TableIInv, [TableNext]_table_vars
    PROVE  TableIInv'
<1>1. CASE [Next]_vars /\ UNCHANGED reader_vars
  <2>1. BuilderIInv'
    BY <1>1, BuilderNextInvariant DEF TableIInv
  <2>2. CASE opened = "success"
    <3>1. UNCHANGED vars /\ UNCHANGED reader_vars
      BY <1>1, <2>2, ClosedStays DEF TableIInv, OpenedIInv
    <3>2. OpenedIInv'
      BY <3>1 DEF TableIInv, OpenedIInv, reader_vars, Closed, vars, builder_vars, other_vars,
                  filter_vars, file_vars, FilterBlock
    <3> QED BY <2>1, <3>2 DEF TableIInv
  <2>3. CASE opened # "success"
    BY <1>1, <2>1, <2>3 DEF TableIInv, OpenedIInv, reader_vars
  <2> QED BY <2>2, <2>3
<1>2. CASE Open
  BY <1>2, OpenInvariant
<1> QED BY <1>1, <1>2 DEF TableNext, table_vars

-----------------------------------------------------------------------------
(* The theorems                                                            *)

\* The inductive invariant of the builder, its FileWriter and the reader.
THEOREM TableInvariant == TableSpec => []TableIInv
<1> QED BY TableInitInvariant, TableNextInvariant, PTL DEF TableSpec

\* Type correctness: the buffer is never overfull, nothing is written to a closed
\* file, a block is written as soon as it is full.
THEOREM TableTypeCorrect == TableSpec => []ReaderTypeOK
<1>1. ASSUME TableIInv PROVE ReaderTypeOK
  <2>1. Shape(Items) /\ BuilderShape
    BY <1>1 DEF TableIInv, BuilderIInv, FileIInv
  <2>2. FileTypeOK
    BY <2>1 DEF Shape, FileTypeOK
  <2>3. \A i \in DOMAIN policy : policy[i] \in BOOLEAN
    <3>1. policy \in Seq(BOOLEAN) /\ DOMAIN policy = 1 .. Len(policy)
      BY <2>1 DEF BuilderShape
    <3> QED BY <3>1, ElementOfSeq
  <2>4. TypeOK
    BY <2>1, <2>2, <2>3 DEF BuilderShape, TypeOK, Places
  <2> QED BY <1>1, <2>4 DEF TableIInv, OpenedIInv, ReaderTypeOK
<1> QED BY <1>1, TableInvariant, PTL

\* The bytes of a table keep their order through partial and failing writes, and
\* none is lost while no write fails.
THEOREM TableStreamTheorem == TableSpec => []StreamIsKept
<1>1. TableIInv => StreamIsKept
  BY DEF TableIInv, BuilderIInv, FileIInv
<1> QED BY <1>1, TableInvariant, PTL

\* The offsets TableBuilder counts while it appends are where the blocks end up.
THEOREM OffsetsTheorem == TableSpec => []OffsetsMatchFile
<1>1. ASSUME TableIInv PROVE OffsetsMatchFile
  <2> SUFFICES ASSUME failures = 0 PROVE OffsetsMatchFile
    BY DEF OffsetsMatchFile
  <2>1. Offsets /\ DataBlocks /\ Len(Stream) = appended
    BY <1>1 DEF TableIInv, BuilderIInv, FileIInv, StreamIsKept, OnlyFailureLoses
  <2>2. IndexedIn(Stream, index)
    BY <2>1 DEF DataBlocks
  <2>3. \A i \in 1 .. Len(index) : HoldsBlock(index[i].where) /\ HoldsEntries(index[i].where)
    BY <2>2 DEF IndexedIn, BlockIn, EntriesIn, HoldsBlock, HoldsEntries
  <2> QED BY <2>1, <2>3 DEF Offsets, OffsetsMatchFile
<1> QED BY <1>1, TableInvariant, PTL

\* Open comes to the index and to the filter the builder made, and to no more.
THEOREM OpenTheorem == TableSpec => []OpenFindsBlocks
<1>1. ASSUME TableIInv PROVE OpenFindsBlocks
  <2>1. Closed => file[Len(file)].item = Footer
    BY <1>1, ClosedFile DEF TableIInv
  <2> QED BY <1>1, <2>1 DEF TableIInv, OpenedIInv, OpenFindsBlocks, Last
<1> QED BY <1>1, TableInvariant, PTL

-----------------------------------------------------------------------------
(* The filter                                                              *)

\* Every key has bits in an array of any size, and all of them inside it.
LEMMA PositionsInside ==
    ASSUME NEW k \in Keys, NEW bits \in Nat \ {0}
    PROVE  Positions(k, bits, HashNum) \subseteq 0 .. bits - 1
<1>1. HashOf[k] \in Int /\ ShiftRight \in Nat \ {0} /\ ShiftLeft \in Nat \ {0}
  BY KeysAssumption, HashAssumption, ShiftAssumption
<1>2. HashModulus \in Nat \ {0}
  <2>1. \A a, b \in Nat \ {0} : a * b \in Nat \ {0}
    OBVIOUS
  <2> QED BY <1>1, <2>1 DEF HashModulus
<1>3. \A a \in Int : \A m \in Nat \ {0} :
          (a % m) \in 0 .. m - 1 /\ (a % m) \in Int /\ (a \div m) \in Int
  OBVIOUS
<1>4. Delta(HashOf[k]) \in Int
  <2>1. HashOf[k] * ShiftLeft \in Int
    BY <1>1
  <2>2. HashOf[k] \div ShiftRight \in Int
    BY <1>1, <1>3, Zenon
  <2>3. (HashOf[k] * ShiftLeft) % HashModulus \in Int
    BY <1>2, <1>3, <2>1, Zenon
  <2>4. \A a, b \in Int : a + b \in Int
    OBVIOUS
  <2> QED BY <2>2, <2>3, <2>4, Zenon DEF Delta
<1>5. ASSUME NEW j \in 0 .. HashNum - 1
      PROVE  ((HashOf[k] + j * Delta(HashOf[k])) % HashModulus) % bits \in 0 .. bits - 1
  <2>1. j \in Int
    BY BloomNumbers
  <2>2. HashOf[k] + j * Delta(HashOf[k]) \in Int
    BY <1>1, <1>4, <2>1
  <2>3. (HashOf[k] + j * Delta(HashOf[k])) % HashModulus \in Int
    BY <1>2, <1>3, <2>2
  <2> QED BY <1>3, <2>3
<1> QED BY <1>5 DEF Positions

\* The size of an array is a whole number of bytes, so rounding it up again
\* changes nothing.
LEMMA RoundedOnce ==
    ASSUME NEW n \in Nat
    PROVE  WholeBytes(Modulus(n)) = Modulus(n) /\ Modulus(n) \in Nat \ {0}
<1>1. BitsPerKey \in Nat /\ MinBits \in Nat \ {0} /\ ByteBits \in Nat \ {0}
  BY BitsAssumption
<1> DEFINE b == IF n * BitsPerKey < MinBits THEN MinBits ELSE n * BitsPerKey
           m == (b + ByteBits - 1) \div ByteBits
<1>2. b \in Nat \ {0}
  <2>1. \A a, d \in Nat : a * d \in Nat
    OBVIOUS
  <2>2. n * BitsPerKey \in Nat
    BY <1>1, <2>1
  <2> QED BY <1>1, <2>2
<1> HIDE DEF b
<1>3. m \in Nat \ {0}
  <2>1. \A a, d \in Nat \ {0} : (a + d - 1) \div d \in Nat \ {0}
    OBVIOUS
  <2> QED BY <1>1, <1>2, <2>1
<1>4. Modulus(n) = m * ByteBits
  BY DEF Modulus, WholeBytes, b
<1> HIDE DEF m
<1>5. \A a, d \in Nat \ {0} : (a * d + d - 1) \div d = a /\ a * d \in Nat \ {0}
  OBVIOUS
<1>6. (m * ByteBits + ByteBits - 1) \div ByteBits = m /\ m * ByteBits \in Nat \ {0}
  BY <1>1, <1>3, <1>5
<1> QED BY <1>4, <1>6 DEF WholeBytes

\* The array CreateFilter appends has every bit of every key.
LEMMA OwnArray ==
    ASSUME NEW data \in Seq(BOOLEAN), NEW keys \in SUBSET Keys, IsFiniteSet(keys)
    PROVE  LET own == WholeBytes(Modulus(Cardinality(keys)))
               all == CreateFilter(data, keys) IN
           /\ own \in Nat \ {0} /\ Len(all) = Len(data) + own
           /\ \A k \in keys : \A p \in Positions(k, own, HashNum) :
                  p \in 0 .. own - 1 /\ all[Len(data) + p + 1] = TRUE
<1> DEFINE n    == Cardinality(keys)
           own  == WholeBytes(Modulus(n))
           ones == UNION {Positions(k, Modulus(n), HashNum) : k \in keys}
           new  == [i \in 1 .. own |-> i - 1 \in ones]
           all  == CreateFilter(data, keys)
<1>1. n \in Nat
  BY FS_CardinalityType
<1>2. own = Modulus(n) /\ own \in Nat \ {0}
  BY <1>1, RoundedOnce
<1>3. all = data \o new
  BY DEF CreateFilter
<1>4. all \in Seq(BOOLEAN)
  BY CreateFilterType
<1>5. \A i \in 1 .. own : new[i] = (i - 1 \in ones)
  BY Zenon
<1>6. ASSUME NEW k \in keys, NEW p \in Positions(k, own, HashNum)
      PROVE  p \in 0 .. own - 1 /\ p \in ones
  <2>1. p \in 0 .. own - 1
    BY <1>2, PositionsInside
  <2>2. p \in ones
    BY <1>2
  <2> QED BY <2>1, <2>2
<1>7. DOMAIN new = 1 .. own
  OBVIOUS
<1>8. \A i \in 1 .. own : new[i] \in BOOLEAN
  <2> HIDE DEF ones, own
  <2>1. \A i \in 1 .. own : (i - 1 \in ones) \in BOOLEAN
    BY SMT
  <2> HIDE DEF new
  <2> QED BY <1>5, <2>1, Zenon
<1>9. new = [i \in 1 .. own |-> new[i]]
  BY Zenon
<1> HIDE DEF own, new, ones
<1>10. new \in Seq(BOOLEAN) /\ Len(new) = own
  BY <1>2, <1>8, <1>9
<1>11. /\ Len(all) = Len(data) + own
       /\ \A i \in 1 .. Len(data) + own :
              all[i] = IF i <= Len(data) THEN data[i] ELSE new[i - Len(data)]
  <2>1. /\ Len(data \o new) = Len(data) + Len(new)
        /\ \A i \in 1 .. Len(data) + Len(new) :
              (data \o new)[i] = IF i <= Len(data) THEN data[i] ELSE new[i - Len(data)]
    BY <1>10, ConcatProperties
  <2> QED BY <1>3, <1>10, <2>1
<1> HIDE DEF all
<1>12. ASSUME NEW k \in keys, NEW p \in Positions(k, own, HashNum)
       PROVE  all[Len(data) + p + 1] = TRUE
  <2>1. p \in 0 .. own - 1 /\ p \in ones
    BY <1>6, <1>12
  <2>2. new[p + 1] = (p + 1 - 1 \in ones) /\ p + 1 - 1 = p
    BY <1>2, <1>5, <2>1
  <2>3. all[Len(data) + p + 1] = new[p + 1]
    <3>1. \A l, o \in Nat : \A q \in 0 .. o - 1 :
             l + q + 1 \in 1 .. l + o /\ ~ (l + q + 1 <= l) /\ l + q + 1 - l = q + 1
      OBVIOUS
    <3>2. Len(data) \in Nat /\ own \in Nat
      BY <1>2
    <3> DEFINE i == Len(data) + p + 1
    <3>3. i \in 1 .. Len(data) + own /\ ~ (i <= Len(data)) /\ i - Len(data) = p + 1
      BY <2>1, <3>1, <3>2
    <3> HIDE DEF i
    <3>4. all[i] = new[i - Len(data)]
      BY <1>11, <3>3
    <3> QED BY <3>3, <3>4 DEF i
  <2> QED BY <2>1, <2>2, <2>3, Zenon
<1> QED BY <1>2, <1>6, <1>11, <1>12 DEF own, all, n

\* Once Finish has written the filter block, the end of the policy's data is the
\* array of this table.
OwnFilter ==
    There("filter") /\ datas # {} =>
        \E data \in Seq(BOOLEAN) : policy = CreateFilter(data, datas)

\* Only FinishFilter changes the policy, and no key is added after it.
LEMMA OwnFilterInvariant ==
    ASSUME BuilderIInv, OwnFilter, [Next]_vars
    PROVE  OwnFilter'
<1>1. Control /\ BuilderShape
  BY DEF BuilderIInv
<1>2. ASSUME NEW k \in Keys, Add(k) PROVE OwnFilter'
  BY <1>1, <1>2 DEF Add, Control, OwnFilter, There
<1>3. CASE Finish
  <2>1. pc = "ready" /\ ~ finishing /\ writing = "data"
    BY <1>1, <1>3 DEF Finish, Control
  <2>2. writing' = "data"
    BY <1>3, <2>1 DEF Finish, WriteBytesBlock
  <2> QED BY <2>2 DEF OwnFilter, There
<1>4. CASE FinishFilter
  <2>1. datas' = datas /\ policy' = IF datas = {} THEN policy ELSE CreateFilter(policy, datas)
    BY <1>4 DEF FinishFilter
  <2> QED BY <1>1, <2>1 DEF OwnFilter, BuilderShape
<1>5. ASSUME UNCHANGED <<datas, policy>>, There("filter")' => There("filter")
      PROVE  OwnFilter'
  BY <1>5 DEF OwnFilter
<1>6. CASE FinishMeta
  <2>1. writing = "filter" /\ finishing
    BY <1>1, <1>6 DEF FinishMeta, Control, Kinds
  <2> QED BY <1>5, <1>6, <2>1 DEF FinishMeta, filter_vars, There
<1>7. CASE FinishIndex
  <2>1. finishing /\ (filter => writing = "meta") /\ filter' = filter /\ writing' = "index"
    BY <1>1, <1>7 DEF FinishIndex, Control, Kinds, filter_vars, WriteBytesBlock
  <2> QED BY <1>5, <1>7, <2>1 DEF FinishIndex, filter_vars, There
<1>8. CASE AppendTrailer \/ BlockWritten \/ Flushed \/ FinishFooter \/ FinishClose
           \/ FileSteps \/ UNCHANGED vars
  <2>1. UNCHANGED <<filter, datas, policy, writing, finishing>>
    BY <1>8 DEF AppendTrailer, BlockWritten, Flushed, FinishFooter, FinishClose, FileSteps,
                vars, builder_vars, other_vars, filter_vars
  <2> QED BY <1>5, <2>1 DEF There
<1> QED BY <1>2, <1>3, <1>4, <1>6, <1>7, <1>8 DEF Next, BuilderStep

\* The array made for a table may match every key of it, wherever it is in the
\* data the policy shares between tables; alone in it, so may the filter block.
THEOREM OwnArrayTheorem == TableSpec => []OwnArrayMatches
<1> DEFINE Inv == TableIInv /\ OwnFilter
<1>1. TableInit => Inv
  BY TableInitInvariant DEF TableInit, Init, OwnFilter, There
<1>2. Inv /\ [TableNext]_table_vars => Inv'
  <2> SUFFICES ASSUME Inv, [TableNext]_table_vars PROVE Inv'
    OBVIOUS
  <2>1. TableIInv'
    BY TableNextInvariant
  <2>2. [Next]_vars
    BY DEF TableNext, table_vars, Open
  <2>3. OwnFilter'
    BY <2>2, OwnFilterInvariant DEF TableIInv
  <2> QED BY <2>1, <2>3
<1>3. Inv => OwnArrayMatches
  <2> SUFFICES ASSUME Inv, opened = "success", filter, NEW k \in datas
               PROVE  LET own == WholeBytes(Modulus(Cardinality(datas))) IN
                      /\ MayMatchAt(k, policy, Len(policy) - own, 0)
                      /\ Len(policy) = own => MayMatch(k, bf[1].bits, bf[1].hash_num)
    BY DEF OwnArrayMatches
  <2> DEFINE own == WholeBytes(Modulus(Cardinality(datas)))
  <2>1. BuilderShape /\ Closed /\ bf = FilterBlock(policy) /\ BuilderIInv
    BY DEF TableIInv, OpenedIInv, BuilderIInv
  <2>2. There("filter") /\ datas # {}
    BY <2>1, ClosedFile
  <2>3. PICK data \in Seq(BOOLEAN) : policy = CreateFilter(data, datas)
    BY <2>2 DEF OwnFilter
  <2>4. /\ own \in Nat \ {0} /\ Len(policy) = Len(data) + own
        /\ \A p \in Positions(k, own, HashNum) :
               p \in 0 .. own - 1 /\ policy[Len(data) + p + 1] = TRUE
    BY <2>1, <2>3, OwnArray DEF BuilderShape
  <2> HIDE DEF own
  <2>5. MayMatchAt(k, policy, Len(policy) - own, 0)
    <3>1. Len(data) \in Nat /\ Len(policy) - own = Len(data)
      BY <2>4
    <3>2. Len(data) < Len(policy) /\ Len(policy) - Len(data) = own
      BY <2>4, <3>1
    <3> QED BY <2>4, <3>1, <3>2 DEF MayMatchAt
  <2>6. ASSUME Len(policy) = own PROVE MayMatch(k, bf[1].bits, bf[1].hash_num)
    <3>1. bf[1].bits = policy /\ bf[1].hash_num = HashNum
      BY <2>1, <2>2 DEF FilterBlock
    <3>2. \A p \in Positions(k, own, HashNum) : policy[p + 1] = TRUE
      <4> TAKE p \in Positions(k, own, HashNum)
      <4>1. p \in 0 .. own - 1 /\ Len(data) \in Nat /\ Len(data) = 0
        BY <2>4, <2>6
      <4>2. Len(data) + p + 1 = p + 1
        BY <2>4, <4>1
      <4> QED BY <2>4, <4>2
    <3> QED BY <2>6, <3>1, <3>2 DEF MayMatch
  <2> QED BY <2>5, <2>6 DEF own
<1> HIDE DEF Inv
<1>4. TableSpec => []Inv
  BY <1>1, <1>2, PTL DEF TableSpec
<1> QED BY <1>3, <1>4, PTL

-----------------------------------------------------------------------------
(* The order of keys                                                       *)

Bytes == 1 .. ByteModulus - 1

\* No string is less than itself.
LEMMA LessIrreflexive ==
    ASSUME NEW a \in Seq(Bytes)
    PROVE  ~ Less(a, a)
<1> SUFFICES ASSUME NEW d \in 1 .. Len(a), d <= Len(a) => a[d] < a[d] PROVE FALSE
  BY DEF Less
<1>1. Len(a) \in Nat /\ a[d] \in Int
  BY ByteModulusAssumption DEF Bytes
<1> QED BY <1>1

\* strcmp orders strings by the first byte that differs, or by their length.
LEMMA LessTransitive ==
    ASSUME NEW a \in Seq(Bytes), NEW b \in Seq(Bytes), NEW c \in Seq(Bytes), Less(a, b), Less(b, c)
    PROVE  Less(a, c)
<1> DEFINE First(x, y, d) == /\ d \in 1 .. Len(y) /\ d <= Len(x) + 1
                             /\ \A i \in 1 .. d - 1 : x[i] = y[i]
                             /\ d <= Len(x) => x[d] < y[d]
<1>1. PICK d : First(a, b, d)
  BY DEF Less
<1>2. PICK e : First(b, c, e)
  BY DEF Less
<1>3. Len(a) \in Nat /\ Len(b) \in Nat /\ Len(c) \in Nat
  OBVIOUS
<1>4. \A i \in 1 .. Len(a) : a[i] \in Int
  BY ByteModulusAssumption DEF Bytes
<1>5. \A i \in 1 .. Len(b) : b[i] \in Int
  BY ByteModulusAssumption DEF Bytes
<1>6. \A i \in 1 .. Len(c) : c[i] \in Int
  BY ByteModulusAssumption DEF Bytes
<1>7. CASE d < e
  <2>1. First(a, c, d)
    BY <1>1, <1>2, <1>3, <1>7
  <2> QED BY <2>1 DEF Less
<1>8. CASE e < d
  <2>1. First(a, c, e)
    BY <1>1, <1>2, <1>3, <1>8
  <2> QED BY <2>1 DEF Less
<1>9. CASE d = e
  <2>1. d <= Len(a) => a[d] < c[d]
    <3>1. CASE d = Len(a) + 1
      BY <3>1
    <3>2. CASE d # Len(a) + 1
      <4>1. d \in 1 .. Len(a) /\ d \in 1 .. Len(b) /\ d \in 1 .. Len(c)
        BY <1>1, <1>2, <1>3, <1>9, <3>2
      <4>2. a[d] < b[d] /\ b[d] < c[d]
        BY <1>1, <1>2, <1>3, <1>9, <3>2, <4>1
      <4> QED BY <1>4, <1>5, <1>6, <4>1, <4>2
    <3> QED BY <1>1, <1>3, <3>1, <3>2
  <2>2. First(a, c, d)
    BY <1>1, <1>2, <1>3, <1>9, <2>1
  <2> QED BY <2>2 DEF Less
<1> QED BY <1>1, <1>2, <1>7, <1>8, <1>9

\* The loop of FindShortest stops at the first byte that differs.
LEMMA CommonLenIs ==
    ASSUME NEW a \in Seq(Bytes), NEW b \in Seq(Bytes), NEW n \in 0 .. Len(a), n <= Len(b),
           \A i \in 1 .. n : a[i] = b[i],
           n = Len(a) \/ n = Len(b) \/ a[n + 1] # b[n + 1]
    PROVE  CommonLen(a, b) = n
<1> DEFINE m == CommonLen(a, b)
<1>1. /\ m \in 0 .. Len(a) /\ m <= Len(b)
      /\ \A i \in 1 .. m : a[i] = b[i]
      /\ m = Len(a) \/ m = Len(b) \/ a[m + 1] # b[m + 1]
  BY DEF CommonLen
<1> HIDE DEF m
<1>2. Len(a) \in Nat /\ Len(b) \in Nat
  OBVIOUS
<1>3. ~ (m < n)
  BY <1>1, <1>2
<1>4. ~ (n < m)
  BY <1>1, <1>2
<1> QED BY <1>1, <1>2, <1>3, <1>4 DEF m

\* The key of an index entry is not less than the last key of its block, and
\* less than the first key of the next.
LEMMA FindShortestBetween ==
    ASSUME NEW p \in Seq(Bytes), NEW k \in Seq(Bytes), Less(p, k)
    PROVE  /\ FindShortest(p, k) \in Seq(Bytes)
           /\ FindShortest(p, k) = p \/ Less(p, FindShortest(p, k))
           /\ Less(FindShortest(p, k), k)
<1> DEFINE f == FindShortest(p, k)
<1>1. PICK d \in 1 .. Len(k) : /\ d <= Len(p) + 1
                               /\ \A i \in 1 .. d - 1 : p[i] = k[i]
                               /\ d <= Len(p) => p[d] < k[d]
  BY DEF Less
<1>2. Len(p) \in Nat /\ Len(k) \in Nat /\ d \in Nat /\ d > 0
  OBVIOUS
<1>3. \A i \in 1 .. Len(p) : p[i] \in Int /\ p[i] > 0 /\ p[i] < ByteModulus
  BY ByteModulusAssumption DEF Bytes
<1>4. \A i \in 1 .. Len(k) : k[i] \in Int /\ k[i] > 0 /\ k[i] < ByteModulus
  BY ByteModulusAssumption DEF Bytes
<1>5. CommonLen(p, k) = d - 1
  <2>1. d - 1 \in 0 .. Len(p) /\ d - 1 <= Len(k) /\ d - 1 + 1 = d
    BY <1>1, <1>2
  <2>2. d - 1 = Len(p) \/ p[d - 1 + 1] # k[d - 1 + 1]
    BY <1>1, <1>2, <1>3, <1>4, <2>1
  <2> QED BY <1>1, <2>1, <2>2, CommonLenIs
<1>6. CASE f = p
  BY <1>6
<1>7. CASE f # p
  <2>1. /\ d <= Len(p) /\ AsChar(p[d]) + 1 < AsChar(k[d])
        /\ f = Append(SubSeq(p, 1, d - 1), (p[d] + 1) % ByteModulus)
    BY <1>2, <1>5, <1>7 DEF FindShortest
  <2>2. p[d] < k[d] /\ d \in 1 .. Len(p)
    BY <1>1, <1>2, <2>1
  <2>3. p[d] + 1 < k[d] /\ p[d] + 1 < ByteModulus
    BY <1>3, <1>4, <2>1, <2>2, ByteModulusAssumption DEF AsChar
  <2>4. (p[d] + 1) % ByteModulus = p[d] + 1
    <3>1. \A x \in Nat : \A y \in Nat \ {0} : x < y => x % y = x
      OBVIOUS
    <3>2. p[d] + 1 \in Nat
      BY <1>3, <2>2
    <3> QED BY <2>3, <3>1, <3>2, ByteModulusAssumption
  <2> DEFINE s == SubSeq(p, 1, d - 1)
             x == p[d] + 1
  <2>5. /\ s \in Seq(Bytes) /\ Len(s) = d - 1 /\ \A i \in 1 .. d - 1 : s[i] = p[i]
    BY <1>2, <2>2
  <2>6. x \in Bytes
    BY <1>3, <2>2, <2>3, ByteModulusAssumption DEF Bytes
  <2>7. f = Append(s, x)
    BY <2>1, <2>4
  <2> HIDE DEF s, f, x
  <2>8. /\ f \in Seq(Bytes) /\ Len(f) = d /\ f[d] = x
        /\ \A i \in 1 .. d - 1 : f[i] = p[i]
    <3> DEFINE B == Bytes
    <3>1. s \in Seq(B) /\ x \in B
      BY <2>5, <2>6
    <3> HIDE DEF B
    <3>2. /\ Append(s, x) \in Seq(B) /\ Len(Append(s, x)) = Len(s) + 1
          /\ Append(s, x)[Len(s) + 1] = x
          /\ \A i \in 1 .. Len(s) : Append(s, x)[i] = s[i]
      BY <3>1, AppendProperties
    <3>3. Len(s) + 1 = d
      BY <1>2, <2>5
    <3> QED BY <2>5, <2>7, <3>2, <3>3 DEF B
  <2>9. p[d] < f[d] /\ f[d] < k[d]
    BY <1>3, <2>2, <2>3, <2>8 DEF x
  <2>10. Less(p, f)
    BY <1>2, <2>2, <2>8, <2>9 DEF Less
  <2>11. Less(f, k)
    BY <1>1, <1>2, <2>8, <2>9 DEF Less
  <2> QED BY <2>8, <2>10, <2>11 DEF f
<1> QED BY <1>6, <1>7

\* In the order of keys: the first is not behind the second.
UpTo(j, k) == j = k \/ Less(j, k)

\* UpTo and Less are a partial order and its strict form.
LEMMA UpToOrder ==
    ASSUME NEW a \in Seq(Bytes), NEW b \in Seq(Bytes), NEW c \in Seq(Bytes)
    PROVE  /\ UpTo(a, b) /\ UpTo(b, c) => UpTo(a, c)
           /\ UpTo(a, b) /\ Less(b, c) => Less(a, c)
           /\ Less(a, b) /\ UpTo(b, c) => Less(a, c)
           /\ UpTo(a, b) => ~ Less(b, a)
BY LessTransitive, LessIrreflexive DEF UpTo

\* Keys are strings, and none is empty.
LEMMA KeyStrings == Keys \subseteq Seq(Bytes) \ {<<>>} /\ <<>> \in Seq(Bytes)
BY KeysAssumption DEF Strings, Bytes

-----------------------------------------------------------------------------
(* Every key is found                                                      *)

\* A key behind the last entry of the index, ...
After(k, ix) == Len(ix) = 0 \/ Less(ix[Len(ix)].key, k)

\* ... and a block that an item is in, or an empty one.
Reaches(w, i) == (w.offset < i /\ i <= w.offset + w.length) \/ w.length = 1

\* A lookup of the key of item i comes to a block the item is in, or an empty one.
Homed(i, k, ix) ==
    \E j \in 1 .. Len(ix) :
        /\ Reaches(ix[j].where, i)
        /\ UpTo(k, ix[j].key)
        /\ j = 1 \/ Less(ix[j - 1].key, k)

\* The last data block waits for its entry.
Pending == need_index \/ (writing = "data" /\ pc \in {"trailer", "written"})

AddedIn(s) == {s[i].item.key : i \in {j \in 1 .. Len(s) : s[j].item.of = "entry"}}
KeysOf(b)  == {b[i] : i \in 1 .. Len(b)}

EntriesHomed ==
    \A i \in 1 .. Len(Stream) : Stream[i].item.of = "entry" =>
        LET k == Stream[i].item.key IN
        /\ k \in Keys /\ UpTo(k, pre_key)
        /\ \/ Homed(i, k, index)
           \/ Pending /\ After(k, index) /\ Reaches(at["data"], i)

BlockWaits ==
    /\ \A i \in 1 .. Len(block) : UpTo(block[i], pre_key) /\ After(block[i], index)
    /\ block # <<>> => pc = "ready" /\ ~ need_index

Counted ==
    /\ IsFiniteSet(AddedIn(Stream) \cup KeysOf(block))
    /\ Cardinality(AddedIn(Stream) \cup KeysOf(block)) = entry_count

LookupIInv ==
    failures = 0 =>
        /\ EntriesHomed /\ BlockWaits /\ Counted
        /\ \A j \in 1 .. Len(index) : index[j].key \in Seq(Bytes)
        /\ finishing \/ After(pre_key, index)
        /\ writing = "index" => ~ need_index

\* A new entry of the index leaves those before it as they are, and is the one
\* for the keys between them and its own.
LEMMA IndexHomes ==
    ASSUME NEW ix \in Seq(IndexItems), NEW e \in IndexItems, NEW i, NEW k
    PROVE  /\ Homed(i, k, ix) => Homed(i, k, Append(ix, e))
           /\ After(k, ix) /\ Reaches(e.where, i) /\ UpTo(k, e.key) => Homed(i, k, Append(ix, e))
           /\ Less(e.key, k) => After(k, Append(ix, e))
<1> DEFINE X == IndexItems  n == Len(ix)  new == Append(ix, e)
<1>1. ix \in Seq(X) /\ e \in X
  OBVIOUS
<1> HIDE DEF X
<1>2. /\ n \in Nat /\ Len(new) = n + 1 /\ new[n + 1] = e
      /\ \A j \in 1 .. n : new[j] = ix[j]
  BY <1>1, AppendProperties
<1> HIDE DEF new, n
<1>3. ASSUME Homed(i, k, ix) PROVE Homed(i, k, new)
  <2>1. PICK j \in 1 .. n : /\ Reaches(ix[j].where, i) /\ UpTo(k, ix[j].key)
                            /\ j = 1 \/ Less(ix[j - 1].key, k)
    BY <1>3 DEF Homed, n
  <2>2. j \in 1 .. Len(new) /\ new[j] = ix[j] /\ (j = 1 \/ new[j - 1] = ix[j - 1])
    BY <1>2, <2>1
  <2>3. /\ Reaches(new[j].where, i) /\ UpTo(k, new[j].key)
        /\ j = 1 \/ Less(new[j - 1].key, k)
    BY <2>1, <2>2
  <2> QED BY <2>2, <2>3 DEF Homed
<1>4. ASSUME After(k, ix), Reaches(e.where, i), UpTo(k, e.key) PROVE Homed(i, k, new)
  <2>1. n = 0 \/ Less(ix[n].key, k)
    BY <1>4 DEF After, n
  <2> DEFINE m == n + 1
  <2>2. m \in 1 .. Len(new) /\ new[m] = e /\ (m = 1 \/ (n # 0 /\ m - 1 = n /\ new[m - 1] = ix[n]))
    BY <1>2
  <2> HIDE DEF m
  <2>3. /\ Reaches(new[m].where, i) /\ UpTo(k, new[m].key)
        /\ m = 1 \/ Less(new[m - 1].key, k)
    BY <1>4, <2>1, <2>2
  <2> QED BY <2>2, <2>3 DEF Homed
<1>5. ASSUME Less(e.key, k) PROVE After(k, new)
  BY <1>2, <1>5 DEF After
<1>6. new = Append(ix, e)
  BY DEF new
<1> QED BY <1>3, <1>4, <1>5, <1>6, Zenon

\* Where the entries of a longer stream are.
LEMMA EntriesGrow ==
    ASSUME NEW items \in Seq(Items), Grew(items), failures' = 0
    PROVE  /\ Len(Stream) = appended /\ appended \in Nat
           /\ \A i \in 1 .. Len(Stream) : i \in 1 .. Len(Stream') /\ Stream'[i].item = Stream[i].item
           /\ \A n \in 1 .. Len(items) :
                  appended + n \in 1 .. Len(Stream') /\ Stream'[appended + n].item = items[n]
           /\ \A i \in 1 .. Len(Stream') :
                  i \in 1 .. Len(Stream) \/ \E n \in 1 .. Len(items) : i = appended + n
           /\ AddedIn(Stream) \subseteq AddedIn(Stream')
<1>1. /\ Len(Stream) = appended /\ Len(Stream') = appended' /\ appended' = appended + Len(items)
      /\ Extends(Stream', Stream) /\ \A n \in 1 .. Len(items) : Stream'[appended + n].item = items[n]
  BY DEF Grew
<1>2. Len(items) \in Nat /\ appended \in Nat
  BY <1>1 DEF Extends
<1>3. \A a, l \in Nat : \A i \in 1 .. a + l : i \in 1 .. a \/ (i - a \in 1 .. l /\ i = a + (i - a))
  OBVIOUS
<1>4. \A i \in 1 .. Len(Stream') :
          i \in 1 .. Len(Stream) \/ \E n \in 1 .. Len(items) : i = appended + n
  BY <1>1, <1>2, <1>3
<1>5. \A n \in 1 .. Len(items) : appended + n \in 1 .. Len(Stream')
  BY <1>1, <1>2
<1>6. \A i \in 1 .. Len(Stream) : i \in 1 .. Len(Stream') /\ Stream'[i].item = Stream[i].item
  BY <1>1, <1>2 DEF Extends
<1>7. AddedIn(Stream) \subseteq AddedIn(Stream')
  <2> SUFFICES ASSUME NEW i \in 1 .. Len(Stream), Stream[i].item.of = "entry"
               PROVE  Stream[i].item.key \in AddedIn(Stream')
    BY DEF AddedIn
  <2>1. i \in 1 .. Len(Stream') /\ Stream'[i].item = Stream[i].item
    BY <1>6
  <2> QED BY <2>1 DEF AddedIn
<1> QED BY <1>1, <1>2, <1>4, <1>5, <1>6, <1>7

\* What is no entry adds no key.
LEMMA QuietEntries ==
    ASSUME NEW items \in Seq(Items), Grew(items), failures' = 0,
           \A n \in 1 .. Len(items) : items[n].of # "entry"
    PROVE  /\ \A i \in 1 .. Len(Stream') : Stream'[i].item.of = "entry" =>
                  i \in 1 .. Len(Stream) /\ Stream'[i].item = Stream[i].item
           /\ AddedIn(Stream') = AddedIn(Stream)
<1>1. \A i \in 1 .. Len(Stream') : Stream'[i].item.of = "entry" =>
          i \in 1 .. Len(Stream) /\ Stream'[i].item = Stream[i].item
  <2> TAKE i \in 1 .. Len(Stream')
  <2> HAVE Stream'[i].item.of = "entry"
  <2>1. CASE i \in 1 .. Len(Stream)
    BY <2>1, EntriesGrow
  <2>2. CASE i \notin 1 .. Len(Stream)
    <3>1. PICK n \in 1 .. Len(items) : i = appended + n
      BY <2>2, EntriesGrow
    <3>2. Stream'[i].item = items[n]
      BY <3>1, EntriesGrow
    <3> QED BY <3>1, <3>2
  <2> QED BY <2>1, <2>2
<1>2. AddedIn(Stream') \subseteq AddedIn(Stream)
  BY <1>1 DEF AddedIn
<1>3. AddedIn(Stream) \subseteq AddedIn(Stream')
  BY EntriesGrow
<1> QED BY <1>1, <1>2, <1>3

\* A data block adds its keys.
LEMMA DataEntries ==
    ASSUME NEW b \in Seq(Keys), NEW items \in Seq(Items), items = DataOf(b),
           Grew(items), failures' = 0
    PROVE  /\ \A i \in 1 .. Len(Stream') : Stream'[i].item.of = "entry" =>
                  \/ i \in 1 .. Len(Stream) /\ Stream'[i].item = Stream[i].item
                  \/ \E n \in 1 .. Len(b) : i = appended + n /\ Stream'[i].item.key = b[n]
           /\ AddedIn(Stream') = AddedIn(Stream) \cup KeysOf(b)
<1>1. Len(b) \in Nat /\ Len(items) = Len(b) + 1
      /\ (\A n \in 1 .. Len(b) : items[n] = Entry(b[n])) /\ items[Len(b) + 1] = Restarts
  <2> DEFINE es == [n \in 1 .. Len(b) |-> Entry(b[n])]
             r  == Restarts
             E  == {Entry(k) : k \in Keys} \cup {r}
  <2>1. Len(b) \in Nat /\ \A n \in 1 .. Len(b) : b[n] \in Keys
    OBVIOUS
  <2>2. \A n \in 1 .. Len(b) : Entry(b[n]) \in E
    BY <2>1
  <2>3. r \in E
    OBVIOUS
  <2>4. items = es \o <<r>> /\ \A n \in 1 .. Len(b) : es[n] = Entry(b[n])
    BY DEF DataOf
  <2> HIDE DEF E, r
  <2>5. es \in Seq(E) /\ Len(es) = Len(b) /\ <<r>> \in Seq(E) /\ Len(<<r>>) = 1 /\ <<r>>[1] = r
    BY <2>1, <2>2, <2>3
  <2> HIDE DEF es
  <2>6. /\ Len(es \o <<r>>) = Len(es) + Len(<<r>>)
        /\ \A i \in 1 .. Len(es) + Len(<<r>>) :
              (es \o <<r>>)[i] = IF i <= Len(es) THEN es[i] ELSE <<r>>[i - Len(es)]
    BY <2>5, ConcatProperties
  <2> QED BY <2>1, <2>4, <2>5, <2>6 DEF r
<1>2. \A n \in 1 .. Len(items) : n \in 1 .. Len(b) \/ n = Len(b) + 1
  <2>1. \A l \in Nat : \A n \in 1 .. l + 1 : n \in 1 .. l \/ n = l + 1
    OBVIOUS
  <2> QED BY <1>1, <2>1
<1>3. Restarts.of # "entry" /\ \A k : Entry(k).of = "entry" /\ Entry(k).key = k
  BY DEF Restarts, Entry
<1>4. \A i \in 1 .. Len(Stream') : Stream'[i].item.of = "entry" =>
          \/ i \in 1 .. Len(Stream) /\ Stream'[i].item = Stream[i].item
          \/ \E n \in 1 .. Len(b) : i = appended + n /\ Stream'[i].item.key = b[n]
  <2> TAKE i \in 1 .. Len(Stream')
  <2> HAVE Stream'[i].item.of = "entry"
  <2>1. CASE i \in 1 .. Len(Stream)
    BY <2>1, EntriesGrow
  <2>2. CASE i \notin 1 .. Len(Stream)
    <3>1. PICK n \in 1 .. Len(items) : i = appended + n
      BY <2>2, EntriesGrow
    <3>2. Stream'[i].item = items[n]
      BY <3>1, EntriesGrow
    <3>3. n \in 1 .. Len(b)
      BY <1>1, <1>2, <1>3, <3>1, <3>2
    <3> QED BY <1>1, <1>3, <3>1, <3>2, <3>3
  <2> QED BY <2>1, <2>2
<1>5. AddedIn(Stream') \subseteq AddedIn(Stream) \cup KeysOf(b)
  BY <1>4 DEF AddedIn, KeysOf
<1>6. AddedIn(Stream) \subseteq AddedIn(Stream')
  BY EntriesGrow
<1>7. KeysOf(b) \subseteq AddedIn(Stream')
  <2> SUFFICES ASSUME NEW n \in 1 .. Len(b) PROVE b[n] \in AddedIn(Stream')
    BY DEF KeysOf
  <2>1. n \in 1 .. Len(items)
    BY <1>1
  <2>2. /\ appended + n \in 1 .. Len(Stream')
        /\ Stream'[appended + n].item = Entry(b[n])
    BY <1>1, <2>1, EntriesGrow
  <2> QED BY <1>3, <2>2 DEF AddedIn
<1> QED BY <1>4, <1>5, <1>6, <1>7

\* A step that adds no key and no entry of the index.
LEMMA QuietLookup ==
    ASSUME LookupIInv, NEW items \in Seq(Items), Grew(items),
           \A n \in 1 .. Len(items) : items[n].of # "entry",
           UNCHANGED <<index, pre_key, block, entry_count, finishing>>, at'["data"] = at["data"],
           failures' = 0 /\ Pending => Pending',
           failures' = 0 /\ block # <<>> => pc' = pc /\ need_index' = need_index,
           failures' = 0 /\ failures = 0 /\ writing' = "index" => ~ need_index'
    PROVE  LookupIInv'
<1> SUFFICES ASSUME failures' = 0 PROVE LookupIInv'
  BY DEF LookupIInv
<1>1. failures = 0
  BY DEF Grew
<1>2. /\ EntriesHomed /\ BlockWaits /\ Counted
      /\ \A j \in 1 .. Len(index) : index[j].key \in Seq(Bytes)
      /\ finishing \/ After(pre_key, index)
  BY <1>1 DEF LookupIInv
<1>3. EntriesHomed'
  <2> SUFFICES ASSUME NEW i \in 1 .. Len(Stream'), Stream'[i].item.of = "entry"
               PROVE  LET k == Stream'[i].item.key IN
                      /\ k \in Keys /\ UpTo(k, pre_key')
                      /\ \/ Homed(i, k, index')
                         \/ Pending' /\ After(k, index') /\ Reaches(at'["data"], i)
    BY DEF EntriesHomed
  <2> DEFINE k == Stream[i].item.key
  <2>1. i \in 1 .. Len(Stream) /\ Stream'[i].item = Stream[i].item
    BY QuietEntries
  <2>2. /\ k \in Keys /\ UpTo(k, pre_key)
        /\ Homed(i, k, index) \/ (Pending /\ After(k, index) /\ Reaches(at["data"], i))
    BY <1>2, <2>1 DEF EntriesHomed
  <2>3. pre_key' = pre_key /\ index' = index
    OBVIOUS
  <2> QED BY <2>1, <2>2, <2>3
<1>4. BlockWaits'
  BY <1>2 DEF BlockWaits
<1>5. Counted'
  <2>1. AddedIn(Stream)' = AddedIn(Stream) /\ KeysOf(block)' = KeysOf(block)
    BY QuietEntries DEF KeysOf
  <2> QED BY <1>2, <2>1 DEF Counted
<1> QED BY <1>1, <1>2, <1>3, <1>4, <1>5 DEF LookupIInv

\* A data block is written behind keys that have their entries.
LEMMA NewDataBlock ==
    ASSUME BuilderIInv, pc = "ready", NEW b \in Seq(Keys),
           WriteBytesBlock("data", DataOf(b)), failures' = 0,
           \A i \in 1 .. Len(Stream) : Stream[i].item.of = "entry" =>
               LET k == Stream[i].item.key IN
               /\ k \in Keys /\ UpTo(k, pre_key')
               /\ Homed(i, k, index') \/ (b = <<>> /\ After(k, index')),
           \A n \in 1 .. Len(b) : UpTo(b[n], pre_key') /\ After(b[n], index')
    PROVE  EntriesHomed' /\ AddedIn(Stream') = AddedIn(Stream) \cup KeysOf(b)
<1> DEFINE data == DataOf(b)
<1>1. /\ data \in Seq(Items) /\ Len(data) = Len(b) + 1 /\ Len(b) \in Nat
  BY ItemTypes DEF BuilderIInv
<1>2. /\ at' = [at EXCEPT !["data"] = [offset |-> block_offset, length |-> Len(data)]]
      /\ AppendBytes(data) /\ writing' = "data" /\ pc' = "trailer"
  BY DEF WriteBytesBlock
<1>3. FileIInv(Items)' /\ Grew(data)
  <2>1. FileIInv(Items) /\ is_open
    BY DEF BuilderIInv, Control
  <2> QED BY <1>1, <1>2, <2>1, AppendGrows
<1>4. failures = 0 /\ block_offset = appended
  <2>1. failures = 0
    BY <1>3 DEF Grew
  <2> QED BY <2>1 DEF BuilderIInv, Offsets
<1>5. at'["data"].offset = appended /\ at'["data"].length = Len(b) + 1
  <2>1. at \in [Kinds -> Places] /\ "data" \in Kinds
    BY DEF BuilderIInv, BuilderShape, Kinds
  <2> QED BY <1>1, <1>2, <1>4, <2>1
<1>6. b = <<>> => Len(b) = 0
  OBVIOUS
<1> HIDE DEF data
<1>7. /\ \A i \in 1 .. Len(Stream') : Stream'[i].item.of = "entry" =>
             \/ i \in 1 .. Len(Stream) /\ Stream'[i].item = Stream[i].item
             \/ \E n \in 1 .. Len(b) : i = appended + n /\ Stream'[i].item.key = b[n]
      /\ AddedIn(Stream') = AddedIn(Stream) \cup KeysOf(b)
  BY <1>1, <1>3, DataEntries DEF data
<1>8. EntriesHomed'
  <2> SUFFICES ASSUME NEW i \in 1 .. Len(Stream'), Stream'[i].item.of = "entry"
               PROVE  LET k == Stream'[i].item.key IN
                      /\ k \in Keys /\ UpTo(k, pre_key')
                      /\ \/ Homed(i, k, index')
                         \/ Pending' /\ After(k, index') /\ Reaches(at'["data"], i)
    BY DEF EntriesHomed
  <2>1. Pending'
    BY <1>2 DEF Pending
  <2>2. CASE i \in 1 .. Len(Stream) /\ Stream'[i].item = Stream[i].item
    <3>1. b = <<>> => Reaches(at'["data"], i)
      BY <1>5, <1>6 DEF Reaches
    <3> QED BY <2>1, <2>2, <3>1
  <2>3. CASE \E n \in 1 .. Len(b) : i = appended + n /\ Stream'[i].item.key = b[n]
    <3>1. PICK n \in 1 .. Len(b) : i = appended + n /\ Stream'[i].item.key = b[n]
      BY <2>3
    <3>2. appended \in Nat
      BY <1>1, <1>3, EntriesGrow
    <3>3. Reaches(at'["data"], i)
      BY <1>1, <1>5, <3>1, <3>2 DEF Reaches
    <3>4. b[n] \in Keys /\ UpTo(b[n], pre_key') /\ After(b[n], index')
      OBVIOUS
    <3> QED BY <2>1, <3>1, <3>3, <3>4
  <2> QED BY <1>7, <2>2, <2>3
<1> QED BY <1>7, <1>8

\* Add: the block before gets its entry, under a key that is between its last
\* key and this one; and this key is the last.
LEMMA AddLookup ==
    ASSUME BuilderIInv, LookupIInv, NEW k \in Keys, Add(k)
    PROVE  LookupIInv'
<1> DEFINE f == FindShortest(pre_key, k)
           e == IndexEntry(f, at["data"])
           b == Append(block, k)
           S == AddedIn(Stream) \cup KeysOf(block)
<1>1. /\ pc = "ready" /\ need_index' = FALSE /\ pre_key' = k /\ entry_count' = entry_count + 1
      /\ index' = (IF need_index THEN Append(index, e) ELSE index)
      /\ finishing' = finishing /\ Less(pre_key, k)
  BY DEF Add, IndexBefore
<1>2. BuilderShape /\ ~ finishing /\ writing = "data" /\ FileIInv(Items)
  BY <1>1 DEF BuilderIInv, Control
<1>3. CASE failures' # 0
  BY <1>3 DEF LookupIInv
<1>4. CASE failures' = 0
  <2>1. failures = 0
    <3>1. CASE CurrentSize(b) >= BlockSize
      BY <1>4, <3>1 DEF Add, WriteBytesBlock, AppendBytes
    <3>2. CASE ~ (CurrentSize(b) >= BlockSize)
      BY <1>4, <3>2 DEF Add, file_vars
    <3> QED BY <3>1, <3>2
  <2>2. /\ EntriesHomed /\ BlockWaits /\ Counted
        /\ \A j \in 1 .. Len(index) : index[j].key \in Seq(Bytes)
        /\ After(pre_key, index)
    BY <1>2, <2>1 DEF LookupIInv
  <2>3. pre_key \in Seq(Bytes) /\ k \in Seq(Bytes) /\ Keys \subseteq Seq(Bytes)
    BY <1>2, KeyStrings DEF BuilderShape
  <2>4. f \in Seq(Bytes) /\ UpTo(pre_key, f) /\ Less(f, k)
    BY <1>1, <2>3, FindShortestBetween DEF UpTo
  <2>5. index \in Seq(IndexItems) /\ e \in IndexItems /\ e.key = f /\ e.where = at["data"]
    <3>1. at["data"] \in Places /\ pre_key \in Keys \cup {<<>>} /\ index \in Seq(IndexItems)
      BY <1>2 DEF BuilderShape, Kinds
    <3>2. e \in IndexItems
      BY <3>1 DEF IndexItems
    <3>3. e = [of |-> "index", key |-> f, where |-> at["data"]]
      BY DEF IndexEntry
    <3> HIDE DEF e, f
    <3> QED BY <3>1, <3>2, <3>3
  <2> HIDE DEF e, f
  <2>6. \A x \in Seq(Bytes) : UpTo(x, pre_key) => Less(x, k) /\ UpTo(x, k) /\ UpTo(x, f)
    <3> TAKE x \in Seq(Bytes)
    <3> HAVE UpTo(x, pre_key)
    <3>1. Less(x, k)
      BY <1>1, <2>3, UpToOrder
    <3>2. UpTo(x, f)
      BY <2>3, <2>4, UpToOrder
    <3> QED BY <3>1, <3>2 DEF UpTo
  <2>7. After(k, index')
    <3>1. CASE need_index
      BY <1>1, <2>4, <2>5, <3>1, IndexHomes
    <3>2. CASE ~ need_index
      <4>1. Len(index) = 0 \/ (Len(index) \in 1 .. Len(index) /\ Less(index[Len(index)].key, pre_key))
        BY <2>2, <2>5 DEF After
      <4>2. Len(index) = 0 \/ Less(index[Len(index)].key, k)
        BY <1>1, <2>2, <2>3, <4>1, LessTransitive
      <4> QED BY <1>1, <3>2, <4>2 DEF After
    <3> QED BY <3>1, <3>2
  <2>8. \A j \in 1 .. Len(index') : index'[j].key \in Seq(Bytes)
    <3>1. CASE need_index
      <4> DEFINE X == IndexItems
      <4> HIDE DEF X
      <4>1. index \in Seq(X) /\ e \in X
        BY <2>5 DEF X
      <4>2. /\ Len(Append(index, e)) = Len(index) + 1 /\ Append(index, e)[Len(index) + 1] = e
            /\ \A j \in 1 .. Len(index) : Append(index, e)[j] = index[j]
        BY <4>1, AppendProperties
      <4>3. \A j \in 1 .. Len(Append(index, e)) : j \in 1 .. Len(index) \/ j = Len(index) + 1
        BY <4>1, <4>2
      <4>4. \A j \in 1 .. Len(Append(index, e)) : Append(index, e)[j].key \in Seq(Bytes)
        BY <2>2, <2>4, <2>5, <4>2, <4>3
      <4> QED BY <1>1, <3>1, <4>4
    <3>2. CASE ~ need_index
      BY <1>1, <2>2, <3>2
    <3> QED BY <3>1, <3>2
  <2>9. ASSUME NEW i \in 1 .. Len(Stream), Stream[i].item.of = "entry"
        PROVE  LET x == Stream[i].item.key IN
               x \in Keys /\ UpTo(x, pre_key) /\ UpTo(x, k) /\ Homed(i, x, index')
    <3> DEFINE x == Stream[i].item.key
    <3>1. /\ x \in Keys /\ UpTo(x, pre_key)
          /\ Homed(i, x, index) \/ (need_index /\ After(x, index) /\ Reaches(at["data"], i))
      BY <1>1, <2>2, <2>9 DEF EntriesHomed, Pending
    <3>2. UpTo(x, k) /\ UpTo(x, f)
      BY <2>3, <2>6, <3>1
    <3> HIDE DEF x
    <3>3. Homed(i, x, index')
      <4>1. CASE need_index
        <5>1. Homed(i, x, Append(index, e))
          BY <2>5, <3>1, <3>2, IndexHomes
        <5> QED BY <1>1, <4>1, <5>1
      <4>2. CASE ~ need_index
        BY <1>1, <3>1, <4>2
      <4> QED BY <4>1, <4>2
    <3> QED BY <3>1, <3>2, <3>3 DEF x
  <2>10. /\ block \in Seq(Keys) /\ b \in Seq(Keys) /\ Len(b) = Len(block) + 1
         /\ (\A n \in 1 .. Len(block) : b[n] = block[n]) /\ b[Len(block) + 1] = k
    BY <1>2 DEF BuilderShape
  <2>11. \A n \in 1 .. Len(b) : n \in 1 .. Len(block) \/ n = Len(block) + 1
    BY <2>10
  <2> HIDE DEF b
  <2>12. ASSUME NEW n \in 1 .. Len(block)
         PROVE  /\ block[n] \in Keys /\ UpTo(block[n], pre_key) /\ UpTo(block[n], k)
                /\ After(block[n], index')
    <3>1. block[n] \in Keys /\ UpTo(block[n], pre_key) /\ After(block[n], index) /\ ~ need_index
      <4>1. block # <<>>
        BY <2>10
      <4> QED BY <2>2, <2>10, <4>1 DEF BlockWaits
    <3> QED BY <1>1, <2>3, <2>6, <3>1
  <2>13. UpTo(k, k)
    BY DEF UpTo
  <2>14. \A n \in 1 .. Len(b) : UpTo(b[n], k) /\ After(b[n], index')
    BY <2>7, <2>10, <2>11, <2>12, <2>13
  <2>15. AddedIn(Stream) \cup KeysOf(b) = S \cup {k}
    <3>1. KeysOf(b) = KeysOf(block) \cup {k}
      <4>1. KeysOf(b) \subseteq KeysOf(block) \cup {k}
        BY <2>10, <2>11 DEF KeysOf
      <4>2. Len(block) + 1 \in 1 .. Len(b) /\ \A n \in 1 .. Len(block) : n \in 1 .. Len(b)
        BY <2>10
      <4>3. KeysOf(block) \cup {k} \subseteq KeysOf(b)
        BY <2>10, <4>2 DEF KeysOf
      <4> QED BY <4>1, <4>3
    <3> QED BY <3>1
  <2>16. k \notin S
    <3>1. \A x \in S : x \in Keys /\ UpTo(x, pre_key)
      BY <2>9, <2>12 DEF AddedIn, KeysOf
    <3> HIDE DEF S
    <3>2. k \in S => Less(k, k)
      BY <2>3, <2>6, <3>1
    <3> QED BY <2>3, <3>2, LessIrreflexive
  <2>17. IsFiniteSet(S \cup {k}) /\ Cardinality(S \cup {k}) = entry_count'
    <3>1. IsFiniteSet(S) /\ Cardinality(S) = entry_count
      BY <2>2 DEF Counted
    <3> HIDE DEF S
    <3> QED BY <1>1, <2>16, <3>1, FS_AddElement
  <2> HIDE DEF S
  <2>18. CASE CurrentSize(b) >= BlockSize
    <3>1. WriteBytesBlock("data", DataOf(b)) /\ block' = <<>>
      BY <2>18 DEF Add, b
    <3>2. EntriesHomed' /\ AddedIn(Stream') = AddedIn(Stream) \cup KeysOf(b)
      BY <1>1, <1>4, <2>9, <2>10, <2>14, <3>1, NewDataBlock
    <3>3. Len(<<>>) = 0
      OBVIOUS
    <3>4. AddedIn(Stream') \cup KeysOf(block') = S \cup {k}
      <4>1. KeysOf(block') = {}
        BY <3>1, <3>3 DEF KeysOf
      <4> QED BY <2>15, <3>2, <4>1
    <3>5. Counted'
      BY <2>17, <3>4 DEF Counted
    <3>6. BlockWaits'
      BY <3>1, <3>3 DEF BlockWaits
    <3> QED BY <1>1, <2>7, <2>8, <3>2, <3>5, <3>6 DEF LookupIInv
  <2>19. CASE ~ (CurrentSize(b) >= BlockSize)
    <3>1. block' = b /\ pc' = pc /\ UNCHANGED file_vars
      BY <2>19 DEF Add, b
    <3>2. Stream' = Stream
      BY <3>1, StreamSame
    <3>3. EntriesHomed'
      BY <1>1, <2>9, <3>2 DEF EntriesHomed
    <3>4. BlockWaits'
      BY <1>1, <2>14, <3>1 DEF BlockWaits
    <3>5. Counted'
      BY <2>15, <2>17, <3>1, <3>2 DEF Counted
    <3> QED BY <1>1, <2>7, <2>8, <3>3, <3>4, <3>5 DEF LookupIInv
  <2> QED BY <2>18, <2>19
<1> QED BY <1>3, <1>4

\* Finish: the last data block, or an empty one after a block that waits.
LEMMA FinishLookup ==
    ASSUME BuilderIInv, LookupIInv, Finish
    PROVE  LookupIInv'
<1>1. /\ pc = "ready" /\ finishing'
      /\ UNCHANGED <<index, pre_key, entry_count, need_index, status>>
  BY DEF Finish
<1>2. BuilderShape /\ Control
  BY DEF BuilderIInv
<1>3. CASE failures' # 0
  BY <1>3 DEF LookupIInv
<1>4. CASE failures' = 0
  <2>1. failures = 0
    <3>1. CASE status
      BY <1>4, <3>1 DEF Finish, WriteBytesBlock, AppendBytes
    <3>2. CASE ~ status
      BY <1>4, <3>2 DEF Finish, file_vars
    <3> QED BY <3>1, <3>2
  <2>2. WriteBytesBlock("data", DataOf(block)) /\ block' = <<>>
    BY <1>2, <2>1 DEF Finish, Control
  <2>3. writing' = "data"
    BY <2>2 DEF WriteBytesBlock
  <2>4. /\ EntriesHomed /\ BlockWaits /\ Counted
        /\ \A j \in 1 .. Len(index) : index[j].key \in Seq(Bytes)
    BY <2>1 DEF LookupIInv
  <2>5. block \in Seq(Keys) /\ writing = "data" /\ ~ finishing
    BY <1>1, <1>2 DEF BuilderShape, Control
  <2>6. ASSUME NEW i \in 1 .. Len(Stream), Stream[i].item.of = "entry"
        PROVE  LET x == Stream[i].item.key IN
               /\ x \in Keys /\ UpTo(x, pre_key')
               /\ Homed(i, x, index') \/ (block = <<>> /\ After(x, index'))
    <3> DEFINE x == Stream[i].item.key
    <3>1. /\ x \in Keys /\ UpTo(x, pre_key)
          /\ Homed(i, x, index) \/ (need_index /\ After(x, index))
      BY <1>1, <2>4, <2>6 DEF EntriesHomed, Pending
    <3>2. need_index => block = <<>>
      BY <2>4 DEF BlockWaits
    <3> HIDE DEF x
    <3>3. /\ x \in Keys /\ UpTo(x, pre_key')
          /\ Homed(i, x, index') \/ (block = <<>> /\ After(x, index'))
      BY <1>1, <3>1, <3>2
    <3> QED BY <3>3 DEF x
  <2>7. \A n \in 1 .. Len(block) : UpTo(block[n], pre_key') /\ After(block[n], index')
    BY <1>1, <2>4 DEF BlockWaits
  <2>8. EntriesHomed' /\ AddedIn(Stream') = AddedIn(Stream) \cup KeysOf(block)
    BY <1>1, <1>4, <2>2, <2>5, <2>6, <2>7, NewDataBlock
  <2>9. Len(<<>>) = 0
    OBVIOUS
  <2>10. KeysOf(block') = {} /\ BlockWaits'
    BY <2>2, <2>9 DEF KeysOf, BlockWaits
  <2>11. Counted'
    <3>1. AddedIn(Stream') \cup KeysOf(block') = AddedIn(Stream) \cup KeysOf(block)
      BY <2>8, <2>10
    <3> QED BY <1>1, <2>4, <3>1 DEF Counted
  <2> QED BY <1>1, <2>3, <2>4, <2>8, <2>10, <2>11 DEF LookupIInv
<1> QED BY <1>3, <1>4

\* The entry of the last block is that of the last key.
LEMMA FinishIndexLookup ==
    ASSUME BuilderIInv, LookupIInv, FinishIndex
    PROVE  LookupIInv'
<1> DEFINE e     == IndexEntry(pre_key, at["data"])
           items == Append(index', Restarts)
<1>1. /\ pc = (IF filter THEN "meta" ELSE "data") /\ WriteBytesBlock("index", items)
      /\ index' = LastIndex /\ need_index' = FALSE
      /\ UNCHANGED <<pre_key, block, entry_count, finishing>>
  BY DEF FinishIndex, filter_vars
<1>2. BuilderShape /\ Control
  BY DEF BuilderIInv
<1>3. pc # "ready" /\ pc \notin {"trailer", "written", "done"} /\ finishing /\ finishing'
  BY <1>1, <1>2 DEF Control
<1>4. /\ writing' = "index" /\ AppendBytes(items)
      /\ at' = [at EXCEPT !["index"] = [offset |-> block_offset, length |-> Len(items)]]
  BY <1>1 DEF WriteBytesBlock
<1>5. index \in Seq(IndexItems) /\ e.key = pre_key /\ e.where = at["data"]
      /\ (pre_key # <<>> => e \in IndexItems)
  <2>1. at["data"] \in Places /\ pre_key \in Keys \cup {<<>>} /\ index \in Seq(IndexItems)
    BY <1>2 DEF BuilderShape, Kinds
  <2>2. pre_key # <<>> => e \in IndexItems
    BY <2>1 DEF IndexItems
  <2>3. e = [of |-> "index", key |-> pre_key, where |-> at["data"]]
    BY DEF IndexEntry
  <2> HIDE DEF e
  <2> QED BY <2>1, <2>2, <2>3
<1>6. index' = IF need_index /\ pre_key # <<>> THEN Append(index, e) ELSE index
  BY <1>1 DEF LastIndex
<1> HIDE DEF e
<1>7. index' \in Seq(IndexItems)
  <2> DEFINE X == IndexItems
  <2> HIDE DEF X
  <2>1. index \in Seq(X) /\ (pre_key # <<>> => e \in X)
    BY <1>5 DEF X
  <2>2. index' \in Seq(X)
    BY <1>6, <2>1
  <2> QED BY <2>2 DEF X
<1>8. items \in Seq(Items) /\ \A n \in 1 .. Len(items) : items[n].of # "entry"
  <2> DEFINE X == IndexItems \cup {Restarts}
             r == Restarts
  <2>1. index' \in Seq(X) /\ r \in X /\ Len(index') \in Nat
    <3> DEFINE Y == IndexItems
    <3> HIDE DEF Y
    <3>1. index' \in Seq(Y) /\ Y \subseteq X
      BY <1>7 DEF Y
    <3> HIDE DEF X
    <3>2. index' \in Seq(X)
      BY <3>1
    <3> QED BY <3>1, <3>2 DEF X
  <2>2. \A x \in X : x.of # "entry"
    BY DEF IndexItems, IndexEntry, Restarts
  <2> HIDE DEF X, r
  <2>3. Append(index', r) \in Seq(X)
    BY <2>1
  <2>4. \A n \in 1 .. Len(Append(index', r)) : Append(index', r)[n] \in X
    BY <2>3, ElementOfSeq
  <2>5. items = Append(index', r)
    BY DEF r
  <2>6. items \in Seq(Items)
    BY <1>2, <1>7, ItemTypes
  <2> QED BY <2>2, <2>4, <2>5, <2>6
<1> HIDE DEF items
<1>9. Grew(items) /\ at'["data"] = at["data"]
  <2>1. FileIInv(Items) /\ is_open
    BY <1>3 DEF BuilderIInv, Control
  <2>2. Grew(items)
    BY <1>4, <1>8, <2>1, AppendGrows
  <2>3. at \in [Kinds -> Places] /\ {"data", "index"} \subseteq Kinds
    BY <1>2 DEF BuilderShape, Kinds
  <2> QED BY <1>4, <2>2, <2>3
<1>10. CASE failures' # 0
  BY <1>10 DEF LookupIInv
<1>11. CASE failures' = 0
  <2>1. failures = 0
    BY <1>9, <1>11 DEF Grew
  <2>2. /\ EntriesHomed /\ BlockWaits /\ Counted
        /\ \A j \in 1 .. Len(index) : index[j].key \in Seq(Bytes)
    BY <2>1 DEF LookupIInv
  <2>3. block = <<>>
    BY <1>3, <2>2 DEF BlockWaits
  <2>4. pre_key \in Seq(Bytes) /\ Keys \subseteq Seq(Bytes) \ {<<>>}
    BY <1>2, KeyStrings DEF BuilderShape
  <2>5. \A j \in 1 .. Len(index') : index'[j].key \in Seq(Bytes)
    <3>1. CASE need_index /\ pre_key # <<>>
      <4> DEFINE X == IndexItems
      <4> HIDE DEF X
      <4>1. index \in Seq(X) /\ e \in X
        BY <1>5, <3>1 DEF X
      <4>2. /\ Len(Append(index, e)) = Len(index) + 1 /\ Append(index, e)[Len(index) + 1] = e
            /\ \A j \in 1 .. Len(index) : Append(index, e)[j] = index[j]
        BY <4>1, AppendProperties
      <4>3. \A j \in 1 .. Len(Append(index, e)) : j \in 1 .. Len(index) \/ j = Len(index) + 1
        BY <4>1, <4>2
      <4>4. \A j \in 1 .. Len(Append(index, e)) : Append(index, e)[j].key \in Seq(Bytes)
        BY <1>5, <2>2, <2>4, <4>2, <4>3
      <4> QED BY <1>6, <3>1, <4>4
    <3>2. CASE ~ (need_index /\ pre_key # <<>>)
      BY <1>6, <2>2, <3>2
    <3> QED BY <3>1, <3>2
  <2>6. EntriesHomed'
    <3> SUFFICES ASSUME NEW i \in 1 .. Len(Stream'), Stream'[i].item.of = "entry"
                 PROVE  LET k == Stream'[i].item.key IN
                        /\ k \in Keys /\ UpTo(k, pre_key')
                        /\ Homed(i, k, index')
      BY DEF EntriesHomed
    <3> DEFINE k == Stream[i].item.key
    <3>1. i \in 1 .. Len(Stream) /\ Stream'[i].item = Stream[i].item
      BY <1>8, <1>9, <1>11, QuietEntries
    <3>2. /\ k \in Keys /\ UpTo(k, pre_key)
          /\ Homed(i, k, index) \/ (need_index /\ After(k, index) /\ Reaches(at["data"], i))
      BY <1>3, <2>2, <3>1 DEF EntriesHomed, Pending
    <3> HIDE DEF k
    <3>3. pre_key # <<>>
      <4>1. ~ Less(k, <<>>)
        <5>1. Len(<<>>) = 0
          OBVIOUS
        <5> QED BY <5>1 DEF Less
      <4>2. k # <<>>
        BY <2>4, <3>2
      <4> QED BY <3>2, <4>1, <4>2 DEF UpTo
    <3>4. Homed(i, k, index')
      <4>1. CASE need_index
        <5>1. Homed(i, k, Append(index, e))
          BY <1>5, <3>2, <3>3, IndexHomes
        <5> QED BY <1>6, <3>3, <4>1, <5>1
      <4>2. CASE ~ need_index
        BY <1>6, <3>2, <4>2
      <4> QED BY <4>1, <4>2
    <3> QED BY <1>1, <3>1, <3>2, <3>4 DEF k
  <2>7. BlockWaits' /\ Counted'
    <3>1. Len(<<>>) = 0
      OBVIOUS
    <3>2. BlockWaits'
      BY <1>1, <2>3, <3>1 DEF BlockWaits
    <3>3. AddedIn(Stream)' = AddedIn(Stream) /\ KeysOf(block)' = KeysOf(block)
      BY <1>1, <1>8, <1>9, <1>11, QuietEntries DEF KeysOf
    <3>4. Counted'
      BY <1>1, <2>2, <3>3 DEF Counted
    <3> QED BY <3>2, <3>4
  <2> QED BY <1>1, <1>3, <2>5, <2>6, <2>7 DEF LookupIInv
<1> QED BY <1>10, <1>11

\* A step that appends nothing, adds no key and writes no new block.
LEMMA NothingAppended ==
    ASSUME LookupIInv, Grew(<<>>),
           UNCHANGED <<index, pre_key, block, entry_count, finishing, at>>,
           failures' = 0 /\ Pending => Pending',
           failures' = 0 /\ block # <<>> => pc' = pc /\ need_index' = need_index,
           failures' = 0 /\ failures = 0 /\ writing' = "index" => ~ need_index'
    PROVE  LookupIInv'
<1>1. <<>> \in Seq(Items) /\ \A n \in 1 .. Len(<<>>) : FALSE
  OBVIOUS
<1> QED BY <1>1, QuietLookup

\* While a call runs, no key waits in data_block_builder_.
LEMMA EmptyBlock ==
    ASSUME LookupIInv, failures = 0, pc # "ready"
    PROVE  block = <<>>
BY DEF LookupIInv, BlockWaits

\* The trailer of a block.
LEMMA TrailerLookup ==
    ASSUME BuilderIInv, LookupIInv, AppendTrailer
    PROVE  LookupIInv'
<1>1. /\ pc = "trailer" /\ pc' = "written" /\ AppendBytes(<<Trailer>>)
      /\ UNCHANGED <<block, index, pre_key, at, entry_count, need_index, writing, finishing>>
  BY DEF AppendTrailer, other_vars
<1>2. FileIInv(Items) /\ is_open
  BY <1>1 DEF BuilderIInv, Control
<1>3. <<Trailer>> \in Seq(Items) /\ \A n \in 1 .. Len(<<Trailer>>) : <<Trailer>>[n] = Trailer
  BY ItemTypes DEF BuilderIInv
<1>4. Trailer.of # "entry"
  BY DEF Trailer
<1> DEFINE items == <<Trailer>>
<1> HIDE DEF items
<1>5. items \in Seq(Items) /\ \A n \in 1 .. Len(items) : items[n].of # "entry"
  BY <1>3, <1>4 DEF items
<1>6. Grew(items)
  BY <1>1, <1>2, <1>5, AppendGrows DEF items
<1>7. failures' = 0 => failures = 0
  BY <1>6 DEF Grew
<1>8. failures' = 0 => block = <<>>
  BY <1>1, <1>7, EmptyBlock
<1>9. Pending => Pending'
  BY <1>1 DEF Pending
<1>10. failures = 0 /\ writing' = "index" => ~ need_index'
  BY <1>1 DEF LookupIInv
<1> QED BY <1>1, <1>5, <1>6, <1>8, <1>9, <1>10, QuietLookup

\* The end of WriteBytesBlock: a data block waits for its entry.
LEMMA BlockWrittenLookup ==
    ASSUME BuilderIInv, LookupIInv, BlockWritten
    PROVE  LookupIInv'
<1>1. /\ pc = "written"
      /\ UNCHANGED <<block, index, pre_key, at, entry_count, writing, finishing>>
      /\ IF writing = "data" /\ result
         THEN need_index' = TRUE /\ FlushBuffer
         ELSE UNCHANGED <<need_index, file_vars>>
  BY DEF BlockWritten
<1>2. FileIInv(Items) /\ is_open /\ (failures = 0 => result)
  BY <1>1 DEF BuilderIInv, Control
<1>3. Grew(<<>>)
  BY <1>1, <1>2, StepGrows
<1>4. failures' = 0 => failures = 0
  BY <1>3 DEF Grew
<1>5. failures' = 0 => block = <<>>
  BY <1>1, <1>4, EmptyBlock
<1>6. failures' = 0 /\ Pending => Pending'
  BY <1>1, <1>2, <1>4 DEF Pending
<1>7. failures = 0 /\ writing' = "index" => ~ need_index'
  BY <1>1 DEF LookupIInv
<1> QED BY <1>1, <1>3, <1>5, <1>6, <1>7, NothingAppended

\* The return of Flush, the call of Close, a step of the writer: nothing new.
LEMMA ReturnLookup ==
    ASSUME BuilderIInv, LookupIInv, Flushed \/ FinishClose \/ FileSteps \/ UNCHANGED vars
    PROVE  LookupIInv'
<1>1. UNCHANGED <<block, index, pre_key, at, entry_count, need_index, writing, finishing>>
  BY DEF Flushed, FinishClose, FileSteps, vars, builder_vars, other_vars
<1>2. pc' = pc \/ pc \in {"flush", "close"}
  BY DEF Flushed, FinishClose, FileSteps, vars, builder_vars
<1>3. FileIInv(Items) /\ (pc = "close" => is_open)
  BY DEF BuilderIInv, Control
<1>4. Grew(<<>>)
  <2>1. FileStep \/ (is_open /\ Close) \/ UNCHANGED file_vars
    BY <1>3 DEF Flushed, FinishClose, FileSteps, vars
  <2> QED BY <1>3, <2>1, StepGrows
<1>5. failures' = 0 => failures = 0
  BY <1>4 DEF Grew
<1>6. failures' = 0 /\ block # <<>> => pc' = pc
  BY <1>2, <1>5, EmptyBlock
<1>7. Pending => Pending'
  BY <1>1, <1>2 DEF Pending
<1>8. failures = 0 /\ writing' = "index" => ~ need_index'
  BY <1>1 DEF LookupIInv
<1> QED BY <1>1, <1>4, <1>6, <1>7, <1>8, NothingAppended

\* Finish writes a block that holds no entry of a key.
LEMMA OtherBlockLookup ==
    ASSUME BuilderIInv, LookupIInv, NEW kind \in {"filter", "meta"}, NEW items \in Seq(Items),
           WriteBytesBlock(kind, items), \A n \in 1 .. Len(items) : items[n].of # "entry",
           pc \in Kinds, UNCHANGED <<block, index, pre_key, entry_count, need_index, finishing>>
    PROVE  LookupIInv'
<1>1. /\ writing' = kind /\ AppendBytes(items)
      /\ at' = [at EXCEPT ![kind] = [offset |-> block_offset, length |-> Len(items)]]
  BY DEF WriteBytesBlock
<1>2. FileIInv(Items) /\ is_open /\ (pc = writing) /\ pc \notin {"ready", "trailer", "written"}
  BY DEF BuilderIInv, Control, Kinds
<1>3. Grew(items)
  BY <1>1, <1>2, AppendGrows
<1>4. failures' = 0 => failures = 0
  BY <1>3 DEF Grew
<1>5. failures' = 0 => block = <<>>
  BY <1>2, <1>4, EmptyBlock
<1>6. at'["data"] = at["data"]
  <2>1. at \in [Kinds -> Places] /\ "data" \in Kinds /\ kind # "data"
    BY DEF BuilderIInv, BuilderShape, Kinds
  <2> QED BY <1>1, <2>1
<1>7. Pending => Pending'
  BY <1>2 DEF Pending
<1>8. writing' # "index"
  BY <1>1
<1> QED BY <1>3, <1>5, <1>6, <1>7, <1>8, QuietLookup

\* The filter block and its meta block.
LEMMA FilterLookup ==
    ASSUME BuilderIInv, LookupIInv, FinishFilter \/ FinishMeta
    PROVE  LookupIInv'
<1>1. BuilderShape
  BY DEF BuilderIInv
<1>2. CASE FinishFilter
  <2> DEFINE data  == IF datas = {} THEN policy ELSE CreateFilter(policy, datas)
             items == FilterBlock(data)
  <2>1. /\ pc = "data" /\ WriteBytesBlock("filter", items)
        /\ UNCHANGED <<block, index, pre_key, entry_count, need_index, finishing>>
    BY <1>2 DEF FinishFilter
  <2>2. data \in Seq(BOOLEAN)
    BY <1>1, CreateFilterType DEF BuilderShape
  <2> HIDE DEF data
  <2>3. items \in Seq(Items)
    BY <1>1, <2>2, ItemTypes
  <2> DEFINE r == [of |-> "filter", bits |-> data, hash_num |-> HashNum]
  <2>4. items = <<>> \/ items = <<r>>
    BY DEF FilterBlock
  <2>5. r.of # "entry"
    OBVIOUS
  <2> HIDE DEF items, r
  <2>6. \A n \in 1 .. Len(items) : items[n].of # "entry"
    <3>1. Len(<<>>) = 0 /\ Len(<<r>>) = 1 /\ <<r>>[1] = r
      OBVIOUS
    <3> QED BY <2>4, <2>5, <3>1
  <2> QED BY <2>1, <2>3, <2>6, OtherBlockLookup DEF Kinds
<1>3. CASE FinishMeta
  <2> DEFINE e == MetaEntry(at["filter"])
             r == Restarts
             items == <<e, r>>
  <2>1. /\ pc = "filter" /\ WriteBytesBlock("meta", items)
        /\ UNCHANGED <<block, index, pre_key, entry_count, need_index, finishing>>
    BY <1>3 DEF FinishMeta
  <2>2. items \in Seq(Items)
    BY <1>1, ItemTypes
  <2>3. e.of # "entry" /\ r.of # "entry"
    BY DEF MetaEntry, Restarts
  <2> HIDE DEF e, r
  <2>4. \A n \in 1 .. Len(items) : items[n].of # "entry"
    BY <2>3
  <2> HIDE DEF items
  <2> QED BY <2>1, <2>2, <2>4, OtherBlockLookup DEF Kinds
<1> QED BY <1>2, <1>3

\* The footer.
LEMMA FooterLookup ==
    ASSUME BuilderIInv, LookupIInv, FinishFooter
    PROVE  LookupIInv'
<1> DEFINE f == Footer
           items == <<f>>
<1>1. /\ pc = "index" /\ AppendBytes(items)
      /\ UNCHANGED <<block, index, pre_key, at, entry_count, need_index, writing, finishing>>
  BY DEF FinishFooter
<1>2. FileIInv(Items) /\ is_open /\ writing = "index"
  BY <1>1 DEF BuilderIInv, Control, Kinds
<1>3. items \in Seq(Items)
  BY ItemTypes DEF BuilderIInv
<1>4. f.of # "entry"
  BY DEF Footer
<1> HIDE DEF f
<1>5. \A n \in 1 .. Len(items) : items[n].of # "entry"
  BY <1>4
<1> HIDE DEF items
<1>6. Grew(items)
  BY <1>1, <1>2, <1>3, AppendGrows
<1>7. failures' = 0 => failures = 0
  BY <1>6 DEF Grew
<1>8. failures' = 0 => block = <<>>
  BY <1>1, <1>7, EmptyBlock
<1>9. Pending => Pending'
  BY <1>1, <1>2 DEF Pending
<1>10. failures = 0 /\ writing' = "index" => ~ need_index'
  BY <1>1 DEF LookupIInv
<1> QED BY <1>1, <1>3, <1>5, <1>6, <1>8, <1>9, <1>10, QuietLookup

\* No key, no entry, no block.
LEMMA LookupInit == Init => LookupIInv
<1> SUFFICES ASSUME Init PROVE LookupIInv
  OBVIOUS
<1>1. Len(<<>>) = 0
  OBVIOUS
<1>2. Stream = <<>>
  BY DEF Init, FileInit, Stream
<1>3. EntriesHomed
  BY <1>1, <1>2 DEF EntriesHomed
<1>4. BlockWaits
  BY <1>1 DEF Init, BlockWaits
<1>5. Counted
  <2>1. AddedIn(Stream) \cup KeysOf(block) = {}
    BY <1>1, <1>2 DEF Init, AddedIn, KeysOf
  <2> QED BY <2>1, FS_EmptySet DEF Init, Counted
<1> QED BY <1>1, <1>3, <1>4, <1>5 DEF Init, LookupIInv, After

\* Every step of the builder and of its writer keeps the keys findable.
LEMMA LookupNext ==
    ASSUME BuilderIInv, LookupIInv, [Next]_vars
    PROVE  LookupIInv'
<1>1. ASSUME NEW k \in Keys, Add(k) PROVE LookupIInv'
  BY <1>1, AddLookup
<1>2. CASE Finish
  BY <1>2, FinishLookup
<1>3. CASE BuilderStep
  BY <1>3, TrailerLookup, BlockWrittenLookup, ReturnLookup, FilterLookup, FinishIndexLookup,
     FooterLookup DEF BuilderStep
<1>4. CASE FileSteps \/ UNCHANGED vars
  BY <1>4, ReturnLookup
<1> QED BY <1>1, <1>2, <1>3, <1>4 DEF Next

\* What the invariant says once the file is closed.
LEMMA FoundWhenClosed ==
    ASSUME BuilderIInv, LookupIInv, Closed
    PROVE  /\ Cardinality(Added) = entry_count
           /\ \A k \in Added :
                  \E where \in LookedUp(k) : k \in KeysAt(where) \/ KeysAt(where) = {}
<1>1. failures = 0 /\ pc = "done" /\ writing = "index" /\ BuilderShape
  BY DEF Closed, BuilderIInv, Control
<1>2. /\ EntriesHomed /\ Counted /\ ~ need_index
      /\ \A j \in 1 .. Len(index) : index[j].key \in Seq(Bytes)
  BY <1>1 DEF LookupIInv
<1>3. Stream = file /\ file \in Seq([number : Nat, item : Items])
  BY ClosedFile
<1>4. Added = AddedIn(Stream)
  BY <1>3 DEF Added, AddedIn
<1>5. Cardinality(Added) = entry_count
  <2>1. block = <<>> /\ Len(<<>>) = 0
    BY <1>1, EmptyBlock
  <2>2. AddedIn(Stream) \cup KeysOf(block) = Added
    BY <1>4, <2>1 DEF KeysOf
  <2> QED BY <1>2, <2>2 DEF Counted
<1>6. ASSUME NEW k \in Added
      PROVE  \E where \in LookedUp(k) : k \in KeysAt(where) \/ KeysAt(where) = {}
  <2>1. PICK i \in 1 .. Len(Stream) : Stream[i].item.of = "entry" /\ k = Stream[i].item.key
    BY <1>4, <1>6 DEF AddedIn
  <2>2. k \in Keys /\ Homed(i, k, index)
    BY <1>1, <1>2, <2>1 DEF EntriesHomed, Pending
  <2>3. PICK j \in 1 .. Len(index) :
            /\ Reaches(index[j].where, i)
            /\ UpTo(k, index[j].key)
            /\ j = 1 \/ Less(index[j - 1].key, k)
    BY <2>2 DEF Homed
  <2> DEFINE where == index[j].where
  <2>4. where \in LookedUp(k)
    <3>1. k \in Seq(Bytes) /\ index[j].key \in Seq(Bytes)
      BY <1>2, <2>2, KeyStrings
    <3>2. ~ Less(index[j].key, k)
      BY <2>3, <3>1, UpToOrder
    <3> QED BY <2>3, <3>2 DEF LookedUp
  <2>5. where \in Places /\ EntriesIn(Stream, where)
    <3>1. IndexedIn(Stream, index) /\ index \in Seq(IndexItems)
      BY <1>1 DEF BuilderIInv, DataBlocks, BuilderShape
    <3>2. index[j] \in IndexItems
      BY <3>1
    <3> QED BY <3>1, <3>2 DEF IndexedIn, IndexItems, IndexEntry
  <2>6. where.offset \in Nat /\ where.length \in Nat /\ Reaches(where, i)
    BY <2>3, <2>5 DEF Places
  <2> HIDE DEF where
  <2>7. CASE where.offset < i /\ i <= where.offset + where.length
    <3>1. i \in where.offset + 1 .. where.offset + where.length
      BY <2>6, <2>7
    <3>2. k \in KeysAt(where)
      BY <2>1, <3>1 DEF KeysAt
    <3> QED BY <2>4, <3>2
  <2>8. CASE where.length = 1
    <3>1. Stream[where.offset + 1].item = Restarts /\ Restarts.of # "entry"
      BY <2>5, <2>8 DEF EntriesIn, Restarts
    <3>2. \A n \in where.offset + 1 .. where.offset + where.length : n = where.offset + 1
      BY <2>6, <2>8
    <3>3. KeysAt(where) = {}
      BY <3>1, <3>2 DEF KeysAt
    <3> QED BY <2>4, <3>3
  <2> QED BY <2>6, <2>7, <2>8 DEF Reaches
<1> QED BY <1>5, <1>6

\* A table finished without a failing write has every key, and a lookup through
\* the shortened keys of the index leads to the block of the key.
THEOREM LookupTheorem == TableSpec => []LookupFinds
<1> DEFINE Inv == TableIInv /\ LookupIInv
<1>1. TableInit => Inv
  BY TableInitInvariant, LookupInit DEF TableInit
<1>2. Inv /\ [TableNext]_table_vars => Inv'
  <2> SUFFICES ASSUME Inv, [TableNext]_table_vars PROVE Inv'
    OBVIOUS
  <2>1. TableIInv'
    BY TableNextInvariant
  <2>2. [Next]_vars
    BY DEF TableNext, table_vars, Open
  <2>3. LookupIInv'
    BY <2>2, LookupNext DEF TableIInv
  <2> QED BY <2>1, <2>3
<1>3. Inv => LookupFinds
  BY FoundWhenClosed DEF TableIInv, LookupFinds
<1> HIDE DEF Inv
<1>4. TableSpec => []Inv
  BY <1>1, <1>2, PTL DEF TableSpec
<1> QED BY <1>3, <1>4, PTL

-----------------------------------------------------------------------------
(* Add and Finish are bounded                                              *)

\* The steps of Finish between a block and its end: the blocks behind it,
\* each with the append of its data, its trailer and its end, and the footer
\* and Close.
StepsAfter(kind) ==
    CASE kind = "data"   -> 14
      [] kind = "filter" -> 10
      [] kind = "meta"   -> 6
      [] kind = "index"  -> 2

\* A bound on the steps of the builder in its call.
BuilderStepsLeft ==
    CASE pc = "trailer" -> StepsAfter(writing) + 3
      [] pc = "written" -> StepsAfter(writing) + 2
      [] pc = "flush"   -> StepsAfter(writing) + 1
      [] pc \in Kinds   -> StepsAfter(pc)
      [] pc = "close"   -> 1
      [] OTHER          -> 0

\* Every step of the builder takes its call nearer to the end, and every step of
\* the writer the call of the builder that is waiting for it.
TableStepCounts ==
    /\ BuilderStep => BuilderStepsLeft' < BuilderStepsLeft
    /\ FileSteps => BuilderStepsLeft' = BuilderStepsLeft /\ WritesLeft' < WritesLeft

\* Both bounds are numbers, and not 0 inside a call.
TableIsBounded ==
    /\ WritesAreBounded
    /\ BuilderStepsLeft \in 0 .. 17
    /\ pc \notin {"ready", "done"} => BuilderStepsLeft > 0

\* The invariant makes them numbers.
LEMMA BuilderBounded == TableIInv => TableIsBounded
<1> SUFFICES ASSUME TableIInv PROVE TableIsBounded
  OBVIOUS
<1>1. /\ pc \in {"ready", "trailer", "written", "flush", "close", "done"} \cup Kinds
      /\ writing \in Kinds
  BY DEF TableIInv, BuilderIInv, BuilderShape
<1>2. WritesAreBounded
  BY WritesBounded DEF TableIInv, BuilderIInv
<1>3. \A kind \in Kinds : StepsAfter(kind) \in 2 .. 14
  BY DEF Kinds, StepsAfter
<1>4. BuilderStepsLeft \in 0 .. 17 /\ (pc \notin {"ready", "done"} => BuilderStepsLeft > 0)
  BY <1>1, <1>3 DEF BuilderStepsLeft
<1> QED BY <1>2, <1>4 DEF TableIsBounded

\* Each step of the builder counts.
LEMMA BuilderCounts ==
    ASSUME TableIInv, BuilderStep
    PROVE  BuilderStepsLeft' < BuilderStepsLeft
<1>1. /\ writing \in Kinds /\ pc # "done"
      /\ ~ finishing => writing = "data"
      /\ pc \in Kinds => writing = pc
      /\ pc = "flush" => writing = "data"
  BY DEF TableIInv, BuilderIInv, BuilderShape, Control, BuilderStep, AppendTrailer, BlockWritten, Flushed,
         FinishFilter, FinishMeta, FinishIndex, FinishFooter, FinishClose, Kinds
<1>2. /\ StepsAfter("data") = 14 /\ StepsAfter("filter") = 10
      /\ StepsAfter("meta") = 6 /\ StepsAfter("index") = 2
  BY DEF StepsAfter
<1>3. \A kind \in Kinds : StepsAfter(kind) \in Nat
  BY <1>2 DEF Kinds
<1>4. CASE AppendTrailer
  <2>1. pc = "trailer" /\ pc' = "written" /\ writing' = writing
    BY <1>4 DEF AppendTrailer, other_vars
  <2>2. /\ BuilderStepsLeft = StepsAfter(writing) + 3
        /\ BuilderStepsLeft' = StepsAfter(writing) + 2
    BY <2>1 DEF BuilderStepsLeft, StepsAfter, Kinds
  <2> QED BY <1>1, <1>3, <2>2
<1>5. CASE BlockWritten
  <2>1. /\ pc = "written" /\ writing' = writing
        /\ \/ pc' = "flush"
           \/ pc' = writing
           \/ pc' = "ready"
    BY <1>5 DEF BlockWritten
  <2>2. BuilderStepsLeft = StepsAfter(writing) + 2
    BY <2>1 DEF BuilderStepsLeft, Kinds
  <2>3. BuilderStepsLeft' \in {StepsAfter(writing) + 1, StepsAfter(writing), 0}
    BY <1>1, <2>1 DEF BuilderStepsLeft, StepsAfter, Kinds
  <2> QED BY <1>1, <1>3, <2>2, <2>3
<1>6. CASE Flushed
  <2>1. pc = "flush" /\ pc' \in {"data", "ready"} /\ writing = "data"
    BY <1>1, <1>6 DEF Flushed
  <2> QED BY <1>2, <2>1 DEF BuilderStepsLeft, Kinds
<1>7. CASE FinishFilter
  <2>1. pc = "data" /\ pc' = "trailer" /\ writing' = "filter"
    BY <1>7 DEF FinishFilter, WriteBytesBlock
  <2> QED BY <1>2, <2>1 DEF BuilderStepsLeft, Kinds
<1>8. CASE FinishMeta
  <2>1. pc = "filter" /\ pc' = "trailer" /\ writing' = "meta"
    BY <1>8 DEF FinishMeta, WriteBytesBlock
  <2> QED BY <1>2, <2>1 DEF BuilderStepsLeft, Kinds
<1>9. CASE FinishIndex
  <2>1. pc \in {"meta", "data"} /\ pc' = "trailer" /\ writing' = "index"
    BY <1>9 DEF FinishIndex, WriteBytesBlock
  <2> QED BY <1>2, <2>1 DEF BuilderStepsLeft, Kinds
<1>10. CASE FinishFooter
  <2>1. pc = "index" /\ pc' = "close"
    BY <1>10 DEF FinishFooter
  <2> QED BY <1>2, <2>1 DEF BuilderStepsLeft, Kinds
<1>11. CASE FinishClose
  <2>1. pc = "close" /\ pc' = "done"
    BY <1>11 DEF FinishClose
  <2> QED BY <2>1 DEF BuilderStepsLeft, Kinds
<1> QED BY <1>4, <1>5, <1>6, <1>7, <1>8, <1>9, <1>10, <1>11 DEF BuilderStep

\* Each step of the writer counts.
LEMMA WriterCounts ==
    ASSUME TableIInv, FileSteps
    PROVE  BuilderStepsLeft' = BuilderStepsLeft /\ WritesLeft' < WritesLeft
<1>1. WritesLeft' < WritesLeft
  BY FileCounts DEF TableIInv, BuilderIInv, FileSteps
<1>2. pc' = pc /\ writing' = writing
  BY DEF FileSteps, builder_vars, other_vars
<1> QED BY <1>1, <1>2 DEF BuilderStepsLeft, StepsAfter

\* Add and Finish end: a call has at most 17 steps of the builder, whatever fails
\* on the way, and between two of them the writer comes to the end of its own
\* call (table_builder.cpp).
THEOREM TableCallsAreBounded == TableSpec => []TableIsBounded /\ [][TableStepCounts]_table_vars
<1>1. TableIInv => [TableStepCounts]_table_vars
  BY BuilderCounts, WriterCounts DEF TableStepCounts
<1> QED BY <1>1, TableInvariant, BuilderBounded, PTL
=============================================================================
