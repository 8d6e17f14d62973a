-------------------------------- MODULE Crc32 --------------------------------
(***************************************************************************)
(* src/src/utils/crc32.cpp and crc32.h: a checksum computed byte by byte   *)
(* at the ends of a buffer and, in between, in four interleaved strides of *)
(* 4-byte words, with a table for each byte of a word.                     *)
(*                                                                         *)
(* Words and bytes are sets of one-bits, as in Codec, so that exclusive or *)
(* is symmetric difference.  The five tables are defined by what they      *)
(* hold; the definitions give the 1280 numbers of the source.  Without     *)
(* HAVE_CRC32C, which no build file sets, Extend never takes its           *)
(* accelerated path.                                                       *)
(***************************************************************************)
EXTENDS Codec

CONSTANTS DataBits,    \* the bits of a byte that data have
          MaxBytes,    \* bound on the length of the first buffer
          NextLengths  \* the lengths of the buffers that follow

ASSUME CrcAssumption ==
    DataBits \subseteq Below(8) /\ MaxBytes \in Nat /\ NextLengths \subseteq Nat

\* 16#82f63b78#, Castagnoli's polynomial, and 16#a282ead8#.
Polynomial == {3, 4, 5, 6, 8, 9, 11, 12, 13, 17, 18, 20, 21, 22, 23, 25, 31}
kMaskDelta == {3, 4, 6, 7, 9, 11, 13, 14, 15, 17, 23, 25, 29, 31}
kCRC32Xor  == Below(32)

Xor(a, b)    == (a \ b) \cup (b \ a)
ByteOf(w, i) == Right(w, 8 * i) \cap Below(8)

\* w after four applications of Step.
FourTimes(Step(_), w) == Step(Step(Step(Step(w))))

\* Division by the polynomial of one bit.
DivideBit(w) == IF 0 \in w THEN Xor(Right(w, 1), Polynomial) ELSE Right(w, 1)

\* And of eight bits.
DivideEight(w) == FourTimes(DivideBit, FourTimes(DivideBit, w))

kByteExtensionTable == [c \in SUBSET Below(8) |-> DivideEight(c)]

\* A word after a byte that is zero, and after four.
NextByte(w) == Xor(kByteExtensionTable[ByteOf(w, 0)], Right(w, 8))
NextWord(w) == FourTimes(NextByte, w)

\* What becomes of the byte at a place of a word when 16 more bytes have passed.
StrideTable(place) ==
    [c \in SUBSET Below(8) |-> FourTimes(NextWord, Left(c, 8 * place, 32))]

kStrideExtensionTable0 == StrideTable(3)
kStrideExtensionTable1 == StrideTable(2)
kStrideExtensionTable2 == StrideTable(1)
kStrideExtensionTable3 == StrideTable(0)

-----------------------------------------------------------------------------
(* Extend                                                                  *)

STEP1(l, byte) == NextByte(Xor(l, byte))

\* At offset p of data.
ReadUint32LE(data, p) == DecodeFixed32(SubSeq(data, p + 1, p + 4))

STEP4(c, word) ==
    Xor(Xor(word, Xor(kStrideExtensionTable3[ByteOf(c, 0)], kStrideExtensionTable2[ByteOf(c, 1)])),
        Xor(kStrideExtensionTable1[ByteOf(c, 2)], kStrideExtensionTable0[ByteOf(c, 3)]))

STEP4W(l, word) == NextWord(Xor(word, l))

\* The loads of a first swath, the strides after each further swath and after
\* each single word, and their combination.
Swath(data, p) == [s \in 1 .. 4 |-> ReadUint32LE(data, p + 4 * (s - 1))]

LoadSwath(data, p, l) == [Swath(data, p) EXCEPT ![1] = Xor(@, l)]

STEP16(strides, swath) ==
    <<STEP4(strides[1], swath[1]), STEP4(strides[2], swath[2]),
      STEP4(strides[3], swath[3]), STEP4(strides[4], swath[4])>>

\* Mutant: the strides are not rotated after a single word.
ForgetRotation(strides, word) == [strides EXCEPT ![1] = STEP4(@, word)]

AdvanceWord(strides, word) == Append(Tail(strides), STEP4(strides[1], word))

Combine(strides) == STEP4W(STEP4W(STEP4W(STEP4W({}, strides[1]), strides[2]), strides[3]), strides[4])

\* All the whole words behind offset p, of which there are at least four.
Strides(data, p, l) ==
    LET words  == (Len(data) - p) \div 4
        swaths == words \div 4
        after_swaths[i \in 0 .. swaths - 1] ==
            IF i > 0 THEN STEP16(after_swaths[i - 1], Swath(data, p + 16 * i))
            ELSE LoadSwath(data, p, l)
        after_words[i \in 0 .. words % 4] ==
            IF i > 0 THEN AdvanceWord(after_words[i - 1], ReadUint32LE(data, p + 4 * (4 * swaths + i - 1)))
            ELSE after_swaths[swaths - 1]
    IN  Combine(after_words[words % 4])

\* Bytes one at a time, from offset p up to offset q.
STEP1s(data, p, q, l) ==
    LET after[i \in 0 .. q - p] == IF i > 0 THEN STEP1(after[i - 1], data[p + i]) ELSE l
    IN  after[q - p]

\* The bytes before the first aligned one, none if that is past the end.
Unaligned(address, n) ==
    LET bytes == (4 - (address % 4)) % 4 IN IF bytes <= n THEN bytes ELSE 0

\* A buffer that begins at the given address.
Extend(init_crc, data, address) ==
    LET n       == Len(data)
        aligned == Unaligned(address, n)
        strided == n - aligned >= 16
        tail    == IF strided THEN n - ((n - aligned) % 4) ELSE aligned
        head    == STEP1s(data, 0, aligned, Xor(init_crc, kCRC32Xor))
    IN  Xor(kCRC32Xor,
            STEP1s(data, tail, n, IF strided THEN Strides(data, aligned, head) ELSE head))

-----------------------------------------------------------------------------
(* Mask and Unmask: a rotation, and an addition modulo 2^32                *)

\* Bits 0 to n - 1 go to the top.
RotateRight(w, n) == Right(w, n) \cup Left(w, 32 - n, 32)

\* A carry begins where both have a bit and goes on while either has one; a
\* borrow begins where only b has a bit and goes on until only a has one.
Carries(a, b) == {i \in Below(32) : \E j \in (a \cap b) \cap Below(i) : j + 1 .. i - 1 \subseteq a \cup b}
Borrows(a, b) == {i \in Below(32) : \E j \in (b \ a) \cap Below(i) : (j + 1 .. i - 1) \cap (a \ b) = {}}
Add(a, b)      == Xor(Xor(a, b), Carries(a, b))
Subtract(a, b) == Xor(Xor(a, b), Borrows(a, b))

Mask(w) == Add(RotateRight(w, 15), kMaskDelta)

\* Mutant: the word is turned further in the same direction.
TurnOn(rot) == RotateRight(rot, 15)

TurnBack(rot) == RotateRight(rot, 17)

Unmask(masked_crc) == TurnBack(Subtract(masked_crc, kMaskDelta))

-----------------------------------------------------------------------------
(* A checksum that is extended buffer by buffer.  Extend is affine over    *)
(* exclusive or, so data with at most one bit set stand for all data.      *)

VARIABLES crc, crc_data
crc_vars == <<crc, crc_data>>

CrcInit == crc = {} /\ crc_data = <<>>

Zeros(n) == [i \in 1 .. n |-> {}]

\* n bytes with at most one bit set, none when the data so far have one.
Buffers(n) ==
    {Zeros(n)} \cup
    IF crc_data = Zeros(Len(crc_data))
    THEN {[Zeros(n) EXCEPT ![i] = {bit}] : i \in 1 .. n, bit \in DataBits}
    ELSE {}

CrcExtend(n) ==
    /\ n <= MaxBytes - Len(crc_data)
    /\ \E buffer \in Buffers(n), address \in 0 .. 3 :
          /\ crc_data' = crc_data \o buffer
          /\ crc' = Extend(crc, buffer, address)

CrcNext == \E n \in IF crc_data = <<>> THEN 1 .. MaxBytes ELSE NextLengths : CrcExtend(n)

CrcSpec == CrcInit /\ [][CrcNext]_crc_vars

-----------------------------------------------------------------------------
(* Properties *)

\* The division of the data by the polynomial, bit by bit: the definition of
\* the checksum.
Reference(data) ==
    LET rest[i \in 0 .. Len(data)] ==
            IF i > 0 THEN DivideEight(Xor(rest[i - 1], data[i])) ELSE kCRC32Xor
    IN  Xor(kCRC32Xor, rest[Len(data)])

\* However the data are split into buffers, wherever these begin, and whichever
\* of Extend's loops their lengths reach, the checksum is that of the data.
ExtendIsDivision == crc = Reference(crc_data)
=============================================================================
