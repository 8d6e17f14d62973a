-------------------------------- MODULE Codec --------------------------------
(***************************************************************************)
(* src/src/utils/codec.cpp and codec.h: integers and strings put into a    *)
(* byte string, and parsed from one that may end too early.                *)
(*                                                                         *)
(* A byte and an unsigned integer are the sets of their one-bits, at their *)
(* full widths: "or" is union, v < 2^n says that v has bits below n only.  *)
(* A position in the source's buffers is the string that is left here, and *)
(* where a Put function appends to a string its bytes are returned.        *)
(***************************************************************************)
EXTENDS Naturals, Sequences, FiniteSets, FiniteSetsExt, SequencesExt

Below(n)  == 0 .. n - 1
\* v >> n and v << n, the latter in a word of the given width.
Right(v, n)       == {bit - n : bit \in {b \in v : b >= n}}
Left(v, n, width) == {b + n : b \in v} \cap Below(width)
\* An integer as a word: lengths of strings and counts of records.
Word[n \in Nat] ==
    IF n = 0 THEN {}
    ELSE {bit + 1 : bit \in Word[n \div 2]} \cup (IF n % 2 = 1 THEN {0} ELSE {})

-----------------------------------------------------------------------------
(* Fixed width                                                             *)

EncodeFixed(v, bytes) == [i \in 1 .. bytes |-> Right(v, 8 * (i - 1)) \cap Below(8)]
EncodeFixed32(v) == EncodeFixed(v, 4)
EncodeFixed64(v) == EncodeFixed(v, 8)

DecodeFixed(buf, bytes) == UNION {Left(buf[i], 8 * (i - 1), 8 * bytes) : i \in 1 .. bytes}
DecodeFixed32(buf) == DecodeFixed(buf, 4)
DecodeFixed64(buf) == DecodeFixed(buf, 8)

-----------------------------------------------------------------------------
(* Varints: seven bits to a byte, bit 7 (B) says that more follow          *)

\* Mutant: every byte is taken to have used up eight bits.
GroupOfByte(v, i) == Right(v, 8 * (i - 1)) \cap Below(7)

Group(v, i)  == Right(v, 7 * (i - 1)) \cap Below(7)
Groups(v, n) == [i \in 1 .. n |-> IF i < n THEN Group(v, i) \cup {7} ELSE Group(v, i)]

\* Mutant: a byte is taken to hold eight bits.
EightBits(v) == Min({n \in 1 .. 4 : v \subseteq Below(8 * n)} \cup {5})

\* The branches of EncodeVarint32 by the number of bytes they write.
Bytes32(v) == Min({n \in 1 .. 4 : v \subseteq Below(7 * n)} \cup {5})

\* The loops of EncodeVarint64 and VarintLength end when the rest fits a byte.
VarintLength(v) == 1 + Cardinality({n \in 1 .. 10 : Right(v, 7 * n) # {}})

EncodeVarint32(v) == Groups(v, Bytes32(v))
EncodeVarint64(v) == Groups(v, VarintLength(v))

Refused(rest)       == [ok |-> FALSE, rest |-> rest]
Parsed(value, rest) == [ok |-> TRUE, value |-> value, rest |-> rest]

\* A loop that reads at most n bytes, or to the end of the input, and succeeds
\* at the first without bit 7; the result is cut off at the width.
GetVarint(input, n, width) ==
    LET last == {i \in 1 .. Min({n, Len(input)}) : 7 \notin input[i]}
        end  == Min(last)
    IN  IF last = {} THEN Refused(input)
        ELSE Parsed(UNION {Left(input[i] \cap Below(7), 7 * (i - 1), width) : i \in 1 .. end},
                    SubSeq(input, end + 1, Len(input)))

\* Mutant: the loop ends before the shift by 28.
FourBytes(input) == GetVarint(input, 4, 32)

GetVarint32PtrFallback(input) == GetVarint(input, 5, 32)

\* A first byte without bit 7 is the value.
GetVarint32Ptr(input) ==
    IF input # <<>> /\ 7 \notin Head(input) THEN Parsed(Head(input), Tail(input))
    ELSE GetVarint32PtrFallback(input)

GetVarint32(input) == GetVarint32Ptr(input)
GetVarint64(input) == GetVarint(input, 10, 64)

-----------------------------------------------------------------------------
(* Strings behind their length                                             *)

PutLengthPrefixedSlice(value) == EncodeVarint32(Word[Len(value)]) \o value

\* When the string is too short the length has been consumed all the same.
GetLengthPrefixedSlice(input) ==
    LET len  == GetVarint32(input)
        fits == {n \in 0 .. Len(len.rest) : Word[n] = len.value}
        n    == Min(fits)
    IN  IF ~ len.ok THEN Refused(input)
        ELSE IF fits = {} THEN Refused(len.rest)
        ELSE Parsed(SubSeq(len.rest, 1, n), SubSeq(len.rest, n + 1, Len(len.rest)))
=============================================================================
