--------------------------- MODULE ByteComparator ---------------------------
(***************************************************************************)
(* ByteComparator (src/src/db/comparator.cpp): the order of keys, and the  *)
(* short key that separates two blocks.  Keys are strings without a NUL,   *)
(* which strcmp takes for their end: sequences of bytes other than 0.      *)
(***************************************************************************)
EXTENDS Integers, Sequences

CONSTANT ByteModulus  \* 256: a char is in -ByteModulus/2 .. ByteModulus/2 - 1
ASSUME ByteModulusAssumption == ByteModulus \in Nat \ {0, 1}

Strings == Seq(1 .. ByteModulus - 1) \ {<<>>}

\* The number of bytes two strings have in common at their start.
CommonLen(a, b) ==
    CHOOSE n \in 0 .. Len(a) :
        /\ n <= Len(b)
        /\ \A i \in 1 .. n : a[i] = b[i]
        /\ n = Len(a) \/ n = Len(b) \/ a[n + 1] # b[n + 1]

\* Compare(a, b) < 0: strcmp, which compares unsigned bytes.
Less(a, b) ==
    \E d \in 1 .. Len(b) :
        /\ d <= Len(a) + 1
        /\ \A i \in 1 .. d - 1 : a[i] = b[i]
        /\ d <= Len(a) => a[d] < b[d]

AsChar(b) == IF 2 * b >= ByteModulus THEN b - ByteModulus ELSE b

\* Mutant: the limit itself may be reached.
FindShortestUpToLimit(start, limit) ==
    LET d == CommonLen(start, limit) + 1 IN
    IF d <= Len(start) /\ d <= Len(limit) /\ AsChar(start[d]) + 1 <= AsChar(limit[d])
    THEN Append(SubSeq(start, 1, d - 1), (start[d] + 1) % ByteModulus)
    ELSE start

\* diff_ch < 0xff compares a char, which is signed: it always holds.
FindShortest(start, limit) ==
    LET d == CommonLen(start, limit) + 1 IN
    IF d <= Len(start) /\ d <= Len(limit) /\ AsChar(start[d]) + 1 < AsChar(limit[d])
    THEN Append(SubSeq(start, 1, d - 1), (start[d] + 1) % ByteModulus)
    ELSE start
=============================================================================
