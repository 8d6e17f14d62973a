--------------------------- MODULE ChecksumProofs ---------------------------
(***************************************************************************)
(* Proofs about Crc32 and BlockChecksum, for every string of bytes at      *)
(* every address, and for every block and every bit of it that changes.    *)
(*                                                                         *)
(* A register is the set of its bits that are on, so that exclusive or is  *)
(* the symmetric difference and a step of the division is linear: the      *)
(* tables hold the remainders of single bytes, and four of them add up to  *)
(* that of a word.  From there on each loop of Extend (swaths of sixteen   *)
(* bytes, words, single bytes) is shown to do what dividing its bytes one  *)
(* bit at a time does.                                                     *)
(***************************************************************************)
EXTENDS EncodingProofs, BlockChecksum


-----------------------------------------------------------------------------
(* Exclusive or, and the shifts                                            *)

Words == SUBSET Below(32)

\* Exclusive or is commutative and associative, {} is neutral, and every word
\* is its own inverse.
LEMMA XorAlgebra ==
    /\ \A a, b : Xor(a, b) = Xor(b, a)
    /\ \A a, b, c : Xor(Xor(a, b), c) = Xor(a, Xor(b, c))
    /\ \A a : Xor(a, {}) = a /\ Xor({}, a) = a /\ Xor(a, a) = {}
    /\ \A a, b : Xor(a, Xor(a, b)) = b
    /\ \A a, b, c : Xor(a, b) = Xor(a, c) => b = c
<1>1. \A a, b, x : x \in Xor(a, b) <=> ~ (x \in a <=> x \in b)
  BY DEF Xor
<1>2. \A a, b : (\A x : x \in a <=> x \in b) => a = b
  OBVIOUS
<1>3. \A a, b : Xor(a, b) = Xor(b, a)
  BY <1>1, <1>2
<1>4. \A a, b, c : Xor(Xor(a, b), c) = Xor(a, Xor(b, c))
  BY <1>1, <1>2
<1>5. \A a : Xor(a, {}) = a /\ Xor({}, a) = a /\ Xor(a, a) = {}
  BY DEF Xor
<1>6. \A a, b : Xor(a, Xor(a, b)) = b
  BY <1>1, <1>2
<1>7. \A a, b, c : Xor(a, b) = Xor(a, c) => b = c
  BY <1>6
<1> QED BY <1>3, <1>4, <1>5, <1>6, <1>7

\* The bits of what the shifts make.
LEMMA ShiftBits ==
    /\ \A w \in SUBSET Nat, n \in Nat : Right(w, n) = {b \in Nat : b + n \in w}
    /\ \A w \in SUBSET Nat, n \in Nat, width \in Nat :
          Left(w, n, width) = {b \in Below(width) : b >= n /\ b - n \in w}
<1>1. ASSUME NEW w \in SUBSET Nat, NEW n \in Nat PROVE Right(w, n) = {b \in Nat : b + n \in w}
  <2>1. ASSUME NEW b \in Right(w, n) PROVE b \in Nat /\ b + n \in w
    <3>1. PICK c \in w : c >= n /\ b = c - n
      BY DEF Right
    <3> QED BY <3>1
  <2>2. ASSUME NEW b \in Nat, b + n \in w PROVE b \in Right(w, n)
    <3>1. b + n >= n /\ (b + n) - n = b
      OBVIOUS
    <3> QED BY <2>2, <3>1 DEF Right
  <2> QED BY <2>1, <2>2
<1>2. ASSUME NEW w \in SUBSET Nat, NEW n \in Nat, NEW width \in Nat
      PROVE  Left(w, n, width) = {b \in Below(width) : b >= n /\ b - n \in w}
  <2>1. ASSUME NEW b \in Left(w, n, width) PROVE b \in Below(width) /\ b >= n /\ b - n \in w
    <3>1. PICK c \in w : b = c + n /\ b \in Below(width)
      BY DEF Left
    <3> QED BY <3>1
  <2>2. ASSUME NEW b \in Below(width), b >= n, b - n \in w PROVE b \in Left(w, n, width)
    <3>1. (b - n) + n = b
      BY DEF Below
    <3> QED BY <2>2, <3>1 DEF Left
  <2> QED BY <2>1, <2>2
<1> QED BY <1>1, <1>2

\* Shifts and masks go through an exclusive or.
LEMMA XorOfShifts ==
    ASSUME NEW a \in SUBSET Nat, NEW b \in SUBSET Nat, NEW n \in Nat
    PROVE  /\ Xor(a, b) \in SUBSET Nat
           /\ Right(Xor(a, b), n) = Xor(Right(a, n), Right(b, n))
           /\ \A m : Xor(a, b) \cap m = Xor(a \cap m, b \cap m)
           /\ \A width \in Nat : Left(Xor(a, b), n, width) = Xor(Left(a, n, width), Left(b, n, width))
<1>1. Xor(a, b) \in SUBSET Nat
  BY DEF Xor
<1>2. Right(Xor(a, b), n) = Xor(Right(a, n), Right(b, n))
  <2>1. /\ Right(Xor(a, b), n) = {c \in Nat : c + n \in Xor(a, b)}
        /\ Right(a, n) = {c \in Nat : c + n \in a} /\ Right(b, n) = {c \in Nat : c + n \in b}
    BY <1>1, ShiftBits
  <2> QED BY <2>1 DEF Xor
<1>3. \A m : Xor(a, b) \cap m = Xor(a \cap m, b \cap m)
  BY DEF Xor
<1>4. ASSUME NEW width \in Nat PROVE Left(Xor(a, b), n, width) = Xor(Left(a, n, width), Left(b, n, width))
  <2>1. /\ Left(Xor(a, b), n, width) = {c \in Below(width) : c >= n /\ c - n \in Xor(a, b)}
        /\ Left(a, n, width) = {c \in Below(width) : c >= n /\ c - n \in a}
        /\ Left(b, n, width) = {c \in Below(width) : c >= n /\ c - n \in b}
    BY <1>1, ShiftBits
  <2> QED BY <2>1 DEF Xor
<1> QED BY <1>1, <1>2, <1>3, <1>4

-----------------------------------------------------------------------------
(* The division                                                            *)

\* Dividing one bit is linear on words, and loses nothing.
LEMMA DivideBitLinear ==
    /\ \A w \in Words : DivideBit(w) \in Words
    /\ \A a \in Words, b \in Words : DivideBit(Xor(a, b)) = Xor(DivideBit(a), DivideBit(b))
    /\ \A a \in Words, b \in Words : DivideBit(a) = DivideBit(b) => a = b
<1>1. Polynomial \in Words /\ 31 \in Polynomial
  BY DEF Polynomial, Words, Below
<1>2. Words \subseteq SUBSET Nat
  BY DEF Words, Below
<1>3. \A w \in Words : Right(w, 1) = {b \in Nat : b + 1 \in w} /\ Right(w, 1) \in Words /\ 31 \notin Right(w, 1)
  <2> SUFFICES ASSUME NEW w \in Words
               PROVE  Right(w, 1) = {b \in Nat : b + 1 \in w} /\ Right(w, 1) \in Words /\ 31 \notin Right(w, 1)
    OBVIOUS
  <2>1. Right(w, 1) = {b \in Nat : b + 1 \in w}
    BY <1>2, ShiftBits
  <2>2. \A b \in Nat : b + 1 \in w => b \in 0 .. 30
    BY DEF Words, Below
  <2>3. 0 .. 30 \subseteq Below(32) /\ 31 \notin 0 .. 30
    BY DEF Below
  <2> QED BY <2>1, <2>2, <2>3 DEF Words
<1>4. \A w \in Words : DivideBit(w) \in Words
  BY <1>1, <1>3 DEF DivideBit, Xor, Words
<1>5. ASSUME NEW a \in Words, NEW b \in Words PROVE DivideBit(Xor(a, b)) = Xor(DivideBit(a), DivideBit(b))
  <2>1. Right(Xor(a, b), 1) = Xor(Right(a, 1), Right(b, 1))
    BY <1>2, XorOfShifts
  <2>2. 0 \in Xor(a, b) <=> ~ (0 \in a <=> 0 \in b)
    BY DEF Xor
  <2> DEFINE p == Polynomial
             x == Right(a, 1)
             y == Right(b, 1)
  <2>3. DivideBit(Xor(a, b)) = IF 0 \in Xor(a, b) THEN Xor(Xor(x, y), p) ELSE Xor(x, y)
    BY <2>1 DEF DivideBit
  <2>4. /\ DivideBit(a) = IF 0 \in a THEN Xor(x, p) ELSE x
        /\ DivideBit(b) = IF 0 \in b THEN Xor(y, p) ELSE y
    BY DEF DivideBit
  <2> HIDE DEF p, x, y
  <2>5. /\ Xor(Xor(x, y), p) = Xor(Xor(x, p), y)
        /\ Xor(Xor(x, y), p) = Xor(x, Xor(y, p))
        /\ Xor(Xor(x, p), Xor(y, p)) = Xor(x, y)
    BY DEF Xor
  <2> QED BY <2>2, <2>3, <2>4, <2>5
<1>6. ASSUME NEW a \in Words, NEW b \in Words, DivideBit(a) = DivideBit(b) PROVE a = b
  <2>1. \A w \in Words : 31 \in DivideBit(w) <=> 0 \in w
    BY <1>1, <1>3 DEF DivideBit, Xor
  <2>2. 0 \in a <=> 0 \in b
    BY <1>6, <2>1
  <2>3. Right(a, 1) = Right(b, 1)
    <3>1. CASE 0 \in a
      <4>1. Xor(Polynomial, Right(a, 1)) = Xor(Polynomial, Right(b, 1))
        BY <1>6, <2>2, <3>1, XorAlgebra DEF DivideBit
      <4> QED BY <4>1, XorAlgebra
    <3>2. CASE 0 \notin a
      BY <1>6, <2>2, <3>2 DEF DivideBit
    <3> QED BY <3>1, <3>2
  <2>4. \A c \in Nat : c + 1 \in a <=> c + 1 \in b
    BY <1>3, <2>3
  <2>5. \A c \in Nat : c = 0 \/ (c - 1 \in Nat /\ (c - 1) + 1 = c)
    OBVIOUS
  <2>6. \A c \in Nat : c \in a <=> c \in b
    BY <2>2, <2>4, <2>5
  <2> QED BY <1>2, <2>6
<1> QED BY <1>4, <1>5, <1>6

\* Functions on words that go through an exclusive or and lose nothing.
Linear(f) ==
    /\ f \in [Words -> Words]
    /\ \A a \in Words, b \in Words : f[Xor(a, b)] = Xor(f[a], f[b])
    /\ \A a \in Words, b \in Words : f[a] = f[b] => a = b

\* The exclusive or of words is one.
LEMMA XorOfWords ==
    ASSUME NEW a \in Words, NEW b \in Words
    PROVE  Xor(a, b) \in Words
BY DEF Xor, Words

\* One linear function after another is one.
LEMMA LinearAfterLinear ==
    ASSUME NEW f, NEW g, Linear(f), Linear(g)
    PROVE  Linear([w \in Words |-> g[f[w]]])
<1> DEFINE h == [w \in Words |-> g[f[w]]]
<1>1. h \in [Words -> Words]
  BY DEF Linear
<1>2. ASSUME NEW a \in Words, NEW b \in Words PROVE h[Xor(a, b)] = Xor(h[a], h[b])
  <2>1. f[Xor(a, b)] = Xor(f[a], f[b]) /\ f[a] \in Words /\ f[b] \in Words
    BY DEF Linear
  <2>2. g[Xor(f[a], f[b])] = Xor(g[f[a]], g[f[b]])
    BY <2>1 DEF Linear
  <2>3. h[Xor(a, b)] = g[f[Xor(a, b)]]
    BY XorOfWords
  <2> QED BY <2>1, <2>2, <2>3
<1>3. ASSUME NEW a \in Words, NEW b \in Words, h[a] = h[b] PROVE a = b
  <2>1. g[f[a]] = g[f[b]] /\ f[a] \in Words /\ f[b] \in Words
    BY <1>3 DEF Linear
  <2>2. f[a] = f[b]
    BY <2>1 DEF Linear
  <2> QED BY <2>2 DEF Linear
<1> HIDE DEF h
<1>4. Linear(h)
  BY <1>1, <1>2, <1>3 DEF Linear
<1> QED BY <1>4 DEF h

\* So is four times the same.
LEMMA FourTimesLinear ==
    ASSUME NEW f, Linear(f)
    PROVE  Linear([w \in Words |-> f[f[f[f[w]]]]])
<1> DEFINE f2 == [w \in Words |-> f[f[w]]]
           f4 == [w \in Words |-> f2[f2[w]]]
<1>1. Linear(f2)
  BY LinearAfterLinear
<1>2. Linear(f4)
  <2> HIDE DEF f2
  <2> QED BY <1>1, LinearAfterLinear
<1>3. \A w \in Words : f[w] \in Words
  BY DEF Linear
<1>4. \A w \in Words : f4[w] = f[f[f[f[w]]]]
  BY <1>3
<1>5. f4 = [w \in Words |-> f[f[f[f[w]]]]]
  BY <1>4
<1> QED BY <1>2, <1>5

\* Divisions by the polynomial, of one bit and of eight.
D1 == [w \in Words |-> DivideBit(w)]
D8 == [w \in Words |-> DivideEight(w)]

\* They are linear.
LEMMA DivisionLinear == Linear(D1) /\ Linear(D8)
<1>1. Linear(D1)
  BY DivideBitLinear, XorOfWords DEF D1, Linear
<1> DEFINE D4 == [w \in Words |-> D1[D1[D1[D1[w]]]]]
           E8 == [w \in Words |-> D4[D4[w]]]
<1>2. Linear(D4)
  BY <1>1, FourTimesLinear
<1>3. Linear(E8)
  <2> HIDE DEF D4
  <2> QED BY <1>2, LinearAfterLinear
<1>4. \A w \in Words : DivideBit(w) \in Words /\ D1[w] = DivideBit(w)
  BY DivideBitLinear DEF D1
<1>5. \A w \in Words : D4[w] = FourTimes(DivideBit, w) /\ FourTimes(DivideBit, w) \in Words
  BY <1>4 DEF FourTimes
<1>6. \A w \in Words : E8[w] = DivideEight(w)
  <2> HIDE DEF D4
  <2> QED BY <1>5 DEF DivideEight
<1>7. E8 = D8
  BY <1>6 DEF D8
<1> QED BY <1>1, <1>3, <1>7

\* Eight divisions shift out what has no bit among the first eight.
LEMMA DivideHigh ==
    ASSUME NEW h \in Words, \A b \in h : b >= 8
    PROVE  DivideEight(h) = Right(h, 8)
<1>1. h \in SUBSET Nat /\ h \subseteq Below(32)
  BY DEF Words, Below
<1>2. \A m \in Nat : Right(h, m) = {b \in Nat : b + m \in h} /\ Right(h, m) \in SUBSET Nat
  BY <1>1, ShiftBits
<1>3. Right(h, 0) = h
  <2>1. \A b \in Nat : b + 0 = b
    OBVIOUS
  <2> QED BY <1>1, <1>2, <2>1
<1>4. ASSUME NEW m \in 0 .. 7 PROVE DivideBit(Right(h, m)) = Right(h, m + 1)
  <2>1. 0 \notin Right(h, m)
    BY <1>2
  <2>2. Right(Right(h, m), 1) = {b \in Nat : b + 1 \in Right(h, m)}
    BY <1>2, ShiftBits
  <2>3. \A b \in Nat : (b + 1) + m = b + (m + 1) /\ b + 1 \in Nat
    OBVIOUS
  <2>4. m \in Nat /\ m + 1 \in Nat
    OBVIOUS
  <2>5. /\ Right(h, m) = {b \in Nat : b + m \in h}
        /\ Right(h, m + 1) = {b \in Nat : b + (m + 1) \in h}
    BY <1>2, <2>4
  <2>6. \A b \in Nat : b + 1 \in Right(h, m) <=> b + (m + 1) \in h
    BY <2>3, <2>5
  <2>7. Right(Right(h, m), 1) = Right(h, m + 1)
    BY <2>2, <2>5, <2>6
  <2> QED BY <2>1, <2>7 DEF DivideBit
<1>5. /\ DivideBit(Right(h, 0)) = Right(h, 1) /\ DivideBit(Right(h, 1)) = Right(h, 2)
      /\ DivideBit(Right(h, 2)) = Right(h, 3) /\ DivideBit(Right(h, 3)) = Right(h, 4)
      /\ DivideBit(Right(h, 4)) = Right(h, 5) /\ DivideBit(Right(h, 5)) = Right(h, 6)
      /\ DivideBit(Right(h, 6)) = Right(h, 7) /\ DivideBit(Right(h, 7)) = Right(h, 8)
  <2>1. /\ 0 + 1 = 1 /\ 1 + 1 = 2 /\ 2 + 1 = 3 /\ 3 + 1 = 4 /\ 4 + 1 = 5 /\ 5 + 1 = 6 /\ 6 + 1 = 7 /\ 7 + 1 = 8
        /\ 0 \in 0 .. 7 /\ 1 \in 0 .. 7 /\ 2 \in 0 .. 7 /\ 3 \in 0 .. 7
        /\ 4 \in 0 .. 7 /\ 5 \in 0 .. 7 /\ 6 \in 0 .. 7 /\ 7 \in 0 .. 7
    OBVIOUS
  <2>2. \A m \in 0 .. 7 : \A k : k = m + 1 => DivideBit(Right(h, m)) = Right(h, k)
    BY <1>4
  <2> QED BY <2>1, <2>2
<1> QED BY <1>3, <1>5 DEF DivideEight, FourTimes

\* The table holds the divisions of the bytes.
LEMMA ByteTable ==
    ASSUME NEW c \in Byte
    PROVE  c \in Words /\ kByteExtensionTable[c] = DivideEight(c)
<1>1. Byte \subseteq Words
  BY DEF Byte, Words, Below
<1> QED BY <1>1 DEF kByteExtensionTable, Byte

\* So a step of the table is the division of eight bits.
LEMMA NextByteIsDivision ==
    ASSUME NEW w \in Words
    PROVE  NextByte(w) = DivideEight(w)
<1> DEFINE low  == w \cap Below(8)
           high == w \ Below(8)
<1>1. w \in SUBSET Nat /\ w \subseteq Below(32)
  BY DEF Words, Below
<1>2. low \in Byte /\ low \in Words /\ high \in Words /\ w = Xor(low, high)
  BY <1>1 DEF Byte, Words, Xor
<1>3. ByteOf(w, 0) = low
  <2>1. Right(w, 0) = {b \in Nat : b + 0 \in w} /\ 8 * 0 = 0
    BY <1>1, ShiftBits
  <2>2. \A b \in Nat : b + 0 = b
    OBVIOUS
  <2>3. Right(w, 0) = w
    BY <1>1, <2>1, <2>2
  <2> QED BY <2>1, <2>3 DEF ByteOf
<1>4. Right(w, 8) = Right(high, 8)
  <2>1. Right(w, 8) = {b \in Nat : b + 8 \in w} /\ Right(high, 8) = {b \in Nat : b + 8 \in high}
    BY <1>1, ShiftBits
  <2>2. \A b \in Nat : b + 8 \notin Below(8)
    BY DEF Below
  <2> QED BY <2>1, <2>2
<1>5. \A b \in high : b >= 8
  BY <1>1 DEF Below
<1>6. DivideEight(high) = Right(high, 8)
  <2> HIDE DEF high
  <2> QED BY <1>2, <1>5, DivideHigh
<1>7. kByteExtensionTable[low] = DivideEight(low)
  <2> HIDE DEF low
  <2> QED BY <1>2, ByteTable
<1>8. DivideEight(w) = Xor(DivideEight(low), DivideEight(high))
  <2> HIDE DEF low, high
  <2>1. D8[Xor(low, high)] = Xor(D8[low], D8[high])
    BY <1>2, DivisionLinear DEF Linear
  <2> QED BY <1>2, <2>1 DEF D8
<1> QED BY <1>3, <1>4, <1>6, <1>7, <1>8 DEF NextByte

\* What a word becomes when four and when sixteen zero bytes have passed.
D32  == [w \in Words |-> NextWord(w)]
D128 == [w \in Words |-> FourTimes(NextWord, w)]

\* Both are linear, too, and the steps of the code are applications of D8 and D32.
LEMMA StepsLinear ==
    /\ Linear(D8) /\ Linear(D32) /\ Linear(D128)
    /\ \A w \in Words : NextByte(w) = D8[w] /\ NextWord(w) = D8[D8[D8[D8[w]]]]
<1>1. Linear(D8) /\ \A w \in Words : NextByte(w) = D8[w] /\ D8[w] \in Words
  BY DivisionLinear, NextByteIsDivision DEF D8, Linear
<1>2. \A w \in Words : NextWord(w) = D8[D8[D8[D8[w]]]]
  BY <1>1 DEF NextWord, FourTimes
<1>3. Linear(D32)
  <2>1. D32 = [w \in Words |-> D8[D8[D8[D8[w]]]]]
    BY <1>2 DEF D32
  <2> QED BY <1>1, <2>1, FourTimesLinear
<1>4. Linear(D128)
  <2>1. \A w \in Words : NextWord(w) = D32[w] /\ D32[w] \in Words
    BY <1>3 DEF D32, Linear
  <2>2. \A w \in Words : FourTimes(NextWord, w) = D32[D32[D32[D32[w]]]]
    BY <2>1 DEF FourTimes
  <2>3. D128 = [w \in Words |-> D32[D32[D32[D32[w]]]]]
    BY <2>2 DEF D128
  <2> QED BY <1>3, <2>3, FourTimesLinear
<1> QED BY <1>1, <1>2, <1>3, <1>4

-----------------------------------------------------------------------------
(* Words and their bytes                                                   *)

\* A byte at a place of a word.
Placed(c, k) == Left(c, 8 * k, 32)

\* It is a word, its bits are at that place, and it moves by one place when a
\* byte has passed.
LEMMA PlacedBits ==
    ASSUME NEW c \in Byte, NEW k \in 0 .. 3
    PROVE  /\ Placed(c, k) \in Words
           /\ Placed(c, k) = {b \in Nat : b >= 8 * k /\ b < 8 * k + 8 /\ b - 8 * k \in c}
           /\ k = 0 => Placed(c, k) = c
           /\ k # 0 => D8[Placed(c, k)] = Placed(c, k - 1)
<1>1. c \in SUBSET Nat /\ 8 * k \in Nat /\ 8 * k + 8 <= 32 /\ \A b \in c : b \in Nat /\ b < 8
  BY DEF Byte, Below
<1>2. Placed(c, k) = {b \in Below(32) : b >= 8 * k /\ b - 8 * k \in c}
  BY <1>1, ShiftBits DEF Placed
<1>3. Placed(c, k) \in Words
  BY <1>2 DEF Words
<1>4. \A b \in Nat : b - 8 * k \in c => b < 8 * k + 8
  BY <1>1
<1>5. \A b \in Nat : b < 8 * k + 8 => b \in Below(32)
  BY <1>1 DEF Below
<1>6. Placed(c, k) = {b \in Nat : b >= 8 * k /\ b < 8 * k + 8 /\ b - 8 * k \in c}
  <2>1. Below(32) \subseteq Nat
    BY DEF Below
  <2> DEFINE P == Placed(c, k)
             m == 8 * k
  <2>2. \A b \in Nat : b \in P <=> b >= m /\ b < m + 8 /\ b - m \in c
    BY <1>2, <1>4, <1>5
  <2>3. P \subseteq Nat
    BY <1>2, <2>1
  <2> HIDE DEF P, m
  <2>4. P = {b \in Nat : b >= m /\ b < m + 8 /\ b - m \in c}
    BY <2>2, <2>3
  <2> QED BY <2>4 DEF P, m
<1>7. ASSUME k = 0 PROVE Placed(c, k) = c
  <2>1. \A b \in Nat : b >= 8 * k /\ b < 8 * k + 8 /\ b - 8 * k \in c <=> b < 8 /\ b \in c
    BY <1>7
  <2>2. \A b \in Nat : b \in Placed(c, k) <=> b \in c
    BY <1>1, <1>6, <2>1
  <2>3. Placed(c, k) \subseteq Nat
    BY <1>6
  <2> QED BY <1>1, <2>2, <2>3
<1>8. ASSUME k # 0 PROVE D8[Placed(c, k)] = Placed(c, k - 1)
  <2> DEFINE h == Placed(c, k)
  <2>1. \A b \in h : b >= 8
    BY <1>6, <1>8
  <2>2. h \in Words
    BY <1>3
  <2>3. D8[h] = Right(h, 8)
    <3> HIDE DEF h
    <3> QED BY <2>1, <2>2, DivideHigh DEF D8
  <2>4. Right(h, 8) = {b \in Nat : b + 8 \in h}
    <3>1. h \in SUBSET Nat
      BY <2>2 DEF Words, Below
    <3> HIDE DEF h
    <3> QED BY <3>1, ShiftBits
  <2>5. k - 1 \in 0 .. 3 /\ 8 * (k - 1) \in Nat /\ 8 * (k - 1) = 8 * k - 8
    BY <1>8
  <2>6. Placed(c, k - 1) = {b \in Below(32) : b >= 8 * (k - 1) /\ b - 8 * (k - 1) \in c}
    BY <1>1, <2>5, ShiftBits DEF Placed
  <2>7. \A b \in Nat : b + 8 \in h <=> b + 8 >= 8 * k /\ (b + 8) - 8 * k \in c
    BY <1>4, <1>6
  <2>8. \A b \in Nat : /\ b + 8 >= 8 * k <=> b >= 8 * (k - 1)
                       /\ (b + 8) - 8 * k = b - 8 * (k - 1)
    BY <2>5
  <2>9. \A b \in Nat : b - 8 * (k - 1) \in c => b \in Below(32)
    BY <1>1, <2>5 DEF Below
  <2>10. \A b \in Nat : b + 8 \in h <=> b \in Placed(c, k - 1)
    BY <2>6, <2>7, <2>8, <2>9
  <2>11. Placed(c, k - 1) \subseteq Nat
    BY <2>6 DEF Below
  <2> QED BY <2>3, <2>4, <2>10, <2>11
<1> QED BY <1>3, <1>6, <1>7, <1>8

\* The exclusive or of four bytes at their places is their union, and a word is
\* that of its own bytes.
Joined(c0, c1, c2, c3) == Xor(Xor(Placed(c0, 0), Placed(c1, 1)), Xor(Placed(c2, 2), Placed(c3, 3)))

LEMMA JoinedIsUnion ==
    ASSUME NEW c0 \in Byte, NEW c1 \in Byte, NEW c2 \in Byte, NEW c3 \in Byte
    PROVE  Joined(c0, c1, c2, c3) = Placed(c0, 0) \cup Placed(c1, 1) \cup Placed(c2, 2) \cup Placed(c3, 3)
<1>1. /\ 0 \in 0 .. 3 /\ 1 \in 0 .. 3 /\ 2 \in 0 .. 3 /\ 3 \in 0 .. 3
      /\ 8 * 0 = 0 /\ 8 * 1 = 8 /\ 8 * 2 = 16 /\ 8 * 3 = 24
      /\ 0 + 8 = 8 /\ 8 + 8 = 16 /\ 16 + 8 = 24 /\ 24 + 8 = 32
  OBVIOUS
<1>2. /\ \A b \in Placed(c0, 0) : b \in Nat /\ b < 8
      /\ \A b \in Placed(c1, 1) : b \in Nat /\ b >= 8 /\ b < 16
      /\ \A b \in Placed(c2, 2) : b \in Nat /\ b >= 16 /\ b < 24
      /\ \A b \in Placed(c3, 3) : b \in Nat /\ b >= 24
  BY <1>1, PlacedBits
<1> QED BY <1>2 DEF Joined, Xor

LEMMA WordOfBytes ==
    ASSUME NEW c \in Words
    PROVE  /\ \A k \in 0 .. 3 : ByteOf(c, k) \in Byte
           /\ c = Joined(ByteOf(c, 0), ByteOf(c, 1), ByteOf(c, 2), ByteOf(c, 3))
<1>1. c \in SUBSET Nat /\ \A b \in c : b \in Nat /\ b < 32
  BY DEF Words, Below
<1>2. \A k \in 0 .. 3 : ByteOf(c, k) \in Byte
  BY DEF ByteOf, Byte
<1>3. ASSUME NEW k \in 0 .. 3
      PROVE  Placed(ByteOf(c, k), k) = {b \in c : b >= 8 * k /\ b < 8 * k + 8}
  <2> DEFINE d == ByteOf(c, k)
  <2>1. 8 * k \in Nat /\ d \in Byte
    BY <1>2
  <2>2. Right(c, 8 * k) = {b \in Nat : b + 8 * k \in c}
    BY <1>1, <2>1, ShiftBits
  <2>3. \A b \in Nat : b \in d <=> b + 8 * k \in c /\ b < 8
    BY <2>2 DEF ByteOf, Below
  <2> HIDE DEF d
  <2>4. Placed(d, k) = {b \in Nat : b >= 8 * k /\ b < 8 * k + 8 /\ b - 8 * k \in d}
    BY <2>1, PlacedBits
  <2>5. ASSUME NEW b \in Nat, b >= 8 * k, b < 8 * k + 8 PROVE b - 8 * k \in d <=> b \in c
    <3>1. b - 8 * k \in Nat /\ (b - 8 * k) + 8 * k = b /\ b - 8 * k < 8
      BY <2>5
    <3> QED BY <2>3, <3>1
  <2>6. Placed(d, k) = {b \in c : b >= 8 * k /\ b < 8 * k + 8}
    BY <1>1, <2>4, <2>5
  <2> QED BY <2>6 DEF d
<1>4. /\ 0 \in 0 .. 3 /\ 1 \in 0 .. 3 /\ 2 \in 0 .. 3 /\ 3 \in 0 .. 3
      /\ 8 * 0 = 0 /\ 8 * 1 = 8 /\ 8 * 2 = 16 /\ 8 * 3 = 24
      /\ 0 + 8 = 8 /\ 8 + 8 = 16 /\ 16 + 8 = 24 /\ 24 + 8 = 32
  OBVIOUS
<1>5. /\ Placed(ByteOf(c, 0), 0) = {b \in c : b >= 0 /\ b < 8}
      /\ Placed(ByteOf(c, 1), 1) = {b \in c : b >= 8 /\ b < 16}
      /\ Placed(ByteOf(c, 2), 2) = {b \in c : b >= 16 /\ b < 24}
      /\ Placed(ByteOf(c, 3), 3) = {b \in c : b >= 24 /\ b < 32}
  BY <1>3, <1>4
<1>6. c = Placed(ByteOf(c, 0), 0) \cup Placed(ByteOf(c, 1), 1) \cup Placed(ByteOf(c, 2), 2)
            \cup Placed(ByteOf(c, 3), 3)
  <2>1. \A b \in Nat : b < 32 <=> (b >= 0 /\ b < 8) \/ (b >= 8 /\ b < 16) \/ (b >= 16 /\ b < 24) \/ (b >= 24 /\ b < 32)
    OBVIOUS
  <2> DEFINE p0 == Placed(ByteOf(c, 0), 0)
             p1 == Placed(ByteOf(c, 1), 1)
             p2 == Placed(ByteOf(c, 2), 2)
             p3 == Placed(ByteOf(c, 3), 3)
  <2>2. \A b \in Nat : b \in c <=> b \in p0 \/ b \in p1 \/ b \in p2 \/ b \in p3
    BY <1>1, <1>5, <2>1
  <2>3. c \subseteq Nat /\ p0 \subseteq Nat /\ p1 \subseteq Nat /\ p2 \subseteq Nat /\ p3 \subseteq Nat
    BY <1>1, <1>5
  <2> HIDE DEF p0, p1, p2, p3
  <2>4. c = p0 \cup p1 \cup p2 \cup p3
    BY <2>2, <2>3
  <2> QED BY <2>4 DEF p0, p1, p2, p3
<1>7. ByteOf(c, 0) \in Byte /\ ByteOf(c, 1) \in Byte /\ ByteOf(c, 2) \in Byte /\ ByteOf(c, 3) \in Byte
  BY <1>2, <1>4
<1>8. Joined(ByteOf(c, 0), ByteOf(c, 1), ByteOf(c, 2), ByteOf(c, 3))
        = Placed(ByteOf(c, 0), 0) \cup Placed(ByteOf(c, 1), 1) \cup Placed(ByteOf(c, 2), 2)
            \cup Placed(ByteOf(c, 3), 3)
  <2> DEFINE c0 == ByteOf(c, 0)
             c1 == ByteOf(c, 1)
             c2 == ByteOf(c, 2)
             c3 == ByteOf(c, 3)
  <2>1. c0 \in Byte /\ c1 \in Byte /\ c2 \in Byte /\ c3 \in Byte
    BY <1>7
  <2> HIDE DEF c0, c1, c2, c3
  <2>2. Joined(c0, c1, c2, c3) = Placed(c0, 0) \cup Placed(c1, 1) \cup Placed(c2, 2) \cup Placed(c3, 3)
    BY <2>1, JoinedIsUnion
  <2> QED BY <2>2 DEF c0, c1, c2, c3
<1> QED
  <2> DEFINE p == Placed(ByteOf(c, 0), 0) \cup Placed(ByteOf(c, 1), 1) \cup Placed(ByteOf(c, 2), 2)
                    \cup Placed(ByteOf(c, 3), 3)
             q == Joined(ByteOf(c, 0), ByteOf(c, 1), ByteOf(c, 2), ByteOf(c, 3))
  <2>1. c = p /\ q = p
    BY <1>6, <1>8
  <2> HIDE DEF p, q
  <2>2. c = q
    BY <2>1
  <2> QED BY <1>2, <2>2 DEF q

\* Linear functions go through Joined.
LEMMA LinearJoined ==
    ASSUME NEW f, Linear(f), NEW a \in Words, NEW b \in Words, NEW c \in Words, NEW d \in Words
    PROVE  f[Xor(Xor(a, b), Xor(c, d))] = Xor(Xor(f[a], f[b]), Xor(f[c], f[d]))
<1>1. Xor(a, b) \in Words /\ Xor(c, d) \in Words
  BY XorOfWords
<1>2. \A x \in Words, y \in Words : f[Xor(x, y)] = Xor(f[x], f[y])
  BY DEF Linear
<1>3. f[Xor(a, b)] = Xor(f[a], f[b]) /\ f[Xor(c, d)] = Xor(f[c], f[d])
  BY <1>2
<1>4. f[Xor(Xor(a, b), Xor(c, d))] = Xor(f[Xor(a, b)], f[Xor(c, d)])
  BY <1>1, <1>2
<1> QED BY <1>3, <1>4

\* A stride passes a word by 16 bytes: the four tables are the division of each
\* of its bytes.
LEMMA Step4Is ==
    ASSUME NEW c \in Words, NEW word \in Words
    PROVE  STEP4(c, word) = Xor(word, D128[c])
<1> DEFINE c0 == ByteOf(c, 0)
           c1 == ByteOf(c, 1)
           c2 == ByteOf(c, 2)
           c3 == ByteOf(c, 3)
           t0 == D128[Placed(c0, 0)]
           t1 == D128[Placed(c1, 1)]
           t2 == D128[Placed(c2, 2)]
           t3 == D128[Placed(c3, 3)]
<1>1. 0 \in 0 .. 3 /\ 1 \in 0 .. 3 /\ 2 \in 0 .. 3 /\ 3 \in 0 .. 3
  OBVIOUS
<1>2. c0 \in Byte /\ c1 \in Byte /\ c2 \in Byte /\ c3 \in Byte /\ c = Joined(c0, c1, c2, c3)
  BY <1>1, WordOfBytes
<1>3. STEP4(c, word)
        = Xor(Xor(word, Xor(kStrideExtensionTable3[c0], kStrideExtensionTable2[c1])),
              Xor(kStrideExtensionTable1[c2], kStrideExtensionTable0[c3]))
  BY DEF STEP4
<1> HIDE DEF c0, c1, c2, c3
<1>4. /\ Placed(c0, 0) \in Words /\ Placed(c1, 1) \in Words
      /\ Placed(c2, 2) \in Words /\ Placed(c3, 3) \in Words
  BY <1>1, <1>2, PlacedBits
<1>5. ASSUME NEW k \in 0 .. 3, NEW b \in Byte PROVE StrideTable(k)[b] = D128[Placed(b, k)]
  <2>1. Placed(b, k) \in Words
    BY PlacedBits
  <2>2. D128[Placed(b, k)] = FourTimes(NextWord, Placed(b, k))
    BY <2>1 DEF D128
  <2>3. StrideTable(k)[b] = FourTimes(NextWord, Left(b, 8 * k, 32))
    BY DEF StrideTable, Byte
  <2> QED BY <2>2, <2>3 DEF Placed
<1>6. /\ kStrideExtensionTable3[c0] = t0 /\ kStrideExtensionTable2[c1] = t1
      /\ kStrideExtensionTable1[c2] = t2 /\ kStrideExtensionTable0[c3] = t3
  <2>1. /\ StrideTable(0)[c0] = D128[Placed(c0, 0)] /\ StrideTable(1)[c1] = D128[Placed(c1, 1)]
        /\ StrideTable(2)[c2] = D128[Placed(c2, 2)] /\ StrideTable(3)[c3] = D128[Placed(c3, 3)]
    BY <1>1, <1>2, <1>5
  <2> QED BY <2>1 DEF kStrideExtensionTable0, kStrideExtensionTable1, kStrideExtensionTable2,
                      kStrideExtensionTable3
<1>7. D128[c] = Xor(Xor(t0, t1), Xor(t2, t3))
  <2> DEFINE p0 == Placed(c0, 0)
             p1 == Placed(c1, 1)
             p2 == Placed(c2, 2)
             p3 == Placed(c3, 3)
  <2>1. p0 \in Words /\ p1 \in Words /\ p2 \in Words /\ p3 \in Words /\ c = Xor(Xor(p0, p1), Xor(p2, p3))
    BY <1>2, <1>4 DEF Joined
  <2>2. t0 = D128[p0] /\ t1 = D128[p1] /\ t2 = D128[p2] /\ t3 = D128[p3]
    OBVIOUS
  <2> HIDE DEF p0, p1, p2, p3, t0, t1, t2, t3
  <2>3. Linear(D128)
    BY StepsLinear
  <2>4. D128[Xor(Xor(p0, p1), Xor(p2, p3))] = Xor(Xor(D128[p0], D128[p1]), Xor(D128[p2], D128[p3]))
    BY <2>1, <2>3, LinearJoined
  <2> QED BY <2>1, <2>2, <2>4
<1> HIDE DEF t0, t1, t2, t3
<1>8. Xor(Xor(word, Xor(t0, t1)), Xor(t2, t3)) = Xor(word, Xor(Xor(t0, t1), Xor(t2, t3)))
  BY XorAlgebra
<1>9. STEP4(c, word) = Xor(Xor(word, Xor(t0, t1)), Xor(t2, t3))
  BY <1>3, <1>6
<1> QED BY <1>7, <1>8, <1>9

\* A word that is joined to the remainder counts as its four bytes one by one.
LEMMA WordIsFourBytes ==
    ASSUME NEW l \in Words, NEW b1 \in Byte, NEW b2 \in Byte, NEW b3 \in Byte, NEW b4 \in Byte
    PROVE  /\ Joined(b1, b2, b3, b4) \in Words
           /\ NextWord(Xor(Joined(b1, b2, b3, b4), l))
                = D8[Xor(D8[Xor(D8[Xor(D8[Xor(l, b1)], b2)], b3)], b4)]
<1> DEFINE l1 == D8[Xor(l, b1)]
           l2 == D8[Xor(l1, b2)]
           l3 == D8[Xor(l2, b3)]
           l4 == D8[Xor(l3, b4)]
           x  == Xor(Joined(b1, b2, b3, b4), l)
<1>1. 0 \in 0 .. 3 /\ 1 \in 0 .. 3 /\ 2 \in 0 .. 3 /\ 3 \in 0 .. 3 /\ 1 - 1 = 0 /\ 2 - 1 = 1 /\ 3 - 1 = 2
      /\ 1 # 0 /\ 2 # 0 /\ 3 # 0
  OBVIOUS
<1>2. \A b \in Byte : b \in Words
  BY ByteTable
<1>3. \A b \in Byte : \A k \in 0 .. 3 : Placed(b, k) \in Words
  BY PlacedBits
<1>4. \A b \in Byte : /\ Placed(b, 0) = b
                      /\ D8[Placed(b, 1)] = Placed(b, 0)
                      /\ D8[Placed(b, 2)] = Placed(b, 1)
                      /\ D8[Placed(b, 3)] = Placed(b, 2)
  <2>1. \A b \in Byte : \A k \in 0 .. 3 : \A j :
           (k = 0 => Placed(b, k) = b) /\ (k # 0 /\ j = k - 1 => D8[Placed(b, k)] = Placed(b, j))
    BY PlacedBits
  <2> QED BY <1>1, <2>1
<1>5. \A v \in Words : D8[v] \in Words
  BY StepsLinear DEF Linear
<1>6. /\ Xor(l, b1) \in Words /\ l1 \in Words /\ Xor(l1, b2) \in Words /\ l2 \in Words
      /\ Xor(l2, b3) \in Words /\ l3 \in Words /\ Xor(l3, b4) \in Words
  <2>1. Xor(l, b1) \in Words /\ l1 \in Words
    BY <1>2, <1>5, XorOfWords
  <2> HIDE DEF l1
  <2>2. Xor(l1, b2) \in Words /\ l2 \in Words
    BY <1>2, <1>5, <2>1, XorOfWords
  <2> HIDE DEF l2
  <2>3. Xor(l2, b3) \in Words /\ l3 \in Words
    BY <1>2, <1>5, <2>2, XorOfWords
  <2> HIDE DEF l3
  <2>4. Xor(l3, b4) \in Words
    BY <1>2, <2>3, XorOfWords
  <2> QED BY <2>1, <2>2, <2>3, <2>4
<1>7. ASSUME NEW u \in Words, NEW v \in Words PROVE D8[Xor(u, v)] = Xor(D8[u], D8[v]) /\ Xor(u, v) \in Words
  BY StepsLinear, XorOfWords DEF Linear
<1>8. x = Xor(Xor(l, b1), Xor(Placed(b2, 1), Xor(Placed(b3, 2), Placed(b4, 3))))
  <2> DEFINE p1 == Placed(b1, 0)
             p2 == Placed(b2, 1)
             p3 == Placed(b3, 2)
             p4 == Placed(b4, 3)
  <2>1. x = Xor(Xor(Xor(p1, p2), Xor(p3, p4)), l) /\ p1 = b1
    BY <1>4 DEF Joined
  <2> HIDE DEF p1, p2, p3, p4, x
  <2>2. Xor(Xor(Xor(p1, p2), Xor(p3, p4)), l) = Xor(Xor(l, p1), Xor(p2, Xor(p3, p4)))
    BY XorAlgebra
  <2> QED BY <2>1, <2>2 DEF p2, p3, p4
<1>9. Joined(b1, b2, b3, b4) \in Words
  <2>1. Placed(b1, 0) \in Words /\ Placed(b2, 1) \in Words /\ Placed(b3, 2) \in Words /\ Placed(b4, 3) \in Words
    BY <1>1, <1>3
  <2> QED BY <2>1, XorOfWords DEF Joined
<1> HIDE DEF x
<1>10. x \in Words
  BY <1>9, XorOfWords DEF x
<1>11. D8[x] = Xor(Xor(l1, b2), Xor(Placed(b3, 1), Placed(b4, 2)))
  <2> DEFINE p2 == Placed(b2, 1)
             p3 == Placed(b3, 2)
             p4 == Placed(b4, 3)
             u  == Xor(l, b1)
  <2>1. p2 \in Words /\ p3 \in Words /\ p4 \in Words /\ u \in Words
    BY <1>1, <1>3, <1>6
  <2>2. D8[p2] = b2 /\ D8[p3] = Placed(b3, 1) /\ D8[p4] = Placed(b4, 2) /\ D8[u] = l1
    BY <1>4
  <2>3. x = Xor(u, Xor(p2, Xor(p3, p4)))
    BY <1>8
  <2> HIDE DEF p2, p3, p4, u, l1
  <2>4. Xor(p3, p4) \in Words /\ D8[Xor(p3, p4)] = Xor(D8[p3], D8[p4])
    BY <1>7, <2>1
  <2>5. Xor(p2, Xor(p3, p4)) \in Words /\ D8[Xor(p2, Xor(p3, p4))] = Xor(D8[p2], D8[Xor(p3, p4)])
    BY <1>7, <2>1, <2>4
  <2>6. D8[x] = Xor(D8[u], D8[Xor(p2, Xor(p3, p4))])
    BY <1>7, <2>1, <2>3, <2>5
  <2>7. D8[x] = Xor(l1, Xor(b2, Xor(Placed(b3, 1), Placed(b4, 2))))
    BY <2>2, <2>4, <2>5, <2>6
  <2> QED BY <2>7, XorAlgebra
<1>12. D8[D8[x]] = Xor(Xor(l2, b3), Placed(b4, 1))
  <2> DEFINE p3 == Placed(b3, 1)
             p4 == Placed(b4, 2)
             u  == Xor(l1, b2)
  <2>1. p3 \in Words /\ p4 \in Words /\ u \in Words
    BY <1>1, <1>3, <1>6
  <2>2. D8[p3] = b3 /\ D8[p4] = Placed(b4, 1) /\ D8[u] = l2
    BY <1>4
  <2>3. D8[x] = Xor(u, Xor(p3, p4))
    BY <1>11
  <2> HIDE DEF p3, p4, u, l1, l2
  <2>4. Xor(p3, p4) \in Words /\ D8[Xor(p3, p4)] = Xor(D8[p3], D8[p4])
    BY <1>7, <2>1
  <2>5. D8[D8[x]] = Xor(D8[u], D8[Xor(p3, p4)])
    BY <1>7, <2>1, <2>3, <2>4
  <2>6. D8[D8[x]] = Xor(l2, Xor(b3, Placed(b4, 1)))
    BY <2>2, <2>4, <2>5
  <2> QED BY <2>6, XorAlgebra
<1>13. D8[D8[D8[x]]] = Xor(l3, b4)
  <2> DEFINE p4 == Placed(b4, 1)
             u  == Xor(l2, b3)
  <2>1. p4 \in Words /\ u \in Words
    BY <1>1, <1>3, <1>6
  <2>2. D8[p4] = b4 /\ D8[u] = l3
    BY <1>4
  <2>3. D8[D8[x]] = Xor(u, p4)
    BY <1>12
  <2> HIDE DEF p4, u, l2, l3
  <2> QED BY <1>7, <2>1, <2>2, <2>3
<1>14. D8[D8[D8[D8[x]]]] = l4
  BY <1>13
<1>15. NextWord(x) = l4
  BY <1>10, <1>14, StepsLinear
<1> QED BY <1>9, <1>15 DEF x

-----------------------------------------------------------------------------
(* The loops of Extend                                                     *)

\* The remainders of the division of data, byte by byte, from l on.
IsDivision(r, data, l) ==
    /\ data \in Seq(Byte) /\ l \in Words
    /\ r \in [0 .. Len(data) -> Words] /\ r[0] = l
    /\ \A i \in 1 .. Len(data) : r[i] = D8[Xor(r[i - 1], data[i])]

\* Data have such remainders.
LEMMA DivisionExists ==
    ASSUME NEW data \in Seq(Byte), NEW l \in Words
    PROVE  \E r : IsDivision(r, data, l)
<1> DEFINE n    == Len(data)
           step == [i \in 1 .. n |-> [w \in Words |-> D8[Xor(w, data[i])]]]
<1>1. ASSUME NEW i \in 1 .. n, NEW w \in Words PROVE D8[Xor(w, data[i])] \in Words
  <2>1. data[i] \in Words
    BY ByteTable
  <2> QED BY <2>1, XorOfWords, StepsLinear DEF Linear
<1>2. n \in Nat /\ step \in [1 .. n -> [Words -> Words]]
  BY <1>1
<1>3. \A i \in 1 .. n : \A w \in Words : step[i][w] = D8[Xor(w, data[i])]
  OBVIOUS
<1> HIDE DEF step
<1>4. AreSteps(step, l, n, Words)
  BY <1>2 DEF AreSteps
<1>5. PICK r : Takes(r, step, l, n, Words)
  BY <1>4, StepsExist
<1>6. \A i \in 1 .. n : r[i - 1] \in Words
  BY <1>5 DEF Takes
<1>7. \A i \in 1 .. n : r[i] = D8[Xor(r[i - 1], data[i])]
  BY <1>3, <1>5, <1>6 DEF Takes
<1> QED BY <1>5, <1>7 DEF Takes, IsDivision

\* Bytes that are taken one at a time divide.
LEMMA STEP1sDivide ==
    ASSUME NEW r, NEW data, NEW l, IsDivision(r, data, l), NEW p \in 0 .. Len(data), NEW q \in p .. Len(data)
    PROVE  STEP1s(data, p, q, r[p]) = r[q]
<1>1. Len(data) \in Nat /\ p \in Nat /\ q \in Nat /\ q - p \in Nat /\ p + (q - p) = q
  BY DEF IsDivision
<1> DEFINE m == q - p
           Good(f) == f = [i \in 0 .. m |-> IF i > 0 THEN STEP1(f[i - 1], data[p + i]) ELSE r[p]]
           g == [i \in 0 .. m |-> r[p + i]]
           a == CHOOSE f : Good(f)
<1>2. ASSUME NEW i \in 1 .. m PROVE r[p + i] = STEP1(r[p + (i - 1)], data[p + i])
  <2>1. p + i \in 1 .. Len(data) /\ (p + i) - 1 = p + (i - 1) /\ p + (i - 1) \in 0 .. Len(data)
    BY <1>1
  <2>2. r[p + (i - 1)] \in Words /\ data[p + i] \in Words
    BY <2>1, ByteTable DEF IsDivision
  <2>3. r[p + i] = D8[Xor(r[p + (i - 1)], data[p + i])]
    BY <2>1 DEF IsDivision
  <2> QED BY <2>2, <2>3, StepsLinear, XorOfWords DEF STEP1
<1>3. Good(g)
  <2>1. ASSUME NEW i \in 0 .. m PROVE g[i] = IF i > 0 THEN STEP1(g[i - 1], data[p + i]) ELSE r[p]
    <3>1. CASE i = 0
      <4>1. p + 0 = p
        BY <1>1
      <4> QED BY <1>1, <3>1, <4>1
    <3>2. CASE i # 0
      <4>1. i \in 1 .. m /\ i - 1 \in 0 .. m /\ i > 0
        BY <1>1, <3>2
      <4>2. g[i] = r[p + i] /\ g[i - 1] = r[p + (i - 1)]
        BY <4>1
      <4> QED BY <1>2, <4>1, <4>2
    <3> QED BY <3>1, <3>2
  <2>2. g = [i \in 0 .. m |-> g[i]]
    OBVIOUS
  <2> HIDE DEF g
  <2>3. [i \in 0 .. m |-> g[i]] = [i \in 0 .. m |-> IF i > 0 THEN STEP1(g[i - 1], data[p + i]) ELSE r[p]]
    BY <2>1
  <2> QED BY <2>2, <2>3
<1> HIDE DEF g
<1>4. Good(a)
  BY <1>3
<1>5. STEP1s(data, p, q, r[p]) = a[m]
  BY DEF STEP1s
<1> HIDE DEF a
<1>6. \A i \in 0 .. m : a[i] = IF i > 0 THEN STEP1(a[i - 1], data[p + i]) ELSE r[p]
  BY <1>4
<1> DEFINE T == {i \in 0 .. m : a[i] = r[p + i]}
<1>7. 0 \in T
  <2>1. p + 0 = p /\ 0 \in 0 .. m
    BY <1>1
  <2> QED BY <1>6, <2>1
<1>8. ASSUME NEW i \in 1 .. m, i - 1 \in T PROVE i \in T
  <2>1. i \in 0 .. m /\ i > 0
    OBVIOUS
  <2>2. a[i] = STEP1(a[i - 1], data[p + i])
    BY <1>6, <2>1
  <2>3. a[i - 1] = r[p + (i - 1)]
    BY <1>8
  <2>4. a[i] = r[p + i]
    BY <1>2, <2>2, <2>3
  <2> QED BY <2>1, <2>4
<1> HIDE DEF T
<1>9. \A i \in 0 .. m : i \in T
  <2>1. \A i \in 1 .. m : i - 1 \in T => i \in T
    BY <1>8
  <2> HIDE DEF m
  <2>2. m \in Nat
    BY <1>1 DEF m
  <2> QED BY <1>7, <2>1, <2>2, UpTo
<1>10. m \in T
  BY <1>1, <1>9
<1> QED BY <1>1, <1>5, <1>10 DEF T

\* Four bytes are decoded to the word they make.
LEMMA DecodeIsJoined ==
    ASSUME NEW buf, buf[1] \in Byte, buf[2] \in Byte, buf[3] \in Byte, buf[4] \in Byte
    PROVE  DecodeFixed(buf, 4) = Joined(buf[1], buf[2], buf[3], buf[4])
<1>1. 8 * 4 = 32 /\ 1 - 1 = 0 /\ 2 - 1 = 1 /\ 3 - 1 = 2 /\ 4 - 1 = 3 /\ 1 .. 4 = {1, 2, 3, 4}
  OBVIOUS
<1>2. DecodeFixed(buf, 4) = UNION {Placed(buf[i], i - 1) : i \in {1, 2, 3, 4}}
  BY <1>1 DEF DecodeFixed, Placed
<1>3. UNION {Placed(buf[i], i - 1) : i \in {1, 2, 3, 4}}
        = Placed(buf[1], 1 - 1) \cup Placed(buf[2], 2 - 1) \cup Placed(buf[3], 3 - 1) \cup Placed(buf[4], 4 - 1)
  OBVIOUS
<1> DEFINE b1 == buf[1]
           b2 == buf[2]
           b3 == buf[3]
           b4 == buf[4]
<1>4. DecodeFixed(buf, 4) = Placed(b1, 0) \cup Placed(b2, 1) \cup Placed(b3, 2) \cup Placed(b4, 3)
  BY <1>1, <1>2, <1>3
<1>5. b1 \in Byte /\ b2 \in Byte /\ b3 \in Byte /\ b4 \in Byte
  OBVIOUS
<1>6. Joined(b1, b2, b3, b4) = Placed(b1, 0) \cup Placed(b2, 1) \cup Placed(b3, 2) \cup Placed(b4, 3)
  <2> HIDE DEF b1, b2, b3, b4
  <2> QED BY <1>5, JoinedIsUnion
<1> QED BY <1>4, <1>6

\* A word of the data that is joined to the remainder divides its four bytes.
LEMMA WordDivides ==
    ASSUME NEW r, NEW data, NEW l, IsDivision(r, data, l), NEW p \in Nat, p + 4 <= Len(data)
    PROVE  /\ ReadUint32LE(data, p) \in Words /\ r[p] \in Words /\ r[p + 4] \in Words
           /\ NextWord(Xor(ReadUint32LE(data, p), r[p])) = r[p + 4]
<1>1. data \in Seq(Byte) /\ Len(data) \in Nat
  BY DEF IsDivision
<1> DEFINE buf == SubSeq(data, p + 1, p + 4)
           b1  == data[p + 1]
           b2  == data[p + 2]
           b3  == data[p + 3]
           b4  == data[p + 4]
<1>2. p + 1 \in 1 .. Len(data) /\ p + 2 \in 1 .. Len(data) /\ p + 3 \in 1 .. Len(data) /\ p + 4 \in 1 .. Len(data)
  BY <1>1
<1>3. b1 \in Byte /\ b2 \in Byte /\ b3 \in Byte /\ b4 \in Byte
  BY <1>1, <1>2
<1>4. buf[1] = b1 /\ buf[2] = b2 /\ buf[3] = b3 /\ buf[4] = b4
  <2>1. buf = [i \in 1 .. (p + 4) - (p + 1) + 1 |-> data[i + (p + 1) - 1]]
    BY <1>1, <1>2
  <2>2. /\ 1 + (p + 1) - 1 = p + 1 /\ 2 + (p + 1) - 1 = p + 2 /\ 3 + (p + 1) - 1 = p + 3
        /\ 4 + (p + 1) - 1 = p + 4 /\ (p + 4) - (p + 1) + 1 = 4
        /\ 1 \in 1 .. 4 /\ 2 \in 1 .. 4 /\ 3 \in 1 .. 4 /\ 4 \in 1 .. 4
    OBVIOUS
  <2> HIDE DEF buf
  <2> QED BY <2>1, <2>2
<1>5. ReadUint32LE(data, p) = DecodeFixed(buf, 4)
  BY DEF ReadUint32LE, DecodeFixed32
<1> HIDE DEF buf
<1>6. DecodeFixed(buf, 4) = Joined(b1, b2, b3, b4)
  <2>1. DecodeFixed(buf, 4) = Joined(buf[1], buf[2], buf[3], buf[4])
    BY <1>3, <1>4, DecodeIsJoined
  <2> QED BY <1>4, <2>1
<1>7. p \in 0 .. Len(data) /\ p + 4 \in 0 .. Len(data)
  BY <1>1
<1>8. r[p] \in Words /\ r[p + 4] \in Words
  BY <1>7 DEF IsDivision
<1>9. r[p + 4] = D8[Xor(D8[Xor(D8[Xor(D8[Xor(r[p], b1)], b2)], b3)], b4)]
  <2>1. (p + 1) - 1 = p /\ (p + 2) - 1 = p + 1 /\ (p + 3) - 1 = p + 2 /\ (p + 4) - 1 = p + 3
    OBVIOUS
  <2>2. /\ r[p + 1] = D8[Xor(r[p], b1)] /\ r[p + 2] = D8[Xor(r[p + 1], b2)]
        /\ r[p + 3] = D8[Xor(r[p + 2], b3)] /\ r[p + 4] = D8[Xor(r[p + 3], b4)]
    BY <1>2, <2>1 DEF IsDivision
  <2> QED BY <2>2
<1> DEFINE rp == r[p]
<1>10. Joined(b1, b2, b3, b4) \in Words
       /\ NextWord(Xor(Joined(b1, b2, b3, b4), rp))
            = D8[Xor(D8[Xor(D8[Xor(D8[Xor(rp, b1)], b2)], b3)], b4)]
  <2>1. rp \in Words
    BY <1>8
  <2> HIDE DEF b1, b2, b3, b4, rp
  <2> QED BY <1>3, <2>1, WordIsFourBytes
<1> QED BY <1>5, <1>6, <1>8, <1>9, <1>10

\* Four interleaved remainders.
FourWords == [1 .. 4 -> Words]

\* What they make when they are combined.
LEMMA CombineIs ==
    ASSUME NEW s \in FourWords
    PROVE  /\ s[1] \in Words /\ s[2] \in Words /\ s[3] \in Words /\ s[4] \in Words
           /\ Combine(s) = D32[Xor(s[4], D32[Xor(s[3], D32[Xor(s[2], D32[s[1]])])])]
           /\ Combine(s) \in Words
<1>1. s[1] \in Words /\ s[2] \in Words /\ s[3] \in Words /\ s[4] \in Words
  BY DEF FourWords
<1>2. \A v \in Words : NextWord(v) = D32[v] /\ D32[v] \in Words
  BY StepsLinear DEF D32, Linear
<1> DEFINE a1 == STEP4W({}, s[1])
           a2 == STEP4W(a1, s[2])
           a3 == STEP4W(a2, s[3])
           a4 == STEP4W(a3, s[4])
<1>3. a1 = D32[s[1]] /\ a1 \in Words
  BY <1>1, <1>2, XorAlgebra DEF STEP4W
<1> HIDE DEF a1
<1>4. a2 = D32[Xor(s[2], a1)] /\ a2 \in Words
  BY <1>1, <1>2, <1>3, XorOfWords DEF STEP4W
<1> HIDE DEF a2
<1>5. a3 = D32[Xor(s[3], a2)] /\ a3 \in Words
  BY <1>1, <1>2, <1>4, XorOfWords DEF STEP4W
<1> HIDE DEF a3
<1>6. a4 = D32[Xor(s[4], a3)] /\ a4 \in Words
  BY <1>1, <1>2, <1>5, XorOfWords DEF STEP4W
<1>7. Combine(s) = a4
  BY DEF Combine, a1, a2, a3
<1> QED BY <1>1, <1>3, <1>4, <1>5, <1>6, <1>7

\* After a single word they are the remainder after its four bytes.
LEMMA AdvanceWordIs ==
    ASSUME NEW s \in FourWords, NEW word \in Words
    PROVE  /\ AdvanceWord(s, word) = <<s[2], s[3], s[4], STEP4(s[1], word)>>
           /\ AdvanceWord(s, word) \in FourWords
           /\ Combine(AdvanceWord(s, word)) = D32[Xor(word, Combine(s))]
<1> DEFINE t == AdvanceWord(s, word)
           u == STEP4(s[1], word)
           z == D128[s[1]]
           y == D32[Xor(s[4], D32[Xor(s[3], D32[s[2]])])]
<1>1. s \in Seq(Words) /\ Len(s) = 4
  <2>1. s \in [1 .. 4 -> Words] /\ 4 \in Nat
    BY DEF FourWords
  <2>2. s \in Seq(Words)
    BY <2>1, SeqDef
  <2>3. DOMAIN s = 1 .. 4 /\ DOMAIN s = 1 .. Len(s) /\ Len(s) \in Nat
    BY <2>1, <2>2, LenProperties
  <2> QED BY <2>2, <2>3
<1>2. s[1] \in Words /\ s[2] \in Words /\ s[3] \in Words /\ s[4] \in Words
  BY CombineIs
<1>3. u = Xor(word, z) /\ z \in Words /\ u \in Words
  <2>1. STEP4(s[1], word) = Xor(word, D128[s[1]])
    BY <1>2, Step4Is
  <2>2. z \in Words
    BY <1>2, StepsLinear DEF Linear
  <2> HIDE DEF z
  <2>3. Xor(word, z) \in Words
    BY <2>2, XorOfWords
  <2> QED BY <2>1, <2>2, <2>3 DEF z
<1>4. t = <<s[2], s[3], s[4], u>>
  <2> HIDE DEF u
  <2> DEFINE tail == Tail(s)
  <2>1. tail \in Seq(Words) /\ Len(tail) = 3 /\ \A i \in 1 .. Len(tail) : tail[i] = s[i + 1]
    <3>1. s # << >>
      BY <1>1
    <3> QED BY <1>1, <3>1, HeadTailProperties
  <2>2. t = Append(tail, u)
    BY DEF AdvanceWord, u
  <2> HIDE DEF tail, t
  <2>3. tail[1] = s[2] /\ tail[2] = s[3] /\ tail[3] = s[4]
    <3>1. 1 \in 1 .. Len(tail) /\ 2 \in 1 .. Len(tail) /\ 3 \in 1 .. Len(tail) /\ 1 + 1 = 2 /\ 2 + 1 = 3 /\ 3 + 1 = 4
      BY <2>1
    <3> QED BY <2>1, <3>1
  <2> DEFINE v == <<s[2], s[3], s[4], u>>
  <2>4. v \in Seq(Words) /\ Len(v) = 4 /\ v[1] = s[2] /\ v[2] = s[3] /\ v[3] = s[4] /\ v[4] = u
    BY <1>2, <1>3
  <2>5. /\ t \in Seq(Words) /\ Len(t) = 4 /\ t[4] = u
        /\ \A i \in 1 .. 3 : t[i] = tail[i]
    <3>1. u \in Words /\ tail \in Seq(Words)
      BY <1>3, <2>1
    <3>2. /\ Append(tail, u) \in Seq(Words) /\ Len(Append(tail, u)) = Len(tail) + 1
          /\ \A i \in 1 .. Len(tail) : Append(tail, u)[i] = tail[i]
          /\ Append(tail, u)[Len(tail) + 1] = u
      <4> HIDE DEF v, u
      <4> QED BY <3>1, AppendProperties
    <3> QED BY <2>1, <2>2, <3>2
  <2> HIDE DEF v
  <2>6. t[1] = s[2] /\ t[2] = s[3] /\ t[3] = s[4]
    BY <2>3, <2>5
  <2>7. \A i \in 1 .. 4 : t[i] = v[i]
    <3>1. 1 .. 4 = {1, 2, 3, 4}
      OBVIOUS
    <3> QED BY <2>4, <2>5, <2>6, <3>1
  <2>8. t = v
    BY <2>4, <2>5, <2>7, SeqEqual
  <2> QED BY <2>8 DEF v
<1> HIDE DEF t, u
<1>5. t \in FourWords /\ t[1] = s[2] /\ t[2] = s[3] /\ t[3] = s[4] /\ t[4] = u
  <2>1. t \in Seq(Words) /\ Len(t) = 4
    BY <1>2, <1>3, <1>4
  <2> QED BY <1>4, <2>1 DEF FourWords
<1>6. Combine(t) = D32[Xor(u, D32[Xor(s[4], D32[Xor(s[3], D32[s[2]])])])]
  BY <1>5, CombineIs
<1>7. \A a \in Words, b \in Words : D32[Xor(a, b)] = Xor(D32[a], D32[b]) /\ D32[a] \in Words /\ Xor(a, b) \in Words
  BY StepsLinear, XorOfWords DEF Linear
<1>8. Combine(s) = Xor(y, z) /\ y \in Words
  <2> DEFINE z1 == D32[s[1]]
             z2 == D32[z1]
             z3 == D32[z2]
             z4 == D32[z3]
             y2 == D32[s[2]]
             y3 == D32[Xor(s[3], y2)]
             y4 == D32[Xor(s[4], y3)]
  <2>1. z1 \in Words /\ z2 \in Words /\ z3 \in Words /\ z4 \in Words
    BY <1>2, <1>7
  <2>2. z = z4
    <3>1. \A v \in Words : NextWord(v) = D32[v]
      BY DEF D32
    <3>2. z = FourTimes(NextWord, s[1])
      BY <1>2 DEF D128
    <3> QED BY <1>2, <2>1, <3>1, <3>2 DEF FourTimes
  <2>3. Combine(s) = D32[Xor(s[4], D32[Xor(s[3], D32[Xor(s[2], z1)])])]
    BY CombineIs
  <2> HIDE DEF z1
  <2>4. D32[Xor(s[2], z1)] = Xor(y2, z2) /\ y2 \in Words
    BY <1>2, <1>7, <2>1
  <2> HIDE DEF z2, y2
  <2>5. Xor(s[3], Xor(y2, z2)) = Xor(Xor(s[3], y2), z2)
    BY XorAlgebra
  <2>6. D32[Xor(Xor(s[3], y2), z2)] = Xor(y3, z3) /\ y3 \in Words
    BY <1>2, <1>7, <2>1, <2>4
  <2> HIDE DEF z3, y3
  <2>7. Xor(s[4], Xor(y3, z3)) = Xor(Xor(s[4], y3), z3)
    BY XorAlgebra
  <2>8. D32[Xor(Xor(s[4], y3), z3)] = Xor(y4, z4) /\ y4 \in Words
    BY <1>2, <1>7, <2>1, <2>6
  <2>9. Combine(s) = Xor(y4, z4)
    BY <2>3, <2>4, <2>5, <2>6, <2>7, <2>8
  <2>10. y = y4
    BY DEF y3, y2
  <2> QED BY <2>2, <2>8, <2>9, <2>10
<1>9. Combine(t) = D32[Xor(u, y)]
  BY <1>6
<1> HIDE DEF y, z
<1>10. Xor(u, y) = Xor(word, Combine(s))
  <2>1. Xor(Xor(word, z), y) = Xor(word, Xor(y, z))
    BY XorAlgebra
  <2> QED BY <1>3, <1>8, <2>1
<1>11. Combine(t) = D32[Xor(word, Combine(s))]
  BY <1>9, <1>10
<1> QED BY <1>4, <1>5, <1>11 DEF t, u

\* A swath adds four words at once.
LEMMA STEP16Is ==
    ASSUME NEW s \in FourWords, NEW swath \in FourWords
    PROVE  /\ STEP16(s, swath) \in FourWords
           /\ Combine(STEP16(s, swath))
                = D32[Xor(swath[4], D32[Xor(swath[3], D32[Xor(swath[2], D32[Xor(swath[1], Combine(s))])])])]
<1> DEFINE t1 == AdvanceWord(s, swath[1])
           t2 == AdvanceWord(t1, swath[2])
           t3 == AdvanceWord(t2, swath[3])
           t4 == AdvanceWord(t3, swath[4])
           u1 == STEP4(s[1], swath[1])
           u2 == STEP4(s[2], swath[2])
           u3 == STEP4(s[3], swath[3])
           u4 == STEP4(s[4], swath[4])
<1>1. swath[1] \in Words /\ swath[2] \in Words /\ swath[3] \in Words /\ swath[4] \in Words
  BY DEF FourWords
<1>2. /\ t1 \in FourWords /\ Combine(t1) = D32[Xor(swath[1], Combine(s))]
      /\ t1 = <<s[2], s[3], s[4], u1>>
  BY <1>1, AdvanceWordIs
<1>3. STEP16(s, swath) = <<u1, u2, u3, u4>>
  BY DEF STEP16
<1> HIDE DEF t1, u1, u2, u3, u4
<1>4. t1[1] = s[2] /\ t1[2] = s[3] /\ t1[3] = s[4] /\ t1[4] = u1
  BY <1>2
<1>5. /\ t2 \in FourWords /\ Combine(t2) = D32[Xor(swath[2], Combine(t1))]
      /\ t2 = <<t1[2], t1[3], t1[4], STEP4(t1[1], swath[2])>>
  BY <1>1, <1>2, AdvanceWordIs
<1> HIDE DEF t2
<1>6. t2[1] = s[3] /\ t2[2] = s[4] /\ t2[3] = u1 /\ t2[4] = u2
  BY <1>4, <1>5 DEF u2
<1>7. /\ t3 \in FourWords /\ Combine(t3) = D32[Xor(swath[3], Combine(t2))]
      /\ t3 = <<t2[2], t2[3], t2[4], STEP4(t2[1], swath[3])>>
  BY <1>1, <1>5, AdvanceWordIs
<1> HIDE DEF t3
<1>8. t3[1] = s[4] /\ t3[2] = u1 /\ t3[3] = u2 /\ t3[4] = u3
  BY <1>6, <1>7 DEF u3
<1>9. /\ t4 \in FourWords /\ Combine(t4) = D32[Xor(swath[4], Combine(t3))]
      /\ t4 = <<t3[2], t3[3], t3[4], STEP4(t3[1], swath[4])>>
  BY <1>1, <1>7, AdvanceWordIs
<1> HIDE DEF t4
<1>10. t4 = <<u1, u2, u3, u4>>
  BY <1>8, <1>9 DEF u4
<1> QED BY <1>2, <1>3, <1>5, <1>7, <1>9, <1>10

\* The words of a swath divide its sixteen bytes.
LEMMA SwathDivides ==
    ASSUME NEW r, NEW data, NEW l, IsDivision(r, data, l), NEW p \in Nat, p + 16 <= Len(data)
    PROVE  /\ Swath(data, p) \in FourWords /\ r[p] \in Words
           /\ r[p + 16] = D32[Xor(Swath(data, p)[4], D32[Xor(Swath(data, p)[3],
                            D32[Xor(Swath(data, p)[2], D32[Xor(Swath(data, p)[1], r[p])])])])]
<1>1. data \in Seq(Byte) /\ Len(data) \in Nat
  BY DEF IsDivision
<1> DEFINE w(q) == ReadUint32LE(data, q)
<1>2. ASSUME NEW q \in Nat, q + 4 <= Len(data)
      PROVE  w(q) \in Words /\ r[q] \in Words /\ D32[Xor(w(q), r[q])] = r[q + 4]
  <2>1. /\ ReadUint32LE(data, q) \in Words /\ r[q] \in Words
        /\ NextWord(Xor(ReadUint32LE(data, q), r[q])) = r[q + 4]
    BY <1>2, WordDivides
  <2> DEFINE x == ReadUint32LE(data, q)
             y == r[q]
  <2>2. x \in Words /\ y \in Words /\ NextWord(Xor(x, y)) = r[q + 4]
    BY <2>1
  <2> HIDE DEF x, y
  <2>3. Xor(x, y) \in Words
    BY <2>2, XorOfWords
  <2>4. D32[Xor(x, y)] = r[q + 4]
    BY <2>2, <2>3 DEF D32
  <2> QED BY <2>1, <2>4 DEF x, y
<1>3. /\ p + 4 \in Nat /\ p + 8 \in Nat /\ p + 12 \in Nat
      /\ p + 4 <= Len(data) /\ (p + 4) + 4 <= Len(data) /\ (p + 8) + 4 <= Len(data) /\ (p + 12) + 4 <= Len(data)
      /\ (p + 4) + 4 = p + 8 /\ (p + 8) + 4 = p + 12 /\ (p + 12) + 4 = p + 16
  BY <1>1
<1>4. /\ w(p) \in Words /\ r[p] \in Words /\ D32[Xor(w(p), r[p])] = r[p + 4]
      /\ w(p + 4) \in Words /\ D32[Xor(w(p + 4), r[p + 4])] = r[p + 8]
      /\ w(p + 8) \in Words /\ D32[Xor(w(p + 8), r[p + 8])] = r[p + 12]
      /\ w(p + 12) \in Words /\ D32[Xor(w(p + 12), r[p + 12])] = r[p + 16]
  <2> HIDE DEF w
  <2> QED BY <1>2, <1>3
<1>5. /\ 4 * (1 - 1) = 0 /\ 4 * (2 - 1) = 4 /\ 4 * (3 - 1) = 8 /\ 4 * (4 - 1) = 12 /\ p + 0 = p
      /\ 1 .. 4 = {1, 2, 3, 4}
  OBVIOUS
<1>6. Swath(data, p) = [s \in 1 .. 4 |-> w(p + 4 * (s - 1))]
  BY DEF Swath
<1> HIDE DEF w
<1>7. /\ Swath(data, p)[1] = w(p) /\ Swath(data, p)[2] = w(p + 4)
      /\ Swath(data, p)[3] = w(p + 8) /\ Swath(data, p)[4] = w(p + 12)
  BY <1>5, <1>6
<1>8. Swath(data, p) \in FourWords
  BY <1>4, <1>5, <1>6 DEF FourWords
<1> QED BY <1>4, <1>7, <1>8

\* So the strides hold the remainder behind the swaths that were taken.
LEMMA SwathsDivide ==
    ASSUME NEW r, NEW data, NEW l, IsDivision(r, data, l), NEW p \in Nat, NEW k \in Nat \ {0},
           p + 16 * k <= Len(data), NEW f,
           f = [i \in 0 .. k - 1 |-> IF i > 0 THEN STEP16(f[i - 1], Swath(data, p + 16 * i))
                                     ELSE LoadSwath(data, p, r[p])]
    PROVE  f[k - 1] \in FourWords /\ Combine(f[k - 1]) = r[p + 16 * k]
<1>1. Len(data) \in Nat /\ k - 1 \in Nat
  BY DEF IsDivision
<1> DEFINE T == {i \in 0 .. k - 1 : f[i] \in FourWords /\ Combine(f[i]) = r[p + 16 * (i + 1)]}
<1>2. \A i \in 0 .. k - 1 : f[i] = IF i > 0 THEN STEP16(f[i - 1], Swath(data, p + 16 * i))
                                   ELSE LoadSwath(data, p, r[p])
  OBVIOUS
<1>3. 0 \in T
  <2> DEFINE swath == Swath(data, p)
             s     == LoadSwath(data, p, r[p])
             x     == r[p]
  <2>1. p + 16 <= Len(data)
    BY <1>1
  <2>2. swath \in FourWords /\ x \in Words
        /\ r[p + 16] = D32[Xor(swath[4], D32[Xor(swath[3], D32[Xor(swath[2], D32[Xor(swath[1], x)])])])]
    BY <2>1, SwathDivides
  <2>3. s = [swath EXCEPT ![1] = Xor(swath[1], x)]
    BY <2>2 DEF LoadSwath, FourWords
  <2> HIDE DEF swath, x, s
  <2>4. swath[1] \in Words /\ Xor(swath[1], x) \in Words
    BY <2>2, XorOfWords DEF FourWords
  <2>5. /\ s \in FourWords /\ s[1] = Xor(swath[1], x)
        /\ s[2] = swath[2] /\ s[3] = swath[3] /\ s[4] = swath[4]
    BY <2>2, <2>3, <2>4 DEF FourWords
  <2>6. Combine(s) = r[p + 16]
    BY <2>2, <2>5, CombineIs
  <2>7. f[0] = s /\ 0 \in 0 .. k - 1 /\ 16 * (0 + 1) = 16
    BY <1>1, <1>2 DEF s
  <2> QED BY <2>5, <2>6, <2>7
<1>4. ASSUME NEW i \in 1 .. k - 1, i - 1 \in T PROVE i \in T
  <2> DEFINE q     == p + 16 * i
             swath == Swath(data, q)
             s     == f[i - 1]
             x     == r[q]
  <2>1. i \in 0 .. k - 1 /\ i > 0 /\ q \in Nat /\ (i - 1) + 1 = i /\ q + 16 = p + 16 * (i + 1)
    BY <1>1
  <2>2. q + 16 <= Len(data)
    BY <1>1, <2>1
  <2>3. s \in FourWords /\ Combine(s) = x
    BY <1>4, <2>1
  <2>4. f[i] = STEP16(s, swath)
    BY <1>2, <2>1
  <2>5. r[q + 16] = r[p + 16 * (i + 1)]
    BY <2>1
  <2> HIDE DEF q, s
  <2>6. swath \in FourWords /\ x \in Words
        /\ r[q + 16] = D32[Xor(swath[4], D32[Xor(swath[3], D32[Xor(swath[2], D32[Xor(swath[1], x)])])])]
    BY <2>1, <2>2, SwathDivides
  <2> HIDE DEF swath, x
  <2>7. /\ STEP16(s, swath) \in FourWords
        /\ Combine(STEP16(s, swath))
             = D32[Xor(swath[4], D32[Xor(swath[3], D32[Xor(swath[2], D32[Xor(swath[1], Combine(s))])])])]
    BY <2>3, <2>6, STEP16Is
  <2>8. Combine(f[i]) = r[q + 16] /\ f[i] \in FourWords
    BY <2>3, <2>4, <2>6, <2>7
  <2> QED BY <2>1, <2>5, <2>8
<1> HIDE DEF T
<1>5. \A i \in 0 .. k - 1 : i \in T
  <2>1. \A i \in 1 .. k - 1 : i - 1 \in T => i \in T
    BY <1>4
  <2> QED BY <1>1, <1>3, <2>1, UpTo
<1>6. k - 1 \in T /\ (k - 1) + 1 = k
  BY <1>1, <1>5
<1> QED BY <1>6 DEF T

\* What the strides are after m single words behind the q-th word.
AfterWords(f, data, p, q, m, s) ==
    f = [i \in 0 .. m |-> IF i > 0 THEN AdvanceWord(f[i - 1], ReadUint32LE(data, p + 4 * (q + i - 1)))
                          ELSE s]

\* And behind the single words.
LEMMA WordsDivide ==
    ASSUME NEW r, NEW data, NEW l, IsDivision(r, data, l), NEW p \in Nat, NEW q \in Nat, NEW m \in Nat,
           (p + 4 * q) + 4 * m <= Len(data), NEW s \in FourWords, Combine(s) = r[p + 4 * q], NEW f,
           AfterWords(f, data, p, q, m, s)
    PROVE  f[m] \in FourWords /\ Combine(f[m]) = r[(p + 4 * q) + 4 * m]
<1>1. Len(data) \in Nat /\ p + 4 * q \in Nat
  BY DEF IsDivision
<1> DEFINE o == p + 4 * q
           T == {i \in 0 .. m : f[i] \in FourWords /\ Combine(f[i]) = r[o + 4 * i]}
<1>2. \A i \in 0 .. m : f[i] = IF i > 0 THEN AdvanceWord(f[i - 1], ReadUint32LE(data, p + 4 * (q + i - 1)))
                               ELSE s
  BY DEF AfterWords
<1>3. 0 \in T
  <2>1. f[0] = s /\ 0 \in 0 .. m /\ o + 4 * 0 = o
    BY <1>1, <1>2
  <2> QED BY <2>1
<1>4. ASSUME NEW i \in 1 .. m, i - 1 \in T PROVE i \in T
  <2> DEFINE a == o + 4 * (i - 1)
             t == f[i - 1]
             w == ReadUint32LE(data, a)
             x == r[a]
  <2>1. i \in 0 .. m /\ i > 0 /\ a \in Nat /\ a + 4 = o + 4 * i /\ a = p + 4 * (q + i - 1)
    BY <1>1
  <2>2. a + 4 <= Len(data)
    BY <1>1, <2>1
  <2>3. t \in FourWords /\ Combine(t) = x
    BY <1>4
  <2>4. f[i] = AdvanceWord(t, w)
    BY <1>2, <2>1
  <2>5. r[a + 4] = r[o + 4 * i]
    BY <2>1
  <2> HIDE DEF a, t
  <2>6. w \in Words /\ x \in Words /\ NextWord(Xor(w, x)) = r[a + 4]
    BY <2>1, <2>2, WordDivides
  <2> HIDE DEF w, x
  <2>7. AdvanceWord(t, w) \in FourWords /\ Combine(AdvanceWord(t, w)) = D32[Xor(w, Combine(t))]
    BY <2>3, <2>6, AdvanceWordIs
  <2>8. Xor(w, x) \in Words
    BY <2>6, XorOfWords
  <2>9. D32[Xor(w, x)] = NextWord(Xor(w, x))
    BY <2>8 DEF D32
  <2>10. Combine(f[i]) = r[a + 4] /\ f[i] \in FourWords
    BY <2>3, <2>4, <2>6, <2>7, <2>9
  <2> QED BY <2>1, <2>5, <2>10
<1> HIDE DEF T
<1>5. \A i \in 0 .. m : i \in T
  <2>1. \A i \in 1 .. m : i - 1 \in T => i \in T
    BY <1>4
  <2> QED BY <1>3, <2>1, UpTo
<1>6. m \in T
  BY <1>5
<1> QED BY <1>6 DEF T

\* The strides as a whole.
LEMMA StridesDivide ==
    ASSUME NEW r, NEW data, NEW l, IsDivision(r, data, l), NEW p \in Nat, p + 16 <= Len(data)
    PROVE  Strides(data, p, r[p]) = r[p + 4 * ((Len(data) - p) \div 4)]
<1> DEFINE words  == (Len(data) - p) \div 4
           swaths == words \div 4
           GoodS(f) == f = [i \in 0 .. swaths - 1 |->
                              IF i > 0 THEN STEP16(f[i - 1], Swath(data, p + 16 * i))
                              ELSE LoadSwath(data, p, r[p])]
           fs == CHOOSE f : GoodS(f)
           GoodW(f) == f = [i \in 0 .. words % 4 |->
                              IF i > 0 THEN AdvanceWord(f[i - 1], ReadUint32LE(data, p + 4 * (4 * swaths + i - 1)))
                              ELSE fs[swaths - 1]]
           fw == CHOOSE f : GoodW(f)
<1>1. Len(data) \in Nat /\ r \in [0 .. Len(data) -> Words]
  BY DEF IsDivision
<1>2. /\ words \in Nat /\ swaths \in Nat \ {0} /\ words % 4 \in Nat
      /\ 4 * words <= Len(data) - p /\ words = 4 * swaths + (words % 4)
  <2>1. Len(data) - p \in Nat /\ Len(data) - p >= 16
    BY <1>1
  <2> DEFINE n == Len(data) - p
  <2>2. words = n \div 4
    OBVIOUS
  <2> HIDE DEF n, words
  <2>3. words \in Nat /\ 4 * words <= n /\ words >= 4
    BY <2>1, <2>2 DEF n
  <2>4. swaths \in Nat \ {0} /\ words % 4 \in Nat /\ words = 4 * swaths + (words % 4)
    BY <2>3
  <2> QED BY <2>3, <2>4 DEF n
<1>3. Strides(data, p, r[p]) = Combine(fw[words % 4])
  BY DEF Strides
<1> DEFINE m == words % 4
<1>4. /\ m \in Nat /\ swaths \in Nat \ {0} /\ swaths - 1 \in Nat
      /\ 16 * swaths = 4 * (4 * swaths)
      /\ p + 16 * swaths <= Len(data) /\ (p + 4 * (4 * swaths)) + 4 * m <= Len(data)
      /\ (p + 4 * (4 * swaths)) + 4 * m = p + 4 * words
  <2> HIDE DEF words, swaths, m
  <2>1. words = 4 * swaths + m /\ m \in Nat /\ swaths \in Nat \ {0}
    BY <1>2 DEF m
  <2> QED BY <1>1, <1>2, <2>1
<1> HIDE DEF words, swaths, m
<1>5. GoodS(fs)
  <2> DEFINE base == LoadSwath(data, p, r[p])
             n    == swaths - 1
             step == [i \in 1 .. n |-> [s \in FourWords |-> STEP16(s, Swath(data, p + 16 * i))]]
  <2>1. \A i \in 1 .. n : p + 16 * i \in Nat /\ (p + 16 * i) + 16 <= Len(data)
    BY <1>1, <1>4
  <2>2. \A i \in 1 .. n : Swath(data, p + 16 * i) \in FourWords
    BY <2>1, SwathDivides
  <2>3. \A i \in 1 .. n : \A s \in FourWords : STEP16(s, Swath(data, p + 16 * i)) \in FourWords
    BY <2>2, STEP16Is
  <2>4. step \in [1 .. n -> [FourWords -> FourWords]]
    BY <2>3
  <2>5. base \in FourWords
    <3> DEFINE swath == Swath(data, p)
               x     == r[p]
    <3>1. swath \in FourWords /\ x \in Words
      BY SwathDivides
    <3>2. base = [swath EXCEPT ![1] = Xor(swath[1], x)]
      BY <3>1 DEF LoadSwath, FourWords
    <3> HIDE DEF swath, x, base
    <3>3. Xor(swath[1], x) \in Words
      BY <3>1, XorOfWords DEF FourWords
    <3> QED BY <3>1, <3>2, <3>3 DEF FourWords
  <2>6. \A i \in 1 .. n : \A s \in FourWords : step[i][s] = STEP16(s, Swath(data, p + 16 * i))
    OBVIOUS
  <2> HIDE DEF base, n, step
  <2>7. n \in Nat
    BY <1>4 DEF n
  <2>8. AreSteps(step, base, n, FourWords)
    BY <2>4, <2>5, <2>7 DEF AreSteps
  <2>9. PICK g : Takes(g, step, base, n, FourWords)
    BY <2>8, StepsExist
  <2>10. g \in [0 .. n -> FourWords] /\ g[0] = base /\ \A i \in 1 .. n : g[i] = step[i][g[i - 1]]
    BY <2>9 DEF Takes
  <2>11. ASSUME NEW i \in 0 .. n
         PROVE  g[i] = IF i > 0 THEN STEP16(g[i - 1], Swath(data, p + 16 * i)) ELSE base
    <3>1. CASE i = 0
      BY <2>10, <3>1
    <3>2. CASE i # 0
      <4>1. i \in 1 .. n /\ i - 1 \in 0 .. n /\ i > 0
        BY <2>7, <3>2
      <4>2. g[i - 1] \in FourWords
        BY <2>10, <4>1
      <4> QED BY <2>6, <2>10, <4>1, <4>2
    <3> QED BY <3>1, <3>2
  <2>12. g = [i \in 0 .. n |-> IF i > 0 THEN STEP16(g[i - 1], Swath(data, p + 16 * i)) ELSE base]
    <3>1. g = [i \in 0 .. n |-> g[i]]
      BY <2>10
    <3>2. [i \in 0 .. n |-> g[i]] = [i \in 0 .. n |-> IF i > 0 THEN STEP16(g[i - 1], Swath(data, p + 16 * i)) ELSE base]
      BY <2>11
    <3> QED BY <3>1, <3>2
  <2>13. GoodS(g)
    BY <2>12 DEF n, base
  <2> HIDE DEF GoodS
  <2> QED BY <2>13
<1> HIDE DEF fs
<1> DEFINE s == fs[swaths - 1]
<1>6. s \in FourWords /\ Combine(s) = r[p + 16 * swaths]
  <2>1. fs = [i \in 0 .. swaths - 1 |-> IF i > 0 THEN STEP16(fs[i - 1], Swath(data, p + 16 * i))
                                        ELSE LoadSwath(data, p, r[p])]
    BY <1>5
  <2> QED BY <1>4, <2>1, SwathsDivide
<1>7. Combine(s) = r[p + 4 * (4 * swaths)]
  BY <1>4, <1>6
<1>8. GoodW(fw)
  <2> DEFINE at(i) == p + 4 * (4 * swaths + i - 1)
             step  == [i \in 1 .. m |-> [t \in FourWords |-> AdvanceWord(t, ReadUint32LE(data, at(i)))]]
  <2>1. \A i \in 1 .. m : at(i) \in Nat /\ at(i) + 4 <= Len(data)
    BY <1>1, <1>4
  <2>2. \A i \in 1 .. m : ReadUint32LE(data, at(i)) \in Words
    <3> HIDE DEF at
    <3> QED BY <2>1, WordDivides
  <2>3. \A i \in 1 .. m : \A t \in FourWords : AdvanceWord(t, ReadUint32LE(data, at(i))) \in FourWords
    <3> HIDE DEF at
    <3> QED BY <2>2, AdvanceWordIs
  <2>4. step \in [1 .. m -> [FourWords -> FourWords]]
    BY <2>3
  <2>5. \A i \in 1 .. m : \A t \in FourWords : step[i][t] = AdvanceWord(t, ReadUint32LE(data, at(i)))
    OBVIOUS
  <2> HIDE DEF s, step
  <2>6. AreSteps(step, s, m, FourWords)
    BY <1>4, <1>6, <2>4 DEF AreSteps
  <2>7. PICK g : Takes(g, step, s, m, FourWords)
    BY <2>6, StepsExist
  <2>8. g \in [0 .. m -> FourWords] /\ g[0] = s /\ \A i \in 1 .. m : g[i] = step[i][g[i - 1]]
    BY <2>7 DEF Takes
  <2>9. ASSUME NEW i \in 0 .. m
        PROVE  g[i] = IF i > 0 THEN AdvanceWord(g[i - 1], ReadUint32LE(data, at(i))) ELSE s
    <3>1. CASE i = 0
      BY <2>8, <3>1
    <3>2. CASE i # 0
      <4>1. i \in 1 .. m /\ i - 1 \in 0 .. m /\ i > 0
        BY <1>4, <3>2
      <4>2. g[i - 1] \in FourWords
        BY <2>8, <4>1
      <4> QED BY <2>5, <2>8, <4>1, <4>2
    <3> QED BY <3>1, <3>2
  <2>10. g = [i \in 0 .. m |-> IF i > 0 THEN AdvanceWord(g[i - 1], ReadUint32LE(data, at(i))) ELSE s]
    <3>1. g = [i \in 0 .. m |-> g[i]]
      BY <2>8
    <3>2. [i \in 0 .. m |-> g[i]] = [i \in 0 .. m |-> IF i > 0 THEN AdvanceWord(g[i - 1], ReadUint32LE(data, at(i))) ELSE s]
      BY <2>9
    <3> QED BY <3>1, <3>2
  <2>11. GoodW(g)
    BY <2>10 DEF s, m
  <2> HIDE DEF GoodW
  <2> QED BY <2>11
<1> HIDE DEF fw
<1>9. fw[m] \in FourWords /\ Combine(fw[m]) = r[(p + 4 * (4 * swaths)) + 4 * m]
  <2> DEFINE q == 4 * swaths
  <2>1. q \in Nat /\ (p + 4 * q) + 4 * m <= Len(data) /\ Combine(s) = r[p + 4 * q]
    BY <1>4, <1>7
  <2>2. AfterWords(fw, data, p, q, m, s)
    BY <1>8 DEF AfterWords, m
  <2> HIDE DEF q, s
  <2>3. fw[m] \in FourWords /\ Combine(fw[m]) = r[(p + 4 * q) + 4 * m]
    BY <1>4, <1>6, <2>1, <2>2, WordsDivide
  <2> QED BY <2>3 DEF q
<1>10. Combine(fw[m]) = r[p + 4 * words]
  BY <1>4, <1>9
<1> QED BY <1>3, <1>10 DEF m, words

\* Whichever loops a buffer takes, Extend divides it.
LEMMA ExtendDivides ==
    ASSUME NEW init_crc, NEW data, NEW r, IsDivision(r, data, Xor(init_crc, kCRC32Xor)), NEW address \in Nat
    PROVE  Extend(init_crc, data, address) = Xor(kCRC32Xor, r[Len(data)])
<1> DEFINE l       == Xor(init_crc, kCRC32Xor)
           n       == Len(data)
           aligned == Unaligned(address, n)
           strided == n - aligned >= 16
           tail    == IF strided THEN n - ((n - aligned) % 4) ELSE aligned
           head    == STEP1s(data, 0, aligned, l)
           body    == IF strided THEN Strides(data, aligned, head) ELSE head
<1>1. n \in Nat /\ r[0] = l /\ IsDivision(r, data, l)
  BY DEF IsDivision
<1>2. Extend(init_crc, data, address) = Xor(kCRC32Xor, STEP1s(data, tail, n, body))
  BY DEF Extend
<1> HIDE DEF l
<1>3. aligned \in 0 .. n
  BY <1>1 DEF Unaligned
<1> HIDE DEF aligned
<1>4. head = r[aligned]
  <2>1. 0 \in 0 .. n /\ aligned \in 0 .. n
    BY <1>1, <1>3
  <2>2. STEP1s(data, 0, aligned, r[0]) = r[aligned]
    BY <1>1, <2>1, STEP1sDivide
  <2> QED BY <1>1, <2>2
<1>5. tail \in 0 .. n /\ body = r[tail]
  <2>1. CASE strided
    <3>1. aligned \in Nat /\ aligned + 16 <= n
      BY <1>1, <1>3, <2>1
    <3>2. Strides(data, aligned, r[aligned]) = r[aligned + 4 * ((n - aligned) \div 4)]
      BY <1>1, <3>1, StridesDivide
    <3> DEFINE k == n - aligned
    <3>3. k \in Nat /\ n = aligned + k
      BY <1>1, <1>3
    <3> HIDE DEF k
    <3>4. k % 4 \in Nat /\ k % 4 <= k /\ k - (k % 4) = 4 * (k \div 4)
      BY <3>3
    <3>5. n - (k % 4) = aligned + 4 * (k \div 4) /\ n - (k % 4) \in 0 .. n
      BY <1>1, <1>3, <3>3, <3>4
    <3>6. tail = n - (k % 4)
      BY <2>1 DEF k
    <3>7. body = Strides(data, aligned, r[aligned])
      BY <1>4, <2>1
    <3> QED BY <3>2, <3>5, <3>6, <3>7 DEF k
  <2>2. CASE ~ strided
    BY <1>3, <1>4, <2>2
  <2> QED BY <2>1, <2>2
<1> HIDE DEF tail, body
<1>6. STEP1s(data, tail, n, r[tail]) = r[n]
  <2>1. n \in tail .. n
    BY <1>1, <1>5
  <2> QED BY <1>1, <1>5, <2>1, STEP1sDivide
<1> QED BY <1>2, <1>5, <1>6

\* All one-bits are a word.
LEMMA XorIsWord == kCRC32Xor \in Words /\ {} \in Words
BY DEF kCRC32Xor, Words

\* The reference is the last remainder, too.
LEMMA ReferenceIs ==
    ASSUME NEW data, NEW r, IsDivision(r, data, kCRC32Xor)
    PROVE  Reference(data) = Xor(kCRC32Xor, r[Len(data)]) /\ Reference(data) \in Words
<1> DEFINE n == Len(data)
           Good(f) == f = [i \in 0 .. n |-> IF i > 0 THEN DivideEight(Xor(f[i - 1], data[i])) ELSE kCRC32Xor]
           a == CHOOSE f : Good(f)
<1>1. n \in Nat /\ r \in [0 .. n -> Words] /\ r[0] = kCRC32Xor
  BY DEF IsDivision
<1>2. ASSUME NEW i \in 1 .. n
      PROVE  i - 1 \in 0 .. n /\ r[i] = DivideEight(Xor(r[i - 1], data[i]))
  <2>1. r[i] = D8[Xor(r[i - 1], data[i])] /\ data[i] \in Byte
    BY DEF IsDivision
  <2>2. i - 1 \in 0 .. n
    BY <1>1
  <2>3. r[i - 1] \in Words /\ data[i] \in Words
    BY <1>1, <2>1, <2>2, ByteTable
  <2>4. Xor(r[i - 1], data[i]) \in Words
    BY <2>3, XorOfWords
  <2> QED BY <2>1, <2>2, <2>4 DEF D8
<1>3. Good(r)
  <2>1. ASSUME NEW i \in 0 .. n
        PROVE  r[i] = IF i > 0 THEN DivideEight(Xor(r[i - 1], data[i])) ELSE kCRC32Xor
    <3>1. CASE i = 0
      BY <1>1, <3>1
    <3>2. CASE i # 0
      <4>1. i \in 1 .. n /\ i > 0
        BY <1>1, <3>2
      <4> QED BY <1>2, <4>1
    <3> QED BY <3>1, <3>2
  <2>2. r = [i \in 0 .. n |-> r[i]]
    BY <1>1
  <2>3. [i \in 0 .. n |-> r[i]] = [i \in 0 .. n |-> IF i > 0 THEN DivideEight(Xor(r[i - 1], data[i])) ELSE kCRC32Xor]
    BY <2>1
  <2> QED BY <2>2, <2>3
<1>4. Good(a)
  BY <1>3
<1>5. Reference(data) = Xor(kCRC32Xor, a[n])
  BY DEF Reference
<1> HIDE DEF a
<1>6. \A i \in 0 .. n : a[i] = IF i > 0 THEN DivideEight(Xor(a[i - 1], data[i])) ELSE kCRC32Xor
  BY <1>4
<1> DEFINE T == {i \in 0 .. n : a[i] = r[i]}
<1>7. 0 \in T
  BY <1>1, <1>6
<1>8. ASSUME NEW i \in 1 .. n, i - 1 \in T PROVE i \in T
  <2>1. i \in 0 .. n /\ i > 0
    BY <1>1
  <2> QED BY <1>2, <1>6, <1>8, <2>1
<1> HIDE DEF T
<1>9. \A i \in 0 .. n : i \in T
  <2>1. \A i \in 1 .. n : i - 1 \in T => i \in T
    BY <1>8
  <2> QED BY <1>1, <1>7, <2>1, UpTo
<1>10. a[n] = r[n] /\ r[n] \in Words
  BY <1>1, <1>9 DEF T
<1> QED BY <1>5, <1>10, XorIsWord, XorOfWords

\* Strings behind one another.
LEMMA ConcatBytes ==
    ASSUME NEW a \in Seq(Byte), NEW b \in Seq(Byte)
    PROVE  /\ a \o b \in Seq(Byte) /\ Len(a \o b) = Len(a) + Len(b)
           /\ \A i \in 1 .. Len(a) : (a \o b)[i] = a[i]
           /\ \A i \in 1 .. Len(b) : (a \o b)[Len(a) + i] = b[i]
OBVIOUS

\* The remainders of data and of what follows them are those of both together.
LEMMA DivisionFollows ==
    ASSUME NEW data, NEW next, NEW l, NEW r, NEW t, IsDivision(r, data, l),
           IsDivision(t, next, r[Len(data)])
    PROVE  \E u : IsDivision(u, data \o next, l) /\ u[Len(data \o next)] = t[Len(next)]
<1> DEFINE m == Len(data)
           k == Len(next)
           both == data \o next
           u == [i \in 0 .. m + k |-> IF i <= m THEN r[i] ELSE t[i - m]]
<1>1. /\ data \in Seq(Byte) /\ next \in Seq(Byte) /\ m \in Nat /\ k \in Nat
      /\ r \in [0 .. m -> Words] /\ t \in [0 .. k -> Words] /\ t[0] = r[m] /\ r[0] = l /\ l \in Words
  BY DEF IsDivision
<1>2. /\ both \in Seq(Byte) /\ Len(both) = m + k
      /\ \A i \in 1 .. m : both[i] = data[i]
      /\ \A i \in 1 .. k : both[m + i] = next[i]
  BY <1>1
<1>3. /\ \A i \in 1 .. m : r[i] = D8[Xor(r[i - 1], data[i])]
      /\ \A i \in 1 .. k : t[i] = D8[Xor(t[i - 1], next[i])]
  BY DEF IsDivision
<1>4. \A i \in 0 .. m + k : u[i] = IF i <= m THEN r[i] ELSE t[i - m]
  OBVIOUS
<1>5. u \in [0 .. m + k -> Words]
  <2>1. \A i \in 0 .. m + k : IF i <= m THEN i \in 0 .. m ELSE i - m \in 0 .. k
    BY <1>1
  <2>2. \A i \in 0 .. m + k : (IF i <= m THEN r[i] ELSE t[i - m]) \in Words
    BY <1>1, <2>1
  <2> QED BY <2>2
<1> HIDE DEF u, both
<1>6. \A i \in 0 .. k : u[m + i] = t[i]
  <2>1. ASSUME NEW i \in 0 .. k PROVE u[m + i] = t[i]
    <3>1. m + i \in 0 .. m + k /\ (m + i) - m = i /\ (m + i <= m <=> i = 0)
      BY <1>1
    <3>2. CASE i = 0
      BY <1>1, <1>4, <3>1, <3>2
    <3>3. CASE i # 0
      BY <1>4, <3>1, <3>3
    <3> QED BY <3>2, <3>3
  <2> QED BY <2>1
<1>7. ASSUME NEW i \in 1 .. m + k PROVE u[i] = D8[Xor(u[i - 1], both[i])]
  <2>1. CASE i <= m
    <3>1. i \in 1 .. m /\ i \in 0 .. m + k /\ i - 1 \in 0 .. m + k /\ i - 1 <= m
      BY <1>1, <2>1
    <3> QED BY <1>2, <1>3, <1>4, <2>1, <3>1
  <2>2. CASE ~ (i <= m)
    <3> DEFINE j == i - m
    <3>1. j \in 1 .. k /\ j \in 0 .. k /\ j - 1 \in 0 .. k /\ m + j = i /\ m + (j - 1) = i - 1
      BY <1>1, <2>2
    <3> HIDE DEF j
    <3>2. u[m + j] = t[j] /\ u[m + (j - 1)] = t[j - 1] /\ both[m + j] = next[j]
      BY <1>2, <1>6, <3>1
    <3>3. t[j] = D8[Xor(t[j - 1], next[j])]
      BY <1>3, <3>1
    <3> QED BY <3>1, <3>2, <3>3
  <2> QED BY <2>1, <2>2
<1>8. u[0] = l /\ u[m + k] = t[k]
  BY <1>1, <1>4, <1>6
<1>9. IsDivision(u, both, l)
  BY <1>1, <1>2, <1>5, <1>7, <1>8 DEF IsDivision
<1>10. u[Len(both)] = t[k]
  BY <1>2, <1>8
<1> QED BY <1>9, <1>10 DEF both

\* Extend (src/src/utils/crc32.cpp): from the checksum of some data it makes
\* that of the data and the buffer together, whatever their bytes and lengths
\* are, however they are split, and wherever the buffer begins.
THEOREM ExtendTheorem ==
    ASSUME NEW data \in Seq(Byte), NEW next \in Seq(Byte), NEW address \in Nat
    PROVE  /\ Extend(Reference(data), next, address) = Reference(data \o next)
           /\ Extend({}, next, address) = Reference(next)
           /\ Reference(next) \in Words
<1>1. PICK r : IsDivision(r, data, kCRC32Xor)
  BY XorIsWord, DivisionExists
<1> DEFINE rm == r[Len(data)]
<1>2. rm \in Words
  BY <1>1 DEF IsDivision
<1>3. PICK t : IsDivision(t, next, rm)
  <2> HIDE DEF rm
  <2> QED BY <1>2, DivisionExists
<1>4. Reference(data) = Xor(kCRC32Xor, rm)
  BY <1>1, ReferenceIs
<1>5. Xor(Reference(data), kCRC32Xor) = rm
  <2> HIDE DEF rm
  <2> QED BY <1>4, XorAlgebra
<1>6. Extend(Reference(data), next, address) = Xor(kCRC32Xor, t[Len(next)])
  <2>1. IsDivision(t, next, Xor(Reference(data), kCRC32Xor))
    BY <1>3, <1>5
  <2> QED BY <2>1, ExtendDivides
<1>7. PICK u : IsDivision(u, data \o next, kCRC32Xor) /\ u[Len(data \o next)] = t[Len(next)]
  <2>1. IsDivision(t, next, r[Len(data)])
    BY <1>3
  <2>2. IsDivision(r, data, kCRC32Xor)
    BY <1>1
  <2> HIDE DEF rm
  <2> QED BY ONLY <2>1, <2>2, DivisionFollows
<1>8. Reference(data \o next) = Xor(kCRC32Xor, u[Len(data \o next)])
  <2> DEFINE both == data \o next
  <2>1. IsDivision(u, both, kCRC32Xor)
    BY <1>7
  <2> HIDE DEF both
  <2>2. Reference(both) = Xor(kCRC32Xor, u[Len(both)])
    BY <2>1, ReferenceIs
  <2> QED BY <2>2 DEF both
<1>9. Extend(Reference(data), next, address) = Reference(data \o next)
  BY <1>6, <1>7, <1>8
<1>10. PICK v : IsDivision(v, next, kCRC32Xor)
  BY XorIsWord, DivisionExists
<1>11. Reference(next) = Xor(kCRC32Xor, v[Len(next)]) /\ Reference(next) \in Words
  BY <1>10, ReferenceIs
<1>12. IsDivision(v, next, Xor({}, kCRC32Xor))
  BY <1>10, XorAlgebra
<1>13. Extend({}, next, address) = Xor(kCRC32Xor, v[Len(next)])
  BY <1>12, ExtendDivides
<1> QED BY <1>9, <1>11, <1>13

-----------------------------------------------------------------------------
(* A checksum that is extended buffer by buffer                            *)

\* The inductive invariant: the data are bytes, and the checksum is theirs.
CrcIInv == crc_data \in Seq(Byte) /\ ExtendIsDivision

\* Buffers are bytes.
LEMMA BuffersAreBytes ==
    ASSUME NEW n \in Nat
    PROVE  Buffers(n) \subseteq Seq(Byte)
<1>1. Zeros(n) \in [1 .. n -> Byte]
  BY DEF Zeros, Byte
<1>2. \A bit \in DataBits : {bit} \in Byte
  BY CrcAssumption DEF Byte
<1>3. \A i \in 1 .. n : \A bit \in DataBits : [Zeros(n) EXCEPT ![i] = {bit}] \in [1 .. n -> Byte]
  BY <1>1, <1>2
<1>4. \A buffer \in Buffers(n) : buffer \in [1 .. n -> Byte]
  BY <1>1, <1>3 DEF Buffers
<1>5. [1 .. n -> Byte] \subseteq Seq(Byte)
  BY SeqDef
<1> QED BY <1>4, <1>5

\* The empty data has the checksum 0.
LEMMA ReferenceOfNothing == Reference(<<>>) = {}
<1> DEFINE r == [i \in 0 .. 0 |-> kCRC32Xor]
           d == <<>>
<1>1. d \in Seq(Byte) /\ Len(d) = 0 /\ r \in [0 .. 0 -> Words] /\ r[0] = kCRC32Xor
  BY XorIsWord
<1> HIDE DEF r, d
<1>2. IsDivision(r, d, kCRC32Xor)
  BY <1>1, XorIsWord DEF IsDivision
<1>3. Reference(d) = Xor(kCRC32Xor, r[Len(d)])
  BY <1>2, ReferenceIs
<1> QED BY <1>1, <1>3, XorAlgebra DEF d

\* Init establishes it.
LEMMA CrcInitIInv == CrcInit => CrcIInv
BY ReferenceOfNothing DEF CrcInit, CrcIInv, ExtendIsDivision

\* A buffer of any length preserves it.
LEMMA CrcExtendIInv ==
    ASSUME CrcIInv, NEW n \in Nat, CrcExtend(n)
    PROVE  CrcIInv'
<1>1. PICK buffer \in Buffers(n), address \in 0 .. 3 :
        crc_data' = crc_data \o buffer /\ crc' = Extend(crc, buffer, address)
  BY DEF CrcExtend
<1>2. buffer \in Seq(Byte) /\ address \in Nat
  BY BuffersAreBytes
<1> DEFINE data == crc_data
<1>3. data \in Seq(Byte) /\ crc = Reference(data) /\ crc_data' = data \o buffer
  BY <1>1 DEF CrcIInv, ExtendIsDivision
<1> HIDE DEF data
<1>4. Extend(Reference(data), buffer, address) = Reference(data \o buffer)
  BY <1>2, <1>3, ExtendTheorem
<1>5. crc' = Reference(crc_data') /\ crc_data' \in Seq(Byte)
  BY <1>1, <1>2, <1>3, <1>4
<1> QED BY <1>5 DEF CrcIInv, ExtendIsDivision

\* Extend (src/src/utils/crc32.cpp) called buffer by buffer: the checksum is the
\* remainder of the bit-by-bit division of all the data, for every length.
THEOREM CrcTheorem == CrcSpec => []ExtendIsDivision
<1>1. CrcInit => CrcIInv
  BY CrcInitIInv
<1>2. CrcIInv /\ [CrcNext]_crc_vars => CrcIInv'
  <2> SUFFICES ASSUME CrcIInv, [CrcNext]_crc_vars PROVE CrcIInv'
    OBVIOUS
  <2>1. CASE CrcNext
    <3>1. PICK n \in (IF crc_data = <<>> THEN 1 .. MaxBytes ELSE NextLengths) : CrcExtend(n)
      BY <2>1 DEF CrcNext
    <3>2. n \in Nat
      BY <3>1, CrcAssumption
    <3> QED BY <3>1, <3>2, CrcExtendIInv
  <2>2. CASE UNCHANGED crc_vars
    BY <2>2 DEF crc_vars, CrcIInv, ExtendIsDivision
  <2> QED BY <2>1, <2>2
<1>3. CrcIInv => ExtendIsDivision
  BY DEF CrcIInv
<1> QED BY <1>1, <1>2, <1>3, PTL DEF CrcSpec

-----------------------------------------------------------------------------
(* Mask and Unmask                                                         *)

\* The bits of a rotation.
LEMMA RotateBits ==
    ASSUME NEW w \in Words, NEW n \in 1 .. 31
    PROVE  /\ RotateRight(w, n) \in Words
           /\ \A b \in 0 .. 31 :
                 b \in RotateRight(w, n) <=> IF b + n <= 31 THEN b + n \in w ELSE b + n - 32 \in w
<1>1. w \in SUBSET Nat /\ (\A b \in w : b \in 0 .. 31) /\ n \in Nat /\ 32 - n \in Nat /\ 32 \in Nat
      /\ Below(32) = 0 .. 31
  BY DEF Words, Below
<1>2. Right(w, n) = {b \in Nat : b + n \in w}
  BY <1>1, ShiftBits
<1>3. Left(w, 32 - n, 32) = {b \in 0 .. 31 : b >= 32 - n /\ b - (32 - n) \in w}
  <2> DEFINE m == 32 - n
  <2>1. m \in Nat
    BY <1>1
  <2> HIDE DEF m
  <2>2. Left(w, m, 32) = {b \in Below(32) : b >= m /\ b - m \in w}
    BY <1>1, <2>1, ShiftBits
  <2> QED BY <1>1, <2>2 DEF m
<1>4. \A b \in Nat : b + n \in w => b \in 0 .. 31 /\ b + n <= 31
  BY <1>1
<1>5. \A b \in 0 .. 31 : b \in RotateRight(w, n) <=> b + n \in w \/ (b >= 32 - n /\ b - (32 - n) \in w)
  BY <1>2, <1>3 DEF RotateRight
<1>6. \A b \in 0 .. 31 : (b >= 32 - n <=> ~ (b + n <= 31)) /\ b - (32 - n) = b + n - 32
  BY <1>1
<1>7. \A b \in 0 .. 31 :
         b \in RotateRight(w, n) <=> IF b + n <= 31 THEN b + n \in w ELSE b + n - 32 \in w
  BY <1>4, <1>5, <1>6
<1>8. RotateRight(w, n) \in Words
  BY <1>1, <1>2, <1>3, <1>4 DEF RotateRight, Words
<1> QED BY <1>7, <1>8

\* The rotations by 15 and by 17 are inverse.
LEMMA TurnBackTurns ==
    /\ \A w \in Words : TurnBack(RotateRight(w, 15)) = w
    /\ \A w \in Words : TurnBack(w) \in Words /\ RotateRight(TurnBack(w), 15) = w
<1>1. ASSUME NEW w \in Words, NEW n \in 1 .. 31
      PROVE  /\ RotateRight(w, n) \in Words
             /\ RotateRight(RotateRight(w, n), 32 - n) = w
  <2> DEFINE v == RotateRight(w, n)
             m == 32 - n
             u == RotateRight(v, m)
  <2>1. v \in Words /\ \A b \in 0 .. 31 : b \in v <=> IF b + n <= 31 THEN b + n \in w ELSE b + n - 32 \in w
    BY RotateBits
  <2> HIDE DEF v
  <2>2. m \in 1 .. 31
    OBVIOUS
  <2> HIDE DEF m
  <2>3. u \in Words /\ \A b \in 0 .. 31 : b \in u <=> IF b + m <= 31 THEN b + m \in v ELSE b + m - 32 \in v
    BY <2>1, <2>2, RotateBits
  <2> HIDE DEF u
  <2>4. ASSUME NEW b \in 0 .. 31 PROVE b \in u <=> b \in w
    <3>1. CASE b + m <= 31
      <4>1. b + m \in 0 .. 31 /\ ~ ((b + m) + n <= 31) /\ (b + m) + n - 32 = b
        BY <2>2, <3>1 DEF m
      <4> QED BY <2>1, <2>3, <3>1, <4>1
    <3>2. CASE ~ (b + m <= 31)
      <4>1. b + m - 32 \in 0 .. 31 /\ (b + m - 32) + n <= 31 /\ (b + m - 32) + n = b
        BY <2>2, <3>2 DEF m
      <4> QED BY <2>1, <2>3, <3>2, <4>1
    <3> QED BY <3>1, <3>2
  <2>5. u \subseteq 0 .. 31 /\ w \subseteq 0 .. 31
    BY <2>3 DEF Words, Below
  <2> QED BY <2>1, <2>4, <2>5 DEF u, v, m
<1>2. 15 \in 1 .. 31 /\ 17 \in 1 .. 31 /\ 32 - 15 = 17 /\ 32 - 17 = 15
  OBVIOUS
<1>3. ASSUME NEW w \in Words PROVE TurnBack(RotateRight(w, 15)) = w
  <2>1. RotateRight(RotateRight(w, 15), 32 - 15) = w
    BY <1>1, <1>2
  <2> QED BY <1>2, <2>1 DEF TurnBack
<1>4. ASSUME NEW w \in Words PROVE TurnBack(w) \in Words /\ RotateRight(TurnBack(w), 15) = w
  <2>1. RotateRight(w, 17) \in Words /\ RotateRight(RotateRight(w, 17), 32 - 17) = w
    BY <1>1, <1>2
  <2> QED BY <1>2, <2>1 DEF TurnBack
<1> QED BY <1>3, <1>4

\* What begins behind a bit of g goes on while p has the bits between.
Propagates(C, g, p) == C = {i \in Below(32) : \E j \in g \cap Below(i) : j + 1 .. i - 1 \subseteq p}

\* So it comes from the bit before.
LEMMA PropagatesBits ==
    ASSUME NEW g, NEW p, NEW C, Propagates(C, g, p)
    PROVE  /\ C \in Words /\ 0 \notin C
           /\ \A i \in 1 .. 31 : i \in C <=> i - 1 \in g \/ (i - 1 \in C /\ i - 1 \in p)
<1>1. /\ Below(32) = 0 .. 31 /\ Below(0) = {}
      /\ \A i \in 1 .. 31 : Below(i) = 0 .. i - 1
  BY DEF Below
<1>2. C = {i \in Below(32) : \E j \in g \cap Below(i) : j + 1 .. i - 1 \subseteq p}
  BY DEF Propagates
<1>3. C \in Words /\ 0 \notin C
  BY <1>1, <1>2 DEF Words
<1>4. ASSUME NEW i \in 1 .. 31 PROVE i \in C <=> i - 1 \in g \/ (i - 1 \in C /\ i - 1 \in p)
  <2>1. i \in 0 .. 31 /\ i - 1 \in 0 .. 31 /\ i - 1 \in 0 .. i - 1
    OBVIOUS
  <2>2. ASSUME i \in C, i - 1 \notin g PROVE i - 1 \in C /\ i - 1 \in p
    <3>1. PICK j \in g \cap (0 .. i - 1) : j + 1 .. i - 1 \subseteq p
      BY <1>1, <1>2, <2>2
    <3>2. j # i - 1 /\ j \in 0 .. i - 2 /\ i - 1 \in j + 1 .. i - 1
      BY <2>2, <3>1
    <3>3. i - 1 \in 1 .. 31 /\ Below(i - 1) = 0 .. i - 2
      BY <3>2 DEF Below
    <3>4. j + 1 .. (i - 1) - 1 \subseteq j + 1 .. i - 1
      BY <3>2
    <3> QED BY <1>1, <1>2, <2>1, <3>1, <3>2, <3>3, <3>4
  <2>3. ASSUME i - 1 \in g PROVE i \in C
    <3>1. (i - 1) + 1 .. i - 1 = {}
      OBVIOUS
    <3> QED BY <1>1, <1>2, <2>1, <2>3, <3>1
  <2>4. ASSUME i - 1 \in C, i - 1 \in p PROVE i \in C
    <3>1. PICK j \in g \cap Below(i - 1) : j + 1 .. (i - 1) - 1 \subseteq p
      BY <1>2, <2>4
    <3>2. j \in 0 .. i - 2
      BY <3>1 DEF Below
    <3>3. \A k \in j + 1 .. i - 1 : k = i - 1 \/ k \in j + 1 .. (i - 1) - 1
      BY <3>2
    <3>4. j + 1 .. i - 1 \subseteq p /\ j \in 0 .. i - 1
      BY <2>4, <3>1, <3>2, <3>3
    <3> QED BY <1>1, <1>2, <2>1, <3>1, <3>4
  <2> QED BY <2>2, <2>3, <2>4
<1> QED BY <1>3, <1>4

\* Carries and borrows, bit by bit.
LEMMA CarryBits ==
    ASSUME NEW a \in Words, NEW b \in Words
    PROVE  /\ Carries(a, b) \in Words /\ 0 \notin Carries(a, b)
           /\ \A i \in 1 .. 31 :
                 i \in Carries(a, b) <=> \/ i - 1 \in a /\ i - 1 \in b
                                         \/ i - 1 \in Carries(a, b) /\ (i - 1 \in a \/ i - 1 \in b)
           /\ Borrows(a, b) \in Words /\ 0 \notin Borrows(a, b)
           /\ \A i \in 1 .. 31 :
                 i \in Borrows(a, b) <=> \/ i - 1 \in b /\ i - 1 \notin a
                                         \/ i - 1 \in Borrows(a, b) /\ ~ (i - 1 \in a /\ i - 1 \notin b)
<1>1. /\ Carries(a, b) \in Words /\ 0 \notin Carries(a, b)
      /\ \A i \in 1 .. 31 : i \in Carries(a, b) <=>
            i - 1 \in a \cap b \/ (i - 1 \in Carries(a, b) /\ i - 1 \in a \cup b)
  <2> DEFINE g == a \cap b
             p == a \cup b
             C == Carries(a, b)
  <2>1. Propagates(C, g, p)
    BY DEF Carries, Propagates
  <2> HIDE DEF g, p, C
  <2>2. /\ C \in Words /\ 0 \notin C
        /\ \A i \in 1 .. 31 : i \in C <=> i - 1 \in g \/ (i - 1 \in C /\ i - 1 \in p)
    BY <2>1, PropagatesBits
  <2> QED BY <2>2 DEF g, p, C
<1>2. /\ Borrows(a, b) \in Words /\ 0 \notin Borrows(a, b)
      /\ \A i \in 1 .. 31 : i \in Borrows(a, b) <=>
            i - 1 \in b \ a \/ (i - 1 \in Borrows(a, b) /\ i - 1 \in Int \ (a \ b))
  <2> DEFINE g == b \ a
             p == Int \ (a \ b)
             C == Borrows(a, b)
  <2>1. \A i \in Below(32) : \A j \in g \cap Below(i) :
           (j + 1 .. i - 1) \cap (a \ b) = {} <=> j + 1 .. i - 1 \subseteq p
    OBVIOUS
  <2>2. Propagates(C, g, p)
    BY <2>1 DEF Borrows, Propagates
  <2> HIDE DEF g, p, C
  <2>3. /\ C \in Words /\ 0 \notin C
        /\ \A i \in 1 .. 31 : i \in C <=> i - 1 \in g \/ (i - 1 \in C /\ i - 1 \in p)
    BY <2>2, PropagatesBits
  <2> QED BY <2>3 DEF g, p, C
<1> QED BY <1>1, <1>2

\* Addition and subtraction modulo 2^32 undo each other.
LEMMA AddSubtract ==
    ASSUME NEW a \in Words, NEW b \in Words
    PROVE  /\ Add(a, b) \in Words /\ Subtract(Add(a, b), b) = a
           /\ Subtract(a, b) \in Words /\ Add(Subtract(a, b), b) = a
<1>1. ASSUME NEW C \in Words, NEW D \in Words, NEW x, x = Xor(Xor(a, b), C),
             \A i \in 0 .. 31 : i \in C <=> i \in D
      PROVE  x \in Words /\ Xor(Xor(x, b), D) = a
  <2>1. C = D
    <3>1. C \subseteq 0 .. 31 /\ D \subseteq 0 .. 31
      BY DEF Words, Below
    <3> QED BY <1>1, <3>1
  <2>2. Xor(Xor(Xor(Xor(a, b), C), b), C) = a
    BY XorAlgebra
  <2>3. x \in Words
    BY <1>1, XorOfWords
  <2> QED BY <1>1, <2>1, <2>2, <2>3
<1>2. 31 \in Nat
  OBVIOUS
<1>3. Add(a, b) \in Words /\ Subtract(Add(a, b), b) = a
  <2> DEFINE C == Carries(a, b)
             x == Add(a, b)
             D == Borrows(x, b)
             T == {i \in 0 .. 31 : i \in C <=> i \in D}
  <2>1. /\ C \in Words /\ 0 \notin C
        /\ \A i \in 1 .. 31 : i \in C <=> (i - 1 \in a /\ i - 1 \in b) \/ (i - 1 \in C /\ (i - 1 \in a \/ i - 1 \in b))
    BY CarryBits
  <2>2. x = Xor(Xor(a, b), C)
    BY DEF Add
  <2> HIDE DEF C, x
  <2>3. x \in Words
    BY <2>1, <2>2, XorOfWords
  <2>4. /\ D \in Words /\ 0 \notin D
        /\ \A i \in 1 .. 31 : i \in D <=> (i - 1 \in b /\ i - 1 \notin x) \/ (i - 1 \in D /\ ~ (i - 1 \in x /\ i - 1 \notin b))
    BY <2>3, CarryBits
  <2> HIDE DEF D
  <2>5. \A i : i \in x <=> ~ (~ (i \in a <=> i \in b) <=> i \in C)
    BY <2>2 DEF Xor
  <2>6. 0 \in T
    BY <2>1, <2>4
  <2>7. \A i \in 1 .. 31 : i - 1 \in T => i \in T
    <3> SUFFICES ASSUME NEW i \in 1 .. 31, i - 1 \in T PROVE i \in T
      OBVIOUS
    <3>1. i \in 0 .. 31
      OBVIOUS
    <3>2. i - 1 \in C <=> i - 1 \in D
      OBVIOUS
    <3>3. i - 1 \in x <=> ~ (~ (i - 1 \in a <=> i - 1 \in b) <=> i - 1 \in C)
      BY <2>5
    <3>4. i \in C <=> (i - 1 \in a /\ i - 1 \in b) \/ (i - 1 \in C /\ (i - 1 \in a \/ i - 1 \in b))
      BY <2>1
    <3>5. i \in D <=> (i - 1 \in b /\ i - 1 \notin x) \/ (i - 1 \in D /\ ~ (i - 1 \in x /\ i - 1 \notin b))
      BY <2>4
    <3>6. i \in C <=> i \in D
      BY <3>2, <3>3, <3>4, <3>5
    <3> QED BY <3>1, <3>6
  <2> HIDE DEF T
  <2>8. \A i \in 0 .. 31 : i \in T
    BY <1>2, <2>6, <2>7, UpTo
  <2>9. \A i \in 0 .. 31 : i \in C <=> i \in D
    BY <2>8 DEF T
  <2>10. Xor(Xor(x, b), D) = a
    BY <1>1, <2>1, <2>2, <2>4, <2>9
  <2> QED BY <2>3, <2>10 DEF Subtract, x, D
<1>4. Subtract(a, b) \in Words /\ Add(Subtract(a, b), b) = a
  <2> DEFINE C == Borrows(a, b)
             x == Subtract(a, b)
             D == Carries(x, b)
             T == {i \in 0 .. 31 : i \in C <=> i \in D}
  <2>1. /\ C \in Words /\ 0 \notin C
        /\ \A i \in 1 .. 31 : i \in C <=> (i - 1 \in b /\ i - 1 \notin a) \/ (i - 1 \in C /\ ~ (i - 1 \in a /\ i - 1 \notin b))
    BY CarryBits
  <2>2. x = Xor(Xor(a, b), C)
    BY DEF Subtract
  <2> HIDE DEF C, x
  <2>3. x \in Words
    BY <2>1, <2>2, XorOfWords
  <2>4. /\ D \in Words /\ 0 \notin D
        /\ \A i \in 1 .. 31 : i \in D <=> (i - 1 \in x /\ i - 1 \in b) \/ (i - 1 \in D /\ (i - 1 \in x \/ i - 1 \in b))
    BY <2>3, CarryBits
  <2> HIDE DEF D
  <2>5. \A i : i \in x <=> ~ (~ (i \in a <=> i \in b) <=> i \in C)
    BY <2>2 DEF Xor
  <2>6. 0 \in T
    BY <2>1, <2>4
  <2>7. \A i \in 1 .. 31 : i - 1 \in T => i \in T
    <3> SUFFICES ASSUME NEW i \in 1 .. 31, i - 1 \in T PROVE i \in T
      OBVIOUS
    <3>1. i \in 0 .. 31
      OBVIOUS
    <3>2. i - 1 \in C <=> i - 1 \in D
      OBVIOUS
    <3>3. i - 1 \in x <=> ~ (~ (i - 1 \in a <=> i - 1 \in b) <=> i - 1 \in C)
      BY <2>5
    <3>4. i \in C <=> (i - 1 \in b /\ i - 1 \notin a) \/ (i - 1 \in C /\ ~ (i - 1 \in a /\ i - 1 \notin b))
      BY <2>1
    <3>5. i \in D <=> (i - 1 \in x /\ i - 1 \in b) \/ (i - 1 \in D /\ (i - 1 \in x \/ i - 1 \in b))
      BY <2>4
    <3>6. i \in C <=> i \in D
      BY <3>2, <3>3, <3>4, <3>5
    <3> QED BY <3>1, <3>6
  <2> HIDE DEF T
  <2>8. \A i \in 0 .. 31 : i \in T
    BY <1>2, <2>6, <2>7, UpTo
  <2>9. \A i \in 0 .. 31 : i \in C <=> i \in D
    BY <2>8 DEF T
  <2>10. Xor(Xor(x, b), D) = a
    BY <1>1, <2>1, <2>2, <2>4, <2>9
  <2> QED BY <2>3, <2>10 DEF Add, x, D
<1> QED BY <1>3, <1>4

\* Unmask undoes Mask, and tells two masked checksums apart.
LEMMA UnmaskMask ==
    /\ \A w \in Words : Mask(w) \in Words /\ Unmask(Mask(w)) = w
    /\ \A x \in Words, y \in Words : Unmask(x) = Unmask(y) => x = y
<1> DEFINE d == kMaskDelta
<1>1. d \in Words
  BY DEF kMaskDelta, Words, Below
<1> HIDE DEF d
<1>2. ASSUME NEW w \in Words PROVE Mask(w) \in Words /\ Unmask(Mask(w)) = w
  <2> DEFINE v == RotateRight(w, 15)
  <2>1. 15 \in 1 .. 31
    OBVIOUS
  <2>2. v \in Words /\ TurnBack(v) = w
    BY <2>1, RotateBits, TurnBackTurns
  <2> HIDE DEF v
  <2>3. Add(v, d) \in Words /\ Subtract(Add(v, d), d) = v
    BY <1>1, <2>2, AddSubtract
  <2> QED BY <2>2, <2>3 DEF Mask, Unmask, v, d
<1>3. ASSUME NEW x \in Words, NEW y \in Words, Unmask(x) = Unmask(y) PROVE x = y
  <2> DEFINE u == Subtract(x, d)
             v == Subtract(y, d)
  <2>1. u \in Words /\ Add(u, d) = x /\ v \in Words /\ Add(v, d) = y
    BY <1>1, AddSubtract
  <2>2. TurnBack(u) = TurnBack(v)
    BY <1>3 DEF Unmask, d
  <2> HIDE DEF u, v
  <2>3. RotateRight(TurnBack(u), 15) = u /\ RotateRight(TurnBack(v), 15) = v
    BY <2>1, TurnBackTurns
  <2> QED BY <2>1, <2>2, <2>3
<1> QED BY <1>2, <1>3

-----------------------------------------------------------------------------
(* The trailer of a block                                                  *)

\* A changed byte changes the checksum.
LEMMA ByteCounts ==
    ASSUME NEW a \in Seq(Byte), NEW b \in Seq(Byte), Len(a) = Len(b), NEW k \in 1 .. Len(a), a[k] # b[k],
           \A i \in 1 .. Len(a) : i # k => a[i] = b[i]
    PROVE  Reference(a) # Reference(b)
<1> DEFINE n == Len(a)
<1>1. PICK r : IsDivision(r, a, kCRC32Xor)
  BY XorIsWord, DivisionExists
<1>2. PICK t : IsDivision(t, b, kCRC32Xor)
  BY XorIsWord, DivisionExists
<1>3. /\ r \in [0 .. n -> Words] /\ r[0] = kCRC32Xor /\ \A i \in 1 .. n : r[i] = D8[Xor(r[i - 1], a[i])]
      /\ t \in [0 .. n -> Words] /\ t[0] = kCRC32Xor /\ \A i \in 1 .. n : t[i] = D8[Xor(t[i - 1], b[i])]
  BY <1>1, <1>2 DEF IsDivision
<1>4. n \in Nat /\ k \in 1 .. n
  OBVIOUS
<1> DEFINE T == {i \in 0 .. n : r[i] = t[i] <=> i < k}
<1>5. 0 \in T
  BY <1>3, <1>4
<1>6. ASSUME NEW i \in 1 .. n, i - 1 \in T PROVE i \in T
  <2>1. i \in 0 .. n /\ i - 1 \in 0 .. n
    BY <1>4
  <2> DEFINE u == r[i - 1]
             v == t[i - 1]
             c == a[i]
             d == b[i]
  <2>2. u \in Words /\ v \in Words /\ c \in Words /\ d \in Words /\ (u = v <=> i - 1 < k)
    BY <1>3, <1>6, <2>1, ByteTable
  <2>3. r[i] = D8[Xor(u, c)] /\ t[i] = D8[Xor(v, d)]
    BY <1>3
  <2>4. c = d <=> i # k
    BY <1>4
  <2> HIDE DEF u, v, c, d
  <2>5. Xor(u, c) \in Words /\ Xor(v, d) \in Words
    BY <2>2, XorOfWords
  <2>6. \A x \in Words, y \in Words : D8[x] = D8[y] => x = y
    BY StepsLinear DEF Linear
  <2>7. r[i] = t[i] <=> Xor(u, c) = Xor(v, d)
    BY <2>3, <2>5, <2>6
  <2>8. CASE i < k
    <3>1. u = v /\ c = d
      BY <1>4, <2>2, <2>4, <2>8
    <3> QED BY <2>1, <2>7, <2>8, <3>1
  <2>9. CASE i = k
    <3>1. u = v /\ c # d
      BY <1>4, <2>2, <2>4, <2>9
    <3>2. Xor(u, c) # Xor(v, d)
      BY <3>1, XorAlgebra
    <3> QED BY <1>4, <2>1, <2>7, <2>9, <3>2
  <2>10. CASE i > k
    <3>1. u # v /\ c = d
      BY <1>4, <2>2, <2>4, <2>10
    <3>2. Xor(u, c) = Xor(c, u) /\ Xor(v, d) = Xor(c, v)
      BY <3>1, XorAlgebra
    <3>3. Xor(c, u) # Xor(c, v)
      BY <3>1, XorAlgebra
    <3> QED BY <1>4, <2>1, <2>7, <2>10, <3>2, <3>3
  <2> QED BY <1>4, <2>8, <2>9, <2>10
<1> HIDE DEF T
<1>7. \A i \in 0 .. n : i \in T
  <2>1. \A i \in 1 .. n : i - 1 \in T => i \in T
    BY <1>6
  <2> QED BY <1>4, <1>5, <2>1, UpTo
<1>8. r[n] # t[n]
  <2>1. n \in T /\ ~ (n < k)
    BY <1>4, <1>7
  <2> QED BY <2>1 DEF T
<1>9. Reference(a) = Xor(kCRC32Xor, r[n]) /\ Reference(b) = Xor(kCRC32Xor, t[n])
  BY <1>1, <1>2, ReferenceIs
<1> QED BY <1>8, <1>9, XorAlgebra

\* What of a block of n bytes the checksum is for, and the checksum it carries.
Covered(s, n) == SubSeq(s, 1, n + 1)
Carried(s, n) == Joined(s[n + 2], s[n + 3], s[n + 4], s[n + 5])

\* A changed byte changes the word that four make.
LEMMA CarriedCounts ==
    ASSUME NEW s, NEW w, NEW n,
           s[n + 2] \in Byte, s[n + 3] \in Byte, s[n + 4] \in Byte, s[n + 5] \in Byte,
           w[n + 2] \in Byte, w[n + 3] \in Byte, w[n + 4] \in Byte, w[n + 5] \in Byte,
           Carried(s, n) = Carried(w, n)
    PROVE  s[n + 2] = w[n + 2] /\ s[n + 3] = w[n + 3] /\ s[n + 4] = w[n + 4] /\ s[n + 5] = w[n + 5]
<1> DEFINE c0 == s[n + 2]
           c1 == s[n + 3]
           c2 == s[n + 4]
           c3 == s[n + 5]
           d0 == w[n + 2]
           d1 == w[n + 3]
           d2 == w[n + 4]
           d3 == w[n + 5]
<1>1. /\ c0 \in Byte /\ c1 \in Byte /\ c2 \in Byte /\ c3 \in Byte
      /\ d0 \in Byte /\ d1 \in Byte /\ d2 \in Byte /\ d3 \in Byte
      /\ Joined(c0, c1, c2, c3) = Joined(d0, d1, d2, d3)
  BY DEF Carried
<1> SUFFICES c0 = d0 /\ c1 = d1 /\ c2 = d2 /\ c3 = d3
  OBVIOUS
<1> HIDE DEF c0, c1, c2, c3, d0, d1, d2, d3
<1>2. /\ 0 \in 0 .. 3 /\ 1 \in 0 .. 3 /\ 2 \in 0 .. 3 /\ 3 \in 0 .. 3
      /\ 8 * 0 = 0 /\ 8 * 1 = 8 /\ 8 * 2 = 16 /\ 8 * 3 = 24
      /\ 0 + 8 = 8 /\ 8 + 8 = 16 /\ 16 + 8 = 24 /\ 24 + 8 = 32
  OBVIOUS
<1>3. ASSUME NEW e0 \in Byte, NEW e1 \in Byte, NEW e2 \in Byte, NEW e3 \in Byte
      PROVE  \A x \in 0 .. 7 : /\ x \in e0 <=> x \in Joined(e0, e1, e2, e3)
                               /\ x \in e1 <=> x + 8 \in Joined(e0, e1, e2, e3)
                               /\ x \in e2 <=> x + 16 \in Joined(e0, e1, e2, e3)
                               /\ x \in e3 <=> x + 24 \in Joined(e0, e1, e2, e3)
  <2>1. Joined(e0, e1, e2, e3) = Placed(e0, 0) \cup Placed(e1, 1) \cup Placed(e2, 2) \cup Placed(e3, 3)
    BY JoinedIsUnion
  <2>2. /\ Placed(e0, 0) = {b \in Nat : b >= 0 /\ b < 8 /\ b - 0 \in e0}
        /\ Placed(e1, 1) = {b \in Nat : b >= 8 /\ b < 16 /\ b - 8 \in e1}
        /\ Placed(e2, 2) = {b \in Nat : b >= 16 /\ b < 24 /\ b - 16 \in e2}
        /\ Placed(e3, 3) = {b \in Nat : b >= 24 /\ b < 32 /\ b - 24 \in e3}
    BY <1>2, PlacedBits
  <2> DEFINE j == Joined(e0, e1, e2, e3)
  <2>3. \A b \in Nat : b \in j <=> \/ b < 8 /\ b - 0 \in e0
                                   \/ b >= 8 /\ b < 16 /\ b - 8 \in e1
                                   \/ b >= 16 /\ b < 24 /\ b - 16 \in e2
                                   \/ b >= 24 /\ b < 32 /\ b - 24 \in e3
    BY <2>1, <2>2
  <2> HIDE DEF j
  <2>4. ASSUME NEW x \in 0 .. 7
        PROVE  /\ x \in e0 <=> x \in j
               /\ x \in e1 <=> x + 8 \in j
               /\ x \in e2 <=> x + 16 \in j
               /\ x \in e3 <=> x + 24 \in j
    <3>1. /\ x \in Nat /\ x + 8 \in Nat /\ x + 16 \in Nat /\ x + 24 \in Nat
          /\ x - 0 = x /\ (x + 8) - 8 = x /\ (x + 16) - 16 = x /\ (x + 24) - 24 = x
      OBVIOUS
    <3> QED BY <2>3, <3>1
  <2> QED BY <2>4 DEF j
<1> DEFINE j == Joined(c0, c1, c2, c3)
<1>4. \A x \in 0 .. 7 : /\ x \in c0 <=> x \in j
                        /\ x \in c1 <=> x + 8 \in j
                        /\ x \in c2 <=> x + 16 \in j
                        /\ x \in c3 <=> x + 24 \in j
  BY <1>1, <1>3
<1>5. \A x \in 0 .. 7 : /\ x \in d0 <=> x \in j
                        /\ x \in d1 <=> x + 8 \in j
                        /\ x \in d2 <=> x + 16 \in j
                        /\ x \in d3 <=> x + 24 \in j
  <2> DEFINE k == Joined(d0, d1, d2, d3)
  <2>1. \A x \in 0 .. 7 : /\ x \in d0 <=> x \in k
                          /\ x \in d1 <=> x + 8 \in k
                          /\ x \in d2 <=> x + 16 \in k
                          /\ x \in d3 <=> x + 24 \in k
    BY <1>1, <1>3
  <2>2. k = j
    BY <1>1
  <2> HIDE DEF k, j
  <2> QED BY <2>1, <2>2
<1> HIDE DEF j
<1>6. \A b \in Byte : b \subseteq 0 .. 7
  BY DEF Byte, Below
<1>7. \A x \in 0 .. 7 : (x \in c0 <=> x \in d0) /\ (x \in c1 <=> x \in d1)
                         /\ (x \in c2 <=> x \in d2) /\ (x \in c3 <=> x \in d3)
  BY <1>4, <1>5
<1>8. c0 = d0
  BY <1>1, <1>6, <1>7
<1>9. c1 = d1
  BY <1>1, <1>6, <1>7
<1>10. c2 = d2
  BY <1>1, <1>6, <1>7
<1>11. c3 = d3
  BY <1>1, <1>6, <1>7
<1> QED BY <1>8, <1>9, <1>10, <1>11

\* The parts of a block.
LEMMA BlockParts ==
    ASSUME NEW s \in Seq(Byte), NEW n \in Nat, Len(s) = n + 5
    PROVE  /\ Covered(s, n) \in Seq(Byte) /\ Len(Covered(s, n)) = n + 1
           /\ \A i \in 1 .. n + 1 : Covered(s, n)[i] = s[i]
           /\ s[n + 2] \in Byte /\ s[n + 3] \in Byte /\ s[n + 4] \in Byte /\ s[n + 5] \in Byte
           /\ Carried(s, n) \in Words
           /\ DecodeFixed32(SubSeq(s, n + 2, n + 5)) = Carried(s, n)
<1>1. /\ n + 2 \in 1 .. Len(s) /\ n + 3 \in 1 .. Len(s) /\ n + 4 \in 1 .. Len(s) /\ n + 5 \in 1 .. Len(s)
      /\ 1 .. n + 1 \subseteq 1 .. Len(s) /\ n + 1 \in Nat
  OBVIOUS
<1>2. s[n + 2] \in Byte /\ s[n + 3] \in Byte /\ s[n + 4] \in Byte /\ s[n + 5] \in Byte
  BY <1>1
<1>3. /\ Covered(s, n) \in Seq(Byte) /\ Len(Covered(s, n)) = n + 1
      /\ \A i \in 1 .. n + 1 : Covered(s, n)[i] = s[i]
  <2> DEFINE m == n + 1
             c == SubSeq(s, 1, m)
  <2>1. c = [i \in 1 .. m - 1 + 1 |-> s[i + 1 - 1]]
    BY <1>1
  <2>2. m - 1 + 1 = m /\ m \in Nat /\ \A i \in 1 .. m : i + 1 - 1 = i /\ s[i] \in Byte
    BY <1>1
  <2> HIDE DEF m, c
  <2>3. c = [i \in 1 .. m |-> s[i]]
    BY <2>1, <2>2
  <2>4. c \in Seq(Byte) /\ Len(c) = m /\ \A i \in 1 .. m : c[i] = s[i]
    BY <2>2, <2>3
  <2> QED BY <2>4 DEF m, c, Covered
<1> DEFINE buf == SubSeq(s, n + 2, n + 5)
<1>4. buf[1] = s[n + 2] /\ buf[2] = s[n + 3] /\ buf[3] = s[n + 4] /\ buf[4] = s[n + 5]
  <2>1. buf = [i \in 1 .. (n + 5) - (n + 2) + 1 |-> s[i + (n + 2) - 1]]
    BY <1>1
  <2>2. /\ 1 + (n + 2) - 1 = n + 2 /\ 2 + (n + 2) - 1 = n + 3 /\ 3 + (n + 2) - 1 = n + 4
        /\ 4 + (n + 2) - 1 = n + 5 /\ (n + 5) - (n + 2) + 1 = 4
        /\ 1 \in 1 .. 4 /\ 2 \in 1 .. 4 /\ 3 \in 1 .. 4 /\ 4 \in 1 .. 4
    OBVIOUS
  <2> HIDE DEF buf
  <2> QED BY <2>1, <2>2
<1> HIDE DEF buf
<1>5. DecodeFixed(buf, 4) = Joined(buf[1], buf[2], buf[3], buf[4])
  BY <1>2, <1>4, DecodeIsJoined
<1>6. DecodeFixed32(buf) = Carried(s, n)
  BY <1>4, <1>5 DEF DecodeFixed32, Carried
<1>7. Carried(s, n) \in Words
  <2> DEFINE b1 == s[n + 2]
             b2 == s[n + 3]
             b3 == s[n + 4]
             b4 == s[n + 5]
  <2>1. b1 \in Byte /\ b2 \in Byte /\ b3 \in Byte /\ b4 \in Byte
    BY <1>2
  <2> HIDE DEF b1, b2, b3, b4
  <2>2. Joined(b1, b2, b3, b4) \in Words
    BY <2>1, XorIsWord, WordIsFourBytes
  <2> QED BY <2>2 DEF b1, b2, b3, b4, Carried
<1> QED BY <1>2, <1>3, <1>6, <1>7 DEF buf

\* Reading accepts a block when the checksum it carries is that of what is covered.
LEMMA ReadBlockIs ==
    ASSUME stored \in Seq(Byte), NEW n \in Nat, Len(stored) = n + 5, NEW address \in Nat
    PROVE  ReadBlock(address) = IF Unmask(Carried(stored, n)) = Reference(Covered(stored, n))
                                THEN "kSuccess" ELSE "kInvalidObject"
<1> DEFINE s == stored
           c == Covered(s, n)
<1>1. Length = n /\ s \in Seq(Byte) /\ Len(s) = n + 5
  BY DEF Length
<1>2. ReadBlock(address) = IF Unmask(DecodeFixed32(SubSeq(s, n + 2, n + 5))) = Extend({}, c, address)
                           THEN "kSuccess" ELSE "kInvalidObject"
  BY <1>1 DEF ReadBlock, Covered
<1> HIDE DEF s
<1>3. DecodeFixed32(SubSeq(s, n + 2, n + 5)) = Carried(s, n) /\ c \in Seq(Byte)
  BY <1>1, BlockParts
<1> HIDE DEF c
<1>4. Extend({}, c, address) = Reference(c)
  <2>1. <<>> \in Seq(Byte)
    OBVIOUS
  <2> QED BY <1>3, <2>1, ExtendTheorem
<1>5. ReadBlock(address) = IF Unmask(Carried(s, n)) = Reference(c) THEN "kSuccess" ELSE "kInvalidObject"
  BY <1>2, <1>3, <1>4
<1> QED BY <1>5 DEF s, c

\* A block as it was written carries its checksum.
Intact(w, n) == w \in Seq(Byte) /\ n \in Nat /\ Len(w) = n + 5 /\ Unmask(Carried(w, n)) = Reference(Covered(w, n))

\* One byte of it has changed.
Changed(s, w, n) ==
    /\ s \in Seq(Byte) /\ Len(s) = n + 5
    /\ \E i \in 1 .. n + 5 : s[i] # w[i] /\ \A j \in 1 .. n + 5 : j # i => s[j] = w[j]

\* Then it does not.
LEMMA ChangeShows ==
    ASSUME NEW w, NEW n, Intact(w, n), NEW s, Changed(s, w, n)
    PROVE  Unmask(Carried(s, n)) # Reference(Covered(s, n))
<1>1. n \in Nat /\ w \in Seq(Byte) /\ Len(w) = n + 5 /\ s \in Seq(Byte) /\ Len(s) = n + 5
  BY DEF Intact, Changed
<1>2. PICK i \in 1 .. n + 5 : s[i] # w[i] /\ \A j \in 1 .. n + 5 : j # i => s[j] = w[j]
  BY DEF Changed
<1> DEFINE a == Covered(w, n)
           b == Covered(s, n)
<1>3. /\ a \in Seq(Byte) /\ Len(a) = n + 1 /\ \A j \in 1 .. n + 1 : a[j] = w[j]
      /\ b \in Seq(Byte) /\ Len(b) = n + 1 /\ \A j \in 1 .. n + 1 : b[j] = s[j]
  BY <1>1, BlockParts
<1>4. Carried(w, n) \in Words /\ Carried(s, n) \in Words
  BY <1>1, BlockParts
<1>5. Unmask(Carried(w, n)) = Reference(a)
  BY DEF Intact
<1> HIDE DEF a, b
<1>6. CASE i \in 1 .. n + 1
  <2>1. n + 2 # i /\ n + 3 # i /\ n + 4 # i /\ n + 5 # i /\ n + 2 \in 1 .. n + 5 /\ n + 3 \in 1 .. n + 5
        /\ n + 4 \in 1 .. n + 5 /\ n + 5 \in 1 .. n + 5
    BY <1>1, <1>6
  <2>2. Carried(s, n) = Carried(w, n)
    BY <1>2, <2>1 DEF Carried
  <2>3. /\ i \in 1 .. Len(a) /\ Len(a) = Len(b) /\ a[i] # b[i]
        /\ \A j \in 1 .. Len(a) : j # i => a[j] = b[j]
    <3>1. \A j \in 1 .. n + 1 : j \in 1 .. n + 5
      BY <1>1
    <3> QED BY <1>2, <1>3, <1>6, <3>1
  <2>4. Reference(a) # Reference(b)
    BY <1>3, <2>3, ByteCounts
  <2> QED BY <1>5, <2>2, <2>4 DEF b
<1>7. CASE i \in n + 2 .. n + 5
  <2>1. a = b
    <3>1. \A j \in 1 .. n + 1 : j \in 1 .. n + 5 /\ j # i
      BY <1>1, <1>7
    <3>2. \A j \in 1 .. n + 1 : a[j] = b[j]
      BY <1>2, <1>3, <3>1
    <3>3. Len(a) = Len(b) /\ \A j \in 1 .. Len(a) : a[j] = b[j]
      BY <1>3, <3>2
    <3> QED BY <1>3, <3>3, SeqEqual
  <2>2. Carried(s, n) # Carried(w, n)
    <3>1. /\ w[n + 2] \in Byte /\ w[n + 3] \in Byte /\ w[n + 4] \in Byte /\ w[n + 5] \in Byte
          /\ s[n + 2] \in Byte /\ s[n + 3] \in Byte /\ s[n + 4] \in Byte /\ s[n + 5] \in Byte
      BY <1>1, BlockParts
    <3>2. i = n + 2 \/ i = n + 3 \/ i = n + 4 \/ i = n + 5
      BY <1>1, <1>7
    <3>3. ~ (/\ s[n + 2] = w[n + 2] /\ s[n + 3] = w[n + 3]
             /\ s[n + 4] = w[n + 4] /\ s[n + 5] = w[n + 5])
      BY <1>2, <3>2
    <3> QED BY <3>1, <3>3, CarriedCounts
  <2>3. Unmask(Carried(s, n)) # Unmask(Carried(w, n))
    BY <1>4, <2>2, UnmaskMask
  <2> QED BY <1>5, <2>1, <2>3 DEF b
<1>8. i \in 1 .. n + 1 \/ i \in n + 2 .. n + 5
  BY <1>1
<1> QED BY <1>6, <1>7, <1>8

\* What WriteBytesBlock writes is intact.
LEMMA WrittenIsIntact ==
    ASSUME NEW data \in Seq(Byte), NEW type \in Byte, NEW address \in Nat
    PROVE  Intact(data \o Trailer(data, type, address), Len(data))
<1> DEFINE n     == Len(data)
           one   == <<type>>
           body  == data \o one
           c     == Reference(body)
           check == EncodeFixed(Mask(c), 4)
           w     == data \o Trailer(data, type, address)
<1>1. n \in Nat /\ one \in Seq(Byte) /\ Len(one) = 1 /\ one[1] = type
  OBVIOUS
<1>2. /\ body \in Seq(Byte) /\ Len(body) = n + 1 /\ body[n + 1] = type
      /\ \A i \in 1 .. n : body[i] = data[i]
  <2> HIDE DEF one
  <2>1. /\ body \in Seq(Byte) /\ Len(body) = n + Len(one)
        /\ \A i \in 1 .. n : body[i] = data[i]
        /\ \A i \in 1 .. Len(one) : body[n + i] = one[i]
    BY <1>1, ConcatBytes, Zenon
  <2> HIDE DEF body
  <2> QED BY <1>1, <2>1
<1>3. c \in Words
  <2> HIDE DEF body
  <2> QED BY <1>1, <1>2, ExtendTheorem
<1>4. Trailer(data, type, address) = one \o check
  <2>1. Extend({}, data, address) = Reference(data) /\ 0 \in Nat
    BY ExtendTheorem
  <2>2. Extend(Reference(data), one, 0) = Reference(data \o one)
    <3> HIDE DEF one
    <3> QED BY <1>1, ExtendTheorem
  <2> QED BY <2>1, <2>2 DEF Trailer, EncodeFixed32
<1> HIDE DEF c
<1>5. Mask(c) \in Words /\ Unmask(Mask(c)) = c /\ 8 * 4 = 32
  BY <1>3, UnmaskMask
<1>6. check \in Seq(Byte) /\ Len(check) = 4
  BY FixedBytes
<1>7. \A i \in 1 .. 4 : check[i] \in Byte
  BY <1>6
<1> HIDE DEF one, check
<1>8. /\ w \in Seq(Byte) /\ Len(w) = n + 5
      /\ \A i \in 1 .. n : w[i] = data[i]
      /\ w[n + 1] = type
      /\ w[n + 2] = check[1] /\ w[n + 3] = check[2] /\ w[n + 4] = check[3] /\ w[n + 5] = check[4]
  <2> DEFINE t == one \o check
  <2>1. /\ t \in Seq(Byte) /\ Len(t) = 5 /\ t[1] = type
        /\ t[2] = check[1] /\ t[3] = check[2] /\ t[4] = check[3] /\ t[5] = check[4]
    <3>1. /\ t \in Seq(Byte) /\ Len(t) = Len(one) + Len(check)
          /\ \A i \in 1 .. Len(one) : t[i] = one[i]
          /\ \A i \in 1 .. Len(check) : t[Len(one) + i] = check[i]
      BY <1>1, <1>6, ConcatBytes, Zenon
    <3> HIDE DEF t
    <3>2. /\ 1 + 1 = 2 /\ 1 + 2 = 3 /\ 1 + 3 = 4 /\ 1 + 4 = 5
          /\ 1 \in 1 .. 4 /\ 2 \in 1 .. 4 /\ 3 \in 1 .. 4 /\ 4 \in 1 .. 4
      OBVIOUS
    <3>3. \A i \in 1 .. 4 : t[1 + i] = check[i]
      BY <1>1, <1>6, <3>1
    <3>4. t[2] = check[1] /\ t[3] = check[2] /\ t[4] = check[3] /\ t[5] = check[4]
      BY <3>2, <3>3
    <3> QED BY <1>1, <1>6, <3>1, <3>4
  <2> HIDE DEF t
  <2>2. w = data \o t
    BY <1>4 DEF t
  <2>3. /\ w \in Seq(Byte) /\ Len(w) = n + Len(t)
        /\ \A i \in 1 .. n : w[i] = data[i]
        /\ \A i \in 1 .. Len(t) : w[n + i] = t[i]
    <3> HIDE DEF w
    <3>1. /\ data \o t \in Seq(Byte) /\ Len(data \o t) = n + Len(t)
          /\ \A i \in 1 .. n : (data \o t)[i] = data[i]
          /\ \A i \in 1 .. Len(t) : (data \o t)[n + i] = t[i]
      BY <2>1, ConcatBytes, Zenon
    <3> QED BY <2>2, <3>1
  <2> HIDE DEF w
  <2>4. 1 \in 1 .. 5 /\ 2 \in 1 .. 5 /\ 3 \in 1 .. 5 /\ 4 \in 1 .. 5 /\ 5 \in 1 .. 5
    OBVIOUS
  <2>5. \A k \in 1 .. 5 : w[n + k] = t[k]
    BY <2>1, <2>3
  <2>6. w[n + 1] = t[1] /\ w[n + 2] = t[2] /\ w[n + 3] = t[3] /\ w[n + 4] = t[4] /\ w[n + 5] = t[5]
    BY <2>4, <2>5
  <2> QED BY <2>1, <2>3, <2>6
<1> HIDE DEF w
<1>9. Covered(w, n) = body
  <2>1. /\ Covered(w, n) \in Seq(Byte) /\ Len(Covered(w, n)) = n + 1
        /\ \A i \in 1 .. n + 1 : Covered(w, n)[i] = w[i]
    BY <1>1, <1>8, BlockParts
  <2> DEFINE v == Covered(w, n)
  <2> HIDE DEF v, body
  <2>2. \A i \in 1 .. n + 1 : i = n + 1 \/ i \in 1 .. n
    BY <1>1
  <2>3. v \in Seq(Byte) /\ Len(v) = n + 1 /\ \A i \in 1 .. n + 1 : v[i] = body[i]
    BY <1>2, <1>8, <2>1, <2>2 DEF v
  <2>4. v = body
    BY <1>2, <2>3, SeqEqual
  <2> QED BY <2>4 DEF v
<1>10. Carried(w, n) = Mask(c)
  <2> DEFINE m == Mask(c)
  <2>1. m \subseteq Below(8 * 4)
    BY <1>5 DEF Words
  <2>2. \A i \in 1 .. 4 : check[i] = EncodeFixed(m, 4)[i]
    BY DEF check
  <2> HIDE DEF m
  <2>3. DecodeFixed(check, 4) = m
    BY <2>1, <2>2, BytesMakeValue
  <2>4. DecodeFixed(check, 4) = Joined(check[1], check[2], check[3], check[4])
    <3>1. check[1] \in Byte /\ check[2] \in Byte /\ check[3] \in Byte /\ check[4] \in Byte
      BY <1>7
    <3> QED BY <3>1, DecodeIsJoined
  <2>5. Carried(w, n) = Joined(check[1], check[2], check[3], check[4])
    BY <1>8 DEF Carried
  <2> QED BY <2>3, <2>4, <2>5 DEF m
<1>11. Unmask(Carried(w, n)) = Reference(Covered(w, n))
  BY <1>5, <1>9, <1>10 DEF c
<1> QED BY <1>1, <1>8, <1>11 DEF Intact, w

\* The inductive invariant: what is on disk is what was written, or has one
\* byte that is not.
Whole(data, type, address) == data \o Trailer(data, type, address)

BlockIInv ==
    /\ damaged \in BOOLEAN
    /\ stored = <<>> => damaged = FALSE
    /\ stored # <<>> =>
          \E data \in Blocks, type \in BlockTypes, address \in 0 .. 3 :
             IF damaged THEN Changed(stored, Whole(data, type, address), Len(data))
             ELSE stored = Whole(data, type, address)

\* What is written by the specification is intact.
LEMMA WholeIsIntact ==
    \A data \in Blocks, type \in BlockTypes, address \in 0 .. 3 :
       Intact(Whole(data, type, address), Len(data))
<1> SUFFICES ASSUME NEW data \in Blocks, NEW type \in BlockTypes, NEW address \in 0 .. 3
             PROVE  Intact(Whole(data, type, address), Len(data))
  OBVIOUS
<1>1. data \in Seq(Byte) /\ type \in Byte /\ address \in Nat
  BY BlocksAssumption DEF Byte
<1> QED BY <1>1, WrittenIsIntact DEF Whole

\* The invariant is enough.
LEMMA BlockIInvDecides == BlockIInv => ChecksumDecides
<1> SUFFICES ASSUME BlockIInv PROVE ChecksumDecides
  OBVIOUS
<1>1. ASSUME stored # <<>>, ~ damaged, NEW address \in 0 .. 3 PROVE ReadBlock(address) = "kSuccess"
  <2>1. PICK data \in Blocks, type \in BlockTypes, start \in 0 .. 3 : stored = Whole(data, type, start)
    BY <1>1 DEF BlockIInv
  <2> DEFINE n == Len(data)
  <2>2. Intact(stored, n)
    BY <2>1, WholeIsIntact
  <2> HIDE DEF n
  <2>3. stored \in Seq(Byte) /\ n \in Nat /\ Len(stored) = n + 5 /\ address \in Nat
        /\ Unmask(Carried(stored, n)) = Reference(Covered(stored, n))
    BY <2>2 DEF Intact
  <2> QED BY <2>3, ReadBlockIs
<1>2. ASSUME damaged, NEW address \in 0 .. 3 PROVE ReadBlock(address) = "kInvalidObject"
  <2>1. PICK data \in Blocks, type \in BlockTypes, start \in 0 .. 3 :
           Changed(stored, Whole(data, type, start), Len(data))
    BY <1>2 DEF BlockIInv
  <2> DEFINE n == Len(data)
             w == Whole(data, type, start)
  <2>2. Intact(w, n) /\ Changed(stored, w, n)
    BY <2>1, WholeIsIntact
  <2> HIDE DEF n, w
  <2>3. stored \in Seq(Byte) /\ n \in Nat /\ Len(stored) = n + 5 /\ address \in Nat
    BY <2>2 DEF Intact, Changed
  <2>4. Unmask(Carried(stored, n)) # Reference(Covered(stored, n))
    BY <2>2, ChangeShows
  <2> QED BY <2>3, <2>4, ReadBlockIs
<1> QED BY <1>1, <1>2 DEF ChecksumDecides, WrittenBlockIsRead, DamageIsNoticed

\* A written block establishes it.
LEMMA WriteBytesBlockIInv == BlockIInv /\ WriteBytesBlock => BlockIInv'
<1> SUFFICES ASSUME BlockIInv, WriteBytesBlock PROVE BlockIInv'
  OBVIOUS
<1>1. PICK data \in Blocks, type \in BlockTypes, address \in 0 .. 3 : stored' = Whole(data, type, address)
  BY DEF WriteBytesBlock, Whole
<1>2. damaged' = FALSE
  BY DEF WriteBytesBlock, BlockIInv
<1> QED BY <1>1, <1>2 DEF BlockIInv

\* A byte that changes preserves it.
LEMMA DamageIInv == BlockIInv /\ Damage => BlockIInv'
<1> SUFFICES ASSUME BlockIInv, Damage PROVE BlockIInv'
  OBVIOUS
<1>1. stored # <<>> /\ ~ damaged /\ damaged' = TRUE
  BY DEF Damage
<1>2. PICK data \in Blocks, type \in BlockTypes, address \in 0 .. 3 : stored = Whole(data, type, address)
  BY <1>1 DEF BlockIInv
<1>3. PICK i \in 1 .. Len(stored), mask \in DamageMasks : stored' = [stored EXCEPT ![i] = Xor(stored[i], mask)]
  BY DEF Damage
<1> DEFINE n == Len(data)
           w == Whole(data, type, address)
           s == stored'
           x == Xor(w[i], mask)
<1>4. Intact(w, n)
  BY WholeIsIntact
<1>5. w \in Seq(Byte) /\ n \in Nat /\ Len(w) = n + 5 /\ i \in 1 .. n + 5 /\ s = [w EXCEPT ![i] = x]
  BY <1>2, <1>3, <1>4 DEF Intact
<1> HIDE DEF n, w, s
<1>6. mask \in Byte /\ mask # {}
  BY BlocksAssumption DEF Byte
<1>7. w[i] \in Byte /\ x \in Byte /\ x # w[i]
  <2>1. w[i] \in Byte
    BY <1>5
  <2>2. x \in Byte
    BY <1>6, <2>1 DEF Xor, Byte
  <2>3. x # w[i]
    BY <1>6, XorAlgebra
  <2> QED BY <2>1, <2>2, <2>3
<1> HIDE DEF x
<1>8. s \in Seq(Byte) /\ Len(s) = n + 5 /\ s[i] = x /\ \A j \in 1 .. n + 5 : j # i => s[j] = w[j]
  BY <1>5, <1>7
<1>9. Changed(s, w, n)
  BY <1>5, <1>7, <1>8 DEF Changed
<1>10. s # <<>>
  BY <1>5, <1>8
<1>11. Changed(stored', Whole(data, type, address), Len(data)) /\ stored' # <<>>
  BY <1>9, <1>10 DEF s, w, n
<1> QED BY <1>1, <1>11 DEF BlockIInv

\* ReadBlock (src/src/table/table.cpp): a block that is read as it was written
\* is accepted, and one of which any one byte differs is refused, for all data
\* and wherever the buffers begin.
THEOREM BlockTheorem == BlockSpec => []ChecksumDecides
<1>1. BlockInit => BlockIInv
  BY DEF BlockInit, BlockIInv
<1>2. BlockIInv /\ [BlockNext]_block_vars => BlockIInv'
  <2>1. BlockIInv /\ UNCHANGED block_vars => BlockIInv'
    BY DEF block_vars, BlockIInv
  <2> QED BY <2>1, WriteBytesBlockIInv, DamageIInv DEF BlockNext
<1> QED BY <1>1, <1>2, BlockIInvDecides, PTL DEF BlockSpec
==============================================================================
