---------------------------- MODULE BloomFilter -----------------------------
(***************************************************************************)
(* BloomFilter (src/src/filter/bloomfilter.cpp): bit arrays that tell of a *)
(* key whether it may have been added.  One policy object serves every     *)
(* table built with the same Options, and appends each table's array to    *)
(* the one string bloomfilter_data_, a sequence of bits here.              *)
(***************************************************************************)
EXTENDS Integers, Sequences, FiniteSets

CONSTANTS HashOf,      \* SimMurMurHash of every key
          ShiftRight, ShiftLeft, \* 2^17 and 2^15, which Delta divides and multiplies by
          BitsPerKey,  \* bits_per_key_
          MinBits,     \* 64, the least size of an array
          ByteBits     \* 8

HashModulus == ShiftRight * ShiftLeft

ASSUME HashAssumption == \A k \in DOMAIN HashOf : HashOf[k] \in 0 .. HashModulus - 1
ASSUME ShiftAssumption == ShiftRight \in Nat \ {0} /\ ShiftLeft \in Nat \ {0}
ASSUME BitsAssumption == BitsPerKey \in Nat /\ MinBits \in Nat \ {0} /\ ByteBits \in Nat \ {0}

\* CalcHashNum: bits_per_key_ * ln(2), from 1 to 30.
HashNum ==
    LET n == (BitsPerKey * 69315) \div 100000 IN
    IF n < 1 THEN 1 ELSE IF n > 30 THEN 30 ELSE n

\* Double hashing: the j-th bit is at (hash + j * delta) % bits, and delta is
\* the hash rotated.
Delta(h) == (h \div ShiftRight) + ((h * ShiftLeft) % HashModulus)

Positions(k, bits, hash_num) ==
    {((HashOf[k] + j * Delta(HashOf[k])) % HashModulus) % bits : j \in 0 .. hash_num - 1}

\* Mutant: the bits are placed before their number is rounded up to bytes.
ModulusUnrounded(n) == IF n * BitsPerKey < MinBits THEN MinBits ELSE n * BitsPerKey

WholeBytes(bits) == ((bits + ByteBits - 1) \div ByteBits) * ByteBits

\* The number of bits of a filter of n keys, ...
Modulus(n) ==
    WholeBytes(IF n * BitsPerKey < MinBits THEN MinBits ELSE n * BitsPerKey)

\* ... by which positions are taken: CreateFilter appends a new array to data.
CreateFilter(data, keys) ==
    LET n    == Cardinality(keys)
        ones == UNION {Positions(k, Modulus(n), HashNum) : k \in keys}
    IN  data \o [i \in 1 .. WholeBytes(Modulus(n)) |-> i - 1 \in ones]

\* MayMatch(key, start_pos, len): an array in the policy's own data; the rest of
\* the data if len is 0.
MayMatchAt(k, data, start, len) ==
    LET n == IF len = 0 THEN Len(data) - start ELSE len IN
    /\ start < Len(data)
    /\ \A p \in Positions(k, n, HashNum) : data[start + p + 1]

\* MayMatch(key, bf_datas), which takes all the bits for one array.
MayMatch(k, bits, hash_num) ==
    hash_num > 30 \/ \A p \in Positions(k, Len(bits), hash_num) : bits[p + 1]
=============================================================================
