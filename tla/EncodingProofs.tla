--------------------------- MODULE EncodingProofs ---------------------------
(***************************************************************************)
(* Proofs about the encodings: CodecStream, for every list of values of    *)
(* each width and every slice shorter than 2^32 bytes, and ManifestCodec,  *)
(* for every list of batches of additions and removals.                    *)
(*                                                                         *)
(* What a recursive function computes for every argument is an induction   *)
(* on its argument, done here with the least argument it fails at.         *)
(***************************************************************************)
EXTENDS CodecStream, ManifestCodec, SequenceTheorems, FiniteSetTheorems, WellFoundedInduction, TLAPS

\* A non-empty set of natural numbers has a least element.
LEMMA LeastOf ==
    ASSUME NEW T, T \subseteq Nat, T # {}
    PROVE  Min(T) \in T /\ \A y \in T : Min(T) <= y
<1>1. PICK x \in T : \A y \in T : ~ (<<y, x>> \in OpToRel(<, Nat))
  BY WFMin, NatLessThanWellFounded
<1>2. \A y \in T : x <= y
  <2> SUFFICES ASSUME NEW y \in T, y < x PROVE FALSE
    OBVIOUS
  <2>1. <<y, x>> \in {ss \in Nat \X Nat : ss[1] < ss[2]}
    OBVIOUS
  <2>2. <<y, x>> \in OpToRel(<, Nat)
    BY <2>1 DEF OpToRel
  <2> QED BY <1>1, <2>2
<1> QED BY <1>2 DEF Min

\* So it is the least element whatever says so.
LEMMA LeastIs ==
    ASSUME NEW T, T \subseteq Nat, NEW x \in T, \A y \in T : x <= y
    PROVE  Min(T) = x
<1>1. Min(T) \in T /\ \A y \in T : Min(T) <= y
  BY LeastOf
<1>2. Min(T) \in Nat /\ x \in Nat /\ Min(T) <= x /\ x <= Min(T)
  BY <1>1
<1> QED BY <1>2

\* In particular the only one.
LEMMA LeastOfOne ==
    ASSUME NEW x \in Nat
    PROVE  Min({x}) = x
<1> DEFINE T == {x}
<1>1. T \subseteq Nat /\ x \in T /\ \A y \in T : x <= y
  OBVIOUS
<1>2. Min(T) = x
  <2> HIDE DEF T
  <2> QED BY <1>1, LeastIs
<1> QED BY <1>2

\* What holds at 0, and at every number when it does at the one before, holds
\* up to n.
LEMMA UpTo ==
    ASSUME NEW n \in Nat, NEW T, 0 \in T, \A i \in 1 .. n : i - 1 \in T => i \in T
    PROVE  \A i \in 0 .. n : i \in T
<1> DEFINE F == {i \in 0 .. n : i \notin T}
<1> SUFFICES ASSUME F # {} PROVE FALSE
  OBVIOUS
<1>1. PICK k \in F : \A y \in F : k <= y
  <2>1. F \subseteq Nat
    OBVIOUS
  <2> HIDE DEF F
  <2> QED BY <2>1, LeastOf
<1>2. k \in 0 .. n /\ k \notin T /\ k # 0
  BY <1>1
<1>3. k - 1 \in 0 .. n /\ k \in 1 .. n /\ k - 1 < k
  BY <1>2
<1>4. k - 1 \in T
  BY <1>1, <1>3
<1> QED BY <1>2, <1>3, <1>4

\* Steps from a base, in a set, and what there is after each of them.
AreSteps(step, base, n, S) == n \in Nat /\ base \in S /\ step \in [1 .. n -> [S -> S]]

Takes(f, step, base, n, S) ==
    f \in [0 .. n -> S] /\ f[0] = base /\ \A i \in 1 .. n : f[i] = step[i][f[i - 1]]

\* A function that is defined by its value at 0 and a step is there.
LEMMA StepsExist ==
    ASSUME NEW S, NEW base, NEW n, NEW step, AreSteps(step, base, n, S)
    PROVE  \E f : Takes(f, step, base, n, S)
<1> USE DEF AreSteps
<1> DEFINE Good(k, f) == f[0] = base /\ \A i \in 1 .. k : f[i] = step[i][f[i - 1]]
           T == {k \in 0 .. n : \E f \in [0 .. k -> S] : Good(k, f)}
<1>1. 0 \in T
  <2> DEFINE f == [i \in 0 .. 0 |-> base]
  <2>1. f \in [0 .. 0 -> S] /\ f[0] = base /\ 1 .. 0 = {}
    OBVIOUS
  <2> HIDE DEF f
  <2>2. Good(0, f)
    BY <2>1
  <2> QED BY <2>1, <2>2
<1>2. ASSUME NEW k \in 1 .. n, k - 1 \in T PROVE k \in T
  <2>1. PICK f \in [0 .. k - 1 -> S] : Good(k - 1, f)
    BY <1>2
  <2> DEFINE g == [i \in 0 .. k |-> IF i = k THEN step[k][f[k - 1]] ELSE f[i]]
  <2>2. k \in Nat /\ k # 0 /\ k - 1 \in 0 .. k - 1 /\ k \in 0 .. n
    OBVIOUS
  <2>3. f[k - 1] \in S
    BY <2>2
  <2>4. step[k][f[k - 1]] \in S
    BY <2>3
  <2>5. g \in [0 .. k -> S]
    BY <2>4
  <2>6. g[k] = step[k][f[k - 1]] /\ \A i \in 0 .. k - 1 : g[i] = f[i]
    OBVIOUS
  <2> HIDE DEF g
  <2>7. g[0] = base
    BY <2>1, <2>2, <2>6
  <2>8. ASSUME NEW i \in 1 .. k PROVE g[i] = step[i][g[i - 1]]
    <3>1. i - 1 \in 0 .. k - 1
      OBVIOUS
    <3>2. CASE i = k
      BY <2>6, <3>1, <3>2
    <3>3. CASE i # k
      <4>1. i \in 1 .. k - 1 /\ i \in 0 .. k - 1
        BY <3>3
      <4> QED BY <2>1, <2>6, <3>1, <4>1
    <3> QED BY <3>2, <3>3
  <2> QED BY <2>2, <2>5, <2>7, <2>8
<1> HIDE DEF T
<1>3. \A k \in 0 .. n : k \in T
  <2>1. \A k \in 1 .. n : k - 1 \in T => k \in T
    BY <1>2
  <2> QED BY <1>1, <2>1, UpTo
<1>4. n \in T
  BY <1>3
<1> QED BY <1>4 DEF T, Takes

-----------------------------------------------------------------------------
(* What is left of a string                                                *)

\* The rest of an input behind its first n bytes.
LEMMA RestOf ==
    ASSUME NEW S, NEW s \in Seq(S), NEW n \in 0 .. Len(s)
    PROVE  /\ SubSeq(s, n + 1, Len(s)) \in Seq(S)
           /\ Len(SubSeq(s, n + 1, Len(s))) = Len(s) - n
           /\ \A i \in 1 .. Len(s) - n : SubSeq(s, n + 1, Len(s))[i] = s[n + i]
<1>1. \A i \in n + 1 .. Len(s) : s[i] \in S
  OBVIOUS
<1>2. n + 1 \in Int /\ Len(s) \in Int
  OBVIOUS
<1>3. /\ SubSeq(s, n + 1, Len(s)) \in Seq(S)
      /\ Len(SubSeq(s, n + 1, Len(s))) = IF n + 1 <= Len(s) THEN Len(s) - (n + 1) + 1 ELSE 0
      /\ \A i \in 1 .. Len(s) - (n + 1) + 1 : SubSeq(s, n + 1, Len(s))[i] = s[(n + 1) + i - 1]
  BY <1>1, <1>2, SubSeqProperties
<1>4. Len(SubSeq(s, n + 1, Len(s))) = Len(s) - n
  BY <1>3
<1>5. \A i \in 1 .. Len(s) - n : i \in 1 .. Len(s) - (n + 1) + 1 /\ (n + 1) + i - 1 = n + i
  OBVIOUS
<1> QED BY <1>3, <1>4, <1>5

\* What is behind the next n bytes of that.
LEMMA RestOfRest ==
    ASSUME NEW S, NEW s \in Seq(S), NEW m \in 0 .. Len(s), NEW n \in 0 .. Len(s) - m
    PROVE  SubSeq(SubSeq(s, m + 1, Len(s)), n + 1, Len(SubSeq(s, m + 1, Len(s))))
             = SubSeq(s, (m + n) + 1, Len(s))
<1> DEFINE t == SubSeq(s, m + 1, Len(s))
           a == SubSeq(t, n + 1, Len(t))
           b == SubSeq(s, (m + n) + 1, Len(s))
<1>1. t \in Seq(S) /\ Len(t) = Len(s) - m /\ \A i \in 1 .. Len(s) - m : t[i] = s[m + i]
  BY RestOf
<1> HIDE DEF t
<1>2. n \in 0 .. Len(t) /\ m + n \in 0 .. Len(s)
  BY <1>1
<1>3. a \in Seq(S) /\ Len(a) = Len(t) - n /\ \A i \in 1 .. Len(t) - n : a[i] = t[n + i]
  BY <1>1, <1>2, RestOf
<1>4. b \in Seq(S) /\ Len(b) = Len(s) - (m + n) /\ \A i \in 1 .. Len(s) - (m + n) : b[i] = s[(m + n) + i]
  BY <1>2, RestOf
<1> HIDE DEF a, b
<1>5. Len(a) = Len(b) /\ Len(a) \in Nat
  BY <1>1, <1>2, <1>3, <1>4
<1>6. \A i \in 1 .. Len(a) : a[i] = b[i]
  <2> SUFFICES ASSUME NEW i \in 1 .. Len(a) PROVE a[i] = b[i]
    OBVIOUS
  <2>1. n + i \in 1 .. Len(s) - m /\ m + (n + i) = (m + n) + i
    BY <1>1, <1>2, <1>3
  <2>2. i \in 1 .. Len(t) - n /\ i \in 1 .. Len(s) - (m + n)
    BY <1>3, <1>4, <1>5
  <2>3. a[i] = t[n + i] /\ b[i] = s[(m + n) + i]
    BY <1>3, <1>4, <2>2
  <2> QED BY <1>1, <2>1, <2>3
<1>7. a = b
  <2>1. a \in Seq(S) /\ b \in Seq(S)
    BY <1>3, <1>4
  <2> QED BY ONLY <1>5, <1>6, <2>1, SeqEqual
<1> QED BY <1>7 DEF a, b, t

-----------------------------------------------------------------------------
(* Word: the binary notation                                               *)

\* Word up to n, on its own.
IsWord(f, n) ==
    /\ f \in [0 .. n -> SUBSET Nat]
    /\ \A m \in 0 .. n :
          f[m] = IF m = 0 THEN {}
                 ELSE {bit + 1 : bit \in f[m \div 2]} \cup (IF m % 2 = 1 THEN {0} ELSE {})

\* There is only one.
LEMMA WordUnique ==
    ASSUME NEW a \in Nat, NEW b \in Nat, NEW f, NEW g, IsWord(f, a), IsWord(g, b),
           NEW m \in Nat, m <= a, m <= b
    PROVE  f[m] = g[m]
<1> DEFINE T == {k \in 0 .. m : f[k] # g[k]}
<1> SUFFICES ASSUME T # {} PROVE FALSE
  OBVIOUS
<1> DEFINE k == Min(T)
<1>1. k \in T /\ \A y \in T : k <= y
  BY LeastOf
<1> HIDE DEF k
<1>2. k \in 0 .. m /\ f[k] # g[k] /\ (k # 0 => k \div 2 \in 0 .. m /\ k \div 2 < k)
  BY <1>1
<1>3. k # 0 => f[k \div 2] = g[k \div 2]
  BY <1>1, <1>2
<1>4. k \in 0 .. a /\ k \in 0 .. b
  BY <1>2
<1> QED BY <1>2, <1>3, <1>4 DEF IsWord

\* There is one up to every number.
LEMMA WordExists ==
    ASSUME NEW n \in Nat
    PROVE  \E f : IsWord(f, n)
<1> DEFINE T == {k \in Nat : ~ \E f : IsWord(f, k)}
<1> SUFFICES ASSUME T # {} PROVE FALSE
  OBVIOUS
<1> DEFINE k == Min(T)
<1>1. k \in T /\ \A y \in T : k <= y
  BY LeastOf
<1> HIDE DEF k
<1>2. k \in Nat /\ ~ \E f : IsWord(f, k)
  BY <1>1
<1>3. CASE k = 0
  <2> DEFINE f == [m \in 0 .. 0 |-> {}]
  <2>1. f \in [0 .. 0 -> SUBSET Nat] /\ \A m \in 0 .. 0 : m = 0 /\ f[m] = {}
    OBVIOUS
  <2> HIDE DEF f
  <2>2. IsWord(f, 0)
    BY <2>1 DEF IsWord
  <2> QED BY <1>2, <1>3, <2>2
<1>4. CASE k # 0
  <2>1. k - 1 \in Nat /\ k - 1 < k
    BY <1>2, <1>4
  <2>2. k - 1 \notin T
    BY <1>1, <2>1
  <2>3. PICK f : IsWord(f, k - 1)
    BY <2>1, <2>2
  <2> DEFINE top == {bit + 1 : bit \in f[k \div 2]} \cup (IF k % 2 = 1 THEN {0} ELSE {})
             g   == [m \in 0 .. k |-> IF m = k THEN top ELSE f[m]]
  <2>4. k \div 2 \in 0 .. k - 1 /\ f[k \div 2] \in SUBSET Nat
    BY <1>2, <1>4, <2>3 DEF IsWord
  <2>5. top \in SUBSET Nat
    BY <2>4
  <2>6. g \in [0 .. k -> SUBSET Nat]
    BY <1>2, <2>3, <2>5 DEF IsWord
  <2>7. g[k] = top /\ \A m \in 0 .. k - 1 : g[m] = f[m]
    BY <1>2
  <2>8. ASSUME NEW m \in 0 .. k
        PROVE  g[m] = IF m = 0 THEN {}
                      ELSE {bit + 1 : bit \in g[m \div 2]} \cup (IF m % 2 = 1 THEN {0} ELSE {})
    <3> HIDE DEF g
    <3>1. CASE m = k
      BY <1>4, <2>4, <2>7, <3>1
    <3>2. CASE m # k
      <4>1. m \in 0 .. k - 1 /\ (m # 0 => m \div 2 \in 0 .. k - 1)
        BY <1>2, <3>2
      <4>2. f[m] = IF m = 0 THEN {}
                   ELSE {bit + 1 : bit \in f[m \div 2]} \cup (IF m % 2 = 1 THEN {0} ELSE {})
        BY <2>3, <4>1 DEF IsWord
      <4> QED BY <2>7, <4>1, <4>2
    <3> QED BY <3>1, <3>2
  <2> HIDE DEF g
  <2>9. IsWord(g, k)
    BY <2>6, <2>8 DEF IsWord
  <2> QED BY <1>2, <2>9
<1> QED BY <1>3, <1>4

\* Word is what its definition says.
LEMMA WordDef ==
    /\ Word \in [Nat -> SUBSET Nat]
    /\ \A n \in Nat :
          Word[n] = IF n = 0 THEN {}
                    ELSE {bit + 1 : bit \in Word[n \div 2]} \cup (IF n % 2 = 1 THEN {0} ELSE {})
<1> DEFINE up(n) == CHOOSE f : IsWord(f, n)
           g     == [n \in Nat |-> up(n)[n]]
<1>1. \A n \in Nat : IsWord(up(n), n)
  BY WordExists
<1> HIDE DEF up
<1>2. g \in [Nat -> SUBSET Nat]
  BY <1>1 DEF IsWord
<1>3. ASSUME NEW n \in Nat
      PROVE  g[n] = IF n = 0 THEN {}
                    ELSE {bit + 1 : bit \in g[n \div 2]} \cup (IF n % 2 = 1 THEN {0} ELSE {})
  <2>1. g[n] = IF n = 0 THEN {}
               ELSE {bit + 1 : bit \in up(n)[n \div 2]} \cup (IF n % 2 = 1 THEN {0} ELSE {})
    <3>1. IsWord(up(n), n) /\ n \in 0 .. n /\ g[n] = up(n)[n]
      BY <1>1
    <3> QED BY <3>1 DEF IsWord
  <2>2. CASE n = 0
    BY <2>1, <2>2
  <2>3. CASE n # 0
    <3>1. n \div 2 \in Nat /\ n \div 2 <= n
      OBVIOUS
    <3>2. up(n)[n \div 2] = up(n \div 2)[n \div 2]
      BY <1>1, <3>1, WordUnique
    <3>3. g[n \div 2] = up(n \div 2)[n \div 2]
      BY <3>1
    <3> QED BY <2>1, <2>3, <3>2, <3>3
  <2> QED BY <2>2, <2>3
<1> HIDE DEF g
<1>4. g = [n \in Nat |-> IF n = 0 THEN {}
                         ELSE {bit + 1 : bit \in g[n \div 2]} \cup (IF n % 2 = 1 THEN {0} ELSE {})]
  BY <1>2, <1>3
<1>5. Word = [n \in Nat |-> IF n = 0 THEN {}
                  ELSE {bit + 1 : bit \in Word[n \div 2]} \cup (IF n % 2 = 1 THEN {0} ELSE {})]
  BY <1>4 DEF Word
<1>6. \A n \in Nat :
          Word[n] = IF n = 0 THEN {}
                    ELSE {bit + 1 : bit \in Word[n \div 2]} \cup (IF n % 2 = 1 THEN {0} ELSE {})
  BY <1>5
<1> DEFINE T == {n \in Nat : Word[n] \notin SUBSET Nat}
<1>7. T = {}
  <2> SUFFICES ASSUME T # {} PROVE FALSE
    OBVIOUS
  <2> DEFINE k == Min(T)
  <2>1. k \in T /\ \A y \in T : k <= y
    BY LeastOf
  <2> HIDE DEF k
  <2>2. k \in Nat /\ Word[k] \notin SUBSET Nat /\ (k # 0 => k \div 2 \in Nat /\ k \div 2 < k)
    BY <2>1
  <2>3. k # 0 => Word[k \div 2] \in SUBSET Nat
    BY <2>1, <2>2
  <2>4. k = 0 => Word[k] = {}
    BY <1>6, <2>2
  <2>5. k # 0 => Word[k] = {bit + 1 : bit \in Word[k \div 2]} \cup (IF k % 2 = 1 THEN {0} ELSE {})
    BY <1>6, <2>2
  <2>6. k # 0 => Word[k] \in SUBSET Nat
    BY <2>3, <2>5
  <2> QED BY <2>2, <2>4, <2>6
<1> QED BY <1>5, <1>6, <1>7

\* Numbers with the same bits are the same.
LEMMA WordInjective ==
    ASSUME NEW m \in Nat, NEW n \in Nat, Word[m] = Word[n]
    PROVE  m = n
<1> DEFINE T == {k \in Nat : \E l \in Nat : Word[k] = Word[l] /\ k # l}
<1> SUFFICES ASSUME T # {} PROVE FALSE
  OBVIOUS
<1> DEFINE k == Min(T)
<1>1. k \in T /\ \A y \in T : k <= y
  BY LeastOf
<1> HIDE DEF k
<1>2. PICK l \in Nat : k \in Nat /\ Word[k] = Word[l] /\ k # l
  BY <1>1
<1>3. ASSUME NEW x \in Nat
      PROVE  /\ x % 2 = 1 <=> 0 \in Word[x]
             /\ x \div 2 \in Nat
             /\ Word[x \div 2] = {b \in Nat : b + 1 \in Word[x]}
             /\ x = 2 * (x \div 2) + (x % 2) /\ x % 2 \in {0, 1}
             /\ x # 0 => x \div 2 < x
  <2>1. x \div 2 \in Nat /\ Word[x \div 2] \in SUBSET Nat
    BY WordDef
  <2>2. CASE x = 0
    <3>1. x \div 2 = 0 /\ x % 2 = 0
      BY <2>2
    <3> QED BY <2>2, <3>1, WordDef
  <2>3. CASE x # 0
    <3>1. Word[x] = {bit + 1 : bit \in Word[x \div 2]} \cup (IF x % 2 = 1 THEN {0} ELSE {})
      BY <2>3, WordDef
    <3>2. 0 \notin {bit + 1 : bit \in Word[x \div 2]}
      BY <2>1
    <3>3. Word[x \div 2] = {b \in Nat : b + 1 \in Word[x]}
      BY <2>1, <3>1
    <3> QED BY <2>1, <2>3, <3>1, <3>2, <3>3
  <2> QED BY <2>2, <2>3
<1>4. k % 2 = l % 2 /\ Word[k \div 2] = Word[l \div 2]
  BY <1>2, <1>3
<1>5. CASE k # 0
  <2>1. k \div 2 < k /\ k \div 2 \in Nat
    BY <1>2, <1>3, <1>5
  <2>2. k \div 2 = l \div 2
    BY <1>1, <1>2, <1>3, <1>4, <2>1
  <2> QED BY <1>2, <1>3, <1>4, <2>2
<1>6. CASE k = 0
  \* l has a bit: the least number with none but 0 has a half with none.
  <2> DEFINE Z == {x \in Nat : Word[x] = {} /\ x # 0}
  <2>1. Word[0] = {} /\ l \in Z
    BY <1>2, <1>6, WordDef
  <2> DEFINE z == Min(Z)
  <2>2. z \in Z /\ \A y \in Z : z <= y
    BY <2>1, LeastOf
  <2> HIDE DEF z
  <2>3. z \in Nat /\ z # 0 /\ Word[z] = {}
    BY <2>2
  <2>4. z \div 2 \in Nat /\ z \div 2 < z /\ Word[z \div 2] = {} /\ z % 2 = 0 /\ z = 2 * (z \div 2) + (z % 2)
    BY <1>3, <2>3
  <2>5. z \div 2 = 0
    BY <2>2, <2>4
  <2> QED BY <2>3, <2>4, <2>5
<1> QED BY <1>5, <1>6

-----------------------------------------------------------------------------
(* Varints                                                                 *)

Byte == SUBSET Below(8)

\* The lesser of two numbers.
LEMMA LesserOf ==
    ASSUME NEW a \in Nat, NEW b \in Nat
    PROVE  Min({a, b}) \in {a, b} /\ Min({a, b}) <= a /\ Min({a, b}) <= b
<1> DEFINE T == {a, b}
<1>1. T \subseteq Nat /\ T # {}
  OBVIOUS
<1>2. Min(T) \in T /\ \A y \in T : Min(T) <= y
  <2> HIDE DEF T
  <2> QED BY <1>1, LeastOf
<1> QED BY <1>2

\* Left of nothing of a word is the word, and a byte shifted to its place and
\* cut to a group comes from the bits at that place.
LEMMA GroupsBytes ==
    ASSUME NEW v, v \subseteq Nat, NEW n \in Nat
    PROVE  /\ Groups(v, n) \in Seq(Byte) /\ Len(Groups(v, n)) = n
           /\ \A i \in 1 .. n : /\ 7 \in Groups(v, n)[i] <=> i < n
                                /\ Groups(v, n)[i] \cap Below(7) = Group(v, i)
<1>1. \A i : Group(v, i) \subseteq Below(7) /\ 7 \notin Group(v, i)
  BY DEF Group, Below
<1>2. \A i \in 1 .. n : Groups(v, n)[i] = IF i < n THEN Group(v, i) \cup {7} ELSE Group(v, i)
  BY DEF Groups
<1>3. \A i \in 1 .. n : Groups(v, n)[i] \in Byte
  <2>1. Below(7) \subseteq Below(8) /\ 7 \in Below(8)
    BY DEF Below
  <2> QED BY <1>1, <1>2, <2>1 DEF Byte
<1>4. Groups(v, n) \in [1 .. n -> Byte]
  BY <1>3 DEF Groups
<1>5. Groups(v, n) \in Seq(Byte) /\ Len(Groups(v, n)) = n
  BY <1>4
<1>6. ASSUME NEW i \in 1 .. n
      PROVE  /\ 7 \in Groups(v, n)[i] <=> i < n
             /\ Groups(v, n)[i] \cap Below(7) = Group(v, i)
  <2>1. 7 \notin Below(7)
    BY DEF Below
  <2> QED BY <1>1, <1>2, <2>1
<1> QED BY <1>5, <1>6

\* The groups of an integer, put together, are the integer.
LEMMA GroupsMakeValue ==
    ASSUME NEW width \in Nat, NEW v, v \subseteq Below(width), NEW k \in Nat, v \subseteq Below(7 * k)
    PROVE  UNION {Left(Group(v, i), 7 * (i - 1), width) : i \in 1 .. k} = v
<1> DEFINE whole == UNION {Left(Group(v, i), 7 * (i - 1), width) : i \in 1 .. k}
<1>1. ASSUME NEW b \in v PROVE b \in whole
  <2> DEFINE i == (b \div 7) + 1
  <2>1. b \in Nat /\ b < 7 * k /\ b < width
    BY <1>1 DEF Below
  <2>2. b \div 7 \in Nat /\ b = 7 * (b \div 7) + (b % 7) /\ b % 7 \in 0 .. 6
    BY <2>1
  <2>3. i \in 1 .. k /\ b >= 7 * (i - 1) /\ b - 7 * (i - 1) = b % 7
    BY <2>1, <2>2
  <2> HIDE DEF i
  <2>4. b % 7 \in Group(v, i)
    BY <2>2, <2>3 DEF Group, Right, Below
  <2>5. (b % 7) + 7 * (i - 1) = b
    BY <2>1, <2>2, <2>3
  <2>6. b \in Left(Group(v, i), 7 * (i - 1), width)
    BY <2>1, <2>4, <2>5 DEF Left, Below
  <2> QED BY <2>3, <2>6
<1>2. ASSUME NEW i \in 1 .. k, NEW b \in Left(Group(v, i), 7 * (i - 1), width) PROVE b \in v
  <2>1. PICK c \in Group(v, i) : b = c + 7 * (i - 1)
    BY DEF Left
  <2>2. PICK d \in v : d >= 7 * (i - 1) /\ c = d - 7 * (i - 1)
    BY DEF Group, Right
  <2>3. d \in Nat
    BY DEF Below
  <2>4. b = d
    BY <2>1, <2>2, <2>3
  <2> QED BY <2>4
<1> QED BY <1>1, <1>2

\* What GetVarint reads of an input that begins with the groups of an integer.
LEMMA VarintParsed ==
    ASSUME NEW width \in Nat, NEW v, v \subseteq Below(width),
           NEW k \in Nat \ {0}, v \subseteq Below(7 * k), NEW n \in Nat, k <= n,
           NEW in \in Seq(Byte), k <= Len(in), \A i \in 1 .. k : in[i] = Groups(v, k)[i]
    PROVE  GetVarint(in, n, width) = Parsed(v, SubSeq(in, k + 1, Len(in)))
<1> DEFINE last == {i \in 1 .. Min({n, Len(in)}) : 7 \notin in[i]}
<1>1. Min({n, Len(in)}) \in {n, Len(in)}
  BY LesserOf
<1>2. Min({n, Len(in)}) \in Nat /\ k <= Min({n, Len(in)})
  BY <1>1
<1>3. v \subseteq Nat
  BY DEF Below
<1>4. \A i \in 1 .. k : (7 \in in[i] <=> i < k) /\ in[i] \cap Below(7) = Group(v, i)
  BY <1>3, GroupsBytes
<1>5. k \in last /\ last \subseteq Nat
  BY <1>2, <1>4
<1>6. ASSUME NEW y \in last PROVE k <= y
  <2>1. y \in Nat /\ y >= 1 /\ 7 \notin in[y]
    BY <1>2
  <2> QED BY <1>4, <2>1
<1>7. Min(last) = k
  BY <1>5, <1>6, LeastIs
<1>8. {Left(in[i] \cap Below(7), 7 * (i - 1), width) : i \in 1 .. k}
        = {Left(Group(v, i), 7 * (i - 1), width) : i \in 1 .. k}
  BY <1>4
<1>9. UNION {Left(in[i] \cap Below(7), 7 * (i - 1), width) : i \in 1 .. k} = v
  <2>1. UNION {Left(Group(v, i), 7 * (i - 1), width) : i \in 1 .. k} = v
    BY GroupsMakeValue
  <2> QED BY <1>8, <2>1
<1>10. GetVarint(in, n, width)
        = IF last = {} THEN Refused(in)
          ELSE Parsed(UNION {Left(in[i] \cap Below(7), 7 * (i - 1), width) : i \in 1 .. Min(last)},
                      SubSeq(in, Min(last) + 1, Len(in)))
  BY DEF GetVarint
<1> HIDE DEF last
<1> QED BY <1>5, <1>7, <1>9, <1>10

\* It refuses an input in which every byte says that more follow.
LEMMA VarintRefused ==
    ASSUME NEW width \in Nat, NEW n \in Nat,
           NEW in \in Seq(Byte), \A i \in 1 .. Len(in) : 7 \in in[i]
    PROVE  GetVarint(in, n, width) = Refused(in)
<1> DEFINE last == {i \in 1 .. Min({n, Len(in)}) : 7 \notin in[i]}
<1>1. Min({n, Len(in)}) \in {n, Len(in)} /\ Min({n, Len(in)}) <= Len(in)
  BY LesserOf
<1>2. last = {}
  BY <1>1
<1> QED BY <1>2 DEF GetVarint

\* An input that begins as the code does, as far as it goes.
Begins(in, code) == \A i \in 1 .. Len(code) : i <= Len(in) => in[i] = code[i]

\* What a Get ought to answer on an input that begins as the code of a value.
ReadsCode(answer, in, value, code) ==
    IF Len(code) <= Len(in)
    THEN answer = Parsed(value, SubSeq(in, Len(code) + 1, Len(in)))
    ELSE ~ answer.ok /\ answer.rest \in Seq(Byte)

\* An input in which every byte says that more follow.
Open7(in) == \A i \in 1 .. Len(in) : 7 \in in[i]

\* What a Get of a varint ought to answer on one that ends too early.
RefusesCut(answer, in, code) == Len(in) < Len(code) => answer = Refused(in) /\ Open7(in)

\* A width and a number of bytes that suffice for an integer of k groups.
Suffices(v, k, n, width) ==
    /\ width \in Nat /\ n \in Nat /\ k \in 1 .. n
    /\ v \subseteq Below(width) /\ v \subseteq Below(7 * k)

\* The loop reads the groups of an integer.
LEMMA VarintReads ==
    ASSUME NEW v, NEW k, NEW n, NEW width, Suffices(v, k, n, width),
           NEW in \in Seq(Byte), Begins(in, Groups(v, k))
    PROVE  /\ ReadsCode(GetVarint(in, n, width), in, v, Groups(v, k))
           /\ RefusesCut(GetVarint(in, n, width), in, Groups(v, k))
<1>1. /\ width \in Nat /\ n \in Nat /\ k \in Nat /\ k \in Nat \ {0} /\ k <= n
      /\ v \subseteq Below(width) /\ v \subseteq Below(7 * k)
  BY DEF Suffices
<1>2. v \subseteq Nat
  BY <1>1 DEF Below
<1>3. Len(Groups(v, k)) = k
  BY <1>1, <1>2, GroupsBytes
<1>4. CASE k <= Len(in)
  <2>1. \A i \in 1 .. k : in[i] = Groups(v, k)[i]
    BY <1>1, <1>3, <1>4 DEF Begins
  <2>2. GetVarint(in, n, width) = Parsed(v, SubSeq(in, k + 1, Len(in)))
    BY <1>1, <1>4, <2>1, VarintParsed
  <2>3. ~ (Len(in) < k)
    BY <1>1, <1>4
  <2> QED BY <1>3, <1>4, <2>2, <2>3 DEF ReadsCode, RefusesCut
<1>5. CASE ~ (k <= Len(in))
  <2>1. \A i \in 1 .. Len(in) : i \in 1 .. k /\ i < k /\ in[i] = Groups(v, k)[i]
    BY <1>1, <1>3, <1>5 DEF Begins
  <2>2. \A i \in 1 .. k : 7 \in Groups(v, k)[i] <=> i < k
    BY <1>1, <1>2, GroupsBytes
  <2>3. GetVarint(in, n, width) = Refused(in)
    BY <1>1, <2>1, <2>2, VarintRefused
  <2>4. Open7(in)
    BY <2>1, <2>2 DEF Open7
  <2> QED BY <1>3, <1>5, <2>3, <2>4 DEF ReadsCode, RefusesCut, Refused
<1> QED BY <1>4, <1>5

\* The quick path for one byte reads what the loop reads.
LEMMA QuickPath ==
    ASSUME NEW in \in Seq(Byte)
    PROVE  GetVarint32(in) = GetVarint(in, 5, 32)
<1>1. CASE in # <<>> /\ 7 \notin Head(in)
  <2> DEFINE last == {i \in 1 .. Min({5, Len(in)}) : 7 \notin in[i]}
  <2>1. Len(in) \in Nat /\ Len(in) >= 1 /\ Head(in) = in[1] /\ in[1] \in Byte
    BY <1>1
  <2>2. Min({5, Len(in)}) \in {5, Len(in)}
    BY <2>1, LesserOf
  <2>3. 1 \in last /\ last \subseteq Nat /\ \A y \in last : 1 <= y
    BY <1>1, <2>1, <2>2
  <2>4. Min(last) = 1
    BY <2>3, LeastIs
  <2>5. in[1] \subseteq Below(7)
    BY <1>1, <2>1 DEF Byte, Below
  <2>6. Left(in[1] \cap Below(7), 0, 32) = in[1]
    <3>1. in[1] \cap Below(7) = in[1] /\ \A b \in in[1] : b + 0 = b /\ b \in Below(32)
      <4>1. \A b \in Below(7) : b + 0 = b /\ b \in Below(32)
        BY DEF Below
      <4> QED BY <2>5, <4>1
    <3>2. {b + 0 : b \in in[1]} = in[1]
      BY <3>1
    <3> QED BY <3>1, <3>2 DEF Left
  <2>7. UNION {Left(in[i] \cap Below(7), 7 * (i - 1), 32) : i \in 1 .. 1} = in[1]
    <3>1. 7 * (1 - 1) = 0 /\ 1 .. 1 = {1}
      OBVIOUS
    <3> QED BY <2>6, <3>1
  <2>8. SubSeq(in, 2, Len(in)) = Tail(in)
    BY <2>1, HeadTailProperties, SubSeqProperties
  <2>9. GetVarint(in, 5, 32)
          = IF last = {} THEN Refused(in)
            ELSE Parsed(UNION {Left(in[i] \cap Below(7), 7 * (i - 1), 32) : i \in 1 .. Min(last)},
                        SubSeq(in, Min(last) + 1, Len(in)))
    BY DEF GetVarint
  <2> HIDE DEF last
  <2>10. GetVarint(in, 5, 32) = Parsed(in[1], Tail(in))
    <3>1. last # {} /\ Min(last) + 1 = 2
      BY <2>3, <2>4
    <3> QED BY <2>4, <2>7, <2>8, <2>9, <3>1
  <2> QED BY <1>1, <2>1, <2>10 DEF GetVarint32, GetVarint32Ptr
<1>2. CASE ~ (in # <<>> /\ 7 \notin Head(in))
  BY <1>2 DEF GetVarint32, GetVarint32Ptr, GetVarint32PtrFallback
<1> QED BY <1>1, <1>2

\* Both encoders write as many bytes as VarintLength announces: as many as the
\* groups take that have bits.
LEMMA Lengths ==
    ASSUME NEW v, v \subseteq Below(64)
    PROVE  /\ VarintLength(v) \in 1 .. 10 /\ v \subseteq Below(7 * VarintLength(v))
           /\ v \subseteq Below(32) => VarintLength(v) \in 1 .. 5 /\ Bytes32(v) = VarintLength(v)
<1> DEFINE T == {n \in 1 .. 10 : v \subseteq Below(7 * n)}
           k == Min(T)
<1>1. 10 \in T /\ (v \subseteq Below(32) => 5 \in T)
  BY DEF Below
<1>2. k \in T /\ \A y \in T : k <= y
  <2>1. T \subseteq Nat /\ T # {}
    BY <1>1
  <2> HIDE DEF T
  <2> QED BY <2>1, LeastOf
<1> HIDE DEF k
<1>3. k \in 1 .. 10 /\ v \subseteq Below(7 * k)
  BY <1>2
<1>4. \A n \in 1 .. 10 : (v \subseteq Below(7 * n)) <=> k <= n
  <2> SUFFICES ASSUME NEW n \in 1 .. 10 PROVE (v \subseteq Below(7 * n)) <=> k <= n
    OBVIOUS
  <2>1. v \subseteq Below(7 * n) => k <= n
    BY <1>2
  <2>2. k <= n => Below(7 * k) \subseteq Below(7 * n)
    BY <1>3 DEF Below
  <2> QED BY <1>3, <2>1, <2>2
<1>5. ASSUME NEW n \in 1 .. 10 PROVE Right(v, 7 * n) = {} <=> v \subseteq Below(7 * n)
  <2>1. v \subseteq Nat
    BY DEF Below
  <2> QED BY <2>1 DEF Right, Below
<1>6. {n \in 1 .. 10 : Right(v, 7 * n) # {}} = 1 .. k - 1
  BY <1>3, <1>4, <1>5
<1>7. Cardinality(1 .. k - 1) = k - 1
  BY <1>3, FS_Interval
<1>8. VarintLength(v) = k
  <2>1. VarintLength(v) = 1 + (k - 1)
    BY <1>6, <1>7 DEF VarintLength
  <2> QED BY <1>3, <2>1
<1>9. ASSUME v \subseteq Below(32) PROVE k \in 1 .. 5 /\ Bytes32(v) = k
  <2>1. k <= 5
    BY <1>1, <1>2, <1>9
  <2> DEFINE U == {n \in 1 .. 4 : v \subseteq Below(7 * n)} \cup {5}
  <2>2. U \subseteq Nat /\ k \in U /\ \A y \in U : k <= y
    BY <1>3, <1>4, <2>1
  <2>3. Min(U) = k
    BY <2>2, LeastIs
  <2> QED BY <1>3, <2>1, <2>3 DEF Bytes32
<1> QED BY <1>3, <1>8, <1>9

-----------------------------------------------------------------------------
(* Fixed width                                                             *)

\* The bytes of an integer of their width, put together, are the integer.
LEMMA BytesMakeValue ==
    ASSUME NEW n \in Nat, NEW v, v \subseteq Below(8 * n), NEW buf,
           \A i \in 1 .. n : buf[i] = EncodeFixed(v, n)[i]
    PROVE  DecodeFixed(buf, n) = v
<1> DEFINE whole == UNION {Left(buf[i], 8 * (i - 1), 8 * n) : i \in 1 .. n}
<1>1. \A i \in 1 .. n : buf[i] = Right(v, 8 * (i - 1)) \cap Below(8)
  BY DEF EncodeFixed
<1>2. ASSUME NEW b \in v PROVE b \in whole
  <2> DEFINE i == (b \div 8) + 1
  <2>1. b \in Nat /\ b < 8 * n
    BY <1>2 DEF Below
  <2>2. b \div 8 \in Nat /\ b = 8 * (b \div 8) + (b % 8) /\ b % 8 \in 0 .. 7
    BY <2>1
  <2>3. i \in 1 .. n /\ b >= 8 * (i - 1) /\ b - 8 * (i - 1) = b % 8
    <3> DEFINE q == b \div 8
               r == b % 8
    <3>1. q \in Nat /\ r \in 0 .. 7 /\ b = 8 * q + r /\ i = q + 1
      BY <2>2
    <3> HIDE DEF q, r, i
    <3>2. i \in 1 .. n /\ b >= 8 * (i - 1) /\ b - 8 * (i - 1) = r
      BY ONLY <2>1, <3>1, n \in Nat
    <3> QED BY <3>2 DEF r
  <2> HIDE DEF i
  <2>4. b % 8 \in buf[i]
    BY <1>1, <2>2, <2>3 DEF Right, Below
  <2>5. (b % 8) + 8 * (i - 1) = b
    BY <2>1, <2>2, <2>3
  <2>6. b \in Left(buf[i], 8 * (i - 1), 8 * n)
    BY <2>1, <2>4, <2>5 DEF Left, Below
  <2> QED BY <2>3, <2>6
<1>3. ASSUME NEW i \in 1 .. n, NEW b \in Left(buf[i], 8 * (i - 1), 8 * n) PROVE b \in v
  <2>1. PICK c \in buf[i] : b = c + 8 * (i - 1)
    BY DEF Left
  <2>2. PICK d \in v : d >= 8 * (i - 1) /\ c = d - 8 * (i - 1)
    BY <1>1 DEF Right
  <2>3. d \in Nat
    BY DEF Below
  <2>4. b = d
    BY <2>1, <2>2, <2>3
  <2> QED BY <2>4
<1>4. whole = v
  BY <1>2, <1>3
<1> QED BY <1>4 DEF DecodeFixed

\* EncodeFixed writes that many bytes.
LEMMA FixedBytes ==
    ASSUME NEW v, NEW n \in Nat
    PROVE  EncodeFixed(v, n) \in Seq(Byte) /\ Len(EncodeFixed(v, n)) = n
<1>1. EncodeFixed(v, n) \in [1 .. n -> Byte]
  BY DEF EncodeFixed, Byte
<1> QED BY <1>1

-----------------------------------------------------------------------------
(* Every Get reads what its Put wrote                                      *)

\* The varint of at most ten bytes.
LEMMA Varint64Reads ==
    ASSUME NEW v, v \subseteq Below(64), NEW in \in Seq(Byte)
    PROVE  /\ EncodeVarint64(v) \in Seq(Byte) /\ Len(EncodeVarint64(v)) = VarintLength(v)
           /\ Begins(in, EncodeVarint64(v)) => /\ ReadsCode(GetVarint64(in), in, v, EncodeVarint64(v))
                                            /\ RefusesCut(GetVarint64(in), in, EncodeVarint64(v))
<1> DEFINE k == VarintLength(v)
<1>1. k \in 1 .. 10 /\ v \subseteq Below(7 * k)
  BY Lengths
<1>2. EncodeVarint64(v) = Groups(v, k)
  BY <1>1 DEF EncodeVarint64
<1> HIDE DEF k
<1>3. Suffices(v, k, 10, 64)
  BY <1>1 DEF Suffices
<1>4. k \in Nat /\ v \subseteq Nat
  BY <1>1 DEF Below
<1>5. Groups(v, k) \in Seq(Byte) /\ Len(Groups(v, k)) = k
  BY <1>4, GroupsBytes
<1>6. Begins(in, Groups(v, k)) => /\ ReadsCode(GetVarint(in, 10, 64), in, v, Groups(v, k))
                                  /\ RefusesCut(GetVarint(in, 10, 64), in, Groups(v, k))
  BY <1>3, VarintReads
<1> QED BY <1>2, <1>5, <1>6 DEF k, GetVarint64

\* The varint of at most five bytes.
LEMMA Varint32Reads ==
    ASSUME NEW v, v \subseteq Below(32), NEW in \in Seq(Byte)
    PROVE  /\ EncodeVarint32(v) \in Seq(Byte) /\ Len(EncodeVarint32(v)) = VarintLength(v)
           /\ Begins(in, EncodeVarint32(v)) => /\ ReadsCode(GetVarint32(in), in, v, EncodeVarint32(v))
                                            /\ RefusesCut(GetVarint32(in), in, EncodeVarint32(v))
<1> DEFINE k == VarintLength(v)
<1>0. v \subseteq Below(64)
  BY DEF Below
<1>1. k \in 1 .. 5 /\ v \subseteq Below(7 * k) /\ Bytes32(v) = k
  BY <1>0, Lengths
<1>2. EncodeVarint32(v) = Groups(v, k)
  BY <1>1 DEF EncodeVarint32
<1> HIDE DEF k
<1>3. Suffices(v, k, 5, 32)
  BY <1>1 DEF Suffices
<1>4. k \in Nat /\ v \subseteq Nat
  BY <1>1 DEF Below
<1>5. Groups(v, k) \in Seq(Byte) /\ Len(Groups(v, k)) = k
  BY <1>4, GroupsBytes
<1>6. Begins(in, Groups(v, k)) => /\ ReadsCode(GetVarint(in, 5, 32), in, v, Groups(v, k))
                                  /\ RefusesCut(GetVarint(in, 5, 32), in, Groups(v, k))
  BY <1>3, VarintReads
<1> QED BY <1>2, <1>5, <1>6, QuickPath DEF k

\* An integer of fixed width, which a caller decodes where there are bytes.
LEMMA FixedReads ==
    ASSUME NEW n \in Nat, NEW v, v \subseteq Below(8 * n), NEW in \in Seq(Byte),
           Begins(in, EncodeFixed(v, n))
    PROVE  ReadsCode(IF Len(in) < n THEN Refused(in)
                     ELSE Parsed(DecodeFixed(in, n), SubSeq(in, n + 1, Len(in))),
                     in, v, EncodeFixed(v, n))
<1>1. Len(EncodeFixed(v, n)) = n
  BY FixedBytes
<1>2. CASE n <= Len(in)
  <2>1. \A i \in 1 .. n : in[i] = EncodeFixed(v, n)[i]
    BY <1>1, <1>2 DEF Begins
  <2>2. DecodeFixed(in, n) = v
    BY <2>1, BytesMakeValue
  <2>3. ~ (Len(in) < n)
    BY <1>2
  <2> QED BY <1>1, <1>2, <2>2, <2>3 DEF ReadsCode
<1>3. CASE ~ (n <= Len(in))
  <2>1. Len(in) < n
    BY <1>3
  <2> QED BY <1>1, <1>3, <2>1 DEF ReadsCode, Refused
<1> QED BY <1>2, <1>3

\* A string behind its length.
LEMMA SliceReads ==
    ASSUME NEW s \in Seq(Byte), Word[Len(s)] \subseteq Below(32), NEW in \in Seq(Byte)
    PROVE  /\ PutLengthPrefixedSlice(s) \in Seq(Byte)
           /\ Begins(in, PutLengthPrefixedSlice(s)) =>
                ReadsCode(GetLengthPrefixedSlice(in), in, s, PutLengthPrefixedSlice(s))
<1> DEFINE w    == Word[Len(s)]
           head == EncodeVarint32(w)
           code == PutLengthPrefixedSlice(s)
           len  == GetVarint32(in)
           fits == {n \in 0 .. Len(len.rest) : Word[n] = len.value}
<1>1. head \in Seq(Byte) /\ Len(head) \in Nat
      /\ (Begins(in, head) => ReadsCode(len, in, w, head))
  BY Varint32Reads
<1>2. code = head \o s
  BY DEF PutLengthPrefixedSlice
<1>3. GetLengthPrefixedSlice(in)
        = IF ~ len.ok THEN Refused(in)
          ELSE IF fits = {} THEN Refused(len.rest)
          ELSE Parsed(SubSeq(len.rest, 1, Min(fits)), SubSeq(len.rest, Min(fits) + 1, Len(len.rest)))
  BY DEF GetLengthPrefixedSlice
<1> HIDE DEF head, code, len
<1>4. /\ code \in Seq(Byte) /\ Len(code) = Len(head) + Len(s)
      /\ \A i \in 1 .. Len(head) + Len(s) : code[i] = IF i <= Len(head) THEN head[i] ELSE s[i - Len(head)]
  BY <1>1, <1>2, ConcatProperties
<1>5. ASSUME Begins(in, code) PROVE ReadsCode(GetLengthPrefixedSlice(in), in, s, code)
  <2> HIDE DEF w
  <2>1. \A i \in 1 .. Len(head) : i \in 1 .. Len(code) /\ code[i] = head[i]
    BY <1>1, <1>4
  <2>2. Begins(in, head)
    BY <1>5, <2>1 DEF Begins
  <2>3. ReadsCode(len, in, w, head)
    BY <1>1, <2>2
  <2>4. CASE ~ (Len(head) <= Len(in))
    <3>1. ~ len.ok
      BY <2>3, <2>4 DEF ReadsCode
    <3>2. ~ (Len(code) <= Len(in))
      BY <1>1, <1>4, <2>4
    <3> QED BY <1>3, <3>1, <3>2 DEF ReadsCode, Refused
  <2>5. CASE Len(head) <= Len(in)
    <3> DEFINE rest == SubSeq(in, Len(head) + 1, Len(in))
    <3>1. len = Parsed(w, rest)
      BY <2>3, <2>5 DEF ReadsCode
    <3>2. len.ok /\ len.value = w /\ len.rest = rest
      BY <3>1 DEF Parsed
    <3>3. /\ rest \in Seq(Byte) /\ Len(rest) = Len(in) - Len(head)
          /\ \A i \in 1 .. Len(in) - Len(head) : rest[i] = in[Len(head) + i]
      BY <1>1, <2>5, RestOf
    <3> HIDE DEF rest
    <3>4. \A n \in 0 .. Len(rest) : Word[n] = w => n = Len(s)
      BY <3>3, WordInjective DEF w
    <3>5. CASE Len(s) <= Len(rest)
      <4>1. fits = {Len(s)}
        BY <3>2, <3>4, <3>5 DEF w
      <4>2. fits # {} /\ Min(fits) = Len(s)
        <5>1. Len(s) \in Nat
          OBVIOUS
        <5>2. Min({Len(s)}) = Len(s)
          BY <5>1, LeastOfOne
        <5> QED BY <4>1, <5>2
      <4>3. GetLengthPrefixedSlice(in) = Parsed(SubSeq(rest, 1, Len(s)), SubSeq(rest, Len(s) + 1, Len(rest)))
        BY <1>3, <3>2, <4>2
      <4>4. SubSeq(rest, 1, Len(s)) = s
        <5>1. \A i \in 1 .. Len(s) : rest[i] = s[i]
          <6> SUFFICES ASSUME NEW i \in 1 .. Len(s) PROVE rest[i] = s[i]
            OBVIOUS
          <6>1. i \in 1 .. Len(in) - Len(head) /\ Len(head) + i \in 1 .. Len(code) /\ Len(head) + i <= Len(in)
            BY <1>1, <1>4, <2>5, <3>3, <3>5
          <6>2. rest[i] = in[Len(head) + i] /\ in[Len(head) + i] = code[Len(head) + i]
            BY <1>5, <3>3, <6>1 DEF Begins
          <6>3. code[Len(head) + i] = s[i]
            <7>1. ~ (Len(head) + i <= Len(head)) /\ (Len(head) + i) - Len(head) = i
              BY <1>1
            <7> QED BY <1>4, <6>1, <7>1
          <6> QED BY <6>2, <6>3
        <5>2. SubSeq(rest, 1, Len(s)) \in Seq(Byte) /\ Len(SubSeq(rest, 1, Len(s))) = Len(s)
              /\ \A i \in 1 .. Len(s) : SubSeq(rest, 1, Len(s))[i] = rest[i]
          BY <3>3, <3>5
        <5> QED BY <5>1, <5>2
      <4>5. SubSeq(rest, Len(s) + 1, Len(rest)) = SubSeq(in, Len(code) + 1, Len(in))
        <5>1. Len(s) \in 0 .. Len(in) - Len(head) /\ Len(head) \in 0 .. Len(in)
              /\ Len(head) + Len(s) = Len(code)
          BY <1>1, <1>4, <2>5, <3>3, <3>5
        <5> QED BY <3>3, <5>1, RestOfRest DEF rest
      <4>6. Len(code) <= Len(in)
        BY <1>1, <1>4, <2>5, <3>3, <3>5
      <4> QED BY <4>3, <4>4, <4>5, <4>6 DEF ReadsCode
    <3>6. CASE ~ (Len(s) <= Len(rest))
      <4>1. fits = {}
        BY <3>2, <3>3, <3>4, <3>6
      <4>2. GetLengthPrefixedSlice(in) = Refused(rest)
        BY <1>3, <3>2, <4>1
      <4>3. ~ (Len(code) <= Len(in))
        BY <1>1, <1>4, <2>5, <3>3, <3>6
      <4> QED BY <3>3, <4>2, <4>3 DEF ReadsCode, Refused
    <3> QED BY <3>5, <3>6
  <2> QED BY <2>4, <2>5
<1> QED BY <1>4, <1>5 DEF code

-----------------------------------------------------------------------------
(* The inductive invariant of CodecStream                                  *)

Puttable ==
    [kind : {"varint32", "fixed32"}, value : Values32, end : Nat] \cup
    [kind : {"varint64", "fixed64"}, value : Values64, end : Nat] \cup
    [kind : {"slice"}, value : Slices, end : Nat]

\* The bytes of the i-th value.
Code(i) == Encode(puts[i].kind, puts[i].value)

\* The types; a string that is not being parsed is complete.
StreamIsSound ==
    /\ dst \in Seq(Byte) /\ puts \in Seq(Puttable) /\ input \in Seq(Byte)
    /\ got \in Seq(Values32 \cup Values64 \cup Slices)
    /\ parsing \in BOOLEAN /\ refused \in BOOLEAN
    /\ ~ parsing => /\ got = <<>> /\ input = <<>> /\ ~ refused
                    /\ Len(dst) = End(Len(puts))
                    /\ \A i \in 1 .. Len(puts) : End(i) <= Len(dst)

\* The codes follow one another, and what is left of the string is theirs.
CodesFollow ==
    \A i \in 1 .. Len(puts) :
        /\ End(i - 1) \in Nat /\ End(i) = End(i - 1) + Len(Code(i))
        /\ \A j \in 1 .. Len(Code(i)) : End(i - 1) + j <= Len(dst) => dst[End(i - 1) + j] = Code(i)[j]

\* There is a value for every one that was parsed or refused.
ParserIsBehind ==
    /\ Len(got) <= Len(puts)
    /\ refused => Len(got) < Len(puts)

CodecIInv == StreamIsSound /\ CodesFollow /\ ParserIsBehind /\ RoundTrips

\* The empty string satisfies it.
LEMMA CodecInitIInv == CodecInit => CodecIInv
<1> SUFFICES ASSUME CodecInit PROVE CodecIInv
  OBVIOUS
<1> USE DEF CodecInit
<1>1. <<>> \in Seq(Byte) /\ <<>> \in Seq(Puttable) /\ <<>> \in Seq(Values32 \cup Values64 \cup Slices)
  OBVIOUS
<1>2. Len(puts) = 0 /\ Len(dst) = 0 /\ Len(got) = 0 /\ End(0) = 0
  BY DEF End
<1>3. StreamIsSound
  <2>1. 1 .. Len(puts) = {} /\ End(Len(puts)) = 0
    BY <1>2
  <2>2. /\ dst \in Seq(Byte) /\ puts \in Seq(Puttable) /\ input \in Seq(Byte)
        /\ got \in Seq(Values32 \cup Values64 \cup Slices)
    BY <1>1
  <2> QED BY <1>2, <2>1, <2>2 DEF StreamIsSound
<1>4. CodesFollow /\ ParserIsBehind
  BY <1>2 DEF CodesFollow, ParserIsBehind
<1>5. RoundTrips
  BY <1>2 DEF RoundTrips, ReadsBackWhatWasPut, RefusesExactlyTheCutOff, LengthIsAnnounced
<1> QED BY <1>3, <1>4, <1>5 DEF CodecIInv

\* What a Put function writes.
LEMMA EncodeBytes ==
    ASSUME NEW p \in Puttable
    PROVE  /\ Encode(p.kind, p.value) \in Seq(Byte)
           /\ p.kind \in {"varint32", "varint64"} => Len(Encode(p.kind, p.value)) = VarintLength(p.value)
<1> USE ValuesAssumption
<1>0. \A s \in Slices : s \in Seq(Byte)
  BY DEF Byte
<1>1. <<>> \in Seq(Byte)
  OBVIOUS
<1>2. CASE p \in [kind : {"varint32", "fixed32"}, value : Values32, end : Nat]
  <2>1. p.value \subseteq Below(32) /\ p.kind \in {"varint32", "fixed32"}
    BY <1>2
  <2>2. CASE p.kind = "varint32"
    BY <1>1, <2>1, <2>2, Varint32Reads DEF Encode
  <2>3. CASE p.kind = "fixed32"
    BY <2>1, <2>3, FixedBytes DEF Encode, EncodeFixed32
  <2> QED BY <2>1, <2>2, <2>3
<1>3. CASE p \in [kind : {"varint64", "fixed64"}, value : Values64, end : Nat]
  <2>1. p.value \subseteq Below(64) /\ p.kind \in {"varint64", "fixed64"}
    BY <1>3
  <2>2. CASE p.kind = "varint64"
    BY <1>1, <2>1, <2>2, Varint64Reads DEF Encode
  <2>3. CASE p.kind = "fixed64"
    BY <2>1, <2>3, FixedBytes DEF Encode, EncodeFixed64
  <2> QED BY <2>1, <2>2, <2>3
<1>4. CASE p \in [kind : {"slice"}, value : Slices, end : Nat]
  <2>1. p.value \in Seq(Byte) /\ Word[Len(p.value)] \subseteq Below(32) /\ p.kind = "slice"
    BY <1>0, <1>4
  <2> QED BY <1>1, <2>1, SliceReads DEF Encode
<1> QED BY <1>2, <1>3, <1>4 DEF Puttable

\* What the Get function for the same kind answers on it.
LEMMA GetReads ==
    ASSUME NEW p \in Puttable, input \in Seq(Byte), Begins(input, Encode(p.kind, p.value))
    PROVE  ReadsCode(Get(p.kind), input, p.value, Encode(p.kind, p.value))
<1> USE ValuesAssumption
<1>0. \A s \in Slices : s \in Seq(Byte)
  BY DEF Byte
<1>1. CASE p \in [kind : {"varint32", "fixed32"}, value : Values32, end : Nat]
  <2>1. p.value \subseteq Below(32) /\ p.kind \in {"varint32", "fixed32"}
    BY <1>1
  <2>2. CASE p.kind = "varint32"
    BY <2>1, <2>2, Varint32Reads DEF Encode, Get
  <2>3. CASE p.kind = "fixed32"
    <3>1. 4 \in Nat /\ 8 * 4 = 32 /\ Encode(p.kind, p.value) = EncodeFixed(p.value, 4)
      BY <2>3 DEF Encode, EncodeFixed32
    <3>2. Get(p.kind) = IF Len(input) < 4 THEN Refused(input)
                        ELSE Parsed(DecodeFixed(input, 4), SubSeq(input, 4 + 1, Len(input)))
      BY <2>3 DEF Get, DecodeFixedBytes
    <3> QED BY <2>1, <3>1, <3>2, FixedReads
  <2> QED BY <2>1, <2>2, <2>3
<1>2. CASE p \in [kind : {"varint64", "fixed64"}, value : Values64, end : Nat]
  <2>1. p.value \subseteq Below(64) /\ p.kind \in {"varint64", "fixed64"}
    BY <1>2
  <2>2. CASE p.kind = "varint64"
    BY <2>1, <2>2, Varint64Reads DEF Encode, Get
  <2>3. CASE p.kind = "fixed64"
    <3>1. 8 \in Nat /\ 8 * 8 = 64 /\ Encode(p.kind, p.value) = EncodeFixed(p.value, 8)
      BY <2>3 DEF Encode, EncodeFixed64
    <3>2. Get(p.kind) = IF Len(input) < 8 THEN Refused(input)
                        ELSE Parsed(DecodeFixed(input, 8), SubSeq(input, 8 + 1, Len(input)))
      BY <2>3 DEF Get, DecodeFixedBytes
    <3> QED BY <2>1, <3>1, <3>2, FixedReads
  <2> QED BY <2>1, <2>2, <2>3
<1>3. CASE p \in [kind : {"slice"}, value : Slices, end : Nat]
  <2>1. p.value \in Seq(Byte) /\ Word[Len(p.value)] \subseteq Below(32) /\ p.kind = "slice"
    BY <1>0, <1>3
  <2> QED BY <2>1, SliceReads DEF Encode, Get
<1> QED BY <1>1, <1>2, <1>3 DEF Puttable

\* Putting a value behind the others.
LEMMA PutIInv ==
    ASSUME CodecIInv, NEW kind, NEW value, Put(kind, value),
           \A n \in Nat : [kind |-> kind, value |-> value, end |-> n] \in Puttable
    PROVE  CodecIInv'
<1> DEFINE e == Encode(kind, value)
<1>0. PICK n \in Nat : n = Len(puts)
  BY DEF CodecIInv, StreamIsSound
<1>1. /\ dst \in Seq(Byte) /\ puts \in Seq(Puttable) /\ input \in Seq(Byte)
      /\ got \in Seq(Values32 \cup Values64 \cup Slices)
      /\ parsing = FALSE /\ got = <<>> /\ input = <<>> /\ refused = FALSE
      /\ Len(dst) = End(n) /\ \A i \in 1 .. n : End(i) <= Len(dst)
  BY <1>0 DEF CodecIInv, StreamIsSound, Put
<1>2. /\ dst' = dst \o e
      /\ puts' = Append(puts, [kind |-> kind, value |-> value, end |-> Len(dst')])
      /\ parsing' = FALSE /\ input' = <<>> /\ got' = <<>> /\ refused' = FALSE
  BY <1>1 DEF Put
<1>3. e \in Seq(Byte) /\ (kind \in {"varint32", "varint64"} => Len(e) = VarintLength(value))
  <2>1. [kind |-> kind, value |-> value, end |-> 0] \in Puttable
    OBVIOUS
  <2> QED BY <2>1, EncodeBytes
<1> HIDE DEF e
<1>4. /\ dst' \in Seq(Byte) /\ Len(dst') = Len(dst) + Len(e)
      /\ \A i \in 1 .. Len(dst) + Len(e) : dst'[i] = IF i <= Len(dst) THEN dst[i] ELSE e[i - Len(dst)]
  BY <1>1, <1>2, <1>3, ConcatProperties
<1>5. n \in Nat /\ Len(dst) \in Nat /\ Len(e) \in Nat /\ Len(dst') \in Nat
  BY <1>1, <1>3, <1>4
<1>6. /\ puts' \in Seq(Puttable) /\ Len(puts') = n + 1
      /\ \A i \in 1 .. n : puts'[i] = puts[i]
      /\ puts'[n + 1] = [kind |-> kind, value |-> value, end |-> Len(dst')]
  BY <1>0, <1>1, <1>2, <1>5, AppendProperties
<1>7. /\ \A i \in 0 .. n : End(i)' = End(i)
      /\ End(n + 1)' = Len(dst')
      /\ \A i \in 1 .. n : Code(i)' = Code(i)
      /\ Code(n + 1)' = e
  BY <1>5, <1>6 DEF End, Code, e
<1>8. \A i \in 1 .. n + 1 : i \in 1 .. n \/ i = n + 1
  BY <1>5
<1>9. StreamIsSound'
  <2>0. \A i \in 1 .. n : End(i) \in Nat
    BY <1>0, <1>1 DEF End, Puttable
  <2>1. \A i \in 1 .. n + 1 : End(i)' <= Len(dst')
    BY <1>1, <1>4, <1>5, <1>7, <1>8, <2>0
  <2>2. Len(dst') = End(n + 1)' /\ Len(puts') = n + 1
    BY <1>6, <1>7
  <2>3. input' \in Seq(Byte) /\ got' \in Seq(Values32 \cup Values64 \cup Slices)
    BY <1>1, <1>2
  <2>4. (Len(dst) = End(Len(puts)))' /\ (\A i \in 1 .. Len(puts) : End(i) <= Len(dst))'
    BY <2>1, <2>2
  <2> QED BY <1>2, <1>4, <1>6, <2>3, <2>4 DEF StreamIsSound
<1>10. CodesFollow'
  <2>1. ASSUME NEW i \in 1 .. n
        PROVE  /\ End(i - 1)' \in Nat /\ End(i)' = End(i - 1)' + Len(Code(i)')
               /\ \A j \in 1 .. Len(Code(i)') :
                     End(i - 1)' + j <= Len(dst') => dst'[End(i - 1)' + j] = Code(i)'[j]
    <3>1. i \in 0 .. n /\ i - 1 \in 0 .. n
      OBVIOUS
    <3>2. End(i - 1)' = End(i - 1) /\ End(i)' = End(i) /\ Code(i)' = Code(i)
      BY <1>7, <3>1
    <3>3. /\ End(i - 1) \in Nat /\ End(i) = End(i - 1) + Len(Code(i)) /\ End(i) <= Len(dst)
          /\ \A j \in 1 .. Len(Code(i)) : End(i - 1) + j <= Len(dst) => dst[End(i - 1) + j] = Code(i)[j]
      BY <1>0, <1>1 DEF CodecIInv, CodesFollow
    <3>4. Code(i) \in Seq(Byte)
      BY <1>0, <1>1, EncodeBytes DEF Code
    <3>5. \A j \in 1 .. Len(Code(i)) : End(i - 1) + j \in 1 .. Len(dst) /\ dst'[End(i - 1) + j] = dst[End(i - 1) + j]
      BY <1>4, <1>5, <3>3, <3>4
    <3> QED BY <3>2, <3>3, <3>5
  <2>2. /\ End((n + 1) - 1)' \in Nat /\ End(n + 1)' = End((n + 1) - 1)' + Len(Code(n + 1)')
        /\ \A j \in 1 .. Len(Code(n + 1)') :
              End((n + 1) - 1)' + j <= Len(dst') => dst'[End((n + 1) - 1)' + j] = Code(n + 1)'[j]
    <3>1. (n + 1) - 1 = n /\ n \in 0 .. n
      BY <1>5
    <3>2. End((n + 1) - 1)' = Len(dst) /\ End(n + 1)' = Len(dst) + Len(e) /\ Code(n + 1)' = e
      BY <1>1, <1>4, <1>7, <3>1
    <3>3. \A j \in 1 .. Len(e) : /\ Len(dst) + j \in 1 .. Len(dst) + Len(e)
                                 /\ ~ (Len(dst) + j <= Len(dst)) /\ (Len(dst) + j) - Len(dst) = j
      BY <1>5
    <3>4. \A j \in 1 .. Len(e) : dst'[Len(dst) + j] = e[j]
      BY <1>4, <3>3
    <3> QED BY <1>5, <3>2, <3>4
  <2> QED BY <1>6, <1>8, <2>1, <2>2 DEF CodesFollow
<1>11. ParserIsBehind'
  BY <1>2, <1>5, <1>6 DEF ParserIsBehind
<1>12. ReadsBackWhatWasPut' /\ RefusesExactlyTheCutOff'
  BY <1>2 DEF ReadsBackWhatWasPut, RefusesExactlyTheCutOff
<1>13. LengthIsAnnounced'
  <2>1. ASSUME NEW i \in 1 .. n, puts'[i].kind \in {"varint32", "varint64"}
        PROVE  VarintLength(puts'[i].value) = puts'[i].end - End(i - 1)'
    <3>1. i - 1 \in 0 .. n
      OBVIOUS
    <3>2. puts'[i] = puts[i] /\ End(i - 1)' = End(i - 1)
      BY <1>6, <1>7, <3>1
    <3> QED BY <1>0, <2>1, <3>2 DEF CodecIInv, RoundTrips, LengthIsAnnounced
  <2>2. ASSUME puts'[n + 1].kind \in {"varint32", "varint64"}
        PROVE  VarintLength(puts'[n + 1].value) = puts'[n + 1].end - End((n + 1) - 1)'
    <3>1. (n + 1) - 1 = n /\ n \in 0 .. n
      BY <1>5
    <3>2. End((n + 1) - 1)' = Len(dst) /\ puts'[n + 1].end = Len(dst) + Len(e)
      BY <1>1, <1>4, <1>6, <1>7, <3>1
    <3>3. (Len(dst) + Len(e)) - Len(dst) = Len(e)
      BY <1>5
    <3>4. puts'[n + 1].kind = kind /\ puts'[n + 1].value = value
      BY <1>6
    <3> QED BY <1>3, <2>2, <3>2, <3>3, <3>4
  <2> QED BY <1>6, <1>8, <2>1, <2>2 DEF LengthIsAnnounced
<1> QED BY <1>9, <1>10, <1>11, <1>12, <1>13 DEF CodecIInv, RoundTrips

\* Opening what is left of the string.
LEMMA OpenIInv ==
    ASSUME CodecIInv, NEW length \in 0 .. Len(dst), Open(length)
    PROVE  CodecIInv'
<1>1. /\ dst \in Seq(Byte) /\ puts \in Seq(Puttable)
      /\ got = <<>> /\ refused = FALSE
      /\ got' = <<>> /\ refused' = FALSE /\ puts' = puts /\ parsing' = TRUE
      /\ dst' = SubSeq(dst, 1, length) /\ input' = dst'
  BY DEF CodecIInv, StreamIsSound, Open
<1>2. /\ dst' \in Seq(Byte) /\ Len(dst') = length /\ length \in Nat
      /\ \A i \in 1 .. length : dst'[i] = dst[i]
  BY <1>1
<1>3. \A i : End(i)' = End(i) /\ Code(i)' = Code(i)
  BY <1>1 DEF End, Code
<1>4. StreamIsSound'
  <2>1. <<>> \in Seq(Values32 \cup Values64 \cup Slices)
    OBVIOUS
  <2> QED BY <1>1, <1>2, <2>1 DEF StreamIsSound
<1>5. CodesFollow'
  <2> SUFFICES ASSUME NEW i \in 1 .. Len(puts)
               PROVE  /\ End(i - 1) \in Nat /\ End(i) = End(i - 1) + Len(Code(i))
                      /\ \A j \in 1 .. Len(Code(i)) :
                            End(i - 1) + j <= length => dst'[End(i - 1) + j] = Code(i)[j]
    BY <1>1, <1>2, <1>3 DEF CodesFollow
  <2>1. /\ End(i - 1) \in Nat /\ End(i) = End(i - 1) + Len(Code(i))
        /\ \A j \in 1 .. Len(Code(i)) : End(i - 1) + j <= Len(dst) => dst[End(i - 1) + j] = Code(i)[j]
    BY DEF CodecIInv, CodesFollow
  <2>2. Code(i) \in Seq(Byte)
    BY <1>1, EncodeBytes DEF Code
  <2>3. \A j \in 1 .. Len(Code(i)) : End(i - 1) + j <= length =>
            End(i - 1) + j <= Len(dst) /\ dst'[End(i - 1) + j] = dst[End(i - 1) + j]
    BY <1>1, <1>2, <2>1, <2>2
  <2> QED BY <2>1, <2>3
<1>6. ParserIsBehind'
  BY <1>1 DEF ParserIsBehind
<1>7. ReadsBackWhatWasPut'
  <2>1. Len(got') = 0 /\ End(0)' = 0
    BY <1>1 DEF End
  <2>2. SubSeq(dst', 0 + 1, Len(dst')) = dst'
    BY <1>2
  <2> QED BY <1>1, <2>1, <2>2 DEF ReadsBackWhatWasPut
<1>8. RefusesExactlyTheCutOff'
  BY <1>1 DEF RefusesExactlyTheCutOff
<1>9. LengthIsAnnounced'
  BY <1>1, <1>3 DEF CodecIInv, RoundTrips, LengthIsAnnounced
<1> QED BY <1>4, <1>5, <1>6, <1>7, <1>8, <1>9 DEF CodecIInv, RoundTrips

\* A Get.
LEMMA GetNextIInv ==
    ASSUME CodecIInv, GetNext
    PROVE  CodecIInv'
<1>0. PICK m \in Nat : m = Len(got)
  BY DEF CodecIInv, StreamIsSound
<1>1. /\ dst \in Seq(Byte) /\ puts \in Seq(Puttable) /\ input \in Seq(Byte)
      /\ got \in Seq(Values32 \cup Values64 \cup Slices)
      /\ parsing = TRUE /\ refused = FALSE /\ m < Len(puts)
  BY <1>0 DEF CodecIInv, StreamIsSound, GetNext
<1> DEFINE p      == puts[m + 1]
           e      == Encode(p.kind, p.value)
           answer == Get(p.kind)
<1>2. /\ input' = answer.rest /\ refused' = (~ answer.ok)
      /\ got' = IF answer.ok THEN Append(got, answer.value) ELSE got
      /\ dst' = dst /\ puts' = puts /\ parsing' = TRUE
  BY <1>0, <1>1 DEF GetNext
<1>3. p \in Puttable /\ p.value \in Values32 \cup Values64 \cup Slices
  <2>1. p \in Puttable
    BY <1>1
  <2> QED BY <2>1 DEF Puttable
<1>4. e \in Seq(Byte) /\ e = Code(m + 1)
  BY <1>3, EncodeBytes DEF Code
<1>5. m + 1 \in 1 .. Len(puts) /\ (m + 1) - 1 = m
  BY <1>1
<1>6. /\ End(m) \in Nat /\ End(m + 1) = End(m) + Len(e)
      /\ \A j \in 1 .. Len(e) : End(m) + j <= Len(dst) => dst[End(m) + j] = e[j]
  <2> HIDE DEF e
  <2> QED BY <1>4, <1>5 DEF CodecIInv, CodesFollow
<1>7. End(m) <= Len(dst)
  <2>1. m = 0 => End(m) = 0
    BY DEF End
  <2>2. m > 0 => End(m) <= Len(dst)
    BY <1>0 DEF CodecIInv, RoundTrips, RefusesExactlyTheCutOff
  <2> QED BY <1>1, <2>1, <2>2
<1>8. /\ input = SubSeq(dst, End(m) + 1, Len(dst))
      /\ \A i \in 1 .. m : got[i] = puts[i].value
  BY <1>0, <1>1 DEF CodecIInv, RoundTrips, ReadsBackWhatWasPut
<1>9. Len(input) = Len(dst) - End(m) /\ \A j \in 1 .. Len(dst) - End(m) : input[j] = dst[End(m) + j]
  <2>1. End(m) \in 0 .. Len(dst)
    BY <1>1, <1>6, <1>7
  <2> QED BY <1>1, <1>8, <2>1, RestOf
<1>10. Begins(input, e)
  <2> SUFFICES ASSUME NEW j \in 1 .. Len(e), j <= Len(input) PROVE input[j] = e[j]
    BY DEF Begins
  <2>1. j \in 1 .. Len(dst) - End(m) /\ End(m) + j <= Len(dst)
    BY <1>1, <1>4, <1>6, <1>7, <1>9
  <2> QED BY <1>6, <1>9, <2>1
<1>11. ReadsCode(answer, input, p.value, e)
  BY <1>1, <1>3, <1>10, GetReads
<1>12. \A i : End(i)' = End(i) /\ Code(i)' = Code(i)
  BY <1>2 DEF End, Code
<1>13. CodesFollow' /\ LengthIsAnnounced'
  BY <1>2, <1>12 DEF CodecIInv, RoundTrips, CodesFollow, LengthIsAnnounced
<1> HIDE DEF p, e, answer
<1>14. CASE Len(e) <= Len(input)
  <2>1. answer = Parsed(p.value, SubSeq(input, Len(e) + 1, Len(input)))
    BY <1>11, <1>14 DEF ReadsCode
  <2>2. answer.ok /\ answer.value = p.value /\ answer.rest = SubSeq(input, Len(e) + 1, Len(input))
    BY <2>1 DEF Parsed
  <2>3. /\ got' \in Seq(Values32 \cup Values64 \cup Slices) /\ Len(got') = m + 1
        /\ \A i \in 1 .. m : got'[i] = got[i]
        /\ got'[m + 1] = p.value
    BY <1>0, <1>1, <1>2, <1>3, <2>2, AppendProperties
  <2>4. refused' = FALSE /\ input' = SubSeq(input, Len(e) + 1, Len(input))
    BY <1>2, <2>2
  <2>5. End(m) + Len(e) <= Len(dst) /\ End(m) \in 0 .. Len(dst) /\ Len(e) \in 0 .. Len(dst) - End(m)
    BY <1>1, <1>4, <1>6, <1>7, <1>9, <1>14
  <2>6. input' = SubSeq(dst, (End(m) + Len(e)) + 1, Len(dst))
    BY <1>1, <1>8, <2>4, <2>5, RestOfRest
  <2>7. input' \in Seq(Byte)
    BY <1>1, <1>6, <2>5, <2>6, RestOf
  <2>8. StreamIsSound'
    BY <1>1, <1>2, <2>3, <2>4, <2>7 DEF StreamIsSound
  <2>9. ParserIsBehind'
    BY <1>1, <1>2, <2>3, <2>4 DEF ParserIsBehind
  <2>10. ReadsBackWhatWasPut'
    <3>1. \A i \in 1 .. m + 1 : i \in 1 .. m \/ i = m + 1
      OBVIOUS
    <3>2. \A i \in 1 .. m + 1 : got'[i] = puts[i].value
      BY <1>8, <2>3, <3>1 DEF p
    <3>3. End(Len(got))' = End(m) + Len(e)
      BY <1>6, <1>12, <2>3
    <3> QED BY <1>2, <2>3, <2>6, <3>2, <3>3 DEF ReadsBackWhatWasPut
  <2>11. RefusesExactlyTheCutOff'
    <3>1. End(Len(got))' = End(m) + Len(e)
      BY <1>6, <1>12, <2>3
    <3> QED BY <1>2, <2>4, <2>5, <3>1 DEF RefusesExactlyTheCutOff
  <2> QED BY <1>13, <2>8, <2>9, <2>10, <2>11 DEF CodecIInv, RoundTrips
<1>15. CASE ~ (Len(e) <= Len(input))
  <2>1. ~ answer.ok /\ answer.rest \in Seq(Byte)
    BY <1>11, <1>15 DEF ReadsCode
  <2>2. refused' = TRUE /\ got' = got /\ input' \in Seq(Byte)
    BY <1>2, <2>1
  <2>3. StreamIsSound'
    BY <1>1, <1>2, <2>2 DEF StreamIsSound
  <2>4. ParserIsBehind'
    BY <1>0, <1>1, <1>2, <2>2 DEF ParserIsBehind
  <2>5. ReadsBackWhatWasPut'
    BY <1>0, <1>2, <1>8, <2>2 DEF ReadsBackWhatWasPut
  <2>6. Len(dst) < End(m + 1)
    BY <1>1, <1>4, <1>6, <1>7, <1>9, <1>15
  <2>7. RefusesExactlyTheCutOff'
    <3>1. End(Len(got) + 1)' = End(m + 1) /\ End(Len(got))' = End(m)
      BY <1>0, <1>12, <2>2
    <3> QED BY <1>2, <1>7, <2>6, <3>1 DEF RefusesExactlyTheCutOff
  <2> QED BY <1>13, <2>3, <2>4, <2>5, <2>7 DEF CodecIInv, RoundTrips
<1> QED BY <1>14, <1>15

\* Every step keeps the inductive invariant.
LEMMA CodecNextIInv ==
    ASSUME CodecIInv, [CodecNext]_codec_vars
    PROVE  CodecIInv'
<1>1. CASE CodecNext
  <2>1. ASSUME NEW v \in Values32, Put("varint32", v) \/ Put("fixed32", v)
        PROVE  CodecIInv'
    <3>1. \A n \in Nat, kind \in {"varint32", "fixed32"} :
              [kind |-> kind, value |-> v, end |-> n] \in Puttable
      BY DEF Puttable
    <3> QED BY <2>1, <3>1, PutIInv
  <2>2. ASSUME NEW v \in Values64, Put("varint64", v) \/ Put("fixed64", v)
        PROVE  CodecIInv'
    <3>1. \A n \in Nat, kind \in {"varint64", "fixed64"} :
              [kind |-> kind, value |-> v, end |-> n] \in Puttable
      BY DEF Puttable
    <3> QED BY <2>2, <3>1, PutIInv
  <2>3. ASSUME NEW s \in Slices, Put("slice", s)
        PROVE  CodecIInv'
    <3>1. \A n \in Nat : [kind |-> "slice", value |-> s, end |-> n] \in Puttable
      BY DEF Puttable
    <3> QED BY <2>3, <3>1, PutIInv
  <2>4. ASSUME NEW length \in 0 .. Len(dst), Open(length)
        PROVE  CodecIInv'
    BY <2>4, OpenIInv
  <2>5. CASE GetNext
    BY <2>5, GetNextIInv
  <2> QED BY <1>1, <2>1, <2>2, <2>3, <2>4, <2>5 DEF CodecNext
<1>2. CASE UNCHANGED codec_vars
  <2> USE <1>2 DEF codec_vars
  <2>1. \A i : End(i)' = End(i) /\ Code(i)' = Code(i)
    BY DEF End, Code
  <2>2. StreamIsSound' /\ CodesFollow' /\ ParserIsBehind'
    BY <2>1 DEF CodecIInv, StreamIsSound, CodesFollow, ParserIsBehind
  <2>3. RoundTrips'
    BY <2>1 DEF CodecIInv, RoundTrips, ReadsBackWhatWasPut, RefusesExactlyTheCutOff, LengthIsAnnounced
  <2> QED BY <2>2, <2>3 DEF CodecIInv
<1> QED BY <1>1, <1>2

\* Every value is parsed as it was put, whatever follows it; a Get refuses
\* exactly the value that the end of the string cuts off; VarintLength is what
\* the encoders write: for all integers and strings that can be put.
THEOREM CodecTheorem == CodecSpec => []RoundTrips
<1>1. CodecInit => CodecIInv
  BY CodecInitIInv
<1>2. CodecIInv /\ [CodecNext]_codec_vars => CodecIInv'
  BY CodecNextIInv
<1>3. CodecIInv => RoundTrips
  BY DEF CodecIInv
<1> QED BY <1>1, <1>2, <1>3, PTL DEF CodecSpec

-----------------------------------------------------------------------------
(* The bytes of a batch of changes                                         *)

\* An input that begins as two strings one behind the other.
LEMMA BeginsConcat ==
    ASSUME NEW x \in Seq(Byte), NEW y \in Seq(Byte), NEW in \in Seq(Byte), Begins(in, x \o y)
    PROVE  /\ x \o y \in Seq(Byte) /\ Len(x \o y) = Len(x) + Len(y)
           /\ Begins(in, x)
           /\ Len(x) <= Len(in) => /\ SubSeq(in, Len(x) + 1, Len(in)) \in Seq(Byte)
                                   /\ Len(SubSeq(in, Len(x) + 1, Len(in))) = Len(in) - Len(x)
                                   /\ Begins(SubSeq(in, Len(x) + 1, Len(in)), y)
<1>1. /\ x \o y \in Seq(Byte) /\ Len(x \o y) = Len(x) + Len(y)
      /\ \A i \in 1 .. Len(x) + Len(y) : (x \o y)[i] = IF i <= Len(x) THEN x[i] ELSE y[i - Len(x)]
  BY ConcatProperties
<1> DEFINE xy == x \o y
<1>2. \A i \in 1 .. Len(xy) : i <= Len(in) => in[i] = xy[i]
  BY DEF Begins
<1>3. Len(x) \in Nat /\ Len(y) \in Nat /\ Len(in) \in Nat /\ Len(xy) = Len(x) + Len(y)
  BY <1>1
<1> HIDE DEF xy
<1>4. Begins(in, x)
  <2>1. \A i \in 1 .. Len(x) : i \in 1 .. Len(xy) /\ xy[i] = x[i]
    BY <1>1, <1>3 DEF xy
  <2> QED BY <1>2, <2>1 DEF Begins
<1>5. ASSUME Len(x) <= Len(in)
      PROVE  /\ SubSeq(in, Len(x) + 1, Len(in)) \in Seq(Byte)
             /\ Len(SubSeq(in, Len(x) + 1, Len(in))) = Len(in) - Len(x)
             /\ Begins(SubSeq(in, Len(x) + 1, Len(in)), y)
  <2> DEFINE rest == SubSeq(in, Len(x) + 1, Len(in))
  <2>1. /\ rest \in Seq(Byte) /\ Len(rest) = Len(in) - Len(x)
        /\ \A i \in 1 .. Len(in) - Len(x) : rest[i] = in[Len(x) + i]
    BY <1>3, <1>5, RestOf
  <2> HIDE DEF rest
  <2>2. ASSUME NEW i \in 1 .. Len(y), i <= Len(rest) PROVE rest[i] = y[i]
    <3>1. /\ i \in 1 .. Len(in) - Len(x) /\ Len(x) + i \in 1 .. Len(xy) /\ Len(x) + i <= Len(in)
          /\ ~ (Len(x) + i <= Len(x)) /\ (Len(x) + i) - Len(x) = i
      BY <1>3, <2>1, <2>2
    <3>2. xy[Len(x) + i] = y[i]
      BY <1>1, <1>3, <3>1 DEF xy
    <3> QED BY <1>2, <2>1, <3>1, <3>2
  <2>3. Begins(rest, y)
    BY <2>2 DEF Begins
  <2> QED BY <2>1, <2>3 DEF rest
<1> QED BY <1>1, <1>4, <1>5

\* The bytes of a record.
LEMMA RecordBytes ==
    ASSUME NEW item \in ManifestChanges
    PROVE  EncodeRecord(item) \in Seq(Byte) /\ Len(EncodeRecord(item)) \in Nat \ {0}
<1> DEFINE a == EncodeVarint64(item.id)
           b == EncodeVarint32(item.level)
           c == EncodeVarint32(item.manifest_change_type)
<1>1. item.id \subseteq Below(64) /\ item.level \subseteq Below(32) /\ item.manifest_change_type \subseteq Below(32)
  <2>1. item.id \in TableIds /\ item.level \in Levels /\ item.manifest_change_type \in {kCreate, kDelete}
    BY DEF ManifestChanges
  <2>2. kCreate \subseteq Below(32) /\ kDelete \subseteq Below(32)
    BY DEF kCreate, kDelete, Below
  <2> QED BY <2>1, <2>2, BatchesAssumption
<1>2. <<>> \in Seq(Byte) /\ item.id \subseteq Below(64)
  BY <1>1
<1>3. a \in Seq(Byte) /\ b \in Seq(Byte) /\ c \in Seq(Byte) /\ Len(a) = VarintLength(item.id)
  BY <1>1, <1>2, Varint64Reads, Varint32Reads
<1>4. VarintLength(item.id) \in 1 .. 10
  BY <1>2, Lengths
<1> HIDE DEF a, b, c
<1>5. a \o b \in Seq(Byte) /\ Len(a \o b) = Len(a) + Len(b)
  BY <1>3, ConcatProperties
<1>6. (a \o b) \o c \in Seq(Byte) /\ Len((a \o b) \o c) = Len(a \o b) + Len(c)
  BY <1>3, <1>5, ConcatProperties
<1>7. Len((a \o b) \o c) \in Nat \ {0}
  BY <1>3, <1>4, <1>5, <1>6
<1> QED BY <1>6, <1>7 DEF EncodeRecord, a, b, c

\* One turn of DecodeTo reads the record at the beginning of the input, or is
\* stuck in the middle of it.
LEMMA RecordReads ==
    ASSUME NEW item \in ManifestChanges, NEW in \in Seq(Byte), NEW d, Begins(in, EncodeRecord(item))
    PROVE  /\ Len(EncodeRecord(item)) <= Len(in) =>
                  DecodeRecord([st |-> in, changes |-> d])
                    = [st |-> SubSeq(in, Len(EncodeRecord(item)) + 1, Len(in)), changes |-> Append(d, item)]
           /\ Len(in) < Len(EncodeRecord(item)) =>
                  /\ DecodeRecord([st |-> in, changes |-> d]).changes = d
                  /\ DecodeRecord([st |-> in, changes |-> d]).st \in Seq(Byte)
                  /\ Open7(DecodeRecord([st |-> in, changes |-> d]).st)
<1> DEFINE a     == EncodeVarint64(item.id)
           b     == EncodeVarint32(item.level)
           c     == EncodeVarint32(item.manifest_change_type)
           e     == EncodeRecord(item)
           s     == DecodeRecord([st |-> in, changes |-> d])
           id    == GetVarint64(in)
           level == IF id.ok THEN GetVarint32(id.rest) ELSE id
           type  == IF level.ok THEN GetVarint32(level.rest) ELSE level
<1>1. item.id \subseteq Below(64) /\ item.level \subseteq Below(32) /\ item.manifest_change_type \subseteq Below(32)
  <2>1. item.id \in TableIds /\ item.level \in Levels /\ item.manifest_change_type \in {kCreate, kDelete}
    BY DEF ManifestChanges
  <2>2. kCreate \subseteq Below(32) /\ kDelete \subseteq Below(32)
    BY DEF kCreate, kDelete, Below
  <2> QED BY <2>1, <2>2, BatchesAssumption
<1>2. <<>> \in Seq(Byte)
  OBVIOUS
<1>3. a \in Seq(Byte) /\ b \in Seq(Byte) /\ c \in Seq(Byte)
  BY <1>1, <1>2, Varint64Reads, Varint32Reads
<1>4. Begins(in, a) => ReadsCode(id, in, item.id, a) /\ RefusesCut(id, in, a)
  BY <1>1, Varint64Reads
<1>5. \A r \in Seq(Byte) : Begins(r, b) =>
          ReadsCode(GetVarint32(r), r, item.level, b) /\ RefusesCut(GetVarint32(r), r, b)
  BY <1>1, Varint32Reads
<1>6. \A r \in Seq(Byte) : Begins(r, c) =>
          ReadsCode(GetVarint32(r), r, item.manifest_change_type, c) /\ RefusesCut(GetVarint32(r), r, c)
  BY <1>1, Varint32Reads
<1>7. /\ s.st = type.rest
      /\ type.ok => s = [st |-> type.rest, changes |->
                           Append(d, [id |-> id.value, level |-> level.value, manifest_change_type |-> type.value])]
      /\ ~ type.ok => s.changes = d
  BY DEF DecodeRecord, KeepRecord
<1>8. e = (a \o b) \o c
  BY DEF EncodeRecord
<1> HIDE DEF a, b, c, e, s, id
<1>9. a \o b \in Seq(Byte)
  BY <1>3, ConcatProperties
<1> DEFINE ab == a \o b
<1>10. /\ Len(e) = Len(ab) + Len(c) /\ Begins(in, ab)
       /\ Len(ab) <= Len(in) => /\ SubSeq(in, Len(ab) + 1, Len(in)) \in Seq(Byte)
                                /\ Len(SubSeq(in, Len(ab) + 1, Len(in))) = Len(in) - Len(ab)
                                /\ Begins(SubSeq(in, Len(ab) + 1, Len(in)), c)
  <2>1. ab \in Seq(Byte) /\ Begins(in, ab \o c)
    BY <1>8, <1>9 DEF e
  <2> HIDE DEF ab
  <2>2. e = ab \o c
    BY <1>8 DEF ab
  <2> QED BY <1>3, <2>1, <2>2, BeginsConcat
<1>11. /\ Len(ab) = Len(a) + Len(b) /\ Begins(in, a)
       /\ Len(a) <= Len(in) => /\ SubSeq(in, Len(a) + 1, Len(in)) \in Seq(Byte)
                               /\ Len(SubSeq(in, Len(a) + 1, Len(in))) = Len(in) - Len(a)
                               /\ Begins(SubSeq(in, Len(a) + 1, Len(in)), b)
  BY <1>3, <1>10, BeginsConcat
<1> HIDE DEF ab
<1>12. Len(a) \in Nat /\ Len(b) \in Nat /\ Len(c) \in Nat /\ Len(in) \in Nat
  BY <1>3
<1>13. CASE Len(in) < Len(a)
  <2>1. id = Refused(in) /\ Open7(in)
    BY <1>4, <1>11, <1>13 DEF RefusesCut
  <2>2. ~ id.ok /\ id.rest = in
    BY <2>1 DEF Refused
  <2>3. ~ type.ok /\ type.rest = in
    BY <2>2
  <2>4. Len(in) < Len(e)
    BY <1>10, <1>11, <1>12, <1>13
  <2>5. ~ (Len(e) <= Len(in)) /\ s.changes = d /\ s.st = in
    BY <1>7, <1>10, <1>11, <1>12, <2>3, <2>4
  <2> QED BY <2>1, <2>5 DEF e, s
<1>14. CASE Len(a) <= Len(in)
  <2> DEFINE r1 == SubSeq(in, Len(a) + 1, Len(in))
  <2>1. id = Parsed(item.id, r1)
    BY <1>4, <1>11, <1>14 DEF ReadsCode
  <2>2. id.ok /\ id.rest = r1 /\ id.value = item.id
    BY <2>1 DEF Parsed
  <2>3. r1 \in Seq(Byte) /\ Len(r1) = Len(in) - Len(a) /\ Begins(r1, b)
    BY <1>11, <1>14
  <2>4. level = GetVarint32(r1)
    BY <2>2
  <2>5. ReadsCode(GetVarint32(r1), r1, item.level, b) /\ RefusesCut(GetVarint32(r1), r1, b)
    BY <1>5, <2>3
  <2>6. CASE Len(r1) < Len(b)
    <3>1. level = Refused(r1) /\ Open7(r1)
      BY <2>4, <2>5, <2>6 DEF RefusesCut
    <3>2. ~ level.ok /\ level.rest = r1
      BY <3>1 DEF Refused
    <3>3. ~ type.ok /\ type.rest = r1
      BY <3>2
    <3>4. Len(in) < Len(e) /\ ~ (Len(e) <= Len(in))
      BY <1>10, <1>11, <1>12, <2>3, <2>6
    <3>5. s.changes = d /\ s.st = r1
      BY <1>7, <3>3
    <3> QED BY <2>3, <3>1, <3>4, <3>5 DEF e, s
  <2>7. CASE Len(b) <= Len(r1)
    <3> DEFINE r2 == SubSeq(in, Len(ab) + 1, Len(in))
    <3>1. SubSeq(r1, Len(b) + 1, Len(r1)) = r2
      <4>1. Len(a) \in 0 .. Len(in) /\ Len(b) \in 0 .. Len(in) - Len(a)
        BY <1>12, <1>14, <2>3, <2>7
      <4> QED BY <1>11, <4>1, RestOfRest
    <3>2. level = Parsed(item.level, r2)
      BY <2>4, <2>5, <2>7, <3>1 DEF ReadsCode
    <3>3. level.ok /\ level.rest = r2 /\ level.value = item.level
      BY <3>2 DEF Parsed
    <3>4. Len(ab) <= Len(in)
      BY <1>11, <1>12, <2>3, <2>7
    <3>5. r2 \in Seq(Byte) /\ Len(r2) = Len(in) - Len(ab) /\ Begins(r2, c)
      BY <1>10, <3>4
    <3> HIDE DEF r1, level
    <3>6. type = GetVarint32(r2)
      BY <3>3
    <3>7. ReadsCode(GetVarint32(r2), r2, item.manifest_change_type, c) /\ RefusesCut(GetVarint32(r2), r2, c)
      BY <1>6, <3>5
    <3>8. CASE Len(r2) < Len(c)
      <4>1. type = Refused(r2) /\ Open7(r2)
        BY <3>6, <3>7, <3>8 DEF RefusesCut
      <4>2. ~ type.ok /\ type.rest = r2
        BY <4>1 DEF Refused
      <4>3. Len(in) < Len(e) /\ ~ (Len(e) <= Len(in))
        BY <1>10, <1>11, <1>12, <3>5, <3>8
      <4>4. s.changes = d /\ s.st = r2
        BY <1>7, <4>2
      <4> QED BY <3>5, <4>1, <4>3, <4>4 DEF e, s
    <3>9. CASE Len(c) <= Len(r2)
      <4>1. SubSeq(r2, Len(c) + 1, Len(r2)) = SubSeq(in, Len(e) + 1, Len(in))
        <5>1. Len(ab) \in 0 .. Len(in) /\ Len(c) \in 0 .. Len(in) - Len(ab)
          BY <1>11, <1>12, <3>4, <3>5, <3>9
        <5> QED BY <1>10, <5>1, RestOfRest
      <4>2. type = Parsed(item.manifest_change_type, SubSeq(in, Len(e) + 1, Len(in)))
        BY <3>6, <3>7, <3>9, <4>1 DEF ReadsCode
      <4>3. type.ok /\ type.rest = SubSeq(in, Len(e) + 1, Len(in)) /\ type.value = item.manifest_change_type
        BY <4>2 DEF Parsed
      <4>4. item = [id |-> item.id, level |-> item.level, manifest_change_type |-> item.manifest_change_type]
        BY DEF ManifestChanges
      <4>5. s = [st |-> SubSeq(in, Len(e) + 1, Len(in)), changes |-> Append(d, item)]
        BY <1>7, <2>2, <3>3, <4>3, <4>4
      <4>6. ~ (Len(in) < Len(e))
        BY <1>10, <1>11, <1>12, <3>5, <3>9
      <4> QED BY <4>5, <4>6 DEF e, s
    <3> QED BY <1>12, <3>5, <3>8, <3>9
  <2> QED BY <1>12, <2>3, <2>6, <2>7
<1> QED BY <1>12, <1>13, <1>14

\* Once it is stuck it stays so.
LEMMA RecordStuck ==
    ASSUME NEW s, s.st \in Seq(Byte), Open7(s.st)
    PROVE  DecodeRecord(s).st = s.st /\ DecodeRecord(s).changes = s.changes
<1>1. GetVarint64(s.st) = Refused(s.st)
  <2>1. 10 \in Nat /\ 64 \in Nat /\ \A i \in 1 .. Len(s.st) : 7 \in s.st[i]
    BY DEF Open7
  <2> DEFINE in == s.st
  <2> HIDE DEF in
  <2>2. in \in Seq(Byte) /\ \A i \in 1 .. Len(in) : 7 \in in[i]
    BY <2>1 DEF in
  <2>3. GetVarint(in, 10, 64) = Refused(in)
    BY <2>1, <2>2, VarintRefused
  <2> QED BY <2>3 DEF in, GetVarint64
<1>2. ~ GetVarint64(s.st).ok /\ GetVarint64(s.st).rest = s.st
  BY <1>1 DEF Refused
<1> QED BY <1>2 DEF DecodeRecord, KeepRecord

\* What GetVarint answers, whatever it reads.
LEMMA VarintType ==
    ASSUME NEW in \in Seq(Byte), NEW n \in Nat, NEW width \in Nat
    PROVE  /\ GetVarint(in, n, width).rest \in Seq(Byte)
           /\ GetVarint(in, n, width).ok => GetVarint(in, n, width).value \in SUBSET Below(width)
<1> DEFINE last == {i \in 1 .. Min({n, Len(in)}) : 7 \notin in[i]}
           whole == UNION {Left(in[i] \cap Below(7), 7 * (i - 1), width) : i \in 1 .. Min(last)}
<1>1. GetVarint(in, n, width)
        = IF last = {} THEN Refused(in) ELSE Parsed(whole, SubSeq(in, Min(last) + 1, Len(in)))
  BY DEF GetVarint
<1>2. Min({n, Len(in)}) \in {n, Len(in)} /\ Min({n, Len(in)}) <= Len(in)
  BY LesserOf
<1>3. last \subseteq 1 .. Len(in) /\ last \subseteq Nat
  BY <1>2
<1>4. whole \in SUBSET Below(width)
  BY DEF Left
<1> HIDE DEF whole, last
<1>5. CASE last = {}
  BY <1>1, <1>5 DEF Refused
<1>6. CASE last # {}
  <2>1. Min(last) \in last
    BY <1>3, <1>6, LeastOf
  <2>2. Min(last) \in 0 .. Len(in)
    <3>1. Min(last) \in 1 .. Len(in)
      BY <1>3, <2>1
    <3> QED BY <3>1
  <2>3. SubSeq(in, Min(last) + 1, Len(in)) \in Seq(Byte)
    BY <2>2, RestOf
  <2>4. GetVarint(in, n, width) = Parsed(whole, SubSeq(in, Min(last) + 1, Len(in)))
    BY <1>1, <1>6
  <2> QED BY <1>4, <2>3, <2>4 DEF Parsed
<1> QED BY <1>5, <1>6

Decoded == [id : SUBSET Nat, level : SUBSET Nat, manifest_change_type : SUBSET Nat]
DecoderStates == [st : Seq(Byte), changes : Seq(Decoded)]

\* What a turn of DecodeTo leaves.
LEMMA RecordType ==
    ASSUME NEW s \in DecoderStates
    PROVE  DecodeRecord(s) \in DecoderStates
<1> DEFINE id    == GetVarint64(s.st)
           level == IF id.ok THEN GetVarint32(id.rest) ELSE id
           type  == IF level.ok THEN GetVarint32(level.rest) ELSE level
<1>1. s.st \in Seq(Byte) /\ s.changes \in Seq(Decoded)
  BY DEF DecoderStates
<1>2. \A in \in Seq(Byte) : /\ GetVarint32(in).rest \in Seq(Byte)
                            /\ GetVarint32(in).ok => GetVarint32(in).value \in SUBSET Nat
  <2> SUFFICES ASSUME NEW in \in Seq(Byte)
               PROVE  /\ GetVarint32(in).rest \in Seq(Byte)
                      /\ GetVarint32(in).ok => GetVarint32(in).value \in SUBSET Nat
    OBVIOUS
  <2>1. 5 \in Nat /\ 32 \in Nat /\ Below(32) \subseteq Nat
    BY DEF Below
  <2>2. /\ GetVarint(in, 5, 32).rest \in Seq(Byte)
        /\ GetVarint(in, 5, 32).ok => GetVarint(in, 5, 32).value \in SUBSET Below(32)
    BY <2>1, VarintType
  <2> QED BY <2>1, <2>2, QuickPath
<1>3. id.rest \in Seq(Byte) /\ (id.ok => id.value \in SUBSET Nat)
  <2>1. 10 \in Nat /\ 64 \in Nat /\ Below(64) \subseteq Nat
    BY DEF Below
  <2> DEFINE in == s.st
  <2> HIDE DEF in
  <2>2. in \in Seq(Byte)
    BY <1>1 DEF in
  <2>3. /\ GetVarint(in, 10, 64).rest \in Seq(Byte)
        /\ GetVarint(in, 10, 64).ok => GetVarint(in, 10, 64).value \in SUBSET Below(64)
    BY <2>1, <2>2, VarintType
  <2> QED BY <2>1, <2>3 DEF in, GetVarint64
<1> HIDE DEF id
<1>4. level.rest \in Seq(Byte) /\ (level.ok => id.ok /\ level.value \in SUBSET Nat)
  BY <1>2, <1>3
<1> HIDE DEF level
<1>5. type.rest \in Seq(Byte) /\ (type.ok => level.ok /\ type.value \in SUBSET Nat)
  BY <1>2, <1>4
<1>6. DecodeRecord(s) = [st |-> type.rest,
         changes |-> IF type.ok THEN Append(s.changes, [id |-> id.value, level |-> level.value,
                                          manifest_change_type |-> IF type.ok THEN type.value ELSE kCreate])
                     ELSE s.changes]
  BY DEF DecodeRecord, KeepRecord, id, level
<1> HIDE DEF type
<1>7. CASE type.ok
  <2> DEFINE r == [id |-> id.value, level |-> level.value, manifest_change_type |-> type.value]
  <2>1. r \in Decoded
    BY <1>3, <1>4, <1>5, <1>7 DEF Decoded
  <2>2. DecodeRecord(s) = [st |-> type.rest, changes |-> Append(s.changes, r)]
    BY <1>6, <1>7
  <2> HIDE DEF r
  <2>3. Append(s.changes, r) \in Seq(Decoded)
    BY <1>1, <2>1
  <2> QED BY <1>5, <2>2, <2>3 DEF DecoderStates
<1>8. CASE ~ type.ok
  BY <1>1, <1>5, <1>6, <1>8 DEF DecoderStates
<1> QED BY <1>7, <1>8

\* What EncodeTo has written after every record of a batch.
Written(out, changes) ==
    /\ out \in [0 .. Len(changes) -> Seq(Byte)]
    /\ out[0] = EncodeVarint32(Word[Len(changes)])
    /\ \A i \in 1 .. Len(changes) : out[i] = out[i - 1] \o EncodeRecord(changes[i])
    /\ EncodeTo(changes) = out[Len(changes)]

\* It does write them one by one.
LEMMA EncodeToWrites ==
    ASSUME NEW changes \in Seq(ManifestChanges), changes # <<>>, Word[Len(changes)] \subseteq Below(32)
    PROVE  \E out : Written(out, changes)
<1> DEFINE n       == Len(changes)
           base    == EncodeVarint32(Word[n])
           step    == [i \in 1 .. n |-> [s \in Seq(Byte) |-> s \o EncodeRecord(changes[i])]]
           Is(out) == out = [i \in 0 .. n |-> IF i > 0 THEN out[i - 1] \o EncodeRecord(changes[i]) ELSE base]
           out     == CHOOSE f : Is(f)
<1>1. n \in Nat /\ n # 0 /\ \A i \in 1 .. n : EncodeRecord(changes[i]) \in Seq(Byte)
  BY RecordBytes
<1>2. base \in Seq(Byte)
  <2>1. <<>> \in Seq(Byte)
    OBVIOUS
  <2> QED BY <2>1, Varint32Reads
<1>3. EncodeTo(changes) = out[n]
  BY DEF EncodeTo
<1>4. step \in [1 .. n -> [Seq(Byte) -> Seq(Byte)]]
  BY <1>1, ConcatProperties
<1>5. \A i \in 1 .. n : \A s \in Seq(Byte) : step[i][s] = s \o EncodeRecord(changes[i])
  OBVIOUS
<1> HIDE DEF n, base, step, out
<1>6. PICK f : Takes(f, step, base, n, Seq(Byte))
  <2>1. AreSteps(step, base, n, Seq(Byte))
    BY <1>1, <1>2, <1>4 DEF AreSteps
  <2> QED BY <2>1, StepsExist
<1>7. /\ f \in [0 .. n -> Seq(Byte)] /\ f[0] = base
      /\ \A i \in 1 .. n : f[i] = f[i - 1] \o EncodeRecord(changes[i])
  <2>1. f \in [0 .. n -> Seq(Byte)] /\ f[0] = base /\ \A i \in 1 .. n : f[i] = step[i][f[i - 1]]
    BY <1>6 DEF Takes
  <2>2. \A i \in 1 .. n : i - 1 \in 0 .. n /\ f[i - 1] \in Seq(Byte)
    BY <1>1, <2>1
  <2> QED BY <1>5, <2>1, <2>2
<1>8. f = [i \in 0 .. n |-> f[i]] /\ \A i \in 0 .. n : f[i] = IF i > 0 THEN f[i - 1] \o EncodeRecord(changes[i]) ELSE base
  <2>1. \A i \in 0 .. n : (i > 0 => i \in 1 .. n) /\ (~ (i > 0) => i = 0)
    BY <1>1
  <2> QED BY <1>7, <2>1
<1>9. Is(f)
  BY <1>8
<1>10. Is(out)
  BY <1>9 DEF out
<1>11. /\ DOMAIN out = 0 .. n /\ out = [i \in 0 .. n |-> out[i]] /\ out[0] = base
       /\ \A i \in 1 .. n : out[i] = out[i - 1] \o EncodeRecord(changes[i])
  <2>1. 0 \in 0 .. n /\ ~ (0 > 0) /\ \A i \in 1 .. n : i \in 0 .. n /\ i > 0
    BY <1>1
  <2>2. DOMAIN out = 0 .. n /\ out = [i \in 0 .. n |-> out[i]]
    BY <1>10
  <2>3. \A i \in 0 .. n : out[i] = IF i > 0 THEN out[i - 1] \o EncodeRecord(changes[i]) ELSE base
    BY <1>10
  <2> QED BY <2>1, <2>2, <2>3
<1>12. \A i \in 0 .. n : out[i] \in Seq(Byte)
  <2> DEFINE T == {i \in 0 .. n : out[i] \in Seq(Byte)}
  <2>1. 0 \in T
    BY <1>1, <1>2, <1>11
  <2>2. ASSUME NEW i \in 1 .. n, i - 1 \in T PROVE i \in T
    <3>1. out[i - 1] \in Seq(Byte) /\ EncodeRecord(changes[i]) \in Seq(Byte) /\ i \in 0 .. n
      BY <1>1, <2>2
    <3>2. out[i - 1] \o EncodeRecord(changes[i]) \in Seq(Byte)
      BY <3>1, ConcatProperties
    <3> QED BY <1>11, <3>1, <3>2
  <2> HIDE DEF T
  <2>3. \A i \in 0 .. n : i \in T
    <3>1. \A i \in 1 .. n : i - 1 \in T => i \in T
      BY <2>2
    <3> QED BY <1>1, <2>1, <3>1, UpTo
  <2> QED BY <2>3 DEF T
<1>13. out \in [0 .. n -> Seq(Byte)]
  BY <1>11, <1>12
<1>14. Written(out, changes)
  BY <1>3, <1>11, <1>13 DEF Written, n, base
<1> QED BY <1>14

\* What DecodeTo has after every turn of its loop.
Turned(state, bytes) ==
    LET count == GetVarint32(bytes)
        turns == Turns(count)
    IN  /\ turns \in Nat
        /\ state \in [0 .. turns -> DecoderStates]
        /\ state[0] = [st |-> count.rest, changes |-> <<>>]
        /\ \A i \in 1 .. turns : state[i] = DecodeRecord(state[i - 1])
        /\ DecodeTo(bytes) = state[turns].changes

\* It does turn after turn.
LEMMA DecodeToTurns ==
    ASSUME NEW bytes \in Seq(Byte)
    PROVE  \E state : Turned(state, bytes)
<1> DEFINE count     == GetVarint32(bytes)
           n         == Turns(count)
           base      == [st |-> count.rest, changes |-> <<>>]
           step      == [i \in 1 .. n |-> [s \in DecoderStates |-> DecodeRecord(s)]]
           Is(state) == state = [i \in 0 .. n |-> IF i > 0 THEN DecodeRecord(state[i - 1]) ELSE base]
           state     == CHOOSE f : Is(f)
<1>1. DecodeTo(bytes) = state[n].changes
  BY DEF DecodeTo
<1>2. count.rest \in Seq(Byte)
  <2>1. 5 \in Nat /\ 32 \in Nat
    OBVIOUS
  <2>2. GetVarint(bytes, 5, 32).rest \in Seq(Byte)
    BY <2>1, VarintType
  <2> QED BY <2>2, QuickPath
<1>3. base \in DecoderStates
  <2>1. <<>> \in Seq(Decoded)
    OBVIOUS
  <2> QED BY <1>2, <2>1 DEF DecoderStates
<1>4. n \in Nat
  <2> DEFINE U == {m \in 0 .. Len(count.rest) : Word[m] = count.value} \cup {Len(count.rest)}
  <2>1. U \subseteq Nat /\ U # {}
    BY <1>2
  <2>2. n = IF ~ count.ok THEN 0 ELSE Min(U)
    BY DEF Turns
  <2> HIDE DEF U, n
  <2>3. Min(U) \in Nat
    BY <2>1, LeastOf
  <2> QED BY <2>2, <2>3
<1>5. step \in [1 .. n -> [DecoderStates -> DecoderStates]]
  BY RecordType
<1>6. \A i \in 1 .. n : \A s \in DecoderStates : step[i][s] = DecodeRecord(s)
  OBVIOUS
<1> HIDE DEF count, n, base, step, state
<1>7. PICK f : Takes(f, step, base, n, DecoderStates)
  <2>1. AreSteps(step, base, n, DecoderStates)
    BY <1>3, <1>4, <1>5 DEF AreSteps
  <2> QED BY <2>1, StepsExist
<1>8. /\ f \in [0 .. n -> DecoderStates] /\ f[0] = base
      /\ \A i \in 1 .. n : f[i] = DecodeRecord(f[i - 1])
  <2>1. f \in [0 .. n -> DecoderStates] /\ f[0] = base /\ \A i \in 1 .. n : f[i] = step[i][f[i - 1]]
    BY <1>7 DEF Takes
  <2>2. \A i \in 1 .. n : i - 1 \in 0 .. n /\ f[i - 1] \in DecoderStates
    BY <1>4, <2>1
  <2> QED BY <1>6, <2>1, <2>2
<1>9. Is(f)
  <2>1. \A i \in 0 .. n : (i > 0 => i \in 1 .. n) /\ (~ (i > 0) => i = 0)
    BY <1>4
  <2>2. f = [i \in 0 .. n |-> f[i]] /\ \A i \in 0 .. n : f[i] = IF i > 0 THEN DecodeRecord(f[i - 1]) ELSE base
    BY <1>8, <2>1
  <2> QED BY <2>2
<1>10. Is(state)
  BY <1>9 DEF state
<1>11. /\ DOMAIN state = 0 .. n /\ state = [i \in 0 .. n |-> state[i]] /\ state[0] = base
       /\ \A i \in 1 .. n : state[i] = DecodeRecord(state[i - 1])
  <2>1. 0 \in 0 .. n /\ ~ (0 > 0) /\ \A i \in 1 .. n : i \in 0 .. n /\ i > 0
    BY <1>4
  <2>2. DOMAIN state = 0 .. n /\ state = [i \in 0 .. n |-> state[i]]
    BY <1>10
  <2>3. \A i \in 0 .. n : state[i] = IF i > 0 THEN DecodeRecord(state[i - 1]) ELSE base
    BY <1>10
  <2> QED BY <2>1, <2>2, <2>3
<1>12. \A i \in 0 .. n : state[i] \in DecoderStates
  <2> DEFINE T == {i \in 0 .. n : state[i] \in DecoderStates}
  <2>1. 0 \in T
    BY <1>3, <1>4, <1>11
  <2>2. \A i \in 1 .. n : i - 1 \in T => i \in T
    BY <1>4, <1>11, RecordType
  <2> HIDE DEF T
  <2>3. \A i \in 0 .. n : i \in T
    BY <1>4, <2>1, <2>2, UpTo
  <2> QED BY <2>3 DEF T
<1>13. state \in [0 .. n -> DecoderStates]
  BY <1>11, <1>12
<1>14. Turned(state, bytes)
  BY <1>1, <1>4, <1>11, <1>13 DEF Turned, n, base, count
<1> QED BY <1>14

\* Of what EncodeTo writes every record only adds to what is there; a file that
\* begins as the whole begins as what is there after any number of records, and
\* the next one is behind it.
LEMMA WrittenBegins ==
    ASSUME NEW changes \in Seq(ManifestChanges), NEW out, Written(out, changes),
           NEW file \in Seq(Byte), Begins(file, out[Len(changes)])
    PROVE  /\ \A i \in 0 .. Len(changes) : /\ Len(out[i]) \in Nat /\ Begins(file, out[i])
                                           /\ Len(out[0]) + i <= Len(out[i])
                                           /\ Len(out[i]) <= Len(out[Len(changes)])
           /\ \A i \in 1 .. Len(changes) :
                 /\ Len(out[i]) = Len(out[i - 1]) + Len(EncodeRecord(changes[i]))
                 /\ Len(EncodeRecord(changes[i])) \in Nat
                 /\ Len(out[i - 1]) <= Len(file) =>
                       /\ SubSeq(file, Len(out[i - 1]) + 1, Len(file)) \in Seq(Byte)
                       /\ Len(SubSeq(file, Len(out[i - 1]) + 1, Len(file))) = Len(file) - Len(out[i - 1])
                       /\ Begins(SubSeq(file, Len(out[i - 1]) + 1, Len(file)), EncodeRecord(changes[i]))
<1>0. PICK n \in Nat : n = Len(changes)
  OBVIOUS
<1>1. \A i \in 0 .. n : out[i] \in Seq(Byte) /\ Len(out[i]) \in Nat
  BY <1>0 DEF Written
<1>2. ASSUME NEW i \in 1 .. n
      PROVE  /\ out[i - 1] \in Seq(Byte) /\ EncodeRecord(changes[i]) \in Seq(Byte)
             /\ out[i] = out[i - 1] \o EncodeRecord(changes[i])
             /\ Len(out[i]) = Len(out[i - 1]) + Len(EncodeRecord(changes[i]))
             /\ Len(EncodeRecord(changes[i])) \in Nat \ {0}
  <2>1. i - 1 \in 0 .. n /\ changes[i] \in ManifestChanges
    BY <1>0
  <2>2. out[i - 1] \in Seq(Byte) /\ EncodeRecord(changes[i]) \in Seq(Byte)
        /\ Len(EncodeRecord(changes[i])) \in Nat \ {0}
    BY <1>1, <2>1, RecordBytes
  <2>3. out[i] = out[i - 1] \o EncodeRecord(changes[i])
    BY <1>0 DEF Written
  <2> QED BY <2>2, <2>3, ConcatProperties
<1>3. ASSUME NEW i \in 0 .. n PROVE Len(out[0]) + i <= Len(out[i])
  <2> DEFINE T == {j \in 0 .. n : Len(out[0]) + j <= Len(out[j])}
  <2>1. 0 \in T
    BY <1>1
  <2>2. ASSUME NEW j \in 1 .. n, j - 1 \in T PROVE j \in T
    <3>1. Len(out[0]) + (j - 1) <= Len(out[j - 1]) /\ Len(out[0]) \in Nat /\ Len(out[j - 1]) \in Nat
      BY <1>1, <2>2
    <3>2. Len(out[j]) = Len(out[j - 1]) + Len(EncodeRecord(changes[j]))
          /\ Len(EncodeRecord(changes[j])) \in Nat \ {0}
      BY <1>2
    <3>3. Len(out[0]) + j <= Len(out[j]) /\ j \in 0 .. n
      <4> DEFINE a == Len(out[0])
                 x == Len(out[j - 1])
                 y == Len(out[j])
                 r == Len(EncodeRecord(changes[j]))
      <4>1. a + (j - 1) <= x /\ a \in Nat /\ x \in Nat /\ y = x + r /\ r \in Nat /\ r # 0
        BY <3>1, <3>2
      <4>2. a + j <= y /\ j \in 0 .. n
        <5> HIDE DEF a, x, y, r
        <5> QED BY <4>1
      <4> QED BY <4>2
    <3> QED BY <3>3
  <2> HIDE DEF T
  <2>3. \A j \in 1 .. n : j - 1 \in T => j \in T
    BY <2>2
  <2>4. \A j \in 0 .. n : j \in T
    BY <2>1, <2>3, UpTo
  <2> QED BY <2>4 DEF T
<1>4. ASSUME NEW i \in 0 .. n PROVE Begins(file, out[i]) /\ Len(out[i]) <= Len(out[n])
  <2> DEFINE T == {k \in 0 .. n : Begins(file, out[n - k]) /\ Len(out[n - k]) <= Len(out[n])}
  <2>1. 0 \in T
    BY <1>0, <1>1
  <2>2. ASSUME NEW k \in 1 .. n, k - 1 \in T PROVE k \in T
    <3> DEFINE j == n - (k - 1)
    <3>1. j \in 1 .. n /\ j - 1 = n - k /\ k \in 0 .. n /\ j - 1 \in 0 .. n /\ j \in 0 .. n /\ n \in 0 .. n
      OBVIOUS
    <3>2. Begins(file, out[j]) /\ Len(out[j]) <= Len(out[n])
      BY <2>2
    <3> HIDE DEF j
    <3>3. Begins(file, out[j - 1] \o EncodeRecord(changes[j]))
          /\ out[j - 1] \in Seq(Byte) /\ EncodeRecord(changes[j]) \in Seq(Byte)
      BY <1>2, <3>1, <3>2
    <3>4. Begins(file, out[j - 1])
      BY <3>3, BeginsConcat
    <3>5. Len(out[j - 1]) <= Len(out[n])
      <4>1. Len(out[j - 1]) \in Nat /\ Len(out[j]) \in Nat /\ Len(out[n]) \in Nat
        BY <1>1, <3>1
      <4>2. Len(out[j]) = Len(out[j - 1]) + Len(EncodeRecord(changes[j]))
            /\ Len(EncodeRecord(changes[j])) \in Nat \ {0}
        BY <1>2, <3>1
      <4> DEFINE x == Len(out[j - 1])
                 y == Len(out[j])
                 z == Len(out[n])
                 r == Len(EncodeRecord(changes[j]))
      <4>3. x \in Nat /\ z \in Nat /\ y = x + r /\ r \in Nat /\ y <= z
        BY <3>2, <4>1, <4>2
      <4>4. x <= z
        <5> HIDE DEF x, y, z, r
        <5> QED BY <4>3
      <4> QED BY <4>4
    <3> QED BY <3>1, <3>4, <3>5
  <2> HIDE DEF T
  <2>3. \A k \in 1 .. n : k - 1 \in T => k \in T
    BY <2>2
  <2>4. \A k \in 0 .. n : k \in T
    BY <2>1, <2>3, UpTo
  <2>5. n - i \in T /\ n - (n - i) = i
    BY <2>4
  <2> QED BY <2>5 DEF T
<1>5. ASSUME NEW i \in 1 .. n, Len(out[i - 1]) <= Len(file)
      PROVE  /\ SubSeq(file, Len(out[i - 1]) + 1, Len(file)) \in Seq(Byte)
             /\ Len(SubSeq(file, Len(out[i - 1]) + 1, Len(file))) = Len(file) - Len(out[i - 1])
             /\ Begins(SubSeq(file, Len(out[i - 1]) + 1, Len(file)), EncodeRecord(changes[i]))
  <2>1. i \in 0 .. n
    OBVIOUS
  <2>2. Begins(file, out[i - 1] \o EncodeRecord(changes[i]))
        /\ out[i - 1] \in Seq(Byte) /\ EncodeRecord(changes[i]) \in Seq(Byte)
    BY <1>2, <1>4, <2>1
  <2> QED BY <1>5, <2>2, BeginsConcat
<1> QED BY <1>0, <1>1, <1>2, <1>3, <1>4, <1>5

\* After i turns on a file that begins as a batch, DecodeTo has read i records
\* and stands behind them, or is stuck behind the last whole one.
Follows(s, i, changes, out, file) ==
    \/ /\ Len(out[i]) <= Len(file)
       /\ s = [st |-> SubSeq(file, Len(out[i]) + 1, Len(file)), changes |-> SubSeq(changes, 1, i)]
    \/ /\ Len(file) < Len(out[i])
       /\ Open7(s.st)
       /\ \E k \in 0 .. Len(changes) : s.changes = SubSeq(changes, 1, k)

\* One turn more.
LEMMA FollowsOn ==
    ASSUME NEW changes \in Seq(ManifestChanges), NEW out, Written(out, changes),
           NEW file \in Seq(Byte), Begins(file, out[Len(changes)]),
           NEW i \in 1 .. Len(changes), NEW s \in DecoderStates, Follows(s, i - 1, changes, out, file)
    PROVE  Follows(DecodeRecord(s), i, changes, out, file)
<1> DEFINE x == Len(out[i - 1])
           y == Len(out[i])
           e == EncodeRecord(changes[i])
           f == Len(file)
<1>1. /\ x \in Nat /\ y \in Nat /\ f \in Nat /\ Len(e) \in Nat /\ y = x + Len(e)
      /\ x <= f => /\ SubSeq(file, x + 1, f) \in Seq(Byte)
                   /\ Len(SubSeq(file, x + 1, f)) = f - x
                   /\ Begins(SubSeq(file, x + 1, f), e)
  <2>1. i \in 0 .. Len(changes) /\ i - 1 \in 0 .. Len(changes)
    OBVIOUS
  <2>2. x \in Nat /\ y \in Nat
    BY <2>1, WrittenBegins
  <2>3. /\ y = x + Len(e) /\ Len(e) \in Nat
        /\ x <= f => /\ SubSeq(file, x + 1, f) \in Seq(Byte)
                     /\ Len(SubSeq(file, x + 1, f)) = f - x
                     /\ Begins(SubSeq(file, x + 1, f), e)
    <3>1. \A j \in 1 .. Len(changes) :
             /\ Len(out[j]) = Len(out[j - 1]) + Len(EncodeRecord(changes[j]))
             /\ Len(EncodeRecord(changes[j])) \in Nat
             /\ Len(out[j - 1]) <= Len(file) =>
                   /\ SubSeq(file, Len(out[j - 1]) + 1, Len(file)) \in Seq(Byte)
                   /\ Len(SubSeq(file, Len(out[j - 1]) + 1, Len(file))) = Len(file) - Len(out[j - 1])
                   /\ Begins(SubSeq(file, Len(out[j - 1]) + 1, Len(file)), EncodeRecord(changes[j]))
      BY WrittenBegins
    <3> QED BY <3>1
  <2>4. f \in Nat
    OBVIOUS
  <2> HIDE DEF x, y, e, f
  <2> QED BY <2>2, <2>3, <2>4
<1>2. changes[i] \in ManifestChanges
  OBVIOUS
<1> HIDE DEF x, y, e, f
<1>3. CASE x <= f
  <2> DEFINE in == SubSeq(file, x + 1, f)
             d  == SubSeq(changes, 1, i - 1)
  <2>1. s = [st |-> in, changes |-> d]
    <3>1. ~ (f < x)
      BY <1>1, <1>3
    <3> QED BY <3>1 DEF Follows, x, f
  <2>2. in \in Seq(Byte) /\ Len(in) = f - x /\ Begins(in, e)
    BY <1>1, <1>3
  <2>3. Append(d, changes[i]) = SubSeq(changes, 1, i)
    OBVIOUS
  <2>4. Len(e) <= Len(in) => SubSeq(in, Len(e) + 1, Len(in)) = SubSeq(file, y + 1, f)
    <3> SUFFICES ASSUME Len(e) <= Len(in) PROVE SubSeq(in, Len(e) + 1, Len(in)) = SubSeq(file, y + 1, f)
      OBVIOUS
    <3>1. x \in 0 .. Len(file) /\ Len(e) \in 0 .. Len(file) - x
      BY <1>1, <1>3, <2>2 DEF f
    <3> QED BY <1>1, <3>1, RestOfRest DEF f
  <2> HIDE DEF in, d
  <2>5. /\ Len(e) <= Len(in) => DecodeRecord(s) = [st |-> SubSeq(in, Len(e) + 1, Len(in)), changes |-> Append(d, changes[i])]
        /\ Len(in) < Len(e) => DecodeRecord(s).changes = d /\ DecodeRecord(s).st \in Seq(Byte) /\ Open7(DecodeRecord(s).st)
    <3>1. /\ Len(e) <= Len(in) => DecodeRecord([st |-> in, changes |-> d])
                                    = [st |-> SubSeq(in, Len(e) + 1, Len(in)), changes |-> Append(d, changes[i])]
          /\ Len(in) < Len(e) => /\ DecodeRecord([st |-> in, changes |-> d]).changes = d
                                 /\ DecodeRecord([st |-> in, changes |-> d]).st \in Seq(Byte)
                                 /\ Open7(DecodeRecord([st |-> in, changes |-> d]).st)
      BY <1>2, <2>2, RecordReads DEF e
    <3> QED BY <2>1, <3>1
  <2>6. CASE Len(e) <= Len(in)
    <3>1. y <= f
      BY <1>1, <1>3, <2>2, <2>6
    <3>2. DecodeRecord(s) = [st |-> SubSeq(file, y + 1, f), changes |-> SubSeq(changes, 1, i)]
      BY <2>3, <2>4, <2>5, <2>6
    <3> QED BY <3>1, <3>2 DEF Follows, y, f
  <2>7. CASE Len(in) < Len(e)
    <3>1. f < y /\ i - 1 \in 0 .. Len(changes)
      BY <1>1, <1>3, <2>2, <2>7
    <3> QED BY <2>5, <2>7, <3>1 DEF Follows, y, f, d
  <2> QED BY <1>1, <2>2, <2>6, <2>7
<1>4. CASE f < x
  <2>1. f < y
    BY <1>1, <1>4
  <2>2. ~ (x <= f) /\ s.st \in Seq(Byte)
    BY <1>1, <1>4 DEF DecoderStates
  <2>3. Open7(s.st) /\ \E k \in 0 .. Len(changes) : s.changes = SubSeq(changes, 1, k)
    BY <2>2 DEF Follows, x, f
  <2>4. DecodeRecord(s).st = s.st /\ DecodeRecord(s).changes = s.changes
    BY <2>2, <2>3, RecordStuck
  <2> QED BY <2>1, <2>3, <2>4 DEF Follows, y, f
<1> QED BY <1>1, <1>3, <1>4

\* What DecodeTo reads of a file that begins as a batch: the batch when there is
\* all of it, otherwise the records at its beginning.
LEMMA DecodeToReads ==
    ASSUME NEW changes \in Seq(ManifestChanges), changes # <<>>, Word[Len(changes)] \subseteq Below(32),
           NEW file \in Seq(Byte), Begins(file, EncodeTo(changes))
    PROVE  /\ Len(EncodeTo(changes)) <= Len(file) => DecodeTo(file) = changes
           /\ IsPrefix(DecodeTo(file), changes)
<1>1. PICK out : Written(out, changes)
  BY EncodeToWrites
<1>2. PICK state : Turned(state, file)
  BY DecodeToTurns
<1>3. PICK n \in Nat : n = Len(changes) /\ n # 0
  OBVIOUS
<1> DEFINE count == GetVarint32(file)
           turns == Turns(count)
           head  == out[0]
<1>4. out[n] = EncodeTo(changes) /\ head = EncodeVarint32(Word[n])
  BY <1>1, <1>3 DEF Written
<1>5. \A i \in 0 .. n : /\ Len(out[i]) \in Nat /\ Begins(file, out[i])
                        /\ Len(head) + i <= Len(out[i]) /\ Len(out[i]) <= Len(out[n])
  BY <1>1, <1>3, <1>4, WrittenBegins
<1>6. ReadsCode(count, file, Word[n], head) /\ RefusesCut(count, file, head)
  <2>1. Begins(file, head)
    BY <1>3, <1>5
  <2> QED BY <1>3, <1>4, <2>1, Varint32Reads
<1>7. /\ turns \in Nat /\ state \in [0 .. turns -> DecoderStates]
      /\ state[0] = [st |-> count.rest, changes |-> <<>>]
      /\ \A i \in 1 .. turns : state[i] = DecodeRecord(state[i - 1])
      /\ DecodeTo(file) = state[turns].changes
  BY <1>2 DEF Turned
<1>8. \A k \in 0 .. n : IsPrefix(SubSeq(changes, 1, k), changes)
  <2> SUFFICES ASSUME NEW k \in 0 .. n PROVE IsPrefix(SubSeq(changes, 1, k), changes)
    OBVIOUS
  <2> DEFINE p == SubSeq(changes, 1, k)
  <2>1. p \in Seq(ManifestChanges) /\ Len(p) = k /\ k <= Len(changes) /\ SubSeq(p, 1, k) = p
    BY <1>3
  <2> QED BY <2>1 DEF IsPrefix
<1>9. Len(head) \in Nat /\ Len(file) \in Nat /\ 0 \in 0 .. n /\ n \in 0 .. n
  BY <1>3, <1>5
<1>10. CASE Len(file) < Len(head)
  <2>1. count = Refused(file)
    BY <1>6, <1>10 DEF RefusesCut
  <2>2. turns = 0
    BY <2>1 DEF Turns, Refused
  <2>3. DecodeTo(file) = <<>> /\ <<>> = SubSeq(changes, 1, 0)
    BY <1>7, <2>2
  <2>4. ~ (Len(EncodeTo(changes)) <= Len(file))
    BY <1>4, <1>5, <1>9, <1>10
  <2> QED BY <1>8, <1>9, <2>3, <2>4
<1>11. CASE Len(head) <= Len(file)
  <2> DEFINE rest == SubSeq(file, Len(head) + 1, Len(file))
             U    == {m \in 0 .. Len(rest) : Word[m] = Word[n]} \cup {Len(rest)}
  <2>1. count = Parsed(Word[n], rest)
    BY <1>6, <1>11 DEF ReadsCode
  <2>2. count.ok /\ count.value = Word[n] /\ count.rest = rest
    BY <2>1 DEF Parsed
  <2>3. rest \in Seq(Byte) /\ Len(rest) = Len(file) - Len(head)
    <3>1. Len(head) \in 0 .. Len(file)
      BY <1>9, <1>11
    <3> HIDE DEF head
    <3> QED BY <3>1, RestOf
  <2>4. turns = Min(U)
    BY <2>2 DEF Turns
  <2> HIDE DEF rest, turns
  <2>5. \A m \in U : m = n \/ m = Len(rest)
    BY <1>3, <2>3, WordInjective
  <2>6. turns \in U /\ \A m \in U : turns <= m
    <3>1. U \subseteq Nat /\ U # {}
      BY <2>3
    <3> HIDE DEF U
    <3> QED BY <2>4, <3>1, LeastOf
  <2>7. turns <= n
    <3>1. n <= Len(rest) => n \in U
      BY <2>3
    <3>2. turns = n \/ turns = Len(rest)
      BY <2>5, <2>6
    <3> HIDE DEF U
    <3> QED BY <1>3, <2>3, <2>6, <3>1, <3>2
  <2>8. \A i \in 0 .. turns : Follows(state[i], i, changes, out, file)
    <3> DEFINE T == {i \in 0 .. turns : Follows(state[i], i, changes, out, file)}
    <3>1. 0 \in T
      <4>1. state[0] = [st |-> SubSeq(file, Len(out[0]) + 1, Len(file)), changes |-> SubSeq(changes, 1, 0)]
        <5>1. SubSeq(changes, 1, 0) = <<>>
          OBVIOUS
        <5>2. rest = SubSeq(file, Len(out[0]) + 1, Len(file))
          BY DEF rest
        <5> QED BY <1>7, <2>2, <5>1, <5>2
      <4>2. Follows(state[0], 0, changes, out, file)
        BY <1>11, <4>1 DEF Follows
      <4>3. 0 \in 0 .. turns
        BY <1>7
      <4> QED BY <4>2, <4>3
    <3>2. ASSUME NEW i \in 1 .. turns, i - 1 \in T PROVE i \in T
      <4>1. i \in 1 .. Len(changes) /\ state[i - 1] \in DecoderStates /\ state[i] = DecodeRecord(state[i - 1])
            /\ i \in 0 .. turns
        <5>1. /\ i \in 1 .. n /\ i \in 0 .. turns /\ i - 1 \in 0 .. turns
          BY <1>7, <2>7
        <5>2. state[i - 1] \in DecoderStates /\ state[i] = DecodeRecord(state[i - 1])
          BY <1>7, <5>1
        <5> QED BY <1>3, <5>1, <5>2
      <4>2. Follows(state[i - 1], i - 1, changes, out, file)
        BY <3>2
      <4>3. Begins(file, out[Len(changes)])
        BY <1>3, <1>5
      <4>4. Follows(DecodeRecord(state[i - 1]), i, changes, out, file)
        BY <1>1, <4>1, <4>2, <4>3, FollowsOn
      <4> QED BY <4>1, <4>4
    <3> HIDE DEF T
    <3>3. \A i \in 1 .. turns : i - 1 \in T => i \in T
      BY <3>2
    <3>4. \A i \in 0 .. turns : i \in T
      BY <1>7, <3>1, <3>3, UpTo
    <3> QED BY <3>4 DEF T
  <2>9. Follows(state[turns], turns, changes, out, file) /\ turns \in 0 .. n
    BY <1>3, <1>7, <2>7, <2>8
  <2>10. IsPrefix(DecodeTo(file), changes)
    <3>1. \E k \in 0 .. n : state[turns].changes = SubSeq(changes, 1, k)
      BY <1>3, <2>9 DEF Follows
    <3> QED BY <1>7, <1>8, <3>1
  <2>11. ASSUME Len(EncodeTo(changes)) <= Len(file) PROVE DecodeTo(file) = changes
    <3>1. Len(out[n]) <= Len(file) /\ Len(head) + n <= Len(out[n]) /\ Len(out[n]) \in Nat
      BY <1>4, <1>5, <1>9, <2>11
    <3>2. n <= Len(rest)
      BY <1>3, <1>9, <2>3, <3>1
    <3>3. turns = n
      <4>1. turns = n \/ turns = Len(rest)
        BY <2>5, <2>6
      <4> HIDE DEF U
      <4> QED BY <1>3, <2>3, <2>7, <3>2, <4>1
    <3>4. ~ (Len(file) < Len(out[n]))
      BY <1>9, <3>1
    <3>5. state[n].changes = SubSeq(changes, 1, n)
      BY <2>9, <3>3, <3>4 DEF Follows
    <3>6. SubSeq(changes, 1, n) = changes
      BY <1>3
    <3> QED BY <1>7, <3>3, <3>5, <3>6
  <2> QED BY <2>10, <2>11
<1> QED BY <1>9, <1>10, <1>11

-----------------------------------------------------------------------------
(* The inductive invariant of ManifestCodec                                *)

\* The batches that can be written.
Batch == {changes \in Seq(ManifestChanges) : changes # <<>> /\ Word[Len(changes)] \subseteq Below(32)}

FileIsSound ==
    /\ manifest_file \in Seq(Byte) /\ batches \in Seq(Batch)
    /\ torn \subseteq 1 .. Len(batches)
    /\ batches = <<>> => manifest_file = <<>>

\* The file begins with its first batch if that is whole, and is the beginning
\* of it if there is no other.
FirstBatchIsFirst ==
    /\ batches # <<>> /\ 1 \notin torn =>
          Begins(manifest_file, EncodeTo(batches[1])) /\ Len(EncodeTo(batches[1])) <= Len(manifest_file)
    /\ Len(batches) = 1 => Begins(manifest_file, EncodeTo(batches[1]))

ManifestIInv == FileIsSound /\ FirstBatchIsFirst

\* Of such a file DecodeTo returns what there is of its first batch.
LEMMA ManifestIInvDecodes == ManifestIInv => DecodesFirstBatch
<1> SUFFICES ASSUME ManifestIInv, batches # <<>>
             PROVE  /\ 1 \notin torn => DecodeTo(manifest_file) = batches[1]
                    /\ torn = {1} /\ Len(batches) = 1 => IsPrefix(DecodeTo(manifest_file), batches[1])
  <2>1. Len(<<>>) = 0
    OBVIOUS
  <2> QED BY <2>1 DEF DecodesFirstBatch, FirstBatchIsDecoded, TornBatchIsPrefix
<1>1. /\ batches[1] \in Seq(ManifestChanges) /\ batches[1] # <<>> /\ Word[Len(batches[1])] \subseteq Below(32)
      /\ manifest_file \in Seq(Byte)
  <2>1. batches[1] \in Batch /\ manifest_file \in Seq(Byte)
    BY DEF ManifestIInv, FileIsSound
  <2> QED BY <2>1 DEF Batch
<1>2. Begins(manifest_file, EncodeTo(batches[1])) =>
        /\ Len(EncodeTo(batches[1])) <= Len(manifest_file) => DecodeTo(manifest_file) = batches[1]
        /\ IsPrefix(DecodeTo(manifest_file), batches[1])
  <2> DEFINE b == batches[1]
  <2>1. /\ b \in Seq(ManifestChanges) /\ b # <<>> /\ Word[Len(b)] \subseteq Below(32)
        /\ manifest_file \in Seq(Byte)
    BY <1>1
  <2> HIDE DEF b
  <2>2. Begins(manifest_file, EncodeTo(b)) =>
          /\ Len(EncodeTo(b)) <= Len(manifest_file) => DecodeTo(manifest_file) = b
          /\ IsPrefix(DecodeTo(manifest_file), b)
    BY <2>1, DecodeToReads
  <2> QED BY <2>2 DEF b
<1> QED BY <1>2 DEF ManifestIInv, FirstBatchIsFirst

\* What EncodeTo writes.
LEMMA EncodeToBytes ==
    ASSUME NEW changes \in Batch
    PROVE  EncodeTo(changes) \in Seq(Byte)
<1>1. changes \in Seq(ManifestChanges) /\ changes # <<>> /\ Word[Len(changes)] \subseteq Below(32)
  BY DEF Batch
<1>2. PICK out : Written(out, changes)
  BY <1>1, EncodeToWrites
<1>3. Len(changes) \in 0 .. Len(changes)
  BY <1>1
<1> QED BY <1>2, <1>3 DEF Written

\* Saving a batch, or a part of it, behind the others.
LEMMA SaveChangesIInv ==
    ASSUME ManifestIInv, NEW changes \in Batch, NEW length \in 0 .. Len(EncodeTo(changes)),
           SaveChanges(changes, length)
    PROVE  ManifestIInv'
<1> DEFINE e    == EncodeTo(changes)
           part == SubSeq(e, 1, length)
<1>1. e \in Seq(Byte)
  BY EncodeToBytes
<1>2. /\ manifest_file \in Seq(Byte) /\ batches \in Seq(Batch) /\ torn \subseteq 1 .. Len(batches)
      /\ batches = <<>> => manifest_file = <<>>
  BY DEF ManifestIInv, FileIsSound
<1>3. /\ manifest_file' = manifest_file \o part
      /\ batches' = Append(batches, changes)
      /\ torn' = IF length < Len(e) THEN torn \cup {Len(batches')} ELSE torn
  BY DEF SaveChanges
<1>4. length \in 0 .. Len(e)
  OBVIOUS
<1> HIDE DEF e
<1>5. part \in Seq(Byte) /\ Len(part) = length /\ \A i \in 1 .. length : part[i] = e[i]
  BY <1>1, <1>4
<1> HIDE DEF part
<1>6. PICK n \in Nat : n = Len(batches)
  BY <1>2
<1>7. /\ batches' \in Seq(Batch) /\ Len(batches') = n + 1 /\ \A i \in 1 .. n : batches'[i] = batches[i]
      /\ batches'[n + 1] = changes
  BY <1>2, <1>3, <1>6, AppendProperties
<1>8. /\ manifest_file' \in Seq(Byte) /\ Len(manifest_file') = Len(manifest_file) + length
      /\ \A i \in 1 .. Len(manifest_file) + length :
            manifest_file'[i] = IF i <= Len(manifest_file) THEN manifest_file[i] ELSE part[i - Len(manifest_file)]
  <2> DEFINE new == manifest_file \o part
  <2>1. /\ new \in Seq(Byte) /\ Len(new) = Len(manifest_file) + Len(part)
        /\ \A i \in 1 .. Len(manifest_file) + Len(part) :
              new[i] = IF i <= Len(manifest_file) THEN manifest_file[i] ELSE part[i - Len(manifest_file)]
    <3> DEFINE f == manifest_file
    <3>1. f \in Seq(Byte) /\ part \in Seq(Byte)
      BY <1>2, <1>5
    <3> HIDE DEF f
    <3>2. /\ f \o part \in Seq(Byte) /\ Len(f \o part) = Len(f) + Len(part)
          /\ \A i \in 1 .. Len(f) + Len(part) : (f \o part)[i] = IF i <= Len(f) THEN f[i] ELSE part[i - Len(f)]
      BY <3>1, ConcatProperties
    <3> QED BY <3>2 DEF f
  <2>2. manifest_file' = new
    BY <1>3
  <2> HIDE DEF new
  <2> QED BY <1>5, <2>1, <2>2
<1>9. FileIsSound'
  <2>1. torn' \subseteq 1 .. n + 1
    <3>1. torn \subseteq 1 .. n /\ Len(batches') = n + 1
      BY <1>2, <1>6, <1>7
    <3>2. torn' \subseteq torn \cup {n + 1}
      BY <1>3, <3>1
    <3>3. 1 .. n \subseteq 1 .. n + 1 /\ n + 1 \in 1 .. n + 1
      OBVIOUS
    <3> QED BY <3>1, <3>2, <3>3
  <2>2. batches' # <<>>
    BY <1>6, <1>7
  <2> QED BY <1>7, <1>8, <2>1, <2>2 DEF FileIsSound
<1>10. CASE n = 0
  <2>1. batches = <<>> /\ manifest_file = <<>> /\ torn = {} /\ batches'[1] = changes
    <3>1. batches = <<>> /\ 1 .. Len(batches) = {}
      <4>1. batches \in Seq(Batch) /\ Len(batches) = 0
        BY <1>2, <1>6, <1>10
      <4>2. batches = <<>>
        BY <4>1
      <4> QED BY <4>1, <4>2
    <3> QED BY <1>2, <1>7, <1>10, <3>1
  <2>2. manifest_file' = part
    BY <1>3, <1>5, <2>1, ConcatEmptySeq
  <2>3. Begins(manifest_file', e)
    BY <1>1, <1>4, <1>5, <2>2 DEF Begins
  <2>4. torn' = IF length < Len(e) THEN {1} ELSE {}
    BY <1>3, <1>7, <1>10, <2>1
  <2>5. 1 \notin torn' => Len(e) <= Len(manifest_file')
    BY <1>1, <1>4, <1>5, <2>2, <2>4
  <2>6. FirstBatchIsFirst'
    BY <2>1, <2>3, <2>5 DEF FirstBatchIsFirst, e
  <2> QED BY <1>9, <2>6 DEF ManifestIInv
<1>11. CASE n # 0
  <2>1. 1 \in 1 .. n /\ batches'[1] = batches[1] /\ batches # <<>> /\ Len(batches') # 1
    BY <1>6, <1>7, <1>11
  <2>2. 1 \notin torn' => 1 \notin torn
    BY <1>3
  <2> DEFINE first == EncodeTo(batches[1])
  <2>3. ASSUME 1 \notin torn
        PROVE  Begins(manifest_file', first) /\ Len(first) <= Len(manifest_file')
    <3>1. Begins(manifest_file, first) /\ Len(first) <= Len(manifest_file)
      BY <2>1, <2>3 DEF ManifestIInv, FirstBatchIsFirst
    <3>2. first \in Seq(Byte)
      BY <1>2, <1>6, <2>1, EncodeToBytes
    <3> HIDE DEF first
    <3>3. \A i \in 1 .. Len(first) : /\ i <= Len(manifest_file) /\ manifest_file'[i] = manifest_file[i]
                                     /\ manifest_file[i] = first[i]
      BY <1>2, <1>4, <1>8, <3>1, <3>2 DEF Begins
    <3>4. Len(first) <= Len(manifest_file')
      BY <1>2, <1>4, <1>8, <3>1, <3>2
    <3> QED BY <3>3, <3>4 DEF Begins
  <2>4. FirstBatchIsFirst'
    BY <2>1, <2>2, <2>3 DEF FirstBatchIsFirst
  <2> QED BY <1>9, <2>4 DEF ManifestIInv
<1> QED BY <1>6, <1>10, <1>11

\* Whatever is saved, and wherever crashes tear it, DecodeTo returns of a file
\* that begins with a whole batch that batch, and of a torn first batch at the
\* end of the file only records that were written: for all integers, and
\* batches of any size that a varint of 32 bits holds.
THEOREM ManifestCodecTheorem == ManifestCodecSpec => []DecodesFirstBatch
<1>1. ManifestInit => ManifestIInv
  <2> SUFFICES ASSUME ManifestInit PROVE ManifestIInv
    OBVIOUS
  <2>1. <<>> \in Seq(Byte) /\ <<>> \in Seq(Batch) /\ Len(<<>>) = 0
    OBVIOUS
  <2> QED BY <2>1 DEF ManifestInit, ManifestIInv, FileIsSound, FirstBatchIsFirst
<1>2. ASSUME ManifestIInv, [ManifestNext]_manifest_vars PROVE ManifestIInv'
  <2>1. ASSUME NEW n \in BatchSizes, NEW changes \in [1 .. n -> ManifestChanges],
               NEW length \in 0 .. Len(EncodeTo(changes)), SaveChanges(changes, length)
        PROVE  ManifestIInv'
    <3>1. n \in Nat \ {0} /\ Word[n] \subseteq Below(32)
      BY BatchesAssumption
    <3>2. changes \in Seq(ManifestChanges) /\ Len(changes) = n
      BY <3>1
    <3>3. changes \in Batch
      BY <3>1, <3>2 DEF Batch
    <3> QED BY <1>2, <2>1, <3>3, SaveChangesIInv
  <2>2. CASE UNCHANGED manifest_vars
    BY <1>2, <2>2 DEF manifest_vars, ManifestIInv, FileIsSound, FirstBatchIsFirst
  <2> QED BY <1>2, <2>1, <2>2 DEF ManifestNext
<1>3. ManifestIInv => DecodesFirstBatch
  BY ManifestIInvDecodes
<1> QED BY <1>1, <1>2, <1>3, PTL DEF ManifestCodecSpec
=============================================================================
