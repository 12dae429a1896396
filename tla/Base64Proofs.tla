----------------------------- MODULE Base64Proofs -----------------------------
(***************************************************************************)
(* Proofs about the decoder of Base64, for strings of any length and       *)
(* buffers of any size.                                                    *)
(*                                                                         *)
(* ReadInv says what the decoder's locals mean while it reads: the blocks  *)
(* it has completed are the bytes in out, the characters since then are    *)
(* the number in accum, and what it has counted is the padding so far.     *)
(***************************************************************************)
EXTENDS Base64, TLAPS, FiniteSetTheorems, WellFoundedInduction

Sextet == 0 .. 63

\* any character, those of Symbols among them
Char == Sextet \cup {Pad, Bad}
Octet == 0 .. 255

\* the three bytes of a number of 24 bits
High(n) == (n \div 65536) % 256
Middle(n) == (n \div 256) % 256
Low(n) == n % 256

\* the number a character contributes
Value(s, i) == IF s[i] = Pad THEN 0 ELSE s[i]

-----------------------------------------------------------------------------
(* Induction and folds.  The provers cannot be given an operator, so what is *)
(* proved by induction is stated as a set of numbers.                        *)

LEMMA NatWellFounded == IsWellFoundedOn({p \in Nat \X Nat : p[1] < p[2]}, Nat)
BY NatLessThanWellFounded DEF OpToRel

LEMMA Induction ==
    ASSUME NEW S, 0 \in S, \A n \in Nat : n \in S => n + 1 \in S
    PROVE  Nat \subseteq S
<1>. DEFINE R == {p \in Nat \X Nat : p[1] < p[2]}
            X == Nat \ S
<1>1. SUFFICES ASSUME X # {} PROVE FALSE
  OBVIOUS
<1>2. PICK x \in X : \A y \in X : <<y, x>> \notin R
  <2>1. IsWellFoundedOn(R, Nat) /\ X \subseteq Nat
    BY NatWellFounded
  <2>. HIDE DEF R, X
  <2>. QED BY <1>1, <2>1, WFMin
<1>3. x \in Nat /\ x # 0 /\ x \notin S
  OBVIOUS
<1>4. x - 1 \in Nat /\ <<x - 1, x>> \in R /\ (x - 1) + 1 = x
  BY <1>3
<1>5. x - 1 \in S
  BY <1>2, <1>4
<1>. QED BY <1>3, <1>4, <1>5

LEMMA MaxIs ==
    ASSUME NEW S \in SUBSET Int, NEW m \in S, \A x \in S : x <= m
    PROVE  Max(S) = m
<1>1. \A x \in S : m >= x
  OBVIOUS
<1>2. ASSUME NEW n \in S, \A x \in S : n >= x PROVE n = m
  <2>1. n >= m /\ n <= m /\ n \in Int /\ m \in Int
    BY <1>2
  <2>. QED BY <2>1
<1>. QED BY <1>1, <1>2 DEF Max

LEMMA MaxIn ==
    ASSUME NEW n \in Nat, NEW S \in SUBSET (1 .. n), S # {}
    PROVE  Max(S) \in S
<1>. DEFINE D == {k \in Nat : \A T \in SUBSET (1 .. k) :
                      T # {} => \E m \in T : \A x \in T : x <= m}
<1>1. 0 \in D
  <2>1. \A T \in SUBSET (1 .. 0) : T = {}
    OBVIOUS
  <2>. QED BY <2>1
<1>2. ASSUME NEW k \in Nat, k \in D PROVE k + 1 \in D
  <2>. SUFFICES ASSUME NEW T \in SUBSET (1 .. k + 1), T # {}
                PROVE  \E m \in T : \A x \in T : x <= m
    OBVIOUS
  <2>1. CASE k + 1 \in T
    BY <2>1
  <2>2. CASE k + 1 \notin T
    <3>1. T \in SUBSET (1 .. k)
      BY <2>2
    <3>. QED BY <1>2, <3>1
  <2>. QED BY <2>1, <2>2
<1>. HIDE DEF D
<1>3. n \in D
  BY <1>1, <1>2, Induction
<1>4. PICK m \in S : \A x \in S : x <= m
  BY <1>3 DEF D
<1>5. S \in SUBSET Int
  OBVIOUS
<1>. QED BY <1>4, <1>5, MaxIs

\* g folds b by F over any part of 1 .. n, the largest element last
Folds(g, F, b, n) ==
    \A S \in SUBSET (1 .. n) : g[S] = IF S = {} THEN b ELSE F[<<Max(S), g[S \ {Max(S)}]>>]

LEMMA FoldExists ==
    ASSUME NEW X, NEW b \in X, NEW F \in [Nat \X X -> X]
    PROVE  \A n \in Nat : \E g \in [SUBSET (1 .. n) -> X] : Folds(g, F, b, n)
<1>. DEFINE D == {n \in Nat : \E g \in [SUBSET (1 .. n) -> X] : Folds(g, F, b, n)}
<1>1. 0 \in D
  <2>. DEFINE g == [S \in SUBSET (1 .. 0) |-> b]
  <2>1. g \in [SUBSET (1 .. 0) -> X] /\ \A S \in SUBSET (1 .. 0) : S = {} /\ g[S] = b
    OBVIOUS
  <2>. QED BY <2>1 DEF Folds
<1>2. ASSUME NEW n \in Nat, n \in D PROVE n + 1 \in D
  <2>1. PICK g \in [SUBSET (1 .. n) -> X] : Folds(g, F, b, n)
    BY <1>2
  <2>. DEFINE h == [S \in SUBSET (1 .. n + 1) |->
                       IF n + 1 \in S THEN F[<<n + 1, g[S \ {n + 1}]>>] ELSE g[S]]
  <2>2. ASSUME NEW S \in SUBSET (1 .. n + 1)
        PROVE  IF n + 1 \in S THEN S \ {n + 1} \in SUBSET (1 .. n) ELSE S \in SUBSET (1 .. n)
    OBVIOUS
  <2>3. h \in [SUBSET (1 .. n + 1) -> X]
    BY <2>2
  <2>4. ASSUME NEW S \in SUBSET (1 .. n + 1)
        PROVE  h[S] = IF S = {} THEN b ELSE F[<<Max(S), h[S \ {Max(S)}]>>]
    <3>1. CASE n + 1 \in S
      <4>1. S \in SUBSET Int /\ \A x \in S : x <= n + 1
        OBVIOUS
      <4>2. Max(S) = n + 1
        BY <3>1, <4>1, MaxIs
      <4>3. S \ {n + 1} \in SUBSET (1 .. n + 1) /\ n + 1 \notin S \ {n + 1}
        OBVIOUS
      <4>4. h[S \ {n + 1}] = g[S \ {n + 1}]
        BY <4>3
      <4>. QED BY <3>1, <4>2, <4>4
    <3>2. CASE n + 1 \notin S
      <4>1. S \in SUBSET (1 .. n) /\ h[S] = g[S]
        BY <3>2
      <4>2. S \ {Max(S)} \in SUBSET (1 .. n) /\ S \ {Max(S)} \in SUBSET (1 .. n + 1)
            /\ n + 1 \notin S \ {Max(S)}
        BY <4>1, <3>2
      <4>3. h[S \ {Max(S)}] = g[S \ {Max(S)}]
        BY <4>2
      <4>. QED BY <2>1, <4>1, <4>3 DEF Folds
    <3>. QED BY <3>1, <3>2
  <2>. HIDE DEF h
  <2>5. Folds(h, F, b, n + 1)
    BY <2>4 DEF Folds
  <2>. QED BY <2>3, <2>5
<1>. HIDE DEF D
<1>3. Nat \subseteq D
  BY <1>1, <1>2, Induction
<1>. QED BY <1>3 DEF D

-----------------------------------------------------------------------------
(* Bits and bytes *)

LEMMA SixBits ==
    ASSUME NEW v \in 0 .. 63
    PROVE  /\ v \div 16 = 2 * ((v \div 32) % 2) + ((v \div 16) % 2)
           /\ v \div 4 = 8 * ((v \div 32) % 2) + 4 * ((v \div 16) % 2)
                            + 2 * ((v \div 8) % 2) + ((v \div 4) % 2)
           /\ v % 16 = 8 * ((v \div 8) % 2) + 4 * ((v \div 4) % 2)
                            + 2 * ((v \div 2) % 2) + ((v \div 1) % 2)
           /\ v % 4 = 2 * ((v \div 2) % 2) + ((v \div 1) % 2)
           /\ v = 32 * ((v \div 32) % 2) + 16 * ((v \div 16) % 2) + 8 * ((v \div 8) % 2)
                            + 4 * ((v \div 4) % 2) + 2 * ((v \div 2) % 2) + ((v \div 1) % 2)
<1>1. v \div 1 = v /\ v = 2 * (v \div 2) + (v % 2)
  OBVIOUS
<1>2. v \div 2 = 2 * (v \div 4) + ((v \div 2) % 2)
  OBVIOUS
<1>3. v \div 4 = 2 * (v \div 8) + ((v \div 4) % 2)
  OBVIOUS
<1>4. v \div 8 = 2 * (v \div 16) + ((v \div 8) % 2)
  OBVIOUS
<1>5. v \div 16 = 2 * (v \div 32) + ((v \div 16) % 2)
  OBVIOUS
<1>6. v \div 32 = (v \div 32) % 2 /\ v % 16 = v - 16 * (v \div 16) /\ v % 4 = v - 4 * (v \div 4)
  OBVIOUS
<1>7. /\ v \div 2 \in Int /\ v \div 4 \in Int /\ v \div 8 \in Int /\ v \div 16 \in Int
      /\ v \div 32 \in Int /\ v % 2 \in Int /\ (v \div 2) % 2 \in Int /\ (v \div 4) % 2 \in Int
      /\ (v \div 8) % 2 \in Int /\ (v \div 16) % 2 \in Int /\ (v \div 32) % 2 \in Int
  OBVIOUS
<1>. QED BY <1>1, <1>2, <1>3, <1>4, <1>5, <1>6, <1>7

\* bit t of character m + 1
LEMMA BitAt ==
    ASSUME NEW s, NEW m \in Nat, Value(s, m + 1) \in Sextet
    PROVE  LET v == Value(s, m + 1) IN
           /\ Bit(s, 6 * m) = (v \div 32) % 2
           /\ Bit(s, 6 * m + 1) = (v \div 16) % 2
           /\ Bit(s, 6 * m + 2) = (v \div 8) % 2
           /\ Bit(s, 6 * m + 3) = (v \div 4) % 2
           /\ Bit(s, 6 * m + 4) = (v \div 2) % 2
           /\ Bit(s, 6 * m + 5) = (v \div 1) % 2
<1>1. /\ (6 * m) \div 6 = m /\ (6 * m) % 6 = 0
      /\ (6 * m + 1) \div 6 = m /\ (6 * m + 1) % 6 = 1
      /\ (6 * m + 2) \div 6 = m /\ (6 * m + 2) % 6 = 2
      /\ (6 * m + 3) \div 6 = m /\ (6 * m + 3) % 6 = 3
      /\ (6 * m + 4) \div 6 = m /\ (6 * m + 4) % 6 = 4
      /\ (6 * m + 5) \div 6 = m /\ (6 * m + 5) % 6 = 5
  OBVIOUS
<1>2. /\ (0 \div 32) % 2 = 0 /\ (0 \div 16) % 2 = 0 /\ (0 \div 8) % 2 = 0
      /\ (0 \div 4) % 2 = 0 /\ (0 \div 2) % 2 = 0 /\ (0 \div 1) % 2 = 0
  OBVIOUS
<1>. QED BY <1>1, <1>2 DEF Bit, Value, Sextet

LEMMA ThreeBytes ==
    ASSUME NEW v1 \in Sextet, NEW v2 \in Sextet, NEW v3 \in Sextet, NEW v4 \in Sextet,
           NEW accum, accum = ((v1 * 64 + v2) * 64 + v3) * 64 + v4
    PROVE  /\ High(accum) = 4 * v1 + (v2 \div 16)
           /\ Middle(accum) = 16 * (v2 % 16) + (v3 \div 4)
           /\ Low(accum) = 64 * (v3 % 4) + v4
BY DEF Sextet, High, Middle, Low

\* The three bytes of a block of four characters.
LEMMA BlockBytes ==
    ASSUME NEW s, NEW q \in Nat,
           NEW v1 \in Sextet, NEW v2 \in Sextet, NEW v3 \in Sextet, NEW v4 \in Sextet,
           Value(s, 4 * q + 1) = v1, Value(s, 4 * q + 2) = v2,
           Value(s, 4 * q + 3) = v3, Value(s, 4 * q + 4) = v4,
           NEW accum, accum = ((v1 * 64 + v2) * 64 + v3) * 64 + v4
    PROVE  /\ Byte(s, 3 * q + 1) = High(accum)
           /\ Byte(s, 3 * q + 2) = Middle(accum)
           /\ Byte(s, 3 * q + 3) = Low(accum)
<1>1. /\ High(accum) = 4 * v1 + (v2 \div 16)
      /\ Middle(accum) = 16 * (v2 % 16) + (v3 \div 4)
      /\ Low(accum) = 64 * (v3 % 4) + v4
  BY ThreeBytes
<1>2. /\ Bit(s, 24 * q) = (v1 \div 32) % 2 /\ Bit(s, 24 * q + 1) = (v1 \div 16) % 2
      /\ Bit(s, 24 * q + 2) = (v1 \div 8) % 2 /\ Bit(s, 24 * q + 3) = (v1 \div 4) % 2
      /\ Bit(s, 24 * q + 4) = (v1 \div 2) % 2 /\ Bit(s, 24 * q + 5) = (v1 \div 1) % 2
  <2>. DEFINE m == 4 * q
  <2>1. m \in Nat /\ m + 1 = 4 * q + 1 /\ Value(s, m + 1) = v1
    OBVIOUS
  <2>2. /\ 6 * m = 24 * q /\ 6 * m + 1 = 24 * q + 1 /\ 6 * m + 2 = 24 * q + 2
        /\ 6 * m + 3 = 24 * q + 3 /\ 6 * m + 4 = 24 * q + 4 /\ 6 * m + 5 = 24 * q + 5
    OBVIOUS
  <2>. HIDE DEF m
  <2>3. /\ Bit(s, 6 * m) = (v1 \div 32) % 2 /\ Bit(s, 6 * m + 1) = (v1 \div 16) % 2
        /\ Bit(s, 6 * m + 2) = (v1 \div 8) % 2 /\ Bit(s, 6 * m + 3) = (v1 \div 4) % 2
        /\ Bit(s, 6 * m + 4) = (v1 \div 2) % 2 /\ Bit(s, 6 * m + 5) = (v1 \div 1) % 2
    BY <2>1, BitAt
  <2>. QED BY ONLY <2>2, <2>3
<1>3. /\ Bit(s, 24 * q + 6) = (v2 \div 32) % 2 /\ Bit(s, 24 * q + 7) = (v2 \div 16) % 2
      /\ Bit(s, 24 * q + 8) = (v2 \div 8) % 2 /\ Bit(s, 24 * q + 9) = (v2 \div 4) % 2
      /\ Bit(s, 24 * q + 10) = (v2 \div 2) % 2 /\ Bit(s, 24 * q + 11) = (v2 \div 1) % 2
  <2>. DEFINE m == 4 * q + 1
  <2>1. m \in Nat /\ m + 1 = 4 * q + 2 /\ Value(s, m + 1) = v2
    OBVIOUS
  <2>2. /\ 6 * m = 24 * q + 6 /\ 6 * m + 1 = 24 * q + 7 /\ 6 * m + 2 = 24 * q + 8
        /\ 6 * m + 3 = 24 * q + 9 /\ 6 * m + 4 = 24 * q + 10 /\ 6 * m + 5 = 24 * q + 11
    OBVIOUS
  <2>. HIDE DEF m
  <2>3. /\ Bit(s, 6 * m) = (v2 \div 32) % 2 /\ Bit(s, 6 * m + 1) = (v2 \div 16) % 2
        /\ Bit(s, 6 * m + 2) = (v2 \div 8) % 2 /\ Bit(s, 6 * m + 3) = (v2 \div 4) % 2
        /\ Bit(s, 6 * m + 4) = (v2 \div 2) % 2 /\ Bit(s, 6 * m + 5) = (v2 \div 1) % 2
    BY <2>1, BitAt
  <2>. QED BY ONLY <2>2, <2>3
<1>4. /\ Bit(s, 24 * q + 12) = (v3 \div 32) % 2 /\ Bit(s, 24 * q + 13) = (v3 \div 16) % 2
      /\ Bit(s, 24 * q + 14) = (v3 \div 8) % 2 /\ Bit(s, 24 * q + 15) = (v3 \div 4) % 2
      /\ Bit(s, 24 * q + 16) = (v3 \div 2) % 2 /\ Bit(s, 24 * q + 17) = (v3 \div 1) % 2
  <2>. DEFINE m == 4 * q + 2
  <2>1. m \in Nat /\ m + 1 = 4 * q + 3 /\ Value(s, m + 1) = v3
    OBVIOUS
  <2>2. /\ 6 * m = 24 * q + 12 /\ 6 * m + 1 = 24 * q + 13 /\ 6 * m + 2 = 24 * q + 14
        /\ 6 * m + 3 = 24 * q + 15 /\ 6 * m + 4 = 24 * q + 16 /\ 6 * m + 5 = 24 * q + 17
    OBVIOUS
  <2>. HIDE DEF m
  <2>3. /\ Bit(s, 6 * m) = (v3 \div 32) % 2 /\ Bit(s, 6 * m + 1) = (v3 \div 16) % 2
        /\ Bit(s, 6 * m + 2) = (v3 \div 8) % 2 /\ Bit(s, 6 * m + 3) = (v3 \div 4) % 2
        /\ Bit(s, 6 * m + 4) = (v3 \div 2) % 2 /\ Bit(s, 6 * m + 5) = (v3 \div 1) % 2
    BY <2>1, BitAt
  <2>. QED BY ONLY <2>2, <2>3
<1>5. /\ Bit(s, 24 * q + 18) = (v4 \div 32) % 2 /\ Bit(s, 24 * q + 19) = (v4 \div 16) % 2
      /\ Bit(s, 24 * q + 20) = (v4 \div 8) % 2 /\ Bit(s, 24 * q + 21) = (v4 \div 4) % 2
      /\ Bit(s, 24 * q + 22) = (v4 \div 2) % 2 /\ Bit(s, 24 * q + 23) = (v4 \div 1) % 2
  <2>. DEFINE m == 4 * q + 3
  <2>1. m \in Nat /\ m + 1 = 4 * q + 4 /\ Value(s, m + 1) = v4
    OBVIOUS
  <2>2. /\ 6 * m = 24 * q + 18 /\ 6 * m + 1 = 24 * q + 19 /\ 6 * m + 2 = 24 * q + 20
        /\ 6 * m + 3 = 24 * q + 21 /\ 6 * m + 4 = 24 * q + 22 /\ 6 * m + 5 = 24 * q + 23
    OBVIOUS
  <2>. HIDE DEF m
  <2>3. /\ Bit(s, 6 * m) = (v4 \div 32) % 2 /\ Bit(s, 6 * m + 1) = (v4 \div 16) % 2
        /\ Bit(s, 6 * m + 2) = (v4 \div 8) % 2 /\ Bit(s, 6 * m + 3) = (v4 \div 4) % 2
        /\ Bit(s, 6 * m + 4) = (v4 \div 2) % 2 /\ Bit(s, 6 * m + 5) = (v4 \div 1) % 2
    BY <2>1, BitAt
  <2>. QED BY ONLY <2>2, <2>3
<1>6. Byte(s, 3 * q + 1) = 4 * v1 + (v2 \div 16)
  <2>1. /\ 8 * ((3 * q + 1) - 1) + 0 = 24 * q /\ 8 * ((3 * q + 1) - 1) + 1 = 24 * q + 1
        /\ 8 * ((3 * q + 1) - 1) + 2 = 24 * q + 2 /\ 8 * ((3 * q + 1) - 1) + 3 = 24 * q + 3
        /\ 8 * ((3 * q + 1) - 1) + 4 = 24 * q + 4 /\ 8 * ((3 * q + 1) - 1) + 5 = 24 * q + 5
        /\ 8 * ((3 * q + 1) - 1) + 6 = 24 * q + 6 /\ 8 * ((3 * q + 1) - 1) + 7 = 24 * q + 7
    OBVIOUS
  <2>2. Byte(s, 3 * q + 1) = 128 * ((v1 \div 32) % 2) + 64 * ((v1 \div 16) % 2) + 32 * ((v1 \div 8) % 2)
             + 16 * ((v1 \div 4) % 2) + 8 * ((v1 \div 2) % 2) + 4 * ((v1 \div 1) % 2)
             + 2 * ((v2 \div 32) % 2) + ((v2 \div 16) % 2)
    BY ONLY <2>1, <1>2, <1>3 DEF Byte
  <2>3. v1 = 32 * ((v1 \div 32) % 2) + 16 * ((v1 \div 16) % 2) + 8 * ((v1 \div 8) % 2)
             + 4 * ((v1 \div 4) % 2) + 2 * ((v1 \div 2) % 2) + ((v1 \div 1) % 2)
    BY SixBits DEF Sextet
  <2>4. v2 \div 16 = 2 * ((v2 \div 32) % 2) + ((v2 \div 16) % 2)
    BY SixBits DEF Sextet
  <2>. QED BY ONLY v1 \in Sextet, v2 \in Sextet, <2>2, <2>3, <2>4 DEF Sextet
<1>7. Byte(s, 3 * q + 2) = 16 * (v2 % 16) + (v3 \div 4)
  <2>1. /\ 8 * ((3 * q + 2) - 1) + 0 = 24 * q + 8 /\ 8 * ((3 * q + 2) - 1) + 1 = 24 * q + 9
        /\ 8 * ((3 * q + 2) - 1) + 2 = 24 * q + 10 /\ 8 * ((3 * q + 2) - 1) + 3 = 24 * q + 11
        /\ 8 * ((3 * q + 2) - 1) + 4 = 24 * q + 12 /\ 8 * ((3 * q + 2) - 1) + 5 = 24 * q + 13
        /\ 8 * ((3 * q + 2) - 1) + 6 = 24 * q + 14 /\ 8 * ((3 * q + 2) - 1) + 7 = 24 * q + 15
    OBVIOUS
  <2>2. Byte(s, 3 * q + 2) = 128 * ((v2 \div 8) % 2) + 64 * ((v2 \div 4) % 2) + 32 * ((v2 \div 2) % 2)
             + 16 * ((v2 \div 1) % 2) + 8 * ((v3 \div 32) % 2) + 4 * ((v3 \div 16) % 2)
             + 2 * ((v3 \div 8) % 2) + ((v3 \div 4) % 2)
    BY ONLY <2>1, <1>3, <1>4 DEF Byte
  <2>3. v2 % 16 = 8 * ((v2 \div 8) % 2) + 4 * ((v2 \div 4) % 2)
             + 2 * ((v2 \div 2) % 2) + ((v2 \div 1) % 2)
    BY SixBits DEF Sextet
  <2>4. v3 \div 4 = 8 * ((v3 \div 32) % 2) + 4 * ((v3 \div 16) % 2)
             + 2 * ((v3 \div 8) % 2) + ((v3 \div 4) % 2)
    BY SixBits DEF Sextet
  <2>. QED BY ONLY v2 \in Sextet, v3 \in Sextet, <2>2, <2>3, <2>4 DEF Sextet
<1>8. Byte(s, 3 * q + 3) = 64 * (v3 % 4) + v4
  <2>1. /\ 8 * ((3 * q + 3) - 1) + 0 = 24 * q + 16 /\ 8 * ((3 * q + 3) - 1) + 1 = 24 * q + 17
        /\ 8 * ((3 * q + 3) - 1) + 2 = 24 * q + 18 /\ 8 * ((3 * q + 3) - 1) + 3 = 24 * q + 19
        /\ 8 * ((3 * q + 3) - 1) + 4 = 24 * q + 20 /\ 8 * ((3 * q + 3) - 1) + 5 = 24 * q + 21
        /\ 8 * ((3 * q + 3) - 1) + 6 = 24 * q + 22 /\ 8 * ((3 * q + 3) - 1) + 7 = 24 * q + 23
    OBVIOUS
  <2>2. Byte(s, 3 * q + 3) = 128 * ((v3 \div 2) % 2) + 64 * ((v3 \div 1) % 2) + 32 * ((v4 \div 32) % 2)
             + 16 * ((v4 \div 16) % 2) + 8 * ((v4 \div 8) % 2) + 4 * ((v4 \div 4) % 2)
             + 2 * ((v4 \div 2) % 2) + ((v4 \div 1) % 2)
    BY ONLY <2>1, <1>4, <1>5 DEF Byte
  <2>3. v3 % 4 = 2 * ((v3 \div 2) % 2) + ((v3 \div 1) % 2)
    BY SixBits DEF Sextet
  <2>4. v4 = 32 * ((v4 \div 32) % 2) + 16 * ((v4 \div 16) % 2) + 8 * ((v4 \div 8) % 2)
             + 4 * ((v4 \div 4) % 2) + 2 * ((v4 \div 2) % 2) + ((v4 \div 1) % 2)
    BY SixBits DEF Sextet
  <2>. QED BY ONLY v3 \in Sextet, v4 \in Sextet, <2>2, <2>3, <2>4 DEF Sextet
<1>. QED BY ONLY <1>1, <1>6, <1>7, <1>8

-----------------------------------------------------------------------------
(* One more character *)

\* the characters in completed blocks, and the padding among them
Full(s) == 4 * (Len(s) \div 4)
PadsIn(s) == IF Full(s) > Len(s) - Pads(s) THEN Full(s) - (Len(s) - Pads(s)) ELSE 0

\* the bytes that padding takes away; three do not take away the third byte
Lost(pads) == IF pads = 3 THEN 2 ELSE pads

\* the characters are padded at the end, with three at most
Ordered(s) ==
    /\ Pads(s) \in 0 .. 3
    /\ \A i \in 1 .. Len(s) : IF i > Len(s) - Pads(s) THEN s[i] = Pad ELSE s[i] \in 0 .. 63

\* the number made of the characters after the last completed block
Rest(s) ==
    LET v(k) == Value(s, Full(s) + k) IN
    CASE Len(s) % 4 = 0 -> 0
      [] Len(s) % 4 = 1 -> v(1)
      [] Len(s) % 4 = 2 -> v(1) * 64 + v(2)
      [] Len(s) % 4 = 3 -> (v(1) * 64 + v(2)) * 64 + v(3)

Block == [accum : Accum, char_count : 0 .. 3, byte_count : -1 .. 3,
          out : Seq(Octet), result : BOOLEAN]

\* the output is the text's first bytes
Spells(out, s) == \A i \in 1 .. Len(out) : out[i] = Byte(s, i)

\* what the locals t mean after the characters s, for a buffer of size z
ReadInv(s, z, t) ==
    /\ Ordered(s)
    /\ t.byte_count = 3 - Pads(s)
    /\ t.char_count = Len(s) % 4
    /\ t.accum = Rest(s)
    /\ Len(t.out) = 3 * (Len(s) \div 4) - Lost(PadsIn(s))
    /\ Spells(t.out, s)
    /\ Pads(s) < 3 => Len(t.out) <= z

\* either the decoder still reads, or the text is not one it should have decoded
Means(s, z, t) ==
    IF t.result THEN ReadInv(s, z, t) ELSE WellFormed(s) => Len(Bytes(s)) > z

BInv == TypeOK /\ Means(str, size, st)

\* Appending counts the character if it is padding.
LEMMA PadsAppend ==
    ASSUME NEW s \in Seq(Char), NEW c \in Char
    PROVE  /\ Pads(s) \in 0 .. Len(s)
           /\ Pads(Append(s, c)) = IF c = Pad THEN Pads(s) + 1 ELSE Pads(s)
<1>. DEFINE at(z) == {i \in 1 .. Len(z) : z[i] = Pad}
<1>1. IsFiniteSet(1 .. Len(s)) /\ Cardinality(1 .. Len(s)) = Len(s)
  <2>1. Len(s) \in Nat
    OBVIOUS
  <2>2. /\ IsFiniteSet(1 .. Len(s))
        /\ Cardinality(1 .. Len(s)) = IF 1 > Len(s) THEN 0 ELSE Len(s) - 1 + 1
    BY <2>1, FS_Interval
  <2>. QED BY <2>1, <2>2
<1>2. at(s) \in SUBSET (1 .. Len(s))
  OBVIOUS
<1>3. IsFiniteSet(at(s)) /\ Cardinality(at(s)) <= Len(s)
  BY <1>1, <1>2, FS_Subset
<1>4. Cardinality(at(s)) \in Nat
  BY <1>3, FS_CardinalityType
<1>5. at(Append(s, c)) = IF c = Pad THEN at(s) \cup {Len(s) + 1} ELSE at(s)
  OBVIOUS
<1>6. Len(s) + 1 \notin at(s)
  OBVIOUS
<1>. HIDE DEF at
<1>7. Cardinality(at(s) \cup {Len(s) + 1}) = Cardinality(at(s)) + 1
  BY <1>3, <1>6, FS_AddElement
<1>8. Cardinality(at(Append(s, c))) = IF c = Pad THEN Cardinality(at(s)) + 1 ELSE Cardinality(at(s))
  BY <1>5, <1>7
<1>9. Pads(s) = Cardinality(at(s)) /\ Pads(Append(s, c)) = Cardinality(at(Append(s, c)))
  BY DEF at, Pads
<1>. QED BY ONLY <1>3, <1>4, <1>8, <1>9, Len(s) \in Nat

\* Appending leaves the bits, and so the bytes, of the characters before it.
LEMMA BitKept ==
    ASSUME NEW s \in Seq(Char), NEW c \in Char, NEW j \in Nat, j < 6 * Len(s)
    PROVE  Bit(Append(s, c), j) = Bit(s, j)
<1>. DEFINE i == (j \div 6) + 1
<1>1. i \in 1 .. Len(s)
  OBVIOUS
<1>. HIDE DEF i
<1>2. Append(s, c)[i] = s[i]
  BY <1>1
<1>. QED BY <1>2 DEF Bit, i

LEMMA ByteKept ==
    ASSUME NEW s \in Seq(Char), NEW c \in Char, NEW i \in Nat \ {0}, 8 * i <= 6 * Len(s)
    PROVE  Byte(Append(s, c), i) = Byte(s, i)
<1>1. ASSUME NEW k \in 0 .. 7
      PROVE  Bit(Append(s, c), 8 * (i - 1) + k) = Bit(s, 8 * (i - 1) + k)
  <2>1. 8 * (i - 1) + k \in Nat /\ 8 * (i - 1) + k < 6 * Len(s)
    OBVIOUS
  <2>. QED BY <2>1, BitKept
<1>2. 0 \in 0 .. 7 /\ 1 \in 0 .. 7 /\ 2 \in 0 .. 7 /\ 3 \in 0 .. 7
      /\ 4 \in 0 .. 7 /\ 5 \in 0 .. 7 /\ 6 \in 0 .. 7 /\ 7 \in 0 .. 7
  OBVIOUS
<1>. QED BY ONLY <1>1, <1>2 DEF Byte

\* An accepted character keeps the padding at the end, and what it adds.
LEMMA OrderedOn ==
    ASSUME NEW s \in Seq(Char), NEW c \in Char, Ordered(s),
           IF c = Pad THEN Pads(s) < 3 ELSE c \in 0 .. 63 /\ Pads(s) = 0
    PROVE  /\ Ordered(Append(s, c))
           /\ Pads(Append(s, c)) = IF c = Pad THEN Pads(s) + 1 ELSE 0
<1>. DEFINE z == Append(s, c)
<1>1. /\ Len(z) = Len(s) + 1 /\ z[Len(s) + 1] = c /\ Len(s) \in Nat
      /\ \A i \in 1 .. Len(s) : z[i] = s[i]
  OBVIOUS
<1>2. Pads(z) = IF c = Pad THEN Pads(s) + 1 ELSE Pads(s)
  BY PadsAppend
<1>. HIDE DEF z
<1>3. Pads(s) \in 0 .. 3
  BY DEF Ordered
<1>4. ASSUME NEW i \in 1 .. Len(z)
      PROVE  IF i > Len(z) - Pads(z) THEN z[i] = Pad ELSE z[i] \in 0 .. 63
  <2>1. CASE i = Len(s) + 1
    <3>1. CASE c = Pad
      <4>1. i = Len(z) /\ Len(z) \in Nat /\ z[i] = Pad
        BY <1>1, <2>1, <3>1
      <4>2. Pads(z) = Pads(s) + 1
        BY <1>2, <3>1
      <4>3. i > Len(z) - Pads(z)
        BY <1>3, <4>1, <4>2
      <4>. QED BY <4>1, <4>3
    <3>2. CASE c # Pad
      <4>1. i = Len(z) /\ z[i] = c /\ c \in 0 .. 63 /\ Pads(z) = 0
        BY <1>1, <1>2, <2>1, <3>2
      <4>. QED BY <1>1, <4>1
    <3>. QED BY <3>1, <3>2
  <2>2. CASE i # Len(s) + 1
    <3>1. i \in 1 .. Len(s) /\ z[i] = s[i]
      BY <1>1, <2>2
    <3>2. IF i > Len(s) - Pads(s) THEN s[i] = Pad ELSE s[i] \in 0 .. 63
      BY <3>1 DEF Ordered
    <3>3. i > Len(z) - Pads(z) <=> i > Len(s) - Pads(s)
      BY <1>1, <1>2, <1>3, <3>1
    <3>. QED BY <3>1, <3>2, <3>3
  <2>. QED BY <2>1, <2>2
<1>. QED BY <1>2, <1>3, <1>4 DEF Ordered, z

\* The characters before the one appended keep their values.
LEMMA ValueKept ==
    ASSUME NEW s \in Seq(Char), NEW c \in Char
    PROVE  /\ \A i \in 1 .. Len(s) : Value(Append(s, c), i) = Value(s, i)
           /\ Value(Append(s, c), Len(s) + 1) = IF c = Pad THEN 0 ELSE c
BY DEF Value

LEMMA ValueType ==
    ASSUME NEW s \in Seq(Char), Ordered(s), NEW i \in 1 .. Len(s)
    PROVE  Value(s, i) \in Sextet
BY DEF Ordered, Value, Sextet

-----------------------------------------------------------------------------
(* What Accumulate makes of the character *)

\* The remainder after fewer than three characters, and one more.
LEMMA RestShifts ==
    ASSUME NEW s \in Seq(Char), NEW c \in Char, Len(s) % 4 < 3
    PROVE  /\ Full(Append(s, c)) = Full(s)
           /\ Len(Append(s, c)) \div 4 = Len(s) \div 4
           /\ Len(Append(s, c)) % 4 = (Len(s) % 4) + 1
           /\ Ordered(Append(s, c)) =>
                 Rest(Append(s, c)) = Rest(s) * 64 + Value(Append(s, c), Len(s) + 1)
<1>. DEFINE z == Append(s, c)
            v(k) == Value(z, Full(s) + k)
<1>1. /\ Len(z) = Len(s) + 1 /\ Len(s) \in Nat
      /\ Len(z) \div 4 = Len(s) \div 4
      /\ Len(z) % 4 = (Len(s) % 4) + 1
      /\ Len(s) = 4 * (Len(s) \div 4) + (Len(s) % 4)
  OBVIOUS
<1>2. Full(z) = Full(s) /\ Full(s) \in Nat /\ Len(s) = Full(s) + (Len(s) % 4)
  BY <1>1 DEF Full
<1>3. \A i \in 1 .. Len(s) : Value(z, i) = Value(s, i)
  BY ValueKept
<1>4. ASSUME Ordered(z)
      PROVE  Value(z, Len(s) + 1) \in Sextet
  <2>1. z \in Seq(Char) /\ Len(s) + 1 \in 1 .. Len(z)
    OBVIOUS
  <2>. QED BY <1>4, <2>1, ValueType
<1>. HIDE DEF z
<1>5. ASSUME Ordered(z)
      PROVE  Rest(z) = Rest(s) * 64 + Value(z, Len(s) + 1)
  <2>1. CASE Len(s) % 4 = 0
    <3>1. Rest(s) = 0
      BY <2>1 DEF Rest
    <3>2. Rest(z) = Value(z, Full(s) + 1) /\ Len(s) + 1 = Full(s) + 1
      BY <1>1, <1>2, <2>1 DEF Rest
    <3>3. Value(z, Len(s) + 1) \in Sextet
      BY <1>4, <1>5
    <3>4. Rest(z) = Value(z, Len(s) + 1)
      BY ONLY <3>2
    <3>5. Rest(s) * 64 = 0
      BY <3>1
    <3>6. \A x \in Sextet : Rest(s) * 64 + x = x
      BY ONLY <3>5 DEF Sextet
    <3>. QED BY ONLY <3>3, <3>4, <3>6, Zenon
  <2>2. CASE Len(s) % 4 = 1
    <3>1. Rest(s) = Value(s, Full(s) + 1)
      BY <2>2 DEF Rest
    <3>2. Rest(z) = Value(z, Full(s) + 1) * 64 + Value(z, Full(s) + 2) /\ Len(s) + 1 = Full(s) + 2
      BY <1>1, <1>2, <2>2 DEF Rest
    <3>3. Value(z, Full(s) + 1) = Value(s, Full(s) + 1)
      BY <1>2, <1>3, <2>2
    <3>. QED BY <3>1, <3>2, <3>3
  <2>3. CASE Len(s) % 4 = 2
    <3>1. Rest(s) = Value(s, Full(s) + 1) * 64 + Value(s, Full(s) + 2)
      BY <2>3 DEF Rest
    <3>2. /\ Rest(z) = (Value(z, Full(s) + 1) * 64 + Value(z, Full(s) + 2)) * 64 + Value(z, Full(s) + 3)
          /\ Len(s) + 1 = Full(s) + 3
      BY <1>1, <1>2, <2>3 DEF Rest
    <3>3. Value(z, Full(s) + 1) = Value(s, Full(s) + 1) /\ Value(z, Full(s) + 2) = Value(s, Full(s) + 2)
      BY <1>2, <1>3, <2>3
    <3>. QED BY <3>1, <3>2, <3>3
  <2>. QED BY <1>1, <2>1, <2>2, <2>3
<1>. QED BY <1>1, <1>2, <1>5 DEF z

\* The fourth character completes a number of 24 bits.
LEMMA RestCompletes ==
    ASSUME NEW s \in Seq(Char), NEW c \in Char, Len(s) % 4 = 3, Ordered(Append(s, c))
    PROVE  LET z     == Append(s, c)
               accum == Rest(s) * 64 + Value(z, Len(s) + 1)
               q     == Len(s) \div 4 IN
           /\ Full(z) = Full(s) + 4 /\ Len(z) = Full(z) /\ Full(z) = Len(s) + 1
           /\ Len(z) \div 4 = q + 1
           /\ Len(z) % 4 = 0
           /\ accum \in Nat
           /\ Byte(z, 3 * q + 1) = High(accum)
           /\ Byte(z, 3 * q + 2) = Middle(accum)
           /\ Byte(z, 3 * q + 3) = Low(accum)
<1>. DEFINE z == Append(s, c)
            q == Len(s) \div 4
            v1 == Value(z, 4 * q + 1)
            v2 == Value(z, 4 * q + 2)
            v3 == Value(z, 4 * q + 3)
            v4 == Value(z, 4 * q + 4)
<1>1. /\ Len(z) = Len(s) + 1 /\ Len(s) \in Nat /\ q \in Nat
      /\ Len(z) \div 4 = q + 1
      /\ Len(z) % 4 = 0
      /\ Len(s) = 4 * q + 3
  OBVIOUS
<1>2. Full(z) = Full(s) + 4 /\ Full(s) = 4 * q
  BY <1>1 DEF Full
<1>3. \A i \in 1 .. Len(s) : Value(z, i) = Value(s, i)
  BY ValueKept
<1>4. ASSUME NEW i \in 1 .. Len(s) + 1
      PROVE  Value(z, i) \in Sextet
  <2>1. z \in Seq(Char)
    OBVIOUS
  <2>. QED BY <1>1, <1>4, <2>1, ValueType
<1>. HIDE DEF z, q
<1>5. v1 \in Sextet /\ v2 \in Sextet /\ v3 \in Sextet /\ v4 \in Sextet
  BY <1>1, <1>4
<1>6. Rest(s) = (v1 * 64 + v2) * 64 + v3
  <2>1. Rest(s) = (Value(s, 4 * q + 1) * 64 + Value(s, 4 * q + 2)) * 64 + Value(s, 4 * q + 3)
    BY <1>2 DEF Rest
  <2>2. v1 = Value(s, 4 * q + 1) /\ v2 = Value(s, 4 * q + 2) /\ v3 = Value(s, 4 * q + 3)
    BY <1>1, <1>3
  <2>. QED BY <2>1, <2>2
<1>7. Value(z, Len(s) + 1) = v4
  BY <1>1
<1>8. Value(z, 4 * q + 1) = v1 /\ Value(z, 4 * q + 2) = v2 /\ Value(z, 4 * q + 3) = v3
      /\ Value(z, 4 * q + 4) = v4 /\ q \in Nat
  BY <1>1
<1>. DEFINE w == ((v1 * 64 + v2) * 64 + v3) * 64 + v4
<1>. HIDE DEF v1, v2, v3, v4
<1>9. /\ Byte(z, 3 * q + 1) = High(w)
      /\ Byte(z, 3 * q + 2) = Middle(w)
      /\ Byte(z, 3 * q + 3) = Low(w)
  <2>1. w = ((v1 * 64 + v2) * 64 + v3) * 64 + v4
    OBVIOUS
  <2>. HIDE DEF w
  <2>. QED BY ONLY <1>5, <1>8, <2>1, BlockBytes
<1>10. w \in Nat
  BY ONLY <1>5 DEF Sextet
<1>11. Rest(s) * 64 + Value(z, Len(s) + 1) = w
  BY ONLY <1>6, <1>7
<1>. HIDE DEF w
<1>12. Len(z) = Full(z) /\ Full(z) = Len(s) + 1
  BY ONLY <1>1, <1>2
<1>. QED BY ONLY <1>1, <1>2, <1>9, <1>10, <1>11, <1>12 DEF z, q

\* The bytes a completed block adds to the output.
LEMMA WrittenBytes ==
    ASSUME NEW t, NEW accum \in Nat, t.byte_count \in 0 .. 3,
           NEW k, k = IF t.byte_count = 0 THEN 1 ELSE t.byte_count
    PROVE  /\ Written(t, accum) \in Seq(Octet)
           /\ Len(Written(t, accum)) = k /\ k \in Nat /\ 1 <= k /\ k <= 3
           /\ Written(t, accum)[1] = High(accum)
           /\ k >= 2 => Written(t, accum)[2] = Middle(accum)
           /\ k >= 3 => Written(t, accum)[3] = Low(accum)
<1>. DEFINE bytes == <<High(accum), Middle(accum), Low(accum)>>
<1>1. /\ High(accum) \in Octet /\ Middle(accum) \in Octet
      /\ Low(accum) \in Octet
  BY DEF Octet, High, Middle, Low
<1>2. /\ bytes \in Seq(Octet) /\ Len(bytes) = 3
      /\ bytes[1] = High(accum)
      /\ bytes[2] = Middle(accum)
      /\ bytes[3] = Low(accum)
  BY <1>1
<1>3. Written(t, accum) = SubSeq(bytes, 1, k) /\ k \in 1 .. 3
  BY DEF Written, High, Middle, Low
<1>. HIDE DEF bytes
<1>4. /\ SubSeq(bytes, 1, k) \in Seq(Octet) /\ Len(SubSeq(bytes, 1, k)) = k
      /\ \A i \in 1 .. k : SubSeq(bytes, 1, k)[i] = bytes[i]
  BY <1>2, <1>3
<1>5. /\ SubSeq(bytes, 1, k)[1] = bytes[1]
      /\ k >= 2 => SubSeq(bytes, 1, k)[2] = bytes[2]
      /\ k >= 3 => SubSeq(bytes, 1, k)[3] = bytes[3]
  BY <1>3, <1>4
<1>6. k \in Nat /\ 1 <= k /\ k <= 3
  BY ONLY <1>3
<1>. QED BY ONLY <1>2, <1>3, <1>4, <1>5, <1>6

\* A well-formed text stands for three bytes a block, less its padding.
LEMMA BytesLen ==
    ASSUME NEW s \in Seq(Char), Len(s) % 4 = 0, Pads(s) \in 0 .. 3, Pads(s) <= Len(s)
    PROVE  Len(Bytes(s)) = 3 * (Len(s) \div 4) - Pads(s)
<1>. DEFINE n == (3 * Len(s)) \div 4 - Pads(s)
<1>1. Len(s) \in Nat /\ Len(s) = 4 * (Len(s) \div 4) /\ Len(s) \div 4 \in Nat
  OBVIOUS
<1>2. (3 * Len(s)) \div 4 = 3 * (Len(s) \div 4)
  BY <1>1
<1>3. n \in Nat /\ n = 3 * (Len(s) \div 4) - Pads(s)
  BY <1>1, <1>2
<1>4. Bytes(s) = [i \in 1 .. n |-> Byte(s, i)]
  BY DEF Bytes
<1>. HIDE DEF n
<1>5. Len(Bytes(s)) = n
  BY <1>3, <1>4
<1>. QED BY <1>3, <1>5

\* The fields of the locals, one by one.
LEMMA BlockFields ==
    ASSUME NEW t \in Block
    PROVE  /\ t.accum \in Int /\ t.char_count \in 0 .. 3 /\ t.byte_count \in -1 .. 3
           /\ t.out \in Seq(Octet) /\ t.result \in BOOLEAN
           /\ t = [accum |-> t.accum, char_count |-> t.char_count, byte_count |-> t.byte_count,
                   out |-> t.out, result |-> t.result]
<1>1. /\ t.accum \in Accum /\ t.char_count \in 0 .. 3
      /\ t.byte_count \in -1 .. 3 /\ t.out \in Seq(Octet) /\ t.result \in BOOLEAN
  BY DEF Block
<1>2. t = [accum |-> t.accum, char_count |-> t.char_count, byte_count |-> t.byte_count,
           out |-> t.out, result |-> t.result]
  BY DEF Block
<1>3. t.accum \in Int
  BY <1>1 DEF Accum
<1>. QED BY <1>1, <1>2, <1>3

\* The numbers of up to three characters fit accum's type.
LEMMA RestType ==
    ASSUME NEW s \in Seq(Char), Ordered(s)
    PROVE  Rest(s) \in Accum
<1>. DEFINE v(k) == Value(s, Full(s) + k)
<1>1. Len(s) \in Nat /\ Len(s) % 4 \in 0 .. 3 /\ Full(s) \in Nat /\ Len(s) = Full(s) + (Len(s) % 4)
  BY DEF Full
<1>2. \A x, y, w \in Sextet : /\ x \in Accum /\ x * 64 + y \in Accum
                               /\ (x * 64 + y) * 64 + w \in Accum
  BY DEF Sextet, Accum
<1>3. CASE Len(s) % 4 = 0
  <2>1. Rest(s) = 0
    BY <1>3 DEF Rest
  <2>. QED BY <2>1 DEF Accum
<1>4. CASE Len(s) % 4 = 1
  <2>1. Rest(s) = v(1)
    BY <1>4 DEF Rest
  <2>2. v(1) \in Sextet
    BY <1>1, <1>4, ValueType
  <2>. QED BY ONLY <1>2, <2>1, <2>2
<1>5. CASE Len(s) % 4 = 2
  <2>1. Rest(s) = v(1) * 64 + v(2)
    BY <1>5 DEF Rest
  <2>2. v(1) \in Sextet /\ v(2) \in Sextet
    BY <1>1, <1>5, ValueType
  <2>. QED BY ONLY <1>2, <2>1, <2>2
<1>6. CASE Len(s) % 4 = 3
  <2>1. Rest(s) = (v(1) * 64 + v(2)) * 64 + v(3)
    BY <1>6 DEF Rest
  <2>2. v(1) \in Sextet /\ v(2) \in Sextet /\ v(3) \in Sextet
    BY <1>1, <1>6, ValueType
  <2>. QED BY ONLY <1>2, <2>1, <2>2
<1>. QED BY <1>1, <1>3, <1>4, <1>5, <1>6

\* What the decoder has written keeps its meaning when a character is read.
LEMMA OutKept ==
    ASSUME NEW s \in Seq(Char), NEW c \in Char, NEW out \in Seq(Octet),
           Len(out) <= 3 * (Len(s) \div 4), Spells(out, s)
    PROVE  Spells(out, Append(s, c))
<1>. SUFFICES ASSUME NEW i \in 1 .. Len(out)
              PROVE  out[i] = Byte(Append(s, c), i)
  BY DEF Spells
<1>1. i \in Nat \ {0} /\ 8 * i <= 6 * Len(s)
  OBVIOUS
<1>. QED BY <1>1, ByteKept DEF Spells

\* A character before the block's last shifts into accum.
LEMMA Shifted ==
    ASSUME NEW s \in Seq(Char), NEW c \in Char, NEW z \in Nat, NEW t \in Block,
           t.result, ReadInv(s, z, t), ~Completes(t),
           IF c = Pad THEN Pads(s) < 3 ELSE c \in Sextet /\ Pads(s) = 0,
           NEW u, u = [t EXCEPT !.byte_count = 3 - Pads(Append(s, c))],
           NEW b, b = Value(Append(s, c), Len(s) + 1)
    PROVE  /\ Accumulate(u, b, z) \in Block
           /\ Means(Append(s, c), z, Accumulate(u, b, z))
<1>. DEFINE a == Append(s, c)
            w == [accum |-> t.accum * 64 + b, char_count |-> t.char_count + 1,
                  byte_count |-> 3 - Pads(a), out |-> t.out, result |-> TRUE]
<1>1. /\ Ordered(s) /\ t.char_count = Len(s) % 4 /\ t.accum = Rest(s)
      /\ Len(t.out) = 3 * (Len(s) \div 4) - Lost(PadsIn(s))
      /\ Spells(t.out, s)
      /\ Pads(s) < 3 => Len(t.out) <= z
  BY DEF ReadInv
<1>2. Pads(s) \in 0 .. 3
  BY <1>1 DEF Ordered
<1>3. Ordered(a) /\ Pads(a) = IF c = Pad THEN Pads(s) + 1 ELSE 0
  BY <1>1, OrderedOn DEF Sextet
<1>4. Pads(a) \in 0 .. 3 /\ Pads(s) <= Pads(a)
  BY <1>2, <1>3
<1>5. Len(s) % 4 < 3 /\ t.char_count \in 0 .. 2
  <2>1. t.char_count \in 0 .. 3 /\ t.char_count # 3
    BY BlockFields DEF Completes
  <2>. QED BY <1>1, <2>1
<1>6. /\ Full(a) = Full(s) /\ Len(a) \div 4 = Len(s) \div 4
      /\ Len(a) % 4 = (Len(s) % 4) + 1
      /\ Rest(a) = Rest(s) * 64 + b
  BY <1>3, <1>5, RestShifts
<1>7. Accumulate(u, b, z) = w
  <2>1. t = [accum |-> t.accum, char_count |-> t.char_count, byte_count |-> t.byte_count,
             out |-> t.out, result |-> TRUE]
    BY BlockFields
  <2>2. u = [accum |-> t.accum, char_count |-> t.char_count, byte_count |-> 3 - Pads(a),
             out |-> t.out, result |-> TRUE]
    BY <2>1
  <2>. QED BY <2>2 DEF Accumulate, Completes
<1>8. PadsIn(a) = PadsIn(s)
  <2>1. Len(a) = Len(s) + 1 /\ Len(s) \in Nat /\ Full(s) \in Nat /\ Full(s) <= Len(s)
    BY DEF Full
  <2>2. CASE c = Pad
    <3>1. Len(a) - Pads(a) = Len(s) - Pads(s)
      BY <1>2, <1>3, <2>1, <2>2
    <3>. QED BY <1>6, <3>1 DEF PadsIn
  <2>3. CASE c # Pad
    <3>1. Pads(a) = 0 /\ Pads(s) = 0
      BY <1>3, <2>3
    <3>. QED BY <1>6, <2>1, <3>1 DEF PadsIn
  <2>. QED BY <2>2, <2>3
<1>9. t.out \in Seq(Octet) /\ Len(t.out) \in Nat
  BY BlockFields
<1>10. Lost(PadsIn(s)) \in Nat
  <2>1. PadsIn(s) \in Nat
    BY <1>2 DEF PadsIn, Full
  <2>. QED BY <2>1 DEF Lost
<1>11. Spells(t.out, a)
  <2>1. Len(t.out) <= 3 * (Len(s) \div 4)
    BY <1>1, <1>9, <1>10
  <2>. QED BY <1>1, <1>9, <2>1, OutKept
<1>12. Rest(a) \in Accum
  <2>1. a \in Seq(Char)
    OBVIOUS
  <2>. QED BY ONLY <1>3, <2>1, RestType
<1>. HIDE DEF a
<1>13. w \in Block
  BY <1>1, <1>4, <1>5, <1>6, <1>9, <1>12 DEF Block
<1>14. ReadInv(a, z, w)
  <2>1. Pads(a) < 3 => Len(t.out) <= z
    BY <1>1, <1>2, <1>4
  <2>2. w.accum = Rest(a) /\ w.char_count = Len(a) % 4
    BY <1>1, <1>6
  <2>. QED BY <1>1, <1>3, <1>6, <1>8, <1>11, <2>1, <2>2 DEF ReadInv
<1>15. Means(a, z, w)
  BY <1>14 DEF Means
<1>. QED BY <1>7, <1>13, <1>15 DEF a

\* Accumulate on a block's last character, field by field.
LEMMA AccumulateLast ==
    ASSUME NEW u \in Block, Completes(u), NEW b, NEW z,
           NEW w, w = Accumulate(u, b, z)
    PROVE  w = IF Fits(u, z)
               THEN [accum |-> 0, char_count |-> 0, byte_count |-> u.byte_count,
                     out |-> u.out \o Written(u, u.accum * 64 + b), result |-> u.result]
               ELSE [accum |-> 0, char_count |-> 0, byte_count |-> u.byte_count,
                     out |-> u.out, result |-> FALSE]
<1>. DEFINE more == Written(u, u.accum * 64 + b)
<1>1. u = [accum |-> u.accum, char_count |-> u.char_count, byte_count |-> u.byte_count,
           out |-> u.out, result |-> u.result]
  BY BlockFields
<1>2. CASE Fits(u, z)
  <2>1. w = [u EXCEPT !.accum = 0, !.char_count = 0, !.out = @ \o more]
    BY <1>2 DEF Accumulate
  <2>. HIDE DEF more
  <2>2. w = [accum |-> 0, char_count |-> 0, byte_count |-> u.byte_count,
             out |-> u.out \o more, result |-> u.result]
    BY ONLY <1>1, <2>1
  <2>. QED BY ONLY <1>2, <2>2 DEF more
<1>3. CASE ~Fits(u, z)
  <2>1. w = [u EXCEPT !.accum = 0, !.char_count = 0, !.result = FALSE]
    BY <1>3 DEF Accumulate
  <2>2. w = [accum |-> 0, char_count |-> 0, byte_count |-> u.byte_count,
             out |-> u.out, result |-> FALSE]
    BY ONLY <1>1, <2>1
  <2>. QED BY ONLY <1>3, <2>2
<1>. QED BY ONLY <1>2, <1>3

\* bytes of the text, from the one after byte n on
Continues(out, a, n) == \A i \in n + 1 .. n + Len(out) : out[i - n] = Byte(a, i)

\* The output is longer by the bytes of one more block.
LEMMA OutLonger ==
    ASSUME NEW a, NEW out \in Seq(Octet), NEW more \in Seq(Octet),
           Spells(out, a), Continues(more, a, Len(out))
    PROVE  /\ out \o more \in Seq(Octet) /\ Len(out \o more) = Len(out) + Len(more)
           /\ Spells(out \o more, a)
<1>1. out \o more \in Seq(Octet) /\ Len(out \o more) = Len(out) + Len(more)
  OBVIOUS
<1>2. ASSUME NEW i \in 1 .. Len(out) + Len(more)
      PROVE  (out \o more)[i] = Byte(a, i)
  <2>1. CASE i <= Len(out)
    <3>1. (out \o more)[i] = out[i] /\ i \in 1 .. Len(out)
      BY <2>1
    <3>. QED BY <3>1 DEF Spells
  <2>2. CASE i > Len(out)
    <3>1. i \in Len(out) + 1 .. Len(out) + Len(more)
      BY <2>2
    <3>2. (out \o more)[i] = more[i - Len(out)]
      BY <3>1
    <3>3. more[i - Len(out)] = Byte(a, i)
      BY <3>1 DEF Continues
    <3>. QED BY <3>2, <3>3
  <2>. QED BY <2>1, <2>2
<1>. QED BY <1>1, <1>2 DEF Spells

\* The block's last character writes the block's bytes, if they fit.
LEMMA Completed ==
    ASSUME NEW s \in Seq(Char), NEW c \in Char, NEW z \in Nat, NEW t \in Block,
           t.result, ReadInv(s, z, t), Completes(t),
           IF c = Pad THEN Pads(s) < 3 ELSE c \in Sextet /\ Pads(s) = 0,
           NEW u, u = [t EXCEPT !.byte_count = 3 - Pads(Append(s, c))],
           NEW b, b = Value(Append(s, c), Len(s) + 1)
    PROVE  /\ Accumulate(u, b, z) \in Block
           /\ Means(Append(s, c), z, Accumulate(u, b, z))
<1>. DEFINE a == Append(s, c)
            q == Len(s) \div 4
            m == 3 * q
            p == Pads(Append(s, c))
            left == 3 - p
            accum == t.accum * 64 + b
            more == Written(u, accum)
            k == IF left = 0 THEN 1 ELSE left
            full == [accum |-> 0, char_count |-> 0, byte_count |-> left,
                     out |-> t.out, result |-> FALSE]
            done == [accum |-> 0, char_count |-> 0, byte_count |-> left,
                     out |-> t.out \o more, result |-> t.result]
<1>1. /\ Ordered(s) /\ t.char_count = Len(s) % 4 /\ t.accum = Rest(s)
      /\ Len(t.out) = 3 * (Len(s) \div 4) - Lost(PadsIn(s))
      /\ Spells(t.out, s)
      /\ Pads(s) < 3 => Len(t.out) <= z
  BY DEF ReadInv
<1>2. Pads(s) \in 0 .. 3 /\ Len(s) % 4 = 3 /\ Len(s) \in Nat
  BY <1>1 DEF Ordered, Completes
<1>3. Ordered(a) /\ Pads(a) = p /\ p = IF c = Pad THEN Pads(s) + 1 ELSE 0
  BY <1>1, OrderedOn DEF Sextet
<1>4. p \in 0 .. 3
  BY <1>2, <1>3
<1>5. /\ Full(a) = Len(s) + 1 /\ Len(a) = Len(s) + 1
      /\ Len(a) \div 4 = q + 1 /\ Len(a) % 4 = 0
      /\ accum \in Nat
      /\ Byte(a, m + 1) = High(accum)
      /\ Byte(a, m + 2) = Middle(accum)
      /\ Byte(a, m + 3) = Low(accum)
  BY <1>1, <1>2, <1>3, RestCompletes
<1>6. q \in Nat /\ m \in Nat /\ m = 3 * q /\ Full(s) = 4 * q /\ Len(s) = 4 * q + 3
  BY <1>2 DEF Full
<1>7. a \in Seq(Char) /\ (t.out \in Seq(Octet))
  BY BlockFields
<1>8. u = [accum |-> t.accum, char_count |-> 3, byte_count |-> left,
           out |-> t.out, result |-> t.result]
  <2>1. t = [accum |-> t.accum, char_count |-> 3, byte_count |-> t.byte_count,
             out |-> t.out, result |-> t.result]
    BY BlockFields DEF Completes
  <2>. HIDE DEF left
  <2>2. u = [t EXCEPT !.byte_count = left]
    BY DEF left
  <2>. QED BY ONLY <2>1, <2>2
<1>. HIDE DEF a, q, p, accum, m
<1>9. PadsIn(s) = 0 /\ PadsIn(a) = p
  <2>1. PadsIn(s) = 0
    BY ONLY <1>2, <1>6 DEF PadsIn
  <2>2. PadsIn(a) = p
    BY ONLY <1>3, <1>4, <1>5, <1>6 DEF PadsIn
  <2>. QED BY <2>1, <2>2
<1>10. Len(t.out) = m
  <2>1. Lost(0) = 0
    BY DEF Lost
  <2>. QED BY ONLY <1>1, <1>6, <1>9, <2>1 DEF q
<1>11. left \in 0 .. 3 /\ u.byte_count = left /\ (Fits(u, z) <=> m + left <= z)
  BY ONLY <1>4, <1>6, <1>8, <1>10 DEF Fits
<1>. HIDE DEF more, full, done, k, left
<1>12. Accumulate(u, b, z) = IF Fits(u, z) THEN done ELSE full
  <2>. DEFINE w == Accumulate(u, b, z)
  <2>1. w = Accumulate(u, b, z)
    OBVIOUS
  <2>. HIDE DEF w
  <2>2. w = IF Fits(u, z)
            THEN [accum |-> 0, char_count |-> 0, byte_count |-> left,
                  out |-> t.out \o Written(u, t.accum * 64 + b), result |-> t.result]
            ELSE [accum |-> 0, char_count |-> 0, byte_count |-> left,
                  out |-> t.out, result |-> FALSE]
    <3>1. u \in Block /\ Completes(u)
      <4>1. t.accum \in Accum /\ t.result \in BOOLEAN
        BY DEF Block
      <4>2. 3 \in 0 .. 3 /\ left \in -1 .. 3
        BY <1>11
      <4>3. u \in Block
        BY ONLY <1>7, <1>8, <4>1, <4>2 DEF Block
      <4>4. Completes(u)
        BY ONLY <1>8 DEF Completes
      <4>. QED BY <4>3, <4>4
    <3>2. /\ u.accum = t.accum /\ u.byte_count = left /\ u.out = t.out
          /\ u.result = t.result
      BY ONLY <1>8
    <3>3. w = IF Fits(u, z)
              THEN [accum |-> 0, char_count |-> 0, byte_count |-> u.byte_count,
                    out |-> u.out \o Written(u, u.accum * 64 + b), result |-> u.result]
              ELSE [accum |-> 0, char_count |-> 0, byte_count |-> u.byte_count,
                    out |-> u.out, result |-> FALSE]
      BY ONLY <2>1, <3>1, AccumulateLast
    <3>. QED BY ONLY <3>2, <3>3
  <2>. QED BY ONLY <2>1, <2>2 DEF more, full, done, accum
<1>13. 0 \in Accum /\ 0 \in 0 .. 3 /\ left \in -1 .. 3
  BY ONLY <1>11 DEF Accum
<1>14. CASE ~Fits(u, z)
  <2>1. full \in Block
    BY ONLY <1>7, <1>13 DEF Block, full
  <2>2. Len(Bytes(a)) > z
    <3>1. Pads(a) <= Len(a) /\ Pads(a) \in 0 .. 3 /\ Len(a) % 4 = 0 /\ Len(a) \div 4 = q + 1
      BY ONLY <1>3, <1>4, <1>5, <1>6
    <3>2. Len(Bytes(a)) = 3 * (q + 1) - p
      BY ONLY <1>3, <1>7, <3>1, BytesLen
    <3>. QED BY ONLY z \in Nat, <1>4, <1>6, <1>11, <1>14, <3>2 DEF left
  <2>3. Means(a, z, full)
    BY <2>2 DEF Means, full
  <2>. QED BY ONLY <1>12, <1>14, <2>1, <2>3 DEF a
<1>15. CASE Fits(u, z)
  <2>1. /\ more \in Seq(Octet) /\ Len(more) = k /\ k \in Nat /\ 1 <= k /\ k <= 3
        /\ more[1] = High(accum)
        /\ k >= 2 => more[2] = Middle(accum)
        /\ k >= 3 => more[3] = Low(accum)
    BY ONLY <1>5, <1>11, WrittenBytes DEF more, k
  <2>2. Spells(t.out, a)
    <3>1. Len(t.out) <= 3 * (Len(s) \div 4)
      BY ONLY <1>6, <1>10 DEF q
    <3>. QED BY <1>1, <1>7, <3>1, OutKept DEF a
  <2>3. /\ t.out \o more \in Seq(Octet) /\ Len(t.out \o more) = m + k
        /\ Spells(t.out \o more, a)
    <3>1. Continues(more, a, m)
      <4>. SUFFICES ASSUME NEW i \in m + 1 .. m + Len(more)
                    PROVE  more[i - m] = Byte(a, i)
        BY DEF Continues
      <4>1. \/ i = m + 1 /\ i - m = 1
            \/ i = m + 2 /\ i - m = 2 /\ k >= 2
            \/ i = m + 3 /\ i - m = 3 /\ k >= 3
        BY ONLY <1>6, <2>1, i \in m + 1 .. m + Len(more)
      <4>. QED BY ONLY <1>5, <2>1, <4>1
    <3>2. Continues(more, a, Len(t.out))
      BY ONLY <1>10, <3>1
    <3>3. more \in Seq(Octet) /\ Len(more) = k
      BY ONLY <2>1
    <3>4. /\ t.out \o more \in Seq(Octet) /\ Len(t.out \o more) = Len(t.out) + Len(more)
          /\ Spells(t.out \o more, a)
      BY ONLY <1>7, <2>2, <3>2, <3>3, OutLonger
    <3>. QED BY ONLY <1>10, <3>3, <3>4
  <2>4. done \in Block
    BY ONLY <1>13, <2>3 DEF Block, done
  <2>5. Len(t.out \o more) = 3 * (q + 1) - Lost(p)
    BY ONLY <1>4, <1>6, <2>3 DEF Lost, left, k
  <2>6. p < 3 => Len(t.out \o more) <= z
    BY ONLY z \in Nat, <1>4, <1>6, <1>11, <1>15, <2>3 DEF left, k
  <2>7. Rest(a) = 0
    BY <1>5 DEF Rest
  <2>8. /\ done.byte_count = left /\ done.char_count = 0 /\ done.accum = 0
        /\ done.out = t.out \o more /\ done.result
    BY t.result DEF done
  <2>9. ReadInv(a, z, done)
    BY ONLY <1>3, <1>5, <1>9, <2>3, <2>5, <2>6, <2>7, <2>8 DEF ReadInv, left
  <2>10. Means(a, z, done)
    BY ONLY <2>8, <2>9 DEF Means
  <2>. QED BY ONLY <1>12, <1>15, <2>4, <2>10 DEF a
<1>. QED BY <1>14, <1>15

-----------------------------------------------------------------------------
(* The loop body *)

\* An accepted character, wherever in its block it is.
LEMMA Accepted ==
    ASSUME NEW s \in Seq(Char), NEW c \in Char, NEW z \in Nat, NEW t \in Block,
           t.result, ReadInv(s, z, t),
           IF c = Pad THEN Pads(s) < 3 ELSE c \in Sextet /\ Pads(s) = 0,
           NEW u, u = [t EXCEPT !.byte_count = 3 - Pads(Append(s, c))],
           NEW b, b = Value(Append(s, c), Len(s) + 1)
    PROVE  /\ Accumulate(u, b, z) \in Block
           /\ Means(Append(s, c), z, Accumulate(u, b, z))
<1>1. CASE Completes(t)
  BY <1>1, Completed
<1>2. CASE ~Completes(t)
  BY <1>2, Shifted
<1>. QED BY <1>1, <1>2

\* A character the decoder does not accept makes the text malformed.
LEMMA Malformed ==
    ASSUME NEW s \in Seq(Char), NEW c \in Char, Pads(s) \in 0 .. 3,
           IF c = Pad THEN Pads(s) = 3 ELSE c = Bad \/ Pads(s) > 0
    PROVE  ~WellFormed(Append(s, c))
<1>. DEFINE a == Append(s, c)
<1>1. Len(a) = Len(s) + 1 /\ Len(s) \in Nat /\ a[Len(a)] = c
  OBVIOUS
<1>2. Pads(a) = IF c = Pad THEN Pads(s) + 1 ELSE Pads(s)
  BY PadsAppend
<1>3. Bad \notin Sextet
  BY Base64Assumption DEF Sextet
<1>. HIDE DEF a
<1>4. CASE c = Pad
  BY <1>2, <1>4 DEF WellFormed, a
<1>5. CASE c # Pad
  <2>. SUFFICES ASSUME WellFormed(a)
                PROVE  FALSE
    BY DEF a
  <2>1. IF Len(a) > Len(a) - Pads(a) THEN a[Len(a)] = Pad ELSE a[Len(a)] \in Sextet
    <3>1. Len(a) \in 1 .. Len(a)
      BY <1>1
    <3>. QED BY <3>1 DEF WellFormed, Sextet
  <2>2. c \in Sextet /\ ~(Len(a) > Len(a) - Pads(a))
    BY <1>1, <1>5, <2>1
  <2>3. Pads(a) = 0
    BY <1>1, <1>2, <1>5, <2>2
  <2>. QED BY <1>2, <1>3, <1>5, <2>2, <2>3
<1>. QED BY <1>4, <1>5

\* One character, accepted or not.
LEMMA StepMeans ==
    ASSUME NEW s \in Seq(Char), NEW c \in Char, NEW z \in Nat, NEW t \in Block,
           t.result, ReadInv(s, z, t)
    PROVE  /\ Step(t, c, z) \in Block
           /\ Means(Append(s, c), z, Step(t, c, z))
<1>1. Pads(s) \in 0 .. 3 /\ t.byte_count = 3 - Pads(s)
  BY DEF ReadInv, Ordered
<1>2. Pads(Append(s, c)) = IF c = Pad THEN Pads(s) + 1 ELSE Pads(s)
  BY PadsAppend
<1>3. Value(Append(s, c), Len(s) + 1) = IF c = Pad THEN 0 ELSE c
  BY ValueKept
<1>4. CASE c = Pad /\ Pads(s) < 3
  <2>. DEFINE u == [t EXCEPT !.byte_count = 3 - Pads(Append(s, c))]
  <2>1. t.byte_count - 1 = 3 - Pads(Append(s, c)) /\ ~(t.byte_count - 1 < 0)
    BY <1>1, <1>2, <1>4
  <2>2. [t EXCEPT !.byte_count = @ - 1] = u
    BY <2>1
  <2>3. u.byte_count = t.byte_count - 1
    BY <2>1 DEF Block
  <2>. HIDE DEF u
  <2>4. Step(t, c, z) = Accumulate(u, 0, z)
    BY <1>4, <2>1, <2>2, <2>3 DEF Step
  <2>5. /\ Accumulate(u, 0, z) \in Block
        /\ Means(Append(s, c), z, Accumulate(u, 0, z))
    BY <1>3, <1>4, Accepted DEF u
  <2>. QED BY <2>4, <2>5
<1>5. CASE c # Pad /\ MayPrecede(t, c)
  <2>1. c \in Sextet /\ Pads(s) = 0
    BY <1>1, <1>5, Base64Assumption DEF MayPrecede, Char, Sextet
  <2>2. t = [t EXCEPT !.byte_count = 3 - Pads(Append(s, c))]
    BY <1>1, <1>2, <1>5 DEF Block
  <2>3. Step(t, c, z) = Accumulate(t, c, z)
    BY <1>5 DEF Step
  <2>4. /\ Accumulate(t, c, z) \in Block
        /\ Means(Append(s, c), z, Accumulate(t, c, z))
    BY <1>3, <1>5, <2>1, <2>2, Accepted
  <2>. QED BY <2>3, <2>4
<1>6. CASE (c = Pad /\ Pads(s) = 3) \/ (c # Pad /\ ~MayPrecede(t, c))
  <2>1. ~WellFormed(Append(s, c))
    BY <1>1, <1>6, Malformed DEF MayPrecede
  <2>2. Step(t, c, z) \in Block /\ Step(t, c, z).result = FALSE
    <3>1. CASE c = Pad
      <4>. DEFINE u == [t EXCEPT !.byte_count = @ - 1]
      <4>1. t.byte_count - 1 = -1
        BY <1>1, <1>6, <3>1
      <4>2. u \in Block /\ u.byte_count = -1
        BY <4>1 DEF Block
      <4>3. u.byte_count < 0
        BY <4>2
      <4>4. Step(t, c, z) = [u EXCEPT !.result = FALSE]
        BY <3>1, <4>3 DEF Step
      <4>. HIDE DEF u
      <4>. QED BY <4>2, <4>4 DEF Block
    <3>2. CASE c # Pad
      BY <1>6, <3>2 DEF Step, Block
    <3>. QED BY <3>1, <3>2
  <2>. QED BY <2>1, <2>2 DEF Means
<1>. QED BY <1>1, <1>4, <1>5, <1>6

\* What an accepted character leads to, if a block it completes fits.
LEMMA StepKeeps ==
    ASSUME NEW s \in Seq(Char), NEW c \in Char, NEW z \in Nat, NEW t \in Block,
           t.result, ReadInv(s, z, t),
           IF c = Pad THEN Pads(s) < 3 ELSE c \in Sextet /\ Pads(s) = 0,
           Completes(t) => Len(t.out) + (3 - Pads(Append(s, c))) <= z
    PROVE  Step(t, c, z).result
<1>. DEFINE u == [t EXCEPT !.byte_count = 3 - Pads(Append(s, c))]
            b == IF c = Pad THEN 0 ELSE c
<1>1. Pads(s) \in 0 .. 3 /\ t.byte_count = 3 - Pads(s)
  BY DEF ReadInv, Ordered
<1>2. Pads(Append(s, c)) = IF c = Pad THEN Pads(s) + 1 ELSE Pads(s)
  BY PadsAppend
<1>3. Step(t, c, z) = Accumulate(u, b, z)
  <2>1. CASE c = Pad
    <3>1. t.byte_count - 1 = 3 - Pads(Append(s, c)) /\ ~(t.byte_count - 1 < 0)
      BY <1>1, <1>2, <2>1
    <3>2. [t EXCEPT !.byte_count = @ - 1] = u /\ u.byte_count = t.byte_count - 1
      BY <3>1 DEF Block
    <3>. HIDE DEF u
    <3>. QED BY <2>1, <3>1, <3>2 DEF Step
  <2>2. CASE c # Pad
    <3>1. c # Bad /\ t.byte_count = 3
      <4>1. Bad \notin Sextet
        BY Base64Assumption DEF Sextet
      <4>2. c \in Sextet /\ Pads(s) = 0
        BY <2>2
      <4>. QED BY <1>1, <4>1, <4>2
    <3>2. t = u
      BY <1>1, <1>2, <2>2 DEF Block
    <3>. HIDE DEF u
    <3>. QED BY <2>2, <3>1, <3>2 DEF Step, MayPrecede
  <2>. QED BY <2>1, <2>2
<1>4. /\ u.result /\ u.out = t.out /\ u.byte_count = 3 - Pads(Append(s, c))
      /\ u.char_count = t.char_count
      /\ u = [accum |-> u.accum, char_count |-> u.char_count, byte_count |-> u.byte_count,
              out |-> u.out, result |-> u.result]
  BY DEF Block
<1>5. Completes(u) => Fits(u, z)
  BY <1>4 DEF Completes, Fits
<1>6. Accumulate(u, b, z).result
  <2>. HIDE DEF u, b
  <2>. DEFINE shifted == [accum |-> u.accum * 64 + b, char_count |-> u.char_count + 1,
                          byte_count |-> u.byte_count, out |-> u.out, result |-> u.result]
              written == [accum |-> 0, char_count |-> 0, byte_count |-> u.byte_count,
                          out |-> u.out \o Written(u, u.accum * 64 + b), result |-> u.result]
  <2>1. CASE Completes(u)
    <3>1. Accumulate(u, b, z) = written
      BY <1>4, <1>5, <2>1 DEF Accumulate
    <3>. QED BY <1>4, <3>1
  <2>2. CASE ~Completes(u)
    <3>1. Accumulate(u, b, z) = shifted
      BY <1>4, <2>2 DEF Accumulate
    <3>. QED BY <1>4, <3>1
  <2>. QED BY <2>1, <2>2
<1>. QED BY <1>3, <1>6

\* Before the first character.
LEMMA StartReads ==
    ASSUME NEW z \in Nat
    PROVE  /\ Start \in Block /\ Start.result /\ Pads(<<>>) = 0
           /\ ReadInv(<<>>, z, Start)
<1>1. Len(<<>>) = 0 /\ <<>> \in Seq(Char) /\ <<>> \in Seq(Octet)
  OBVIOUS
<1>2. Pads(<<>>) = 0
  <2>1. {i \in 1 .. Len(<<>>) : <<>>[i] = Pad} = {}
    OBVIOUS
  <2>. QED BY <2>1, FS_EmptySet DEF Pads
<1>3. Start \in Block /\ Start.result
  BY <1>1 DEF Start, Block, Accum
<1>4. Rest(<<>>) = 0 /\ Full(<<>>) = 0
  BY <1>1 DEF Rest, Full
<1>5. PadsIn(<<>>) = 0 /\ Lost(0) = 0
  BY <1>1, <1>2, <1>4 DEF PadsIn, Lost
<1>6. Ordered(<<>>)
  BY <1>1, <1>2 DEF Ordered
<1>7. ReadInv(<<>>, z, Start)
  BY <1>1, <1>2, <1>4, <1>5, <1>6 DEF ReadInv, Start, Spells
<1>. QED BY <1>2, <1>3, <1>7

-----------------------------------------------------------------------------
(* A whole text *)

Run(w, z) == FoldLeft(LAMBDA s, c : Step(s, c, z), Start, w)

Locals == {t \in [accum : Int, char_count : Int, byte_count : -1 .. 3, out : Seq(Octet),
                  result : BOOLEAN] : t.result => t.byte_count >= 0}

LEMMA AccumulateType ==
    ASSUME NEW t \in Locals, t.result, NEW bits \in Int, NEW z \in Nat
    PROVE  Accumulate(t, bits, z) \in Locals
<1>. DEFINE accum == t.accum * 64 + bits
            more == Written(t, accum)
<1>1. /\ t.accum \in Int /\ t.char_count \in Int /\ t.byte_count \in 0 .. 3
      /\ t.out \in Seq(Octet) /\ t.result \in BOOLEAN
      /\ t = [accum |-> t.accum, char_count |-> t.char_count, byte_count |-> t.byte_count,
              out |-> t.out, result |-> t.result]
  BY DEF Locals
<1>2. more \in Seq(Octet)
  <2>1. accum \in Int
    BY <1>1
  <2>. HIDE DEF accum
  <2>. DEFINE bytes == <<High(accum), Middle(accum), Low(accum)>>
              k == IF t.byte_count = 0 THEN 1 ELSE t.byte_count
  <2>2. High(accum) \in Octet /\ Middle(accum) \in Octet /\ Low(accum) \in Octet
    BY <2>1 DEF High, Middle, Low, Octet
  <2>3. bytes \in Seq(Octet) /\ Len(bytes) = 3 /\ k \in 1 .. 3
    BY <1>1, <2>2
  <2>4. more = SubSeq(bytes, 1, k)
    BY DEF Written, High, Middle, Low
  <2>. HIDE DEF bytes, k
  <2>. QED BY <2>3, <2>4
<1>3. t.out \o more \in Seq(Octet)
  BY <1>1, <1>2
<1>. HIDE DEF more
<1>. DEFINE shifted == [accum |-> accum, char_count |-> t.char_count + 1,
                        byte_count |-> t.byte_count, out |-> t.out, result |-> t.result]
            full == [accum |-> 0, char_count |-> 0, byte_count |-> t.byte_count,
                     out |-> t.out, result |-> FALSE]
            written == [accum |-> 0, char_count |-> 0, byte_count |-> t.byte_count,
                        out |-> t.out \o more, result |-> t.result]
<1>4. Accumulate(t, bits, z) \in {shifted, full, written}
  BY <1>1 DEF Accumulate, more
<1>5. shifted \in Locals /\ full \in Locals /\ written \in Locals
  BY <1>1, <1>3 DEF Locals
<1>. QED BY <1>4, <1>5

LEMMA StepType ==
    ASSUME NEW t \in Locals, NEW c \in Char, NEW z \in Nat
    PROVE  Step(t, c, z) \in Locals
<1>1. CASE ~t.result
  BY <1>1 DEF Step
<1>2. CASE t.result /\ c = Pad
  <2>. DEFINE u == [t EXCEPT !.byte_count = @ - 1]
  <2>1. u.byte_count = t.byte_count - 1 /\ u.result /\ t.byte_count \in 0 .. 3
    BY <1>2 DEF Locals
  <2>2. CASE u.byte_count < 0
    <3>1. Step(t, c, z) = [u EXCEPT !.result = FALSE]
      BY <1>2, <2>2 DEF Step
    <3>2. u \in [accum : Int, char_count : Int, byte_count : -1 .. 3, out : Seq(Octet),
                 result : BOOLEAN]
      BY <2>1 DEF Locals
    <3>. HIDE DEF u
    <3>. QED BY <3>1, <3>2 DEF Locals
  <2>3. CASE ~(u.byte_count < 0)
    <3>1. Step(t, c, z) = Accumulate(u, 0, z)
      BY <1>2, <2>3 DEF Step
    <3>2. u \in Locals
      BY <2>1, <2>3 DEF Locals
    <3>. HIDE DEF u
    <3>. QED BY <2>1, <3>1, <3>2, AccumulateType
  <2>. QED BY <2>2, <2>3
<1>3. CASE t.result /\ c # Pad /\ MayPrecede(t, c)
  <2>1. c \in Int
    BY <1>3 DEF MayPrecede, Char, Sextet
  <2>2. Step(t, c, z) = Accumulate(t, c, z)
    BY <1>3 DEF Step
  <2>. QED BY <1>3, <2>1, <2>2, AccumulateType
<1>4. CASE t.result /\ c # Pad /\ ~MayPrecede(t, c)
  <2>1. Step(t, c, z) = [t EXCEPT !.result = FALSE]
    BY <1>4 DEF Step
  <2>. QED BY <2>1 DEF Locals
<1>. QED BY <1>1, <1>2, <1>3, <1>4

\* The fold is the loop: one step for each character, in their order.
LEMMA RunSteps ==
    ASSUME NEW w \in Seq(Char), NEW z \in Nat
    PROVE  \E r :
              /\ r[0] = Start /\ r[Len(w)] = Run(w, z)
              /\ \A i \in 1 .. Len(w) : r[i] = Step(r[i - 1], w[i], z)
<1>. DEFINE N == Len(w)
            iter[S \in SUBSET (DOMAIN w)] ==
               IF S = {} THEN Start
               ELSE LET x == Max(S) IN Step(iter[S \ {x}], w[x], z)
            F == [p \in Nat \X Locals |-> IF p[1] \in 1 .. N THEN Step(p[2], w[p[1]], z) ELSE p[2]]
<1>1. N \in Nat /\ DOMAIN w = 1 .. N /\ \A i \in 1 .. N : w[i] \in Char
  OBVIOUS
<1>2. F \in [Nat \X Locals -> Locals]
  BY <1>1, StepType
<1>3. Start \in Locals
  BY DEF Start, Locals
<1>4. PICK g \in [SUBSET (1 .. N) -> Locals] : Folds(g, F, Start, N)
  <2>. HIDE DEF F, N
  <2>. QED BY <1>1, <1>2, <1>3, FoldExists
<1>5. ASSUME NEW S \in SUBSET (1 .. N), S # {}
      PROVE  Max(S) \in 1 .. N /\ g[S \ {Max(S)}] \in Locals
  <2>. HIDE DEF N
  <2>1. Max(S) \in S
    BY <1>1, <1>5, MaxIn
  <2>. QED BY <2>1
<1>6. g = [S \in SUBSET (DOMAIN w) |->
              IF S = {} THEN Start ELSE Step(g[S \ {Max(S)}], w[Max(S)], z)]
  <2>. HIDE DEF N
  <2>1. ASSUME NEW S \in SUBSET (1 .. N), S # {}
        PROVE  g[S] = Step(g[S \ {Max(S)}], w[Max(S)], z)
    <3>1. <<Max(S), g[S \ {Max(S)}]>> \in Nat \X Locals
      BY <2>1, <1>5
    <3>2. g[S] = F[<<Max(S), g[S \ {Max(S)}]>>]
      BY <1>4, <2>1 DEF Folds
    <3>. QED BY <2>1, <1>5, <3>1, <3>2
  <2>2. g[{}] = Start
    BY <1>4 DEF Folds
  <2>. QED BY <1>1, <1>4, <2>1, <2>2
<1>7. iter = CHOOSE f : f = [S \in SUBSET (DOMAIN w) |->
                  IF S = {} THEN Start ELSE Step(f[S \ {Max(S)}], w[Max(S)], z)]
  BY Zenon
<1>8. iter = [S \in SUBSET (DOMAIN w) |->
                  IF S = {} THEN Start ELSE Step(iter[S \ {Max(S)}], w[Max(S)], z)]
  <2>. HIDE DEF iter
  <2>. QED BY <1>6, <1>7
<1>9. Run(w, z) = iter[DOMAIN w]
  BY DEF Run, FoldLeft, MapThenFoldSet
<1>. DEFINE r == [i \in 0 .. N |-> iter[1 .. i]]
<1>. HIDE DEF iter
<1>10. r[0] = Start /\ r[N] = Run(w, z)
  <2>1. 1 .. 0 = {} /\ {} \in SUBSET (DOMAIN w) /\ 0 \in 0 .. N /\ N \in 0 .. N
    OBVIOUS
  <2>2. iter[{}] = Start
    BY <1>8
  <2>. QED BY <1>1, <1>9, <2>1, <2>2
<1>11. ASSUME NEW i \in 1 .. N
       PROVE  r[i] = Step(r[i - 1], w[i], z)
  <2>1. 1 .. i \in SUBSET Int /\ i \in 1 .. i /\ \A x \in 1 .. i : x <= i
    OBVIOUS
  <2>2. Max(1 .. i) = i
    BY <2>1, MaxIs
  <2>3. 1 .. i # {} /\ (1 .. i) \ {i} = 1 .. (i - 1) /\ i \in 0 .. N /\ i - 1 \in 0 .. N
        /\ 1 .. i \in SUBSET (DOMAIN w)
    OBVIOUS
  <2>4. iter[1 .. i] = Step(iter[(1 .. i) \ {Max(1 .. i)}], w[Max(1 .. i)], z)
    BY <1>8, <2>3
  <2>. QED BY <2>2, <2>3, <2>4
<1>. HIDE DEF r
<1>. QED BY <1>10, <1>11

\* Text with all of its characters read: out is its bytes.
LEMMA ReadAll ==
    ASSUME NEW s \in Seq(Char), NEW z \in Nat, NEW t \in Block,
           WellFormed(s), ReadInv(s, z, t)
    PROVE  /\ t.char_count = 0 /\ t.out = Bytes(s) /\ Len(t.out) <= z
           /\ Len(Bytes(s)) = 3 * (Len(s) \div 4) - Pads(s)
<1>1. /\ Len(s) \in Nat /\ Len(s) % 4 = 0 /\ Len(s) = Full(s)
      /\ Pads(s) \in 0 .. 2 /\ Pads(s) <= Len(s)
  <2>1. Len(s) \in Nat /\ Len(s) % 4 = 0
    BY DEF WellFormed
  <2>2. Pads(s) \in 0 .. Len(s)
    BY PadsAppend DEF Char
  <2>. QED BY <2>1, <2>2 DEF WellFormed, Full
<1>2. Len(Bytes(s)) = 3 * (Len(s) \div 4) - Pads(s)
  BY <1>1, BytesLen
<1>3. PadsIn(s) = Pads(s) /\ Lost(Pads(s)) = Pads(s)
  BY <1>1 DEF PadsIn, Lost
<1>4. t.char_count = 0 /\ Len(t.out) = Len(Bytes(s)) /\ Len(t.out) <= z
  BY <1>1, <1>2, <1>3 DEF ReadInv
<1>5. t.out = Bytes(s)
  <2>1. Spells(t.out, s) /\ t.out \in Seq(Octet)
    BY BlockFields DEF ReadInv
  <2>2. t.out \in [1 .. Len(t.out) -> Octet]
    BY <2>1
  <2>3. Bytes(s) = [i \in 1 .. Len(t.out) |-> Byte(s, i)]
    <3>1. (3 * Len(s)) \div 4 - Pads(s) = 3 * (Len(s) \div 4) - Pads(s)
      BY <1>1 DEF Full
    <3>. QED BY <1>2, <1>4, <3>1 DEF Bytes
  <2>. QED BY <2>1, <2>2, <2>3 DEF Spells
<1>. QED BY <1>2, <1>4, <1>5

\* The padding of the first characters of a well-formed text.
PadsUpTo(w, i) == IF i > Len(w) - Pads(w) THEN i - (Len(w) - Pads(w)) ELSE 0

\* Every character of a well-formed text is accepted if its bytes fit.
LEMMA RunReads ==
    ASSUME NEW w \in Seq(Char), NEW z \in Nat, WellFormed(w),
           3 * (Len(w) \div 4) - Pads(w) <= z
    PROVE  /\ Run(w, z).result /\ Run(w, z).char_count = 0
           /\ Run(w, z).out = Bytes(w)
<1>. DEFINE N == Len(w)
            p == Pads(w)
<1>1. PICK r : /\ r[0] = Start /\ r[Len(w)] = Run(w, z)
               /\ \A i \in 1 .. Len(w) : r[i] = Step(r[i - 1], w[i], z)
  BY RunSteps
<1>2. /\ N \in Nat /\ N % 4 = 0 /\ p \in 0 .. 2 /\ p <= N /\ 3 * (N \div 4) - p <= z
      /\ \A i \in 1 .. N : w[i] \in Char /\ IF i > N - p THEN w[i] = Pad ELSE w[i] \in 0 .. 63
  <2>1. p \in 0 .. N
    BY PadsAppend DEF Char
  <2>. QED BY <2>1 DEF WellFormed
<1>. DEFINE Good(i) == /\ r[i] \in Block /\ r[i].result
                       /\ ReadInv(SubSeq(w, 1, i), z, r[i])
                       /\ Pads(SubSeq(w, 1, i)) = PadsUpTo(w, i)
            D == {i \in Nat : i <= N => Good(i)}
<1>3. 0 \in D
  <2>1. SubSeq(w, 1, 0) = <<>> /\ PadsUpTo(w, 0) = 0
    BY <1>2 DEF PadsUpTo
  <2>. QED BY <1>1, <2>1, StartReads
<1>4. ASSUME NEW n \in Nat, n \in D
      PROVE  n + 1 \in D
  <2>. SUFFICES ASSUME n + 1 <= N
                PROVE  Good(n + 1)
    OBVIOUS
  <2>. DEFINE s == SubSeq(w, 1, n)
              c == w[n + 1]
              t == r[n]
  <2>1. /\ s \in Seq(Char) /\ Len(s) = n /\ c \in Char
        /\ Append(s, c) = SubSeq(w, 1, n + 1)
    OBVIOUS
  <2>2. t \in Block /\ t.result /\ ReadInv(s, z, t) /\ Pads(s) = PadsUpTo(w, n)
    BY <1>2, <1>4
  <2>3. r[n + 1] = Step(t, c, z)
    <3>1. n + 1 \in 1 .. Len(w) /\ (n + 1) - 1 = n
      BY <1>2
    <3>. QED BY <1>1, <3>1
  <2>4. IF n + 1 > N - p THEN c = Pad ELSE c \in Sextet /\ c # Pad
    <3>1. n + 1 \in 1 .. N
      BY <1>2
    <3>. QED BY <1>2, <3>1, Base64Assumption DEF Sextet
  <2>5. Pads(Append(s, c)) = IF c = Pad THEN Pads(s) + 1 ELSE Pads(s)
    BY <2>1, PadsAppend
  <2>. HIDE DEF s, c, t, N, p, D
  <2>6. Pads(s) \in 0 .. 2 /\ IF c = Pad THEN Pads(s) < 3 ELSE c \in Sextet /\ Pads(s) = 0
    BY <1>2, <2>2, <2>4 DEF PadsUpTo, N, p
  <2>7. Pads(Append(s, c)) = PadsUpTo(w, n + 1)
    BY <1>2, <2>2, <2>4, <2>5 DEF PadsUpTo, N, p
  <2>8. Completes(t) => Len(t.out) + (3 - Pads(Append(s, c))) <= z
    <3>. SUFFICES ASSUME Completes(t)
                  PROVE  Len(t.out) + (3 - Pads(Append(s, c))) <= z
      OBVIOUS
    <3>1. n % 4 = 3 /\ Len(t.out) = 3 * (n \div 4) - Lost(PadsIn(s))
      BY <2>1, <2>2 DEF ReadInv, Completes
    <3>2. PadsIn(s) = 0 /\ Lost(0) = 0
      BY <1>2, <2>1, <2>6, <3>1 DEF PadsIn, Lost, Full
    <3>3. CASE n + 1 = N
      <4>1. N \div 4 = (n \div 4) + 1 /\ PadsUpTo(w, n + 1) = p
        BY <1>2, <3>1, <3>3 DEF PadsUpTo, N, p
      <4>2. n \div 4 \in Nat /\ p \in Nat /\ 3 * ((n \div 4) + 1) - p <= z
        BY <1>2, <4>1
      <4>. QED BY ONLY <2>7, <3>1, <3>2, <4>1, <4>2, z \in Nat
    <3>4. CASE n + 1 < N
      <4>1. n \div 4 + 2 <= N \div 4 /\ PadsUpTo(w, n + 1) >= 0
        BY <1>2, <3>1, <3>4 DEF PadsUpTo, N, p
      <4>2. /\ n \div 4 \in Nat /\ N \div 4 \in Nat /\ p \in 0 .. 2 /\ 3 * (N \div 4) - p <= z
            /\ PadsUpTo(w, n + 1) \in Int
        BY <1>2 DEF PadsUpTo, N, p
      <4>. QED BY ONLY <2>7, <3>1, <3>2, <4>1, <4>2, z \in Nat
    <3>. QED BY <1>2, <3>3, <3>4, n + 1 <= N
  <2>9. r[n + 1].result
    BY <2>1, <2>2, <2>3, <2>6, <2>8, StepKeeps
  <2>10. r[n + 1] \in Block /\ Means(Append(s, c), z, r[n + 1])
    BY <2>1, <2>2, <2>3, StepMeans
  <2>. QED BY <2>1, <2>7, <2>9, <2>10 DEF Means
<1>. HIDE DEF D
<1>5. N \in D
  BY <1>2, <1>3, <1>4, Induction
<1>6. Good(N) /\ SubSeq(w, 1, N) = w
  BY <1>2, <1>5 DEF D
<1>. QED BY <1>1, <1>6, ReadAll

-----------------------------------------------------------------------------
(* Encoding *)

Word24 == {n \in Nat : n < 64 * 64 * 64 * 64}

\* the number of block q, from 0, of the bytes in
Triple(in, q) ==
    ByteAt(in, 3 * q + 1) * 65536 + ByteAt(in, 3 * q + 2) * 256 + ByteAt(in, 3 * q + 3)

\* sextet j, from 1, of a number of 24 bits
SextetAt(n, j) ==
    CASE j = 1 -> (n \div 262144) % 64
      [] j = 2 -> (n \div 4096) % 64
      [] j = 3 -> (n \div 64) % 64
      [] j = 4 -> n % 64

LEMMA ByteAtType ==
    ASSUME NEW in \in Seq(Octet), NEW i \in Nat \ {0}
    PROVE  ByteAt(in, i) \in Octet
<1>1. CASE i <= Len(in)
  BY <1>1 DEF ByteAt
<1>2. CASE ~(i <= Len(in))
  BY <1>2 DEF ByteAt, Octet
<1>. QED BY <1>1, <1>2

LEMMA TripleType ==
    ASSUME NEW in \in Seq(Octet), NEW q \in Nat
    PROVE  /\ Triple(in, q) \in Word24
           /\ High(Triple(in, q)) = ByteAt(in, 3 * q + 1)
           /\ Middle(Triple(in, q)) = ByteAt(in, 3 * q + 2)
           /\ Low(Triple(in, q)) = ByteAt(in, 3 * q + 3)
<1>1. /\ ByteAt(in, 3 * q + 1) \in Octet
      /\ ByteAt(in, 3 * q + 2) \in Octet
      /\ ByteAt(in, 3 * q + 3) \in Octet
  BY ByteAtType
<1>2. \A x, y, v \in Octet :
         LET n == x * 65536 + y * 256 + v IN
         n \in Word24 /\ High(n) = x /\ Middle(n) = y /\ Low(n) = v
  BY DEF Octet, Word24, High, Middle, Low
<1>. QED BY <1>1, <1>2 DEF Triple

LEMMA Div64 ==
    ASSUME NEW n \in Nat
    PROVE  n = 64 * (n \div 64) + (n % 64) /\ n \div 64 \in Nat /\ n % 64 \in Sextet
BY DEF Sextet

LEMMA DivOf ==
    ASSUME NEW a \in Nat, NEW v \in Sextet
    PROVE  (a * 64 + v) \div 64 = a /\ (a * 64 + v) % 64 = v
BY DEF Sextet

LEMMA DivTwice ==
    ASSUME NEW n \in Nat
    PROVE  (n \div 64) \div 64 = n \div 4096 /\ (n \div 4096) \div 64 = n \div 262144
BY SMT

\* A number of 24 bits is its four sextets.
LEMMA Sextets ==
    ASSUME NEW n \in Word24
    PROVE  /\ SextetAt(n, 1) \in Sextet /\ SextetAt(n, 2) \in Sextet
           /\ SextetAt(n, 3) \in Sextet /\ SextetAt(n, 4) \in Sextet
           /\ n = ((SextetAt(n, 1) * 64 + SextetAt(n, 2)) * 64 + SextetAt(n, 3)) * 64 + SextetAt(n, 4)
<1>. DEFINE a == n \div 64
            b == n \div 4096
            c == n \div 262144
<1>1. n \in Nat
  BY DEF Word24
<1>2. n = 64 * a + (n % 64) /\ a \in Nat /\ n % 64 \in Sextet
  BY <1>1, Div64
<1>3. a \div 64 = b /\ b \div 64 = c
  BY <1>1, DivTwice
<1>. HIDE DEF a, b, c
<1>4. a = 64 * b + (a % 64) /\ b \in Nat /\ a % 64 \in Sextet
  BY <1>2, <1>3, Div64
<1>5. b = 64 * c + (b % 64) /\ c \in Nat /\ b % 64 \in Sextet
  BY <1>3, <1>4, Div64
<1>6. c = 64 * (c \div 64) + (c % 64) /\ c \div 64 \in Nat /\ c % 64 \in Sextet
  BY <1>5, Div64
<1>7. n < 64 * 64 * 64 * 64
  BY DEF Word24
<1>8. c < 64
  <2>. DEFINE x == n % 64
              y == a % 64
              z == b % 64
  <2>1. x \in Nat /\ y \in Nat /\ z \in Nat /\ n = 64 * a + x /\ a = 64 * b + y /\ b = 64 * c + z
    BY ONLY <1>2, <1>4, <1>5 DEF Sextet
  <2>. HIDE DEF x, y, z
  <2>2. n = x + 64 * y + 4096 * z + 262144 * c
    BY ONLY <1>1, <1>5, <2>1, SMT
  <2>. QED BY ONLY <1>5, <1>7, <2>1, <2>2, SMT
<1>9. c % 64 = c
  BY ONLY <1>5, <1>6, <1>8 DEF Sextet
<1>10. /\ SextetAt(n, 1) = c % 64 /\ SextetAt(n, 2) = b % 64
       /\ SextetAt(n, 3) = a % 64 /\ SextetAt(n, 4) = n % 64
  BY DEF SextetAt, a, b, c
<1>11. n = ((c * 64 + (b % 64)) * 64 + (a % 64)) * 64 + (n % 64)
  BY ONLY <1>2, <1>4, <1>5 DEF Sextet
<1>. QED BY ONLY <1>2, <1>4, <1>5, <1>6, <1>9, <1>10, <1>11

\* and a number made of four sextets has them.
LEMMA SextetsOf ==
    ASSUME NEW v1 \in Sextet, NEW v2 \in Sextet, NEW v3 \in Sextet, NEW v4 \in Sextet,
           NEW n, n = ((v1 * 64 + v2) * 64 + v3) * 64 + v4
    PROVE  /\ n \in Word24
           /\ SextetAt(n, 1) = v1 /\ SextetAt(n, 2) = v2
           /\ SextetAt(n, 3) = v3 /\ SextetAt(n, 4) = v4
<1>1. n \in Nat /\ n \in Word24
  BY DEF Sextet, Word24
<1>. DEFINE a == (v1 * 64 + v2) * 64 + v3
            b == v1 * 64 + v2
<1>2. a \in Nat /\ b \in Nat /\ v1 \in Nat /\ n = a * 64 + v4 /\ a = b * 64 + v3
  BY DEF Sextet
<1>. HIDE DEF a
<1>3. n \div 64 = a /\ n % 64 = v4
  <2>1. (a * 64 + v4) \div 64 = a /\ (a * 64 + v4) % 64 = v4
    BY ONLY v4 \in Sextet, <1>2, DivOf
  <2>. QED BY ONLY <1>2, <2>1
<1>4. a \div 64 = b /\ a % 64 = v3
  <2>. HIDE DEF b
  <2>1. (b * 64 + v3) \div 64 = b /\ (b * 64 + v3) % 64 = v3
    BY ONLY v3 \in Sextet, <1>2, DivOf
  <2>. QED BY ONLY <1>2, <2>1
<1>5. b \div 64 = v1 /\ b % 64 = v2 /\ v1 % 64 = v1
  <2>1. (v1 * 64 + v2) \div 64 = v1 /\ (v1 * 64 + v2) % 64 = v2
    BY ONLY v2 \in Sextet, <1>2, DivOf
  <2>2. v1 % 64 = v1
    BY DEF Sextet
  <2>. QED BY ONLY <2>1, <2>2
<1>. HIDE DEF b
<1>6. n \div 4096 = b /\ n \div 262144 = v1
  <2>1. (n \div 64) \div 64 = n \div 4096 /\ (n \div 4096) \div 64 = n \div 262144
    BY ONLY <1>1, DivTwice
  <2>. QED BY ONLY <1>3, <1>4, <1>5, <2>1
<1>. QED BY ONLY <1>1, <1>3, <1>4, <1>5, <1>6 DEF SextetAt

\* The lengths of bytes and of their text.
LEMMA EncodedLengths ==
    ASSUME NEW n \in Nat
    PROVE  /\ EncodedLen(n) \in Nat /\ EncodedLen(n) % 4 = 0 /\ Padding(n) \in 0 .. 2
           /\ Padding(n) <= EncodedLen(n)
           /\ n = 3 * (EncodedLen(n) \div 4) - Padding(n)
<1>1. n = 3 * (n \div 3) + (n % 3) /\ n % 3 \in 0 .. 2 /\ n \div 3 \in Nat
  OBVIOUS
<1>2. (n + 2) \div 3 = IF n % 3 = 0 THEN n \div 3 ELSE n \div 3 + 1
  BY <1>1
<1>3. EncodedLen(n) \div 4 = (n + 2) \div 3
  BY <1>1, <1>2 DEF EncodedLen
<1>. QED BY <1>1, <1>2, <1>3 DEF EncodedLen, Padding

LEMMA EncodeIs ==
    ASSUME NEW in
    PROVE  Encode(in) =
             [k \in 1 .. EncodedLen(Len(in)) |->
                IF (k - 1) % 4 >= 2 /\ k > EncodedLen(Len(in)) - Padding(Len(in)) THEN Pad
                ELSE (Triple(in, (k - 1) \div 4) \div 64 ^ (3 - ((k - 1) % 4))) % 64]
BY SMT DEF Encode, Triple

\* Character by character, what the encoder writes.
LEMMA EncodeChars ==
    ASSUME NEW in \in Seq(Octet), NEW w, w = Encode(in), NEW q \in Nat, NEW j \in 1 .. 4,
           4 * q + j <= EncodedLen(Len(in))
    PROVE  w[4 * q + j] = IF 4 * q + j > EncodedLen(Len(in)) - Padding(Len(in)) THEN Pad
                                 ELSE SextetAt(Triple(in, q), j)
<1>. DEFINE i == 4 * q + j
            len == EncodedLen(Len(in))
            b == 3 * ((i - 1) \div 4)
            n == ByteAt(in, b + 1) * 65536 + ByteAt(in, b + 2) * 256 + ByteAt(in, b + 3)
            place == (i - 1) % 4
            v == (n \div 64 ^ (3 - place)) % 64
<1>1. (i - 1) \div 4 = q /\ place = j - 1 /\ i \in Nat /\ i >= 1
  OBVIOUS
<1>2. len \in Nat /\ len % 4 = 0 /\ Padding(Len(in)) \in 0 .. 2
  BY EncodedLengths
<1>3. n = Triple(in, q)
  BY <1>1 DEF Triple
<1>4. w[i] = IF place >= 2 /\ i > len - Padding(Len(in)) THEN Pad ELSE v
  <2>1. i \in 1 .. len
    BY <1>1, <1>2
  <2>2. w = [k \in 1 .. len |->
               IF (k - 1) % 4 >= 2 /\ k > len - Padding(Len(in)) THEN Pad
               ELSE (Triple(in, (k - 1) \div 4) \div 64 ^ (3 - ((k - 1) % 4))) % 64]
    BY EncodeIs, SMT
  <2>3. v = (Triple(in, (i - 1) \div 4) \div 64 ^ (3 - ((i - 1) % 4))) % 64
    BY SMT DEF Triple
  <2>. HIDE DEF i, len
  <2>. QED BY <2>1, <2>2, <2>3, SMT
<1>5. v = SextetAt(Triple(in, q), j)
  <2>1. n \in Nat
    BY <1>3, TripleType DEF Word24
  <2>. HIDE DEF n
  <2>2. /\ 64 ^ 3 = 262144 /\ 64 ^ 2 = 4096 /\ 64 ^ 1 = 64 /\ 64 ^ 0 = 1
        /\ n \div 1 = n
    BY <2>1
  <2>3. j = 1 \/ j = 2 \/ j = 3 \/ j = 4
    OBVIOUS
  <2>4. 3 - place = 4 - j
    BY <1>1
  <2>. HIDE DEF place
  <2>5. v = (n \div 64 ^ (4 - j)) % 64
    BY <2>4, SMT
  <2>. HIDE DEF v
  <2>6. CASE j = 1
    <3>1. v = (n \div 64 ^ 3) % 64
      BY ONLY <2>5, <2>6, SMT
    <3>. QED BY ONLY <1>3, <2>2, <2>6, <3>1, SMT DEF SextetAt
  <2>7. CASE j = 2
    <3>1. v = (n \div 64 ^ 2) % 64
      BY ONLY <2>5, <2>7, SMT
    <3>. QED BY ONLY <1>3, <2>2, <2>7, <3>1, SMT DEF SextetAt
  <2>8. CASE j = 3
    <3>1. v = (n \div 64 ^ 1) % 64
      BY ONLY <2>5, <2>8, SMT
    <3>. QED BY ONLY <1>3, <2>2, <2>8, <3>1, SMT DEF SextetAt
  <2>9. CASE j = 4
    <3>1. v = (n \div 64 ^ 0) % 64
      BY ONLY <2>5, <2>9, SMT
    <3>. QED BY ONLY <1>3, <2>2, <2>9, <3>1, SMT DEF SextetAt
  <2>. QED BY <2>3, <2>6, <2>7, <2>8, <2>9
<1>6. place >= 2 <=> j >= 3
  BY <1>1
<1>7. i > len - Padding(Len(in)) => j >= 3
  BY <1>2
<1>. HIDE DEF v, place, n
<1>. QED BY <1>4, <1>5, <1>6, <1>7

\* The sextets behind the last byte of a block that is not full.
LEMMA LastOne ==
    ASSUME NEW t \in Word24, Middle(t) = 0, Low(t) = 0,
           SextetAt(t, 1) \in Sextet, SextetAt(t, 2) \in Sextet,
           SextetAt(t, 3) \in Sextet, SextetAt(t, 4) \in Sextet,
           t = ((SextetAt(t, 1) * 64 + SextetAt(t, 2)) * 64 + SextetAt(t, 3)) * 64 + SextetAt(t, 4)
    PROVE  SextetAt(t, 3) = 0 /\ SextetAt(t, 4) = 0
<1>. DEFINE v2 == SextetAt(t, 2)
            v3 == SextetAt(t, 3)
            v4 == SextetAt(t, 4)
<1>1. Middle(t) = 16 * (v2 % 16) + (v3 \div 4) /\ Low(t) = 64 * (v3 % 4) + v4
  BY ThreeBytes
<1>2. v2 \in Sextet /\ v3 \in Sextet /\ v4 \in Sextet
  OBVIOUS
<1>. HIDE DEF v2, v3, v4
<1>3. v3 = 4 * (v3 \div 4) + (v3 % 4) /\ v3 \div 4 \in Nat /\ v3 % 4 \in Nat /\ v2 % 16 \in Nat
  BY ONLY <1>2 DEF Sextet
<1>4. v3 = 0 /\ v4 = 0
  BY ONLY Middle(t) = 0, Low(t) = 0, <1>1, <1>2, <1>3 DEF Sextet
<1>. QED BY <1>4 DEF v3, v4

LEMMA LastTwo ==
    ASSUME NEW t \in Word24, Low(t) = 0,
           SextetAt(t, 1) \in Sextet, SextetAt(t, 2) \in Sextet,
           SextetAt(t, 3) \in Sextet, SextetAt(t, 4) \in Sextet,
           t = ((SextetAt(t, 1) * 64 + SextetAt(t, 2)) * 64 + SextetAt(t, 3)) * 64 + SextetAt(t, 4)
    PROVE  SextetAt(t, 4) = 0
<1>. DEFINE v3 == SextetAt(t, 3)
            v4 == SextetAt(t, 4)
<1>1. Low(t) = 64 * (v3 % 4) + v4
  BY ThreeBytes
<1>2. v3 \in Sextet /\ v4 \in Sextet
  OBVIOUS
<1>. HIDE DEF v3, v4
<1>3. v3 % 4 \in Nat
  BY ONLY <1>2 DEF Sextet
<1>4. v4 = 0
  BY ONLY Low(t) = 0, <1>1, <1>2, <1>3 DEF Sextet
<1>. QED BY <1>4 DEF v4

\* The padding of a text is where it has Pad, at its end.
LEMMA PadsAtEnd ==
    ASSUME NEW w, NEW N \in Nat, NEW p \in Nat, p <= N, Len(w) = N,
           \A i \in 1 .. N : w[i] = Pad <=> i > N - p
    PROVE  Pads(w) = p
<1>1. {i \in 1 .. Len(w) : w[i] = Pad} = N - p + 1 .. N
  OBVIOUS
<1>2. Cardinality(N - p + 1 .. N) = IF N - p + 1 > N THEN 0 ELSE N - (N - p + 1) + 1
  BY FS_Interval
<1>3. (IF N - p + 1 > N THEN 0 ELSE N - (N - p + 1) + 1) = p
  OBVIOUS
<1>. QED BY <1>1, <1>2, <1>3 DEF Pads

\* What the encoder writes is well formed, and stands for the bytes it was given.
LEMMA EncodeSpells ==
    ASSUME NEW in \in Seq(Octet), NEW w, w = Encode(in)
    PROVE  /\ w \in Seq(Char) /\ WellFormed(w)
           /\ Len(in) = 3 * (Len(w) \div 4) - Pads(w)
           /\ Bytes(w) = in
<1>. DEFINE n == Len(in)
            N == EncodedLen(n)
            p == Padding(n)
<1>1. /\ n \in Nat /\ N \in Nat /\ N % 4 = 0 /\ p \in 0 .. 2 /\ p <= N
      /\ n = 3 * (N \div 4) - p
  <2>1. n \in Nat
    OBVIOUS
  <2>. HIDE DEF n
  <2>. QED BY <2>1, EncodedLengths
<1>2. ASSUME NEW i \in 1 .. N
      PROVE  w[i] = IF i > N - p THEN Pad ELSE SextetAt(Triple(in, (i - 1) \div 4), ((i - 1) % 4) + 1)
  <2>. DEFINE q == (i - 1) \div 4
              j == ((i - 1) % 4) + 1
  <2>1. q \in Nat /\ j \in 1 .. 4 /\ 4 * q + j = i
    BY <1>1
  <2>. HIDE DEF q, j
  <2>2. 4 * q + j <= EncodedLen(Len(in))
    BY <1>1, <2>1
  <2>. QED BY <2>1, <2>2, EncodeChars DEF q, j
<1>. HIDE DEF n, N, p
<1>3. ASSUME NEW q \in Nat, NEW j \in 1 .. 4
      PROVE  SextetAt(Triple(in, q), j) \in Sextet
  <2>1. j = 1 \/ j = 2 \/ j = 3 \/ j = 4
    OBVIOUS
  <2>. QED BY <2>1, TripleType, Sextets
<1>4. \A i \in 1 .. N : (i - 1) \div 4 \in Nat /\ ((i - 1) % 4) + 1 \in 1 .. 4
  BY <1>1
<1>5. \A i \in 1 .. N : IF i > N - p THEN w[i] = Pad ELSE w[i] \in Sextet
  BY <1>2, <1>3, <1>4
<1>6. Len(w) = N /\ \A X : (\A i \in 1 .. N : w[i] \in X) => w \in [1 .. N -> X]
  <2>1. w = [k \in 1 .. N |->
                IF (k - 1) % 4 >= 2 /\ k > N - p THEN Pad
                ELSE (Triple(in, (k - 1) \div 4) \div 64 ^ (3 - ((k - 1) % 4))) % 64]
    BY EncodeIs, SMT DEF N, n, p
  <2>2. DOMAIN w = 1 .. N
    BY ONLY <2>1, SMT
  <2>3. w = [i \in DOMAIN w |-> w[i]]
    BY ONLY <2>1, SMT
  <2>4. ASSUME NEW X, \A i \in 1 .. N : w[i] \in X
        PROVE  w \in [1 .. N -> X]
    BY ONLY <2>2, <2>3, <2>4
  <2>. QED BY <1>1, <2>2, <2>3, <2>4
<1>7. w \in Seq(Char)
  <2>1. \A i \in 1 .. N : w[i] \in Char
    BY <1>5 DEF Char
  <2>2. w \in [1 .. N -> Char]
    BY <1>6, <2>1
  <2>. QED BY <1>1, <2>2
<1>8. Pads(w) = p
  <2>1. \A i \in 1 .. N : w[i] = Pad <=> i > N - p
    <3>1. Pad \notin Sextet
      BY Base64Assumption DEF Sextet
    <3>. QED BY <1>5, <3>1
  <2>2. p \in Nat /\ Len(w) = N
    BY <1>1, <1>6
  <2>. QED BY ONLY <1>1, <2>1, <2>2, PadsAtEnd
<1>9. WellFormed(w)
  <2>1. Len(w) = N
    BY <1>6
  <2>. QED BY ONLY <1>1, <1>5, <1>8, <2>1 DEF WellFormed, Sextet
<1>10. ASSUME NEW q \in Nat, 4 * q + 4 <= N
       PROVE  /\ Byte(w, 3 * q + 1) = ByteAt(in, 3 * q + 1)
              /\ Byte(w, 3 * q + 2) = ByteAt(in, 3 * q + 2)
              /\ Byte(w, 3 * q + 3) = ByteAt(in, 3 * q + 3)
  <2>. DEFINE t == Triple(in, q)
  <2>1. /\ t \in Word24
        /\ High(t) = ByteAt(in, 3 * q + 1)
        /\ Middle(t) = ByteAt(in, 3 * q + 2)
        /\ Low(t) = ByteAt(in, 3 * q + 3)
    BY TripleType
  <2>2. /\ SextetAt(t, 1) \in Sextet /\ SextetAt(t, 2) \in Sextet
        /\ SextetAt(t, 3) \in Sextet /\ SextetAt(t, 4) \in Sextet
        /\ t = ((SextetAt(t, 1) * 64 + SextetAt(t, 2)) * 64 + SextetAt(t, 3)) * 64 + SextetAt(t, 4)
    BY <2>1, Sextets
  <2>. HIDE DEF t
  <2>3. ASSUME NEW j \in 1 .. 4
        PROVE  w[4 * q + j] = IF 4 * q + j > N - p THEN Pad ELSE SextetAt(t, j)
    <3>1. 4 * q + j <= EncodedLen(Len(in))
      BY <1>1, <1>10 DEF N, n
    <3>. QED BY <3>1, EncodeChars DEF t, N, n, p
  <2>4. 4 * q + 1 <= N - p /\ 4 * q + 2 <= N - p
    BY <1>1, <1>10
  <2>5. 4 * q + 3 > N - p => SextetAt(t, 3) = 0 /\ SextetAt(t, 4) = 0
    <3>. SUFFICES ASSUME 4 * q + 3 > N - p
                  PROVE  SextetAt(t, 3) = 0 /\ SextetAt(t, 4) = 0
      OBVIOUS
    <3>1. N = 4 * q + 4 /\ p = 2
      BY <1>1, <1>10
    <3>2. N \div 4 = q + 1 /\ n = 3 * q + 1
      BY <1>1, <3>1
    <3>3. ByteAt(in, 3 * q + 2) = 0 /\ ByteAt(in, 3 * q + 3) = 0
      BY <3>2 DEF ByteAt, n
    <3>. QED BY ONLY <2>1, <2>2, <3>3, LastOne
  <2>6. 4 * q + 4 > N - p => SextetAt(t, 4) = 0
    <3>. SUFFICES ASSUME 4 * q + 4 > N - p, ~(4 * q + 3 > N - p)
                  PROVE  SextetAt(t, 4) = 0
      BY <2>5
    <3>1. N = 4 * q + 4 /\ p = 1
      BY <1>1, <1>10
    <3>2. N \div 4 = q + 1 /\ n = 3 * q + 2
      BY <1>1, <3>1
    <3>3. ByteAt(in, 3 * q + 3) = 0
      BY <3>2 DEF ByteAt, n
    <3>. QED BY ONLY <2>1, <2>2, <3>3, LastTwo
  <2>7. Pad \notin Sextet
    BY Base64Assumption DEF Sextet
  <2>8. /\ Value(w, 4 * q + 1) = SextetAt(t, 1) /\ Value(w, 4 * q + 2) = SextetAt(t, 2)
        /\ Value(w, 4 * q + 3) = SextetAt(t, 3) /\ Value(w, 4 * q + 4) = SextetAt(t, 4)
    <3>1. /\ w[4 * q + 1] = SextetAt(t, 1) /\ w[4 * q + 2] = SextetAt(t, 2)
          /\ w[4 * q + 3] = IF 4 * q + 3 > N - p THEN Pad ELSE SextetAt(t, 3)
          /\ w[4 * q + 4] = IF 4 * q + 4 > N - p THEN Pad ELSE SextetAt(t, 4)
      <4>1. 1 \in 1 .. 4 /\ 2 \in 1 .. 4 /\ 3 \in 1 .. 4 /\ 4 \in 1 .. 4
        OBVIOUS
      <4>2. ~(4 * q + 1 > N - p) /\ ~(4 * q + 2 > N - p)
        BY <1>1, <2>4
      <4>. QED BY ONLY <2>3, <4>1, <4>2, Zenon
    <3>. QED BY ONLY <2>2, <2>5, <2>6, <2>7, <3>1, Zenon DEF Value
  <2>9. /\ Byte(w, 3 * q + 1) = High(t)
        /\ Byte(w, 3 * q + 2) = Middle(t)
        /\ Byte(w, 3 * q + 3) = Low(t)
    BY ONLY q \in Nat, <2>2, <2>8, BlockBytes
  <2>. QED BY ONLY <2>1, <2>9
<1>11. ASSUME NEW i \in 1 .. n
       PROVE  Byte(w, i) = in[i]
  <2>. DEFINE q == (i - 1) \div 3
  <2>1. /\ q \in Nat /\ i \in Nat
        /\ i = 3 * q + 1 \/ i = 3 * q + 2 \/ i = 3 * q + 3
    BY <1>1
  <2>2. 4 * q + 4 <= N
    <3>1. N = 4 * (N \div 4) /\ N \div 4 \in Nat
      BY <1>1
    <3>2. 3 * q + 1 <= 3 * (N \div 4)
      BY <1>1, <2>1
    <3>. HIDE DEF q
    <3>. QED BY ONLY <2>1, <3>1, <3>2
  <2>. HIDE DEF q
  <2>3. Byte(w, i) = ByteAt(in, i)
    BY <1>10, <2>1, <2>2
  <2>. QED BY <1>1, <2>3 DEF ByteAt, n
<1>12. Bytes(w) = [i \in 1 .. n |-> Byte(w, i)]
  <2>1. (3 * N) \div 4 - p = n
    BY <1>1
  <2>. QED BY <1>6, <1>8, <2>1 DEF Bytes
<1>13. in = [i \in 1 .. n |-> in[i]]
  BY DEF n
<1>14. Bytes(w) = in
  BY <1>11, <1>12, <1>13
<1>. QED BY <1>1, <1>6, <1>7, <1>8, <1>9, <1>14 DEF n

LEMMA LengthsBack ==
    ASSUME NEW N \in Nat, N % 4 = 0, NEW p \in 0 .. 2, p <= N,
           NEW n, n = 3 * (N \div 4) - p
    PROVE  n \in Nat /\ EncodedLen(n) = N /\ Padding(n) = p
<1>. DEFINE q == N \div 4
<1>1. N = 4 * q /\ q \in Nat
  OBVIOUS
<1>. HIDE DEF q
<1>2. n = 3 * q - p
  BY DEF q
<1>3. n \in Nat
  BY <1>1, <1>2
<1>4. p = 0 \/ p = 1 \/ p = 2
  OBVIOUS
<1>5. (n + 2) \div 3 = q /\ (n % 3) = IF p = 0 THEN 0 ELSE 3 - p
  BY ONLY <1>1, <1>2, <1>3, <1>4
<1>. QED BY ONLY <1>1, <1>3, <1>4, <1>5 DEF EncodedLen, Padding

LEMMA WellFormedIs ==
    ASSUME NEW w \in Seq(Char), WellFormed(w)
    PROVE  /\ Len(w) \in Nat /\ Len(w) % 4 = 0 /\ Pads(w) \in 0 .. 2 /\ Pads(w) <= Len(w)
           /\ \A i \in 1 .. Len(w) :
                 IF i > Len(w) - Pads(w) THEN w[i] = Pad ELSE w[i] \in Sextet
<1>1. Pads(w) \in 0 .. Len(w) /\ Len(w) \in Nat
  BY PadsAppend DEF Char
<1>2. /\ Len(w) % 4 = 0 /\ Pads(w) <= 2
      /\ \A i \in 1 .. Len(w) :
            IF i > Len(w) - Pads(w) THEN w[i] = Pad ELSE w[i] \in 0 .. 63
  BY DEF WellFormed
<1>3. Pads(w) \in 0 .. 2 /\ Pads(w) <= Len(w)
  BY ONLY <1>1, <1>2
<1>. QED BY ONLY <1>1, <1>2, <1>3 DEF Sextet

\* the text has no bit behind its last byte
Clean(w, n) == \A j \in 8 * n .. 6 * Len(w) - 1 : Bit(w, j) # 1

\* The bytes of a block of a clean text make the block's number.
LEMMA CleanTriple ==
    ASSUME NEW w \in Seq(Char), WellFormed(w), NEW in \in Seq(Octet), in = Bytes(w),
           NEW n, n = Len(in), n = 3 * (Len(w) \div 4) - Pads(w), Clean(w, n),
           NEW q \in Nat, 4 * q + 4 <= Len(w)
    PROVE  LET v(k) == Value(w, 4 * q + k) IN
           /\ v(1) \in Sextet /\ v(2) \in Sextet /\ v(3) \in Sextet /\ v(4) \in Sextet
           /\ Triple(in, q) = ((v(1) * 64 + v(2)) * 64 + v(3)) * 64 + v(4)
<1>. DEFINE N == Len(w)
            p == Pads(w)
            v1 == Value(w, 4 * q + 1)
            v2 == Value(w, 4 * q + 2)
            v3 == Value(w, 4 * q + 3)
            v4 == Value(w, 4 * q + 4)
            accum == ((v1 * 64 + v2) * 64 + v3) * 64 + v4
<1>1. /\ N \in Nat /\ N % 4 = 0 /\ p \in 0 .. 2 /\ p <= N
      /\ \A i \in 1 .. N : IF i > N - p THEN w[i] = Pad ELSE w[i] \in Sextet
  BY WellFormedIs
<1>2. n \in Nat /\ n = 3 * (N \div 4) - p /\ N = 4 * (N \div 4) /\ N \div 4 \in Nat
  BY <1>1
<1>3. 4 * q + 4 <= N /\ q + 1 <= N \div 4
  BY <1>2
<1>. HIDE DEF N, p
<1>4. ASSUME NEW k \in 1 .. 4
      PROVE  Value(w, 4 * q + k) \in Sextet
  <2>1. 4 * q + k \in 1 .. N
    BY <1>1, <1>3
  <2>. QED BY <1>1, <2>1 DEF Value, Sextet
<1>5. v1 \in Sextet /\ v2 \in Sextet /\ v3 \in Sextet /\ v4 \in Sextet
  BY <1>4
<1>6. /\ Value(w, 4 * q + 1) = v1 /\ Value(w, 4 * q + 2) = v2
      /\ Value(w, 4 * q + 3) = v3 /\ Value(w, 4 * q + 4) = v4
  OBVIOUS
<1>. HIDE DEF v1, v2, v3, v4
<1>7. accum = ((v1 * 64 + v2) * 64 + v3) * 64 + v4
  OBVIOUS
<1>. HIDE DEF accum
<1>8. /\ Byte(w, 3 * q + 1) = High(accum)
      /\ Byte(w, 3 * q + 2) = Middle(accum)
      /\ Byte(w, 3 * q + 3) = Low(accum)
  BY ONLY q \in Nat, <1>5, <1>6, <1>7, BlockBytes
<1>9. /\ Middle(accum) = 16 * (v2 % 16) + (v3 \div 4)
      /\ Low(accum) = 64 * (v3 % 4) + v4
  BY ONLY <1>5, <1>7, ThreeBytes
<1>10. \A i \in 1 .. n : in[i] = Byte(w, i)
  <2>1. (3 * N) \div 4 - p = n
    <3>. DEFINE k == N \div 4
    <3>1. k \in Nat /\ N = 4 * k /\ n = 3 * k - p
      BY ONLY <1>2
    <3>. HIDE DEF k
    <3>2. (3 * N) \div 4 = 3 * k
      BY ONLY <3>1
    <3>. QED BY ONLY <3>1, <3>2
  <2>. QED BY <2>1 DEF Bytes, N, p
<1>11. ByteAt(in, 3 * q + 1) = High(accum)
  <2>. DEFINE k == N \div 4
  <2>0. k \in Nat /\ n = 3 * k - p /\ q + 1 <= k /\ p \in 0 .. 2
    BY ONLY <1>1, <1>2, <1>3
  <2>. HIDE DEF k
  <2>1. 3 * q + 1 \in 1 .. n
    BY ONLY q \in Nat, <2>0
  <2>. QED BY <1>8, <1>10, <2>1 DEF ByteAt
<1>12. /\ Bit(w, 24 * q + 8) = (v2 \div 8) % 2 /\ Bit(w, 24 * q + 9) = (v2 \div 4) % 2
       /\ Bit(w, 24 * q + 10) = (v2 \div 2) % 2 /\ Bit(w, 24 * q + 11) = (v2 \div 1) % 2
  <2>. DEFINE m == 4 * q + 1
  <2>1. m \in Nat /\ m + 1 = 4 * q + 2 /\ Value(w, m + 1) = v2
    BY <1>6
  <2>2. /\ 6 * m + 2 = 24 * q + 8 /\ 6 * m + 3 = 24 * q + 9
        /\ 6 * m + 4 = 24 * q + 10 /\ 6 * m + 5 = 24 * q + 11
    OBVIOUS
  <2>. HIDE DEF m
  <2>3. /\ Bit(w, 6 * m + 2) = (v2 \div 8) % 2 /\ Bit(w, 6 * m + 3) = (v2 \div 4) % 2
        /\ Bit(w, 6 * m + 4) = (v2 \div 2) % 2 /\ Bit(w, 6 * m + 5) = (v2 \div 1) % 2
    BY <1>5, <2>1, BitAt
  <2>. QED BY ONLY <2>2, <2>3
<1>13. Bit(w, 24 * q + 16) = (v3 \div 2) % 2 /\ Bit(w, 24 * q + 17) = (v3 \div 1) % 2
  <2>. DEFINE m == 4 * q + 2
  <2>1. m \in Nat /\ m + 1 = 4 * q + 3 /\ Value(w, m + 1) = v3
    BY <1>6
  <2>2. 6 * m + 4 = 24 * q + 16 /\ 6 * m + 5 = 24 * q + 17
    OBVIOUS
  <2>. HIDE DEF m
  <2>3. Bit(w, 6 * m + 4) = (v3 \div 2) % 2 /\ Bit(w, 6 * m + 5) = (v3 \div 1) % 2
    BY <1>5, <2>1, BitAt
  <2>. QED BY ONLY <2>2, <2>3
<1>14. /\ v2 % 16 = 8 * ((v2 \div 8) % 2) + 4 * ((v2 \div 4) % 2)
                     + 2 * ((v2 \div 2) % 2) + ((v2 \div 1) % 2)
       /\ v3 % 4 = 2 * ((v3 \div 2) % 2) + ((v3 \div 1) % 2)
  BY <1>5, SixBits DEF Sextet
<1>15. /\ (v2 \div 8) % 2 \in 0 .. 1 /\ (v2 \div 4) % 2 \in 0 .. 1
       /\ (v2 \div 2) % 2 \in 0 .. 1 /\ (v2 \div 1) % 2 \in 0 .. 1
       /\ (v3 \div 2) % 2 \in 0 .. 1 /\ (v3 \div 1) % 2 \in 0 .. 1
  BY ONLY <1>5 DEF Sextet
<1>16. 3 * q + 2 > n => v2 % 16 = 0 /\ v3 = 0 /\ v4 = 0
  <2>. SUFFICES ASSUME 3 * q + 2 > n
                PROVE  v2 % 16 = 0 /\ v3 = 0 /\ v4 = 0
    OBVIOUS
  <2>1. N = 4 * q + 4 /\ p = 2 /\ n = 3 * q + 1
    BY ONLY q \in Nat, 3 * q + 2 > n, <1>1, <1>2, <1>3
  <2>2. 4 * q + 3 \in 1 .. N /\ 4 * q + 3 > N - p /\ 4 * q + 4 \in 1 .. N /\ 4 * q + 4 > N - p
    BY ONLY q \in Nat, <2>1
  <2>3. w[4 * q + 3] = Pad /\ w[4 * q + 4] = Pad
    BY ONLY <1>1, <2>2
  <2>4. v3 = 0 /\ v4 = 0
    BY <2>3 DEF Value, v3, v4
  <2>5. /\ 24 * q + 8 \in 8 * n .. 6 * N - 1 /\ 24 * q + 9 \in 8 * n .. 6 * N - 1
        /\ 24 * q + 10 \in 8 * n .. 6 * N - 1 /\ 24 * q + 11 \in 8 * n .. 6 * N - 1
    BY ONLY q \in Nat, <2>1
  <2>6. /\ Bit(w, 24 * q + 8) # 1 /\ Bit(w, 24 * q + 9) # 1
        /\ Bit(w, 24 * q + 10) # 1 /\ Bit(w, 24 * q + 11) # 1
    BY <2>5 DEF Clean, N
  <2>7. v2 % 16 = 0
    BY ONLY <1>12, <1>14, <1>15, <2>6
  <2>. QED BY <2>4, <2>7
<1>17. 3 * q + 3 > n => v3 % 4 = 0 /\ v4 = 0
  <2>. SUFFICES ASSUME 3 * q + 3 > n, ~(3 * q + 2 > n)
                PROVE  v3 % 4 = 0 /\ v4 = 0
    <3>1. 0 % 4 = 0
      OBVIOUS
    <3>. QED BY <1>16, <3>1
  <2>1. N = 4 * q + 4 /\ p = 1 /\ n = 3 * q + 2
    BY ONLY q \in Nat, 3 * q + 3 > n, ~(3 * q + 2 > n), <1>1, <1>2, <1>3
  <2>2. 4 * q + 4 \in 1 .. N /\ 4 * q + 4 > N - p
    BY ONLY q \in Nat, <2>1
  <2>3. w[4 * q + 4] = Pad
    BY ONLY <1>1, <2>2
  <2>4. v4 = 0
    BY <2>3 DEF Value, v4
  <2>5. 24 * q + 16 \in 8 * n .. 6 * N - 1 /\ 24 * q + 17 \in 8 * n .. 6 * N - 1
    BY ONLY q \in Nat, <2>1
  <2>6. Bit(w, 24 * q + 16) # 1 /\ Bit(w, 24 * q + 17) # 1
    BY <2>5 DEF Clean, N
  <2>7. v3 % 4 = 0
    BY ONLY <1>13, <1>14, <1>15, <2>6
  <2>. QED BY <2>4, <2>7
<1>18. ByteAt(in, 3 * q + 2) = Middle(accum)
  <2>1. CASE 3 * q + 2 > n
    <3>1. 0 \div 4 = 0 /\ 16 * 0 + 0 = 0
      OBVIOUS
    <3>2. Middle(accum) = 0
      BY ONLY <1>9, <1>16, <2>1, <3>1
    <3>. QED BY <1>2, <2>1, <3>2 DEF ByteAt
  <2>2. CASE ~(3 * q + 2 > n)
    <3>1. 3 * q + 2 \in 1 .. n
      BY <1>2, <2>2
    <3>. QED BY <1>8, <1>10, <3>1 DEF ByteAt
  <2>. QED BY <2>1, <2>2
<1>19. ByteAt(in, 3 * q + 3) = Low(accum)
  <2>1. CASE 3 * q + 3 > n
    <3>1. Low(accum) = 0
      BY ONLY <1>9, <1>17, <2>1
    <3>. QED BY <1>2, <2>1, <3>1 DEF ByteAt
  <2>2. CASE ~(3 * q + 3 > n)
    <3>1. 3 * q + 3 \in 1 .. n
      BY <1>2, <2>2
    <3>. QED BY <1>8, <1>10, <3>1 DEF ByteAt
  <2>. QED BY <2>1, <2>2
<1>20. accum = High(accum) * 65536 + Middle(accum) * 256 + Low(accum)
  <2>1. High(accum) = 4 * v1 + (v2 \div 16)
    BY ONLY <1>5, <1>7, ThreeBytes
  <2>2. /\ v2 = 16 * (v2 \div 16) + (v2 % 16) /\ v3 = 4 * (v3 \div 4) + (v3 % 4)
        /\ v2 \div 16 \in Nat /\ v2 % 16 \in Nat /\ v3 \div 4 \in Nat /\ v3 % 4 \in Nat
    BY ONLY <1>5 DEF Sextet
  <2>. QED BY ONLY <1>5, <1>7, <1>9, <2>1, <2>2, SMT DEF Sextet
<1>21. Triple(in, q) = accum
  BY ONLY <1>11, <1>18, <1>19, <1>20, SMT DEF Triple
<1>. QED BY <1>5, <1>7, <1>21, SMT DEF v1, v2, v3, v4

\* The encoder gives a clean text back.
LEMMA EncodeBytes ==
    ASSUME NEW w \in Seq(Char), WellFormed(w), NEW in \in Seq(Octet), in = Bytes(w),
           Len(in) = 3 * (Len(w) \div 4) - Pads(w), Clean(w, Len(in))
    PROVE  Encode(in) = w
<1>. DEFINE n == Len(in)
            N == Len(w)
            p == Pads(w)
            e == Encode(in)
<1>1. /\ N \in Nat /\ N % 4 = 0 /\ p \in 0 .. 2 /\ p <= N
      /\ \A i \in 1 .. N : IF i > N - p THEN w[i] = Pad ELSE w[i] \in Sextet
  BY WellFormedIs
<1>2. EncodedLen(n) = N /\ Padding(n) = p
  <2>1. n = 3 * (N \div 4) - p
    OBVIOUS
  <2>. HIDE DEF n, N, p
  <2>. QED BY <1>1, <2>1, LengthsBack
<1>3. ASSUME NEW i \in 1 .. N
      PROVE  e[i] = w[i]
  <2>. DEFINE q == (i - 1) \div 4
              j == ((i - 1) % 4) + 1
  <2>1. q \in Nat /\ j \in 1 .. 4 /\ 4 * q + j = i
    BY <1>1
  <2>2. 4 * q + 4 <= N
    BY <1>1
  <2>. HIDE DEF q, j
  <2>3. e[i] = IF i > N - p THEN Pad ELSE SextetAt(Triple(in, q), j)
    <3>1. 4 * q + j <= EncodedLen(Len(in))
      BY <1>1, <1>2, <2>1
    <3>2. e[4 * q + j] = IF 4 * q + j > EncodedLen(Len(in)) - Padding(Len(in)) THEN Pad
                         ELSE SextetAt(Triple(in, q), j)
      BY <2>1, <3>1, EncodeChars
    <3>. QED BY <1>2, <2>1, <3>2
  <2>4. CASE i > N - p
    BY <1>1, <2>3, <2>4
  <2>5. CASE ~(i > N - p)
    <3>. DEFINE v(k) == Value(w, 4 * q + k)
    <3>1. /\ v(1) \in Sextet /\ v(2) \in Sextet /\ v(3) \in Sextet /\ v(4) \in Sextet
          /\ Triple(in, q) = ((v(1) * 64 + v(2)) * 64 + v(3)) * 64 + v(4)
      BY <2>1, <2>2, CleanTriple
    <3>. HIDE DEF v
    <3>2. /\ SextetAt(Triple(in, q), 1) = v(1) /\ SextetAt(Triple(in, q), 2) = v(2)
          /\ SextetAt(Triple(in, q), 3) = v(3) /\ SextetAt(Triple(in, q), 4) = v(4)
      BY ONLY <3>1, SextetsOf
    <3>3. j = 1 \/ j = 2 \/ j = 3 \/ j = 4
      BY <2>1
    <3>4. SextetAt(Triple(in, q), j) = v(j)
      BY ONLY <3>2, <3>3
    <3>5. v(j) = w[i]
      <4>1. w[i] \in Sextet /\ Pad \notin Sextet
        BY <1>1, <2>5, Base64Assumption DEF Sextet
      <4>. QED BY <2>1, <4>1 DEF v, Value
    <3>. QED BY <2>3, <2>5, <3>4, <3>5
  <2>. QED BY <2>4, <2>5
<1>4. DOMAIN e = 1 .. N /\ e = [i \in DOMAIN e |-> e[i]]
  <2>1. e = [k \in 1 .. EncodedLen(n) |->
                IF (k - 1) % 4 >= 2 /\ k > EncodedLen(n) - Padding(n) THEN Pad
                ELSE (Triple(in, (k - 1) \div 4) \div 64 ^ (3 - ((k - 1) % 4))) % 64]
    BY EncodeIs, SMT
  <2>. HIDE DEF e
  <2>2. DOMAIN e = 1 .. EncodedLen(n)
    BY ONLY <2>1, SMT
  <2>3. e = [i \in DOMAIN e |-> e[i]]
    BY ONLY <2>1, SMT
  <2>. QED BY <1>2, <2>2, <2>3
<1>5. w = [i \in 1 .. N |-> w[i]]
  OBVIOUS
<1>. HIDE DEF e, N
<1>6. e = w
  BY ONLY <1>3, <1>4, <1>5
<1>. QED BY <1>6 DEF e

-----------------------------------------------------------------------------
(* The specification *)

\* The characters strings are made of are characters.
LEMMA SymbolsAreChars ==
    /\ Symbols \cup {Pad, Bad} \subseteq Char
    /\ \A s \in Seq(Symbols \cup {Pad, Bad}) : s \in Seq(Char)
<1>1. Symbols \cup {Pad, Bad} \subseteq Char
  BY Base64Assumption DEF Char, Sextet
<1>2. ASSUME NEW s \in Seq(Symbols \cup {Pad, Bad})
      PROVE  s \in Seq(Char)
  <2>1. s \in [1 .. Len(s) -> Symbols \cup {Pad, Bad}] /\ Len(s) \in Nat
    OBVIOUS
  <2>2. s \in [1 .. Len(s) -> Char]
    BY <1>1, <2>1
  <2>. QED BY <2>1, <2>2
<1>. QED BY <1>1, <1>2

\* The invariant holds of the empty string.
LEMMA BInvInit == Init => BInv
<1>. SUFFICES ASSUME Init
              PROVE  BInv
  OBVIOUS
<1>1. size \in Nat
  BY Base64Assumption DEF Init
<1>2. Start \in Block /\ Start.result /\ ReadInv(<<>>, size, Start)
  BY <1>1, StartReads
<1>3. <<>> \in Seq(Symbols \cup {Pad, Bad})
  OBVIOUS
<1>4. TypeOK
  BY <1>2, <1>3 DEF Init, TypeOK, Block, Octet
<1>. QED BY <1>2, <1>4 DEF BInv, Means, Init

\* and is kept by every character read.
LEMMA BInvNext == BInv /\ [Next]_vars => BInv'
<1>. SUFFICES ASSUME BInv, [Next]_vars
              PROVE  BInv'
  OBVIOUS
<1>1. /\ str \in Seq(Symbols \cup {Pad, Bad}) /\ str \in Seq(Char)
      /\ size \in Nat /\ size \in Sizes /\ st \in Block
  BY Base64Assumption, SymbolsAreChars DEF BInv, TypeOK, Block, Octet
<1>2. CASE UNCHANGED vars
  BY <1>2 DEF BInv, TypeOK, vars, Means
<1>3. ASSUME NEW c \in Symbols \cup {Pad, Bad}, Read(c)
      PROVE  BInv'
  <2>. c \in Char
    BY SymbolsAreChars
  <2>1. st.result /\ str' = Append(str, c) /\ st' = Step(st, c, size) /\ size' = size
    BY <1>3 DEF Read
  <2>2. ReadInv(str, size, st)
    BY <2>1 DEF BInv, Means
  <2>3. st' \in Block /\ Means(str', size', st')
    BY <1>1, <2>1, <2>2, StepMeans
  <2>4. TypeOK'
    <3>1. str' \in Seq(Symbols \cup {Pad, Bad})
      BY <1>1, <2>1
    <3>. QED BY <1>1, <2>1, <2>3, <3>1 DEF TypeOK, Block, Octet
  <2>. QED BY <2>3, <2>4 DEF BInv
<1>. QED BY <1>2, <1>3 DEF Next

LEMMA BInvAlways == Spec => []BInv
BY BInvInit, BInvNext, PTL DEF Spec

\* The decoder's locals keep their types: a block's number stays below 2^18
\* until its last character, and the count of its bytes between -1 and 3.
THEOREM DecoderTypes == Spec => []TypeOK
<1>1. BInv => TypeOK
  BY DEF BInv
<1>. QED BY <1>1, BInvAlways, PTL

\* wireguard_base64_decode of a well-formed text of any length, into a buffer
\* of any size: it succeeds exactly when the bytes fit, and writes those bytes.
THEOREM Decodes == Spec => []DecodesText
<1>1. BInv => DecodesText
  <2>. SUFFICES ASSUME BInv, WellFormed(str)
                PROVE  /\ Decoded(st) <=> Len(Bytes(str)) <= size
                       /\ Decoded(st) => st.out = Bytes(str)
    BY DEF DecodesText
  <2>1. str \in Seq(Char) /\ size \in Nat /\ st \in Block
    BY Base64Assumption, SymbolsAreChars DEF BInv, TypeOK, Block, Octet
  <2>2. /\ Len(str) \in Nat /\ Len(str) % 4 = 0 /\ Len(str) = Full(str)
        /\ Pads(str) \in 0 .. 2 /\ Pads(str) <= Len(str)
    <3>1. Len(str) \in Nat /\ Len(str) % 4 = 0
      BY <2>1 DEF WellFormed
    <3>2. Pads(str) \in 0 .. Len(str)
      BY <2>1, PadsAppend DEF Char
    <3>. QED BY <3>1, <3>2 DEF WellFormed, Full
  <2>3. Len(Bytes(str)) = 3 * (Len(str) \div 4) - Pads(str)
    BY <2>1, <2>2, BytesLen
  <2>4. CASE ~st.result
    <3>1. Len(Bytes(str)) > size
      BY <2>4 DEF BInv, Means
    <3>. QED BY <2>1, <2>2, <2>3, <2>4, <3>1 DEF Decoded
  <2>5. CASE st.result
    <3>1. ReadInv(str, size, st)
      BY <2>5 DEF BInv, Means
    <3>2. st.char_count = 0 /\ st.out = Bytes(str) /\ Len(st.out) <= size
      BY <2>1, <3>1, ReadAll
    <3>. QED BY <2>5, <3>2 DEF Decoded
  <2>. QED BY <2>4, <2>5
<1>. QED BY <1>1, BInvAlways, PTL

\* The encoder and the decoder against each other, for whatever the decoder has
\* made of a string of any length: what is encoded decodes to the same bytes, and
\* it is the same text if that was well formed and had no stray bits.
THEOREM RoundTrips == Spec => []RoundTrip
<1>1. BInv /\ DecodesText => RoundTrip
  <2>. SUFFICES ASSUME BInv, DecodesText, Decoded(st)
                PROVE  LET again == FoldLeft(LAMBDA s, c : Step(s, c, Len(st.out)), Start,
                                             Encode(st.out)) IN
                       /\ Decoded(again) /\ again.out = st.out
                       /\ WellFormed(str) =>
                             \/ Encode(st.out) = str
                             \/ \E j \in 8 * Len(st.out) .. 6 * Len(str) - 1 : Bit(str, j) = 1
    BY DEF RoundTrip
  <2>. DEFINE n == Len(st.out)
              w == Encode(st.out)
  <2>1. str \in Seq(Char) /\ st \in Block /\ st.out \in Seq(Octet) /\ n \in Nat
    BY Base64Assumption, SymbolsAreChars DEF BInv, TypeOK, Block, Octet
  <2>2. /\ w \in Seq(Char) /\ WellFormed(w) /\ Bytes(w) = st.out
        /\ n = 3 * (Len(w) \div 4) - Pads(w)
    BY <2>1, EncodeSpells
  <2>3. /\ Run(w, n).result /\ Run(w, n).char_count = 0
        /\ Run(w, n).out = st.out
    <3>. HIDE DEF w, n
    <3>1. 3 * (Len(w) \div 4) - Pads(w) <= n
      BY <2>1, <2>2
    <3>. QED BY <2>1, <2>2, <3>1, RunReads
  <2>4. ASSUME WellFormed(str), Clean(str, n)
        PROVE  Encode(st.out) = str
    <3>1. st.out = Bytes(str)
      BY <2>4 DEF DecodesText
    <3>2. Len(Bytes(str)) = 3 * (Len(str) \div 4) - Pads(str)
      <4>1. ReadInv(str, size, st) /\ size \in Nat
        BY Base64Assumption DEF BInv, TypeOK, Means, Decoded
      <4>. QED BY <2>1, <2>4, <4>1, ReadAll
    <3>. QED BY <2>1, <2>4, <3>1, <3>2, EncodeBytes
  <2>. QED BY <2>3, <2>4 DEF Run, Decoded, Clean
<1>. QED BY <1>1, BInvAlways, Decodes, PTL

\* Nothing decodes that is not well formed, but for a last block of one
\* character and three of padding.
THEOREM Refuses == Spec => []RefusesMalformed
<1>1. BInv => RefusesMalformed
  <2>. SUFFICES ASSUME BInv, Decoded(st)
                PROVE  WellFormed(str) \/ (Pads(str) = 3 /\ Len(str) % 4 = 0)
    BY DEF RefusesMalformed
  <2>1. ReadInv(str, size, st) /\ st.char_count = 0
    BY DEF BInv, Means, Decoded
  <2>. QED BY <2>1 DEF ReadInv, Ordered, WellFormed
<1>. QED BY <1>1, BInvAlways, PTL
=============================================================================
