---------------------------- MODULE PrimitivesProofs ----------------------------
(***************************************************************************)
(* Proofs about the primitives, for inputs of any length and any sizes of  *)
(* blocks, words and limbs.                                                *)
(***************************************************************************)
EXTENDS Primitives, TLAPS, FiniteSetTheorems, WellFoundedInduction

-----------------------------------------------------------------------------
(* The AEAD: what the tag is taken over *)

\* A byte tells the number it was made of.
LEMMA PlainTells ==
    ASSUME NEW m, NEW n, Plain(m) = Plain(n)
    PROVE  m = n
<1>1. CASE m = 0 \/ n = 0
  BY <1>1 DEF Plain
<1>2. CASE m # 0 /\ n # 0
  <2>1. Plain(m) = {<<"plain", m>>} /\ Plain(n) = {<<"plain", n>>}
    BY <1>2 DEF Plain
  <2>2. <<"plain", m>> = <<"plain", n>>
    BY <2>1
  <2>. QED BY <2>2
<1>. QED BY <1>1, <1>2

\* w is u with v behind it
IsJoin(w, u, v) ==
    /\ Len(u) \in Nat /\ Len(v) \in Nat /\ Len(w) = Len(u) + Len(v)
    /\ \A i \in 1 .. Len(u) : w[i] = u[i]
    /\ \A i \in 1 .. Len(v) : w[Len(u) + i] = v[i]

LEMMA Joined ==
    ASSUME NEW X, NEW u \in Seq(X), NEW v \in Seq(X)
    PROVE  u \o v \in Seq(X) /\ IsJoin(u \o v, u, v)
<1>1. u \o v \in Seq(X) /\ Len(u \o v) = Len(u) + Len(v) /\ Len(u) \in Nat /\ Len(v) \in Nat
  OBVIOUS
<1>2. ASSUME NEW i \in 1 .. Len(u) PROVE (u \o v)[i] = u[i]
  <2>1. i \in 1 .. Len(u) + Len(v) /\ i <= Len(u)
    BY <1>1
  <2>. QED BY <2>1
<1>3. ASSUME NEW i \in 1 .. Len(v) PROVE (u \o v)[Len(u) + i] = v[i]
  <2>. DEFINE j == Len(u) + i
  <2>1. j \in 1 .. Len(u) + Len(v) /\ ~(j <= Len(u)) /\ j - Len(u) = i
    BY <1>1
  <2>. HIDE DEF j
  <2>2. (u \o v)[j] = v[j - Len(u)]
    BY <2>1
  <2>. QED BY <2>1, <2>2 DEF j
<1>. QED BY <1>1, <1>2, <1>3 DEF IsJoin

\* Sequences with the same elements are the same.
LEMMA SameSeq ==
    ASSUME NEW X, NEW u \in Seq(X), NEW v \in Seq(X), Len(u) = Len(v), \A i \in 1 .. Len(u) : u[i] = v[i]
    PROVE  u = v
OBVIOUS

\* the length of the filling behind n bytes
Filling(n) == (BlockSize - (n % BlockSize)) % BlockSize

LEMMA PaddingIs ==
    ASSUME NEW n \in Nat, NEW X, {} \in X
    PROVE  Filling(n) \in Nat /\ Padding(n) \in Seq(X) /\ Len(Padding(n)) = Filling(n)
<1>. DEFINE k == Filling(n)
<1>1. k \in Nat
  <2>1. BlockSize \in Nat \ {0}
    BY Poly1305Assumption
  <2>2. BlockSize - (n % BlockSize) \in Int
    BY <2>1
  <2>3. \A m \in Int : m % BlockSize \in Nat
    BY <2>1
  <2>. QED BY <2>2, <2>3 DEF Filling
<1>2. Padding(n) = [i \in 1 .. k |-> {}]
  BY DEF Padding, Zeros, Plain, Filling
<1>. HIDE DEF k
<1>3. [i \in 1 .. k |-> {}] \in Seq(X) /\ Len([i \in 1 .. k |-> {}]) = k
  BY <1>1
<1>4. Padding(n) \in Seq(X) /\ Len(Padding(n)) = k
  BY <1>2, <1>3
<1>. QED BY <1>1, <1>4 DEF k

\* Where the parts of the input are.
LEMMA MacInputAt ==
    ASSUME NEW S, NEW ad \in Seq(S), NEW text \in Seq(S)
    PROVE  LET m == MacInput(ad, text)
               a == Len(ad) + Filling(Len(ad))
               n == a + Len(text) + Filling(Len(text)) IN
           /\ a \in Nat /\ n \in Nat /\ Len(m) = n + 2
           /\ \A i \in 1 .. Len(ad) : m[i] = ad[i]
           /\ \A i \in 1 .. Len(text) : m[a + i] = text[i]
           /\ m[n + 1] = Plain(Len(ad)) /\ m[n + 2] = Plain(Len(text))
<1>. DEFINE X == S \cup {{}, Plain(Len(ad)), Plain(Len(text))}
            p == Padding(Len(ad))
            q == Padding(Len(text))
            t == <<Plain(Len(ad)), Plain(Len(text))>>
<1>1. ad \in Seq(X) /\ text \in Seq(X) /\ t \in Seq(X) /\ Len(t) = 2
  OBVIOUS
<1>2. /\ p \in Seq(X) /\ Len(p) = Filling(Len(ad)) /\ Filling(Len(ad)) \in Nat
      /\ q \in Seq(X) /\ Len(q) = Filling(Len(text)) /\ Filling(Len(text)) \in Nat
  BY PaddingIs
<1>3. t[1] = Plain(Len(ad)) /\ t[2] = Plain(Len(text))
  OBVIOUS
<1>. HIDE DEF X, p, q, t
<1>. DEFINE u == ad \o p
            v == u \o text
            w == v \o q
            m == w \o t
<1>4. MacInput(ad, text) = m
  BY DEF MacInput, p, q, t
<1>5. /\ u \in Seq(X) /\ Len(u) = Len(ad) + Len(p) /\ Len(ad) \in Nat /\ Len(p) \in Nat
      /\ \A i \in 1 .. Len(ad) : u[i] = ad[i]
  <2>1. ad \in Seq(X) /\ p \in Seq(X)
    BY <1>1, <1>2
  <2>2. u \in Seq(X) /\ IsJoin(u, ad, p)
    BY <2>1, Joined, Zenon
  <2>. QED BY <2>2 DEF IsJoin
<1>. HIDE DEF u
<1>6. /\ v \in Seq(X) /\ Len(v) = Len(u) + Len(text) /\ Len(text) \in Nat
      /\ \A i \in 1 .. Len(u) : v[i] = u[i]
      /\ \A i \in 1 .. Len(text) : v[Len(u) + i] = text[i]
  <2>1. u \in Seq(X) /\ text \in Seq(X)
    BY <1>1, <1>2, <1>5
  <2>2. u \o text \in Seq(X) /\ IsJoin(u \o text, u, text)
    BY <2>1, Joined, Zenon
  <2>. QED BY <2>2, <1>1 DEF IsJoin
<1>. HIDE DEF v
<1>7. /\ w \in Seq(X) /\ Len(w) = Len(v) + Len(q) /\ Len(q) \in Nat
      /\ \A i \in 1 .. Len(v) : w[i] = v[i]
  <2>1. v \in Seq(X) /\ q \in Seq(X)
    BY <1>1, <1>2, <1>6
  <2>2. v \o q \in Seq(X) /\ IsJoin(v \o q, v, q)
    BY <2>1, Joined, Zenon
  <2>. QED BY <2>2, <1>1 DEF IsJoin
<1>. HIDE DEF w
<1>8. /\ Len(m) = Len(w) + 2
      /\ \A i \in 1 .. Len(w) : m[i] = w[i]
      /\ \A i \in 1 .. 2 : m[Len(w) + i] = t[i]
  <2>1. w \in Seq(X) /\ t \in Seq(X)
    BY <1>1, <1>2, <1>7
  <2>2. w \o t \in Seq(X) /\ IsJoin(w \o t, w, t)
    BY <2>1, Joined, Zenon
  <2>. QED BY <2>2, <1>1 DEF IsJoin
<1>. HIDE DEF m
<1>9. m[Len(w) + 1] = Plain(Len(ad)) /\ m[Len(w) + 2] = Plain(Len(text))
  BY <1>3, <1>8
<1>. DEFINE a == Len(ad) + Filling(Len(ad))
            n == a + Len(text) + Filling(Len(text))
<1>10. /\ a \in Nat /\ n \in Nat /\ Len(u) = a /\ Len(v) = a + Len(text)
       /\ Len(w) = n /\ a <= n /\ a + Len(text) <= n /\ Len(ad) <= a
  <2>1. /\ Len(p) = Filling(Len(ad)) /\ Len(q) = Filling(Len(text))
        /\ Len(u) = Len(ad) + Len(p) /\ Len(v) = Len(u) + Len(text) /\ Len(w) = Len(v) + Len(q)
    BY <1>2, <1>5, <1>6, <1>7
  <2>2. {Len(ad), Len(text), Len(p), Len(q)} \subseteq Nat
    BY <1>5, <1>6, <1>7
  <2>3. a = Len(ad) + Len(p) /\ n = (a + Len(text)) + Len(q)
    BY <2>1
  <2>. HIDE DEF a, n
  <2>. QED BY <2>1, <2>2, <2>3
<1>. HIDE DEF a, n
<1>11. ASSUME NEW i \in 1 .. Len(ad) PROVE m[i] = ad[i]
  <2>1. i \in 1 .. Len(u) /\ i \in 1 .. Len(v) /\ i \in 1 .. Len(w)
    BY <1>5, <1>6, <1>10
  <2>. QED BY <2>1, <1>5, <1>6, <1>7, <1>8
<1>12. ASSUME NEW i \in 1 .. Len(text) PROVE m[a + i] = text[i]
  <2>1. a + i \in 1 .. Len(v) /\ a + i \in 1 .. Len(w)
    BY <1>6, <1>10
  <2>2. v[a + i] = text[i]
    BY <1>6, <1>10
  <2>3. m[a + i] = w[a + i] /\ w[a + i] = v[a + i]
    BY <2>1, <1>7, <1>8
  <2>. QED BY <2>2, <2>3
<1>13. /\ a \in Nat /\ n \in Nat /\ Len(m) = n + 2
       /\ m[n + 1] = Plain(Len(ad)) /\ m[n + 2] = Plain(Len(text))
  BY <1>8, <1>9, <1>10
<1>. QED BY <1>4, <1>11, <1>12, <1>13 DEF a, n

LEMMA MacInputTells ==
    ASSUME NEW S, NEW ad \in Seq(S), NEW text \in Seq(S),
           NEW ad2 \in Seq(S), NEW text2 \in Seq(S),
           MacInput(ad, text) = MacInput(ad2, text2)
    PROVE  ad = ad2 /\ text = text2
<1>. DEFINE m == MacInput(ad, text)
            a == Len(ad) + Filling(Len(ad))
            n == a + Len(text) + Filling(Len(text))
            a2 == Len(ad2) + Filling(Len(ad2))
            n2 == a2 + Len(text2) + Filling(Len(text2))
<1>1. /\ a \in Nat /\ n \in Nat /\ Len(m) = n + 2
      /\ \A i \in 1 .. Len(ad) : m[i] = ad[i]
      /\ \A i \in 1 .. Len(text) : m[a + i] = text[i]
      /\ m[n + 1] = Plain(Len(ad)) /\ m[n + 2] = Plain(Len(text))
  BY MacInputAt
<1>2. MacInput(ad2, text2) = m
  OBVIOUS
<1>. HIDE DEF m
<1>3. /\ a2 \in Nat /\ n2 \in Nat /\ Len(m) = n2 + 2
      /\ \A i \in 1 .. Len(ad2) : m[i] = ad2[i]
      /\ \A i \in 1 .. Len(text2) : m[a2 + i] = text2[i]
      /\ m[n2 + 1] = Plain(Len(ad2)) /\ m[n2 + 2] = Plain(Len(text2))
  <2>1. LET mm == MacInput(ad2, text2) IN
        /\ a2 \in Nat /\ n2 \in Nat /\ Len(mm) = n2 + 2
        /\ \A i \in 1 .. Len(ad2) : mm[i] = ad2[i]
        /\ \A i \in 1 .. Len(text2) : mm[a2 + i] = text2[i]
        /\ mm[n2 + 1] = Plain(Len(ad2)) /\ mm[n2 + 2] = Plain(Len(text2))
    BY MacInputAt
  <2>. HIDE DEF a2, n2
  <2>. QED BY <2>1, <1>2
<1>. HIDE DEF n, n2
<1>4. n = n2
  BY <1>1, <1>3
<1>5. Len(ad) = Len(ad2) /\ Len(text) = Len(text2)
  BY <1>1, <1>3, <1>4, PlainTells
<1>6. a = a2
  BY <1>5
<1>. HIDE DEF a, a2
<1>7. ad = ad2
  BY <1>1, <1>3, <1>5
<1>8. text = text2
  <2>1. \A i \in 1 .. Len(text) : text[i] = text2[i]
    BY <1>1, <1>3, <1>5, <1>6
  <2>. QED BY <2>1, <1>5
<1>. QED BY <1>7, <1>8

-----------------------------------------------------------------------------
(* The AEAD: keystream, sealing and opening *)

\* byte number i from the start of block c of the keystream
KeyByte(key, nonce, c, i) ==
    <<"stream", key, nonce, c + (i - 1) \div StreamBlock, (i - 1) % StreamBlock>>

At(key, nonce, c) == [key |-> key, nonce |-> nonce, counter |-> c]

\* a text under the keystream from block c on, and the MAC's key
Covered(key, nonce, c, in) == [i \in 1 .. Len(in) |-> Xor(in[i], {KeyByte(key, nonce, c, i)})]
OneTimeKey(key, nonce) == [i \in 1 .. MacKeyLen |-> {<<"stream", key, nonce, 0, i - 1>>}]

LEMMA StreamAt ==
    ASSUME NEW key, NEW nonce, NEW c, NEW in
    PROVE  /\ ChaCha20(At(key, nonce, c), in).out = Covered(key, nonce, c, in)
           /\ ChaCha20(At(key, nonce, c), in).ctx = At(key, nonce, c + BlocksUsed(Len(in)))
<1>. DEFINE ctx == At(key, nonce, c)
            out == [i \in 1 .. Len(in) |->
                      Xor(in[i], Stream([ctx EXCEPT !.counter = @ + (i - 1) \div StreamBlock],
                                        (i - 1) % StreamBlock))]
            next == [ctx EXCEPT !.counter = @ + BlocksUsed(Len(in))]
<1>1. ChaCha20(ctx, in) = [out |-> out, ctx |-> next]
  BY DEF ChaCha20
<1>2. next = At(key, nonce, c + BlocksUsed(Len(in)))
  BY DEF At
<1>3. ASSUME NEW i \in 1 .. Len(in)
      PROVE  Stream([ctx EXCEPT !.counter = @ + (i - 1) \div StreamBlock], (i - 1) % StreamBlock)
                = {KeyByte(key, nonce, c, i)}
  BY DEF Stream, KeyByte, At
<1>4. out = Covered(key, nonce, c, in)
  BY <1>3 DEF Covered
<1>. HIDE DEF ctx, out, next
<1>. QED BY <1>1, <1>2, <1>4 DEF ctx

LEMMA ZerosAre ==
    ASSUME NEW n \in Nat
    PROVE  Len(Zeros(n)) = n /\ \A i \in 1 .. n : Zeros(n)[i] = {}
BY DEF Zeros, Plain

LEMMA XorIs ==
    ASSUME NEW x, NEW y
    PROVE  Xor({}, y) = y /\ Xor(Xor(x, y), y) = x
BY DEF Xor

\* A key byte tells all it is made of, its place included.
LEMMA PlaceTells ==
    ASSUME NEW i \in Nat \ {0}, NEW j \in Nat \ {0},
           (i - 1) \div StreamBlock = (j - 1) \div StreamBlock,
           (i - 1) % StreamBlock = (j - 1) % StreamBlock
    PROVE  i = j
<1>. DEFINE q == (i - 1) \div StreamBlock
            r == (i - 1) % StreamBlock
            b == StreamBlock
<1>1. StreamBlock \in Nat \ {0} /\ i - 1 \in Nat /\ j - 1 \in Nat
  BY ChaCha20Assumption
<1>2. \A x \in Nat : x = (x \div StreamBlock) * StreamBlock + (x % StreamBlock)
  BY <1>1
<1>3. i - 1 = q * b + r /\ j - 1 = q * b + r
  BY <1>1, <1>2
<1>4. i - 1 = j - 1
  <2>. HIDE DEF q, r, b
  <2>. QED BY <1>3
<1>. QED BY <1>4

\* The first block gives the MAC's key; the text's keystream begins with the second.
LEMMA MacKeyIs ==
    ASSUME NEW key, NEW nonce
    PROVE  /\ MacKey(key, nonce).out = OneTimeKey(key, nonce)
           /\ MacKey(key, nonce).ctx = At(key, nonce, 1)
<1>1. MacKeyLen \in Nat \ {0} /\ StreamBlock \in Nat \ {0} /\ MacKeyLen <= StreamBlock
  BY ChaCha20Assumption
<1>2. MacKey(key, nonce) = ChaCha20(At(key, nonce, 0), Zeros(MacKeyLen))
  BY DEF MacKey, ChaChaInit, At
<1>3. Len(Zeros(MacKeyLen)) = MacKeyLen /\ \A i \in 1 .. MacKeyLen : Zeros(MacKeyLen)[i] = {}
  BY <1>1, ZerosAre
<1>4. ASSUME NEW i \in 1 .. MacKeyLen
      PROVE  Xor(Zeros(MacKeyLen)[i], {KeyByte(key, nonce, 0, i)}) = {<<"stream", key, nonce, 0, i - 1>>}
  <2>1. (i - 1) \div StreamBlock = 0 /\ (i - 1) % StreamBlock = i - 1
    BY <1>1
  <2>2. KeyByte(key, nonce, 0, i) = <<"stream", key, nonce, 0, i - 1>>
    BY <2>1 DEF KeyByte
  <2>. QED BY <1>3, <2>2, XorIs
<1>5. BlocksUsed(MacKeyLen) = 1
  <2>1. MacKeyLen + StreamBlock - 1 \in StreamBlock .. 2 * StreamBlock - 1
    BY <1>1
  <2>2. \A n \in StreamBlock .. 2 * StreamBlock - 1 : n \div StreamBlock = 1
    BY <1>1
  <2>. QED BY <2>1, <2>2 DEF BlocksUsed
<1>6. /\ MacKey(key, nonce).out = Covered(key, nonce, 0, Zeros(MacKeyLen))
      /\ MacKey(key, nonce).ctx = At(key, nonce, 0 + 1)
  BY <1>2, <1>3, <1>5, StreamAt
<1>7. Covered(key, nonce, 0, Zeros(MacKeyLen)) = OneTimeKey(key, nonce)
  <2>. DEFINE z == Zeros(MacKeyLen)
  <2>1. Covered(key, nonce, 0, z) = [i \in 1 .. Len(z) |-> Xor(z[i], {KeyByte(key, nonce, 0, i)})]
    BY DEF Covered
  <2>2. Len(z) = MacKeyLen
        /\ \A i \in 1 .. MacKeyLen : Xor(z[i], {KeyByte(key, nonce, 0, i)})
                                         = {<<"stream", key, nonce, 0, i - 1>>}
    BY <1>3, <1>4
  <2>3. OneTimeKey(key, nonce) = [i \in 1 .. MacKeyLen |-> {<<"stream", key, nonce, 0, i - 1>>}]
    BY DEF OneTimeKey
  <2>. HIDE DEF z
  <2>4. Covered(key, nonce, 0, z) = OneTimeKey(key, nonce)
    BY <2>1, <2>2, <2>3
  <2>. QED BY <2>4 DEF z
<1>. QED BY <1>6, <1>7

LEMMA MacKeyTells ==
    ASSUME NEW key, NEW nonce, NEW key2, NEW nonce2,
           MacKey(key, nonce).out = MacKey(key2, nonce2).out
    PROVE  key = key2 /\ nonce = nonce2
<1>. DEFINE m == MacKey(key, nonce).out
<1>1. 1 \in 1 .. MacKeyLen
  BY ChaCha20Assumption
<1>0. m = OneTimeKey(key, nonce) /\ m = OneTimeKey(key2, nonce2)
  BY MacKeyIs
<1>. HIDE DEF m
<1>2. m[1] = {<<"stream", key, nonce, 0, 1 - 1>>}
  BY <1>0, <1>1 DEF OneTimeKey
<1>3. m[1] = {<<"stream", key2, nonce2, 0, 1 - 1>>}
  BY <1>0, <1>1 DEF OneTimeKey
<1>4. <<"stream", key, nonce, 0, 1 - 1>> = <<"stream", key2, nonce2, 0, 1 - 1>>
  BY <1>2, <1>3
<1>. QED BY <1>4

\* a sequence of some things
IsSeq(s) == s \in Seq({s[i] : i \in DOMAIN s})

\* Enciphering twice gives back the text, and keeps its length.
LEMMA Deciphers ==
    ASSUME NEW S, NEW text \in Seq(S), NEW key, NEW nonce, NEW c
    PROVE  /\ IsSeq(Covered(key, nonce, c, text))
           /\ Covered(key, nonce, c, Covered(key, nonce, c, text)) = text
<1>. DEFINE out == Covered(key, nonce, c, text)
            k(i) == {KeyByte(key, nonce, c, i)}
<1>1. Len(text) \in Nat /\ text = [i \in 1 .. Len(text) |-> text[i]]
  OBVIOUS
<1>2. out = [i \in 1 .. Len(text) |-> Xor(text[i], k(i))]
  BY DEF Covered
<1>3. Covered(key, nonce, c, out) = [i \in 1 .. Len(out) |-> Xor(out[i], k(i))]
  BY DEF Covered
<1>. HIDE DEF out, k
<1>4. Len(out) = Len(text) /\ \A i \in 1 .. Len(text) : out[i] = Xor(text[i], k(i))
  BY <1>1, <1>2
<1>5. [i \in 1 .. Len(out) |-> Xor(out[i], k(i))] = [i \in 1 .. Len(text) |-> text[i]]
  BY <1>4, XorIs
<1>6. IsSeq(out)
  BY <1>1, <1>2 DEF IsSeq
<1>. QED BY <1>1, <1>3, <1>5, <1>6 DEF out

\* What Decrypt makes of what Encrypt made, for all keys, nonces, texts and data.
LEMMA DecryptOpens ==
    ASSUME NEW S, NEW ad \in Seq(S), NEW text \in Seq(S), NEW ad2 \in Seq(S),
           NEW key, NEW nonce, NEW key2, NEW nonce2
    PROVE  LET opened == Decrypt(key2, nonce2, ad2, Encrypt(key, nonce, ad, text)) IN
           /\ opened.result <=> key2 = key /\ nonce2 = nonce /\ ad2 = ad
           /\ opened.result => opened.text = text
<1>. DEFINE out == ChaCha20(MacKey(key, nonce).ctx, text).out
            box == Encrypt(key, nonce, ad, text)
            good == box.tag = Tag(MacKey(key2, nonce2), ad2, box.text)
            opened == Decrypt(key2, nonce2, ad2, box)
<1>1. box.text = out /\ box.tag = Tag(MacKey(key, nonce), ad, out)
  BY DEF Encrypt
<1>2. /\ good => opened = [result |-> TRUE, text |-> ChaCha20(MacKey(key2, nonce2).ctx, out).out]
      /\ ~good => opened = [result |-> FALSE, text |-> <<>>]
  BY <1>1 DEF Decrypt
<1>3. out = Covered(key, nonce, 1, text)
  BY MacKeyIs, StreamAt
<1>4. IsSeq(out) /\ Covered(key, nonce, 1, out) = text
  BY <1>3, Deciphers
<1>. HIDE DEF box, out, opened
<1>5. good <=> /\ MacKey(key, nonce).out = MacKey(key2, nonce2).out
               /\ MacInput(ad, out) = MacInput(ad2, out)
  BY <1>1 DEF Tag
<1>6. ASSUME MacInput(ad, out) = MacInput(ad2, out) PROVE ad = ad2
  <2>. DEFINE U == S \cup {out[i] : i \in DOMAIN out}
  <2>1. ad \in Seq(U) /\ ad2 \in Seq(U) /\ out \in Seq(U)
    BY <1>4 DEF IsSeq
  <2>. HIDE DEF U
  <2>. QED BY <1>6, <2>1, MacInputTells
<1>7. good <=> key2 = key /\ nonce2 = nonce /\ ad2 = ad
  BY <1>5, <1>6, MacKeyTells
<1>8. good => ChaCha20(MacKey(key2, nonce2).ctx, out).out = text
  BY <1>4, <1>7, MacKeyIs, StreamAt
<1>. HIDE DEF good
<1>9. /\ opened.result <=> good
      /\ good => opened.text = text
  BY <1>2, <1>8
<1>. QED BY <1>7, <1>9 DEF opened, box

\* No byte of the keystream serves twice under a key and nonce.
LEMMA UsedOnce ==
    ASSUME NEW S, NEW text \in Seq(S), NEW key, NEW nonce
    PROVE  LET used == Used(key, nonce, text) IN
           \A i, j \in DOMAIN used : used[i] = used[j] => i = j
<1>. DEFINE a == MacKey(key, nonce).out
            N == Len(text)
            z == Zeros(N)
            b == ChaCha20(MacKey(key, nonce).ctx, z).out
            ka(i) == <<"stream", key, nonce, 0, i - 1>>
            kb(i) == KeyByte(key, nonce, 1, i)
<1>1. N \in Nat /\ MacKeyLen \in Nat /\ StreamBlock \in Nat \ {0}
  BY ChaCha20Assumption
<1>2. a = [i \in 1 .. MacKeyLen |-> {ka(i)}]
  BY MacKeyIs DEF OneTimeKey
<1>3. b = [i \in 1 .. N |-> {kb(i)}]
  <2>1. b = [i \in 1 .. Len(z) |-> Xor(z[i], {kb(i)})]
    <3>1. b = Covered(key, nonce, 1, z)
      BY StreamAt, MacKeyIs
    <3>. QED BY <3>1 DEF Covered
  <2>2. Len(z) = N /\ \A i \in 1 .. N : z[i] = {}
    BY <1>1, ZerosAre
  <2>. HIDE DEF z, b, kb, N
  <2>. QED BY <2>1, <2>2, XorIs
<1>4. Used(key, nonce, text) = a \o b
  BY DEF Used
<1>5. \A i \in 1 .. MacKeyLen, j \in 1 .. MacKeyLen : {ka(i)} = {ka(j)} => i = j
  <2>. SUFFICES ASSUME NEW i \in 1 .. MacKeyLen, NEW j \in 1 .. MacKeyLen, {ka(i)} = {ka(j)}
                PROVE  i = j
    OBVIOUS
  <2>1. <<"stream", key, nonce, 0, i - 1>> = <<"stream", key, nonce, 0, j - 1>>
    OBVIOUS
  <2>2. i - 1 = j - 1
    BY <2>1
  <2>. QED BY <2>2
<1>6. \A i \in 1 .. MacKeyLen, j \in 1 .. N : {ka(i)} # {kb(j)}
  <2>. SUFFICES ASSUME NEW i \in 1 .. MacKeyLen, NEW j \in 1 .. N, {ka(i)} = {kb(j)}
                PROVE  FALSE
    OBVIOUS
  <2>1. <<"stream", key, nonce, 0, i - 1>>
            = <<"stream", key, nonce, 1 + (j - 1) \div StreamBlock, (j - 1) % StreamBlock>>
    BY DEF KeyByte
  <2>2. 0 = 1 + (j - 1) \div StreamBlock
    BY <2>1
  <2>3. (j - 1) \div StreamBlock \in Nat
    BY <1>1
  <2>. QED BY <2>2, <2>3
<1>7. \A i \in 1 .. N, j \in 1 .. N : {kb(i)} = {kb(j)} => i = j
  <2>. SUFFICES ASSUME NEW i \in 1 .. N, NEW j \in 1 .. N, {kb(i)} = {kb(j)}
                PROVE  i = j
    OBVIOUS
  <2>1. <<"stream", key, nonce, 1 + (i - 1) \div StreamBlock, (i - 1) % StreamBlock>>
            = <<"stream", key, nonce, 1 + (j - 1) \div StreamBlock, (j - 1) % StreamBlock>>
    BY DEF KeyByte
  <2>2. 1 + (i - 1) \div StreamBlock = 1 + (j - 1) \div StreamBlock
        /\ (i - 1) % StreamBlock = (j - 1) % StreamBlock
    BY <2>1
  <2>3. (i - 1) \div StreamBlock \in Int /\ (j - 1) \div StreamBlock \in Int
        /\ i \in Nat \ {0} /\ j \in Nat \ {0}
    BY <1>1
  <2>4. (i - 1) \div StreamBlock = (j - 1) \div StreamBlock
    BY <2>2, <2>3
  <2>. QED BY <2>2, <2>3, <2>4, PlaceTells
<1>. HIDE DEF a, b, N, ka, kb
<1>. DEFINE X == {{ka(i)} : i \in 1 .. MacKeyLen} \cup {{kb(i)} : i \in 1 .. N}
            w == a \o b
<1>0. (\A i \in 1 .. MacKeyLen : {ka(i)} \in X) /\ \A i \in 1 .. N : {kb(i)} \in X
  OBVIOUS
<1>. HIDE DEF X
<1>8. a \in Seq(X) /\ b \in Seq(X) /\ Len(a) = MacKeyLen /\ Len(b) = N
  BY <1>0, <1>1, <1>2, <1>3
<1>9. w \in Seq(X) /\ IsJoin(w, a, b)
  BY <1>8, Joined
<1>. HIDE DEF w
<1>10. /\ DOMAIN w = 1 .. MacKeyLen + N
       /\ \A i \in 1 .. MacKeyLen : w[i] = {ka(i)}
       /\ \A i \in 1 .. N : w[MacKeyLen + i] = {kb(i)}
  BY <1>1, <1>2, <1>3, <1>8, <1>9 DEF IsJoin
<1>11. ASSUME NEW i \in DOMAIN w, NEW j \in DOMAIN w, w[i] = w[j]
       PROVE  i = j
  <2>1. \A n \in DOMAIN w : n \in 1 .. MacKeyLen \/ \E k \in 1 .. N : n = MacKeyLen + k
    <3>. SUFFICES ASSUME NEW n \in 1 .. MacKeyLen + N, n > MacKeyLen
                  PROVE  n - MacKeyLen \in 1 .. N /\ n = MacKeyLen + (n - MacKeyLen)
      BY <1>1, <1>10
    <3>. QED BY <1>1
  <2>2. CASE i \in 1 .. MacKeyLen /\ j \in 1 .. MacKeyLen
    BY <1>5, <1>10, <1>11, <2>2
  <2>3. CASE i \in 1 .. MacKeyLen /\ \E k \in 1 .. N : j = MacKeyLen + k
    <3>1. PICK k \in 1 .. N : j = MacKeyLen + k
      BY <2>3
    <3>2. w[i] = {ka(i)} /\ w[j] = {kb(k)}
      BY <1>10, <2>3, <3>1
    <3>. QED BY <1>6, <1>11, <2>3, <3>2
  <2>4. CASE j \in 1 .. MacKeyLen /\ \E k \in 1 .. N : i = MacKeyLen + k
    <3>1. PICK k \in 1 .. N : i = MacKeyLen + k
      BY <2>4
    <3>2. w[j] = {ka(j)} /\ w[i] = {kb(k)}
      BY <1>10, <2>4, <3>1
    <3>. QED BY <1>6, <1>11, <2>4, <3>2
  <2>5. CASE (\E k \in 1 .. N : i = MacKeyLen + k) /\ \E k \in 1 .. N : j = MacKeyLen + k
    <3>1. PICK k \in 1 .. N, l \in 1 .. N : i = MacKeyLen + k /\ j = MacKeyLen + l
      BY <2>5
    <3>2. w[i] = {kb(k)} /\ w[j] = {kb(l)}
      BY <1>10, <3>1
    <3>. QED BY <1>7, <1>11, <3>1, <3>2
  <2>. QED BY <2>1, <2>2, <2>3, <2>4, <2>5
<1>. QED BY <1>4, <1>11 DEF w

-----------------------------------------------------------------------------
(* Induction and folds.  The provers cannot be given an operator, so what is *)
(* proved by induction is stated as a set of numbers.                        *)

LEMMA NatWellFounded == IsWellFoundedOn({p \in Nat \X Nat : p[1] < p[2]}, Nat)
BY NatLessThanWellFounded DEF OpToRel

LEMMA Induction ==
    ASSUME NEW S, 0 \in S, \A n \in Nat : n \in S => n + 1 \in S
    PROVE  Nat \subseteq S
<1>. DEFINE R == {p \in Nat \X Nat : p[1] < p[2]}
            X == Nat \ S
<1>1. SUFFICES ASSUME X # {} PROVE FALSE
  OBVIOUS
<1>2. PICK x \in X : \A y \in X : <<y, x>> \notin R
  <2>1. IsWellFoundedOn(R, Nat) /\ X \subseteq Nat
    BY NatWellFounded
  <2>. HIDE DEF R, X
  <2>. QED BY <1>1, <2>1, WFMin
<1>3. x \in Nat /\ x # 0 /\ x \notin S
  OBVIOUS
<1>4. x - 1 \in Nat /\ <<x - 1, x>> \in R /\ (x - 1) + 1 = x
  BY <1>3
<1>5. x - 1 \in S
  BY <1>2, <1>4
<1>. QED BY <1>3, <1>4, <1>5

LEMMA MaxIs ==
    ASSUME NEW S \in SUBSET Int, NEW m \in S, \A x \in S : x <= m
    PROVE  Max(S) = m
<1>1. \A x \in S : m >= x
  OBVIOUS
<1>2. ASSUME NEW n \in S, \A x \in S : n >= x PROVE n = m
  <2>1. n >= m /\ n <= m /\ n \in Int /\ m \in Int
    BY <1>2
  <2>. QED BY <2>1
<1>. QED BY <1>1, <1>2 DEF Max

LEMMA MaxIn ==
    ASSUME NEW n \in Nat, NEW S \in SUBSET (1 .. n), S # {}
    PROVE  Max(S) \in S
<1>. DEFINE D == {k \in Nat : \A T \in SUBSET (1 .. k) :
                      T # {} => \E m \in T : \A x \in T : x <= m}
<1>1. 0 \in D
  <2>1. \A T \in SUBSET (1 .. 0) : T = {}
    OBVIOUS
  <2>. QED BY <2>1
<1>2. ASSUME NEW k \in Nat, k \in D PROVE k + 1 \in D
  <2>. SUFFICES ASSUME NEW T \in SUBSET (1 .. k + 1), T # {}
                PROVE  \E m \in T : \A x \in T : x <= m
    OBVIOUS
  <2>1. CASE k + 1 \in T
    BY <2>1
  <2>2. CASE k + 1 \notin T
    <3>1. T \in SUBSET (1 .. k)
      BY <2>2
    <3>. QED BY <1>2, <3>1
  <2>. QED BY <2>1, <2>2
<1>. HIDE DEF D
<1>3. n \in D
  BY <1>1, <1>2, Induction
<1>4. PICK m \in S : \A x \in S : x <= m
  BY <1>3 DEF D
<1>5. S \in SUBSET Int
  OBVIOUS
<1>. QED BY <1>4, <1>5, MaxIs

\* g folds b by F over any part of 1 .. n, the largest element last
Folds(g, F, b, n) ==
    \A S \in SUBSET (1 .. n) : g[S] = IF S = {} THEN b ELSE F[<<Max(S), g[S \ {Max(S)}]>>]

LEMMA FoldExists ==
    ASSUME NEW X, NEW b \in X, NEW F \in [Nat \X X -> X]
    PROVE  \A n \in Nat : \E g \in [SUBSET (1 .. n) -> X] : Folds(g, F, b, n)
<1>. DEFINE D == {n \in Nat : \E g \in [SUBSET (1 .. n) -> X] : Folds(g, F, b, n)}
<1>1. 0 \in D
  <2>. DEFINE g == [S \in SUBSET (1 .. 0) |-> b]
  <2>1. g \in [SUBSET (1 .. 0) -> X] /\ \A S \in SUBSET (1 .. 0) : S = {} /\ g[S] = b
    OBVIOUS
  <2>. QED BY <2>1 DEF Folds
<1>2. ASSUME NEW n \in Nat, n \in D PROVE n + 1 \in D
  <2>1. PICK g \in [SUBSET (1 .. n) -> X] : Folds(g, F, b, n)
    BY <1>2
  <2>. DEFINE h == [S \in SUBSET (1 .. n + 1) |->
                       IF n + 1 \in S THEN F[<<n + 1, g[S \ {n + 1}]>>] ELSE g[S]]
  <2>2. ASSUME NEW S \in SUBSET (1 .. n + 1)
        PROVE  IF n + 1 \in S THEN S \ {n + 1} \in SUBSET (1 .. n) ELSE S \in SUBSET (1 .. n)
    OBVIOUS
  <2>3. h \in [SUBSET (1 .. n + 1) -> X]
    BY <2>2
  <2>4. ASSUME NEW S \in SUBSET (1 .. n + 1)
        PROVE  h[S] = IF S = {} THEN b ELSE F[<<Max(S), h[S \ {Max(S)}]>>]
    <3>1. CASE n + 1 \in S
      <4>1. S \in SUBSET Int /\ \A x \in S : x <= n + 1
        OBVIOUS
      <4>2. Max(S) = n + 1
        BY <3>1, <4>1, MaxIs
      <4>3. S \ {n + 1} \in SUBSET (1 .. n + 1) /\ n + 1 \notin S \ {n + 1}
        OBVIOUS
      <4>4. h[S \ {n + 1}] = g[S \ {n + 1}]
        BY <4>3
      <4>. QED BY <3>1, <4>2, <4>4
    <3>2. CASE n + 1 \notin S
      <4>1. S \in SUBSET (1 .. n) /\ h[S] = g[S]
        BY <3>2
      <4>2. S \ {Max(S)} \in SUBSET (1 .. n) /\ S \ {Max(S)} \in SUBSET (1 .. n + 1)
            /\ n + 1 \notin S \ {Max(S)}
        BY <4>1, <3>2
      <4>3. h[S \ {Max(S)}] = g[S \ {Max(S)}]
        BY <4>2
      <4>. QED BY <2>1, <4>1, <4>3 DEF Folds
    <3>. QED BY <3>1, <3>2
  <2>. HIDE DEF h
  <2>5. Folds(h, F, b, n + 1)
    BY <2>4 DEF Folds
  <2>. QED BY <2>3, <2>5
<1>. HIDE DEF D
<1>3. Nat \subseteq D
  BY <1>1, <1>2, Induction
<1>. QED BY <1>3 DEF D

-----------------------------------------------------------------------------
(* BLAKE2s: the digest of the whole *)

\* Quotient and remainder are what they are by their definition.
IsDivision(a, d, q, r) == d \in Nat \ {0} /\ q \in Int /\ r \in 0 .. d - 1 /\ a = q * d + r

LEMMA Divided ==
    ASSUME NEW a, NEW d, NEW q, NEW r, IsDivision(a, d, q, r)
    PROVE  a \div d = q /\ a % d = r
<1>0. d \in Nat \ {0} /\ q \in Int /\ r \in 0 .. d - 1 /\ a = q * d + r
  BY DEF IsDivision
<1>. DEFINE k == a \div d
            m == a % d
<1>1. a \in Int
  BY <1>0
<1>2. k \in Int /\ m \in 0 .. d - 1 /\ a = k * d + m
  BY <1>0, <1>1
<1>. HIDE DEF k, m
<1>3. (k - q) * d = r - m
  BY <1>0, <1>2
<1>. DEFINE e == k - q
<1>4. e \in Int /\ e * d = r - m /\ r - m < d /\ r - m > -d
  BY <1>0, <1>2, <1>3
<1>. HIDE DEF e
<1>5. e = 0
  <2>1. CASE e >= 1
    <3>1. e * d >= d
      BY <1>0, <1>4, <2>1
    <3>. QED BY <1>0, <1>4, <3>1
  <2>2. CASE e <= -1
    <3>1. e * d <= -d
      BY <1>0, <1>4, <2>2
    <3>. QED BY <1>0, <1>4, <3>1
  <2>. QED BY <1>4, <2>1, <2>2
<1>6. k = q /\ m = r
  BY <1>0, <1>2, <1>4, <1>5 DEF e
<1>. QED BY <1>6 DEF k, m

LEMMA DividedIs ==
    ASSUME NEW d \in Nat \ {0}, NEW a \in Int
    PROVE  a \div d \in Int /\ a % d \in 0 .. d - 1 /\ a = (a \div d) * d + (a % d)
           /\ (a >= 0 => a \div d \in Nat)
OBVIOUS

\* n bytes, counted in two words
LowWord(n) == n % CounterMod
HighWord(n) == (n \div CounterMod) % CounterMod

LEMMA CountedIs ==
    ASSUME NEW n \in Nat, NEW c \in 0 .. HashBlock, NEW h, NEW b
    PROVE  Counted([h |-> h, t0 |-> LowWord(n), t1 |-> HighWord(n), c |-> c, b |-> b])
              = [h |-> h, t0 |-> LowWord(n + c), t1 |-> HighWord(n + c), c |-> c, b |-> b]
<1>. DEFINE M == CounterMod
            q == n \div M
            r == n % M
            s == q % M
            low == (r + c) % M
            high == IF low < c THEN (s + 1) % M ELSE s
<1>1. M \in Nat \ {0} /\ c \in 0 .. M /\ c \in Int
  BY Blake2sAssumption
<1>2. q \in Nat /\ r \in 0 .. M - 1 /\ n = q * M + r /\ n + c \in Nat
  <2>1. n \in Int /\ n >= 0 /\ n + c \in Nat
    BY <1>1
  <2>. QED BY <1>1, <2>1, DividedIs, Zenon
<1>3. s \in 0 .. M - 1
  BY <1>1, <1>2, DividedIs
<1>4. low = (n + c) % M /\ high = ((n + c) \div M) % M
  <2>1. CASE r + c < M
    <3>1. low = r + c
      BY <1>1, <1>2, <2>1
    <3>2. r + c \in 0 .. M - 1 /\ n + c = q * M + (r + c)
      BY <1>1, <1>2, <2>1
    <3>. HIDE DEF q, r, M
    <3>3. (n + c) \div M = q /\ (n + c) % M = r + c
      <4>1. IsDivision(n + c, M, q, r + c)
        BY <1>1, <1>2, <3>2 DEF IsDivision
      <4>. QED BY <4>1, Divided
    <3>4. high = s
      BY <1>1, <1>2, <3>1
    <3>. QED BY <3>1, <3>3, <3>4
  <2>2. CASE r + c >= M
    <3>1. r + c - M \in 0 .. M - 1 /\ n + c = (q + 1) * M + (r + c - M)
          /\ r + c = 1 * M + (r + c - M) /\ r + c - M < c
      BY <1>1, <1>2, <2>2
    <3>. HIDE DEF q, r, M
    <3>0. IsDivision(n + c, M, q + 1, r + c - M) /\ IsDivision(r + c, M, 1, r + c - M)
      BY <1>1, <1>2, <3>1 DEF IsDivision
    <3>2. (n + c) \div M = q + 1 /\ (n + c) % M = r + c - M
      BY <3>0, Divided
    <3>3. low = r + c - M
      BY <3>0, Divided
    <3>4. high = (s + 1) % M
      BY <3>1, <3>3
    <3>5. (q + 1) % M = (s + 1) % M
      <4>. DEFINE k == q \div M
      <4>1. k \in Int /\ q = k * M + s
        BY <1>1, <1>2, DividedIs
      <4>. HIDE DEF k, s
      <4>2. CASE s + 1 < M
        <5>1. s + 1 \in 0 .. M - 1 /\ q + 1 = k * M + (s + 1) /\ s + 1 = 0 * M + (s + 1)
          BY <1>1, <1>3, <4>1, <4>2
        <5>2. IsDivision(q + 1, M, k, s + 1) /\ IsDivision(s + 1, M, 0, s + 1)
          BY <1>1, <4>1, <5>1 DEF IsDivision
        <5>3. (q + 1) % M = s + 1 /\ (s + 1) % M = s + 1
          BY <5>2, Divided
        <5>. QED BY <5>3
      <4>3. CASE ~(s + 1 < M)
        <5>1. 0 \in 0 .. M - 1 /\ q + 1 = (k + 1) * M + 0 /\ s + 1 = 1 * M + 0
          BY <1>1, <1>3, <4>1, <4>3
        <5>2. IsDivision(q + 1, M, k + 1, 0) /\ IsDivision(s + 1, M, 1, 0)
          BY <1>1, <4>1, <5>1 DEF IsDivision
        <5>3. (q + 1) % M = 0 /\ (s + 1) % M = 0
          BY <5>2, Divided
        <5>. QED BY <5>3
      <4>. QED BY <4>2, <4>3
    <3>. QED BY <3>2, <3>3, <3>4, <3>5
  <2>. QED BY <1>1, <1>2, <2>1, <2>2
<1>. DEFINE ctx == [h |-> h, t0 |-> r, t1 |-> s, c |-> c, b |-> b]
<1>5. Counted(ctx) = [h |-> h, t0 |-> low, t1 |-> high, c |-> c, b |-> b]
  <2>1. low = (ctx.t0 + ctx.c) % CounterMod
    OBVIOUS
  <2>2. high = IF low < ctx.c THEN (ctx.t1 + 1) % CounterMod ELSE ctx.t1
    OBVIOUS
  <2>. HIDE DEF q, r, s, M, low, high
  <2>3. ctx = [h |-> h, t0 |-> r, t1 |-> s, c |-> c, b |-> b] /\ ctx.t1 = s /\ ctx.c = c
    OBVIOUS
  <2>. HIDE DEF ctx
  <2>4. Counted(ctx) = [[ctx EXCEPT !.t0 = low] EXCEPT
                          !.t1 = IF low < ctx.c THEN (ctx.t1 + 1) % CounterMod ELSE ctx.t1]
    <3>1. [ctx EXCEPT !.t0 = low].t1 = ctx.t1
      BY <2>3
    <3>. QED BY <2>1, <3>1 DEF Counted
  <2>5. Counted(ctx) = [[ctx EXCEPT !.t0 = low] EXCEPT !.t1 = high]
    BY <2>2, <2>4
  <2>. QED BY <2>3, <2>5
<1>. HIDE DEF low, high
<1>. QED BY <1>4, <1>5 DEF LowWord, HighWord

\* the chaining value behind block k of d, and after q blocks; h0 is the initial one
DoneBlock(d, k) ==
    [block |-> [i \in 1 .. HashBlock |-> d[(k - 1) * HashBlock + i]],
     t0 |-> LowWord(k * HashBlock), t1 |-> HighWord(k * HashBlock), last |-> FALSE]
History(h0, d, q) == [k \in 1 .. q + 1 |-> IF k = 1 THEN h0 ELSE DoneBlock(d, k - 1)]

\* The context after the bytes d: q blocks are compressed, and c bytes, none of
\* them only if there were none at all, wait in b, which starts out as zeros.
Buffers(d, q, c, b) ==
    /\ q \in Nat /\ c \in 0 .. HashBlock /\ b \in [1 .. HashBlock -> Nat]
    /\ Len(d) = q * HashBlock + c
    /\ c = 0 => q = 0
    /\ \A i \in 1 .. c : b[i] = d[q * HashBlock + i]
    /\ q = 0 => \A i \in 1 .. HashBlock : i > c => b[i] = 0

HashCtx(h0, d, q, c, b) ==
    [h |-> History(h0, d, q), t0 |-> LowWord(q * HashBlock), t1 |-> HighWord(q * HashBlock),
     c |-> c, b |-> b]

Hashed(ctx, h0, d) == \E q, c, b : Buffers(d, q, c, b) /\ ctx = HashCtx(h0, d, q, c, b)

LEMMA BlockKept ==
    ASSUME NEW d \in Seq(Nat), NEW x \in Nat, NEW k \in Nat \ {0}, k * HashBlock <= Len(d)
    PROVE  DoneBlock(Append(d, x), k) = DoneBlock(d, k)
<1>1. ASSUME NEW i \in 1 .. HashBlock
      PROVE  Append(d, x)[(k - 1) * HashBlock + i] = d[(k - 1) * HashBlock + i]
  <2>. DEFINE j == (k - 1) * HashBlock + i
  <2>1. HashBlock \in Nat \ {0} /\ i \in Nat /\ i >= 1 /\ i <= HashBlock /\ Len(d) \in Nat
    BY Blake2sAssumption
  <2>2. (k - 1) * HashBlock = k * HashBlock - HashBlock /\ (k - 1) * HashBlock \in Nat
    BY <2>1
  <2>3. j \in 1 .. Len(d)
    BY <2>1, <2>2
  <2>. HIDE DEF j
  <2>4. Append(d, x)[j] = d[j]
    BY <2>3
  <2>. QED BY <2>4 DEF j
<1>. QED BY <1>1 DEF DoneBlock

LEMMA HistoryGrows ==
    ASSUME NEW d \in Seq(Nat), NEW x \in Nat, NEW q \in Nat, NEW h0
    PROVE  /\ q * HashBlock <= Len(d) => History(h0, Append(d, x), q) = History(h0, d, q)
           /\ Append(History(h0, d, q), DoneBlock(d, q + 1)) = History(h0, d, q + 1)
<1>1. ASSUME q * HashBlock <= Len(d) PROVE History(h0, Append(d, x), q) = History(h0, d, q)
  <2>1. ASSUME NEW k \in 1 .. q + 1, k # 1
        PROVE  DoneBlock(Append(d, x), k - 1) = DoneBlock(d, k - 1)
    <3>. DEFINE l == k - 1
    <3>1. l \in Nat \ {0} /\ l <= q /\ HashBlock \in Nat /\ Len(d) \in Nat
      BY <2>1, Blake2sAssumption
    <3>. HIDE DEF l
    <3>2. l * HashBlock <= q * HashBlock
      BY <3>1
    <3>3. l * HashBlock \in Int /\ q * HashBlock \in Int
      BY <3>1
    <3>4. l * HashBlock <= Len(d)
      BY <1>1, <3>1, <3>2, <3>3
    <3>5. DoneBlock(Append(d, x), l) = DoneBlock(d, l)
      BY <3>1, <3>4, BlockKept
    <3>. QED BY <3>5 DEF l
  <2>. QED BY <2>1 DEF History
<1>2. Append(History(h0, d, q), DoneBlock(d, q + 1)) = History(h0, d, q + 1)
  <2>. DEFINE h == History(h0, d, q)
              e == DoneBlock(d, q + 1)
              S == {h[k] : k \in 1 .. q + 1} \cup {e}
  <2>1. h = [k \in 1 .. q + 1 |-> IF k = 1 THEN h0 ELSE DoneBlock(d, k - 1)]
    BY DEF History
  <2>2. History(h0, d, q + 1)
            = [k \in 1 .. (q + 1) + 1 |-> IF k = 1 THEN h0 ELSE DoneBlock(d, k - 1)]
    BY DEF History
  <2>. HIDE DEF h
  <2>3. (\A k \in 1 .. q + 1 : h[k] \in S) /\ DOMAIN h = 1 .. q + 1 /\ e \in S
    BY <2>1
  <2>4. h = [k \in 1 .. q + 1 |-> h[k]]
    BY <2>1
  <2>. HIDE DEF S
  <2>5. h \in Seq(S) /\ Len(h) = q + 1
    <3>. DEFINE n == q + 1
    <3>1. n \in Nat /\ h = [k \in 1 .. n |-> h[k]] /\ \A k \in 1 .. n : h[k] \in S
      BY <2>3, <2>4
    <3>. HIDE DEF n
    <3>2. h \in [1 .. n -> S]
      BY <3>1
    <3>3. h \in Seq(S) /\ Len(h) = n
      BY <3>1, <3>2
    <3>. QED BY <3>3 DEF n
  <2>6. /\ Append(h, e) = [k \in 1 .. (q + 1) + 1 |-> Append(h, e)[k]]
        /\ \A k \in 1 .. q + 1 : Append(h, e)[k] = h[k]
        /\ Append(h, e)[(q + 1) + 1] = e
    BY <2>3, <2>5
  <2>7. ASSUME NEW k \in 1 .. (q + 1) + 1
        PROVE  Append(h, e)[k] = IF k = 1 THEN h0 ELSE DoneBlock(d, k - 1)
    <3>1. CASE k \in 1 .. q + 1
      <4>. HIDE DEF e
      <4>. QED BY <2>1, <2>6, <3>1
    <3>2. CASE k = (q + 1) + 1
      <4>1. k # 1 /\ k - 1 = q + 1
        BY <3>2
      <4>. QED BY <2>6, <3>2, <4>1
    <3>3. k \in 1 .. q + 1 \/ k = (q + 1) + 1
      OBVIOUS
    <3>. HIDE DEF e
    <3>. QED BY <3>1, <3>2, <3>3
  <2>. HIDE DEF e
  <2>. QED BY <2>2, <2>6, <2>7 DEF h, e
<1>. QED BY <1>1, <1>2

\* a context, what compression adds to it, and the turn that compresses
Context(h, t0, t1, c, b) == [h |-> h, t0 |-> t0, t1 |-> t1, c |-> c, b |-> b]
Piece(b, t0, t1, last) == [block |-> b, t0 |-> t0, t1 |-> t1, last |-> last]
Started(b, x) == [b EXCEPT ![1] = x]
Flushed(ctx, last, x) ==
    LET free == [Compress(ctx, last) EXCEPT !.c = 0] IN
    [free EXCEPT !.b[free.c + 1] = x, !.c = @ + 1]

LEMMA Compressed ==
    ASSUME NEW ctx, NEW h, NEW t0, NEW t1, NEW c, NEW b, NEW x, NEW last,
           ctx = Context(h, t0, t1, c, b)
    PROVE  /\ Compress(ctx, last).h = Append(h, Piece(b, t0, t1, last))
           /\ Flushed(ctx, last, x)
                 = Context(Append(h, Piece(b, t0, t1, last)), t0, t1, 1, Started(b, x))
<1>. DEFINE more == Append(h, Piece(b, t0, t1, last))
            free == [Compress(ctx, last) EXCEPT !.c = 0]
            put == [b EXCEPT ![1] = x]
<1>0. ctx = [h |-> h, t0 |-> t0, t1 |-> t1, c |-> c, b |-> b]
  BY DEF Context
<1>4. Compress(ctx, last) = [h |-> more, t0 |-> t0, t1 |-> t1, c |-> c, b |-> b]
  <2>1. [block |-> ctx.b, t0 |-> ctx.t0, t1 |-> ctx.t1, last |-> last] = Piece(b, t0, t1, last)
        /\ ctx.h = h
    BY <1>0 DEF Piece
  <2>2. Compress(ctx, last)
          = [ctx EXCEPT !.h = Append(@, [block |-> ctx.b, t0 |-> ctx.t0, t1 |-> ctx.t1, last |-> last])]
    BY DEF Compress
  <2>3. Compress(ctx, last) = [ctx EXCEPT !.h = more]
    BY <1>0, <2>1, <2>2
  <2>. HIDE DEF more
  <2>. QED BY <1>0, <2>3
<1>. HIDE DEF more
<1>5. free = [h |-> more, t0 |-> t0, t1 |-> t1, c |-> 0, b |-> b]
  BY <1>4
<1>6. Compress(ctx, last).h = more
  BY <1>4
<1>7. Flushed(ctx, last, x) = [free EXCEPT !.b[free.c + 1] = x, !.c = @ + 1]
  BY DEF Flushed
<1>. HIDE DEF free
<1>8. free.c = 0 /\ free.b = b /\ 0 + 1 = 1
  BY <1>5
<1>9. [free.b EXCEPT ![free.c + 1] = x] = put
  BY <1>8
<1>. HIDE DEF put
<1>. DEFINE g == [free EXCEPT !.b = put]
<1>10. g = [h |-> more, t0 |-> t0, t1 |-> t1, c |-> 0, b |-> put]
  BY <1>5
<1>11. [free EXCEPT !.b[free.c + 1] = x] = g
  BY <1>9
<1>. HIDE DEF g
<1>12. g.c = 0 /\ [g EXCEPT !.c = @ + 1] = [g EXCEPT !.c = 1]
  BY <1>8, <1>10
<1>13. [g EXCEPT !.c = 1] = [h |-> more, t0 |-> t0, t1 |-> t1, c |-> 1, b |-> put]
  BY <1>10
<1>. QED BY <1>6, <1>7, <1>11, <1>12, <1>13 DEF more, put, Context, Started

\* A byte goes behind those before it; a full buffer is compressed first.
LEMMA ByteHashes ==
    ASSUME NEW d \in Seq(Nat), NEW x \in Nat, NEW ctx, NEW h0, Hashed(ctx, h0, d)
    PROVE  Hashed(Byte(ctx, x), h0, Append(d, x))
<1>1. PICK q, c, b : Buffers(d, q, c, b) /\ ctx = HashCtx(h0, d, q, c, b)
  BY DEF Hashed
<1>. DEFINE H == HashBlock
            a == Append(d, x)
            n == q * H
            h == History(h0, d, q)
<1>2. /\ H \in Nat \ {0} /\ q \in Nat /\ c \in 0 .. H /\ b \in [1 .. H -> Nat]
      /\ Len(d) = q * H + c /\ Len(d) \in Nat /\ n \in Nat
      /\ c = 0 => q = 0
      /\ \A i \in 1 .. c : b[i] = d[q * H + i]
      /\ q = 0 => \A i \in 1 .. H : i > c => b[i] = 0
  BY <1>1, Blake2sAssumption DEF Buffers
<1>3. ctx = [h |-> h, t0 |-> LowWord(n), t1 |-> HighWord(n), c |-> c, b |-> b]
  BY <1>1 DEF HashCtx
<1>4. /\ Len(a) = Len(d) + 1 /\ a[Len(d) + 1] = x
      /\ \A i \in 1 .. Len(d) : a[i] = d[i]
  OBVIOUS
<1>. HIDE DEF a, h
<1>5. CASE c = H
  <2>. DEFINE done == Piece(b, LowWord(n + c), HighWord(n + c), FALSE)
              put == [b EXCEPT ![1] = x]
  <2>1. Counted(ctx) = [h |-> h, t0 |-> LowWord(n + c), t1 |-> HighWord(n + c), c |-> c, b |-> b]
    BY <1>2, <1>3, CountedIs
  <2>2. Full(ctx)
    BY <1>3, <1>5 DEF Full
  <2>4. Byte(ctx, x) = Flushed(Counted(ctx), FALSE, x)
    BY <2>2 DEF Byte, Flushed
  <2>5. Byte(ctx, x) = Context(Append(h, done), LowWord(n + c), HighWord(n + c), 1, put)
    <3>1. Counted(ctx) = Context(h, LowWord(n + c), HighWord(n + c), c, b)
      BY <2>1 DEF Context
    <3>2. Flushed(Counted(ctx), FALSE, x)
            = Context(Append(h, done), LowWord(n + c), HighWord(n + c), 1, Started(b, x))
      <4>. DEFINE u == LowWord(n + c)
                  v == HighWord(n + c)
                  f == Counted(ctx)
                  more == FALSE
      <4>1. f = Context(h, u, v, c, b)
        BY <3>1
      <4>. HIDE DEF u, v, f, more
      <4>2. Flushed(f, more, x) = Context(Append(h, Piece(b, u, v, more)), u, v, 1, Started(b, x))
        BY <4>1, Compressed
      <4>. QED BY <4>2 DEF u, v, f, more
    <3>. QED BY <2>4, <3>2 DEF Started
  <2>6. n + c = (q + 1) * H /\ (q + 1) - 1 = q /\ q + 1 \in Nat
    BY <1>2, <1>5
  <2>7. done = DoneBlock(d, q + 1)
    <3>1. b = [i \in 1 .. H |-> d[q * H + i]]
      BY <1>2, <1>5
    <3>2. b = [i \in 1 .. H |-> d[((q + 1) - 1) * H + i]]
      BY <3>1, <2>6
    <3>. QED BY <2>6, <3>2 DEF DoneBlock, Piece
  <2>8. Append(h, done) = History(h0, a, q + 1)
    <3>1. (q + 1) * H <= Len(d)
      BY <1>2, <1>5, <2>6
    <3>2. Append(h, DoneBlock(d, q + 1)) = History(h0, d, q + 1)
      BY <1>2, HistoryGrows DEF h
    <3>3. History(h0, a, q + 1) = History(h0, d, q + 1)
      BY <2>6, <3>1, HistoryGrows DEF a
    <3>. HIDE DEF done
    <3>. QED BY <2>7, <3>2, <3>3
  <2>9. Buffers(a, q + 1, 1, put)
    <3>1. q + 1 \in Nat /\ 1 \in 0 .. H /\ put \in [1 .. H -> Nat] /\ put[1] = x
      BY <1>2
    <3>2. Len(a) = (q + 1) * H + 1
      BY <1>2, <1>4, <1>5, <2>6
    <3>3. a[(q + 1) * H + 1] = x
      BY <1>2, <1>4, <1>5, <2>6
    <3>4. \A i \in 1 .. 1 : put[i] = a[(q + 1) * H + i]
      BY <3>1, <3>3
    <3>. QED BY <1>2, <3>1, <3>2, <3>4 DEF Buffers
  <2>10. Byte(ctx, x) = HashCtx(h0, a, q + 1, 1, put)
    <3>. HIDE DEF done, put
    <3>. QED BY <2>5, <2>6, <2>8 DEF HashCtx, Context
  <2>. QED BY <2>9, <2>10 DEF Hashed, a
<1>6. CASE c # H
  <2>. DEFINE put == [b EXCEPT ![c + 1] = x]
  <2>1. ~Full(ctx)
    BY <1>3, <1>6 DEF Full
  <2>2. Byte(ctx, x) = [ctx EXCEPT !.b[ctx.c + 1] = x, !.c = @ + 1]
    BY <2>1 DEF Byte
  <2>3. Byte(ctx, x) = [h |-> h, t0 |-> LowWord(n), t1 |-> HighWord(n), c |-> c + 1, b |-> put]
    <3>. DEFINE u == LowWord(n)
                v == HighWord(n)
    <3>. HIDE DEF u, v
    <3>1. ctx = [h |-> h, t0 |-> u, t1 |-> v, c |-> c, b |-> b]
      BY <1>3 DEF u, v
    <3>. QED BY <2>2, <3>1 DEF u, v
  <2>4. h = History(h0, a, q)
    <3>1. q * H <= Len(d)
      BY <1>2
    <3>. QED BY <1>2, <3>1, HistoryGrows DEF h, a
  <2>5. Buffers(a, q, c + 1, put)
    <3>1. /\ c + 1 \in 1 .. H /\ c + 1 \in 0 .. H /\ put \in [1 .. H -> Nat] /\ put[c + 1] = x
          /\ \A i \in 1 .. H : i # c + 1 => put[i] = b[i]
      BY <1>2, <1>6
    <3>2. Len(a) = q * H + (c + 1) /\ a[q * H + (c + 1)] = x
      BY <1>2, <1>4
    <3>3. ASSUME NEW i \in 1 .. c + 1 PROVE put[i] = a[q * H + i]
      <4>1. CASE i = c + 1
        BY <3>1, <3>2, <4>1
      <4>2. CASE i # c + 1
        <5>1. i \in 1 .. c /\ i \in 1 .. H /\ q * H + i \in 1 .. Len(d)
          BY <1>2, <4>2
        <5>. QED BY <1>2, <1>4, <3>1, <4>2, <5>1
      <4>. QED BY <4>1, <4>2
    <3>4. ASSUME q = 0, NEW i \in 1 .. H, i > c + 1 PROVE put[i] = 0
      BY <1>2, <3>1, <3>4
    <3>. HIDE DEF put
    <3>. QED BY <1>2, <3>1, <3>2, <3>3, <3>4 DEF Buffers
  <2>6. Byte(ctx, x) = HashCtx(h0, a, q, c + 1, put)
    BY <2>3, <2>4 DEF HashCtx
  <2>. QED BY <2>5, <2>6 DEF Hashed, a
<1>. QED BY <1>5, <1>6

LEMMA HashStarts ==
    ASSUME NEW h0
    PROVE  Hashed(Context(<<h0>>, 0, 0, 0, ZeroBlock), h0, <<>>)
<1>1. HashBlock \in Nat \ {0} /\ CounterMod \in Nat \ {0}
  BY Blake2sAssumption
<1>2. Buffers(<<>>, 0, 0, ZeroBlock)
  BY <1>1 DEF Buffers, ZeroBlock
<1>3. 0 * HashBlock = 0 /\ LowWord(0) = 0 /\ HighWord(0) = 0
  BY <1>1 DEF LowWord, HighWord
<1>4. History(h0, <<>>, 0) = <<h0>>
  <2>1. History(h0, <<>>, 0) = [k \in 1 .. 1 |-> h0]
    BY DEF History
  <2>. QED BY <2>1
<1>5. Context(<<h0>>, 0, 0, 0, ZeroBlock) = HashCtx(h0, <<>>, 0, 0, ZeroBlock)
  BY <1>3, <1>4 DEF Context, HashCtx
<1>. QED BY <1>2, <1>5 DEF Hashed

LEMMA PrefixGrows ==
    ASSUME NEW d \in Seq(Nat), NEW w \in Seq(Nat), NEW i \in 1 .. Len(w)
    PROVE  /\ d \o SubSeq(w, 1, i - 1) \in Seq(Nat)
           /\ Append(d \o SubSeq(w, 1, i - 1), w[i]) = d \o SubSeq(w, 1, i)
           /\ d \o SubSeq(w, 1, 0) = d /\ d \o SubSeq(w, 1, Len(w)) = d \o w
<1>. DEFINE u == SubSeq(w, 1, i - 1)
            v == SubSeq(w, 1, i)
<1>1. Len(w) \in Nat /\ i \in Nat /\ i - 1 \in Nat /\ w[i] \in Nat
  OBVIOUS
<1>2. u \in Seq(Nat) /\ Len(u) = i - 1 /\ \A j \in 1 .. i - 1 : u[j] = w[j]
  BY <1>1
<1>3. v \in Seq(Nat) /\ Len(v) = i /\ \A j \in 1 .. i : v[j] = w[j]
  BY <1>1
<1>. HIDE DEF u, v
<1>4. d \o u \in Seq(Nat) /\ IsJoin(d \o u, d, u) /\ d \o v \in Seq(Nat) /\ IsJoin(d \o v, d, v)
  BY <1>2, <1>3, Joined
<1>. DEFINE a == d \o u
            b == d \o v
            e == Append(a, w[i])
<1>. HIDE DEF a, b
<1>5. a \in Seq(Nat) /\ IsJoin(a, d, u) /\ b \in Seq(Nat) /\ IsJoin(b, d, v)
  BY <1>4 DEF a, b
<1>6. /\ Len(d) \in Nat /\ Len(a) = Len(d) + (i - 1) /\ Len(b) = Len(d) + i
      /\ \A j \in 1 .. Len(d) : a[j] = d[j] /\ b[j] = d[j]
      /\ \A j \in 1 .. i - 1 : a[Len(d) + j] = w[j]
      /\ \A j \in 1 .. i : b[Len(d) + j] = w[j]
  BY <1>1, <1>2, <1>3, <1>5 DEF IsJoin
<1>7. e \in Seq(Nat) /\ Len(e) = Len(a) + 1 /\ e[Len(a) + 1] = w[i]
      /\ \A j \in 1 .. Len(a) : e[j] = a[j]
  BY <1>1, <1>5
<1>. HIDE DEF e
<1>8. ASSUME NEW j \in 1 .. Len(d) + i PROVE e[j] = b[j]
  <2>1. CASE j <= Len(d)
    <3>1. j \in 1 .. Len(d) /\ j \in 1 .. Len(a)
      BY <1>1, <1>6, <2>1
    <3>. QED BY <1>6, <1>7, <3>1
  <2>2. CASE j > Len(d) /\ j < Len(d) + i
    <3>. DEFINE k == j - Len(d)
    <3>1. k \in 1 .. i - 1 /\ k \in 1 .. i /\ j = Len(d) + k /\ j \in 1 .. Len(a)
      BY <1>1, <1>6, <2>2
    <3>. HIDE DEF k
    <3>. QED BY <1>6, <1>7, <3>1
  <2>3. CASE j = Len(d) + i
    BY <1>1, <1>6, <1>7, <2>3
  <2>4. j <= Len(d) \/ (j > Len(d) /\ j < Len(d) + i) \/ j = Len(d) + i
    BY <1>1, <1>6
  <2>. QED BY <2>1, <2>2, <2>3, <2>4
<1>9. e = b
  <2>1. e \in Seq(Nat) /\ b \in Seq(Nat)
    BY <1>5, <1>7
  <2>2. Len(e) = Len(d) + i /\ Len(b) = Len(d) + i
    BY <1>1, <1>6, <1>7
  <2>. QED BY <1>8, <2>1, <2>2, SameSeq
<1>10. SubSeq(w, 1, 0) = <<>> /\ SubSeq(w, 1, Len(w)) = w /\ d \o <<>> = d
  OBVIOUS
<1>. QED BY <1>5, <1>9, <1>10 DEF a, b, e, u, v

\* The fold is the loop of blake2s_update: one byte after the other.
IsUpdate(r, ctx, w) ==
    /\ r[0] = ctx /\ r[Len(w)] = Blake2sUpdate(ctx, w)
    /\ \A i \in 1 .. Len(w) : r[i] = Byte(r[i - 1], w[i])

LEMMA UpdateSteps ==
    ASSUME NEW d \in Seq(Nat), NEW w \in Seq(Nat), NEW ctx, NEW h0, Hashed(ctx, h0, d)
    PROVE  \E r : IsUpdate(r, ctx, w)
<1>. DEFINE N == Len(w)
            iter[S \in SUBSET (DOMAIN w)] ==
               IF S = {} THEN ctx
               ELSE LET x == Max(S) IN Byte(iter[S \ {x}], w[x])
            All == {HashCtx(h0, e, q, c, b) : e \in Seq(Nat), q \in Nat, c \in 0 .. HashBlock,
                                              b \in [1 .. HashBlock -> Nat]}
            T == {t \in All : \E e \in Seq(Nat) : Hashed(t, h0, e)}
            F == [p \in Nat \X T |-> IF p[1] \in 1 .. N THEN Byte(p[2], w[p[1]]) ELSE p[2]]
<1>1. N \in Nat /\ DOMAIN w = 1 .. N /\ \A i \in 1 .. N : w[i] \in Nat
  OBVIOUS
<1>2. ASSUME NEW t, NEW e \in Seq(Nat), Hashed(t, h0, e) PROVE t \in T
  <2>1. PICK q, c, b : Buffers(e, q, c, b) /\ t = HashCtx(h0, e, q, c, b)
    BY <1>2 DEF Hashed
  <2>2. q \in Nat /\ c \in 0 .. HashBlock /\ b \in [1 .. HashBlock -> Nat]
    BY <2>1 DEF Buffers
  <2>3. t \in All
    BY <2>1, <2>2
  <2>. HIDE DEF All
  <2>. QED BY <1>2, <2>3
<1>3. ASSUME NEW t \in T, NEW x \in Nat PROVE Byte(t, x) \in T
  <2>1. PICK e \in Seq(Nat) : Hashed(t, h0, e)
    OBVIOUS
  <2>2. Hashed(Byte(t, x), h0, Append(e, x)) /\ Append(e, x) \in Seq(Nat)
    BY <2>1, ByteHashes
  <2>. HIDE DEF T
  <2>. QED BY <1>2, <2>2
<1>4. ctx \in T
  <2>. HIDE DEF T
  <2>. QED BY <1>2
<1>. HIDE DEF T
<1>5. F \in [Nat \X T -> T]
  BY <1>1, <1>3
<1>6. PICK g \in [SUBSET (1 .. N) -> T] : Folds(g, F, ctx, N)
  <2>. HIDE DEF F, N
  <2>. QED BY <1>1, <1>4, <1>5, FoldExists
<1>7. ASSUME NEW S \in SUBSET (1 .. N), S # {}
      PROVE  Max(S) \in 1 .. N /\ g[S \ {Max(S)}] \in T
  <2>. HIDE DEF N
  <2>1. Max(S) \in S
    BY <1>1, <1>7, MaxIn
  <2>. QED BY <2>1
<1>8. g = [S \in SUBSET (DOMAIN w) |->
              IF S = {} THEN ctx ELSE Byte(g[S \ {Max(S)}], w[Max(S)])]
  <2>. HIDE DEF N
  <2>1. ASSUME NEW S \in SUBSET (1 .. N), S # {}
        PROVE  g[S] = Byte(g[S \ {Max(S)}], w[Max(S)])
    <3>1. <<Max(S), g[S \ {Max(S)}]>> \in Nat \X T
      <4>1. Max(S) \in 1 .. N /\ g[S \ {Max(S)}] \in T
        BY <2>1, <1>7
      <4>2. Max(S) \in Nat
        BY <4>1, <1>1
      <4>. QED BY <4>1, <4>2
    <3>2. g[S] = F[<<Max(S), g[S \ {Max(S)}]>>]
      BY <1>6, <2>1 DEF Folds
    <3>. QED BY <2>1, <1>7, <3>1, <3>2
  <2>2. g[{}] = ctx
    BY <1>6 DEF Folds
  <2>. QED BY <1>1, <1>6, <2>1, <2>2
<1>9. iter = CHOOSE f : f = [S \in SUBSET (DOMAIN w) |->
                  IF S = {} THEN ctx ELSE Byte(f[S \ {Max(S)}], w[Max(S)])]
  BY Zenon
<1>10. iter = [S \in SUBSET (DOMAIN w) |->
                  IF S = {} THEN ctx ELSE Byte(iter[S \ {Max(S)}], w[Max(S)])]
  <2>. HIDE DEF iter
  <2>. QED BY <1>8, <1>9
<1>11. Blake2sUpdate(ctx, w) = iter[DOMAIN w]
  BY DEF Blake2sUpdate, FoldLeft, MapThenFoldSet
<1>. DEFINE r == [i \in 0 .. N |-> iter[1 .. i]]
<1>. HIDE DEF iter
<1>12. r[0] = ctx /\ r[N] = Blake2sUpdate(ctx, w)
  <2>1. 1 .. 0 = {} /\ {} \in SUBSET (DOMAIN w) /\ 0 \in 0 .. N /\ N \in 0 .. N
    OBVIOUS
  <2>2. iter[{}] = ctx
    BY <1>10
  <2>. QED BY <1>1, <1>11, <2>1, <2>2
<1>13. ASSUME NEW i \in 1 .. N
       PROVE  r[i] = Byte(r[i - 1], w[i])
  <2>1. 1 .. i \in SUBSET Int /\ i \in 1 .. i /\ \A x \in 1 .. i : x <= i
    OBVIOUS
  <2>2. Max(1 .. i) = i
    BY <2>1, MaxIs
  <2>3. 1 .. i # {} /\ (1 .. i) \ {i} = 1 .. (i - 1) /\ i \in 0 .. N /\ i - 1 \in 0 .. N
        /\ 1 .. i \in SUBSET (DOMAIN w)
    <3>1. i \in Nat /\ i >= 1 /\ i <= N
      BY <1>1
    <3>. HIDE DEF N
    <3>2. (1 .. i) \ {i} = 1 .. (i - 1)
      BY <3>1
    <3>3. i \in 0 .. N /\ i - 1 \in 0 .. N /\ 1 .. i \subseteq 1 .. N
      BY <1>1, <3>1
    <3>. QED BY <1>1, <2>1, <3>2, <3>3
  <2>4. iter[1 .. i] = Byte(iter[(1 .. i) \ {Max(1 .. i)}], w[Max(1 .. i)])
    BY <1>10, <2>3
  <2>. QED BY <2>2, <2>3, <2>4
<1>. HIDE DEF r
<1>. QED BY <1>12, <1>13 DEF IsUpdate

\* An update of any length goes behind what was hashed before.
LEMMA UpdateHashes ==
    ASSUME NEW d \in Seq(Nat), NEW w \in Seq(Nat), NEW ctx, NEW h0, Hashed(ctx, h0, d)
    PROVE  Hashed(Blake2sUpdate(ctx, w), h0, d \o w)
<1>0. PICK r : IsUpdate(r, ctx, w)
  BY UpdateSteps
<1>1. /\ r[0] = ctx /\ r[Len(w)] = Blake2sUpdate(ctx, w)
      /\ \A i \in 1 .. Len(w) : r[i] = Byte(r[i - 1], w[i])
  BY <1>0 DEF IsUpdate
<1>. DEFINE D == {n \in Nat : n <= Len(w) => Hashed(r[n], h0, d \o SubSeq(w, 1, n))}
<1>2. 0 \in D
  <2>1. d \o SubSeq(w, 1, 0) = d
    OBVIOUS
  <2>. QED BY <1>1, <2>1
<1>3. ASSUME NEW n \in Nat, n \in D PROVE n + 1 \in D
  <2>. SUFFICES ASSUME n + 1 <= Len(w)
                PROVE  Hashed(r[n + 1], h0, d \o SubSeq(w, 1, n + 1))
    OBVIOUS
  <2>. DEFINE i == n + 1
  <2>1. i \in 1 .. Len(w) /\ i - 1 = n /\ w[i] \in Nat /\ Len(w) \in Nat
    OBVIOUS
  <2>2. Hashed(r[i - 1], h0, d \o SubSeq(w, 1, i - 1))
    BY <1>3, <2>1
  <2>. HIDE DEF i
  <2>3. Hashed(Byte(r[i - 1], w[i]), h0, Append(d \o SubSeq(w, 1, i - 1), w[i]))
    BY <2>1, <2>2, PrefixGrows, ByteHashes
  <2>4. Hashed(r[i], h0, d \o SubSeq(w, 1, i))
    BY <1>1, <2>1, <2>3, PrefixGrows
  <2>. QED BY <2>4 DEF i
<1>4. Len(w) \in Nat
  OBVIOUS
<1>. HIDE DEF D
<1>5. Len(w) \in D
  BY <1>2, <1>3, <1>4, Induction
<1>6. Hashed(r[Len(w)], h0, d \o SubSeq(w, 1, Len(w)))
  BY <1>4, <1>5 DEF D
<1>7. SubSeq(w, 1, Len(w)) = w
  OBVIOUS
<1>. QED BY <1>1, <1>6, <1>7

\* the initial chaining value, and what a digest is taken over
ParameterBlock(key) == [outlen |-> 32, keylen |-> Len(key)]
Whole(key, in) == IF key = <<>> THEN in ELSE Blocked(key, HashBlock)[1] \o in

\* A key is a block of its own, filled up with zeros, however long it is.
LEMMA KeyBlock ==
    ASSUME NEW key \in Seq(Nat), key # <<>>, Len(key) <= HashBlock
    PROVE  /\ Blocked(key, HashBlock)[1]
                 = [i \in 1 .. HashBlock |-> IF i <= Len(key) THEN key[i] ELSE 0]
           /\ Blocked(key, HashBlock)[1] \in Seq(Nat) /\ Len(Blocked(key, HashBlock)[1]) = HashBlock
<1>. DEFINE H == HashBlock
            n == (Len(key) + H - 1) \div H
            f == [i \in 1 .. H |-> IF i <= Len(key) THEN key[i] ELSE 0]
<1>1. H \in Nat \ {0} /\ Len(key) \in 1 .. H
  BY Blake2sAssumption
<1>2. n = 1
  <2>1. IsDivision(Len(key) + H - 1, H, 1, Len(key) - 1)
    BY <1>1 DEF IsDivision
  <2>. QED BY <2>1, Divided
<1>3. \A i \in 1 .. H : (1 - 1) * H + i = i
  BY <1>1
<1>4. Blocked(key, H) = [k \in 1 .. n |->
          [i \in 1 .. H |-> IF (k - 1) * H + i <= Len(key) THEN key[(k - 1) * H + i] ELSE 0]]
  BY DEF Blocked
<1>. HIDE DEF n
<1>5. Blocked(key, H)[1] = [i \in 1 .. H |-> IF (1 - 1) * H + i <= Len(key)
                                              THEN key[(1 - 1) * H + i] ELSE 0]
  BY <1>2, <1>4
<1>6. Blocked(key, H)[1] = f
  BY <1>3, <1>5
<1>7. f \in Seq(Nat) /\ Len(f) = H
  <2>1. \A i \in 1 .. H : (IF i <= Len(key) THEN key[i] ELSE 0) \in Nat
    BY <1>1
  <2>. QED BY <1>1, <2>1
<1>. QED BY <1>6, <1>7

LEMMA InitHashes ==
    ASSUME NEW key \in Seq(Nat), Len(key) <= HashBlock
    PROVE  Hashed(Blake2sInit(32, key), ParameterBlock(key), Whole(key, <<>>))
<1>. DEFINE h0 == ParameterBlock(key)
            new == Context(<<h0>>, 0, 0, 0, ZeroBlock)
            H == HashBlock
<1>0. H \in Nat \ {0}
  BY Blake2sAssumption
<1>1. Blake2sInit(32, key) = IF key = <<>> THEN new ELSE [Blake2sUpdate(new, key) EXCEPT !.c = H]
  BY DEF Blake2sInit, ParameterBlock, Context
<1>. HIDE DEF h0, new
<1>2. Hashed(new, h0, <<>>)
  BY HashStarts DEF new
<1>3. CASE key = <<>>
  BY <1>1, <1>2, <1>3 DEF h0, Whole
<1>4. CASE key # <<>>
  <2>. DEFINE ctx == Blake2sUpdate(new, key)
              full == [i \in 1 .. H |-> IF i <= Len(key) THEN key[i] ELSE 0]
  <2>1. <<>> \in Seq(Nat) /\ <<>> \o key = key /\ Len(key) \in 1 .. H
    BY <1>0, <1>4
  <2>2. Hashed(ctx, h0, key)
    BY <1>2, <2>1, UpdateHashes
  <2>. HIDE DEF ctx
  <2>3. PICK q, c, b : Buffers(key, q, c, b) /\ ctx = HashCtx(h0, key, q, c, b)
    BY <2>2 DEF Hashed
  <2>4. /\ q \in Nat /\ c \in 0 .. H /\ b \in [1 .. H -> Nat] /\ Len(key) = q * H + c
        /\ c = 0 => q = 0
        /\ \A i \in 1 .. c : b[i] = key[q * H + i]
        /\ q = 0 => \A i \in 1 .. H : i > c => b[i] = 0
    BY <2>3 DEF Buffers
  <2>5. q = 0
    <3>1. CASE q >= 1
      <4>1. q * H >= H /\ c >= 1
        BY <1>0, <2>4, <3>1
      <4>. DEFINE p == q * H
      <4>2. p \in Int /\ p >= H /\ Len(key) = p + c /\ Len(key) <= H /\ H \in Int /\ c \in Int
        BY <1>0, <2>1, <2>4, <4>1
      <4>. HIDE DEF p
      <4>. QED BY <4>1, <4>2
    <3>. QED BY <2>4, <3>1
  <2>6. c = Len(key) /\ \A i \in 1 .. c : b[i] = key[i]
    <3>1. \A i \in 1 .. c : 0 * H + i = i
      BY <1>0, <2>4
    <3>2. 0 * H + c = c
      BY <1>0, <2>4
    <3>. QED BY <2>4, <2>5, <3>1, <3>2
  <2>7. b = full
    BY <2>1, <2>4, <2>5, <2>6
  <2>8. Whole(key, <<>>) = full /\ full \in Seq(Nat) /\ Len(full) = H
    <3>1. Whole(key, <<>>) = Blocked(key, H)[1] \o <<>>
      BY <1>4 DEF Whole
    <3>2. Blocked(key, H)[1] = full /\ full \in Seq(Nat) /\ Len(full) = H
      BY <1>4, KeyBlock
    <3>. HIDE DEF full
    <3>3. full \o <<>> = full
      BY <3>2
    <3>. QED BY <3>1, <3>2, <3>3
  <2>. HIDE DEF full
  <2>9. Buffers(full, 0, H, b)
    <3>1. 0 * H = 0 /\ 0 \in Nat /\ H \in 0 .. H /\ 0 * H + H = H
      BY <1>0
    <3>2. \A i \in 1 .. H : 0 * H + i = i /\ ~(i > H)
      BY <1>0
    <3>. QED BY <1>0, <2>4, <2>7, <2>8, <3>1, <3>2 DEF Buffers
  <2>10. [ctx EXCEPT !.c = H] = HashCtx(h0, full, 0, H, b)
    <3>1. History(h0, key, 0) = History(h0, full, 0)
      BY DEF History
    <3>. DEFINE h == History(h0, key, 0)
                u == LowWord(0 * H)
                v == HighWord(0 * H)
    <3>2. ctx = [h |-> h, t0 |-> u, t1 |-> v, c |-> c, b |-> b]
      BY <2>3, <2>5 DEF HashCtx
    <3>3. HashCtx(h0, full, 0, H, b) = [h |-> h, t0 |-> u, t1 |-> v, c |-> H, b |-> b]
      BY <3>1 DEF HashCtx
    <3>. HIDE DEF h, u, v
    <3>. QED BY <3>2, <3>3
  <2>. QED BY <1>1, <1>4, <2>8, <2>9, <2>10 DEF Hashed, h0, ctx
<1>. QED BY <1>3, <1>4

\* the reference's blocks of d, the first only if there is one, and its digest
Cut(d) == IF d = <<>> THEN <<ZeroBlock>> ELSE Blocked(d, HashBlock)
SoFar(d, n) == IF n = Len(Cut(d)) THEN Len(d) ELSE n * HashBlock
Entry(d, n) == Piece(Cut(d)[n], LowWord(SoFar(d, n)), HighWord(SoFar(d, n)), n = Len(Cut(d)))
Entries(d) == [n \in 1 .. Len(Cut(d)) |-> Entry(d, n)]

LEMMA CutIs ==
    ASSUME NEW d \in Seq(Nat), NEW q, NEW c, NEW b, Buffers(d, q, c, b)
    PROVE  /\ Len(Cut(d)) = q + 1
           /\ \A n \in 1 .. q : Cut(d)[n] = [i \in 1 .. HashBlock |-> d[(n - 1) * HashBlock + i]]
           /\ Cut(d)[q + 1] = [i \in 1 .. HashBlock |-> IF i <= c THEN b[i] ELSE 0]
<1>. DEFINE H == HashBlock
            n0 == (Len(d) + H - 1) \div H
            blk(n) == [i \in 1 .. H |-> IF (n - 1) * H + i <= Len(d) THEN d[(n - 1) * H + i] ELSE 0]
<1>1. /\ H \in Nat \ {0} /\ q \in Nat /\ c \in 0 .. H
      /\ Len(d) = q * H + c /\ Len(d) \in Nat /\ q * H \in Nat
      /\ c = 0 => q = 0
      /\ \A i \in 1 .. c : b[i] = d[q * H + i]
  BY Blake2sAssumption DEF Buffers
<1>2. CASE c = 0
  <2>1. q = 0 /\ d = <<>>
    BY <1>1, <1>2
  <2>2. Cut(d) = <<ZeroBlock>>
    BY <2>1 DEF Cut
  <2>3. ZeroBlock = [i \in 1 .. H |-> IF i <= c THEN b[i] ELSE 0]
    BY <1>1, <1>2 DEF ZeroBlock
  <2>4. Len(Cut(d)) = 1 /\ Cut(d)[1] = ZeroBlock
    BY <2>2
  <2>5. 1 .. 0 = {} /\ 0 + 1 = 1
    OBVIOUS
  <2>. QED BY <2>1, <2>3, <2>4, <2>5
<1>3. CASE c # 0
  <2>1. Cut(d) = Blocked(d, H)
    BY <1>1, <1>3 DEF Cut
  <2>2. n0 = q + 1
    <3>1. IsDivision(Len(d) + H - 1, H, q + 1, c - 1)
      <4>1. (q + 1) * H = q * H + H
        BY <1>1
      <4>. QED BY <1>1, <1>3, <4>1 DEF IsDivision
    <3>. QED BY <3>1, Divided
  <2>3. Cut(d) = [n \in 1 .. n0 |-> blk(n)]
    BY <2>1 DEF Blocked
  <2>. HIDE DEF n0, blk
  <2>4. Len(Cut(d)) = q + 1 /\ \A n \in 1 .. q + 1 : Cut(d)[n] = blk(n)
    BY <1>1, <2>2, <2>3
  <2>5. ASSUME NEW n \in 1 .. q
        PROVE  blk(n) = [i \in 1 .. H |-> d[(n - 1) * H + i]]
    <3>1. (n - 1) * H + H <= q * H
      <4>1. n <= q /\ n \in Nat
        BY <1>1
      <4>2. n * H <= q * H
        BY <1>1, <4>1
      <4>3. (n - 1) * H = n * H - H
        BY <1>1, <4>1
      <4>. QED BY <1>1, <4>1, <4>2, <4>3
    <3>2. (n - 1) * H \in Int
      BY <1>1
    <3>3. \A i \in 1 .. H : (n - 1) * H + i <= Len(d)
      <4>. DEFINE p == (n - 1) * H
                  r == q * H
      <4>1. p \in Int /\ r \in Int /\ p + H <= r /\ Len(d) = r + c /\ c \in Nat /\ H \in Nat
        BY <1>1, <3>1, <3>2
      <4>. HIDE DEF p, r
      <4>2. \A i \in 1 .. H : p + i <= Len(d)
        BY <4>1
      <4>. QED BY <4>2 DEF p
    <3>. QED BY <3>3 DEF blk
  <2>6. blk(q + 1) = [i \in 1 .. H |-> IF i <= c THEN b[i] ELSE 0]
    <3>1. (q + 1) - 1 = q
      BY <1>1
    <3>2. \A i \in 1 .. H : q * H + i <= Len(d) <=> i <= c
      BY <1>1
    <3>3. \A i \in 1 .. H : i <= c => b[i] = d[q * H + i]
      BY <1>1
    <3>4. blk(q + 1) = [i \in 1 .. H |-> IF q * H + i <= Len(d) THEN d[q * H + i] ELSE 0]
      BY <3>1 DEF blk
    <3>. QED BY <3>2, <3>3, <3>4
  <2>7. q + 1 \in 1 .. q + 1 /\ \A n \in 1 .. q : n \in 1 .. q + 1
    BY <1>1
  <2>. QED BY <2>4, <2>5, <2>6, <2>7
<1>. QED BY <1>2, <1>3

LEMMA FinalIs ==
    ASSUME NEW d \in Seq(Nat), NEW ctx, NEW h0, Hashed(ctx, h0, d)
    PROVE  Blake2sFinal(ctx) = <<h0>> \o Entries(d)
<1>1. PICK q, c, b : Buffers(d, q, c, b) /\ ctx = HashCtx(h0, d, q, c, b)
  BY DEF Hashed
<1>. DEFINE H == HashBlock
            n == q * H
            h == History(h0, d, q)
            u == LowWord(n + c)
            v == HighWord(n + c)
            f == [i \in 1 .. H |-> IF i <= c THEN b[i] ELSE 0]
            yes == TRUE
            e == Piece(f, u, v, yes)
<1>2. /\ H \in Nat \ {0} /\ q \in Nat /\ c \in 0 .. H
      /\ Len(d) = q * H + c /\ Len(d) \in Nat /\ n \in Nat
  BY <1>1, Blake2sAssumption DEF Buffers
<1>3. Counted(ctx) = [h |-> h, t0 |-> u, t1 |-> v, c |-> c, b |-> b] /\ ctx.c = c
  BY <1>1, <1>2, CountedIs DEF HashCtx
<1>. DEFINE last == [Counted(ctx) EXCEPT !.b = [i \in 1 .. H |-> IF i <= ctx.c THEN @[i] ELSE 0]]
<1>4. last = Context(h, u, v, c, f)
  <2>. HIDE DEF h, u, v
  <2>1. Counted(ctx).b = b
    BY <1>3
  <2>2. [i \in 1 .. H |-> IF i <= ctx.c THEN Counted(ctx).b[i] ELSE 0] = f
    BY <1>3, <2>1
  <2>3. last = [Counted(ctx) EXCEPT !.b = f]
    BY <2>2
  <2>. HIDE DEF f, last
  <2>. QED BY <1>3, <2>3 DEF Context
<1>5. Blake2sFinal(ctx) = Compress(last, yes).h
  BY DEF Blake2sFinal
<1>6. Blake2sFinal(ctx) = Append(h, e)
  <2>. HIDE DEF last, h, u, v, f, yes
  <2>1. /\ Compress(last, yes).h = Append(h, e)
        /\ Flushed(last, yes, 0) = Context(Append(h, e), u, v, 1, Started(f, 0))
    BY <1>4, Compressed
  <2>. QED BY <1>5, <2>1
<1>7. /\ Len(Cut(d)) = q + 1
      /\ \A k \in 1 .. q : Cut(d)[k] = [i \in 1 .. H |-> d[(k - 1) * H + i]]
      /\ Cut(d)[q + 1] = f
  BY <1>1, CutIs
<1>8. ASSUME NEW k \in 1 .. q PROVE Entry(d, k) = DoneBlock(d, k)
  <2>1. k # q + 1 /\ SoFar(d, k) = k * H
    BY <1>2, <1>7 DEF SoFar
  <2>2. (k = Len(Cut(d))) = FALSE
    BY <1>7, <2>1
  <2>. QED BY <1>7, <2>1, <2>2 DEF Entry, Piece, DoneBlock
<1>9. Entry(d, q + 1) = e
  <2>1. SoFar(d, q + 1) = n + c
    BY <1>2, <1>7 DEF SoFar
  <2>2. (q + 1 = Len(Cut(d))) = TRUE
    BY <1>7
  <2>. QED BY <1>7, <2>1, <2>2 DEF Entry
<1>10. Append(h, e) = <<h0>> \o Entries(d)
  <2>. HIDE DEF e
  <2>. DEFINE X == {h0, e} \cup {DoneBlock(d, k) : k \in 1 .. q}
              g == Entries(d)
  <2>0. h0 \in X /\ e \in X /\ \A k \in 1 .. q : DoneBlock(d, k) \in X
    OBVIOUS
  <2>. HIDE DEF X
  <2>1. h = [k \in 1 .. q + 1 |-> IF k = 1 THEN h0 ELSE DoneBlock(d, k - 1)]
    BY DEF History
  <2>2. h \in Seq(X) /\ Len(h) = q + 1
    <3>1. \A k \in 1 .. q + 1 : (IF k = 1 THEN h0 ELSE DoneBlock(d, k - 1)) \in X
      <4>1. \A k \in 1 .. q + 1 : k # 1 => k - 1 \in 1 .. q
        BY <1>2
      <4>. QED BY <2>0, <4>1
    <3>. QED BY <1>2, <2>1, <3>1
  <2>3. g = [k \in 1 .. q + 1 |-> Entry(d, k)]
    BY <1>7 DEF Entries
  <2>. HIDE DEF g, h
  <2>4. g \in Seq(X) /\ Len(g) = q + 1 /\ \A k \in 1 .. q : g[k] = DoneBlock(d, k)
    <3>1. \A k \in 1 .. q + 1 : k \in 1 .. q \/ k = q + 1
      BY <1>2
    <3>2. \A k \in 1 .. q + 1 : Entry(d, k) \in X
      BY <1>8, <1>9, <2>0, <3>1
    <3>3. \A k \in 1 .. q : k \in 1 .. q + 1
      BY <1>2
    <3>. QED BY <1>2, <1>8, <2>3, <3>2, <3>3
  <2>5. g[q + 1] = e
    BY <1>2, <1>9, <2>3
  <2>. DEFINE l == <<h0>> \o g
              m == Append(h, e)
  <2>6. l \in Seq(X) /\ IsJoin(l, <<h0>>, g)
    <3>1. <<h0>> \in Seq(X)
      BY <2>0
    <3>. QED BY <2>4, <3>1, Joined
  <2>. HIDE DEF l
  <2>7. Len(l) = q + 2 /\ l[1] = h0 /\ \A k \in 1 .. q + 1 : l[1 + k] = g[k]
    <3>1. Len(<<h0>>) = 1 /\ <<h0>>[1] = h0
      OBVIOUS
    <3>. QED BY <1>2, <2>4, <2>6, <3>1 DEF IsJoin
  <2>8. m \in Seq(X) /\ Len(m) = q + 2 /\ m[q + 2] = e /\ \A k \in 1 .. q + 1 : m[k] = h[k]
    BY <1>2, <2>0, <2>2
  <2>. HIDE DEF m
  <2>9. ASSUME NEW k \in 1 .. q + 2 PROVE l[k] = m[k]
    <3>1. CASE k = 1
      <4>1. 1 \in 1 .. q + 1
        BY <1>2
      <4>2. h[1] = h0
        BY <2>1, <4>1
      <4>. QED BY <2>7, <2>8, <3>1, <4>1, <4>2
    <3>2. CASE k # 1 /\ k # q + 2
      <4>. DEFINE j == k - 1
      <4>1. j \in 1 .. q /\ j \in 1 .. q + 1 /\ k = 1 + j /\ k \in 1 .. q + 1
        BY <1>2, <3>2
      <4>2. h[k] = DoneBlock(d, j)
        BY <2>1, <3>2, <4>1
      <4>. HIDE DEF j
      <4>. QED BY <2>4, <2>7, <2>8, <4>1, <4>2
    <3>3. CASE k = q + 2
      <4>1. k = 1 + (q + 1) /\ q + 1 \in 1 .. q + 1
        BY <1>2, <3>3
      <4>. QED BY <2>5, <2>7, <2>8, <3>3, <4>1
    <3>. QED BY <3>1, <3>2, <3>3
  <2>10. l = m
    <3>1. l \in Seq(X) /\ m \in Seq(X) /\ Len(l) = Len(m) /\ \A k \in 1 .. Len(l) : l[k] = m[k]
      BY <2>6, <2>7, <2>8, <2>9
    <3>. QED BY <3>1
  <2>. QED BY <2>10 DEF l, m, g
<1>. QED BY <1>6, <1>10

LEMMA DigestIs ==
    ASSUME NEW key, NEW in
    PROVE  Digest(key, in) = <<ParameterBlock(key)>> \o Entries(Whole(key, in))
BY DEF Digest, ParameterBlock, Whole, Entries, Entry, Cut, SoFar, Piece, LowWord, HighWord

-----------------------------------------------------------------------------
(* The inversion's chain: exponents modulo m *)

\* Residues can be added, doubled and multiplied as the numbers.
LEMMA ResidueSum ==
    ASSUME NEW m \in Nat \ {0}, NEW a \in Int, NEW b \in Int
    PROVE  ((a % m) + (b % m)) % m = (a + b) % m
<1>. DEFINE qa == a \div m
            ra == a % m
            qb == b \div m
            rb == b % m
            s == ra + rb
            q == s \div m
            r == s % m
<1>1. qa \in Int /\ ra \in 0 .. m - 1 /\ a = qa * m + ra
      /\ qb \in Int /\ rb \in 0 .. m - 1 /\ b = qb * m + rb
  BY DividedIs
<1>2. q \in Int /\ r \in 0 .. m - 1 /\ s = q * m + r
  <2>1. s \in Int
    BY <1>1
  <2>. HIDE DEF s
  <2>. QED BY <2>1, DividedIs
<1>3. s = ra + rb
  OBVIOUS
<1>. HIDE DEF qa, ra, qb, rb, s, q, r
<1>4. a + b = (qa + qb + q) * m + r
  BY <1>1, <1>2, <1>3
<1>5. IsDivision(a + b, m, qa + qb + q, r)
  BY <1>1, <1>2, <1>4 DEF IsDivision
<1>6. (a + b) % m = r
  BY <1>5, Divided
<1>. QED BY <1>6 DEF r, s, ra, rb

LEMMA ResidueDouble ==
    ASSUME NEW m \in Nat \ {0}, NEW a \in Int
    PROVE  (2 * (a % m)) % m = (2 * a) % m
<1>. DEFINE r == a % m
<1>1. r \in Int
  BY DividedIs
<1>2. (r + r) % m = (a + a) % m
  BY ResidueSum
<1>. HIDE DEF r
<1>3. 2 * r = r + r /\ 2 * a = a + a
  BY <1>1
<1>. QED BY <1>2, <1>3 DEF r

LEMMA ResidueSquare ==
    ASSUME NEW m \in Nat \ {0}, NEW a \in Int, NEW k \in Int
    PROVE  ((a % m) * (a % m) * k) % m = (a * a * k) % m
<1>. DEFINE qa == a \div m
            r == a % m
            s == r * r * k
            q == s \div m
            l == s % m
<1>1. qa \in Int /\ r \in Int /\ a = qa * m + r
  BY DividedIs
<1>2. q \in Int /\ l \in 0 .. m - 1 /\ s = q * m + l
  <2>1. s \in Int
    BY <1>1
  <2>. HIDE DEF s
  <2>. QED BY <2>1, DividedIs
<1>3. s = r * r * k
  OBVIOUS
<1>. HIDE DEF qa, r, s, q, l
<1>4. a * a * k = (qa * m + r) * (qa * m + r) * k
  BY <1>1
<1>. DEFINE p == (qa * qa * m + 2 * qa * r) * k
<1>5. (qa * m + r) * (qa * m + r) * k = p * m + r * r * k
  BY <1>1
<1>6. p \in Int
  BY <1>1
<1>. HIDE DEF p
<1>7. a * a * k = (p + q) * m + l
  BY <1>1, <1>2, <1>3, <1>4, <1>5, <1>6
<1>8. IsDivision(a * a * k, m, p + q, l)
  BY <1>2, <1>6, <1>7 DEF IsDivision
<1>9. (a * a * k) % m = l
  BY <1>8, Divided
<1>. QED BY <1>9 DEF l, s, r

LEMMA ResidueOff ==
    ASSUME NEW m \in Nat \ {0}, NEW a \in Int, NEW c \in Int
    PROVE  (((a - c) % m) - (a % m) + c) % m = 0
<1>. DEFINE q1 == (a - c) \div m
            r1 == (a - c) % m
            q2 == a \div m
            r2 == a % m
<1>1. a - c \in Int
  OBVIOUS
<1>2. q1 \in Int /\ r1 \in Int /\ a - c = q1 * m + r1 /\ q2 \in Int /\ r2 \in Int /\ a = q2 * m + r2
  BY <1>1, DividedIs
<1>. HIDE DEF q1, r1, q2, r2
<1>3. r1 - r2 + c = (q2 - q1) * m + 0
  BY <1>2
<1>4. IsDivision(r1 - r2 + c, m, q2 - q1, 0)
  BY <1>2, <1>3 DEF IsDivision
<1>5. (r1 - r2 + c) % m = 0
  BY <1>4, Divided
<1>. QED BY <1>5 DEF r1, r2

\* the powers of two, as far as the chain goes
ArePowers(two) ==
    two \in [0 .. 255 -> Nat] /\ two[0] = 1 /\ \A i \in 1 .. 255 : two[i] = 2 * two[i - 1]

LEMMA PowersExist == \E two : ArePowers(two)
<1>. DEFINE F == [p \in Nat \X Nat |-> 2 * p[2]]
<1>1. F \in [Nat \X Nat -> Nat] /\ 1 \in Nat /\ 255 \in Nat
  OBVIOUS
<1>2. PICK g \in [SUBSET (1 .. 255) -> Nat] : Folds(g, F, 1, 255)
  <2>. DEFINE X == Nat
              one == 1
              last == 255
  <2>1. F \in [Nat \X X -> X] /\ one \in X /\ last \in Nat
    BY <1>1
  <2>. HIDE DEF F, X, one, last
  <2>2. \E g \in [SUBSET (1 .. last) -> X] : Folds(g, F, one, last)
    BY <2>1, FoldExists
  <2>. QED BY <2>2 DEF X, one, last
<1>. DEFINE two == [i \in 0 .. 255 |-> g[1 .. i]]
<1>3. \A i \in 0 .. 255 : 1 .. i \in SUBSET (1 .. 255)
  OBVIOUS
<1>4. two \in [0 .. 255 -> Nat]
  BY <1>3
<1>5. two[0] = 1
  <2>1. 1 .. 0 = {} /\ {} \in SUBSET (1 .. 255) /\ 0 \in 0 .. 255
    OBVIOUS
  <2>2. g[{}] = 1
    <3>. HIDE DEF F
    <3>. QED BY <1>2, <2>1 DEF Folds
  <2>. QED BY <2>1, <2>2
<1>6. ASSUME NEW i \in 1 .. 255 PROVE two[i] = 2 * two[i - 1]
  <2>1. 1 .. i \in SUBSET Int /\ i \in 1 .. i /\ \A x \in 1 .. i : x <= i
    OBVIOUS
  <2>2. Max(1 .. i) = i
    BY <2>1, MaxIs
  <2>3. (1 .. i) \ {i} = 1 .. (i - 1) /\ i - 1 \in 0 .. 255 /\ i \in 0 .. 255 /\ i \in Nat
        /\ 1 .. i # {}
    OBVIOUS
  <2>4. g[1 .. i] = F[<<i, g[1 .. (i - 1)]>>]
    <3>1. 1 .. i \in SUBSET (1 .. 255)
      BY <1>3, <2>3
    <3>. HIDE DEF F
    <3>2. g[1 .. i] = F[<<Max(1 .. i), g[(1 .. i) \ {Max(1 .. i)}]>>]
      BY <1>2, <2>3, <3>1 DEF Folds
    <3>. QED BY <2>2, <2>3, <3>2
  <2>5. g[1 .. (i - 1)] \in Nat
    BY <1>3, <2>3
  <2>. QED BY <2>3, <2>4, <2>5
<1>. HIDE DEF two
<1>. QED BY <1>4, <1>5, <1>6 DEF ArePowers

LEMMA PowerSum ==
    ASSUME NEW two, ArePowers(two), NEW a \in Nat, NEW b \in Nat, a + b <= 255
    PROVE  two[a + b] = two[a] * two[b] /\ two[a] \in Nat /\ two[b] \in Nat /\ two[a + b] \in Nat
<1>. DEFINE D == {n \in Nat : a + n <= 255 => two[a + n] = two[a] * two[n]}
<1>1. two \in [0 .. 255 -> Nat] /\ two[0] = 1 /\ \A i \in 1 .. 255 : two[i] = 2 * two[i - 1]
  BY DEF ArePowers
<1>2. a \in 0 .. 255 /\ b \in 0 .. 255 /\ two[a] \in Nat /\ two[b] \in Nat /\ two[a + b] \in Nat
  <2>1. a \in 0 .. 255 /\ b \in 0 .. 255 /\ a + b \in 0 .. 255
    OBVIOUS
  <2>. QED BY <1>1, <2>1
<1>3. 0 \in D
  <2>1. a + 0 = a /\ two[a] * 1 = two[a]
    BY <1>2
  <2>. QED BY <1>1, <2>1
<1>4. ASSUME NEW n \in Nat, n \in D PROVE n + 1 \in D
  <2>. SUFFICES ASSUME a + (n + 1) <= 255 PROVE two[a + (n + 1)] = two[a] * two[n + 1]
    OBVIOUS
  <2>1. two[a + n] = two[a] * two[n]
    BY <1>4
  <2>2. a + n \in 0 .. 255 /\ n \in 0 .. 255 /\ a + (n + 1) \in 1 .. 255 /\ n + 1 \in 1 .. 255
        /\ (a + (n + 1)) - 1 = a + n /\ (n + 1) - 1 = n
    OBVIOUS
  <2>3. two[a + (n + 1)] = 2 * two[a + n] /\ two[n + 1] = 2 * two[n]
    BY <1>1, <2>2
  <2>4. two[n] \in Nat
    BY <1>1, <2>2
  <2>5. \A x, y \in Nat : 2 * (x * y) = x * (2 * y)
    OBVIOUS
  <2>. QED BY <1>2, <2>1, <2>3, <2>4, <2>5
<1>. HIDE DEF D
<1>5. b \in D
  BY <1>3, <1>4, Induction
<1>. QED BY <1>2, <1>5 DEF D

\* The reference's power by halving is the power by doubling.
LEMMA PowerIs ==
    ASSUME NEW two, ArePowers(two), NEW m \in Nat \ {0}
    PROVE  PowerOfTwo(255, m) = two[255] % m
<1>. DEFINE power[i \in 0 .. 255] ==
                IF i = 0 THEN 1 % m
                ELSE LET root == power[i \div 2] IN (root * root * (1 + (i % 2))) % m
            g == [i \in 0 .. 255 |-> two[i] % m]
<1>0. two \in [0 .. 255 -> Nat] /\ two[0] = 1 /\ two[1] = 2
  BY DEF ArePowers
<1>1. ASSUME NEW i \in 1 .. 255
      PROVE  i \div 2 \in 0 .. 255 /\ i \div 2 < i
             /\ g[i] = (g[i \div 2] * g[i \div 2] * (1 + (i % 2))) % m
  <2>. DEFINE h == i \div 2
              o == i % 2
  <2>1. h \in 0 .. 127 /\ o \in 0 .. 1 /\ i = 2 * h + o /\ h < i
    OBVIOUS
  <2>. HIDE DEF h, o
  <2>2. two[h] \in Nat /\ h \in 0 .. 255 /\ h \in Nat /\ h + h \in Nat /\ h + h <= 255
    BY <1>0, <2>1
  <2>3. two[h + h] = two[h] * two[h]
    BY <2>2, PowerSum
  <2>4. two[i] = two[h] * two[h] * (1 + o)
    <3>1. CASE o = 0
      <4>1. i = h + h
        BY <2>1, <3>1
      <4>2. \A x \in Nat : x * x * (1 + 0) = x * x
        OBVIOUS
      <4>. QED BY <2>2, <2>3, <3>1, <4>1, <4>2
    <3>2. CASE o = 1
      <4>1. i = (h + h) + 1 /\ 1 \in Nat /\ i <= 255
        BY <2>1, <3>2
      <4>2. two[i] = two[h + h] * two[1]
        BY <2>2, <4>1, PowerSum
      <4>3. \A x \in Nat : x * x * (1 + 1) = (x * x) * 2
        OBVIOUS
      <4>. QED BY <1>0, <2>2, <2>3, <3>2, <4>2, <4>3
    <3>. QED BY <2>1, <3>1, <3>2
  <2>5. ((two[h] % m) * (two[h] % m) * (1 + o)) % m = (two[h] * two[h] * (1 + o)) % m
    <3>. DEFINE x == two[h]
                k == 1 + o
    <3>1. x \in Int /\ k \in Int
      BY <2>1, <2>2
    <3>. HIDE DEF x, k
    <3>2. ((x % m) * (x % m) * k) % m = (x * x * k) % m
      BY <3>1, ResidueSquare
    <3>. QED BY <3>2 DEF x, k
  <2>6. g[i] = two[i] % m /\ g[h] = two[h] % m
    BY <2>2
  <2>. QED BY <2>1, <2>2, <2>4, <2>5, <2>6 DEF h, o
<1>2. g[0] = 1 % m
  BY <1>0
<1>. HIDE DEF g
<1>3. g = [i \in 0 .. 255 |-> IF i = 0 THEN 1 % m
                              ELSE (g[i \div 2] * g[i \div 2] * (1 + (i % 2))) % m]
  <2>1. DOMAIN g = 0 .. 255 /\ g = [i \in 0 .. 255 |-> g[i]]
    BY DEF g
  <2>2. \A i \in 0 .. 255 : i = 0 \/ i \in 1 .. 255
    OBVIOUS
  <2>. QED BY <1>1, <1>2, <2>1, <2>2, Zenon
<1>4. power = CHOOSE f : f = [i \in 0 .. 255 |-> IF i = 0 THEN 1 % m
                              ELSE (f[i \div 2] * f[i \div 2] * (1 + (i % 2))) % m]
  BY Zenon
<1>5. power = [i \in 0 .. 255 |-> IF i = 0 THEN 1 % m
                              ELSE (power[i \div 2] * power[i \div 2] * (1 + (i % 2))) % m]
  <2>. HIDE DEF power
  <2>. QED BY <1>3, <1>4
<1>6. PowerOfTwo(255, m) = power[255]
  BY DEF PowerOfTwo
<1>. HIDE DEF power
<1>. DEFINE D == {n \in Nat : \A i \in 0 .. 255 : i <= n => power[i] = g[i]}
<1>7. 0 \in D
  <2>1. power[0] = 1 % m
    BY <1>5
  <2>2. \A i \in 0 .. 255 : i <= 0 => i = 0
    OBVIOUS
  <2>. QED BY <1>2, <2>1, <2>2
<1>8. ASSUME NEW n \in Nat, n \in D PROVE n + 1 \in D
  <2>. SUFFICES ASSUME NEW i \in 0 .. 255, i = n + 1 PROVE power[i] = g[i]
    <3>1. \A i \in 0 .. 255 : i <= n + 1 => i <= n \/ i = n + 1
      OBVIOUS
    <3>. QED BY <1>8, <3>1
  <2>1. i \in 1 .. 255 /\ i # 0
    OBVIOUS
  <2>2. i \div 2 \in 0 .. 255 /\ i \div 2 < i
        /\ g[i] = (g[i \div 2] * g[i \div 2] * (1 + (i % 2))) % m
    BY <1>1, <2>1
  <2>3. i \div 2 <= n
    BY <2>2
  <2>4. power[i \div 2] = g[i \div 2]
    BY <1>8, <2>2, <2>3
  <2>5. power[i] = (power[i \div 2] * power[i \div 2] * (1 + (i % 2))) % m
    BY <1>5, <2>1
  <2>. QED BY <2>2, <2>4, <2>5
<1>. HIDE DEF D
<1>9. 255 \in D
  BY <1>7, <1>8, Induction
<1>10. power[255] = g[255]
  BY <1>9 DEF D
<1>11. g[255] = two[255] % m
  BY DEF g
<1>. QED BY <1>6, <1>10, <1>11

\* The exponents of the four registers before each row of the table, and the
\* register the row starts from.
Exponents(two) ==
    << <<1, 1, 1, 1>>,
       <<1, 3, 1, 1>>,
       <<1, 7, 1, 1>>,
       <<1, 7, 1, 63>>,
       <<1, two[12] - 1, 1, 63>>,
       <<1, two[12] - 1, two[13] - 1, 63>>,
       <<1, two[12] - 1, two[25] - 1, 63>>,
       <<1, two[12] - 1, two[25] - 1, two[50] - 1>>,
       <<1, two[75] - 1, two[25] - 1, two[50] - 1>>,
       <<1, two[125] - 1, two[25] - 1, two[50] - 1>>,
       <<1, two[125] - 1, two[250] - 1, two[50] - 1>>,
       <<1, two[125] - 1, two[252] - 3, two[50] - 1>>,
       <<1, two[125] - 1, two[254] - 11, two[50] - 1>>,
       <<1, two[125] - 1, two[255] - 21, two[50] - 1>> >>
From == <<1, 2, 2, 4, 2, 3, 3, 4, 2, 2, 3, 3, 3, 3>>

\* what row k does to the exponents
RowRaises(two, k) ==
    LET s == CodeSteps[k]  e == Exponents(two)[k] IN
    /\ s.a \in 1 .. 4 /\ s.c \in 1 .. 4 /\ s.a # s.c /\ s.n \in 1 .. 125
    /\ From[k] \in 1 .. 4 /\ From[k + 1] = s.a
    /\ e \in [1 .. 4 -> Int]
    /\ Exponents(two)[k + 1] = [e EXCEPT ![s.a] = e[s.c] + e[From[k]] * two[s.n]]

LEMMA PowersUsed ==
    ASSUME NEW two, ArePowers(two)
    PROVE  /\ two[0] = 1 /\ two[1] = 2 /\ two[2] = 4 /\ two[3] = 8 /\ two[6] = 64
           /\ two[12] = 64 * two[6] /\ two[13] = 2 * two[12] /\ two[25] = two[13] * two[12]
           /\ two[50] = two[25] * two[25] /\ two[75] = two[50] * two[25]
           /\ two[125] = two[75] * two[50] /\ two[250] = two[125] * two[125]
           /\ two[252] = two[250] * 4 /\ two[254] = two[252] * 4 /\ two[255] = two[254] * 2
           /\ \A i \in 0 .. 255 : two[i] \in Nat
<1>1. two \in [0 .. 255 -> Nat] /\ two[0] = 1 /\ \A i \in 1 .. 255 : two[i] = 2 * two[i - 1]
  BY DEF ArePowers
<1>2. two[1] = 2 /\ two[2] = 4 /\ two[3] = 8 /\ two[4] = 16 /\ two[5] = 32 /\ two[6] = 64
  BY <1>1
<1>3. two[6 + 6] = two[6] * two[6] /\ two[12 + 1] = two[12] * two[1]
      /\ two[13 + 12] = two[13] * two[12] /\ two[25 + 25] = two[25] * two[25]
      /\ two[50 + 25] = two[50] * two[25] /\ two[75 + 50] = two[75] * two[50]
      /\ two[125 + 125] = two[125] * two[125] /\ two[250 + 2] = two[250] * two[2]
      /\ two[252 + 2] = two[252] * two[2] /\ two[254 + 1] = two[254] * two[1]
  <2>1. \A a, b \in Nat : a + b <= 255 => two[a + b] = two[a] * two[b]
    BY PowerSum
  <2>. HIDE DEF ArePowers
  <2>. QED BY ONLY <2>1
<1>4. two[12] \in Nat /\ \A i \in 0 .. 255 : two[i] \in Nat
  BY <1>1
<1>. QED BY <1>1, <1>2, <1>3, <1>4

LEMMA RowsRaise ==
    ASSUME NEW two, ArePowers(two), NEW k \in 1 .. 13
    PROVE  RowRaises(two, k)
<1>. DEFINE p12 == two[12]  p13 == two[13]  p25 == two[25]  p50 == two[50]  p75 == two[75]
            p125 == two[125]  p250 == two[250]  p252 == two[252]  p254 == two[254]  p255 == two[255]
<1>1. /\ two[1] = 2 /\ two[2] = 4 /\ two[3] = 8 /\ two[6] = 64
      /\ p12 = 64 * two[6] /\ p13 = 2 * p12 /\ p25 = p13 * p12 /\ p50 = p25 * p25
      /\ p75 = p50 * p25 /\ p125 = p75 * p50 /\ p250 = p125 * p125
      /\ p252 = p250 * 4 /\ p254 = p252 * 4 /\ p255 = p254 * 2
      /\ two[12] = p12 /\ two[25] = p25 /\ two[50] = p50 /\ two[125] = p125
  BY PowersUsed
<1>2. /\ p12 \in Int /\ p13 \in Int /\ p25 \in Int /\ p50 \in Int /\ p75 \in Int
      /\ p125 \in Int /\ p250 \in Int /\ p252 \in Int /\ p254 \in Int /\ p255 \in Int
  <2>1. \A i \in 0 .. 255 : two[i] \in Nat
    BY PowersUsed
  <2>. QED BY <2>1
<1>3. /\ (p12 - 1) * 2 + 1 = p13 - 1
      /\ (p13 - 1) * p12 + (p12 - 1) = p25 - 1
      /\ (p25 - 1) * p25 + (p25 - 1) = p50 - 1
      /\ (p50 - 1) * p25 + (p25 - 1) = p75 - 1
      /\ (p75 - 1) * p50 + (p50 - 1) = p125 - 1
      /\ (p125 - 1) * p125 + (p125 - 1) = p250 - 1
      /\ (p250 - 1) * 4 + 1 = p252 - 3
      /\ (p252 - 3) * 4 + 1 = p254 - 11
      /\ (p254 - 11) * 2 + 1 = p255 - 21
      /\ 63 * 64 + 63 = p12 - 1
  <2>1. 64 * two[6] = 4096
    BY <1>1
  <2>. HIDE DEF p12, p13, p25, p50, p75, p125, p250, p252, p254, p255
  <2>2. /\ (p12 - 1) * 2 + 1 = p13 - 1
        /\ (p250 - 1) * 4 + 1 = p252 - 3
        /\ (p252 - 3) * 4 + 1 = p254 - 11
        /\ (p254 - 11) * 2 + 1 = p255 - 21
        /\ 63 * 64 + 63 = p12 - 1
    BY <1>1, <1>2, <2>1
  <2>3. \A x, y \in Int : (x - 1) * y + (y - 1) = x * y - 1
    OBVIOUS
  <2>. QED BY <1>1, <1>2, <2>2, <2>3
<1>. DEFINE e == Exponents(two)
            S(a, c, n) == [a |-> a, c |-> c, n |-> n]
<1>4. /\ e[1] = <<1, 1, 1, 1>>
      /\ e[2] = <<1, 3, 1, 1>>
      /\ e[3] = <<1, 7, 1, 1>>
      /\ e[4] = <<1, 7, 1, 63>>
      /\ e[5] = <<1, p12 - 1, 1, 63>>
      /\ e[6] = <<1, p12 - 1, p13 - 1, 63>>
      /\ e[7] = <<1, p12 - 1, p25 - 1, 63>>
      /\ e[8] = <<1, p12 - 1, p25 - 1, p50 - 1>>
      /\ e[9] = <<1, p75 - 1, p25 - 1, p50 - 1>>
      /\ e[10] = <<1, p125 - 1, p25 - 1, p50 - 1>>
      /\ e[11] = <<1, p125 - 1, p250 - 1, p50 - 1>>
      /\ e[12] = <<1, p125 - 1, p252 - 3, p50 - 1>>
      /\ e[13] = <<1, p125 - 1, p254 - 11, p50 - 1>>
      /\ e[14] = <<1, p125 - 1, p255 - 21, p50 - 1>>
  BY DEF Exponents
<1>5. /\ k \in {1, 2} => CodeSteps[k] = S(2, 1, 1)
      /\ k = 3 => CodeSteps[k] = S(4, 2, 3)
      /\ k = 4 => CodeSteps[k] = S(2, 4, 6)
      /\ k = 5 => CodeSteps[k] = S(3, 1, 1)
      /\ k = 6 => CodeSteps[k] = S(3, 2, 12)
      /\ k = 7 => CodeSteps[k] = S(4, 3, 25)
      /\ k = 8 => CodeSteps[k] = S(2, 3, 25)
      /\ k = 9 => CodeSteps[k] = S(2, 4, 50)
      /\ k = 10 => CodeSteps[k] = S(3, 2, 125)
      /\ k \in {11, 12} => CodeSteps[k] = S(3, 1, 2)
      /\ k = 13 => CodeSteps[k] = S(3, 1, 1)
  BY DEF CodeSteps
<1>6. /\ k \in {2, 3, 5, 9, 10} => From[k] = 2
      /\ k \in {6, 7, 11, 12, 13} => From[k] = 3
      /\ k \in {4, 8} => From[k] = 4
      /\ k = 1 => From[k] = 1
      /\ k \in {1, 2, 4, 8, 9} => From[k + 1] = 2
      /\ k \in {5, 6, 10, 11, 12, 13} => From[k + 1] = 3
      /\ k \in {3, 7} => From[k + 1] = 4
  BY DEF From
<1>. HIDE DEF e, p12, p13, p25, p50, p75, p125, p250, p252, p254, p255
<1>. DEFINE Row(a, c, n, f, x) ==
              /\ a \in 1 .. 4 /\ c \in 1 .. 4 /\ a # c /\ n \in 1 .. 125 /\ f \in 1 .. 4
              /\ CodeSteps[k] = S(a, c, n) /\ From[k] = f /\ From[k + 1] = a
              /\ x \in [1 .. 4 -> Int] /\ e[k] = x
              /\ e[k + 1] = [x EXCEPT ![a] = x[c] + x[f] * two[n]]
<1>7. ASSUME NEW a, NEW c, NEW n, NEW f, NEW x, Row(a, c, n, f, x)
      PROVE  RowRaises(two, k)
  BY <1>7 DEF RowRaises, e
<1>. HIDE DEF Row
<1>8. CASE k = 1
  <2>. DEFINE x == <<1, 1, 1, 1>>
  <2>1. x \in [1 .. 4 -> Int] /\ [x EXCEPT ![2] = x[1] + x[1] * two[1]] = <<1, 3, 1, 1>>
    BY <1>1, <1>2, <1>3
  <2>. HIDE DEF x
  <2>2. CodeSteps[k] = S(2, 1, 1) /\ From[k] = 1 /\ From[k + 1] = 2
    BY <1>5, <1>6, <1>8
  <2>3. e[k] = x /\ e[k + 1] = [x EXCEPT ![2] = x[1] + x[1] * two[1]]
    <3>1. k = 1 /\ k + 1 = 2
      BY <1>8
    <3>2. e[1] = x
      BY <1>4 DEF x
    <3>3. e[2] = [x EXCEPT ![2] = x[1] + x[1] * two[1]]
      BY <1>4, <2>1
    <3>. QED BY <3>1, <3>2, <3>3
  <2>4. Row(2, 1, 1, 1, x)
    BY <2>1, <2>2, <2>3 DEF Row
  <2>. QED BY <1>7, <2>4
<1>9. CASE k = 2
  <2>. DEFINE x == <<1, 3, 1, 1>>
  <2>1. x \in [1 .. 4 -> Int] /\ [x EXCEPT ![2] = x[1] + x[2] * two[1]] = <<1, 7, 1, 1>>
    BY <1>1, <1>2, <1>3
  <2>. HIDE DEF x
  <2>2. CodeSteps[k] = S(2, 1, 1) /\ From[k] = 2 /\ From[k + 1] = 2
    BY <1>5, <1>6, <1>9
  <2>3. e[k] = x /\ e[k + 1] = [x EXCEPT ![2] = x[1] + x[2] * two[1]]
    <3>1. k = 2 /\ k + 1 = 3
      BY <1>9
    <3>2. e[2] = x
      BY <1>4 DEF x
    <3>3. e[3] = [x EXCEPT ![2] = x[1] + x[2] * two[1]]
      BY <1>4, <2>1
    <3>. QED BY <3>1, <3>2, <3>3
  <2>4. Row(2, 1, 1, 2, x)
    BY <2>1, <2>2, <2>3 DEF Row
  <2>. QED BY <1>7, <2>4
<1>10. CASE k = 3
  <2>. DEFINE x == <<1, 7, 1, 1>>
  <2>1. x \in [1 .. 4 -> Int] /\ [x EXCEPT ![4] = x[2] + x[2] * two[3]] = <<1, 7, 1, 63>>
    BY <1>1, <1>2, <1>3
  <2>. HIDE DEF x
  <2>2. CodeSteps[k] = S(4, 2, 3) /\ From[k] = 2 /\ From[k + 1] = 4
    BY <1>5, <1>6, <1>10
  <2>3. e[k] = x /\ e[k + 1] = [x EXCEPT ![4] = x[2] + x[2] * two[3]]
    <3>1. k = 3 /\ k + 1 = 4
      BY <1>10
    <3>2. e[3] = x
      BY <1>4 DEF x
    <3>3. e[4] = [x EXCEPT ![4] = x[2] + x[2] * two[3]]
      BY <1>4, <2>1
    <3>. QED BY <3>1, <3>2, <3>3
  <2>4. Row(4, 2, 3, 2, x)
    BY <2>1, <2>2, <2>3 DEF Row
  <2>. QED BY <1>7, <2>4
<1>11. CASE k = 4
  <2>. DEFINE x == <<1, 7, 1, 63>>
  <2>1. x \in [1 .. 4 -> Int] /\ [x EXCEPT ![2] = x[4] + x[4] * two[6]] = <<1, p12 - 1, 1, 63>>
    BY <1>1, <1>2, <1>3
  <2>. HIDE DEF x
  <2>2. CodeSteps[k] = S(2, 4, 6) /\ From[k] = 4 /\ From[k + 1] = 2
    BY <1>5, <1>6, <1>11
  <2>3. e[k] = x /\ e[k + 1] = [x EXCEPT ![2] = x[4] + x[4] * two[6]]
    <3>1. k = 4 /\ k + 1 = 5
      BY <1>11
    <3>2. e[4] = x
      BY <1>4 DEF x
    <3>3. e[5] = [x EXCEPT ![2] = x[4] + x[4] * two[6]]
      BY <1>4, <2>1
    <3>. QED BY <3>1, <3>2, <3>3
  <2>4. Row(2, 4, 6, 4, x)
    BY <2>1, <2>2, <2>3 DEF Row
  <2>. QED BY <1>7, <2>4
<1>12. CASE k = 5
  <2>. DEFINE x == <<1, p12 - 1, 1, 63>>
  <2>1. x \in [1 .. 4 -> Int] /\ [x EXCEPT ![3] = x[1] + x[2] * two[1]] = <<1, p12 - 1, p13 - 1, 63>>
    BY <1>1, <1>2, <1>3
  <2>. HIDE DEF x
  <2>2. CodeSteps[k] = S(3, 1, 1) /\ From[k] = 2 /\ From[k + 1] = 3
    BY <1>5, <1>6, <1>12
  <2>3. e[k] = x /\ e[k + 1] = [x EXCEPT ![3] = x[1] + x[2] * two[1]]
    <3>1. k = 5 /\ k + 1 = 6
      BY <1>12
    <3>2. e[5] = x
      BY <1>4 DEF x
    <3>3. e[6] = [x EXCEPT ![3] = x[1] + x[2] * two[1]]
      BY <1>4, <2>1
    <3>. QED BY <3>1, <3>2, <3>3
  <2>4. Row(3, 1, 1, 2, x)
    BY <2>1, <2>2, <2>3 DEF Row
  <2>. QED BY <1>7, <2>4
<1>13. CASE k = 6
  <2>. DEFINE x == <<1, p12 - 1, p13 - 1, 63>>
  <2>1. x \in [1 .. 4 -> Int] /\ [x EXCEPT ![3] = x[2] + x[3] * two[12]] = <<1, p12 - 1, p25 - 1, 63>>
    BY <1>1, <1>2, <1>3
  <2>. HIDE DEF x
  <2>2. CodeSteps[k] = S(3, 2, 12) /\ From[k] = 3 /\ From[k + 1] = 3
    BY <1>5, <1>6, <1>13
  <2>3. e[k] = x /\ e[k + 1] = [x EXCEPT ![3] = x[2] + x[3] * two[12]]
    <3>1. k = 6 /\ k + 1 = 7
      BY <1>13
    <3>2. e[6] = x
      BY <1>4 DEF x
    <3>3. e[7] = [x EXCEPT ![3] = x[2] + x[3] * two[12]]
      BY <1>4, <2>1
    <3>. QED BY <3>1, <3>2, <3>3
  <2>4. Row(3, 2, 12, 3, x)
    BY <2>1, <2>2, <2>3 DEF Row
  <2>. QED BY <1>7, <2>4
<1>14. CASE k = 7
  <2>. DEFINE x == <<1, p12 - 1, p25 - 1, 63>>
  <2>1. x \in [1 .. 4 -> Int] /\ [x EXCEPT ![4] = x[3] + x[3] * two[25]] = <<1, p12 - 1, p25 - 1, p50 - 1>>
    BY <1>1, <1>2, <1>3
  <2>. HIDE DEF x
  <2>2. CodeSteps[k] = S(4, 3, 25) /\ From[k] = 3 /\ From[k + 1] = 4
    BY <1>5, <1>6, <1>14
  <2>3. e[k] = x /\ e[k + 1] = [x EXCEPT ![4] = x[3] + x[3] * two[25]]
    <3>1. k = 7 /\ k + 1 = 8
      BY <1>14
    <3>2. e[7] = x
      BY <1>4 DEF x
    <3>3. e[8] = [x EXCEPT ![4] = x[3] + x[3] * two[25]]
      BY <1>4, <2>1
    <3>. QED BY <3>1, <3>2, <3>3
  <2>4. Row(4, 3, 25, 3, x)
    BY <2>1, <2>2, <2>3 DEF Row
  <2>. QED BY <1>7, <2>4
<1>15. CASE k = 8
  <2>. DEFINE x == <<1, p12 - 1, p25 - 1, p50 - 1>>
  <2>1. x \in [1 .. 4 -> Int] /\ [x EXCEPT ![2] = x[3] + x[4] * two[25]] = <<1, p75 - 1, p25 - 1, p50 - 1>>
    BY <1>1, <1>2, <1>3
  <2>. HIDE DEF x
  <2>2. CodeSteps[k] = S(2, 3, 25) /\ From[k] = 4 /\ From[k + 1] = 2
    BY <1>5, <1>6, <1>15
  <2>3. e[k] = x /\ e[k + 1] = [x EXCEPT ![2] = x[3] + x[4] * two[25]]
    <3>1. k = 8 /\ k + 1 = 9
      BY <1>15
    <3>2. e[8] = x
      BY <1>4 DEF x
    <3>3. e[9] = [x EXCEPT ![2] = x[3] + x[4] * two[25]]
      BY <1>4, <2>1
    <3>. QED BY <3>1, <3>2, <3>3
  <2>4. Row(2, 3, 25, 4, x)
    BY <2>1, <2>2, <2>3 DEF Row
  <2>. QED BY <1>7, <2>4
<1>16. CASE k = 9
  <2>. DEFINE x == <<1, p75 - 1, p25 - 1, p50 - 1>>
  <2>1. x \in [1 .. 4 -> Int] /\ [x EXCEPT ![2] = x[4] + x[2] * two[50]] = <<1, p125 - 1, p25 - 1, p50 - 1>>
    BY <1>1, <1>2, <1>3
  <2>. HIDE DEF x
  <2>2. CodeSteps[k] = S(2, 4, 50) /\ From[k] = 2 /\ From[k + 1] = 2
    BY <1>5, <1>6, <1>16
  <2>3. e[k] = x /\ e[k + 1] = [x EXCEPT ![2] = x[4] + x[2] * two[50]]
    <3>1. k = 9 /\ k + 1 = 10
      BY <1>16
    <3>2. e[9] = x
      BY <1>4 DEF x
    <3>3. e[10] = [x EXCEPT ![2] = x[4] + x[2] * two[50]]
      BY <1>4, <2>1
    <3>. QED BY <3>1, <3>2, <3>3
  <2>4. Row(2, 4, 50, 2, x)
    BY <2>1, <2>2, <2>3 DEF Row
  <2>. QED BY <1>7, <2>4
<1>17. CASE k = 10
  <2>. DEFINE x == <<1, p125 - 1, p25 - 1, p50 - 1>>
  <2>1. x \in [1 .. 4 -> Int] /\ [x EXCEPT ![3] = x[2] + x[2] * two[125]] = <<1, p125 - 1, p250 - 1, p50 - 1>>
    BY <1>1, <1>2, <1>3
  <2>. HIDE DEF x
  <2>2. CodeSteps[k] = S(3, 2, 125) /\ From[k] = 2 /\ From[k + 1] = 3
    BY <1>5, <1>6, <1>17
  <2>3. e[k] = x /\ e[k + 1] = [x EXCEPT ![3] = x[2] + x[2] * two[125]]
    <3>1. k = 10 /\ k + 1 = 11
      BY <1>17
    <3>2. e[10] = x
      BY <1>4 DEF x
    <3>3. e[11] = [x EXCEPT ![3] = x[2] + x[2] * two[125]]
      BY <1>4, <2>1
    <3>. QED BY <3>1, <3>2, <3>3
  <2>4. Row(3, 2, 125, 2, x)
    BY <2>1, <2>2, <2>3 DEF Row
  <2>. QED BY <1>7, <2>4
<1>18. CASE k = 11
  <2>. DEFINE x == <<1, p125 - 1, p250 - 1, p50 - 1>>
  <2>1. x \in [1 .. 4 -> Int] /\ [x EXCEPT ![3] = x[1] + x[3] * two[2]] = <<1, p125 - 1, p252 - 3, p50 - 1>>
    BY <1>1, <1>2, <1>3
  <2>. HIDE DEF x
  <2>2. CodeSteps[k] = S(3, 1, 2) /\ From[k] = 3 /\ From[k + 1] = 3
    BY <1>5, <1>6, <1>18
  <2>3. e[k] = x /\ e[k + 1] = [x EXCEPT ![3] = x[1] + x[3] * two[2]]
    <3>1. k = 11 /\ k + 1 = 12
      BY <1>18
    <3>2. e[11] = x
      BY <1>4 DEF x
    <3>3. e[12] = [x EXCEPT ![3] = x[1] + x[3] * two[2]]
      BY <1>4, <2>1
    <3>. QED BY <3>1, <3>2, <3>3
  <2>4. Row(3, 1, 2, 3, x)
    BY <2>1, <2>2, <2>3 DEF Row
  <2>. QED BY <1>7, <2>4
<1>19. CASE k = 12
  <2>. DEFINE x == <<1, p125 - 1, p252 - 3, p50 - 1>>
  <2>1. x \in [1 .. 4 -> Int] /\ [x EXCEPT ![3] = x[1] + x[3] * two[2]] = <<1, p125 - 1, p254 - 11, p50 - 1>>
    BY <1>1, <1>2, <1>3
  <2>. HIDE DEF x
  <2>2. CodeSteps[k] = S(3, 1, 2) /\ From[k] = 3 /\ From[k + 1] = 3
    BY <1>5, <1>6, <1>19
  <2>3. e[k] = x /\ e[k + 1] = [x EXCEPT ![3] = x[1] + x[3] * two[2]]
    <3>1. k = 12 /\ k + 1 = 13
      BY <1>19
    <3>2. e[12] = x
      BY <1>4 DEF x
    <3>3. e[13] = [x EXCEPT ![3] = x[1] + x[3] * two[2]]
      BY <1>4, <2>1
    <3>. QED BY <3>1, <3>2, <3>3
  <2>4. Row(3, 1, 2, 3, x)
    BY <2>1, <2>2, <2>3 DEF Row
  <2>. QED BY <1>7, <2>4
<1>20. CASE k = 13
  <2>. DEFINE x == <<1, p125 - 1, p254 - 11, p50 - 1>>
  <2>1. x \in [1 .. 4 -> Int] /\ [x EXCEPT ![3] = x[1] + x[3] * two[1]] = <<1, p125 - 1, p255 - 21, p50 - 1>>
    BY <1>1, <1>2, <1>3
  <2>. HIDE DEF x
  <2>2. CodeSteps[k] = S(3, 1, 1) /\ From[k] = 3 /\ From[k + 1] = 3
    BY <1>5, <1>6, <1>20
  <2>3. e[k] = x /\ e[k + 1] = [x EXCEPT ![3] = x[1] + x[3] * two[1]]
    <3>1. k = 13 /\ k + 1 = 14
      BY <1>20
    <3>2. e[13] = x
      BY <1>4 DEF x
    <3>3. e[14] = [x EXCEPT ![3] = x[1] + x[3] * two[1]]
      BY <1>4, <2>1
    <3>. QED BY <3>1, <3>2, <3>3
  <2>4. Row(3, 1, 1, 3, x)
    BY <2>1, <2>2, <2>3 DEF Row
  <2>. QED BY <1>7, <2>4
<1>. QED BY <1>8, <1>9, <1>10, <1>11, <1>12, <1>13, <1>14, <1>15, <1>16, <1>17, <1>18, <1>19, <1>20

\* Row k of the table after t of its squarings: the exponents, and the chain of
\* residues modulo m that stands for them.
Squared(two, k, t) ==
    LET e == Exponents(two)[k] IN
    IF t = 0 THEN e ELSE [e EXCEPT ![CodeSteps[k].a] = e[From[k]] * two[t]]

Residues(e, m) == [r \in 1 .. 4 |-> e[r] % m]

Chain(row, left, prev, xs) == [row |-> row, left |-> left, prev |-> prev, xs |-> xs]

SquaringsOf(k) == IF k <= 13 THEN CodeSteps[k].n ELSE 0

ChainAt(chain, m, two, k, t) ==
    /\ k \in 1 .. 14 /\ t \in 0 .. SquaringsOf(k)
    /\ chain = Chain(k, SquaringsOf(k) - t, IF t = 0 THEN From[k] ELSE CodeSteps[k].a,
                     Residues(Squared(two, k, t), m))

LEMMA ChainBegins ==
    ASSUME NEW two, ArePowers(two), NEW m \in Nat \ {0}
    PROVE  ChainAt(ChainStart(CodeSteps, 1 % m), m, two, 1, 0)
<1>1. Exponents(two)[1] = <<1, 1, 1, 1>>
  BY DEF Exponents
<1>2. CodeSteps[1].n = 1 /\ From[1] = 1
  BY DEF CodeSteps, From
<1>3. Residues(Squared(two, 1, 0), m) = [r \in 1 .. 4 |-> 1 % m]
  <2>. DEFINE e == Exponents(two)[1]
              one == 1 % m
  <2>1. Squared(two, 1, 0) = e
    BY DEF Squared
  <2>2. \A r \in 1 .. 4 : e[r] = 1
    BY <1>1
  <2>3. \A r \in 1 .. 4 : e[r] % m = 1 % m
    BY <2>2
  <2>. QED BY <2>1, <2>3 DEF Residues
<1>4. ChainStart(CodeSteps, 1 % m) = Chain(1, 1, 1, Residues(Squared(two, 1, 0), m))
  BY <1>2, <1>3 DEF ChainStart, Chain
<1>5. SquaringsOf(1) = 1
  BY <1>2 DEF SquaringsOf
<1>. QED BY <1>2, <1>4, <1>5 DEF ChainAt

Set(xs, r, x) == [xs EXCEPT ![r] = x]

\* what the code does to a chain, field by field
LEMMA Turns ==
    ASSUME NEW k, NEW left, NEW prev, NEW xs, NEW squared, NEW product
    PROVE  ChainTurn(CodeSteps, Chain(k, left, prev, xs), squared, product)
             = IF left > 0
               THEN Chain(k, left - 1, CodeSteps[k].a, Set(xs, CodeSteps[k].a, squared))
               ELSE Chain(k + 1, IF k < Len(CodeSteps) THEN CodeSteps[k + 1].n ELSE 0, prev,
                          Set(xs, CodeSteps[k].a, product))
<1>. DEFINE chain == Chain(k, left, prev, xs)
            a == CodeSteps[k].a
<1>1. chain.row = k /\ chain.left = left /\ chain.prev = prev /\ chain.xs = xs
      /\ chain = [row |-> k, left |-> left, prev |-> prev, xs |-> xs]
  BY DEF Chain
<1>. HIDE DEF a
<1>2. [chain EXCEPT !.left = @ - 1, !.prev = a, !.xs[a] = squared]
        = Chain(k, left - 1, a, [xs EXCEPT ![a] = squared])
  <2>. DEFINE c1 == [chain EXCEPT !.left = @ - 1]
              c2 == [c1 EXCEPT !.prev = a]
              c3 == [c2 EXCEPT !.xs[a] = squared]
  <2>1. c3 = [chain EXCEPT !.left = @ - 1, !.prev = a, !.xs[a] = squared]
    OBVIOUS
  <2>2. c1 = Chain(k, left - 1, prev, xs)
    BY DEF Chain
  <2>. HIDE DEF c1
  <2>3. c2 = Chain(k, left - 1, a, xs)
    BY <2>2 DEF Chain
  <2>. HIDE DEF c2
  <2>4. c3 = Chain(k, left - 1, a, [xs EXCEPT ![a] = squared])
    BY <2>3 DEF Chain
  <2>. HIDE DEF c3
  <2>. QED BY <2>1, <2>4
<1>3. ASSUME NEW n
      PROVE  [chain EXCEPT !.row = @ + 1, !.xs[a] = product, !.left = n]
               = Chain(k + 1, n, prev, [xs EXCEPT ![a] = product])
  <2>. DEFINE c1 == [chain EXCEPT !.row = @ + 1]
              c2 == [c1 EXCEPT !.xs[a] = product]
              c3 == [c2 EXCEPT !.left = n]
  <2>1. c3 = [chain EXCEPT !.row = @ + 1, !.xs[a] = product, !.left = n]
    OBVIOUS
  <2>2. c1 = Chain(k + 1, left, prev, xs)
    BY DEF Chain
  <2>. HIDE DEF c1
  <2>3. c2 = Chain(k + 1, left, prev, [xs EXCEPT ![a] = product])
    BY <2>2 DEF Chain
  <2>. HIDE DEF c2
  <2>4. c3 = Chain(k + 1, n, prev, [xs EXCEPT ![a] = product])
    BY <2>3 DEF Chain
  <2>. HIDE DEF c3
  <2>. QED BY <2>1, <2>4
<1>4. ChainTurn(CodeSteps, chain, squared, product)
        = IF left > 0
          THEN [chain EXCEPT !.left = @ - 1, !.prev = a, !.xs[a] = squared]
          ELSE [chain EXCEPT !.row = @ + 1, !.xs[a] = product,
                             !.left = IF k < Len(CodeSteps) THEN CodeSteps[k + 1].n ELSE 0]
  <2>. HIDE DEF chain
  <2>. QED BY <1>1, Zenon DEF ChainTurn, a
<1>. HIDE DEF chain
<1>. QED BY <1>2, <1>3, <1>4, Zenon DEF chain, a, Set

LEMMA TableLength == Len(CodeSteps) = 13
BY DEF CodeSteps

\* A squaring doubles the exponent of the register before, and a product adds two.
LEMMA ChainSteps ==
    ASSUME NEW two, ArePowers(two), NEW m \in Nat \ {0}, NEW chain,
           NEW k \in 1 .. 13, NEW t, ChainAt(chain, m, two, k, t)
    PROVE  LET f == ChainFactors(CodeSteps, chain)
               turned == ChainTurn(CodeSteps, chain, (2 * ChainBase(chain)) % m, (f[1] + f[2]) % m)
           IN  IF t < CodeSteps[k].n THEN ChainAt(turned, m, two, k, t + 1)
                                     ELSE ChainAt(turned, m, two, k + 1, 0)
<1>. DEFINE e == Exponents(two)[k]
            a == CodeSteps[k].a
            c == CodeSteps[k].c
            n == CodeSteps[k].n
            f == From[k]
            now == Squared(two, k, t)
            prev == IF t = 0 THEN f ELSE a
<1>1. /\ a \in 1 .. 4 /\ c \in 1 .. 4 /\ a # c /\ n \in 1 .. 125
      /\ f \in 1 .. 4 /\ From[k + 1] = a /\ e \in [1 .. 4 -> Int]
      /\ Exponents(two)[k + 1] = [e EXCEPT ![a] = e[c] + e[f] * two[n]]
  BY RowsRaise DEF RowRaises
<1>2. t \in 0 .. n /\ chain = Chain(k, n - t, prev, Residues(now, m))
  BY DEF ChainAt, SquaringsOf
<1>3. /\ two[0] = 1 /\ (t < n => two[t + 1] = 2 * two[t])
      /\ two[t] \in Nat /\ two[n] \in Nat
  <2>1. two \in [0 .. 255 -> Nat] /\ two[0] = 1 /\ \A i \in 1 .. 255 : two[i] = 2 * two[i - 1]
    BY DEF ArePowers
  <2>2. t \in 0 .. 255 /\ n \in 0 .. 255 /\ (t < n => t + 1 \in 1 .. 255 /\ (t + 1) - 1 = t)
    <3>1. n \in 1 .. 125
      BY <1>1
    <3>2. t \in 0 .. n
      BY <1>2
    <3>. HIDE DEF n
    <3>. QED BY <3>1, <3>2
  <2>3. two[t] \in Nat /\ two[n] \in Nat
    <3>. HIDE DEF n
    <3>1. two \in [0 .. 255 -> Nat]
      BY <2>1
    <3>. QED BY <2>2, <3>1
  <2>4. ASSUME t < n PROVE two[t + 1] = 2 * two[t]
    <3>. DEFINE u == t + 1
    <3>1. u \in 1 .. 255 /\ u - 1 = t
      BY <2>2, <2>4
    <3>. HIDE DEF u
    <3>. QED BY <2>1, <3>1 DEF u
  <2>. QED BY <2>1, <2>3, <2>4
<1>4. /\ t = 0 => now = e
      /\ t # 0 => now = [e EXCEPT ![a] = e[f] * two[t]]
  BY DEF Squared
<1>5. Squared(two, k, t + 1) = [e EXCEPT ![a] = e[f] * two[t + 1]] \/ ~(t < n)
  <2>1. t + 1 # 0
    BY <1>2
  <2>. QED BY <2>1 DEF Squared
<1>6. Squared(two, k + 1, 0) = Exponents(two)[k + 1]
  BY DEF Squared
<1>7. SquaringsOf(k) = n /\ (k < 13 => SquaringsOf(k + 1) = CodeSteps[k + 1].n)
      /\ (k = 13 => SquaringsOf(k + 1) = 0)
  BY DEF SquaringsOf
<1>. DEFINE g == two[t]
            g1 == two[t + 1]
            now1 == Squared(two, k, t + 1)
            next == Exponents(two)[k + 1]
            rest == SquaringsOf(k + 1)
<1>8. rest \in Nat
  <2>1. CASE k = 13
    BY <1>7, <2>1
  <2>2. CASE k # 13
    <3>1. k + 1 \in 1 .. 13
      BY <2>2
    <3>2. RowRaises(two, k + 1)
      BY <3>1, RowsRaise
    <3>. QED BY <1>7, <2>2, <3>1, <3>2 DEF RowRaises
  <2>. QED BY <2>1, <2>2
<1>9. ChainBase(chain) = Residues(now, m)[prev] /\ ChainFactors(CodeSteps, chain)
        = <<Residues(now, m)[c], Residues(now, m)[a]>>
  <2>1. chain.xs = Residues(now, m) /\ chain.prev = prev /\ chain.row = k
    <3>. HIDE DEF now, prev
    <3>. QED BY <1>2 DEF Chain
  <2>. QED BY <2>1 DEF ChainBase, ChainFactors
<1>. HIDE DEF e, a, c, n, f, now, prev, now1, next, rest, g, g1
<1>10. /\ e[f] \in Int /\ e[f] * g \in Int /\ e[f] * two[n] \in Int
       /\ t < n => e[f] * g1 = 2 * (e[f] * g) /\ e[f] * g1 \in Int
  <2>1. e[f] \in Int /\ g \in Nat /\ two[n] \in Nat /\ (t < n => g1 = 2 * g)
    BY <1>1, <1>3 DEF g, g1
  <2>2. \A x \in Int : x * (2 * g) = 2 * (x * g) /\ x * g \in Int /\ x * two[n] \in Int
    BY <2>1
  <2>. QED BY <2>1, <2>2
<1>11. \A r \in 1 .. 4 : Residues(now, m)[r] = now[r] % m
  BY DEF Residues
<1>. DEFINE squared == (2 * ChainBase(chain)) % m
            factors == ChainFactors(CodeSteps, chain)
            product == (factors[1] + factors[2]) % m
            turned == ChainTurn(CodeSteps, chain, squared, product)
<1>12. CASE t < n
  <2>1. prev \in 1 .. 4 /\ now[prev] = e[f] * g
    <3>1. CASE t = 0
      <4>1. e[f] * g = e[f]
        BY <1>3, <1>10, <3>1 DEF g
      <4>. QED BY <1>1, <1>4, <3>1, <4>1 DEF prev
    <3>2. CASE t # 0
      <4>1. prev = a /\ now = [e EXCEPT ![a] = e[f] * g]
        BY <1>4, <3>2 DEF prev, g
      <4>. QED BY <1>1, <4>1
    <3>. QED BY <3>1, <3>2
  <2>2. squared = (e[f] * g1) % m
    <3>. DEFINE x == e[f] * g
    <3>1. x \in Int /\ e[f] * g1 = 2 * x
      BY <1>10, <1>12
    <3>2. ChainBase(chain) = x % m
      BY <1>9, <1>11, <2>1
    <3>. HIDE DEF x
    <3>3. (2 * (x % m)) % m = (2 * x) % m
      BY <3>1, ResidueDouble
    <3>. QED BY <3>1, <3>2, <3>3
  <2>3. now1 = [e EXCEPT ![a] = e[f] * g1]
    BY <1>5, <1>12 DEF now1, g1
  <2>4. Set(Residues(now, m), a, squared) = Residues(now1, m)
    <3>. DEFINE y == e[f] * g1
    <3>1. now1[a] = y /\ \A r \in 1 .. 4 : r # a => now1[r] = now[r]
      <4>. HIDE DEF y
      <4>1. now1 = [e EXCEPT ![a] = y]
        BY <2>3 DEF y
      <4>. QED BY <1>1, <1>4, <4>1
    <3>. HIDE DEF y, squared
    <3>2. squared = y % m
      BY <2>2 DEF y
    <3>. QED BY <1>1, <3>1, <3>2 DEF Residues, Set
  <2>5. turned = Chain(k, (n - t) - 1, a, Residues(now1, m))
    <3>1. n - t > 0
      BY <1>1, <1>2, <1>12
    <3>. HIDE DEF squared, product
    <3>2. ChainTurn(CodeSteps, Chain(k, n - t, prev, Residues(now, m)), squared, product)
            = Chain(k, (n - t) - 1, a, Set(Residues(now, m), a, squared))
      <4>. DEFINE l == n - t
      <4>. HIDE DEF l, prev, now
      <4>1. l > 0
        BY <3>1 DEF l
      <4>2. ChainTurn(CodeSteps, Chain(k, l, prev, Residues(now, m)), squared, product)
              = Chain(k, l - 1, a, Set(Residues(now, m), a, squared))
        BY <4>1, Turns DEF a
      <4>. QED BY <4>2 DEF l
    <3>. QED BY <1>2, <2>4, <3>2
  <2>6. ChainAt(turned, m, two, k, t + 1)
    <3>1. t + 1 \in 0 .. n /\ t + 1 # 0 /\ (n - t) - 1 = n - (t + 1) /\ k \in 1 .. 14
      BY <1>1, <1>2, <1>12
    <3>. HIDE DEF turned
    <3>. QED BY <1>7, <2>5, <3>1 DEF ChainAt, a, now1
  <2>. QED BY <1>12, <2>6 DEF n
<1>13. CASE ~(t < n)
  <2>1. t = n /\ t # 0 /\ n - t = 0 /\ prev = a
    BY <1>1, <1>2, <1>13 DEF prev
  <2>. DEFINE x == e[c]
              y == e[f] * two[n]
  <2>2. x \in Int /\ y \in Int
    BY <1>1, <1>10
  <2>3. now = [e EXCEPT ![a] = y] /\ next = [e EXCEPT ![a] = x + y]
    BY <1>1, <1>4, <2>1 DEF next, g
  <2>4. now[c] = x /\ now[a] = y
    <3>. HIDE DEF y
    <3>. QED BY <1>1, <2>3
  <2>5. product = (x + y) % m
    <3>. HIDE DEF x, y
    <3>1. factors[1] = x % m /\ factors[2] = y % m
      BY <1>1, <1>9, <1>11, <2>4
    <3>. HIDE DEF factors
    <3>2. ((x % m) + (y % m)) % m = (x + y) % m
      BY <2>2, ResidueSum
    <3>. QED BY <3>1, <3>2
  <2>6. Set(Residues(now, m), a, product) = Residues(next, m)
    <3>. DEFINE z == x + y
    <3>1. next[a] = z /\ \A r \in 1 .. 4 : r # a => next[r] = now[r]
      <4>. HIDE DEF y, z
      <4>1. next = [e EXCEPT ![a] = z]
        BY <2>3 DEF z
      <4>. QED BY <1>1, <2>3, <4>1
    <3>. HIDE DEF z, product
    <3>2. product = z % m
      BY <2>5 DEF z
    <3>. QED BY <1>1, <3>1, <3>2 DEF Residues, Set
  <2>7. turned = Chain(k + 1, rest, a, Residues(next, m))
    <3>. HIDE DEF squared, product
    <3>1. ChainTurn(CodeSteps, Chain(k, 0, a, Residues(now, m)), squared, product)
            = Chain(k + 1, IF k < Len(CodeSteps) THEN CodeSteps[k + 1].n ELSE 0, a,
                    Set(Residues(now, m), a, product))
      BY Turns DEF a
    <3>2. rest = IF k < Len(CodeSteps) THEN CodeSteps[k + 1].n ELSE 0
      BY <1>7, TableLength DEF rest
    <3>. QED BY <1>2, <2>1, <2>6, <3>1, <3>2
  <2>8. ChainAt(turned, m, two, k + 1, 0)
    <3>1. k + 1 \in 1 .. 14 /\ rest - 0 = rest /\ 0 \in 0 .. rest
      BY <1>8
    <3>. HIDE DEF turned
    <3>. QED BY <1>1, <1>6, <2>7, <3>1 DEF ChainAt, rest, next
  <2>. QED BY <1>13, <2>8 DEF n
<1>. QED BY <1>12, <1>13

-----------------------------------------------------------------------------
(* Numbers in digits *)

\* powers of a base, as far as they are used
Scale(base, last, at) == [base |-> base, last |-> last, at |-> at]
IsScale(sc) ==
    /\ sc.last \in Nat /\ sc.base \in Nat \ {0} /\ sc.at[0] = 1
    /\ \A i \in 0 .. sc.last :
          /\ sc.at[i] \in Nat \ {0} /\ sc.at[i + 1] \in Nat \ {0}
          /\ sc.at[i + 1] = sc.base * sc.at[i]

\* what the lowest n limbs of x are worth
IsWorth(sc, s, x, n) ==
    /\ s \in [0 .. n -> Int] /\ s[0] = 0
    /\ \A i \in 1 .. n : s[i] = s[i - 1] + x[i] * sc.at[i - 1]
Worth(sc, x, n) == (CHOOSE s : IsWorth(sc, s, x, n))[n]

\* n integers, and no more than the scale has powers
Numbers(sc, x, n) == IsScale(sc) /\ n \in 0 .. sc.last /\ \A i \in 1 .. n : x[i] \in Int

LEMMA Weighted ==
    ASSUME NEW sc, NEW n, NEW x, Numbers(sc, x, n), NEW i \in 1 .. n
    PROVE  /\ x[i] \in Int /\ sc.at[i - 1] \in Nat \ {0} /\ x[i] * sc.at[i - 1] \in Int
           /\ i - 1 \in 0 .. sc.last
<1>. DEFINE p == sc.at[i - 1]
            y == x[i]
<1>1. y \in Int /\ i - 1 \in 0 .. sc.last /\ n \in Nat
  BY DEF Numbers, IsScale
<1>2. p \in Nat \ {0}
  BY <1>1 DEF Numbers, IsScale
<1>. HIDE DEF p, y
<1>3. y * p \in Int
  BY <1>1, <1>2
<1>. QED BY <1>1, <1>2, <1>3 DEF p, y

LEMMA SumUnique ==
    ASSUME NEW sc, NEW n, NEW x, Numbers(sc, x, n), NEW s, IsWorth(sc, s, x, n), NEW t, NEW m \in 0 .. n,
           IsWorth(sc, t, x, m)
    PROVE  s[m] = t[m]
<1>. DEFINE D == {i \in Nat : i <= m => s[i] = t[i]}
<1>0. n \in Nat /\ m \in Nat /\ m <= n
  BY DEF Numbers, IsScale
<1>1. 0 \in D
  BY DEF IsWorth
<1>2. ASSUME NEW i \in Nat, i \in D PROVE i + 1 \in D
  <2>. SUFFICES ASSUME i + 1 <= m PROVE s[i + 1] = t[i + 1]
    OBVIOUS
  <2>1. i + 1 \in 1 .. m /\ i + 1 \in 1 .. n /\ (i + 1) - 1 = i
    BY <1>0
  <2>2. s[i + 1] = s[i] + x[i + 1] * sc.at[i] /\ t[i + 1] = t[i] + x[i + 1] * sc.at[i]
    <3>. DEFINE j == i + 1
    <3>1. j \in 1 .. m /\ j \in 1 .. n /\ j - 1 = i
      BY <2>1
    <3>. HIDE DEF j
    <3>2. s[j] = s[j - 1] + x[j] * sc.at[j - 1] /\ t[j] = t[j - 1] + x[j] * sc.at[j - 1]
      BY <3>1 DEF IsWorth
    <3>. QED BY <3>1, <3>2 DEF j
  <2>3. s[i] = t[i]
    BY <1>2
  <2>. QED BY <2>2, <2>3
<1>. HIDE DEF D
<1>3. m \in D
  BY <1>0, <1>1, <1>2, Induction
<1>. QED BY <1>0, <1>3 DEF D

LEMMA SumExists ==
    ASSUME NEW sc, NEW n, NEW x, Numbers(sc, x, n)
    PROVE  \E s : IsWorth(sc, s, x, n)
<1>. DEFINE F == [p \in Nat \X Int |-> IF p[1] \in 1 .. n THEN p[2] + x[p[1]] * sc.at[p[1] - 1] ELSE p[2]]
<1>0. n \in Nat
  BY DEF Numbers, IsScale
<1>1. F \in [Nat \X Int -> Int] /\ 0 \in Int
  <2>1. ASSUME NEW i \in 1 .. n, NEW y \in Int PROVE y + x[i] * sc.at[i - 1] \in Int
    <3>. DEFINE z == x[i] * sc.at[i - 1]
    <3>1. z \in Int
      BY Weighted
    <3>. HIDE DEF z
    <3>2. y + z \in Int
      BY <3>1
    <3>. QED BY <3>2 DEF z
  <2>2. \A p \in Nat \X Int : p[1] \in Nat /\ p[2] \in Int
    OBVIOUS
  <2>. QED BY <2>1, <2>2
<1>2. PICK g \in [SUBSET (1 .. n) -> Int] : Folds(g, F, 0, n)
  <2>. DEFINE X == Int
              zero == 0
  <2>1. F \in [Nat \X X -> X] /\ zero \in X
    BY <1>1
  <2>. HIDE DEF F, X, zero
  <2>2. \E g \in [SUBSET (1 .. n) -> X] : Folds(g, F, zero, n)
    BY <1>0, <2>1, FoldExists
  <2>. QED BY <2>2 DEF X, zero
<1>. DEFINE s == [i \in 0 .. n |-> g[1 .. i]]
<1>3. \A i \in 0 .. n : 1 .. i \in SUBSET (1 .. n)
  BY <1>0
<1>4. s \in [0 .. n -> Int]
  BY <1>3
<1>5. s[0] = 0
  <2>1. 1 .. 0 = {} /\ {} \in SUBSET (1 .. n) /\ 0 \in 0 .. n
    BY <1>0
  <2>2. g[{}] = 0
    <3>. HIDE DEF F
    <3>. QED BY <1>2, <2>1 DEF Folds
  <2>. QED BY <2>1, <2>2
<1>6. ASSUME NEW i \in 1 .. n PROVE s[i] = s[i - 1] + x[i] * sc.at[i - 1]
  <2>1. 1 .. i \in SUBSET Int /\ i \in 1 .. i /\ \A y \in 1 .. i : y <= i
    OBVIOUS
  <2>2. Max(1 .. i) = i
    BY <2>1, MaxIs
  <2>3. (1 .. i) \ {i} = 1 .. (i - 1) /\ i - 1 \in 0 .. n /\ i \in 0 .. n /\ i \in Nat
        /\ 1 .. i # {}
    <3>1. i \in Nat /\ i >= 1 /\ i <= n
      BY <1>0
    <3>2. (1 .. i) \ {i} = 1 .. (i - 1)
      BY <3>1
    <3>. QED BY <1>0, <2>1, <3>1, <3>2
  <2>4. g[1 .. i] = F[<<i, g[1 .. (i - 1)]>>]
    <3>1. 1 .. i \in SUBSET (1 .. n)
      BY <1>3, <2>3
    <3>. HIDE DEF F
    <3>2. g[1 .. i] = F[<<Max(1 .. i), g[(1 .. i) \ {Max(1 .. i)}]>>]
      BY <1>2, <2>3, <3>1 DEF Folds
    <3>. QED BY <2>2, <2>3, <3>2
  <2>5. g[1 .. (i - 1)] \in Int
    BY <1>3, <2>3
  <2>6. F[<<i, g[1 .. (i - 1)]>>] = g[1 .. (i - 1)] + x[i] * sc.at[i - 1]
    BY <2>3, <2>5
  <2>. QED BY <2>3, <2>4, <2>6
<1>. HIDE DEF s, F
<1>. QED BY <1>4, <1>5, <1>6 DEF IsWorth

LEMMA SumIs ==
    ASSUME NEW sc, NEW n, NEW x, Numbers(sc, x, n)
    PROVE  /\ Worth(sc, x, 0) = 0
           /\ \A i \in 1 .. n : Worth(sc, x, i) = Worth(sc, x, i - 1) + x[i] * sc.at[i - 1]
           /\ \A i \in 0 .. n : Worth(sc, x, i) \in Int
<1>0. n \in Nat
  BY DEF Numbers, IsScale
<1>1. PICK s : IsWorth(sc, s, x, n)
  BY SumExists
<1>2. ASSUME NEW i \in 0 .. n PROVE Worth(sc, x, i) = s[i]
  <2>1. Numbers(sc, x, i)
    BY <1>0 DEF Numbers, IsScale
  <2>2. \E t : IsWorth(sc, t, x, i)
    BY <2>1, SumExists
  <2>. DEFINE t == CHOOSE u : IsWorth(sc, u, x, i)
  <2>3. IsWorth(sc, t, x, i)
    BY <2>2
  <2>. HIDE DEF t
  <2>4. s[i] = t[i]
    BY <1>1, <2>3, SumUnique
  <2>. QED BY <2>4 DEF Worth, t
<1>3. s \in [0 .. n -> Int] /\ s[0] = 0 /\ \A i \in 1 .. n : s[i] = s[i - 1] + x[i] * sc.at[i - 1]
  BY <1>1 DEF IsWorth
<1>4. \A i \in 1 .. n : i \in 0 .. n /\ i - 1 \in 0 .. n
  BY <1>0
<1>5. 0 \in 0 .. n
  BY <1>0
<1>. QED BY <1>2, <1>3, <1>4, <1>5

LEMMA SumStep ==
    ASSUME NEW sc, NEW n, NEW x, Numbers(sc, x, n), NEW i \in Nat, i + 1 <= n
    PROVE  /\ Worth(sc, x, i + 1) = Worth(sc, x, i) + x[i + 1] * sc.at[i]
           /\ Worth(sc, x, i) \in Int /\ Worth(sc, x, i + 1) \in Int /\ x[i + 1] \in Int
           /\ sc.at[i] \in Nat \ {0} /\ sc.at[i + 1] \in Nat \ {0}
           /\ sc.at[i + 1] = sc.base * sc.at[i]
<1>. DEFINE j == i + 1
<1>0. n \in Nat /\ n <= sc.last /\ sc.last \in Nat
  BY DEF Numbers, IsScale
<1>1. j \in 1 .. n /\ j - 1 = i /\ i \in 0 .. n /\ j \in 0 .. n /\ i \in 0 .. sc.last
  BY <1>0
<1>2. sc.at[i] \in Nat \ {0} /\ sc.at[i + 1] \in Nat \ {0} /\ sc.at[i + 1] = sc.base * sc.at[i]
  BY <1>1 DEF Numbers, IsScale
<1>. HIDE DEF j
<1>3. Worth(sc, x, j) = Worth(sc, x, j - 1) + x[j] * sc.at[j - 1] /\ Worth(sc, x, i) \in Int
      /\ Worth(sc, x, j) \in Int
  BY <1>1, SumIs
<1>4. x[j] \in Int
  BY <1>1 DEF Numbers
<1>. QED BY <1>1, <1>2, <1>3, <1>4 DEF j

IsStep(sc, x, i) ==
    /\ Worth(sc, x, i + 1) = Worth(sc, x, i) + x[i + 1] * sc.at[i]
    /\ Worth(sc, x, i) \in Int /\ x[i + 1] \in Int /\ sc.at[i] \in Nat \ {0}
    /\ sc.at[i + 1] = sc.base * sc.at[i]

LEMMA SumSteps ==
    ASSUME NEW sc, NEW n, NEW x, Numbers(sc, x, n), NEW i \in Nat, i + 1 <= n
    PROVE  IsStep(sc, x, i)
<1>1. /\ Worth(sc, x, i + 1) = Worth(sc, x, i) + x[i + 1] * sc.at[i]
      /\ Worth(sc, x, i) \in Int /\ Worth(sc, x, i + 1) \in Int /\ x[i + 1] \in Int
      /\ sc.at[i] \in Nat \ {0} /\ sc.at[i + 1] \in Nat \ {0}
      /\ sc.at[i + 1] = sc.base * sc.at[i]
  BY SumStep
<1>. QED BY <1>1 DEF IsStep

LEMMA SumNone ==
    ASSUME NEW sc, NEW n, NEW x, Numbers(sc, x, n)
    PROVE  Worth(sc, x, 0) = 0
BY SumIs

LEMMA SumInt ==
    ASSUME NEW sc, NEW n, NEW x, Numbers(sc, x, n)
    PROVE  Worth(sc, x, n) \in Int
<1>1. n \in 0 .. n
  BY DEF Numbers, IsScale
<1>. QED BY <1>1, SumIs

\* the sum of limbs that are sums of multiples
IsMix(sc, z, c, x, y, n) ==
    /\ Numbers(sc, x, n) /\ Numbers(sc, y, n) /\ Numbers(sc, z, n) /\ c \in Int
    /\ \A i \in 1 .. n : z[i] = c * x[i] + y[i]

LEMMA SumMix ==
    ASSUME NEW sc, NEW n, NEW z, NEW c, NEW x, NEW y, IsMix(sc, z, c, x, y, n)
    PROVE  Worth(sc, z, n) = c * Worth(sc, x, n) + Worth(sc, y, n)
<1>. DEFINE D == {i \in Nat : i <= n => Worth(sc, z, i) = c * Worth(sc, x, i) + Worth(sc, y, i)}
<1>0. /\ Numbers(sc, x, n) /\ Numbers(sc, y, n) /\ Numbers(sc, z, n) /\ c \in Int
      /\ \A i \in 1 .. n : z[i] = c * x[i] + y[i]
  BY DEF IsMix
<1>1. 0 \in D
  <2>1. Worth(sc, z, 0) = 0 /\ Worth(sc, x, 0) = 0 /\ Worth(sc, y, 0) = 0
    BY <1>0, SumNone
  <2>. QED BY <1>0, <2>1
<1>2. ASSUME NEW i \in Nat, i \in D PROVE i + 1 \in D
  <2>. SUFFICES ASSUME i + 1 <= n PROVE Worth(sc, z, i + 1) = c * Worth(sc, x, i + 1) + Worth(sc, y, i + 1)
    OBVIOUS
  <2>. DEFINE j == i + 1
              p == sc.at[i]
              sx == Worth(sc, x, i)
              sy == Worth(sc, y, i)
              sz == Worth(sc, z, i)
              a == x[j]
              b == y[j]
              d == z[j]
  <2>0. Numbers(sc, x, n) /\ Numbers(sc, y, n) /\ Numbers(sc, z, n) /\ i + 1 <= n
    BY <1>0
  <2>1. n \in Nat /\ i <= n
    BY <1>0 DEF Numbers, IsScale
  <2>2. sz = c * sx + sy
    BY <1>2, <2>1
  <2>3. /\ Worth(sc, x, j) = sx + a * p /\ sx \in Int /\ a \in Int /\ p \in Int
        /\ Worth(sc, y, j) = sy + b * p /\ sy \in Int /\ b \in Int
        /\ Worth(sc, z, j) = sz + d * p /\ sz \in Int /\ d \in Int
    <3>1. IsStep(sc, x, i) /\ IsStep(sc, y, i) /\ IsStep(sc, z, i)
      BY <2>0, SumSteps
    <3>. QED BY <3>1 DEF IsStep
  <2>4. d = c * a + b
    <3>1. j \in 1 .. n
      BY <2>1
    <3>. HIDE DEF j
    <3>. QED BY <1>0, <3>1
  <2>. HIDE DEF p, sx, sy, sz, a, b, d
  <2>5. sz + d * p = c * (sx + a * p) + (sy + b * p)
    <3>1. d * p = c * (a * p) + b * p
      BY <1>0, <2>3, <2>4
    <3>. DEFINE ap == a * p
                bp == b * p
                dp == d * p
    <3>2. ap \in Int /\ bp \in Int /\ dp \in Int
      BY <2>3
    <3>. HIDE DEF ap, bp, dp
    <3>3. dp = c * ap + bp
      BY <3>1 DEF ap, bp, dp
    <3>4. c * (sx + ap) = c * sx + c * ap
      BY <1>0, <2>3, <3>2
    <3>5. sz + dp = c * (sx + ap) + (sy + bp)
      BY <1>0, <2>2, <2>3, <3>2, <3>3, <3>4
    <3>. QED BY <3>5 DEF ap, bp, dp
  <2>. QED BY <2>3, <2>5
<1>. HIDE DEF D
<1>3. n \in Nat
  BY <1>0 DEF Numbers, IsScale
<1>4. n \in D
  BY <1>1, <1>2, <1>3, Induction
<1>. QED BY <1>3, <1>4 DEF D

\* x has y from limb p + 1 on
IsTail(sc, y, x, p, q) ==
    /\ p \in Nat /\ q \in Nat /\ Numbers(sc, x, p + q) /\ Numbers(sc, y, q)
    /\ \A i \in 1 .. q : y[i] = x[p + i]

LEMMA SumSplit ==
    ASSUME NEW sc, NEW p, NEW q, NEW x, NEW y, IsTail(sc, y, x, p, q)
    PROVE  Worth(sc, x, p + q) = Worth(sc, x, p) + sc.at[p] * Worth(sc, y, q)
<1>. DEFINE D == {i \in Nat : i <= q => /\ Worth(sc, x, p + i) = Worth(sc, x, p) + sc.at[p] * Worth(sc, y, i)
                                        /\ sc.at[p + i] = sc.at[p] * sc.at[i]}
<1>0. /\ p \in Nat /\ q \in Nat /\ Numbers(sc, x, p + q) /\ Numbers(sc, y, q)
      /\ \A i \in 1 .. q : y[i] = x[p + i]
  BY DEF IsTail
<1>1. p \in 0 .. sc.last /\ p + q <= sc.last /\ q <= sc.last
  BY <1>0 DEF Numbers, IsScale
<1>2. sc.at[p] \in Nat \ {0} /\ sc.at[0] = 1 /\ sc.base \in Nat
  BY <1>0, <1>1 DEF Numbers, IsScale
<1>3. Worth(sc, x, p) \in Int
  <2>1. p \in 0 .. p + q
    BY <1>0
  <2>. QED BY <1>0, <2>1, SumIs
<1>4. 0 \in D
  <2>1. Worth(sc, y, 0) = 0
    BY <1>0, SumNone
  <2>2. p + 0 = p
    BY <1>0
  <2>. QED BY <1>2, <1>3, <2>1, <2>2
<1>5. ASSUME NEW i \in Nat, i \in D PROVE i + 1 \in D
  <2>. SUFFICES ASSUME i + 1 <= q
                PROVE  /\ Worth(sc, x, p + (i + 1)) = Worth(sc, x, p) + sc.at[p] * Worth(sc, y, i + 1)
                       /\ sc.at[p + (i + 1)] = sc.at[p] * sc.at[i + 1]
    OBVIOUS
  <2>. DEFINE k == p + i
  <2>1. k \in Nat /\ k + 1 <= p + q /\ p + (i + 1) = k + 1 /\ i + 1 \in 1 .. q /\ i <= q
    BY <1>0
  <2>. DEFINE s == Worth(sc, x, k)
              t == Worth(sc, y, i)
              w == sc.at[i]
              wp == sc.at[p]
              v == y[i + 1]
              b == Worth(sc, x, p)
  <2>2. s = b + wp * t /\ sc.at[k] = wp * w
    BY <1>5, <2>1
  <2>. HIDE DEF k
  <2>3. /\ Worth(sc, x, k + 1) = s + x[k + 1] * sc.at[k] /\ s \in Int
        /\ sc.at[k + 1] = sc.base * sc.at[k]
    BY <1>0, <2>1, SumStep
  <2>4. /\ Worth(sc, y, i + 1) = t + v * w /\ t \in Int /\ v \in Int /\ w \in Nat \ {0}
        /\ sc.at[i + 1] = sc.base * w
    BY <1>0, <2>1, SumStep
  <2>5. x[k + 1] = v
    <3>. DEFINE j == i + 1
    <3>1. j \in 1 .. q /\ k + 1 = p + j
      BY <2>1
    <3>. HIDE DEF j
    <3>2. y[j] = x[p + j]
      BY <1>0, <3>1
    <3>. QED BY <3>1, <3>2 DEF j
  <2>. DEFINE vw == v * w
              wpt == wp * t
  <2>6. vw \in Int /\ wpt \in Int /\ wp \in Nat /\ b \in Int
    BY <1>2, <1>3, <2>4
  <2>7. v * (wp * w) = wp * vw /\ sc.base * (wp * w) = wp * (sc.base * w)
    BY <1>2, <2>4
  <2>8. wp * (t + vw) = wpt + wp * vw
    <3>. HIDE DEF wp, t, vw
    <3>1. wp * (t + vw) = wp * t + wp * vw
      BY <2>4, <2>6
    <3>. QED BY <3>1
  <2>9. Worth(sc, x, k + 1) = b + wp * Worth(sc, y, i + 1)
    <3>1. Worth(sc, x, k + 1) = (b + wpt) + wp * vw
      BY <2>2, <2>3, <2>5, <2>7
    <3>2. wp * Worth(sc, y, i + 1) = wpt + wp * vw
      BY <2>4, <2>8
    <3>3. wp * vw \in Int
      BY <2>6
    <3>. HIDE DEF b, wpt, wp, vw
    <3>. QED BY <2>6, <3>1, <3>2, <3>3
  <2>10. sc.at[k + 1] = wp * sc.at[i + 1]
    BY <2>2, <2>3, <2>4, <2>7
  <2>. QED BY <2>1, <2>9, <2>10
<1>. HIDE DEF D
<1>6. q \in D
  BY <1>0, <1>4, <1>5, Induction
<1>. QED BY <1>0, <1>6 DEF D

\* limbs that are the same, and limbs that are 0
AreSame(sc, x, y, n) == Numbers(sc, x, n) /\ Numbers(sc, y, n) /\ \A i \in 1 .. n : x[i] = y[i]
AreZero(sc, x, m, n) == Numbers(sc, x, n) /\ m \in Nat /\ m <= n /\ \A i \in m + 1 .. n : x[i] = 0

LEMMA SumSame ==
    ASSUME NEW sc, NEW n, NEW x, NEW y, AreSame(sc, x, y, n)
    PROVE  Worth(sc, x, n) = Worth(sc, y, n)
<1>. DEFINE D == {i \in Nat : i <= n => Worth(sc, x, i) = Worth(sc, y, i)}
<1>0. Numbers(sc, x, n) /\ Numbers(sc, y, n) /\ n \in Nat
  BY DEF AreSame, Numbers, IsScale
<1>1. 0 \in D
  BY <1>0, SumNone
<1>2. ASSUME NEW i \in Nat, i \in D PROVE i + 1 \in D
  <2>. SUFFICES ASSUME i + 1 <= n PROVE Worth(sc, x, i + 1) = Worth(sc, y, i + 1)
    OBVIOUS
  <2>1. i <= n /\ i + 1 \in 1 .. n
    BY <1>0
  <2>2. x[i + 1] = y[i + 1]
    BY <2>1 DEF AreSame
  <2>3. Worth(sc, x, i + 1) = Worth(sc, x, i) + x[i + 1] * sc.at[i]
    BY <1>0, SumStep
  <2>4. Worth(sc, y, i + 1) = Worth(sc, y, i) + y[i + 1] * sc.at[i]
    BY <1>0, SumStep
  <2>. QED BY <1>2, <2>1, <2>2, <2>3, <2>4
<1>. HIDE DEF D
<1>3. n \in D
  BY <1>0, <1>1, <1>2, Induction
<1>. QED BY <1>0, <1>3 DEF D

LEMMA SumZeros ==
    ASSUME NEW sc, NEW n, NEW x, NEW m, AreZero(sc, x, m, n)
    PROVE  Worth(sc, x, n) = Worth(sc, x, m)
<1>. DEFINE D == {i \in Nat : m + i <= n => Worth(sc, x, m + i) = Worth(sc, x, m)}
<1>0. Numbers(sc, x, n) /\ n \in Nat /\ m \in Nat /\ m <= n
  BY DEF AreZero, Numbers, IsScale
<1>1. 0 \in D
  <2>1. m + 0 = m
    BY <1>0
  <2>. QED BY <2>1
<1>2. ASSUME NEW i \in Nat, i \in D PROVE i + 1 \in D
  <2>. SUFFICES ASSUME m + (i + 1) <= n PROVE Worth(sc, x, m + (i + 1)) = Worth(sc, x, m)
    OBVIOUS
  <2>. DEFINE k == m + i
  <2>1. k \in Nat /\ k + 1 <= n /\ m + (i + 1) = k + 1 /\ k + 1 \in m + 1 .. n /\ k <= n
    BY <1>0
  <2>2. Worth(sc, x, k) = Worth(sc, x, m)
    BY <1>2, <2>1
  <2>. HIDE DEF k
  <2>3. x[k + 1] = 0
    BY <2>1 DEF AreZero
  <2>4. Worth(sc, x, k + 1) = Worth(sc, x, k) + x[k + 1] * sc.at[k] /\ Worth(sc, x, k) \in Int
        /\ sc.at[k] \in Nat \ {0}
    <3>1. Numbers(sc, x, n) /\ k \in Nat /\ k + 1 <= n
      BY <1>0, <2>1
    <3>2. IsStep(sc, x, k)
      BY <3>1, SumSteps
    <3>. QED BY <3>2 DEF IsStep
  <2>. QED BY <2>1, <2>2, <2>3, <2>4
<1>. HIDE DEF D
<1>3. n - m \in Nat /\ m + (n - m) = n
  BY <1>0
<1>4. n - m \in D
  BY <1>1, <1>2, <1>3, Induction
<1>. QED BY <1>0, <1>3, <1>4 DEF D

\* limbs in their range are worth less than the next
AreLimbs(sc, x, n) == IsScale(sc) /\ n \in 0 .. sc.last /\ \A i \in 1 .. n : x[i] \in 0 .. sc.base - 1

LEMMA LimbsAreNumbers ==
    ASSUME NEW sc, NEW n, NEW x, AreLimbs(sc, x, n)
    PROVE  Numbers(sc, x, n)
BY DEF AreLimbs, Numbers, IsScale

LEMMA SumBound ==
    ASSUME NEW sc, NEW n, NEW x, AreLimbs(sc, x, n)
    PROVE  Worth(sc, x, n) \in 0 .. sc.at[n] - 1 /\ sc.at[n] \in Nat \ {0}
<1>. DEFINE D == {i \in Nat : i <= n => Worth(sc, x, i) \in Nat /\ Worth(sc, x, i) < sc.at[i]}
<1>0. Numbers(sc, x, n) /\ n \in Nat /\ n \in 0 .. sc.last
  BY LimbsAreNumbers DEF AreLimbs, IsScale
<1>1. 0 \in D
  <2>1. Worth(sc, x, 0) = 0 /\ sc.at[0] = 1
    BY <1>0, SumNone DEF Numbers, IsScale
  <2>. QED BY <2>1
<1>2. ASSUME NEW i \in Nat, i \in D PROVE i + 1 \in D
  <2>. SUFFICES ASSUME i + 1 <= n PROVE Worth(sc, x, i + 1) \in Nat /\ Worth(sc, x, i + 1) < sc.at[i + 1]
    OBVIOUS
  <2>. DEFINE s == Worth(sc, x, i)
              w == sc.at[i]
              a == x[i + 1]
  <2>1. i + 1 \in 1 .. n /\ i <= n
    BY <1>0
  <2>2. a \in 0 .. sc.base - 1 /\ sc.base \in Nat
    BY <2>1 DEF AreLimbs, IsScale
  <2>3. s \in Nat /\ s < w
    BY <1>2, <2>1
  <2>4. Worth(sc, x, i + 1) = s + a * w /\ w \in Nat \ {0} /\ sc.at[i + 1] = sc.base * w
    BY <1>0, SumStep
  <2>. HIDE DEF s, w, a
  <2>5. a * w \in Nat /\ sc.base * w = a * w + (sc.base - a) * w /\ (sc.base - a) * w >= w
    <3>1. sc.base * w = a * w + (sc.base - a) * w
      BY <2>2, <2>4
    <3>. DEFINE d == sc.base - a - 1
    <3>2. d \in Nat /\ sc.base - a = d + 1
      BY <2>2
    <3>. HIDE DEF d
    <3>3. (d + 1) * w = d * w + w /\ d * w \in Nat
      BY <3>2, <2>4
    <3>4. a * w \in Nat
      BY <2>2, <2>4
    <3>. QED BY <2>4, <3>1, <3>2, <3>3, <3>4
  <2>. DEFINE aw == a * w
              dw == (sc.base - a) * w
              rw == sc.base * w
  <2>6. aw \in Nat /\ rw = aw + dw /\ dw >= w /\ dw \in Int
    <3>1. (sc.base - a) * w \in Int
      BY <2>2, <2>4
    <3>. QED BY <2>5, <3>1
  <2>. HIDE DEF aw, dw, rw
  <2>7. s + aw \in Nat /\ s + aw < rw
    BY <2>3, <2>4, <2>6
  <2>. QED BY <2>4, <2>7 DEF aw, rw
<1>. HIDE DEF D
<1>3. n \in D
  BY <1>0, <1>1, <1>2, Induction
<1>4. sc.at[n] \in Nat \ {0}
  BY <1>0 DEF Numbers, IsScale
<1>5. Worth(sc, x, n) \in Nat /\ Worth(sc, x, n) < sc.at[n]
  BY <1>0, <1>3 DEF D
<1>. QED BY <1>4, <1>5

LEMMA ScaleSum ==
    ASSUME NEW sc, IsScale(sc), NEW p \in Nat, NEW q \in Nat, p + q <= sc.last + 1
    PROVE  sc.at[p + q] = sc.at[p] * sc.at[q]
<1>. DEFINE D == {i \in Nat : p + i <= sc.last + 1 => sc.at[p + i] = sc.at[p] * sc.at[i]}
<1>0. sc.last \in Nat
  BY DEF Numbers, IsScale
<1>1. ASSUME NEW i \in Nat, i <= sc.last + 1 PROVE sc.at[i] \in Nat \ {0}
  <2>1. CASE i <= sc.last
    <3>1. i \in 0 .. sc.last
      BY <1>0, <2>1
    <3>. QED BY <3>1 DEF Numbers, IsScale
  <2>2. CASE ~(i <= sc.last)
    <3>. DEFINE k == i - 1
    <3>1. k \in 0 .. sc.last /\ k + 1 = i
      BY <1>0, <1>1, <2>2
    <3>. HIDE DEF k
    <3>2. sc.at[k + 1] \in Nat \ {0}
      BY <3>1 DEF Numbers, IsScale
    <3>. QED BY <3>1, <3>2
  <2>. QED BY <2>1, <2>2
<1>2. 0 \in D
  <2>1. p + 0 = p /\ sc.at[0] = 1 /\ p <= sc.last + 1
    BY <1>0 DEF Numbers, IsScale
  <2>2. sc.at[p] \in Nat \ {0}
    BY <1>1, <2>1
  <2>. QED BY <2>1, <2>2
<1>3. ASSUME NEW i \in Nat, i \in D PROVE i + 1 \in D
  <2>. SUFFICES ASSUME p + (i + 1) <= sc.last + 1 PROVE sc.at[p + (i + 1)] = sc.at[p] * sc.at[i + 1]
    OBVIOUS
  <2>. DEFINE k == p + i
              a == sc.at[p]
              b == sc.at[i]
  <2>1. k \in 0 .. sc.last /\ i \in 0 .. sc.last /\ p + (i + 1) = k + 1 /\ p <= sc.last + 1
        /\ i <= sc.last + 1 /\ k <= sc.last + 1
    BY <1>0
  <2>2. sc.at[k] = a * b
    BY <1>3, <2>1
  <2>. HIDE DEF k
  <2>3. sc.at[k + 1] = sc.base * sc.at[k] /\ sc.at[i + 1] = sc.base * b /\ sc.base \in Nat
    BY <2>1 DEF Numbers, IsScale
  <2>4. a \in Nat \ {0} /\ b \in Nat \ {0}
    BY <1>1, <2>1
  <2>. HIDE DEF a, b
  <2>5. sc.base * (a * b) = a * (sc.base * b)
    BY <2>3, <2>4
  <2>. QED BY <2>1, <2>2, <2>3, <2>5 DEF a
<1>. HIDE DEF D
<1>4. q \in D
  BY <1>2, <1>3, Induction
<1>. QED BY <1>4 DEF D

LEMMA ScaleIs ==
    ASSUME NEW base \in Nat \ {0}, NEW last \in Nat, NEW at, at[0] = 1,
           \A i \in 0 .. last : at[i + 1] = base * at[i]
    PROVE  /\ IsScale(Scale(base, last, at))
           /\ \A i \in 0 .. last + 1 : at[i] \in Nat \ {0}
<1>. DEFINE D == {n \in Nat : n <= last + 1 => at[n] \in Nat \ {0}}
<1>1. 0 \in D
  OBVIOUS
<1>2. ASSUME NEW n \in Nat, n \in D PROVE n + 1 \in D
  <2>. SUFFICES ASSUME n + 1 <= last + 1 PROVE at[n + 1] \in Nat \ {0}
    OBVIOUS
  <2>. DEFINE w == at[n]
  <2>1. n \in 0 .. last /\ w \in Nat \ {0}
    BY <1>2
  <2>2. at[n + 1] = base * w
    BY <2>1
  <2>. HIDE DEF w
  <2>3. base * w \in Nat \ {0}
    BY <2>1
  <2>. QED BY <2>2, <2>3
<1>. HIDE DEF D
<1>3. Nat \subseteq D
  BY <1>1, <1>2, Induction
<1>4. \A i \in 0 .. last + 1 : at[i] \in Nat \ {0}
  BY <1>3 DEF D
<1>5. ASSUME NEW i \in 0 .. last
      PROVE  at[i] \in Nat \ {0} /\ at[i + 1] \in Nat \ {0} /\ at[i + 1] = base * at[i]
  <2>. DEFINE j == i + 1
  <2>1. i \in 0 .. last + 1 /\ j \in 0 .. last + 1
    OBVIOUS
  <2>. HIDE DEF j
  <2>2. at[j] \in Nat \ {0} /\ at[i] \in Nat \ {0}
    BY <1>4, <2>1
  <2>. QED BY <2>2 DEF j
<1>. DEFINE sc == Scale(base, last, at)
<1>6. sc.base = base /\ sc.last = last /\ sc.at = at
  BY DEF Scale
<1>. HIDE DEF sc
<1>7. IsScale(sc)
  BY <1>5, <1>6 DEF IsScale
<1>. QED BY <1>4, <1>7 DEF sc

\* the initial segments that a fold goes through
LEMMA UpTo ==
    ASSUME NEW n \in Nat, NEW i \in 1 .. n
    PROVE  /\ Max(1 .. i) = i /\ (1 .. i) \ {i} = 1 .. (i - 1) /\ 1 .. i # {}
           /\ 1 .. i \in SUBSET (1 .. n) /\ i \in Nat /\ i \in 0 .. n /\ i - 1 \in 0 .. n
<1>1. 1 .. i \in SUBSET Int /\ i \in 1 .. i /\ \A y \in 1 .. i : y <= i
  OBVIOUS
<1>2. Max(1 .. i) = i
  BY <1>1, MaxIs
<1>3. i \in Nat /\ i >= 1 /\ i <= n
  OBVIOUS
<1>4. (1 .. i) \ {i} = 1 .. (i - 1)
  BY <1>3
<1>5. 1 .. i \subseteq 1 .. n /\ i \in 0 .. n /\ i - 1 \in 0 .. n
  BY <1>3
<1>. QED BY <1>1, <1>2, <1>3, <1>4, <1>5

\* a fold with all that its users ask for
IsFold(g, X, F, b, n) ==
    /\ g \in [SUBSET (1 .. n) -> X] /\ g[{}] = b
    /\ \A S \in SUBSET (1 .. n) : S # {} =>
          /\ Max(S) \in 1 .. n /\ Max(S) \in Nat /\ g[S \ {Max(S)}] \in X
          /\ g[S] = F[<<Max(S), g[S \ {Max(S)}]>>]

LEMMA FoldTurns ==
    ASSUME NEW X, NEW b \in X, NEW F \in [Nat \X X -> X], NEW n \in Nat
    PROVE  \E g : IsFold(g, X, F, b, n)
<1>1. PICK g \in [SUBSET (1 .. n) -> X] : Folds(g, F, b, n)
  BY FoldExists
<1>2. ASSUME NEW S \in SUBSET (1 .. n), S # {}
      PROVE  /\ Max(S) \in 1 .. n /\ Max(S) \in Nat /\ g[S \ {Max(S)}] \in X
             /\ g[S] = F[<<Max(S), g[S \ {Max(S)}]>>]
  <2>1. Max(S) \in S
    BY <1>2, MaxIn
  <2>2. Max(S) \in 1 .. n /\ S \ {Max(S)} \in SUBSET (1 .. n)
    BY <2>1
  <2>3. Max(S) \in Nat /\ g[S \ {Max(S)}] \in X
    BY <2>2
  <2>4. g[S] = F[<<Max(S), g[S \ {Max(S)}]>>]
    BY <1>1, <1>2 DEF Folds
  <2>. QED BY <2>2, <2>3, <2>4
<1>3. g[{}] = b
  BY <1>1 DEF Folds
<1>. QED BY <1>2, <1>3 DEF IsFold

\* the sum over any part of the limbs, as the folds of the modules add it up
PartSum(g, sc, x, n) ==
    g = [S \in SUBSET (1 .. n) |->
            IF S = {} THEN 0 ELSE g[S \ {Max(S)}] + x[Max(S)] * sc.at[Max(S) - 1]]

LEMMA SumFolds ==
    ASSUME NEW sc, NEW n, NEW x, Numbers(sc, x, n)
    PROVE  \E g : PartSum(g, sc, x, n) /\ \A S \in SUBSET (1 .. n) : S # {} => Max(S) \in 1 .. n
<1>. DEFINE F == [p \in Nat \X Int |-> IF p[1] \in 1 .. n THEN p[2] + x[p[1]] * sc.at[p[1] - 1] ELSE p[2]]
            X == Int
            zero == 0
<1>0. n \in Nat
  BY DEF Numbers, IsScale
<1>1. ASSUME NEW i \in 1 .. n, NEW y \in Int PROVE y + x[i] * sc.at[i - 1] \in Int
  <2>. DEFINE z == x[i] * sc.at[i - 1]
  <2>1. z \in Int
    BY Weighted
  <2>. HIDE DEF z
  <2>2. y + z \in Int
    BY <2>1
  <2>. QED BY <2>2 DEF z
<1>2. F \in [Nat \X X -> X] /\ zero \in X
  <2>1. \A p \in Nat \X Int : p[1] \in Nat /\ p[2] \in Int
    OBVIOUS
  <2>. QED BY <1>1, <2>1
<1>3. \A i \in Nat, y \in Int : i \in 1 .. n => F[<<i, y>>] = y + x[i] * sc.at[i - 1]
  OBVIOUS
<1>. HIDE DEF F
<1>4. PICK g : IsFold(g, X, F, zero, n)
  <2>. HIDE DEF X, zero
  <2>. QED BY <1>0, <1>2, FoldTurns
<1>5. ASSUME NEW S \in SUBSET (1 .. n), S # {}
      PROVE  g[S] = g[S \ {Max(S)}] + x[Max(S)] * sc.at[Max(S) - 1]
  BY <1>3, <1>4, <1>5 DEF IsFold
<1>6. PartSum(g, sc, x, n)
  BY <1>4, <1>5 DEF PartSum, IsFold
<1>. QED BY <1>4, <1>6 DEF IsFold

LEMMA SumFolded ==
    ASSUME NEW sc, NEW n, NEW x, Numbers(sc, x, n), NEW g, PartSum(g, sc, x, n)
    PROVE  g[1 .. n] = Worth(sc, x, n)
<1>. DEFINE D == {i \in Nat : i <= n => g[1 .. i] = Worth(sc, x, i)}
<1>0. n \in Nat
  BY DEF Numbers, IsScale
<1>1. g = [S \in SUBSET (1 .. n) |->
              IF S = {} THEN 0 ELSE g[S \ {Max(S)}] + x[Max(S)] * sc.at[Max(S) - 1]]
  BY DEF PartSum
<1>2. 0 \in D
  <2>1. 1 .. 0 = {} /\ {} \in SUBSET (1 .. n)
    OBVIOUS
  <2>2. g[{}] = 0
    BY <1>1, <2>1
  <2>. QED BY <2>1, <2>2, SumNone
<1>3. ASSUME NEW i \in Nat, i \in D PROVE i + 1 \in D
  <2>. SUFFICES ASSUME i + 1 <= n PROVE g[1 .. i + 1] = Worth(sc, x, i + 1)
    OBVIOUS
  <2>. DEFINE j == i + 1
              S == 1 .. j
  <2>1. j \in 1 .. n /\ j - 1 = i /\ i <= n
    BY <1>0
  <2>2. Max(S) = j /\ S \ {j} = 1 .. i /\ S # {} /\ S \in SUBSET (1 .. n)
    <3>. HIDE DEF j
    <3>. QED BY <1>0, <2>1, UpTo
  <2>. HIDE DEF S
  <2>3. g[S] = g[S \ {Max(S)}] + x[Max(S)] * sc.at[Max(S) - 1]
    BY <1>1, <2>2
  <2>4. g[S] = g[1 .. i] + x[j] * sc.at[i]
    <3>. HIDE DEF j
    <3>. QED BY <2>1, <2>2, <2>3
  <2>5. g[1 .. i] = Worth(sc, x, i)
    BY <1>3, <2>1
  <2>6. Worth(sc, x, i + 1) = Worth(sc, x, i) + x[i + 1] * sc.at[i]
    BY SumStep
  <2>. QED BY <2>4, <2>5, <2>6 DEF S
<1>. HIDE DEF D
<1>4. n \in D
  BY <1>0, <1>2, <1>3, Induction
<1>. QED BY <1>0, <1>4 DEF D

\* one limb changed
IsSet(y, sc, x, n, i, v) ==
    /\ Numbers(sc, x, n) /\ i \in 1 .. n /\ v \in Int /\ y[i] = v
    /\ \A k \in 1 .. n : k # i => y[k] = x[k]

LEMMA SumChange ==
    ASSUME NEW sc, NEW n, NEW x, NEW y, NEW i, NEW v, IsSet(y, sc, x, n, i, v)
    PROVE  /\ Numbers(sc, y, n)
           /\ Worth(sc, y, n) = Worth(sc, x, n) + (v - x[i]) * sc.at[i - 1]
<1>0. /\ Numbers(sc, x, n) /\ i \in 1 .. n /\ v \in Int /\ y[i] = v
      /\ \A k \in 1 .. n : k # i => y[k] = x[k]
  BY DEF IsSet
<1>1. IsScale(sc) /\ n \in 0 .. sc.last /\ n \in Nat /\ sc.last \in Nat /\ \A k \in 1 .. n : x[k] \in Int
  BY <1>0 DEF Numbers, IsScale
<1>. DEFINE d == v - x[i]
            one == [k \in 1 .. n |-> IF k = i THEN d ELSE 0]
            p == i - 1
<1>2. d \in Int
  BY <1>0, <1>1
<1>3. p \in Nat /\ p + 1 = i /\ p + 1 <= n /\ p <= n /\ i \in Nat /\ i <= n
  BY <1>0, <1>1
<1>. HIDE DEF d
<1>4. one[i] = d /\ \A k \in 1 .. n : one[k] \in Int /\ (k # i => one[k] = 0)
  BY <1>0, <1>2
<1>. HIDE DEF one
<1>5. Numbers(sc, one, n)
  BY <1>1, <1>4 DEF Numbers
<1>6. Numbers(sc, y, n)
  <2>1. \A k \in 1 .. n : y[k] \in Int
    BY <1>0, <1>1
  <2>. QED BY <1>1, <2>1 DEF Numbers
<1>7. Worth(sc, one, n) = Worth(sc, one, i)
  <2>1. \A k \in i + 1 .. n : one[k] = 0
    BY <1>3, <1>4
  <2>2. AreZero(sc, one, i, n)
    BY <1>3, <1>5, <2>1 DEF AreZero
  <2>. QED BY <2>2, SumZeros
<1>8. Worth(sc, one, p) = 0
  <2>0. \A k \in 1 .. p : k \in 1 .. n /\ k # i
    BY <1>1, <1>3
  <2>1. \A k \in 0 + 1 .. p : one[k] = 0
    BY <1>4, <2>0
  <2>2. Numbers(sc, one, p)
    <3>1. p \in 0 .. sc.last
      BY <1>1, <1>3
    <3>. QED BY <1>1, <1>4, <2>0, <3>1 DEF Numbers
  <2>3. AreZero(sc, one, 0, p)
    BY <1>3, <2>1, <2>2 DEF AreZero
  <2>4. Worth(sc, one, p) = Worth(sc, one, 0)
    BY <2>3, SumZeros
  <2>. QED BY <2>2, <2>4, SumNone
<1>. HIDE DEF p
<1>9. Worth(sc, one, p + 1) = Worth(sc, one, p) + one[p + 1] * sc.at[p] /\ sc.at[p] \in Nat \ {0}
  BY <1>3, <1>5, SumStep
<1>10. Worth(sc, one, n) = d * sc.at[p]
  <2>. DEFINE q == d * sc.at[p]
  <2>1. q \in Int
    BY <1>2, <1>9
  <2>2. Worth(sc, one, p + 1) = 0 + q
    BY <1>3, <1>4, <1>8, <1>9
  <2>. HIDE DEF q
  <2>. QED BY <1>3, <1>7, <2>1, <2>2 DEF q
<1>11. \A k \in 1 .. n : y[k] = 1 * x[k] + one[k]
  <2>. SUFFICES ASSUME NEW k \in 1 .. n PROVE y[k] = x[k] + one[k]
    BY <1>1
  <2>1. x[k] \in Int
    BY <1>1
  <2>2. CASE k = i
    BY <1>0, <1>2, <1>4, <2>1, <2>2 DEF d
  <2>3. CASE k # i
    BY <1>0, <1>4, <2>1, <2>3
  <2>. QED BY <2>2, <2>3
<1>12. IsMix(sc, y, 1, x, one, n)
  BY <1>0, <1>5, <1>6, <1>11 DEF IsMix
<1>13. Worth(sc, y, n) = 1 * Worth(sc, x, n) + Worth(sc, one, n)
  BY <1>12, SumMix
<1>14. Worth(sc, x, n) \in Int
  BY <1>0, SumInt
<1>15. Worth(sc, y, n) = Worth(sc, x, n) + d * sc.at[p]
  <2>. DEFINE q == d * sc.at[p]
  <2>. HIDE DEF q
  <2>1. Worth(sc, one, n) = q
    BY <1>10 DEF q
  <2>2. Worth(sc, y, n) = Worth(sc, x, n) + q
    BY <1>13, <1>14, <2>1
  <2>. QED BY <2>2 DEF q
<1>. QED BY <1>6, <1>15 DEF d, p

\* fewer limbs are worth no more
AreNatural(sc, x, n) == IsScale(sc) /\ n \in 0 .. sc.last /\ \A i \in 1 .. n : x[i] \in Nat

LEMMA SumPart ==
    ASSUME NEW sc, NEW n, NEW x, AreNatural(sc, x, n), NEW m \in 0 .. n
    PROVE  /\ Numbers(sc, x, n) /\ Worth(sc, x, m) \in Nat
           /\ Worth(sc, x, n) \in Nat /\ Worth(sc, x, m) <= Worth(sc, x, n)
<1>0. Numbers(sc, x, n) /\ n \in Nat /\ \A i \in 1 .. n : x[i] \in Nat
  BY DEF AreNatural, Numbers, IsScale
<1>. DEFINE D == {i \in Nat : i <= n => /\ Worth(sc, x, i) \in Nat
                                        /\ m <= i => Worth(sc, x, m) <= Worth(sc, x, i)}
<1>1. m \in Nat /\ m <= n
  BY <1>0
<1>2. 0 \in D
  <2>1. Worth(sc, x, 0) = 0
    BY <1>0, SumNone
  <2>2. m <= 0 => m = 0
    BY <1>1
  <2>. QED BY <2>1, <2>2
<1>3. ASSUME NEW i \in Nat, i \in D PROVE i + 1 \in D
  <2>. SUFFICES ASSUME i + 1 <= n
                PROVE  Worth(sc, x, i + 1) \in Nat /\ (m <= i + 1 => Worth(sc, x, m) <= Worth(sc, x, i + 1))
    OBVIOUS
  <2>. DEFINE s == Worth(sc, x, i)
              y == x[i + 1]
              w == sc.at[i]
              yw == y * w
  <2>1. i <= n /\ i + 1 \in 1 .. n
    BY <1>0
  <2>2. s \in Nat /\ (m <= i => Worth(sc, x, m) <= s)
    BY <1>3, <2>1
  <2>3. Worth(sc, x, i + 1) = s + yw /\ w \in Nat \ {0}
    BY <1>0, SumStep
  <2>4. y \in Nat
    BY <1>0, <2>1
  <2>. HIDE DEF y, w
  <2>5. yw \in Nat
    BY <2>3, <2>4
  <2>. HIDE DEF yw, s
  <2>6. Worth(sc, x, i + 1) \in Nat /\ s <= Worth(sc, x, i + 1)
    BY <2>2, <2>3, <2>5
  <2>7. CASE m <= i
    <3>1. Worth(sc, x, m) \in Int
      BY <1>0, <1>1, SumIs
    <3>. QED BY <2>2, <2>6, <2>7, <3>1
  <2>8. CASE ~(m <= i)
    <3>1. m <= i + 1 => m = i + 1
      BY <1>1, <2>8
    <3>. QED BY <2>6, <3>1
  <2>. QED BY <2>7, <2>8
<1>. HIDE DEF D
<1>4. Nat \subseteq D
  BY <1>2, <1>3, Induction
<1>5. Worth(sc, x, n) \in Nat /\ Worth(sc, x, m) <= Worth(sc, x, n)
  BY <1>0, <1>1, <1>4 DEF D
<1>6. Worth(sc, x, m) \in Nat
  BY <1>0, <1>1, <1>4 DEF D
<1>. QED BY <1>0, <1>5, <1>6

-----------------------------------------------------------------------------
(* X25519: numbers in limbs *)

LEMMA RadixPowers ==
    /\ Radix \in Nat /\ Radix >= 2 /\ Radix ^ 0 = 1
    /\ \A i \in 0 .. 2 * NLimbs :
          /\ Radix ^ i \in Nat \ {0} /\ Radix ^ (i + 1) \in Nat \ {0}
          /\ Radix ^ (i + 1) = Radix * Radix ^ i
<1>. DEFINE half == 2 ^ (LimbBits - 1)
            R == Radix
            power == [i \in 0 .. 2 * NLimbs + 1 |-> R ^ i]
            D == {n \in Nat : n <= 2 * NLimbs + 1 => power[n] \in Nat \ {0}}
<1>1. half \in Nat \ {0} /\ R = 2 * half /\ NLimbs \in Nat
  BY PowersAssumption, X25519Assumption
<1>2. R \in Nat /\ R >= 2
  <2>. HIDE DEF half, R
  <2>. QED BY <1>1
<1>3. power[0] = 1 /\ \A i \in 0 .. 2 * NLimbs : power[i + 1] = R * power[i]
  <2>1. 0 \in 0 .. 2 * NLimbs + 1
        /\ \A i \in 0 .. 2 * NLimbs : i \in 0 .. 2 * NLimbs + 1 /\ i + 1 \in 0 .. 2 * NLimbs + 1
    BY <1>1
  <2>. QED BY <2>1, PowersAssumption
<1>. HIDE DEF power, R, half
<1>4. 0 \in D
  BY <1>3
<1>5. ASSUME NEW n \in Nat, n \in D PROVE n + 1 \in D
  <2>. SUFFICES ASSUME n + 1 <= 2 * NLimbs + 1 PROVE power[n + 1] \in Nat \ {0}
    OBVIOUS
  <2>. DEFINE p == power[n]
  <2>1. n \in 0 .. 2 * NLimbs /\ p \in Nat \ {0}
    BY <1>1, <1>5
  <2>2. power[n + 1] = R * p
    BY <1>3, <2>1
  <2>. HIDE DEF p
  <2>3. R * p \in Nat \ {0}
    BY <1>2, <2>1
  <2>. QED BY <2>2, <2>3
<1>. HIDE DEF D
<1>6. Nat \subseteq D
  BY <1>4, <1>5, Induction
<1>7. \A i \in 0 .. 2 * NLimbs + 1 : power[i] \in Nat \ {0}
  BY <1>1, <1>6 DEF D
<1>8. \A i \in 0 .. 2 * NLimbs : i \in 0 .. 2 * NLimbs + 1 /\ i + 1 \in 0 .. 2 * NLimbs + 1
  BY <1>1
<1>9. \A i \in 0 .. 2 * NLimbs + 1 : power[i] = R ^ i
  BY DEF power
<1>10. 0 \in 0 .. 2 * NLimbs + 1
  BY <1>1
<1>11. R ^ 0 = 1
  BY <1>3, <1>9, <1>10
<1>12. ASSUME NEW i \in 0 .. 2 * NLimbs
       PROVE  R ^ i \in Nat \ {0} /\ R ^ (i + 1) \in Nat \ {0} /\ R ^ (i + 1) = R * R ^ i
  <2>. DEFINE j == i + 1
  <2>1. i \in 0 .. 2 * NLimbs + 1 /\ j \in 0 .. 2 * NLimbs + 1 /\ power[j] = R * power[i]
    BY <1>3, <1>8
  <2>. HIDE DEF j
  <2>2. R ^ i \in Nat \ {0} /\ R ^ j \in Nat \ {0} /\ R ^ j = R * R ^ i
    BY <1>7, <1>9, <2>1
  <2>. QED BY <2>2 DEF j
<1>. QED BY <1>2, <1>11, <1>12 DEF R

LimbScale == Scale(Radix, 2 * NLimbs, [i \in 0 .. 2 * NLimbs + 1 |-> Radix ^ i])

LEMMA LimbScaleIs == IsScale(LimbScale) /\ LimbScale.base = Radix /\ LimbScale.last = 2 * NLimbs
<1>. DEFINE at == [i \in 0 .. 2 * NLimbs + 1 |-> Radix ^ i]
            last == 2 * NLimbs
<1>1. NLimbs \in Nat /\ last \in Nat /\ Radix \in Nat \ {0}
  <2>1. Radix \in Nat /\ Radix >= 2 /\ NLimbs \in Nat
    BY RadixPowers, X25519Assumption
  <2>. HIDE DEF Radix
  <2>. QED BY <2>1
<1>2. at[0] = 1 /\ \A i \in 0 .. last : at[i + 1] = Radix * at[i]
  <2>1. 0 \in 0 .. 2 * NLimbs + 1
        /\ \A i \in 0 .. last : i \in 0 .. 2 * NLimbs + 1 /\ i + 1 \in 0 .. 2 * NLimbs + 1
    BY <1>1
  <2>. QED BY <2>1, RadixPowers
<1>. HIDE DEF at, last, Radix
<1>3. IsScale(Scale(Radix, last, at))
  BY <1>1, <1>2, ScaleIs
<1>. QED BY <1>3 DEF LimbScale, Scale, last, at

LEMMA LimbPowers ==
    /\ Radix \in Nat /\ Radix >= 2 /\ LimbScale.at[0] = 1
    /\ \A i \in 0 .. 2 * NLimbs :
          /\ LimbScale.at[i] \in Nat \ {0} /\ LimbScale.at[i + 1] \in Nat \ {0}
          /\ LimbScale.at[i + 1] = Radix * LimbScale.at[i]
          /\ LimbScale.at[i] = Radix ^ i
<1>1. \A i \in 0 .. 2 * NLimbs : LimbScale.at[i] = Radix ^ i
  <2>1. \A i \in 0 .. 2 * NLimbs : i \in 0 .. 2 * NLimbs + 1
    BY X25519Assumption
  <2>. QED BY <2>1 DEF LimbScale, Scale
<1>. QED BY <1>1, LimbScaleIs, RadixPowers DEF IsScale

\* The value of an element is the sum of its limbs.
LEMMA ValueIs ==
    ASSUME NEW n, NEW x, Numbers(LimbScale, x, n), DOMAIN x = 1 .. n
    PROVE  Value(x) = Worth(LimbScale, x, n)
<1>. DEFINE ids == [i \in DOMAIN x |-> i]
            iter[S \in SUBSET (DOMAIN ids)] ==
               IF S = {} THEN 0
               ELSE LET j == Max(S) IN iter[S \ {j}] + x[ids[j]] * Radix ^ (ids[j] - 1)
<1>0. n \in Nat /\ DOMAIN ids = 1 .. n /\ \A i \in 1 .. n : ids[i] = i
  BY DEF Numbers, IsScale
<1>1. \A i \in 1 .. n : LimbScale.at[i - 1] = Radix ^ (i - 1)
  <2>. SUFFICES ASSUME NEW i \in 1 .. n PROVE LimbScale.at[i - 1] = Radix ^ (i - 1)
    OBVIOUS
  <2>1. n \in 0 .. 2 * NLimbs
    BY LimbScaleIs DEF Numbers
  <2>2. i - 1 \in 0 .. 2 * NLimbs
    BY <2>1, X25519Assumption
  <2>. QED BY <2>2, LimbScaleIs, LimbPowers
<1>2. PICK g : PartSum(g, LimbScale, x, n) /\ \A S \in SUBSET (1 .. n) : S # {} => Max(S) \in 1 .. n
  BY SumFolds
<1>3. g = [S \in SUBSET (DOMAIN ids) |->
              IF S = {} THEN 0 ELSE g[S \ {Max(S)}] + x[ids[Max(S)]] * Radix ^ (ids[Max(S)] - 1)]
  <2>1. ASSUME NEW S \in SUBSET (1 .. n), S # {}
        PROVE  /\ ids[Max(S)] = Max(S)
               /\ LimbScale.at[Max(S) - 1] = Radix ^ (Max(S) - 1)
    BY <1>0, <1>1, <1>2, <2>1
  <2>2. g = [S \in SUBSET (1 .. n) |-> g[S]]
    BY <1>2 DEF PartSum
  <2>. HIDE DEF ids
  <2>3. ASSUME NEW S \in SUBSET (1 .. n), S # {}
        PROVE  g[S] = g[S \ {Max(S)}] + x[ids[Max(S)]] * Radix ^ (ids[Max(S)] - 1)
    <3>1. g[S] = g[S \ {Max(S)}] + x[Max(S)] * LimbScale.at[Max(S) - 1]
      BY <1>2, <2>3 DEF PartSum
    <3>2. /\ ids[Max(S)] = Max(S)
          /\ LimbScale.at[Max(S) - 1] = Radix ^ (Max(S) - 1)
      BY <2>1, <2>3
    <3>. QED BY <3>1, <3>2
  <2>4. g[{}] = 0
    BY <1>2 DEF PartSum
  <2>. QED BY <1>0, <2>2, <2>3, <2>4
<1>4. iter = CHOOSE f : f = [S \in SUBSET (DOMAIN ids) |->
              IF S = {} THEN 0 ELSE f[S \ {Max(S)}] + x[ids[Max(S)]] * Radix ^ (ids[Max(S)] - 1)]
  BY Zenon
<1>5. iter = [S \in SUBSET (DOMAIN ids) |->
              IF S = {} THEN 0 ELSE iter[S \ {Max(S)}] + x[ids[Max(S)]] * Radix ^ (ids[Max(S)] - 1)]
  <2>. HIDE DEF iter, ids
  <2>. QED BY <1>3, <1>4
<1>6. Value(x) = iter[DOMAIN ids]
  BY DEF Value, FoldLeftDomain, FoldLeft, MapThenFoldSet
<1>. HIDE DEF iter
<1>7. PartSum(iter, LimbScale, x, n)
  <2>1. ASSUME NEW S \in SUBSET (1 .. n), S # {}
        PROVE  /\ ids[Max(S)] = Max(S)
               /\ LimbScale.at[Max(S) - 1] = Radix ^ (Max(S) - 1)
    BY <1>0, <1>1, <1>2, <2>1
  <2>. HIDE DEF ids
  <2>. QED BY <1>0, <1>5, <2>1 DEF PartSum
<1>8. iter[1 .. n] = Worth(LimbScale, x, n)
  BY <1>7, SumFolded
<1>. QED BY <1>0, <1>6, <1>8

\* what Ripple makes of terms and a carry: limbs and a carry worth the same
IsRipple(r, terms, carry, n) ==
    /\ r.limbs \in Seq(0 .. Radix - 1) /\ Len(r.limbs) = n /\ r.carry \in Int
    /\ Worth(LimbScale, r.limbs, n) + r.carry * LimbScale.at[n] = Worth(LimbScale, terms, n) + carry

RippleTurn(acc, t) ==
    [limbs |-> Append(acc.limbs, (t + acc.carry) % Radix), carry |-> (t + acc.carry) \div Radix]

Ripples == [limbs : Seq(0 .. Radix - 1), carry : Int]

\* turn by turn
IsRippling(a, terms, carry, n) ==
    /\ a[0] = [limbs |-> <<>>, carry |-> carry] /\ a[n] = Ripple(terms, carry)
    /\ \A i \in 1 .. n : a[i] = RippleTurn(a[i - 1], terms[i])

LEMMA RippleTurns ==
    ASSUME NEW n, NEW terms, Numbers(LimbScale, terms, n), DOMAIN terms = 1 .. n, NEW carry \in Int
    PROVE  \E a : IsRippling(a, terms, carry, n)
<1>. DEFINE start == [limbs |-> <<>>, carry |-> carry]
            iter[S \in SUBSET (DOMAIN terms)] ==
               IF S = {} THEN start
               ELSE LET x == Max(S) IN RippleTurn(iter[S \ {x}], terms[x])
            F == [p \in Nat \X Ripples |-> IF p[1] \in 1 .. n THEN RippleTurn(p[2], terms[p[1]]) ELSE p[2]]
<1>0. n \in Nat /\ \A i \in 1 .. n : terms[i] \in Int
  BY X25519Assumption, LimbScaleIs DEF Numbers
<1>1. ASSUME NEW r \in Ripples, NEW t \in Int PROVE RippleTurn(r, t) \in Ripples
  <2>. DEFINE v == t + r.carry
  <2>1. v \in Int /\ r.limbs \in Seq(0 .. Radix - 1) /\ Radix \in Nat \ {0}
    BY LimbPowers DEF Ripples
  <2>. HIDE DEF v
  <2>2. v % Radix \in 0 .. Radix - 1 /\ v \div Radix \in Int
    BY <2>1, DividedIs
  <2>. DEFINE S == 0 .. Radix - 1
              y == v % Radix
  <2>3. y \in S /\ r.limbs \in Seq(S)
    BY <2>1, <2>2
  <2>. HIDE DEF S, y
  <2>4. Append(r.limbs, y) \in Seq(S)
    BY <2>3
  <2>. QED BY <2>2, <2>4 DEF RippleTurn, Ripples, v, S, y
<1>2. start \in Ripples
  BY DEF Ripples
<1>3. F \in [Nat \X Ripples -> Ripples]
  <2>1. \A p \in Nat \X Ripples : p[1] \in Nat /\ p[2] \in Ripples
    OBVIOUS
  <2>. QED BY <1>0, <1>1, <2>1
<1>. HIDE DEF start
<1>4. PICK g \in [SUBSET (1 .. n) -> Ripples] : Folds(g, F, start, n)
  <2>. HIDE DEF F
  <2>. QED BY <1>0, <1>2, <1>3, FoldExists
<1>5. ASSUME NEW S \in SUBSET (1 .. n), S # {}
      PROVE  Max(S) \in 1 .. n /\ Max(S) \in Nat /\ g[S \ {Max(S)}] \in Ripples
  <2>1. Max(S) \in S
    BY <1>0, <1>5, MaxIn
  <2>2. Max(S) \in 1 .. n /\ S \ {Max(S)} \in SUBSET (1 .. n)
    BY <2>1
  <2>. QED BY <1>0, <2>2
<1>6. g = [S \in SUBSET (DOMAIN terms) |->
              IF S = {} THEN start ELSE RippleTurn(g[S \ {Max(S)}], terms[Max(S)])]
  <2>1. ASSUME NEW S \in SUBSET (1 .. n), S # {}
        PROVE  g[S] = RippleTurn(g[S \ {Max(S)}], terms[Max(S)])
    <3>1. <<Max(S), g[S \ {Max(S)}]>> \in Nat \X Ripples
      BY <1>5, <2>1
    <3>2. g[S] = F[<<Max(S), g[S \ {Max(S)}]>>]
      <4>. HIDE DEF F
      <4>. QED BY <1>4, <2>1 DEF Folds
    <3>. QED BY <1>5, <2>1, <3>1, <3>2
  <2>2. g[{}] = start
    <3>. HIDE DEF F
    <3>. QED BY <1>4 DEF Folds
  <2>. QED BY <1>4, <2>1, <2>2
<1>7. iter = CHOOSE f : f = [S \in SUBSET (DOMAIN terms) |->
              IF S = {} THEN start ELSE RippleTurn(f[S \ {Max(S)}], terms[Max(S)])]
  BY Zenon
<1>8. iter = [S \in SUBSET (DOMAIN terms) |->
              IF S = {} THEN start ELSE RippleTurn(iter[S \ {Max(S)}], terms[Max(S)])]
  <2>. HIDE DEF iter
  <2>. QED BY <1>6, <1>7
<1>9. Ripple(terms, carry) = iter[DOMAIN terms]
  BY DEF Ripple, FoldLeft, MapThenFoldSet, RippleTurn, start
<1>. DEFINE a == [i \in 0 .. n |-> iter[1 .. i]]
<1>. HIDE DEF iter
<1>10. a[0] = start /\ a[n] = Ripple(terms, carry)
  <2>1. 1 .. 0 = {} /\ {} \in SUBSET (DOMAIN terms) /\ 0 \in 0 .. n /\ n \in 0 .. n
    BY <1>0
  <2>2. iter[{}] = start
    BY <1>8
  <2>. QED BY <1>9, <2>1, <2>2
<1>11. ASSUME NEW i \in 1 .. n
       PROVE  a[i] = RippleTurn(a[i - 1], terms[i])
  <2>1. 1 .. i \in SUBSET Int /\ i \in 1 .. i /\ \A x \in 1 .. i : x <= i
    OBVIOUS
  <2>2. Max(1 .. i) = i
    BY <2>1, MaxIs
  <2>3. 1 .. i # {} /\ (1 .. i) \ {i} = 1 .. (i - 1) /\ i \in 0 .. n /\ i - 1 \in 0 .. n
        /\ 1 .. i \in SUBSET (DOMAIN terms)
    <3>1. i \in Nat /\ i >= 1 /\ i <= n
      BY <1>0
    <3>2. (1 .. i) \ {i} = 1 .. (i - 1)
      BY <3>1
    <3>3. i \in 0 .. n /\ i - 1 \in 0 .. n /\ 1 .. i \subseteq 1 .. n
      BY <1>0, <3>1
    <3>. QED BY <1>0, <2>1, <3>2, <3>3
  <2>4. iter[1 .. i] = RippleTurn(iter[(1 .. i) \ {Max(1 .. i)}], terms[Max(1 .. i)])
    BY <1>8, <2>3
  <2>. QED BY <2>2, <2>3, <2>4
<1>. HIDE DEF a
<1>. QED BY <1>10, <1>11 DEF IsRippling, start

LEMMA RippleIs ==
    ASSUME NEW n, NEW terms, Numbers(LimbScale, terms, n), DOMAIN terms = 1 .. n, NEW carry \in Int
    PROVE  IsRipple(Ripple(terms, carry), terms, carry, n)
<1>0. PICK a : IsRippling(a, terms, carry, n)
  BY RippleTurns
<1>1. /\ a[0] = [limbs |-> <<>>, carry |-> carry] /\ a[n] = Ripple(terms, carry)
      /\ \A i \in 1 .. n : a[i] = RippleTurn(a[i - 1], terms[i])
  BY <1>0 DEF IsRippling
<1>2. n \in Nat /\ n <= 2 * NLimbs /\ NLimbs \in Nat /\ Radix \in Nat \ {0} /\ LimbScale.at[0] = 1
  BY X25519Assumption, LimbPowers, LimbScaleIs DEF Numbers
<1>. DEFINE D == {i \in Nat : i <= n => IsRipple(a[i], terms, carry, i)}
<1>3. 0 \in D
  <2>1. a[0].limbs = <<>> /\ a[0].carry = carry
    BY <1>1
  <2>2. Numbers(LimbScale, <<>>, 0)
    BY <1>2, LimbScaleIs DEF Numbers
  <2>3. Worth(LimbScale, <<>>, 0) = 0 /\ Worth(LimbScale, terms, 0) = 0
    BY <2>2, SumNone
  <2>4. <<>> \in Seq(0 .. Radix - 1) /\ Len(<<>>) = 0
    OBVIOUS
  <2>5. Worth(LimbScale, a[0].limbs, 0) + a[0].carry * LimbScale.at[0] = Worth(LimbScale, terms, 0) + carry
    BY <1>2, <2>1, <2>3
  <2>6. IsRipple(a[0], terms, carry, 0)
    BY <2>1, <2>4, <2>5 DEF IsRipple
  <2>. QED BY <2>6
<1>4. ASSUME NEW i \in Nat, i \in D PROVE i + 1 \in D
  <2>. SUFFICES ASSUME i + 1 <= n PROVE IsRipple(a[i + 1], terms, carry, i + 1)
    OBVIOUS
  <2>. DEFINE j == i + 1
              S == 0 .. Radix - 1
              old == a[i].limbs
              c == a[i].carry
              v == terms[j] + c
              new == Append(old, v % Radix)
  <2>1. j \in 1 .. n /\ j - 1 = i /\ i <= n
    BY <1>2
  <2>2. IsRipple(a[i], terms, carry, i)
    BY <1>4, <2>1
  <2>3. /\ old \in Seq(S) /\ Len(old) = i /\ c \in Int
        /\ Worth(LimbScale, old, i) + c * LimbScale.at[i] = Worth(LimbScale, terms, i) + carry
    BY <2>2 DEF IsRipple
  <2>4. Worth(LimbScale, terms, j) = Worth(LimbScale, terms, i) + terms[j] * LimbScale.at[i] /\ terms[j] \in Int
        /\ Worth(LimbScale, terms, i) \in Int /\ LimbScale.at[i] \in Nat \ {0}
           /\ LimbScale.at[j] = Radix * LimbScale.at[i]
    <3>1. i + 1 <= n /\ i \in Nat
      BY <2>1
    <3>2. IsStep(LimbScale, terms, i)
      BY <3>1, SumSteps
    <3>. QED BY <3>2, LimbScaleIs DEF IsStep
  <2>5. v \in Int /\ v = (v \div Radix) * Radix + (v % Radix) /\ v % Radix \in S /\ v \div Radix \in Int
    <3>1. v \in Int
      BY <2>3, <2>4
    <3>. HIDE DEF v
    <3>. QED BY <1>2, <3>1, DividedIs
  <2>6. a[j] = [limbs |-> new, carry |-> v \div Radix]
    <3>. HIDE DEF j
    <3>. QED BY <1>1, <2>1 DEF RippleTurn
  <2>. DEFINE q == v \div Radix
              y == v % Radix
  <2>7. a[j].limbs = new /\ a[j].carry = q
    BY <2>6
  <2>. HIDE DEF S, old, c, q, y, j
  <2>8. /\ new \in Seq(S) /\ Len(new) = j /\ new[j] = y
        /\ \A k \in 1 .. i : new[k] = old[k]
    <3>1. y \in S
      BY <2>5 DEF y
    <3>2. new = Append(old, y)
      BY DEF y
    <3>. HIDE DEF new
    <3>. QED BY <2>3, <3>1, <3>2 DEF j
  <2>. HIDE DEF new, v
  <2>9. Numbers(LimbScale, new, j) /\ Numbers(LimbScale, old, i) /\ Numbers(LimbScale, new, i)
    <3>1. \A k \in 1 .. j : new[k] \in S
      BY <2>8
    <3>2. \A k \in 1 .. i : old[k] \in S
      BY <2>3
    <3>3. S \subseteq Int /\ i \in 0 .. 2 * NLimbs /\ j \in 0 .. 2 * NLimbs /\ \A k \in 1 .. i : k \in 1 .. j
      BY <1>2, <2>1 DEF S, j
    <3>. QED BY <3>1, <3>2, <3>3, LimbScaleIs DEF Numbers
  <2>10. Worth(LimbScale, new, i) = Worth(LimbScale, old, i)
    <3>1. AreSame(LimbScale, new, old, i)
      BY <2>8, <2>9 DEF AreSame
    <3>. QED BY <3>1, SumSame
  <2>11. Worth(LimbScale, new, j) = Worth(LimbScale, new, i) + y * LimbScale.at[i]
         /\ Worth(LimbScale, new, i) \in Int /\ y \in Int
    <3>1. Worth(LimbScale, new, i + 1) = Worth(LimbScale, new, i) + new[i + 1] * LimbScale.at[i]
          /\ Worth(LimbScale, new, i) \in Int /\ new[i + 1] \in Int
      <4>1. i + 1 <= j
        BY DEF j
      <4>. QED BY <2>9, <4>1, SumStep
    <3>. QED BY <2>8, <3>1 DEF j
  <2>12. Worth(LimbScale, new, j) + q * LimbScale.at[j] = Worth(LimbScale, terms, j) + carry
    <3>. DEFINE w == LimbScale.at[i]
                s == Worth(LimbScale, new, i)
                t == Worth(LimbScale, terms, i)
                x == terms[j]
    <3>1. /\ s + c * w = t + carry /\ Worth(LimbScale, terms, j) = t + x * w
             /\ Worth(LimbScale, new, j) = s + y * w
          /\ x + c = q * Radix + y /\ LimbScale.at[j] = Radix * w
      BY <2>3, <2>4, <2>5, <2>10, <2>11 DEF v, q, y
    <3>2. /\ w \in Nat /\ s \in Int /\ t \in Int /\ x \in Int /\ c \in Int /\ y \in Int /\ q \in Int
          /\ Radix \in Nat
      BY <1>2, <2>3, <2>4, <2>5, <2>11 DEF q
    <3>. HIDE DEF w, s, t, x
    <3>3. x * w + c * w = (q * Radix + y) * w
      <4>1. x * w + c * w = (x + c) * w
        BY <3>2
      <4>. QED BY <3>1, <4>1
    <3>4. (q * Radix + y) * w = q * (Radix * w) + y * w
      BY <3>2
    <3>. DEFINE xw == x * w
                cw == c * w
                yw == y * w
                qw == q * (Radix * w)
    <3>5. xw \in Int /\ cw \in Int /\ yw \in Int /\ qw \in Int
      <4>1. Radix * w \in Int
        BY <3>2
      <4>. QED BY <3>2, <4>1
    <3>6. s + cw = t + carry /\ xw + cw = qw + yw
      BY <3>1, <3>3, <3>4
    <3>7. Worth(LimbScale, terms, j) = t + xw /\ Worth(LimbScale, new, j) = s + yw /\ q * LimbScale.at[j] = qw
      BY <3>1
    <3>. HIDE DEF xw, cw, yw, qw
    <3>8. (s + yw) + qw = (t + xw) + carry
      BY <3>2, <3>5, <3>6
    <3>. QED BY <3>7, <3>8
  <2>13. q \in Int
    BY <2>5 DEF q
  <2>14. IsRipple(a[j], terms, carry, j)
    BY <2>7, <2>8, <2>12, <2>13 DEF IsRipple, S
  <2>. QED BY <2>14 DEF j
<1>. HIDE DEF D
<1>5. n \in D
  BY <1>2, <1>3, <1>4, Induction
<1>. QED BY <1>1, <1>2, <1>5 DEF D

Half == 2 ^ (LimbBits - 1)
Top == 2 ^ (Bits - 1)

LEMMA Sizes ==
    /\ NLimbs \in Nat /\ NLimbs >= 2 /\ NLimbs - 1 \in 0 .. 2 * NLimbs /\ NLimbs \in 0 .. 2 * NLimbs
    /\ Half \in Nat \ {0} /\ Radix = 2 * Half /\ Radix \in Nat /\ Top \in Nat \ {0}
    /\ LimbScale.at[NLimbs - 1] \in Nat \ {0} /\ Top = Half * LimbScale.at[NLimbs - 1]
    /\ LimbScale.at[NLimbs] = 2 * Top
    /\ Excess \in Nat \ {0} /\ Excess * (4 * Excess + 1) < Radix
    /\ Radix + 2 * Excess <= Top /\ 4 * Excess + 1 < Radix
    /\ P = Top - Excess /\ P \in Nat \ {0}
<1>1. NLimbs \in Nat /\ NLimbs >= 2 /\ Excess \in Nat \ {0} /\ Excess * (4 * Excess + 1) < Radix
  BY X25519Assumption
<1>4. NLimbs - 1 \in 0 .. 2 * NLimbs /\ NLimbs \in 0 .. 2 * NLimbs /\ NLimbs - 2 \in 0 .. 2 * NLimbs
      /\ (NLimbs - 2) + 1 = NLimbs - 1 /\ (NLimbs - 1) + 1 = NLimbs
  BY <1>1
<1>2. Half \in Nat \ {0} /\ Radix = 2 * Half /\ Top = Half * LimbScale.at[NLimbs - 1]
  <2>1. LimbScale.at[NLimbs - 1] = Radix ^ (NLimbs - 1)
    BY <1>4, LimbPowers
  <2>. QED BY <2>1, PowersAssumption DEF Half, Top
<1>3. Radix \in Nat
  BY <1>2
<1>. DEFINE M == LimbScale.at[NLimbs - 1]
            L == LimbScale.at[NLimbs - 2]
<1>5. M \in Nat \ {0} /\ L \in Nat \ {0} /\ M = Radix * L
  <2>. DEFINE k == NLimbs - 2
  <2>1. k \in 0 .. 2 * NLimbs /\ k + 1 = NLimbs - 1
    BY <1>4
  <2>. HIDE DEF k
  <2>2. LimbScale.at[k + 1] \in Nat \ {0} /\ LimbScale.at[k] \in Nat \ {0}
        /\ LimbScale.at[k + 1] = Radix * LimbScale.at[k]
    BY <2>1, LimbPowers
  <2>. QED BY <2>1, <2>2 DEF k
<1>6. LimbScale.at[NLimbs] = Radix * M
  <2>. DEFINE k == NLimbs - 1
  <2>1. k \in 0 .. 2 * NLimbs /\ k + 1 = NLimbs
    BY <1>4
  <2>. HIDE DEF k
  <2>2. LimbScale.at[k + 1] = Radix * LimbScale.at[k]
    BY <2>1, LimbPowers
  <2>. QED BY <2>1, <2>2 DEF k
<1>. HIDE DEF M, L
<1>7. Top = Half * M
  BY <1>2 DEF M
<1>8. Top \in Nat \ {0} /\ Radix * M = 2 * Top
  BY <1>2, <1>5, <1>7
<1>9. 4 * Excess + 1 < Radix
  <2>. DEFINE f == 4 * Excess + 1
  <2>1. f \in Nat /\ Excess >= 1
    BY <1>1
  <2>. HIDE DEF f
  <2>2. Excess * f >= f
    BY <1>1, <2>1
  <2>3. Excess * f < Radix /\ Excess * f \in Nat
    BY <1>1, <2>1 DEF f
  <2>4. f < Radix
    BY <1>3, <2>1, <2>2, <2>3
  <2>. QED BY <2>4 DEF f
<1>10. Radix + 2 * Excess <= Top
  <2>1. Half >= 3 /\ 2 * Excess < Radix
    BY <1>1, <1>2, <1>3, <1>9
  <2>2. M >= Radix
    BY <1>3, <1>5
  <2>3. Half * M >= 3 * M
    BY <1>2, <1>5, <2>1
  <2>. QED BY <1>1, <1>3, <1>5, <1>7, <1>8, <2>1, <2>2, <2>3
<1>11. P = Top - Excess
  BY DEF P, Top
<1>12. P \in Nat \ {0}
  BY <1>1, <1>3, <1>8, <1>9, <1>10, <1>11
<1>. QED BY <1>1, <1>2, <1>3, <1>4, <1>5, <1>6, <1>8, <1>9, <1>10, <1>11, <1>12 DEF M

\* a number in NLimbs limbs
IsElement(x) == AreLimbs(LimbScale, x, NLimbs) /\ DOMAIN x = 1 .. NLimbs

LEMMA ElementIs ==
    ASSUME NEW x, IsElement(x)
    PROVE  /\ Numbers(LimbScale, x, NLimbs) /\ Value(x) = Worth(LimbScale, x, NLimbs)
           /\ Value(x) \in 0 .. 2 * Top - 1
<1>1. AreLimbs(LimbScale, x, NLimbs) /\ DOMAIN x = 1 .. NLimbs
  BY DEF IsElement
<1>2. Numbers(LimbScale, x, NLimbs)
  BY <1>1, LimbsAreNumbers
<1>3. Value(x) = Worth(LimbScale, x, NLimbs)
  BY <1>1, <1>2, ValueIs
<1>4. Worth(LimbScale, x, NLimbs) \in 0 .. LimbScale.at[NLimbs] - 1
  BY <1>1, SumBound
<1>. QED BY <1>2, <1>3, <1>4, Sizes

LEMMA RippleElement ==
    ASSUME NEW terms, Numbers(LimbScale, terms, NLimbs), DOMAIN terms = 1 .. NLimbs, NEW carry \in Int
    PROVE  LET r == Ripple(terms, carry) IN
           /\ IsElement(r.limbs) /\ r.carry \in Int
           /\ Value(r.limbs) + r.carry * (2 * Top) = Worth(LimbScale, terms, NLimbs) + carry
<1>. DEFINE r == Ripple(terms, carry)
<1>1. IsRipple(r, terms, carry, NLimbs)
  BY RippleIs
<1>. HIDE DEF r
<1>2. /\ r.limbs \in Seq(0 .. Radix - 1) /\ Len(r.limbs) = NLimbs /\ r.carry \in Int
      /\ Worth(LimbScale, r.limbs, NLimbs) + r.carry * LimbScale.at[NLimbs]
           = Worth(LimbScale, terms, NLimbs) + carry
  BY <1>1 DEF IsRipple
<1>3. IsElement(r.limbs)
  <2>. DEFINE S == 0 .. Radix - 1
              l == r.limbs
  <2>1. l \in Seq(S) /\ Len(l) = NLimbs
    BY <1>2
  <2>. HIDE DEF S, l
  <2>2. DOMAIN l = 1 .. NLimbs /\ \A i \in 1 .. NLimbs : l[i] \in S
    BY <2>1
  <2>. QED BY <2>2, Sizes, LimbScaleIs DEF IsElement, AreLimbs, S, l
<1>4. Value(r.limbs) = Worth(LimbScale, r.limbs, NLimbs)
  BY <1>3, ElementIs
<1>5. LimbScale.at[NLimbs] = 2 * Top
  BY Sizes
<1>. QED BY <1>2, <1>3, <1>4, <1>5 DEF r

\* z is v but for b times the prime, and v is b halves of the range and a rest
IsReduced(z, v, b) ==
    /\ IsElement(z) /\ v \in Int /\ b \in 0 .. 4 * Excess + 1
    /\ v - b * Top \in 0 .. Top - 1
    /\ Value(z) = v - b * P /\ Value(z) < Top + Radix

LEMMA PropagateIs ==
    ASSUME NEW x, IsElement(x), NEW over \in 0 .. 2 * Excess
    PROVE  \E b : /\ IsReduced(Propagate(x, over), Value(x) + over * (2 * Top), b)
                  /\ over = 0 => b \in 0 .. 1
<1>. DEFINE N == NLimbs
            top == x[N]
            hi == top \div Half
            lo == top % Half
            b == hi + 2 * over
            y == [x EXCEPT ![N] = lo]
            M == LimbScale.at[N - 1]
            low == Worth(LimbScale, x, N - 1)
<1>0. /\ N \in Nat /\ N >= 2 /\ N - 1 \in 0 .. 2 * N /\ N \in 0 .. 2 * N
      /\ Half \in Nat \ {0} /\ Radix = 2 * Half /\ Radix \in Nat /\ Top \in Nat \ {0}
      /\ M \in Nat \ {0} /\ Top = Half * M
      /\ Excess \in Nat \ {0} /\ Excess * (4 * Excess + 1) < Radix
      /\ Radix + 2 * Excess <= Top /\ 4 * Excess + 1 < Radix
      /\ P = Top - Excess
  BY Sizes
<1>1. AreLimbs(LimbScale, x, N) /\ DOMAIN x = 1 .. N /\ Numbers(LimbScale, x, N)
      /\ Value(x) = Worth(LimbScale, x, N)
  BY ElementIs DEF IsElement
<1>2. top \in 0 .. Radix - 1
  <2>1. N \in 1 .. N
    BY <1>0
  <2>. QED BY <1>1, <2>1, LimbScaleIs DEF AreLimbs
<1>3. hi \in 0 .. 1 /\ lo \in 0 .. Half - 1 /\ top = hi * Half + lo
  <2>1. hi \in Int /\ lo \in 0 .. Half - 1 /\ top = hi * Half + lo
    <3>1. top \in Int
      BY <1>0, <1>2
    <3>. HIDE DEF top
    <3>. QED BY <1>0, <3>1, DividedIs
  <2>. HIDE DEF hi, lo, top
  <2>2. hi >= 2 => hi * Half >= 2 * Half
    BY <1>0, <2>1
  <2>3. hi <= -1 => hi * Half <= -1 * Half
    BY <1>0, <2>1
  <2>4. hi * Half \in Int
    BY <1>0, <2>1
  <2>. QED BY <1>0, <1>2, <2>1, <2>2, <2>3, <2>4
<1>4. b \in 0 .. 4 * Excess + 1 /\ b % Radix = b /\ (over = 0 => b \in 0 .. 1)
  <2>. HIDE DEF hi
  <2>1. b \in 0 .. 4 * Excess + 1 /\ (over = 0 => b \in 0 .. 1)
    BY <1>0, <1>3
  <2>. HIDE DEF b
  <2>2. b \in 0 .. Radix - 1 /\ Radix \in Nat \ {0} /\ b = 0 * Radix + b
    BY <1>0, <2>1
  <2>3. IsDivision(b, Radix, 0, b)
    BY <2>2 DEF IsDivision
  <2>. QED BY <2>1, <2>3, Divided
<1>. DEFINE c == b * Excess
<1>5. c \in 0 .. Radix - 1 /\ c % Radix = c
  <2>. DEFINE f == 4 * Excess + 1
  <2>1. b \in 0 .. f /\ f \in Nat /\ Excess * f < Radix
    BY <1>0, <1>4
  <2>. HIDE DEF f, b
  <2>2. b * Excess <= f * Excess /\ f * Excess = Excess * f /\ b * Excess \in Nat /\ f * Excess \in Nat
    BY <1>0, <2>1
  <2>3. c \in 0 .. Radix - 1
    BY <1>0, <2>1, <2>2
  <2>. HIDE DEF c
  <2>4. Radix \in Nat \ {0} /\ c = 0 * Radix + c
    BY <1>0, <2>3
  <2>5. IsDivision(c, Radix, 0, c)
    BY <2>3, <2>4 DEF IsDivision
  <2>. QED BY <2>3, <2>5, Divided
<1>6. /\ AreLimbs(LimbScale, y, N) /\ DOMAIN y = 1 .. N /\ Numbers(LimbScale, y, N)
      /\ y[N] = lo /\ \A i \in 1 .. N - 1 : y[i] = x[i]
  <2>1. y[N] = lo /\ (\A i \in 1 .. N - 1 : y[i] = x[i]) /\ DOMAIN y = 1 .. N
    <3>1. N \in 1 .. N /\ \A i \in 1 .. N - 1 : i \in 1 .. N /\ i # N
      BY <1>0
    <3>. HIDE DEF lo, N
    <3>. QED BY <1>1, <3>1
  <2>. HIDE DEF lo, y
  <2>2. \A i \in 1 .. N : y[i] \in 0 .. Radix - 1
    <3>1. \A i \in 1 .. N : i = N \/ i \in 1 .. N - 1
      BY <1>0
    <3>2. lo \in 0 .. Radix - 1
      BY <1>0, <1>3
    <3>3. \A i \in 1 .. N : x[i] \in 0 .. Radix - 1
      BY <1>1, LimbScaleIs DEF AreLimbs
    <3>4. \A i \in 1 .. N - 1 : i \in 1 .. N
      BY <1>0
    <3>. QED BY <2>1, <3>1, <3>2, <3>3, <3>4
  <2>3. AreLimbs(LimbScale, y, N)
    BY <1>0, <2>2, LimbScaleIs DEF AreLimbs
  <2>. QED BY <2>1, <2>3, LimbsAreNumbers
<1>7. /\ Worth(LimbScale, x, N) = low + top * M /\ Worth(LimbScale, y, N) = low + lo * M /\ low \in 0 .. M - 1
  <2>. DEFINE k == N - 1
  <2>. HIDE DEF y, lo
  <2>1. k \in Nat /\ k + 1 <= N /\ k + 1 = N /\ k \in 0 .. 2 * N
    BY <1>0
  <2>2. AreLimbs(LimbScale, x, k) /\ Numbers(LimbScale, x, k) /\ AreSame(LimbScale, y, x, k)
    <3>1. \A i \in 1 .. k : i \in 1 .. N
      BY <1>0
    <3>2. AreLimbs(LimbScale, x, k) /\ AreLimbs(LimbScale, y, k)
      BY <1>1, <1>6, <2>1, <3>1, LimbScaleIs DEF AreLimbs
    <3>. HIDE DEF k
    <3>3. Numbers(LimbScale, x, k) /\ Numbers(LimbScale, y, k)
      BY <3>2, LimbsAreNumbers
    <3>. QED BY <1>6, <3>2, <3>3 DEF AreSame, k
  <2>. HIDE DEF k
  <2>3. Worth(LimbScale, y, k) = Worth(LimbScale, x, k) /\ Worth(LimbScale, x, k) \in 0 .. LimbScale.at[k] - 1
    BY <2>2, SumSame, SumBound
  <2>4. Worth(LimbScale, x, k + 1) = Worth(LimbScale, x, k) + x[k + 1] * LimbScale.at[k]
    BY <1>1, <2>1, SumStep
  <2>5. Worth(LimbScale, y, k + 1) = Worth(LimbScale, y, k) + y[k + 1] * LimbScale.at[k]
    BY <1>6, <2>1, SumStep
  <2>6. Worth(LimbScale, x, N) = low + top * M /\ Worth(LimbScale, y, N) = low + y[N] * M
    BY <2>1, <2>3, <2>4, <2>5 DEF k
  <2>7. low \in 0 .. M - 1
    BY <2>3 DEF k
  <2>. QED BY <1>6, <2>6, <2>7
<1>. DEFINE wy == Worth(LimbScale, y, N)
            wx == Worth(LimbScale, x, N)
<1>8. wy \in 0 .. Top - 1 /\ wx = wy + hi * Top
  <2>. HIDE DEF hi, lo, top, M, low
  <2>1. top * M = hi * Top + lo * M
    <3>1. top * M = (hi * Half + lo) * M
      BY <1>3
    <3>2. (hi * Half + lo) * M = hi * (Half * M) + lo * M
      BY <1>0, <1>3
    <3>. QED BY <1>0, <3>1, <3>2
  <2>2. lo * M \in Nat /\ lo * M <= (Half - 1) * M /\ (Half - 1) * M = Half * M - M
    <3>1. Half - lo - 1 \in Nat
      BY <1>0, <1>3
    <3>2. (Half - lo - 1) * M \in Nat /\ lo * M \in Nat
      BY <1>0, <1>3, <3>1
    <3>3. (Half - lo - 1) * M = Half * M - lo * M - M /\ (Half - 1) * M = Half * M - M
      BY <1>0, <1>3
    <3>4. Half * M \in Nat
      BY <1>0
    <3>. QED BY <1>0, <3>2, <3>3, <3>4
  <2>. DEFINE lm == lo * M
              ht == hi * Top
              tm == top * M
  <2>3. lm \in Nat /\ lm <= Top - M /\ ht \in Int /\ tm = ht + lm
    BY <1>0, <1>3, <2>1, <2>2
  <2>4. wy = low + lm /\ wx = low + tm /\ low \in 0 .. M - 1
    BY <1>7
  <2>. HIDE DEF lm, ht, tm, wy, wx
  <2>5. wy \in 0 .. Top - 1 /\ wx = wy + ht
    BY <1>0, <2>3, <2>4
  <2>. QED BY <2>5 DEF ht
<1>. DEFINE z == Ripple(y, c).limbs
            k == Ripple(y, c).carry
<1>9. Propagate(x, over) = z
  <2>1. Propagate(x, over) = Ripple(y, ((b % Radix) * Excess) % Radix).limbs
    BY DEF Propagate, Half
  <2>. HIDE DEF b
  <2>. QED BY <1>4, <1>5, <2>1
<1>10. IsElement(z) /\ k \in Int /\ Value(z) + k * (2 * Top) = wy + c
  <2>1. c \in Int
    BY <1>5
  <2>. HIDE DEF y, c
  <2>. QED BY <1>6, <2>1, RippleElement
<1>11. Value(z) \in 0 .. 2 * Top - 1
  <2>. HIDE DEF z
  <2>. QED BY <1>10, ElementIs
<1>. HIDE DEF z, k, c, wy, wx
<1>12. k = 0
  <2>1. wy + c \in 0 .. 2 * Top - 1
    BY <1>0, <1>5, <1>8
  <2>2. k >= 1 => k * (2 * Top) >= 2 * Top
    BY <1>0, <1>10
  <2>3. k <= -1 => k * (2 * Top) <= -(2 * Top)
    BY <1>0, <1>10
  <2>4. k * (2 * Top) \in Int
    BY <1>0, <1>10
  <2>. QED BY <1>0, <1>10, <1>11, <2>1, <2>2, <2>3, <2>4
<1>13. Value(z) = wy + c
  BY <1>0, <1>5, <1>8, <1>10, <1>11, <1>12
<1>. DEFINE v == Value(x) + over * (2 * Top)
<1>14. v = wy + b * Top /\ v \in Int
  <2>1. Value(x) = wy + hi * Top
    BY <1>1, <1>8 DEF wx
  <2>. HIDE DEF hi
  <2>2. b * Top = hi * Top + over * (2 * Top) /\ hi * Top \in Int /\ over * (2 * Top) \in Int
    BY <1>0, <1>3
  <2>. HIDE DEF b
  <2>. QED BY <1>0, <1>8, <2>1, <2>2
<1>. HIDE DEF v, b
<1>15. IsReduced(z, v, b)
  <2>1. b * P = b * Top - c /\ b * Top \in Int
    BY <1>0, <1>4 DEF c
  <2>2. v - b * Top = wy /\ Value(z) = v - b * P
    <3>. DEFINE bt == b * Top
                bp == b * P
    <3>1. bt \in Int /\ bp = bt - c /\ v = wy + bt /\ wy \in Int /\ c \in Int /\ Value(z) = wy + c
      BY <1>5, <1>8, <1>13, <1>14, <2>1
    <3>. HIDE DEF bt, bp
    <3>2. v - bt = wy /\ Value(z) = v - bp
      BY <3>1
    <3>. QED BY <3>2 DEF bt, bp
  <2>3. Value(z) < Top + Radix
    BY <1>0, <1>5, <1>8, <1>13
  <2>. QED BY <1>4, <1>8, <1>10, <1>14, <2>2, <2>3 DEF IsReduced
<1>. QED BY <1>4, <1>9, <1>15 DEF v

\* a carry lies between the bounds of what it was divided from
LEMMA CarryBetween ==
    ASSUME NEW m \in Nat \ {0}, NEW k \in Int, NEW v \in 0 .. m - 1, NEW s \in Int, v + k * m = s,
           NEW lo \in Int, NEW hi \in Int, lo * m <= s, s < (hi + 1) * m
    PROVE  k \in lo .. hi
<1>1. k * m \in Int /\ lo * m \in Int /\ (hi + 1) * m \in Int
  OBVIOUS
<1>2. ~(k < lo)
  <2>. SUFFICES ASSUME k < lo PROVE FALSE
    OBVIOUS
  <2>. DEFINE d == lo - k - 1
  <2>1. d \in Nat /\ lo = k + 1 + d
    OBVIOUS
  <2>. HIDE DEF d
  <2>2. d * m \in Nat
    BY <2>1
  <2>3. lo * m = k * m + m + d * m
    BY <2>1
  <2>. QED BY <1>1, <2>2, <2>3
<1>3. ~(k > hi)
  <2>. SUFFICES ASSUME k > hi PROVE FALSE
    OBVIOUS
  <2>. DEFINE d == k - hi - 1
  <2>1. d \in Nat /\ k = hi + 1 + d
    OBVIOUS
  <2>. HIDE DEF d
  <2>2. d * m \in Nat
    BY <2>1
  <2>3. k * m = (hi + 1) * m + d * m
    BY <2>1
  <2>. QED BY <1>1, <2>2, <2>3
<1>. QED BY <1>2, <1>3

\* an element small enough to go on with, and n modulo the prime
IsExact(z, n) == Tight(z) /\ (Value(z) - n) % P = 0

LEMMA Exact ==
    ASSUME NEW z, NEW v, NEW b, IsReduced(z, v, b), NEW n \in Int, NEW j \in Int, v = n + j * P
    PROVE  IsExact(z, n)
<1>0. b \in Int /\ Value(z) = v - b * P /\ Value(z) < Top + Radix
  BY Sizes DEF IsReduced
<1>1. P \in Nat \ {0}
  BY Sizes
<1>2. Value(z) - n = (j - b) * P + 0
  <2>1. (j - b) * P = j * P - b * P /\ j * P \in Int /\ b * P \in Int
    BY <1>0, <1>1
  <2>. QED BY <1>0, <2>1
<1>3. IsDivision(Value(z) - n, P, j - b, 0)
  BY <1>0, <1>1, <1>2 DEF IsDivision
<1>. QED BY <1>0, <1>3, Divided DEF IsExact, Tight, Top

LEMMA AddExact ==
    ASSUME NEW a, NEW b, IsElement(a), IsElement(b)
    PROVE  IsExact(FeAdd(a, b), Value(a) + Value(b))
<1>. DEFINE terms == [i \in 1 .. NLimbs |-> a[i] + b[i]]
            r == Ripple(terms, 0)
            m == 2 * Top
            n == Value(a) + Value(b)
            one == 1
<1>0. Top \in Nat \ {0} /\ m \in Nat \ {0} /\ Excess \in Nat \ {0} /\ P \in Nat \ {0}
  BY Sizes
<1>1. Numbers(LimbScale, a, NLimbs) /\ Numbers(LimbScale, b, NLimbs)
      /\ Value(a) = Worth(LimbScale, a, NLimbs) /\ Value(b) = Worth(LimbScale, b, NLimbs)
      /\ Value(a) \in 0 .. m - 1 /\ Value(b) \in 0 .. m - 1
  BY ElementIs
<1>2. IsMix(LimbScale, terms, one, a, b, NLimbs)
  BY <1>1, LimbScaleIs DEF IsMix, Numbers
<1>3. Worth(LimbScale, terms, NLimbs) = n /\ Numbers(LimbScale, terms, NLimbs) /\ DOMAIN terms = 1 .. NLimbs
  <2>1. Numbers(LimbScale, terms, NLimbs) /\ DOMAIN terms = 1 .. NLimbs
    BY <1>2 DEF IsMix
  <2>. HIDE DEF terms, one
  <2>2. Worth(LimbScale, terms, NLimbs) = one * Worth(LimbScale, a, NLimbs) + Worth(LimbScale, b, NLimbs)
    BY <1>2, SumMix
  <2>. QED BY <1>1, <2>1, <2>2 DEF one
<1>. HIDE DEF terms
<1>4. IsElement(r.limbs) /\ r.carry \in Int /\ Value(r.limbs) + r.carry * m = n
  <2>1. Value(r.limbs) + r.carry * m = Worth(LimbScale, terms, NLimbs) + 0 /\ IsElement(r.limbs)
        /\ r.carry \in Int
    BY <1>3, RippleElement
  <2>. HIDE DEF r
  <2>. QED BY <1>1, <1>3, <2>1
<1>5. FeAdd(a, b) = Propagate(r.limbs, r.carry)
  BY DEF FeAdd, terms
<1>. DEFINE x == r.limbs
            k == r.carry
<1>. HIDE DEF r
<1>6. Value(x) \in 0 .. m - 1
  BY <1>4, ElementIs
<1>. HIDE DEF m, x, k
<1>7. n \in Int /\ 0 <= n /\ n < 2 * m
  BY <1>0, <1>1
<1>8. k \in 0 .. 1
  <2>. DEFINE lo == 0
              hi == 1
  <2>1. k \in Int /\ lo \in Int /\ hi \in Int /\ lo * m <= n /\ n < (hi + 1) * m
        /\ Value(x) + k * m = n
    BY <1>0, <1>4, <1>7 DEF x, k
  <2>. HIDE DEF lo, hi, n
  <2>2. k \in lo .. hi
    BY <1>0, <1>6, <1>7, <2>1, CarryBetween
  <2>. QED BY <2>2 DEF lo, hi
<1>9. k \in 0 .. 2 * Excess /\ IsElement(x)
  BY <1>0, <1>4, <1>8 DEF x
<1>10. PICK c : IsReduced(Propagate(x, k), Value(x) + k * (2 * Top), c)
  BY <1>9, PropagateIs
<1>. DEFINE v == Value(x) + k * (2 * Top)
            none == 0
<1>11. v = n + none * P /\ none \in Int
  BY <1>0, <1>4, <1>7 DEF x, k, m
<1>. HIDE DEF v, n, none
<1>12. IsExact(Propagate(x, k), n)
  BY <1>7, <1>10, <1>11, Exact DEF v
<1>. QED BY <1>5, <1>12 DEF x, k, n

LEMMA SubExact ==
    ASSUME NEW a, NEW b, IsElement(a), IsElement(b), Tight(b)
    PROVE  IsExact(FeSub(a, b), Value(a) - Value(b))
<1>. DEFINE terms == [i \in 1 .. NLimbs |-> a[i] - b[i]]
            borrow == -2 * Excess
            r == Ripple(terms, borrow)
            m == 2 * Top
            n == Value(a) - Value(b)
            one == 1
<1>0. /\ Top \in Nat \ {0} /\ m \in Nat \ {0} /\ Excess \in Nat \ {0} /\ P \in Nat \ {0} /\ P = Top - Excess
      /\ Radix + 2 * Excess <= Top /\ Radix \in Nat /\ 4 * Excess + 1 < Radix
  BY Sizes
<1>1. Numbers(LimbScale, a, NLimbs) /\ Numbers(LimbScale, b, NLimbs)
      /\ Value(a) = Worth(LimbScale, a, NLimbs) /\ Value(b) = Worth(LimbScale, b, NLimbs)
      /\ Value(a) \in 0 .. m - 1 /\ Value(b) \in 0 .. m - 1
  BY ElementIs
<1>2. IsMix(LimbScale, a, one, b, terms, NLimbs)
  BY <1>1, LimbScaleIs DEF IsMix, Numbers
<1>3. Worth(LimbScale, terms, NLimbs) = n /\ Numbers(LimbScale, terms, NLimbs) /\ DOMAIN terms = 1 .. NLimbs
  <2>1. Numbers(LimbScale, terms, NLimbs) /\ DOMAIN terms = 1 .. NLimbs
    BY <1>2 DEF IsMix
  <2>. HIDE DEF terms, one
  <2>2. Worth(LimbScale, a, NLimbs) = one * Worth(LimbScale, b, NLimbs) + Worth(LimbScale, terms, NLimbs)
        /\ Worth(LimbScale, terms, NLimbs) \in Int
    BY <1>2, <2>1, SumMix, SumInt
  <2>. QED BY <1>1, <2>1, <2>2 DEF one
<1>. HIDE DEF terms
<1>4. IsElement(r.limbs) /\ r.carry \in Int /\ Value(r.limbs) + r.carry * m = n - 2 * Excess
  <2>0. borrow \in Int /\ borrow = 0 - 2 * Excess
    BY <1>0
  <2>. HIDE DEF borrow
  <2>1. Value(r.limbs) + r.carry * m = Worth(LimbScale, terms, NLimbs) + borrow /\ IsElement(r.limbs)
        /\ r.carry \in Int
    BY <1>3, <2>0, RippleElement
  <2>. HIDE DEF r
  <2>. QED BY <1>0, <1>1, <1>3, <2>0, <2>1
<1>5. FeSub(a, b) = Propagate(r.limbs, (1 + r.carry) % Radix)
  BY DEF FeSub, terms
<1>. DEFINE x == r.limbs
            k == r.carry
            s == n - 2 * Excess
<1>. HIDE DEF r
<1>6. Value(x) \in 0 .. m - 1
  BY <1>4, ElementIs
<1>7. n \in Int /\ s \in Int /\ 0 - m <= s /\ s < m
  <2>1. Value(b) < Top + Radix
    BY DEF Tight, Top
  <2>. QED BY <1>0, <1>1, <2>1
<1>8. k \in -1 .. 0
  <2>. DEFINE lo == -1
              hi == 0
  <2>1. k \in Int /\ lo \in Int /\ hi \in Int /\ lo * m <= s /\ s < (hi + 1) * m
        /\ Value(x) + k * m = s
    <3>. HIDE DEF m, x, k, n
    <3>. QED BY <1>0, <1>4, <1>7 DEF x, k
  <2>. HIDE DEF lo, hi, n, m, s, x, k
  <2>2. k \in lo .. hi
    BY <1>0, <1>6, <1>7, <2>1, CarryBetween
  <2>. QED BY <2>2 DEF lo, hi
<1>. HIDE DEF m, x, k
<1>. DEFINE over == 1 + k
<1>9. over \in 0 .. 2 * Excess /\ IsElement(x) /\ over % Radix = over
  <2>1. over \in 0 .. 1 /\ over = 0 * Radix + over /\ over \in 0 .. Radix - 1 /\ over \in 0 .. 2 * Excess
    BY <1>0, <1>8
  <2>. HIDE DEF over
  <2>2. IsDivision(over, Radix, 0, over)
    BY <1>0, <2>1 DEF IsDivision
  <2>. QED BY <1>4, <2>1, <2>2, Divided DEF x
<1>. DEFINE v == Value(x) + over * (2 * Top)
            two == 2
<1>10. v = n + two * P /\ two \in Int
  <2>1. Value(x) + k * m = s
    BY <1>4 DEF x, k
  <2>2. k * m \in Int /\ (1 + k) * m = m + k * m
    BY <1>0, <1>8
  <2>3. v = Value(x) + (1 + k) * m
    BY DEF m
  <2>. HIDE DEF v, n
  <2>4. Value(x) \in Int
    BY <1>6
  <2>5. v = m + s
    BY <1>0, <1>7, <2>1, <2>2, <2>3, <2>4
  <2>. QED BY <1>0, <1>7, <2>5 DEF m
<1>. HIDE DEF over
<1>11. PICK c : IsReduced(Propagate(x, over), v, c)
  BY <1>9, PropagateIs
<1>. HIDE DEF v, n, two
<1>12. IsExact(Propagate(x, over), n)
  BY <1>7, <1>10, <1>11, Exact
<1>. QED BY <1>5, <1>9, <1>12 DEF x, k, n, over

LEMMA CanonExact ==
    ASSUME NEW x, IsElement(x), Tight(x)
    PROVE  Value(Canon(x)) = Value(x) % P
<1>. DEFINE r == Raised(x)
            l == r.limbs
            k == r.carry
            m == 2 * Top
            none == 0
<1>0. /\ Top \in Nat \ {0} /\ m \in Nat \ {0} /\ Excess \in Nat \ {0} /\ P \in Nat \ {0} /\ P = Top - Excess
      /\ Radix + 2 * Excess <= Top /\ Radix \in Nat /\ 4 * Excess + 1 < Radix
  BY Sizes
<1>1. Numbers(LimbScale, x, NLimbs) /\ Value(x) = Worth(LimbScale, x, NLimbs) /\ Value(x) \in 0 .. m - 1
      /\ DOMAIN x = 1 .. NLimbs
  BY ElementIs DEF IsElement
<1>2. Value(x) < Top + Radix
  BY DEF Tight, Top
<1>. DEFINE vx == Value(x)
<1>3. IsElement(l) /\ k \in Int /\ Value(l) + k * m = vx + Excess
  BY <1>0, <1>1, RippleElement DEF Raised
<1>. HIDE DEF r
<1>4. Value(l) \in 0 .. m - 1
  BY <1>3, ElementIs
<1>. HIDE DEF l, k
<1>. DEFINE s == vx + Excess
<1>5. s \in Int /\ 0 <= s /\ s < m
  BY <1>0, <1>1, <1>2
<1>6. k = none
  <2>1. none \in Int /\ none * m <= s /\ s < (none + 1) * m
    <3>. HIDE DEF m, s
    <3>. QED BY <1>0, <1>5
  <2>. HIDE DEF m, s, none
  <2>2. Value(l) + k * m = s
    BY <1>3 DEF s
  <2>3. k \in none .. none
    BY <1>0, <1>3, <1>4, <1>5, <2>1, <2>2, CarryBetween
  <2>. QED BY <1>3, <2>1, <2>3
<1>7. Value(l) = s
  <2>. HIDE DEF m, vx
  <2>. QED BY <1>0, <1>3, <1>4, <1>5, <1>6
<1>. DEFINE y == Propagate(l, none)
            v == Value(l) + none * (2 * Top)
<1>8. PICK b : IsReduced(y, v, b) /\ b \in 0 .. 1
  <2>1. none \in 0 .. 2 * Excess /\ none = 0
    BY <1>0
  <2>. HIDE DEF none
  <2>. QED BY <1>3, <2>1, PropagateIs
<1>9. v = s
  BY <1>0, <1>5, <1>7
<1>10. IsElement(y) /\ v - b * Top \in 0 .. Top - 1 /\ Value(y) = v - b * P
  <2>. HIDE DEF y, v
  <2>. QED BY <1>8 DEF IsReduced
<1>. HIDE DEF y, v
<1>. DEFINE w == vx - b * P
<1>11. w \in 0 .. P - 1 /\ Value(y) - Excess = w
  <2>1. b = 0 \/ b = 1
    BY <1>8
  <2>. HIDE DEF vx
  <2>2. vx \in Int /\ vx >= 0 /\ vx < Top + Radix
    BY <1>0, <1>1, <1>2 DEF vx
  <2>. QED BY <1>0, <1>9, <1>10, <2>1, <2>2
<1>. DEFINE e == -Excess
            z == Ripple(y, e).limbs
            q == Ripple(y, e).carry
<1>12. IsElement(z) /\ q \in Int /\ Value(z) + q * m = w
  <2>1. Numbers(LimbScale, y, NLimbs) /\ Value(y) = Worth(LimbScale, y, NLimbs) /\ DOMAIN y = 1 .. NLimbs
        /\ Value(y) \in 0 .. m - 1
    BY <1>10, ElementIs DEF IsElement
  <2>2. e \in Int /\ Value(y) + e = Value(y) - Excess
    BY <1>0, <2>1
  <2>. HIDE DEF e, w
  <2>3. IsElement(z) /\ q \in Int /\ Value(z) + q * m = Worth(LimbScale, y, NLimbs) + e
    BY <2>1, <2>2, RippleElement
  <2>. QED BY <1>11, <2>1, <2>2, <2>3
<1>13. Canon(x) = z
  BY <1>6 DEF Canon, r, l, k, y
<1>. HIDE DEF z, q
<1>14. Value(z) \in 0 .. m - 1
  BY <1>12, ElementIs
<1>. HIDE DEF w
<1>15. q = none
  <2>1. none \in Int /\ none * m <= w /\ w < (none + 1) * m /\ w \in Int
    <3>1. w < m
      BY <1>0, <1>11
    <3>. HIDE DEF m
    <3>. QED BY <1>0, <1>11, <3>1
  <2>. HIDE DEF m, none
  <2>3. q \in none .. none
    BY <1>0, <1>12, <1>14, <2>1, CarryBetween
  <2>. QED BY <1>12, <2>1, <2>3
<1>16. Value(z) = w
  <2>. HIDE DEF m
  <2>. QED BY <1>0, <1>11, <1>12, <1>14, <1>15
<1>17. vx % P = w
  <2>1. vx = b * P + w /\ b \in Int
    <3>1. b = 0 \/ b = 1
      BY <1>8
    <3>. HIDE DEF vx
    <3>2. vx \in Int
      BY <1>0, <1>1 DEF vx
    <3>. QED BY <1>0, <3>1, <3>2 DEF w
  <2>2. IsDivision(vx, P, b, w)
    BY <1>0, <1>11, <2>1 DEF IsDivision
  <2>. QED BY <2>2, Divided
<1>. QED BY <1>13, <1>16, <1>17

\* a row of the multiplication, and what the rows are accumulated in
MulRow(a, b, accum, i) ==
    LET r == Ripple([j \in 1 .. NLimbs |-> b[i] * a[j] + accum[i + j - 1]], 0) IN
    [n \in DOMAIN accum |-> IF n \in i .. i + NLimbs - 1 THEN r.limbs[n - i + 1]
                            ELSE IF n = i + NLimbs THEN r.carry ELSE accum[n]]
Accums == [1 .. 2 * NLimbs -> 0 .. Radix - 1]
NoAccum == [n \in 1 .. 2 * NLimbs |-> 0]

\* factors of a product
AreFactors(a, b, m) == IsElement(a) /\ AreLimbs(LimbScale, b, m) /\ m \in 1 .. NLimbs /\ DOMAIN b = 1 .. m

\* what a row does to the limbs from i on
IsRow(new, old, a, b, i) ==
    /\ new \in Accums
    /\ \A n \in 1 .. i - 1 : new[n] = old[n]
    /\ \A n \in i + NLimbs + 1 .. 2 * NLimbs : new[n] = old[n]
    /\ \E x, y : /\ IsTail(LimbScale, x, new, i - 1, NLimbs) /\ IsTail(LimbScale, y, old, i - 1, NLimbs)
                 /\ Worth(LimbScale, x, NLimbs) + new[i + NLimbs] * LimbScale.at[NLimbs]
                       = b[i] * Value(a) + Worth(LimbScale, y, NLimbs)

LEMMA RowIs ==
    ASSUME NEW a, NEW b, NEW m, AreFactors(a, b, m), NEW old \in Accums, NEW i \in 1 .. m
    PROVE  IsRow(MulRow(a, b, old, i), old, a, b, i)
<1>. DEFINE N == NLimbs
            y == [j \in 1 .. N |-> old[i + j - 1]]
            terms == [j \in 1 .. N |-> b[i] * a[j] + old[i + j - 1]]
            r == Ripple(terms, 0)
            new == MulRow(a, b, old, i)
            q == 2 * Top
            va == Value(a)
            wy == Worth(LimbScale, y, N)
            f == b[i]
            p == i - 1
<1>0. /\ N \in Nat /\ N >= 2 /\ N \in 0 .. 2 * N /\ LimbScale.at[N] = q /\ q \in Nat \ {0}
         /\ Radix \in Nat \ {0}
      /\ Radix >= 2
  <2>1. Radix \in Nat /\ Radix >= 2
    BY LimbPowers
  <2>2. N \in Nat /\ N >= 2 /\ LimbScale.at[N] = q /\ Top \in Nat \ {0}
    BY Sizes
  <2>. HIDE DEF N
  <2>. QED BY <2>1, <2>2
<1>1. /\ IsElement(a) /\ m \in 1 .. N /\ i \in Nat /\ 1 <= i /\ i <= N /\ f \in 0 .. Radix - 1
      /\ DOMAIN old = 1 .. 2 * N /\ \A n \in 1 .. 2 * N : old[n] \in 0 .. Radix - 1
  <2>1. IsElement(a) /\ m \in 1 .. N /\ f \in 0 .. LimbScale.base - 1
    BY DEF AreFactors, AreLimbs
  <2>2. f \in 0 .. Radix - 1
    BY <2>1, LimbScaleIs
  <2>3. i \in Nat /\ 1 <= i /\ i <= N
    BY <1>0, <2>1
  <2>4. DOMAIN old = 1 .. 2 * N /\ \A n \in 1 .. 2 * N : old[n] \in 0 .. Radix - 1
    BY DEF Accums
  <2>. QED BY <2>1, <2>2, <2>3, <2>4
<1>2. Numbers(LimbScale, a, N) /\ va = Worth(LimbScale, a, N) /\ va \in 0 .. q - 1 /\ DOMAIN a = 1 .. N
  BY <1>1, ElementIs DEF IsElement
<1>3. /\ \A j \in 1 .. N : i + j - 1 \in 1 .. 2 * N /\ i + j - 1 = p + j
      /\ p \in Nat /\ p + N \in 0 .. 2 * N /\ p + N = i + N - 1 /\ p + N <= 2 * N
      /\ i + N \in 1 .. 2 * N
  <2>1. N \in Nat /\ i \in 1 .. N
    BY <1>0, <1>1
  <2>. HIDE DEF N
  <2>2. p \in Nat /\ p + N \in 0 .. 2 * N /\ p + N = i + N - 1 /\ p + N <= 2 * N /\ i + N \in 1 .. 2 * N
    BY <2>1
  <2>3. \A j \in 1 .. N : i + j - 1 \in 1 .. 2 * N /\ i + j - 1 = p + j
    BY <2>1
  <2>. QED BY <2>2, <2>3
<1>4. AreLimbs(LimbScale, y, N) /\ Numbers(LimbScale, y, N) /\ wy \in 0 .. q - 1
  <2>1. AreLimbs(LimbScale, y, N)
    BY <1>0, <1>1, <1>3, LimbScaleIs DEF AreLimbs
  <2>. HIDE DEF y
  <2>. QED BY <1>0, <2>1, LimbsAreNumbers, SumBound
<1>5. IsMix(LimbScale, terms, f, a, y, N) /\ DOMAIN terms = 1 .. N
  <2>1. \A j \in 1 .. N : a[j] \in Int /\ y[j] \in Int /\ y[j] = old[i + j - 1]
    BY <1>2, <1>4, LimbScaleIs DEF Numbers
  <2>2. \A j \in 1 .. N : terms[j] = f * a[j] + y[j]
    BY <2>1
  <2>3. f \in Int
    BY <1>0, <1>1
  <2>4. DOMAIN terms = 1 .. N
    OBVIOUS
  <2>. HIDE DEF terms, y, f
  <2>5. \A j \in 1 .. N : terms[j] \in Int
    <3>. SUFFICES ASSUME NEW j \in 1 .. N PROVE terms[j] \in Int
      OBVIOUS
    <3>. DEFINE aj == a[j]
                yj == y[j]
    <3>1. aj \in Int /\ yj \in Int /\ terms[j] = f * aj + yj
      BY <2>1, <2>2
    <3>. HIDE DEF aj, yj
    <3>2. f * aj \in Int
      BY <2>3, <3>1
    <3>. QED BY <3>1, <3>2
  <2>. QED BY <1>0, <1>2, <1>4, <2>2, <2>3, <2>4, <2>5, LimbScaleIs DEF IsMix, Numbers
<1>. HIDE DEF terms, y
<1>6. Worth(LimbScale, terms, N) = f * va + wy /\ Numbers(LimbScale, terms, N)
  <2>1. Numbers(LimbScale, terms, N)
    BY <1>5 DEF IsMix
  <2>. HIDE DEF f
  <2>2. Worth(LimbScale, terms, N) = f * Worth(LimbScale, a, N) + Worth(LimbScale, y, N)
    BY <1>5, SumMix
  <2>. QED BY <1>2, <2>1, <2>2
<1>7. IsElement(r.limbs) /\ r.carry \in Int /\ Value(r.limbs) + r.carry * q = f * va + wy
  <2>1. f * va + wy \in Int
    <3>. HIDE DEF f, va, wy
    <3>1. f * va \in Int
      BY <1>0, <1>1, <1>2
    <3>. QED BY <1>0, <1>4, <3>1
  <2>2. IsElement(r.limbs) /\ r.carry \in Int /\ Value(r.limbs) + r.carry * q = Worth(LimbScale, terms, N) + 0
    BY <1>5, <1>6, RippleElement
  <2>. HIDE DEF r, f, va, wy
  <2>. QED BY <1>6, <2>1, <2>2
<1>8. /\ DOMAIN new = 1 .. 2 * N
      /\ \A n \in 1 .. 2 * N : new[n] = IF n \in i .. i + N - 1 THEN r.limbs[n - i + 1]
                                        ELSE IF n = i + N THEN r.carry ELSE old[n]
  <2>1. new = [n \in DOMAIN old |-> IF n \in i .. i + N - 1 THEN r.limbs[n - i + 1]
                                    ELSE IF n = i + N THEN r.carry ELSE old[n]]
    BY DEF MulRow, terms
  <2>. HIDE DEF new, r
  <2>. QED BY <1>1, <2>1
<1>. DEFINE x == r.limbs
            k == r.carry
<1>. HIDE DEF r, new, q, va, wy, f
<1>9. Value(x) \in 0 .. q - 1 /\ Value(x) = Worth(LimbScale, x, N) /\ Numbers(LimbScale, x, N)
      /\ AreLimbs(LimbScale, x, N)
  BY <1>7, ElementIs DEF q, IsElement
<1>10. k \in 0 .. Radix - 1
  <2>. DEFINE s == f * va + wy
              lo == 0
              hi == Radix - 1
  <2>1. f * va \in Nat /\ f * va <= (Radix - 1) * (q - 1)
    <3>1. (Radix - 1 - f) \in Nat /\ f \in Nat /\ va \in Nat /\ q - 1 - va \in Nat /\ Radix - 1 \in Nat
      BY <1>0, <1>1, <1>2
    <3>2. (Radix - 1 - f) * va \in Nat /\ (Radix - 1) * (q - 1 - va) \in Nat /\ f * va \in Nat
      BY <3>1
    <3>3. (Radix - 1) * (q - 1) = f * va + (Radix - 1 - f) * va + (Radix - 1) * (q - 1 - va)
      BY <1>0, <3>1
    <3>. DEFINE u == (Radix - 1) * (q - 1)
                fa == f * va
                c == (Radix - 1 - f) * va
                d == (Radix - 1) * (q - 1 - va)
    <3>4. u = fa + c + d /\ fa \in Nat /\ c \in Nat /\ d \in Nat
      BY <3>2, <3>3
    <3>. HIDE DEF u, fa, c, d
    <3>5. fa \in Nat /\ fa <= u
      BY <3>4
    <3>. QED BY <3>5 DEF u, fa
  <2>2. (Radix - 1) * (q - 1) = Radix * q - Radix - q + 1 /\ Radix * q \in Nat
    BY <1>0
  <2>3. s \in Int /\ lo * q <= s /\ s < (hi + 1) * q /\ lo \in Int /\ hi \in Int /\ Value(x) + k * q = s
        /\ k \in Int
    <3>. DEFINE fa == f * va
                u == (Radix - 1) * (q - 1)
                w == Radix * q
    <3>1. fa \in Nat /\ fa <= u /\ u = w - Radix - q + 1 /\ w \in Nat
      BY <2>1, <2>2
    <3>2. (hi + 1) * q = w /\ lo * q = 0 /\ lo \in Int /\ hi \in Int
      <4>1. hi + 1 = Radix
        BY <1>0
      <4>. QED BY <1>0, <4>1
    <3>3. Value(x) + k * q = s /\ k \in Int /\ s = fa + wy
      BY <1>7 DEF x, k
    <3>. HIDE DEF fa, u, w, lo, hi, s, x, k
    <3>. QED BY <1>0, <1>4, <3>1, <3>2, <3>3 DEF wy, y
  <2>. HIDE DEF s, lo, hi, x, k
  <2>4. k \in lo .. hi
    BY <1>0, <1>9, <2>3, CarryBetween
  <2>. QED BY <2>4 DEF lo, hi
<1>. HIDE DEF x, k
<1>11. ASSUME NEW n \in 1 .. 2 * N
       PROVE  new[n] = IF n \in i .. i + N - 1 THEN x[n - i + 1] ELSE IF n = i + N THEN k ELSE old[n]
  BY <1>8 DEF x, k
<1>12. new \in Accums
  <2>1. ASSUME NEW n \in 1 .. 2 * N PROVE new[n] \in 0 .. Radix - 1
    <3>1. CASE n \in i .. i + N - 1
      <4>1. n - i + 1 \in 1 .. N
        BY <1>0, <1>1, <3>1
      <4>. QED BY <1>9, <1>11, <3>1, <4>1, LimbScaleIs DEF AreLimbs
    <3>2. CASE n \notin i .. i + N - 1
      BY <1>1, <1>10, <1>11, <3>2
    <3>. QED BY <3>1, <3>2
  <2>2. new = [n \in 1 .. 2 * N |-> new[n]]
    BY <1>8, Zenon DEF new, MulRow
  <2>. QED BY <2>1, <2>2 DEF Accums
<1>13. \A n \in 1 .. i - 1 : new[n] = old[n]
  <2>. SUFFICES ASSUME NEW n \in 1 .. i - 1 PROVE new[n] = old[n]
    OBVIOUS
  <2>1. n \in 1 .. 2 * N /\ n \notin i .. i + N - 1 /\ n # i + N
    BY <1>0, <1>1
  <2>. QED BY <1>11, <2>1
<1>14. \A n \in i + N + 1 .. 2 * N : new[n] = old[n]
  <2>. SUFFICES ASSUME NEW n \in i + N + 1 .. 2 * N PROVE new[n] = old[n]
    OBVIOUS
  <2>1. n \in 1 .. 2 * N /\ n \notin i .. i + N - 1 /\ n # i + N
    BY <1>0, <1>1
  <2>. QED BY <1>11, <2>1
<1>15. IsTail(LimbScale, x, new, p, N)
  <2>1. \A j \in 1 .. N : x[j] = new[p + j]
    <3>. SUFFICES ASSUME NEW j \in 1 .. N PROVE x[j] = new[p + j]
      OBVIOUS
    <3>. DEFINE n == p + j
    <3>1. n \in 1 .. 2 * N /\ n \in i .. i + N - 1 /\ n - i + 1 = j
      BY <1>0, <1>1
    <3>. HIDE DEF n
    <3>2. new[n] = x[n - i + 1]
      BY <1>11, <3>1
    <3>. QED BY <3>1, <3>2 DEF n
  <2>2. Numbers(LimbScale, new, p + N)
    <3>1. \A n \in 1 .. p + N : n \in 1 .. 2 * N
      BY <1>0, <1>1
    <3>2. \A n \in 1 .. 2 * N : new[n] \in Int
      BY <1>12 DEF Accums
    <3>. HIDE DEF p
    <3>. QED BY <1>3, <3>1, <3>2, LimbScaleIs DEF Numbers
  <2>. HIDE DEF p
  <2>. QED BY <1>0, <1>3, <1>9, <2>1, <2>2 DEF IsTail
<1>16. IsTail(LimbScale, y, old, p, N)
  <2>1. \A j \in 1 .. N : y[j] = old[p + j]
    BY <1>3 DEF y
  <2>2. Numbers(LimbScale, old, p + N)
    <3>1. \A n \in 1 .. p + N : n \in 1 .. 2 * N
      BY <1>0, <1>1
    <3>2. \A n \in 1 .. 2 * N : old[n] \in Int
      BY <1>1
    <3>. HIDE DEF p
    <3>. QED BY <1>3, <3>1, <3>2, LimbScaleIs DEF Numbers
  <2>. HIDE DEF p
  <2>. QED BY <1>0, <1>3, <1>4, <2>1, <2>2 DEF IsTail
<1>17. new[i + N] = k
  <2>1. i + N \in 1 .. 2 * N /\ i + N \notin i .. i + N - 1
    BY <1>0, <1>1
  <2>. QED BY <1>11, <2>1
<1>18. Worth(LimbScale, x, N) + new[i + N] * LimbScale.at[N] = f * va + wy
  BY <1>0, <1>7, <1>9, <1>17 DEF x, k
<1>19. IsRow(new, old, a, b, i)
  BY <1>12, <1>13, <1>14, <1>15, <1>16, <1>18 DEF IsRow, p, f, va, wy
<1>. QED BY <1>19 DEF new

\* nothing above limb n
EmptyAbove(accum, n) == \A k \in n + 1 .. 2 * NLimbs : accum[k] = 0

LEMMA AccumIs ==
    ASSUME NEW accum \in Accums
    PROVE  AreLimbs(LimbScale, accum, 2 * NLimbs) /\ Numbers(LimbScale, accum, 2 * NLimbs)
           /\ \A n \in 0 .. 2 * NLimbs : Numbers(LimbScale, accum, n)
<1>1. NLimbs \in Nat
  BY Sizes
<1>2. AreLimbs(LimbScale, accum, 2 * NLimbs)
  BY <1>1, LimbScaleIs DEF AreLimbs, Accums
<1>3. ASSUME NEW n \in 0 .. 2 * NLimbs PROVE Numbers(LimbScale, accum, n)
  <2>1. n \in Nat /\ \A i \in 1 .. n : i \in 1 .. 2 * NLimbs
    BY <1>1
  <2>2. AreLimbs(LimbScale, accum, n)
    BY <1>2, <2>1, LimbScaleIs DEF AreLimbs
  <2>. QED BY <2>2, LimbsAreNumbers
<1>. QED BY <1>2, <1>3, LimbsAreNumbers

LEMMA RowAdds ==
    ASSUME NEW a, NEW b, NEW m, AreFactors(a, b, m), NEW old \in Accums, NEW new, NEW i \in 1 .. m,
           IsRow(new, old, a, b, i), EmptyAbove(old, i - 1 + NLimbs)
    PROVE  /\ new \in Accums /\ EmptyAbove(new, i + NLimbs)
           /\ Worth(LimbScale, new, 2 * NLimbs)
                = Worth(LimbScale, old, 2 * NLimbs) + (b[i] * LimbScale.at[i - 1]) * Value(a)
<1>. DEFINE N == NLimbs
            p == i - 1
            q == i + N
            l == p + N
            f == b[i]
            va == Value(a)
<1>0. N \in Nat /\ N >= 2 /\ Top \in Nat \ {0} /\ LimbScale.at[N] = 2 * Top /\ Radix \in Nat
  BY Sizes
<1>1. /\ IsElement(a) /\ m \in 1 .. N /\ i \in Nat /\ 1 <= i /\ i <= N /\ f \in 0 .. Radix - 1
      /\ p \in Nat /\ p + N = l /\ l \in Nat /\ l + 1 = q /\ q <= 2 * N /\ q \in 0 .. 2 * N /\ l \in 0 .. 2 * N
      /\ p \in 0 .. 2 * N /\ q \in Nat
  BY <1>0, LimbScaleIs DEF AreFactors, AreLimbs
<1>2. va \in Int
  BY <1>0, <1>1, ElementIs
<1>3. PICK x, y : /\ IsTail(LimbScale, x, new, p, N) /\ IsTail(LimbScale, y, old, p, N)
                  /\ Worth(LimbScale, x, N) + new[q] * LimbScale.at[N] = f * va + Worth(LimbScale, y, N)
  BY DEF IsRow
<1>4. new \in Accums /\ (\A n \in 1 .. p : new[n] = old[n]) /\ \A n \in q + 1 .. 2 * N : new[n] = old[n]
  BY DEF IsRow
<1>5. EmptyAbove(new, q) /\ EmptyAbove(old, q) /\ old[q] = 0
  <2>1. \A n \in q + 1 .. 2 * N : n \in l + 1 .. 2 * N
    BY <1>1
  <2>2. q \in l + 1 .. 2 * N
    BY <1>1
  <2>. HIDE DEF q, l
  <2>3. \A n \in l + 1 .. 2 * N : old[n] = 0
    BY DEF EmptyAbove, l
  <2>. QED BY <1>4, <2>1, <2>2, <2>3 DEF EmptyAbove
<1>. HIDE DEF l, q, p, f, va
<1>6. LimbScale.at[l] = LimbScale.at[p] * LimbScale.at[N] /\ LimbScale.at[p] \in Nat \ {0}
  <2>1. p + N <= 2 * N + 1 /\ N \in Nat
    BY <1>0, <1>1
  <2>2. LimbScale.at[p + N] = LimbScale.at[p] * LimbScale.at[N]
    BY <1>1, <2>1, LimbScaleIs, ScaleSum
  <2>. QED BY <1>1, <2>2, LimbPowers
<1>. DEFINE M == LimbScale.at[N]
            R == LimbScale.at[p]
<1>7. ASSUME NEW z \in Accums, EmptyAbove(z, q), NEW t, IsTail(LimbScale, t, z, p, N)
      PROVE  /\ Worth(LimbScale, z, 2 * N)
                  = Worth(LimbScale, z, p) + R * Worth(LimbScale, t, N) + z[q] * (R * M)
             /\ Worth(LimbScale, z, p) \in Int /\ Worth(LimbScale, t, N) \in Int /\ z[q] \in Int
  <2>1. Numbers(LimbScale, z, 2 * N) /\ Numbers(LimbScale, z, q) /\ Numbers(LimbScale, z, p)
    BY <1>1, AccumIs
  <2>2. Worth(LimbScale, z, 2 * N) = Worth(LimbScale, z, q)
    <3>. DEFINE d == 2 * N
    <3>1. AreZero(LimbScale, z, q, d)
      BY <1>1, <1>7, <2>1 DEF AreZero, EmptyAbove
    <3>. HIDE DEF d
    <3>2. Worth(LimbScale, z, d) = Worth(LimbScale, z, q)
      BY <3>1, SumZeros
    <3>. QED BY <3>2 DEF d
  <2>3. Worth(LimbScale, z, l + 1) = Worth(LimbScale, z, l) + z[l + 1] * LimbScale.at[l] /\ z[l + 1] \in Int
    <3>1. l + 1 <= q
      BY <1>1
    <3>. QED BY <1>1, <2>1, <3>1, SumStep
  <2>4. Worth(LimbScale, z, p + N) = Worth(LimbScale, z, p) + LimbScale.at[p] * Worth(LimbScale, t, N)
    BY <1>7, SumSplit
  <2>5. Worth(LimbScale, z, p) \in Int /\ Worth(LimbScale, t, N) \in Int
    <3>1. Numbers(LimbScale, t, N)
      BY <1>7 DEF IsTail
    <3>. QED BY <2>1, <3>1, SumInt
  <2>6. Worth(LimbScale, z, q) = Worth(LimbScale, z, l) + z[q] * (R * M) /\ z[q] \in Int
    BY <1>1, <1>6, <2>3
  <2>7. Worth(LimbScale, z, l) = Worth(LimbScale, z, p) + R * Worth(LimbScale, t, N)
    BY <1>1, <2>4
  <2>. QED BY <2>2, <2>5, <2>6, <2>7
<1>8. Worth(LimbScale, new, p) = Worth(LimbScale, old, p)
  <2>1. Numbers(LimbScale, new, p) /\ Numbers(LimbScale, old, p)
    BY <1>1, <1>4, AccumIs
  <2>2. AreSame(LimbScale, new, old, p)
    BY <1>4, <2>1 DEF AreSame
  <2>. QED BY <2>2, SumSame
<1>. DEFINE wx == Worth(LimbScale, x, N)
            wy == Worth(LimbScale, y, N)
            wp == Worth(LimbScale, old, p)
            k == new[q]
<1>9. Worth(LimbScale, new, 2 * N) = wp + R * wx + k * (R * M) /\ wp \in Int /\ wx \in Int /\ k \in Int
  BY <1>3, <1>4, <1>5, <1>7, <1>8
<1>10. Worth(LimbScale, old, 2 * N) = wp + R * wy + 0 * (R * M) /\ wy \in Int
  BY <1>3, <1>5, <1>7
<1>11. wx + k * M = f * va + wy
  BY <1>3
<1>12. R \in Nat \ {0} /\ M \in Nat /\ f \in Int
  BY <1>0, <1>1, <1>6
<1>. HIDE DEF wx, wy, wp, k, R, M
<1>13. R * wx + k * (R * M) = (f * R) * va + R * wy
  <2>1. R * wx + k * (R * M) = R * (wx + k * M)
    BY <1>9, <1>12
  <2>2. R * (f * va + wy) = (f * R) * va + R * wy
    BY <1>2, <1>10, <1>12
  <2>. QED BY <1>11, <2>1, <2>2
<1>14. Worth(LimbScale, new, 2 * N) = Worth(LimbScale, old, 2 * N) + (f * R) * va
  <2>. DEFINE rx == R * wx
              rk == k * (R * M)
              ry == R * wy
              fv == (f * R) * va
              none == 0 * (R * M)
  <2>1. rx \in Int /\ rk \in Int /\ ry \in Int /\ fv \in Int /\ none = 0
    <3>1. R * M \in Int /\ f * R \in Int
      BY <1>12
    <3>. HIDE DEF R, M
    <3>2. rk \in Int /\ none = 0
      BY <1>9, <3>1
    <3>3. rx \in Int /\ ry \in Int
      BY <1>9, <1>10, <1>12
    <3>4. fv \in Int
      <4>. DEFINE g == f * R
      <4>1. g \in Int
        BY <3>1
      <4>. HIDE DEF g
      <4>2. g * va \in Int
        BY <1>2, <4>1
      <4>. QED BY <4>2 DEF g
    <3>. QED BY <3>2, <3>3, <3>4
  <2>2. Worth(LimbScale, new, 2 * N) = wp + rx + rk /\ Worth(LimbScale, old, 2 * N) = wp + ry + none
        /\ rx + rk = fv + ry
    BY <1>9, <1>10, <1>13
  <2>. HIDE DEF rx, rk, ry, fv, none
  <2>3. Worth(LimbScale, new, 2 * N) = Worth(LimbScale, old, 2 * N) + fv
    BY <1>9, <2>1, <2>2
  <2>. QED BY <2>3 DEF fv
<1>. QED BY <1>4, <1>5, <1>14 DEF q, f, R, p, va

\* row by row
IsMultiplying(s, a, b, m) ==
    /\ s[0] = NoAccum
    /\ \A i \in 1 .. m : s[i - 1] \in Accums /\ s[i] = MulRow(a, b, s[i - 1], i)
    /\ LET reduced == Ripple([j \in 1 .. NLimbs |-> HighFactor * s[m][j + NLimbs] + s[m][j]], 0) IN
       FeMul(a, b) = Propagate(reduced.limbs, reduced.carry)

LEMMA MulTurns ==
    ASSUME NEW a, NEW b, NEW m, AreFactors(a, b, m)
    PROVE  \E s : IsMultiplying(s, a, b, m)
<1>. DEFINE ids == [i \in DOMAIN b |-> i]
            iter[S \in SUBSET (DOMAIN ids)] ==
               IF S = {} THEN NoAccum
               ELSE LET x == Max(S) IN MulRow(a, b, iter[S \ {x}], ids[x])
            F == [p \in Nat \X Accums |-> IF p[1] \in 1 .. m THEN MulRow(a, b, p[2], p[1]) ELSE p[2]]
<1>0. m \in Nat /\ m >= 1 /\ DOMAIN b = 1 .. m /\ DOMAIN ids = 1 .. m /\ \A i \in 1 .. m : ids[i] = i
  BY Sizes DEF AreFactors
<1>1. ASSUME NEW accum \in Accums, NEW i \in 1 .. m PROVE MulRow(a, b, accum, i) \in Accums
  BY <1>1, RowIs DEF IsRow
<1>2. NoAccum \in Accums
  BY LimbPowers DEF NoAccum, Accums
<1>3. F \in [Nat \X Accums -> Accums]
  <2>1. \A p \in Nat \X Accums : p[1] \in Nat /\ p[2] \in Accums
    OBVIOUS
  <2>. QED BY <1>1, <2>1
<1>4. PICK g \in [SUBSET (1 .. m) -> Accums] : Folds(g, F, NoAccum, m)
  <2>. HIDE DEF F
  <2>. QED BY <1>0, <1>2, <1>3, FoldExists
<1>5. ASSUME NEW S \in SUBSET (1 .. m), S # {}
      PROVE  Max(S) \in 1 .. m /\ Max(S) \in Nat /\ g[S \ {Max(S)}] \in Accums
  <2>1. Max(S) \in S
    BY <1>0, <1>5, MaxIn
  <2>2. Max(S) \in 1 .. m /\ S \ {Max(S)} \in SUBSET (1 .. m)
    BY <2>1
  <2>. QED BY <1>0, <2>2
<1>6. g = [S \in SUBSET (DOMAIN ids) |->
              IF S = {} THEN NoAccum ELSE MulRow(a, b, g[S \ {Max(S)}], ids[Max(S)])]
  <2>1. ASSUME NEW S \in SUBSET (1 .. m), S # {}
        PROVE  g[S] = MulRow(a, b, g[S \ {Max(S)}], ids[Max(S)])
    <3>1. <<Max(S), g[S \ {Max(S)}]>> \in Nat \X Accums
      BY <1>5, <2>1
    <3>2. g[S] = F[<<Max(S), g[S \ {Max(S)}]>>]
      <4>. HIDE DEF F
      <4>. QED BY <1>4, <2>1 DEF Folds
    <3>3. ids[Max(S)] = Max(S)
      BY <1>0, <1>5, <2>1
    <3>. QED BY <1>5, <2>1, <3>1, <3>2, <3>3
  <2>2. g[{}] = NoAccum
    <3>. HIDE DEF F
    <3>. QED BY <1>4 DEF Folds
  <2>. HIDE DEF ids
  <2>. QED BY <1>0, <1>4, <2>1, <2>2
<1>7. iter = CHOOSE f : f = [S \in SUBSET (DOMAIN ids) |->
              IF S = {} THEN NoAccum ELSE MulRow(a, b, f[S \ {Max(S)}], ids[Max(S)])]
  BY Zenon
<1>8. iter = [S \in SUBSET (DOMAIN ids) |->
              IF S = {} THEN NoAccum ELSE MulRow(a, b, iter[S \ {Max(S)}], ids[Max(S)])]
  <2>. HIDE DEF iter, ids
  <2>. QED BY <1>6, <1>7
<1>. DEFINE Reduced(accum) == Ripple([j \in 1 .. NLimbs |-> HighFactor * accum[j + NLimbs] + accum[j]], 0)
            s == [i \in 0 .. m |-> iter[1 .. i]]
<1>9. FeMul(a, b) = Propagate(Reduced(iter[DOMAIN ids]).limbs, Reduced(iter[DOMAIN ids]).carry)
  BY DEF FeMul, FoldLeftDomain, FoldLeft, MapThenFoldSet, MulRow, NoAccum
<1>. HIDE DEF iter, ids
<1>10. s[0] = NoAccum /\ s[m] = iter[DOMAIN ids]
  <2>1. 1 .. 0 = {} /\ {} \in SUBSET (DOMAIN ids) /\ 0 \in 0 .. m /\ m \in 0 .. m
    BY <1>0
  <2>2. iter[{}] = NoAccum
    BY <1>8, <2>1
  <2>. QED BY <1>0, <2>1, <2>2
<1>11. ASSUME NEW i \in 1 .. m
       PROVE  s[i] = MulRow(a, b, s[i - 1], i)
  <2>1. 1 .. i \in SUBSET Int /\ i \in 1 .. i /\ \A x \in 1 .. i : x <= i
    OBVIOUS
  <2>2. Max(1 .. i) = i
    BY <2>1, MaxIs
  <2>3. 1 .. i # {} /\ (1 .. i) \ {i} = 1 .. (i - 1) /\ i \in 0 .. m /\ i - 1 \in 0 .. m
        /\ 1 .. i \in SUBSET (DOMAIN ids)
    <3>1. i \in Nat /\ i >= 1 /\ i <= m
      BY <1>0
    <3>2. (1 .. i) \ {i} = 1 .. (i - 1)
      BY <3>1
    <3>3. i \in 0 .. m /\ i - 1 \in 0 .. m /\ 1 .. i \subseteq 1 .. m
      BY <1>0, <3>1
    <3>. QED BY <1>0, <2>1, <3>2, <3>3
  <2>4. iter[1 .. i] = MulRow(a, b, iter[(1 .. i) \ {Max(1 .. i)}], ids[Max(1 .. i)])
    BY <1>8, <2>3
  <2>5. s[i] = iter[1 .. i] /\ s[i - 1] = iter[1 .. (i - 1)]
    BY <2>3
  <2>. HIDE DEF s
  <2>. QED BY <1>0, <2>2, <2>3, <2>4, <2>5
<1>. HIDE DEF s
<1>. DEFINE D == {i \in Nat : i <= m => s[i] \in Accums}
<1>12. 0 \in D
  BY <1>2, <1>10
<1>13. ASSUME NEW i \in Nat, i \in D PROVE i + 1 \in D
  <2>. SUFFICES ASSUME i + 1 <= m PROVE s[i + 1] \in Accums
    OBVIOUS
  <2>. DEFINE j == i + 1
  <2>1. j \in 1 .. m /\ j - 1 = i /\ s[i] \in Accums
    BY <1>0, <1>13
  <2>. HIDE DEF j
  <2>2. s[j] = MulRow(a, b, s[i], j)
    BY <1>11, <2>1
  <2>3. s[j] \in Accums
    BY <1>1, <2>1, <2>2
  <2>. QED BY <2>3 DEF j
<1>. HIDE DEF D
<1>14. Nat \subseteq D
  BY <1>12, <1>13, Induction
<1>15. \A i \in 1 .. m : s[i - 1] \in Accums
  <2>. SUFFICES ASSUME NEW i \in 1 .. m PROVE s[i - 1] \in Accums
    OBVIOUS
  <2>. DEFINE j == i - 1
  <2>1. j \in Nat /\ j <= m
    BY <1>0
  <2>. HIDE DEF j
  <2>2. s[j] \in Accums
    BY <1>14, <2>1 DEF D
  <2>. QED BY <2>2 DEF j
<1>16. FeMul(a, b) = Propagate(Reduced(s[m]).limbs, Reduced(s[m]).carry)
  BY <1>9, <1>10
<1>17. IsMultiplying(s, a, b, m)
  BY <1>10, <1>11, <1>15, <1>16 DEF IsMultiplying
<1>. QED BY <1>17

\* The rows make up the product.
LEMMA ProductIs ==
    ASSUME NEW a, NEW b, NEW m, AreFactors(a, b, m), NEW s, IsMultiplying(s, a, b, m)
    PROVE  s[m] \in Accums /\ Worth(LimbScale, s[m], 2 * NLimbs) = Value(a) * Value(b) /\ Value(a) \in Int
           /\ Value(b) \in Int
<1>. DEFINE N == NLimbs
            va == Value(a)
            D == {i \in Nat : i <= m => /\ s[i] \in Accums /\ EmptyAbove(s[i], i + N)
                                        /\ Worth(LimbScale, s[i], 2 * N) = Worth(LimbScale, b, i) * va}
<1>0. m \in Nat /\ m >= 1 /\ m <= N /\ N \in Nat /\ IsElement(a) /\ Numbers(LimbScale, b, m)
      /\ DOMAIN b = 1 .. m
  BY Sizes, LimbsAreNumbers DEF AreFactors
<1>1. va \in Int /\ Value(b) = Worth(LimbScale, b, m)
  <2>1. Value(a) \in 0 .. 2 * Top - 1
    BY <1>0, ElementIs
  <2>. QED BY <1>0, <2>1, ValueIs, Sizes
<1>2. s[0] = NoAccum /\ \A i \in 1 .. m : s[i] = MulRow(a, b, s[i - 1], i)
  BY DEF IsMultiplying
<1>. HIDE DEF va
<1>3. 0 \in D
  <2>1. NoAccum \in Accums /\ EmptyAbove(NoAccum, 0) /\ EmptyAbove(NoAccum, 0 + N)
    BY <1>0, LimbPowers DEF NoAccum, Accums, EmptyAbove
  <2>2. Worth(LimbScale, NoAccum, 2 * N) = 0
    <3>. DEFINE d == 2 * N
    <3>1. Numbers(LimbScale, NoAccum, d) /\ 0 <= d /\ EmptyAbove(NoAccum, 0)
      BY <1>0, <2>1, AccumIs
    <3>2. AreZero(LimbScale, NoAccum, 0, d)
      BY <1>0, <3>1 DEF AreZero, EmptyAbove
    <3>. HIDE DEF d
    <3>3. Worth(LimbScale, NoAccum, d) = Worth(LimbScale, NoAccum, 0) /\ Worth(LimbScale, NoAccum, 0) = 0
      BY <3>1, <3>2, SumZeros, SumNone
    <3>. QED BY <3>3 DEF d
  <2>3. Worth(LimbScale, b, 0) = 0
    BY <1>0, SumNone
  <2>. QED BY <1>1, <1>2, <2>1, <2>2, <2>3
<1>4. ASSUME NEW i \in Nat, i \in D PROVE i + 1 \in D
  <2>. DEFINE j == i + 1
              f == b[j]
              r == LimbScale.at[i]
              w == Worth(LimbScale, b, i)
  <2>. SUFFICES ASSUME j <= m
                PROVE  s[j] \in Accums /\ EmptyAbove(s[j], j + N)
                       /\ Worth(LimbScale, s[j], 2 * N) = Worth(LimbScale, b, j) * va
    OBVIOUS
  <2>1. j \in 1 .. m /\ j - 1 = i /\ i <= m
    BY <1>0
  <2>2. s[i] \in Accums /\ EmptyAbove(s[i], i + N) /\ Worth(LimbScale, s[i], 2 * N) = w * va
    BY <1>4, <2>1
  <2>3. Worth(LimbScale, b, j) = w + f * r /\ w \in Int /\ f \in Int /\ r \in Nat
    <3>1. IsStep(LimbScale, b, i)
      BY <1>0, SumSteps
    <3>. QED BY <3>1 DEF IsStep
  <2>. HIDE DEF j, D
  <2>4. IsRow(s[j], s[i], a, b, j)
    <3>1. s[j] = MulRow(a, b, s[i], j)
      BY <1>2, <2>1
    <3>. QED BY <2>1, <2>2, <3>1, RowIs
  <2>5. EmptyAbove(s[i], j - 1 + NLimbs)
    BY <2>1, <2>2
  <2>6. /\ s[j] \in Accums /\ EmptyAbove(s[j], j + NLimbs)
        /\ Worth(LimbScale, s[j], 2 * NLimbs)
             = Worth(LimbScale, s[i], 2 * NLimbs) + (b[j] * LimbScale.at[j - 1]) * Value(a)
    BY <2>1, <2>2, <2>4, <2>5, RowAdds
  <2>7. Worth(LimbScale, s[j], 2 * N) = w * va + (f * r) * va
    BY <2>1, <2>2, <2>6 DEF va
  <2>8. w * va + (f * r) * va = (w + f * r) * va
    <3>. HIDE DEF w, f, r
    <3>. DEFINE g == f * r
    <3>1. g \in Int
      BY <2>3
    <3>. HIDE DEF g
    <3>2. w * va + g * va = (w + g) * va
      BY <1>1, <2>3, <3>1
    <3>. QED BY <3>2 DEF g
  <2>. QED BY <2>3, <2>6, <2>7, <2>8
<1>. HIDE DEF D
<1>5. m \in D
  BY <1>0, <1>3, <1>4, Induction
<1>6. s[m] \in Accums /\ Worth(LimbScale, s[m], 2 * N) = Worth(LimbScale, b, m) * va
      /\ Worth(LimbScale, b, m) \in Int
  BY <1>0, <1>5, SumInt DEF D
<1>. QED BY <1>1, <1>6 DEF va

LEMMA MulExact ==
    ASSUME NEW a, NEW b, NEW m, AreFactors(a, b, m)
    PROVE  IsExact(FeMul(a, b), Value(a) * Value(b))
<1>. DEFINE N == NLimbs
            q == 2 * Top
            n == Value(a) * Value(b)
            h == HighFactor
<1>0. /\ N \in Nat /\ N >= 2 /\ N \in 0 .. 2 * N /\ Top \in Nat \ {0} /\ q \in Nat \ {0} /\ LimbScale.at[N] = q
      /\ Excess \in Nat \ {0} /\ P = Top - Excess /\ P \in Nat \ {0} /\ h = 2 * Excess
  BY Sizes DEF HighFactor
<1>1. PICK s : IsMultiplying(s, a, b, m)
  BY MulTurns
<1>. DEFINE accum == s[m]
            high == [j \in 1 .. N |-> accum[j + N]]
            terms == [j \in 1 .. N |-> h * accum[j + N] + accum[j]]
            r == Ripple(terms, 0)
<1>2. FeMul(a, b) = Propagate(r.limbs, r.carry)
  BY <1>1 DEF IsMultiplying
<1>3. accum \in Accums /\ Worth(LimbScale, accum, 2 * N) = n /\ n \in Int
  <2>1. s[m] \in Accums /\ Worth(LimbScale, s[m], 2 * NLimbs) = Value(a) * Value(b) /\ Value(a) \in Int
        /\ Value(b) \in Int
    BY <1>1, ProductIs
  <2>. QED BY <2>1
<1>. HIDE DEF accum, n, h, q
<1>4. AreLimbs(LimbScale, accum, N) /\ Numbers(LimbScale, accum, N) /\ Numbers(LimbScale, accum, 2 * N)
      /\ \A j \in 1 .. 2 * N : accum[j] \in 0 .. Radix - 1
  <2>1. \A j \in 1 .. 2 * N : accum[j] \in 0 .. Radix - 1
    BY <1>3 DEF Accums
  <2>2. \A j \in 1 .. N : j \in 1 .. 2 * N
    BY <1>0
  <2>. QED BY <1>0, <1>3, <2>1, <2>2, AccumIs, LimbScaleIs DEF AreLimbs
<1>5. AreLimbs(LimbScale, high, N) /\ Numbers(LimbScale, high, N) /\ \A j \in 1 .. N : high[j] = accum[N + j]
  <2>1. \A j \in 1 .. N : j + N \in 1 .. 2 * N /\ j + N = N + j
    BY <1>0
  <2>2. AreLimbs(LimbScale, high, N)
    BY <1>0, <1>4, <2>1, LimbScaleIs DEF AreLimbs
  <2>3. \A j \in 1 .. N : high[j] = accum[N + j]
    BY <2>1
  <2>. HIDE DEF high
  <2>. QED BY <2>2, <2>3, LimbsAreNumbers
<1>6. IsMix(LimbScale, terms, h, high, accum, N) /\ DOMAIN terms = 1 .. N /\ Numbers(LimbScale, terms, N)
  <2>1. \A j \in 1 .. N : high[j] \in Int /\ accum[j] \in Int /\ terms[j] = h * high[j] + accum[j]
    BY <1>4, <1>5, LimbScaleIs DEF Numbers
  <2>2. DOMAIN terms = 1 .. N
    OBVIOUS
  <2>3. h \in Int
    BY <1>0
  <2>. HIDE DEF terms, high
  <2>4. \A j \in 1 .. N : terms[j] \in Int
    <3>. SUFFICES ASSUME NEW j \in 1 .. N PROVE terms[j] \in Int
      OBVIOUS
    <3>. DEFINE x == high[j]
                y == accum[j]
    <3>1. x \in Int /\ y \in Int /\ terms[j] = h * x + y
      BY <2>1
    <3>. HIDE DEF x, y
    <3>2. h * x \in Int
      BY <2>3, <3>1
    <3>. QED BY <3>1, <3>2
  <2>5. Numbers(LimbScale, terms, N)
    BY <1>0, <2>4, LimbScaleIs DEF Numbers
  <2>. QED BY <1>4, <1>5, <2>1, <2>2, <2>3, <2>5 DEF IsMix
<1>7. Worth(LimbScale, accum, N + N) = Worth(LimbScale, accum, N) + LimbScale.at[N] * Worth(LimbScale, high, N)
  <2>1. N + N = 2 * N
    BY <1>0
  <2>. HIDE DEF high
  <2>2. IsTail(LimbScale, high, accum, N, N)
    BY <1>0, <1>4, <1>5, <2>1 DEF IsTail
  <2>. QED BY <2>2, SumSplit
<1>. HIDE DEF high, terms
<1>. DEFINE wh == Worth(LimbScale, high, N)
            wl == Worth(LimbScale, accum, N)
<1>8. wh \in 0 .. q - 1 /\ wl \in 0 .. q - 1
  BY <1>0, <1>4, <1>5, SumBound
<1>9. n = wl + q * wh
  <2>1. N + N = 2 * N
    BY <1>0
  <2>. QED BY <1>0, <1>3, <1>7, <2>1
<1>10. Worth(LimbScale, terms, N) = h * wh + wl
  BY <1>6, SumMix
<1>. HIDE DEF wh, wl
<1>. DEFINE t == h * wh + wl
<1>11. t \in Int /\ 0 <= t /\ t < (h + 1) * q
  <2>1. h * wh \in Nat /\ h * (q - 1 - wh) \in Nat
    <3>1. h \in Nat /\ wh \in Nat /\ q - 1 - wh \in Nat
      BY <1>0, <1>8
    <3>. QED BY <3>1
  <2>2. (h + 1) * q = h * wh + h * (q - 1 - wh) + h + q /\ h \in Nat
    BY <1>0, <1>8
  <2>. DEFINE x == h * wh
              y == h * (q - 1 - wh)
              z == (h + 1) * q
  <2>3. x \in Nat /\ y \in Nat /\ z = x + y + h + q /\ h \in Nat /\ t = x + wl
    BY <2>1, <2>2
  <2>. HIDE DEF x, y, z, t
  <2>4. t \in Int /\ 0 <= t /\ t < z
    BY <1>0, <1>8, <2>3
  <2>. QED BY <2>4 DEF z
<1>12. IsElement(r.limbs) /\ r.carry \in Int /\ Value(r.limbs) + r.carry * q = t
  <2>. HIDE DEF t
  <2>1. IsElement(r.limbs) /\ r.carry \in Int
        /\ Value(r.limbs) + r.carry * (2 * Top) = Worth(LimbScale, terms, NLimbs) + 0
    BY <1>6, RippleElement
  <2>. HIDE DEF r
  <2>. QED BY <1>10, <1>11, <2>1 DEF t, q
<1>. DEFINE x == r.limbs
            k == r.carry
<1>. HIDE DEF r
<1>13. Value(x) \in 0 .. q - 1
  BY <1>12, ElementIs DEF q
<1>14. Value(x) + k * q = t /\ k \in Int /\ IsElement(x)
  BY <1>12
<1>. HIDE DEF x, k
<1>15. k \in 0 .. h
  <2>. DEFINE lo == 0
  <2>1. lo \in Int /\ lo * q <= t /\ h \in Int
    BY <1>0, <1>11
  <2>. HIDE DEF lo, t
  <2>2. k \in lo .. h
    BY <1>0, <1>11, <1>13, <1>14, <2>1, CarryBetween
  <2>. QED BY <2>2 DEF lo
<1>16. k \in 0 .. 2 * Excess
  BY <1>0, <1>15
<1>. DEFINE v == Value(x) + k * (2 * Top)
            j == -2 * wh
<1>17. PICK c : IsReduced(Propagate(x, k), v, c)
  BY <1>14, <1>16, PropagateIs
<1>18. v = n + j * P /\ j \in Int
  <2>1. v = t
    BY <1>14 DEF q
  <2>2. j * P = h * wh - q * wh
    <3>1. q = 2 * Top
      BY DEF q
    <3>2. wh \in Int
      BY <1>0, <1>8
    <3>. QED BY <1>0, <3>1, <3>2
  <2>3. h * wh \in Int /\ q * wh \in Int /\ j \in Int
    BY <1>0, <1>8
  <2>. HIDE DEF v, j
  <2>. QED BY <1>0, <1>3, <1>8, <1>9, <2>1, <2>2, <2>3 DEF t
<1>. HIDE DEF v, j
<1>19. IsExact(Propagate(x, k), n)
  BY <1>3, <1>17, <1>18, Exact
<1>. QED BY <1>2, <1>19 DEF x, k, n

-----------------------------------------------------------------------------
(* Poly1305: numbers in limbs and in bytes *)

MacScale == Scale(MacRadix, MacLimbs, [i \in 0 .. MacLimbs + 1 |-> MacRadix ^ i])
ByteScale == Scale(2 ^ ByteBits, BlockSize + 1, [i \in 0 .. BlockSize + 2 |-> 2 ^ (ByteBits * i)])

LEMMA MacScaleIs ==
    /\ IsScale(MacScale) /\ MacScale.base = MacRadix /\ MacScale.last = MacLimbs
    /\ \A i \in 0 .. MacLimbs + 1 : MacScale.at[i] = MacRadix ^ i /\ MacScale.at[i] \in Nat \ {0}
    /\ MacScale.at[0] = 1 /\ MacScale.at[1] = MacRadix
<1>. DEFINE at == [i \in 0 .. MacLimbs + 1 |-> MacRadix ^ i]
<1>1. MacLimbs \in Nat /\ MacLimbs >= 2 /\ MacRadix \in Nat \ {0}
  <2>1. MacLimbs \in Nat /\ MacLimbs >= 2 /\ 20 * MacLimbs < MacRadix
    BY Poly1305Assumption
  <2>2. MacRadix \in Nat
    BY MacPowersAssumption
  <2>. HIDE DEF MacRadix
  <2>. QED BY <2>1, <2>2
<1>2. \A i \in 0 .. MacLimbs + 1 : at[i] = MacRadix ^ i
  OBVIOUS
<1>3. at[0] = 1
  <2>1. 0 \in 0 .. MacLimbs + 1
    BY <1>1
  <2>. QED BY <2>1, MacPowersAssumption
<1>4. \A i \in 0 .. MacLimbs : at[i + 1] = MacRadix * at[i]
  <2>. SUFFICES ASSUME NEW i \in 0 .. MacLimbs PROVE at[i + 1] = MacRadix * at[i]
    OBVIOUS
  <2>1. i \in 0 .. MacLimbs + 1 /\ i + 1 \in 0 .. MacLimbs + 1
    BY <1>1
  <2>2. MacRadix ^ (i + 1) = MacRadix * MacRadix ^ i
    BY MacPowersAssumption
  <2>. QED BY <2>1, <2>2
<1>. DEFINE R == MacRadix
<1>. HIDE DEF at, R
<1>5. R \in Nat \ {0} /\ \A i \in 0 .. MacLimbs : at[i + 1] = R * at[i]
  BY <1>1, <1>4 DEF R
<1>6. IsScale(Scale(R, MacLimbs, at)) /\ \A i \in 0 .. MacLimbs + 1 : at[i] \in Nat \ {0}
  BY <1>1, <1>3, <1>5, ScaleIs
<1>7. MacScale.base = MacRadix /\ MacScale.last = MacLimbs /\ MacScale.at = at
  BY DEF MacScale, Scale, at
<1>8. MacScale.at[1] = MacRadix
  <2>1. 1 \in 0 .. MacLimbs + 1 /\ 0 \in 0 .. MacLimbs /\ 0 + 1 = 1
    BY <1>1
  <2>2. at[0 + 1] = R * at[0]
    BY <1>5, <2>1
  <2>. QED BY <1>3, <1>5, <1>7, <2>1, <2>2 DEF R
<1>9. IsScale(MacScale)
  BY <1>6 DEF MacScale, at, R
<1>10. \A i \in 0 .. MacLimbs + 1 : at[i] = MacRadix ^ i
  BY <1>2 DEF at
<1>. QED BY <1>3, <1>6, <1>7, <1>8, <1>9, <1>10

LEMMA ByteScaleIs ==
    /\ IsScale(ByteScale) /\ ByteScale.base = 2 ^ ByteBits /\ ByteScale.last = BlockSize + 1
    /\ \A i \in 0 .. BlockSize + 2 : ByteScale.at[i] = 2 ^ (ByteBits * i) /\ ByteScale.at[i] \in Nat \ {0}
    /\ ByteScale.at[0] = 1 /\ ByteScale.at[BlockSize] = BlockMod
<1>. DEFINE last == BlockSize + 1
            at == [i \in 0 .. BlockSize + 2 |-> 2 ^ (ByteBits * i)]
            R == 2 ^ ByteBits
<1>1. BlockSize \in Nat /\ last \in Nat /\ last + 1 = BlockSize + 2
  BY Poly1305Assumption
<1>2. R \in Nat \ {0}
  BY MacPowersAssumption
<1>3. \A i \in 0 .. BlockSize + 2 : at[i] = 2 ^ (ByteBits * i)
  OBVIOUS
<1>4. at[0] = 1
  <2>1. 0 \in 0 .. BlockSize + 2
    BY <1>1
  <2>. QED BY <2>1, MacPowersAssumption
<1>5. \A i \in 0 .. last : at[i + 1] = R * at[i]
  <2>. SUFFICES ASSUME NEW i \in 0 .. last PROVE at[i + 1] = R * at[i]
    OBVIOUS
  <2>1. i \in 0 .. BlockSize + 2 /\ i + 1 \in 0 .. BlockSize + 2 /\ i \in 0 .. BlockSize + 1
    BY <1>1
  <2>2. 2 ^ (ByteBits * (i + 1)) = R * 2 ^ (ByteBits * i)
    BY <2>1, MacPowersAssumption
  <2>. QED BY <2>1, <2>2
<1>6. \A i \in 0 .. BlockSize + 2 : i \in 0 .. last + 1
  BY <1>1
<1>. HIDE DEF last, at, R
<1>7. IsScale(Scale(R, last, at)) /\ \A i \in 0 .. last + 1 : at[i] \in Nat \ {0}
  BY <1>1, <1>2, <1>4, <1>5, ScaleIs
<1>8. ByteScale.base = R /\ ByteScale.last = last /\ ByteScale.at = at
  BY DEF ByteScale, Scale, last, at, R
<1>9. IsScale(ByteScale)
  BY <1>7 DEF ByteScale, last, at, R
<1>10. \A i \in 0 .. BlockSize + 2 : at[i] = 2 ^ (ByteBits * i) /\ at[i] \in Nat \ {0}
  BY <1>3, <1>6, <1>7
<1>11. at[BlockSize] = BlockMod
  <2>1. BlockSize \in 0 .. BlockSize + 2
    BY <1>1
  <2>. QED BY <1>3, <2>1 DEF BlockMod
<1>. QED BY <1>4, <1>8, <1>9, <1>10, <1>11 DEF R, last

\* the sizes of everything
LEMMA MacSizes ==
    /\ MacLimbs \in Nat /\ MacLimbs >= 2 /\ MacRadix \in Nat /\ 20 * MacLimbs < MacRadix /\ MacRadix > 40
    /\ BlockSize \in Nat \ {0} /\ BlockMod \in Nat \ {0}
    /\ MacScale.at[MacLimbs] = 4 * BlockMod /\ MacScale.at[MacLimbs] = MacPrime + 5
    /\ MacScale.at[MacLimbs] >= MacRadix * MacRadix
    /\ MacPrime \in Nat /\ MacPrime > 1000
<1>1. MacLimbs \in Nat /\ MacLimbs >= 2 /\ 20 * MacLimbs < MacRadix /\ BlockSize \in Nat \ {0}
  BY Poly1305Assumption
<1>2. MacRadix \in Nat
  BY MacPowersAssumption
<1>3. MacRadix > 40
  <2>. HIDE DEF MacRadix
  <2>. QED BY <1>1, <1>2
<1>4. MacScale.at[MacLimbs] = 4 * BlockMod /\ MacPrime = 4 * BlockMod - 5
  <2>1. MacLimbs \in 0 .. MacLimbs + 1
    BY <1>1
  <2>2. MacScale.at[MacLimbs] = MacRadix ^ MacLimbs
    BY <2>1, MacScaleIs
  <2>. QED BY <2>2, MacPowersAssumption DEF MacPrime
<1>5. BlockMod \in Nat \ {0}
  <2>1. BlockSize \in 0 .. BlockSize + 2
    BY <1>1
  <2>. QED BY <2>1, ByteScaleIs
<1>6. MacScale.at[MacLimbs] >= MacRadix * MacRadix
  <2>. DEFINE q == MacLimbs - 2
  <2>1. q \in Nat /\ 2 + q = MacLimbs /\ 2 + q <= MacScale.last + 1 /\ q \in 0 .. MacLimbs + 1
        /\ 1 \in 0 .. MacLimbs
    BY <1>1, MacScaleIs
  <2>. HIDE DEF q
  <2>2. MacScale.at[2 + q] = MacScale.at[2] * MacScale.at[q]
    BY <2>1, MacScaleIs, ScaleSum
  <2>3. MacScale.at[1 + 1] = MacRadix * MacScale.at[1] /\ MacScale.at[1] = MacRadix /\ 1 + 1 = 2
    BY <2>1, MacScaleIs DEF IsScale
  <2>4. MacScale.at[q] \in Nat \ {0}
    BY <2>1, MacScaleIs
  <2>. DEFINE rr == MacRadix * MacRadix
              w == MacScale.at[q]
  <2>5. rr \in Nat /\ w \in Nat /\ w >= 1
    <3>. HIDE DEF MacRadix
    <3>. QED BY <1>2, <2>4
  <2>6. MacScale.at[MacLimbs] = rr * w
    BY <2>1, <2>2, <2>3
  <2>. HIDE DEF rr, w
  <2>7. rr * w >= rr
    BY <2>5
  <2>. QED BY <2>6, <2>7 DEF rr
<1>7. MacPrime \in Nat /\ MacPrime > 1000 /\ MacScale.at[MacLimbs] = MacPrime + 5
  <2>. DEFINE r == MacRadix
              B == BlockMod
              p == MacPrime
              w == MacScale.at[MacLimbs]
  <2>1. r \in Nat /\ r > 40 /\ w >= r * r /\ w = 4 * B /\ p = 4 * B - 5 /\ B \in Nat
    BY <1>2, <1>3, <1>4, <1>5, <1>6
  <2>. HIDE DEF r, B, p, w
  <2>2. r * r >= 41 * 41
    BY <2>1
  <2>3. p \in Nat /\ p > 1000 /\ w = p + 5
    BY <2>1, <2>2
  <2>. QED BY <2>3 DEF p, w
<1>. QED BY <1>1, <1>2, <1>3, <1>4, <1>5, <1>6, <1>7

\* the limbs put together
LEMMA FromLimbsIs ==
    ASSUME NEW n, NEW h, Numbers(MacScale, h, n), DOMAIN h = 1 .. n
    PROVE  FromLimbs(h) = Worth(MacScale, h, n)
<1>. DEFINE ids == [i \in DOMAIN h |-> i]
            iter[S \in SUBSET (DOMAIN ids)] ==
               IF S = {} THEN 0
               ELSE LET j == Max(S) IN iter[S \ {j}] + h[ids[j]] * MacRadix ^ (ids[j] - 1)
<1>0. n \in Nat /\ DOMAIN ids = 1 .. n /\ \A i \in 1 .. n : ids[i] = i
  BY DEF Numbers, IsScale
<1>1. \A i \in 1 .. n : MacScale.at[i - 1] = MacRadix ^ (i - 1)
  <2>. SUFFICES ASSUME NEW i \in 1 .. n PROVE MacScale.at[i - 1] = MacRadix ^ (i - 1)
    OBVIOUS
  <2>1. n \in 0 .. MacLimbs
    BY MacScaleIs DEF Numbers
  <2>2. i - 1 \in 0 .. MacLimbs + 1
    BY <2>1, MacSizes
  <2>. QED BY <2>2, MacScaleIs
<1>2. PICK g : PartSum(g, MacScale, h, n) /\ \A S \in SUBSET (1 .. n) : S # {} => Max(S) \in 1 .. n
  BY SumFolds
<1>3. g = [S \in SUBSET (DOMAIN ids) |->
              IF S = {} THEN 0 ELSE g[S \ {Max(S)}] + h[ids[Max(S)]] * MacRadix ^ (ids[Max(S)] - 1)]
  <2>1. ASSUME NEW S \in SUBSET (1 .. n), S # {}
        PROVE  /\ ids[Max(S)] = Max(S)
               /\ MacScale.at[Max(S) - 1] = MacRadix ^ (Max(S) - 1)
    BY <1>0, <1>1, <1>2, <2>1
  <2>2. g = [S \in SUBSET (1 .. n) |-> g[S]]
    BY <1>2 DEF PartSum
  <2>. HIDE DEF ids
  <2>3. ASSUME NEW S \in SUBSET (1 .. n), S # {}
        PROVE  g[S] = g[S \ {Max(S)}] + h[ids[Max(S)]] * MacRadix ^ (ids[Max(S)] - 1)
    <3>1. g[S] = g[S \ {Max(S)}] + h[Max(S)] * MacScale.at[Max(S) - 1]
      BY <1>2, <2>3 DEF PartSum
    <3>2. /\ ids[Max(S)] = Max(S)
          /\ MacScale.at[Max(S) - 1] = MacRadix ^ (Max(S) - 1)
      BY <2>1, <2>3
    <3>. QED BY <3>1, <3>2
  <2>4. g[{}] = 0
    BY <1>2 DEF PartSum
  <2>. QED BY <1>0, <2>2, <2>3, <2>4
<1>4. iter = CHOOSE f : f = [S \in SUBSET (DOMAIN ids) |->
              IF S = {} THEN 0 ELSE f[S \ {Max(S)}] + h[ids[Max(S)]] * MacRadix ^ (ids[Max(S)] - 1)]
  BY Zenon
<1>5. iter = [S \in SUBSET (DOMAIN ids) |->
              IF S = {} THEN 0 ELSE iter[S \ {Max(S)}] + h[ids[Max(S)]] * MacRadix ^ (ids[Max(S)] - 1)]
  <2>. HIDE DEF iter, ids
  <2>. QED BY <1>3, <1>4
<1>6. FromLimbs(h) = iter[DOMAIN ids]
  BY DEF FromLimbs, FoldLeftDomain, FoldLeft, MapThenFoldSet
<1>. HIDE DEF iter
<1>7. PartSum(iter, MacScale, h, n)
  <2>1. ASSUME NEW S \in SUBSET (1 .. n), S # {}
        PROVE  /\ ids[Max(S)] = Max(S)
               /\ MacScale.at[Max(S) - 1] = MacRadix ^ (Max(S) - 1)
    BY <1>0, <1>1, <1>2, <2>1
  <2>. HIDE DEF ids
  <2>. QED BY <1>0, <1>5, <2>1 DEF PartSum
<1>8. iter[1 .. n] = Worth(MacScale, h, n)
  BY <1>7, SumFolded
<1>. QED BY <1>0, <1>6, <1>8

\* a block read as a number
LEMMA LittleEndianIs ==
    ASSUME NEW n, NEW bytes, Numbers(ByteScale, bytes, n), DOMAIN bytes = 1 .. n
    PROVE  LittleEndian(bytes) = Worth(ByteScale, bytes, n)
<1>. DEFINE ids == [i \in DOMAIN bytes |-> i]
            iter[S \in SUBSET (DOMAIN ids)] ==
               IF S = {} THEN 0
               ELSE LET j == Max(S) IN iter[S \ {j}] + bytes[ids[j]] * 2 ^ (ByteBits * (ids[j] - 1))
<1>0. n \in Nat /\ DOMAIN ids = 1 .. n /\ \A i \in 1 .. n : ids[i] = i
  BY DEF Numbers, IsScale
<1>1. \A i \in 1 .. n : ByteScale.at[i - 1] = 2 ^ (ByteBits * (i - 1))
  <2>. SUFFICES ASSUME NEW i \in 1 .. n PROVE ByteScale.at[i - 1] = 2 ^ (ByteBits * (i - 1))
    OBVIOUS
  <2>1. n \in 0 .. BlockSize + 1
    BY ByteScaleIs DEF Numbers
  <2>2. i - 1 \in 0 .. BlockSize + 2
    BY <2>1, MacSizes
  <2>. QED BY <2>2, ByteScaleIs
<1>2. PICK g : PartSum(g, ByteScale, bytes, n) /\ \A S \in SUBSET (1 .. n) : S # {} => Max(S) \in 1 .. n
  BY SumFolds
<1>3. g = [S \in SUBSET (DOMAIN ids) |->
              IF S = {} THEN 0 ELSE g[S \ {Max(S)}] + bytes[ids[Max(S)]] * 2 ^ (ByteBits * (ids[Max(S)] - 1))]
  <2>1. ASSUME NEW S \in SUBSET (1 .. n), S # {}
        PROVE  /\ ids[Max(S)] = Max(S)
               /\ ByteScale.at[Max(S) - 1] = 2 ^ (ByteBits * (Max(S) - 1))
    BY <1>0, <1>1, <1>2, <2>1
  <2>2. g = [S \in SUBSET (1 .. n) |-> g[S]]
    BY <1>2 DEF PartSum
  <2>. HIDE DEF ids
  <2>3. ASSUME NEW S \in SUBSET (1 .. n), S # {}
        PROVE  g[S] = g[S \ {Max(S)}] + bytes[ids[Max(S)]] * 2 ^ (ByteBits * (ids[Max(S)] - 1))
    <3>1. g[S] = g[S \ {Max(S)}] + bytes[Max(S)] * ByteScale.at[Max(S) - 1]
      BY <1>2, <2>3 DEF PartSum
    <3>2. /\ ids[Max(S)] = Max(S)
          /\ ByteScale.at[Max(S) - 1] = 2 ^ (ByteBits * (Max(S) - 1))
      BY <2>1, <2>3
    <3>. QED BY <3>1, <3>2
  <2>4. g[{}] = 0
    BY <1>2 DEF PartSum
  <2>. QED BY <1>0, <2>2, <2>3, <2>4
<1>4. iter = CHOOSE f : f = [S \in SUBSET (DOMAIN ids) |->
              IF S = {} THEN 0 ELSE f[S \ {Max(S)}] + bytes[ids[Max(S)]] * 2 ^ (ByteBits * (ids[Max(S)] - 1))]
  BY Zenon
<1>5. iter = [S \in SUBSET (DOMAIN ids) |->
              IF S = {} THEN 0
              ELSE iter[S \ {Max(S)}] + bytes[ids[Max(S)]] * 2 ^ (ByteBits * (ids[Max(S)] - 1))]
  <2>. HIDE DEF iter, ids
  <2>. QED BY <1>3, <1>4
<1>6. LittleEndian(bytes) = iter[DOMAIN ids]
  BY DEF LittleEndian, FoldLeftDomain, FoldLeft, MapThenFoldSet
<1>. HIDE DEF iter
<1>7. PartSum(iter, ByteScale, bytes, n)
  <2>1. ASSUME NEW S \in SUBSET (1 .. n), S # {}
        PROVE  /\ ids[Max(S)] = Max(S)
               /\ ByteScale.at[Max(S) - 1] = 2 ^ (ByteBits * (Max(S) - 1))
    BY <1>0, <1>1, <1>2, <2>1
  <2>. HIDE DEF ids
  <2>. QED BY <1>0, <1>5, <2>1 DEF PartSum
<1>8. iter[1 .. n] = Worth(ByteScale, bytes, n)
  BY <1>7, SumFolded
<1>. QED BY <1>0, <1>6, <1>8

\* the limbs of a number
AreDigits(x, sc, m, n) ==
    /\ IsScale(sc) /\ m \in 0 .. sc.last /\ n \in Nat
    /\ \A i \in 1 .. m : x[i] = (n \div sc.at[i - 1]) % sc.base

LEMMA DigitsWorth ==
    ASSUME NEW sc, NEW x, NEW m, NEW n, AreDigits(x, sc, m, n)
    PROVE  AreLimbs(sc, x, m) /\ n = (n \div sc.at[m]) * sc.at[m] + Worth(sc, x, m)
<1>0. /\ IsScale(sc) /\ m \in 0 .. sc.last /\ n \in Nat /\ m \in Nat
      /\ \A i \in 1 .. m : x[i] = (n \div sc.at[i - 1]) % sc.base
  BY DEF AreDigits, IsScale
<1>1. sc.last \in Nat /\ sc.base \in Nat \ {0} /\ sc.at[0] = 1
      /\ \A i \in 0 .. sc.last : sc.at[i] \in Nat \ {0} /\ sc.at[i + 1] \in Nat \ {0}
                                 /\ sc.at[i + 1] = sc.base * sc.at[i]
  BY <1>0 DEF IsScale
<1>2. ASSUME NEW i \in 1 .. m PROVE x[i] \in 0 .. sc.base - 1
  <2>. DEFINE j == i - 1
              w == sc.at[j]
              q == n \div w
  <2>1. j \in 0 .. sc.last
    BY <1>0, <1>1
  <2>. HIDE DEF j
  <2>2. w \in Nat \ {0}
    BY <1>1, <2>1
  <2>. HIDE DEF w
  <2>3. q \in Int
    BY <1>0, <2>2, DividedIs
  <2>. HIDE DEF q
  <2>4. q % sc.base \in 0 .. sc.base - 1
    BY <1>1, <2>3, DividedIs
  <2>5. x[i] = q % sc.base
    BY <1>0 DEF q, w, j
  <2>. QED BY <2>4, <2>5
<1>3. AreLimbs(sc, x, m)
  BY <1>0, <1>2 DEF AreLimbs
<1>. DEFINE D == {i \in Nat : i <= m => n = (n \div sc.at[i]) * sc.at[i] + Worth(sc, x, i)}
<1>4. 0 \in D
  <2>1. IsDivision(n, 1, n, 0)
    BY <1>0 DEF IsDivision
  <2>2. n \div 1 = n
    BY <2>1, Divided
  <2>3. Worth(sc, x, 0) = 0
    BY <1>3, LimbsAreNumbers, SumNone
  <2>. QED BY <1>0, <1>1, <2>2, <2>3
<1>5. ASSUME NEW i \in Nat, i \in D PROVE i + 1 \in D
  <2>. SUFFICES ASSUME i + 1 <= m PROVE n = (n \div sc.at[i + 1]) * sc.at[i + 1] + Worth(sc, x, i + 1)
    OBVIOUS
  <2>. DEFINE R == sc.base
              w == sc.at[i]
              s == Worth(sc, x, i)
              q == n \div w
              a == q \div R
              b == q % R
              v == R * w
  <2>1. i <= m /\ i \in 0 .. sc.last /\ i + 1 \in 1 .. m /\ i \in 0 .. m
    BY <1>0, <1>1
  <2>2. n = q * w + s
    BY <1>5, <2>1
  <2>3. w \in Nat \ {0} /\ sc.at[i + 1] = v /\ R \in Nat \ {0}
    BY <1>1, <2>1
  <2>4. s \in 0 .. w - 1
    <3>1. \A k \in 1 .. i : k \in 1 .. m
      BY <1>0, <2>1
    <3>2. AreLimbs(sc, x, i)
      BY <1>0, <1>2, <2>1, <3>1 DEF AreLimbs
    <3>. QED BY <3>2, SumBound
  <2>5. x[i + 1] = b
    <3>. DEFINE j == i + 1
    <3>1. j \in 1 .. m /\ j - 1 = i
      BY <2>1
    <3>. HIDE DEF j
    <3>2. x[j] = (n \div sc.at[j - 1]) % sc.base
      BY <1>0, <3>1
    <3>. QED BY <3>1, <3>2 DEF j
  <2>6. Worth(sc, x, i + 1) = s + b * w
    BY <1>3, <2>5, LimbsAreNumbers, SumStep
  <2>. HIDE DEF w, s, R
  <2>7. q \in Int
    BY <1>0, <2>3, DividedIs
  <2>. HIDE DEF q
  <2>8. a \in Int /\ b \in 0 .. R - 1 /\ q = a * R + b
    BY <2>3, <2>7, DividedIs
  <2>. HIDE DEF a, b
  <2>9. n = a * v + (b * w + s)
    <3>1. (a * R + b) * w = a * (R * w) + b * w
      BY <2>3, <2>8
    <3>. DEFINE av == a * (R * w)
                bw == b * w
    <3>2. av \in Int /\ bw \in Int
      BY <2>3, <2>8
    <3>3. n = (av + bw) + s
      BY <2>2, <2>8, <3>1
    <3>. HIDE DEF av, bw
    <3>4. n = av + (bw + s)
      BY <2>4, <3>2, <3>3
    <3>. QED BY <3>4 DEF av, bw, v
  <2>10. b * w + s \in 0 .. v - 1 /\ v \in Nat \ {0} /\ b * w \in Int
    <3>1. v \in Nat \ {0} /\ b * w \in Nat
      BY <2>3, <2>8
    <3>2. b * w <= (R - 1) * w
      <4>. DEFINE e == R - 1 - b
      <4>1. e \in Nat /\ R - 1 = b + e
        BY <2>3, <2>8
      <4>. HIDE DEF e
      <4>2. (b + e) * w = b * w + e * w /\ e * w \in Nat /\ b * w \in Nat
        BY <2>3, <2>8, <4>1
      <4>. QED BY <4>1, <4>2
    <3>3. (R - 1) * w = v - w
      BY <2>3
    <3>. DEFINE bw == b * w
    <3>4. bw \in Nat /\ bw <= v - w
      BY <3>1, <3>2, <3>3
    <3>. HIDE DEF bw, v
    <3>5. bw + s \in 0 .. v - 1
      BY <2>3, <2>4, <3>1, <3>4
    <3>. QED BY <3>1, <3>4, <3>5 DEF bw
  <2>11. n \div v = a
    <3>. DEFINE r == b * w + s
    <3>. HIDE DEF r, v
    <3>1. IsDivision(n, v, a, r)
      BY <2>8, <2>9, <2>10 DEF IsDivision, r
    <3>. QED BY <3>1, Divided
  <2>12. s + b * w = b * w + s
    BY <2>4, <2>10
  <2>. QED BY <2>3, <2>6, <2>9, <2>11, <2>12
<1>. HIDE DEF D
<1>6. m \in D
  BY <1>0, <1>4, <1>5, Induction
<1>. QED BY <1>0, <1>3, <1>6 DEF D

\* a number of the MAC: all of its limbs
MacWorth(h) == Worth(MacScale, h, MacLimbs)
AreMacLimbs(h) == AreLimbs(MacScale, h, MacLimbs) /\ DOMAIN h = 1 .. MacLimbs

LEMMA ToLimbsIs ==
    ASSUME NEW n \in Nat, n < MacScale.at[MacLimbs]
    PROVE  AreMacLimbs(ToLimbs(n)) /\ MacWorth(ToLimbs(n)) = n
<1>. DEFINE x == ToLimbs(n)
            w == MacScale.at[MacLimbs]
<1>1. MacLimbs \in Nat /\ w \in Nat \ {0}
  <2>1. MacLimbs \in Nat /\ MacLimbs \in 0 .. MacLimbs + 1
    BY MacSizes
  <2>. QED BY <2>1, MacScaleIs
<1>2. \A i \in 1 .. MacLimbs : x[i] = (n \div MacScale.at[i - 1]) % MacScale.base
  <2>. SUFFICES ASSUME NEW i \in 1 .. MacLimbs
                PROVE  x[i] = (n \div MacScale.at[i - 1]) % MacScale.base
    OBVIOUS
  <2>1. i - 1 \in 0 .. MacLimbs + 1
    BY <1>1
  <2>. QED BY <2>1, MacScaleIs DEF ToLimbs, MacLimb
<1>3. DOMAIN x = 1 .. MacLimbs
  BY DEF ToLimbs
<1>. HIDE DEF x
<1>4. AreDigits(x, MacScale, MacLimbs, n)
  BY <1>1, <1>2, MacScaleIs DEF AreDigits
<1>5. AreLimbs(MacScale, x, MacLimbs) /\ n = (n \div w) * w + MacWorth(x)
  BY <1>4, DigitsWorth DEF MacWorth
<1>6. n \div w = 0
  <2>. HIDE DEF w
  <2>1. IsDivision(n, w, 0, n)
    BY <1>1 DEF IsDivision, w
  <2>. QED BY <2>1, Divided
<1>7. MacWorth(x) \in Int
  BY <1>5, LimbsAreNumbers, SumInt DEF MacWorth
<1>8. n = MacWorth(x)
  <2>. HIDE DEF w
  <2>. QED BY <1>1, <1>5, <1>6, <1>7
<1>. QED BY <1>3, <1>5, <1>8 DEF x, AreMacLimbs

Octet == 0 .. 2 ^ ByteBits - 1

\* A whole block with a one behind it is worth BlockMod more; the last block's
\* filling is that one.
LEMMA BlockWorth ==
    ASSUME NEW bytes \in Seq(Octet), Len(bytes) <= BlockSize
    PROVE  /\ LittleEndian(Append(bytes, 1)) \in Nat
           /\ Len(bytes) = BlockSize => /\ LittleEndian(bytes) \in 0 .. BlockMod - 1
                                        /\ LittleEndian(Append(bytes, 1)) = LittleEndian(bytes) + BlockMod
           /\ Len(bytes) < BlockSize => /\ LittleEndian(Padded(bytes)) \in 0 .. BlockMod - 1
                                        /\ LittleEndian(Append(bytes, 1)) = LittleEndian(Padded(bytes))
<1>. DEFINE d == Len(bytes)
            app == Append(bytes, 1)
            b == 2 ^ ByteBits
            B == BlockSize
<1>1. /\ IsScale(ByteScale) /\ ByteScale.last = B + 1 /\ ByteScale.base = b
      /\ ByteScale.at[B] = BlockMod /\ B \in Nat \ {0} /\ b \in Nat /\ b >= 2 /\ 1 \in Octet
  <2>1. b \in Nat \ {0, 1}
    BY MacPowersAssumption
  <2>. HIDE DEF b
  <2>2. b \in Nat /\ b >= 2 /\ 1 \in 0 .. b - 1
    BY <2>1
  <2>. QED BY <2>2, ByteScaleIs, MacSizes DEF Octet, b
<1>2. d \in Nat /\ d <= B /\ DOMAIN bytes = 1 .. d /\ \A i \in 1 .. d : bytes[i] \in Octet
  OBVIOUS
<1>3. /\ DOMAIN app = 1 .. d + 1 /\ app[d + 1] = 1 /\ \A i \in 1 .. d : app[i] = bytes[i]
      /\ \A i \in 1 .. d + 1 : app[i] \in Octet
  <2>. HIDE DEF Octet, b
  <2>1. app \in Seq(Octet) /\ Len(app) = d + 1
    BY <1>1
  <2>. QED BY <2>1
<1>. HIDE DEF d, app, b, B
<1>4. \A x : \A n \in 0 .. B + 1 : (\A i \in 1 .. n : x[i] \in Octet) => AreLimbs(ByteScale, x, n)
  BY <1>1 DEF AreLimbs, Octet, b
<1>5. d \in 0 .. B + 1 /\ d + 1 \in 0 .. B + 1 /\ B \in 0 .. B + 1
  BY <1>1, <1>2
<1>6. AreLimbs(ByteScale, bytes, d) /\ AreLimbs(ByteScale, app, d + 1) /\ AreLimbs(ByteScale, app, d)
  <2>1. \A i \in 1 .. d : app[i] \in Octet
    BY <1>2, <1>3
  <2>. QED BY <1>2, <1>3, <1>4, <1>5, <2>1
<1>7. Numbers(ByteScale, bytes, d) /\ Numbers(ByteScale, app, d + 1) /\ Numbers(ByteScale, app, d)
  BY <1>6, LimbsAreNumbers
<1>8. LittleEndian(bytes) = Worth(ByteScale, bytes, d) /\ LittleEndian(app) = Worth(ByteScale, app, d + 1)
  BY <1>2, <1>3, <1>7, LittleEndianIs
<1>9. Worth(ByteScale, app, d) = Worth(ByteScale, bytes, d)
  <2>1. AreSame(ByteScale, app, bytes, d)
    BY <1>3, <1>7 DEF AreSame
  <2>. QED BY <2>1, SumSame
<1>10. Worth(ByteScale, app, d + 1) = Worth(ByteScale, bytes, d) + ByteScale.at[d]
       /\ Worth(ByteScale, bytes, d) \in Int /\ ByteScale.at[d] \in Nat \ {0}
  <2>1. Numbers(ByteScale, app, d + 1) /\ d \in Nat /\ d + 1 <= d + 1
    BY <1>2, <1>7
  <2>2. Worth(ByteScale, app, d + 1) = Worth(ByteScale, app, d) + app[d + 1] * ByteScale.at[d]
        /\ Worth(ByteScale, app, d) \in Int /\ ByteScale.at[d] \in Nat \ {0}
    BY <2>1, SumStep
  <2>. QED BY <1>3, <1>9, <2>2
<1>11. LittleEndian(app) \in Nat
  <2>1. Worth(ByteScale, bytes, d) \in 0 .. ByteScale.at[d] - 1
    BY <1>6, SumBound
  <2>. QED BY <1>8, <1>10, <2>1
<1>12. ASSUME d = B
       PROVE  LittleEndian(bytes) \in 0 .. BlockMod - 1 /\ LittleEndian(app) = LittleEndian(bytes) + BlockMod
  <2>1. Worth(ByteScale, bytes, d) \in 0 .. ByteScale.at[d] - 1
    BY <1>6, SumBound
  <2>. QED BY <1>1, <1>8, <1>10, <1>12, <2>1
<1>13. ASSUME d < B
       PROVE  /\ LittleEndian(Padded(bytes)) \in 0 .. BlockMod - 1
              /\ LittleEndian(app) = LittleEndian(Padded(bytes))
  <2>. DEFINE pad == Padded(bytes)
  <2>1. /\ DOMAIN pad = 1 .. B
        /\ \A i \in 1 .. B : pad[i] = IF i <= d THEN bytes[i] ELSE IF i = d + 1 THEN 1 ELSE 0
    BY DEF Padded, B, d
  <2>2. 0 \in Octet
    BY <1>1 DEF Octet, b
  <2>. HIDE DEF pad
  <2>3. \A i \in 1 .. B : pad[i] \in Octet
    BY <1>1, <1>2, <2>1, <2>2
  <2>4. d + 1 \in Nat /\ d + 1 <= B /\ \A i \in 1 .. d + 1 : i \in 1 .. B
    BY <1>1, <1>2, <1>13
  <2>5. AreLimbs(ByteScale, pad, B) /\ AreLimbs(ByteScale, pad, d + 1)
    BY <1>4, <1>5, <2>3, <2>4
  <2>6. Numbers(ByteScale, pad, B) /\ Numbers(ByteScale, pad, d + 1)
    BY <2>5, LimbsAreNumbers
  <2>7. LittleEndian(pad) = Worth(ByteScale, pad, B)
    BY <2>1, <2>6, LittleEndianIs
  <2>8. Worth(ByteScale, pad, B) = Worth(ByteScale, pad, d + 1)
    <3>1. \A i \in (d + 1) + 1 .. B : pad[i] = 0
      BY <1>1, <1>2, <2>1
    <3>2. AreZero(ByteScale, pad, d + 1, B)
      BY <2>4, <2>6, <3>1 DEF AreZero
    <3>. QED BY <3>2, SumZeros
  <2>9. Worth(ByteScale, pad, d + 1) = Worth(ByteScale, app, d + 1)
    <3>1. \A i \in 1 .. d + 1 : pad[i] = app[i]
      <4>. SUFFICES ASSUME NEW i \in 1 .. d + 1 PROVE pad[i] = app[i]
        OBVIOUS
      <4>1. i \in 1 .. B /\ (i <= d \/ i = d + 1) /\ (i <= d => i \in 1 .. d) /\ ~(d + 1 <= d)
        BY <1>2, <2>4
      <4>. QED BY <1>3, <2>1, <4>1
    <3>2. AreSame(ByteScale, pad, app, d + 1)
      BY <1>7, <2>6, <3>1 DEF AreSame
    <3>. QED BY <3>2, SumSame
  <2>10. Worth(ByteScale, pad, B) \in 0 .. BlockMod - 1
    BY <1>1, <2>5, SumBound
  <2>. QED BY <1>8, <2>7, <2>8, <2>9, <2>10 DEF pad
<1>. QED BY <1>11, <1>12, <1>13 DEF d, app, B

-----------------------------------------------------------------------------
(* Poly1305: the carry *)

CarryTurn(acc, i) ==
    [h |-> [acc.h EXCEPT ![i] = (acc.h[i] + acc.carry) % MacRadix],
     carry |-> (acc.h[i] + acc.carry) \div MacRadix]
CarryEnd(up) ==
    LET low == up.h[1] + 5 * up.carry IN
    [up.h EXCEPT ![1] = low % MacRadix, ![2] = @ + (low \div MacRadix)]

Numerals == [1 .. MacLimbs -> Int]
Carries == [h : Numerals, carry : Int]

\* limb by limb, from limb `first' up
IsCarrying(a, h, first) ==
    LET n == MacLimbs + 1 - first IN
    /\ a[0] = [h |-> h, carry |-> 0] /\ Carried(h, first) = CarryEnd(a[n])
    /\ \A i \in 1 .. n : a[i] = CarryTurn(a[i - 1], i + first - 1)

LEMMA CarryTypes ==
    ASSUME NEW c \in Carries, NEW i \in 1 .. MacLimbs
    PROVE  CarryTurn(c, i) \in Carries
<1>. DEFINE t == c.h[i] + c.carry
<1>1. t \in Int
  <2>1. c.h \in Numerals /\ c.carry \in Int
    BY DEF Carries
  <2>2. c.h[i] \in Int
    BY <2>1 DEF Numerals
  <2>. QED BY <2>1, <2>2
<1>2. MacRadix \in Nat \ {0}
  BY MacSizes
<1>. HIDE DEF t
<1>. DEFINE R == MacRadix
            m == t % R
            d == t \div R
<1>. HIDE DEF R
<1>3. m \in Int /\ d \in Int
  BY <1>1, <1>2, DividedIs DEF R
<1>. HIDE DEF m, d
<1>4. CarryTurn(c, i) = [h |-> [c.h EXCEPT ![i] = m], carry |-> d]
  BY DEF CarryTurn, m, d, t, R
<1>5. [c.h EXCEPT ![i] = m] \in Numerals
  BY <1>3 DEF Carries, Numerals
<1>. QED BY <1>3, <1>4, <1>5 DEF Carries

LEMMA CarryTurns ==
    ASSUME NEW h \in Numerals, NEW first \in {1, 2}
    PROVE  \E a : IsCarrying(a, h, first)
<1>. DEFINE n == MacLimbs + 1 - first
            ids == [i \in 1 .. n |-> i + first - 1]
            start == [h |-> h, carry |-> 0]
            iter[S \in SUBSET (DOMAIN ids)] ==
               IF S = {} THEN start
               ELSE LET x == Max(S) IN CarryTurn(iter[S \ {x}], ids[x])
            F == [p \in Nat \X Carries |-> IF p[1] \in 1 .. n THEN CarryTurn(p[2], p[1] + first - 1) ELSE p[2]]
<1>0. n \in Nat /\ MacLimbs \in Nat /\ \A i \in 1 .. n : i + first - 1 \in 1 .. MacLimbs
  BY MacSizes
<1>1. start \in Carries
  BY DEF Carries
<1>2. F \in [Nat \X Carries -> Carries]
  <2>1. \A p \in Nat \X Carries : p[1] \in Nat /\ p[2] \in Carries
    OBVIOUS
  <2>2. ASSUME NEW c \in Carries, NEW i \in 1 .. n PROVE CarryTurn(c, i + first - 1) \in Carries
    <3>. DEFINE j == i + first - 1
    <3>1. j \in 1 .. MacLimbs
      BY <1>0
    <3>. HIDE DEF j
    <3>2. CarryTurn(c, j) \in Carries
      BY <3>1, CarryTypes
    <3>. QED BY <3>2 DEF j
  <2>. HIDE DEF n
  <2>. QED BY <2>1, <2>2
<1>3. DOMAIN ids = 1 .. n /\ \A i \in 1 .. n : ids[i] = i + first - 1
  OBVIOUS
<1>4. \A i \in Nat, c \in Carries : i \in 1 .. n => F[<<i, c>>] = CarryTurn(c, i + first - 1)
  OBVIOUS
<1>. HIDE DEF F, start, n
<1>5. PICK g : IsFold(g, Carries, F, start, n)
  BY <1>0, <1>1, <1>2, FoldTurns
<1>6. g = [S \in SUBSET (DOMAIN ids) |->
              IF S = {} THEN start ELSE CarryTurn(g[S \ {Max(S)}], ids[Max(S)])]
  <2>. HIDE DEF ids
  <2>1. ASSUME NEW S \in SUBSET (1 .. n), S # {}
        PROVE  g[S] = CarryTurn(g[S \ {Max(S)}], ids[Max(S)])
    <3>1. /\ Max(S) \in 1 .. n /\ Max(S) \in Nat /\ g[S \ {Max(S)}] \in Carries
          /\ g[S] = F[<<Max(S), g[S \ {Max(S)}]>>]
      BY <1>5, <2>1 DEF IsFold
    <3>. QED BY <1>3, <1>4, <3>1
  <2>. QED BY <1>3, <1>5, <2>1 DEF IsFold
<1>7. iter = CHOOSE f : f = [S \in SUBSET (DOMAIN ids) |->
              IF S = {} THEN start ELSE CarryTurn(f[S \ {Max(S)}], ids[Max(S)])]
  BY Zenon
<1>8. iter = [S \in SUBSET (DOMAIN ids) |->
              IF S = {} THEN start ELSE CarryTurn(iter[S \ {Max(S)}], ids[Max(S)])]
  <2>. HIDE DEF iter, ids
  <2>. QED BY <1>6, <1>7
<1>9. Carried(h, first) = CarryEnd(iter[DOMAIN ids])
  BY DEF Carried, FoldLeft, MapThenFoldSet, CarryTurn, CarryEnd, start, n
<1>. DEFINE a == [i \in 0 .. n |-> iter[1 .. i]]
<1>. HIDE DEF iter, ids
<1>10. a[0] = start /\ a[n] = iter[DOMAIN ids]
  <2>1. 1 .. 0 = {} /\ {} \in SUBSET (DOMAIN ids) /\ 0 \in 0 .. n /\ n \in 0 .. n
    BY <1>0
  <2>2. iter[{}] = start
    BY <1>8, <2>1
  <2>. QED BY <1>3, <2>1, <2>2
<1>11. ASSUME NEW i \in 1 .. n
       PROVE  a[i] = CarryTurn(a[i - 1], i + first - 1)
  <2>1. /\ Max(1 .. i) = i /\ (1 .. i) \ {i} = 1 .. (i - 1) /\ 1 .. i # {}
        /\ 1 .. i \in SUBSET (DOMAIN ids) /\ i \in 0 .. n /\ i - 1 \in 0 .. n
    BY <1>0, <1>3, UpTo
  <2>2. iter[1 .. i] = CarryTurn(iter[(1 .. i) \ {Max(1 .. i)}], ids[Max(1 .. i)])
    BY <1>8, <2>1
  <2>3. a[i] = iter[1 .. i] /\ a[i - 1] = iter[1 .. (i - 1)]
    BY <2>1
  <2>. HIDE DEF a
  <2>. QED BY <1>3, <2>1, <2>2, <2>3
<1>. HIDE DEF a
<1>12. IsCarrying(a, h, first)
  BY <1>9, <1>10, <1>11 DEF IsCarrying, start, n
<1>. QED BY <1>12

\* after the limbs up to m
IsCarried(c, h, first, m) ==
    /\ c \in Carries
    /\ MacWorth(c.h) + c.carry * MacScale.at[m] = MacWorth(h)
    /\ \A i \in 1 .. MacLimbs : IF i < first \/ i > m THEN c.h[i] = h[i] ELSE c.h[i] \in 0 .. MacRadix - 1

LEMMA NumeralsAre ==
    ASSUME NEW h \in Numerals
    PROVE  Numbers(MacScale, h, MacLimbs) /\ MacWorth(h) \in Int
<1>1. MacLimbs \in 0 .. MacScale.last
  BY MacSizes, MacScaleIs
<1>2. Numbers(MacScale, h, MacLimbs)
  BY <1>1, MacScaleIs DEF Numbers, Numerals
<1>. QED BY <1>2, SumInt DEF MacWorth

LEMMA CarrySteps ==
    ASSUME NEW h \in Numerals, NEW first \in {1, 2}, NEW m \in Nat, first <= m + 1, m + 1 <= MacLimbs,
           NEW c, IsCarried(c, h, first, m)
    PROVE  IsCarried(CarryTurn(c, m + 1), h, first, m + 1)
<1>. DEFINE R == MacRadix
            j == m + 1
            old == c.h
            t == old[j] + c.carry
            r == t % R
            q == t \div R
            new == [old EXCEPT ![j] = r]
            w == MacScale.at[m]
<1>0. /\ c \in Carries /\ MacWorth(old) + c.carry * w = MacWorth(h)
      /\ \A i \in 1 .. MacLimbs : IF i < first \/ i > m THEN old[i] = h[i] ELSE old[i] \in 0 .. R - 1
  BY DEF IsCarried
<1>1. old \in Numerals /\ c.carry \in Int
  BY <1>0 DEF Carries
<1>2. MacLimbs \in Nat /\ R \in Nat \ {0} /\ j \in 1 .. MacLimbs /\ j - 1 = m /\ m \in 0 .. MacLimbs
  BY MacSizes
<1>3. w \in Nat \ {0} /\ MacScale.at[m + 1] = R * w
  <2>1. m \in 0 .. MacScale.last
    BY <1>2, MacScaleIs
  <2>. QED BY <2>1, MacScaleIs DEF IsScale
<1>4. CarryTurn(c, m + 1) = [h |-> new, carry |-> q]
  BY DEF CarryTurn
<1>. HIDE DEF R, j, old, w
<1>5. t \in Int /\ old[j] \in Int
  BY <1>1, <1>2 DEF Numerals
<1>. HIDE DEF t
<1>6. r \in 0 .. R - 1 /\ q \in Int /\ t = q * R + r
  BY <1>2, <1>5, DividedIs
<1>. HIDE DEF r, q
<1>7. new \in Numerals /\ new[j] = r /\ \A i \in 1 .. MacLimbs : i # j => new[i] = old[i]
  <2>1. r \in Int
    BY <1>6
  <2>. QED BY <1>1, <1>2, <2>1 DEF Numerals
<1>. HIDE DEF new
<1>8. MacWorth(new) = MacWorth(old) + (r - old[j]) * w
  <2>1. r \in Int /\ Numbers(MacScale, old, MacLimbs)
    BY <1>1, <1>6, NumeralsAre
  <2>2. IsSet(new, MacScale, old, MacLimbs, j, r)
    BY <1>2, <1>7, <2>1 DEF IsSet
  <2>3. Worth(MacScale, new, MacLimbs) = Worth(MacScale, old, MacLimbs) + (r - old[j]) * MacScale.at[j - 1]
    BY <2>2, SumChange
  <2>. QED BY <1>2, <2>3 DEF MacWorth, w
<1>9. MacWorth(new) + q * MacScale.at[j] = MacWorth(h)
  <2>. DEFINE x == old[j]
              e == c.carry
              v == MacWorth(old)
  <2>1. t = x + e /\ x \in Int /\ e \in Int /\ v \in Int /\ r \in Int
    BY <1>1, <1>5, <1>6, NumeralsAre DEF t
  <2>2. MacWorth(new) = v + (r - x) * w /\ v + e * w = MacWorth(h)
    BY <1>0, <1>8
  <2>3. MacScale.at[j] = R * w
    BY <1>3 DEF j
  <2>. HIDE DEF x, e, v
  <2>4. (r - x) * w + q * (R * w) = e * w
    <3>1. r - x = e - q * R
      BY <1>2, <1>6, <2>1
    <3>. DEFINE u == q * R
    <3>2. u \in Int
      BY <1>2, <1>6
    <3>3. u * w = q * (R * w)
      BY <1>2, <1>3, <1>6
    <3>. HIDE DEF u
    <3>4. (e - u) * w = e * w - u * w
      BY <1>3, <2>1, <3>2
    <3>5. e * w \in Int /\ u * w \in Int
      BY <1>3, <2>1, <3>2
    <3>6. r - x = e - u
      BY <3>1 DEF u
    <3>. QED BY <3>3, <3>4, <3>5, <3>6
  <2>. DEFINE aw == (r - x) * w
              bw == q * (R * w)
              cw == e * w
  <2>5. aw \in Int /\ bw \in Int /\ cw \in Int
    BY <1>2, <1>3, <1>6, <2>1
  <2>6. aw + bw = cw /\ MacWorth(new) = v + aw /\ v + cw = MacWorth(h) /\ q * MacScale.at[j] = bw
    BY <2>2, <2>3, <2>4
  <2>. HIDE DEF aw, bw, cw
  <2>. QED BY <2>1, <2>5, <2>6
<1>10. ASSUME NEW i \in 1 .. MacLimbs
       PROVE  IF i < first \/ i > j THEN new[i] = h[i] ELSE new[i] \in 0 .. R - 1
  <2>1. CASE i = j
    <3>1. ~(i < first) /\ ~(i > j)
      BY <1>2, <2>1 DEF j
    <3>. QED BY <1>6, <1>7, <2>1, <3>1
  <2>2. CASE i # j
    <3>1. new[i] = old[i] /\ (i > m <=> i > j)
      BY <1>7, <2>2 DEF j
    <3>. QED BY <1>0, <3>1
  <2>. QED BY <2>1, <2>2
<1>11. [h |-> new, carry |-> q] \in Carries
  BY <1>6, <1>7 DEF Carries
<1>. QED BY <1>4, <1>9, <1>10, <1>11 DEF IsCarried, R, j

LEMMA CarryAlong ==
    ASSUME NEW h \in Numerals, NEW first \in {1, 2}, NEW a, IsCarrying(a, h, first),
           NEW k \in 0 .. MacLimbs + 1 - first
    PROVE  IsCarried(a[k], h, first, k + first - 1)
<1>. DEFINE n == MacLimbs + 1 - first
            D == {i \in Nat : i <= n => IsCarried(a[i], h, first, i + first - 1)}
<1>0. n \in Nat /\ MacLimbs \in Nat
  BY MacSizes
<1>1. a[0] = [h |-> h, carry |-> 0] /\ \A i \in 1 .. n : a[i] = CarryTurn(a[i - 1], i + first - 1)
  BY DEF IsCarrying
<1>2. 0 \in D
  <2>1. a[0].h = h /\ a[0].carry = 0 /\ a[0] \in Carries
    BY <1>1 DEF Carries
  <2>. DEFINE m == 0 + first - 1
  <2>2. m \in 0 .. MacLimbs /\ m = first - 1
    BY MacSizes
  <2>3. MacScale.at[m] \in Nat /\ MacWorth(h) \in Int
    <3>1. m \in 0 .. MacLimbs + 1
      BY <1>0, <2>2
    <3>. HIDE DEF m
    <3>. QED BY <3>1, MacScaleIs, NumeralsAre
  <2>4. \A i \in 1 .. MacLimbs : i < first \/ i > m
    BY <1>0, <2>2
  <2>. HIDE DEF m
  <2>5. MacWorth(a[0].h) + a[0].carry * MacScale.at[m] = MacWorth(h)
    BY <2>1, <2>3
  <2>6. IsCarried(a[0], h, first, m)
    BY <2>1, <2>4, <2>5 DEF IsCarried
  <2>. QED BY <2>6 DEF m
<1>3. ASSUME NEW i \in Nat, i \in D PROVE i + 1 \in D
  <2>. SUFFICES ASSUME i + 1 <= n PROVE IsCarried(a[i + 1], h, first, (i + 1) + first - 1)
    OBVIOUS
  <2>. DEFINE j == i + 1
              m == i + first - 1
  <2>1. i <= n /\ j \in 1 .. n /\ j - 1 = i /\ m \in Nat /\ first <= m + 1 /\ m + 1 <= MacLimbs
        /\ j + first - 1 = m + 1
    BY <1>0
  <2>2. IsCarried(a[i], h, first, m)
    BY <1>3, <2>1
  <2>. HIDE DEF j, m
  <2>3. a[j] = CarryTurn(a[i], m + 1)
    BY <1>1, <2>1
  <2>4. IsCarried(CarryTurn(a[i], m + 1), h, first, m + 1)
    BY <2>1, <2>2, CarrySteps
  <2>. QED BY <2>1, <2>3, <2>4 DEF j
<1>. HIDE DEF D
<1>4. k \in Nat /\ k <= n
  BY <1>0
<1>5. k \in D
  BY <1>2, <1>3, <1>4, Induction
<1>. QED BY <1>4, <1>5 DEF D

\* y differs from x by multiples of the prime
IsLike(y, x) == x \in Int /\ y \in Int /\ \E e \in Int : y = x + e * MacPrime

\* what the carry out of the last limb is worth, at the bottom
IsEnd(z, up) ==
    LET low == up.h[1] + 5 * up.carry IN
    /\ z \in Numerals /\ z[1] = low % MacRadix /\ z[2] = up.h[2] + (low \div MacRadix)
    /\ \A i \in 3 .. MacLimbs : z[i] = up.h[i]

LEMMA CarryEnds ==
    ASSUME NEW h \in Numerals, NEW first \in {1, 2}, NEW up, IsCarried(up, h, first, MacLimbs)
    PROVE  IsEnd(CarryEnd(up), up) /\ IsLike(MacWorth(CarryEnd(up)), MacWorth(h))
<1>. DEFINE R == MacRadix
            x == up.h
            c == up.carry
            low == x[1] + 5 * c
            r == low % R
            q == low \div R
            y == [x EXCEPT ![1] = r]
            z == [x EXCEPT ![1] = r, ![2] = @ + q]
            v == x[2] + q
<1>0. MacLimbs \in Nat /\ MacLimbs >= 2 /\ R \in Nat \ {0} /\ 1 \in 1 .. MacLimbs /\ 2 \in 1 .. MacLimbs
  BY MacSizes
<1>1. up \in Carries /\ MacWorth(x) + c * MacScale.at[MacLimbs] = MacWorth(h)
  BY DEF IsCarried
<1>2. x \in Numerals /\ c \in Int
  BY <1>1 DEF Carries
<1>3. CarryEnd(up) = z
  BY DEF CarryEnd
<1>. HIDE DEF R, x, c
<1>4. x[1] \in Int /\ x[2] \in Int /\ low \in Int
  <2>1. x[1] \in Int /\ x[2] \in Int
    BY <1>0, <1>2 DEF Numerals
  <2>. QED BY <1>2, <2>1
<1>. HIDE DEF low
<1>5. r \in 0 .. R - 1 /\ q \in Int /\ low = q * R + r
  BY <1>0, <1>4, DividedIs
<1>. HIDE DEF r, q
<1>6. y \in Numerals /\ y[1] = r /\ \A i \in 1 .. MacLimbs : i # 1 => y[i] = x[i]
  <2>1. r \in Int
    BY <1>5
  <2>. QED BY <1>0, <1>2, <2>1 DEF Numerals
<1>7. v \in Int
  BY <1>4, <1>5
<1>8. z \in Numerals /\ z[1] = r /\ z[2] = v /\ \A i \in 1 .. MacLimbs : i # 1 /\ i # 2 => z[i] = x[i]
  <2>1. r \in Int
    BY <1>5
  <2>2. z = [y EXCEPT ![2] = v]
    BY <1>0, <1>2 DEF Numerals
  <2>. HIDE DEF y, v, z
  <2>3. z \in Numerals /\ z[2] = v /\ \A i \in 1 .. MacLimbs : i # 2 => z[i] = y[i]
    BY <1>0, <1>6, <1>7, <2>2 DEF Numerals
  <2>. QED BY <1>0, <1>6, <2>3
<1>. HIDE DEF y, z
<1>9. IsEnd(z, up)
  <2>1. \A i \in 3 .. MacLimbs : i \in 1 .. MacLimbs /\ i # 1 /\ i # 2
    BY <1>0
  <2>2. \A i \in 3 .. MacLimbs : z[i] = x[i]
    BY <1>8, <2>1
  <2>. QED BY <1>8, <2>2 DEF IsEnd, v, r, q, low, R, x, c
<1>10. MacWorth(y) = MacWorth(x) + (r - x[1])
  <2>1. IsSet(y, MacScale, x, MacLimbs, 1, r)
    <3>1. r \in Int
      BY <1>5
    <3>. QED BY <1>0, <1>2, <1>6, <3>1, NumeralsAre DEF IsSet
  <2>2. Worth(MacScale, y, MacLimbs) = Worth(MacScale, x, MacLimbs) + (r - x[1]) * MacScale.at[1 - 1]
    BY <2>1, SumChange
  <2>3. MacScale.at[1 - 1] = 1
    BY MacScaleIs
  <2>4. r - x[1] \in Int
    BY <1>4, <1>5
  <2>. QED BY <2>2, <2>3, <2>4 DEF MacWorth
<1>11. MacWorth(z) = MacWorth(y) + q * R
  <2>1. y[2] = x[2]
    BY <1>0, <1>6
  <2>2. \A i \in 1 .. MacLimbs : i # 2 => z[i] = y[i]
    <3>. SUFFICES ASSUME NEW i \in 1 .. MacLimbs, i # 2 PROVE z[i] = y[i]
      OBVIOUS
    <3>. QED BY <1>6, <1>8
  <2>3. IsSet(z, MacScale, y, MacLimbs, 2, v)
    BY <1>0, <1>6, <1>7, <1>8, <2>2, NumeralsAre DEF IsSet
  <2>4. Worth(MacScale, z, MacLimbs) = Worth(MacScale, y, MacLimbs) + (v - y[2]) * MacScale.at[2 - 1]
    BY <2>3, SumChange
  <2>5. v - y[2] = q /\ MacScale.at[2 - 1] = R
    BY <1>4, <1>5, <2>1, MacScaleIs DEF R, v
  <2>. QED BY <2>4, <2>5 DEF MacWorth
<1>12. MacWorth(z) = MacWorth(h) + (-c) * MacPrime /\ -c \in Int
  <2>. DEFINE p == MacPrime
              w == MacWorth(x)
  <2>1. p \in Int /\ w \in Int /\ w + c * (p + 5) = MacWorth(h)
    BY <1>1, <1>2, MacSizes, NumeralsAre
  <2>2. MacWorth(z) = w + (r - x[1]) + q * R
    BY <1>10, <1>11
  <2>. HIDE DEF p, w
  <2>3. c * (p + 5) = c * p + 5 * c /\ (-c) * p = -(c * p) /\ c * p \in Int /\ c * (p + 5) \in Int
    BY <1>2, <2>1
  <2>. DEFINE qr == q * R
              cp == c * p
  <2>4. qr \in Int /\ cp \in Int /\ (-c) * p = -cp
    BY <1>0, <1>2, <1>5, <2>1, <2>3
  <2>5. x[1] + 5 * c = qr + r /\ w + (cp + 5 * c) = MacWorth(h) /\ MacWorth(z) = w + (r - x[1]) + qr
    BY <1>5, <2>1, <2>2, <2>3 DEF low
  <2>. HIDE DEF qr, cp
  <2>6. MacWorth(z) = MacWorth(h) + (-cp)
    BY <1>2, <1>4, <1>5, <2>1, <2>4, <2>5
  <2>. QED BY <1>2, <2>4, <2>6 DEF p
<1>13. IsLike(MacWorth(z), MacWorth(h))
  BY <1>8, <1>12, NumeralsAre DEF IsLike
<1>. QED BY <1>3, <1>9, <1>13

LEMMA QuotientBelow ==
    ASSUME NEW t \in Nat, NEW d \in Nat \ {0}, NEW c \in Nat, t < (c + 1) * d
    PROVE  t \div d \in 0 .. c /\ t % d \in 0 .. d - 1
<1>. DEFINE q == t \div d
            r == t % d
<1>1. q \in Int /\ r \in 0 .. d - 1 /\ t = q * d + r /\ q \in Nat
  <2>1. t \in Int /\ t >= 0
    OBVIOUS
  <2>. QED BY <2>1, DividedIs
<1>. HIDE DEF q, r
<1>2. q <= c
  <2>. SUFFICES ASSUME q > c PROVE FALSE
    BY <1>1
  <2>. DEFINE e == q - c - 1
  <2>1. e \in Nat /\ q = (c + 1) + e
    BY <1>1
  <2>. HIDE DEF e
  <2>2. ((c + 1) + e) * d = (c + 1) * d + e * d /\ e * d \in Nat /\ (c + 1) * d \in Nat
    BY <2>1
  <2>. QED BY <1>1, <2>1, <2>2
<1>. QED BY <1>1, <1>2 DEF q, r

\* limbs of a product before the carry, and of the accumulator after it: the second
\* keeps a little above its range
AreProducts(h) ==
    /\ h \in Numerals
    /\ \A i \in 1 .. MacLimbs : h[i] \in 0 .. 15 * (MacLimbs * MacRadix * MacRadix)
    /\ h[MacLimbs] <= 3 * (MacLimbs * MacRadix * MacRadix)
IsLoose(h) ==
    /\ h \in Numerals
    /\ \A i \in 1 .. MacLimbs : i # 2 => h[i] \in 0 .. MacRadix - 1
    /\ h[2] \in 0 .. MacRadix - 1 + 20 * MacLimbs

LEMMA CarryBelow ==
    ASSUME NEW h, AreProducts(h), NEW a, IsCarrying(a, h, 1)
    PROVE  a[MacLimbs].carry \in 0 .. 4 * (MacLimbs * MacRadix)
<1>. DEFINE R == MacRadix
            L == MacLimbs
            U == L * R
            D == {k \in Nat : k <= L => a[k].carry \in 0 .. 16 * U}
<1>0. L \in Nat /\ L >= 2 /\ R \in Nat /\ R > 40 /\ 1 \in {1, 2} /\ h \in Numerals
  BY MacSizes DEF AreProducts
<1>1. a[0].carry = 0 /\ \A k \in 1 .. L : a[k] = CarryTurn(a[k - 1], k)
  <2>1. L + 1 - 1 = L /\ \A k \in 1 .. L : k + 1 - 1 = k
    BY <1>0
  <2>2. /\ a[0] = [h |-> h, carry |-> 0]
        /\ \A k \in 1 .. L + 1 - 1 : a[k] = CarryTurn(a[k - 1], k + 1 - 1)
    BY DEF IsCarrying
  <2>3. \A k \in 1 .. L : a[k] = CarryTurn(a[k - 1], k)
    <3>. SUFFICES ASSUME NEW k \in 1 .. L PROVE a[k] = CarryTurn(a[k - 1], k)
      OBVIOUS
    <3>1. k \in 1 .. L + 1 - 1 /\ k + 1 - 1 = k
      BY <2>1
    <3>2. a[k] = CarryTurn(a[k - 1], k + 1 - 1)
      BY <2>2, <3>1
    <3>. QED BY <3>1, <3>2
  <2>. QED BY <2>2, <2>3
<1>. HIDE DEF L, R
<1>2. U \in Nat /\ U * R \in Nat /\ 16 * U <= U * R
  <2>1. U \in Nat
    BY <1>0
  <2>. HIDE DEF U
  <2>. DEFINE e == R - 16
  <2>2. e \in Nat /\ R = 16 + e
    BY <1>0
  <2>. HIDE DEF e
  <2>3. U * (16 + e) = 16 * U + U * e /\ U * e \in Nat
    BY <2>1, <2>2
  <2>. QED BY <2>1, <2>2, <2>3
<1>3. ASSUME NEW i \in 1 .. L
      PROVE  h[i] \in 0 .. 15 * (U * R) /\ (i = L => h[i] <= 3 * (U * R))
  BY DEF AreProducts, U, L, R
<1>. DEFINE V == U * R
<1>4. ASSUME NEW k \in Nat, k + 1 <= L, a[k].carry \in 0 .. 16 * U
      PROVE  /\ a[k + 1].carry = (h[k + 1] + a[k].carry) \div R
             /\ h[k + 1] + a[k].carry \in Nat
  <2>. DEFINE j == k + 1
  <2>1. k \in 0 .. MacLimbs + 1 - 1 /\ k + 1 - 1 = k /\ j \in 1 .. L /\ j - 1 = k /\ ~(j < 1) /\ j > k
    BY <1>0, <1>4 DEF L
  <2>2. IsCarried(a[k], h, 1, k + 1 - 1)
    BY <1>0, <2>1, CarryAlong
  <2>3. IsCarried(a[k], h, 1, k)
    BY <2>1, <2>2
  <2>. HIDE DEF j
  <2>4. a[k].h[j] = h[j]
    BY <2>1, <2>3 DEF IsCarried, L
  <2>5. a[j] = CarryTurn(a[k], j)
    BY <1>1, <2>1
  <2>6. a[j].carry = (h[j] + a[k].carry) \div R
    BY <2>4, <2>5 DEF CarryTurn, R
  <2>7. h[j] \in Nat
    BY <1>2, <1>3, <2>1
  <2>8. h[j] + a[k].carry \in Nat
    BY <1>2, <1>4, <2>7
  <2>. QED BY <2>6, <2>8 DEF j
<1>. HIDE DEF U
<1>5. 0 \in D
  BY <1>1, <1>2
<1>6. ASSUME NEW k \in Nat, k \in D PROVE k + 1 \in D
  <2>. SUFFICES ASSUME k + 1 <= L PROVE a[k + 1].carry \in 0 .. 16 * U
    OBVIOUS
  <2>. DEFINE t == h[k + 1] + a[k].carry
              c == 16 * U
  <2>1. k <= L /\ k + 1 \in 1 .. L
    BY <1>0
  <2>2. a[k].carry \in 0 .. 16 * U
    BY <1>6, <2>1
  <2>3. a[k + 1].carry = t \div R /\ t \in Nat
    BY <1>4, <2>2
  <2>4. h[k + 1] \in 0 .. 15 * V
    BY <1>3, <2>1
  <2>5. t < (c + 1) * R
    <3>1. (c + 1) * R = 16 * V + R
      BY <1>0, <1>2
    <3>2. V \in Nat /\ c <= V
      BY <1>2
    <3>. DEFINE y == (c + 1) * R
                x == a[k].carry
                u == h[k + 1]
    <3>3. y = 16 * V + R /\ x \in 0 .. c /\ u \in 0 .. 15 * V /\ c \in Nat
      BY <1>2, <2>2, <2>4, <3>1
    <3>. HIDE DEF V, c, y, x, u
    <3>4. u + x < y
      BY <1>0, <3>2, <3>3
    <3>. QED BY <3>4 DEF y, x, u
  <2>6. c \in Nat /\ R \in Nat \ {0}
    BY <1>0, <1>2
  <2>. HIDE DEF t, c
  <2>7. t \div R \in 0 .. c
    BY <2>3, <2>5, <2>6, QuotientBelow
  <2>. QED BY <2>3, <2>7 DEF c
<1>7. \A k \in Nat : k <= L => a[k].carry \in 0 .. 16 * U
  <2>. HIDE DEF D
  <2>1. Nat \subseteq D
    BY <1>5, <1>6, Induction
  <2>. QED BY <2>1 DEF D
<1>. DEFINE k == L - 1
            t == h[k + 1] + a[k].carry
            c == 4 * U
<1>8. k \in Nat /\ k <= L /\ k + 1 = L /\ k + 1 <= L /\ L \in 1 .. L
  BY <1>0
<1>. HIDE DEF k
<1>9. a[k].carry \in 0 .. 16 * U
  BY <1>7, <1>8
<1>10. a[L].carry = t \div R /\ t \in Nat
  BY <1>4, <1>8, <1>9
<1>11. t < (c + 1) * R
  <2>1. (c + 1) * R = 4 * V + R
    BY <1>0, <1>2
  <2>2. V \in Nat /\ 16 * U <= V
    BY <1>2
  <2>3. h[k + 1] \in 0 .. 15 * V /\ h[k + 1] <= 3 * V
    BY <1>3, <1>8
  <2>. DEFINE y == (c + 1) * R
              x == a[k].carry
              u == h[k + 1]
              b == 16 * U
  <2>4. y = 4 * V + R /\ x \in 0 .. b /\ b \in Nat /\ b <= V /\ u \in 0 .. 15 * V /\ u <= 3 * V
    BY <1>2, <1>9, <2>1, <2>2, <2>3
  <2>. HIDE DEF V, y, x, u, b
  <2>5. u + x < y
    BY <1>0, <2>2, <2>4
  <2>. QED BY <2>5 DEF y, x, u
<1>12. c \in Nat /\ R \in Nat \ {0}
  BY <1>0, <1>2
<1>. HIDE DEF t, c
<1>13. t \div R \in 0 .. c
  BY <1>10, <1>11, <1>12, QuotientBelow
<1>. QED BY <1>10, <1>13 DEF c, U, L, R

\* The accumulator after a block: the carry's end reaches the second limb only.
LEMMA CarriedBlock ==
    ASSUME NEW h, AreProducts(h)
    PROVE  IsLoose(Carried(h, 1)) /\ IsLike(MacWorth(Carried(h, 1)), MacWorth(h))
<1>. DEFINE R == MacRadix
            L == MacLimbs
<1>0. L \in Nat /\ L >= 2 /\ R \in Nat \ {0} /\ 1 \in {1, 2} /\ h \in Numerals /\ L + 1 - 1 = L
      /\ L \in 0 .. L + 1 - 1
  BY MacSizes DEF AreProducts
<1>1. PICK a : IsCarrying(a, h, 1)
  BY <1>0, CarryTurns
<1>. DEFINE up == a[L]
            z == CarryEnd(up)
            c == up.carry
            low == up.h[1] + 5 * c
<1>2. Carried(h, 1) = z
  BY <1>0, <1>1 DEF IsCarrying
<1>3. IsCarried(up, h, 1, L)
  <2>1. IsCarried(a[L], h, 1, L + 1 - 1)
    BY <1>0, <1>1, CarryAlong
  <2>. QED BY <1>0, <2>1
<1>4. c \in 0 .. 4 * (L * R)
  BY <1>1, CarryBelow
<1>. HIDE DEF z, c
<1>5. IsEnd(z, up) /\ IsLike(MacWorth(z), MacWorth(h))
  BY <1>0, <1>3, CarryEnds DEF z
<1>6. \A i \in 1 .. L : up.h[i] \in 0 .. R - 1
  <2>. SUFFICES ASSUME NEW i \in 1 .. L PROVE up.h[i] \in 0 .. R - 1
    OBVIOUS
  <2>1. ~(i < 1) /\ ~(i > L)
    BY <1>0
  <2>. QED BY <1>3, <2>1 DEF IsCarried
<1>. HIDE DEF L, R, up
<1>7. low \div R \in 0 .. 20 * L /\ low % R \in 0 .. R - 1
  <2>. DEFINE b == 20 * L
              U == L * R
  <2>1. U \in Nat /\ (b + 1) * R = 20 * U + R
    BY <1>0
  <2>2. c \in 0 .. 4 * U /\ up.h[1] \in 0 .. R - 1
    BY <1>0, <1>4, <1>6
  <2>. HIDE DEF U
  <2>3. low \in Nat /\ low < (b + 1) * R
    BY <1>0, <2>1, <2>2
  <2>4. b \in Nat
    BY <1>0
  <2>. HIDE DEF low, b
  <2>5. low \div R \in 0 .. b /\ low % R \in 0 .. R - 1
    BY <1>0, <2>3, <2>4, QuotientBelow
  <2>. QED BY <2>5 DEF b
<1>8. /\ z \in Numerals /\ z[1] = low % R /\ z[2] = up.h[2] + (low \div R)
      /\ \A i \in 3 .. L : z[i] = up.h[i]
  BY <1>5 DEF IsEnd, c, R, L
<1>. HIDE DEF low
<1>9. z[2] \in 0 .. R - 1 + 20 * L
  <2>. DEFINE q == low \div R
  <2>1. 2 \in 1 .. L
    BY <1>0
  <2>2. q \in 0 .. 20 * L /\ up.h[2] \in 0 .. R - 1 /\ z[2] = up.h[2] + q
    BY <1>6, <1>7, <1>8, <2>1
  <2>. HIDE DEF q
  <2>. QED BY <1>0, <2>2
<1>10. \A i \in 1 .. L : i # 2 => z[i] \in 0 .. R - 1
  <2>. SUFFICES ASSUME NEW i \in 1 .. L, i # 2 PROVE z[i] \in 0 .. R - 1
    OBVIOUS
  <2>1. i = 1 \/ i \in 3 .. L
    BY <1>0
  <2>. QED BY <1>6, <1>7, <1>8, <2>1
<1>. QED BY <1>2, <1>5, <1>8, <1>9, <1>10 DEF IsLoose, L, R

LEMMA MacLimbsAre ==
    ASSUME NEW x \in Numerals, \A i \in 1 .. MacLimbs : x[i] \in 0 .. MacRadix - 1
    PROVE  AreMacLimbs(x) /\ MacWorth(x) \in 0 .. MacPrime + 4
<1>1. AreLimbs(MacScale, x, MacLimbs)
  <2>1. MacLimbs \in 0 .. MacScale.last
    BY MacSizes, MacScaleIs
  <2>. QED BY <2>1, MacScaleIs DEF AreLimbs
<1>2. Worth(MacScale, x, MacLimbs) \in 0 .. MacScale.at[MacLimbs] - 1
  BY <1>1, SumBound
<1>3. MacWorth(x) \in 0 .. MacPrime + 4
  BY <1>2, MacSizes DEF MacWorth
<1>. QED BY <1>1, <1>3 DEF AreMacLimbs, Numerals

\* what the accumulator is at most
LEMMA LooseBelow ==
    ASSUME NEW h, IsLoose(h)
    PROVE  MacWorth(h) \in 0 .. MacPrime + 4 + 20 * (MacLimbs * MacRadix)
<1>. DEFINE R == MacRadix
            L == MacLimbs
            b == IF h[2] <= R - 1 THEN h[2] ELSE R - 1
            d == h[2] - b
            x == [h EXCEPT ![2] = b]
<1>0. /\ L \in Nat /\ L >= 2 /\ R \in Nat \ {0} /\ 2 \in 1 .. L /\ MacPrime \in Nat
      /\ h \in Numerals /\ h[2] \in 0 .. R - 1 + 20 * L
      /\ \A i \in 1 .. L : i # 2 => h[i] \in 0 .. R - 1
  BY MacSizes DEF IsLoose
<1>. HIDE DEF L, R
<1>1. b \in 0 .. R - 1 /\ d \in 0 .. 20 * L
  BY <1>0
<1>. HIDE DEF b
<1>2. x \in Numerals /\ x[2] = b /\ \A i \in 1 .. L : i # 2 => x[i] = h[i]
  BY <1>0, <1>1 DEF Numerals, L
<1>. HIDE DEF x
<1>3. \A i \in 1 .. L : x[i] \in 0 .. R - 1
  BY <1>0, <1>1, <1>2
<1>4. MacWorth(x) \in 0 .. MacPrime + 4
  BY <1>2, <1>3, MacLimbsAre DEF L, R
<1>5. MacWorth(h) = MacWorth(x) + d * R
  <2>1. Numbers(MacScale, x, L) /\ h[2] \in Int
    BY <1>0, <1>2, NumeralsAre DEF L
  <2>2. \A i \in 1 .. L : i # 2 => h[i] = x[i]
    BY <1>2
  <2>. DEFINE v == h[2]
  <2>3. IsSet(h, MacScale, x, L, 2, v)
    BY <1>0, <2>1, <2>2 DEF IsSet
  <2>4. Worth(MacScale, h, L) = Worth(MacScale, x, L) + (v - x[2]) * MacScale.at[2 - 1]
    BY <2>3, SumChange
  <2>5. MacScale.at[2 - 1] = R /\ v - x[2] = d
    BY <1>2, MacScaleIs DEF R
  <2>. QED BY <2>4, <2>5 DEF MacWorth, L
<1>6. d * R \in 0 .. 20 * (L * R)
  <2>. DEFINE e == 20 * L - d
  <2>1. e \in Nat /\ 20 * L = d + e /\ d \in Nat
    BY <1>0, <1>1
  <2>. HIDE DEF e, d
  <2>2. (d + e) * R = d * R + e * R /\ d * R \in Nat /\ e * R \in Nat
    BY <1>0, <2>1
  <2>3. (20 * L) * R = 20 * (L * R) /\ L * R \in Nat
    BY <1>0
  <2>. QED BY <2>1, <2>2, <2>3
<1>. DEFINE dr == d * R
            U == 20 * (L * R)
<1>7. dr \in 0 .. U /\ MacWorth(h) = MacWorth(x) + dr /\ U \in Int
  BY <1>0, <1>5, <1>6
<1>. HIDE DEF dr, U
<1>8. MacWorth(h) \in 0 .. MacPrime + 4 + U
  BY <1>0, <1>4, <1>7
<1>. QED BY <1>8 DEF U, L, R

\* The last carry leaves no limb too large: if it comes out of the last limb, then
\* the second has room.
LEMMA CarriedLast ==
    ASSUME NEW h, IsLoose(h)
    PROVE  /\ AreMacLimbs(Carried(h, 2)) /\ MacWorth(Carried(h, 2)) \in 0 .. MacPrime + 4
           /\ IsLike(MacWorth(Carried(h, 2)), MacWorth(h))
<1>. DEFINE R == MacRadix
            L == MacLimbs
<1>0. L \in Nat /\ L >= 2 /\ R \in Nat /\ R > 40 /\ 20 * L < R /\ 2 \in {1, 2} /\ h \in Numerals
      /\ L + 1 - 2 = L - 1
      /\ L - 1 \in 0 .. L + 1 - 2 /\ 1 \in 1 .. L /\ 2 \in 1 .. L /\ L - 1 + 2 - 1 = L
  BY MacSizes DEF IsLoose
<1>1. PICK a : IsCarrying(a, h, 2)
  BY <1>0, CarryTurns
<1>. DEFINE up == a[L - 1]
            z == CarryEnd(up)
            c == up.carry
            x == up.h
            low == x[1] + 5 * c
<1>2. Carried(h, 2) = z
  BY <1>0, <1>1 DEF IsCarrying
<1>3. IsCarried(up, h, 2, L)
  <2>1. IsCarried(a[L - 1], h, 2, L - 1 + 2 - 1)
    BY <1>0, <1>1, CarryAlong
  <2>. QED BY <1>0, <2>1
<1>. HIDE DEF z
<1>4. IsEnd(z, up) /\ IsLike(MacWorth(z), MacWorth(h))
  BY <1>0, <1>3, CarryEnds DEF z
<1>. HIDE DEF up
<1>5. \A i \in 1 .. L : x[i] \in 0 .. R - 1
  <2>. SUFFICES ASSUME NEW i \in 1 .. L PROVE x[i] \in 0 .. R - 1
    OBVIOUS
  <2>1. i = 1 \/ (~(i < 2) /\ ~(i > L))
    BY <1>0
  <2>2. h[1] \in 0 .. R - 1
    BY <1>0 DEF IsLoose, L, R
  <2>3. 1 < 2
    OBVIOUS
  <2>4. CASE i = 1
    BY <1>0, <1>3, <2>2, <2>3, <2>4 DEF IsCarried
  <2>5. CASE ~(i < 2) /\ ~(i > L)
    BY <1>3, <2>5 DEF IsCarried
  <2>. QED BY <2>1, <2>4, <2>5
<1>6. x \in Numerals /\ c \in Int /\ MacWorth(x) + c * MacScale.at[L] = MacWorth(h)
  BY <1>3 DEF IsCarried, Carries
<1>7. MacWorth(x) \in 0 .. MacPrime + 4
  BY <1>5, <1>6, MacLimbsAre DEF L, R
<1>8. /\ z \in Numerals /\ z[1] = low % R /\ z[2] = x[2] + (low \div R)
      /\ \A i \in 3 .. L : z[i] = x[i]
  BY <1>4 DEF IsEnd, R, L
<1>. DEFINE U == 20 * (L * R)
<1>9. U \in Nat /\ U < MacPrime + 5 /\ MacPrime \in Nat
  <2>. DEFINE rr == R * R
              lr == (20 * L) * R
              e == R - 20 * L
  <2>1. e \in Nat \ {0} /\ 20 * L + e = R
    BY <1>0
  <2>. HIDE DEF e
  <2>2. (20 * L + e) * R = lr + e * R /\ e * R \in Nat \ {0} /\ lr \in Nat
    BY <1>0, <2>1
  <2>3. lr = U
    BY <1>0
  <2>4. rr <= MacPrime + 5 /\ MacPrime \in Nat
    BY MacSizes DEF R
  <2>5. rr \in Nat /\ lr < rr
    BY <1>0, <2>1, <2>2
  <2>. HIDE DEF rr, lr, U
  <2>. QED BY <2>2, <2>3, <2>4, <2>5
<1>10. MacWorth(h) \in 0 .. MacPrime + 4 + U
  BY LooseBelow DEF U, L, R
<1>11. c \in {0, 1} /\ (c = 1 => MacWorth(x) < U)
  <2>. DEFINE w == MacPrime + 5
              s == MacWorth(x)
              v == MacWorth(h)
              cw == c * w
  <2>1. w \in Nat /\ s + cw = v /\ s \in 0 .. w - 1 /\ v \in 0 .. w - 1 + U /\ U < w /\ U \in Nat
        /\ c \in Int /\ w >= 1
    BY <1>6, <1>7, <1>9, <1>10, MacSizes DEF L
  <2>. HIDE DEF w, s, v, U
  <2>2. cw \in Int
    BY <2>1
  <2>3. c >= 2 => cw >= 2 * w
    BY <2>1
  <2>4. c <= -1 => cw <= -w
    BY <2>1
  <2>5. c = 1 => cw = w
    BY <2>1
  <2>. HIDE DEF cw
  <2>. QED BY <2>1, <2>2, <2>3, <2>4, <2>5 DEF s
<1>. HIDE DEF c, x
<1>12. \A i \in 1 .. L : z[i] \in 0 .. R - 1
  <2>1. x[1] \in 0 .. R - 1 /\ x[2] \in 0 .. R - 1
    BY <1>0, <1>5
  <2>2. z[1] \in 0 .. R - 1 /\ z[2] \in 0 .. R - 1
    <3>1. CASE c = 0
      <4>1. low = x[1] /\ R \in Nat \ {0} /\ low = 0 * R + x[1]
        BY <1>0, <2>1, <3>1
      <4>. DEFINE k == x[1]
      <4>. HIDE DEF low
      <4>2. IsDivision(low, R, 0, k)
        BY <2>1, <4>1 DEF IsDivision
      <4>3. low \div R = 0 /\ low % R = x[1]
        BY <4>2, Divided
      <4>. QED BY <1>0, <1>8, <2>1, <4>3
    <3>2. CASE c = 1
      <4>1. low \in Nat /\ low < (1 + 1) * R /\ R \in Nat \ {0} /\ 1 \in Nat
        BY <1>0, <2>1, <3>2
      <4>. HIDE DEF low
      <4>2. low \div R \in 0 .. 1 /\ low % R \in 0 .. R - 1
        <5>. DEFINE k == 1
        <5>1. low < (k + 1) * R /\ k \in Nat
          BY <4>1
        <5>. HIDE DEF k
        <5>2. low \div R \in 0 .. k /\ low % R \in 0 .. R - 1
          BY <4>1, <5>1, QuotientBelow
        <5>. QED BY <5>2 DEF k
      <4>3. x[2] * R <= MacWorth(x)
        <5>1. AreNatural(MacScale, x, L)
          <6>1. L \in 0 .. MacScale.last
            BY <1>0, MacScaleIs DEF L
          <6>2. \A i \in 1 .. L : x[i] \in Nat
            BY <1>0, <1>5
          <6>. QED BY <6>1, <6>2, MacScaleIs DEF AreNatural
        <5>2. 2 \in 0 .. L
          BY <1>0
        <5>3. Numbers(MacScale, x, L) /\ Worth(MacScale, x, 2) <= Worth(MacScale, x, L)
          BY <5>1, <5>2, SumPart
        <5>4. /\ Worth(MacScale, x, 1) = Worth(MacScale, x, 1 - 1) + x[1] * MacScale.at[1 - 1]
              /\ Worth(MacScale, x, 2) = Worth(MacScale, x, 2 - 1) + x[2] * MacScale.at[2 - 1]
              /\ Worth(MacScale, x, 0) = 0
          BY <1>0, <5>3, SumIs
        <5>5. MacScale.at[1 - 1] = 1 /\ MacScale.at[2 - 1] = R
          BY MacScaleIs DEF R
        <5>. DEFINE y == x[2] * R
        <5>6. y \in Int /\ Worth(MacScale, x, 2) = x[1] + y
          BY <1>0, <2>1, <5>4, <5>5
        <5>7. MacWorth(x) \in Int /\ Worth(MacScale, x, L) = MacWorth(x)
          BY <1>7 DEF MacWorth, L
        <5>. HIDE DEF y
        <5>8. y <= MacWorth(x)
          BY <2>1, <5>3, <5>6, <5>7
        <5>. QED BY <5>8 DEF y
      <4>4. x[2] < 20 * L
        <5>. SUFFICES ASSUME x[2] >= 20 * L PROVE FALSE
          BY <1>0, <2>1
        <5>. DEFINE e == x[2] - 20 * L
        <5>1. e \in Nat /\ x[2] = 20 * L + e
          BY <1>0, <2>1
        <5>. HIDE DEF e
        <5>2. (20 * L + e) * R = 20 * (L * R) + e * R /\ e * R \in Nat
          BY <1>0, <5>1
        <5>. DEFINE er == e * R
                    xr == x[2] * R
        <5>3. xr = U + er /\ er \in Nat /\ xr <= MacWorth(x) /\ MacWorth(x) < U /\ U \in Nat
              /\ MacWorth(x) \in Int
          BY <1>7, <1>9, <1>11, <3>2, <4>3, <5>1, <5>2
        <5>. HIDE DEF er, xr, U
        <5>. QED BY <5>3
      <4>. DEFINE q == low \div R
      <4>5. q \in 0 .. 1 /\ z[2] = x[2] + q
        BY <1>8, <4>2
      <4>. HIDE DEF q
      <4>6. z[2] \in 0 .. R - 1
        BY <1>0, <2>1, <4>4, <4>5
      <4>. QED BY <1>8, <4>2, <4>6
    <3>. QED BY <1>11, <3>1, <3>2
  <2>. SUFFICES ASSUME NEW i \in 1 .. L PROVE z[i] \in 0 .. R - 1
    OBVIOUS
  <2>3. i = 1 \/ i = 2 \/ i \in 3 .. L
    BY <1>0
  <2>. QED BY <1>5, <1>8, <2>2, <2>3
<1>13. AreMacLimbs(z) /\ MacWorth(z) \in 0 .. MacPrime + 4
  BY <1>8, <1>12, MacLimbsAre DEF L, R
<1>. QED BY <1>2, <1>4, <1>13

IsMultiple(sc, z, c, x, n) ==
    Numbers(sc, x, n) /\ Numbers(sc, z, n) /\ c \in Int /\ \A i \in 1 .. n : z[i] = c * x[i]

LEMMA SumMultiple ==
    ASSUME NEW sc, NEW n, NEW z, NEW c, NEW x, IsMultiple(sc, z, c, x, n)
    PROVE  Worth(sc, z, n) = c * Worth(sc, x, n)
<1>. DEFINE none == [i \in 1 .. n |-> 0]
<1>0. /\ Numbers(sc, x, n) /\ Numbers(sc, z, n) /\ c \in Int /\ n \in Nat
      /\ \A i \in 1 .. n : x[i] \in Int /\ z[i] = c * x[i]
  BY DEF IsMultiple, Numbers, IsScale
<1>1. \A i \in 1 .. n : none[i] = 0
  OBVIOUS
<1>. HIDE DEF none
<1>2. Numbers(sc, none, n)
  BY <1>0, <1>1 DEF Numbers
<1>3. Worth(sc, none, n) = 0
  <2>1. \A i \in 0 + 1 .. n : none[i] = 0
    BY <1>1
  <2>2. AreZero(sc, none, 0, n)
    BY <1>0, <1>2, <2>1 DEF AreZero
  <2>3. Worth(sc, none, n) = Worth(sc, none, 0)
    BY <2>2, SumZeros
  <2>. QED BY <1>2, <2>3, SumNone
<1>4. \A i \in 1 .. n : z[i] = c * x[i] + none[i]
  <2>. SUFFICES ASSUME NEW i \in 1 .. n PROVE z[i] = c * x[i] + none[i]
    OBVIOUS
  <2>. DEFINE y == c * x[i]
  <2>1. y \in Int /\ z[i] = y /\ none[i] = 0
    BY <1>0, <1>1
  <2>. HIDE DEF y
  <2>2. z[i] = y + none[i]
    BY <2>1
  <2>. QED BY <2>2 DEF y
<1>5. IsMix(sc, z, c, x, none, n)
  BY <1>0, <1>2, <1>4 DEF IsMix
<1>6. Worth(sc, z, n) = c * Worth(sc, x, n) + Worth(sc, none, n)
  BY <1>5, SumMix
<1>7. Worth(sc, x, n) \in Int
  BY <1>0, SumInt
<1>. DEFINE v == c * Worth(sc, x, n)
<1>8. v \in Int
  BY <1>0, <1>7
<1>9. Worth(sc, z, n) = v + 0
  BY <1>3, <1>6
<1>. HIDE DEF v
<1>10. Worth(sc, z, n) = v
  BY <1>8, <1>9
<1>. QED BY <1>10 DEF v

-----------------------------------------------------------------------------
(* Poly1305: numbers that differ by multiples of the prime *)

LEMMA LikeItself ==
    ASSUME NEW x \in Int
    PROVE  IsLike(x, x)
<1>1. x = x + 0 * MacPrime /\ 0 \in Int
  BY MacSizes
<1>. QED BY <1>1 DEF IsLike

LEMMA LikeSum ==
    ASSUME NEW x, NEW y, NEW u, NEW v, IsLike(y, x), IsLike(v, u)
    PROVE  IsLike(y + v, x + u)
<1>. DEFINE p == MacPrime
<1>1. PICK d \in Int : y = x + d * p
  BY DEF IsLike
<1>2. PICK e \in Int : v = u + e * p
  BY DEF IsLike
<1>3. x \in Int /\ y \in Int /\ u \in Int /\ v \in Int /\ p \in Int
  BY MacSizes DEF IsLike
<1>. HIDE DEF p
<1>4. (d + e) * p = d * p + e * p /\ d + e \in Int /\ d * p \in Int /\ e * p \in Int
  BY <1>3
<1>5. y + v = (x + u) + (d + e) * p
  BY <1>1, <1>2, <1>3, <1>4
<1>6. y + v \in Int /\ x + u \in Int
  BY <1>3
<1>. QED BY <1>4, <1>5, <1>6 DEF IsLike, p

LEMMA LikeTimes ==
    ASSUME NEW x, NEW y, NEW c \in Int, IsLike(y, x)
    PROVE  IsLike(c * y, c * x)
<1>. DEFINE p == MacPrime
<1>1. PICK d \in Int : y = x + d * p
  BY DEF IsLike
<1>2. x \in Int /\ y \in Int /\ p \in Int
  BY MacSizes DEF IsLike
<1>. HIDE DEF p
<1>3. c * (x + d * p) = c * x + (c * d) * p
  <2>. DEFINE dp == d * p
  <2>1. dp \in Int /\ c * dp = (c * d) * p
    BY <1>2
  <2>. HIDE DEF dp
  <2>2. c * (x + dp) = c * x + c * dp
    BY <1>2, <2>1
  <2>. QED BY <2>1, <2>2 DEF dp
<1>4. c * y \in Int /\ c * x \in Int /\ c * d \in Int
  BY <1>2
<1>. QED BY <1>1, <1>3, <1>4 DEF IsLike, p

LEMMA LikeAlso ==
    ASSUME NEW x, NEW y, NEW z, IsLike(z, y), IsLike(y, x)
    PROVE  IsLike(z, x)
<1>. DEFINE p == MacPrime
<1>1. PICK d \in Int : y = x + d * p
  BY DEF IsLike
<1>2. PICK e \in Int : z = y + e * p
  BY DEF IsLike
<1>3. x \in Int /\ y \in Int /\ z \in Int /\ p \in Int
  BY MacSizes DEF IsLike
<1>. HIDE DEF p
<1>4. (d + e) * p = d * p + e * p /\ d + e \in Int /\ d * p \in Int /\ e * p \in Int
  BY <1>3
<1>5. z = x + (d + e) * p
  BY <1>1, <1>2, <1>3, <1>4
<1>. QED BY <1>3, <1>4, <1>5 DEF IsLike, p

LEMMA LikeResidue ==
    ASSUME NEW x, NEW y, IsLike(y, x)
    PROVE  x % MacPrime = y % MacPrime /\ IsLike(y, x % MacPrime) /\ x % MacPrime \in 0 .. MacPrime - 1
<1>. DEFINE p == MacPrime
            q == x \div p
            r == x % p
<1>1. PICK d \in Int : y = x + d * p
  BY DEF IsLike
<1>2. x \in Int /\ y \in Int /\ p \in Nat \ {0}
  BY MacSizes DEF IsLike
<1>. HIDE DEF p
<1>3. q \in Int /\ r \in 0 .. p - 1 /\ x = q * p + r
  BY <1>2, DividedIs
<1>. HIDE DEF q, r
<1>4. (q + d) * p = q * p + d * p /\ q + d \in Int /\ q * p \in Int /\ d * p \in Int /\ (q + d) * p \in Int
  BY <1>2, <1>3
<1>. DEFINE k == q + d
<1>5. y = k * p + r /\ y = r + k * p /\ k \in Int
  BY <1>1, <1>2, <1>3, <1>4
<1>. HIDE DEF k
<1>6. y % p = r
  <2>1. IsDivision(y, p, k, r)
    BY <1>2, <1>3, <1>5 DEF IsDivision
  <2>. QED BY <2>1, Divided
<1>7. IsLike(y, r)
  BY <1>2, <1>3, <1>5 DEF IsLike, p
<1>. QED BY <1>3, <1>6, <1>7 DEF r, p

-----------------------------------------------------------------------------
(* Poly1305: the product of a block *)

\* a factor's limbs moved up, those that leave come back in as five times as much
Rotated(r, j) ==
    [i \in 1 .. MacLimbs |-> IF j <= i THEN r[i - j + 1] ELSE 5 * r[MacLimbs + i - j + 1]]

LEMMA RotatedWorth ==
    ASSUME NEW r \in Numerals, NEW j \in 1 .. MacLimbs
    PROVE  /\ Rotated(r, j) \in Numerals
           /\ IsLike(MacWorth(Rotated(r, j)), MacScale.at[j - 1] * MacWorth(r))
<1>. DEFINE L == MacLimbs
            k == j - 1
            l == L - k
            rot == Rotated(r, j)
            top == [i \in 1 .. k |-> r[l + i]]
<1>0. L \in Nat /\ k \in Nat /\ l \in Nat /\ k + l = L /\ l + k = L /\ j = k + 1 /\ k <= L /\ l <= L
      /\ MacScale.last = L /\ IsScale(MacScale) /\ k \in 0 .. L + 1
  BY MacSizes, MacScaleIs
<1>1. \A i \in 1 .. L : r[i] \in Int
  BY DEF Numerals
<1>2. /\ \A i \in 1 .. k : i \in 1 .. L /\ l + i \in 1 .. L /\ ~(j <= i) /\ L + i - j + 1 = l + i
      /\ \A i \in 1 .. l : i \in 1 .. L /\ k + i \in 1 .. L /\ j <= k + i /\ (k + i) - j + 1 = i
  BY <1>0
<1>3. /\ \A i \in 1 .. k : rot[i] = 5 * r[l + i]
      /\ \A i \in 1 .. l : rot[k + i] = r[i]
  <2>1. ASSUME NEW i \in 1 .. k PROVE rot[i] = 5 * r[l + i]
    BY <1>2 DEF Rotated
  <2>2. ASSUME NEW i \in 1 .. l PROVE rot[k + i] = r[i]
    <3>. DEFINE m == k + i
    <3>1. m \in 1 .. L /\ j <= m /\ m - j + 1 = i
      BY <1>2
    <3>. HIDE DEF m
    <3>2. rot[m] = r[m - j + 1]
      BY <3>1 DEF Rotated
    <3>. QED BY <3>1, <3>2 DEF m
  <2>. QED BY <2>1, <2>2
<1>4. rot \in Numerals
  <2>1. ASSUME NEW i \in 1 .. L, j <= i PROVE r[i - j + 1] \in Int
    <3>1. i - j + 1 \in 1 .. L
      BY <1>0, <2>1
    <3>. QED BY <1>1, <3>1
  <2>2. ASSUME NEW i \in 1 .. L, ~(j <= i) PROVE 5 * r[L + i - j + 1] \in Int
    <3>. DEFINE m == L + i - j + 1
    <3>1. m \in 1 .. L
      BY <1>0, <2>2
    <3>. HIDE DEF m
    <3>2. r[m] \in Int
      BY <1>1, <3>1
    <3>3. 5 * r[m] \in Int
      BY <3>2
    <3>. QED BY <3>3 DEF m
  <2>. QED BY <2>1, <2>2 DEF Rotated, Numerals
<1>5. \A i \in 1 .. k : top[i] = r[l + i] /\ top[i] \in Int
  BY <1>1, <1>2
<1>. HIDE DEF L, k, l, rot, top
<1>6. \A n \in 0 .. L : Numbers(MacScale, r, n) /\ Numbers(MacScale, rot, n)
  BY <1>0, <1>4 DEF Numbers, Numerals, L
<1>7. k \in 0 .. L /\ l \in 0 .. L /\ L \in 0 .. L
  BY <1>0
<1>8. Numbers(MacScale, top, k)
  BY <1>0, <1>5, <1>7 DEF Numbers
<1>. DEFINE w == MacScale.at[k]
            wl == MacScale.at[l]
            a == Worth(MacScale, r, l)
            t == Worth(MacScale, top, k)
<1>9. Worth(MacScale, rot, k + l) = Worth(MacScale, rot, k) + w * a
  <2>1. IsTail(MacScale, r, rot, k, l)
    BY <1>0, <1>3, <1>6, <1>7 DEF IsTail
  <2>. QED BY <2>1, SumSplit
<1>10. Worth(MacScale, r, l + k) = a + wl * t
  <2>1. IsTail(MacScale, top, r, l, k)
    BY <1>0, <1>5, <1>6, <1>7, <1>8 DEF IsTail
  <2>. QED BY <2>1, SumSplit
<1>11. Worth(MacScale, rot, k) = 5 * t
  <2>1. \A i \in 1 .. k : rot[i] = 5 * top[i]
    BY <1>3, <1>5
  <2>2. IsMultiple(MacScale, rot, 5, top, k)
    BY <1>6, <1>7, <1>8, <2>1 DEF IsMultiple
  <2>. QED BY <2>2, SumMultiple
<1>12. w * wl = MacPrime + 5
  <2>1. k + l <= MacScale.last + 1
    BY <1>0
  <2>2. MacScale.at[k + l] = w * wl
    BY <1>0, <2>1, ScaleSum
  <2>. QED BY <1>0, <2>2, MacSizes DEF L
<1>13. w \in Nat /\ wl \in Nat /\ a \in Int /\ t \in Int /\ MacPrime \in Nat
  <2>1. l \in 0 .. L + 1
    BY <1>0
  <2>2. w \in Nat /\ wl \in Nat
    BY <1>0, <2>1, MacScaleIs DEF L
  <2>3. Numbers(MacScale, r, l)
    BY <1>6, <1>7
  <2>. QED BY <1>8, <2>2, <2>3, SumInt, MacSizes
<1>14. MacWorth(rot) = w * MacWorth(r) + (-t) * MacPrime
  <2>. DEFINE p == MacPrime
              wa == w * a
              pt == p * t
  <2>1. MacWorth(rot) = 5 * t + wa /\ MacWorth(r) = a + wl * t
    BY <1>0, <1>9, <1>10, <1>11 DEF MacWorth, L
  <2>2. w * (a + wl * t) = wa + (w * wl) * t
    <3>. DEFINE y == wl * t
    <3>1. y \in Int /\ w * y = (w * wl) * t
      BY <1>13
    <3>. HIDE DEF y
    <3>2. w * (a + y) = w * a + w * y
      BY <1>13, <3>1
    <3>. QED BY <3>1, <3>2 DEF y
  <2>3. (w * wl) * t = pt + 5 * t /\ (-t) * p = -pt /\ pt \in Int /\ wa \in Int
    <3>1. (p + 5) * t = p * t + 5 * t
      BY <1>13
    <3>. QED BY <1>12, <1>13, <3>1
  <2>. DEFINE wr == w * MacWorth(r)
              mp == (-t) * p
  <2>4. wr = wa + (pt + 5 * t) /\ mp = -pt
    BY <2>1, <2>2, <2>3
  <2>. HIDE DEF wa, pt, wr, mp, t
  <2>5. MacWorth(rot) = wr + mp
    <3>1. t \in Int
      BY <1>13
    <3>. QED BY <2>1, <2>3, <2>4, <3>1
  <2>. QED BY <2>5 DEF wr, mp, p
<1>15. -t \in Int /\ w * MacWorth(r) \in Int /\ MacWorth(rot) \in Int
  <2>1. MacWorth(r) \in Int /\ MacWorth(rot) \in Int
    BY <1>4, NumeralsAre
  <2>. QED BY <1>13, <2>1
<1>16. IsLike(MacWorth(rot), w * MacWorth(r))
  <2>. DEFINE e == -t
              wr == w * MacWorth(r)
  <2>1. e \in Int /\ wr \in Int /\ MacWorth(rot) = wr + e * MacPrime
    BY <1>14, <1>15
  <2>. HIDE DEF e, wr
  <2>2. IsLike(MacWorth(rot), wr)
    BY <1>15, <2>1 DEF IsLike
  <2>. QED BY <2>2 DEF wr
<1>. QED BY <1>4, <1>16 DEF rot, k

\* what limb j of one factor adds to limb i of the product
Term(x, r, i, j) ==
    IF j <= i THEN x[j] * r[i - j + 1] ELSE x[j] * 5 * r[MacLimbs + i - j + 1]
Terms(x, r, i) == [j \in 1 .. MacLimbs |-> Term(x, r, i, j)]

\* plain sums
UnitScale == Scale(1, MacLimbs, [i \in 0 .. MacLimbs + 1 |-> 1])
Partial(x, r, k) == [i \in 1 .. MacLimbs |-> Worth(UnitScale, Terms(x, r, i), k)]

LEMMA UnitScaleIs ==
    /\ IsScale(UnitScale) /\ UnitScale.last = MacLimbs
    /\ \A i \in 0 .. MacLimbs + 1 : UnitScale.at[i] = 1
<1>. DEFINE at == [i \in 0 .. MacLimbs + 1 |-> 1]
            one == 1
<1>1. MacLimbs \in Nat
  BY MacSizes
<1>2. \A i \in 0 .. MacLimbs + 1 : at[i] = 1
  OBVIOUS
<1>3. at[0] = 1 /\ \A i \in 0 .. MacLimbs : at[i + 1] = 1 * at[i]
  <2>1. 0 \in 0 .. MacLimbs + 1 /\ \A i \in 0 .. MacLimbs : i \in 0 .. MacLimbs + 1
        /\ i + 1 \in 0 .. MacLimbs + 1
    BY <1>1
  <2>. HIDE DEF at
  <2>. QED BY <1>2, <2>1
<1>. HIDE DEF at
<1>4. one \in Nat \ {0} /\ at[0] = 1 /\ \A i \in 0 .. MacLimbs : at[i + 1] = one * at[i]
  BY <1>3
<1>. HIDE DEF one
<1>5. IsScale(Scale(one, MacLimbs, at))
  BY <1>1, <1>4, ScaleIs
<1>6. UnitScale = Scale(one, MacLimbs, at)
  BY DEF UnitScale, one, at
<1>7. UnitScale.last = MacLimbs /\ UnitScale.at = at
  BY <1>6 DEF Scale
<1>. QED BY <1>2, <1>5, <1>6, <1>7 DEF at

LEMMA TermIs ==
    ASSUME NEW x \in Numerals, NEW r \in Numerals, NEW i \in 1 .. MacLimbs, NEW j \in 1 .. MacLimbs
    PROVE  /\ Term(x, r, i, j) = x[j] * Rotated(r, j)[i]
           /\ Term(x, r, i, j) \in Int /\ x[j] \in Int /\ Rotated(r, j)[i] \in Int
<1>. DEFINE a == x[j]
            b == r[i - j + 1]
            c == r[MacLimbs + i - j + 1]
<1>0. MacLimbs \in Nat
  BY MacSizes
<1>1. a \in Int
  BY DEF Numerals
<1>2. CASE j <= i
  <2>. DEFINE k == i - j + 1
  <2>1. k \in 1 .. MacLimbs
    BY <1>0, <1>2
  <2>. HIDE DEF k
  <2>2. r[k] \in Int
    BY <2>1 DEF Numerals
  <2>3. b \in Int /\ Term(x, r, i, j) = a * b /\ Rotated(r, j)[i] = b
    BY <1>2, <2>2 DEF Term, Rotated, k
  <2>. HIDE DEF a, b
  <2>4. a * b \in Int
    BY <1>1, <2>3
  <2>. QED BY <1>1, <2>3, <2>4 DEF a
<1>3. CASE ~(j <= i)
  <2>. DEFINE k == MacLimbs + i - j + 1
  <2>1. k \in 1 .. MacLimbs
    BY <1>0, <1>3
  <2>. HIDE DEF k
  <2>2. r[k] \in Int
    BY <2>1 DEF Numerals
  <2>3. c \in Int /\ Term(x, r, i, j) = a * 5 * c /\ Rotated(r, j)[i] = 5 * c
    BY <1>3, <2>2 DEF Term, Rotated, k
  <2>. HIDE DEF a, c
  <2>4. a * 5 * c = a * (5 * c) /\ a * (5 * c) \in Int /\ 5 * c \in Int
    BY <1>1, <2>3
  <2>. QED BY <1>1, <2>3, <2>4 DEF a
<1>. QED BY <1>2, <1>3

LEMMA TermsAre ==
    ASSUME NEW x \in Numerals, NEW r \in Numerals, NEW i \in 1 .. MacLimbs, NEW n \in 0 .. MacLimbs
    PROVE  Numbers(UnitScale, Terms(x, r, i), n)
<1>1. \A j \in 1 .. n : j \in 1 .. MacLimbs
  BY MacSizes
<1>2. \A j \in 1 .. n : Terms(x, r, i)[j] \in Int
  BY <1>1, TermIs DEF Terms
<1>. QED BY <1>2, UnitScaleIs DEF Numbers

\* a limb of the product
LEMMA TermsAdd ==
    ASSUME NEW x \in Numerals, NEW r \in Numerals, NEW i \in 1 .. MacLimbs
    PROVE  FoldLeft(LAMBDA d, j : d + Term(x, r, i, j), 0, [j \in 1 .. MacLimbs |-> j])
              = Worth(UnitScale, Terms(x, r, i), MacLimbs)
<1>. DEFINE n == MacLimbs
            ids == [j \in 1 .. MacLimbs |-> j]
            t == Terms(x, r, i)
            iter[S \in SUBSET (DOMAIN ids)] ==
               IF S = {} THEN 0
               ELSE LET m == Max(S) IN iter[S \ {m}] + Term(x, r, i, ids[m])
<1>0. n \in Nat /\ DOMAIN ids = 1 .. n /\ \A j \in 1 .. n : ids[j] = j
  BY MacSizes
<1>1. Numbers(UnitScale, t, n)
  <2>1. n \in 0 .. n
    BY <1>0
  <2>. QED BY <2>1, TermsAre
<1>2. ASSUME NEW j \in 1 .. n
      PROVE  t[j] * UnitScale.at[j - 1] = Term(x, r, i, ids[j])
  <2>1. j - 1 \in 0 .. MacLimbs + 1
    BY <1>0
  <2>2. UnitScale.at[j - 1] = 1
    BY <2>1, UnitScaleIs
  <2>3. t[j] = Term(x, r, i, j) /\ Term(x, r, i, j) \in Int
    BY TermIs DEF Terms
  <2>. HIDE DEF t, ids
  <2>. QED BY <1>0, <2>2, <2>3
<1>. HIDE DEF t
<1>3. PICK g : PartSum(g, UnitScale, t, n) /\ \A S \in SUBSET (1 .. n) : S # {} => Max(S) \in 1 .. n
  BY <1>1, SumFolds
<1>4. g = [S \in SUBSET (DOMAIN ids) |->
              IF S = {} THEN 0 ELSE g[S \ {Max(S)}] + Term(x, r, i, ids[Max(S)])]
  <2>1. g = [S \in SUBSET (1 .. n) |-> g[S]] /\ g[{}] = 0
    BY <1>3 DEF PartSum
  <2>. HIDE DEF ids
  <2>2. ASSUME NEW S \in SUBSET (1 .. n), S # {}
        PROVE  g[S] = g[S \ {Max(S)}] + Term(x, r, i, ids[Max(S)])
    <3>1. g[S] = g[S \ {Max(S)}] + t[Max(S)] * UnitScale.at[Max(S) - 1]
      BY <1>3, <2>2 DEF PartSum
    <3>2. t[Max(S)] * UnitScale.at[Max(S) - 1] = Term(x, r, i, ids[Max(S)])
      BY <1>2, <1>3, <2>2
    <3>. QED BY <3>1, <3>2
  <2>. QED BY <1>0, <2>1, <2>2
<1>5. iter = CHOOSE f : f = [S \in SUBSET (DOMAIN ids) |->
              IF S = {} THEN 0 ELSE f[S \ {Max(S)}] + Term(x, r, i, ids[Max(S)])]
  BY Zenon
<1>6. iter = [S \in SUBSET (DOMAIN ids) |->
              IF S = {} THEN 0 ELSE iter[S \ {Max(S)}] + Term(x, r, i, ids[Max(S)])]
  <2>. HIDE DEF iter, ids
  <2>. QED BY <1>4, <1>5
<1>7. FoldLeft(LAMBDA d, j : d + Term(x, r, i, j), 0, [j \in 1 .. MacLimbs |-> j]) = iter[DOMAIN ids]
  BY DEF FoldLeft, MapThenFoldSet
<1>. HIDE DEF iter
<1>8. PartSum(iter, UnitScale, t, n)
  <2>1. ASSUME NEW S \in SUBSET (1 .. n), S # {}
        PROVE  t[Max(S)] * UnitScale.at[Max(S) - 1] = Term(x, r, i, ids[Max(S)])
    BY <1>2, <1>3, <2>1
  <2>. HIDE DEF ids
  <2>. QED BY <1>0, <1>6, <2>1 DEF PartSum
<1>9. iter[1 .. n] = Worth(UnitScale, t, n)
  BY <1>1, <1>8, SumFolded
<1>. QED BY <1>0, <1>7, <1>9 DEF t

\* a plain sum of n terms that are at most c
LEMMA TermsBelow ==
    ASSUME NEW t, NEW n, Numbers(UnitScale, t, n), NEW c \in Nat, \A j \in 1 .. n : t[j] \in 0 .. c
    PROVE  Worth(UnitScale, t, n) \in 0 .. n * c
<1>. DEFINE D == {k \in Nat : k <= n => Worth(UnitScale, t, k) \in 0 .. k * c}
<1>0. n \in Nat /\ n <= MacLimbs /\ MacLimbs \in Nat
  BY UnitScaleIs, MacSizes DEF Numbers
<1>1. 0 \in D
  <2>1. Worth(UnitScale, t, 0) = 0
    BY SumNone
  <2>. QED BY <2>1
<1>2. ASSUME NEW k \in Nat, k \in D PROVE k + 1 \in D
  <2>. SUFFICES ASSUME k + 1 <= n PROVE Worth(UnitScale, t, k + 1) \in 0 .. (k + 1) * c
    OBVIOUS
  <2>. DEFINE s == Worth(UnitScale, t, k)
              y == t[k + 1]
              kc == k * c
  <2>1. k <= n /\ k + 1 \in 1 .. n /\ k \in 0 .. MacLimbs + 1
    BY <1>0
  <2>2. Worth(UnitScale, t, k + 1) = Worth(UnitScale, t, k) + t[k + 1] * UnitScale.at[k]
    BY SumStep
  <2>3. UnitScale.at[k] = 1
    BY <2>1, UnitScaleIs
  <2>4. y \in 0 .. c
    BY <2>1
  <2>5. s \in 0 .. kc
    BY <1>2, <2>1
  <2>. HIDE DEF s, y
  <2>6. Worth(UnitScale, t, k + 1) = s + y
    BY <2>2, <2>3, <2>4 DEF s, y
  <2>7. (k + 1) * c = kc + c /\ kc \in Nat
    OBVIOUS
  <2>. HIDE DEF kc
  <2>. QED BY <2>4, <2>5, <2>6, <2>7
<1>. HIDE DEF D
<1>3. n \in D
  BY <1>0, <1>1, <1>2, Induction
<1>. QED BY <1>0, <1>3 DEF D

\* the product of the first k limbs with all of r
LEMMA PartialWorth ==
    ASSUME NEW x \in Numerals, NEW r \in Numerals, NEW k \in 0 .. MacLimbs
    PROVE  /\ Partial(x, r, k) \in Numerals
           /\ IsLike(MacWorth(Partial(x, r, k)), Worth(MacScale, x, k) * MacWorth(r))
<1>. DEFINE L == MacLimbs
            D == {n \in Nat : n <= L => IsLike(MacWorth(Partial(x, r, n)), Worth(MacScale, x, n) * MacWorth(r))}
<1>0. L \in Nat /\ Numbers(MacScale, x, L) /\ MacWorth(r) \in Int
  BY MacSizes, NumeralsAre
<1>1. ASSUME NEW n \in 0 .. L PROVE Partial(x, r, n) \in Numerals
  <2>1. ASSUME NEW i \in 1 .. L PROVE Worth(UnitScale, Terms(x, r, i), n) \in Int
    <3>1. Numbers(UnitScale, Terms(x, r, i), n)
      BY TermsAre
    <3>. QED BY <3>1, SumInt
  <2>. QED BY <2>1 DEF Partial, Numerals
<1>2. 0 \in D
  <2>. DEFINE z == Partial(x, r, 0)
  <2>1. \A i \in 0 + 1 .. L : z[i] = 0
    <3>. SUFFICES ASSUME NEW i \in 1 .. L PROVE z[i] = 0
      OBVIOUS
    <3>1. 0 \in 0 .. MacLimbs
      BY <1>0
    <3>2. Numbers(UnitScale, Terms(x, r, i), 0)
      BY <3>1, TermsAre
    <3>. QED BY <3>2, SumNone DEF Partial
  <2>2. Numbers(MacScale, z, L)
    <3>1. 0 \in 0 .. L
      BY <1>0
    <3>. QED BY <1>1, <3>1, NumeralsAre
  <2>. HIDE DEF z
  <2>3. AreZero(MacScale, z, 0, L)
    BY <1>0, <2>1, <2>2 DEF AreZero
  <2>4. MacWorth(z) = 0
    BY <2>2, <2>3, SumZeros, SumNone DEF MacWorth
  <2>5. Worth(MacScale, x, 0) * MacWorth(r) = 0
    BY <1>0, SumNone
  <2>6. IsLike(0, 0)
    BY LikeItself
  <2>. QED BY <2>4, <2>5, <2>6 DEF z
<1>3. ASSUME NEW n \in Nat, n \in D PROVE n + 1 \in D
  <2>. SUFFICES ASSUME n + 1 <= L
                PROVE  IsLike(MacWorth(Partial(x, r, n + 1)), Worth(MacScale, x, n + 1) * MacWorth(r))
    OBVIOUS
  <2>. DEFINE j == n + 1
              y == Partial(x, r, n)
              z == Partial(x, r, j)
              rot == Rotated(r, j)
              c == x[j]
              w == MacScale.at[n]
              v == MacWorth(r)
              s == Worth(MacScale, x, n)
  <2>1. n <= L /\ n \in 0 .. L /\ j \in 0 .. L /\ j \in 1 .. L /\ j - 1 = n
    BY <1>0
  <2>2. IsLike(MacWorth(y), s * v)
    BY <1>3, <2>1
  <2>3. Worth(MacScale, x, n + 1) = s + c * w /\ s \in Int /\ c \in Int /\ w \in Nat \ {0}
    BY <1>0, SumStep
  <2>4. \A i \in 1 .. L : z[i] = c * rot[i] + y[i]
    <3>. SUFFICES ASSUME NEW i \in 1 .. L PROVE z[i] = c * rot[i] + y[i]
      OBVIOUS
    <3>. DEFINE t == Terms(x, r, i)
    <3>1. z[i] = Worth(UnitScale, t, j) /\ y[i] = Worth(UnitScale, t, n)
      BY DEF Partial
    <3>2. Numbers(UnitScale, t, L)
      BY <1>0, TermsAre
    <3>3. t[j] = c * rot[i] /\ c \in Int /\ rot[i] \in Int
      BY <2>1, TermIs DEF Terms
    <3>. HIDE DEF t, y, z
    <3>4. Worth(UnitScale, t, n + 1) = Worth(UnitScale, t, n) + t[n + 1] * UnitScale.at[n]
          /\ Worth(UnitScale, t, n) \in Int
      BY <3>2, SumStep
    <3>5. UnitScale.at[n] = 1
      BY <1>0, <2>1, UnitScaleIs
    <3>. DEFINE a == c * rot[i]
                b == Worth(UnitScale, t, n)
    <3>6. a \in Int /\ b \in Int
      BY <3>3, <3>4
    <3>7. z[i] = b + a * 1 /\ y[i] = b
      BY <3>1, <3>3, <3>4, <3>5
    <3>. HIDE DEF a, b
    <3>8. z[i] = a + y[i]
      BY <3>6, <3>7
    <3>. QED BY <3>8 DEF a
  <2>5. y \in Numerals /\ z \in Numerals
    BY <1>1, <2>1
  <2>6. rot \in Numerals /\ IsLike(MacWorth(rot), w * v)
    <3>. HIDE DEF j
    <3>1. rot \in Numerals /\ IsLike(MacWorth(rot), MacScale.at[j - 1] * v)
      BY <2>1, RotatedWorth
    <3>. QED BY <2>1, <3>1
  <2>. HIDE DEF y, z, rot, c, w, v, s
  <2>7. IsMix(MacScale, z, c, rot, y, L)
    BY <2>3, <2>4, <2>5, <2>6, NumeralsAre DEF IsMix
  <2>8. MacWorth(z) = c * MacWorth(rot) + MacWorth(y)
    BY <2>7, SumMix DEF MacWorth
  <2>9. IsLike(c * MacWorth(rot), c * (w * v))
    BY <2>3, <2>6, LikeTimes
  <2>10. IsLike(c * MacWorth(rot) + MacWorth(y), c * (w * v) + s * v)
    BY <2>2, <2>9, LikeSum
  <2>11. c * (w * v) + s * v = (s + c * w) * v
    <3>1. v \in Int
      BY <1>0 DEF v
    <3>. DEFINE cw == c * w
    <3>2. cw \in Int /\ c * (w * v) = cw * v
      BY <2>3, <3>1
    <3>. HIDE DEF cw
    <3>3. (s + cw) * v = s * v + cw * v /\ s * v \in Int /\ cw * v \in Int
      BY <2>3, <3>1, <3>2
    <3>. QED BY <3>2, <3>3 DEF cw
  <2>. QED BY <2>3, <2>8, <2>10, <2>11 DEF z, v
<1>. HIDE DEF D
<1>4. k \in Nat /\ k <= L
  BY <1>0
<1>5. k \in D
  BY <1>2, <1>3, <1>4, Induction
<1>6. IsLike(MacWorth(Partial(x, r, k)), Worth(MacScale, x, k) * MacWorth(r))
  BY <1>4, <1>5 DEF D
<1>. QED BY <1>1, <1>6

\* the sum of the accumulator and a block is no larger in any limb than this
IsSummed(x) == x \in Numerals /\ \A i \in 1 .. MacLimbs : x[i] \in 0 .. 3 * MacRadix

LEMMA ProductsAre ==
    ASSUME NEW x, IsSummed(x), NEW r \in Numerals, \A i \in 1 .. MacLimbs : r[i] \in 0 .. MacRadix - 1
    PROVE  AreProducts(Partial(x, r, MacLimbs))
<1>. DEFINE L == MacLimbs
            R == MacRadix
            A == 15 * (R * R)
            B == 3 * (R * R)
            y == Partial(x, r, L)
<1>0. L \in Nat /\ R \in Nat /\ x \in Numerals /\ L \in 0 .. L /\ L \in 1 .. L
  BY MacSizes DEF IsSummed
<1>1. y \in Numerals
  BY <1>0, PartialWorth
<1>2. A \in Nat /\ B \in Nat /\ L * A = 15 * (L * R * R) /\ L * B = 3 * (L * R * R)
  <2>. HIDE DEF L, R
  <2>. DEFINE S == R * R
  <2>1. S \in Nat /\ L * R * R = L * S
    BY <1>0
  <2>. HIDE DEF S
  <2>2. 15 * S \in Nat /\ 3 * S \in Nat /\ L * (15 * S) = 15 * (L * S) /\ L * (3 * S) = 3 * (L * S)
    BY <1>0, <2>1
  <2>. QED BY <2>1, <2>2 DEF S
<1>3. ASSUME NEW a \in 0 .. 3 * R, NEW b \in 0 .. R - 1
      PROVE  a * b \in 0 .. B /\ a * 5 * b \in 0 .. A
  <2>. HIDE DEF L, R
  <2>1. a * b \in 0 .. 3 * (R * R)
    <3>. DEFINE d == 3 * R - a
                e == R - b
    <3>1. d \in Nat /\ 3 * R = a + d /\ e \in Nat /\ R = b + e /\ a \in Nat /\ b \in Nat
      BY <1>0
    <3>. HIDE DEF d, e
    <3>2. 3 * (R * R) = (a + d) * R
      BY <1>0, <3>1
    <3>3. (a + d) * R = a * R + d * R /\ a * R \in Nat /\ d * R \in Nat
      BY <1>0, <3>1
    <3>4. a * R = a * b + a * e /\ a * e \in Nat /\ a * b \in Nat
      BY <3>1
    <3>. QED BY <3>2, <3>3, <3>4
  <2>2. a * 5 * b = 5 * (a * b) /\ a \in Nat /\ b \in Nat
    BY <1>0
  <2>. DEFINE ab == a * b
              S == R * R
  <2>3. ab \in 0 .. 3 * S /\ S \in Nat
    BY <1>0, <2>1
  <2>. HIDE DEF ab, S
  <2>4. 5 * ab \in 0 .. 15 * S
    BY <2>3
  <2>. QED BY <2>1, <2>2, <2>4 DEF ab, S
<1>. HIDE DEF A, B
<1>4. ASSUME NEW i \in 1 .. L
      PROVE  y[i] \in 0 .. L * A /\ (i = L => y[i] \in 0 .. L * B)
  <2>. DEFINE t == Terms(x, r, i)
  <2>1. Numbers(UnitScale, t, L) /\ y[i] = Worth(UnitScale, t, L)
    BY <1>0, TermsAre DEF Partial
  <2>2. ASSUME NEW j \in 1 .. L
        PROVE  IF j <= i THEN t[j] \in 0 .. B ELSE t[j] \in 0 .. A
    <3>1. x[j] \in 0 .. 3 * R
      BY DEF IsSummed
    <3>2. CASE j <= i
      <4>. DEFINE m == i - j + 1
      <4>1. m \in 1 .. L
        BY <1>0, <3>2
      <4>. HIDE DEF m
      <4>2. r[m] \in 0 .. R - 1
        BY <4>1
      <4>3. t[j] = x[j] * r[m]
        BY <3>2 DEF Terms, Term, m
      <4>. HIDE DEF t
      <4>. QED BY <1>3, <3>1, <3>2, <4>2, <4>3
    <3>3. CASE ~(j <= i)
      <4>. DEFINE m == MacLimbs + i - j + 1
      <4>1. m \in 1 .. L
        BY <1>0, <3>3
      <4>. HIDE DEF m
      <4>2. r[m] \in 0 .. R - 1
        BY <4>1
      <4>3. t[j] = x[j] * 5 * r[m]
        BY <3>3 DEF Terms, Term, m
      <4>. HIDE DEF t
      <4>. QED BY <1>3, <3>1, <3>3, <4>2, <4>3
    <3>. QED BY <3>2, <3>3
  <2>. HIDE DEF t, y
  <2>3. \A j \in 1 .. L : t[j] \in 0 .. A
    <3>1. B <= A
      BY <1>0 DEF A, B
    <3>. QED BY <1>2, <2>2, <3>1
  <2>4. i = L => \A j \in 1 .. L : t[j] \in 0 .. B
    <3>1. \A j \in 1 .. L : j <= L
      BY <1>0
    <3>. QED BY <2>2, <3>1
  <2>5. Worth(UnitScale, t, L) \in 0 .. L * A
    BY <1>2, <2>1, <2>3, TermsBelow
  <2>6. i = L => Worth(UnitScale, t, L) \in 0 .. L * B
    BY <1>2, <2>1, <2>4, TermsBelow
  <2>. QED BY <2>1, <2>5, <2>6
<1>. HIDE DEF y
<1>5. \A i \in 1 .. L : y[i] \in 0 .. 15 * (L * R * R)
  BY <1>2, <1>4
<1>6. y[L] <= 3 * (L * R * R)
  <2>1. y[L] \in 0 .. L * B
    BY <1>0, <1>4
  <2>. DEFINE C == L * B
  <2>2. C \in Nat /\ C = 3 * (L * R * R)
    BY <1>0, <1>2
  <2>. HIDE DEF C
  <2>. QED BY <2>1, <2>2 DEF C
<1>. QED BY <1>1, <1>5, <1>6 DEF AreProducts, y, L, R

\* a number in limbs, all of them in their range
LEMMA ToLimbsAre ==
    ASSUME NEW n \in Nat, n < MacScale.at[MacLimbs]
    PROVE  /\ ToLimbs(n) \in Numerals /\ MacWorth(ToLimbs(n)) = n
           /\ \A i \in 1 .. MacLimbs : ToLimbs(n)[i] \in 0 .. MacRadix - 1
<1>. DEFINE x == ToLimbs(n)
<1>1. AreMacLimbs(x) /\ MacWorth(x) = n
  BY ToLimbsIs
<1>2. x = [i \in 1 .. MacLimbs |-> x[i]]
  BY DEF ToLimbs
<1>. HIDE DEF x
<1>3. \A i \in 1 .. MacLimbs : x[i] \in 0 .. MacRadix - 1
  BY <1>1, MacScaleIs DEF AreMacLimbs, AreLimbs
<1>4. \A i \in 1 .. MacLimbs : x[i] \in Int
  BY <1>3, MacSizes
<1>5. x \in Numerals
  BY <1>2, <1>4 DEF Numerals
<1>. QED BY <1>1, <1>3, <1>5 DEF x

\* A block is added to the accumulator, and the sum is multiplied.
LEMMA BlockIs ==
    ASSUME NEW st, IsLoose(st.h), st.r \in Numerals, \A i \in 1 .. MacLimbs : st.r[i] \in 0 .. MacRadix - 1,
           NEW bytes, NEW final, NEW n \in Nat, n = LittleEndian(bytes) + Mark(final),
           n < MacScale.at[MacLimbs]
    PROVE  \E h \in Numerals :
              /\ Block(st, bytes, final) = [st EXCEPT !.h = h]
              /\ IsLoose(h) /\ IsLike(MacWorth(h), (MacWorth(st.h) + n) * MacWorth(st.r))
<1>. DEFINE L == MacLimbs
            R == MacRadix
            m == ToLimbs(n)
            x == [i \in 1 .. L |-> st.h[i] + m[i]]
            y == Partial(x, st.r, L)
            h == Carried(y, 1)
<1>0. L \in Nat /\ L >= 2 /\ R \in Nat /\ 20 * L < R /\ L \in 0 .. L
  BY MacSizes
<1>1. m \in Numerals /\ MacWorth(m) = n /\ \A i \in 1 .. L : m[i] \in 0 .. R - 1
  BY ToLimbsAre
<1>2. st.h \in Numerals /\ \A i \in 1 .. L : st.h[i] \in 0 .. 2 * R
  <2>1. st.h[2] \in 0 .. R - 1 + 20 * L /\ \A i \in 1 .. L : i # 2 => st.h[i] \in 0 .. R - 1
    BY DEF IsLoose
  <2>. HIDE DEF L, R
  <2>2. ASSUME NEW i \in 1 .. L PROVE st.h[i] \in 0 .. 2 * R
    BY <1>0, <2>1
  <2>. QED BY <2>2 DEF IsLoose, L, R
<1>. HIDE DEF m
<1>3. \A i \in 1 .. L : x[i] = st.h[i] + m[i] /\ x[i] \in 0 .. 3 * R
  <2>. HIDE DEF R
  <2>1. ASSUME NEW i \in 1 .. L PROVE st.h[i] + m[i] \in 0 .. 3 * R
    BY <1>0, <1>1, <1>2
  <2>. QED BY <2>1
<1>4. IsSummed(x)
  <2>1. \A i \in 1 .. L : x[i] \in Int
    BY <1>3, <1>0
  <2>. QED BY <1>3, <2>1 DEF IsSummed, Numerals
<1>5. Block(st, bytes, final) = [st EXCEPT !.h = h]
  <2>. DEFINE folded(i) == FoldLeft(LAMBDA d, j : d + Term(x, st.r, i, j), 0, [j \in 1 .. L |-> j])
  <2>1. Block(st, bytes, final) = [st EXCEPT !.h = Carried([i \in 1 .. L |-> folded(i)], 1)]
    BY DEF Block, Term, m, FoldLeft, MapThenFoldSet
  <2>2. x \in Numerals
    BY <1>4 DEF IsSummed
  <2>. HIDE DEF x
  <2>3. \A i \in 1 .. L : folded(i) = Worth(UnitScale, Terms(x, st.r, i), L)
    BY <2>2, TermsAdd
  <2>. HIDE DEF folded
  <2>4. [i \in 1 .. L |-> folded(i)] = y
    BY <2>3 DEF Partial
  <2>. QED BY <2>1, <2>4
<1>6. MacWorth(x) = MacWorth(st.h) + n
  <2>. DEFINE u == st.h
  <2>1. x \in Numerals /\ u \in Numerals /\ 1 \in Int
    BY <1>2, <1>4 DEF IsSummed
  <2>2. \A i \in 1 .. L : u[i] \in Int /\ x[i] = u[i] + m[i]
    BY <1>2, <1>3 DEF Numerals
  <2>. HIDE DEF x, u
  <2>3. \A i \in 1 .. L : x[i] = 1 * u[i] + m[i]
    BY <2>2
  <2>4. IsMix(MacScale, x, 1, u, m, L)
    BY <1>1, <2>1, <2>3, NumeralsAre DEF IsMix
  <2>5. MacWorth(x) = 1 * MacWorth(u) + MacWorth(m) /\ MacWorth(u) \in Int
    BY <2>1, <2>4, SumMix, NumeralsAre DEF MacWorth
  <2>. QED BY <1>1, <2>5 DEF u
<1>7. AreProducts(y) /\ IsLike(MacWorth(y), MacWorth(x) * MacWorth(st.r))
  <2>1. x \in Numerals
    BY <1>4 DEF IsSummed
  <2>2. AreProducts(y)
    BY <1>4, ProductsAre
  <2>3. IsLike(MacWorth(y), Worth(MacScale, x, L) * MacWorth(st.r))
    BY <1>0, <2>1, PartialWorth
  <2>. QED BY <2>2, <2>3 DEF MacWorth
<1>. HIDE DEF x, y
<1>8. IsLoose(h) /\ IsLike(MacWorth(h), MacWorth(y))
  BY <1>7, CarriedBlock
<1>. HIDE DEF h
<1>9. IsLike(MacWorth(h), (MacWorth(st.h) + n) * MacWorth(st.r))
  <2>. DEFINE b == (MacWorth(st.h) + n) * MacWorth(st.r)
  <2>1. IsLike(MacWorth(y), b)
    BY <1>6, <1>7
  <2>. HIDE DEF b
  <2>2. IsLike(MacWorth(h), b)
    BY <1>8, <2>1, LikeAlso
  <2>. QED BY <2>2 DEF b
<1>. QED BY <1>5, <1>8, <1>9 DEF IsLoose

-----------------------------------------------------------------------------
(* Poly1305: what has come in *)

MacCtx(r, pad, h, buffer) == [r |-> ToLimbs(r), h |-> h, pad |-> pad, buffer |-> buffer]
Factors == 0 .. BlockMod - 1

\* one more turn of the polynomial, a block being worth n
IsTurn(h, w, bytes, final, n) ==
    /\ IsLoose(h) /\ IsLike(MacWorth(h), w)
    /\ n \in 0 .. 2 * BlockMod - 1 /\ n = LittleEndian(bytes) + Mark(final)
IsTurned(st, r, pad, g, buffer, v) ==
    g \in Numerals /\ st = MacCtx(r, pad, g, buffer) /\ IsLoose(g) /\ IsLike(MacWorth(g), v)

LEMMA BlockTurn ==
    ASSUME NEW r \in Factors, NEW pad, NEW h, NEW buffer, NEW w, NEW bytes, NEW final, NEW n,
           IsTurn(h, w, bytes, final, n)
    PROVE  \E g : IsTurned(Block(MacCtx(r, pad, h, buffer), bytes, final), r, pad, g, buffer,
                           ((w + n) * r) % MacPrime)
<1>. DEFINE st == MacCtx(r, pad, h, buffer)
            x == ToLimbs(r)
<1>. USE DEF IsTurn
<1>0. /\ r \in Nat /\ n \in Nat /\ BlockMod \in Nat \ {0}
      /\ r < MacScale.at[MacLimbs] /\ n < MacScale.at[MacLimbs]
  BY MacSizes DEF Factors
<1>1. x \in Numerals /\ MacWorth(x) = r /\ \A i \in 1 .. MacLimbs : x[i] \in 0 .. MacRadix - 1
  BY <1>0, ToLimbsAre
<1>2. st.h = h /\ st.r = x /\ \A g : [st EXCEPT !.h = g] = MacCtx(r, pad, g, buffer)
  BY DEF MacCtx
<1>. HIDE DEF st, x
<1>3. PICK g \in Numerals : /\ Block(st, bytes, final) = [st EXCEPT !.h = g]
                            /\ IsLoose(g) /\ IsLike(MacWorth(g), (MacWorth(st.h) + n) * MacWorth(st.r))
  BY <1>0, <1>1, <1>2, BlockIs
<1>. DEFINE v == MacWorth(h)
            b == (w + n) * r
<1>4. IsLike(MacWorth(g), (v + n) * r)
  BY <1>1, <1>2, <1>3
<1>5. IsLike((v + n) * r, b)
  <2>. HIDE DEF v
  <2>1. IsLike(v, w) /\ v \in Int /\ w \in Int
    BY DEF IsLike, v
  <2>2. IsLike(n, n)
    BY <1>0, LikeItself
  <2>3. IsLike(v + n, w + n) /\ v + n \in Int /\ w + n \in Int
    BY <1>0, <2>1, <2>2, LikeSum
  <2>4. IsLike(r * (v + n), r * (w + n))
    BY <1>0, <2>3, LikeTimes
  <2>5. r * (v + n) = (v + n) * r /\ r * (w + n) = (w + n) * r
    BY <1>0, <2>3
  <2>. QED BY <2>4, <2>5
<1>. DEFINE c == (v + n) * r
            d == MacWorth(g)
<1>. HIDE DEF b, c, d, v
<1>6. IsLike(d, b)
  BY <1>4, <1>5, LikeAlso DEF c, d
<1>7. IsLike(d, b % MacPrime)
  BY <1>6, LikeResidue
<1>. QED BY <1>2, <1>3, <1>7 DEF st, b, d, IsTurned

\* a part of a sequence
IsPiece(u, X, s, a, b) ==
    u \in Seq(X) /\ Len(u) = b - a /\ \A i \in 1 .. b - a : u[i] = s[a + i]

LEMMA PieceIs ==
    ASSUME NEW X, NEW s \in Seq(X), NEW a \in Nat, NEW b \in Nat, a <= b, b <= Len(s)
    PROVE  IsPiece(SubSeq(s, a + 1, b), X, s, a, b)
<1>1. Len(s) \in Nat /\ \A i \in 1 .. Len(s) : s[i] \in X
  OBVIOUS
<1>2. SubSeq(s, a + 1, b) \in Seq(X)
  BY <1>1
<1>3. Len(SubSeq(s, a + 1, b)) = b - a
  BY <1>1
<1>4. ASSUME NEW i \in 1 .. b - a PROVE SubSeq(s, a + 1, b)[i] = s[a + i]
  <2>1. (a + 1) + i - 1 = a + i /\ i \in 1 .. b - (a + 1) + 1
    OBVIOUS
  <2>2. SubSeq(s, a + 1, b)[i] = s[(a + 1) + i - 1]
    BY <1>1, <2>1
  <2>. QED BY <2>1, <2>2
<1>. QED BY <1>2, <1>3, <1>4 DEF IsPiece

LEMMA PieceOfPiece ==
    ASSUME NEW X, NEW s \in Seq(X), NEW a \in Nat, NEW e \in Nat, NEW c \in Nat, NEW d \in Nat,
           c <= d, a + d <= e, e <= Len(s)
    PROVE  SubSeq(SubSeq(s, a + 1, e), c + 1, d) = SubSeq(s, (a + c) + 1, a + d)
<1>. DEFINE u == SubSeq(s, a + 1, e)
            v == SubSeq(u, c + 1, d)
            x == a + c
            y == a + d
            w == SubSeq(s, x + 1, y)
<1>0. a <= e /\ x \in Nat /\ y \in Nat /\ x <= y /\ y <= Len(s) /\ y - x = d - c /\ d <= e - a /\ Len(s) \in Nat
  OBVIOUS
<1>1. u \in Seq(X) /\ Len(u) = e - a /\ \A i \in 1 .. e - a : u[i] = s[a + i]
  BY <1>0, PieceIs DEF IsPiece
<1>. HIDE DEF u, x, y
<1>2. v \in Seq(X) /\ Len(v) = d - c /\ \A i \in 1 .. d - c : v[i] = u[c + i]
  <2>1. d <= Len(u)
    BY <1>0, <1>1
  <2>. QED BY <1>1, <2>1, PieceIs DEF IsPiece
<1>3. w \in Seq(X) /\ Len(w) = d - c /\ \A i \in 1 .. d - c : w[i] = s[x + i]
  <2>1. w \in Seq(X) /\ Len(w) = y - x /\ \A i \in 1 .. y - x : w[i] = s[x + i]
    BY <1>0, PieceIs DEF IsPiece
  <2>. QED BY <1>0, <2>1
<1>. HIDE DEF v, w
<1>4. \A i \in 1 .. d - c : v[i] = w[i]
  <2>. SUFFICES ASSUME NEW i \in 1 .. d - c PROVE v[i] = w[i]
    OBVIOUS
  <2>. DEFINE j == c + i
  <2>1. j \in 1 .. e - a /\ a + j = x + i
    BY <1>0 DEF x
  <2>2. v[i] = u[j] /\ w[i] = s[x + i]
    BY <1>2, <1>3
  <2>. HIDE DEF j
  <2>. QED BY <1>1, <2>1, <2>2
<1>5. v = w
  BY <1>2, <1>3, <1>4, SameSeq
<1>. QED BY <1>5 DEF u, v, w, x, y

\* a part of a sequence with another behind it
LEMMA PiecesJoin ==
    ASSUME NEW X, NEW s \in Seq(X), NEW w \in Seq(X), NEW a \in Nat, a <= Len(s), NEW n \in 0 .. Len(w)
    PROVE  /\ SubSeq(s, a + 1, Len(s)) \o SubSeq(w, 1, n) = SubSeq(s \o w, a + 1, Len(s) + n)
           /\ SubSeq(w, n + 1, Len(w)) = SubSeq(s \o w, (Len(s) + n) + 1, Len(s \o w))
<1>. DEFINE all == s \o w
            l == Len(s)
            m == Len(w)
            u == SubSeq(s, a + 1, l)
            z == SubSeq(w, 0 + 1, n)
            uz == u \o z
            b == l + n
            v == SubSeq(all, a + 1, b)
            f == SubSeq(w, n + 1, m)
            g == SubSeq(all, b + 1, l + m)
<1>0. /\ l \in Nat /\ m \in Nat /\ n \in Nat /\ n <= m /\ b \in Nat /\ a <= b /\ b <= l + m /\ l + m \in Nat
      /\ b - a = (l - a) + n /\ (l + m) - b = m - n
  OBVIOUS
<1>1. /\ all \in Seq(X) /\ Len(all) = l + m /\ \A i \in 1 .. l : all[i] = s[i]
      /\ \A i \in 1 .. m : all[l + i] = w[i]
  BY Joined DEF IsJoin
<1>. HIDE DEF all, b
<1>2. u \in Seq(X) /\ Len(u) = l - a /\ \A i \in 1 .. l - a : u[i] = s[a + i]
  BY <1>0, PieceIs DEF IsPiece
<1>3. z \in Seq(X) /\ Len(z) = n /\ \A i \in 1 .. n : z[i] = w[i]
  <2>1. 0 \in Nat /\ 0 <= n /\ n - 0 = n /\ \A i \in 1 .. n : 0 + i = i
    BY <1>0
  <2>2. IsPiece(z, X, w, 0, n)
    BY <1>0, <2>1, PieceIs
  <2>. HIDE DEF z
  <2>. QED BY <2>1, <2>2 DEF IsPiece
<1>4. v \in Seq(X) /\ Len(v) = b - a /\ \A i \in 1 .. b - a : v[i] = all[a + i]
  BY <1>0, <1>1, PieceIs DEF IsPiece
<1>5. f \in Seq(X) /\ Len(f) = m - n /\ \A i \in 1 .. m - n : f[i] = w[n + i]
  BY <1>0, PieceIs DEF IsPiece
<1>6. g \in Seq(X) /\ Len(g) = (l + m) - b /\ \A i \in 1 .. (l + m) - b : g[i] = all[b + i]
  BY <1>0, <1>1, PieceIs DEF IsPiece
<1>. HIDE DEF u, z, v, f, g
<1>7. /\ uz \in Seq(X) /\ Len(uz) = b - a /\ \A i \in 1 .. l - a : uz[i] = u[i]
      /\ \A i \in 1 .. n : uz[(l - a) + i] = z[i]
  <2>1. uz \in Seq(X) /\ IsJoin(uz, u, z)
    BY <1>2, <1>3, Joined
  <2>. HIDE DEF uz
  <2>. QED BY <1>0, <1>2, <1>3, <2>1 DEF IsJoin
<1>. HIDE DEF uz
<1>8. \A i \in 1 .. b - a : uz[i] = v[i]
  <2>. SUFFICES ASSUME NEW i \in 1 .. b - a PROVE uz[i] = v[i]
    OBVIOUS
  <2>. DEFINE k == a + i
  <2>0. v[i] = all[k]
    BY <1>4
  <2>1. CASE i <= l - a
    <3>1. i \in 1 .. l - a /\ k \in 1 .. l
      BY <1>0, <2>1
    <3>2. uz[i] = s[k]
      BY <1>2, <1>7, <3>1
    <3>. HIDE DEF k
    <3>. QED BY <1>1, <2>0, <3>1, <3>2
  <2>2. CASE ~(i <= l - a)
    <3>. DEFINE j == i - (l - a)
    <3>1. j \in 1 .. n /\ (l - a) + j = i /\ l + j = k /\ j \in 1 .. m
      BY <1>0, <2>2
    <3>. HIDE DEF j, k
    <3>2. uz[(l - a) + j] = w[j]
      BY <1>3, <1>7, <3>1
    <3>3. all[l + j] = w[j]
      BY <1>1, <3>1
    <3>. QED BY <2>0, <3>1, <3>2, <3>3
  <2>. QED BY <2>1, <2>2
<1>9. uz = v
  BY <1>4, <1>7, <1>8, SameSeq
<1>10. \A i \in 1 .. m - n : f[i] = g[i]
  <2>. SUFFICES ASSUME NEW i \in 1 .. m - n PROVE f[i] = g[i]
    OBVIOUS
  <2>. DEFINE j == n + i
  <2>1. j \in 1 .. m /\ b + i = l + j /\ i \in 1 .. (l + m) - b
    BY <1>0 DEF b
  <2>2. f[i] = w[j] /\ g[i] = all[b + i]
    BY <1>5, <1>6, <2>1
  <2>. HIDE DEF j
  <2>. QED BY <1>1, <2>1, <2>2
<1>11. f = g
  BY <1>0, <1>5, <1>6, <1>10, SameSeq
<1>12. z = SubSeq(w, 1, n) /\ g = SubSeq(all, b + 1, Len(all))
  BY <1>1 DEF z, g
<1>13. /\ u \o SubSeq(w, 1, n) = v /\ f = SubSeq(all, b + 1, Len(all))
  BY <1>9, <1>11, <1>12 DEF uz
<1>. HIDE DEF l
<1>. QED BY <1>13 DEF u, v, f, b, all, l

\* the value of the polynomial after each of n whole blocks
Coefficient(in, k) == LittleEndian(Append(SubSeq(in, (k - 1) * BlockSize + 1, k * BlockSize), 1))
IsHorner(v, r, in, n) ==
    v[0] = 0 /\ \A k \in 1 .. n : v[k] = ((v[k - 1] + Coefficient(in, k)) * r) % MacPrime
Absorbed(h, r, in, q) == IsLoose(h) /\ \E v : IsHorner(v, r, in, q) /\ IsLike(MacWorth(h), v[q])
HasAbsorbed(st, r, pad, buffer, in, q) ==
    \E g \in Numerals : st = MacCtx(r, pad, g, buffer) /\ Absorbed(g, r, in, q)

\* where the blocks of an input are
LEMMA BlockPlace ==
    ASSUME NEW q \in Nat
    PROVE  /\ q * BlockSize \in Nat /\ (q + 1) * BlockSize = q * BlockSize + BlockSize
           /\ q + 1 \in Nat /\ (q + 1) - 1 = q
BY MacSizes

LEMMA BlockAbsorbed ==
    ASSUME NEW r \in Factors, NEW pad, NEW h, NEW buffer, NEW in \in Seq(Octet), NEW q \in Nat,
           (q + 1) * BlockSize <= Len(in), Absorbed(h, r, in, q)
    PROVE  HasAbsorbed(Block(MacCtx(r, pad, h, buffer),
                             SubSeq(in, q * BlockSize + 1, (q + 1) * BlockSize), FALSE),
                       r, pad, buffer, in, q + 1)
<1>. DEFINE a == q * BlockSize
            b == (q + 1) * BlockSize
            bytes == SubSeq(in, a + 1, b)
            n == LittleEndian(bytes) + Mark(FALSE)
            k == q + 1
<1>0. a \in Nat /\ b = a + BlockSize /\ BlockSize \in Nat \ {0} /\ b <= Len(in) /\ k \in Nat /\ k - 1 = q
      /\ a <= b /\ b \in Nat /\ b - a = BlockSize
  BY MacSizes, BlockPlace
<1>1. PICK v : IsHorner(v, r, in, q) /\ IsLike(MacWorth(h), v[q])
  BY DEF Absorbed
<1>2. Coefficient(in, k) = LittleEndian(Append(bytes, 1))
  BY <1>0 DEF Coefficient
<1>. HIDE DEF a, b
<1>3. bytes \in Seq(Octet) /\ Len(bytes) = BlockSize
  BY <1>0, PieceIs DEF IsPiece
<1>. HIDE DEF bytes
<1>4. LittleEndian(bytes) \in 0 .. BlockMod - 1 /\ Coefficient(in, k) = LittleEndian(bytes) + BlockMod
  <2>1. Len(bytes) <= BlockSize
    BY <1>0, <1>3
  <2>. QED BY <1>2, <1>3, <2>1, BlockWorth
<1>5. n \in 0 .. 2 * BlockMod - 1 /\ n = Coefficient(in, k)
  BY <1>4, MacSizes DEF Mark
<1>. DEFINE w == v[q]
            final == FALSE
<1>6. PICK g : IsTurned(Block(MacCtx(r, pad, h, buffer), bytes, final), r, pad, g, buffer,
                        ((w + n) * r) % MacPrime)
  <2>1. IsTurn(h, w, bytes, final, n)
    BY <1>1, <1>5 DEF Absorbed, IsTurn
  <2>. HIDE DEF n, w, final
  <2>. QED BY <2>1, BlockTurn
<1>. DEFINE z == ((w + n) * r) % MacPrime
            u == [i \in 0 .. k |-> IF i = k THEN z ELSE v[i]]
<1>7. u[k] = z /\ \A i \in 0 .. q : u[i] = v[i]
  <2>1. k \in 0 .. k /\ \A i \in 0 .. q : i \in 0 .. k /\ i # k
    BY <1>0
  <2>. HIDE DEF z, k
  <2>. QED BY <2>1
<1>. HIDE DEF u
<1>8. IsHorner(u, r, in, k)
  <2>1. u[0] = 0
    <3>1. 0 \in 0 .. q
      OBVIOUS
    <3>. QED BY <1>1, <1>7, <3>1 DEF IsHorner
  <2>2. ASSUME NEW i \in 1 .. k PROVE u[i] = ((u[i - 1] + Coefficient(in, i)) * r) % MacPrime
    <3>1. CASE i = k
      <4>1. u[i] = z /\ u[i - 1] = w /\ Coefficient(in, i) = n
        <5>1. q \in 0 .. q
          OBVIOUS
        <5>. HIDE DEF z, k, n
        <5>. QED BY <1>0, <1>5, <1>7, <3>1, <5>1
      <4>. QED BY <4>1
    <3>2. CASE i # k
      <4>1. i \in 1 .. q /\ i \in 0 .. q /\ i - 1 \in 0 .. q
        BY <3>2
      <4>2. v[i] = ((v[i - 1] + Coefficient(in, i)) * r) % MacPrime
        BY <1>1, <4>1 DEF IsHorner
      <4>3. u[i] = v[i] /\ u[i - 1] = v[i - 1]
        BY <1>7, <4>1
      <4>. QED BY <4>2, <4>3
    <3>. QED BY <3>1, <3>2
  <2>. HIDE DEF k
  <2>. QED BY <2>1, <2>2 DEF IsHorner
<1>9. Absorbed(g, r, in, k)
  <2>1. IsLike(MacWorth(g), u[k]) /\ IsLoose(g)
    BY <1>6, <1>7 DEF IsTurned
  <2>. HIDE DEF k
  <2>. QED BY <1>8, <2>1 DEF Absorbed
<1>. QED BY <1>6, <1>9 DEF bytes, a, b, IsTurned, HasAbsorbed

\* block i of what is taken
Taken(bytes, i) == SubSeq(bytes, i * BlockSize - BlockSize + 1, i * BlockSize)

\* after each block
IsFeeding(a, st, bytes) ==
    LET n == Len(bytes) \div BlockSize IN
    /\ a[0] = st /\ Blocks(st, bytes) = a[n]
    /\ \A i \in 1 .. n : a[i] = Block(a[i - 1], Taken(bytes, i), FALSE)

LEMMA BlocksIn ==
    ASSUME NEW d \in Nat
    PROVE  /\ d \div BlockSize \in Nat
           /\ (d \div BlockSize) * BlockSize <= d /\ d < (d \div BlockSize) * BlockSize + BlockSize
           /\ \A i \in 1 .. d \div BlockSize : i * BlockSize - BlockSize \in Nat /\ i * BlockSize <= d
<1>. DEFINE n == d \div BlockSize
            e == d % BlockSize
            B == BlockSize
<1>1. B \in Nat \ {0} /\ n \in Nat /\ e \in 0 .. B - 1 /\ d = n * B + e
  <2>1. B \in Nat \ {0} /\ d \in Int /\ d >= 0
    BY MacSizes
  <2>. QED BY <2>1, DividedIs
<1>. HIDE DEF n, e, B
<1>2. n * B \in Nat
  BY <1>1
<1>3. ASSUME NEW i \in 1 .. n PROVE i * B - B \in Nat /\ i * B <= d
  <2>. DEFINE x == i - 1
              y == n - i
  <2>1. x \in Nat /\ y \in Nat /\ i = x + 1 /\ n = i + y /\ i \in Nat
    BY <1>1
  <2>. HIDE DEF x, y
  <2>2. (x + 1) * B = x * B + B /\ x * B \in Nat
    BY <1>1, <2>1
  <2>3. (i + y) * B = i * B + y * B /\ y * B \in Nat /\ i * B \in Nat
    BY <1>1, <2>1
  <2>. QED BY <1>1, <2>1, <2>2, <2>3
<1>4. n * B <= d /\ d < n * B + B
  BY <1>1, <1>2
<1>. QED BY <1>1, <1>3, <1>4 DEF n, B

LEMMA TakenIs ==
    ASSUME NEW bytes \in Seq(Octet), NEW i \in 1 .. Len(bytes) \div BlockSize
    PROVE  /\ Taken(bytes, i) \in Seq(Octet)
           /\ LittleEndian(Taken(bytes, i)) + Mark(FALSE) \in 0 .. 2 * BlockMod - 1
<1>. DEFINE b == i * BlockSize
            a == b - BlockSize
            s == Taken(bytes, i)
<1>0. BlockSize \in Nat \ {0} /\ Len(bytes) \in Nat
  BY MacSizes
<1>1. a \in Nat /\ b \in Nat /\ b <= Len(bytes) /\ a <= b /\ b - a = BlockSize
  <2>1. a \in Nat /\ b <= Len(bytes)
    BY <1>0, BlocksIn
  <2>2. b \in Int
    <3>1. i \in Int
      BY <1>0, BlocksIn
    <3>. QED BY <1>0, <3>1
  <2>. HIDE DEF b
  <2>. QED BY <1>0, <2>1, <2>2
<1>2. s = SubSeq(bytes, a + 1, b)
  BY DEF Taken
<1>. HIDE DEF a, b
<1>3. s \in Seq(Octet) /\ Len(s) = BlockSize
  BY <1>1, <1>2, PieceIs DEF IsPiece
<1>. HIDE DEF s
<1>4. LittleEndian(s) \in 0 .. BlockMod - 1
  <2>1. Len(s) <= BlockSize
    BY <1>0, <1>3
  <2>. QED BY <1>3, <2>1, BlockWorth
<1>5. LittleEndian(s) + Mark(FALSE) \in 0 .. 2 * BlockMod - 1
  BY <1>4, MacSizes DEF Mark
<1>. QED BY <1>3, <1>5 DEF s

LEMMA BlocksTurns ==
    ASSUME NEW r \in Factors, NEW pad, NEW h, IsLoose(h), NEW buffer, NEW bytes \in Seq(Octet)
    PROVE  \E a : IsFeeding(a, MacCtx(r, pad, h, buffer), bytes)
<1>. DEFINE n == Len(bytes) \div BlockSize
            ids == [i \in 1 .. n |-> i]
            start == MacCtx(r, pad, h, buffer)
            X == {MacCtx(r, pad, g, buffer) : g \in {g \in Numerals : IsLoose(g)}}
            turn(c, i) == Block(c, Taken(bytes, i), FALSE)
            iter[S \in SUBSET (DOMAIN ids)] ==
               IF S = {} THEN start
               ELSE LET m == Max(S) IN turn(iter[S \ {m}], ids[m])
            F == [p \in Nat \X X |-> IF p[1] \in 1 .. n THEN turn(p[2], p[1]) ELSE p[2]]
<1>0. n \in Nat
  BY BlocksIn
<1>1. start \in X
  BY DEF IsLoose
<1>2. ASSUME NEW c \in X, NEW i \in 1 .. n PROVE turn(c, i) \in X
  <2>1. PICK g : g \in Numerals /\ IsLoose(g) /\ c = MacCtx(r, pad, g, buffer)
    OBVIOUS
  <2>. DEFINE s == Taken(bytes, i)
              w == MacWorth(g)
              final == FALSE
              m == LittleEndian(s) + Mark(final)
  <2>2. IsLike(w, w)
    BY <2>1, NumeralsAre, LikeItself
  <2>3. m \in 0 .. 2 * BlockMod - 1
    BY TakenIs
  <2>. HIDE DEF s, w, final
  <2>4. IsTurn(g, w, s, final, m)
    BY <2>1, <2>2, <2>3 DEF IsTurn, w
  <2>. HIDE DEF m
  <2>. DEFINE v == ((w + m) * r) % MacPrime
  <2>5. PICK z : IsTurned(Block(MacCtx(r, pad, g, buffer), s, final), r, pad, z, buffer, v)
    BY <2>4, BlockTurn
  <2>6. Block(c, s, final) \in X
    BY <2>1, <2>5 DEF IsTurned
  <2>. QED BY <2>6 DEF s, final
<1>. HIDE DEF turn, X
<1>3. F \in [Nat \X X -> X]
  <2>1. \A p \in Nat \X X : p[1] \in Nat /\ p[2] \in X
    OBVIOUS
  <2>. HIDE DEF n
  <2>. QED BY <1>2, <2>1
<1>4. DOMAIN ids = 1 .. n /\ \A i \in 1 .. n : ids[i] = i
  OBVIOUS
<1>5. \A i \in Nat, c \in X : i \in 1 .. n => F[<<i, c>>] = turn(c, i)
  OBVIOUS
<1>. HIDE DEF F, start, n
<1>6. PICK g : IsFold(g, X, F, start, n)
  BY <1>0, <1>1, <1>3, FoldTurns
<1>7. g = [S \in SUBSET (DOMAIN ids) |->
              IF S = {} THEN start ELSE turn(g[S \ {Max(S)}], ids[Max(S)])]
  <2>. HIDE DEF ids
  <2>1. ASSUME NEW S \in SUBSET (1 .. n), S # {}
        PROVE  g[S] = turn(g[S \ {Max(S)}], ids[Max(S)])
    <3>1. /\ Max(S) \in 1 .. n /\ Max(S) \in Nat /\ g[S \ {Max(S)}] \in X
          /\ g[S] = F[<<Max(S), g[S \ {Max(S)}]>>]
      BY <1>6, <2>1 DEF IsFold
    <3>. QED BY <1>4, <1>5, <3>1
  <2>. QED BY <1>4, <1>6, <2>1 DEF IsFold
<1>8. iter = CHOOSE f : f = [S \in SUBSET (DOMAIN ids) |->
              IF S = {} THEN start ELSE turn(f[S \ {Max(S)}], ids[Max(S)])]
  BY Zenon
<1>9. iter = [S \in SUBSET (DOMAIN ids) |->
              IF S = {} THEN start ELSE turn(iter[S \ {Max(S)}], ids[Max(S)])]
  <2>. HIDE DEF iter, ids
  <2>. QED BY <1>7, <1>8
<1>10. Blocks(start, bytes) = iter[DOMAIN ids]
  BY DEF Blocks, FoldLeft, MapThenFoldSet, Taken, turn, n
<1>. DEFINE a == [i \in 0 .. n |-> iter[1 .. i]]
<1>. HIDE DEF iter, ids
<1>11. a[0] = start /\ a[n] = iter[DOMAIN ids]
  <2>1. 1 .. 0 = {} /\ {} \in SUBSET (DOMAIN ids) /\ 0 \in 0 .. n /\ n \in 0 .. n
    BY <1>0
  <2>2. iter[{}] = start
    BY <1>9, <2>1
  <2>. QED BY <1>4, <2>1, <2>2
<1>12. ASSUME NEW i \in 1 .. n
       PROVE  a[i] = turn(a[i - 1], i)
  <2>1. /\ Max(1 .. i) = i /\ (1 .. i) \ {i} = 1 .. (i - 1) /\ 1 .. i # {}
        /\ 1 .. i \in SUBSET (DOMAIN ids) /\ i \in 0 .. n /\ i - 1 \in 0 .. n
    BY <1>0, <1>4, UpTo
  <2>2. iter[1 .. i] = turn(iter[(1 .. i) \ {Max(1 .. i)}], ids[Max(1 .. i)])
    BY <1>9, <2>1
  <2>3. a[i] = iter[1 .. i] /\ a[i - 1] = iter[1 .. (i - 1)]
    BY <2>1
  <2>. HIDE DEF a
  <2>. QED BY <1>4, <2>1, <2>2, <2>3
<1>. HIDE DEF a
<1>13. IsFeeding(a, start, bytes)
  BY <1>10, <1>11, <1>12 DEF IsFeeding, n, turn
<1>. QED BY <1>13 DEF start

LEMMA BlocksAbsorbed ==
    ASSUME NEW r \in Factors, NEW pad, NEW h, NEW buffer, NEW in \in Seq(Octet), NEW q \in Nat, NEW k \in Nat,
           (q + k) * BlockSize <= Len(in), Absorbed(h, r, in, q)
    PROVE  HasAbsorbed(Blocks(MacCtx(r, pad, h, buffer),
                              SubSeq(in, q * BlockSize + 1, (q + k) * BlockSize)),
                       r, pad, buffer, in, q + k)
<1>. DEFINE B == BlockSize
            x == q * B
            y == k * B
            b == (q + k) * B
            bytes == SubSeq(in, x + 1, b)
            st == MacCtx(r, pad, h, buffer)
<1>0. B \in Nat \ {0} /\ x \in Nat /\ y \in Nat /\ b = x + y /\ b \in Nat /\ x <= b /\ b - x = y
      /\ b <= Len(in) /\ Len(in) \in Nat
  <2>1. B \in Nat \ {0} /\ b <= Len(in) /\ Len(in) \in Nat
    BY MacSizes
  <2>2. (q + k) * B = q * B + k * B /\ q * B \in Nat /\ k * B \in Nat
    BY <2>1
  <2>. HIDE DEF B
  <2>. QED BY <2>1, <2>2
<1>. HIDE DEF x, y, b
<1>1. /\ bytes \in Seq(Octet) /\ Len(bytes) = y
      /\ \A i \in 1 .. y : bytes[i] = in[x + i]
  BY <1>0, PieceIs DEF IsPiece
<1>2. Len(bytes) \div B = k
  <2>. HIDE DEF B, bytes
  <2>1. IsDivision(y, B, k, 0)
    BY <1>0 DEF IsDivision, y
  <2>. QED BY <1>1, <2>1, Divided
<1>. HIDE DEF bytes
<1>3. IsLoose(h)
  BY DEF Absorbed
<1>4. PICK a : IsFeeding(a, st, bytes)
  BY <1>1, <1>3, BlocksTurns
<1>5. a[0] = st /\ Blocks(st, bytes) = a[k] /\ \A i \in 1 .. k : a[i] = Block(a[i - 1], Taken(bytes, i), FALSE)
  BY <1>2, <1>4 DEF IsFeeding
<1>. DEFINE D == {i \in Nat : i <= k => HasAbsorbed(a[i], r, pad, buffer, in, q + i)}
<1>. HIDE DEF B, st
<1>6. 0 \in D
  <2>1. q + 0 = q /\ h \in Numerals
    BY <1>3 DEF IsLoose
  <2>. QED BY <1>5, <2>1 DEF st, HasAbsorbed
<1>7. ASSUME NEW i \in Nat, i \in D PROVE i + 1 \in D
  <2>. SUFFICES ASSUME i + 1 <= k PROVE HasAbsorbed(a[i + 1], r, pad, buffer, in, q + (i + 1))
    OBVIOUS
  <2>. DEFINE j == i + 1
              p == q + i
              u == i * B
              v == j * B
  <2>1. i <= k /\ j \in 1 .. k /\ j - 1 = i /\ p \in Nat /\ p + 1 = q + j
    OBVIOUS
  <2>2. PICK g \in Numerals : a[i] = MacCtx(r, pad, g, buffer) /\ Absorbed(g, r, in, p)
    BY <1>7, <2>1 DEF HasAbsorbed
  <2>3. a[j] = Block(a[i], Taken(bytes, j), FALSE)
    <3>. HIDE DEF j
    <3>. QED BY <1>5, <2>1
  <2>4. u \in Nat /\ v \in Nat /\ v = u + B /\ v <= y /\ v - B = u /\ p * B = x + u /\ (p + 1) * B = x + v
    <3>. DEFINE e == k - j
    <3>1. e \in Nat /\ k = j + e /\ j \in Nat
      BY <2>1
    <3>2. v = u + B /\ u \in Nat /\ p * B = q * B + u /\ (p + 1) * B = p * B + B
      BY <1>0
    <3>. HIDE DEF e, j
    <3>3. (j + e) * B = j * B + e * B /\ e * B \in Nat /\ j * B \in Nat
      BY <1>0, <3>1
    <3>. HIDE DEF u, v, p
    <3>4. y = v + e * B /\ p * B = x + u /\ v \in Nat
      BY <3>1, <3>2, <3>3 DEF y, x, v
    <3>. DEFINE eb == e * B
                pb == p * B
    <3>5. eb \in Nat /\ y = v + eb /\ pb = x + u /\ (p + 1) * B = pb + B
      BY <3>2, <3>3, <3>4
    <3>. HIDE DEF eb, pb
    <3>6. v <= y /\ v - B = u /\ pb + B = x + v
      BY <1>0, <3>2, <3>4, <3>5
    <3>. QED BY <3>2, <3>4, <3>5, <3>6
  <2>. DEFINE s == SubSeq(in, p * B + 1, (p + 1) * B)
  <2>. HIDE DEF u, v, p, j
  <2>5. Taken(bytes, j) = s
    <3>1. Taken(bytes, j) = SubSeq(bytes, u + 1, v)
      BY <2>4 DEF Taken, B, v
    <3>2. u <= v /\ x + v <= b /\ b <= Len(in) /\ u \in Nat /\ v \in Nat /\ x \in Nat /\ b \in Nat
      BY <1>0, <2>4
    <3>3. SubSeq(SubSeq(in, x + 1, b), u + 1, v) = SubSeq(in, (x + u) + 1, x + v)
      BY <3>2, PieceOfPiece
    <3>. QED BY <2>4, <3>1, <3>3 DEF bytes, s
  <2>6. (p + 1) * B <= Len(in)
    BY <1>0, <2>4
  <2>7. HasAbsorbed(Block(MacCtx(r, pad, g, buffer), s, FALSE), r, pad, buffer, in, p + 1)
    BY <2>1, <2>2, <2>6, BlockAbsorbed DEF B, s
  <2>. QED BY <2>1, <2>2, <2>3, <2>5, <2>7 DEF j
<1>. HIDE DEF D
<1>8. k \in D
  BY <1>6, <1>7, Induction
<1>9. HasAbsorbed(a[k], r, pad, buffer, in, q + k)
  BY <1>8 DEF D
<1>. QED BY <1>5, <1>9 DEF st, bytes, x, b, B

\* What has been absorbed stays so when more comes in.
LEMMA AbsorbedStays ==
    ASSUME NEW h, NEW r, NEW in \in Seq(Octet), NEW w \in Seq(Octet), NEW q \in Nat,
           q * BlockSize <= Len(in), Absorbed(h, r, in, q)
    PROVE  Absorbed(h, r, in \o w, q)
<1>. DEFINE all == in \o w
<1>0. all \in Seq(Octet) /\ IsJoin(all, in, w)
  BY Joined
<1>. HIDE DEF all
<1>1. /\ Len(in) \in Nat /\ Len(w) \in Nat /\ Len(all) = Len(in) + Len(w)
      /\ \A i \in 1 .. Len(in) : all[i] = in[i]
  BY <1>0 DEF IsJoin
<1>2. PICK v : IsHorner(v, r, in, q) /\ IsLike(MacWorth(h), v[q])
  BY DEF Absorbed
<1>3. ASSUME NEW k \in 1 .. q PROVE Coefficient(all, k) = Coefficient(in, k)
  <2>. DEFINE a == (k - 1) * BlockSize
              b == k * BlockSize
              s == SubSeq(in, a + 1, b)
              t == SubSeq(all, a + 1, b)
  <2>1. a \in Nat /\ b \in Nat /\ a <= b /\ b <= Len(in) /\ b <= Len(all)
    <3>. DEFINE B == BlockSize
                d == k - 1
                e == q - k
    <3>1. B \in Nat /\ d \in Nat /\ e \in Nat /\ k = d + 1 /\ q = k + e /\ k \in Nat /\ q * B <= Len(in)
      BY MacSizes
    <3>. HIDE DEF d, e, B
    <3>2. (d + 1) * B = d * B + B /\ (k + e) * B = k * B + e * B /\ d * B \in Nat /\ e * B \in Nat
          /\ k * B \in Nat
      BY <3>1
    <3>3. a = d * B /\ b = k * B
      BY DEF d, B
    <3>. DEFINE dB == d * B
                eB == e * B
                kB == k * B
    <3>4. dB \in Nat /\ eB \in Nat /\ kB = dB + B /\ q * B = kB + eB /\ kB \in Nat
      BY <3>1, <3>2
    <3>. HIDE DEF dB, eB, kB, a, b
    <3>5. a = dB /\ b = kB /\ kB + eB <= Len(in)
      BY <3>1, <3>3, <3>4 DEF dB, kB
    <3>. QED BY <1>1, <3>1, <3>4, <3>5
  <2>. HIDE DEF a, b
  <2>2. s \in Seq(Octet) /\ Len(s) = b - a /\ \A i \in 1 .. b - a : s[i] = in[a + i]
    BY <2>1, PieceIs DEF IsPiece
  <2>3. t \in Seq(Octet) /\ Len(t) = b - a /\ \A i \in 1 .. b - a : t[i] = all[a + i]
    BY <1>0, <2>1, PieceIs DEF IsPiece
  <2>. HIDE DEF s, t
  <2>4. \A i \in 1 .. b - a : t[i] = s[i]
    <3>. SUFFICES ASSUME NEW i \in 1 .. b - a PROVE t[i] = s[i]
      OBVIOUS
    <3>. DEFINE m == a + i
    <3>1. m \in 1 .. Len(in)
      BY <1>1, <2>1
    <3>2. t[i] = all[m] /\ s[i] = in[m]
      BY <2>2, <2>3
    <3>. HIDE DEF m
    <3>. QED BY <1>1, <3>1, <3>2
  <2>5. t = s
    BY <2>2, <2>3, <2>4, SameSeq
  <2>. QED BY <2>5 DEF Coefficient, s, t, a, b
<1>4. IsHorner(v, r, all, q)
  BY <1>2, <1>3 DEF IsHorner
<1>. QED BY <1>2, <1>4 DEF Absorbed, all

\* what the context is after an input of any length, however it came in
IsMacked(st, r, pad, in) ==
    \E q \in Nat, h \in Numerals :
        /\ q * BlockSize <= Len(in) /\ Len(in) < q * BlockSize + BlockSize
        /\ Absorbed(h, r, in, q)
        /\ st = MacCtx(r, pad, h, SubSeq(in, q * BlockSize + 1, Len(in)))

\* whole blocks from where they are, and the rest is kept
Kept(st, rest) ==
    LET used == (Len(rest) \div BlockSize) * BlockSize IN
    [Blocks(st, SubSeq(rest, 1, used)) EXCEPT !.buffer = @ \o SubSeq(rest, used + 1, Len(rest))]

LEMMA CtxBuffer ==
    ASSUME NEW r, NEW pad, NEW h, NEW b
    PROVE  /\ MacCtx(r, pad, h, b).buffer = b
           /\ \A c : [MacCtx(r, pad, h, b) EXCEPT !.buffer = c] = MacCtx(r, pad, h, c)
BY DEF MacCtx

LEMMA RestAbsorbed ==
    ASSUME NEW r \in Factors, NEW pad, NEW h, NEW in \in Seq(Octet), NEW q \in Nat,
           q * BlockSize <= Len(in), Absorbed(h, r, in, q)
    PROVE  IsMacked(Kept(MacCtx(r, pad, h, <<>>), SubSeq(in, q * BlockSize + 1, Len(in))), r, pad, in)
<1>. DEFINE B == BlockSize
            x == q * B
            l == Len(in)
            rest == SubSeq(in, x + 1, l)
            d == Len(rest)
            k == d \div B
            used == k * B
            y == (q + k) * B
            st == MacCtx(r, pad, h, <<>>)
            tail == SubSeq(in, y + 1, l)
<1>0. B \in Nat \ {0} /\ x \in Nat /\ l \in Nat /\ x <= l
  <2>1. B \in Nat \ {0} /\ l \in Nat /\ x <= l
    BY MacSizes
  <2>2. q * B \in Nat
    BY <2>1
  <2>. QED BY <2>1, <2>2
<1>1. rest \in Seq(Octet) /\ d = l - x /\ d \in Nat
  <2>1. IsPiece(rest, Octet, in, x, l)
    <3>. HIDE DEF x
    <3>. QED BY <1>0, PieceIs
  <2>. HIDE DEF rest, x
  <2>. QED BY <1>0, <2>1 DEF IsPiece
<1>2. k \in Nat /\ used <= d /\ d < used + B
  <2>. HIDE DEF d
  <2>. QED BY <1>1, BlocksIn
<1>. HIDE DEF k, d
<1>3. used \in Nat /\ y = x + used /\ y \in Nat /\ y <= l /\ l < y + B /\ x + used <= l /\ x + d = l
  <2>1. (q + k) * B = x + used /\ used \in Nat
    <3>. HIDE DEF B
    <3>1. (q + k) * B = q * B + k * B /\ k * B \in Nat
      BY <1>0, <1>2
    <3>. QED BY <3>1
  <2>. HIDE DEF used, x, l, B
  <2>. QED BY <1>0, <1>1, <1>2, <2>1
<1>4. SubSeq(rest, 1, used) = SubSeq(in, x + 1, y)
  <2>. HIDE DEF used, x, l, y
  <2>1. 0 <= used /\ 0 \in Nat /\ x + 0 = x /\ 0 + 1 = 1
    BY <1>0, <1>3
  <2>2. SubSeq(rest, 0 + 1, used) = SubSeq(in, (x + 0) + 1, x + used)
    BY <1>0, <1>3, <2>1, PieceOfPiece
  <2>. HIDE DEF rest
  <2>. QED BY <1>3, <2>1, <2>2
<1>5. SubSeq(rest, used + 1, d) = tail
  <2>. HIDE DEF used, x, l, y
  <2>1. used <= d
    BY <1>2
  <2>2. SubSeq(rest, used + 1, d) = SubSeq(in, (x + used) + 1, x + d)
    BY <1>0, <1>1, <1>3, <2>1, PieceOfPiece
  <2>. QED BY <1>3, <2>2
<1>6. PICK g \in Numerals : /\ Blocks(st, SubSeq(in, x + 1, y)) = MacCtx(r, pad, g, <<>>)
                            /\ Absorbed(g, r, in, q + k)
  <2>1. (q + k) * BlockSize <= Len(in)
    BY <1>3
  <2>2. HasAbsorbed(Blocks(st, SubSeq(in, x + 1, y)), r, pad, <<>>, in, q + k)
    BY <1>2, <2>1, BlocksAbsorbed
  <2>. QED BY <2>2 DEF HasAbsorbed
<1>7. Kept(st, rest) = [Blocks(st, SubSeq(rest, 1, used)) EXCEPT !.buffer = @ \o SubSeq(rest, used + 1, d)]
  BY DEF Kept, k, d
<1>8. tail \in Seq(Octet)
  <2>1. IsPiece(tail, Octet, in, y, l)
    <3>1. in \in Seq(Octet) /\ y \in Nat /\ l \in Nat /\ y <= l /\ l <= Len(in)
      BY <1>0, <1>3
    <3>. HIDE DEF y, l
    <3>. QED BY <3>1, PieceIs
  <2>. QED BY <2>1 DEF IsPiece
<1>. HIDE DEF rest, used, x, y, l, st, tail
<1>9. Kept(st, rest) = MacCtx(r, pad, g, <<>> \o tail)
  <2>. DEFINE m == MacCtx(r, pad, g, <<>>)
  <2>1. Kept(st, rest) = [m EXCEPT !.buffer = m.buffer \o tail]
    BY <1>4, <1>5, <1>6, <1>7
  <2>2. m.buffer = <<>> /\ \A c : [m EXCEPT !.buffer = c] = MacCtx(r, pad, g, c)
    BY CtxBuffer
  <2>. HIDE DEF m
  <2>. QED BY <2>1, <2>2
<1>10. <<>> \o tail = tail
  BY <1>8
<1>11. Kept(st, rest) = MacCtx(r, pad, g, tail)
  BY <1>9, <1>10
<1>12. IsMacked(Kept(st, rest), r, pad, in)
  <2>. DEFINE p == q + k
  <2>1. p \in Nat
    BY <1>2
  <2>. HIDE DEF p
  <2>2. Absorbed(g, r, in, p) /\ p * BlockSize <= Len(in) /\ Len(in) < p * BlockSize + BlockSize
        /\ Kept(st, rest) = MacCtx(r, pad, g, SubSeq(in, p * BlockSize + 1, Len(in)))
    BY <1>3, <1>6, <1>11 DEF p, y, l, B, tail
  <2>. QED BY <2>1, <2>2 DEF IsMacked
<1>. QED BY <1>12 DEF st, rest, x, l, B

\* PolyUpdate, for such a context
Updated(r, pad, h, b, w) ==
    LET want == IF BlockSize - Len(b) < Len(w) THEN BlockSize - Len(b) ELSE Len(w)
        head == IF b = <<>> THEN 0 ELSE want
        full == b # <<>> /\ Len(b) + head = BlockSize
        b1   == b \o SubSeq(w, 1, head)
        st1  == MacCtx(r, pad, h, b1)
        st2  == IF full THEN [Block(st1, b1, FALSE) EXCEPT !.buffer = <<>>] ELSE st1
    IN  IF b # <<>> /\ ~full THEN st1 ELSE Kept(st2, SubSeq(w, head + 1, Len(w)))

LEMMA UpdateIs ==
    ASSUME NEW r, NEW pad, NEW h, NEW b, NEW w
    PROVE  PolyUpdate(MacCtx(r, pad, h, b), w) = Updated(r, pad, h, b, w)
<1>. DEFINE st == MacCtx(r, pad, h, b)
<1>1. st.buffer = b /\ \A c : [st EXCEPT !.buffer = c] = MacCtx(r, pad, h, c)
  BY CtxBuffer
<1>2. \A c : MacCtx(r, pad, h, c).buffer = c
  BY CtxBuffer
<1>. HIDE DEF st
<1>. DEFINE want == IF BlockSize - Len(b) < Len(w) THEN BlockSize - Len(b) ELSE Len(w)
            head == IF b = <<>> THEN 0 ELSE want
            full == b # <<>> /\ Len(b) + head = BlockSize
            st1 == [st EXCEPT !.buffer = @ \o SubSeq(w, 1, head)]
            st2 == IF full THEN [Block(st1, st1.buffer, FALSE) EXCEPT !.buffer = <<>>] ELSE st1
            rest == SubSeq(w, head + 1, Len(w))
<1>3. PolyUpdate(st, w) = IF b # <<>> /\ ~full THEN st1 ELSE Kept(st2, rest)
  BY <1>1 DEF PolyUpdate, Kept
<1>. HIDE DEF head, full
<1>4. st1 = MacCtx(r, pad, h, b \o SubSeq(w, 1, head)) /\ st1.buffer = b \o SubSeq(w, 1, head)
  BY <1>1, <1>2
<1>. HIDE DEF st1
<1>5. PolyUpdate(st, w) = IF b # <<>> /\ ~full THEN st1 ELSE Kept(st2, rest)
  BY <1>3
<1>. QED BY <1>4, <1>5 DEF st, head, full, Updated

\* An update goes behind what came in before.
LEMMA UpdateMacked ==
    ASSUME NEW st, NEW r \in Factors, NEW pad, NEW in \in Seq(Octet), NEW w \in Seq(Octet),
           IsMacked(st, r, pad, in)
    PROVE  IsMacked(PolyUpdate(st, w), r, pad, in \o w)
<1>. DEFINE B == BlockSize
            all == in \o w
            l == Len(in)
            c == Len(w)
<1>1. PICK q \in Nat, h \in Numerals :
         /\ q * B <= l /\ l < q * B + B /\ Absorbed(h, r, in, q)
         /\ st = MacCtx(r, pad, h, SubSeq(in, q * B + 1, l))
  BY DEF IsMacked
<1>. DEFINE x == q * B
            b == SubSeq(in, x + 1, l)
            want == IF B - Len(b) < c THEN B - Len(b) ELSE c
            head == IF b = <<>> THEN 0 ELSE want
            full == b # <<>> /\ Len(b) + head = B
            b1 == b \o SubSeq(w, 1, head)
            st1 == MacCtx(r, pad, h, b1)
            st2 == IF full THEN [Block(st1, b1, FALSE) EXCEPT !.buffer = <<>>] ELSE st1
            rest == SubSeq(w, head + 1, c)
<1>2. PolyUpdate(st, w) = IF b # <<>> /\ ~full THEN st1 ELSE Kept(st2, rest)
  <2>. HIDE DEF b
  <2>1. PolyUpdate(st, w) = Updated(r, pad, h, b, w)
    BY <1>1, UpdateIs DEF b
  <2>. QED BY <2>1 DEF Updated
<1>3. /\ B \in Nat \ {0} /\ x \in Nat /\ l \in Nat /\ c \in Nat /\ x <= l /\ l < x + B
      /\ (q + 1) * B = x + B /\ q + 1 \in Nat
  <2>1. B \in Nat \ {0} /\ l \in Nat /\ c \in Nat
    BY MacSizes
  <2>2. q * B \in Nat /\ (q + 1) * B = q * B + B
    BY <2>1
  <2>. QED BY <1>1, <2>1, <2>2
<1>4. all \in Seq(Octet) /\ Len(all) = l + c
  <2>1. all \in Seq(Octet) /\ IsJoin(all, in, w)
    BY Joined
  <2>. QED BY <2>1 DEF IsJoin
<1>5. Absorbed(h, r, all, q)
  BY <1>1, AbsorbedStays
<1>6. b \in Seq(Octet) /\ Len(b) = l - x
  <2>1. IsPiece(b, Octet, in, x, l)
    <3>. HIDE DEF x
    <3>. QED BY <1>3, PieceIs
  <2>. QED BY <2>1 DEF IsPiece
<1>. HIDE DEF x
<1>7. ASSUME NEW n \in 0 .. c
      PROVE  /\ b \o SubSeq(w, 1, n) = SubSeq(all, x + 1, l + n)
             /\ SubSeq(w, n + 1, c) = SubSeq(all, (l + n) + 1, Len(all))
  <2>1. x \in Nat /\ x <= Len(in)
    BY <1>3
  <2>. QED BY <2>1, PiecesJoin
<1>8. head \in 0 .. c
  <2>. HIDE DEF b, B
  <2>1. B - Len(b) \in Nat
    BY <1>3, <1>6
  <2>. QED BY <1>3, <2>1
<1>. HIDE DEF b, l, c, all
<1>9. b1 = SubSeq(all, x + 1, l + head) /\ rest = SubSeq(all, (l + head) + 1, Len(all))
  BY <1>7, <1>8
<1>10. CASE b = <<>>
  <2>1. head = 0 /\ ~full /\ l = x
    <3>1. Len(b) = 0
      BY <1>10
    <3>2. head = 0 /\ ~full
      BY <1>10
    <3>. HIDE DEF head, full
    <3>. QED BY <1>3, <1>6, <3>1, <3>2
  <2>. HIDE DEF head, full, b1, rest
  <2>2. x + 0 = x /\ l + 0 = x
    BY <1>3, <2>1
  <2>3. b1 = <<>>
    <3>1. x + 1 > x /\ x \in Nat
      BY <1>3
    <3>2. SubSeq(all, x + 1, x) = <<>>
      BY <1>4, <3>1
    <3>. QED BY <1>9, <2>1, <2>2, <3>2
  <2>4. rest = SubSeq(all, x + 1, Len(all))
    BY <1>9, <2>1, <2>2
  <2>5. PolyUpdate(st, w) = Kept(MacCtx(r, pad, h, <<>>), SubSeq(all, x + 1, Len(all)))
    BY <1>2, <1>10, <2>1, <2>3, <2>4
  <2>6. x <= Len(all)
    BY <1>3, <1>4
  <2>. QED BY <1>4, <1>5, <2>5, <2>6, RestAbsorbed DEF x, all
<1>11. CASE b # <<>> /\ ~full
  <2>. DEFINE n == head
  <2>1. n = c /\ l + c < x + B
    <3>1. Len(b) + head # B /\ head = want
      BY <1>11
    <3>. HIDE DEF b1, rest, st1, full
    <3>2. head = c /\ Len(b) + c < B
      <4>. DEFINE m == Len(b)
                  e == B - m
      <4>1. m \in Nat /\ m < B /\ e \in Nat /\ want = (IF e < c THEN e ELSE c)
        BY <1>3, <1>6
      <4>. HIDE DEF m, e, head
      <4>2. m + e = B
        BY <1>3, <4>1 DEF e
      <4>3. ~(e < c)
        BY <3>1, <4>1, <4>2 DEF m
      <4>4. head = c /\ m + c # B
        BY <3>1, <4>1, <4>3 DEF m
      <4>. HIDE DEF want
      <4>. QED BY <1>3, <4>1, <4>2, <4>3, <4>4 DEF m
    <3>. HIDE DEF head
    <3>. QED BY <1>3, <1>6, <3>2
  <2>. HIDE DEF head, full, rest
  <2>2. PolyUpdate(st, w) = MacCtx(r, pad, h, b1)
    BY <1>2, <1>11
  <2>3. b1 = SubSeq(all, x + 1, Len(all))
    BY <1>4, <1>9, <2>1
  <2>4. q * BlockSize <= Len(all) /\ Len(all) < q * BlockSize + BlockSize
    BY <1>3, <1>4, <2>1 DEF x
  <2>5. PolyUpdate(st, w) = MacCtx(r, pad, h, SubSeq(all, q * BlockSize + 1, Len(all)))
    BY <2>2, <2>3 DEF x
  <2>6. IsMacked(PolyUpdate(st, w), r, pad, all)
    BY <1>5, <2>4, <2>5 DEF IsMacked
  <2>. QED BY <2>6 DEF all
<1>12. CASE b # <<>> /\ full
  <2>1. l + head = x + B /\ x + B <= l + c
    <3>1. Len(b) + head = B
      BY <1>12
    <3>. HIDE DEF head
    <3>. QED BY <1>3, <1>6, <1>8, <3>1
  <2>. HIDE DEF head, full, b1, rest
  <2>2. st2 = [Block(st1, b1, FALSE) EXCEPT !.buffer = <<>>] /\ PolyUpdate(st, w) = Kept(st2, rest)
    BY <1>2, <1>12
  <2>. DEFINE p == q + 1
              y == p * B
  <2>3. b1 = SubSeq(all, q * B + 1, y) /\ rest = SubSeq(all, y + 1, Len(all)) /\ y <= Len(all)
    BY <1>3, <1>4, <1>9, <2>1 DEF x
  <2>4. HasAbsorbed(Block(st1, b1, FALSE), r, pad, b1, all, p)
    BY <1>4, <1>5, <2>3, BlockAbsorbed
  <2>5. PICK g \in Numerals : Block(st1, b1, FALSE) = MacCtx(r, pad, g, b1) /\ Absorbed(g, r, all, p)
    BY <2>4 DEF HasAbsorbed
  <2>6. st2 = MacCtx(r, pad, g, <<>>)
    <3>. DEFINE m == MacCtx(r, pad, g, b1)
    <3>1. st2 = [m EXCEPT !.buffer = <<>>]
      BY <2>2, <2>5
    <3>. HIDE DEF st2
    <3>. QED BY <3>1, CtxBuffer
  <2>7. PolyUpdate(st, w) = Kept(MacCtx(r, pad, g, <<>>), SubSeq(all, p * BlockSize + 1, Len(all)))
    BY <2>2, <2>3, <2>6
  <2>8. p \in Nat /\ p * BlockSize <= Len(all)
    BY <1>3, <2>3
  <2>. HIDE DEF p, st2
  <2>9. IsMacked(PolyUpdate(st, w), r, pad, all)
    BY <1>4, <2>5, <2>7, <2>8, RestAbsorbed
  <2>. QED BY <2>9 DEF all
<1>. QED BY <1>10, <1>11, <1>12

\* Nothing has come in yet.
LEMMA StartMacked ==
    ASSUME NEW r, NEW pad
    PROVE  IsMacked(PolyInit(r, pad), r, pad, <<>>)
<1>. DEFINE h == ToLimbs(0)
            v == [k \in {0} |-> 0]
            in == <<>>
            none == SubSeq(in, 0 + 1, 0)
<1>0. 0 \in Nat /\ 0 * BlockSize = 0 /\ BlockSize \in Nat /\ BlockSize > 0 /\ 0 + 1 = 1 /\ 1 > 0 /\ Len(in) = 0
  BY MacSizes
<1>1. h \in Numerals /\ MacWorth(h) = 0 /\ \A i \in 1 .. MacLimbs : h[i] \in 0 .. MacRadix - 1
  <2>1. 0 < MacScale.at[MacLimbs]
    BY MacSizes
  <2>. QED BY <2>1, ToLimbsAre
<1>2. IsLoose(h)
  <2>. HIDE DEF h
  <2>1. 2 \in 1 .. MacLimbs
    BY MacSizes
  <2>2. h[2] \in 0 .. MacRadix - 1
    BY <1>1, <2>1
  <2>3. h[2] \in 0 .. MacRadix - 1 + 20 * MacLimbs
    BY <2>2, MacSizes
  <2>. QED BY <1>1, <2>3 DEF IsLoose
<1>3. v[0] = 0
  OBVIOUS
<1>. HIDE DEF v, h
<1>4. IsHorner(v, r, in, 0) /\ IsLike(MacWorth(h), v[0])
  <2>1. IsLike(0, 0)
    BY LikeItself
  <2>2. \A k \in 1 .. 0 : FALSE
    OBVIOUS
  <2>. QED BY <1>1, <1>3, <2>1, <2>2 DEF IsHorner
<1>5. Absorbed(h, r, in, 0)
  BY <1>2, <1>4 DEF Absorbed
<1>6. none = <<>>
  BY <1>0
<1>7. PolyInit(r, pad) = MacCtx(r, pad, h, none)
  BY <1>6 DEF PolyInit, MacCtx, h
<1>. HIDE DEF in
<1>8. \E q \in Nat : q * BlockSize = 0 /\ q = 0
  BY <1>0
<1>9. IsMacked(PolyInit(r, pad), r, pad, in)
  <2>1. PICK q \in Nat : q * BlockSize = 0 /\ q = 0
    BY <1>8
  <2>2. /\ q * BlockSize <= Len(in) /\ Len(in) < q * BlockSize + BlockSize
        /\ Absorbed(h, r, in, q)
        /\ PolyInit(r, pad) = MacCtx(r, pad, h, SubSeq(in, q * BlockSize + 1, Len(in)))
    BY <1>0, <1>5, <1>7, <2>1
  <2>. QED BY <1>1, <2>2 DEF IsMacked
<1>. QED BY <1>9 DEF in

\* the blocks of an input, the last one counted whether whole or not
LEMMA BlockCount ==
    ASSUME NEW d \in Nat, NEW q \in Nat, q * BlockSize <= d, d < q * BlockSize + BlockSize
    PROVE  (d + BlockSize - 1) \div BlockSize = IF d = q * BlockSize THEN q ELSE q + 1
<1>. DEFINE B == BlockSize
            x == q * B
            e == d + B - 1
            n == e \div B
            y == n * B
<1>0. B \in Nat \ {0} /\ x \in Nat /\ e \in Nat /\ x <= d /\ d < x + B
  BY MacSizes
<1>1. n \in Nat /\ y <= e /\ e < y + B
  <2>. HIDE DEF e
  <2>. QED BY <1>0, BlocksIn
<1>. HIDE DEF n, B
<1>2. ASSUME NEW m \in Nat, m * B <= e, e < m * B + B PROVE n = m
  <2>. HIDE DEF e
  <2>1. CASE n < m
    <3>1. PICK f \in Nat : m = n + 1 + f
      <4>1. m - n - 1 \in Nat /\ m = n + 1 + (m - n - 1)
        BY <1>1, <2>1
      <4>. QED BY <4>1
    <3>2. (n + 1 + f) * B = n * B + B + f * B /\ f * B >= 0 /\ f * B \in Nat
      BY <1>0, <1>1
    <3>. DEFINE z == m * B
                fb == f * B
    <3>3. z = y + B + fb /\ fb \in Nat
      BY <3>1, <3>2
    <3>4. z <= e /\ e < y + B /\ y \in Nat
      BY <1>0, <1>1, <1>2
    <3>. HIDE DEF z, y, fb
    <3>. QED BY <1>0, <3>3, <3>4
  <2>2. CASE m < n
    <3>1. PICK f \in Nat : n = m + 1 + f
      <4>1. n - m - 1 \in Nat /\ n = m + 1 + (n - m - 1)
        BY <1>1, <2>2
      <4>. QED BY <4>1
    <3>2. (m + 1 + f) * B = m * B + B + f * B /\ f * B >= 0 /\ f * B \in Nat
      BY <1>0, <1>1
    <3>. DEFINE z == m * B
                fb == f * B
    <3>3. y = z + B + fb /\ fb \in Nat
      BY <3>1, <3>2
    <3>4. y <= e /\ e < z + B /\ z \in Nat
      BY <1>0, <1>1, <1>2
    <3>. HIDE DEF z, y, fb
    <3>. QED BY <1>0, <3>3, <3>4
  <2>. QED BY <1>1, <2>1, <2>2
<1>3. (q + 1) * B = x + B
  BY <1>0
<1>4. CASE d = x
  <2>1. x <= e /\ e < x + B
    <3>. HIDE DEF x
    <3>. QED BY <1>0, <1>4
  <2>2. n = q
    BY <1>2, <2>1
  <2>. QED BY <1>4, <2>2 DEF n, B
<1>5. CASE d # x
  <2>. DEFINE m == q + 1
  <2>1. m * B = x + B /\ m \in Nat
    BY <1>3
  <2>. HIDE DEF m
  <2>2. m * B <= e /\ e < m * B + B
    <3>. HIDE DEF x
    <3>. QED BY <1>0, <1>5, <2>1
  <2>3. n = m
    BY <1>2, <2>1, <2>2
  <2>. QED BY <1>5, <2>3 DEF n, B, m
<1>. QED BY <1>4, <1>5

\* what a block of an input adds, the last of them with what is left
BlockCounts(in, blocks, n) ==
    LET last == IF n = blocks THEN Len(in) ELSE n * BlockSize IN
    LittleEndian(Append(SubSeq(in, (n - 1) * BlockSize + 1, last), 1))
IsEvaluated(value, r, in, blocks) ==
    value = [n \in 0 .. blocks |->
               IF n = 0 THEN 0 ELSE ((value[n - 1] + BlockCounts(in, blocks, n)) * r) % MacPrime]

LEMMA EvaluatedIs ==
    ASSUME NEW r, NEW in, NEW blocks \in Nat, blocks = (Len(in) + BlockSize - 1) \div BlockSize,
           NEW g, IsEvaluated(g, r, in, blocks)
    PROVE  Polynomial(r, in) = g[blocks]
<1>. DEFINE value[n \in 0 .. blocks] ==
               IF n = 0 THEN 0
               ELSE LET last == IF n = blocks THEN Len(in) ELSE n * BlockSize
                        coefficient == LittleEndian(Append(SubSeq(in, (n - 1) * BlockSize + 1, last), 1))
                    IN  ((value[n - 1] + coefficient) * r) % MacPrime
<1>1. Polynomial(r, in) = value[blocks]
  BY DEF Polynomial
<1>2. value = CHOOSE f : IsEvaluated(f, r, in, blocks)
  BY Zenon DEF IsEvaluated, BlockCounts
<1>. HIDE DEF value
<1>3. IsEvaluated(value, r, in, blocks)
  BY <1>2
<1>. DEFINE D == {n \in Nat : n <= blocks => value[n] = g[n]}
<1>4. 0 \in D
  <2>1. 0 \in 0 .. blocks
    OBVIOUS
  <2>2. value[0] = 0 /\ g[0] = 0
    BY <1>3, <2>1 DEF IsEvaluated
  <2>. QED BY <2>2
<1>5. ASSUME NEW n \in Nat, n \in D PROVE n + 1 \in D
  <2>. SUFFICES ASSUME n + 1 <= blocks PROVE value[n + 1] = g[n + 1]
    OBVIOUS
  <2>. DEFINE k == n + 1
  <2>1. k \in 0 .. blocks /\ k # 0 /\ k - 1 = n /\ value[n] = g[n]
    BY <1>5
  <2>. HIDE DEF k
  <2>2. value[k] = ((value[k - 1] + BlockCounts(in, blocks, k)) * r) % MacPrime
    BY <1>3, <2>1 DEF IsEvaluated
  <2>3. g[k] = ((g[k - 1] + BlockCounts(in, blocks, k)) * r) % MacPrime
    BY <2>1 DEF IsEvaluated
  <2>4. value[k] = g[k]
    BY <2>1, <2>2, <2>3
  <2>. QED BY <2>4 DEF k
<1>. HIDE DEF D
<1>6. Nat \subseteq D
  BY <1>4, <1>5, Induction
<1>7. value[blocks] = g[blocks]
  BY <1>6 DEF D
<1>. QED BY <1>1, <1>7

\* The blocks that were taken in, then what is left.
LEMMA PolynomialIs ==
    ASSUME NEW r, NEW in \in Seq(Octet), NEW q \in Nat, q * BlockSize <= Len(in),
           Len(in) < q * BlockSize + BlockSize,
           NEW v, IsHorner(v, r, in, q)
    PROVE  Polynomial(r, in) =
              IF Len(in) = q * BlockSize THEN v[q]
              ELSE ((v[q] + LittleEndian(Append(SubSeq(in, q * BlockSize + 1, Len(in)), 1))) * r) % MacPrime
<1>. DEFINE d == Len(in)
            x == q * BlockSize
            blocks == IF d = x THEN q ELSE q + 1
            z == ((v[q] + LittleEndian(Append(SubSeq(in, x + 1, d), 1))) * r) % MacPrime
            g == [n \in 0 .. blocks |-> IF n <= q THEN v[n] ELSE z]
<1>1. d \in Nat /\ blocks \in Nat /\ blocks = (d + BlockSize - 1) \div BlockSize
  <2>1. d \in Nat
    OBVIOUS
  <2>. HIDE DEF d
  <2>. QED BY <2>1, BlockCount DEF d
<1>2. \A n \in 0 .. blocks : g[n] = IF n <= q THEN v[n] ELSE z
  OBVIOUS
<1>3. DOMAIN g = 0 .. blocks /\ g = [n \in 0 .. blocks |-> g[n]]
  OBVIOUS
<1>. HIDE DEF g, z
<1>4. g[0] = 0
  BY <1>1, <1>2 DEF IsHorner
<1>5. ASSUME NEW n \in 0 .. blocks, n # 0
      PROVE  g[n] = ((g[n - 1] + BlockCounts(in, blocks, n)) * r) % MacPrime
  <2>1. CASE n <= q
    <3>1. n \in 1 .. q /\ n - 1 \in 0 .. blocks /\ n - 1 <= q
      BY <1>5, <2>1
    <3>2. g[n] = v[n] /\ g[n - 1] = v[n - 1]
      BY <1>2, <2>1, <3>1
    <3>3. BlockCounts(in, blocks, n) = Coefficient(in, n)
      <4>1. (IF n = blocks THEN d ELSE n * BlockSize) = n * BlockSize
        BY <2>1
      <4>. QED BY <4>1 DEF BlockCounts, Coefficient
    <3>4. v[n] = ((v[n - 1] + Coefficient(in, n)) * r) % MacPrime
      BY <3>1 DEF IsHorner
    <3>. QED BY <3>2, <3>3, <3>4
  <2>2. CASE ~(n <= q)
    <3>1. n = q + 1 /\ n = blocks /\ n - 1 = q /\ q \in 0 .. blocks /\ q <= q
      BY <2>2
    <3>2. g[n] = z /\ g[q] = v[q]
      <4>. HIDE DEF blocks
      <4>. QED BY <1>2, <2>2, <3>1
    <3>3. BlockCounts(in, blocks, n) = LittleEndian(Append(SubSeq(in, x + 1, d), 1))
      <4>. HIDE DEF blocks
      <4>. QED BY <3>1 DEF BlockCounts
    <3>. HIDE DEF blocks
    <3>. QED BY <3>1, <3>2, <3>3 DEF z
  <2>. QED BY <2>1, <2>2
<1>6. IsEvaluated(g, r, in, blocks)
  <2>. HIDE DEF blocks
  <2>. QED BY <1>3, <1>4, <1>5 DEF IsEvaluated
<1>7. Polynomial(r, in) = g[blocks]
  <2>. HIDE DEF blocks
  <2>. QED BY <1>1, <1>6, EvaluatedIs
<1>8. CASE d = x
  <2>1. blocks = q /\ q \in 0 .. blocks /\ q <= q
    BY <1>8
  <2>. QED BY <1>2, <1>7, <1>8, <2>1
<1>9. CASE d # x
  <2>1. blocks = q + 1 /\ q + 1 \in 0 .. blocks /\ ~(q + 1 <= q)
    BY <1>9
  <2>2. g[blocks] = z
    <3>. HIDE DEF blocks
    <3>. QED BY <1>2, <2>1
  <2>. QED BY <1>7, <1>9, <2>2 DEF z
<1>. QED BY <1>8, <1>9

LEMMA HornerBelow ==
    ASSUME NEW r \in Factors, NEW in \in Seq(Octet), NEW q \in Nat, q * BlockSize <= Len(in),
           NEW v, IsHorner(v, r, in, q)
    PROVE  v[q] \in 0 .. MacPrime - 1
<1>. DEFINE p == MacPrime
            D == {n \in Nat : n <= q => v[n] \in 0 .. p - 1}
<1>0. p \in Nat \ {0} /\ r \in Nat
  BY MacSizes DEF Factors
<1>1. 0 \in D
  <2>1. v[0] = 0
    BY DEF IsHorner
  <2>. HIDE DEF p
  <2>. QED BY <1>0, <2>1
<1>2. ASSUME NEW n \in Nat, n \in D PROVE n + 1 \in D
  <2>. SUFFICES ASSUME n + 1 <= q PROVE v[n + 1] \in 0 .. p - 1
    OBVIOUS
  <2>. DEFINE k == n + 1
              c == Coefficient(in, k)
              w == v[n]
              a == n * BlockSize
              b == k * BlockSize
              bytes == SubSeq(in, a + 1, b)
  <2>1. k \in 1 .. q /\ k - 1 = n /\ w \in 0 .. p - 1
    BY <1>2
  <2>2. c \in Nat
    <3>1. a \in Nat /\ b \in Nat /\ b = a + BlockSize /\ b <= q * BlockSize /\ BlockSize \in Nat
      <4>1. a \in Nat /\ b = a + BlockSize /\ BlockSize \in Nat
        BY BlockPlace, MacSizes
      <4>2. PICK f \in Nat : q = k + f
        <5>1. q - k \in Nat /\ q = k + (q - k)
          BY <2>1
        <5>. QED BY <5>1
      <4>. DEFINE B == BlockSize
      <4>3. q * B = k * B + f * B /\ f * B >= 0
        <5>1. B \in Nat /\ k \in Nat
          BY <4>1, <2>1
        <5>. HIDE DEF k, B
        <5>2. (k + f) * B = k * B + f * B /\ f * B >= 0
          BY <5>1
        <5>. QED BY <4>2, <5>2
      <4>. DEFINE fb == f * B
                  qb == q * B
      <4>4. qb = b + fb /\ fb >= 0 /\ fb \in Int
        BY <4>1, <4>3
      <4>. HIDE DEF fb, qb, a, b
      <4>5. b \in Nat /\ b <= qb
        BY <4>1, <4>4
      <4>. QED BY <4>1, <4>5 DEF qb
    <3>2. a <= b /\ b <= Len(in) /\ b - a = BlockSize
      <4>. DEFINE qb == q * BlockSize
      <4>1. qb <= Len(in) /\ b <= qb /\ qb \in Int
        BY <3>1
      <4>. HIDE DEF a, b, qb
      <4>. QED BY <3>1, <4>1
    <3>3. c = LittleEndian(Append(bytes, 1))
      BY <2>1 DEF Coefficient
    <3>. HIDE DEF a, b
    <3>4. bytes \in Seq(Octet) /\ Len(bytes) = BlockSize
      BY <3>1, <3>2, PieceIs DEF IsPiece
    <3>. HIDE DEF bytes, c
    <3>5. Len(bytes) <= BlockSize
      BY <3>1, <3>4
    <3>. QED BY <3>3, <3>4, <3>5, BlockWorth
  <2>3. v[k] = ((v[k - 1] + c) * r) % p
    <3>. HIDE DEF k
    <3>. QED BY <2>1 DEF IsHorner
  <2>. DEFINE y == (w + c) * r
  <2>4. y \in Int
    <3>. HIDE DEF c, w, p
    <3>. QED BY <1>0, <2>1, <2>2
  <2>5. v[k] = y % p
    BY <2>1, <2>3
  <2>. HIDE DEF y
  <2>6. y % p \in 0 .. p - 1
    <3>1. IsLike(y, y)
      BY <2>4, LikeItself
    <3>. QED BY <3>1, LikeResidue
  <2>. QED BY <2>5, <2>6
<1>. HIDE DEF D
<1>3. Nat \subseteq D
  BY <1>1, <1>2, Induction
<1>. QED BY <1>3 DEF D

\* the accumulator before its last carry, and what is left to it of the input
LEMMA LastMacked ==
    ASSUME NEW st, NEW r \in Factors, NEW pad, NEW in \in Seq(Octet), IsMacked(st, r, pad, in)
    PROVE  LET last == IF st.buffer = <<>> THEN st ELSE Block(st, Padded(st.buffer), TRUE) IN
           /\ IsLoose(last.h) /\ IsLike(MacWorth(last.h), Polynomial(r, in))
           /\ Polynomial(r, in) \in 0 .. MacPrime - 1
<1>. DEFINE last == IF st.buffer = <<>> THEN st ELSE Block(st, Padded(st.buffer), TRUE)
            B == BlockSize
            d == Len(in)
<1>1. PICK q \in Nat, h \in Numerals :
         /\ q * B <= d /\ d < q * B + B /\ Absorbed(h, r, in, q)
         /\ st = MacCtx(r, pad, h, SubSeq(in, q * B + 1, d))
  BY DEF IsMacked
<1>. DEFINE x == q * B
            b == SubSeq(in, x + 1, d)
<1>2. B \in Nat \ {0} /\ x \in Nat /\ d \in Nat /\ x <= d /\ d < x + B
  <2>1. B \in Nat \ {0} /\ d \in Nat
    BY MacSizes
  <2>2. x \in Nat
    BY <1>1, BlockPlace
  <2>. QED BY <1>1, <2>1, <2>2
<1>3. PICK v : IsHorner(v, r, in, q) /\ IsLike(MacWorth(h), v[q])
  BY <1>1 DEF Absorbed
<1>4. IsLoose(h)
  BY <1>1 DEF Absorbed
<1>5. v[q] \in 0 .. MacPrime - 1
  BY <1>1, <1>3, HornerBelow
<1>6. b \in Seq(Octet) /\ Len(b) = d - x
  <2>1. IsPiece(b, Octet, in, x, d)
    <3>. HIDE DEF x
    <3>. QED BY <1>2, PieceIs
  <2>. QED BY <2>1 DEF IsPiece
<1>. DEFINE n == LittleEndian(Append(b, 1))
            w == v[q]
<1>7. Polynomial(r, in) = IF d = x THEN w ELSE ((w + n) * r) % MacPrime
  BY <1>1, <1>3, PolynomialIs
<1>8. st.buffer = b /\ st.h = h
  BY <1>1 DEF MacCtx
<1>. HIDE DEF b, x, n, w
<1>9. CASE b = <<>>
  <2>1. d = x
    <3>1. Len(b) = 0
      BY <1>9
    <3>. QED BY <1>2, <1>6, <3>1
  <2>2. last.h = h
    BY <1>8, <1>9
  <2>. HIDE DEF last
  <2>. QED BY <1>3, <1>4, <1>5, <1>7, <2>1, <2>2 DEF last, w
<1>10. CASE b # <<>>
  <2>. DEFINE bytes == Padded(b)
              final == TRUE
              y == (w + n) * r
  <2>1. Len(b) # 0 /\ Len(b) < B /\ d # x /\ Len(b) <= BlockSize
    <3>1. Len(b) # 0
      BY <1>6, <1>10
    <3>. HIDE DEF d
    <3>. QED BY <1>2, <1>6, <3>1
  <2>2. LittleEndian(bytes) \in 0 .. BlockMod - 1 /\ n = LittleEndian(bytes)
    BY <1>6, <2>1, BlockWorth DEF n
  <2>3. n \in 0 .. 2 * BlockMod - 1 /\ n = LittleEndian(bytes) + Mark(final)
    BY <2>2, MacSizes DEF Mark
  <2>4. PICK g : IsTurned(Block(MacCtx(r, pad, h, b), bytes, final), r, pad, g, b, y % MacPrime)
    <3>1. IsTurn(h, w, bytes, final, n)
      BY <1>3, <1>4, <2>3 DEF IsTurn, w
    <3>. HIDE DEF bytes, final
    <3>. QED BY <3>1, BlockTurn
  <2>5. last = Block(MacCtx(r, pad, h, b), bytes, final)
    BY <1>1, <1>8, <1>10 DEF b, x
  <2>6. last.h = g
    <3>1. last = MacCtx(r, pad, g, b)
      BY <2>4, <2>5 DEF IsTurned
    <3>. HIDE DEF last
    <3>. QED BY <3>1 DEF MacCtx
  <2>7. y % MacPrime \in 0 .. MacPrime - 1
    <3>1. y \in Int
      <4>1. w \in Int /\ n \in Int /\ r \in Int
        <5>1. w \in Int
          BY <1>5, MacSizes DEF w
        <5>2. n \in Int
          <6>1. BlockMod \in Nat
            BY MacSizes
          <6>2. n \in 0 .. 2 * BlockMod - 1
            BY <2>3
          <6>. QED BY <6>1, <6>2
        <5>3. r \in Int
          BY MacSizes DEF Factors
        <5>. QED BY <5>1, <5>2, <5>3
      <4>2. w + n \in Int
        BY <4>1
      <4>. DEFINE s == w + n
      <4>. HIDE DEF s
      <4>3. s * r \in Int
        BY <4>1, <4>2 DEF s
      <4>. QED BY <4>3 DEF s
    <3>. HIDE DEF y
    <3>2. IsLike(y, y)
      BY <3>1, LikeItself
    <3>. QED BY <3>2, LikeResidue
  <2>. HIDE DEF last
  <2>8. Polynomial(r, in) = y % MacPrime
    BY <1>7, <2>1
  <2>9. IsLoose(last.h) /\ IsLike(MacWorth(last.h), y % MacPrime)
    BY <2>4, <2>6 DEF IsTurned
  <2>. QED BY <2>7, <2>8, <2>9 DEF last
<1>. QED BY <1>9, <1>10

\* Finished, the polynomial and the pad
LEMMA FinishMacked ==
    ASSUME NEW st, NEW r \in Factors, NEW pad, NEW in \in Seq(Octet), IsMacked(st, r, pad, in)
    PROVE  /\ PolyFinish(st) = ((Polynomial(r, in) % BlockMod) + pad) % BlockMod
           /\ \A i \in 1 .. MacLimbs : PolyLast(st)[i] < MacRadix
<1>. DEFINE last == IF st.buffer = <<>> THEN st ELSE Block(st, Padded(st.buffer), TRUE)
            z == PolyLast(st)
            e == Polynomial(r, in)
            f == FromLimbs(z)
            p == MacPrime
<1>1. IsLoose(last.h) /\ IsLike(MacWorth(last.h), e) /\ e \in 0 .. p - 1
  BY LastMacked
<1>2. z = Carried(last.h, 2)
  BY DEF PolyLast
<1>. HIDE DEF last, z, e
<1>3. AreMacLimbs(z) /\ MacWorth(z) \in 0 .. p + 4 /\ IsLike(MacWorth(z), MacWorth(last.h))
  BY <1>1, <1>2, CarriedLast
<1>4. IsLike(MacWorth(z), e)
  BY <1>1, <1>3, LikeAlso
<1>5. f = MacWorth(z)
  <2>1. Numbers(MacScale, z, MacLimbs)
    BY <1>3, LimbsAreNumbers DEF AreMacLimbs
  <2>2. DOMAIN z = 1 .. MacLimbs
    BY <1>3 DEF AreMacLimbs
  <2>. QED BY <2>1, <2>2, FromLimbsIs DEF MacWorth
<1>6. PolyFinish(st) = (((IF f - p < 0 THEN f ELSE f - p) % BlockMod) + st.pad) % BlockMod
  BY DEF PolyFinish, z
<1>. HIDE DEF f, p
<1>7. (IF f - p < 0 THEN f ELSE f - p) = e
  <2>1. PICK c \in Int : f = e + c * p
    BY <1>4, <1>5 DEF IsLike, p
  <2>2. f \in 0 .. p + 4 /\ e \in 0 .. p - 1 /\ p \in Nat /\ p > 1000
    BY <1>1, <1>3, <1>5, MacSizes DEF p
  <2>3. c \in {0, 1}
    <3>1. CASE c < 0
      <4>. DEFINE a == -c - 1
      <4>1. a \in Nat /\ c = -1 - a
        BY <3>1
      <4>. HIDE DEF a
      <4>2. (-1 - a) * p = -p - a * p /\ a * p >= 0 /\ a * p \in Int
        BY <2>2, <4>1
      <4>. DEFINE ap == a * p
                  cp == c * p
      <4>3. cp = -p - ap /\ ap >= 0 /\ ap \in Int /\ f = e + cp
        BY <2>1, <4>1, <4>2
      <4>. HIDE DEF ap, cp
      <4>. QED BY <2>2, <4>3
    <3>2. CASE c > 1
      <4>. DEFINE a == c - 2
      <4>1. a \in Nat /\ c = 2 + a
        BY <3>2
      <4>. HIDE DEF a
      <4>2. (2 + a) * p = 2 * p + a * p /\ a * p >= 0 /\ a * p \in Int
        BY <2>2, <4>1
      <4>. DEFINE ap == a * p
                  cp == c * p
      <4>3. cp = 2 * p + ap /\ ap >= 0 /\ ap \in Int /\ f = e + cp
        BY <2>1, <4>1, <4>2
      <4>. HIDE DEF ap, cp
      <4>. QED BY <2>2, <4>3
    <3>. QED BY <3>1, <3>2
  <2>4. CASE c = 0
    <3>1. f = e
      BY <2>1, <2>2, <2>4
    <3>. QED BY <2>2, <3>1
  <2>5. CASE c = 1
    <3>1. f = e + p
      BY <2>1, <2>2, <2>5
    <3>. QED BY <2>2, <3>1
  <2>. QED BY <2>3, <2>4, <2>5
<1>8. st.pad = pad
  BY DEF IsMacked, MacCtx
<1>9. \A i \in 1 .. MacLimbs : z[i] < MacRadix
  <2>1. \A i \in 1 .. MacLimbs : z[i] \in 0 .. MacRadix - 1
    BY <1>3, MacScaleIs DEF AreMacLimbs, AreLimbs
  <2>. HIDE DEF MacRadix
  <2>. QED BY <2>1, MacSizes
<1>. QED BY <1>6, <1>7, <1>8, <1>9 DEF e, z

-----------------------------------------------------------------------------
(* The invariant *)

LEMMA Associative ==
    ASSUME NEW a \in Seq(Nat), NEW b \in Seq(Nat), NEW c \in Seq(Nat)
    PROVE  (a \o b) \o c = a \o (b \o c) /\ b \o c \in Seq(Nat)
OBVIOUS

Calls == AeadKey \X AeadNonce \X AeadData \X AeadText

\* What a frame of the hash holds: all of the input so far has gone into the
\* context, behind the key's block, however it came in.
HashFrame ==
    /\ {"op", "key", "in", "ctx"} \subseteq DOMAIN frame
    /\ frame.key \in HashKey /\ frame.in \in Seq(Nat)
    /\ Hashed(frame.ctx, ParameterBlock(frame.key), Whole(frame.key, frame.in))

\* What a frame of the exponents holds: after whole rows of the table and some
\* squarings of the next, the registers are the residues of the exponents.
Two == CHOOSE two : ArePowers(two)

ChainFrame ==
    /\ {"op", "m", "chain"} \subseteq DOMAIN frame
    /\ frame.m \in Modulus
    /\ \E k, t : ChainAt(frame.chain, frame.m, Two, k, t)

\* operands are whole elements, tight or not
FieldFrame ==
    /\ {"op", "a", "b"} \subseteq DOMAIN frame
    /\ IsElement(frame.a) /\ IsElement(frame.b)

\* What a frame of the MAC holds: the whole blocks of the input so far in the
\* accumulator, and the rest of it in the buffer, however it came in.
MacFrame ==
    /\ {"op", "key", "in", "ctx"} \subseteq DOMAIN frame
    /\ frame.key \in MacKeys /\ frame.in \in Seq(Octet)
    /\ IsMacked(frame.ctx, frame.key[1], frame.key[2], frame.in)

PInv ==
    /\ "op" \in DOMAIN frame
    /\ frame.op = "field" => FieldFrame
    /\ frame.op = "chain" => ChainFrame
    /\ frame.op = "hash" => HashFrame
    /\ frame.op = "digest" => DigestOfWhole
    /\ frame.op = "mac" => MacFrame
    /\ frame.op = "tag" => MacIsPolynomial
    /\ frame.op = "seal" => frame.sealed \in Calls
    /\ frame.op = "open" => frame.sealed \in Calls /\ frame.opened \in Calls

LEMMA WholeIs ==
    ASSUME NEW key \in HashKey, NEW in \in Seq(Nat), NEW chunk \in Seq(Nat)
    PROVE  /\ key \in Seq(Nat) /\ Len(key) <= HashBlock /\ Whole(key, in) \in Seq(Nat)
           /\ Whole(key, in) \o chunk = Whole(key, in \o chunk)
<1>1. key \in Seq(Nat) /\ Len(key) <= HashBlock
  BY PrimitivesAssumption
<1>2. CASE key = <<>>
  BY <1>1, <1>2 DEF Whole
<1>3. CASE key # <<>>
  <2>. DEFINE k == Blocked(key, HashBlock)[1]
  <2>1. k \in Seq(Nat)
    BY <1>1, <1>3, KeyBlock
  <2>2. Whole(key, in) = k \o in /\ Whole(key, in \o chunk) = k \o (in \o chunk)
    BY <1>3 DEF Whole
  <2>. HIDE DEF k
  <2>3. (k \o in) \o chunk = k \o (in \o chunk) /\ k \o in \in Seq(Nat)
    BY <2>1, Associative
  <2>. QED BY <1>1, <2>2, <2>3
<1>. QED BY <1>2, <1>3

LEMMA TwoIs == ArePowers(Two)
BY PowersExist DEF Two

LEMMA ChainFrameNext ==
    ASSUME ChainFrame, frame.op = "chain", ExponentTurn
    PROVE  "op" \in DOMAIN frame' /\ frame'.op = "chain" /\ ChainFrame'
<1>. DEFINE m == frame.m
            chain == frame.chain
            f == ChainFactors(CodeSteps, chain)
            turned == ChainTurn(CodeSteps, chain, (2 * ChainBase(chain)) % m, (f[1] + f[2]) % m)
<1>1. {"op", "m", "chain"} \subseteq DOMAIN frame /\ m \in Modulus
  BY DEF ChainFrame
<1>2. PICK k, t : ChainAt(chain, m, Two, k, t)
  BY DEF ChainFrame
<1>3. ~ChainDone(CodeSteps, chain) /\ frame' = [frame EXCEPT !.chain = turned]
  BY DEF ExponentTurn
<1>4. m \in Nat \ {0}
  BY <1>1, PrimitivesAssumption
<1>5. k \in 1 .. 13
  <2>1. chain.row = k /\ k \in 1 .. 14
    <3>1. /\ k \in 1 .. 14
          /\ chain = Chain(k, SquaringsOf(k) - t, IF t = 0 THEN From[k] ELSE CodeSteps[k].a,
                           Residues(Squared(Two, k, t), m))
      BY <1>2 DEF ChainAt
    <3>. HIDE DEF chain
    <3>. QED BY <3>1 DEF Chain
  <2>2. chain.row <= 13
    BY <1>3, <2>1, TableLength DEF ChainDone
  <2>. QED BY <2>1, <2>2
<1>6. \E k1, t1 : ChainAt(turned, m, Two, k1, t1)
  <2>. HIDE DEF m, chain
  <2>1. IF t < CodeSteps[k].n THEN ChainAt(turned, m, Two, k, t + 1)
                             ELSE ChainAt(turned, m, Two, k + 1, 0)
    BY <1>2, <1>4, <1>5, TwoIs, ChainSteps
  <2>. HIDE DEF turned
  <2>. QED BY <2>1
<1>7. DOMAIN frame' = DOMAIN frame /\ frame'.op = "chain" /\ frame'.m = m /\ frame'.chain = turned
  <2>. HIDE DEF turned
  <2>. QED BY <1>1, <1>3
<1>. HIDE DEF turned
<1>. QED BY <1>1, <1>6, <1>7 DEF ChainFrame

LEMMA LimbsAre ==
    ASSUME NEW n \in Int
    PROVE  IsElement(Limbs(n))
<1>1. NLimbs \in Nat /\ NLimbs \in 0 .. 2 * NLimbs /\ Radix \in Nat \ {0}
  BY Sizes, RadixPowers
<1>2. ASSUME NEW i \in 1 .. NLimbs PROVE (n \div Radix ^ (i - 1)) % Radix \in 0 .. Radix - 1
  <2>. DEFINE r == Radix ^ (i - 1)
              q == n \div r
  <2>1. i - 1 \in 0 .. 2 * NLimbs
    BY <1>1
  <2>2. r \in Nat \ {0}
    BY <2>1, RadixPowers
  <2>. HIDE DEF r
  <2>3. q \in Int
    BY <2>2, DividedIs
  <2>. HIDE DEF q
  <2>4. q % Radix \in 0 .. Radix - 1
    BY <1>1, <2>3, DividedIs
  <2>. QED BY <2>4 DEF q, r
<1>. QED BY <1>1, <1>2, LimbScaleIs DEF IsElement, AreLimbs, Limbs

LEMMA ElementsAre ==
    /\ \A x \in Elements : IsElement(x)
    /\ IsElement(Zero)
<1>1. ASSUME NEW x \in Elements PROVE IsElement(x)
  <2>1. PICK n \in 0 .. 2 ^ Bits - 1 : x = Limbs(n)
    BY DEF Elements
  <2>. QED BY <2>1, LimbsAre
<1>. QED BY <1>1, LimbsAre DEF Zero

LEMMA ChunksAre ==
    /\ \A chunk \in BoundedSeq(MacByte, MaxChunk) : chunk \in Seq(Octet)
    /\ \A k \in MacKeys : k[1] \in Factors
<1>1. MacByte \subseteq Octet /\ MaxChunk \in Nat
  BY PrimitivesAssumption DEF Octet
<1>2. ASSUME NEW chunk \in BoundedSeq(MacByte, MaxChunk) PROVE chunk \in Seq(Octet)
  <2>1. PICK m \in 0 .. MaxChunk : chunk \in [1 .. m -> MacByte]
    BY DEF BoundedSeq, SeqOf
  <2>2. m \in Nat
    BY <1>1
  <2>3. chunk \in [1 .. m -> Octet]
    BY <1>1, <2>1
  <2>. QED BY <2>2, <2>3
<1>3. \A k \in MacKeys : k[1] \in Factors
  BY PrimitivesAssumption DEF Factors
<1>. QED BY <1>2, <1>3

LEMMA PInvInit == Init => PInv
<1>. SUFFICES ASSUME Init PROVE PInv
  OBVIOUS
<1>1. CASE \E a \in Elements : frame = [op |-> "field", a |-> a, b |-> Zero]
  <2>1. PICK a \in Elements : frame = [op |-> "field", a |-> a, b |-> Zero]
    BY <1>1
  <2>2. DOMAIN frame = {"op", "a", "b"} /\ frame.op = "field" /\ frame.a = a /\ frame.b = Zero
    BY <2>1
  <2>3. FieldFrame
    BY <2>2, ElementsAre DEF FieldFrame
  <2>. QED BY <2>2, <2>3 DEF PInv
<1>2. CASE \E k \in Scalar, u \in UCoordinate :
              frame = [op |-> "x25519", k |-> k, u |-> u, ladder |-> LadderStart(Limbs(u))]
  <2>1. "op" \in DOMAIN frame /\ frame.op = "x25519"
    BY <1>2
  <2>. QED BY <2>1 DEF PInv
<1>3. CASE \E m \in Modulus : frame = [op |-> "chain", m |-> m, chain |-> ChainStart(CodeSteps, 1 % m)]
  <2>1. PICK m \in Modulus : frame = [op |-> "chain", m |-> m, chain |-> ChainStart(CodeSteps, 1 % m)]
    BY <1>3
  <2>2. /\ DOMAIN frame = {"op", "m", "chain"} /\ frame.op = "chain" /\ frame.m = m
        /\ frame.chain = ChainStart(CodeSteps, 1 % m)
    BY <2>1
  <2>3. m \in Nat \ {0}
    BY PrimitivesAssumption
  <2>4. ChainAt(ChainStart(CodeSteps, 1 % m), m, Two, 1, 0)
    BY <2>3, TwoIs, ChainBegins
  <2>5. ChainFrame
    BY <2>2, <2>4 DEF ChainFrame
  <2>. QED BY <2>2, <2>5 DEF PInv
<1>4. CASE \E key \in HashKey :
              frame = [op |-> "hash", key |-> key, in |-> <<>>, ctx |-> Blake2sInit(32, key)]
  <2>1. PICK key \in HashKey :
              frame = [op |-> "hash", key |-> key, in |-> <<>>, ctx |-> Blake2sInit(32, key)]
    BY <1>4
  <2>2. key \in Seq(Nat) /\ Len(key) <= HashBlock
    BY PrimitivesAssumption
  <2>3. Hashed(Blake2sInit(32, key), ParameterBlock(key), Whole(key, <<>>))
    BY <2>2, InitHashes
  <2>4. /\ DOMAIN frame = {"op", "key", "in", "ctx"} /\ frame.op = "hash"
        /\ frame.key = key /\ frame.in = <<>> /\ frame.ctx = Blake2sInit(32, key)
    BY <2>1
  <2>5. HashFrame
    BY <2>3, <2>4 DEF HashFrame
  <2>. QED BY <2>4, <2>5 DEF PInv
<1>5. CASE \E k \in MacKeys : frame = [op |-> "mac", key |-> k, in |-> <<>>, ctx |-> PolyInit(k[1], k[2])]
  <2>1. PICK k \in MacKeys : frame = [op |-> "mac", key |-> k, in |-> <<>>, ctx |-> PolyInit(k[1], k[2])]
    BY <1>5
  <2>2. IsMacked(PolyInit(k[1], k[2]), k[1], k[2], <<>>)
    BY StartMacked
  <2>3. /\ DOMAIN frame = {"op", "key", "in", "ctx"} /\ frame.op = "mac"
        /\ frame.key = k /\ frame.in = <<>> /\ frame.ctx = PolyInit(k[1], k[2])
    BY <2>1
  <2>4. MacFrame
    BY <2>2, <2>3 DEF MacFrame
  <2>. QED BY <2>3, <2>4 DEF PInv
<1>6. CASE \E key \in AeadKey, nonce \in AeadNonce, ad \in AeadData, text \in AeadText :
              frame = [op |-> "seal", sealed |-> <<key, nonce, ad, text>>]
  <2>1. "op" \in DOMAIN frame /\ frame.op = "seal" /\ frame.sealed \in Calls
    BY <1>6 DEF Calls
  <2>. QED BY <2>1 DEF PInv
<1>. QED BY <1>1, <1>2, <1>3, <1>4, <1>5, <1>6 DEF Init

\* an activation of another primitive
Elsewhere(op) == op \notin {"field", "chain", "hash", "digest", "mac", "tag", "seal", "open"}

LEMMA PInvNext == PInv /\ [Next]_vars => PInv'
<1>. SUFFICES ASSUME PInv, [Next]_vars PROVE PInv'
  OBVIOUS
<1>0. "op" \in DOMAIN frame
  BY DEF PInv
<1>1. CASE UNCHANGED vars
  BY <1>1 DEF PInv, vars, FieldFrame, ChainFrame, HashFrame, DigestOfWhole, MacFrame, MacIsPolynomial
<1>2. ASSUME "op" \in DOMAIN frame', Elsewhere(frame'.op) PROVE PInv'
  BY <1>2 DEF PInv, Elsewhere
<1>3. CASE Operands
  <2>1. frame.op = "field" /\ FieldFrame
    BY <1>3 DEF Operands, PInv
  <2>2. PICK b \in Elements : frame' = [frame EXCEPT !.b = b]
    BY <1>3 DEF Operands
  <2>3. DOMAIN frame' = DOMAIN frame /\ frame'.op = "field" /\ frame'.a = frame.a /\ frame'.b = b
    BY <2>1, <2>2 DEF FieldFrame
  <2>4. FieldFrame'
    BY <2>1, <2>3, ElementsAre DEF FieldFrame
  <2>. QED BY <1>0, <2>3, <2>4 DEF PInv
<1>4. CASE LadderTurn
  <2>1. "op" \in DOMAIN frame' /\ frame'.op = "x25519"
    BY <1>0, <1>4 DEF LadderTurn
  <2>. QED BY <1>2, <2>1 DEF Elsewhere
<1>5. CASE LadderEnd
  <2>1. "op" \in DOMAIN frame' /\ frame'.op = "invert"
    BY <1>5 DEF LadderEnd
  <2>. QED BY <1>2, <2>1 DEF Elsewhere
<1>6. CASE InversionTurn
  <2>1. "op" \in DOMAIN frame' /\ frame'.op = "invert"
    BY <1>0, <1>6 DEF InversionTurn
  <2>. QED BY <1>2, <2>1 DEF Elsewhere
<1>7. CASE X25519Return
  <2>1. "op" \in DOMAIN frame' /\ frame'.op = "shared"
    BY <1>7 DEF X25519Return
  <2>. QED BY <1>2, <2>1 DEF Elsewhere
<1>8. CASE ExponentTurn
  <2>1. frame.op = "chain" /\ ChainFrame
    BY <1>8 DEF ExponentTurn, PInv
  <2>2. "op" \in DOMAIN frame' /\ frame'.op = "chain" /\ ChainFrame'
    BY <1>8, <2>1, ChainFrameNext
  <2>. QED BY <2>2 DEF PInv
<1>9. CASE HashUpdate
  <2>1. frame.op = "hash" /\ HashFrame
    BY <1>9 DEF HashUpdate, PInv
  <2>2. PICK n \in 0 .. MaxChunk :
           LET chunk == [i \in 1 .. n |-> Len(frame.in) + i] IN
           frame' = [frame EXCEPT !.in = @ \o chunk, !.ctx = Blake2sUpdate(@, chunk)]
    BY <1>9 DEF HashUpdate
  <2>. DEFINE chunk == [i \in 1 .. n |-> Len(frame.in) + i]
              h0 == ParameterBlock(frame.key)
              d == Whole(frame.key, frame.in)
  <2>3. /\ DOMAIN frame' = DOMAIN frame /\ frame'.op = "hash" /\ frame'.key = frame.key
        /\ frame'.in = frame.in \o chunk /\ frame'.ctx = Blake2sUpdate(frame.ctx, chunk)
    <3>1. {"op", "key", "in", "ctx"} \subseteq DOMAIN frame
      BY <2>1 DEF HashFrame
    <3>. HIDE DEF chunk
    <3>. QED BY <2>1, <2>2, <3>1 DEF chunk
  <2>4. chunk \in Seq(Nat)
    <3>1. n \in Nat /\ Len(frame.in) \in Nat
      BY <2>1, PrimitivesAssumption DEF HashFrame
    <3>. QED BY <3>1
  <2>. HIDE DEF chunk
  <2>5. frame.key \in HashKey /\ frame.in \in Seq(Nat) /\ Hashed(frame.ctx, h0, d)
    BY <2>1 DEF HashFrame
  <2>6. d \in Seq(Nat) /\ d \o chunk = Whole(frame.key, frame.in \o chunk)
        /\ frame.in \o chunk \in Seq(Nat)
    BY <2>4, <2>5, WholeIs
  <2>7. Hashed(Blake2sUpdate(frame.ctx, chunk), h0, d \o chunk)
    BY <2>4, <2>5, <2>6, UpdateHashes
  <2>8. HashFrame'
    BY <2>1, <2>3, <2>5, <2>6, <2>7 DEF HashFrame
  <2>. QED BY <1>0, <2>3, <2>8 DEF PInv
<1>10. CASE HashReturn
  <2>1. frame.op = "hash" /\ HashFrame
    BY <1>10 DEF HashReturn, PInv
  <2>2. /\ "op" \in DOMAIN frame' /\ frame'.op = "digest" /\ frame'.key = frame.key
        /\ frame'.in = frame.in /\ frame'.out = Blake2sFinal(frame.ctx)
    BY <1>10 DEF HashReturn
  <2>3. /\ frame.key \in HashKey /\ frame.in \in Seq(Nat)
        /\ Hashed(frame.ctx, ParameterBlock(frame.key), Whole(frame.key, frame.in))
    BY <2>1 DEF HashFrame
  <2>4. Whole(frame.key, frame.in) \in Seq(Nat)
    BY <2>3, WholeIs
  <2>5. Blake2sFinal(frame.ctx) = Digest(frame.key, frame.in)
    BY <2>3, <2>4, FinalIs, DigestIs
  <2>6. DigestOfWhole'
    BY <2>2, <2>5 DEF DigestOfWhole
  <2>. QED BY <2>2, <2>6 DEF PInv
<1>11. CASE MacUpdate
  <2>1. frame.op = "mac" /\ MacFrame
    BY <1>11 DEF MacUpdate, PInv
  <2>2. PICK chunk \in BoundedSeq(MacByte, MaxChunk) :
           frame' = [frame EXCEPT !.in = @ \o chunk, !.ctx = PolyUpdate(@, chunk)]
    BY <1>11 DEF MacUpdate
  <2>. DEFINE r == frame.key[1]
              pad == frame.key[2]
              in == frame.in
              st == frame.ctx
  <2>3. /\ DOMAIN frame' = DOMAIN frame /\ frame'.op = "mac" /\ frame'.key = frame.key
        /\ frame'.in = in \o chunk /\ frame'.ctx = PolyUpdate(st, chunk)
    <3>1. {"op", "key", "in", "ctx"} \subseteq DOMAIN frame
      BY <2>1 DEF MacFrame
    <3>. QED BY <2>1, <2>2, <3>1
  <2>4. /\ frame.key \in MacKeys /\ r \in Factors /\ in \in Seq(Octet) /\ chunk \in Seq(Octet)
        /\ IsMacked(st, r, pad, in)
    BY <2>1, ChunksAre DEF MacFrame
  <2>. HIDE DEF r, pad, in, st
  <2>5. IsMacked(PolyUpdate(st, chunk), r, pad, in \o chunk) /\ in \o chunk \in Seq(Octet)
    BY <2>4, UpdateMacked
  <2>6. MacFrame'
    BY <2>1, <2>3, <2>4, <2>5 DEF MacFrame, r, pad
  <2>. QED BY <1>0, <2>3, <2>6 DEF PInv
<1>12. CASE MacReturn
  <2>1. frame.op = "mac" /\ MacFrame
    BY <1>12 DEF MacReturn, PInv
  <2>. DEFINE r == frame.key[1]
              pad == frame.key[2]
              in == frame.in
              st == frame.ctx
  <2>2. /\ "op" \in DOMAIN frame' /\ frame'.op = "tag" /\ frame'.key = frame.key /\ frame'.in = in
        /\ frame'.last = PolyLast(st) /\ frame'.out = PolyFinish(st)
    BY <1>12 DEF MacReturn
  <2>3. r \in Factors /\ in \in Seq(Octet) /\ IsMacked(st, r, pad, in)
    BY <2>1, ChunksAre DEF MacFrame
  <2>. HIDE DEF r, pad, in, st
  <2>4. /\ PolyFinish(st) = ((Polynomial(r, in) % BlockMod) + pad) % BlockMod
        /\ \A i \in 1 .. MacLimbs : PolyLast(st)[i] < MacRadix
    BY <2>3, FinishMacked
  <2>5. MacIsPolynomial'
    BY <2>2, <2>4 DEF MacIsPolynomial, r, pad
  <2>. QED BY <2>2, <2>5 DEF PInv
<1>13. CASE Open
  <2>1. frame.sealed \in Calls
    BY <1>13 DEF Open, PInv
  <2>2. "op" \in DOMAIN frame' /\ frame'.op = "open" /\ frame'.sealed = frame.sealed
        /\ frame'.opened \in Calls
    BY <1>13 DEF Open, Calls
  <2>. QED BY <2>1, <2>2 DEF PInv
<1>. QED BY <1>1, <1>3, <1>4, <1>5, <1>6, <1>7, <1>8, <1>9, <1>10, <1>11, <1>12, <1>13 DEF Next

LEMMA PInvAlways == Spec => []PInv
BY PInvInit, PInvNext, PTL DEF Spec

\* poly1305-donna: however the input is cut into updates, the tag is the polynomial
\* of the whole and the pad; the carries that are folded back only once per block
\* leave limbs that the next product and the last carry can take.
THEOREM TagsArePolynomials == Spec => []MacIsPolynomial
<1>1. PInv => MacIsPolynomial
  BY DEF PInv, MacIsPolynomial
<1>. QED BY <1>1, PInvAlways, PTL

\* x25519.c: add, sub, mul and canon are exact modulo the prime in limbs of any
\* number and width, for an excess that fits: propagate's one fold of the top bit
\* and the carry leaves no carry of its own.
THEOREM FieldIsExact == Spec => []FieldExact
<1>1. ASSUME PInv PROVE FieldExact
  <2>. SUFFICES ASSUME frame.op = "field" PROVE FieldExact
    BY DEF FieldExact
  <2>. DEFINE a == frame.a
              b == frame.b
              c == <<A24>>
  <2>1. IsElement(a) /\ IsElement(b)
    BY <1>1 DEF PInv, FieldFrame
  <2>2. /\ NLimbs \in 1 .. NLimbs /\ 1 \in 1 .. NLimbs /\ 1 \in 0 .. 2 * NLimbs /\ 0 + 1 = 1
        /\ A24 \in 0 .. Radix - 1 /\ LimbScale.at[0] = 1 /\ DOMAIN c = 1 .. 1 /\ c[1] = A24
    BY Sizes, LimbPowers, X25519Assumption
  <2>. HIDE DEF a, b, c
  <2>3. AreFactors(a, b, NLimbs)
    BY <2>1, <2>2 DEF AreFactors, IsElement
  <2>4. AreFactors(a, c, 1) /\ AreLimbs(LimbScale, c, 1)
    BY <2>1, <2>2, LimbScaleIs DEF AreFactors, AreLimbs
  <2>5. Value(c) = A24
    <3>1. Numbers(LimbScale, c, 1)
      BY <2>4, LimbsAreNumbers
    <3>2. Value(c) = Worth(LimbScale, c, 1) /\ Worth(LimbScale, c, 0) = 0
      BY <2>2, <3>1, ValueIs, SumNone
    <3>3. Worth(LimbScale, c, 0 + 1) = Worth(LimbScale, c, 0) + c[0 + 1] * LimbScale.at[0]
      BY <3>1, SumStep
    <3>. QED BY <2>2, <3>2, <3>3
  <2>6. IsExact(FeAdd(a, b), Value(a) + Value(b))
    BY <2>1, AddExact
  <2>7. Tight(b) => IsExact(FeSub(a, b), Value(a) - Value(b))
    BY <2>1, SubExact
  <2>8. IsExact(FeMul(a, b), Value(a) * Value(b))
    BY <2>3, MulExact
  <2>9. IsExact(FeMul(a, c), Value(a) * A24)
    BY <2>4, <2>5, MulExact
  <2>10. Tight(a) => Value(Canon(a)) = Value(a) % P
    BY <2>1, CanonExact
  <2>. QED BY <2>6, <2>7, <2>8, <2>9, <2>10 DEF FieldExact, IsExact, a, b, c
<1>. QED BY <1>1, PInvAlways, PTL

\* x25519.c: the table of the inversion raises to the power 2^255 - 21 = p - 2,
\* whatever number exponents are counted modulo.
THEOREM ChainRaises == Spec => []ChainInverts
<1>1. ASSUME PInv PROVE ChainInverts
  <2>. SUFFICES ASSUME frame.op = "chain", ChainDone(CodeSteps, frame.chain)
                PROVE  (frame.chain.xs[3] - PowerOfTwo(255, frame.m) + 21) % frame.m = 0
    BY DEF ChainInverts
  <2>. DEFINE m == frame.m
              chain == frame.chain
  <2>1. ChainFrame
    BY <1>1 DEF PInv
  <2>2. m \in Nat \ {0}
    BY <2>1, PrimitivesAssumption DEF ChainFrame
  <2>3. PICK k, t : ChainAt(chain, m, Two, k, t)
    BY <2>1 DEF ChainFrame
  <2>. HIDE DEF m, chain
  <2>4. /\ k \in 1 .. 14 /\ t \in 0 .. SquaringsOf(k)
        /\ chain = Chain(k, SquaringsOf(k) - t, IF t = 0 THEN From[k] ELSE CodeSteps[k].a,
                         Residues(Squared(Two, k, t), m))
    BY <2>3 DEF ChainAt
  <2>5. chain.row = k /\ chain.xs = Residues(Squared(Two, k, t), m)
    BY <2>4 DEF Chain
  <2>6. chain.row > 13
    BY TableLength DEF ChainDone, chain
  <2>7. k = 14 /\ t = 0
    BY <2>4, <2>5, <2>6 DEF SquaringsOf
  <2>8. Two[255] \in Nat
    BY TwoIs, PowersUsed
  <2>9. Squared(Two, k, t)[3] = Two[255] - 21
    BY <2>7 DEF Squared, Exponents
  <2>10. chain.xs[3] = (Two[255] - 21) % m
    BY <2>5, <2>9 DEF Residues
  <2>11. PowerOfTwo(255, m) = Two[255] % m
    BY <2>2, TwoIs, PowerIs
  <2>12. (((Two[255] - 21) % m) - (Two[255] % m) + 21) % m = 0
    <3>. DEFINE w == Two[255]
    <3>1. w \in Int /\ 21 \in Int
      BY <2>8
    <3>. HIDE DEF w
    <3>2. (((w - 21) % m) - (w % m) + 21) % m = 0
      BY <2>2, <3>1, ResidueOff
    <3>. QED BY <3>2 DEF w
  <2>. QED BY <2>10, <2>11, <2>12 DEF m, chain
<1>. QED BY <1>1, PInvAlways, PTL

\* blake2s.c: a digest depends on the key and the bytes hashed, not on how they
\* were cut into updates; counters, filling and the mark of the last block are right.
THEOREM DigestsWhole == Spec => []DigestOfWhole
<1>1. PInv => DigestOfWhole
  BY DEF PInv, DigestOfWhole
<1>. QED BY <1>1, PInvAlways, PTL

\* chacha20poly1305.c: the MAC's input is not the same for any other split into
\* additional data and text, whatever their lengths.
THEOREM TagsFixInput == Spec => []TagFixesInput
<1>1. ASSUME PInv PROVE TagFixesInput
  <2>. SUFFICES ASSUME frame.op = "seal", NEW ad \in AeadData, NEW text \in AeadData,
                       MacInput(ad, text) = MacInput(frame.sealed[3], frame.sealed[4])
                PROVE  ad = frame.sealed[3] /\ text = frame.sealed[4]
    BY DEF TagFixesInput
  <2>1. frame.sealed[3] \in AeadData /\ frame.sealed[4] \in AeadText
    BY <1>1 DEF PInv, Calls
  <2>. DEFINE S == {Plain(n) : n \in 0 .. 255}
  <2>2. ad \in Seq(S) /\ text \in Seq(S) /\ frame.sealed[3] \in Seq(S) /\ frame.sealed[4] \in Seq(S)
    BY <2>1, PrimitivesAssumption
  <2>. HIDE DEF S
  <2>. QED BY <2>2, MacInputTells
<1>. QED BY <1>1, PInvAlways, PTL

\* chacha20poly1305_decrypt and its x variant return true for what the same key,
\* nonce and additional data sealed, and for nothing else, and give back the text;
\* the MAC's key and the text never take the same byte of the keystream.
THEOREM OpensSealed == Spec => []OpensOnlySealed
<1>1. ASSUME PInv PROVE OpensOnlySealed
  <2>. SUFFICES ASSUME frame.op = "open" PROVE OpensOnlySealed
    BY DEF OpensOnlySealed
  <2>. DEFINE s == frame.sealed
              o == frame.opened
              opened == Decrypt(o[1], o[2][2], o[3], Encrypt(s[1], s[2][2], s[3], s[4]))
              xopened == XDecrypt(o[1], o[2], o[3], XEncrypt(s[1], s[2], s[3], s[4]))
              S == {Plain(n) : n \in 0 .. 255}
  <2>1. /\ s[2] \in AeadNonce /\ s[3] \in AeadData /\ s[4] \in AeadText
        /\ o[2] \in AeadNonce /\ o[3] \in AeadData
    BY <1>1 DEF PInv, Calls
  <2>2. s[3] \in Seq(S) /\ s[4] \in Seq(S) /\ o[3] \in Seq(S)
    BY <2>1, PrimitivesAssumption
  <2>3. s[2] = <<s[2][1], s[2][2]>> /\ o[2] = <<o[2][1], o[2][2]>>
    BY <2>1, PrimitivesAssumption
  <2>. HIDE DEF S, s, o
  <2>4. /\ opened.result <=> o[1] = s[1] /\ o[2][2] = s[2][2] /\ o[3] = s[3]
        /\ opened.result => opened.text = s[4]
    BY <2>2, DecryptOpens
  <2>5. /\ xopened.result <=> /\ SubKey(o[1], o[2]) = SubKey(s[1], s[2])
                              /\ o[2][2] = s[2][2] /\ o[3] = s[3]
        /\ xopened.result => xopened.text = s[4]
    BY <2>2, DecryptOpens DEF XDecrypt, XEncrypt
  <2>6. SubKey(o[1], o[2]) = SubKey(s[1], s[2]) <=> o[1] = s[1] /\ o[2][1] = s[2][1]
    BY DEF SubKey
  <2>7. o[2] = s[2] <=> o[2][1] = s[2][1] /\ o[2][2] = s[2][2]
    BY <2>3
  <2>8. LET used == Used(s[1], s[2][2], s[4]) IN
        \A i, j \in DOMAIN used : used[i] = used[j] => i = j
    BY <2>2, UsedOnce
  <2>. HIDE DEF opened, xopened
  <2>9. xopened.result <=> o[1] = s[1] /\ o[2] = s[2] /\ o[3] = s[3]
    BY <2>5, <2>6, <2>7
  <2>. QED BY <2>4, <2>5, <2>8, <2>9 DEF OpensOnlySealed, opened, xopened, s, o
<1>. QED BY <1>1, PInvAlways, PTL

=============================================================================
