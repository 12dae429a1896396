------------------------------- MODULE Primitives -------------------------------
(***************************************************************************)
(* The cryptographic primitives at work, one call at a time: a frame is    *)
(* the activation of one primitive, and a step is one turn of its loop or  *)
(* one of the calls its caller makes.                                      *)
(***************************************************************************)
EXTENDS X25519, Blake2s, ChaCha20Poly1305

CONSTANTS
    \* bounds of the model
    Scalar, UCoordinate,        \* arguments of x25519
    Modulus,                    \* moduli under which the inversion chain is run
    HashKey, MaxHashed,         \* keys of BLAKE2s, and bytes hashed
    MacKeys, MacByte, MaxMaced, \* (r, pad), byte values and bytes of Poly1305
    MaxChunk,                   \* bytes of one update
    AeadKey, AeadNonce, AeadText, AeadData

\* a key has at most 32 bytes, less than a block; a MAC's r is a block; a nonce has
\* the part that hchacha20 takes and the rest; texts and data are bytes
ASSUME PrimitivesAssumption ==
    /\ Modulus \subseteq Nat \ {0} /\ {MaxHashed, MaxMaced, MaxChunk} \subseteq Nat
    /\ \A key \in HashKey : key \in Seq(Nat) /\ Len(key) <= HashBlock
    /\ MacByte \subseteq 0 .. 2 ^ ByteBits - 1 /\ \A k \in MacKeys : k[1] \in 0 .. BlockMod - 1
    /\ \A nonce \in AeadNonce : nonce = <<nonce[1], nonce[2]>>
    /\ \A s \in AeadText \cup AeadData : s \in Seq({Plain(n) : n \in 0 .. 255})

VARIABLE frame
vars == frame

Elements == {Limbs(n) : n \in 0 .. 2 ^ Bits - 1}

\* a sum or product as propagate leaves it
Tight(x) == Value(x) < 2 ^ (Bits - 1) + Radix

Init ==
    \/ \E a \in Elements : frame = [op |-> "field", a |-> a, b |-> Zero]
    \/ \E k \in Scalar, u \in UCoordinate :
          frame = [op |-> "x25519", k |-> k, u |-> u, ladder |-> LadderStart(Limbs(u))]
    \/ \E m \in Modulus : frame = [op |-> "chain", m |-> m, chain |-> ChainStart(CodeSteps, 1 % m)]
    \/ \E key \in HashKey : frame = [op |-> "hash", key |-> key, in |-> <<>>, ctx |-> Blake2sInit(32, key)]
    \/ \E k \in MacKeys : frame = [op |-> "mac", key |-> k, in |-> <<>>, ctx |-> PolyInit(k[1], k[2])]
    \/ \E key \in AeadKey, nonce \in AeadNonce, ad \in AeadData, text \in AeadText :
          frame = [op |-> "seal", sealed |-> <<key, nonce, ad, text>>]

\* the two operands of an addition, subtraction or multiplication
Operands ==
    /\ frame.op = "field"
    /\ \E b \in Elements : frame' = [frame EXCEPT !.b = b]

LadderTurn ==
    /\ frame.op = "x25519" /\ frame.ladder.i > 0
    /\ frame' = [frame EXCEPT !.ladder = LadderBit(@, frame.k, Limbs(frame.u))]

\* the last swap, and the denominator goes into the inversion
LadderEnd ==
    /\ frame.op = "x25519" /\ frame.ladder.i = 0
    /\ LET xs == CondSwap(frame.ladder.swap, frame.ladder.xs) IN
       frame' = [op |-> "invert", k |-> frame.k, u |-> frame.u, x2 |-> xs.x2,
                 chain |-> ChainStart(Steps, xs.z2)]

InversionTurn ==
    /\ frame.op = "invert" /\ ~ChainDone(Steps, frame.chain)
    /\ frame' = [frame EXCEPT !.chain = FeChainTurn(@)]

X25519Return ==
    /\ frame.op = "invert" /\ ChainDone(Steps, frame.chain)
    /\ LET r == Quotient(frame.x2, frame.chain) IN
       frame' = [op |-> "shared", k |-> frame.k, u |-> frame.u, out |-> r.out, failed |-> r.failed]

\* the chain of the code on exponents modulo m: a square doubles, a product adds
ExponentTurn ==
    /\ frame.op = "chain" /\ ~ChainDone(CodeSteps, frame.chain)
    /\ LET f == ChainFactors(CodeSteps, frame.chain) IN
       frame' = [frame EXCEPT !.chain =
                    ChainTurn(CodeSteps, @, (2 * ChainBase(@)) % frame.m, (f[1] + f[2]) % frame.m)]

\* input bytes differ, so that the digest shows where each has gone
HashUpdate ==
    /\ frame.op = "hash"
    /\ \E n \in 0 .. MaxChunk :
          LET chunk == [i \in 1 .. n |-> Len(frame.in) + i] IN
          /\ Len(frame.in) + n <= MaxHashed
          /\ frame' = [frame EXCEPT !.in = @ \o chunk, !.ctx = Blake2sUpdate(@, chunk)]

HashReturn ==
    /\ frame.op = "hash"
    /\ frame' = [op |-> "digest", key |-> frame.key, in |-> frame.in, out |-> Blake2sFinal(frame.ctx)]

MacUpdate ==
    /\ frame.op = "mac"
    /\ \E chunk \in BoundedSeq(MacByte, MaxChunk) :
          /\ Len(frame.in) + Len(chunk) <= MaxMaced
          /\ frame' = [frame EXCEPT !.in = @ \o chunk, !.ctx = PolyUpdate(@, chunk)]

MacReturn ==
    /\ frame.op = "mac"
    /\ frame' = [op |-> "tag", key |-> frame.key, in |-> frame.in, last |-> PolyLast(frame.ctx),
                 out |-> PolyFinish(frame.ctx)]

\* what was sealed, opened under other parameters
Open ==
    /\ frame.op = "seal"
    /\ \E key \in AeadKey, nonce \in AeadNonce, ad \in AeadData, text \in AeadText :
          frame' = [op |-> "open", sealed |-> frame.sealed, opened |-> <<key, nonce, ad, text>>]

Next ==
    \/ Operands
    \/ LadderTurn \/ LadderEnd \/ InversionTurn \/ X25519Return \/ ExponentTurn
    \/ HashUpdate \/ HashReturn \/ MacUpdate \/ MacReturn \/ Open

Spec == Init /\ [][Next]_vars

-----------------------------------------------------------------------------
(* Reference definitions *)

\* The multiples of a point on the curve d * y^2 = x^3 + A x^2 + x, by the group's
\* law.  With d chosen for it, (u, 1) is a point for every u but 0.
CurveA == 4 * A24 + 2
Reciprocal == [z \in 1 .. P - 1 |-> CHOOSE y \in 1 .. P - 1 : (z * y) % P = 1]
Over(y, z) == (y * Reciprocal[z % P]) % P
Infinity == <<>>

Plus(d, p, q) ==
    IF p = Infinity THEN q ELSE IF q = Infinity THEN p
    ELSE IF p[1] = q[1] /\ (p[2] + q[2]) % P = 0 THEN Infinity
    ELSE LET slope == IF p = q THEN Over((3 * p[1] * p[1] + 2 * CurveA * p[1] + 1) % P, 2 * d * p[2])
                               ELSE Over((q[2] - p[2]) % P, q[1] - p[1])
             x     == (d * slope * slope - CurveA - p[1] - q[1]) % P
         IN  <<x, (slope * (p[1] - x) - p[2]) % P>>

Multiples ==
    [u \in 1 .. P - 1 |->
        LET d == (u * u * u + CurveA * u * u + u) % P
            multiple[n \in 0 .. 2 ^ (Bits - 1)] ==
                IF n = 0 THEN Infinity ELSE Plus(d, multiple[n - 1], <<u, 1>>)
        IN  [n \in 0 .. 2 ^ (Bits - 1) |-> multiple[n]]]

\* the fraction x / z is the u-coordinate of a point
Represents(x, z, point) ==
    IF point = Infinity THEN Value(z) % P = 0 /\ Value(x) % P # 0
    ELSE Value(z) % P # 0 /\ (Value(x) - point[1] * Value(z)) % P = 0

\* 2 ^ n modulo m
PowerOfTwo(n, m) ==
    LET power[i \in 0 .. n] ==
            IF i = 0 THEN 1 % m
            ELSE LET root == power[i \div 2] IN (root * root * (1 + (i % 2))) % m
    IN  power[n]

\* a sequence cut into blocks, the last one filled up with zeros
Blocked(s, size) ==
    [n \in 1 .. (Len(s) + size - 1) \div size |->
        [i \in 1 .. size |-> IF (n - 1) * size + i <= Len(s) THEN s[(n - 1) * size + i] ELSE 0]]

Digest(key, in) ==
    LET data   == IF key = <<>> THEN in ELSE Blocked(key, HashBlock)[1] \o in
        blocks == IF data = <<>> THEN <<ZeroBlock>> ELSE Blocked(data, HashBlock)
        sofar(n) == IF n = Len(blocks) THEN Len(data) ELSE n * HashBlock
    IN  <<[outlen |-> 32, keylen |-> Len(key)]>>
        \o [n \in 1 .. Len(blocks) |->
              [block |-> blocks[n], t0 |-> sofar(n) % CounterMod,
               t1 |-> (sofar(n) \div CounterMod) % CounterMod, last |-> n = Len(blocks)]]

\* each block with a one behind it is a coefficient
Polynomial(r, in) ==
    LET blocks == (Len(in) + BlockSize - 1) \div BlockSize
        value[n \in 0 .. blocks] ==
            IF n = 0 THEN 0
            ELSE LET last == IF n = blocks THEN Len(in) ELSE n * BlockSize
                     coefficient == LittleEndian(Append(SubSeq(in, (n - 1) * BlockSize + 1, last), 1))
                 IN  ((value[n - 1] + coefficient) * r) % MacPrime
    IN  value[blocks]

-----------------------------------------------------------------------------
(* Properties *)

\* Addition, subtraction and multiplication are exact modulo the prime, although
\* their carries are folded back only once: the result is then small enough for
\* the next operation, for subtraction's borrow, and for the final reduction.
FieldExact ==
    frame.op = "field" =>
        LET a == frame.a  b == frame.b
            exact(x, n) == Tight(x) /\ (Value(x) - n) % P = 0
        IN  /\ exact(FeAdd(a, b), Value(a) + Value(b))
            /\ Tight(b) => exact(FeSub(a, b), Value(a) - Value(b))
            /\ exact(FeMul(a, b), Value(a) * Value(b))
            /\ exact(FeMul(a, <<A24>>), Value(a) * A24)
            /\ Tight(a) => Value(Canon(a)) = Value(a) % P

\* After every bit the ladder holds two consecutive multiples of the point, in
\* registers that are still swapped when the last bit was 1.
ConsecutiveMultiples ==
    frame.op = "x25519" /\ frame.u % P # 0 =>
        LET xs == CondSwap(frame.ladder.swap, frame.ladder.xs)
            n  == Clamp(frame.k) \div 2 ^ frame.ladder.i
        IN  /\ Represents(xs.x2, xs.z2, Multiples[frame.u % P][n])
            /\ Represents(xs.x3, xs.z3, Multiples[frame.u % P][n + 1])

\* The result is the multiple's coordinate in its only canonical form, 0 standing
\* for infinity; failed tells a public key of small order, and no other.
ResultIsMultiple ==
    frame.op = "shared" =>
        LET point == IF frame.u % P = 0 THEN Infinity ELSE Multiples[frame.u % P][Clamp(frame.k)] IN
        /\ Value(frame.out) = IF point = Infinity THEN 0 ELSE point[1]
        /\ frame.failed <=> point \in {Infinity, <<0, 0>>}

\* The code's chain raises to the power p - 2 = 2^255 - 21: it does so modulo every
\* number of Modulus, whose least common multiple both exponents stay below.
ChainInverts ==
    frame.op = "chain" /\ ChainDone(CodeSteps, frame.chain) =>
        (frame.chain.xs[3] - PowerOfTwo(255, frame.m) + 21) % frame.m = 0

\* A digest depends on what was hashed, not on how it came in; the last block is
\* marked, and counted without its filling, even when the input ends with it.
DigestOfWhole == frame.op = "digest" => frame.out = Digest(frame.key, frame.in)

\* A tag is the polynomial of the whole input, however it came in and whatever the
\* limbs carry; before they are put together the limbs do not overlap.
MacIsPolynomial ==
    frame.op = "tag" =>
        /\ frame.out = ((Polynomial(frame.key[1], frame.in) % BlockMod) + frame.key[2]) % BlockMod
        /\ \A i \in 1 .. MacLimbs : frame.last[i] < MacRadix

\* No bytes can be moved between additional data, text and filling without a change
\* of what the tag is taken over.
TagFixesInput ==
    frame.op = "seal" =>
        \A ad, text \in AeadData :
            MacInput(ad, text) = MacInput(frame.sealed[3], frame.sealed[4])
                => ad = frame.sealed[3] /\ text = frame.sealed[4]

\* the bytes of the keystream used under a key and nonce
Used(key, nonce, text) ==
    LET mackey == MacKey(key, nonce) IN
    mackey.out \o ChaCha20(mackey.ctx, Zeros(Len(text))).out

\* What was sealed opens under its own key, nonce and additional data only, and as
\* it was; no byte of the keystream serves twice.
OpensOnlySealed ==
    frame.op = "open" =>
        LET s == frame.sealed  o == frame.opened
            opened  == Decrypt(o[1], o[2][2], o[3], Encrypt(s[1], s[2][2], s[3], s[4]))
            xopened == XDecrypt(o[1], o[2], o[3], XEncrypt(s[1], s[2], s[3], s[4]))
        IN  /\ opened.result <=> o[1] = s[1] /\ o[2][2] = s[2][2] /\ o[3] = s[3]
            /\ xopened.result <=> o[1] = s[1] /\ o[2] = s[2] /\ o[3] = s[3]
            /\ opened.result => opened.text = s[4]
            /\ xopened.result => xopened.text = s[4]
            /\ LET used == Used(s[1], s[2][2], s[4]) IN
               \A i, j \in DOMAIN used : used[i] = used[j] => i = j
=============================================================================
