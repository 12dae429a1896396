-------------------------------- MODULE Poly1305 --------------------------------
(***************************************************************************)
(* poly1305-donna: the one-time MAC, fed in pieces of any length.  Bytes   *)
(* are collected into blocks, and a block is a digit of a polynomial that  *)
(* is evaluated modulo 2^130 - 5 in five limbs of 26 bits, reduced         *)
(* partly after each block and fully at the end.                           *)
(*                                                                         *)
(* The sizes are parameters; the code's are 26, 5, 8 and 16.  The widths   *)
(* of its intermediate words, which hold every sum with room to spare, are *)
(* left out.                                                               *)
(***************************************************************************)
EXTENDS Integers, SequencesExt

CONSTANTS
    MacLimbBits, MacLimbs,
    ByteBits, BlockSize

MacRadix == 2 ^ MacLimbBits
MacPrime == 2 ^ (MacLimbBits * MacLimbs) - 5
BlockMod == 2 ^ (ByteBits * BlockSize)

\* a block is two bits shorter than the limbs, and what the second limb keeps of a
\* carry is less than a limb
ASSUME Poly1305Assumption ==
    /\ {MacLimbBits, MacLimbs, ByteBits, BlockSize} \subseteq Nat \ {0}
    /\ ByteBits * BlockSize + 2 = MacLimbBits * MacLimbs
    /\ MacLimbs >= 2 /\ 20 * MacLimbs < MacRadix

\* laws of exponents, of which the provers know none
ASSUME MacPowersAssumption ==
    /\ MacRadix \in Nat /\ MacRadix ^ 0 = 1
    /\ \A i \in 0 .. MacLimbs : MacRadix ^ (i + 1) = MacRadix * MacRadix ^ i
    /\ 2 ^ ByteBits \in Nat \ {0, 1} /\ 2 ^ (ByteBits * 0) = 1
    /\ \A i \in 0 .. BlockSize + 1 : 2 ^ (ByteBits * (i + 1)) = 2 ^ ByteBits * 2 ^ (ByteBits * i)
    /\ MacRadix ^ MacLimbs = 2 ^ (MacLimbBits * MacLimbs)
    /\ 2 ^ (MacLimbBits * MacLimbs) = 4 * BlockMod

MacLimb(n, i) == (n \div MacRadix ^ (i - 1)) % MacRadix
ToLimbs(n) == [i \in 1 .. MacLimbs |-> MacLimb(n, i)]
FromLimbs(h) == FoldLeftDomain(LAMBDA sum, i : sum + h[i] * MacRadix ^ (i - 1), 0, h)

LittleEndian(bytes) ==
    FoldLeftDomain(LAMBDA sum, i : sum + bytes[i] * 2 ^ (ByteBits * (i - 1)), 0, bytes)

-----------------------------------------------------------------------------
(* Mutated form of a definition below, a slip the code could make. *)

MarkOfLastAlways(final) == BlockMod

-----------------------------------------------------------------------------

\* poly1305_init, r having been clamped
PolyInit(r, pad) ==
    [r |-> ToLimbs(r), h |-> ToLimbs(0), pad |-> pad, buffer |-> <<>>]

\* hibit: the bit above a whole block; the last block brings its own
Mark(final) == IF final THEN 0 ELSE BlockMod

\* a pass over the limbs from limb `first' up, then the carry back in at the bottom
Carried(h, first) ==
    LET step(acc, i) ==
            LET t == acc.h[i] + acc.carry IN
            [h |-> [acc.h EXCEPT ![i] = t % MacRadix], carry |-> t \div MacRadix]
        up == FoldLeft(step, [h |-> h, carry |-> 0], [n \in 1 .. MacLimbs + 1 - first |-> n + first - 1])
        low == up.h[1] + 5 * up.carry
    IN  [up.h EXCEPT ![1] = low % MacRadix, ![2] = @ + (low \div MacRadix)]

\* poly1305_blocks, for one block: h + m, times r, partly reduced
Block(st, bytes, final) ==
    LET m   == ToLimbs(LittleEndian(bytes) + Mark(final))
        sum == [i \in 1 .. MacLimbs |-> st.h[i] + m[i]]
        \* 5 is what is worth 2^130
        term(i, j) == IF j <= i THEN sum[j] * st.r[i - j + 1]
                                ELSE sum[j] * 5 * st.r[MacLimbs + i - j + 1]
        product == [i \in 1 .. MacLimbs |->
                       FoldLeft(LAMBDA d, j : d + term(i, j), 0, [j \in 1 .. MacLimbs |-> j])]
    IN  [st EXCEPT !.h = Carried(product, 1)]

Blocks(st, bytes) ==
    FoldLeft(LAMBDA s, n : Block(s, SubSeq(bytes, n * BlockSize - BlockSize + 1, n * BlockSize), FALSE),
             st, [n \in 1 .. Len(bytes) \div BlockSize |-> n])

\* the leftover of the last call is filled up first, then whole blocks are taken
\* from where they are, and the rest is kept
PolyUpdate(st, bytes) ==
    LET want == IF BlockSize - Len(st.buffer) < Len(bytes) THEN BlockSize - Len(st.buffer)
                                                           ELSE Len(bytes)
        head == IF st.buffer = <<>> THEN 0 ELSE want
        full == st.buffer # <<>> /\ Len(st.buffer) + head = BlockSize
        st1  == [st EXCEPT !.buffer = @ \o SubSeq(bytes, 1, head)]
        st2  == IF full THEN [Block(st1, st1.buffer, FALSE) EXCEPT !.buffer = <<>>] ELSE st1
        rest == SubSeq(bytes, head + 1, Len(bytes))
        used == (Len(rest) \div BlockSize) * BlockSize
    IN  IF st.buffer # <<>> /\ ~full THEN st1
        ELSE [Blocks(st2, SubSeq(rest, 1, used)) EXCEPT
                !.buffer = @ \o SubSeq(rest, used + 1, Len(rest))]

\* a one, then zeros
Padded(buffer) ==
    [i \in 1 .. BlockSize |-> IF i <= Len(buffer) THEN buffer[i]
                              ELSE IF i = Len(buffer) + 1 THEN 1 ELSE 0]

\* the last block, if bytes are left, and the full carry
PolyLast(st) ==
    LET last == IF st.buffer = <<>> THEN st ELSE Block(st, Padded(st.buffer), TRUE) IN
    Carried(last.h, 2)

\* h, or h - p unless that is negative; and the pad
PolyFinish(st) ==
    LET h == FromLimbs(PolyLast(st))
        g == h - MacPrime
    IN  (((IF g < 0 THEN h ELSE g) % BlockMod) + st.pad) % BlockMod
=============================================================================
