--------------------------------- MODULE X25519 ---------------------------------
(***************************************************************************)
(* x25519.c: scalar multiplication on a Montgomery curve, as the code does *)
(* it: numbers in limbs, sums left partly reduced, the final reduction,    *)
(* the ladder with its delayed swaps, and the chain of multiplications     *)
(* that inverts the denominator.                                           *)
(*                                                                         *)
(* The sizes are parameters.  The code has eight limbs of 32 bits, the     *)
(* prime 2^255 - 19 and a24 = 121665; a smaller instance keeps the shape:  *)
(* the prime lies Excess below the half of what the limbs can hold.        *)
(***************************************************************************)
EXTENDS Integers, SequencesExt

CONSTANTS
    LimbBits, NLimbs,   \* X25519_WBITS, NLIMBS
    Excess,             \* 19
    A24,                \* (A - 2) / 4 for the curve y^2 = x^3 + A x^2 + x
    Steps               \* the inversion chain for this prime

Radix == 2 ^ LimbBits
Bits == LimbBits * NLimbs
P == 2 ^ (Bits - 1) - Excess

\* what is multiplied by Excess in a limb must fit into it
ASSUME X25519Assumption ==
    /\ {LimbBits, NLimbs, Excess, A24} \subseteq Nat \ {0}
    /\ Excess * (4 * Excess + 1) < Radix
    /\ A24 < Radix
    /\ NLimbs >= 2

\* laws of exponents, of which the provers know none
ASSUME PowersAssumption ==
    /\ 2 ^ (LimbBits - 1) \in Nat \ {0} /\ Radix = 2 * 2 ^ (LimbBits - 1)
    /\ Radix ^ 0 = 1
    /\ \A i \in 0 .. 2 * NLimbs : Radix ^ (i + 1) = Radix * Radix ^ i
    /\ 2 ^ (Bits - 1) = 2 ^ (LimbBits - 1) * Radix ^ (NLimbs - 1)

Element == [1 .. NLimbs -> 0 .. Radix - 1]
Limbs(n) == [i \in 1 .. NLimbs |-> (n \div Radix ^ (i - 1)) % Radix]
Value(x) == FoldLeftDomain(LAMBDA sum, i : sum + x[i] * Radix ^ (i - 1), 0, x)

Zero == Limbs(0)
One == Limbs(1)

-----------------------------------------------------------------------------
(* Mutated forms of the definitions below, each a slip the code could make. *)

HighFactorOfPrime == Excess

SwapsWithoutHistory(before, bit) == bit

RaisedByNothing(x) == [limbs |-> x, carry |-> 0]

CodeStepsOnceLess ==
    << [a |-> 2, c |-> 1, n |-> 1],  [a |-> 2, c |-> 1, n |-> 1],  [a |-> 4, c |-> 2, n |-> 3],
       [a |-> 2, c |-> 4, n |-> 6],  [a |-> 3, c |-> 1, n |-> 1],  [a |-> 3, c |-> 2, n |-> 12],
       [a |-> 4, c |-> 3, n |-> 25], [a |-> 2, c |-> 3, n |-> 25], [a |-> 2, c |-> 4, n |-> 50],
       [a |-> 3, c |-> 2, n |-> 124], [a |-> 3, c |-> 1, n |-> 2], [a |-> 3, c |-> 1, n |-> 2],
       [a |-> 3, c |-> 1, n |-> 1] >>

-----------------------------------------------------------------------------
(* Limbs *)

\* A loop over the limbs: a limb of the result is what fits of a term and the
\* carry, and the rest is carried (umaal, adc, adc0; signed in sub and canon).
Ripple(terms, carry) ==
    FoldLeft(LAMBDA acc, t :
                 [limbs |-> Append(acc.limbs, (t + acc.carry) % Radix),
                  carry |-> (t + acc.carry) \div Radix],
             [limbs |-> <<>>, carry |-> carry], terms)

\* over is what lies above the limbs; it and the top bit come back in at the bottom
Propagate(x, over) ==
    LET top  == x[NLimbs]
        back == (top \div 2 ^ (LimbBits - 1) + 2 * over) % Radix
        y    == [x EXCEPT ![NLimbs] = top % 2 ^ (LimbBits - 1)]
    IN  Ripple(y, (back * Excess) % Radix).limbs

FeAdd(a, b) ==
    LET sum == Ripple([i \in 1 .. NLimbs |-> a[i] + b[i]], 0) IN
    Propagate(sum.limbs, sum.carry)

\* a - b + 2p
FeSub(a, b) ==
    LET diff == Ripple([i \in 1 .. NLimbs |-> a[i] - b[i]], -2 * Excess) IN
    Propagate(diff.limbs, (1 + diff.carry) % Radix)

\* 38: what 2^256 is worth
HighFactor == 2 * Excess

\* b may be shorter than an element
FeMul(a, b) ==
    LET row(accum, i) ==
            LET r == Ripple([j \in 1 .. NLimbs |-> b[i] * a[j] + accum[i + j - 1]], 0) IN
            [n \in DOMAIN accum |-> IF n \in i .. i + NLimbs - 1 THEN r.limbs[n - i + 1]
                                    ELSE IF n = i + NLimbs THEN r.carry ELSE accum[n]]
        accum   == FoldLeftDomain(row, [n \in 1 .. 2 * NLimbs |-> 0], b)
        reduced == Ripple([j \in 1 .. NLimbs |-> HighFactor * accum[j + NLimbs] + accum[j]], 0)
    IN  Propagate(reduced.limbs, reduced.carry)

FeSqr(a) == FeMul(a, a)

Raised(x) == Ripple(x, Excess)

\* the least residue, by adding 19, reducing, and taking 19 off again
Canon(x) ==
    LET y == Propagate(Raised(x).limbs, Raised(x).carry) IN
    Ripple(y, -Excess).limbs

-----------------------------------------------------------------------------
(* The ladder *)

\* ladder_part1 and ladder_part2, each register named for what it holds
LadderStep(xs, x1) ==
    LET a  == FeAdd(xs.x2, xs.z2)
        b  == FeSub(xs.x2, xs.z2)
        da == FeMul(a, FeSub(xs.x3, xs.z3))
        cb == FeMul(b, FeAdd(xs.x3, xs.z3))
        aa == FeSqr(a)
        bb == FeSqr(b)
        e  == FeSub(aa, bb)
    IN  [x2 |-> FeMul(aa, FeSub(aa, e)),
         z2 |-> FeMul(e, FeAdd(FeMul(e, <<A24>>), aa)),
         x3 |-> FeSqr(FeAdd(da, cb)),
         z3 |-> FeMul(x1, FeSqr(FeSub(da, cb)))]

CondSwap(swap, xs) ==
    IF swap THEN [x2 |-> xs.x3, z2 |-> xs.z3, x3 |-> xs.x2, z3 |-> xs.z2] ELSE xs

\* the swap due now, when a bit asks for one and the last one was not undone
Swaps(before, bit) == before # bit

\* the lowest three bits and the highest cleared, the second highest set
Clamp(k) == ((k - (k % 8)) % 2 ^ (Bits - 2)) + 2 ^ (Bits - 2)

BitOf(k, i) == (k \div 2 ^ i) % 2 = 1

\* x1 is taken as it comes, above the prime or with its top bit set
LadderStart(x1) ==
    [i |-> Bits, swap |-> FALSE, xs |-> [x2 |-> One, z2 |-> Zero, x3 |-> x1, z3 |-> One]]

\* the loop's body, for the clamped scalar
LadderBit(l, k, x1) ==
    LET bit == BitOf(Clamp(k), l.i - 1) IN
    [i |-> l.i - 1, swap |-> bit, xs |-> LadderStep(CondSwap(Swaps(l.swap, bit), l.xs), x1)]

-----------------------------------------------------------------------------
(* The inversion *)

\* The table of the code: square the previous result n times into register a,
\* then multiply that by register c.
CodeSteps ==
    << [a |-> 2, c |-> 1, n |-> 1],  [a |-> 2, c |-> 1, n |-> 1],  [a |-> 4, c |-> 2, n |-> 3],
       [a |-> 2, c |-> 4, n |-> 6],  [a |-> 3, c |-> 1, n |-> 1],  [a |-> 3, c |-> 2, n |-> 12],
       [a |-> 4, c |-> 3, n |-> 25], [a |-> 2, c |-> 3, n |-> 25], [a |-> 2, c |-> 4, n |-> 50],
       [a |-> 3, c |-> 2, n |-> 125], [a |-> 3, c |-> 1, n |-> 2], [a |-> 3, c |-> 1, n |-> 2],
       [a |-> 3, c |-> 1, n |-> 1] >>

\* register 1 holds what is to be inverted
ChainStart(steps, z) == [row |-> 1, left |-> steps[1].n, prev |-> 1, xs |-> [r \in 1 .. 4 |-> z]]

ChainDone(steps, chain) == chain.row > Len(steps)

\* the value squared by the next turn, and the factors of a row's product
ChainBase(chain) == chain.xs[chain.prev]
ChainFactors(steps, chain) ==
    LET s == steps[chain.row] IN <<chain.xs[s.c], chain.xs[s.a]>>

\* a turn of the inner loop, or the product that ends a row
ChainTurn(steps, chain, squared, product) ==
    LET a == steps[chain.row].a IN
    IF chain.left > 0
    THEN [chain EXCEPT !.left = @ - 1, !.prev = a, !.xs[a] = squared]
    ELSE [chain EXCEPT !.row = @ + 1, !.xs[a] = product,
                       !.left = IF chain.row < Len(steps) THEN steps[chain.row + 1].n ELSE 0]

FeChainTurn(chain) ==
    LET f == ChainFactors(Steps, chain) IN
    ChainTurn(Steps, chain, FeSqr(ChainBase(chain)), FeMul(f[1], f[2]))

\* the quotient, in register 3 the inverse; the return value tells a zero result
Quotient(x2, chain) ==
    LET out == Canon(FeMul(chain.xs[3], x2)) IN [out |-> out, failed |-> out = Zero]
=============================================================================
