-------------------------------- MODULE Blake2s --------------------------------
(***************************************************************************)
(* blake2s.c around its compression function: how input that comes in      *)
(* pieces is cut into blocks, counted, and marked as the last.  The        *)
(* compression function is symbolic: the chaining value is the sequence of *)
(* what it was given.                                                      *)
(***************************************************************************)
EXTENDS Integers, SequencesExt

CONSTANTS
    HashBlock,      \* 64
    CounterMod      \* 2^32: the input is counted in two words

\* a carry shows in that the low word is below what was added
ASSUME Blake2sAssumption ==
    {HashBlock, CounterMod} \subseteq Nat \ {0} /\ HashBlock <= CounterMod

ZeroBlock == [i \in 1 .. HashBlock |-> 0]

Compress(ctx, last) ==
    [ctx EXCEPT !.h = Append(@, [block |-> ctx.b, t0 |-> ctx.t0, t1 |-> ctx.t1, last |-> last])]

\* the counters, with the carry into the high word
Counted(ctx) ==
    LET low == (ctx.t0 + ctx.c) % CounterMod IN
    [ctx EXCEPT !.t0 = low, !.t1 = IF low < ctx.c THEN (@ + 1) % CounterMod ELSE @]

\* A full buffer waits until more input shows that it is not the last block.
Full(ctx) == ctx.c = HashBlock

-----------------------------------------------------------------------------
(* Mutated form of a definition below, a slip the code could make. *)

ByteStoredThenFlushed(ctx, x) ==
    LET put == [ctx EXCEPT !.b[ctx.c + 1] = x, !.c = @ + 1] IN
    IF Full(put) THEN [Compress(Counted(put), FALSE) EXCEPT !.c = 0] ELSE put

-----------------------------------------------------------------------------

Byte(ctx, x) ==
    LET free == IF Full(ctx) THEN [Compress(Counted(ctx), FALSE) EXCEPT !.c = 0] ELSE ctx IN
    [free EXCEPT !.b[free.c + 1] = x, !.c = @ + 1]

Blake2sUpdate(ctx, in) == FoldLeft(Byte, ctx, in)

\* The parameter block stands for the key's length; a key is a block of its own.
\* Of lengths that blake2s.c:83 refuses no caller makes use.
Blake2sInit(outlen, key) ==
    LET new == [h |-> <<[outlen |-> outlen, keylen |-> Len(key)]>>, t0 |-> 0, t1 |-> 0,
                c |-> 0, b |-> ZeroBlock]
    IN  IF key = <<>> THEN new ELSE [Blake2sUpdate(new, key) EXCEPT !.c = HashBlock]

Blake2sFinal(ctx) ==
    LET last == Counted(ctx) IN
    Compress([last EXCEPT !.b = [i \in 1 .. HashBlock |-> IF i <= ctx.c THEN @[i] ELSE 0]], TRUE).h
=============================================================================
