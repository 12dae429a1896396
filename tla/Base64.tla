------------------------------- MODULE Base64 -------------------------------
(***************************************************************************)
(* wireguard_base64_decode and wireguard_base64_encode, through which      *)
(* every key enters the library.  A character is the number it stands for, *)
(* 0 to 63, or Pad, or some other character, Bad.                          *)
(*                                                                         *)
(* The decoder reads one character per step, so that TLC looks at every    *)
(* string over a few characters and at every prefix of it.                 *)
(***************************************************************************)
EXTENDS Integers, Sequences, FiniteSets, SequencesExt

CONSTANTS
    Symbols,      \* characters of the alphabet that strings are made of
    Pad, Bad,     \* '=', and a character outside the alphabet
    Sizes,        \* sizes of the caller's output buffer
    MaxLen        \* length of the longest string

ASSUME Base64Assumption ==
    /\ Symbols \subseteq 0 .. 63
    /\ Pad # Bad /\ {Pad, Bad} \cap 0 .. 63 = {}
    /\ Sizes \subseteq Nat /\ MaxLen \in Nat

VARIABLES
    str,      \* the characters read so far
    size,     \* *outlen as the caller sets it
    st        \* the decoder's locals, and what it has written to out

vars == <<str, size, st>>

Start == [accum |-> 0, char_count |-> 0, byte_count |-> 3, out |-> <<>>, result |-> TRUE]

\* the values of at most three characters
Accum == {n \in Nat : n < 64 * 64 * 64}

TypeOK ==
    /\ str \in Seq(Symbols \cup {Pad, Bad})
    /\ size \in Sizes
    /\ st \in [accum : Accum, char_count : 0 .. 3, byte_count : -1 .. 3,
               out : Seq(0 .. 255), result : BOOLEAN]

-----------------------------------------------------------------------------
(* Mutated forms of definitions below, each a slip the code could make. *)

FitsStrictly(s, room) == Len(s.out) + s.byte_count < room

MayPrecedeAnything(s, c) == c # Bad

PaddingOfThree(n) == 3 - (n % 3)

-----------------------------------------------------------------------------
(* Decoding *)

\* a character of the alphabet, and no padding before it
MayPrecede(s, c) == c # Bad /\ s.byte_count = 3

Fits(s, room) == Len(s.out) + s.byte_count <= room

\* the block of four characters is full once this one is in
Completes(s) == s.char_count = 3

\* The block's first byte is written even when padding has left none to write.
Written(s, accum) ==
    LET bytes == <<(accum \div 65536) % 256, (accum \div 256) % 256, accum % 256>>
    IN  SubSeq(bytes, 1, IF s.byte_count = 0 THEN 1 ELSE s.byte_count)

\* one character, padding already counted
Accumulate(s, bits, room) ==
    LET accum == s.accum * 64 + bits IN
    IF ~Completes(s) THEN [s EXCEPT !.accum = accum, !.char_count = @ + 1]
    ELSE IF ~Fits(s, room) THEN [s EXCEPT !.accum = 0, !.char_count = 0, !.result = FALSE]
    ELSE [s EXCEPT !.accum = 0, !.char_count = 0, !.out = @ \o Written(s, accum)]

\* the body of the loop; a result of FALSE ends it
Step(s, c, room) ==
    IF ~s.result THEN s
    ELSE IF c = Pad
    THEN LET padded == [s EXCEPT !.byte_count = @ - 1] IN
         IF padded.byte_count < 0 THEN [padded EXCEPT !.result = FALSE]
                                  ELSE Accumulate(padded, 0, room)
    ELSE IF MayPrecede(s, c) THEN Accumulate(s, c, room)
                             ELSE [s EXCEPT !.result = FALSE]

\* what wireguard_base64_decode returns at the end of the string
Decoded(s) == s.result /\ s.char_count = 0

Init ==
    /\ str = <<>>
    /\ size \in Sizes
    /\ st = Start

Read(c) ==
    /\ st.result
    /\ Len(str) < MaxLen
    /\ str' = Append(str, c)
    /\ st' = Step(st, c, size)
    /\ UNCHANGED size

Next == \E c \in Symbols \cup {Pad, Bad} : Read(c)

Spec == Init /\ [][Next]_vars

-----------------------------------------------------------------------------
(* Encoding *)

Padding(n) == IF n % 3 = 0 THEN 0 ELSE 3 - (n % 3)

\* byte i of the input, or 0 beyond its end
ByteAt(in, i) == IF i <= Len(in) THEN in[i] ELSE 0

EncodedLen(n) == 4 * ((n + 2) \div 3)

\* character i; the last two of a block may be padding
Encode(in) ==
    LET len == EncodedLen(Len(in))
        Block(i) == LET b == 3 * ((i - 1) \div 4) IN
            ByteAt(in, b + 1) * 65536 + ByteAt(in, b + 2) * 256 + ByteAt(in, b + 3)
        Place(i) == (i - 1) % 4
    IN  [i \in 1 .. len |->
            IF Place(i) >= 2 /\ i > len - Padding(Len(in)) THEN Pad
            ELSE (Block(i) \div 64 ^ (3 - Place(i))) % 64]

-----------------------------------------------------------------------------
(* Reference: the text as a string of bits, six to a character *)

Pads(s) == Cardinality({i \in 1 .. Len(s) : s[i] = Pad})

WellFormed(s) ==
    /\ Len(s) % 4 = 0
    /\ Pads(s) <= 2
    /\ \A i \in 1 .. Len(s) : IF i > Len(s) - Pads(s) THEN s[i] = Pad ELSE s[i] \in 0 .. 63

\* bit j of the text, from 0; padding is all zeroes
Bit(s, j) ==
    LET c == s[j \div 6 + 1] IN
    IF c = Pad THEN 0 ELSE (c \div <<32, 16, 8, 4, 2, 1>>[(j % 6) + 1]) % 2

\* byte i of it, from 1
Byte(s, i) ==
    LET bit(k) == Bit(s, 8 * (i - 1) + k) IN
    128 * bit(0) + 64 * bit(1) + 32 * bit(2) + 16 * bit(3)
        + 8 * bit(4) + 4 * bit(5) + 2 * bit(6) + bit(7)

Bytes(s) == [i \in 1 .. (3 * Len(s)) \div 4 - Pads(s) |-> Byte(s, i)]

-----------------------------------------------------------------------------
(* Properties *)

\* Text that is well formed decodes to the bytes it stands for, if and only if
\* they fit into the buffer; a key of exactly the buffer's size fits.
DecodesText ==
    WellFormed(str) =>
        /\ Decoded(st) <=> Len(Bytes(str)) <= size
        /\ Decoded(st) => st.out = Bytes(str)

\* What decodes is well formed, except that a last block with three characters
\* of padding is taken for one byte (wireguard.c:1076 writes it in any case).
RefusesMalformed ==
    Decoded(st) => WellFormed(str) \/ (Pads(str) = 3 /\ Len(str) % 4 = 0)

\* What the decoder has made of a text, the encoder turns into a text that
\* decodes to the same bytes; for text without stray bits, into the same text.
RoundTrip ==
    Decoded(st) =>
        LET again == FoldLeft(LAMBDA s, c : Step(s, c, Len(st.out)), Start, Encode(st.out)) IN
        /\ Decoded(again) /\ again.out = st.out
        /\ WellFormed(str) =>
              \/ Encode(st.out) = str
              \/ \E j \in 8 * Len(st.out) .. 6 * Len(str) - 1 : Bit(str, j) = 1
=============================================================================
