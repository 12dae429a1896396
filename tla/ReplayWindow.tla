---------------------------- MODULE ReplayWindow ----------------------------
(***************************************************************************)
(* The anti-replay window of one keypair, as wireguard_check_replay        *)
(* (src/src/wireguard.c) maintains it: the largest sequence number         *)
(* accepted so far and a bitmap whose bit d stands for sequence number     *)
(* counter - d.  The bitmap is the set of its bit positions.               *)
(*                                                                         *)
(* The module has no variables: ReplayReceiver drives one window with      *)
(* arbitrary traffic, Device keeps one window per keypair.                 *)
(***************************************************************************)
EXTENDS Integers

CONSTANTS
    WindowSize,   \* sizeof(replay_bitmap), which is what the code compares with
    BitmapBits,   \* width of replay_bitmap in bits (uint32_t)
    DiffMod       \* the distance is kept in a uint32_t: it is taken mod 2^32

ASSUME WindowAssumption ==
    /\ WindowSize \in Nat \ {0}
    /\ BitmapBits \in Nat \ {0}
    /\ DiffMod \in Nat \ {0}
    /\ WindowSize <= BitmapBits

Window == [counter : Nat, bitmap : SUBSET (0 .. BitmapBits - 1)]

EmptyWindow == [counter |-> 0, bitmap |-> {}]

\* seq lies beyond everything accepted so far
Ahead(w, seq) == seq > w.counter

\* uint32_t diff: the 64-bit distance loses its upper half
Distance(w, seq) ==
    (IF Ahead(w, seq) THEN seq - w.counter ELSE w.counter - seq) % DiffMod

\* a mutated form of ShiftLeft, for the checks: the bitmap outgrows its width
ShiftLeftUncut(bits, n) == {b + n : b \in bits}

ShiftLeft(bits, n) == {b + n : b \in bits} \cap (0 .. BitmapBits - 1)

-----------------------------------------------------------------------------
(* Mutated forms of the definitions below, each a slip the code could make. *)

AcceptsOffByOne(w, seq) ==
    /\ seq # 0
    /\ \/ Ahead(w, seq)
       \/ /\ Distance(w, seq) <= WindowSize
          /\ Distance(w, seq) \notin w.bitmap

SlideWithoutMark(w, seq) ==
    IF ~Ahead(w, seq) THEN w
    ELSE [counter |-> seq,
          bitmap  |-> IF Distance(w, seq) < WindowSize
                      THEN ShiftLeft(w.bitmap, Distance(w, seq)) \cup {0}
                      ELSE {0}]

SlideKeepsBitmap(w, seq) ==
    IF Ahead(w, seq)
    THEN [counter |-> seq, bitmap |-> w.bitmap \cup {0}]
    ELSE [w EXCEPT !.bitmap = @ \cup {Distance(w, seq)}]
-----------------------------------------------------------------------------

\* the value wireguard_check_replay returns
Accepts(w, seq) ==
    /\ seq # 0
    /\ \/ Ahead(w, seq)
       \/ /\ Distance(w, seq) < WindowSize
          /\ Distance(w, seq) \notin w.bitmap

\* what it does to an accepted number: move the window up, or mark the bit
Slide(w, seq) ==
    IF Ahead(w, seq)
    THEN [counter |-> seq,
          bitmap  |-> IF Distance(w, seq) < WindowSize
                      THEN ShiftLeft(w.bitmap, Distance(w, seq)) \cup {0}
                      ELSE {0}]
    ELSE [w EXCEPT !.bitmap = @ \cup {Distance(w, seq)}]

\* the window after wireguard_check_replay(keypair, seq)
CheckReplay(w, seq) == IF Accepts(w, seq) THEN Slide(w, seq) ELSE w
=============================================================================
