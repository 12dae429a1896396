--------------------------- MODULE ReplayReceiver ---------------------------
(***************************************************************************)
(* One receiving keypair whose packets arrive lost, duplicated and in any  *)
(* order: every step presents some sequence number to the window of        *)
(* ReplayWindow.  accepted is a history variable, the numbers for which    *)
(* wireguard_check_replay returned true.                                   *)
(***************************************************************************)
EXTENDS ReplayWindow

CONSTANT MaxSeq    \* largest sequence number the sender uses in a session

\* A session is refused after REJECT_AFTER_TIME = 180 s, far too short for the
\* 2^32 packets after which the uint32_t distance would lose its upper half.
ASSUME MaxSeqAssumption == MaxSeq \in Nat /\ MaxSeq < DiffMod

VARIABLES window, accepted

vars == <<window, accepted>>

Seqs == 0 .. MaxSeq

TypeOK ==
    /\ window \in Window
    /\ accepted \subseteq Seqs

Init ==
    /\ window = EmptyWindow
    /\ accepted = {}

Receive(seq) ==
    /\ window' = CheckReplay(window, seq)
    /\ accepted' = IF Accepts(window, seq) THEN accepted \cup {seq} ELSE accepted

Next == \E seq \in Seqs : Receive(seq)

Spec == Init /\ [][Next]_vars

-----------------------------------------------------------------------------
(* Properties *)

\* The window never lets a number through twice: whatever was accepted is
\* refused from then on, however far the window has moved and whatever came
\* in between.
NeverAgain == \A seq \in accepted : ~Accepts(window, seq)

\* The bitmap is exact, so nothing fresh is refused for the wrong reason:
\* a number that was never accepted and is less than WindowSize behind the
\* newest one still gets through.
FreshInWindowAccepted ==
    \A seq \in 1 .. MaxSeq :
        (seq \notin accepted /\ seq + WindowSize > window.counter)
            => Accepts(window, seq)

\* wireguard.c:327 calls the window "32 bits" wide and the documentation
\* advertises a 32-bit bitmap: a fresh number that is less than BitmapBits
\* behind the newest one ought to be accepted.
BitmapWideWindow ==
    \A seq \in 1 .. MaxSeq :
        (seq \notin accepted /\ seq + BitmapBits > window.counter)
            => Accepts(window, seq)
=============================================================================
