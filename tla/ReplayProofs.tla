---------------------------- MODULE ReplayProofs ----------------------------
(***************************************************************************)
(* Proofs about ReplayReceiver, for every window size, every bitmap width  *)
(* that holds it and every traffic in any order: no sequence number is     *)
(* accepted twice, and nothing fresh inside the window is refused.         *)
(*                                                                         *)
(* Neither property is inductive: both speak of the bits of the window,    *)
(* so the invariant says what each bit means (Exact) and that nothing      *)
(* above the counter was ever accepted (Bounded).                          *)
(***************************************************************************)
EXTENDS ReplayReceiver, TLAPS

\* nothing newer than the counter has been accepted
Bounded == window.counter <= MaxSeq /\ accepted \subseteq 1 .. window.counter

\* bit d is set exactly if sequence number counter - d was accepted
Exact ==
    \A seq \in 1 .. window.counter :
        window.counter - seq < WindowSize
            => (window.counter - seq \in window.bitmap <=> seq \in accepted)

IInv == TypeOK /\ Bounded /\ Exact

LEMMA SmallMod == ASSUME NEW n \in Nat, NEW m \in Nat, n < m PROVE n % m = n
  BY SMT

\* Within one session the uint32_t distance is the true distance.
LEMMA DistanceIsExact ==
    ASSUME NEW w \in Window, NEW seq \in Seqs, w.counter <= MaxSeq
    PROVE  Distance(w, seq) = IF seq > w.counter THEN seq - w.counter ELSE w.counter - seq
  BY SmallMod, MaxSeqAssumption, WindowAssumption DEF Distance, Ahead, Window, Seqs

\* The step that matters: whatever number arrives, the window and the history
\* of acceptances change together.
LEMMA ReceiveStep ==
    ASSUME IInv, NEW seq \in Seqs, Receive(seq)
    PROVE  IInv'
<1>. USE DEF IInv, TypeOK, Seqs, Window
<1>a. /\ window \in Window /\ window.counter \in Nat
      /\ window.bitmap \in SUBSET (0 .. BitmapBits - 1)
      /\ Distance(window, seq) = IF seq > window.counter THEN seq - window.counter
                                                         ELSE window.counter - seq
  BY DistanceIsExact DEF Bounded
<1>b. WindowSize \in Nat \ {0} /\ BitmapBits \in Nat \ {0} /\ WindowSize <= BitmapBits /\ MaxSeq \in Nat
  BY WindowAssumption, MaxSeqAssumption
<1>1. CASE ~Accepts(window, seq)
  <2>1. window' = window /\ accepted' = accepted
    BY <1>1 DEF Receive, CheckReplay
  <2>. QED BY <2>1 DEF Bounded, Exact
<1>2. CASE Accepts(window, seq) /\ seq > window.counter
  <2>. DEFINE d == seq - window.counter
  <2>1. accepted' = accepted \cup {seq} /\ seq >= 1 /\ d \in Nat \ {0}
    BY <1>2, <1>a DEF Receive, Accepts
  <2>2. window' = [counter |-> seq,
                   bitmap  |-> IF d < WindowSize
                               THEN ({b + d : b \in window.bitmap} \cap (0 .. BitmapBits - 1)) \cup {0}
                               ELSE {0}]
    BY <1>2, <1>a DEF Receive, CheckReplay, Slide, Ahead, ShiftLeft
  <2>3. window'.counter = seq /\ window' \in Window
    BY <2>1, <2>2, <1>b
  <2>4. Bounded'
    BY <2>1, <2>3, <1>a DEF Bounded
  <2>5. ASSUME NEW s \in 1 .. seq, seq - s < WindowSize
        PROVE  seq - s \in window'.bitmap <=> s \in accepted'
    <3>1. CASE s = seq
      BY <3>1, <2>1, <2>2
    <3>2. CASE s < seq /\ s > window.counter
      <4>1. s \notin accepted'
        BY <3>2, <2>1 DEF Bounded
      <4>2. seq - s < d /\ seq - s # 0
        BY <3>2, <1>a
      <4>3. \A b \in window.bitmap : b + d # seq - s
        BY <4>2, <1>a, <2>1
      <4>. QED BY <4>1, <4>2, <4>3, <2>2
    <3>3. CASE s <= window.counter
      <4>1. d < WindowSize /\ window.counter - s < WindowSize /\ seq - s = (window.counter - s) + d
        BY <3>3, <2>5, <1>a, <1>b, <2>1
      <4>2. window.counter - s \in window.bitmap <=> s \in accepted
        BY <4>1, <3>3, <1>a DEF Exact
      <4>3. seq - s \in window'.bitmap <=> window.counter - s \in window.bitmap
        <5>1. seq - s \in 0 .. BitmapBits - 1 /\ seq - s # 0
          BY <2>5, <3>3, <1>a, <1>b, <2>1
        <5>2. \A b \in window.bitmap : b + d = seq - s <=> b = window.counter - s
          BY <4>1, <1>a, <2>1
        <5>. QED BY <5>1, <5>2, <4>1, <2>2
      <4>4. s \in accepted' <=> s \in accepted
        BY <2>1, <3>3, <1>2
      <4>. QED BY <4>2, <4>3, <4>4
    <3>. QED BY <3>1, <3>2, <3>3, <1>a
  <2>6. Exact'
    BY <2>3, <2>5 DEF Exact
  <2>7. accepted' \subseteq Seqs
    BY <2>1
  <2>. QED BY <2>3, <2>4, <2>6, <2>7
<1>3. CASE Accepts(window, seq) /\ ~(seq > window.counter)
  <2>. DEFINE d == window.counter - seq
  <2>1. accepted' = accepted \cup {seq} /\ seq >= 1 /\ d \in Nat /\ d < WindowSize
    BY <1>3, <1>a DEF Receive, Accepts, Ahead
  <2>2. window' = [window EXCEPT !.bitmap = @ \cup {d}]
    BY <1>3, <1>a DEF Receive, CheckReplay, Slide, Ahead
  <2>3. window'.counter = window.counter /\ window'.bitmap = window.bitmap \cup {d} /\ window' \in Window
    BY <2>1, <2>2, <1>a, <1>b
  <2>4. Bounded'
    BY <2>1, <2>3, <1>3, <1>a DEF Bounded
  <2>5. ASSUME NEW s \in 1 .. window.counter, window.counter - s < WindowSize
        PROVE  window.counter - s \in window'.bitmap <=> s \in accepted'
    <3>1. window.counter - s = d <=> s = seq
      BY <1>a
    <3>. QED BY <3>1, <2>1, <2>3, <2>5 DEF Exact
  <2>6. Exact'
    BY <2>3, <2>5 DEF Exact
  <2>. QED BY <2>1, <2>3, <2>4, <2>6
<1>. QED BY <1>1, <1>2, <1>3

\* The strengthened invariant holds along every behaviour.
THEOREM Inductive == Spec => []IInv
<1>1. Init => IInv
  BY MaxSeqAssumption DEF Init, IInv, TypeOK, Bounded, Exact, EmptyWindow, Window, Seqs
<1>2. IInv /\ [Next]_vars => IInv'
  <2>. SUFFICES ASSUME IInv, [Next]_vars PROVE IInv'
    OBVIOUS
  <2>1. CASE Next
    BY <2>1, ReceiveStep DEF Next
  <2>2. CASE UNCHANGED vars
    BY <2>2 DEF vars, IInv, TypeOK, Bounded, Exact
  <2>. QED BY <2>1, <2>2
<1>. QED BY <1>1, <1>2, PTL DEF Spec

\* The window and the history stay well formed: the counter is a number the
\* peer sent, the bitmap never grows past its 32 bits.
THEOREM TypeCorrect == Spec => []TypeOK
  BY Inductive, PTL DEF IInv

\* wireguard_check_replay never accepts a sequence number a second time.
THEOREM AtMostOnce == Spec => []NeverAgain
<1>1. IInv => NeverAgain
  <2>. SUFFICES ASSUME IInv, NEW seq \in accepted, Accepts(window, seq) PROVE FALSE
    BY DEF NeverAgain
  <2>1. seq \in Seqs /\ seq \in 1 .. window.counter /\ window \in Window /\ window.counter \in Nat
    BY DEF IInv, TypeOK, Bounded, Window
  <2>2. Distance(window, seq) = window.counter - seq
    BY <2>1, DistanceIsExact DEF IInv, Bounded
  <2>. QED BY <2>1, <2>2 DEF IInv, Exact, Accepts, Ahead
<1>. QED BY <1>1, Inductive, PTL

\* ... and never refuses a fresh one that is inside the window.
THEOREM NothingFreshRefused == Spec => []FreshInWindowAccepted
<1>1. IInv => FreshInWindowAccepted
  <2>. SUFFICES ASSUME IInv, NEW seq \in 1 .. MaxSeq,
                       seq \notin accepted, seq + WindowSize > window.counter
                PROVE  Accepts(window, seq)
    BY DEF FreshInWindowAccepted
  <2>1. seq \in Seqs /\ window \in Window /\ window.counter \in Nat /\ window.counter <= MaxSeq
    BY MaxSeqAssumption DEF IInv, TypeOK, Bounded, Window, Seqs
  <2>2. CASE seq > window.counter
    BY <2>2, <2>1 DEF Accepts, Ahead
  <2>3. CASE ~(seq > window.counter)
    <3>1. Distance(window, seq) = window.counter - seq /\ window.counter - seq < WindowSize
      BY <2>1, <2>3, DistanceIsExact, WindowAssumption
    <3>2. window.counter - seq \notin window.bitmap
      BY <3>1, <2>1, <2>3 DEF IInv, Exact
    <3>. QED BY <3>1, <3>2 DEF Accepts
  <2>. QED BY <2>2, <2>3
<1>. QED BY <1>1, Inductive, PTL
=============================================================================
