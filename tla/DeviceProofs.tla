---------------------------- MODULE DeviceProofs ----------------------------
(***************************************************************************)
(* Proofs about Device for all values of its constants.                    *)
(***************************************************************************)
EXTENDS Device, TLAPS

KeyTable == [Slots -> Keypair]

-----------------------------------------------------------------------------
(* Types of the operators *)

LEMMA Remainder == ASSUME NEW n \in Int, NEW d \in Nat \ {0} PROVE n % d \in 0 .. d - 1
  OBVIOUS

LEMMA NowType == ASSUME TypeOK PROVE Now \in Millis
<1>1. ClockMod \in Nat \ {0} /\ Boot \in Nat /\ time \in Nat
  BY PeerAssumption, DeviceAssumption DEF TypeOK, Millis
<1>2. (Boot + time) % ClockMod \in 0 .. ClockMod - 1
  BY <1>1, Remainder
<1>. QED BY <1>2 DEF Now, Millis

LEMMA ConstantTypes ==
    /\ NoKeypair \in Keypair /\ NoKeys \in KeyTable
    /\ NoHandshake \in Handshake /\ NoPeer \in Peer
    /\ 0 \in Millis /\ EmptyWindow \in Window
<1>1. 0 \in Millis
  BY PeerAssumption DEF Millis
<1>2. EmptyWindow \in Window
  BY DEF EmptyWindow, Window
<1>3. NoKeypair \in Keypair
  BY <1>1, <1>2 DEF NoKeypair, Keypair
<1>4. NoKeys \in KeyTable
  BY <1>3 DEF NoKeys, KeyTable
<1>5. NoHandshake \in Handshake
  BY DEF NoHandshake, Handshake
<1>6. NoPeer \in Peer
  BY <1>1 DEF NoPeer, Peer
<1>. QED BY <1>1, <1>2, <1>3, <1>4, <1>5, <1>6

LEMMA CheckReplayType ==
    ASSUME NEW w \in Window, NEW c \in Nat PROVE CheckReplay(w, c) \in Window
<1>1. CASE ~Accepts(w, c)
  BY <1>1 DEF CheckReplay
<1>2. CASE Accepts(w, c) /\ Ahead(w, c)
  <2>1. ShiftLeft(w.bitmap, Distance(w, c)) \cup {0} \in SUBSET (0 .. BitmapBits - 1)
    BY WindowAssumption DEF ShiftLeft
  <2>. QED BY <1>2, <2>1, WindowAssumption DEF CheckReplay, Slide, Window
<1>3. CASE Accepts(w, c) /\ ~Ahead(w, c)
  <2>1. Distance(w, c) \in 0 .. BitmapBits - 1
    <3>1. w.counter \in Nat
      BY DEF Window
    <3>2. Distance(w, c) \in Nat
      BY <3>1, <1>3, WindowAssumption DEF Distance, Ahead
    <3>. QED BY <3>2, <1>3, WindowAssumption DEF Accepts, Ahead
  <2>. QED BY <1>3, <2>1 DEF CheckReplay, Slide, Window
<1>. QED BY <1>1, <1>2, <1>3

\* slot s of k sealed a packet
Counted(k, s, out) ==
    /\ CanSend(k[s])
    /\ out.keys = [k EXCEPT ![s].sending_counter = @ + 1]
    /\ out.nonce = {<<k[s].key, k[s].sending_counter>>}

\* The ways a call of wireguardif_output_to_peer can end.
LEMMA OutputCases ==
    ASSUME NEW k \in KeyTable, NEW p \in Peer, NEW m \in Millis,
           NEW out \in OutputToPeer(k, p, m)
    PROVE  /\ SendingSlot(k) \in {"curr", "prev"}
           /\ out.peer \in Peer /\ out.peer.valid = p.valid
           /\ \/ out.keys = k /\ out.nonce = {}
              \/ out.keys = [k EXCEPT ![SendingSlot(k)] = NoKeypair] /\ out.nonce = {}
              \/ Counted(k, SendingSlot(k), out)
<1>. DEFINE s == SendingSlot(k)
<1>1. s \in {"curr", "prev"}
  BY DEF SendingSlot
<1>2. CASE out = Unsent(k, p)
  BY <1>1, <1>2 DEF Unsent
<1>3. CASE out = Unsent([k EXCEPT ![s] = NoKeypair], p)
  BY <1>1, <1>3 DEF Unsent
<1>4. ASSUME CanSend(k[s]), NEW sent \in BOOLEAN, out = Sealed(k, s, p, m, sent)
      PROVE  out.peer \in Peer /\ out.peer.valid = p.valid /\ Counted(k, s, out)
  <2>1. (p.send_handshake \/ WantsRekey(k[s], m)) \in BOOLEAN
    BY DEF WantsRekey, Expired
  <2>. QED BY <1>4, <2>1 DEF Sealed, Peer, Counted
<1>5. \/ out = Unsent(k, p)
      \/ out = Unsent([k EXCEPT ![s] = NoKeypair], p)
      \/ CanSend(k[s]) /\ \E sent \in BOOLEAN : out = Sealed(k, s, p, m, sent)
  <2>1. CASE ~CanSend(k[s])
    BY <2>1 DEF OutputToPeer
  <2>2. CASE CanSend(k[s]) /\ Stale(k[s], m)
    BY <2>2 DEF OutputToPeer
  <2>3. CASE CanSend(k[s]) /\ ~Stale(k[s], m)
    <3>. DEFINE Out(room, sent) == IF room THEN Sealed(k, s, p, m, sent) ELSE Unsent(k, p)
    <3>0. out \in {Out(room, sent) : room \in Results("pbuf_alloc"), sent \in Results("udp_sendto")}
      BY <2>3 DEF OutputToPeer
    <3>1. PICK room \in Results("pbuf_alloc"), sent \in Results("udp_sendto") :
             out = IF room THEN Sealed(k, s, p, m, sent) ELSE Unsent(k, p)
      BY <3>0
    <3>2. sent \in BOOLEAN
      BY Zenon DEF Results
    <3>. QED BY <2>3, <3>1, <3>2, Zenon
  <2>. QED BY <2>1, <2>2, <2>3, Zenon
<1>. QED BY <1>1, <1>2, <1>3, <1>4, <1>5

LEMMA OutputType ==
    ASSUME NEW k \in KeyTable, NEW p \in Peer, NEW m \in Millis,
           NEW out \in OutputToPeer(k, p, m)
    PROVE  out.keys \in KeyTable /\ out.peer \in Peer /\ out.nonce \subseteq Nat \X Nat
<1>. DEFINE s == SendingSlot(k)
<1>1. s \in Slots /\ k[s] \in Keypair /\ out.peer \in Peer
  BY OutputCases DEF Slots, KeyTable
<1>2. k[s].key \in Nat /\ k[s].sending_counter \in Nat
  BY <1>1 DEF Keypair
<1>3. [k EXCEPT ![s] = NoKeypair] \in KeyTable
  BY <1>1, ConstantTypes DEF KeyTable
<1>4. [k EXCEPT ![s].sending_counter = @ + 1] \in KeyTable
  <2>1. [k[s] EXCEPT !.sending_counter = @ + 1] \in Keypair
    BY <1>1, <1>2 DEF Keypair
  <2>. QED BY <1>1, <2>1 DEF KeyTable
<1>5. \/ out.keys = k /\ out.nonce = {}
      \/ out.keys = [k EXCEPT ![s] = NoKeypair] /\ out.nonce = {}
      \/ Counted(k, s, out)
  BY OutputCases
<1>6. {<<k[s].key, k[s].sending_counter>>} \subseteq Nat \X Nat
  BY <1>2
<1>. HIDE DEF s
<1>. QED BY <1>1, <1>3, <1>4, <1>5, <1>6 DEF Counted

LEMMA UpdateType ==
    ASSUME NEW k \in KeyTable, NEW s \in Slots PROVE KeypairUpdate(k, s) \in KeyTable
  BY ConstantTypes DEF KeypairUpdate, KeyTable, Slots

LEMMA AddNewType ==
    ASSUME NEW k \in KeyTable, NEW new \in Keypair PROVE AddNewKeypair(k, new) \in KeyTable
  BY ConstantTypes DEF AddNewKeypair, KeyTable, Slots

LEMMA NewKeypairType ==
    ASSUME NEW b \in BOOLEAN, NEW e \in Nat, NEW i \in LocalIndex \cup {NoIndex}, NEW m \in Millis
    PROVE  NewKeypair(b, e, i, m) \in Keypair
  BY ConstantTypes DEF NewKeypair, Keypair

-----------------------------------------------------------------------------
(* Type correctness *)

LEMMA NewPeerType ==
    ASSUME NEW a \in Address \cup {AnyAddr} PROVE NewPeer(a) \in Peer /\ NewPeer(a).valid
  BY ConstantTypes DEF NewPeer, NoPeer, Peer

LEMMA InitType == Init => TypeOK
<1>. SUFFICES ASSUME Init PROVE TypeOK
  OBVIOUS
<1>1. peer \in Peer
  BY NewPeerType DEF Init
<1>2. keys \in [Slots -> Keypair] /\ hs \in Handshake
  BY ConstantTypes DEF Init, KeyTable
<1>3. MaxTimerLag \in Nat /\ MaxEph \in Nat
  BY DeviceAssumption
<1>4. time \in Nat /\ due \in 0 .. MaxTimerLag /\ fresh \in 0 .. MaxEph /\ quiet \in 0 .. MaxEph + 1
  BY <1>3 DEF Init
<1>. QED BY <1>1, <1>2, <1>4 DEF Init, TypeOK

LEMMA TypeOutput == ASSUME TypeOK, Output PROVE TypeOK'
<1>1. PICK out \in OutputToPeer(keys, peer, Now) :
         keys' = out.keys /\ peer' = out.peer /\ sealed' = sealed \cup out.nonce
  BY DEF Output
<1>2. out.keys \in KeyTable /\ out.peer \in Peer /\ out.nonce \subseteq Nat \X Nat
  BY <1>1, OutputType, NowType DEF TypeOK, KeyTable
<1>. QED BY <1>1, <1>2 DEF Output, TypeOK, KeyTable, Packets

LEMMA TypeRxInitiation ==
    ASSUME TypeOK, NEW ts \in 1 .. MaxTs, NEW a \in Address, RxInitiation(ts, a)
    PROVE  TypeOK'
<1>1. PICK i \in FreshIndices(keys, hs) :
         keys' = AddNewKeypair(keys, NewKeypair(FALSE, fresh + 1, i, Now))
  BY DEF RxInitiation, Responded
<1>2. i \in LocalIndex /\ fresh + 1 \in Nat /\ fresh + 1 \in 1 .. MaxEph
  BY <1>1, DeviceAssumption DEF FreshIndices, RxInitiation, TypeOK
<1>3. keys' \in KeyTable
  BY <1>1, <1>2, NowType, NewKeypairType, AddNewType DEF TypeOK, KeyTable
<1>4. peer' \in Peer
  <2>1. ts \in Nat
    BY DeviceAssumption
  <2>. QED BY <2>1, NowType DEF RxInitiation, TypeOK, Peer
<1>5. offered' \subseteq 1 .. MaxEph /\ fresh' \in 0 .. MaxEph /\ answered' \subseteq 1 .. MaxTs
  BY <1>2 DEF RxInitiation, TypeOK
<1>6. hs' \in Handshake /\ quiet' \in 0 .. MaxEph + 1
  BY ConstantTypes, DeviceAssumption DEF RxInitiation
<1>. QED BY <1>3, <1>4, <1>5, <1>6 DEF RxInitiation, TypeOK, KeyTable, Packets

LEMMA TypeRxResponse ==
    ASSUME TypeOK, NEW e \in 1 .. fresh, NEW a \in Address, RxResponse(e, a)
    PROVE  TypeOK'
<1>. DEFINE p == [peer EXCEPT !.ip = a]
            k == AddNewKeypair(keys, NewKeypair(TRUE, e, hs.local_index, Now))
<1>1. p \in Peer
  BY DEF TypeOK, Peer
<1>2. k \in KeyTable
  <2>1. e \in Nat /\ hs.local_index \in LocalIndex \cup {NoIndex} /\ keys \in KeyTable
    BY DEF TypeOK, Handshake, KeyTable
  <2>2. NewKeypair(TRUE, e, hs.local_index, Now) \in Keypair
    BY <2>1, NowType, NewKeypairType
  <2>. QED BY <2>1, <2>2, AddNewType
<1>3. PICK out \in OutputToPeer(k, p, Now) :
         keys' = out.keys /\ peer' = out.peer /\ sealed' = sealed \cup out.nonce
  BY DEF RxResponse
<1>4. out.keys \in KeyTable /\ out.peer \in Peer /\ out.nonce \subseteq Nat \X Nat
  BY <1>1, <1>2, OutputType, NowType
<1>5. confirmed' \subseteq 1 .. MaxEph
  BY DeviceAssumption DEF RxResponse, TypeOK
<1>. QED BY <1>3, <1>4, <1>5, ConstantTypes DEF RxResponse, TypeOK, KeyTable, Packets

LEMMA TypeRxCookie ==
    ASSUME TypeOK, NEW e \in 1 .. fresh, NEW a \in Address, RxCookie(e, a)
    PROVE  TypeOK'
<1>1. peer' \in Peer
  BY DEF RxCookie, TypeOK, Peer
<1>. QED BY <1>1 DEF RxCookie, TypeOK, history, Packets

LEMMA TypeRxData ==
    ASSUME TypeOK, NEW i \in LocalIndex, NEW e \in 0 .. fresh, NEW c \in 0 .. MaxRxCtr,
           NEW a \in Address, RxData(i, e, c, a)
    PROVE  TypeOK'
<1>1. PICK s \in KeypairForIdx(keys, i) :
         \/ /\ keys' = [keys EXCEPT ![s] = NoKeypair]
            /\ UNCHANGED <<peer, linkUp, confirmed, promoted, delivered, again>>
         \/ e \in offered /\ Authentic(s, e, c, a)
  BY DEF RxData
<1>2. s \in Slots
  BY <1>1 DEF KeypairForIdx, Slots
<1>3. UNCHANGED <<hs, time, due, fresh, offered, sealed, answered, closed, quiet>>
  BY DEF RxData
<1>4. CASE keys' = [keys EXCEPT ![s] = NoKeypair]
           /\ UNCHANGED <<peer, linkUp, confirmed, promoted, delivered, again>>
  <2>1. keys' \in KeyTable
    BY <1>2, <1>4, ConstantTypes DEF TypeOK, KeyTable
  <2>. QED BY <1>3, <1>4, <2>1 DEF TypeOK, KeyTable, Packets
<1>5. CASE e \in offered /\ Authentic(s, e, c, a)
  <2>. DEFINE heard   == [keys EXCEPT ![s].last_rx = Now]
              shifted == KeypairUpdate(heard, s)
  <2>1. heard \in KeyTable
    <3>1. [keys[s] EXCEPT !.last_rx = Now] \in Keypair
      BY <1>2, NowType DEF TypeOK, Keypair
    <3>. QED BY <1>2, <3>1 DEF TypeOK, KeyTable
  <2>2. shifted \in KeyTable
    BY <1>2, <2>1, UpdateType
  <2>3. [shifted EXCEPT ![s].replay = CheckReplay(@, c)] \in KeyTable
    <3>1. shifted[s] \in Keypair /\ shifted[s].replay \in Window
      BY <1>2, <2>2 DEF KeyTable, Keypair
    <3>2. CheckReplay(shifted[s].replay, c) \in Window
      BY <3>1, CheckReplayType
    <3>. HIDE DEF shifted
    <3>3. [shifted[s] EXCEPT !.replay = CheckReplay(@, c)] \in Keypair
      BY <3>1, <3>2 DEF Keypair
    <3>. QED BY <1>2, <2>2, <3>3 DEF KeyTable
  <2>4. keys' \in KeyTable
    BY <1>5, <2>2, <2>3 DEF Authentic
  <2>5. peer' \in Peer
    <3>1. \A r : (peer.send_handshake \/ (shifted[s].initiator /\ r)) \in BOOLEAN
      OBVIOUS
    <3>. QED BY <1>5, <3>1 DEF Authentic, TypeOK, Peer
  <2>6. <<e, c>> \in Packets /\ e \in 1 .. MaxEph
    BY <1>5 DEF TypeOK, Packets
  <2>7. confirmed' \subseteq 1 .. MaxEph /\ linkUp' \in BOOLEAN
    BY <1>5, <2>6 DEF Authentic, TypeOK
  <2>8. promoted' \subseteq Packets /\ delivered' \subseteq Packets /\ again' \subseteq Packets
    BY <1>5, <2>6 DEF Authentic, TypeOK
  <2>. QED BY <1>3, <2>4, <2>5, <2>7, <2>8 DEF TypeOK, KeyTable, Packets
<1>. QED BY <1>1, <1>4, <1>5

LEMMA InitiatedType ==
    ASSUME TypeOK, fresh < MaxEph, NEW k \in KeyTable, NEW h \in Handshake, NEW p \in Peer,
           NEW m \in Millis, NEW ini \in Initiated(k, h, p, m)
    PROVE  /\ ini.hs \in Handshake /\ ini.peer \in Peer
           /\ ini.hs.key = fresh + 1 /\ ini.hs.valid
           /\ ini.hs.local_index \in FreshIndices(k, h)
           /\ ini.peer.valid = p.valid
           /\ ini.drawn = 1 /\ ini.offers \subseteq {fresh + 1}
<1>1. PICK i \in FreshIndices(k, h), room \in Results("pbuf_alloc") :
         ini = [hs     |-> [valid |-> TRUE, key |-> fresh + 1, local_index |-> i],
                peer   |-> IF room THEN [p EXCEPT !.send_handshake = FALSE,
                                                  !.last_initiation_tx = m, !.mac1 = fresh + 1]
                                   ELSE p,
                drawn  |-> 1,
                offers |-> IF room THEN {fresh + 1} ELSE {}]
  BY DEF Initiated, Initiation
<1>2. fresh + 1 \in Nat /\ i \in LocalIndex
  BY DEF TypeOK, FreshIndices
<1>3. [p EXCEPT !.send_handshake = FALSE, !.last_initiation_tx = m, !.mac1 = fresh + 1] \in Peer
  BY <1>2 DEF Peer
<1>4. [valid |-> TRUE, key |-> fresh + 1, local_index |-> i] \in Handshake
  BY <1>2 DEF Handshake
<1>5. [p EXCEPT !.send_handshake = FALSE, !.last_initiation_tx = m, !.mac1 = fresh + 1].valid = p.valid
  BY DEF Peer
<1>. QED BY <1>1, <1>3, <1>4, <1>5

Pruned == {keys, NoKeys, [keys EXCEPT !["curr"] = NoKeypair], 
           [NoKeys EXCEPT !["curr"] = NoKeypair]}
Reverted == {peer, [peer EXCEPT !.ip = peer.connect_ip]}

TimerLeaves(out, h) ==
    /\ keys' = out.keys
    /\ sealed' = sealed \cup out.nonce
    /\ linkUp' = (linkUp /\ PeerIsUp(out.keys))
    /\ \/ hs' = h /\ peer' = out.peer /\ fresh' = fresh /\ offered' = offered
       \/ /\ fresh < MaxEph
          /\ \E ini \in Initiated(out.keys, h, out.peer, Now) :
                /\ hs' = ini.hs /\ peer' = ini.peer
                /\ fresh' = fresh + ini.drawn
                /\ offered' = offered \cup ini.offers

\* What a run of the timer amounts to: possibly all slots or the current one
\* wiped, then possibly a keepalive, then possibly an initiation.
LEMMA TimerCases ==
    ASSUME TypeOK, Timer
    PROVE  \E k \in Pruned, h \in {hs, NoHandshake}, p \in Reverted :
           \E out \in OutputToPeer(k, p, Now) \cup {Unsent(k, p)} : TimerLeaves(out, h)
<1>. DEFINE m     == Now
            reset == ShouldReset(keys, m)
            k1    == IF reset THEN NoKeys ELSE keys
            h1    == IF reset THEN NoHandshake ELSE hs
            p1    == IF reset THEN [peer EXCEPT !.ip = peer.connect_ip] ELSE peer
            k2    == IF ShouldDestroyCurrent(k1, m) THEN [k1 EXCEPT !["curr"] = NoKeypair] ELSE k1
            alive == IF ShouldSendKeepalive(k2, p1, m) THEN OutputToPeer(k2, p1, m)
                                                       ELSE {Unsent(k2, p1)}
<1>1. PICK out \in alive :
          LET initiate == ShouldSendInitiation(out.keys, out.peer, m) IN
          /\ initiate => fresh < MaxEph
          /\ \E ini \in IF initiate THEN Initiated(out.keys, h1, out.peer, m)
                        ELSE {[hs |-> h1, peer |-> out.peer, drawn |-> 0, offers |-> {}]} :
                /\ hs' = ini.hs
                /\ peer' = ini.peer
                /\ fresh' = fresh + ini.drawn
                /\ offered' = offered \cup ini.offers
          /\ keys' = out.keys
          /\ sealed' = sealed \cup out.nonce
          /\ linkUp' = (linkUp /\ PeerIsUp(out.keys))
  BY Zenon DEF Timer
<1>2. k2 \in Pruned
  BY DEF Pruned
<1>3. h1 \in {hs, NoHandshake} /\ p1 \in Reverted
  BY DEF Reverted
<1>4. out \in OutputToPeer(k2, p1, m) \cup {Unsent(k2, p1)}
  OBVIOUS
<1>5. CASE ShouldSendInitiation(out.keys, out.peer, m)
  <2>1. /\ fresh < MaxEph
        /\ \E ini \in Initiated(out.keys, h1, out.peer, m) :
              /\ hs' = ini.hs /\ peer' = ini.peer
              /\ fresh' = fresh + ini.drawn
              /\ offered' = offered \cup ini.offers
    BY <1>1, <1>5, Zenon
  <2>. HIDE DEF k2, h1, p1, alive
  <2>. QED BY <1>1, <1>2, <1>3, <1>4, <2>1, Zenon DEF TimerLeaves
<1>6. CASE ~ShouldSendInitiation(out.keys, out.peer, m)
  <2>1. hs' = h1 /\ peer' = out.peer /\ fresh' = fresh + 0 /\ offered' = offered \cup {}
    BY <1>1, <1>6
  <2>2. fresh' = fresh /\ offered' = offered
    BY <2>1 DEF TypeOK
  <2>. HIDE DEF k2, h1, p1, alive
  <2>. QED BY <1>1, <1>2, <1>3, <1>4, <2>1, <2>2, Zenon DEF TimerLeaves
<1>. QED BY <1>5, <1>6

LEMMA TypeTimer == ASSUME TypeOK, Timer PROVE TypeOK'
<1>0. PICK k \in Pruned, h \in {hs, NoHandshake}, p \in Reverted :
         \E out \in OutputToPeer(k, p, Now) \cup {Unsent(k, p)} : TimerLeaves(out, h)
  BY TimerCases
<1>1. PICK out \in OutputToPeer(k, p, Now) \cup {Unsent(k, p)} : TimerLeaves(out, h)
  BY <1>0
<1>2. k \in KeyTable /\ h \in Handshake /\ p \in Peer
  <2>1. \A t \in KeyTable : [t EXCEPT !["curr"] = NoKeypair] \in KeyTable
    BY ConstantTypes DEF KeyTable, Slots
  <2>2. [peer EXCEPT !.ip = peer.connect_ip] \in Peer
    BY DEF TypeOK, Peer
  <2>. QED BY <1>0, <2>1, <2>2, ConstantTypes DEF Pruned, Reverted, TypeOK, KeyTable
<1>3. out.keys \in KeyTable /\ out.peer \in Peer /\ out.nonce \subseteq Nat \X Nat
  <2>1. CASE out \in OutputToPeer(k, p, Now)
    BY <1>2, <2>1, OutputType, NowType
  <2>2. CASE out = Unsent(k, p)
    BY <1>2, <2>2 DEF Unsent
  <2>. QED BY <2>1, <2>2
<1>4. hs' \in Handshake /\ peer' \in Peer /\ fresh' \in 0 .. MaxEph /\ offered' \subseteq 1 .. MaxEph
  <2>1. CASE hs' = h /\ peer' = out.peer /\ fresh' = fresh /\ offered' = offered
    BY <2>1, <1>2, <1>3 DEF TypeOK
  <2>2. ASSUME fresh < MaxEph, NEW ini \in Initiated(out.keys, h, out.peer, Now),
               hs' = ini.hs, peer' = ini.peer, fresh' = fresh + ini.drawn,
               offered' = offered \cup ini.offers
        PROVE  hs' \in Handshake /\ peer' \in Peer /\ fresh' \in 0 .. MaxEph /\ offered' \subseteq 1 .. MaxEph
    <3>1. /\ ini.hs \in Handshake /\ ini.peer \in Peer
          /\ ini.drawn = 1 /\ ini.offers \subseteq {fresh + 1}
      BY <2>2, <1>2, <1>3, InitiatedType, NowType
    <3>2. fresh + 1 \in 1 .. MaxEph
      BY <2>2, DeviceAssumption DEF TypeOK
    <3>3. fresh' \in 0 .. MaxEph
      BY <2>2, <3>1, <3>2
    <3>4. offered' \subseteq 1 .. MaxEph
      BY <2>2, <3>1, <3>2 DEF TypeOK
    <3>. QED BY <2>2, <3>1, <3>3, <3>4
  <2>. QED BY <1>1, <2>1, <2>2 DEF TimerLeaves
<1>5. linkUp' \in BOOLEAN
  BY <1>1 DEF PeerIsUp, TimerLeaves
<1>6. due' \in 0 .. MaxTimerLag
  BY DeviceAssumption DEF Timer
<1>7. UNCHANGED <<time, confirmed, promoted, delivered, again, answered, closed, quiet>>
  BY DEF Timer
<1>. QED BY <1>1, <1>3, <1>4, <1>5, <1>6, <1>7 DEF TimerLeaves, TypeOK, KeyTable, Packets

LEMMA TypeCalls ==
    ASSUME TypeOK, \/ Connect \/ Disconnect \/ RemovePeer
                   \/ \E a \in Address \cup {AnyAddr} : AddPeer(a) \/ UpdateEndpoint(a)
    PROVE  TypeOK'
<1>1. LiveSessions \subseteq Nat
  BY DEF LiveSessions, TypeOK, Keypair
<1>2. CASE Connect
  <2>1. peer' \in Peer
    BY <1>2 DEF Connect, TypeOK, Peer
  <2>2. quiet' \in 0 .. MaxEph + 1
    BY <1>2, DeviceAssumption DEF Connect
  <2>. QED BY <1>2, <2>1, <2>2 DEF Connect, TypeOK, Packets
<1>3. CASE Disconnect
  <2>1. peer' \in Peer
    BY <1>3 DEF Disconnect, TypeOK, Peer
  <2>2. quiet' \in 0 .. MaxEph + 1
    BY <1>3, DeviceAssumption DEF Disconnect, TypeOK
  <2>3. keys' \in KeyTable /\ closed' \subseteq Nat
    BY <1>1, <1>3, ConstantTypes DEF Disconnect, TypeOK
  <2>. QED BY <1>3, <2>1, <2>2, <2>3 DEF Disconnect, TypeOK, KeyTable, Packets
<1>4. CASE RemovePeer
  <2>1. /\ keys' \in KeyTable /\ hs' \in Handshake /\ peer' \in Peer
        /\ closed' \subseteq Nat /\ answered' \subseteq 1 .. MaxTs
    BY <1>1, <1>4, ConstantTypes DEF RemovePeer, TypeOK
  <2>2. quiet' \in 0 .. MaxEph + 1
    BY <1>4, DeviceAssumption DEF RemovePeer
  <2>. QED BY <1>4, <2>1, <2>2 DEF RemovePeer, TypeOK, KeyTable, Packets
<1>5. ASSUME NEW a \in Address \cup {AnyAddr}, AddPeer(a) PROVE TypeOK'
  BY <1>5, NewPeerType DEF AddPeer, TypeOK, history, Packets
<1>6. ASSUME NEW a \in Address \cup {AnyAddr}, UpdateEndpoint(a) PROVE TypeOK'
  <2>1. peer' \in Peer
    BY <1>6 DEF UpdateEndpoint, TypeOK, Peer
  <2>. QED BY <1>6, <2>1 DEF UpdateEndpoint, TypeOK, history, Packets
<1>. QED BY <1>2, <1>3, <1>4, <1>5, <1>6

LEMMA TypeClock == ASSUME TypeOK, Tick \/ TimerNoPeer \/ UNCHANGED vars PROVE TypeOK'
<1>1. CASE Tick
  <2>1. time' \in Nat /\ due' \in 0 .. MaxTimerLag
    BY <1>1, DeviceAssumption DEF Tick, TypeOK
  <2>. QED BY <1>1, <2>1 DEF Tick, TypeOK, history, Packets
<1>2. CASE TimerNoPeer
  <2>1. due' \in 0 .. MaxTimerLag
    BY <1>2, DeviceAssumption DEF TimerNoPeer
  <2>. QED BY <1>2, <2>1 DEF TimerNoPeer, TypeOK, history, Packets
<1>3. CASE UNCHANGED vars
  BY <1>3 DEF vars, TypeOK, history, Packets
<1>. QED BY <1>1, <1>2, <1>3

LEMMA TypeStep == ASSUME TypeOK, [Next]_vars PROVE TypeOK'
<1>1. CASE Receive
  BY <1>1, TypeRxInitiation, TypeRxResponse, TypeRxCookie, TypeRxData DEF Receive
<1>2. CASE Application
  BY <1>2, TypeOutput, TypeCalls DEF Application
<1>. QED BY <1>1, <1>2, TypeTimer, TypeClock DEF Next

\* Every field of the peer keeps its type, in every slot and along every path:
\* in particular what the handlers copy between slots is always a keypair.
THEOREM TypeCorrect == Spec => []TypeOK
  BY InitType, TypeStep, PTL DEF Spec

-----------------------------------------------------------------------------
(* The invariant behind the safety properties.  NonceFresh alone is not      *)
(* inductive: copying a slot over another keeps it only because the copied   *)
(* slot is wiped or overwritten, so no session is ever in two slots; and a   *)
(* response starts a session at counter 0 safely only because the pending    *)
(* key has sealed nothing.  k, h, fr, sl and cf stand for keys, hs, fresh,   *)
(* sealed and confirmed, in the middle of a handler as well as at its end.   *)

\* sessions are numbered by ephemeral keys this end has drawn
Drawn(k, h, fr, sl) ==
    /\ \A s \in Slots : k[s].valid => k[s].key \in 1 .. fr
    /\ h.valid => h.key \in 1 .. fr
    /\ \A n \in sl : n[1] <= fr

\* from prev to next the sessions get younger, and the pending one is youngest
Ordered(k, h) ==
    /\ k["prev"].valid /\ k["curr"].valid => k["prev"].key < k["curr"].key
    /\ k["curr"].valid /\ k["next"].valid => k["curr"].key < k["next"].key
    /\ ~(k["prev"].valid /\ k["next"].valid)
    /\ h.valid => \A s \in Slots : k[s].valid => k[s].key < h.key

\* nonces lie behind the counter of their session; the pending one has none
Behind(k, h, sl) ==
    /\ \A s \in Slots, n \in sl :
          k[s].valid /\ n[1] = k[s].key => n[2] < k[s].sending_counter
    /\ h.valid => \A n \in sl : n[1] # h.key

\* who may send has confirmed, and so has who did
Proven(k, sl, cf) ==
    /\ \A s \in Slots : CanSend(k[s]) => k[s].key \in cf
    /\ \A n \in sl : n[1] \in cf

\* an index resolves to one session
Indexed(k, h) ==
    /\ \A s, t \in Slots :
          k[s].valid /\ k[t].valid /\ k[s].local_index = k[t].local_index => s = t
    /\ h.valid => \A s \in Slots : k[s].valid => k[s].local_index # h.local_index

SlotInv(k, h, fr, sl, cf) ==
    Drawn(k, h, fr, sl) /\ Ordered(k, h) /\ Behind(k, h, sl) /\ Proven(k, sl, cf) /\ Indexed(k, h)

\* Wiping slots, or the pending handshake, keeps the invariant.
LEMMA WipeKeeps ==
    ASSUME NEW k \in KeyTable, NEW k2 \in KeyTable, NEW h, NEW h2, NEW fr \in Nat,
           NEW sl, NEW cf, SlotInv(k, h, fr, sl, cf),
           \A s \in Slots : k2[s] = k[s] \/ ~k2[s].valid,
           h2 = h \/ ~h2.valid
    PROVE  SlotInv(k2, h2, fr, sl, cf)
<1>. USE DEF Slots
<1>1. Drawn(k2, h2, fr, sl)
  BY DEF SlotInv, Drawn
<1>2. Ordered(k2, h2)
  BY DEF SlotInv, Ordered
<1>3. Behind(k2, h2, sl)
  BY DEF SlotInv, Behind
<1>4. Proven(k2, sl, cf)
  BY DEF SlotInv, Proven, CanSend
<1>5. Indexed(k2, h2)
  BY DEF SlotInv, Indexed
<1>. QED BY <1>1, <1>2, <1>3, <1>4, <1>5 DEF SlotInv

\* A live session is in one slot only.
LEMMA OneSlot ==
    ASSUME NEW k \in KeyTable, NEW h, Ordered(k, h), NEW s \in Slots, NEW t \in Slots,
           k[s].valid, k[t].valid, k[s].key = k[t].key
    PROVE  s = t
<1>1. \A r \in Slots : k[r].key \in Nat
  BY DEF KeyTable, Keypair
<1>2. k["prev"].key \in Nat /\ k["curr"].key \in Nat /\ k["next"].key \in Nat
  BY <1>1 DEF Slots
<1>. QED BY <1>2 DEF Ordered, Slots

\* Sealing a packet keeps it: the nonce is recorded and the counter passes it.
LEMMA OutputKeeps ==
    ASSUME NEW k \in KeyTable, NEW p \in Peer, NEW m \in Millis, NEW h, NEW fr \in Nat,
           NEW sl \in SUBSET (Nat \X Nat), NEW cf, SlotInv(k, h, fr, sl, cf), NEW out \in OutputToPeer(k, p, m)
    PROVE  SlotInv(out.keys, h, fr, sl \cup out.nonce, cf)
<1>. DEFINE s == SendingSlot(k)
<1>1. s \in Slots /\ out.keys \in KeyTable
  BY OutputCases, OutputType DEF Slots
<1>2. CASE out.keys = k /\ out.nonce = {}
  <2>1. sl \cup out.nonce = sl
    BY <1>2
  <2>. QED BY <1>2, <2>1
<1>3. CASE out.keys = [k EXCEPT ![s] = NoKeypair] /\ out.nonce = {}
  <2>1. \A t \in Slots : out.keys[t] = k[t] \/ ~out.keys[t].valid
    BY <1>1, <1>3 DEF KeyTable, NoKeypair
  <2>2. sl \cup out.nonce = sl
    BY <1>3
  <2>. HIDE DEF s
  <2>3. SlotInv(out.keys, h, fr, sl, cf)
    BY <1>1, <2>1, WipeKeeps
  <2>. QED BY <2>2, <2>3
<1>4. CASE Counted(k, s, out)
  <2>. DEFINE k2 == out.keys
              sl2 == sl \cup out.nonce
  <2>1. \A t \in Slots : t # s => k2[t] = k[t]
    BY <1>1, <1>4 DEF Counted, KeyTable
  <2>2. k2[s] = [k[s] EXCEPT !.sending_counter = @ + 1]
    BY <1>1, <1>4 DEF Counted, KeyTable
  <2>3. k[s] \in Keypair
    BY <1>1 DEF KeyTable
  <2>4. /\ k2[s].valid = k[s].valid /\ k2[s].key = k[s].key /\ k2[s].initiator = k[s].initiator
        /\ k2[s].last_rx = k[s].last_rx /\ k2[s].local_index = k[s].local_index
        /\ k2[s].sending_counter = k[s].sending_counter + 1 /\ k[s].sending_counter \in Nat
        /\ k[s].key \in Nat
    BY <2>2, <2>3 DEF Keypair
  <2>5. out.nonce = {<<k[s].key, k[s].sending_counter>>} /\ CanSend(k[s]) /\ k[s].valid
    BY <1>4 DEF Counted, CanSend
  <2>6. \A t \in Slots : /\ k2[t].valid = k[t].valid /\ k2[t].key = k[t].key
                         /\ k2[t].initiator = k[t].initiator /\ k2[t].last_rx = k[t].last_rx
                         /\ k2[t].local_index = k[t].local_index
                         /\ k[t].sending_counter \in Nat
                         /\ k2[t].sending_counter >= k[t].sending_counter
    BY <2>1, <2>4 DEF KeyTable, Keypair
  <2>7. \A n \in sl2 : n \in sl \/ (n[1] = k[s].key /\ n[2] = k[s].sending_counter)
    BY <2>5
  <2>. HIDE DEF k2, sl2, s
  <2>8. Drawn(k2, h, fr, sl2)
    BY <2>6, <2>7, <2>5, <1>1 DEF SlotInv, Drawn
  <2>9. Ordered(k2, h)
    BY <2>6 DEF SlotInv, Ordered, Slots
  <2>10. Behind(k2, h, sl2)
    <3>1. ASSUME NEW t \in Slots, NEW n \in sl2, k2[t].valid, n[1] = k2[t].key
          PROVE  n[2] < k2[t].sending_counter
      <4>1. CASE n \in sl
        <5>1. n[2] < k[t].sending_counter /\ n[2] \in Nat
          BY <3>1, <4>1, <2>6 DEF SlotInv, Behind
        <5>. QED BY <5>1, <2>4, <2>6, <2>1
      <4>2. CASE n[1] = k[s].key /\ n[2] = k[s].sending_counter
        <5>1. t = s
          <6>1. k[t].valid /\ k[t].key = k[s].key
            BY <3>1, <4>2, <2>6
          <6>. QED BY <6>1, <2>5, <1>1, OneSlot DEF SlotInv
        <5>. QED BY <5>1, <4>2, <2>4
      <4>. QED BY <2>7, <4>1, <4>2
    <3>2. h.valid => \A n \in sl2 : n[1] # h.key
      BY <2>7, <2>5, <2>4, <1>1 DEF SlotInv, Behind, Ordered
    <3>. QED BY <3>1, <3>2 DEF Behind
  <2>11. Proven(k2, sl2, cf)
    BY <2>6, <2>7, <2>5, <1>1 DEF SlotInv, Proven, CanSend
  <2>12. Indexed(k2, h)
    BY <2>6 DEF SlotInv, Indexed
  <2>. QED BY <2>8, <2>9, <2>10, <2>11, <2>12 DEF SlotInv, k2, sl2
<1>. QED BY OutputCases, <1>2, <1>3, <1>4

\* Hearing from the other end keeps it: whoever is heard on a session holds
\* its key.  The replay window is of no concern here.
LEMMA HeardKeeps ==
    ASSUME NEW k \in KeyTable, NEW k2 \in KeyTable, NEW h, NEW fr \in Nat, NEW sl,
           NEW cf, NEW cf2, cf \subseteq cf2, SlotInv(k, h, fr, sl, cf),
           \A s \in Slots : /\ k2[s].valid = k[s].valid /\ k2[s].key = k[s].key
                            /\ k2[s].initiator = k[s].initiator
                            /\ k2[s].sending_counter = k[s].sending_counter
                            /\ k2[s].local_index = k[s].local_index
                            /\ k2[s].last_rx = k[s].last_rx \/ k[s].key \in cf2
    PROVE  SlotInv(k2, h, fr, sl, cf2)
<1>1. Drawn(k2, h, fr, sl)
  BY DEF SlotInv, Drawn
<1>2. Ordered(k2, h)
  BY DEF SlotInv, Ordered, Slots
<1>3. Behind(k2, h, sl)
  BY DEF SlotInv, Behind
<1>4. Proven(k2, sl, cf2)
  BY DEF SlotInv, Proven, CanSend
<1>5. Indexed(k2, h)
  BY DEF SlotInv, Indexed
<1>. QED BY <1>1, <1>2, <1>3, <1>4, <1>5 DEF SlotInv

\* keypair_update moves two sessions and wipes the third's slot.
LEMMA UpdateKeeps ==
    ASSUME NEW k \in KeyTable, NEW s \in Slots, NEW h, NEW fr \in Nat, NEW sl, NEW cf,
           SlotInv(k, h, fr, sl, cf)
    PROVE  SlotInv(KeypairUpdate(k, s), h, fr, sl, cf)
<1>1. CASE s # "next"
  BY <1>1 DEF KeypairUpdate
<1>2. CASE s = "next"
  <2>. DEFINE k2 == KeypairUpdate(k, s)
  <2>1. k2["prev"] = k["curr"] /\ k2["curr"] = k["next"] /\ ~k2["next"].valid
    BY <1>2 DEF KeypairUpdate, KeyTable, NoKeypair, Slots
  <2>. HIDE DEF k2
  <2>2. Drawn(k2, h, fr, sl)
    BY <2>1 DEF SlotInv, Drawn, Slots
  <2>3. Ordered(k2, h)
    BY <2>1 DEF SlotInv, Ordered, Slots
  <2>4. Behind(k2, h, sl)
    BY <2>1 DEF SlotInv, Behind, Slots
  <2>5. Proven(k2, sl, cf)
    BY <2>1 DEF SlotInv, Proven, CanSend, Slots
  <2>6. Indexed(k2, h)
    BY <2>1 DEF SlotInv, Indexed, Slots
  <2>. QED BY <2>2, <2>3, <2>4, <2>5, <2>6 DEF SlotInv, k2
<1>. QED BY <1>1, <1>2

\* A session is added once its handshake is over.  It is the youngest, has
\* sealed nothing and has an index of its own; it may be sent on only by the
\* initiator, who has heard from the other end.
LEMMA AddNewKeeps ==
    ASSUME NEW k \in KeyTable, NEW h, NEW fr \in Nat, NEW fr2 \in Nat, fr <= fr2,
           NEW sl \in SUBSET (Nat \X Nat), NEW cf, NEW cf2, cf \subseteq cf2,
           SlotInv(k, h, fr, sl, cf),
           NEW b \in BOOLEAN, NEW e \in 1 .. fr2, NEW i \in LocalIndex \cup {NoIndex},
           NEW m \in Millis,
           \A s \in Slots : k[s].valid => k[s].key < e /\ k[s].local_index # i,
           \A n \in sl : n[1] # e,
           b => e \in cf2
    PROVE  SlotInv(AddNewKeypair(k, NewKeypair(b, e, i, m)), NoHandshake, fr2, sl, cf2)
<1>. DEFINE new == NewKeypair(b, e, i, m)
            k2  == AddNewKeypair(k, new)
<1>1. /\ new.valid /\ new.key = e /\ new.initiator = b /\ new.last_rx = 0
      /\ new.sending_counter = 0 /\ new.local_index = i
  BY DEF NewKeypair
<1>2. ~NoHandshake.valid /\ ~NoKeypair.valid
  BY DEF NoHandshake, NoKeypair
<1>3. \/ /\ b /\ k2["curr"] = new /\ ~k2["next"].valid
         /\ k2["prev"] = k["curr"] \/ k2["prev"] = k["next"]
      \/ ~b /\ k2["next"] = new /\ k2["curr"] = k["curr"] /\ ~k2["prev"].valid
  <2>. HIDE DEF new
  <2>. QED BY <1>1, <1>2 DEF AddNewKeypair, KeyTable, Slots
<1>. HIDE DEF k2, new
<1>4. Drawn(k2, NoHandshake, fr2, sl)
  <2>1. \A n \in sl : n[1] <= fr2
    BY DEF SlotInv, Drawn
  <2>2. \A s \in Slots : k[s].valid => k[s].key \in 1 .. fr2
    BY DEF SlotInv, Drawn
  <2>. QED BY <2>1, <2>2, <1>1, <1>2, <1>3 DEF Drawn, Slots
<1>5. Ordered(k2, NoHandshake)
  BY <1>1, <1>2, <1>3 DEF SlotInv, Ordered, Slots
<1>6. Behind(k2, NoHandshake, sl)
  <2>1. \A s \in Slots : k2[s].valid => k2[s] = new \/ \E t \in Slots : k2[s] = k[t]
    BY <1>3 DEF Slots
  <2>. QED BY <2>1, <1>1, <1>2 DEF SlotInv, Behind
<1>7. Proven(k2, sl, cf2)
  <2>1. \A s \in Slots : k2[s].valid => k2[s] = new \/ \E t \in Slots : k2[s] = k[t]
    BY <1>3 DEF Slots
  <2>. QED BY <2>1, <1>1 DEF SlotInv, Proven, CanSend
<1>8. Indexed(k2, NoHandshake)
  BY <1>1, <1>2, <1>3 DEF SlotInv, Indexed, Slots
<1>. QED BY <1>4, <1>5, <1>6, <1>7, <1>8 DEF SlotInv, k2, new

\* A new initiation replaces the pending handshake.
LEMMA InitiateKeeps ==
    ASSUME NEW k \in KeyTable, NEW h, NEW h2, NEW fr \in Nat,
           NEW sl \in SUBSET (Nat \X Nat), NEW cf, SlotInv(k, h, fr, sl, cf),
           h2.key = fr + 1, h2.local_index \in FreshIndices(k, h)
    PROVE  SlotInv(k, h2, fr + 1, sl, cf)
<1>1. \A s \in Slots : k[s].key \in Nat
  BY DEF KeyTable, Keypair
<1>2. \A n \in sl : n[1] \in Nat
  OBVIOUS
<1>3. Drawn(k, h2, fr + 1, sl)
  BY <1>1, <1>2 DEF SlotInv, Drawn
<1>4. Ordered(k, h2)
  BY <1>1 DEF SlotInv, Ordered, Drawn
<1>5. Behind(k, h2, sl)
  BY <1>2 DEF SlotInv, Behind, Drawn
<1>6. Indexed(k, h2)
  BY DEF SlotInv, Indexed, FreshIndices
<1>. QED BY <1>3, <1>4, <1>5, <1>6 DEF SlotInv

IInv == TypeOK /\ SlotInv(keys, hs, fresh, sealed, confirmed)

LEMMA InvTypes ==
    ASSUME TypeOK
    PROVE  /\ keys \in KeyTable /\ hs \in Handshake /\ fresh \in Nat /\ Now \in Millis
           /\ sealed \in SUBSET (Nat \X Nat)
<1>1. keys \in KeyTable /\ hs \in Handshake
  BY DEF TypeOK, KeyTable
<1>2. fresh \in Nat /\ sealed \in SUBSET (Nat \X Nat)
  BY DeviceAssumption DEF TypeOK
<1>. QED BY <1>1, <1>2, NowType

LEMMA InitSlots == Init => IInv
<1>. SUFFICES ASSUME Init PROVE SlotInv(keys, hs, fresh, sealed, confirmed)
  BY InitType DEF IInv
<1>1. ~hs.valid /\ \A s \in Slots : ~keys[s].valid
  BY DEF Init, NoKeys, NoKeypair, NoHandshake
<1>2. sealed = {}
  BY DEF Init
<1>. QED BY <1>1, <1>2 DEF SlotInv, Drawn, Ordered, Behind, Proven, Indexed, CanSend, Slots

LEMMA SlotsOutput == ASSUME IInv, Output PROVE SlotInv(keys, hs, fresh, sealed, confirmed)'
<1>1. PICK out \in OutputToPeer(keys, peer, Now) :
         keys' = out.keys /\ sealed' = sealed \cup out.nonce
  BY DEF Output
<1>2. SlotInv(out.keys, hs, fresh, sealed \cup out.nonce, confirmed)
  BY <1>1, InvTypes, OutputKeeps DEF IInv, TypeOK
<1>. QED BY <1>1, <1>2 DEF Output

LEMMA SlotsRxInitiation ==
    ASSUME IInv, NEW ts \in 1 .. MaxTs, NEW a \in Address, RxInitiation(ts, a)
    PROVE  SlotInv(keys, hs, fresh, sealed, confirmed)'
<1>1. PICK i \in FreshIndices(keys, hs) :
         keys' = AddNewKeypair(keys, NewKeypair(FALSE, fresh + 1, i, Now))
  BY DEF RxInitiation, Responded
<1>2. \A s \in Slots : keys[s].valid => keys[s].key < fresh + 1 /\ keys[s].local_index # i
  BY <1>1, InvTypes DEF IInv, SlotInv, Drawn, FreshIndices
<1>3. \A n \in sealed : n[1] # fresh + 1
  BY InvTypes DEF IInv, SlotInv, Drawn
<1>4. fresh + 1 \in Nat /\ fresh + 1 \in 1 .. fresh + 1 /\ fresh <= fresh + 1
  BY InvTypes DEF IInv
<1>5. i \in LocalIndex \cup {NoIndex}
  BY <1>1 DEF FreshIndices
<1>6. SlotInv(AddNewKeypair(keys, NewKeypair(FALSE, fresh + 1, i, Now)), NoHandshake,
              fresh + 1, sealed, confirmed)
  BY <1>2, <1>3, <1>4, <1>5, InvTypes, AddNewKeeps DEF IInv
<1>. QED BY <1>1, <1>6 DEF RxInitiation

LEMMA SlotsRxResponse ==
    ASSUME IInv, NEW e \in 1 .. fresh, NEW a \in Address, RxResponse(e, a)
    PROVE  SlotInv(keys, hs, fresh, sealed, confirmed)'
<1>. DEFINE p == [peer EXCEPT !.ip = a]
            i == hs.local_index
            k == AddNewKeypair(keys, NewKeypair(TRUE, e, i, Now))
<1>1. p \in Peer
  BY DEF IInv, TypeOK, Peer
<1>2. hs.valid /\ hs.key = e /\ i \in LocalIndex \cup {NoIndex}
  BY InvTypes DEF IInv, Handshake, RxResponse
<1>3. k \in KeyTable
  <2>1. e \in Nat /\ keys \in KeyTable /\ Now \in Millis
    BY InvTypes DEF IInv
  <2>2. NewKeypair(TRUE, e, i, Now) \in Keypair
    BY <1>2, <2>1, NewKeypairType
  <2>. QED BY <2>1, <2>2, AddNewType
<1>4. \A s \in Slots : keys[s].valid => keys[s].key < e /\ keys[s].local_index # i
  BY <1>2 DEF IInv, SlotInv, Ordered, Indexed
<1>5. \A n \in sealed : n[1] # e
  BY <1>2 DEF IInv, SlotInv, Behind
<1>. HIDE DEF i
<1>6. SlotInv(k, NoHandshake, fresh, sealed, confirmed \cup {e})
  <2>1. /\ keys \in KeyTable /\ fresh \in Nat /\ sealed \in SUBSET (Nat \X Nat) /\ Now \in Millis
        /\ SlotInv(keys, hs, fresh, sealed, confirmed)
    BY InvTypes DEF IInv
  <2>2. confirmed \subseteq confirmed \cup {e} /\ e \in confirmed \cup {e} /\ fresh <= fresh
    BY <2>1
  <2>. QED BY <1>2, <1>4, <1>5, <2>1, <2>2, AddNewKeeps
<1>. HIDE DEF k, p
<1>7. PICK out \in OutputToPeer(k, p, Now) :
         keys' = out.keys /\ sealed' = sealed \cup out.nonce
  BY DEF RxResponse, k, p, i
<1>8. SlotInv(out.keys, NoHandshake, fresh, sealed \cup out.nonce, confirmed \cup {e})
  BY <1>1, <1>3, <1>6, <1>7, InvTypes, OutputKeeps DEF IInv
<1>. QED BY <1>7, <1>8 DEF RxResponse

LEMMA SlotsRxData ==
    ASSUME IInv, NEW i \in LocalIndex, NEW e \in 0 .. fresh, NEW c \in 0 .. MaxRxCtr,
           NEW a \in Address, RxData(i, e, c, a)
    PROVE  SlotInv(keys, hs, fresh, sealed, confirmed)'
<1>1. PICK s \in KeypairForIdx(keys, i) :
         \/ keys' = [keys EXCEPT ![s] = NoKeypair] /\ confirmed' = confirmed
         \/ e = keys[s].key /\ Authentic(s, e, c, a)
  BY DEF RxData
<1>2. s \in Slots
  BY <1>1 DEF KeypairForIdx, Slots
<1>3. keys' \in KeyTable
  BY TypeRxData DEF IInv, TypeOK, KeyTable
<1>4. UNCHANGED <<hs, fresh, sealed>>
  BY DEF RxData
<1>5. CASE keys' = [keys EXCEPT ![s] = NoKeypair] /\ confirmed' = confirmed
  <2>1. \A t \in Slots : keys'[t] = keys[t] \/ ~keys'[t].valid
    BY <1>2, <1>5, InvTypes DEF IInv, KeyTable, NoKeypair
  <2>2. SlotInv(keys', hs, fresh, sealed, confirmed)
    BY <1>3, <2>1, InvTypes, WipeKeeps DEF IInv
  <2>. QED BY <1>4, <1>5, <2>2
<1>6. CASE e = keys[s].key /\ Authentic(s, e, c, a)
  <2>. DEFINE heard   == [keys EXCEPT ![s].last_rx = Now]
              shifted == KeypairUpdate(heard, s)
              cf      == confirmed \cup {e}
  <2>1. keys \in KeyTable /\ keys[s] \in Keypair
    BY <1>2, InvTypes DEF IInv, KeyTable
  <2>2. heard \in KeyTable
    <3>1. [keys[s] EXCEPT !.last_rx = Now] \in Keypair
      BY <2>1, InvTypes DEF IInv, Keypair
    <3>. QED BY <1>2, <2>1, <3>1 DEF KeyTable
  <2>3. \A t \in Slots : /\ heard[t].valid = keys[t].valid /\ heard[t].key = keys[t].key
                         /\ heard[t].initiator = keys[t].initiator
                         /\ heard[t].sending_counter = keys[t].sending_counter
                         /\ heard[t].local_index = keys[t].local_index
                         /\ heard[t].last_rx = keys[t].last_rx \/ keys[t].key \in cf
    <3>1. ASSUME NEW t \in Slots, t # s PROVE heard[t] = keys[t]
      BY <2>1, <3>1 DEF KeyTable
    <3>2. heard[s] = [keys[s] EXCEPT !.last_rx = Now]
      BY <1>2, <2>1 DEF KeyTable
    <3>. HIDE DEF heard
    <3>. QED BY <2>1, <3>1, <3>2, <1>6 DEF Keypair
  <2>. HIDE DEF heard
  <2>4. SlotInv(heard, hs, fresh, sealed, cf)
    <3>. HIDE DEF cf
    <3>1. confirmed \subseteq cf
      BY DEF cf
    <3>. QED BY <2>1, <2>2, <2>3, <3>1, InvTypes, HeardKeeps DEF IInv
  <2>5. shifted \in KeyTable /\ SlotInv(shifted, hs, fresh, sealed, cf)
    BY <1>2, <2>2, <2>4, InvTypes, UpdateType, UpdateKeeps DEF IInv
  <2>6. \/ keys' = shifted
        \/ keys' = [shifted EXCEPT ![s].replay = CheckReplay(@, c)]
    BY <1>6 DEF Authentic, heard
  <2>. HIDE DEF shifted
  <2>7. \A t \in Slots : /\ keys'[t].valid = shifted[t].valid /\ keys'[t].key = shifted[t].key
                         /\ keys'[t].initiator = shifted[t].initiator
                         /\ keys'[t].sending_counter = shifted[t].sending_counter
                         /\ keys'[t].local_index = shifted[t].local_index
                         /\ keys'[t].last_rx = shifted[t].last_rx
    <3>1. CASE keys' = shifted
      BY <3>1
    <3>2. CASE keys' = [shifted EXCEPT ![s].replay = CheckReplay(@, c)]
      <4>1. ASSUME NEW t \in Slots, t # s PROVE keys'[t] = shifted[t]
        BY <2>5, <3>2, <4>1 DEF KeyTable
      <4>2. keys'[s] = [shifted[s] EXCEPT !.replay = CheckReplay(@, c)] /\ shifted[s] \in Keypair
        BY <1>2, <2>5, <3>2 DEF KeyTable
      <4>. QED BY <4>1, <4>2 DEF Keypair
    <3>. QED BY <2>6, <3>1, <3>2
  <2>8. SlotInv(keys', hs, fresh, sealed, cf)
    BY <1>3, <2>5, <2>7, InvTypes, HeardKeeps DEF IInv
  <2>9. confirmed' = cf
    BY <1>6 DEF Authentic
  <2>. QED BY <1>4, <2>8, <2>9
<1>. QED BY <1>1, <1>5, <1>6

LEMMA SlotsTimer == ASSUME IInv, Timer PROVE SlotInv(keys, hs, fresh, sealed, confirmed)'
<1>1. PICK k \in Pruned, h \in {hs, NoHandshake}, p \in Reverted :
         \E out \in OutputToPeer(k, p, Now) \cup {Unsent(k, p)} : TimerLeaves(out, h)
  BY TimerCases DEF IInv
<1>2. PICK out \in OutputToPeer(k, p, Now) \cup {Unsent(k, p)} : TimerLeaves(out, h)
  BY <1>1
<1>3. k \in KeyTable /\ h \in Handshake /\ p \in Peer
  <2>1. \A t \in KeyTable : [t EXCEPT !["curr"] = NoKeypair] \in KeyTable
    BY ConstantTypes DEF KeyTable, Slots
  <2>2. [peer EXCEPT !.ip = peer.connect_ip] \in Peer
    BY DEF IInv, TypeOK, Peer
  <2>. QED BY <1>1, <2>1, <2>2, ConstantTypes DEF IInv, Pruned, Reverted, TypeOK, KeyTable
<1>4. SlotInv(k, h, fresh, sealed, confirmed)
  <2>1. \A s \in Slots : k[s] = keys[s] \/ ~k[s].valid
    BY <1>1, InvTypes DEF IInv, Pruned, NoKeys, NoKeypair, KeyTable, Slots
  <2>2. h = hs \/ ~h.valid
    BY <1>1 DEF NoHandshake
  <2>. QED BY <1>3, <2>1, <2>2, InvTypes, WipeKeeps DEF IInv
<1>5. out.keys \in KeyTable /\ sealed \cup out.nonce \in SUBSET (Nat \X Nat)
      /\ SlotInv(out.keys, h, fresh, sealed \cup out.nonce, confirmed)
  <2>1. CASE out \in OutputToPeer(k, p, Now)
    <3>1. out.keys \in KeyTable /\ out.nonce \subseteq Nat \X Nat
      BY <1>3, <2>1, InvTypes, OutputType DEF IInv
    <3>2. SlotInv(out.keys, h, fresh, sealed \cup out.nonce, confirmed)
      BY <1>3, <1>4, <2>1, InvTypes, OutputKeeps DEF IInv
    <3>. QED BY <3>1, <3>2, InvTypes DEF IInv
  <2>2. CASE out = Unsent(k, p)
    <3>1. out.keys = k /\ sealed \cup out.nonce = sealed
      BY <2>2 DEF Unsent
    <3>. QED BY <1>3, <1>4, <3>1, InvTypes DEF IInv
  <2>. QED BY <2>1, <2>2
<1>6. keys' = out.keys /\ sealed' = sealed \cup out.nonce /\ confirmed' = confirmed
  BY <1>2 DEF TimerLeaves, Timer
<1>7. CASE hs' = h /\ fresh' = fresh
  BY <1>5, <1>6, <1>7
<1>8. ASSUME fresh < MaxEph, NEW ini \in Initiated(out.keys, h, out.peer, Now),
             hs' = ini.hs, fresh' = fresh + ini.drawn
      PROVE  SlotInv(keys, hs, fresh, sealed, confirmed)'
  <2>1. out.peer \in Peer
    BY <1>2, <1>3, InvTypes, OutputType DEF IInv, Unsent
  <2>2. ini.hs.key = fresh + 1 /\ ini.hs.local_index \in FreshIndices(out.keys, h) /\ ini.drawn = 1
    BY <1>3, <1>5, <1>8, <2>1, InvTypes, InitiatedType DEF IInv
  <2>3. SlotInv(out.keys, ini.hs, fresh + 1, sealed \cup out.nonce, confirmed)
    BY <1>5, <2>2, InvTypes, InitiateKeeps DEF IInv
  <2>. QED BY <1>6, <1>8, <2>2, <2>3
<1>. QED BY <1>2, <1>7, <1>8 DEF TimerLeaves

LEMMA SlotsCalls ==
    ASSUME IInv, \/ Connect \/ Disconnect \/ RemovePeer
                 \/ \E a \in Address \cup {AnyAddr} : AddPeer(a) \/ UpdateEndpoint(a)
    PROVE  SlotInv(keys, hs, fresh, sealed, confirmed)'
<1>1. CASE UNCHANGED <<keys, hs, fresh, sealed, confirmed>>
  BY <1>1 DEF IInv
<1>2. CASE Disconnect \/ RemovePeer
  <2>1. \A s \in Slots : ~NoKeys[s].valid
    BY DEF NoKeys, NoKeypair
  <2>2. keys' = NoKeys /\ (hs' = hs \/ hs' = NoHandshake) /\ UNCHANGED <<fresh, sealed, confirmed>>
    BY <1>2 DEF Disconnect, RemovePeer
  <2>3. hs' = hs \/ ~hs'.valid
    BY <2>2 DEF NoHandshake
  <2>4. SlotInv(NoKeys, hs', fresh, sealed, confirmed)
    BY <2>1, <2>3, InvTypes, ConstantTypes, WipeKeeps DEF IInv
  <2>. QED BY <2>2, <2>4
<1>. QED BY <1>1, <1>2 DEF Connect, AddPeer, UpdateEndpoint, history

LEMMA Inductive == ASSUME IInv, [Next]_vars PROVE IInv'
<1>1. TypeOK'
  BY TypeStep DEF IInv
<1>2. SlotInv(keys, hs, fresh, sealed, confirmed)'
  <2>1. CASE Receive
    <3>1. ASSUME NEW e, NEW a, RxCookie(e, a) PROVE SlotInv(keys, hs, fresh, sealed, confirmed)'
      BY <3>1 DEF RxCookie, history, IInv
    <3>. QED BY <2>1, <3>1, SlotsRxInitiation, SlotsRxResponse, SlotsRxData DEF Receive
  <2>2. CASE Application
    BY <2>2, SlotsOutput, SlotsCalls DEF Application
  <2>3. CASE Tick \/ TimerNoPeer \/ UNCHANGED vars
    BY <2>3 DEF Tick, TimerNoPeer, vars, history, IInv
  <2>. QED BY <2>1, <2>2, <2>3, SlotsTimer DEF Next
<1>. QED BY <1>1, <1>2 DEF IInv

THEOREM Invariant == Spec => []IInv
  BY InitSlots, Inductive, PTL DEF Spec

-----------------------------------------------------------------------------
(* What follows from it *)

\* No packet is ever sealed under a nonce used before, however sessions are
\* renewed, promoted, wiped, and whatever arrives in whatever order.
THEOREM NoncesNeverRepeat == Spec => []NonceFresh
<1>1. IInv => NonceFresh
  <2>. SUFFICES ASSUME IInv, NEW s \in Slots, keys[s].valid,
                       <<keys[s].key, keys[s].sending_counter>> \in sealed
                PROVE  FALSE
    BY DEF NonceFresh
  <2>1. keys[s].sending_counter \in Nat
    BY InvTypes DEF IInv, KeyTable, Keypair
  <2>2. keys[s].sending_counter < keys[s].sending_counter
    BY DEF IInv, SlotInv, Behind
  <2>. QED BY <2>1, <2>2
<1>. QED BY <1>1, Invariant, PTL

\* Nothing is ever sent on a session before the other end is known to hold it.
THEOREM NothingBeforeConfirmation == Spec => []SealsOnlyConfirmed
<1>1. IInv => SealsOnlyConfirmed
  BY DEF IInv, SlotInv, Proven, SealsOnlyConfirmed
<1>. QED BY <1>1, Invariant, PTL

\* A receiver index never means two sessions.
THEOREM IndicesAreUnique == Spec => []IndexUnique
<1>1. IInv => IndexUnique
  BY DEF IInv, SlotInv, Indexed, IndexUnique
<1>. QED BY <1>1, Invariant, PTL

\* A previous and a next session never coexist.
THEOREM AtMostTwoSessions == Spec => []PrevExcludesNext
<1>1. IInv => PrevExcludesNext
  BY DEF IInv, SlotInv, Ordered, PrevExcludesNext
<1>. QED BY <1>1, Invariant, PTL

-----------------------------------------------------------------------------
(* How long sessions last, which one is sent on, and what the calls and the *)
(* handshakes leave behind.  This rests on IInv and on a second invariant,  *)
(* SInv, whose parts speak of what lies beside the slots: the peer's        *)
(* registration and timestamps, the sessions the application closed, the    *)
(* link flag, the clock.                                                    *)

-----------------------------------------------------------------------------
(* What a step does to the slots *)

\* the same session in another state of its slot
Same(kp, kp2) ==
    /\ kp2.valid = kp.valid /\ kp2.key = kp.key /\ kp2.initiator = kp.initiator
    /\ kp2.keypair_millis = kp.keypair_millis

\* ... with the same packets marked in its window
Kept(kp, kp2) == Same(kp, kp2) /\ kp2.replay = kp.replay

\* every slot keeps its session, as it was heard last, or is wiped
Thinned(k, k2) ==
    \A s \in Slots : k2[s].valid => Kept(k[s], k2[s]) /\ k2[s].last_rx = k[s].last_rx

\* the current session is lost only by its age or its last packet
LostToAge(k, k2, m) ==
    k["curr"].valid /\ ~k2["curr"].valid => Stale(k["curr"], m) \/ k2 = NoKeys

LEMMA OutputThins ==
    ASSUME NEW k \in KeyTable, NEW p \in Peer, NEW m \in Millis,
           NEW out \in OutputToPeer(k, p, m)
    PROVE  /\ Thinned(k, out.keys) /\ LostToAge(k, out.keys, m)
           /\ k = NoKeys => out.keys = NoKeys
           /\ out.peer.valid = p.valid /\ out.peer.greatest_timestamp = p.greatest_timestamp
<1>. DEFINE s == SendingSlot(k)
<1>1. s \in Slots /\ k[s] \in Keypair
  BY DEF SendingSlot, Slots, KeyTable
<1>2. \/ out = Unsent(k, p)
      \/ CanSend(k[s]) /\ Stale(k[s], m) /\ out = Unsent([k EXCEPT ![s] = NoKeypair], p)
      \/ CanSend(k[s]) /\ \E sent : out = Sealed(k, s, p, m, sent)
  <2>1. CASE ~CanSend(k[s])
    BY <2>1 DEF OutputToPeer
  <2>2. CASE CanSend(k[s]) /\ Stale(k[s], m)
    BY <2>2 DEF OutputToPeer
  <2>3. CASE CanSend(k[s]) /\ ~Stale(k[s], m)
    <3>1. out \in {IF room THEN Sealed(k, s, p, m, sent) ELSE Unsent(k, p) :
                      room \in Results("pbuf_alloc"), sent \in Results("udp_sendto")}
      BY <2>3 DEF OutputToPeer
    <3>2. PICK room \in Results("pbuf_alloc"), sent \in Results("udp_sendto") :
             out = IF room THEN Sealed(k, s, p, m, sent) ELSE Unsent(k, p)
      BY <3>1
    <3>. QED BY <2>3, <3>2, Zenon
  <2>. QED BY <2>1, <2>2, <2>3, Zenon
<1>. HIDE DEF s
<1>3. CASE out = Unsent(k, p)
  BY <1>3 DEF Unsent, Thinned, Kept, Same, LostToAge
<1>4. CASE CanSend(k[s]) /\ Stale(k[s], m) /\ out = Unsent([k EXCEPT ![s] = NoKeypair], p)
  <2>1. out.keys = [k EXCEPT ![s] = NoKeypair] /\ out.peer = p
    BY <1>4 DEF Unsent
  <2>2. \A t \in Slots : out.keys[t] = k[t] \/ (t = s /\ ~out.keys[t].valid)
    BY <1>1, <2>1 DEF KeyTable, NoKeypair
  <2>3. k # NoKeys
    BY <1>1, <1>4 DEF NoKeys, NoKeypair, CanSend
  <2>4. LostToAge(k, out.keys, m)
    BY <1>4, <2>2 DEF LostToAge, Slots
  <2>. QED BY <2>1, <2>2, <2>3, <2>4 DEF Thinned, Kept, Same
<1>5. ASSUME CanSend(k[s]), NEW sent, out = Sealed(k, s, p, m, sent)
      PROVE  /\ Thinned(k, out.keys) /\ LostToAge(k, out.keys, m) /\ k # NoKeys
             /\ out.peer.valid = p.valid /\ out.peer.greatest_timestamp = p.greatest_timestamp
  <2>1. out.keys = [k EXCEPT ![s].sending_counter = @ + 1]
    BY <1>5 DEF Sealed
  <2>2. \A t \in Slots : Kept(k[t], out.keys[t]) /\ out.keys[t].last_rx = k[t].last_rx
    <3>1. ASSUME NEW t \in Slots, t # s PROVE out.keys[t] = k[t]
      BY <2>1, <3>1 DEF KeyTable
    <3>2. out.keys[s] = [k[s] EXCEPT !.sending_counter = @ + 1]
      BY <1>1, <2>1 DEF KeyTable
    <3>. QED BY <1>1, <3>1, <3>2 DEF Kept, Same, Keypair
  <2>3. out.peer.valid = p.valid /\ out.peer.greatest_timestamp = p.greatest_timestamp
    BY <1>5 DEF Sealed, Peer
  <2>4. k # NoKeys
    BY <1>1, <1>5 DEF NoKeys, NoKeypair, CanSend
  <2>. QED BY <2>2, <2>3, <2>4 DEF Thinned, Kept, LostToAge, Same, Slots
<1>. QED BY <1>2, <1>3, <1>4, <1>5

\* a session of key e is new in the slot of its role
Added(k, k2, b, e, m) ==
    /\ b => /\ k2["curr"].valid /\ k2["curr"].initiator /\ k2["curr"].key = e
            /\ k2["curr"].keypair_millis = m /\ k2["curr"].sending_counter = 0
            /\ k2["curr"].replay = EmptyWindow
            /\ k2["prev"] = k["curr"] \/ k2["prev"] = k["next"]
            /\ ~k2["next"].valid
    /\ ~b => /\ k2["next"].valid /\ k2["next"].key = e /\ k2["next"].replay = EmptyWindow
             /\ k2["curr"] = k["curr"] /\ ~k2["prev"].valid

\* A handshake that completes puts its session into a slot of its role.
LEMMA AddNewSlots ==
    ASSUME NEW k \in KeyTable, NEW b \in BOOLEAN, NEW e, NEW i, NEW m
    PROVE  Added(k, AddNewKeypair(k, NewKeypair(b, e, i, m)), b, e, m)
<1>. DEFINE new == NewKeypair(b, e, i, m)
<1>1. /\ new.valid /\ new.key = e /\ new.initiator = b
      /\ new.keypair_millis = m /\ new.sending_counter = 0 /\ new.replay = EmptyWindow
  BY DEF NewKeypair
<1>2. ~NoKeypair.valid
  BY DEF NoKeypair
<1>. HIDE DEF new
<1>3. Added(k, AddNewKeypair(k, new), b, e, m)
  BY <1>1, <1>2 DEF Added, AddNewKeypair, KeyTable, Slots
<1>. QED BY <1>3 DEF new

\* The timer only thins the slots out; a current session that it leaves is not
\* stale.
LEMMA TimerThins ==
    ASSUME TypeOK, Timer
    PROVE  /\ Thinned(keys, keys') /\ LostToAge(keys, keys', Now)
           /\ keys'["curr"].valid => ~Stale(keys["curr"], Now)
           /\ peer'.valid = peer.valid /\ peer'.greatest_timestamp = peer.greatest_timestamp
           /\ linkUp' = (linkUp /\ PeerIsUp(keys'))
           /\ \/ (hs' = hs \/ ~hs'.valid) /\ fresh' = fresh
              \/ hs'.key = fresh + 1 /\ fresh' = fresh + 1
<1>. DEFINE m     == Now
            reset == ShouldReset(keys, m)
            k1    == IF reset THEN NoKeys ELSE keys
            h1    == IF reset THEN NoHandshake ELSE hs
            p1    == IF reset THEN [peer EXCEPT !.ip = peer.connect_ip] ELSE peer
            k2    == IF ShouldDestroyCurrent(k1, m) THEN [k1 EXCEPT !["curr"] = NoKeypair] ELSE k1
            alive == IF ShouldSendKeepalive(k2, p1, m) THEN OutputToPeer(k2, p1, m)
                                                       ELSE {Unsent(k2, p1)}
<1>1. PICK out \in alive :
          LET initiate == ShouldSendInitiation(out.keys, out.peer, m) IN
          /\ initiate => fresh < MaxEph
          /\ \E ini \in IF initiate THEN Initiated(out.keys, h1, out.peer, m)
                        ELSE {[hs |-> h1, peer |-> out.peer, drawn |-> 0, offers |-> {}]} :
                /\ hs' = ini.hs
                /\ peer' = ini.peer
                /\ fresh' = fresh + ini.drawn
          /\ keys' = out.keys
          /\ linkUp' = (linkUp /\ PeerIsUp(out.keys))
  BY Zenon DEF Timer
<1>2. /\ keys \in KeyTable /\ Now \in Millis /\ fresh \in Nat /\ peer \in Peer /\ hs \in Handshake
      /\ ~NoKeypair.valid /\ \A s \in Slots : ~NoKeys[s].valid /\ NoKeys[s] = NoKeypair
  BY InvTypes DEF TypeOK, NoKeys, NoKeypair
<1>3. /\ k2 \in KeyTable
      /\ \A s \in Slots : k2[s] = keys[s] \/ ~k2[s].valid
      /\ k2["curr"].valid => ~Stale(keys["curr"], m)
      /\ LostToAge(keys, k2, m)
  <2>1. k1 \in KeyTable /\ (k1 = keys \/ k1 = NoKeys)
    BY <1>2, ConstantTypes
  <2>2. CASE k1 = NoKeys
    <3>1. k2 = NoKeys
      BY <1>2, <2>2 DEF ShouldDestroyCurrent, Slots
    <3>. HIDE DEF k2
    <3>. QED BY <3>1, <1>2, ConstantTypes DEF LostToAge, Slots
  <2>3. CASE k1 = keys
    <3>1. CASE ShouldDestroyCurrent(keys, m)
      <4>1. k2 = [keys EXCEPT !["curr"] = NoKeypair] /\ Stale(keys["curr"], m)
        BY <2>3, <3>1 DEF ShouldDestroyCurrent
      <4>2. k2 \in KeyTable
        BY <4>1, <1>2, ConstantTypes DEF KeyTable, Slots
      <4>3. k2["curr"] = NoKeypair /\ \A s \in Slots : s # "curr" => k2[s] = keys[s]
        BY <4>1, <1>2 DEF KeyTable, Slots
      <4>. HIDE DEF k2
      <4>. QED BY <4>1, <4>2, <4>3, <1>2 DEF LostToAge, Slots
    <3>2. CASE ~ShouldDestroyCurrent(keys, m)
      <4>1. k2 = keys
        BY <2>3, <3>2
      <4>. HIDE DEF k2
      <4>. QED BY <4>1, <3>2, <1>2 DEF ShouldDestroyCurrent, LostToAge
    <3>. QED BY <3>1, <3>2
  <2>. QED BY <2>1, <2>2, <2>3
<1>4. p1 \in Peer /\ p1.valid = peer.valid /\ p1.greatest_timestamp = peer.greatest_timestamp
  <2>1. peer.connect_ip \in Address \cup {AnyAddr}
    BY <1>2 DEF Peer
  <2>. QED BY <1>2, <2>1 DEF Peer
<1>5. h1 = hs \/ ~h1.valid
  BY DEF NoHandshake
<1>6. h1 \in Handshake
  BY <1>2, ConstantTypes
<1>. HIDE DEF k2, p1, h1
<1>7. /\ Thinned(k2, out.keys) /\ LostToAge(k2, out.keys, m)
      /\ k2 = NoKeys => out.keys = NoKeys
      /\ out.peer.valid = p1.valid /\ out.peer.greatest_timestamp = p1.greatest_timestamp
      /\ out.keys \in KeyTable /\ out.peer \in Peer
  <2>1. CASE out \in OutputToPeer(k2, p1, m)
    BY <2>1, <1>2, <1>3, <1>4, OutputThins, OutputType
  <2>2. CASE out = Unsent(k2, p1)
    BY <2>2, <1>3, <1>4 DEF Unsent, Thinned, Kept, LostToAge, Same
  <2>. QED BY <1>1, <2>1, <2>2
<1>8. /\ Thinned(keys, keys') /\ LostToAge(keys, keys', Now)
      /\ keys'["curr"].valid => ~Stale(keys["curr"], Now)
  <2>1. keys' = out.keys /\ "curr" \in Slots
    BY <1>1 DEF Slots
  <2>2. Thinned(keys, out.keys)
    <3>1. ASSUME NEW t \in Slots, out.keys[t].valid
          PROVE  Kept(keys[t], out.keys[t]) /\ out.keys[t].last_rx = keys[t].last_rx
      <4>1. Kept(k2[t], out.keys[t]) /\ out.keys[t].last_rx = k2[t].last_rx
        BY <1>7, <3>1 DEF Thinned
      <4>2. k2[t].valid
        BY <3>1, <4>1 DEF Kept, Same
      <4>3. k2[t] = keys[t]
        BY <1>3, <4>2
      <4>. QED BY <4>1, <4>3
    <3>. QED BY <3>1 DEF Thinned
  <2>3. out.keys["curr"].valid => k2["curr"].valid
    BY <1>7, <2>1 DEF Thinned, Kept, Same
  <2>4. LostToAge(keys, out.keys, m)
    <3>1. SUFFICES ASSUME keys["curr"].valid, ~out.keys["curr"].valid
                   PROVE  Stale(keys["curr"], m) \/ out.keys = NoKeys
      BY DEF LostToAge
    <3>2. CASE k2["curr"].valid
      BY <3>1, <3>2, <1>3, <1>7, <2>1 DEF LostToAge
    <3>3. CASE ~k2["curr"].valid
      BY <3>1, <3>3, <1>3, <1>7 DEF LostToAge
    <3>. QED BY <3>2, <3>3
  <2>. QED BY <2>1, <2>2, <2>3, <2>4, <1>3
<1>9. CASE ShouldSendInitiation(out.keys, out.peer, m)
  <2>1. PICK ini \in Initiated(out.keys, h1, out.peer, m) :
           /\ fresh < MaxEph /\ hs' = ini.hs /\ peer' = ini.peer /\ fresh' = fresh + ini.drawn
    BY <1>1, <1>9, Zenon
  <2>2. /\ ini.hs.key = fresh + 1 /\ ini.drawn = 1 /\ ini.peer.valid = out.peer.valid
    BY <2>1, <1>2, <1>6, <1>7, InitiatedType
  <2>3. ini.peer.greatest_timestamp = out.peer.greatest_timestamp
    <3>1. PICK room \in Results("pbuf_alloc") :
             ini.peer = IF room THEN [out.peer EXCEPT !.send_handshake = FALSE,
                                                      !.last_initiation_tx = m, !.mac1 = fresh + 1]
                                ELSE out.peer
      BY <2>1 DEF Initiated
    <3>. QED BY <3>1, <1>7 DEF Peer
  <2>. QED BY <2>1, <2>2, <2>3, <1>1, <1>4, <1>7, <1>8
<1>10. CASE ~ShouldSendInitiation(out.keys, out.peer, m)
  <2>1. hs' = h1 /\ peer' = out.peer /\ fresh' = fresh + 0
    BY <1>1, <1>10
  <2>2. fresh' = fresh
    BY <2>1, <1>2
  <2>. QED BY <2>1, <2>2, <1>1, <1>4, <1>5, <1>7, <1>8
<1>. QED BY <1>9, <1>10

\* A data packet either finds its session stale, which ends it, or is heard on
\* it; the first one on the next session makes that the current one.
LEMMA RxDataMoves ==
    ASSUME TypeOK, NEW i \in LocalIndex, NEW e \in 0 .. fresh, NEW c \in 0 .. MaxRxCtr,
           NEW a \in Address, RxData(i, e, c, a)
    PROVE  /\ peer.valid /\ peer'.valid = peer.valid
           /\ peer'.greatest_timestamp = peer.greatest_timestamp
           /\ \E s \in Slots :
                 \/ /\ Thinned(keys, keys') /\ LostToAge(keys, keys', Now)
                    /\ UNCHANGED <<linkUp, confirmed>>
                 \/ /\ linkUp' = TRUE /\ confirmed' = confirmed \cup {keys[s].key}
                    /\ keys[s].valid /\ ~Stale(keys[s], Now)
                    /\ s # "next" =>
                          \A t \in Slots : /\ Same(keys[t], keys'[t])
                                           /\ keys'[t].last_rx = IF t = s THEN Now ELSE keys[t].last_rx
                    /\ s = "next" =>
                          /\ Same(keys["curr"], keys'["prev"])
                          /\ Same(keys["next"], keys'["curr"]) /\ keys'["curr"].last_rx = Now
                          /\ ~keys'["next"].valid
<1>1. PICK s \in KeypairForIdx(keys, i) :
         \/ /\ Stale(keys[s], Now)
            /\ keys' = [keys EXCEPT ![s] = NoKeypair]
            /\ UNCHANGED <<peer, linkUp, confirmed, promoted, delivered, again>>
         \/ /\ ~Stale(keys[s], Now)
            /\ e = keys[s].key
            /\ Authentic(s, e, c, a)
  BY DEF RxData
<1>2. s \in Slots /\ keys[s].valid
  BY <1>1 DEF KeypairForIdx, HasIndex, Slots
<1>3. keys \in KeyTable /\ keys[s] \in Keypair /\ Now \in Millis /\ peer \in Peer
  BY <1>2, InvTypes DEF TypeOK, KeyTable
<1>4. peer.valid
  BY DEF RxData
<1>5. CASE /\ Stale(keys[s], Now)
           /\ keys' = [keys EXCEPT ![s] = NoKeypair]
           /\ UNCHANGED <<peer, linkUp, confirmed, promoted, delivered, again>>
  <2>1. \A t \in Slots : keys'[t] = keys[t] \/ (t = s /\ ~keys'[t].valid)
    BY <1>2, <1>3, <1>5 DEF KeyTable, NoKeypair
  <2>2. Thinned(keys, keys') /\ LostToAge(keys, keys', Now)
    BY <2>1, <1>5 DEF Thinned, Kept, Same, LostToAge, Slots
  <2>. QED BY <1>2, <1>4, <1>5, <2>2
<1>6. CASE ~Stale(keys[s], Now) /\ e = keys[s].key /\ Authentic(s, e, c, a)
  <2>. DEFINE heard   == [keys EXCEPT ![s].last_rx = Now]
              shifted == KeypairUpdate(heard, s)
  <2>1. /\ heard \in KeyTable
        /\ \A t \in Slots : /\ Same(keys[t], heard[t])
                             /\ heard[t].last_rx = IF t = s THEN Now ELSE keys[t].last_rx
    <3>1. heard[s] = [keys[s] EXCEPT !.last_rx = Now] /\ \A t \in Slots : t # s => heard[t] = keys[t]
      BY <1>2, <1>3 DEF KeyTable
    <3>2. heard[s] \in Keypair
      BY <3>1, <1>3 DEF Keypair
    <3>3. heard \in KeyTable
      BY <1>3, <3>2 DEF KeyTable
    <3>. HIDE DEF heard
    <3>. QED BY <3>1, <3>3, <1>3 DEF Same, Keypair
  <2>2. /\ shifted \in KeyTable
        /\ s # "next" => shifted = heard
        /\ s = "next" => /\ shifted["prev"] = heard["curr"] /\ shifted["curr"] = heard["next"]
                         /\ ~shifted["next"].valid
    <3>. HIDE DEF heard
    <3>1. shifted \in KeyTable
      BY <1>2, <2>1, UpdateType
    <3>. QED BY <3>1, <2>1 DEF KeypairUpdate, KeyTable, Slots, NoKeypair
  <2>3. \/ keys' = shifted
        \/ keys' = [shifted EXCEPT ![s].replay = CheckReplay(@, c)]
    BY <1>6 DEF Authentic
  <2>. HIDE DEF heard, shifted
  <2>4. \A t \in Slots : Same(shifted[t], keys'[t]) /\ keys'[t].last_rx = shifted[t].last_rx
    <3>1. CASE keys' = shifted
      BY <3>1 DEF Same
    <3>2. CASE keys' = [shifted EXCEPT ![s].replay = CheckReplay(@, c)]
      <4>1. keys'[s] = [shifted[s] EXCEPT !.replay = CheckReplay(@, c)]
            /\ shifted[s] \in Keypair /\ \A t \in Slots : t # s => keys'[t] = shifted[t]
        BY <1>2, <2>2, <3>2 DEF KeyTable
      <4>. QED BY <4>1 DEF Keypair, Same
    <3>. QED BY <2>3, <3>1, <3>2
  <2>5. /\ linkUp' = TRUE /\ confirmed' = confirmed \cup {keys[s].key}
        /\ peer'.valid = peer.valid /\ peer'.greatest_timestamp = peer.greatest_timestamp
    BY <1>3, <1>6 DEF Authentic, Peer
  <2>6. s # "next" => \A t \in Slots : /\ Same(keys[t], keys'[t])
                                       /\ keys'[t].last_rx = IF t = s THEN Now ELSE keys[t].last_rx
    BY <2>1, <2>2, <2>4 DEF Same
  <2>7. s = "next" => /\ Same(keys["curr"], keys'["prev"])
                      /\ Same(keys["next"], keys'["curr"]) /\ keys'["curr"].last_rx = Now
                      /\ ~keys'["next"].valid
    BY <2>1, <2>2, <2>4 DEF Same, Slots
  <2>. QED BY <1>2, <1>4, <1>6, <2>5, <2>6, <2>7
<1>. QED BY <1>1, <1>5, <1>6

-----------------------------------------------------------------------------
(* The second invariant *)

\* without a peer there is nothing of it, and what it sent was not too new
Registered(p, k, ans) ==
    /\ ~p.valid => ans = {} /\ \A s \in Slots : ~k[s].valid
    /\ \A ts \in ans : ts <= p.greatest_timestamp

\* closed sessions are none of those live, pending or still to come
Ended(k, h, fr, cl) ==
    /\ \A n \in cl : n <= fr
    /\ h.valid => h.key \notin cl
    /\ \A s \in Slots : k[s].valid => k[s].key \notin cl

\* nobody has confirmed what waits: the next session and the pending handshake
Waiting(k, h, fr, cf) ==
    /\ \A n \in cf : n <= fr
    /\ k["next"].valid => k["next"].key \notin cf
    /\ h.valid => h.key \notin cf

SInv ==
    /\ Registered(peer, keys, answered)
    /\ Ended(keys, hs, fresh, closed)
    /\ Waiting(keys, hs, fresh, confirmed)
    /\ SessionImpliesLink

LEMMA InitSessions == Init => SInv
<1>. SUFFICES ASSUME Init PROVE SInv
  OBVIOUS
<1>1. ~hs.valid /\ \A s \in Slots : ~keys[s].valid
  BY DEF Init, NoKeys, NoKeypair, NoHandshake
<1>. QED BY <1>1 DEF Init, SInv, Registered, Ended, Waiting, SessionImpliesLink, Slots

\* What thinning the slots out, with or without a new pending handshake, leaves
\* as it was.
LEMMA ThinnedKeeps ==
    ASSUME IInv, SInv, Thinned(keys, keys'),
           UNCHANGED <<confirmed, closed, answered>>,
           peer'.valid = peer.valid, peer'.greatest_timestamp = peer.greatest_timestamp,
           \/ (hs' = hs \/ ~hs'.valid) /\ fresh' = fresh
           \/ hs'.key = fresh + 1 /\ fresh' = fresh + 1,
           linkUp' = linkUp \/ linkUp' = (linkUp /\ PeerIsUp(keys'))
    PROVE  SInv'
<1>1. fresh \in Nat /\ fresh <= fresh' /\ (\A n \in closed : n \in Nat) /\ \A n \in confirmed : n \in Nat
  BY InvTypes DEF IInv, TypeOK
<1>2. \A s \in Slots : keys'[s].valid => keys[s].valid /\ keys'[s].key = keys[s].key
  BY DEF Thinned, Kept, Same
<1>3. Registered(peer, keys, answered)'
  BY <1>2 DEF SInv, Registered
<1>4. Ended(keys, hs, fresh, closed)'
  BY <1>1, <1>2 DEF SInv, Ended
<1>5. Waiting(keys, hs, fresh, confirmed)'
  BY <1>1, <1>2 DEF SInv, Waiting, Slots
<1>6. SessionImpliesLink'
  BY <1>2 DEF SInv, SessionImpliesLink, PeerIsUp, Slots
<1>. QED BY <1>3, <1>4, <1>5, <1>6 DEF SInv

LEMMA SessionsOutput == ASSUME IInv, SInv, Output PROVE SInv'
<1>1. PICK out \in OutputToPeer(keys, peer, Now) : keys' = out.keys /\ peer' = out.peer
  BY DEF Output
<1>2. /\ Thinned(keys, keys') /\ peer'.valid = peer.valid
      /\ peer'.greatest_timestamp = peer.greatest_timestamp
  BY <1>1, InvTypes, OutputThins DEF IInv, TypeOK
<1>. QED BY <1>2, ThinnedKeeps DEF Output

LEMMA SessionsRxInitiation ==
    ASSUME IInv, SInv, NEW ts \in 1 .. MaxTs, NEW a \in Address, RxInitiation(ts, a)
    PROVE  SInv'
<1>1. PICK i \in FreshIndices(keys, hs) :
         keys' = AddNewKeypair(keys, NewKeypair(FALSE, fresh + 1, i, Now))
  BY DEF RxInitiation, Responded
<1>2. /\ keys'["next"].key = fresh + 1 /\ keys'["curr"] = keys["curr"] /\ ~keys'["prev"].valid
  <2>1. Added(keys, keys', FALSE, fresh + 1, Now)
    BY <1>1, InvTypes, AddNewSlots DEF IInv
  <2>. QED BY <2>1 DEF Added
<1>3. /\ fresh \in Nat /\ fresh' = fresh + 1 /\ ~hs'.valid
      /\ UNCHANGED <<linkUp, confirmed, closed>>
      /\ (\A n \in closed : n \in Nat) /\ \A n \in confirmed : n \in Nat
  BY InvTypes DEF IInv, TypeOK, RxInitiation, NoHandshake
<1>4. Registered(peer, keys, answered)'
  <2>1. /\ peer' = [peer EXCEPT !.last_initiation_rx = Now, !.greatest_timestamp = ts, !.ip = a]
        /\ peer.valid /\ peer \in Peer /\ answered' = answered \cup {ts}
        /\ ts > peer.greatest_timestamp
    BY DEF RxInitiation, AcceptsInitiation, IInv, TypeOK
  <2>2. peer'.valid /\ peer'.greatest_timestamp = ts /\ peer.greatest_timestamp \in Nat
    BY <2>1 DEF Peer
  <2>3. \A t \in answered : t \in Nat /\ t <= peer.greatest_timestamp
    BY DEF IInv, TypeOK, SInv, Registered
  <2>. QED BY <2>1, <2>2, <2>3 DEF Registered
<1>5. Ended(keys, hs, fresh, closed)'
  BY <1>2, <1>3 DEF SInv, Ended, Slots
<1>6. Waiting(keys, hs, fresh, confirmed)'
  BY <1>2, <1>3 DEF SInv, Waiting
<1>7. SessionImpliesLink'
  BY <1>2, <1>3 DEF SInv, SessionImpliesLink
<1>. QED BY <1>4, <1>5, <1>6, <1>7 DEF SInv

\* The slots between the start of the session and the keepalive that confirms it.
LEMMA RxResponseSlots ==
    ASSUME TypeOK, NEW e \in 1 .. fresh, NEW a \in Address, RxResponse(e, a)
    PROVE  \E k \in KeyTable :
              /\ k["curr"].valid /\ k["curr"].initiator /\ k["curr"].key = e
              /\ k["curr"].keypair_millis = Now /\ k["curr"].sending_counter = 0
              /\ k["curr"].replay = EmptyWindow /\ ~k["next"].valid
              /\ k["prev"] = keys["curr"] \/ k["prev"] = keys["next"]
              /\ Thinned(k, keys') /\ LostToAge(k, keys', Now)
              /\ peer.valid /\ peer'.valid
              /\ peer'.greatest_timestamp = peer.greatest_timestamp
<1>. DEFINE p == [peer EXCEPT !.ip = a]
            i == hs.local_index
            k == AddNewKeypair(keys, NewKeypair(TRUE, e, i, Now))
<1>1. /\ p \in Peer /\ p.valid = peer.valid /\ p.greatest_timestamp = peer.greatest_timestamp
      /\ peer.valid
  BY DEF TypeOK, Peer, RxResponse
<1>2. keys \in KeyTable /\ Now \in Millis /\ e \in Nat /\ i \in LocalIndex \cup {NoIndex}
  BY InvTypes DEF TypeOK, Handshake
<1>3. k \in KeyTable
  BY <1>2, NewKeypairType, AddNewType
<1>4. /\ k["curr"].valid /\ k["curr"].initiator /\ k["curr"].key = e
      /\ k["curr"].keypair_millis = Now /\ k["curr"].sending_counter = 0
      /\ k["curr"].replay = EmptyWindow /\ ~k["next"].valid
      /\ k["prev"] = keys["curr"] \/ k["prev"] = keys["next"]
  <2>1. Added(keys, k, TRUE, e, Now)
    BY <1>2, AddNewSlots
  <2>. HIDE DEF k
  <2>. QED BY <2>1 DEF Added
<1>5. PICK out \in OutputToPeer(k, p, Now) : keys' = out.keys /\ peer' = out.peer
  BY DEF RxResponse
<1>. HIDE DEF k, p
<1>6. /\ Thinned(k, keys') /\ LostToAge(k, keys', Now)
      /\ peer'.valid = p.valid /\ peer'.greatest_timestamp = p.greatest_timestamp
  BY <1>1, <1>2, <1>3, <1>5, OutputThins
<1>. QED BY <1>1, <1>3, <1>4, <1>6

LEMMA SessionsRxResponse ==
    ASSUME IInv, SInv, NEW e \in 1 .. fresh, NEW a \in Address, RxResponse(e, a)
    PROVE  SInv'
<1>1. PICK k \in KeyTable :
              /\ k["curr"].key = e /\ ~k["next"].valid
              /\ k["prev"] = keys["curr"] \/ k["prev"] = keys["next"]
              /\ Thinned(k, keys')
              /\ peer.valid /\ peer'.valid
              /\ peer'.greatest_timestamp = peer.greatest_timestamp
  BY RxResponseSlots DEF IInv
<1>2. /\ linkUp' = TRUE /\ ~hs'.valid /\ hs.valid /\ hs.key = e
      /\ confirmed' = confirmed \cup {e} /\ UNCHANGED <<fresh, closed, answered>>
      /\ fresh \in Nat /\ e <= fresh
  BY InvTypes DEF RxResponse, NoHandshake, IInv
<1>3. \A s \in Slots : keys'[s].valid => k[s].valid /\ keys'[s].key = k[s].key
  BY <1>1 DEF Thinned, Kept, Same
<1>4. Registered(peer, keys, answered)'
  BY <1>1, <1>2 DEF SInv, Registered
<1>5. Ended(keys, hs, fresh, closed)'
  BY <1>1, <1>2, <1>3 DEF SInv, Ended, Slots
<1>6. Waiting(keys, hs, fresh, confirmed)'
  BY <1>1, <1>2, <1>3 DEF SInv, Waiting, Slots
<1>7. SessionImpliesLink'
  BY <1>2 DEF SessionImpliesLink
<1>. QED BY <1>4, <1>5, <1>6, <1>7 DEF SInv

LEMMA SessionsRxData ==
    ASSUME IInv, SInv, NEW i \in LocalIndex, NEW e \in 0 .. fresh, NEW c \in 0 .. MaxRxCtr,
           NEW a \in Address, RxData(i, e, c, a)
    PROVE  SInv'
<1>1. /\ peer.valid /\ peer'.valid = peer.valid
      /\ peer'.greatest_timestamp = peer.greatest_timestamp
      /\ UNCHANGED <<hs, fresh, closed, answered>>
  BY RxDataMoves DEF RxData, IInv
<1>2. CASE Thinned(keys, keys') /\ UNCHANGED <<linkUp, confirmed>>
  BY <1>1, <1>2, ThinnedKeeps
<1>3. ASSUME NEW s \in Slots, linkUp' = TRUE, confirmed' = confirmed \cup {keys[s].key},
             keys[s].valid,
             s # "next" => \A t \in Slots : Same(keys[t], keys'[t]),
             s = "next" => /\ Same(keys["curr"], keys'["prev"])
                           /\ Same(keys["next"], keys'["curr"]) /\ ~keys'["next"].valid
      PROVE  SInv'
  <2>1. /\ \A t \in Slots : keys[t].key \in Nat
        /\ keys[s].key <= fresh /\ (hs.valid => keys[s].key < hs.key)
        /\ keys["next"].valid /\ s # "next" => keys[s].key # keys["next"].key
    <3>1. \A t \in Slots : keys[t].key \in Nat
      BY InvTypes DEF IInv, KeyTable, Keypair
    <3>2. keys[s].key <= fresh /\ (hs.valid => keys[s].key < hs.key)
      BY <1>3 DEF IInv, SlotInv, Drawn, Ordered
    <3>3. keys["next"].valid /\ s # "next" => keys[s].key # keys["next"].key
      BY <1>3, InvTypes, OneSlot DEF IInv, SlotInv, Slots
    <3>. QED BY <3>1, <3>2, <3>3
  <2>2. \A t \in Slots : keys'[t].valid => \E r \in Slots : keys[r].valid /\ keys'[t].key = keys[r].key
    BY <1>3 DEF Same, Slots
  <2>3. Registered(peer, keys, answered)'
    BY <1>1 DEF SInv, Registered
  <2>4. Ended(keys, hs, fresh, closed)'
    BY <1>1, <2>2 DEF SInv, Ended
  <2>5. Waiting(keys, hs, fresh, confirmed)'
    <3>1. \A n \in confirmed' : n <= fresh'
      BY <1>1, <1>3, <2>1 DEF SInv, Waiting
    <3>2. keys'["next"].valid => keys'["next"].key \notin confirmed'
      BY <1>3, <2>1 DEF SInv, Waiting, Same, Slots
    <3>3. hs'.valid => hs'.key \notin confirmed'
      BY <1>1, <1>3, <2>1 DEF SInv, Waiting
    <3>. QED BY <3>1, <3>2, <3>3 DEF Waiting
  <2>6. SessionImpliesLink'
    BY <1>3 DEF SessionImpliesLink
  <2>. QED BY <2>3, <2>4, <2>5, <2>6 DEF SInv
<1>. QED BY RxDataMoves, <1>2, <1>3 DEF IInv

LEMMA SessionsCalls ==
    ASSUME IInv, SInv, \/ Connect \/ Disconnect \/ RemovePeer
                       \/ \E a \in Address \cup {AnyAddr} : AddPeer(a) \/ UpdateEndpoint(a)
    PROVE  SInv'
<1>1. peer \in Peer /\ ~NoPeer.valid /\ ~NoHandshake.valid /\ \A s \in Slots : ~NoKeys[s].valid
  BY DEF IInv, TypeOK, NoPeer, NoHandshake, NoKeys, NoKeypair
<1>2. CASE Connect \/ \E a \in Address \cup {AnyAddr} : UpdateEndpoint(a)
  <2>1. peer'.valid = peer.valid /\ peer'.greatest_timestamp = peer.greatest_timestamp
    BY <1>1, <1>2 DEF Connect, UpdateEndpoint, Peer
  <2>2. UNCHANGED <<keys, hs, linkUp, fresh, confirmed, closed, answered>>
    BY <1>2 DEF Connect, UpdateEndpoint, history
  <2>. QED BY <2>1, <2>2, ThinnedKeeps DEF Thinned, Kept, Same
<1>3. ASSUME NEW a \in Address \cup {AnyAddr}, AddPeer(a) PROVE SInv'
  <2>1. peer'.valid /\ ~peer.valid
    BY <1>3, NewPeerType DEF AddPeer
  <2>2. UNCHANGED <<keys, hs, linkUp, fresh, confirmed, closed, answered>>
    BY <1>3 DEF AddPeer, history
  <2>3. answered = {}
    BY <2>1 DEF SInv, Registered
  <2>. QED BY <2>1, <2>2, <2>3 DEF SInv, Registered, Ended, Waiting, SessionImpliesLink
<1>4. CASE Disconnect \/ RemovePeer
  <2>1. /\ keys' = NoKeys /\ closed' = closed \cup LiveSessions /\ (hs' = hs \/ ~hs'.valid)
        /\ UNCHANGED <<fresh, confirmed>>
    BY <1>1, <1>4 DEF Disconnect, RemovePeer
  <2>2. \A n \in LiveSessions : n <= fresh /\ (hs.valid => n # hs.key)
    <3>1. \A s \in Slots : keys[s].key \in Nat
      BY InvTypes DEF IInv, KeyTable, Keypair
    <3>. QED BY <3>1 DEF LiveSessions, IInv, SlotInv, Drawn, Ordered
  <2>3. Registered(peer, keys, answered)'
    <3>1. CASE Disconnect
      BY <1>1, <2>1, <3>1 DEF Disconnect, SInv, Registered, Peer
    <3>2. CASE RemovePeer
      BY <1>1, <2>1, <3>2 DEF RemovePeer, Registered
    <3>. QED BY <1>4, <3>1, <3>2
  <2>4. Ended(keys, hs, fresh, closed)'
    BY <1>1, <2>1, <2>2 DEF SInv, Ended
  <2>5. Waiting(keys, hs, fresh, confirmed)'
    BY <1>1, <2>1 DEF SInv, Waiting, Slots
  <2>6. SessionImpliesLink'
    BY <1>1, <2>1 DEF SessionImpliesLink, Slots
  <2>. QED BY <2>3, <2>4, <2>5, <2>6 DEF SInv
<1>. QED BY <1>2, <1>3, <1>4

LEMMA SessionsStep == ASSUME IInv, SInv, [Next]_vars PROVE SInv'
<1>1. CASE Receive
  <2>1. ASSUME NEW e, NEW a, RxCookie(e, a) PROVE SInv'
    <3>1. peer'.valid = peer.valid /\ peer'.greatest_timestamp = peer.greatest_timestamp
      BY <2>1 DEF RxCookie, IInv, TypeOK, Peer
    <3>2. UNCHANGED <<keys, hs, linkUp, fresh, confirmed, closed, answered>>
      BY <2>1 DEF RxCookie, history
    <3>. QED BY <3>1, <3>2, ThinnedKeeps DEF Thinned, Kept, Same
  <2>. QED BY <1>1, <2>1, SessionsRxInitiation, SessionsRxResponse, SessionsRxData DEF Receive
<1>2. CASE Application
  BY <1>2, SessionsOutput, SessionsCalls DEF Application
<1>3. CASE Timer
  <2>1. UNCHANGED <<confirmed, closed, answered>>
    BY <1>3 DEF Timer
  <2>. QED BY <1>3, <2>1, TimerThins, ThinnedKeeps DEF IInv
<1>4. CASE TimerNoPeer
  <2>1. \A s \in Slots : ~keys[s].valid
    BY <1>4 DEF TimerNoPeer, SInv, Registered
  <2>. QED BY <1>4, <2>1 DEF TimerNoPeer, history, SInv, Registered, Ended, Waiting,
                             SessionImpliesLink, Slots
<1>5. CASE Tick \/ UNCHANGED vars
  BY <1>5 DEF Tick, vars, history, SInv, Registered, Ended, Waiting, SessionImpliesLink
<1>. QED BY <1>1, <1>2, <1>3, <1>4, <1>5 DEF Next

THEOREM Sessions == Spec => []SInv
  BY InitSessions, SessionsStep, Invariant, PTL DEF Spec

-----------------------------------------------------------------------------
(* What follows from it *)

\* An initiation that was answered is answered never again, however often it is
\* replayed and whatever came in between, until the peer is removed.
THEOREM InitiationsOnce == Spec => []InitiationOnce
<1>1. IInv /\ SInv => InitiationOnce
  <2>. SUFFICES ASSUME IInv, SInv, NEW ts \in answered, ts > peer.greatest_timestamp PROVE FALSE
    BY DEF InitiationOnce, AcceptsInitiation
  <2>1. ts \in Nat /\ peer.greatest_timestamp \in Nat
    BY DEF IInv, TypeOK, Peer
  <2>. QED BY <2>1 DEF SInv, Registered
<1>. QED BY <1>1, Invariant, Sessions, PTL

\* What disconnect or remove_peer ended is not brought back by any late message.
THEOREM ClosedForGood == Spec => []ClosedStaysClosed
<1>1. SInv => ClosedStaysClosed
  BY DEF SInv, Ended, ClosedStaysClosed, LiveSessions
<1>. QED BY <1>1, Sessions, PTL

\* The flag of the interface never lags behind the sessions.
THEOREM LinkWithSession == Spec => []SessionImpliesLink
<1>1. SInv => SessionImpliesLink
  BY DEF SInv
<1>. QED BY <1>1, Sessions, PTL

-----------------------------------------------------------------------------
(* Which session is sent on.  A responder's session that became current in   *)
(* the millisecond 0 of the clock would look as if nothing had been received *)
(* on it (last_rx = 0), and the previous one would be sent on again: the     *)
(* theorems of this part are about the behaviours whose clock is never 0.    *)

CurrentSends == keys["curr"].valid => CanSend(keys["curr"])

LEMMA CurrentSendsStep ==
    ASSUME IInv, CurrentSends, Now # 0, [Next]_vars
    PROVE  CurrentSends'
<1>1. "curr" \in Slots /\ "next" \in Slots
  BY DEF Slots
<1>2. ASSUME Thinned(keys, keys') PROVE CurrentSends'
  BY <1>1, <1>2 DEF CurrentSends, Thinned, Kept, Same, CanSend
<1>3. ASSUME Receive PROVE CurrentSends'
  <2>1. ASSUME NEW ts \in 1 .. MaxTs, NEW b \in Address, RxInitiation(ts, b) PROVE CurrentSends'
    <3>1. PICK i \in FreshIndices(keys, hs) :
             keys' = AddNewKeypair(keys, NewKeypair(FALSE, fresh + 1, i, Now))
      BY <2>1 DEF RxInitiation, Responded
    <3>2. Added(keys, keys', FALSE, fresh + 1, Now)
      BY <3>1, InvTypes, AddNewSlots DEF IInv
    <3>. QED BY <3>2 DEF Added, CurrentSends
  <2>2. ASSUME NEW e \in 1 .. fresh, NEW b \in Address, RxResponse(e, b) PROVE CurrentSends'
    <3>1. PICK k \in KeyTable : k["curr"].initiator /\ Thinned(k, keys')
      BY <2>2, RxResponseSlots DEF IInv
    <3>. QED BY <3>1, <1>1 DEF Thinned, Kept, Same, CurrentSends, CanSend
  <2>3. ASSUME NEW e, NEW b, RxCookie(e, b) PROVE CurrentSends'
    BY <2>3 DEF RxCookie, CurrentSends
  <2>4. ASSUME NEW i \in LocalIndex, NEW e \in 0 .. fresh, NEW c \in 0 .. MaxRxCtr,
               NEW b \in Address, RxData(i, e, c, b)
        PROVE  CurrentSends'
    <3>1. PICK s \in Slots :
             \/ Thinned(keys, keys')
             \/ /\ s # "next" =>
                      \A t \in Slots : /\ Same(keys[t], keys'[t])
                                       /\ keys'[t].last_rx = IF t = s THEN Now ELSE keys[t].last_rx
                /\ s = "next" => keys'["curr"].last_rx = Now
      BY <2>4, RxDataMoves DEF IInv
    <3>. QED BY <3>1, <1>1, <1>2 DEF Same, CurrentSends, CanSend
  <2>. QED BY <1>3, <2>1, <2>2, <2>3, <2>4 DEF Receive
<1>4. ASSUME Application \/ Timer \/ TimerNoPeer \/ Tick \/ UNCHANGED vars PROVE CurrentSends'
  <2>1. CASE Output
    BY <2>1, <1>2, InvTypes, OutputThins DEF Output, IInv, TypeOK
  <2>2. CASE Timer
    BY <2>2, <1>2, TimerThins DEF IInv
  <2>3. CASE keys' = keys \/ keys' = NoKeys
    BY <2>3, <1>1 DEF CurrentSends, NoKeys, NoKeypair
  <2>. QED BY <1>4, <2>1, <2>2, <2>3 DEF Application, Connect, Disconnect, RemovePeer, AddPeer,
                                      UpdateEndpoint, TimerNoPeer, Tick, vars
<1>. QED BY <1>3, <1>4 DEF Next

THEOREM CurrentIsSentOn == Spec /\ [](Now # 0) => []CurrentSends
<1>1. Init => CurrentSends
  BY DEF Init, CurrentSends, NoKeys, NoKeypair, Slots
<1>. QED BY <1>1, CurrentSendsStep, Invariant, PTL DEF Spec

\* No confirmed session is younger than the one packets go out on.
THEOREM NewestIsSentOn == Spec /\ [](Now # 0) => []SendsOnNewest
<1>1. IInv /\ SInv /\ CurrentSends => SendsOnNewest
  <2>. SUFFICES ASSUME IInv, SInv, CurrentSends, CanSend(keys[SendingSlot(keys)]),
                       NEW s \in Slots, keys[s].valid, keys[s].key \in confirmed
                PROVE  keys[s].key <= keys[SendingSlot(keys)].key
    BY DEF SendsOnNewest
  <2>1. SendingSlot(keys) = "curr" /\ keys["curr"].valid
    BY DEF CurrentSends, SendingSlot, CanSend
  <2>2. \A t \in Slots : keys[t].key \in Nat
    BY InvTypes DEF IInv, KeyTable, Keypair
  <2>3. s # "next"
    BY DEF SInv, Waiting
  <2>4. s = "prev" => keys[s].key < keys["curr"].key
    BY <2>1 DEF IInv, SlotInv, Ordered
  <2>. QED BY <2>1, <2>2, <2>3, <2>4 DEF Slots
<1>. QED BY <1>1, Invariant, Sessions, CurrentIsSentOn, PTL

LEMMA SendingStep ==
    ASSUME RejectAfterTime % ClockMod > 0, RejectAfterMessages > 0,
           IInv, CurrentSends, CurrentSends', [Next]_vars,
           CanSend(keys[SendingSlot(keys)]), ~CanSend(keys'[SendingSlot(keys')])
    PROVE  Stale(keys[SendingSlot(keys)], Now) \/ keys' = NoKeys
<1>1. SendingSlot(keys) = "curr" /\ keys["curr"].valid
  BY DEF CurrentSends, SendingSlot, CanSend
<1>2. ~keys'["curr"].valid
  BY DEF CurrentSends, SendingSlot, CanSend
<1>3. ASSUME LostToAge(keys, keys', Now) PROVE Stale(keys["curr"], Now) \/ keys' = NoKeys
  BY <1>1, <1>2, <1>3 DEF LostToAge
<1>4. keys' # keys
  BY <1>1, <1>2
<1>5. ASSUME Receive PROVE Stale(keys["curr"], Now) \/ keys' = NoKeys
  <2>1. ASSUME NEW ts \in 1 .. MaxTs, NEW b \in Address, RxInitiation(ts, b) PROVE FALSE
    <3>1. PICK i \in FreshIndices(keys, hs) :
             keys' = AddNewKeypair(keys, NewKeypair(FALSE, fresh + 1, i, Now))
      BY <2>1 DEF RxInitiation, Responded
    <3>2. Added(keys, keys', FALSE, fresh + 1, Now)
      BY <3>1, InvTypes, AddNewSlots DEF IInv
    <3>. QED BY <3>2, <1>1, <1>2 DEF Added
  <2>2. ASSUME NEW e \in 1 .. fresh, NEW b \in Address, RxResponse(e, b) PROVE keys' = NoKeys
    <3>1. PICK k \in KeyTable :
             /\ k["curr"].valid /\ k["curr"].keypair_millis = Now
             /\ k["curr"].sending_counter = 0 /\ LostToAge(k, keys', Now)
      BY <2>2, RxResponseSlots DEF IInv
    <3>2. Now \in Int /\ ClockMod \in Nat \ {0} /\ RejectAfterMessages \in Nat
      BY InvTypes, PeerAssumption DEF IInv, Millis
    <3>3. (Now - Now) % ClockMod = 0
      BY <3>2
    <3>4. ~Stale(k["curr"], Now)
      <4>1. RejectAfterTime % ClockMod \in Int
        BY <3>2, PeerAssumption
      <4>. QED BY <3>1, <3>2, <3>3, <4>1 DEF Stale, Expired
    <3>. QED BY <3>1, <3>4, <1>2 DEF LostToAge
  <2>3. ASSUME NEW e, NEW b, RxCookie(e, b) PROVE FALSE
    BY <2>3, <1>4 DEF RxCookie
  <2>4. ASSUME NEW i \in LocalIndex, NEW e \in 0 .. fresh, NEW c \in 0 .. MaxRxCtr,
               NEW b \in Address, RxData(i, e, c, b)
        PROVE  Stale(keys["curr"], Now) \/ keys' = NoKeys
    <3>1. PICK s \in Slots :
             \/ LostToAge(keys, keys', Now)
             \/ /\ keys[s].valid
                /\ s # "next" => \A t \in Slots : Same(keys[t], keys'[t])
                /\ s = "next" => Same(keys["next"], keys'["curr"])
      BY <2>4, RxDataMoves DEF IInv
    <3>. QED BY <3>1, <1>1, <1>2, <1>3 DEF Same, Slots
  <2>. QED BY <1>5, <2>1, <2>2, <2>3, <2>4 DEF Receive
<1>6. ASSUME Application \/ Timer \/ TimerNoPeer \/ Tick \/ UNCHANGED vars
      PROVE  Stale(keys["curr"], Now) \/ keys' = NoKeys
  <2>1. CASE Output
    BY <2>1, <1>3, InvTypes, OutputThins DEF Output, IInv, TypeOK
  <2>2. CASE Timer
    BY <2>2, <1>3, TimerThins DEF IInv
  <2>3. CASE keys' = NoKeys
    BY <2>3
  <2>. QED BY <1>4, <1>6, <2>1, <2>2, <2>3 DEF Application, Connect, Disconnect, RemovePeer,
                                      AddPeer, UpdateEndpoint, TimerNoPeer, Tick, vars
<1>. QED BY <1>1, <1>5, <1>6 DEF Next

\* A tunnel that can carry packets goes on carrying them through every renewal:
\* sending ends with the session's lifetime, its last packet or a call only.
THEOREM SendingGoesOn ==
    ASSUME RejectAfterTime % ClockMod > 0, RejectAfterMessages > 0
    PROVE  Spec /\ [](Now # 0) => SendingKept
<1>1. ASSUME IInv, CurrentSends, CurrentSends', [Next]_vars
      PROVE  [ CanSend(keys[SendingSlot(keys)]) /\ ~CanSend(keys'[SendingSlot(keys')])
                  => Stale(keys[SendingSlot(keys)], Now) \/ keys' = NoKeys ]_vars
  BY <1>1, SendingStep
<1>. QED BY <1>1, Invariant, CurrentIsSentOn, PTL DEF Spec, SendingKept

-----------------------------------------------------------------------------
(* How long the current session lasts.  Ages are differences modulo ClockMod, *)
(* and the prover is given the few facts about residues they need.           *)

LEMMA Division ==
    ASSUME NEW m \in Nat \ {0}, NEW n \in Int
    PROVE  n = m * (n \div m) + (n % m) /\ n \div m \in Int /\ n % m \in 0 .. m - 1
<1>1. n \div m \in Int /\ n % m \in 0 .. m - 1
  OBVIOUS
<1>2. n = m * (n \div m) + (n % m)
  OBVIOUS
<1>. QED BY <1>1, <1>2

LEMMA Residue ==
    ASSUME NEW m \in Nat \ {0}, NEW q \in Int, NEW r \in 0 .. m - 1
    PROVE  (m * q + r) % m = r
<1>. DEFINE n == m * q + r
<1>1. n \in Int /\ m * q \in Int
  OBVIOUS
<1>2. PICK p \in Int : n = m * p + (n % m) /\ n % m \in 0 .. m - 1
  BY <1>1, Division
<1>3. n = m * q + r
  OBVIOUS
<1>. HIDE DEF n
<1>4. m * (q - p) = m * q - m * p
  OBVIOUS
<1>5. m * (q - p) = (n % m) - r
  <2>1. m * p \in Int /\ n % m \in Int
    BY <1>2
  <2>. QED BY <1>1, <1>2, <1>3, <1>4, <2>1
<1>6. (n % m) - r < m /\ (n % m) - r > -m
  BY <1>2
<1>7. q - p >= 1 => m * (q - p) >= m
  OBVIOUS
<1>8. q - p <= -1 => m * (q - p) <= -m
  OBVIOUS
<1>9. q - p = 0
  BY <1>1, <1>2, <1>5, <1>6, <1>7, <1>8
<1>10. m * (q - p) = 0 /\ n % m \in Int
  BY <1>2, <1>9
<1>. QED BY <1>5, <1>10 DEF n

LEMMA ResidueOfDifference ==
    ASSUME NEW m \in Nat \ {0}, NEW b \in Int, NEW c \in Int
    PROVE  ((b % m) - c) % m = (b - c) % m
<1>1. PICK q \in Int, r \in 0 .. m - 1 : b = m * q + r /\ b % m = r
  BY Division
<1>2. PICK p \in Int, s \in 0 .. m - 1 : r - c = m * p + s /\ (r - c) % m = s
  <2>1. r - c \in Int
    BY <1>1
  <2>. QED BY <2>1, Division
<1>3. m * (q + p) = m * q + m * p /\ m * q \in Int /\ m * p \in Int /\ q + p \in Int
  OBVIOUS
<1>4. b - c = m * (q + p) + s
  BY <1>1, <1>2, <1>3
<1>5. (m * (q + p) + s) % m = s
  BY <1>3, Residue
<1>. QED BY <1>1, <1>2, <1>4, <1>5

LEMMA ResidueOfNext ==
    ASSUME NEW m \in Nat \ {0}, NEW n \in Int
    PROVE  (n + 1) % m <= (n % m) + 1
<1>1. PICK q \in Int, r \in 0 .. m - 1 : n = m * q + r /\ n % m = r
  BY Division
<1>2. CASE r + 1 < m
  <2>1. r + 1 \in 0 .. m - 1 /\ m * q \in Int
    BY <1>2
  <2>2. (m * q + (r + 1)) % m = r + 1
    BY <2>1, Residue
  <2>3. n + 1 = m * q + (r + 1)
    BY <1>1, <2>1
  <2>. QED BY <1>1, <2>2, <2>3
<1>3. CASE r + 1 >= m
  <2>1. r + 1 = m /\ q + 1 \in Int /\ 0 \in 0 .. m - 1 /\ m * q \in Int
    BY <1>3
  <2>2. (m * (q + 1) + 0) % m = 0
    BY <2>1, Residue
  <2>3. m * (q + 1) = m * q + m
    BY <2>1
  <2>4. n + 1 = m * (q + 1) + 0
    BY <1>1, <2>1, <2>3
  <2>. QED BY <1>1, <2>2, <2>4
<1>. QED BY <1>2, <1>3

Age(kp) == (Now - kp.keypair_millis) % ClockMod

\* The timer may be overdue by the ticks it has not run for.
CurrentAge == keys["curr"].valid => Age(keys["curr"]) < RejectAfterTime + due

LEMMA FreshEnough ==
    ASSUME TypeOK, NEW s \in Slots, ~Stale(keys[s], Now)
    PROVE  Age(keys[s]) < RejectAfterTime
<1>1. keys[s].keypair_millis \in Int /\ Now \in Int /\ RejectAfterTime \in Nat /\ ClockMod \in Nat \ {0}
  BY InvTypes, PeerAssumption DEF TypeOK, Keypair, Millis
<1>2. ~(Age(keys[s]) >= RejectAfterTime % ClockMod)
  BY DEF Stale, Expired, Age
<1>3. Age(keys[s]) \in Int /\ RejectAfterTime % ClockMod \in Int
  BY <1>1 DEF Age
<1>4. RejectAfterTime % ClockMod <= RejectAfterTime
  BY <1>1
<1>. QED BY <1>1, <1>2, <1>3, <1>4

LEMMA AgeStep ==
    ASSUME RejectAfterTime > 0, IInv, SInv, CurrentAge, [Next]_vars
    PROVE  CurrentAge'
<1>1. /\ Now \in Int /\ RejectAfterTime \in Nat /\ ClockMod \in Nat \ {0} /\ due \in Nat
      /\ keys["curr"].keypair_millis \in Int
      /\ "curr" \in Slots /\ "next" \in Slots
  <2>1. "curr" \in Slots /\ "next" \in Slots
    BY DEF Slots
  <2>2. RejectAfterTime \in Nat /\ ClockMod \in Nat \ {0}
    BY PeerAssumption
  <2>3. keys \in KeyTable /\ Now \in Millis
    BY InvTypes DEF IInv
  <2>4. keys["curr"] \in Keypair
    BY <2>1, <2>3 DEF KeyTable
  <2>5. keys["curr"].keypair_millis \in Int
    BY <2>2, <2>4 DEF Keypair, Millis
  <2>6. Now \in Int
    BY <2>2, <2>3 DEF Millis
  <2>7. due \in Nat
    BY DeviceAssumption DEF IInv, TypeOK
  <2>. QED BY <2>1, <2>2, <2>5, <2>6, <2>7
<1>2. ASSUME UNCHANGED <<time, due>>,
             keys'["curr"].valid =>
                keys["curr"].valid /\ keys'["curr"].keypair_millis = keys["curr"].keypair_millis
      PROVE  CurrentAge'
  BY <1>2 DEF CurrentAge, Age, Now
<1>3. ASSUME Receive PROVE CurrentAge'
  <2>0. UNCHANGED <<time, due>>
    BY <1>3 DEF Receive, RxInitiation, RxResponse, RxCookie, RxData
  <2>1. ASSUME NEW ts \in 1 .. MaxTs, NEW a \in Address, RxInitiation(ts, a) PROVE CurrentAge'
    <3>1. PICK i \in FreshIndices(keys, hs) :
             keys' = AddNewKeypair(keys, NewKeypair(FALSE, fresh + 1, i, Now))
      BY <2>1 DEF RxInitiation, Responded
    <3>2. Added(keys, keys', FALSE, fresh + 1, Now)
      BY <3>1, InvTypes, AddNewSlots DEF IInv
    <3>. QED BY <2>0, <3>2, <1>2 DEF Added
  <2>2. ASSUME NEW e \in 1 .. fresh, NEW a \in Address, RxResponse(e, a) PROVE CurrentAge'
    <3>1. PICK k \in KeyTable : k["curr"].keypair_millis = Now /\ Thinned(k, keys')
      BY <2>2, RxResponseSlots DEF IInv
    <3>2. keys'["curr"].valid => keys'["curr"].keypair_millis = Now
      BY <3>1, <1>1 DEF Thinned, Kept, Same
    <3>3. Now' = Now
      BY <2>0 DEF Now
    <3>4. (Now - Now) % ClockMod = 0
      BY <1>1
    <3>. QED BY <1>1, <2>0, <3>2, <3>3, <3>4 DEF CurrentAge, Age
  <2>3. ASSUME NEW e, NEW a, RxCookie(e, a) PROVE CurrentAge'
    BY <2>0, <2>3, <1>2 DEF RxCookie
  <2>4. ASSUME NEW i \in LocalIndex, NEW e \in 0 .. fresh, NEW c \in 0 .. MaxRxCtr,
               NEW a \in Address, RxData(i, e, c, a)
        PROVE  CurrentAge'
    <3>1. PICK s \in Slots :
             \/ Thinned(keys, keys')
             \/ /\ ~Stale(keys[s], Now)
                /\ s # "next" => \A t \in Slots : Same(keys[t], keys'[t])
                /\ s = "next" => Same(keys["next"], keys'["curr"])
      BY <2>4, RxDataMoves DEF IInv
    <3>2. CASE Thinned(keys, keys') \/ \A t \in Slots : Same(keys[t], keys'[t])
      BY <3>2, <2>0, <1>1, <1>2 DEF Thinned, Kept, Same
    <3>3. CASE ~Stale(keys["next"], Now) /\ Same(keys["next"], keys'["curr"])
      <4>1. Age(keys["next"]) < RejectAfterTime
        BY <3>3, <1>1, FreshEnough DEF IInv
      <4>2. Age(keys["curr"])' = Age(keys["next"]) /\ Age(keys["next"]) \in Int
        <5>1. keys["next"].keypair_millis \in Int
          BY DEF IInv, TypeOK, Keypair, Slots, Millis
        <5>. QED BY <5>1, <2>0, <3>3, <1>1 DEF Same, Age, Now
      <4>. QED BY <4>1, <4>2, <2>0, <1>1 DEF CurrentAge
    <3>. QED BY <3>1, <3>2, <3>3
  <2>. QED BY <1>3, <2>1, <2>2, <2>3, <2>4 DEF Receive
<1>4. CASE Application
  <2>0. UNCHANGED <<time, due>>
    BY <1>4 DEF Application, Output, Connect, Disconnect, RemovePeer, AddPeer, UpdateEndpoint
  <2>1. CASE Output
    <3>1. Thinned(keys, keys')
      BY <2>1, InvTypes, OutputThins DEF Output, IInv, TypeOK
    <3>. QED BY <3>1, <2>0, <1>1, <1>2 DEF Thinned, Kept, Same
  <2>2. CASE keys' = keys \/ keys' = NoKeys
    BY <2>0, <2>2, <1>1, <1>2 DEF NoKeys, NoKeypair
  <2>. QED BY <1>4, <2>1, <2>2 DEF Application, Connect, Disconnect, RemovePeer, AddPeer,
                                   UpdateEndpoint
<1>5. CASE Timer
  <2>1. time' = time /\ due' = 0
    BY <1>5 DEF Timer
  <2>2. SUFFICES ASSUME keys'["curr"].valid PROVE Age(keys["curr"])' < RejectAfterTime + due'
    BY DEF CurrentAge
  <2>3. ~Stale(keys["curr"], Now) /\ Same(keys["curr"], keys'["curr"])
    BY <1>5, <2>2, <1>1, TimerThins DEF IInv, Thinned, Kept
  <2>4. Age(keys["curr"]) < RejectAfterTime
    BY <2>3, <1>1, FreshEnough DEF IInv
  <2>5. Age(keys["curr"])' = Age(keys["curr"]) /\ Age(keys["curr"]) \in Int
    BY <2>1, <2>3, <1>1 DEF Same, Age, Now
  <2>. QED BY <2>1, <2>4, <2>5, <1>1
<1>6. CASE TimerNoPeer
  BY <1>6, <1>1 DEF TimerNoPeer, SInv, Registered, CurrentAge
<1>7. CASE Tick
  <2>1. keys' = keys /\ time' = time + 1 /\ due' = due + 1
    BY <1>7 DEF Tick
  <2>. DEFINE b == Boot + time
              c == keys["curr"].keypair_millis
  <2>2. b \in Int /\ b + 1 \in Int /\ c \in Int
    BY <1>1, DeviceAssumption, PeerAssumption DEF IInv, TypeOK, Millis
  <2>3. Now = b % ClockMod /\ Now' = (b + 1) % ClockMod
    <3>1. Boot + (time + 1) = b + 1
      BY DeviceAssumption, PeerAssumption DEF IInv, TypeOK, Millis
    <3>. QED BY <2>1, <3>1 DEF Now
  <2>. HIDE DEF b
  <2>4. Age(keys["curr"]) = (b - c) % ClockMod
    BY <1>1, <2>2, <2>3, ResidueOfDifference DEF Age
  <2>5. Age(keys["curr"])' = ((b + 1) - c) % ClockMod
    BY <1>1, <2>1, <2>2, <2>3, ResidueOfDifference DEF Age
  <2>. HIDE DEF c
  <2>6. (b + 1) - c = (b - c) + 1 /\ b - c \in Int
    BY <2>2
  <2>7. Age(keys["curr"])' <= Age(keys["curr"]) + 1
    BY <1>1, <2>4, <2>5, <2>6, ResidueOfNext
  <2>8. Age(keys["curr"]) \in Int /\ Age(keys["curr"])' \in Int
    BY <1>1, <2>4, <2>5, <2>6
  <2>. QED BY <1>1, <2>1, <2>7, <2>8 DEF CurrentAge
<1>8. CASE UNCHANGED vars
  BY <1>8, <1>2 DEF vars
<1>. QED BY <1>3, <1>4, <1>5, <1>6, <1>7, <1>8 DEF Next

\* No current session outlives its lifetime by more than a timer period.
THEOREM CurrentEnds ==
    ASSUME RejectAfterTime > 0
    PROVE  Spec => []CurrentWithinLifetime
<1>1. Init => CurrentAge
  BY DEF Init, CurrentAge, NoKeys, NoKeypair, Slots
<1>2. IInv /\ CurrentAge => CurrentWithinLifetime
  <2>. SUFFICES ASSUME IInv, CurrentAge, keys["curr"].valid
                PROVE  Age(keys["curr"]) < RejectAfterTime + MaxTimerLag
    BY DEF CurrentWithinLifetime, Age
  <2>1. due \in 0 .. MaxTimerLag /\ MaxTimerLag \in Nat /\ RejectAfterTime \in Nat
    BY DeviceAssumption, PeerAssumption DEF IInv, TypeOK
  <2>2. Age(keys["curr"]) \in Int
    BY InvTypes, PeerAssumption DEF IInv, TypeOK, Keypair, Millis, Slots, Age
  <2>. QED BY <2>1, <2>2 DEF CurrentAge
<1>3. ASSUME IInv, SInv, CurrentAge, [Next]_vars PROVE CurrentAge'
  BY <1>3, AgeStep
<1>. QED BY <1>1, <1>2, <1>3, Invariant, Sessions, PTL DEF Spec

-----------------------------------------------------------------------------
(* Replays.  A packet that reached the application is refused by the window  *)
(* of its session from then on, wherever the session moves between the       *)
(* slots; except for the packet that promoted it, which was marked in the    *)
(* slot that had just been wiped.                                            *)

\* A window is never ahead of what was received, so distances are exact.
LEMMA DistanceIsExact ==
    ASSUME NEW w \in Window, w.counter <= MaxRxCtr, NEW c \in 0 .. MaxRxCtr
    PROVE  Distance(w, c) = IF c > w.counter THEN c - w.counter ELSE w.counter - c
<1>1. w.counter \in Nat /\ c \in Nat /\ MaxRxCtr \in Nat /\ DiffMod \in Nat \ {0} /\ MaxRxCtr < DiffMod
  BY DeviceAssumption, WindowAssumption DEF Window
<1>2. \A n \in Nat : n < DiffMod => n % DiffMod = n
  BY <1>1
<1>. QED BY <1>1, <1>2 DEF Distance, Ahead

\* The number just checked is refused from now on.
LEMMA CheckedIsRefused ==
    ASSUME NEW w \in Window, w.counter <= MaxRxCtr, NEW c \in 0 .. MaxRxCtr
    PROVE  /\ ~Accepts(CheckReplay(w, c), c)
           /\ CheckReplay(w, c) \in Window /\ CheckReplay(w, c).counter <= MaxRxCtr
<1>. DEFINE w2 == CheckReplay(w, c)
<1>1. w.counter \in Nat /\ c \in Nat /\ MaxRxCtr \in Nat
  BY DeviceAssumption DEF Window
<1>2. w2 \in Window
  BY <1>1, CheckReplayType
<1>3. CASE ~Accepts(w, c)
  BY <1>3 DEF CheckReplay
<1>4. CASE Accepts(w, c) /\ Ahead(w, c)
  <2>1. w2.counter = c /\ 0 \in w2.bitmap
    BY <1>4 DEF CheckReplay, Slide
  <2>. HIDE DEF w2
  <2>2. Distance(w2, c) = 0
    BY <1>1, <1>2, <2>1, DistanceIsExact
  <2>3. ~Accepts(w2, c)
    BY <1>1, <2>1, <2>2 DEF Accepts, Ahead
  <2>. QED BY <1>1, <1>2, <2>1, <2>3 DEF w2
<1>5. CASE Accepts(w, c) /\ ~Ahead(w, c)
  <2>1. w2.counter = w.counter /\ Distance(w, c) \in w2.bitmap
    BY <1>5 DEF CheckReplay, Slide, Window
  <2>. HIDE DEF w2
  <2>2. Distance(w2, c) = Distance(w, c)
    BY <2>1 DEF Distance, Ahead
  <2>3. ~Accepts(w2, c)
    BY <1>5, <2>1, <2>2 DEF Accepts, Ahead
  <2>. QED BY <1>2, <2>1, <2>3 DEF w2
<1>. QED BY <1>3, <1>4, <1>5

\* Whatever is checked, what was refused before is refused after.
LEMMA RefusedForGood ==
    ASSUME NEW w \in Window, w.counter <= MaxRxCtr,
           NEW c \in 0 .. MaxRxCtr, NEW d \in 0 .. MaxRxCtr, ~Accepts(w, d)
    PROVE  ~Accepts(CheckReplay(w, c), d)
<1>. DEFINE w2 == CheckReplay(w, c)
<1>1. /\ w.counter \in Nat /\ c \in Nat /\ d \in Nat /\ MaxRxCtr \in Nat
      /\ w.bitmap \subseteq 0 .. BitmapBits - 1
      /\ WindowSize \in Nat /\ BitmapBits \in Nat /\ WindowSize <= BitmapBits
  BY DeviceAssumption, WindowAssumption DEF Window
<1>2. w2 \in Window /\ w2.counter <= MaxRxCtr
  BY CheckedIsRefused
<1>3. CASE d = 0
  BY <1>3 DEF Accepts
<1>4. CASE ~Accepts(w, c)
  BY <1>4 DEF CheckReplay
<1>5. CASE d # 0 /\ Accepts(w, c) /\ Ahead(w, c)
  <2>1. d <= w.counter /\ Distance(w, d) = w.counter - d /\ Distance(w, c) = c - w.counter
    BY <1>1, <1>5, DistanceIsExact DEF Accepts, Ahead
  <2>2. w.counter - d >= WindowSize \/ w.counter - d \in w.bitmap
    BY <1>1, <1>5, <2>1 DEF Accepts
  <2>3. /\ w2.counter = c
        /\ c - w.counter < WindowSize =>
              w2.bitmap = ShiftLeft(w.bitmap, c - w.counter) \cup {0}
    BY <1>5, <2>1 DEF CheckReplay, Slide
  <2>. HIDE DEF w2
  <2>4. c > w.counter /\ Distance(w2, d) = c - d
    <3>1. c > w.counter
      BY <1>5 DEF Ahead
    <3>2. ~(d > w2.counter)
      BY <1>1, <2>1, <2>3, <3>1
    <3>. QED BY <1>2, <2>3, <3>1, <3>2, DistanceIsExact
  <2>5. ASSUME c - d < WindowSize PROVE c - d \in w2.bitmap
    <3>1. w.counter - d \in w.bitmap /\ c - w.counter < WindowSize
      BY <1>1, <2>1, <2>2, <2>4, <2>5
    <3>2. c - d = (w.counter - d) + (c - w.counter) /\ c - d \in 0 .. BitmapBits - 1
      BY <1>1, <2>1, <2>4, <2>5
    <3>. QED BY <2>3, <3>1, <3>2 DEF ShiftLeft
  <2>6. ~Ahead(w2, d)
    BY <1>1, <2>1, <2>3, <2>4 DEF Ahead
  <2>7. ~Accepts(w2, d)
    BY <2>4, <2>5, <2>6 DEF Accepts
  <2>. QED BY <2>7 DEF w2
<1>6. CASE Accepts(w, c) /\ ~Ahead(w, c)
  <2>1. w2.counter = w.counter /\ w.bitmap \subseteq w2.bitmap
    BY <1>6 DEF CheckReplay, Slide, Window
  <2>. HIDE DEF w2
  <2>2. Distance(w2, d) = Distance(w, d) /\ (Ahead(w2, d) <=> Ahead(w, d))
    BY <2>1 DEF Distance, Ahead
  <2>3. ~Accepts(w2, d)
    BY <2>1, <2>2 DEF Accepts
  <2>. QED BY <2>3 DEF w2
<1>. QED BY <1>3, <1>4, <1>5, <1>6

\* no window is ahead of what was received, and each refuses what was delivered
Guarded(k, dl, pr) ==
    \A s \in Slots :
        k[s].valid => /\ k[s].replay.counter <= MaxRxCtr
                      /\ \A n \in dl \ pr : n[1] = k[s].key => ~Accepts(k[s].replay, n[2])

Replays ==
    /\ Guarded(keys, delivered, promoted)
    /\ \A n \in delivered : n[1] \in confirmed
    /\ again \subseteq promoted

LEMMA ThinnedGuards ==
    ASSUME Replays, Thinned(keys, keys'),
           UNCHANGED <<confirmed, promoted, delivered, again>>
    PROVE  Replays'
<1>1. \A s \in Slots : keys'[s].valid =>
          keys[s].valid /\ keys'[s].key = keys[s].key /\ keys'[s].replay = keys[s].replay
  BY DEF Thinned, Kept, Same
<1>. QED BY <1>1 DEF Replays, Guarded

\* A packet with counter c is found authentic in slot s; up is what of it goes
\* to the application.
Marks(s, up, c) ==
    /\ keys[s].valid /\ up \subseteq {<<keys[s].key, c>>}
    /\ confirmed' = confirmed \cup {keys[s].key}
    /\ delivered' = delivered \cup up
    /\ again' = again \cup (up \cap delivered)
    /\ promoted' = IF s = "next" THEN promoted \cup {<<keys[s].key, c>>} ELSE promoted
    /\ s # "next" =>
          /\ \A t \in Slots : t # s => Kept(keys[t], keys'[t])
          /\ Same(keys[s], keys'[s])
          /\ \/ up = {} /\ keys'[s].replay = keys[s].replay
             \/ /\ up # {} => Accepts(keys[s].replay, c)
                /\ keys'[s].replay = CheckReplay(keys[s].replay, c)
    /\ s = "next" => /\ Kept(keys["curr"], keys'["prev"])
                     /\ Kept(keys["next"], keys'["curr"]) /\ ~keys'["next"].valid

LEMMA RxDataMarks ==
    ASSUME TypeOK, NEW i \in LocalIndex, NEW e \in 0 .. fresh, NEW c \in 0 .. MaxRxCtr,
           NEW a \in Address, RxData(i, e, c, a)
    PROVE  \/ Thinned(keys, keys') /\ UNCHANGED <<confirmed, promoted, delivered, again>>
           \/ \E s \in Slots : \E up : Marks(s, up, c)
<1>1. PICK s \in KeypairForIdx(keys, i) :
         \/ /\ Stale(keys[s], Now)
            /\ keys' = [keys EXCEPT ![s] = NoKeypair]
            /\ UNCHANGED <<peer, linkUp, confirmed, promoted, delivered, again>>
         \/ /\ ~Stale(keys[s], Now)
            /\ e = keys[s].key
            /\ Authentic(s, e, c, a)
  BY DEF RxData
<1>2. s \in Slots /\ keys[s].valid
  BY <1>1 DEF KeypairForIdx, HasIndex, Slots
<1>3. keys \in KeyTable /\ keys[s] \in Keypair /\ Now \in Millis
  BY <1>2, InvTypes DEF KeyTable
<1>4. CASE /\ keys' = [keys EXCEPT ![s] = NoKeypair]
           /\ UNCHANGED <<peer, linkUp, confirmed, promoted, delivered, again>>
  <2>1. \A t \in Slots : keys'[t] = keys[t] \/ ~keys'[t].valid
    BY <1>2, <1>3, <1>4 DEF KeyTable, NoKeypair
  <2>. QED BY <1>4, <2>1 DEF Thinned, Kept, Same
<1>5. CASE e = keys[s].key /\ Authentic(s, e, c, a)
  <2>. DEFINE heard   == [keys EXCEPT ![s].last_rx = Now]
              shifted == KeypairUpdate(heard, s)
              up == IF /\ Payload[c] # "keepalive" /\ Accepts(shifted[s].replay, c)
                       /\ Payload[c] = "packet"
                    THEN {<<e, c>>} ELSE {}
  <2>1. /\ confirmed' = confirmed \cup {keys[s].key}
        /\ delivered' = delivered \cup up /\ again' = again \cup (up \cap delivered)
        /\ promoted' = IF s = "next" THEN promoted \cup {<<keys[s].key, c>>} ELSE promoted
        /\ keys' = IF Payload[c] = "keepalive" THEN shifted
                   ELSE [shifted EXCEPT ![s].replay = CheckReplay(@, c)]
    BY <1>5 DEF Authentic
  <2>2. up \subseteq {<<keys[s].key, c>>}
    BY <1>5
  <2>3. \A t \in Slots : Kept(keys[t], heard[t])
    <3>1. heard[s] = [keys[s] EXCEPT !.last_rx = Now] /\ \A t \in Slots : t # s => heard[t] = keys[t]
      BY <1>2, <1>3 DEF KeyTable
    <3>. HIDE DEF heard
    <3>. QED BY <3>1, <1>3 DEF Kept, Same, Keypair
  <2>4. heard \in KeyTable
    <3>1. [keys[s] EXCEPT !.last_rx = Now] \in Keypair
      BY <1>3 DEF Keypair
    <3>. QED BY <1>2, <1>3, <3>1 DEF KeyTable
  <2>5. /\ shifted \in KeyTable
        /\ s # "next" => shifted = heard
        /\ s = "next" => /\ shifted["prev"] = heard["curr"] /\ shifted["curr"] = heard["next"]
                         /\ ~shifted["next"].valid
    <3>. HIDE DEF heard
    <3>1. shifted \in KeyTable
      BY <1>2, <2>4, UpdateType
    <3>. QED BY <3>1, <2>4 DEF KeypairUpdate, KeyTable, Slots, NoKeypair
  <2>6. Payload[c] = "keepalive" => up = {}
    OBVIOUS
  <2>7. up # {} => Accepts(shifted[s].replay, c)
    OBVIOUS
  <2>. HIDE DEF heard, shifted, up
  <2>8. /\ \A t \in Slots : t # s => keys'[t] = shifted[t]
        /\ Same(shifted[s], keys'[s])
        /\ \/ up = {} /\ keys'[s].replay = shifted[s].replay
           \/ keys'[s].replay = CheckReplay(shifted[s].replay, c)
    <3>1. CASE Payload[c] = "keepalive"
      BY <2>1, <2>6, <3>1 DEF Same
    <3>2. CASE Payload[c] # "keepalive"
      <4>1. keys'[s] = [shifted[s] EXCEPT !.replay = CheckReplay(@, c)]
            /\ shifted[s] \in Keypair /\ \A t \in Slots : t # s => keys'[t] = shifted[t]
        BY <1>2, <2>1, <2>5, <3>2 DEF KeyTable
      <4>. QED BY <4>1 DEF Keypair, Same
    <3>. QED BY <3>1, <3>2
  <2>9. CASE s # "next"
    <3>1. shifted = heard /\ shifted[s].replay = keys[s].replay
      BY <1>2, <2>3, <2>5, <2>9 DEF Kept
    <3>2. (\A t \in Slots : t # s => Kept(keys[t], keys'[t])) /\ Same(keys[s], keys'[s])
      <4>1. \A t \in Slots : t # s => Kept(keys[t], keys'[t])
        BY <2>3, <2>8, <3>1
      <4>2. Same(keys[s], heard[s]) /\ Same(heard[s], keys'[s])
        BY <1>2, <2>3, <2>8, <3>1 DEF Kept
      <4>. QED BY <4>1, <4>2 DEF Same
    <3>. QED BY <1>2, <2>1, <2>2, <2>7, <2>8, <2>9, <3>1, <3>2 DEF Marks
  <2>10. CASE s = "next"
    <3>1. /\ keys'["prev"] = heard["curr"] /\ keys'["curr"] = heard["next"]
          /\ ~keys'["next"].valid
      BY <2>5, <2>8, <2>10 DEF Slots, Same
    <3>2. Kept(keys["curr"], keys'["prev"]) /\ Kept(keys["next"], keys'["curr"])
      BY <2>3, <3>1 DEF Slots
    <3>. QED BY <1>2, <2>1, <2>2, <2>10, <3>1, <3>2 DEF Marks
  <2>. QED BY <2>9, <2>10
<1>. QED BY <1>1, <1>4, <1>5

LEMMA ReplaysRxData ==
    ASSUME IInv, Replays, NEW i \in LocalIndex, NEW e \in 0 .. fresh,
           NEW c \in 0 .. MaxRxCtr, NEW a \in Address, RxData(i, e, c, a)
    PROVE  Replays'
<1>1. CASE Thinned(keys, keys') /\ UNCHANGED <<confirmed, promoted, delivered, again>>
  BY <1>1, ThinnedGuards
<1>2. ASSUME NEW s \in Slots, NEW up, Marks(s, up, c)
      PROVE  Replays'
  <2>1. /\ keys \in KeyTable /\ \A t \in Slots : keys[t].replay \in Window
        /\ keys[s].replay.counter <= MaxRxCtr
        /\ \A n \in delivered : n[2] \in 0 .. MaxRxCtr
    BY <1>2, InvTypes DEF Marks, IInv, TypeOK, KeyTable, Keypair, Packets, Replays, Guarded
  <2>2. \A n \in delivered' : n[1] \in confirmed'
    BY <1>2 DEF Marks, Replays
  <2>3. CASE s = "next"
    <3>1. \A n \in delivered' \ promoted' : n \in delivered \ promoted
      BY <1>2, <2>3 DEF Marks
    <3>2. Guarded(keys, delivered, promoted)'
      BY <1>2, <2>3, <3>1 DEF Marks, Replays, Guarded, Kept, Same, Slots
    <3>3. again' \subseteq promoted'
      BY <1>2, <2>3 DEF Marks, Replays
    <3>. QED BY <2>2, <3>2, <3>3 DEF Replays
  <2>4. CASE s # "next"
    <3>1. /\ \A t \in Slots : keys'[t].valid = keys[t].valid /\ keys'[t].key = keys[t].key
          /\ \A t \in Slots : t # s => keys'[t].replay = keys[t].replay
      BY <1>2, <2>4 DEF Marks, Kept, Same
    <3>2. /\ CheckReplay(keys[s].replay, c).counter <= MaxRxCtr
          /\ ~Accepts(CheckReplay(keys[s].replay, c), c)
      BY <2>1, CheckedIsRefused
    <3>3. ASSUME NEW n \in delivered \ promoted, n[1] = keys[s].key
          PROVE  ~Accepts(keys'[s].replay, n[2])
      <4>1. ~Accepts(keys[s].replay, n[2]) /\ n[2] \in 0 .. MaxRxCtr
        BY <1>2, <2>1, <3>3 DEF Marks, Replays, Guarded
      <4>2. ~Accepts(CheckReplay(keys[s].replay, c), n[2])
        BY <2>1, <4>1, RefusedForGood
      <4>. QED BY <1>2, <2>4, <4>1, <4>2 DEF Marks
    <3>4. ASSUME NEW t \in Slots, keys'[t].valid
          PROVE  /\ keys'[t].replay.counter <= MaxRxCtr
                 /\ \A n \in delivered' \ promoted' :
                       n[1] = keys'[t].key => ~Accepts(keys'[t].replay, n[2])
      <4>1. CASE t = s
        <5>1. ASSUME NEW n \in up PROVE ~Accepts(keys'[s].replay, n[2])
          <6>1. n = <<keys[s].key, c>> /\ up # {}
            BY <1>2, <5>1 DEF Marks
          <6>. QED BY <1>2, <2>4, <3>2, <6>1 DEF Marks
        <5>2. \A n \in delivered' \ promoted' : n \in delivered \ promoted \/ n \in up
          BY <1>2, <2>4 DEF Marks
        <5>3. keys'[s].replay.counter <= MaxRxCtr
          BY <1>2, <2>1, <2>4, <3>2 DEF Marks
        <5>. QED BY <3>1, <3>3, <4>1, <5>1, <5>2, <5>3
      <4>2. CASE t # s
        <5>1. keys[t].key # keys[s].key
          BY <1>2, <3>1, <3>4, <4>2, InvTypes, OneSlot DEF Marks, IInv, SlotInv
        <5>2. \A n \in delivered' \ promoted' :
                 n[1] = keys[t].key => n \in delivered \ promoted
          BY <1>2, <2>4, <5>1 DEF Marks
        <5>. QED BY <3>1, <3>4, <4>2, <5>2 DEF Replays, Guarded
      <4>. QED BY <4>1, <4>2
    <3>5. Guarded(keys, delivered, promoted)'
      BY <3>4 DEF Guarded
    <3>6. again' \subseteq promoted'
      <4>1. ASSUME NEW n \in up, n \in delivered PROVE n \in promoted
        <5>1. n = <<keys[s].key, c>> /\ Accepts(keys[s].replay, c)
          BY <1>2, <2>4, <4>1 DEF Marks
        <5>2. n[1] = keys[s].key /\ n[2] = c
          BY <5>1
        <5>. QED BY <1>2, <4>1, <5>1, <5>2 DEF Marks, Replays, Guarded
      <4>. QED BY <1>2, <2>4, <4>1 DEF Marks, Replays
    <3>. QED BY <2>2, <3>5, <3>6 DEF Replays
  <2>. QED BY <2>3, <2>4
<1>. QED BY <1>1, <1>2, RxDataMarks DEF IInv

\* A new session has delivered nothing: nobody has confirmed it.
LEMMA ReplaysNewSession ==
    ASSUME IInv, SInv, Replays, NEW ts \in 1 .. MaxTs, NEW a \in Address, RxInitiation(ts, a)
    PROVE  Replays'
<1>1. Added(keys, keys', FALSE, fresh + 1, Now)
  <2>1. PICK i \in FreshIndices(keys, hs) :
           keys' = AddNewKeypair(keys, NewKeypair(FALSE, fresh + 1, i, Now))
    BY DEF RxInitiation, Responded
  <2>. QED BY <2>1, InvTypes, AddNewSlots DEF IInv
<1>2. UNCHANGED <<confirmed, promoted, delivered, again>> /\ fresh \in Nat /\ MaxRxCtr \in Nat
  BY InvTypes, DeviceAssumption DEF RxInitiation, IInv
<1>3. fresh + 1 \notin confirmed
  BY <1>2 DEF SInv, Waiting, IInv, TypeOK
<1>4. \A s \in Slots : keys'[s].valid =>
          \/ keys'[s].key = fresh + 1 /\ keys'[s].replay.counter = 0
          \/ keys'[s] = keys[s]
  BY <1>1 DEF Added, Slots, EmptyWindow
<1>5. Guarded(keys, delivered, promoted)'
  BY <1>2, <1>3, <1>4 DEF Replays, Guarded
<1>. QED BY <1>2, <1>5 DEF Replays

LEMMA ReplaysRxResponse ==
    ASSUME IInv, SInv, Replays, NEW e \in 1 .. fresh, NEW a \in Address, RxResponse(e, a)
    PROVE  Replays'
<1>1. PICK k \in KeyTable :
              /\ k["curr"].key = e /\ k["curr"].replay = EmptyWindow /\ ~k["next"].valid
              /\ k["prev"] = keys["curr"] \/ k["prev"] = keys["next"]
              /\ Thinned(k, keys')
  BY RxResponseSlots DEF IInv
<1>2. /\ confirmed' = confirmed \cup {e} /\ UNCHANGED <<promoted, delivered, again>>
      /\ e \notin confirmed /\ MaxRxCtr \in Nat
  BY DeviceAssumption DEF RxResponse, SInv, Waiting
<1>3. \A s \in Slots : keys'[s].valid =>
          k[s].valid /\ keys'[s].key = k[s].key /\ keys'[s].replay = k[s].replay
  BY <1>1 DEF Thinned, Kept, Same
<1>4. \A s \in Slots : keys'[s].valid =>
          \/ keys'[s].key = e /\ keys'[s].replay.counter = 0
          \/ \E t \in Slots : keys[t].valid /\ keys'[s].key = keys[t].key
                              /\ keys'[s].replay = keys[t].replay
  BY <1>1, <1>3 DEF Slots, EmptyWindow
<1>5. Guarded(keys, delivered, promoted)'
  BY <1>2, <1>4 DEF Replays, Guarded
<1>. QED BY <1>2, <1>5 DEF Replays

LEMMA ReplaysStep == ASSUME IInv, SInv, Replays, [Next]_vars PROVE Replays'
<1>1. CASE Receive
  <2>1. ASSUME NEW e, NEW a, RxCookie(e, a) PROVE Replays'
    BY <2>1 DEF RxCookie, history, Replays, Guarded
  <2>. QED BY <1>1, <2>1, ReplaysNewSession, ReplaysRxResponse, ReplaysRxData DEF Receive
<1>2. CASE Application
  <2>1. CASE Output
    <3>1. Thinned(keys, keys')
      BY <2>1, InvTypes, OutputThins DEF Output, IInv, TypeOK
    <3>. QED BY <2>1, <3>1, ThinnedGuards DEF Output
  <2>2. CASE \/ Connect \/ Disconnect \/ RemovePeer
             \/ \E a \in Address \cup {AnyAddr} : AddPeer(a) \/ UpdateEndpoint(a)
    <3>1. UNCHANGED <<confirmed, promoted, delivered, again>> /\ keys' \in {keys, NoKeys}
      BY <2>2 DEF Connect, Disconnect, RemovePeer, AddPeer, UpdateEndpoint, history
    <3>2. keys' = keys \/ \A s \in Slots : ~keys'[s].valid
      BY <3>1 DEF NoKeys, NoKeypair
    <3>3. Thinned(keys, keys')
      BY <3>2 DEF Thinned, Kept, Same
    <3>. QED BY <3>1, <3>3, ThinnedGuards
  <2>. QED BY <1>2, <2>1, <2>2 DEF Application
<1>3. CASE Timer
  <2>1. UNCHANGED <<confirmed, promoted, delivered, again>>
    BY <1>3 DEF Timer
  <2>. QED BY <1>3, <2>1, TimerThins, ThinnedGuards DEF IInv
<1>4. CASE TimerNoPeer \/ Tick \/ UNCHANGED vars
  BY <1>4 DEF TimerNoPeer, Tick, vars, history, Replays, Guarded
<1>. QED BY <1>1, <1>2, <1>3, <1>4 DEF Next

\* No packet reaches the application twice, however late and however often it
\* arrives, but the one that promoted its session.
THEOREM ReplaysRefused == Spec => []OnlyPromotingTwice
<1>1. Init => Replays
  BY DEF Init, Replays, Guarded, NoKeys, NoKeypair
<1>2. Replays => OnlyPromotingTwice
  BY DEF Replays, OnlyPromotingTwice
<1>. QED BY <1>1, <1>2, ReplaysStep, Invariant, Sessions, PTL DEF Spec
=============================================================================
