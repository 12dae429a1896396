----------------------------- MODULE TunnelProofs -----------------------------
(***************************************************************************)
(* Proofs about the safety of Tunnel, for any ends, any timeouts and any   *)
(* loss of messages: a session that both ends hold has one initiator.      *)
(*                                                                         *)
(* A keypair does not tell who else holds it.  The argument gives each     *)
(* session an owner, the end whose timer named it: only the owner has it   *)
(* pending or holds it as its initiator, initiations of it go to the other *)
(* end and responses come back to the owner.  Renaming the sessions at a   *)
(* tick keeps owners apart because it keeps the names in use apart.        *)
(***************************************************************************)
EXTENDS Tunnel, TLAPS, FiniteSetTheorems

KeyTable == [Slots -> Keypair]

\* the names of sessions, and 0 for none
Names == Session \cup {0}

\* what d holds of a session that has the owners own
FitsKeypair(own, d, kp) ==
    kp.key \in Names /\ (kp.valid => kp.key # 0 /\ (kp.initiator <=> own[kp.key] = d))

FitsHandshake(own, d, h) == h.key \in Names /\ (h.valid => h.key # 0 /\ own[h.key] = d)

FitsMessage(own, m) ==
    /\ m.type = "init" => own[m.session] = Other(m.to)
    /\ m.type = "resp" => own[m.session] = m.to

FitsTable(own, d, k) == k \in KeyTable /\ \A s \in Slots : FitsKeypair(own, d, k[s])

FitsNet(own, n) == n \subseteq Message /\ \A m \in n : FitsMessage(own, m)

Owned(own, k, h, n) ==
    /\ \A d \in Ends : FitsTable(own, d, k[d]) /\ FitsHandshake(own, d, h[d])
    /\ FitsNet(own, n)

\* the timestamp accepted last is a session's number, or 0
Numbered(p) == p \in Peer /\ p.greatest_timestamp \in Names

TInv ==
    /\ TypeOK
    /\ \A d \in Ends : Numbered(peer[d])
    /\ \E own \in [Nat -> Ends] : Owned(own, keys, hs, net)

-----------------------------------------------------------------------------
(* Types of the operators *)

LEMMA NamesAre ==
    /\ Cardinality(Session) \in Nat \ {0} /\ Names = 0 .. Cardinality(Session)
    /\ Session = Names \ {0} /\ Names = LocalIndex \cup {NoIndex} /\ Names \subseteq Nat
<1>1. Cardinality(Session) \in Nat
  BY TunnelAssumption, FS_CardinalityType
<1>. QED BY <1>1, TunnelAssumption DEF Names, Session

LEMMA TimesAre ==
    /\ ClockMod \in Nat \ {0} /\ Now \in Millis /\ 0 \in Millis /\ Now \in Nat /\ Now > 0
    /\ RejectAfterTime \in Nat /\ KeepaliveInterval \in Nat /\ RekeyTimeout \in Nat
    /\ 3 * RejectAfterTime < Now
  BY PeerAssumption, TunnelAssumption DEF Now, Millis

LEMMA ConstantTypes ==
    /\ NoKeypair \in Keypair /\ NoKeys \in KeyTable /\ NoHandshake \in Handshake /\ NoPeer \in Peer
    /\ \A own, d : FitsKeypair(own, d, NoKeypair) /\ FitsHandshake(own, d, NoHandshake)
<1>1. EmptyWindow \in Window
  BY DEF EmptyWindow, Window
<1>2. NoKeypair \in Keypair /\ \A own, d : FitsKeypair(own, d, NoKeypair)
  BY <1>1, TimesAre DEF NoKeypair, Keypair, FitsKeypair, Names
<1>3. NoKeys \in KeyTable
  BY <1>2 DEF NoKeys, KeyTable
<1>4. NoHandshake \in Handshake /\ \A own, d : FitsHandshake(own, d, NoHandshake)
  BY DEF NoHandshake, Handshake, FitsHandshake, Names
<1>5. NoPeer \in Peer
  BY TimesAre DEF NoPeer, Peer
<1>. QED BY <1>2, <1>3, <1>4, <1>5

LEMMA NewFits ==
    ASSUME NEW own, NEW d, NEW b \in BOOLEAN, NEW e \in Session, NEW i \in Names,
           b <=> own[e] = d
    PROVE  /\ NewKeypair(b, e, i, Now) \in Keypair
           /\ FitsKeypair(own, d, NewKeypair(b, e, i, Now))
<1>1. EmptyWindow \in Window
  BY DEF EmptyWindow, Window
<1>2. NewKeypair(b, e, i, Now) \in Keypair
  BY <1>1, NamesAre, TimesAre DEF NewKeypair, Keypair
<1>3. NewKeypair(b, e, i, Now).key = e /\ NewKeypair(b, e, i, Now).initiator = b
  BY DEF NewKeypair
<1>. QED BY <1>2, <1>3, NamesAre DEF FitsKeypair

LEMMA OtherEnd == \A d \in Ends : Other(d) \in Ends /\ Other(d) # d /\ Other(Other(d)) = d
  BY TunnelAssumption DEF Ends, Other

-----------------------------------------------------------------------------
(* What the operators of PeerState leave of the slots *)

LEMMA WipeFits ==
    ASSUME NEW own, NEW d, NEW k, FitsTable(own, d, k), NEW s \in Slots
    PROVE  FitsTable(own, d, [k EXCEPT ![s] = NoKeypair])
  BY ConstantTypes DEF FitsTable, KeyTable

LEMMA NoKeysFit == ASSUME NEW own, NEW d PROVE FitsTable(own, d, NoKeys)
  BY ConstantTypes DEF FitsTable, KeyTable, NoKeys

LEMMA AddNewFits ==
    ASSUME NEW own, NEW d, NEW k, FitsTable(own, d, k),
           NEW new \in Keypair, FitsKeypair(own, d, new)
    PROVE  FitsTable(own, d, AddNewKeypair(k, new))
  BY ConstantTypes DEF FitsTable, KeyTable, AddNewKeypair, Slots

\* the same session, counted or heard otherwise
LEMMA SameFits ==
    ASSUME NEW own, NEW d, NEW k, FitsTable(own, d, k), NEW k2 \in KeyTable,
           \A s \in Slots : /\ k2[s].valid = k[s].valid /\ k2[s].key = k[s].key
                            /\ k2[s].initiator = k[s].initiator
    PROVE  FitsTable(own, d, k2)
  BY DEF FitsTable, FitsKeypair

LEMMA UncountedFits ==
    ASSUME NEW own, NEW d, NEW k, FitsTable(own, d, k) PROVE FitsTable(own, d, Uncounted(k))
<1>1. \A s \in Slots : k[s] \in Keypair
  BY DEF FitsTable, KeyTable
<1>2. \A s \in Slots : /\ Uncounted(k)[s] \in Keypair /\ Uncounted(k)[s].valid = k[s].valid
                       /\ Uncounted(k)[s].key = k[s].key
                       /\ Uncounted(k)[s].initiator = k[s].initiator
  BY <1>1 DEF Uncounted, Keypair
<1>3. Uncounted(k) \in KeyTable
  BY <1>2 DEF Uncounted, KeyTable
<1>. QED BY <1>2, <1>3, SameFits

LEMMA HeardFits ==
    ASSUME NEW own, NEW d, NEW k, FitsTable(own, d, k), NEW s \in Slots
    PROVE  FitsTable(own, d, KeypairUpdate([k EXCEPT ![s].last_rx = Now], s))
<1>. DEFINE k2 == [k EXCEPT ![s].last_rx = Now]
<1>1. \A t \in Slots : k[t] \in Keypair
  BY DEF FitsTable, KeyTable
<1>2. [k[s] EXCEPT !.last_rx = Now] \in Keypair
  BY <1>1, TimesAre DEF Keypair
<1>3. k2 \in KeyTable
  BY <1>2 DEF FitsTable, KeyTable
<1>4. \A t \in Slots : /\ k2[t].valid = k[t].valid /\ k2[t].key = k[t].key
                       /\ k2[t].initiator = k[t].initiator
  BY <1>1 DEF FitsTable, KeyTable, Keypair
<1>5. FitsTable(own, d, k2)
  BY <1>3, <1>4, SameFits
<1>. HIDE DEF k2
<1>6. CASE s # "next"
  BY <1>5, <1>6 DEF KeypairUpdate, k2
<1>7. CASE s = "next"
  <2>1. KeypairUpdate(k2, s)
           = [k2 EXCEPT !["prev"] = k2["curr"], !["curr"] = k2["next"], !["next"] = NoKeypair]
    BY <1>7 DEF KeypairUpdate
  <2>2. FitsTable(own, d, KeypairUpdate(k2, s))
    BY <1>5, <2>1, ConstantTypes DEF FitsTable, KeyTable, Slots
  <2>. QED BY <2>2 DEF k2
<1>. QED BY <1>6, <1>7

\* A call of wireguardif_output_to_peer starts no session, and what it sends is
\* on a session the end holds.
LEMMA OutputFits ==
    ASSUME NEW own, NEW d, NEW k, FitsTable(own, d, k), NEW p, Numbered(p),
           NEW out \in OutputToPeer(k, p, Now)
    PROVE  /\ FitsTable(own, d, out.keys) /\ Numbered(out.peer)
           /\ out.nonce # {} => (CHOOSE nonce \in out.nonce : TRUE)[1] \in Session
<1>. DEFINE s == SendingSlot(k)
<1>1. s \in Slots /\ k[s] \in Keypair
  BY DEF SendingSlot, Slots, FitsTable, KeyTable
<1>2. \/ out = Unsent(k, p)
      \/ out = Unsent([k EXCEPT ![s] = NoKeypair], p)
      \/ CanSend(k[s]) /\ \E sent \in BOOLEAN : out = Sealed(k, s, p, Now, sent)
  <2>1. CASE ~CanSend(k[s])
    BY <2>1 DEF OutputToPeer
  <2>2. CASE CanSend(k[s]) /\ Stale(k[s], Now)
    BY <2>2 DEF OutputToPeer
  <2>3. CASE CanSend(k[s]) /\ ~Stale(k[s], Now)
    <3>1. out \in {IF room THEN Sealed(k, s, p, Now, sent) ELSE Unsent(k, p) :
                      room \in Results("pbuf_alloc"), sent \in Results("udp_sendto")}
      BY <2>3 DEF OutputToPeer
    <3>2. PICK room \in Results("pbuf_alloc"), sent \in Results("udp_sendto") :
             out = IF room THEN Sealed(k, s, p, Now, sent) ELSE Unsent(k, p)
      BY <3>1
    <3>3. sent \in BOOLEAN
      BY Zenon DEF Results
    <3>. QED BY <2>3, <3>2, <3>3, Zenon
  <2>. QED BY <2>1, <2>2, <2>3, Zenon
<1>. HIDE DEF s
<1>3. CASE out = Unsent(k, p)
  BY <1>3 DEF Unsent
<1>4. CASE out = Unsent([k EXCEPT ![s] = NoKeypair], p)
  BY <1>1, <1>4, WipeFits DEF Unsent
<1>5. ASSUME CanSend(k[s]), NEW sent \in BOOLEAN, out = Sealed(k, s, p, Now, sent)
      PROVE  /\ FitsTable(own, d, out.keys) /\ Numbered(out.peer)
             /\ (CHOOSE nonce \in out.nonce : TRUE)[1] \in Session
  <2>1. (p.send_handshake \/ WantsRekey(k[s], Now)) \in BOOLEAN
    BY DEF WantsRekey, Expired
  <2>2. Numbered(out.peer)
    BY <1>5, <2>1, TimesAre DEF Sealed, Peer, Numbered
  <2>3. [k[s] EXCEPT !.sending_counter = @ + 1] \in Keypair
    BY <1>1 DEF Keypair
  <2>4. /\ out.keys \in KeyTable
        /\ \A t \in Slots : /\ out.keys[t].valid = k[t].valid /\ out.keys[t].key = k[t].key
                            /\ out.keys[t].initiator = k[t].initiator
    BY <1>1, <1>5, <2>3 DEF Sealed, FitsTable, KeyTable, Keypair
  <2>5. FitsTable(own, d, out.keys)
    BY <2>4, SameFits
  <2>6. k[s].key \in Session
    BY <1>1, <1>5, NamesAre DEF CanSend, FitsTable, FitsKeypair
  <2>7. out.nonce = {<<k[s].key, k[s].sending_counter>>}
    BY <1>5 DEF Sealed
  <2>8. (CHOOSE nonce \in out.nonce : TRUE) = <<k[s].key, k[s].sending_counter>>
    BY <2>7
  <2>9. <<k[s].key, k[s].sending_counter>>[1] = k[s].key
    OBVIOUS
  <2>10. (CHOOSE nonce \in out.nonce : TRUE)[1] = k[s].key
    BY ONLY <2>8, <2>9, Zenon
  <2>. QED BY <2>2, <2>5, <2>6, <2>10, Zenon
<1>. QED BY <1>2, <1>3, <1>4, <1>5

-----------------------------------------------------------------------------
(* The network *)

LEMMA WithFits ==
    ASSUME NEW own, NEW n, FitsNet(own, n), NEW m \in Message, FitsMessage(own, m)
    PROVE  FitsNet(own, With(n, m))
  BY DEF FitsNet, With

LEMMA LessFits ==
    ASSUME NEW own, NEW n, FitsNet(own, n), NEW m PROVE FitsNet(own, n \ {m})
  BY DEF FitsNet

LEMMA PacketsFit ==
    ASSUME NEW own, NEW n, FitsNet(own, n), NEW d \in Ends, NEW out,
           out.nonce # {} => (CHOOSE nonce \in out.nonce : TRUE)[1] \in Session
    PROVE  FitsNet(own, WithPackets(n, d, out))
<1>1. CASE out.nonce = {}
  BY <1>1 DEF WithPackets
<1>2. CASE out.nonce # {}
  <2>. DEFINE m == Msg("data", Other(d), (CHOOSE nonce \in out.nonce : TRUE)[1])
  <2>1. m \in Message /\ FitsMessage(own, m)
    BY <1>2, OtherEnd DEF Msg, Message, FitsMessage
  <2>2. WithPackets(n, d, out) = With(n, m)
    BY <1>2 DEF WithPackets
  <2>. QED BY <2>1, <2>2, WithFits
<1>. QED BY <1>1, <1>2

-----------------------------------------------------------------------------
(* The steps *)

\* an end moved on, and every session kept its owner
LEMMA Moved ==
    ASSUME TypeOK, NEW own \in [Nat -> Ends], NEW d \in Ends,
           \A o \in Ends : FitsTable(own, o, keys[o]) /\ FitsHandshake(own, o, hs[o]),
           NEW k, FitsTable(own, d, k), keys' = [keys EXCEPT ![d] = k],
           NEW h \in Handshake, FitsHandshake(own, d, h),
           hs' = [hs EXCEPT ![d] = h],
           FitsNet(own, net'),
           \A o \in Ends : Numbered(peer[o]),
           NEW p, Numbered(p), peer' = [peer EXCEPT ![d] = p],
           due' \in [Ends -> 0 .. MaxTimerLag]
    PROVE  TInv'
<1>1. k \in KeyTable /\ keys' \in [Ends -> KeyTable]
  BY DEF TypeOK, FitsTable, KeyTable
<1>2. hs' \in [Ends -> Handshake]
  BY DEF TypeOK
<1>3. peer' \in [Ends -> Peer] /\ \A o \in Ends : Numbered(peer'[o])
  BY DEF TypeOK, Numbered
<1>4. TypeOK'
  BY <1>1, <1>2, <1>3 DEF TypeOK, FitsNet, KeyTable
<1>5. \A o \in Ends : FitsTable(own, o, keys'[o]) /\ FitsHandshake(own, o, hs'[o])
  BY DEF TypeOK
<1>6. Owned(own, keys', hs', net')
  BY <1>5 DEF Owned
<1>. QED BY <1>3, <1>4, <1>6 DEF TInv

LEMMA RxInitiationStep ==
    ASSUME TInv, NEW d \in Ends, NEW m \in net, RxInitiation(d, m) PROVE TInv'
<1>1. PICK own \in [Nat -> Ends] : Owned(own, keys, hs, net)
  BY DEF TInv
<1>2. m \in Message /\ m.session \in Session /\ own[m.session] = Other(d)
  BY <1>1 DEF RxInitiation, Owned, FitsNet, FitsMessage, Message
<1>. DEFINE new == NewKeypair(FALSE, m.session, m.session, Now)
<1>3. new \in Keypair /\ FitsKeypair(own, d, new)
  BY <1>2, NewFits, OtherEnd, NamesAre
<1>. HIDE DEF new
<1>4. FitsTable(own, d, AddNewKeypair(keys[d], new))
  BY <1>1, <1>3, AddNewFits DEF Owned
<1>5. Msg("resp", Other(d), m.session) \in Message
      /\ FitsMessage(own, Msg("resp", Other(d), m.session))
  BY <1>2, OtherEnd DEF Msg, Message, FitsMessage
<1>6. FitsNet(own, net')
  BY <1>1, <1>5, WithFits DEF RxInitiation, Owned
<1>7. NoHandshake \in Handshake /\ FitsHandshake(own, d, NoHandshake)
  BY ConstantTypes
<1>. DEFINE p == [peer[d] EXCEPT !.greatest_timestamp = m.session]
<1>8. /\ keys' = [keys EXCEPT ![d] = AddNewKeypair(keys[d], new)]
      /\ hs' = [hs EXCEPT ![d] = NoHandshake] /\ peer' = [peer EXCEPT ![d] = p]
      /\ due' \in [Ends -> 0 .. MaxTimerLag] /\ TypeOK /\ \A o \in Ends : Numbered(peer[o])
  BY DEF TInv, TypeOK, RxInitiation, new
<1>9. Numbered(p)
  BY <1>2, <1>8, NamesAre DEF Numbered, Peer
<1>. HIDE DEF p
<1>. QED BY <1>1, <1>4, <1>6, <1>7, <1>8, <1>9, Moved DEF Owned

LEMMA RxResponseStep ==
    ASSUME TInv, NEW d \in Ends, NEW m \in net, RxResponse(d, m) PROVE TInv'
<1>1. PICK own \in [Nat -> Ends] : Owned(own, keys, hs, net)
  BY DEF TInv
<1>2. m.session \in Session /\ own[m.session] = d
  BY <1>1 DEF RxResponse, Owned, FitsNet, FitsMessage, Message
<1>3. /\ hs[d] \in Handshake /\ hs[d].local_index \in Names /\ TypeOK
      /\ due' \in [Ends -> 0 .. MaxTimerLag] /\ \A o \in Ends : Numbered(peer[o])
  BY NamesAre DEF TInv, TypeOK, Handshake, RxResponse
<1>4. CASE ~Awaits(d, m)
  <2>1. UNCHANGED <<keys, hs, peer>> /\ net' = net \ {m}
    BY <1>4 DEF RxResponse
  <2>2. FitsNet(own, net')
    BY <1>1, <2>1, LessFits DEF Owned
  <2>3. Owned(own, keys', hs', net') /\ \A o \in Ends : Numbered(peer'[o])
    BY <1>1, <1>3, <2>1, <2>2 DEF Owned
  <2>. QED BY <1>3, <2>1, <2>2, <2>3 DEF TInv, TypeOK, FitsNet
<1>5. SUFFICES ASSUME Awaits(d, m) PROVE TInv'
  BY <1>4
<1>. DEFINE new == NewKeypair(TRUE, m.session, hs[d].local_index, Now)
            k   == AddNewKeypair(keys[d], new)
<1>6. new \in Keypair /\ FitsKeypair(own, d, new)
  BY <1>2, <1>3, NewFits
<1>7. PICK out \in OutputToPeer(k, peer[d], Now) :
         /\ keys' = [keys EXCEPT ![d] = Uncounted(out.keys)]
         /\ peer' = [peer EXCEPT ![d] = out.peer]
         /\ net' = WithPackets(net \ {m}, d, out)
  BY <1>5 DEF RxResponse
<1>. HIDE DEF new
<1>8. FitsTable(own, d, k)
  BY <1>1, <1>6, AddNewFits DEF Owned
<1>. HIDE DEF k
<1>9. /\ FitsTable(own, d, Uncounted(out.keys)) /\ Numbered(out.peer)
      /\ out.nonce # {} => (CHOOSE nonce \in out.nonce : TRUE)[1] \in Session
  BY <1>3, <1>7, <1>8, OutputFits, UncountedFits
<1>10. FitsNet(own, net')
  BY <1>1, <1>7, <1>9, LessFits, PacketsFit DEF Owned
<1>11. NoHandshake \in Handshake /\ FitsHandshake(own, d, NoHandshake)
  BY ConstantTypes
<1>12. hs' = [hs EXCEPT ![d] = NoHandshake]
  BY <1>5 DEF RxResponse
<1>. QED BY <1>1, <1>3, <1>7, <1>9, <1>10, <1>11, <1>12, Moved DEF Owned

LEMMA RxDataStep ==
    ASSUME TInv, NEW d \in Ends, NEW s \in Slots, NEW m \in net, RxData(d, s, m) PROVE TInv'
<1>1. PICK own \in [Nat -> Ends] : Owned(own, keys, hs, net)
  BY DEF TInv
<1>2. /\ FitsTable(own, d, keys[d]) /\ keys \in [Ends -> KeyTable]
      /\ \A o \in Ends : Numbered(peer[o])
  BY <1>1 DEF Owned, TInv, TypeOK, KeyTable
<1>. DEFINE shifted == KeypairUpdate([keys[d] EXCEPT ![s].last_rx = Now], s)
            wiped   == [keys[d] EXCEPT ![s] = NoKeypair]
<1>3. PICK k : keys' = [keys EXCEPT ![d] = k] /\ FitsTable(own, d, k)
  <2>1. FitsTable(own, d, shifted) /\ FitsTable(own, d, wiped)
    BY <1>2, HeardFits, WipeFits
  <2>2. keys' = [keys EXCEPT ![d] = wiped] \/ keys' = [keys EXCEPT ![d] = shifted]
    BY <1>2 DEF RxData
  <2>. HIDE DEF shifted, wiped
  <2>. QED BY <2>1, <2>2
<1>4. FitsNet(own, net')
  BY <1>1, LessFits DEF RxData, Owned
<1>. DEFINE rekey == /\ ~Stale(keys[d][s], Now)
                     /\ shifted[s].initiator
                     /\ Expired(shifted[s].keypair_millis,
                                RejectAfterTime - KeepaliveInterval - RekeyTimeout, Now)
            p     == [peer[d] EXCEPT !.send_handshake = @ \/ rekey]
<1>5. peer' = [peer EXCEPT ![d] = p]
  BY DEF RxData
<1>6. Numbered(p)
  <2>1. (peer[d].send_handshake \/ rekey) \in BOOLEAN
    OBVIOUS
  <2>. HIDE DEF rekey
  <2>. QED BY <1>2, <2>1 DEF Peer, Numbered
<1>. HIDE DEF p
<1>8. /\ due' \in [Ends -> 0 .. MaxTimerLag] /\ TypeOK
      /\ hs[d] \in Handshake /\ hs' = [hs EXCEPT ![d] = hs[d]]
  BY DEF TInv, TypeOK, RxData
<1>. QED BY <1>1, <1>2, <1>3, <1>4, <1>5, <1>6, <1>8, Moved DEF Owned

\* A name that nobody remembers can be given an owner.
LEMMA NewOwner ==
    ASSUME TypeOK, NEW own \in [Nat -> Ends], Owned(own, keys, hs, net),
           NEW e \in NewSessions, NEW d \in Ends
    PROVE  /\ e \in Session /\ [own EXCEPT ![e] = d] \in [Nat -> Ends]
           /\ [own EXCEPT ![e] = d][e] = d
           /\ Owned([own EXCEPT ![e] = d], keys, hs, net)
<1>. DEFINE own2 == [own EXCEPT ![e] = d]
<1>1. e \in Session /\ e \in Nat /\ own2 \in [Nat -> Ends] /\ own2[e] = d
  BY NamesAre DEF NewSessions
<1>2. PICK n \in InUse : e = n + 1 /\ \A u \in InUse : u <= n
  BY DEF NewSessions
<1>3. /\ \A o \in Ends, s \in Slots : keys[o][s].key \in InUse
      /\ \A o \in Ends : hs[o].key \in InUse
      /\ \A m \in net : m.session \in InUse
  BY DEF InUse
<1>4. InUse \subseteq Nat
  <2>1. \A o \in Ends, s \in Slots : keys[o][s].key \in Nat
    BY DEF TypeOK, Keypair
  <2>2. \A o \in Ends : hs[o].key \in Nat
    BY DEF TypeOK, Handshake
  <2>3. \A m \in net : m.session \in Nat
    BY NamesAre DEF TypeOK, Message
  <2>4. \A o \in Ends : peer[o].greatest_timestamp \in Nat
    BY DEF TypeOK, Peer
  <2>. QED BY <2>1, <2>2, <2>3, <2>4 DEF InUse
<1>5. e \notin InUse
  BY <1>2, <1>4
<1>6. \A n2 \in InUse : own2[n2] = own[n2]
  BY <1>4, <1>5
<1>. HIDE DEF own2
<1>7. \A o \in Ends : FitsTable(own2, o, keys[o])
  BY <1>3, <1>6 DEF Owned, FitsTable, FitsKeypair
<1>8. \A o \in Ends : FitsHandshake(own2, o, hs[o])
  BY <1>3, <1>6 DEF Owned, FitsHandshake
<1>9. FitsNet(own2, net)
  BY <1>3, <1>6 DEF Owned, FitsNet, FitsMessage
<1>10. Owned(own2, keys, hs, net)
  BY <1>7, <1>8, <1>9 DEF Owned
<1>. QED BY <1>1, <1>10 DEF own2

\* The steps of the timer before it may initiate.
LEMMA TimerOutput ==
    ASSUME NEW own, NEW d \in Ends, NEW k, FitsTable(own, d, k), NEW p, Numbered(p), NEW out,
           out \in IF ShouldSendKeepalive(k, p, Now) THEN OutputToPeer(k, p, Now)
                                                     ELSE {Unsent(k, p)}
    PROVE  /\ FitsTable(own, d, Uncounted(out.keys)) /\ Numbered(out.peer)
           /\ out.nonce # {} => (CHOOSE nonce \in out.nonce : TRUE)[1] \in Session
<1>1. CASE out \in OutputToPeer(k, p, Now)
  BY <1>1, OutputFits, UncountedFits
<1>2. CASE out = Unsent(k, p)
  BY <1>2, UncountedFits DEF Unsent
<1>. QED BY <1>1, <1>2

LEMMA TimerStep == ASSUME TInv, NEW d \in Ends, Timer(d) PROVE TInv'
<1>. DEFINE reset == ShouldReset(keys[d], Now)
            k1    == IF reset THEN NoKeys ELSE keys[d]
            h1    == IF reset THEN NoHandshake ELSE hs[d]
            k2    == IF ShouldDestroyCurrent(k1, Now) THEN [k1 EXCEPT !["curr"] = NoKeypair]
                                                      ELSE k1
            alive == IF ShouldSendKeepalive(k2, peer[d], Now) THEN OutputToPeer(k2, peer[d], Now)
                                                              ELSE {Unsent(k2, peer[d])}
<1>1. PICK own \in [Nat -> Ends] : Owned(own, keys, hs, net)
  BY DEF TInv
<1>2. PICK out \in alive :
         /\ keys' = [keys EXCEPT ![d] = Uncounted(out.keys)]
         /\ IF ShouldSendInitiation(out.keys, out.peer, Now)
            THEN \E e \in NewSessions :
                 /\ hs' = [hs EXCEPT ![d] = [valid |-> TRUE, key |-> e, local_index |-> e]]
                 /\ peer' = [peer EXCEPT ![d] = [out.peer EXCEPT !.send_handshake = FALSE,
                                                                !.last_initiation_tx = Now]]
                 /\ net' = With(WithPackets(net, d, out), Msg("init", Other(d), e))
            ELSE /\ hs' = [hs EXCEPT ![d] = h1]
                 /\ peer' = [peer EXCEPT ![d] = out.peer]
                 /\ net' = WithPackets(net, d, out)
  BY Zenon DEF Timer
<1>3. /\ TypeOK /\ due' \in [Ends -> 0 .. MaxTimerLag]
      /\ \A o \in Ends : Numbered(peer[o])
  <2>1. due' = [due EXCEPT ![d] = 0]
    BY Zenon DEF Timer
  <2>2. 0 \in 0 .. MaxTimerLag
    BY TunnelAssumption
  <2>3. TypeOK /\ \A o \in Ends : Numbered(peer[o])
    BY DEF TInv
  <2>. QED BY ONLY <2>1, <2>2, <2>3, d \in Ends DEF TypeOK
<1>4. ASSUME NEW own2 \in [Nat -> Ends], Owned(own2, keys, hs, net)
      PROVE  /\ FitsTable(own2, d, Uncounted(out.keys)) /\ Numbered(out.peer)
             /\ FitsNet(own2, WithPackets(net, d, out))
             /\ h1 \in Handshake /\ FitsHandshake(own2, d, h1)
  <2>1. FitsTable(own2, d, k1)
    BY <1>4, NoKeysFit DEF Owned
  <2>2. FitsTable(own2, d, k2)
    BY <2>1, WipeFits DEF Slots
  <2>3. h1 \in Handshake /\ FitsHandshake(own2, d, h1)
    BY <1>3, <1>4, ConstantTypes DEF Owned, TypeOK
  <2>. HIDE DEF k1, k2, h1
  <2>4. /\ FitsTable(own2, d, Uncounted(out.keys)) /\ Numbered(out.peer)
        /\ out.nonce # {} => (CHOOSE nonce \in out.nonce : TRUE)[1] \in Session
    BY <1>2, <1>3, <2>2, TimerOutput
  <2>. QED BY <1>4, <2>3, <2>4, PacketsFit DEF Owned
<1>. HIDE DEF alive, h1
<1>5. CASE ~ShouldSendInitiation(out.keys, out.peer, Now)
  <2>1. /\ FitsTable(own, d, Uncounted(out.keys)) /\ Numbered(out.peer)
        /\ FitsNet(own, WithPackets(net, d, out))
        /\ h1 \in Handshake /\ FitsHandshake(own, d, h1)
    BY <1>1, <1>4
  <2>2. hs' = [hs EXCEPT ![d] = h1] /\ net' = WithPackets(net, d, out)
    BY <1>2, <1>5
  <2>3. peer' = [peer EXCEPT ![d] = out.peer]
    BY <1>2, <1>5
  <2>. QED BY <1>1, <1>2, <1>3, <2>1, <2>2, <2>3, Moved DEF Owned
<1>6. CASE ShouldSendInitiation(out.keys, out.peer, Now)
  <2>1. PICK e \in NewSessions :
           /\ hs' = [hs EXCEPT ![d] = [valid |-> TRUE, key |-> e, local_index |-> e]]
           /\ peer' = [peer EXCEPT ![d] = [out.peer EXCEPT !.send_handshake = FALSE,
                                                          !.last_initiation_tx = Now]]
           /\ net' = With(WithPackets(net, d, out), Msg("init", Other(d), e))
    BY <1>2, <1>6
  <2>2. PICK own2 \in [Nat -> Ends] :
           e \in Session /\ own2[e] = d /\ Owned(own2, keys, hs, net)
    BY <1>1, <1>3, NewOwner
  <2>3. /\ FitsTable(own2, d, Uncounted(out.keys)) /\ Numbered(out.peer)
        /\ FitsNet(own2, WithPackets(net, d, out))
    BY <1>4, <2>2
  <2>. DEFINE h == [valid |-> TRUE, key |-> e, local_index |-> e]
              m == Msg("init", Other(d), e)
  <2>4. h \in Handshake /\ FitsHandshake(own2, d, h)
    BY <2>2, NamesAre DEF Handshake, FitsHandshake
  <2>5. m \in Message /\ FitsMessage(own2, m)
    BY <2>2, OtherEnd DEF Msg, Message, FitsMessage
  <2>. DEFINE p == [out.peer EXCEPT !.send_handshake = FALSE, !.last_initiation_tx = Now]
  <2>6. Numbered(p)
    BY <2>3, TimesAre DEF Peer, Numbered
  <2>7. peer' = [peer EXCEPT ![d] = p]
    BY <2>1
  <2>8. hs' = [hs EXCEPT ![d] = h] /\ net' = With(WithPackets(net, d, out), m)
    BY <2>1
  <2>. HIDE DEF h, m, p
  <2>9. FitsNet(own2, net')
    BY <2>3, <2>5, <2>8, WithFits
  <2>. QED BY <1>2, <1>3, <2>2, <2>3, <2>4, <2>6, <2>7, <2>8, <2>9, Moved DEF Owned
<1>. QED BY <1>5, <1>6

-----------------------------------------------------------------------------
(* The tick *)

\* Renaming loses nobody's session and confuses no two.
LEMMA Ranks ==
    ASSUME InUse \subseteq Names
    PROVE  /\ \A e \in Names : Rank(e) \in Names /\ (e # 0 => Rank(e) # 0)
           /\ \A a, b \in InUse : a # b => Rank(a) # Rank(b)
<1>. DEFINE N == Cardinality(Session)
            Below(e) == {n \in InUse : n < e}
<1>1. /\ N \in Nat /\ 0 \in InUse
      /\ \A e : e \in Names <=> e \in Nat /\ e <= N
  BY NamesAre DEF InUse
<1>2. \A e \in InUse : e \in Nat
  BY <1>1
<1>3. ASSUME NEW e \in Names
      PROVE  /\ IsFiniteSet(Below(e)) /\ Rank(e) \in Nat /\ Rank(e) <= e
             /\ e # 0 => Rank(e) # 0
  <2>1. IsFiniteSet(0 .. e - 1) /\ Cardinality(0 .. e - 1) = e
    <3>1. e \in Nat /\ 0 \in Int /\ e - 1 \in Int
      BY <1>1
    <3>2. /\ IsFiniteSet(0 .. e - 1)
          /\ Cardinality(0 .. e - 1) = IF 0 > e - 1 THEN 0 ELSE (e - 1) - 0 + 1
      BY <3>1, FS_Interval
    <3>. QED BY <3>1, <3>2
  <2>2. Below(e) \in SUBSET (0 .. e - 1)
    BY <1>1, <1>2
  <2>3. IsFiniteSet(Below(e)) /\ Cardinality(Below(e)) <= e
    BY <2>1, <2>2, FS_Subset
  <2>4. e # 0 => 0 \in Below(e)
    BY <1>1
  <2>. HIDE DEF Below
  <2>5. Cardinality(Below(e)) \in Nat /\ (e # 0 => Cardinality(Below(e)) # 0)
    BY <2>3, <2>4, FS_CardinalityType, FS_EmptySet
  <2>. QED BY <2>3, <2>5 DEF Rank, Below
<1>4. ASSUME NEW a \in InUse, NEW b \in InUse, a < b PROVE Rank(a) < Rank(b)
  <2>1. a \in Names /\ b \in Names
    OBVIOUS
  <2>2. Below(a) \cup {a} \in SUBSET Below(b) /\ a \notin Below(a)
    BY <1>4, <1>2
  <2>3. IsFiniteSet(Below(a)) /\ IsFiniteSet(Below(b))
    BY <1>3, <2>1
  <2>4. Rank(a) = Cardinality(Below(a)) /\ Rank(b) = Cardinality(Below(b)) /\ Rank(a) \in Nat
        /\ Rank(b) \in Nat
    BY <1>3, <2>1 DEF Rank
  <2>. HIDE DEF Below
  <2>5. Cardinality(Below(a) \cup {a}) = Cardinality(Below(a)) + 1
    BY <2>2, <2>3, FS_AddElement
  <2>6. Cardinality(Below(a) \cup {a}) <= Cardinality(Below(b))
    BY <2>2, <2>3, FS_Subset
  <2>. QED BY <2>4, <2>5, <2>6
<1>. HIDE DEF N
<1>5. ASSUME NEW e \in Names PROVE Rank(e) \in Names /\ (e # 0 => Rank(e) # 0)
  <2>1. e \in Nat /\ e <= N /\ Rank(e) \in Nat /\ Rank(e) <= e
    BY <1>1, <1>3
  <2>2. Rank(e) \in Nat /\ Rank(e) <= N
    BY <1>1, <2>1
  <2>3. e # 0 => Rank(e) # 0
    BY <1>3
  <2>. QED BY <1>1, <2>2, <2>3
<1>6. ASSUME NEW a \in InUse, NEW b \in InUse, a # b PROVE Rank(a) # Rank(b)
  <2>1. a \in Names /\ b \in Names
    OBVIOUS
  <2>2. a \in Nat /\ b \in Nat /\ Rank(a) \in Nat /\ Rank(b) \in Nat
    BY <1>1, <1>3, <2>1
  <2>3. CASE a < b
    BY <1>4, <2>2, <2>3
  <2>4. CASE b < a
    BY <1>4, <2>2, <2>4
  <2>. QED BY <1>6, <2>2, <2>3, <2>4
<1>. QED BY <1>5, <1>6

LEMMA AgedTime == ASSUME NEW t \in Millis, NEW limit \in Nat PROVE Aged(t, limit) \in Millis
  BY TimesAre DEF Aged, Millis, Now

LEMMA AgedPeerType == ASSUME NEW p \in Peer PROVE Numbered(AgedPeer(p))
<1>. DEFINE t == p.last_initiation_tx
<1>1. t \in Millis /\ Aged(p.last_tx, KeepaliveInterval) \in Millis
  BY AgedTime, TimesAre DEF Peer
<1>2. ASSUME t = 0 PROVE Expired(t, RekeyTimeout, Now + 1)
  <2>1. (Now + 1) - t = ClockMod - 1 /\ ClockMod \in Nat \ {0}
    BY <1>2, TimesAre DEF Now
  <2>2. (ClockMod - 1) % ClockMod = ClockMod - 1
    BY <2>1
  <2>3. RekeyTimeout % ClockMod \in 0 .. ClockMod - 1
    BY <2>1, TimesAre
  <2>4. ((Now + 1) - t) % ClockMod = ClockMod - 1
    BY ONLY <2>1, <2>2
  <2>5. ((Now + 1) - t) % ClockMod >= RekeyTimeout % ClockMod
    BY ONLY <2>1, <2>3, <2>4
  <2>. QED BY <2>5 DEF Expired
<1>3. (IF Expired(t, RekeyTimeout, Now + 1) THEN 0 ELSE t - 1) \in Millis
  BY <1>1, <1>2, TimesAre DEF Millis
<1>. QED BY <1>1, <1>3 DEF AgedPeer, Peer, Numbered, Names

LEMMA AgedKeysType ==
    ASSUME InUse \subseteq Names, NEW k \in KeyTable, \A s \in Slots : k[s].key \in Names
    PROVE  /\ AgedKeys(k) \in KeyTable
           /\ \A s \in Slots : /\ AgedKeys(k)[s].valid = k[s].valid
                               /\ AgedKeys(k)[s].key = Rank(k[s].key)
                               /\ AgedKeys(k)[s].initiator = k[s].initiator
<1>1. ASSUME NEW s \in Slots, NEW limit \in Nat
      PROVE  /\ AgedKeypair(k[s], limit) \in Keypair
             /\ AgedKeypair(k[s], limit).valid = k[s].valid
             /\ AgedKeypair(k[s], limit).key = Rank(k[s].key)
             /\ AgedKeypair(k[s], limit).initiator = k[s].initiator
  <2>1. k[s] \in Keypair
    BY DEF KeyTable
  <2>2. /\ Rank(k[s].key) \in Nat /\ Rank(k[s].local_index) \in LocalIndex \cup {NoIndex}
        /\ Aged(k[s].keypair_millis, limit) \in Millis
    BY <2>1, Ranks, AgedTime, NamesAre DEF Keypair
  <2>. QED BY <2>1, <2>2 DEF AgedKeypair, Keypair
<1>2. 3 * RejectAfterTime \in Nat /\ RejectAfterTime \in Nat
  BY TimesAre
<1>3. \A s \in Slots : \E limit \in Nat : AgedKeys(k)[s] = AgedKeypair(k[s], limit)
  BY <1>2 DEF AgedKeys
<1>4. AgedKeys(k) = [s \in Slots |-> AgedKeys(k)[s]]
  BY DEF AgedKeys
<1>. QED BY <1>1, <1>3, <1>4 DEF KeyTable

LEMMA TickStep == ASSUME TInv, Tick PROVE TInv'
<1>1. PICK own \in [Nat -> Ends] : Owned(own, keys, hs, net)
  BY DEF TInv
<1>2. TypeOK /\ \A o \in Ends : FitsTable(own, o, keys[o]) /\ FitsHandshake(own, o, hs[o])
  BY <1>1 DEF TInv, Owned
<1>3. InUse \subseteq Names
  <2>1. \A o \in Ends, s \in Slots : keys[o][s].key \in Names
    BY <1>2 DEF FitsTable, FitsKeypair
  <2>2. \A o \in Ends : hs[o].key \in Names
    BY <1>2 DEF FitsHandshake
  <2>3. \A m \in net : m.session \in Names
    BY <1>2 DEF TypeOK, Message, Names
  <2>4. 0 \in Names
    BY DEF Names
  <2>5. \A o \in Ends : peer[o].greatest_timestamp \in Names
    BY DEF TInv, Numbered
  <2>. QED BY <2>1, <2>2, <2>3, <2>4, <2>5 DEF InUse
<1>. DEFINE old(r) == CHOOSE e \in InUse : Rank(e) = r
            own2 == [r \in Nat |-> IF \E e \in InUse : Rank(e) = r THEN own[old(r)] ELSE A]
<1>4. \A e \in InUse : old(Rank(e)) = e /\ Rank(e) \in Nat
  BY <1>3, Ranks, NamesAre
<1>5. own2 \in [Nat -> Ends]
  <2>1. ASSUME NEW r \in Nat, NEW e \in InUse, Rank(e) = r PROVE own[old(r)] \in Ends
    BY <1>3, <1>4, <2>1, NamesAre
  <2>. QED BY <2>1 DEF Ends
<1>6. \A e \in InUse : own2[Rank(e)] = own[e]
  BY <1>4
<1>. HIDE DEF own2, old
<1>7. ASSUME NEW o \in Ends
      PROVE  FitsTable(own2, o, keys'[o]) /\ FitsHandshake(own2, o, hs'[o])
             /\ hs'[o] \in Handshake
  <2>1. keys[o] \in KeyTable /\ hs[o] \in Handshake
    BY <1>2 DEF TypeOK, KeyTable
  <2>2. \A s \in Slots : keys[o][s].key \in InUse /\ FitsKeypair(own, o, keys[o][s])
    BY <1>2 DEF InUse, FitsTable
  <2>3. hs[o].key \in InUse /\ FitsHandshake(own, o, hs[o])
    BY <1>2 DEF InUse
  <2>4. keys'[o] = AgedKeys(keys[o])
        /\ hs'[o] = [hs[o] EXCEPT !.key = Rank(@), !.local_index = Rank(@)]
    BY DEF Tick
  <2>5. /\ keys'[o] \in KeyTable
        /\ \A s \in Slots : /\ keys'[o][s].valid = keys[o][s].valid
                            /\ keys'[o][s].key = Rank(keys[o][s].key)
                            /\ keys'[o][s].initiator = keys[o][s].initiator
    BY <1>3, <2>1, <2>2, <2>4, AgedKeysType
  <2>6. FitsTable(own2, o, keys'[o])
    BY <1>3, <1>6, <2>2, <2>5, Ranks DEF FitsTable, FitsKeypair
  <2>7. hs[o].local_index \in Names
    BY <2>1, NamesAre DEF Handshake
  <2>8. /\ hs'[o].valid = hs[o].valid /\ hs'[o].key = Rank(hs[o].key)
        /\ hs'[o].local_index = Rank(hs[o].local_index) /\ hs'[o] \in Handshake
    BY <1>3, <2>1, <2>3, <2>4, <2>7, Ranks, NamesAre DEF Handshake
  <2>9. FitsHandshake(own2, o, hs'[o])
    BY <1>3, <1>6, <2>3, <2>8, Ranks DEF FitsHandshake
  <2>. QED BY <2>6, <2>8, <2>9
<1>8. net' = {} /\ keys' = [o \in Ends |-> keys'[o]] /\ hs' = [o \in Ends |-> hs'[o]]
  BY DEF Tick
<1>9. /\ peer' \in [Ends -> Peer] /\ due' \in [Ends -> 0 .. MaxTimerLag]
      /\ \A o \in Ends : Numbered(peer'[o])
  <2>1. \A o \in Ends : AgedPeer(peer[o]) \in Peer /\ Numbered(AgedPeer(peer[o]))
    BY <1>2, AgedPeerType DEF TypeOK, Numbered
  <2>2. ASSUME NEW o \in Ends PROVE due[o] + 1 \in 0 .. MaxTimerLag
    <3>1. due[o] \in 0 .. MaxTimerLag /\ due[o] < MaxTimerLag /\ MaxTimerLag \in Nat
      BY <1>2, TunnelAssumption DEF TypeOK, Tick
    <3>. QED BY <3>1
  <2>3. peer' = [o \in Ends |-> AgedPeer(peer[o])] /\ due' = [o \in Ends |-> due[o] + 1]
    BY DEF Tick
  <2>. QED BY ONLY <2>1, <2>2, <2>3
<1>10. keys' \in [Ends -> [Slots -> Keypair]] /\ hs' \in [Ends -> Handshake]
  BY <1>7, <1>8 DEF FitsTable, KeyTable
<1>11. TypeOK'
  BY <1>8, <1>9, <1>10 DEF TypeOK
<1>12. Owned(own2, keys', hs', net')
  BY <1>7, <1>8 DEF Owned, FitsNet
<1>. QED BY <1>5, <1>9, <1>11, <1>12 DEF TInv

-----------------------------------------------------------------------------
(* The theorems *)

LEMMA TunnelInit == Init => TInv
<1>. SUFFICES ASSUME Init PROVE TInv
  OBVIOUS
<1>1. PICK d \in Ends, k \in Remembered, both \in BOOLEAN :
         /\ keys = [e \in Ends |-> IF e = d THEN [NoKeys EXCEPT !["curr"] = k] ELSE NoKeys]
         /\ peer = [e \in Ends |->
                      [Begun(e = A \/ both) EXCEPT
                         !.greatest_timestamp = IF e = d /\ k.valid /\ ~k.initiator THEN 1 ELSE 0]]
         /\ net \in {{}, {Msg("init", Other(d), 2)}}
  BY DEF Init
<1>2. 1 \in Session /\ 2 \in Session /\ 1 \in Names /\ 0 \in Names /\ 1 \in LocalIndex
  BY TunnelAssumption DEF Names, Session
\* the other end's restart has left d the owner of the initiation under way
<1>3. PICK own \in [Nat -> Ends] : FitsKeypair(own, d, k) /\ k \in Keypair /\ own[2] = d
  <2>1. CASE k = NoKeypair
    <3>. DEFINE own0 == [e \in Nat |-> d]
    <3>1. own0 \in [Nat -> Ends] /\ own0[2] = d
      OBVIOUS
    <3>. HIDE DEF own0
    <3>2. FitsKeypair(own0, d, k) /\ k \in Keypair
      BY <2>1, ConstantTypes
    <3>. QED BY <3>1, <3>2
  <2>2. CASE k # NoKeypair
    <3>1. PICK i \in BOOLEAN, age \in 0 .. RejectAfterTime : k = Kept(i, age)
      BY <2>2 DEF Remembered
    <3>. DEFINE own1 == [e \in Nat |-> IF i \/ e = 2 THEN d ELSE Other(d)]
                new  == NewKeypair(i, 1, 1, Now - age)
    <3>2. own1 \in [Nat -> Ends] /\ (i <=> own1[1] = d) /\ own1[2] = d
      BY OtherEnd
    <3>3. Now - age \in Millis /\ EmptyWindow \in Window /\ 0 \in Millis
      BY TimesAre DEF Millis, Now, EmptyWindow, Window
    <3>4. new \in Keypair /\ new.valid /\ new.key = 1 /\ new.initiator = i
      BY <1>2, <3>3 DEF NewKeypair, Keypair
    <3>5. k = [new EXCEPT !.last_rx = IF i THEN 0 ELSE Now]
      BY <3>1 DEF Kept
    <3>. HIDE DEF new, own1
    <3>6. k \in Keypair /\ k.valid /\ k.key = 1 /\ k.initiator = i
      BY <3>4, <3>5, TimesAre DEF Keypair
    <3>. QED BY <1>2, <3>2, <3>6 DEF FitsKeypair
  <2>. QED BY <2>1, <2>2
<1>4. \A o \in Ends : FitsTable(own, o, keys[o])
  BY <1>1, <1>3, NoKeysFit, ConstantTypes DEF FitsTable, KeyTable, NoKeys, Slots
<1>5. \A o \in Ends : hs[o] = NoHandshake /\ FitsHandshake(own, o, hs[o])
  BY ConstantTypes DEF Init
<1>6. FitsNet(own, net)
  <2>. DEFINE m == Msg("init", Other(d), 2)
  <2>1. m \in Message /\ FitsMessage(own, m)
    BY <1>2, <1>3, OtherEnd DEF Msg, Message, FitsMessage
  <2>. HIDE DEF m
  <2>2. net = {} \/ net = {m}
    BY <1>1 DEF m
  <2>. QED BY <2>1, <2>2 DEF FitsNet
<1>7. ASSUME NEW b \in BOOLEAN, NEW t \in Names
      PROVE  Numbered([Begun(b) EXCEPT !.greatest_timestamp = t])
  <2>1. 0 \in Millis /\ t \in Nat
    BY TimesAre, NamesAre
  <2>. QED BY <2>1 DEF Begun, NoPeer, Peer, Numbered
<1>8. \A o \in Ends : Numbered(peer[o])
  <2>1. ASSUME NEW o \in Ends PROVE Numbered(peer[o])
    <3>1. PICK t \in Names : peer[o] = [Begun(o = A \/ both) EXCEPT !.greatest_timestamp = t]
      BY <1>1, <1>2
    <3>2. (o = A \/ both) \in BOOLEAN
      OBVIOUS
    <3>. QED BY <1>7, <3>1, <3>2
  <2>. QED BY <2>1
<1>9. peer \in [Ends -> Peer]
  BY <1>1, <1>8 DEF Numbered
<1>10. /\ keys \in [Ends -> [Slots -> Keypair]] /\ hs \in [Ends -> Handshake]
       /\ due \in [Ends -> 0 .. MaxTimerLag]
  BY <1>1, <1>4, ConstantTypes, TunnelAssumption DEF Init, FitsTable, KeyTable
<1>11. Owned(own, keys, hs, net)
  BY <1>4, <1>5, <1>6 DEF Owned
<1>. QED BY <1>6, <1>8, <1>9, <1>10, <1>11 DEF TInv, TypeOK, FitsNet

LEMMA TunnelStep == TInv /\ [Next]_vars => TInv'
<1>. SUFFICES ASSUME TInv, [Next]_vars PROVE TInv'
  OBVIOUS
<1>1. CASE UNCHANGED vars
  BY <1>1 DEF TInv, TypeOK, Owned, vars
<1>. QED BY <1>1, RxInitiationStep, RxResponseStep, RxDataStep, TimerStep, TickStep DEF Next

\* The fields of both ends, and the messages, stay within their types, and the
\* invariant holds that everything below rests on.
THEOREM TunnelTypes == Spec => [](TypeOK /\ TInv)
<1>1. TInv => TypeOK
  BY DEF TInv
<1>. QED BY <1>1, TunnelInit, TunnelStep, PTL DEF Spec

\* However their handshakes cross and whatever is lost, of two ends that hold a
\* session one is its initiator.
THEOREM OneEndInitiates == Spec => []OneInitiator
<1>1. TInv => OneInitiator
  <2>. SUFFICES ASSUME TInv, NEW s \in Slots, NEW t \in Slots,
                       keys[A][s].valid, keys[B][t].valid, keys[A][s].key = keys[B][t].key
                PROVE  keys[A][s].initiator # keys[B][t].initiator
    BY DEF OneInitiator
  <2>1. PICK own \in [Nat -> Ends] : Owned(own, keys, hs, net)
    BY DEF TInv
  <2>2. A \in Ends /\ B \in Ends /\ A # B
    BY TunnelAssumption DEF Ends
  <2>3. FitsKeypair(own, A, keys[A][s]) /\ FitsKeypair(own, B, keys[B][t])
    BY <2>1, <2>2 DEF Owned, FitsTable
  <2>4. keys[A][s].key \in Nat /\ own[keys[A][s].key] \in {A, B}
    BY <2>3, NamesAre DEF FitsKeypair, Ends
  <2>. QED BY <2>2, <2>3, <2>4 DEF FitsKeypair
<1>. QED BY <1>1, TunnelTypes, PTL
=============================================================================
