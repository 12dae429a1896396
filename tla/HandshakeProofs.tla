--------------------------- MODULE HandshakeProofs ---------------------------
(***************************************************************************)
(* Proofs about Handshake, for any keys, messages, faults and restarts.    *)
(*                                                                         *)
(* HInv: the keys of a session come from a chaining key whose first input  *)
(* is the initiator's ephemeral key and whose fourth is the responder's.   *)
(* Either end adds one that is new: the responder draws its own for the    *)
(* session, and the initiator's belongs to a pending handshake, which the  *)
(* start of any session wipes.  So no keys come twice.                     *)
(*                                                                         *)
(* AInv: what a message under way proves of its sender's configuration.    *)
(* PInv: a response reports a session its sender has started.              *)
(* CInv: a cookie that is held or under way, or under which a MAC was      *)
(* made, was made by the other end: under a secret it has left, or for an  *)
(* address it has sent its present one to.  A reply still awaited answers  *)
(* the latest message, and is newer than the cookie held.                  *)
(* EInv: no chain has a product of an ephemeral key still to be drawn, and *)
(* none of a session has one of the key its end has now.                   *)
(***************************************************************************)
EXTENDS Handshake, TLAPS

\* the chaining key of a session
ChainOf(s) == SendsOn(s).chain

\* s came from the ephemeral keys a of its initiator and b of its responder
ComesFrom(s, a, b) ==
    /\ HearsOn(s).chain = ChainOf(s)
    /\ ChainOf(s)[1] = Pub(a) /\ ChainOf(s)[4] = Pub(b)

Shaped ==
    /\ fresh \in Nat
    /\ DOMAIN hs = Ends /\ DOMAIN made = Ends
    /\ \A d \in Ends : \E R : made[d] \in Seq(R)

\* c is a chaining key after n inputs
IsChain(c, n) == (\E R : c \in Seq(R)) /\ Len(c) = n

\* nothing is older than the ephemeral key it names
Drawn ==
    /\ \A m \in net : m.type \in {"init", "resp"} => m.ephemeral \in 1 .. fresh
    /\ \A d \in Ends : \A n \in DOMAIN made[d] :
          \E a, b \in 1 .. fresh : ComesFrom(made[d][n], a, b)

\* a pending handshake has led to no session yet
Unused ==
    \A d \in Ends : hs[d].valid =>
        /\ hs[d].ephemeral \in 1 .. fresh
        /\ IsChain(hs[d].chain, 3) /\ hs[d].chain[1] = Pub(hs[d].ephemeral)
        /\ \A n \in DOMAIN made[d] : ChainOf(made[d][n])[1] # Pub(hs[d].ephemeral)

Apart == \A d \in Ends : \A m, n \in DOMAIN made[d] :
            m # n => ChainOf(made[d][m]) # ChainOf(made[d][n])

HInv == Shaped /\ Drawn /\ Unused /\ Apart

\* Different keys have different names in a chain.
LEMMA PubInjective == \A a, b : Pub(a) = Pub(b) => a = b
  BY DEF Pub

LEMMA KdfAppends ==
    ASSUME NEW c, NEW n \in Nat, IsChain(c, n), NEW x
    PROVE  /\ IsChain(Kdf(c, x), n + 1) /\ Kdf(c, x)[n + 1] = x
           /\ \A i \in 1 .. n : Kdf(c, x)[i] = c[i]
<1>1. PICK R : c \in Seq(R)
  BY DEF IsChain
<1>2. c \in Seq(R \cup {x}) /\ Len(c) = n
  BY <1>1 DEF IsChain
<1>. QED BY <1>2 DEF Kdf, IsChain

\* What the initiation makes of the chain.
LEMMA InitiationChain ==
    ASSUME NEW e, NEW es, NEW ss
    PROVE  /\ IsChain(TimestampChain(StaticChain(e, es), ss), 3)
           /\ TimestampChain(StaticChain(e, es), ss)[1] = Pub(e)
<1>. DEFINE c1 == Kdf(<<>>, Pub(e))
            c2 == Kdf(c1, es)
            c3 == Kdf(c2, ss)
<1>0. IsChain(<<>>, 0)
  <2>1. <<>> \in Seq({}) /\ Len(<<>>) = 0
    OBVIOUS
  <2>. QED BY <2>1 DEF IsChain
<1>1. IsChain(c1, 1) /\ c1[1] = Pub(e)
  <2>1. IsChain(c1, 0 + 1) /\ c1[0 + 1] = Pub(e)
    BY <1>0, KdfAppends
  <2>. QED BY <2>1
<1>. HIDE DEF c1
<1>2. IsChain(c2, 2) /\ c2[1] = Pub(e)
  <2>1. IsChain(c2, 1 + 1) /\ \A i \in 1 .. 1 : c2[i] = c1[i]
    BY <1>1, KdfAppends
  <2>. QED BY <2>1, <1>1
<1>. HIDE DEF c2
<1>3. IsChain(c3, 3) /\ c3[1] = Pub(e)
  <2>1. IsChain(c3, 2 + 1) /\ \A i \in 1 .. 2 : c3[i] = c2[i]
    BY <1>2, KdfAppends
  <2>. QED BY <2>1, <1>2
<1>. QED BY <1>3 DEF c2, c1, TimestampChain, StaticChain

\* What the response adds to the chain, and what comes of the session.
LEMMA SessionComesFrom ==
    ASSUME NEW c, IsChain(c, 3), NEW a, c[1] = Pub(a), NEW b, NEW ee, NEW se, NEW q,
           NEW half, NEW remote, half.chain = ResponseChain(c, b, ee, se, q)
    PROVE  ComesFrom(Session(half, remote), a, b)
<1>. DEFINE s  == Session(half, remote)
            c4 == Kdf(c, Pub(b))
            c5 == Kdf(c4, ee)
            c6 == Kdf(c5, se)
            c7 == Kdf(c6, Psk(q))
            c8 == Kdf(c7, Nothing)
<1>1. half.chain = c7
  BY DEF ResponseChain
<1>2. c8[1] = Pub(a) /\ c8[4] = Pub(b)
  <2>4. IsChain(c4, 4) /\ c4[1] = Pub(a) /\ c4[4] = Pub(b)
    <3>1. IsChain(c4, 3 + 1) /\ c4[3 + 1] = Pub(b) /\ \A i \in 1 .. 3 : c4[i] = c[i]
      BY KdfAppends
    <3>. QED BY <3>1
  <2>. HIDE DEF c4
  <2>5. IsChain(c5, 5) /\ c5[1] = Pub(a) /\ c5[4] = Pub(b)
    <3>1. IsChain(c5, 4 + 1) /\ \A i \in 1 .. 4 : c5[i] = c4[i]
      BY <2>4, KdfAppends
    <3>. QED BY <3>1, <2>4
  <2>. HIDE DEF c5
  <2>6. IsChain(c6, 6) /\ c6[1] = Pub(a) /\ c6[4] = Pub(b)
    <3>1. IsChain(c6, 5 + 1) /\ \A i \in 1 .. 5 : c6[i] = c5[i]
      BY <2>5, KdfAppends
    <3>. QED BY <3>1, <2>5
  <2>. HIDE DEF c6
  <2>7. IsChain(c7, 7) /\ c7[1] = Pub(a) /\ c7[4] = Pub(b)
    <3>1. IsChain(c7, 6 + 1) /\ \A i \in 1 .. 6 : c7[i] = c6[i]
      BY <2>6, KdfAppends
    <3>. QED BY <3>1, <2>6
  <2>. HIDE DEF c7
  <2>8. \A i \in 1 .. 7 : c8[i] = c7[i]
    BY <2>7, KdfAppends
  <2>. QED BY <2>7, <2>8
<1>. HIDE DEF c7
<1>3. s.key.keys = SessionKeys(half.initiator, half.chain)
  BY DEF Session, NewKeypair
<1>4. /\ SessionKeys(half.initiator, half.chain).sending.chain = Kdf(half.chain, Nothing)
      /\ SessionKeys(half.initiator, half.chain).receiving.chain = Kdf(half.chain, Nothing)
  BY DEF SessionKeys, SessionKey, Output
<1>5. ChainOf(s) = c8 /\ HearsOn(s).chain = c8
  BY <1>1, <1>3, <1>4 DEF ChainOf, SendsOn, HearsOn
<1>. HIDE DEF s, c8
<1>6. ComesFrom(s, a, b)
  BY <1>2, <1>5 DEF ComesFrom
<1>. QED BY <1>6 DEF s

\* Starting a session from a new ephemeral key of either role keeps the
\* invariant.
LEMMA StartKeeps ==
    ASSUME HInv, NEW d \in Ends, NEW half, NEW remote, StartSession(d, half, remote),
           fresh' \in Nat, fresh <= fresh',
           \A m \in net' : m.type \in {"init", "resp"} => m.ephemeral \in 1 .. fresh',
           NEW a \in 1 .. fresh', NEW b \in 1 .. fresh',
           ComesFrom(Session(half, remote), a, b),
           \A n \in DOMAIN made[d] : ChainOf(made[d][n])[1] # Pub(a)
                                     \/ ChainOf(made[d][n])[4] # Pub(b)
    PROVE  HInv'
<1>. DEFINE s == Session(half, remote)
<1>1. /\ made' = [made EXCEPT ![d] = Append(@, s)] /\ hs' = [hs EXCEPT ![d] = NoHs]
      /\ DOMAIN made = Ends /\ DOMAIN hs = Ends /\ fresh \in Nat
  BY DEF StartSession, Ended, HInv, Shaped
<1>. HIDE DEF s
<1>2. made'[d] = Append(made[d], s) /\ \A o \in Ends : o # d => made'[o] = made[o]
  BY <1>1
<1>3. ~hs'[d].valid /\ \A o \in Ends : o # d => hs'[o] = hs[o]
  BY <1>1 DEF NoHs
<1>4. PICK R : made[d] \in Seq(R)
  BY DEF HInv, Shaped
<1>5. /\ made'[d] \in Seq(R \cup {s}) /\ DOMAIN made'[d] = 1 .. Len(made[d]) + 1
      /\ DOMAIN made[d] = 1 .. Len(made[d]) /\ Len(made[d]) \in Nat
      /\ made'[d][Len(made[d]) + 1] = s
      /\ \A n \in DOMAIN made[d] : made'[d][n] = made[d][n]
  <2>1. made[d] \in Seq(R \cup {s})
    BY <1>4
  <2>. QED BY <1>2, <2>1
<1>6. Shaped'
  <2>1. DOMAIN hs' = Ends /\ DOMAIN made' = Ends
    BY <1>1
  <2>2. \A o \in Ends : \E Q : made'[o] \in Seq(Q)
    BY <1>2, <1>5 DEF HInv, Shaped
  <2>. QED BY <2>1, <2>2 DEF Shaped
<1>7. Drawn'
  <2>1. ASSUME NEW o \in Ends, NEW n \in DOMAIN made'[o]
        PROVE  \E x, y \in 1 .. fresh' : ComesFrom(made'[o][n], x, y)
    <3>1. CASE o = d /\ n = Len(made[d]) + 1
      BY <1>5, <3>1 DEF s
    <3>2. CASE ~(o = d /\ n = Len(made[d]) + 1)
      <4>1. n \in DOMAIN made[o] /\ made'[o][n] = made[o][n]
        <5>1. CASE o # d
          BY <1>2, <2>1, <5>1
        <5>2. CASE o = d
          <6>1. n \in 1 .. Len(made[d]) + 1 /\ n # Len(made[d]) + 1
            BY <1>5, <2>1, <3>2, <5>2
          <6>2. n \in 1 .. Len(made[d])
            BY <1>5, <6>1
          <6>. QED BY <1>5, <5>2, <6>2
        <5>. QED BY <5>1, <5>2
      <4>2. PICK x \in 1 .. fresh, y \in 1 .. fresh : ComesFrom(made[o][n], x, y)
        BY <4>1 DEF HInv, Drawn
      <4>3. x \in 1 .. fresh' /\ y \in 1 .. fresh'
        BY <1>1
      <4>. QED BY <4>1, <4>2, <4>3
    <3>. QED BY <3>1, <3>2
  <2>2. \A o \in Ends : \A n \in DOMAIN made'[o] :
           \E x, y \in 1 .. fresh' : ComesFrom(made'[o][n], x, y)
    BY <2>1
  <2>. QED BY <2>2 DEF Drawn, ComesFrom, ChainOf, SendsOn, HearsOn
<1>8. Unused'
  <2>1. ASSUME NEW o \in Ends, hs'[o].valid PROVE o # d /\ hs[o].valid
    BY <1>3, <2>1
  <2>2. ASSUME NEW o \in Ends, hs'[o].valid
        PROVE  /\ hs'[o].ephemeral \in 1 .. fresh'
               /\ IsChain(hs'[o].chain, 3) /\ hs'[o].chain[1] = Pub(hs'[o].ephemeral)
               /\ \A n \in DOMAIN made'[o] : ChainOf(made'[o][n])[1] # Pub(hs'[o].ephemeral)
    <3>1. o # d /\ hs[o].valid /\ hs'[o] = hs[o] /\ made'[o] = made[o]
      BY <1>2, <1>3, <2>1, <2>2
    <3>2. hs[o].ephemeral \in 1 .. fresh'
      BY <1>1, <3>1 DEF HInv, Unused
    <3>. QED BY <3>1, <3>2 DEF HInv, Unused
  <2>. QED BY <2>2 DEF Unused, ChainOf, SendsOn, IsChain
<1>9. Apart'
  <2>1. \A n \in DOMAIN made[d] : ChainOf(made[d][n]) # ChainOf(s)
    BY DEF ComesFrom, s
  <2>2. ASSUME NEW o \in Ends, NEW m \in DOMAIN made'[o], NEW n \in DOMAIN made'[o], m # n
        PROVE  ChainOf(made'[o][m]) # ChainOf(made'[o][n])
    <3>1. CASE o # d
      BY <1>2, <2>2, <3>1 DEF HInv, Apart
    <3>2. CASE o = d
      <4>1. /\ m \in DOMAIN made[d] \/ (made'[d][m] = s /\ m = Len(made[d]) + 1)
            /\ n \in DOMAIN made[d] \/ (made'[d][n] = s /\ n = Len(made[d]) + 1)
        <5>1. m \in 1 .. Len(made[d]) + 1 /\ n \in 1 .. Len(made[d]) + 1
          BY <1>5, <2>2, <3>2
        <5>2. \A j \in 1 .. Len(made[d]) + 1 : j \in 1 .. Len(made[d]) \/ j = Len(made[d]) + 1
          BY <1>5
        <5>. QED BY <1>5, <5>1, <5>2
      <4>2. \A j \in DOMAIN made[d] : ChainOf(made'[d][j]) = ChainOf(made[d][j])
        BY <1>5
      <4>3. CASE m \in DOMAIN made[d] /\ n \in DOMAIN made[d]
        <5>1. ChainOf(made[d][m]) # ChainOf(made[d][n])
          BY <2>2, <4>3 DEF HInv, Apart
        <5>. QED BY <3>2, <4>2, <4>3, <5>1
      <4>4. CASE m \in DOMAIN made[d] /\ made'[d][n] = s
        BY <2>1, <3>2, <4>2, <4>4
      <4>5. CASE n \in DOMAIN made[d] /\ made'[d][m] = s
        BY <2>1, <3>2, <4>2, <4>5
      <4>. QED BY <2>2, <4>1, <4>3, <4>4, <4>5
    <3>. QED BY <3>1, <3>2
  <2>. QED BY <2>2 DEF Apart, ChainOf, SendsOn
<1>. QED BY <1>6, <1>7, <1>8, <1>9 DEF HInv

\* ... and so does what starts none.
LEMMA QuietKeeps ==
    ASSUME HInv, UNCHANGED <<made, fresh>>, DOMAIN hs' = Ends,
           \A d \in Ends : hs'[d] = hs[d] \/ ~hs'[d].valid,
           \A m \in net' : m \in net \/ m.type = "cookie"
    PROVE  HInv'
<1>1. Shaped'
  BY DEF HInv, Shaped
<1>2. Drawn'
  <2>1. \A m \in net' : m.type \in {"init", "resp"} => m.ephemeral \in 1 .. fresh
    BY DEF HInv, Drawn
  <2>2. (\A d \in Ends : \A n \in DOMAIN made[d] :
            \E a, b \in 1 .. fresh : ComesFrom(made[d][n], a, b))'
    <3>1. \A d \in Ends : \A n \in DOMAIN made[d] :
             \E a, b \in 1 .. fresh : ComesFrom(made[d][n], a, b)
      BY DEF HInv, Drawn
    <3>. QED BY ONLY <3>1, UNCHANGED <<made, fresh>> DEF ComesFrom, ChainOf, SendsOn, HearsOn
  <2>. QED BY ONLY <2>1, <2>2, UNCHANGED fresh DEF Drawn
<1>3. Unused'
  BY DEF HInv, Unused, ChainOf, SendsOn, IsChain
<1>4. Apart'
  BY DEF HInv, Apart, ChainOf, SendsOn
<1>. QED BY <1>1, <1>2, <1>3, <1>4 DEF HInv

LEMMA InitiateStep == ASSUME HInv, NEW d \in Ends, Initiate(d) PROVE HInv'
<1>. DEFINE e == fresh + 1
            c == TimestampChain(StaticChain(e, Dh(e, conf[d].peer)), Dh(d, conf[d].peer))
            hash1  == InitiationHash(conf[d].peer, e)
            static == Seal(Output(StaticChain(e, Dh(e, conf[d].peer)), 2), d, hash1)
            hash2  == MixHash(hash1, static)
            stamp  == Seal(Output(c, 2), e, hash2)
            message(i) == [type |-> "init", to |-> Other(d), sender |-> i,
                           ephemeral |-> e, static |-> static, timestamp |-> stamp,
                           mac1 |-> Mac1(conf[d].peer, e), mac2 |-> Mac2Of(d, e)]
<1>a. PICK i \in FreshIndices(keys[d], hs[d]) :
         /\ hs' = [hs EXCEPT ![d] = Half(TRUE, e, MixHash(hash2, stamp), c, i)]
         /\ net' = net \/ net' = net \cup {message(i)}
  BY Zenon DEF Initiate
<1>b. message(i).type = "init" /\ message(i).ephemeral = e
  OBVIOUS
<1>. HIDE DEF message
<1>1. /\ fresh' = e /\ made' = made /\ fresh \in Nat /\ DOMAIN hs = Ends /\ DOMAIN made = Ends
      /\ \A m \in net' : m \in net \/ (m.type = "init" /\ m.ephemeral = e)
  <2>1. fresh' = e /\ made' = made
    BY DEF Initiate
  <2>. HIDE DEF e
  <2>. QED BY <1>a, <1>b, <2>1 DEF HInv, Shaped
<1>. HIDE DEF hash1, static, hash2, stamp
<1>2. IsChain(c, 3) /\ c[1] = Pub(e)
  BY InitiationChain
<1>. HIDE DEF c
<1>3. /\ hs'[d].ephemeral = e /\ hs'[d].chain = c
      /\ DOMAIN hs' = Ends /\ \A o \in Ends : o # d => hs'[o] = hs[o]
  <2>. HIDE DEF c, e
  <2>. QED BY <1>1, <1>a DEF Half
<1>4. e \in Nat /\ e \in 1 .. e /\ \A x \in 1 .. fresh : x \in 1 .. e /\ x # e
  BY <1>1
<1>. HIDE DEF e
<1>5. Shaped'
  BY <1>1, <1>3, <1>4 DEF HInv, Shaped
<1>6. Drawn'
  <2>1. \A m \in net' : m.type \in {"init", "resp"} => m.ephemeral \in 1 .. fresh'
    BY <1>1, <1>4 DEF HInv, Drawn
  <2>2. \A o \in Ends : \A n \in DOMAIN made'[o] :
           \E x, y \in 1 .. fresh' : ComesFrom(made'[o][n], x, y)
    BY <1>1, <1>4 DEF HInv, Drawn
  <2>. QED BY <2>1, <2>2 DEF Drawn, ComesFrom, ChainOf, SendsOn, HearsOn
<1>7. Unused'
  <2>1. ASSUME NEW o \in Ends, hs'[o].valid
        PROVE  /\ hs'[o].ephemeral \in 1 .. fresh'
               /\ IsChain(hs'[o].chain, 3) /\ hs'[o].chain[1] = Pub(hs'[o].ephemeral)
               /\ \A n \in DOMAIN made[o] : ChainOf(made[o][n])[1] # Pub(hs'[o].ephemeral)
    <3>1. CASE o = d
      <4>1. \A n \in DOMAIN made[d] : ChainOf(made[d][n])[1] # Pub(e)
        BY <1>4, PubInjective DEF HInv, Drawn, ComesFrom
      <4>. QED BY <1>1, <1>2, <1>3, <1>4, <3>1, <4>1
    <3>2. CASE o # d
      BY <1>1, <1>3, <1>4, <2>1, <3>2 DEF HInv, Unused
    <3>. QED BY <3>1, <3>2
  <2>. QED BY <1>1, <2>1 DEF Unused, ChainOf, SendsOn, IsChain
<1>8. Apart'
  BY <1>1 DEF HInv, Apart, ChainOf, SendsOn
<1>. QED BY <1>5, <1>6, <1>7, <1>8 DEF HInv

LEMMA RxInitiationStep ==
    ASSUME HInv, NEW d \in Ends, NEW m \in net, NEW a, RxInitiation(d, m, a)
    PROVE  HInv'
<1>. DEFINE e == fresh + 1
            y == Dh(d, m.ephemeral)
            z == Dh(d, conf[d].peer)
            w == Dh(e, m.ephemeral)
            v == Dh(e, conf[d].peer)
            c2 == TimestampChain(StaticChain(m.ephemeral, y), z)
            c == ResponseChain(c2, e, w, v, conf[d].psk)
            hash3 == MixHash(MixHash(InitiationHash(d, m.ephemeral), m.static), m.timestamp)
            hash4 == ResponseHash(hash3, e, c)
            empty == Seal(Output(c, 3), Nothing, hash4)
            h == MixHash(hash4, empty)
            message(i) == [type |-> "resp", to |-> Other(d), sender |-> i,
                           receiver |-> m.sender, ephemeral |-> e, empty |-> empty,
                           mac1 |-> Mac1(conf[d].peer, e), mac2 |-> Mac2Of(d, e)]
<1>a. /\ fresh' = e /\ m.type = "init"
      /\ \E i \in FreshIndices(keys[d], hs[d]), room \in Results("pbuf_alloc") :
            /\ StartSession(d, Half(FALSE, e, h, c, i), m.sender)
            /\ net' = IF room THEN net \cup {message(i)} ELSE net
  BY Zenon DEF RxInitiation
<1>2. PICK i : /\ StartSession(d, Half(FALSE, e, h, c, i), m.sender)
               /\ net' = net \/ net' = net \cup {message(i)}
  BY <1>a, Zenon
<1>b. message(i).type = "resp" /\ message(i).ephemeral = e
  OBVIOUS
<1>. HIDE DEF message, h, hash3, hash4, empty
<1>1. /\ fresh' = e /\ m.type = "init" /\ fresh \in Nat
      /\ \A r \in net' : r \in net \/ (r.type = "resp" /\ r.ephemeral = e)
  <2>. HIDE DEF e, c
  <2>. QED BY <1>a, <1>2, <1>b DEF HInv, Shaped
<1>3. IsChain(c2, 3) /\ c2[1] = Pub(m.ephemeral)
  BY InitiationChain
<1>4. Half(FALSE, e, h, c, i).chain = ResponseChain(c2, e, w, v, conf[d].psk)
  BY DEF Half
<1>5. ComesFrom(Session(Half(FALSE, e, h, c, i), m.sender), m.ephemeral, e)
  BY <1>3, <1>4, SessionComesFrom
<1>. HIDE DEF c, c2, y, z, w, v
<1>6. /\ m.ephemeral \in 1 .. e /\ e \in 1 .. e /\ e \in Nat /\ fresh <= e
      /\ \A x \in 1 .. fresh : x \in 1 .. e /\ x # e
  BY <1>1 DEF HInv, Drawn
<1>. HIDE DEF e
<1>7. \A r \in net' : r.type \in {"init", "resp"} => r.ephemeral \in 1 .. fresh'
  BY <1>1, <1>6 DEF HInv, Drawn
<1>8. \A n \in DOMAIN made[d] : ChainOf(made[d][n])[4] # Pub(e)
  BY <1>6, PubInjective DEF HInv, Drawn, ComesFrom
<1>9. /\ fresh' \in Nat /\ fresh <= fresh'
      /\ m.ephemeral \in 1 .. fresh' /\ e \in 1 .. fresh'
  BY <1>1, <1>6
<1>. DEFINE half == Half(FALSE, e, h, c, i)
<1>10. StartSession(d, half, m.sender) /\ ComesFrom(Session(half, m.sender), m.ephemeral, e)
  BY <1>2, <1>5
<1>. HIDE DEF half
<1>. QED BY <1>7, <1>8, <1>9, <1>10, StartKeeps

LEMMA RxResponseStep ==
    ASSUME HInv, NEW d \in Ends, NEW m \in net, NEW a, RxResponse(d, m, a)
    PROVE  HInv'
<1>. DEFINE e == hs[d].ephemeral
            w == Dh(e, m.ephemeral)
            v == Dh(d, m.ephemeral)
            c == ResponseChain(hs[d].chain, m.ephemeral, w, v, conf[d].psk)
<1>1. /\ fresh' = fresh /\ net' = net /\ m.type = "resp" /\ fresh \in Nat /\ hs[d].valid
      /\ \E h : StartSession(d, [hs[d] EXCEPT !.hash = h, !.chain = c], m.sender)
  BY DEF RxResponse, Awaits, HInv, Shaped
<1>2. PICK h : StartSession(d, [hs[d] EXCEPT !.hash = h, !.chain = c], m.sender)
  BY <1>1
<1>3. IsChain(hs[d].chain, 3) /\ hs[d].chain[1] = Pub(e)
  BY <1>1 DEF HInv, Unused
<1>4. [hs[d] EXCEPT !.hash = h, !.chain = c].chain
         = ResponseChain(hs[d].chain, m.ephemeral, w, v, conf[d].psk)
  OBVIOUS
<1>5. ComesFrom(Session([hs[d] EXCEPT !.hash = h, !.chain = c], m.sender), e, m.ephemeral)
  BY <1>3, <1>4, SessionComesFrom
<1>6. e \in 1 .. fresh /\ m.ephemeral \in 1 .. fresh
  BY <1>1 DEF HInv, Unused, Drawn
<1>7. \A n \in DOMAIN made[d] : ChainOf(made[d][n])[1] # Pub(e)
  BY <1>1 DEF HInv, Unused
<1>8. \A r \in net' : r.type \in {"init", "resp"} => r.ephemeral \in 1 .. fresh'
  BY <1>1 DEF HInv, Drawn
<1>. HIDE DEF c, w, v, e
<1>. QED BY <1>1, <1>2, <1>5, <1>6, <1>7, <1>8, StartKeeps

LEMMA HandshakeStep == ASSUME HInv, [Next]_vars PROVE HInv'
<1>0. DOMAIN hs = Ends
  BY DEF HInv, Shaped
<1>1. ASSUME NEW d \in Ends, Restart(d) PROVE HInv'
  <2>1. /\ UNCHANGED <<made, fresh, net>> /\ DOMAIN hs' = Ends
        /\ \A o \in Ends : hs'[o] = hs[o] \/ ~hs'[o].valid
    BY <1>0, <1>1 DEF Restart, NoHs
  <2>. QED BY <2>1, QuietKeeps
<1>2. ASSUME NEW d \in Ends, SecretExpires(d) \/ CookieExpires(d) PROVE HInv'
  BY <1>0, <1>2, QuietKeeps DEF SecretExpires, CookieExpires, history
<1>3. ASSUME NEW d \in Ends, NEW m \in net, NEW a, Refuse(d, m, a) PROVE HInv'
  <2>1. UNCHANGED <<made, fresh, hs>> /\ \A r \in net' : r \in net \/ r.type = "cookie"
    BY <1>3 DEF Refuse
  <2>. QED BY <1>0, <2>1, QuietKeeps
<1>4. ASSUME NEW d \in Ends, NEW m \in net, RxCookie(d, m) PROVE HInv'
  BY <1>0, <1>4, QuietKeeps DEF RxCookie, history
<1>5. CASE UNCHANGED vars
  BY <1>0, <1>5, QuietKeeps DEF vars, history
<1>. QED BY <1>1, <1>2, <1>3, <1>4, <1>5, InitiateStep, RxInitiationStep, RxResponseStep
         DEF Next, Receive

\* The invariant holds along every behaviour.
THEOREM Inductive == Spec => []HInv
<1>1. Init => HInv
  <2>. SUFFICES ASSUME Init PROVE HInv
    OBVIOUS
  <2>1. /\ \A d \in Ends : made[d] = <<>> /\ ~hs[d].valid
        /\ DOMAIN hs = Ends /\ DOMAIN made = Ends /\ net = {} /\ fresh = 0
    BY DEF Init, NoHs
  <2>2. \A d \in Ends : made[d] \in Seq({}) /\ DOMAIN made[d] = {}
    <3>1. <<>> \in Seq({}) /\ DOMAIN <<>> = {}
      OBVIOUS
    <3>. QED BY <2>1, <3>1, Zenon
  <2>. QED BY <2>1, <2>2 DEF HInv, Shaped, Drawn, Unused, Apart
<1>. QED BY <1>1, HandshakeStep, PTL DEF Spec

\* No end starts a session with a key it had before, in either direction.
THEOREM KeysAreNew == Spec => []KeysNeverAgain
<1>1. HInv => KeysNeverAgain
  <2>. SUFFICES ASSUME HInv, NEW d \in Ends, NEW m \in DOMAIN made[d], NEW n \in DOMAIN made[d],
                       m # n
                PROVE  {SendsOn(made[d][m]), HearsOn(made[d][m])}
                          \cap {SendsOn(made[d][n]), HearsOn(made[d][n])} = {}
    BY DEF KeysNeverAgain
  <2>1. ChainOf(made[d][m]) # ChainOf(made[d][n])
    BY DEF HInv, Apart
  <2>2. /\ SendsOn(made[d][m]).chain = ChainOf(made[d][m])
        /\ HearsOn(made[d][m]).chain = ChainOf(made[d][m])
        /\ SendsOn(made[d][n]).chain = ChainOf(made[d][n])
        /\ HearsOn(made[d][n]).chain = ChainOf(made[d][n])
    BY DEF HInv, Drawn, ComesFrom, ChainOf
  <2>. QED BY <2>1, <2>2, Zenon
<1>. QED BY <1>1, Inductive, PTL

-----------------------------------------------------------------------------
(* Who opens a session with whom.  What a message proves stays true as long  *)
(* as it is under way, since an end's configuration does not change.         *)

Agreed(d) == conf[d].peer = Other(d) /\ conf[Other(d)].peer = d

\* An initiation names its sender, in a box that only its addressee opens; a
\* response was made by an end that knew the other, from its preshared key.
Telling(m) ==
    /\ m.type = "init" =>
          /\ m.static.text = Other(m.to)
          /\ m.static.ad = InitiationHash(conf[Other(m.to)].peer, m.ephemeral)
    /\ m.type = "resp" =>
          /\ Agreed(m.to)
          /\ \E c : m.empty.key = Output(c, 3) /\ c[7] = Psk(conf[Other(m.to)].psk)

AInv == OnlyAsConfigured /\ \A m \in net : Telling(m)

LEMMA Others == \A d \in Ends : Other(d) \in Ends /\ Other(Other(d)) = d
  BY HandshakeAssumption DEF Ends, Other

\* A hash names the responder first, a chain the preshared key last.
LEMMA HashNamesResponder ==
    ASSUME NEW r, NEW e PROVE InitiationHash(r, e)[1] = Pub(r)
<1>. DEFINE h == Kdf(<<>>, Pub(r))
<1>0. IsChain(<<>>, 0)
  <2>1. <<>> \in Seq({}) /\ Len(<<>>) = 0
    OBVIOUS
  <2>. QED BY <2>1 DEF IsChain
<1>1. IsChain(h, 0 + 1) /\ h[0 + 1] = Pub(r)
  BY <1>0, KdfAppends
<1>2. InitiationHash(r, e) = Kdf(h, Pub(e))
  BY DEF InitiationHash, MixHash, Kdf
<1>. HIDE DEF h
<1>3. \A i \in 1 .. 1 : Kdf(h, Pub(e))[i] = h[i]
  BY <1>1, KdfAppends
<1>. QED BY <1>1, <1>2, <1>3

LEMMA ChainEndsWithPsk ==
    ASSUME NEW c, IsChain(c, 3), NEW b, NEW ee, NEW se, NEW q
    PROVE  ResponseChain(c, b, ee, se, q)[7] = Psk(q)
<1>. DEFINE c4 == Kdf(c, Pub(b))
            c5 == Kdf(c4, ee)
            c6 == Kdf(c5, se)
            c7 == Kdf(c6, Psk(q))
<1>4. IsChain(c4, 3 + 1)
  BY KdfAppends
<1>. HIDE DEF c4
<1>5. IsChain(c5, 4 + 1)
  BY <1>4, KdfAppends
<1>. HIDE DEF c5
<1>6. IsChain(c6, 5 + 1)
  BY <1>5, KdfAppends
<1>. HIDE DEF c6
<1>7. c7[6 + 1] = Psk(q)
  BY <1>6, KdfAppends
<1>. QED BY <1>7 DEF c4, c5, c6, ResponseChain

\* Starting a session adds it to those of its end, and nothing else.
LEMMA StartAdds ==
    ASSUME Shaped, NEW d \in Ends, NEW half, NEW remote, StartSession(d, half, remote),
           NEW o \in Ends, NEW n \in DOMAIN made'[o]
    PROVE  \/ n \in DOMAIN made[o] /\ made'[o][n] = made[o][n]
           \/ o = d /\ made'[o][n] = Session(half, remote)
<1>. DEFINE s == Session(half, remote)
<1>1. made' = [made EXCEPT ![d] = Append(@, s)] /\ DOMAIN made = Ends
  BY DEF StartSession, Shaped
<1>. HIDE DEF s
<1>2. PICK R : made[d] \in Seq(R)
  BY DEF Shaped
<1>3. made[d] \in Seq(R \cup {s})
  BY <1>2
<1>4. made'[d] = Append(made[d], s) /\ \A p \in Ends : p # d => made'[p] = made[p]
  BY <1>1
<1>5. \A j \in DOMAIN made'[d] : \/ j \in DOMAIN made[d] /\ made'[d][j] = made[d][j]
                                 \/ made'[d][j] = s
  BY <1>3, <1>4
<1>. QED BY <1>4, <1>5 DEF s

LEMMA AgreedInitiate ==
    ASSUME HInv, AInv, NEW d \in Ends, Initiate(d)
    PROVE  AInv'
<1>. DEFINE e == fresh + 1
            to == conf[d].peer
            c1 == StaticChain(e, Dh(e, to))
            c2 == TimestampChain(c1, Dh(d, to))
            hash1  == InitiationHash(to, e)
            static == Seal(Output(c1, 2), d, hash1)
            stamp  == Seal(Output(c2, 2), e, MixHash(hash1, static))
            message(i) == [type |-> "init", to |-> Other(d), sender |-> i,
                           ephemeral |-> e, static |-> static, timestamp |-> stamp,
                           mac1 |-> Mac1(to, e), mac2 |-> Mac2Of(d, e)]
<1>1. UNCHANGED <<conf, made>> /\ \E i : net' = net \/ net' = net \cup {message(i)}
  BY Zenon DEF Initiate
<1>2. \A i : Telling(message(i))
  <2>1. ASSUME NEW i PROVE Telling(message(i))
    <3>1. /\ message(i).type = "init" /\ message(i).to = Other(d) /\ message(i).ephemeral = e
          /\ message(i).static = static
      OBVIOUS
    <3>2. static.text = d /\ static.ad = InitiationHash(conf[d].peer, e)
      BY DEF Seal
    <3>. HIDE DEF message, static, e
    <3>. QED BY <3>1, <3>2, Others DEF Telling
  <2>. QED BY <2>1
<1>. HIDE DEF message
<1>3. OnlyAsConfigured'
  BY <1>1 DEF AInv, OnlyAsConfigured, SessionsOf
<1>4. \A m \in net' : Telling(m)
  BY <1>1, <1>2 DEF AInv
<1>5. \A m : Telling(m)' <=> Telling(m)
  BY <1>1 DEF Telling, Agreed
<1>. QED BY <1>3, <1>4, <1>5 DEF AInv

LEMMA AgreedStart ==
    ASSUME HInv, AInv, NEW d \in Ends, NEW half, NEW remote, StartSession(d, half, remote),
           conf' = conf, Agreed(d),
           half.initiator => conf[d].psk = conf[Other(d)].psk
    PROVE  OnlyAsConfigured'
<1>. DEFINE s == Session(half, remote)
<1>1. s.initiator = half.initiator
  BY DEF Session, NewKeypair
<1>. HIDE DEF s
<1>2. SUFFICES ASSUME NEW o \in Ends, NEW n \in DOMAIN made'[o]
               PROVE  /\ conf[o].peer = Other(o) /\ conf[Other(o)].peer = o
                      /\ made'[o][n].initiator => conf[o].psk = conf[Other(o)].psk
  BY DEF OnlyAsConfigured, SessionsOf
<1>3. \/ n \in DOMAIN made[o] /\ made'[o][n] = made[o][n]
      \/ o = d /\ made'[o][n] = s
  BY <1>2, StartAdds DEF HInv, s
<1>4. CASE n \in DOMAIN made[o] /\ made'[o][n] = made[o][n]
  BY <1>4 DEF AInv, OnlyAsConfigured, SessionsOf
<1>5. CASE o = d /\ made'[o][n] = s
  BY <1>1, <1>5 DEF Agreed
<1>. QED BY <1>3, <1>4, <1>5

LEMMA AgreedRxInitiation ==
    ASSUME HInv, AInv, NEW d \in Ends, NEW m \in net, NEW a, RxInitiation(d, m, a)
    PROVE  AInv'
<1>. DEFINE e == fresh + 1
            c2 == TimestampChain(StaticChain(m.ephemeral, Dh(d, m.ephemeral)),
                                 Dh(d, conf[d].peer))
            c == ResponseChain(c2, e, Dh(e, m.ephemeral), Dh(e, conf[d].peer), conf[d].psk)
            hash3 == MixHash(MixHash(InitiationHash(d, m.ephemeral), m.static), m.timestamp)
            hash4 == ResponseHash(hash3, e, c)
            empty == Seal(Output(c, 3), Nothing, hash4)
            h == MixHash(hash4, empty)
            message(i) == [type |-> "resp", to |-> Other(d), sender |-> i,
                           receiver |-> m.sender, ephemeral |-> e, empty |-> empty,
                           mac1 |-> Mac1(conf[d].peer, e), mac2 |-> Mac2Of(d, e)]
<1>1. /\ m.type = "init" /\ m.to = d /\ conf' = conf
      /\ m.static.ad = InitiationHash(d, m.ephemeral) /\ m.static.text = conf[d].peer
  BY DEF RxInitiation, Opens
<1>a. \E i \in FreshIndices(keys[d], hs[d]), room \in Results("pbuf_alloc") :
         /\ StartSession(d, Half(FALSE, e, h, c, i), m.sender)
         /\ net' = IF room THEN net \cup {message(i)} ELSE net
  BY Zenon DEF RxInitiation
<1>2. PICK i : /\ StartSession(d, Half(FALSE, e, h, c, i), m.sender)
               /\ net' = net \/ net' = net \cup {message(i)}
  BY <1>a, Zenon
<1>3. Agreed(d)
  <2>1. m.static.text = Other(d)
        /\ m.static.ad = InitiationHash(conf[Other(d)].peer, m.ephemeral)
    BY <1>1 DEF AInv, Telling
  <2>2. InitiationHash(conf[Other(d)].peer, m.ephemeral) = InitiationHash(d, m.ephemeral)
    BY <1>1, <2>1
  <2>3. Pub(conf[Other(d)].peer) = Pub(d)
    BY <2>2, HashNamesResponder
  <2>. QED BY <1>1, <2>1, <2>3, PubInjective DEF Agreed
<1>4. c[7] = Psk(conf[d].psk)
  <2>1. IsChain(c2, 3)
    BY InitiationChain
  <2>. HIDE DEF c2, e
  <2>. QED BY <2>1, ChainEndsWithPsk
<1>5. Telling(message(i))
  <2>1. message(i).type = "resp" /\ message(i).to = Other(d) /\ message(i).empty = empty
    OBVIOUS
  <2>2. empty.key = Output(c, 3)
    BY DEF Seal
  <2>3. Agreed(Other(d))
    BY <1>3, Others DEF Agreed
  <2>. HIDE DEF message, empty, c
  <2>. QED BY <1>4, <2>1, <2>2, <2>3, Others DEF Telling
<1>6. ~Half(FALSE, e, h, c, i).initiator
  <2>1. Half(FALSE, e, h, c, i).initiator = FALSE
    BY DEF Half
  <2>. QED BY <2>1
<1>. DEFINE half == Half(FALSE, e, h, c, i)
<1>7. OnlyAsConfigured'
  <2>1. StartSession(d, half, m.sender) /\ ~half.initiator
    BY <1>2, <1>6
  <2>. HIDE DEF half
  <2>. QED BY <2>1, <1>1, <1>3, AgreedStart
<1>. HIDE DEF message
<1>8. \A r \in net' : Telling(r)
  BY <1>2, <1>5 DEF AInv
<1>9. \A r : Telling(r)' = Telling(r)
  BY <1>1 DEF Telling, Agreed
<1>. QED BY <1>1, <1>7, <1>8 DEF AInv, Telling, Agreed

LEMMA AgreedRxResponse ==
    ASSUME HInv, AInv, NEW d \in Ends, NEW m \in net, NEW a, RxResponse(d, m, a)
    PROVE  AInv'
<1>. DEFINE c == ResponseChain(hs[d].chain, m.ephemeral, Dh(hs[d].ephemeral, m.ephemeral),
                               Dh(d, m.ephemeral), conf[d].psk)
<1>1. /\ m.type = "resp" /\ m.to = d /\ UNCHANGED <<conf, net>> /\ hs[d].valid
      /\ OpensResponse(d, m, c)
      /\ \E half : StartSession(d, half, m.sender)
  BY DEF RxResponse, Awaits
<1>2. PICK half : StartSession(d, half, m.sender)
  BY <1>1
<1>3. m.empty.key = Output(c, 3)
  BY <1>1 DEF OpensResponse, Opens
<1>4. Agreed(d) /\ \E x : m.empty.key = Output(x, 3) /\ x[7] = Psk(conf[Other(d)].psk)
  BY <1>1 DEF AInv, Telling
<1>5. c[7] = Psk(conf[d].psk)
  <2>1. IsChain(hs[d].chain, 3)
    BY <1>1 DEF HInv, Unused
  <2>. QED BY <2>1, ChainEndsWithPsk
<1>. HIDE DEF c
<1>6. Psk(conf[d].psk) = Psk(conf[Other(d)].psk)
  <2>1. PICK x : m.empty.key = Output(x, 3) /\ x[7] = Psk(conf[Other(d)].psk)
    BY <1>4
  <2>2. Output(c, 3).chain = Output(x, 3).chain
    BY <1>3, <2>1
  <2>3. x = c
    BY <2>2 DEF Output
  <2>. QED BY <1>5, <2>1, <2>3
<1>7. conf[d].psk = conf[Other(d)].psk
  BY <1>6 DEF Psk
<1>8. OnlyAsConfigured'
  BY <1>1, <1>2, <1>4, <1>7, AgreedStart
<1>. QED BY <1>1, <1>8 DEF AInv, Telling, Agreed

LEMMA AgreedStep == ASSUME HInv, AInv, [Next]_vars PROVE AInv'
<1>1. ASSUME UNCHANGED <<conf, made>>,
             \A m \in net' : m \in net \/ (m.type # "init" /\ m.type # "resp")
      PROVE  AInv'
  BY <1>1 DEF AInv, Telling, Agreed, OnlyAsConfigured, SessionsOf
<1>2. ASSUME NEW d \in Ends, Restart(d) \/ SecretExpires(d) \/ CookieExpires(d) PROVE AInv'
  BY <1>1, <1>2 DEF Restart, SecretExpires, CookieExpires, history
<1>3. ASSUME NEW d \in Ends, NEW m \in net, NEW a, Refuse(d, m, a) PROVE AInv'
  <2>1. UNCHANGED <<made, conf>> /\ \A r \in net' : r \in net \/ r.type = "cookie"
    BY <1>3 DEF Refuse
  <2>. QED BY <1>1, <2>1
<1>4. ASSUME NEW d \in Ends, NEW m \in net, RxCookie(d, m) PROVE AInv'
  BY <1>1, <1>4 DEF RxCookie, history
<1>5. CASE UNCHANGED vars
  BY <1>1, <1>5 DEF vars, history
<1>. QED BY <1>2, <1>3, <1>4, <1>5, AgreedInitiate, AgreedRxInitiation, AgreedRxResponse
         DEF Next, Receive

\* A session is opened only between ends that were given each other's key, and
\* by an initiator only with the same preshared key.
THEOREM OpenedAsConfigured == Spec => []OnlyAsConfigured
<1>1. Init => AInv
  <2>. SUFFICES ASSUME Init PROVE AInv
    OBVIOUS
  <2>1. net = {} /\ \A d \in Ends : made[d] = <<>>
    BY DEF Init
  <2>2. DOMAIN <<>> = {}
    OBVIOUS
  <2>3. \A d \in Ends : SessionsOf(d) = {}
    BY <2>1, <2>2, Zenon DEF SessionsOf
  <2>. QED BY <2>1, <2>3 DEF AInv, OnlyAsConfigured
<1>2. AInv => OnlyAsConfigured
  BY DEF AInv
<1>. QED BY <1>1, <1>2, AgreedStep, Inductive, PTL DEF Spec

-----------------------------------------------------------------------------
(* What the two ends of a session share.  A response is sent when its sender *)
(* has started the session; whoever opens the response has the same chain.   *)

\* t is the session whose start the response m reports
Answer(t, m) ==
    /\ t.initiator = FALSE
    /\ t.key.remote_index = m.receiver /\ t.local_index = m.sender
    /\ \E c : m.empty.key = Output(c, 3) /\ t.key.keys = SessionKeys(FALSE, c)

Answered(m) ==
    m.type = "resp" =>
        /\ m.to \in Ends
        /\ \E n \in DOMAIN made[Other(m.to)] : Answer(made[Other(m.to)][n], m)

Partnered(d, n) ==
    made[d][n].initiator =>
        \E k \in DOMAIN made[Other(d)] : Partners(made[d][n], made[Other(d)][k])

PInv ==
    /\ \A d \in Ends : hs[d].valid => hs[d].initiator = TRUE
    /\ \A m \in net : Answered(m)
    /\ \A d \in Ends : \A n \in DOMAIN made[d] : Partnered(d, n)

\* sessions are never struck from the history
Grown == \A o \in Ends : \A n \in DOMAIN made[o] :
            n \in DOMAIN made'[o] /\ made'[o][n] = made[o][n]

LEMMA StartGrows ==
    ASSUME Shaped, NEW d \in Ends, NEW half, NEW remote, StartSession(d, half, remote)
    PROVE  Grown /\ \E n \in DOMAIN made'[d] : made'[d][n] = Session(half, remote)
<1>. DEFINE s == Session(half, remote)
<1>1. made' = [made EXCEPT ![d] = Append(@, s)] /\ DOMAIN made = Ends
  BY DEF StartSession, Shaped
<1>. HIDE DEF s
<1>2. PICK R : made[d] \in Seq(R)
  BY DEF Shaped
<1>3. made[d] \in Seq(R \cup {s})
  BY <1>2
<1>4. made'[d] = Append(made[d], s) /\ \A p \in Ends : p # d => made'[p] = made[p]
  BY <1>1
<1>5. /\ \A j \in DOMAIN made[d] : j \in DOMAIN made'[d] /\ made'[d][j] = made[d][j]
      /\ Len(made[d]) + 1 \in DOMAIN made'[d] /\ made'[d][Len(made[d]) + 1] = s
  BY <1>3, <1>4
<1>. QED BY <1>4, <1>5 DEF Grown, s

\* What was answered, and who has a partner, stays so.
LEMMA GrownKeeps ==
    ASSUME Grown
    PROVE  /\ \A m : Answered(m) => Answered(m)'
           /\ \A d \in Ends : \A n \in DOMAIN made[d] : Partnered(d, n) => Partnered(d, n)'
<1>1. ASSUME NEW m, Answered(m) PROVE Answered(m)'
  <2>1. CASE m.type # "resp"
    BY <2>1 DEF Answered
  <2>2. CASE m.type = "resp"
    <3>1. Other(m.to) \in Ends
      BY <1>1, <2>2, Others DEF Answered
    <3>2. PICK n \in DOMAIN made[Other(m.to)] : Answer(made[Other(m.to)][n], m)
      BY <1>1, <2>2 DEF Answered
    <3>3. n \in DOMAIN made'[Other(m.to)] /\ made'[Other(m.to)][n] = made[Other(m.to)][n]
      BY <3>1 DEF Grown
    <3>. QED BY <1>1, <2>2, <3>2, <3>3 DEF Answered, Answer
  <2>. QED BY <2>1, <2>2
<1>2. ASSUME NEW d \in Ends, NEW n \in DOMAIN made[d], Partnered(d, n) PROVE Partnered(d, n)'
  <2>1. made'[d][n] = made[d][n]
    BY DEF Grown
  <2>2. CASE ~made[d][n].initiator
    BY <2>1, <2>2 DEF Partnered
  <2>3. CASE made[d][n].initiator
    <3>1. PICK k \in DOMAIN made[Other(d)] : Partners(made[d][n], made[Other(d)][k])
      BY <1>2, <2>3 DEF Partnered
    <3>2. k \in DOMAIN made'[Other(d)] /\ made'[Other(d)][k] = made[Other(d)][k]
      BY Others DEF Grown
    <3>. QED BY <2>1, <3>1, <3>2 DEF Partnered, Partners, SendsOn, HearsOn
  <2>. QED BY <2>2, <2>3
<1>. QED BY <1>1, <1>2

\* A step that starts no session and sends no response.
LEMMA PartnerQuiet ==
    ASSUME PInv, UNCHANGED made,
           \A d \in Ends : hs'[d] = hs[d] \/ ~hs'[d].valid \/ hs'[d].initiator = TRUE,
           \A m \in net' : m \in net \/ m.type # "resp"
    PROVE  PInv'
<1>1. Grown
  BY DEF Grown
<1>2. \A m \in net' : Answered(m)'
  BY <1>1, GrownKeeps DEF PInv, Answered
<1>3. \A d \in Ends : \A n \in DOMAIN made'[d] : Partnered(d, n)'
  BY <1>1, GrownKeeps DEF PInv
<1>. QED BY <1>2, <1>3 DEF PInv

\* One that starts a session, given what is new.
LEMMA PartnerStart ==
    ASSUME HInv, PInv, NEW d \in Ends, NEW half, NEW remote, StartSession(d, half, remote),
           \A m \in net' : m \in net \/ Answered(m)',
           half.initiator => \E k \in DOMAIN made[Other(d)] :
                                Partners(Session(half, remote), made[Other(d)][k])
    PROVE  PInv'
<1>. DEFINE s == Session(half, remote)
<1>1. Grown
  BY StartGrows DEF HInv
<1>2. \A m \in net' : Answered(m)'
  BY <1>1, GrownKeeps DEF PInv
<1>3. \A o \in Ends : hs'[o] = hs[o] \/ ~hs'[o].valid
  BY DEF StartSession, Ended, NoHs, HInv, Shaped
<1>4. s.initiator = half.initiator
  BY DEF Session, NewKeypair
<1>. HIDE DEF s
<1>5. ASSUME NEW o \in Ends, NEW n \in DOMAIN made'[o] PROVE Partnered(o, n)'
  <2>1. \/ n \in DOMAIN made[o] /\ made'[o][n] = made[o][n]
        \/ o = d /\ made'[o][n] = s
    BY StartAdds DEF HInv, s
  <2>2. CASE n \in DOMAIN made[o] /\ made'[o][n] = made[o][n]
    BY <1>1, <2>2, GrownKeeps DEF PInv
  <2>3. CASE o = d /\ made'[o][n] = s
    <3>1. SUFFICES ASSUME s.initiator
                   PROVE  \E k \in DOMAIN made'[Other(d)] : Partners(s, made'[Other(d)][k])
      BY <2>3 DEF Partnered, Partners, SendsOn, HearsOn
    <3>2. PICK k \in DOMAIN made[Other(d)] : Partners(s, made[Other(d)][k])
      BY <1>4, <3>1 DEF s
    <3>. QED BY <1>1, <3>2, Others DEF Grown
  <2>. QED BY <2>1, <2>2, <2>3
<1>. QED BY <1>2, <1>3, <1>5 DEF PInv

LEMMA PartnerInitiate ==
    ASSUME HInv, PInv, NEW d \in Ends, Initiate(d)
    PROVE  PInv'
<1>1. UNCHANGED made /\ DOMAIN hs = Ends
  BY DEF Initiate, HInv, Shaped
<1>2. \A m \in net' : m \in net \/ m.type # "resp"
  <2>1. \A m \in net' : m \in net \/ m.type = "init"
    BY DEF Initiate
  <2>. QED BY <2>1
<1>3. \E e, h, c, i : hs' = [hs EXCEPT ![d] = Half(TRUE, e, h, c, i)]
  BY Zenon DEF Initiate
<1>4. \A o \in Ends : hs'[o] = hs[o] \/ hs'[o].initiator = TRUE
  BY <1>1, <1>3 DEF Half
<1>. QED BY <1>1, <1>2, <1>4, PartnerQuiet

LEMMA PartnerRxInitiation ==
    ASSUME HInv, PInv, NEW d \in Ends, NEW m \in net, NEW a, RxInitiation(d, m, a)
    PROVE  PInv'
<1>. DEFINE e == fresh + 1
            c2 == TimestampChain(StaticChain(m.ephemeral, Dh(d, m.ephemeral)),
                                 Dh(d, conf[d].peer))
            c == ResponseChain(c2, e, Dh(e, m.ephemeral), Dh(e, conf[d].peer), conf[d].psk)
            hash3 == MixHash(MixHash(InitiationHash(d, m.ephemeral), m.static), m.timestamp)
            hash4 == ResponseHash(hash3, e, c)
            empty == Seal(Output(c, 3), Nothing, hash4)
            h == MixHash(hash4, empty)
            message(i) == [type |-> "resp", to |-> Other(d), sender |-> i,
                           receiver |-> m.sender, ephemeral |-> e, empty |-> empty,
                           mac1 |-> Mac1(conf[d].peer, e), mac2 |-> Mac2Of(d, e)]
<1>a. \E i \in FreshIndices(keys[d], hs[d]), room \in Results("pbuf_alloc") :
         /\ StartSession(d, Half(FALSE, e, h, c, i), m.sender)
         /\ net' = IF room THEN net \cup {message(i)} ELSE net
  BY Zenon DEF RxInitiation
<1>1. PICK i : /\ StartSession(d, Half(FALSE, e, h, c, i), m.sender)
               /\ net' = net \/ net' = net \cup {message(i)}
  BY <1>a, Zenon
<1>. DEFINE half == Half(FALSE, e, h, c, i)
            s == Session(half, m.sender)
<1>2. half.initiator = FALSE /\ half.chain = c /\ half.local_index = i
  BY DEF Half
<1>3. /\ message(i).type = "resp" /\ message(i).to = Other(d) /\ message(i).sender = i
      /\ message(i).receiver = m.sender /\ message(i).empty = empty
  OBVIOUS
<1>4. empty.key = Output(c, 3)
  BY DEF Seal
<1>. HIDE DEF half, message, empty, c
<1>5. /\ s.initiator = FALSE /\ s.key.remote_index = m.sender /\ s.local_index = i
      /\ s.key.keys = SessionKeys(FALSE, c)
  BY <1>2 DEF Session, NewKeypair
<1>6. StartSession(d, half, m.sender)
  BY <1>1 DEF half
<1>7. PICK n \in DOMAIN made'[d] : made'[d][n] = s
  BY <1>6, StartGrows DEF HInv
<1>. HIDE DEF s
<1>8. ASSUME NEW r, r = message(i) PROVE Answered(r)'
  <2>1. Answer(s, r)
    BY <1>3, <1>4, <1>5, <1>8 DEF Answer
  <2>2. r.to \in Ends /\ Other(r.to) = d
    BY <1>3, <1>8, Others
  <2>3. PICK t : t = s
    OBVIOUS
  <2>4. made'[Other(r.to)][n] = t /\ n \in DOMAIN made'[Other(r.to)] /\ Answer(t, r)
    BY <1>7, <2>1, <2>2, <2>3
  <2>. QED BY <2>2, <2>4 DEF Answered, Answer
<1>9. \A r \in net' : r \in net \/ Answered(r)'
  <2>1. \A r \in net' : r \in net \/ r = message(i)
    BY <1>1
  <2>. QED BY <2>1, <1>8, Zenon
<1>10. ~half.initiator
  BY <1>2
<1>. QED BY <1>6, <1>9, <1>10, PartnerStart

LEMMA PartnerRxResponse ==
    ASSUME HInv, PInv, NEW d \in Ends, NEW m \in net, NEW a, RxResponse(d, m, a)
    PROVE  PInv'
<1>. DEFINE c == ResponseChain(hs[d].chain, m.ephemeral, Dh(hs[d].ephemeral, m.ephemeral),
                               Dh(d, m.ephemeral), conf[d].psk)
            h == ResponseHash(hs[d].hash, m.ephemeral, c)
            half == [hs[d] EXCEPT !.hash = h, !.chain = c]
            s == Session(half, m.sender)
<1>1. /\ m.type = "resp" /\ m.to = d /\ net' = net /\ Awaits(d, m.receiver)
      /\ m.empty.key = Output(c, 3)
      /\ StartSession(d, half, m.sender)
  BY DEF RxResponse, OpensResponse, Opens
<1>2. half.initiator = TRUE /\ half.chain = c /\ half.local_index = m.receiver
  BY <1>1 DEF Awaits, PInv
<1>. HIDE DEF half, c
<1>3. PICK k \in DOMAIN made[Other(d)] : Answer(made[Other(d)][k], m)
  BY <1>1 DEF PInv, Answered
<1>4. made[Other(d)][k].key.keys = SessionKeys(FALSE, c)
  <2>1. PICK x : m.empty.key = Output(x, 3) /\ made[Other(d)][k].key.keys = SessionKeys(FALSE, x)
    BY <1>3 DEF Answer
  <2>2. Output(c, 3).chain = Output(x, 3).chain
    BY <1>1, <2>1
  <2>3. x = c
    BY <2>2 DEF Output
  <2>. QED BY <2>1, <2>3
<1>5. /\ s.initiator = TRUE /\ s.key.remote_index = m.sender /\ s.local_index = m.receiver
      /\ s.key.keys = SessionKeys(TRUE, c)
  BY <1>2 DEF Session, NewKeypair
<1>. HIDE DEF s
<1>6. Partners(s, made[Other(d)][k])
  <2>1. /\ SessionKeys(TRUE, c).sending = SessionKeys(FALSE, c).receiving
        /\ SessionKeys(TRUE, c).receiving = SessionKeys(FALSE, c).sending
    BY DEF SessionKeys
  <2>. QED BY <1>3, <1>4, <1>5, <2>1 DEF Partners, SendsOn, HearsOn, Answer
<1>. QED BY <1>1, <1>6, PartnerStart DEF s

LEMMA PartnerStep == ASSUME HInv, PInv, [Next]_vars PROVE PInv'
<1>0. DOMAIN hs = Ends
  BY DEF HInv, Shaped
<1>1. ASSUME NEW d \in Ends, Restart(d) PROVE PInv'
  <2>1. /\ UNCHANGED <<made, net>> /\ \A o \in Ends : hs'[o] = hs[o] \/ ~hs'[o].valid
    BY <1>0, <1>1 DEF Restart, NoHs
  <2>. QED BY <2>1, PartnerQuiet
<1>2. ASSUME NEW d \in Ends, SecretExpires(d) \/ CookieExpires(d) PROVE PInv'
  BY <1>2, PartnerQuiet DEF SecretExpires, CookieExpires, history
<1>3. ASSUME NEW d \in Ends, NEW m \in net, NEW a, Refuse(d, m, a) PROVE PInv'
  <2>1. UNCHANGED <<made, hs>> /\ \A r \in net' : r \in net \/ r.type = "cookie"
    BY <1>3 DEF Refuse
  <2>2. \A r \in net' : r \in net \/ r.type # "resp"
    BY <2>1
  <2>. QED BY <2>1, <2>2, PartnerQuiet
<1>4. ASSUME NEW d \in Ends, NEW m \in net, RxCookie(d, m) PROVE PInv'
  BY <1>4, PartnerQuiet DEF RxCookie, history
<1>5. CASE UNCHANGED vars
  BY <1>5, PartnerQuiet DEF vars, history
<1>. QED BY <1>1, <1>2, <1>3, <1>4, <1>5, PartnerInitiate, PartnerRxInitiation,
            PartnerRxResponse DEF Next, Receive

\* When the initiator has a session, the other end has the other half of it, and
\* no other session there has any of its keys.
THEOREM SessionsMatch == Spec => []InitiatorHasPartner
<1>1. Init => PInv
  <2>. SUFFICES ASSUME Init PROVE PInv
    OBVIOUS
  <2>1. net = {} /\ \A d \in Ends : made[d] = <<>> /\ ~hs[d].valid
    BY DEF Init, NoHs
  <2>2. DOMAIN <<>> = {}
    OBVIOUS
  <2>3. \A d \in Ends : DOMAIN made[d] = {}
    BY <2>1, <2>2, Zenon
  <2>. QED BY <2>1, <2>3 DEF PInv
<1>2. HInv /\ PInv => InitiatorHasPartner
  <2>. SUFFICES ASSUME HInv, PInv, NEW d \in Ends, NEW n \in DOMAIN made[d], made[d][n].initiator
                PROVE  LET s == made[d][n] IN
                       /\ \E t \in SessionsOf(Other(d)) : Partners(s, t)
                       /\ \A t \in SessionsOf(Other(d)) :
                             {SendsOn(s), HearsOn(s)} \cap {SendsOn(t), HearsOn(t)} # {}
                                => Partners(s, t)
    BY DEF InitiatorHasPartner, SessionsOf
  <2>. DEFINE s == made[d][n]
              o == Other(d)
  <2>1. PICK k \in DOMAIN made[o] : Partners(s, made[o][k])
    BY DEF PInv, Partnered
  <2>2. o \in Ends
    BY Others
  <2>. HIDE DEF o
  <2>3. ASSUME NEW j \in DOMAIN made[o],
               {SendsOn(s), HearsOn(s)} \cap {SendsOn(made[o][j]), HearsOn(made[o][j])} # {}
        PROVE  Partners(s, made[o][j])
    <3>1. /\ HearsOn(s).chain = ChainOf(s)
          /\ HearsOn(made[o][j]).chain = ChainOf(made[o][j])
          /\ HearsOn(made[o][k]).chain = ChainOf(made[o][k])
      BY <2>2 DEF HInv, Drawn, ComesFrom
    <3>2. ChainOf(made[o][k]) = ChainOf(s)
      BY <2>1, <3>1 DEF Partners, ChainOf
    <3>3. ChainOf(made[o][j]) = ChainOf(s)
      <4>1. PICK x \in {SendsOn(s), HearsOn(s)} : x \in {SendsOn(made[o][j]), HearsOn(made[o][j])}
        BY <2>3, Zenon
      <4>2. x.chain = ChainOf(s) /\ x.chain = ChainOf(made[o][j])
        BY <3>1, <4>1 DEF ChainOf
      <4>. QED BY <4>2
    <3>4. j = k
      BY <2>2, <3>2, <3>3 DEF HInv, Apart
    <3>. QED BY <2>1, <3>4
  <2>. QED BY <2>1, <2>3 DEF SessionsOf, o
<1>. QED BY <1>1, <1>2, PartnerStep, Inductive, PTL DEF Spec

-----------------------------------------------------------------------------
(* Cookies.  A cookie that is held, under way, or proven by a mac2 was made  *)
(* by the other end: under an earlier secret, or under its present one and   *)
(* then for an address it was sent to.                                       *)

Issued(x, number, sent, c) ==
    \E n \in 1 .. number, a \in Address :
        c = Cookie(<<x, n>>, a) /\ (n = number => a \in sent)

IssuedBy(x, c) == Issued(x, secret[x].number, proven[x], c)

Secrets ==
    /\ DOMAIN secret = Ends /\ DOMAIN proven = Ends /\ DOMAIN admitted = Ends
    /\ \A d \in Ends : secret[d].number \in Nat \ {0}

\* messages carry cookies of their senders, as answers to an initiation or
\* response, and MACs under cookies of their receivers
CookiesSent ==
    \A m \in net :
        /\ m.to \in Ends
        /\ m.type = "cookie" =>
              /\ IssuedBy(Other(m.to), m.cookie.text)
              /\ \E e \in 1 .. fresh : m.cookie.ad = Mac1(Other(m.to), e)
        /\ m.type \in {"init", "resp"} => m.mac2 = NoMac \/ IssuedBy(m.to, m.mac2[2])

CookiesHeld ==
    /\ DOMAIN peer = Ends
    /\ \A d \in Ends : peer[d].cookie = NoCookie \/ IssuedBy(Other(d), peer[d].cookie)

\* a reply still awaited is newer than the cookie held
RepliesNewer ==
    \A d \in Ends, m \in net :
        ( /\ m.type = "cookie" /\ m.to = d /\ m.cookie.ad = peer[d].mac1
          /\ peer[d].mac1 # NoMac /\ peer[d].cookie # NoCookie )
        => m.cookie.text[2][2] >= peer[d].cookie[2][2]

CInv == Secrets /\ CookiesSent /\ CookiesHeld /\ RepliesNewer /\ UnderLoadProven

\* what a step may do to the secrets: a secret once left is not used again, and
\* while one is used the addresses it was sent to only grow
Advanced ==
    /\ Secrets'
    /\ \A x \in Ends :
          /\ secret[x].number <= secret'[x].number
          /\ secret'[x].number = secret[x].number => proven[x] \subseteq proven'[x]

LEMMA CookieTerms ==
    /\ \A x, n, a : Cookie(<<x, n>>, a)[2][2] = n /\ Cookie(<<x, n>>, a) # NoCookie
    /\ \A x, n, a, b : Cookie(<<x, n>>, a) = Cookie(<<x, n>>, b) => a = b
    /\ \A c, e : Mac2(c, e)[2] = c /\ Mac2(c, e) # NoMac
    /\ \A k, l, e, f : Mac1(k, e) = Mac1(l, f) => e = f
<1>1. \A x, n, a : Cookie(<<x, n>>, a)[2][2] = n /\ Cookie(<<x, n>>, a)[1] = "cookie"
                  /\ Cookie(<<x, n>>, a)[3] = a
  BY DEF Cookie
<1>2. NoCookie[1] = "none" /\ NoMac[1] = "zero"
  BY DEF NoCookie, NoMac
<1>3. \A c, e : Mac2(c, e)[1] = "mac2" /\ Mac2(c, e)[2] = c
  BY DEF Mac2
<1>4. \A k, e : Mac1(k, e)[3] = e
  BY DEF Mac1
<1>5. \A x, n, a : Cookie(<<x, n>>, a) # NoCookie
  <2>1. ASSUME NEW x, NEW n, NEW a PROVE Cookie(<<x, n>>, a) # NoCookie
    <3>1. Cookie(<<x, n>>, a)[1] = "cookie"
      BY <1>1
    <3>. QED BY <3>1, <1>2
  <2>. QED BY <2>1
<1>6. \A x, n, a, b : Cookie(<<x, n>>, a) = Cookie(<<x, n>>, b) => a = b
  BY <1>1
<1>7. \A c, e : Mac2(c, e) # NoMac
  BY <1>2, <1>3
<1>8. \A k, l, e, f : Mac1(k, e) = Mac1(l, f) => e = f
  BY <1>4
<1>. QED BY <1>1, <1>3, <1>5, <1>6, <1>7, <1>8

LEMMA IssuedKeeps ==
    ASSUME Secrets, Advanced, NEW x \in Ends, NEW c, IssuedBy(x, c)
    PROVE  Issued(x, secret'[x].number, proven'[x], c)
<1>1. /\ secret[x].number \in Nat /\ secret'[x].number \in Nat
      /\ secret[x].number <= secret'[x].number
      /\ secret'[x].number = secret[x].number => proven[x] \subseteq proven'[x]
  BY DEF Secrets, Advanced
<1>2. PICK n \in 1 .. secret[x].number, a \in Address :
         c = Cookie(<<x, n>>, a) /\ (n = secret[x].number => a \in proven[x])
  BY DEF IssuedBy, Issued
<1>3. n \in 1 .. secret'[x].number /\ (n = secret'[x].number => a \in proven'[x])
  BY <1>1, <1>2
<1>. QED BY <1>2, <1>3 DEF Issued

\* a cookie sent in reply is newer than the one its receiver holds
Replies(m) ==
    /\ m.to \in Ends /\ m.type = "cookie"
    /\ Issued(Other(m.to), secret'[Other(m.to)].number, proven'[Other(m.to)], m.cookie.text)
    /\ \E e \in 1 .. fresh : m.cookie.ad = Mac1(Other(m.to), e)
    /\ peer[m.to].cookie # NoCookie => m.cookie.text[2][2] >= peer[m.to].cookie[2][2]

\* What is said of the cookies is kept, as long as the secrets are used as they should.
LEMMA CookiesKeep ==
    ASSUME Secrets, CookiesSent, CookiesHeld, RepliesNewer, Advanced,
           fresh \in Nat, fresh' \in Nat, fresh <= fresh', DOMAIN peer' = Ends,
           \A m \in net' :
              \/ m \in net
              \/ /\ m.to \in Ends /\ m.type \in {"init", "resp"}
                 /\ m.mac2 = NoMac \/ IssuedBy(m.to, m.mac2[2])
              \/ peer' = peer /\ Replies(m),
           \A d \in Ends :
              \/ peer'[d].cookie = NoCookie
              \/ /\ peer'[d].cookie = peer[d].cookie
                 /\ peer'[d].mac1 = peer[d].mac1 \/ \E k : peer'[d].mac1 = Mac1(k, fresh + 1)
              \/ IssuedBy(Other(d), peer'[d].cookie) /\ peer'[d].mac1 = NoMac
    PROVE  CookiesSent' /\ CookiesHeld' /\ RepliesNewer'
<1>1. CookiesSent'
  <2>1. ASSUME NEW m \in net'
        PROVE  /\ m.to \in Ends
               /\ m.type = "cookie" =>
                     /\ Issued(Other(m.to), secret'[Other(m.to)].number, proven'[Other(m.to)],
                               m.cookie.text)
                     /\ \E e \in 1 .. fresh' : m.cookie.ad = Mac1(Other(m.to), e)
               /\ m.type \in {"init", "resp"} =>
                     m.mac2 = NoMac \/ Issued(m.to, secret'[m.to].number, proven'[m.to], m.mac2[2])
    <3>1. m.to \in Ends
      BY DEF CookiesSent, Replies
    <3>4. CASE Replies(m)
      <4>1. m.type = "cookie"
        BY <3>4 DEF Replies
      <4>2. PICK e \in 1 .. fresh : m.cookie.ad = Mac1(Other(m.to), e)
        BY <3>4 DEF Replies
      <4>3. e \in 1 .. fresh'
        OBVIOUS
      <4>4. Issued(Other(m.to), secret'[Other(m.to)].number, proven'[Other(m.to)], m.cookie.text)
        BY <3>4 DEF Replies
      <4>. QED BY <3>1, <4>1, <4>2, <4>3, <4>4
    <3>2. CASE m.type = "cookie" /\ ~Replies(m)
      <4>1. m \in net
        BY <3>2
      <4>2. IssuedBy(Other(m.to), m.cookie.text) /\ Other(m.to) \in Ends
        BY <3>1, <3>2, <4>1, Others DEF CookiesSent
      <4>3. PICK e \in 1 .. fresh : m.cookie.ad = Mac1(Other(m.to), e)
        BY <3>2, <4>1 DEF CookiesSent
      <4>4. e \in 1 .. fresh'
        OBVIOUS
      <4>. QED BY <3>1, <3>2, <4>2, <4>3, <4>4, IssuedKeeps
    <3>3. CASE m.type \in {"init", "resp"} /\ m.mac2 # NoMac /\ ~Replies(m)
      <4>1. IssuedBy(m.to, m.mac2[2])
        BY <3>3 DEF CookiesSent
      <4>. QED BY <3>1, <3>3, <4>1, IssuedKeeps
    <3>. QED BY <3>1, <3>2, <3>3, <3>4
  <2>. QED BY <2>1, Zenon DEF CookiesSent, IssuedBy
<1>2. CookiesHeld'
  <2>1. ASSUME NEW d \in Ends, peer'[d].cookie # NoCookie
        PROVE  Issued(Other(d), secret'[Other(d)].number, proven'[Other(d)], peer'[d].cookie)
    <3>1. IssuedBy(Other(d), peer'[d].cookie) /\ Other(d) \in Ends
      BY <2>1, Others DEF CookiesHeld
    <3>. QED BY <3>1, IssuedKeeps
  <2>. QED BY <2>1 DEF CookiesHeld, IssuedBy
<1>3. RepliesNewer'
  <2>1. ASSUME NEW d \in Ends, NEW m \in net', m.type = "cookie", m.to = d,
               m.cookie.ad = peer'[d].mac1, peer'[d].mac1 # NoMac, peer'[d].cookie # NoCookie
        PROVE  m.cookie.text[2][2] >= peer'[d].cookie[2][2]
    <3>1. CASE peer' = peer /\ Replies(m)
      BY <2>1, <3>1 DEF Replies
    <3>2. CASE m \in net
      <4>1. PICK e \in 1 .. fresh : m.cookie.ad = Mac1(Other(m.to), e)
        BY <2>1, <3>2 DEF CookiesSent
      <4>2. \A k : m.cookie.ad # Mac1(k, fresh + 1)
        BY <4>1, CookieTerms
      <4>3. peer'[d].cookie = peer[d].cookie /\ peer'[d].mac1 = peer[d].mac1
        BY <2>1, <4>2
      <4>. QED BY <2>1, <3>2, <4>3 DEF RepliesNewer
    <3>. QED BY <2>1, <3>1, <3>2
  <2>. QED BY <2>1 DEF RepliesNewer
<1>. QED BY <1>1, <1>2, <1>3

\* Using the secret, with cookies sent to the addresses S and those in P let through.
LEMMA SecretUse ==
    ASSUME Secrets, UnderLoadProven, NEW d \in Ends, NEW S, NEW P, SecretUsed(d, S, P),
           P \subseteq S \/ (~secret[d].old /\ P \subseteq proven[d])
    PROVE  /\ Advanced /\ UnderLoadProven'
           /\ secret'[d] = Renewed(d) /\ S \subseteq proven'[d]
<1>1. /\ secret' = [secret EXCEPT ![d] = Renewed(d)]
      /\ secret[d].old => /\ proven' = [proven EXCEPT ![d] = {} \cup S]
                          /\ admitted' = [admitted EXCEPT ![d] = {} \cup P]
      /\ ~secret[d].old => /\ proven' = [proven EXCEPT ![d] = proven[d] \cup S]
                           /\ admitted' = [admitted EXCEPT ![d] = admitted[d] \cup P]
  BY DEF SecretUsed
<1>2. /\ secret[d].old => Renewed(d).number = secret[d].number + 1
      /\ ~secret[d].old => Renewed(d).number = secret[d].number
  BY DEF Renewed
<1>3. /\ DOMAIN secret = Ends /\ DOMAIN proven = Ends /\ DOMAIN admitted = Ends
      /\ \A x \in Ends : secret[x].number \in Nat
  BY DEF Secrets
<1>4. /\ DOMAIN secret' = Ends /\ DOMAIN proven' = Ends /\ DOMAIN admitted' = Ends
      /\ secret'[d] = Renewed(d)
      /\ \A x \in Ends : x # d => /\ secret'[x] = secret[x] /\ proven'[x] = proven[x]
                                  /\ admitted'[x] = admitted[x]
  BY <1>1, <1>3
<1>5. /\ secret[d].old => proven'[d] = S /\ admitted'[d] = P
      /\ ~secret[d].old => proven'[d] = proven[d] \cup S /\ admitted'[d] = admitted[d] \cup P
  BY <1>1, <1>3
<1>6. Secrets'
  BY <1>2, <1>3, <1>4 DEF Secrets
<1>7. Advanced
  <2>1. ASSUME NEW x \in Ends
        PROVE  /\ secret[x].number <= secret'[x].number
               /\ secret'[x].number = secret[x].number => proven[x] \subseteq proven'[x]
    <3>1. CASE x # d
      BY <1>3, <1>4, <3>1
    <3>2. CASE x = d
      BY <1>2, <1>3, <1>4, <1>5, <3>2
    <3>. QED BY <3>1, <3>2
  <2>. QED BY <1>6, <2>1 DEF Advanced
<1>8. UnderLoadProven'
  <2>1. admitted'[d] \subseteq proven'[d]
    BY <1>5 DEF UnderLoadProven
  <2>2. \A x \in Ends : x # d => admitted'[x] \subseteq proven'[x]
    BY <1>4 DEF UnderLoadProven
  <2>. QED BY <2>1, <2>2 DEF UnderLoadProven
<1>. QED BY <1>4, <1>5, <1>7, <1>8

\* Where the secret is not looked at.
LEMMA SecretKept ==
    ASSUME Secrets, UnderLoadProven, UNCHANGED <<secret, proven, admitted>>
    PROVE  Advanced /\ UnderLoadProven'
<1>1. Secrets'
  BY DEF Secrets
<1>2. \A x \in Ends : /\ secret[x].number <= secret'[x].number
                      /\ proven[x] \subseteq proven'[x]
  BY DEF Secrets
<1>3. UnderLoadProven'
  BY DEF UnderLoadProven
<1>. QED BY <1>1, <1>2, <1>3 DEF Advanced

\* Whoever is let through under load sends a MAC under a cookie of the secret in
\* use: it was sent to the address it was made for, which is the sender's.
LEMMA AdmissionStep ==
    ASSUME CInv, NEW d \in Ends, NEW m \in net, m.type \in {"init", "resp"}, m.to = d,
           NEW a \in Address, Admitted(d, m, a)
    PROVE  Advanced /\ UnderLoadProven'
<1>0. Secrets /\ UnderLoadProven /\ CookiesSent /\ secret[d].number \in Nat
  BY DEF CInv, Secrets
<1>1. CASE UNCHANGED <<secret, proven, admitted>>
  BY <1>0, <1>1, SecretKept
<1>2. CASE HasMac2(d, m, a) /\ SecretUsed(d, {}, {a})
  <2>1. m.mac2 = Mac2(Cookie(<<d, Renewed(d).number>>, a), m.ephemeral)
    BY <1>2 DEF HasMac2, CookieFor
  <2>2. m.mac2 # NoMac /\ m.mac2[2] = Cookie(<<d, Renewed(d).number>>, a)
    BY <2>1, CookieTerms
  <2>3. IssuedBy(d, m.mac2[2])
    BY <1>0, <2>2 DEF CookiesSent
  <2>4. PICK n \in 1 .. secret[d].number, b \in Address :
           /\ Cookie(<<d, Renewed(d).number>>, a) = Cookie(<<d, n>>, b)
           /\ n = secret[d].number => b \in proven[d]
    BY <2>2, <2>3 DEF IssuedBy, Issued
  <2>5. Renewed(d).number = n
    <3>1. \A x, k, c : Cookie(<<x, k>>, c)[2][2] = k
      BY CookieTerms
    <3>. QED BY <2>4, <3>1
  <2>6. ~secret[d].old /\ n = secret[d].number
    BY <1>0, <2>5 DEF Renewed
  <2>7. a = b
    BY <2>4, <2>5, CookieTerms
  <2>8. ~secret[d].old /\ {a} \subseteq proven[d]
    BY <2>4, <2>6, <2>7
  <2>. QED BY <1>0, <1>2, <2>8, SecretUse
<1>. QED BY <1>1, <1>2 DEF Admitted

\* A refusal: its cookie is of the secret in use, which is not older than any that
\* a cookie held was made with.
LEMMA RefuseStep ==
    ASSUME HInv, CInv, NEW d \in Ends, NEW m \in net, m.type \in {"init", "resp"}, m.to = d,
           NEW a \in Address, Refuse(d, m, a)
    PROVE  CInv'
<1>. DEFINE c == CookieFor(d, a)
            reply == [type |-> "cookie", to |-> Other(d), receiver |-> m.sender,
                      cookie |-> Seal(d, c, m.mac1)]
<1>1. PICK room \in Results("pbuf_alloc") :
         /\ net' = IF room THEN net \cup {reply} ELSE net
         /\ SecretUsed(d, IF room THEN {a} ELSE {}, {})
  BY Zenon DEF Refuse
<1>2. m.mac1 = Mac1(d, m.ephemeral) /\ peer' = peer /\ fresh' = fresh
  BY DEF Refuse, HasMac1
<1>3. /\ reply.to = Other(d) /\ reply.type = "cookie"
      /\ reply.cookie.text = c /\ reply.cookie.ad = m.mac1
  BY DEF Seal
<1>. HIDE DEF reply
<1>4. /\ Secrets /\ UnderLoadProven /\ CookiesSent /\ CookiesHeld /\ RepliesNewer
      /\ fresh \in Nat /\ secret[d].number \in Nat \ {0}
      /\ DOMAIN peer = Ends /\ m.ephemeral \in 1 .. fresh
  BY DEF CInv, CookiesHeld, HInv, Shaped, Drawn, Secrets
<1>5. /\ Advanced /\ UnderLoadProven' /\ secret'[d] = Renewed(d)
      /\ room => a \in proven'[d]
  BY <1>1, <1>4, SecretUse
<1>6. /\ Other(d) \in Ends /\ Other(Other(d)) = d
      /\ Renewed(d).number \in Nat \ {0} /\ secret[d].number <= Renewed(d).number
  BY <1>4, Others DEF Renewed
<1>7. CASE room
  <2>1. c = Cookie(<<d, Renewed(d).number>>, a) /\ c[2][2] = Renewed(d).number
    BY CookieTerms DEF CookieFor
  <2>. HIDE DEF c
  <2>2. Issued(d, secret'[d].number, proven'[d], c)
    BY <1>5, <1>6, <1>7, <2>1 DEF Issued
  <2>3. ASSUME peer[Other(d)].cookie # NoCookie
        PROVE  c[2][2] >= peer[Other(d)].cookie[2][2]
    <3>1. IssuedBy(d, peer[Other(d)].cookie)
      BY <1>4, <1>6, <2>3 DEF CookiesHeld
    <3>2. PICK n \in 1 .. secret[d].number, b \in Address :
             peer[Other(d)].cookie = Cookie(<<d, n>>, b)
      BY <3>1 DEF IssuedBy, Issued
    <3>3. peer[Other(d)].cookie[2][2] = n
      BY <3>2, CookieTerms
    <3>. QED BY <1>4, <1>6, <2>1, <3>3
  <2>4. Replies(reply)
    BY <1>2, <1>3, <1>4, <1>6, <2>2, <2>3 DEF Replies
  <2>5. \A r \in net' : r \in net \/ Replies(r)
    BY <1>1, <1>7, <2>4
  <2>6. CookiesSent' /\ CookiesHeld' /\ RepliesNewer'
    BY <1>2, <1>4, <1>5, <2>5, CookiesKeep
  <2>. QED BY <1>5, <2>6 DEF CInv, Advanced
<1>8. CASE ~room
  <2>1. net' = net
    BY <1>1, <1>8
  <2>2. CookiesSent' /\ CookiesHeld' /\ RepliesNewer'
    BY <1>2, <1>4, <1>5, <2>1, CookiesKeep
  <2>. QED BY <1>5, <2>2 DEF CInv, Advanced
<1>. QED BY <1>7, <1>8

\* A handshake message carries a MAC under the cookie held, if there is one.
LEMMA Mac2Issued ==
    ASSUME CInv, NEW d \in Ends, NEW e
    PROVE  Mac2Of(d, e) = NoMac \/ IssuedBy(Other(d), Mac2Of(d, e)[2])
<1>1. CASE peer[d].cookie = NoCookie
  BY <1>1 DEF Mac2Of
<1>2. CASE peer[d].cookie # NoCookie
  <2>1. Mac2Of(d, e)[2] = peer[d].cookie
    BY <1>2, CookieTerms DEF Mac2Of
  <2>. QED BY <1>2, <2>1 DEF CInv, CookiesHeld
<1>. QED BY <1>1, <1>2

LEMMA CookieInitiate ==
    ASSUME HInv, CInv, NEW d \in Ends, Initiate(d) PROVE CInv'
<1>. DEFINE e == fresh + 1
            to == conf[d].peer
            hash1  == InitiationHash(to, e)
            static == Seal(Output(StaticChain(e, Dh(e, to)), 2), d, hash1)
            stamp  == Seal(Output(TimestampChain(StaticChain(e, Dh(e, to)), Dh(d, to)), 2), e,
                           MixHash(hash1, static))
            mac2   == Mac2Of(d, e)
            message(i) == [type |-> "init", to |-> Other(d), sender |-> i,
                           ephemeral |-> e, static |-> static, timestamp |-> stamp,
                           mac1 |-> Mac1(to, e), mac2 |-> mac2]
<1>1. /\ fresh' = e /\ UNCHANGED <<secret, proven, admitted>>
      /\ \E i : net' = net \/ net' = net \cup {message(i)}
      /\ peer' = peer \/ peer' = [peer EXCEPT ![d].mac1 = Mac1(to, e)]
  BY Zenon DEF Initiate
<1>2. \A i : message(i).to = Other(d) /\ message(i).type = "init" /\ message(i).mac2 = mac2
  OBVIOUS
<1>. HIDE DEF message
<1>3. mac2 = NoMac \/ IssuedBy(Other(d), mac2[2])
  BY Mac2Issued
<1>. HIDE DEF mac2
<1>4. /\ Secrets /\ UnderLoadProven /\ CookiesSent /\ CookiesHeld /\ RepliesNewer
      /\ fresh \in Nat /\ DOMAIN peer = Ends
  BY DEF CInv, CookiesHeld, HInv, Shaped
<1>5. Advanced /\ UnderLoadProven'
  BY <1>1, <1>4, SecretKept
<1>6. \A r \in net' : r \in net \/ /\ r.to \in Ends /\ r.type \in {"init", "resp"}
                                   /\ r.mac2 = NoMac \/ IssuedBy(r.to, r.mac2[2])
  BY <1>1, <1>2, <1>3, Others
<1>7. /\ DOMAIN peer' = Ends
      /\ \A o \in Ends : /\ peer'[o].cookie = peer[o].cookie
                         /\ peer'[o].mac1 = peer[o].mac1 \/ \E k : peer'[o].mac1 = Mac1(k, fresh + 1)
  <2>1. CASE peer' = peer
    BY <1>4, <2>1
  <2>2. CASE peer' = [peer EXCEPT ![d].mac1 = Mac1(to, e)]
    <3>1. /\ DOMAIN peer' = Ends /\ \A o \in Ends : o # d => peer'[o] = peer[o]
          /\ peer'[d] = [peer[d] EXCEPT !.mac1 = Mac1(to, e)]
      BY <1>4, <2>2
    <3>2. peer'[d].cookie = peer[d].cookie
      BY <3>1
    <3>3. peer'[d].mac1 = peer[d].mac1 \/ peer'[d].mac1 = Mac1(to, fresh + 1)
      BY <3>1
    <3>. QED BY <3>1, <3>2, <3>3
  <2>. QED BY <1>1, <2>1, <2>2
<1>8. fresh' \in Nat /\ fresh <= fresh'
  BY <1>1, <1>4
<1>. HIDE DEF e
<1>9. CookiesSent' /\ CookiesHeld' /\ RepliesNewer'
  BY <1>4, <1>5, <1>6, <1>7, <1>8, CookiesKeep
<1>. QED BY <1>5, <1>9 DEF CInv, Advanced

LEMMA CookieRxInitiation ==
    ASSUME HInv, CInv, NEW d \in Ends, NEW m \in net, NEW a \in Address, RxInitiation(d, m, a)
    PROVE  CInv'
<1>. DEFINE e == fresh + 1
            c == ResponseChain(TimestampChain(StaticChain(m.ephemeral, Dh(d, m.ephemeral)),
                                              Dh(d, conf[d].peer)),
                               e, Dh(e, m.ephemeral), Dh(e, conf[d].peer), conf[d].psk)
            hash3 == MixHash(MixHash(InitiationHash(d, m.ephemeral), m.static), m.timestamp)
            hash4 == ResponseHash(hash3, e, c)
            empty == Seal(Output(c, 3), Nothing, hash4)
            half(i) == Half(FALSE, e, MixHash(hash4, empty), c, i)
            mac2  == Mac2Of(d, e)
            message(i) == [type |-> "resp", to |-> Other(d), sender |-> i,
                           receiver |-> m.sender, ephemeral |-> e, empty |-> empty,
                           mac1 |-> Mac1(conf[d].peer, e), mac2 |-> mac2]
<1>1. /\ fresh' = e /\ m.type = "init" /\ m.to = d /\ Admitted(d, m, a)
      /\ \E i : net' = net \/ net' = net \cup {message(i)}
      /\ peer' = [peer EXCEPT ![d].greatest_timestamp = m.timestamp.text]
  <2>1. /\ fresh' = e /\ m.type = "init" /\ m.to = d /\ Admitted(d, m, a)
        /\ peer' = [peer EXCEPT ![d].greatest_timestamp = m.timestamp.text]
    BY Zenon DEF RxInitiation
  <2>2. \E i \in FreshIndices(keys[d], hs[d]), room \in Results("pbuf_alloc") :
           /\ StartSession(d, half(i), m.sender)
           /\ net' = IF room THEN net \cup {message(i)} ELSE net
    BY Zenon DEF RxInitiation
  <2>. HIDE DEF message
  <2>3. \E i : net' = net \/ net' = net \cup {message(i)}
    BY ONLY <2>2
  <2>. QED BY <2>1, <2>3
<1>2. \A i : message(i).to = Other(d) /\ message(i).type = "resp" /\ message(i).mac2 = mac2
  OBVIOUS
<1>. HIDE DEF message
<1>3. mac2 = NoMac \/ IssuedBy(Other(d), mac2[2])
  BY Mac2Issued
<1>. HIDE DEF mac2
<1>4. /\ Secrets /\ UnderLoadProven /\ CookiesSent /\ CookiesHeld /\ RepliesNewer
      /\ fresh \in Nat /\ DOMAIN peer = Ends
  BY DEF CInv, CookiesHeld, HInv, Shaped
<1>5. Advanced /\ UnderLoadProven'
  BY <1>1, AdmissionStep
<1>6. \A r \in net' : r \in net \/ /\ r.to \in Ends /\ r.type \in {"init", "resp"}
                                   /\ r.mac2 = NoMac \/ IssuedBy(r.to, r.mac2[2])
  BY <1>1, <1>2, <1>3, Others
<1>7. /\ DOMAIN peer' = Ends
      /\ \A o \in Ends : peer'[o].cookie = peer[o].cookie /\ peer'[o].mac1 = peer[o].mac1
  BY <1>1, <1>4
<1>8. fresh' \in Nat /\ fresh <= fresh'
  BY <1>1, <1>4
<1>. HIDE DEF e
<1>9. CookiesSent' /\ CookiesHeld' /\ RepliesNewer'
  BY <1>4, <1>5, <1>6, <1>7, <1>8, CookiesKeep
<1>. QED BY <1>5, <1>9 DEF CInv, Advanced

\* A cookie taken up was issued by the other end, and no reply to it is awaited.
LEMMA CookieRxCookie ==
    ASSUME HInv, CInv, NEW d \in Ends, NEW m \in net, RxCookie(d, m)
    PROVE  CInv'
<1>1. /\ m.type = "cookie" /\ m.to = d
      /\ peer' = [peer EXCEPT ![d].cookie = m.cookie.text, ![d].mac1 = NoMac]
      /\ UNCHANGED <<secret, net, fresh, proven, admitted>>
  BY DEF RxCookie, history
<1>2. /\ Secrets /\ UnderLoadProven /\ CookiesSent /\ CookiesHeld /\ RepliesNewer
      /\ fresh \in Nat /\ DOMAIN peer = Ends
  BY DEF CInv, CookiesHeld, HInv, Shaped
<1>3. Advanced /\ UnderLoadProven'
  BY <1>1, <1>2, SecretKept
<1>4. /\ DOMAIN peer' = Ends /\ \A o \in Ends : o # d => peer'[o] = peer[o]
      /\ peer'[d].cookie = m.cookie.text /\ peer'[d].mac1 = NoMac
  BY <1>1, <1>2
<1>5. IssuedBy(Other(d), peer'[d].cookie)
  BY <1>1, <1>2, <1>4 DEF CookiesSent
<1>6. CookiesSent' /\ CookiesHeld' /\ RepliesNewer'
  BY <1>1, <1>2, <1>3, <1>4, <1>5, CookiesKeep
<1>. QED BY <1>3, <1>6 DEF CInv, Advanced

LEMMA CookieRestart == ASSUME HInv, CInv, NEW d \in Ends, Restart(d) PROVE CInv'
<1>1. /\ peer' = [peer EXCEPT ![d] = NewPeer] /\ UNCHANGED <<net, fresh>>
      /\ secret' = [secret EXCEPT ![d] = [number |-> secret[d].number + 1, old |-> FALSE]]
      /\ proven' = [proven EXCEPT ![d] = {}] /\ admitted' = [admitted EXCEPT ![d] = {}]
  BY DEF Restart
<1>2. /\ Secrets /\ UnderLoadProven /\ CookiesSent /\ CookiesHeld /\ RepliesNewer
      /\ fresh \in Nat /\ DOMAIN peer = Ends
      /\ DOMAIN secret = Ends /\ DOMAIN proven = Ends /\ DOMAIN admitted = Ends
      /\ \A x \in Ends : secret[x].number \in Nat \ {0}
  BY DEF CInv, CookiesHeld, HInv, Shaped, Secrets
<1>3. /\ DOMAIN secret' = Ends /\ DOMAIN proven' = Ends /\ DOMAIN admitted' = Ends
      /\ secret'[d].number = secret[d].number + 1 /\ admitted'[d] = {}
      /\ \A x \in Ends : x # d => /\ secret'[x] = secret[x] /\ proven'[x] = proven[x]
                                  /\ admitted'[x] = admitted[x]
  BY <1>1, <1>2
<1>4. Secrets'
  BY <1>2, <1>3 DEF Secrets
<1>5. Advanced
  BY <1>2, <1>3, <1>4 DEF Advanced
<1>6. UnderLoadProven'
  BY <1>2, <1>3 DEF UnderLoadProven
<1>7. /\ DOMAIN peer' = Ends /\ \A o \in Ends : o # d => peer'[o] = peer[o]
      /\ peer'[d].cookie = NoCookie
  BY <1>1, <1>2 DEF NewPeer
<1>8. CookiesSent' /\ CookiesHeld' /\ RepliesNewer'
  BY <1>1, <1>2, <1>5, <1>7, CookiesKeep
<1>. QED BY <1>4, <1>6, <1>8 DEF CInv

LEMMA CookieStep == ASSUME HInv, CInv, [Next]_vars PROVE CInv'
<1>0. /\ Secrets /\ UnderLoadProven /\ CookiesSent /\ CookiesHeld /\ RepliesNewer
      /\ fresh \in Nat /\ DOMAIN peer = Ends
      /\ DOMAIN secret = Ends /\ \A x \in Ends : secret[x].number \in Nat \ {0}
  BY DEF CInv, CookiesHeld, HInv, Shaped, Secrets
<1>1. ASSUME NEW d \in Ends, NEW m \in net, NEW a \in Address, RxResponse(d, m, a) PROVE CInv'
  <2>1. m.type = "resp" /\ m.to = d /\ Admitted(d, m, a) /\ UNCHANGED <<peer, net, fresh>>
    BY <1>1 DEF RxResponse
  <2>2. Advanced /\ UnderLoadProven'
    BY <2>1, AdmissionStep
  <2>3. CookiesSent' /\ CookiesHeld' /\ RepliesNewer'
    BY <1>0, <2>1, <2>2, CookiesKeep
  <2>. QED BY <2>2, <2>3 DEF CInv, Advanced
<1>2. ASSUME NEW d \in Ends, SecretExpires(d) PROVE CInv'
  <2>1. /\ secret' = [secret EXCEPT ![d].old = TRUE]
        /\ UNCHANGED <<peer, net, fresh, proven, admitted>>
    BY <1>2 DEF SecretExpires, history
  <2>2. /\ DOMAIN secret' = Ends /\ \A x \in Ends : secret'[x].number = secret[x].number
    BY <1>0, <2>1
  <2>3. Secrets'
    BY <1>0, <2>1, <2>2 DEF Secrets
  <2>4. Advanced
    BY <1>0, <2>1, <2>2, <2>3 DEF Advanced
  <2>5. UnderLoadProven'
    BY <1>0, <2>1 DEF UnderLoadProven
  <2>6. CookiesSent' /\ CookiesHeld' /\ RepliesNewer'
    BY <1>0, <2>1, <2>4, CookiesKeep
  <2>. QED BY <2>3, <2>5, <2>6 DEF CInv
<1>3. ASSUME NEW d \in Ends, CookieExpires(d) PROVE CInv'
  <2>1. /\ peer' = [peer EXCEPT ![d].cookie = NoCookie]
        /\ UNCHANGED <<secret, net, fresh, proven, admitted>>
    BY <1>3 DEF CookieExpires, history
  <2>2. /\ DOMAIN peer' = Ends /\ \A o \in Ends : o # d => peer'[o] = peer[o]
        /\ peer'[d].cookie = NoCookie
    BY <1>0, <2>1
  <2>3. Advanced /\ UnderLoadProven'
    BY <1>0, <2>1, SecretKept
  <2>4. CookiesSent' /\ CookiesHeld' /\ RepliesNewer'
    BY <1>0, <2>1, <2>2, <2>3, CookiesKeep
  <2>. QED BY <2>3, <2>4 DEF CInv, Advanced
<1>4. CASE UNCHANGED vars
  <2>1. UNCHANGED <<secret, peer, net, fresh, proven, admitted>>
    BY <1>4 DEF vars, history
  <2>2. Advanced /\ UnderLoadProven'
    BY <1>0, <2>1, SecretKept
  <2>3. CookiesSent' /\ CookiesHeld' /\ RepliesNewer'
    BY <1>0, <2>1, <2>2, CookiesKeep
  <2>. QED BY <2>2, <2>3 DEF CInv, Advanced
<1>. QED BY <1>1, <1>2, <1>3, <1>4, CookieInitiate, CookieRxInitiation, CookieRxCookie,
            CookieRestart, RefuseStep DEF Next, Receive

LEMMA CookiesStart == Init => CInv
<1>. SUFFICES ASSUME Init PROVE CInv
  OBVIOUS
<1>1. /\ net = {} /\ DOMAIN peer = Ends /\ \A d \in Ends : peer[d].cookie = NoCookie
      /\ DOMAIN secret = Ends /\ \A d \in Ends : secret[d].number = 1
      /\ DOMAIN proven = Ends /\ DOMAIN admitted = Ends /\ \A d \in Ends : admitted[d] = {}
  BY DEF Init, NewPeer
<1>. QED BY <1>1 DEF CInv, Secrets, CookiesSent, CookiesHeld, RepliesNewer, UnderLoadProven

\* Whoever is let through under load had a cookie sent to its address, under the
\* secret in use.
THEOREM ProvenUnderLoad == Spec => []UnderLoadProven
<1>1. CInv => UnderLoadProven
  BY DEF CInv
<1>. QED BY <1>1, CookiesStart, CookieStep, Inductive, PTL DEF Spec

LEMMA NewerStep ==
    ASSUME CInv, [Next]_vars, NEW d \in Ends,
           peer[d].cookie # NoCookie, peer'[d].cookie # NoCookie
    PROVE  peer'[d].cookie[2][2] >= peer[d].cookie[2][2]
<1>0. /\ CookiesSent /\ CookiesHeld /\ RepliesNewer /\ Secrets /\ DOMAIN peer = Ends
      /\ Other(d) \in Ends
  BY Others DEF CInv, CookiesHeld
<1>1. peer[d].cookie[2][2] \in Nat
  <2>1. PICK n \in 1 .. secret[Other(d)].number, b \in Address :
           peer[d].cookie = Cookie(<<Other(d), n>>, b)
    BY <1>0 DEF CookiesHeld, IssuedBy, Issued
  <2>2. peer[d].cookie[2][2] = n /\ secret[Other(d)].number \in Nat
    BY <1>0, <2>1, CookieTerms DEF Secrets
  <2>. QED BY <2>2
<1>2. CASE peer'[d].cookie = peer[d].cookie
  BY <1>1, <1>2
<1>3. ASSUME NEW o \in Ends, NEW m \in net, RxCookie(o, m)
      PROVE  peer'[d].cookie[2][2] >= peer[d].cookie[2][2]
  <2>1. /\ peer' = [peer EXCEPT ![o].cookie = m.cookie.text, ![o].mac1 = NoMac]
        /\ m.type = "cookie" /\ m.to = o /\ peer[o].mac1 # NoMac /\ m.cookie.ad = peer[o].mac1
    BY <1>3 DEF RxCookie, OpensCookie, Opens
  <2>2. CASE o = d
    <3>1. peer'[d].cookie = m.cookie.text
      BY <1>0, <2>1, <2>2
    <3>. QED BY <1>0, <2>1, <2>2, <3>1 DEF RepliesNewer
  <2>3. CASE o # d
    BY <1>0, <1>2, <2>1, <2>3
  <2>. QED BY <2>2, <2>3
<1>4. ASSUME NEW o \in Ends, Initiate(o) PROVE peer'[d].cookie = peer[d].cookie
  <2>1. peer' = peer \/ \E x : peer' = [peer EXCEPT ![o].mac1 = x]
    BY <1>4, Zenon DEF Initiate
  <2>2. ASSUME NEW x, peer' = [peer EXCEPT ![o].mac1 = x] PROVE peer'[d].cookie = peer[d].cookie
    BY <1>0, <2>2
  <2>. QED BY <2>1, <2>2
<1>5. ASSUME NEW o \in Ends, NEW m \in net, NEW a, RxInitiation(o, m, a)
      PROVE  peer'[d].cookie = peer[d].cookie
  <2>1. \E x : peer' = [peer EXCEPT ![o].greatest_timestamp = x]
    BY <1>5, Zenon DEF RxInitiation
  <2>2. PICK x : peer' = [peer EXCEPT ![o].greatest_timestamp = x]
    BY <2>1
  <2>. QED BY <1>0, <2>2
<1>6. ASSUME NEW o \in Ends, CookieExpires(o) \/ Restart(o)
      PROVE  peer'[d].cookie = peer[d].cookie
  <2>1. \/ peer' = [peer EXCEPT ![o].cookie = NoCookie]
        \/ peer' = [peer EXCEPT ![o] = NewPeer]
    BY <1>6 DEF CookieExpires, Restart
  <2>2. peer'[o].cookie = NoCookie /\ (o # d => peer'[d] = peer[d])
    <3>1. CASE peer' = [peer EXCEPT ![o].cookie = NoCookie]
      BY <1>0, <3>1
    <3>2. CASE peer' = [peer EXCEPT ![o] = NewPeer]
      BY <1>0, <3>2 DEF NewPeer
    <3>. QED BY <2>1, <3>1, <3>2
  <2>. QED BY <2>2
<1>7. ASSUME NEW o \in Ends, NEW m \in net, NEW a, RxResponse(o, m, a) \/ Refuse(o, m, a)
      PROVE  peer'[d].cookie = peer[d].cookie
  BY <1>7 DEF RxResponse, Refuse
<1>8. CASE UNCHANGED vars \/ \E o \in Ends : SecretExpires(o)
  BY <1>2, <1>8 DEF vars, SecretExpires
<1>. QED BY <1>2, <1>3, <1>4, <1>5, <1>6, <1>7, <1>8 DEF Next, Receive

\* A cookie is never replaced by one of an older secret.
THEOREM CookiesGrowNewer == Spec => CookieNeverOlder
<1>1. CInv /\ [Next]_vars =>
         [ \A d \in Ends : peer[d].cookie # NoCookie /\ peer'[d].cookie # NoCookie
               => peer'[d].cookie[2][2] >= peer[d].cookie[2][2] ]_vars
  BY NewerStep
<1>. QED BY <1>1, CookiesStart, CookieStep, Inductive, PTL DEF Spec, CookieNeverOlder

-----------------------------------------------------------------------------
(* Forgotten keys.  No input of a session's chaining key is a DH value of a  *)
(* key still to be drawn, and so of none that is pending after the session   *)
(* has started.                                                              *)

\* no input of the chain was computed with the key k
FreeOf(c, k) == \A i \in DOMAIN c : \A x : c[i] # Dh(k, x)

\* the keys that no ephemeral drawn has had, 0 among them
Undrawn == Nat \ (1 .. fresh)

EInv ==
    /\ \A d \in Ends : conf[d].peer \in Ends \cup Strangers
    /\ \A d \in Ends : \/ ~hs[d].valid /\ hs[d].ephemeral = 0
                       \/ hs[d].valid /\ \A k \in Undrawn : FreeOf(hs[d].chain, k)
    /\ \A d \in Ends : \A n \in DOMAIN made[d] :
          /\ \A k \in Undrawn : FreeOf(ChainOf(made[d][n]), k)
          /\ FreeOf(ChainOf(made[d][n]), hs[d].ephemeral)

LEMMA DhShares == ASSUME NEW k, NEW x, NEW a, NEW b, Dh(k, x) = Dh(a, b) PROVE k \in {a, b}
<1>1. Dh(k, x)[2] = {k, x} /\ Dh(a, b)[2] = {a, b}
  BY DEF Dh
<1>2. {k, x} = {a, b}
  BY <1>1
<1>. QED BY <1>2

LEMMA NoDh == \A k, x, a : Dh(k, x) # Pub(a) /\ Dh(k, x) # Psk(a) /\ Dh(k, x) # Nothing
<1>1. \A k, x, a : Dh(k, x)[1] = "dh" /\ Pub(a)[1] = "pub" /\ Psk(a)[1] = "psk"
                   /\ Nothing[1] = "empty"
  BY DEF Dh, Pub, Psk, Nothing
<1>2. ASSUME NEW k, NEW x, NEW a
      PROVE  Dh(k, x) # Pub(a) /\ Dh(k, x) # Psk(a) /\ Dh(k, x) # Nothing
  <2>1. Dh(k, x)[1] = "dh" /\ Pub(a)[1] = "pub" /\ Psk(a)[1] = "psk" /\ Nothing[1] = "empty"
    BY <1>1
  <2>2. Dh(k, x) # Pub(a)
    BY <2>1
  <2>3. Dh(k, x) # Psk(a)
    BY <2>1
  <2>4. Dh(k, x) # Nothing
    BY <2>1
  <2>. QED BY <2>2, <2>3, <2>4
<1>. QED BY <1>2

LEMMA KdfFree ==
    ASSUME NEW c, NEW n \in Nat, IsChain(c, n), NEW k, FreeOf(c, k), NEW t, \A x : t # Dh(k, x)
    PROVE  IsChain(Kdf(c, t), n + 1) /\ FreeOf(Kdf(c, t), k)
<1>1. PICK R : c \in Seq(R) /\ Len(c) = n
  BY DEF IsChain
<1>2. c \in Seq(R \cup {t})
  BY <1>1
<1>3. DOMAIN Append(c, t) = 1 .. n + 1 /\ DOMAIN c = 1 .. n
  BY <1>1, <1>2
<1>4. IsChain(Kdf(c, t), n + 1) /\ Kdf(c, t)[n + 1] = t /\ \A i \in 1 .. n : Kdf(c, t)[i] = c[i]
  BY KdfAppends
<1>5. ASSUME NEW i \in 1 .. n + 1, NEW x PROVE Kdf(c, t)[i] # Dh(k, x)
  <2>1. CASE i = n + 1
    BY <1>4, <2>1
  <2>2. CASE i \in 1 .. n
    BY <1>3, <1>4, <2>2 DEF FreeOf
  <2>. QED BY <2>1, <2>2
<1>. QED BY <1>3, <1>4, <1>5 DEF FreeOf, Kdf

LEMMA InitiationFree ==
    ASSUME NEW k, NEW e, NEW x, NEW y, NEW z, k \notin {e, x, y, z}
    PROVE  FreeOf(TimestampChain(StaticChain(e, Dh(e, x)), Dh(y, z)), k)
<1>. DEFINE c1 == Kdf(<<>>, Pub(e))
            c2 == Kdf(c1, Dh(e, x))
            c3 == Kdf(c2, Dh(y, z))
<1>0. IsChain(<<>>, 0) /\ FreeOf(<<>>, k)
  <2>1. <<>> \in Seq({}) /\ Len(<<>>) = 0 /\ DOMAIN <<>> = {}
    OBVIOUS
  <2>. QED BY <2>1 DEF IsChain, FreeOf
<1>1. /\ \A v : Pub(e) # Dh(k, v) /\ Dh(e, x) # Dh(k, v) /\ Dh(y, z) # Dh(k, v)
  BY NoDh, DhShares
<1>2. IsChain(c1, 0 + 1) /\ FreeOf(c1, k)
  BY <1>0, <1>1, KdfFree
<1>. HIDE DEF c1
<1>3. IsChain(c2, 1 + 1) /\ FreeOf(c2, k)
  BY <1>1, <1>2, KdfFree
<1>. HIDE DEF c2
<1>4. FreeOf(c3, k)
  BY <1>1, <1>3, KdfFree
<1>. QED BY <1>4 DEF c1, c2, TimestampChain, StaticChain

LEMMA SessionFree ==
    ASSUME NEW k, NEW c, IsChain(c, 3), FreeOf(c, k), NEW e, NEW v, NEW w, NEW y, NEW z, NEW q,
           k \notin {v, w, y, z},
           NEW half, NEW remote, half.chain = ResponseChain(c, e, Dh(v, w), Dh(y, z), q)
    PROVE  FreeOf(ChainOf(Session(half, remote)), k)
<1>. DEFINE c4 == Kdf(c, Pub(e))
            c5 == Kdf(c4, Dh(v, w))
            c6 == Kdf(c5, Dh(y, z))
            c7 == Kdf(c6, Psk(q))
            c8 == Kdf(c7, Nothing)
<1>0. half.chain = c7
  BY DEF ResponseChain
<1>1. /\ \A u : Pub(e) # Dh(k, u) /\ Dh(v, w) # Dh(k, u) /\ Dh(y, z) # Dh(k, u)
      /\ \A u : Psk(q) # Dh(k, u) /\ Nothing # Dh(k, u)
  BY NoDh, DhShares
<1>4. IsChain(c4, 3 + 1) /\ FreeOf(c4, k)
  BY <1>1, KdfFree
<1>. HIDE DEF c4
<1>5. IsChain(c5, 4 + 1) /\ FreeOf(c5, k)
  BY <1>1, <1>4, KdfFree
<1>. HIDE DEF c5
<1>6. IsChain(c6, 5 + 1) /\ FreeOf(c6, k)
  BY <1>1, <1>5, KdfFree
<1>. HIDE DEF c6
<1>7. IsChain(c7, 6 + 1) /\ FreeOf(c7, k)
  BY <1>1, <1>6, KdfFree
<1>. HIDE DEF c7
<1>8. FreeOf(c8, k)
  BY <1>1, <1>7, KdfFree
<1>9. ChainOf(Session(half, remote)) = c8
  BY <1>0 DEF ChainOf, SendsOn, Session, NewKeypair, SessionKeys, SessionKey, Output
<1>. QED BY <1>8, <1>9

\* A session starts, with a chain that has no key still to be drawn.
LEMMA FreeStart ==
    ASSUME HInv, EInv, NEW d \in Ends, NEW half, NEW remote, StartSession(d, half, remote),
           conf' = conf, fresh' \in Nat, fresh <= fresh',
           \A k \in Nat \ (1 .. fresh') : FreeOf(ChainOf(Session(half, remote)), k)
    PROVE  EInv'
<1>. DEFINE s == Session(half, remote)
            later == Nat \ (1 .. fresh')
<1>. HIDE DEF s
<1>1. /\ \A o \in Ends : o # d => hs'[o] = hs[o] /\ made'[o] = made[o]
      /\ ~hs'[d].valid /\ hs'[d].ephemeral = 0 /\ fresh \in Nat
  BY DEF StartSession, Ended, NoHs, HInv, Shaped
<1>2. later \subseteq Undrawn /\ 0 \in later
  BY <1>1 DEF Undrawn
<1>. HIDE DEF later
<1>3. \A o \in Ends : \/ ~hs'[o].valid /\ hs'[o].ephemeral = 0
                      \/ hs'[o].valid /\ \A k \in later : FreeOf(hs'[o].chain, k)
  BY <1>1, <1>2 DEF EInv
<1>4. ASSUME NEW o \in Ends, NEW n \in DOMAIN made'[o]
      PROVE  /\ \A k \in later : FreeOf(ChainOf(made'[o][n]), k)
             /\ FreeOf(ChainOf(made'[o][n]), hs'[o].ephemeral)
  <2>1. CASE o # d
    BY <1>1, <1>2, <1>4, <2>1 DEF EInv
  <2>2. CASE o = d
    <3>1. \/ n \in DOMAIN made[d] /\ made'[d][n] = made[d][n]
          \/ made'[d][n] = s
      BY <1>4, <2>2, StartAdds DEF HInv, s
    <3>2. \A k \in later : FreeOf(ChainOf(s), k)
      BY DEF s, later
    <3>3. \A k \in later : FreeOf(ChainOf(made'[d][n]), k)
      BY <1>2, <3>1, <3>2 DEF EInv
    <3>. QED BY <1>1, <1>2, <2>2, <3>3
  <2>. QED BY <2>1, <2>2
<1>5. \A o \in Ends : conf'[o].peer \in Ends \cup Strangers
  BY DEF EInv
<1>. QED BY <1>3, <1>4, <1>5, Zenon DEF EInv, Undrawn, later, ChainOf, SendsOn, FreeOf

\* No session starts, and no handshake but by being wiped is changed.
LEMMA FreeQuiet ==
    ASSUME EInv, UNCHANGED <<conf, made, fresh>>,
           \A d \in Ends : hs'[d] = hs[d] \/ hs'[d] = NoHs
    PROVE  EInv'
<1>1. 0 \in Undrawn /\ ~NoHs.valid /\ NoHs.ephemeral = 0
  BY DEF Undrawn, NoHs
<1>2. \A o \in Ends : \/ ~hs'[o].valid /\ hs'[o].ephemeral = 0
                      \/ hs'[o].valid /\ \A k \in Undrawn : FreeOf(hs'[o].chain, k)
  BY <1>1 DEF EInv
<1>3. \A o \in Ends : \A n \in DOMAIN made[o] : FreeOf(ChainOf(made[o][n]), hs'[o].ephemeral)
  BY <1>1 DEF EInv
<1>4. (\A o \in Ends : \A n \in DOMAIN made[o] :
          /\ \A k \in Undrawn : FreeOf(ChainOf(made[o][n]), k)
          /\ FreeOf(ChainOf(made[o][n]), hs[o].ephemeral))'
  <2>1. \A o \in Ends : \A n \in DOMAIN made[o] :
           /\ \A k \in Undrawn : FreeOf(ChainOf(made[o][n]), k)
           /\ FreeOf(ChainOf(made[o][n]), hs'[o].ephemeral)
    BY <1>3 DEF EInv
  <2>2. made' = made /\ Undrawn' = Undrawn
    BY DEF Undrawn
  <2>3. \A o \in Ends : \A n \in DOMAIN made'[o] :
           /\ \A k \in Undrawn' : FreeOf(ChainOf(made'[o][n]), k)
           /\ FreeOf(ChainOf(made'[o][n]), hs'[o].ephemeral)
    BY <2>1, <2>2
  <2>. QED BY ONLY <2>3 DEF FreeOf, ChainOf, SendsOn
<1>5. (\A o \in Ends : \/ ~hs[o].valid /\ hs[o].ephemeral = 0
                       \/ hs[o].valid /\ \A k \in Undrawn : FreeOf(hs[o].chain, k))'
  BY ONLY <1>2, UNCHANGED fresh DEF Undrawn, FreeOf
<1>6. (\A o \in Ends : conf[o].peer \in Ends \cup Strangers)'
  BY DEF EInv
<1>. QED BY <1>4, <1>5, <1>6 DEF EInv

LEMMA FreeInitiate == ASSUME HInv, EInv, NEW d \in Ends, Initiate(d) PROVE EInv'
<1>. DEFINE e == fresh + 1
            to == conf[d].peer
            c == TimestampChain(StaticChain(e, Dh(e, to)), Dh(d, to))
            hash1  == InitiationHash(to, e)
            static == Seal(Output(StaticChain(e, Dh(e, to)), 2), d, hash1)
            hash2  == MixHash(hash1, static)
            h      == MixHash(hash2, Seal(Output(c, 2), e, hash2))
<1>1. /\ fresh' = e /\ UNCHANGED <<conf, made>>
      /\ \E i : hs' = [hs EXCEPT ![d] = Half(TRUE, e, h, c, i)]
  BY Zenon DEF Initiate
<1>. HIDE DEF h
<1>2. PICK i : hs' = [hs EXCEPT ![d] = Half(TRUE, e, h, c, i)]
  BY <1>1
<1>3. fresh \in Nat /\ DOMAIN hs = Ends /\ to \in Ends \cup Strangers
  BY DEF HInv, Shaped, EInv
<1>4. /\ e \in Undrawn /\ Nat \ (1 .. e) \subseteq Undrawn /\ fresh' = e
      /\ \A k \in Nat \ (1 .. e) : k \notin {e, to, d}
  BY <1>1, <1>3, HandshakeAssumption DEF Undrawn
<1>5. \A k \in Nat \ (1 .. e) : FreeOf(c, k)
  BY <1>4, InitiationFree
<1>. HIDE DEF c, e
<1>6. /\ hs'[d].valid /\ hs'[d].ephemeral = e /\ hs'[d].chain = c
      /\ \A o \in Ends : o # d => hs'[o] = hs[o]
  BY <1>2, <1>3 DEF Half
<1>7. \A o \in Ends : \/ ~hs'[o].valid /\ hs'[o].ephemeral = 0
                      \/ hs'[o].valid /\ \A k \in Nat \ (1 .. e) : FreeOf(hs'[o].chain, k)
  BY <1>4, <1>5, <1>6 DEF EInv
<1>8. \A o \in Ends : \A n \in DOMAIN made[o] :
         /\ \A k \in Nat \ (1 .. e) : FreeOf(ChainOf(made[o][n]), k)
         /\ FreeOf(ChainOf(made[o][n]), hs'[o].ephemeral)
  BY <1>4, <1>6 DEF EInv
<1>9. \A o \in Ends : conf'[o].peer \in Ends \cup Strangers
  BY <1>1 DEF EInv
<1>10. made' = made /\ fresh' = e
  BY <1>1, <1>4
<1>11. Undrawn' = Nat \ (1 .. e)
  BY <1>10 DEF Undrawn
<1>. HIDE DEF to
<1>12. (\A o \in Ends : \/ ~hs[o].valid /\ hs[o].ephemeral = 0
                        \/ hs[o].valid /\ \A k \in Undrawn : FreeOf(hs[o].chain, k))'
  BY ONLY <1>7, <1>11 DEF FreeOf
<1>13. (\A o \in Ends : \A n \in DOMAIN made[o] :
          /\ \A k \in Undrawn : FreeOf(ChainOf(made[o][n]), k)
          /\ FreeOf(ChainOf(made[o][n]), hs[o].ephemeral))'
  <2>1. \A o \in Ends : \A n \in DOMAIN made'[o] :
           /\ \A k \in Undrawn' : FreeOf(ChainOf(made'[o][n]), k)
           /\ FreeOf(ChainOf(made'[o][n]), hs'[o].ephemeral)
    BY <1>8, <1>10, <1>11
  <2>. QED BY ONLY <2>1 DEF FreeOf, ChainOf, SendsOn
<1>. QED BY <1>9, <1>12, <1>13 DEF EInv

LEMMA FreeRxInitiation ==
    ASSUME HInv, EInv, NEW d \in Ends, NEW m \in net, NEW a, RxInitiation(d, m, a)
    PROVE  EInv'
<1>. DEFINE e == fresh + 1
            to == conf[d].peer
            c2 == TimestampChain(StaticChain(m.ephemeral, Dh(d, m.ephemeral)), Dh(d, to))
            c == ResponseChain(c2, e, Dh(e, m.ephemeral), Dh(e, to), conf[d].psk)
            hash2 == MixHash(InitiationHash(d, m.ephemeral), m.static)
            hash4 == ResponseHash(MixHash(hash2, m.timestamp), e, c)
            empty == Seal(Output(c, 3), Nothing, hash4)
            message(i) == [type |-> "resp", to |-> Other(d), sender |-> i,
                           receiver |-> m.sender, ephemeral |-> e, empty |-> empty,
                           mac1 |-> Mac1(to, e), mac2 |-> Mac2Of(d, e)]
<1>1. /\ fresh' = e /\ conf' = conf /\ m.type = "init"
      /\ \E i, h : StartSession(d, Half(FALSE, e, h, c, i), m.sender)
  <2>1. /\ fresh' = e /\ m.type = "init" /\ UNCHANGED <<conf, restarts>>
        /\ \E i \in FreshIndices(keys[d], hs[d]), room \in Results("pbuf_alloc") :
              /\ StartSession(d, Half(FALSE, e, MixHash(hash4, empty), c, i), m.sender)
              /\ net' = IF room THEN net \cup {message(i)} ELSE net
    BY Zenon DEF RxInitiation
  <2>. QED BY ONLY <2>1
<1>2. PICK i, h : StartSession(d, Half(FALSE, e, h, c, i), m.sender)
  BY <1>1
<1>. DEFINE half == Half(FALSE, e, h, c, i)
<1>3. /\ fresh \in Nat /\ to \in Ends \cup Strangers /\ m.ephemeral \in 1 .. fresh
  BY <1>1 DEF HInv, Shaped, Drawn, EInv
<1>4. /\ fresh' \in Nat /\ fresh <= fresh'
      /\ \A k \in Nat \ (1 .. fresh') : k \notin {m.ephemeral, d, to, e}
  BY <1>1, <1>3, HandshakeAssumption
<1>5. Dh(d, m.ephemeral) = Dh(m.ephemeral, d)
  BY DEF Dh
<1>6. IsChain(c2, 3) /\ \A k \in Nat \ (1 .. fresh') : FreeOf(c2, k)
  BY <1>4, <1>5, InitiationFree, InitiationChain
<1>7. half.chain = c
  BY DEF Half
<1>. HIDE DEF c2, e, to, half
<1>8. \A k \in Nat \ (1 .. fresh') : FreeOf(ChainOf(Session(half, m.sender)), k)
  BY <1>4, <1>6, <1>7, SessionFree
<1>9. StartSession(d, half, m.sender)
  BY <1>2 DEF half
<1>. HIDE DEF c
<1>. QED BY <1>1, <1>4, <1>8, <1>9, FreeStart

LEMMA FreeRxResponse ==
    ASSUME HInv, EInv, NEW d \in Ends, NEW m \in net, NEW a, RxResponse(d, m, a)
    PROVE  EInv'
<1>. DEFINE e == hs[d].ephemeral
            c == ResponseChain(hs[d].chain, m.ephemeral, Dh(e, m.ephemeral), Dh(d, m.ephemeral),
                               conf[d].psk)
<1>1. /\ fresh' = fresh /\ conf' = conf /\ m.type = "resp" /\ hs[d].valid
      /\ \E h : StartSession(d, [hs[d] EXCEPT !.hash = h, !.chain = c], m.sender)
  BY DEF RxResponse, Awaits
<1>2. PICK h : StartSession(d, [hs[d] EXCEPT !.hash = h, !.chain = c], m.sender)
  BY <1>1
<1>. DEFINE half == [hs[d] EXCEPT !.hash = h, !.chain = c]
<1>3. IsChain(hs[d].chain, 3) /\ \A k \in Nat \ (1 .. fresh) : FreeOf(hs[d].chain, k)
  BY <1>1 DEF HInv, Unused, EInv, Undrawn
<1>4. fresh \in Nat /\ e \in 1 .. fresh /\ m.ephemeral \in 1 .. fresh
  BY <1>1 DEF HInv, Shaped, Unused, Drawn
<1>5. \A k \in Nat \ (1 .. fresh) : k \notin {m.ephemeral, d, e}
  BY <1>4, HandshakeAssumption
<1>6. half.chain = c
  OBVIOUS
<1>. HIDE DEF e, half
<1>7. \A k \in Nat \ (1 .. fresh) : FreeOf(ChainOf(Session(half, m.sender)), k)
  BY <1>3, <1>5, <1>6, SessionFree
<1>8. StartSession(d, half, m.sender)
  BY <1>2 DEF half
<1>. HIDE DEF c
<1>. QED BY <1>1, <1>4, <1>7, <1>8, FreeStart

LEMMA FreeStep == ASSUME HInv, EInv, [Next]_vars PROVE EInv'
<1>0. DOMAIN hs = Ends
  BY DEF HInv, Shaped
<1>1. ASSUME NEW d \in Ends, Restart(d) PROVE EInv'
  <2>1. /\ UNCHANGED <<conf, made, fresh>>
        /\ \A o \in Ends : hs'[o] = hs[o] \/ hs'[o] = NoHs
    BY <1>0, <1>1 DEF Restart
  <2>. QED BY <2>1, FreeQuiet
<1>2. ASSUME NEW d \in Ends, SecretExpires(d) \/ CookieExpires(d) PROVE EInv'
  BY <1>2, FreeQuiet DEF SecretExpires, CookieExpires, history
<1>3. ASSUME NEW d \in Ends, NEW m \in net, NEW a, Refuse(d, m, a) PROVE EInv'
  <2>1. UNCHANGED <<conf, made, fresh, hs>>
    BY <1>3 DEF Refuse
  <2>. QED BY <2>1, FreeQuiet
<1>4. ASSUME NEW d \in Ends, NEW m \in net, RxCookie(d, m) PROVE EInv'
  BY <1>4, FreeQuiet DEF RxCookie, history
<1>5. CASE UNCHANGED vars
  BY <1>5, FreeQuiet DEF vars, history
<1>. QED BY <1>1, <1>2, <1>3, <1>4, <1>5, FreeInitiate, FreeRxInitiation, FreeRxResponse
         DEF Next, Receive

\* No session can be opened with what its end still holds of ephemeral keys.
THEOREM ForgottenWithHandshake == Spec => []EphemeralForgotten
<1>1. Init => EInv
  <2>. SUFFICES ASSUME Init PROVE EInv
    OBVIOUS
  <2>1. /\ conf \in [Ends -> [peer : Ends \cup Strangers, psk : PresharedKey]]
        /\ \A d \in Ends : made[d] = <<>> /\ hs[d] = NoHs
    BY DEF Init
  <2>2. DOMAIN <<>> = {} /\ ~NoHs.valid /\ NoHs.ephemeral = 0
    BY DEF NoHs
  <2>3. \A d \in Ends : DOMAIN made[d] = {}
    BY <2>1, <2>2, Zenon
  <2>. QED BY <2>1, <2>2, <2>3 DEF EInv
<1>2. EInv => EphemeralForgotten
  BY DEF EInv, EphemeralForgotten, SessionsOf, ChainOf, FreeOf
<1>. QED BY <1>1, <1>2, FreeStep, Inductive, PTL DEF Spec
=============================================================================
