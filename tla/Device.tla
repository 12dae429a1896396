------------------------------- MODULE Device -------------------------------
(***************************************************************************)
(* One WireGuard interface with its one peer (WIREGUARD_MAX_PEERS is 1),   *)
(* as wireguardif.c drives it.  Everything happens in a handler that runs  *)
(* to its end: a packet of the application going out, a datagram coming    *)
(* in, the 400 ms timer, or a call of the wireguardif API.                 *)
(*                                                                         *)
(* The other end and the network are the environment.  The other end       *)
(* follows the protocol: it answers an initiation it may have seen, it     *)
(* sends data on sessions it may hold, its own initiations carry           *)
(* timestamps.  The network loses, duplicates, delays and reorders all of  *)
(* it, so a message that was ever possible may arrive at any later time,   *)
(* any number of times and from any address.                               *)
(***************************************************************************)
EXTENDS PeerState, FiniteSets

CONSTANTS
    Boot,         \* value of sys_now() at the start of the history
    MaxTimerLag,  \* the timer runs at least once in this many ticks
    Calls,        \* wireguardif API calls the application makes
    Payload,      \* what the packet with a given counter carries, sent by the peer
    \* bounds of the model
    MaxTime,      \* ticks of the clock
    MaxEph,       \* ephemeral keys this end draws
    MaxTs,        \* greatest timestamp of an initiation by the peer
    MaxTx,        \* packets of the application on one session
    MaxAlive,     \* counter of a keepalive by the timer, which tries again at
                  \* every run while udp_sendto fails
    MaxRxCtr      \* greatest counter of a packet by the peer

APICalls == {"connect", "disconnect", "remove_peer", "add_peer", "update_endpoint"}

ASSUME DeviceAssumption ==
    /\ Boot \in Millis
    /\ MaxTimerLag \in Nat \ {0}
    /\ Calls \subseteq APICalls
    /\ {MaxTime, MaxEph, MaxTs, MaxTx, MaxAlive, MaxRxCtr} \subseteq Nat
    /\ Payload \in [0 .. MaxRxCtr -> {"keepalive", "packet", "foreign"}]
    /\ MaxRxCtr < DiffMod

VARIABLES
    keys,       \* curr_keypair, prev_keypair and next_keypair
    hs,         \* the pending handshake
    peer,       \* the other fields of struct wireguard_peer
    linkUp,     \* netif_is_link_up(device->netif)
    time, due,  \* elapsed ticks, in all and since the timer last ran
    \* history
    fresh,      \* ephemeral keys drawn so far: they are named 1 .. fresh
    offered,    \* those that left this end, in an initiation or a response
    sealed,     \* nonces used: <<session, sending counter>>
    confirmed,  \* sessions the other end has shown to hold
    promoted,   \* packets that turned a next keypair into the current one
    delivered,  \* packets <<session, counter>> passed up to ip_input
    again,      \* those of them passed up more than once
    answered,   \* timestamps of the initiations accepted from this peer
    closed,     \* sessions that disconnect and remove_peer put an end to
    quiet       \* 1 + the ephemerals drawn when disconnect was called; 0 again
                \* once the application connects or the other end does

history == <<fresh, offered, sealed, confirmed, promoted, delivered, again,
             answered, closed, quiet>>
vars == <<keys, hs, peer, linkUp, time, due, history>>

Now == (Boot + time) % ClockMod

Packets == (1 .. MaxEph) \X (0 .. MaxRxCtr)

TypeOK ==
    /\ keys \in [Slots -> Keypair]
    /\ hs \in Handshake
    /\ peer \in Peer
    /\ linkUp \in BOOLEAN
    /\ time \in Nat /\ due \in 0 .. MaxTimerLag
    /\ fresh \in 0 .. MaxEph
    /\ offered \subseteq 1 .. MaxEph
    /\ sealed \subseteq Nat \X Nat
    /\ confirmed \subseteq 1 .. MaxEph
    /\ promoted \subseteq Packets /\ delivered \subseteq Packets /\ again \subseteq Packets
    /\ answered \subseteq 1 .. MaxTs
    /\ closed \subseteq Nat
    /\ quiet \in 0 .. MaxEph + 1

\* a peer as wireguardif_add_peer sets it up; the caller supplies the endpoint
NewPeer(a) == [NoPeer EXCEPT !.valid = TRUE, !.ip = a, !.connect_ip = a]

Init ==
    /\ keys = NoKeys
    /\ hs = NoHandshake
    /\ \E a \in Address \cup {AnyAddr} : peer = NewPeer(a)
    /\ linkUp = FALSE
    /\ time = 0 /\ due = 0
    /\ fresh = 0
    /\ offered = {} /\ sealed = {} /\ confirmed = {}
    /\ promoted = {} /\ delivered = {} /\ again = {}
    /\ answered = {} /\ closed = {} /\ quiet = 0

-----------------------------------------------------------------------------
(* Traffic *)

\* wireguardif_output: lwIP routes a packet of the application to the peer
Output ==
    /\ peer.valid
    /\ keys[SendingSlot(keys)].sending_counter < MaxTx
    /\ \E out \in OutputToPeer(keys, peer, Now) :
          /\ keys' = out.keys
          /\ peer' = out.peer
          /\ sealed' = sealed \cup out.nonce
    /\ UNCHANGED <<hs, linkUp, time, due, fresh, offered, confirmed, promoted,
                   delivered, again, answered, closed, quiet>>

\* wireguard_create_handshake_response and wireguard_start_session: the slots
\* with the session of the response in them, under a new ephemeral key
Responded(k, h, e, m) ==
    {AddNewKeypair(k, NewKeypair(FALSE, e, i, m)) : i \in FreshIndices(k, h)}

\* MESSAGE_HANDSHAKE_INITIATION: accepted, the peer is answered and a session
\* waits in the next slot, whether or not the response could be sent
RxInitiation(ts, a) ==
    /\ peer.valid
    /\ AcceptsInitiation(peer, ts, Now)
    /\ fresh < MaxEph
    /\ fresh' = fresh + 1
    /\ keys' \in Responded(keys, hs, fresh + 1, Now)
    /\ hs' = NoHandshake
    /\ peer' = [peer EXCEPT !.last_initiation_rx = Now, !.greatest_timestamp = ts, !.ip = a]
    /\ \E room \in Results("pbuf_alloc") :
          offered' = IF room THEN offered \cup {fresh + 1} ELSE offered
    /\ answered' = answered \cup {ts}
    /\ quiet' = 0
    /\ UNCHANGED <<linkUp, time, due, sealed, confirmed, promoted, delivered,
                   again, closed>>

\* MESSAGE_HANDSHAKE_RESPONSE to the pending initiation: the session becomes
\* current at once and a keepalive confirms it to the other end
RxResponse(e, a) ==
    LET p == [peer EXCEPT !.ip = a]
        k == AddNewKeypair(keys, NewKeypair(TRUE, e, hs.local_index, Now))
    IN
    /\ peer.valid
    /\ e \in offered
    /\ hs.valid /\ hs.key = e
    /\ \E out \in OutputToPeer(k, p, Now) :
          /\ keys' = out.keys
          /\ peer' = out.peer
          /\ sealed' = sealed \cup out.nonce
    /\ hs' = NoHandshake
    /\ linkUp' = TRUE
    /\ confirmed' = confirmed \cup {e}
    /\ UNCHANGED <<time, due, fresh, offered, promoted, delivered, again,
                   answered, closed, quiet>>

\* MESSAGE_COOKIE_REPLY to the initiation whose mac1 was last recorded.  The
\* cookie itself only fills the mac2 field of later handshake messages.
RxCookie(e, a) ==
    /\ peer.valid
    /\ e \in offered
    /\ hs.valid /\ hs.key = e /\ peer.mac1 = e
    /\ peer' = [peer EXCEPT !.mac1 = 0, !.ip = a]
    /\ UNCHANGED <<keys, hs, linkUp, time, due, history>>

\* A packet with counter c sealed under the key of session e, found authentic
\* in slot s.  keypair_update may destroy the slot the handler still points
\* to; the rekey and replay checks then read and write the zeroed slot.
Authentic(s, e, c, a) ==
    LET heard   == [keys EXCEPT ![s].last_rx = Now]
        shifted == KeypairUpdate(heard, s)
        rekey   == /\ shifted[s].initiator
                   /\ Expired(shifted[s].keypair_millis,
                              RejectAfterTime - KeepaliveInterval - RekeyTimeout, Now)
        passed  == Payload[c] # "keepalive" /\ Accepts(shifted[s].replay, c)
    IN
    /\ peer' = [peer EXCEPT !.ip = a, !.send_handshake = @ \/ rekey]
    /\ linkUp' = TRUE
    /\ keys' = IF Payload[c] = "keepalive" THEN shifted
               ELSE [shifted EXCEPT ![s].replay = CheckReplay(@, c)]
    /\ confirmed' = confirmed \cup {e}
    /\ promoted' = IF s = "next" THEN promoted \cup {<<e, c>>} ELSE promoted
    /\ LET up == IF passed /\ Payload[c] = "packet" THEN {<<e, c>>} ELSE {} IN
          /\ delivered' = delivered \cup up
          /\ again' = again \cup (up \cap delivered)

\* MESSAGE_TRANSPORT_DATA with receiver index i, sealed under session e; e is 0
\* when no key opens it.  A packet for a stale keypair destroys it, and only
\* then is it looked at.
RxData(i, e, c, a) ==
    /\ peer.valid
    /\ \E s \in KeypairForIdx(keys, i) :
          \/ /\ Stale(keys[s], Now)
             /\ keys' = [keys EXCEPT ![s] = NoKeypair]
             /\ UNCHANGED <<peer, linkUp, confirmed, promoted, delivered, again>>
          \/ /\ ~Stale(keys[s], Now)
             /\ e = keys[s].key /\ e \in offered
             /\ Authentic(s, e, c, a)
    /\ UNCHANGED <<hs, time, due, fresh, offered, sealed, answered, closed, quiet>>

-----------------------------------------------------------------------------
(* The timer *)

\* wireguard_create_handshake_initiation: the handshake that becomes pending
Initiation(k, h, e) ==
    {[valid |-> TRUE, key |-> e, local_index |-> i] : i \in FreshIndices(k, h)}

\* wireguard_start_handshake: the pending handshake is replaced first; without
\* a pbuf nothing is sent and the peer is left as it was
Initiated(k, h, p, m) ==
    LET e == fresh + 1 IN
    {[hs     |-> pending,
      peer   |-> IF room THEN [p EXCEPT !.send_handshake = FALSE,
                                        !.last_initiation_tx = m, !.mac1 = e]
                         ELSE p,
      drawn  |-> 1,
      offers |-> IF room THEN {e} ELSE {}] :
        pending \in Initiation(k, h, e), room \in Results("pbuf_alloc")}

\* wireguardif_tmr: give the peer up, drop the current keypair, keep alive,
\* initiate, report the link; in this order, each step on what the last left
Timer ==
    LET m     == Now
        reset == ShouldReset(keys, m)
        k1    == IF reset THEN NoKeys ELSE keys
        h1    == IF reset THEN NoHandshake ELSE hs
        p1    == IF reset THEN [peer EXCEPT !.ip = peer.connect_ip] ELSE peer
        k2    == IF ShouldDestroyCurrent(k1, m) THEN [k1 EXCEPT !["curr"] = NoKeypair] ELSE k1
        alive == IF ShouldSendKeepalive(k2, p1, m) THEN OutputToPeer(k2, p1, m)
                                                   ELSE {Unsent(k2, p1)}
    IN
    /\ peer.valid
    /\ \E out \in alive :
          /\ \A n \in out.nonce : n[2] <= MaxAlive
          /\ LET initiate == ShouldSendInitiation(out.keys, out.peer, m) IN
             /\ initiate => fresh < MaxEph
             /\ \E ini \in IF initiate THEN Initiated(out.keys, h1, out.peer, m)
                           ELSE {[hs |-> h1, peer |-> out.peer, drawn |-> 0, offers |-> {}]} :
                   /\ hs' = ini.hs
                   /\ peer' = ini.peer
                   /\ fresh' = fresh + ini.drawn
                   /\ offered' = offered \cup ini.offers
          /\ keys' = out.keys
          /\ sealed' = sealed \cup out.nonce
          /\ linkUp' = (linkUp /\ PeerIsUp(out.keys))
    /\ due' = 0
    /\ UNCHANGED <<time, confirmed, promoted, delivered, again, answered, closed, quiet>>

\* without a peer the timer only reports the link
TimerNoPeer ==
    /\ ~peer.valid
    /\ linkUp' = FALSE
    /\ due' = 0
    /\ UNCHANGED <<keys, hs, peer, time, history>>

\* time passes, but never so much that the timer is overdue
Tick ==
    /\ time < MaxTime
    /\ due < MaxTimerLag
    /\ time' = time + 1
    /\ due' = due + 1
    /\ UNCHANGED <<keys, hs, peer, linkUp, history>>

-----------------------------------------------------------------------------
(* The wireguardif API *)

LiveSessions == {keys[s].key : s \in {t \in Slots : keys[t].valid}}

DisconnectKeepsPrev ==      \* a mutated form of Disconnect, for the checks
    /\ "disconnect" \in Calls
    /\ peer.valid
    /\ peer' = [peer EXCEPT !.active = FALSE]
    /\ keys' = [NoKeys EXCEPT !["prev"] = keys["prev"]]
    /\ closed' = closed \cup LiveSessions
    /\ quiet' = fresh + 1
    /\ UNCHANGED <<hs, linkUp, time, due, fresh, offered, sealed, confirmed,
                   promoted, delivered, again, answered>>

Connect ==
    /\ "connect" \in Calls
    /\ peer.valid
    /\ peer.connect_ip # AnyAddr
    /\ peer' = [peer EXCEPT !.active = TRUE, !.ip = peer.connect_ip]
    /\ quiet' = 0
    /\ UNCHANGED <<keys, hs, linkUp, time, due, fresh, offered, sealed, confirmed,
                   promoted, delivered, again, answered, closed>>

Disconnect ==
    /\ "disconnect" \in Calls
    /\ peer.valid
    /\ peer' = [peer EXCEPT !.active = FALSE]
    /\ keys' = NoKeys
    /\ closed' = closed \cup LiveSessions
    /\ quiet' = fresh + 1
    /\ UNCHANGED <<hs, linkUp, time, due, fresh, offered, sealed, confirmed,
                   promoted, delivered, again, answered>>

RemovePeer ==
    /\ "remove_peer" \in Calls
    /\ peer.valid
    /\ peer' = NoPeer
    /\ keys' = NoKeys
    /\ hs' = NoHandshake
    /\ closed' = closed \cup LiveSessions
    /\ answered' = {}
    /\ quiet' = 0
    /\ UNCHANGED <<linkUp, time, due, fresh, offered, sealed, confirmed,
                   promoted, delivered, again>>

\* the peer's slot is free; a peer that is already registered is left alone
AddPeer(a) ==
    /\ "add_peer" \in Calls
    /\ ~peer.valid
    /\ peer' = NewPeer(a)
    /\ UNCHANGED <<keys, hs, linkUp, time, due, history>>

UpdateEndpoint(a) ==
    /\ "update_endpoint" \in Calls
    /\ peer.valid
    /\ peer' = [peer EXCEPT !.connect_ip = a]
    /\ UNCHANGED <<keys, hs, linkUp, time, due, history>>

-----------------------------------------------------------------------------

Receive ==
    \E a \in Address :
        \/ \E ts \in 1 .. MaxTs : RxInitiation(ts, a)
        \/ \E e \in 1 .. fresh : RxResponse(e, a) \/ RxCookie(e, a)
        \/ \E i \in LocalIndex, e \in 0 .. fresh, c \in 0 .. MaxRxCtr : RxData(i, e, c, a)

Application ==
    \/ Output
    \/ Connect \/ Disconnect \/ RemovePeer
    \/ \E a \in Address \cup {AnyAddr} : AddPeer(a) \/ UpdateEndpoint(a)

Next == Receive \/ Application \/ Timer \/ TimerNoPeer \/ Tick

Spec == Init /\ [][Next]_vars

-----------------------------------------------------------------------------
(* Properties *)

\* No packet is ever sealed under a key and counter that sealed one before,
\* whatever keypair_update and add_new_keypair copied between the slots: the
\* nonce the next packet would use, in any slot, is unused.
NonceFresh ==
    \A s \in Slots :
        keys[s].valid => <<keys[s].key, keys[s].sending_counter>> \notin sealed

\* Nothing is sent on a session before the other end is known to hold its key:
\* it answered our initiation, or a packet of its own has been authenticated.
SealsOnlyConfirmed == \A n \in sealed : n[1] \in confirmed

\* Traffic goes out on the newest session both ends hold: no slot keeps a
\* confirmed session younger than the one wireguardif_output_to_peer picks.
SendsOnNewest ==
    LET out == keys[SendingSlot(keys)] IN
    CanSend(out) =>
        \A s \in Slots : keys[s].valid /\ keys[s].key \in confirmed => keys[s].key <= out.key

\* A receiver index means one session: two live keypairs never share one, nor
\* does a live keypair share the index of the pending handshake, which will
\* become a keypair's.
IndexUnique ==
    /\ \A s, t \in Slots :
          (keys[s].valid /\ keys[t].valid /\ keys[s].local_index = keys[t].local_index) => s = t
    /\ hs.valid => \A s \in Slots : keys[s].valid => keys[s].local_index # hs.local_index

\* A previous and a next session never coexist, so at most two sessions are
\* live and the older of two is the one a third replaces.
PrevExcludesNext == ~(keys["prev"].valid /\ keys["next"].valid)

\* The only packet that can reach the application twice is the one that made
\* its session current (the handler marks it in the slot it has just wiped).
OnlyPromotingTwice == again \subseteq promoted

\* No packet reaches the application twice: wireguardif.c:318, "Check for
\* packet replay / dupes".
DeliveredOnce == again = {}

\* An initiation that was accepted is never accepted again from this peer.
InitiationOnce == \A ts \in answered : ~AcceptsInitiation(peer, ts, Now)

\* While the peer has a session the link is reported up, although the slots
\* and the flag change in different handlers.
SessionImpliesLink == keys["curr"].valid \/ keys["prev"].valid => linkUp

\* The timer takes an outdated current keypair away: none survives its
\* lifetime by more than one timer period.
CurrentWithinLifetime ==
    keys["curr"].valid =>
        (Now - keys["curr"].keypair_millis) % ClockMod < RejectAfterTime + MaxTimerLag

\* A tunnel that can carry packets goes on carrying them: whatever handshake
\* or packet comes next, a new session takes over only when it can be sent on,
\* and the old one is not dropped before.  It ends with its lifetime or its
\* last packet, or when the application ends it.
SendingKept ==
    [][ CanSend(keys[SendingSlot(keys)]) /\ ~CanSend(keys'[SendingSlot(keys')])
            => Stale(keys[SendingSlot(keys)], Now) \/ keys' = NoKeys ]_vars

\* What disconnect or remove_peer ended never comes back.
ClosedStaysClosed == LiveSessions \cap closed = {}

-----------------------------------------------------------------------------
(* What the documentation says and the code does not do *)

\* wireguardif.h:131, wireguardif_disconnect: "Stop trying to connect to the
\* given peer": no handshake is begun until the next connect.
StopsTrying == quiet > 0 => ~(hs.valid /\ hs.key >= quiet)

\* wireguardif.h:134, wireguardif_peer_is_up: "A peer is up if it has a valid
\* session key it can communicate with": an up peer has a key to send under.
PeerUpCanCommunicate == PeerIsUp(keys) => CanSend(keys[SendingSlot(keys)])

\* TESTING_GUIDE.md:403, with the server down "netif_is_link_up() becomes
\* false": the sessions that hold the link up are not all past their lifetime
\* by more than two timer periods (one to destroy the session, one to notice).
LinkFollowsSession ==
    linkUp /\ PeerIsUp(keys) =>
        \E s \in {"curr", "prev"} :
            /\ keys[s].valid
            /\ (Now - keys[s].keypair_millis) % ClockMod < RejectAfterTime + 2 * MaxTimerLag

\* wireguardif.c:864: "Nothing back for too long - we should wipe out all
\* crypto state": no keypair outlives three times its lifetime.
WipedAfterSilence ==
    \A s \in Slots :
        keys[s].valid =>
            (Now - keys[s].keypair_millis) % ClockMod < 3 * RejectAfterTime + MaxTimerLag

\* MAX_INITIATIONS_PER_SECOND: an initiation that follows the last accepted
\* one too closely is refused.
RateLimited ==
    (answered # {} /\ (Now - peer.last_initiation_rx) % ClockMod < InitiationGap)
        => \A ts \in 1 .. MaxTs : ~AcceptsInitiation(peer, ts, Now)
=============================================================================
