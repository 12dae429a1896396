------------------------------ MODULE PeerState ------------------------------
(***************************************************************************)
(* The state one struct wireguard_peer keeps (wireguard.h:76-170) and the  *)
(* functions of wireguard.c and wireguardif.c that compute on it: three    *)
(* keypair slots, the pending handshake, and the flags and timestamps that *)
(* decide when to rekey, to keep alive and to give up.                     *)
(*                                                                         *)
(* Cryptography is symbolic.  Both halves of a keypair are named by `key', *)
(* the number of the ephemeral key this end drew for the handshake; a      *)
(* zeroed key is 0.  Fields the code only ever writes (last_tx of a        *)
(* keypair, last_rx of a peer) and the flags sending_valid and             *)
(* receiving_valid, always equal to valid, are left out.                   *)
(***************************************************************************)
EXTENDS ReplayWindow

CONSTANTS
    ClockMod,             \* sys_now() is a uint32_t: time is read mod ClockMod
    RekeyTimeout,         \* REKEY_TIMEOUT            (5 s)
    RekeyAfterTime,       \* REKEY_AFTER_TIME         (120 s)
    RejectAfterTime,      \* REJECT_AFTER_TIME        (180 s)
    KeepaliveInterval,    \* peer->keepalive_interval (10 s by default)
    InitiationGap,        \* 1000 / MAX_INITIATIONS_PER_SECOND
    RekeyAfterMessages,   \* REKEY_AFTER_MESSAGES
    RejectAfterMessages,  \* REJECT_AFTER_MESSAGES
    LocalIndex, NoIndex,  \* 32-bit session indices, and the 0 of a cleared field
    Address, AnyAddr,     \* endpoints of the peer, and 0.0.0.0
    Faults                \* which calls into lwIP may fail: "pbuf_alloc", "udp_sendto"

ASSUME PeerAssumption ==
    /\ ClockMod \in Nat \ {0}
    /\ {RekeyTimeout, RekeyAfterTime, RejectAfterTime, KeepaliveInterval,
        InitiationGap, RekeyAfterMessages, RejectAfterMessages} \subseteq Nat
    /\ NoIndex \notin LocalIndex
    /\ AnyAddr \notin Address
    /\ Faults \subseteq {"pbuf_alloc", "udp_sendto"}

Slots == {"curr", "prev", "next"}

Millis == 0 .. ClockMod - 1

Keypair == [valid : BOOLEAN, initiator : BOOLEAN, keypair_millis : Millis,
            key : Nat, sending_counter : Nat, last_rx : Millis,
            replay : Window, local_index : LocalIndex \cup {NoIndex}]

\* A handshake is pending only between an initiation and its response: the
\* responder's half begins and ends inside one handler.
Handshake == [valid : BOOLEAN, key : Nat, local_index : LocalIndex \cup {NoIndex}]

\* mac1 is 0 while handshake_mac1_valid is false.
Peer == [valid : BOOLEAN, active : BOOLEAN, send_handshake : BOOLEAN,
         ip : Address \cup {AnyAddr}, connect_ip : Address \cup {AnyAddr},
         last_initiation_tx : Millis, last_initiation_rx : Millis,
         greatest_timestamp : Nat, last_tx : Millis, mac1 : Nat]

\* keypair_destroy, handshake_destroy, and a peer wiped by crypto_zero
NoKeypair == [valid |-> FALSE, initiator |-> FALSE, keypair_millis |-> 0, key |-> 0,
              sending_counter |-> 0, last_rx |-> 0, replay |-> EmptyWindow,
              local_index |-> NoIndex]
NoKeys == [s \in Slots |-> NoKeypair]
NoHandshake == [valid |-> FALSE, key |-> 0, local_index |-> NoIndex]
NoPeer == [valid |-> FALSE, active |-> FALSE, send_handshake |-> FALSE,
           ip |-> AnyAddr, connect_ip |-> AnyAddr, last_initiation_tx |-> 0,
           last_initiation_rx |-> 0, greatest_timestamp |-> 0, last_tx |-> 0, mac1 |-> 0]

\* what a call into lwIP may report: TRUE for success
Results(call) == IF call \in Faults THEN BOOLEAN ELSE {TRUE}

\* wireguard_expired, m being wireguard_sys_now()
Expired(created, seconds, m) == (m - created) % ClockMod >= seconds % ClockMod

-----------------------------------------------------------------------------
(* Mutated forms of the definitions below, each a slip the code could make. *)

KeypairUpdateKeepsNext(k, s) ==
    IF s = "next" THEN [k EXCEPT !["prev"] = k["curr"], !["curr"] = k["next"]] ELSE k

KeypairUpdateNever(k, s) == k

AddNewKeypairKeepsPrev(k, new) ==
    IF new.initiator
    THEN [k EXCEPT !["prev"] = IF k["next"].valid THEN k["next"] ELSE k["curr"],
                   !["next"] = IF k["next"].valid THEN NoKeypair ELSE @,
                   !["curr"] = new]
    ELSE [k EXCEPT !["next"] = new]

AddNewKeypairWipesCurr(k, new) ==
    IF new.initiator
    THEN [k EXCEPT !["prev"] = IF k["next"].valid THEN k["next"] ELSE k["curr"],
                   !["next"] = IF k["next"].valid THEN NoKeypair ELSE @,
                   !["curr"] = new]
    ELSE [k EXCEPT !["next"] = new, !["curr"] = NoKeypair]

NewKeypairAsInitiator(initiator, e, index, m) ==
    [valid |-> TRUE, initiator |-> TRUE, keypair_millis |-> m, key |-> e,
     sending_counter |-> 0, last_rx |-> 0, replay |-> EmptyWindow, local_index |-> index]

FreshIndicesSkipPrev(k, h) ==
    LocalIndex \ {k["curr"].local_index, k["next"].local_index, h.local_index}

PeerIsUpSkipsPrev(k) == k["curr"].valid

StaleByCountOnly(kp, m) == kp.sending_counter >= RejectAfterMessages

AcceptsEqualTimestamp(p, ts, m) ==
    /\ ts >= p.greatest_timestamp
    /\ (p.last_initiation_rx - m) % ClockMod >= InitiationGap
-----------------------------------------------------------------------------
(* Keypair slots *)

\* keypair_update: data arrived on slot s; the first packet on the next
\* keypair makes it the current one
KeypairUpdate(k, s) ==
    IF s = "next"
    THEN [k EXCEPT !["prev"] = k["curr"], !["curr"] = k["next"], !["next"] = NoKeypair]
    ELSE k

\* add_new_keypair
AddNewKeypair(k, new) ==
    IF new.initiator
    THEN [k EXCEPT !["prev"] = IF k["next"].valid THEN k["next"] ELSE k["curr"],
                   !["next"] = IF k["next"].valid THEN NoKeypair ELSE @,
                   !["curr"] = new]
    ELSE [k EXCEPT !["next"] = new, !["prev"] = NoKeypair]

\* the keypair wireguard_start_session derives from a completed handshake
NewKeypair(initiator, e, index, m) ==
    [valid |-> TRUE, initiator |-> initiator, keypair_millis |-> m, key |-> e,
     sending_counter |-> 0, last_rx |-> 0, replay |-> EmptyWindow, local_index |-> index]

\* get_peer_keypair_for_idx: the slots a receiver index may mean, first match wins
HasIndex(k, s, i) == k[s].valid /\ k[s].local_index = i
KeypairForIdx(k, i) ==
    IF HasIndex(k, "curr", i) THEN {"curr"}
    ELSE IF HasIndex(k, "next", i) THEN {"next"}
    ELSE IF HasIndex(k, "prev", i) THEN {"prev"}
    ELSE {}

\* wireguard_generate_unique_index draws until none of these fields holds it
FreshIndices(k, h) == LocalIndex \ ({k[s].local_index : s \in Slots} \cup {h.local_index})

\* wireguardif_peer_is_up
PeerIsUp(k) == k["curr"].valid \/ k["prev"].valid

-----------------------------------------------------------------------------
(* wireguardif_output_to_peer *)

\* a responder may not send before it has received on the session
CanSend(kp) == kp.valid /\ (kp.initiator \/ kp.last_rx # 0)

SendingSlot(k) ==
    IF k["curr"].valid /\ ~k["curr"].initiator /\ k["curr"].last_rx = 0
    THEN "prev" ELSE "curr"

\* the session is too old, or has carried too many packets
Stale(kp, m) ==
    \/ Expired(kp.keypair_millis, RejectAfterTime, m)
    \/ kp.sending_counter >= RejectAfterMessages

\* asked after the packet has been counted
WantsRekey(kp, m) ==
    \/ kp.sending_counter + 1 >= RekeyAfterMessages
    \/ kp.initiator /\ Expired(kp.keypair_millis, RekeyAfterTime, m)

\* Every way a call may end: the slots and the peer it leaves, and the nonce
\* it sealed a packet under.  sent says whether udp_sendto_if returned ERR_OK.
Unsent(k, p) == [keys |-> k, peer |-> p, nonce |-> {}]

Sealed(k, s, p, m, sent) ==
    [keys  |-> [k EXCEPT ![s].sending_counter = @ + 1],
     peer  |-> [p EXCEPT !.last_tx = IF sent THEN m ELSE @,
                         !.send_handshake = @ \/ WantsRekey(k[s], m)],
     nonce |-> {<<k[s].key, k[s].sending_counter>>}]

OutputToPeer(k, p, m) ==
    LET s == SendingSlot(k) IN
    IF ~CanSend(k[s]) THEN {Unsent(k, p)}
    ELSE IF Stale(k[s], m) THEN {Unsent([k EXCEPT ![s] = NoKeypair], p)}
    ELSE {IF room THEN Sealed(k, s, p, m, sent) ELSE Unsent(k, p) :
             room \in Results("pbuf_alloc"), sent \in Results("udp_sendto")}

-----------------------------------------------------------------------------
(* Conditions of the periodic timer and of the handshake handlers *)

\* should_reset_peer
ShouldReset(k, m) == k["curr"].valid /\ Expired(k["curr"].keypair_millis, RejectAfterTime * 3, m)

\* should_destroy_current_keypair
ShouldDestroyCurrent(k, m) == k["curr"].valid /\ Stale(k["curr"], m)

\* should_send_keepalive
ShouldSendKeepalive(k, p, m) ==
    KeepaliveInterval > 0 /\ PeerIsUp(k) /\ Expired(p.last_tx, KeepaliveInterval, m)

\* wireguardif_can_send_initiation
CanSendInitiation(p, m) ==
    p.last_initiation_tx = 0 \/ Expired(p.last_initiation_tx, RekeyTimeout, m)

\* should_send_initiation
ShouldSendInitiation(k, p, m) ==
    /\ CanSendInitiation(p, m)
    /\ \/ p.send_handshake
       \/ /\ k["curr"].valid /\ ~k["curr"].initiator
          /\ Expired(k["curr"].keypair_millis, RejectAfterTime - KeepaliveInterval, m)
       \/ ~k["curr"].valid /\ p.active

\* the initiation is newer than any before it, and is not rate limited
\* (the subtraction is the code's: last_initiation_rx - now, in uint32_t)
AcceptsInitiation(p, ts, m) ==
    /\ ts > p.greatest_timestamp
    /\ (p.last_initiation_rx - m) % ClockMod >= InitiationGap
=============================================================================
