-------------------------------- MODULE Tunnel --------------------------------
(***************************************************************************)
(* Two interfaces of this library, one at each end of a tunnel, over a     *)
(* network that loses and delays what they send.  Every step is a handler  *)
(* run to its end at one of the two: a datagram coming in, or the timer,   *)
(* whose keepalives are all the traffic there is.                          *)
(*                                                                         *)
(* The model goes on for ever in finitely many states, so that liveness    *)
(* can be checked.  The clock stands at Now, and a tick makes everything   *)
(* else older: a timestamp moves back, until nothing in the code tells it  *)
(* from an older one.  A session is named by a number, the same at both    *)
(* ends, greater than those of all older sessions still remembered; a tick *)
(* renumbers them from 1.                                                  *)
(*                                                                         *)
(* A session's number stands for the timestamp of its initiation, too: an  *)
(* initiation named later carries a greater one, after a restart as well.  *)
(* That assumes of the clock what wireguard-platform.c:60-62 asks of it,   *)
(* "synced by NTP, or at least preserved in NVS, not to go back after      *)
(* reset": otherwise the other end refuses the initiations of an end that  *)
(* has restarted.  begin only makes sure (WireGuard.cpp:47) that the clock *)
(* has been set, to no date before the end of 2023.                        *)
(*                                                                         *)
(* Replayed packets, roaming, limits on the number of packets, failures of *)
(* lwIP and the API calls are Device's subject.                            *)
(***************************************************************************)
EXTENDS PeerState, FiniteSets

CONSTANTS
    A, B,           \* the two ends
    MaxTimerLag     \* the timer runs at least once in this many ticks

Ends == {A, B}
Other(d) == IF d = A THEN B ELSE A
Session == LocalIndex
Now == ClockMod - 2

ASSUME TunnelAssumption ==
    /\ A # B
    /\ MaxTimerLag \in Nat \ {0}
    /\ IsFiniteSet(Session) /\ Session = 1 .. Cardinality(Session) /\ {1, 2} \subseteq Session
    /\ NoIndex = 0
    /\ 3 * RejectAfterTime < Now

VARIABLES
    keys, hs, peer,     \* as in Device, at each end
    due,                \* ticks since the timer of each end last ran
    net                 \* messages under way

vars == <<keys, hs, peer, due, net>>

Message == [type : {"init", "resp", "data"}, to : Ends, session : Session]

TypeOK ==
    /\ keys \in [Ends -> [Slots -> Keypair]]
    /\ hs \in [Ends -> Handshake]
    /\ peer \in [Ends -> Peer]
    /\ due \in [Ends -> 0 .. MaxTimerLag]
    /\ net \subseteq Message

\* begin: the other end is the peer, and is connected to if this end is active
Begun(active) == [NoPeer EXCEPT !.valid = TRUE, !.active = active]

Msg(type, to, e) == [type |-> type, to |-> to, session |-> e]

\* session 1 as an end has kept it since before the other end restarted
Kept(initiator, age) ==
    [NewKeypair(initiator, 1, 1, Now - age) EXCEPT !.last_rx = IF initiator THEN 0 ELSE Now]

\* ... or it has none
Remembered == {NoKeypair} \cup {Kept(i, age) : i \in BOOLEAN, age \in 0 .. RejectAfterTime}

\* Both ends have begun, A's application calls connect and B's may.  One of the
\* two may have restarted a moment ago, while the other still has its session, and
\* as its responder the timestamp of its initiation.  The one that has restarted
\* has forgotten such timestamps: an old initiation may be under way to it.
Init ==
    /\ \E d \in Ends, k \in Remembered, both \in BOOLEAN :
          /\ keys = [e \in Ends |-> IF e = d THEN [NoKeys EXCEPT !["curr"] = k] ELSE NoKeys]
          /\ peer = [e \in Ends |->
                        [Begun(e = A \/ both) EXCEPT
                           !.greatest_timestamp = IF e = d /\ k.valid /\ ~k.initiator THEN 1 ELSE 0]]
          /\ net \in {{}, {Msg("init", Other(d), 2)}}
    /\ hs = [d \in Ends |-> NoHandshake]
    /\ due = [d \in Ends |-> 0]

-----------------------------------------------------------------------------
(* The network: in either direction it holds one message of each type, the *)
(* last one sent.                                                          *)

With(n, m) == {x \in n : x.type # m.type \/ x.to # m.to} \cup {m}

\* what a call of wireguardif_output_to_peer at d puts there
WithPackets(n, d, out) ==
    IF out.nonce = {} THEN n
    ELSE With(n, Msg("data", Other(d), (CHOOSE nonce \in out.nonce : TRUE)[1]))

-----------------------------------------------------------------------------
(* The two ends *)

\* packets are not counted, and of last_rx it only matters whether it is 0
Uncounted(k) == [s \in Slots |-> [k[s] EXCEPT !.sending_counter = 0]]

\* An initiation newer than the one accepted last is answered, and a session waits
\* in the next slot; any other is refused and changes nothing.  The network may
\* deliver it again.  The rate limit, which refuses what comes in the same
\* millisecond, is left out.
RxInitiation(d, m) ==
    /\ m \in net /\ m.type = "init" /\ m.to = d
    /\ m.session > peer[d].greatest_timestamp
    /\ LET new == NewKeypair(FALSE, m.session, m.session, Now) IN
       keys' = [keys EXCEPT ![d] = AddNewKeypair(@, new)]
    /\ hs' = [hs EXCEPT ![d] = NoHandshake]
    /\ peer' = [peer EXCEPT ![d].greatest_timestamp = m.session]
    /\ net' = With(net, Msg("resp", Other(d), m.session))
    /\ UNCHANGED <<due>>

\* d waits for the answer to m
Awaits(d, m) == hs[d].valid /\ hs[d].key = m.session

\* the response d waits for: the session becomes current and a keepalive confirms
\* it.  Any other is dropped.
RxResponse(d, m) ==
    /\ m \in net /\ m.type = "resp" /\ m.to = d
    /\ \/ /\ Awaits(d, m)
          /\ LET new == NewKeypair(TRUE, m.session, hs[d].local_index, Now) IN
             \E out \in OutputToPeer(AddNewKeypair(keys[d], new), peer[d], Now) :
                /\ keys' = [keys EXCEPT ![d] = Uncounted(out.keys)]
                /\ peer' = [peer EXCEPT ![d] = out.peer]
                /\ net' = WithPackets(net \ {m}, d, out)
          /\ hs' = [hs EXCEPT ![d] = NoHandshake]
       \/ /\ ~Awaits(d, m)
          /\ net' = net \ {m}
          /\ UNCHANGED <<keys, hs, peer>>
    /\ UNCHANGED <<due>>

\* a packet on a session in slot s: refused with a stale keypair, which is
\* destroyed; or heard, and the next keypair becomes the current one
RxData(d, s, m) ==
    /\ m \in net /\ m.type = "data" /\ m.to = d
    /\ s \in KeypairForIdx(keys[d], m.session)
    /\ net' = net \ {m}
    /\ LET stale   == Stale(keys[d][s], Now)
           shifted == KeypairUpdate([keys[d] EXCEPT ![s].last_rx = Now], s)
           rekey   == /\ ~stale
                      /\ shifted[s].initiator
                      /\ Expired(shifted[s].keypair_millis,
                                 RejectAfterTime - KeepaliveInterval - RekeyTimeout, Now)
       IN
       /\ keys' = [keys EXCEPT ![d] = IF stale THEN [@ EXCEPT ![s] = NoKeypair] ELSE shifted]
       /\ peer' = [peer EXCEPT ![d].send_handshake = @ \/ rekey]
    /\ UNCHANGED <<hs, due>>

\* the sessions somebody holds, awaits, has accepted last or has written on a
\* message, and 0
InUse ==
    {0} \cup {keys[d][s].key : d \in Ends, s \in Slots}
    \cup {hs[d].key : d \in Ends} \cup {m.session : m \in net}
    \cup {peer[d].greatest_timestamp : d \in Ends}

\* what a new session may be called: one number, as Session is a bound never reached
NewSessions == {e \in Session : \E n \in InUse : e = n + 1 /\ \A u \in InUse : u <= n}

\* wireguardif_tmr, in the order of its steps
Timer(d) ==
    LET reset == ShouldReset(keys[d], Now)
        k1    == IF reset THEN NoKeys ELSE keys[d]
        h1    == IF reset THEN NoHandshake ELSE hs[d]
        k2    == IF ShouldDestroyCurrent(k1, Now) THEN [k1 EXCEPT !["curr"] = NoKeypair] ELSE k1
        alive == IF ShouldSendKeepalive(k2, peer[d], Now) THEN OutputToPeer(k2, peer[d], Now)
                                                          ELSE {Unsent(k2, peer[d])}
    IN
    /\ \E out \in alive :
          /\ keys' = [keys EXCEPT ![d] = Uncounted(out.keys)]
          /\ IF ShouldSendInitiation(out.keys, out.peer, Now)
             THEN \E e \in NewSessions :
                  /\ hs' = [hs EXCEPT ![d] = [valid |-> TRUE, key |-> e, local_index |-> e]]
                  /\ peer' = [peer EXCEPT ![d] = [out.peer EXCEPT !.send_handshake = FALSE,
                                                                 !.last_initiation_tx = Now]]
                  /\ net' = With(WithPackets(net, d, out), Msg("init", Other(d), e))
             ELSE /\ hs' = [hs EXCEPT ![d] = h1]
                  /\ peer' = [peer EXCEPT ![d] = out.peer]
                  /\ net' = WithPackets(net, d, out)
    /\ due' = [due EXCEPT ![d] = 0]

-----------------------------------------------------------------------------
(* The clock *)

\* a moment a tick later; the code tells no age above `limit' from it
Aged(t, limit) == IF t = 0 THEN 0
                  ELSE IF t - 1 < Now - limit THEN Now - limit ELSE t - 1

\* the rank of a session among those in use, 0 being none
Rank(e) == Cardinality({n \in InUse : n < e})

AgedKeypair(kp, limit) ==
    [kp EXCEPT !.key = Rank(@), !.local_index = Rank(@), !.keypair_millis = Aged(@, limit)]

\* the current keypair is asked whether it is three lifetimes old, the others
\* whether they are one
AgedKeys(k) ==
    [s \in Slots |-> AgedKeypair(k[s], IF s = "curr" THEN 3 * RejectAfterTime ELSE RejectAfterTime)]

\* An initiation sent so long ago that another may follow counts as none.  None that
\* is older than a tick is under way, so any timestamp to come is greater than 0 and
\* than the one forgotten.
AgedPeer(p) ==
    [p EXCEPT !.greatest_timestamp = 0, !.last_tx = Aged(@, KeepaliveInterval),
              !.last_initiation_tx = IF Expired(@, RekeyTimeout, Now + 1) THEN 0 ELSE @ - 1]

\* A tick.  What is still under way is lost: the network delays a message by
\* less than a tick, which is REKEY_TIMEOUT.
Tick ==
    /\ \A d \in Ends : due[d] < MaxTimerLag
    /\ due' = [d \in Ends |-> due[d] + 1]
    /\ keys' = [d \in Ends |-> AgedKeys(keys[d])]
    /\ hs' = [d \in Ends |-> [hs[d] EXCEPT !.key = Rank(@), !.local_index = Rank(@)]]
    /\ peer' = [d \in Ends |-> AgedPeer(peer[d])]
    /\ net' = {}

-----------------------------------------------------------------------------

Next ==
    \/ \E d \in Ends : Timer(d)
    \/ \E d \in Ends, m \in net :
          RxInitiation(d, m) \/ RxResponse(d, m) \/ \E s \in Slots : RxData(d, s, m)
    \/ Tick

\* an initiation that d would accept is under way to it
Coming(d) == \E m \in net : /\ m.type = "init" /\ m.to = d
                             /\ m.session > peer[d].greatest_timestamp

\* The clock goes on and the timers run.  The network may lose any message, but not
\* every message of a kind that is sent again and again.  Nothing is asked for a
\* response that the code drops, nor for one that an initiation under way may
\* overtake, on whose arrival the code drops it (RxInitiation wipes the handshake).
Fairness ==
    /\ WF_vars(Tick)
    /\ \A d \in Ends :
          /\ WF_vars(Timer(d))
          /\ SF_vars(\E m \in net : RxInitiation(d, m))
          /\ SF_vars(\E m \in net : ~Coming(d) /\ Awaits(d, m) /\ RxResponse(d, m))
          /\ SF_vars(\E m \in net : RxData(d, "next", m))

Spec == Init /\ [][Next]_vars /\ Fairness

-----------------------------------------------------------------------------
(* Properties *)

\* A session that both ends hold has one initiator, which may send on it at once
\* and is the one to replace it in time, however their handshakes have crossed.
OneInitiator ==
    \A s, t \in Slots :
        keys[A][s].valid /\ keys[B][t].valid /\ keys[A][s].key = keys[B][t].key
            => keys[A][s].initiator # keys[B][t].initiator

\* both ends may send, and do so on the same session
Shared ==
    LET a == keys[A][SendingSlot(keys[A])]
        b == keys[B][SendingSlot(keys[B])]
    IN  CanSend(a) /\ CanSend(b) /\ a.key = b.key

\* both ends may send, and do so again and again on the same session
AlwaysOpens == []<>Shared

\* The initiations of two active ends cross, each under way to the other.
Crossing == \A d \in Ends : peer[d].active /\ Coming(d)

\* an initiation is accepted while its sender waits for the answer and has no
\* initiation to accept in the meantime
Alone == \E d \in Ends, m \in net :
            RxInitiation(d, m) /\ Awaits(Other(d), m) /\ ~Coming(Other(d))

\* The ends retry in step, for ever: their initiations cross again and again, and
\* from some moment on none arrives that has not been crossed.
LockStep == []<>Crossing /\ <>[][~Alone]_vars

\* Whatever is lost, whoever initiates, and although each handshake replaces what
\* the last one has left: the ends come to share a session again and again, unless
\* both are active and they retry in step for ever.  A session that one end has lost
\* in a restart, one that died at one end only, one that an old initiation has opened
\* at one end only (wireguard.c:630), and initiations that cross now and then, are
\* states to get out of.  The exception is the code's: retries come at a fixed interval, without
\* jitter, and wireguard.c:632-637 puts the other end's handshake in the place of
\* one's own.  TLC refutes AlwaysOpens by such a behaviour.
TunnelOpens == AlwaysOpens \/ LockStep
=============================================================================
