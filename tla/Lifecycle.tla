------------------------------ MODULE Lifecycle ------------------------------
(***************************************************************************)
(* Setting the interface up and taking it down: WireGuard::begin and       *)
(* WireGuard::end (WireGuard.cpp) with wireguardif_init, _add_peer,        *)
(* _connect and _shutdown.  They run in the application's task, one call   *)
(* at a time, while the periodic timer runs in the tcpip thread of lwIP;   *)
(* no lock keeps the two apart.                                            *)
(*                                                                         *)
(* What begin refuses before it calls netif_add (a missing parameter, no   *)
(* NTP time, no address for the endpoint, an interface already begun)      *)
(* changes nothing and is not an action.                                   *)
(***************************************************************************)
EXTENDS Naturals, FiniteSets

CONSTANTS
    Device,     \* the devices wireguardif_init may allocate, each used once
    NoDevice    \* a NULL netif->state

ASSUME LifecycleAssumption == NoDevice \notin Device

VARIABLES
    pc,             \* where the application's task is
    initialized,    \* this->_is_initialized
    wgNetif,        \* wg_netif # nullptr
    peerIndex,      \* wireguard_peer_index # WIREGUARDIF_INVALID_INDEX
    previous,       \* previous_default_netif
    seeded,         \* is_platform_initialized
    listed,         \* lwIP: the netif is on netif_list
    state,          \* netif->state
    default,        \* lwIP: netif_default
    live,           \* devices allocated and not freed
    bound,          \* devices whose UDP socket is bound to a listen port
    armed,          \* devices with a wireguardif_tmr on lwIP's list of timeouts
    tmr,            \* the call of wireguardif_tmr the tcpip thread is in
    peerValid,      \* the peer of the current device is valid
    \* history
    used,           \* devices ever allocated
    unseeded,       \* random bytes were drawn before the generator was seeded
    failed,         \* devices of a begin that could not add its peer
    before          \* netif_default when begin was called

app == <<pc, initialized, wgNetif, peerIndex, previous, seeded>>
lwip == <<listed, state, default, live, bound, armed, tmr, peerValid>>
history == <<used, unseeded, failed, before>>
vars == <<app, lwip, history>>

Netifs == {"wifi", "wg", "none"}
Steps == {"idle", "added", "seeded", "peered", "removed", "untimed", "unbound",
          "freed", "unlisted"}

\* between the removal of the timeout from lwIP's list and the end of the call
Waiting == [dev |-> NoDevice, phase |-> "waiting"]
Timers == {Waiting} \cup [dev : Device, phase : {"called", "rearmed"}]

TypeOK ==
    /\ pc \in Steps
    /\ {initialized, wgNetif, peerIndex, seeded, listed, peerValid, unseeded} \subseteq BOOLEAN
    /\ {previous, default, before} \subseteq Netifs
    /\ state \in Device \cup {NoDevice}
    /\ {live, bound, armed, used, failed} \subseteq SUBSET Device
    /\ tmr \in Timers

Init ==
    /\ pc = "idle"
    /\ initialized = FALSE /\ wgNetif = FALSE /\ peerIndex = FALSE
    /\ previous = "none" /\ seeded = FALSE
    /\ listed = FALSE /\ state = NoDevice
    /\ default \in {"wifi", "none"}
    /\ live = {} /\ bound = {} /\ armed = {}
    /\ tmr = Waiting /\ peerValid = FALSE
    /\ used = {} /\ unseeded = FALSE /\ failed = {} /\ before = default

-----------------------------------------------------------------------------
(* Mutated forms of actions below, each a slip the code could make. *)

NetifAddAgain ==            \* begin without the test of _is_initialized
    /\ pc = "idle"
    /\ wgNetif' = FALSE /\ state' = NoDevice
    /\ UNCHANGED <<pc, initialized, peerIndex, previous, seeded, listed, default,
                   live, bound, armed, tmr, peerValid, history>>

RouteThenSave ==            \* the default interface saved after it was replaced
    /\ pc = "peered"
    /\ default' = "wg" /\ previous' = "wg"
    /\ initialized' = TRUE
    /\ pc' = "idle"
    /\ UNCHANGED <<wgNetif, peerIndex, seeded, listed, state, live, bound, armed,
                   tmr, peerValid, history>>

RouteToDevice ==            \* the netif's state taken for the netif
    /\ pc = "peered"
    /\ previous' = default
    /\ default' = state
    /\ initialized' = TRUE
    /\ pc' = "idle"
    /\ UNCHANGED <<wgNetif, peerIndex, seeded, listed, state, live, bound, armed,
                   tmr, peerValid, history>>

UdpDisconnectOnly ==        \* a shutdown that leaves the socket to lwIP
    /\ pc = "untimed"
    /\ pc' = "unbound"
    /\ UNCHANGED <<initialized, wgNetif, peerIndex, previous, seeded, lwip, history>>

-----------------------------------------------------------------------------
(* WireGuard::begin *)

\* netif_add calls wireguardif_init, which succeeds: socket, device, timer.  The
\* listen port is the caller's, one to which no other device's socket is bound.
\* The device's cookie secret is drawn from the random generator.
NetifAdd(d) ==
    /\ pc = "idle" /\ ~initialized
    /\ d \notin used
    /\ pc' = "added"
    /\ wgNetif' = TRUE /\ listed' = TRUE /\ state' = d
    /\ live' = live \cup {d} /\ bound' = bound \cup {d} /\ armed' = armed \cup {d}
    /\ peerValid' = FALSE
    /\ used' = used \cup {d}
    /\ unseeded' = (unseeded \/ ~seeded)
    /\ before' = default
    /\ UNCHANGED <<initialized, peerIndex, previous, seeded, default, tmr, failed>>

\* wireguardif_init fails: a bad private key, no socket, the port in use, no
\* memory.  It undoes what it did, and netif_add returns NULL.
NetifAddFails ==
    /\ pc = "idle" /\ ~initialized
    /\ wgNetif' = FALSE /\ state' = NoDevice
    /\ UNCHANGED <<pc, initialized, peerIndex, previous, seeded, listed, default,
                   live, bound, armed, tmr, peerValid, history>>

\* wireguard_platform_init: the generator is seeded, once
PlatformInit ==
    /\ pc = "added"
    /\ seeded' = TRUE
    /\ pc' = "seeded"
    /\ UNCHANGED <<initialized, wgNetif, peerIndex, previous, lwip, history>>

\* wireguardif_add_peer finds the one slot free.  When wireguard_peer_init fails
\* it returns ERR_ARG but still hands out the slot's index, and begin looks at
\* the index only.
AddPeer(ok) ==
    /\ pc = "seeded"
    /\ peerIndex' = TRUE
    /\ peerValid' = ok
    /\ pc' = "peered"
    /\ UNCHANGED <<initialized, wgNetif, previous, seeded, listed, state, default,
                   live, bound, armed, tmr, history>>

\* The public key does not decode: begin takes the netif off the list and
\* returns; the device, its socket and its timer stay.
AddPeerFails ==
    /\ pc = "seeded"
    /\ peerIndex' = FALSE
    /\ listed' = FALSE /\ wgNetif' = FALSE
    /\ failed' = failed \cup {state}
    /\ pc' = "idle"
    /\ UNCHANGED <<initialized, previous, seeded, state, default, live, bound, armed,
                   tmr, peerValid, used, unseeded, before>>

\* wireguardif_connect, then the default interface is saved and replaced
Route ==
    /\ pc = "peered"
    /\ previous' = default
    /\ default' = "wg"
    /\ initialized' = TRUE
    /\ pc' = "idle"
    /\ UNCHANGED <<wgNetif, peerIndex, seeded, listed, state, live, bound, armed,
                   tmr, peerValid, history>>

\* the endpoint is 0.0.0.0: added, not connected
NoRoute ==
    /\ pc = "peered"
    /\ initialized' = TRUE
    /\ pc' = "idle"
    /\ UNCHANGED <<wgNetif, peerIndex, previous, seeded, lwip, history>>

-----------------------------------------------------------------------------
(* WireGuard::end *)

\* wireguardif_disconnect and wireguardif_remove_peer
RemovePeer ==
    /\ pc = "idle" /\ initialized
    /\ peerValid' = FALSE
    /\ peerIndex' = FALSE
    /\ pc' = "removed"
    /\ UNCHANGED <<initialized, wgNetif, previous, seeded, listed, state, default,
                   live, bound, armed, tmr, history>>

\* wireguardif_shutdown: sys_untimeout takes the timer off the list, if it is
\* on the list, ...
Untimeout ==
    /\ pc = "removed"
    /\ armed' = armed \ {state}
    /\ pc' = "untimed"
    /\ UNCHANGED <<initialized, wgNetif, peerIndex, previous, seeded, listed, state,
                   default, live, bound, tmr, peerValid, history>>

\* ... udp_remove closes the socket, ...
UdpRemove ==
    /\ pc = "untimed"
    /\ bound' = bound \ {state}
    /\ pc' = "unbound"
    /\ UNCHANGED <<initialized, wgNetif, peerIndex, previous, seeded, listed, state,
                   default, live, armed, tmr, peerValid, history>>

\* ... and the device is freed
Free ==
    /\ pc = "unbound"
    /\ live' = live \ {state}
    /\ state' = NoDevice
    /\ pc' = "freed"
    /\ UNCHANGED <<initialized, wgNetif, peerIndex, previous, seeded, listed, default,
                   bound, armed, tmr, peerValid, history>>

\* netif_remove, which leaves no default interface if it was this one
NetifRemove ==
    /\ pc = "freed"
    /\ listed' = FALSE /\ wgNetif' = FALSE
    /\ default' = IF default = "wg" THEN "none" ELSE default
    /\ pc' = "unlisted"
    /\ UNCHANGED <<initialized, peerIndex, previous, seeded, state, live, bound, armed,
                   tmr, peerValid, history>>

Restore ==
    /\ pc = "unlisted"
    /\ default' = IF previous = "none" THEN default ELSE previous
    /\ previous' = "none"
    /\ initialized' = FALSE
    /\ pc' = "idle"
    /\ UNCHANGED <<wgNetif, peerIndex, seeded, listed, state, live, bound, armed, tmr,
                   peerValid, history>>

-----------------------------------------------------------------------------
(* The tcpip thread *)

\* sys_check_timeouts takes the entry off its list and calls wireguardif_tmr
TimerFire(d) ==
    /\ tmr = Waiting
    /\ d \in armed
    /\ armed' = armed \ {d}
    /\ tmr' = [dev |-> d, phase |-> "called"]
    /\ UNCHANGED <<app, listed, state, default, live, bound, peerValid, history>>

\* wireguardif_tmr puts itself back before it looks at the device
TimerRearm ==
    /\ tmr.phase = "called"
    /\ armed' = armed \cup {tmr.dev}
    /\ tmr' = [tmr EXCEPT !.phase = "rearmed"]
    /\ UNCHANGED <<app, listed, state, default, live, bound, peerValid, history>>

TimerDone ==
    /\ tmr.phase = "rearmed"
    /\ tmr' = Waiting
    /\ UNCHANGED <<app, listed, state, default, live, bound, armed, peerValid, history>>

-----------------------------------------------------------------------------

Begin ==
    \/ \E d \in Device : NetifAdd(d)
    \/ NetifAddFails
    \/ PlatformInit
    \/ \E ok \in BOOLEAN : AddPeer(ok)
    \/ AddPeerFails
    \/ Route \/ NoRoute

End == RemovePeer \/ Untimeout \/ UdpRemove \/ Free \/ NetifRemove \/ Restore

TcpipThread == (\E d \in Device : TimerFire(d)) \/ TimerRearm \/ TimerDone

Next == Begin \/ End \/ TcpipThread

Spec == Init /\ [][Next]_vars

-----------------------------------------------------------------------------
(* Properties *)

Down == pc = "idle" /\ ~initialized

\* When begin has returned true and end has not been called, everything the
\* interface needs is in place: a netif on lwIP's list with a device that is
\* not freed, its socket, a peer index, a seeded generator, and a timer that is
\* either waiting or in the call that puts it back.
InstalledWhenInitialized ==
    pc = "idle" /\ initialized =>
        /\ wgNetif /\ listed /\ peerIndex /\ seeded
        /\ state \in live \cap bound
        /\ state \in armed \/ (tmr.dev = state /\ tmr.phase = "called")

\* ANALYSIS_AND_OPTIMIZATIONS.md:476, "end() restores previous default": when
\* the interface is down, however often it went up and failed to, the default
\* interface is the one from before begin, and none is remembered.
DefaultRestored == Down => default = before /\ previous = "none"

\* end leaves nothing behind, and neither does a begin that fails, except one
\* that could not add its peer (see failed): no device, no socket, no netif.
NothingLeft == Down => ~listed /\ live \subseteq failed /\ bound \subseteq failed

\* begin and end do what Interface says in one step, whatever the timer does
\* meanwhile and however often begin failed before: the route is taken when
\* begin saves the old one, and given back when netif_remove leaves none and
\* end restores it; from outside no other step shows.
Promise == INSTANCE Interface WITH
    Netif <- Netifs, Tunnel <- "wg",
    up <- initialized /\ pc # "unlisted",
    route <- IF pc = "unlisted" THEN before ELSE default,
    saved <- before

ImplementsInterface == Promise!Spec

-----------------------------------------------------------------------------
(* What the documentation says and the code does not do *)

\* wireguardif.c:902, wireguardif_shutdown: "Disable timer.": no timer waits
\* or runs for a device that has been freed.
TimerDisabled == armed \cup ({tmr.dev} \ {NoDevice}) \subseteq live

\* wireguard-platform.h:63, wireguard_random_bytes: "Fill the supplied buffer
\* with random data": nothing is drawn from a generator not yet seeded.
RandomSeeded == ~unseeded

\* ANALYSIS_AND_OPTIMIZATIONS.md:533, "No memory leaks after 1 hour": while the
\* interface is down no device is allocated and no socket is bound.
NothingKept == Down => live = {} /\ bound = {}

\* wireguardif.h:119: "On success the peer_index can be used to reference this
\* peer": an interface reported as begun has a peer.
InitializedHasPeer == pc = "idle" /\ initialized => peerValid
=============================================================================
