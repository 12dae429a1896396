# Formal models of WireGuard-ESP32-Arduino

TLA+ models of the library under `src/`, with TLC runs on small instances and
proofs checked by TLAPS for all values of the constants. Paths such as
`wireguard.c:322` mean `src/src/wireguard.c`, line 322, unless another
directory is given.

The library is a port of WireGuard for lwIP to the ESP32: one interface, one
peer (`WIREGUARD_MAX_PEERS` is 1), a periodic timer of 400 ms, and an Arduino
class with `begin` and `end` in front.

## 1. Inventory

### Components

| Component | Where | State it keeps | Operations |
|---|---|---|---|
| Replay window | `wireguard.c:322-364` | `replay_counter`, `replay_bitmap` of a keypair | `wireguard_check_replay` |
| Sessions | `wireguard.c:366-560`, `wireguard.h:76-170` | three keypair slots (`curr`, `prev`, `next`), the pending handshake, indices | `keypair_update`, `add_new_keypair`, `wireguard_start_session`, `get_peer_keypair_for_idx`, `wireguard_generate_unique_index` |
| Handshake messages | `wireguard.c:560-948` | handshake, `greatest_timestamp`, `last_initiation_rx` | create and process initiation, response, cookie reply |
| Interface | `wireguardif.c` | the peer's endpoint, `active`, `send_handshake`, `last_tx`, `last_initiation_tx`, the link flag of the netif | `wireguardif_output`, `wireguardif_network_rx`, `wireguardif_tmr`, the API calls on a peer, `wireguardif_init`, `wireguardif_shutdown` |
| Platform | `wireguard-platform.c` | the random generator, the clock | `wireguard_platform_init`, `wireguard_sys_now`, `wireguard_tai64n_now`, `wireguard_random_bytes` |
| Arduino class | `WireGuard.cpp` | `_is_initialized`, `wg_netif`, `wireguard_peer_index`, `previous_default_netif` | `begin`, `end` |
| Modern API | `WireGuardModern.cpp` | NVS namespace `wgcfg`; last error, callback, statistics | `saveConfig`, `loadConfig`, `clearConfig`; getters |
| Base64 | `wireguard.c:1022-1129` | none | decode, encode |
| Cookies | `wireguard.c:169-194`, `:423-445`, `wireguardif.c:430-541` | `cookie_secret` and its age; the peer's cookie and the mac1 it waits for | mac1 and mac2, cookie replies |
| Cryptography | `crypto.c`, `crypto/refc`, `crypto/esp_hw` | contexts of BLAKE2s, ChaCha20 and Poly1305, for the length of a call | X25519; BLAKE2s; ChaCha20-Poly1305 and XChaCha20-Poly1305 |

### How they interact

* lwIP's **tcpip thread** calls the interface: `wireguardif_output` when it
  routes a packet to the netif, `wireguardif_network_rx` when a datagram comes
  in, `wireguardif_tmr` from its list of timeouts. Each runs to its end before
  the next begins.
* The **application's task** calls `begin` and `end`, which call `netif_add`,
  `wireguardif_add_peer`, `_connect`, `_disconnect`, `_remove_peer`,
  `_shutdown` and `netif_remove`. No lock keeps them apart from the tcpip
  thread.
* `wireguardif_network_rx` hands handshake messages to `wireguard.c`, and data
  packets to the keypair their receiver index names; a data packet may promote
  a keypair, pass the replay window, and go up through `ip_input`.
* The timer, the output path and the reception path ask each other for a
  handshake through `send_handshake` and the age of the keypairs.
* The other end and the network between lose, delay, duplicate and reorder
  messages; the other end roams.

### What is hard, and what makes each part correct

| Part | Hard because | Correct when |
|---|---|---|
| Replay window | any order of arrival; a shift, a width and a distance at their limits | no number twice; nothing fresh and recent refused |
| Sessions | handshakes of both roles interleave with data and with the timer; keypairs are copied whole between slots | no nonce twice; no sending before confirmation; indices mean one session; the newest confirmed session carries the traffic |
| Two ends | initiations cross; messages get lost, late and repeated; an end restarts and forgets | they come to share a session again and again, unless they retry in step for ever; a session means the same to both; keys never return |
| Cookies | the secret is replaced and replies overtake one another | under load only who owns an address comes from it |
| Timers | six deadlines, read from one clock, in five handlers | no session outlives its lifetime; the link follows the sessions; what is retried stops |
| API | calls come at any moment of a handshake | what was ended stays ended |
| Begin and end | seven steps each, several may fail; a thread beside them | up means complete; down means nothing left; the default route returns |
| Stored configuration | six writes, none atomic with the next; a restart in between | what is loaded is what was last saved |
| Cryptography | numbers kept partly reduced in limbs; input in pieces of any length; one keystream for two purposes | results are those of the mathematics, whatever carries and wherever pieces end |

`PROJECT.json` lists every hazard at its line, and the properties aimed at it.

## 2. Modules

| Module | Models | Kind |
|---|---|---|
| `ReplayWindow` | `wireguard_check_replay` | operators |
| `ReplayReceiver` | one receiving keypair under arbitrary traffic | state machine |
| `ReplayProofs` | theorems about it | proofs |
| `PeerState` | `struct wireguard_peer` and the functions that compute on it | operators |
| `Device` | the interface with its peer: all handlers and API calls | state machine, extends `PeerState` |
| `MCDevice` | instances of `Device` | TLC |
| `DeviceProofs` | theorems about it: nonces, confirmation, indices, slots; then replays, lifetimes, which session is sent on, the calls | proofs |
| `Tunnel` | two interfaces over a network that loses and repeats messages, going on for ever | state machine with fairness, extends `PeerState` |
| `TunnelProofs` | theorems about its safety | proofs |
| `Noise` | the Noise computations and the cookies, on symbolic terms | operators |
| `Handshake` | two ends with the content of their handshake messages | state machine, extends `PeerState` and `Noise` |
| `MCHandshake` | symmetry sets for it | TLC |
| `HandshakeProofs` | theorems about it | proofs |
| `Interface` | what `begin` and `end` promise | abstract specification |
| `Lifecycle` | `begin`, `end` and the timer's thread | state machine that implements `Interface` |
| `MCLifecycle` | instances of it | TLC |
| `LifecycleProofs` | theorems about it | proofs |
| `ConfigStore` | the configuration in NVS | state machine |
| `MCConfigStore` | instances of it | TLC |
| `ConfigProofs` | theorems about it | proofs |
| `Base64` | `wireguard_base64_decode`, `wireguard_base64_encode` | state machine and operators |
| `Base64Proofs` | theorems about the decoder and the round trip | proofs |
| `X25519` | `x25519.c` | operators |
| `Poly1305` | `poly1305-donna.c`, `poly1305-donna-32.h` | operators |
| `Blake2s` | `blake2s.c` around its compression function | operators |
| `ChaCha20Poly1305` | `chacha20poly1305.c`, `chacha20.c` around its block function | operators, extends `Poly1305` |
| `Primitives` | calls of the primitives, turn by turn, and what they ought to compute | state machine |
| `MCPrimitives` | an instance of it | TLC |
| `PrimitivesProofs` | theorems about the primitives | proofs |

No module declares a RECURSIVE operator.

Definitions whose comment says "mutated form" are not part of any model: each
replaces one definition by a slip the code could make, and TLC then finds the
property it is paired with violated. They show that each property says
something.

### ReplayWindow and ReplayReceiver

A window is `[counter, bitmap]`; the bitmap is the set of its bit positions.
`Distance` keeps the code's `uint32_t` (`DiffMod`), `WindowSize` is
`sizeof(replay_bitmap)`, which is what the code compares with, and
`BitmapBits` its width. `Receive(seq)` is one call of
`wireguard_check_replay`; `accepted` records the numbers for which it returned
true.

### PeerState and Device

State and code:

| Variable | Code |
|---|---|
| `keys` | `curr_keypair`, `prev_keypair`, `next_keypair`: `keys["curr"]`, ... |
| `hs` | `peer->handshake` |
| `peer` | the other fields of `struct wireguard_peer` |
| `linkUp` | the link flag of the netif |
| `time`, `due` | `sys_now()` since the start; ticks since the timer last ran |
| `fresh`, `offered`, `sealed`, `confirmed`, `promoted`, `delivered`, `again`, `answered`, `closed`, `quiet` | history, explained where they are declared |

Actions and handlers:

| Action | Handler |
|---|---|
| `Output` | `wireguardif_output` with `wireguardif_output_to_peer` |
| `RxInitiation` | `wireguardif_network_rx`, MESSAGE_HANDSHAKE_INITIATION: process, respond, start the session |
| `RxResponse` | MESSAGE_HANDSHAKE_RESPONSE: process, start the session, send a keepalive, raise the link |
| `RxCookie` | MESSAGE_COOKIE_REPLY |
| `RxData` | MESSAGE_TRANSPORT_DATA: stale, or authentic and then promotion, rekey, replay check, routing check, `ip_input` |
| `Timer`, `TimerNoPeer` | `wireguardif_tmr`, with all its steps in the code's order |
| `Connect`, `Disconnect`, `RemovePeer`, `AddPeer`, `UpdateEndpoint` | the `wireguardif_` call of the same name |
| `Tick` | the clock |

Abstractions:

* *Cryptography is symbolic.* A session is named by the number of the
  ephemeral key this end drew for it, and a packet opens only under its
  session's key. MAC1, MAC2, the Noise hashes and the cookie's content are part
  of that; a message that does not authenticate changes nothing in the code
  and is no step of the model.
* *The environment is as strong as the protocol allows.* A response or cookie
  may arrive for any initiation that left this end, a packet for any session
  that was offered, an initiation with any timestamp; at any later time, any
  number of times, from any address.
* *Failures* of `pbuf_alloc` and `udp_sendto_if` are chosen at every call, where
  `Faults` names them.
* *Time* is in ticks. The deadlines are scaled down and keep the order they
  have in the code, and the comparisons keep the code's unsigned arithmetic
  (`ClockMod`). The timer runs at least once every `MaxTimerLag` ticks.
* *An API call is one step.* Threads that overlap inside a call are `Lifecycle`'s
  subject, for init and shutdown only.
* One peer that is routed everything, as `WireGuard::begin` sets it up. The
  comparison of an inner packet's address with the allowed ones is the value
  `"foreign"` of `Payload`.

### Tunnel

Two ends, each with the `keys`, `hs` and `peer` of `Device` and the same
operators of `PeerState`, exchange what they really send: the keepalives and
initiations of their timers, and the answers to them. So what reaches one end
is what the other has sent, and liveness can be asked about.

The model must go on for ever in finitely many states. The clock stands, and
`Tick` makes everything else a tick older; ages that the code no longer tells
apart are one. A session is a number, the same at both ends, and a tick
renumbers those still in use. A tick is `REKEY_TIMEOUT` (5 s): messages older
than that are lost. The network holds the last message of each type in each
direction. Initially both ends have begun; one or both are active; one may
still have a session, of any age, with an end that has just restarted.

An initiation is accepted if its timestamp is greater than `greatest_timestamp`
(`wireguard.c:622`), and stays under way, to be delivered again and refused. The
number of its session is its timestamp. An end that has restarted has forgotten
the timestamps it accepted (`:630`), so the model may start with an old
initiation under way to it; the end that has not still has its own. A response
that the end does not wait for, because another initiation has replaced the
handshake (`:632`), is dropped.

*Assumption on the clock*: the timestamps of initiations do not go back over a
restart. `wireguard-platform.c:60` asks for that, as otherwise the other end rejects
the handshake. `WireGuard::begin` refuses a clock that has not been set
(`WireGuard.cpp:47`: before November 2023), and cannot tell one that has been set
back. The rate limit on initiations is left out: it refuses what comes within the
same millisecond (see `RateLimited` below), and a tick is 5 s.

Not here, because `Device` has it: replayed packets, roaming, message limits,
failures of lwIP, API calls. The tunnel carries keepalives only. The packets of an
application refresh `last_tx` and `last_rx`, and nothing else.

### Noise and Handshake

`Noise` has the computations as terms. A hash is the sequence of what was mixed
in, a chaining key the sequence of KDF inputs, a box opens under the key and
associated data it was made with, and a DH value is the set of the two keys.
`Handshake` then computes, at either end, from what that end holds: the
initiator's ephemeral and the responder's lead to the same session because the
terms come out equal, which `Device` and `Tunnel` assume.

Any message ever sent arrives at any later time, any number of times, from any
address; both ends initiate at will, restart, and may hold a wrong public key or
another preshared key. An ephemeral key is also the timestamp of its
initiation. Left to `Device`: the rate limit and the time left to a session.
Abstracted: the random nonce of a cookie reply, and that a DH result of zero
fails (with honest keys there is none). A MAC names its message by the
ephemeral key, since a message is read whole or not at all.

Cookies: `secret` is `cookie_secret` and whether it has passed its maximal age;
it is looked at, and renewed, only under load. `wireguard_is_under_load` of this
port returns FALSE (`wireguard-platform.c`): `Loaded = {}` in the `handshake` run.
With `Loaded = {b}` the `cookies` run checks the code for a port with that hook.
Two things show in the model that no property asks about: `handshake_mac1` is
recorded for an initiation and never for a response, so a responder never gets
to use a cookie for its response; and a cookie's owner may lose it by restarting.

### Interface and Lifecycle

`Interface` is what an application may rely on: the interface is down or up, going
up may take the default route, going down gives it back, each in one step.
`Lifecycle!Promise` maps onto it: the interface counts as down from
`netif_remove` on, and the route as restored while `end` has yet to restore it,
because `netif_remove` leaves none. Every other step of `begin` and `end`,
failed begins, and the timer's thread are stutters.

`pc` is where the application's task is in `begin` (idle, added, seeded,
peered) or `end` (removed, untimed, unbound, freed, unlisted). The other
variables are the globals of `WireGuard.cpp`, the netif list and the default
interface of lwIP, the devices allocated, their sockets, and lwIP's list of
timeouts. `tmr` is the call of `wireguardif_tmr` the tcpip thread is in: it has
left the list (`called`) and puts itself back with its first statement
(`rearmed`). What the handler reads and writes inside a device that has been
freed is not followed. Failures modelled: `wireguardif_init` (any cause), a
peer key that does not decode, `wireguard_peer_init`.

### ConfigStore

`nvs` is the namespace, `at` the next entry `saveConfig` writes. Every entry is
one step, and the board may restart between any two. NVS writes an entry as a
whole. Writes reach the flash when they are made, as the NVS library does it;
the commit only reports. `Faults` names the NVS calls that may fail.
`expected` and `torn` are history: the configuration a load ought to return,
and whether a write was refused or a save cut short since.

### Base64

`st` is the decoder's locals and what it has written; `Read(c)` is one round of
its loop (`Step`), so that TLC meets every string over the given characters, and
every prefix of it, which is a string of its own. `size` is the caller's
`*outlen`. A character is the number it stands for, padding, or a foreign one.
`Encode` gives the text; that the encoder refuses a short buffer and ends the
text with a zero is left out. The reference definition (`WellFormed`, `Bytes`)
takes the text as a string of bits, without the decoder's accumulator.

The decoder takes one liberty: a last block with three characters of padding
decodes to one byte, because `wireguard.c:1076` writes the first byte in any case.
`RefusesMalformed` names it as the only exception. The room check at `:1071`
does not count that byte; a key's buffer of 32 bytes always has room for it, since
the byte follows whole blocks of three.

### X25519, Poly1305, Blake2s, ChaCha20Poly1305 and Primitives

The reference implementations, with the sizes as parameters. Arithmetic is
modelled limb by limb with its carries, so a smaller instance has the hazards
of the large one:

* `X25519`: two limbs of four bits and the prime 127 = 2^7 - 1 for eight limbs of
  32 bits and 2^255 - 19. The prime lies as far below the half of the limbs'
  range, relative to what a carry can bring back (`X25519Assumption`), so that every
  sum and product can be left above it. All pairs of limb values are
  added, subtracted and multiplied; the ladder runs for every u-coordinate,
  with the top bit that the code does not mask, and several scalars, and is
  compared with the multiples that the group law of the curve gives. A chain of
  the same form inverts in the small field; the code's own table is run as
  exponents, which it must take to 2^255 - 21.
* `Poly1305`: two limbs of seven bits for five of 26, and blocks of three
  half-bytes. `r` need not be clamped, and the widths of the intermediate words,
  64 bits in the code, are left out.
* `Blake2s`: the compression function is the sequence of its inputs (block,
  counters, last flag), so the digest shows how the input was cut.
* `ChaCha20Poly1305`: a byte is the set of atoms whose exclusive or it is, so it
  shows which byte of which block of the keystream was used on it. A tag is its
  key and its input; that the polynomial hides it is not asked.

`Primitives` has a `frame` for the call under way, and a step is a turn of its
loop or the next call its caller makes. The other half of the module is what the
results are compared with.

## 3. Runs

All runs check for deadlock, except `base64`, whose strings end, `primitives`, whose
calls return, and `handshake` and `cookies`, where the ephemeral keys run out.

| Run | Instance | Shows | Distinct states |
|---|---|---|---|
| `replay_window` | `ReplayReceiver`, `MCReplayReceiver.cfg` | `TypeOK`, `NeverAgain`, `FreshInWindowAccepted` | 1,775 |
| `sessions` | `MCDevice`, `DeviceSessions.cfg` | `NonceFresh`, `SealsOnlyConfirmed`, `SendsOnNewest`, `IndexUnique`, `PrevExcludesNext` | 454,357 |
| `timing` | `DeviceTiming.cfg` | `SessionImpliesLink`, `CurrentWithinLifetime`, `SendingKept` | 1,018,830 |
| `data` | `DeviceData.cfg` | `TypeOK`, `OnlyPromotingTwice` | 219,960 |
| `calls` | `DeviceCalls.cfg` | `InitiationOnce`, `ClosedStaysClosed` | 739,777 |
| `lifecycle` | `MCLifecycle`, `LifecycleUpDown.cfg` | `TypeOK`, `InstalledWhenInitialized`, `DefaultRestored`, `NothingLeft`, `ImplementsInterface` | 2,348 |
| `tunnel` | `Tunnel`, `Tunnel.cfg` | `OneInitiator`, `TunnelOpens` | 145,411 |
| `handshake` | `MCHandshake`, `Handshake.cfg` | `InitiatorHasPartner`, `OnlyAsConfigured`, `KeysNeverAgain`, `EphemeralForgotten` | 119,898 |
| `cookies` | `MCHandshake`, `Cookies.cfg` | `UnderLoadProven`, `CookieNeverOlder` | 314,722 |
| `stored_config` | `MCConfigStore`, `ConfigKept.cfg` | `LoadsLastSaved` | 3,320,994 |
| `base64` | `Base64`, `Base64.cfg` | `DecodesText`, `RefusesMalformed`, `RoundTrip` | 522,219 |
| `primitives` | `MCPrimitives`, `Primitives.cfg` | `FieldExact`, `ConsecutiveMultiples`, `ResultIsMultiple`, `ChainInverts`, `DigestOfWhole`, `MacIsPolynomial`, `TagFixesInput`, `OpensOnlySealed` | 515,606 |

`TypeOK` of `Tunnel`, `Handshake`, `ConfigStore` and `Base64` says what the
variables range over and is not among a run's properties: every other property
of these modules reads the variables by it.

Bounds, and why they are enough:

* `replay_window`: numbers 0 to 10 with a window of 4 in a bitmap of 6. A packet
  can be in the window, at its edge, past it, past the bitmap, and a jump can
  clear it, in every order.
* `sessions`: four ephemeral keys, so one more session than there are slots, in
  either role, and `pbuf_alloc` failing at will; the message limits are 1
  (rekey) and 3 (reject), so both are met. The clock stands still: only the
  order of events matters here. Five indices, for three slots, a pending
  handshake and one more to draw from.
  `udp_sendto` does not fail here: with it the run has 943,978 states and no
  violation, but takes twice as long; `NoncesNeverRepeat` is for any faults.
* `timing`: five ticks, with a lifetime of 3, a rekey at 2, a retry after 1 and
  a timer that is late by up to 1. A session is opened, rekeyed, kept alive and
  expires, and its successor ages.
* `data`: four packets on each of two sessions, the last of which the routing
  check drops, through a window of two. The clock moves once, so that the
  timer can open a session in the role of the initiator.
* `calls`: all five API calls at any time, two addresses, two initiations in,
  two out, a lifetime of 2 in two ticks, with `udp_sendto` failing at will.
  `MaxAlive` bounds the counter of the keepalives the timer repeats while
  sending fails.
* `tunnel`: a lifetime of 4 ticks, rekeying from 2 on, a retry after each, timers
  late by up to one tick; ages and delays are unbounded. Twelve sessions are
  more than the ends and the network remember at once: `NewSessions` is empty in no
  state of this instance. (Were it empty, the timer's initiation would be
  disabled.)
* `handshake`: four ephemeral keys, so two handshakes, or four initiations of which
  some are answered late, in either direction; a restart of each end,
  a stranger's key, two preshared keys, failing `pbuf_alloc`.
* `cookies`: three ephemeral keys, two addresses, and each secret replaced once, by
  age or by a restart.
* `primitives`: all 256 limb values in all pairs; nine clamped scalars by all 256
  u-coordinates; moduli up to 300, whose least common multiple is far above
  2^255; up to 18 bytes hashed in blocks of 4, with the counter's word
  wrapping at 8; up to 5 half-bytes of three values, in pieces of any length,
  maced in blocks of 3, for ten keys; texts of up to 5 bytes in keystream
  blocks of 2.
* `lifecycle`: three devices, so three begins that get past `netif_add`,
  successful or not; begins that fail earlier are unbounded. The listen port is the
  caller's: a begin may use the port of a device that a failed begin has left, and
  fail, or another one.
* `stored_config`: two configurations that differ in every field, one without
  an address, and a third that is stored but too long to be read back; any
  number of calls, failures and restarts.
* `base64`: every string of up to eight characters, so two blocks, over four
  symbols (no bits, the padding bits of each place, all bits), padding and a
  foreign character; buffers that fit one block, two, and two with padding.

The symmetry sets permute session indices and devices, which the code compares
for equality only. Every cfg gives bounds to `Device` by its constants
`MaxTime`, `MaxEph`, `MaxTs`, `MaxTx`, `MaxAlive`, `MaxRxCtr`.

*Fairness* is assumed in `Tunnel` only. `WF(Tick)`: time passes. `WF(Timer(d))`: the
tcpip thread runs its timeouts; `wireguardif_tmr` puts itself back before it does
anything else (`wireguardif.c:855`). `SF` on the receipt of an initiation, of a
response, and of the packet that promotes a next session: the network may lose
any message, but if one end sends such a message again and again, it does not lose
all of them. The retries and keepalives of the code are pointless without that.
For a response it is asked only while the end still waits for it and no initiation
that it would accept is under way to it. When one is, it may arrive first, and
then it is the code that drops the response, with no loss in the network: fairness
says nothing about that. In `Device`, deadlines are safety properties, under the assumption that the timer
is not late by more than `MaxTimerLag`, which is the guard of `Tick`.

*What is live.* `TunnelOpens`: again and again both ends may send, on the same
session (`AlwaysOpens`), or else both are active and retry in step for ever
(`LockStep`): their initiations cross again and again, and from some moment on none arrives that has
not been crossed. So it says that desynchronisation is all that is needed. The
ends get out of a session that one has lost in a restart (the other notices only by
the session's age), of a session that an old initiation has opened at one end only,
and of initiations that cross any number of times, as soon as one of them, again
and again, is sent and answered with no other under way. With one end active there is
no exception.

`AlwaysOpens` alone does not hold, and TLC refutes it (`AlwaysOpens.cfg`, outside the
standing runs) within seconds. Each end processes the other's initiation
before the response to its own arrives; `wireguard.c:632` puts the other's handshake in
the place of the pending one, and both responses are dropped. Retries come every
`REKEY_TIMEOUT` on a timer of 400 ms, without jitter, so nothing in the code ends
this; in practice the drift of two clocks does.

Neither is it `<>[]Shared`: each rekey has a moment in which the responder waits for
the first packet.

*The clock never reads 0* in the runs (`Boot` is 10 and no run wraps). The code
uses 0 as "never" for `last_rx` and `last_initiation_tx`; at the one millisecond
in 49.7 days when `sys_now()` is 0 a promoted session is not sent on until the
next packet. The two theorems about which session is sent on have the assumption
in their statement: `Spec /\ [](Now # 0) => ...`.

### What the code does and its documentation does not say

The modules state thirteen properties that a line of the repository promises
and the code does not keep. They are not among the standing runs, but their .cfg
files are kept, and TLC refutes each within seconds:

| Module, cfg | What is documented | What the code does |
|---|---|---|
| `ReplayReceiver`, `ReplayWide` | `wireguard.c:327`: a window of 32 bits | the window is 4 packets wide: bytes are taken for bits |
| `MCDevice`, `DeliveredOnce` | `wireguardif.c:318`: replays are checked for | the packet that promotes a responder's session is marked in the slot just wiped, and gets through once more |
| `MCDevice`, `RateLimited` | `wireguard.c:621`: not too many initiations | the rate limit subtracts the wrong way round and limits nothing after the first millisecond |
| `MCLifecycle`, `TimerDisabled` | `wireguardif.c:902`: the timer is disabled | `sys_untimeout` misses a timer that is between the list and its own re-arming, and the device is freed under it |
| `MCDevice`, `StopsTrying` | `wireguardif.h:131`: disconnect stops trying to connect | the pending handshake survives; its response opens a session whose age starts the next handshake |
| `MCDevice`, `PeerUpCanCommunicate` | `wireguardif.h:134`: an up peer has a key it can communicate with | a previous keypair counts, and nothing is sent on it |
| `MCDevice`, `LinkFollowsSession` | `src/TESTING_GUIDE.md:403`: with the server down the link goes down | a previous keypair never ages away and holds the link up |
| `MCDevice`, `WipedAfterSilence` | `wireguardif.c:864`: after a long silence all crypto state is wiped | the wipe after three lifetimes is dead code: what it asks about is destroyed after one |
| `MCLifecycle`, `RandomSeeded` | `wireguard-platform.h:63`: random bytes are random | `begin` draws the cookie secret before the generator is set up |
| `MCLifecycle`, `InitializedHasPeer` | `wireguardif.h:119`: the index means a peer | the index is handed out with the error, and `begin` only looks at the index |
| `MCLifecycle`, `NothingKept` | `src/ANALYSIS_AND_OPTIMIZATIONS.md:533`: no leaks | a begin that cannot add its peer keeps the device, its timer and the port |
| `MCConfigStore`, `LoadsOneConfig` | `WireGuardModern.h:187`: loads the saved configuration | after a restart within a save, a mixture of two |
| `MCConfigStore`, `TrueMeansDone` | `WireGuardModern.h:169`: true on success | refused writes and a refused erase go unnoticed |

One more needs no model: `wireguardif.c:322` speaks of the source address of
the inner packet, and the code below it compares the destination with
`allowed_source_ips`.

## 4. Proofs

For every value of the constants that meets the assumptions named in the
modules (`WindowAssumption`, `MaxSeqAssumption`, `PeerAssumption`,
`DeviceAssumption`, `LifecycleAssumption`, `HandshakeAssumption`,
`ConfigAssumption`, `TunnelAssumption`, `Base64Assumption`, `X25519Assumption`,
`PowersAssumption`, `Poly1305Assumption`, `MacPowersAssumption`,
`Blake2sAssumption`, `PrimitivesAssumption`), and under the further ones in the last column:

| Theorem | Property | Further assumption |
|---|---|---|
| `ReplayProofs!TypeCorrect`, `AtMostOnce`, `NothingFreshRefused` | `TypeOK`, `NeverAgain`, `FreshInWindowAccepted` | |
| `DeviceProofs!TypeCorrect` | `TypeOK` | |
| `DeviceProofs!NoncesNeverRepeat` | `NonceFresh` | |
| `DeviceProofs!NothingBeforeConfirmation` | `SealsOnlyConfirmed` | |
| `DeviceProofs!IndicesAreUnique` | `IndexUnique` | |
| `DeviceProofs!AtMostTwoSessions` | `PrevExcludesNext` | |
| `DeviceProofs!ReplaysRefused` | `OnlyPromotingTwice` | |
| `DeviceProofs!InitiationsOnce` | `InitiationOnce` | |
| `DeviceProofs!ClosedForGood` | `ClosedStaysClosed` | |
| `DeviceProofs!LinkWithSession` | `SessionImpliesLink` | |
| `DeviceProofs!CurrentEnds` | `CurrentWithinLifetime` | `RejectAfterTime > 0` |
| `DeviceProofs!NewestIsSentOn` | `SendsOnNewest` | the clock does not read 0 |
| `DeviceProofs!SendingGoesOn` | `SendingKept` | the clock does not read 0; `RejectAfterTime` is no multiple of `ClockMod`; `RejectAfterMessages > 0` |
| `HandshakeProofs!SessionsMatch` | `InitiatorHasPartner` | |
| `HandshakeProofs!OpenedAsConfigured` | `OnlyAsConfigured` | |
| `HandshakeProofs!KeysAreNew` | `KeysNeverAgain` | |
| `HandshakeProofs!ProvenUnderLoad`, `CookiesGrowNewer` | `UnderLoadProven`, `CookieNeverOlder` | |
| `HandshakeProofs!ForgottenWithHandshake` | `EphemeralForgotten` | |
| `TunnelProofs!TunnelTypes` | `TypeOK` with `TInv` | |
| `TunnelProofs!OneEndInitiates` | `OneInitiator` | |
| `Base64Proofs!DecoderTypes`, `Decodes`, `Refuses`, `RoundTrips` | `TypeOK`, `DecodesText`, `RefusesMalformed`, `RoundTrip` | |
| `PrimitivesProofs!FieldIsExact` | `FieldExact` | |
| `PrimitivesProofs!ChainRaises` | `ChainInverts` | |
| `PrimitivesProofs!TagsArePolynomials` | `MacIsPolynomial` | |
| `PrimitivesProofs!DigestsWhole` | `DigestOfWhole` | |
| `PrimitivesProofs!TagsFixInput`, `OpensSealed` | `TagFixesInput`, `OpensOnlySealed` | |
| `ConfigProofs!LastSavedIsLoaded` | `LoadsLastSaved` | |
| `LifecycleProofs!Implements` | `ImplementsInterface` | |
| `LifecycleProofs!TypeCorrect`, `UpIsInstalled`, `DefaultIsRestored`, `DownLeavesNothing` | `TypeOK`, `InstalledWhenInitialized`, `DefaultRestored`, `NothingLeft` | |

**Replay window.** The invariant says that the bitmap is exact: inside the
window a bit is set just when its number was accepted, nothing above the
counter was accepted, and no bit lies beyond the width. `MaxSeq < DiffMod`
(a session ends long before 2^32 packets) makes the truncation of the distance
harmless.

**Device.** `NonceFresh` is not inductive. Slots are copied whole, counters
included, and a handshake that is pending becomes a slot at counter 0. The
invariant `IInv` is `TypeOK` with `SlotInv`, five facts about the slots, the
pending handshake and the history:

* `Drawn`: every session is named by an ephemeral this end has drawn;
* `Ordered`: from `prev` over `curr` to `next` and to the pending handshake
  sessions get strictly younger, and `prev` and `next` are never both there.
  Hence no session is in two slots, and a copied counter has no twin;
* `Behind`: all nonces of a live session are below its counter, and the pending
  handshake has none;
* `Proven`: whoever may send is confirmed, and so is whoever has;
* `Indexed`: indices are unique among the slots and the pending handshake.

`SlotInv` takes the slots, the handshake and the history as parameters, because
a handler changes the slots several times: lemmas show that each step of a
handler keeps it (`OutputKeeps`, `HeardKeeps`, `UpdateKeeps`, `AddNewKeeps`,
`InitiateKeeps`, `WipeKeeps`), and the lemma for a handler chains them.

The second half of `DeviceProofs` adds to it `SInv`, about what lies beside the slots: `Registered`
(without a peer there is no session, and no timestamp answered is beyond the
peer's greatest), `Ended` (a closed session is neither live nor pending nor still
to come: sessions are numbered upwards), `Waiting` (the next session and the
pending handshake are confirmed by nobody), and that sessions imply the link.
Three more are proved on top, each with the relation between the slots before
and after a handler (`Thinned`, `Added`, `RxDataMoves`):

* `CurrentSends`: a current session can send, because it is an initiator's, or was
  promoted by a packet, and `last_rx` is then not 0. Here the clock matters.
* `CurrentAge`: the age of the current session is below its lifetime plus the time
  the timer has not run. An age is `(now - then) mod 2^32`; the lemmas on residues
  show that it grows by at most one in a tick, through the wrap of the clock.
* `Replays`: a window that moves with its session refuses what it has let through.
  `RefusedForGood` is the step that matters: whatever number is checked, what was
  refused before is refused after.

**Handshake.** `HInv` follows the ephemeral keys into the chaining key: its first
input is the initiator's, its fourth the responder's (`ComesFrom`). A pending
handshake has led to no session (`Unused`), and starting any wipes it; a
responder draws a new key. So no two sessions of an end share a chain (`Apart`).
`AInv` says what a message tells about its sender (`Telling`): the boxes of an
initiation name the sender and the addressee, and a response's key contains the
preshared key. `PInv` adds that whoever has sent a response has the session it
reports (`Answered`), so that the initiator who opens it finds its partner; that
there is no second one is `Apart`.

Cookies need an invariant of their own, `CInv`. Secrets are numbered upwards, and a
cookie that an end holds, that is under way, or that a MAC in a message was made
with, is the other end's: of an earlier secret, or of its present one and then for
an address it was sent to (`Issued`). Only the cookies of the present secret are let
through, so whoever is let through was sent one. That a cookie is never replaced
by an older one is not a matter of the secrets alone: `RepliesNewer` says that a
reply that can still be taken up is at least as new as the cookie held. It is
inductive because a reply taken up forgets the mac1 it answers, and the next mac1
names an ephemeral key that no reply has answered yet.

`EphemeralForgotten` follows from `EInv`: the ephemeral an end holds, 0 when there
is none, occurs in no product of the chains of its sessions (`FreeOf`), and the
keys still to be drawn occur in no chain anywhere. `HandshakeAssumption` says
that ephemeral keys, which are numbers, are not static ones: that a random key
should come out as somebody's static key is left out.

The terms are symbolic: that they stand for
what the cipher does is what section 2 says of `Noise`.

**Tunnel.** A keypair does not tell who else holds it. `TInv` says there is a
function that gives each session an owner, the end whose timer named it: only the
owner has it pending or holds it as initiator, only the other end holds it as
responder, initiations of it go to that other end and responses come back to the owner.
The renaming of the sessions at a tick composes the function with the renaming,
which is possible because `Rank` is injective on the sessions in use; that needs
the theorems on finite sets. A new session is given its owner when it is named:
`NewSessions` has only names that nothing refers to, so no one had an opinion on it.
That the timestamp an end has accepted last is such a name, or 0 (`Numbered`), is
part of `TInv`, because `InUse` has it. `TunnelAssumption` makes sessions the numbers
1 to n and `NoIndex` 0.

**Base64.** `ReadInv` says what the decoder's locals mean after any string: the
completed blocks are the bytes in `out`, the characters since then are the number in
`accum`, the padding is what `byte_count` lacks, and everything after padding was
padding. `BInv` adds what a failure means: the text is malformed, or its bytes are more
than the room. The reference definition (`Bytes`) reads bits, so a block is
compared with it bit by bit: `BitAt` gives the bits of one character, and the
lemmas for three bytes give each byte of four characters. Strings are unbounded,
and every prefix of one is a string of its own, so no induction beyond the
invariant's is needed for the decoder. `RoundTrip` runs it over the encoder's text by a
fold; the fold is unfolded into a sequence of steps, to which the same invariant
applies.

**Primitives.** The invariant `PInv` says what the frame of each call holds; the work
is in lemmas about the operators, each by induction over a loop.

* *Hashes.* `Buffers` says what a context means after any bytes: a number of whole
  blocks is compressed, and the rest waits in the buffer, which is left full until
  a next byte shows that it is not the last block. A byte keeps that (`ByteHashes`),
  so an update of any length does (`UpdateHashes`), so the digest at the end is the
  reference's for the concatenation (`FinalIs`).
* *The AEAD.* The lengths that end the MAC's input give back where its parts are, so
  the input gives back the parts. Deciphering is exclusive or with the same
  keystream, and its counter starts where the MAC's key has left it.
* *The inversion.* After any number of rows the four registers hold powers whose
  exponents are written down (`Exponents`), as combinations of powers of two; a row adds
  and doubles them. `two` is a function from 0 .. 255, because the provers do not
  compute with numbers of that size. After the last row the exponent is
  2^255 - 21, as a number, hence modulo every number.
* *The field.* `Worth` is what limbs are worth, their weighted sum. A loop over limbs
  (`Ripple`) keeps it, its carry counted (`RippleIs`); a row of the multiplication adds a
  limb's multiple at its place (`RowAdds`). `PropagateIs` is the crux: what comes back
  in at the bottom is at most `Excess * (4 * Excess + 1)`, less than one limb, so the
  second pass never carries out of the top, and the result is below the half of
  the range and a limb. That is `Tight`, and with it a difference cannot borrow
  more than the 2p added in advance, and `Canon` has to take off the prime at most
  once. The proof is for limbs of any width, two or more, and any
  excess that `X25519Assumption` lets in; the code's are 32 bits, 8 and 19.

* *The MAC.* `IsMacked` says what a context means after any input, however it came
  in: of the whole blocks Horner's rule has made a number, with which the accumulator
  agrees modulo the prime (`Absorbed`), and less than a block waits in the buffer.
  The accumulator is not reduced in between. `IsLoose` is what each block leaves:
  every limb in its range but the second, which keeps up to `20 * MacLimbs` of the
  carry that came back in at the bottom. From there the next product stays small
  enough for the carry to leave no more than that again (`CarriedBlock`); and the one
  carry before the end is enough, because if it comes out of the last limb, the second
  has room (`CarriedLast`). So `PolyFinish` takes off the prime at most once. That needs
  `20 * MacLimbs < MacRadix`; the code has 100 and 2^26. `UpdateMacked` is the step for
  an update of any length, and `FinishMacked` the end: a partial block brings its own
  mark, a whole last block does not wait. `r` need only be a block: that it is clamped
  is not used, and matters only to the widths that are left out.

The field and the MAC share the sums: a `Scale` is the weights of the limbs, and `Worth`
takes one.

Powers such as `Radix ^ i` with a variable exponent mean nothing to the provers:
`PowersAssumption` and `MacPowersAssumption` state the laws of exponents the proofs
use, for the exponents that occur. They are true of all numbers, and TLC evaluates
them. The library's induction theorems take an operator and cannot be used; induction
is over a set of numbers (`Induction`), and a fold is the function it unfolds to
(`FoldExists`).

**ConfigStore.** The property looks at the store between calls; the invariant
follows `saveConfig` through its six writes: before the first, the store is what
was expected (`Stored`), then it holds what has been written so far (`Begun`).

**Lifecycle.** The three properties speak of moments when no call is under way;
between them the invariant follows the program counter: `Flags` (which globals
are set), `Registered` (lwIP's list), `Owned` (one device besides those of failed
begins, and one socket), `Ticking` (the timer is on the list or is about to put
itself back), `Remembered` (the default interface is the one from before, or is
the one remembered). The refinement uses it at the step that takes the
interface down: `netif_remove` leaves no default route just when the interface
held it, and then what is remembered is what `Interface` saved; every other step
maps to a stutter.

*Model-checked only:* `TunnelOpens`, which is liveness; `ConsecutiveMultiples` and
`ResultIsMultiple`, which rest on the group law of an elliptic curve, of which the
library of the provers has nothing. *Out of the prover's reach:* liveness under
fairness and ENABLED.

## 5. Not modelled

* The round functions of BLAKE2s and ChaCha20 (and HChaCha20): straight-line
  mixing of 32-bit words, for which a test vector says more than a model; constant
  time and the wiping of secrets from the stack.
* The hardware adapter `crypto/esp_hw/esp_crypto.c`: off by default, and it does not
  compile as C (`out_len` in its decryption is not declared, and its initialisation
  passes a C++ lambda), so there is no behaviour to model.
* The table of allowed addresses, IPv6, more than one peer.
* The TAI64N layout.
* Failing reads: `nvs_get` on an entry that is there (`WireGuardModern.cpp:238`,
  `:274`), so a flash that has gone bad. Lengths that the primitives refuse and no
  caller passes (`blake2s.c:83`), and a box shorter than its tag
  (`chacha20poly1305.c:122`).
* Error strings, log levels, statistics: getters over globals. (The statistics
  are updated by nothing in the library, and `WireGuardModern.cpp:29` declares
  `extern` two variables that `WireGuard.cpp:26` and `:28` define `static`.)
* Overlap of an API call with a handler inside `wireguardif_add_peer`,
  `_connect`, `_disconnect` and `_remove_peer`; what lwIP and Wi-Fi do to the
  default interface on their own.

## 6. Plan

Done, in this order: `ReplayWindow`, `ReplayReceiver`, `PeerState`, `Device`,
their proofs, `Lifecycle` and its proofs, `ConfigStore`, `Base64`; then `Interface`
and the proof that `Lifecycle` implements it, `Tunnel`, `Noise`, `Handshake`,
the primitives; then the second half of `DeviceProofs`, `ConfigProofs`,
`HandshakeProofs`, `TunnelProofs`, `Base64Proofs`, `PrimitivesProofs`.

1. `CryptokeyRouting`: `peer_add_ip`, `peer_lookup_by_allowed_ip` and the check of
   an inner packet (`wireguardif.c:64-81`, `:233-259`, `:320-346`) against a
   reference definition; several peers.
2. `wireguardif_add_peer` split into its stores against the handlers.
