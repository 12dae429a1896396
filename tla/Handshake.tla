------------------------------ MODULE Handshake ------------------------------
(***************************************************************************)
(* The handshake between two interfaces of this library, with the content  *)
(* of its messages: what each end computes from what it holds, so that it  *)
(* is a result, and not an assumption as in Device and Tunnel, that a      *)
(* session means the same to both ends.                                    *)
(*                                                                         *)
(* Every message ever sent may arrive at its destination at any later      *)
(* time, any number of times, in any order and from any address.  Either   *)
(* end may initiate at any time, be under load or not, and restart.  The   *)
(* ends may have been given different preshared keys, or a wrong key of    *)
(* the other.  Data packets, and time but for its effect on cookies, are   *)
(* Device's subject.                                                       *)
(***************************************************************************)
EXTENDS PeerState, Noise

CONSTANTS
    A, B,             \* the two ends, and their static keys
    Strangers,        \* keys that are neither's
    PresharedKey,     \* preshared keys
    Loaded,           \* ends where wireguard_is_under_load may return true
    \* bounds of the model
    MaxEph,           \* ephemeral keys drawn at both ends
    MaxSecret,        \* cookie secrets an end draws
    MaxRestarts       \* restarts of an end

Ends == {A, B}
Other(d) == IF d = A THEN B ELSE A

ASSUME HandshakeAssumption ==
    /\ A # B /\ Strangers \cap Ends = {}
    /\ (Ends \cup Strangers) \cap Nat = {}     \* no ephemeral key is a static one
    /\ Loaded \subseteq Ends
    /\ {MaxEph, MaxSecret, MaxRestarts} \subseteq Nat

VARIABLES
    conf,       \* of each end: the peer's public key and the preshared key
    hs,         \* peer->handshake
    keys,       \* the three keypair slots
    peer,       \* greatest_timestamp, handshake_mac1 and the cookie
    secret,     \* cookie_secret, and whether it has reached its maximal age
    net,        \* all messages ever sent
    \* history
    fresh,      \* ephemeral keys drawn so far: they are named 1 .. fresh
    made,       \* sessions started at each end
    proven,     \* addresses each end has sent a cookie of its secret to
    admitted,   \* addresses it has let through under load since it has the secret
    restarts

history == <<fresh, made, proven, admitted, restarts>>
vars == <<conf, hs, keys, peer, secret, net, history>>

\* handshake_destroy leaves initiator as it is; nothing reads it then
NoHs == [valid |-> FALSE, initiator |-> FALSE, ephemeral |-> 0, hash |-> <<>>, chain |-> <<>>,
         local_index |-> NoIndex]

\* remote_ephemeral and remote_index only matter within the responder's handler
Half(initiator, e, hash, chain, i) ==
    [valid |-> TRUE, initiator |-> initiator, ephemeral |-> e, hash |-> hash, chain |-> chain,
     local_index |-> i]
NewPeer == [greatest_timestamp |-> 0, mac1 |-> NoMac, cookie |-> NoCookie]

Init ==
    /\ conf \in [Ends -> [peer : Ends \cup Strangers, psk : PresharedKey]]
    /\ \A d \in Ends : conf[d].peer # d
    /\ hs = [d \in Ends |-> NoHs]
    /\ keys = [d \in Ends |-> NoKeys]
    /\ peer = [d \in Ends |-> NewPeer]
    /\ secret = [d \in Ends |-> [number |-> 1, old |-> FALSE]]
    /\ net = {}
    /\ fresh = 0
    /\ made = [d \in Ends |-> <<>>]
    /\ proven = [d \in Ends |-> {}] /\ admitted = [d \in Ends |-> {}]
    /\ restarts = [d \in Ends |-> 0]

TypeOK ==
    /\ fresh \in 0 .. MaxEph
    /\ \A d \in Ends :
          /\ hs[d].ephemeral \in 0 .. fresh /\ hs[d].local_index \in LocalIndex \cup {NoIndex}
          /\ \A s \in Slots : keys[d][s].local_index \in LocalIndex \cup {NoIndex}
          /\ peer[d].greatest_timestamp \in 0 .. fresh
          /\ secret[d] \in [number : 1 .. MaxSecret, old : BOOLEAN]
          /\ proven[d] \subseteq Address /\ admitted[d] \subseteq Address
    /\ \A m \in net : m.type \in {"init", "resp", "cookie"} /\ m.to \in Ends

-----------------------------------------------------------------------------
(* Mutated forms of the definitions below, each a slip the code could make. *)

EndedKeepsSecrets(h) == [h EXCEPT !.valid = FALSE]

OpensAnyResponse(d, m, chain) == TRUE

OpensAnyCookie(d, m) == m.cookie.key = conf[d].peer

-----------------------------------------------------------------------------
(* Sessions *)

\* wireguard_start_session: both halves of the keys and remote_index are in the
\* keypair's key; the handshake it came from is wiped
Session(half, remote) ==
    NewKeypair(half.initiator,
               [keys |-> SessionKeys(half.initiator, half.chain), remote_index |-> remote],
               half.local_index, 0)

Ended(half) == NoHs

StartSession(d, half, remote) ==
    /\ keys' = [keys EXCEPT ![d] = AddNewKeypair(@, Session(half, remote))]
    /\ made' = [made EXCEPT ![d] = Append(@, Session(half, remote))]
    /\ hs' = [hs EXCEPT ![d] = Ended(half)]

-----------------------------------------------------------------------------
(* Cookies and MACs *)

\* generate_peer_cookie draws a new secret when the old one has expired
Renewed(d) == IF secret[d].old THEN [number |-> secret[d].number + 1, old |-> FALSE] ELSE secret[d]

CookieFor(d, a) == Cookie(<<d, Renewed(d).number>>, a)

\* the secret is looked at, and what is recorded of it: the addresses in `sent'
\* got a cookie, those in `passed' were let through
SecretUsed(d, sent, passed) ==
    LET since(old) == IF secret[d].old THEN {} ELSE old[d] IN
    /\ secret' = [secret EXCEPT ![d] = Renewed(d)]
    /\ proven' = [proven EXCEPT ![d] = since(proven) \cup sent]
    /\ admitted' = [admitted EXCEPT ![d] = since(admitted) \cup passed]

\* wireguard_check_mac1, wireguard_check_mac2
HasMac1(d, m) == m.mac1 = Mac1(d, m.ephemeral)
HasMac2(d, m, a) == m.mac2 = Mac2(CookieFor(d, a), m.ephemeral)

\* the last step of creating a handshake message
Mac2Of(d, e) == IF peer[d].cookie = NoCookie THEN NoMac ELSE Mac2(peer[d].cookie, e)

\* wireguardif_check_initiation_message and _check_response_message
Admitted(d, m, a) ==
    /\ HasMac1(d, m)
    /\ \/ UNCHANGED <<secret, proven, admitted>>
       \/ d \in Loaded /\ HasMac2(d, m, a) /\ SecretUsed(d, {}, {a})

\* a message that lacks the cookie is answered with one, its receiver index the
\* sender's of that message
Refuse(d, m, a) ==
    /\ d \in Loaded
    /\ HasMac1(d, m) /\ ~HasMac2(d, m, a)
    /\ \E room \in Results("pbuf_alloc") :
          LET reply == [type |-> "cookie", to |-> Other(d), receiver |-> m.sender,
                        cookie |-> Seal(d, CookieFor(d, a), m.mac1)] IN
          /\ net' = IF room THEN net \cup {reply} ELSE net
          /\ SecretUsed(d, IF room THEN {a} ELSE {}, {})
    /\ UNCHANGED <<conf, hs, keys, peer, fresh, made, restarts>>

-----------------------------------------------------------------------------
(* The messages *)

\* wireguard_start_handshake.  An ephemeral key is also the time at which it is
\* drawn; without a pbuf the handshake is pending, but its mac1 is not recorded.
Initiate(d) ==
    LET e       == fresh + 1
        to      == conf[d].peer
        chain1  == StaticChain(e, Dh(e, to))
        hash1   == InitiationHash(to, e)
        static  == Seal(Output(chain1, 2), d, hash1)
        hash2   == MixHash(hash1, static)
        chain2  == TimestampChain(chain1, Dh(d, to))
        time    == Seal(Output(chain2, 2), e, hash2)
    IN
    /\ e <= MaxEph
    /\ fresh' = e
    /\ \E i \in FreshIndices(keys[d], hs[d]) :
          /\ hs' = [hs EXCEPT ![d] = Half(TRUE, e, MixHash(hash2, time), chain2, i)]
          /\ \E room \in Results("pbuf_alloc") :
                IF room
                THEN /\ net' = net \cup {[type |-> "init", to |-> Other(d), sender |-> i,
                                          ephemeral |-> e, static |-> static, timestamp |-> time,
                                          mac1 |-> Mac1(to, e), mac2 |-> Mac2Of(d, e)]}
                     /\ peer' = [peer EXCEPT ![d].mac1 = Mac1(to, e)]
                ELSE UNCHANGED <<net, peer>>
    /\ UNCHANGED <<conf, keys, secret, made, proven, admitted, restarts>>

\* wireguard_process_initiation_message, the rate limit left out, then
\* wireguard_create_handshake_response and wireguard_start_session
RxInitiation(d, m, a) ==
    LET chain1 == StaticChain(m.ephemeral, Dh(d, m.ephemeral))
        hash1  == InitiationHash(d, m.ephemeral)
        hash2  == MixHash(hash1, m.static)
        chain2 == TimestampChain(chain1, Dh(d, conf[d].peer))
        hash3  == MixHash(hash2, m.timestamp)
        e      == fresh + 1
        chain3 == ResponseChain(chain2, e, Dh(e, m.ephemeral), Dh(e, conf[d].peer), conf[d].psk)
        hash4  == ResponseHash(hash3, e, chain3)
        empty  == Seal(Output(chain3, 3), Nothing, hash4)
    IN
    /\ m.type = "init" /\ m.to = d
    /\ Admitted(d, m, a)
    /\ Opens(m.static, Output(chain1, 2), hash1)
    /\ m.static.text = conf[d].peer
    /\ Opens(m.timestamp, Output(chain2, 2), hash2)
    /\ m.timestamp.text > peer[d].greatest_timestamp
    /\ e <= MaxEph
    /\ fresh' = e
    /\ peer' = [peer EXCEPT ![d].greatest_timestamp = m.timestamp.text]
    /\ \E i \in FreshIndices(keys[d], hs[d]), room \in Results("pbuf_alloc") :
          /\ StartSession(d, Half(FALSE, e, MixHash(hash4, empty), chain3, i), m.sender)
          /\ net' = IF room
                    THEN net \cup {[type |-> "resp", to |-> Other(d), sender |-> i,
                                    receiver |-> m.sender, ephemeral |-> e, empty |-> empty,
                                    mac1 |-> Mac1(conf[d].peer, e), mac2 |-> Mac2Of(d, e)]}
                    ELSE net
    /\ UNCHANGED <<conf, restarts>>

\* peer_lookup_by_handshake
Awaits(d, i) == hs[d].valid /\ hs[d].initiator /\ hs[d].local_index = i

OpensResponse(d, m, chain) ==
    Opens(m.empty, Output(chain, 3), ResponseHash(hs[d].hash, m.ephemeral, chain))

\* wireguard_process_handshake_response, then wireguard_start_session
RxResponse(d, m, a) ==
    LET chain == ResponseChain(hs[d].chain, m.ephemeral, Dh(hs[d].ephemeral, m.ephemeral),
                               Dh(d, m.ephemeral), conf[d].psk)
        hash  == ResponseHash(hs[d].hash, m.ephemeral, chain)
    IN
    /\ m.type = "resp" /\ m.to = d
    /\ Admitted(d, m, a)
    /\ Awaits(d, m.receiver)
    /\ OpensResponse(d, m, chain)
    /\ StartSession(d, [hs[d] EXCEPT !.hash = hash, !.chain = chain], m.sender)
    /\ UNCHANGED <<conf, peer, net, fresh, restarts>>

OpensCookie(d, m) == Opens(m.cookie, conf[d].peer, peer[d].mac1)

\* wireguard_process_cookie_message
RxCookie(d, m) ==
    /\ m.type = "cookie" /\ m.to = d
    /\ Awaits(d, m.receiver)
    /\ peer[d].mac1 # NoMac
    /\ OpensCookie(d, m)
    /\ peer' = [peer EXCEPT ![d].cookie = m.cookie.text, ![d].mac1 = NoMac]
    /\ UNCHANGED <<conf, hs, keys, secret, net, history>>

-----------------------------------------------------------------------------
(* Time and faults *)

\* two minutes after it was drawn, resp. received; only under load is the secret
\* looked at
SecretExpires(d) ==
    /\ d \in Loaded
    /\ ~secret[d].old /\ secret[d].number < MaxSecret
    /\ secret' = [secret EXCEPT ![d].old = TRUE]
    /\ UNCHANGED <<conf, hs, keys, peer, net, history>>

CookieExpires(d) ==
    /\ peer[d].cookie # NoCookie
    /\ peer' = [peer EXCEPT ![d].cookie = NoCookie]
    /\ UNCHANGED <<conf, hs, keys, secret, net, history>>

\* the board restarts and begins again: wireguard_device_init, wireguard_peer_init
Restart(d) ==
    /\ restarts[d] < MaxRestarts /\ secret[d].number < MaxSecret
    /\ restarts' = [restarts EXCEPT ![d] = @ + 1]
    /\ hs' = [hs EXCEPT ![d] = NoHs]
    /\ keys' = [keys EXCEPT ![d] = NoKeys]
    /\ peer' = [peer EXCEPT ![d] = NewPeer]
    /\ secret' = [secret EXCEPT ![d] = [number |-> @.number + 1, old |-> FALSE]]
    /\ proven' = [proven EXCEPT ![d] = {}] /\ admitted' = [admitted EXCEPT ![d] = {}]
    /\ UNCHANGED <<conf, net, fresh, made>>

-----------------------------------------------------------------------------

Receive(d) ==
    \E m \in net :
        \/ \E a \in Address :
              \/ RxInitiation(d, m, a) \/ RxResponse(d, m, a)
              \/ m.type \in {"init", "resp"} /\ m.to = d /\ Refuse(d, m, a)
        \/ RxCookie(d, m)

Next ==
    \E d \in Ends :
        Initiate(d) \/ Receive(d) \/ SecretExpires(d) \/ CookieExpires(d) \/ Restart(d)

Spec == Init /\ [][Next]_vars

-----------------------------------------------------------------------------
(* Properties *)

SessionsOf(d) == {made[d][n] : n \in DOMAIN made[d]}
SendsOn(s) == s.key.keys.sending
HearsOn(s) == s.key.keys.receiving

\* two sessions, one at each end, that belong to one another
Partners(s, t) ==
    /\ s.initiator # t.initiator
    /\ SendsOn(s) = HearsOn(t) /\ HearsOn(s) = SendsOn(t)
    /\ s.key.remote_index = t.local_index /\ t.key.remote_index = s.local_index

\* When the initiator has a session the other end has the other half of it, and
\* no other session there has any of its keys.
InitiatorHasPartner ==
    \A d \in Ends : \A s \in SessionsOf(d) : s.initiator =>
        /\ \E t \in SessionsOf(Other(d)) : Partners(s, t)
        /\ \A t \in SessionsOf(Other(d)) :
              {SendsOn(s), HearsOn(s)} \cap {SendsOn(t), HearsOn(t)} # {} => Partners(s, t)

\* A session is opened only between ends that were given each other's public key
\* and the same preshared key.
OnlyAsConfigured ==
    \A d \in Ends : \A s \in SessionsOf(d) :
        /\ conf[d].peer = Other(d) /\ conf[Other(d)].peer = d
        /\ s.initiator => conf[d].psk = conf[Other(d)].psk

\* No message, late or repeated, and no restart makes an end start a session
\* whose keys it had before: its packets would repeat nonces.
KeysNeverAgain ==
    \A d \in Ends : \A m, n \in DOMAIN made[d] : m # n =>
        {SendsOn(made[d][m]), HearsOn(made[d][m])} \cap {SendsOn(made[d][n]), HearsOn(made[d][n])} = {}

\* An ephemeral private key is forgotten with the handshake that led to a session:
\* what a device still holds cannot open what was sent on the session.
EphemeralForgotten ==
    \A d \in Ends : \A s \in SessionsOf(d) : \A n \in DOMAIN SendsOn(s).chain :
        SendsOn(s).chain[n] # Dh(hs[d].ephemeral, Other(d))
        /\ \A e \in 1 .. fresh : SendsOn(s).chain[n] # Dh(hs[d].ephemeral, e)

\* Whoever is let through under load had a cookie sent to the very address it
\* comes from, under the present secret.
UnderLoadProven == \A d \in Ends : admitted[d] \subseteq proven[d]

\* A cookie is never replaced by one of an older secret, in whatever order the
\* replies to several initiations arrive.
CookieNeverOlder ==
    [][ \A d \in Ends :
          peer[d].cookie # NoCookie /\ peer'[d].cookie # NoCookie
              => peer'[d].cookie[2][2] >= peer[d].cookie[2][2] ]_vars
=============================================================================
