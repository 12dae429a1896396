-------------------------------- MODULE Noise --------------------------------
(***************************************************************************)
(* The computations of the Noise handshake IKpsk2 and of the cookies in    *)
(* wireguard.c, on symbolic terms.  Two byte strings the code computes are *)
(* equal just when their terms are: hashes do not collide, a box opens     *)
(* under its own key and associated data only, and random bytes never      *)
(* repeat.                                                                 *)
(*                                                                         *)
(* A private key and its public key go by one name.  A hash is written as  *)
(* the sequence of what was mixed into it, a chaining key as the sequence  *)
(* of inputs of the KDFs that led to it.  A handshake message is read as a *)
(* whole or not at all, so a MAC over it names its ephemeral key.          *)
(***************************************************************************)
EXTENDS Sequences

Pub(k) == <<"pub", k>>
Psk(q) == <<"psk", q>>
Nothing == <<"empty">>

\* wireguard_x25519: the two ends compute one value from either side
Dh(a, b) == <<"dh", {a, b}>>

MixHash(hash, x) == Append(hash, x)

\* wireguard_kdf1, _kdf2, _kdf3: the first output is the next chaining key,
\* the second and third are keys
Kdf(chain, input) == Append(chain, input)
Output(chain, n) == [chain |-> chain, output |-> n]

\* wireguard_aead_encrypt, wireguard_aead_decrypt
Seal(key, text, ad) == [key |-> key, text |-> text, ad |-> ad]
Opens(box, key, ad) == box.key = key /\ box.ad = ad

\* the keys of a session, in the order of wireguard_kdf2's outputs
SessionKey(chain, n) == Output(Kdf(chain, Nothing), n)

-----------------------------------------------------------------------------
(* Mutated forms of the definitions below, each a slip the code could make. *)

ResponseChainWithoutPsk(chain, e, ee, se, q) ==
    Kdf(Kdf(Kdf(Kdf(chain, Pub(e)), ee), se), Nothing)

ResponseChainWithoutEphemeral(chain, e, ee, se, q) == Kdf(chain, Psk(q))

CookieForAnyone(secret, a) == <<"cookie", secret>>

-----------------------------------------------------------------------------
(* The steps both ends take, each with its own way to the DH values *)

\* after construction_hash and identifier_hash, the responder's static key
\* and the initiator's ephemeral one
InitiationHash(responder, e) == MixHash(MixHash(<<>>, Pub(responder)), Pub(e))
StaticChain(e, es) == Kdf(Kdf(<<>>, Pub(e)), es)
TimestampChain(chain, ss) == Kdf(chain, ss)

\* Cr and Hr, from Ci and Hi and the responder's ephemeral key
ResponseChain(chain, e, ee, se, q) == Kdf(Kdf(Kdf(Kdf(chain, Pub(e)), ee), se), Psk(q))
ResponseHash(hash, e, chain) == MixHash(MixHash(hash, Pub(e)), Output(chain, 2))

\* wireguard_start_session: sending and receiving key of either role
SessionKeys(initiator, chain) ==
    IF initiator
    THEN [sending |-> SessionKey(chain, 1), receiving |-> SessionKey(chain, 2)]
    ELSE [sending |-> SessionKey(chain, 2), receiving |-> SessionKey(chain, 1)]

-----------------------------------------------------------------------------
(* MACs and cookies *)

\* under the key made of the receiver's public key, resp. under the cookie
Mac1(receiver, e) == <<"mac1", receiver, e>>
Mac2(cookie, e) == <<"mac2", cookie, e>>
NoMac == <<"zero">>

\* generate_peer_cookie: bound to the secret and to the sender's address
Cookie(secret, a) == <<"cookie", secret, a>>
NoCookie == <<"none">>
=============================================================================
