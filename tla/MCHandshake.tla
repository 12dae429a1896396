---------------------------- MODULE MCHandshake ----------------------------
(* Instances of Handshake for TLC. *)
EXTENDS Handshake, TLC

\* indices, preshared keys and addresses are only compared for equality; so are
\* the ends, where none is under load
CookieSymmetry ==
    Permutations(LocalIndex) \cup Permutations(PresharedKey) \cup Permutations(Address)
HandshakeSymmetry == Permutations(Ends) \cup CookieSymmetry
=============================================================================
