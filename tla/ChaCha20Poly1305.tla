---------------------------- MODULE ChaCha20Poly1305 ----------------------------
(***************************************************************************)
(* chacha20poly1305.c and chacha20.c around the block function: how the    *)
(* keystream is dealt out to the MAC's key and to the text, what the MAC   *)
(* is taken over, and in which order decryption checks and decrypts.       *)
(*                                                                         *)
(* A byte is the set of the atoms whose exclusive or it is: zero is the    *)
(* empty set, a byte of the keystream one atom of its own, which stands    *)
(* for the block function.  A tag is its one-time key and its input, and   *)
(* is compared as a whole; Poly1305 has how the input is fed in pieces.    *)
(***************************************************************************)
EXTENDS Poly1305

CONSTANTS
    StreamBlock,    \* 64, CHACHA20_BLOCK_SIZE
    MacKeyLen       \* 32, POLY1305_KEY_SIZE

ASSUME ChaCha20Assumption ==
    /\ {StreamBlock, MacKeyLen} \subseteq Nat \ {0}
    /\ MacKeyLen <= StreamBlock

\* the byte of value n, and the byte i of a block of the keystream
Plain(n) == IF n = 0 THEN {} ELSE {<<"plain", n>>}
Stream(ctx, i) == {<<"stream", ctx.key, ctx.nonce, ctx.counter, i>>}
Xor(x, y) == (x \ y) \cup (y \ x)

Zeros(n) == [i \in 1 .. n |-> Plain(0)]

-----------------------------------------------------------------------------
(* Mutated forms of the definitions below, each a slip the code could make. *)

BlocksUsedButLast(n) == n \div StreamBlock

MacInputWithoutLengths(ad, text) ==
    ad \o Zeros((BlockSize - (Len(ad) % BlockSize)) % BlockSize)
       \o text \o Zeros((BlockSize - (Len(text) % BlockSize)) % BlockSize)

-----------------------------------------------------------------------------

\* chacha20_init
ChaChaInit(key, nonce) == [key |-> key, nonce |-> nonce, counter |-> 0]

\* a call leaves the rest of its last block unused
BlocksUsed(n) == (n + StreamBlock - 1) \div StreamBlock

ChaCha20(ctx, in) ==
    [out |-> [i \in 1 .. Len(in) |->
                 Xor(in[i], Stream([ctx EXCEPT !.counter = @ + (i - 1) \div StreamBlock],
                                   (i - 1) % StreamBlock))],
     ctx |-> [ctx EXCEPT !.counter = @ + BlocksUsed(Len(in))]]

\* generate_poly1305_key: the first bytes of block 0
MacKey(key, nonce) == ChaCha20(ChaChaInit(key, nonce), Zeros(MacKeyLen))

Padding(n) == Zeros((BlockSize - (n % BlockSize)) % BlockSize)

\* the additional data and the text, each filled up to a block, and their lengths
MacInput(ad, text) ==
    ad \o Padding(Len(ad)) \o text \o Padding(Len(text)) \o <<Plain(Len(ad)), Plain(Len(text))>>

Tag(mackey, ad, text) == [key |-> mackey.out, input |-> MacInput(ad, text)]

Encrypt(key, nonce, ad, text) ==
    LET mackey == MacKey(key, nonce)
        sealed == ChaCha20(mackey.ctx, text)
    IN  [text |-> sealed.out, tag |-> Tag(mackey, ad, sealed.out)]

\* The tag first.  A box is a text and a tag: what is shorter than a tag, and refused
\* before that (chacha20poly1305.c:122), is no box.
Decrypt(key, nonce, ad, box) ==
    LET mackey == MacKey(key, nonce) IN
    IF box.tag = Tag(mackey, ad, box.text)
    THEN [result |-> TRUE, text |-> ChaCha20(mackey.ctx, box.text).out]
    ELSE [result |-> FALSE, text |-> <<>>]

\* xchacha20poly1305: a key made of the first part of the nonce, the rest as nonce
SubKey(key, nonce) == <<"hchacha20", key, nonce[1]>>
XEncrypt(key, nonce, ad, text) == Encrypt(SubKey(key, nonce), nonce[2], ad, text)
XDecrypt(key, nonce, ad, box) == Decrypt(SubKey(key, nonce), nonce[2], ad, box)
=============================================================================
