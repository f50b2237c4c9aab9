------------------------------- MODULE PubKey -------------------------------
(***************************************************************************)
(* The identifier of a peer, PubKeyHash (src/pubkey.rs): a hash in a buffer *)
(* of fixed size, with its length. Maps of the program find an identifier  *)
(* by its Hash and Eq (connected_peers, requests, queued_requests) or by   *)
(* its Ord (the LruCache known_peers); it travels serialized in messages   *)
(* and as hexadecimal text in mDNS names. The other modules take peers as  *)
(* values that are equal or not. That this is sound is what the theorems   *)
(* about it in PeerRegistryProofs say.                                     *)
(***************************************************************************)
EXTENDS Naturals, Sequences

\* The largest digest of OpenSSL.
EVP_MAX_MD_SIZE == 64

Byte == 0..255

\* A PubKeyHash. Every constructor fills the rest of the buffer with zeros.
\* pub_key holds the original key or nothing.
PubKeyHash(Der) ==
    {key \in [buf : [1..EVP_MAX_MD_SIZE -> Byte],
              len : 0..EVP_MAX_MD_SIZE,
              pub_key : {<<>>} \cup {<<der>> : der \in Der}] :
        \A i \in (key.len + 1)..EVP_MAX_MD_SIZE : key.buf[i] = 0}

-----------------------------------------------------------------------------
(* Constructors *)

FromHashedChecked(hashed) ==
    [buf |-> [i \in 1..EVP_MAX_MD_SIZE |-> IF i <= Len(hashed) THEN hashed[i] ELSE 0],
     len |-> Len(hashed),
     pub_key |-> <<>>]

\* A hash that is too long is refused.
FromHashed(hashed) ==
    IF Len(hashed) > EVP_MAX_MD_SIZE THEN "Err" ELSE FromHashedChecked(hashed)

\* The digest of a public key in DER format, which is kept if store_orig is set.
FromPublicKeyDer(der, digest, store_orig) ==
    [FromHashedChecked(digest) EXCEPT !.pub_key = IF store_orig THEN <<der>> ELSE <<>>]

-----------------------------------------------------------------------------
(* Comparing *)

\* Deref: the hash itself.
Deref(key) == [i \in 1..key.len |-> key.buf[i]]

\* PartialEq::eq
Eq(a, b) == a.len = b.len /\ Deref(a) = Deref(b)

\* Hash::hash feeds the whole buffer to the hasher.
HashInput(key) == key.buf

\* The first difference decides, as for arrays.
Less(a, b) ==
    \E i \in 1..EVP_MAX_MD_SIZE :
        /\ a.buf[i] < b.buf[i]
        /\ \A j \in 1..(i - 1) : a.buf[j] = b.buf[j]

\* Ord::cmp compares the whole buffers.
Cmp(a, b) ==
    IF a.buf = b.buf THEN "Equal" ELSE IF Less(a, b) THEN "Less" ELSE "Greater"

-----------------------------------------------------------------------------
(* Travelling *)

\* The bytes of the hash; the original key stays behind.
Serialize(key) == Deref(key)

Deserialize(vec) ==
    IF Len(vec) > EVP_MAX_MD_SIZE THEN "Err"
    ELSE [buf |-> [i \in 1..EVP_MAX_MD_SIZE |-> IF i <= Len(vec) THEN vec[i] ELSE 0],
          len |-> Len(vec),
          pub_key |-> <<>>]

\* External: hex::encode_upper. A digit is its value.
HexEncode(bytes) ==
    [i \in 1..(2 * Len(bytes)) |->
        IF i % 2 = 1 THEN bytes[(i + 1) \div 2] \div 16 ELSE bytes[i \div 2] % 16]

\* External: what hex::decode accepts, and what it makes of it.
IsHex(digits) == Len(digits) % 2 = 0 /\ \A i \in 1..Len(digits) : digits[i] \in 0..15

HexDecode(digits) ==
    [i \in 1..(Len(digits) \div 2) |-> 16 * digits[2 * i - 1] + digits[2 * i]]

\* Display::fmt
Display(key) == HexEncode(Deref(key))

FromHashedHex(digits) ==
    IF IsHex(digits) THEN FromHashed(HexDecode(digits)) ELSE "Err"

\* MdnsResponderContext::create: the text is too long for one label of a name.
MdnsLabels(key) ==
    LET text == Display(key)
        half == Len(text) \div 2
    IN  <<[i \in 1..half |-> text[i]], [i \in 1..(Len(text) - half) |-> text[half + i]]>>

\* DiscoveryResult::try_from: the dots between the labels are taken out.
MdnsPeer(labels) == FromHashedHex(labels[1] \o labels[2])
=============================================================================
