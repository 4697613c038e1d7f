------------------------------- MODULE Curve -------------------------------
(***************************************************************************)
(* Keys as bytes, curve.c.  The two halves of a key pair are the same      *)
(* bytes here.  Hashes, message authentication codes and signatures are    *)
(* the application's crypto provider's and the curve library's: they are   *)
(* one polynomial hash of the key, a separator that is not a byte, and the *)
(* data, of DIGEST_LEN bytes.                                              *)
(***************************************************************************)
EXTENDS Protobuf

CONSTANTS DJB_KEY_LEN,    \* bytes of a key (32)
          HASH_PRIME,     \* the modulus of the hash, at most 2^(3 * (VARINT_BITS + 1))
          HASH_FACTOR     \* its multiplier

ASSUME CurveAssumption ==
  DJB_KEY_LEN \in Nat \ {0} /\ HASH_PRIME \in Nat \ {0} /\ HASH_FACTOR \in Nat

DJB_TYPE == 5

\* A byte has one bit more than its share of a varint.
BYTE == 2 * CONT

\* The length of a digest, of a MAC (SIGNAL_MESSAGE_MAC_LENGTH) and of a signature
\* (CURVE_SIGNATURE_LEN).
DIGEST_LEN == 3

HashNumber(data) == FoldLeft(LAMBDA h, b : (h * HASH_FACTOR + b + 1) % HASH_PRIME, 1, data)

\* sha512_digest_func
Sha512Digest(data) == LittleEndian(HashNumber(data), DIGEST_LEN)

\* hmac_sha256_init, hmac_sha256_update and hmac_sha256_final
HmacSha256(key, data) == Sha512Digest(key \o <<BYTE>> \o data)

\* curve_calculate_signature
CalculateSignature(key, data) == Sha512Digest(key \o <<BYTE + 1>> \o data)

\* curve_verify_signature
VerifySignature(key, data, signature) ==
  Len(signature) = DIGEST_LEN /\ signature = CalculateSignature(key, data)

\* ec_public_key_serialize and ec_public_key_serialize_protobuf
EcPublicKeySerialize(key) == <<DJB_TYPE>> \o key

\* curve_decode_point: whether the bytes are a public key, and the key.
IsPoint(data) == Len(data) = DJB_KEY_LEN + 1 /\ data[1] = DJB_TYPE
DecodePoint(data) == Tail(data)

\* curve_decode_private_point; the key is the data.
IsPrivatePoint(data) == Len(data) = DJB_KEY_LEN
=============================================================================
