-------------------------------- MODULE Hkdf --------------------------------
(***************************************************************************)
(* The key derivation function, hkdf.c, whose loop counter is a byte.  The *)
(* versions of the messages start it at 0 or at 1.                         *)
(***************************************************************************)
EXTENDS Curve

CONSTANT HKDF_COUNTER   \* values of the loop counter of hkdf_expand (256)

ASSUME HkdfAssumption == HKDF_COUNTER \in Nat \ 0..1

\* hkdf_create: the first value of the counter, None for another version.
IterationStartOffset(version) ==
  CASE version = 2 -> 0
    [] version = 3 -> 1
    [] OTHER -> None

\* hkdf_extract
HkdfExtract(salt, material) == HmacSha256(salt, material)

\* The loop ends only if the counter reaches this value.
HkdfEnd(offset, output_len) == (output_len + DIGEST_LEN - 1) \div DIGEST_LEN + offset

\* Mutant: a block is not derived from the one before it.
HkdfStepUnchained(prk, info, step, i) == HmacSha256(prk, info \o <<i>>)

\* A block of the output.  step is the previous one, empty at first.
HkdfStep(prk, info, step, i) == HmacSha256(prk, step \o info \o <<i>>)

\* The loop of hkdf_expand, at counter i with out as the output so far
RECURSIVE HkdfLoop(_, _, _, _, _, _, _)
HkdfLoop(prk, info, step, i, end, out, remaining) ==
  IF i >= end THEN out
  ELSE LET next == HkdfStep(prk, info, step, i)
           size == Min({remaining, DIGEST_LEN})
       IN HkdfLoop(prk, info, next, (i + 1) % HKDF_COUNTER, end, out \o SubSeq(next, 1, size),
                   remaining - size)

\* hkdf_expand; None stands for a loop that does not end.
HkdfExpand(offset, prk, info, output_len) ==
  IF HkdfEnd(offset, output_len) >= HKDF_COUNTER THEN None
  ELSE HkdfLoop(prk, info, <<>>, offset, HkdfEnd(offset, output_len), <<>>, output_len)

\* hkdf_derive_secrets
HkdfDeriveSecrets(version, material, salt, info, output_len) ==
  HkdfExpand(IterationStartOffset(version), HkdfExtract(salt, material), info, output_len)
=============================================================================
