------------------------------ MODULE Dstu4145 ------------------------------
(***************************************************************************)
(* dstu-core/src/hazmat/dstu4145/signature.rs and signature257.rs.  Hashes *)
(* and the halves of a signature are the numbers their bytes encode.       *)
(***************************************************************************)
EXTENDS BinaryCurve

CONSTANTS KEEP,     \* the bits truncate_162 and truncate_255 keep
          SHAMIR    \* whether verify_combine is the interleaved one (curve163.rs without small-tables)

\* The low M bits; a hash of zero counts as one.
hash_to_field(hash) == ToLimbs(hash % 2 ^ M, LIMBS)
HashElement(hash) == IF hash_to_field(hash) = ZERO THEN ONE ELSE hash_to_field(hash)

truncate(y) == ToNumber(y) % 2 ^ KEEP

verify_combine(g, s, q, r) ==
    IF SHAMIR THEN shamir_double_scalar_multiply(g, s, q, r)
    ELSE add(scalar_multiply(g, s), scalar_multiply(q, r))

\* verify's test of the key: on the curve and in the subgroup.
UsableKey(q) == is_on_curve(q) /\ scalar_multiply(q, N) = Infinity

verify(hash, r, s, q) ==
    /\ r # 0 /\ s # 0 /\ r < N /\ s < N
    /\ UsableKey(q)
    /\ LET R == verify_combine(generator, s, q, r)
       IN  R # Infinity /\ truncate(multiply(HashElement(hash), R[1])) = r

\* As if s = 0 were not looked at.
signAnyS(hash, d, e) ==
    LET F == scalar_multiply(generator, ToNumber(e))
        r == truncate(multiply(HashElement(hash), F[1]))
    IN  IF F = Infinity \/ F[1] = ZERO \/ r = 0 THEN None
        ELSE Some([r |-> r, s |-> ToNumber(Scalar_add(Scalar_multiply(ToLimbs(r, LIMBS), d), e))])

sign(hash, d, e) ==
    LET F == scalar_multiply(generator, ToNumber(e))
        r == truncate(multiply(HashElement(hash), F[1]))
        s == ToNumber(Scalar_add(Scalar_multiply(ToLimbs(r, LIMBS), d), e))
    IN  IF F = Infinity \/ F[1] = ZERO \/ r = 0 \/ s = 0 THEN None
        ELSE Some([r |-> r, s |-> s])

-----------------------------------------------------------------------------
(***************************************************************************)
(* dstu-core/src/crypto_sign.rs and crypto_sign257.rs: keys, and the nonces *)
(* of a signature.                                                         *)
(***************************************************************************)
\* Masked draws until one is in range; the draws of the generator are given.
generate(draws, mask) ==
    LET ok == {i \in DOMAIN draws : from_candidate_bytes(draws[i] % mask).st = "Some"}
    IN  IF ok = {} THEN None
        ELSE from_candidate_bytes(draws[CHOOSE i \in ok : \A j \in ok : i <= j] % mask)

verifying_key(d) == negate(scalar_multiply(generator, ToNumber(d)))

\* A coordinate that does not fit is kept as it is: verify refuses it.
from_uncompressed_bytes(x, y) == Affine(ToLimbs(x, LIMBS), ToLimbs(y, LIMBS))

\* The MAC of the digest and a counter that goes round at 256, modulo N; macs
\* is what the MAC gives for each counter (the KMAC of Kupyna.tla).
derive_nonce(macs, counter, bits) == reduce_wide_bytes(macs[(counter % Len(macs)) + 1], bits)

\* The first counter whose nonce signs.
sign_digest(d, digest, macs, bits) ==
    LET tries == {c \in 0 .. Len(macs) - 1 : sign(digest, d, derive_nonce(macs, c, bits)).st = "Some"}
    IN  IF tries = {} THEN None
        ELSE sign(digest, d, derive_nonce(macs, CHOOSE c \in tries : \A k \in tries : c <= k, bits))
=============================================================================
