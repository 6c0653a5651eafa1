------------------------------ MODULE Dstu9041 ------------------------------
(***************************************************************************)
(* dstu-core/src/hazmat/dstu9041/encryption.rs, encryption384.rs and       *)
(* encryption512.rs.  The key wrap is symbolic (KalynaModes has the real   *)
(* one): a wrapped text opens under its own key.  encryption384.rs wraps M' *)
(* itself under the low part of x; the others append a block of zeros and  *)
(* use the whole of x.                                                     *)
(***************************************************************************)
EXTENDS EdwardsCurve

CONSTANTS M_TILDE_BYTES,    \* the length of the block a message is put in
          KAPPA,            \* 2^the bits of x that are the wrapping key
          APPENDED          \* whether the zero block is appended

(***************************************************************************)
(* message.rs, message384.rs and message512.rs: the block M' a message is  *)
(* put in.  The digest in it is symbolic: what it was taken of.            *)
(***************************************************************************)
L_MAX_P == 8 * M_TILDE_BYTES
HASH_ID == 1

Ok(v) == [st |-> "Ok", v |-> v]
Err(e) == [st |-> e]

BytesOf(bits) == (bits + 7) \div 8

\* The checks of the length, and the message in the last bytes of M~.
format_m_tilde(message, bits) ==
    CASE bits = 0 -> Err("ZeroLength")
      [] bits > L_MAX_P -> Err("MessageTooLong")
      [] bits \in 1 .. L_MAX_P /\ Len(message) # BytesOf(bits) -> Err("LengthMismatch")
      [] bits \in 1 .. L_MAX_P /\ Len(message) = BytesOf(bits) ->
            Ok(Zeros(M_TILDE_BYTES - Len(message)) \o message)

Digest(l, m_tilde) == <<l, m_tilde>>

build_m_prime(hash_id, m_tilde, l) ==
    [id |-> hash_id, hash |-> Digest(l, m_tilde), l |-> l, text |-> m_tilde]

\* As if the bytes before the message were not looked at.
parse_m_primeAnyPadding(m) ==
    CASE m.l = 0 -> Err("ZeroLength")
      [] m.l > L_MAX_P -> Err("MessageTooLong")
      [] m.l \in 1 .. L_MAX_P ->
            IF m.hash # Digest(m.l, m.text) THEN Err("HashMismatch")
            ELSE Ok([text |-> m.text, bits |-> m.l])

\* Every byte before the first one the length reaches must be zero; the bits
\* of that byte above the length are not looked at.
parse_m_prime(m) ==
    CASE m.l = 0 -> Err("ZeroLength")
      [] m.l > L_MAX_P -> Err("MessageTooLong")
      [] m.l \in 1 .. L_MAX_P ->
            IF m.hash # Digest(m.l, m.text) THEN Err("HashMismatch")
            ELSE IF \E i \in 1 .. M_TILDE_BYTES - BytesOf(m.l) : m.text[i] # 0
            THEN Err("PaddingNotZero")
            ELSE Ok([text |-> m.text, bits |-> m.l])

-----------------------------------------------------------------------------
Wrap(key, m, tail) == [key |-> key, m |-> m, tail |-> tail]
Unwrap(key, t) == IF t.key = key THEN Some(t) ELSE None

\* The wrapping key: x, or its low part.
kappa_from_x(x) == ToNumber(x) % KAPPA

\* What follows M' in the wrapped text.
AppendedBlock == IF APPENDED THEN "zeros" ELSE "nothing"

\* As if a point of the curve were good enough.
is_usable_recipientAnyOrder(q) == is_on_curve(q)

\* On the curve and not one of its few points of order 1, 2 or 4.
is_usable_recipient(q) ==
    LET q2 == add(q, q)
        q4 == add(q2, q2)
    IN  is_on_curve(q) /\ q4 # NEUTRAL /\ is_on_curve(q4)

encrypt(message, bits, q, epsilon) ==
    LET m == format_m_tilde(message, bits)
        R == scalar_multiply(base_point, epsilon)
        T == scalar_multiply(q, epsilon)
    IN  IF ~is_valid_scalar(epsilon) THEN Err("InvalidEphemeralKey")
        ELSE IF ~is_usable_recipient(q) THEN Err("InvalidPublicKey")
        ELSE IF m.st # "Ok" THEN Err("InvalidMessage")
        ELSE Ok([r |-> ToNumber(R.x),
                 t |-> Wrap(kappa_from_x(T.x), build_m_prime(HASH_ID, m.v, bits), AppendedBlock)])

\* The text of an unwrapped M', if nothing about it is wrong.
Recovered(opened) ==
    LET m == parse_m_prime(opened.v.m)
    IN  IF opened.st = "Some" /\ opened.v.tail = AppendedBlock /\ m.st = "Ok" THEN m
        ELSE Err("InvalidCiphertext")

decrypt(c, e) ==
    LET r == from_candidate_bytes(c.r)
        R == point_from_x(r.v)
        T == scalar_multiply(R.v, e)
    IN  IF is_valid_scalar(e) /\ r.st = "Some" /\ R.st = "Some"
        THEN Recovered(Unwrap(kappa_from_x(T.x), c.t))
        ELSE Err("InvalidCiphertext")

-----------------------------------------------------------------------------
(***************************************************************************)
(* dstu-core/src/crypto_box.rs, crypto_box384.rs and crypto_box512.rs: the *)
(* keys.                                                                   *)
(***************************************************************************)
\* The first of the generator's draws that is in range.
random_valid_scalar(draws) ==
    LET ok == {i \in DOMAIN draws : is_valid_scalar(draws[i])}
    IN  IF ok = {} THEN None ELSE Some(draws[CHOOSE i \in ok : \A j \in ok : i <= j])

SecretKey_from_bytes(e) ==
    IF is_valid_scalar(e) THEN Some([e |-> e, public |-> scalar_multiply(base_point, e)]) ELSE None

\* A public key travels as its x: the y it comes back with may be the negated one.
PublicKey_to_bytes(p) == ToNumber(p.x)
PublicKey_from_bytes(x) ==
    LET f == from_candidate_bytes(x) IN IF f.st = "Some" THEN point_from_x(f.v) ELSE None
=============================================================================
