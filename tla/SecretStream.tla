---------------------------- MODULE SecretStream ----------------------------
(***************************************************************************)
(* The chunk layer of dstu-core's crypto_secretstream: the state a         *)
(* PushState or a PullState holds and what one call of push or pull does   *)
(* to it.  The cryptography is symbolic.  Kupyna256Kmac is an injective    *)
(* derivation, so a subkey is the key and header it was derived from and   *)
(* the number of ratchet steps taken since.  Kalyna256_256Gcm is an ideal  *)
(* AEAD, so an authentication tag is the record of everything it covers    *)
(* and verifies only against exactly that.                                 *)
(***************************************************************************)
EXTENDS Naturals, Sequences

CONSTANTS
    CounterMax      \* u64::MAX: the counter value that has no successor

ASSUME CounterMaxAssumption == CounterMax \in Nat \ {0}

Tag == {"Message", "Push", "Rekey", "Final"}

(***************************************************************************)
(* The tag byte on the wire.  Tag::from_byte maps 0..3 back to the four    *)
(* tags and every other byte to None; all those bytes are "Other".         *)
(***************************************************************************)
TagByte == Tag \cup {"Other"}

FromByte(byte) == IF byte \in Tag THEN {byte} ELSE {}

InitialSubkey(key, header) == [key |-> key, header |-> header, epoch |-> 0]

Rekey(subkey) == [subkey EXCEPT !.epoch = @ + 1]

ChunkAad(counter, tagByte, len) ==
    [counter |-> counter, tag |-> tagByte, len |-> len]

(***************************************************************************)
(* Kalyna256_256Gcm::encrypt and the tag it returns.                       *)
(***************************************************************************)
Encrypt(subkey, iv, plaintext) ==
    [subkey |-> subkey, iv |-> iv, plaintext |-> plaintext]

AuthTag(subkey, iv, aad, ciphertext) ==
    [subkey |-> subkey, iv |-> iv, aad |-> aad, ciphertext |-> ciphertext]

-----------------------------------------------------------------------------
(***************************************************************************)
(* PushState and PullState have the same fields and the same life: created *)
(* at counter 0, advanced by one chunk at a time, closed by Final.         *)
(***************************************************************************)
StreamInit(key, header) ==
    [subkey |-> InitialSubkey(key, header), counter |-> 0, finalized |-> FALSE]

\* Mutant: the counter goes back to 0 one chunk before its limit.
AdvanceWraps(st, tag) ==
    [subkey |-> IF tag = "Rekey" THEN Rekey(st.subkey) ELSE st.subkey,
     counter |-> (st.counter + 1) % CounterMax,
     finalized |-> st.finalized \/ tag = "Final"]

\* The assignments at the end of a successful push or pull.
Advance(st, tag) ==
    [subkey |-> IF tag = "Rekey" THEN Rekey(st.subkey) ELSE st.subkey,
     counter |-> st.counter + 1,
     finalized |-> st.finalized \/ tag = "Final"]

\* The chunk push hands to the transport: tag byte, ciphertext, auth tag.
Chunk(st, tag, plaintext) ==
    LET ciphertext == Encrypt(st.subkey, st.counter, plaintext)
        aad == ChunkAad(st.counter, tag, Len(plaintext))
    IN  [tag |-> tag, ciphertext |-> ciphertext,
         auth |-> AuthTag(st.subkey, st.counter, aad, ciphertext)]

\* Mutant: push without the checked_add.
PushResultUnchecked(st, lengthOk) ==
    IF st.finalized THEN "StreamFinalized"
    ELSE IF ~lengthOk THEN "InvalidLength"
    ELSE "Ok"

\* push's early returns, in order; lengthOk is ciphertext_out.len() ==
\* plaintext.len().
PushResult(st, lengthOk) ==
    IF st.finalized THEN "StreamFinalized"
    ELSE IF ~lengthOk THEN "InvalidLength"
    ELSE IF st.counter = CounterMax THEN "CounterExhausted"
    ELSE "Ok"

\* Mutants: the tag byte, or the position, is left out of what is verified.
VerifiesWithoutTag(st, tagByte, ciphertext, auth, intact) ==
    /\ intact
    /\ auth.subkey = st.subkey /\ auth.iv = st.counter
    /\ auth.ciphertext = ciphertext
VerifiesAnyPosition(st, tagByte, ciphertext, auth, intact) ==
    /\ intact
    /\ auth.subkey = st.subkey /\ auth.aad.tag = tagByte
    /\ auth.ciphertext = ciphertext

\* Kalyna256_256Gcm::decrypt under the iv and aad pull builds; intact says that
\* no bit of the ciphertext or of the auth tag was changed on the way.
Verifies(st, tagByte, ciphertext, auth, intact) ==
    /\ intact
    /\ auth = AuthTag(st.subkey, st.counter,
                      ChunkAad(st.counter, tagByte, Len(ciphertext.plaintext)),
                      ciphertext)

\* pull's early returns, in order; lengthOk is plaintext_out.len() ==
\* ciphertext.len() and auth_tag.len() == TAG_LEN.
PullResult(st, tagByte, ciphertext, auth, intact, lengthOk) ==
    IF st.finalized THEN "StreamFinalized"
    ELSE IF FromByte(tagByte) = {} THEN "UnknownTag"
    ELSE IF ~lengthOk THEN "InvalidLength"
    ELSE IF st.counter = CounterMax THEN "CounterExhausted"
    ELSE IF ~Verifies(st, tagByte, ciphertext, auth, intact) THEN "TagMismatch"
    ELSE "Ok"
=============================================================================
