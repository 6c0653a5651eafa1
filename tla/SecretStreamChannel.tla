------------------------ MODULE SecretStreamChannel -------------------------
(***************************************************************************)
(* Push and pull states of several streams over a transport that may lose, *)
(* repeat, reorder, mix and damage what it carries.  A stream is named by  *)
(* its header, which PushState::init draws at random: two streams never    *)
(* share one.  A puller was given some key and some header, not always the *)
(* ones of a stream it will be fed from.  The transport is everything ever *)
(* pushed: a puller may be handed any of it at any time.                   *)
(***************************************************************************)
EXTENDS SecretStream

CONSTANTS
    Streams,        \* headers drawn by PushState::init, one per stream
    Headers,        \* headers a puller may be initialised with
    Keys,           \* master keys
    Pullers,        \* PullState instances
    Plaintexts      \* chunk plaintexts, as sequences of bytes

ASSUME ChannelAssumption ==
    /\ Streams \subseteq Headers
    /\ Plaintexts \subseteq Seq(Nat)

VARIABLES
    push,           \* push[s]: the PushState of stream s
    pull,           \* pull[p]: the PullState of puller p
    sent,           \* sent[s]: the chunks push returned for stream s, in order
    got,            \* got[p]: the chunks puller p accepted, in order
    res             \* what the last call returned

vars == <<push, pull, sent, got, res>>

Subkey == [key : Keys, header : Headers, epoch : Nat]
State == [subkey : Subkey, counter : 0 .. CounterMax, finalized : BOOLEAN]
Ciphertext == [subkey : Subkey, iv : Nat, plaintext : Plaintexts]
Aad == [counter : Nat, tag : Tag, len : Nat]
Auth == [subkey : Subkey, iv : Nat, aad : Aad, ciphertext : Ciphertext]
Chunks == [tag : Tag, ciphertext : Ciphertext, auth : Auth]
Result == {"Ok", "StreamFinalized", "InvalidLength", "UnknownTag",
           "CounterExhausted", "TagMismatch"}

InFlight == UNION { {sent[s][i] : i \in 1 .. Len(sent[s])} : s \in Streams }

-----------------------------------------------------------------------------
Init ==
    /\ \E keyOf \in [Streams -> Keys] :
          push = [s \in Streams |-> StreamInit(keyOf[s], s)]
    /\ \E keyOf \in [Pullers -> Keys], headerOf \in [Pullers -> Headers] :
          pull = [p \in Pullers |-> StreamInit(keyOf[p], headerOf[p])]
    /\ sent = [s \in Streams |-> << >>]
    /\ got = [p \in Pullers |-> << >>]
    /\ res = "Ok"

Push(s, tag, plaintext, lengthOk) ==
    /\ res' = PushResult(push[s], lengthOk)
    /\ IF res' = "Ok"
       THEN /\ sent' = [sent EXCEPT ![s] =
                          Append(@, Chunk(push[s], tag, plaintext))]
            /\ push' = [push EXCEPT ![s] = Advance(@, tag)]
       ELSE UNCHANGED <<sent, push>>
    /\ UNCHANGED <<pull, got>>

\* Mutant: the state moves on before the chunk is verified.
PullAdvancesFirst(p, tagByte, ciphertext, auth, intact, lengthOk) ==
    /\ res' = PullResult(pull[p], tagByte, ciphertext, auth, intact, lengthOk)
    /\ pull' = [pull EXCEPT ![p] =
                  IF res' \in {"Ok", "TagMismatch"} THEN Advance(@, tagByte) ELSE @]
    /\ got' = [got EXCEPT ![p] =
                 IF res' = "Ok"
                 THEN Append(@, [tag |-> tagByte, ciphertext |-> ciphertext,
                                 auth |-> auth])
                 ELSE @]
    /\ UNCHANGED <<push, sent>>

Pull(p, tagByte, ciphertext, auth, intact, lengthOk) ==
    /\ res' = PullResult(pull[p], tagByte, ciphertext, auth, intact, lengthOk)
    /\ IF res' = "Ok"
       THEN /\ got' = [got EXCEPT ![p] =
                         Append(@, [tag |-> tagByte, ciphertext |-> ciphertext,
                                    auth |-> auth])]
            /\ pull' = [pull EXCEPT ![p] = Advance(@, tagByte)]
       ELSE UNCHANGED <<got, pull>>
    /\ UNCHANGED <<push, sent>>

Next ==
    \/ \E s \in Streams, tag \in Tag, plaintext \in Plaintexts, lengthOk \in BOOLEAN :
          Push(s, tag, plaintext, lengthOk)
    \/ \E p \in Pullers, c \in InFlight, d \in InFlight, tagByte \in TagByte,
          intact \in BOOLEAN, lengthOk \in BOOLEAN :
          Pull(p, tagByte, c.ciphertext, d.auth, intact, lengthOk)

Spec == Init /\ [][Next]_vars

-----------------------------------------------------------------------------
(***************************************************************************)
(* Every state field, chunk and result has its type; in particular no      *)
(* counter ever passes the value checked_add refuses to step over.         *)
(***************************************************************************)
TypeOK ==
    /\ push \in [Streams -> State]
    /\ pull \in [Pullers -> State]
    /\ sent \in [Streams -> Seq(Chunks)]
    /\ got \in [Pullers -> Seq(Chunks)]
    /\ res \in Result

(***************************************************************************)
(* The pair (subkey, chunk_iv(counter)) is never used for two encryptions, *)
(* in one stream or in two, across rekeys and at the counter's limit.      *)
(***************************************************************************)
NoIvReuse ==
    \A s, t \in Streams : \A i \in 1 .. Len(sent[s]), j \in 1 .. Len(sent[t]) :
        /\ sent[s][i].ciphertext.subkey = sent[t][j].ciphertext.subkey
        /\ sent[s][i].ciphertext.iv = sent[t][j].ciphertext.iv
        => s = t /\ i = j

\* Puller p was given the key and the header of a stream.
Matched(p) ==
    /\ pull[p].subkey.header \in Streams
    /\ push[pull[p].subkey.header].subkey.key = pull[p].subkey.key

SentTo(p) == sent[pull[p].subkey.header]

(***************************************************************************)
(* What PullState::pull accepts is exactly the first chunks of its own     *)
(* stream, in order, with their tags: nothing lost, repeated, reordered,   *)
(* altered or taken from another stream is let through.                    *)
(***************************************************************************)
AcceptedIsPrefix ==
    \A p \in Pullers :
        IF Matched(p)
        THEN /\ Len(got[p]) <= Len(SentTo(p))
             /\ \A i \in 1 .. Len(got[p]) : got[p][i] = SentTo(p)[i]
        ELSE got[p] = << >>

(***************************************************************************)
(* A puller that reports is_finalized() has everything the pusher sent and *)
(* the pusher is closed: Final cannot be forged out of another tag.        *)
(***************************************************************************)
FinalMeansComplete ==
    \A p \in Pullers :
        pull[p].finalized =>
            /\ Matched(p)
            /\ push[pull[p].subkey.header].finalized
            /\ Len(got[p]) = Len(SentTo(p))

(***************************************************************************)
(* However many damaged or misplaced chunks it was handed, a puller that   *)
(* is behind its stream still accepts the next genuine chunk: pull returns *)
(* before touching the state, and both sides ratchet at the same chunks.   *)
(***************************************************************************)
Resumable ==
    \A p \in Pullers :
        Matched(p) /\ Len(got[p]) < Len(SentTo(p)) =>
            LET c == SentTo(p)[Len(got[p]) + 1]
            IN  PullResult(pull[p], c.tag, c.ciphertext, c.auth, TRUE, TRUE) = "Ok"
=============================================================================
