-------------------------- MODULE StreamFileReader --------------------------
(***************************************************************************)
(* FileDecryptor reading a stream file that was sealed by seal_all and then *)
(* damaged at rest: cut short, extended, parts of it lost, parts of itself *)
(* or of another file sealed under the same key put in, fields changed.    *)
(* The caller follows the reader contract (feed exactly next_len, finish   *)
(* when the input ends first), as open_all and the command line do, but    *)
(* may also make calls that the codec has to refuse.                       *)
(***************************************************************************)
EXTENDS StreamFile

CONSTANTS
    Key, OtherKey,      \* the key files are sealed under, and a wrong one
    Streams,            \* headers of the sealed files
    Reading,            \* the stream whose file is read
    Plaintexts,         \* Plaintexts[s]: plaintexts that stream s may hold
    MaxDamage           \* bound on the number of damaging edits

ASSUME ReaderAssumption ==
    /\ NoHeader \notin Streams
    /\ Key # OtherKey
    /\ Reading \in Streams
    /\ \A s \in Streams : Plaintexts[s] \subseteq Seq(Nat)
    /\ \A s \in Streams : \A m \in Plaintexts[s] : FullChunks(m) < CounterMax
    /\ MaxDamage \in Nat

VARIABLES
    plain,      \* plain[s]: the plaintext sealed in stream s
    sealed,     \* sealed[s]: the file seal_all made of it
    file,       \* the cells of the file being read
    damage,     \* number of edits made to it
    pos,        \* cells read so far
    dec,        \* the FileDecryptor
    out,        \* all plaintext it released
    res,        \* what its last call returned, "none" before the first
    outcome     \* "open" until a call finishes or fails the decryptor

vars == <<plain, sealed, file, damage, pos, dec, out, res, outcome>>

Init ==
    /\ plain \in {m \in [Streams -> UNION {Plaintexts[s] : s \in Streams}] :
                   \A s \in Streams : m[s] \in Plaintexts[s]}
    /\ sealed = [s \in Streams |-> SealAll(Key, s, plain[s])]
    /\ file = sealed[Reading]
    /\ damage = 0
    /\ pos = 0
    /\ dec \in {NewDecryptor(k) : k \in {Key, OtherKey}}
    /\ out = << >>
    /\ res = "none"
    /\ outcome = "open"

-----------------------------------------------------------------------------
(***************************************************************************)
(* Damage, before the reading starts.                                      *)
(***************************************************************************)
Damaging(edited) ==
    /\ res = "none"
    /\ damage < MaxDamage
    /\ file' = edited
    /\ damage' = damage + 1
    /\ UNCHANGED <<plain, sealed, pos, dec, out, res, outcome>>

\* Cells i+1..j are lost; with j = Len(file) the file is cut short.
Cut(i, j) == Damaging(SubSeq(file, 1, i) \o SubSeq(file, j + 1, Len(file)))

\* Cells k+1..l of a sealed file, this one or another, are put in after cell i.
Insert(s, i, k, l) ==
    Damaging(SubSeq(file, 1, i) \o SubSeq(sealed[s], k + 1, l)
                \o SubSeq(file, i + 1, Len(file)))

ChangedCells(cell) ==
    CASE cell[1] = "version" -> {VersionCell(v) : v \in Versions \ {cell[2]}}
      [] cell[1] = "header" -> {HeaderCell(h) : h \in (Streams \cup {NoHeader}) \ {cell[2]}}
      [] cell[1] = "tag" -> {TagCell(t) : t \in TagByte \ {cell[2]}}
      [] cell[1] = "len" -> {LenCell(n) : n \in Lengths \ {cell[2]}}
      [] OTHER -> {BadCell}

Change(i) == \E c \in ChangedCells(file[i]) : Damaging([file EXCEPT ![i] = c])

Damage ==
    \/ \E i \in 0 .. Len(file) : \E j \in i + 1 .. Len(file) : Cut(i, j)
    \/ \E s \in Streams : \E i \in 0 .. Len(file) :
          \E k \in 0 .. Len(sealed[s]) : \E l \in k + 1 .. Len(sealed[s]) :
             Insert(s, i, k, l)
    \/ \E i \in 1 .. Len(file) : Change(i)

-----------------------------------------------------------------------------
(***************************************************************************)
(* Calls.  The outcome is settled by the call that leaves the decryptor    *)
(* Done, never later.                                                      *)
(***************************************************************************)
Settle(reply) ==
    /\ dec' = reply.dec
    /\ out' = out \o reply.out
    /\ res' = reply.res
    /\ outcome' = IF dec.state # "Done" /\ reply.dec.state = "Done"
                  THEN IF reply.res = "Ok" THEN "complete" ELSE "failed"
                  ELSE outcome
    /\ UNCHANGED <<plain, sealed, file, damage>>

\* One turn of the loop of open_all while input is left.
FeedCall ==
    /\ pos + NextLen(dec) <= Len(file)
    /\ \E reply \in Feed(dec, SubSeq(file, pos + 1, pos + NextLen(dec)), TRUE) :
          Settle(reply)
    /\ pos' = pos + NextLen(dec)

\* The end of that loop.
FinishCall ==
    /\ pos + NextLen(dec) > Len(file)
    /\ Settle(Finish(dec, TRUE))
    /\ UNCHANGED pos

\* A call with an input of another length or with a short output buffer.
RefusedCall ==
    /\ \E n \in 0 .. Len(file) - pos, outOk \in BOOLEAN :
          /\ n # NextLen(dec) \/ ~outOk
          /\ \E reply \in Feed(dec, SubSeq(file, pos + 1, pos + n), outOk)
                            \cup {Finish(dec, FALSE)} :
                Settle(reply)
    /\ UNCHANGED pos

Next == Damage \/ FeedCall \/ FinishCall \/ RefusedCall

(***************************************************************************)
(* The caller's loop is a plain loop: it keeps calling until it is done.   *)
(***************************************************************************)
Spec == Init /\ [][Next]_vars /\ WF_vars(FeedCall \/ FinishCall)

-----------------------------------------------------------------------------
Subkey == [key : {Key, OtherKey}, header : Streams \cup {NoHeader}, epoch : Nat]
Results == {"Ok", "UnsupportedVersion", "Truncated", "ChunkTooLarge", "BadChunkLength",
            "UnknownTag", "TrailingData", "Auth", "Finished", "InvalidLength",
            "CounterExhausted"}

(***************************************************************************)
(* The decryptor has a pull state exactly between the header and the end,  *)
(* holds plaintext only after a verified Final record, and has no key left *)
(* once the header was read; what is declared of a record body is what the *)
(* checks of the record head allow.                                        *)
(***************************************************************************)
TypeOK ==
    /\ \A s \in Streams : plain[s] \in Plaintexts[s]
    /\ pos \in 0 .. Len(file)
    /\ dec.state \in {"Version", "Header", "RecordHead", "RecordBody", "AfterFinal", "Done"}
    /\ IF dec.state \in {"RecordHead", "RecordBody", "AfterFinal"}
       THEN /\ Len(dec.pull) = 1
            /\ dec.pull[1].subkey \in Subkey
            /\ dec.pull[1].counter \in 0 .. CounterMax
            /\ dec.pull[1].finalized = (dec.state = "AfterFinal")
       ELSE dec.pull = << >>
    /\ dec.key \in IF dec.state \in {"Version", "Header"} THEN {Key, OtherKey} ELSE {Wiped}
    /\ dec.state = "RecordBody" => RecordHeadResult(dec.tag, dec.len) = "Ok"
    /\ dec.held # << >> => dec.state = "AfterFinal"
    /\ res \in Results \cup {"none"}
    /\ outcome \in {"open", "complete", "failed"}

(***************************************************************************)
(* A file that opens is a file that was sealed, field for field: dropping, *)
(* adding or repeating records, extending the file after its Final record, *)
(* or mixing two files never opens.  (A field that comes from elsewhere    *)
(* may happen to have the value it replaces; then it is the same field.)   *)
(***************************************************************************)
Reads(cell, as) ==
    CASE as[1] = "version" -> as[2] \in VersionsOf(cell)
      [] as[1] = "tag" -> as[2] \in TagBytesOf(cell)
      [] as[1] = "len" -> as[2] \in LengthsOf(cell)
      [] OTHER -> cell = as

OpensOnlySealedFiles ==
    outcome = "complete" =>
        \E s \in Streams :
            /\ out = plain[s]
            /\ Len(file) = Len(sealed[s])
            /\ \A i \in 1 .. Len(file) : Reads(file[i], sealed[s][i])

(***************************************************************************)
(* feed and finish implement the delivery contract of the module doc: the  *)
(* plaintext that comes out is always the beginning of one sealed message, *)
(* its last chunk comes out only with the success of finish, after the end *)
(* of the input is known, and the reading loop always ends.                *)
(***************************************************************************)
Contract == INSTANCE Delivery WITH
    messages <- {plain[s] : s \in Streams},
    delivered <- out

Delivers == Contract!Spec

(***************************************************************************)
(* A sealed file that nobody damaged opens under its key, whatever refused *)
(* calls are made on the way.                                              *)
(***************************************************************************)
IntactFileOpens ==
    (damage = 0 /\ dec.state = "Header" /\ dec.key = Key) ~> (outcome = "complete")
=============================================================================
