------------------------------ MODULE Delivery ------------------------------
(***************************************************************************)
(* What reading an authenticated stream promises, with no cryptography and *)
(* no file in it: plaintext comes out in order, always as the beginning of *)
(* one of the messages that were sealed; the reader is told "complete"     *)
(* only when it has the whole of that message; and reading always ends.    *)
(***************************************************************************)
EXTENDS Naturals, Sequences

VARIABLES
    messages,       \* the set of sealed messages
    delivered,      \* the plaintext released so far
    outcome         \* "open", "complete" or "failed"

vars == <<messages, delivered, outcome>>

IsPrefixOf(s, t) == Len(s) <= Len(t) /\ \A i \in 1 .. Len(s) : s[i] = t[i]

Init ==
    /\ delivered = << >>
    /\ outcome = "open"

\* Some more of a message comes out, never its last part.
Release ==
    /\ outcome = "open"
    /\ \E m \in messages : \E n \in Len(delivered) + 1 .. Len(m) - 1 :
          /\ IsPrefixOf(delivered, m)
          /\ delivered' = SubSeq(m, 1, n)
    /\ UNCHANGED <<messages, outcome>>

\* The last part comes out together with the news that it is the last.
Complete ==
    /\ outcome = "open"
    /\ \E m \in messages : IsPrefixOf(delivered, m) /\ delivered' = m
    /\ outcome' = "complete"
    /\ UNCHANGED messages

Abandon ==
    /\ outcome = "open"
    /\ outcome' = "failed"
    /\ UNCHANGED <<messages, delivered>>

Next == Release \/ Complete \/ Abandon

Spec == Init /\ [][Next]_vars /\ WF_vars(Complete \/ Abandon)
=============================================================================
