-------------------------- MODULE OutputFileLemmas --------------------------
(***************************************************************************)
(* What the proofs of OutputFileProofs rest on: the facts about the        *)
(* commands and about the interruption table, and the part of the          *)
(* inductive invariant that is about one process alone.                    *)
(***************************************************************************)
EXTENDS OutputFile, TLAPS

\* The steps of a command.
KeySteps == {"keyCreate", "keyWrite", "keyRemove"}
WriteSteps == {"write", "sync", "holdOff", "release", "rename", "committed"}
DropSteps == {"dropTmp", "dropPlaceholder", "dropGuards"}

\* What a temp file may hold, and the entries a table of p may have.
Contents == {"none", "partial", "whole"}
Entries(p) == {NoEntry} \cup {PathEntry(i) : i \in Outs(p)} \cup {TmpEntry(i) : i \in Outs(p)}

\* A command of a scenario: one output or three, each with its own path, and
\* room for two table entries each.
LEMMA CommandFacts ==
    ASSUME cmd \in Scenarios, NEW p \in Procs
    PROVE  /\ cmd[p].outs \in Seq(Paths)
           /\ cmd[p].force \in BOOLEAN /\ cmd[p].key \in BOOLEAN /\ cmd[p].signals \in BOOLEAN
           /\ Len(cmd[p].outs) \in {1, 3} /\ Outs(p) = 1 .. Len(cmd[p].outs)
           /\ cmd[p].key => Len(cmd[p].outs) = 1
           /\ SLOTS \in Nat /\ 2 * Len(cmd[p].outs) <= SLOTS
           /\ p \in AllProcs /\ p # Nobody
           /\ \A i \in Outs(p) : PathOf(p, i) \in Paths
           /\ \A i, j \in Outs(p) : PathOf(p, i) = PathOf(p, j) => i = j
<1>1. p \in DOMAIN cmd /\ p \in AllProcs /\ p # Nobody
  BY OutputFileAssumption, Zenon DEF Procs, AllProcs
<1>2. /\ cmd[p] \in Command /\ Len(cmd[p].outs) \in (IF cmd[p].key THEN {1} ELSE {1, 3})
      /\ \A i, j \in 1 .. Len(cmd[p].outs) : cmd[p].outs[i] = cmd[p].outs[j] => i = j
      /\ 2 * Len(cmd[p].outs) <= SLOTS /\ SLOTS \in Nat
  BY <1>1, OutputFileAssumption, Zenon
<1>3. /\ cmd[p].outs \in Seq(Paths) /\ cmd[p].force \in BOOLEAN /\ cmd[p].key \in BOOLEAN
      /\ cmd[p].signals \in BOOLEAN
  BY <1>2, Zenon DEF Command
<1>4. \A i \in Outs(p) : PathOf(p, i) \in Paths
  BY <1>3 DEF PathOf, Outs
<1>5. \A i, j \in Outs(p) : PathOf(p, i) = PathOf(p, j) => i = j
  BY <1>2, Zenon DEF PathOf, Outs
<1>6. QED
  BY <1>1, <1>2, <1>3, <1>4, <1>5, Zenon DEF Outs

\* Entries of different files differ.
LEMMA EntryFacts ==
    /\ \A i, j : PathEntry(i) = PathEntry(j) => i = j
    /\ \A i, j : TmpEntry(i) = TmpEntry(j) => i = j
    /\ \A i, j : PathEntry(i) # TmpEntry(j)
    /\ \A i : PathEntry(i) # NoEntry /\ TmpEntry(i) # NoEntry
    /\ \A i : PathEntry(i)[2] = i /\ TmpEntry(i)[2] = i
  BY Zenon DEF PathEntry, TmpEntry, NoEntry

-----------------------------------------------------------------------------
(***************************************************************************)
(* The invariant of one process.                                           *)
(***************************************************************************)
\* The domains of the variables.
Domains ==
    /\ DOMAIN tmp = Procs /\ DOMAIN pc = Procs /\ DOMAIN at = Procs /\ DOMAIN live = Procs
    /\ DOMAIN placeholder = Procs /\ DOMAIN temped = Procs /\ DOMAIN table = Procs
    /\ DOMAIN installed = Procs /\ DOMAIN hold = Procs /\ DOMAIN handler = Procs
    /\ DOMAIN loaded = Procs /\ DOMAIN status = Procs /\ DOMAIN renameFailed = Procs
    /\ DOMAIN unremoved = Procs

\* The types of what belongs to p.
ValuesTyped(p) ==
    /\ at[p] \in Outs(p) /\ tmp[p] \in [Outs(p) -> Contents]
    /\ live[p] \subseteq Outs(p) /\ placeholder[p] \subseteq Outs(p) /\ temped[p] \subseteq Outs(p)
TableTyped(p) ==
    table[p] \in [Slots -> Entries(p)] /\ loaded[p] \in Entries(p) /\ handler[p] \in Nat

Typed ==
    /\ cmd \in Scenarios /\ DOMAIN fs = Paths /\ Domains
    /\ \A p \in Procs : ValuesTyped(p) /\ TableTyped(p)

\* The values still to be committed, in the order out, tag, nonce.
Pending(p) ==
    IF Len(cmd[p].outs) = 1 THEN {1}
    ELSE IF at[p] = 1 THEN {1, 2, 3} ELSE IF at[p] = 3 THEN {2, 3} ELSE {2}

\* Which OutputFile values exist, by the step the command is at.
PhaseInv(p) ==
    /\ IF cmd[p].key THEN pc[p] \in KeySteps /\ live[p] = {} /\ ~installed[p]
       ELSE pc[p] \notin KeySteps
    /\ cmd[p].force => placeholder[p] = {}
    /\ status[p] \in {"ok", "error"} => live[p] = {}
    /\ status[p] = "running" =>
          /\ pc[p] = "create" =>
                /\ live[p] = 1 .. at[p] - 1 /\ temped[p] = 1 .. at[p] - 1
                /\ ~cmd[p].force => placeholder[p] = 1 .. at[p] - 1
          /\ pc[p] \in {"guardPlaceholder", "createTmp", "guardTmp"} =>
                /\ live[p] = 1 .. at[p] /\ temped[p] = 1 .. at[p] - 1
                /\ ~cmd[p].force => placeholder[p] = 1 .. at[p]
          /\ pc[p] = "guardPlaceholder" => ~cmd[p].force
          /\ pc[p] \in WriteSteps =>
                /\ live[p] = Pending(p) /\ temped[p] = Outs(p)
                /\ ~cmd[p].force => placeholder[p] = Outs(p)
          /\ pc[p] \in DropSteps => at[p] \in live[p]

\* Drop was refused the removal of a file of p.
Stuck(p, entry) == entry \in unremoved[p] /\ pc[p] \in DropSteps

\* A temp file belongs to a value that exists and knows of it, except between
\* its creation and the end of create, and after a refused removal.
TmpInv(p) ==
    /\ \A i \in Outs(p) :
          tmp[p][i] # "none" =>
              \/ i \in live[p] /\ (i \in temped[p] \/ (i = at[p] /\ pc[p] = "guardTmp"))
              \/ Stuck(p, TmpEntry(i))
    /\ status[p] = "running" /\ pc[p] \in {"dropPlaceholder", "dropGuards", "committed"} =>
          tmp[p][at[p]] = "none" \/ Stuck(p, TmpEntry(at[p]))
    /\ status[p] = "running" /\ pc[p] \in {"sync", "holdOff", "release", "rename"} =>
          tmp[p][at[p]] # "partial"

\* Who holds off whom, and where the handler is.
HoldInv(p) ==
    /\ hold[p] = "command" <=> pc[p] \in {"release", "rename"}
    /\ hold[p] = "handler" <=> handler[p] \in 1 .. SLOTS + 1
    /\ handler[p] # 0 => cmd[p].signals /\ installed[p]
    /\ loaded[p] # NoEntry => handler[p] \in Slots
    /\ platform = "unix" /\ loaded[p] # NoEntry => loaded[p] = table[p][handler[p]]

\* What the table names.
TableInv(p) ==
    /\ \A s \in Slots :
          \/ table[p][s] = NoEntry
          \/ \E i \in placeholder[p] \cap live[p] : table[p][s] = PathEntry(i)
          \/ \E i \in temped[p] \cap live[p] : table[p][s] = TmpEntry(i)
    /\ \A s \in Slots : table[p][s] # NoEntry => installed[p]
    /\ \A s, t \in Slots : table[p][s] = table[p][t] /\ s # t => table[p][s] = NoEntry
    /\ status[p] = "running" /\ pc[p] \in {"guardPlaceholder", "rename", "committed"} =>
          \A s \in Slots : table[p][s] # PathEntry(at[p])
    /\ \A i \in Outs(p) :
          tmp[p][i] # "none" =>
              \/ \E s \in Slots : table[p][s] = TmpEntry(i)
              \/ i = at[p] /\ pc[p] = "guardTmp"
              \/ Stuck(p, TmpEntry(i))

-----------------------------------------------------------------------------
\* A step of p.
Step(p) == OutputStep(p) \/ KeyStep(p) \/ Interrupt(p) \/ HandlerStep(p)

\* What belongs to q alone is left alone.
Kept(q) ==
    /\ tmp'[q] = tmp[q] /\ pc'[q] = pc[q] /\ at'[q] = at[q] /\ live'[q] = live[q]
    /\ placeholder'[q] = placeholder[q] /\ temped'[q] = temped[q] /\ table'[q] = table[q]
    /\ installed'[q] = installed[q] /\ hold'[q] = hold[q] /\ handler'[q] = handler[q]
    /\ loaded'[q] = loaded[q] /\ status'[q] = status[q] /\ renameFailed'[q] = renameFailed[q]
    /\ unremoved'[q] = unremoved[q]

\* No step changes the platform or the commands; a step of p leaves the other
\* processes alone.
LEMMA StepKeeps ==
    ASSUME Domains, NEW p \in Procs, Step(p)
    PROVE  UNCHANGED given /\ Domains' /\ \A q \in Procs : q # p => Kept(q)
<1> USE DEF Domains, Procs, Kept, given, valueVars, cleanupVars
<1>1. CASE Create(p)
  BY <1>1, Zenon DEF Create, At, Goto, Put
<1>2. CASE GuardPlaceholder(p)
  BY <1>2, Zenon DEF GuardPlaceholder, At, Goto, Register
<1>3. CASE CreateTmp(p)
  BY <1>3, Zenon DEF CreateTmp, At, Goto
<1>4. CASE GuardTmp(p)
  BY <1>4, Zenon DEF GuardTmp, At, Goto, GotoAt, Register
<1>5. CASE Write(p)
  BY <1>5, Zenon DEF Write, At, Goto
<1>6. CASE Sync(p)
  BY <1>6, Zenon DEF Sync, At, Goto
<1>7. CASE HoldOff(p)
  BY <1>7, Zenon DEF HoldOff, At, Goto
<1>8. CASE ReleasePlaceholder(p)
  BY <1>8, Zenon DEF ReleasePlaceholder, At, Goto, Release
<1>9. CASE Rename(p)
  BY <1>9, Zenon DEF Rename, At, Goto, Put
<1>10. CASE Committed(p)
  BY <1>10, Zenon DEF Committed, At, Goto, GotoAt, Exit, Release
<1>11. CASE DropTmp(p)
  BY <1>11, Zenon DEF DropTmp, At, Goto, RemoveTmp, Refused
<1>12. CASE DropPlaceholder(p)
  BY <1>12, Zenon DEF DropPlaceholder, At, Goto, RemoveOutput, Refused
<1>13. CASE DropGuards(p)
  BY <1>13, Zenon DEF DropGuards, At, Goto, GotoAt, Exit, Release
<1>14. CASE KeyCreate(p)
  BY <1>14, Zenon DEF KeyCreate, At, Goto, Exit, Put
<1>15. CASE KeyWrite(p)
  BY <1>15, Zenon DEF KeyWrite, At, Goto, Exit, Put
<1>16. CASE KeyRemove(p)
  BY <1>16, Zenon DEF KeyRemove, At, Exit, RemoveOutput, Refused
<1>17. CASE Interrupt(p)
  BY <1>17, Zenon DEF Interrupt, Exit
<1>18. CASE HandlerLoad(p)
  BY <1>18, Zenon DEF HandlerLoad
<1>19. CASE HandlerDelete(p)
  BY <1>19, Zenon DEF HandlerDelete, RemoveOutput, RemoveTmp, Refused
<1>20. CASE HandlerReturn(p)
  BY <1>20, Zenon DEF HandlerReturn, Exit
<1>21. CASE DefaultHandler(p)
  BY <1>21, Zenon DEF DefaultHandler, Exit
<1>22. QED
  BY <1>1, <1>2, <1>3, <1>4, <1>5, <1>6, <1>7, <1>8, <1>9, <1>10, <1>11, <1>12, <1>13, <1>14,
     <1>15, <1>16, <1>17, <1>18, <1>19, <1>20, <1>21, Zenon, Zenon
  DEF Step, OutputStep, KeyStep, HandlerStep

\* What is true of q alone stays true when q's part is kept.
LEMMA KeptLocal ==
    ASSUME UNCHANGED given, NEW q, Kept(q), ValuesTyped(q), TableTyped(q), PhaseInv(q), TmpInv(q),
           HoldInv(q), TableInv(q)
    PROVE  /\ ValuesTyped(q)' /\ TableTyped(q)' /\ PhaseInv(q)' /\ TmpInv(q)'
           /\ HoldInv(q)' /\ TableInv(q)'
<1>1. Outs(q)' = Outs(q) /\ cmd' = cmd /\ platform' = platform
  BY Zenon DEF Outs, given
<1>2. ValuesTyped(q)'
  BY <1>1, Zenon DEF ValuesTyped, Kept
<1>3. TableTyped(q)'
  BY <1>1, Zenon DEF TableTyped, Kept, Entries
<1>4. PhaseInv(q)'
  BY <1>1, Zenon DEF PhaseInv, Kept, Pending
<1>5. TmpInv(q)'
  BY <1>1, Zenon DEF TmpInv, Kept, Stuck
<1>6. HoldInv(q)'
  BY <1>1, Zenon DEF HoldInv, Kept
<1>7. TableInv(q)'
  BY <1>1 DEF TableInv, Kept, Stuck
<1>8. QED
  BY <1>2, <1>3, <1>4, <1>5, <1>6, <1>7, Zenon

\* The entry goes to a free slot.
Registered(p, entry) ==
    /\ installed' = [installed EXCEPT ![p] = TRUE]
    /\ \E s \in Slots : table[p][s] = NoEntry /\ table' = [table EXCEPT ![p][s] = entry]

\* The table never fills up: it has two slots for every output, and no entry twice.
LEMMA RegisterFinds ==
    ASSUME Typed, NEW p \in Procs, TableInv(p), NEW entry \in Entries(p), entry # NoEntry,
           \A s \in Slots : table[p][s] # entry, Register(p, entry)
    PROVE  Registered(p, entry)
<1> DEFINE free == {s \in Slots : table[p][s] = NoEntry}
           L == Len(cmd[p].outs)
           Code(e) == IF e[1] = "path" THEN e[2] ELSE L + e[2]
<1>1. L \in {1, 3} /\ SLOTS \in Nat /\ 2 * L <= SLOTS /\ Outs(p) = 1 .. L
  BY CommandFacts, Zenon DEF Typed
<1>2. \A e \in Entries(p) : e # NoEntry => Code(e) \in 1 .. 2 * L
  BY <1>1 DEF Entries, PathEntry, TmpEntry, NoEntry
<1>3. \A d, e \in Entries(p) : d # NoEntry /\ e # NoEntry /\ Code(d) = Code(e) => d = e
  <2> SUFFICES ASSUME NEW d \in Entries(p), NEW e \in Entries(p), d # NoEntry, e # NoEntry,
                      Code(d) = Code(e)
               PROVE  d = e
    BY Zenon
  <2>1. PICK i \in 1 .. L : d = PathEntry(i) \/ d = TmpEntry(i)
    BY <1>1, Zenon DEF Entries
  <2>2. PICK j \in 1 .. L : e = PathEntry(j) \/ e = TmpEntry(j)
    BY <1>1, Zenon DEF Entries
  <2>3. Code(d) = (IF d = PathEntry(i) THEN i ELSE L + i)
    BY <2>1 DEF PathEntry, TmpEntry
  <2>4. Code(e) = (IF e = PathEntry(j) THEN j ELSE L + j)
    BY <2>2 DEF PathEntry, TmpEntry
  <2> HIDE DEF Code, L
  <2>5. CASE d = PathEntry(i) /\ e = PathEntry(j)
    <3>1. i = j
      BY <2>3, <2>4, <2>5, Zenon
    <3>2. QED
      BY <2>5, <3>1, Zenon
  <2>6. CASE d # PathEntry(i) /\ e # PathEntry(j)
    <3>1. L + i = L + j
      BY <2>3, <2>4, <2>6, Zenon
    <3>2. i = j
      BY <1>1, <3>1
    <3>3. QED
      BY <2>1, <2>2, <2>6, <3>2, Zenon
  <2>7. CASE d = PathEntry(i) /\ e # PathEntry(j)
    <3>1. i = L + j
      BY <2>3, <2>4, <2>7, Zenon
    <3>2. QED
      BY <1>1, <3>1
  <2>8. CASE d # PathEntry(i) /\ e = PathEntry(j)
    <3>1. L + i = j
      BY <2>3, <2>4, <2>8, Zenon
    <3>2. QED
      BY <1>1, <3>1
  <2>9. QED
    BY <2>5, <2>6, <2>7, <2>8, Zenon
<1>4. /\ \A s \in Slots : table[p][s] \in Entries(p)
      /\ \A s, t \in Slots : table[p][s] = table[p][t] /\ s # t => table[p][s] = NoEntry
  BY Zenon DEF Typed, TableTyped, TableInv
<1> HIDE DEF Code, L
<1>5. free # {}
  <2> SUFFICES ASSUME \A s \in Slots : table[p][s] # NoEntry PROVE FALSE
    BY Zenon
  <2> DEFINE c(s) == Code(table[p][s])
  <2>1. \A s \in 1 .. 2 * L :
           /\ c(s) \in 1 .. 2 * L /\ c(s) # Code(entry)
           /\ \A t \in 1 .. 2 * L : s # t => c(s) # c(t)
    <3>1. \A s \in 1 .. 2 * L : s \in Slots
      BY <1>1 DEF Slots
    <3>2. QED
      BY <1>2, <1>3, <1>4, <3>1, Zenon
  <2>2. Code(entry) \in 1 .. 2 * L
    BY <1>2, Zenon
  <2> HIDE DEF c
  <2>3. CASE L = 1
    <3>1. c(1) \in 1 .. 2 /\ c(2) \in 1 .. 2 /\ c(1) # c(2)
      BY <2>1, <2>3
    <3>2. c(1) # Code(entry) /\ c(2) # Code(entry) /\ Code(entry) \in 1 .. 2
      BY <2>1, <2>2, <2>3
    <3>3. QED
      BY <3>1, <3>2
  <2>4. CASE L = 3
    <3>1. \A s \in {1, 2, 3, 4, 5, 6} :
             /\ c(s) \in 1 .. 6 /\ c(s) # Code(entry)
             /\ \A t \in {1, 2, 3, 4, 5, 6} : s # t => c(s) # c(t)
      BY <2>1, <2>4
    <3>2. Code(entry) \in 1 .. 6
      BY <2>2, <2>4
    <3>3. QED
      BY <3>1, <3>2
  <2>5. QED
    BY <1>1, <2>3, <2>4, Zenon
<1>6. QED
  BY <1>5, Zenon DEF Register, Registered

\* The steps of write_all_and_commit change neither the values nor the output.
LEMMA WriteMoves ==
    ASSUME Domains, NEW p \in Procs,
           Write(p) \/ Sync(p) \/ HoldOff(p) \/ ReleasePlaceholder(p) \/ Rename(p)
    PROVE  /\ status[p] = "running" /\ pc[p] \in WriteSteps /\ pc'[p] \in WriteSteps \cup {"dropTmp"}
           /\ UNCHANGED <<at, valueVars, installed, handler, loaded, status>>
           /\ platform = "unix" => handler[p] = 0
<1>1. CASE Write(p)
  BY <1>1, Zenon DEF Domains, Write, At, Goto, WriteSteps, cleanupVars
<1>2. CASE Sync(p)
  BY <1>2, Zenon DEF Domains, Sync, At, Goto, WriteSteps, cleanupVars
<1>3. CASE HoldOff(p)
  BY <1>3, Zenon DEF Domains, HoldOff, At, Goto, WriteSteps
<1>4. CASE ReleasePlaceholder(p)
  BY <1>4, Zenon DEF Domains, ReleasePlaceholder, At, Goto, WriteSteps
<1>5. CASE Rename(p)
  BY <1>5, Zenon DEF Domains, Rename, At, Goto, WriteSteps
<1>6. QED
  BY <1>1, <1>2, <1>3, <1>4, <1>5, Zenon

\* An interruption and the handler leave the command where it is.
LEMMA HandlerMoves ==
    ASSUME Domains, NEW p \in Procs, Interrupt(p) \/ HandlerStep(p)
    PROVE  /\ status[p] = "running" /\ status'[p] \in {"running", "interrupted"}
           /\ UNCHANGED <<pc, at, valueVars, table, installed, renameFailed>>
<1>1. CASE Interrupt(p)
  BY <1>1, Zenon DEF Domains, Interrupt, Exit
<1>2. CASE HandlerLoad(p)
  BY <1>2, Zenon DEF HandlerLoad
<1>3. CASE HandlerDelete(p)
  BY <1>3, Zenon DEF HandlerDelete
<1>4. CASE HandlerReturn(p)
  BY <1>4, Zenon DEF Domains, HandlerReturn, Exit
<1>5. CASE DefaultHandler(p)
  BY <1>5, Zenon DEF Domains, DefaultHandler, Exit, cleanupVars
<1>6. QED
  BY <1>1, <1>2, <1>3, <1>4, <1>5, Zenon DEF HandlerStep

\* A key command has no OutputFile value.
LEMMA KeyMoves ==
    ASSUME Domains, NEW p \in Procs, KeyStep(p)
    PROVE  /\ status[p] = "running" /\ status'[p] # "interrupted"
           /\ pc[p] \in KeySteps /\ pc'[p] \in KeySteps
           /\ UNCHANGED <<tmp, at, valueVars, cleanupVars, renameFailed>>
           /\ platform = "unix" => handler[p] = 0
<1>1. CASE KeyCreate(p)
  BY <1>1, Zenon DEF Domains, KeyCreate, At, Goto, Exit, KeySteps
<1>2. CASE KeyWrite(p)
  BY <1>2, Zenon DEF Domains, KeyWrite, At, Goto, Exit, KeySteps
<1>3. CASE KeyRemove(p)
  BY <1>3, Zenon DEF Domains, KeyRemove, At, Exit, KeySteps
<1>4. QED
  BY <1>1, <1>2, <1>3, Zenon DEF KeyStep

\* The order of the commits, by output.
LEMMA PendingFacts ==
    ASSUME NEW p, Len(cmd[p].outs) \in {1, 3}, at[p] \in 1 .. Len(cmd[p].outs)
    PROVE  /\ at[p] \in Pending(p)
           /\ AfterCommit(p) \in {0, 2, 3}
           /\ AfterCommit(p) = 0 => Pending(p) \ {at[p]} = {}
           /\ AfterCommit(p) = 3 => Len(cmd[p].outs) = 3 /\ Pending(p) \ {at[p]} = {2, 3}
           /\ AfterCommit(p) = 2 => Len(cmd[p].outs) = 3 /\ Pending(p) \ {at[p]} = {2}
<1>1. CASE Len(cmd[p].outs) = 1
  <2>1. at[p] = 1
    BY <1>1
  <2>2. Pending(p) = {1} /\ AfterCommit(p) = 0
    BY <1>1, <2>1 DEF Pending, AfterCommit
  <2>3. QED
    BY <2>1, <2>2
<1>2. CASE Len(cmd[p].outs) = 3 /\ at[p] = 1
  <2>1. Pending(p) = {1, 2, 3} /\ AfterCommit(p) = 3
    BY <1>2 DEF Pending, AfterCommit
  <2>2. QED
    BY <1>2, <2>1
<1>3. CASE Len(cmd[p].outs) = 3 /\ at[p] = 3
  <2>1. Pending(p) = {2, 3} /\ AfterCommit(p) = 2
    BY <1>3 DEF Pending, AfterCommit
  <2>2. QED
    BY <1>3, <2>1
<1>4. CASE Len(cmd[p].outs) = 3 /\ at[p] = 2
  <2>1. Pending(p) = {2} /\ AfterCommit(p) = 0
    BY <1>4 DEF Pending, AfterCommit
  <2>2. QED
    BY <1>4, <2>1
<1>5. Len(cmd[p].outs) = 3 => at[p] \in {1, 2, 3}
  OBVIOUS
<1>6. Len(cmd[p].outs) = 1 \/ Len(cmd[p].outs) = 3
  BY Zenon
<1>7. QED
  BY ONLY <1>1, <1>2, <1>3, <1>4, <1>5, <1>6, Zenon

\* Which values exist follows the command from step to step.
LEMMA PhaseStep ==
    ASSUME Typed, NEW p \in Procs, PhaseInv(p), Step(p)
    PROVE  PhaseInv(p)'
<1>1. /\ Domains /\ ValuesTyped(p) /\ Len(cmd[p].outs) \in {1, 3}
      /\ Outs(p) = 1 .. Len(cmd[p].outs) /\ at[p] \in Outs(p)
  BY CommandFacts, Zenon DEF Typed, ValuesTyped
<1>2. cmd' = cmd /\ Outs(p)' = Outs(p)
  BY <1>1, StepKeeps, Zenon DEF given, Outs
<1>3. CASE Create(p)
  <2>1. /\ status[p] = "running" /\ pc[p] = "create" /\ live'[p] = live[p] \cup {at[p]}
        /\ UNCHANGED <<at, temped, installed, status>>
        /\ \/ cmd[p].force /\ pc'[p] \in {"dropTmp", "createTmp"} /\ UNCHANGED placeholder
           \/ /\ ~cmd[p].force /\ pc'[p] = "guardPlaceholder"
              /\ placeholder'[p] = placeholder[p] \cup {at[p]}
           \/ pc'[p] = "dropTmp" /\ UNCHANGED placeholder
    BY <1>1, <1>3, Zenon DEF Domains, Create, At, Goto, cleanupVars
  <2>2. /\ ~cmd[p].key /\ (cmd[p].force => placeholder[p] = {})
        /\ live[p] = 1 .. at[p] - 1 /\ temped[p] = 1 .. at[p] - 1
        /\ ~cmd[p].force => placeholder[p] = 1 .. at[p] - 1
    BY <2>1, Zenon DEF PhaseInv, KeySteps
  <2>3. live'[p] = 1 .. at[p] /\ 1 .. at[p] = (1 .. at[p] - 1) \cup {at[p]} /\ at[p] \in 1 .. at[p]
    BY <1>1, <2>1, <2>2
  <2>4. CASE pc'[p] = "dropTmp"
    <3>1. cmd[p].force => placeholder'[p] = {}
      BY <2>1, <2>2, Zenon
    <3>2. QED
      BY <1>2, <2>1, <2>2, <2>3, <2>4, <3>1, Zenon DEF PhaseInv, KeySteps, WriteSteps, DropSteps
  <2>5. CASE pc'[p] # "dropTmp"
    <3>1. /\ pc'[p] \in {"guardPlaceholder", "createTmp"}
          /\ pc'[p] = "guardPlaceholder" => ~cmd[p].force
          /\ cmd[p].force => placeholder'[p] = {}
          /\ ~cmd[p].force => placeholder'[p] = 1 .. at[p]
      BY <2>1, <2>2, <2>3, <2>5, Zenon
    <3>2. QED
      BY <1>2, <2>1, <2>2, <2>3, <3>1, Zenon DEF PhaseInv, KeySteps, WriteSteps, DropSteps
  <2>6. QED
    BY <2>4, <2>5, Zenon
<1>4. CASE GuardPlaceholder(p)
  <2>1. /\ status[p] = "running" /\ pc[p] = "guardPlaceholder" /\ pc'[p] = "createTmp"
        /\ UNCHANGED <<at, live, placeholder, temped, status>>
    BY <1>1, <1>4, Zenon DEF Domains, GuardPlaceholder, At, Goto, valueVars
  <2>2. QED
    BY <1>2, <2>1, Zenon DEF PhaseInv, KeySteps, WriteSteps, DropSteps
<1>5. CASE CreateTmp(p)
  <2>1. /\ status[p] = "running" /\ pc[p] = "createTmp" /\ pc'[p] \in {"guardTmp", "dropTmp"}
        /\ UNCHANGED <<at, live, placeholder, temped, installed, status>>
    BY <1>1, <1>5, Zenon DEF Domains, CreateTmp, At, Goto, valueVars, cleanupVars
  <2>2. at[p] \in 1 .. at[p]
    BY <1>1
  <2>3. QED
    BY <1>2, <2>1, <2>2, Zenon DEF PhaseInv, KeySteps, WriteSteps, DropSteps
<1>6. CASE GuardTmp(p)
  <2>1. /\ status[p] = "running" /\ pc[p] = "guardTmp" /\ temped'[p] = temped[p] \cup {at[p]}
        /\ UNCHANGED <<live, placeholder, status>>
        /\ IF at[p] < Len(cmd[p].outs) THEN pc'[p] = "create" /\ at'[p] = at[p] + 1
           ELSE pc'[p] = "write" /\ at'[p] = 1
    BY <1>1, <1>6, Zenon DEF Domains, GuardTmp, At, Goto, GotoAt
  <2>2. /\ ~cmd[p].key /\ (cmd[p].force => placeholder[p] = {})
        /\ live[p] = 1 .. at[p] /\ temped[p] = 1 .. at[p] - 1
        /\ ~cmd[p].force => placeholder[p] = 1 .. at[p]
    BY <2>1, Zenon DEF PhaseInv, KeySteps
  <2>3. temped'[p] = 1 .. at[p]
    BY <1>1, <2>1, <2>2
  <2>4. CASE at[p] < Len(cmd[p].outs)
    <3>1. /\ pc'[p] = "create" /\ live'[p] = 1 .. at'[p] - 1 /\ temped'[p] = 1 .. at'[p] - 1
          /\ ~cmd[p].force => placeholder'[p] = 1 .. at'[p] - 1
      BY <1>1, <2>1, <2>2, <2>3, <2>4
    <3>2. QED
      BY <1>2, <2>1, <2>2, <3>1, Zenon DEF PhaseInv, KeySteps, WriteSteps, DropSteps
  <2>5. CASE ~(at[p] < Len(cmd[p].outs))
    <3>1. at[p] = Len(cmd[p].outs)
      BY <1>1, <2>5
    <3>2. Pending(p)' = Outs(p) /\ Outs(p) = 1 .. at[p]
      <4>1. Pending(p)' = IF Len(cmd[p].outs) = 1 THEN {1} ELSE {1, 2, 3}
        BY <1>2, <2>1, <2>5, Zenon DEF Pending
      <4>2. QED
        BY <1>1, <3>1, <4>1
    <3>3. /\ pc'[p] = "write" /\ live'[p] = Pending(p)' /\ temped'[p] = Outs(p)'
          /\ ~cmd[p].force => placeholder'[p] = Outs(p)'
      BY <1>2, <2>1, <2>2, <2>3, <2>5, <3>2, Zenon
    <3>4. QED
      BY <1>2, <2>1, <2>2, <3>3, Zenon DEF PhaseInv, KeySteps, WriteSteps, DropSteps
  <2>6. QED
    BY <2>4, <2>5, Zenon
<1>7. CASE Write(p) \/ Sync(p) \/ HoldOff(p) \/ ReleasePlaceholder(p) \/ Rename(p)
  <2>1. /\ status[p] = "running" /\ pc[p] \in WriteSteps /\ pc'[p] \in WriteSteps \cup {"dropTmp"}
        /\ UNCHANGED <<at, live, placeholder, temped, installed, status>>
    BY <1>1, <1>7, WriteMoves, Zenon DEF valueVars
  <2>2. at[p] \in Pending(p) /\ Pending(p)' = Pending(p)
    BY <1>1, <1>2, <2>1, PendingFacts DEF Pending
  <2>3. QED
    BY <1>2, <2>1, <2>2, Zenon DEF PhaseInv, KeySteps, WriteSteps, DropSteps
<1>8. CASE Committed(p)
  <2>1. /\ status[p] = "running" /\ pc[p] = "committed" /\ live'[p] = live[p] \ {at[p]}
        /\ UNCHANGED <<placeholder, temped, installed>>
        /\ IF AfterCommit(p) = 0 THEN status'[p] = "ok" /\ UNCHANGED pc
           ELSE pc'[p] = "write" /\ at'[p] = AfterCommit(p) /\ UNCHANGED status
    BY <1>1, <1>8, Zenon DEF Domains, Committed, At, Goto, GotoAt, Exit
  <2>2. live[p] = Pending(p)
    BY <2>1, Zenon DEF PhaseInv, WriteSteps
  <2>3. CASE AfterCommit(p) = 0
    <3>1. live'[p] = {}
      BY <1>1, <2>1, <2>2, <2>3, PendingFacts
    <3>2. QED
      BY <1>2, <2>1, <2>3, <3>1, Zenon DEF PhaseInv
  <2>4. CASE AfterCommit(p) # 0
    <3>1. live'[p] = Pending(p)'
      <4>1. /\ AfterCommit(p) \in {2, 3} /\ Len(cmd[p].outs) = 3
            /\ Pending(p) \ {at[p]} = IF AfterCommit(p) = 3 THEN {2, 3} ELSE {2}
        BY <1>1, <2>4, PendingFacts
      <4>2. Pending(p)' = IF AfterCommit(p) = 3 THEN {2, 3} ELSE {2}
        BY <1>2, <2>1, <2>4, <4>1, Zenon DEF Pending
      <4>3. QED
        BY <2>1, <2>2, <4>1, <4>2, Zenon
    <3>2. QED
      BY <1>2, <2>1, <2>4, <3>1, Zenon DEF PhaseInv, KeySteps, WriteSteps, DropSteps
  <2>5. QED
    BY <2>3, <2>4, Zenon
<1>9. CASE DropTmp(p) \/ DropPlaceholder(p)
  <2>1. /\ status[p] = "running" /\ pc[p] \in DropSteps /\ pc'[p] \in DropSteps
        /\ UNCHANGED <<at, live, placeholder, temped, installed, status>>
    BY <1>1, <1>9, Zenon DEF Domains, DropTmp, DropPlaceholder, At, Goto, DropSteps, valueVars, cleanupVars
  <2>2. QED
    BY <1>2, <2>1, Zenon DEF PhaseInv, KeySteps, WriteSteps, DropSteps
<1>10. CASE DropGuards(p)
  <2>1. /\ status[p] = "running" /\ pc[p] = "dropGuards"
        /\ UNCHANGED <<placeholder, temped, installed>>
        /\ IF live'[p] = {} THEN status'[p] = "error" /\ UNCHANGED pc
           ELSE pc'[p] = "dropTmp" /\ at'[p] \in live'[p] /\ UNCHANGED status
        /\ live'[p] = live[p] \ {at[p]}
    BY <1>1, <1>10, Zenon DEF Domains, DropGuards, At, Goto, GotoAt, Exit
  <2>2. QED
    BY <1>2, <2>1, Zenon DEF PhaseInv, KeySteps, WriteSteps, DropSteps
<1>11. CASE KeyStep(p)
  <2>1. /\ pc[p] \in KeySteps /\ pc'[p] \in KeySteps
        /\ UNCHANGED <<live, placeholder, temped, installed>>
    BY <1>1, <1>11, KeyMoves, Zenon DEF valueVars, cleanupVars
  <2>2. QED
    BY <1>2, <2>1, Zenon DEF PhaseInv, KeySteps, WriteSteps, DropSteps
<1>12. CASE Interrupt(p) \/ HandlerStep(p)
  <2>1. /\ status[p] = "running" /\ status'[p] \in {"running", "interrupted"}
        /\ UNCHANGED <<pc, at, live, placeholder, temped, installed>>
    BY <1>1, <1>12, HandlerMoves, Zenon DEF valueVars
  <2>2. Pending(p)' = Pending(p)
    BY <1>2, <2>1, Zenon DEF Pending
  <2>3. QED
    BY <1>2, <2>1, <2>2, Zenon DEF PhaseInv
<1>13. QED
  BY <1>3, <1>4, <1>5, <1>6, <1>7, <1>8, <1>9, <1>10, <1>11, <1>12, Zenon DEF Step, OutputStep

\* The two registrations of create find a free slot.
LEMMA PlaceholderRegistered ==
    ASSUME Typed, NEW p \in Procs, PhaseInv(p), TableInv(p), GuardPlaceholder(p)
    PROVE  Registered(p, PathEntry(at[p]))
<1>1. PathEntry(at[p]) \in Entries(p) /\ PathEntry(at[p]) # NoEntry
  BY EntryFacts, Zenon DEF Typed, ValuesTyped, Entries
<1>2. \A s \in Slots : table[p][s] # PathEntry(at[p])
  BY Zenon DEF GuardPlaceholder, At, TableInv
<1>3. Register(p, PathEntry(at[p]))
  BY Zenon DEF GuardPlaceholder
<1>4. QED
  BY <1>1, <1>2, <1>3, RegisterFinds, Zenon

\* The temp file's registration, too.
LEMMA TmpRegistered ==
    ASSUME Typed, NEW p \in Procs, PhaseInv(p), TableInv(p), GuardTmp(p)
    PROVE  Registered(p, TmpEntry(at[p]))
<1>1. TmpEntry(at[p]) \in Entries(p) /\ TmpEntry(at[p]) # NoEntry
  BY EntryFacts, Zenon DEF Typed, ValuesTyped, Entries
<1>2. \A s \in Slots : table[p][s] # TmpEntry(at[p])
  <2>1. at[p] \in Nat
    BY CommandFacts DEF Typed, ValuesTyped
  <2>2. at[p] \notin temped[p]
    BY <2>1 DEF GuardTmp, At, PhaseInv
  <2>3. QED
    BY <2>2, EntryFacts DEF TableInv
<1>3. Register(p, TmpEntry(at[p]))
  BY Zenon DEF GuardTmp
<1>4. QED
  BY <1>1, <1>2, <1>3, RegisterFinds, Zenon

\* The table after an entry has been registered,
LEMMA RegisteredTable ==
    ASSUME Domains, NEW p \in Procs, TableTyped(p), NEW entry \in Entries(p), Registered(p, entry)
    PROVE  /\ table'[p] \in [Slots -> Entries(p)] /\ installed'[p] = TRUE
           /\ \E s \in Slots :
                 /\ table[p][s] = NoEntry /\ table'[p][s] = entry
                 /\ \A t \in Slots : t # s => table'[p][t] = table[p][t]
  BY DEF Registered, Domains, TableTyped

\* and after some have been released.
LEMMA ReleasedTable ==
    ASSUME Domains, NEW p \in Procs, TableTyped(p), NEW entries, Release(p, entries)
    PROVE  /\ table'[p] \in [Slots -> Entries(p)]
           /\ \A s \in Slots : table'[p][s] = IF table[p][s] \in entries THEN NoEntry
                                              ELSE table[p][s]
<1>1. \A s \in Slots : table[p][s] \in Entries(p) /\ NoEntry \in Entries(p)
  BY Zenon DEF TableTyped, Entries
<1>2. table'[p] = [s \in Slots |-> IF table[p][s] \in entries THEN NoEntry ELSE table[p][s]]
  BY Zenon DEF Release, Domains
<1>3. QED
  BY <1>1, <1>2, Zenon

\* The values, the outputs and the temp files of p keep their types.
LEMMA ValuesTypedStep ==
    ASSUME Typed, NEW p \in Procs, PhaseInv(p), Step(p)
    PROVE  ValuesTyped(p)'
<1>1. /\ Domains /\ ValuesTyped(p) /\ TableTyped(p) /\ Len(cmd[p].outs) \in {1, 3}
      /\ Outs(p) = 1 .. Len(cmd[p].outs) /\ at[p] \in Outs(p) /\ tmp[p] \in [Outs(p) -> Contents]
      /\ live[p] \subseteq Outs(p) /\ placeholder[p] \subseteq Outs(p) /\ temped[p] \subseteq Outs(p)
  BY CommandFacts, Zenon DEF Typed, ValuesTyped
<1>2. Outs(p)' = Outs(p)
  BY <1>1, StepKeeps, Zenon DEF given, Outs
<1>3. SUFFICES /\ at'[p] \in Outs(p) /\ tmp'[p] \in [Outs(p) -> Contents]
               /\ live'[p] \subseteq Outs(p) /\ placeholder'[p] \subseteq Outs(p)
               /\ temped'[p] \subseteq Outs(p)
  BY <1>2, Zenon DEF ValuesTyped
<1>4. CASE Create(p) \/ GuardPlaceholder(p)
  <2>1. /\ live'[p] \subseteq live[p] \cup {at[p]} /\ placeholder'[p] \subseteq placeholder[p] \cup {at[p]}
        /\ UNCHANGED <<at, tmp, temped>>
    BY <1>1, <1>4, Zenon DEF Domains, Create, GuardPlaceholder, valueVars
  <2>2. QED
    BY <1>1, <2>1, Zenon
<1>5. CASE CreateTmp(p) \/ Write(p) \/ DropTmp(p)
  <2>1. /\ UNCHANGED <<at, live, placeholder, temped>>
        /\ \/ UNCHANGED tmp
           \/ \E c \in Contents : tmp' = [tmp EXCEPT ![p][at[p]] = c]
    BY <1>1, <1>5, Zenon DEF CreateTmp, Write, DropTmp, RemoveTmp, valueVars, Contents
  <2>2. QED
    BY <1>1, <2>1 DEF Domains
<1>6. CASE GuardTmp(p)
  <2>1. /\ temped'[p] = temped[p] \cup {at[p]} /\ at'[p] \in {at[p] + 1, 1}
        /\ at'[p] = at[p] + 1 => at[p] < Len(cmd[p].outs) \/ at'[p] = 1
        /\ UNCHANGED <<tmp, live, placeholder>>
    BY <1>1, <1>6, Zenon DEF Domains, GuardTmp, GotoAt
  <2>2. at'[p] \in Outs(p)
    BY <1>1, <2>1
  <2>3. QED
    BY <1>1, <2>1, <2>2, Zenon
<1>7. CASE Sync(p) \/ HoldOff(p) \/ ReleasePlaceholder(p)
  BY <1>1, <1>7, Zenon DEF Sync, HoldOff, ReleasePlaceholder, valueVars
<1>8. CASE Rename(p)
  <2>1. /\ UNCHANGED <<at, live, placeholder, temped>>
        /\ UNCHANGED tmp \/ tmp' = [tmp EXCEPT ![p][at[p]] = "none"]
    BY <1>8, Zenon DEF Rename, valueVars
  <2>2. QED
    BY <1>1, <2>1 DEF Domains, Contents
<1>9. CASE Committed(p)
  <2>1. /\ live'[p] = live[p] \ {at[p]} /\ UNCHANGED <<tmp, placeholder, temped>>
        /\ IF AfterCommit(p) = 0 THEN UNCHANGED at ELSE at'[p] = AfterCommit(p)
    BY <1>1, <1>9, Zenon DEF Domains, Committed, Goto, GotoAt, Exit
  <2>2. AfterCommit(p) # 0 => AfterCommit(p) \in Outs(p)
    BY <1>1, PendingFacts, SMTT(60)
  <2>3. QED
    BY <1>1, <2>1, <2>2, Zenon
<1>10. CASE DropPlaceholder(p)
  BY <1>1, <1>10, Zenon DEF DropPlaceholder, valueVars
<1>11. CASE DropGuards(p)
  <2>1. /\ live'[p] = live[p] \ {at[p]} /\ UNCHANGED <<tmp, placeholder, temped>>
        /\ IF live'[p] = {} THEN UNCHANGED at ELSE at'[p] \in live'[p]
    BY <1>1, <1>11, Zenon DEF Domains, DropGuards, Goto, GotoAt, Exit
  <2>2. QED
    BY <1>1, <2>1, Zenon
<1>12. CASE KeyStep(p)
  BY <1>1, <1>12, KeyMoves, Zenon DEF valueVars
<1>13. CASE Interrupt(p) \/ HandlerStep(p)
  <2>1. UNCHANGED <<at, live, placeholder, temped>>
    BY <1>1, <1>13, HandlerMoves, Zenon DEF valueVars
  <2>2. UNCHANGED tmp \/ \E i : tmp' = [tmp EXCEPT ![p][i] = "none"]
    BY <1>13, Zenon DEF Interrupt, HandlerStep, HandlerLoad, HandlerDelete, HandlerReturn, DefaultHandler,
                    RemoveTmp
  <2>3. QED
    BY <1>1, <2>1, <2>2 DEF Domains, Contents
<1>14. QED
  BY <1>4, <1>5, <1>6, <1>7, <1>8, <1>9, <1>10, <1>11, <1>12, <1>13, Zenon DEF Step, OutputStep

\* A refusal is never forgotten, and a Drop under way goes on to the end.
LEMMA StuckStays ==
    ASSUME Domains, NEW p \in Procs, Step(p)
    PROVE  /\ \A e : e \in unremoved[p] => e \in unremoved'[p]
           /\ pc[p] \in DropSteps => pc'[p] \in DropSteps
<1>1. CASE UNCHANGED unremoved /\ pc[p] \notin DropSteps
  BY <1>1, Zenon
<1>2. CASE UNCHANGED <<unremoved, pc>>
  BY <1>2, Zenon
<1>3. CASE Create(p) \/ GuardPlaceholder(p) \/ CreateTmp(p) \/ GuardTmp(p) \/ Write(p) \/ Sync(p)
  <2>1. pc[p] \in {"create", "guardPlaceholder", "createTmp", "guardTmp", "write", "sync"}
    BY <1>3, Zenon DEF Create, GuardPlaceholder, CreateTmp, GuardTmp, Write, Sync, At
  <2>2. UNCHANGED unremoved
    BY <1>3, Zenon DEF Create, GuardPlaceholder, CreateTmp, GuardTmp, Write, Sync
  <2>3. QED
    BY <1>1, <2>1, <2>2, Zenon DEF DropSteps
<1>4. CASE HoldOff(p) \/ ReleasePlaceholder(p) \/ Rename(p) \/ Committed(p) \/ KeyCreate(p) \/ KeyWrite(p)
  <2>1. pc[p] \in {"holdOff", "release", "rename", "committed", "keyCreate", "keyWrite"}
    BY <1>4, Zenon DEF HoldOff, ReleasePlaceholder, Rename, Committed, KeyCreate, KeyWrite, At
  <2>2. UNCHANGED unremoved
    BY <1>4, Zenon DEF HoldOff, ReleasePlaceholder, Rename, Committed, KeyCreate, KeyWrite
  <2>3. QED
    BY <1>1, <2>1, <2>2, Zenon DEF DropSteps
<1>5. CASE DropTmp(p)
  BY <1>5, Zenon DEF DropTmp, Domains, Goto, RemoveTmp, Refused, DropSteps
<1>6. CASE DropPlaceholder(p)
  BY <1>6, Zenon DEF DropPlaceholder, Domains, Goto, RemoveOutput, Refused, DropSteps
<1>7. CASE DropGuards(p)
  BY <1>7, Zenon DEF DropGuards, Domains, Goto, GotoAt, DropSteps
<1>8. CASE KeyRemove(p)
  BY <1>8, ZenonT(60) DEF KeyRemove, Domains, RemoveOutput, Refused
<1>9. CASE HandlerDelete(p)
  BY <1>9, Zenon DEF HandlerDelete, Domains, RemoveOutput, RemoveTmp, Refused
<1>10. CASE Interrupt(p) \/ HandlerLoad(p) \/ HandlerReturn(p) \/ DefaultHandler(p)
  BY <1>2, <1>10, Zenon DEF Interrupt, HandlerLoad, HandlerReturn, DefaultHandler
<1>11. QED
  BY <1>3, <1>4, <1>5, <1>6, <1>7, <1>8, <1>9, <1>10, Zenon DEF Step, OutputStep, KeyStep, HandlerStep

\* The table and what the handler has read of it keep their types.
LEMMA TableTypedStep ==
    ASSUME Typed, NEW p \in Procs, PhaseInv(p), TableInv(p), Step(p)
    PROVE  TableTyped(p)'
<1>1. /\ Domains /\ ValuesTyped(p) /\ TableTyped(p) /\ at[p] \in Outs(p)
      /\ table[p] \in [Slots -> Entries(p)] /\ loaded[p] \in Entries(p) /\ handler[p] \in Nat
  BY Zenon DEF Typed, ValuesTyped, TableTyped
<1>2. Entries(p)' = Entries(p)
  BY <1>1, StepKeeps, Zenon DEF given, Outs, Entries
<1>3. SUFFICES table'[p] \in [Slots -> Entries(p)] /\ loaded'[p] \in Entries(p) /\ handler'[p] \in Nat
  BY <1>2, Zenon DEF TableTyped, Slots
<1>4. CASE GuardPlaceholder(p)
  <2>1. PathEntry(at[p]) \in Entries(p) /\ Registered(p, PathEntry(at[p]))
    BY <1>1, <1>4, PlaceholderRegistered, Zenon DEF Entries
  <2>2. table'[p] \in [Slots -> Entries(p)]
    BY <1>1, <2>1, RegisteredTable, Zenon
  <2>3. QED
    BY <1>1, <1>4, <2>2, Zenon DEF GuardPlaceholder
<1>5. CASE GuardTmp(p)
  <2>1. TmpEntry(at[p]) \in Entries(p) /\ Registered(p, TmpEntry(at[p]))
    BY <1>1, <1>5, TmpRegistered, Zenon DEF Entries
  <2>2. table'[p] \in [Slots -> Entries(p)]
    BY <1>1, <2>1, RegisteredTable, Zenon
  <2>3. QED
    BY <1>1, <1>5, <2>2, Zenon DEF GuardTmp
<1>6. CASE ReleasePlaceholder(p) \/ Committed(p) \/ DropGuards(p)
  <2>1. (\E entries : Release(p, entries)) /\ UNCHANGED <<handler, loaded>>
    BY <1>6, Zenon DEF ReleasePlaceholder, Committed, DropGuards
  <2>2. table'[p] \in [Slots -> Entries(p)]
    BY <1>1, <2>1, ReleasedTable, Zenon
  <2>3. QED
    BY <1>1, <2>1, <2>2, Zenon
<1>7. CASE Create(p) \/ CreateTmp(p) \/ Write(p) \/ Sync(p) \/ HoldOff(p) \/ Rename(p)
           \/ DropTmp(p) \/ DropPlaceholder(p)
  <2>1. UNCHANGED <<table, handler, loaded>>
    BY <1>7, Zenon DEF Create, CreateTmp, Write, Sync, HoldOff, Rename, DropTmp, DropPlaceholder, cleanupVars
  <2>2. QED
    BY <1>1, <2>1, Zenon
<1>8. CASE KeyStep(p)
  BY <1>1, <1>8, KeyMoves, Zenon DEF cleanupVars
<1>9. CASE Interrupt(p) \/ HandlerStep(p)
  <2>1. UNCHANGED table
    BY <1>1, <1>9, HandlerMoves, Zenon
  <2>2. /\ handler'[p] = handler[p] \/ handler'[p] = 1 \/ handler'[p] = handler[p] + 1
        /\ \/ loaded'[p] = loaded[p] \/ loaded'[p] = NoEntry
           \/ handler[p] \in Slots /\ loaded'[p] = table[p][handler[p]]
    BY <1>1, <1>9, Zenon DEF Domains, Interrupt, HandlerStep, HandlerLoad, HandlerDelete, HandlerReturn,
                      DefaultHandler, cleanupVars
  <2>3. NoEntry \in Entries(p)
    BY Zenon DEF Entries
  <2>4. QED
    BY <1>1, <2>1, <2>2, <2>3
<1>10. QED
  BY <1>4, <1>5, <1>6, <1>7, <1>8, <1>9, Zenon DEF Step, OutputStep

\* A temp file belongs to a value that removes it when it is dropped.
LEMMA TmpStep ==
    ASSUME Typed, NEW p \in Procs, PhaseInv(p), TmpInv(p), Step(p)
    PROVE  TmpInv(p)'
<1>1. /\ Domains /\ ValuesTyped(p) /\ at[p] \in Outs(p) /\ tmp[p] \in [Outs(p) -> Contents]
      /\ at[p] \in Nat \ {0}
  BY CommandFacts DEF Typed, ValuesTyped
<1>2. Outs(p)' = Outs(p)
  BY <1>1, StepKeeps, Zenon DEF given, Outs
<1>0. /\ \A e : e \in unremoved[p] => e \in unremoved'[p]
      /\ pc[p] \in DropSteps => pc'[p] \in DropSteps
  BY <1>1, StuckStays, Zenon
<1>3. CASE Create(p)
  <2>1. /\ pc[p] = "create" /\ pc'[p] \in {"dropTmp", "createTmp", "guardPlaceholder"}
        /\ live'[p] = live[p] \cup {at[p]} /\ UNCHANGED <<tmp, at, temped>>
    BY <1>1, <1>3, Zenon DEF Domains, Create, At, Goto
  <2>2. QED
    BY <1>0, <1>2, <2>1, Zenon DEF TmpInv, Stuck
<1>4. CASE GuardPlaceholder(p)
  <2>1. /\ pc[p] = "guardPlaceholder" /\ pc'[p] = "createTmp" /\ UNCHANGED <<tmp, at, live, temped>>
    BY <1>1, <1>4, Zenon DEF Domains, GuardPlaceholder, At, Goto, valueVars
  <2>2. QED
    BY <1>0, <1>2, <2>1, Zenon DEF TmpInv, Stuck
<1>5. CASE CreateTmp(p)
  <2>1. /\ status[p] = "running" /\ pc[p] = "createTmp" /\ UNCHANGED <<at, live, temped>>
        /\ \/ pc'[p] = "dropTmp" /\ UNCHANGED tmp
           \/ /\ pc'[p] = "guardTmp"
              /\ \A i \in Outs(p) : tmp'[p][i] = IF i = at[p] THEN "partial" ELSE tmp[p][i]
    BY <1>1, <1>5 DEF Domains, CreateTmp, At, Goto, valueVars
  <2>2. live[p] = 1 .. at[p]
    BY <2>1, Zenon DEF PhaseInv
  <2>3. at[p] \in live[p]
    BY <1>1, <2>2
  <2>4. QED
    BY <1>0, <1>2, <2>1, <2>3, Zenon DEF TmpInv, Stuck
<1>6. CASE GuardTmp(p)
  <2>1. /\ pc[p] = "guardTmp" /\ pc'[p] \in {"create", "write"}
        /\ temped'[p] = temped[p] \cup {at[p]} /\ UNCHANGED <<tmp, live>>
    BY <1>1, <1>6, Zenon DEF Domains, GuardTmp, At, Goto, GotoAt
  <2>2. QED
    BY <1>0, <1>2, <2>1, Zenon DEF TmpInv, Stuck
<1>7. CASE Write(p)
  <2>1. /\ pc[p] = "write" /\ UNCHANGED <<at, live, temped>>
        /\ \/ pc'[p] = "dropTmp" /\ UNCHANGED tmp
           \/ /\ pc'[p] = "sync" /\ tmp'[p][at[p]] \in {"none", "whole"}
              /\ tmp'[p][at[p]] = "none" <=> tmp[p][at[p]] = "none"
              /\ \A i \in Outs(p) : i # at[p] => tmp'[p][i] = tmp[p][i]
    BY <1>1, <1>7 DEF Domains, Write, At, Goto, valueVars
  <2>2. QED
    BY <1>0, <1>1, <1>2, <2>1, Zenon DEF TmpInv, Stuck
<1>8. CASE Sync(p) \/ HoldOff(p) \/ ReleasePlaceholder(p)
  <2>1. /\ status[p] = "running" /\ UNCHANGED <<at, live, temped, tmp>>
        /\ pc[p] \in {"sync", "holdOff", "release"}
        /\ pc'[p] \in {"dropTmp", "holdOff", "release", "rename"}
    BY <1>1, <1>8, Zenon DEF Domains, Sync, HoldOff, ReleasePlaceholder, At, Goto, valueVars
  <2>2. QED
    BY <1>0, <1>2, <2>1, Zenon DEF TmpInv, Stuck
<1>9. CASE Rename(p)
  <2>1. /\ pc[p] = "rename" /\ UNCHANGED <<at, live, temped>>
        /\ \/ pc'[p] = "dropTmp" /\ UNCHANGED tmp
           \/ /\ pc'[p] = "committed"
              /\ \A i \in Outs(p) : tmp'[p][i] = IF i = at[p] THEN "none" ELSE tmp[p][i]
    BY <1>1, <1>9 DEF Domains, Rename, At, Goto, valueVars
  <2>2. QED
    BY <1>0, <1>1, <1>2, <2>1, Zenon DEF TmpInv, Stuck
<1>10. CASE Committed(p)
  <2>1. /\ status[p] = "running" /\ pc[p] = "committed" /\ live'[p] = live[p] \ {at[p]}
        /\ UNCHANGED <<tmp, temped>>
        /\ IF AfterCommit(p) = 0 THEN status'[p] = "ok" /\ pc'[p] = "committed" ELSE pc'[p] = "write"
    BY <1>1, <1>10, Zenon DEF Domains, Committed, At, Goto, GotoAt, Exit
  <2>2. QED
    BY <1>0, <1>2, <2>1, Zenon DEF TmpInv, Stuck
<1>11. CASE DropTmp(p)
  <2>1. /\ pc[p] = "dropTmp" /\ pc'[p] = "dropPlaceholder" /\ UNCHANGED <<at, live, temped>>
        /\ \/ \A i \in Outs(p) :
                 tmp'[p][i] = IF i = at[p] /\ i \in temped[p] THEN "none" ELSE tmp[p][i]
           \/ UNCHANGED tmp /\ TmpEntry(at[p]) \in unremoved'[p]
    <3>1. /\ pc[p] = "dropTmp" /\ pc'[p] = "dropPlaceholder" /\ UNCHANGED <<at, live, temped>>
          /\ IF at[p] \in temped[p] THEN RemoveTmp(p, at[p]) ELSE UNCHANGED <<tmp, unremoved>>
      BY <1>1, <1>11, Zenon DEF Domains, DropTmp, At, Goto, valueVars
    <3>2. CASE tmp' = [tmp EXCEPT ![p][at[p]] = "none"] /\ at[p] \in temped[p]
      <4>1. \A i \in Outs(p) :
               tmp'[p][i] = IF i = at[p] /\ i \in temped[p] THEN "none" ELSE tmp[p][i]
        BY <1>1, <3>2 DEF Domains
      <4>2. QED
        BY <3>1, <4>1, Zenon
    <3>3. CASE UNCHANGED tmp /\ Refused(p, TmpEntry(at[p]))
      BY <1>1, <3>1, <3>3, Zenon DEF Refused, Domains
    <3>4. CASE UNCHANGED tmp /\ at[p] \notin temped[p]
      <4>1. \A i \in Outs(p) :
               tmp'[p][i] = IF i = at[p] /\ i \in temped[p] THEN "none" ELSE tmp[p][i]
        BY <3>4, Zenon
      <4>2. QED
        BY <3>1, <4>1, Zenon
    <3>5. QED
      BY <3>1, <3>2, <3>3, <3>4, Zenon DEF RemoveTmp
  <2>2. pc'[p] \in DropSteps
    BY <2>1, Zenon DEF DropSteps
  <2>3. QED
    BY <1>0, <1>1, <1>2, <2>1, <2>2, Zenon DEF TmpInv, Stuck
<1>12. CASE DropPlaceholder(p)
  <2>1. /\ status[p] = "running" /\ pc[p] = "dropPlaceholder" /\ pc'[p] = "dropGuards"
        /\ UNCHANGED <<at, live, temped, tmp>>
    BY <1>1, <1>12, Zenon DEF Domains, DropPlaceholder, At, Goto, valueVars
  <2>2. QED
    BY <1>0, <1>2, <2>1, Zenon DEF TmpInv, Stuck
<1>13. CASE DropGuards(p)
  <2>1. /\ status[p] = "running" /\ pc[p] = "dropGuards" /\ live'[p] = live[p] \ {at[p]}
        /\ UNCHANGED <<tmp, temped>>
        /\ IF live'[p] = {} THEN status'[p] = "error" /\ pc'[p] = "dropGuards" ELSE pc'[p] = "dropTmp"
    BY <1>1, <1>13, Zenon DEF Domains, DropGuards, At, Goto, GotoAt, Exit
  <2>2. QED
    BY <1>0, <1>2, <2>1, Zenon DEF TmpInv, Stuck
<1>14. CASE KeyStep(p)
  <2>1. pc[p] \in KeySteps /\ pc'[p] \in KeySteps /\ UNCHANGED <<tmp, at, live, temped>>
    BY <1>1, <1>14, KeyMoves, Zenon DEF valueVars
  <2>2. QED
    BY <1>0, <1>2, <2>1, Zenon DEF TmpInv, Stuck, KeySteps
<1>15. CASE Interrupt(p) \/ HandlerStep(p)
  <2>1. status[p] = "running" /\ UNCHANGED <<pc, at, live, temped>>
    BY <1>1, <1>15, HandlerMoves, Zenon DEF valueVars
  <2>2. UNCHANGED tmp \/ \E i : tmp' = [tmp EXCEPT ![p][i] = "none"]
    BY <1>15, Zenon DEF Interrupt, HandlerStep, HandlerLoad, HandlerDelete, HandlerReturn, DefaultHandler,
                    RemoveTmp
  <2>3. \A i \in Outs(p) : tmp'[p][i] \in {tmp[p][i], "none"}
    BY <1>1, <2>2 DEF Domains
  <2>4. QED
    BY <1>0, <1>1, <1>2, <2>1, <2>3, Zenon DEF TmpInv, Stuck
<1>16. QED
  BY <1>3, <1>4, <1>5, <1>6, <1>7, <1>8, <1>9, <1>10, <1>11, <1>12, <1>13, <1>14, <1>15, Zenon
  DEF Step, OutputStep

\* The command is held off by the handler, and the handler by the command.
LEMMA HoldStep ==
    ASSUME Typed, NEW p \in Procs, PhaseInv(p), HoldInv(p), TableInv(p), Step(p)
    PROVE  HoldInv(p)'
<1>1. /\ Domains /\ TableTyped(p) /\ handler[p] \in Nat /\ SLOTS \in Nat /\ Slots = 1 .. SLOTS
  BY CommandFacts, Zenon DEF Typed, TableTyped, Slots
<1>2. cmd' = cmd /\ platform' = platform
  BY <1>1, StepKeeps, Zenon DEF given
<1>3. CASE Create(p) \/ CreateTmp(p) \/ Write(p) \/ Sync(p) \/ DropTmp(p) \/ DropPlaceholder(p)
  <2>1. /\ pc[p] \notin {"release", "rename"} /\ pc'[p] \notin {"release", "rename"}
        /\ UNCHANGED <<table, installed, hold, handler, loaded>>
    BY <1>1, <1>3, Zenon DEF Domains, Create, CreateTmp, Write, Sync, DropTmp, DropPlaceholder, At, Goto,
                      cleanupVars
  <2>2. QED
    BY <1>2, <2>1, Zenon DEF HoldInv, Slots
<1>4. CASE GuardPlaceholder(p) \/ GuardTmp(p)
  <2>1. /\ pc[p] \notin {"release", "rename"} /\ pc'[p] \notin {"release", "rename"}
        /\ installed'[p] = TRUE /\ (platform = "unix" => handler[p] = 0)
        /\ UNCHANGED <<hold, handler, loaded>>
    BY <1>1, <1>4, Zenon DEF Domains, GuardPlaceholder, GuardTmp, At, Goto, GotoAt, Register
  <2>2. platform = "unix" => loaded[p] = NoEntry
    BY <1>1, <2>1 DEF HoldInv
  <2>3. QED
    BY <1>2, <2>1, <2>2, Zenon DEF HoldInv, Slots
<1>5. CASE HoldOff(p)
  <2>1. /\ hold[p] = "free" /\ hold'[p] = "command" /\ pc'[p] = "release"
        /\ UNCHANGED <<table, installed, handler, loaded>>
    BY <1>1, <1>5, Zenon DEF Domains, HoldOff, Goto
  <2>2. QED
    BY <1>2, <2>1, Zenon DEF HoldInv, Slots
<1>6. CASE ReleasePlaceholder(p)
  <2>1. /\ pc[p] = "release" /\ pc'[p] = "rename" /\ UNCHANGED <<installed, hold, handler, loaded>>
    BY <1>1, <1>6, Zenon DEF Domains, ReleasePlaceholder, At, Goto
  <2>2. loaded[p] = NoEntry
    BY <1>1, <2>1 DEF HoldInv
  <2>3. QED
    BY <1>2, <2>1, <2>2, Zenon DEF HoldInv, Slots
<1>7. CASE Rename(p)
  <2>1. /\ pc[p] = "rename" /\ pc'[p] \in {"committed", "dropTmp"} /\ hold'[p] = "free"
        /\ UNCHANGED <<table, installed, handler, loaded>>
    BY <1>1, <1>7, Zenon DEF Domains, Rename, At, Goto
  <2>2. QED
    BY <1>1, <1>2, <2>1, Zenon DEF HoldInv
<1>8. CASE Committed(p) \/ DropGuards(p)
  <2>1. /\ pc[p] \in {"committed", "dropGuards"} /\ pc'[p] \in {"committed", "dropGuards", "write", "dropTmp"}
        /\ UNCHANGED <<installed, hold, handler, loaded>>
        /\ platform = "unix" => handler[p] = 0
    <3>1. CASE Committed(p)
      BY <1>1, <3>1, Zenon DEF Domains, Committed, At, Goto, GotoAt, Exit
    <3>2. CASE DropGuards(p)
      BY <1>1, <3>2, Zenon DEF Domains, DropGuards, At, Goto, GotoAt, Exit
    <3>3. QED
      BY <1>8, <3>1, <3>2, Zenon
  <2>2. platform = "unix" => loaded[p] = NoEntry
    BY <1>1, <2>1 DEF HoldInv
  <2>3. QED
    BY <1>2, <2>1, <2>2, Zenon DEF HoldInv, Slots
<1>9. CASE KeyStep(p)
  <2>1. /\ pc[p] \in KeySteps /\ pc'[p] \in KeySteps
        /\ UNCHANGED <<table, installed, hold, handler, loaded>>
    BY <1>1, <1>9, KeyMoves, Zenon DEF cleanupVars
  <2>2. QED
    BY <1>2, <2>1, Zenon DEF HoldInv, Slots, KeySteps
<1>10. CASE Interrupt(p)
  <2>1. /\ hold[p] = "free" /\ handler[p] = 0 /\ cmd[p].signals
        /\ UNCHANGED <<pc, table, installed, loaded>>
        /\ \/ UNCHANGED <<hold, handler>>
           \/ installed[p] /\ handler'[p] = 1 /\ hold'[p] = "handler"
    BY <1>1, <1>10, Zenon DEF Domains, Interrupt
  <2>2. loaded[p] = NoEntry
    BY <1>1, <2>1 DEF HoldInv
  <2>3. QED
    BY <1>1, <1>2, <2>1, <2>2 DEF HoldInv
<1>11. CASE HandlerLoad(p)
  <2>1. /\ handler[p] \in Slots /\ UNCHANGED <<pc, table, installed, hold>>
        /\ \/ loaded[p] = NoEntry /\ handler'[p] = handler[p] + 1 /\ UNCHANGED loaded
           \/ loaded'[p] = table[p][handler[p]] /\ UNCHANGED handler
    BY <1>1, <1>11, Zenon DEF Domains, HandlerLoad
  <2>2. QED
    BY <1>1, <1>2, <2>1 DEF HoldInv
<1>12. CASE HandlerDelete(p)
  <2>1. /\ loaded[p] # NoEntry /\ UNCHANGED <<pc, table, installed, hold>>
        /\ loaded'[p] = NoEntry /\ handler'[p] = handler[p] + 1
    BY <1>1, <1>12, Zenon DEF Domains, HandlerDelete
  <2>2. QED
    BY <1>1, <1>2, <2>1 DEF HoldInv
<1>13. CASE HandlerReturn(p)
  <2>1. /\ handler[p] = SLOTS + 1 /\ handler'[p] = handler[p] + 1 /\ hold'[p] = "free"
        /\ UNCHANGED <<pc, table, installed, loaded>>
    BY <1>1, <1>13, Zenon DEF Domains, HandlerReturn
  <2>2. QED
    BY <1>1, <1>2, <2>1 DEF HoldInv
<1>14. CASE DefaultHandler(p)
  <2>1. UNCHANGED <<pc, table, installed, hold, handler, loaded>>
    BY <1>14, Zenon DEF DefaultHandler, cleanupVars
  <2>2. QED
    BY <1>2, <2>1, Zenon DEF HoldInv, Slots
<1>15. QED
  BY <1>3, <1>4, <1>5, <1>6, <1>7, <1>8, <1>9, <1>10, <1>11, <1>12, <1>13, <1>14, Zenon
  DEF Step, OutputStep, HandlerStep

\* The table names the files of the values that exist, none of them twice, and
\* every temp file that has been registered.
LEMMA TableStep ==
    ASSUME Typed, NEW p \in Procs, PhaseInv(p), TmpInv(p), TableInv(p), Step(p)
    PROVE  TableInv(p)'
<1>1. /\ Domains /\ ValuesTyped(p) /\ TableTyped(p) /\ at[p] \in Outs(p) /\ at[p] \in Nat \ {0}
      /\ tmp[p] \in [Outs(p) -> Contents]
  BY CommandFacts DEF Typed, ValuesTyped
<1>2. Outs(p)' = Outs(p)
  BY <1>1, StepKeeps, Zenon DEF given, Outs
<1>0. /\ \A e : e \in unremoved[p] => e \in unremoved'[p]
      /\ pc[p] \in DropSteps => pc'[p] \in DropSteps
  BY <1>1, StuckStays, Zenon
<1>3. CASE Create(p)
  <2>1. /\ status[p] = "running" /\ pc[p] = "create" /\ live'[p] = live[p] \cup {at[p]}
        /\ placeholder[p] \subseteq placeholder'[p]
        /\ pc'[p] \in {"dropTmp", "createTmp", "guardPlaceholder"}
        /\ UNCHANGED <<tmp, at, temped, table, installed>>
    BY <1>1, <1>3 DEF Domains, Create, At, Goto, cleanupVars
  <2>2. live[p] = 1 .. at[p] - 1
    BY <2>1, Zenon DEF PhaseInv
  <2>3. at[p] \notin live[p]
    BY <1>1, <2>2
  <2>4. \A s \in Slots : table[p][s] # PathEntry(at[p])
    BY <1>0, <2>3, EntryFacts DEF TableInv, Stuck, DropSteps
  <2>5. QED
    BY <1>0, <1>2, <2>1, <2>4, Zenon DEF TableInv, Stuck, DropSteps, Slots
<1>4. CASE GuardPlaceholder(p)
  <2>1. /\ table'[p] \in [Slots -> Entries(p)] /\ installed'[p] = TRUE
        /\ \E s \in Slots :
              /\ table[p][s] = NoEntry /\ table'[p][s] = PathEntry(at[p])
              /\ \A t \in Slots : t # s => table'[p][t] = table[p][t]
    <3>1. PathEntry(at[p]) \in Entries(p) /\ Registered(p, PathEntry(at[p]))
      BY <1>1, <1>4, PlaceholderRegistered, Zenon DEF Entries
    <3>2. QED
      BY <1>1, <3>1, RegisteredTable, ZenonT(60)
  <2>2. PICK s \in Slots : /\ table[p][s] = NoEntry /\ table'[p][s] = PathEntry(at[p])
                          /\ \A t \in Slots : t # s => table'[p][t] = table[p][t]
    BY <2>1, ZenonT(60)
  <2>3. /\ at[p] \in placeholder[p] \cap live[p] /\ pc[p] = "guardPlaceholder" /\ pc'[p] = "createTmp"
        /\ status'[p] = "running" /\ \A t \in Slots : table[p][t] # PathEntry(at[p])
        /\ UNCHANGED <<tmp, at, live, placeholder, temped>>
    BY <1>0, <1>1, <1>4, SMTT(60)
    DEF Domains, GuardPlaceholder, At, Goto, PhaseInv, TableInv, Stuck, DropSteps, valueVars
  <2>4. \A t \in Slots :
          \/ table'[p][t] = NoEntry
          \/ \E i \in placeholder'[p] \cap live'[p] : table'[p][t] = PathEntry(i)
          \/ \E i \in temped'[p] \cap live'[p] : table'[p][t] = TmpEntry(i)
    BY <1>0, <2>2, <2>3 DEF TableInv, Stuck, DropSteps
  <2>5. \A t, u \in Slots : table'[p][t] = table'[p][u] /\ t # u => table'[p][t] = NoEntry
    BY <1>0, <2>2, <2>3, Zenon DEF TableInv, Stuck, DropSteps
  <2>6. \A i \in Outs(p) : tmp'[p][i] # "none" => \E t \in Slots : table'[p][t] = TmpEntry(i)
    BY <1>0, <2>2, <2>3, EntryFacts, SMTT(60) DEF TableInv, Stuck, DropSteps
  <2>7. QED
    BY <1>0, <1>2, <2>1, <2>3, <2>4, <2>5, <2>6, Zenon DEF TableInv, Stuck, DropSteps
<1>5. CASE CreateTmp(p)
  <2>1. /\ status[p] = "running" /\ pc[p] = "createTmp"
        /\ UNCHANGED <<at, live, placeholder, temped, table, installed>>
        /\ \/ pc'[p] = "dropTmp" /\ UNCHANGED tmp
           \/ pc'[p] = "guardTmp" /\ \A i \in Outs(p) : i # at[p] => tmp'[p][i] = tmp[p][i]
    BY <1>1, <1>5 DEF Domains, CreateTmp, At, Goto, valueVars, cleanupVars
  <2>2. QED
    BY <1>0, <1>2, <2>1, Zenon DEF TableInv, Stuck, DropSteps, Slots
<1>6. CASE GuardTmp(p)
  <2>1. /\ table'[p] \in [Slots -> Entries(p)] /\ installed'[p] = TRUE
        /\ \E s \in Slots :
              /\ table[p][s] = NoEntry /\ table'[p][s] = TmpEntry(at[p])
              /\ \A t \in Slots : t # s => table'[p][t] = table[p][t]
    <3>1. TmpEntry(at[p]) \in Entries(p) /\ Registered(p, TmpEntry(at[p]))
      BY <1>1, <1>6, TmpRegistered, Zenon DEF Entries
    <3>2. QED
      BY <1>1, <3>1, RegisteredTable, ZenonT(60)
  <2>2. PICK s \in Slots : /\ table[p][s] = NoEntry /\ table'[p][s] = TmpEntry(at[p])
                          /\ \A t \in Slots : t # s => table'[p][t] = table[p][t]
    BY <2>1, Zenon
  <2>3. /\ at[p] \in live[p] /\ at[p] \notin temped[p] /\ temped'[p] = temped[p] \cup {at[p]}
        /\ pc[p] = "guardTmp" /\ pc'[p] \in {"create", "write"}
        /\ UNCHANGED <<tmp, live, placeholder>>
    <3>1. /\ status[p] = "running" /\ pc[p] = "guardTmp" /\ pc'[p] \in {"create", "write"}
          /\ temped'[p] = temped[p] \cup {at[p]} /\ UNCHANGED <<tmp, live, placeholder>>
      BY <1>1, <1>6, Zenon DEF Domains, GuardTmp, At, Goto, GotoAt
    <3>2. live[p] = 1 .. at[p] /\ temped[p] = 1 .. at[p] - 1
      BY <3>1, ZenonT(60) DEF PhaseInv
    <3>3. QED
      BY <1>1, <3>1, <3>2
  <2>4. \A t \in Slots :
          \/ table'[p][t] = NoEntry
          \/ \E i \in placeholder'[p] \cap live'[p] : table'[p][t] = PathEntry(i)
          \/ \E i \in temped'[p] \cap live'[p] : table'[p][t] = TmpEntry(i)
    BY <1>0, <2>2, <2>3, SMTT(60) DEF TableInv, Stuck, DropSteps
  <2>5. \A t, u \in Slots : table'[p][t] = table'[p][u] /\ t # u => table'[p][t] = NoEntry
    <3>1. \A t \in Slots : table[p][t] # TmpEntry(at[p])
      BY <1>0, <2>3, EntryFacts, SMTT(60) DEF TableInv, Stuck, DropSteps
    <3>2. QED
      BY <1>0, <2>2, <3>1, SMTT(60) DEF TableInv, Stuck, DropSteps
  <2>6. \A i \in Outs(p) : tmp'[p][i] # "none" => \E t \in Slots : table'[p][t] = TmpEntry(i)
    BY <1>0, <2>2, <2>3, EntryFacts DEF TableInv, Stuck, DropSteps
  <2>7. QED
    BY <1>0, <1>2, <2>1, <2>3, <2>4, <2>5, <2>6, Zenon DEF TableInv, Stuck, DropSteps
<1>7. CASE Write(p) \/ Sync(p) \/ HoldOff(p) \/ Rename(p) \/ DropTmp(p) \/ DropPlaceholder(p)
  <2>1. /\ status[p] = "running" /\ pc[p] # "guardTmp" /\ pc'[p] # "guardPlaceholder"
        /\ pc'[p] \in {"rename", "committed"} => pc[p] = "rename"
        /\ UNCHANGED <<at, live, placeholder, temped, table, installed>>
    BY <1>1, <1>7, ZenonT(60) DEF Domains, Write, Sync, HoldOff, Rename, DropTmp, DropPlaceholder, At, Goto,
                      valueVars, cleanupVars
  <2>2. \A i \in Outs(p) : tmp'[p][i] # "none" => tmp[p][i] # "none"
    BY <1>1, <1>7 DEF Domains, Write, Sync, HoldOff, Rename, DropTmp, DropPlaceholder, RemoveTmp
  <2>3. QED
    BY <1>0, <1>2, <2>1, <2>2, Zenon DEF TableInv, Stuck, DropSteps, Slots
<1>8. CASE ReleasePlaceholder(p)
  <2>1. /\ table'[p] \in [Slots -> Entries(p)]
        /\ \A s \in Slots : table'[p][s] = IF table[p][s] \in {PathEntry(at[p])} THEN NoEntry
                                           ELSE table[p][s]
    BY <1>1, <1>8, ReleasedTable, Zenon DEF ReleasePlaceholder
  <2>2. /\ pc[p] = "release" /\ pc'[p] = "rename"
        /\ UNCHANGED <<tmp, at, live, placeholder, temped, installed>>
    BY <1>1, <1>8, ZenonT(60) DEF Domains, ReleasePlaceholder, At, Goto, valueVars
  <2>3. \A t \in Slots :
          \/ table'[p][t] = NoEntry
          \/ \E i \in placeholder'[p] \cap live'[p] : table'[p][t] = PathEntry(i)
          \/ \E i \in temped'[p] \cap live'[p] : table'[p][t] = TmpEntry(i)
    BY <1>0, <2>1, <2>2, EntryFacts, SMTT(60) DEF TableInv, Stuck, DropSteps
  <2>4. \A t, u \in Slots : table'[p][t] = table'[p][u] /\ t # u => table'[p][t] = NoEntry
    BY <1>0, <2>1, SMTT(60) DEF TableInv, Stuck, DropSteps
  <2>5. \A i \in Outs(p) : tmp'[p][i] # "none" => \E t \in Slots : table'[p][t] = TmpEntry(i)
    BY <1>0, <1>1, <2>1, <2>2, EntryFacts DEF TableInv, Stuck, DropSteps
  <2>6. \A t \in Slots : table'[p][t] # PathEntry(at[p])
    BY <2>1, <2>2, EntryFacts, Zenon
  <2>7. QED
    BY <1>0, <1>2, <2>1, <2>2, <2>3, <2>4, <2>5, <2>6, ZenonT(60) DEF TableInv, Stuck, DropSteps
<1>9. CASE Committed(p)
  <2>1. /\ table'[p] \in [Slots -> Entries(p)]
        /\ \A s \in Slots : table'[p][s] = IF table[p][s] \in {TmpEntry(at[p])} THEN NoEntry
                                           ELSE table[p][s]
    BY <1>1, <1>9, ReleasedTable, Zenon DEF Committed
  <2>2. /\ pc[p] = "committed" /\ live'[p] = live[p] \ {at[p]} /\ tmp[p][at[p]] = "none"
        /\ (\A t \in Slots : table[p][t] # PathEntry(at[p]))
        /\ pc'[p] # "write" => pc'[p] = "committed" /\ status'[p] = "ok"
        /\ UNCHANGED <<tmp, placeholder, temped, installed>>
    BY <1>0, <1>1, <1>9, ZenonT(60)
    DEF Domains, Committed, At, Goto, GotoAt, Exit, TmpInv, TableInv, Stuck, DropSteps
  <2>3. \A t \in Slots :
          \/ table'[p][t] = NoEntry
          \/ \E i \in placeholder'[p] \cap live'[p] : table'[p][t] = PathEntry(i)
          \/ \E i \in temped'[p] \cap live'[p] : table'[p][t] = TmpEntry(i)
    BY <1>0, <2>1, <2>2, EntryFacts, SMTT(60) DEF TableInv, Stuck, DropSteps
  <2>4. \A t, u \in Slots : table'[p][t] = table'[p][u] /\ t # u => table'[p][t] = NoEntry
    BY <1>0, <2>1, SMTT(60) DEF TableInv, Stuck, DropSteps
  <2>5. \A i \in Outs(p) : tmp'[p][i] # "none" => \E t \in Slots : table'[p][t] = TmpEntry(i)
    <3>1. SUFFICES ASSUME NEW i \in Outs(p), tmp'[p][i] # "none"
                   PROVE  \E t \in Slots : table'[p][t] = TmpEntry(i)
      BY Zenon
    <3>2. i # at[p] /\ tmp[p][i] # "none"
      BY <2>2, <3>1, Zenon
    <3>3. PICK t \in Slots : table[p][t] = TmpEntry(i)
      BY <2>2, <3>2, Zenon DEF TableInv, Stuck, DropSteps
    <3>4. table[p][t] \notin {TmpEntry(at[p])}
      BY <3>2, <3>3, EntryFacts, ZenonT(60)
    <3>5. QED
      BY <2>1, <3>3, <3>4, Zenon
  <2>6. QED
    BY <1>0, <1>2, <2>1, <2>2, <2>3, <2>4, <2>5, Zenon DEF TableInv, Stuck, DropSteps
<1>10. CASE DropGuards(p)
  <2>1. /\ table'[p] \in [Slots -> Entries(p)]
        /\ \A s \in Slots : table'[p][s] = IF table[p][s] \in {PathEntry(at[p]), TmpEntry(at[p])} THEN NoEntry
                                           ELSE table[p][s]
    <3>1. PICK both : both = {PathEntry(at[p]), TmpEntry(at[p])}
      BY Zenon
    <3>2. Release(p, both)
      BY <1>10, <3>1, Zenon DEF DropGuards
    <3>3. /\ table'[p] \in [Slots -> Entries(p)]
          /\ \A s \in Slots : table'[p][s] = IF table[p][s] \in both THEN NoEntry ELSE table[p][s]
      BY <1>1, <3>2, ReleasedTable, Zenon
    <3>4. QED
      BY <3>1, <3>3, Zenon
  <2>2. /\ pc[p] = "dropGuards" /\ live'[p] = live[p] \ {at[p]}
        /\ tmp[p][at[p]] = "none" \/ TmpEntry(at[p]) \in unremoved'[p]
        /\ pc'[p] \in {"dropGuards", "dropTmp"}
        /\ UNCHANGED <<tmp, placeholder, temped, installed, unremoved>>
    BY <1>1, <1>10, ZenonT(60) DEF Domains, DropGuards, At, Goto, GotoAt, Exit, TmpInv, Stuck
  <2>3. \A t \in Slots :
          \/ table'[p][t] = NoEntry
          \/ \E i \in placeholder'[p] \cap live'[p] : table'[p][t] = PathEntry(i)
          \/ \E i \in temped'[p] \cap live'[p] : table'[p][t] = TmpEntry(i)
    BY <1>0, <2>1, <2>2, EntryFacts DEF TableInv, Stuck, DropSteps
  <2>4. \A t, u \in Slots : table'[p][t] = table'[p][u] /\ t # u => table'[p][t] = NoEntry
    BY <1>0, <2>1, Zenon DEF TableInv, Stuck, DropSteps
  <2>5. \A i \in Outs(p) :
           tmp'[p][i] # "none" =>
               (\E t \in Slots : table'[p][t] = TmpEntry(i)) \/ TmpEntry(i) \in unremoved'[p]
    <3>1. SUFFICES ASSUME NEW i \in Outs(p), tmp'[p][i] # "none", TmpEntry(i) \notin unremoved'[p]
                   PROVE  \E t \in Slots : table'[p][t] = TmpEntry(i)
      BY Zenon
    <3>2. i # at[p] /\ tmp[p][i] # "none" /\ TmpEntry(i) \notin unremoved[p]
      BY <2>2, <3>1, Zenon
    <3>3. PICK t \in Slots : table[p][t] = TmpEntry(i)
      BY <2>2, <3>2, Zenon DEF TableInv, Stuck
    <3>4. table[p][t] \notin {PathEntry(at[p]), TmpEntry(at[p])}
      BY <3>2, <3>3, EntryFacts, Zenon
    <3>5. QED
      BY <2>1, <3>3, <3>4, Zenon
  <2>6. QED
    BY <1>0, <1>2, <2>1, <2>2, <2>3, <2>4, <2>5 DEF TableInv, Stuck, DropSteps
<1>11. CASE KeyStep(p)
  <2>1. /\ pc[p] \in KeySteps /\ pc'[p] \in KeySteps
        /\ UNCHANGED <<tmp, at, live, placeholder, temped, table, installed>>
    BY <1>1, <1>11, KeyMoves, Zenon DEF valueVars, cleanupVars
  <2>2. QED
    BY <1>0, <1>2, <2>1, Zenon DEF TableInv, Stuck, DropSteps, Slots, KeySteps
<1>12. CASE Interrupt(p) \/ HandlerStep(p)
  <2>1. status[p] = "running" /\ UNCHANGED <<pc, at, live, placeholder, temped, table, installed>>
    BY <1>1, <1>12, HandlerMoves, Zenon DEF valueVars
  <2>2. UNCHANGED tmp \/ \E i : tmp' = [tmp EXCEPT ![p][i] = "none"]
    BY <1>12, Zenon DEF Interrupt, HandlerStep, HandlerLoad, HandlerDelete, HandlerReturn, DefaultHandler,
                    RemoveTmp
  <2>3. \A i \in Outs(p) : tmp'[p][i] # "none" => tmp[p][i] # "none"
    BY <1>1, <2>2 DEF Domains
  <2>4. QED
    BY <1>0, <1>2, <2>1, <2>3, Zenon DEF TableInv, Stuck, DropSteps, Slots
<1>13. QED
  BY <1>3, <1>4, <1>5, <1>6, <1>7, <1>8, <1>9, <1>10, <1>11, <1>12, Zenon DEF Step, OutputStep
=============================================================================
