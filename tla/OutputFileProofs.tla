-------------------------- MODULE OutputFileProofs --------------------------
(***************************************************************************)
(* What is at the output paths and at the temp paths, at every step of     *)
(* every process: nothing is left behind, and nothing finished is lost.    *)
(***************************************************************************)
EXTENDS OutputFileLemmas

\* The empty file with which p has reserved an output.
PlaceholderOf(p) == [kind |-> "placeholder", by |-> p]

\* A placeholder belongs to a value that exists and has its flag set, and it is
\* registered, except before its registration and after its release for the
\* rename; only a refused removal leaves it to nobody.
PlaceholderInv(p) ==
    /\ \A i \in Outs(p) :
          fs[PathOf(p, i)] = PlaceholderOf(p) =>
              \/ /\ i \in placeholder[p] \cap live[p]
                 /\ \/ \E s \in Slots : table[p][s] = PathEntry(i)
                    \/ i = at[p] /\ pc[p] \in {"guardPlaceholder", "rename"}
                    \/ renameFailed[p]
              \/ Stuck(p, PathEntry(i))
    /\ status[p] = "running" /\ pc[p] \in {"dropGuards", "committed"} =>
          fs[Here(p)] # PlaceholderOf(p) \/ Stuck(p, PathEntry(at[p]))

\* A placeholder is not one of the other things a path may hold.
LEMMA PlaceholderFacts ==
    ASSUME NEW p
    PROVE  /\ Absent # PlaceholderOf(p) /\ OldFile # PlaceholderOf(p) /\ OldKey # PlaceholderOf(p)
           /\ \A k, q : [kind |-> k, by |-> q] = PlaceholderOf(p) => k = "placeholder" /\ q = p
           /\ PlaceholderOf(p).by = p
  BY Zenon DEF PlaceholderOf, Absent, OldFile, OldKey

\* The steps that do not touch an output path.
QuietStep(p) ==
    \/ GuardPlaceholder(p) \/ CreateTmp(p) \/ GuardTmp(p) \/ Write(p) \/ Sync(p) \/ HoldOff(p)
    \/ ReleasePlaceholder(p) \/ Committed(p) \/ DropTmp(p) \/ DropGuards(p)
    \/ Interrupt(p) \/ HandlerLoad(p) \/ HandlerReturn(p) \/ DefaultHandler(p)

\* They leave what is there alone.
LEMMA QuietFs ==
    ASSUME NEW p, QuietStep(p)
    PROVE  UNCHANGED fs
  BY Zenon DEF QuietStep, GuardPlaceholder, CreateTmp, GuardTmp, Write, Sync, HoldOff, ReleasePlaceholder,
         Committed, DropTmp, DropGuards, Interrupt, HandlerLoad, HandlerReturn, DefaultHandler

\* The handler deletes a file of one of p's outputs.
LEMMA DeletedOutput ==
    ASSUME Typed, NEW p \in Procs, HandlerDelete(p)
    PROVE  loaded[p][2] \in Outs(p)
<1>1. loaded[p] \in Entries(p) /\ loaded[p] # NoEntry
  BY Zenon DEF Typed, TableTyped, HandlerDelete
<1>2. QED
  BY <1>1, EntryFacts, Zenon DEF Entries

\* A step of p puts entries of p or none, at its own paths.
LEMMA FsStep ==
    ASSUME Typed, NEW p \in Procs, Step(p)
    PROVE  /\ DOMAIN fs' = Paths
           /\ \A x \in Paths :
                 \/ fs'[x] = fs[x]
                 \/ /\ \E i \in Outs(p) : x = PathOf(p, i)
                    /\ fs'[x] = Absent \/ \E k : fs'[x] = [kind |-> k, by |-> p]
<1>1. DOMAIN fs = Paths /\ Here(p) = PathOf(p, at[p]) /\ at[p] \in Outs(p)
  BY Zenon DEF Typed, ValuesTyped, Here
<1>2. CASE QuietStep(p)
  BY <1>1, <1>2, QuietFs, Zenon
<1>3. CASE UNCHANGED fs
  BY <1>1, <1>3, Zenon
<1>4. CASE \E k : Put(Here(p), k, p)
  BY <1>1, <1>4, Zenon DEF Put
<1>5. CASE Unlink(Here(p))
  BY <1>1, <1>5, Zenon DEF Unlink
<1>6. CASE HandlerDelete(p)
  <2>1. UNCHANGED fs \/ Unlink(PathOf(p, loaded[p][2]))
    BY <1>6, Zenon DEF HandlerDelete, RemoveOutput
  <2>2. loaded[p][2] \in Outs(p)
    BY <1>6, DeletedOutput, Zenon
  <2>3. QED
    BY <1>1, <2>1, <2>2, Zenon DEF Unlink
<1>7. CASE Create(p) \/ Rename(p) \/ DropPlaceholder(p) \/ KeyStep(p)
  <2>1. UNCHANGED fs \/ (\E k : Put(Here(p), k, p)) \/ Unlink(Here(p))
    BY <1>1, <1>7, Zenon DEF Create, Rename, DropPlaceholder, KeyStep, KeyCreate, KeyWrite, KeyRemove,
       RemoveOutput
  <2>2. QED
    BY <1>3, <1>4, <1>5, <2>1, Zenon
<1>8. QED
  BY <1>2, <1>6, <1>7, Zenon DEF Step, OutputStep, HandlerStep, QuietStep

\* A placeholder of q is put there by q alone.
LEMMA PlaceholderKept ==
    ASSUME Typed, NEW p \in Procs, Step(p), NEW q \in Procs, q # p
    PROVE  \A x \in Paths : fs'[x] = PlaceholderOf(q) => fs[x] = PlaceholderOf(q)
<1>1. TAKE x \in Paths
<1>2. \/ fs'[x] = fs[x] \/ fs'[x] = Absent \/ \E k : fs'[x] = [kind |-> k, by |-> p]
  BY FsStep, Zenon
<1>3. QED
  BY <1>2, PlaceholderFacts

\* What q knows of its placeholders stays true when another process steps.
LEMMA PlaceholderInvKept ==
    ASSUME Typed, NEW p \in Procs, Step(p), NEW q \in Procs, q # p, PlaceholderInv(q)
    PROVE  PlaceholderInv(q)'
<1>1. /\ UNCHANGED given /\ Kept(q) /\ at[q] \in Outs(q) /\ \A i \in Outs(q) : PathOf(q, i) \in Paths
  BY StepKeeps, CommandFacts, Zenon DEF Typed, ValuesTyped
<1>2. \A x \in Paths : fs'[x] = PlaceholderOf(q) => fs[x] = PlaceholderOf(q)
  BY PlaceholderKept, Zenon
<1>3. Outs(q)' = Outs(q) /\ (\A i : PathOf(q, i)' = PathOf(q, i)) /\ PlaceholderOf(q)' = PlaceholderOf(q)
  BY <1>1, Zenon DEF PathOf, Outs, given, PlaceholderOf
<1>4. Here(q)' = Here(q) /\ Here(q) \in Paths /\ Slots' = Slots
  BY <1>1, <1>3, Zenon DEF Here, PathOf, given, Kept, Slots
<1>5. QED
  BY <1>1, <1>2, <1>3, <1>4, Zenon DEF PlaceholderInv, Kept, Stuck

\* Nothing is released for another output.
LEMMA OthersStay ==
    ASSUME Domains, NEW p \in Procs, TableTyped(p), NEW j,
           \/ Release(p, {PathEntry(j)})
           \/ Release(p, {TmpEntry(j)})
           \/ Release(p, {PathEntry(j), TmpEntry(j)})
    PROVE  \A i : i # j => \A s \in Slots : table[p][s] = PathEntry(i) => table'[p][s] = PathEntry(i)
<1>1. PICK entries : /\ entries \in {{PathEntry(j)}, {TmpEntry(j)}, {PathEntry(j), TmpEntry(j)}}
                     /\ Release(p, entries)
  BY Zenon
<1>2. \A i : i # j => PathEntry(i) \notin entries
  BY <1>1, EntryFacts
<1>3. \A s \in Slots : table'[p][s] = IF table[p][s] \in entries THEN NoEntry ELSE table[p][s]
  BY <1>1, ReleasedTable, Zenon
<1>4. QED
  BY <1>2, <1>3, Zenon

\* The placeholder follows p's command.
LEMMA PlaceholderStep ==
    ASSUME Typed, NEW p \in Procs, PhaseInv(p), TableInv(p), PlaceholderInv(p), Step(p)
    PROVE  PlaceholderInv(p)'
<1>1. /\ Domains /\ TableTyped(p) /\ DOMAIN fs = Paths /\ at[p] \in Outs(p)
      /\ \A i \in Outs(p) : PathOf(p, i) \in Paths
      /\ \A i, j \in Outs(p) : PathOf(p, i) = PathOf(p, j) => i = j
  BY CommandFacts, Zenon DEF Typed, ValuesTyped
<1>2. /\ Outs(p)' = Outs(p) /\ (\A i : PathOf(p, i)' = PathOf(p, i)) /\ Slots' = Slots
      /\ PlaceholderOf(p)' = PlaceholderOf(p)
      /\ Here(p) = PathOf(p, at[p]) /\ Here(p)' = PathOf(p, at'[p])
  BY <1>1, StepKeeps, Zenon DEF given, PathOf, Outs, Here, PlaceholderOf, Slots
<1>0. /\ \A e : e \in unremoved[p] => e \in unremoved'[p]
      /\ pc[p] \in DropSteps => pc'[p] \in DropSteps
  BY <1>1, StuckStays, Zenon
<1>3. CASE Create(p)
  <2>1. /\ pc[p] = "create" /\ live'[p] = live[p] \cup {at[p]}
        /\ UNCHANGED <<at, table, status, renameFailed>>
        /\ \/ pc'[p] \in {"dropTmp", "createTmp"} /\ UNCHANGED <<fs, placeholder>>
           \/ /\ pc'[p] = "guardPlaceholder" /\ placeholder'[p] = placeholder[p] \cup {at[p]}
              /\ fs' = [fs EXCEPT ![Here(p)] = [kind |-> "placeholder", by |-> p]]
    BY <1>1, <1>3, Zenon DEF Domains, Create, At, Put, Goto, cleanupVars
  <2>2. CASE pc'[p] \in {"dropTmp", "createTmp"} /\ UNCHANGED <<fs, placeholder>>
    BY <1>0, <1>2, <2>1, <2>2, Zenon DEF PlaceholderInv, Stuck
  <2>3. CASE /\ pc'[p] = "guardPlaceholder" /\ placeholder'[p] = placeholder[p] \cup {at[p]}
             /\ fs' = [fs EXCEPT ![Here(p)] = [kind |-> "placeholder", by |-> p]]
    <3>1. \A i \in Outs(p) : i # at[p] => fs'[PathOf(p, i)] = fs[PathOf(p, i)]
      BY <1>1, <1>2, <2>3, Zenon
    <3>2. QED
      BY <1>0, <1>2, <2>1, <2>3, <3>1 DEF PlaceholderInv, Stuck
  <2>4. QED
    BY <2>1, <2>2, <2>3, Zenon
<1>4. CASE GuardPlaceholder(p)
  <2>1. \E s \in Slots : /\ table[p][s] = NoEntry /\ table'[p][s] = PathEntry(at[p])
                         /\ \A t \in Slots : t # s => table'[p][t] = table[p][t]
    <3>1. PathEntry(at[p]) \in Entries(p) /\ Registered(p, PathEntry(at[p]))
      BY <1>1, <1>4, PlaceholderRegistered, Zenon DEF Entries
    <3>2. QED
      BY <1>1, <3>1, RegisteredTable, ZenonT(60)
  <2>2. /\ pc[p] = "guardPlaceholder" /\ pc'[p] = "createTmp"
        /\ UNCHANGED <<fs, at, live, placeholder, renameFailed>>
    BY <1>1, <1>4, Zenon DEF Domains, GuardPlaceholder, At, Goto, valueVars
  <2>3. QED
    BY <1>0, <1>2, <2>1, <2>2, EntryFacts DEF PlaceholderInv, Stuck
<1>5. CASE GuardTmp(p)
  <2>1. \E s \in Slots : /\ table[p][s] = NoEntry /\ table'[p][s] = TmpEntry(at[p])
                         /\ \A t \in Slots : t # s => table'[p][t] = table[p][t]
    <3>1. TmpEntry(at[p]) \in Entries(p) /\ Registered(p, TmpEntry(at[p]))
      BY <1>1, <1>5, TmpRegistered, Zenon DEF Entries
    <3>2. QED
      BY <1>1, <3>1, RegisteredTable, ZenonT(60)
  <2>2. /\ pc[p] = "guardTmp" /\ pc'[p] \in {"create", "write"}
        /\ UNCHANGED <<fs, live, placeholder, renameFailed>>
    BY <1>1, <1>5, Zenon DEF Domains, GuardTmp, At, Goto, GotoAt
  <2>3. QED
    BY <1>0, <1>2, <2>1, <2>2, EntryFacts DEF PlaceholderInv, Stuck
<1>6. CASE CreateTmp(p) \/ Write(p) \/ Sync(p) \/ HoldOff(p) \/ DropTmp(p)
  <2>1. /\ pc[p] \notin {"guardPlaceholder", "rename"} /\ pc'[p] \notin {"dropGuards", "committed"}
        /\ UNCHANGED <<fs, at, live, placeholder, table, renameFailed>>
    BY <1>1, <1>6, Zenon DEF Domains, CreateTmp, Write, Sync, HoldOff, DropTmp, At, Goto, valueVars, cleanupVars
  <2>2. QED
    BY <1>0, <1>2, <2>1, Zenon DEF PlaceholderInv, Stuck
<1>7. CASE ReleasePlaceholder(p)
  <2>1. Release(p, {PathEntry(at[p])})
    BY <1>7, Zenon DEF ReleasePlaceholder
  <2>2. \A i : i # at[p] => \A s \in Slots : table[p][s] = PathEntry(i) => table'[p][s] = PathEntry(i)
    BY <1>1, <2>1, OthersStay, Zenon
  <2>3. /\ pc[p] = "release" /\ pc'[p] = "rename"
        /\ UNCHANGED <<fs, at, live, placeholder, renameFailed>>
    BY <1>1, <1>7, Zenon DEF Domains, ReleasePlaceholder, At, Goto, valueVars
  <2>4. QED
    BY <1>0, <1>2, <2>2, <2>3, Zenon DEF PlaceholderInv, Stuck
<1>8. CASE Rename(p)
  <2>1. /\ pc[p] = "rename" /\ UNCHANGED <<at, live, placeholder, table, status>>
        /\ \/ renameFailed'[p] = TRUE /\ UNCHANGED fs /\ pc'[p] = "dropTmp"
           \/ /\ fs' = [fs EXCEPT ![Here(p)] = [kind |-> tmp[p][at[p]], by |-> p]]
              /\ pc'[p] = "committed" /\ UNCHANGED renameFailed
    BY <1>1, <1>8, Zenon DEF Domains, Rename, At, Goto, Put, valueVars
  <2>2. CASE renameFailed'[p] = TRUE /\ UNCHANGED fs /\ pc'[p] = "dropTmp"
    BY <1>0, <1>2, <2>1, <2>2, Zenon DEF PlaceholderInv, Stuck
  <2>3. CASE /\ fs' = [fs EXCEPT ![Here(p)] = [kind |-> tmp[p][at[p]], by |-> p]]
             /\ pc'[p] = "committed" /\ UNCHANGED renameFailed
    <3>1. tmp[p][at[p]] # "placeholder"
      BY <1>1, Zenon DEF Typed, ValuesTyped, Contents
    <3>2. fs'[Here(p)] # PlaceholderOf(p)
      BY <1>1, <1>2, <2>3, <3>1, PlaceholderFacts
    <3>3. \A i \in Outs(p) : i # at[p] => fs'[PathOf(p, i)] = fs[PathOf(p, i)]
      BY <1>1, <1>2, <2>3, Zenon
    <3>4. QED
      BY <1>0, <1>2, <2>1, <2>3, <3>2, <3>3 DEF PlaceholderInv, Stuck
  <2>4. QED
    BY <2>1, <2>2, <2>3, Zenon
<1>9. CASE Committed(p) \/ DropGuards(p)
  <2>1. Release(p, {TmpEntry(at[p])}) \/ Release(p, {PathEntry(at[p]), TmpEntry(at[p])})
    BY <1>9, Zenon DEF Committed, DropGuards
  <2>2. \A i : i # at[p] => \A s \in Slots : table[p][s] = PathEntry(i) => table'[p][s] = PathEntry(i)
    BY <1>1, <2>1, OthersStay, Zenon
  <2>3. /\ pc[p] \in {"committed", "dropGuards"} /\ status[p] = "running"
        /\ live'[p] = live[p] \ {at[p]} /\ UNCHANGED <<fs, placeholder, renameFailed>>
        /\ status'[p] \in {"ok", "error"} \/ pc'[p] \in {"write", "dropTmp"}
    <3>1. CASE Committed(p)
      BY <1>1, <3>1, Zenon DEF Domains, Committed, At, Goto, GotoAt, Exit
    <3>2. CASE DropGuards(p)
      BY <1>1, <3>2, Zenon DEF Domains, DropGuards, At, Goto, GotoAt, Exit
    <3>3. QED
      BY <1>9, <3>1, <3>2, Zenon
  <2>4. QED
    BY <1>0, <1>2, <2>2, <2>3, Zenon DEF PlaceholderInv, Stuck
<1>10. CASE DropPlaceholder(p)
  <2>1. /\ pc[p] = "dropPlaceholder" /\ pc'[p] = "dropGuards"
        /\ UNCHANGED <<at, live, placeholder, table, renameFailed>>
        /\ \/ fs' = [fs EXCEPT ![Here(p)] = Absent]
           \/ UNCHANGED fs /\ (at[p] \notin placeholder[p] \/ PathEntry(at[p]) \in unremoved'[p])
    <3>1. /\ pc[p] = "dropPlaceholder" /\ pc'[p] = "dropGuards"
          /\ UNCHANGED <<at, live, placeholder, table, renameFailed>>
          /\ IF at[p] \in placeholder[p] THEN RemoveOutput(p, at[p]) ELSE UNCHANGED <<fs, unremoved>>
      BY <1>1, <1>10, Zenon DEF Domains, DropPlaceholder, At, Goto, valueVars, cleanupVars
    <3>2. RemoveOutput(p, at[p]) =>
             \/ fs' = [fs EXCEPT ![Here(p)] = Absent]
             \/ UNCHANGED fs /\ PathEntry(at[p]) \in unremoved'[p]
      BY <1>1, <1>2, Zenon DEF Domains, RemoveOutput, Unlink, Refused
    <3>3. QED
      BY <3>1, <3>2, Zenon
  <2>2. /\ \A i \in Outs(p) : fs'[PathOf(p, i)] \in {fs[PathOf(p, i)], Absent}
        /\ \/ fs'[Here(p)] = Absent
           \/ UNCHANGED fs /\ (at[p] \notin placeholder[p] \/ PathEntry(at[p]) \in unremoved'[p])
    BY <1>1, <1>2, <2>1, Zenon
  <2>3. \A i \in Outs(p) : fs'[PathOf(p, i)] = PlaceholderOf(p) => fs[PathOf(p, i)] = PlaceholderOf(p)
    BY <2>2, PlaceholderFacts, Zenon
  <2>4. fs'[Here(p)] # PlaceholderOf(p) \/ PathEntry(at[p]) \in unremoved'[p]
    BY <1>0, <1>1, <1>2, <2>1, <2>2, PlaceholderFacts, Zenon DEF PlaceholderInv, Stuck
  <2>5. pc'[p] \in DropSteps
    BY <2>1, Zenon DEF DropSteps
  <2>6. QED
    BY <1>0, <1>2, <2>1, <2>3, <2>4, <2>5, Zenon DEF PlaceholderInv, Stuck
<1>11. CASE KeyStep(p)
  <2>1. /\ pc[p] \in KeySteps /\ pc'[p] \in KeySteps
        /\ UNCHANGED <<at, live, placeholder, table, renameFailed>>
    BY <1>1, <1>11, KeyMoves, Zenon DEF valueVars, cleanupVars
  <2>2. UNCHANGED fs \/ Unlink(Here(p)) \/ \E k \in {"emptyKey", "key"} : Put(Here(p), k, p)
    BY <1>2, <1>11, Zenon DEF KeyStep, KeyCreate, KeyWrite, KeyRemove, RemoveOutput
  <2>3. \A i \in Outs(p) : fs'[PathOf(p, i)] = PlaceholderOf(p) => fs[PathOf(p, i)] = PlaceholderOf(p)
    BY <1>1, <2>2, PlaceholderFacts DEF Put, Unlink
  <2>4. QED
    BY <1>0, <1>2, <2>1, <2>3, Zenon DEF PlaceholderInv, Stuck, KeySteps
<1>12. CASE Interrupt(p) \/ HandlerStep(p)
  <2>1. status[p] = "running" /\ UNCHANGED <<pc, at, live, placeholder, table, renameFailed>>
    BY <1>1, <1>12, HandlerMoves, Zenon DEF valueVars
  <2>2. UNCHANGED fs \/ \E i : Unlink(PathOf(p, i))
    BY <1>12, Zenon DEF Interrupt, HandlerStep, HandlerLoad, HandlerDelete, HandlerReturn, DefaultHandler,
       RemoveOutput
  <2>3. \A i \in Outs(p) : fs'[PathOf(p, i)] = PlaceholderOf(p) => fs[PathOf(p, i)] = PlaceholderOf(p)
    BY <1>1, <2>2, PlaceholderFacts, Zenon DEF Unlink
  <2>4. QED
    BY <1>0, <1>1, <1>2, <2>1, <2>3, Zenon DEF PlaceholderInv, Stuck
<1>13. QED
  BY <1>3, <1>4, <1>5, <1>6, <1>7, <1>8, <1>9, <1>10, <1>11, <1>12, Zenon DEF Step, OutputStep

\* A file of p is gone, or its removal was refused.
TmpGone(p, i) == tmp[p][i] = "none" \/ TmpEntry(i) \in unremoved[p]
PlaceholderGone(p, i) ==
    fs[PathOf(p, i)] # PlaceholderOf(p) \/ PathEntry(i) \in unremoved[p]

\* On Unix the handler has deleted what the slots behind it name, and a process
\* it has ended has nothing left, or was at one of the steps that are excepted.
WalkInv(p) ==
    platform = "unix" =>
        /\ \A s \in Slots, i \in Outs(p) :
              s < handler[p] =>
                  /\ table[p][s] = TmpEntry(i) => TmpGone(p, i)
                  /\ table[p][s] = PathEntry(i) => PlaceholderGone(p, i)
        /\ status[p] = "running" => handler[p] # SLOTS + 2
        /\ status[p] = "interrupted" =>
              \/ pc[p] \in {"guardPlaceholder", "guardTmp"} \/ renameFailed[p]
              \/ \A i \in Outs(p) : TmpGone(p, i) /\ PlaceholderGone(p, i)

\* What q's handler has deleted stays deleted when another process steps.
LEMMA WalkKept ==
    ASSUME Typed, NEW p \in Procs, Step(p), NEW q \in Procs, q # p, WalkInv(q)
    PROVE  WalkInv(q)'
<1>1. UNCHANGED given /\ Kept(q) /\ \A i \in Outs(q) : PathOf(q, i) \in Paths
  BY StepKeeps, CommandFacts, Zenon DEF Typed
<1>2. \A x \in Paths : fs'[x] = PlaceholderOf(q) => fs[x] = PlaceholderOf(q)
  BY PlaceholderKept, Zenon
<1>3. /\ Outs(q)' = Outs(q) /\ (\A i : PathOf(q, i)' = PathOf(q, i)) /\ Slots' = Slots
      /\ PlaceholderOf(q)' = PlaceholderOf(q) /\ platform' = platform
  BY <1>1, Zenon DEF PathOf, Outs, given, PlaceholderOf, Slots
<1>4. QED
  BY <1>1, <1>2, <1>3 DEF WalkInv, Kept, TmpGone, PlaceholderGone

\* The command stands still while a Unix handler runs.
LEMMA CommandStands ==
    ASSUME Domains, NEW p \in Procs, OutputStep(p) \/ KeyStep(p)
    PROVE  /\ platform = "unix" => handler[p] = 0
           /\ handler'[p] = handler[p] /\ status'[p] # "interrupted"
<1>1. CASE Create(p) \/ GuardPlaceholder(p) \/ CreateTmp(p) \/ GuardTmp(p)
  BY <1>1, Zenon DEF Create, GuardPlaceholder, CreateTmp, GuardTmp, At, cleanupVars
<1>2. CASE Write(p) \/ Sync(p) \/ HoldOff(p) \/ ReleasePlaceholder(p) \/ Rename(p)
  BY <1>2, WriteMoves, Zenon
<1>3. CASE Committed(p)
  BY <1>3, Zenon DEF Committed, At, Exit, Domains
<1>4. CASE DropTmp(p) \/ DropPlaceholder(p)
  BY <1>4, Zenon DEF DropTmp, DropPlaceholder, At, cleanupVars
<1>5. CASE DropGuards(p)
  BY <1>5, Zenon DEF DropGuards, At, Exit, Domains
<1>6. CASE KeyStep(p)
  BY <1>6, KeyMoves, Zenon DEF cleanupVars
<1>7. QED
  BY <1>1, <1>2, <1>3, <1>4, <1>5, <1>6, Zenon DEF OutputStep

\* The handler walks through the whole table.
LEMMA WalkStep ==
    ASSUME Typed, NEW p \in Procs, PhaseInv(p), TmpInv(p), HoldInv(p), TableInv(p),
           PlaceholderInv(p), WalkInv(p), Step(p)
    PROVE  WalkInv(p)'
<1>1. /\ Domains /\ handler[p] \in Nat /\ SLOTS \in Nat /\ Slots = 1 .. SLOTS /\ DOMAIN fs = Paths
      /\ tmp[p] \in [Outs(p) -> Contents] /\ \A i \in Outs(p) : PathOf(p, i) \in Paths
  BY CommandFacts, Zenon DEF Typed, ValuesTyped, TableTyped, Slots
<1>2. /\ Outs(p)' = Outs(p) /\ (\A i : PathOf(p, i)' = PathOf(p, i)) /\ Slots' = Slots
      /\ PlaceholderOf(p)' = PlaceholderOf(p) /\ platform' = platform
  BY <1>1, StepKeeps, Zenon DEF given, PathOf, Outs, PlaceholderOf, Slots
<1>0. \A e : e \in unremoved[p] => e \in unremoved'[p]
  BY <1>1, StuckStays, Zenon
<1>11. \A i : /\ TmpGone(p, i)' <=> tmp'[p][i] = "none" \/ TmpEntry(i) \in unremoved'[p]
              /\ PlaceholderGone(p, i)' <=>
                    fs'[PathOf(p, i)] # PlaceholderOf(p) \/ PathEntry(i) \in unremoved'[p]
  BY <1>1, StepKeeps, Zenon DEF TmpGone, PlaceholderGone, PathOf, PlaceholderOf, PathEntry, TmpEntry, given
<1>10. \A i \in Outs(p) :
         /\ tmp'[p][i] = tmp[p][i] /\ TmpGone(p, i) => TmpGone(p, i)'
         /\ fs'[PathOf(p, i)] = fs[PathOf(p, i)] /\ PlaceholderGone(p, i) => PlaceholderGone(p, i)'
  BY <1>0, <1>11, Zenon DEF TmpGone, PlaceholderGone
<1>3. CASE OutputStep(p) \/ KeyStep(p)
  <2>1. platform = "unix" => handler'[p] = 0 /\ status'[p] # "interrupted"
    BY <1>1, <1>3, CommandStands, Zenon
  <2>2. (\A s \in Slots : ~(s < 0)) /\ 0 # SLOTS + 2
    BY <1>1
  <2>3. QED
    BY <1>2, <2>1, <2>2, Zenon DEF WalkInv
<1>4. CASE Interrupt(p)
  <2>1. /\ UNCHANGED <<tmp, fs, pc, renameFailed>> /\ hold[p] = "free" /\ handler[p] = 0
        /\ \/ ~installed[p] /\ UNCHANGED handler
           \/ handler'[p] = 1 /\ status'[p] = "running"
    BY <1>1, <1>4, Zenon DEF Interrupt, Domains
  <2>2. CASE ~installed[p] /\ UNCHANGED handler
    <3>1. \A s \in Slots : table[p][s] = NoEntry
      BY <2>2, Zenon DEF TableInv
    <3>2. pc[p] \notin {"release", "rename"}
      BY <2>1, Zenon DEF HoldInv
    <3>3. \/ pc[p] \in {"guardPlaceholder", "guardTmp"} \/ renameFailed[p]
          \/ \A i \in Outs(p) : TmpGone(p, i) /\ PlaceholderGone(p, i)
      BY <3>1, <3>2, EntryFacts, ZenonT(60) DEF TableInv, PlaceholderInv, TmpGone, PlaceholderGone, Stuck
    <3>4. (\A s \in Slots : ~(s < 0)) /\ 0 # SLOTS + 2
      BY <1>1
    <3>5. QED
      BY <1>2, <1>10, <2>1, <2>2, <3>3, <3>4, Zenon DEF WalkInv
  <2>3. CASE handler'[p] = 1 /\ status'[p] = "running"
    <3>1. (\A s \in Slots : ~(s < 1)) /\ 1 # SLOTS + 2
      BY <1>1
    <3>2. QED
      BY <1>2, <2>3, <3>1, Zenon DEF WalkInv
  <2>4. QED
    BY <2>1, <2>2, <2>3, Zenon
<1>5. CASE HandlerLoad(p)
  <2>1. /\ UNCHANGED <<tmp, fs, table, status>> /\ status[p] = "running" /\ handler[p] \in Slots
        /\ \/ handler'[p] = handler[p]
           \/ handler'[p] = handler[p] + 1 /\ table[p][handler[p]] = NoEntry
    BY <1>1, <1>5, Zenon DEF HandlerLoad, Domains
  <2>2. \A s \in Slots : s < handler'[p] => s < handler[p] \/ table[p][s] = NoEntry
    BY <1>1, <2>1
  <2>3. handler'[p] # SLOTS + 2
    BY <1>1, <2>1
  <2>4. QED
    BY <1>2, <1>10, <2>1, <2>2, <2>3, EntryFacts DEF WalkInv
<1>6. CASE HandlerDelete(p)
  <2>1. /\ UNCHANGED <<table, status>> /\ status[p] = "running" /\ handler[p] \in Slots
        /\ handler'[p] = handler[p] + 1 /\ loaded[p] # NoEntry
        /\ platform = "unix" => loaded[p] = table[p][handler[p]]
    BY <1>1, <1>6, Zenon DEF HandlerDelete, HoldInv, Domains
  <2>2. \A s \in Slots : s < handler'[p] => s < handler[p] \/ s = handler[p]
    BY <1>1, <2>1
  <2>3. handler'[p] # SLOTS + 2
    BY <1>1, <2>1
  <2>4. \/ /\ tmp' = [tmp EXCEPT ![p][loaded[p][2]] = "none"] /\ UNCHANGED <<fs, unremoved>>
           /\ loaded[p] = TmpEntry(loaded[p][2])
        \/ /\ fs' = [fs EXCEPT ![PathOf(p, loaded[p][2])] = Absent] /\ UNCHANGED <<tmp, unremoved>>
           /\ loaded[p] = PathEntry(loaded[p][2])
        \/ /\ unremoved'[p] = unremoved[p] \cup {loaded[p]} /\ UNCHANGED <<fs, tmp>>
    BY <1>1, <1>6, Zenon DEF HandlerDelete, RemoveOutput, RemoveTmp, Refused, Unlink, Domains
  <2>5. \A i \in Outs(p) :
          /\ TmpGone(p, i) => TmpGone(p, i)'
          /\ PlaceholderGone(p, i) => PlaceholderGone(p, i)'
    <3>1. /\ \A i \in Outs(p) : tmp'[p][i] \in {tmp[p][i], "none"}
          /\ \A x \in Paths : fs'[x] \in {fs[x], Absent}
      BY <1>1, <2>4 DEF Domains
    <3>2. QED
      BY <1>0, <1>1, <1>11, <3>1, PlaceholderFacts, Zenon DEF TmpGone, PlaceholderGone
  <2>6. \A i \in Outs(p) :
          /\ loaded[p] = TmpEntry(i) => TmpGone(p, i)'
          /\ loaded[p] = PathEntry(i) => PlaceholderGone(p, i)'
    <3>1. \A i \in Outs(p) :
            /\ loaded[p] = TmpEntry(i) => tmp'[p][i] = "none" \/ TmpEntry(i) \in unremoved'[p]
            /\ loaded[p] = PathEntry(i) => fs'[PathOf(p, i)] = Absent \/ PathEntry(i) \in unremoved'[p]
      BY <1>1, <2>4, EntryFacts DEF Domains
    <3>2. QED
      BY <1>11, <3>1, PlaceholderFacts, Zenon
  <2>8. \A s \in Slots, i \in Outs(p) :
          platform = "unix" /\ s < handler'[p] =>
              /\ table'[p][s] = TmpEntry(i) => TmpGone(p, i)'
              /\ table'[p][s] = PathEntry(i) => PlaceholderGone(p, i)'
    BY <2>1, <2>2, <2>5, <2>6, Zenon DEF WalkInv
  <2>7. QED
    BY <1>2, <2>1, <2>3, <2>8 DEF WalkInv
<1>7. CASE HandlerReturn(p)
  <2>1. UNCHANGED <<tmp, fs, table, pc, renameFailed>> /\ handler[p] = SLOTS + 1 /\ status[p] = "running"
    BY <1>7, Zenon DEF HandlerReturn
  <2>2. \A s \in Slots : s < handler[p]
    BY <1>1, <2>1
  <2>3. pc[p] \notin {"release", "rename"}
    BY <1>1, <2>1 DEF HoldInv
  <2>4. platform = "unix" =>
          \/ pc[p] \in {"guardPlaceholder", "guardTmp"} \/ renameFailed[p]
          \/ \A i \in Outs(p) : TmpGone(p, i) /\ PlaceholderGone(p, i)
    BY <2>2, <2>3 DEF WalkInv, TableInv, PlaceholderInv, TmpGone, PlaceholderGone, Stuck
  <2>5. platform = "unix" => status'[p] = "interrupted"
    BY <1>1, <1>7, Zenon DEF HandlerReturn, Exit, Domains
  <2>6. QED
    BY <1>2, <1>10, <2>1, <2>2, <2>4, <2>5, Zenon DEF WalkInv
<1>8. CASE DefaultHandler(p)
  <2>1. platform # "unix"
    BY <1>8, Zenon DEF DefaultHandler, WalkInv
  <2>2. QED
    BY <1>2, <2>1, Zenon DEF WalkInv
<1>9. QED
  BY <1>3, <1>4, <1>5, <1>6, <1>7, <1>8, Zenon DEF Step, HandlerStep

\* A file of p's.
FileOf(p, kind) == [kind |-> kind, by |-> p]

\* An unwritten key file belongs to a command that is about to write or to
\* remove it; only a refused removal, or an interruption, leaves it.
EmptyKeyInv(p) ==
    \A i \in Outs(p) :
        fs[PathOf(p, i)] = FileOf(p, "emptyKey") =>
            \/ pc[p] \in {"keyWrite", "keyRemove"} /\ status[p] \in {"running", "interrupted"}
            \/ PathEntry(i) \in unremoved[p]

\* What q knows of its key file stays true when another process steps.
LEMMA EmptyKeyKept ==
    ASSUME Typed, NEW p \in Procs, Step(p), NEW q \in Procs, q # p, EmptyKeyInv(q)
    PROVE  EmptyKeyInv(q)'
<1>1. /\ UNCHANGED given /\ Kept(q) /\ q # Nobody /\ \A i \in Outs(q) : PathOf(q, i) \in Paths
  BY StepKeeps, CommandFacts, Zenon DEF Typed
<1>2. \A x \in Paths : fs'[x] = FileOf(q, "emptyKey") => fs[x] = FileOf(q, "emptyKey")
  <2>1. TAKE x \in Paths
  <2>2. \/ fs'[x] = fs[x] \/ fs'[x] = Absent \/ \E k : fs'[x] = [kind |-> k, by |-> p]
    BY FsStep, Zenon
  <2>3. Absent # FileOf(q, "emptyKey") /\ \A k : [kind |-> k, by |-> p] # FileOf(q, "emptyKey")
    BY Zenon DEF FileOf, Absent
  <2>4. QED
    BY <2>2, <2>3, Zenon
<1>3. Outs(q)' = Outs(q) /\ (\A i : PathOf(q, i)' = PathOf(q, i)) /\ \A i : PathEntry(i)' = PathEntry(i)
  BY <1>1, Zenon DEF PathOf, Outs, given, PathEntry
<1>4. QED
  BY <1>1, <1>2, <1>3, Zenon DEF EmptyKeyInv, Kept, FileOf

\* The unwritten key file follows p's command.
LEMMA EmptyKeyStep ==
    ASSUME Typed, NEW p \in Procs, PhaseInv(p), EmptyKeyInv(p), Step(p)
    PROVE  EmptyKeyInv(p)'
<1>1. /\ Domains /\ DOMAIN fs = Paths /\ at[p] \in Outs(p) /\ Here(p) = PathOf(p, at[p])
      /\ tmp[p][at[p]] \in Contents /\ \A i \in Outs(p) : PathOf(p, i) \in Paths
      /\ cmd[p].key => \A i \in Outs(p) : i = at[p]
  <2>1. Domains /\ DOMAIN fs = Paths /\ at[p] \in Outs(p) /\ tmp[p] \in [Outs(p) -> Contents]
    BY Zenon DEF Typed, ValuesTyped
  <2>2. /\ \A i \in Outs(p) : PathOf(p, i) \in Paths
        /\ cmd[p].key => Outs(p) = 1 .. 1
    BY CommandFacts, Zenon DEF Typed
  <2>3. cmd[p].key => \A i \in Outs(p) : i = at[p]
    BY <2>1, <2>2
  <2>4. QED
    BY <2>1, <2>2, <2>3, Zenon DEF Here
<1>2. /\ Outs(p)' = Outs(p) /\ (\A i : PathOf(p, i)' = PathOf(p, i)) /\ (\A i : PathEntry(i)' = PathEntry(i))
      /\ FileOf(p, "emptyKey")' = FileOf(p, "emptyKey")
  BY <1>1, StepKeeps, Zenon DEF PathOf, Outs, given, PathEntry, FileOf
<1>3. /\ Absent # FileOf(p, "emptyKey")
      /\ \A k : k # "emptyKey" => [kind |-> k, by |-> p] # FileOf(p, "emptyKey")
  BY Zenon DEF FileOf, Absent
<1>4. \A e : e \in unremoved[p] => e \in unremoved'[p]
  BY <1>1, StuckStays, Zenon
<1>5. CASE KeyCreate(p)
  <2>1. /\ pc[p] = "keyCreate" /\ status[p] = "running"
        /\ \/ pc'[p] = "keyWrite" /\ UNCHANGED status
           \/ UNCHANGED fs
    BY <1>1, <1>5, Zenon DEF Domains, KeyCreate, At, Goto
  <2>2. QED
    BY <1>2, <1>4, <2>1, Zenon DEF EmptyKeyInv
<1>6. CASE KeyWrite(p)
  <2>1. /\ status[p] = "running" /\ pc[p] = "keyWrite" /\ UNCHANGED <<at, unremoved>>
        /\ \/ pc'[p] = "keyRemove" /\ UNCHANGED status
           \/ fs'[Here(p)] # FileOf(p, "emptyKey")
    BY <1>1, <1>3, <1>6, Zenon DEF Domains, KeyWrite, At, Goto, Put, FileOf
  <2>2. cmd[p].key
    BY <2>1, Zenon DEF PhaseInv, KeySteps
  <2>3. QED
    BY <1>1, <1>2, <2>1, <2>2, Zenon DEF EmptyKeyInv
<1>7. CASE KeyRemove(p)
  <2>1. /\ pc[p] = "keyRemove"
        /\ fs' = [fs EXCEPT ![Here(p)] = Absent] \/ PathEntry(at[p]) \in unremoved'[p]
    BY <1>1, <1>7, Zenon DEF Domains, KeyRemove, At, RemoveOutput, Unlink, Refused
  <2>2. cmd[p].key
    BY <2>1, Zenon DEF PhaseInv, KeySteps
  <2>3. fs'[Here(p)] # FileOf(p, "emptyKey") \/ PathEntry(at[p]) \in unremoved'[p]
    BY <1>1, <1>3, <2>1, Zenon
  <2>4. QED
    BY <1>1, <1>2, <2>2, <2>3, Zenon DEF EmptyKeyInv
<1>8. CASE OutputStep(p)
  <2>1. pc[p] \notin KeySteps
    BY <1>8, Zenon DEF OutputStep, Create, GuardPlaceholder, CreateTmp, GuardTmp, Write, Sync, HoldOff,
       ReleasePlaceholder, Rename, Committed, DropTmp, DropPlaceholder, DropGuards, At, KeySteps
  <2>2. \/ UNCHANGED fs \/ fs' = [fs EXCEPT ![Here(p)] = Absent]
        \/ \E k \in {"placeholder"} \cup Contents : fs' = [fs EXCEPT ![Here(p)] = [kind |-> k, by |-> p]]
    <3>1. CASE QuietStep(p)
      BY <3>1, QuietFs, Zenon
    <3>2. CASE Create(p) \/ Rename(p) \/ DropPlaceholder(p)
      BY <1>1, <3>2, Zenon DEF Create, Rename, DropPlaceholder, RemoveOutput, Put, Unlink
    <3>3. QED
      BY <1>8, <3>1, <3>2, Zenon DEF OutputStep, QuietStep
  <2>3. \A i \in Outs(p) :
           fs'[PathOf(p, i)] = FileOf(p, "emptyKey") => fs[PathOf(p, i)] = FileOf(p, "emptyKey")
    <3>1. "emptyKey" \notin {"placeholder"} \cup Contents
      BY Zenon DEF Contents
    <3>2. QED
      BY <1>1, <1>3, <2>2, <3>1, Zenon
  <2>4. QED
    BY <1>2, <1>4, <2>1, <2>3, Zenon DEF EmptyKeyInv, KeySteps
<1>9. CASE Interrupt(p) \/ HandlerStep(p)
  <2>1. status'[p] \in {"running", "interrupted"} /\ UNCHANGED pc
    BY <1>1, <1>9, HandlerMoves, Zenon
  <2>2. UNCHANGED fs \/ \E i : Unlink(PathOf(p, i))
    BY <1>9, Zenon DEF Interrupt, HandlerStep, HandlerLoad, HandlerDelete, HandlerReturn, DefaultHandler,
       RemoveOutput
  <2>3. \A i \in Outs(p) :
           fs'[PathOf(p, i)] = FileOf(p, "emptyKey") => fs[PathOf(p, i)] = FileOf(p, "emptyKey")
    BY <1>1, <1>3, <2>2, Zenon DEF Unlink
  <2>4. QED
    BY <1>2, <1>4, <2>1, <2>3, Zenon DEF EmptyKeyInv
<1>10. QED
  BY <1>5, <1>6, <1>7, <1>8, <1>9, Zenon DEF Step, KeyStep

\* No two commands that share a path are forced or interrupted.
Apart ==
    \A s \in Scenarios : \A p, q \in DOMAIN s :
        p # q /\ (\E i \in 1 .. Len(s[p].outs), j \in 1 .. Len(s[q].outs) : s[p].outs[i] = s[q].outs[j])
            => ~s[p].force /\ ~s[p].signals

\* What p has reserved is there, or p's own handler has deleted it.
Mine(p, i) ==
    fs[PathOf(p, i)] = PlaceholderOf(p) \/ (cmd[p].signals /\ fs[PathOf(p, i)] = Absent)

\* What Drop, the rename and the handler are about to replace or to delete is p's.
ReservedInv(p) ==
    status[p] = "running" =>
        /\ \A i \in placeholder[p] \cap live[p] :
              (i = at[p] /\ pc[p] \in {"dropGuards", "committed"}) \/ Mine(p, i)
        /\ pc[p] = "dropGuards" /\ at[p] \in placeholder[p] /\ cmd[p].signals => Mine(p, at[p])
        /\ \A i \in Outs(p) : loaded[p] = PathEntry(i) => Mine(p, i)

\* The key file is p's from its creation on.
KeyInv(p) ==
    /\ status[p] = "running" /\ pc[p] \in {"keyWrite", "keyRemove"} =>
          fs[Here(p)] = FileOf(p, "emptyKey")
    /\ status[p] = "ok" /\ cmd[p].key => fs[Here(p)] = FileOf(p, "key")

\* What has been committed is at its path.
WrittenInv(p) ==
    /\ status[p] \in {"running", "ok"} /\ pc[p] \in WriteSteps =>
          \A i \in Outs(p) :
              i \notin live[p] \/ (i = at[p] /\ pc[p] = "committed") =>
                  fs[PathOf(p, i)] = FileOf(p, "whole")
    /\ status[p] = "ok" /\ ~cmd[p].key => pc[p] = "committed"

\* Files of different kinds or processes differ.
LEMMA FileFacts ==
    /\ \A p, q, k, l : FileOf(p, k) = FileOf(q, l) => p = q /\ k = l
    /\ \A p, k : FileOf(p, k).kind = k /\ FileOf(p, k).by = p
    /\ \A p, k : k # "none" => FileOf(p, k) # Absent
    /\ \A p : PlaceholderOf(p) = FileOf(p, "placeholder")
    /\ Absent.kind = "none"
  BY Zenon DEF FileOf, Absent, PlaceholderOf

\* A step of p changes what is at a path only if nothing was there, if it was
\* p's placeholder or p's empty key file, or if p was given --force and renames
\* its whole output onto it.
LEMMA OwnChange ==
    ASSUME Typed, NEW p \in Procs, PhaseInv(p), TmpInv(p), ReservedInv(p), KeyInv(p), Step(p),
           NEW x \in Paths, fs'[x] # fs[x]
    PROVE  /\ \E i \in Outs(p) : x = PathOf(p, i)
           /\ \/ fs[x].kind = "none" \/ fs[x] = PlaceholderOf(p) \/ fs[x] = FileOf(p, "emptyKey")
              \/ cmd[p].force /\ fs'[x] = FileOf(p, "whole")
<1>1. \E i \in Outs(p) : x = PathOf(p, i)
  BY FsStep, Zenon
<1>2. /\ DOMAIN fs = Paths /\ at[p] \in Outs(p) /\ Here(p) = PathOf(p, at[p])
      /\ tmp[p] \in [Outs(p) -> Contents]
      /\ \A i \in Outs(p) : Mine(p, i) => fs[PathOf(p, i)].kind = "none" \/ fs[PathOf(p, i)] = PlaceholderOf(p)
  BY FileFacts, Zenon DEF Typed, ValuesTyped, Here, Mine
<1>3. ~QuietStep(p)
  BY QuietFs, Zenon
<1>4. CASE Create(p) \/ KeyCreate(p)
  <2>1. UNCHANGED fs \/ (~Exists(Here(p)) /\ \E k : Put(Here(p), k, p))
    BY <1>4, Zenon DEF Create, KeyCreate
  <2>2. x = Here(p) /\ ~Exists(Here(p))
    BY <1>2, <2>1, Zenon DEF Put
  <2>3. QED
    BY <1>1, <2>2, Zenon DEF Exists
<1>5. CASE Rename(p)
  <2>1. /\ status[p] = "running" /\ pc[p] = "rename" /\ tmp[p][at[p]] # "none"
        /\ fs' = [fs EXCEPT ![Here(p)] = FileOf(p, tmp[p][at[p]])]
    BY <1>5, Zenon DEF Rename, At, Put, FileOf
  <2>2. tmp[p][at[p]] = "whole"
    BY <1>2, <2>1, Zenon DEF TmpInv, Contents
  <2>3. x = Here(p) /\ fs'[x] = FileOf(p, "whole")
    BY <1>2, <2>1, <2>2, Zenon
  <2>4. cmd[p].force \/ Mine(p, at[p])
    <3>1. live[p] = Pending(p) /\ (~cmd[p].force => placeholder[p] = Outs(p))
      BY <2>1, Zenon DEF PhaseInv, WriteSteps
    <3>2. at[p] \in Pending(p)
      BY <1>2, CommandFacts, PendingFacts DEF Typed
    <3>3. QED
      BY <1>2, <2>1, <3>1, <3>2, Zenon DEF ReservedInv
  <2>5. QED
    BY <1>1, <1>2, <2>3, <2>4, Zenon
<1>6. CASE DropPlaceholder(p)
  <2>1. /\ status[p] = "running" /\ pc[p] = "dropPlaceholder" /\ at[p] \in placeholder[p]
        /\ Unlink(Here(p))
    BY <1>2, <1>6, Zenon DEF DropPlaceholder, RemoveOutput, At
  <2>2. at[p] \in live[p]
    BY <2>1, Zenon DEF PhaseInv, DropSteps
  <2>3. x = Here(p) /\ Mine(p, at[p])
    BY <1>2, <2>1, <2>2, Zenon DEF ReservedInv, Unlink
  <2>4. QED
    BY <1>1, <1>2, <2>3, Zenon
<1>7. CASE KeyWrite(p) \/ KeyRemove(p)
  <2>1. /\ status[p] = "running" /\ pc[p] \in {"keyWrite", "keyRemove"}
        /\ Unlink(Here(p)) \/ Put(Here(p), "key", p)
    BY <1>2, <1>7, Zenon DEF KeyWrite, KeyRemove, RemoveOutput, At
  <2>2. x = Here(p) /\ fs[Here(p)] = FileOf(p, "emptyKey")
    BY <1>2, <2>1, Zenon DEF KeyInv, Unlink, Put
  <2>3. QED
    BY <1>1, <2>2, Zenon
<1>8. CASE HandlerDelete(p)
  <2>1. PICK i : i = loaded[p][2] /\ loaded[p] = PathEntry(i) /\ Unlink(PathOf(p, i)) /\ status[p] = "running"
    BY <1>8, Zenon DEF HandlerDelete, RemoveOutput
  <2>2. i \in Outs(p)
    BY <1>8, <2>1, DeletedOutput, Zenon
  <2>3. x = PathOf(p, i) /\ Mine(p, i)
    BY <1>2, <2>1, <2>2, Zenon DEF ReservedInv, Unlink
  <2>4. QED
    BY <1>1, <1>2, <2>2, <2>3, Zenon
<1>9. QED
  BY <1>3, <1>4, <1>5, <1>6, <1>7, <1>8, Zenon DEF Step, OutputStep, KeyStep, HandlerStep, QuietStep

\* What q has at its paths stays there when another process steps.
LEMMA OwnKept ==
    ASSUME Apart, Typed, NEW p \in Procs, PhaseInv(p), TmpInv(p), ReservedInv(p), KeyInv(p), Step(p),
           NEW q \in Procs, q # p, NEW i \in Outs(q),
           cmd[q].signals \/ \E k : k # "none" /\ fs[PathOf(q, i)] = FileOf(q, k)
    PROVE  fs'[PathOf(q, i)] = fs[PathOf(q, i)]
<1>1. SUFFICES ASSUME fs'[PathOf(q, i)] # fs[PathOf(q, i)]
               PROVE  FALSE
  BY Zenon
<1>2. PathOf(q, i) \in Paths
  BY CommandFacts, Zenon DEF Typed
<1>3. PICK x \in Paths : x = PathOf(q, i)
  BY <1>2, Zenon
<1>4. /\ \E j \in Outs(p) : x = PathOf(p, j)
      /\ \/ fs[x].kind = "none" \/ fs[x] = PlaceholderOf(p) \/ fs[x] = FileOf(p, "emptyKey")
         \/ cmd[p].force /\ fs'[x] = FileOf(p, "whole")
  BY <1>1, <1>3, OwnChange, Zenon
<1>5. ~cmd[p].force /\ ~cmd[q].signals
  <2>1. PICK j \in Outs(p) : x = PathOf(p, j)
    BY <1>4, Zenon
  <2>2. \E k \in Outs(p), l \in Outs(q) : PathOf(p, k) = PathOf(q, l)
    BY <1>3, <2>1, Zenon
  <2>3. \E k \in Outs(q), l \in Outs(p) : PathOf(q, k) = PathOf(p, l)
    BY <2>2, Zenon
  <2>4. cmd \in Scenarios /\ p \in DOMAIN cmd /\ q \in DOMAIN cmd
    BY Zenon DEF Typed, Procs
  <2>5. QED
    BY <2>2, <2>3, <2>4, Zenon DEF Apart, Outs, PathOf
<1>6. QED
  BY <1>3, <1>4, <1>5, FileFacts

\* What q has reserved, written or made its key stays q's when another process steps.
LEMMA OwnInvKept ==
    ASSUME Apart, Typed, NEW p \in Procs, PhaseInv(p), TmpInv(p), ReservedInv(p), KeyInv(p), Step(p),
           NEW q \in Procs, q # p, ReservedInv(q), KeyInv(q), WrittenInv(q)
    PROVE  ReservedInv(q)' /\ KeyInv(q)' /\ WrittenInv(q)'
<1>1. UNCHANGED given /\ Kept(q) /\ at[q] \in Outs(q) /\ placeholder[q] \subseteq Outs(q)
  BY StepKeeps, Zenon DEF Typed, ValuesTyped
<1>2. \A i \in Outs(q) :
        cmd[q].signals \/ (\E k : k # "none" /\ fs[PathOf(q, i)] = FileOf(q, k)) =>
            fs'[PathOf(q, i)] = fs[PathOf(q, i)]
  BY OwnKept, Zenon
<1>3. /\ Outs(q)' = Outs(q) /\ (\A i : PathOf(q, i)' = PathOf(q, i)) /\ cmd' = cmd
      /\ Here(q) = PathOf(q, at[q]) /\ Here(q)' = PathOf(q, at[q])
      /\ \A i : PathEntry(i)' = PathEntry(i)
      /\ \A k : FileOf(q, k)' = FileOf(q, k)
  BY <1>1, Zenon DEF PathOf, Outs, given, FileOf, Here, Kept, PathEntry
<1>4. \A i \in Outs(q) : Mine(q, i) => Mine(q, i)'
  <2>1. TAKE i \in Outs(q)
  <2>2. Mine(q, i)' <=> \/ fs'[PathOf(q, i)] = PlaceholderOf(q)
                        \/ cmd[q].signals /\ fs'[PathOf(q, i)] = Absent
    BY <1>3, Zenon DEF Mine, PlaceholderOf, Absent
  <2>3. Mine(q, i) => fs'[PathOf(q, i)] = fs[PathOf(q, i)]
    BY <1>2, FileFacts, Zenon DEF Mine
  <2>4. QED
    BY <2>2, <2>3, Zenon DEF Mine
<1>5. ReservedInv(q)'
  BY <1>1, <1>3, <1>4, ZenonT(60) DEF ReservedInv, Kept
<1>6. KeyInv(q)'
  BY <1>1, <1>2, <1>3, FileFacts, SMTT(60) DEF KeyInv, Kept
<1>7. WrittenInv(q)'
  BY <1>1, <1>2, <1>3 DEF WrittenInv, Kept, WriteSteps
<1>8. QED
  BY <1>5, <1>6, <1>7, Zenon

\* The key file follows p's command.
LEMMA KeyInvStep ==
    ASSUME Typed, NEW p \in Procs, PhaseInv(p), HoldInv(p), KeyInv(p), Step(p)
    PROVE  KeyInv(p)'
<1>1. Domains /\ DOMAIN fs = Paths /\ Here(p) \in Paths
  BY CommandFacts, Zenon DEF Typed, ValuesTyped, Here
<1>2. cmd' = cmd /\ \A k : FileOf(p, k)' = FileOf(p, k)
  BY <1>1, StepKeeps, Zenon DEF given, FileOf
<1>3. CASE ~cmd[p].key
  <2>1. PhaseInv(p)'
    BY PhaseStep, Zenon
  <2>2. pc'[p] \notin KeySteps
    BY <1>2, <1>3, <2>1, Zenon DEF PhaseInv
  <2>3. QED
    BY <1>2, <1>3, <2>2, Zenon DEF KeyInv, KeySteps
<1>4. CASE cmd[p].key /\ KeyStep(p)
  <2>1. at' = at /\ Here(p)' = Here(p)
    BY <1>1, <1>2, <1>4, KeyMoves, Zenon DEF Here, PathOf
  <2>2. CASE KeyCreate(p)
    <3>1. \/ pc'[p] = "keyWrite" /\ fs' = [fs EXCEPT ![Here(p)] = FileOf(p, "emptyKey")] /\ UNCHANGED status
          \/ status'[p] = "error"
      BY <1>1, <2>2, Zenon DEF Domains, KeyCreate, At, Goto, Put, Exit, FileOf
    <3>2. status[p] = "running"
      BY <2>2, Zenon DEF KeyCreate, At
    <3>3. QED
      BY <1>1, <1>2, <2>1, <3>1, <3>2, Zenon DEF KeyInv
  <2>3. CASE KeyWrite(p)
    <3>1. status[p] = "running" /\ fs[Here(p)] = FileOf(p, "emptyKey")
      BY <2>3, Zenon DEF KeyWrite, At, KeyInv
    <3>2. \/ status'[p] = "ok" /\ fs' = [fs EXCEPT ![Here(p)] = FileOf(p, "key")]
          \/ status'[p] = "running" /\ UNCHANGED fs
      BY <1>1, <2>3, <3>1, Zenon DEF Domains, KeyWrite, Exit, Put, FileOf
    <3>3. QED
      BY <1>1, <1>2, <2>1, <3>1, <3>2, Zenon DEF KeyInv
  <2>4. CASE KeyRemove(p)
    <3>1. status'[p] = "error"
      BY <1>1, <2>4, Zenon DEF Domains, KeyRemove, Exit
    <3>2. QED
      BY <3>1, Zenon DEF KeyInv
  <2>5. QED
    BY <1>4, <2>2, <2>3, <2>4, Zenon DEF KeyStep
<1>5. CASE cmd[p].key /\ OutputStep(p)
  <2>1. pc[p] \in KeySteps
    BY <1>5, Zenon DEF PhaseInv
  <2>2. pc[p] \notin KeySteps
    BY <1>5, Zenon DEF OutputStep, Create, GuardPlaceholder, CreateTmp, GuardTmp, Write, Sync, HoldOff,
       ReleasePlaceholder, Rename, Committed, DropTmp, DropPlaceholder, DropGuards, At, KeySteps
  <2>3. QED
    BY <2>1, <2>2, Zenon
<1>6. CASE Interrupt(p) \/ HandlerStep(p)
  <2>1. /\ status[p] = "running" /\ status'[p] \in {"running", "interrupted"} /\ UNCHANGED <<pc, at>>
    BY <1>1, <1>6, HandlerMoves, Zenon
  <2>2. Here(p)' = Here(p)
    BY <1>2, <2>1, Zenon DEF Here, PathOf
  <2>3. cmd[p].key => ~HandlerDelete(p)
    <3>1. cmd[p].key => handler[p] = 0
      BY Zenon DEF PhaseInv, HoldInv
    <3>2. HandlerDelete(p) => handler[p] \in Slots
      BY Zenon DEF HoldInv, HandlerDelete
    <3>3. QED
      BY <3>1, <3>2 DEF Slots
  <2>4. cmd[p].key => UNCHANGED fs
    BY <1>6, <2>3, Zenon DEF Interrupt, HandlerStep, HandlerLoad, HandlerReturn, DefaultHandler
  <2>5. QED
    BY <1>2, <1>3, <2>1, <2>2, <2>4, Zenon DEF KeyInv
<1>7. QED
  BY <1>3, <1>4, <1>5, <1>6, Zenon DEF Step

\* What the handler has read is p's, and p may be interrupted.
LEMMA LoadedFacts ==
    ASSUME NEW p, PhaseInv(p), HoldInv(p), loaded[p] # NoEntry
    PROVE  cmd[p].signals /\ ~cmd[p].key /\ pc[p] \notin {"release", "rename"}
<1>1. SLOTS \in Nat /\ handler[p] \in 1 .. SLOTS
  BY OutputFileAssumption, Zenon DEF HoldInv, Slots
<1>2. cmd[p].signals /\ installed[p] /\ hold[p] = "handler"
  BY <1>1 DEF HoldInv
<1>3. QED
  BY <1>2, Zenon DEF HoldInv, PhaseInv

\* What Drop, the rename and the handler will touch stays p's.
LEMMA ReservedStep ==
    ASSUME Typed, NEW p \in Procs, PhaseInv(p), HoldInv(p), TableInv(p), ReservedInv(p), Step(p)
    PROVE  ReservedInv(p)'
<1>1. /\ Domains /\ DOMAIN fs = Paths /\ at[p] \in Outs(p) /\ placeholder[p] \subseteq Outs(p)
      /\ Here(p) = PathOf(p, at[p]) /\ at[p] \in Nat \ {0}
      /\ \A i \in Outs(p) : PathOf(p, i) \in Paths
      /\ \A i, j \in Outs(p) : PathOf(p, i) = PathOf(p, j) => i = j
  BY CommandFacts DEF Typed, ValuesTyped, Here
<1>2. /\ Outs(p)' = Outs(p) /\ cmd' = cmd /\ (\A i : PathEntry(i)' = PathEntry(i))
      /\ \A i : Mine(p, i)' <=> \/ fs'[PathOf(p, i)] = PlaceholderOf(p)
                                \/ cmd[p].signals /\ fs'[PathOf(p, i)] = Absent
  BY <1>1, StepKeeps, Zenon DEF given, PathOf, Outs, PathEntry, Mine, PlaceholderOf, Absent
<1>3. \A i : Mine(p, i) /\ fs'[PathOf(p, i)] = fs[PathOf(p, i)] => Mine(p, i)'
  BY <1>2, Zenon DEF Mine
<1>4. CASE Create(p)
  <2>1. /\ status[p] = "running" /\ pc[p] = "create" /\ live'[p] = live[p] \cup {at[p]}
        /\ UNCHANGED <<at, loaded, status>> /\ pc'[p] \notin {"dropGuards", "committed"}
        /\ \/ UNCHANGED <<fs, placeholder>>
           \/ /\ placeholder'[p] = placeholder[p] \cup {at[p]}
              /\ fs' = [fs EXCEPT ![Here(p)] = PlaceholderOf(p)]
    BY <1>1, <1>4, Zenon DEF Domains, Create, At, Put, Goto, cleanupVars, PlaceholderOf
  <2>2. CASE UNCHANGED <<fs, placeholder>>
    <3>1. \A i : Mine(p, i) => Mine(p, i)'
      BY <1>3, <2>2, Zenon
    <3>2. at[p] \notin placeholder[p]
      <4>1. placeholder[p] = {} \/ placeholder[p] = 1 .. at[p] - 1
        BY <2>1, Zenon DEF PhaseInv
      <4>2. QED
        BY <1>1, <4>1
    <3>3. QED
      BY <1>2, <2>1, <2>2, <3>1, <3>2, Zenon DEF ReservedInv
  <2>3. CASE /\ placeholder'[p] = placeholder[p] \cup {at[p]}
             /\ fs' = [fs EXCEPT ![Here(p)] = PlaceholderOf(p)]
    <3>1. Mine(p, at[p])' /\ \A i \in Outs(p) : Mine(p, i) => Mine(p, i)'
      <4>1. /\ fs'[PathOf(p, at[p])] = PlaceholderOf(p)
            /\ \A i \in Outs(p) : i # at[p] => fs'[PathOf(p, i)] = fs[PathOf(p, i)]
        BY <1>1, <2>3, Zenon
      <4>2. Mine(p, at[p])'
        BY <1>2, <2>1, <4>1, Zenon
      <4>3. QED
        BY <1>3, <2>1, <4>1, <4>2, Zenon
    <3>2. QED
      BY <1>1, <1>2, <2>1, <2>3, <3>1, ZenonT(60) DEF ReservedInv
  <2>4. QED
    BY <2>1, <2>2, <2>3, Zenon
<1>5. CASE GuardPlaceholder(p) \/ CreateTmp(p) \/ GuardTmp(p) \/ Write(p) \/ Sync(p) \/ HoldOff(p)
           \/ ReleasePlaceholder(p) \/ DropTmp(p)
  <2>1. /\ status[p] = "running" /\ pc[p] \notin {"dropGuards", "committed"}
        /\ pc'[p] \notin {"dropGuards", "committed"}
        /\ UNCHANGED <<fs, live, placeholder, loaded, status>>
    BY <1>1, <1>5, Zenon DEF Domains, GuardPlaceholder, CreateTmp, GuardTmp, Write, Sync, HoldOff,
       ReleasePlaceholder, DropTmp, At, Goto, GotoAt, valueVars, cleanupVars
  <2>2. \A i : Mine(p, i) => Mine(p, i)'
    BY <1>3, <2>1, Zenon
  <2>3. QED
    BY <1>2, <2>1, <2>2, Zenon DEF ReservedInv
<1>6. CASE Rename(p)
  <2>1. /\ status[p] = "running" /\ pc[p] = "rename" /\ pc'[p] \in {"committed", "dropTmp"}
        /\ UNCHANGED <<at, live, placeholder, loaded, status>>
        /\ \/ UNCHANGED fs /\ pc'[p] = "dropTmp"
           \/ pc'[p] = "committed" /\ \E f : fs' = [fs EXCEPT ![Here(p)] = f]
    BY <1>1, <1>6, Zenon DEF Domains, Rename, At, Goto, Put, valueVars
  <2>2. loaded[p] = NoEntry
    BY <2>1, LoadedFacts, Zenon
  <2>3. \A i \in Outs(p) : i # at[p] => (Mine(p, i) => Mine(p, i)')
    BY <1>1, <1>3, <2>1, Zenon
  <2>4. pc'[p] = "dropTmp" => \A i : Mine(p, i) => Mine(p, i)'
    BY <1>3, <2>1, Zenon
  <2>5. QED
    BY <1>1, <1>2, <2>1, <2>2, <2>3, <2>4, EntryFacts, Zenon DEF ReservedInv
<1>7. CASE Committed(p) \/ DropGuards(p)
  <2>1. /\ status[p] = "running" /\ live'[p] = live[p] \ {at[p]}
        /\ UNCHANGED <<fs, placeholder, loaded>>
        /\ status'[p] \in {"ok", "error"} \/ pc'[p] \in {"write", "dropTmp"}
    <3>1. CASE Committed(p)
      BY <1>1, <3>1, Zenon DEF Domains, Committed, At, Goto, GotoAt, Exit
    <3>2. CASE DropGuards(p)
      BY <1>1, <3>2, Zenon DEF Domains, DropGuards, At, Goto, GotoAt, Exit
    <3>3. QED
      BY <1>7, <3>1, <3>2, Zenon
  <2>2. \A i : Mine(p, i) => Mine(p, i)'
    BY <1>3, <2>1, ZenonT(60)
  <2>3. QED
    BY <1>2, <2>1, <2>2, Zenon DEF ReservedInv
<1>8. CASE DropPlaceholder(p)
  <2>1. /\ status[p] = "running" /\ pc[p] = "dropPlaceholder" /\ pc'[p] = "dropGuards"
        /\ UNCHANGED <<at, live, placeholder, loaded, status>>
        /\ fs' = [fs EXCEPT ![Here(p)] = Absent] \/ UNCHANGED fs
    BY <1>1, <1>8, Zenon DEF Domains, DropPlaceholder, At, Goto, RemoveOutput, Unlink, valueVars, cleanupVars
  <2>2. \A i \in Outs(p) : Mine(p, i) /\ (i # at[p] \/ cmd[p].signals) => Mine(p, i)'
    BY <1>1, <1>2, <1>3, <2>1, Zenon
  <2>3. cmd[p].signals /\ at[p] \in placeholder[p] => Mine(p, at[p])'
    <3>1. at[p] \in live[p]
      BY <2>1, Zenon DEF PhaseInv, DropSteps
    <3>2. at[p] \in placeholder[p] => Mine(p, at[p])
      BY <2>1, <3>1, Zenon DEF ReservedInv
    <3>3. /\ cmd[p].signals /\ at[p] \in placeholder[p] =>
                fs'[PathOf(p, at[p])] \in {PlaceholderOf(p), Absent}
      BY <1>1, <2>1, <3>2, Zenon DEF Mine
    <3>4. QED
      BY <1>1, <1>2, <2>1, <3>3, Zenon
  <2>4. loaded[p] # NoEntry => cmd[p].signals
    BY LoadedFacts, Zenon
  <2>5. QED
    BY <1>1, <1>2, <2>1, <2>2, <2>3, <2>4, EntryFacts DEF ReservedInv
<1>9. CASE KeyStep(p)
  <2>1. pc[p] \in KeySteps /\ pc'[p] \in KeySteps /\ UNCHANGED <<live, loaded>>
    BY <1>1, <1>9, KeyMoves, Zenon DEF valueVars, cleanupVars
  <2>2. live[p] = {} /\ cmd[p].key
    BY <2>1, Zenon DEF PhaseInv
  <2>3. loaded[p] = NoEntry
    BY <2>2, LoadedFacts, Zenon
  <2>4. QED
    BY <1>2, <2>1, <2>2, <2>3, EntryFacts, Zenon DEF ReservedInv, KeySteps
<1>10. CASE Interrupt(p) \/ HandlerReturn(p) \/ DefaultHandler(p)
  <2>1. /\ status[p] = "running" /\ UNCHANGED <<fs, pc, at, live, placeholder, loaded>>
    BY <1>10, Zenon DEF Interrupt, HandlerReturn, DefaultHandler, valueVars, cleanupVars
  <2>2. \A i : Mine(p, i) => Mine(p, i)'
    BY <1>3, <2>1, Zenon
  <2>3. QED
    BY <1>2, <2>1, <2>2, Zenon DEF ReservedInv
<1>11. CASE HandlerLoad(p)
  <2>1. /\ status[p] = "running" /\ handler[p] \in Slots
        /\ UNCHANGED <<fs, pc, at, live, placeholder>>
        /\ loaded'[p] = loaded[p] \/ loaded'[p] = table[p][handler[p]]
    BY <1>1, <1>11, Zenon DEF Domains, HandlerLoad, valueVars
  <2>2. \A i : Mine(p, i) => Mine(p, i)'
    BY <1>3, <2>1, ZenonT(60)
  <2>3. cmd[p].signals
    BY <2>1, OutputFileAssumption DEF HoldInv, Slots
  <2>4. \A i \in Outs(p) : table[p][handler[p]] = PathEntry(i) => Mine(p, i)
    <3>1. TAKE i \in Outs(p)
    <3>2. HAVE table[p][handler[p]] = PathEntry(i)
    <3>3. i \in placeholder[p] \cap live[p] /\ ~(i = at[p] /\ pc[p] = "committed")
      BY <2>1, <3>2, EntryFacts DEF TableInv
    <3>4. QED
      BY <2>1, <2>3, <3>3, Zenon DEF ReservedInv
  <2>5. QED
    BY <1>2, <2>1, <2>2, <2>4, Zenon DEF ReservedInv
<1>12. CASE HandlerDelete(p)
  <2>1. /\ status[p] = "running" /\ loaded[p] # NoEntry /\ loaded'[p] = NoEntry
        /\ UNCHANGED <<pc, at, live, placeholder>>
        /\ UNCHANGED fs \/ fs' = [fs EXCEPT ![PathOf(p, loaded[p][2])] = Absent]
    BY <1>1, <1>12, Zenon DEF Domains, HandlerDelete, RemoveOutput, Unlink, valueVars
  <2>2. cmd[p].signals
    BY <2>1, LoadedFacts, Zenon
  <2>3. \A i \in Outs(p) : Mine(p, i) => Mine(p, i)'
    <3>1. \A i \in Outs(p) : fs'[PathOf(p, i)] \in {fs[PathOf(p, i)], Absent}
      BY <1>1, <2>1, Zenon
    <3>2. QED
      BY <1>2, <1>3, <2>2, <3>1, Zenon
  <2>4. QED
    BY <1>1, <1>2, <2>1, <2>3, EntryFacts, Zenon DEF ReservedInv
<1>13. QED
  BY <1>4, <1>5, <1>6, <1>7, <1>8, <1>9, <1>10, <1>11, <1>12, ZenonT(60) DEF Step, OutputStep, HandlerStep

\* What has been committed stays at its path, and success means that all has been.
LEMMA WrittenStep ==
    ASSUME Typed, NEW p \in Procs, PhaseInv(p), TmpInv(p), HoldInv(p), ReservedInv(p), KeyInv(p),
           WrittenInv(p), Step(p)
    PROVE  WrittenInv(p)'
<1>1. /\ Domains /\ DOMAIN fs = Paths /\ at[p] \in Outs(p) /\ Here(p) = PathOf(p, at[p])
      /\ tmp[p] \in [Outs(p) -> Contents] /\ Outs(p) = 1 .. Len(cmd[p].outs)
      /\ Len(cmd[p].outs) \in {1, 3}
      /\ \A i \in Outs(p) : PathOf(p, i) \in Paths
      /\ \A i, j \in Outs(p) : PathOf(p, i) = PathOf(p, j) => i = j
  BY CommandFacts, Zenon DEF Typed, ValuesTyped, Here
<1>2. /\ Outs(p)' = Outs(p) /\ cmd' = cmd /\ (\A i : PathOf(p, i)' = PathOf(p, i))
      /\ FileOf(p, "whole")' = FileOf(p, "whole")
  BY <1>1, StepKeeps, Zenon DEF given, PathOf, Outs, FileOf
<1>3. CASE Create(p) \/ GuardPlaceholder(p) \/ CreateTmp(p) \/ DropTmp(p) \/ DropPlaceholder(p)
  <2>1. pc'[p] \notin WriteSteps /\ UNCHANGED status /\ status[p] = "running"
    BY <1>1, <1>3, Zenon DEF Domains, Create, GuardPlaceholder, CreateTmp, DropTmp, DropPlaceholder, At, Goto,
       WriteSteps
  <2>2. QED
    BY <1>2, <2>1, Zenon DEF WrittenInv, WriteSteps
<1>4. CASE GuardTmp(p)
  <2>1. /\ status[p] = "running" /\ pc[p] = "guardTmp" /\ UNCHANGED <<live, status>>
        /\ IF at[p] < Len(cmd[p].outs) THEN pc'[p] = "create" ELSE pc'[p] = "write"
    BY <1>1, <1>4, Zenon DEF Domains, GuardTmp, At, Goto, GotoAt
  <2>2. live[p] = 1 .. at[p]
    BY <2>1, Zenon DEF PhaseInv
  <2>3. pc'[p] = "write" => live'[p] = Outs(p)
    BY <1>1, <2>1, <2>2, SMTT(60)
  <2>4. QED
    BY <1>2, <2>1, <2>3, Zenon DEF WrittenInv, WriteSteps
<1>5. CASE Write(p) \/ Sync(p) \/ HoldOff(p) \/ ReleasePlaceholder(p)
  <2>1. /\ status[p] = "running" /\ pc[p] \in WriteSteps /\ UNCHANGED <<live, status>>
    BY <1>1, <1>5, WriteMoves, Zenon DEF valueVars
  <2>2. pc'[p] # "committed" /\ UNCHANGED fs
    BY <1>1, <1>5, Zenon DEF Domains, Write, Sync, HoldOff, ReleasePlaceholder, Goto
  <2>3. QED
    BY <1>2, <2>1, <2>2, Zenon DEF WrittenInv
<1>6. CASE Rename(p)
  <2>1. /\ status[p] = "running" /\ pc[p] = "rename" /\ UNCHANGED <<at, live, status>>
        /\ \/ pc'[p] = "dropTmp"
           \/ /\ pc'[p] = "committed" /\ tmp[p][at[p]] # "none"
              /\ fs' = [fs EXCEPT ![Here(p)] = FileOf(p, tmp[p][at[p]])]
    BY <1>1, <1>6, Zenon DEF Domains, Rename, At, Goto, Put, valueVars, FileOf
  <2>2. tmp[p][at[p]] # "none" => tmp[p][at[p]] = "whole"
    BY <1>1, <2>1, Zenon DEF TmpInv, Contents
  <2>3. \A i \in Outs(p) : i \notin live[p] => fs[PathOf(p, i)] = FileOf(p, "whole")
    BY <2>1, Zenon DEF WrittenInv, WriteSteps
  <2>4. pc'[p] = "committed" =>
          /\ fs'[PathOf(p, at[p])] = FileOf(p, "whole")
          /\ \A i \in Outs(p) : i # at[p] => fs'[PathOf(p, i)] = fs[PathOf(p, i)]
    BY <1>1, <2>1, <2>2, Zenon
  <2>5. QED
    BY <1>2, <2>1, <2>3, <2>4 DEF WrittenInv, WriteSteps
<1>7. CASE Committed(p)
  <2>1. /\ status[p] = "running" /\ pc[p] = "committed" /\ live'[p] = live[p] \ {at[p]}
        /\ UNCHANGED fs
        /\ \/ status'[p] = "ok" /\ UNCHANGED <<pc, at>>
           \/ pc'[p] = "write" /\ UNCHANGED status
    BY <1>1, <1>7, Zenon DEF Domains, Committed, At, Goto, GotoAt, Exit
  <2>2. \A i \in Outs(p) : i \notin live'[p] => fs'[PathOf(p, i)] = FileOf(p, "whole")
    BY <2>1, Zenon DEF WrittenInv, WriteSteps
  <2>3. at[p] \notin live'[p]
    BY <2>1, Zenon
  <2>4. QED
    BY <1>2, <2>1, <2>2, <2>3 DEF WrittenInv
<1>8. CASE DropGuards(p)
  <2>1. /\ status[p] = "running" /\ pc[p] = "dropGuards"
        /\ \/ status'[p] = "error"
           \/ pc'[p] = "dropTmp" /\ UNCHANGED status
    BY <1>1, <1>8, Zenon DEF Domains, DropGuards, At, Goto, GotoAt, Exit
  <2>2. QED
    BY <2>1, Zenon DEF WrittenInv, WriteSteps
<1>9. CASE KeyStep(p)
  <2>1. pc[p] \in KeySteps /\ pc'[p] \in KeySteps
    BY <1>1, <1>9, KeyMoves, Zenon
  <2>2. cmd[p].key
    BY <2>1, Zenon DEF PhaseInv
  <2>3. QED
    BY <1>2, <2>1, <2>2, Zenon DEF WrittenInv, KeySteps, WriteSteps
<1>10. CASE Interrupt(p) \/ HandlerStep(p)
  <2>1. /\ status[p] = "running" /\ status'[p] \in {"running", "interrupted"} /\ UNCHANGED <<pc, at, live>>
    BY <1>1, <1>10, HandlerMoves, Zenon DEF valueVars
  <2>2. \A i \in Outs(p) : fs[PathOf(p, i)] = FileOf(p, "whole") => fs'[PathOf(p, i)] = FileOf(p, "whole")
    <3>1. CASE UNCHANGED fs
      BY <3>1, Zenon
    <3>2. CASE HandlerDelete(p) /\ ~UNCHANGED fs
      <4>1. PICK j : j = loaded[p][2] /\ loaded[p] = PathEntry(j) /\ Unlink(PathOf(p, j))
        BY <3>2, Zenon DEF HandlerDelete, RemoveOutput
      <4>2. j \in Outs(p)
        BY <3>2, <4>1, DeletedOutput, Zenon
      <4>3. Mine(p, j)
        BY <2>1, <4>1, <4>2, Zenon DEF ReservedInv
      <4>4. fs[PathOf(p, j)] # FileOf(p, "whole")
        BY <4>3, FileFacts DEF Mine
      <4>5. \A i \in Outs(p) : i # j => fs'[PathOf(p, i)] = fs[PathOf(p, i)]
        BY <1>1, <4>1, <4>2, Zenon DEF Unlink
      <4>6. QED
        BY <4>4, <4>5, Zenon
    <3>3. UNCHANGED fs \/ HandlerDelete(p)
      BY <1>10, Zenon DEF Interrupt, HandlerStep, HandlerLoad, HandlerReturn, DefaultHandler
    <3>4. QED
      BY <3>1, <3>2, <3>3, Zenon
  <2>3. QED
    BY <1>2, <2>1, <2>2, Zenon DEF WrittenInv
<1>11. QED
  BY <1>3, <1>4, <1>5, <1>6, <1>7, <1>8, <1>9, <1>10, Zenon DEF Step, OutputStep

\* The invariant of the processes.
ProcInv(p) ==
    /\ PhaseInv(p) /\ TmpInv(p) /\ HoldInv(p) /\ TableInv(p) /\ PlaceholderInv(p) /\ WalkInv(p)
    /\ EmptyKeyInv(p)
OutputInv == Typed /\ \A p \in Procs : ProcInv(p)

\* The invariant of the paths, when the commands are Apart.
OwnInv == \A p \in Procs : ReservedInv(p) /\ KeyInv(p) /\ WrittenInv(p)

\* Nothing has happened yet.
LEMMA InitInv ==
    ASSUME Init
    PROVE  OutputInv /\ OwnInv
<1>1. cmd \in Scenarios /\ DOMAIN fs = Paths /\ Domains
  BY Zenon DEF Init, Domains
<1>2. ASSUME NEW p \in Procs
      PROVE  /\ at[p] = 1 /\ live[p] = {} /\ placeholder[p] = {} /\ temped[p] = {}
             /\ (\A s \in Slots : table[p][s] = NoEntry) /\ ~installed[p] /\ hold[p] = "free"
             /\ handler[p] = 0 /\ loaded[p] = NoEntry /\ status[p] = "running"
             /\ (\A i \in Outs(p) : tmp[p][i] = "none")
             /\ IF cmd[p].key THEN pc[p] = "keyCreate" ELSE pc[p] = "create"
             /\ table[p] \in [Slots -> Entries(p)] /\ tmp[p] \in [Outs(p) -> Contents]
  BY Zenon DEF Init, Entries, Contents
<1>3. ASSUME NEW p \in Procs
      PROVE  /\ SLOTS \in Nat /\ Slots = 1 .. SLOTS /\ 1 \in Outs(p)
             /\ \A i \in Outs(p) : /\ fs[PathOf(p, i)] # PlaceholderOf(p)
                                  /\ fs[PathOf(p, i)] # FileOf(p, "emptyKey")
  <2>1. SLOTS \in Nat /\ Slots = 1 .. SLOTS /\ 1 \in Outs(p) /\ \A i \in Outs(p) : PathOf(p, i) \in Paths
    BY <1>1, CommandFacts DEF Slots
  <2>2. \A x \in Paths : fs[x] \in {Absent, OldFile, OldKey}
    BY OutputFileAssumption, Zenon DEF Init
  <2>3. /\ Absent # FileOf(p, "emptyKey") /\ OldFile # FileOf(p, "emptyKey")
        /\ OldKey # FileOf(p, "emptyKey")
    BY Zenon DEF Absent, OldFile, OldKey, FileOf
  <2>4. QED
    BY <2>1, <2>2, <2>3, PlaceholderFacts, Zenon
<1>4. Typed
  <2>1. ASSUME NEW p \in Procs
        PROVE  ValuesTyped(p) /\ TableTyped(p)
    BY <1>2, <1>3 DEF ValuesTyped, TableTyped, Entries
  <2>2. QED
    BY <1>1, <2>1, ZenonT(60) DEF Typed
<1>5. ASSUME NEW p \in Procs
      PROVE  ProcInv(p) /\ ReservedInv(p) /\ KeyInv(p) /\ WrittenInv(p)
  <2>1. PhaseInv(p)
    <3>1. 1 .. 1 - 1 = {}
      BY SMTT(60)
    <3>2. QED
      BY <1>2, <3>1, Zenon DEF PhaseInv, KeySteps, WriteSteps, DropSteps
  <2>2. TmpInv(p) /\ TableInv(p)
    BY <1>2 DEF TmpInv, TableInv
  <2>3. HoldInv(p)
    BY <1>2, <1>3, SMTT(60) DEF HoldInv
  <2>4. PlaceholderInv(p) /\ WalkInv(p)
    BY <1>2, <1>3, SMTT(60) DEF PlaceholderInv, WalkInv, TmpGone, PlaceholderGone
  <2>8. EmptyKeyInv(p)
    BY <1>3, Zenon DEF EmptyKeyInv
  <2>5. ReservedInv(p)
    BY <1>2, EntryFacts DEF ReservedInv
  <2>6. KeyInv(p) /\ WrittenInv(p)
    BY <1>2, Zenon DEF KeyInv, WrittenInv, WriteSteps
  <2>7. QED
    BY <2>1, <2>2, <2>3, <2>4, <2>5, <2>6, <2>8, Zenon DEF ProcInv
<1>6. QED
  BY <1>4, <1>5, Zenon DEF OutputInv, OwnInv

\* A step of one process preserves the invariant of all.
LEMMA StepInv ==
    ASSUME OutputInv, NEW p \in Procs, Step(p)
    PROVE  OutputInv'
<1>1. Typed /\ Domains /\ ProcInv(p) /\ ValuesTyped(p) /\ TableTyped(p) /\ \A q \in Procs : ProcInv(q)
  BY Zenon DEF OutputInv, Typed
<1>2. UNCHANGED given /\ Domains' /\ (\A q \in Procs : q # p => Kept(q)) /\ Procs' = Procs
  BY <1>1, StepKeeps, Zenon DEF given, Procs
<1>3. /\ ValuesTyped(p)' /\ TableTyped(p)' /\ ProcInv(p)'
  BY <1>1, ValuesTypedStep, TableTypedStep, PhaseStep, TmpStep, HoldStep, TableStep, PlaceholderStep,
     WalkStep, EmptyKeyStep, Zenon, Zenon DEF ProcInv
<1>4. ASSUME NEW q \in Procs, q # p
      PROVE  ValuesTyped(q)' /\ TableTyped(q)' /\ ProcInv(q)'
  <2>1. ValuesTyped(q) /\ TableTyped(q) /\ ProcInv(q) /\ Kept(q)
    BY <1>1, <1>2, <1>4, Zenon DEF Typed
  <2>2. ValuesTyped(q)' /\ TableTyped(q)' /\ PhaseInv(q)' /\ TmpInv(q)' /\ HoldInv(q)' /\ TableInv(q)'
    BY <1>2, <2>1, KeptLocal, Zenon DEF ProcInv
  <2>3. PlaceholderInv(q)' /\ WalkInv(q)' /\ EmptyKeyInv(q)'
    BY <1>1, <1>4, <2>1, PlaceholderInvKept, WalkKept, EmptyKeyKept, Zenon DEF ProcInv
  <2>4. QED
    BY <2>2, <2>3, Zenon DEF ProcInv
<1>5. DOMAIN fs' = Paths /\ cmd' \in Scenarios
  BY <1>1, <1>2, FsStep, Zenon DEF Typed, given
<1>6. \A q \in Procs : ValuesTyped(q)' /\ TableTyped(q)' /\ ProcInv(q)'
  BY <1>3, <1>4, Zenon
<1>7. QED
  BY <1>2, <1>5, <1>6, Zenon DEF OutputInv, Typed

\* When the commands are Apart, it also preserves the invariant of the paths.
LEMMA StepOwn ==
    ASSUME Apart, OutputInv, OwnInv, NEW p \in Procs, Step(p)
    PROVE  OwnInv'
<1>1. Typed /\ Domains /\ ProcInv(p) /\ ReservedInv(p) /\ KeyInv(p) /\ WrittenInv(p)
  BY Zenon DEF OutputInv, OwnInv, Typed
<1>2. Procs' = Procs
  BY <1>1, StepKeeps, Zenon DEF given, Procs
<1>3. ReservedInv(p)' /\ KeyInv(p)' /\ WrittenInv(p)'
  BY <1>1, ReservedStep, KeyInvStep, WrittenStep, Zenon DEF ProcInv
<1>4. ASSUME NEW q \in Procs, q # p
      PROVE  ReservedInv(q)' /\ KeyInv(q)' /\ WrittenInv(q)'
  <2>1. ReservedInv(q) /\ KeyInv(q) /\ WrittenInv(q)
    BY Zenon DEF OwnInv
  <2>2. QED
    BY <1>1, <1>4, <2>1, OwnInvKept, Zenon DEF ProcInv
<1>5. QED
  BY <1>2, <1>3, <1>4, Zenon DEF OwnInv

\* Nor does a stuttering step change it.
LEMMA StutterInv ==
    ASSUME UNCHANGED vars
    PROVE  (OutputInv => OutputInv') /\ (OwnInv => OwnInv')
<1>1. OutputInv => OutputInv'
  <2> SUFFICES ASSUME OutputInv PROVE OutputInv'
    OBVIOUS
  <2>1. /\ UNCHANGED given /\ Procs' = Procs /\ Domains' /\ DOMAIN fs' = Paths /\ cmd' \in Scenarios
        /\ \A q : Kept(q)
    BY Zenon DEF vars, OutputInv, Typed, Domains, Procs, given, Kept
  <2>2. ASSUME NEW q \in Procs
        PROVE  ValuesTyped(q)' /\ TableTyped(q)' /\ ProcInv(q)'
    <3>1. ValuesTyped(q) /\ TableTyped(q) /\ ProcInv(q)
      BY Zenon DEF OutputInv, Typed
    <3>2. ValuesTyped(q)' /\ TableTyped(q)' /\ PhaseInv(q)' /\ TmpInv(q)' /\ HoldInv(q)' /\ TableInv(q)'
      BY <2>1, <3>1, KeptLocal, Zenon DEF ProcInv
    <3>3. PlaceholderInv(q)'
      BY <3>1, Zenon DEF vars, ProcInv, PlaceholderInv, Outs, Here, PathOf, PlaceholderOf, Slots, PathEntry,
         Stuck
    <3>4. WalkInv(q)'
      BY <3>1, Zenon DEF vars, ProcInv, WalkInv, Outs, PathOf, PlaceholderOf, TmpGone, PlaceholderGone,
         TmpEntry, PathEntry
    <3>5. EmptyKeyInv(q)'
      BY <3>1, Zenon DEF vars, ProcInv, EmptyKeyInv, Outs, PathOf, FileOf, PathEntry
    <3>6. QED
      BY <3>2, <3>3, <3>4, <3>5, Zenon DEF ProcInv
  <2>3. QED
    BY <2>1, <2>2, Zenon DEF OutputInv, Typed
<1>2. OwnInv => OwnInv'
  <2> SUFFICES ASSUME OwnInv PROVE OwnInv'
    OBVIOUS
  <2>1. ASSUME NEW q \in Procs
        PROVE  ReservedInv(q)' /\ KeyInv(q)' /\ WrittenInv(q)'
    <3>1. ReservedInv(q) /\ KeyInv(q) /\ WrittenInv(q)
      BY ZenonT(60) DEF OwnInv
    <3>2. ReservedInv(q)'
      BY <3>1, SMTT(60) DEF vars, ReservedInv, Mine, Outs, PathOf, PlaceholderOf, PathEntry, Absent
    <3>3. KeyInv(q)'
      BY <3>1, SMTT(60) DEF vars, KeyInv, Here, PathOf, FileOf
    <3>4. WrittenInv(q)'
      BY <3>1 DEF vars, WrittenInv, Outs, PathOf, FileOf
    <3>5. QED
      BY <3>2, <3>3, <3>4
  <2>2. Procs' = Procs
    BY DEF vars, Procs
  <2>3. QED
    BY <2>1, <2>2, Zenon DEF OwnInv
<1>3. QED
  BY <1>1, <1>2, Zenon

\* Every step is a step of one process, or none.
LEMMA NextIsStep ==
    ASSUME [Next]_vars
    PROVE  (\E p \in Procs : Step(p)) \/ UNCHANGED vars
  BY Zenon DEF Next, Step, AllEnded

\* The invariant holds of every behaviour of the commands.
THEOREM OutputInvariant == Spec => []OutputInv
<1>1. Init => OutputInv
  BY InitInv, Zenon
<1>2. OutputInv /\ [Next]_vars => OutputInv'
  BY NextIsStep, StepInv, StutterInv, Zenon
<1>3. QED
  BY <1>1, <1>2, PTL DEF Spec

\* A failed command leaves no temp file, no placeholder and no unwritten key
\* file, whichever step of create, the work or commit failed and whatever the
\* other processes do, but for those whose removal was itself refused.
THEOREM FailedCommandsCleanUp == Spec => []FailedLeavesNothing
<1>1. OutputInv => FailedLeavesNothing
  <2>1. SUFFICES ASSUME OutputInv, NEW p \in Procs, status[p] = "error"
                 PROVE  Left(p) \subseteq unremoved[p]
    BY Zenon DEF FailedLeavesNothing
  <2>2. live[p] = {} /\ TmpInv(p) /\ PlaceholderInv(p) /\ EmptyKeyInv(p)
    BY <2>1, Zenon DEF OutputInv, ProcInv, PhaseInv
  <2>3. \A i \in Outs(p) : tmp[p][i] # "none" => TmpEntry(i) \in unremoved[p]
    BY <2>2, Zenon DEF TmpInv, Stuck
  <2>4. \A i \in Outs(p) :
          fs[PathOf(p, i)] \in {PlaceholderOf(p), FileOf(p, "emptyKey")} => PathEntry(i) \in unremoved[p]
    BY <2>1, <2>2, Zenon DEF PlaceholderInv, EmptyKeyInv, Stuck
  <2>5. QED
    BY <2>3, <2>4, Zenon DEF Left, PlaceholderOf, FileOf
<1>2. QED
  BY <1>1, OutputInvariant, PTL

\* On Unix an interrupted command leaves nothing, except where cleanup.rs says
\* so and where a removal is refused, and the table never names a file of a value that has been dropped.
THEOREM InterruptedCommandsCleanUp == Spec => []InterruptLeavesNothing
<1>1. OutputInv => InterruptLeavesNothing
  <2>1. SUFFICES ASSUME OutputInv, NEW p \in Procs
                 PROVE  /\ platform = "unix" /\ status[p] = "interrupted" =>
                            \/ pc[p] \in {"guardPlaceholder", "guardTmp", "keyWrite", "keyRemove"}
                            \/ renameFailed[p]
                            \/ Left(p) \subseteq unremoved[p]
                        /\ \A s \in Slots :
                            table[p][s] \in {NoEntry} \cup
                                {PathEntry(i) : i \in placeholder[p] \cap live[p]} \cup
                                {TmpEntry(i) : i \in temped[p] \cap live[p]}
    BY Zenon DEF InterruptLeavesNothing
  <2>2. WalkInv(p) /\ TableInv(p) /\ EmptyKeyInv(p)
    BY <2>1, Zenon DEF OutputInv, ProcInv
  <2>3. platform = "unix" /\ status[p] = "interrupted" =>
            \/ pc[p] \in {"guardPlaceholder", "guardTmp", "keyWrite", "keyRemove"}
            \/ renameFailed[p]
            \/ Left(p) \subseteq unremoved[p]
    <3>1. SUFFICES ASSUME platform = "unix", status[p] = "interrupted", ~renameFailed[p],
                          pc[p] \notin {"guardPlaceholder", "guardTmp", "keyWrite", "keyRemove"}
                   PROVE  Left(p) \subseteq unremoved[p]
      BY Zenon
    <3>2. \A i \in Outs(p) : TmpGone(p, i) /\ PlaceholderGone(p, i)
      BY <2>2, <3>1, Zenon DEF WalkInv
    <3>3. \A i \in Outs(p) : fs[PathOf(p, i)] = FileOf(p, "emptyKey") => PathEntry(i) \in unremoved[p]
      BY <2>2, <3>1, Zenon DEF EmptyKeyInv
    <3>4. QED
      BY <3>2, <3>3, Zenon DEF Left, TmpGone, PlaceholderGone, PlaceholderOf, FileOf
  <2>4. \A s \in Slots :
            table[p][s] \in {NoEntry} \cup
                {PathEntry(i) : i \in placeholder[p] \cap live[p]} \cup
                {TmpEntry(i) : i \in temped[p] \cap live[p]}
    BY <2>2, Zenon DEF TableInv
  <2>5. QED
    BY <2>3, <2>4, Zenon
<1>2. QED
  BY <1>1, OutputInvariant, PTL

\* When the commands are Apart, what each has at its paths is its own.
THEOREM PathsAreOwned ==
    ASSUME Apart
    PROVE  Spec => [](OutputInv /\ OwnInv)
<1>1. Init => OutputInv /\ OwnInv
  BY InitInv, Zenon
<1>2. OutputInv /\ OwnInv /\ [Next]_vars => OutputInv' /\ OwnInv'
  BY NextIsStep, StepInv, StepOwn, StutterInv, Zenon
<1>3. QED
  BY <1>1, <1>2, PTL DEF Spec

\* A command that reports success has put each of its outputs, whole, at its
\* path, and has nothing else lying about.
THEOREM SuccessIsWritten ==
    ASSUME Apart
    PROVE  Spec => []SuccessMeansWritten
<1>1. OutputInv /\ OwnInv => SuccessMeansWritten
  <2>1. SUFFICES ASSUME OutputInv, OwnInv, NEW p \in Procs, status[p] = "ok"
                 PROVE  /\ Left(p) = {}
                        /\ \A i \in Outs(p) :
                              fs[PathOf(p, i)] =
                                  [kind |-> IF cmd[p].key THEN "key" ELSE "whole", by |-> p]
    BY Zenon DEF SuccessMeansWritten
  <2>2. live[p] = {} /\ PhaseInv(p) /\ TmpInv(p) /\ KeyInv(p) /\ WrittenInv(p)
    BY <2>1, Zenon DEF OutputInv, ProcInv, OwnInv, PhaseInv
  <2>7. pc[p] \notin DropSteps
    BY <2>1, <2>2, Zenon DEF WrittenInv, PhaseInv, KeySteps, DropSteps
  <2>3. \A k \in {"key", "whole"} :
           (\A i \in Outs(p) : fs[PathOf(p, i)] = [kind |-> k, by |-> p]) => Left(p) = {}
    <3>1. \A i \in Outs(p) : tmp[p][i] = "none"
      BY <2>2, <2>7, Zenon DEF TmpInv, Stuck
    <3>2. SUFFICES ASSUME NEW k \in {"key", "whole"},
                          \A i \in Outs(p) : fs[PathOf(p, i)] = [kind |-> k, by |-> p]
                   PROVE  \A i \in Outs(p), l \in {"placeholder", "emptyKey"} :
                             fs[PathOf(p, i)] # [kind |-> l, by |-> p]
      BY <3>1, Zenon DEF Left
    <3>3. \A l \in {"placeholder", "emptyKey"} : FileOf(p, l) # FileOf(p, k)
      BY FileFacts, Zenon
    <3>4. QED
      BY <3>2, <3>3, Zenon DEF FileOf
  <2>4. CASE cmd[p].key
    <3>1. Outs(p) = {at[p]}
      <4>1. Outs(p) = 1 .. 1 /\ at[p] \in Outs(p)
        BY <2>1, <2>4, CommandFacts, Zenon DEF OutputInv, Typed, ValuesTyped
      <4>2. QED
        BY <4>1
    <3>2. fs[PathOf(p, at[p])] = [kind |-> "key", by |-> p]
      BY <2>1, <2>2, <2>4, Zenon DEF KeyInv, Here, FileOf
    <3>3. QED
      BY <2>3, <2>4, <3>1, <3>2, Zenon
  <2>5. CASE ~cmd[p].key
    <3>1. \A i \in Outs(p) : fs[PathOf(p, i)] = [kind |-> "whole", by |-> p]
      BY <2>1, <2>2, <2>5, Zenon DEF WrittenInv, WriteSteps, FileOf
    <3>2. QED
      BY <2>3, <2>5, <3>1, Zenon
  <2>6. QED
    BY <2>4, <2>5, Zenon
<1>2. QED
  BY <1>1, PathsAreOwned, PTL

\* No step of any command, of its Drop or of its handler changes a finished file,
\* except the rename of a command given --force.
THEOREM FinishedFilesAreKept ==
    ASSUME Apart
    PROVE  Spec => FinishedFileKept
<1>1. OutputInv /\ OwnInv /\ [Next]_vars =>
        [\A path \in Paths :
            fs[path].kind \in {"old", "key", "whole"} =>
                \/ fs'[path] = fs[path]
                \/ /\ fs'[path].kind = "whole"
                   /\ cmd[fs'[path].by].force]_vars
  <2>1. SUFFICES ASSUME OutputInv, OwnInv, NEW p \in Procs, Step(p), NEW path \in Paths,
                        fs[path].kind \in {"old", "key", "whole"}, fs'[path] # fs[path]
                 PROVE  fs'[path].kind = "whole" /\ cmd[fs'[path].by].force
    BY NextIsStep, Zenon
  <2>2. Typed /\ PhaseInv(p) /\ TmpInv(p) /\ ReservedInv(p) /\ KeyInv(p)
    BY <2>1, Zenon DEF OutputInv, OwnInv, ProcInv
  <2>3. \/ fs[path].kind = "none" \/ fs[path] = PlaceholderOf(p) \/ fs[path] = FileOf(p, "emptyKey")
        \/ cmd[p].force /\ fs'[path] = FileOf(p, "whole")
    BY <2>1, <2>2, OwnChange, Zenon
  <2>4. QED
    BY <2>1, <2>3, FileFacts
<1>2. QED
  BY <1>1, PathsAreOwned, PTL DEF Spec, FinishedFileKept
=============================================================================
