----------------------------- MODULE OutputFile -----------------------------
(***************************************************************************)
(* How uacrypt writes its output files: OutputFile (placeholder, temp      *)
(* file, rename), its Drop, the interruption table of cleanup.rs, and      *)
(* write_new_key_file.  Several processes run one command each, on paths   *)
(* they may share; any step may fail, and a process may be interrupted     *)
(* between two steps.  On Unix the handler runs on the command's own       *)
(* thread; on Windows it is another thread and the command goes on.        *)
(***************************************************************************)
EXTENDS Naturals, Sequences

CONSTANTS
    Paths,          \* output paths
    Existing,       \* what may be at a path before any command starts
    Scenarios,      \* functions from the processes at work to their commands
    SLOTS,          \* size of the interruption table
    Platforms,      \* of "unix" (signals) and "windows" (a console handler thread)
    Nobody          \* the writer of a file that was there before

\* A command reserves its outputs in the order of outs, or writes one key file.
\* kalyna-ccm and kalyna-gcm encrypt have three outputs, every other command one.
\* signals: the user may interrupt it.
Command == [outs : Seq(Paths), force : BOOLEAN, key : BOOLEAN, signals : BOOLEAN]

\* What a directory entry holds.  "none" and "old" are no file and someone else's;
\* "placeholder" is the empty reserved output; "partial" and "whole" come from a
\* rename; "emptyKey" is a key file not yet written, which sniff_kind does not
\* recognise; "key" is one it does.
Absent == [kind |-> "none", by |-> Nobody]
OldFile == [kind |-> "old", by |-> Nobody]
OldKey == [kind |-> "key", by |-> Nobody]

ASSUME OutputFileAssumption ==
    /\ Existing \subseteq {Absent, OldFile, OldKey}
    \* check_outputs: no two outputs of a command name the same file.
    /\ \A s \in Scenarios :
          /\ Nobody \notin DOMAIN s
          /\ \A p \in DOMAIN s :
                /\ s[p] \in Command
                /\ Len(s[p].outs) \in (IF s[p].key THEN {1} ELSE {1, 3})
                /\ \A i, j \in 1 .. Len(s[p].outs) : s[p].outs[i] = s[p].outs[j] => i = j
                \* SLOTS: "Two per output (placeholder and temp file)".
                /\ 2 * Len(s[p].outs) <= SLOTS
    /\ SLOTS \in Nat
    /\ Platforms \subseteq {"unix", "windows"}

VARIABLES
    platform,       \* which of the two builds runs
    cmd,            \* cmd[p]: the command p runs
    fs,             \* fs[path]: what is at an output path
    tmp,            \* tmp[p][i]: what is at the temp path of p's output i
    pc,             \* pc[p]: the next step of p's command
    at,             \* at[p]: the output that step is about
    live,           \* live[p]: the outputs whose OutputFile value exists
    placeholder,    \* placeholder[p]: those whose placeholder flag is set
    temped,         \* temped[p]: those whose tmp_path is Some
    table,          \* table[p]: PATHS, the interruption table
    installed,      \* installed[p]: the handlers are installed
    hold,           \* hold[p]: who is in hold_off or in the handler
    handler,        \* handler[p]: 0, or the slot the handler looks at next
    loaded,         \* loaded[p]: the entry the handler read and will delete
    status,         \* status[p]: "running", "ok", "error" or "interrupted"
    renameFailed,   \* renameFailed[p]: the rename of p's commit failed
    unremoved       \* unremoved[p]: the files of p whose removal was refused

vars == <<platform, cmd, fs, tmp, pc, at, live, placeholder, temped, table, installed,
          hold, handler, loaded, status, renameFailed, unremoved>>
\* What is fixed at the start, the state of the interruption machinery, and
\* that of the OutputFile values.
given == <<platform, cmd>>
cleanupVars == <<table, installed, hold, handler, loaded>>
valueVars == <<live, placeholder, temped>>

\* The processes at work, and those of any scenario.
Procs == DOMAIN cmd
AllProcs == UNION {DOMAIN s : s \in Scenarios}

Outs(p) == 1 .. Len(cmd[p].outs)
PathOf(p, i) == cmd[p].outs[i]
Here(p) == PathOf(p, at[p])

\* A table entry names the output path or the temp path of output i.
PathEntry(i) == <<"path", i>>
TmpEntry(i) == <<"tmp", i>>
NoEntry == <<"none", 0>>
Slots == 1 .. SLOTS

Init ==
    /\ platform \in Platforms
    /\ cmd \in Scenarios
    /\ fs \in [Paths -> Existing]
    /\ tmp = [p \in Procs |-> [i \in Outs(p) |-> "none"]]
    /\ pc = [p \in Procs |-> IF cmd[p].key THEN "keyCreate" ELSE "create"]
    /\ at = [p \in Procs |-> 1]
    /\ live = [p \in Procs |-> {}]
    /\ placeholder = [p \in Procs |-> {}]
    /\ temped = [p \in Procs |-> {}]
    /\ table = [p \in Procs |-> [s \in Slots |-> NoEntry]]
    /\ installed = [p \in Procs |-> FALSE]
    /\ hold = [p \in Procs |-> "free"]
    /\ handler = [p \in Procs |-> 0]
    /\ loaded = [p \in Procs |-> NoEntry]
    /\ status = [p \in Procs |-> "running"]
    /\ renameFailed = [p \in Procs |-> FALSE]
    /\ unremoved = [p \in Procs |-> {}]

\* The command's thread is at step.  It stands still while a Unix handler runs.
At(p, step) ==
    /\ status[p] = "running"
    /\ pc[p] = step
    /\ platform = "windows" \/ handler[p] = 0

Goto(p, step) == pc' = [pc EXCEPT ![p] = step]
GotoAt(p, step, i) == Goto(p, step) /\ at' = [at EXCEPT ![p] = i]
Exit(p, result) == status' = [status EXCEPT ![p] = result]
Put(path, kind, p) == fs' = [fs EXCEPT ![path] = [kind |-> kind, by |-> p]]
Unlink(path) == fs' = [fs EXCEPT ![path] = Absent]
Exists(path) == fs[path].kind # "none"

\* Removing a file of p may fail, and nobody looks at the result.
Refused(p, entry) == unremoved' = [unremoved EXCEPT ![p] = @ \cup {entry}]
RemoveOutput(p, i) ==
    \/ Unlink(PathOf(p, i)) /\ UNCHANGED unremoved
    \/ Refused(p, PathEntry(i)) /\ UNCHANGED fs
RemoveTmp(p, i) ==
    \/ tmp' = [tmp EXCEPT ![p][i] = "none"] /\ UNCHANGED unremoved
    \/ Refused(p, TmpEntry(i)) /\ UNCHANGED tmp

-----------------------------------------------------------------------------
(***************************************************************************)
(* cleanup::register, and the drop of Guards.                              *)
(***************************************************************************)
\* Mutant: every registration goes to the first slot.
RegisterFirst(p, entry) ==
    /\ installed' = [installed EXCEPT ![p] = TRUE]
    /\ table' = [table EXCEPT ![p][1] = entry]

Register(p, entry) ==
    /\ installed' = [installed EXCEPT ![p] = TRUE]
    /\ \/ \E s \in Slots :
             /\ table[p][s] = NoEntry
             /\ \A t \in 1 .. s - 1 : table[p][t] # NoEntry
             /\ table' = [table EXCEPT ![p][s] = entry]
       \/ /\ \A s \in Slots : table[p][s] # NoEntry
          /\ UNCHANGED table

\* Mutant: dropping a Guard leaves its entry in the table.
ReleaseNothing(p, entries) == UNCHANGED table

Release(p, entries) ==
    table' = [table EXCEPT ![p] = [s \in Slots |->
                 IF table[p][s] \in entries THEN NoEntry ELSE table[p][s]]]

-----------------------------------------------------------------------------
(***************************************************************************)
(* OutputFile::create, for the output at[p].                               *)
(***************************************************************************)
\* Without --force, reserve the path; with it, only refuse a key file.
Create(p) ==
    /\ At(p, "create")
    /\ live' = [live EXCEPT ![p] = @ \cup {at[p]}]
    /\ \/ /\ cmd[p].force
          /\ Goto(p, IF fs[Here(p)].kind = "key" THEN "dropTmp" ELSE "createTmp")
          /\ UNCHANGED <<fs, placeholder>>
       \/ /\ ~cmd[p].force
          /\ ~Exists(Here(p))
          /\ Put(Here(p), "placeholder", p)
          /\ placeholder' = [placeholder EXCEPT ![p] = @ \cup {at[p]}]
          /\ Goto(p, "guardPlaceholder")
       \/ \* The path exists, or it cannot be opened or read.
          /\ Goto(p, "dropTmp")
          /\ UNCHANGED <<fs, placeholder>>
    /\ UNCHANGED <<given, tmp, at, temped, cleanupVars, status, renameFailed, unremoved>>

GuardPlaceholder(p) ==
    /\ At(p, "guardPlaceholder")
    /\ Register(p, PathEntry(at[p]))
    /\ Goto(p, "createTmp")
    /\ UNCHANGED <<given, fs, tmp, at, valueVars, hold, handler, loaded, status,
                   renameFailed, unremoved>>

\* The random suffix makes the temp path a new one; drawing it may fail too.
CreateTmp(p) ==
    /\ At(p, "createTmp")
    /\ \/ /\ tmp' = [tmp EXCEPT ![p][at[p]] = "partial"]
          /\ Goto(p, "guardTmp")
       \/ /\ Goto(p, "dropTmp")
          /\ UNCHANGED tmp
    /\ UNCHANGED <<given, fs, at, valueVars, cleanupVars, status, renameFailed, unremoved>>

\* The end of create: reserve the next output, or start the work.
GuardTmp(p) ==
    /\ At(p, "guardTmp")
    /\ Register(p, TmpEntry(at[p]))
    /\ temped' = [temped EXCEPT ![p] = @ \cup {at[p]}]
    /\ IF at[p] < Len(cmd[p].outs) THEN GotoAt(p, "create", at[p] + 1)
       ELSE GotoAt(p, "write", 1)
    /\ UNCHANGED <<given, fs, tmp, live, placeholder, hold, handler, loaded,
                   status, renameFailed, unremoved>>

-----------------------------------------------------------------------------
(***************************************************************************)
(* write_all_and_commit, for the output at[p]; a failed write stands for   *)
(* every error between create and commit.                                  *)
(***************************************************************************)
\* Mutant: a failed write is committed.
WriteErrorIgnored(p) ==
    /\ At(p, "write")
    /\ \/ tmp' = [tmp EXCEPT ![p][at[p]] = IF @ = "none" THEN @ ELSE "whole"]
       \/ UNCHANGED tmp
    /\ Goto(p, "sync")
    /\ UNCHANGED <<given, fs, at, valueVars, cleanupVars, status, renameFailed, unremoved>>

Write(p) ==
    /\ At(p, "write")
    /\ \/ /\ tmp' = [tmp EXCEPT ![p][at[p]] = IF @ = "none" THEN @ ELSE "whole"]
          /\ Goto(p, "sync")
       \/ /\ Goto(p, "dropTmp")
          /\ UNCHANGED tmp
    /\ UNCHANGED <<given, fs, at, valueVars, cleanupVars, status, renameFailed, unremoved>>

Sync(p) ==
    /\ At(p, "sync")
    /\ Goto(p, "holdOff") \/ Goto(p, "dropTmp")
    /\ UNCHANGED <<given, fs, tmp, at, valueVars, cleanupVars, status, renameFailed, unremoved>>

\* Mutant: the commit runs without blocking the signals or taking the lock.
HoldOffUnheld(p) ==
    /\ At(p, "holdOff")
    /\ Goto(p, "release")
    /\ UNCHANGED <<given, fs, tmp, at, valueVars, cleanupVars, status, renameFailed, unremoved>>

\* hold_off: block the signals, or take the lock of the console handler.
HoldOff(p) ==
    /\ At(p, "holdOff")
    /\ hold[p] = "free"
    /\ hold' = [hold EXCEPT ![p] = "command"]
    /\ Goto(p, "release")
    /\ UNCHANGED <<given, fs, tmp, at, valueVars, table, installed, handler, loaded,
                   status, renameFailed, unremoved>>

ReleasePlaceholder(p) ==
    /\ At(p, "release")
    /\ Release(p, {PathEntry(at[p])})
    /\ Goto(p, "rename")
    /\ UNCHANGED <<given, fs, tmp, at, valueVars, installed, hold, handler, loaded,
                   status, renameFailed, unremoved>>

\* The rename, and the end of hold_off.
Rename(p) ==
    /\ At(p, "rename")
    /\ hold' = [hold EXCEPT ![p] = "free"]
    /\ \/ /\ tmp[p][at[p]] # "none"
          /\ Put(Here(p), tmp[p][at[p]], p)
          /\ tmp' = [tmp EXCEPT ![p][at[p]] = "none"]
          /\ Goto(p, "committed")
          /\ UNCHANGED renameFailed
       \/ /\ renameFailed' = [renameFailed EXCEPT ![p] = TRUE]
          /\ Goto(p, "dropTmp")
          /\ UNCHANGED <<fs, tmp>>
    /\ UNCHANGED <<given, at, valueVars, table, installed, handler, loaded, status,
                   unremoved>>

\* committed is set and the value is dropped.  kalyna-ccm and kalyna-gcm
\* reserve out, nonce, tag and commit out, tag, nonce.
AfterCommit(p) ==
    CASE at[p] = 1 /\ Len(cmd[p].outs) = 3 -> 3
      [] at[p] = 3 -> 2
      [] OTHER -> 0

Committed(p) ==
    /\ At(p, "committed")
    /\ live' = [live EXCEPT ![p] = @ \ {at[p]}]
    /\ Release(p, {TmpEntry(at[p])})
    /\ IF AfterCommit(p) = 0 THEN Exit(p, "ok") /\ UNCHANGED <<pc, at>>
       ELSE GotoAt(p, "write", AfterCommit(p)) /\ UNCHANGED status
    /\ UNCHANGED <<given, fs, tmp, placeholder, temped, installed, hold, handler,
                   loaded, renameFailed, unremoved>>

-----------------------------------------------------------------------------
(***************************************************************************)
(* Drop of an uncommitted OutputFile: its two removals, then its guards.   *)
(* The value the error came from is dropped first, then the others, the    *)
(* last one reserved first.                                                *)
(***************************************************************************)
DropTmp(p) ==
    /\ At(p, "dropTmp")
    /\ IF at[p] \in temped[p] THEN RemoveTmp(p, at[p]) ELSE UNCHANGED <<tmp, unremoved>>
    /\ Goto(p, "dropPlaceholder")
    /\ UNCHANGED <<given, fs, at, valueVars, cleanupVars, status, renameFailed>>

\* Mutant: the placeholder is removed only if the temp file was created.
DropPlaceholderWithTmp(p) ==
    /\ At(p, "dropPlaceholder")
    /\ IF at[p] \in placeholder[p] \cap temped[p] THEN RemoveOutput(p, at[p])
       ELSE UNCHANGED <<fs, unremoved>>
    /\ Goto(p, "dropGuards")
    /\ UNCHANGED <<given, tmp, at, valueVars, cleanupVars, status, renameFailed>>

DropPlaceholder(p) ==
    /\ At(p, "dropPlaceholder")
    /\ IF at[p] \in placeholder[p] THEN RemoveOutput(p, at[p]) ELSE UNCHANGED <<fs, unremoved>>
    /\ Goto(p, "dropGuards")
    /\ UNCHANGED <<given, tmp, at, valueVars, cleanupVars, status, renameFailed>>

DropGuards(p) ==
    /\ At(p, "dropGuards")
    /\ Release(p, {PathEntry(at[p]), TmpEntry(at[p])})
    /\ live' = [live EXCEPT ![p] = @ \ {at[p]}]
    /\ IF live'[p] = {} THEN Exit(p, "error") /\ UNCHANGED <<pc, at>>
       ELSE /\ \E i \in live'[p] :
                  /\ \A j \in live'[p] : j <= i
                  /\ GotoAt(p, "dropTmp", i)
            /\ UNCHANGED status
    /\ UNCHANGED <<given, fs, tmp, placeholder, temped, installed, hold, handler,
                   loaded, renameFailed, unremoved>>

-----------------------------------------------------------------------------
(***************************************************************************)
(* write_new_key_file.  It registers nothing: an interruption ends it.     *)
(***************************************************************************)
KeyCreate(p) ==
    /\ At(p, "keyCreate")
    /\ \/ /\ ~Exists(Here(p))
          /\ Put(Here(p), "emptyKey", p)
          /\ Goto(p, "keyWrite")
          /\ UNCHANGED status
       \/ /\ Exit(p, "error")
          /\ UNCHANGED <<fs, pc>>
    /\ UNCHANGED <<given, tmp, at, valueVars, cleanupVars, renameFailed, unremoved>>

\* The write goes to the open file, which may no longer be the one at the path.
KeyWrite(p) ==
    /\ At(p, "keyWrite")
    /\ \/ /\ IF fs[Here(p)] = [kind |-> "emptyKey", by |-> p]
             THEN Put(Here(p), "key", p) ELSE UNCHANGED fs
          /\ Exit(p, "ok")
          /\ UNCHANGED pc
       \/ /\ Goto(p, "keyRemove")
          /\ UNCHANGED <<fs, status>>
    /\ UNCHANGED <<given, tmp, at, valueVars, cleanupVars, renameFailed, unremoved>>

KeyRemove(p) ==
    /\ At(p, "keyRemove")
    /\ RemoveOutput(p, at[p])
    /\ Exit(p, "error")
    /\ UNCHANGED <<given, tmp, pc, at, valueVars, cleanupVars, renameFailed>>

-----------------------------------------------------------------------------
(***************************************************************************)
(* An interruption: on_signal, or on_console_event.  Without an installed  *)
(* handler the process ends at once; while hold[p] is taken the signal is  *)
(* pending, or the console handler waits for the lock.                     *)
(***************************************************************************)
Interrupt(p) ==
    /\ cmd[p].signals
    /\ status[p] = "running"
    /\ handler[p] = 0
    /\ hold[p] = "free"
    /\ \/ /\ ~installed[p]
          /\ Exit(p, "interrupted")
          /\ UNCHANGED <<handler, hold>>
       \/ /\ installed[p]
          /\ handler' = [handler EXCEPT ![p] = 1]
          /\ hold' = [hold EXCEPT ![p] = "handler"]
          /\ UNCHANGED status
    /\ UNCHANGED <<given, fs, tmp, pc, at, valueVars, table, installed, loaded,
                   renameFailed, unremoved>>

\* Mutant: an empty slot does not end the look at it.
HandlerLoadStuck(p) ==
    /\ status[p] = "running"
    /\ handler[p] \in Slots
    /\ loaded[p] = NoEntry
    /\ loaded' = [loaded EXCEPT ![p] = table[p][handler[p]]]
    /\ UNCHANGED <<given, fs, tmp, pc, at, valueVars, table, installed, hold, handler,
                   status, renameFailed, unremoved>>

HandlerLoad(p) ==
    /\ status[p] = "running"
    /\ handler[p] \in Slots
    /\ loaded[p] = NoEntry
    /\ IF table[p][handler[p]] = NoEntry
       THEN handler' = [handler EXCEPT ![p] = @ + 1] /\ UNCHANGED loaded
       ELSE loaded' = [loaded EXCEPT ![p] = table[p][handler[p]]] /\ UNCHANGED handler
    /\ UNCHANGED <<given, fs, tmp, pc, at, valueVars, table, installed, hold, status,
                   renameFailed, unremoved>>

HandlerDelete(p) ==
    /\ status[p] = "running"
    /\ loaded[p] # NoEntry
    /\ LET i == loaded[p][2]
       IN  \/ /\ loaded[p] = PathEntry(i)
              /\ RemoveOutput(p, i)
              /\ UNCHANGED tmp
           \/ /\ loaded[p] = TmpEntry(i)
              /\ RemoveTmp(p, i)
              /\ UNCHANGED fs
    /\ handler' = [handler EXCEPT ![p] = @ + 1]
    /\ loaded' = [loaded EXCEPT ![p] = NoEntry]
    /\ UNCHANGED <<given, pc, at, valueVars, table, installed, hold, status,
                   renameFailed>>

\* Unix raises the signal again; the console handler gives up the lock and
\* returns, and some time later the default handler ends the process.
HandlerReturn(p) ==
    /\ status[p] = "running"
    /\ handler[p] = SLOTS + 1
    /\ hold' = [hold EXCEPT ![p] = "free"]
    /\ handler' = [handler EXCEPT ![p] = @ + 1]
    /\ IF platform = "windows" THEN UNCHANGED status ELSE Exit(p, "interrupted")
    /\ UNCHANGED <<given, fs, tmp, pc, at, valueVars, table, installed, loaded,
                   renameFailed, unremoved>>

DefaultHandler(p) ==
    /\ status[p] = "running"
    /\ handler[p] = SLOTS + 2
    /\ Exit(p, "interrupted")
    /\ UNCHANGED <<given, fs, tmp, pc, at, valueVars, cleanupVars, renameFailed, unremoved>>

-----------------------------------------------------------------------------
OutputStep(p) ==
    \/ Create(p) \/ GuardPlaceholder(p) \/ CreateTmp(p) \/ GuardTmp(p)
    \/ Write(p) \/ Sync(p) \/ HoldOff(p) \/ ReleasePlaceholder(p) \/ Rename(p)
    \/ Committed(p) \/ DropTmp(p) \/ DropPlaceholder(p) \/ DropGuards(p)

KeyStep(p) == KeyCreate(p) \/ KeyWrite(p) \/ KeyRemove(p)

HandlerStep(p) ==
    HandlerLoad(p) \/ HandlerDelete(p) \/ HandlerReturn(p) \/ DefaultHandler(p)

\* Every command has ended.
AllEnded ==
    /\ \A p \in Procs : status[p] # "running"
    /\ UNCHANGED vars

Next ==
    \/ \E p \in Procs :
          OutputStep(p) \/ KeyStep(p) \/ Interrupt(p) \/ HandlerStep(p)
    \/ AllEnded

\* The system schedules every thread; nothing makes an interruption happen.
Fairness ==
    \A p \in AllProcs :
        /\ WF_vars(p \in Procs /\ (OutputStep(p) \/ KeyStep(p)))
        /\ WF_vars(p \in Procs /\ HandlerStep(p))

Spec == Init /\ [][Next]_vars /\ Fairness

-----------------------------------------------------------------------------
(***************************************************************************)
(* Properties.                                                             *)
(***************************************************************************)
\* The temp files of p, and its placeholders and unwritten key files.
Left(p) ==
    {TmpEntry(i) : i \in {j \in Outs(p) : tmp[p][j] # "none"}} \cup
    {PathEntry(i) : i \in {j \in Outs(p) :
        \E kind \in {"placeholder", "emptyKey"} :
            fs[PathOf(p, j)] = [kind |-> kind, by |-> p]}}

\* docs/CLI.md, "Existing output files": a failed command leaves no temp file, no
\* empty output and no unwritten key file, whichever step of create, the work or
\* commit failed, but for a file that remove_file itself refused to remove.
FailedLeavesNothing ==
    \A p \in Procs : status[p] = "error" => Left(p) \subseteq unremoved[p]

\* cleanup.rs: an interrupted command leaves no temp file and no placeholder,
\* unless it was interrupted between the creation of a file and its
\* registration, or after a failed rename, or the removal was refused.  A key
\* file is never registered: one that is being written stays.
\* (A Windows command may go on after its handler has looked at the table.)
\* At any time every entry of the table names a file of an OutputFile that still
\* exists, so the handler never deletes for one that was dropped.
InterruptLeavesNothing ==
    \A p \in Procs :
        /\ platform = "unix" /\ status[p] = "interrupted" =>
            \/ pc[p] \in {"guardPlaceholder", "guardTmp", "keyWrite", "keyRemove"}
            \/ renameFailed[p]
            \/ Left(p) \subseteq unremoved[p]
        /\ \A s \in Slots :
            table[p][s] \in {NoEntry} \cup
                {PathEntry(i) : i \in placeholder[p] \cap live[p]} \cup
                {TmpEntry(i) : i \in temped[p] \cap live[p]}

\* A finished file (one that was there before, a key, or an output a command has
\* renamed into place) changes only when a command given --force renames its
\* whole output onto it.  In particular neither Drop nor the handler deletes an
\* output that has been committed.
FinishedFileKept ==
    [][\A path \in Paths :
          fs[path].kind \in {"old", "key", "whole"} =>
              \/ fs'[path] = fs[path]
              \/ /\ fs'[path].kind = "whole"
                 /\ cmd[fs'[path].by].force]_vars

\* A command that reports success has put each of its outputs, whole, at its
\* path, and has nothing else lying about.
SuccessMeansWritten ==
    \A p \in Procs :
        status[p] = "ok" =>
            /\ Left(p) = {}
            /\ \A i \in Outs(p) :
                  fs[PathOf(p, i)] =
                      [kind |-> IF cmd[p].key THEN "key" ELSE "whole", by |-> p]

\* Every command ends: no thread waits for ever for the handler's lock.
EveryCommandEnds == \A p \in AllProcs : <>(p \in Procs => status[p] # "running")

(***************************************************************************)
(* What the documentation says and the code does not do.                   *)
(***************************************************************************)
\* docs/CLI.md: "a failed command leaves no output file", even when every file
\* it tried to remove was removed.
FailedLeavesNoOutput ==
    \A p \in Procs :
        status[p] = "error" /\ unremoved[p] = {} => \A path \in Paths : fs[path].by # p
=============================================================================
