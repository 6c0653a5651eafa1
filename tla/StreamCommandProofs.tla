------------------------ MODULE StreamCommandProofs -------------------------
(***************************************************************************)
(* Proofs about StreamCommand: the four safety properties of a run, for    *)
(* every command line and every input, and for any number of changes that  *)
(* other processes make at the output path.                                *)
(***************************************************************************)
EXTENDS StreamCommand, TLAPS

USE DEF At, Goto, Fail, vars, promptVars, streamVars, endVars

-----------------------------------------------------------------------------
(***************************************************************************)
(* What has reached stdout. Nothing moves before the output exists; while  *)
(* there is no error every piece is unread, held or printed; what is       *)
(* printed or held was announced by written first.                         *)
(***************************************************************************)
StdoutInv ==
    /\ cmd \in Commands
    /\ left \in Nat /\ held \in Nat /\ printed \in Nat
    /\ printed > 0 \/ held > 0 => written /\ cmd.sink = "pipe"
    /\ pc \notin {"stream", "finish"} => printed = 0 /\ held = 0 /\ left = Pieces
    /\ cmd.sink = "pipe" /\ error = "none" => printed + held + left = Pieces
    /\ pc = "finish" /\ error = "none" => left = 0
    /\ status = "error" /\ printed > 0 => incomplete
    /\ status = "ok" /\ cmd.sink = "pipe" => printed = Pieces

\* The number of pieces is a number: the prefix, the records, the plaintexts.
LEMMA PiecesNat == ASSUME cmd \in Commands PROVE Pieces \in Nat
  BY StreamCommandAssumption DEF Command, Input, Pieces

\* Pieces depends on the command line only.
LEMMA PiecesFixed == ASSUME cmd' = cmd PROVE Pieces' = Pieces
  BY DEF Pieces, Sealing

\* Every step keeps it.
LEMMA StdoutStep ==
    ASSUME StdoutInv, [Next]_vars
    PROVE  StdoutInv'
<1> USE DEF StdoutInv
<1>1. CASE ReadCredential
  BY <1>1, PiecesFixed, PiecesNat DEF ReadCredential
<1>2. CASE Precheck
  BY <1>2, PiecesFixed, PiecesNat DEF Precheck
<1>3. CASE OpenInput
  BY <1>3, PiecesFixed, PiecesNat DEF OpenInput
<1>4. CASE FirstByte
  BY <1>4, PiecesFixed, PiecesNat DEF FirstByte
<1>5. CASE CanPrompt
  BY <1>5, PiecesFixed, PiecesNat DEF CanPrompt
<1>6. CASE Ignore
  BY <1>6, PiecesFixed, PiecesNat DEF Ignore
<1>7. CASE EchoOff
  BY <1>7, PiecesFixed, PiecesNat DEF EchoOff
<1>8. CASE Type
  BY <1>8, PiecesFixed, PiecesNat DEF Type
<1>9. CASE EchoOn
  BY <1>9, PiecesFixed, PiecesNat DEF EchoOn
<1>10. CASE Restore
  BY <1>10, PiecesFixed, PiecesNat DEF Restore
<1>11. CASE Answered
  BY <1>11, PiecesFixed, PiecesNat DEF Answered
<1>12. CASE Derive
  BY <1>12, PiecesFixed, PiecesNat DEF Derive, DeriveErrors
<1>13. CASE Create
  BY <1>13, PiecesFixed, PiecesNat DEF Create
<1>14. CASE WritePiece
  <2>1. CASE cmd.sink = "pipe"
    <3>1. left' = left - 1 /\ left' \in Nat /\ cmd' = cmd /\ status' = status /\ status = "running"
      BY <1>14, <2>1 DEF WritePiece
    <3>2. Pieces' = Pieces /\ Pieces \in Nat
      BY <3>1, PiecesFixed, PiecesNat
    <3>3. written'
      <4>1. written' = (written \/ 1 > 0)
        BY <1>14, <2>1, Zenon DEF WritePiece, WriteStdout
      <4>2. 1 > 0
        OBVIOUS
      <4>3. QED
        BY <4>1, <4>2, Zenon
    <3>4. CASE pc' = "stream" /\ error' = error /\ held' \in {0, held + 1}
               /\ printed' = printed + (held + 1 - held')
      <4> HIDE DEF StdoutInv
      <4>0. held \in Nat /\ printed \in Nat /\ (held' = 0 \/ held' = held + 1)
            /\ printed' = printed + (held + 1 - held')
        BY <3>4 DEF StdoutInv
      <4>1. held' \in Nat /\ printed' \in Nat /\ printed' + held' = printed + held + 1
        BY <4>0
      <4> USE DEF StdoutInv
      <4>2. pc = "stream" /\ pc' = "stream"
        BY <1>14, <3>4 DEF WritePiece
      <4>3. error' = "none" => printed' + held' + left' = Pieces'
        <5>1. ASSUME error' = "none" PROVE printed + held + left = Pieces
          BY <2>1, <3>4, <5>1
        <5>2. QED
          <6>1. left \in Nat /\ held \in Nat /\ printed \in Nat
            OBVIOUS
          <6>2. printed' + held' + left' = printed + held + left
            <7>1. CASE held' = 0 /\ printed' = printed + held + 1
              BY <3>1, <6>1, <7>1
            <7>2. CASE held' = held + 1 /\ printed' = printed
              BY <3>1, <6>1, <7>2
            <7>3. QED
              BY <4>0, <7>1, <7>2
          <6>3. QED
            BY <3>2, <5>1, <6>2
      <4>4. cmd' \in Commands /\ cmd'.sink = "pipe" /\ left' \in Nat /\ status' = "running"
        BY <2>1, <3>1
      <4>5. QED
        BY <3>3, <4>1, <4>2, <4>3, <4>4
    <3>5. CASE pc' = "finish" /\ error' = "Io" /\ \E k \in 0 .. held + 1 :
                  printed' = printed + k /\ held' = IF k < held THEN held - k ELSE 0
      BY <1>14, <2>1, <3>1, <3>2, <3>3, <3>5
    <3>6. QED
      BY <1>14, <2>1, <3>4, <3>5 DEF WritePiece, WriteStdout
  <2>2. CASE cmd.sink # "pipe"
    BY <1>14, <2>2, PiecesFixed DEF WritePiece
  <2>3. QED
    BY <2>1, <2>2
<1>15. CASE EndOfInput
  BY <1>15, PiecesFixed, PiecesNat DEF EndOfInput, StreamError
<1>16. CASE FinishFile
  BY <1>16, PiecesFixed, PiecesNat DEF FinishFile
<1>17. CASE FinishStdout
  BY <1>17, PiecesFixed, PiecesNat DEF FinishStdout
<1>18. CASE \E s \in {"SIGINT", "SIGTERM"} : Signal(s)
  BY <1>18, PiecesFixed, PiecesNat DEF Signal
<1>19. CASE Touch
  BY <1>19, PiecesFixed, PiecesNat DEF Touch
<1>20. CASE UNCHANGED vars
  BY <1>20, PiecesFixed, PiecesNat
<1>21. QED
  BY <1>1, <1>2, <1>3, <1>4, <1>5, <1>6, <1>7, <1>8, <1>9, <1>10, <1>11, <1>12, <1>13, <1>14, <1>15, <1>16, <1>17, <1>18, <1>19, <1>20, Zenon DEF Next, CommandStep, Ended

(***************************************************************************)
(* Output::finish: a command that fails after something reached stdout     *)
(* says so, and one that reports success has written the whole message, in *)
(* every run.                                                              *)
(***************************************************************************)
THEOREM StdoutIsReported == Spec => []StdoutReported
<1>1. Init => StdoutInv
  BY PiecesNat DEF Init, StdoutInv
<1>2. StdoutInv /\ [Next]_vars => StdoutInv'
  BY StdoutStep
<1>3. StdoutInv => StdoutReported
  BY SMTT(60) DEF StdoutInv, StdoutReported
<1>4. QED
  BY <1>1, <1>2, <1>3, PTL DEF Spec

-----------------------------------------------------------------------------
(***************************************************************************)
(* The terminal and SIGINT. The echo is off only inside the prompt, where  *)
(* SIGINT is ignored; what a guard will put back is what was there before  *)
(* it.                                                                     *)
(***************************************************************************)
Prompting == {"echoOff", "typing", "echoOn", "restore"}
EchoInv ==
    /\ pc \in Prompting => sigint = "ignored"
    /\ sigint = "ignored" => cmd.nohup \/ pc \in Prompting
    /\ previous = "ignored" => cmd.nohup
    /\ status = "running" => echo \/ pc \in {"typing", "echoOn"}
    /\ status \in {"ok", "error", "SIGINT"} => echo

\* Every step keeps it.
LEMMA EchoStep ==
    ASSUME EchoInv, [Next]_vars
    PROVE  EchoInv'
<1> USE DEF EchoInv, Prompting
<1>1. CASE ReadCredential
  BY <1>1 DEF ReadCredential
<1>2. CASE Precheck
  BY <1>2 DEF Precheck
<1>3. CASE OpenInput
  BY <1>3 DEF OpenInput
<1>4. CASE FirstByte
  BY <1>4 DEF FirstByte
<1>5. CASE CanPrompt
  BY <1>5 DEF CanPrompt
<1>6. CASE Ignore
  BY <1>6 DEF Ignore
<1>7. CASE EchoOff
  BY <1>7 DEF EchoOff
<1>8. CASE Type
  BY <1>8 DEF Type
<1>9. CASE EchoOn
  BY <1>9 DEF EchoOn
<1>10. CASE Restore
  BY <1>10 DEF Restore
<1>11. CASE Answered
  BY <1>11 DEF Answered
<1>12. CASE Derive
  BY <1>12 DEF Derive
<1>13. CASE Create
  BY <1>13 DEF Create
<1>14. CASE WritePiece
  BY <1>14 DEF WritePiece, WriteStdout
<1>15. CASE EndOfInput
  BY <1>15 DEF EndOfInput
<1>16. CASE FinishFile
  BY <1>16 DEF FinishFile
<1>17. CASE FinishStdout
  BY <1>17 DEF FinishStdout
<1>18. CASE \E s \in {"SIGINT", "SIGTERM"} : Signal(s)
  BY <1>18 DEF Signal
<1>19. CASE Touch
  BY <1>19 DEF Touch
<1>20. CASE UNCHANGED vars
  BY <1>20
<1>21. QED
  BY <1>1, <1>2, <1>3, <1>4, <1>5, <1>6, <1>7, <1>8, <1>9, <1>10, <1>11, <1>12, <1>13, <1>14, <1>15, <1>16, <1>17, <1>18, <1>19, <1>20 DEF Next, CommandStep, Ended

(***************************************************************************)
(* sigint.rs and from_terminal: whatever ends the command except a SIGTERM *)
(* or SIGHUP finds the echo on, and SIGINT is ignored only inside the      *)
(* prompt or by the parent.                                                *)
(***************************************************************************)
THEOREM EchoIsRestored == Spec => []EchoRestored
<1>1. Init => EchoInv
  BY DEF Init, EchoInv, Prompting
<1>2. EchoInv /\ [Next]_vars => EchoInv'
  BY EchoStep
<1>3. EchoInv => EchoRestored
  BY DEF EchoInv, EchoRestored, Prompting
<1>4. QED
  BY <1>1, <1>2, <1>3, PTL DEF Spec

-----------------------------------------------------------------------------
(***************************************************************************)
(* The passphrase and the output path. As long as nobody touches the path, *)
(* what precheck accepted create accepts; and no error is pending while a  *)
(* prompt can still come.                                                  *)
(***************************************************************************)
PromptInv ==
    /\ touched \in Nat /\ asked \in Nat
    /\ reserved => pc \in {"derive", "stream", "finish"}
    /\ pc \in {"credential", "precheck", "open", "firstByte", "canPrompt"} => asked = 0
    /\ status = "running" /\ pc # "finish" => error = "none"
    /\ status = "running" /\ ~reserved /\ touched = 0 /\ pc \notin {"credential", "precheck"}
          => PrecheckRefusal = "none"
    /\ PromptNotWasted

\* precheck and OutputFile::create refuse the same paths, for the same reasons.
LEMMA SameRefusals == CreateRefusal = PrecheckRefusal
  BY DEF CreateRefusal, PrecheckRefusal, KeyFileRefusal

\* What precheck says depends on the command line and the path only.
LEMMA RefusalFixed ==
    ASSUME cmd' = cmd, out' = out PROVE PrecheckRefusal' = PrecheckRefusal
  BY SMTT(60) DEF PrecheckRefusal, KeyFileRefusal

\* Every step keeps it.
LEMMA PromptStep ==
    ASSUME PromptInv, [Next]_vars
    PROVE  PromptInv'
<1> USE DEF PromptInv, PromptNotWasted
<1>1. CASE ReadCredential
  BY <1>1, RefusalFixed, SameRefusals DEF ReadCredential
<1>2. CASE Precheck
  BY <1>2, RefusalFixed, SameRefusals DEF Precheck
<1>3. CASE OpenInput
  BY <1>3, RefusalFixed, SameRefusals DEF OpenInput
<1>4. CASE FirstByte
  BY <1>4, RefusalFixed, SameRefusals DEF FirstByte, DecryptRefusal
<1>5. CASE CanPrompt
  BY <1>5, RefusalFixed, SameRefusals DEF CanPrompt
<1>6. CASE Ignore
  BY <1>6, RefusalFixed, SameRefusals DEF Ignore
<1>7. CASE EchoOff
  BY <1>7, RefusalFixed, SameRefusals DEF EchoOff
<1>8. CASE Type
  BY <1>8, RefusalFixed, SameRefusals DEF Type
<1>9. CASE EchoOn
  BY <1>9, RefusalFixed, SameRefusals DEF EchoOn
<1>10. CASE Restore
  BY <1>10, RefusalFixed, SameRefusals DEF Restore
<1>11. CASE Answered
  BY <1>11, RefusalFixed, SameRefusals DEF Answered
<1>12. CASE Derive
  BY <1>12, RefusalFixed, SameRefusals DEF Derive, DeriveErrors
<1>13. CASE Create
  BY <1>13, RefusalFixed, SameRefusals DEF Create
<1>14. CASE WritePiece
  BY <1>14, RefusalFixed, SameRefusals DEF WritePiece, WriteStdout
<1>15. CASE EndOfInput
  BY <1>15, RefusalFixed, SameRefusals DEF EndOfInput, StreamError
<1>16. CASE FinishFile
  BY <1>16, RefusalFixed, SameRefusals DEF FinishFile
<1>17. CASE FinishStdout
  BY <1>17, RefusalFixed, SameRefusals DEF FinishStdout
<1>18. CASE \E s \in {"SIGINT", "SIGTERM"} : Signal(s)
  BY <1>18, RefusalFixed, SameRefusals DEF Signal
<1>19. CASE Touch
  BY <1>19, RefusalFixed, SameRefusals DEF Touch
<1>20. CASE UNCHANGED vars
  BY <1>20, RefusalFixed, SameRefusals
<1>21. QED
  BY <1>1, <1>2, <1>3, <1>4, <1>5, <1>6, <1>7, <1>8, <1>9, <1>10, <1>11, <1>12, <1>13, <1>14, <1>15, <1>16, <1>17, <1>18, <1>19, <1>20 DEF Next, CommandStep, Ended

(***************************************************************************)
(* Sink::precheck: an output path that nobody touches after precheck       *)
(* accepted it is never refused after the passphrase was typed.            *)
(***************************************************************************)
THEOREM PromptIsNotWasted == Spec => []PromptNotWasted
<1>1. Init => PromptInv
  BY DEF Init, PromptInv, PromptNotWasted
<1>2. PromptInv /\ [Next]_vars => PromptInv'
  BY PromptStep
<1>3. PromptInv => PromptNotWasted
  BY DEF PromptInv, PromptNotWasted
<1>4. QED
  BY <1>1, <1>2, <1>3, PTL DEF Spec

-----------------------------------------------------------------------------
(***************************************************************************)
(* Exit codes. Decrypting gets past the first byte only with the container *)
(* its credential is for, and a message ends without an error only if its  *)
(* input ends well; so success means the right input, and a rejection      *)
(* another one.                                                            *)
(***************************************************************************)
Past == {"canPrompt", "ignore", "echoOff", "typing", "echoOn", "restore", "answered", "derive",
         "create", "stream", "finish"}
TellsInv ==
    /\ cmd \in Commands
    /\ pc = "firstByte" => ~Sealing
    /\ pc \in Past => Sealing \/ DecryptRefusal = "none"
    /\ error \in {"none"} \cup Rejected \cup Usage \cup FileOrKey
    /\ error \in Rejected => ~Sealing /\ ~RightInput
    /\ status = "error" => error # "none"
    /\ pc = "finish" /\ error = "none" => Sealing \/ cmd.input.end = "final"
    /\ status = "ok" => Sealing \/ RightInput
    /\ out = "ours" => status = "ok"

\* These depend on the command line only.
LEMMA InputFixed ==
    ASSUME cmd' = cmd
    PROVE  Sealing' = Sealing /\ RightInput' = RightInput /\ DecryptRefusal' = DecryptRefusal
  BY DEF Sealing, RightInput, DecryptRefusal

\* An input that decrypting does not refuse and that ends well is the right one.
LEMMA AcceptedIsRight ==
    ASSUME cmd \in Commands, ~Sealing, DecryptRefusal = "none", cmd.input.end = "final"
    PROVE  RightInput
  BY StreamCommandAssumption DEF Command, Input, Sealing, DecryptRefusal, RightInput, Containers

\* The right input is refused neither by its first byte nor by its end.
LEMMA RightIsAccepted ==
    ASSUME cmd \in Commands, ~Sealing, RightInput
    PROVE  DecryptRefusal = "none" /\ cmd.input.end = "final"
  BY StreamCommandAssumption DEF Command, Input, Sealing, DecryptRefusal, RightInput

\* Output::create fails with a usage error or one about the file.
LEMMA CreateRefuses ==
    CreateRefusal \in {"none", "BinaryToTerminal", "Io", "OutputIsKeyFile", "OutputUncheckable",
                       "OutputExists"}
  BY DEF CreateRefusal, KeyFileRefusal

\* Deriving the key rejects only an input that is not the right one.
LEMMA DeriveRejects ==
    ASSUME cmd \in Commands, NEW e \in DeriveErrors
    PROVE  e \in Rejected \cup FileOrKey /\ (e \in Rejected => ~Sealing /\ ~RightInput)
  BY StreamCommandAssumption DEF DeriveErrors, Rejected, FileOrKey, Sealing, RightInput

\* Every step keeps it.
LEMMA TellsStep ==
    ASSUME TellsInv, [Next]_vars
    PROVE  TellsInv'
<1> USE DEF TellsInv, Past
<1>1. CASE ReadCredential
  BY <1>1, InputFixed, AcceptedIsRight, RightIsAccepted DEF ReadCredential, Rejected, Usage, FileOrKey
<1>2. CASE Precheck
  BY <1>2, InputFixed, AcceptedIsRight, RightIsAccepted DEF Precheck, Rejected, Usage, FileOrKey, PrecheckRefusal, KeyFileRefusal
<1>3. CASE OpenInput
  BY <1>3, InputFixed, AcceptedIsRight, RightIsAccepted DEF OpenInput, Rejected, Usage, FileOrKey, Sealing, Past
<1>4. CASE FirstByte
  BY <1>4, InputFixed, AcceptedIsRight, RightIsAccepted DEF FirstByte, Rejected, Usage, FileOrKey, DecryptRefusal
<1>5. CASE CanPrompt
  BY <1>5, InputFixed, AcceptedIsRight, RightIsAccepted DEF CanPrompt, Rejected, Usage, FileOrKey
<1>6. CASE Ignore
  BY <1>6, InputFixed, AcceptedIsRight, RightIsAccepted DEF Ignore, Rejected, Usage, FileOrKey
<1>7. CASE EchoOff
  BY <1>7, InputFixed, AcceptedIsRight, RightIsAccepted DEF EchoOff, Rejected, Usage, FileOrKey
<1>8. CASE Type
  BY <1>8, InputFixed, AcceptedIsRight, RightIsAccepted DEF Type, Rejected, Usage, FileOrKey
<1>9. CASE EchoOn
  BY <1>9, InputFixed, AcceptedIsRight, RightIsAccepted DEF EchoOn, Rejected, Usage, FileOrKey
<1>10. CASE Restore
  BY <1>10, InputFixed, AcceptedIsRight, RightIsAccepted DEF Restore, Rejected, Usage, FileOrKey
<1>11. CASE Answered
  BY <1>11, InputFixed, AcceptedIsRight, RightIsAccepted, SMTT(60) DEF Answered, Rejected, Usage, FileOrKey
<1>12. CASE Derive
  <2>1. cmd' = cmd /\ out' = out
    BY <1>12 DEF Derive
  <2>2. CASE error' = error /\ status' = status /\ pc' \in {"stream", "create"}
    BY <1>12, <2>1, <2>2, InputFixed DEF Derive
  <2>3. CASE error' \in DeriveErrors /\ pc' \in {"derive", "finish"} /\ status' \in {"running", "error"}
    <3>1. error' \in Rejected \cup FileOrKey /\ (error' \in Rejected => ~Sealing /\ ~RightInput)
      BY <2>3, DeriveRejects
    <3>2. error' # "none" /\ pc = "derive" /\ status = "running"
      BY <1>12, <3>1, SMTT(60) DEF Derive, Rejected, FileOrKey
    <3>3. QED
      BY <2>1, <2>3, <3>1, <3>2, InputFixed
  <2>4. QED
    BY <1>12, <2>2, <2>3 DEF Derive
<1>13. CASE Create
  <2>1. cmd' = cmd /\ out' \in {out, "reserved"} /\ pc = "create" /\ status = "running"
    BY <1>13 DEF Create
  <2>2. CASE error' = CreateRefusal /\ error' # "none" /\ status' = "error" /\ pc' = pc
    BY <2>1, <2>2, CreateRefuses, InputFixed DEF Rejected, Usage, FileOrKey
  <2>3. CASE error' \in {"Io", "Random"} /\ status' = "error" /\ pc' = pc
    BY <2>1, <2>3, InputFixed DEF Rejected, FileOrKey
  <2>4. CASE error' = error /\ status' = status /\ pc' \in {"derive", "stream"}
    BY <2>1, <2>4, InputFixed, SMTT(60)
  <2>5. QED
    BY <1>13, <2>2, <2>3, <2>4 DEF Create
<1>14. CASE WritePiece
  BY <1>14, InputFixed, AcceptedIsRight, RightIsAccepted, SMTT(60) DEF WritePiece, Rejected, Usage, FileOrKey, WriteStdout
<1>15. CASE EndOfInput
  BY <1>15, InputFixed, AcceptedIsRight, RightIsAccepted, SMTT(60) DEF EndOfInput, Rejected, Usage, FileOrKey, StreamError
<1>16. CASE FinishFile
  BY <1>16, InputFixed, AcceptedIsRight, RightIsAccepted, SMTT(60) DEF FinishFile, Rejected, Usage, FileOrKey, Released
<1>17. CASE FinishStdout
  BY <1>17, InputFixed, AcceptedIsRight, RightIsAccepted, SMTT(60) DEF FinishStdout, Rejected, Usage, FileOrKey
<1>18. CASE \E s \in {"SIGINT", "SIGTERM"} : Signal(s)
  BY <1>18, InputFixed, AcceptedIsRight, RightIsAccepted, SMTT(60) DEF Signal, Released
<1>19. CASE Touch
  BY <1>19, InputFixed, AcceptedIsRight, RightIsAccepted DEF Touch, Others
<1>20. CASE UNCHANGED vars
  BY <1>20, InputFixed, AcceptedIsRight, RightIsAccepted
<1>21. QED
  BY <1>1, <1>2, <1>3, <1>4, <1>5, <1>6, <1>7, <1>8, <1>9, <1>10, <1>11, <1>12, <1>13, <1>14, <1>15, <1>16, <1>17, <1>18, <1>19, <1>20, Zenon DEF Next, CommandStep, Ended

(***************************************************************************)
(* CliError::exit_code and docs/CLI.md: an intact input under its own      *)
(* credential is never reported as rejected, and any other input becomes   *)
(* neither a success nor an output file.                                   *)
(***************************************************************************)
THEOREM ExitCodesTell == Spec => []ExitCodeTells
<1>1. Init => TellsInv
  BY DEF Init, TellsInv, Others, Sealing, Past, Rejected, Usage, FileOrKey
<1>2. TellsInv /\ [Next]_vars => TellsInv'
  BY TellsStep
<1>3. TellsInv => ExitCodeTells
  BY DEF TellsInv, ExitCodeTells, ExitCode, Rejected, Usage, FileOrKey
<1>4. QED
  BY <1>1, <1>2, <1>3, PTL DEF Spec

=============================================================================
