# uacrypt: a TLA+ verification project

TLA+ models of `dstu-core`, its C API and language bindings, and the `uacrypt`
command line, checked with TLC on small instances, with theorems checked by
TLAPS for every instance. Paths below are relative to the repository.

## The system

`dstu-core` is a library of the Ukrainian DSTU primitives and of
libsodium-style constructions over them; `uacrypt` is its command line;
`dstu-core-capi` and eight language bindings wrap the library.

| part | state | operations | what is hard about it |
|---|---|---|---|
| `crypto_secretstream` | subkey, counter, finalized on each side | init, push, pull, rekey | two parties that never talk back must stay in step over a transport that does anything; the counter is the IV |
| stream file (`crypto_secretstream/file.rs`) | six reader states, a pull state, a held chunk | seal_chunk, seal_final, feed, finish, seal_all, open_all | lengths and tags are read before they are authenticated; the last chunk may come out only once the end of the input is known |
| `encrypt`'s writer loop (`uacrypt/src/lib.rs`) | two chunk buffers | fill_chunk, write_stream_records | short reads, empty input, exact multiples, an input that grows |
| output files (`lib.rs`, `cleanup.rs`) | placeholder, temp file, interruption table, lock or signal mask | create, write, commit, Drop, register, hold_off, the handlers | every call can fail, a signal can come between any two, other processes use the same path |
| encrypt/decrypt commands (`lib.rs`, `passphrase.rs`, `sigint.rs`) | credential, prompt, terminal mode, output | check, precheck, prompt, create, stream, finish | checks that go stale while a passphrase is typed; stdout cannot be taken back |
| all commands (`lib.rs`, `keyfile.rs`, `suggest.rs`) | the files | scan and parse arguments, keygen, pubkey, sign, verify, hash, the hazmat tools | the order of the checks decides the exit code and which files survive; links, directories and keys in the wrong place |
| hashes, MACs, stream cipher, block modes (`hazmat/`) | partial-block buffers, counters | update, finalize, apply_keystream, seal, open | any split of the input must give the same result; fast forms must equal the plain ones |
| signatures and boxes (`dstu4145`, `dstu9041`, `crypto_sign*`, `crypto_box*`) | none | sign, verify, seal, open | carries, retry loops, range and subgroup checks |
| C API (`dstu-core-capi`) | opaque handles, last error | new, feed, finish, free, one-shot calls | calls in any order, buffers that overlap, are null or too short |
| bindings (eight languages) | a write buffer, a read buffer, flags | write, flush, close, abort, read | which call seals the Final record, and what a sink that failed half-way leaves |

## Modules

| module | models | stands on |
|---|---|---|
| `SecretStream` | `PushState`, `PullState` as operators on their state | |
| `SecretStreamChannel` | streams and pullers over an unreliable transport | `SecretStream` |
| `SecretStreamChannelProofs` | theorems about it | `SecretStreamChannel` |
| `StreamFile` | `FileEncryptor`, `FileDecryptor`, `seal_all` | `SecretStream` |
| `StreamFileProofs` | lemmas about sealed files and induction | `StreamFile` |
| `Delivery` | the contract of reading a stream, with no cryptography in it | |
| `StreamFileReader` | `open_all` on a damaged file; refines `Delivery` | `StreamFile` |
| `StreamFileReaderLemmas`, `StreamFileReaderProofs` | theorems about it | `StreamFileReader`, `StreamFileProofs` |
| `StreamFileWriter` | `fill_chunk`, `write_stream_records` | `StreamFile` |
| `StreamFileWriterProofs` | theorems about it | `StreamFileWriter`, `StreamFileProofs` |
| `SealedBox`, `SealedForms` | the three sealed boxes, the passphrase file, secretbox, stream | `StreamFile` |
| `CApiHandles` | the C API: guards, lengths, overlap, the life of every handle | `SealedForms` |
| `BindingStream` | the stream writers and readers of the eight bindings and the native classes they drive | `StreamFile` |
| `OutputFile` | `OutputFile`, `write_new_key_file`, `cleanup.rs` | |
| `OutputFileLemmas`, `OutputFileProofs` | theorems about it | `OutputFile` |
| `StreamCommand` | one run of `encrypt`, `decrypt`, `box-seal` or `box-open`, with prompt, signals and stdout | |
| `StreamCommandProofs` | theorems about it | `StreamCommand` |
| `CliArgs` | the flag tables, `ArgScanner`, every `parse_*_args`, key lines, `suggest.rs` | |
| `CliCommands` | every `run_*` as a function of the files and the arguments | `CliArgs` |
| `Commands` | sessions: command after command over one file system | `CliCommands` |
| `Bytes`, `Limbs` | byte strings and words; `limb.rs` | |
| `KalynaTables`, `Kalyna`, `KalynaModes` | `tables.rs`, the block cipher, `kalyna_*.rs` | `Bytes`, `Gf2mWide` |
| `Kupyna`, `Strumok` | hash, KMAC and KDF; the stream cipher | `KalynaTables` |
| `Gf2mWide` | `gf2m_wide.rs` | `Bytes` |
| `BinaryCurve`, `Dstu4145` | `dstu4145/`, `crypto_sign*.rs` | `Limbs` |
| `EdwardsCurve`, `Dstu9041` | `dstu9041/`, the keys of `crypto_box*.rs` | `Limbs` |
| `PasswordHash` | `crypto_pwhash.rs` | |
| `Primitives` | the primitives in use, with their properties | all of the above six rows |
| `MC...` | the instances TLC checks | |

Files of the repository that are copies of one another (the 163 and 257 bit
curves, the three DSTU 9041 sizes, the three boxes, the five cipher variants)
are one module or definition with the differences as parameters.

### How the cryptography is modelled

At two levels.

*In the protocols* (`SecretStream` to `Commands`) it is ideal. A subkey is the
record of what it was derived from (master key, header, number of rekeys); an
authentication tag is the record of everything it covers. Two such values are
equal exactly when their inputs are: the KMAC has no collisions, and nobody
makes a tag without the subkey. It turns "the code binds field X" into
something TLC can refute, as the mutants that drop the tag or the position from
the covered data show. A ciphertext is the record of subkey, IV and plaintext.
Whether a chunk's bytes still are what the tag covers is the parameter
`intact`. Argon2 and DSTU 9041's encapsulation are ideal there in the same way.

*In the primitives* it is computed. The symmetric algorithms are modelled at
full size, on real bytes, and give the repository's test vectors. Over the
curves' real fields nothing can be enumerated; there the same limb algorithms
run over small fields of several limbs with the same kind of reduction (three
and five limbs for the binary fields, as in the code; two or three for the
prime fields, which have four, six and eight), so that every answer can be
compared with the mathematical definition. TLC's integers have 32 bits: a `u64` is its eight bytes.

### SecretStream, SecretStreamChannel

`StreamInit`, `PushResult`, `Chunk`, `Advance`, `PullResult` follow `init`,
the checks of `push`, its encryption, the update of the state, and `pull`;
their order of checks is the code's. `CounterMax` stands for `u64::MAX`, the
value `checked_add` refuses to pass. In `SecretStreamChannel` every chunk ever
pushed stays available, and `Pull` may be handed the ciphertext of one and the
tag of another, any tag byte, at any time: that covers loss, repetition,
reordering, splicing and damage.

### StreamFile, StreamFileReader, Delivery

A file is a sequence of cells, one per field of the format, with one cell per
ciphertext byte so that record boundaries can shift. A cell read where another
kind of field is expected shows the reader any value of that field. `Feed` and
`Finish` are the two calls; `StepVersion` ... `StepRecordBody` are the arms of
`step`. `StreamFileReader` seals two files, edits one (cuts a range, inserts a
range of either file, changes a field), and runs the loop of `open_all`, with
refused calls in between. `Delivery` says what a reader promises: plaintext
comes out in order, as the beginning of one sealed message, and the last part
comes out only together with the news that it is the last.

### StreamFileWriter

One action per `read` of `fill_chunk` (any positive number of bytes) and per
branch of the loop; the input may grow after a read returned 0.

### SealedBox, SealedForms, CApiHandles

A box or a passphrase file is a prefix and a stream file; `seal`, `open`, their
streaming forms and the lengths they check are operators. `CApiHandles` is a C
program: memory is a small line of addresses, a buffer is a pointer and a
length, and each action is one exported function with its null, length,
capacity and overlap checks in the code's order, for every choice of buffers.
`last` records the call's status, the slices it formed and what it made. The
handles (push and pull state, file encryptor and decryptor, hasher) live
between calls; a behaviour uses one kind of handle.

### BindingStream

The native class of each binding is modelled first, then the wrapper written
in the binding's own language: what it buffers, when it seals a record, what
stays in the buffer after the sink refused one, which of close, dispose and
end of block seals the Final record, what a freed object still accepts. The
bindings share the operators for what their code does alike (`Cut`,
`SealFinal`, `ReadStep`), and each has its own for every call. Sink and source belong to the
program: a sink may fail having taken none, some or all of a record, a source
may fail in the middle of a read, and the program may ignore the failure.

### OutputFile

Each process runs one command. A `pc` walks it through the calls of
`OutputFile::create`, the write, `commit` and `Drop`, one system call or one
atomic access per step, so that an interruption or another process can come in
between; every call may fail. `Drop` and the handlers ignore a removal that
fails, and the model does too: `unremoved` remembers the files. The interruption table, `hold_off` and the two
handlers are as in `cleanup.rs`: on Unix the handler runs on the command's own
thread, which stands still meanwhile; on Windows it is a thread of its own and
takes the lock `hold_off` holds.

### StreamCommand

One command on Unix from its credential to its exit code. `pc` names the next
step of `run_secretstream_command`, `run_box_seal_command` or
`run_box_open_command`; any call may fail. It stands on the other modules:
reserving and committing an output is one step here (its system calls are in
`OutputFile`), and an input is the number of plaintext pieces that come out of
it and the error it ends with (what the decryptor makes of real files is in
`StreamFileReader`). The prompt is `Ignored::new`, the external `rpassword`
(echo off, read, raise SIGINT on Ctrl-C, echo on), `Ignored`'s `Drop`, and what
`from_terminal` does with the answer. `Touch` is another process at `--out`
after `precheck`; `Signal` is SIGINT, or SIGTERM/SIGHUP, at any moment.
Errors that `exit_code` and the command treat alike are one value:
`SecretstreamBadFormat` stands for the version, length, tag and trailing-data
errors, `KeyKindMismatch` for every key file that is refused.

### CliArgs, CliCommands, Commands

An argument is a record (dashes, text, value behind `=`); `scan` and the
`parse_*_args` are operators that give the parsed arguments or the name of the
`CliError`. A file is a record that says what its bytes are: a typed key line
with its checksum, data, a signature of something by some key, a ciphertext of
something. Each `run_*` lists its checks in the code's order and gives the
error, the files it leaves and what it prints; the random generator may fail
where the code draws from it. `exit_code` lists the code's classes error by
error. In `Commands` a user runs
command after command (`Exec`), saves what was printed (`Save`) and edits data
files (`Edit`); a command is atomic there, because taking it apart is what
`OutputFile` and `StreamCommand` do.

### Primitives and the modules under it

A behaviour takes a task (an algorithm with its parameters) and performs it:
stream objects are fed piece by piece (`AnySplit`), one-shot calls are made at
every length around a block, word or batch boundary, signatures and boxes are
made and then altered in every field. Most of these modules are algorithms as
operators; the properties compare the code's form (fused tables, partial-block
buffers, Montgomery ladder, word-wise products, Fermat chains, three rows of an
edit distance) with the plain definition. The S-boxes are the source's bytes.
Strumok's ten tables are given by the linear maps the repository's own tests
compare them with; the run checks them against words copied from the source, at
0, 255 and every power of two, and that the two multiplication tables undo each
other.

## What TLC checks

| run | states | what it shows |
|---|---|---|
| `SecretStreamChannel` | 13,469 | two streams, two keys, a puller that may hold the wrong key or header: only the stream's own chunks are accepted, in order (`AcceptedIsPrefix`); a finished puller has everything (`FinalMeansComplete`); no (subkey, IV) is used twice up to the counter's limit (`NoIvReuse`); after any number of refused chunks the next genuine one is still accepted (`Resumable`) |
| `StreamFileReader` | 85,916 | a file cut, spliced or changed in one field: reading it implements `Delivery` (`Delivers`), succeeds only on what was sealed (`OpensOnlySealedFiles`), and always succeeds on an undamaged file (`IntactFileOpens`) |
| `StreamFileWriter` | 480 | whatever the sizes of the reads, the output is what `seal_all` makes of the bytes read (`WritesSealedFile`), and the loop ends, with the file written or an I/O error, or by a panic if the input grew (`Completes`); the `unreachable!` arm needs an input that grew (`PanicsOnlyIfInputGrew`) |
| `StreamFileWriterGrowing` | violation | an input that grows does reach that arm |
| `OutputFile` | 393,734 | one command, one or three outputs, both platforms, every call failing, an interruption anywhere, or two commands without `--force` on one path: nothing but a file whose removal was refused is left by a failure (`FailedLeavesNothing`) or, on Unix and outside the windows listed under Limits of the code, an interruption (`InterruptLeavesNothing`), success means written (`SuccessMeansWritten`), a finished file is never deleted or replaced (`FinishedFileKept`), every command ends (`EveryCommandEnds`) |
| `OutputFileFailedOutput` | violation | three outputs are not committed together |
| `OutputFileForce` | violation | a command without `--force` replaces what one with `--force` finished meanwhile |
| `StreamCommand` | 141,537 | an error after stdout got something says so, and success means all of it (`StdoutReported`); the terminal echoes again (`EchoRestored`); `precheck` refuses what `create` would (`PromptNotWasted`); an intact input is never called rejected and a damaged one never accepted (`ExitCodeTells`); the command ends, and a Ctrl-C at the prompt always ends it without an output (`CommandEnds`) |
| `CApiHandles` | 13,395 | no call forms overlapping slices or panics (`CallsSafe`); what opens is what was sealed for that key (`OpensOnlyItsOwn`); whatever calls came between, pull gives what was pushed, a sealed stream opens, a hasher digests what it was fed once, a failed decryptor keeps its reason (`HandlesDeliver`); a call refused for its arguments changes nothing (`RefusedCallKeepsHandle`) |
| `Primitives` | 5,230 | any split of a stream gives the standard's result (`AnySplit`); what is encrypted, sealed or wrapped comes back, at exactly the lengths each accepts (`Inverts`), and nothing altered does (`NothingElseOpens`); fast forms equal plain ones and give the test vectors and the words of Strumok's tables (`FastIsPlain`); limb arithmetic is exact (`ArithmeticExact`); DSTU 4145 verifies exactly the signatures (`SignaturesExact`); DSTU 9041 opens to its key only, and refuses what is not a formatted message up to the bits named under Limits of the code (`BoxesExact`) |
| `Commands` | 30,164 | what one command writes its counterpart takes back and nothing else (`CounterpartsAgree`); an existing file survives without `--force`, a typed key always (`FilesKept`); exit codes 2 and 3 never depend on the data, and an input that is too long for its mode is code 1 (`BlameIsRight`); the order of the flags does not matter, nor their form, except that a value starting with `--` has to be given with `=`, and a flag whose value was forgotten is refused with nothing written (`FlagOrderIrrelevant`) |
| `BindingStream` | 582,621 | through any binding, over failing sinks and sources: only a completed stream reads to its end, and it gives the bytes of the writes that succeeded (`OpensOnlyWhatWasCompleted`); a completed one is what `seal_all` makes of them and every reader takes it (`CompletedIsReadable`) |

Every property of a passing run has a mutant in `PROJECT.json`: a plausible bug
in one definition, written next to it in the module, that violates the property.
The properties of `Primitives` and `CApiHandles` are conjunctions of named
parts, one per kind of algorithm or handle; each part has a mutant of its own.

### Bounds

- `CounterMax` = 2 lets a stream reach the limit, with a rekey on the way
  (the counter goes on counting over it). The theorems below remove this bound.
- One puller is enough: pullers share nothing but the chunks.
- The reader's files have 0, 1 and 2 records in chunks of 2 bytes, so a record
  can be empty, short or full, and be the last or not; one edit (`MaxDamage`)
  is any one cut, insertion or change of a field.
- The writer's inputs, 0 to 7 bytes in chunks of 3, lie on both sides of the
  first two boundaries; it only ever looks one chunk ahead. `MaxGrow` bounds
  the bytes appended.
- Three outputs are the most a command has; `SLOTS` is the code's 8 (2 in
  `OutputFileForce`, what one output takes).
- In `StreamCommand` a message has 0 to 2 pieces, so that one can be printed
  while another is held or still unread; `MaxTouched` = 1, because only
  whether `--out` changed since `precheck` matters to the properties. The
  theorems remove `MaxTouched` and the choice of command lines.
- In `CApiHandles` an address is below `ADDR_MAX` = 40, buffers start at null,
  at the input, one behind it or apart from it, and have the lengths the checks
  tell apart; `USIZE_MAX` = 40 lets `checked_add` overflow. `MaxChunk` and
  `MaxFed` bound what a handle is given.
- `Primitives`' lengths lie on both sides of every block (16 to 64 bytes),
  word and batch boundary and of each padding's second block; an
  object gets up to 3 calls. CCM's 255 bytes and the key wraps' 20 blocks are
  reached and passed by one. The binary
  fields have 11 and 9 bits, the prime fields 10, 12 and 14; the curves over
  them have prime-order subgroups with cofactor 2 or 4, as in the standards.
- In `Commands` a file is empty, short, of a whole number of blocks, of the
  longest length its mode takes, or longer.
- A session of `Commands` has up to 3 commands over four paths, a link and a
  new one; three is what it takes to make a key, use it, and take back or spoil
  the result. `FirstId` only keeps the ids of fresh keys apart.
- In `BindingStream` chunks have 2 bytes, writes 1 or 3 and read buffers 1 or 3,
  so that a write seals none or one record, or two with what was buffered; 3
  writes, 2 finishing calls, 1 fault. Each binding writes for its neighbour in
  a ring of all eight; a writer never learns who reads.

### Fairness

Weak fairness of the program's own steps only: the process is scheduled, so a
step it can take is taken (`FeedCall \/ FinishCall`, `Loop`, each process'
steps and its handler's, `CommandStep`). Reads return something or the end of
the input, and the user answers the prompt, with anything. Nothing is assumed
of the environment: no input must grow, no signal must come, no damage must
happen. `Delivery` promises that a reading ends, by completion or refusal.
`CApiHandles`, `Primitives`, `Commands` and `BindingStream` are programs that
call the code; they may stop at any time and assume no fairness.

## What is proved

### SecretStreamChannelProofs

The five properties of `SecretStreamChannel` for every set of streams, keys,
headers, pullers and plaintexts, every counter limit and every number of steps.
Assumptions: `CounterMax` is a positive natural number
(`CounterMaxAssumption`), and every stream's own header is a header and
plaintexts are byte sequences (`ChannelAssumption`). The headers of two streams
differ: a stream *is* its header, which `PushState::init` draws at random.

The properties are not inductive. Why a puller accepts only the right chunk
depends on two facts about all chunks ever made: what a state's subkey and
counter are after n chunks, and that a chunk's tag records the position where
it was made. The invariant is
`IInv == TypeOK /\ PushInv /\ PullInv /\ AcceptedIsPrefix`:

- `PushInv`: a pusher's state *follows* the chunks it sent (its counter is
  their number, its subkey the one after all their rekeys),
  each chunk was made in the state that follows the ones before it, and only
  the last can be Final;
- `PullInv`: a puller's state follows the chunks it accepted.

`SubkeyAfterAppend` and `FollowsAppend` carry "follows" over one more chunk;
`AcceptedChunk` is the heart: a chunk that verifies was pushed on the puller's
own stream, at exactly the puller's position, with this tag and ciphertext.
`PushIInv` and `PullIInv` then treat one action each, and `NextIInv` joins
them. `NoIvReuse`, `FinalMeansComplete` and `Resumable` follow from `IInv`.

### StreamCommandProofs

The four safety properties of `StreamCommand`, for every set of command lines
and messages of any number of pieces, and any number of changes by other
processes at `--out`. The four have little in common, so each has an invariant
of its own:

- `StdoutInv` counts: while there is no error every piece is unread, held or
  printed, and `written` was set before anything was printed or held;
- `EchoInv`: echo is off and SIGINT ignored only between the prompt's own steps;
- `PromptInv`: what `precheck` saw is still there, unless touched since, and
  `CreateRefusal` and `PrecheckRefusal` are the same function (`SameRefusals`);
- `TellsInv`: an error at each step is one that this credential and this input
  can give at that step.

### StreamFileProofs, StreamFileWriterProofs

`StreamFileProofs` holds what the models of stream files share: induction over
the natural numbers stated with a set (`NatSetInduction`, from the
well-foundedness of `<`), the existence of the concatenation of n records
(`ConcatenationExists`), what the push state is after n chunks (`PushedIs`),
and the arithmetic of cutting a message into chunks.

`StreamFileWriterProofs` shows that `write_stream_records`, with its two buffers
and short reads, writes what `seal_all` writes, for every input, chunk size and
sequence of read sizes (`WriterMatchesSealAll`), and that the `unreachable!` arm
needs an input that grew (`NoPanicOnFixedInput`). `WriterInv` says that the file
so far is the sealing of the full chunks before the buffers, that `cur` is never
empty once a chunk was sealed, and that a short `cur` while `next` is being
filled means the end of the input, unless it grew.

### StreamFileReaderLemmas, StreamFileReaderProofs

After any number of cuts, splices and changes of fields, of any sealed files
with chunks of any size: what `open_all`'s loop opens reads, field for field, as
a file that `seal_all` made (`OpenedFilesWereSealed`), and every step is a step
or a stutter of `Delivery` (`ReaderImplementsDelivery`, its safety part). Two
facts carry the argument. `Cells` bounds what a damaged file can hold: any value
in a plain field, but only the auth tags that were made (`DamageStep`). From
that, `AcceptedBody` shows that a record body that `pull` accepts is record
number `counter` of the stream whose header was read. `ReaderInv` says, for each
of the decryptor's states, which prefix of which sealed file was read so far and
how much of its plaintext is out; the Final record's is held until the end.

### OutputFileLemmas, OutputFileProofs

For any number of processes and paths, every kind of command (with one or three
outputs), and every call failing or not: a failed command leaves nothing but
what it could not remove (`FailedCommandsCleanUp`); on Unix neither does an
interrupted one outside the windows listed below
(`InterruptedCommandsCleanUp`). Both follow from `OutputInv`, which relates, for
each process, the places where an output is known (`OutputInvariant`):

- `PhaseInv`: which values exist at each `pc`, and which is being worked on;
- `TmpInv`, `PlaceholderInv`: a temp file or placeholder on disk belongs to an
  existing value with its flag set, and is registered outside two windows, or
  its removal was refused;
- `HoldInv`: the command holds the mask or lock exactly around the rename, the
  handler while it walks the table;
- `TableInv`: every entry of the table belongs to an existing value, no two
  slots hold the same one, and a slot is always free when one is needed. This
  uses the assumption that twice the number of outputs is at most `SLOTS`;
- `WalkInv`: on Unix the handler has removed what the slots behind it name, or
  was refused.

`SuccessIsWritten` and `FinishedFilesAreKept` are about files that more than one
command may use. They are proved under `Apart`: a command that shares a path
with another has no `--force` and is not interrupted. The run `OutputFileForce`
shows that the first half is needed, and the window in `Drop` listed below that
the second is. `OwnInv` carries them: a placeholder at a reserved path is still
one's own (`ReservedInv`, `KeyInv`), and so is a written file (`WrittenInv`).

### Only model-checked

- Liveness (`IntactFileOpens`, `Completes`, `EveryCommandEnds`, `CommandEnds`
  and the fairness half of `Delivers`): TLAPS does not reason about fairness.
- `CApiHandles`: `OpensOnlyItsOwn` is about the finite set of sealed values of
  the instance; the other properties call `open_all`'s recursion.
- `Commands` and `BindingStream`: their operators over argument lists, sessions
  and buffers are recursive, and TLAPS loses its arithmetic prover in a module
  that reaches a recursive operator.
- `Primitives`: the algorithms are recursive, and their theorems would be those
  of number theory and finite fields.

## Findings

1. `write_stream_records` panics in an arm marked `unreachable!` if the input
   grows after a read returned 0 (`lib.rs:2628`; run `StreamFileWriterGrowing`).
2. `kalyna-ccm` and `kalyna-gcm` encrypt commit three files one by one; a
   failure at the second leaves the first, while `docs/CLI.md:29` says "a
   failed command leaves no output file" (run `OutputFileFailedOutput`).
3. `commit` renames onto whatever is at the path: a command without `--force`
   can replace a file, unlike `docs/CLI.md:21` (run `OutputFileForce`).

## Limits of the code

What the code does not cover, and the properties therefore except or do not
ask. TLC reaches the first six and the SIGTERM case when the exception is
taken out of the property or the processes are combined; the others are read
off the code.

Output files and commands:

- `Drop` and the handlers ignore a `remove_file`, `unlink` or `DeleteFileW` that
  fails (`lib.rs:2186`, `cleanup.rs:194`): the temp file or placeholder stays,
  and nothing is reported.
- A signal between `create_private_new` and `register` (`lib.rs:2105`, `2124`)
  leaves the placeholder or the temp file; the decision log admits it.
- A rename that fails, and a signal before `Drop` (`lib.rs:2147-2160`), leaves
  the placeholder, which is out of the table by then.
- `refuse_key_file` looks before the work (`lib.rs:2036`); as its comment says,
  the file can change before the rename, and `--force` then replaces a key file.
- `Drop` removes the placeholder before its guard leaves the table
  (`lib.rs:2189`): a signal in between lets the handler delete what another
  process has put there since.
- On Windows the handler walks the table once: a path registered in a slot it
  has already passed stays.
- `write_new_key_file` registers nothing: a signal can leave an empty key file.
- A SIGTERM or SIGHUP at the prompt leaves the echo off; only SIGINT is held
  off there (`sigint.rs:38`).
- The commit of a second output onto a directory fails after the first is in
  place (the exception in `FilesKept`; finding 2).
- `sign`, `kupyna-digest`, `strumok-crypt` and the box benchmark with the same
  missing path as `--in` and `--out` reserve a placeholder, read it as an empty
  input and exit 0 (`lib.rs:3673-3705`), where `docs/CLI.md` allows the same
  file "only with `--force`".

Codecs, primitives and the C API:

- DSTU 9041's `parse_m_prime` looks at whole bytes only: at a length that is not
  a multiple of 8 the bits above it in the first byte of the message may be
  anything, while `message.rs:33` and `docs/pseudocode/dstu9041.md:343` speak of
  the padding above `l(M)` bits. `encrypt` does not clear them either, and the
  boxes only use the full length. `ParsedIsFormatted` asks for exactness at
  lengths of whole bytes.
- `dstu_secretbox_seal` and `dstu_stream_encrypt` add the overhead to the length
  without a check (`secretbox.rs:130`, `stream.rs:129`); the input is a slice by
  then, so the sum fits.
- `file.rs:20` says that after any error every later call fails with
  `Finished`; `InvalidLength` is the exception (`file.rs:248`).
- The C API's `last_error` keeps the first error that is not `InvalidLength`,
  also one from a call after a successful end (`secretstream.rs:613-626`).
- `util.rs:45` of the C API says that "Every function taking both an input and
  an output buffer checks" for overlap; `dstu_passphrase_file_seal_stream`
  (`pwhash.rs:262`) does not compare its prefix with the passphrase.

Bindings:

- A pull reader sets `done` before `finish` has succeeded
  (`secretstream.hpp:357`, and alike elsewhere): the read after a reported
  truncation looks like the end of the stream. `OpensOnlyWhatWasCompleted` asks
  only about an end that no reported failure came before.
- A sink that takes a whole record and still reports failure makes a retry
  write it twice, and the reader refuses the stream (`unsure`); PHP's
  `writeAll` is immune.
- PHP's `close` after a failed write still seals Final, contrary to the comment
  at `writeAll`; the gap before it makes the stream unreadable, as it should be.
- Python's writer ignores the short count of a raw `write`.
- In Go and .NET a write shorter than the buffer is accepted after `Close` or
  `Dispose`; no record is sealed for it.

## What is not modelled

`PROJECT.json` lists every part with its status. Left out, and why:

- The random generator and the self-test: an operating-system call, and
  known-answer tests.
- Side channels and memory erasure: TLA+ has no notion of them.
- Text output (help, completions, manual page, wording, progress line): it
  changes no state; the dispatch and argument errors in front of it are modelled.
- The key, signature, hash and secret-box wrappers of the bindings: one call
  each, with argument conversion and no state. In `BindingStream`, checks of
  argument ranges, empty passphrases, zero-length reads and the raw push and
  pull classes.
- The curves over their real fields, and the hardware carry-less
  multiplication: out of TLC's reach; the constants of the real curves are
  covered by known-answer tests only.
- Argon2 (ideal), the `MAX_R` limit of the key wrap and the overflow of
  `checked_bit_len` (inputs too large), short GCM and GMAC tags, and GCM, GMAC
  and XTS over the 256 and 512 bit blocks.
- The console mode of the prompt on Windows, file permissions, build tools and
  the firmware smoke test.
