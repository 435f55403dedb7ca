# snitchit: formal models

snitchit runs a terminal coding agent inside a PTY and records what the user
typed, what was printed, what the agent's tools did and what the kernel saw, in
a hash-chained JSON-lines log. This directory holds TLA+ models of it, TLC
configurations that check them on small instances, and TLAPS proofs. Paths
below are relative to `src/crates`.

## 1. The system

| Component | Code | State | Operations | What makes it correct |
|---|---|---|---|---|
| hash chain | `core/src/chain.rs`, `canon.rs`, `event.rs` | running head | seal, append, verify | verify names the first record out of place; a chain that has the old head is the old chain |
| log store | `core/src/store.rs` | file, advisory lock, cached head | `open`, `append`, `read_values` | one unforked chain whatever processes append and die; what was acknowledged is durable, readable, there once |
| event channel | `core/src/source.rs` | unbounded queue | `emit`, `try_iter` | no event is dropped in silence |
| session recorder | `cli/src/commands/run.rs`, `main.rs` | where `run` is | start collectors, wait, stop, drain, fall back | the agent runs once, exits with its own code, all that must be recorded is |
| PTY collector | `collectors/src/sources/pty` | child, four threads, terminal mode | `start`, `wait`, `stop` | whole transcript, restored terminal, no deadlock of joins |
| Linux kernel collector | `collectors/src/sources/kernel`, `collectors/ebpf` | `TRACKED` map, ring buffer, reader | seed, probes, drain, `stop` | exactly the agent's tree is recorded |
| Endpoint Security collector | `collectors/src/sources/endpoint_security` | tracked set, message queue | `handle`, `stop` | the same, with messages that overtake each other |
| macOS connect poller | `collectors/src/sources/macos_connect` | keys seen, cache of one scan | `poll_loop`, `scan_once` | each connection of the tree once, the last ones too |
| hook ingestion | `cli/src/commands/hook.rs` | none | parse, choose the log, append | never disturbs the agent |
| install, uninstall | `cli/src/commands/install`, `agents/src/*/install.rs` | rc file, `settings.json`, plugin file | one step per destination | what is reported is so; what is the user's stays |
| agent adapters | `agents/src/*/hook.rs`, `agents/src/lib.rs` | none | translate a payload | a tool call is recorded as what it was, with its outcome |
| redaction, event construction | `core/src/redact.rs`, `event.rs` | none | text to record | no secret in a summary, every secret among the findings |
| log, verify, view | `cli/src/commands` | none | find the log, read, sort, render | the right log, in the order of events; verify: see hash chain |

How they interact. `run` opens the store, starts the kernel tier, then the PTY
collector; every collector owns threads that put events into one channel. When
the agent has ended, `run` joins what it can join, then takes what is in the
channel and appends it to the log. Meanwhile each tool call of the agent starts
a `snitchit hook` process, which appends to the *same file* under an advisory
lock. `log`, `verify` and `view` read the file without the lock. The kernel tier
shares nothing with the other collectors but the channel; `install` shares
nothing with a session but the files it prepares.

What is hard here: several processes appending to one file, each of which may be
killed in the middle of a line; six threads whose ends must be joined in one
order; a pump that is detached on purpose; a process tree that changes under
the probes, the message queue and the parent walk; files edited by the user
between commands; reads that split keys, characters and escape sequences
anywhere; agents that run in sessions within sessions. `PROJECT.json` lists each of these hazards at its line.

## 2. Modules

| Module | Models | How |
|---|---|---|
| `HashChain` | seal, `compute_hash`, `verify_values` | a digest is represented by what it commits to, so no two histories share one |
| `ChainVerify` | a log changed behind snitchit's back | append, then change, strip, remove, repeat, swap or reseal records, in any order |
| `ChainLog` | *abstract*: what the log promises | add a whole event at the head, once; then answer Ok |
| `LogStore` | `Store` with each system call of `append` a step | writers between calls may be killed, fail, or lose power; the file is lines of pieces of text |
| `DirectRun` | *abstract*: the agent run without snitchit | start once, exit with a code, return that code |
| `Recorder` | `run`, the PTY and eBPF collectors' threads, the agent, its background processes, hooks | `main` is where `run` is; what is typed, printed and executed is counted |
| `ProcessTree` | the processes of the machine (external) | fork, exit with reparenting, other sessions |
| `KernelScope` | `TRACKED` on Linux, the tracked set on macOS | one action per probe or handled message |
| `ConnectPoll` | the socket poller | a scan is a snapshot, then one system call of a parent walk at a time |
| `KernelTier` | composes the three above | `collector` says which one the platform has |
| `Filter` | `Iterator::filter`, `Vec::retain` (external) | the elements of a sequence that are in a set |
| `RcBlock` | `with_block`, `remove_block` | pure operators on sequences of tokens |
| `Install` | `install`, `uninstall`, `--dry-run`, `--kernel` | one action per destination, with its failure and its write cut short; the user edits in between |
| `Redact` | `redact_text`, `scan` and their kin | a text is a sequence of words; what a pattern matches is a constant |
| `Events` | `build` and its callers, the labels of `log` | extends `Redact`; the hash of a payload is represented by the payload |
| `Terminal` | `sanitize`, the bytes of `pump_stdin`, `emit_line` | folds over bytes with names |
| `KernelEvents` | the slots of an eBPF event and `parse` | extends `Events` and `Terminal` |
| `Adapters` | both hook adapters, `hook::run` up to the event | JSON values with a tag of their kind |
| `Capture` | from what happens to the records: both pumps, the hooks, the kernel's events | composes the five above; a read returns any number of bytes |
| `Sessions` | names and paths of logs, the environment of hooks, `latest_session`, the order of `log` | sessions nest; texts are character codes |
| `MC*` | instances for TLC | constants and symmetry; in `MCCapture` also that the instance meets what the theorems require |
| `LogStore_proofs`, `Recorder_proofs`, `KernelTier_proofs`, `ChainVerify_proofs`, `Sessions_proofs`, `Install_proofs`, `Capture_proofs` | proofs | section 5 |
| `Induction` | proofs | induction in the form the proofs use it, and with it what folds and `Only` compute |

An operator whose comment begins with "Mutant:" is not part of the model. It is
the definition after it with a plausible mistake, and is listed in
`PROJECT.json` with the property that it breaks.

Correspondences that need a word:

* `LogStore.pc` names the last call of `append` that returned. Bytes are pieces:
  an append that died leaves a `cut` piece, or a `split` one if it died within a
  character, after which the file is not UTF-8 and `read_to_string` fails.
* A `Store` of the recorder appends a batch, that of a hook one event
  (`Batch`). A hook that is out of events and one that was killed are the same
  to the others.
* `Recorder` has appends as one step, since `LogStore` has their detail, and the
  drain interleaved with those of hooks. `Faults` names the calls that may fail.
* In `KernelScope` the eBPF probes run inside the fork or exec they observe,
  Endpoint Security messages wait in `messages`. A record keeps whose process it
  was when it executed, which the code does not know and the properties need.
* In `ConnectPoll` the sockets of one scan are a set, as the order of the socket
  table is open. The interval of 100 ms is not represented; a wait ends at any time.
* In `Redact` a word stands for whatever a regular expression matches as a whole:
  `Matches` says which patterns match it, `Random` whether the catch-all does, and
  `Shows` what its sample leaves. A masked word is its sample, and a word cut by
  `Truncate` is one that no pattern matches any more.
* In `Terminal` the bytes `k1` and `k2` are the two parts of a key, so that a read, an
  escape sequence or a Backspace can come between them. `Words` makes them one
  word when they stand side by side, which is when a pattern matches.
* `Capture` puts records in a sequence as they are emitted; the channel and the log
  are those of `Recorder` and `LogStore`. `ReadStdin` counts a chunk as sent when
  it is written; a chunk that the PTY refuses ends the pump (`StdinEnds`), and
  `write_all` may then have passed on a part of it to an agent that is gone.
* In `Sessions` an append is one step. `writes` is the order of appends in all logs;
  `at` is a record's time stamp and `wrote` the time of the write, which is what the
  file system keeps. A path is relative when `XDG_DATA_HOME` is, and `Locate`
  resolves it where a process is.
* In `RcBlock` a newline shows who wrote it; `SameBytes` is how the code sees it.

## 3. Runs

| Run | Shows | Instance |
|---|---|---|
| `log_faults` | links, no false BROKEN, order, durability, nothing rewritten, with every fault at every step | the recorder with 2 events, two hooks |
| `log_clean` | `LogStore` implements `ChainLog`, each event has its line, every append returns, if nobody dies or fails between the first byte of a line and its newline | the same |
| `log_torn` | *violation*: a writer that dies there makes the next, acknowledged event unreadable | two writers |
| `session_faults` | transcript, execs, no gaps, nothing but input dropped, terminal restored, with every call failing | 2 lines, 2 chunks, 2 execs, 1 hook, 1 background process, a ring for 1 event |
| `session_direct` | the session implements `DirectRun` and ends | failing kernel tier, PTY and appends; codes 0 and 7 |
| `session_twice` | *violation*: `start` fails after it spawned the agent, and the fallback starts it again | |
| `tamper` | verify localizes naive edits; a chain with the original head begins with the original | 3 records, 2 contents, 3 edits |
| `capture` | lines are as typed and the transcript as printed, no secret in a summary and all among the findings, records are labelled as what they were, kernel events that fit are recorded | 4 keys, or 3 things printed, or 2 calls and kernel events, or one of each |
| `sessions` | tool calls go to the innermost session's log, sessions do not share logs, readers find the last log and see its events in order | 2 sessions, 2 programs, 3 instants, 1 line typed in each, both kinds of data directory |
| `kernel_tier` | only snitchits' trees are recorded, no exec of the tree is passed over, the last scan finds open connections, each once | 3 processes, map for 4 ids, 3 messages, 1 connection, depth 3 |
| `kernel_sessions` | *violation*: another session's tree is recorded in ours | 3 processes |
| `install` | reports are true, uninstall leaves nothing, the user's text stays, and his hooks that neither look like snitchit's nor share its group | 2 edits, 1 torn write, 2 paths; a command of the user's that contains `snitchit`, and one that also ends in `hook` |

Bounds. Two hooks beside the recorder give three contenders for the lock: one
that holds it, one that waits, and one that died. Two events per source make
order and gaps visible. A ring for one event is full at the second. Three
process ids give a parent that exits, a child that is given to process 1 and
another session; depth 3 then lets the walk end by its limit. With
`MaxTracked = 4`, the root, a namespace-local seed and three children do not
fit. Three records and three edits allow removing, resealing and appending.
Two edits put the user's lines before and behind an install, and put a command into a
group of its own, another one into the same group or both into that of snitchit's. Four keys are
enough for a secret, a character of two bytes or an escape sequence with a
Backspace and an Enter behind it, split at any byte; `Budgets` bounds keys,
output and the rest in turns, since their records are independent. A summary of
2, an input of 4 and a slot of 4 units let each limit fall into a secret, before
it and behind it. Two sessions nest or run side by side; of the instants 1.1 s,
1.15 s and 2 s two are in one second, and the text of one fraction is the beginning of
the other; the two programs' names are the same once they are cleaned. State spaces are
finite because each of these is counted in a guard, and nothing else grows.

Deadlock is checked in the log, session, capture and install runs, where the only end is
the one the module names (`Terminated`); `Install` has none, as a command can always be
given. It is not in `tamper` and `sessions` (the bounds run
out) nor in the kernel runs (all processes may have ended, and ids are used up).

The violations and their documentation are in `PROJECT.json` under `findings`.
What each needs in practice: `log_torn` a hook killed by its 30 s timeout or by
the agent's end; `session_twice` an exhausted file descriptor table;
`kernel_sessions` two terminals.

Other places where the code leaves its comments or README. The properties
named except them, and say what holds of the rest:

* `README.md:11` says that the agent still runs if recording fails. When the log's directory
  cannot be made, or the log not be opened, `run` returns before the agent is
  started; `ImplementsDirectRun` leaves these failures out, and shows nothing of them.
* `install/mod.rs:19` says that `uninstall` removes exactly what `install` added, and
  `claude/install.rs:61` that `is_snitchit_group` finds groups that snitchit added. It finds
  any group with a command that contains `snitchit` and ends in `hook`. A
  command of the user's such as `/home/u/snitchit-extras/post-hook` is deleted with its
  group, by `install` as well, and so is a command that the user has put into the group of
  snitchit's. `LeavesUserHooks` excepts groups with a command of both kinds (`Unlike`).
* `core/src/source.rs:20` says that a dropped event is logged. A line typed at the agent's last
  moment, which the stdin pump emits after the drain, is dropped without a word
  (`OnlyInputDropped` says that nothing else is).
* `install/mod.rs:235` says that all but the block and its separator is left
  unchanged. In a file that install created, the newline of a line that the user
  puts above the block is taken for the separator (`Sides <- AtBothEnds` in
  `MCInstall` shows it; the run `install` has text behind the block only, and so says
  nothing of this hazard). Where the user himself wrote no newline between two texts,
  install's separator having been the only one, `uninstall` joins them on one line.
* `log.rs:36` says that lexicographic order is chronological. Fractions have no
  trailing zeros, so `.15Z` sorts before `.1Z` (`TimelineNearlyChronological`).
* `kernel/mod.rs:249` says that slots are read as lossy UTF-8. A slot that is not
  UTF-8, as when a character was cut, is read as empty, and an exec without a
  program is dropped (`KernelComplete`).
* `claude/hook.rs:55` says that an input summary never has file contents. For a tool it
  does not know, or an empty path, it is a dump of all arguments; redaction and
  both limits apply to it. What `bounded_summary` cuts off in the middle of a
  secret is shown as it is (`NothingSecretStored`).
* An exit code of a hook that does not fit an i32 counts as success
  (`ShownAsHappened`).
* Backspace takes a byte, not a character (`LinesAsTyped`). An OSC sequence that is ended
  by `ESC \` instead of BEL swallows the text up to the next BEL; the instance has
  no such sequence.
* With a relative `XDG_DATA_HOME`, the hooks of an agent that has changed its
  directory write to another file (`HookInInnermost`).
* An agent killed by a signal is reported as exit code 1 ("exits as claude would");
  `session_direct` leaves it out.

## 4. Fairness

`LogStore` (for `AppendReturns`): each writer that can take its next step takes
it. Writers are processes of their own, and a lock is freed by its holder's
steps or by its death. Nothing is assumed about who of several waiters gets the
lock; it suffices that the batches are finite.

`Recorder` (for `SessionEnds`): main, the output pump, the resize watcher, the
reader and the line emitter are threads that the system schedules; the agent and
the processes it leaves behind end at some time. The last is an assumption
about them: snitchit really does not return before a background process that
holds the PTY has ended. The user need not type.

`KernelTier`, `Install`, `ChainVerify`, `Capture` and `Sessions` have safety properties only.

## 5. Proofs

Each theorem holds for every value of the constants that the assumptions of its
module allow, and those say what the program's types say (batches and bounds are
numbers, an exit code is a number, `Nobody` is no writer, a map has room for an id).
Assumptions beyond these are part of the theorem and named below.

**`LogStore_proofs`**, for any writers, batches and faults:

* `TypeSafety`, `LockExclusion` (no two writers are between lock and unlock).
* `LinkSafety`: `Spec => []LinkDiscipline`; `NoFalseBreakSafety`: `Spec => []NoFalseBreak`.
* `DurableSafety`: `Spec => []AckedDurable`, also if power is lost.

`LinkDiscipline` is not inductive: it needs that the head a writer has read is
still the file's when it writes. So `IInv` adds that the lock is held by exactly
the writer that is between lock and unlock (`LockInv`), that what was read under
the lock is what the file ends in (`HeadInv`), that the last piece of the file is
the one being written (`WriteInv`), that a writer in `append` has an event
(`BatchInv`), and that the disk holds a linked prefix of the file (`DiskInv`),
for power loss. `AckedDurable` needs in addition where the event of a writer is
while its append is under way (`PlaceInv`: in the tail, on a line, on the disk).
On top of it:

* `OrderSafety`: `Spec => []InOrderOnce`. The events in the file are ones that their
  writer has come to, so the one it begins to write is new (`TextInv`, kept for
  the disk too, since a power loss brings that back).
* `TextStaysSafety`: the action property `NeverRewrites`.
* `OneRecordSafety` (`OneRecordPerLine`) and `AtomicLog` (`ImplementsChainLog`): if
  nobody dies or fails between the first byte of a line and its newline
  (`NoTornLine`, which `log_clean` instantiates and `log_torn` shows to be needed), the
  log implements `ChainLog` step by step: writing the newline is the abstract append,
  `fsync` the answer, everything else a stutter (`WholeInv`).

**`Recorder_proofs`**, for any exit codes, ring, bounds and faults:

* `TypeSafety`, and from where main is which threads exist, which are joined and what
  the agent does (`StageInv`): `TerminalSafety` (`TerminalRestored`).
* `OnlyInputSafety`, `TranscriptSafety`, `ExecsSafety`: what happened is in the ring, in the
  channel, accounted for or missed (`SentInv`), and after `stop` the ring is empty and
  its reader gone.
* `NoGapsSafety`: what is further on its way happened earlier (`OrderInv`: one order
  through ring, channel and log for each source).
* `OnceSafety`: if the PTY's handles never fail after the spawn, the agent is started
  once. This is the other half of `session_twice`: that failure is the only one.
* `DirectSafety`: the safety part of `ImplementsDirectRun`, for the faults of
  `session_direct` (kernel tier, PTY, appends) and exit codes that are no signal.

**`KernelTier_proofs`**, for any number of processes and connections, any queue and depth:

* `TypeSafety`; `OnceSafety` (`OncePerConnection`): a key is in `seen` as soon as a
  connection was emitted.
* `OnlyTreesSafety`, `EveryExecSafety`, `FinalScanSafety`, if ids are not reused
  (`ReusePids = FALSE`, see section 6); the first also if the seeded id is no other
  process's. There is a set of ids that were ever in the tree, settled when they were
  forked; whatever is tracked, queued or found out by a walk agrees with it, however
  late (`OursInv`). For the last scan: a path of parents that leads to snitchit now was
  there as long as its process has been (`PathWas`), so a walk that began on
  it is on it still (`WalkInv`), and who was found to be out has none (`OutInv`);
  children have their connections from their parents, so a connection that is
  not recorded yet has a holder the scan must still look at (`HoldInv`).

**`ChainVerify_proofs`**, for any contents, records and edits:

* `EvidentSafety` (`EvidentToHead`): in a chain that verifies a hash commits to all
  before it, so two chains that meet in a hash are one up to it (`OneHistory`).
* `LocalizesSafety` (`Localizes`): until something is sealed anew every record has the
  links of a record of the original or none (`TakenInv`); a hash tells a record's
  place (`ChainLength`), so the first record that differs fails (`FirstFails`).

Both rest on the model of SHA-256 as injective (section 6).

**`Sessions_proofs`**, for any programs, directories and bounds:

* `TypeSafety`; `HooksFollowSession` (`HookInInnermost`): the environment of a session's
  agent is the one its own recorder has set (`EnvInv`), and a record's origin is a
  session that exists (`OriginInv`).
* `LatestSafety` (`LatestIsLastWritten`): the last record bears the present
  reading of the clock, which does not go back (`TimeInv`).
* `ApartSafety` (`SessionsApart`): the digits of a time tell it, the dash shows
  where they end, and cleaning a name that begins with a digit only cuts its end off
  and replaces characters (`NamedInv`, `CleanIsBeginning`).
* `TimelineSafety` (`TimelineNearlyChronological`): the texts of two times stand in the
  order of the times unless one fraction begins the other.

`SessionAssumption` has instants below ten seconds, in hundredths: what
comes before the fraction of a real time stamp has a fixed width, which one digit
stands for.

**`Install_proofs`**, for any texts of the user's, paths, edits and writes cut short:

* `RemovesTheBlock` (in a file without a start mark of its own the block and its
  separator go, whatever the user has put behind them), `RoundTrip` (uninstall
  undoes install exactly), `InstallTwice` (install is idempotent).
* `TypeSafety`, with it that a command reports on no destination twice: what is
  still to be done was not done before (`Schedule`).
* `InstallSafety` (`InstallDelivers`), `UninstallSafety` (`UninstallDelivers`): the rc
  file has at most one end mark, the start mark is two places before it, and
  behind it is install's newline and then only the user's (`Sound`), wherever a write
  was cut and a line added. So `remove_block` takes all that ends in the
  end mark, and the block written next is the only one. Start marks without an end
  mark come from torn writes only (`Whole`), and each has install's newline
  before it or is the first (`Apart`). What a command has reported stays so while
  it goes on and the user edits the files (`Delivered`).
* `TextSafety` (`LeavesUserText`), if the user adds lines at the end of the file
  only (`Sides \subseteq {"end"}`): with `"top"` it is false, see section 3.
* `HooksSafety` (`LeavesUserHooks`): groups of the user's stay if none of their commands both
  contains `snitchit` and ends in `hook`, whatever other commands there are. That
  is the test of `is_snitchit_group`; without the exception the claim is false of the
  code, see section 3.

The commands that contain `snitchit` (`NamesSnitchit`) and those that end in `hook`
(`EndsInHook`) are any sets. `InstallAssumption` says that the commands `install` writes are in
both, that the user has none of just these, and that a path is none of the names the model has
for a plugin file without one. So it excludes a binary that is renamed to a path
without `snitchit`, whose hook is not recognized and is wired again at each install.

**`Capture_proofs`**, for any texts, patterns, limits, agents and bounds, and any reads:

* `TypeSafety`: a record is one that `build` has made from a text of plain words, and of
  what it was made is known (`TypeInv`, with `Made`). What holds of the properties of
  one record is then a lemma about `build`: `SecretsHidden` (`NothingSecretStored`),
  `SecretsReported` (`EverySecretReported`), `ShownSafety` (`ShownAsHappened`).
* `TranscriptSafety` (`TranscriptAsPrinted`): what was printed is the transcript and what
  is still to be read (`OutputInv`); text that begins with a character of its own
  is decoded and sanitized by itself, so the whole shows what its parts show.
* `KernelSafety` (`KernelComplete`): what was observed is recorded if it can be
  (`KernelInv`); a slot holds a beginning of the path, and each later step keeps one.
* `LinesSafety` (`LinesAsTyped`): some bytes have been read, and the lines on record and
  the one begun are what the pump makes of them all at once (`KeysInv`). Key by key
  the line of bytes and the line on the screen are alike (`Line`: a byte for a
  character where `Exact` has a mark, whole characters elsewhere), so each line is
  cleaned to what one sees (`KeysAgree`).

Their hypotheses, each of which the run's instance meets (`InstanceAssumption` in
`MCCapture`): what is printed or typed at once begins and ends between two characters
and outside escape sequences (`Whole`; an unfinished one swallows what follows), a
key is Enter, Backspace, or has none of their bytes (`Legible`; a paste of several
lines is several keys), a payload has its exit code in the field the adapter reads
(`TellsItsCode`; else the adapter takes 0), a path does not end in a blank
(`Unblanked`; `clean_line` trims it), and the agent is not called
`terminal-input`, which `log` would take for a line. `CaptureAssumption` says
what is a byte, a word, a status and a JSON value.

How induction is done. The library's induction theorems take an operator, which the
provers cannot instantiate. `Induction` has them for sets: a set of naturals has a
least element (`Least`), a set with 0 and with each successor has all numbers to n
(`UpTo`), one with the empty sequence that is closed under `Append` has all
(`ByAppend`). A fold takes an operator too: the definition of `FoldLeft` is expanded, and
is shown to be a run (`RunOf`), whose operator is a function; of runs it is proved
what they do at an end and over a concatenation (`RunAppend`, `RunConcat`). For
the same reason `Only` filters by a set. A function along a path is shown to exist by
a least counterexample (`UpExists` in `KernelTier_proofs`).

Only model-checked:

* Liveness: `AppendReturns`, `SessionEnds`, and what `ImplementsDirectRun` says of
  fairness. The prover used has none of it.
* The three violations, which are runs by nature.

## 6. Not modelled

* What a regular expression matches: `Matches` and `Random` are constants, and so
  is what a sample shows. A pattern that matches across words, or matches
  another pattern's sample, is not represented.
* The bytes of the canonical form: `HashChain` takes SHA-256 over it as injective.
* The parent directory of a new log, which is never synced: `LogStore` takes `sync_all` of the
  file as enough for its name as well, and `AckedDurable` rests on that.
* Messages that the system drops when the queue of an Endpoint Security client is full;
  in `KernelScope` forks and execs wait until there is room.
* `action.tool`, which `build` stores as it is given: `NothingSecretStored` speaks of summaries.
* Resize events, search of `PATH`, permissions of directories and files.
* What a killed recorder has buffered is lost, and the terminal stays raw
  (`Sessions` has the kill, and the agent that survives it).
* Reuse of process ids: with `ReusePids = TRUE`, `OnlyRecordedTrees` fails, as
  nothing is ever taken out of `TRACKED`. It takes a wrapped id counter.
* A session inside a pid namespace whose local id is that of a host process: the
  seed then tracks that process. `SeedPid` among `Pids` shows it.
* `execveat`, to which no probe is attached. Connect events pass the same gate as
  execs, so `KernelTier` has execs only; `KernelEvents` has both.
* `install` reads and writes a file in one step; an editor that saves in between
  loses its text or install's. A marker that is itself cut in two is plain text,
  and the user's texts quote no marker.
  A `"hooks"` member that is no object is left as it is.
* A clock that is set back: record times and file times would then disagree.
* Selection of a session by name (a name that ends in `.jsonl` is taken for a
  path), the layout of `log`, the page of `view`.
* `shell_command` and the examples, which no collector uses.

## 7. Plan

Done: the log, the session, verification, the kernel tier, install, capture,
redaction, adapters, which log is written and found; and every invariant and action property
that a passing run checks is proved. What is left:

1. `KernelTier` with the ring buffer of `Recorder` in one model.
2. The liveness properties, should a prover for fairness be at hand.
