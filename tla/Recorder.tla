------------------------------- MODULE Recorder -------------------------------
(***************************************************************************)
(* One recording session: `snitchit -- agent` (cli/src/commands/run.rs)    *)
(* with its PTY collector (collectors/src/sources/pty/mod.rs) and the      *)
(* Linux kernel collector (collectors/src/sources/kernel/mod.rs).          *)
(*                                                                         *)
(* Six threads of control: the main thread, which starts the others, waits *)
(* for the agent, joins what it can join and then drains the event channel *)
(* into the log; the detached stdin pump; the output pump; the resize      *)
(* watcher, which owns the PTY master; the kernel reader; and the agent    *)
(* with the processes it leaves in the background.  Hooks of the agent     *)
(* append to the same log meanwhile (LogStore has the detail of that).     *)
(*                                                                         *)
(* What is typed, printed and executed is counted, not represented: the    *)
(* n-th input line, output chunk or exec is the number n.                  *)
(***************************************************************************)
EXTENDS Naturals, Sequences

CONSTANTS
    Codes,          \* exit codes of the agent; Signal may be among them
    Signal,         \* the agent was killed by a signal
    NoCode,         \* there is no exit code yet
    MaxLines,       \* input lines the user types
    MaxOutput,      \* chunks the agent's terminal prints
    MaxExecs,       \* programs the agent's tree executes
    MaxBackground,  \* processes the agent leaves behind on the terminal
    MaxHooks,       \* tool calls of the agent that a hook records
    RingSize,       \* room in the eBPF ring buffer, in events
    Faults          \* which calls may fail

FaultKinds == {"store", "kernel", "notfound", "pty", "handles", "exec",
               "wait", "append"}

ASSUME CodeAssumption ==
    /\ Signal # NoCode /\ NoCode \notin Codes
    /\ Codes \ {Signal} \subseteq Nat

ASSUME BoundAssumption ==
    /\ {MaxLines, MaxOutput, MaxExecs, MaxBackground, MaxHooks, RingSize} \subseteq Nat
    /\ Faults \subseteq FaultKinds

VARIABLES
    main,           \* where the main thread is in run()
    result,         \* what run() has returned: a code, or NoCode for an error
    agent, code,    \* the agent in the PTY, and its exit code
    direct,         \* the agent run without recording by fallback_exec
    background,     \* processes of the agent's that outlive it, with the PTY open
    written,        \* chunks printed to the PTY
    transcript,     \* chunks the output pump has read
    pump,           \* the output pump
    watcher,        \* the resize watcher
    stdin,          \* the stdin pump
    typed,          \* lines it has forwarded to the PTY
    held,           \* it has forwarded the beginning of another line
    raw,            \* the terminal is in raw mode
    kernel,         \* the kernel reader
    execs,          \* exec events the probes have seen
    ring, missed,   \* those in the ring buffer, and those that found it full
    stream,         \* the event channel
    log,            \* the records of the session's log
    lost,           \* the events whose append failed and was reported
    hooks,          \* tool calls so far
    exited          \* what there was to record when the agent exited

agentVars  == <<agent, code, direct, background, exited>>
ptyVars    == <<written, transcript, pump, watcher>>
stdinVars  == <<stdin, typed, held>>
kernelVars == <<kernel, execs, ring, missed>>
logVars    == <<stream, log, lost, hooks>>

vars == <<main, result, raw, agentVars, ptyVars, stdinVars, kernelVars, logVars>>

Phases == {"open", "kernel", "resolve", "spawn", "handles", "wait", "shutdown",
           "join", "emit", "stop", "unhook", "drain", "return", "fallback", "returned"}

Event(src, n) == [src |-> src, n |-> n]

\* A code as wait() and fallback_exec report it: 1 for a death by signal.
ExitCode(c) == IF c = Signal THEN 1 ELSE c

RunEvent(c, chunks) == [src |-> "run", n |-> 1, code |-> c, chunks |-> chunks]

\* Threads go with the process, at the end of main.
Alive == main # "returned"

\* Some process of the agent's tree can run.
TreeAlive == agent = "running" \/ direct = "running" \/ background > 0

Init ==
    /\ main = "open" /\ result = NoCode /\ raw = FALSE
    /\ agent = "none" /\ code = NoCode /\ direct = "none" /\ background = 0
    /\ exited = [chunks |-> 0, execs |-> 0]
    /\ written = 0 /\ transcript = 0 /\ pump = "none" /\ watcher = "none"
    /\ stdin = "none" /\ typed = 0 /\ held = FALSE
    /\ kernel = "none" /\ execs = 0 /\ ring = <<>> /\ missed = {}
    /\ stream = <<>> /\ log = <<>> /\ lost = {} /\ hooks = 0

Fails(kind) == kind \in Faults

\* EventSink::emit: into the channel, which is unbounded.
Emit(e) == stream' = Append(stream, e)

\* KernelCollector::start: seed, attach, probe, and start the reader; or fail.
KernelStart == {"reading"} \cup (IF Fails("kernel") THEN {"none"} ELSE {})

\* KernelCollector::stop tells the reader to stop.
KernelStop == IF kernel = "reading" THEN "told" ELSE kernel

-----------------------------------------------------------------------------
(* The main thread: run().                                                  *)

\* An error return: nothing was started, and snitchit exits with 1.
GiveUp ==
    /\ main' = "returned"
    /\ result' = 1
    /\ UNCHANGED <<raw, agentVars, ptyVars, stdinVars, kernelVars, logVars>>

OpenStore ==
    /\ main = "open"
    /\ main' = "kernel"
    /\ UNCHANGED <<result, raw, agentVars, ptyVars, stdinVars, kernelVars, logVars>>

OpenStoreFails == main = "open" /\ Fails("store") /\ GiveUp

\* The kernel collector is best effort: without it the session goes on.
StartKernel ==
    /\ main = "kernel"
    /\ main' = "resolve"
    /\ kernel' \in KernelStart
    /\ UNCHANGED <<result, raw, agentVars, ptyVars, stdinVars, execs, ring, missed, logVars>>

\* PtyCollector::new finds the program.
Resolve ==
    /\ main = "resolve"
    /\ main' = "spawn"
    /\ UNCHANGED <<result, raw, agentVars, ptyVars, stdinVars, kernelVars, logVars>>

ResolveFails == main = "resolve" /\ Fails("notfound") /\ GiveUp

\* PtyCollector::start: openpty and spawn_command.
Spawn ==
    /\ main = "spawn"
    /\ main' = "handles"
    /\ agent' = "running"
    /\ UNCHANGED <<result, raw, code, direct, background, exited,
                   ptyVars, stdinVars, kernelVars, logVars>>

\* start returned an error: run the program directly, without recording.
FallBack ==
    \/ /\ main' = "fallback"
       /\ direct' = "running"
       /\ UNCHANGED <<result, raw, agent, code, background, exited,
                      ptyVars, stdinVars, kernelVars, logVars>>
    \/ Fails("exec") /\ GiveUp

\* Mutant: no PTY, no agent.
SpawnFailsGivesUp == main = "spawn" /\ Fails("pty") /\ GiveUp

SpawnFails == main = "spawn" /\ Fails("pty") /\ FallBack

\* start: take_writer and try_clone_reader, raw mode if there is a terminal,
\* then the threads.
StartThreads ==
    /\ main = "handles"
    /\ main' = "wait"
    /\ raw' \in BOOLEAN
    /\ stdin' = "reading" /\ pump' = "reading" /\ watcher' = "watching"
    /\ UNCHANGED <<result, agentVars, written, transcript, typed, held, kernelVars, logVars>>

HandlesFail == main = "handles" /\ Fails("handles") /\ FallBack

\* Mutant: the resize watcher is not told.
WaitChildOnly ==
    /\ main = "wait"
    /\ agent = "exited"
    /\ main' = "shutdown"
    /\ UNCHANGED <<result, raw, agentVars, ptyVars, stdinVars, kernelVars, logVars>>

\* wait: the child is reaped; the resize watcher is told to drop the master.
WaitChild ==
    /\ main = "wait"
    /\ agent = "exited"
    /\ main' = "shutdown"
    /\ watcher' = "told"
    /\ UNCHANGED <<result, raw, agentVars, written, transcript, pump,
                   stdinVars, kernelVars, logVars>>

\* child.wait returns an error: wait() returns it at once, and code is 1.
WaitFails ==
    /\ main = "wait"
    /\ Fails("wait")
    /\ main' = "stop"
    /\ result' = 1
    /\ UNCHANGED <<raw, agentVars, ptyVars, stdinVars, kernelVars, logVars>>

JoinWatcher ==
    /\ main = "shutdown"
    /\ watcher = "done"
    /\ main' = "join"
    /\ UNCHANGED <<result, raw, agentVars, ptyVars, stdinVars, kernelVars, logVars>>

\* Mutant: the output pump is not joined.
JoinNothing ==
    /\ main = "join"
    /\ main' = "emit"
    /\ UNCHANGED <<result, raw, agentVars, ptyVars, stdinVars, kernelVars, logVars>>

JoinPump ==
    /\ main = "join"
    /\ pump = "done"
    /\ main' = "emit"
    /\ UNCHANGED <<result, raw, agentVars, ptyVars, stdinVars, kernelVars, logVars>>

\* wait: restore the terminal and emit the process_run event.
EmitRun ==
    /\ main = "emit"
    /\ main' = "stop"
    /\ raw' = FALSE
    /\ result' = ExitCode(code)
    /\ Emit(RunEvent(ExitCode(code), transcript))
    /\ UNCHANGED <<agentVars, ptyVars, stdinVars, kernelVars, log, lost, hooks>>

\* Mutant: stop leaves the terminal to wait().
StopKeepsRaw ==
    /\ main = "stop"
    /\ main' = "unhook"
    /\ kernel' = KernelStop
    /\ UNCHANGED <<result, raw, agentVars, ptyVars, stdinVars, execs, ring, missed, logVars>>

\* PtyCollector::stop: signal the child, should it still run (that it dies of
\* it is AgentExit), and restore the terminal.  Then KernelCollector::stop.
Stop ==
    /\ main = "stop"
    /\ main' = "unhook"
    /\ raw' = FALSE
    /\ kernel' = KernelStop
    /\ UNCHANGED <<result, agentVars, ptyVars, stdinVars, execs, ring, missed, logVars>>

\* Mutant: the reader is told to stop, and not joined.
JoinKernelAtOnce ==
    /\ main = "unhook"
    /\ main' = "drain"
    /\ UNCHANGED <<result, raw, agentVars, ptyVars, stdinVars, kernelVars, logVars>>

JoinKernel ==
    /\ main = "unhook"
    /\ kernel \in {"none", "done"}
    /\ main' = "drain"
    /\ UNCHANGED <<result, raw, agentVars, ptyVars, stdinVars, kernelVars, logVars>>

\* Mutant: the newest event first.
DrainNewest ==
    /\ main = "drain"
    /\ stream # <<>>
    /\ stream' = SubSeq(stream, 1, Len(stream) - 1)
    /\ log' = Append(log, stream[Len(stream)])
    /\ UNCHANGED <<main, result, raw, lost, agentVars, ptyVars, stdinVars, kernelVars, hooks>>

\* try_iter: append one event.  An append that fails is reported on stderr.
Drain ==
    /\ main = "drain"
    /\ stream # <<>>
    /\ stream' = Tail(stream)
    /\ \/ log' = Append(log, Head(stream)) /\ UNCHANGED lost
       \/ Fails("append") /\ lost' = lost \cup {Head(stream)} /\ UNCHANGED log
    /\ UNCHANGED <<main, result, raw, agentVars, ptyVars, stdinVars, kernelVars, hooks>>

\* try_iter finds the channel empty and ends, though the stdin pump has a sink.
DrainEnds ==
    /\ main = "drain"
    /\ stream = <<>>
    /\ main' = "return"
    /\ UNCHANGED <<result, raw, agentVars, ptyVars, stdinVars, kernelVars, logVars>>

Return ==
    /\ main = "return"
    /\ main' = "returned"
    /\ UNCHANGED <<result, raw, agentVars, ptyVars, stdinVars, kernelVars, logVars>>

\* fallback_exec returns: the channel is dropped with what is in it.
FallbackReturns ==
    /\ main = "fallback"
    /\ direct = "exited"
    /\ main' = "returned"
    /\ result' = ExitCode(code)
    /\ UNCHANGED <<raw, agentVars, ptyVars, stdinVars, kernelVars, logVars>>

Main ==
    \/ OpenStore \/ OpenStoreFails \/ StartKernel \/ Resolve \/ ResolveFails
    \/ Spawn \/ SpawnFails \/ StartThreads \/ HandlesFail
    \/ WaitChild \/ WaitFails \/ JoinWatcher \/ JoinPump \/ EmitRun \/ Stop
    \/ JoinKernel \/ Drain \/ DrainEnds \/ Return \/ FallbackReturns

-----------------------------------------------------------------------------
(* The collectors' threads.                                                 *)

\* pump_stdin: a chunk that ends a line is forwarded; its event comes next.
ForwardLine ==
    /\ Alive /\ stdin = "reading" /\ typed < MaxLines
    /\ typed' = typed + 1
    /\ held' = FALSE
    /\ stdin' = "emit"
    /\ UNCHANGED <<main, result, raw, agentVars, ptyVars, kernelVars, logVars>>

\* A chunk without Enter.
ForwardPart ==
    /\ Alive /\ stdin = "reading" /\ typed < MaxLines
    /\ held' = TRUE
    /\ UNCHANGED <<main, result, raw, stdin, typed, agentVars, ptyVars, kernelVars, logVars>>

\* End of input, or the PTY refuses the chunk: what is held is flushed.
StdinEnds ==
    /\ Alive /\ stdin = "reading"
    /\ stdin' = IF held THEN "flush" ELSE "done"
    /\ typed' = IF held THEN typed + 1 ELSE typed
    /\ held' = FALSE
    /\ UNCHANGED <<main, result, raw, agentVars, ptyVars, kernelVars, logVars>>

\* emit_line.
EmitLine ==
    /\ Alive /\ stdin \in {"emit", "flush"}
    /\ Emit(Event("input", typed))
    /\ stdin' = IF stdin = "emit" THEN "reading" ELSE "done"
    /\ UNCHANGED <<main, result, raw, typed, held, agentVars, ptyVars, kernelVars,
                   log, lost, hooks>>

\* pump_output: a chunk to stdout and to the transcript.
ReadChunk ==
    /\ Alive /\ pump = "reading" /\ transcript < written
    /\ transcript' = transcript + 1
    /\ UNCHANGED <<main, result, raw, written, pump, watcher,
                   agentVars, stdinVars, kernelVars, logVars>>

\* End of file: nothing is left to read, and no process has the PTY open.
PumpEnds ==
    /\ Alive /\ pump = "reading" /\ transcript = written
    /\ agent = "exited" /\ background = 0
    /\ pump' = "done"
    /\ UNCHANGED <<main, result, raw, written, transcript, watcher,
                   agentVars, stdinVars, kernelVars, logVars>>

\* watch_resize notices the shutdown, and the master is dropped.
WatcherEnds ==
    /\ Alive /\ watcher = "told"
    /\ watcher' = "done"
    /\ UNCHANGED <<main, result, raw, written, transcript, pump,
                   agentVars, stdinVars, kernelVars, logVars>>

\* read_loop: drain the ring buffer into the channel.
ReadRing ==
    /\ Alive /\ kernel \in {"reading", "told"} /\ ring # <<>>
    /\ Emit(Event("kernel", Head(ring)))
    /\ ring' = Tail(ring)
    /\ UNCHANGED <<main, result, raw, kernel, execs, missed,
                   agentVars, ptyVars, stdinVars, log, lost, hooks>>

\* Mutant: no final drain.
ReaderEndsAtOnce ==
    /\ Alive /\ kernel = "told"
    /\ kernel' = "done"
    /\ UNCHANGED <<main, result, raw, execs, ring, missed,
                   agentVars, ptyVars, stdinVars, logVars>>

\* The final drain found the ring buffer empty.
ReaderEnds ==
    /\ Alive /\ kernel = "told" /\ ring = <<>>
    /\ kernel' = "done"
    /\ UNCHANGED <<main, result, raw, execs, ring, missed,
                   agentVars, ptyVars, stdinVars, logVars>>

-----------------------------------------------------------------------------
(* The agent and its tree.                                                  *)

Output ==
    /\ agent = "running" \/ background > 0
    /\ written < MaxOutput
    /\ written' = written + 1
    /\ UNCHANGED <<main, result, raw, transcript, pump, watcher,
                   agentVars, stdinVars, kernelVars, logVars>>

\* Mutant: one event more than there is room for.
ExecOverfull ==
    /\ TreeAlive /\ kernel \in {"reading", "told"} /\ execs < MaxExecs
    /\ execs' = execs + 1
    /\ IF Len(ring) <= RingSize
       THEN ring' = Append(ring, execs + 1) /\ UNCHANGED missed
       ELSE missed' = missed \cup {execs + 1} /\ UNCHANGED ring
    /\ UNCHANGED <<main, result, raw, kernel, agentVars, ptyVars, stdinVars, logVars>>

\* try_exec in the eBPF program: an event that finds no room is dropped.
Exec ==
    /\ TreeAlive /\ kernel \in {"reading", "told"} /\ execs < MaxExecs
    /\ execs' = execs + 1
    /\ IF Len(ring) < RingSize
       THEN ring' = Append(ring, execs + 1) /\ UNCHANGED missed
       ELSE missed' = missed \cup {execs + 1} /\ UNCHANGED ring
    /\ UNCHANGED <<main, result, raw, kernel, agentVars, ptyVars, stdinVars, logVars>>

\* A tool call: `snitchit hook` appends to the log while the agent waits for it.
ToolCall ==
    /\ agent = "running" \/ direct = "running"
    /\ hooks < MaxHooks
    /\ hooks' = hooks + 1
    /\ \/ log' = Append(log, Event("hook", hooks + 1))
       \/ Fails("append") /\ UNCHANGED log
    /\ UNCHANGED <<main, result, raw, stream, lost, agentVars, ptyVars, stdinVars, kernelVars>>

LeaveBackground ==
    /\ agent = "running" /\ background < MaxBackground
    /\ background' = background + 1
    /\ UNCHANGED <<main, result, raw, agent, code, direct, exited,
                   ptyVars, stdinVars, kernelVars, logVars>>

BackgroundEnds ==
    /\ background > 0
    /\ background' = background - 1
    /\ UNCHANGED <<main, result, raw, agent, code, direct, exited,
                   ptyVars, stdinVars, kernelVars, logVars>>

AgentExits ==
    /\ agent = "running"
    /\ agent' = "exited"
    /\ code' \in IF direct = "none" THEN Codes ELSE {code}
    /\ exited' = [chunks |-> written, execs |-> execs]
    /\ UNCHANGED <<main, result, raw, direct, background,
                   ptyVars, stdinVars, kernelVars, logVars>>

DirectExits ==
    /\ direct = "running"
    /\ direct' = "exited"
    /\ code' \in Codes
    /\ UNCHANGED <<main, result, raw, agent, background, exited,
                   ptyVars, stdinVars, kernelVars, logVars>>

-----------------------------------------------------------------------------
Threads ==
    \/ ForwardLine \/ ForwardPart \/ StdinEnds \/ EmitLine
    \/ ReadChunk \/ PumpEnds \/ WatcherEnds \/ ReadRing \/ ReaderEnds

Tree ==
    Output \/ Exec \/ ToolCall \/ LeaveBackground \/ BackgroundEnds \/ AgentExits \/ DirectExits

\* snitchit has exited, and so has everything the agent started.
Terminated == main = "returned" /\ ~TreeAlive /\ UNCHANGED vars

Next == Main \/ Threads \/ Tree \/ Terminated

Spec == Init /\ [][Next]_vars

\* The threads of snitchit are scheduled; the agent and what it leaves behind
\* end at some time.  The user need not type, and nothing need be printed.
Fairness ==
    /\ WF_vars(Main)
    /\ WF_vars(ReadChunk \/ PumpEnds)
    /\ WF_vars(WatcherEnds)
    /\ WF_vars(ReadRing \/ ReaderEnds)
    /\ WF_vars(EmitLine)
    /\ WF_vars(AgentExits) /\ WF_vars(DirectExits) /\ WF_vars(BackgroundEnds)

FairSpec == Spec /\ Fairness

-----------------------------------------------------------------------------
(* Properties.                                                              *)

Events == [src : {"input", "kernel", "hook"}, n : Nat]
    \cup [src : {"run"}, n : {1}, code : Nat, chunks : Nat]

TypeOK ==
    /\ main \in Phases
    /\ result \in {NoCode, 1} \cup {ExitCode(c) : c \in Codes}
    /\ agent \in {"none", "running", "exited"} /\ code \in Codes \cup {NoCode}
    /\ direct \in {"none", "running", "exited"} /\ background \in 0 .. MaxBackground
    /\ written \in 0 .. MaxOutput /\ transcript \in 0 .. written
    /\ pump \in {"none", "reading", "done"}
    /\ watcher \in {"none", "watching", "told", "done"}
    /\ stdin \in {"none", "reading", "emit", "flush", "done"}
    /\ typed \in 0 .. MaxLines /\ held \in BOOLEAN /\ raw \in BOOLEAN
    /\ kernel \in {"none", "reading", "told", "done"} /\ execs \in 0 .. MaxExecs
    /\ ring \in Seq(1 .. execs) /\ Len(ring) <= RingSize /\ missed \subseteq 1 .. execs
    /\ stream \in Seq(Events) /\ log \in Seq(Events) /\ lost \subseteq Events
    /\ hooks \in 0 .. MaxHooks
    /\ exited \in [chunks : 0 .. written, execs : 0 .. execs]

Recorded == {log[i] : i \in DOMAIN log}

\* On the log, or reported to the user as not recorded.
Accounted == Recorded \cup lost

\* run() has returned and had reaped the agent.
Completed == main = "returned" /\ watcher = "done"

\* The process_run record of a session carries the agent's exit code and its
\* whole transcript: wait() joins the output pump before it emits the event,
\* and the event is in the channel before the drain.
TranscriptComplete ==
    Completed => \E e \in Accounted :
        e.src = "run" /\ e.code = ExitCode(code) /\ e.chunks >= exited.chunks

\* What the agent's tree executed until the agent exited is accounted for,
\* unless the ring buffer was full: the reader drains once more after it is
\* told to stop, and it is joined before the channel is drained.
ExecsComplete ==
    Completed /\ kernel # "none" => \A n \in 1 .. exited.execs :
        n \in missed \/ Event("kernel", n) \in Accounted

\* The events of one source come to the log in the order they happened, and
\* when one is accounted for, so are all before it: what a session misses of
\* a source is a tail.
NoGaps ==
    /\ \A i, j \in DOMAIN log : i < j /\ log[i].src = log[j].src => log[i].n < log[j].n
    /\ \A e \in Accounted : e.src \in {"input", "kernel"} =>
          \A m \in 1 .. e.n - 1 :
              (e.src = "kernel" /\ m \in missed) \/ Event(e.src, m) \in Accounted

\* Of a session that was recorded, whatever failed in it, nothing but input is
\* left behind in the channel without a word: the reader is joined before the
\* drain, also when wait() has failed, and only the stdin pump outlives it.
OnlyInputDropped ==
    main = "returned" /\ pump # "none" => \A i \in DOMAIN stream : stream[i].src = "input"

\* Whatever fails, the user gets back the terminal as it was.
TerminalRestored == main = "returned" => ~raw

\* Once the agent and what it left on the terminal have ended, snitchit
\* returns: no join waits for a thread that waits for something else.
SessionEnds == <>(main = "returned")

\* "the agent still runs - we fall back to a direct exec without recording":
\* one agent, recorded or not.
AgentStartedOnce == agent = "none" \/ direct = "none"

AsDirect == INSTANCE DirectRun WITH
    agent <- IF direct = "none" THEN agent ELSE direct,
    status <- IF main = "returned" THEN result ELSE NoCode

\* Seen from outside, a session is the agent run directly, also when recording
\* is not available or appends fail.
ImplementsDirectRun == AsDirect!Spec

=============================================================================
