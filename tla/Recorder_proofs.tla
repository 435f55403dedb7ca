--------------------------- MODULE Recorder_proofs ---------------------------
(***************************************************************************)
(* Proofs about Recorder, for any exit codes, bounds and faults.           *)
(*                                                                         *)
(* The argument: where main is says which threads there are, which of them *)
(* have been joined, and what the agent does (StageInv).  What happened is *)
(* in the ring, in the channel, accounted for or missed (SentInv), and     *)
(* what is further on its way happened earlier (OrderInv).  When run       *)
(* returns, the ring is empty and the reader is gone, so nothing but input *)
(* can be on its way still.                                                *)
(***************************************************************************)
EXTENDS Recorder, SequenceTheorems, TLAPS

Before == {"open", "kernel", "resolve", "spawn"}

\* start has returned Ok, and run has not returned.
Recording == {"wait", "shutdown", "join", "emit", "stop", "unhook", "drain", "return"}

After == {"stop", "unhook", "drain", "return", "returned"}

\* The agent and the exit code.
AgentInv ==
    /\ main \in Before => agent = "none"
    /\ main \in Before \cup {"handles"} \cup Recording => direct = "none"
    /\ main \in {"handles"} \cup Recording => agent # "none"
    /\ main = "fallback" => direct # "none"
    /\ agent = "exited" /\ direct = "none" => code \in Codes
    /\ direct = "exited" => code \in Codes

\* The threads of the PTY collector and the terminal.
PtyInv ==
    /\ main \in Before \cup {"handles", "fallback"} => pump = "none"
    /\ main \in Recording => pump # "none"
    /\ pump = "none" <=> watcher = "none"
    /\ pump = "none" => stdin = "none"
    /\ direct # "none" => pump = "none"
    /\ raw => main \in {"wait", "shutdown", "join", "emit", "stop"}
    /\ main \in {"shutdown", "join", "emit"} => watcher \in {"told", "done"}
    /\ watcher \in {"told", "done"} =>
          agent = "exited" /\ main \in (Recording \cup {"returned"}) \ {"wait"}
    /\ main \in {"join", "emit"} => watcher = "done"
    /\ main \in After => watcher # "told"
    /\ main = "emit" => pump = "done"
    /\ pump = "done" => agent = "exited" /\ background = 0 /\ transcript = written
    /\ held => typed < MaxLines

\* The kernel reader is joined before the drain, and leaves an empty ring.
ReaderInv ==
    /\ main = "unhook" => kernel # "reading"
    /\ main \in {"drain", "return"} \/ (main = "returned" /\ pump # "none") =>
          kernel \in {"none", "done"}
    /\ kernel = "done" => ring = <<>>

StageInv == TypeOK /\ AgentInv /\ PtyInv /\ ReaderInv

\* In the channel, in the log, or reported as lost.
Sent(e) == (\E i \in DOMAIN stream : stream[i] = e) \/ e \in Accounted

InRing(m) == \E i \in DOMAIN ring : ring[i] = m

\* The stdin pump is about to emit its last line.
Emitting == stdin \in {"emit", "flush"}

\* The process_run event of this session.
OfRun(e, c, seen) == e.src = "run" /\ e.code = ExitCode(c) /\ e.chunks >= seen

\* What happened is somewhere.
InputSent == \A m \in 1 .. typed : (Emitting /\ m = typed) \/ Sent(Event("input", m))
ExecsSent == \A m \in 1 .. execs : m \in missed \/ InRing(m) \/ Sent(Event("kernel", m))
RunSent ==
    main \in After /\ watcher = "done" =>
        \/ \E i \in DOMAIN stream : OfRun(stream[i], code, exited.chunks)
        \/ \E e \in Accounted : OfRun(e, code, exited.chunks)
Drained ==
    main = "return" \/ (main = "returned" /\ pump # "none") =>
        \A i \in DOMAIN stream : stream[i].src = "input"

SentInv == InputSent /\ ExecsSent /\ RunSent /\ Drained

Channel == {stream[i] : i \in DOMAIN stream}

Increasing(s) == \A i, j \in DOMAIN s : i < j /\ s[i].src = s[j].src => s[i].n < s[j].n

\* Event e happened before what is on its way to the channel now.
Past(e) ==
    /\ e.src = "input" => e.n <= typed /\ (Emitting => e.n < typed)
    /\ e.src = "kernel" => e.n <= execs /\ \A i \in DOMAIN ring : e.n < ring[i]
    /\ e.src = "hook" => e.n <= hooks
    /\ e.src = "run" => main \in After

\* What is further on its way happened earlier.
RingOrder == \A i, j \in DOMAIN ring : i < j => ring[i] < ring[j]
StreamOrder ==
    /\ Increasing(stream)
    /\ \A e \in Channel : Past(e) /\ e.src # "hook"
LogOrder ==
    /\ Increasing(log)
    /\ \A e \in Accounted : Past(e)
    /\ \A e \in Accounted, j \in DOMAIN stream : e.src = stream[j].src => e.n < stream[j].n

OrderInv == RingOrder /\ StreamOrder /\ LogOrder

-----------------------------------------------------------------------------
(* The types, in three parts.                                               *)

Results == {NoCode, 1} \cup {ExitCode(c) : c \in Codes}

ControlOK ==
    /\ main \in Phases /\ result \in Results
    /\ agent \in {"none", "running", "exited"} /\ code \in Codes \cup {NoCode}
    /\ direct \in {"none", "running", "exited"}
    /\ pump \in {"none", "reading", "done"}
    /\ watcher \in {"none", "watching", "told", "done"}
    /\ stdin \in {"none", "reading", "emit", "flush", "done"}
    /\ held \in BOOLEAN /\ raw \in BOOLEAN
    /\ kernel \in {"none", "reading", "told", "done"}

CountOK ==
    /\ background \in 0 .. MaxBackground
    /\ written \in 0 .. MaxOutput /\ transcript \in 0 .. written
    /\ typed \in 0 .. MaxLines /\ execs \in 0 .. MaxExecs /\ hooks \in 0 .. MaxHooks
    /\ exited \in [chunks : 0 .. written, execs : 0 .. execs]

QueueOK ==
    /\ ring \in Seq(1 .. execs) /\ Len(ring) <= RingSize /\ missed \subseteq 1 .. execs
    /\ stream \in Seq(Events) /\ log \in Seq(Events) /\ lost \subseteq Events

LEMMA TypeParts == TypeOK <=> ControlOK /\ CountOK /\ QueueOK
  BY DEF TypeOK, ControlOK, CountOK, QueueOK, Results

LEMMA Bounds ==
    /\ MaxLines \in Nat /\ MaxOutput \in Nat /\ MaxExecs \in Nat
    /\ MaxBackground \in Nat /\ MaxHooks \in Nat /\ RingSize \in Nat
  BY BoundAssumption

LEMMA EventType ==
    ASSUME NEW src \in {"input", "kernel", "hook"}, NEW n \in Nat
    PROVE  Event(src, n) \in Events
  BY DEF Event, Events

LEMMA CodeType ==
    ASSUME NEW c \in Codes
    PROVE  /\ ExitCode(c) \in Nat /\ ExitCode(c) \in Results
           /\ \A n \in Nat : RunEvent(ExitCode(c), n) \in Events
  BY CodeAssumption DEF RunEvent, ExitCode, Events, Results

LEMMA InitStage == Init => StageInv
<1> SUFFICES ASSUME Init  PROVE StageInv  OBVIOUS
<1>1. ControlOK  BY DEF Init, ControlOK, Phases, Results
<1>2. CountOK  BY Bounds DEF Init, CountOK
<1>3. QueueOK
  <2>1. <<>> \in Seq(1 .. execs) /\ Len(<<>>) = 0 /\ <<>> \in Seq(Events)  BY EmptySeq
  <2> QED  BY <2>1, Bounds DEF Init, QueueOK
<1>4. AgentInv /\ PtyInv /\ ReaderInv
  BY DEF Init, AgentInv, PtyInv, ReaderInv, Before, Recording, After
<1> QED  BY <1>1, <1>2, <1>3, <1>4, TypeParts DEF StageInv

LEMMA ControlStep == StageInv /\ [Next]_vars => ControlOK'
<1> SUFFICES ASSUME StageInv, [Next]_vars  PROVE ControlOK'  OBVIOUS
<1> USE DEF vars, agentVars, ptyVars, stdinVars, kernelVars, logVars, ControlOK, Phases
<1>1. ControlOK /\ AgentInv /\ PtyInv  BY TypeParts DEF StageInv
<1>2. 1 \in Results  BY DEF Results
<1>3. CASE GiveUp \/ OpenStore \/ StartKernel \/ Resolve \/ Spawn \/ FallBack
  BY <1>1, <1>2, <1>3 DEF GiveUp, OpenStore, StartKernel, Resolve, Spawn, FallBack, KernelStart
<1>4. CASE StartThreads \/ WaitChild \/ WaitFails \/ JoinWatcher \/ JoinPump
  BY <1>1, <1>2, <1>4 DEF StartThreads, WaitChild, WaitFails, JoinWatcher, JoinPump
<1>5. CASE Stop \/ JoinKernel \/ Drain \/ DrainEnds \/ Return
  BY <1>1, <1>5 DEF Stop, KernelStop, JoinKernel, Drain, DrainEnds, Return
<1>6. CASE FallbackReturns \/ EmitRun
  <2>1. code \in Codes
    BY <1>1, <1>6 DEF FallbackReturns, EmitRun, AgentInv, PtyInv, Recording
  <2>2. ExitCode(code) \in Results  BY <2>1, CodeType
  <2> QED  BY <1>1, <1>6, <2>2 DEF FallbackReturns, EmitRun
<1>7. CASE Threads
  BY <1>1, <1>7
  DEF Threads, ForwardLine, ForwardPart, StdinEnds, EmitLine, ReadChunk, PumpEnds, WatcherEnds,
      ReadRing, ReaderEnds
<1>8. CASE Tree
  BY <1>1, <1>8
  DEF Tree, Output, Exec, ToolCall, LeaveBackground, BackgroundEnds, AgentExits, DirectExits
<1>9. CASE UNCHANGED vars
  BY <1>1, <1>9
<1> QED
  BY <1>3, <1>4, <1>5, <1>6, <1>7, <1>8, <1>9
  DEF Next, Main, Terminated, OpenStoreFails, ResolveFails, SpawnFails, HandlesFail

\* Which steps count.
LEMMA MainCounts ==
    Main => UNCHANGED <<background, written, transcript, typed, execs, hooks, exited>>
  BY DEF agentVars, ptyVars, stdinVars, kernelVars, logVars, Main, GiveUp, OpenStore,
         OpenStoreFails, StartKernel, Resolve, ResolveFails, Spawn, SpawnFails, FallBack,
         StartThreads, HandlesFail, WaitChild, WaitFails, JoinWatcher, JoinPump, EmitRun, Stop,
         JoinKernel, Drain, DrainEnds, Return, FallbackReturns

LEMMA CountStep == StageInv /\ [Next]_vars => CountOK'
<1> SUFFICES ASSUME StageInv, [Next]_vars  PROVE CountOK'  OBVIOUS
<1> USE Bounds DEF vars, agentVars, ptyVars, stdinVars, kernelVars, logVars, CountOK
<1>1. CountOK /\ PtyInv  BY TypeParts DEF StageInv
<1>2. CASE UNCHANGED <<background, written, transcript, typed, execs, hooks, exited>>
  BY <1>1, <1>2
<1>3. CASE ForwardLine \/ StdinEnds
  BY <1>1, <1>3 DEF ForwardLine, StdinEnds, PtyInv
<1>4. CASE ReadChunk
  BY <1>1, <1>4 DEF ReadChunk
<1>5. CASE Output
  BY <1>1, <1>5 DEF Output
<1>6. CASE Exec
  BY <1>1, <1>6 DEF Exec
<1>7. CASE ToolCall
  BY <1>1, <1>7 DEF ToolCall
<1>8. CASE LeaveBackground \/ BackgroundEnds
  BY <1>1, <1>8 DEF LeaveBackground, BackgroundEnds
<1>9. CASE AgentExits
  BY <1>1, <1>9 DEF AgentExits
<1>10. CASE ForwardPart \/ EmitLine \/ PumpEnds \/ WatcherEnds \/ ReadRing \/ ReaderEnds
            \/ DirectExits
  BY <1>2, <1>10
  DEF ForwardPart, EmitLine, PumpEnds, WatcherEnds, ReadRing, ReaderEnds, DirectExits
<1> QED
  BY <1>2, <1>3, <1>4, <1>5, <1>6, <1>7, <1>8, <1>9, <1>10, MainCounts
  DEF Next, Threads, Tree, Terminated

LEMMA QueueStep == StageInv /\ [Next]_vars => QueueOK'
<1> SUFFICES ASSUME StageInv, [Next]_vars  PROVE QueueOK'  OBVIOUS
<1> USE DEF vars, agentVars, ptyVars, stdinVars, kernelVars, logVars
<1>1. QueueOK /\ CountOK /\ ControlOK /\ AgentInv /\ PtyInv  BY TypeParts DEF StageInv
<1>2. CASE UNCHANGED <<execs, ring, missed, stream, log, lost>>
  BY <1>1, <1>2 DEF QueueOK
<1>3. CASE EmitRun
  <2>1. code \in Codes
    BY <1>1, <1>3 DEF EmitRun, AgentInv, PtyInv, Recording
  <2>2. RunEvent(ExitCode(code), transcript) \in Events
    BY <1>1, <2>1, CodeType DEF CountOK
  <2>3. stream' \in Seq(Events)
    BY <1>1, <1>3, <2>2, AppendProperties DEF EmitRun, Emit, QueueOK
  <2> QED  BY <1>1, <1>3, <2>3 DEF EmitRun, QueueOK
<1>4. CASE Drain
  <2>1. Head(stream) \in Events /\ stream' \in Seq(Events)
    BY <1>1, <1>4, HeadTailProperties DEF Drain, QueueOK
  <2>2. log \in Seq(Events) /\ Append(log, Head(stream)) \in Seq(Events)
    BY <1>1, <2>1, AppendProperties DEF QueueOK
  <2>3. log' \in Seq(Events) /\ lost' \subseteq Events
    BY <1>1, <1>4, <2>1, <2>2 DEF Drain, QueueOK
  <2> QED  BY <1>1, <1>4, <2>1, <2>3 DEF Drain, QueueOK
<1>5. CASE EmitLine
  <2>1. Event("input", typed) \in Events  BY <1>1, EventType DEF CountOK
  <2>2. stream' \in Seq(Events)
    BY <1>1, <1>5, <2>1, AppendProperties DEF EmitLine, Emit, QueueOK
  <2> QED  BY <1>1, <1>5, <2>2 DEF EmitLine, QueueOK
<1>6. CASE ReadRing
  <2>1. /\ Head(ring) \in 1 .. execs /\ Tail(ring) \in Seq(1 .. execs)
        /\ Len(Tail(ring)) = Len(ring) - 1 /\ Len(ring) \in Nat
    BY <1>1, <1>6, HeadTailProperties, LenProperties DEF ReadRing, QueueOK
  <2>2. Event("kernel", Head(ring)) \in Events  BY <1>1, <2>1, EventType DEF CountOK
  <2>3. stream' \in Seq(Events)
    BY <1>1, <1>6, <2>2, AppendProperties DEF ReadRing, Emit, QueueOK
  <2>4. Len(Tail(ring)) <= RingSize  BY <1>1, <2>1, Bounds DEF QueueOK
  <2> QED  BY <1>1, <1>6, <2>1, <2>3, <2>4 DEF ReadRing, QueueOK
<1>7. CASE Exec
  <2>1. /\ ring \in Seq(1 .. execs + 1) /\ Len(ring) \in Nat
        /\ 1 .. execs \subseteq 1 .. execs + 1 /\ execs + 1 \in 1 .. execs + 1
    <3>1. 1 .. execs \subseteq 1 .. execs + 1 /\ execs + 1 \in 1 .. execs + 1
      BY <1>1 DEF CountOK
    <3> QED  BY <1>1, <3>1, SeqMonotonic, LenProperties DEF QueueOK
  <2>2. ring' \in Seq(1 .. execs') /\ Len(ring') <= RingSize
    <3>1. CASE Len(ring) < RingSize
      <4>1. /\ Append(ring, execs + 1) \in Seq(1 .. execs + 1)
            /\ Len(Append(ring, execs + 1)) = Len(ring) + 1
        BY <2>1, AppendProperties
      <4> QED  BY <1>7, <2>1, <3>1, <4>1, Bounds DEF Exec
    <3>2. CASE ~(Len(ring) < RingSize)
      BY <1>1, <1>7, <2>1, <3>2 DEF Exec, QueueOK
    <3> QED  BY <3>1, <3>2
  <2>3. missed' \subseteq 1 .. execs'
    BY <1>1, <1>7, <2>1 DEF Exec, QueueOK
  <2> QED  BY <1>1, <1>7, <2>2, <2>3 DEF Exec, QueueOK
<1>8. CASE ToolCall
  <2>1. Event("hook", hooks + 1) \in Events  BY <1>1, EventType DEF CountOK
  <2>2. log \in Seq(Events)  BY <1>1 DEF QueueOK
  <2>3. Append(log, Event("hook", hooks + 1)) \in Seq(Events)  BY <2>1, <2>2, AppendProperties
  <2> QED  BY <1>1, <1>8, <2>3 DEF ToolCall, QueueOK
<1>9. CASE /\ Main \/ Threads \/ Tree
           /\ ~(EmitRun \/ Drain \/ EmitLine \/ ReadRing \/ Exec \/ ToolCall)
  <2>1. CASE Main
    BY <1>2, <1>9, <2>1
    DEF Main, GiveUp, OpenStore, OpenStoreFails, StartKernel, Resolve, ResolveFails, Spawn,
        SpawnFails, FallBack, StartThreads, HandlesFail, WaitChild, WaitFails, JoinWatcher,
        JoinPump, Stop, JoinKernel, DrainEnds, Return, FallbackReturns
  <2>2. CASE Threads
    BY <1>2, <1>9, <2>2
    DEF Threads, ForwardLine, ForwardPart, StdinEnds, ReadChunk, PumpEnds, WatcherEnds, ReaderEnds
  <2>3. CASE Tree
    BY <1>2, <1>9, <2>3
    DEF Tree, Output, LeaveBackground, BackgroundEnds, AgentExits, DirectExits
  <2> QED  BY <1>9, <2>1, <2>2, <2>3
<1> QED
  BY <1>2, <1>3, <1>4, <1>5, <1>6, <1>7, <1>8, <1>9 DEF Next, Terminated

LEMMA TypeStep == StageInv /\ [Next]_vars => TypeOK'
<1> SUFFICES ASSUME StageInv, [Next]_vars  PROVE TypeOK'  OBVIOUS
<1>1. ControlOK' /\ CountOK' /\ QueueOK'  BY ControlStep, CountStep, QueueStep
<1>2. TypeOK' <=> ControlOK' /\ CountOK' /\ QueueOK'
  BY DEF TypeOK, ControlOK, CountOK, QueueOK, Results
<1> QED  BY <1>1, <1>2

-----------------------------------------------------------------------------
(* Where main is says what there is.                                        *)

LEMMA AgentStep == StageInv /\ [Next]_vars => AgentInv'
<1> SUFFICES ASSUME StageInv, [Next]_vars  PROVE AgentInv'  OBVIOUS
<1> USE DEF vars, agentVars, ptyVars, stdinVars, kernelVars, logVars, AgentInv, Before, Recording
<1>1. ControlOK /\ AgentInv  BY TypeParts DEF StageInv
<1>2. CASE OpenStore \/ OpenStoreFails \/ StartKernel \/ Resolve \/ ResolveFails
  BY <1>1, <1>2 DEF GiveUp, OpenStore, OpenStoreFails, StartKernel, Resolve, ResolveFails
<1>3. CASE Spawn \/ SpawnFails \/ HandlesFail \/ StartThreads
  BY <1>1, <1>3 DEF Spawn, SpawnFails, HandlesFail, FallBack, GiveUp, StartThreads
<1>4. CASE WaitChild \/ WaitFails \/ JoinWatcher \/ JoinPump \/ EmitRun \/ Stop
  BY <1>1, <1>4 DEF WaitChild, WaitFails, JoinWatcher, JoinPump, EmitRun, Stop
<1>5. CASE JoinKernel \/ Drain \/ DrainEnds \/ Return \/ FallbackReturns
  BY <1>1, <1>5 DEF JoinKernel, Drain, DrainEnds, Return, FallbackReturns
<1>6. CASE Threads
  BY <1>1, <1>6
  DEF Threads, ForwardLine, ForwardPart, StdinEnds, EmitLine, ReadChunk, PumpEnds, WatcherEnds,
      ReadRing, ReaderEnds
<1>7. CASE Tree
  BY <1>1, <1>7, CodeAssumption
  DEF Tree, Output, Exec, ToolCall, LeaveBackground, BackgroundEnds, AgentExits, DirectExits,
      ControlOK
<1>8. CASE UNCHANGED vars
  BY <1>1, <1>8
<1> QED
  BY <1>2, <1>3, <1>4, <1>5, <1>6, <1>7, <1>8 DEF Next, Main, Terminated

LEMMA PtyStep == StageInv /\ [Next]_vars => PtyInv'
<1> SUFFICES ASSUME StageInv, [Next]_vars  PROVE PtyInv'  OBVIOUS
<1> USE DEF vars, agentVars, ptyVars, stdinVars, kernelVars, logVars, PtyInv, Before, Recording,
        After
<1>1. ControlOK /\ CountOK /\ AgentInv /\ PtyInv  BY TypeParts DEF StageInv
<1>2. CASE OpenStore \/ OpenStoreFails \/ StartKernel \/ Resolve \/ ResolveFails
  BY <1>1, <1>2 DEF GiveUp, OpenStore, OpenStoreFails, StartKernel, Resolve, ResolveFails
<1>3. CASE Spawn \/ SpawnFails \/ HandlesFail \/ StartThreads
  <2>1. CASE Spawn \/ StartThreads
    BY <1>1, <2>1 DEF Spawn, StartThreads, AgentInv
  <2>2. CASE SpawnFails \/ HandlesFail
    BY <1>1, <2>2 DEF SpawnFails, HandlesFail, FallBack, GiveUp
  <2> QED  BY <1>3, <2>1, <2>2
<1>4. CASE WaitChild \/ WaitFails \/ JoinWatcher \/ JoinPump \/ EmitRun \/ Stop
  BY <1>1, <1>4 DEF WaitChild, WaitFails, JoinWatcher, JoinPump, EmitRun, Stop
<1>5. CASE JoinKernel \/ Drain \/ DrainEnds \/ Return \/ FallbackReturns
  BY <1>1, <1>5 DEF JoinKernel, Drain, DrainEnds, Return, FallbackReturns, AgentInv
<1>6. CASE Threads
  BY <1>1, <1>6
  DEF Threads, ForwardLine, ForwardPart, StdinEnds, EmitLine, ReadChunk, PumpEnds, WatcherEnds,
      ReadRing, ReaderEnds, AgentInv
<1>7. CASE Tree
  BY <1>1, <1>7
  DEF Tree, Output, Exec, ToolCall, LeaveBackground, BackgroundEnds, AgentExits, DirectExits,
      CountOK, AgentInv
<1>8. CASE UNCHANGED vars
  BY <1>1, <1>8
<1> QED
  BY <1>2, <1>3, <1>4, <1>5, <1>6, <1>7, <1>8 DEF Next, Main, Terminated

LEMMA ReaderStep == StageInv /\ [Next]_vars => ReaderInv'
<1> SUFFICES ASSUME StageInv, [Next]_vars  PROVE ReaderInv'  OBVIOUS
<1> USE DEF vars, agentVars, ptyVars, stdinVars, kernelVars, logVars, ReaderInv
<1>1. ControlOK /\ QueueOK /\ PtyInv /\ ReaderInv  BY TypeParts DEF StageInv
<1>2. CASE OpenStore \/ OpenStoreFails \/ StartKernel \/ Resolve \/ ResolveFails
  BY <1>1, <1>2
  DEF GiveUp, OpenStore, OpenStoreFails, StartKernel, KernelStart, Resolve, ResolveFails, PtyInv, Before
<1>3. CASE Spawn \/ SpawnFails \/ HandlesFail \/ StartThreads
  BY <1>1, <1>3 DEF Spawn, SpawnFails, HandlesFail, FallBack, GiveUp, StartThreads, PtyInv, Before
<1>4. CASE WaitChild \/ WaitFails \/ JoinWatcher \/ JoinPump \/ EmitRun \/ Stop
  BY <1>1, <1>4 DEF WaitChild, WaitFails, JoinWatcher, JoinPump, EmitRun, Stop, KernelStop
<1>5. CASE JoinKernel \/ Drain \/ DrainEnds \/ Return \/ FallbackReturns
  BY <1>1, <1>5 DEF JoinKernel, Drain, DrainEnds, Return, FallbackReturns, PtyInv
<1>6. CASE Threads
  BY <1>1, <1>6
  DEF Threads, ForwardLine, ForwardPart, StdinEnds, EmitLine, ReadChunk, PumpEnds, WatcherEnds,
      ReadRing, ReaderEnds, Alive
<1>7. CASE Tree
  BY <1>1, <1>7
  DEF Tree, Output, Exec, ToolCall, LeaveBackground, BackgroundEnds, AgentExits, DirectExits
<1>8. CASE UNCHANGED vars
  BY <1>1, <1>8
<1> QED
  BY <1>2, <1>3, <1>4, <1>5, <1>6, <1>7, <1>8 DEF Next, Main, Terminated

LEMMA StageStep == StageInv /\ [Next]_vars => StageInv'
  BY TypeStep, AgentStep, PtyStep, ReaderStep DEF StageInv

LEMMA Stage == Spec => []StageInv
  BY InitStage, StageStep, PTL DEF Spec

\* Every variable keeps its type, and no counter passes its bound.
THEOREM TypeSafety == Spec => []TypeOK
<1>1. StageInv => TypeOK  BY DEF StageInv
<1> QED  BY <1>1, Stage, PTL

\* Whatever fails, run does not return with the terminal in raw mode.
THEOREM TerminalSafety == Spec => []TerminalRestored
<1>1. StageInv => TerminalRestored  BY DEF StageInv, PtyInv, TerminalRestored
<1> QED  BY <1>1, Stage, PTL

-----------------------------------------------------------------------------
(* What is on its way.                                                      *)

\* What Drain and ToolCall do to the log and Emit to the channel, in terms of
\* positions.
LEMMA Appended ==
    ASSUME NEW S, NEW s \in Seq(S), NEW x \in S, NEW t, t = Append(s, x)
    PROVE  /\ \A i \in DOMAIN s : i \in DOMAIN t /\ t[i] = s[i]
           /\ \E i \in DOMAIN t : t[i] = x
           /\ \A i \in DOMAIN t : t[i] = x \/ (i \in DOMAIN s /\ t[i] = s[i])
           /\ \A i, j \in DOMAIN t : i < j =>
                  i \in DOMAIN s /\ t[i] = s[i] /\ (t[j] = x \/ (j \in DOMAIN s /\ t[j] = s[j]))
<1>1. /\ Len(s) \in Nat /\ DOMAIN s = 1 .. Len(s) /\ DOMAIN t = 1 .. Len(s) + 1
      /\ t[Len(s) + 1] = x /\ \A i \in 1 .. Len(s) : t[i] = s[i]
  BY AppendProperties, LenProperties
<1> QED  BY <1>1

LEMMA EventAppended ==
    ASSUME NEW s \in Seq(Events), NEW x \in Events, NEW t, t = Append(s, x)
    PROVE  /\ \A i \in DOMAIN s : i \in DOMAIN t /\ t[i] = s[i]
           /\ \E i \in DOMAIN t : t[i] = x
           /\ \A i \in DOMAIN t : t[i] = x \/ (i \in DOMAIN s /\ t[i] = s[i])
  BY Appended

LEMMA Taken ==
    ASSUME NEW S, NEW s \in Seq(S), s # <<>>
    PROVE  /\ 1 \in DOMAIN s /\ Head(s) = s[1]
           /\ \A i \in DOMAIN s : s[i] = Head(s) \/ \E j \in DOMAIN Tail(s) : Tail(s)[j] = s[i]
           /\ \A j \in DOMAIN Tail(s) : j + 1 \in DOMAIN s /\ 1 < j + 1 /\ Tail(s)[j] = s[j + 1]
<1>1. /\ Len(s) \in Nat /\ Len(s) > 0 /\ DOMAIN s = 1 .. Len(s)
      /\ Head(s) = s[1] /\ DOMAIN Tail(s) = 1 .. Len(s) - 1
      /\ \A j \in 1 .. Len(s) - 1 : Tail(s)[j] = s[j + 1]
  BY HeadTailProperties, LenProperties, EmptySeq
<1>2. ASSUME NEW i \in DOMAIN s, i # 1
      PROVE  \E j \in DOMAIN Tail(s) : Tail(s)[j] = s[i]
  <2>1. i - 1 \in DOMAIN Tail(s) /\ Tail(s)[i - 1] = s[i]  BY <1>1, <1>2
  <2> QED  BY <2>1
<1>3. \A i \in DOMAIN s : s[i] = Head(s) \/ \E j \in DOMAIN Tail(s) : Tail(s)[j] = s[i]
  BY <1>1, <1>2
<1>4. \A j \in DOMAIN Tail(s) : j + 1 \in DOMAIN s /\ 1 < j + 1 /\ Tail(s)[j] = s[j + 1]
  BY <1>1
<1> QED  BY <1>1, <1>3, <1>4

\* The steps that move events, and the rest, which may put a line under way.
Quiet ==
    /\ UNCHANGED <<execs, ring, missed, stream, log, lost, hooks>>
    /\ \/ typed' = typed /\ Emitting' = Emitting
       \/ typed' = typed + 1 /\ ~Emitting /\ Emitting'

LEMMA Kinds ==
    ASSUME StageInv, [Next]_vars
    PROVE  Quiet \/ EmitRun \/ Drain \/ EmitLine \/ ReadRing \/ Exec \/ ToolCall
<1> USE DEF vars, agentVars, ptyVars, stdinVars, kernelVars, logVars, Quiet, Emitting
<1>1. PtyInv  BY DEF StageInv
<1>2. CASE Main
  BY <1>1, <1>2
  DEF Main, GiveUp, OpenStore, OpenStoreFails, StartKernel, Resolve, ResolveFails, Spawn,
      SpawnFails, FallBack, StartThreads, HandlesFail, WaitChild, WaitFails, JoinWatcher,
      JoinPump, Stop, JoinKernel, DrainEnds, Return, FallbackReturns, PtyInv
<1>3. CASE Threads
  BY <1>3
  DEF Threads, ForwardLine, ForwardPart, StdinEnds, ReadChunk, PumpEnds, WatcherEnds, ReaderEnds
<1>4. CASE Tree
  BY <1>4 DEF Tree, Output, LeaveBackground, BackgroundEnds, AgentExits, DirectExits
<1> QED  BY <1>2, <1>3, <1>4 DEF Next, Terminated

\* What these steps find and leave.
LEMMA Queues ==
    ASSUME StageInv, [Next]_vars
    PROVE  /\ stream \in Seq(Events) /\ log \in Seq(Events) /\ ring \in Seq(1 .. execs)
           /\ typed \in Nat /\ hooks \in Nat /\ execs \in Nat
           /\ stdin \in {"none", "reading", "emit", "flush", "done"}
           /\ Event("input", typed) \in Events
           /\ Event("hook", hooks + 1) \in Events
           /\ \A n \in 1 .. execs : Event("kernel", n) \in Events
           /\ EmitRun => RunEvent(ExitCode(code), transcript) \in Events
<1>1. ControlOK /\ QueueOK /\ CountOK /\ AgentInv /\ PtyInv  BY TypeParts DEF StageInv
<1>2. typed \in Nat /\ hooks \in Nat /\ execs \in Nat /\ transcript \in Nat
  BY <1>1, Bounds DEF CountOK
<1>3. ASSUME NEW n \in 1 .. execs  PROVE Event("kernel", n) \in Events
  BY <1>2, EventType
<1>4. EmitRun => code \in Codes
  BY <1>1 DEF EmitRun, AgentInv, PtyInv, Recording
<1> QED  BY <1>1, <1>2, <1>3, <1>4, EventType, CodeType DEF QueueOK, ControlOK

\* Nothing that is in the channel is lost, and nothing leaves the ring but for it.
LEMMA SentStays ==
    ASSUME StageInv, [Next]_vars, NEW e, Sent(e)
    PROVE  Sent(e)'
<1>1. stream \in Seq(Events) /\ log \in Seq(Events)  BY Queues
<1>2. CASE UNCHANGED <<stream, log, lost>>
  BY <1>2 DEF Sent, Accounted, Recorded
<1>3. ASSUME NEW x \in Events, stream' = Append(stream, x), UNCHANGED <<log, lost>>
      PROVE  Sent(e)'
  <2>1. \A i \in DOMAIN stream : i \in DOMAIN stream' /\ stream'[i] = stream[i]
    BY <1>1, <1>3, EventAppended
  <2> QED  BY <1>3, <2>1 DEF Sent, Accounted, Recorded
<1>4. CASE Drain
  <2> DEFINE x == Head(stream)
  <2>1. stream # <<>> /\ stream' = Tail(stream) /\ x \in Events
    BY <1>1, <1>4, HeadTailProperties DEF Drain
  <2>2. CASE log' = Append(log, x) /\ lost' = lost
    <3>1. /\ \A i \in DOMAIN log : i \in DOMAIN log' /\ log'[i] = log[i]
          /\ \E i \in DOMAIN log' : log'[i] = x
      BY <1>1, <2>1, <2>2, EventAppended
    <3> QED  BY <1>1, <2>1, <2>2, <3>1, Taken DEF Sent, Accounted, Recorded
  <2>3. CASE lost' = lost \cup {x} /\ log' = log
    BY <1>1, <2>1, <2>3, Taken DEF Sent, Accounted, Recorded
  <2> QED  BY <1>4, <2>2, <2>3 DEF Drain
<1>5. CASE ToolCall
  <2> DEFINE x == Event("hook", hooks + 1)
  <2>1. UNCHANGED <<stream, lost>> /\ (log' = log \/ log' = Append(log, x))
    BY <1>5 DEF ToolCall
  <2>2. CASE log' = Append(log, x)
    <3>1. \A i \in DOMAIN log : i \in DOMAIN log' /\ log'[i] = log[i]
      BY <1>1, <2>2, Queues, EventAppended
    <3> QED  BY <2>1, <3>1 DEF Sent, Accounted, Recorded
  <2> QED  BY <1>2, <2>1, <2>2
<1>6. CASE EmitRun
  BY <1>3, <1>6, Queues DEF EmitRun, Emit
<1>7. CASE EmitLine
  BY <1>3, <1>7, Queues DEF EmitLine, Emit
<1>8. CASE ReadRing
  <2>1. Head(ring) \in 1 .. execs  BY <1>8, Queues, HeadTailProperties DEF ReadRing
  <2> QED  BY <1>3, <1>8, <2>1, Queues DEF ReadRing, Emit
<1>9. CASE Quiet \/ Exec
  BY <1>2, <1>9 DEF Quiet, Exec, logVars
<1> QED  BY <1>4, <1>5, <1>6, <1>7, <1>8, <1>9, Kinds

LEMMA Emitted ==
    ASSUME NEW x \in Events, stream \in Seq(Events), stream' = Append(stream, x)
    PROVE  Sent(x)'
  BY EventAppended DEF Sent

LEMMA SentStep == StageInv /\ SentInv /\ [Next]_vars => SentInv'
<1> SUFFICES ASSUME StageInv, SentInv, [Next]_vars  PROVE SentInv'  OBVIOUS
<1>1. /\ InputSent /\ ExecsSent /\ RunSent /\ Drained
      /\ ControlOK /\ QueueOK /\ CountOK /\ AgentInv /\ PtyInv /\ ReaderInv
  BY TypeParts DEF SentInv, StageInv
<1>2. InputSent'
  <2> SUFFICES ASSUME NEW m \in 1 .. typed', ~(Emitting' /\ m = typed')
               PROVE  Sent(Event("input", m))'
    BY DEF InputSent
  <2>1. CASE typed' = typed /\ Emitting' = Emitting
    BY <1>1, <2>1, SentStays DEF InputSent
  <2>2. CASE typed' = typed + 1 /\ ~Emitting /\ Emitting'
    <3>1. m \in 1 .. typed  BY <2>2, Queues
    <3> QED  BY <1>1, <2>2, <3>1, SentStays DEF InputSent
  <2>3. CASE EmitLine
    <3>1. typed' = typed /\ stream' = Append(stream, Event("input", typed))
      BY <2>3 DEF EmitLine, Emit
    <3>2. CASE m = typed  BY <3>1, <3>2, Queues, Emitted
    <3>3. CASE m # typed  BY <1>1, <3>1, <3>3, SentStays DEF InputSent
    <3> QED  BY <3>2, <3>3
  <2>4. CASE EmitRun \/ Drain \/ ReadRing \/ Exec \/ ToolCall
    BY <2>1, <2>4 DEF EmitRun, Drain, ReadRing, Exec, ToolCall, stdinVars, Emitting
  <2> QED  BY <2>1, <2>2, <2>3, <2>4, Kinds DEF Quiet
<1>3. ExecsSent'
  <2> SUFFICES ASSUME NEW m \in 1 .. execs', m \notin missed', ~InRing(m)'
               PROVE  Sent(Event("kernel", m))'
    BY DEF ExecsSent
  <2>1. CASE UNCHANGED <<execs, ring, missed>>
    BY <1>1, <2>1, SentStays DEF ExecsSent, InRing
  <2>2. CASE Exec
    <3>1. /\ execs' = execs + 1
          /\ \/ ring' = Append(ring, execs + 1) /\ missed' = missed
             \/ missed' = missed \cup {execs + 1} /\ ring' = ring
      BY <2>2 DEF Exec
    <3>2. /\ ring \in Seq(1 .. execs + 1) /\ execs + 1 \in 1 .. execs + 1 /\ execs \in Nat
      <4>1. 1 .. execs \subseteq 1 .. execs + 1 /\ execs + 1 \in 1 .. execs + 1  BY Queues
      <4> QED  BY <4>1, Queues, SeqMonotonic
    <3>3. m # execs + 1 /\ m \notin missed /\ ~InRing(m)
      <4>1. CASE ring' = Append(ring, execs + 1) /\ missed' = missed
        <5>1. /\ \A i \in DOMAIN ring : i \in DOMAIN ring' /\ ring'[i] = ring[i]
              /\ \E i \in DOMAIN ring' : ring'[i] = execs + 1
          BY <3>2, <4>1, Appended
        <5> QED  BY <4>1, <5>1 DEF InRing
      <4>2. CASE missed' = missed \cup {execs + 1} /\ ring' = ring
        BY <4>2 DEF InRing
      <4> QED  BY <3>1, <4>1, <4>2
    <3>4. m \in 1 .. execs  BY <3>1, <3>2, <3>3
    <3> QED  BY <1>1, <3>3, <3>4, SentStays DEF ExecsSent
  <2>3. CASE ReadRing
    <3>1. /\ execs' = execs /\ missed' = missed /\ ring # <<>> /\ ring' = Tail(ring)
          /\ stream' = Append(stream, Event("kernel", Head(ring)))
      BY <2>3 DEF ReadRing, Emit
    <3>2. Head(ring) \in 1 .. execs  BY <3>1, Queues, HeadTailProperties
    <3>3. CASE m = Head(ring)
      BY <3>1, <3>2, <3>3, Queues, Emitted
    <3>4. CASE m # Head(ring)
      <4>1. ~InRing(m)  BY <3>1, <3>4, Queues, Taken DEF InRing
      <4> QED  BY <1>1, <3>1, <4>1, SentStays DEF ExecsSent
    <3> QED  BY <3>3, <3>4
  <2>4. CASE EmitRun \/ Drain \/ EmitLine \/ ToolCall
    BY <2>1, <2>4 DEF EmitRun, Drain, EmitLine, ToolCall, kernelVars
  <2> QED  BY <2>1, <2>2, <2>3, <2>4, Kinds DEF Quiet
<1>4. RunSent'
  <2> SUFFICES ASSUME main' \in After, watcher' = "done"
               PROVE  \/ \E i \in DOMAIN stream' : OfRun(stream'[i], code', exited'.chunks)
                      \/ \E e \in Accounted' : OfRun(e, code', exited'.chunks)
    BY DEF RunSent
  <2>1. CASE EmitRun
    <3> PICK e \in Events : e = RunEvent(ExitCode(code), transcript)  BY <2>1, Queues
    <3>1. /\ stream' = Append(stream, e) /\ UNCHANGED <<code, exited>> /\ main = "emit"
      BY <2>1 DEF EmitRun, Emit, agentVars
    <3>2. transcript = written /\ exited.chunks <= written
      BY <1>1, <3>1 DEF PtyInv, CountOK
    <3>3. OfRun(e, code', exited'.chunks)  BY <3>1, <3>2 DEF OfRun, RunEvent
    <3>4. stream \in Seq(Events)  BY Queues
    <3>5. \E i \in DOMAIN stream' : stream'[i] = e  BY <3>1, <3>4, EventAppended
    <3> QED  BY <3>3, <3>5
  <2>2. CASE ~EmitRun
    <3>1. main \in After /\ watcher = "done" /\ UNCHANGED <<code, exited>>
      <4>1. CASE Main
        BY <1>1, <2>2, <4>1
        DEF Main, GiveUp, OpenStore, OpenStoreFails, StartKernel, Resolve, ResolveFails, Spawn,
            SpawnFails, FallBack, StartThreads, HandlesFail, WaitChild, WaitFails, JoinWatcher,
            JoinPump, Stop, JoinKernel, Drain, DrainEnds, Return, FallbackReturns,
            agentVars, ptyVars, PtyInv, AgentInv, After, Before, Recording
      <4>2. CASE Threads
        BY <1>1, <4>2
        DEF Threads, ForwardLine, ForwardPart, StdinEnds, EmitLine, ReadChunk, PumpEnds,
            WatcherEnds, ReadRing, ReaderEnds, agentVars, ptyVars, PtyInv
      <4>3. CASE Tree
        BY <1>1, <4>3
        DEF Tree, Output, Exec, ToolCall, LeaveBackground, BackgroundEnds, AgentExits, DirectExits,
            agentVars, ptyVars, PtyInv, After
      <4>4. CASE UNCHANGED vars
        BY <4>4 DEF vars, agentVars, ptyVars
      <4> QED  BY <4>1, <4>2, <4>3, <4>4 DEF Next, Terminated
    <3>2. PICK e : Sent(e) /\ OfRun(e, code, exited.chunks)  BY <1>1, <3>1 DEF RunSent, Sent
    <3>3. Sent(e)' /\ OfRun(e, code', exited'.chunks)  BY <3>1, <3>2, SentStays
    <3> QED  BY <3>3 DEF Sent
  <2> QED  BY <2>1, <2>2
<1>5. Drained'
  <2> SUFFICES ASSUME main' = "return" \/ (main' = "returned" /\ pump' # "none")
               PROVE  \A i \in DOMAIN stream' : stream'[i].src = "input"
    BY DEF Drained
  <2>1. CASE DrainEnds
    <3>1. stream' = <<>>  BY <2>1 DEF DrainEnds, logVars
    <3> QED  BY <3>1
  <2>2. CASE ~DrainEnds
    <3>1. main = "return" \/ (main = "returned" /\ pump # "none")
      <4>1. CASE Main
        BY <1>1, <2>2, <4>1
        DEF Main, GiveUp, OpenStore, OpenStoreFails, StartKernel, Resolve, ResolveFails, Spawn,
            SpawnFails, FallBack, StartThreads, HandlesFail, WaitChild, WaitFails, JoinWatcher,
            JoinPump, EmitRun, Stop, JoinKernel, Drain, Return, FallbackReturns,
            ptyVars, PtyInv, Before
      <4>2. CASE Threads
        BY <4>2
        DEF Threads, ForwardLine, ForwardPart, StdinEnds, EmitLine, ReadChunk, PumpEnds,
            WatcherEnds, ReadRing, ReaderEnds, ptyVars
      <4>3. CASE Tree
        BY <4>3
        DEF Tree, Output, Exec, ToolCall, LeaveBackground, BackgroundEnds, AgentExits, DirectExits,
            ptyVars
      <4>4. CASE UNCHANGED vars
        BY <4>4 DEF vars, ptyVars
      <4> QED  BY <4>1, <4>2, <4>3, <4>4 DEF Next, Terminated
    <3>2. \A i \in DOMAIN stream : stream[i].src = "input"  BY <1>1, <3>1 DEF Drained
    <3>3. CASE EmitLine
      <4>1. stream' = Append(stream, Event("input", typed))  BY <3>3 DEF EmitLine, Emit
      <4>2. Event("input", typed) \in Events /\ Event("input", typed).src = "input"
        BY Queues DEF Event
      <4>3. \A i \in DOMAIN stream' : stream'[i] = Event("input", typed)
                                     \/ (i \in DOMAIN stream /\ stream'[i] = stream[i])
        BY <4>1, <4>2, Queues, EventAppended
      <4> QED  BY <3>2, <4>2, <4>3
    <3>4. ~EmitRun /\ ~Drain /\ ~ReadRing
      BY <1>1, <3>1 DEF EmitRun, Drain, ReadRing, ReaderInv
    <3>5. CASE UNCHANGED stream
      BY <3>2, <3>5
    <3> QED  BY <3>3, <3>4, <3>5, Kinds DEF Quiet, Exec, ToolCall, logVars
  <2> QED  BY <2>1, <2>2
<1> QED  BY <1>2, <1>3, <1>4, <1>5 DEF SentInv

LEMMA InitSent == Init => SentInv
  BY DEF Init, SentInv, InputSent, ExecsSent, RunSent, Drained, After

LEMMA AllSent == Spec => []SentInv
  BY InitSent, SentStep, Stage, PTL DEF Spec

\* Of a session that was recorded, run leaves nothing but input in the channel:
\* the reader was joined, with an empty ring, before the drain.
THEOREM OnlyInputSafety == Spec => []OnlyInputDropped
<1>1. SentInv => OnlyInputDropped  BY DEF SentInv, Drained, OnlyInputDropped
<1> QED  BY <1>1, AllSent, PTL

\* The process_run record has the agent's exit code and its whole output.
THEOREM TranscriptSafety == Spec => []TranscriptComplete
<1>1. StageInv /\ SentInv => TranscriptComplete
  <2> SUFFICES ASSUME StageInv, SentInv, main = "returned", watcher = "done"
               PROVE  \E e \in Accounted : OfRun(e, code, exited.chunks)
    BY DEF TranscriptComplete, Completed, OfRun
  <2>1. pump # "none"  BY DEF StageInv, PtyInv
  <2>2. \A i \in DOMAIN stream : ~OfRun(stream[i], code, exited.chunks)
    BY <2>1 DEF SentInv, Drained, OfRun
  <2> QED  BY <2>2 DEF SentInv, RunSent, After
<1> QED  BY <1>1, Stage, AllSent, PTL

\* What the tree executed while the reader was there is in the log, was reported
\* as lost, or found the ring full.
THEOREM ExecsSafety == Spec => []ExecsComplete
<1>1. StageInv /\ SentInv => ExecsComplete
  <2> SUFFICES ASSUME StageInv, SentInv, main = "returned", watcher = "done", kernel # "none",
                      NEW n \in 1 .. exited.execs, n \notin missed
               PROVE  Event("kernel", n) \in Accounted
    BY DEF ExecsComplete, Completed
  <2>1. CountOK /\ QueueOK /\ PtyInv /\ ReaderInv  BY TypeParts DEF StageInv
  <2>2. pump # "none" /\ kernel = "done" /\ ring = <<>>
    BY <2>1 DEF PtyInv, ReaderInv
  <2>3. ~InRing(n)  BY <2>2 DEF InRing
  <2>4. n \in 1 .. execs  BY <2>1, Bounds DEF CountOK
  <2>5. \A i \in DOMAIN stream : stream[i] # Event("kernel", n)
    BY <2>2 DEF SentInv, Drained, Event
  <2> QED  BY <2>3, <2>4, <2>5 DEF SentInv, ExecsSent, Sent
<1> QED  BY <1>1, Stage, AllSent, PTL

-----------------------------------------------------------------------------
(* The order of what is on its way.                                         *)

LEMMA Logged ==
    ASSUME StageInv
    PROVE  /\ stream \in Seq(Events) /\ log \in Seq(Events)
           /\ Accounted \subseteq Events /\ Channel \subseteq Events
           /\ \A e \in Events : e.n \in Nat
<1>1. stream \in Seq(Events) /\ log \in Seq(Events) /\ lost \subseteq Events
  BY TypeParts DEF StageInv, QueueOK
<1>2. Accounted \subseteq Events  BY <1>1 DEF Accounted, Recorded
<1>3. Channel \subseteq Events  BY <1>1 DEF Channel
<1>4. \A e \in Events : e.n \in Nat  BY DEF Events
<1> QED  BY <1>1, <1>2, <1>3, <1>4

LEMMA Increases ==
    ASSUME NEW s \in Seq(Events), NEW x \in Events, NEW t, t = Append(s, x), Increasing(s),
           \A i \in DOMAIN s : s[i].src = x.src => s[i].n < x.n
    PROVE  Increasing(t)
  BY Appended DEF Increasing

\* A step only adds to what happened, and main does not leave After.
LEMMA PastStays ==
    ASSUME StageInv, [Next]_vars, NEW e \in Events, Past(e)
    PROVE  Past(e)'
<1>1. e.n \in Nat  BY DEF Events
<1>2. e.src = "input" => e.n <= typed' /\ (Emitting' => e.n < typed')
  <2>1. CASE UNCHANGED stdinVars
    BY <2>1 DEF Past, stdinVars, Emitting
  <2>2. CASE Quiet \/ EmitLine
    BY <1>1, <2>2, Queues DEF Past, Quiet, EmitLine, Emitting
  <2> QED
    BY <2>1, <2>2, Kinds DEF EmitRun, Drain, ReadRing, Exec, ToolCall
<1>3. e.src = "kernel" => e.n <= execs' /\ \A i \in DOMAIN ring' : e.n < ring'[i]
  <2> SUFFICES ASSUME e.src = "kernel"
               PROVE  e.n <= execs' /\ \A i \in DOMAIN ring' : e.n < ring'[i]
    OBVIOUS
  <2>1. e.n <= execs /\ \A i \in DOMAIN ring : e.n < ring[i]  BY DEF Past
  <2>2. CASE UNCHANGED <<execs, ring>>
    BY <2>1, <2>2
  <2>3. CASE ReadRing
    <3>1. execs' = execs /\ ring # <<>> /\ ring' = Tail(ring)  BY <2>3 DEF ReadRing
    <3> QED  BY <2>1, <3>1, Queues, Taken
  <2>4. CASE Exec
    <3>1. execs' = execs + 1 /\ (ring' = ring \/ ring' = Append(ring, execs + 1))
      BY <2>4 DEF Exec
    <3>2. e.n <= execs'  BY <1>1, <2>1, <3>1, Queues
    <3>3. CASE ring' = Append(ring, execs + 1)
      <4>1. ring \in Seq(Nat) /\ execs + 1 \in Nat
        <5>1. 1 .. execs \subseteq Nat /\ execs + 1 \in Nat  BY Queues
        <5> QED  BY <5>1, Queues, SeqMonotonic
      <4>2. \A i \in DOMAIN ring' : ring'[i] = execs + 1 \/ (i \in DOMAIN ring /\ ring'[i] = ring[i])
        BY <3>3, <4>1, Appended
      <4> QED  BY <1>1, <2>1, <3>2, <4>2, Queues
    <3> QED  BY <2>1, <3>1, <3>2, <3>3
  <2> QED
    BY <2>2, <2>3, <2>4, Kinds DEF Quiet, EmitRun, Drain, EmitLine, ToolCall, kernelVars
<1>4. e.src = "hook" => e.n <= hooks'
  <2>1. hooks' = hooks \/ hooks' = hooks + 1
    BY Kinds DEF Quiet, EmitRun, Drain, EmitLine, ReadRing, Exec, ToolCall, logVars
  <2> QED  BY <1>1, <2>1, Queues DEF Past
<1>5. main \in After => main' \in After
  <2>1. CASE Main
    BY <2>1
    DEF Main, GiveUp, OpenStore, OpenStoreFails, StartKernel, Resolve, ResolveFails, Spawn,
        SpawnFails, FallBack, StartThreads, HandlesFail, WaitChild, WaitFails, JoinWatcher,
        JoinPump, EmitRun, Stop, JoinKernel, Drain, DrainEnds, Return, FallbackReturns, After
  <2>2. CASE Threads
    BY <2>2
    DEF Threads, ForwardLine, ForwardPart, StdinEnds, EmitLine, ReadChunk, PumpEnds,
        WatcherEnds, ReadRing, ReaderEnds
  <2>3. CASE Tree
    BY <2>3
    DEF Tree, Output, Exec, ToolCall, LeaveBackground, BackgroundEnds, AgentExits, DirectExits
  <2> QED  BY <2>1, <2>2, <2>3 DEF Next, Terminated, vars
<1> QED  BY <1>2, <1>3, <1>4, <1>5 DEF Past

\* An event that is emitted happened after all that are in the channel or left it.
LEMMA EmitOrder ==
    ASSUME StageInv, OrderInv, [Next]_vars,
           NEW x \in Events, stream' = Append(stream, x), UNCHANGED <<log, lost>>,
           x.src # "hook", Past(x)',
           \A e \in Accounted \cup Channel : e.src = x.src => e.n < x.n
    PROVE  StreamOrder' /\ LogOrder'
<1>1. /\ stream \in Seq(Events) /\ log \in Seq(Events)
      /\ Accounted \subseteq Events /\ Accounted' = Accounted
  BY Logged DEF Accounted, Recorded
<1>2. Increasing(stream) /\ Increasing(log)  BY DEF OrderInv, StreamOrder, LogOrder
<1>3. Increasing(stream')
  <2>1. \A i \in DOMAIN stream : stream[i] \in Channel  BY DEF Channel
  <2>2. \A i \in DOMAIN stream : stream[i].src = x.src => stream[i].n < x.n  BY <2>1
  <2> QED  BY <1>1, <1>2, <2>2, Increases
<1>4. \A i \in DOMAIN stream' : stream'[i] = x \/ (i \in DOMAIN stream /\ stream'[i] = stream[i])
  BY <1>1, EventAppended
<1>5. Channel \subseteq Events /\ Channel' \subseteq Channel \cup {x}
  BY <1>1, <1>4 DEF Channel
<1>6. \A e \in Channel' : Past(e)' /\ e.src # "hook"
  BY <1>5, PastStays DEF OrderInv, StreamOrder
<1>7. \A e \in Accounted : Past(e)'
  BY <1>1, PastStays DEF OrderInv, LogOrder
<1>8. \A e \in Accounted, j \in DOMAIN stream' : e.src = stream'[j].src => e.n < stream'[j].n
  BY <1>4 DEF OrderInv, LogOrder
<1>9. Increasing(log')  BY <1>2 DEF Increasing
<1> QED  BY <1>1, <1>3, <1>6, <1>7, <1>8, <1>9 DEF StreamOrder, LogOrder

LEMMA RingStep == StageInv /\ OrderInv /\ [Next]_vars => RingOrder'
<1> SUFFICES ASSUME StageInv, OrderInv, [Next]_vars  PROVE RingOrder'  OBVIOUS
<1>1. RingOrder  BY DEF OrderInv
<1>2. CASE UNCHANGED ring
  BY <1>1, <1>2 DEF RingOrder
<1>3. CASE ReadRing
  <2>1. ring # <<>> /\ ring' = Tail(ring)  BY <1>3 DEF ReadRing
  <2>2. /\ Len(ring) \in Nat /\ DOMAIN ring = 1 .. Len(ring) /\ DOMAIN Tail(ring) = 1 .. Len(ring) - 1
        /\ \A j \in 1 .. Len(ring) - 1 : Tail(ring)[j] = ring[j + 1]
    BY <2>1, Queues, HeadTailProperties, LenProperties
  <2> QED  BY <1>1, <2>1, <2>2 DEF RingOrder
<1>4. CASE Exec
  <2>1. ring \in Seq(Nat) /\ execs + 1 \in Nat
    <3>1. 1 .. execs \subseteq Nat /\ execs + 1 \in Nat  BY Queues
    <3> QED  BY <3>1, Queues, SeqMonotonic
  <2>2. CASE ring' = Append(ring, execs + 1)
    <3>1. \A i \in DOMAIN ring : ring[i] \in 1 .. execs  BY Queues
    <3>2. \A i, j \in DOMAIN ring' : i < j =>
             /\ i \in DOMAIN ring /\ ring'[i] = ring[i]
             /\ ring'[j] = execs + 1 \/ (j \in DOMAIN ring /\ ring'[j] = ring[j])
      BY <2>1, <2>2, Appended
    <3>3. ASSUME NEW i \in DOMAIN ring', NEW j \in DOMAIN ring', i < j
          PROVE  ring'[i] < ring'[j]
      <4>1. ring'[i] = ring[i] /\ ring[i] \in 1 .. execs /\ i \in DOMAIN ring
        BY <3>1, <3>2, <3>3
      <4>2. CASE ring'[j] = execs + 1  BY <4>1, <4>2, Queues
      <4>3. CASE j \in DOMAIN ring /\ ring'[j] = ring[j]
        BY <1>1, <3>3, <4>1, <4>3 DEF RingOrder
      <4> QED  BY <3>2, <3>3, <4>2, <4>3
    <3> QED  BY <3>3 DEF RingOrder
  <2> QED  BY <1>2, <1>4, <2>2 DEF Exec
<1> QED
  BY <1>2, <1>3, <1>4, Kinds DEF Quiet, EmitRun, Drain, EmitLine, ToolCall, kernelVars

LEMMA EventsStep == StageInv /\ OrderInv /\ [Next]_vars => StreamOrder' /\ LogOrder'
<1> SUFFICES ASSUME StageInv, OrderInv, [Next]_vars  PROVE StreamOrder' /\ LogOrder'  OBVIOUS
<1>1. /\ stream \in Seq(Events) /\ log \in Seq(Events) /\ Accounted \subseteq Events
      /\ Channel \subseteq Events /\ \A e \in Events : e.n \in Nat
  BY Logged
<1>2. /\ Increasing(stream) /\ Increasing(log) /\ RingOrder
      /\ \A e \in Accounted \cup Channel : Past(e) /\ Past(e)'
      /\ \A e \in Channel : e.src # "hook"
  BY <1>1, PastStays DEF OrderInv, StreamOrder, LogOrder
<1>3. \A e \in Accounted, j \in DOMAIN stream : e.src = stream[j].src => e.n < stream[j].n
  BY DEF OrderInv, LogOrder
<1>4. CASE UNCHANGED <<stream, log, lost>>
  <2>1. Increasing(stream') /\ Increasing(log') /\ Channel' = Channel /\ Accounted' = Accounted
    BY <1>2, <1>4 DEF Increasing, Channel, Accounted, Recorded
  <2> QED  BY <1>2, <1>3, <1>4, <2>1 DEF StreamOrder, LogOrder
<1>5. CASE EmitLine
  <2> PICK x \in Events : x = Event("input", typed)  BY Queues
  <2>1. stream' = Append(stream, x) /\ UNCHANGED <<log, lost, typed>> /\ Emitting /\ ~Emitting'
    BY <1>5 DEF EmitLine, Emit, Emitting
  <2>2. x.src = "input" /\ x.n = typed  BY DEF Event
  <2>3. Past(x)'  BY <2>1, <2>2, Queues DEF Past
  <2>4. \A e \in Accounted \cup Channel : e.src = x.src => e.n < x.n
    BY <1>2, <2>1, <2>2 DEF Past
  <2> QED  BY <2>1, <2>2, <2>3, <2>4, EmitOrder
<1>6. CASE ReadRing
  <2>0. Head(ring) \in 1 .. execs  BY <1>6, Queues, HeadTailProperties DEF ReadRing
  <2> PICK x \in Events : x = Event("kernel", Head(ring))  BY <2>0, Queues
  <2>1. /\ stream' = Append(stream, x) /\ UNCHANGED <<log, lost, execs>>
        /\ ring # <<>> /\ ring' = Tail(ring)
    BY <1>6 DEF ReadRing, Emit
  <2>2. 1 \in DOMAIN ring /\ Head(ring) = ring[1]  BY <2>1, Queues, Taken
  <2>3. x.src = "kernel" /\ x.n = Head(ring)  BY DEF Event
  <2>4. \A i \in DOMAIN ring' : i + 1 \in DOMAIN ring /\ 1 < i + 1 /\ ring'[i] = ring[i + 1]
    BY <2>1, Queues, Taken
  <2>5. \A i \in DOMAIN ring' : Head(ring) < ring'[i]
    BY <1>2, <2>2, <2>4 DEF RingOrder
  <2>6. Past(x)'
    <3>1. Head(ring) <= execs'  BY <2>0, <2>1, Queues
    <3> QED  BY <2>3, <2>5, <3>1 DEF Past
  <2>7. \A e \in Accounted \cup Channel : e.src = x.src => e.n < x.n
    BY <1>2, <2>2, <2>3 DEF Past
  <2> QED  BY <2>1, <2>3, <2>6, <2>7, EmitOrder
<1>7. CASE EmitRun
  <2> PICK x \in Events : x = RunEvent(ExitCode(code), transcript)  BY <1>7, Queues
  <2>1. stream' = Append(stream, x) /\ UNCHANGED <<log, lost>> /\ main = "emit" /\ main' = "stop"
    BY <1>7 DEF EmitRun, Emit
  <2>2. x.src = "run"  BY DEF RunEvent
  <2>3. Past(x)'  BY <2>1, <2>2 DEF Past, After
  <2>4. \A e \in Accounted \cup Channel : e.src # x.src
    BY <1>2, <2>1, <2>2 DEF Past, After
  <2> QED  BY <2>1, <2>2, <2>3, <2>4, EmitOrder
<1>8. CASE Drain
  <2> DEFINE x == Head(stream)
  <2>1. /\ stream # <<>> /\ stream' = Tail(stream)
        /\ \/ log' = Append(log, x) /\ lost' = lost
           \/ lost' = lost \cup {x} /\ log' = log
    BY <1>8 DEF Drain
  <2>2. x \in Events /\ x \in Channel /\ 1 \in DOMAIN stream /\ x = stream[1]
    BY <1>1, <2>1, HeadTailProperties, Taken DEF Channel
  <2>3. /\ Len(stream) \in Nat /\ DOMAIN stream = 1 .. Len(stream)
        /\ DOMAIN stream' = 1 .. Len(stream) - 1
        /\ \A j \in DOMAIN stream' : stream'[j] = stream[j + 1]
    BY <1>1, <2>1, HeadTailProperties, LenProperties
  <2>4. Increasing(stream')  BY <1>2, <2>3 DEF Increasing
  <2>5. Channel' \subseteq Channel  BY <2>3 DEF Channel
  <2>6. \A j \in DOMAIN stream' : j + 1 \in DOMAIN stream /\ stream'[j] = stream[j + 1]
                                 /\ (x.src = stream'[j].src => x.n < stream'[j].n)
    BY <1>2, <2>2, <2>3 DEF Increasing
  <2>7. Accounted' \subseteq Accounted \cup {x}
    <3>1. CASE log' = log  BY <2>1, <3>1 DEF Accounted, Recorded
    <3>2. CASE log' = Append(log, x) /\ lost' = lost
      BY <1>1, <2>2, <3>2, EventAppended DEF Accounted, Recorded
    <3> QED  BY <2>1, <3>1, <3>2
  <2>8. Increasing(log')
    <3>1. CASE log' = log  BY <1>2, <3>1 DEF Increasing
    <3>2. CASE log' = Append(log, x)
      <4>1. \A i \in DOMAIN log : log[i].src = x.src => log[i].n < x.n
        BY <1>3, <2>2 DEF Accounted, Recorded
      <4> QED  BY <1>1, <1>2, <2>2, <3>2, <4>1, Increases
    <3> QED  BY <2>1, <3>1, <3>2
  <2> HIDE DEF x
  <2>9. \A e \in Accounted', j \in DOMAIN stream' : e.src = stream'[j].src => e.n < stream'[j].n
    BY <1>3, <2>6, <2>7
  <2> QED  BY <1>2, <2>2, <2>4, <2>5, <2>7, <2>8, <2>9 DEF StreamOrder, LogOrder
<1>9. CASE ToolCall
  <2> PICK x \in Events : x = Event("hook", hooks + 1)  BY Queues
  <2>1. /\ UNCHANGED <<stream, lost>> /\ hooks' = hooks + 1
        /\ log' = log \/ log' = Append(log, x)
    BY <1>9 DEF ToolCall
  <2>2. x.src = "hook" /\ x.n = hooks + 1  BY DEF Event
  <2>3. CASE log' = Append(log, x)
    <3>1. \A e \in Accounted : e.src = x.src => e.n < x.n
      BY <1>1, <1>2, <2>2, Queues DEF Past
    <3>2. Increasing(log')
      <4>1. \A i \in DOMAIN log : log[i].src = x.src => log[i].n < x.n
        BY <3>1 DEF Accounted, Recorded
      <4> QED  BY <1>1, <1>2, <2>3, <4>1, Increases
    <3>3. Accounted' \subseteq Accounted \cup {x}
      BY <1>1, <2>1, <2>2, <2>3, EventAppended DEF Accounted, Recorded
    <3>4. Channel' = Channel /\ Increasing(stream')  BY <1>2, <2>1 DEF Channel, Increasing
    <3>5. Past(x)'  BY <2>1, <2>2, Queues DEF Past
    <3>6. \A e \in Accounted', j \in DOMAIN stream' : e.src = stream'[j].src => e.n < stream'[j].n
      BY <1>2, <1>3, <2>1, <2>2, <3>3 DEF Channel
    <3> QED  BY <1>2, <3>2, <3>3, <3>4, <3>5, <3>6 DEF StreamOrder, LogOrder
  <2> QED  BY <1>4, <2>1, <2>3
<1>10. CASE Quiet \/ Exec
  BY <1>4, <1>10 DEF Quiet, Exec, logVars
<1> QED  BY <1>5, <1>6, <1>7, <1>8, <1>9, <1>10, Kinds

LEMMA InitOrder == Init => OrderInv
  BY DEF Init, OrderInv, RingOrder, StreamOrder, LogOrder, Increasing, Channel, Accounted, Recorded

LEMMA Order == Spec => []OrderInv
<1>1. StageInv /\ OrderInv /\ [Next]_vars => OrderInv'
  BY RingStep, EventsStep DEF OrderInv
<1> QED  BY <1>1, InitOrder, Stage, PTL DEF Spec

\* The events of one source come to the log in order, and what a session misses
\* of a source is a tail: if an earlier event were in the ring, in the channel
\* or with the stdin pump, the later one would not be past it.
THEOREM NoGapsSafety == Spec => []NoGaps
<1>1. StageInv /\ SentInv /\ OrderInv => NoGaps
  <2> SUFFICES ASSUME StageInv, SentInv, OrderInv  PROVE NoGaps  OBVIOUS
  <2>1. \A i, j \in DOMAIN log : i < j /\ log[i].src = log[j].src => log[i].n < log[j].n
    BY DEF OrderInv, LogOrder, Increasing
  <2>2. ASSUME NEW e \in Accounted, e.src \in {"input", "kernel"}, NEW m \in 1 .. e.n - 1
        PROVE  (e.src = "kernel" /\ m \in missed) \/ Event(e.src, m) \in Accounted
    <3>1. Past(e) /\ e.n \in Nat /\ typed \in Nat /\ execs \in Nat
      <4>1. typed \in Nat /\ execs \in Nat  BY TypeParts, Bounds DEF StageInv, CountOK
      <4>2. e.n \in Nat  BY Logged
      <4> QED  BY <4>1, <4>2 DEF OrderInv, LogOrder
    <3>2. \A j \in DOMAIN stream : stream[j] # Event(e.src, m)
      <4> SUFFICES ASSUME NEW j \in DOMAIN stream, stream[j] = Event(e.src, m)  PROVE FALSE
        OBVIOUS
      <4>1. stream[j].src = e.src /\ stream[j].n = m  BY DEF Event
      <4>2. e.n < m  BY <4>1 DEF OrderInv, LogOrder
      <4> QED  BY <3>1, <4>2
    <3>3. CASE e.src = "input"
      <4>1. m \in 1 .. typed /\ ~(Emitting /\ m = typed)  BY <3>1, <3>3 DEF Past
      <4>2. Sent(Event("input", m))  BY <4>1 DEF SentInv, InputSent
      <4> QED  BY <3>2, <3>3, <4>2 DEF Sent
    <3>4. CASE e.src = "kernel"
      <4>1. m \in 1 .. execs /\ ~InRing(m)  BY <3>1, <3>4 DEF Past, InRing
      <4>2. m \in missed \/ Sent(Event("kernel", m))  BY <4>1 DEF SentInv, ExecsSent
      <4> QED  BY <3>2, <3>4, <4>2 DEF Sent
    <3> QED  BY <2>2, <3>3, <3>4
  <2> QED  BY <2>1, <2>2 DEF NoGaps
<1> QED  BY <1>1, Stage, AllSent, Order, PTL

-----------------------------------------------------------------------------
(* A session is the agent run directly.                                     *)

\* While nothing fails after the spawn, the agent runs once.
LEMMA OnceStep ==
    ASSUME "handles" \notin Faults
    PROVE  StageInv /\ AgentStartedOnce /\ [Next]_vars => AgentStartedOnce'
<1> SUFFICES ASSUME StageInv, AgentStartedOnce, [Next]_vars  PROVE AgentStartedOnce'
  OBVIOUS
<1> USE DEF vars, agentVars, AgentStartedOnce
<1>1. ControlOK /\ AgentInv  BY TypeParts DEF StageInv
<1>2. CASE Main
  BY <1>1, <1>2
  DEF Main, GiveUp, OpenStore, OpenStoreFails, StartKernel, Resolve, ResolveFails, Spawn,
      SpawnFails, FallBack, StartThreads, HandlesFail, WaitChild, WaitFails, JoinWatcher,
      JoinPump, EmitRun, Stop, JoinKernel, Drain, DrainEnds, Return, FallbackReturns,
      AgentInv, Before, Fails
<1>3. CASE Threads
  BY <1>3
  DEF Threads, ForwardLine, ForwardPart, StdinEnds, EmitLine, ReadChunk, PumpEnds,
      WatcherEnds, ReadRing, ReaderEnds
<1>4. CASE Tree
  BY <1>4
  DEF Tree, Output, Exec, ToolCall, LeaveBackground, BackgroundEnds, AgentExits, DirectExits
<1> QED  BY <1>2, <1>3, <1>4 DEF Next, Terminated

\* One agent, recorded or not, unless the PTY breaks between the spawn and the
\* threads: that is the one failure after which run starts it a second time.
THEOREM OnceSafety ==
    ASSUME "handles" \notin Faults
    PROVE  Spec => []AgentStartedOnce
<1>1. Init => AgentStartedOnce  BY DEF Init, AgentStartedOnce
<1> QED  BY <1>1, OnceStep, Stage, PTL DEF Spec

\* When run has reaped the agent it has its code, and returns it.
CodeInv == main \in After => (agent = "exited" \/ direct = "exited") /\ result = ExitCode(code)

LEMMA CodeStep ==
    ASSUME Faults \subseteq {"kernel", "pty", "append"}
    PROVE  StageInv /\ AgentStartedOnce /\ CodeInv /\ [Next]_vars => CodeInv'
<1> SUFFICES ASSUME StageInv, AgentStartedOnce, CodeInv, [Next]_vars  PROVE CodeInv'
  OBVIOUS
<1> USE DEF vars, agentVars, CodeInv
<1>1. ControlOK /\ AgentInv /\ PtyInv  BY TypeParts DEF StageInv
<1>2. CASE Main
  BY <1>1, <1>2
  DEF Main, GiveUp, OpenStore, OpenStoreFails, StartKernel, Resolve, ResolveFails, Spawn,
      SpawnFails, FallBack, StartThreads, HandlesFail, WaitChild, WaitFails, JoinWatcher,
      JoinPump, EmitRun, Stop, JoinKernel, Drain, DrainEnds, Return, FallbackReturns,
      PtyInv, After, Fails
<1>3. CASE Threads
  BY <1>3
  DEF Threads, ForwardLine, ForwardPart, StdinEnds, EmitLine, ReadChunk, PumpEnds,
      WatcherEnds, ReadRing, ReaderEnds
<1>4. CASE Tree
  <2>1. main \in After => agent # "running" /\ direct # "running"
    BY <1>1 DEF AgentStartedOnce
  <2> QED
    BY <1>4, <2>1
    DEF Tree, Output, Exec, ToolCall, LeaveBackground, BackgroundEnds, AgentExits, DirectExits
<1> QED  BY <1>2, <1>3, <1>4 DEF Next, Terminated

LEMMA DirectStep ==
    ASSUME Faults \subseteq {"kernel", "pty", "append"}, Signal \notin Codes
    PROVE  StageInv /\ AgentStartedOnce /\ CodeInv /\ [Next]_vars
              => [AsDirect!Next]_(AsDirect!vars)
<1> SUFFICES ASSUME StageInv, AgentStartedOnce, CodeInv, [Next]_vars
             PROVE  [AsDirect!Next]_(AsDirect!vars)
  OBVIOUS
<1> USE DEF agentVars, AsDirect!Next, AsDirect!vars
<1>1. ControlOK /\ AgentInv  BY TypeParts DEF StageInv
<1>2. \A c \in Codes : ExitCode(c) = c  BY DEF ExitCode
<1>3. main \in After => code \in Codes  BY <1>1 DEF CodeInv, AgentInv, AgentStartedOnce
<1>4. CASE main # "returned" /\ main' # "returned" /\ UNCHANGED <<agent, code, direct>>
  BY <1>4
<1>5. CASE Spawn
  BY <1>1, <1>5 DEF Spawn, AgentInv, Before, AsDirect!Start
<1>6. CASE SpawnFails
  BY <1>1, <1>6 DEF SpawnFails, FallBack, GiveUp, Fails, AgentInv, Before, AsDirect!Start
<1>7. CASE Return
  BY <1>1, <1>2, <1>3, <1>7
  DEF Return, CodeInv, After, AgentInv, Recording, AsDirect!Return
<1>8. CASE FallbackReturns
  BY <1>1, <1>2, <1>8 DEF FallbackReturns, AgentInv, AgentStartedOnce, AsDirect!Return
<1>9. CASE AgentExits
  BY <1>1, <1>9 DEF AgentExits, AgentStartedOnce, CodeInv, After, AsDirect!Exit
<1>10. CASE DirectExits
  BY <1>1, <1>10 DEF DirectExits, AgentStartedOnce, CodeInv, After, AsDirect!Exit
<1>11. CASE Main /\ ~(Spawn \/ SpawnFails \/ Return \/ FallbackReturns)
  BY <1>4, <1>11
  DEF Main, GiveUp, OpenStore, OpenStoreFails, StartKernel, Resolve, ResolveFails,
      StartThreads, HandlesFail, WaitChild, WaitFails, JoinWatcher,
      JoinPump, EmitRun, Stop, JoinKernel, Drain, DrainEnds, Fails
<1>12. CASE Threads \/ (Tree /\ ~AgentExits /\ ~DirectExits)
  <2>1. UNCHANGED <<main, result, agent, code, direct>>
    BY <1>12
    DEF Threads, ForwardLine, ForwardPart, StdinEnds, EmitLine, ReadChunk, PumpEnds,
        WatcherEnds, ReadRing, ReaderEnds, Tree, Output, Exec, ToolCall, LeaveBackground,
        BackgroundEnds
  <2> QED  BY <2>1
<1>13. CASE UNCHANGED vars
  BY <1>13 DEF vars
<1> QED
  BY <1>5, <1>6, <1>7, <1>8, <1>9, <1>10, <1>11, <1>12, <1>13 DEF Next, Tree, Terminated

\* The safety part of ImplementsDirectRun: when the kernel collector, the PTY and
\* appends may fail, and no signal kills the agent, run is seen from outside to
\* start the agent once and to return its exit code, and it does nothing else.
THEOREM DirectSafety ==
    ASSUME Faults \subseteq {"kernel", "pty", "append"}, Signal \notin Codes
    PROVE  Spec => AsDirect!Init /\ [][AsDirect!Next]_(AsDirect!vars)
<1>1. Init => AsDirect!Init /\ AgentStartedOnce /\ CodeInv
  BY DEF Init, AsDirect!Init, AgentStartedOnce, CodeInv, After
<1>2. "handles" \notin Faults  OBVIOUS
<1>3. StageInv /\ AgentStartedOnce /\ CodeInv /\ [Next]_vars => AgentStartedOnce' /\ CodeInv'
  BY <1>2, OnceStep, CodeStep
<1> QED  BY <1>1, <1>3, DirectStep, Stage, PTL DEF Spec

=============================================================================
