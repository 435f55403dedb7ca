--------------------------- MODULE Sessions_proofs ---------------------------
(***************************************************************************)
(* Proofs about Sessions, for any programs, directories, instants and      *)
(* bounds.                                                                 *)
(*                                                                         *)
(* The argument: a session keeps the name, the start directory and the     *)
(* environment it was started with (SessionsGrow), so the variables that a *)
(* hook inherits still name its session's log (EnvInv); and the logs only  *)
(* grow, by records written at the present reading of the clock            *)
(* (WritesGrow), which the last one of them therefore bears (TimeInv).     *)
(*                                                                         *)
(* The names: the digits of a time tell it (DigitsApart), a clean name is  *)
(* a beginning of the name that starts with its digit (CleanIsBeginning),  *)
(* and the dash shows where the digits end; so two sessions of one name    *)
(* have one time (NamedInv).  The texts of two times stand in the order of *)
(* the times unless one has fewer digits behind its point (StampShape).    *)
(***************************************************************************)
EXTENDS Sessions, Induction, Integers, SequenceTheorems, TLAPS

IsSequence(s) == \E S : s \in Seq(S)

IsSession(s) ==
    s = [id |-> s.id, at |-> s.at, program |-> s.program, env |-> s.env, start |-> s.start,
         cwd |-> s.cwd, agent |-> s.agent, recorder |-> s.recorder, buffer |-> s.buffer]

\* As much of the types as the arguments need.
ShapeInv ==
    /\ dataDir \in DataDirs /\ clock \in Instants
    /\ IsSequence(sessions) /\ IsSequence(writes)
    /\ \A i \in DOMAIN sessions : IsSession(sessions[i]) /\ sessions[i].buffer \in Seq(Instants)

\* The environment of a session's agent names the session and its log.
OwnEnv(s) == [log |-> SessionPath(s.id), label |-> s.id]

EnvInv == \A i \in DOMAIN sessions : sessions[i].env = OwnEnv(sessions[i])

OriginInv == \A k \in DOMAIN writes : writes[k].from \in {0} \cup DOMAIN sessions

HookInv == ShapeInv /\ EnvInv /\ OriginInv /\ HookInInnermost

-----------------------------------------------------------------------------
\* What a step does to the sessions.
SessionsGrow ==
    /\ IsSequence(sessions')
    /\ \A i \in DOMAIN sessions' : IsSession(sessions'[i]) /\ sessions'[i].buffer \in Seq(Instants)
    /\ \A i \in DOMAIN sessions :
        /\ i \in DOMAIN sessions'
        /\ sessions'[i].id = sessions[i].id
        /\ sessions'[i].start = sessions[i].start
        /\ sessions'[i].env = sessions[i].env
    /\ \A i \in DOMAIN sessions' \ DOMAIN sessions : sessions'[i].env = OwnEnv(sessions'[i])

\* A session that replaces another one keeps its name, directory and environment.
LEMMA Replace ==
    ASSUME ShapeInv, NEW i \in DOMAIN sessions, NEW s,
           sessions' = [sessions EXCEPT ![i] = s],
           IsSession(s), s.buffer \in Seq(Instants),
           s.id = sessions[i].id, s.start = sessions[i].start, s.env = sessions[i].env
    PROVE  SessionsGrow
<1>1. PICK S : sessions \in Seq(S)  BY DEF ShapeInv, IsSequence
<1>2. sessions \in Seq(S \cup {s})  BY <1>1, SeqMonotonic
<1>3. DOMAIN sessions = 1 .. Len(sessions)  BY <1>1, LenProperties
<1>4. /\ sessions' \in Seq(S \cup {s})
      /\ Len(sessions') = Len(sessions)
      /\ \A j \in 1 .. Len(sessions) : sessions'[j] = IF j = i THEN s ELSE sessions[j]
  BY <1>2, <1>3, ExceptSeq
<1>5. DOMAIN sessions' = DOMAIN sessions  BY <1>3, <1>4, LenProperties
<1> QED  BY <1>3, <1>4, <1>5 DEF SessionsGrow, IsSequence, ShapeInv

\* What EndSession and KillRecorder make of a session.
LEMMA Closed ==
    ASSUME NEW t, IsSession(t), NEW s,
           \/ s = [t EXCEPT !.agent = "ended", !.recorder = "ended", !.buffer = <<>>]
           \/ s = [t EXCEPT !.recorder = "killed", !.buffer = <<>>]
    PROVE  /\ IsSession(s) /\ s.buffer \in Seq(Instants)
           /\ s.id = t.id /\ s.start = t.start /\ s.env = t.env
<1>1. IsSession(s) /\ s.buffer = <<>> /\ s.id = t.id /\ s.start = t.start /\ s.env = t.env
  <2>1. CASE s = [t EXCEPT !.agent = "ended", !.recorder = "ended", !.buffer = <<>>]
    BY <2>1 DEF IsSession
  <2>2. CASE s = [t EXCEPT !.recorder = "killed", !.buffer = <<>>]
    BY <2>2 DEF IsSession
  <2> QED  BY <2>1, <2>2
<1> QED  BY <1>1, EmptySeq

\* What TypeLine makes of one.
LEMMA Typed ==
    ASSUME NEW t, IsSession(t), NEW b \in Seq(Instants), NEW s, s = [t EXCEPT !.buffer = b]
    PROVE  /\ IsSession(s) /\ s.buffer \in Seq(Instants)
           /\ s.id = t.id /\ s.start = t.start /\ s.env = t.env
<1>1. s = [id |-> t.id, at |-> t.at, program |-> t.program, env |-> t.env, start |-> t.start,
           cwd |-> t.cwd, agent |-> t.agent, recorder |-> t.recorder, buffer |-> b]
  BY DEF IsSession
<1> QED  BY <1>1 DEF IsSession

LEMMA Unchanged == ShapeInv /\ UNCHANGED sessions => SessionsGrow
  BY DEF ShapeInv, SessionsGrow

LEMMA GrowStep == ShapeInv /\ [Next]_vars => SessionsGrow
<1> SUFFICES ASSUME ShapeInv, [Next]_vars  PROVE SessionsGrow  OBVIOUS
<1>1. ASSUME NEW p \in Agents, NEW program \in Programs, StartSession(p, program)
      PROVE  SessionsGrow
  <2> DEFINE id == SessionId(clock, program)
             s == [id |-> id, at |-> clock, program |-> program,
                   env |-> [log |-> SessionPath(id), label |-> id], start |-> CwdOf(p),
                   cwd |-> CwdOf(p), agent |-> "running", recorder |-> "running",
                   buffer |-> <<>>]
  <2>1. sessions' = Append(sessions, s)  BY <1>1 DEF StartSession
  <2>2. IsSession(s) /\ s.buffer \in Seq(Instants) /\ s.env = OwnEnv(s)
    BY EmptySeq DEF IsSession, OwnEnv
  <2> HIDE DEF s
  <2>3. PICK S : sessions \in Seq(S)  BY DEF ShapeInv, IsSequence
  <2>4. sessions \in Seq(S \cup {s})  BY <2>3, SeqMonotonic
  <2>5. /\ sessions' \in Seq(S \cup {s})
        /\ Len(sessions') = Len(sessions) + 1
        /\ \A j \in 1 .. Len(sessions) : sessions'[j] = sessions[j]
        /\ sessions'[Len(sessions) + 1] = s
    BY <2>1, <2>4, AppendProperties
  <2>6. /\ DOMAIN sessions = 1 .. Len(sessions) /\ Len(sessions) \in Nat
        /\ DOMAIN sessions' = 1 .. Len(sessions) + 1
    BY <2>4, <2>5, LenProperties
  <2> QED  BY <2>2, <2>5, <2>6 DEF SessionsGrow, IsSequence, ShapeInv
<1>2. ASSUME NEW i \in DOMAIN sessions, NEW d, ChangeDir(i, d)  PROVE SessionsGrow
  <2> DEFINE s == [sessions[i] EXCEPT !.cwd = d]
  <2>1. sessions' = [sessions EXCEPT ![i] = s]  BY <1>2 DEF ChangeDir
  <2>2. IsSession(sessions[i]) /\ sessions[i].buffer \in Seq(Instants)  BY DEF ShapeInv
  <2>3. /\ IsSession(s) /\ s.buffer \in Seq(Instants)
        /\ s.id = sessions[i].id /\ s.start = sessions[i].start /\ s.env = sessions[i].env
    BY <2>2 DEF IsSession
  <2> HIDE DEF s
  <2> QED  BY <2>1, <2>3, Replace
<1>3. ASSUME NEW i \in DOMAIN sessions, TypeLine(i)  PROVE SessionsGrow
  <2> DEFINE b == Append(sessions[i].buffer, clock)
             s == [sessions[i] EXCEPT !.buffer = b]
  <2>1. sessions' = [sessions EXCEPT ![i] = s]  BY <1>3 DEF TypeLine
  <2>2. IsSession(sessions[i]) /\ sessions[i].buffer \in Seq(Instants)  BY DEF ShapeInv
  <2>3. b \in Seq(Instants)  BY <2>2, AppendProperties DEF ShapeInv
  <2> HIDE DEF b
  <2>4. /\ IsSession(s) /\ s.buffer \in Seq(Instants)
        /\ s.id = sessions[i].id /\ s.start = sessions[i].start /\ s.env = sessions[i].env
    BY <2>2, <2>3, Typed
  <2> HIDE DEF s
  <2> QED  BY <2>1, <2>4, Replace
<1>4. ASSUME NEW i \in DOMAIN sessions, EndSession(i)  PROVE SessionsGrow
  <2> DEFINE s == [sessions[i] EXCEPT !.agent = "ended", !.recorder = "ended", !.buffer = <<>>]
  <2>1. sessions' = [sessions EXCEPT ![i] = s]
    BY <1>4 DEF EndSession, ShapeInv, IsSession
  <2>2. IsSession(sessions[i])  BY DEF ShapeInv
  <2>3. /\ IsSession(s) /\ s.buffer \in Seq(Instants)
        /\ s.id = sessions[i].id /\ s.start = sessions[i].start /\ s.env = sessions[i].env
    BY <2>2, Closed
  <2> HIDE DEF s
  <2> QED  BY <2>1, <2>3, Replace
<1>5. ASSUME NEW i \in DOMAIN sessions, KillRecorder(i)  PROVE SessionsGrow
  <2> DEFINE s == [sessions[i] EXCEPT !.recorder = "killed", !.buffer = <<>>]
  <2>1. sessions' = [sessions EXCEPT ![i] = s]
    BY <1>5 DEF KillRecorder, ShapeInv, IsSession
  <2>2. IsSession(sessions[i])  BY DEF ShapeInv
  <2>3. /\ IsSession(s) /\ s.buffer \in Seq(Instants)
        /\ s.id = sessions[i].id /\ s.start = sessions[i].start /\ s.env = sessions[i].env
    BY <2>2, Closed
  <2> HIDE DEF s
  <2> QED  BY <2>1, <2>3, Replace
<1>6. ASSUME UNCHANGED sessions  PROVE SessionsGrow
  BY <1>6, Unchanged
<1>7. \A i \in Agents \ {0} : i \in DOMAIN sessions  BY DEF Agents
<1> QED
  BY <1>1, <1>2, <1>3, <1>4, <1>5, <1>6, <1>7 DEF Next, Tick, ToolCall, vars

\* What a step does to the logs.
WritesGrow ==
    /\ IsSequence(writes')
    /\ Len(writes) <= Len(writes')
    /\ \A k \in DOMAIN writes : writes'[k] = writes[k]
    /\ \A k \in DOMAIN writes' \ DOMAIN writes :
        LET w == writes'[k]
        IN  /\ clock' = clock /\ w.at \in Instants
            /\ \/ \E i \in DOMAIN sessions :
                    w = Record("typed", i, LogOf(i), sessions[i].id, sessions[i].start, w.at)
               \/ \E i \in Agents :
                    LET to == Target(EnvOf(i), AgentSession)
                    IN  w = Record("hook", i, Locate(to.log, CwdOf(i)), to.label, CwdOf(i), clock)
    /\ \A j, k \in DOMAIN writes' \ DOMAIN writes : writes'[j].file = writes'[k].file

LEMMA WriteStep == ShapeInv /\ [Next]_vars => WritesGrow
<1> SUFFICES ASSUME ShapeInv, [Next]_vars  PROVE WritesGrow  OBVIOUS
<1>1. PICK S : writes \in Seq(S)  BY DEF ShapeInv, IsSequence
<1>2. Len(writes) \in Nat /\ DOMAIN writes = 1 .. Len(writes)  BY <1>1, LenProperties
<1>3. ASSUME NEW i \in Agents, ToolCall(i)  PROVE WritesGrow
  <2> DEFINE to == Target(EnvOf(i), AgentSession)
             w == Record("hook", i, Locate(to.log, CwdOf(i)), to.label, CwdOf(i), clock)
  <2>1. writes' = Append(writes, w) /\ clock' = clock  BY <1>3 DEF ToolCall
  <2>2. writes \in Seq(S \cup {w})  BY <1>1, SeqMonotonic
  <2> HIDE DEF w
  <2>3. /\ writes' \in Seq(S \cup {w})
        /\ Len(writes') = Len(writes) + 1
        /\ \A k \in 1 .. Len(writes) : writes'[k] = writes[k]
        /\ writes'[Len(writes) + 1] = w
    BY <2>1, <2>2, AppendProperties
  <2>4. DOMAIN writes' = 1 .. Len(writes) + 1  BY <2>3, LenProperties
  <2>5. DOMAIN writes' \ DOMAIN writes = {Len(writes) + 1}  BY <1>2, <2>4
  <2>6. \E j \in Agents :
            LET t == Target(EnvOf(j), AgentSession)
            IN  w = Record("hook", j, Locate(t.log, CwdOf(j)), t.label, CwdOf(j), clock)
    BY DEF w
  <2>7. w.at \in Instants  BY DEF w, Record, ShapeInv
  <2> QED  BY <1>2, <2>1, <2>3, <2>5, <2>6, <2>7 DEF WritesGrow, IsSequence
<1>4. ASSUME NEW i \in DOMAIN sessions, EndSession(i)  PROVE WritesGrow
  <2> DEFINE b == sessions[i].buffer
             R(at) == Record("typed", i, LogOf(i), sessions[i].id, sessions[i].start, at)
             ws == [k \in DOMAIN b |-> R(b[k])]
             T == {R(b[k]) : k \in DOMAIN b}
  <2>1. writes' = writes \o ws /\ clock' = clock  BY <1>4 DEF EndSession, LogOf
  <2>2. b \in Seq(Instants)  BY DEF ShapeInv
  <2>3. Len(b) \in Nat /\ DOMAIN b = 1 .. Len(b)  BY <2>2, LenProperties
  <2>4. ws \in Seq(T) /\ Len(ws) = Len(b) /\ \A k \in 1 .. Len(b) : ws[k] = R(b[k])
    <3>1. ws \in [1 .. Len(b) -> T]  BY <2>3
    <3>2. ws \in Seq(T)  BY <2>3, <3>1, SeqDef
    <3>3. DOMAIN ws = 1 .. Len(ws) /\ Len(ws) \in Nat  BY <3>2, LenProperties
    <3>4. DOMAIN ws = 1 .. Len(b)  BY <2>3
    <3>5. Len(ws) = Len(b)  BY <2>3, <3>3, <3>4
    <3> QED  BY <2>3, <3>2, <3>5
  <2>5. \A at : R(at) = Record("typed", i, LogOf(i), sessions[i].id, sessions[i].start, R(at).at)
                /\ R(at).file = LogOf(i) /\ R(at).at = at
    BY DEF Record
  <2>6. writes \in Seq(S \cup T) /\ ws \in Seq(S \cup T)  BY <1>1, <2>4, SeqMonotonic
  <2> HIDE DEF ws, T, R, b
  <2>7. /\ writes' \in Seq(S \cup T)
        /\ Len(writes') = Len(writes) + Len(b)
        /\ \A k \in 1 .. Len(writes) + Len(b) :
            writes'[k] = IF k <= Len(writes) THEN writes[k] ELSE ws[k - Len(writes)]
    <3>1. writes' = writes \o ws  BY <2>1
    <3>2. Len(ws) = Len(b)  BY <2>4
    <3>3. /\ writes \o ws \in Seq(S \cup T)
          /\ Len(writes \o ws) = Len(writes) + Len(ws)
          /\ \A k \in 1 .. Len(writes) + Len(ws) :
              (writes \o ws)[k] = IF k <= Len(writes) THEN writes[k] ELSE ws[k - Len(writes)]
      BY <2>6, ConcatProperties
    <3> QED  BY <3>1, <3>2, <3>3
  <2>8. DOMAIN writes' = 1 .. Len(writes) + Len(b)  BY <2>7, LenProperties
  <2>9. ASSUME NEW k \in DOMAIN writes' \ DOMAIN writes
        PROVE  \E at \in Instants : writes'[k] = R(at)
    <3>1. k - Len(writes) \in 1 .. Len(b) /\ ~(k <= Len(writes)) /\ k \in 1 .. Len(writes) + Len(b)
      BY <1>2, <2>3, <2>8
    <3>2. writes'[k] = R(b[k - Len(writes)])  BY <2>4, <2>7, <3>1
    <3>3. b[k - Len(writes)] \in Instants  BY <2>2, <3>1, ElementOfSeq
    <3> QED  BY <3>2, <3>3
  <2>10. \A k \in DOMAIN writes' \ DOMAIN writes :
            /\ writes'[k] = Record("typed", i, LogOf(i), sessions[i].id, sessions[i].start,
                                  writes'[k].at)
            /\ writes'[k].file = LogOf(i) /\ writes'[k].at \in Instants
    BY <2>5, <2>9
  <2>11. \A k \in DOMAIN writes : writes'[k] = writes[k]  BY <1>2, <2>3, <2>7
  <2>12. Len(writes) <= Len(writes')  BY <1>2, <2>3, <2>7
  <2> QED  BY <2>1, <2>7, <2>10, <2>11, <2>12 DEF WritesGrow, IsSequence
<1>5. ASSUME UNCHANGED writes  PROVE WritesGrow
  BY <1>2, <1>5 DEF WritesGrow, ShapeInv
<1>6. \A i \in Agents \ {0} : i \in DOMAIN sessions  BY DEF Agents
<1> QED
  BY <1>3, <1>4, <1>5, <1>6
  DEF Next, Tick, StartSession, ChangeDir, TypeLine, KillRecorder, vars

-----------------------------------------------------------------------------
LEMMA DataDirKept == [Next]_vars => dataDir' = dataDir
  BY DEF Next, vars, Tick, ToolCall, StartSession, TypeLine, EndSession, KillRecorder, ChangeDir

LEMMA ShapeStep == ShapeInv /\ [Next]_vars => ShapeInv'
<1> SUFFICES ASSUME ShapeInv, [Next]_vars  PROVE ShapeInv'  OBVIOUS
<1>1. SessionsGrow /\ WritesGrow  BY GrowStep, WriteStep
<1>2. clock' \in Instants
  BY DEF ShapeInv, Next, vars, Tick, ToolCall, StartSession, TypeLine, EndSession,
         KillRecorder, ChangeDir
<1> QED  BY <1>1, <1>2, DataDirKept DEF ShapeInv, SessionsGrow, WritesGrow, IsSequence

LEMMA InitShape == Init => ShapeInv /\ DOMAIN sessions = {} /\ DOMAIN writes = {}
<1> SUFFICES ASSUME Init  PROVE ShapeInv /\ DOMAIN sessions = {} /\ DOMAIN writes = {}
  OBVIOUS
<1>1. sessions \in Seq({}) /\ writes \in Seq({})  BY EmptySeq DEF Init
<1>2. DOMAIN sessions = 1 .. 0 /\ DOMAIN writes = 1 .. 0
  BY <1>1, EmptySeq, LenProperties DEF Init
<1> QED  BY <1>1, <1>2 DEF ShapeInv, IsSequence, Init

LEMMA HookStep == HookInv /\ [Next]_vars => HookInv'
<1> SUFFICES ASSUME HookInv, [Next]_vars  PROVE HookInv'  OBVIOUS
<1>1. ShapeInv /\ EnvInv /\ OriginInv /\ HookInInnermost  BY DEF HookInv
<1>2. SessionsGrow /\ WritesGrow /\ dataDir' = dataDir  BY <1>1, GrowStep, WriteStep, DataDirKept
<1>3. EnvInv'
  <2> SUFFICES ASSUME NEW i \in DOMAIN sessions'
               PROVE  sessions'[i].env = [log |-> [dir |-> dataDir', name |-> Clean(sessions'[i].id)],
                                          label |-> sessions'[i].id]
    BY DEF EnvInv, OwnEnv, SessionPath
  <2> QED  BY <1>1, <1>2 DEF SessionsGrow, EnvInv, OwnEnv, SessionPath
<1>4. OriginInv'
  <2> SUFFICES ASSUME NEW k \in DOMAIN writes'
               PROVE  writes'[k].from \in {0} \cup DOMAIN sessions'
    BY DEF OriginInv
  <2>1. CASE k \in DOMAIN writes  BY <1>1, <1>2, <2>1 DEF OriginInv, WritesGrow, SessionsGrow
  <2>2. CASE k \notin DOMAIN writes
    BY <1>2, <2>2 DEF WritesGrow, SessionsGrow, Record, Agents
  <2> QED  BY <2>1, <2>2
<1>5. HookInInnermost'
  <2> SUFFICES ASSUME NEW k \in DOMAIN writes', writes'[k].src = "hook", writes'[k].from # 0,
                      dataDir' = "absolute" \/ writes'[k].cwd = sessions'[writes'[k].from].start
               PROVE  LET s == sessions'[writes'[k].from]
                      IN  /\ writes'[k].file = Locate([dir |-> dataDir', name |-> Clean(s.id)], s.start)
                          /\ writes'[k].label = s.id
    BY DEF HookInInnermost, LogOf, SessionPath, Locate
  <2> DEFINE w == writes'[k]
             i == w.from
  <2>1. SUFFICES /\ i \in DOMAIN sessions
                 /\ w.file = LogOf(i) /\ w.label = sessions[i].id
    BY <1>2, <2>1 DEF SessionsGrow, LogOf, SessionPath
  <2>2. CASE k \in DOMAIN writes
    <3>1. w = writes[k] /\ i \in DOMAIN sessions
      BY <1>1, <1>2, <2>2 DEF OriginInv, WritesGrow
    <3>2. dataDir = "absolute" \/ w.cwd = sessions[i].start
      BY <1>2, <3>1 DEF SessionsGrow
    <3> QED  BY <1>1, <2>2, <3>1, <3>2 DEF HookInInnermost
  <2>3. CASE k \notin DOMAIN writes
    <3>1. PICK j \in Agents :
            LET to == Target(EnvOf(j), AgentSession)
            IN  w = Record("hook", j, Locate(to.log, CwdOf(j)), to.label, CwdOf(j), clock)
      BY <1>2, <2>3 DEF WritesGrow, Record
    <3>2. i = j /\ i \in DOMAIN sessions /\ w.cwd = sessions[i].cwd
      BY <3>1 DEF Record, Agents, CwdOf
    <3>3. EnvOf(i) = OwnEnv(sessions[i])  BY <1>1, <3>2 DEF EnvInv, EnvOf
    <3>4. EnvOf(i).log.dir # "none"
      BY <1>1, <3>3, SessionAssumption DEF OwnEnv, SessionPath, ShapeInv
    <3>5. Target(EnvOf(i), AgentSession) = OwnEnv(sessions[i])
      BY <3>3, <3>4 DEF Target, NoEnv
    <3>6. /\ w.label = sessions[i].id
          /\ w.file = Locate(SessionPath(sessions[i].id), sessions[i].cwd)
      BY <3>1, <3>2, <3>5 DEF Record, OwnEnv, CwdOf
    <3>7. w.file = LogOf(i)
      BY <1>2, <3>2, <3>6 DEF LogOf, Locate, SessionPath, SessionsGrow
    <3> QED  BY <3>2, <3>6, <3>7
  <2> QED  BY <2>2, <2>3
<1> QED  BY <1>1, <1>3, <1>4, <1>5, ShapeStep DEF HookInv

\* Whatever the agents' names, however deep their sessions are nested, wherever
\* they go and whoever of the recorders is killed, a tool call is recorded in the
\* log of the innermost session, under its name.
THEOREM HooksFollowSession == Spec => []HookInInnermost
<1>1. Init => HookInv
  BY InitShape DEF HookInv, EnvInv, OriginInv, HookInInnermost
<1>2. HookInv /\ [Next]_vars => HookInv'  BY HookStep
<1>3. HookInv => HookInInnermost  BY DEF HookInv
<1> QED  BY <1>1, <1>2, <1>3, PTL DEF Spec

-----------------------------------------------------------------------------
Written(f) == {k \in DOMAIN writes : writes[k].file = f}

\* No record is younger than the last, and every file has a youngest record.
TimeInv ==
    /\ ShapeInv
    /\ \A k \in DOMAIN writes : writes[k].wrote \in Nat /\ writes[k].wrote <= clock
    /\ \A k \in DOMAIN writes : writes[k].wrote <= writes[Len(writes)].wrote
    /\ \A f \in Files : \E j \in Written(f) :
          \A k \in Written(f) : writes[k].wrote <= writes[j].wrote

\* The clock does not go back, and what is written bears its reading.
LEMMA ClockStep ==
    ASSUME ShapeInv, [Next]_vars
    PROVE  /\ clock \in Nat /\ clock' \in Nat /\ clock <= clock'
           /\ \A k \in DOMAIN writes' \ DOMAIN writes :
                 writes'[k].wrote = clock /\ clock' = clock
<1>1. clock \in Nat /\ clock' \in Nat
  <2>1. clock \in Instants /\ clock' \in Instants  BY ShapeStep DEF ShapeInv
  <2>2. Instants \subseteq 0 .. 999  BY SessionAssumption
  <2> QED  BY <2>1, <2>2
<1>2. clock <= clock'
  <2>1. clock' = clock \/ clock' > clock
    BY DEF Next, vars, Tick, ToolCall, StartSession, TypeLine, EndSession, KillRecorder, ChangeDir
  <2> QED  BY <1>1, <2>1
<1>3. \A k \in DOMAIN writes' \ DOMAIN writes : writes'[k].wrote = clock /\ clock' = clock
  BY WriteStep DEF WritesGrow, Record
<1> QED  BY <1>1, <1>2, <1>3

LEMMA TimeStep == TimeInv /\ [Next]_vars => TimeInv'
<1> SUFFICES ASSUME TimeInv, [Next]_vars  PROVE TimeInv'  OBVIOUS
<1>1. ShapeInv /\ ShapeInv' /\ WritesGrow  BY ShapeStep, WriteStep DEF TimeInv
<1>2. /\ DOMAIN writes = 1 .. Len(writes) /\ Len(writes) \in Nat
      /\ DOMAIN writes' = 1 .. Len(writes') /\ Len(writes') \in Nat
  BY <1>1, LenProperties DEF ShapeInv, IsSequence
<1>3. /\ Len(writes) <= Len(writes')
      /\ \A k \in DOMAIN writes : k \in DOMAIN writes' /\ writes'[k] = writes[k]
  BY <1>1, <1>2 DEF WritesGrow
<1>4. \A k \in DOMAIN writes : writes[k].wrote \in Nat /\ writes[k].wrote <= clock
  BY DEF TimeInv
<1>5. \A k \in DOMAIN writes' : writes'[k].wrote \in Nat /\ writes'[k].wrote <= clock'
  BY <1>1, <1>3, <1>4, ClockStep
<1>6. \A k \in DOMAIN writes' : writes'[k].wrote <= writes'[Len(writes')].wrote
  <2>1. CASE Len(writes') = Len(writes)
    <3>1. \A k \in DOMAIN writes : writes[k].wrote <= writes[Len(writes)].wrote  BY DEF TimeInv
    <3>2. DOMAIN writes' = DOMAIN writes  BY <1>2, <2>1
    <3> QED  BY <1>2, <1>3, <2>1, <3>1, <3>2
  <2>2. CASE Len(writes') # Len(writes)
    <3>1. Len(writes') \in DOMAIN writes' \ DOMAIN writes
      <4>1. \A m, n \in Nat : m <= n /\ n # m => n > m /\ n >= 1  OBVIOUS
      <4>2. Len(writes') > Len(writes) /\ Len(writes') >= 1
        BY ONLY <1>2, <1>3, <2>2, <4>1
      <4> QED  BY <1>2, <4>2
    <3>2. writes'[Len(writes')].wrote = clock /\ clock' = clock  BY <1>1, <3>1, ClockStep
    <3> QED  BY <1>5, <3>2
  <2> QED  BY <2>1, <2>2
<1>7. ASSUME NEW f \in Files'
      PROVE  \E j \in Written(f)' : \A k \in Written(f)' : writes'[k].wrote <= writes'[j].wrote
  <2>1. Written(f)' = {k \in DOMAIN writes' : writes'[k].file = f}  BY DEF Written
  <2>2. CASE \E j \in DOMAIN writes' \ DOMAIN writes : writes'[j].file = f
    <3>1. PICK j \in DOMAIN writes' \ DOMAIN writes : writes'[j].file = f  BY <2>2
    <3>2. writes'[j].wrote = clock /\ clock' = clock  BY <1>1, <3>1, ClockStep
    <3> QED  BY <1>5, <2>1, <3>1, <3>2
  <2>3. CASE ~ \E j \in DOMAIN writes' \ DOMAIN writes : writes'[j].file = f
    <3>1. Written(f)' = Written(f)  BY <1>3, <2>1, <2>3 DEF Written
    <3>2. f \in Files  BY <1>3, <2>3 DEF Files
    <3>3. PICK j \in Written(f) : \A k \in Written(f) : writes[k].wrote <= writes[j].wrote
      BY <3>2 DEF TimeInv
    <3> QED  BY <1>3, <3>1, <3>3 DEF Written
  <2> QED  BY <2>2, <2>3
<1> QED  BY <1>1, <1>5, <1>6, <1>7 DEF TimeInv

\* A file was modified when its youngest record was written.
LEMMA ModifiedIsYoungest ==
    ASSUME TimeInv, NEW f \in Files
    PROVE  \E j \in Written(f) : /\ Modified(f) = writes[j].wrote
                                 /\ \A k \in Written(f) : writes[k].wrote <= writes[j].wrote
<1>1. PICK j \in Written(f) : \A k \in Written(f) : writes[k].wrote <= writes[j].wrote
  BY DEF TimeInv
<1> DEFINE times == {writes[k].wrote : k \in Written(f)}
<1>2. Modified(f) = CHOOSE t \in times : \A u \in times : u <= t  BY DEF Modified, Written
<1>3. times \subseteq Nat  BY DEF TimeInv, Written
<1>4. writes[j].wrote \in times /\ \A u \in times : u <= writes[j].wrote  BY <1>1
<1> HIDE DEF times
<1>5. ASSUME NEW t \in times, \A u \in times : u <= t
      PROVE  t = writes[j].wrote
  <2>1. t <= writes[j].wrote /\ writes[j].wrote <= t  BY <1>4, <1>5
  <2>2. t \in Nat /\ writes[j].wrote \in Nat  BY <1>3, <1>4
  <2> QED  BY <2>1, <2>2
<1>6. Modified(f) = writes[j].wrote  BY <1>2, <1>4, <1>5
<1> QED  BY <1>1, <1>6

\* log, verify and view without an argument take a log that was written last,
\* whatever was written in between to whichever others.
THEOREM LatestSafety == Spec => []LatestIsLastWritten
<1>1. Init => TimeInv  BY InitShape DEF TimeInv, Files
<1>2. TimeInv /\ [Next]_vars => TimeInv'  BY TimeStep
<1>3. TimeInv => LatestIsLastWritten
  <2> SUFFICES ASSUME TimeInv, writes # <<>>, NEW g \in Listed, writes[Len(writes)].file \in Listed
               PROVE  Modified(g) <= Modified(writes[Len(writes)].file)
    BY DEF LatestIsLastWritten, LatestSession
  <2> DEFINE last == writes[Len(writes)].file
  <2>1. /\ Len(writes) \in DOMAIN writes
        /\ \A k \in DOMAIN writes : writes[k].wrote <= writes[Len(writes)].wrote
        /\ \A k \in DOMAIN writes : writes[k].wrote \in Nat
    BY LenProperties, EmptySeq DEF TimeInv, ShapeInv, IsSequence
  <2>2. g \in Files /\ last \in Files  BY DEF Listed
  <2>3. PICK j \in Written(last) : /\ Modified(last) = writes[j].wrote
                                  /\ \A k \in Written(last) : writes[k].wrote <= writes[j].wrote
    BY <2>2, ModifiedIsYoungest
  <2>4. writes[Len(writes)].wrote <= Modified(last)  BY <2>1, <2>3 DEF Written
  <2>5. PICK i \in Written(g) : Modified(g) = writes[i].wrote  BY <2>2, ModifiedIsYoungest
  <2> QED  BY <2>1, <2>3, <2>4, <2>5 DEF Written
<1> QED  BY <1>1, <1>2, <1>3, PTL DEF Spec

-----------------------------------------------------------------------------
(* Times.                                                                    *)

\* The second q, and the two digits of its fraction.
IsTime(t, q, a, b) ==
    /\ t = 100 * q + 10 * a + b /\ t \div 100 = q
    /\ Fraction(t) = IF a = 0 /\ b = 0 THEN <<>>
                     ELSE IF b = 0 THEN <<48 + a>> ELSE <<48 + a, 48 + b>>

\* Every instant is a time of day with a second and a fraction.
LEMMA TimeShape ==
    ASSUME NEW t \in Instants
    PROVE  \E q, a, b \in 0 .. 9 : IsTime(t, q, a, b)
<1> DEFINE q == t \div 100
           f == t % 100
           a == f \div 10
           b == f % 10
<1>1. t \in 0 .. 999  BY SessionAssumption
<1>2. /\ q \in 0 .. 9 /\ f \in 0 .. 99 /\ t = 100 * q + f  BY <1>1
<1>3. t \div 100 = q  OBVIOUS
<1> HIDE DEF q, f
<1>4. a \in 0 .. 9 /\ b \in 0 .. 9 /\ f = 10 * a + b  BY <1>2
<1>5. Fraction(t) = IF f = 0 THEN <<>> ELSE IF b = 0 THEN <<48 + a>> ELSE <<48 + a, 48 + b>>
  BY DEF Fraction, f
<1> HIDE DEF a, b
<1>6. f = 0 <=> a = 0 /\ b = 0  BY <1>2, <1>4
<1>7. t = 100 * q + 10 * a + b  BY <1>2, <1>4
<1>8. IsTime(t, q, a, b)  BY <1>3, <1>5, <1>6, <1>7 DEF IsTime
<1> QED  BY <1>2, <1>4, <1>8

\* As much of a text of that time as an order needs.
IsStamp(s, q, a, b) ==
    /\ Len(s) \in {2, 4, 5} /\ s[1] = 48 + q
    /\ a # 0 \/ b # 0 => Len(s) >= 4 /\ s[2] = 46 /\ s[3] = 48 + a
    /\ b # 0 => Len(s) = 5 /\ s[4] = 48 + b

LEMMA StampShape ==
    ASSUME NEW t, NEW q \in 0 .. 9, NEW a \in 0 .. 9, NEW b \in 0 .. 9, IsTime(t, q, a, b)
    PROVE  IsStamp(Timestamp(t), q, a, b)
<1> DEFINE f == Fraction(t)
           m == IF f = <<>> THEN <<>> ELSE <<Dot>> \o f
<1>1. Timestamp(t) = (<<48 + q>> \o m) \o <<90>>  BY DEF Timestamp, IsTime, Zed
<1>2. /\ f \in Seq(Nat)
      /\ a = 0 /\ b = 0 => f = <<>>
      /\ a # 0 \/ b # 0 => f # <<>> /\ Len(f) \in {1, 2} /\ f[1] = 48 + a
      /\ b # 0 => Len(f) = 2 /\ f[2] = 48 + b
  <2>1. f = IF a = 0 /\ b = 0 THEN <<>> ELSE IF b = 0 THEN <<48 + a>> ELSE <<48 + a, 48 + b>>
    BY DEF IsTime
  <2> HIDE DEF f
  <2>2. CASE a = 0 /\ b = 0  BY <2>1, <2>2
  <2>3. CASE a # 0 /\ b = 0
    <3>1. f = <<48 + a>>  BY <2>1, <2>3
    <3> QED  BY <2>3, <3>1
  <2>4. CASE b # 0
    <3>1. f = <<48 + a, 48 + b>>  BY <2>1, <2>4
    <3> QED  BY <2>4, <3>1
  <2> QED  BY <2>2, <2>3, <2>4
<1> HIDE DEF f
<1>3. /\ m \in Seq(Nat) /\ Len(m) \in {0, 2, 3}
      /\ a # 0 \/ b # 0 => Len(m) >= 2 /\ m[1] = 46 /\ m[2] = 48 + a
      /\ b # 0 => Len(m) = 3 /\ m[3] = 48 + b
  <2>1. CASE f = <<>>
    <3>1. m = <<>>  BY <2>1
    <3> QED  BY <1>2, <2>1, <3>1
  <2>2. CASE f # <<>>
    <3>1. m = <<46>> \o f  BY <2>2 DEF Dot
    <3>2. <<46>> \in Seq(Nat) /\ Len(<<46>>) = 1 /\ <<46>>[1] = 46  OBVIOUS
    <3> HIDE DEF m
    <3>3. /\ m \in Seq(Nat) /\ Len(m) = 1 + Len(f) /\ m[1] = 46
          /\ \A i \in 1 .. Len(f) : m[i + 1] = f[i]
      BY <1>2, <3>1, <3>2
    <3>4. a # 0 \/ b # 0  BY <1>2, <2>2
    <3>5. Len(f) \in {1, 2}  BY <1>2, <3>4
    <3>6. m[2] = 48 + a  BY <1>2, <3>3, <3>4, <3>5
    <3>7. ASSUME b # 0  PROVE m[2 + 1] = 48 + b /\ Len(m) = 3
      <4>1. Len(f) = 2 /\ f[2] = 48 + b  BY ONLY <1>2, <3>7
      <4>2. m[2 + 1] = f[2] /\ Len(m) = 3  BY <3>3, <4>1
      <4> QED  BY <4>1, <4>2
    <3>8. Len(m) \in {2, 3} /\ Len(m) >= 2
      <4>1. CASE Len(f) = 1  BY ONLY <3>3, <4>1
      <4>2. CASE Len(f) = 2  BY ONLY <3>3, <4>2
      <4> QED  BY ONLY <3>5, <4>1, <4>2
    <3> QED  BY ONLY <3>3, <3>6, <3>7, <3>8
  <2> QED  BY <2>1, <2>2
<1> HIDE DEF m
<1>4. <<48 + q>> \in Seq(Nat) /\ <<90>> \in Seq(Nat) /\ Len(<<48 + q>>) = 1 /\ Len(<<90>>) = 1
  OBVIOUS
<1>5. /\ Len(Timestamp(t)) = Len(m) + 2 /\ Timestamp(t)[1] = 48 + q
      /\ \A i \in 1 .. Len(m) : Timestamp(t)[i + 1] = m[i]
  BY <1>1, <1>3, <1>4
<1>6. a # 0 \/ b # 0 => Timestamp(t)[2] = 46 /\ Timestamp(t)[3] = 48 + a
  <2> SUFFICES ASSUME a # 0 \/ b # 0
               PROVE  Timestamp(t)[1 + 1] = 46 /\ Timestamp(t)[2 + 1] = 48 + a
    OBVIOUS
  <2>1. Len(m) >= 2 /\ Len(m) \in {0, 2, 3} /\ m[1] = 46 /\ m[2] = 48 + a
    BY ONLY <1>3, a # 0 \/ b # 0
  <2>2. 1 \in 1 .. Len(m) /\ 2 \in 1 .. Len(m)  BY ONLY <2>1
  <2> QED  BY ONLY <1>5, <2>1, <2>2
<1>7. b # 0 => Timestamp(t)[4] = 48 + b
  <2> SUFFICES ASSUME b # 0  PROVE Timestamp(t)[3 + 1] = 48 + b  OBVIOUS
  <2>1. Len(m) = 3  BY ONLY <1>3, b # 0
  <2>2. 3 \in 1 .. Len(m)  BY ONLY <2>1
  <2>3. m[3] = 48 + b  BY ONLY <1>3, b # 0
  <2> QED  BY ONLY <1>5, <2>2, <2>3
<1>8. Len(Timestamp(t)) \in {2, 4, 5}
  <2>1. CASE Len(m) = 0  BY ONLY <1>5, <2>1
  <2>2. CASE Len(m) = 2  BY ONLY <1>5, <2>2
  <2>3. CASE Len(m) = 3  BY ONLY <1>5, <2>3
  <2> QED  BY ONLY <1>3, <2>1, <2>2, <2>3
<1>9. a # 0 \/ b # 0 => Len(Timestamp(t)) >= 4
  <2> SUFFICES ASSUME a # 0 \/ b # 0  PROVE Len(Timestamp(t)) >= 4  OBVIOUS
  <2>1. Len(m) >= 2  BY ONLY <1>3, a # 0 \/ b # 0
  <2> QED  BY <1>3, <1>5, <2>1
<1>10. b # 0 => Len(Timestamp(t)) = 5
  <2> SUFFICES ASSUME b # 0  PROVE Len(Timestamp(t)) = 5  OBVIOUS
  <2>1. Len(m) = 3  BY ONLY <1>3, b # 0
  <2> QED  BY <1>5, <2>1
<1> QED  BY ONLY <1>5, <1>6, <1>7, <1>8, <1>9, <1>10 DEF IsStamp

\* Texts of times are in the order of the times, unless one fraction is the
\* beginning of the other.
LEMMA NearlyOrdered ==
    ASSUME NEW t \in Instants, NEW u \in Instants, t < u
    PROVE  \/ TextBefore(Timestamp(t), Timestamp(u))
           \/ /\ t \div 100 = u \div 100
              /\ Len(Fraction(t)) < Len(Fraction(u))
              /\ Fraction(t) = SubSeq(Fraction(u), 1, Len(Fraction(t)))
<1>1. PICK q, a, b \in 0 .. 9 : IsTime(t, q, a, b)  BY TimeShape
<1>2. PICK r, c, d \in 0 .. 9 : IsTime(u, r, c, d)  BY TimeShape
<1> DEFINE s == Timestamp(t)
           v == Timestamp(u)
<1>3. t = 100 * q + 10 * a + b /\ u = 100 * r + 10 * c + d  BY <1>1, <1>2 DEF IsTime
<1>4. /\ Len(s) \in {2, 4, 5} /\ Len(v) \in {2, 4, 5} /\ s[1] = 48 + q /\ v[1] = 48 + r
      /\ a # 0 \/ b # 0 => Len(s) >= 4 /\ s[2] = 46 /\ s[3] = 48 + a
      /\ c # 0 \/ d # 0 => Len(v) >= 4 /\ v[2] = 46 /\ v[3] = 48 + c
      /\ b # 0 => Len(s) = 5 /\ s[4] = 48 + b
      /\ d # 0 => Len(v) = 5 /\ v[4] = 48 + d
  <2>1. IsStamp(s, q, a, b) /\ IsStamp(v, r, c, d)  BY <1>1, <1>2, StampShape
  <2> QED  BY ONLY <2>1 DEF IsStamp
<1> HIDE DEF s, v
<1>5. CASE q # r
  <2>1. q < r  BY <1>3, <1>5
  <2>2. 1 \in 1 .. Len(s) /\ 1 <= Len(v) /\ s[1] < v[1] /\ \A j \in 1 .. 1 - 1 : s[j] = v[j]
    BY <1>4, <2>1
  <2> QED  BY <2>2 DEF TextBefore, s, v
<1>6. CASE q = r /\ a # c /\ (a # 0 \/ b # 0)
  <2>1. a < c  BY <1>3, <1>6
  <2>2. 3 \in 1 .. Len(s) /\ 3 <= Len(v) /\ s[3] < v[3] /\ \A j \in 1 .. 3 - 1 : s[j] = v[j]
    <3>1. \A j \in 1 .. 3 - 1 : j = 1 \/ j = 2  OBVIOUS
    <3> QED  BY <1>4, <1>6, <2>1, <3>1
  <2> QED  BY <2>2 DEF TextBefore, s, v
<1>7. CASE q = r /\ a = c /\ b # 0
  <2>1. b < d  BY <1>3, <1>7
  <2>2. 4 \in 1 .. Len(s) /\ 4 <= Len(v) /\ s[4] < v[4] /\ \A j \in 1 .. 4 - 1 : s[j] = v[j]
    <3>1. \A j \in 1 .. 4 - 1 : j = 1 \/ j = 2 \/ j = 3  OBVIOUS
    <3> QED  BY <1>4, <1>7, <2>1, <3>1
  <2> QED  BY <2>2 DEF TextBefore, s, v
<1>8. CASE q = r /\ b = 0 /\ (a = c \/ a = 0)
  <2>1. t \div 100 = u \div 100  BY <1>1, <1>2, <1>8 DEF IsTime
  <2>2. Fraction(t) = IF a = 0 THEN <<>> ELSE <<48 + a>>  BY <1>1, <1>8 DEF IsTime
  <2>3. CASE a = 0
    <3>1. c # 0 \/ d # 0  BY <1>3, <1>8, <2>3
    <3>2. Fraction(u) = <<48 + c>> \/ Fraction(u) = <<48 + c, 48 + d>>  BY <1>2, <3>1 DEF IsTime
    <3>3. Len(Fraction(u)) \in {1, 2} /\ Fraction(t) = <<>> /\ Len(Fraction(t)) = 0
      BY <2>2, <2>3, <3>2
    <3>4. SubSeq(Fraction(u), 1, 0) = <<>>  BY SubSeqEmpty
    <3> HIDE DEF s, v
    <3> QED  BY <2>1, <3>3, <3>4
  <2>4. CASE a # 0
    <3>1. a = c /\ d # 0  BY <1>3, <1>8, <2>4
    <3>2. Fraction(u) = <<48 + a, 48 + d>>  BY <1>2, <3>1 DEF IsTime
    <3>3. Fraction(t) = <<48 + a>>  BY <2>2, <2>4
    <3>4. Len(Fraction(t)) = 1 /\ Len(Fraction(u)) = 2  BY <3>2, <3>3
    <3>5. SubSeq(Fraction(u), 1, 1) = <<48 + a>>
      <4> DEFINE g == Fraction(u)
      <4>1. g \in Seq(Nat) /\ Len(g) = 2 /\ g[1] = 48 + a  BY <3>2
      <4> HIDE DEF g
      <4>2. SubSeq(g, 1, 1) = <<g[1]>>
        <5>1. SubSeq(g, 1, 1) = SubSeq(g, 1, 0) \o <<g[1]>>  BY <4>1, SubSeqRecursiveSecond
        <5>2. SubSeq(g, 1, 0) = <<>>  BY SubSeqEmpty
        <5>3. <<g[1]>> \in Seq(Nat)  BY <4>1
        <5> QED  BY ONLY <5>1, <5>2, <5>3, ConcatEmptySeq
      <4> QED  BY <4>1, <4>2 DEF g
    <3>6. Fraction(t) = SubSeq(Fraction(u), 1, Len(Fraction(t)))  BY ONLY <3>3, <3>4, <3>5
    <3> QED  BY <2>1, <3>4, <3>6
  <2> QED  BY <2>3, <2>4
<1> QED  BY <1>5, <1>6, <1>7, <1>8

-----------------------------------------------------------------------------
(* Names.                                                                    *)

\* The character that sanitize makes of one, and whether it is not trimmed.
Safe(c) == IF IsSafe(c) THEN c ELSE Underscore
Stays(c) == Safe(c) \notin {Dot, Underscore}

\* A clean name is the beginning of the name if its first character stays.
LEMMA CleanIsBeginning ==
    ASSUME NEW name \in Seq(Nat), Len(name) >= 1, Stays(name[1])
    PROVE  \E n \in 1 .. Len(name) :
              /\ Stays(name[n]) /\ \A k \in n + 1 .. Len(name) : ~Stays(name[k])
              /\ Clean(name) \in Seq(Nat) /\ Len(Clean(name)) = n
              /\ \A k \in 1 .. n : Clean(name)[k] = Safe(name[k])
<1> DEFINE safe == [i \in DOMAIN name |-> IF IsSafe(name[i]) THEN name[i] ELSE Underscore]
           kept == {i \in DOMAIN name : safe[i] \notin {Dot, Underscore}}
<1>1. DOMAIN name = 1 .. Len(name) /\ Len(name) \in Nat  BY LenProperties
<1>2. \A i \in 1 .. Len(name) : safe[i] = Safe(name[i]) /\ safe[i] \in Nat
  BY <1>1 DEF Safe, Underscore
<1>3. kept = {i \in 1 .. Len(name) : Stays(name[i])}  BY <1>1, <1>2 DEF Stays
<1>4. Clean(name) = SubSeq(safe, CHOOSE i \in kept : \A j \in kept : i <= j,
                                 CHOOSE i \in kept : \A j \in kept : j <= i)
  <2>1. 1 \in {i \in 1 .. Len(name) : Stays(name[i])}  BY <1>1
  <2>2. kept # {}  BY ONLY <1>3, <2>1
  <2> QED  BY <2>2 DEF Clean
<1> HIDE DEF safe, kept
<1>5. (CHOOSE i \in kept : \A j \in kept : i <= j) = 1
  <2>1. 1 \in kept /\ \A j \in kept : 1 <= j  BY <1>3
  <2>2. ASSUME NEW i \in kept, \A j \in kept : i <= j  PROVE i = 1
    BY <1>1, <1>3, <2>1, <2>2
  <2> QED  BY <2>1, <2>2
<1>6. PICK n \in kept : \A j \in kept : j <= n
  <2>1. kept \in SUBSET (1 .. Len(name)) /\ kept # {}  BY <1>3
  <2> QED  BY <1>1, <2>1, Greatest
<1>7. (CHOOSE i \in kept : \A j \in kept : j <= i) = n
  <2>1. ASSUME NEW i \in kept, \A j \in kept : j <= i  PROVE i = n
    <3>1. i <= n /\ n <= i  BY <1>6, <2>1
    <3>2. i \in Nat /\ n \in Nat  BY <1>1, <1>3
    <3> QED  BY <3>1, <3>2
  <2> QED  BY <1>6, <2>1
<1>8. Clean(name) = SubSeq(safe, 1, n)  BY <1>4, <1>5, <1>7
<1>9. n \in 1 .. Len(name) /\ Stays(name[n])  BY <1>3
<1>10. \A k \in n + 1 .. Len(name) : ~Stays(name[k])
  <2> SUFFICES ASSUME NEW k \in n + 1 .. Len(name), Stays(name[k])  PROVE FALSE  OBVIOUS
  <2>1. k \in kept  BY <1>1, <1>3, <1>9
  <2> QED  BY <1>1, <1>6, <1>9, <2>1
<1>11. /\ Clean(name) \in Seq(Nat) /\ Len(Clean(name)) = n
       /\ \A k \in 1 .. n : Clean(name)[k] = safe[k]
  <2>1. \A i \in 1 .. n : safe[i] \in Nat  BY <1>1, <1>2, <1>9
  <2>2. /\ SubSeq(safe, 1, n) \in Seq(Nat)
        /\ Len(SubSeq(safe, 1, n)) = IF 1 <= n THEN n - 1 + 1 ELSE 0
        /\ \A i \in 1 .. n - 1 + 1 : SubSeq(safe, 1, n)[i] = safe[1 + i - 1]
    BY <1>1, <1>9, <2>1, SubSeqProperties
  <2> DEFINE c == SubSeq(safe, 1, n)
  <2> HIDE DEF c
  <2>3. n \in Nat /\ 1 <= n  BY ONLY <1>1, <1>9
  <2>4. Len(c) = n /\ \A i \in 1 .. n : c[i] = safe[i]
    <3>1. Len(c) = n  BY ONLY <2>2, <2>3 DEF c
    <3>2. ASSUME NEW i \in 1 .. n  PROVE c[i] = safe[i]
      <4>1. i \in 1 .. n - 1 + 1 /\ 1 + i - 1 = i  BY ONLY <2>3, i \in 1 .. n
      <4>2. c[i] = safe[1 + i - 1]  BY ONLY <2>2, <4>1 DEF c
      <4> QED  BY ONLY <4>1, <4>2
    <3> QED  BY ONLY <3>1, <3>2
  <2>5. Clean(name) = c  BY <1>8 DEF c
  <2>6. c \in Seq(Nat)  BY ONLY <2>2 DEF c
  <2> QED  BY ONLY <2>4, <2>5, <2>6
<1>12. n \in Nat /\ n <= Len(name)  BY ONLY <1>1, <1>9
<1>13. \A k \in 1 .. n : Clean(name)[k] = Safe(name[k])
  <2> SUFFICES ASSUME NEW k \in 1 .. n  PROVE Clean(name)[k] = Safe(name[k])  OBVIOUS
  <2>1. k \in 1 .. Len(name)  BY ONLY <1>1, <1>12, k \in 1 .. n
  <2> QED  BY ONLY <1>2, <1>11, <2>1, k \in 1 .. n
<1> n \in 1 .. Len(name)  BY <1>9
<1> WITNESS n \in 1 .. Len(name)
<1> QED  BY ONLY <1>9, <1>10, <1>11, <1>13

\* The digits of that time.
AreDigits(s, q, a, b) ==
    /\ s \in Seq(48 .. 57)
    /\ Len(s) = IF a = 0 /\ b = 0 THEN 1 ELSE IF b = 0 THEN 2 ELSE 3
    /\ s[1] = 48 + q
    /\ a # 0 \/ b # 0 => s[2] = 48 + a
    /\ b # 0 => s[3] = 48 + b

LEMMA DigitsShape ==
    ASSUME NEW t, NEW q \in 0 .. 9, NEW a \in 0 .. 9, NEW b \in 0 .. 9, IsTime(t, q, a, b)
    PROVE  AreDigits(Digits(t), q, a, b)
<1> DEFINE f == Fraction(t)
<1>1. Digits(t) = <<48 + q>> \o f  BY DEF Digits, IsTime
<1>2. <<48 + q>> \in Seq(48 .. 57) /\ Len(<<48 + q>>) = 1 /\ <<48 + q>>[1] = 48 + q  OBVIOUS
<1>3. f = IF a = 0 /\ b = 0 THEN <<>> ELSE IF b = 0 THEN <<48 + a>> ELSE <<48 + a, 48 + b>>
  BY DEF IsTime
<1> HIDE DEF f
<1>4. /\ f \in Seq(48 .. 57)
      /\ Len(f) = IF a = 0 /\ b = 0 THEN 0 ELSE IF b = 0 THEN 1 ELSE 2
      /\ a # 0 \/ b # 0 => f[1] = 48 + a
      /\ b # 0 => f[2] = 48 + b
  <2>1. CASE a = 0 /\ b = 0  BY <1>3, <2>1
  <2>2. CASE a # 0 /\ b = 0
    <3>1. f = <<48 + a>>  BY <1>3, <2>2
    <3> QED  BY <2>2, <3>1
  <2>3. CASE b # 0
    <3>1. f = <<48 + a, 48 + b>>  BY <1>3, <2>3
    <3> QED  BY <2>3, <3>1
  <2> QED  BY <2>1, <2>2, <2>3
<1>5. /\ Digits(t) \in Seq(48 .. 57) /\ Len(Digits(t)) = 1 + Len(f) /\ Digits(t)[1] = 48 + q
      /\ \A i \in 1 .. Len(f) : Digits(t)[i + 1] = f[i]
  <2>1. Len(f) \in Nat  BY <1>4, LenProperties
  <2> DEFINE g == <<48 + q>>
  <2>2. g \in Seq(48 .. 57) /\ f \in Seq(48 .. 57) /\ Len(g) = 1 /\ g[1] = 48 + q
    BY ONLY <1>2, <1>4
  <2>3. Digits(t) = g \o f  BY <1>1
  <2> HIDE DEF g
  <2>4. /\ g \o f \in Seq(48 .. 57) /\ Len(g \o f) = Len(g) + Len(f)
        /\ \A i \in 1 .. Len(g) + Len(f) :
              (g \o f)[i] = IF i <= Len(g) THEN g[i] ELSE f[i - Len(g)]
    BY ONLY <2>2, ConcatProperties
  <2> QED  BY <2>1, <2>2, <2>3, <2>4
<1>6. ASSUME a # 0 \/ b # 0  PROVE Digits(t)[1 + 1] = 48 + a
  <2>1. 1 \in 1 .. Len(f)
    <3>1. CASE b = 0  BY <1>4, <1>6, <3>1
    <3>2. CASE b # 0  BY <1>4, <1>6, <3>2
    <3> QED  BY <3>1, <3>2
  <2> QED  BY <1>4, <1>5, <1>6, <2>1
<1>7. ASSUME b # 0  PROVE Digits(t)[2 + 1] = 48 + b
  <2>1. 2 \in 1 .. Len(f)  BY <1>4, <1>7
  <2> QED  BY <1>4, <1>5, <1>7, <2>1
<1>8. Len(Digits(t)) = IF a = 0 /\ b = 0 THEN 1 ELSE IF b = 0 THEN 2 ELSE 3
  BY <1>4, <1>5
<1> DEFINE x == Digits(t)
<1>9. x \in Seq(48 .. 57) /\ x[1] = 48 + q  BY <1>5
<1>10. a # 0 \/ b # 0 => x[2] = 48 + a  BY <1>6
<1>11. b # 0 => x[3] = 48 + b  BY <1>7
<1>12. Len(x) = IF a = 0 /\ b = 0 THEN 1 ELSE IF b = 0 THEN 2 ELSE 3  BY <1>8
<1> HIDE DEF x
<1>13. AreDigits(x, q, a, b)  BY ONLY <1>9, <1>10, <1>11, <1>12 DEF AreDigits
<1> QED  BY ONLY <1>13 DEF x

LEMMA DigitsType ==
    ASSUME NEW t \in Instants
    PROVE  Digits(t) \in Seq(48 .. 57) /\ Len(Digits(t)) \in 1 .. 3
<1>1. PICK q, a, b \in 0 .. 9 : IsTime(t, q, a, b)  BY TimeShape
<1> DEFINE x == Digits(t)
<1>2. AreDigits(x, q, a, b)  BY <1>1, DigitsShape
<1> HIDE DEF x
<1>3. x \in Seq(48 .. 57) /\ Len(x) = IF a = 0 /\ b = 0 THEN 1 ELSE IF b = 0 THEN 2 ELSE 3
  BY ONLY <1>2 DEF AreDigits
<1>4. Len(x) \in 1 .. 3  BY ONLY <1>3
<1> QED  BY <1>3, <1>4 DEF x

\* The digits tell the time.
LEMMA DigitsApart ==
    ASSUME NEW t \in Instants, NEW u \in Instants, Len(Digits(t)) = Len(Digits(u)),
           \A i \in 1 .. Len(Digits(t)) : Digits(t)[i] = Digits(u)[i]
    PROVE  t = u
<1>1. PICK q, a, b \in 0 .. 9 : IsTime(t, q, a, b)  BY TimeShape
<1>2. PICK r, c, d \in 0 .. 9 : IsTime(u, r, c, d)  BY TimeShape
<1> DEFINE x == Digits(t)
           y == Digits(u)
<1>3. /\ Len(x) = IF a = 0 /\ b = 0 THEN 1 ELSE IF b = 0 THEN 2 ELSE 3
      /\ x[1] = 48 + q /\ (a # 0 \/ b # 0 => x[2] = 48 + a) /\ (b # 0 => x[3] = 48 + b)
  <2>1. AreDigits(x, q, a, b)  BY <1>1, DigitsShape
  <2> QED  BY ONLY <2>1 DEF AreDigits
<1>4. /\ Len(y) = IF c = 0 /\ d = 0 THEN 1 ELSE IF d = 0 THEN 2 ELSE 3
      /\ y[1] = 48 + r /\ (c # 0 \/ d # 0 => y[2] = 48 + c) /\ (d # 0 => y[3] = 48 + d)
  <2>1. AreDigits(y, r, c, d)  BY <1>2, DigitsShape
  <2> QED  BY ONLY <2>1 DEF AreDigits
<1>5. Len(x) = Len(y) /\ \A i \in 1 .. Len(x) : x[i] = y[i]  OBVIOUS
<1> HIDE DEF x, y
<1>6. t = 100 * q + 10 * a + b /\ u = 100 * r + 10 * c + d  BY <1>1, <1>2 DEF IsTime
<1>7. CASE a = 0 /\ b = 0
  <2>1. Len(x) = 1  BY ONLY <1>3, <1>7
  <2>2. c = 0 /\ d = 0  BY ONLY <1>4, <1>5, <2>1
  <2>3. x[1] = y[1]  BY <1>5, <2>1
  <2> QED  BY <1>3, <1>4, <1>6, <1>7, <2>2, <2>3
<1>8. CASE a # 0 /\ b = 0
  <2>1. Len(x) = 2  BY ONLY <1>3, <1>8
  <2>2. c # 0 /\ d = 0
    <3>1. Len(y) = 2  BY <1>5, <2>1
    <3>2. ~(c = 0 /\ d = 0)  BY ONLY <1>4, <3>1
    <3>3. d = 0  BY ONLY <1>4, <3>1, <3>2
    <3> QED  BY <3>2, <3>3
  <2>3. x[1] = y[1] /\ x[2] = y[2]  BY <1>5, <2>1
  <2> QED  BY <1>3, <1>4, <1>6, <1>8, <2>2, <2>3
<1>9. CASE b # 0
  <2>1. Len(x) = 3  BY ONLY <1>3, <1>9
  <2>2. d # 0
    <3>1. Len(y) = 3  BY <1>5, <2>1
    <3> QED  BY ONLY <1>4, <3>1
  <2>3. x[1] = y[1] /\ x[2] = y[2] /\ x[3] = y[3]  BY <1>5, <2>1
  <2> QED  BY <1>3, <1>4, <1>6, <1>9, <2>2, <2>3
<1> QED  BY <1>7, <1>8, <1>9

\* What a session's name is made of.
LEMMA IdShape ==
    ASSUME NEW t \in Instants, NEW f \in Seq(Nat)
    PROVE  LET n == Len(Digits(t))
               id == Digits(t) \o <<Dash>> \o f
           IN  /\ id \in Seq(Nat) /\ Len(id) = n + 1 + Len(f) /\ n \in 1 .. 3
               /\ \A k \in 1 .. n : id[k] = Digits(t)[k] /\ id[k] \in 48 .. 57
               /\ id[n + 1] = Dash
               /\ \A k \in 1 .. Len(f) : id[n + 1 + k] = f[k]
<1> DEFINE x == Digits(t)
           n == Len(x)
           y == x \o <<Dash>>
           id == y \o f
<1>1. x \in Seq(48 .. 57) /\ n \in 1 .. 3  BY DigitsType
<1> HIDE DEF x
<1>2. x \in Seq(Nat) /\ \A k \in 1 .. n : x[k] \in 48 .. 57  BY <1>1
<1>3. <<Dash>> \in Seq(Nat) /\ Len(<<Dash>>) = 1 /\ <<Dash>>[1] = Dash  BY DEF Dash
<1>4. /\ y \in Seq(Nat) /\ Len(y) = n + 1
      /\ \A k \in 1 .. n : y[k] = x[k]
      /\ y[n + 1] = Dash
  BY <1>1, <1>2, <1>3
<1> HIDE DEF y
<1>5. n \in 1 .. 3 /\ Len(y) = n + 1 /\ Len(f) \in Nat  BY <1>1, <1>4, LenProperties
<1>6. /\ id \in Seq(Nat) /\ Len(id) = Len(y) + Len(f)
      /\ \A k \in 1 .. Len(y) + Len(f) : id[k] = IF k <= Len(y) THEN y[k] ELSE f[k - Len(y)]
  <2>1. y \in Seq(Nat) /\ f \in Seq(Nat)  BY <1>4
  <2>2. /\ y \o f \in Seq(Nat) /\ Len(y \o f) = Len(y) + Len(f)
        /\ \A k \in 1 .. Len(y) + Len(f) :
              (y \o f)[k] = IF k <= Len(y) THEN y[k] ELSE f[k - Len(y)]
    BY ONLY <2>1, ConcatProperties
  <2> QED  BY <2>2
<1> HIDE DEF id, n
<1>7. Len(id) = n + 1 + Len(f)  BY <1>5, <1>6
<1>8. \A k \in 1 .. n + 1 : id[k] = y[k]  BY <1>5, <1>6
<1>9. \A k \in 1 .. Len(f) : id[n + 1 + k] = f[k]  BY <1>5, <1>6
<1> USE DEF n
<1>10. ASSUME NEW k \in 1 .. n  PROVE id[k] = x[k] /\ id[k] \in 48 .. 57
  <2>1. k \in 1 .. n + 1  BY <1>5
  <2>2. id[k] = x[k]  BY <1>4, <1>8, <2>1
  <2> QED  BY <1>2, <2>2
<1>11. id[n + 1] = Dash
  <2>1. n + 1 \in 1 .. n + 1  BY ONLY <1>5
  <2> QED  BY ONLY <1>4, <1>8, <2>1
<1> HIDE DEF n
<1>12. /\ id \in Seq(Nat) /\ Len(id) = n + 1 + Len(f) /\ n \in 1 .. 3
       /\ \A k \in 1 .. n : id[k] = x[k] /\ id[k] \in 48 .. 57
       /\ id[n + 1] = Dash
       /\ \A k \in 1 .. Len(f) : id[n + 1 + k] = f[k]
  BY ONLY <1>5, <1>6, <1>7, <1>9, <1>10, <1>11
<1> QED  BY ONLY <1>12 DEF x, y, n, id

LEMMA StemType == ASSUME NEW name \in Seq(Nat)  PROVE FileStem(name) \in Seq(Nat)
<1> DEFINE dots == {i \in 2 .. Len(name) : name[i] = Dot}
           last == CHOOSE i \in dots : \A j \in dots : j <= i
<1>1. FileStem(name) = IF dots = {} THEN name ELSE SubSeq(name, 1, last - 1)  BY DEF FileStem
<1>2. Len(name) \in Nat /\ \A i \in 1 .. Len(name) : name[i] \in Nat  BY LenProperties, ElementOfSeq
<1>3. CASE dots # {}
  <2>1. dots \in SUBSET (1 .. Len(name))  BY <1>2
  <2>2. \E i \in dots : \A j \in dots : j <= i
    <3> HIDE DEF dots
    <3> QED  BY <1>2, <1>3, <2>1, Greatest
  <2>3. last \in dots  BY <2>2
  <2>4. last \in 2 .. Len(name)  BY <2>3
  <2> HIDE DEF last, dots
  <2>5. SubSeq(name, 1, last - 1) \in Seq(Nat)
    <3>1. last - 1 \in Int /\ \A i \in 1 .. last - 1 : name[i] \in Nat  BY <1>2, <2>4
    <3> QED  BY <3>1, SubSeqProperties
  <2> QED  BY <1>1, <1>3, <2>5
<1> QED  BY <1>1, <1>3

LEMMA SafeCharacters ==
    /\ \A c \in 48 .. 57 : Safe(c) = c /\ Stays(c)
    /\ \A c \in {Dash, Zed, 97, 104} : Safe(c) = c /\ Stays(c)
BY DEF Safe, Stays, IsSafe, IsDigit, Dash, Dot, Underscore, Zed

\* The clean name of a session: its digits, a dash, and what is left of the
\* program's name when it is cleaned behind a letter.
LEMMA CleanIdShape ==
    ASSUME NEW t \in Instants, NEW f \in Seq(Nat)
    PROVE  LET n == Len(Digits(t))
               c == Clean(Digits(t) \o <<Dash>> \o f)
               z == Clean(<<Zed>> \o f)
           IN  /\ n \in 1 .. 3 /\ c \in Seq(Nat) /\ Len(c) \in Nat /\ Len(c) >= n + 1
               /\ \A k \in 1 .. n : c[k] = Digits(t)[k] /\ c[k] \in 48 .. 57
               /\ c[n + 1] = Dash
               /\ z \in Seq(Nat) /\ Len(z) = Len(c) - n /\ z[1] = Zed
               /\ \A k \in 2 .. Len(z) : z[k] = c[n + k]
<1> DEFINE x == Digits(t)
           n == Len(x)
           id == x \o <<Dash>> \o f
           zed == <<Zed>> \o f
           c == Clean(id)
           z == Clean(zed)
<1>1. /\ id \in Seq(Nat) /\ Len(id) = n + 1 + Len(f) /\ n \in 1 .. 3
      /\ \A k \in 1 .. n : id[k] = x[k] /\ id[k] \in 48 .. 57
      /\ id[n + 1] = Dash
      /\ \A k \in 1 .. Len(f) : id[n + 1 + k] = f[k]
  BY IdShape
<1>2. /\ zed \in Seq(Nat) /\ Len(zed) = 1 + Len(f) /\ zed[1] = Zed
      /\ \A k \in 1 .. Len(f) : zed[1 + k] = f[k]
  <2> DEFINE y == <<Zed>>
  <2>1. y \in Seq(Nat) /\ f \in Seq(Nat)  BY DEF Zed
  <2>5. Len(y) = 1 /\ y[1] = Zed  BY DEF Zed
  <2>2. Len(f) \in Nat  BY LenProperties
  <2>3. zed = y \o f  OBVIOUS
  <2> HIDE DEF y, zed
  <2>4. /\ y \o f \in Seq(Nat) /\ Len(y \o f) = Len(y) + Len(f)
        /\ \A k \in 1 .. Len(y) + Len(f) :
              (y \o f)[k] = IF k <= Len(y) THEN y[k] ELSE f[k - Len(y)]
    BY ONLY <2>1, ConcatProperties
  <2> QED  BY <2>1, <2>2, <2>3, <2>4, <2>5
<1>3. Len(f) \in Nat  BY LenProperties
<1> HIDE DEF x, id, zed, n
<1>4. Stays(id[1]) /\ Stays(zed[1])
  <2>1. id[1] \in 48 .. 57  BY <1>1
  <2> QED  BY <1>2, <2>1, SafeCharacters
<1>5. PICK l \in 1 .. Len(id) :
          /\ Stays(id[l]) /\ \A k \in l + 1 .. Len(id) : ~Stays(id[k])
          /\ c \in Seq(Nat) /\ Len(c) = l
          /\ \A k \in 1 .. l : c[k] = Safe(id[k])
  <2>1. Len(id) >= 1  BY <1>1, <1>3
  <2> QED  BY <1>1, <1>4, <2>1, CleanIsBeginning
<1>6. PICK m \in 1 .. Len(zed) :
          /\ Stays(zed[m]) /\ \A k \in m + 1 .. Len(zed) : ~Stays(zed[k])
          /\ z \in Seq(Nat) /\ Len(z) = m
          /\ \A k \in 1 .. m : z[k] = Safe(zed[k])
  <2>1. Len(zed) >= 1  BY <1>2, <1>3
  <2> QED  BY <1>2, <1>4, <2>1, CleanIsBeginning
<1> HIDE DEF c, z
<1>7. l >= n + 1
  <2> SUFFICES ASSUME l < n + 1  PROVE FALSE  BY <1>1, <1>5
  <2>1. n + 1 \in l + 1 .. Len(id)  BY <1>1, <1>3, <1>5
  <2>2. Stays(id[n + 1])  BY <1>1, SafeCharacters
  <2> QED  BY <1>5, <2>1, <2>2
\* Behind the dash the two names are the same.
<1>8. \A k \in 2 .. Len(zed) : zed[k] = id[n + k]
  <2> SUFFICES ASSUME NEW k \in 2 .. Len(zed)  PROVE zed[k] = id[n + k]  OBVIOUS
  <2>1. k - 1 \in 1 .. Len(f)  BY <1>2, <1>3
  <2>2. zed[1 + (k - 1)] = id[n + 1 + (k - 1)]  BY <1>1, <1>2, <2>1
  <2>3. 1 + (k - 1) = k /\ n + 1 + (k - 1) = n + k  BY <1>1
  <2> QED  BY <2>2, <2>3
<1>9. m = l - n
  <2>1. l - n \in 1 .. Len(zed)  BY <1>1, <1>2, <1>3, <1>5, <1>7
  <2>2. Stays(zed[l - n])
    <3>1. CASE l = n + 1
      <4>1. l - n = 1  BY <1>1, <3>1
      <4> QED  BY <1>4, <4>1
    <3>2. CASE l > n + 1
      <4>1. l - n \in 2 .. Len(zed) /\ n + (l - n) = l  BY <1>1, <2>1, <3>2
      <4> QED  BY <1>5, <1>8, <4>1
    <3> QED  BY <1>1, <1>5, <1>7, <3>1, <3>2
  <2>3. ~(l - n > m)
    <3> SUFFICES ASSUME l - n > m  PROVE FALSE  OBVIOUS
    <3>1. l - n \in m + 1 .. Len(zed)  BY <1>6, <2>1
    <3> QED  BY <1>6, <2>2, <3>1
  <2>4. ~(m > l - n)
    <3> SUFFICES ASSUME m > l - n  PROVE FALSE  OBVIOUS
    <3>1. /\ n \in 1 .. 3 /\ l \in Nat /\ m \in Nat /\ l - n >= 1
          /\ Len(id) = n + 1 + Len(f) /\ Len(zed) = 1 + Len(f)
      BY <1>1, <1>2, <1>3, <1>5, <1>6, <2>1
    <3>2. m \in 2 .. Len(zed)  BY <1>3, <1>6, <3>1
    <3>3. n + m \in l + 1 .. Len(id)  BY <1>3, <3>1, <3>2
    <3>4. zed[m] = id[n + m]  BY <1>8, <3>2
    <3> QED  BY <1>5, <1>6, <3>3, <3>4
  <2> QED  BY <1>6, <2>1, <2>3, <2>4
<1>10. \A k \in 1 .. n : c[k] = x[k] /\ c[k] \in 48 .. 57
  <2> SUFFICES ASSUME NEW k \in 1 .. n  PROVE c[k] = x[k] /\ c[k] \in 48 .. 57  OBVIOUS
  <2>1. k \in 1 .. l  BY <1>1, <1>5, <1>7
  <2>2. id[k] = x[k] /\ id[k] \in 48 .. 57  BY <1>1
  <2>3. Safe(id[k]) = id[k]  BY <2>2, SafeCharacters
  <2>4. c[k] = Safe(id[k])  BY <1>5, <2>1
  <2> QED  BY <2>2, <2>3, <2>4
<1>11. c[n + 1] = Dash
  <2>1. n + 1 \in 1 .. l  BY <1>1, <1>5, <1>7
  <2> QED  BY <1>1, <1>5, <2>1, SafeCharacters
<1>12. z[1] = Zed
  <2>1. 1 \in 1 .. m  BY <1>2, <1>3, <1>6
  <2> QED  BY <1>2, <1>6, <2>1, SafeCharacters
<1>13. \A k \in 2 .. m : z[k] = c[n + k]
  <2> SUFFICES ASSUME NEW k \in 2 .. m  PROVE z[k] = c[n + k]  OBVIOUS
  <2>1. k \in 1 .. m /\ k \in 2 .. Len(zed)  BY <1>6
  <2>2. n + k \in 1 .. l
    <3>1. n \in Nat /\ l \in Nat /\ k \in 2 .. l - n  BY <1>1, <1>3, <1>5, <1>9
    <3> QED  BY <3>1
  <2>3. z[k] = Safe(zed[k]) /\ zed[k] = id[n + k]  BY <1>6, <1>8, <2>1
  <2> QED  BY <1>5, <2>2, <2>3
<1>14. Len(c) \in Nat /\ Len(c) >= n + 1 /\ Len(z) = Len(c) - n  BY <1>1, <1>3, <1>5, <1>6, <1>7, <1>9
<1> QED  BY <1>1, <1>5, <1>6, <1>10, <1>11, <1>12, <1>13, <1>14 DEF x, n, id, zed, c, z

\* A session's name, and a name when it is cleaned behind a letter.
IdOf(t, f) == Digits(t) \o <<Dash>> \o f
Behind(f) == Clean(<<Zed>> \o f)

\* A session's name begins with a digit.
LEMMA NameBegins ==
    ASSUME NEW t \in Instants, NEW f \in Seq(Nat)
    PROVE  Clean(IdOf(t, f))[1] \in 48 .. 57
<1> DEFINE n == Len(Digits(t))
           c == Clean(Digits(t) \o <<Dash>> \o f)
<1>1. n \in 1 .. 3 /\ \A k \in 1 .. n : c[k] \in 48 .. 57  BY CleanIdShape
<1> HIDE DEF n, c
<1>2. 1 \in 1 .. n  BY <1>1
<1>3. c[1] \in 48 .. 57  BY <1>1, <1>2
<1> QED  BY <1>3 DEF c, IdOf

\* Names of sessions that are the same when cleaned are names of sessions that
\* were started at the same time, with the same cleaned name of their programs.
LEMMA NamesApart ==
    ASSUME NEW t \in Instants, NEW u \in Instants, NEW f \in Seq(Nat), NEW g \in Seq(Nat),
           Clean(IdOf(t, f)) = Clean(IdOf(u, g))
    PROVE  t = u /\ Behind(f) = Behind(g)
<1> DEFINE n == Len(Digits(t))
           m == Len(Digits(u))
           c == Clean(Digits(t) \o <<Dash>> \o f)
           y == Clean(<<Zed>> \o f)
           d == Clean(Digits(u) \o <<Dash>> \o g)
           z == Clean(<<Zed>> \o g)
<1>1. /\ n \in 1 .. 3 /\ c \in Seq(Nat) /\ Len(c) \in Nat /\ Len(c) >= n + 1
      /\ \A k \in 1 .. n : c[k] = Digits(t)[k] /\ c[k] \in 48 .. 57
      /\ c[n + 1] = Dash
      /\ y \in Seq(Nat) /\ Len(y) = Len(c) - n /\ y[1] = Zed
      /\ \A k \in 2 .. Len(y) : y[k] = c[n + k]
  BY CleanIdShape
<1>2. /\ m \in 1 .. 3 /\ d \in Seq(Nat) /\ Len(d) \in Nat /\ Len(d) >= m + 1
      /\ \A k \in 1 .. m : d[k] = Digits(u)[k] /\ d[k] \in 48 .. 57
      /\ d[m + 1] = Dash
      /\ z \in Seq(Nat) /\ Len(z) = Len(d) - m /\ z[1] = Zed
      /\ \A k \in 2 .. Len(z) : z[k] = d[m + k]
  BY CleanIdShape
<1>3. c = d  BY DEF IdOf
<1> HIDE DEF n, m, c, d, y, z
<1>4. /\ m \in 1 .. 3
      /\ \A k \in 1 .. m : c[k] = Digits(u)[k] /\ c[k] \in 48 .. 57
      /\ c[m + 1] = Dash
      /\ z \in Seq(Nat) /\ Len(z) = Len(c) - m /\ z[1] = Zed
      /\ \A k \in 2 .. Len(z) : z[k] = c[m + k]
  BY ONLY <1>2, <1>3
<1>5. n = m
  <2>1. ~(n < m)
    <3> SUFFICES ASSUME n < m  PROVE FALSE  OBVIOUS
    <3>1. n + 1 \in 1 .. m  BY <1>1, <1>4
    <3>2. c[n + 1] \in 48 .. 57  BY <1>4, <3>1
    <3>3. c[n + 1] = 45  BY <1>1 DEF Dash
    <3> QED  BY ONLY <3>2, <3>3
  <2>2. ~(m < n)
    <3> SUFFICES ASSUME m < n  PROVE FALSE  OBVIOUS
    <3>1. m + 1 \in 1 .. n  BY <1>1, <1>4
    <3>2. c[m + 1] \in 48 .. 57  BY <1>1, <3>1
    <3>3. c[m + 1] = 45  BY <1>4 DEF Dash
    <3> QED  BY ONLY <3>2, <3>3
  <2> QED  BY <1>1, <1>4, <2>1, <2>2
<1>6. t = u
  <2>1. \A k \in 1 .. n : Digits(t)[k] = Digits(u)[k]  BY <1>1, <1>4, <1>5
  <2> QED  BY <1>5, <2>1, DigitsApart DEF n, m
<1>7. y = z
  <2>1. Len(y) = Len(z)  BY <1>1, <1>4, <1>5
  <2>2. Len(y) \in Nat  BY <1>1
  <2>3. ASSUME NEW k \in 1 .. Len(y)  PROVE y[k] = z[k]
    <3>1. CASE k = 1  BY <1>1, <1>4, <3>1
    <3>2. CASE k # 1
      <4>1. k \in 2 .. Len(y)  BY <2>2, <3>2
      <4> QED  BY <1>1, <1>4, <1>5, <2>1, <4>1
    <3> QED  BY <3>1, <3>2
  <2> QED  BY <1>1, <1>4, <2>1, <2>3, SeqEqual
<1> QED  BY <1>6, <1>7 DEF y, z, Behind

-----------------------------------------------------------------------------
OwnName == IF AgentSession = <<>> THEN Hook ELSE AgentPrefix \o AgentSession

\* The name of a session is made of its start and its program's name, and what
\* an agent without a session writes goes to a log that is named after its own.
NamedInv ==
    /\ \A i \in DOMAIN sessions : sessions[i].id = SessionId(sessions[i].at, sessions[i].program)
    /\ \A k \in DOMAIN writes : writes[k].from = 0 => writes[k].file.name = Clean(OwnName)

SessionInv == ShapeInv /\ TypeOK /\ NamedInv

LEMMA IdType ==
    ASSUME NEW t \in Instants, NEW program \in Programs
    PROVE  /\ t \in Instants /\ FileStem(program) \in Seq(Nat)
           /\ SessionId(t, program) \in Seq(Nat) /\ Clean(SessionId(t, program)) \in Seq(Nat)
<1>1. t \in Instants /\ program \in Seq(Nat)  BY SessionAssumption
<1>2. FileStem(program) \in Seq(Nat)  BY <1>1, StemType
<1>3. SessionId(t, program) = Digits(t) \o <<Dash>> \o FileStem(program)  BY DEF SessionId
<1>4. SessionId(t, program) \in Seq(Nat)  BY <1>1, <1>2, <1>3, IdShape
<1>5. Clean(SessionId(t, program)) \in Seq(Nat)  BY <1>1, <1>2, <1>3, CleanIdShape
<1> QED  BY <1>1, <1>2, <1>4, <1>5

\* What a step does to the types and the names of the sessions.
SessionsStay ==
    /\ sessions' \in Seq(SessionType) /\ Len(sessions') <= MaxSessions
    /\ Len(sessions) <= Len(sessions')
    /\ \A i \in DOMAIN sessions' :
        /\ sessions'[i].recorder # "running" => sessions'[i].buffer = <<>>
        /\ sessions'[i].id = SessionId(sessions'[i].at, sessions'[i].program)

LEMMA ReplaceTyped ==
    ASSUME SessionInv, NEW i \in DOMAIN sessions, NEW s \in SessionType,
           sessions' = [sessions EXCEPT ![i] = s],
           s.recorder # "running" => s.buffer = <<>>,
           s.id = sessions[i].id, s.at = sessions[i].at, s.program = sessions[i].program
    PROVE  SessionsStay
<1>1. sessions \in Seq(SessionType) /\ Len(sessions) <= MaxSessions  BY DEF SessionInv, TypeOK
<1>2. DOMAIN sessions = 1 .. Len(sessions) /\ Len(sessions) \in Nat  BY <1>1, LenProperties
<1>3. /\ sessions' \in Seq(SessionType)
      /\ Len(sessions') = Len(sessions)
      /\ \A j \in 1 .. Len(sessions) : sessions'[j] = IF j = i THEN s ELSE sessions[j]
  BY <1>1, <1>2, ExceptSeq
<1>4. DOMAIN sessions' = DOMAIN sessions  BY <1>2, <1>3, LenProperties
<1>5. ASSUME NEW j \in DOMAIN sessions'
      PROVE  /\ sessions'[j].recorder # "running" => sessions'[j].buffer = <<>>
             /\ sessions'[j].id = SessionId(sessions'[j].at, sessions'[j].program)
  <2>1. sessions'[j] = IF j = i THEN s ELSE sessions[j]  BY <1>2, <1>3, <1>4
  <2>2. /\ sessions[j].recorder # "running" => sessions[j].buffer = <<>>
        /\ sessions[j].id = SessionId(sessions[j].at, sessions[j].program)
    BY <1>4 DEF SessionInv, TypeOK, NamedInv
  <2>3. CASE j = i
    <3>1. sessions'[j] = s  BY <2>1, <2>3
    <3> QED  BY <2>2, <2>3, <3>1
  <2>4. CASE j # i  BY <2>1, <2>2, <2>4
  <2> QED  BY <2>3, <2>4
<1> QED  BY <1>1, <1>2, <1>3, <1>5 DEF SessionsStay

LEMMA SessionsStayStep == SessionInv /\ [Next]_vars => SessionsStay
<1> SUFFICES ASSUME SessionInv, [Next]_vars  PROVE SessionsStay  OBVIOUS
<1>1. /\ sessions \in Seq(SessionType) /\ Len(sessions) <= MaxSessions
      /\ clock \in Instants /\ dataDir \in DataDirs
  BY DEF SessionInv, TypeOK
<1>2. DOMAIN sessions = 1 .. Len(sessions) /\ Len(sessions) \in Nat  BY <1>1, LenProperties
<1>3. \A i \in DOMAIN sessions : sessions[i] \in SessionType  BY <1>1, <1>2, ElementOfSeq
<1>4. \A i \in DOMAIN sessions :
        /\ sessions[i].recorder # "running" => sessions[i].buffer = <<>>
        /\ sessions[i].id = SessionId(sessions[i].at, sessions[i].program)
  BY DEF SessionInv, TypeOK, NamedInv
<1>5. ASSUME NEW p \in Agents, NEW program \in Programs, StartSession(p, program)
      PROVE  SessionsStay
  <2> DEFINE id == SessionId(clock, program)
             s == [id |-> id, at |-> clock, program |-> program,
                   env |-> [log |-> SessionPath(id), label |-> id], start |-> CwdOf(p),
                   cwd |-> CwdOf(p), agent |-> "running", recorder |-> "running",
                   buffer |-> <<>>]
  <2>1. sessions' = Append(sessions, s) /\ Len(sessions) < MaxSessions  BY <1>5 DEF StartSession
  <2>2. CwdOf(p) \in Dirs
    <3>1. CASE p = 0  BY <3>1, SessionAssumption DEF CwdOf
    <3>2. CASE p # 0
      <4>1. p \in DOMAIN sessions /\ CwdOf(p) = sessions[p].cwd  BY <3>2 DEF Agents, CwdOf
      <4> QED  BY <1>3, <4>1 DEF SessionType
    <3> QED  BY <3>1, <3>2
  <2>3. id \in Seq(Nat) /\ SessionPath(id) \in [dir : DataDirs, name : Seq(Nat)]
    BY <1>1, IdType DEF SessionPath
  <2>4. <<>> \in Seq(Instants)  BY EmptySeq
  <2>5. s.recorder = "running" /\ s.id = SessionId(s.at, s.program)  OBVIOUS
  <2>6. s \in SessionType
    <3> HIDE DEF id
    <3> QED  BY <1>1, <2>2, <2>3, <2>4 DEF SessionType
  <2> HIDE DEF s
  <2>7. /\ sessions' \in Seq(SessionType)
        /\ Len(sessions') = Len(sessions) + 1
        /\ \A j \in 1 .. Len(sessions) : sessions'[j] = sessions[j]
        /\ sessions'[Len(sessions) + 1] = s
    BY <1>1, <2>1, <2>6, AppendProperties
  <2>8. DOMAIN sessions' = 1 .. Len(sessions) + 1  BY <2>7, LenProperties
  <2>9. MaxSessions \in Nat  BY SessionAssumption
  <2>10. Len(sessions') <= MaxSessions /\ Len(sessions) <= Len(sessions')
    BY <1>2, <2>1, <2>7, <2>9
  <2>11. ASSUME NEW j \in DOMAIN sessions'
         PROVE  /\ sessions'[j].recorder # "running" => sessions'[j].buffer = <<>>
                /\ sessions'[j].id = SessionId(sessions'[j].at, sessions'[j].program)
    <3>1. CASE j = Len(sessions) + 1  BY <2>5, <2>7, <3>1
    <3>2. CASE j # Len(sessions) + 1
      <4>1. j \in DOMAIN sessions  BY <1>2, <2>8, <3>2
      <4>2. sessions'[j] = sessions[j]  BY <1>2, <2>7, <4>1
      <4> QED  BY <1>4, <4>1, <4>2
    <3> QED  BY <3>1, <3>2
  <2> QED  BY <2>7, <2>10, <2>11 DEF SessionsStay
<1>6. ASSUME NEW i \in DOMAIN sessions, NEW d \in Dirs, ChangeDir(i, d)  PROVE SessionsStay
  <2> DEFINE s == [sessions[i] EXCEPT !.cwd = d]
  <2>1. sessions' = [sessions EXCEPT ![i] = s]  BY <1>6 DEF ChangeDir
  <2>2. /\ s \in SessionType /\ s.recorder = sessions[i].recorder /\ s.buffer = sessions[i].buffer
        /\ s.id = sessions[i].id /\ s.at = sessions[i].at /\ s.program = sessions[i].program
    BY <1>3 DEF SessionType
  <2> HIDE DEF s
  <2> QED  BY <1>4, <2>1, <2>2, ReplaceTyped
<1>7. ASSUME NEW i \in DOMAIN sessions, TypeLine(i)  PROVE SessionsStay
  <2> DEFINE b == Append(sessions[i].buffer, clock)
             s == [sessions[i] EXCEPT !.buffer = b]
  <2>1. sessions' = [sessions EXCEPT ![i] = s] /\ sessions[i].recorder = "running"
    BY <1>7 DEF TypeLine
  <2>2. sessions[i] \in SessionType  BY <1>3
  <2>3. b \in Seq(Instants)
    <3>1. sessions[i].buffer \in Seq(Instants)  BY <2>2 DEF SessionType
    <3> QED  BY <1>1, <3>1, AppendProperties
  <2> HIDE DEF b
  <2>4. /\ s \in SessionType /\ s.recorder = sessions[i].recorder
        /\ s.id = sessions[i].id /\ s.at = sessions[i].at /\ s.program = sessions[i].program
    BY <2>2, <2>3 DEF SessionType
  <2> HIDE DEF s
  <2> QED  BY <2>1, <2>4, ReplaceTyped
<1>8. ASSUME NEW i \in DOMAIN sessions, EndSession(i)  PROVE SessionsStay
  <2> DEFINE s == [sessions[i] EXCEPT !.agent = "ended", !.recorder = "ended", !.buffer = <<>>]
  <2>1. sessions[i] \in SessionType  BY <1>3
  <2>2. sessions' = [sessions EXCEPT ![i] = s]  BY <1>8, <2>1 DEF EndSession, SessionType
  <2>3. <<>> \in Seq(Instants)  BY EmptySeq
  <2>4. /\ s \in SessionType /\ s.buffer = <<>>
        /\ s.id = sessions[i].id /\ s.at = sessions[i].at /\ s.program = sessions[i].program
    BY <2>1, <2>3 DEF SessionType
  <2> HIDE DEF s
  <2> QED  BY <2>2, <2>4, ReplaceTyped
<1>9. ASSUME NEW i \in DOMAIN sessions, KillRecorder(i)  PROVE SessionsStay
  <2> DEFINE s == [sessions[i] EXCEPT !.recorder = "killed", !.buffer = <<>>]
  <2>1. sessions[i] \in SessionType  BY <1>3
  <2>2. sessions' = [sessions EXCEPT ![i] = s]  BY <1>9, <2>1 DEF KillRecorder, SessionType
  <2>3. <<>> \in Seq(Instants)  BY EmptySeq
  <2>4. /\ s \in SessionType /\ s.buffer = <<>>
        /\ s.id = sessions[i].id /\ s.at = sessions[i].at /\ s.program = sessions[i].program
    BY <2>1, <2>3 DEF SessionType
  <2> HIDE DEF s
  <2> QED  BY <2>2, <2>4, ReplaceTyped
<1>10. ASSUME UNCHANGED sessions  PROVE SessionsStay
  BY <1>1, <1>2, <1>4, <1>10 DEF SessionsStay
<1>11. \A i \in Agents \ {0} : i \in DOMAIN sessions  BY DEF Agents
<1> QED
  BY <1>5, <1>6, <1>7, <1>8, <1>9, <1>10, <1>11 DEF Next, Tick, ToolCall, vars

LEMMA SessionInvStep == SessionInv /\ [Next]_vars => SessionInv'
<1> SUFFICES ASSUME SessionInv, [Next]_vars  PROVE SessionInv'  OBVIOUS
<1>1. ShapeInv /\ TypeOK /\ NamedInv  BY DEF SessionInv
<1>2. ShapeInv' /\ WritesGrow /\ SessionsStay /\ SessionsGrow
  BY <1>1, ShapeStep, WriteStep, SessionsStayStep, GrowStep
<1>3. sessions \in Seq(SessionType) /\ sessions' \in Seq(SessionType)  BY <1>1, <1>2 DEF TypeOK, SessionsStay
<1>4. /\ Len(sessions) \in Nat /\ Len(sessions') \in Nat /\ Len(sessions) <= Len(sessions')
      /\ DOMAIN sessions = 1 .. Len(sessions)
  BY <1>2, <1>3, LenProperties DEF SessionsStay
<1>5. ASSUME NEW k \in DOMAIN writes' \ DOMAIN writes
      PROVE  /\ writes'[k].from \in 0 .. Len(sessions')
             /\ writes'[k].src = "typed" => writes'[k].from # 0
             /\ writes'[k].at \in Instants /\ writes'[k].wrote \in Instants
             /\ writes'[k].from = 0 => writes'[k].file.name = Clean(OwnName)
  <2> DEFINE w == writes'[k]
  <2>1. /\ w.at \in Instants
        /\ \/ \E i \in DOMAIN sessions :
                w = Record("typed", i, LogOf(i), sessions[i].id, sessions[i].start, w.at)
           \/ \E i \in Agents :
                LET to == Target(EnvOf(i), AgentSession)
                IN  w = Record("hook", i, Locate(to.log, CwdOf(i)), to.label, CwdOf(i), clock)
    BY <1>2 DEF WritesGrow
  <2> HIDE DEF w
  <2>2. clock \in Instants  BY <1>1 DEF TypeOK
  <2>3. ASSUME NEW i \in DOMAIN sessions,
               w = Record("typed", i, LogOf(i), sessions[i].id, sessions[i].start, w.at)
        PROVE  /\ w.from \in 0 .. Len(sessions') /\ w.from # 0 /\ w.wrote \in Instants
    BY <1>4, <2>2, <2>3 DEF Record
  <2>4. ASSUME NEW i \in Agents,
               w = Record("hook", i, Locate(Target(EnvOf(i), AgentSession).log, CwdOf(i)),
                          Target(EnvOf(i), AgentSession).label, CwdOf(i), clock)
        PROVE  /\ w.from \in 0 .. Len(sessions') /\ w.src = "hook" /\ w.wrote \in Instants
               /\ w.from = 0 => w.file.name = Clean(OwnName)
    <3>1. w.from = i /\ w.src = "hook" /\ w.wrote = clock
          /\ w.file = Locate(Target(EnvOf(i), AgentSession).log, CwdOf(i))
      BY <2>4 DEF Record
    <3>2. i \in 0 .. Len(sessions')  BY <1>4 DEF Agents
    <3>3. i = 0 => w.file.name = Clean(OwnName)
      BY <3>1 DEF EnvOf, Target, OwnName, SessionPath, Locate
    <3> QED  BY <2>2, <3>1, <3>2, <3>3
  <2>5. CASE \E i \in DOMAIN sessions :
                w = Record("typed", i, LogOf(i), sessions[i].id, sessions[i].start, w.at)
    BY <2>1, <2>3, <2>5 DEF w
  <2>6. CASE \E i \in Agents :
                LET to == Target(EnvOf(i), AgentSession)
                IN  w = Record("hook", i, Locate(to.log, CwdOf(i)), to.label, CwdOf(i), clock)
    BY <2>1, <2>4, <2>6 DEF w
  <2> QED  BY <2>1, <2>5, <2>6
<1>6. ASSUME NEW k \in DOMAIN writes
      PROVE  /\ writes'[k].from \in 0 .. Len(sessions')
             /\ writes'[k].src = "typed" => writes'[k].from # 0
             /\ writes'[k].at \in Instants /\ writes'[k].wrote \in Instants
             /\ writes'[k].from = 0 => writes'[k].file.name = Clean(OwnName)
  <2>1. writes'[k] = writes[k]  BY <1>2 DEF WritesGrow
  <2>2. /\ writes[k].from \in 0 .. Len(sessions)
        /\ writes[k].src = "typed" => writes[k].from # 0
        /\ writes[k].at \in Instants /\ writes[k].wrote \in Instants
    BY <1>1 DEF TypeOK
  <2>3. writes[k].from = 0 => writes[k].file.name = Clean(OwnName)  BY <1>1 DEF NamedInv
  <2> QED  BY <1>4, <2>1, <2>2, <2>3
<1>7. TypeOK'
  <2>1. dataDir' \in DataDirs /\ clock' \in Instants  BY <1>2 DEF ShapeInv
  <2> QED  BY <1>2, <1>5, <1>6, <2>1 DEF TypeOK, SessionsStay
<1>8. NamedInv'  BY <1>2, <1>5, <1>6 DEF NamedInv, SessionsStay, OwnName
<1> QED  BY <1>2, <1>7, <1>8 DEF SessionInv

LEMMA InitSessionInv == Init => SessionInv
<1> SUFFICES ASSUME Init  PROVE SessionInv  OBVIOUS
<1>1. ShapeInv /\ DOMAIN sessions = {} /\ DOMAIN writes = {}  BY InitShape
<1>2. sessions \in Seq(SessionType) /\ Len(sessions) = 0  BY EmptySeq DEF Init
<1>3. Len(sessions) <= MaxSessions  BY <1>2, SessionAssumption
<1> QED  BY <1>1, <1>2, <1>3 DEF SessionInv, TypeOK, NamedInv, ShapeInv

\* Sessions, environments and logs keep their types; a session that has ended has
\* nothing left in its buffer.
THEOREM TypeSafety == Spec => []TypeOK
<1>1. SessionInv => TypeOK  BY DEF SessionInv
<1> QED  BY <1>1, InitSessionInv, SessionInvStep, PTL DEF Spec

\* Whatever the agents' names, however sessions nest and whoever is killed: two
\* sessions write to one log only if they were started at the same instant and
\* their agents' names are the same once they are cleaned, and no session's log
\* is that of an agent that runs without a session.
THEOREM ApartSafety == Spec => []SessionsApart
<1>1. SessionInv => SessionsApart
  <2> SUFFICES ASSUME SessionInv  PROVE SessionsApart  OBVIOUS
  <2>1. sessions \in Seq(SessionType)  BY DEF SessionInv, TypeOK
  <2>2. ASSUME NEW i \in DOMAIN sessions
        PROVE  /\ sessions[i].at \in Instants /\ FileStem(sessions[i].program) \in Seq(Nat)
               /\ LogOf(i).name = Clean(IdOf(sessions[i].at, FileStem(sessions[i].program)))
    <3>1. sessions[i] \in SessionType  BY <2>1, LenProperties, ElementOfSeq
    <3>2. sessions[i].at \in Instants /\ sessions[i].program \in Programs  BY <3>1 DEF SessionType
    <3>3. sessions[i].id = IdOf(sessions[i].at, FileStem(sessions[i].program))
      BY DEF SessionInv, NamedInv, SessionId, IdOf
    <3>4. LogOf(i).name = Clean(sessions[i].id)  BY DEF LogOf, Locate, SessionPath
    <3>5. LogOf(i).name = Clean(IdOf(sessions[i].at, FileStem(sessions[i].program)))
      BY ONLY <3>3, <3>4
    <3>6. sessions[i].at \in Instants /\ FileStem(sessions[i].program) \in Seq(Nat)
      BY ONLY <3>2, IdType
    <3> QED  BY <3>5, <3>6
  <2>3. ASSUME NEW i \in DOMAIN sessions, NEW j \in DOMAIN sessions, LogOf(i) = LogOf(j)
        PROVE  /\ sessions[i].at = sessions[j].at
               /\ Clean(<<Zed>> \o FileStem(sessions[i].program))
                    = Clean(<<Zed>> \o FileStem(sessions[j].program))
    <3>1. sessions[i].at = sessions[j].at
          /\ Behind(FileStem(sessions[i].program)) = Behind(FileStem(sessions[j].program))
      <4>1. sessions[i].at \in Instants /\ FileStem(sessions[i].program) \in Seq(Nat)  BY <2>2
      <4>2. sessions[j].at \in Instants /\ FileStem(sessions[j].program) \in Seq(Nat)  BY <2>2
      <4>3. Clean(IdOf(sessions[i].at, FileStem(sessions[i].program)))
              = Clean(IdOf(sessions[j].at, FileStem(sessions[j].program)))
        <5>1. LogOf(i).name = LogOf(j).name  BY <2>3
        <5>2. LogOf(i).name = Clean(IdOf(sessions[i].at, FileStem(sessions[i].program)))  BY <2>2
        <5>3. LogOf(j).name = Clean(IdOf(sessions[j].at, FileStem(sessions[j].program)))  BY <2>2
        <5> QED  BY ONLY <5>1, <5>2, <5>3
      <4> QED  BY ONLY <4>1, <4>2, <4>3, NamesApart
    <3> QED  BY <3>1 DEF Behind
  <2>4. ASSUME NEW i \in DOMAIN sessions, NEW k \in DOMAIN writes, writes[k].from = 0
        PROVE  writes[k].file # LogOf(i)
    <3>1. writes[k].file.name = Clean(OwnName)  BY <2>4 DEF SessionInv, NamedInv
    <3>2. Clean(OwnName)[1] \in {97, 104}
      <4>1. OwnName \in Seq(Nat) /\ Len(OwnName) >= 1 /\ OwnName[1] \in {97, 104}
        <5>1. CASE AgentSession = <<>>
          <6>1. OwnName = Hook  BY <5>1 DEF OwnName
          <6> QED  BY <6>1 DEF Hook
        <5>2. CASE AgentSession # <<>>
          <6>1. OwnName = AgentPrefix \o AgentSession  BY <5>2 DEF OwnName
          <6>2. AgentSession \in Seq(Nat)  BY SessionAssumption
          <6>3. AgentPrefix \in Seq(Nat) /\ Len(AgentPrefix) = 6 /\ AgentPrefix[1] = 97
            BY DEF AgentPrefix
          <6>4. AgentPrefix \in Seq(Nat) /\ AgentSession \in Seq(Nat)  BY <6>2, <6>3
          <6>5. /\ AgentPrefix \o AgentSession \in Seq(Nat)
                /\ Len(AgentPrefix \o AgentSession) = Len(AgentPrefix) + Len(AgentSession)
                /\ \A n \in 1 .. Len(AgentPrefix) + Len(AgentSession) :
                      (AgentPrefix \o AgentSession)[n] =
                        IF n <= Len(AgentPrefix) THEN AgentPrefix[n]
                        ELSE AgentSession[n - Len(AgentPrefix)]
            BY ONLY <6>4, ConcatProperties
          <6>6. Len(AgentSession) \in Nat  BY <6>2, LenProperties
          <6> QED  BY <6>1, <6>3, <6>5, <6>6
        <5> QED  BY <5>1, <5>2
      <4>2. Stays(OwnName[1]) /\ Safe(OwnName[1]) = OwnName[1]  BY <4>1, SafeCharacters
      <4>3. PICK n \in 1 .. Len(OwnName) : \A m \in 1 .. n : Clean(OwnName)[m] = Safe(OwnName[m])
        BY <4>1, <4>2, CleanIsBeginning
      <4>4. 1 \in 1 .. n  BY <4>1, <4>3
      <4> QED  BY <4>1, <4>2, <4>3, <4>4
    <3>3. LogOf(i).name[1] \in 48 .. 57
      <4>1. sessions[i].at \in Instants /\ FileStem(sessions[i].program) \in Seq(Nat)  BY <2>2
      <4>2. Clean(IdOf(sessions[i].at, FileStem(sessions[i].program)))[1] \in 48 .. 57
        BY ONLY <4>1, NameBegins
      <4>3. LogOf(i).name = Clean(IdOf(sessions[i].at, FileStem(sessions[i].program)))  BY <2>2
      <4> QED  BY ONLY <4>2, <4>3
    <3> QED  BY <3>1, <3>2, <3>3
  <2> QED  BY <2>3, <2>4 DEF SessionsApart
<1> QED  BY <1>1, InitSessionInv, SessionInvStep, PTL DEF Spec

\* Whatever is written in which order: log shows a later record before an
\* earlier one only if the fraction of the one's time begins that of the other's.
THEOREM TimelineSafety == Spec => []TimelineNearlyChronological
<1>1. SessionInv => TimelineNearlyChronological
  <2> SUFFICES ASSUME SessionInv, NEW j \in DOMAIN writes, NEW k \in DOMAIN writes,
                      writes[j].at < writes[k].at
               PROVE  \/ ShownBefore(j, k)
                      \/ /\ writes[j].at \div 100 = writes[k].at \div 100
                         /\ LET f == Fraction(writes[j].at)
                                g == Fraction(writes[k].at)
                            IN  Len(f) < Len(g) /\ f = SubSeq(g, 1, Len(f))
    BY DEF TimelineNearlyChronological
  <2> DEFINE t == writes[j].at
             u == writes[k].at
  <2>1. t \in Instants /\ u \in Instants
    <3>1. t \in Instants /\ u \in Instants  BY DEF SessionInv, TypeOK
    <3> QED  BY <3>1, SessionAssumption
  <2>2. ShownBefore(j, k) <=> \/ TextBefore(Timestamp(t), Timestamp(u))
                              \/ Timestamp(t) = Timestamp(u) /\ j < k
    BY DEF ShownBefore
  <2>3. t < u  OBVIOUS
  <2> HIDE DEF t, u
  <2>4. \/ TextBefore(Timestamp(t), Timestamp(u))
        \/ /\ t \div 100 = u \div 100
           /\ Len(Fraction(t)) < Len(Fraction(u))
           /\ Fraction(t) = SubSeq(Fraction(u), 1, Len(Fraction(t)))
    BY <2>1, <2>3, NearlyOrdered
  <2> QED  BY <2>2, <2>4 DEF t, u
<1> QED  BY <1>1, InitSessionInv, SessionInvStep, PTL DEF Spec

=============================================================================
