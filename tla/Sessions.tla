------------------------------ MODULE Sessions ------------------------------
(***************************************************************************)
(* Which log a record goes to, and how a log is found and shown again      *)
(* (cli/src/commands: run.rs, hook.rs, mod.rs, log.rs; core/src/store.rs). *)
(*                                                                         *)
(* A session is a recorder with the agent it runs; an agent may start      *)
(* `snitchit -- agent` in its turn.  What is typed is buffered by the      *)
(* recorder until its session ends, tool calls are written at once by      *)
(* hooks that the agent starts.  Agents change their directory, recorders  *)
(* are killed, and the clock need not move between two events.             *)
(*                                                                         *)
(* Texts are sequences of character codes.  An append is one step here.    *)
(***************************************************************************)
EXTENDS Naturals, Sequences

CONSTANTS
    DataDirs,       \* of "absolute", "relative": what XDG_DATA_HOME may be
    Dirs, Home,     \* directories an agent can be in; where the user's shell is
    Programs,       \* names of agents
    AgentSession,   \* the agent's own session id, in the payload of its hooks
    Instants,       \* readings of the clock within ten seconds, in hundredths of a second
    MaxSessions,
    MaxTyped,       \* lines typed in one session
    MaxWrites       \* of a kind of data directory: records in all logs, but for the last drain's

ASSUME SessionAssumption ==
    /\ DataDirs \subseteq {"absolute", "relative"} /\ Home \in Dirs
    /\ Programs \subseteq Seq(Nat) /\ AgentSession \in Seq(Nat)
    /\ Instants \subseteq 0 .. 999 /\ {MaxSessions, MaxTyped} \subseteq Nat
    /\ MaxWrites \in [DataDirs -> Nat]

VARIABLES
    dataDir,        \* what XDG_DATA_HOME is
    clock,
    sessions,       \* the sessions, in the order of their start
    writes          \* the records of all logs, in the order of their appends

vars == <<dataDir, clock, sessions, writes>>

-----------------------------------------------------------------------------
(* Names and times.                                                         *)

Dash == 45
Dot == 46
Zed == 90
Underscore == 95
AgentPrefix == <<97, 103, 101, 110, 116, 45>>       \* "agent-"
Hook == <<104, 111, 111, 107>>                      \* "hook"
SessionWord == <<115, 101, 115, 115, 105, 111, 110>> \* "session"

IsDigit(c) == c \in 48 .. 57
IsSafe(c) == IsDigit(c) \/ c \in 65 .. 90 \cup 97 .. 122 \cup {Dash, Dot, Underscore}

\* The digits of a fraction of a second, without zeros at the end.
Fraction(t) ==
    LET f == t % 100
    IN  IF f = 0 THEN <<>>
        ELSE IF f % 10 = 0 THEN <<48 + f \div 10>>
        ELSE <<48 + f \div 10, 48 + (f % 10)>>

\* now_rfc3339: what comes before the seconds has a fixed length and is left out.
Timestamp(t) ==
    <<48 + t \div 100>> \o (IF Fraction(t) = <<>> THEN <<>> ELSE <<Dot>> \o Fraction(t)) \o <<Zed>>

\* What is left of it when all but its digits are filtered out.
Digits(t) == <<48 + t \div 100>> \o Fraction(t)

\* Path::file_stem.
FileStem(name) ==
    LET dots == {i \in 2 .. Len(name) : name[i] = Dot}
    IN  IF dots = {} THEN name
        ELSE SubSeq(name, 1, (CHOOSE i \in dots : \A j \in dots : j <= i) - 1)

\* Mutant: the time is taken to the second.
SessionIdOfSecond(t, program) == <<48 + t \div 100>> \o <<Dash>> \o FileStem(program)

\* session_id.
SessionId(t, program) == Digits(t) \o <<Dash>> \o FileStem(program)

\* sanitize: unsafe characters become underscores, which are trimmed like dots.
Clean(name) ==
    LET safe == [i \in DOMAIN name |-> IF IsSafe(name[i]) THEN name[i] ELSE Underscore]
        kept == {i \in DOMAIN name : safe[i] \notin {Dot, Underscore}}
    IN  IF kept = {} THEN SessionWord
        ELSE SubSeq(safe, CHOOSE i \in kept : \A j \in kept : i <= j,
                          CHOOSE i \in kept : \A j \in kept : j <= i)

\* session_path, in data_dir: a path that the working directory may be part of.
SessionPath(id) == [dir |-> dataDir, name |-> Clean(id)]

\* The file a path denotes for a process that is in cwd.
Locate(path, cwd) ==
    [dir |-> IF path.dir = "absolute" THEN "data" ELSE cwd, name |-> path.name]

-----------------------------------------------------------------------------
NoEnv == [log |-> [dir |-> "none", name |-> <<>>], label |-> <<>>]

\* The agents that run: 0 stands for one that the user has started directly.
Agents == {0} \cup {i \in DOMAIN sessions : sessions[i].agent = "running"}

EnvOf(i) == IF i = 0 THEN NoEnv ELSE sessions[i].env
CwdOf(i) == IF i = 0 THEN Home ELSE sessions[i].cwd

\* A record with its time stamp `at`, and when and from where it was written.
Record(src, from, file, label, cwd, at) ==
    [src |-> src, from |-> from, file |-> file, label |-> label, cwd |-> cwd,
     at |-> at, wrote |-> clock]

Init ==
    /\ dataDir \in DataDirs
    /\ clock \in Instants
    /\ sessions = <<>>
    /\ writes = <<>>

Tick ==
    /\ \E t \in Instants : t > clock /\ clock' = t
    /\ UNCHANGED <<dataDir, sessions, writes>>

\* Mutant: the variables are set only if they are not there yet.
StartSessionKeepingEnv(parent, program) ==
    /\ Len(sessions) < MaxSessions
    /\ LET id == SessionId(clock, program)
           mine == [log |-> SessionPath(id), label |-> id]
       IN  sessions' = Append(sessions,
            [id |-> id, at |-> clock, program |-> program,
             env |-> IF EnvOf(parent) = NoEnv THEN mine ELSE EnvOf(parent), start |-> CwdOf(parent),
             cwd |-> CwdOf(parent), agent |-> "running", recorder |-> "running", buffer |-> <<>>])
    /\ UNCHANGED <<dataDir, clock, writes>>

\* run: name the session, set SNITCHIT_LOG and SNITCHIT_SESSION, start the agent,
\* which inherits them and the directory.  No file is made yet.
StartSession(parent, program) ==
    /\ Len(sessions) < MaxSessions
    /\ LET id == SessionId(clock, program)
       IN  sessions' = Append(sessions,
            [id |-> id, at |-> clock, program |-> program,
             env |-> [log |-> SessionPath(id), label |-> id], start |-> CwdOf(parent),
             cwd |-> CwdOf(parent), agent |-> "running", recorder |-> "running", buffer |-> <<>>])
    /\ UNCHANGED <<dataDir, clock, writes>>

\* target: the session of the environment, or one named by the agent's own.
Target(env, agentSession) ==
    IF env # NoEnv THEN env
    ELSE LET sid == IF agentSession = <<>> THEN Hook ELSE AgentPrefix \o agentSession
         IN  [log |-> SessionPath(sid), label |-> sid]

\* hook::run: the hook is a child of the agent and appends at once.
ToolCall(i) ==
    /\ Len(writes) < MaxWrites[dataDir]
    /\ LET to == Target(EnvOf(i), AgentSession)
       IN  writes' = Append(writes,
            Record("hook", i, Locate(to.log, CwdOf(i)), to.label, CwdOf(i), clock))
    /\ UNCHANGED <<dataDir, clock, sessions>>

\* Where the data directory is absolute, no path depends on where an agent is.
ChangeDir(i, dir) ==
    /\ dataDir = "relative"
    /\ sessions' = [sessions EXCEPT ![i].cwd = dir]
    /\ UNCHANGED <<dataDir, clock, writes>>

\* emit_line: the event waits in the channel, with the time it was made.
TypeLine(i) ==
    /\ sessions[i].recorder = "running"
    /\ Len(sessions[i].buffer) < MaxTyped /\ Len(writes) < MaxWrites[dataDir]
    /\ sessions' = [sessions EXCEPT ![i].buffer = Append(@, clock)]
    /\ UNCHANGED <<dataDir, clock, writes>>

\* Mutant: the events stay in the channel.
EndSessionKeepingBuffer(i) ==
    /\ sessions[i].recorder = "running"
    /\ sessions' = [sessions EXCEPT ![i].agent = "ended", ![i].recorder = "ended"]
    /\ LET s == sessions[i]
       IN  writes' = writes \o [k \in DOMAIN s.buffer |->
            Record("typed", i, Locate(SessionPath(s.id), s.start), s.id, s.start, s.buffer[k])]
    /\ UNCHANGED <<dataDir, clock>>

\* The agent ends, and run drains the channel to the log it has opened.
EndSession(i) ==
    /\ sessions[i].recorder = "running"
    /\ sessions' = [sessions EXCEPT ![i].agent = "ended", ![i].recorder = "ended",
                                    ![i].buffer = <<>>]
    /\ LET s == sessions[i]
       IN  writes' = writes \o [k \in DOMAIN s.buffer |->
            Record("typed", i, Locate(SessionPath(s.id), s.start), s.id, s.start, s.buffer[k])]
    /\ UNCHANGED <<dataDir, clock>>

\* The recorder is killed, with what it has buffered.  The agent may live on;
\* one that does not is the same to all others as one that does nothing.
KillRecorder(i) ==
    /\ sessions[i].recorder = "running"
    /\ sessions' = [sessions EXCEPT ![i].recorder = "killed", ![i].buffer = <<>>]
    /\ UNCHANGED <<dataDir, clock, writes>>

Next ==
    \/ Tick
    \/ \E i \in Agents : ToolCall(i) \/ \E program \in Programs : StartSession(i, program)
    \/ \E i \in Agents \ {0} :
        \/ TypeLine(i) \/ EndSession(i) \/ KillRecorder(i)
        \/ \E dir \in Dirs : ChangeDir(i, dir)

Spec == Init /\ [][Next]_vars

-----------------------------------------------------------------------------
(* What a reader sees.                                                      *)

Files == {writes[k].file : k \in DOMAIN writes}

\* The file system's time of last modification.
Modified(file) ==
    LET times == {writes[k].wrote : k \in {j \in DOMAIN writes : writes[j].file = file}}
    IN  CHOOSE t \in times : \A u \in times : u <= t

\* list_sessions, from the user's shell: the files in the data directory.
Listed == {f \in Files : f.dir = Locate(SessionPath(Hook), Home).dir}

\* Mutant: the oldest first.
OldestSession == {f \in Listed : \A g \in Listed : Modified(f) <= Modified(g)}

\* latest_session, which resolve_session takes without an argument: of files with
\* the same time it may be any.
LatestSession == {f \in Listed : \A g \in Listed : Modified(g) <= Modified(f)}

\* Order of texts that end in Z.
TextBefore(s, t) ==
    \E i \in 1 .. Len(s) :
        i <= Len(t) /\ s[i] < t[i] /\ \A j \in 1 .. i - 1 : s[j] = t[j]

\* Mutant: records are shown as they stand in the file.
ShownAsAppended(j, k) == j < k

\* log: a stable sort by the text of the time stamp.
ShownBefore(j, k) ==
    LET s == Timestamp(writes[j].at)
        t == Timestamp(writes[k].at)
    IN  TextBefore(s, t) \/ (s = t /\ j < k)

-----------------------------------------------------------------------------
(* Properties.                                                              *)

SessionType == [id : Seq(Nat), at : Instants, program : Programs,
                env : [log : [dir : DataDirs, name : Seq(Nat)], label : Seq(Nat)],
                start : Dirs, cwd : Dirs, agent : {"running", "ended"},
                recorder : {"running", "killed", "ended"}, buffer : Seq(Instants)]

\* What is on record has its origin, and a recorder that has ended holds nothing.
TypeOK ==
    /\ dataDir \in DataDirs /\ clock \in Instants
    /\ sessions \in Seq(SessionType) /\ Len(sessions) <= MaxSessions
    /\ \A i \in DOMAIN sessions : sessions[i].recorder # "running" => sessions[i].buffer = <<>>
    /\ \A k \in DOMAIN writes :
          /\ writes[k].from \in 0 .. Len(sessions)
          /\ writes[k].src = "typed" => writes[k].from # 0
          /\ writes[k].at \in Instants /\ writes[k].wrote \in Instants

\* The log of session i, as its recorder finds it.
LogOf(i) == Locate(SessionPath(sessions[i].id), sessions[i].start)

\* A tool call is recorded in the log of the innermost session its agent runs in,
\* under that session's name: not in the log of a session around it, and not in
\* one of its own when the recorder was killed.  Where the data directory is
\* relative, this takes an agent that has not changed its directory.
HookInInnermost == \A k \in DOMAIN writes :
    LET w == writes[k]
    IN  w.src = "hook" /\ w.from # 0
            /\ (dataDir = "absolute" \/ w.cwd = sessions[w.from].start)
        => w.file = LogOf(w.from) /\ w.label = sessions[w.from].id

\* Two sessions share a log only if they were started at the same instant and
\* their agents' names are the same but for unsafe characters and what is
\* trimmed; and no session has the log of an agent that runs without one.
SessionsApart ==
    /\ \A i, j \in DOMAIN sessions : LogOf(i) = LogOf(j) =>
          /\ sessions[i].at = sessions[j].at
          /\ Clean(<<Zed>> \o FileStem(sessions[i].program))
                = Clean(<<Zed>> \o FileStem(sessions[j].program))
    /\ \A i \in DOMAIN sessions, k \in DOMAIN writes :
          writes[k].from = 0 => writes[k].file # LogOf(i)

\* Without an argument, log, verify and view take the log that was written last,
\* hooks and drains of any session included, or one written in the same instant.
LatestIsLastWritten ==
    writes # <<>> =>
        LET last == writes[Len(writes)].file
        IN  last \in Listed => last \in LatestSession

\* log shows a later record before an earlier one only if the fraction of the
\* earlier second is the beginning of that of the later one: what was typed
\* stands before the tool calls that it caused, though it is appended after.
TimelineNearlyChronological == \A j, k \in DOMAIN writes :
    writes[j].file = writes[k].file /\ writes[j].at < writes[k].at =>
        \/ ShownBefore(j, k)
        \/ /\ writes[j].at \div 100 = writes[k].at \div 100
           /\ LET f == Fraction(writes[j].at)
                  g == Fraction(writes[k].at)
              IN  Len(f) < Len(g) /\ f = SubSeq(g, 1, Len(f))

=============================================================================
