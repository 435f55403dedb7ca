------------------------------- MODULE Capture -------------------------------
(***************************************************************************)
(* From what happens in a session to the records of it: the two pumps of   *)
(* the PTY collector, the hooks' payloads, the kernel's events, and the    *)
(* event each of them is made into.                                        *)
(*                                                                         *)
(* What is typed and printed passes through the terminal as bytes, and a   *)
(* read returns as many of them as it likes.  The channel between these    *)
(* events and the log, and the end of a session, are those of Recorder.    *)
(***************************************************************************)
EXTENDS KernelEvents, Adapters

CONSTANTS
    Keys, Prints,       \* what can be typed and printed: [bytes, shows]
    Calls,              \* tool calls: [id, payload, code], with the tool's exit code
    Execs, Connects,    \* what the agent's tree can execute and connect to
    CommandLines,       \* how snitchit can be invoked
    Program,            \* the agent
    WaitCodes,          \* exit codes as portable_pty reports them
    Budgets             \* how much is typed, printed and observed: [keys, prints, other]

Bytes == DOMAIN Matches \cup {"C3", "A9"}

ASSUME CaptureAssumption ==
    /\ Printable \cup {"key", "num", "null"} \subseteq DOMAIN Matches
    /\ \A item \in Keys \cup Prints : item.bytes \in Seq(STRING) /\ item.shows \in Seq(STRING)
    /\ \A call \in Calls : IsValue(call.payload.args) /\ IsValue(call.payload.result)
    /\ \A exec \in Execs : /\ exec.path \in [readable : BOOLEAN, bytes : Seq(Bytes)]
                           /\ exec.args \in Seq([readable : BOOLEAN, bytes : Seq(Bytes)])
    /\ \A address \in Connects : address.host \in DOMAIN Matches
    /\ CommandLines \subseteq Seq(PlainWord) /\ WaitCodes \subseteq Nat

VARIABLES
    budget,         \* which of the budgets bounds this behaviour
    argv,           \* the command line of this session
    keys,           \* the keys typed
    tty,            \* bytes typed that stdin has not returned yet
    sent,           \* bytes written to the PTY
    line,           \* the line the stdin pump has begun
    stdin,          \* the stdin pump
    printed,        \* what the agent has printed
    pty,            \* bytes printed that the output pump has not read yet
    transcript,     \* bytes it has read
    agent,
    observed,       \* the calls, execs and connects
    records         \* the records: [of, event], of what and what it says

vars == <<budget, argv, keys, tty, sent, line, stdin, printed, pty, transcript, agent, observed, records>>

Enter == [bytes |-> <<"CR">>, shows |-> <<>>]
Backspace == [bytes |-> <<"BS">>, shows |-> <<>>]

Of(origin, events) == [i \in DOMAIN events |-> [of |-> origin, event |-> events[i]]]

Init ==
    /\ budget \in Budgets
    /\ argv \in CommandLines
    /\ keys = <<>> /\ tty = <<>> /\ sent = 0 /\ line = <<>> /\ stdin = "reading"
    /\ printed = <<>> /\ pty = <<>> /\ transcript = <<>>
    /\ agent = "running" /\ observed = <<>> /\ records = <<>>

-----------------------------------------------------------------------------
(* The terminal.                                                            *)

Press(key) ==
    /\ agent = "running" /\ Len(keys) < budget.keys
    /\ keys' = Append(keys, key)
    /\ tty' = tty \o key.bytes
    /\ UNCHANGED <<budget, argv, sent, line, stdin, printed, pty, transcript, agent, observed, records>>

\* emit_line for each line that is not blank.
LineRecords(lines) ==
    LET clean == [i \in DOMAIN lines |-> CleanLine(lines[i])]
        shown == Only(clean, Range(clean) \ {<<>>})
    IN  Of([src |-> "typed"], [i \in DOMAIN shown |-> CommandSubmitted(Text(shown[i]))])

\* pump_stdin: a chunk is written to the PTY, then taken apart.
ReadStdin(n) ==
    /\ agent = "running" /\ stdin = "reading" /\ n <= Len(tty)
    /\ LET st == FoldLeft(PumpByte, [open |-> line, done |-> <<>>], SubSeq(tty, 1, n))
       IN  line' = st.open /\ records' = records \o LineRecords(st.done)
    /\ tty' = SubSeq(tty, n + 1, Len(tty))
    /\ sent' = sent + n
    /\ UNCHANGED <<budget, argv, keys, stdin, printed, pty, transcript, agent, observed>>

\* End of input, or a chunk that the PTY refuses: what is left is emitted.
StdinEnds ==
    /\ agent = "running" /\ stdin = "reading"
    /\ stdin' = "done"
    /\ records' = records \o LineRecords(<<line>>)
    /\ UNCHANGED <<budget, argv, keys, tty, sent, line, printed, pty, transcript, agent, observed>>

Show(item) ==
    /\ agent = "running" /\ Len(printed) < budget.prints
    /\ printed' = Append(printed, item)
    /\ pty' = pty \o item.bytes
    /\ UNCHANGED <<budget, argv, keys, tty, sent, line, stdin, transcript, agent, observed, records>>

\* Mutant: each chunk is sanitized, and not the whole.
ReadPtySanitized(n) ==
    /\ agent = "running" /\ n <= Len(pty)
    /\ transcript' = transcript \o Sanitize(SubSeq(pty, 1, n))
    /\ pty' = SubSeq(pty, n + 1, Len(pty))
    /\ UNCHANGED <<budget, argv, keys, tty, sent, line, stdin, printed, agent, observed, records>>

\* pump_output.
ReadPty(n) ==
    /\ agent = "running" /\ n <= Len(pty)
    /\ transcript' = transcript \o SubSeq(pty, 1, n)
    /\ pty' = SubSeq(pty, n + 1, Len(pty))
    /\ UNCHANGED <<budget, argv, keys, tty, sent, line, stdin, printed, agent, observed, records>>

\* wait: the output pump has come to the end and is joined.  The status is
\* unsigned; one that does not fit an i32 is reported as 1.
AgentEnds(status) ==
    /\ agent = "running" /\ pty = <<>>
    /\ agent' = "ended"
    /\ LET code == IF status <= CodeMax THEN status ELSE 1
           run == ProcessRun(Program, argv, Text(Sanitize(transcript)), code)
       IN  records' = records \o Of([src |-> "run", status |-> status], <<run>>)
    /\ UNCHANGED <<budget, argv, keys, tty, sent, line, stdin, printed, pty, transcript, observed>>

-----------------------------------------------------------------------------
(* Hooks and the kernel.                                                    *)

Observe(origin, events) ==
    /\ agent = "running" /\ Len(observed) < budget.other
    /\ observed' = Append(observed, origin)
    /\ records' = records \o Of(origin, events)
    /\ UNCHANGED <<budget, argv, keys, tty, sent, line, stdin, printed, pty, transcript, agent>>

\* hook::run.
ToolCall(call) ==
    Observe([src |-> "hook", what |-> call],
            IF Recordable(call.id, call.payload)
            THEN <<HookRecord(call.id, call.payload)>> ELSE <<>>)

Exec(exec) == Observe([src |-> "exec", what |-> exec], ExecRecords(exec))

Connect(address) ==
    Observe([src |-> "connect", what |-> address], ConnectRecords(address))

-----------------------------------------------------------------------------
Terminated == agent = "ended" /\ UNCHANGED vars

Next ==
    \/ \E key \in Keys : Press(key)
    \/ \E n \in 1 .. Len(tty) : ReadStdin(n)
    \/ StdinEnds
    \/ \E item \in Prints : Show(item)
    \/ \E n \in 1 .. Len(pty) : ReadPty(n)
    \/ \E status \in WaitCodes : AgentEnds(status)
    \/ \E call \in Calls : ToolCall(call)
    \/ \E exec \in Execs : Exec(exec)
    \/ \E address \in Connects : Connect(address)
    \/ Terminated

Spec == Init /\ [][Next]_vars

-----------------------------------------------------------------------------
(* Properties.                                                              *)

Records(src) == Only(records, {r \in Range(records) : r.of.src = src})

Shown(items) == FlattenSeq([i \in DOMAIN items |-> items[i].shows])

\* What is typed or printed begins with a character of its own, leaves no escape sequence
\* open, and shows what is left of it alone.
Whole(item) ==
    /\ item.bytes # <<>> => Head(item.bytes) # "A9"
    /\ FoldLeft(Scan, [mode |-> "text", out |-> <<>>], Utf8Lossy(item.bytes))
          = [mode |-> "text", out |-> item.shows]

\* A key that is not of the line editor has none of its bytes, and shows itself if
\* it shows as many characters as it has bytes.
Legible(key) == key \in {Enter, Backspace} \/
    /\ Whole(key) /\ key.bytes # <<>>
    /\ Range(key.bytes) \cap {"CR", "NL", "BS"} = {}
    /\ Len(key.bytes) = Len(key.shows) =>
          key.bytes = key.shows /\ Range(key.shows) \subseteq Final \cup Blank

\* No Backspace hits a character of several bytes or an escape sequence.
Exact(typed) ==
    LET hit(st, key) ==
            CASE key = Enter -> [st EXCEPT !.plain = <<>>]
              [] key = Backspace /\ st.plain = <<>> -> st
              [] key = Backspace /\ st.plain # <<>> ->
                    [plain |-> Front(st.plain), ok |-> st.ok /\ Last(st.plain)]
              [] OTHER -> [st EXCEPT !.plain = @ \o
                    [i \in 1 .. Max({1, Len(key.shows)}) |-> Len(key.bytes) = Len(key.shows)]]
    IN  FoldLeft(hit, [plain |-> <<>>, ok |-> TRUE], typed).ok

\* The lines one sees on the screen while typing, the last one open.
Edited(typed) ==
    LET edit(st, key) ==
            CASE key = Enter -> [done |-> Append(st.done, st.open), open |-> <<>>]
              [] key = Backspace -> [st EXCEPT !.open = Pop(@)]
              [] OTHER -> [st EXCEPT !.open = @ \o key.shows]
    IN  FoldLeft(edit, [done |-> <<>>, open |-> <<>>], typed)

\* The lines on record are those the agent was sent, as one edited them on the
\* screen, whatever bytes a read returned and wherever the PTY refused them:
\* bytes are edited, then taken for text, and then cleaned.
LinesAsTyped == \A n \in 0 .. Len(keys) :
    LET typed == SubSeq(keys, 1, n)
        st == Edited(typed)
        lines == IF stdin = "done" THEN Append(st.done, st.open) ELSE st.done
        trimmed == [i \in DOMAIN lines |-> Trim(lines[i])]
        visible == Only(trimmed, Range(trimmed) \ {<<>>})
        recorded == Records("typed")
    IN  Len(FlattenSeq([i \in DOMAIN typed |-> typed[i].bytes])) = sent /\ Exact(typed) =>
            [i \in DOMAIN recorded |-> recorded[i].event.inputHash]
                = [i \in DOMAIN visible |-> Text(visible[i])]

\* The transcript that the process record commits to is what the agent printed
\* for the eye, however the output came in chunks.
TranscriptAsPrinted == \A i \in DOMAIN records :
    records[i].of.src = "run" => records[i].event.outputHash = Text(Shown(printed))

\* A pattern matches the word, or the catch-all where it is in use.
IsSecret(event, w) ==
    /\ w.mask \in {"none", "cut"}
    /\ \/ Matches[w.word] # {}
       \/ event.source = "pty" /\ w.word \in Random

\* No summary shows a secret or a part of it, but for what an adapter has cut
\* before the event is built: escape sequences are gone before redaction, and
\* redaction comes before the summary is cut.
NothingSecretStored == \A i \in DOMAIN records :
    LET e == records[i].event
    IN  \A w \in Range(e.summary) :
            IsSecret(e, w) => w.mask = "cut" /\ w \in Range(e.inputHash)

\* A secret in what a record commits to is among its findings, input or output,
\* shown in the summary or cut off, and the severity is not below it.
EverySecretReported == \A i \in DOMAIN records :
    LET e == records[i].event
        words == Range(e.inputHash) \cup (IF e.outputHash = Absent THEN {} ELSE Range(e.outputHash))
        reported(kind) == \E f \in Range(e.findings) :
            f.kind = kind /\ SeverityRank[e.severity] >= SeverityRank[f.severity]
    IN  /\ \A w \in {v \in words : v.mask = "none"} : \A kind \in Matches[w.word] : reported(kind)
        /\ e.source = "pty" /\ (\E w \in Range(e.inputHash) :
                w.mask = "none" /\ w.word \in Random /\ Matches[w.word] = {})
           => reported(HighEntropy.name)

\* Where the exit code of a tool is known, its agent's payload tells it, in the
\* field that the adapter reads; one that tells none means 0.
TellsItsCode(call) == call.code = Absent \/
    LET result == call.payload.result
        told == IF ById(call.id) = "claude" THEN Get(result, "exit_code")
                ELSE IF Get(result, "exit") # Missing THEN Get(result, "exit")
                ELSE Get(result, "exitCode")
    IN  /\ call.code \in Nat /\ result.t # "null"
        /\ told = Num(call.code) \/ (told = Missing /\ call.code = 0)

\* What log shows: input is called input, the run of the agent a process, and a
\* call by what it was; a run or a call that failed is shown as an error, and
\* no other, if its code fits an i32.
ShownAsHappened == \A i \in DOMAIN records :
    LET of == records[i].of
        e == records[i].event
    IN  CASE of.src = "typed" -> Display(e).kind = "terminal-input"
          [] of.src = "run" ->
                Display(e).kind = "process" /\ (e.status = "error" <=> of.status # 0)
          [] of.src = "hook" ->
                /\ Display(e).kind = e.kind /\ Display(e).input = "in"
                /\ of.what.code = Absent \/ of.what.code > CodeMax
                        \/ (e.status = "error" <=> of.what.code # 0)
          [] OTHER -> Display(e).kind = e.kind

\* The path has no blank at an end, which would be trimmed away.
Unblanked(exec) ==
    LET program == Utf8Lossy(exec.path.bytes) IN Trim(program) = program

\* The string fits its slot and is text.
Fits(string) ==
    /\ string.readable /\ Len(string.bytes) < Slot
    /\ CleanLine(string.bytes) # <<>> /\ ValidUtf8(string.bytes)

\* A program whose path fits is recorded under its whole path, and so is every
\* connection to an internet address that can be read; a longer path is recorded
\* by its front or, when the cut leaves no text, not at all.
KernelComplete == \A i \in DOMAIN observed :
    LET x == observed[i]
        made == {j \in DOMAIN records : records[j].of = x}
    IN  CASE x.src = "exec" ->
                /\ Fits(x.what.path) => made # {} /\
                        \A j \in made : records[j].event.tool = Utf8Lossy(x.what.path.bytes)
                /\ \A j \in made : IsPrefix(records[j].event.tool, Utf8Lossy(x.what.path.bytes))
          [] x.src = "connect" ->
                made # {} <=> x.what.family \in {"inet", "inet6"} /\ x.what.readable
          [] OTHER -> TRUE

=============================================================================
