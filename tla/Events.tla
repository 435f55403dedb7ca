------------------------------- MODULE Events -------------------------------
(***************************************************************************)
(* How a record is built from what a collector observed (core/src/event.rs)*)
(* and how `log` labels it (cli/src/commands/log.rs).                      *)
(*                                                                         *)
(* The hash of a payload stands for what it commits to, the payload; it is *)
(* kept apart from what a record shows.  Record ids, time stamps and the   *)
(* seal are the matter of other modules.                                   *)
(***************************************************************************)
EXTENDS Redact

CONSTANTS
    Width,          \* word |-> its length, in units of SummaryMax
    SummaryMax,     \* characters of an input summary: 200
    Absent          \* no exit code, no outcome

ASSUME TextAssumption ==
    /\ MaxPerType \in Nat \ {0} /\ SummaryMax \in Nat
    /\ \A w \in DOMAIN Matches : Matches[w] \subseteq {Patterns[i].name : i \in DOMAIN Patterns}
    /\ Width \in [DOMAIN Matches -> Nat] /\ Absent \notin Int

\* The words of a text as it is observed.
PlainWord == [mask : {"none"}, word : DOMAIN Matches]

\* What is left of a word that was cut short: no pattern matches it.
Cut(w) == [mask |-> "cut", word |-> w.word]

\* A sample counts as one unit, and so does what is left of a word.
WidthOf(w) == IF w.mask = "none" THEN Width[w.word] ELSE 1

\* The sum of the widths of the first n words.
WidthTo(text, n) == FoldLeft(LAMBDA sum, w : sum + WidthOf(w), 0, SubSeq(text, 1, n))

\* truncate, chars().take(max): the first max characters, whatever they cut.
Truncate(text, max) ==
    LET whole == Max({n \in 0 .. Len(text) : WidthTo(text, n) <= max})
    IN  IF whole < Len(text) /\ WidthTo(text, whole) < max
        THEN Append(SubSeq(text, 1, whole), Cut(text[whole + 1]))
        ELSE SubSeq(text, 1, whole)

\* Mutant: the summary is cut first, and then redacted.
SummaryCutFirst(input, fuzzy) == RedactInner(Truncate(input, SummaryMax), fuzzy)

Summary(input, fuzzy) == Truncate(RedactInner(input, fuzzy), SummaryMax)

NoOutcome == [text |-> Absent, code |-> Absent]

\* Mutant: the output is not scanned.
AllFindingsOfInput(input, fuzzy, outcome) == ScanInner(input, fuzzy)

\* The findings of a record: those of its input, then those of its output,
\* which is free-form.
AllFindings(input, fuzzy, outcome) ==
    ScanInner(input, fuzzy) \o
    IF outcome = NoOutcome THEN <<>> ELSE ScanInner(outcome.text, FALSE)

Lines(text) == Cardinality({i \in DOMAIN text : text[i] = Plain("NL")})

Status(code) == IF code = 0 THEN "ok" ELSE "error"

\* build.  Of the output only its size and the exit code are shown.
Build(source, kind, tool, input, fuzzy, outcome) ==
    LET findings == AllFindings(input, fuzzy, outcome)
    IN  [source |-> source, kind |-> kind, tool |-> tool,
         summary |-> Summary(input, fuzzy), inputHash |-> input,
         status |-> IF outcome = NoOutcome THEN Absent ELSE Status(outcome.code),
         lines |-> IF outcome = NoOutcome THEN 0 ELSE Lines(outcome.text),
         outputHash |-> outcome.text,
         findings |-> findings, severity |-> TopSeverity(findings)]

ProcessRun(program, argv, transcript, code) ==
    Build("pty", "tool_call", program, argv, TRUE, [text |-> transcript, code |-> code])

CommandSubmitted(line) ==
    Build("pty", "tool_call", "terminal-input", line, TRUE, NoOutcome)

AgentToolCall(tool, kind, input, outcome) ==
    Build("hook", kind, tool, input, FALSE, outcome)

KernelExec(program, argv) ==
    Build("ebpf", "tool_call", program, argv, FALSE, NoOutcome)

KernelConnect(destination) ==
    Build("ebpf", "network", "connect", destination, FALSE, NoOutcome)

-----------------------------------------------------------------------------
(* log.                                                                     *)

IsPtySourced(e) == e.source = "pty"
IsTerminalInput(e) == e.tool = "terminal-input"

\* Mutant: a terminal input is known by its tool alone.
DisplayByTool(e) ==
    IF IsTerminalInput(e) THEN [kind |-> "terminal-input", input |-> "typed", outcome |-> "transcript"]
    ELSE IF IsPtySourced(e)
    THEN [kind |-> "process", input |-> "invoked", outcome |-> "transcript"]
    ELSE [kind |-> e.kind, input |-> "in", outcome |-> "out"]

\* display_kind, input_label, outcome_label.
Display(e) ==
    IF ~IsPtySourced(e) THEN [kind |-> e.kind, input |-> "in", outcome |-> "out"]
    ELSE IF IsTerminalInput(e)
    THEN [kind |-> "terminal-input", input |-> "typed", outcome |-> "transcript"]
    ELSE [kind |-> "process", input |-> "invoked", outcome |-> "transcript"]

=============================================================================
