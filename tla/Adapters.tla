------------------------------ MODULE Adapters ------------------------------
(***************************************************************************)
(* How the payload of an agent's hook becomes a tool call (agents/src:     *)
(* lib.rs, claude/hook.rs, opencode/hook.rs).                              *)
(*                                                                         *)
(* A JSON value is tagged with its kind; an object is a function from the  *)
(* names of its members.  The text of a string is a sequence of words.     *)
(***************************************************************************)
EXTENDS Events

CONSTANTS
    InputMax,       \* characters an adapter keeps of an input: 400
    CodeMax         \* i32::MAX

ASSUME AdapterAssumption == InputMax \in Nat /\ CodeMax \in Nat

Null == [t |-> "null"]
Str(text) == [t |-> "string", v |-> text]
Num(n) == [t |-> "number", v |-> n]
Obj(members) == [t |-> "object", v |-> members]
Missing == [t |-> "missing"]

\* Strings are texts, numbers are integers, and so for the members of an object.
IsScalar(value) ==
    /\ value.t = "string" => value.v \in Seq(PlainWord)
    /\ value.t = "number" => value.v \in Int

IsValue(value) ==
    /\ IsScalar(value)
    /\ value.t = "object" => \A member \in DOMAIN value.v : IsScalar(value.v[member])

\* Value::get.
Get(value, member) ==
    IF value.t = "object" /\ member \in DOMAIN value.v THEN value.v[member] ELSE Missing

\* The order in which serde_json writes the members of an object.
Members == <<"command", "content", "exit", "exitCode", "exit_code", "filePath", "file_path",
             "output", "pattern", "query", "stderr", "stdout", "title", "url">>

\* serde_json::to_string, as far as it is text.
Scalar(value) ==
    CASE value.t = "string" -> value.v
      [] value.t = "number" -> <<Plain("num")>>
      [] OTHER -> <<Plain("null")>>

Dump(value) ==
    IF value.t # "object" THEN Scalar(value)
    ELSE FlattenSeq([i \in DOMAIN Members |->
            IF Members[i] \in DOMAIN value.v THEN Scalar(value.v[Members[i]]) ELSE <<>>])

OrElse(a, b) == IF a.t = "string" THEN a ELSE b

\* bounded_summary: the picked field, or if it is empty or no text, all there is.
BoundedSummary(picked, whole) ==
    Truncate(IF picked.t = "string" /\ picked.v # <<>> THEN picked.v ELSE Dump(whole), InputMax)

\* as_i64, i32::try_from, unwrap_or(0).
CodeOf(value) ==
    IF value.t = "number" /\ value.v \in -CodeMax - 1 .. CodeMax THEN value.v ELSE 0

ExitCodeOf(resp, field) == CodeOf(Get(resp, field))

-----------------------------------------------------------------------------
(* Claude Code.                                                             *)

ClaudeKind(tool) ==
    CASE tool \in {"Read", "Glob", "Grep", "NotebookRead", "LS"} -> "read"
      [] tool \in {"Write", "Edit", "MultiEdit", "NotebookEdit"} -> "write"
      [] tool \in {"WebFetch", "WebSearch"} -> "network"
      [] OTHER -> "tool_call"

ClaudeInput(tool, input) ==
    BoundedSummary(
        CASE tool = "Bash" -> Get(input, "command")
          [] tool \in {"Read", "Write", "Edit", "MultiEdit"} -> Get(input, "file_path")
          [] tool \in {"NotebookEdit", "NotebookRead"} -> Get(input, "notebook_path")
          [] tool \in {"WebFetch", "WebSearch"} -> OrElse(Get(input, "url"), Get(input, "query"))
          [] tool \in {"Grep", "Glob"} -> Get(input, "pattern")
          [] OTHER -> Missing,
        input)

TextOf(value) == IF value.t = "string" THEN value.v ELSE <<>>

ClaudeOutcome(resp) ==
    IF resp.t = "null" THEN NoOutcome
    ELSE [code |-> ExitCodeOf(resp, "exit_code"),
          text |-> IF Get(resp, "stdout") = Missing /\ Get(resp, "stderr") = Missing
                   THEN Dump(resp)
                   ELSE TextOf(Get(resp, "stdout")) \o TextOf(Get(resp, "stderr"))]

-----------------------------------------------------------------------------
(* OpenCode.                                                                *)

OpencodeKind(tool) ==
    CASE tool \in {"read", "glob", "grep", "list", "ls"} -> "read"
      [] tool \in {"write", "edit", "multiedit", "patch"} -> "write"
      [] tool \in {"webfetch", "websearch"} -> "network"
      [] OTHER -> "tool_call"

OpencodeInput(tool, args) ==
    BoundedSummary(
        CASE tool = "bash" -> Get(args, "command")
          [] tool \in {"read", "write", "edit", "multiedit", "patch"} ->
                OrElse(Get(args, "filePath"), Get(args, "file_path"))
          [] tool \in {"webfetch", "websearch"} -> OrElse(Get(args, "url"), Get(args, "query"))
          [] tool \in {"grep", "glob"} -> Get(args, "pattern")
          [] OTHER -> Missing,
        args)

\* A member "exit" that is no number hides the member "exitCode".
OpencodeOutcome(result) ==
    IF result.t = "null" THEN NoOutcome
    ELSE LET shown == OrElse(Get(result, "output"), Get(result, "title"))
             exit == IF Get(result, "exit") # Missing
                     THEN Get(result, "exit") ELSE Get(result, "exitCode")
         IN  [code |-> CodeOf(exit),
              text |-> IF shown.t = "string" THEN shown.v ELSE Dump(result)]

-----------------------------------------------------------------------------
\* by_id compares without regard to case.
ById(id) ==
    CASE id \in {"claude", "Claude"} -> "claude"
      [] id \in {"opencode", "OpenCode"} -> "opencode"
      [] OTHER -> "unknown"

\* hook::run: the payload is recorded when the agent is known, it parses, and
\* it names a tool.
Recordable(id, payload) ==
    ById(id) # "unknown" /\ payload.wellFormed /\ payload.tool # ""

\* AgentAdapter::parse and the event made of it.
HookRecord(id, payload) ==
    IF ById(id) = "claude"
    THEN AgentToolCall(payload.tool, ClaudeKind(payload.tool),
                       ClaudeInput(payload.tool, payload.args), ClaudeOutcome(payload.result))
    ELSE AgentToolCall(payload.tool, OpencodeKind(payload.tool),
                       OpencodeInput(payload.tool, payload.args), OpencodeOutcome(payload.result))

=============================================================================
