------------------------------ MODULE MCCapture ------------------------------
(* The instance of Capture that TLC checks.                                  *)
EXTENDS Capture

\* key and jwt are secrets of known form, rnd of none; ip is an address.
Vocabulary ==
    Printable \cup {"key", "jwt", "rnd", "ip", "host", "long", "num", "null", "path", "[", "]"}

MatchesDef == [w \in Vocabulary |->
    CASE w = "key" -> {"api_key"}
      [] w = "jwt" -> {"jwt", "email"}
      [] w = "ip" -> {"ip_internal"}
      [] OTHER -> {}]
RandomDef == {"rnd", "key", "jwt"}
ShowsDef == [w \in Vocabulary |-> "sample"]
WidthDef == [w \in Vocabulary |->
    CASE w \in {"key", "jwt"} -> 2 [] w = "long" -> 3 [] OTHER -> 1]

Letter == [bytes |-> <<"a">>, shows |-> <<"a">>]
Accented == [bytes |-> <<"C3", "A9">>, shows |-> <<"eacute">>]
Secret == [bytes |-> <<"k1", "k2">>, shows |-> <<"k1", "k2">>]
Focus == [bytes |-> <<"ESC", "[", "I">>, shows |-> <<>>]
Bell == [bytes |-> <<"BEL">>, shows |-> <<>>]
Title == [bytes |-> <<"ESC", "]", "a", "BEL">>, shows |-> <<>>]
Space == [bytes |-> <<"SP">>, shows |-> <<"SP">>]
Newline == [bytes |-> <<"NL">>, shows |-> <<"NL">>]
Colour == [bytes |-> <<"ESC", "[", "m">>, shows |-> <<>>]

KeysDef == {Letter, Accented, Secret, Focus, Space, Enter, Backspace}
PrintsDef == {Accented, Secret, Colour, Bell, Title, Newline}

W(words) == [i \in DOMAIN words |-> Plain(words[i])]

Payload(tool, args, result) ==
    [wellFormed |-> TRUE, tool |-> tool, args |-> args, result |-> result]

CallsDef == {
    [id |-> "claude", code |-> 2, payload |-> Payload("Bash",
        Obj([command |-> Str(W(<<"jwt", "rnd", "path">>))]),
        Obj([stdout |-> Str(W(<<"key">>)), exit_code |-> Num(2)]))],
    [id |-> "Claude", code |-> Absent, payload |-> Payload("Write",
        Obj([file_path |-> Str(<<>>), content |-> Str(W(<<"long", "key", "rnd">>))]), Null)],
    [id |-> "claude", code |-> 0, payload |-> Payload("terminal-input",
        Obj([query |-> Str(W(<<"jwt", "jwt", "key">>))]), Obj([title |-> Str(W(<<"NL", "rnd">>))]))],
    [id |-> "opencode", code |-> 1, payload |-> Payload("read",
        Obj([file_path |-> Str(W(<<"path">>))]),
        Obj([title |-> Str(W(<<"ip">>)), exitCode |-> Num(1)]))],
    [id |-> "OpenCode", code |-> 300, payload |-> Payload("webfetch",
        Obj([query |-> Str(W(<<"host">>))]), Obj([output |-> Null, exit |-> Num(300)]))],
    [id |-> "vim", code |-> Absent, payload |-> Payload("Bash", Null, Null)],
    [id |-> "claude", code |-> Absent, payload |-> Payload("", Null, Null)],
    [id |-> "opencode", code |-> Absent,
     payload |-> [Payload("bash", Null, Null) EXCEPT !.wellFormed = FALSE]]}

Path(bytes) == [readable |-> TRUE, bytes |-> bytes]
Unreadable == [readable |-> FALSE, bytes |-> <<"a">>]

ExecsDef == {
    [path |-> Path(<<"a", "C3", "A9">>), args |-> <<Path(<<"k1", "k2">>), Unreadable>>],
    [path |-> Path(<<"a", "a", "C3", "A9">>), args |-> <<>>],
    [path |-> Path(<<"a", "a", "a", "a">>), args |-> <<Path(<<"C3">>), Path(<<"a">>), Path(<<"k1", "k2">>)>>],
    [path |-> Unreadable, args |-> <<Path(<<"a">>)>>]}

ConnectsDef == {
    [family |-> "inet", host |-> "ip", readable |-> TRUE],
    [family |-> "inet6", host |-> "host", readable |-> TRUE],
    [family |-> "inet", host |-> "host", readable |-> FALSE],
    [family |-> "unix", host |-> "path", readable |-> TRUE]}

CommandLinesDef == {W(<<"rnd", "key", "long">>)}
\* Many keys, much output, or a little of everything.
BudgetsDef == {
    [keys |-> 4, prints |-> 0, other |-> 0],
    [keys |-> 0, prints |-> 3, other |-> 0],
    [keys |-> 1, prints |-> 1, other |-> 1],
    [keys |-> 0, prints |-> 0, other |-> 2]}
WaitCodesDef == {0, 7, 300}

\* What theorems about Capture require beyond CaptureAssumption.
ASSUME InstanceAssumption ==
    /\ Program # "terminal-input"
    /\ \A item \in Prints : Whole(item)
    /\ \A key \in Keys : Legible(key)
    /\ \A call \in Calls : Recordable(call.id, call.payload) => TellsItsCode(call)
    /\ \A exec \in Execs : exec.path.readable => Unblanked(exec)

=============================================================================
