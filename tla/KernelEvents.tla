---------------------------- MODULE KernelEvents ----------------------------
(***************************************************************************)
(* What passes through the ring buffer: the layout the eBPF programs write *)
(* (collectors/ebpf/src/main.rs) and the records the reader makes of it    *)
(* (collectors/src/sources/kernel/mod.rs).                                 *)
(***************************************************************************)
EXTENDS Events, Terminal

CONSTANT Slot       \* bytes of one slot of an exec event: 58

ASSUME SlotAssumption == Slot \in Nat \ {0}

Text(chars) == LET words == Words(chars) IN [i \in DOMAIN words |-> Plain(words[i])]

\* Mutant: room is left for two zeros.
CopyShort(string) ==
    IF string.readable THEN SubSeq(string.bytes, 1, Min({Len(string.bytes), Slot - 2})) ELSE <<>>

\* bpf_probe_read_user_str_bytes into a slot of zeros: as much as fits before a
\* zero, or nothing if the memory cannot be read.
Copy(string) ==
    IF string.readable THEN SubSeq(string.bytes, 1, Min({Len(string.bytes), Slot - 1})) ELSE <<>>

\* cstr: a slot that is not UTF-8 is empty.
CStr(slot) == IF ValidUtf8(slot) THEN Trim(Utf8Lossy(slot)) ELSE <<>>

\* parse: the arguments of the command line that are there, after the program.
CommandLine(program, args) ==
    FoldLeft(LAMBDA line, arg : IF arg = <<>> THEN line ELSE line \o <<"SP">> \o arg, program, args)

\* try_exec and parse: argv[1] and argv[2] at most, and no record without a program.
ExecRecords(exec) ==
    LET program == CStr(Copy(exec.path))
        args == [i \in 1 .. Min({2, Len(exec.args)}) |-> CStr(Copy(exec.args[i]))]
    IN  IF program = <<>> THEN <<>>
        ELSE <<KernelExec(program, Text(CommandLine(program, args)))>>

\* try_connect, which reads 28 bytes whatever the family, parse and
\* format_sockaddr: internet addresses only.
ConnectRecords(address) ==
    IF address.readable /\ address.family \in {"inet", "inet6"}
    THEN <<KernelConnect(<<Plain(address.host)>>)>> ELSE <<>>

=============================================================================
