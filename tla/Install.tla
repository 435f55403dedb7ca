------------------------------- MODULE Install -------------------------------
(***************************************************************************)
(* snitchit install and uninstall (install/mod.rs and the install modules  *)
(* of the two agents): one command goes through its destinations, the rc   *)
(* file, Claude's settings and OpenCode's plugin, changes each or fails to,*)
(* and may be killed on the way, while the user edits the same files.      *)
(*                                                                         *)
(* Reading and writing one file is one step.  A write truncates the file   *)
(* first; one that is cut short leaves a part of what was to be written.   *)
(***************************************************************************)
EXTENDS RcBlock, FiniteSets

CONSTANTS
    Sides,          \* where the user adds lines to the rc file: "top", "end"
    Exes,           \* the paths that snitchit is installed at in turn
    Users,          \* commands of the user's in Claude's settings
    NamesSnitchit,  \* the commands that contain "snitchit"
    EndsInHook,     \* the commands that end in "hook", blanks aside
    MaxEdits,       \* bound: edits by the user
    MaxTears        \* bound: writes that are cut short

ASSUME InstallAssumption ==
    /\ Sides \subseteq {"top", "end"}
    /\ Exes \subseteq NamesSnitchit \cap EndsInHook
    /\ Exes \cap (Users \cup {"absent", "unrecognized", "cut"}) = {}
    /\ MaxEdits \in Nat /\ MaxTears \in Nat

VARIABLES
    rc,             \* the shell's rc file
    settings,       \* settings.json: its form, and the groups of PostToolUse
    plugin,         \* the file snitchit.js
    exe,            \* where snitchit is installed
    command,        \* the command that runs, or none
    report,         \* of the last command, until something else happens
    edits, tears

vars == <<rc, settings, plugin, exe, command, report, edits, tears>>
files == <<rc, settings, plugin>>

None == [op |-> "none"]

\* absent: no file, or an empty one; broken: not JSON; other: JSON, but not an
\* object; odd: "hooks" is not an object; table: anything else.
Forms == {"absent", "broken", "other", "odd", "table"}

NoGroups(form) == [form |-> form, groups |-> <<>>]

Init ==
    /\ rc \in {<<>>} \cup UNION {{<<t>>, <<t, Nl>>} : t \in Texts}
    /\ settings \in {NoGroups(form) : form \in Forms}
    /\ plugin \in {"absent", "unrecognized"}
    /\ exe \in Exes
    /\ command = None /\ report = None
    /\ edits = 0 /\ tears = 0

-----------------------------------------------------------------------------
(* Claude's settings.  A matcher group is the set of its commands; that of  *)
(* snitchit at the path x is x.                                             *)

\* Mutant: every command that speaks of snitchit.
RecognizedByName == NamesSnitchit

\* What is_snitchit_group looks for in a command.  The user's may have it, too.
Recognized == NamesSnitchit \cap EndsInHook

IsSnitchitGroup(g) == g \cap Recognized # {}
OthersGroups(s) == Only(s.groups, {g \in ToSet(s.groups) : ~IsSnitchitGroup(g)})

\* with_hook and set_post_tool_use; into a "hooks" that is no object nothing goes.
WithHook(s) ==
    IF s.form = "odd" THEN s
    ELSE [form |-> "table", groups |-> Append(OthersGroups(s), {exe})]

\* without_hook
WithoutHook(s) == [s EXCEPT !.groups = OthersGroups(s)]

-----------------------------------------------------------------------------
(* The command.                                                             *)

\* install and uninstall begin: the destinations in their order.  The path of
\* the executable is resolved before the agents, and --kernel adds setcap.
Begin(op, dry, kernel) ==
    /\ command = None
    /\ command' = [op |-> op, dry |-> dry, results |-> <<>>,
                   todo |-> <<"shell">>
                            \o (IF op = "install" THEN <<"resolve">> ELSE <<>>)
                            \o <<"claude", "opencode">>
                            \o (IF kernel THEN <<"kernel">> ELSE <<>>)]
    /\ report' = None
    /\ UNCHANGED <<files, exe, edits, tears>>

At(d) == command # None /\ command.todo # <<>> /\ Head(command.todo) = d

Result(d, ok) == Append(command.results, [dest |-> d, ok |-> ok])

Proceed(d, ok) ==
    /\ command' = [command EXCEPT !.todo = Tail(@), !.results = Result(d, ok)]
    /\ UNCHANGED <<exe, report, edits>>

\* A write is cut short: it fails with an error, or snitchit is killed in it.
Tear(d) ==
    /\ ~command.dry /\ tears < MaxTears
    /\ tears' = tears + 1
    /\ Proceed(d, FALSE) \/ (command' = None /\ UNCHANGED <<exe, report, edits>>)

\* The file as it is to be; if these are the bytes it has, nothing is written.
NextRc ==
    LET next == IF command.op = "install" THEN WithBlock(rc) ELSE RemoveBlock(rc)
    IN  IF SameBytes(next, rc) THEN rc ELSE next

\* install_shim and uninstall_shim
Shell ==
    /\ At("shell")
    /\ rc' = IF command.dry THEN rc ELSE NextRc
    /\ Proceed("shell", TRUE)
    /\ UNCHANGED <<settings, plugin, tears>>

ShellTorn ==
    /\ At("shell") /\ NextRc # rc
    /\ \E n \in 0 .. Len(NextRc) - 1 : rc' = SubSeq(NextRc, 1, n)
    /\ Tear("shell")
    /\ UNCHANGED <<settings, plugin>>

NextSettings == IF command.op = "install" THEN WithHook(settings) ELSE WithoutHook(settings)

Claude ==
    /\ At("claude") /\ settings.form # "broken"
    /\ settings' = IF command.dry THEN settings ELSE NextSettings
    /\ Proceed("claude", TRUE)
    /\ UNCHANGED <<rc, plugin, tears>>

ClaudeTorn ==
    /\ At("claude") /\ settings.form # "broken" /\ NextSettings # settings
    /\ settings' \in {NoGroups("absent"), NoGroups("broken")}
    /\ Tear("claude")
    /\ UNCHANGED <<rc, plugin>>

\* The plugin is written whatever was there, and removed if it is recognized.
\* "cut": its end is missing, but not the comment that it is recognized by.
Ours == plugin \in Exes \cup {"cut"}

OpenCode ==
    /\ At("opencode")
    /\ plugin' = IF command.dry THEN plugin
                 ELSE IF command.op = "install" THEN exe
                 ELSE IF Ours THEN "absent" ELSE plugin
    /\ Proceed("opencode", TRUE)
    /\ UNCHANGED <<rc, settings, tears>>

OpenCodeTorn ==
    /\ At("opencode") /\ command.op = "install" /\ plugin # exe
    /\ plugin' \in {"cut", "unrecognized"}
    /\ Tear("opencode")
    /\ UNCHANGED <<rc, settings>>

\* kernel_caps: setcap changes the executable, and none of these files.
Kernel ==
    /\ At("kernel")
    /\ Proceed("kernel", TRUE)
    /\ UNCHANGED <<files, tears>>

\* A file cannot be located, read or opened for writing, or setcap fails.
Fails(d) ==
    /\ At(d)
    /\ d = "kernel" => ~command.dry
    /\ Proceed(d, FALSE)
    /\ UNCHANGED <<files, tears>>

\* snitchit_exe
Resolve ==
    /\ At("resolve")
    /\ command' = [command EXCEPT !.todo = Tail(@)]
    /\ UNCHANGED <<files, exe, report, edits, tears>>

\* Mutant: the agents are left out, and the path is asked for once more.
ResolveFailsAgain ==
    /\ At("resolve")
    /\ command' = [command EXCEPT !.todo = <<"resolve">>, !.results = Result("hooks", FALSE)]
    /\ UNCHANGED <<files, exe, report, edits, tears>>

\* snitchit_exe fails: no agent is wired.
ResolveFails ==
    /\ At("resolve")
    /\ command' = [command EXCEPT !.todo = Only(Tail(@), {"kernel"}),
                                  !.results = Result("hooks", FALSE)]
    /\ UNCHANGED <<files, exe, report, edits, tears>>

\* report_results and first_error_if_all_failed
Finish ==
    /\ command # None /\ command.todo = <<>>
    /\ report' = [op |-> command.op, dry |-> command.dry, results |-> ToSet(command.results),
                  failed |-> \A i \in DOMAIN command.results : ~command.results[i].ok]
    /\ command' = None
    /\ UNCHANGED <<files, exe, edits, tears>>

-----------------------------------------------------------------------------
(* The user, and the system.                                                *)

Edit ==
    /\ edits < MaxEdits
    /\ edits' = edits + 1
    /\ report' = None
    /\ UNCHANGED <<plugin, exe, command, tears>>

AddLine(t, side) ==
    /\ Edit
    /\ rc' = IF side = "top" THEN <<t, Nl>> \o rc ELSE rc \o <<t, Nl>>
    /\ UNCHANGED settings

AddGroup(u) ==
    /\ Edit
    /\ settings.form \in {"absent", "table"}
    /\ settings' = [form |-> "table", groups |-> Append(settings.groups, {u})]
    /\ UNCHANGED rc

\* A command beside others in their group, that of snitchit among them.
JoinGroup(i, u) ==
    /\ Edit
    /\ settings' = [settings EXCEPT !.groups[i] = @ \cup {u}]
    /\ UNCHANGED rc

\* snitchit is installed elsewhere.
Move ==
    /\ command = None
    /\ exe' \in Exes \ {exe}
    /\ report' = None
    /\ UNCHANGED <<files, command, edits, tears>>

Kill ==
    /\ command # None
    /\ command' = None
    /\ UNCHANGED <<files, exe, report, edits, tears>>

Next ==
    \/ \E op \in {"install", "uninstall"}, dry, kernel \in BOOLEAN : Begin(op, dry, kernel)
    \/ Shell \/ ShellTorn \/ Claude \/ ClaudeTorn \/ OpenCode \/ OpenCodeTorn \/ Kernel
    \/ \E d \in {"shell", "claude", "opencode", "kernel"} : Fails(d)
    \/ Resolve \/ ResolveFails \/ Finish \/ Kill
    \/ \E t \in Texts, side \in Sides : AddLine(t, side)
    \/ \E u \in Users : AddGroup(u) \/ \E i \in DOMAIN settings.groups : JoinGroup(i, u)
    \/ Move

Spec == Init /\ [][Next]_vars

-----------------------------------------------------------------------------
Dests == {"shell", "hooks", "claude", "opencode", "kernel"}

\* The files and the command have their types; a command reports on no
\* destination twice.
TypeOK ==
    /\ rc \in Files
    /\ settings.form \in Forms /\ (settings.form # "table" => settings.groups = <<>>)
    /\ \A i \in DOMAIN settings.groups : settings.groups[i] \subseteq Exes \cup Users
    /\ plugin \in Exes \cup {"absent", "unrecognized", "cut"}
    /\ command # None =>
          /\ Len(command.results) + Len(command.todo) <= 5
          /\ \A i, j \in DOMAIN command.results : command.results[i].dest \in Dests
                /\ (command.results[i].dest = command.results[j].dest => i = j)

\* "leaving everything else byte-for-byte unchanged": no step of install or of
\* uninstall loses, adds or moves a text or a newline of the user's, unless its
\* write is cut short, or the file has a start mark without its end mark, which
\* such a write left.
LeavesUserText ==
    [][edits' = edits /\ tears' = tears /\ WellFormed(rc) => UserText(rc') = UserText(rc)]_vars

\* The commands of the user's that are not like one of snitchit's.
Unlike == {u \in Users : u \notin NamesSnitchit \/ u \notin EndsInHook}

OnlyUsers(groups) == Only(groups, SUBSET Unlike)

\* Groups of the user's stay, in their order, if none of their commands both
\* contains "snitchit" and ends in "hook", though one of these may be so; and
\* uninstall does not touch a plugin file that it does not recognize.
LeavesUserHooks ==
    [][edits' = edits /\ tears' = tears =>
         /\ OnlyUsers(settings'.groups) = OnlyUsers(settings.groups)
         /\ command # None /\ command.op = "uninstall" /\ ~Ours => plugin' = plugin]_vars

\* The groups that do call snitchit.
SnitchitGroups == {i \in DOMAIN settings.groups : settings.groups[i] \cap Exes # {}}

Wired == [shell    |-> /\ \E i \in 1 .. Len(rc) - 3 : SubSeq(rc, i, i + 3) = Block
                       /\ tears = 0 => Cardinality(Places(rc, StartMark)) = 1,
          claude   |-> /\ Cardinality(SnitchitGroups) = 1
                       /\ \A i \in SnitchitGroups : settings.groups[i] \cap Exes = {exe},
          opencode |-> plugin = exe]

Reported(op, d) == report # None /\ report.op = op /\ ~report.dry /\ [dest |-> d, ok |-> TRUE] \in report.results

\* A destination that install reports as wired is, once and for the present path
\* of snitchit, however often it was installed, moved, torn or uninstalled before;
\* the exception is a "hooks" in the settings that is no object.  A command that
\* succeeds has wired a destination, whatever failed and in whatever order.
InstallDelivers ==
    /\ Reported("install", "shell") => Wired.shell
    /\ Reported("install", "claude") => Wired.claude \/ settings.form = "odd"
    /\ Reported("install", "opencode") => Wired.opencode
    /\ report # None /\ ~report.failed => \E d \in Dests : Reported(report.op, d) \/ report.dry

\* "uninstall removes exactly what install added": a destination that uninstall
\* reports as done has nothing left of snitchit's, but for what a write that was
\* cut short has left there.
UninstallDelivers ==
    /\ Reported("uninstall", "shell") =>
          /\ WellFormed(rc) => Places(rc, StartMark) = {} /\ Places(rc, "functions") = {}
          /\ tears = 0 => UserText(rc) = rc
    /\ Reported("uninstall", "claude") => SnitchitGroups = {}
    /\ Reported("uninstall", "opencode") => ~Ours

=============================================================================
