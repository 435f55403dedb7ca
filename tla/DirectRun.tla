------------------------------ MODULE DirectRun ------------------------------
(***************************************************************************)
(* What the user of `snitchit -- agent` is promised ("exits as claude      *)
(* would", "never blocks or alters the agent"): the same as from running   *)
(* the agent directly.  The agent is started once, runs, ends with a code  *)
(* of its own choice, and the command then returns that code.              *)
(***************************************************************************)
EXTENDS Naturals

CONSTANTS
    Codes,          \* the exit codes of the agent
    NoCode          \* not a code: there is none yet

VARIABLES
    agent,          \* "none", "running" or "exited"
    code,           \* the code the agent has exited with
    status          \* the code the command has returned

vars == <<agent, code, status>>

Init == agent = "none" /\ code = NoCode /\ status = NoCode

Start ==
    /\ agent = "none"
    /\ agent' = "running"
    /\ UNCHANGED <<code, status>>

Exit ==
    /\ agent = "running"
    /\ agent' = "exited"
    /\ code' \in Codes
    /\ UNCHANGED status

Return ==
    /\ agent = "exited"
    /\ status = NoCode
    /\ status' = code
    /\ UNCHANGED <<agent, code>>

Next == Start \/ Exit \/ Return

Spec == Init /\ [][Next]_vars /\ WF_vars(Start) /\ WF_vars(Return)

=============================================================================
