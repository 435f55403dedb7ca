------------------------------ MODULE MCSessions ------------------------------
(* The instance of Sessions that TLC checks.                                 *)
EXTENDS Sessions

\* The names a.b and "a ", which are the same when cleaned.
ProgramsDef == {<<97, 46, 98>>, <<97, 32>>}
AgentSessionDef == <<120>>
BothDirs == {"absolute", "relative"}
DirsDef == {"home", "work"}
\* 1.1 s, 1.15 s and 2 s.
InstantsDef == {110, 115, 200}
\* With a relative directory the states are many more: any agent may move.
WritesDef == [absolute |-> 2, relative |-> 1]
=============================================================================
