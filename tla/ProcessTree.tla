----------------------------- MODULE ProcessTree -----------------------------
(***************************************************************************)
(* The processes of the machine, as the collectors of the kernel tier see  *)
(* them: who is the parent of whom, and what becomes of the children of a  *)
(* process that ends.  Root is snitchit, and the tree is everything that   *)
(* descends from it, whoever its parent is now.                            *)
(***************************************************************************)
EXTENDS Naturals, FiniteSets

CONSTANTS
    Root,           \* the process of snitchit
    InitPid,        \* process 1, which the others have as their last ancestor
    Free,           \* not a process: the parent of a process id not in use
    Pids,           \* the process ids of all other processes
    ReusePids       \* may the id of a process that has ended be given again?

ASSUME ProcessAssumption ==
    /\ Cardinality({Root, InitPid, Free}) = 3
    /\ {Root, InitPid, Free} \cap Pids = {}
    /\ ReusePids \in BOOLEAN

VARIABLES
    parent,         \* the parent of each process
    mine,           \* the processes of the tree
    theirs,         \* those of the trees of other snitchits
    used            \* the process ids that were given to a process

processVars == <<parent, mine, theirs, used>>

All == Pids \cup {Root, InitPid}

IsAlive(p) == parent[p] # Free

ProcessInit ==
    /\ parent = [p \in All |-> IF p \in Pids THEN Free ELSE InitPid]
    /\ mine = {Root}
    /\ theirs = {}
    /\ used = {}

\* p makes a child.
ForkProcess(p, c) ==
    /\ IsAlive(p)
    /\ ~IsAlive(c)
    /\ ReusePids \/ c \notin used
    /\ parent' = [parent EXCEPT ![c] = p]
    /\ mine' = IF p \in mine THEN mine \cup {c} ELSE mine
    /\ theirs' = IF p \in theirs THEN theirs \cup {c} ELSE theirs
    /\ used' = used \cup {c}

\* p ends, and its children are given to process 1.
ExitProcess(p) ==
    /\ p \in Pids /\ IsAlive(p)
    /\ parent' = [q \in All |->
                    IF q = p THEN Free ELSE IF parent[q] = p THEN InitPid ELSE parent[q]]
    /\ mine' = mine \ {p}
    /\ theirs' = theirs \ {p}
    /\ UNCHANGED used

\* p turns out to be a snitchit of another session.
StartSession(p) ==
    /\ p \in Pids /\ IsAlive(p) /\ p \notin mine
    /\ theirs' = theirs \cup {p}
    /\ UNCHANGED <<parent, mine, used>>

Whose(p) == IF p \in mine THEN "ours" ELSE IF p \in theirs THEN "theirs" ELSE "host"

ProcessTypeOK ==
    /\ parent \in [All -> All \cup {Free}]
    /\ mine \subseteq Pids \cup {Root} /\ theirs \subseteq Pids \ mine
    /\ used \subseteq Pids

=============================================================================
