----------------------------- MODULE ConnectPoll -----------------------------
(***************************************************************************)
(* macos_connect/mod.rs: the connections of the agent's tree, found by     *)
(* reading the socket table again and again.  One read gives the sockets   *)
(* and the processes that hold them; then the parents of each holder are   *)
(* followed, one system call at a time, while processes come and go.       *)
(***************************************************************************)
EXTENDS ProcessTree, Sequences

CONSTANTS
    Tuples,         \* the 4-tuples of connected TCP sockets
    MaxDepth,       \* MAX_TREE_DEPTH
    NoWalk          \* no parents are being followed

ASSUME PollAssumption == MaxDepth \in Nat \ {0}

VARIABLES
    sockets,        \* the processes that hold each connection open
    late,           \* connections opened after the poller was told to stop
    poll,           \* where the poller is
    told,           \* it was told to stop
    todo,           \* the sockets of this scan still to be looked at
    cache,          \* membership: what this scan has found out about processes
    walk,           \* the process whose parents are followed, and how far
    seen,           \* the keys of the connections recorded
    emitted         \* the events recorded, in order

socketVars == <<sockets, late>>
scanVars   == <<poll, told, todo, cache, walk, seen, emitted>>

Unknown == [p \in All |-> "unknown"]

PollInit ==
    /\ sockets = [t \in Tuples |-> {}]
    /\ late = {}
    /\ told = FALSE /\ todo = {} /\ cache = Unknown /\ walk = NoWalk
    /\ seen = {} /\ emitted = <<>>

-----------------------------------------------------------------------------
(* The sockets.                                                             *)

OpenSocket(p, t) ==
    /\ p \in Pids /\ IsAlive(p) /\ sockets[t] = {}
    /\ sockets' = [sockets EXCEPT ![t] = {p}]
    /\ late' = IF told THEN late \cup {t} ELSE late \ {t}
    /\ UNCHANGED scanVars

CloseSocket(p, t) ==
    /\ p \in sockets[t]
    /\ sockets' = [sockets EXCEPT ![t] = @ \ {p}]
    /\ UNCHANGED <<late, scanVars>>

\* A child has the sockets of its parent.
InheritSockets(p, c) ==
    /\ sockets' = [t \in Tuples |->
                      IF p \in sockets[t] THEN sockets[t] \cup {c} ELSE sockets[t]]
    /\ UNCHANGED <<late, scanVars>>

DropSockets(p) ==
    /\ sockets' = [t \in Tuples |-> sockets[t] \ {p}]
    /\ UNCHANGED <<late, scanVars>>

-----------------------------------------------------------------------------
(* The poller.                                                              *)

\* get_sockets_info.  The sockets of one scan are a set: their order is open.
Snapshot ==
    /\ poll \in {"idle", "final"}
    /\ poll' = IF poll = "idle" THEN "scanning" ELSE "last scan"
    /\ todo' = {[tuple |-> t, holders |-> sockets[t], mine |-> sockets[t] \cap mine # {}] :
                    t \in {u \in Tuples : sockets[u] # {}}}
    /\ cache' = Unknown
    /\ UNCHANGED <<told, walk, seen, emitted, socketVars>>

\* get_sockets_info fails, and the scan is skipped.
SnapshotFails ==
    /\ poll \in {"idle", "final"}
    /\ poll' = IF poll = "idle" THEN "sleeping" ELSE "blind"
    /\ UNCHANGED <<told, todo, cache, walk, seen, emitted, socketVars>>

Scanning == poll \in {"scanning", "last scan"}

\* The membership of a holder of a socket is not known: is_in_tree begins.
BeginWalk(s, p) ==
    /\ Scanning /\ walk = NoWalk
    /\ s \in todo /\ p \in s.holders /\ cache[p] = "unknown"
    /\ \A q \in s.holders : cache[q] # "in"
    /\ walk' = [from |-> p, at |-> p, depth |-> 0]
    /\ UNCHANGED <<poll, told, todo, cache, seen, emitted, socketVars>>

\* One turn of the loop of is_in_tree.
WalkStep ==
    /\ walk # NoWalk
    /\ IF walk.depth < MaxDepth /\ walk.at \notin {Root, InitPid} /\ parent[walk.at] # Free
       THEN /\ walk' = [walk EXCEPT !.at = parent[walk.at], !.depth = @ + 1]
            /\ UNCHANGED cache
       ELSE /\ walk' = NoWalk
            /\ cache' = [cache EXCEPT ![walk.from] =
                            IF walk.depth < MaxDepth /\ walk.at = Root THEN "in" ELSE "out"]
    /\ UNCHANGED <<poll, told, todo, seen, emitted, socketVars>>

\* Mutant: a connection is known by a process that holds it, too.
KeyWithHolder(s) == <<s.tuple, s.holders>>

\* ConnKey: the 4-tuple alone, since children inherit sockets.
Key(s) == s.tuple

\* A holder is in the tree: record the destination, if it is new.
RecordSocket(s) ==
    /\ Scanning /\ walk = NoWalk
    /\ s \in todo /\ \E p \in s.holders : cache[p] = "in"
    /\ todo' = todo \ {s}
    /\ seen' = seen \cup {Key(s)}
    /\ emitted' = IF Key(s) \in seen THEN emitted
                  ELSE Append(emitted, [tuple |-> s.tuple, mine |-> s.mine])
    /\ UNCHANGED <<poll, told, cache, walk, socketVars>>

\* No holder is in the tree.
SkipSocket(s) ==
    /\ Scanning /\ walk = NoWalk
    /\ s \in todo /\ \A p \in s.holders : cache[p] = "out"
    /\ todo' = todo \ {s}
    /\ UNCHANGED <<poll, told, cache, walk, seen, emitted, socketVars>>

ScanEnds ==
    /\ Scanning /\ walk = NoWalk /\ todo = {}
    /\ poll' = IF poll = "scanning" THEN "sleeping" ELSE "done"
    /\ UNCHANGED <<told, todo, cache, walk, seen, emitted, socketVars>>

\* Mutant: no scan after the signal.
WakeUpAndEnd ==
    /\ poll = "sleeping"
    /\ poll' = IF told THEN "done" ELSE "idle"
    /\ UNCHANGED <<told, todo, cache, walk, seen, emitted, socketVars>>

\* recv_timeout returns: scan again, for the last time if told to stop.
WakeUp ==
    /\ poll = "sleeping"
    /\ poll' = IF told THEN "final" ELSE "idle"
    /\ UNCHANGED <<told, todo, cache, walk, seen, emitted, socketVars>>

StopPoller ==
    /\ poll \notin {"off", "done", "blind"} /\ ~told
    /\ told' = TRUE
    /\ UNCHANGED <<poll, todo, cache, walk, seen, emitted, socketVars>>

Poller ==
    \/ Snapshot \/ SnapshotFails
    \/ \E s \in todo : (\E p \in s.holders : BeginWalk(s, p)) \/ RecordSocket(s) \/ SkipSocket(s)
    \/ WalkStep \/ ScanEnds \/ WakeUp \/ StopPoller

PollTypeOK ==
    /\ sockets \in [Tuples -> SUBSET Pids] /\ late \subseteq Tuples
    /\ poll \in {"off", "idle", "scanning", "sleeping", "final", "last scan", "done", "blind"}
    /\ todo \subseteq [tuple : Tuples, holders : SUBSET Pids, mine : BOOLEAN]
    /\ cache \in [All -> {"unknown", "in", "out"}]
    /\ walk = NoWalk \/ walk \in [from : Pids, at : All, depth : 0 .. MaxDepth]
    /\ seen \subseteq Tuples

=============================================================================
