----------------------------- MODULE KernelScope -----------------------------
(***************************************************************************)
(* Which execs the kernel tier takes for the agent's: the set of tracked   *)
(* process ids, seeded with snitchit's own and grown at every fork.        *)
(*                                                                         *)
(* On Linux (collectors/ebpf/src/main.rs, loaded by kernel/mod.rs) the set *)
(* is a map in the kernel with room for MaxTracked ids, and the probes run *)
(* within the fork, the exec or the connect they observe.  On macOS        *)
(* (endpoint_security/mod.rs) it is a HashSet, and the kernel's messages   *)
(* wait in a queue until the handler gets to them.  Neither forgets an id. *)
(* A process stands for its threads: those are forked and tracked alike.   *)
(***************************************************************************)
EXTENDS ProcessTree, Sequences

CONSTANTS
    SeedPid,        \* the id that snitchit takes for its own; Root outside a container
    MaxTracked,     \* room in the eBPF map
    MaxMessages     \* bound: Endpoint Security messages in the queue

ASSUME ScopeAssumption ==
    MaxTracked \in Nat \ {0} /\ MaxMessages \in Nat

VARIABLES
    probes,         \* "none", "seeded", "on", "off": the collector that observes execs
    collector,      \* which one it is: "ebpf", "es", or "poll" when there is none
    tracked,        \* TRACKED, the ids taken for the agent's
    messages,       \* the queue of the Endpoint Security client
    records,        \* the events recorded, with whose process it was
    passed          \* the execs not recorded, likewise

scopeVars == <<probes, collector, tracked, messages, records, passed>>

ScopeInit ==
    /\ probes = "none"
    /\ tracked = {}
    /\ messages = <<>>
    /\ records = {}
    /\ passed = {}

Seen(p) == [pid |-> p, whose |-> Whose(p)]

ForkMessage(p, c) == [kind |-> "fork", pid |-> c, ppid |-> p]
ExecMessage(p, pp, whose) == [kind |-> "exec", pid |-> p, ppid |-> pp, whose |-> whose]

\* Mutant: an insert into the map of the probes, which has no limit.
TrackAlways(p) == tracked \cup {p}

\* An insert into the map of the probes, which fails when it is full.
Track(p) ==
    IF p \in tracked \/ Cardinality(tracked) < MaxTracked THEN tracked \cup {p} ELSE tracked

-----------------------------------------------------------------------------
(* Linux.                                                                   *)

\* KernelCollector::start: seed with our process id, attach the probes.
Seed ==
    /\ collector = "ebpf" /\ probes = "none"
    /\ probes' = "seeded"
    /\ tracked' = {SeedPid}
    /\ UNCHANGED <<collector, messages, records, passed>>

\* Mutant: the sentinel is not recognized.
AnnounceInVain ==
    /\ collector = "ebpf" /\ probes = "seeded"
    /\ probes' = "on"
    /\ UNCHANGED <<collector, tracked, messages, records, passed>>

\* start, next: connect to the sentinel.
Announce ==
    /\ collector = "ebpf" /\ probes = "seeded"
    /\ probes' = "on"
    /\ tracked' = Track(Root)
    /\ UNCHANGED <<collector, messages, records, passed>>

\* Another snitchit on the machine connects to the sentinel: try_connect runs
\* in every process, and takes whoever connects there for the root of the tree.
OtherAnnounces(p) ==
    /\ collector = "ebpf"
    /\ StartSession(p)
    /\ tracked' = IF probes \in {"seeded", "on"} THEN Track(p) ELSE tracked
    /\ UNCHANGED <<probes, collector, messages, records, passed>>

\* Mutant: whoever is forked is tracked.
TryForkAny(p, c) ==
    /\ tracked' = Track(c)
    /\ UNCHANGED <<probes, collector, messages, records, passed>>

TryFork(p, c) ==
    /\ tracked' = IF p \in tracked THEN Track(c) ELSE tracked
    /\ UNCHANGED <<probes, collector, messages, records, passed>>

TryExec(p) ==
    /\ IF p \in tracked
       THEN records' = records \cup {Seen(p)} /\ UNCHANGED passed
       ELSE passed' = passed \cup {Seen(p)} /\ UNCHANGED records
    /\ UNCHANGED <<probes, collector, tracked, messages>>

-----------------------------------------------------------------------------
(* macOS.                                                                   *)

\* worker: seed, create the client and subscribe.
StartClient ==
    /\ collector = "es" /\ probes = "none"
    /\ probes' = "on"
    /\ tracked' = {Root}
    /\ UNCHANGED <<collector, messages, records, passed>>

\* The kernel puts messages into the client's queue.
Notify(ms) ==
    /\ Len(messages) + Len(ms) <= MaxMessages
    /\ messages' = messages \o ms
    /\ UNCHANGED <<probes, collector, tracked, records, passed>>

\* handle, NotifyFork: note_fork.
NoteFork ==
    /\ probes = "on" /\ messages # <<>> /\ Head(messages).kind = "fork"
    /\ messages' = Tail(messages)
    /\ tracked' = IF Head(messages).ppid \in tracked
                  THEN tracked \cup {Head(messages).pid} ELSE tracked
    /\ UNCHANGED <<probes, collector, records, passed>>

\* Mutant: the parent is not looked at.
AdmitExecByPid ==
    /\ probes = "on" /\ messages # <<>> /\ Head(messages).kind = "exec"
    /\ messages' = Tail(messages)
    /\ LET m == Head(messages)
           e == [pid |-> m.pid, whose |-> m.whose]
       IN  IF m.pid \in tracked
           THEN records' = records \cup {e} /\ UNCHANGED <<passed, tracked>>
           ELSE passed' = passed \cup {e} /\ UNCHANGED <<records, tracked>>
    /\ UNCHANGED <<probes, collector>>

\* handle, NotifyExec: admit_exec, by the process or by its parent.
AdmitExec ==
    /\ probes = "on" /\ messages # <<>> /\ Head(messages).kind = "exec"
    /\ messages' = Tail(messages)
    /\ LET m == Head(messages)
           e == [pid |-> m.pid, whose |-> m.whose]
       IN  IF {m.pid, m.ppid} \cap tracked # {}
           THEN /\ tracked' = tracked \cup {m.pid}
                /\ records' = records \cup {e}
                /\ UNCHANGED passed
           ELSE passed' = passed \cup {e} /\ UNCHANGED <<records, tracked>>
    /\ UNCHANGED <<probes, collector>>

\* stop: the client is released, with what is in its queue.
StopClient ==
    /\ collector = "es" /\ probes = "on"
    /\ probes' = "off"
    /\ messages' = <<>>
    /\ UNCHANGED <<collector, tracked, records, passed>>

-----------------------------------------------------------------------------
ScopeTypeOK ==
    /\ probes \in {"none", "seeded", "on", "off"}
    /\ collector \in {"ebpf", "es", "poll"}
    /\ tracked \subseteq All \cup {SeedPid}
    /\ collector = "ebpf" => Cardinality(tracked) <= MaxTracked
    /\ Len(messages) <= MaxMessages
    /\ {e.pid : e \in records \cup passed} \subseteq All

=============================================================================
