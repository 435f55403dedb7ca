------------------------------ MODULE KernelTier ------------------------------
(***************************************************************************)
(* The kernel tier at work: processes fork, exec, connect and end, and the *)
(* collector that the platform has observes them.  A run of snitchit has   *)
(* the eBPF collector, or on macOS Endpoint Security and the poller of the *)
(* socket table; these two know nothing of each other, so each is taken on *)
(* its own.                                                                *)
(***************************************************************************)
EXTENDS KernelScope, ConnectPoll

CONSTANT Collectors     \* the collectors to consider

ASSUME CollectorAssumption == Collectors \subseteq {"ebpf", "es", "poll"}

vars == <<processVars, scopeVars, socketVars, scanVars>>

Init ==
    /\ ProcessInit
    /\ collector \in Collectors
    /\ ScopeInit
    /\ PollInit
    /\ poll = IF collector = "poll" THEN "idle" ELSE "off"

\* snitchit starts the agent when the collector has been started.
Started == collector = "poll" \/ probes = "on"

Unobserved == UNCHANGED scopeVars

Fork(p, c) ==
    /\ p = Root => Started
    /\ ForkProcess(p, c)
    /\ InheritSockets(p, c)
    /\ CASE collector = "ebpf" /\ probes \in {"seeded", "on"} -> TryFork(p, c)
         [] collector = "es" /\ probes = "on" -> Notify(<<ForkMessage(p, c)>>)
         [] OTHER -> Unobserved

\* macOS, posix_spawn: the message of the exec may come before that of the fork.
SpawnChild(p, c) ==
    /\ collector = "es" /\ probes = "on"
    /\ ForkProcess(p, c)
    /\ InheritSockets(p, c)
    /\ Notify(<<ExecMessage(c, p, Whose(p)), ForkMessage(p, c)>>)

Exec(p) ==
    /\ p \in Pids /\ IsAlive(p)
    /\ CASE collector = "ebpf" /\ probes \in {"seeded", "on"} -> TryExec(p)
         [] collector = "es" /\ probes = "on" -> Notify(<<ExecMessage(p, parent[p], Whose(p))>>)
         [] OTHER -> FALSE
    /\ UNCHANGED <<processVars, socketVars, scanVars>>

Exit(p) ==
    /\ ExitProcess(p)
    /\ DropSockets(p)
    /\ Unobserved

\* Only the poller looks at connections here.
Connect(p, t) ==
    /\ collector = "poll"
    /\ OpenSocket(p, t)
    /\ UNCHANGED <<processVars, scopeVars>>

Disconnect(p, t) ==
    /\ CloseSocket(p, t)
    /\ UNCHANGED <<processVars, scopeVars>>

Processes ==
    \/ \E p \in All, c \in Pids : Fork(p, c) \/ SpawnChild(p, c)
    \/ \E p \in Pids : Exec(p) \/ Exit(p)
    \/ \E p \in Pids, t \in Tuples : Connect(p, t) \/ Disconnect(p, t)

Collector ==
    \/ Seed \/ Announce \/ StartClient \/ NoteFork \/ AdmitExec \/ StopClient

Next ==
    \/ Processes
    \/ Collector /\ UNCHANGED <<processVars, socketVars, scanVars>>
    \/ (\E p \in Pids : OtherAnnounces(p)) /\ UNCHANGED <<socketVars, scanVars>>
    \/ Poller /\ UNCHANGED <<processVars, scopeVars>>

Spec == Init /\ [][Next]_vars

-----------------------------------------------------------------------------
TypeOK == ProcessTypeOK /\ ScopeTypeOK /\ PollTypeOK

\* "so unrelated host processes are excluded": what the kernel tier records
\* comes from processes that snitchit, its agent, or their descendants started.
OnlyTheTree ==
    /\ \A e \in records : e.whose = "ours"
    /\ \A i \in DOMAIN emitted : emitted[i].mine

\* What holds of it: with the eBPF probes, the trees of other snitchits started
\* meanwhile are recorded as well, but nothing else of the machine ever is.
OnlyRecordedTrees ==
    /\ \A e \in records : e.whose = "ours" \/ (collector = "ebpf" /\ e.whose = "theirs")
    /\ \A i \in DOMAIN emitted : emitted[i].mine

\* Every exec in the tree that the collector was asked about is recorded, by
\* processes that lost their parents and by those whose exec is announced before
\* their fork too, as long as the map of the probes has room.
EveryExec ==
    Cardinality(tracked) < MaxTracked \/ collector = "es" =>
        \A e \in passed : e.whose # "ours"

\* The parents of p, up to MaxDepth of them, lead to snitchit.
LeadsToRoot(p) ==
    LET up[n \in 0 .. MaxDepth - 1] ==
            IF n = 0 THEN p
            ELSE IF up[n - 1] \in {Root, InitPid, Free} THEN up[n - 1] ELSE parent[up[n - 1]]
    IN  up[MaxDepth - 1] = Root

\* "A final scan after the shutdown signal catches connections opened during the
\* last interval": a connection that was open at the signal and still is, held by
\* a process that its parents link to snitchit, is recorded when the poller ends,
\* unless the socket table could not be read then.
FinalScanCatches ==
    poll = "done" => \A t \in Tuples \ late :
        (\E p \in sockets[t] : LeadsToRoot(p)) => \E i \in DOMAIN emitted : emitted[i].tuple = t

\* "keying on the 4-tuple records each connection once", though children inherit
\* the socket and close it at other times.
OncePerConnection ==
    \A i, j \in DOMAIN emitted : emitted[i].tuple = emitted[j].tuple => i = j

=============================================================================
