-------------------------- MODULE KernelTier_proofs --------------------------
(***************************************************************************)
(* Proofs about KernelTier, for any processes, connections and bounds.     *)
(*                                                                         *)
(* The argument: membership of the tree is settled when a process is       *)
(* forked.  If process ids are given once there is a set of ids, ours,     *)
(* that have ever been in the tree; the messages in the queue of Endpoint  *)
(* Security, the walks of the poller and what they have found out agree    *)
(* with it, however late they come.                                        *)
(*                                                                         *)
(* The last scan: a path of parents that leads from a process to snitchit  *)
(* now was there as long as the process has been (PathWas), so a walk that *)
(* began on it is still on it, whatever happened meanwhile (WalkInv), and  *)
(* whoever was found to be out has none (OutInv).  A connection that is    *)
(* not late has had holders since the signal; children have it from their  *)
(* parents, and so the path of each leads through one that the scan has    *)
(* still to look at, or the connection is recorded (HoldInv).              *)
(***************************************************************************)
EXTENDS KernelTier, Induction, FiniteSetTheorems, SequenceTheorems, TLAPS

Owners == {"ours", "theirs", "host"}

Messages ==
    [kind : {"fork"}, pid : Pids, ppid : All]
        \cup [kind : {"exec"}, pid : Pids, ppid : All, whose : Owners]

\* The types of what the collectors keep, with those of the sequences.
ScopeOK ==
    /\ ScopeTypeOK
    /\ IsFiniteSet(tracked)
    /\ messages \in Seq(Messages)
    /\ records \cup passed \subseteq [pid : Pids, whose : Owners]
    /\ collector # "es" => messages = <<>>
    /\ collector = "poll" => records = {} /\ passed = {}
PollOK ==
    /\ PollTypeOK
    /\ emitted \in Seq([tuple : Tuples, mine : BOOLEAN])

\* The processes: those of the trees are alive, and so is the parent of each; a
\* process whose parent is in the tree is in it.
TreeInv ==
    /\ Root \in mine /\ IsAlive(Root) /\ IsAlive(InitPid)
    /\ \A p \in mine \cup theirs : IsAlive(p)
    /\ \A p \in All : IsAlive(p) => parent[parent[p]] # Free
    /\ \A p \in Pids : IsAlive(p) => p \in used
    /\ \A p \in Pids : IsAlive(p) /\ parent[p] \in mine => p \in mine
    /\ \A t \in Tuples : \A p \in sockets[t] : IsAlive(p)

\* A connection is recorded when its key is new.
SeenInv ==
    /\ \A i \in DOMAIN emitted : emitted[i].tuple \in seen
    /\ OncePerConnection

\* The map of the probes: it has the whole tree while there is room, and but for
\* ids that are not in use any more, nothing else than recorded trees.
ProbesInv ==
    collector = "ebpf" =>
        /\ probes \in {"none", "seeded", "on"}
        /\ probes = "none" => tracked = {}
        /\ probes # "on" => mine = {Root}
        /\ probes = "on" /\ Cardinality(tracked) < MaxTracked => mine \subseteq tracked
        /\ Cardinality(tracked) < MaxTracked => \A e \in passed : e.whose # "ours"
OwnersInv ==
    collector = "ebpf" =>
        /\ InitPid \notin tracked
        /\ \A p \in tracked \cap Pids : p \in used /\ (IsAlive(p) => p \in mine \cup theirs)
        /\ \A e \in records : e.whose # "host"

\* When message i of the queue q is handled, x will be among ids, the tracked ones.
Known(x, i, q, ids) == x \in ids \/ \E j \in DOMAIN q : j < i /\ q[j].pid = x

\* A message is about ids that were given, and tells the truth about the tree.
Truthful(m, ours, given) ==
    /\ m.pid \in given /\ m.ppid \in given \cup {Root, InitPid}
    /\ m.ppid \in ours => m.pid \in ours
    /\ m.kind = "exec" => (m.whose = "ours" <=> m.pid \in ours)

QueueGood(q, ids, given, ours) ==
    /\ ids \subseteq ours
    /\ \A i \in DOMAIN q :
          /\ Truthful(q[i], ours, given)
          /\ q[i].pid \in ours => \/ Known(q[i].pid, i, q, ids)
                                  \/ q[i].ppid \in ours /\ Known(q[i].ppid, i, q, ids)

QueueInv(ours) ==
    collector = "es" =>
        /\ QueueGood(messages, tracked, used, ours)
        /\ probes = "on" => \A p \in mine : Known(p, Len(messages) + 1, messages, tracked)
        /\ probes # "on" => messages = <<>>
        /\ probes = "none" => mine = {Root}
        /\ \A e \in records : e.whose = "ours"
        /\ \A e \in passed : e.whose # "ours"

PollInv(ours) ==
    /\ \A s \in todo : s.holders \subseteq used /\ (s.holders \cap ours # {} => s.mine)
    /\ \A p \in Pids : cache[p] = "in" => p \in ours
    /\ walk # NoWalk =>
          /\ walk.from \in used /\ walk.at \in used \cup {Root, InitPid}
          /\ walk.at \in ours => walk.from \in ours
    /\ \A i \in DOMAIN emitted : emitted[i].mine = TRUE

\* ours: the ids that have ever been in the tree.
EverOurs(ours) ==
    /\ Root \in ours /\ InitPid \notin ours /\ ours \subseteq used \cup {Root}
    /\ \A p \in Pids : IsAlive(p) => (p \in ours <=> p \in mine)

OursInv == \E ours \in SUBSET All : EverOurs(ours) /\ QueueInv(ours) /\ PollInv(ours)

-----------------------------------------------------------------------------
(* The processes.                                                           *)

LEMMA Differ == Root # InitPid /\ Root # Free /\ InitPid # Free
<1>1. ASSUME NEW a, NEW b  PROVE Cardinality({a, b}) <= 2
  <2>1. IsFiniteSet({a}) /\ Cardinality({a}) = 1  BY FS_Singleton
  <2>2. Cardinality({a} \cup {b}) \in {1, 2}  BY <2>1, FS_AddElement
  <2>3. {a} \cup {b} = {a, b}  OBVIOUS
  <2> QED  BY <2>2, <2>3
<1>2. ~(Cardinality({Root, InitPid, Free}) <= 2)  BY ProcessAssumption
<1>3. ASSUME Root = InitPid  PROVE FALSE
  <2>1. {Root, InitPid, Free} = {Root, Free}  BY <1>3
  <2> QED  BY <1>1, <1>2, <2>1
<1>4. ASSUME Root = Free  PROVE FALSE
  <2>1. {Root, InitPid, Free} = {Root, InitPid}  BY <1>4
  <2> QED  BY <1>1, <1>2, <2>1
<1>5. ASSUME InitPid = Free  PROVE FALSE
  <2>1. {Root, InitPid, Free} = {Root, Free}  BY <1>5
  <2> QED  BY <1>1, <1>2, <2>1
<1> QED  BY <1>3, <1>4, <1>5

LEMMA Names ==
    /\ Root # InitPid /\ Root # Free /\ InitPid # Free
    /\ Root \notin Pids /\ InitPid \notin Pids /\ Free \notin All
    /\ Root \in All /\ InitPid \in All /\ Pids \subseteq All
  BY Differ, ProcessAssumption DEF All

\* What a step does to the processes and their sockets.
LEMMA Births ==
    ASSUME [Next]_vars
    PROVE  \/ UNCHANGED <<parent, mine, theirs, used, sockets>>
           \/ \E p \in All, c \in Pids : ForkProcess(p, c) /\ InheritSockets(p, c)
           \/ \E p \in Pids : ExitProcess(p) /\ DropSockets(p)
           \/ \E p \in Pids : StartSession(p) /\ UNCHANGED sockets
           \/ /\ \E p \in Pids, t \in Tuples : OpenSocket(p, t) \/ CloseSocket(p, t)
              /\ UNCHANGED processVars
<1> USE DEF processVars, socketVars
<1>1. CASE Processes
  BY <1>1 DEF Processes, Fork, SpawnChild, Exec, Exit, Connect, Disconnect
<1>2. CASE \E p \in Pids : OtherAnnounces(p) /\ UNCHANGED <<socketVars, scanVars>>
  BY <1>2 DEF OtherAnnounces
<1>3. CASE Poller /\ UNCHANGED <<processVars, scopeVars>>
  BY <1>3
  DEF Poller, Snapshot, SnapshotFails, BeginWalk, RecordSocket, SkipSocket, WalkStep, ScanEnds,
      WakeUp, StopPoller
<1> QED  BY <1>1, <1>2, <1>3 DEF Next, vars

LEMMA Late ==
    ASSUME [Next]_vars, late \subseteq Tuples
    PROVE  late' \subseteq Tuples
<1> USE DEF processVars, socketVars
<1>1. CASE Processes
  BY <1>1
  DEF Processes, Fork, SpawnChild, Exec, Exit, Connect, Disconnect, InheritSockets, DropSockets,
      OpenSocket, CloseSocket
<1>2. CASE ~Processes
  BY <1>2
  DEF Next, vars, Poller, Snapshot, SnapshotFails, BeginWalk, RecordSocket, SkipSocket, WalkStep,
      ScanEnds, WakeUp, StopPoller
<1> QED  BY <1>1, <1>2

TreeOK ==
    /\ ProcessTypeOK
    /\ sockets \in [Tuples -> SUBSET Pids] /\ late \subseteq Tuples
    /\ TreeInv

LEMMA InitTree == Init => TreeOK
  BY Names DEF Init, ProcessInit, PollInit, TreeOK, ProcessTypeOK, TreeInv, IsAlive, All

LEMMA TreeStep == TreeOK /\ [Next]_vars => TreeOK'
<1> SUFFICES ASSUME TreeOK, [Next]_vars  PROVE TreeOK'  OBVIOUS
<1> USE Names DEF TreeOK, ProcessTypeOK, TreeInv, IsAlive
<1>1. late' \subseteq Tuples
  BY Late
<1>2. CASE UNCHANGED <<parent, mine, theirs, used, sockets>>
  BY <1>1, <1>2
<1>3. ASSUME NEW p \in All, NEW c \in Pids, ForkProcess(p, c), InheritSockets(p, c)
      PROVE  TreeOK'
  <2>1. c \notin mine \cup theirs /\ c # p  BY <1>3 DEF ForkProcess
  <2>2. parent' = [parent EXCEPT ![c] = p] /\ parent[p] # Free /\ parent[c] = Free
    BY <1>3 DEF ForkProcess
  <2>3. ProcessTypeOK'  BY <1>3, <2>1, <2>2 DEF ForkProcess
  <2>4. sockets' \in [Tuples -> SUBSET Pids]  BY <1>3 DEF InheritSockets
  <2>5. Root \in mine' /\ IsAlive(Root)' /\ IsAlive(InitPid)'  BY <1>3, <2>2 DEF ForkProcess
  <2>6. \A q \in (mine \cup theirs)' : IsAlive(q)'  BY <1>3, <2>2 DEF ForkProcess
  <2>7. \A q \in All : parent'[q] # Free => parent'[parent'[q]] # Free  BY <2>2
  <2>8. \A q \in Pids : IsAlive(q)' => q \in used'  BY <1>3, <2>2 DEF ForkProcess
  <2>9. \A q \in Pids : IsAlive(q)' /\ parent'[q] \in mine' => q \in mine'
    BY <1>3, <2>1, <2>2 DEF ForkProcess
  <2>10. \A t \in Tuples : \A q \in sockets'[t] : IsAlive(q)'
    BY <1>3, <2>2 DEF InheritSockets
  <2> QED  BY <1>1, <2>3, <2>4, <2>5, <2>6, <2>7, <2>8, <2>9, <2>10
<1>4. ASSUME NEW p \in Pids, ExitProcess(p), DropSockets(p)
      PROVE  TreeOK'
  <2>1. /\ \A q \in All : parent'[q] = IF q = p THEN Free
                                       ELSE IF parent[q] = p THEN InitPid ELSE parent[q]
        /\ parent' \in [All -> All \cup {Free}]
    BY <1>4 DEF ExitProcess
  <2>2. mine' = mine \ {p} /\ theirs' = theirs \ {p} /\ used' = used
    BY <1>4 DEF ExitProcess
  <2>3. \A q \in Pids : IsAlive(q)' /\ parent'[q] \in mine' => q \in mine'  BY <2>1, <2>2
  <2>4. \A q \in All : parent'[q] # Free => parent'[parent'[q]] # Free  BY <2>1
  <2>5. \A t \in Tuples : sockets'[t] = sockets[t] \ {p}  BY <1>4 DEF DropSockets
  <2>6. \A t \in Tuples : \A q \in sockets'[t] : IsAlive(q)'  BY <2>1, <2>5
  <2>7. sockets' \in [Tuples -> SUBSET Pids]  BY <1>4 DEF DropSockets
  <2> QED  BY <1>1, <2>1, <2>2, <2>3, <2>4, <2>6, <2>7
<1>5. ASSUME NEW p \in Pids, StartSession(p), UNCHANGED sockets
      PROVE  TreeOK'
  BY <1>1, <1>5 DEF StartSession
<1>6. ASSUME NEW p \in Pids, NEW t \in Tuples, OpenSocket(p, t) \/ CloseSocket(p, t),
             UNCHANGED processVars
      PROVE  TreeOK'
  <2>1. \A u \in Tuples : sockets'[u] \subseteq sockets[u] \/ (sockets'[u] = {p} /\ parent[p] # Free)
    BY <1>6 DEF OpenSocket, CloseSocket
  <2>2. sockets' \in [Tuples -> SUBSET Pids]  BY <1>6 DEF OpenSocket, CloseSocket
  <2> QED  BY <1>1, <1>6, <2>1, <2>2 DEF processVars
<1> QED  BY <1>2, <1>3, <1>4, <1>5, <1>6, Births

LEMMA Tree == Spec => []TreeOK
  BY InitTree, TreeStep, PTL DEF Spec

-----------------------------------------------------------------------------
(* The types of what the collectors keep.                                   *)

\* Who is forked or executes where the probes or the client look.
Probed == collector = "ebpf" /\ probes \in {"seeded", "on"}
Heard == collector = "es" /\ probes = "on"

\* What a step does to the scope.
LEMMA Scopes ==
    ASSUME [Next]_vars
    PROVE  \/ UNCHANGED scopeVars
           \/ Collector /\ UNCHANGED <<processVars, socketVars, scanVars>>
           \/ \E p \in Pids : OtherAnnounces(p) /\ UNCHANGED <<socketVars, scanVars>>
           \/ \E p \in All, c \in Pids :
                 Fork(p, c) /\ \/ Probed /\ TryFork(p, c)
                               \/ Heard /\ Notify(<<ForkMessage(p, c)>>)
           \/ \E p \in All, c \in Pids : SpawnChild(p, c)
           \/ \E p \in Pids :
                 /\ IsAlive(p) /\ UNCHANGED <<processVars, socketVars, scanVars>>
                 /\ \/ Probed /\ TryExec(p)
                    \/ Heard /\ Notify(<<ExecMessage(p, parent[p], Whose(p))>>)
<1> USE DEF Unobserved, Probed, Heard
<1>1. ASSUME NEW p \in All, NEW c \in Pids, Fork(p, c)
      PROVE  \/ UNCHANGED scopeVars
             \/ Probed /\ TryFork(p, c)
             \/ Heard /\ Notify(<<ForkMessage(p, c)>>)
  BY <1>1 DEF Fork
<1>2. ASSUME NEW p \in Pids, Exec(p)
      PROVE  \/ Probed /\ TryExec(p)
             \/ Heard /\ Notify(<<ExecMessage(p, parent[p], Whose(p))>>)
  BY <1>2 DEF Exec
<1>3. CASE Processes
  BY <1>1, <1>2, <1>3 DEF Processes, Exec, Exit, Connect, Disconnect
<1> QED  BY <1>3 DEF Next, vars

LEMMA TrackGrows ==
    ASSUME NEW p, IsFiniteSet(tracked), Cardinality(tracked) <= MaxTracked
    PROVE  /\ IsFiniteSet(Track(p)) /\ Cardinality(Track(p)) <= MaxTracked
           /\ tracked \subseteq Track(p) /\ Track(p) \subseteq tracked \cup {p}
           /\ Cardinality(tracked) <= Cardinality(Track(p))
           /\ Cardinality(Track(p)) < MaxTracked =>
                 p \in Track(p) /\ Cardinality(tracked) < MaxTracked
<1>1. Cardinality(tracked) \in Nat /\ MaxTracked \in Nat
  BY FS_CardinalityType, ScopeAssumption
<1>2. CASE p \in tracked
  <2>1. Track(p) = tracked  BY <1>2 DEF Track
  <2> QED  BY <1>1, <1>2, <2>1
<1>3. CASE p \notin tracked /\ Cardinality(tracked) < MaxTracked
  <2>1. Track(p) = tracked \cup {p}  BY <1>3 DEF Track
  <2>2. /\ IsFiniteSet(tracked \cup {p})
        /\ Cardinality(tracked \cup {p}) = Cardinality(tracked) + 1
    BY <1>3, FS_AddElement
  <2> QED  BY <1>1, <1>3, <2>1, <2>2
<1>4. CASE p \notin tracked /\ ~(Cardinality(tracked) < MaxTracked)
  <2>1. Track(p) = tracked  BY <1>4 DEF Track
  <2> QED  BY <1>1, <1>4, <2>1
<1> QED  BY <1>2, <1>3, <1>4

LEMMA InitScope == Init => ScopeOK
<1> SUFFICES ASSUME Init  PROVE ScopeOK  OBVIOUS
<1>1. collector \in {"ebpf", "es", "poll"}  BY CollectorAssumption DEF Init
<1>2. /\ probes = "none" /\ tracked = {} /\ messages = <<>> /\ records = {} /\ passed = {}
  BY DEF Init, ScopeInit
<1>3. IsFiniteSet({}) /\ Cardinality({}) = 0  BY FS_EmptySet
<1>4. <<>> \in Seq(Messages) /\ Len(<<>>) = 0  BY EmptySeq
<1> QED  BY <1>1, <1>2, <1>3, <1>4, ScopeAssumption DEF ScopeOK, ScopeTypeOK

LEMMA MessageTypes ==
    ASSUME TreeOK, NEW p \in All, NEW c \in Pids
    PROVE  /\ ForkMessage(p, c) \in Messages
           /\ ExecMessage(c, p, Whose(p)) \in Messages
           /\ IsAlive(c) => parent[c] \in All /\ ExecMessage(c, parent[c], Whose(c)) \in Messages
           /\ Seen(c) \in [pid : Pids, whose : Owners]
<1>1. Whose(p) \in Owners /\ Whose(c) \in Owners  BY DEF Whose, Owners
<1>2. IsAlive(c) => parent[c] \in All  BY Names DEF TreeOK, ProcessTypeOK, IsAlive
<1> QED  BY <1>1, <1>2 DEF ForkMessage, ExecMessage, Seen, Messages

LEMMA ScopeStep == TreeOK /\ ScopeOK /\ [Next]_vars => ScopeOK'
<1> SUFFICES ASSUME TreeOK, ScopeOK, [Next]_vars  PROVE ScopeOK'  OBVIOUS
<1> USE DEF ScopeOK, ScopeTypeOK
<1>1. CASE UNCHANGED scopeVars
  BY <1>1 DEF scopeVars
<1>2. ASSUME NEW p \in All, tracked' = Track(p), collector = "ebpf", collector' = collector,
             UNCHANGED <<messages, records, passed>>, probes' \in {"none", "seeded", "on", "off"}
      PROVE  ScopeOK'
  BY <1>2, TrackGrows
<1>3. ASSUME NEW ms, ms \in Seq(Messages), Heard, Notify(ms)
      PROVE  ScopeOK'
  <2>1. messages \o ms \in Seq(Messages) /\ Len(messages \o ms) = Len(messages) + Len(ms)
    BY <1>3, ConcatProperties
  <2> QED  BY <1>3, <2>1 DEF Notify, Heard
<1>4. CASE Seed \/ StartClient
  <2>1. PICK p \in {SeedPid, Root} : tracked' = {p}  BY <1>4 DEF Seed, StartClient
  <2>2. IsFiniteSet({p}) /\ Cardinality({p}) = 1  BY FS_Singleton
  <2> QED  BY <1>4, <2>1, <2>2, Names, ScopeAssumption DEF Seed, StartClient
<1>5. CASE Announce
  BY <1>2, <1>5, Names DEF Announce
<1>6. CASE NoteFork \/ AdmitExec
  <2>1. messages # <<>> /\ messages' = Tail(messages)  BY <1>6 DEF NoteFork, AdmitExec
  <2>2. /\ Head(messages) \in Messages /\ messages' \in Seq(Messages)
        /\ Len(messages') = Len(messages) - 1 /\ Len(messages) \in Nat
    BY <2>1, HeadTailProperties, LenProperties
  <2>3. collector = "es" /\ collector' = collector  BY <1>6, <2>1 DEF NoteFork, AdmitExec
  <2>4. Len(messages') <= MaxMessages  BY <2>2, ScopeAssumption
  <2>5. Head(messages).pid \in Pids  BY <2>2 DEF Messages
  <2>6. tracked' \subseteq tracked \cup {Head(messages).pid}  BY <1>6 DEF NoteFork, AdmitExec
  <2>7. IsFiniteSet(tracked')
    <3>1. IsFiniteSet(tracked \cup {Head(messages).pid})  BY FS_AddElement
    <3> QED  BY <2>6, <3>1, FS_Subset
  <2>8. (records \cup passed)' \subseteq [pid : Pids, whose : Owners]
    <3>1. CASE NoteFork  BY <3>1 DEF NoteFork
    <3>2. CASE AdmitExec
      <4>1. Head(messages).kind = "exec"  BY <3>2 DEF AdmitExec
      <4>2. Head(messages).whose \in Owners  BY <2>2, <4>1 DEF Messages
      <4> QED  BY <2>5, <3>2, <4>2 DEF AdmitExec
    <3> QED  BY <1>6, <3>1, <3>2
  <2>9. probes' = probes  BY <1>6 DEF NoteFork, AdmitExec
  <2> QED  BY <2>2, <2>3, <2>4, <2>5, <2>6, <2>7, <2>8, <2>9, Names
<1>7. CASE StopClient
  <2>1. <<>> \in Seq(Messages) /\ Len(<<>>) = 0  BY EmptySeq
  <2> QED  BY <1>7, <2>1, ScopeAssumption DEF StopClient
<1>8. ASSUME NEW p \in Pids, OtherAnnounces(p)  PROVE ScopeOK'
  BY <1>2, <1>8, Names DEF OtherAnnounces
<1>9. ASSUME NEW p \in All, NEW c \in Pids,
             \/ Probed /\ TryFork(p, c)
             \/ Heard /\ Notify(<<ForkMessage(p, c)>>)
      PROVE  ScopeOK'
  <2>1. CASE Probed /\ TryFork(p, c)
    BY <1>2, <2>1, Names DEF TryFork, Probed
  <2>2. <<ForkMessage(p, c)>> \in Seq(Messages)  BY MessageTypes
  <2> QED  BY <1>3, <1>9, <2>1, <2>2
<1>10. ASSUME NEW p \in All, NEW c \in Pids, SpawnChild(p, c)  PROVE ScopeOK'
  <2>1. <<ExecMessage(c, p, Whose(p)), ForkMessage(p, c)>> \in Seq(Messages)  BY MessageTypes
  <2> QED  BY <1>3, <1>10, <2>1 DEF SpawnChild, Heard
<1>11. ASSUME NEW p \in Pids, IsAlive(p),
              \/ Probed /\ TryExec(p)
              \/ Heard /\ Notify(<<ExecMessage(p, parent[p], Whose(p))>>)
       PROVE  ScopeOK'
  <2>1. CASE Probed /\ TryExec(p)
    <3>1. Seen(p) \in [pid : Pids, whose : Owners]  BY MessageTypes, Names
    <3>2. (records \cup passed)' \subseteq [pid : Pids, whose : Owners]
      BY <2>1, <3>1 DEF TryExec
    <3>3. {e.pid : e \in (records \cup passed)'} \subseteq All  BY <3>2, Names
    <3> QED  BY <2>1, <3>2, <3>3 DEF TryExec, Probed
  <2>2. <<ExecMessage(p, parent[p], Whose(p))>> \in Seq(Messages)  BY <1>11, MessageTypes, Names
  <2> QED  BY <1>3, <1>11, <2>1, <2>2
<1> QED
  BY <1>1, <1>4, <1>5, <1>6, <1>7, <1>8, <1>9, <1>10, <1>11, Scopes DEF Collector

LEMMA Scans ==
    ASSUME [Next]_vars
    PROVE  \/ UNCHANGED scanVars
           \/ Poller /\ UNCHANGED <<processVars, scopeVars, socketVars>>
<1>1. CASE Processes
  BY <1>1
  DEF Processes, Fork, SpawnChild, Exec, Exit, Connect, Disconnect, InheritSockets, DropSockets,
      OpenSocket, CloseSocket
<1>2. CASE Poller /\ UNCHANGED <<processVars, scopeVars>>
  BY <1>2
  DEF Poller, Snapshot, SnapshotFails, BeginWalk, RecordSocket, SkipSocket, WalkStep, ScanEnds,
      WakeUp, StopPoller
<1> QED  BY <1>1, <1>2 DEF Next, vars

LEMMA Depths ==
    /\ 0 \in 0 .. MaxDepth
    /\ \A d \in 0 .. MaxDepth : d < MaxDepth => d + 1 \in 0 .. MaxDepth
  BY PollAssumption

LEMMA SocketTypes ==
    ASSUME sockets \in [Tuples -> SUBSET Pids]
    PROVE  \A t \in Tuples :
              [tuple |-> t, holders |-> sockets[t], mine |-> sockets[t] \cap mine # {}]
                 \in [tuple : Tuples, holders : SUBSET Pids, mine : BOOLEAN]
  OBVIOUS

LEMMA InitPoll == Init => PollOK
<1> SUFFICES ASSUME Init  PROVE PollOK  OBVIOUS
<1>1. <<>> \in Seq([tuple : Tuples, mine : BOOLEAN])  BY EmptySeq
<1>2. Unknown \in [All -> {"unknown", "in", "out"}]  BY DEF Unknown
<1> QED  BY <1>1, <1>2 DEF Init, PollInit, PollOK, PollTypeOK

LEMMA PollStep == TreeOK /\ PollOK /\ [Next]_vars => PollOK'
<1> SUFFICES ASSUME TreeOK, PollOK, [Next]_vars  PROVE PollOK'  OBVIOUS
<1> USE DEF PollOK, PollTypeOK, scanVars
<1>1. (sockets \in [Tuples -> SUBSET Pids] /\ late \subseteq Tuples)'
  BY TreeStep DEF TreeOK
<1>2. CASE UNCHANGED scanVars
  BY <1>1, <1>2
<1>3. CASE Snapshot
  <2>1. todo' \subseteq [tuple : Tuples, holders : SUBSET Pids, mine : BOOLEAN]
    <3> HIDE DEF PollOK, PollTypeOK
    <3>1. sockets \in [Tuples -> SUBSET Pids]  BY DEF TreeOK
    <3> QED  BY <1>3, <3>1, SocketTypes DEF Snapshot
  <2>2. cache' \in [All -> {"unknown", "in", "out"}]  BY <1>3 DEF Snapshot, Unknown
  <2> QED  BY <1>1, <1>3, <2>1, <2>2 DEF Snapshot
<1>4. CASE SnapshotFails \/ ScanEnds \/ WakeUp \/ StopPoller
  BY <1>1, <1>4 DEF SnapshotFails, ScanEnds, WakeUp, StopPoller
<1>5. ASSUME NEW t \in todo, NEW p \in t.holders, BeginWalk(t, p)  PROVE PollOK'
  <2>1. p \in Pids /\ p \in All  BY Names
  <2>2. 0 \in 0 .. MaxDepth  BY Depths
  <2>3. walk' \in [from : Pids, at : All, depth : 0 .. MaxDepth]
    BY <1>5, <2>1, <2>2 DEF BeginWalk
  <2> QED  BY <1>1, <1>5, <2>3 DEF BeginWalk
<1>6. CASE WalkStep
  <2>1. walk \in [from : Pids, at : All, depth : 0 .. MaxDepth]  BY <1>6 DEF WalkStep
  <2>2. CASE walk' = [walk EXCEPT !.at = parent[walk.at], !.depth = @ + 1] /\ UNCHANGED cache
             /\ walk.depth < MaxDepth /\ parent[walk.at] # Free
    <3>1. parent[walk.at] \in All  BY <2>1, <2>2 DEF TreeOK, ProcessTypeOK
    <3>2. walk.depth + 1 \in 0 .. MaxDepth
      <4>1. walk.depth \in 0 .. MaxDepth  BY <2>1
      <4> QED  BY <2>2, <4>1, Depths
    <3>3. walk' \in [from : Pids, at : All, depth : 0 .. MaxDepth]  BY <2>1, <2>2, <3>1, <3>2
    <3> QED  BY <1>1, <1>6, <2>2, <3>3 DEF WalkStep
  <2>3. CASE walk' = NoWalk /\ \E x \in {"in", "out"} : cache' = [cache EXCEPT ![walk.from] = x]
    BY <1>1, <1>6, <2>3 DEF WalkStep
  <2> QED  BY <1>6, <2>2, <2>3 DEF WalkStep
<1>7. ASSUME NEW t \in todo, RecordSocket(t)  PROVE PollOK'
  <2>1. [tuple |-> t.tuple, mine |-> t.mine] \in [tuple : Tuples, mine : BOOLEAN] /\ t.tuple \in Tuples
    OBVIOUS
  <2>2. emitted' \in Seq([tuple : Tuples, mine : BOOLEAN])
    BY <1>7, <2>1, AppendProperties DEF RecordSocket
  <2>3. seen' \subseteq Tuples  BY <1>7, <2>1 DEF RecordSocket, Key
  <2> QED  BY <1>1, <1>7, <2>2, <2>3 DEF RecordSocket
<1>8. ASSUME NEW t \in todo, SkipSocket(t)  PROVE PollOK'
  BY <1>1, <1>8 DEF SkipSocket
<1> QED  BY <1>2, <1>3, <1>4, <1>5, <1>6, <1>7, <1>8, Scans DEF Poller

LEMMA Types == Spec => [](ScopeOK /\ PollOK)
<1>1. Init => ScopeOK /\ PollOK  BY InitScope, InitPoll
<1>2. TreeOK /\ (ScopeOK /\ PollOK) /\ [Next]_vars => (ScopeOK /\ PollOK)'
  BY ScopeStep, PollStep
<1> QED  BY <1>1, <1>2, Tree, PTL DEF Spec

\* Every variable keeps its type; the map of the probes and the queue of the
\* client stay within their bounds, and a walk within MaxDepth.
THEOREM TypeSafety == Spec => []TypeOK
<1>1. TreeOK /\ (ScopeOK /\ PollOK) => TypeOK
  BY DEF TypeOK, TreeOK, ScopeOK, PollOK
<1> QED  BY <1>1, Tree, Types, PTL

-----------------------------------------------------------------------------
(* Connections are recorded once.                                           *)

LEMMA SeenStep == PollOK /\ SeenInv /\ [Next]_vars => SeenInv'
<1> SUFFICES ASSUME PollOK, SeenInv, [Next]_vars  PROVE SeenInv'  OBVIOUS
<1> USE DEF SeenInv, OncePerConnection
<1>1. CASE UNCHANGED <<seen, emitted>>
  BY <1>1
<1>2. ASSUME NEW t \in todo, RecordSocket(t)  PROVE SeenInv'
  <2>1. seen' = seen \cup {t.tuple}  BY <1>2 DEF RecordSocket, Key
  <2>2. CASE emitted' = emitted  BY <2>1, <2>2
  <2>3. CASE t.tuple \notin seen /\ emitted' = Append(emitted, [tuple |-> t.tuple, mine |-> t.mine])
    <3>1. emitted \in Seq([tuple : Tuples, mine : BOOLEAN]) /\ Len(emitted) \in Nat
      BY LenProperties DEF PollOK
    <3>2. /\ DOMAIN emitted' = 1 .. Len(emitted) + 1 /\ DOMAIN emitted = 1 .. Len(emitted)
          /\ \A i \in 1 .. Len(emitted) : emitted'[i] = emitted[i]
          /\ emitted'[Len(emitted) + 1].tuple = t.tuple
      BY <2>3, <3>1, LenProperties
    <3> QED  BY <2>1, <2>3, <3>1, <3>2
  <2> QED  BY <1>2, <2>2, <2>3 DEF RecordSocket, Key
<1>3. CASE Poller /\ ~(\E t \in todo : RecordSocket(t))
  BY <1>1, <1>3
  DEF Poller, Snapshot, SnapshotFails, BeginWalk, SkipSocket, WalkStep, ScanEnds, WakeUp, StopPoller
<1> QED  BY <1>1, <1>2, <1>3, Scans DEF scanVars

\* A connection is recorded once, however many processes hold it and whenever
\* they close it.
THEOREM OnceSafety == Spec => []OncePerConnection
<1>1. Init => SeenInv  BY DEF Init, PollInit, SeenInv, OncePerConnection
<1>2. (ScopeOK /\ PollOK) /\ SeenInv /\ [Next]_vars => SeenInv'  BY SeenStep
<1>3. SeenInv => OncePerConnection  BY DEF SeenInv
<1> QED  BY <1>1, <1>2, <1>3, Types, PTL DEF Spec

-----------------------------------------------------------------------------
(* The eBPF probes.                                                         *)

LEMMA CollectorStays == [Next]_vars => collector' = collector
<1> SUFFICES ASSUME [Next]_vars  PROVE collector' = collector  OBVIOUS
<1>1. CASE Collector
  BY <1>1 DEF Collector, Seed, Announce, StartClient, NoteFork, AdmitExec, StopClient
<1>2. CASE \E p \in Pids : OtherAnnounces(p)
  BY <1>2 DEF OtherAnnounces
<1> QED
  BY <1>1, <1>2, Scopes DEF scopeVars, TryFork, TryExec, Notify, SpawnChild

\* Only a fork adds to the tree.
LEMMA MineSteps ==
    ASSUME [Next]_vars, ~(\E p \in All, c \in Pids : Fork(p, c) \/ SpawnChild(p, c))
    PROVE  /\ mine' \subseteq mine /\ used' = used
           /\ \/ parent' = parent /\ mine' = mine /\ theirs \subseteq theirs'
              \/ \E p \in Pids : ExitProcess(p)
           /\ \/ parent' = parent /\ theirs' = theirs /\ mine' = mine
              \/ UNCHANGED scopeVars
              \/ \E p \in Pids : OtherAnnounces(p)
<1> USE DEF processVars
<1>1. CASE Processes
  BY <1>1 DEF Processes, Exec, Exit, Connect, Disconnect, ExitProcess, Unobserved
<1>2. ASSUME NEW p \in Pids, OtherAnnounces(p)
      PROVE  mine' = mine /\ used' = used /\ parent' = parent /\ theirs \subseteq theirs'
  BY <1>2 DEF OtherAnnounces, StartSession
<1> QED  BY <1>1, <1>2 DEF Next, vars

\* A fork in the tree, where the probes are attached.
LEMMA ForkSteps ==
    ASSUME collector = "ebpf", NEW p \in All, NEW c \in Pids, Fork(p, c)
    PROVE  \/ probes \in {"seeded", "on"} /\ TryFork(p, c)
           \/ probes \notin {"seeded", "on"} /\ UNCHANGED scopeVars
  BY DEF Fork, Unobserved

LEMMA ProbesStep == TreeOK /\ ScopeOK /\ ProbesInv /\ [Next]_vars => ProbesInv'
<1> SUFFICES ASSUME TreeOK, ScopeOK, ProbesInv, [Next]_vars, collector = "ebpf"
             PROVE  ProbesInv'
  BY CollectorStays DEF ProbesInv
<1> USE DEF ProbesInv
<1>1. /\ IsFiniteSet(tracked) /\ Cardinality(tracked) <= MaxTracked /\ messages = <<>>
      /\ mine \subseteq Pids \cup {Root} /\ Root \in mine
      /\ collector' = collector
  BY CollectorStays DEF ScopeOK, ScopeTypeOK, TreeOK, ProcessTypeOK, TreeInv
<1>2. ASSUME NEW p \in All, NEW c \in Pids, Fork(p, c)  PROVE ProbesInv'
  <2>1. /\ p = Root => probes = "on"
        /\ mine' = IF p \in mine THEN mine \cup {c} ELSE mine
    BY <1>2 DEF Fork, Started, ForkProcess
  <2>2. CASE probes \in {"seeded", "on"} /\ TryFork(p, c)
    <3>1. UNCHANGED <<probes, passed>> /\ tracked' = IF p \in tracked THEN Track(c) ELSE tracked
      BY <2>2 DEF TryFork
    <3>2. CASE p \in tracked  BY <1>1, <2>1, <3>1, <3>2, TrackGrows, Names
    <3>3. CASE p \notin tracked  BY <1>1, <2>1, <3>1, <3>3, Names
    <3> QED  BY <3>2, <3>3
  <2>3. CASE probes \notin {"seeded", "on"} /\ UNCHANGED scopeVars
    BY <1>1, <2>1, <2>3 DEF scopeVars
  <2> QED  BY <1>2, <2>2, <2>3, ForkSteps
<1>3. CASE ~(\E p \in All, c \in Pids : Fork(p, c))
  <2>1. mine' \subseteq mine /\ Root \in mine'
    BY <1>3, MineSteps, TreeStep DEF SpawnChild, TreeOK, TreeInv
  <2>2. CASE UNCHANGED scopeVars
    BY <1>1, <2>1, <2>2 DEF scopeVars
  <2>3. CASE Seed
    <3>1. IsFiniteSet({SeedPid}) /\ Cardinality({SeedPid}) = 1 /\ Cardinality({}) = 0
      BY FS_Singleton, FS_EmptySet
    <3>2. tracked = {} /\ Cardinality(tracked) < MaxTracked
      BY <2>3, <3>1, ScopeAssumption DEF Seed
    <3>3. (\A e \in passed : e.whose # "ours") /\ mine = {Root} /\ mine' = {Root}
      BY <1>1, <2>1, <2>3, <3>2 DEF Seed
    <3> QED  BY <2>3, <3>3 DEF Seed
  <2>4. CASE Announce
    BY <1>1, <2>1, <2>4, TrackGrows DEF Announce
  <2>5. CASE StartClient \/ NoteFork \/ AdmitExec \/ StopClient
    BY <1>1, <2>5 DEF StartClient, NoteFork, AdmitExec, StopClient
  <2>6. ASSUME NEW p \in Pids, OtherAnnounces(p)  PROVE ProbesInv'
    BY <1>1, <2>1, <2>6, TrackGrows DEF OtherAnnounces
  <2>7. ASSUME NEW p \in Pids, Probed, TryExec(p)  PROVE ProbesInv'
    <3>1. CASE p \in tracked  BY <1>1, <2>1, <2>7, <3>1 DEF TryExec
    <3>2. CASE p \notin tracked
      <4>1. Cardinality(tracked) < MaxTracked => Seen(p).whose # "ours"
        BY <2>7, <3>2, Names DEF Probed, Seen, Whose
      <4> QED  BY <1>1, <2>1, <2>7, <3>2, <4>1 DEF TryExec
    <3> QED  BY <3>1, <3>2
  <2> QED
    BY <1>3, <2>2, <2>3, <2>4, <2>5, <2>6, <2>7, Scopes DEF Collector, SpawnChild, Heard
<1> QED  BY <1>2, <1>3

LEMMA OwnersStep ==
    ASSUME ReusePids = FALSE, SeedPid \notin All \ {Root}
    PROVE  TreeOK /\ ScopeOK /\ OwnersInv /\ [Next]_vars => OwnersInv'
<1> SUFFICES ASSUME TreeOK, ScopeOK, OwnersInv, [Next]_vars, collector = "ebpf"
             PROVE  OwnersInv'
  BY CollectorStays DEF OwnersInv
<1> USE DEF OwnersInv, IsAlive
<1>1. /\ IsFiniteSet(tracked) /\ Cardinality(tracked) <= MaxTracked /\ messages = <<>>
      /\ Root \in mine /\ collector' = collector /\ \A p \in Pids : IsAlive(p) => p \in used
      /\ parent \in [All -> All \cup {Free}]
  BY CollectorStays DEF ScopeOK, ScopeTypeOK, TreeOK, ProcessTypeOK, TreeInv
<1>2. ASSUME NEW p \in All, NEW c \in Pids, Fork(p, c)  PROVE OwnersInv'
  <2>1. /\ IsAlive(p) /\ c \notin used /\ used' = used \cup {c}
        /\ parent' = [parent EXCEPT ![c] = p]
        /\ mine' = IF p \in mine THEN mine \cup {c} ELSE mine
        /\ theirs' = IF p \in theirs THEN theirs \cup {c} ELSE theirs
    BY <1>2 DEF Fork, ForkProcess
  <2>2. c \notin tracked /\ \A q \in All : q # c => parent'[q] = parent[q]
    BY <1>1, <2>1
  <2>3. p \in tracked => p \in mine \cup theirs
    BY <1>1, <2>1 DEF All
  <2>4. /\ records' = records
        /\ tracked' \subseteq tracked \cup {c} /\ (c \in tracked' => p \in tracked)
    <3>1. CASE TryFork(p, c)  BY <1>1, <2>2, <3>1, TrackGrows DEF TryFork
    <3>2. CASE UNCHANGED scopeVars  BY <2>2, <3>2 DEF scopeVars
    <3> QED  BY <1>2, <3>1, <3>2, ForkSteps
  <2> QED  BY <1>1, <2>1, <2>2, <2>3, <2>4, Names
<1>3. CASE ~(\E p \in All, c \in Pids : Fork(p, c))
  <2>1. /\ used' = used
        /\ \/ parent' = parent /\ mine' = mine /\ theirs \subseteq theirs'
           \/ \E p \in Pids : ExitProcess(p)
        /\ \/ parent' = parent /\ theirs' = theirs /\ mine' = mine
           \/ UNCHANGED scopeVars
           \/ \E p \in Pids : OtherAnnounces(p)
    BY <1>3, MineSteps DEF SpawnChild
  <2>2. ASSUME NEW p \in Pids, ExitProcess(p), UNCHANGED scopeVars  PROVE OwnersInv'
    BY <2>2, Names DEF ExitProcess, scopeVars
  <2>3. ASSUME NEW p \in Pids, OtherAnnounces(p)  PROVE OwnersInv'
    <3>1. tracked' \subseteq tracked \cup {p} /\ records' = records
      BY <1>1, <2>3, TrackGrows DEF OtherAnnounces
    <3>2. /\ IsAlive(p) /\ theirs' = theirs \cup {p} /\ UNCHANGED <<parent, mine, used>>
      BY <2>3 DEF OtherAnnounces, StartSession
    <3> QED  BY <1>1, <3>1, <3>2, Names
  <2>4. CASE UNCHANGED scopeVars /\ ~(\E p \in Pids : ExitProcess(p))
    <3>1. parent' = parent /\ theirs \subseteq theirs' /\ mine' = mine  BY <2>1, <2>4
    <3> QED  BY <2>1, <2>4, <3>1 DEF scopeVars
  <2>5. ASSUME UNCHANGED <<parent, theirs, mine, used>>, ~UNCHANGED scopeVars,
               ~(\E p \in Pids : OtherAnnounces(p))
        PROVE  OwnersInv'
    <3>1. CASE Seed \/ Announce
      <4>1. tracked' \subseteq tracked \cup {SeedPid, Root} /\ records' = records
        BY <1>1, <3>1, TrackGrows DEF Seed, Announce
      <4> QED  BY <1>1, <2>5, <4>1, Names
    <3>2. CASE StartClient \/ NoteFork \/ AdmitExec \/ StopClient
      BY <1>1, <3>2 DEF StartClient, NoteFork, AdmitExec, StopClient
    <3>3. ASSUME NEW p \in Pids, IsAlive(p), TryExec(p)  PROVE OwnersInv'
      <4>1. p \in tracked => Seen(p).whose # "host"  BY <3>3 DEF Seen, Whose
      <4> QED  BY <1>1, <2>5, <3>3, <4>1 DEF TryExec
    <3> QED  BY <1>3, <2>5, <3>1, <3>2, <3>3, Scopes DEF Collector, SpawnChild, Heard
  <2> QED  BY <2>1, <2>2, <2>3, <2>4, <2>5
<1> QED  BY <1>2, <1>3

-----------------------------------------------------------------------------
(* The ids that have ever been in the tree.                                 *)

Grown(ours, p, c) == IF p \in ours THEN ours \cup {c} ELSE ours

LEMMA EverForked ==
    ASSUME ReusePids = FALSE, TreeOK, NEW p \in All, NEW c \in Pids, ForkProcess(p, c),
           NEW ours \in SUBSET All, EverOurs(ours)
    PROVE  /\ EverOurs(Grown(ours, p, c))' /\ (p \in ours <=> p \in mine) /\ c \notin used
           /\ used' = used \cup {c} /\ mine' = IF p \in mine THEN mine \cup {c} ELSE mine
           /\ p \in used \cup {Root, InitPid} /\ Grown(ours, p, c) \in SUBSET All
<1>1. /\ parent' = [parent EXCEPT ![c] = p] /\ parent \in [All -> All \cup {Free}]
      /\ c \notin used /\ used' = used \cup {c} /\ parent[p] # Free
      /\ mine' = IF p \in mine THEN mine \cup {c} ELSE mine
  BY DEF ForkProcess, IsAlive, TreeOK, ProcessTypeOK
<1>2. (p \in ours <=> p \in mine) /\ p \in used \cup {Root, InitPid}
  BY <1>1, Names DEF EverOurs, TreeOK, TreeInv, ProcessTypeOK, IsAlive, All
<1>3. \A q \in Pids : q # c => (IsAlive(q)' <=> IsAlive(q))
  BY <1>1, Names DEF IsAlive
<1>4. c \notin ours  BY <1>1, Names DEF EverOurs
<1>5. EverOurs(Grown(ours, p, c))'
  <2>1. \A q \in Pids : IsAlive(q)' => (q \in Grown(ours, p, c) <=> q \in mine')
    <3> SUFFICES ASSUME NEW q \in Pids, IsAlive(q)'
                 PROVE  q \in Grown(ours, p, c) <=> q \in mine'
      OBVIOUS
    <3>1. CASE q = c
      <4>1. c \notin mine  BY DEF ForkProcess, TreeOK, TreeInv
      <4> QED  BY <1>1, <1>2, <1>4, <3>1, <4>1 DEF Grown
    <3>2. CASE q # c
      <4>1. q \in ours <=> q \in mine  BY <1>3, <3>2 DEF EverOurs
      <4> QED  BY <1>1, <3>2, <4>1 DEF Grown
    <3> QED  BY <3>1, <3>2
  <2>2. /\ Root \in Grown(ours, p, c) /\ InitPid \notin Grown(ours, p, c)
        /\ Grown(ours, p, c) \subseteq used' \cup {Root}
    BY <1>1, Names DEF EverOurs, Grown
  <2> QED  BY <2>1, <2>2 DEF EverOurs
<1> QED  BY <1>1, <1>2, <1>5, Names DEF Grown

LEMMA EverStays ==
    ASSUME TreeOK, [Next]_vars, ~(\E p \in All, c \in Pids : Fork(p, c) \/ SpawnChild(p, c)),
           NEW ours, EverOurs(ours)
    PROVE  EverOurs(ours)' /\ mine' \subseteq mine /\ used' = used
<1>1. /\ mine' \subseteq mine /\ used' = used
      /\ \/ parent' = parent /\ mine' = mine
         \/ \E p \in Pids : ExitProcess(p)
  BY MineSteps
<1>2. ASSUME parent' = parent /\ mine' = mine  PROVE EverOurs(ours)'
  BY <1>1, <1>2 DEF EverOurs, IsAlive
<1>3. ASSUME NEW p \in Pids, ExitProcess(p)  PROVE EverOurs(ours)'
  <2>1. \A q \in Pids : IsAlive(q)' => q # p /\ IsAlive(q)
    BY <1>3, Names DEF ExitProcess, IsAlive
  <2> QED  BY <1>1, <1>3, <2>1 DEF EverOurs, ExitProcess
<1> QED  BY <1>1, <1>2, <1>3

-----------------------------------------------------------------------------
(* The queue of the Endpoint Security client.                               *)

LEMMA QueueAppend ==
    ASSUME NEW q \in Seq(Messages), NEW m \in Messages, NEW ids, NEW given, NEW ours,
           QueueGood(q, ids, given, ours), Truthful(m, ours, given),
           m.pid \in ours => \/ Known(m.pid, Len(q) + 1, q, ids)
                             \/ m.ppid \in ours /\ Known(m.ppid, Len(q) + 1, q, ids)
    PROVE  /\ QueueGood(Append(q, m), ids, given, ours)
           /\ Append(q, m) \in Seq(Messages) /\ Len(Append(q, m)) = Len(q) + 1
           /\ \A x : Known(x, Len(q) + 1, q, ids) \/ x = m.pid =>
                        Known(x, Len(q) + 2, Append(q, m), ids)
<1> DEFINE t == Append(q, m)
<1>1. /\ t \in Seq(Messages) /\ Len(q) \in Nat /\ Len(t) = Len(q) + 1
      /\ DOMAIN q = 1 .. Len(q) /\ DOMAIN t = 1 .. Len(q) + 1
      /\ t[Len(q) + 1] = m /\ \A i \in 1 .. Len(q) : t[i] = q[i]
  BY AppendProperties, LenProperties
<1> HIDE DEF t
<1>2. \A x : \A i \in 1 .. Len(q) + 1 : Known(x, i, q, ids) => Known(x, i, t, ids)
  BY <1>1 DEF Known
<1>3. \A x : Known(x, Len(q) + 1, q, ids) \/ x = m.pid => Known(x, Len(q) + 2, t, ids)
  BY <1>1 DEF Known
<1>4. ASSUME NEW i \in DOMAIN t
      PROVE  /\ Truthful(t[i], ours, given)
             /\ t[i].pid \in ours => \/ Known(t[i].pid, i, t, ids)
                                     \/ t[i].ppid \in ours /\ Known(t[i].ppid, i, t, ids)
  <2>1. CASE i = Len(q) + 1  BY <1>1, <1>2, <2>1
  <2>2. CASE i \in 1 .. Len(q)  BY <1>1, <1>2, <2>2 DEF QueueGood
  <2> QED  BY <1>1, <2>1, <2>2
<1>5. QueueGood(t, ids, given, ours)  BY <1>4 DEF QueueGood
<1> QED  BY <1>1, <1>3, <1>5 DEF t

LEMMA QueueGrows ==
    ASSUME NEW q \in Seq(Messages), NEW ids, NEW given, NEW ours, NEW p, NEW c \in Pids \ given,
           QueueGood(q, ids, given, ours)
    PROVE  QueueGood(q, ids, given \cup {c}, Grown(ours, p, c))
<1>1. \A i \in DOMAIN q : q[i].pid # c /\ q[i].ppid # c
  BY Names DEF QueueGood, Truthful
<1> QED  BY <1>1 DEF QueueGood, Truthful, Grown

LEMMA QueueTake ==
    ASSUME NEW q \in Seq(Messages), q # <<>>, NEW ids, NEW more, NEW given, NEW ours,
           QueueGood(q, ids, given, ours), ids \subseteq more, more \subseteq ours,
           Head(q).pid \in ours => Head(q).pid \in more
    PROVE  /\ QueueGood(Tail(q), more, given, ours)
           /\ \A x \in ours : Known(x, Len(q) + 1, q, ids) => Known(x, Len(q), Tail(q), more)
<1> DEFINE t == Tail(q)
<1>1. /\ Len(q) \in Nat /\ Len(q) > 0 /\ DOMAIN q = 1 .. Len(q) /\ Head(q) = q[1]
      /\ DOMAIN t = 1 .. Len(q) - 1 /\ \A i \in 1 .. Len(q) - 1 : t[i] = q[i + 1]
  BY HeadTailProperties, LenProperties, EmptySeq
<1> HIDE DEF t
<1>2. ASSUME NEW x \in ours, NEW i \in 1 .. Len(q), Known(x, i + 1, q, ids)
      PROVE  Known(x, i, t, more)
  <2>1. CASE x \in ids  BY <2>1 DEF Known
  <2>2. ASSUME NEW j \in DOMAIN q, j < i + 1, q[j].pid = x  PROVE Known(x, i, t, more)
    <3>1. CASE j = 1  BY <1>1, <2>2, <3>1 DEF Known
    <3>2. CASE j # 1
      <4>1. j - 1 \in DOMAIN t /\ t[j - 1] = q[j] /\ j - 1 < i  BY <1>1, <2>2, <3>2
      <4> QED  BY <2>2, <4>1 DEF Known
    <3> QED  BY <3>1, <3>2
  <2> QED  BY <1>2, <2>1, <2>2 DEF Known
<1>3. ASSUME NEW i \in DOMAIN t
      PROVE  /\ Truthful(t[i], ours, given)
             /\ t[i].pid \in ours => \/ Known(t[i].pid, i, t, more)
                                     \/ t[i].ppid \in ours /\ Known(t[i].ppid, i, t, more)
  <2>1. i \in 1 .. Len(q) /\ i + 1 \in DOMAIN q /\ t[i] = q[i + 1]  BY <1>1
  <2>2. /\ Truthful(t[i], ours, given)
        /\ t[i].pid \in ours => \/ Known(t[i].pid, i + 1, q, ids)
                                \/ t[i].ppid \in ours /\ Known(t[i].ppid, i + 1, q, ids)
    BY <2>1 DEF QueueGood
  <2> QED  BY <1>2, <2>1, <2>2
<1>4. QueueGood(t, more, given, ours)  BY <1>3 DEF QueueGood
<1>5. \A x \in ours : Known(x, Len(q) + 1, q, ids) => Known(x, Len(q), t, more)
  BY <1>1, <1>2
<1> QED  BY <1>4, <1>5 DEF t

LEMMA Concats ==
    ASSUME NEW q \in Seq(Messages), NEW m \in Messages
    PROVE  /\ q \o <<m>> = Append(q, m)
           /\ \A n \in Messages : q \o <<m, n>> = Append(Append(q, m), n)
  OBVIOUS

LEMMA QueueFork ==
    ASSUME ReusePids = FALSE, TreeOK, ScopeOK, collector = "es",
           NEW p \in All, NEW c \in Pids, Fork(p, c) \/ SpawnChild(p, c),
           NEW ours \in SUBSET All, EverOurs(ours), QueueInv(ours)
    PROVE  QueueInv(Grown(ours, p, c))'
<1> DEFINE g == Grown(ours, p, c)
<1>1. ForkProcess(p, c)  BY DEF Fork, SpawnChild
<1>2. /\ (p \in ours <=> p \in mine) /\ c \notin used
      /\ used' = used \cup {c} /\ mine' = IF p \in mine THEN mine \cup {c} ELSE mine
      /\ p \in used \cup {Root, InitPid}
  BY <1>1, EverForked
<1>3. /\ p # c /\ c \notin ours /\ (p \in g <=> p \in ours) /\ (c \in g <=> p \in ours)
  BY <1>2, Names DEF EverOurs, Grown
<1>4. messages \in Seq(Messages)  BY DEF ScopeOK
<1>5. QueueGood(messages, tracked, used', g)
  BY <1>2, <1>4, QueueGrows DEF QueueInv
<1>6. /\ (probes = "on" => \A x \in mine : Known(x, Len(messages) + 1, messages, tracked))
      /\ (probes # "on" => messages = <<>>) /\ (probes = "none" => mine = {Root})
      /\ (\A e \in records : e.whose = "ours") /\ (\A e \in passed : e.whose # "ours")
  BY DEF QueueInv
<1>7. PICK m \in Messages : m = ForkMessage(p, c)  BY MessageTypes
<1>8. PICK n \in Messages : n = ExecMessage(c, p, Whose(p))  BY MessageTypes
<1>9. Truthful(m, g, used') /\ m.pid = c /\ m.ppid = p
  BY <1>2, <1>3, <1>7 DEF Truthful, ForkMessage
<1>10. Truthful(n, g, used') /\ n.pid = c /\ n.ppid = p
  BY <1>2, <1>3, <1>8 DEF Truthful, ExecMessage, Whose
<1> HIDE DEF g
<1>11. CASE Heard /\ Notify(<<m>>)
  <2>1. messages' = Append(messages, m) /\ UNCHANGED <<probes, collector, tracked, records, passed>>
    BY <1>4, <1>11, Concats DEF Notify
  <2>2. /\ QueueGood(messages', tracked, used', g) /\ Len(messages') = Len(messages) + 1
        /\ \A x : Known(x, Len(messages) + 1, messages, tracked) \/ x = c =>
                     Known(x, Len(messages) + 2, messages', tracked)
    BY <1>2, <1>3, <1>4, <1>5, <1>6, <1>9, <1>11, <2>1, QueueAppend DEF Heard
  <2>3. Len(messages') + 1 = Len(messages) + 2  BY <1>4, <2>2, LenProperties
  <2>4. \A x \in mine' : Known(x, Len(messages') + 1, messages', tracked)
    BY <1>2, <1>6, <1>11, <2>2, <2>3 DEF Heard
  <2> QED  BY <1>6, <1>11, <2>1, <2>2, <2>4 DEF QueueInv, Heard, g
<1>12. CASE SpawnChild(p, c)
  <2>1. /\ messages' = Append(Append(messages, n), m) /\ probes = "on"
        /\ UNCHANGED <<probes, collector, tracked, records, passed>>
    BY <1>4, <1>7, <1>8, <1>12, Concats DEF Notify, SpawnChild
  <2> DEFINE q == Append(messages, n)
  <2>2. /\ QueueGood(q, tracked, used', g) /\ Len(q) = Len(messages) + 1 /\ q \in Seq(Messages)
        /\ \A x : Known(x, Len(messages) + 1, messages, tracked) \/ x = c =>
                     Known(x, Len(messages) + 2, q, tracked)
    BY <1>2, <1>3, <1>4, <1>5, <1>6, <1>10, <2>1, QueueAppend
  <2>3. Len(q) + 1 = Len(messages) + 2  BY <1>4, <2>2, LenProperties
  <2> HIDE DEF q
  <2>4. \A x \in mine \cup {c} : Known(x, Len(q) + 1, q, tracked)
    BY <1>6, <2>1, <2>2, <2>3
  <2>5. Known(c, Len(q) + 1, q, tracked)  BY <2>4
  <2>6. /\ QueueGood(Append(q, m), tracked, used', g) /\ Len(Append(q, m)) = Len(q) + 1
        /\ \A x : Known(x, Len(q) + 1, q, tracked) \/ x = c =>
                     Known(x, Len(q) + 2, Append(q, m), tracked)
    BY <1>9, <2>2, <2>5, QueueAppend
  <2>7. messages' = Append(q, m)  BY <2>1 DEF q
  <2>8. Len(messages') + 1 = Len(q) + 2  BY <2>2, <2>6, <2>7, LenProperties
  <2>9. \A x \in mine' : Known(x, Len(messages') + 1, messages', tracked)
    BY <1>2, <2>4, <2>6, <2>7, <2>8
  <2> QED  BY <1>6, <2>1, <2>6, <2>7, <2>9 DEF QueueInv, g
<1>13. CASE Fork(p, c) /\ ~Heard
  <2>1. UNCHANGED scopeVars /\ probes # "on" /\ (p = Root => Started)
    BY <1>13 DEF Fork, Heard, Unobserved
  <2>2. probes = "none" => mine' = {Root}  BY <1>2, <1>6, <2>1 DEF Started
  <2> QED  BY <1>5, <1>6, <2>1, <2>2 DEF QueueInv, scopeVars, g
<1>14. CASE Fork(p, c) /\ Heard
  <2>1. Notify(<<m>>)  BY <1>7, <1>14 DEF Fork, Heard
  <2> QED  BY <1>11, <1>14, <2>1
<1> QED  BY <1>12, <1>13, <1>14

LEMMA QueueRest ==
    ASSUME TreeOK, ScopeOK, [Next]_vars, collector = "es",
           ~(\E p \in All, c \in Pids : Fork(p, c) \/ SpawnChild(p, c)),
           NEW ours, EverOurs(ours), QueueInv(ours)
    PROVE  QueueInv(ours)'
<1>1. /\ messages \in Seq(Messages) /\ Len(messages) \in Nat
      /\ QueueGood(messages, tracked, used, ours)
      /\ (probes = "on" => \A x \in mine : Known(x, Len(messages) + 1, messages, tracked))
      /\ (probes # "on" => messages = <<>>) /\ (probes = "none" => mine = {Root})
      /\ (\A e \in records : e.whose = "ours") /\ (\A e \in passed : e.whose # "ours")
  BY LenProperties DEF ScopeOK, QueueInv
<1>2. /\ mine' \subseteq mine /\ used' = used /\ collector' = collector
      /\ probes' = "none" => mine' = {Root} \/ probes # "none"
  BY EverStays, CollectorStays, TreeStep DEF QueueInv, TreeOK, TreeInv
<1>3. CASE UNCHANGED scopeVars
  BY <1>1, <1>2, <1>3 DEF QueueInv, scopeVars
<1>4. CASE StartClient
  <2>1. messages = <<>> /\ messages' = <<>> /\ tracked' = {Root} /\ mine = {Root} /\ probes' = "on"
        /\ UNCHANGED <<records, passed>>
    BY <1>1, <1>4 DEF StartClient
  <2>2. QueueGood(<<>>, {Root}, used, ours)  BY EmptySeq DEF QueueGood, EverOurs
  <2>3. \A x \in {Root} : Known(x, Len(<<>>) + 1, <<>>, {Root})  BY DEF Known
  <2> QED  BY <1>1, <1>2, <2>1, <2>2, <2>3 DEF QueueInv
<1>5. CASE StopClient
  <2>1. messages' = <<>> /\ tracked' = tracked /\ probes' = "off" /\ UNCHANGED <<records, passed>>
    BY <1>5 DEF StopClient
  <2>2. QueueGood(<<>>, tracked, used, ours)  BY <1>1, EmptySeq DEF QueueGood
  <2> QED  BY <1>1, <1>2, <2>1, <2>2 DEF QueueInv
<1>6. CASE NoteFork \/ AdmitExec
  <2> PICK m \in Messages : messages # <<>> /\ m = Head(messages)
    BY <1>1, <1>6, HeadTailProperties DEF NoteFork, AdmitExec
  <2>1. /\ messages' = Tail(messages) /\ probes = "on" /\ probes' = "on"
        /\ tracked' \subseteq tracked \cup {m.pid} /\ tracked \subseteq tracked'
        /\ tracked' # tracked => {m.pid, m.ppid} \cap tracked # {}
    BY <1>6 DEF NoteFork, AdmitExec
  <2>2. 1 \in DOMAIN messages /\ m = messages[1] /\ \A j \in DOMAIN messages : ~(j < 1)
    <3>1. DOMAIN messages = 1 .. Len(messages) /\ Len(messages) > 0 /\ m = messages[1]
      BY <1>1, LenProperties, EmptySeq, HeadTailProperties
    <3> QED  BY <1>1, <3>1
  <2>3. /\ Truthful(m, ours, used) /\ tracked \subseteq ours
        /\ m.pid \in ours => m.pid \in tracked \/ m.ppid \in tracked
    BY <1>1, <2>2 DEF QueueGood, Known
  <2>4. {m.pid, m.ppid} \cap tracked # {} <=> m.pid \in ours
    BY <2>3 DEF Truthful
  <2>5. m.pid \in ours => m.pid \in tracked'
    <3>1. CASE AdmitExec  BY <2>4, <3>1 DEF AdmitExec
    <3>2. CASE NoteFork  BY <2>3, <3>2 DEF NoteFork
    <3> QED  BY <1>6, <3>1, <3>2
  <2>6. tracked' \subseteq ours  BY <2>1, <2>3, <2>4
  <2>7. /\ QueueGood(messages', tracked', used, ours)
        /\ \A x \in ours : Known(x, Len(messages) + 1, messages, tracked) =>
                              Known(x, Len(messages), messages', tracked')
    BY <1>1, <2>1, <2>5, <2>6, QueueTake
  <2>8. Len(messages') + 1 = Len(messages)
    BY <1>1, <2>1, HeadTailProperties, EmptySeq
  <2>9. \A x \in mine' : x \in ours /\ x \in mine
    BY <1>2, Names DEF TreeOK, TreeInv, ProcessTypeOK, EverOurs
  <2>10. \A x \in mine' : Known(x, Len(messages') + 1, messages', tracked')
    BY <1>1, <2>1, <2>7, <2>8, <2>9
  <2>11. (\A e \in records' : e.whose = "ours") /\ (\A e \in passed' : e.whose # "ours")
    <3>1. CASE NoteFork  BY <1>1, <3>1 DEF NoteFork
    <3>2. CASE AdmitExec
      <4>1. m.whose = "ours" <=> m.pid \in ours  BY <2>3, <3>2 DEF AdmitExec, Truthful
      <4> QED  BY <1>1, <2>4, <3>2, <4>1 DEF AdmitExec
    <3> QED  BY <1>6, <3>1, <3>2
  <2> QED  BY <1>2, <2>1, <2>7, <2>10, <2>11 DEF QueueInv
<1>7. ASSUME NEW p \in Pids, IsAlive(p), Heard,
             Notify(<<ExecMessage(p, parent[p], Whose(p))>>)
      PROVE  QueueInv(ours)'
  <2> PICK m \in Messages : m = ExecMessage(p, parent[p], Whose(p))  BY <1>7, MessageTypes, Names
  <2>1. messages' = Append(messages, m) /\ UNCHANGED <<probes, collector, tracked, records, passed>>
    BY <1>1, <1>7, Concats DEF Notify
  <2>2. m.kind = "exec" /\ m.pid = p /\ m.ppid = parent[p] /\ (m.whose = "ours" <=> p \in mine)
    BY DEF ExecMessage, Whose
  <2>3. p \in used /\ (p \in ours <=> p \in mine)  BY <1>7 DEF TreeOK, TreeInv, EverOurs
  <2>4. parent[p] \in used \cup {Root, InitPid} /\ (parent[p] \in ours => parent[p] \in mine)
    <3>1. parent[p] \in All /\ parent[parent[p]] # Free
      BY <1>7, Names DEF TreeOK, TreeInv, ProcessTypeOK, IsAlive
    <3> QED  BY <3>1, Names DEF TreeOK, TreeInv, EverOurs, IsAlive, All
  <2>5. parent[p] \in mine => p \in mine  BY <1>7 DEF TreeOK, TreeInv
  <2>6. Truthful(m, ours, used)  BY <2>2, <2>3, <2>4, <2>5 DEF Truthful
  <2>7. m.pid \in ours => Known(m.pid, Len(messages) + 1, messages, tracked)
    BY <1>1, <1>7, <2>2, <2>3 DEF Heard
  <2>8. /\ QueueGood(messages', tracked, used, ours) /\ Len(messages') = Len(messages) + 1
        /\ \A x : Known(x, Len(messages) + 1, messages, tracked) =>
                     Known(x, Len(messages) + 2, messages', tracked)
    BY <1>1, <2>1, <2>6, <2>7, QueueAppend
  <2>9. Len(messages') + 1 = Len(messages) + 2  BY <1>1, <2>8
  <2> QED  BY <1>1, <1>2, <1>7, <2>1, <2>8, <2>9 DEF QueueInv, Heard
<1>8. CASE Seed \/ Announce \/ (\E p \in Pids : OtherAnnounces(p)) \/ Probed
  BY <1>8 DEF Seed, Announce, OtherAnnounces, Probed
<1> QED  BY <1>3, <1>4, <1>5, <1>6, <1>7, <1>8, Scopes DEF Collector

-----------------------------------------------------------------------------
(* What the poller finds out.                                               *)

LEMMA PollFork ==
    ASSUME ReusePids = FALSE, TreeOK, NEW p \in All, NEW c \in Pids,
           Fork(p, c) \/ SpawnChild(p, c),
           NEW ours \in SUBSET All, EverOurs(ours), PollInv(ours)
    PROVE  PollInv(Grown(ours, p, c))'
<1>1. ForkProcess(p, c) /\ UNCHANGED scanVars  BY DEF Fork, SpawnChild, InheritSockets
<1>2. c \notin used /\ used' = used \cup {c}  BY <1>1, EverForked
<1>3. ours \subseteq Grown(ours, p, c) /\ Grown(ours, p, c) \subseteq ours \cup {c}  BY DEF Grown
<1> QED  BY <1>1, <1>2, <1>3, Names DEF PollInv, scanVars

LEMMA PollRest ==
    ASSUME TreeOK, PollOK, [Next]_vars,
           ~(\E p \in All, c \in Pids : Fork(p, c) \/ SpawnChild(p, c)),
           NEW ours, EverOurs(ours), PollInv(ours)
    PROVE  PollInv(ours)'
<1>1. used' = used  BY EverStays
<1>2. CASE UNCHANGED scanVars
  BY <1>1, <1>2 DEF PollInv, scanVars
<1>3. CASE Snapshot
  <2>1. \A t \in Tuples : \A p \in sockets[t] :
           p \in Pids /\ p \in used /\ (p \in ours <=> p \in mine)
    BY DEF TreeOK, TreeInv, EverOurs
  <2>2. \A s \in todo' : s.holders \subseteq used /\ (s.holders \cap ours # {} => s.mine)
    <3> SUFFICES ASSUME NEW s \in todo'
                 PROVE  s.holders \subseteq used /\ (s.holders \cap ours # {} => s.mine)
      OBVIOUS
    <3> DEFINE Entry(t) == [tuple |-> t, holders |-> sockets[t], mine |-> sockets[t] \cap mine # {}]
    <3>1. todo' = {Entry(t) : t \in {u \in Tuples : sockets[u] # {}}}  BY <1>3 DEF Snapshot
    <3>2. PICK t \in Tuples : s = Entry(t)
      <4> HIDE DEF Entry
      <4> QED  BY <3>1
    <3>3. s.holders = sockets[t]  BY <3>2
    <3>4. s.mine <=> sockets[t] \cap mine # {}  BY <3>2
    <3>5. sockets[t] \subseteq used  BY <2>1
    <3>6. sockets[t] \cap ours # {} => sockets[t] \cap mine # {}  BY <2>1
    <3> QED  BY <3>3, <3>4, <3>5, <3>6
  <2>3. \A p \in Pids : cache'[p] # "in"  BY <1>3, Names DEF Snapshot, Unknown
  <2> QED  BY <1>1, <1>3, <2>2, <2>3 DEF Snapshot, PollInv
<1>4. CASE SnapshotFails \/ ScanEnds \/ WakeUp \/ StopPoller
  BY <1>1, <1>4 DEF SnapshotFails, ScanEnds, WakeUp, StopPoller, PollInv
<1>5. ASSUME NEW t \in todo, NEW p \in t.holders, BeginWalk(t, p)  PROVE PollInv(ours)'
  <2>1. p \in used  BY DEF PollInv
  <2>2. walk' = [from |-> p, at |-> p, depth |-> 0] /\ UNCHANGED <<todo, cache, emitted>>
    BY <1>5 DEF BeginWalk
  <2> QED  BY <1>1, <2>1, <2>2 DEF PollInv
<1>6. CASE WalkStep
  <2>1. /\ walk \in [from : Pids, at : All, depth : 0 .. MaxDepth] /\ walk.from \in used
        /\ walk.at \in ours => walk.from \in ours
        /\ UNCHANGED <<todo, emitted>>
    BY <1>6 DEF WalkStep, PollOK, PollTypeOK, PollInv
  <2>2. CASE /\ walk' = [walk EXCEPT !.at = parent[walk.at], !.depth = @ + 1] /\ cache' = cache
             /\ walk.at \notin {Root, InitPid} /\ parent[walk.at] # Free
    <3>1. walk.at \in Pids /\ IsAlive(walk.at)  BY <2>1, <2>2 DEF All, IsAlive
    <3>2. parent[walk.at] \in All /\ parent[parent[walk.at]] # Free
      BY <3>1, Names DEF TreeOK, TreeInv, ProcessTypeOK, IsAlive
    <3>3. /\ parent[walk.at] \in used \cup {Root, InitPid}
          /\ parent[walk.at] \in ours => parent[walk.at] \in mine
      BY <3>2, Names DEF TreeOK, TreeInv, EverOurs, IsAlive, All
    <3>4. parent[walk.at] \in ours => walk.at \in ours
      BY <3>1, <3>3 DEF TreeOK, TreeInv, EverOurs
    <3>5. walk'.at = parent[walk.at] /\ walk'.from = walk.from  BY <2>1, <2>2
    <3> QED  BY <1>1, <2>1, <2>2, <3>3, <3>4, <3>5 DEF PollInv
  <2>3. CASE /\ walk' = NoWalk
             /\ cache' = [cache EXCEPT ![walk.from] =
                             IF walk.depth < MaxDepth /\ walk.at = Root THEN "in" ELSE "out"]
    <3>1. walk.at = Root => walk.from \in ours  BY <2>1 DEF EverOurs
    <3>2. cache \in [All -> {"unknown", "in", "out"}]  BY DEF PollOK, PollTypeOK
    <3>3. \A p \in Pids : cache'[p] = "in" => p \in ours
      BY <2>3, <3>1, <3>2, Names DEF PollInv
    <3> QED  BY <1>1, <2>1, <2>3, <3>3 DEF PollInv
  <2> QED  BY <1>6, <2>2, <2>3 DEF WalkStep
<1>7. ASSUME NEW t \in todo, RecordSocket(t)  PROVE PollInv(ours)'
  <2>1. t \in [tuple : Tuples, holders : SUBSET Pids, mine : BOOLEAN]
    BY DEF PollOK, PollTypeOK
  <2>2. t.mine = TRUE
    <3>1. PICK p \in t.holders : cache[p] = "in"  BY <1>7 DEF RecordSocket
    <3>2. p \in t.holders \cap ours  BY <2>1, <3>1 DEF PollInv
    <3> QED  BY <2>1, <3>2 DEF PollInv
  <2> DEFINE e == [tuple |-> t.tuple, mine |-> t.mine]
  <2>3. /\ emitted \in Seq([tuple : Tuples, mine : BOOLEAN])
        /\ e \in [tuple : Tuples, mine : BOOLEAN] /\ e.mine = TRUE
    BY <2>1, <2>2 DEF PollOK
  <2> HIDE DEF e
  <2>4. \A i \in DOMAIN Append(emitted, e) :
           Append(emitted, e)[i] = e \/ (i \in DOMAIN emitted /\ Append(emitted, e)[i] = emitted[i])
    BY <2>3, AppendProperties, LenProperties
  <2>5. emitted' = emitted \/ emitted' = Append(emitted, e)  BY <1>7 DEF RecordSocket, e
  <2>6. \A i \in DOMAIN emitted' : emitted'[i].mine = TRUE
    BY <2>3, <2>4, <2>5 DEF PollInv
  <2> QED  BY <1>1, <1>7, <2>6 DEF PollInv, RecordSocket
<1>8. ASSUME NEW t \in todo, SkipSocket(t)  PROVE PollInv(ours)'
  BY <1>1, <1>8 DEF SkipSocket, PollInv
<1> QED  BY <1>2, <1>3, <1>4, <1>5, <1>6, <1>7, <1>8, Scans DEF Poller

-----------------------------------------------------------------------------
(* What is recorded.                                                        *)

LEMMA OursStep ==
    ASSUME ReusePids = FALSE
    PROVE  TreeOK /\ ScopeOK /\ PollOK /\ OursInv /\ [Next]_vars => OursInv'
<1> SUFFICES ASSUME TreeOK, ScopeOK, PollOK, OursInv, [Next]_vars  PROVE OursInv'
  OBVIOUS
<1> PICK ours \in SUBSET All : EverOurs(ours) /\ QueueInv(ours) /\ PollInv(ours)
  BY DEF OursInv
<1>1. collector' = collector  BY CollectorStays
<1>2. ASSUME NEW p \in All, NEW c \in Pids, Fork(p, c) \/ SpawnChild(p, c)
      PROVE  OursInv'
  <2>1. EverOurs(Grown(ours, p, c))' /\ Grown(ours, p, c) \in SUBSET All
    BY <1>2, EverForked DEF Fork, SpawnChild
  <2>2. PollInv(Grown(ours, p, c))'  BY <1>2, PollFork
  <2>3. QueueInv(Grown(ours, p, c))'
    <3>1. CASE collector = "es"  BY <1>2, <3>1, QueueFork
    <3>2. CASE collector # "es"  BY <1>1, <3>2 DEF QueueInv
    <3> QED  BY <3>1, <3>2
  <2> QED  BY <2>1, <2>2, <2>3, Names DEF OursInv, All
<1>3. CASE ~(\E p \in All, c \in Pids : Fork(p, c) \/ SpawnChild(p, c))
  <2>1. EverOurs(ours)'  BY <1>3, EverStays
  <2>2. PollInv(ours)'  BY <1>3, PollRest
  <2>3. QueueInv(ours)'
    <3>1. CASE collector = "es"  BY <1>3, <3>1, QueueRest
    <3>2. CASE collector # "es"  BY <1>1, <3>2 DEF QueueInv
    <3> QED  BY <3>1, <3>2
  <2> QED  BY <2>1, <2>2, <2>3 DEF OursInv, All
<1> QED  BY <1>2, <1>3

LEMMA InitOurs == Init => OursInv
<1> SUFFICES ASSUME Init  PROVE OursInv  OBVIOUS
<1>1. EverOurs({Root})  BY Names DEF Init, ProcessInit, EverOurs, IsAlive
<1>2. QueueInv({Root})
  BY EmptySeq DEF Init, ScopeInit, ProcessInit, QueueInv, QueueGood
<1>3. PollInv({Root})  BY Names, EmptySeq DEF Init, PollInit, PollInv, Unknown
<1> QED  BY <1>1, <1>2, <1>3, Names DEF OursInv

LEMMA Ours ==
    ASSUME ReusePids = FALSE
    PROVE  Spec => []OursInv
<1>1. TreeOK /\ (ScopeOK /\ PollOK) /\ OursInv /\ [Next]_vars => OursInv'
  BY OursStep
<1> QED  BY <1>1, InitOurs, Tree, Types, PTL DEF Spec

LEMMA Probes == Spec => []ProbesInv
<1>1. Init => ProbesInv
  <2>1. Cardinality({}) = 0  BY FS_EmptySet
  <2> QED  BY <2>1 DEF Init, ScopeInit, ProcessInit, ProbesInv
<1>2. TreeOK /\ (ScopeOK /\ PollOK) /\ ProbesInv /\ [Next]_vars => ProbesInv'
  BY ProbesStep
<1> QED  BY <1>1, <1>2, Tree, Types, PTL DEF Spec

\* Nothing of the machine is recorded but the trees that snitchits started: not
\* late, when the processes have ended and been adopted by process 1, nor when
\* messages come out of order.  Of the ids it is assumed that each is given once
\* and that the one seeded is snitchit's, or no process's (in a container).
THEOREM OnlyTreesSafety ==
    ASSUME ReusePids = FALSE, SeedPid \notin All \ {Root}
    PROVE  Spec => []OnlyRecordedTrees
<1>1. Init => OwnersInv  BY DEF Init, ScopeInit, OwnersInv
<1>2. TreeOK /\ (ScopeOK /\ PollOK) /\ OwnersInv /\ [Next]_vars => OwnersInv'
  BY OwnersStep
<1>3. ScopeOK /\ PollOK /\ OwnersInv /\ OursInv => OnlyRecordedTrees
  <2> SUFFICES ASSUME ScopeOK, OwnersInv, OursInv  PROVE OnlyRecordedTrees  OBVIOUS
  <2> PICK ours \in SUBSET All : EverOurs(ours) /\ QueueInv(ours) /\ PollInv(ours)
    BY DEF OursInv
  <2>1. \A e \in records : e.whose \in Owners  BY DEF ScopeOK
  <2>2. \A i \in DOMAIN emitted : emitted[i].mine  BY DEF PollInv
  <2>3. \A e \in records : e.whose = "ours" \/ (collector = "ebpf" /\ e.whose = "theirs")
    BY <2>1 DEF ScopeOK, ScopeTypeOK, Owners, OwnersInv, QueueInv
  <2> QED  BY <2>2, <2>3 DEF OnlyRecordedTrees
<1> QED  BY <1>1, <1>2, <1>3, Ours, Tree, Types, PTL DEF Spec

\* No exec of the tree that a collector was asked about is passed over: not by a
\* process that lost its parents, and not when its exec is announced before its
\* fork; with the probes, as long as their map has room.
THEOREM EveryExecSafety ==
    ASSUME ReusePids = FALSE
    PROVE  Spec => []EveryExec
<1>1. ScopeOK /\ PollOK /\ ProbesInv /\ OursInv => EveryExec
  <2> SUFFICES ASSUME ScopeOK, ProbesInv, OursInv  PROVE EveryExec  OBVIOUS
  <2> PICK ours \in SUBSET All : EverOurs(ours) /\ QueueInv(ours) /\ PollInv(ours)
    BY DEF OursInv
  <2> QED  BY DEF EveryExec, ScopeOK, ScopeTypeOK, ProbesInv, QueueInv
<1> QED  BY <1>1, Ours, Probes, Types, PTL

-----------------------------------------------------------------------------
(* The last scan.                                                           *)

\* f is the way from f[0] up its parents to snitchit, in k steps.
PathIn(par, f, k) ==
    /\ k \in 0 .. MaxDepth - 1 /\ f[k] = Root
    /\ \A i \in 0 .. k - 1 : f[i] \in Pids /\ f[i + 1] = par[f[i]]
IsPath(f, k) == PathIn(parent, f, k)

\* A walk goes along the path of the process it began at, if that has one; who
\* was found not to be in the tree has none; and while the last scan runs, who
\* holds a connection that is neither late nor recorded has its path through a
\* process that the scan has still to look at.
WalkInv ==
    walk # NoWalk =>
        /\ walk.from \in used
        /\ \A f, k : IsPath(f, k) /\ f[0] = walk.from => walk.depth <= k /\ walk.at = f[walk.depth]
OutInv == \A p \in Pids :
    cache[p] = "out" => p \in used /\ \A f, k : IsPath(f, k) => f[0] # p
TodoInv == \A s \in todo : s.holders \subseteq used
ToldInv ==
    /\ poll \in {"final", "last scan", "done"} => told
    /\ poll = "done" => todo = {}
Emitted(t) == \E i \in DOMAIN emitted : emitted[i].tuple = t
Awaited(t, f, k) == \E s \in todo : s.tuple = t /\ \E n \in 0 .. k : f[n] \in s.holders
HoldInv ==
    poll \in {"last scan", "done"} =>
        \A t \in Tuples \ late : \A p \in sockets[t] : \A f, k :
            IsPath(f, k) /\ f[0] = p => Emitted(t) \/ Awaited(t, f, k)
KeysInv == \A t \in seen : Emitted(t)

CatchInv == WalkInv /\ OutInv /\ TodoInv /\ ToldInv /\ HoldInv /\ KeysInv

\* The parents of p, as LeadsToRoot defines them, for m of them.
Above(q) == IF q \in {Root, InitPid, Free} THEN q ELSE parent[q]
IsUp(f, p, m) == f = [n \in 0 .. m |-> IF n = 0 THEN p ELSE Above(f[n - 1])]

LEMMA UpExists ==
    ASSUME NEW p, NEW m \in Nat
    PROVE  \E f : IsUp(f, p, m)
<1> DEFINE T == {n \in Nat : ~(\E f : IsUp(f, p, n))}
<1>1. SUFFICES ASSUME T # {}  PROVE FALSE  OBVIOUS
<1>2. T \in SUBSET Nat  OBVIOUS
<1> HIDE DEF T
<1>3. PICK k \in T : \A j \in T : k <= j  BY <1>1, <1>2, Least
<1>4. k \in Nat /\ ~(\E f : IsUp(f, p, k))  BY DEF T
<1>5. CASE k = 0
  <2> DEFINE g == [n \in 0 .. 0 |-> p]
  <2>1. g = [n \in 0 .. 0 |-> IF n = 0 THEN p ELSE Above(g[n - 1])]  OBVIOUS
  <2> HIDE DEF g
  <2>2. IsUp(g, p, k)  BY <1>5, <2>1 DEF IsUp
  <2> QED  BY <1>4, <2>2
<1>6. CASE k # 0
  <2>1. k - 1 \in Nat /\ k - 1 \notin T  BY <1>3, <1>4, <1>6
  <2>2. PICK f : IsUp(f, p, k - 1)  BY <2>1 DEF T
  <2>3. /\ \A n \in 0 .. k - 1 : f[n] = IF n = 0 THEN p ELSE Above(f[n - 1])  BY <2>2 DEF IsUp
  <2> DEFINE g == [n \in 0 .. k |-> IF n = k THEN Above(f[k - 1]) ELSE f[n]]
             h == [n \in 0 .. k |-> IF n = 0 THEN p ELSE Above(g[n - 1])]
  <2>4. \A n \in 0 .. k : g[n] = IF n = k THEN Above(f[k - 1]) ELSE f[n]  OBVIOUS
  <2>5. \A n \in 0 .. k : h[n] = IF n = 0 THEN p ELSE Above(g[n - 1])  OBVIOUS
  <2>6. DOMAIN g = 0 .. k /\ DOMAIN h = 0 .. k
        /\ g = [n \in DOMAIN g |-> g[n]] /\ h = [n \in DOMAIN h |-> h[n]]
    OBVIOUS
  <2> HIDE DEF g, h
  <2>7. ASSUME NEW n \in 0 .. k  PROVE g[n] = h[n]
    <3>1. CASE n = 0  BY <1>4, <1>6, <2>3, <2>4, <2>5, <3>1
    <3>2. CASE n # 0
      <4>1. n - 1 \in 0 .. k /\ n - 1 # k  BY <1>4, <3>2
      <4>2. g[n - 1] = f[n - 1]  BY <2>4, <4>1
      <4>3. h[n] = Above(f[n - 1])  BY <2>5, <3>2, <4>2
      <4>4. CASE n = k  BY <2>4, <4>3, <4>4
      <4>5. CASE n # k
        <5>1. n \in 0 .. k - 1  BY <1>4, <4>5
        <5> QED  BY <2>3, <2>4, <3>2, <4>3, <4>5, <5>1
      <4> QED  BY <4>4, <4>5
    <3> QED  BY <3>1, <3>2
  <2>8. g = h  BY <2>6, <2>7
  <2>9. IsUp(g, p, k)  BY <2>8 DEF IsUp, h
  <2> QED  BY <1>4, <2>9
<1> QED  BY <1>5, <1>6

LEMMA LeadsAlongPath ==
    ASSUME ProcessTypeOK, NEW p \in Pids, LeadsToRoot(p)
    PROVE  \E f, k : IsPath(f, k) /\ f[0] = p
<1> DEFINE m == MaxDepth - 1
           up == CHOOSE f : f = [n \in 0 .. m |->
                    IF n = 0 THEN p
                    ELSE IF f[n - 1] \in {Root, InitPid, Free} THEN f[n - 1] ELSE parent[f[n - 1]]]
<1>1. m \in Nat  BY PollAssumption
<1>2. up[m] = Root  BY DEF LeadsToRoot
<1>3. up = [n \in 0 .. m |->
              IF n = 0 THEN p
              ELSE IF up[n - 1] \in {Root, InitPid, Free} THEN up[n - 1] ELSE parent[up[n - 1]]]
  <2>1. PICK f : IsUp(f, p, m)  BY <1>1, UpExists
  <2>2. f = [n \in 0 .. m |->
              IF n = 0 THEN p
              ELSE IF f[n - 1] \in {Root, InitPid, Free} THEN f[n - 1] ELSE parent[f[n - 1]]]
    BY <2>1 DEF IsUp, Above
  <2> QED  BY <2>2
<1> HIDE DEF up, m
<1>4. \A n \in 0 .. m : up[n] = IF n = 0 THEN p
        ELSE IF up[n - 1] \in {Root, InitPid, Free} THEN up[n - 1] ELSE parent[up[n - 1]]
  BY <1>3
<1> DEFINE ends == {n \in 0 .. m : up[n] = Root}
<1>5. ends \in SUBSET Nat /\ m \in ends  BY <1>1, <1>2
<1> HIDE DEF ends
<1>6. PICK k \in ends : \A j \in ends : k <= j  BY <1>5, Least
<1>7. k \in 0 .. m /\ up[k] = Root  BY DEF ends
<1>8. ASSUME NEW i \in 0 .. k - 1  PROVE up[i] # Root
  <2>1. i \notin ends /\ i \in 0 .. m  BY <1>1, <1>5, <1>6, <1>7
  <2> QED  BY <2>1 DEF ends
\* The way does not pass what it would not leave.
<1>9. ASSUME NEW i \in 0 .. k - 1  PROVE up[i] \notin {InitPid, Free}
  <2> SUFFICES ASSUME up[i] \in {InitPid, Free}  PROVE FALSE  OBVIOUS
  <2> DEFINE T == {n \in i .. m : up[n] # up[i]}
  <2>1. i \in 0 .. m  BY <1>1, <1>7
  <2>2. m \in T  BY <1>1, <1>2, <2>1, Names
  <2>3. T \in SUBSET Nat  BY <1>1, <2>1
  <2> HIDE DEF T
  <2>4. PICK j \in T : \A n \in T : j <= n  BY <2>2, <2>3, Least
  <2>5. j \in i .. m /\ up[j] # up[i]  BY DEF T
  <2>6. j - 1 \in i .. m /\ j \in 0 .. m /\ j # 0  BY <1>1, <2>1, <2>5
  <2>7. j - 1 \notin T  BY <2>3, <2>4
  <2>8. up[j - 1] = up[i]  BY <2>6, <2>7 DEF T
  <2> QED  BY <1>4, <2>5, <2>6, <2>8
<1>10. ASSUME NEW n \in 0 .. k  PROVE up[n] \in All \cup {Free}
  <2> DEFINE T == {j \in 0 .. k : up[j] \notin All \cup {Free}}
  <2>1. SUFFICES ASSUME T # {}  PROVE FALSE  OBVIOUS
  <2>2. T \in SUBSET Nat  BY <1>1, <1>7
  <2> HIDE DEF T
  <2>3. PICK j \in T : \A i \in T : j <= i  BY <2>1, <2>2, Least
  <2>4. j \in 0 .. k /\ up[j] \notin All \cup {Free}  BY DEF T
  <2>5. 0 \in 0 .. m /\ p \in All  BY <1>1, Names
  <2>6. j # 0  BY <1>4, <2>4, <2>5
  <2>7. j \in 0 .. m /\ j - 1 \in 0 .. k /\ j - 1 \notin T  BY <1>1, <1>7, <2>2, <2>3, <2>4, <2>6
  <2>8. up[j - 1] \in All \cup {Free}  BY <2>7 DEF T
  <2>9. up[j] = up[j - 1] \/ (up[j - 1] \in All /\ up[j] = parent[up[j - 1]])
    BY <1>4, <2>6, <2>7, <2>8
  <2> QED  BY <2>4, <2>8, <2>9 DEF ProcessTypeOK
<1>11. ASSUME NEW i \in 0 .. k - 1  PROVE up[i] \in Pids /\ up[i + 1] = parent[up[i]]
  <2>1. i \in 0 .. k /\ i + 1 \in 0 .. m /\ i + 1 # 0 /\ (i + 1) - 1 = i  BY <1>1, <1>7
  <2>2. up[i] \in Pids  BY <1>8, <1>9, <1>10, <2>1 DEF All
  <2>3. up[i] \notin {Root, InitPid, Free}  BY <1>8, <1>9
  <2>4. up[i + 1] = IF up[i] \in {Root, InitPid, Free} THEN up[i] ELSE parent[up[i]]
    BY <1>4, <2>1
  <2> QED  BY <2>2, <2>3, <2>4
<1>12. IsPath(up, k)  BY <1>7, <1>11 DEF IsPath, PathIn, m
<1>13. up[0] = p  BY <1>1, <1>4
<1> QED  BY <1>12, <1>13

\* Only what is opened after the signal becomes late.
LEMMA LateStep ==
    ASSUME [Next]_vars
    PROVE  late' = late \/ \E p \in Pids, t \in Tuples : OpenSocket(p, t)
<1> USE DEF socketVars
<1>1. CASE Processes
  BY <1>1
  DEF Processes, Fork, SpawnChild, Exec, Exit, Connect, Disconnect, InheritSockets, DropSockets,
      CloseSocket
<1>2. CASE Poller /\ UNCHANGED <<processVars, scopeVars>>
  BY <1>2
  DEF Poller, Snapshot, SnapshotFails, BeginWalk, RecordSocket, SkipSocket, WalkStep, ScanEnds,
      WakeUp, StopPoller
<1> QED  BY <1>1, <1>2 DEF Next, vars

\* What a path under the parents before a step is after one that began at a
\* process which was there: the parents along it were the same.
LEMMA PathWas ==
    ASSUME ReusePids = FALSE, TreeOK, TreeOK', [Next]_vars, NEW f, NEW k, IsPath(f, k)',
           f[0] \in used \cup {Root}
    PROVE  IsPath(f, k)
<1> USE Names DEF TreeOK, ProcessTypeOK, TreeInv, IsAlive
<1>1. /\ k \in 0 .. MaxDepth - 1 /\ f[k] = Root
      /\ \A i \in 0 .. k - 1 : f[i] \in Pids /\ f[i + 1] = parent'[f[i]]
  BY DEF IsPath, PathIn
<1>2. \A i \in 0 .. k - 1 : f[i + 1] \notin {InitPid, Free}
  <2> SUFFICES ASSUME NEW i \in 0 .. k - 1  PROVE f[i + 1] \notin {InitPid, Free}  OBVIOUS
  <2>1. k \in Nat /\ i + 1 \in 0 .. k  BY <1>1, PollAssumption
  <2>2. i + 1 = k \/ i + 1 \in 0 .. k - 1  BY <2>1
  <2> QED  BY <1>1, <2>2
<1>3. SUFFICES ASSUME NEW i \in 0 .. k - 1  PROVE parent[f[i]] = parent'[f[i]]
  BY <1>1 DEF IsPath, PathIn
<1>4. f[i] \in Pids /\ parent'[f[i]] \notin {InitPid, Free}  BY <1>1, <1>2
<1>5. CASE UNCHANGED parent  BY <1>5
<1>6. ASSUME NEW q \in All, NEW c \in Pids, ForkProcess(q, c)
      PROVE  parent[f[i]] = parent'[f[i]]
  <2>1. /\ parent' = [parent EXCEPT ![c] = q] /\ parent[q] # Free /\ parent[c] = Free
        /\ c \notin used
    BY <1>6 DEF ForkProcess
  <2>2. SUFFICES ASSUME f[i] = c  PROVE FALSE  BY <1>4, <2>1
  \* No process has the new one for its parent, and the path did not begin there.
  <2>3. i # 0  BY <2>1, <2>2
  <2>4. i - 1 \in 0 .. k - 1 /\ (i - 1) + 1 = i  BY <1>1, <2>3, PollAssumption
  <2>5. f[i - 1] \in Pids /\ parent'[f[i - 1]] = c  BY <1>1, <2>2, <2>4
  <2>6. c # q  BY <2>1
  <2>7. f[i - 1] # c /\ parent[f[i - 1]] = c  BY <2>1, <2>5, <2>6
  <2>8. f[i - 1] \in All /\ c # Free  BY <2>5
  <2>9. parent[c] # Free  BY <2>7, <2>8
  <2> QED  BY <2>1, <2>9
<1>7. ASSUME NEW q \in Pids, ExitProcess(q)  PROVE parent[f[i]] = parent'[f[i]]
  <2>1. parent'[f[i]] = IF f[i] = q THEN Free ELSE IF parent[f[i]] = q THEN InitPid ELSE parent[f[i]]
    BY <1>4, <1>7 DEF ExitProcess
  <2> QED  BY <1>4, <2>1
<1>8. ASSUME NEW q \in Pids, StartSession(q)  PROVE parent[f[i]] = parent'[f[i]]
  BY <1>8 DEF StartSession
<1> QED  BY <1>5, <1>6, <1>7, <1>8, Births DEF processVars

\* The rest of a path, from place n on.
LEMMA PathRest ==
    ASSUME NEW par, NEW f, NEW k, PathIn(par, f, k), NEW n \in 0 .. k
    PROVE  PathIn(par, [i \in 0 .. k - n |-> f[i + n]], k - n)
<1> DEFINE g == [i \in 0 .. k - n |-> f[i + n]]
<1>1. k \in 0 .. MaxDepth - 1 /\ k \in Nat /\ MaxDepth \in Nat
  BY PollAssumption DEF PathIn
<1>2. \A i \in 0 .. k - n : g[i] = f[i + n]  OBVIOUS
<1> HIDE DEF g
<1>3. k - n \in 0 .. MaxDepth - 1 /\ k - n \in 0 .. k - n /\ (k - n) + n = k  BY <1>1
<1>4. g[k - n] = Root  BY <1>2, <1>3 DEF PathIn
<1>5. ASSUME NEW i \in 0 .. (k - n) - 1  PROVE g[i] \in Pids /\ g[i + 1] = par[g[i]]
  <2>1. i \in 0 .. k - n /\ i + 1 \in 0 .. k - n /\ i + n \in 0 .. k - 1
        /\ (i + 1) + n = (i + n) + 1
    BY <1>1
  <2> QED  BY <1>2, <2>1 DEF PathIn
<1>6. PathIn(par, g, k - n)  BY <1>3, <1>4, <1>5 DEF PathIn
<1> QED  BY <1>6 DEF g

LEMMA PathAlive ==
    ASSUME TreeOK, NEW f, NEW k, IsPath(f, k), f[0] \in Pids
    PROVE  IsAlive(f[0]) /\ k # 0
<1>1. k # 0  BY Names DEF IsPath, PathIn
<1>2. 0 \in 0 .. k - 1  BY <1>1, PollAssumption DEF IsPath, PathIn
<1>3. f[1] = parent[f[0]]  BY <1>2 DEF IsPath, PathIn
<1>4. f[1] \in Pids \/ f[1] = Root
  <2>1. CASE k = 1  BY <2>1 DEF IsPath, PathIn
  <2>2. CASE k # 1
    <3>1. 1 \in 0 .. k - 1  BY <1>1, <2>2, PollAssumption DEF IsPath, PathIn
    <3> QED  BY <3>1 DEF IsPath, PathIn
  <2> QED  BY <2>1, <2>2
<1> QED  BY <1>1, <1>3, <1>4, Names DEF IsAlive

LEMMA InitCatch == Init => CatchInv
<1> SUFFICES ASSUME Init  PROVE CatchInv  OBVIOUS
<1>1. cache = [p \in All |-> "unknown"] /\ walk = NoWalk /\ todo = {} /\ seen = {}
      /\ poll \in {"idle", "off"}
  BY DEF Init, PollInit, Unknown
<1> QED
  BY <1>1, Names DEF CatchInv, WalkInv, OutInv, TodoInv, ToldInv, HoldInv, KeysInv

\* Processes and sockets change, and the poller does not.
LEMMA CatchProcesses ==
    ASSUME ReusePids = FALSE, TreeOK, TreeOK', PollOK, CatchInv, [Next]_vars, UNCHANGED scanVars
    PROVE  CatchInv'
<1> USE DEF scanVars
<1>1. used \subseteq used'
  BY Births DEF ForkProcess, ExitProcess, StartSession, processVars
<1>2. ASSUME NEW f, NEW k, IsPath(f, k)', f[0] \in used \cup {Root}  PROVE IsPath(f, k)
  BY <1>2, PathWas
<1>3. WalkInv'
  BY <1>1, <1>2 DEF CatchInv, WalkInv
<1>4. OutInv'
  BY <1>1, <1>2 DEF CatchInv, OutInv
<1>5. TodoInv'
  BY <1>1 DEF CatchInv, TodoInv
<1>6. ToldInv' /\ KeysInv'
  BY DEF CatchInv, ToldInv, KeysInv, Emitted
<1>7. HoldInv'
  <2> SUFFICES ASSUME poll \in {"last scan", "done"},
                      NEW t \in Tuples, t \notin late', NEW p \in sockets'[t],
                      NEW f, NEW k, IsPath(f, k)', f[0] = p
               PROVE  (Emitted(t) \/ Awaited(t, f, k))'
    BY DEF HoldInv
  <2>1. told  BY DEF CatchInv, ToldInv
  <2>2. Emitted(t)' = Emitted(t) /\ Awaited(t, f, k)' = Awaited(t, f, k)
    BY DEF Emitted, Awaited
  <2>3. ASSUME p \in sockets[t], t \notin late  PROVE Emitted(t) \/ Awaited(t, f, k)
    <3>1. p \in used  BY <2>3 DEF TreeOK, TreeInv
    <3>2. IsPath(f, k)  BY <1>2, <3>1
    <3> QED  BY <2>3, <3>2 DEF CatchInv, HoldInv
  <2>4. CASE UNCHANGED <<sockets, late>>  BY <2>2, <2>3, <2>4
  <2>5. ASSUME NEW q \in All, NEW c \in Pids, ForkProcess(q, c), InheritSockets(q, c)
        PROVE  (Emitted(t) \/ Awaited(t, f, k))'
    <3>1. late' = late /\ sockets'[t] = IF q \in sockets[t] THEN sockets[t] \cup {c} ELSE sockets[t]
      BY <2>5 DEF InheritSockets
    <3>2. CASE p \in sockets[t]  BY <2>2, <2>3, <3>1, <3>2
    <3>3. CASE p = c /\ q \in sockets[t]
      <4>1. parent'[c] = q /\ q \in Pids
        BY <2>5, <3>3, Names DEF ForkProcess, TreeOK, ProcessTypeOK
      <4>2. k # 0  BY <3>3, PathAlive, Names DEF IsPath, PathIn
      <4>3. /\ k \in Nat /\ 1 \in 0 .. k /\ 0 \in 0 .. k - 1
        <5>1. k \in 0 .. MaxDepth - 1  BY DEF IsPath, PathIn
        <5> QED  BY ONLY <4>2, <5>1, PollAssumption
      <4>4. f[1] = q
        <5>1. f[0 + 1] = parent'[f[0]]  BY <4>3 DEF IsPath, PathIn
        <5>2. f[0] = c  BY <3>3
        <5>3. f[0 + 1] = q  BY ONLY <4>1, <5>1, <5>2
        <5> QED  BY ONLY <5>3
      <4> DEFINE g == [i \in 0 .. k - 1 |-> f[i + 1]]
      <4>5. IsPath(g, k - 1)'
        <5>1. PathIn(parent', f, k)  BY DEF IsPath
        <5>2. PathIn(parent', g, k - 1)  BY ONLY <4>3, <5>1, PathRest
        <5> QED  BY <5>2 DEF IsPath
      <4>6. g[0] = q /\ \A n \in 0 .. k - 1 : g[n] = f[n + 1]
        <5>1. \A n \in 0 .. k - 1 : g[n] = f[n + 1]  OBVIOUS
        <5>2. g[0] = f[0 + 1]  BY ONLY <4>3, <5>1
        <5> QED  BY ONLY <4>4, <5>1, <5>2
      <4> HIDE DEF g
      <4>7. q \in used  BY <3>3 DEF TreeOK, TreeInv
      <4>8. IsPath(g, k - 1)  BY <1>2, <4>5, <4>6, <4>7
      <4>9. Emitted(t) \/ Awaited(t, g, k - 1)
        BY <3>1, <3>3, <4>6, <4>8 DEF CatchInv, HoldInv
      <4>10. ASSUME Awaited(t, g, k - 1)  PROVE Awaited(t, f, k)
        <5>1. PICK s \in todo : s.tuple = t /\ \E n \in 0 .. k - 1 : g[n] \in s.holders
          BY <4>10 DEF Awaited
        <5>2. PICK n \in 0 .. k - 1 : g[n] \in s.holders  BY <5>1
        <5>3. n + 1 \in 0 .. k  BY ONLY <4>3, n \in 0 .. k - 1
        <5>4. f[n + 1] \in s.holders  BY ONLY <4>6, <5>2
        <5> QED  BY <5>1, <5>3, <5>4 DEF Awaited
      <4> QED  BY <2>2, <4>9, <4>10
    <3> QED  BY <3>1, <3>2, <3>3
  <2>6. ASSUME NEW q \in Pids, DropSockets(q)  PROVE (Emitted(t) \/ Awaited(t, f, k))'
    <3>1. late' = late /\ sockets'[t] = sockets[t] \ {q}  BY <2>6 DEF DropSockets
    <3> QED  BY <2>2, <2>3, <3>1
  <2>7. ASSUME NEW q \in Pids, NEW u \in Tuples, OpenSocket(q, u) \/ CloseSocket(q, u)
        PROVE  (Emitted(t) \/ Awaited(t, f, k))'
    <3>1. CASE OpenSocket(q, u)
      <4>1. late' = late \cup {u} /\ sockets' = [sockets EXCEPT ![u] = {q}]
        BY <2>1, <3>1 DEF OpenSocket
      <4>2. t # u /\ t \notin late  BY <4>1
      <4>3. sockets'[t] = sockets[t]  BY <4>1, <4>2 DEF TreeOK
      <4> QED  BY <2>2, <2>3, <4>2, <4>3
    <3>2. CASE CloseSocket(q, u)
      <4>1. late' = late /\ sockets' = [sockets EXCEPT ![u] = @ \ {q}]
        BY <3>2 DEF CloseSocket
      <4>2. sockets'[t] \subseteq sockets[t]  BY <4>1 DEF TreeOK
      <4> QED  BY <2>2, <2>3, <4>1, <4>2
    <3> QED  BY <2>7, <3>1, <3>2
  <2>8. late' = late \/ \E q \in Pids, u \in Tuples : OpenSocket(q, u)
    BY LateStep
  <2> QED  BY <2>4, <2>5, <2>6, <2>7, <2>8, Births
<1> QED  BY <1>3, <1>4, <1>5, <1>6, <1>7 DEF CatchInv

\* The poller moves, and processes and sockets stay.
LEMMA CatchPoller ==
    ASSUME TreeOK, PollOK, CatchInv, Poller, UNCHANGED <<processVars, scopeVars, socketVars>>
    PROVE  CatchInv'
<1> USE DEF processVars, socketVars
<1>1. \A f, k : IsPath(f, k)' = IsPath(f, k)  BY DEF IsPath, PathIn
<1>2. ASSUME UNCHANGED <<walk, cache>>  PROVE WalkInv' /\ OutInv'
  BY <1>1, <1>2 DEF CatchInv, WalkInv, OutInv
<1>3. ASSUME UNCHANGED emitted, todo' = todo,
             poll' \in {"last scan", "done"} => poll \in {"last scan", "done"}
      PROVE  HoldInv'
  <2>1. \A t, f, k : Emitted(t)' = Emitted(t) /\ Awaited(t, f, k)' = Awaited(t, f, k)
    BY <1>3 DEF Emitted, Awaited
  <2> QED  BY <1>1, <1>3, <2>1 DEF CatchInv, HoldInv
<1>4. CASE Snapshot
  <2>1. todo' = {[tuple |-> t, holders |-> sockets[t], mine |-> sockets[t] \cap mine # {}] :
                    t \in {u \in Tuples : sockets[u] # {}}}
    BY <1>4 DEF Snapshot
  <2>2. TodoInv'
    <3> SUFFICES ASSUME NEW s \in todo'  PROVE s.holders \subseteq used
      BY DEF TodoInv
    <3>1. PICK t \in Tuples : s.holders = sockets[t]  BY <2>1
    <3>2. \A p \in sockets[t] : p \in Pids /\ IsAlive(p)  BY DEF TreeOK, TreeInv
    <3> QED  BY <3>1, <3>2 DEF TreeOK, TreeInv
  <2>3. OutInv'
    BY <1>4, Names DEF Snapshot, OutInv, Unknown
  <2>4. WalkInv'
    BY <1>1, <1>4 DEF Snapshot, CatchInv, WalkInv
  <2>5. ToldInv' /\ KeysInv'
    BY <1>4 DEF Snapshot, CatchInv, ToldInv, KeysInv, Emitted
  <2>6. HoldInv'
    <3> SUFFICES ASSUME NEW t \in Tuples, NEW p \in sockets[t], NEW f, NEW k,
                        IsPath(f, k), f[0] = p
                 PROVE  Awaited(t, f, k)'
      BY <1>1 DEF HoldInv
    <3> DEFINE r == [tuple |-> t, holders |-> sockets[t], mine |-> sockets[t] \cap mine # {}]
    <3>1. r \in todo'  BY <2>1
    <3>2. r.tuple = t /\ p \in r.holders  OBVIOUS
    <3> HIDE DEF r
    <3>3. 0 \in 0 .. k  BY PollAssumption DEF IsPath, PathIn
    <3> QED  BY <3>1, <3>2, <3>3 DEF Awaited
  <2> QED  BY <2>2, <2>3, <2>4, <2>5, <2>6 DEF CatchInv
<1>5. CASE SnapshotFails \/ ScanEnds \/ WakeUp \/ StopPoller
  <2>1. UNCHANGED <<walk, cache, emitted, seen>> /\ todo' = todo
    BY <1>5 DEF SnapshotFails, ScanEnds, WakeUp, StopPoller
  <2>2. poll' \in {"last scan", "done"} => poll \in {"last scan", "done"}
    BY <1>5 DEF SnapshotFails, ScanEnds, WakeUp, StopPoller, Scanning
  <2>3. ToldInv'
    BY <1>5 DEF SnapshotFails, ScanEnds, WakeUp, StopPoller, Scanning, CatchInv, ToldInv
  <2> QED
    BY <1>2, <1>3, <2>1, <2>2, <2>3 DEF CatchInv, TodoInv, KeysInv, Emitted
<1>6. ASSUME NEW s \in todo, NEW p \in s.holders, BeginWalk(s, p)  PROVE CatchInv'
  <2>1. UNCHANGED <<poll, told, todo, cache, seen, emitted>>
        /\ walk' = [from |-> p, at |-> p, depth |-> 0]
    BY <1>6 DEF BeginWalk
  <2>2. p \in used  BY DEF CatchInv, TodoInv
  <2>3. WalkInv'
    <3> SUFFICES ASSUME NEW f, NEW k, IsPath(f, k), f[0] = p
                 PROVE  walk'.depth <= k /\ walk'.at = f[walk'.depth]
      BY <1>1, <2>1, <2>2 DEF WalkInv
    <3>1. 0 <= k  BY PollAssumption DEF IsPath, PathIn
    <3> QED  BY <2>1, <3>1
  <2>4. OutInv'  BY <1>1, <2>1 DEF CatchInv, OutInv
  <2>5. HoldInv'  BY <1>3, <2>1
  <2> QED  BY <2>1, <2>3, <2>4, <2>5 DEF CatchInv, TodoInv, ToldInv, KeysInv, Emitted
<1>7. CASE WalkStep
  <2>1. UNCHANGED <<poll, told, todo, seen, emitted>> /\ walk # NoWalk  BY <1>7 DEF WalkStep
  <2>2. HoldInv'  BY <1>3, <2>1
  <2>3. TodoInv' /\ ToldInv' /\ KeysInv'
    BY <2>1 DEF CatchInv, TodoInv, ToldInv, KeysInv, Emitted
  <2> DEFINE on == walk.depth < MaxDepth /\ walk.at \notin {Root, InitPid} /\ parent[walk.at] # Free
  <2>4. walk.from \in Pids /\ walk.depth \in 0 .. MaxDepth /\ MaxDepth \in Nat \ {0}
    BY <2>1, PollAssumption DEF PollOK, PollTypeOK
  \* Where the walk is on the path of the process it began at.
  <2>5. ASSUME NEW f, NEW k, IsPath(f, k), f[0] = walk.from
        PROVE  /\ walk.depth \in 0 .. k /\ walk.at = f[walk.depth] /\ walk.depth < MaxDepth
               /\ walk.depth # k => on /\ walk.depth + 1 <= k /\ parent[walk.at] = f[walk.depth + 1]
    <3>1. walk.depth <= k /\ walk.at = f[walk.depth]  BY <2>1, <2>5 DEF CatchInv, WalkInv
    <3>2. k \in 0 .. MaxDepth - 1  BY <2>5 DEF IsPath, PathIn
    <3>3. walk.depth \in 0 .. k /\ walk.depth < MaxDepth  BY <2>4, <3>1, <3>2
    <3>4. ASSUME walk.depth # k
          PROVE  on /\ walk.depth + 1 <= k /\ parent[walk.at] = f[walk.depth + 1]
      <4>1. walk.depth \in 0 .. k - 1 /\ walk.depth + 1 <= k  BY <3>2, <3>3, <3>4
      <4>2. walk.at \in Pids /\ f[walk.depth + 1] = parent[walk.at]
        BY <2>5, <3>1, <4>1 DEF IsPath, PathIn
      <4>3. f[walk.depth + 1] \in Pids \cup {Root}
        <5>1. walk.depth + 1 \in 0 .. k - 1 \/ walk.depth + 1 = k  BY <3>2, <4>1
        <5> QED  BY <2>5, <5>1 DEF IsPath, PathIn
      <4> QED  BY <3>3, <4>1, <4>2, <4>3, Names
    <3> QED  BY <3>1, <3>3, <3>4
  <2>6. CASE on
    <3>1. walk' = [walk EXCEPT !.at = parent[walk.at], !.depth = @ + 1] /\ cache' = cache
      BY <1>7, <2>6 DEF WalkStep
    <3>2. walk \in [from : Pids, at : All, depth : 0 .. MaxDepth]
      BY <2>1 DEF PollOK, PollTypeOK
    <3>3. walk'.from = walk.from /\ walk'.at = parent[walk.at] /\ walk'.depth = walk.depth + 1
      BY <3>1, <3>2
    <3> HIDE DEF on
    <3>4. WalkInv'
      <4> SUFFICES ASSUME NEW f, NEW k, IsPath(f, k), f[0] = walk.from
                   PROVE  walk.depth + 1 <= k /\ parent[walk.at] = f[walk.depth + 1]
        BY <1>1, <2>1, <3>3 DEF CatchInv, WalkInv
      <4>1. walk.depth # k
        <5>1. f[k] = Root  BY DEF IsPath, PathIn
        <5>2. walk.at = f[walk.depth]  BY <2>5
        <5> QED  BY <2>6, <5>1, <5>2 DEF on
      <4> QED  BY <2>5, <4>1
    <3>5. OutInv'  BY <1>1, <3>1 DEF CatchInv, OutInv
    <3> QED  BY <2>2, <2>3, <3>4, <3>5 DEF CatchInv
  <2>7. CASE ~on
    <3>1. /\ walk' = NoWalk
          /\ cache' = [cache EXCEPT ![walk.from] =
                          IF walk.depth < MaxDepth /\ walk.at = Root THEN "in" ELSE "out"]
      BY <1>7, <2>7 DEF WalkStep
    <3> HIDE DEF on
    <3>2. ASSUME NEW f, NEW k, IsPath(f, k), f[0] = walk.from
          PROVE  walk.depth < MaxDepth /\ walk.at = Root
      <4>1. walk.depth = k /\ walk.at = f[walk.depth] /\ walk.depth < MaxDepth
        BY <2>5, <2>7, <3>2
      <4> QED  BY <3>2, <4>1 DEF IsPath, PathIn
    <3>3. OutInv'
      <4> SUFFICES ASSUME NEW p \in Pids, cache'[p] = "out"
                   PROVE  p \in used /\ \A f, k : IsPath(f, k) => f[0] # p
        BY <1>1 DEF OutInv
      <4>1. CASE p = walk.from
        <5>1. cache'[p] = IF walk.depth < MaxDepth /\ walk.at = Root THEN "in" ELSE "out"
          BY <3>1, <4>1, Names DEF PollOK, PollTypeOK
        <5>2. p \in used  BY <2>1, <4>1 DEF CatchInv, WalkInv
        <5> QED  BY <3>2, <4>1, <5>1, <5>2
      <4>2. CASE p # walk.from
        <5>1. cache'[p] = cache[p]  BY <3>1, <4>2, Names DEF PollOK, PollTypeOK
        <5> QED  BY <5>1 DEF CatchInv, OutInv
      <4> QED  BY <4>1, <4>2
    <3>4. WalkInv'  BY <3>1 DEF WalkInv
    <3> QED  BY <2>2, <2>3, <3>3, <3>4 DEF CatchInv
  <2> QED  BY <2>6, <2>7
<1>8. ASSUME NEW s \in todo, RecordSocket(s)  PROVE CatchInv'
  <2>1. /\ UNCHANGED <<poll, told, cache, walk>> /\ todo' = todo \ {s}
        /\ seen' = seen \cup {s.tuple} /\ Scanning
    BY <1>8 DEF RecordSocket, Key
  <2>2. ASSUME NEW t, Emitted(t)  PROVE Emitted(t)'
    <3>1. CASE emitted' = emitted  BY <2>2, <3>1 DEF Emitted
    <3>2. CASE emitted' = Append(emitted, [tuple |-> s.tuple, mine |-> s.mine])
      <4>1. emitted \in Seq([tuple : Tuples, mine : BOOLEAN])  BY DEF PollOK
      <4>2. /\ DOMAIN emitted = 1 .. Len(emitted) /\ Len(emitted) \in Nat
            /\ DOMAIN emitted' = 1 .. Len(emitted) + 1
            /\ \A i \in 1 .. Len(emitted) : emitted'[i] = emitted[i]
        BY <3>2, <4>1
      <4> QED  BY <2>2, <4>2 DEF Emitted
    <3> QED  BY <1>8, <3>1, <3>2 DEF RecordSocket
  <2>3. Emitted(s.tuple)'
    <3>1. CASE s.tuple \in seen  BY <2>2, <3>1 DEF CatchInv, KeysInv
    <3>2. CASE s.tuple \notin seen
      <4> DEFINE e == [tuple |-> s.tuple, mine |-> s.mine]
      <4>1. emitted' = Append(emitted, e)  BY <1>8, <3>2 DEF RecordSocket, Key
      <4>2. emitted \in Seq([tuple : Tuples, mine : BOOLEAN])  BY DEF PollOK
      <4>3. e.tuple = s.tuple  OBVIOUS
      <4> HIDE DEF e
      <4>4. /\ Len(emitted) \in Nat /\ DOMAIN emitted' = 1 .. Len(emitted) + 1
            /\ emitted'[Len(emitted) + 1] = e
        BY <4>1, <4>2
      <4>5. Len(emitted) + 1 \in DOMAIN emitted'  BY <4>4
      <4> QED  BY <4>3, <4>4, <4>5 DEF Emitted
    <3> QED  BY <3>1, <3>2
  <2>4. KeysInv'  BY <2>1, <2>2, <2>3 DEF CatchInv, KeysInv
  <2>5. HoldInv'
    <3> SUFFICES ASSUME poll \in {"last scan", "done"},
                        NEW t \in Tuples, t \notin late, NEW p \in sockets[t], NEW f, NEW k,
                        IsPath(f, k), f[0] = p
                 PROVE  Emitted(t)' \/ Awaited(t, f, k)'
      BY <1>1, <2>1 DEF HoldInv
    <3>1. Emitted(t) \/ Awaited(t, f, k)  BY DEF CatchInv, HoldInv
    <3>2. ASSUME Awaited(t, f, k)  PROVE Emitted(t)' \/ Awaited(t, f, k)'
      <4>1. PICK r \in todo : r.tuple = t /\ \E n \in 0 .. k : f[n] \in r.holders
        BY <3>2 DEF Awaited
      <4>2. CASE r = s  BY <2>3, <4>1, <4>2
      <4>3. CASE r # s  BY <2>1, <4>1, <4>3 DEF Awaited
      <4> QED  BY <4>2, <4>3
    <3> QED  BY <2>2, <3>1, <3>2
  <2>6. ToldInv' /\ TodoInv'  BY <2>1 DEF CatchInv, ToldInv, TodoInv
  <2>7. WalkInv' /\ OutInv'  BY <1>2, <2>1
  <2> QED  BY <2>4, <2>5, <2>6, <2>7 DEF CatchInv
<1>9. ASSUME NEW s \in todo, SkipSocket(s)  PROVE CatchInv'
  <2>1. /\ UNCHANGED <<poll, told, cache, walk, seen, emitted>> /\ todo' = todo \ {s}
        /\ \A p \in s.holders : cache[p] = "out"
    BY <1>9 DEF SkipSocket
  <2>2. s.holders \subseteq Pids  BY DEF PollOK, PollTypeOK
  <2>3. HoldInv'
    <3> SUFFICES ASSUME poll \in {"last scan", "done"},
                        NEW t \in Tuples, t \notin late, NEW p \in sockets[t], NEW f, NEW k,
                        IsPath(f, k), f[0] = p
                 PROVE  Emitted(t)' \/ Awaited(t, f, k)'
      BY <1>1, <2>1 DEF HoldInv
    <3>1. Emitted(t) \/ Awaited(t, f, k)  BY DEF CatchInv, HoldInv
    <3>2. ASSUME Awaited(t, f, k)  PROVE Awaited(t, f, k)'
      <4>1. PICK r \in todo : r.tuple = t /\ \E n \in 0 .. k : f[n] \in r.holders
        BY <3>2 DEF Awaited
      <4>2. ASSUME r = s  PROVE FALSE
        <5>1. PICK n \in 0 .. k : f[n] \in s.holders  BY <4>1, <4>2
        <5> DEFINE g == [i \in 0 .. k - n |-> f[i + n]]
        <5>2. IsPath(g, k - n)  BY PathRest DEF IsPath
        <5>3. k \in Nat
          <6>1. k \in 0 .. MaxDepth - 1  BY DEF IsPath, PathIn
          <6> QED  BY ONLY <6>1, PollAssumption
        <5>4. 0 \in 0 .. k - n /\ 0 + n = n  BY ONLY <5>3, n \in 0 .. k
        <5>5. g[0] = f[0 + n]  BY ONLY <5>4
        <5> HIDE DEF g
        <5>6. g[0] = f[n]  BY ONLY <5>4, <5>5
        <5>7. f[n] \in Pids /\ cache[f[n]] = "out"  BY <2>1, <2>2, <5>1
        <5> QED  BY <5>2, <5>6, <5>7 DEF CatchInv, OutInv
      <4> QED  BY <2>1, <4>1, <4>2 DEF Awaited
    <3> QED  BY <2>1, <3>1, <3>2 DEF Emitted
  <2>4. ToldInv' /\ TodoInv' /\ KeysInv'  BY <2>1 DEF CatchInv, ToldInv, TodoInv, KeysInv, Emitted
  <2>5. WalkInv' /\ OutInv'  BY <1>2, <2>1
  <2> QED  BY <2>3, <2>4, <2>5 DEF CatchInv
<1> QED  BY <1>4, <1>5, <1>6, <1>7, <1>8, <1>9 DEF Poller

\* A connection that is open when the poller is told to stop, and as long as the
\* last scan runs, is recorded if the parents of a process that holds it lead to
\* snitchit, whoever forked, ended or closed it while their parents were followed.
THEOREM FinalScanSafety ==
    ASSUME ReusePids = FALSE
    PROVE  Spec => []FinalScanCatches
<1>1. Init => CatchInv  BY InitCatch
<1>2. TreeOK /\ TreeOK' /\ (ScopeOK /\ PollOK) /\ CatchInv /\ [Next]_vars => CatchInv'
  BY CatchProcesses, CatchPoller, Scans
<1>3. TreeOK /\ CatchInv => FinalScanCatches
  <2> SUFFICES ASSUME TreeOK, CatchInv, poll = "done", NEW t \in Tuples, t \notin late,
                      NEW p \in sockets[t], LeadsToRoot(p)
               PROVE  \E i \in DOMAIN emitted : emitted[i].tuple = t
    BY DEF FinalScanCatches
  <2>1. p \in Pids  BY DEF TreeOK
  <2>2. PICK f, k : IsPath(f, k) /\ f[0] = p  BY <2>1, LeadsAlongPath DEF TreeOK
  <2>3. Emitted(t) \/ Awaited(t, f, k)  BY <2>2 DEF CatchInv, HoldInv
  <2>4. todo = {}  BY DEF CatchInv, ToldInv
  <2> QED  BY <2>3, <2>4 DEF Emitted, Awaited
<1> QED  BY <1>1, <1>2, <1>3, Tree, Types, PTL DEF Spec

=============================================================================
