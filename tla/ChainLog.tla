------------------------------- MODULE ChainLog -------------------------------
(***************************************************************************)
(* What the log of a session promises to the processes that write to it,   *)
(* with no lock, no file and no system call in sight: one chain, to which  *)
(* an event is added whole, at the end, sealed against the record that is  *)
(* the last one at that moment, and at most once; an append is answered    *)
(* Ok only when its event is there.  LogStore is shown to implement this.  *)
(***************************************************************************)
EXTENDS HashChain

CONSTANT Events     \* the events the processes of the session will append

VARIABLES
    chain,          \* the records of the log, oldest first
    acked           \* the events whose append was answered Ok

vars == <<chain, acked>>

Recorded == {chain[i].event : i \in DOMAIN chain}

ChainHead == IF chain = <<>> THEN Genesis ELSE chain[Len(chain)].hash

TypeOK ==
    /\ Recorded \subseteq Events
    /\ acked \subseteq Events

Init == chain = <<>> /\ acked = {}

\* The event becomes the last record of the chain.
Add(e) ==
    /\ e \notin Recorded
    /\ chain' = Append(chain, Seal(e, ChainHead))
    /\ UNCHANGED acked

\* The caller is told that its event is recorded.
Answer(e) ==
    /\ e \in Recorded
    /\ acked' = acked \cup {e}
    /\ UNCHANGED chain

Next == \E e \in Events : Add(e) \/ Answer(e)

Spec == Init /\ [][Next]_vars

-----------------------------------------------------------------------------
\* The chain of the specification is one that `snitchit verify` accepts.
AlwaysVerifies == Verifies(chain)

=============================================================================
