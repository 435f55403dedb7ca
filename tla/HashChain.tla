------------------------------ MODULE HashChain ------------------------------
(***************************************************************************)
(* The hash chain of snitchit-core: how an event is sealed against the     *)
(* head (event.rs, canon.rs) and how a sequence of parsed records is       *)
(* verified (chain.rs).                                                    *)
(*                                                                         *)
(* SHA-256 over the canonical form is taken to be free of collisions, so   *)
(* a digest is represented by exactly what it commits to: the digest of    *)
(* the previous record, extended with the event.  Two digests are then     *)
(* equal only when the whole histories behind them are.                    *)
(***************************************************************************)
EXTENDS Naturals, Sequences, FiniteSets

\* The prev_hash of a first record: 64 zeros, which no record hashes to.
Genesis == <<>>

\* Mutant: the digest leaves prev_hash out.
ComputeHashOfEvent(event, prev) == <<event>>

\* compute_hash: prev_hash is put into the record and hash is taken out before
\* the digest is made, so the digest depends on the event and on prev alone.
ComputeHash(event, prev) == Append(prev, event)

\* Event::seal: the record that goes to the log.
Seal(event, prev) ==
    [event |-> event, prev |-> prev, hash |-> ComputeHash(event, prev)]

-----------------------------------------------------------------------------
(* verify_values walks the records with a running prev.  It stops at the    *)
(* first record that fails, so up to there the running prev is the declared *)
(* hash of the record before.                                               *)

RunningPrev(recs, i) == IF i = 1 THEN Genesis ELSE recs[i - 1].hash

\* Mutant: only the links are followed.
FailsLink(recs, i) == recs[i].prev # RunningPrev(recs, i)

\* What makes verify_values report record i, given that it reached it.
Fails(recs, i) ==
    \/ recs[i].prev # RunningPrev(recs, i)
    \/ recs[i].hash # ComputeHash(recs[i].event, recs[i].prev)

FailingRecords(recs) == {i \in DOMAIN recs : Fails(recs, i)}

\* report.ok
Verifies(recs) == FailingRecords(recs) = {}

\* report.broken_at, counted from 1; 0 when the chain is intact.
BrokenAt(recs) ==
    IF Verifies(recs) THEN 0
    ELSE CHOOSE i \in FailingRecords(recs) : \A j \in FailingRecords(recs) : i <= j

=============================================================================
