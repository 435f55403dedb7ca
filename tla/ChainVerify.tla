----------------------------- MODULE ChainVerify -----------------------------
(***************************************************************************)
(* What `snitchit verify` says about a log that was changed behind the     *)
(* back of snitchit.  A log is written by Chain::append (the in-memory     *)
(* form of the log, chain.rs); then records are changed, stripped of their *)
(* integrity block, removed, repeated, put in another order, or sealed     *)
(* anew, and snitchit may go on appending to what is left.                 *)
(***************************************************************************)
EXTENDS HashChain

CONSTANTS
    Contents,       \* what an event can say
    Nothing,        \* not a content
    MaxRecords,     \* bound: records of a log
    MaxEdits        \* bound: changes made to it

ASSUME EditAssumption ==
    MaxRecords \in Nat /\ MaxEdits \in Nat /\ Nothing \notin Contents

\* An absent prev_hash or hash: no digest, so that a record that has it fails.
Missing == <<Nothing>>

VARIABLES
    file,           \* the records as they are now
    original,       \* the records as they were before the first change
    edits,          \* how many changes were made
    naive           \* nothing was sealed since: neither a changed record nor a new one

vars == <<file, original, edits, naive>>

\* Chain.head; a record without a hash gives genesis, as in last_hash.
HeadOf(recs) ==
    IF recs = <<>> \/ recs[Len(recs)].hash = Missing THEN Genesis ELSE recs[Len(recs)].hash

Init == file = <<>> /\ original = <<>> /\ edits = 0 /\ naive = TRUE

\* Chain::append.
AppendEvent(c) ==
    /\ Len(file) < MaxRecords
    /\ file' = Append(file, Seal(c, HeadOf(file)))
    /\ original' = IF edits = 0 THEN file' ELSE original
    /\ naive' = (edits = 0)
    /\ UNCHANGED edits

Edit(recs, stays) ==
    /\ edits < MaxEdits
    /\ file' = recs
    /\ edits' = edits + 1
    /\ naive' = (naive /\ stays)
    /\ UNCHANGED original

Change(i, c) == c # file[i].event /\ Edit([file EXCEPT ![i].event = c], TRUE)

Strip(i) == Edit([file EXCEPT ![i].prev = Missing, ![i].hash = Missing], TRUE)

Delete(i) == Edit(SubSeq(file, 1, i - 1) \o SubSeq(file, i + 1, Len(file)), TRUE)

Repeat(i) ==
    /\ Len(file) < MaxRecords
    /\ Edit(SubSeq(file, 1, i) \o SubSeq(file, i, Len(file)), TRUE)

Swap(i) ==
    /\ i < Len(file)
    /\ Edit([file EXCEPT ![i] = file[i + 1], ![i + 1] = file[i]], TRUE)

\* The record is sealed anew against the one before it, as its owner could.
SealAgain(i) ==
    /\ i > 1 => file[i - 1].hash # Missing
    /\ Edit([file EXCEPT ![i] = Seal(file[i].event, RunningPrev(file, i))], FALSE)

Next ==
    \/ \E c \in Contents : AppendEvent(c)
    \/ \E i \in DOMAIN file :
          \/ \E c \in Contents : Change(i, c)
          \/ Strip(i) \/ Delete(i) \/ Repeat(i) \/ Swap(i) \/ SealAgain(i)

Spec == Init /\ [][Next]_vars

-----------------------------------------------------------------------------
\* The first place where the log is not what was written; 0 when there is none,
\* which is so when only its last records are gone.
FirstDifference ==
    LET differs == {i \in DOMAIN file : i > Len(original) \/ file[i] # original[i]}
    IN  IF differs = {} THEN 0 ELSE CHOOSE i \in differs : \A j \in differs : i <= j

\* "Any edit to a past record changes its hash and breaks the link, which
\* verify_values detects and localizes": as long as nothing is sealed after the
\* changes, verify reports exactly the first record that is not in its place.
Localizes == naive => BrokenAt(file) = FirstDifference

\* "tamper-evident to the head": whatever was done, sealing anew included, an
\* intact chain that has the head of the original in it begins with the original.
EvidentToHead ==
    Verifies(file) => \A i \in DOMAIN file :
        original # <<>> /\ file[i].hash = HeadOf(original) => SubSeq(file, 1, i) = original

=============================================================================
