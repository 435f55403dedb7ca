------------------------------- MODULE LogStore -------------------------------
(***************************************************************************)
(* core/src/store.rs: the JSONL log of one session and the processes that  *)
(* append to it.  These are the recorder, which drains its events into the *)
(* log when the agent has ended, and one `snitchit hook` process for every *)
(* tool call of the agent, several of them at a time.  Each holds a Store  *)
(* of its own on the file and appends a batch of events (a hook: one).     *)
(*                                                                         *)
(* Store::append opens the file, takes an exclusive advisory lock, reads   *)
(* the whole file to find the hash of the last record, seals the event     *)
(* against it, writes the line and then the newline, syncs and unlocks.    *)
(* Every one of these is a step here, and between any two of them other    *)
(* processes run, this one may be killed, a call may fail, or the machine  *)
(* may lose power.                                                         *)
(*                                                                         *)
(* The bytes of the file are abstracted to pieces.  One append leaves one  *)
(* piece: its record whole, or the part of it that was out when the writer *)
(* died or its write failed.  A line holds several pieces when a writer    *)
(* appended behind an unterminated one, since append seeks to the end of   *)
(* the file whatever is there.  A whole line is text that serde_json       *)
(* parses; no other line is (a second value on the line is an error too).  *)
(***************************************************************************)
EXTENDS HashChain

CONSTANTS
    Writers,      \* the processes that append to this log
    Batch,        \* how many events each of them has to append
    CrashAt,      \* the steps at which a writer may be killed
    IoErrorAt,    \* the steps at which a call of a writer may fail
    PowerLoss,    \* may the machine lose power?
    Nobody        \* not a writer: the holder of a free lock

\* Where a writer is.  From "locked" to "failed" it holds the lock.
Holding == {"locked", "sealed", "writing", "written", "ended", "synced", "failed"}

Steps == {"new", "idle", "locking", "crashed"} \cup Holding

\* Between the first byte of a line and its newline.
Window == {"writing", "written"}

ASSUME WritersAssumption ==
    /\ Nobody \notin Writers
    /\ Batch \in [Writers -> Nat]

ASSUME FaultAssumption ==
    /\ CrashAt \subseteq Steps \ {"crashed"}
    /\ IoErrorAt \subseteq {"new", "idle", "locking"} \cup (Holding \ {"synced", "failed"})
    /\ PowerLoss \in BOOLEAN

VARIABLES
    lines,        \* the lines of the file that end in a newline
    tail,         \* the pieces behind the last newline
    disk,         \* the part of the file that is known to survive a power loss
    lock,         \* the writer that holds the advisory lock, or Nobody
    pc,           \* where each writer is
    next,         \* the number of the event each writer appends now, or next
    head,         \* the head a writer read under the lock: a local of append
    cached,       \* Store.head
    acked,        \* the events whose append returned Ok
    refused       \* the events whose append returned Err

fileVars == <<lines, tail>>
vars == <<lines, tail, disk, lock, pc, next, head, cached, acked, refused>>

-----------------------------------------------------------------------------
(* The file.                                                                *)

Events == UNION {{w} \X (1 .. Batch[w]) : w \in Writers}

Hashes == Seq(Events)

Records == [event : Events, prev : Hashes, hash : Hashes]

\* A piece is cut when the writer stopped between two characters, split when
\* it stopped within one: then the file is not UTF-8 any more.
Pieces == [form : {"whole", "cut", "split"}, rec : Records]

Lines == Seq(Pieces) \ {<<>>}

\* What str::lines gives.  No line is blank: the newline is written by the
\* append that has just written a record.
Joined(ls, rest) == IF rest = <<>> THEN ls ELSE Append(ls, rest)
AllLines == Joined(lines, tail)

Utf8 == \A i \in DOMAIN AllLines : \A j \in DOMAIN AllLines[i] :
            AllLines[i][j].form # "split"

Parses(line) == Len(line) = 1 /\ line[1].form = "whole"

\* integrity.hash of a line; a line that is not JSON counts as genesis.
HashOf(line) == IF Parses(line) THEN line[1].rec.hash ELSE Genesis

\* last_hash, on any sequence of lines.
LastHash(ls) == IF ls = <<>> THEN Genesis ELSE HashOf(ls[Len(ls)])

\* read_values succeeds on the file as it is now, and what it returns.
Readable == \A i \in DOMAIN AllLines : Parses(AllLines[i])
ReadValues == [i \in DOMAIN AllLines |-> AllLines[i][1].rec]

Current(w) == <<w, next[w]>>

Goto(w, step) == pc' = [pc EXCEPT ![w] = step]

-----------------------------------------------------------------------------
Init ==
    /\ lines = <<>>
    /\ tail = <<>>
    /\ disk = [lines |-> <<>>, tail |-> <<>>]
    /\ lock = Nobody
    /\ pc = [w \in Writers |-> "new"]
    /\ next = [w \in Writers |-> 1]
    /\ head = [w \in Writers |-> Genesis]
    /\ cached = [w \in Writers |-> Genesis]
    /\ acked = {}
    /\ refused = {}

\* Store::open caches the head, read without the lock; a file that cannot be
\* read counts as empty.
Open(w) ==
    /\ pc[w] = "new"
    /\ Goto(w, "idle")
    /\ cached' = [cached EXCEPT ![w] = IF Utf8 THEN LastHash(AllLines) ELSE Genesis]
    /\ UNCHANGED <<lines, tail, disk, lock, next, head, acked, refused>>

\* Mutant: a process appends once more than it has events.
BeginAgain(w) ==
    /\ pc[w] = "idle"
    /\ next[w] <= Batch[w] + 1
    /\ Goto(w, "locking")
    /\ UNCHANGED <<lines, tail, disk, lock, next, head, cached, acked, refused>>

\* Store::append opens the file and calls File::lock, which blocks.
Begin(w) ==
    /\ pc[w] = "idle"
    /\ next[w] <= Batch[w]
    /\ Goto(w, "locking")
    /\ UNCHANGED <<lines, tail, disk, lock, next, head, cached, acked, refused>>

\* Mutant: no lock.
AcquireUnlocked(w) ==
    /\ pc[w] = "locking"
    /\ lock' = w
    /\ Goto(w, "locked")
    /\ UNCHANGED <<lines, tail, disk, next, head, cached, acked, refused>>

Acquire(w) ==
    /\ pc[w] = "locking"
    /\ lock = Nobody
    /\ lock' = w
    /\ Goto(w, "locked")
    /\ UNCHANGED <<lines, tail, disk, next, head, cached, acked, refused>>

\* Mutant: seal against the head cached at the last append of this process.
ReadHeadCached(w) ==
    /\ pc[w] = "locked"
    /\ Utf8
    /\ head' = [head EXCEPT ![w] = cached[w]]
    /\ Goto(w, "sealed")
    /\ UNCHANGED <<lines, tail, disk, lock, next, cached, acked, refused>>

\* read_to_string, last_hash, seal.
ReadHead(w) ==
    /\ pc[w] = "locked"
    /\ Utf8
    /\ head' = [head EXCEPT ![w] = LastHash(AllLines)]
    /\ Goto(w, "sealed")
    /\ UNCHANGED <<lines, tail, disk, lock, next, cached, acked, refused>>

\* read_to_string refuses a file that is not UTF-8.
ReadFails(w) ==
    /\ pc[w] = "locked"
    /\ ~Utf8
    /\ Goto(w, "failed")
    /\ UNCHANGED <<lines, tail, disk, lock, next, head, cached, acked, refused>>

\* Mutant: an unterminated line at the end of the file is overwritten.
StartWriteOver(w) ==
    /\ pc[w] = "sealed"
    /\ tail' = <<[form |-> "cut", rec |-> Seal(Current(w), head[w])]>>
    /\ Goto(w, "writing")
    /\ UNCHANGED <<lines, disk, lock, next, head, cached, acked, refused>>

\* write_all has some of the line out, at the end of the file.
StartWrite(w) ==
    /\ pc[w] = "sealed"
    /\ \E form \in {"cut", "split"} :
          tail' = Append(tail, [form |-> form, rec |-> Seal(Current(w), head[w])])
    /\ Goto(w, "writing")
    /\ UNCHANGED <<lines, disk, lock, next, head, cached, acked, refused>>

\* write_all of the line returns.
FinishWrite(w) ==
    /\ pc[w] = "writing"
    /\ tail' = [tail EXCEPT ![Len(tail)] =
                  [form |-> "whole", rec |-> Seal(Current(w), head[w])]]
    /\ Goto(w, "written")
    /\ UNCHANGED <<lines, disk, lock, next, head, cached, acked, refused>>

\* Mutant: the newline is forgotten.
WriteNoNewline(w) ==
    /\ pc[w] = "written"
    /\ Goto(w, "ended")
    /\ UNCHANGED <<lines, tail, disk, lock, next, head, cached, acked, refused>>

WriteNewline(w) ==
    /\ pc[w] = "written"
    /\ lines' = Append(lines, tail)
    /\ tail' = <<>>
    /\ Goto(w, "ended")
    /\ UNCHANGED <<disk, lock, next, head, cached, acked, refused>>

\* Mutant: no fsync.
SyncSkipped(w) ==
    /\ pc[w] = "ended"
    /\ Goto(w, "synced")
    /\ UNCHANGED <<lines, tail, disk, lock, next, head, cached, acked, refused>>

Sync(w) ==
    /\ pc[w] = "ended"
    /\ disk' = [lines |-> lines, tail |-> tail]
    /\ Goto(w, "synced")
    /\ UNCHANGED <<lines, tail, lock, next, head, cached, acked, refused>>

\* Unlock, remember the new head, return Ok.
ReturnOk(w) ==
    /\ pc[w] = "synced"
    /\ lock' = Nobody
    /\ acked' = acked \cup {Current(w)}
    /\ cached' = [cached EXCEPT ![w] = ComputeHash(Current(w), head[w])]
    /\ head' = [head EXCEPT ![w] = Genesis]
    /\ next' = [next EXCEPT ![w] = @ + 1]
    /\ Goto(w, "idle")
    /\ UNCHANGED <<lines, tail, disk, refused>>

\* Mutant: the error returns before the unlock, and the handle is kept.
ReturnErrLocked(w) ==
    /\ pc[w] = "failed"
    /\ refused' = refused \cup {Current(w)}
    /\ head' = [head EXCEPT ![w] = Genesis]
    /\ next' = [next EXCEPT ![w] = @ + 1]
    /\ Goto(w, "idle")
    /\ UNCHANGED <<lines, tail, disk, lock, cached, acked>>

\* Mutant: a failed append is tried again with the same event.
ReturnErrRetry(w) ==
    /\ pc[w] = "failed"
    /\ lock' = Nobody
    /\ head' = [head EXCEPT ![w] = Genesis]
    /\ Goto(w, "idle")
    /\ UNCHANGED <<lines, tail, disk, next, cached, acked, refused>>

\* The closure returned early: unlock all the same, then return its error.  The
\* caller reports it or not, and goes on with its next event.
ReturnErr(w) ==
    /\ pc[w] = "failed"
    /\ lock' = Nobody
    /\ refused' = refused \cup {Current(w)}
    /\ head' = [head EXCEPT ![w] = Genesis]
    /\ next' = [next EXCEPT ![w] = @ + 1]
    /\ Goto(w, "idle")
    /\ UNCHANGED <<lines, tail, disk, cached, acked>>

-----------------------------------------------------------------------------
(* Faults.                                                                  *)

\* A call inside the closure fails, or returns an error with the line half out.
IoError(w) ==
    /\ pc[w] \in IoErrorAt \cap Holding
    /\ Goto(w, "failed")
    /\ UNCHANGED <<lines, tail, disk, lock, next, head, cached, acked, refused>>

\* The file cannot be opened, or File::lock fails: append returns at once.
AppendFails(w) ==
    /\ pc[w] \in IoErrorAt \cap {"idle", "locking"}
    /\ next[w] <= Batch[w]
    /\ refused' = refused \cup {Current(w)}
    /\ next' = [next EXCEPT ![w] = @ + 1]
    /\ Goto(w, "idle")
    /\ UNCHANGED <<lines, tail, disk, lock, head, cached, acked>>

\* Store::open fails: no Store, and the process records nothing.
OpenFails(w) ==
    /\ pc[w] \in IoErrorAt \cap {"new"}
    /\ Goto(w, "crashed")
    /\ UNCHANGED <<lines, tail, disk, lock, next, head, cached, acked, refused>>

\* The process is killed; the system closes its files, which frees the lock.
Crash(w) ==
    /\ pc[w] \in CrashAt
    /\ Goto(w, "crashed")
    /\ lock' = IF lock = w THEN Nobody ELSE lock
    /\ UNCHANGED <<lines, tail, disk, next, head, cached, acked, refused>>

\* The machine stops.  What was synced is there when it is up again, and of the
\* lines that were not, the first few; processes not yet started start later.
PowerFails ==
    /\ PowerLoss
    /\ \E n \in Len(disk.lines) .. Len(lines) :
          /\ lines' = SubSeq(lines, 1, n)
          /\ \/ tail' = IF n = Len(disk.lines) THEN disk.tail ELSE <<>>
             \/ n = Len(lines) /\ tail' = tail
    /\ disk' = [lines |-> lines', tail |-> tail']
    /\ lock' = Nobody
    /\ pc' = [w \in Writers |-> IF pc[w] = "new" THEN "new" ELSE "crashed"]
    /\ UNCHANGED <<next, head, cached, acked, refused>>

-----------------------------------------------------------------------------
AppendStep(w) ==
    \/ Open(w) \/ Begin(w) \/ Acquire(w) \/ ReadHead(w) \/ ReadFails(w)
    \/ StartWrite(w) \/ FinishWrite(w) \/ WriteNewline(w) \/ Sync(w)
    \/ ReturnOk(w) \/ ReturnErr(w)

Fault(w) == IoError(w) \/ AppendFails(w) \/ OpenFails(w) \/ Crash(w)

Finished(w) == pc[w] = "crashed" \/ (pc[w] = "idle" /\ next[w] > Batch[w])

\* Every process has ended: the log is what it is.
Terminated == (\A w \in Writers : Finished(w)) /\ UNCHANGED vars

Next ==
    \/ \E w \in Writers : AppendStep(w) \/ Fault(w)
    \/ PowerFails
    \/ Terminated

Spec == Init /\ [][Next]_vars

\* A writer that can take its next step takes it: each is a process of its own,
\* and the lock is freed by its holder's next steps or by its death.  Which of
\* several waiting writers gets the lock is left open.
Fairness == \A w \in Writers : WF_vars(AppendStep(w))

FairSpec == Spec /\ Fairness

-----------------------------------------------------------------------------
(* Properties.                                                              *)

TypeOK ==
    /\ lines \in Seq(Lines)
    /\ tail \in Seq(Pieces)
    /\ disk \in [lines : Seq(Lines), tail : Seq(Pieces)]
    /\ lock \in Writers \cup {Nobody}
    /\ pc \in [Writers -> Steps]
    /\ next \in [Writers -> Nat \ {0}]
    /\ head \in [Writers -> Hashes]
    /\ cached \in [Writers -> Hashes]
    /\ acked \subseteq Events
    /\ refused \subseteq Events

\* What a record must be sealed against, given the lines before it: the hash of
\* the line before it, or genesis when that line is damaged or there is none.
Linked(ls) ==
    \A i \in DOMAIN ls : Parses(ls[i]) =>
        ls[i][1].rec = Seal(ls[i][1].rec.event,
                            IF i = 1 THEN Genesis ELSE HashOf(ls[i - 1]))

\* Whatever the interleaving of the writers, and whoever is killed, fails or
\* loses power where, every record that stands on a line of its own is sealed
\* against the line before it (the head re-read under the lock in append).
LinkDiscipline == Linked(AllLines)

\* So `verify`, which takes no lock and may run at any moment, never reports a
\* BROKEN chain on a log that only Store::append has written: either a line
\* cannot be parsed, or the chain is intact.
NoFalseBreak == Readable => Verifies(ReadValues)

PiecesOf(ls) == UNION {{<<i, j>> : j \in DOMAIN ls[i]} : i \in DOMAIN ls}

Before(p, q) == p[1] < q[1] \/ (p[1] = q[1] /\ p[2] < q[2])

\* The events of one process are in the file in the order it appended them and
\* none is there twice, cut ones included: a failed append is not repeated.
InOrderOnce ==
    \A p, q \in PiecesOf(AllLines) :
        LET e == AllLines[p[1]][p[2]].rec.event
            f == AllLines[q[1]][q[2]].rec.event
        IN  Before(p, q) /\ e[1] = f[1] => e[2] < f[2]

\* An event whose append returned Ok survives a power loss (the sync_all before
\* the unlock): its text is on the disk, whole.
AckedDurable ==
    \A e \in acked : \E p \in PiecesOf(disk.lines) :
        LET piece == disk.lines[p[1]][p[2]]
        IN  piece.form = "whole" /\ piece.rec.event = e

\* "one compact JSON record per line, appended in order": an event whose append
\* returned Ok is a line of its own, which readers parse.
OneRecordPerLine ==
    \A e \in acked : \E i \in DOMAIN lines :
        Parses(lines[i]) /\ lines[i][1].rec.event = e

\* Text that is in the file stays where it is: append never truncates, and what
\* it writes goes behind all the rest.  Only a power loss takes text away.
Grows(ls, ms) ==
    \A p \in PiecesOf(ls) :
        LET old == ls[p[1]][p[2]]
            new == ms[p[1]][p[2]]
        IN  p \in PiecesOf(ms) /\ old.rec = new.rec /\ (old.form = "whole" => new = old)

NeverRewrites == [][PowerFails \/ Grows(AllLines, AllLines')]_vars

\* Every append returns, unless its process is killed: the lock of a writer that
\* failed or died is free for the others.
AppendReturns ==
    \A w \in Writers : pc[w] \in {"locking"} \cup Holding ~> pc[w] \in {"idle", "crashed"}

\* The chain of the abstract log: the complete records of the file, the one that
\* has no newline yet included.
Chain ==
    LET full == IF tail # <<>> /\ tail[Len(tail)].form = "whole"
                THEN AllLines ELSE lines
    IN  [i \in DOMAIN full |-> full[i][1].rec]

Log == INSTANCE ChainLog WITH chain <- Chain, acked <- acked, Events <- Events

\* Where faults strike only outside the window between the first byte of a line
\* and its newline, the file, the lock and the calls make up one atomic log.
ImplementsChainLog == Log!Spec

=============================================================================
