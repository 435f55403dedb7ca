--------------------------- MODULE LogStore_proofs ---------------------------
(***************************************************************************)
(* Proofs about LogStore, for any writers, batches and faults.             *)
(*                                                                         *)
(* The argument: the lock makes the steps between ReadHead and             *)
(* WriteNewline of one append exclude those of every other (LockInv), so   *)
(* the head that was read is still the hash of the last line when the      *)
(* record comes to stand behind it (HeadInv, WriteInv), and LinkDiscipline *)
(* is kept whoever dies in between.  A power loss takes away a suffix of   *)
(* lines, or brings back what the disk held, and both are linked.          *)
(* AckedDurable needs besides where the event of a writer is while its     *)
(* append is under way (PlaceInv).                                         *)
(*                                                                         *)
(* Order and atomicity: the events of a writer that the file holds come    *)
(* before the one it appends now, or are that one, once it has begun to    *)
(* write (TextInv), so what it begins to write is new and the last.  The   *)
(* same is kept for what the disk holds, since a power loss brings that    *)
(* back.                                                                   *)
(***************************************************************************)
EXTENDS LogStore, SequenceTheorems, TLAPS

\* Exactly one writer is inside, and it is the one that holds the lock.
LockInv == \A w \in Writers : pc[w] \in Holding <=> lock = w

\* Who appends has an event to append.
BatchInv == \A w \in Writers :
    pc[w] \in Holding \cup {"locking"} => next[w] <= Batch[w]

\* What was read under the lock is still what the file ends in.
HeadInv == \A w \in Writers : pc[w] = "sealed" => head[w] = LastHash(AllLines)

\* While a line is written it is the last piece of the file; if it is alone on
\* its line, it is sealed against the line before.
WriteInv == \A w \in Writers :
    /\ pc[w] \in Window => tail # <<>>
    /\ pc[w] = "writing" /\ Len(tail) = 1 => head[w] = LastHash(lines)

\* What the disk holds is linked too, and is what the file begins with.
DiskInv ==
    /\ Linked(Joined(disk.lines, disk.tail))
    /\ Len(disk.lines) <= Len(lines)
    /\ \A i \in 1 .. Len(disk.lines) : lines[i] = disk.lines[i]

IInv ==
    /\ TypeOK
    /\ LockInv
    /\ BatchInv
    /\ HeadInv
    /\ WriteInv
    /\ LinkDiscipline
    /\ DiskInv

-----------------------------------------------------------------------------
(* Lemmas about the operators of the file.                                  *)

\* Sealing an event of the batch gives a record.
LEMMA SealType ==
    ASSUME NEW e \in Events, NEW h \in Hashes
    PROVE  Seal(e, h) \in Records
BY DEF Seal, ComputeHash, Records, Hashes

\* What the writers append are events of their batches.
LEMMA CurrentType ==
    ASSUME TypeOK, NEW w \in Writers, next[w] <= Batch[w]
    PROVE  Current(w) \in Events
BY WritersAssumption DEF TypeOK, Current, Events

\* Joining the unterminated rest to the lines gives lines.
LEMMA JoinedType ==
    ASSUME NEW ls \in Seq(Lines), NEW rest \in Seq(Pieces)
    PROVE  Joined(ls, rest) \in Seq(Lines)
<1>1. CASE rest = <<>>
  BY <1>1 DEF Joined
<1>2. CASE rest # <<>>
  <2>1. rest \in Lines
    BY <1>2 DEF Lines
  <2>2. QED
    BY <1>2, <2>1 DEF Joined
<1>3. QED
  BY <1>1, <1>2

\* Replacing a piece of a line leaves a line of the same length.
LEMMA ReplaceType ==
    ASSUME NEW s \in Seq(Pieces), NEW n \in Nat, NEW x \in Pieces
    PROVE  /\ [s EXCEPT ![n] = x] \in Seq(Pieces)
           /\ Len([s EXCEPT ![n] = x]) = Len(s)
<1> DEFINE t == [s EXCEPT ![n] = x]
<1>1. DOMAIN t = 1 .. Len(s) /\ Len(s) \in Nat
  OBVIOUS
<1>2. \A i \in 1 .. Len(s) : t[i] \in Pieces
  OBVIOUS
<1>3. t = [i \in 1 .. Len(s) |-> t[i]]
  BY <1>1
<1> HIDE DEF t
<1>4. t \in Seq(Pieces) /\ Len(t) = Len(s)
  BY <1>1, <1>2, <1>3
<1>5. QED
  BY <1>4 DEF t

\* The hash of a line is a hash, damaged or not.
LEMMA HashOfType ==
    ASSUME NEW line \in Lines
    PROVE  HashOf(line) \in Hashes
<1>1. CASE Parses(line)
  <2>1. line \in Seq(Pieces) /\ Len(line) = 1
    BY <1>1 DEF Lines, Parses
  <2>2. line[1] \in Pieces
    BY <2>1
  <2>3. line[1].rec.hash \in Hashes
    BY <2>2 DEF Pieces, Records
  <2>4. QED
    BY <1>1, <2>3 DEF HashOf
<1>2. CASE ~Parses(line)
  BY <1>2 DEF HashOf, Genesis, Hashes
<1>3. QED
  BY <1>1, <1>2

\* The head that last_hash finds is a hash.
LEMMA LastHashType ==
    ASSUME NEW ls \in Seq(Lines)
    PROVE  LastHash(ls) \in Hashes
<1>1. CASE ls = <<>>
  BY <1>1 DEF LastHash, Genesis, Hashes
<1>2. CASE ls # <<>>
  <2>1. ls[Len(ls)] \in Lines
    BY <1>2
  <2>2. HashOf(ls[Len(ls)]) \in Hashes
    BY <2>1, HashOfType
  <2>3. QED
    BY <1>2, <2>2 DEF LastHash
<1>3. QED
  BY <1>1, <1>2

\* A line that is sealed against the last one, or damaged, can be added.
LEMMA LinkedAppend ==
    ASSUME NEW ls \in Seq(Lines), NEW line \in Lines, Linked(ls),
           Parses(line) => line[1].rec = Seal(line[1].rec.event, LastHash(ls))
    PROVE  Linked(Append(ls, line))
<1> DEFINE ms == Append(ls, line)
<1> SUFFICES ASSUME NEW i \in DOMAIN ms, Parses(ms[i])
             PROVE  ms[i][1].rec = Seal(ms[i][1].rec.event,
                                        IF i = 1 THEN Genesis ELSE HashOf(ms[i - 1]))
  BY DEF Linked
<1>1. CASE i \in DOMAIN ls
  <2>1. ms[i] = ls[i] /\ (i # 1 => ms[i - 1] = ls[i - 1])
    BY <1>1
  <2>2. QED
    BY <1>1, <2>1 DEF Linked
<1>2. CASE i = Len(ls) + 1
  <2>1. ms[i] = line
    BY <1>2
  <2>2. LastHash(ls) = IF i = 1 THEN Genesis ELSE HashOf(ms[i - 1])
    BY <1>2 DEF LastHash
  <2>3. QED
    BY <2>1, <2>2
<1>3. QED
  BY <1>1, <1>2

\* The first lines of a log.
LEMMA PrefixType ==
    ASSUME NEW ls \in Seq(Lines), NEW n \in Nat, n <= Len(ls)
    PROVE  /\ SubSeq(ls, 1, n) \in Seq(Lines)
           /\ Len(SubSeq(ls, 1, n)) = n
           /\ \A i \in 1 .. n : SubSeq(ls, 1, n)[i] = ls[i]
OBVIOUS

\* The first lines of a linked log are linked.
LEMMA LinkedPrefix ==
    ASSUME NEW ls \in Seq(Lines), NEW n \in 0 .. Len(ls), Linked(ls)
    PROVE  Linked(SubSeq(ls, 1, n))
<1> DEFINE ms == SubSeq(ls, 1, n)
<1>1. ms \in Seq(Lines) /\ Len(ms) = n /\ \A i \in 1 .. n : ms[i] = ls[i]
  OBVIOUS
<1>2. \A i \in DOMAIN ms : i \in DOMAIN ls /\ ms[i] = ls[i] /\ (i # 1 => ms[i - 1] = ls[i - 1])
  BY <1>1
<1> HIDE DEF ms
<1>3. QED
  BY <1>2 DEF Linked

\* So are the terminated lines of a linked file.
LEMMA LinkedLines ==
    ASSUME NEW ls \in Seq(Lines), NEW rest \in Seq(Pieces), Linked(Joined(ls, rest))
    PROVE  Linked(ls)
<1>1. CASE rest = <<>>
  BY <1>1 DEF Joined
<1>2. CASE rest # <<>>
  <2>1. \A i \in DOMAIN ls : /\ i \in DOMAIN Joined(ls, rest)
                             /\ Joined(ls, rest)[i] = ls[i]
                             /\ i # 1 => Joined(ls, rest)[i - 1] = ls[i - 1]
    BY <1>2 DEF Joined
  <2>2. QED
    BY <2>1 DEF Linked
<1>3. QED
  BY <1>1, <1>2

-----------------------------------------------------------------------------
(* The invariant is inductive.                                              *)

LEMMA Initially == Init => IInv
<1> SUFFICES ASSUME Init PROVE IInv
  OBVIOUS
<1>1. TypeOK
  <2>1. Genesis \in Hashes /\ <<>> \in Seq(Lines) /\ <<>> \in Seq(Pieces)
    BY DEF Genesis, Hashes
  <2>2. QED
    BY <2>1 DEF Init, TypeOK, Steps
<1>2. LockInv /\ BatchInv /\ HeadInv /\ WriteInv
  BY WritersAssumption DEF Init, LockInv, BatchInv, HeadInv, WriteInv, Holding, Window
<1>3. LinkDiscipline /\ DiskInv
  BY DEF Init, LinkDiscipline, DiskInv, AllLines, Joined, Linked
<1>4. QED
  BY <1>1, <1>2, <1>3 DEF IInv

\* The types, one action at a time.
LEMMA TypeStep == IInv /\ [Next]_vars => TypeOK'
<1> SUFFICES ASSUME IInv, [Next]_vars PROVE TypeOK'
  OBVIOUS
<1> USE DEF Goto, Steps, Holding
<1>1. TypeOK /\ AllLines \in Seq(Lines) /\ Genesis \in Hashes
  <2>1. TypeOK
    BY DEF IInv
  <2>2. AllLines \in Seq(Lines)
    BY <2>1, JoinedType DEF TypeOK, AllLines
  <2>3. QED
    BY <2>1, <2>2 DEF Genesis, Hashes
<1>2. ASSUME NEW w \in Writers, pc[w] \in Holding
      PROVE  Current(w) \in Events
  BY <1>2, CurrentType DEF IInv, BatchInv
<1>3. ASSUME NEW w \in Writers, pc[w] \in Holding
      PROVE  Seal(Current(w), head[w]) \in Records /\ ComputeHash(Current(w), head[w]) \in Hashes
  <2>1. Current(w) \in Events /\ head[w] \in Hashes
    BY <1>2, <1>3, <1>1 DEF TypeOK
  <2>2. QED
    BY <2>1, SealType DEF ComputeHash, Hashes
<1>4. ASSUME NEW w \in Writers, AppendStep(w)
      PROVE  TypeOK'
  <2>1. CASE Open(w)
    BY <2>1, <1>1, LastHashType DEF Open, TypeOK
  <2>2. CASE Begin(w) \/ Acquire(w) \/ ReadFails(w)
    BY <2>2, <1>1 DEF Begin, Acquire, ReadFails, TypeOK
  <2>3. CASE ReadHead(w)
    BY <2>3, <1>1, LastHashType DEF ReadHead, TypeOK
  <2>4. CASE StartWrite(w)
    <3>1. PICK form \in {"cut", "split"} :
             tail' = Append(tail, [form |-> form, rec |-> Seal(Current(w), head[w])])
      BY <2>4 DEF StartWrite
    <3>2. [form |-> form, rec |-> Seal(Current(w), head[w])] \in Pieces
      BY <2>4, <1>3 DEF StartWrite, Pieces
    <3>3. tail' \in Seq(Pieces)
      BY <3>1, <3>2, <1>1 DEF TypeOK
    <3>4. QED
      BY <2>4, <3>3, <1>1 DEF StartWrite, TypeOK
  <2>5. CASE FinishWrite(w)
    <3>1. [form |-> "whole", rec |-> Seal(Current(w), head[w])] \in Pieces
      BY <2>5, <1>3 DEF FinishWrite, Pieces
    <3>2. tail' \in Seq(Pieces)
      BY <2>5, <3>1, <1>1, ReplaceType DEF FinishWrite, TypeOK
    <3>3. QED
      BY <2>5, <3>2, <1>1 DEF FinishWrite, TypeOK
  <2>6. CASE WriteNewline(w)
    <3>1. tail \in Lines
      BY <2>6, <1>1 DEF WriteNewline, TypeOK, Lines, IInv, WriteInv, Window
    <3>2. lines' \in Seq(Lines) /\ tail' \in Seq(Pieces)
      BY <2>6, <3>1, <1>1 DEF WriteNewline, TypeOK
    <3>3. QED
      BY <2>6, <3>2, <1>1 DEF WriteNewline, TypeOK
  <2>7. CASE Sync(w)
    BY <2>7, <1>1 DEF Sync, TypeOK
  <2>8. CASE ReturnOk(w) \/ ReturnErr(w)
    <3>1. /\ Current(w) \in Events
          /\ ComputeHash(Current(w), head[w]) \in Hashes
          /\ next[w] + 1 \in Nat \ {0}
      BY <2>8, <1>1, <1>2, <1>3 DEF ReturnOk, ReturnErr, TypeOK
    <3>2. CASE ReturnOk(w)
      BY <3>1, <3>2, <1>1 DEF ReturnOk, TypeOK
    <3>3. CASE ReturnErr(w)
      BY <3>1, <3>3, <1>1 DEF ReturnErr, TypeOK
    <3>4. QED
      BY <2>8, <3>2, <3>3
  <2>9. QED
    BY <1>4, <2>1, <2>2, <2>3, <2>4, <2>5, <2>6, <2>7, <2>8 DEF AppendStep
<1>5. ASSUME NEW w \in Writers, Fault(w)
      PROVE  TypeOK'
  <2>1. CASE AppendFails(w)
    <3>1. Current(w) \in Events
      BY <2>1, <1>1, CurrentType DEF AppendFails
    <3>2. QED
      BY <2>1, <3>1, <1>1 DEF AppendFails, TypeOK
  <2>2. CASE IoError(w) \/ OpenFails(w) \/ Crash(w)
    BY <2>2, <1>1 DEF IoError, OpenFails, Crash, TypeOK
  <2>3. QED
    BY <1>5, <2>1, <2>2 DEF Fault
<1>6. CASE PowerFails
  <2>1. PICK n \in Len(disk.lines) .. Len(lines) :
           /\ lines' = SubSeq(lines, 1, n)
           /\ \/ tail' = IF n = Len(disk.lines) THEN disk.tail ELSE <<>>
              \/ n = Len(lines) /\ tail' = tail
    BY <1>6 DEF PowerFails
  <2>2. n \in Nat /\ n <= Len(lines) /\ lines \in Seq(Lines)
    BY <1>1 DEF TypeOK
  <2>3. lines' \in Seq(Lines)
    BY <2>1, <2>2, PrefixType
  <2>4. tail' \in Seq(Pieces)
    <3>1. {<<>>, tail, disk.tail} \subseteq Seq(Pieces)
      BY <1>1 DEF TypeOK
    <3>2. tail' \in {<<>>, tail, disk.tail}
      BY <2>1
    <3>3. QED
      BY <3>1, <3>2
  <2>5. QED
    BY <1>6, <2>3, <2>4, <1>1 DEF PowerFails, TypeOK
<1>7. CASE UNCHANGED vars
  BY <1>7, <1>1 DEF vars, TypeOK
<1>8. QED
  BY <1>4, <1>5, <1>6, <1>7 DEF Next, Terminated

\* The lock, the batch and the head, one action at a time.
LEMMA LockStep == IInv /\ [Next]_vars => (LockInv /\ BatchInv)'
<1> SUFFICES ASSUME IInv, [Next]_vars PROVE (LockInv /\ BatchInv)'
  OBVIOUS
<1> USE WritersAssumption, FaultAssumption
        DEF LockInv, BatchInv, Goto, Holding, Steps
<1>1. /\ LockInv /\ BatchInv
      /\ lock \in Writers \cup {Nobody}
      /\ pc \in [Writers -> Steps] /\ next \in [Writers -> Nat \ {0}]
  BY DEF IInv, TypeOK
<1>2. ASSUME NEW w \in Writers, AppendStep(w)
      PROVE  (LockInv /\ BatchInv)'
  <2>1. CASE Open(w) \/ Begin(w)
    BY <2>1, <1>1 DEF Open, Begin
  <2>2. CASE Acquire(w)
    BY <2>2, <1>1 DEF Acquire
  <2>3. CASE ReadHead(w) \/ ReadFails(w)
    BY <2>3, <1>1 DEF ReadHead, ReadFails
  <2>4. CASE StartWrite(w) \/ FinishWrite(w)
    BY <2>4, <1>1 DEF StartWrite, FinishWrite
  <2>5. CASE WriteNewline(w) \/ Sync(w)
    BY <2>5, <1>1 DEF WriteNewline, Sync
  <2>6. CASE ReturnOk(w) \/ ReturnErr(w)
    BY <2>6, <1>1 DEF ReturnOk, ReturnErr
  <2>7. QED
    BY <1>2, <2>1, <2>2, <2>3, <2>4, <2>5, <2>6 DEF AppendStep
<1>3. ASSUME NEW w \in Writers, Fault(w)
      PROVE  (LockInv /\ BatchInv)'
  <2>1. CASE IoError(w)
    BY <2>1, <1>1 DEF IoError
  <2>2. CASE AppendFails(w) \/ OpenFails(w)
    BY <2>2, <1>1 DEF AppendFails, OpenFails
  <2>3. CASE Crash(w)
    BY <2>3, <1>1 DEF Crash
  <2>4. QED
    BY <1>3, <2>1, <2>2, <2>3 DEF Fault
<1>4. CASE PowerFails
  BY <1>4, <1>1 DEF PowerFails
<1>5. CASE UNCHANGED vars
  BY <1>5, <1>1 DEF vars
<1>6. QED
  BY <1>2, <1>3, <1>4, <1>5 DEF Next, Terminated

\* What a writer has read or written is what the file ends in: the others leave
\* the file alone, since it holds the lock.
LEMMA WindowStep == IInv /\ [Next]_vars => (HeadInv /\ WriteInv)'
<1> SUFFICES ASSUME IInv, [Next]_vars PROVE (HeadInv /\ WriteInv)'
  OBVIOUS
<1> USE DEF Goto, Holding, Window, Steps
<1>1. TypeOK /\ LockInv /\ HeadInv /\ WriteInv
  BY DEF IInv
<1>2. \A v, w \in Writers : pc[v] \in Holding /\ pc[w] \in Holding => v = w
  BY <1>1 DEF LockInv
<1>3. ASSUME NEW w \in Writers, AppendStep(w)
      PROVE  (HeadInv /\ WriteInv)'
  <2>1. CASE Open(w) \/ Begin(w) \/ Acquire(w) \/ ReadFails(w)
    BY <2>1, <1>1 DEF Open, Begin, Acquire, ReadFails, TypeOK, HeadInv, WriteInv, AllLines
  <2>2. CASE ReadHead(w)
    BY <2>2, <1>1 DEF ReadHead, TypeOK, HeadInv, WriteInv, AllLines
  <2>3. CASE StartWrite(w)
    <3>1. PICK form \in {"cut", "split"} :
             tail' = Append(tail, [form |-> form, rec |-> Seal(Current(w), head[w])])
      BY <2>3 DEF StartWrite
    <3>2. tail' # <<>> /\ (Len(tail') = 1 => tail = <<>>)
      BY <3>1, <1>1 DEF TypeOK
    <3>3. tail = <<>> => head[w] = LastHash(lines)
      BY <2>3, <1>1 DEF StartWrite, HeadInv, AllLines, Joined
    <3>4. \A v \in Writers : pc[v] \in Holding => v = w
      BY <2>3, <1>2 DEF StartWrite
    <3>5. QED
      BY <2>3, <3>2, <3>3, <3>4, <1>1 DEF StartWrite, TypeOK, HeadInv, WriteInv
  <2>4. CASE FinishWrite(w)
    <3>1. tail # <<>> /\ Len(tail) \in Nat \ {0} /\ tail' # <<>>
      BY <2>4, <1>1 DEF FinishWrite, WriteInv, TypeOK
    <3>2. \A v \in Writers : pc[v] \in Holding => v = w
      BY <2>4, <1>2 DEF FinishWrite
    <3>3. QED
      BY <2>4, <3>1, <3>2, <1>1 DEF FinishWrite, TypeOK, HeadInv, WriteInv
  <2>5. CASE WriteNewline(w)
    <3>1. \A v \in Writers : pc[v] \in Holding => v = w
      BY <2>5, <1>2 DEF WriteNewline
    <3>2. QED
      BY <2>5, <3>1, <1>1 DEF WriteNewline, TypeOK, HeadInv, WriteInv
  <2>6. CASE Sync(w)
    BY <2>6, <1>1 DEF Sync, TypeOK, HeadInv, WriteInv, AllLines
  <2>7. CASE ReturnOk(w) \/ ReturnErr(w)
    BY <2>7, <1>1 DEF ReturnOk, ReturnErr, TypeOK, HeadInv, WriteInv, AllLines
  <2>8. QED
    BY <1>3, <2>1, <2>2, <2>3, <2>4, <2>5, <2>6, <2>7 DEF AppendStep
<1>4. ASSUME NEW w \in Writers, Fault(w)
      PROVE  (HeadInv /\ WriteInv)'
  BY <1>4, <1>1 DEF Fault, IoError, AppendFails, OpenFails, Crash, TypeOK,
                    HeadInv, WriteInv, AllLines
<1>5. CASE PowerFails
  BY <1>5, <1>1 DEF PowerFails, TypeOK, HeadInv, WriteInv
<1>6. CASE UNCHANGED vars
  BY <1>6, <1>1 DEF vars, HeadInv, WriteInv, AllLines
<1>7. QED
  BY <1>3, <1>4, <1>5, <1>6 DEF Next, Terminated

\* The links of the file, and of what the disk holds of it.
LEMMA LinkStep == IInv /\ [Next]_vars => (LinkDiscipline /\ DiskInv)'
<1> SUFFICES ASSUME IInv, [Next]_vars PROVE (LinkDiscipline /\ DiskInv)'
  OBVIOUS
<1>1. /\ TypeOK /\ HeadInv /\ WriteInv
      /\ Linked(AllLines)
      /\ DiskInv
      /\ lines \in Seq(Lines) /\ tail \in Seq(Pieces)
      /\ disk.lines \in Seq(Lines) /\ disk.tail \in Seq(Pieces)
  BY DEF IInv, LinkDiscipline, TypeOK
<1>2. Linked(lines)
  BY <1>1, LinkedLines DEF AllLines
<1>3. TypeOK'
  BY TypeStep
<1>4. CASE UNCHANGED fileVars /\ UNCHANGED disk
  BY <1>1, <1>4 DEF fileVars, LinkDiscipline, DiskInv, AllLines
<1>5. ASSUME NEW w \in Writers, StartWrite(w)
      PROVE  (LinkDiscipline /\ DiskInv)'
  <2>1. PICK form \in {"cut", "split"} :
           tail' = Append(tail, [form |-> form, rec |-> Seal(Current(w), head[w])])
    BY <1>5 DEF StartWrite
  <2>2. tail' \in Lines
    <3>1. tail' \in Seq(Pieces)
      BY <1>3 DEF TypeOK
    <3>2. Len(tail') = Len(tail) + 1
      BY <2>1, <1>1
    <3>3. tail' # <<>>
      BY <3>1, <3>2, <1>1
    <3>4. QED
      BY <3>1, <3>3 DEF Lines
  <2>3. ~Parses(tail')
    <3>1. CASE tail = <<>>
      BY <2>1, <3>1 DEF Parses
    <3>2. CASE tail # <<>>
      BY <2>1, <3>2, <1>1 DEF Parses
    <3>3. QED
      BY <3>1, <3>2
  <2>4. Linked(Append(lines, tail'))
    BY <1>1, <1>2, <2>2, <2>3, LinkedAppend
  <2>5. AllLines' = Append(lines, tail') /\ disk' = disk /\ lines' = lines
    BY <1>5, <2>1, <1>1 DEF StartWrite, AllLines, Joined
  <2>6. QED
    BY <2>4, <2>5, <1>1 DEF LinkDiscipline, DiskInv
<1>6. ASSUME NEW w \in Writers, FinishWrite(w)
      PROVE  (LinkDiscipline /\ DiskInv)'
  <2>1. tail # <<>> /\ (Len(tail) = 1 => head[w] = LastHash(lines))
    BY <1>1, <1>6 DEF FinishWrite, WriteInv, Window
  <2>2. tail' = [tail EXCEPT ![Len(tail)] =
                   [form |-> "whole", rec |-> Seal(Current(w), head[w])]]
    BY <1>6 DEF FinishWrite
  <2>3. tail' \in Lines /\ Len(tail') = Len(tail)
    BY <2>1, <2>2, <1>1, <1>3 DEF TypeOK, Lines
  <2>4. ASSUME Parses(tail')
        PROVE  tail'[1].rec = Seal(tail'[1].rec.event, LastHash(lines))
    <3>1. Len(tail) = 1
      BY <2>3, <2>4 DEF Parses
    <3>2. tail'[1].rec = Seal(Current(w), head[w])
      BY <2>2, <3>1, <1>1
    <3>3. Seal(Current(w), head[w]).event = Current(w)
      BY DEF Seal
    <3>4. QED
      BY <2>1, <3>1, <3>2, <3>3
  <2>5. Linked(Append(lines, tail'))
    BY <1>1, <1>2, <2>3, <2>4, LinkedAppend
  <2>6. AllLines' = Append(lines, tail') /\ disk' = disk /\ lines' = lines
    BY <1>6, <2>3 DEF FinishWrite, AllLines, Joined, Lines
  <2>7. QED
    BY <2>5, <2>6, <1>1 DEF LinkDiscipline, DiskInv
<1>7. ASSUME NEW w \in Writers, WriteNewline(w)
      PROVE  (LinkDiscipline /\ DiskInv)'
  <2>1. tail # <<>>
    BY <1>1, <1>7 DEF WriteNewline, WriteInv, Window
  <2>2. AllLines' = AllLines /\ disk' = disk
    BY <1>7, <2>1 DEF WriteNewline, AllLines, Joined
  <2>3. Linked(AllLines)'
    BY <2>2, <1>1
  <2>4. /\ Len(lines') = Len(lines) + 1
        /\ \A i \in 1 .. Len(lines) : lines'[i] = lines[i]
    BY <1>7, <1>1 DEF WriteNewline
  <2>5. /\ Len(disk.lines) <= Len(lines')
        /\ \A i \in 1 .. Len(disk.lines) : lines'[i] = disk.lines[i]
    BY <2>4, <1>1 DEF DiskInv
  <2>6. QED
    BY <2>2, <2>3, <2>5, <1>1 DEF LinkDiscipline, DiskInv
<1>8. ASSUME NEW w \in Writers, Sync(w)
      PROVE  (LinkDiscipline /\ DiskInv)'
  <2>1. UNCHANGED fileVars /\ disk'.lines = lines' /\ disk'.tail = tail'
    BY <1>8 DEF Sync, fileVars
  <2>2. QED
    BY <2>1, <1>1 DEF LinkDiscipline, DiskInv, AllLines, fileVars
<1>9. CASE PowerFails
  <2>1. PICK n \in Len(disk.lines) .. Len(lines) :
           /\ lines' = SubSeq(lines, 1, n)
           /\ \/ tail' = IF n = Len(disk.lines) THEN disk.tail ELSE <<>>
              \/ n = Len(lines) /\ tail' = tail
    BY <1>9 DEF PowerFails
  <2>2. n \in Nat /\ n \in 0 .. Len(lines)
    BY <1>1
  <2>3. Linked(lines') /\ lines' \in Seq(Lines)
    BY <2>1, <2>2, <1>1, <1>2, LinkedPrefix, PrefixType
  <2>4. Linked(AllLines)'
    <3>1. CASE tail' = <<>>
      BY <2>3, <3>1 DEF AllLines, Joined
    <3>2. CASE n = Len(lines) /\ tail' = tail
      <4>1. lines' = lines
        BY <2>1, <3>2, <1>1
      <4>2. QED
        BY <4>1, <3>2, <1>1 DEF AllLines
    <3>3. CASE n = Len(disk.lines) /\ tail' = disk.tail
      <4>1. /\ Len(lines') = Len(disk.lines)
            /\ \A i \in 1 .. Len(disk.lines) : lines'[i] = disk.lines[i]
        BY <2>1, <2>2, <3>3, <1>1, PrefixType DEF DiskInv
      <4>2. lines' = disk.lines
        BY <4>1, <2>3, <1>1, SeqEqual
      <4>3. QED
        BY <4>2, <3>3, <1>1 DEF AllLines, DiskInv
    <3>4. QED
      BY <2>1, <3>1, <3>2, <3>3
  <2>5. disk'.lines = lines' /\ disk'.tail = tail'
    BY <1>9 DEF PowerFails
  <2>6. QED
    BY <2>3, <2>4, <2>5 DEF LinkDiscipline, DiskInv, AllLines
<1>10. ASSUME NEW w \in Writers,
              \/ Open(w) \/ Begin(w) \/ Acquire(w) \/ ReadHead(w) \/ ReadFails(w)
              \/ ReturnOk(w) \/ ReturnErr(w) \/ Fault(w)
       PROVE  UNCHANGED fileVars /\ UNCHANGED disk
  BY <1>10 DEF Open, Begin, Acquire, ReadHead, ReadFails, ReturnOk, ReturnErr, Fault,
               IoError, AppendFails, OpenFails, Crash, fileVars
<1>11. QED
  BY <1>4, <1>5, <1>6, <1>7, <1>8, <1>9, <1>10
     DEF Next, AppendStep, Terminated, vars, fileVars

-----------------------------------------------------------------------------
(* The theorems.                                                            *)

LEMMA Invariance == Spec => []IInv
<1>1. Init => IInv
  BY Initially
<1>2. IInv /\ [Next]_vars => IInv'
  BY TypeStep, LockStep, WindowStep, LinkStep DEF IInv
<1>3. QED
  BY <1>1, <1>2, PTL DEF Spec

\* The variables keep their types.
THEOREM TypeSafety == Spec => []TypeOK
<1>1. IInv => TypeOK
  BY DEF IInv
<1>2. QED
  BY <1>1, Invariance, PTL

\* The lock of Store::append is exclusive: of two writers, at most one is
\* between File::lock and unlock.
THEOREM LockExclusion ==
    Spec => [](\A v, w \in Writers : pc[v] \in Holding /\ pc[w] \in Holding => v = w)
<1>1. IInv => \A v, w \in Writers : pc[v] \in Holding /\ pc[w] \in Holding => v = w
  BY DEF IInv, LockInv
<1>2. QED
  BY <1>1, Invariance, PTL

\* Every record on a line of its own is sealed against the line before it.
THEOREM LinkSafety == Spec => []LinkDiscipline
<1>1. IInv => LinkDiscipline
  BY DEF IInv
<1>2. QED
  BY <1>1, Invariance, PTL

\* A log all of whose lines parse is an intact chain.
THEOREM NoFalseBreakSafety == Spec => []NoFalseBreak
<1>1. IInv => NoFalseBreak
  <2> SUFFICES ASSUME IInv, Readable, NEW i \in DOMAIN ReadValues
               PROVE  ~Fails(ReadValues, i)
    BY DEF NoFalseBreak, Verifies, FailingRecords
  <2>1. AllLines \in Seq(Lines) /\ Linked(AllLines)
    BY JoinedType DEF IInv, TypeOK, LinkDiscipline, AllLines
  <2>2. /\ i \in DOMAIN AllLines
        /\ i # 1 => i - 1 \in DOMAIN AllLines
    BY <2>1 DEF ReadValues
  <2>3. ReadValues[i] = Seal(ReadValues[i].event, RunningPrev(ReadValues, i))
    <3>1. i # 1 => HashOf(AllLines[i - 1]) = ReadValues[i - 1].hash
      BY <2>2 DEF HashOf, Readable, ReadValues
    <3>2. QED
      BY <2>1, <2>2, <3>1 DEF Linked, Readable, ReadValues, RunningPrev
  <2>4. QED
    BY <2>3 DEF Fails, Seal
<1>2. QED
  BY <1>1, Invariance, PTL

-----------------------------------------------------------------------------
(* What append has acknowledged is on the disk.                              *)

\* The text of event e is whole on one of the lines.
Whole(ls, e) ==
    \E i \in DOMAIN ls : \E j \in DOMAIN ls[i] :
        ls[i][j].form = "whole" /\ ls[i][j].rec.event = e

\* Where the event of a writer is while its append is under way.
PlaceInv == \A w \in Writers :
    /\ pc[w] = "written" => /\ tail[Len(tail)].form = "whole"
                            /\ tail[Len(tail)].rec.event = Current(w)
    /\ pc[w] = "ended"   => Whole(lines, Current(w))
    /\ pc[w] = "synced"  => Whole(disk.lines, Current(w))

AckInv == \A e \in acked : Whole(disk.lines, e)

DInv == IInv /\ PlaceInv /\ AckInv

-----------------------------------------------------------------------------
\* What is whole on some lines is whole on any lines that begin with them.
LEMMA WholeGrows ==
    ASSUME NEW ls \in Seq(Lines), NEW ms \in Seq(Lines), NEW e,
           Len(ls) <= Len(ms), \A i \in 1 .. Len(ls) : ms[i] = ls[i],
           Whole(ls, e)
    PROVE  Whole(ms, e)
<1>1. PICK i \in DOMAIN ls : \E j \in DOMAIN ls[i] :
         ls[i][j].form = "whole" /\ ls[i][j].rec.event = e
    BY DEF Whole
<1>2. i \in DOMAIN ms /\ ms[i] = ls[i]
    BY <1>1
<1> QED
    BY <1>1, <1>2 DEF Whole

\* The newline makes a line of the tail.
LEMMA WholeLine ==
    ASSUME NEW ls \in Seq(Lines), NEW line \in Lines,
           line[Len(line)].form = "whole"
    PROVE  Whole(Append(ls, line), line[Len(line)].rec.event)
<1> DEFINE ms == Append(ls, line)
<1>1. line \in Seq(Pieces) /\ line # <<>>
    BY DEF Lines
<1>2. Len(line) \in DOMAIN line
    BY <1>1
<1>3. Len(ls) + 1 \in DOMAIN ms /\ ms[Len(ls) + 1] = line
    OBVIOUS
<1> QED
    BY <1>2, <1>3 DEF Whole

\* The writers between lock and unlock exclude each other.
LEMMA Alone ==
    ASSUME LockInv, NEW v \in Writers, NEW w \in Writers,
           pc[v] \in Holding, pc[w] \in Holding
    PROVE  v = w
BY DEF LockInv

\* The events on the disk stay there, and a writer answers Ok only for one of them.
LEMMA AckStep == DInv /\ [Next]_vars => AckInv'
<1> SUFFICES ASSUME DInv, [Next]_vars PROVE AckInv'
    OBVIOUS
<1>1. /\ TypeOK /\ DiskInv /\ PlaceInv /\ AckInv
      /\ lines \in Seq(Lines) /\ disk.lines \in Seq(Lines)
    BY DEF DInv, IInv, TypeOK
<1>2. ASSUME NEW e, Whole(disk.lines, e)
      PROVE  Whole(lines, e)
    BY <1>1, <1>2, WholeGrows DEF DiskInv
<1>3. CASE UNCHANGED <<disk, acked>>
    BY <1>1, <1>3 DEF AckInv
<1>4. ASSUME NEW w \in Writers, Sync(w)
      PROVE  AckInv'
    BY <1>1, <1>2, <1>4 DEF Sync, AckInv
<1>5. ASSUME NEW w \in Writers, ReturnOk(w)
      PROVE  AckInv'
    <2>1. /\ disk' = disk /\ acked' = acked \cup {Current(w)} /\ pc[w] = "synced"
        BY <1>5 DEF ReturnOk
    <2>2. Whole(disk.lines, Current(w))
        BY <2>1, <1>1 DEF PlaceInv
    <2> QED
        BY <2>1, <2>2, <1>1 DEF AckInv
<1>6. CASE PowerFails
    <2>1. PICK n \in Len(disk.lines) .. Len(lines) : lines' = SubSeq(lines, 1, n)
        BY <1>6 DEF PowerFails
    <2>2. n \in Nat /\ n <= Len(lines) /\ Len(disk.lines) <= n
        BY <2>1, <1>1
    <2>3. /\ lines' \in Seq(Lines) /\ Len(lines') = n
          /\ \A i \in 1 .. n : lines'[i] = lines[i]
        BY <2>1, <2>2, <1>1, PrefixType
    <2>4. /\ Len(disk.lines) <= Len(lines')
          /\ \A i \in 1 .. Len(disk.lines) : lines'[i] = disk.lines[i]
        BY <2>2, <2>3, <1>1 DEF DiskInv
    <2>5. \A e \in acked : Whole(lines', e)
        BY <2>3, <2>4, <1>1, WholeGrows DEF AckInv
    <2>6. disk'.lines = lines' /\ acked' = acked
        BY <1>6 DEF PowerFails
    <2> QED
        BY <2>5, <2>6 DEF AckInv
<1>7. ASSUME NEW w \in Writers,
             \/ Open(w) \/ Begin(w) \/ Acquire(w) \/ ReadHead(w) \/ ReadFails(w)
             \/ StartWrite(w) \/ FinishWrite(w) \/ WriteNewline(w) \/ ReturnErr(w) \/ Fault(w)
      PROVE  UNCHANGED <<disk, acked>>
    BY <1>7 DEF Open, Begin, Acquire, ReadHead, ReadFails, StartWrite, FinishWrite,
                WriteNewline, ReturnErr, Fault, IoError, AppendFails, OpenFails, Crash
<1> QED
    BY <1>3, <1>4, <1>5, <1>6, <1>7 DEF Next, AppendStep, Terminated, vars

\* The event of a writer moves from the tail to the lines and on to the disk.
LEMMA PlaceStep == DInv /\ [Next]_vars => PlaceInv'
<1> SUFFICES ASSUME DInv, [Next]_vars PROVE PlaceInv'
    OBVIOUS
<1> USE DEF Goto, Holding
<1>1. /\ TypeOK /\ LockInv /\ WriteInv /\ PlaceInv
      /\ lines \in Seq(Lines) /\ tail \in Seq(Pieces)
      /\ pc \in [Writers -> Steps] /\ next \in [Writers -> Nat \ {0}]
    BY DEF DInv, IInv, TypeOK
<1>2. ASSUME NEW w \in Writers, pc'[w] \notin {"written", "ended", "synced"},
             \A v \in Writers \ {w} : pc'[v] = pc[v] /\ next'[v] = next[v],
             UNCHANGED <<lines, tail, disk>>
      PROVE  PlaceInv'
    BY <1>1, <1>2 DEF PlaceInv, Current
<1>3. ASSUME NEW w \in Writers,
             \/ Open(w) \/ Begin(w) \/ Acquire(w) \/ ReadHead(w) \/ ReadFails(w)
             \/ ReturnOk(w) \/ ReturnErr(w) \/ Fault(w)
      PROVE  PlaceInv'
    <2>1. /\ pc'[w] \notin {"written", "ended", "synced"}
          /\ \A v \in Writers \ {w} : pc'[v] = pc[v] /\ next'[v] = next[v]
          /\ UNCHANGED <<lines, tail, disk>>
        BY <1>1, <1>3 DEF Open, Begin, Acquire, ReadHead, ReadFails, ReturnOk, ReturnErr,
                          Fault, IoError, AppendFails, OpenFails, Crash
    <2> QED
        BY <2>1, <1>2
<1>4. ASSUME NEW w \in Writers, pc[w] \in Holding, NEW step, pc' = [pc EXCEPT ![w] = step]
      PROVE  /\ pc'[w] = step
             /\ \A v \in Writers \ {w} : pc'[v] \notin {"written", "ended", "synced"}
    BY <1>1, <1>4, Alone
<1>5. ASSUME NEW w \in Writers, StartWrite(w)
      PROVE  PlaceInv'
    <2>1. pc'[w] = "writing" /\ \A v \in Writers \ {w} : pc'[v] \notin {"written", "ended", "synced"}
        BY <1>4, <1>5 DEF StartWrite
    <2> QED
        BY <2>1 DEF PlaceInv
<1>6. ASSUME NEW w \in Writers, FinishWrite(w)
      PROVE  PlaceInv'
    <2>1. pc'[w] = "written" /\ \A v \in Writers \ {w} : pc'[v] \notin {"written", "ended", "synced"}
        BY <1>4, <1>6 DEF FinishWrite
    <2>2. /\ tail # <<>> /\ next' = next
          /\ tail' = [tail EXCEPT ![Len(tail)] =
                        [form |-> "whole", rec |-> Seal(Current(w), head[w])]]
        BY <1>1, <1>6 DEF FinishWrite, WriteInv, Window
    <2>3. Len(tail) \in DOMAIN tail /\ Len(tail') = Len(tail)
        BY <2>2, <1>1
    <2>4. tail'[Len(tail')] = [form |-> "whole", rec |-> Seal(Current(w), head[w])]
        BY <2>2, <2>3
    <2>5. Current(w)' = Current(w)
        BY <2>2 DEF Current
    <2> QED
        BY <2>1, <2>4, <2>5 DEF PlaceInv, Seal
<1>7. ASSUME NEW w \in Writers, WriteNewline(w)
      PROVE  PlaceInv'
    <2>1. pc'[w] = "ended" /\ \A v \in Writers \ {w} : pc'[v] \notin {"written", "ended", "synced"}
        BY <1>4, <1>7 DEF WriteNewline
    <2>2. /\ tail \in Lines /\ lines' = Append(lines, tail)
          /\ tail[Len(tail)].form = "whole" /\ tail[Len(tail)].rec.event = Current(w)
        BY <1>1, <1>7 DEF WriteNewline, WriteInv, Window, PlaceInv, Lines
    <2>3. Current(w)' = Current(w)
        BY <1>7 DEF WriteNewline, Current
    <2>4. Whole(lines', Current(w))
        BY <2>2, <1>1, WholeLine
    <2> QED
        BY <2>1, <2>3, <2>4 DEF PlaceInv
<1>8. ASSUME NEW w \in Writers, Sync(w)
      PROVE  PlaceInv'
    <2>1. pc'[w] = "synced" /\ \A v \in Writers \ {w} : pc'[v] \notin {"written", "ended", "synced"}
        BY <1>4, <1>8 DEF Sync
    <2>2. Whole(lines, Current(w)) /\ disk'.lines = lines /\ Current(w)' = Current(w)
        BY <1>1, <1>8 DEF Sync, PlaceInv, Current
    <2> QED
        BY <2>1, <2>2 DEF PlaceInv
<1>9. CASE PowerFails
    BY <1>1, <1>9 DEF PowerFails, PlaceInv
<1>10. CASE UNCHANGED vars
    BY <1>1, <1>10 DEF vars, PlaceInv, Current
<1> QED
    BY <1>3, <1>5, <1>6, <1>7, <1>8, <1>9, <1>10 DEF Next, AppendStep, Terminated

-----------------------------------------------------------------------------
\* An event whose append returned Ok is whole on the disk, whatever is killed,
\* fails or loses power before or after.
THEOREM DurableSafety == Spec => []AckedDurable
<1>1. Init => PlaceInv /\ AckInv
    BY DEF Init, PlaceInv, AckInv
<1>2. DInv /\ [Next]_vars => (PlaceInv /\ AckInv)'
    BY AckStep, PlaceStep
<1>3. IInv /\ PlaceInv /\ AckInv /\ [Next]_vars => (PlaceInv /\ AckInv)'
    BY <1>2 DEF DInv
<1>4. AckInv => AckedDurable
    <2> SUFFICES ASSUME AckInv, NEW e \in acked
                 PROVE  \E p \in PiecesOf(disk.lines) :
                            LET piece == disk.lines[p[1]][p[2]]
                            IN  piece.form = "whole" /\ piece.rec.event = e
        BY DEF AckedDurable
    <2>1. PICK i \in DOMAIN disk.lines : \E j \in DOMAIN disk.lines[i] :
             disk.lines[i][j].form = "whole" /\ disk.lines[i][j].rec.event = e
        BY DEF AckInv, Whole
    <2>2. PICK j \in DOMAIN disk.lines[i] :
             disk.lines[i][j].form = "whole" /\ disk.lines[i][j].rec.event = e
        BY <2>1
    <2>3. <<i, j>> \in PiecesOf(disk.lines)
        <3>1. <<i, j>> \in {<<i, k>> : k \in DOMAIN disk.lines[i]}
            BY <2>2
        <3> QED
            BY <3>1 DEF PiecesOf
    <2> QED
        BY <2>2, <2>3
<1> QED
    BY <1>1, <1>3, <1>4, Invariance, PTL DEF Spec

-----------------------------------------------------------------------------
(* The text of a log: what is there stays, no event is there twice or out of *)
(* its turn, and where no append is broken off in the middle of its line,    *)
(* the log is the atomic one of ChainLog.                                    *)


\* A writer that has been past the first byte of the line of its event.
Begun == {"writing", "written", "ended", "synced", "failed", "crashed"}

EventAt(ls, p) == ls[p[1]][p[2]].rec.event

\* InOrderOnce, of any lines.
Ordered(ls) ==
    \A p, q \in PiecesOf(ls) :
        Before(p, q) /\ EventAt(ls, p)[1] = EventAt(ls, q)[1]
            => EventAt(ls, p)[2] < EventAt(ls, q)[2]

\* The writer of e has come to e.
Reached(e) == e[2] < next[e[1]] \/ (e[2] = next[e[1]] /\ pc[e[1]] \in Begun)

EventsOf(ls) == {EventAt(ls, p) : p \in PiecesOf(ls)}

Turns(ls) == \A e \in EventsOf(ls) : Reached(e)

\* The line that is being written is that of the writer's event.
WritingInv == \A w \in Writers : pc[w] \in Window =>
    /\ tail[Len(tail)].rec = Seal(Current(w), head[w])
    /\ tail[Len(tail)].form = "whole" <=> pc[w] = "written"

DiskLines == Joined(disk.lines, disk.tail)

TextInv ==
    /\ IInv
    /\ WritingInv
    /\ Ordered(AllLines) /\ Turns(AllLines)
    /\ Ordered(DiskLines) /\ Turns(DiskLines)

\* Where no line is broken off: every line is one record, and the tail is the
\* line that some writer is at.
WholeInv ==
    /\ \A i \in DOMAIN lines : Parses(lines[i])
    /\ tail # <<>> => Len(tail) = 1 /\ \E w \in Writers : pc[w] \in Window
    /\ \A w \in Writers : pc[w] \in {"ended", "synced"} =>
          \E i \in DOMAIN lines : lines[i][1].rec.event = Current(w)
    /\ OneRecordPerLine

-----------------------------------------------------------------------------
(* The pieces of a file.                                                    *)

\* ms holds nothing that ls does not hold in the same place.
Within(ms, ls) ==
    \A p \in PiecesOf(ms) : p \in PiecesOf(ls) /\ EventAt(ms, p) = EventAt(ls, p)

LEMMA PieceAt ==
    ASSUME NEW ls, NEW p
    PROVE  p \in PiecesOf(ls) <=> \E i \in DOMAIN ls : \E j \in DOMAIN ls[i] : p = <<i, j>>
BY DEF PiecesOf

LEMMA PieceType ==
    ASSUME NEW ls \in Seq(Lines), NEW p \in PiecesOf(ls)
    PROVE  /\ p[1] \in 1 .. Len(ls) /\ p[2] \in Nat /\ p = <<p[1], p[2]>>
           /\ ls[p[1]] \in Seq(Pieces) /\ p[2] \in 1 .. Len(ls[p[1]])
           /\ ls[p[1]][p[2]] \in Pieces
           /\ EventAt(ls, p) \in Events
<1>1. PICK i \in DOMAIN ls : \E j \in DOMAIN ls[i] : p = <<i, j>>  BY PieceAt
<1>2. PICK j \in DOMAIN ls[i] : p = <<i, j>>  BY <1>1
<1>3. i \in 1 .. Len(ls) /\ ls[i] \in Lines  OBVIOUS
<1>4. ls[i] \in Seq(Pieces)  BY <1>3 DEF Lines
<1>5. j \in 1 .. Len(ls[i]) /\ j \in Nat /\ ls[i][j] \in Pieces  BY <1>4
<1>6. ls[i][j].rec.event \in Events  BY <1>5 DEF Pieces, Records
<1> QED  BY <1>2, <1>3, <1>4, <1>5, <1>6 DEF EventAt

\* The unterminated rest comes behind the lines.
LEMMA JoinedPieces ==
    ASSUME NEW ls \in Seq(Lines), NEW t \in Seq(Pieces)
    PROVE  /\ Joined(ls, t) \in Seq(Lines)
           /\ \A p \in PiecesOf(ls) :
                 p \in PiecesOf(Joined(ls, t)) /\ Joined(ls, t)[p[1]] = ls[p[1]]
           /\ \A j \in 1 .. Len(t) :
                 /\ <<Len(ls) + 1, j>> \in PiecesOf(Joined(ls, t))
                 /\ Joined(ls, t)[Len(ls) + 1] = t
           /\ \A p \in PiecesOf(Joined(ls, t)) :
                 \/ p \in PiecesOf(ls)
                 \/ \E j \in 1 .. Len(t) : p = <<Len(ls) + 1, j>>
<1>1. CASE t = <<>>
  BY <1>1 DEF Joined
<1>2. CASE t # <<>>
  <2> DEFINE ms == Joined(ls, t)
  <2>1. ms = Append(ls, t) /\ t \in Lines  BY <1>2 DEF Joined, Lines
  <2>2. /\ ms \in Seq(Lines) /\ DOMAIN ms = 1 .. Len(ls) + 1
        /\ ms[Len(ls) + 1] = t /\ \A i \in 1 .. Len(ls) : ms[i] = ls[i]
    BY <2>1
  <2> HIDE DEF ms
  <2>3. \A p \in PiecesOf(ls) : p \in PiecesOf(ms) /\ ms[p[1]] = ls[p[1]]
    <3> TAKE p \in PiecesOf(ls)
    <3>1. p[1] \in 1 .. Len(ls) /\ p = <<p[1], p[2]>> /\ p[2] \in DOMAIN ls[p[1]]
      BY PieceType
    <3> QED  BY <2>2, <3>1, PieceAt
  <2>4. \A j \in 1 .. Len(t) : <<Len(ls) + 1, j>> \in PiecesOf(ms)
    BY <2>2, PieceAt
  <2>5. ASSUME NEW p \in PiecesOf(ms)
        PROVE  p \in PiecesOf(ls) \/ \E j \in 1 .. Len(t) : p = <<Len(ls) + 1, j>>
    <3>1. p[1] \in 1 .. Len(ls) + 1 /\ p = <<p[1], p[2]>> /\ p[2] \in DOMAIN ms[p[1]]
      BY <2>2, PieceType
    <3>2. CASE p[1] = Len(ls) + 1  BY <2>2, <3>1, <3>2
    <3>3. CASE p[1] # Len(ls) + 1
      <4>1. p[1] \in DOMAIN ls /\ p[2] \in DOMAIN ls[p[1]]  BY <2>2, <3>1, <3>3
      <4> QED  BY <3>1, <4>1, PieceAt
    <3> QED  BY <3>2, <3>3
  <2> QED  BY <2>2, <2>3, <2>4, <2>5 DEF ms
<1> QED  BY <1>1, <1>2

LEMMA OrderedWithin ==
    ASSUME NEW ls, NEW ms, Within(ms, ls), Ordered(ls)
    PROVE  Ordered(ms)
BY DEF Within, Ordered

\* A piece behind all the others, of an event that its writer has after its others.
LEMMA OrderedLast ==
    ASSUME NEW ls \in Seq(Lines), NEW ms \in Seq(Lines), Ordered(ls),
           NEW q \in PiecesOf(ms),
           \A p \in PiecesOf(ms) : \/ p = q
                                   \/ /\ p \in PiecesOf(ls) /\ EventAt(ms, p) = EventAt(ls, p)
                                      /\ Before(p, q),
           \A p \in PiecesOf(ls) : EventAt(ls, p)[1] = EventAt(ms, q)[1]
                                       => EventAt(ls, p)[2] < EventAt(ms, q)[2]
    PROVE  Ordered(ms)
<1> SUFFICES ASSUME NEW x \in PiecesOf(ms), NEW y \in PiecesOf(ms), Before(x, y),
                    EventAt(ms, x)[1] = EventAt(ms, y)[1]
             PROVE  EventAt(ms, x)[2] < EventAt(ms, y)[2]
  BY DEF Ordered
<1>1. x[1] \in Nat /\ x[2] \in Nat /\ q[1] \in Nat /\ q[2] \in Nat /\ y[1] \in Nat /\ y[2] \in Nat
  BY PieceType
<1>2. x # q
  <2> SUFFICES ASSUME x = q PROVE FALSE  OBVIOUS
  <2>1. y = q \/ Before(y, q)  OBVIOUS
  <2> QED  BY <1>1, <2>1 DEF Before
<1>3. x \in PiecesOf(ls) /\ EventAt(ms, x) = EventAt(ls, x)  BY <1>2
<1>4. CASE y = q  BY <1>3, <1>4
<1>5. CASE y # q  BY <1>3, <1>5 DEF Ordered
<1> QED  BY <1>4, <1>5

LEMMA GrowsSame == ASSUME NEW ls  PROVE Grows(ls, ls)
BY DEF Grows

\* Where the unterminated line only grows, so does the file.
LEMMA GrowsTail ==
    ASSUME NEW ls \in Seq(Lines), NEW t \in Seq(Pieces), NEW u \in Seq(Pieces),
           Len(t) <= Len(u),
           \A j \in 1 .. Len(t) : u[j].rec = t[j].rec /\ (t[j].form = "whole" => u[j] = t[j])
    PROVE  Grows(Joined(ls, t), Joined(ls, u))
<1> DEFINE old == Joined(ls, t)
           new == Joined(ls, u)
<1> SUFFICES ASSUME NEW p \in PiecesOf(old)
             PROVE  /\ p \in PiecesOf(new)
                    /\ old[p[1]][p[2]].rec = new[p[1]][p[2]].rec
                    /\ old[p[1]][p[2]].form = "whole" => new[p[1]][p[2]] = old[p[1]][p[2]]
  BY DEF Grows
<1>1. CASE p \in PiecesOf(ls)
  <2>1. old[p[1]] = ls[p[1]] /\ new[p[1]] = ls[p[1]] /\ p \in PiecesOf(new)
    BY <1>1, JoinedPieces
  <2> QED  BY <2>1
<1>2. ASSUME NEW j \in 1 .. Len(t), p = <<Len(ls) + 1, j>>
      PROVE  /\ p \in PiecesOf(new)
             /\ old[p[1]][p[2]].rec = new[p[1]][p[2]].rec
             /\ old[p[1]][p[2]].form = "whole" => new[p[1]][p[2]] = old[p[1]][p[2]]
  <2>1. j \in 1 .. Len(u)  OBVIOUS
  <2>2. old[Len(ls) + 1] = t /\ new[Len(ls) + 1] = u /\ p \in PiecesOf(new)
    BY <1>2, <2>1, JoinedPieces
  <2>3. p[1] = Len(ls) + 1 /\ p[2] = j  BY <1>2
  <2> QED  BY <2>2, <2>3
<1> QED  BY <1>1, <1>2, JoinedPieces

-----------------------------------------------------------------------------
(* What a step does to the file.                                            *)

\* Only these steps change the text, and only these what the disk holds of it.
LEMMA TextStays ==
    ASSUME IInv, [Next]_vars, ~PowerFails,
           ~(\E w \in Writers : StartWrite(w) \/ FinishWrite(w))
    PROVE  AllLines' = AllLines /\ (DiskLines' = DiskLines \/ DiskLines' = AllLines)
<1>1. CASE UNCHANGED <<lines, tail, disk>>
  BY <1>1 DEF AllLines, DiskLines
<1>2. ASSUME NEW w \in Writers, WriteNewline(w)
      PROVE  AllLines' = AllLines /\ DiskLines' = DiskLines
  <2>1. tail # <<>>  BY <1>2 DEF WriteNewline, IInv, WriteInv, Window
  <2> QED  BY <1>2, <2>1 DEF WriteNewline, AllLines, DiskLines, Joined
<1>3. ASSUME NEW w \in Writers, Sync(w)
      PROVE  AllLines' = AllLines /\ DiskLines' = AllLines
  BY <1>3 DEF Sync, AllLines, DiskLines
<1>4. ASSUME NEW w \in Writers,
             \/ Open(w) \/ Begin(w) \/ Acquire(w) \/ ReadHead(w) \/ ReadFails(w)
             \/ ReturnOk(w) \/ ReturnErr(w) \/ Fault(w)
      PROVE  UNCHANGED <<lines, tail, disk>>
  BY <1>4 DEF Open, Begin, Acquire, ReadHead, ReadFails, ReturnOk, ReturnErr, Fault,
              IoError, AppendFails, OpenFails, Crash
<1> QED  BY <1>1, <1>2, <1>3, <1>4 DEF Next, AppendStep, Terminated, vars

\* A power loss leaves a part of the text, or what the disk held.
LEMMA PowerText ==
    ASSUME IInv, PowerFails
    PROVE  /\ AllLines' = DiskLines \/ Within(AllLines', AllLines)
           /\ DiskLines' = AllLines'
<1>1. /\ lines \in Seq(Lines) /\ tail \in Seq(Pieces)
      /\ disk.lines \in Seq(Lines) /\ disk.tail \in Seq(Pieces)
  BY DEF IInv, TypeOK
<1>2. PICK n \in Len(disk.lines) .. Len(lines) :
         /\ lines' = SubSeq(lines, 1, n)
         /\ \/ tail' = IF n = Len(disk.lines) THEN disk.tail ELSE <<>>
            \/ n = Len(lines) /\ tail' = tail
  BY DEF PowerFails
<1>3. /\ n \in Nat /\ n <= Len(lines) /\ lines' \in Seq(Lines) /\ Len(lines') = n
      /\ \A i \in 1 .. n : lines'[i] = lines[i]
  BY <1>1, <1>2, PrefixType
<1>4. CASE tail' = <<>>
  <2>1. AllLines' = lines'  BY <1>4 DEF AllLines, Joined
  <2>2. ASSUME NEW p \in PiecesOf(lines')
        PROVE  p \in PiecesOf(AllLines) /\ EventAt(lines', p) = EventAt(AllLines, p)
    <3>1. p[1] \in 1 .. n /\ p = <<p[1], p[2]>> /\ p[2] \in DOMAIN lines'[p[1]]
      BY <1>3, PieceType
    <3>2. lines'[p[1]] = lines[p[1]] /\ p[1] \in DOMAIN lines  BY <1>1, <1>3, <3>1
    <3>3. p \in PiecesOf(lines)  BY <3>1, <3>2, PieceAt
    <3>4. p \in PiecesOf(AllLines) /\ AllLines[p[1]] = lines[p[1]]
      BY <1>1, <3>3, JoinedPieces DEF AllLines
    <3> QED  BY <3>2, <3>4 DEF EventAt
  <2> QED  BY <2>1, <2>2 DEF Within, DiskLines, AllLines, PowerFails
<1>5. CASE n = Len(lines) /\ tail' = tail
  <2>1. lines' = lines  BY <1>1, <1>3, <1>5, SeqEqual
  <2>2. AllLines' = AllLines  BY <1>5, <2>1 DEF AllLines
  <2> QED  BY <2>2 DEF Within, DiskLines, AllLines, PowerFails
<1>6. CASE n = Len(disk.lines) /\ tail' = disk.tail
  <2>1. \A i \in 1 .. n : lines'[i] = disk.lines[i]  BY <1>3, <1>6 DEF IInv, DiskInv
  <2>2. lines' = disk.lines  BY <1>1, <1>3, <1>6, <2>1, SeqEqual
  <2> QED  BY <1>6, <2>2 DEF DiskLines, AllLines, PowerFails
<1> QED  BY <1>2, <1>4, <1>5, <1>6

\* A step of one writer is none of another's.
LEMMA Stay ==
    ASSUME TypeOK, NEW v \in Writers, AppendStep(v) \/ Fault(v), NEW w \in Writers, v # w
    PROVE  pc'[w] = pc[w] /\ next'[w] = next[w] /\ head'[w] = head[w]
<1>1. /\ pc' = [pc EXCEPT ![v] = pc'[v]]
      /\ next' = next \/ next' = [next EXCEPT ![v] = @ + 1]
      /\ \/ head' = head \/ head' = [head EXCEPT ![v] = Genesis]
         \/ head' = [head EXCEPT ![v] = LastHash(AllLines)]
  <2>1. CASE Open(v) \/ Begin(v) \/ Acquire(v) \/ ReadHead(v) \/ ReadFails(v)
    BY <2>1 DEF Open, Begin, Acquire, ReadHead, ReadFails, Goto, TypeOK
  <2>2. CASE StartWrite(v) \/ FinishWrite(v) \/ WriteNewline(v) \/ Sync(v)
    BY <2>2 DEF StartWrite, FinishWrite, WriteNewline, Sync, Goto, TypeOK
  <2>3. CASE ReturnOk(v) \/ ReturnErr(v)
    BY <2>3 DEF ReturnOk, ReturnErr, Goto, TypeOK
  <2>4. CASE Fault(v)
    BY <2>4 DEF Fault, IoError, AppendFails, OpenFails, Crash, Goto, TypeOK
  <2> QED  BY <2>1, <2>2, <2>3, <2>4 DEF AppendStep
<1> QED  BY <1>1 DEF TypeOK

\* A writer that has come to an event does not go back behind it.
LEMMA ReachedStays ==
    ASSUME TypeOK, [Next]_vars, NEW e \in Events, Reached(e)
    PROVE  Reached(e)'
<1> DEFINE w == e[1]
<1>1. w \in Writers /\ e[2] \in Nat  BY WritersAssumption DEF Events
<1>2. pc \in [Writers -> Steps] /\ next[w] \in Nat  BY <1>1 DEF TypeOK
<1> HIDE DEF w
<1>3. CASE pc'[w] = pc[w] /\ next'[w] = next[w]
  BY <1>3 DEF Reached, w
<1>4. CASE next'[w] = next[w] + 1
  BY <1>1, <1>2, <1>4 DEF Reached, w
<1>5. CASE next'[w] = next[w] /\ (pc[w] \in Begun => pc'[w] \in Begun)
  BY <1>5 DEF Reached, w
<1>6. CASE PowerFails
  BY <1>1, <1>2, <1>5, <1>6 DEF PowerFails, Begun
<1>7. ASSUME NEW v \in Writers, AppendStep(v) \/ Fault(v), v # w
      PROVE  pc'[w] = pc[w] /\ next'[w] = next[w]
  BY <1>1, <1>2, <1>7, Stay
<1>8. CASE AppendStep(w)
  <2>1. CASE Open(w) \/ Begin(w) \/ Acquire(w) \/ ReadHead(w) \/ ReadFails(w)
    BY <1>1, <1>2, <1>5, <2>1 DEF Open, Begin, Acquire, ReadHead, ReadFails, Goto, Begun
  <2>2. CASE StartWrite(w) \/ FinishWrite(w) \/ WriteNewline(w) \/ Sync(w)
    BY <1>1, <1>2, <1>5, <2>2 DEF StartWrite, FinishWrite, WriteNewline, Sync, Goto, Begun
  <2>3. CASE ReturnOk(w) \/ ReturnErr(w)
    BY <1>1, <1>2, <1>4, <2>3 DEF ReturnOk, ReturnErr, TypeOK
  <2> QED  BY <1>8, <2>1, <2>2, <2>3 DEF AppendStep
<1>9. CASE Fault(w)
  <2>1. CASE AppendFails(w)
    BY <1>1, <1>2, <1>4, <2>1 DEF AppendFails, TypeOK
  <2>2. CASE IoError(w) \/ OpenFails(w) \/ Crash(w)
    BY <1>1, <1>2, <1>5, <2>2 DEF IoError, OpenFails, Crash, Goto, Begun
  <2> QED  BY <1>9, <2>1, <2>2 DEF Fault
<1>10. CASE UNCHANGED vars
  BY <1>3, <1>10 DEF vars
<1> QED  BY <1>3, <1>6, <1>7, <1>8, <1>9, <1>10 DEF Next, Terminated

\* The writer that writes is the only one that is inside, and the last piece of
\* the file is its.
LEMMA WritingStep == TextInv /\ [Next]_vars => WritingInv'
<1> SUFFICES ASSUME TextInv, [Next]_vars PROVE WritingInv'
  OBVIOUS
<1> USE DEF Goto, Window
<1>1. /\ TypeOK /\ LockInv /\ WritingInv /\ TypeOK'
      /\ tail \in Seq(Pieces) /\ pc \in [Writers -> Steps]
  BY TypeStep DEF TextInv, IInv, TypeOK
<1>2. ASSUME NEW v \in Writers, AppendStep(v) \/ Fault(v),
             NEW w \in Writers, w # v, pc[v] \in Holding
      PROVE  pc'[w] \notin Window
  <2>1. pc'[w] = pc[w]  BY <1>1, <1>2, Stay
  <2>2. pc[w] \notin Holding  BY <1>1, <1>2 DEF LockInv
  <2> QED  BY <2>1, <2>2 DEF Holding
<1>3. ASSUME NEW w \in Writers, StartWrite(w)
      PROVE  WritingInv'
  <2>1. PICK form \in {"cut", "split"} :
           tail' = Append(tail, [form |-> form, rec |-> Seal(Current(w), head[w])])
    BY <1>3 DEF StartWrite
  <2>2. tail'[Len(tail')] = [form |-> form, rec |-> Seal(Current(w), head[w])]
    BY <1>1, <2>1
  <2>3. pc'[w] = "writing" /\ head'[w] = head[w] /\ Current(w)' = Current(w)
    BY <1>1, <1>3 DEF StartWrite, Current
  <2>4. \A v \in Writers \ {w} : pc'[v] \notin Window
    BY <1>2, <1>3 DEF AppendStep, StartWrite, Holding
  <2> QED  BY <2>2, <2>3, <2>4 DEF WritingInv
<1>4. ASSUME NEW w \in Writers, FinishWrite(w)
      PROVE  WritingInv'
  <2>1. Len(tail) \in 1 .. Len(tail)
    BY <1>1, <1>4 DEF TextInv, IInv, WriteInv, FinishWrite
  <2>2. /\ tail' = [tail EXCEPT ![Len(tail)] = [form |-> "whole", rec |-> Seal(Current(w), head[w])]]
        /\ [form |-> "whole", rec |-> Seal(Current(w), head[w])] = tail'[Len(tail)]
    BY <1>1, <1>4, <2>1 DEF FinishWrite
  <2>3. Len(tail') = Len(tail)
    BY <1>1, <2>2
  <2>4. pc'[w] = "written" /\ head'[w] = head[w] /\ Current(w)' = Current(w)
    BY <1>1, <1>4 DEF FinishWrite, Current
  <2>5. \A v \in Writers \ {w} : pc'[v] \notin Window
    BY <1>2, <1>4 DEF AppendStep, FinishWrite, Holding
  <2> QED  BY <2>2, <2>3, <2>4, <2>5 DEF WritingInv
<1>5. ASSUME NEW w \in Writers, WriteNewline(w)
      PROVE  WritingInv'
  <2>1. pc'[w] = "ended"  BY <1>1, <1>5 DEF WriteNewline
  <2>2. \A v \in Writers \ {w} : pc'[v] \notin Window
    BY <1>2, <1>5 DEF AppendStep, WriteNewline, Holding
  <2> QED  BY <2>1, <2>2 DEF WritingInv
<1>6. ASSUME NEW v \in Writers, AppendStep(v) \/ Fault(v), tail' = tail, pc'[v] \notin Window
      PROVE  WritingInv'
  <2> SUFFICES ASSUME NEW w \in Writers, pc'[w] \in Window
               PROVE  /\ tail'[Len(tail')].rec = Seal(Current(w)', head'[w])
                      /\ tail'[Len(tail')].form = "whole" <=> pc'[w] = "written"
    BY DEF WritingInv
  <2>1. w # v  BY <1>6
  <2>2. pc'[w] = pc[w] /\ head'[w] = head[w] /\ Current(w)' = Current(w)
    BY <1>1, <1>6, <2>1, Stay DEF Current
  <2> QED  BY <1>1, <1>6, <2>2 DEF WritingInv
<1>7. ASSUME NEW v \in Writers,
             \/ Open(v) \/ Begin(v) \/ Acquire(v) \/ ReadHead(v) \/ ReadFails(v)
             \/ Sync(v) \/ ReturnOk(v) \/ ReturnErr(v) \/ Fault(v)
      PROVE  tail' = tail /\ pc'[v] \notin Window
  BY <1>1, <1>7 DEF Open, Begin, Acquire, ReadHead, ReadFails, Sync, ReturnOk, ReturnErr,
                    Fault, IoError, AppendFails, OpenFails, Crash
<1>8. CASE PowerFails
  BY <1>8 DEF PowerFails, WritingInv
<1>9. CASE UNCHANGED vars
  BY <1>1, <1>9 DEF vars, WritingInv, Current
<1> QED  BY <1>3, <1>4, <1>5, <1>6, <1>7, <1>8, <1>9 DEF Next, AppendStep, Terminated

\* What is out of the line of an event is the last piece of the file, and a new one.
LEMMA BeginText ==
    ASSUME TextInv, [Next]_vars, NEW w \in Writers, StartWrite(w)
    PROVE  /\ Ordered(AllLines)' /\ Turns(AllLines)'
           /\ Grows(AllLines, AllLines')
<1>1. /\ TypeOK /\ TypeOK' /\ lines \in Seq(Lines) /\ tail \in Seq(Pieces)
      /\ pc \in [Writers -> Steps] /\ next \in [Writers -> Nat \ {0}]
      /\ tail' \in Seq(Pieces) /\ lines' = lines
  BY TypeStep DEF TextInv, IInv, TypeOK, StartWrite
<1>2. PICK form \in {"cut", "split"} :
         tail' = Append(tail, [form |-> form, rec |-> Seal(Current(w), head[w])])
  BY DEF StartWrite
<1> DEFINE n == Len(tail) + 1
           q == <<Len(lines) + 1, n>>
<1>3. /\ Len(tail) \in Nat /\ Len(tail') = n /\ \A j \in 1 .. Len(tail) : tail'[j] = tail[j]
      /\ tail'[n] = [form |-> form, rec |-> Seal(Current(w), head[w])]
  BY <1>1, <1>2
<1>4. AllLines = Joined(lines, tail) /\ AllLines' = Joined(lines, tail')
  BY <1>1 DEF AllLines
<1>5. AllLines \in Seq(Lines) /\ AllLines' \in Seq(Lines)
  BY <1>1, <1>4, JoinedPieces
<1>6. Grows(AllLines, AllLines')
  <2>1. Len(tail) <= Len(tail')  BY <1>3
  <2>2. \A j \in 1 .. Len(tail) : tail'[j] = tail[j]  BY <1>3
  <2> HIDE DEF n
  <2> QED  BY <1>1, <1>4, <2>1, <2>2, GrowsTail
<1>7. q \in PiecesOf(AllLines') /\ EventAt(AllLines', q) = Current(w)
  <2>1. n \in 1 .. Len(tail')  BY <1>3
  <2>2. q \in PiecesOf(AllLines') /\ AllLines'[Len(lines) + 1] = tail'
    BY <1>1, <1>4, <2>1, JoinedPieces
  <2>3. EventAt(AllLines', q) = tail'[n].rec.event  BY <2>2 DEF EventAt
  <2> QED  BY <1>3, <2>2, <2>3 DEF Seal
<1>8. ASSUME NEW p \in PiecesOf(AllLines'), p # q
      PROVE  /\ p \in PiecesOf(AllLines) /\ EventAt(AllLines', p) = EventAt(AllLines, p)
             /\ Before(p, q)
  <2>1. CASE p \in PiecesOf(lines)
    <3>1. /\ p \in PiecesOf(AllLines)
          /\ AllLines[p[1]] = lines[p[1]] /\ AllLines'[p[1]] = lines[p[1]]
      BY <1>1, <1>4, <2>1, JoinedPieces
    <3>2. p[1] \in 1 .. Len(lines)  BY <1>1, <2>1, PieceType
    <3> QED  BY <1>1, <3>1, <3>2 DEF EventAt, Before
  <2>2. ASSUME NEW j \in 1 .. Len(tail'), p = <<Len(lines) + 1, j>>
        PROVE  /\ p \in PiecesOf(AllLines) /\ EventAt(AllLines', p) = EventAt(AllLines, p)
               /\ Before(p, q)
    <3>1. j # n  BY <1>8, <2>2
    <3>2. j \in 1 .. Len(tail) /\ j < n  BY <1>3, <3>1
    <3>3. /\ p \in PiecesOf(AllLines) /\ AllLines[Len(lines) + 1] = tail
          /\ AllLines'[Len(lines) + 1] = tail'
      BY <1>1, <1>4, <2>2, <3>2, JoinedPieces
    <3>4. p[1] = Len(lines) + 1 /\ p[2] = j  BY <2>2
    <3> QED  BY <1>3, <3>2, <3>3, <3>4 DEF EventAt, Before
  <2> QED  BY <1>1, <1>4, <2>1, <2>2, JoinedPieces
<1>9. ASSUME NEW p \in PiecesOf(AllLines), EventAt(AllLines, p)[1] = w
      PROVE  EventAt(AllLines, p)[2] < next[w]
  <2>1. Reached(EventAt(AllLines, p))  BY DEF TextInv, Turns, EventsOf
  <2> QED  BY <1>9, <2>1 DEF Reached, Begun, StartWrite
<1>10. Ordered(AllLines')
  <2>1. Current(w)[1] = w /\ Current(w)[2] = next[w]  BY DEF Current
  <2>2. \A p \in PiecesOf(AllLines) : EventAt(AllLines, p)[1] = EventAt(AllLines', q)[1]
             => EventAt(AllLines, p)[2] < EventAt(AllLines', q)[2]
    BY <1>7, <1>9, <2>1
  <2> HIDE DEF q
  <2> QED  BY <1>5, <1>7, <1>8, <2>2, OrderedLast DEF TextInv
<1>11. Turns(AllLines)'
  <2> SUFFICES ASSUME NEW e \in EventsOf(AllLines)'  PROVE Reached(e)'
    BY DEF Turns
  <2>1. PICK p \in PiecesOf(AllLines') : e = EventAt(AllLines', p)
    BY DEF EventsOf, EventAt
  <2>2. CASE p = q
    <3>1. pc'[w] = "writing" /\ next' = next  BY <1>1 DEF StartWrite, Goto
    <3>2. e = <<w, next[w]>>  BY <1>7, <2>1, <2>2 DEF Current
    <3> QED  BY <3>1, <3>2 DEF Reached, Begun
  <2>3. CASE p # q
    <3>1. p \in PiecesOf(AllLines) /\ e = EventAt(AllLines, p)
      BY <1>8, <2>1, <2>3
    <3>2. e \in Events  BY <1>5, <3>1, PieceType
    <3>3. Reached(e)  BY <3>1 DEF TextInv, Turns, EventsOf
    <3> QED  BY <1>1, <3>2, <3>3, ReachedStays
  <2> QED  BY <2>2, <2>3
<1> QED  BY <1>6, <1>10, <1>11

\* The line becomes whole in its place.
LEMMA FinishText ==
    ASSUME TextInv, [Next]_vars, NEW w \in Writers, FinishWrite(w)
    PROVE  Within(AllLines', AllLines) /\ Grows(AllLines, AllLines')
<1>1. /\ lines \in Seq(Lines) /\ tail \in Seq(Pieces) /\ tail' \in Seq(Pieces) /\ lines' = lines
  BY TypeStep DEF TextInv, IInv, TypeOK, FinishWrite
<1> DEFINE n == Len(tail)
<1>2. n \in 1 .. Len(tail)
  BY <1>1 DEF FinishWrite, TextInv, IInv, WriteInv, Window
<1>3. tail[n].rec = Seal(Current(w), head[w]) /\ tail[n].form # "whole"
  BY DEF FinishWrite, TextInv, WritingInv, Window
<1>4. /\ Len(tail') = Len(tail)
      /\ tail'[n] = [form |-> "whole", rec |-> Seal(Current(w), head[w])]
      /\ \A j \in 1 .. Len(tail) : j # n => tail'[j] = tail[j]
  <2>1. tail' = [tail EXCEPT ![n] = [form |-> "whole", rec |-> Seal(Current(w), head[w])]]
    BY DEF FinishWrite
  <2>2. Len(tail') = Len(tail)  BY <1>1, <2>1
  <2>3. n \in DOMAIN tail /\ DOMAIN tail = 1 .. Len(tail)  BY <1>1, <1>2
  <2> HIDE DEF n
  <2> QED  BY <2>1, <2>2, <2>3, Zenon
<1>5. \A j \in 1 .. Len(tail) :
         tail'[j].rec = tail[j].rec /\ (tail[j].form = "whole" => tail'[j] = tail[j])
  BY <1>3, <1>4
<1>6. AllLines = Joined(lines, tail) /\ AllLines' = Joined(lines, tail')
  BY <1>1 DEF AllLines
<1>7. Grows(AllLines, AllLines')
  <2>1. Len(tail) <= Len(tail')  BY <1>1, <1>4
  <2> QED  BY <1>1, <1>5, <1>6, <2>1, GrowsTail
<1>8. ASSUME NEW p \in PiecesOf(AllLines')
      PROVE  p \in PiecesOf(AllLines) /\ EventAt(AllLines', p) = EventAt(AllLines, p)
  <2>1. p \in PiecesOf(AllLines)
    <3>1. CASE p \in PiecesOf(lines)  BY <1>1, <1>6, <3>1, JoinedPieces
    <3>2. CASE \E j \in 1 .. Len(tail') : p = <<Len(lines) + 1, j>>
      BY <1>1, <1>4, <1>6, <3>2, JoinedPieces
    <3> QED  BY <1>1, <1>6, <3>1, <3>2, JoinedPieces
  <2>2. AllLines[p[1]][p[2]].rec = AllLines'[p[1]][p[2]].rec
    BY <1>7, <2>1 DEF Grows
  <2> QED  BY <2>1, <2>2 DEF EventAt
<1> QED  BY <1>7, <1>8 DEF Within

LEMMA TextStep == TextInv /\ [Next]_vars => TextInv'
<1> SUFFICES ASSUME TextInv, [Next]_vars PROVE TextInv'
  OBVIOUS
<1>1. IInv' /\ WritingInv'
  BY TypeStep, LockStep, WindowStep, LinkStep, WritingStep DEF TextInv, IInv
<1>2. TypeOK /\ AllLines \in Seq(Lines) /\ DiskLines \in Seq(Lines)
  BY JoinedType DEF TextInv, IInv, TypeOK, AllLines, DiskLines
<1>3. ASSUME NEW e \in EventsOf(AllLines) \cup EventsOf(DiskLines)
      PROVE  Reached(e)'
  <2>1. e \in Events  BY <1>2, PieceType DEF EventsOf
  <2>2. Reached(e)  BY DEF TextInv, Turns
  <2> QED  BY <1>2, <2>1, <2>2, ReachedStays
<1>4. \A ls, ms : Within(ms, ls) => EventsOf(ms) \subseteq EventsOf(ls)
  BY DEF Within, EventsOf
<1>5. \/ AllLines' \in {AllLines, DiskLines}
      \/ Within(AllLines', AllLines)
      \/ Ordered(AllLines)' /\ Turns(AllLines)'
  <2>1. CASE PowerFails  BY <2>1, PowerText DEF TextInv
  <2>2. CASE \E w \in Writers : StartWrite(w) \/ FinishWrite(w)
    BY <2>2, BeginText, FinishText
  <2>3. CASE ~PowerFails /\ ~(\E w \in Writers : StartWrite(w) \/ FinishWrite(w))
    BY <2>3, TextStays DEF TextInv
  <2> QED  BY <2>1, <2>2, <2>3
<1>6. DiskLines' \in {DiskLines, AllLines, AllLines'}
  <2>1. CASE PowerFails  BY <2>1, PowerText DEF TextInv
  <2>2. CASE \E w \in Writers : StartWrite(w) \/ FinishWrite(w)
    BY <2>2 DEF StartWrite, FinishWrite, DiskLines
  <2>3. CASE ~PowerFails /\ ~(\E w \in Writers : StartWrite(w) \/ FinishWrite(w))
    BY <2>3, TextStays DEF TextInv
  <2> QED  BY <2>1, <2>2, <2>3
<1>7. Ordered(AllLines)
  BY DEF TextInv
<1>8. Ordered(DiskLines)
  BY DEF TextInv
<1>9. Ordered(AllLines')
  <2>1. CASE Ordered(AllLines)'  BY <2>1 DEF Ordered, EventAt
  <2> QED  BY <1>5, <1>7, <1>8, <2>1, OrderedWithin
<1>10. Turns(AllLines)'
  <2>1. CASE EventsOf(AllLines') \subseteq EventsOf(AllLines) \cup EventsOf(DiskLines)
    <3> SUFFICES ASSUME NEW e \in EventsOf(AllLines)'  PROVE Reached(e)'
      BY DEF Turns
    <3>1. e \in EventsOf(AllLines')  BY DEF EventsOf, EventAt
    <3> QED  BY <1>3, <2>1, <3>1
  <2>2. CASE Turns(AllLines)'  BY <2>2
  <2> QED  BY <1>4, <1>5, <2>1, <2>2
<1>11. Ordered(DiskLines')
  BY <1>6, <1>7, <1>8, <1>9
<1>12. Turns(DiskLines)'
  <2> SUFFICES ASSUME NEW e \in EventsOf(DiskLines)'  PROVE Reached(e)'
    BY DEF Turns
  <2>1. e \in EventsOf(DiskLines')  BY DEF EventsOf, EventAt
  <2>2. CASE DiskLines' \in {DiskLines, AllLines}  BY <1>3, <2>1, <2>2
  <2>3. CASE DiskLines' = AllLines'
    <3>1. e \in EventsOf(AllLines)'  BY <2>1, <2>3 DEF EventsOf, EventAt
    <3> QED  BY <1>10, <3>1 DEF Turns
  <2> QED  BY <1>6, <2>2, <2>3
<1> QED  BY <1>1, <1>9, <1>10, <1>11, <1>12 DEF TextInv, Ordered, EventAt

-----------------------------------------------------------------------------
(* The theorems about the text.                                             *)

LEMMA TextInitially == Init => TextInv
<1> SUFFICES ASSUME Init PROVE TextInv
  OBVIOUS
<1>1. IInv /\ WritingInv
  BY Initially DEF Init, WritingInv, Window
<1>2. AllLines = <<>> /\ DiskLines = <<>>
  BY DEF Init, AllLines, DiskLines, Joined
<1>3. PiecesOf(<<>>) = {}
  BY PieceAt
<1> QED
  BY <1>1, <1>2, <1>3 DEF TextInv, Ordered, Turns, EventsOf

LEMMA TextInvariance == Spec => []TextInv
BY TextInitially, TextStep, PTL DEF Spec

\* The events of one process are in the log in the order it appended them, and
\* none is there twice, whoever is killed, fails or loses power where.
THEOREM OrderSafety == Spec => []InOrderOnce
<1>1. TextInv => InOrderOnce
  BY DEF TextInv, Ordered, InOrderOnce, EventAt
<1> QED
  BY <1>1, TextInvariance, PTL

\* Text that an append has put into the file stays where it is, whole records as
\* they are; only a power loss takes text away.
THEOREM TextStaysSafety == Spec => NeverRewrites
<1>1. TextInv /\ [Next]_vars => [PowerFails \/ Grows(AllLines, AllLines')]_vars
  <2> SUFFICES ASSUME TextInv, [Next]_vars, ~PowerFails
               PROVE  Grows(AllLines, AllLines')
    OBVIOUS
  <2>1. CASE \E w \in Writers : StartWrite(w) \/ FinishWrite(w)
    BY <2>1, BeginText, FinishText
  <2>2. CASE ~(\E w \in Writers : StartWrite(w) \/ FinishWrite(w))
    <3>1. AllLines' = AllLines  BY <2>2, TextStays DEF TextInv
    <3> QED  BY <3>1, GrowsSame
  <2> QED  BY <2>1, <2>2
<1> QED
  BY <1>1, TextInvariance, PTL DEF Spec, NeverRewrites

-----------------------------------------------------------------------------
(* The atomic log.                                                          *)

\* No append is broken off between the first byte of its line and the newline.
NoTornLine == CrashAt \cap Window = {} /\ IoErrorAt \cap Window = {} /\ PowerLoss = FALSE

\* The event is on a line of its own.
OnLine(ls, e) == \E i \in DOMAIN ls : Parses(ls[i]) /\ ls[i][1].rec.event = e

LEMMA OnLineAppend ==
    ASSUME NEW ls \in Seq(Lines), NEW line \in Lines
    PROVE  /\ \A i \in DOMAIN ls : i \in DOMAIN Append(ls, line) /\ Append(ls, line)[i] = ls[i]
           /\ \A e : OnLine(ls, e) => OnLine(Append(ls, line), e)
           /\ Parses(line) => OnLine(Append(ls, line), line[1].rec.event)
<1> DEFINE ms == Append(ls, line)
<1>1. /\ DOMAIN ms = 1 .. Len(ls) + 1 /\ ms[Len(ls) + 1] = line
      /\ \A i \in DOMAIN ls : i \in DOMAIN ms /\ ms[i] = ls[i]
      /\ Len(ls) + 1 \in DOMAIN ms
  OBVIOUS
<1> HIDE DEF ms
<1>2. \A e : OnLine(ls, e) => OnLine(ms, e)
  BY <1>1 DEF OnLine
<1>3. Parses(line) => OnLine(ms, line[1].rec.event)
  BY <1>1 DEF OnLine
<1> QED  BY <1>1, <1>2, <1>3 DEF ms

\* What a step does to the file, the answers and the writer that takes it.
LEMMA AtomicSteps ==
    ASSUME NoTornLine, TextInv, WholeInv, [Next]_vars
    PROVE  \/ UNCHANGED <<lines, tail, acked, pc, next>>
           \/ \E w \in Writers :
                 /\ AppendStep(w) \/ Fault(w)
                 /\ \/ /\ UNCHANGED <<lines, tail, acked>>
                       /\ pc[w] \notin Window /\ pc'[w] \notin Window
                       /\ pc'[w] \in {"ended", "synced"}
                             => pc[w] \in {"ended", "synced"} /\ next'[w] = next[w]
                    \/ StartWrite(w) \/ FinishWrite(w) \/ WriteNewline(w) \/ ReturnOk(w)
<1>1. pc \in [Writers -> Steps]
  BY DEF TextInv, IInv, TypeOK
<1>2. ASSUME NEW w \in Writers, Open(w) \/ Begin(w) \/ Acquire(w) \/ ReadHead(w) \/ ReadFails(w)
      PROVE  UNCHANGED <<lines, tail, acked>> /\ pc[w] \notin Window
                /\ pc'[w] \notin Window \cup {"ended", "synced"}
  BY <1>1, <1>2 DEF Open, Begin, Acquire, ReadHead, ReadFails, Goto, Window
<1>3. ASSUME NEW w \in Writers, ReturnErr(w) \/ Fault(w)
      PROVE  UNCHANGED <<lines, tail, acked>> /\ pc[w] \notin Window
                /\ pc'[w] \notin Window \cup {"ended", "synced"}
  BY <1>1, <1>3 DEF ReturnErr, Fault, IoError, AppendFails, OpenFails, Crash, Goto, Window,
                    NoTornLine
<1>4. ASSUME NEW w \in Writers, Sync(w)
      PROVE  /\ UNCHANGED <<lines, tail, acked>> /\ pc[w] \notin Window /\ pc'[w] \notin Window
             /\ pc[w] = "ended" /\ next'[w] = next[w]
  BY <1>1, <1>4 DEF Sync, Goto, Window
<1>5. ~PowerFails
  BY DEF PowerFails, NoTornLine
<1>6. CASE UNCHANGED vars
  BY <1>6 DEF vars
<1>7. ASSUME NEW w \in Writers, AppendStep(w)
      PROVE  \/ StartWrite(w) \/ FinishWrite(w) \/ WriteNewline(w) \/ ReturnOk(w)
             \/ Sync(w)
             \/ Open(w) \/ Begin(w) \/ Acquire(w) \/ ReadHead(w) \/ ReadFails(w)
             \/ ReturnErr(w)
  BY <1>7 DEF AppendStep
<1> QED  BY <1>2, <1>3, <1>4, <1>5, <1>6, <1>7 DEF Next, Terminated

\* A writer that begins its line finds no other one unterminated.
LEMMA CleanTail ==
    ASSUME TextInv, WholeInv, NEW w \in Writers, pc[w] \in Holding \ Window
    PROVE  tail = <<>>
<1> SUFFICES ASSUME tail # <<>> PROVE FALSE
  OBVIOUS
<1>1. PICK v \in Writers : pc[v] \in Window  BY DEF WholeInv
<1>2. v = w  BY <1>1 DEF TextInv, IInv, LockInv, Holding, Window
<1> QED  BY <1>1, <1>2

\* The line that a writer is at.
LEMMA OwnTail ==
    ASSUME TextInv, WholeInv, NEW w \in Writers, pc[w] \in Window
    PROVE  /\ tail \in Lines /\ Len(tail) = 1
           /\ tail[1].rec = Seal(Current(w), head[w])
           /\ tail[1].form = "whole" <=> pc[w] = "written"
<1>1. tail # <<>> /\ tail \in Seq(Pieces)  BY DEF TextInv, IInv, WriteInv, TypeOK
<1>2. Len(tail) = 1  BY <1>1 DEF WholeInv
<1> QED  BY <1>1, <1>2 DEF TextInv, WritingInv, Lines

LEMMA WholeStep == NoTornLine /\ TextInv /\ WholeInv /\ [Next]_vars => WholeInv'
<1> SUFFICES ASSUME NoTornLine, TextInv, WholeInv, [Next]_vars PROVE WholeInv'
  OBVIOUS
<1>1. /\ TypeOK /\ TypeOK' /\ LockInv /\ lines \in Seq(Lines) /\ tail \in Seq(Pieces)
      /\ pc \in [Writers -> Steps]
  BY TypeStep DEF TextInv, IInv, TypeOK
<1>2. /\ \A i \in DOMAIN lines : Parses(lines[i])
      /\ \A v \in Writers : pc[v] \in {"ended", "synced"} => OnLine(lines, Current(v))
      /\ \A e \in acked : OnLine(lines, e)
  BY DEF WholeInv, OneRecordPerLine, OnLine
<1>3. WholeInv' <=> /\ \A i \in DOMAIN lines' : Parses(lines'[i])
                    /\ tail' # <<>> => Len(tail') = 1 /\ \E v \in Writers : pc'[v] \in Window
                    /\ \A v \in Writers : pc'[v] \in {"ended", "synced"} =>
                          \E i \in DOMAIN lines' : lines'[i][1].rec.event = Current(v)'
                    /\ \A e \in acked' : OnLine(lines', e)
  BY DEF WholeInv, OneRecordPerLine, OnLine, Parses
<1>4. CASE UNCHANGED <<lines, tail, acked, pc, next>>
  BY <1>3, <1>4 DEF WholeInv, OneRecordPerLine, OnLine, Current
<1>5. ASSUME NEW w \in Writers, AppendStep(w) \/ Fault(w), NEW v \in Writers, v # w
      PROVE  pc'[v] = pc[v] /\ Current(v)' = Current(v)
  BY <1>1, <1>5, Stay DEF Current
<1>6. ASSUME NEW w \in Writers, AppendStep(w) \/ Fault(w),
             UNCHANGED <<lines, tail, acked>>,
             pc[w] \notin Window, pc'[w] \notin Window,
             pc'[w] \in {"ended", "synced"} => pc[w] \in {"ended", "synced"} /\ next'[w] = next[w]
      PROVE  WholeInv'
  <2>1. (\E v \in Writers : pc[v] \in Window) => \E v \in Writers : pc'[v] \in Window
    BY <1>5, <1>6
  <2>2. \A v \in Writers : pc'[v] \in {"ended", "synced"} => OnLine(lines, Current(v)')
    <3> TAKE v \in Writers
    <3>1. CASE v # w  BY <1>2, <1>5, <1>6, <3>1
    <3>2. CASE v = w
      <4>1. next'[w] = next[w] => Current(w)' = Current(w)  BY DEF Current
      <4> QED  BY <1>2, <1>6, <3>2, <4>1
    <3> QED  BY <3>1, <3>2
  <2>3. \A v \in Writers : pc'[v] \in {"ended", "synced"} =>
             \E i \in DOMAIN lines' : lines'[i][1].rec.event = Current(v)'
    BY <1>6, <2>2 DEF OnLine
  <2> QED  BY <1>2, <1>3, <1>6, <2>1, <2>3 DEF WholeInv
<1>7. ASSUME NEW w \in Writers, StartWrite(w)
      PROVE  WholeInv'
  <2>1. tail = <<>>  BY <1>7, CleanTail DEF StartWrite, Holding, Window
  <2>2. Len(tail') = 1  BY <1>1, <1>7, <2>1 DEF StartWrite
  <2>3. pc'[w] = "writing" /\ lines' = lines /\ acked' = acked  BY <1>1, <1>7 DEF StartWrite, Goto
  <2>4. \A v \in Writers : pc'[v] \in {"ended", "synced"} => OnLine(lines, Current(v)')
    BY <1>2, <1>5, <1>7, <2>3 DEF AppendStep
  <2>5. \A v \in Writers : pc'[v] \in {"ended", "synced"} =>
             \E i \in DOMAIN lines' : lines'[i][1].rec.event = Current(v)'
    BY <2>3, <2>4 DEF OnLine
  <2> QED  BY <1>2, <1>3, <2>2, <2>3, <2>5 DEF Window
<1>8. ASSUME NEW w \in Writers, FinishWrite(w)
      PROVE  WholeInv'
  <2>1. Len(tail) = 1  BY <1>8, OwnTail DEF FinishWrite, Window
  <2>2. Len(tail') = Len(tail)
    <3>1. tail' = [tail EXCEPT ![Len(tail)] = [form |-> "whole", rec |-> Seal(Current(w), head[w])]]
      BY <1>8 DEF FinishWrite
    <3> QED  BY <1>1, <3>1
  <2>3. pc'[w] = "written" /\ lines' = lines /\ acked' = acked  BY <1>1, <1>8 DEF FinishWrite, Goto
  <2>4. \A v \in Writers : pc'[v] \in {"ended", "synced"} => OnLine(lines, Current(v)')
    BY <1>2, <1>5, <1>8, <2>3 DEF AppendStep
  <2>5. \A v \in Writers : pc'[v] \in {"ended", "synced"} =>
             \E i \in DOMAIN lines' : lines'[i][1].rec.event = Current(v)'
    BY <2>3, <2>4 DEF OnLine
  <2> QED  BY <1>2, <1>3, <2>1, <2>2, <2>3, <2>5 DEF Window
<1>9. ASSUME NEW w \in Writers, WriteNewline(w)
      PROVE  WholeInv'
  <2>1. /\ tail \in Lines /\ Parses(tail) /\ tail[1].rec.event = Current(w)
    <3>1. pc[w] = "written" /\ pc[w] \in Window  BY <1>9 DEF WriteNewline, Window
    <3>2. /\ tail \in Lines /\ Len(tail) = 1 /\ tail[1].form = "whole"
          /\ tail[1].rec = Seal(Current(w), head[w])
      BY <3>1, OwnTail
    <3> QED  BY <3>2 DEF Parses, Seal
  <2>2. /\ lines' = Append(lines, tail) /\ tail' = <<>> /\ acked' = acked
        /\ pc'[w] = "ended" /\ Current(w)' = Current(w)
    BY <1>1, <1>9 DEF WriteNewline, Goto, Current
  <2>3. /\ \A e : OnLine(lines, e) => OnLine(lines', e)
        /\ OnLine(lines', Current(w))
    BY <1>1, <2>1, <2>2, OnLineAppend
  <2>4. \A i \in DOMAIN lines' : Parses(lines'[i])
    <3>1. \A i \in DOMAIN lines' : i \in DOMAIN lines \/ lines'[i] = tail  BY <1>1, <2>2
    <3> QED  BY <1>1, <1>2, <2>1, <2>2, <3>1, OnLineAppend
  <2>5. \A v \in Writers : pc'[v] \in {"ended", "synced"} => OnLine(lines', Current(v)')
    <3> TAKE v \in Writers
    <3>1. CASE v # w  BY <1>2, <1>5, <1>9, <2>3, <3>1 DEF AppendStep
    <3>2. CASE v = w  BY <2>2, <2>3, <3>2
    <3> QED  BY <3>1, <3>2
  <2>6. \A v \in Writers : pc'[v] \in {"ended", "synced"} =>
             \E i \in DOMAIN lines' : lines'[i][1].rec.event = Current(v)'
    BY <2>5 DEF OnLine
  <2> QED  BY <1>2, <1>3, <2>2, <2>3, <2>4, <2>6
<1>10. ASSUME NEW w \in Writers, ReturnOk(w)
       PROVE  WholeInv'
  <2>1. /\ UNCHANGED <<lines, tail>> /\ acked' = acked \cup {Current(w)}
        /\ pc[w] = "synced" /\ pc'[w] = "idle"
    BY <1>1, <1>10 DEF ReturnOk, Goto
  <2>2. \A e \in acked' : OnLine(lines', e)  BY <1>2, <2>1
  <2>3. tail' = <<>>  BY <2>1, CleanTail DEF Holding, Window
  <2>4. \A v \in Writers : pc'[v] \in {"ended", "synced"} => OnLine(lines, Current(v)')
    BY <1>2, <1>5, <1>10, <2>1 DEF AppendStep
  <2>5. \A v \in Writers : pc'[v] \in {"ended", "synced"} =>
             \E i \in DOMAIN lines' : lines'[i][1].rec.event = Current(v)'
    BY <2>1, <2>4 DEF OnLine
  <2> QED  BY <1>2, <1>3, <2>1, <2>2, <2>3, <2>5
<1> QED  BY <1>4, <1>6, <1>7, <1>8, <1>9, <1>10, AtomicSteps

LEMMA WholeInvariance == ASSUME NoTornLine PROVE Spec => [](TextInv /\ WholeInv)
<1>1. Init => WholeInv
  BY DEF Init, WholeInv, OneRecordPerLine
<1>2. (TextInv /\ WholeInv) /\ [Next]_vars => (TextInv /\ WholeInv)'
  BY NoTornLine, TextStep, WholeStep
<1> QED
  BY <1>1, <1>2, TextInitially, PTL DEF Spec

\* Where nothing breaks an append off in its line, an event whose append returned
\* Ok is a line of its own.
THEOREM OneRecordSafety == ASSUME NoTornLine PROVE Spec => []OneRecordPerLine
<1>1. TextInv /\ WholeInv => OneRecordPerLine
  BY DEF WholeInv
<1> QED
  BY <1>1, WholeInvariance, PTL

-----------------------------------------------------------------------------
(* Refinement of ChainLog.                                                  *)

ChainOf(ls) == [i \in DOMAIN ls |-> ls[i][1].rec]

LEMMA ChainOfType ==
    ASSUME NEW ls \in Seq(Lines)
    PROVE  ChainOf(ls) \in Seq(Records) /\ Len(ChainOf(ls)) = Len(ls)
<1>1. ASSUME NEW i \in 1 .. Len(ls)
      PROVE  ls[i][1].rec \in Records
  <2>1. ls[i] \in Seq(Pieces) /\ ls[i] # <<>>  BY DEF Lines
  <2>2. ls[i][1] \in Pieces  BY <2>1
  <2> QED  BY <2>2 DEF Pieces
<1>2. DOMAIN ls = 1 .. Len(ls) /\ Len(ls) \in Nat
  OBVIOUS
<1> QED
  BY <1>1, <1>2 DEF ChainOf

LEMMA ChainAppend ==
    ASSUME NEW ls \in Seq(Lines), NEW line \in Lines
    PROVE  ChainOf(Append(ls, line)) = Append(ChainOf(ls), line[1].rec)
<1> DEFINE ms == Append(ls, line)
           new == Append(ChainOf(ls), line[1].rec)
<1>1. /\ ms \in Seq(Lines) /\ Len(ms) = Len(ls) + 1
      /\ ms[Len(ls) + 1] = line /\ \A i \in 1 .. Len(ls) : ms[i] = ls[i]
  OBVIOUS
<1>2. /\ ChainOf(ms) \in Seq(Records) /\ Len(ChainOf(ms)) = Len(ls) + 1
      /\ ChainOf(ls) \in Seq(Records) /\ Len(ChainOf(ls)) = Len(ls)
  BY <1>1, ChainOfType
<1>3. line[1].rec \in Records
  <2>1. line \in Seq(Pieces) /\ line # <<>>  BY DEF Lines
  <2>2. line[1] \in Pieces  BY <2>1
  <2> QED  BY <2>2 DEF Pieces
<1>4. /\ new \in Seq(Records) /\ Len(new) = Len(ls) + 1 /\ new[Len(ls) + 1] = line[1].rec
      /\ \A i \in 1 .. Len(ls) : new[i] = ChainOf(ls)[i]
  BY <1>2, <1>3
<1>5. ASSUME NEW i \in 1 .. Len(ls) + 1
      PROVE  ChainOf(ms)[i] = new[i]
  <2>1. ChainOf(ms)[i] = ms[i][1].rec  BY <1>1 DEF ChainOf
  <2>2. i \in 1 .. Len(ls) => ChainOf(ls)[i] = ls[i][1].rec  BY DEF ChainOf
  <2>3. i = Len(ls) + 1 \/ i \in 1 .. Len(ls)  OBVIOUS
  <2> HIDE DEF ms, new
  <2> QED  BY <1>1, <1>4, <2>1, <2>2, <2>3
<1> HIDE DEF ms, new
<1>6. ChainOf(ms) = new
  BY <1>2, <1>4, <1>5, SeqEqual
<1> QED
  BY <1>6 DEF ms, new

\* The chain is that of the lines, and of the one at which a writer has only the
\* newline left to write.
LEMMA ChainIs ==
    ASSUME tail \in Seq(Pieces)
    PROVE  /\ tail = <<>> \/ tail[Len(tail)].form # "whole" => Chain = ChainOf(lines)
           /\ tail # <<>> /\ tail[Len(tail)].form = "whole" => Chain = ChainOf(Append(lines, tail))
BY DEF Chain, ChainOf, AllLines, Joined

\* The end of a line is the moment at which the event is added.
LEMMA FinishAdds ==
    ASSUME TextInv, WholeInv, [Next]_vars, NEW w \in Writers, FinishWrite(w)
    PROVE  Log!Add(Current(w))
<1>1. /\ lines \in Seq(Lines) /\ tail \in Seq(Pieces) /\ pc[w] = "writing" /\ pc[w] \in Window
      /\ tail' \in Seq(Pieces)
  BY TypeStep DEF TextInv, IInv, TypeOK, FinishWrite, Window
<1>2. /\ tail \in Lines /\ Len(tail) = 1 /\ tail[1].form # "whole"
      /\ tail[1].rec = Seal(Current(w), head[w])
  BY <1>1, OwnTail
<1>3. /\ tail' \in Lines /\ Len(tail') = 1 /\ lines' = lines
      /\ tail'[1] = [form |-> "whole", rec |-> Seal(Current(w), head[w])]
  <2>1. tail' = [tail EXCEPT ![1] = [form |-> "whole", rec |-> Seal(Current(w), head[w])]]
    BY <1>2 DEF FinishWrite
  <2>2. Len(tail') = 1 /\ tail'[1] = [form |-> "whole", rec |-> Seal(Current(w), head[w])]
    BY <1>1, <1>2, <2>1
  <2> QED  BY <1>1, <2>2 DEF FinishWrite, Lines
<1>4. Chain = ChainOf(lines) /\ Chain' = ChainOf(Append(lines, tail'))
  <2>1. Chain = ChainOf(lines)  BY <1>1, <1>2, ChainIs
  <2>2. Chain' = ChainOf(Append(lines, tail'))
    <3>1. tail' # <<>> /\ tail'[Len(tail')].form = "whole"  BY <1>3 DEF Lines
    <3> QED  BY <1>3, <3>1 DEF Chain, ChainOf, AllLines, Joined
  <2> QED  BY <2>1, <2>2
<1>5. Chain' = Append(Chain, Seal(Current(w), head[w]))
  <2>1. tail'[1].rec = Seal(Current(w), head[w])  BY <1>3
  <2> QED  BY <1>1, <1>3, <1>4, <2>1, ChainAppend
<1>6. head[w] = Log!ChainHead
  <2>1. head[w] = LastHash(lines)  BY <1>1, <1>2 DEF TextInv, IInv, WriteInv
  <2>2. Chain \in Seq(Records) /\ Len(Chain) = Len(lines)  BY <1>1, <1>4, ChainOfType
  <2>3. CASE lines = <<>>
    <3>1. Chain = <<>>  BY <1>1, <2>2, <2>3
    <3> QED  BY <2>1, <2>3, <3>1 DEF LastHash, Log!ChainHead, Genesis, Log!Genesis
  <2>4. CASE lines # <<>>
    <3>1. Len(lines) \in DOMAIN lines /\ Len(lines) # 0  BY <1>1, <2>4
    <3>2. Parses(lines[Len(lines)])  BY <3>1 DEF WholeInv
    <3>3. LastHash(lines) = lines[Len(lines)][1].rec.hash  BY <2>4, <3>2 DEF LastHash, HashOf
    <3>4. Chain[Len(Chain)] = lines[Len(lines)][1].rec  BY <1>4, <2>2, <3>1 DEF ChainOf
    <3>5. Chain # <<>>  BY <2>2, <3>1
    <3> QED  BY <2>1, <3>3, <3>4, <3>5 DEF Log!ChainHead
  <2> QED  BY <2>3, <2>4
<1>7. Current(w) \notin Log!Recorded
  <2> SUFFICES ASSUME NEW i \in DOMAIN Chain, Chain[i].event = Current(w)  PROVE FALSE
    BY DEF Log!Recorded
  <2>1. i \in 1 .. Len(lines) /\ lines[i][1].rec.event = Current(w)
    BY <1>1, <1>4 DEF ChainOf
  <2> DEFINE p == <<i, 1>>
             q == <<Len(lines) + 1, 1>>
  <2>2. p \in PiecesOf(lines)
    <3>1. lines[i] \in Seq(Pieces) /\ Len(lines[i]) = 1  BY <1>1, <2>1 DEF WholeInv, Parses, Lines
    <3> QED  BY <2>1, <3>1, PieceAt
  <2>3. p \in PiecesOf(AllLines) /\ AllLines[i] = lines[i]
    BY <1>1, <2>2, JoinedPieces DEF AllLines
  <2>4. q \in PiecesOf(AllLines) /\ AllLines[Len(lines) + 1] = tail
    <3>1. 1 \in 1 .. Len(tail)  BY <1>2
    <3> QED  BY <1>1, <3>1, JoinedPieces DEF AllLines
  <2>5. EventAt(AllLines, p) = Current(w) /\ EventAt(AllLines, q) = Current(w)
    BY <1>2, <2>1, <2>3, <2>4 DEF EventAt, Seal
  <2>6. Before(p, q)  BY <1>1, <2>1 DEF Before
  <2>7. Current(w)[2] < Current(w)[2]  BY <2>3, <2>4, <2>5, <2>6 DEF TextInv, Ordered
  <2>8. Current(w)[2] \in Nat  BY DEF Current, TextInv, IInv, TypeOK
  <2> QED  BY <2>7, <2>8
<1>8. acked' = acked
  BY DEF FinishWrite
<1>9. Seal(Current(w), head[w]) = Log!Seal(Current(w), head[w])
  BY DEF Seal, ComputeHash, Log!Seal, Log!ComputeHash
<1> QED
  BY <1>5, <1>6, <1>7, <1>8, <1>9 DEF Log!Add

LEMMA AtomicStep ==
    ASSUME NoTornLine, TextInv, WholeInv, [Next]_vars
    PROVE  [Log!Next]_(Log!vars)
<1>1. /\ lines \in Seq(Lines) /\ tail \in Seq(Pieces)
      /\ \A w \in Writers : pc[w] \in Holding => Current(w) \in Events
  BY CurrentType DEF TextInv, IInv, TypeOK, BatchInv
<1>2. CASE UNCHANGED <<lines, tail, acked>>
  BY <1>2 DEF Log!vars, Chain, AllLines
<1>3. ASSUME NEW w \in Writers, StartWrite(w)
      PROVE  UNCHANGED Log!vars
  <2>1. tail = <<>>  BY <1>3, CleanTail DEF StartWrite, Holding, Window
  <2>2. /\ tail' \in Seq(Pieces) /\ Len(tail') = 1 /\ tail'[1].form # "whole"
        /\ UNCHANGED <<lines, acked>>
    BY <1>1, <1>3, <2>1, TypeStep DEF StartWrite, TextInv, IInv, TypeOK
  <2>3. Chain = ChainOf(lines)  BY <1>1, <2>1, ChainIs
  <2>4. Chain' = ChainOf(lines)  BY <2>2 DEF Chain, ChainOf
  <2> QED  BY <2>2, <2>3, <2>4 DEF Log!vars
<1>4. ASSUME NEW w \in Writers, FinishWrite(w)
      PROVE  Log!Next
  <2>1. Current(w) \in Events  BY <1>1, <1>4 DEF FinishWrite, Holding
  <2> QED  BY <1>4, <2>1, FinishAdds DEF Log!Next
<1>5. ASSUME NEW w \in Writers, WriteNewline(w)
      PROVE  UNCHANGED Log!vars
  <2>1. tail \in Lines /\ Len(tail) = 1 /\ tail[1].form = "whole"
    BY <1>5, OwnTail DEF WriteNewline, Window
  <2>2. lines' = Append(lines, tail) /\ tail' = <<>> /\ acked' = acked
    BY <1>5 DEF WriteNewline
  <2>3. Chain = ChainOf(Append(lines, tail))  BY <1>1, <2>1, ChainIs DEF Lines
  <2>4. Chain' = ChainOf(lines')  BY <2>2 DEF Chain, ChainOf
  <2> QED  BY <2>2, <2>3, <2>4 DEF Log!vars
<1>6. ASSUME NEW w \in Writers, ReturnOk(w)
      PROVE  Log!Next
  <2>1. Current(w) \in Events /\ pc[w] = "synced"  BY <1>1, <1>6 DEF ReturnOk, Holding
  <2>2. tail = <<>>  BY <2>1, CleanTail DEF Holding, Window
  <2>3. Chain = ChainOf(lines) /\ Chain' = Chain /\ acked' = acked \cup {Current(w)}
    BY <1>1, <1>6, <2>2, ChainIs DEF ReturnOk, Chain, AllLines
  <2>4. PICK i \in DOMAIN lines : lines[i][1].rec.event = Current(w)
    BY <2>1 DEF WholeInv
  <2>5. i \in DOMAIN Chain /\ Chain[i].event = Current(w)  BY <2>3, <2>4 DEF ChainOf
  <2>6. Log!Answer(Current(w))  BY <2>3, <2>5 DEF Log!Answer, Log!Recorded
  <2> QED  BY <2>1, <2>6 DEF Log!Next
<1> QED  BY <1>2, <1>3, <1>4, <1>5, <1>6, AtomicSteps

\* Where nothing breaks an append off in its line, the file, the lock and the calls
\* of Store::append make up one log to which events are added atomically, at most
\* once each, sealed against the last, and are answered Ok only when they are there.
THEOREM AtomicLog == ASSUME NoTornLine PROVE Spec => ImplementsChainLog
<1>1. Init => Log!Init
  BY DEF Init, Log!Init, Chain, AllLines
<1>2. (TextInv /\ WholeInv) /\ [Next]_vars => [Log!Next]_(Log!vars)
  BY NoTornLine, AtomicStep
<1> QED
  BY <1>1, <1>2, WholeInvariance, PTL DEF Spec, ImplementsChainLog, Log!Spec

=============================================================================
