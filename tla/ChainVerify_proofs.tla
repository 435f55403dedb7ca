-------------------------- MODULE ChainVerify_proofs --------------------------
(***************************************************************************)
(* What verify says of an edited log, for any contents and any number of   *)
(* records and edits: the proofs of Localizes and of EvidentToHead.        *)
(*                                                                         *)
(* In a chain that verifies, the hash of a record is as long as its place  *)
(* (ChainLength), so a record cannot move and still verify, and two chains *)
(* that verify and meet in one hash are the same up to it (OneHistory):    *)
(* EvidentToHead needs no more than that the original verifies             *)
(* (WrittenInv).  Localizes needs also that, as long as nothing is sealed  *)
(* after an edit, every record has the links of a record of the original   *)
(* or none (TakenInv): the first that differs then fails (FirstFails).     *)
(***************************************************************************)
EXTENDS ChainVerify, Induction, SequenceTheorems, TLAPS

Digests == Seq(Contents \cup {Nothing})
Records == [event : Contents, prev : Digests, hash : Digests]

\* What is left of a record when its content is changed or its links are taken out.
Taken(recs) ==
    {r \in Records : \/ r.prev = Missing /\ r.hash = Missing
                     \/ \E j \in DOMAIN recs : r.prev = recs[j].prev /\ r.hash = recs[j].hash}

TypeInv ==
    /\ file \in Seq(Records)
    /\ original \in Seq(Records)
    /\ edits \in Nat
    /\ naive \in BOOLEAN

\* The original is what Chain::append writes.
WrittenInv == \A i \in DOMAIN original : ~Fails(original, i)

UntouchedInv == edits = 0 => file = original

\* As long as nothing is sealed, the links of the original are all there is.
TakenInv == naive => file \in Seq(Taken(original))

IInv == TypeInv /\ WrittenInv /\ UntouchedInv /\ TakenInv

-----------------------------------------------------------------------------
(* Chains.                                                                   *)

\* The digest of a text tells its last event and what came before.
LEMMA DigestTells ==
    ASSUME NEW p \in Digests, NEW q \in Digests, NEW c \in Contents, NEW d \in Contents,
           ComputeHash(c, p) = ComputeHash(d, q)
    PROVE  c = d /\ p = q
<1>1. Append(p, c) = Append(q, d)  BY DEF ComputeHash
<1> DEFINE S == Contents \cup {Nothing}
<1>2. p \in Seq(S) /\ q \in Seq(S) /\ c \in S /\ d \in S  BY DEF Digests
<1> HIDE DEF S
<1>3. /\ Len(p) \in Nat /\ Len(q) \in Nat
      /\ Len(Append(p, c)) = Len(p) + 1 /\ Len(Append(q, d)) = Len(q) + 1
      /\ Append(p, c)[Len(p) + 1] = c /\ Append(q, d)[Len(q) + 1] = d
      /\ \A i \in 1 .. Len(p) : Append(p, c)[i] = p[i]
      /\ \A i \in 1 .. Len(q) : Append(q, d)[i] = q[i]
  BY <1>2, LenProperties, AppendProperties
<1>4. Len(p) = Len(q)  BY <1>1, <1>3
<1>5. c = d  BY <1>1, <1>3, <1>4
<1>6. \A i \in 1 .. Len(p) : p[i] = q[i]  BY <1>1, <1>3, <1>4
<1> QED  BY <1>2, <1>4, <1>5, <1>6, SeqEqual

\* A record without links fails, and the hash of any other is not Genesis.
LEMMA DigestShape ==
    ASSUME NEW p \in Digests, NEW c \in Contents
    PROVE  /\ ComputeHash(c, p) \in Digests
           /\ Len(ComputeHash(c, p)) = Len(p) + 1
           /\ ComputeHash(c, p) # Missing
<1> DEFINE S == Contents \cup {Nothing}
<1>1. p \in Seq(S) /\ c \in S  BY DEF Digests
<1> HIDE DEF S
<1>2. /\ Append(p, c) \in Seq(S) /\ Len(Append(p, c)) = Len(p) + 1
      /\ Append(p, c)[Len(p) + 1] = c
      /\ Len(p) \in Nat
  BY <1>1, LenProperties, AppendProperties
<1>3. ASSUME Append(p, c) = <<Nothing>>  PROVE FALSE
  <2>1. Len(<<Nothing>>) = 1 /\ <<Nothing>>[1] = Nothing  OBVIOUS
  <2>2. Len(p) + 1 = 1  BY <1>2, <1>3, <2>1
  <2>3. c = Nothing  BY <1>2, <1>3, <2>1, <2>2
  <2> QED  BY <2>3, EditAssumption
<1> QED  BY <1>2, <1>3 DEF ComputeHash, Missing, Digests, S

\* In a chain that verifies up to record n, the hash of record n has length n.
LEMMA ChainLength ==
    ASSUME NEW recs \in Seq(Records), NEW n \in DOMAIN recs,
           \A i \in 1 .. n : ~Fails(recs, i)
    PROVE  \A i \in 1 .. n : Len(recs[i].hash) = i /\ Len(recs[i].prev) = i - 1
<1>1. n \in 1 .. Len(recs) /\ Len(recs) \in Nat  BY LenProperties
<1>2. \A i \in 1 .. n : recs[i] \in Records  BY <1>1, ElementOfSeq
<1> DEFINE T == {i \in 1 .. n : ~(Len(recs[i].hash) = i /\ Len(recs[i].prev) = i - 1)}
<1>3. SUFFICES ASSUME T # {}  PROVE FALSE  OBVIOUS
<1>4. T \in SUBSET Nat  BY <1>1
<1> HIDE DEF T
<1>5. PICK k \in T : \A j \in T : k <= j  BY <1>3, <1>4, Least
<1>6. k \in 1 .. n /\ ~(Len(recs[k].hash) = k /\ Len(recs[k].prev) = k - 1)  BY DEF T
<1>7. recs[k].prev = RunningPrev(recs, k) /\ recs[k].hash = ComputeHash(recs[k].event, recs[k].prev)
  BY <1>6 DEF Fails
<1>8. Len(recs[k].prev) = k - 1
  <2>1. CASE k = 1
    <3>1. recs[k].prev = <<>>  BY <1>7, <2>1 DEF RunningPrev, Genesis
    <3> QED  BY <2>1, <3>1
  <2>2. CASE k # 1
    <3>1. k - 1 \in 1 .. n /\ k - 1 \notin T  BY <1>1, <1>4, <1>5, <1>6, <2>2
    <3>2. Len(recs[k - 1].hash) = k - 1  BY <3>1 DEF T
    <3> QED  BY <1>7, <2>2, <3>2 DEF RunningPrev
  <2> QED  BY <2>1, <2>2
<1>9. recs[k].prev \in Digests /\ recs[k].event \in Contents  BY <1>2, <1>6 DEF Records
<1>10. Len(recs[k].hash) = Len(recs[k].prev) + 1  BY <1>7, <1>9, DigestShape
<1>11. Len(recs[k].hash) = k  BY <1>1, <1>6, <1>8, <1>10
<1> QED  BY <1>6, <1>8, <1>11

\* Two chains that verify up to records with one hash are the same up to them.
LEMMA OneHistory ==
    ASSUME NEW recs \in Seq(Records), NEW other \in Seq(Records),
           NEW n \in DOMAIN recs, n \in DOMAIN other,
           \A i \in 1 .. n : ~Fails(recs, i) /\ ~Fails(other, i),
           recs[n].hash = other[n].hash
    PROVE  \A i \in 1 .. n : recs[i] = other[i]
<1>1. n \in 1 .. Len(recs) /\ Len(recs) \in Nat /\ n \in 1 .. Len(other) /\ Len(other) \in Nat
  BY LenProperties
<1>2. \A i \in 1 .. n : recs[i] \in Records /\ other[i] \in Records  BY <1>1, ElementOfSeq
\* From the last one back: how far a record that differs is from the end.
<1> DEFINE Same(i) == recs[i].hash = other[i].hash
           T == {d \in 0 .. n - 1 : ~Same(n - d)}
<1>3. ASSUME NEW i \in 1 .. n, Same(i)  PROVE recs[i] = other[i]
  <2>1. /\ recs[i].hash = ComputeHash(recs[i].event, recs[i].prev)
        /\ other[i].hash = ComputeHash(other[i].event, other[i].prev)
    BY <1>3 DEF Fails
  <2>2. /\ recs[i] = [event |-> recs[i].event, prev |-> recs[i].prev, hash |-> recs[i].hash]
        /\ other[i] = [event |-> other[i].event, prev |-> other[i].prev, hash |-> other[i].hash]
        /\ recs[i].event \in Contents /\ recs[i].prev \in Digests
        /\ other[i].event \in Contents /\ other[i].prev \in Digests
    BY <1>2 DEF Records
  <2>3. recs[i].event = other[i].event /\ recs[i].prev = other[i].prev
    BY <1>3, <2>1, <2>2, DigestTells
  <2> QED  BY <1>3, <2>2, <2>3
<1>4. T = {}
  <2> SUFFICES ASSUME T # {}  PROVE FALSE  OBVIOUS
  <2>1. T \in SUBSET Nat  BY <1>1
  <2> HIDE DEF T
  <2>2. PICK d \in T : \A j \in T : d <= j  BY <2>1, Least
  <2>3. d \in 0 .. n - 1 /\ ~Same(n - d)  BY DEF T
  <2>4. d # 0  BY <1>1, <2>3
  <2>5. d - 1 \in 0 .. n - 1 /\ d - 1 \notin T  BY <1>1, <2>1, <2>2, <2>3, <2>4
  <2>6. Same(n - (d - 1))  BY <2>5 DEF T
  <2> DEFINE k == n - (d - 1)
  <2>7. k \in 2 .. n /\ k - 1 = n - d  BY <1>1, <2>3, <2>4
  <2>8. recs[k] = other[k]  BY <1>3, <2>6, <2>7
  <2>9. recs[k].prev = recs[k - 1].hash /\ other[k].prev = other[k - 1].hash
    BY <2>7 DEF Fails, RunningPrev
  <2>10. Same(n - d)  BY <2>7, <2>8, <2>9
  <2> QED  BY <2>3, <2>10
<1>5. ASSUME NEW i \in 1 .. n  PROVE Same(i)
  <2>1. n - i \in 0 .. n - 1 /\ n - (n - i) = i  BY <1>1
  <2> QED  BY <1>4, <2>1
<1> QED  BY <1>3, <1>5

-----------------------------------------------------------------------------
(* The inductive invariant.                                                  *)

LEMMA MissingType == Missing \in Digests
<1> <<Nothing>> \in Seq(Contents \cup {Nothing})  OBVIOUS
<1> QED  BY DEF Missing, Digests

LEMMA GenesisType == Genesis \in Digests
BY DEF Genesis, Digests

LEMMA SealType ==
    ASSUME NEW c \in Contents, NEW p \in Digests
    PROVE  /\ Seal(c, p) \in Records
           /\ Seal(c, p).prev = p /\ Seal(c, p).event = c
           /\ Seal(c, p).hash = ComputeHash(c, p)
BY DigestShape DEF Seal, Records

\* The elements of a log that is edited.
LEMMA Elements ==
    ASSUME NEW S, NEW recs \in Seq(S), NEW i \in DOMAIN recs
    PROVE  /\ recs[i] \in S
           /\ \A r \in S : [recs EXCEPT ![i] = r] \in Seq(S)
           /\ SubSeq(recs, 1, i - 1) \o SubSeq(recs, i + 1, Len(recs)) \in Seq(S)
           /\ SubSeq(recs, 1, i) \o SubSeq(recs, i, Len(recs)) \in Seq(S)
           /\ i < Len(recs) => [recs EXCEPT ![i] = recs[i + 1], ![i + 1] = recs[i]] \in Seq(S)
<1>1. DOMAIN recs = 1 .. Len(recs) /\ Len(recs) \in Nat  BY LenProperties
<1>2. \A k \in 1 .. Len(recs) : recs[k] \in S  BY ElementOfSeq
<1>3. recs \in [1 .. Len(recs) -> S]  BY <1>1, <1>2
<1>4. ASSUME NEW r \in S  PROVE [recs EXCEPT ![i] = r] \in Seq(S)
  <2>1. [recs EXCEPT ![i] = r] \in [1 .. Len(recs) -> S]  BY <1>3, <1>4
  <2> QED  BY <1>1, <2>1, SeqDef
<1>5. ASSUME i < Len(recs)
      PROVE  [recs EXCEPT ![i] = recs[i + 1], ![i + 1] = recs[i]] \in Seq(S)
  <2>1. recs[i] \in S /\ recs[i + 1] \in S  BY <1>1, <1>2, <1>5
  <2>2. [recs EXCEPT ![i] = recs[i + 1], ![i + 1] = recs[i]] \in [1 .. Len(recs) -> S]
    BY <1>3, <2>1
  <2> QED  BY <1>1, <2>2, SeqDef
<1>6. ASSUME NEW m \in Int, NEW n \in Int, 1 <= m, n <= Len(recs)
      PROVE  SubSeq(recs, m, n) \in Seq(S)
  <2>1. \A k \in m .. n : recs[k] \in S  BY <1>1, <1>2, <1>6
  <2> QED  BY <2>1, SubSeqProperties
<1>7. /\ SubSeq(recs, 1, i - 1) \in Seq(S) /\ SubSeq(recs, i + 1, Len(recs)) \in Seq(S)
      /\ SubSeq(recs, 1, i) \in Seq(S) /\ SubSeq(recs, i, Len(recs)) \in Seq(S)
  BY <1>1, <1>6
<1>8. ASSUME NEW s \in Seq(S), NEW t \in Seq(S)  PROVE s \o t \in Seq(S)
  BY <1>8, ConcatProperties
<1> QED  BY <1>1, <1>2, <1>4, <1>5, <1>7, <1>8

LEMMA HeadType == ASSUME TypeInv  PROVE HeadOf(file) \in Digests
<1>1. CASE file = <<>>  BY <1>1, GenesisType DEF HeadOf
<1>2. CASE file # <<>>
  <2>1. Len(file) \in DOMAIN file  BY <1>2, LenProperties, EmptySeq DEF TypeInv
  <2>2. file[Len(file)] \in Records  BY <2>1, ElementOfSeq DEF TypeInv
  <2> QED  BY <1>2, <2>2, GenesisType DEF HeadOf, Records
<1> QED  BY <1>1, <1>2

LEMMA InitIInv == Init => IInv
<1> SUFFICES ASSUME Init  PROVE IInv  OBVIOUS
<1>1. <<>> \in Seq(Records) /\ <<>> \in Seq(Taken(<<>>)) /\ DOMAIN <<>> = {}  OBVIOUS
<1> QED  BY <1>1 DEF Init, IInv, TypeInv, WrittenInv, UntouchedInv, TakenInv

\* A record that is edited in place without a seal keeps its links or has none.
LEMMA TakenStays ==
    ASSUME NEW recs, NEW r \in Taken(recs), NEW c \in Contents
    PROVE  [r EXCEPT !.event = c] \in Taken(recs) /\ [r EXCEPT !.prev = Missing, !.hash = Missing] \in Taken(recs)
<1>1. r \in Records  BY DEF Taken
<1>2. /\ [r EXCEPT !.event = c] \in Records
      /\ [r EXCEPT !.event = c].prev = r.prev /\ [r EXCEPT !.event = c].hash = r.hash
  BY <1>1 DEF Records
<1>3. /\ [r EXCEPT !.prev = Missing, !.hash = Missing] \in Records
      /\ [r EXCEPT !.prev = Missing, !.hash = Missing].prev = Missing
      /\ [r EXCEPT !.prev = Missing, !.hash = Missing].hash = Missing
  BY <1>1, MissingType DEF Records
<1> QED  BY <1>2, <1>3 DEF Taken

LEMMA StepIInv == IInv /\ [Next]_vars => IInv'
<1> SUFFICES ASSUME IInv, [Next]_vars  PROVE IInv'  OBVIOUS
<1> USE DEF IInv
\* An edit of the file by recs, which are records; unsealed ones if it is naive.
<1>1. ASSUME NEW recs, NEW stays \in BOOLEAN, Edit(recs, stays),
             recs \in Seq(Records),
             naive /\ stays => recs \in Seq(Taken(original))
      PROVE  IInv'
  <2>1. TypeInv'  BY <1>1 DEF Edit, TypeInv
  <2>2. WrittenInv'  BY <1>1 DEF Edit, WrittenInv, Fails, RunningPrev
  <2>3. edits' # 0  BY <1>1 DEF Edit, TypeInv
  <2>4. TakenInv'  BY <1>1 DEF Edit, TakenInv, TypeInv
  <2> QED  BY <2>1, <2>2, <2>3, <2>4 DEF UntouchedInv
<1>2. ASSUME NEW c \in Contents, AppendEvent(c)  PROVE IInv'
  <2> DEFINE r == Seal(c, HeadOf(file))
  <2>1. r \in Records  BY HeadType, SealType
  <2>2. /\ file' = Append(file, r) /\ edits' = edits /\ naive' = (edits = 0)
        /\ original' = IF edits = 0 THEN file' ELSE original
    BY <1>2 DEF AppendEvent
  <2>3. /\ Append(file, r) \in Seq(Records) /\ Len(Append(file, r)) = Len(file) + 1
        /\ Append(file, r)[Len(file) + 1] = r
        /\ \A i \in 1 .. Len(file) : Append(file, r)[i] = file[i]
    BY <2>1, AppendProperties DEF TypeInv
  <2>4. Len(file) \in Nat /\ DOMAIN file = 1 .. Len(file)  BY LenProperties DEF TypeInv
  <2>5. TypeInv'  BY <2>2, <2>3 DEF TypeInv
  <2>6. CASE edits # 0
    <3>1. WrittenInv'  BY <2>2, <2>6 DEF WrittenInv, Fails, RunningPrev
    <3> QED  BY <2>2, <2>5, <2>6, <3>1 DEF UntouchedInv, TakenInv
  <2>7. CASE edits = 0
    <3>1. original = file /\ original' = file' /\ naive' = TRUE
      BY <2>2, <2>7 DEF UntouchedInv
    <3>2. DOMAIN file' = 1 .. Len(file) + 1  BY <2>2, <2>3, LenProperties
    <3>3. ASSUME NEW i \in 1 .. Len(file)  PROVE ~Fails(file', i)
      <4>1. ~Fails(file, i)  BY <2>4, <3>1 DEF WrittenInv
      <4>2. file'[i] = file[i] /\ (i # 1 => file'[i - 1] = file[i - 1])  BY <2>2, <2>3, <2>4
      <4> QED  BY <4>1, <4>2 DEF Fails, RunningPrev
    <3>4. ~Fails(file', Len(file) + 1)
      <4>1. file'[Len(file) + 1] = r  BY <2>2, <2>3
      <4>2. r.event = c /\ r.prev = HeadOf(file) /\ r.hash = ComputeHash(c, HeadOf(file))
        BY HeadType, SealType
      <4>3. HeadOf(file) = RunningPrev(file', Len(file) + 1)
        <5>1. CASE file = <<>>  BY <5>1 DEF HeadOf, RunningPrev
        <5>2. CASE file # <<>>
          <6>1. Len(file) \in 1 .. Len(file) /\ Len(file) # 0  BY <2>4, <5>2, EmptySeq DEF TypeInv
          <6>2. ~Fails(file, Len(file)) /\ file[Len(file)] \in Records
            BY <2>4, <3>1, <6>1, ElementOfSeq DEF WrittenInv, TypeInv
          <6>3. file[Len(file)].hash # Missing
            BY <6>2, DigestShape DEF Fails, Records
          <6>4. file'[Len(file)] = file[Len(file)]  BY <2>2, <2>3, <6>1
          <6> QED  BY <2>4, <5>2, <6>1, <6>3, <6>4 DEF HeadOf, RunningPrev
        <5> QED  BY <5>1, <5>2
      <4> QED  BY <4>1, <4>2, <4>3 DEF Fails
    <3>5. WrittenInv'
      <4> SUFFICES ASSUME NEW i \in 1 .. Len(file) + 1  PROVE ~Fails(file', i)
        BY <3>1, <3>2 DEF WrittenInv
      <4> QED  BY <2>4, <3>3, <3>4
    <3>6. file' \in Seq(Taken(file'))
      <4>1. ASSUME NEW i \in 1 .. Len(file')  PROVE file'[i] \in Taken(file')
        <5>1. file'[i] \in Records /\ i \in DOMAIN file'  BY <2>5, ElementOfSeq, LenProperties DEF TypeInv
        <5> QED  BY <5>1 DEF Taken
      <4>2. file' \in Seq(Records)  BY <2>5 DEF TypeInv
      <4> QED  BY <4>1, <4>2, SeqDef, LenProperties
    <3> QED  BY <2>5, <3>1, <3>5, <3>6 DEF UntouchedInv, TakenInv
  <2> QED  BY <2>6, <2>7
<1>3. ASSUME NEW i \in DOMAIN file, NEW c \in Contents, Change(i, c)  PROVE IInv'
  <2> DEFINE r == [file[i] EXCEPT !.event = c]
  <2>1. [file EXCEPT ![i].event = c] = [file EXCEPT ![i] = r]  OBVIOUS
  <2>2. file[i] \in Records  BY Elements DEF TypeInv
  <2>3. r \in Records  BY <2>2 DEF Records
  <2>4. [file EXCEPT ![i] = r] \in Seq(Records)
    <3> HIDE DEF r
    <3> QED  BY <2>3, Elements DEF TypeInv
  <2>5. ASSUME naive  PROVE [file EXCEPT ![i] = r] \in Seq(Taken(original))
    <3>1. file \in Seq(Taken(original))  BY <2>5 DEF TakenInv
    <3>2. file[i] \in Taken(original)  BY <3>1, Elements
    <3>3. r \in Taken(original)  BY <3>2, TakenStays
    <3> HIDE DEF r
    <3> QED  BY <3>1, <3>3, Elements
  <2>6. Edit([file EXCEPT ![i] = r], TRUE)  BY <1>3, <2>1 DEF Change
  <2> HIDE DEF r
  <2> QED  BY <1>1, <2>4, <2>5, <2>6
<1>4. ASSUME NEW i \in DOMAIN file, Strip(i)  PROVE IInv'
  <2> DEFINE r == [file[i] EXCEPT !.prev = Missing, !.hash = Missing]
  <2>1. [file EXCEPT ![i].prev = Missing, ![i].hash = Missing] = [file EXCEPT ![i] = r]
    OBVIOUS
  <2>2. file[i] \in Records  BY Elements DEF TypeInv
  <2>3. r \in Records  BY <2>2, MissingType DEF Records
  <2>4. [file EXCEPT ![i] = r] \in Seq(Records)
    <3> HIDE DEF r
    <3> QED  BY <2>3, Elements DEF TypeInv
  <2>5. ASSUME naive  PROVE [file EXCEPT ![i] = r] \in Seq(Taken(original))
    <3>1. file \in Seq(Taken(original))  BY <2>5 DEF TakenInv
    <3>2. file[i] \in Taken(original)  BY <3>1, Elements
    <3>3. r \in Taken(original)
      <4>1. PICK c \in Contents : TRUE  BY <2>2 DEF Records
      <4> QED  BY <3>2, <4>1, TakenStays
    <3> HIDE DEF r
    <3> QED  BY <3>1, <3>3, Elements
  <2>6. Edit([file EXCEPT ![i] = r], TRUE)  BY <1>4, <2>1 DEF Strip
  <2> HIDE DEF r
  <2> QED  BY <1>1, <2>4, <2>5, <2>6
<1>5. ASSUME NEW i \in DOMAIN file, Delete(i)  PROVE IInv'
  <2> DEFINE recs == SubSeq(file, 1, i - 1) \o SubSeq(file, i + 1, Len(file))
  <2>1. recs \in Seq(Records)  BY Elements DEF TypeInv
  <2>2. naive => recs \in Seq(Taken(original))  BY Elements DEF TakenInv
  <2>3. Edit(recs, TRUE)  BY <1>5 DEF Delete
  <2> HIDE DEF recs
  <2> QED  BY <1>1, <2>1, <2>2, <2>3
<1>6. ASSUME NEW i \in DOMAIN file, Repeat(i)  PROVE IInv'
  <2> DEFINE recs == SubSeq(file, 1, i) \o SubSeq(file, i, Len(file))
  <2>1. recs \in Seq(Records)  BY Elements DEF TypeInv
  <2>2. naive => recs \in Seq(Taken(original))  BY Elements DEF TakenInv
  <2>3. Edit(recs, TRUE)  BY <1>6 DEF Repeat
  <2> HIDE DEF recs
  <2> QED  BY <1>1, <2>1, <2>2, <2>3
<1>7. ASSUME NEW i \in DOMAIN file, Swap(i)  PROVE IInv'
  <2> DEFINE recs == [file EXCEPT ![i] = file[i + 1], ![i + 1] = file[i]]
  <2>1. i < Len(file) /\ Edit(recs, TRUE)  BY <1>7 DEF Swap
  <2>2. recs \in Seq(Records)  BY <2>1, Elements DEF TypeInv
  <2>3. naive => recs \in Seq(Taken(original))  BY <2>1, Elements DEF TakenInv
  <2> HIDE DEF recs
  <2> QED  BY <1>1, <2>1, <2>2, <2>3
<1>8. ASSUME NEW i \in DOMAIN file, SealAgain(i)  PROVE IInv'
  <2>1. file[i] \in Records  BY Elements DEF TypeInv
  <2>2. RunningPrev(file, i) \in Digests
    <3>1. CASE i = 1  BY <3>1, GenesisType DEF RunningPrev
    <3>2. CASE i # 1
      <4>1. i - 1 \in DOMAIN file  BY <3>2, LenProperties DEF TypeInv
      <4>2. file[i - 1] \in Records  BY <4>1, Elements DEF TypeInv
      <4> QED  BY <3>2, <4>2 DEF RunningPrev, Records
    <3> QED  BY <3>1, <3>2
  <2> DEFINE r == Seal(file[i].event, RunningPrev(file, i))
  <2>3. r \in Records  BY <2>1, <2>2, SealType DEF Records
  <2>4. Edit([file EXCEPT ![i] = r], FALSE)  BY <1>8 DEF SealAgain
  <2> HIDE DEF r
  <2>5. [file EXCEPT ![i] = r] \in Seq(Records)  BY <2>3, Elements DEF TypeInv
  <2> QED  BY <1>1, <2>4, <2>5
<1>9. CASE UNCHANGED vars
  BY <1>9 DEF vars, TypeInv, WrittenInv, UntouchedInv, TakenInv, Fails, RunningPrev
<1> QED  BY <1>2, <1>3, <1>4, <1>5, <1>6, <1>7, <1>8, <1>9 DEF Next

LEMMA Invariance == Spec => []IInv
BY InitIInv, StepIInv, PTL DEF Spec

-----------------------------------------------------------------------------
(* What verify says.                                                         *)

\* While nothing is sealed, a record fails if it is the first that differs.
LEMMA FirstFails ==
    ASSUME IInv, naive, NEW m \in DOMAIN file,
           m > Len(original) \/ file[m] # original[m],
           \A i \in 1 .. m - 1 : i <= Len(original) /\ file[i] = original[i],
           ~Fails(file, m)
    PROVE  FALSE
<1> USE DEF IInv
<1>1. /\ m \in 1 .. Len(file) /\ Len(file) \in Nat
      /\ Len(original) \in Nat /\ DOMAIN original = 1 .. Len(original)
  BY LenProperties DEF TypeInv
<1>2. file[m] \in Taken(original) /\ file[m] \in Records
  BY Elements DEF TakenInv, Taken
<1>3. file[m].prev = RunningPrev(file, m) /\ file[m].hash = ComputeHash(file[m].event, file[m].prev)
  BY DEF Fails
<1>4. file[m].hash # Missing  BY <1>2, <1>3, DigestShape DEF Records
<1>5. PICK j \in DOMAIN original :
         file[m].prev = original[j].prev /\ file[m].hash = original[j].hash
  BY <1>2, <1>4 DEF Taken
<1>6. ASSUME NEW i \in DOMAIN original
      PROVE  Len(original[i].hash) = i /\ Len(original[i].prev) = i - 1
  <2>1. \A k \in 1 .. i : ~Fails(original, k)  BY <1>1, <1>6 DEF WrittenInv
  <2>2. \A k \in 1 .. i : Len(original[k].hash) = k /\ Len(original[k].prev) = k - 1
    BY <1>6, <2>1, ChainLength DEF TypeInv
  <2>3. i \in 1 .. i  BY <1>1, <1>6
  <2> QED  BY <2>2, <2>3
<1>7. Len(file[m].prev) = m - 1
  <2>1. CASE m = 1
    <3>1. file[m].prev = <<>>  BY <1>3, <2>1 DEF RunningPrev, Genesis
    <3> QED  BY <2>1, <3>1
  <2>2. CASE m # 1
    <3>1. m - 1 \in DOMAIN original /\ file[m - 1] = original[m - 1]  BY <1>1, <2>2
    <3> QED  BY <1>3, <1>6, <2>2, <3>1 DEF RunningPrev
  <2> QED  BY <2>1, <2>2
<1>8. j = m
  <2>1. Len(original[j].prev) = j - 1  BY <1>6
  <2>2. j - 1 = m - 1  BY <1>5, <1>7, <2>1
  <2> QED  BY <1>1, <2>2
<1>9. original[m] \in Records /\ ~Fails(original, m)
  BY <1>8, Elements DEF TypeInv, WrittenInv
<1>10. original[m].hash = ComputeHash(original[m].event, original[m].prev)  BY <1>9 DEF Fails
<1>11. original[m].event = file[m].event
  BY <1>2, <1>3, <1>5, <1>8, <1>9, <1>10, DigestTells DEF Records
<1>12. file[m] = original[m]
  BY <1>2, <1>5, <1>8, <1>9, <1>11 DEF Records
<1> QED  BY <1>1, <1>8, <1>12

LEMMA LocalizesInv == IInv => Localizes
<1> SUFFICES ASSUME IInv, naive  PROVE BrokenAt(file) = FirstDifference
  BY DEF Localizes
<1> DEFINE fails == {i \in DOMAIN file : Fails(file, i)}
           differs == {i \in DOMAIN file : i > Len(original) \/ file[i] # original[i]}
<1>1. /\ DOMAIN file = 1 .. Len(file) /\ Len(file) \in Nat
      /\ Len(original) \in Nat /\ DOMAIN original = 1 .. Len(original)
  BY LenProperties DEF IInv, TypeInv
<1>2. BrokenAt(file) = IF fails = {} THEN 0 ELSE CHOOSE i \in fails : \A j \in fails : i <= j
  BY DEF BrokenAt, Verifies, FailingRecords
<1>3. FirstDifference = IF differs = {} THEN 0
                        ELSE CHOOSE i \in differs : \A j \in differs : i <= j
  BY DEF FirstDifference
\* Up to the first difference, the file passes as the original does.
<1>4. ASSUME NEW i \in DOMAIN file, \A k \in 1 .. i : k \notin differs  PROVE i \notin fails
  <2>1. i \in DOMAIN original /\ file[i] = original[i]  BY <1>1, <1>4
  <2>2. i # 1 => file[i - 1] = original[i - 1]  BY <1>1, <1>4
  <2>3. ~Fails(original, i)  BY <2>1 DEF IInv, WrittenInv
  <2> QED  BY <2>1, <2>2, <2>3 DEF Fails, RunningPrev
<1>5. CASE differs = {}
  <2>1. fails = {}
    <3> SUFFICES ASSUME NEW i \in fails  PROVE FALSE  OBVIOUS
    <3> QED  BY <1>4, <1>5
  <2> QED  BY <1>2, <1>3, <1>5, <2>1
<1>6. CASE differs # {}
  <2>1. differs \in SUBSET Nat  BY <1>1
  <2>2. PICK m \in differs : \A j \in differs : m <= j
    <3> HIDE DEF differs
    <3> QED  BY <1>6, <2>1, Least
  <2>3. m \in DOMAIN file /\ (m > Len(original) \/ file[m] # original[m])  OBVIOUS
  <2>4. ASSUME NEW i \in 1 .. m - 1  PROVE i <= Len(original) /\ file[i] = original[i]
    <3>1. i \in DOMAIN file /\ i \notin differs  BY <1>1, <2>2, <2>3
    <3> QED  BY <1>1, <3>1
  <2>5. Fails(file, m)  BY <2>3, <2>4, FirstFails
  <2>6. m \in fails  BY <2>3, <2>5
  <2>7. ASSUME NEW j \in fails  PROVE m <= j
    <3> SUFFICES ASSUME j < m  PROVE FALSE  BY <1>1, <2>3
    <3>1. \A k \in 1 .. j : k \notin differs  BY <1>1, <2>2, <2>3
    <3> QED  BY <1>4, <3>1
  <2>8. fails \in SUBSET Nat  BY <1>1
  <2> HIDE DEF fails, differs
  <2>9. (CHOOSE i \in fails : \A j \in fails : i <= j) = m
    <3>1. ASSUME NEW i \in fails, \A j \in fails : i <= j  PROVE i = m
      <4>1. i <= m /\ m <= i /\ i \in Nat /\ m \in Nat  BY <2>6, <2>7, <2>8, <3>1
      <4> QED  BY ONLY <4>1
    <3> QED  BY <2>6, <2>7, <3>1
  <2>10. (CHOOSE i \in differs : \A j \in differs : i <= j) = m
    <3>1. ASSUME NEW i \in differs, \A j \in differs : i <= j  PROVE i = m
      <4>1. i <= m /\ m <= i /\ i \in Nat /\ m \in Nat  BY <2>1, <2>2, <3>1
      <4> QED  BY ONLY <4>1
    <3> QED  BY <2>2, <3>1
  <2> QED  BY <1>2, <1>3, <1>6, <2>6, <2>9, <2>10
<1> QED  BY <1>5, <1>6

LEMMA EvidentInv == IInv => EvidentToHead
<1> SUFFICES ASSUME IInv, Verifies(file), NEW i \in DOMAIN file, original # <<>>,
                    file[i].hash = HeadOf(original)
             PROVE  SubSeq(file, 1, i) = original
  BY DEF EvidentToHead
<1> USE DEF IInv
<1> DEFINE n == Len(original)
<1>1. /\ DOMAIN file = 1 .. Len(file) /\ Len(file) \in Nat
      /\ n \in Nat /\ n # 0 /\ DOMAIN original = 1 .. n
  BY LenProperties, EmptySeq DEF TypeInv
<1>2. \A k \in 1 .. i : k \in DOMAIN file /\ ~Fails(file, k)
  BY <1>1 DEF Verifies, FailingRecords
<1>3. \A k \in 1 .. n : ~Fails(original, k)  BY <1>1 DEF WrittenInv
<1>4. original[n] \in Records /\ ~Fails(original, n) /\ n \in DOMAIN original
  BY <1>1, <1>3, Elements DEF TypeInv
<1>5. original[n].hash # Missing  BY <1>4, DigestShape DEF Fails, Records
<1>6. file[i].hash = original[n].hash  BY <1>5 DEF HeadOf
<1>7. Len(file[i].hash) = i
  <2>1. \A k \in 1 .. i : Len(file[k].hash) = k /\ Len(file[k].prev) = k - 1
    BY <1>2, ChainLength DEF TypeInv
  <2>2. i \in 1 .. i  BY <1>1
  <2> QED  BY <2>1, <2>2
<1>8. Len(original[n].hash) = n
  <2>1. \A k \in 1 .. n : Len(original[k].hash) = k /\ Len(original[k].prev) = k - 1
    BY <1>3, <1>4, ChainLength DEF TypeInv
  <2>2. n \in 1 .. n  BY <1>1
  <2> QED  BY <2>1, <2>2
<1>9. i = n  BY <1>6, <1>7, <1>8
<1>10. \A k \in 1 .. i : file[k] = original[k]
  <2>1. i \in DOMAIN original /\ file[i].hash = original[i].hash  BY <1>4, <1>6, <1>9
  <2>2. \A k \in 1 .. i : ~Fails(file, k) /\ ~Fails(original, k)  BY <1>2, <1>3, <1>9
  <2> QED  BY <2>1, <2>2, OneHistory DEF TypeInv
<1> HIDE DEF n
<1>11. /\ SubSeq(file, 1, i) \in Seq(Records)
       /\ Len(SubSeq(file, 1, i)) = IF 1 <= i THEN i - 1 + 1 ELSE 0
       /\ \A k \in 1 .. i - 1 + 1 : SubSeq(file, 1, i)[k] = file[1 + k - 1]
  <2>1. \A k \in 1 .. i : file[k] \in Records  BY <1>2, Elements DEF TypeInv
  <2> QED  BY <1>1, <2>1, SubSeqProperties
<1>12. Len(SubSeq(file, 1, i)) = Len(original) /\ 1 <= i  BY <1>1, <1>9, <1>11 DEF n
<1>13. ASSUME NEW k \in 1 .. Len(original)  PROVE SubSeq(file, 1, i)[k] = original[k]
  <2>1. k \in 1 .. i - 1 + 1 /\ 1 + k - 1 = k /\ k \in 1 .. i  BY <1>1, <1>9 DEF n
  <2> QED  BY <1>10, <1>11, <2>1
<1> QED  BY <1>11, <1>12, <1>13, SeqEqual DEF TypeInv

\* verify localizes an edit: for any log and any edits after which nothing is
\* sealed, the record it reports is the first that is not what was written.
THEOREM LocalizesSafety == Spec => []Localizes
BY Invariance, LocalizesInv, PTL

\* The head vouches for the log: whatever was done to it, sealing anew included,
\* a chain that verifies and has the old head in it begins with what was written.
THEOREM EvidentSafety == Spec => []EvidentToHead
BY Invariance, EvidentInv, PTL
===============================================================================
