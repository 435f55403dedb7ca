---------------------------- MODULE Capture_proofs ----------------------------
(***************************************************************************)
(* Proofs about Capture and the modules it composes, for any texts,        *)
(* patterns, limits, agents and bounds, however reads split what is typed  *)
(* and printed.                                                            *)
(*                                                                         *)
(* The argument: every record is one of Made, a record that build has made *)
(* from a text of plain words (TypeInv); what build makes hides and        *)
(* reports its secrets, and is shown as what it is of, whatever the text.  *)
(* The other invariants say what has become of what happened: what was     *)
(* printed is the transcript and what is still to be read (OutputInv),     *)
(* what was observed is recorded if it can be (KernelInv), and what was    *)
(* typed is what the pump makes of the bytes it has read, all at once, and *)
(* what is still to be read (KeysInv).                                     *)
(*                                                                         *)
(* Each fold of the model is a run over its sequence (Induction), whose    *)
(* operator is here a function from the element to the state.              *)
(***************************************************************************)
EXTENDS Capture, Induction

-----------------------------------------------------------------------------
(* The folds of the model, each with its operator as a function.            *)

DecodeOp(X) ==
    [b \in X |-> [out \in Seq(X) |->
        IF b # "A9" THEN Append(out, b)
        ELSE IF out # <<>> /\ Last(out) = "C3" THEN Append(Front(out), "eacute")
        ELSE Append(out, "lost")]]

\* The characters of bytes, C3 where one is missing.
Chars(X, bytes) == RunOf(DecodeOp(X), <<>>, bytes)

\* A sequence is its front and its last element.
LEMMA FrontLast ==
    ASSUME NEW X
    PROVE  \A s \in Seq(X) : s # <<>> =>
              Last(s) \in X /\ Front(s) \in Seq(X) /\ s = Append(Front(s), Last(s))
              /\ Len(Front(s)) = Len(s) - 1
<1> SUFFICES ASSUME NEW s \in Seq(X), s # <<>>
             PROVE  /\ Last(s) \in X /\ Front(s) \in Seq(X) /\ s = Append(Front(s), Last(s))
                    /\ Len(Front(s)) = Len(s) - 1
  OBVIOUS
<1>1. PICK n \in Nat : n = Len(s)  OBVIOUS
<1>2. n > 0 /\ \A k \in 1 .. n : s[k] \in X  BY <1>1
<1>3. Last(s) = s[n] /\ Last(s) \in X  BY <1>1, <1>2 DEF Last
<1>4. PICK f : f = SubSeq(s, 1, n - 1)  OBVIOUS
<1>5. Front(s) = f  BY <1>1, <1>4 DEF Front
<1>6. f \in Seq(X) /\ Len(f) = n - 1 /\ \A k \in 1 .. n - 1 : f[k] = s[k]  BY <1>1, <1>2, <1>4
<1>7. PICK t : t = Append(f, s[n])  OBVIOUS
<1>8. t \in Seq(X) /\ Len(t) = n /\ \A k \in 1 .. n : t[k] = s[k]  BY <1>2, <1>6, <1>7
<1>9. s = t  BY <1>1, <1>8
<1> QED  BY <1>1, <1>3, <1>5, <1>6, <1>7, <1>9

\* Decoding one byte more gives characters.
LEMMA DecodeType ==
    ASSUME NEW X, {"eacute", "lost"} \subseteq X
    PROVE  DecodeOp(X) \in [X -> [Seq(X) -> Seq(X)]]
<1>1. ASSUME NEW b \in X, NEW out \in Seq(X)
      PROVE  (IF b # "A9" THEN Append(out, b)
              ELSE IF out # <<>> /\ Last(out) = "C3" THEN Append(Front(out), "eacute")
              ELSE Append(out, "lost")) \in Seq(X)
  <2>1. out # <<>> => Front(out) \in Seq(X)  BY FrontLast
  <2> QED  BY <2>1
<1> QED  BY <1>1 DEF DecodeOp

\* Utf8Lossy goes through its bytes one by one.
LEMMA Utf8LossyRun ==
    ASSUME NEW X, {"eacute", "lost"} \subseteq X, NEW bytes \in Seq(X)
    PROVE  Utf8Lossy(bytes) =
              [i \in DOMAIN Chars(X, bytes) |->
                  IF Chars(X, bytes)[i] = "C3" THEN "lost" ELSE Chars(X, bytes)[i]]
<1> DEFINE decode(out, b) ==
              IF b # "A9" THEN Append(out, b)
              ELSE IF out # <<>> /\ Last(out) = "C3" THEN Append(Front(out), "eacute")
              ELSE Append(out, "lost")
           op == DecodeOp(X)
           Body(it) == [D \in SUBSET (DOMAIN bytes) |->
                           IF D = {} THEN <<>>
                           ELSE decode(it[D \ {Max(D)}], bytes[Max(D)])]
           it == CHOOSE it : it = Body(it)
           chars == FoldLeft(decode, <<>>, bytes)
<1>1. Utf8Lossy(bytes) = [i \in DOMAIN chars |-> IF chars[i] = "C3" THEN "lost" ELSE chars[i]]
  BY DEF Utf8Lossy
<1>2. chars = it[DOMAIN bytes]  BY Zenon DEF FoldLeft, MapThenFoldSet
<1>3. op \in [X -> [Seq(X) -> Seq(X)]]  BY DecodeType
<1>4. \A b \in X, out \in Seq(X) : op[b][out] = decode(out, b)  BY DEF DecodeOp
<1> HIDE DEF decode, op
<1>5. it[{}] = <<>> /\ \A D \in SUBSET (DOMAIN bytes) : D # {} =>
          it[D] = decode(it[D \ {Max(D)}], bytes[Max(D)])
  <2>1. PICK h : FoldOf(h, Seq(X), X, op, <<>>, bytes)
    <3>1. <<>> \in Seq(X)  OBVIOUS
    <3>2. \A base \in Seq(X), s \in Seq(X) : \E i : FoldOf(i, Seq(X), X, op, base, s)
      BY <1>3, FoldFun
    <3> QED  BY <3>1, <3>2, Zenon
  <2>2. ASSUME NEW D \in SUBSET (DOMAIN bytes), D # {}
        PROVE  h[D] = decode(h[D \ {Max(D)}], bytes[Max(D)])
    BY <1>4, <2>1, <2>2 DEF FoldOf
  <2>3. h[{}] = <<>>  BY <2>1 DEF FoldOf
  <2>4. h = Body(h)  BY <2>1, <2>2, <2>3 DEF FoldOf
  <2>5. it = Body(it)
    <3> HIDE DEF Body
    <3> QED  BY <2>4
  <2> HIDE DEF it
  <2> QED  BY <2>5
<1> HIDE DEF it
<1>6. it[DOMAIN bytes] = RunOf(op, <<>>, bytes)
  <2>1. FoldsAs(it, Seq(X), X, op, <<>>, bytes)  BY <1>4, <1>5 DEF FoldsAs
  <2>2. <<>> \in Seq(X)  OBVIOUS
  <2>3. \A base \in Seq(X), s \in Seq(X) : \A i :
            FoldsAs(i, Seq(X), X, op, base, s) => i[DOMAIN s] = RunOf(op, base, s)
    BY <1>3, FoldRun
  <2> QED  BY <2>1, <2>2, <2>3, Zenon
<1> QED  BY <1>1, <1>2, <1>6 DEF Chars, op

\* What sanitize knows after some characters.
Scans == [mode : {"text", "esc", "csi", "osc"}, out : Seq(Printable)]

ScanOp(X) == [c \in X |-> [st \in Scans |-> Scan(st, c)]]

\* The scanner of sanitize goes from state to state.
LEMMA ScanType ==
    ASSUME NEW X
    PROVE  ScanOp(X) \in [X -> [Scans -> Scans]]
<1>1. ASSUME NEW c \in X, NEW st \in Scans  PROVE Scan(st, c) \in Scans
  <2>1. PICK m \in {"text", "esc", "csi", "osc"}, o \in Seq(Printable) : st = [mode |-> m, out |-> o]
    BY DEF Scans
  <2>2. \A k \in {"text", "esc", "csi", "osc"} : [st EXCEPT !.mode = k] \in Scans
    BY <2>1 DEF Scans
  <2>3. c \in Printable => [st EXCEPT !.out = Append(@, c)] \in Scans
    <3>1. c \in Printable => Append(o, c) \in Seq(Printable)  OBVIOUS
    <3>2. [st EXCEPT !.out = Append(@, c)] = [mode |-> m, out |-> Append(o, c)]  BY <2>1
    <3> QED  BY <3>1, <3>2 DEF Scans
  <2>4. [mode |-> "text", out |-> st.out \o Rest(c)] \in Scans
    <3>1. "rest" \in Printable  BY DEF Printable, Final, Halves
    <3>2. Rest(c) \in Seq(Printable)  BY <3>1 DEF Rest
    <3>3. \A r \in Seq(Printable) : o \o r \in Seq(Printable)  OBVIOUS
    <3>4. st.out \o Rest(c) \in Seq(Printable)  BY <2>1, <3>2, <3>3
    <3> QED  BY <3>4 DEF Scans
  <2> QED  BY <2>1, <2>2, <2>3, <2>4 DEF Scan
<1> QED  BY <1>1 DEF ScanOp

\* sanitize goes through its characters one by one.
LEMMA ScanRun ==
    ASSUME NEW X, NEW s \in Seq(X), NEW base \in Scans
    PROVE  FoldLeft(Scan, base, s) = RunOf(ScanOp(X), base, s)
<1> DEFINE step(t, x) == Scan(t, x)
           op == ScanOp(X)
           Body(it) == [D \in SUBSET (DOMAIN s) |->
                           IF D = {} THEN base ELSE step(it[D \ {Max(D)}], s[Max(D)])]
           it == CHOOSE it : it = Body(it)
<1>1. FoldLeft(Scan, base, s) = it[DOMAIN s]  BY Zenon DEF FoldLeft, MapThenFoldSet
<1>2. op \in [X -> [Scans -> Scans]] /\ base \in Scans  BY ScanType
<1>3. \A x \in X, t \in Scans : op[x][t] = step(t, x)  BY DEF ScanOp
<1> HIDE DEF step, op
<1>4. PICK h : FoldOf(h, Scans, X, op, base, s)
  <2>1. \A b \in Scans, u \in Seq(X) : \E i : FoldOf(i, Scans, X, op, b, u)
    BY <1>2, FoldFun
  <2> QED  BY <1>2, <2>1, Zenon
<1>5. h = Body(h)
  <2>1. ASSUME NEW D \in SUBSET (DOMAIN s), D # {}
        PROVE  h[D] = step(h[D \ {Max(D)}], s[Max(D)])
    BY <1>3, <1>4, <2>1 DEF FoldOf
  <2>2. h[{}] = base  BY <1>4 DEF FoldOf
  <2> QED  BY <1>4, <2>1, <2>2 DEF FoldOf
<1>6. it = Body(it)
  <2> HIDE DEF Body
  <2> QED  BY <1>5
<1> HIDE DEF it
<1>7. it[{}] = base /\ \A D \in SUBSET (DOMAIN s) : D # {} =>
          it[D] = step(it[D \ {Max(D)}], s[Max(D)])
  BY <1>6
<1>8. FoldsAs(it, Scans, X, op, base, s)  BY <1>3, <1>7 DEF FoldsAs
<1>9. \A b \in Scans, u \in Seq(X) : \A i :
          FoldsAs(i, Scans, X, op, b, u) => i[DOMAIN u] = RunOf(op, b, u)
  BY <1>2, FoldRun
<1> QED  BY <1>1, <1>2, <1>8, <1>9, Zenon DEF op

JoinOp(X) ==
    [c \in X |-> [out \in Seq(X) |->
        IF c = "k2" /\ out # <<>> /\ Last(out) = "k1"
        THEN Append(Front(out), "key") ELSE Append(out, c)]]

\* Joining one character more gives words.
LEMMA JoinType ==
    ASSUME NEW X, "key" \in X
    PROVE  JoinOp(X) \in [X -> [Seq(X) -> Seq(X)]]
<1>1. ASSUME NEW c \in X, NEW out \in Seq(X)
      PROVE  (IF c = "k2" /\ out # <<>> /\ Last(out) = "k1"
              THEN Append(Front(out), "key") ELSE Append(out, c)) \in Seq(X)
  <2>1. out # <<>> => Front(out) \in Seq(X)  BY FrontLast
  <2> QED  BY <2>1
<1> QED  BY <1>1 DEF JoinOp

\* Words goes through its characters one by one.
LEMMA WordsRun ==
    ASSUME NEW X, "key" \in X, NEW chars \in Seq(X)
    PROVE  Words(chars) = RunOf(JoinOp(X), <<>>, chars)
<1> DEFINE step(t, x) == IF x = "k2" /\ t # <<>> /\ Last(t) = "k1"
                         THEN Append(Front(t), "key") ELSE Append(t, x)
           op == JoinOp(X)
           Body(it) == [D \in SUBSET (DOMAIN chars) |->
                           IF D = {} THEN <<>> ELSE step(it[D \ {Max(D)}], chars[Max(D)])]
           it == CHOOSE it : it = Body(it)
<1>1. Words(chars) = it[DOMAIN chars]  BY Zenon DEF Words, FoldLeft, MapThenFoldSet
<1>2. op \in [X -> [Seq(X) -> Seq(X)]] /\ <<>> \in Seq(X)  BY JoinType
<1>3. \A x \in X, t \in Seq(X) : op[x][t] = step(t, x)  BY DEF JoinOp
<1> HIDE DEF step, op
<1>4. PICK h : FoldOf(h, Seq(X), X, op, <<>>, chars)
  <2>1. \A b \in Seq(X), u \in Seq(X) : \E i : FoldOf(i, Seq(X), X, op, b, u)
    BY <1>2, FoldFun
  <2> QED  BY <1>2, <2>1, Zenon
<1>5. h = Body(h)
  <2>1. ASSUME NEW D \in SUBSET (DOMAIN chars), D # {}
        PROVE  h[D] = step(h[D \ {Max(D)}], chars[Max(D)])
    BY <1>3, <1>4, <2>1 DEF FoldOf
  <2>2. h[{}] = <<>>  BY <1>4 DEF FoldOf
  <2> QED  BY <1>4, <2>1, <2>2 DEF FoldOf
<1>6. it = Body(it)
  <2> HIDE DEF Body
  <2> QED  BY <1>5
<1> HIDE DEF it
<1>7. it[{}] = <<>> /\ \A D \in SUBSET (DOMAIN chars) : D # {} =>
          it[D] = step(it[D \ {Max(D)}], chars[Max(D)])
  BY <1>6
<1>8. FoldsAs(it, Seq(X), X, op, <<>>, chars)  BY <1>3, <1>7 DEF FoldsAs
<1>9. \A b \in Seq(X), u \in Seq(X) : \A i :
          FoldsAs(i, Seq(X), X, op, b, u) => i[DOMAIN u] = RunOf(op, b, u)
  BY <1>2, FoldRun
<1> QED  BY <1>1, <1>2, <1>8, <1>9, Zenon DEF op

-----------------------------------------------------------------------------
(* Bytes, characters and words.                                             *)

\* What Min returns for a set of places.
LEMMA MinOf ==
    ASSUME NEW n \in Nat, NEW S \in SUBSET (1 .. n), S # {}
    PROVE  Min(S) \in S /\ \A y \in S : Min(S) <= y
<1>1. S \in SUBSET Nat  OBVIOUS
<1>2. \E x \in S : \A y \in S : x <= y  BY <1>1, Least
<1> QED  BY <1>2 DEF Min

\* What Max returns for a bounded set of naturals.
LEMMA MaxOfNat ==
    ASSUME NEW n \in Nat, NEW S \in SUBSET (0 .. n), S # {}
    PROVE  Max(S) \in S /\ \A y \in S : y <= Max(S)
<1> DEFINE U == {x + 1 : x \in S}
<1>2. \A x \in S : x + 1 \in U  OBVIOUS
<1>1. U \in SUBSET (1 .. n + 1) /\ U # {} /\ n + 1 \in Nat
  <2>1. PICK x \in S : TRUE  OBVIOUS
  <2>2. U # {}  BY <1>2, <2>1
  <2>3. \A y \in S : y + 1 \in 1 .. n + 1  OBVIOUS
  <2> QED  BY <2>2, <2>3
<1>3. \A u \in U : \E x \in S : u = x + 1  OBVIOUS
<1> HIDE DEF U
<1>4. PICK u \in U : \A v \in U : v <= u  BY <1>1, Greatest
<1>5. PICK m \in S : u = m + 1  BY <1>3
<1>6. ASSUME NEW y \in S  PROVE m >= y
  <2>1. y + 1 <= m + 1  BY <1>2, <1>4, <1>5
  <2> QED  BY <2>1
<1>7. \E x \in S : \A y \in S : x >= y  BY <1>6
<1> QED  BY <1>7 DEF Max

\* Bytes decode to characters, with C3 where the second byte is missing.
LEMMA CharsType ==
    ASSUME NEW X, {"eacute", "lost"} \subseteq X
    PROVE  \A bytes \in Seq(X) : Chars(X, bytes) \in Seq(X)
<1>1. <<>> \in Seq(X)  OBVIOUS
<1>2. \A base \in Seq(X), s \in Seq(X) : RunOf(DecodeOp(X), base, s) \in Seq(X)
  BY DecodeType, RunType
<1> QED  BY <1>1, <1>2, Zenon DEF Chars

\* What from_utf8_lossy returns are characters.
LEMMA Utf8LossyType ==
    ASSUME NEW X, {"eacute", "lost"} \subseteq X
    PROVE  \A bytes \in Seq(X) :
              /\ Utf8Lossy(bytes) \in Seq(X)
              /\ Len(Utf8Lossy(bytes)) = Len(Chars(X, bytes))
<1> SUFFICES ASSUME NEW bytes \in Seq(X)
             PROVE  /\ Utf8Lossy(bytes) \in Seq(X)
                    /\ Len(Utf8Lossy(bytes)) = Len(Chars(X, bytes))
  OBVIOUS
<1>1. PICK c \in Seq(X) : c = Chars(X, bytes)  BY CharsType
<1>2. Utf8Lossy(bytes) = [i \in DOMAIN c |-> IF c[i] = "C3" THEN "lost" ELSE c[i]]
  BY <1>1, Utf8LossyRun
<1>3. PICK n \in Nat : DOMAIN c = 1 .. n /\ Len(c) = n  OBVIOUS
<1> QED  BY <1>1, <1>2, <1>3

TextState == [mode |-> "text", out |-> <<>>]

\* What sanitize returns is printable, whatever the bytes.
LEMMA SanitizeType ==
    ASSUME NEW X, {"eacute", "lost"} \subseteq X
    PROVE  \A bytes \in Seq(X) : Sanitize(bytes) \in Seq(Printable)
<1> SUFFICES ASSUME NEW bytes \in Seq(X)  PROVE Sanitize(bytes) \in Seq(Printable)
  OBVIOUS
<1>1. PICK c \in Seq(X) : c = Utf8Lossy(bytes)  BY Utf8LossyType
<1>2. TextState \in Scans
  <2>1. <<>> \in Seq(Printable)  OBVIOUS
  <2> QED  BY <2>1 DEF TextState, Scans
<1>3. FoldLeft(Scan, TextState, c) = RunOf(ScanOp(X), TextState, c)  BY <1>2, ScanRun
<1>4. \A base \in Scans, s \in Seq(X) : RunOf(ScanOp(X), base, s) \in Scans
  BY ScanType, RunType
<1>5. FoldLeft(Scan, TextState, c) \in Scans  BY <1>1, <1>2, <1>3, <1>4
<1>6. Sanitize(bytes) = FoldLeft(Scan, TextState, c).out  BY <1>1 DEF Sanitize, TextState
<1> QED  BY <1>5, <1>6 DEF Scans

\* Trim takes a part of a text, and the whole if neither end of it is blank.
LEMMA TrimPart ==
    ASSUME NEW X
    PROVE  \A chars \in Seq(X) :
              \/ Trim(chars) = <<>>
              \/ \E a, b \in 1 .. Len(chars) :
                    /\ a <= b /\ Trim(chars) = SubSeq(chars, a, b)
                    /\ chars[a] \notin Blank /\ chars[b] \notin Blank
                    /\ \A i \in 1 .. Len(chars) : chars[i] \notin Blank => i \in a .. b
<1> SUFFICES ASSUME NEW chars \in Seq(X), Trim(chars) # <<>>
             PROVE  \E a, b \in 1 .. Len(chars) :
                       /\ a <= b /\ Trim(chars) = SubSeq(chars, a, b)
                       /\ chars[a] \notin Blank /\ chars[b] \notin Blank
                       /\ \A i \in 1 .. Len(chars) : chars[i] \notin Blank => i \in a .. b
  OBVIOUS
<1>1. PICK n \in Nat : n = Len(chars) /\ DOMAIN chars = 1 .. n  OBVIOUS
<1>2. PICK S \in SUBSET (1 .. n) : S = {i \in DOMAIN chars : chars[i] \notin Blank}  BY <1>1
<1>3. S # {} /\ Trim(chars) = SubSeq(chars, Min(S), Max(S))  BY <1>2 DEF Trim
<1>4. Min(S) \in S /\ \A y \in S : Min(S) <= y  BY <1>3, MinOf
<1>5. Max(S) \in S /\ \A y \in S : y <= Max(S)  BY <1>3, MaxOf, Zenon
<1>6. PICK a, b : a = Min(S) /\ b = Max(S)  OBVIOUS
<1>7. a \in 1 .. n /\ b \in 1 .. n /\ a <= b /\ chars[a] \notin Blank /\ chars[b] \notin Blank
  BY <1>2, <1>4, <1>5, <1>6
<1>8. \A i \in 1 .. n : chars[i] \notin Blank => i \in a .. b  BY <1>1, <1>2, <1>4, <1>5, <1>6
<1> QED  BY <1>1, <1>3, <1>6, <1>7, <1>8

\* trim returns a part.
LEMMA TrimType ==
    ASSUME NEW X
    PROVE  \A chars \in Seq(X) : Trim(chars) \in Seq(X)
<1> SUFFICES ASSUME NEW chars \in Seq(X)  PROVE Trim(chars) \in Seq(X)
  OBVIOUS
<1>1. CASE Trim(chars) = <<>>  BY <1>1
<1>2. CASE Trim(chars) # <<>>
  <2>1. PICK a, b \in 1 .. Len(chars) : a <= b /\ Trim(chars) = SubSeq(chars, a, b)
    BY <1>2, TrimPart
  <2> QED  BY <2>1
<1> QED  BY <1>1, <1>2

\* trim leaves a text alone that has no blank at an end.
LEMMA TrimWhole ==
    ASSUME NEW X
    PROVE  \A chars \in Seq(X) :
              chars # <<>> /\ chars[1] \notin Blank /\ chars[Len(chars)] \notin Blank
                => Trim(chars) = chars
<1> SUFFICES ASSUME NEW chars \in Seq(X), chars # <<>>,
                    chars[1] \notin Blank, chars[Len(chars)] \notin Blank
             PROVE  Trim(chars) = chars
  OBVIOUS
<1>1. PICK n \in Nat : n = Len(chars) /\ DOMAIN chars = 1 .. n /\ n > 0  OBVIOUS
<1>2. PICK S \in SUBSET (1 .. n) : S = {i \in DOMAIN chars : chars[i] \notin Blank}  BY <1>1
<1>3. 1 \in S /\ n \in S  BY <1>1, <1>2
<1>4. Trim(chars) = SubSeq(chars, Min(S), Max(S))  BY <1>2, <1>3 DEF Trim
<1>5. Min(S) \in S /\ \A y \in S : Min(S) <= y  BY <1>3, MinOf
<1>6. Max(S) \in S /\ \A y \in S : y <= Max(S)  BY <1>3, MaxOf, Zenon
<1>7. Min(S) = 1 /\ Max(S) = n
  <2>1. PICK a, b : a = Min(S) /\ b = Max(S)  OBVIOUS
  <2>2. a \in 1 .. n /\ b \in 1 .. n /\ a <= 1 /\ n <= b  BY <1>3, <1>5, <1>6, <2>1
  <2> QED  BY <2>1, <2>2
<1> QED  BY <1>1, <1>4, <1>7

\* A line as it is recorded is printable.
LEMMA CleanLineType ==
    ASSUME NEW X, {"eacute", "lost"} \subseteq X
    PROVE  \A bytes \in Seq(X) : CleanLine(bytes) \in Seq(Printable)
BY SanitizeType, TrimType, Zenon DEF CleanLine

\* Characters make words of the vocabulary.
LEMMA WordsType ==
    ASSUME NEW X, "key" \in X
    PROVE  \A chars \in Seq(X) : Words(chars) \in Seq(X)
<1>1. <<>> \in Seq(X)  OBVIOUS
<1>2. \A base \in Seq(X), s \in Seq(X) : RunOf(JoinOp(X), base, s) \in Seq(X)
  BY JoinType, RunType
<1>3. \A chars \in Seq(X) : Words(chars) = RunOf(JoinOp(X), <<>>, chars)  BY WordsRun
<1> QED  BY <1>1, <1>2, <1>3

\* A text of characters is one of words that nothing has masked.
LEMMA TextType == \A chars \in Seq(DOMAIN Matches) : Text(chars) \in Seq(PlainWord)
<1> SUFFICES ASSUME NEW chars \in Seq(DOMAIN Matches)  PROVE Text(chars) \in Seq(PlainWord)
  OBVIOUS
<1>1. PICK W : W = DOMAIN Matches  OBVIOUS
<1>2. "key" \in W  BY <1>1, CaptureAssumption
<1>3. PICK words \in Seq(W) : words = Words(chars)  BY <1>1, <1>2, WordsType
<1>4. PICK n \in Nat : n = Len(words) /\ DOMAIN words = 1 .. n /\ \A i \in 1 .. n : words[i] \in W
  OBVIOUS
<1>5. \A i \in 1 .. n : Plain(words[i]) \in PlainWord  BY <1>1, <1>4 DEF Plain, PlainWord
<1>6. Text(chars) = [i \in 1 .. n |-> Plain(words[i])]  BY <1>3, <1>4 DEF Text
<1> QED  BY <1>5, <1>6

-----------------------------------------------------------------------------
(* Redaction.                                                               *)

Names == {Patterns[i].name : i \in DOMAIN Patterns}
Kinds == Names \cup {HighEntropy.name}

\* The twelve patterns; no sample is taken for a plain word or a cut one.
LEMMA PatternNames ==
    /\ DOMAIN Patterns = 1 .. 12
    /\ "none" \notin Kinds /\ "cut" \notin Kinds
    /\ \A k \in 1 .. 12 : Patterns[k].severity \in DOMAIN SeverityRank
    /\ HighEntropy.severity \in DOMAIN SeverityRank
<1>1. DOMAIN Patterns = 1 .. 12  BY DEF Patterns
<1>2. \A k \in 1 .. 12 : k = 1 \/ k = 2 \/ k = 3 \/ k = 4 \/ k = 5 \/ k = 6 \/ k = 7 \/ k = 8
                         \/ k = 9 \/ k = 10 \/ k = 11 \/ k = 12
  OBVIOUS
<1>3. \A k \in 1 .. 12 : /\ Patterns[k].name \notin {"none", "cut"}
                         /\ Patterns[k].severity \in {"CRITICAL", "HIGH", "MEDIUM"}
  BY <1>2 DEF Patterns
<1>4. HighEntropy.name \notin {"none", "cut"} /\ HighEntropy.severity = "HIGH"  BY DEF HighEntropy
<1>5. {"CRITICAL", "HIGH", "MEDIUM"} \subseteq DOMAIN SeverityRank  BY DEF SeverityRank
<1> QED  BY <1>1, <1>3, <1>4, <1>5 DEF Names, Kinds

\* A word of a text that is recorded: an adapter may have cut it.
InputWord == [mask : {"none", "cut"}, word : DOMAIN Matches]

Samples == {RedactSample(kind, word) : kind \in Kinds, word \in DOMAIN Matches}

\* A word that redaction leaves as it is.
Clear(w, fuzzy) ==
    /\ w \in InputWord
    /\ w.mask = "none" => Matches[w.word] = {} /\ (fuzzy => w.word \notin Random)

\* A sample is neither a plain word nor a cut one.
LEMMA SampleMask == \A w \in Samples : w.mask \in Kinds /\ w.mask \notin {"none", "cut"}
BY PatternNames DEF Samples, RedactSample

\* The patterns leave a word, or a sample of it when one of them matches.
LEMMA ApplyPatternsWords ==
    \A text \in Seq(InputWord) :
        /\ DOMAIN ApplyPatterns(text) = DOMAIN text
        /\ \A i \in DOMAIN text :
              \/ ApplyPatterns(text)[i] = text[i] /\ Clear(text[i], FALSE)
              \/ text[i].mask = "none" /\ ApplyPatterns(text)[i] \in Samples
                 /\ Matches[text[i].word] # {}
<1> SUFFICES ASSUME NEW text \in Seq(InputWord), NEW i \in DOMAIN text
             PROVE  \/ ApplyPatterns(text)[i] = text[i] /\ Clear(text[i], FALSE)
                    \/ text[i].mask = "none" /\ ApplyPatterns(text)[i] \in Samples
                       /\ Matches[text[i].word] # {}
  BY DEF ApplyPatterns
<1>1. PICK w : w = text[i]  OBVIOUS
<1>2. w \in InputWord  BY <1>1
<1>3. PICK H : H = {k \in DOMAIN Patterns : IsMatch(Patterns[k], w)}  OBVIOUS
<1>4. ApplyPatterns(text)[i] =
          IF H = {} THEN w ELSE RedactSample(Patterns[Min(H)].name, w.word)
  BY <1>1, <1>3 DEF ApplyPatterns
<1>5. CASE H = {}
  <2>1. ASSUME w.mask = "none"  PROVE Matches[w.word] = {}
    <3>1. Matches[w.word] \subseteq Names  BY <1>2, TextAssumption DEF InputWord, Names
    <3>2. \A k \in DOMAIN Patterns : Patterns[k].name \notin Matches[w.word]
      BY <1>3, <1>5, <2>1 DEF IsMatch
    <3> QED  BY <3>1, <3>2 DEF Names
  <2> QED  BY <1>1, <1>2, <1>4, <1>5, <2>1 DEF Clear
<1>6. CASE H # {}
  <2>1. H \in SUBSET (1 .. 12)  BY <1>3, PatternNames
  <2>2. Min(H) \in H  BY <1>6, <2>1, MinOf
  <2>3. PICK k : k = Min(H)  OBVIOUS
  <2>4. k \in DOMAIN Patterns /\ w.mask = "none" /\ Patterns[k].name \in Matches[w.word]
    BY <1>3, <2>2, <2>3 DEF IsMatch
  <2>5. RedactSample(Patterns[k].name, w.word) \in Samples
    BY <1>2, <2>4 DEF Samples, Kinds, Names, InputWord
  <2> QED  BY <1>1, <1>4, <1>6, <2>3, <2>4, <2>5
<1> QED  BY <1>5, <1>6

\* What redaction makes of a text: words that are clear, and samples.
LEMMA RedactWords ==
    \A text \in Seq(InputWord), fuzzy \in BOOLEAN :
        /\ DOMAIN RedactInner(text, fuzzy) = DOMAIN text
        /\ \A i \in DOMAIN text :
              \/ RedactInner(text, fuzzy)[i] = text[i] /\ Clear(text[i], fuzzy)
              \/ RedactInner(text, fuzzy)[i] \in Samples
<1> SUFFICES ASSUME NEW text \in Seq(InputWord), NEW fuzzy \in BOOLEAN
             PROVE  /\ DOMAIN RedactInner(text, fuzzy) = DOMAIN text
                    /\ \A i \in DOMAIN text :
                          \/ RedactInner(text, fuzzy)[i] = text[i] /\ Clear(text[i], fuzzy)
                          \/ RedactInner(text, fuzzy)[i] \in Samples
  OBVIOUS
<1>1. PICK a : a = ApplyPatterns(text)  OBVIOUS
<1>2. /\ DOMAIN a = DOMAIN text
      /\ \A i \in DOMAIN text : (a[i] = text[i] /\ Clear(text[i], FALSE)) \/ a[i] \in Samples
  BY <1>1, ApplyPatternsWords
<1>3. CASE fuzzy = FALSE  BY <1>1, <1>2, <1>3 DEF RedactInner
<1>4. CASE fuzzy = TRUE
  <2>1. PICK r : r = ReplaceTokens(a)  OBVIOUS
  <2>2. RedactInner(text, fuzzy) = r  BY <1>1, <1>4, <2>1 DEF RedactInner
  <2>3. DOMAIN r = DOMAIN text  BY <1>2, <2>1 DEF ReplaceTokens
  <2>4. ASSUME NEW i \in DOMAIN text
        PROVE  (r[i] = text[i] /\ Clear(text[i], fuzzy)) \/ r[i] \in Samples
    <3>1. r[i] = IF LooksLikeSecret(HighEntropy, a[i])
                 THEN RedactSample(HighEntropy.name, a[i].word) ELSE a[i]
      BY <1>2, <2>1 DEF ReplaceTokens
    <3>2. CASE a[i] \in Samples
      <4>1. a[i].mask # "none"  BY <3>2, SampleMask
      <4> QED  BY <3>1, <3>2, <4>1 DEF LooksLikeSecret
    <3>3. CASE a[i] = text[i] /\ Clear(text[i], FALSE)
      <4>1. CASE LooksLikeSecret(HighEntropy, a[i])
        <5>1. a[i].word \in DOMAIN Matches  BY <3>3 DEF Clear, InputWord
        <5>2. HighEntropy.name \in Kinds  BY DEF Kinds
        <5>3. RedactSample(HighEntropy.name, a[i].word) \in Samples  BY <5>1, <5>2 DEF Samples
        <5> QED  BY <3>1, <4>1, <5>3
      <4>2. CASE ~LooksLikeSecret(HighEntropy, a[i])
        <5>1. r[i] = text[i]  BY <3>1, <3>3, <4>2
        <5>2. Clear(text[i], fuzzy)
          BY <3>3, <4>2 DEF Clear, LooksLikeSecret
        <5> QED  BY <5>1, <5>2
      <4> QED  BY <4>1, <4>2
    <3> QED  BY <1>2, <3>2, <3>3
  <2> QED  BY <2>2, <2>3, <2>4
<1> QED  BY <1>3, <1>4

-----------------------------------------------------------------------------
(* Truncation.                                                              *)

ShownWord == InputWord \cup Samples

Lengths == Nat

WidthOp == [w \in ShownWord |-> [sum \in Lengths |-> sum + WidthOf(w)]]

\* One word more gives a length.
LEMMA WidthType == WidthOp \in [ShownWord -> [Lengths -> Lengths]]
<1>1. ASSUME NEW w \in ShownWord  PROVE WidthOf(w) \in Nat
  <2>1. w.mask = "none" => w.word \in DOMAIN Matches  BY SampleMask DEF ShownWord, InputWord
  <2>2. \A v \in DOMAIN Matches : Width[v] \in Nat  BY TextAssumption
  <2> QED  BY <2>1, <2>2 DEF WidthOf
<1> QED  BY <1>1 DEF WidthOp, Lengths

\* The width of a text is the sum over its words.
LEMMA WidthRun ==
    ASSUME NEW part \in Seq(ShownWord)
    PROVE  FoldLeft(LAMBDA sum, w : sum + WidthOf(w), 0, part) = RunOf(WidthOp, 0, part)
<1> DEFINE step(t, x) == t + WidthOf(x)
           op == WidthOp
           Body(it) == [D \in SUBSET (DOMAIN part) |->
                           IF D = {} THEN 0 ELSE step(it[D \ {Max(D)}], part[Max(D)])]
           it == CHOOSE it : it = Body(it)
<1>1. FoldLeft(LAMBDA sum, w : sum + WidthOf(w), 0, part) = it[DOMAIN part]  BY Zenon DEF FoldLeft, MapThenFoldSet
<1>2. op \in [ShownWord -> [Lengths -> Lengths]] /\ 0 \in Lengths  BY WidthType DEF Lengths
<1>3. \A x \in ShownWord, t \in Lengths : op[x][t] = step(t, x)  BY DEF WidthOp
<1> HIDE DEF step, op
<1>4. PICK h : FoldOf(h, Lengths, ShownWord, op, 0, part)
  <2>1. \A b \in Lengths, u \in Seq(ShownWord) : \E i : FoldOf(i, Lengths, ShownWord, op, b, u)
    BY <1>2, FoldFun
  <2> QED  BY <1>2, <2>1, Zenon
<1>5. h = Body(h)
  <2>1. ASSUME NEW D \in SUBSET (DOMAIN part), D # {}
        PROVE  h[D] = step(h[D \ {Max(D)}], part[Max(D)])
    BY <1>3, <1>4, <2>1 DEF FoldOf
  <2>2. h[{}] = 0  BY <1>4 DEF FoldOf
  <2> QED  BY <1>4, <2>1, <2>2 DEF FoldOf
<1>6. it = Body(it)
  <2> HIDE DEF Body
  <2> QED  BY <1>5
<1> HIDE DEF it
<1>7. it[{}] = 0 /\ \A D \in SUBSET (DOMAIN part) : D # {} =>
          it[D] = step(it[D \ {Max(D)}], part[Max(D)])
  BY <1>6
<1>8. FoldsAs(it, Lengths, ShownWord, op, 0, part)  BY <1>3, <1>7 DEF FoldsAs
<1>9. \A b \in Lengths, u \in Seq(ShownWord) : \A i :
          FoldsAs(i, Lengths, ShownWord, op, b, u) => i[DOMAIN u] = RunOf(op, b, u)
  BY <1>2, FoldRun
<1> QED  BY <1>1, <1>2, <1>8, <1>9, Zenon DEF op

\* A text's widths, one word after the other.
LEMMA WidthSteps ==
    ASSUME NEW text \in Seq(ShownWord)
    PROVE  /\ \A n \in 0 .. Len(text) : WidthTo(text, n) \in Nat
           /\ WidthTo(text, 0) = 0
           /\ \A n \in 1 .. Len(text) : WidthTo(text, n) = WidthTo(text, n - 1) + WidthOf(text[n])
<1>1. \A n \in 0 .. Len(text) : SubSeq(text, 1, n) \in Seq(ShownWord)  OBVIOUS
<1>2. \A n \in 0 .. Len(text) : WidthTo(text, n) = RunOf(WidthOp, 0, SubSeq(text, 1, n))
  BY <1>1, WidthRun DEF WidthTo
<1>3. \A s \in Seq(ShownWord) : RunOf(WidthOp, 0, s) \in Nat
  <2>1. \A base \in Lengths, s \in Seq(ShownWord) : RunOf(WidthOp, base, s) \in Lengths
    BY WidthType, RunType
  <2> QED  BY <2>1 DEF Lengths
<1>4. \A n \in 0 .. Len(text) : WidthTo(text, n) \in Nat  BY <1>1, <1>2, <1>3
<1>5. WidthTo(text, 0) = 0
  <2>1. SubSeq(text, 1, 0) = <<>>  OBVIOUS
  <2>2. \A base \in Lengths : RunOf(WidthOp, base, <<>>) = base  BY WidthType, RunEmpty
  <2>3. 0 \in 0 .. Len(text)  OBVIOUS
  <2> QED  BY <1>2, <2>1, <2>2, <2>3 DEF Lengths
<1>6. ASSUME NEW n \in 1 .. Len(text)
      PROVE  WidthTo(text, n) = WidthTo(text, n - 1) + WidthOf(text[n])
  <2>1. PICK s, w : s = SubSeq(text, 1, n - 1) /\ w = text[n]  OBVIOUS
  <2>2. s \in Seq(ShownWord) /\ w \in ShownWord /\ SubSeq(text, 1, n) = Append(s, w)
    BY <2>1
  <2>3. \A base \in Lengths, u \in Seq(ShownWord), x \in ShownWord :
            RunOf(WidthOp, base, Append(u, x)) = WidthOp[x][RunOf(WidthOp, base, u)]
    BY WidthType, RunAppend
  <2>4. RunOf(WidthOp, 0, Append(s, w)) = WidthOp[w][RunOf(WidthOp, 0, s)]
    BY <2>2, <2>3 DEF Lengths
  <2>5. WidthOp[w][RunOf(WidthOp, 0, s)] = RunOf(WidthOp, 0, s) + WidthOf(w)
    BY <1>3, <2>2 DEF WidthOp, Lengths
  <2>6. /\ WidthTo(text, n) = RunOf(WidthOp, 0, Append(s, w))
        /\ WidthTo(text, n - 1) = RunOf(WidthOp, 0, s)
    <3>1. n \in 0 .. Len(text) /\ n - 1 \in 0 .. Len(text)  OBVIOUS
    <3> QED  BY <1>2, <2>1, <2>2, <3>1
  <2> QED  BY <2>1, <2>4, <2>5, <2>6
<1> QED  BY <1>4, <1>5, <1>6

\* Truncation keeps the words in front; what it cuts is no sample, since a sample fits
\* where anything does.
LEMMA TruncateWords ==
    ASSUME NEW text \in Seq(ShownWord), NEW max \in Nat
    PROVE  /\ Truncate(text, max) \in Seq(ShownWord)
           /\ Len(Truncate(text, max)) <= Len(text)
           /\ \A i \in 1 .. Len(Truncate(text, max)) :
                 \/ Truncate(text, max)[i] = text[i]
                 \/ text[i].mask = "none" /\ Truncate(text, max)[i] = Cut(text[i])
<1>1. PICK n \in Nat : n = Len(text)  OBVIOUS
<1> DEFINE S == {k \in 0 .. Len(text) : WidthTo(text, k) <= max}
<1>2. PICK whole : whole = Max(S)  OBVIOUS
<1>3. S \in SUBSET (0 .. n) /\ S # {}
  <2>1. 0 \in S  BY WidthSteps
  <2> QED  BY <1>1, <2>1
<1>4. whole \in S /\ \A k \in S : whole >= k
  <2> HIDE DEF S
  <2>1. Max(S) \in S /\ \A k \in S : k <= Max(S)  BY <1>3, MaxOfNat
  <2> QED  BY <1>2, <1>3, <2>1
<1>5. whole \in 0 .. n /\ WidthTo(text, whole) <= max  BY <1>1, <1>4
<1>6. whole < n /\ WidthTo(text, whole) < max => text[whole + 1].mask = "none"
  <2> SUFFICES ASSUME whole < n, WidthTo(text, whole) < max, text[whole + 1].mask # "none"
               PROVE  FALSE
    OBVIOUS
  <2>1. whole + 1 \in 1 .. Len(text) /\ (whole + 1) - 1 = whole  BY <1>1, <1>5
  <2>2. WidthOf(text[whole + 1]) = 1  BY DEF WidthOf
  <2>3. WidthTo(text, whole + 1) = WidthTo(text, whole) + 1  BY <2>1, <2>2, WidthSteps
  <2>4. WidthTo(text, whole) \in Nat  BY <1>1, <1>5, WidthSteps
  <2>5. WidthTo(text, whole + 1) <= max  BY <2>3, <2>4
  <2>6. whole + 1 \in S  BY <2>1, <2>5
  <2> HIDE DEF S
  <2> QED  BY <1>4, <1>5, <2>6
<1>7. PICK s : s = SubSeq(text, 1, whole)  OBVIOUS
<1>8. s \in Seq(ShownWord) /\ Len(s) = whole /\ \A i \in 1 .. whole : s[i] = text[i]
  BY <1>1, <1>5, <1>7
<1>9. PICK t : t = Truncate(text, max)  OBVIOUS
<1>10. t = IF whole < n /\ WidthTo(text, whole) < max
           THEN Append(s, Cut(text[whole + 1])) ELSE s
  BY <1>1, <1>2, <1>7, <1>9 DEF Truncate
<1> HIDE DEF S
<1>11. CASE t = s  BY <1>1, <1>5, <1>8, <1>9, <1>11
<1>12. CASE t # s
  <2>1. whole < n /\ text[whole + 1].mask = "none" /\ t = Append(s, Cut(text[whole + 1]))
    BY <1>6, <1>10, <1>12
  <2>2. PICK c : c = Cut(text[whole + 1])  OBVIOUS
  <2>3. c \in ShownWord
    <3>1. text[whole + 1] \in ShownWord  BY <1>1, <1>5, <2>1
    <3>2. text[whole + 1].word \in DOMAIN Matches
      BY <2>1, <3>1, SampleMask DEF ShownWord, InputWord
    <3> QED  BY <2>2, <3>2 DEF Cut, ShownWord, InputWord
  <2>4. /\ t \in Seq(ShownWord) /\ Len(t) = whole + 1 /\ t[whole + 1] = c
        /\ \A i \in 1 .. whole : t[i] = text[i]
    BY <1>5, <1>8, <2>1, <2>2, <2>3
  <2>5. \A i \in 1 .. whole + 1 : i \in 1 .. whole \/ i = whole + 1  BY <1>5
  <2> QED  BY <1>1, <1>5, <1>9, <2>1, <2>2, <2>4, <2>5
<1> QED  BY <1>11, <1>12

-----------------------------------------------------------------------------
(* Flattening, and what is in a sequence.                                   *)

\* What is in a sequence is at a place of it.
LEMMA InRange ==
    ASSUME NEW X
    PROVE  \A s \in Seq(X) : \A x : x \in Range(s) <=> \E i \in 1 .. Len(s) : s[i] = x
BY DEF Range

\* A sequence whose elements are in a set is one of that set.
LEMMA Within ==
    ASSUME NEW X, NEW Y
    PROVE  \A s \in Seq(X) : (\A i \in 1 .. Len(s) : s[i] \in Y) => s \in Seq(Y)
OBVIOUS

\* What is in a longer sequence.
LEMMA RangeAppend ==
    ASSUME NEW X
    PROVE  \A s \in Seq(X), x \in X : Range(Append(s, x)) = Range(s) \cup {x}
<1> SUFFICES ASSUME NEW s \in Seq(X), NEW x \in X
             PROVE  Range(Append(s, x)) = Range(s) \cup {x}
  OBVIOUS
<1>1. PICK n \in Nat : n = Len(s)  OBVIOUS
<1>2. PICK t : t = Append(s, x)  OBVIOUS
<1>3. t \in Seq(X) /\ Len(t) = n + 1 /\ t[n + 1] = x /\ \A i \in 1 .. n : t[i] = s[i]  BY <1>1, <1>2
<1>4. \A y : y \in Range(t) <=> \E i \in 1 .. n + 1 : t[i] = y  BY <1>3, InRange
<1>5. \A y : y \in Range(s) <=> \E i \in 1 .. n : s[i] = y  BY <1>1, InRange
<1>6. \A i \in 1 .. n + 1 : i \in 1 .. n \/ i = n + 1  OBVIOUS
<1>7. n + 1 \in 1 .. n + 1 /\ \A i \in 1 .. n : i \in 1 .. n + 1  OBVIOUS
<1>8. \A y : y \in Range(t) <=> y \in Range(s) \/ y = x
  <2>1. ASSUME NEW y, y \in Range(t)  PROVE y \in Range(s) \/ y = x
    BY <1>3, <1>4, <1>5, <1>6, <2>1
  <2>2. ASSUME NEW y, y \in Range(s) \/ y = x  PROVE y \in Range(t)
    BY <1>3, <1>4, <1>5, <1>7, <2>2
  <2> QED  BY <2>1, <2>2
<1> QED  BY <1>2, <1>8

\* What is in two sequences is in their concatenation.
LEMMA RangeConcat ==
    ASSUME NEW X
    PROVE  \A s, t \in Seq(X) : Range(s \o t) = Range(s) \cup Range(t)
<1> SUFFICES ASSUME NEW s \in Seq(X), NEW t \in Seq(X)
             PROVE  Range(s \o t) = Range(s) \cup Range(t)
  OBVIOUS
<1>1. PICK m, n \in Nat : m = Len(s) /\ n = Len(t)  OBVIOUS
<1>2. PICK u \in Seq(X) : u = s \o t
  <2>1. s \o t \in Seq(X)  OBVIOUS
  <2> QED  BY <2>1
<1>3. /\ Len(u) = m + n /\ \A i \in 1 .. m : u[i] = s[i]
      /\ \A i \in 1 .. n : u[m + i] = t[i]
  BY <1>1, <1>2
<1>4. \A y : y \in Range(u) <=> \E i \in 1 .. m + n : u[i] = y  BY SMTT(30), <1>3, InRange
<1>5. \A y : y \in Range(s) <=> \E i \in 1 .. m : s[i] = y  BY <1>1, InRange
<1>6. \A y : y \in Range(t) <=> \E i \in 1 .. n : t[i] = y  BY <1>1, InRange
<1>7. \A i \in 1 .. m + n : i \in 1 .. m \/ \E j \in 1 .. n : i = m + j
  <2>1. \A i \in 1 .. m + n : i \in 1 .. m \/ (i - m \in 1 .. n /\ i = m + (i - m))  OBVIOUS
  <2> QED  BY <2>1
<1>8. (\A i \in 1 .. m : i \in 1 .. m + n) /\ \A j \in 1 .. n : m + j \in 1 .. m + n  OBVIOUS
<1>9. ASSUME NEW y, y \in Range(u)  PROVE y \in Range(s) \cup Range(t)
  <2>1. PICK i \in 1 .. m + n : u[i] = y  BY <1>4, <1>9
  <2>2. CASE i \in 1 .. m  BY <1>3, <1>5, <2>1, <2>2
  <2>3. CASE \E j \in 1 .. n : i = m + j  BY <1>3, <1>6, <2>1, <2>3
  <2> QED  BY <1>7, <2>2, <2>3
<1>10. ASSUME NEW y, y \in Range(s) \cup Range(t)  PROVE y \in Range(u)
  <2>1. CASE y \in Range(s)
    <3>1. PICK i \in 1 .. m : s[i] = y  BY <1>5, <2>1
    <3>2. i \in 1 .. m + n /\ u[i] = y  BY <1>3, <1>8, <3>1
    <3> QED  BY <1>4, <3>2
  <2>2. CASE y \in Range(t)
    <3>1. PICK i \in 1 .. n : t[i] = y  BY <1>6, <2>2
    <3>2. m + i \in 1 .. m + n /\ u[m + i] = y  BY <1>3, <1>8, <3>1
    <3> QED  BY <1>4, <3>2
  <2> QED  BY <1>10, <2>1, <2>2
<1> QED  BY <1>2, <1>9, <1>10

ConcatOp(X) == [s \in Seq(X) |-> [out \in Seq(X) |-> out \o s]]

\* Concatenation as a function.
LEMMA ConcatType ==
    ASSUME NEW X
    PROVE  ConcatOp(X) \in [Seq(X) -> [Seq(X) -> Seq(X)]]
<1>1. \A s, t \in Seq(X) : s \o t \in Seq(X)  OBVIOUS
<1> QED  BY <1>1 DEF ConcatOp

\* FlattenSeq goes through its sequences one by one.
LEMMA FlattenRun ==
    ASSUME NEW X
    PROVE  \A ss \in Seq(Seq(X)) : FlattenSeq(ss) = RunOf(ConcatOp(X), <<>>, ss)
<1> SUFFICES ASSUME NEW ss \in Seq(Seq(X))
             PROVE  FlattenSeq(ss) = RunOf(ConcatOp(X), <<>>, ss)
  OBVIOUS
<1> DEFINE T == Seq(X)
           op == ConcatOp(X)
<1>0. op \in [T -> [T -> T]] /\ <<>> \in T /\ \A s, t \in T : op[s][t] = t \o s
  BY ConcatType DEF ConcatOp
<1>1. PICK n \in Nat : n = Len(ss)  OBVIOUS
<1>2. \A k \in 1 .. n : ss[k] \in T /\ <<>> \o ss[k] = ss[k]  BY <1>1
<1>3. ss \in Seq(T)  OBVIOUS
<1> HIDE DEF T, op
<1>4. CASE n = 0
  <2>1. ss = <<>> /\ FlattenSeq(ss) = <<>>
    <3>1. Len(ss) = 0  BY <1>1, <1>4
    <3>2. ss = <<>>  BY <1>3, <3>1
    <3> QED  BY <3>1, <3>2 DEF FlattenSeq
  <2>2. RunOf(op, <<>>, <<>>) = <<>>
    <3>1. \A base \in T : RunOf(op, base, <<>>) = base  BY <1>0, RunEmpty
    <3> QED  BY <1>0, <3>1
  <2> QED  BY <2>1, <2>2 DEF op
<1>5. CASE n # 0
  <2>1. PICK f : Runs(f, T, op, <<>>, ss)  BY <1>0, <1>3, RunSteps
  <2>2. /\ f \in [0 .. n -> T] /\ f[0] = <<>> /\ f[n] = RunOf(op, <<>>, ss)
        /\ \A k \in 1 .. n : f[k] = op[ss[k]][f[k - 1]]
    BY <1>1, <2>1 DEF Runs
  <2>3. ASSUME NEW k \in 1 .. n
        PROVE  f[k] = f[k - 1] \o ss[k] /\ (k = 1 => f[k] = ss[k])
    <3>1. f[k - 1] \in T /\ ss[k] \in T  BY <1>2, <2>2
    <3>2. f[k] = f[k - 1] \o ss[k]  BY <1>0, <2>2, <3>1
    <3>3. k = 1 => f[k - 1] = <<>>  BY <2>2
    <3>4. k = 1 => f[k] = <<>> \o ss[k]  BY <3>2, <3>3
    <3> QED  BY <1>2, <3>2, <3>4
  <2> DEFINE Body(g) == [i \in 1 .. n |-> IF i = 1 THEN ss[i] ELSE g[i - 1] \o ss[i]]
             g == CHOOSE g : g = Body(g)
             h == [i \in 1 .. n |-> f[i]]
  <2>4. FlattenSeq(ss) = g[n]  BY <1>1, <1>5, Zenon DEF FlattenSeq
  <2>5. h = Body(h)
    <3>1. ASSUME NEW i \in 1 .. n
          PROVE  h[i] = IF i = 1 THEN ss[i] ELSE h[i - 1] \o ss[i]
      <4>1. i # 1 => h[i - 1] = f[i - 1]  OBVIOUS
      <4> QED  BY <2>3, <4>1
    <3> HIDE DEF h
    <3>2. DOMAIN h = 1 .. n /\ h = [i \in 1 .. n |-> h[i]]  BY DEF h
    <3> QED  BY <3>1, <3>2
  <2>6. g = Body(g)
    <3> HIDE DEF Body
    <3> QED  BY <2>5
  <2> HIDE DEF g, h
  <2>7. \A i \in 1 .. n : g[i] = IF i = 1 THEN ss[i] ELSE g[i - 1] \o ss[i]  BY <2>6
  <2> DEFINE P == {k \in 0 .. n : k = 0 \/ g[k] = f[k]}
  <2>8. 0 \in P  OBVIOUS
  <2>9. ASSUME NEW k \in 1 .. n, k - 1 \in P  PROVE k \in P
    <3>1. k = 1 \/ g[k - 1] = f[k - 1]  BY <2>9
    <3>2. g[k] = f[k]  BY <2>3, <2>7, <3>1
    <3> QED  BY <3>2
  <2> HIDE DEF P
  <2>10. n \in P
    <3>1. \A k \in 0 .. n : k \in P  BY <2>8, <2>9, UpTo
    <3> QED  BY <3>1
  <2>11. g[n] = f[n]  BY <1>5, <2>10 DEF P
  <2> QED  BY <2>2, <2>4, <2>11 DEF op
<1> QED  BY <1>4, <1>5

\* Flattening stays within the elements.
LEMMA FlattenType ==
    ASSUME NEW X
    PROVE  \A ss \in Seq(Seq(X)) : FlattenSeq(ss) \in Seq(X)
<1>1. PICK T : T = Seq(X)  OBVIOUS
<1>2. ConcatOp(X) \in [T -> [T -> T]] /\ <<>> \in T  BY <1>1, ConcatType
<1>3. \A base \in T, s \in Seq(T) : RunOf(ConcatOp(X), base, s) \in T  BY <1>2, RunType
<1>4. \A ss \in Seq(T) : FlattenSeq(ss) = RunOf(ConcatOp(X), <<>>, ss)  BY <1>1, FlattenRun
<1> QED  BY ZenonT(30), <1>1, <1>2, <1>3, <1>4

\* Nothing flattens to nothing.
LEMMA FlattenEmpty == FlattenSeq(<<>>) = <<>>
<1>1. Len(<<>>) = 0  OBVIOUS
<1> QED  BY <1>1 DEF FlattenSeq

\* One sequence more is put at the end.
LEMMA FlattenAppend ==
    ASSUME NEW X
    PROVE  \A ss \in Seq(Seq(X)), s \in Seq(X) :
              FlattenSeq(Append(ss, s)) = FlattenSeq(ss) \o s
<1>1. PICK T : T = Seq(X)  OBVIOUS
<1>2. ConcatOp(X) \in [T -> [T -> T]] /\ <<>> \in T  BY <1>1, ConcatType
<1>3. \A base \in T, ss \in Seq(T), s \in T :
          RunOf(ConcatOp(X), base, Append(ss, s)) = ConcatOp(X)[s][RunOf(ConcatOp(X), base, ss)]
  BY <1>2, RunAppend
<1>4. \A ss \in Seq(T) : FlattenSeq(ss) = RunOf(ConcatOp(X), <<>>, ss) /\ FlattenSeq(ss) \in T
  BY <1>1, FlattenRun, FlattenType
<1>5. \A ss \in Seq(T), s \in T : Append(ss, s) \in Seq(T)  OBVIOUS
<1>6. \A s, t \in T : ConcatOp(X)[s][t] = t \o s  BY <1>1 DEF ConcatOp
<1>7. ASSUME NEW ss \in Seq(T), NEW s \in T
      PROVE  FlattenSeq(Append(ss, s)) = FlattenSeq(ss) \o s
  <2>1. PICK a \in T : a = FlattenSeq(ss) /\ a = RunOf(ConcatOp(X), <<>>, ss)  BY <1>4
  <2>2. PICK b \in Seq(T) : b = Append(ss, s)  BY <1>5
  <2>3. FlattenSeq(b) = RunOf(ConcatOp(X), <<>>, b)  BY <1>4, <2>2
  <2>4. RunOf(ConcatOp(X), <<>>, b) = ConcatOp(X)[s][a]
    <3>1. RunOf(ConcatOp(X), <<>>, Append(ss, s)) = ConcatOp(X)[s][RunOf(ConcatOp(X), <<>>, ss)]
      BY <1>2, <1>3, Zenon
    <3> QED  BY <2>1, <2>2, <3>1, Zenon
  <2>5. ConcatOp(X)[s][a] = a \o s  BY <1>6, <2>1, Zenon
  <2> QED  BY <2>1, <2>2, <2>3, <2>4, <2>5, Zenon
<1> QED  BY <1>1, <1>7

\* What is in one of the sequences is in all of them together.
LEMMA FlattenHas ==
    ASSUME NEW X
    PROVE  \A ss \in Seq(Seq(X)) : \A k \in 1 .. Len(ss) : Range(ss[k]) \subseteq Range(FlattenSeq(ss))
<1>1. PICK T : T = Seq(X)  OBVIOUS
<1> DEFINE Q == {ss \in Seq(T) : \A k \in 1 .. Len(ss) : Range(ss[k]) \subseteq Range(FlattenSeq(ss))}
<1>2. <<>> \in Q  OBVIOUS
<1>3. ASSUME NEW ss \in Seq(T), NEW s \in T, ss \in Q  PROVE Append(ss, s) \in Q
  <2>1. PICK n \in Nat : n = Len(ss)  OBVIOUS
  <2>2. PICK tt : tt = Append(ss, s)  OBVIOUS
  <2>3. tt \in Seq(T) /\ Len(tt) = n + 1 /\ tt[n + 1] = s /\ \A i \in 1 .. n : tt[i] = ss[i]  BY <2>1, <2>2
  <2>4. PICK a, b : a = FlattenSeq(ss) /\ b = FlattenSeq(tt)  OBVIOUS
  <2>5. a \in Seq(X) /\ b = a \o s  BY <1>1, <2>2, <2>3, <2>4, FlattenType, FlattenAppend
  <2>6. Range(b) = Range(a) \cup Range(s)  BY <1>1, <2>5, RangeConcat
  <2>7. \A k \in 1 .. n : Range(ss[k]) \subseteq Range(a)  BY <1>3, <2>1, <2>4
  <2>8. \A k \in 1 .. n + 1 : k \in 1 .. n \/ k = n + 1  OBVIOUS
  <2>9. \A k \in 1 .. n + 1 : Range(tt[k]) \subseteq Range(b)
    <3> SUFFICES ASSUME NEW k \in 1 .. n + 1  PROVE Range(tt[k]) \subseteq Range(b)
      OBVIOUS
    <3>1. CASE k \in 1 .. n
      <4>1. tt[k] = ss[k] /\ Range(ss[k]) \subseteq Range(a)  BY <2>3, <2>7, <3>1
      <4> QED  BY <2>6, <4>1
    <3>2. CASE k = n + 1  BY <2>3, <2>6, <3>2
    <3> QED  BY <2>8, <3>1, <3>2
  <2> QED  BY <2>2, <2>3, <2>4, <2>9
<1> HIDE DEF Q
<1>4. \A ss \in Seq(T) : ss \in Q  BY <1>2, <1>3, ByAppend
<1> QED  BY <1>1, <1>4 DEF Q

-----------------------------------------------------------------------------
(* Findings.                                                                *)

Severities == DOMAIN SeverityRank

SampleWords == {RedactSample(kind, word).word : kind \in Kinds, word \in DOMAIN Matches}

Finding == [kind : Kinds, severity : Severities, sample : SampleWords]

IsPattern(p) == p.name \in Kinds /\ p.severity \in Severities

FindingOf(p, w) ==
    [kind |-> p.name, severity |-> p.severity, sample |-> RedactSample(p.name, w.word).word]

FindOp(p) ==
    [w \in PlainWord |-> [fs \in Seq(Finding) |->
        IF Contains(fs, FindingOf(p, w)) \/ Len(fs) >= MaxPerType
        THEN fs ELSE Append(fs, FindingOf(p, w))]]

\* Findings are collected one by one.
LEMMA FindType ==
    ASSUME NEW p, IsPattern(p)
    PROVE  /\ FindOp(p) \in [PlainWord -> [Seq(Finding) -> Seq(Finding)]]
           /\ <<>> \in Seq(Finding)
           /\ \A w \in PlainWord : FindingOf(p, w) \in Finding
<1>1. \A w \in PlainWord : FindingOf(p, w) \in Finding
  BY DEF PlainWord, FindingOf, Finding, IsPattern, SampleWords
<1>2. \A fs \in Seq(Finding), f \in Finding : Append(fs, f) \in Seq(Finding)  OBVIOUS
<1> QED  BY <1>1, <1>2 DEF FindOp

\* scan goes through the patterns one by one.
LEMMA FindingsRun ==
    ASSUME NEW p, IsPattern(p), NEW words \in Seq(PlainWord)
    PROVE  Findings(p, words) = RunOf(FindOp(p), <<>>, words)
<1> DEFINE step(t, x) == IF Contains(t, FindingOf(p, x)) \/ Len(t) >= MaxPerType
                         THEN t ELSE Append(t, FindingOf(p, x))
           op == FindOp(p)
           Body(it) == [D \in SUBSET (DOMAIN words) |->
                           IF D = {} THEN <<>> ELSE step(it[D \ {Max(D)}], words[Max(D)])]
           it == CHOOSE it : it = Body(it)
<1>1. Findings(p, words) = it[DOMAIN words]  BY Zenon DEF Findings, FindingOf, FoldLeft, MapThenFoldSet
<1>2. op \in [PlainWord -> [Seq(Finding) -> Seq(Finding)]] /\ <<>> \in Seq(Finding)  BY FindType
<1>3. \A x \in PlainWord, t \in Seq(Finding) : op[x][t] = step(t, x)  BY DEF FindOp
<1> HIDE DEF step, op
<1>4. PICK h : FoldOf(h, Seq(Finding), PlainWord, op, <<>>, words)
  <2>1. \A b \in Seq(Finding), u \in Seq(PlainWord) : \E i : FoldOf(i, Seq(Finding), PlainWord, op, b, u)
    BY <1>2, FoldFun
  <2> QED  BY <1>2, <2>1, Zenon
<1>5. h = Body(h)
  <2>1. ASSUME NEW D \in SUBSET (DOMAIN words), D # {}
        PROVE  h[D] = step(h[D \ {Max(D)}], words[Max(D)])
    BY <1>3, <1>4, <2>1 DEF FoldOf
  <2>2. h[{}] = <<>>  BY <1>4 DEF FoldOf
  <2> QED  BY <1>4, <2>1, <2>2 DEF FoldOf
<1>6. it = Body(it)
  <2> HIDE DEF Body
  <2> QED  BY <1>5
<1> HIDE DEF it
<1>7. it[{}] = <<>> /\ \A D \in SUBSET (DOMAIN words) : D # {} =>
          it[D] = step(it[D \ {Max(D)}], words[Max(D)])
  BY <1>6
<1>8. FoldsAs(it, Seq(Finding), PlainWord, op, <<>>, words)  BY <1>3, <1>7 DEF FoldsAs
<1>9. \A b \in Seq(Finding), u \in Seq(PlainWord) : \A i :
          FoldsAs(i, Seq(Finding), PlainWord, op, b, u) => i[DOMAIN u] = RunOf(op, b, u)
  BY <1>2, FoldRun
<1> QED  BY <1>1, <1>2, <1>8, <1>9, Zenon DEF op

\* A pattern finds something in words that it matches, however few findings are kept.
LEMMA FindingsMade ==
    ASSUME NEW p, IsPattern(p)
    PROVE  \A words \in Seq(PlainWord) :
              /\ Findings(p, words) \in Seq(Finding)
              /\ \A f \in Range(Findings(p, words)) : f.kind = p.name /\ f.severity = p.severity
              /\ words # <<>> => \E f \in Range(Findings(p, words)) : f.kind = p.name
<1>1. PICK T : T = Seq(Finding)  OBVIOUS
<1>2. FindOp(p) \in [PlainWord -> [T -> T]] /\ <<>> \in T  BY <1>1, FindType
<1>3. \A base \in T, s \in Seq(PlainWord), w \in PlainWord :
          RunOf(FindOp(p), base, Append(s, w)) = FindOp(p)[w][RunOf(FindOp(p), base, s)]
  BY <1>2, RunAppend
<1>4. \A s \in Seq(PlainWord) : Findings(p, s) = RunOf(FindOp(p), <<>>, s) /\ Findings(p, s) \in T
  <2>1. \A base \in T, s \in Seq(PlainWord) : RunOf(FindOp(p), base, s) \in T  BY <1>2, RunType
  <2> QED  BY <1>2, <2>1, FindingsRun
<1>5. ASSUME NEW s \in Seq(PlainWord), NEW w \in PlainWord
      PROVE  \/ /\ Findings(p, Append(s, w)) = Findings(p, s)
                /\ Contains(Findings(p, s), FindingOf(p, w)) \/ Len(Findings(p, s)) >= MaxPerType
             \/ Findings(p, Append(s, w)) = Append(Findings(p, s), FindingOf(p, w))
  <2>1. PICK t \in Seq(PlainWord) : t = Append(s, w)
    <3>1. Append(s, w) \in Seq(PlainWord)  OBVIOUS
    <3> QED  BY <3>1
  <2>2. RunOf(FindOp(p), <<>>, Append(s, w)) = FindOp(p)[w][RunOf(FindOp(p), <<>>, s)]
    BY <1>2, <1>3, Zenon
  <2>3. Findings(p, t) = FindOp(p)[w][Findings(p, s)]  BY <1>4, <2>1, <2>2, Zenon
  <2>4. PICK fs \in T : fs = Findings(p, s)  BY <1>4
  <2>5. FindOp(p)[w][fs] =
            IF Contains(fs, FindingOf(p, w)) \/ Len(fs) >= MaxPerType
            THEN fs ELSE Append(fs, FindingOf(p, w))
    BY <1>1 DEF FindOp
  <2> QED  BY <2>1, <2>3, <2>4, <2>5
<1> DEFINE Q == {s \in Seq(PlainWord) :
                   \A f \in Range(Findings(p, s)) : f.kind = p.name /\ f.severity = p.severity}
<1>6. <<>> \in Q
  <2>1. <<>> \in Seq(PlainWord)  OBVIOUS
  <2>2. Findings(p, <<>>) = <<>>
    <3>1. \A base \in T : RunOf(FindOp(p), base, <<>>) = base  BY <1>2, RunEmpty
    <3> QED  BY <1>2, <1>4, <2>1, <3>1
  <2>3. Range(<<>>) = {}  BY DEF Range
  <2> QED  BY <2>1, <2>2, <2>3
<1>7. ASSUME NEW s \in Seq(PlainWord), NEW w \in PlainWord, s \in Q  PROVE Append(s, w) \in Q
  <2>1. Append(s, w) \in Seq(PlainWord)  OBVIOUS
  <2>2. \A f \in Range(Findings(p, s)) : f.kind = p.name /\ f.severity = p.severity  BY <1>7
  <2>3. PICK fs \in Seq(Finding) : fs = Findings(p, s)  BY <1>1, <1>4
  <2>4. PICK f \in Finding : f = FindingOf(p, w)  BY FindType
  <2>5. Range(Append(fs, f)) = Range(fs) \cup {f}  BY RangeAppend
  <2>6. f.kind = p.name /\ f.severity = p.severity  BY <2>4 DEF FindingOf
  <2>7. Findings(p, Append(s, w)) = fs \/ Findings(p, Append(s, w)) = Append(fs, f)
    BY <1>5, <2>3, <2>4
  <2> QED  BY <2>1, <2>2, <2>3, <2>5, <2>6, <2>7
<1> HIDE DEF Q
<1>8. \A s \in Seq(PlainWord) : s \in Q  BY <1>6, <1>7, ByAppend
<1>9. ASSUME NEW words \in Seq(PlainWord), words # <<>>
      PROVE  \E f \in Range(Findings(p, words)) : f.kind = p.name
  <2>1. PICK s \in Seq(PlainWord), w \in PlainWord : words = Append(s, w)  BY <1>9, FrontLast
  <2>2. PICK fs \in Seq(Finding) : fs = Findings(p, s)  BY <1>1, <1>4
  <2>3. PICK gs \in Seq(Finding) : gs = Findings(p, words)  BY <1>1, <1>4
  <2>4. gs # <<>>
    <3>1. CASE gs = Append(fs, FindingOf(p, w))
      <4>1. FindingOf(p, w) \in Finding  BY FindType
      <4>2. Len(gs) = Len(fs) + 1  BY <3>1, <4>1
      <4>3. Len(gs) # 0  BY <4>2
      <4> QED  BY <4>3
    <3>2. CASE gs = fs /\ Contains(fs, FindingOf(p, w))
      <4>1. PICK i \in 1 .. Len(fs) : TRUE  BY <3>2 DEF Contains
      <4>2. Len(fs) # 0  BY <4>1
      <4> QED  BY <3>2, <4>2
    <3>3. CASE gs = fs /\ Len(fs) >= MaxPerType
      <4>1. Len(fs) # 0  BY <3>3, TextAssumption
      <4> QED  BY <3>3, <4>1
    <3> QED  BY <1>5, <2>1, <2>2, <2>3, <3>1, <3>2, <3>3
  <2>5. Len(gs) \in Nat /\ Len(gs) # 0  BY <2>4
  <2>6. gs[1] \in Range(gs)
    <3>1. 1 \in 1 .. Len(gs)  BY <2>5
    <3> QED  BY <3>1, InRange
  <2>7. words \in Q  BY <1>8
  <2>8. gs[1].kind = p.name  BY <2>3, <2>6, <2>7 DEF Q
  <2> QED  BY <2>3, <2>6, <2>8
<1> QED  BY <1>1, <1>4, <1>8, <1>9 DEF Q

\* Patterns and HIGH_ENTROPY have a name and a severity.
LEMMA PatternIs == IsPattern(HighEntropy) /\ \A k \in DOMAIN Patterns : IsPattern(Patterns[k])
BY PatternNames DEF IsPattern, Kinds, Names, Severities

\* A plain text is an input.
LEMMA PlainAsInput == Seq(PlainWord) \subseteq Seq(InputWord)
<1>1. PlainWord \subseteq InputWord  BY DEF PlainWord, InputWord
<1> QED  BY <1>1

\* What is kept of a text, if only plain words are.
LEMMA OnlyPlain ==
    ASSUME NEW X, NEW S, \A w \in S : w \in X => w \in PlainWord
    PROVE  \A text \in Seq(X) :
              /\ Only(text, S) \in Seq(PlainWord)
              /\ \A w \in Range(text) : w \in S => Only(text, S) # <<>>
<1> SUFFICES ASSUME NEW text \in Seq(X)
             PROVE  /\ Only(text, S) \in Seq(PlainWord)
                    /\ \A w \in Range(text) : w \in S => Only(text, S) # <<>>
  OBVIOUS
<1>1. PICK o \in Seq(X) : o = Only(text, S)  BY OnlyType
<1>2. \A x : (\E i \in 1 .. Len(o) : o[i] = x) <=> x \in S /\ \E i \in 1 .. Len(text) : text[i] = x
  <2>1. \A x : (\E i \in 1 .. Len(Only(text, S)) : Only(text, S)[i] = x)
                  <=> x \in S /\ \E i \in 1 .. Len(text) : text[i] = x
    BY OnlyMembers
  <2> QED  BY <1>1, <2>1, Zenon
<1>3. \A i \in 1 .. Len(o) : o[i] \in PlainWord
  <2>1. \A i \in 1 .. Len(o) : o[i] \in X  OBVIOUS
  <2> QED  BY <1>2, <2>1
<1>4. o \in Seq(PlainWord)  BY <1>3, Within
<1>5. ASSUME NEW w \in Range(text), w \in S  PROVE o # <<>>
  <2>1. \E i \in 1 .. Len(text) : text[i] = w  BY InRange
  <2>2. PICK i \in 1 .. Len(o) : TRUE  BY <1>2, <1>5, <2>1
  <2>3. Len(o) # 0  BY <2>2
  <2> QED  BY <2>3
<1> QED  BY <1>1, <1>4, <1>5

\* Every word that a pattern matches is among the findings of the text, and every word
\* that the catch-all replaces if it is in use.
LEMMA ScanFinds ==
    \A text \in Seq(InputWord), fuzzy \in BOOLEAN :
        /\ ScanInner(text, fuzzy) \in Seq(Finding)
        /\ \A w \in Range(text) : w.mask = "none" => \A kind \in Matches[w.word] :
              \E f \in Range(ScanInner(text, fuzzy)) : f.kind = kind
        /\ fuzzy => \A w \in Range(text) :
              w.mask = "none" /\ w.word \in Random /\ Matches[w.word] = {} =>
                  \E f \in Range(ScanInner(text, fuzzy)) : f.kind = HighEntropy.name
<1> SUFFICES ASSUME NEW text \in Seq(InputWord), NEW fuzzy \in BOOLEAN
             PROVE  /\ ScanInner(text, fuzzy) \in Seq(Finding)
                    /\ \A w \in Range(text) : w.mask = "none" => \A kind \in Matches[w.word] :
                          \E f \in Range(ScanInner(text, fuzzy)) : f.kind = kind
                    /\ fuzzy => \A w \in Range(text) :
                          w.mask = "none" /\ w.word \in Random /\ Matches[w.word] = {} =>
                              \E f \in Range(ScanInner(text, fuzzy)) : f.kind = HighEntropy.name
  OBVIOUS
<1> DEFINE matched(k) == Only(text, {w \in Range(text) : IsMatch(Patterns[k], w)})
           in(k) == Findings(Patterns[k], matched(k))
           rest == ApplyPatterns(text)
           left == Only(rest, {w \in Range(rest) : LooksLikeSecret(HighEntropy, w)})
<1>1. PICK all : all = [k \in DOMAIN Patterns |-> in(k)]  OBVIOUS
<1>2. PICK last : last = IF fuzzy THEN Findings(HighEntropy, left) ELSE <<>>  OBVIOUS
<1>3. ScanInner(text, fuzzy) = FlattenSeq(all) \o last  BY <1>1, <1>2 DEF ScanInner
<1>4. \A w \in InputWord : w.mask = "none" => w \in PlainWord  BY DEF InputWord, PlainWord
<1>5. ASSUME NEW k \in DOMAIN Patterns
      PROVE  /\ in(k) \in Seq(Finding)
             /\ \A w \in Range(text) : IsMatch(Patterns[k], w) =>
                   \E f \in Range(in(k)) : f.kind = Patterns[k].name
  <2>1. PICK S : S = {w \in Range(text) : IsMatch(Patterns[k], w)}  OBVIOUS
  <2>2. \A w \in S : w \in InputWord => w \in PlainWord  BY <1>4, <2>1 DEF IsMatch
  <2>3. /\ Only(text, S) \in Seq(PlainWord)
        /\ \A w \in Range(text) : w \in S => Only(text, S) # <<>>
    BY <2>2, OnlyPlain
  <2>4. /\ Findings(Patterns[k], Only(text, S)) \in Seq(Finding)
        /\ Only(text, S) # <<>> =>
              \E f \in Range(Findings(Patterns[k], Only(text, S))) : f.kind = Patterns[k].name
    BY <2>3, FindingsMade, PatternIs
  <2> QED  BY <2>1, <2>3, <2>4
<1>6. last \in Seq(Finding) /\ (fuzzy => \A w \in Range(rest) :
          LooksLikeSecret(HighEntropy, w) => \E f \in Range(last) : f.kind = HighEntropy.name)
  <2>1. PICK S : S = {w \in Range(rest) : LooksLikeSecret(HighEntropy, w)}  OBVIOUS
  <2>2. rest \in Seq(ShownWord)
    <3>1. PICK r : r = rest  OBVIOUS
    <3>2. PICK n \in Nat : n = Len(text) /\ DOMAIN text = 1 .. n
      OBVIOUS
    <3>3. DOMAIN r = 1 .. n /\ \A i \in 1 .. n : r[i] = text[i] \/ r[i] \in Samples
      BY <3>1, <3>2, ApplyPatternsWords
    <3>4. \A i \in 1 .. n : r[i] \in ShownWord  BY <3>2, <3>3 DEF ShownWord
    <3>5. r = [i \in 1 .. n |-> r[i]]  BY <3>1, <3>3 DEF ApplyPatterns
    <3> QED  BY <3>1, <3>2, <3>4, <3>5
  <2>3. \A w \in S : w \in ShownWord => w \in PlainWord
    BY <1>4, <2>1, SampleMask DEF LooksLikeSecret, ShownWord
  <2> HIDE DEF rest
  <2>4. /\ Only(rest, S) \in Seq(PlainWord)
        /\ \A w \in Range(rest) : w \in S => Only(rest, S) # <<>>
    BY <2>2, <2>3, OnlyPlain
  <2>5. /\ Findings(HighEntropy, Only(rest, S)) \in Seq(Finding)
        /\ Only(rest, S) # <<>> =>
              \E f \in Range(Findings(HighEntropy, Only(rest, S))) : f.kind = HighEntropy.name
    BY <2>4, FindingsMade, PatternIs
  <2>6. <<>> \in Seq(Finding)  OBVIOUS
  <2> QED  BY <1>2, <2>1, <2>4, <2>5, <2>6
<1>7. all \in Seq(Seq(Finding)) /\ Len(all) = 12 /\ \A k \in 1 .. 12 : all[k] = in(k)
  <2> HIDE DEF in
  <2>1. all = [k \in 1 .. 12 |-> in(k)] /\ \A k \in 1 .. 12 : in(k) \in Seq(Finding)
    BY <1>1, <1>5, PatternNames
  <2> QED  BY <2>1
<1> HIDE DEF in, matched, left
<1>8. FlattenSeq(all) \in Seq(Finding) /\ \A k \in 1 .. 12 : Range(in(k)) \subseteq Range(FlattenSeq(all))
  BY <1>7, FlattenType, FlattenHas
<1>9. /\ ScanInner(text, fuzzy) \in Seq(Finding)
      /\ Range(ScanInner(text, fuzzy)) = Range(FlattenSeq(all)) \cup Range(last)
  <2>1. \A s, t \in Seq(Finding) : s \o t \in Seq(Finding)  OBVIOUS
  <2> QED  BY <1>3, <1>6, <1>8, <2>1, RangeConcat
<1>10. ASSUME NEW w \in Range(text), w.mask = "none", NEW kind \in Matches[w.word]
       PROVE  \E f \in Range(ScanInner(text, fuzzy)) : f.kind = kind
  <2>1. w \in InputWord  BY InRange
  <2>2. PICK k \in DOMAIN Patterns : kind = Patterns[k].name
    BY <1>10, <2>1, TextAssumption DEF InputWord
  <2>3. IsMatch(Patterns[k], w)  BY <1>10, <2>2 DEF IsMatch
  <2>4. \E f \in Range(in(k)) : f.kind = kind  BY <1>5, <2>2, <2>3
  <2> QED  BY <1>8, <1>9, <2>4, PatternNames
<1>11. ASSUME fuzzy, NEW w \in Range(text), w.mask = "none", w.word \in Random,
              Matches[w.word] = {}
       PROVE  \E f \in Range(ScanInner(text, fuzzy)) : f.kind = HighEntropy.name
  <2>1. PICK i \in DOMAIN text : text[i] = w  BY DEF Range
  <2>2. rest[i] = w  BY <1>11, <2>1, ApplyPatternsWords
  <2>3. w \in Range(rest)
    <3>1. i \in DOMAIN rest  BY <2>1, ApplyPatternsWords
    <3> HIDE DEF rest
    <3> QED  BY <2>2, <3>1 DEF Range
  <2>4. LooksLikeSecret(HighEntropy, w)  BY <1>11 DEF LooksLikeSecret
  <2>5. \E f \in Range(last) : f.kind = HighEntropy.name  BY <1>6, <1>11, <2>3, <2>4
  <2> QED  BY <1>9, <2>5
<1> QED  BY <1>9, <1>10, <1>11

\* The severity of a record is not below that of a finding.
LEMMA TopIs ==
    \A fs \in Seq(Finding) :
        /\ TopSeverity(fs) \in Severities
        /\ \A f \in Range(fs) : SeverityRank[TopSeverity(fs)] >= SeverityRank[f.severity]
<1> SUFFICES ASSUME NEW fs \in Seq(Finding)
             PROVE  /\ TopSeverity(fs) \in Severities
                    /\ \A f \in Range(fs) : SeverityRank[TopSeverity(fs)] >= SeverityRank[f.severity]
  OBVIOUS
<1>1. /\ \A s \in Severities : SeverityRank[s] \in 0 .. 4
      /\ \E s \in Severities : SeverityRank[s] = 0
  BY DEF Severities, SeverityRank
<1>2. PICK R : R = {SeverityRank[fs[i].severity] : i \in DOMAIN fs} \cup {0}  OBVIOUS
<1>3. \A i \in DOMAIN fs : fs[i].severity \in Severities
  <2>1. \A i \in DOMAIN fs : fs[i] \in Finding  OBVIOUS
  <2> QED  BY <2>1 DEF Finding
<1>4. R \in SUBSET (0 .. 4) /\ R # {}  BY <1>1, <1>2, <1>3
<1>5. Max(R) \in R /\ \A y \in R : y <= Max(R)  BY <1>4, MaxOfNat
<1>6. \E s \in Severities : SeverityRank[s] = Max(R)  BY <1>1, <1>2, <1>3, <1>5
<1>7. TopSeverity(fs) = CHOOSE s \in Severities : SeverityRank[s] = Max(R)
  BY <1>2 DEF TopSeverity, Severities
<1>8. TopSeverity(fs) \in Severities /\ SeverityRank[TopSeverity(fs)] = Max(R)  BY <1>6, <1>7
<1>9. ASSUME NEW f \in Range(fs)  PROVE SeverityRank[TopSeverity(fs)] >= SeverityRank[f.severity]
  <2>1. PICK i \in DOMAIN fs : f = fs[i]  BY DEF Range
  <2>2. SeverityRank[f.severity] \in R  BY <1>2, <2>1
  <2>3. SeverityRank[f.severity] <= Max(R)  BY <1>5, <2>2
  <2>4. SeverityRank[f.severity] \in 0 .. 4 /\ Max(R) \in 0 .. 4
    <3> HIDE DEF Severities
    <3> QED  BY <1>4, <1>5, <2>2, Zenon
  <2> QED  BY <1>8, <2>3, <2>4
<1> QED  BY <1>8, <1>9

-----------------------------------------------------------------------------
(* What build makes.                                                        *)

Hides(e) == \A w \in Range(e.summary) :
    IsSecret(e, w) => w.mask = "cut" /\ w \in Range(e.inputHash)

\* build: no secret is in the summary, but for what was cut before.
LEMMA BuildHides ==
    \A source, kind, tool, outcome : \A input \in Seq(InputWord), fuzzy \in BOOLEAN :
        (source = "pty" => fuzzy) => Hides(Build(source, kind, tool, input, fuzzy, outcome))
<1> SUFFICES ASSUME NEW source, NEW kind, NEW tool, NEW outcome, NEW input \in Seq(InputWord),
                    NEW fuzzy \in BOOLEAN, source = "pty" => fuzzy
             PROVE  Hides(Build(source, kind, tool, input, fuzzy, outcome))
  OBVIOUS
<1>1. PICK e : e = Build(source, kind, tool, input, fuzzy, outcome)  OBVIOUS
<1>2. e.source = source /\ e.inputHash = input /\ e.summary = Summary(input, fuzzy)
  BY <1>1 DEF Build
<1>3. PICK r : r = RedactInner(input, fuzzy)  OBVIOUS
<1>4. PICK n \in Nat : n = Len(input) /\ DOMAIN input = 1 .. n  OBVIOUS
<1>5. /\ DOMAIN r = 1 .. n
      /\ \A i \in 1 .. n : (r[i] = input[i] /\ Clear(input[i], fuzzy)) \/ r[i] \in Samples
  BY <1>3, <1>4, RedactWords
<1>6. r \in Seq(ShownWord) /\ Len(r) = n
  <2>1. \A i \in 1 .. n : r[i] \in ShownWord  BY <1>5 DEF ShownWord, Clear
  <2>2. r = [i \in 1 .. n |-> r[i]]
    <3>1. r = [i \in DOMAIN r |-> r[i]]  BY <1>3 DEF RedactInner, ReplaceTokens, ApplyPatterns
    <3> QED  BY <1>5, <3>1
  <2> QED  BY <1>4, <2>1, <2>2
<1>7. PICK t \in Seq(ShownWord) : t = Truncate(r, SummaryMax)
  BY <1>6, TruncateWords, TextAssumption
<1>8. /\ Len(t) <= n
      /\ \A i \in 1 .. Len(t) : t[i] = r[i] \/ (r[i].mask = "none" /\ t[i] = Cut(r[i]))
  BY <1>6, <1>7, TruncateWords, TextAssumption
<1>9. e.summary = t  BY <1>2, <1>3, <1>7 DEF Summary
<1>10. ASSUME NEW w \in Range(t), IsSecret(e, w)  PROVE w.mask = "cut" /\ w \in Range(input)
  <2>1. PICK i \in 1 .. Len(t) : w = t[i]  BY InRange
  <2>2. i \in 1 .. n  BY <1>4, <1>8, <2>1
  <2>3. /\ w.mask \in {"none", "cut"}
        /\ Matches[w.word] # {} \/ (fuzzy /\ w.word \in Random)
    BY <1>2, <1>10 DEF IsSecret
  <2>4. CASE r[i] \in Samples
    <3>1. r[i].mask \notin {"none", "cut"}  BY <2>4, SampleMask
    <3> QED  BY <1>8, <2>1, <2>3, <3>1
  <2>5. CASE r[i] = input[i] /\ Clear(input[i], fuzzy)
    <3>1. CASE input[i].mask = "none"
      <4>0. w = input[i] \/ w = [mask |-> "cut", word |-> input[i].word]
        BY <1>8, <2>1, <2>5 DEF Cut
      <4>1. w.word = input[i].word  BY <4>0
      <4>2. Matches[w.word] = {} /\ (fuzzy => w.word \notin Random)  BY <2>5, <3>1, <4>1 DEF Clear
      <4> QED  BY <2>3, <4>2
    <3>2. CASE input[i].mask # "none"
      <4>1. w = input[i]  BY <1>8, <2>1, <2>5, <3>2
      <4> QED  BY <1>4, <2>2, <2>3, <3>2, <4>1, InRange
    <3> QED  BY <3>1, <3>2
  <2> QED  BY <1>5, <2>2, <2>4, <2>5
<1> QED  BY <1>1, <1>2, <1>9, <1>10 DEF Hides

Reported(e, kind) == \E f \in Range(e.findings) :
    f.kind = kind /\ SeverityRank[e.severity] >= SeverityRank[f.severity]

Reports(e) ==
    /\ \A w \in Range(e.inputHash) \cup (IF e.outputHash = Absent THEN {} ELSE Range(e.outputHash)) :
          w.mask = "none" => \A kind \in Matches[w.word] : Reported(e, kind)
    /\ e.source = "pty" /\ (\E w \in Range(e.inputHash) :
            w.mask = "none" /\ w.word \in Random /\ Matches[w.word] = {})
       => Reported(e, HighEntropy.name)

\* build: a secret of the input or of the output is among the findings.
LEMMA BuildReports ==
    \A source, kind, tool, outcome : \A input \in Seq(InputWord), fuzzy \in BOOLEAN :
        /\ source = "pty" => fuzzy
        /\ outcome = NoOutcome \/ outcome.text \in Seq(InputWord)
        => Reports(Build(source, kind, tool, input, fuzzy, outcome))
<1> SUFFICES ASSUME NEW source, NEW kind, NEW tool, NEW outcome, NEW input \in Seq(InputWord),
                    NEW fuzzy \in BOOLEAN, source = "pty" => fuzzy,
                    outcome = NoOutcome \/ outcome.text \in Seq(InputWord)
             PROVE  Reports(Build(source, kind, tool, input, fuzzy, outcome))
  OBVIOUS
<1>1. PICK e : e = Build(source, kind, tool, input, fuzzy, outcome)  OBVIOUS
<1>2. PICK in : in = ScanInner(input, fuzzy)  OBVIOUS
<1>3. PICK out : out = IF outcome = NoOutcome THEN <<>> ELSE ScanInner(outcome.text, FALSE)
  OBVIOUS
<1>4. /\ e.source = source /\ e.inputHash = input /\ e.outputHash = outcome.text
      /\ e.findings = AllFindings(input, fuzzy, outcome)
      /\ e.severity = TopSeverity(AllFindings(input, fuzzy, outcome))
  BY <1>1 DEF Build
<1>5. e.findings = in \o out /\ e.severity = TopSeverity(e.findings)
  BY <1>2, <1>3, <1>4 DEF AllFindings
<1>6. in \in Seq(Finding) /\ out \in Seq(Finding)
  <2>1. <<>> \in Seq(Finding)  OBVIOUS
  <2> QED  BY <1>2, <1>3, <2>1, ScanFinds
<1>7. e.findings \in Seq(Finding) /\ Range(e.findings) = Range(in) \cup Range(out)
  <2>1. in \o out \in Seq(Finding)  BY <1>6
  <2> QED  BY <1>5, <1>6, <2>1, RangeConcat
<1>8. \A f \in Range(in) \cup Range(out) : Reported(e, f.kind)
  BY <1>5, <1>7, TopIs DEF Reported
<1>9. ASSUME NEW w \in Range(input), w.mask = "none", NEW k \in Matches[w.word]
      PROVE  Reported(e, k)
  <2>1. \E f \in Range(in) : f.kind = k  BY <1>2, <1>9, ScanFinds
  <2> QED  BY <1>8, <2>1
<1>10. ASSUME outcome.text # Absent, NEW w \in Range(outcome.text), w.mask = "none",
              NEW k \in Matches[w.word]
       PROVE  Reported(e, k)
  <2>1. outcome # NoOutcome  BY <1>10 DEF NoOutcome
  <2>2. PICK text \in Seq(InputWord) : text = outcome.text  BY <2>1
  <2>3. out = ScanInner(text, FALSE)  BY <1>3, <2>1, <2>2
  <2>4. \A v \in Range(text) : v.mask = "none" => \A kd \in Matches[v.word] :
           \E f \in Range(out) : f.kind = kd
    <3>1. \A fz \in BOOLEAN : \A v \in Range(text) : v.mask = "none" =>
             \A kd \in Matches[v.word] : \E f \in Range(ScanInner(text, fz)) : f.kind = kd
      BY ScanFinds
    <3>2. FALSE \in BOOLEAN  OBVIOUS
    <3>3. \A v \in Range(text) : v.mask = "none" =>
             \A kd \in Matches[v.word] : \E f \in Range(ScanInner(text, FALSE)) : f.kind = kd
      BY Zenon, <3>1, <3>2
    <3> QED  BY <2>3, <3>3
  <2>5. w \in Range(text)  BY <1>10, <2>2
  <2>6. \E f \in Range(out) : f.kind = k  BY <1>10, <2>4, <2>5
  <2> QED  BY <1>8, <2>6
<1>11. ASSUME source = "pty", NEW w \in Range(input), w.mask = "none", w.word \in Random,
              Matches[w.word] = {}
       PROVE  Reported(e, HighEntropy.name)
  <2>1. \E f \in Range(in) : f.kind = HighEntropy.name  BY <1>2, <1>11, ScanFinds
  <2> QED  BY <1>8, <2>1
<1> QED  BY <1>1, <1>4, <1>9, <1>10, <1>11 DEF Reports

-----------------------------------------------------------------------------
(* The adapters.                                                            *)

IsText(value) == value.t = "string" => value.v \in Seq(PlainWord)

\* A field of a value is a text, or missing, or something else than a text.
LEMMA GetText ==
    \A value, member : IsValue(value) => IsText(Get(value, member))
BY DEF IsValue, IsScalar, IsText, Get, Missing

\* So is what is taken of two.
LEMMA OrElseText ==
    \A a, b : IsText(a) /\ IsText(b) => IsText(OrElse(a, b))
BY DEF IsText, OrElse

\* The text of a scalar is one of plain words.
LEMMA ScalarText ==
    \A value : IsScalar(value) => Scalar(value) \in Seq(PlainWord)
<1> SUFFICES ASSUME NEW value, IsScalar(value)  PROVE Scalar(value) \in Seq(PlainWord)
  OBVIOUS
<1>1. \A w \in PlainWord : <<w>> \in Seq(PlainWord)  OBVIOUS
<1>2. Plain("num") \in PlainWord /\ Plain("null") \in PlainWord
  BY CaptureAssumption DEF Plain, PlainWord
<1>3. \/ Scalar(value) = value.v /\ value.t = "string"
      \/ Scalar(value) = <<Plain("num")>>
      \/ Scalar(value) = <<Plain("null")>>
  BY DEF Scalar
<1> QED  BY <1>1, <1>2, <1>3 DEF IsScalar

\* The text of any value is one of plain words.
LEMMA DumpText ==
    \A value : IsValue(value) => Dump(value) \in Seq(PlainWord)
<1> SUFFICES ASSUME NEW value, IsValue(value)  PROVE Dump(value) \in Seq(PlainWord)
  OBVIOUS
<1>1. CASE value.t # "object"  BY <1>1, ScalarText DEF Dump, IsValue
<1>2. CASE value.t = "object"
  <2>1. DOMAIN Members = 1 .. 14  BY DEF Members
  <2> DEFINE part(i) == IF Members[i] \in DOMAIN value.v THEN Scalar(value.v[Members[i]]) ELSE <<>>
  <2>2. PICK ss : ss = [i \in DOMAIN Members |-> part(i)]  OBVIOUS
  <2>3. \A i \in DOMAIN Members : part(i) \in Seq(PlainWord)
    <3>1. <<>> \in Seq(PlainWord)  OBVIOUS
    <3> QED  BY <1>2, <3>1, ScalarText DEF IsValue
  <2>4. Dump(value) = FlattenSeq(ss)  BY <1>2, <2>2 DEF Dump
  <2> HIDE DEF part
  <2>5. ss \in Seq(Seq(PlainWord))  BY <2>1, <2>2, <2>3
  <2> QED  BY <2>4, <2>5, FlattenType
<1> QED  BY <1>1, <1>2

\* Cutting a plain text leaves plain words and what is left of one.
LEMMA TruncatePlain ==
    \A text \in Seq(PlainWord), max \in Nat : Truncate(text, max) \in Seq(InputWord)
<1> SUFFICES ASSUME NEW text \in Seq(PlainWord), NEW max \in Nat
             PROVE  Truncate(text, max) \in Seq(InputWord)
  OBVIOUS
<1>1. PlainWord \subseteq ShownWord /\ PlainWord \subseteq InputWord
  BY DEF PlainWord, ShownWord, InputWord
<1>2. text \in Seq(ShownWord)
  <2>1. \A i \in 1 .. Len(text) : text[i] \in ShownWord  BY <1>1
  <2> QED  BY <2>1, Within
<1>3. PICK t \in Seq(ShownWord) : t = Truncate(text, max)  BY <1>2, TruncateWords
<1>4. /\ Len(t) <= Len(text)
      /\ \A i \in 1 .. Len(t) : t[i] = text[i] \/ t[i] = Cut(text[i])
  BY <1>2, <1>3, TruncateWords
<1>5. \A i \in 1 .. Len(text) : text[i] \in PlainWord  OBVIOUS
<1>6. \A w \in PlainWord : Cut(w) \in InputWord  BY DEF Cut, PlainWord, InputWord
<1>7. Len(t) \in Nat /\ Len(text) \in Nat  OBVIOUS
<1>8. \A i \in 1 .. Len(t) : i \in 1 .. Len(text)  BY <1>4, <1>7
<1>9. \A i \in 1 .. Len(t) : t[i] \in InputWord  BY <1>1, <1>4, <1>5, <1>6, <1>8, Zenon
<1> QED  BY <1>3, <1>9, Within

\* bounded_summary leaves an input.
LEMMA BoundedText ==
    \A picked, whole : IsText(picked) /\ IsValue(whole) =>
        BoundedSummary(picked, whole) \in Seq(InputWord)
<1> SUFFICES ASSUME NEW picked, NEW whole, IsText(picked), IsValue(whole)
             PROVE  BoundedSummary(picked, whole) \in Seq(InputWord)
  OBVIOUS
<1>1. PICK text : text = IF picked.t = "string" /\ picked.v # <<>> THEN picked.v ELSE Dump(whole)
  OBVIOUS
<1>2. text \in Seq(PlainWord)  BY <1>1, DumpText DEF IsText
<1>3. BoundedSummary(picked, whole) = Truncate(text, InputMax)  BY <1>1 DEF BoundedSummary
<1> QED  BY <1>2, <1>3, TruncatePlain, AdapterAssumption

\* What a hook records: an input that an adapter may have cut, and a text as output.
IsOutcome(outcome) == outcome = NoOutcome \/ outcome.text \in Seq(PlainWord)

\* The claude adapter makes an input, and its outcome has a text.
LEMMA ClaudeType ==
    ASSUME NEW tool, NEW args, NEW resp, IsValue(args), IsValue(resp)
    PROVE  ClaudeInput(tool, args) \in Seq(InputWord) /\ IsOutcome(ClaudeOutcome(resp))
<1>1. \A member : IsText(Get(args, member)) /\ IsText(Get(resp, member))  BY GetText
<1>2. IsText(Missing)  BY DEF IsText, Missing
<1>3. ClaudeInput(tool, args) \in Seq(InputWord)
  <2>1. \E picked : IsText(picked) /\ ClaudeInput(tool, args) = BoundedSummary(picked, args)
    <3>1. \A a, b : IsText(a) /\ IsText(b) => IsText(OrElse(a, b))  BY OrElseText
    <3> DEFINE picked ==
               CASE tool = "Bash" -> Get(args, "command")
                 [] tool \in {"Read", "Write", "Edit", "MultiEdit"} -> Get(args, "file_path")
                 [] tool \in {"NotebookEdit", "NotebookRead"} -> Get(args, "notebook_path")
                 [] tool \in {"WebFetch", "WebSearch"} -> OrElse(Get(args, "url"), Get(args, "query"))
                 [] tool \in {"Grep", "Glob"} -> Get(args, "pattern")
                 [] OTHER -> Missing
    <3>2. IsText(picked)  BY <1>1, <1>2, <3>1
    <3>3. ClaudeInput(tool, args) = BoundedSummary(picked, args)  BY DEF ClaudeInput
    <3> HIDE DEF picked
    <3> QED  BY <3>2, <3>3
  <2> QED  BY <2>1, BoundedText
<1>4. IsOutcome(ClaudeOutcome(resp))
  <2>1. \A member : TextOf(Get(resp, member)) \in Seq(PlainWord)
    <3>1. <<>> \in Seq(PlainWord)  OBVIOUS
    <3> QED  BY <1>1, <3>1 DEF TextOf, IsText
  <2>2. \A a, b \in Seq(PlainWord) : a \o b \in Seq(PlainWord)  OBVIOUS
  <2>3. Dump(resp) \in Seq(PlainWord)  BY DumpText
  <2>4. CASE resp.t = "null"  BY <2>4 DEF ClaudeOutcome, IsOutcome
  <2>5. CASE resp.t # "null"
    <3>1. ClaudeOutcome(resp).text \in
              {Dump(resp), TextOf(Get(resp, "stdout")) \o TextOf(Get(resp, "stderr"))}
      BY <2>5 DEF ClaudeOutcome
    <3>2. TextOf(Get(resp, "stdout")) \o TextOf(Get(resp, "stderr")) \in Seq(PlainWord)
      BY <2>1, <2>2
    <3> QED  BY <2>3, <3>1, <3>2 DEF IsOutcome
  <2> QED  BY <2>4, <2>5
<1> QED  BY <1>3, <1>4

\* So does the opencode adapter.
LEMMA OpencodeType ==
    ASSUME NEW tool, NEW args, NEW result, IsValue(args), IsValue(result)
    PROVE  OpencodeInput(tool, args) \in Seq(InputWord) /\ IsOutcome(OpencodeOutcome(result))
<1>1. \A member : IsText(Get(args, member)) /\ IsText(Get(result, member))  BY GetText
<1>2. IsText(Missing)  BY DEF IsText, Missing
<1>3. \A a, b : IsText(a) /\ IsText(b) => IsText(OrElse(a, b))  BY OrElseText
<1>4. OpencodeInput(tool, args) \in Seq(InputWord)
  <2>1. \E picked : IsText(picked) /\ OpencodeInput(tool, args) = BoundedSummary(picked, args)
    <3> DEFINE picked ==
               CASE tool = "bash" -> Get(args, "command")
                 [] tool \in {"read", "write", "edit", "multiedit", "patch"} ->
                       OrElse(Get(args, "filePath"), Get(args, "file_path"))
                 [] tool \in {"webfetch", "websearch"} -> OrElse(Get(args, "url"), Get(args, "query"))
                 [] tool \in {"grep", "glob"} -> Get(args, "pattern")
                 [] OTHER -> Missing
    <3>2. IsText(picked)  BY <1>1, <1>2, <1>3
    <3>3. OpencodeInput(tool, args) = BoundedSummary(picked, args)  BY DEF OpencodeInput
    <3> HIDE DEF picked
    <3> QED  BY <3>2, <3>3
  <2> QED  BY <2>1, BoundedText
<1>5. IsOutcome(OpencodeOutcome(result))
  <2>1. CASE result.t = "null"  BY <2>1 DEF OpencodeOutcome, IsOutcome
  <2>2. CASE result.t # "null"
    <3>1. PICK shown : shown = OrElse(Get(result, "output"), Get(result, "title"))  OBVIOUS
    <3>2. IsText(shown)  BY <1>1, <1>3, <3>1
    <3>3. OpencodeOutcome(result).text = IF shown.t = "string" THEN shown.v ELSE Dump(result)
      BY <2>2, <3>1 DEF OpencodeOutcome
    <3>4. Dump(result) \in Seq(PlainWord)  BY DumpText
    <3> QED  BY <3>2, <3>3, <3>4 DEF IsOutcome, IsText
  <2> QED  BY <2>1, <2>2
<1> QED  BY <1>4, <1>5

\* A hook's record is built from an input and the outcome that the adapter takes.
LEMMA HookIs ==
    ASSUME NEW call \in Calls
    PROVE  \E kind : \E input \in Seq(InputWord) : \E outcome :
              /\ IsOutcome(outcome)
              /\ outcome = IF ById(call.id) = "claude" THEN ClaudeOutcome(call.payload.result)
                           ELSE OpencodeOutcome(call.payload.result)
              /\ HookRecord(call.id, call.payload) =
                    Build("hook", kind, call.payload.tool, input, FALSE, outcome)
<1>1. PICK p : p = call.payload  OBVIOUS
<1>2. IsValue(p.args) /\ IsValue(p.result)  BY <1>1, CaptureAssumption
<1>3. CASE ById(call.id) = "claude"
  <2>1. HookRecord(call.id, p) =
            Build("hook", ClaudeKind(p.tool), p.tool, ClaudeInput(p.tool, p.args), FALSE,
                  ClaudeOutcome(p.result))
    BY <1>3 DEF HookRecord, AgentToolCall
  <2> QED  BY <1>1, <1>2, <1>3, <2>1, ClaudeType
<1>4. CASE ById(call.id) # "claude"
  <2>1. HookRecord(call.id, p) =
            Build("hook", OpencodeKind(p.tool), p.tool, OpencodeInput(p.tool, p.args), FALSE,
                  OpencodeOutcome(p.result))
    BY <1>4 DEF HookRecord, AgentToolCall
  <2> QED  BY <1>1, <1>2, <1>4, <2>1, OpencodeType
<1> QED  BY <1>3, <1>4

-----------------------------------------------------------------------------
(* The kernel's events.                                                     *)

\* One more byte.
LEMMA CharsStep ==
    ASSUME NEW X, {"eacute", "lost"} \subseteq X
    PROVE  /\ Chars(X, <<>>) = <<>>
           /\ \A s \in Seq(X), b \in X :
                 Chars(X, Append(s, b)) =
                     IF b # "A9" THEN Append(Chars(X, s), b)
                     ELSE IF Chars(X, s) # <<>> /\ Last(Chars(X, s)) = "C3"
                     THEN Append(Front(Chars(X, s)), "eacute")
                     ELSE Append(Chars(X, s), "lost")
<1>1. PICK T : T = Seq(X)  OBVIOUS
<1>2. DecodeOp(X) \in [X -> [T -> T]] /\ <<>> \in T  BY <1>1, DecodeType
<1>3. Chars(X, <<>>) = <<>>
  <2>1. \A base \in T : RunOf(DecodeOp(X), base, <<>>) = base  BY <1>2, RunEmpty
  <2> QED  BY <1>2, <2>1 DEF Chars
<1>4. ASSUME NEW s \in Seq(X), NEW b \in X
      PROVE  Chars(X, Append(s, b)) =
                 IF b # "A9" THEN Append(Chars(X, s), b)
                 ELSE IF Chars(X, s) # <<>> /\ Last(Chars(X, s)) = "C3"
                 THEN Append(Front(Chars(X, s)), "eacute")
                 ELSE Append(Chars(X, s), "lost")
  <2>1. \A base \in T, u \in Seq(X), x \in X :
            RunOf(DecodeOp(X), base, Append(u, x)) = DecodeOp(X)[x][RunOf(DecodeOp(X), base, u)]
    BY <1>2, RunAppend
  <2>2. Chars(X, Append(s, b)) = DecodeOp(X)[b][Chars(X, s)]  BY <1>2, <2>1, Zenon DEF Chars
  <2>3. PICK c \in Seq(X) : c = Chars(X, s)  BY CharsType
  <2>4. DecodeOp(X)[b][c] =
            IF b # "A9" THEN Append(c, b)
            ELSE IF c # <<>> /\ Last(c) = "C3" THEN Append(Front(c), "eacute")
            ELSE Append(c, "lost")
    BY Zenon DEF DecodeOp
  <2> QED  BY <2>2, <2>3, <2>4
<1> QED  BY <1>3, <1>4

\* Bytes that are not characters are never among the characters.
LEMMA Utf8LossyText ==
    \A bytes \in Seq(Bytes) : Utf8Lossy(bytes) \in Seq(DOMAIN Matches)
<1>1. PICK X : X = Bytes  OBVIOUS
<1>2. PICK W : W = DOMAIN Matches  OBVIOUS
<1>3. {"eacute", "lost"} \subseteq W /\ W \subseteq X /\ \A b \in X : b \in W \/ b = "C3" \/ b = "A9"
  BY <1>1, <1>2, CaptureAssumption DEF Bytes, Printable
<1>4. PICK V : V = W \cup {"C3"}  OBVIOUS
<1> DEFINE Q == {s \in Seq(X) : Chars(X, s) \in Seq(V)}
<1>5. <<>> \in Q
  <2>1. <<>> \in Seq(X) /\ <<>> \in Seq(V)  OBVIOUS
  <2> QED  BY <1>3, <2>1, CharsStep
<1>6. ASSUME NEW s \in Seq(X), NEW b \in X, s \in Q  PROVE Append(s, b) \in Q
  <2>1. PICK c \in Seq(V) : c = Chars(X, s)  BY <1>6
  <2>2. PICK d : d = Chars(X, Append(s, b))  OBVIOUS
  <2>3. d = IF b # "A9" THEN Append(c, b)
            ELSE IF c # <<>> /\ Last(c) = "C3" THEN Append(Front(c), "eacute")
            ELSE Append(c, "lost")
    BY <1>3, <2>1, <2>2, CharsStep
  <2>4. {"eacute", "lost"} \subseteq V /\ (b # "A9" => b \in V)  BY <1>3, <1>4
  <2>5. c # <<>> => Front(c) \in Seq(V)  BY FrontLast
  <2>6. \A t \in Seq(V), v \in V : Append(t, v) \in Seq(V)  OBVIOUS
  <2>7. d \in Seq(V)  BY <2>3, <2>4, <2>5, <2>6
  <2>8. Append(s, b) \in Seq(X)  OBVIOUS
  <2> QED  BY <2>2, <2>7, <2>8
<1> HIDE DEF Q
<1>7. \A s \in Seq(X) : s \in Q  BY <1>5, <1>6, ByAppend
<1>8. ASSUME NEW s \in Seq(X)  PROVE Utf8Lossy(s) \in Seq(W)
  <2>1. PICK c \in Seq(V) : c = Chars(X, s)  BY <1>7 DEF Q
  <2>2. Utf8Lossy(s) = [i \in DOMAIN c |-> IF c[i] = "C3" THEN "lost" ELSE c[i]]
    BY <1>3, <2>1, Utf8LossyRun
  <2>3. PICK n \in Nat : DOMAIN c = 1 .. n /\ \A i \in 1 .. n : c[i] \in V  OBVIOUS
  <2>4. \A i \in 1 .. n : (IF c[i] = "C3" THEN "lost" ELSE c[i]) \in W  BY <1>3, <1>4, <2>3
  <2> QED  BY <2>2, <2>3, <2>4
<1> QED  BY <1>1, <1>2, <1>8

Strings == [readable : BOOLEAN, bytes : Seq(Bytes)]

\* The probe copies a beginning of the bytes, all of them if they fit.
LEMMA CopyType ==
    \A string \in Strings :
        /\ Copy(string) \in Seq(Bytes)
        /\ string.readable => \E k \in 0 .. Len(string.bytes) :
              /\ Copy(string) = SubSeq(string.bytes, 1, k)
              /\ Len(string.bytes) < Slot => k = Len(string.bytes)
<1> SUFFICES ASSUME NEW string \in Strings
             PROVE  /\ Copy(string) \in Seq(Bytes)
                    /\ string.readable => \E k \in 0 .. Len(string.bytes) :
                          /\ Copy(string) = SubSeq(string.bytes, 1, k)
                          /\ Len(string.bytes) < Slot => k = Len(string.bytes)
  OBVIOUS
<1>1. PICK b \in Seq(Bytes) : b = string.bytes  BY DEF Strings
<1>2. PICK n \in Nat : n = Len(b)  OBVIOUS
<1>3. PICK k : k = Min({n, Slot - 1})  OBVIOUS
<1>4. k \in {n, Slot - 1} /\ k <= n /\ k <= Slot - 1
  <2>1. \E x \in {n, Slot - 1} : \A y \in {n, Slot - 1} : x <= y  BY SlotAssumption
  <2>2. Min({n, Slot - 1}) \in {n, Slot - 1} /\ \A y \in {n, Slot - 1} : Min({n, Slot - 1}) <= y
    BY <2>1 DEF Min
  <2> QED  BY <1>3, <2>2
<1>5. k \in 0 .. n /\ (n < Slot => k = n)  BY <1>4, SlotAssumption
<1>6. Copy(string) = IF string.readable THEN SubSeq(b, 1, k) ELSE <<>>  BY <1>1, <1>2, <1>3 DEF Copy
<1>7. SubSeq(b, 1, k) \in Seq(Bytes) /\ <<>> \in Seq(Bytes)  BY <1>2, <1>5
<1> QED  BY <1>1, <1>2, <1>5, <1>6, <1>7

\* What the reader takes from a slot is a text.
LEMMA CStrType == \A slot \in Seq(Bytes) : CStr(slot) \in Seq(DOMAIN Matches)
<1> SUFFICES ASSUME NEW slot \in Seq(Bytes)  PROVE CStr(slot) \in Seq(DOMAIN Matches)
  OBVIOUS
<1>1. Utf8Lossy(slot) \in Seq(DOMAIN Matches)  BY Utf8LossyText
<1>2. Trim(Utf8Lossy(slot)) \in Seq(DOMAIN Matches)  BY <1>1, TrimType
<1>3. <<>> \in Seq(DOMAIN Matches)  OBVIOUS
<1> QED  BY <1>2, <1>3 DEF CStr

ArgOp == [arg \in Seq(DOMAIN Matches) |-> [line0 \in Seq(DOMAIN Matches) |->
            IF arg = <<>> THEN line0 ELSE line0 \o <<"SP">> \o arg]]

\* Joining one argument more gives a text.
LEMMA ArgType == ArgOp \in [Seq(DOMAIN Matches) -> [Seq(DOMAIN Matches) -> Seq(DOMAIN Matches)]]
<1>1. <<"SP">> \in Seq(DOMAIN Matches)
  <2>1. "SP" \in DOMAIN Matches  BY CaptureAssumption DEF Printable, Blank
  <2> QED  BY <2>1
<1>2. \A a, b \in Seq(DOMAIN Matches) : a \o b \in Seq(DOMAIN Matches)  OBVIOUS
<1> QED  BY <1>1, <1>2 DEF ArgOp

\* The command line goes through its arguments one by one.
LEMMA CommandLineRun ==
    ASSUME NEW program \in Seq(DOMAIN Matches), NEW args \in Seq(Seq(DOMAIN Matches))
    PROVE  CommandLine(program, args) = RunOf(ArgOp, program, args)
<1> DEFINE step(t, x) == IF x = <<>> THEN t ELSE t \o <<"SP">> \o x
           op == ArgOp
           Body(it) == [D \in SUBSET (DOMAIN args) |->
                           IF D = {} THEN program ELSE step(it[D \ {Max(D)}], args[Max(D)])]
           it == CHOOSE it : it = Body(it)
<1>1. CommandLine(program, args) = it[DOMAIN args]  BY Zenon DEF CommandLine, FoldLeft, MapThenFoldSet
<1>2. op \in [Seq(DOMAIN Matches) -> [Seq(DOMAIN Matches) -> Seq(DOMAIN Matches)]] /\ program \in Seq(DOMAIN Matches)  BY ArgType
<1>3. \A x \in Seq(DOMAIN Matches), t \in Seq(DOMAIN Matches) : op[x][t] = step(t, x)  BY DEF ArgOp
<1> HIDE DEF step, op
<1>4. PICK h : FoldOf(h, Seq(DOMAIN Matches), Seq(DOMAIN Matches), op, program, args)
  <2>1. \A b \in Seq(DOMAIN Matches), u \in Seq(Seq(DOMAIN Matches)) : \E i : FoldOf(i, Seq(DOMAIN Matches), Seq(DOMAIN Matches), op, b, u)
    BY <1>2, FoldFun
  <2> QED  BY <1>2, <2>1, Zenon
<1>5. h = Body(h)
  <2>1. ASSUME NEW D \in SUBSET (DOMAIN args), D # {}
        PROVE  h[D] = step(h[D \ {Max(D)}], args[Max(D)])
    BY <1>3, <1>4, <2>1 DEF FoldOf
  <2>2. h[{}] = program  BY <1>4 DEF FoldOf
  <2> QED  BY <1>4, <2>1, <2>2 DEF FoldOf
<1>6. it = Body(it)
  <2> HIDE DEF Body
  <2> QED  BY <1>5
<1> HIDE DEF it
<1>7. it[{}] = program /\ \A D \in SUBSET (DOMAIN args) : D # {} =>
          it[D] = step(it[D \ {Max(D)}], args[Max(D)])
  BY <1>6
<1>8. FoldsAs(it, Seq(DOMAIN Matches), Seq(DOMAIN Matches), op, program, args)  BY <1>3, <1>7 DEF FoldsAs
<1>9. \A b \in Seq(DOMAIN Matches), u \in Seq(Seq(DOMAIN Matches)) : \A i :
          FoldsAs(i, Seq(DOMAIN Matches), Seq(DOMAIN Matches), op, b, u) => i[DOMAIN u] = RunOf(op, b, u)
  BY <1>2, FoldRun
<1> QED  BY <1>1, <1>2, <1>8, <1>9, Zenon DEF op

\* A command line is a text.
LEMMA CommandLineType ==
    \A program \in Seq(DOMAIN Matches), args \in Seq(Seq(DOMAIN Matches)) :
        CommandLine(program, args) \in Seq(DOMAIN Matches)
<1>1. PICK T : T = Seq(DOMAIN Matches)  OBVIOUS
<1>2. ArgOp \in [T -> [T -> T]]  BY <1>1, ArgType
<1>3. \A base \in T, s \in Seq(T) : RunOf(ArgOp, base, s) \in T  BY <1>2, RunType
<1>4. \A base \in T, s \in Seq(T) : CommandLine(base, s) = RunOf(ArgOp, base, s)
  BY <1>1, CommandLineRun
<1> QED  BY <1>1, <1>3, <1>4

\* An exec is recorded once, or not at all when its program is no text.
LEMMA ExecIs ==
    ASSUME NEW exec \in Execs
    PROVE  \/ CStr(Copy(exec.path)) = <<>> /\ ExecRecords(exec) = <<>>
           \/ /\ CStr(Copy(exec.path)) # <<>>
              /\ \E text \in Seq(PlainWord) :
                    ExecRecords(exec) = <<KernelExec(CStr(Copy(exec.path)), text)>>
<1>1. exec.path \in Strings /\ exec.args \in Seq(Strings)  BY CaptureAssumption DEF Strings
<1>2. PICK program \in Seq(DOMAIN Matches) : program = CStr(Copy(exec.path))
  BY <1>1, CopyType, CStrType
<1>3. PICK m : m = Min({2, Len(exec.args)})  OBVIOUS
<1>4. m \in 0 .. Len(exec.args)
  <2>1. PICK n \in Nat : n = Len(exec.args)  BY <1>1
  <2>2. \E x \in {2, n} : \A y \in {2, n} : x <= y  OBVIOUS
  <2>3. Min({2, n}) \in {2, n} /\ \A y \in {2, n} : Min({2, n}) <= y  BY <2>2 DEF Min
  <2> QED  BY <1>3, <2>1, <2>3
<1>5. PICK args : args = [i \in 1 .. m |-> CStr(Copy(exec.args[i]))]  OBVIOUS
<1>6. args \in Seq(Seq(DOMAIN Matches))
  <2>1. \A i \in 1 .. m : exec.args[i] \in Strings
    <3>1. \A i \in 1 .. Len(exec.args) : exec.args[i] \in Strings  BY <1>1
    <3>2. m \in Nat /\ \A i \in 1 .. m : i \in 1 .. Len(exec.args)  BY <1>1, <1>4
    <3> QED  BY <3>1, <3>2
  <2>2. \A i \in 1 .. m : CStr(Copy(exec.args[i])) \in Seq(DOMAIN Matches)
    BY <2>1, CopyType, CStrType
  <2>3. m \in Nat  BY <1>1, <1>4
  <2> QED  BY <1>5, <2>2, <2>3
<1>7. CommandLine(program, args) \in Seq(DOMAIN Matches)  BY <1>6, CommandLineType
<1>8. PICK text \in Seq(PlainWord) : text = Text(CommandLine(program, args))  BY <1>7, TextType
<1>9. ExecRecords(exec) = IF program = <<>> THEN <<>> ELSE <<KernelExec(program, text)>>
  BY <1>2, <1>3, <1>5, <1>8 DEF ExecRecords
<1> QED  BY <1>2, <1>8, <1>9

-----------------------------------------------------------------------------
(* The records of a session.                                                *)

Pumps(X) == [open : Seq(X), done : Seq(Seq(X))]

PumpOp(X) == [b \in X |-> [st \in Pumps(X) |-> PumpByte(st, b)]]

\* Backspace leaves bytes.
LEMMA PopType ==
    ASSUME NEW X, "rest" \in X
    PROVE  \A s \in Seq(X) : Pop(s) \in Seq(X)
<1> SUFFICES ASSUME NEW s \in Seq(X)  PROVE Pop(s) \in Seq(X)
  OBVIOUS
<1>1. \A b : Rest(b) \in Seq(X)
  <2>1. <<"rest">> \in Seq(X) /\ <<>> \in Seq(X)  OBVIOUS
  <2> QED  BY <2>1 DEF Rest
<1>2. s # <<>> => Front(s) \in Seq(X)  BY FrontLast
<1>3. \A t, u \in Seq(X) : t \o u \in Seq(X)  OBVIOUS
<1>4. <<>> \in Seq(X)  OBVIOUS
<1> QED  BY <1>1, <1>2, <1>3, <1>4 DEF Pop

\* One byte is the end of a line, a Backspace or a part of the line.
LEMMA PumpStep ==
    ASSUME NEW X, "rest" \in X
    PROVE  \A st \in Pumps(X), b \in X :
              /\ PumpByte(st, b) \in Pumps(X)
              /\ b \in {"CR", "NL"} =>
                    PumpByte(st, b) = [open |-> <<>>, done |-> Append(st.done, st.open)]
              /\ b = "BS" => PumpByte(st, b) = [open |-> Pop(st.open), done |-> st.done]
              /\ b \notin {"CR", "NL", "BS"} =>
                    PumpByte(st, b) = [open |-> Append(st.open, b), done |-> st.done]
<1> SUFFICES ASSUME NEW st \in Pumps(X), NEW b \in X
             PROVE  /\ PumpByte(st, b) \in Pumps(X)
                    /\ b \in {"CR", "NL"} =>
                          PumpByte(st, b) = [open |-> <<>>, done |-> Append(st.done, st.open)]
                    /\ b = "BS" => PumpByte(st, b) = [open |-> Pop(st.open), done |-> st.done]
                    /\ b \notin {"CR", "NL", "BS"} =>
                          PumpByte(st, b) = [open |-> Append(st.open, b), done |-> st.done]
  OBVIOUS
<1>1. PICK L, D : L = Seq(X) /\ D = Seq(L)  OBVIOUS
<1>2. st \in [open : L, done : D]  BY <1>1 DEF Pumps
<1>3. /\ <<>> \in L /\ Pop(st.open) \in L /\ Append(st.open, b) \in L
      /\ Append(st.done, st.open) \in D
  <2>1. st.open \in L /\ st.done \in D  BY <1>2
  <2>2. Pop(st.open) \in L  BY <1>1, <2>1, PopType
  <2>3. \A s \in L : Append(s, b) \in L  BY <1>1
  <2>4. \A s \in D, x \in L : Append(s, x) \in D  BY <1>1
  <2>5. <<>> \in L  BY <1>1
  <2> QED  BY <2>1, <2>2, <2>3, <2>4, <2>5
<1>4. PICK p : p = Pop(st.open)  OBVIOUS
<1>5. PICK a : a = Append(st.open, b)  OBVIOUS
<1>6. PICK e : e = Append(st.done, st.open)  OBVIOUS
<1>7. PumpByte(st, b) =
          CASE b \in {"CR", "NL"} -> [open |-> <<>>, done |-> e]
            [] b = "BS" -> [open |-> p, done |-> st.done]
            [] OTHER -> [open |-> a, done |-> st.done]
  <2>1. [st EXCEPT !.open = p] = [open |-> p, done |-> st.done]  BY <1>2
  <2>2. [st EXCEPT !.open = a] = [open |-> a, done |-> st.done]  BY <1>2
  <2> QED  BY <1>4, <1>5, <1>6, <2>1, <2>2 DEF PumpByte
<1>8. p \in L /\ a \in L /\ e \in D /\ <<>> \in L /\ st.done \in D
  BY <1>2, <1>3, <1>4, <1>5, <1>6
<1>9. PumpByte(st, b) \in [open : L, done : D]  BY <1>7, <1>8
<1> QED  BY <1>1, <1>4, <1>5, <1>6, <1>7, <1>9 DEF Pumps

\* The pump goes from state to state.
LEMMA PumpType ==
    ASSUME NEW X, "rest" \in X
    PROVE  PumpOp(X) \in [X -> [Pumps(X) -> Pumps(X)]]
BY PumpStep DEF PumpOp

\* The pump goes through a chunk byte by byte.
LEMMA PumpRun ==
    ASSUME NEW X, "rest" \in X, NEW s \in Seq(X), NEW base \in Pumps(X)
    PROVE  FoldLeft(PumpByte, base, s) = RunOf(PumpOp(X), base, s)
<1> DEFINE step(t, x) == PumpByte(t, x)
           op == PumpOp(X)
           Body(it) == [D \in SUBSET (DOMAIN s) |->
                           IF D = {} THEN base ELSE step(it[D \ {Max(D)}], s[Max(D)])]
           it == CHOOSE it : it = Body(it)
<1>1. FoldLeft(PumpByte, base, s) = it[DOMAIN s]  BY Zenon DEF FoldLeft, MapThenFoldSet
<1>2. op \in [X -> [Pumps(X) -> Pumps(X)]] /\ base \in Pumps(X)  BY PumpType
<1>3. \A x \in X, t \in Pumps(X) : op[x][t] = step(t, x)  BY DEF PumpOp
<1> HIDE DEF step, op
<1>4. PICK h : FoldOf(h, Pumps(X), X, op, base, s)
  <2>1. \A b \in Pumps(X), u \in Seq(X) : \E i : FoldOf(i, Pumps(X), X, op, b, u)
    BY <1>2, FoldFun
  <2> QED  BY <1>2, <2>1, Zenon
<1>5. h = Body(h)
  <2>1. ASSUME NEW D \in SUBSET (DOMAIN s), D # {}
        PROVE  h[D] = step(h[D \ {Max(D)}], s[Max(D)])
    BY <1>3, <1>4, <2>1 DEF FoldOf
  <2>2. h[{}] = base  BY <1>4 DEF FoldOf
  <2> QED  BY <1>4, <2>1, <2>2 DEF FoldOf
<1>6. it = Body(it)
  <2> HIDE DEF Body
  <2> QED  BY <1>5
<1> HIDE DEF it
<1>7. it[{}] = base /\ \A D \in SUBSET (DOMAIN s) : D # {} =>
          it[D] = step(it[D \ {Max(D)}], s[Max(D)])
  BY <1>6
<1>8. FoldsAs(it, Pumps(X), X, op, base, s)  BY <1>3, <1>7 DEF FoldsAs
<1>9. \A b \in Pumps(X), u \in Seq(X) : \A i :
          FoldsAs(i, Pumps(X), X, op, b, u) => i[DOMAIN u] = RunOf(op, b, u)
  BY <1>2, FoldRun
<1> QED  BY <1>1, <1>2, <1>8, <1>9, Zenon DEF op

\* After a chunk there are lines and the one that is begun.
LEMMA PumpedType ==
    ASSUME NEW X, "rest" \in X
    PROVE  \A s \in Seq(X), base \in Pumps(X) : FoldLeft(PumpByte, base, s) \in Pumps(X)
<1>1. PICK T : T = Pumps(X)  OBVIOUS
<1>2. PumpOp(X) \in [X -> [T -> T]]  BY <1>1, PumpType
<1>3. \A base \in T, s \in Seq(X) : RunOf(PumpOp(X), base, s) \in T  BY <1>2, RunType
<1>4. \A s \in Seq(X), base \in T : FoldLeft(PumpByte, base, s) = RunOf(PumpOp(X), base, s)
  BY <1>1, PumpRun
<1> QED  BY <1>1, <1>3, <1>4

Typed == {[of |-> [src |-> "typed"], event |-> CommandSubmitted(text)] : text \in Seq(PlainWord)}

\* Lines are recorded as commands that were submitted.
LEMMA LinesType ==
    ASSUME NEW X, {"eacute", "lost"} \subseteq X
    PROVE  \A lines \in Seq(Seq(X)) : LineRecords(lines) \in Seq(Typed)
<1> SUFFICES ASSUME NEW lines \in Seq(Seq(X))  PROVE LineRecords(lines) \in Seq(Typed)
  OBVIOUS
<1>1. PICK L : L = Seq(Printable)  OBVIOUS
<1>2. PICK clean : clean = [i \in DOMAIN lines |-> CleanLine(lines[i])]  OBVIOUS
<1>3. clean \in Seq(L)
  <2>1. PICK n \in Nat : DOMAIN lines = 1 .. n /\ \A i \in 1 .. n : lines[i] \in Seq(X)  OBVIOUS
  <2>2. \A i \in 1 .. n : CleanLine(lines[i]) \in L  BY <1>1, <2>1, CleanLineType
  <2> QED  BY <1>2, <2>1, <2>2
<1>4. PICK shown \in Seq(L) : shown = Only(clean, Range(clean) \ {<<>>})  BY <1>3, OnlyType
<1>5. PICK n \in Nat : DOMAIN shown = 1 .. n /\ \A i \in 1 .. n : shown[i] \in L  OBVIOUS
<1>6. \A i \in 1 .. n : Text(shown[i]) \in Seq(PlainWord)
  <2>1. \A l \in L : l \in Seq(DOMAIN Matches)
    <3>1. Printable \subseteq DOMAIN Matches  BY CaptureAssumption
    <3> HIDE DEF Printable
    <3> QED  BY <1>1, <3>1
  <2> QED  BY <1>5, <2>1, TextType
<1>7. LineRecords(lines) =
          [i \in 1 .. n |-> [of |-> [src |-> "typed"], event |-> CommandSubmitted(Text(shown[i]))]]
  BY <1>2, <1>4, <1>5 DEF LineRecords, Of
<1>8. \A i \in 1 .. n :
          [of |-> [src |-> "typed"], event |-> CommandSubmitted(Text(shown[i]))] \in Typed
  BY <1>6 DEF Typed
<1> QED  BY <1>7, <1>8

\* The exit code that is reported.
CodeOfStatus(status) == IF status <= CodeMax THEN status ELSE 1

Ran == {[of |-> [src |-> "run", status |-> status],
         event |-> ProcessRun(Program, line0, text, CodeOfStatus(status))]
            : status \in WaitCodes, line0 \in CommandLines, text \in Seq(PlainWord)}

Hooked == {[of |-> [src |-> "hook", what |-> call], event |-> HookRecord(call.id, call.payload)]
            : call \in {c \in Calls : Recordable(c.id, c.payload)}}

Executed == {[of |-> [src |-> "exec", what |-> exec], event |-> KernelExec(CStr(Copy(exec.path)), text)]
            : exec \in Execs, text \in Seq(PlainWord)}

Connectable(address) == address.readable /\ address.family \in {"inet", "inet6"}

Connected == {[of |-> [src |-> "connect", what |-> address],
               event |-> KernelConnect(<<Plain(address.host)>>)]
            : address \in {a \in Connects : Connectable(a)}}

\* What a record can be.
Made == Typed \cup Ran \cup Hooked \cup Executed \cup Connected

\* What can be observed.
Origins == {[src |-> "hook", what |-> call] : call \in Calls}
            \cup {[src |-> "exec", what |-> exec] : exec \in Execs}
            \cup {[src |-> "connect", what |-> address] : address \in Connects}

\* Bytes and characters.  The prover does not know that a name is in STRING.
Symbols == STRING \cup {"eacute", "lost", "rest"}

\* The type invariant of the session.
TypeInv ==
    /\ argv \in CommandLines /\ agent \in {"running", "ended"} /\ stdin \in {"reading", "done"}
    /\ keys \in Seq(Keys) /\ printed \in Seq(Prints) /\ sent \in Nat
    /\ tty \in Seq(Symbols) /\ line \in Seq(Symbols) /\ pty \in Seq(Symbols)
    /\ transcript \in Seq(Symbols)
    /\ observed \in Seq(Origins) /\ records \in Seq(Made)

\* A typed line: the stdin pump's chunk and the rest it emits at the end.
LEMMA StdinTyped ==
    ASSUME NEW chunk \in Seq(Symbols), NEW open \in Seq(Symbols)
    PROVE  /\ FoldLeft(PumpByte, [open |-> open, done |-> <<>>], chunk) \in Pumps(Symbols)
           /\ LineRecords(FoldLeft(PumpByte, [open |-> open, done |-> <<>>], chunk).done) \in Seq(Typed)
           /\ LineRecords(<<open>>) \in Seq(Typed)
<1>1. PICK X : X = Symbols  OBVIOUS
<1>2. "rest" \in X /\ {"eacute", "lost"} \subseteq X  BY <1>1 DEF Symbols
<1>3. [open |-> open, done |-> <<>>] \in Pumps(X)
  <2>1. <<>> \in Seq(Seq(X)) /\ open \in Seq(X)  BY <1>1
  <2> QED  BY <2>1 DEF Pumps
<1>4. PICK st : st = FoldLeft(PumpByte, [open |-> open, done |-> <<>>], chunk)  OBVIOUS
<1>5. st \in Pumps(X)  BY <1>1, <1>2, <1>3, <1>4, PumpedType
<1>6. st.done \in Seq(Seq(X)) /\ <<open>> \in Seq(Seq(X))  BY <1>1, <1>5 DEF Pumps
<1>7. \A lines \in Seq(Seq(X)) : LineRecords(lines) \in Seq(Typed)  BY <1>2, LinesType
<1>8. LineRecords(st.done) \in Seq(Typed) /\ LineRecords(<<open>>) \in Seq(Typed)
  BY <1>6, <1>7, Zenon
<1> QED  BY <1>1, <1>4, <1>5, <1>8

\* The pump makes lines of a chunk, and records of them; so it does at the end.
LEMMA StdinType ==
    ASSUME NEW chunk \in Seq(Symbols), NEW open \in Seq(Symbols)
    PROVE  /\ FoldLeft(PumpByte, [open |-> open, done |-> <<>>], chunk) \in Pumps(Symbols)
           /\ LineRecords(FoldLeft(PumpByte, [open |-> open, done |-> <<>>], chunk).done) \in Seq(Made)
           /\ LineRecords(<<open>>) \in Seq(Made)
<1>1. Typed \subseteq Made  BY DEF Made
<1>2. Seq(Typed) \subseteq Seq(Made)
  <2> HIDE DEF Typed, Made
  <2> QED  BY <1>1
<1> QED  BY <1>2, StdinTyped

\* The transcript is a text of words.
LEMMA TranscriptType == \A bytes \in Seq(Symbols) : Text(Sanitize(bytes)) \in Seq(PlainWord)
<1> SUFFICES ASSUME NEW bytes \in Seq(Symbols)  PROVE Text(Sanitize(bytes)) \in Seq(PlainWord)
  OBVIOUS
<1>1. PICK X : X = Symbols  OBVIOUS
<1>2. {"eacute", "lost"} \subseteq X  BY <1>1 DEF Symbols
<1>3. Sanitize(bytes) \in Seq(Printable)  BY <1>1, <1>2, SanitizeType
<1>4. Printable \subseteq DOMAIN Matches  BY CaptureAssumption
<1>5. Sanitize(bytes) \in Seq(DOMAIN Matches)
  <2> HIDE DEF Printable
  <2> QED  BY <1>3, <1>4
<1> QED  BY <1>5, TextType

\* What is recorded of what hooks and the kernel report.
Observed(origin, events) ==
    \/ \E call \in Calls :
          /\ origin = [src |-> "hook", what |-> call]
          /\ events = IF Recordable(call.id, call.payload)
                      THEN <<HookRecord(call.id, call.payload)>> ELSE <<>>
    \/ \E exec \in Execs : origin = [src |-> "exec", what |-> exec] /\ events = ExecRecords(exec)
    \/ \E address \in Connects :
          origin = [src |-> "connect", what |-> address] /\ events = ConnectRecords(address)

\* The records of one event.
LEMMA OfOne == \A origin, event : Of(origin, <<event>>) = <<[of |-> origin, event |-> event]>>
BY DEF Of

\* The records of none.
LEMMA OfNone == \A origin : Of(origin, <<>>) = <<>>
BY DEF Of

\* What hooks and the kernel report become records.
LEMMA ObservedType ==
    \A origin, events : Observed(origin, events) => Of(origin, events) \in Seq(Made)
<1> SUFFICES ASSUME NEW origin, NEW events, Observed(origin, events)
             PROVE  Of(origin, events) \in Seq(Made)
  OBVIOUS
<1>1. \A m \in Made : <<m>> \in Seq(Made)
  <2> HIDE DEF Made
  <2> QED  OBVIOUS
<1>2. <<>> \in Seq(Made)  OBVIOUS
<1>3. CASE events = <<>>  BY <1>2, <1>3, OfNone
<1>4. ASSUME NEW call \in Calls, origin = [src |-> "hook", what |-> call],
             Recordable(call.id, call.payload),
             events = <<HookRecord(call.id, call.payload)>>
      PROVE  Of(origin, events) \in Seq(Made)
  <2>1. [of |-> origin, event |-> HookRecord(call.id, call.payload)] \in Made
    BY <1>4 DEF Made, Hooked
  <2> QED  BY <1>1, <1>4, <2>1, OfOne
<1>5. ASSUME NEW exec \in Execs, origin = [src |-> "exec", what |-> exec],
             events = ExecRecords(exec), events # <<>>
      PROVE  Of(origin, events) \in Seq(Made)
  <2>1. PICK text \in Seq(PlainWord) : events = <<KernelExec(CStr(Copy(exec.path)), text)>>
    BY <1>5, ExecIs
  <2>2. [of |-> origin, event |-> KernelExec(CStr(Copy(exec.path)), text)] \in Made
    BY <1>5 DEF Made, Executed
  <2> QED  BY <1>1, <2>1, <2>2, OfOne
<1>6. ASSUME NEW address \in Connects, origin = [src |-> "connect", what |-> address],
             Connectable(address), events = <<KernelConnect(<<Plain(address.host)>>)>>
      PROVE  Of(origin, events) \in Seq(Made)
  <2>1. [of |-> origin, event |-> KernelConnect(<<Plain(address.host)>>)] \in Made
    BY <1>6 DEF Made, Connected
  <2> QED  BY <1>1, <1>6, <2>1, OfOne
<1>7. \/ events = <<>>
      \/ \E call \in Calls : origin = [src |-> "hook", what |-> call]
            /\ Recordable(call.id, call.payload) /\ events = <<HookRecord(call.id, call.payload)>>
      \/ \E exec \in Execs : origin = [src |-> "exec", what |-> exec] /\ events = ExecRecords(exec)
      \/ \E address \in Connects : origin = [src |-> "connect", what |-> address]
            /\ Connectable(address) /\ events = <<KernelConnect(<<Plain(address.host)>>)>>
  BY DEF Observed, ConnectRecords, Connectable
<1> QED  BY <1>3, <1>4, <1>5, <1>6, <1>7

Observing ==
    \E origin, events : Observed(origin, events) /\ Observe(origin, events)

\* The calls, execs and connects are what can be observed.
LEMMA ObservingIs ==
    (\E call \in Calls : ToolCall(call)) \/ (\E exec \in Execs : Exec(exec))
        \/ (\E address \in Connects : Connect(address)) => Observing
<1>1. ASSUME NEW call \in Calls, ToolCall(call)  PROVE Observing
  <2> DEFINE origin == [src |-> "hook", what |-> call]
             events == IF Recordable(call.id, call.payload)
                       THEN <<HookRecord(call.id, call.payload)>> ELSE <<>>
  <2>1. Observed(origin, events)  BY DEF Observed
  <2>2. Observe(origin, events)  BY <1>1 DEF ToolCall
  <2> HIDE DEF origin, events
  <2> QED  BY <2>1, <2>2, Zenon DEF Observing
<1>2. ASSUME NEW exec \in Execs, Exec(exec)  PROVE Observing
  <2> DEFINE origin == [src |-> "exec", what |-> exec]
             events == ExecRecords(exec)
  <2>1. Observed(origin, events)  BY DEF Observed
  <2>2. Observe(origin, events)  BY <1>2 DEF Exec
  <2> HIDE DEF origin, events
  <2> QED  BY <2>1, <2>2, Zenon DEF Observing
<1>3. ASSUME NEW address \in Connects, Connect(address)  PROVE Observing
  <2> DEFINE origin == [src |-> "connect", what |-> address]
             events == ConnectRecords(address)
  <2>1. Observed(origin, events)  BY DEF Observed
  <2>2. Observe(origin, events)  BY <1>3 DEF Connect
  <2> HIDE DEF origin, events
  <2> QED  BY <2>1, <2>2, Zenon DEF Observing
<1> QED  BY <1>1, <1>2, <1>3

\* The bytes that a read takes, and those that it leaves.
LEMMA Chunk ==
    ASSUME NEW X
    PROVE  \A s \in Seq(X) : \A n \in 1 .. Len(s) :
              /\ SubSeq(s, 1, n) \in Seq(X) /\ SubSeq(s, n + 1, Len(s)) \in Seq(X)
              /\ s = SubSeq(s, 1, n) \o SubSeq(s, n + 1, Len(s))
              /\ Len(SubSeq(s, 1, n)) = n
OBVIOUS

\* A session begins with nothing recorded.
LEMMA InitTypes == Init => TypeInv
<1> SUFFICES ASSUME Init PROVE TypeInv  OBVIOUS
<1>1. \A X : <<>> \in Seq(X)  OBVIOUS
<1> QED  BY <1>1 DEF Init, TypeInv

\* Every step keeps the types: what it records is one of Made.
LEMMA StepTypes == TypeInv /\ [Next]_vars => TypeInv'
<1> SUFFICES ASSUME TypeInv, [Next]_vars PROVE TypeInv'  OBVIOUS
<1>1. /\ argv \in CommandLines /\ agent \in {"running", "ended"} /\ stdin \in {"reading", "done"}
      /\ keys \in Seq(Keys) /\ printed \in Seq(Prints) /\ sent \in Nat
      /\ tty \in Seq(Symbols) /\ line \in Seq(Symbols) /\ pty \in Seq(Symbols)
      /\ transcript \in Seq(Symbols) /\ records \in Seq(Made) /\ observed \in Seq(Origins)
  BY DEF TypeInv
<1>2. PICK B, R : B = Seq(Symbols) /\ R = Seq(Made)  OBVIOUS
<1>3. /\ \A s, t \in B : s \o t \in B
      /\ \A s, t \in R : s \o t \in R
  <2> HIDE DEF Made
  <2> QED  BY <1>2
<1>4. \A item \in Keys \cup Prints : item.bytes \in B
  <2>1. \A s \in Seq(STRING) : s \in B  BY <1>2 DEF Symbols
  <2> QED  BY <2>1, CaptureAssumption
<1>5. ASSUME NEW key \in Keys, Press(key)  PROVE TypeInv'
  <2>1. keys' \in Seq(Keys)  BY <1>1, <1>5 DEF Press
  <2>2. tty' \in B  BY <1>1, <1>2, <1>3, <1>4, <1>5, Zenon DEF Press
  <2> QED  BY <1>1, <1>2, <1>5, <2>1, <2>2, Zenon DEF Press, TypeInv
<1>6. ASSUME NEW n \in 1 .. Len(tty), ReadStdin(n)  PROVE TypeInv'
  <2>1. PICK chunk \in Seq(Symbols) : chunk = SubSeq(tty, 1, n)  BY <1>1, Chunk
  <2>2. PICK st : st = FoldLeft(PumpByte, [open |-> line, done |-> <<>>], chunk)  OBVIOUS
  <2>3. st \in Pumps(Symbols) /\ LineRecords(st.done) \in R
    BY <1>1, <1>2, <2>2, StdinType
  <2>4. line' = st.open /\ records' = records \o LineRecords(st.done)
    BY <1>6, <2>1, <2>2, Zenon DEF ReadStdin
  <2>5. line' \in B  BY <1>2, <2>3, <2>4 DEF Pumps
  <2>6. records' \in R  BY <1>1, <1>2, <1>3, <2>3, <2>4, Zenon
  <2>7. tty' \in B /\ sent' \in Nat
    <3>1. SubSeq(tty, n + 1, Len(tty)) \in B  BY <1>1, <1>2, Chunk
    <3>2. sent + n \in Nat  BY <1>1
    <3> QED  BY <1>6, <3>1, <3>2 DEF ReadStdin
  <2> QED  BY <1>1, <1>2, <1>6, <2>5, <2>6, <2>7, Zenon DEF ReadStdin, TypeInv
<1>7. ASSUME StdinEnds  PROVE TypeInv'
  <2>1. LineRecords(<<line>>) \in R
    <3>1. <<>> \in Seq(Symbols)  OBVIOUS
    <3> QED  BY <1>1, <1>2, <3>1, StdinType
  <2>2. records' \in R  BY <1>1, <1>2, <1>3, <1>7, <2>1, Zenon DEF StdinEnds
  <2>3. stdin' \in {"reading", "done"}  BY <1>7 DEF StdinEnds
  <2> QED  BY <1>1, <1>2, <1>7, <2>2, <2>3, Zenon DEF StdinEnds, TypeInv
<1>8. ASSUME NEW item \in Prints, Show(item)  PROVE TypeInv'
  <2>1. printed' \in Seq(Prints)  BY <1>1, <1>8 DEF Show
  <2>2. pty' \in B  BY <1>1, <1>2, <1>3, <1>4, <1>8, Zenon DEF Show
  <2> QED  BY <1>1, <1>2, <1>8, <2>1, <2>2, Zenon DEF Show, TypeInv
<1>9. ASSUME NEW n \in 1 .. Len(pty), ReadPty(n)  PROVE TypeInv'
  <2>1. SubSeq(pty, 1, n) \in B /\ SubSeq(pty, n + 1, Len(pty)) \in B  BY <1>1, <1>2, Chunk
  <2>2. transcript' \in B  BY <1>1, <1>2, <1>3, <1>9, <2>1, Zenon DEF ReadPty
  <2>3. pty' \in B  BY <1>9, <2>1, Zenon DEF ReadPty
  <2> QED  BY <1>1, <1>2, <1>9, <2>2, <2>3, Zenon DEF ReadPty, TypeInv
<1>10. ASSUME NEW status \in WaitCodes, AgentEnds(status)  PROVE TypeInv'
  <2>1. PICK text \in Seq(PlainWord) : text = Text(Sanitize(transcript))
    BY <1>1, TranscriptType
  <2>2. PICK run : run = ProcessRun(Program, argv, text, CodeOfStatus(status))  OBVIOUS
  <2>3. records' = records \o Of([src |-> "run", status |-> status], <<run>>)
    BY <1>10, <2>1, <2>2 DEF AgentEnds, CodeOfStatus
  <2>4. [of |-> [src |-> "run", status |-> status], event |-> run] \in Made
    BY <1>1, <2>2 DEF Made, Ran
  <2>5. <<[of |-> [src |-> "run", status |-> status], event |-> run]>> \in R
    <3> HIDE DEF Made
    <3> QED  BY <1>2, <2>4
  <2>6. records' \in R  BY <1>1, <1>2, <1>3, <2>3, <2>5, OfOne
  <2>7. agent' \in {"running", "ended"}  BY <1>10 DEF AgentEnds
  <2> QED  BY <1>1, <1>2, <1>10, <2>6, <2>7, Zenon DEF AgentEnds, TypeInv
<1>11. ASSUME Observing  PROVE TypeInv'
  <2>1. PICK origin, events : Observed(origin, events) /\ Observe(origin, events)
    BY <1>11, Zenon DEF Observing
  <2>2. Of(origin, events) \in R  BY <1>2, <2>1, ObservedType
  <2>3. records' \in R  BY <1>1, <1>2, <1>3, <2>1, <2>2, Zenon DEF Observe
  <2>4. origin \in Origins  BY <2>1 DEF Observed, Origins
  <2>5. observed' \in Seq(Origins)
    <3>1. \A s \in Seq(Origins), x \in Origins : Append(s, x) \in Seq(Origins)
      <4> HIDE DEF Origins
      <4> QED  OBVIOUS
    <3> QED  BY <1>1, <2>1, <2>4, <3>1 DEF Observe
  <2> QED  BY <1>1, <1>2, <2>1, <2>3, <2>5, Zenon DEF Observe, TypeInv
<1>12. ASSUME UNCHANGED vars  PROVE TypeInv'  BY <1>1, <1>12, Zenon DEF vars, TypeInv
<1> QED  BY <1>5, <1>6, <1>7, <1>8, <1>9, <1>10, <1>11, <1>12, ObservingIs, Zenon
         DEF Next, Terminated

\* Whatever a session records is a command that was submitted, the run of the
\* agent, the call of a hook, an exec or a connect, each built from a text of plain
\* words; pumps and buffers hold bytes and lines.
THEOREM TypeSafety == Spec => []TypeInv
BY InitTypes, StepTypes, PTL DEF Spec

-----------------------------------------------------------------------------
(* Nothing secret is stored, and every secret is reported.                  *)

\* Built, and of such parts: a PTY event with the catch-all, its output text.
IsBuilt(e) ==
    \E source, kind, tool, outcome : \E input \in Seq(InputWord), fuzzy \in BOOLEAN :
        /\ e = Build(source, kind, tool, input, fuzzy, outcome)
        /\ source = "pty" => fuzzy
        /\ outcome = NoOutcome \/ outcome.text \in Seq(InputWord)

\* Whatever build makes of a text was built.
LEMMA BuiltIs ==
    \A source, kind, tool, outcome : \A input \in Seq(InputWord), fuzzy \in BOOLEAN :
        /\ source = "pty" => fuzzy
        /\ outcome = NoOutcome \/ outcome.text \in Seq(InputWord)
        => IsBuilt(Build(source, kind, tool, input, fuzzy, outcome))
BY ZenonT(30) DEF IsBuilt

\* Whatever is recorded was built.
LEMMA MadeIs == \A r \in Made : IsBuilt(r.event)
<1>1. \A text \in Seq(PlainWord) : text \in Seq(InputWord)  BY PlainAsInput
<1>2. ASSUME NEW text \in Seq(PlainWord)  PROVE IsBuilt(CommandSubmitted(text))
  BY <1>1, BuiltIs, Zenon DEF CommandSubmitted
<1>3. ASSUME NEW args \in CommandLines, NEW text \in Seq(PlainWord), NEW code
      PROVE  IsBuilt(ProcessRun(Program, args, text, code))
  <2>1. args \in Seq(InputWord) /\ text \in Seq(InputWord)  BY <1>1, CaptureAssumption
  <2>2. PICK outcome : outcome = [text |-> text, code |-> code]  OBVIOUS
  <2>3. outcome.text \in Seq(InputWord)  BY <2>1, <2>2
  <2>4. ProcessRun(Program, args, text, code)
            = Build("pty", "tool_call", Program, args, TRUE, outcome)
    BY <2>2, Zenon DEF ProcessRun
  <2> QED  BY <2>1, <2>3, <2>4, BuiltIs, Zenon
<1>4. ASSUME NEW call \in Calls  PROVE IsBuilt(HookRecord(call.id, call.payload))
  <2>1. PICK kind : \E input \in Seq(InputWord) : \E outcome :
              /\ IsOutcome(outcome)
              /\ outcome = IF ById(call.id) = "claude" THEN ClaudeOutcome(call.payload.result)
                           ELSE OpencodeOutcome(call.payload.result)
              /\ HookRecord(call.id, call.payload) =
                    Build("hook", kind, call.payload.tool, input, FALSE, outcome)
    BY HookIs
  <2>2. PICK input, outcome :
              /\ input \in Seq(InputWord) /\ IsOutcome(outcome)
              /\ HookRecord(call.id, call.payload) =
                    Build("hook", kind, call.payload.tool, input, FALSE, outcome)
    BY <2>1, Zenon
  <2>3. outcome = NoOutcome \/ outcome.text \in Seq(InputWord)  BY <1>1, <2>2, Zenon DEF IsOutcome
  <2>4. FALSE \in BOOLEAN /\ ("hook" = "pty" => FALSE)  OBVIOUS
  <2> QED  BY <2>2, <2>3, <2>4, BuiltIs, Zenon
<1>5. ASSUME NEW exec \in Execs, NEW text \in Seq(PlainWord)
      PROVE  IsBuilt(KernelExec(CStr(Copy(exec.path)), text))
  <2>1. FALSE \in BOOLEAN /\ ("ebpf" = "pty" => FALSE)  OBVIOUS
  <2> QED  BY <1>1, <2>1, BuiltIs, Zenon DEF KernelExec
<1>6. ASSUME NEW address \in Connects
      PROVE  IsBuilt(KernelConnect(<<Plain(address.host)>>))
  <2>1. <<Plain(address.host)>> \in Seq(PlainWord)
    <3>1. Plain(address.host) \in PlainWord  BY CaptureAssumption DEF Plain, PlainWord
    <3> QED  BY <3>1
  <2>2. FALSE \in BOOLEAN /\ ("ebpf" = "pty" => FALSE)  OBVIOUS
  <2> QED  BY <1>1, <2>1, <2>2, BuiltIs, Zenon DEF KernelConnect
<1> SUFFICES ASSUME NEW r \in Made  PROVE IsBuilt(r.event)
  OBVIOUS
<1>7. CASE r \in Typed  BY <1>2, <1>7 DEF Typed
<1>8. CASE r \in Ran  BY <1>3, <1>8 DEF Ran
<1>9. CASE r \in Hooked  BY <1>4, <1>9 DEF Hooked
<1>10. CASE r \in Executed  BY <1>5, <1>10 DEF Executed
<1>11. CASE r \in Connected
  <2> DEFINE event(address) == KernelConnect(<<Plain(address.host)>>)
  <2>1. \A address \in Connects : IsBuilt(event(address))  BY <1>6
  <2>2. r \in {[of |-> [src |-> "connect", what |-> address], event |-> event(address)]
                  : address \in {a \in Connects : Connectable(a)}}
    BY <1>11, Zenon DEF Connected
  <2> HIDE DEF event
  <2> QED  BY <2>1, <2>2
<1> QED  BY <1>7, <1>8, <1>9, <1>10, <1>11, Zenon DEF Made

\* The records are among those that can be made.
LEMMA RecordsMade == TypeInv => \A i \in DOMAIN records : records[i] \in Made
<1> HIDE DEF Made
<1> QED  BY DEF TypeInv

\* No record shows a secret.
LEMMA MadeHides == \A r \in Made : Hides(r.event)
BY MadeIs, BuildHides, Zenon DEF IsBuilt

\* Every record reports its secrets.
LEMMA MadeReports == \A r \in Made : Reports(r.event)
BY MadeIs, BuildReports, Zenon DEF IsBuilt

\* emit and build: no summary in the log shows a secret or a part of it, for any
\* patterns, texts, limits and agents, but for what an adapter had cut before.
THEOREM SecretsHidden == Spec => []NothingSecretStored
<1>1. TypeInv => NothingSecretStored
  BY RecordsMade, MadeHides, Zenon DEF NothingSecretStored, Hides
<1> QED  BY <1>1, TypeSafety, PTL

\* scan_inner and build: a secret in the input or the output of any record is among
\* its findings, and the severity of the record is not below it.
THEOREM SecretsReported == Spec => []EverySecretReported
<1>1. TypeInv => EverySecretReported
  <2> SUFFICES ASSUME TypeInv, NEW i \in DOMAIN records
               PROVE  LET e == records[i].event
                          words == Range(e.inputHash) \cup
                              (IF e.outputHash = Absent THEN {} ELSE Range(e.outputHash))
                          reported(kind) == \E f \in Range(e.findings) :
                              f.kind = kind /\ SeverityRank[e.severity] >= SeverityRank[f.severity]
                      IN  /\ \A w \in {v \in words : v.mask = "none"} :
                                \A kind \in Matches[w.word] : reported(kind)
                          /\ e.source = "pty" /\ (\E w \in Range(e.inputHash) :
                                  w.mask = "none" /\ w.word \in Random /\ Matches[w.word] = {})
                             => reported(HighEntropy.name)
    BY DEF EverySecretReported
  <2>1. PICK e : e = records[i].event  OBVIOUS
  <2>2. Reports(e)  BY <2>1, RecordsMade, MadeReports
  <2> QED  BY <2>1, <2>2 DEF Reports, Reported
<1> QED  BY <1>1, TypeSafety, PTL

-----------------------------------------------------------------------------
(* What log shows.                                                          *)

\* A record is shown as what it is of.
ShownRight(r) ==
    CASE r.of.src = "typed" -> Display(r.event).kind = "terminal-input"
      [] r.of.src = "run" ->
            Display(r.event).kind = "process" /\ (r.event.status = "error" <=> r.of.status # 0)
      [] r.of.src = "hook" ->
            /\ Display(r.event).kind = r.event.kind /\ Display(r.event).input = "in"
            /\ r.of.what.code = Absent \/ r.of.what.code > CodeMax
                    \/ (r.event.status = "error" <=> r.of.what.code # 0)
      [] OTHER -> Display(r.event).kind = r.event.kind

\* An adapter reports the exit code that the payload tells.
LEMMA CodeTold ==
    ASSUME NEW call \in Calls, TellsItsCode(call), call.code # Absent, ~(call.code > CodeMax),
           NEW outcome,
           outcome = IF ById(call.id) = "claude" THEN ClaudeOutcome(call.payload.result)
                     ELSE OpencodeOutcome(call.payload.result)
    PROVE  outcome.code = call.code /\ outcome # NoOutcome /\ call.code \in Nat
<1>1. PICK result : result = call.payload.result  OBVIOUS
<1>2. PICK told : told = IF ById(call.id) = "claude" THEN Get(result, "exit_code")
                         ELSE IF Get(result, "exit") # Missing THEN Get(result, "exit")
                         ELSE Get(result, "exitCode")
  OBVIOUS
<1>3. /\ call.code \in Nat /\ result.t # "null"
      /\ told = Num(call.code) \/ (told = Missing /\ call.code = 0)
  BY <1>1, <1>2 DEF TellsItsCode
<1>4. CodeOf(told) = call.code
  <2>1. call.code \in -CodeMax - 1 .. CodeMax  BY <1>3, AdapterAssumption
  <2> QED  BY <1>3, <2>1 DEF CodeOf, Num, Missing
<1>5. outcome.code = CodeOf(told)
  BY <1>1, <1>2, <1>3 DEF ClaudeOutcome, OpencodeOutcome, ExitCodeOf
<1>6. NoOutcome.code = Absent  BY DEF NoOutcome
<1> QED  BY <1>3, <1>4, <1>5, <1>6

\* Every record is shown as what it is of.
LEMMA MadeShown ==
    ASSUME Program # "terminal-input",
           \A call \in Calls : Recordable(call.id, call.payload) => TellsItsCode(call),
           NEW r \in Made
    PROVE  ShownRight(r)
<1>1. \A code \in Nat : Status(code) = "error" <=> code # 0  BY DEF Status
<1>2. CASE r \in Typed
  <2>1. PICK text \in Seq(PlainWord) :
            r = [of |-> [src |-> "typed"], event |-> CommandSubmitted(text)]
    BY <1>2, Zenon DEF Typed
  <2>2. r.of.src = "typed" /\ r.event = CommandSubmitted(text)  BY <2>1
  <2>3. r.event.source = "pty" /\ r.event.tool = "terminal-input"
    BY <2>2 DEF CommandSubmitted, Build
  <2> QED  BY <2>2, <2>3 DEF ShownRight, Display, IsPtySourced, IsTerminalInput
<1>3. CASE r \in Ran
  <2>1. PICK status \in WaitCodes, args \in CommandLines, text \in Seq(PlainWord) :
            r = [of |-> [src |-> "run", status |-> status],
                 event |-> ProcessRun(Program, args, text, CodeOfStatus(status))]
    BY <1>3 DEF Ran
  <2>2. /\ r.of.src = "run" /\ r.of.status = status
        /\ r.event = ProcessRun(Program, args, text, CodeOfStatus(status))
    BY <2>1
  <2>3. PICK outcome : outcome = [text |-> text, code |-> CodeOfStatus(status)]  OBVIOUS
  <2>4. /\ CodeOfStatus(status) \in Nat
        /\ CodeOfStatus(status) # 0 <=> status # 0
    BY CaptureAssumption, AdapterAssumption DEF CodeOfStatus
  <2>5. outcome # NoOutcome /\ outcome.code = CodeOfStatus(status)
    <3>1. NoOutcome.code = Absent /\ outcome.code = CodeOfStatus(status)  BY <2>3 DEF NoOutcome
    <3>2. Absent \notin Nat  BY TextAssumption
    <3> QED  BY <2>4, <3>1, <3>2
  <2>6. /\ r.event.source = "pty" /\ r.event.tool = Program
        /\ r.event.status = Status(outcome.code)
    BY <2>2, <2>3, <2>5 DEF ProcessRun, Build
  <2>7. r.event.status = "error" <=> r.of.status # 0  BY <1>1, <2>2, <2>4, <2>5, <2>6
  <2> QED  BY <2>2, <2>6, <2>7 DEF ShownRight, Display, IsPtySourced, IsTerminalInput
<1>4. CASE r \in Hooked
  <2>1. PICK call \in {c \in Calls : Recordable(c.id, c.payload)} :
            r = [of |-> [src |-> "hook", what |-> call], event |-> HookRecord(call.id, call.payload)]
    BY <1>4, Zenon DEF Hooked
  <2>2. /\ r.of.src = "hook" /\ r.of.what = call /\ call \in Calls /\ TellsItsCode(call)
        /\ r.event = HookRecord(call.id, call.payload)
    BY <2>1
  <2>3. PICK kind : \E input \in Seq(InputWord) : \E outcome :
            /\ IsOutcome(outcome)
            /\ outcome = IF ById(call.id) = "claude" THEN ClaudeOutcome(call.payload.result)
                         ELSE OpencodeOutcome(call.payload.result)
            /\ HookRecord(call.id, call.payload) =
                  Build("hook", kind, call.payload.tool, input, FALSE, outcome)
    BY <2>2, HookIs
  <2>4. PICK input, outcome :
            /\ outcome = IF ById(call.id) = "claude" THEN ClaudeOutcome(call.payload.result)
                         ELSE OpencodeOutcome(call.payload.result)
            /\ r.event = Build("hook", kind, call.payload.tool, input, FALSE, outcome)
    BY <2>2, <2>3, Zenon
  <2>5. /\ r.event.source = "hook"
        /\ r.event.status = IF outcome = NoOutcome THEN Absent ELSE Status(outcome.code)
    BY <2>4 DEF Build
  <2>6. Display(r.event).kind = r.event.kind /\ Display(r.event).input = "in"
    BY <2>5 DEF Display, IsPtySourced
  <2>7. call.code = Absent \/ call.code > CodeMax \/ (r.event.status = "error" <=> call.code # 0)
    <3>1. SUFFICES ASSUME call.code # Absent, ~(call.code > CodeMax)
                   PROVE  r.event.status = "error" <=> call.code # 0
      OBVIOUS
    <3>2. outcome.code = call.code /\ outcome # NoOutcome /\ call.code \in Nat
      BY <2>2, <2>4, <3>1, CodeTold
    <3> QED  BY <1>1, <2>5, <3>2
  <2> QED  BY <2>2, <2>6, <2>7 DEF ShownRight
<1>5. CASE r \in Executed
  <2>1. PICK exec \in Execs, text \in Seq(PlainWord) :
            r = [of |-> [src |-> "exec", what |-> exec],
                 event |-> KernelExec(CStr(Copy(exec.path)), text)]
    BY <1>5 DEF Executed
  <2>2. r.of.src = "exec" /\ r.event = KernelExec(CStr(Copy(exec.path)), text)  BY <2>1
  <2>3. r.event.source = "ebpf"  BY <2>2 DEF KernelExec, Build
  <2> QED  BY <2>2, <2>3 DEF ShownRight, Display, IsPtySourced
<1>6. CASE r \in Connected
  <2>1. PICK address \in {a \in Connects : Connectable(a)} :
            r = [of |-> [src |-> "connect", what |-> address],
                 event |-> KernelConnect(<<Plain(address.host)>>)]
    BY <1>6, Zenon DEF Connected
  <2>2. PICK destination : destination = <<Plain(address.host)>>  OBVIOUS
  <2>3. r.of.src = "connect" /\ r.event = KernelConnect(destination)  BY <2>1, <2>2
  <2>4. r.event.source = "ebpf"  BY <2>3 DEF KernelConnect, Build
  <2> QED  BY <2>3, <2>4 DEF ShownRight, Display, IsPtySourced
<1> QED  BY <1>2, <1>3, <1>4, <1>5, <1>6, Zenon DEF Made

\* log: every record is labelled as what it was, and as an error exactly when it
\* failed, provided that the payloads tell the exit codes in the fields that the
\* adapters read, and that no agent is called terminal-input.
THEOREM ShownSafety ==
    Program # "terminal-input"
    /\ (\A call \in Calls : Recordable(call.id, call.payload) => TellsItsCode(call))
    => (Spec => []ShownAsHappened)
<1> SUFFICES ASSUME Program # "terminal-input",
                    \A call \in Calls : Recordable(call.id, call.payload) => TellsItsCode(call)
             PROVE  Spec => []ShownAsHappened
  OBVIOUS
<1>1. TypeInv => ShownAsHappened
  <2> SUFFICES ASSUME TypeInv, NEW i \in DOMAIN records  PROVE ShownRight(records[i])
    BY Zenon DEF ShownAsHappened, ShownRight
  <2> QED  BY RecordsMade, MadeShown
<1> QED  BY <1>1, TypeSafety, PTL

-----------------------------------------------------------------------------
(* The transcript.                                                          *)

\* What a character adds to the text, and where it leaves the scanner.
Adds(mode, c) ==
    IF mode = "text" /\ c \in Printable THEN <<c>>
    ELSE IF (mode = "esc" /\ c \notin {"[", "]"}) \/ (mode = "csi" /\ c \in Final) THEN Rest(c)
    ELSE <<>>

Goes(mode, c) ==
    IF mode = "text" THEN (IF c = "ESC" THEN "esc" ELSE "text")
    ELSE IF mode = "esc" THEN (IF c = "[" THEN "csi" ELSE IF c = "]" THEN "osc" ELSE "text")
    ELSE IF mode = "csi" THEN (IF c \in Final THEN "text" ELSE "csi")
    ELSE (IF c = "BEL" THEN "text" ELSE "osc")

\* The scanner appends what a character adds.
LEMMA ScanIs ==
    \A st \in Scans : \A c :
        /\ Scan(st, c) = [mode |-> Goes(st.mode, c), out |-> st.out \o Adds(st.mode, c)]
        /\ Adds(st.mode, c) \in Seq(Printable)
<1> SUFFICES ASSUME NEW st \in Scans, NEW c
             PROVE  /\ Scan(st, c) = [mode |-> Goes(st.mode, c), out |-> st.out \o Adds(st.mode, c)]
                    /\ Adds(st.mode, c) \in Seq(Printable)
  OBVIOUS
<1>1. PICK m \in {"text", "esc", "csi", "osc"}, o \in Seq(Printable) : st = [mode |-> m, out |-> o]
  BY DEF Scans
<1>2. PICK P : P = Printable  OBVIOUS
<1>3. "ESC" \notin P /\ "rest" \in P  BY <1>2 DEF Printable, Final, Halves, Blank
<1>4. Adds(m, c) \in Seq(P)
  <2>1. c \in P => <<c>> \in Seq(P)  OBVIOUS
  <2>2. <<>> \in Seq(P) /\ <<"rest">> \in Seq(P)  BY <1>3
  <2> QED  BY <1>2, <2>1, <2>2 DEF Adds, Rest
<1>5. \A k : [st EXCEPT !.mode = k] = [mode |-> k, out |-> o]  BY <1>1
<1>6. [st EXCEPT !.out = Append(@, c)] = [mode |-> m, out |-> Append(o, c)]  BY SMTT(30), <1>1
<1>7. o \o <<>> = o /\ (c \in P => o \o <<c>> = Append(o, c))  BY <1>1, <1>2
<1>8. PICK ro : ro = o \o Rest(c)  OBVIOUS
<1>9. PICK ao : ao = Append(o, c)  OBVIOUS
<1>10. Scan(st, c) =
          IF m = "text" /\ c = "ESC" THEN [mode |-> "esc", out |-> o]
          ELSE IF m = "text" /\ c \in P THEN [mode |-> m, out |-> ao]
          ELSE IF m = "esc" /\ c = "[" THEN [mode |-> "csi", out |-> o]
          ELSE IF m = "esc" /\ c = "]" THEN [mode |-> "osc", out |-> o]
          ELSE IF (m = "esc" /\ c \notin {"[", "]"}) \/ (m = "csi" /\ c \in Final)
               THEN [mode |-> "text", out |-> ro]
          ELSE IF m = "osc" /\ c = "BEL" THEN [mode |-> "text", out |-> o]
          ELSE st
  <2>1. /\ [st EXCEPT !.mode = "esc"] = [mode |-> "esc", out |-> o]
        /\ [st EXCEPT !.mode = "csi"] = [mode |-> "csi", out |-> o]
        /\ [st EXCEPT !.mode = "osc"] = [mode |-> "osc", out |-> o]
        /\ [st EXCEPT !.mode = "text"] = [mode |-> "text", out |-> o]
        /\ [st EXCEPT !.out = Append(@, c)] = [mode |-> m, out |-> ao]
        /\ [mode |-> "text", out |-> st.out \o Rest(c)] = [mode |-> "text", out |-> ro]
        /\ st.mode = m
    BY <1>1, <1>5, <1>6, <1>8, <1>9
  <2>2. CASE m = "text"  BY <1>2, <1>3, <2>1, <2>2 DEF Scan
  <2>3. CASE m = "esc"  BY <2>1, <2>3 DEF Scan
  <2>4. CASE m = "csi"  BY <2>1, <2>4 DEF Scan
  <2>5. CASE m = "osc"  BY <2>1, <2>5 DEF Scan
  <2> QED  BY <2>2, <2>3, <2>4, <2>5
<1>11. o \o Adds(m, c) =
          IF m = "text" /\ c \in P THEN ao
          ELSE IF (m = "esc" /\ c \notin {"[", "]"}) \/ (m = "csi" /\ c \in Final) THEN ro
          ELSE o
  BY <1>2, <1>7, <1>8, <1>9 DEF Adds
<1>12. PICK x : x = o \o Adds(m, c)  OBVIOUS
<1>13. Scan(st, c) = [mode |-> Goes(m, c), out |-> x]
  BY <1>1, <1>3, <1>10, <1>11, <1>12 DEF Goes
<1> QED  BY <1>1, <1>2, <1>4, <1>12, <1>13

\* What is scanned after some text is added to it.
LEMMA ScanAfter ==
    ASSUME NEW X, NEW a \in Seq(Printable)
    PROVE  \A s \in Seq(X) :
              LET st == RunOf(ScanOp(X), TextState, s)
              IN  RunOf(ScanOp(X), [mode |-> "text", out |-> a], s)
                      = [mode |-> st.mode, out |-> a \o st.out]
<1>1. PICK T : T = Scans  OBVIOUS
<1>2. PICK from : from = [mode |-> "text", out |-> a]  OBVIOUS
<1>3. from \in T /\ TextState \in T /\ ScanOp(X) \in [X -> [T -> T]]
  <2>1. <<>> \in Seq(Printable)  OBVIOUS
  <2> QED  BY <1>1, <1>2, <2>1, ScanType DEF Scans, TextState
<1> DEFINE At(s) == RunOf(ScanOp(X), from, s)
           St(s) == RunOf(ScanOp(X), TextState, s)
           Q == {s \in Seq(X) : At(s) = [mode |-> St(s).mode, out |-> a \o St(s).out]}
<1>4. At(<<>>) = from /\ St(<<>>) = TextState
  <2>1. \A base \in T : RunOf(ScanOp(X), base, <<>>) = base  BY <1>3, RunEmpty
  <2> QED  BY <1>3, <2>1, Zenon
<1>5. \A s \in Seq(X), x \in X : /\ At(Append(s, x)) = ScanOp(X)[x][At(s)]
                                /\ St(Append(s, x)) = ScanOp(X)[x][St(s)]
  <2>1. \A base \in T, s \in Seq(X), x \in X :
            RunOf(ScanOp(X), base, Append(s, x)) = ScanOp(X)[x][RunOf(ScanOp(X), base, s)]
    BY <1>3, RunAppend
  <2> QED  BY <1>3, <2>1, Zenon
<1>6. \A s \in Seq(X) : At(s) \in T /\ St(s) \in T
  <2>1. \A base \in T, s \in Seq(X) : RunOf(ScanOp(X), base, s) \in T  BY <1>3, RunType
  <2> QED  BY <1>3, <2>1, Zenon
<1>7. \A x \in X, st \in T : ScanOp(X)[x][st] = Scan(st, x)  BY <1>1 DEF ScanOp
<1> HIDE DEF At, St
<1>8. <<>> \in Q
  <2>1. a \o <<>> = a /\ <<>> \in Seq(X)  OBVIOUS
  <2> QED  BY <1>2, <1>4, <2>1 DEF TextState
<1>9. ASSUME NEW s \in Seq(X), NEW x \in X, s \in Q  PROVE Append(s, x) \in Q
  <2>1. PICK st \in T : st = St(s)  BY <1>6
  <2>2. At(s) = [mode |-> st.mode, out |-> a \o st.out]  BY <1>9, <2>1
  <2>3. PICK add : add = Adds(st.mode, x)  OBVIOUS
  <2>4. PICK o \in Seq(Printable) : o = st.out  BY <1>1, <2>1 DEF Scans
  <2>5. St(Append(s, x)) = [mode |-> Goes(st.mode, x), out |-> o \o add] /\ add \in Seq(Printable)
    BY <1>1, <1>5, <1>7, <2>1, <2>3, <2>4, ScanIs
  <2>6. PICK at \in T : at = At(s)  BY <1>6
  <2>7. at.mode = st.mode /\ at.out = a \o o  BY <2>2, <2>4, <2>6
  <2>8. At(Append(s, x)) = [mode |-> Goes(at.mode, x), out |-> at.out \o Adds(at.mode, x)]
    BY ZenonT(30), <1>1, <1>5, <1>7, <2>6, ScanIs
  <2>9. (a \o o) \o add = a \o (o \o add)
    <3>1. \A u, v, w \in Seq(Printable) : (u \o v) \o w = u \o (v \o w)
      <4> HIDE DEF Printable
      <4> QED  BY SMTT(30)
    <3> QED  BY <2>4, <2>5, <3>1
  <2>10. Append(s, x) \in Seq(X)  OBVIOUS
  <2>11. At(Append(s, x)) = [mode |-> Goes(st.mode, x), out |-> a \o (o \o add)]
    BY <2>3, <2>7, <2>8, <2>9
  <2>12. PICK w : w = o \o add  OBVIOUS
  <2>13. St(Append(s, x)).mode = Goes(st.mode, x) /\ St(Append(s, x)).out = w
    BY <2>5, <2>12
  <2> QED  BY <2>10, <2>11, <2>12, <2>13
<1> HIDE DEF Q
<1>10. \A s \in Seq(X) : s \in Q  BY <1>8, <1>9, ByAppend
<1> QED  BY <1>2, <1>10, Zenon DEF Q, At, St

\* Some bytes decode to some characters.
LEMMA CharsNonempty ==
    ASSUME NEW X, {"eacute", "lost"} \subseteq X
    PROVE  \A s \in Seq(X) : s # <<>> => Chars(X, s) # <<>>
<1> DEFINE Q == {s \in Seq(X) : s # <<>> => Chars(X, s) # <<>>}
<1>1. <<>> \in Q  OBVIOUS
<1>2. ASSUME NEW s \in Seq(X), NEW b \in X, s \in Q  PROVE Append(s, b) \in Q
  <2>1. PICK c \in Seq(X) : c = Chars(X, s)  BY CharsType
  <2>2. Chars(X, Append(s, b)) =
            IF b # "A9" THEN Append(c, b)
            ELSE IF c # <<>> /\ Last(c) = "C3" THEN Append(Front(c), "eacute")
            ELSE Append(c, "lost")
    BY <2>1, CharsStep
  <2>3. \A t \in Seq(X), x \in X : Append(t, x) # <<>> /\ Append(t, x) \in Seq(X)  OBVIOUS
  <2>4. c # <<>> => Front(c) \in Seq(X)  BY FrontLast
  <2>5. Chars(X, Append(s, b)) # <<>>  BY <2>2, <2>3, <2>4
  <2> QED  BY <2>3, <2>5
<1> HIDE DEF Q
<1>3. \A s \in Seq(X) : s \in Q  BY <1>1, <1>2, ByAppend
<1> QED  BY <1>3 DEF Q

\* The last element of a longer sequence.
LEMMA AppendLast ==
    ASSUME NEW X
    PROVE  \A w \in Seq(X), y \in X :
              /\ Append(w, y) \in Seq(X) /\ Append(w, y) # <<>>
              /\ Last(Append(w, y)) = y /\ Front(Append(w, y)) = w
<1> SUFFICES ASSUME NEW w \in Seq(X), NEW y \in X
             PROVE  /\ Append(w, y) \in Seq(X) /\ Append(w, y) # <<>>
                    /\ Last(Append(w, y)) = y /\ Front(Append(w, y)) = w
  OBVIOUS
<1>1. PICK n \in Nat : n = Len(w)  OBVIOUS
<1>2. PICK u : u = Append(w, y)  OBVIOUS
<1>3. /\ u \in Seq(X) /\ Len(u) = n + 1 /\ u[n + 1] = y
      /\ \A i \in 1 .. n : u[i] = w[i]
  BY <1>1, <1>2
<1>4. u # <<>>
  <2>1. Len(<<>>) = 0  OBVIOUS
  <2> QED  BY <1>3, <2>1
<1>5. PICK f : f = SubSeq(u, 1, n)  OBVIOUS
<1>6. f \in Seq(X) /\ Len(f) = n /\ \A i \in 1 .. n : f[i] = u[i]  BY <1>3, <1>5
<1>7. f = w
  <2>1. \A i \in 1 .. n : f[i] = w[i]  BY <1>3, <1>6
  <2> QED  BY <1>1, <1>6, <2>1
<1>8. Last(u) = y /\ Front(u) = f
  <2>1. Len(u) - 1 = n  BY <1>3
  <2> QED  BY <1>3, <1>5, <2>1 DEF Last, Front
<1> QED  BY <1>2, <1>3, <1>4, <1>7, <1>8

\* A function of the elements, over two sequences side by side.
Mapped(f, s) == [i \in DOMAIN s |-> f[s[i]]]

\* Mapping a concatenation maps both parts.
LEMMA MapsConcat ==
    ASSUME NEW X, NEW f
    PROVE  \A a, c \in Seq(X) : Mapped(f, a \o c) = Mapped(f, a) \o Mapped(f, c)
<1> SUFFICES ASSUME NEW a \in Seq(X), NEW c \in Seq(X)
             PROVE  Mapped(f, a \o c) = Mapped(f, a) \o Mapped(f, c)
  OBVIOUS
<1>0. PICK Y : Y = {f[x] : x \in X}  OBVIOUS
<1>1. PICK ac : ac = a \o c  OBVIOUS
<1>2. PICK n, m \in Nat : n = Len(a) /\ m = Len(c)  OBVIOUS
<1>3. /\ ac \in Seq(X) /\ Len(ac) = n + m
      /\ \A i \in 1 .. n + m : ac[i] = IF i <= n THEN a[i] ELSE c[i - n]
  BY <1>1, <1>2
<1>4. PICK ma, mc, mac : /\ ma = [i \in 1 .. n |-> f[a[i]]]
                         /\ mc = [i \in 1 .. m |-> f[c[i]]]
                         /\ mac = [i \in 1 .. n + m |-> f[ac[i]]]
  OBVIOUS
<1>5. ma \in Seq(Y) /\ mc \in Seq(Y) /\ mac \in Seq(Y)
  <2>1. (\A i \in 1 .. n : a[i] \in X) /\ (\A i \in 1 .. m : c[i] \in X)
        /\ \A i \in 1 .. n + m : ac[i] \in X
    BY <1>2, <1>3
  <2> QED  BY <1>0, <1>4, <2>1
<1>6. Len(ma) = n /\ Len(mc) = m /\ Len(mac) = n + m  BY <1>4
<1>7. PICK both : both = ma \o mc  OBVIOUS
<1>8. /\ both \in Seq(Y) /\ Len(both) = n + m
      /\ \A i \in 1 .. n + m : both[i] = IF i <= n THEN ma[i] ELSE mc[i - n]
  <2>1. ASSUME NEW u \in Seq(Y), NEW v \in Seq(Y)
        PROVE  /\ u \o v \in Seq(Y) /\ Len(u \o v) = Len(u) + Len(v)
               /\ \A i \in 1 .. Len(u) + Len(v) :
                      (u \o v)[i] = IF i <= Len(u) THEN u[i] ELSE v[i - Len(u)]
    OBVIOUS
  <2>2. /\ ma \o mc \in Seq(Y) /\ Len(ma \o mc) = Len(ma) + Len(mc)
        /\ \A i \in 1 .. Len(ma) + Len(mc) :
               (ma \o mc)[i] = IF i <= Len(ma) THEN ma[i] ELSE mc[i - Len(ma)]
    BY <1>5, <2>1
  <2> QED  BY <1>6, <1>7, <2>2
<1>9. \A i \in 1 .. n + m : both[i] = mac[i]
  <2> SUFFICES ASSUME NEW i \in 1 .. n + m  PROVE both[i] = mac[i]
    OBVIOUS
  <2>1. CASE i <= n
    <3>1. i \in 1 .. n  BY <2>1
    <3>2. ma[i] = f[a[i]] /\ ac[i] = a[i]  BY <1>3, <1>4, <2>1, <3>1
    <3> QED  BY <1>4, <1>8, <2>1, <3>2
  <2>2. CASE i > n
    <3>1. i - n \in 1 .. m  BY <2>2
    <3>2. mc[i - n] = f[c[i - n]] /\ ac[i] = c[i - n]  BY <1>3, <1>4, <2>2, <3>1
    <3> QED  BY <1>4, <1>8, <2>2, <3>2
  <2> QED  BY <2>1, <2>2
<1>10. both = mac
  <2>1. \A u, v \in Seq(Y) : Len(u) = Len(v) /\ (\A i \in 1 .. Len(u) : u[i] = v[i]) => u = v
    <3>1. ASSUME NEW u \in Seq(Y), NEW v \in Seq(Y), Len(u) = Len(v),
                 \A i \in 1 .. Len(u) : u[i] = v[i]
          PROVE  u = v
      BY <3>1
    <3> QED  BY <3>1
  <2> QED  BY <1>5, <1>6, <1>8, <1>9, <2>1
<1>11. DOMAIN a = 1 .. n /\ DOMAIN c = 1 .. m /\ DOMAIN ac = 1 .. n + m
  BY <1>2, <1>3
<1> QED  BY <1>1, <1>4, <1>7, <1>10, <1>11 DEF Mapped

\* The same of a function on the elements.
LEMMA MapConcat ==
    ASSUME NEW X, NEW f \in [X -> X]
    PROVE  \A a, c \in Seq(X) : Mapped(f, a \o c) = Mapped(f, a) \o Mapped(f, c)
BY MapsConcat

\* The last element of a concatenation.
LEMMA ConcatLast ==
    ASSUME NEW X
    PROVE  \A s, t \in Seq(X) : t # <<>> =>
              /\ s \o t # <<>> /\ Last(s \o t) = Last(t) /\ Front(s \o t) = s \o Front(t)
<1> SUFFICES ASSUME NEW s \in Seq(X), NEW t \in Seq(X), t # <<>>
             PROVE  s \o t # <<>> /\ Last(s \o t) = Last(t) /\ Front(s \o t) = s \o Front(t)
  OBVIOUS
<1>1. PICK u \in Seq(X), x \in X : t = Append(u, x) /\ u = Front(t) /\ x = Last(t)
  BY FrontLast
<1>2. s \o t = Append(s \o u, x) /\ s \o u \in Seq(X)  BY <1>1, AppendConcat
<1>3. PICK v \in Seq(X) : v = s \o u  BY <1>2
<1>4. Append(v, x) # <<>> /\ Last(Append(v, x)) = x /\ Front(Append(v, x)) = v  BY AppendLast
<1>5. s \o t = Append(v, x)  BY <1>2, <1>3
<1>6. v = s \o Front(t)  BY <1>1, <1>3
<1> QED  BY <1>1, <1>4, <1>5, <1>6, Zenon

\* Bytes that begin a character of their own are decoded by themselves.
LEMMA CharsConcat ==
    ASSUME NEW X, {"eacute", "lost"} \subseteq X, NEW s \in Seq(X)
    PROVE  \A t \in Seq(X) : (t # <<>> => t[1] # "A9") =>
              Chars(X, s \o t) = Chars(X, s) \o Chars(X, t)
<1>1. PICK a \in Seq(X) : a = Chars(X, s)  BY CharsType
<1> DEFINE Q == {t \in Seq(X) : (t # <<>> => t[1] # "A9") =>
                    Chars(X, s \o t) = Chars(X, s) \o Chars(X, t)}
<1>2. <<>> \in Q
  <2>1. s \o <<>> = s /\ a \o <<>> = a /\ <<>> \in Seq(X)  OBVIOUS
  <2> QED  BY <1>1, <2>1, CharsStep
<1>3. ASSUME NEW t \in Seq(X), NEW b \in X, t \in Q  PROVE Append(t, b) \in Q
  <2>1. SUFFICES ASSUME Append(t, b)[1] # "A9"
                 PROVE  Chars(X, s \o Append(t, b)) = a \o Chars(X, Append(t, b))
    <3>1. Append(t, b) \in Seq(X) /\ Append(t, b) # <<>>  BY AppendLast
    <3> QED  BY <1>1, <3>1
  <2>2. t # <<>> => t[1] # "A9"  BY <2>1
  <2>3. PICK c \in Seq(X) : c = Chars(X, t)  BY CharsType
  <2>4. Chars(X, s \o t) = a \o c  BY <1>1, <1>3, <2>2, <2>3
  <2>5. s \o Append(t, b) = Append(s \o t, b)  BY AppendConcat
  <2>6. s \o t \in Seq(X) /\ a \o c \in Seq(X)  OBVIOUS
  <2>7. PICK ac \in Seq(X) : ac = a \o c  BY <2>6
  <2>8. Chars(X, s \o Append(t, b)) =
            IF b # "A9" THEN Append(ac, b)
            ELSE IF ac # <<>> /\ Last(ac) = "C3" THEN Append(Front(ac), "eacute")
            ELSE Append(ac, "lost")
    <3>1. PICK st \in Seq(X) : st = s \o t  BY <2>6
    <3>2. Chars(X, st) = ac  BY <2>4, <2>7, <3>1
    <3>3. s \o Append(t, b) = Append(st, b)  BY <2>5, <3>1
    <3>4. Chars(X, Append(st, b)) =
              IF b # "A9" THEN Append(Chars(X, st), b)
              ELSE IF Chars(X, st) # <<>> /\ Last(Chars(X, st)) = "C3"
                   THEN Append(Front(Chars(X, st)), "eacute")
              ELSE Append(Chars(X, st), "lost")
      BY SMTT(30), CharsStep
    <3> QED  BY Zenon, <3>2, <3>3, <3>4
  <2>9. Chars(X, Append(t, b)) =
            IF b # "A9" THEN Append(c, b)
            ELSE IF c # <<>> /\ Last(c) = "C3" THEN Append(Front(c), "eacute")
            ELSE Append(c, "lost")
    BY <2>3, CharsStep
  <2>10. \A u \in Seq(X), x \in X : a \o Append(u, x) = Append(a \o u, x)  BY AppendConcat
  <2>11. CASE b # "A9"  BY <2>7, <2>8, <2>9, <2>10, <2>11
  <2>12. CASE b = "A9"
    <3>1. t # <<>>
      <4>1. Append(<<>>, b)[1] = b  OBVIOUS
      <4> QED  BY <2>1, <2>12, <4>1
    <3>2. c # <<>>  BY <2>3, <3>1, CharsNonempty
    <3>3. ac # <<>> /\ Last(ac) = Last(c) /\ Front(ac) = a \o Front(c)  BY <2>7, <3>2, ConcatLast
    <3>4. Front(c) \in Seq(X)  BY <3>2, FrontLast
    <3>5. PICK f \in Seq(X) : f = Front(c)  BY <3>4
    <3>6. a \o Append(f, "eacute") = Append(a \o f, "eacute")
          /\ a \o Append(c, "lost") = Append(a \o c, "lost")
      BY <2>10
    <3> QED  BY <2>7, <2>8, <2>9, <2>12, <3>2, <3>3, <3>5, <3>6
  <2> QED  BY <2>11, <2>12
<1> HIDE DEF Q
<1>4. \A t \in Seq(X) : t \in Q  BY <1>2, <1>3, ByAppend
<1> QED  BY <1>4, Zenon DEF Q

\* So does from_utf8_lossy, if the second part begins with a character of its own.
LEMMA Utf8Concat ==
    ASSUME NEW X, {"eacute", "lost"} \subseteq X
    PROVE  \A s, t \in Seq(X) : (t # <<>> => t[1] # "A9") =>
              Utf8Lossy(s \o t) = Utf8Lossy(s) \o Utf8Lossy(t)
<1> SUFFICES ASSUME NEW s \in Seq(X), NEW t \in Seq(X), t # <<>> => t[1] # "A9"
             PROVE  Utf8Lossy(s \o t) = Utf8Lossy(s) \o Utf8Lossy(t)
  OBVIOUS
<1>1. PICK a \in Seq(X) : a = Chars(X, s)  BY CharsType
<1>2. PICK c \in Seq(X) : c = Chars(X, t)  BY CharsType
<1>3. PICK ac : ac = a \o c  OBVIOUS
<1>4. Chars(X, s \o t) = ac  BY <1>1, <1>2, <1>3, CharsConcat
<1>5. s \o t \in Seq(X)  OBVIOUS
<1>6. PICK f : f = [x \in X |-> IF x = "C3" THEN "lost" ELSE x]  OBVIOUS
<1>7. f \in [X -> X]  BY <1>6
<1>8. \A u \in Seq(X) : Utf8Lossy(u) = Mapped(f, Chars(X, u))
  <2> SUFFICES ASSUME NEW u \in Seq(X)
               PROVE  Utf8Lossy(u) = Mapped(f, Chars(X, u))
    OBVIOUS
  <2>1. PICK v \in Seq(X) : v = Chars(X, u)  BY CharsType
  <2>2. Utf8Lossy(u) = [i \in DOMAIN v |-> IF v[i] = "C3" THEN "lost" ELSE v[i]]
    BY <2>1, Utf8LossyRun
  <2>3. \A i \in DOMAIN v : v[i] \in X  OBVIOUS
  <2> QED  BY <1>6, <2>1, <2>2, <2>3 DEF Mapped
<1>9. Utf8Lossy(s \o t) = Mapped(f, ac)  BY <1>4, <1>5, <1>8, Zenon
<1>10. /\ Utf8Lossy(s) = Mapped(f, a)
       /\ Utf8Lossy(t) = Mapped(f, c)
  BY <1>1, <1>2, <1>8, Zenon
<1>11. Mapped(f, ac) = Mapped(f, a) \o Mapped(f, c)
  <2>1. \A u, v \in Seq(X) : Mapped(f, u \o v) = Mapped(f, u) \o Mapped(f, v)
    BY <1>7, MapConcat
  <2> QED  BY <1>3, <2>1, Zenon
<1> QED  BY <1>9, <1>10, <1>11, Zenon

BytesOf(items) == [i \in DOMAIN items |-> items[i].bytes]
ShowsOf(items) == [i \in DOMAIN items |-> items[i].shows]

\* What is printed are bytes, and what is seen of it is printable.
LEMMA PrintsAre ==
    \A item \in Prints :
        /\ item.bytes \in Seq(Symbols)
        /\ Whole(item) => item.shows \in Seq(Printable)
<1> SUFFICES ASSUME NEW item \in Prints
             PROVE  /\ item.bytes \in Seq(Symbols)
                    /\ Whole(item) => item.shows \in Seq(Printable)
  OBVIOUS
<1>1. PICK X : X = Symbols  OBVIOUS
<1>2. {"eacute", "lost"} \subseteq X  BY <1>1 DEF Symbols
<1>3. item.bytes \in Seq(X)
  <2>1. \A s \in Seq(STRING) : s \in Seq(X)  BY <1>1 DEF Symbols
  <2> QED  BY <2>1, CaptureAssumption
<1>4. ASSUME Whole(item)  PROVE item.shows \in Seq(Printable)
  <2>1. PICK u \in Seq(X) : u = Utf8Lossy(item.bytes)  BY <1>2, <1>3, Utf8LossyType
  <2>2. TextState \in Scans
    <3>1. <<>> \in Seq(Printable)  OBVIOUS
    <3> QED  BY <3>1 DEF TextState, Scans
  <2>3. FoldLeft(Scan, TextState, u) \in Scans
    <3>1. FoldLeft(Scan, TextState, u) = RunOf(ScanOp(X), TextState, u)  BY <2>2, ScanRun
    <3>2. PICK T : T = Scans  OBVIOUS
    <3>3. ScanOp(X) \in [X -> [T -> T]]  BY <3>2, ScanType
    <3>4. \A base \in T, s \in Seq(X) : RunOf(ScanOp(X), base, s) \in T  BY <3>3, RunType
    <3> QED  BY <2>2, <3>1, <3>2, <3>4
  <2>4. FoldLeft(Scan, TextState, u) = [mode |-> "text", out |-> item.shows]
    BY <1>4, <2>1 DEF Whole, TextState
  <2>5. \A st \in Scans : st.out \in Seq(Printable)  BY DEF Scans
  <2>6. [mode |-> "text", out |-> item.shows].out = item.shows  OBVIOUS
  <2> QED  BY <2>3, <2>4, <2>5, <2>6
<1> QED  BY <1>1, <1>3, <1>4

\* The bytes and the looks of one thing more come last.
LEMMA ItemsAppend ==
    ASSUME NEW I
    PROVE  \A items \in Seq(I), x \in I :
              /\ BytesOf(Append(items, x)) = Append(BytesOf(items), x.bytes)
              /\ ShowsOf(Append(items, x)) = Append(ShowsOf(items), x.shows)
<1> SUFFICES ASSUME NEW items \in Seq(I), NEW x \in I
             PROVE  /\ BytesOf(Append(items, x)) = Append(BytesOf(items), x.bytes)
                    /\ ShowsOf(Append(items, x)) = Append(ShowsOf(items), x.shows)
  OBVIOUS
<1>1. PICK n \in Nat : n = Len(items)  OBVIOUS
<1>2. PICK all : all = Append(items, x)  OBVIOUS
<1>3. /\ DOMAIN items = 1 .. n /\ DOMAIN all = 1 .. n + 1
      /\ all[n + 1] = x /\ \A i \in 1 .. n : all[i] = items[i]
  BY <1>1, <1>2
<1>4. ASSUME NEW f, NEW g, NEW y, f = [i \in 1 .. n |-> g[i]],
             NEW h, h = [i \in 1 .. n + 1 |-> IF i = n + 1 THEN y ELSE g[i]]
      PROVE  h = Append(f, y)
  <2>1. PICK X : X = {g[i] : i \in 1 .. n} \cup {y}  OBVIOUS
  <2>2. f \in Seq(X) /\ Len(f) = n /\ \A i \in 1 .. n : f[i] = g[i]  BY <1>4, <2>1
  <2>3. Append(f, y) = [i \in 1 .. n + 1 |-> IF i = n + 1 THEN y ELSE f[i]]
    <3>1. y \in X  BY <2>1
    <3>2. PICK w : w = Append(f, y)  OBVIOUS
    <3>3. w \in Seq(X) /\ Len(w) = n + 1 /\ w[n + 1] = y /\ \A i \in 1 .. n : w[i] = f[i]
      BY <2>2, <3>1, <3>2
    <3>4. w = [i \in 1 .. n + 1 |-> w[i]]  BY <3>3
    <3>5. \A i \in 1 .. n + 1 : w[i] = IF i = n + 1 THEN y ELSE f[i]  BY <3>3
    <3> HIDE <3>3
    <3> QED  BY <3>2, <3>4, <3>5
  <2> QED  BY <1>4, <2>2, <2>3
<1>5. PICK b, s : b = BytesOf(items) /\ s = ShowsOf(items)  OBVIOUS
<1>6. b = [i \in 1 .. n |-> b[i]] /\ s = [i \in 1 .. n |-> s[i]]
  BY <1>3, <1>5 DEF BytesOf, ShowsOf
<1>7. /\ BytesOf(all) = [i \in 1 .. n + 1 |-> IF i = n + 1 THEN x.bytes ELSE b[i]]
      /\ ShowsOf(all) = [i \in 1 .. n + 1 |-> IF i = n + 1 THEN x.shows ELSE s[i]]
  BY <1>1, <1>3, <1>5 DEF BytesOf, ShowsOf
<1> QED  BY <1>2, <1>4, <1>5, <1>6, <1>7

\* What is printed, item after item, is scanned to what it shows.
LEMMA PrintedScan ==
    ASSUME \A item \in Prints : Whole(item)
    PROVE  \A items \in Seq(Prints) :
              /\ FlattenSeq(BytesOf(items)) \in Seq(Symbols)
              /\ Sanitize(FlattenSeq(BytesOf(items))) = Shown(items)
<1>1. PICK X : X = Symbols  OBVIOUS
<1>2. {"eacute", "lost"} \subseteq X  BY <1>1 DEF Symbols
<1>3. PICK T : T = Scans  OBVIOUS
<1>4. TextState \in T /\ ScanOp(X) \in [X -> [T -> T]]
  <2>1. <<>> \in Seq(Printable)  OBVIOUS
  <2> QED  BY <1>3, <2>1, ScanType DEF Scans, TextState
<1> DEFINE All(items) == FlattenSeq(BytesOf(items))
           Out(items) == FlattenSeq(ShowsOf(items))
           Q == {items \in Seq(Prints) :
                    /\ BytesOf(items) \in Seq(Seq(X)) /\ ShowsOf(items) \in Seq(Seq(Printable))
                    /\ RunOf(ScanOp(X), TextState, Utf8Lossy(All(items)))
                          = [mode |-> "text", out |-> Out(items)]}
<1>5. \A s \in Seq(X) : Utf8Lossy(s) \in Seq(X)  BY <1>2, Utf8LossyType
<1>6. \A items \in Q : All(items) \in Seq(X) /\ Out(items) \in Seq(Printable)
  BY FlattenType
<1>7. <<>> \in Q
  <2>1. BytesOf(<<>>) = <<>> /\ ShowsOf(<<>>) = <<>>  BY DEF BytesOf, ShowsOf
  <2>2. All(<<>>) = <<>> /\ Out(<<>>) = <<>>  BY <2>1, FlattenEmpty
  <2>3. Utf8Lossy(<<>>) = <<>>
    <3>1. <<>> \in Seq(X)  OBVIOUS
    <3>2. Chars(X, <<>>) = <<>>  BY <1>2, CharsStep
    <3>3. PICK e \in Seq(X) : e = <<>>  BY <3>1
    <3>4. Chars(X, e) = e /\ DOMAIN e = {}  BY <3>2, <3>3
    <3>5. Utf8Lossy(e) = [i \in DOMAIN Chars(X, e) |->
                             IF Chars(X, e)[i] = "C3" THEN "lost" ELSE Chars(X, e)[i]]
      BY <1>2, Utf8LossyRun
    <3>6. DOMAIN Utf8Lossy(e) = {} /\ Utf8Lossy(e) \in Seq(X)  BY <1>5, <3>4, <3>5
    <3> QED  BY <3>3, <3>6
  <2>4. RunOf(ScanOp(X), TextState, <<>>) = TextState
    <3>1. \A base \in T : RunOf(ScanOp(X), base, <<>>) = base  BY <1>4, RunEmpty
    <3> QED  BY <1>4, <3>1, Zenon
  <2>5. <<>> \in Seq(Prints) /\ <<>> \in Seq(Seq(X)) /\ <<>> \in Seq(Seq(Printable))  OBVIOUS
  <2> HIDE DEF All, Out
  <2> QED  BY <2>1, <2>2, <2>3, <2>4, <2>5 DEF TextState
<1>8. ASSUME NEW items \in Seq(Prints), NEW x \in Prints, items \in Q
      PROVE  Append(items, x) \in Q
  <2>1. x.bytes \in Seq(X) /\ x.shows \in Seq(Printable) /\ Whole(x)  BY <1>1, PrintsAre
  <2>2. PICK a \in Seq(X), o \in Seq(Printable) : a = All(items) /\ o = Out(items)
    BY <1>6, <1>8
  <2>3. PICK bs, ss : bs = BytesOf(items) /\ ss = ShowsOf(items)  OBVIOUS
  <2>4. bs \in Seq(Seq(X)) /\ ss \in Seq(Seq(Printable))  BY <1>8, <2>3
  <2>5. /\ BytesOf(Append(items, x)) = Append(bs, x.bytes)
        /\ ShowsOf(Append(items, x)) = Append(ss, x.shows)
    BY <2>3, ItemsAppend
  <2>6. All(Append(items, x)) = a \o x.bytes
    <3>1. \A uu \in Seq(Seq(X)), u \in Seq(X) : FlattenSeq(Append(uu, u)) = FlattenSeq(uu) \o u
      BY FlattenAppend
    <3> QED  BY <2>1, <2>2, <2>3, <2>4, <2>5, <3>1, Zenon
  <2>7. Out(Append(items, x)) = o \o x.shows
    <3>1. \A uu \in Seq(Seq(Printable)), u \in Seq(Printable) :
              FlattenSeq(Append(uu, u)) = FlattenSeq(uu) \o u
      BY FlattenAppend
    <3> QED  BY <2>1, <2>2, <2>3, <2>4, <2>5, <3>1, Zenon
  <2>8. PICK ua \in Seq(X), ux \in Seq(X) : ua = Utf8Lossy(a) /\ ux = Utf8Lossy(x.bytes)
    BY <1>5, <2>1
  <2>9. Utf8Lossy(a \o x.bytes) = ua \o ux
    <3>1. \A s, t \in Seq(X) : (t # <<>> => t[1] # "A9") =>
              Utf8Lossy(s \o t) = Utf8Lossy(s) \o Utf8Lossy(t)
      BY <1>2, Utf8Concat
    <3>2. x.bytes # <<>> => x.bytes[1] # "A9"  BY <2>1 DEF Whole
    <3> QED  BY <2>1, <2>8, <3>1, <3>2
  <2>10. RunOf(ScanOp(X), TextState, ua) = [mode |-> "text", out |-> o]
    BY <1>8, <2>2, <2>8
  <2>11. RunOf(ScanOp(X), TextState, ux) = [mode |-> "text", out |-> x.shows]
    <3>1. FoldLeft(Scan, TextState, ux) = RunOf(ScanOp(X), TextState, ux)  BY <1>3, <1>4, ScanRun
    <3> QED  BY <2>1, <2>8, <3>1 DEF Whole, TextState
  <2>12. RunOf(ScanOp(X), TextState, ua \o ux)
            = RunOf(ScanOp(X), RunOf(ScanOp(X), TextState, ua), ux)
    <3>1. \A base \in T, s \in Seq(X), t \in Seq(X) :
              RunOf(ScanOp(X), base, s \o t) = RunOf(ScanOp(X), RunOf(ScanOp(X), base, s), t)
      BY <1>4, RunConcat
    <3> QED  BY <1>4, <2>8, <3>1, Zenon
  <2>13. RunOf(ScanOp(X), [mode |-> "text", out |-> o], ux) = [mode |-> "text", out |-> o \o x.shows]
    <3>1. PICK st : st = RunOf(ScanOp(X), TextState, ux)  OBVIOUS
    <3>2. RunOf(ScanOp(X), [mode |-> "text", out |-> o], ux) = [mode |-> st.mode, out |-> o \o st.out]
      BY <2>2, <2>8, <3>1, ScanAfter
    <3>3. st.mode = "text" /\ st.out = x.shows  BY <2>11, <3>1
    <3> QED  BY <3>2, <3>3
  <2>14. RunOf(ScanOp(X), TextState, Utf8Lossy(All(Append(items, x))))
            = [mode |-> "text", out |-> Out(Append(items, x))]
    BY <2>6, <2>7, <2>9, <2>10, <2>12, <2>13
  <2>15. \A uu \in Seq(Seq(X)), u \in Seq(X) : Append(uu, u) \in Seq(Seq(X))  OBVIOUS
  <2>16. \A uu \in Seq(Seq(Printable)), u \in Seq(Printable) : Append(uu, u) \in Seq(Seq(Printable))
    OBVIOUS
  <2>17. BytesOf(Append(items, x)) \in Seq(Seq(X)) /\ ShowsOf(Append(items, x)) \in Seq(Seq(Printable))
    BY <2>1, <2>4, <2>5, <2>15, <2>16
  <2>18. Append(items, x) \in Seq(Prints)  OBVIOUS
  <2> HIDE DEF All, Out
  <2> QED  BY <2>14, <2>17, <2>18
<1> HIDE DEF Q, All, Out
<1>9. \A items \in Seq(Prints) : items \in Q  BY <1>7, <1>8, ByAppend
<1>10. ASSUME NEW items \in Seq(Prints)
       PROVE  All(items) \in Seq(X) /\ Sanitize(All(items)) = Out(items)
  <2>1. items \in Q  BY <1>9
  <2>2. PICK a \in Seq(X) : a = All(items)  BY <1>6, <2>1
  <2>3. PICK ua \in Seq(X) : ua = Utf8Lossy(a)  BY <1>5
  <2>4. RunOf(ScanOp(X), TextState, ua) = [mode |-> "text", out |-> Out(items)]
    BY <2>1, <2>2, <2>3 DEF Q
  <2>5. FoldLeft(Scan, TextState, ua) = RunOf(ScanOp(X), TextState, ua)  BY <1>3, <1>4, ScanRun
  <2>6. Sanitize(a) = FoldLeft(Scan, TextState, ua).out  BY <2>3 DEF Sanitize, TextState
  <2> QED  BY <2>2, <2>4, <2>5, <2>6
<1> QED  BY <1>1, <1>10 DEF All, Out, ShowsOf, Shown

\* What was printed has been read or is to be, and the record of the run, if it
\* is made, commits to all of it.
OutputInv ==
    /\ transcript \o pty = FlattenSeq(BytesOf(printed))
    /\ \A i \in DOMAIN records : records[i].of.src = "run" =>
          /\ agent = "ended" /\ pty = <<>>
          /\ records[i].event.outputHash = Text(Sanitize(transcript))

\* A step that appends to the records, and no run.
LEMMA NoRuns ==
    ASSUME NEW new \in Seq(Made), NEW old \in Seq(Made),
           \A i \in DOMAIN new : new[i].of.src # "run"
    PROVE  \A i \in DOMAIN (old \o new) : (old \o new)[i].of.src = "run" =>
              i \in DOMAIN old /\ (old \o new)[i] = old[i]
<1> HIDE DEF Made
<1>1. PICK all : all = old \o new  OBVIOUS
<1>2. PICK n, m \in Nat : n = Len(old) /\ m = Len(new)  OBVIOUS
<1>3. /\ DOMAIN old = 1 .. n /\ DOMAIN new = 1 .. m /\ DOMAIN all = 1 .. n + m
      /\ \A i \in 1 .. n + m : all[i] = IF i <= n THEN old[i] ELSE new[i - n]
  BY <1>1, <1>2
<1> SUFFICES ASSUME NEW i \in 1 .. n + m, all[i].of.src = "run"
             PROVE  i \in DOMAIN old /\ all[i] = old[i]
  BY <1>1, <1>3
<1>4. CASE i <= n  BY <1>3, <1>4
<1>5. CASE i > n
  <2>1. i - n \in 1 .. m  BY <1>5
  <2>2. all[i] = new[i - n]  BY <1>3, <1>5
  <2> QED  BY <1>3, <2>1, <2>2
<1> QED  BY <1>4, <1>5

\* A line is not the run of the agent.
LEMMA TypedNoRun ==
    ASSUME NEW new \in Seq(Typed)
    PROVE  new \in Seq(Made) /\ \A i \in DOMAIN new : new[i].of.src # "run"
<1>1. Typed \subseteq Made  BY DEF Made
<1>2. \A r \in Typed : r.of.src # "run"
  <2> SUFFICES ASSUME NEW r \in Typed  PROVE r.of.src # "run"
    OBVIOUS
  <2>1. PICK text \in Seq(PlainWord) : r = [of |-> [src |-> "typed"], event |-> CommandSubmitted(text)]
    BY Zenon DEF Typed
  <2> QED  BY <2>1
<1> HIDE DEF Typed, Made
<1> QED  BY <1>1, <1>2

\* Nor is what hooks and the kernel report.
LEMMA ObservedNoRun ==
    \A origin, events : Observed(origin, events) =>
        \A i \in DOMAIN Of(origin, events) : Of(origin, events)[i].of.src # "run"
<1> SUFFICES ASSUME NEW origin, NEW events, Observed(origin, events),
                    NEW i \in DOMAIN Of(origin, events)
             PROVE  Of(origin, events)[i].of.src # "run"
  OBVIOUS
<1>1. origin.src # "run"  BY DEF Observed
<1>2. Of(origin, events)[i].of = origin  BY DEF Of
<1> QED  BY <1>1, <1>2

\* A session begins with nothing printed.
LEMMA InitOutput == Init => OutputInv
<1> SUFFICES ASSUME Init PROVE OutputInv  OBVIOUS
<1>1. BytesOf(printed) = <<>>  BY DEF Init, BytesOf
<1>2. transcript \o pty = <<>>  BY DEF Init
<1> QED  BY <1>1, <1>2, FlattenEmpty DEF Init, OutputInv

\* No step loses or adds output.
LEMMA OutputStep == TypeInv /\ OutputInv /\ [Next]_vars => OutputInv'
<1> SUFFICES ASSUME TypeInv, OutputInv, [Next]_vars PROVE OutputInv'  OBVIOUS
<1>1. PICK B, R : B = Seq(Symbols) /\ R = Seq(Made)  OBVIOUS
<1>2. pty \in B /\ transcript \in B /\ line \in B /\ records \in R /\ tty \in B
      /\ printed \in Seq(Prints)
  BY <1>1 DEF TypeInv
<1>3. \A i \in DOMAIN records : records[i].of.src = "run" =>
          /\ agent = "ended" /\ pty = <<>>
          /\ records[i].event.outputHash = Text(Sanitize(transcript))
  BY DEF OutputInv
<1>4. transcript \o pty = FlattenSeq(BytesOf(printed))  BY DEF OutputInv
<1>5. ASSUME UNCHANGED <<transcript, pty, printed, agent>>, records' = records  PROVE OutputInv'
  BY <1>3, <1>4, <1>5, Zenon DEF OutputInv
<1>6. ASSUME NEW new \in R, \A i \in DOMAIN new : new[i].of.src # "run",
             records' = records \o new, UNCHANGED <<transcript, pty, printed, agent>>
      PROVE  OutputInv'
  <2>1. \A i \in DOMAIN records' : records'[i].of.src = "run" =>
            i \in DOMAIN records /\ records'[i] = records[i]
    BY <1>1, <1>2, <1>6, NoRuns
  <2>2. \A i \in DOMAIN records' : records'[i].of.src = "run" =>
          /\ agent' = "ended" /\ pty' = <<>>
          /\ records'[i].event.outputHash = Text(Sanitize(transcript'))
    BY <1>3, <1>6, <2>1
  <2>3. transcript' \o pty' = FlattenSeq(BytesOf(printed'))  BY <1>4, <1>6
  <2> QED  BY <2>2, <2>3, Zenon DEF OutputInv
<1>7. ASSUME agent = "running"
      PROVE  \A i \in DOMAIN records : records[i].of.src # "run"
  BY <1>3, <1>7
<1>8. ASSUME NEW key \in Keys, Press(key)  PROVE OutputInv'
  BY <1>5, <1>8 DEF Press
<1>9. ASSUME NEW n \in 1 .. Len(tty), ReadStdin(n)  PROVE OutputInv'
  <2>1. PICK chunk \in Seq(Symbols) : chunk = SubSeq(tty, 1, n)  BY <1>1, <1>2, Chunk
  <2>2. PICK new : new = LineRecords(FoldLeft(PumpByte, [open |-> line, done |-> <<>>], chunk).done)
    OBVIOUS
  <2>3. new \in Seq(Typed)  BY <1>1, <1>2, <2>2, StdinTyped
  <2>4. records' = records \o new  BY <1>9, <2>1, <2>2, Zenon DEF ReadStdin
  <2>5. UNCHANGED <<transcript, pty, printed, agent>>  BY <1>9 DEF ReadStdin
  <2> QED  BY <1>1, <1>6, <2>3, <2>4, <2>5, TypedNoRun
<1>10. ASSUME StdinEnds  PROVE OutputInv'
  <2>1. PICK new : new = LineRecords(<<line>>)  OBVIOUS
  <2>2. new \in Seq(Typed)
    <3>1. <<>> \in Seq(Symbols)  OBVIOUS
    <3> QED  BY <1>1, <1>2, <2>1, <3>1, StdinTyped
  <2>3. records' = records \o new  BY <1>10, <2>1, Zenon DEF StdinEnds
  <2>4. UNCHANGED <<transcript, pty, printed, agent>>  BY <1>10 DEF StdinEnds
  <2> QED  BY <1>1, <1>6, <2>2, <2>3, <2>4, TypedNoRun
<1>11. ASSUME NEW item \in Prints, Show(item)  PROVE OutputInv'
  <2>1. agent = "running" /\ printed' = Append(printed, item) /\ pty' = pty \o item.bytes
        /\ transcript' = transcript /\ records' = records
    BY <1>11 DEF Show
  <2>2. item.bytes \in B /\ \A x \in Prints : x.bytes \in Seq(Symbols)  BY <1>1, PrintsAre
  <2>3. transcript' \o pty' = FlattenSeq(BytesOf(printed'))
    <3>1. BytesOf(printed') = Append(BytesOf(printed), item.bytes)  BY <1>2, <2>1, ItemsAppend
    <3>2. BytesOf(printed) \in Seq(Seq(Symbols))
      <4>1. PICK n \in Nat : DOMAIN printed = 1 .. n /\ \A i \in 1 .. n : printed[i] \in Prints
        BY <1>2
      <4>2. \A i \in 1 .. n : printed[i].bytes \in Seq(Symbols)  BY <2>2, <4>1
      <4> QED  BY <4>1, <4>2 DEF BytesOf
    <3>3. \A uu \in Seq(Seq(Symbols)), u \in Seq(Symbols) :
              FlattenSeq(Append(uu, u)) = FlattenSeq(uu) \o u
      BY FlattenAppend
    <3>4. FlattenSeq(BytesOf(printed')) = (transcript \o pty) \o item.bytes
      BY <1>1, <1>4, <2>2, <3>1, <3>2, <3>3
    <3>5. \A s, t, u \in B : (s \o t) \o u = s \o (t \o u)  BY <1>1
    <3> QED  BY <1>2, <2>1, <2>2, <3>4, <3>5, Zenon
  <2>4. \A i \in DOMAIN records' : records'[i].of.src # "run"  BY <1>7, <2>1
  <2> QED  BY <2>3, <2>4, Zenon DEF OutputInv
<1>12. ASSUME NEW n \in 1 .. Len(pty), ReadPty(n)  PROVE OutputInv'
  <2>1. PICK c, d : c = SubSeq(pty, 1, n) /\ d = SubSeq(pty, n + 1, Len(pty))  OBVIOUS
  <2>2. c \in B /\ d \in B /\ pty = c \o d  BY <1>1, <1>2, <2>1, Chunk
  <2>3. agent = "running" /\ transcript' = transcript \o c /\ pty' = d
        /\ printed' = printed /\ records' = records
    BY <1>12, <2>1, Zenon DEF ReadPty
  <2>4. \A s, t, u \in B : (s \o t) \o u = s \o (t \o u)  BY <1>1
  <2>5. transcript' \o pty' = FlattenSeq(BytesOf(printed'))
    BY <1>2, <1>4, <2>2, <2>3, <2>4, ZenonT(30)
  <2>6. \A i \in DOMAIN records' : records'[i].of.src # "run"  BY <1>7, <2>3
  <2> QED  BY <2>5, <2>6, Zenon DEF OutputInv
<1>13. ASSUME NEW status \in WaitCodes, AgentEnds(status)  PROVE OutputInv'
  <2>1. PICK text : text = Text(Sanitize(transcript))  OBVIOUS
  <2>2. PICK run : run = ProcessRun(Program, argv, text, CodeOfStatus(status))  OBVIOUS
  <2>3. PICK r : r = [of |-> [src |-> "run", status |-> status], event |-> run]  OBVIOUS
  <2>4. records' = records \o <<r>>
    <3>1. records' = records \o Of([src |-> "run", status |-> status], <<run>>)
      BY <1>13, <2>1, <2>2 DEF AgentEnds, CodeOfStatus
    <3> QED  BY <2>3, <3>1, OfOne
  <2>5. agent = "running" /\ agent' = "ended" /\ pty = <<>>
        /\ UNCHANGED <<pty, transcript, printed>>
    BY <1>13 DEF AgentEnds
  <2>6. run.outputHash = text  BY <2>2 DEF ProcessRun, Build
  <2>7. \A i \in DOMAIN records' : records'[i].of.src = "run" => records'[i] = r
    <3>1. PICK n \in Nat : n = Len(records)  BY <1>1, <1>2
    <3>2. records' = Append(records, r)
      <4>1. PICK X : X = Made \cup {r}  OBVIOUS
      <4>2. records \in Seq(X) /\ r \in X
        <5> HIDE DEF Made
        <5> QED  BY <1>1, <1>2, <4>1
      <4>3. \A s \in Seq(X), x \in X : s \o <<x>> = Append(s, x)  OBVIOUS
      <4> QED  BY <2>4, <4>2, <4>3
    <3>3. /\ DOMAIN records' = 1 .. n + 1 /\ DOMAIN records = 1 .. n
          /\ \A i \in 1 .. n : records'[i] = records[i]
          /\ records'[n + 1] = r
      <4> HIDE DEF Made
      <4> QED  BY <1>1, <1>2, <3>1, <3>2
    <3> QED  BY <1>7, <2>5, <3>3
  <2>8. \A i \in DOMAIN records' : records'[i].of.src = "run" =>
          /\ agent' = "ended" /\ pty' = <<>>
          /\ records'[i].event.outputHash = Text(Sanitize(transcript'))
    BY <2>1, <2>3, <2>5, <2>6, <2>7
  <2>9. transcript' \o pty' = FlattenSeq(BytesOf(printed'))  BY <1>4, <2>5
  <2> QED  BY <2>8, <2>9, Zenon DEF OutputInv
<1>14. ASSUME Observing  PROVE OutputInv'
  <2>1. PICK origin, events : Observed(origin, events) /\ Observe(origin, events)
    BY <1>14, Zenon DEF Observing
  <2>2. PICK new : new = Of(origin, events)  OBVIOUS
  <2>3. new \in R /\ \A i \in DOMAIN new : new[i].of.src # "run"
    BY <1>1, <2>1, <2>2, ObservedType, ObservedNoRun
  <2>4. records' = records \o new /\ UNCHANGED <<transcript, pty, printed, agent>>
    BY <2>1, <2>2 DEF Observe
  <2> QED  BY <1>6, <2>3, <2>4
<1>15. ASSUME UNCHANGED vars  PROVE OutputInv'  BY <1>5, <1>15 DEF vars
<1> QED  BY <1>8, <1>9, <1>10, <1>11, <1>12, <1>13, <1>14, <1>15, ObservingIs, Zenon
         DEF Next, Terminated

\* pump_output and wait: the output that the record of the run commits to is what
\* the agent printed for the eye, however reads split it, provided that no print ends
\* within a character or an escape sequence.
THEOREM TranscriptSafety ==
    (\A item \in Prints : Whole(item)) => (Spec => []TranscriptAsPrinted)
<1> SUFFICES ASSUME \A item \in Prints : Whole(item)  PROVE Spec => []TranscriptAsPrinted
  OBVIOUS
<1>1. TypeInv /\ OutputInv => TranscriptAsPrinted
  <2> SUFFICES ASSUME TypeInv, OutputInv, NEW i \in DOMAIN records, records[i].of.src = "run"
               PROVE  records[i].event.outputHash = Text(Shown(printed))
    BY DEF TranscriptAsPrinted
  <2>1. pty = <<>> /\ records[i].event.outputHash = Text(Sanitize(transcript))
    BY Zenon DEF OutputInv
  <2>2. transcript \in Seq(Symbols) /\ printed \in Seq(Prints)  BY DEF TypeInv
  <2>3. transcript \o <<>> = transcript  BY <2>2
  <2>4. transcript = FlattenSeq(BytesOf(printed))  BY <2>1, <2>3 DEF OutputInv
  <2>5. Sanitize(transcript) = Shown(printed)  BY <2>2, <2>4, PrintedScan
  <2> QED  BY <2>1, <2>5
<1> QED  BY <1>1, InitOutput, OutputStep, TypeSafety, PTL DEF Spec

-----------------------------------------------------------------------------
(* What the kernel reports.                                                 *)

\* More bytes leave the characters before them as they are, but for the first half
\* of one at the end.
LEMMA CharsKept ==
    ASSUME NEW X, {"eacute", "lost"} \subseteq X, NEW s \in Seq(X),
           Chars(X, s) # <<>> => Last(Chars(X, s)) # "C3"
    PROVE  \A t \in Seq(X) : \E w \in Seq(X) : Chars(X, s \o t) = Chars(X, s) \o w
<1>1. PICK a \in Seq(X) : a = Chars(X, s)  BY CharsType
<1> DEFINE Q == {t \in Seq(X) : \E w \in Seq(X) : Chars(X, s \o t) = a \o w}
<1>2. <<>> \in Q
  <2>1. s \o <<>> = s /\ a \o <<>> = a /\ <<>> \in Seq(X)  OBVIOUS
  <2> QED  BY <1>1, <2>1
<1>3. ASSUME NEW t \in Seq(X), NEW b \in X, t \in Q  PROVE Append(t, b) \in Q
  <2>1. PICK w \in Seq(X) : Chars(X, s \o t) = a \o w  BY <1>3
  <2>2. PICK st : st = s \o t  OBVIOUS
  <2>3. st \in Seq(X) /\ s \o Append(t, b) = Append(st, b)
    <3>1. \A u, v \in Seq(X) : u \o v \in Seq(X)  OBVIOUS
    <3> QED  BY <2>2, <3>1, AppendConcat
  <2>4. PICK aw : aw = a \o w  OBVIOUS
  <2>5. aw \in Seq(X)  BY <2>4
  <2>6. Chars(X, Append(st, b)) =
            IF b # "A9" THEN Append(aw, b)
            ELSE IF aw # <<>> /\ Last(aw) = "C3" THEN Append(Front(aw), "eacute")
            ELSE Append(aw, "lost")
    <3>1. Chars(X, st) = aw  BY <2>1, <2>2, <2>4
    <3> QED  BY <2>3, <3>1, CharsStep
  <2>7. \A u \in Seq(X), x \in X : a \o Append(u, x) = Append(a \o u, x) /\ Append(u, x) \in Seq(X)
    BY AppendConcat
  <2>8. \E v \in Seq(X) : Chars(X, Append(st, b)) = a \o v
    <3>1. CASE Chars(X, Append(st, b)) = Append(aw, b) \/ Chars(X, Append(st, b)) = Append(aw, "lost")
      BY <2>4, <2>7, <3>1
    <3>2. CASE aw # <<>> /\ Last(aw) = "C3" /\ Chars(X, Append(st, b)) = Append(Front(aw), "eacute")
      <4>1. w # <<>>
        <5>1. a \o <<>> = a  OBVIOUS
        <5> QED  BY <1>1, <2>4, <3>2, <5>1
      <4>2. Front(aw) = a \o Front(w)  BY <2>4, <4>1, ConcatLast
      <4>3. PICK f \in Seq(X) : f = Front(w)  BY <4>1, FrontLast
      <4>4. Chars(X, Append(st, b)) = a \o Append(f, "eacute") /\ Append(f, "eacute") \in Seq(X)
        BY <2>7, <3>2, <4>2, <4>3
      <4> QED  BY <4>4
    <3> QED  BY <2>6, <3>1, <3>2
  <2>9. Append(t, b) \in Seq(X)  OBVIOUS
  <2> QED  BY <2>3, <2>8, <2>9
<1> HIDE DEF Q
<1>4. \A t \in Seq(X) : t \in Q  BY <1>2, <1>3, ByAppend
<1> QED  BY <1>1, <1>4 DEF Q

Decoder(X) == [x \in X |-> IF x = "C3" THEN "lost" ELSE x]

\* from_utf8_lossy decodes, and then replaces what is left of cut characters.
LEMMA Utf8Mapped ==
    ASSUME NEW X, {"eacute", "lost"} \subseteq X
    PROVE  /\ Decoder(X) \in [X -> X]
           /\ \A u \in Seq(X) : Utf8Lossy(u) = Mapped(Decoder(X), Chars(X, u))
<1>1. Decoder(X) \in [X -> X]  BY DEF Decoder
<1>2. ASSUME NEW u \in Seq(X)  PROVE Utf8Lossy(u) = Mapped(Decoder(X), Chars(X, u))
  <2>1. PICK v \in Seq(X) : v = Chars(X, u)  BY CharsType
  <2>2. Utf8Lossy(u) = [i \in DOMAIN v |-> IF v[i] = "C3" THEN "lost" ELSE v[i]]
    BY <2>1, Utf8LossyRun
  <2>3. \A i \in DOMAIN v : v[i] \in X  OBVIOUS
  <2> QED  BY <2>1, <2>2, <2>3 DEF Decoder, Mapped
<1> QED  BY <1>1, <1>2

\* What is text stays the front of what more bytes make.
LEMMA ValidKept ==
    ASSUME NEW X, {"eacute", "lost"} \subseteq X
    PROVE  \A s, t \in Seq(X) : ValidUtf8(s) =>
              \E w \in Seq(X) : Utf8Lossy(s \o t) = Utf8Lossy(s) \o w
<1> SUFFICES ASSUME NEW s \in Seq(X), NEW t \in Seq(X), ValidUtf8(s)
             PROVE  \E w \in Seq(X) : Utf8Lossy(s \o t) = Utf8Lossy(s) \o w
  OBVIOUS
<1>1. PICK f : f = Decoder(X)  OBVIOUS
<1>2. f \in [X -> X] /\ \A u \in Seq(X) : Utf8Lossy(u) = Mapped(f, Chars(X, u))
  BY <1>1, Utf8Mapped
<1>3. PICK a \in Seq(X) : a = Chars(X, s)  BY CharsType
<1>4. a # <<>> => Last(a) # "C3"
  <2> SUFFICES ASSUME a # <<>>, Last(a) = "C3"  PROVE FALSE
    OBVIOUS
  <2>1. PICK n \in Nat : n = Len(a)  OBVIOUS
  <2>2. n \in DOMAIN a /\ a[n] = "C3"  BY <2>1 DEF Last
  <2>3. Mapped(f, a)[n] = "lost" /\ n \in DOMAIN Mapped(f, a)
    BY <1>1, <2>2 DEF Mapped, Decoder
  <2>4. Mapped(f, a) = Utf8Lossy(s)  BY <1>2, <1>3
  <2>5. "lost" \in Range(Utf8Lossy(s))  BY <2>3, <2>4 DEF Range
  <2> QED  BY <2>5 DEF ValidUtf8
<1>5. PICK w \in Seq(X) : Chars(X, s \o t) = a \o w  BY <1>3, <1>4, CharsKept
<1>6. s \o t \in Seq(X)  OBVIOUS
<1>7. \A u, v \in Seq(X) : Mapped(f, u \o v) = Mapped(f, u) \o Mapped(f, v)  BY ZenonT(30), <1>2, MapConcat
<1>8. Utf8Lossy(s \o t) = Mapped(f, a) \o Mapped(f, w)
  <2>1. Utf8Lossy(s \o t) = Mapped(f, Chars(X, s \o t))  BY <1>2, <1>6, Zenon
  <2> QED  BY <1>3, <1>5, <1>7, <2>1
<1>9. Mapped(f, w) \in Seq(X)
  <2>1. PICK n \in Nat : DOMAIN w = 1 .. n /\ \A i \in 1 .. n : w[i] \in X  OBVIOUS
  <2>2. \A i \in 1 .. n : f[w[i]] \in X  BY <1>2, <2>1
  <2> QED  BY <2>1, <2>2 DEF Mapped
<1>10. Mapped(f, a) = Utf8Lossy(s)  BY <1>2, <1>3
<1> QED  BY <1>8, <1>9, <1>10

\* A beginning of a sequence, as IsPrefix has it.
LEMMA PrefixIs ==
    ASSUME NEW X
    PROVE  \A s, t \in Seq(X) : IsPrefix(s, t) <=>
              Len(s) <= Len(t) /\ \A i \in 1 .. Len(s) : s[i] = t[i]
<1> SUFFICES ASSUME NEW s \in Seq(X), NEW t \in Seq(X)
             PROVE  IsPrefix(s, t) <=>
                        Len(s) <= Len(t) /\ \A i \in 1 .. Len(s) : s[i] = t[i]
  OBVIOUS
<1>1. IsPrefix(s, t) <=> Len(s) <= Len(t) /\ SubSeq(s, 1, Len(s)) = SubSeq(t, 1, Len(s))
  BY DEF IsPrefix
<1>2. PICK n \in Nat : n = Len(s)  OBVIOUS
<1>3. ASSUME n <= Len(t)
      PROVE  SubSeq(s, 1, n) = SubSeq(t, 1, n) <=> \A i \in 1 .. n : s[i] = t[i]
  <2>1. PICK u, v : u = SubSeq(s, 1, n) /\ v = SubSeq(t, 1, n)  OBVIOUS
  <2>2. u \in Seq(X) /\ Len(u) = n /\ \A i \in 1 .. n : u[i] = s[i]  BY <1>2, <2>1
  <2>3. v \in Seq(X) /\ Len(v) = n /\ \A i \in 1 .. n : v[i] = t[i]  BY <1>3, <2>1
  <2>4. (\A i \in 1 .. n : u[i] = v[i]) => u = v  BY <2>2, <2>3
  <2> QED  BY <2>1, <2>2, <2>3, <2>4
<1> QED  BY <1>1, <1>2, <1>3

\* Text without a blank at its ends, of which the front is trimmed, keeps its front.
LEMMA TrimPrefix ==
    ASSUME NEW X
    PROVE  \A c, w \in Seq(X) : Trim(c \o w) = c \o w => IsPrefix(Trim(c), c \o w)
<1> SUFFICES ASSUME NEW c \in Seq(X), NEW w \in Seq(X), Trim(c \o w) = c \o w
             PROVE  IsPrefix(Trim(c), c \o w)
  OBVIOUS
<1>1. PICK n, m \in Nat : n = Len(c) /\ m = Len(w)  OBVIOUS
<1>2. PICK p : p = c \o w  OBVIOUS
<1>3. p \in Seq(X) /\ Len(p) = n + m /\ \A i \in 1 .. n : p[i] = c[i]  BY <1>1, <1>2
<1>4. Trim(p) = p  BY <1>2
<1>5. CASE Trim(c) = <<>>
  <2>1. <<>> \in Seq(X) /\ Len(<<>>) = 0  OBVIOUS
  <2>2. PICK e \in Seq(X) : e = <<>>  BY <2>1
  <2>3. Len(e) = 0 /\ \A i \in 1 .. Len(e) : e[i] = p[i]  BY <2>1, <2>2
  <2>4. Len(e) <= Len(p)  BY <1>1, <1>3, <2>3
  <2>5. IsPrefix(e, p)  BY <1>3, <2>3, <2>4, PrefixIs, Zenon
  <2> QED  BY <1>2, <1>5, <2>2, <2>5
<1>6. CASE Trim(c) # <<>>
  <2>1. PICK a, b \in 1 .. n :
            /\ a <= b /\ Trim(c) = SubSeq(c, a, b)
            /\ c[a] \notin Blank
            /\ \A i \in 1 .. n : c[i] \notin Blank => i \in a .. b
    BY <1>1, <1>6, TrimPart
  <2>2. p # <<>>
    <3>1. Len(<<>>) = 0  OBVIOUS
    <3> QED  BY <1>3, <2>1, <3>1
  <2>3. PICK k, l \in 1 .. n + m : k <= l /\ p = SubSeq(p, k, l) /\ p[k] \notin Blank
    BY <1>3, <1>4, <2>2, TrimPart
  <2>4. Len(SubSeq(p, k, l)) = l - k + 1  BY <1>3, <2>3
  <2>5. k = 1  BY <1>3, <2>3, <2>4
  <2>6. c[1] \notin Blank  BY <1>3, <2>1, <2>3, <2>5
  <2>7. a = 1  BY <2>1, <2>6
  <2>8. PICK u : u = SubSeq(c, 1, b)  OBVIOUS
  <2>9. u \in Seq(X) /\ Len(u) = b /\ \A i \in 1 .. b : u[i] = c[i]  BY <1>1, <2>1, <2>8
  <2>10. b \in 1 .. n  BY <2>1
  <2>11. Len(u) <= Len(p) /\ \A i \in 1 .. Len(u) : u[i] = p[i]  BY SMTT(30), <1>3, <2>9, <2>10
  <2>12. IsPrefix(u, p)  BY <1>3, <2>9, <2>11, PrefixIs
  <2> QED  BY <1>2, <2>1, <2>7, <2>8, <2>12
<1> QED  BY <1>5, <1>6

ProgramOf(exec) == CStr(Copy(exec.path))

\* No bytes are no characters.
LEMMA Utf8Empty == Utf8Lossy(<<>>) = <<>>
<1>1. PICK X : X = Symbols  OBVIOUS
<1>2. {"eacute", "lost"} \subseteq X  BY <1>1 DEF Symbols
<1>3. PICK e \in Seq(X) : e = <<>>
  <2>1. <<>> \in Seq(X)  OBVIOUS
  <2> QED  BY <2>1
<1>4. Chars(X, e) = e /\ DOMAIN e = {}  BY <1>2, <1>3, CharsStep
<1>5. Utf8Lossy(e) = [i \in DOMAIN Chars(X, e) |->
                         IF Chars(X, e)[i] = "C3" THEN "lost" ELSE Chars(X, e)[i]]
  BY <1>2, Utf8LossyRun
<1>6. DOMAIN Utf8Lossy(e) = {} /\ Utf8Lossy(e) \in Seq(X)  BY <1>2, <1>4, <1>5, Utf8LossyType
<1> QED  BY <1>3, <1>6

\* No bytes leave no text.
LEMMA SanitizeEmpty == Sanitize(<<>>) = <<>>
<1>1. PICK X : X = Symbols  OBVIOUS
<1>2. {"eacute", "lost"} \subseteq X  BY <1>1 DEF Symbols
<1>3. TextState \in Scans
  <2>1. <<>> \in Seq(Printable)  OBVIOUS
  <2> QED  BY <2>1 DEF TextState, Scans
<1>4. PICK e \in Seq(X) : e = <<>>
  <2>1. <<>> \in Seq(X)  OBVIOUS
  <2> QED  BY <2>1
<1>5. Utf8Lossy(e) = e  BY <1>4, Utf8Empty
<1>6. RunOf(ScanOp(X), TextState, e) = TextState
  <2>1. PICK T : T = Scans  OBVIOUS
  <2>2. ScanOp(X) \in [X -> [T -> T]]  BY <2>1, ScanType
  <2>3. \A base \in T : RunOf(ScanOp(X), base, <<>>) = base  BY <2>2, RunEmpty
  <2> QED  BY <1>3, <1>4, <2>1, <2>3
<1>7. FoldLeft(Scan, TextState, e) = TextState  BY <1>3, <1>6, ScanRun
<1>8. Sanitize(e) = TextState.out  BY <1>5, <1>7 DEF Sanitize, TextState
<1> QED  BY <1>4, <1>8 DEF TextState

\* An empty text has nothing to trim.
LEMMA TrimEmpty == Trim(<<>>) = <<>>
BY DEF Trim

\* The program of a record is the front of the path, or all of a path that fits.
LEMMA ProgramIs ==
    ASSUME NEW exec \in Execs, exec.path.readable => Unblanked(exec)
    PROVE  /\ IsPrefix(ProgramOf(exec), Utf8Lossy(exec.path.bytes))
           /\ Fits(exec.path) =>
                 ProgramOf(exec) # <<>> /\ ProgramOf(exec) = Utf8Lossy(exec.path.bytes)
<1>1. PICK X : X = Symbols \cup Bytes  OBVIOUS
<1>2. {"eacute", "lost"} \subseteq X  BY <1>1 DEF Symbols
<1>3. exec.path \in Strings  BY CaptureAssumption DEF Strings
<1>4. PICK bytes \in Seq(X) : bytes = exec.path.bytes
  <2>1. exec.path.bytes \in Seq(Bytes)  BY <1>3 DEF Strings
  <2>2. Bytes \subseteq X  BY <1>1
  <2>3. Seq(Bytes) \subseteq Seq(X)
    <3> HIDE DEF Bytes
    <3> QED  BY <2>2
  <2> QED  BY <2>1, <2>3
<1>5. PICK p \in Seq(X) : p = Utf8Lossy(bytes)  BY <1>2, Utf8LossyType
<1>6. <<>> \in Seq(X) /\ IsPrefix(<<>>, p)
  <2>1. PICK e \in Seq(X) : e = <<>>
    <3>1. <<>> \in Seq(X)  OBVIOUS
    <3> QED  BY <3>1
  <2>2. Len(e) = 0 /\ \A i \in 1 .. Len(e) : e[i] = p[i]  BY <2>1
  <2>3. PICK k \in Nat : k = Len(p)  OBVIOUS
  <2>4. Len(e) <= Len(p)  BY <2>2, <2>3
  <2>5. IsPrefix(e, p)  BY <2>2, <2>4, PrefixIs, Zenon
  <2> QED  BY <2>1, <2>5
<1>7. CASE ~exec.path.readable
  <2>1. Copy(exec.path) = <<>>  BY <1>7 DEF Copy
  <2>4. ProgramOf(exec) = <<>>  BY <2>1, Utf8Empty, TrimEmpty DEF ProgramOf, CStr
  <2>5. ~Fits(exec.path)  BY <1>7 DEF Fits
  <2> QED  BY <1>4, <1>5, <1>6, <2>4, <2>5
<1>8. CASE exec.path.readable
  <2>1. Trim(p) = p  BY <1>4, <1>5, <1>8 DEF Unblanked
  <2>2. PICK k \in 0 .. Len(bytes) :
            /\ Copy(exec.path) = SubSeq(bytes, 1, k)
            /\ Len(bytes) < Slot => k = Len(bytes)
    BY <1>3, <1>4, <1>8, CopyType
  <2>3. PICK s, r : s = SubSeq(bytes, 1, k) /\ r = SubSeq(bytes, k + 1, Len(bytes))  OBVIOUS
  <2>4. s \in Seq(X) /\ r \in Seq(X) /\ bytes = s \o r /\ (k = Len(bytes) => s = bytes)
    <3>1. \A u \in Seq(X) : \A n \in 0 .. Len(u) :
              /\ SubSeq(u, 1, n) \in Seq(X) /\ SubSeq(u, n + 1, Len(u)) \in Seq(X)
              /\ u = SubSeq(u, 1, n) \o SubSeq(u, n + 1, Len(u))
      <4> SUFFICES ASSUME NEW u \in Seq(X), NEW n \in 0 .. Len(u)
                   PROVE  /\ SubSeq(u, 1, n) \in Seq(X) /\ SubSeq(u, n + 1, Len(u)) \in Seq(X)
                          /\ u = SubSeq(u, 1, n) \o SubSeq(u, n + 1, Len(u))
        OBVIOUS
      <4>1. CASE n = 0
        <5>1. SubSeq(u, 1, 0) = <<>> /\ SubSeq(u, 1, Len(u)) = u /\ <<>> \o u = u
              /\ <<>> \in Seq(X)
          OBVIOUS
        <5> QED  BY <4>1, <5>1
      <4>2. CASE n \in 1 .. Len(u)  BY <4>2, Chunk
      <4>3. n = 0 \/ n \in 1 .. Len(u)
        <5>1. PICK l \in Nat : l = Len(u)  OBVIOUS
        <5> QED  BY <5>1
      <4> QED  BY <4>1, <4>2, <4>3, Zenon
    <3>2. \A u \in Seq(X) : SubSeq(u, 1, Len(u)) = u  OBVIOUS
    <3> QED  BY <2>3, <3>1, <3>2, Zenon
  <2>5. ProgramOf(exec) = IF ValidUtf8(s) THEN Trim(Utf8Lossy(s)) ELSE <<>>
    BY <2>2, <2>3 DEF ProgramOf, CStr
  <2>6. IsPrefix(ProgramOf(exec), p)
    <3>1. CASE ~ValidUtf8(s)  BY <1>6, <2>5, <3>1
    <3>2. CASE ValidUtf8(s)
      <4>1. PICK c \in Seq(X) : c = Utf8Lossy(s)  BY <1>2, <2>4, Utf8LossyType
      <4>2. PICK w \in Seq(X) : Utf8Lossy(s \o r) = Utf8Lossy(s) \o w
        BY <1>2, <2>4, <3>2, ValidKept
      <4>3. p = c \o w  BY <1>5, <2>4, <4>1, <4>2
      <4>4. IsPrefix(Trim(c), c \o w)  BY <2>1, <4>3, TrimPrefix
      <4> QED  BY <2>5, <3>2, <4>1, <4>3, <4>4
    <3> QED  BY <3>1, <3>2
  <2>7. ASSUME Fits(exec.path)  PROVE ProgramOf(exec) # <<>> /\ ProgramOf(exec) = p
    <3>1. Len(bytes) < Slot /\ CleanLine(bytes) # <<>> /\ ValidUtf8(bytes)
      BY <1>4, <2>7 DEF Fits
    <3>2. s = bytes  BY <2>2, <2>4, <3>1
    <3>3. ProgramOf(exec) = p  BY <1>5, <2>1, <2>5, <3>1, <3>2
    <3>4. p # <<>>
      <4> SUFFICES ASSUME p = <<>>  PROVE FALSE
        OBVIOUS
      <4>1. Sanitize(bytes) = <<>>
        <5>1. Sanitize(bytes) = Sanitize(<<>>)  BY <1>5, Utf8Empty DEF Sanitize
        <5> QED  BY <5>1, SanitizeEmpty
      <4>2. CleanLine(bytes) = <<>>  BY <4>1, TrimEmpty DEF CleanLine
      <4> QED  BY <3>1, <4>2
    <3> QED  BY <3>3, <3>4
  <2> QED  BY <1>4, <1>5, <2>6, <2>7
<1> QED  BY <1>7, <1>8

Recorded(x) == \E j \in DOMAIN records : records[j].of = x

\* What was observed and leaves a record has one.
KernelInv ==
    \A i \in DOMAIN observed :
        /\ observed[i].src = "exec" /\ ProgramOf(observed[i].what) # <<>> => Recorded(observed[i])
        /\ observed[i].src = "connect" /\ Connectable(observed[i].what) => Recorded(observed[i])

\* The records grow at the end.
LEMMA Grows ==
    ASSUME NEW new \in Seq(Made), records \in Seq(Made), records' = records \o new
    PROVE  /\ \A x : Recorded(x) => Recorded(x)'
           /\ \A k \in DOMAIN new : Recorded(new[k].of)'
<1> HIDE DEF Made
<1>1. PICK n, m \in Nat : n = Len(records) /\ m = Len(new)  OBVIOUS
<1>2. PICK all : all = records \o new  OBVIOUS
<1>3. /\ DOMAIN records = 1 .. n /\ DOMAIN new = 1 .. m /\ DOMAIN all = 1 .. n + m
      /\ \A i \in 1 .. n : all[i] = records[i]
      /\ \A i \in 1 .. m : all[n + i] = new[i]
  BY <1>1, <1>2
<1>4. \A i \in 1 .. n : i \in 1 .. n + m  OBVIOUS
<1>5. \A i \in 1 .. m : n + i \in 1 .. n + m  OBVIOUS
<1>6. records' = all  BY <1>2
<1>7. ASSUME NEW x, Recorded(x)  PROVE Recorded(x)'
  <2>1. PICK j \in 1 .. n : records[j].of = x  BY <1>3, <1>7 DEF Recorded
  <2>2. j \in DOMAIN records' /\ records'[j].of = x  BY <1>3, <1>4, <1>6, <2>1
  <2> QED  BY <2>2, Zenon DEF Recorded
<1>8. ASSUME NEW k \in DOMAIN new  PROVE Recorded(new[k].of)'
  <2>1. n + k \in DOMAIN records' /\ records'[n + k].of = new[k].of  BY <1>3, <1>5, <1>6
  <2> QED  BY <2>1, Zenon DEF Recorded
<1> QED  BY <1>7, <1>8

\* A session begins with nothing observed.
LEMMA InitKernel == Init => KernelInv
BY DEF Init, KernelInv

\* What is observed is recorded in the same step, and stays so.
LEMMA KernelStep == TypeInv /\ KernelInv /\ [Next]_vars => KernelInv'
<1> SUFFICES ASSUME TypeInv, KernelInv, [Next]_vars PROVE KernelInv'  OBVIOUS
<1>1. PICK R, O : R = Seq(Made) /\ O = Seq(Origins)  OBVIOUS
<1>2. records \in R /\ observed \in O  BY <1>1 DEF TypeInv
<1>3. ASSUME NEW new \in R, records' = records \o new, observed' = observed  PROVE KernelInv'
  <2>1. \A x : Recorded(x) => Recorded(x)'  BY <1>1, <1>2, <1>3, Grows
  <2> QED  BY <1>3, <2>1, Zenon DEF KernelInv
<1>4. ASSUME records' = records, observed' = observed  PROVE KernelInv'
  <2>1. \A x : Recorded(x) => Recorded(x)'  BY <1>4 DEF Recorded
  <2> QED  BY <1>4, <2>1, Zenon DEF KernelInv
<1>5. ASSUME NEW n \in 1 .. Len(tty), ReadStdin(n)  PROVE KernelInv'
  <2>1. tty \in Seq(Symbols) /\ line \in Seq(Symbols)  BY DEF TypeInv
  <2>2. PICK chunk \in Seq(Symbols) : chunk = SubSeq(tty, 1, n)  BY <2>1, Chunk
  <2>3. PICK new : new = LineRecords(FoldLeft(PumpByte, [open |-> line, done |-> <<>>], chunk).done)
    OBVIOUS
  <2>4. new \in R  BY <1>1, <2>1, <2>3, StdinType
  <2>5. records' = records \o new /\ observed' = observed
    BY <1>5, <2>2, <2>3, Zenon DEF ReadStdin
  <2> QED  BY <1>3, <2>4, <2>5
<1>6. ASSUME StdinEnds  PROVE KernelInv'
  <2>1. line \in Seq(Symbols) /\ <<>> \in Seq(Symbols)  BY DEF TypeInv
  <2>2. LineRecords(<<line>>) \in R  BY <1>1, <2>1, StdinType
  <2> QED  BY <1>3, <1>6, <2>2 DEF StdinEnds
<1>7. ASSUME NEW status \in WaitCodes, AgentEnds(status)  PROVE KernelInv'
  <2>1. PICK r : r = [of |-> [src |-> "run", status |-> status],
                      event |-> ProcessRun(Program, argv, Text(Sanitize(transcript)),
                                           CodeOfStatus(status))]
    OBVIOUS
  <2>2. records' = records \o <<r>>
    <3>1. records' = records \o Of([src |-> "run", status |-> status],
                                   <<ProcessRun(Program, argv, Text(Sanitize(transcript)),
                                                CodeOfStatus(status))>>)
      BY <1>7, Zenon DEF AgentEnds, CodeOfStatus
    <3> QED  BY <2>1, <3>1, OfOne
  <2>3. r \in Made
    <3>1. argv \in CommandLines /\ transcript \in Seq(Symbols)  BY DEF TypeInv
    <3>2. PICK text \in Seq(PlainWord) : text = Text(Sanitize(transcript))
      BY <3>1, TranscriptType
    <3> QED  BY <2>1, <3>1, <3>2 DEF Made, Ran
  <2>4. <<r>> \in R
    <3> HIDE DEF Made
    <3> QED  BY <1>1, <2>3
  <2>5. observed' = observed  BY <1>7 DEF AgentEnds
  <2> QED  BY <1>3, <2>2, <2>4, <2>5
<1>8. ASSUME Observing  PROVE KernelInv'
  <2>1. PICK origin, events : Observed(origin, events) /\ Observe(origin, events)
    BY <1>8, Zenon DEF Observing
  <2>2. PICK new : new = Of(origin, events)  OBVIOUS
  <2>3. new \in R /\ records' = records \o new  BY <1>1, <2>1, <2>2, ObservedType DEF Observe
  <2>4. (\A x : Recorded(x) => Recorded(x)') /\ \A k \in DOMAIN new : Recorded(new[k].of)'
    BY <1>1, <1>2, <2>3, Grows
  <2>5. DOMAIN new = DOMAIN events /\ \A k \in DOMAIN new : new[k].of = origin  BY <2>2 DEF Of
  <2>6. origin.src = "exec" /\ ProgramOf(origin.what) # <<>> => Recorded(origin)'
    <3> SUFFICES ASSUME origin.src = "exec", ProgramOf(origin.what) # <<>>
                 PROVE  Recorded(origin)'
      OBVIOUS
    <3>1. PICK exec \in Execs : origin = [src |-> "exec", what |-> exec] /\ events = ExecRecords(exec)
      BY <2>1 DEF Observed
    <3>2. PICK event : events = <<event>>
      <4>1. CStr(Copy(exec.path)) # <<>>  BY <3>1 DEF ProgramOf
      <4> QED  BY <4>1, <3>1, ExecIs
    <3>3. 1 \in DOMAIN new  BY <2>5, <3>2
    <3> QED  BY <2>4, <2>5, <3>3
  <2>7. origin.src = "connect" /\ Connectable(origin.what) => Recorded(origin)'
    <3> SUFFICES ASSUME origin.src = "connect", Connectable(origin.what)
                 PROVE  Recorded(origin)'
      OBVIOUS
    <3>1. PICK address \in Connects :
              origin = [src |-> "connect", what |-> address] /\ events = ConnectRecords(address)
      BY <2>1 DEF Observed
    <3>2. events = <<KernelConnect(<<Plain(address.host)>>)>>
      BY <3>1 DEF Connectable, ConnectRecords
    <3>3. 1 \in DOMAIN new
      <4>1. PICK event : event = KernelConnect(<<Plain(address.host)>>)  OBVIOUS
      <4>2. events = <<event>>  BY <3>2, <4>1
      <4> QED  BY <2>5, <4>2
    <3> QED  BY <2>4, <2>5, <3>3
  <2>8. ASSUME NEW i \in DOMAIN observed'
        PROVE  (i \in DOMAIN observed /\ observed'[i] = observed[i]) \/ observed'[i] = origin
    <3>1. PICK k \in Nat : k = Len(observed)  BY <1>1, <1>2
    <3>2. origin \in Origins  BY <2>1 DEF Observed, Origins
    <3>3. observed' = Append(observed, origin)  BY <2>1 DEF Observe
    <3>4. /\ DOMAIN observed' = 1 .. k + 1 /\ DOMAIN observed = 1 .. k
          /\ \A j \in 1 .. k : observed'[j] = observed[j]
          /\ observed'[k + 1] = origin
      <4> HIDE DEF Origins
      <4> QED  BY <1>1, <1>2, <3>1, <3>2, <3>3
    <3>5. i \in 1 .. k \/ i = k + 1  BY <3>4
    <3> QED  BY <3>4, <3>5
  <2> QED  BY <2>4, <2>6, <2>7, <2>8, Zenon DEF KernelInv
<1>9. ASSUME NEW key \in Keys, Press(key)  PROVE KernelInv'  BY <1>4, <1>9 DEF Press
<1>10. ASSUME NEW item \in Prints, Show(item)  PROVE KernelInv'  BY <1>4, <1>10 DEF Show
<1>11. ASSUME NEW n \in 1 .. Len(pty), ReadPty(n)  PROVE KernelInv'  BY <1>4, <1>11 DEF ReadPty
<1>12. ASSUME UNCHANGED vars  PROVE KernelInv'  BY <1>4, <1>12 DEF vars
<1> QED  BY <1>5, <1>6, <1>7, <1>8, <1>9, <1>10, <1>11, <1>12, ObservingIs, Zenon
         DEF Next, Terminated

\* A record of an exec or a connect names what it is of.
LEMMA KernelRecord ==
    ASSUME NEW r \in Made
    PROVE  /\ r.of.src = "exec" => r.event.tool = ProgramOf(r.of.what)
           /\ r.of.src = "connect" => Connectable(r.of.what)
<1>1. CASE r \in Typed
  <2>1. PICK text \in Seq(PlainWord) : r = [of |-> [src |-> "typed"], event |-> CommandSubmitted(text)]
    BY <1>1, Zenon DEF Typed
  <2> QED  BY <2>1
<1>2. CASE r \in Ran
  <2>1. PICK status \in WaitCodes, args \in CommandLines, text \in Seq(PlainWord) :
            r = [of |-> [src |-> "run", status |-> status],
                 event |-> ProcessRun(Program, args, text, CodeOfStatus(status))]
    BY <1>2 DEF Ran
  <2> QED  BY <2>1
<1>3. CASE r \in Hooked
  <2>1. PICK call \in {c \in Calls : Recordable(c.id, c.payload)} :
            r = [of |-> [src |-> "hook", what |-> call], event |-> HookRecord(call.id, call.payload)]
    BY <1>3, Zenon DEF Hooked
  <2> QED  BY <2>1
<1>4. CASE r \in Executed
  <2>1. PICK exec \in Execs, text \in Seq(PlainWord) :
            r = [of |-> [src |-> "exec", what |-> exec],
                 event |-> KernelExec(CStr(Copy(exec.path)), text)]
    BY <1>4 DEF Executed
  <2>2. r.of.src = "exec" /\ r.of.what = exec /\ r.event = KernelExec(ProgramOf(exec), text)
    BY <2>1 DEF ProgramOf
  <2>3. r.event.tool = ProgramOf(exec)  BY <2>2 DEF KernelExec, Build
  <2> QED  BY <2>2, <2>3
<1>5. CASE r \in Connected
  <2>1. PICK address \in {a \in Connects : Connectable(a)} :
            r = [of |-> [src |-> "connect", what |-> address],
                 event |-> KernelConnect(<<Plain(address.host)>>)]
    BY <1>5, Zenon DEF Connected
  <2> QED  BY <2>1
<1> QED  BY <1>1, <1>2, <1>3, <1>4, <1>5, Zenon DEF Made

\* The eBPF slots and the reader: every program is recorded under its path or,
\* if that does not fit, under a beginning of it; and every connection to an
\* internet address that can be read, no other. A path with a blank at an end is
\* recorded without it.
THEOREM KernelSafety ==
    (\A exec \in Execs : exec.path.readable => Unblanked(exec)) => (Spec => []KernelComplete)
<1> SUFFICES ASSUME \A exec \in Execs : exec.path.readable => Unblanked(exec)
             PROVE  Spec => []KernelComplete
  OBVIOUS
<1>1. TypeInv /\ KernelInv => KernelComplete
  <2> SUFFICES ASSUME TypeInv, KernelInv, NEW i \in DOMAIN observed
               PROVE  LET x == observed[i]
                          made == {j \in DOMAIN records : records[j].of = x}
                      IN  CASE x.src = "exec" ->
                                  /\ Fits(x.what.path) => made # {} /\
                                        \A j \in made : records[j].event.tool = Utf8Lossy(x.what.path.bytes)
                                  /\ \A j \in made : IsPrefix(records[j].event.tool, Utf8Lossy(x.what.path.bytes))
                            [] x.src = "connect" ->
                                  made # {} <=> x.what.family \in {"inet", "inet6"} /\ x.what.readable
                            [] OTHER -> TRUE
    BY Zenon DEF KernelComplete
  <2>1. PICK x : x = observed[i]  OBVIOUS
  <2>2. PICK made : made = {j \in DOMAIN records : records[j].of = x}  OBVIOUS
  <2>3. x \in Origins
    <3> HIDE DEF Origins
    <3> QED  BY <2>1 DEF TypeInv
  <2>4. made # {} <=> Recorded(x)  BY <2>2 DEF Recorded
  <2>5. \A j \in made : /\ records[j].of = x
                        /\ x.src = "exec" => records[j].event.tool = ProgramOf(x.what)
                        /\ x.src = "connect" => Connectable(x.what)
    BY <2>2, RecordsMade, KernelRecord
  <2>6. CASE x.src = "exec"
    <3>1. x.what \in Execs  BY <2>3, <2>6 DEF Origins
    <3>2. PICK path : path = Utf8Lossy(x.what.path.bytes)  OBVIOUS
    <3>3. /\ IsPrefix(ProgramOf(x.what), path)
          /\ Fits(x.what.path) => ProgramOf(x.what) # <<>> /\ ProgramOf(x.what) = path
      BY <3>1, <3>2, ProgramIs
    <3>4. ProgramOf(x.what) # <<>> => made # {}  BY <2>1, <2>4, <2>6 DEF KernelInv
    <3>5. /\ Fits(x.what.path) => made # {} /\ \A j \in made : records[j].event.tool = path
          /\ \A j \in made : IsPrefix(records[j].event.tool, path)
      BY <2>5, <2>6, <3>3, <3>4
    <3> QED  BY <2>1, <2>2, <2>6, <3>2, <3>5
  <2>7. CASE x.src = "connect"
    <3>1. Connectable(x.what) => made # {}  BY <2>1, <2>4, <2>7 DEF KernelInv
    <3>2. made # {} => Connectable(x.what)  BY <2>5, <2>7
    <3> QED  BY <2>1, <2>2, <2>7, <3>1, <3>2 DEF Connectable
  <2>8. CASE x.src # "exec" /\ x.src # "connect"  BY <2>1, <2>8
  <2> QED  BY <2>6, <2>7, <2>8
<1> QED  BY <1>1, InitKernel, KernelStep, TypeSafety, PTL DEF Spec

-----------------------------------------------------------------------------
(* What is typed.                                                           *)

\* The bytes are whole characters, and the text is what they show.
Sees(bytes, text) ==
    /\ bytes \in Seq(Symbols)
    /\ FoldLeft(Scan, TextState, Utf8Lossy(bytes)) = [mode |-> "text", out |-> text]

\* A line that is seen is cleaned to what is seen of it, trimmed.
LEMMA SeesIs ==
    ASSUME NEW bytes, NEW text, Sees(bytes, text)
    PROVE  text \in Seq(Printable) /\ CleanLine(bytes) = Trim(text)
<1>1. PICK X : X = Symbols  OBVIOUS
<1>2. {"eacute", "lost"} \subseteq X  BY <1>1 DEF Symbols
<1>3. PICK u \in Seq(X) : u = Utf8Lossy(bytes)  BY <1>1, <1>2, Utf8LossyType DEF Sees
<1>4. TextState \in Scans
  <2>1. <<>> \in Seq(Printable)  OBVIOUS
  <2> QED  BY <2>1 DEF TextState, Scans
<1>5. FoldLeft(Scan, TextState, u) \in Scans
  <2>1. FoldLeft(Scan, TextState, u) = RunOf(ScanOp(X), TextState, u)  BY <1>4, ScanRun
  <2>2. PICK T : T = Scans  OBVIOUS
  <2>3. ScanOp(X) \in [X -> [T -> T]]  BY <2>2, ScanType
  <2>4. \A base \in T, s \in Seq(X) : RunOf(ScanOp(X), base, s) \in T  BY <2>3, RunType
  <2> QED  BY <1>4, <2>1, <2>2, <2>4
<1>6. PICK st : st = FoldLeft(Scan, TextState, u)  OBVIOUS
<1>7. st.out \in Seq(Printable)  BY <1>5, <1>6 DEF Scans
<1>8. st = [mode |-> "text", out |-> text]  BY <1>3, <1>6 DEF Sees
<1>9. Sanitize(bytes) = st.out  BY <1>3, <1>6 DEF Sanitize, TextState
<1> QED  BY <1>7, <1>8, <1>9 DEF CleanLine

\* Nothing is seen of nothing.
LEMMA SeesNothing == Sees(<<>>, <<>>)
<1>1. PICK X : X = Symbols  OBVIOUS
<1>2. TextState \in Scans
  <2>1. <<>> \in Seq(Printable)  OBVIOUS
  <2> QED  BY <2>1 DEF TextState, Scans
<1>3. PICK e \in Seq(X) : e = <<>>
  <2>1. <<>> \in Seq(X)  OBVIOUS
  <2> QED  BY <2>1
<1>4. Utf8Lossy(e) = e  BY <1>3, Utf8Empty
<1>5. RunOf(ScanOp(X), TextState, e) = TextState
  <2>1. PICK T : T = Scans  OBVIOUS
  <2>2. ScanOp(X) \in [X -> [T -> T]]  BY <2>1, ScanType
  <2>3. \A base \in T : RunOf(ScanOp(X), base, <<>>) = base  BY <2>2, RunEmpty
  <2> QED  BY <1>2, <1>3, <2>1, <2>3
<1>6. FoldLeft(Scan, TextState, e) = TextState  BY <1>2, <1>5, ScanRun
<1>7. Sees(e, <<>>)  BY <1>1, <1>4, <1>6 DEF Sees, TextState
<1> QED  BY <1>3, <1>7

\* Whole characters after whole characters.
LEMMA SeesMore ==
    ASSUME NEW bytes, NEW text, Sees(bytes, text), NEW more, NEW looks, Sees(more, looks),
           more # <<>> => more[1] # "A9"
    PROVE  Sees(bytes \o more, text \o looks)
<1>1. PICK X : X = Symbols  OBVIOUS
<1>2. {"eacute", "lost"} \subseteq X  BY <1>1 DEF Symbols
<1>3. PICK T : T = Scans  OBVIOUS
<1>4. TextState \in T /\ ScanOp(X) \in [X -> [T -> T]]
  <2>1. <<>> \in Seq(Printable)  OBVIOUS
  <2> QED  BY <1>3, <2>1, ScanType DEF Scans, TextState
<1>5. bytes \in Seq(X) /\ more \in Seq(X)  BY <1>1 DEF Sees
<1>6. text \in Seq(Printable)  BY SeesIs
<1>7. PICK u \in Seq(X), w \in Seq(X) : u = Utf8Lossy(bytes) /\ w = Utf8Lossy(more)
  <2>1. \A s \in Seq(X) : Utf8Lossy(s) \in Seq(X)  BY <1>2, Utf8LossyType
  <2> QED  BY <1>5, <2>1
<1>8. Utf8Lossy(bytes \o more) = u \o w
  <2>1. \A s, t \in Seq(X) : (t # <<>> => t[1] # "A9") =>
            Utf8Lossy(s \o t) = Utf8Lossy(s) \o Utf8Lossy(t)
    BY <1>2, Utf8Concat
  <2> QED  BY <1>5, <1>7, <2>1
<1>9. \A s \in Seq(X) : FoldLeft(Scan, TextState, s) = RunOf(ScanOp(X), TextState, s)
  BY <1>3, <1>4, ScanRun
<1>10. RunOf(ScanOp(X), TextState, u) = [mode |-> "text", out |-> text]
  BY <1>7, <1>9 DEF Sees
<1>11. PICK st : st = RunOf(ScanOp(X), TextState, w)  OBVIOUS
<1>12. st.mode = "text" /\ st.out = looks
  <2>1. st = [mode |-> "text", out |-> looks]  BY <1>7, <1>9, <1>11 DEF Sees
  <2> QED  BY <2>1
<1>13. RunOf(ScanOp(X), TextState, u \o w) = RunOf(ScanOp(X), RunOf(ScanOp(X), TextState, u), w)
  <2>1. \A base \in T, s \in Seq(X), t \in Seq(X) :
            RunOf(ScanOp(X), base, s \o t) = RunOf(ScanOp(X), RunOf(ScanOp(X), base, s), t)
    BY <1>4, RunConcat
  <2> QED  BY <1>4, <1>7, <2>1, Zenon
<1>14. RunOf(ScanOp(X), [mode |-> "text", out |-> text], w)
          = [mode |-> st.mode, out |-> text \o st.out]
  BY <1>6, <1>7, <1>11, ScanAfter
<1>15. PICK uw \in Seq(X) : uw = u \o w
  <2>1. u \o w \in Seq(X)  BY <1>7
  <2> QED  BY <2>1
<1>16. FoldLeft(Scan, TextState, uw) = [mode |-> "text", out |-> text \o looks]
  BY <1>9, <1>10, <1>12, <1>13, <1>14, <1>15
<1>17. bytes \o more \in Seq(X)  BY <1>5
<1> QED  BY <1>1, <1>8, <1>15, <1>16, <1>17 DEF Sees

\* The bytes that are characters by themselves.
Alone == (Final \cup {"SP", "TAB"}) \cap Symbols

\* Such a byte is seen.
LEMMA SeesOne == \A c \in Alone : Sees(<<c>>, <<c>>)
<1> SUFFICES ASSUME NEW c \in Alone  PROVE Sees(<<c>>, <<c>>)  OBVIOUS
<1>1. PICK X : X = Symbols  OBVIOUS
<1>2. {"eacute", "lost"} \subseteq X /\ c \in X  BY <1>1 DEF Symbols, Alone
<1>3. PICK P : P = Printable  OBVIOUS
<1>4. c \in P /\ c # "A9" /\ c # "C3" /\ c # "ESC"
  BY <1>3 DEF Alone, Printable, Final, Halves, Blank
<1>5. PICK one : one = <<c>>  OBVIOUS
<1>6. one \in Seq(X) /\ one \in Seq(P) /\ DOMAIN one = {1} /\ one[1] = c /\ one = Append(<<>>, c)
  <2>1. <<c>> = Append(<<>>, c)  OBVIOUS
  <2> QED  BY <1>2, <1>4, <1>5, <2>1
<1>7. Chars(X, one) = one
  <2>1. <<>> \in Seq(X)  OBVIOUS
  <2>2. PICK e \in Seq(X) : e = <<>>  BY <2>1
  <2>3. Chars(X, e) = e  BY <1>2, <2>2, CharsStep
  <2>4. Chars(X, Append(e, c)) = Append(e, c)  BY <1>2, <1>4, <2>3, CharsStep
  <2> QED  BY <1>6, <2>2, <2>4
<1>8. Utf8Lossy(one) = one
  <2>1. Utf8Lossy(one) = [i \in DOMAIN one |-> IF one[i] = "C3" THEN "lost" ELSE one[i]]
    <3>1. one \in Seq(X)  BY <1>6
    <3>2. Utf8Lossy(one) = [i \in DOMAIN Chars(X, one) |->
                               IF Chars(X, one)[i] = "C3" THEN "lost" ELSE Chars(X, one)[i]]
      BY <1>2, <3>1, Utf8LossyRun
    <3> QED  BY <1>7, <3>2, Zenon
  <2>2. \A i \in DOMAIN one : (IF one[i] = "C3" THEN "lost" ELSE one[i]) = one[i]  BY <1>4, <1>6
  <2>3. one = [i \in DOMAIN one |-> one[i]]  BY <1>6
  <2> QED  BY <2>1, <2>2, <2>3
<1>9. PICK T : T = Scans  OBVIOUS
<1>10. TextState \in T /\ ScanOp(X) \in [X -> [T -> T]]
  <2>1. <<>> \in Seq(Printable)  OBVIOUS
  <2> QED  BY <1>9, <2>1, ScanType DEF Scans, TextState
<1>11. RunOf(ScanOp(X), TextState, one) = ScanOp(X)[c][TextState]
  <2>1. \A base \in T, s \in Seq(X), x \in X :
            RunOf(ScanOp(X), base, Append(s, x)) = ScanOp(X)[x][RunOf(ScanOp(X), base, s)]
    BY <1>10, RunAppend
  <2>2. \A base \in T : RunOf(ScanOp(X), base, <<>>) = base  BY <1>10, RunEmpty
  <2>3. <<>> \in Seq(X)  OBVIOUS
  <2> QED  BY <1>2, <1>6, <1>10, <2>1, <2>2, <2>3, Zenon
<1>12. ScanOp(X)[c][TextState] = Scan(TextState, c)  BY <1>2, <1>9, <1>10 DEF ScanOp
<1>13. Scan(TextState, c) = [mode |-> "text", out |-> one]
  <2>1. Scan(TextState, c) = [mode |-> Goes("text", c), out |-> <<>> \o Adds("text", c)]
    BY <1>9, <1>10, ScanIs DEF TextState
  <2>2. Goes("text", c) = "text"  BY <1>4 DEF Goes
  <2>3. Adds("text", c) = one  BY <1>3, <1>4, <1>5 DEF Adds
  <2>4. <<>> \o one = one  BY <1>6
  <2> QED  BY <2>1, <2>2, <2>3, <2>4
<1>14. FoldLeft(Scan, TextState, one) = [mode |-> "text", out |-> one]
  BY <1>6, <1>9, <1>10, <1>11, <1>12, <1>13, ScanRun
<1> QED  BY <1>1, <1>5, <1>6, <1>8, <1>14 DEF Sees

\* They are seen behind whatever is seen.
LEMMA SeesAlone ==
    ASSUME NEW bytes, NEW text, Sees(bytes, text)
    PROVE  \A w \in Seq(Alone) : Sees(bytes \o w, text \o w)
<1>1. PICK X, P : X = Symbols /\ P = Printable  OBVIOUS
<1>2. Alone \subseteq X /\ Alone \subseteq P /\ "A9" \notin Alone
  BY <1>1 DEF Alone, Printable, Blank, Final, Halves
<1>3. bytes \in Seq(X) /\ text \in Seq(P)  BY <1>1, SeesIs DEF Sees
<1> DEFINE Q == {w \in Seq(Alone) : Sees(bytes \o w, text \o w)}
<1> HIDE DEF Alone
<1>4. <<>> \in Q
  <2>1. <<>> \in Seq(Alone) /\ bytes \o <<>> = bytes /\ text \o <<>> = text  BY <1>3
  <2> QED  BY <2>1
<1>5. ASSUME NEW w \in Seq(Alone), NEW c \in Alone, w \in Q  PROVE Append(w, c) \in Q
  <2>1. PICK b, t : b = bytes \o w /\ t = text \o w  OBVIOUS
  <2>2. Sees(b, t)  BY <1>5, <2>1
  <2>3. PICK one : one = <<c>>  OBVIOUS
  <2>4. Sees(one, one) /\ one[1] # "A9"  BY <1>2, <2>3, SeesOne
  <2>5. Sees(b \o one, t \o one)  BY <2>2, <2>4, SeesMore
  <2>6. w \in Seq(X) /\ w \in Seq(P) /\ c \in X /\ c \in P  BY <1>2
  <2>7. b \in Seq(X) /\ t \in Seq(P)  BY <1>3, <2>1, <2>6
  <2>8. b \o one = Append(b, c) /\ t \o one = Append(t, c)  BY <2>3, <2>6, <2>7
  <2>9. bytes \o Append(w, c) = Append(b, c)  BY <1>3, <2>1, <2>6, AppendConcat
  <2>10. text \o Append(w, c) = Append(t, c)
    <3>1. \A s, r \in Seq(P), x \in P : s \o Append(r, x) = Append(s \o r, x)  BY AppendConcat
    <3> QED  BY <1>3, <2>1, <2>6, <3>1, Zenon
  <2>11. Append(w, c) \in Seq(Alone)  OBVIOUS
  <2> QED  BY <2>5, <2>8, <2>9, <2>10, <2>11
<1> HIDE DEF Q
<1>6. \A w \in Seq(Alone) : w \in Q  BY <1>4, <1>5, ByAppend
<1> QED  BY <1>6 DEF Q

\* The order in which one puts things together does not matter.
LEMMA Associative ==
    ASSUME NEW X
    PROVE  \A s, t, u \in Seq(X) : (s \o t) \o u = s \o (t \o u)
OBVIOUS

\* What the pump has of a line, what one sees of it, and which of the characters
\* that Exact counts are bytes: behind the last that is none, or from the beginning,
\* each Backspace so far has taken the same from both; and where it hit a half of a
\* secret, it will take nothing from what comes before.
Line(bytes, text, plain) ==
    \E u, v, w : \E l \in Nat :
        /\ Sees(u, v) /\ w \in Seq(Alone) /\ bytes = u \o w /\ text = v \o w
        /\ \/ "rest" \in Range(w)
           \/ /\ Len(plain) = l + Len(w)
              /\ l = 0 => u = <<>> /\ v = <<>>
              /\ l # 0 => plain[l] = FALSE

\* An empty line.
LEMMA LineEmpty == Line(<<>>, <<>>, <<>>)
<1>1. <<>> \in Seq(Alone) /\ <<>> \o <<>> = <<>> /\ Len(<<>>) = 0  OBVIOUS
<1>2. PICK e : e = <<>>  OBVIOUS
<1>3. Sees(e, e)  BY <1>2, SeesNothing
<1>4. e \in Seq(Alone) /\ e \o e = e /\ Len(e) = 0 + Len(e)  BY <1>1, <1>2
<1>5. Line(e, e, e)  BY <1>2, <1>3, <1>4 DEF Line
<1> QED  BY <1>2, <1>5

\* A line is seen.
LEMMA LineSeen == \A bytes, text, plain : Line(bytes, text, plain) => Sees(bytes, text)
<1> SUFFICES ASSUME NEW bytes, NEW text, NEW plain, Line(bytes, text, plain)
             PROVE  Sees(bytes, text)
  OBVIOUS
<1>1. PICK u, v, w : Sees(u, v) /\ w \in Seq(Alone) /\ bytes = u \o w /\ text = v \o w
  BY Zenon DEF Line
<1> QED  BY <1>1, SeesAlone

\* The bytes that are characters are bytes and characters.
LEMMA AloneIs ==
    /\ Alone \subseteq Symbols /\ Alone \subseteq Printable /\ "rest" \in Alone
    /\ "A9" \notin Alone /\ Seq(Alone) \subseteq Seq(Symbols) /\ Seq(Alone) \subseteq Seq(Printable)
<1>1. Alone \subseteq Symbols /\ Alone \subseteq Printable /\ "rest" \in Alone /\ "A9" \notin Alone
  BY DEF Alone, Printable, Blank, Final, Halves, Symbols
<1>2. \A A, B : A \subseteq B => Seq(A) \subseteq Seq(B)  OBVIOUS
<1> QED  BY <1>1, <1>2, Zenon

\* A key's bytes and looks.
LEMMA KeyIs ==
    ASSUME NEW key \in Keys, Legible(key), key # Enter, key # Backspace
    PROVE  /\ Sees(key.bytes, key.shows) /\ key.bytes # <<>> /\ key.bytes[1] # "A9"
           /\ \A i \in DOMAIN key.bytes : key.bytes[i] \notin {"CR", "NL", "BS"}
           /\ key.bytes \in Seq(Symbols) /\ key.shows \in Seq(Printable)
           /\ Len(key.bytes) = Len(key.shows) => key.bytes = key.shows /\ key.shows \in Seq(Alone)
<1>1. PICK X : X = Symbols  OBVIOUS
<1>2. key.bytes \in Seq(X)
  <2>1. \A s \in Seq(STRING) : s \in Seq(X)  BY <1>1 DEF Symbols
  <2> QED  BY <2>1, CaptureAssumption
<1>3. /\ Whole(key) /\ key.bytes # <<>>
      /\ Range(key.bytes) \cap {"CR", "NL", "BS"} = {}
      /\ Len(key.bytes) = Len(key.shows) =>
            key.bytes = key.shows /\ Range(key.shows) \subseteq Final \cup Blank
  BY Zenon DEF Legible
<1>4. PICK n \in Nat : DOMAIN key.bytes = 1 .. n /\ \A i \in 1 .. n : key.bytes[i] \in X
  BY <1>2
<1>5. \A i \in 1 .. n : key.bytes[i] \in Range(key.bytes)  BY <1>4 DEF Range
<1>6. \A i \in 1 .. n : key.bytes[i] \notin {"CR", "NL", "BS"}  BY <1>3, <1>5
<1>7. key.bytes[1] # "A9"  BY <1>3 DEF Whole
<1>8. Sees(key.bytes, key.shows)  BY <1>1, <1>2, <1>3 DEF Whole, Sees, TextState
<1>9. key.shows \in Seq(Printable)  BY <1>8, SeesIs
<1>10. ASSUME key.bytes = key.shows, Range(key.shows) \subseteq Final \cup Blank
       PROVE  key.shows \in Seq(Alone)
  <2>1. \A i \in 1 .. n : key.bytes[i] \in Alone
    <3> SUFFICES ASSUME NEW i \in 1 .. n  PROVE key.bytes[i] \in Alone
      OBVIOUS
    <3>1. PICK c : c = key.bytes[i]  OBVIOUS
    <3>2. c \in Final \cup Blank /\ c # "NL" /\ c \in X  BY <1>4, <1>5, <1>6, <1>10, <3>1
    <3> QED  BY <1>1, <3>1, <3>2 DEF Alone, Blank
  <2>2. Len(key.bytes) = n  BY <1>2, <1>4
  <2>3. key.bytes \in Seq(Alone)
    <3>1. \A s \in Seq(X) : (\A i \in 1 .. Len(s) : s[i] \in Alone) => s \in Seq(Alone)  BY Within
    <3> QED  BY <1>2, <2>1, <2>2, <3>1
  <2> QED  BY <1>10, <2>3
<1> QED  BY <1>1, <1>2, <1>3, <1>4, <1>6, <1>7, <1>8, <1>9, <1>10

\* The marks of a key: whether it shows its bytes.
Marks(key) == [i \in 1 .. Max({1, Len(key.shows)}) |-> Len(key.bytes) = Len(key.shows)]

\* There is a mark for each character shown, or one if nothing is.
LEMMA MarksAre ==
    ASSUME NEW key, NEW k \in Nat, Len(key.shows) = k
    PROVE  \E m \in Nat : /\ m # 0 /\ (k # 0 => m = k)
                          /\ Marks(key) \in Seq(BOOLEAN) /\ Len(Marks(key)) = m
                          /\ \A i \in 1 .. m : Marks(key)[i] = (Len(key.bytes) = Len(key.shows))
<1>1. PICK T : T = {1, k}  OBVIOUS
<1>2. T \in SUBSET (0 .. k + 1) /\ T # {} /\ k + 1 \in Nat  BY <1>1
<1>3. Max(T) \in T /\ \A y \in T : y <= Max(T)  BY <1>2, MaxOfNat
<1>4. PICK m : m = Max(T)  OBVIOUS
<1>5. m \in Nat /\ m # 0 /\ (k # 0 => m = k)  BY <1>1, <1>3, <1>4
<1>6. PICK same \in BOOLEAN : same = (Len(key.bytes) = Len(key.shows))  OBVIOUS
<1>7. PICK marks : marks = [i \in 1 .. m |-> same]  OBVIOUS
<1>8. Marks(key) = marks  BY <1>1, <1>4, <1>6, <1>7 DEF Marks
<1>9. marks \in Seq(BOOLEAN) /\ Len(marks) = m /\ \A i \in 1 .. m : marks[i] = same
  BY <1>5, <1>7
<1> QED  BY <1>5, <1>6, <1>8, <1>9

\* Two sequences put together.
LEMMA Together ==
    ASSUME NEW X
    PROVE  \A s, t \in Seq(X) :
              /\ s \o t \in Seq(X) /\ Len(s \o t) = Len(s) + Len(t)
              /\ \A i \in 1 .. Len(s) : (s \o t)[i] = s[i]
              /\ \A i \in 1 .. Len(t) : (s \o t)[Len(s) + i] = t[i]
OBVIOUS

\* A key is put behind the line.
LEMMA LineKey ==
    ASSUME NEW bytes, NEW text, NEW plain \in Seq(BOOLEAN), Line(bytes, text, plain),
           NEW key \in Keys, Legible(key), key # Enter, key # Backspace
    PROVE  Line(bytes \o key.bytes, text \o key.shows, plain \o Marks(key))
<1>1. PICK b, k : b = key.bytes /\ k = key.shows  OBVIOUS
<1>2. /\ Sees(b, k) /\ b # <<>> /\ b[1] # "A9" /\ b \in Seq(Symbols) /\ k \in Seq(Printable)
      /\ Len(b) = Len(k) => b = k /\ k \in Seq(Alone)
  BY <1>1, KeyIs
<1>3. PICK h \in Nat : h = Len(k)  BY <1>2
<1>4. PICK m \in Nat : /\ m # 0 /\ (h # 0 => m = h)
                       /\ Marks(key) \in Seq(BOOLEAN) /\ Len(Marks(key)) = m
                       /\ \A i \in 1 .. m : Marks(key)[i] = (Len(b) = Len(k))
  BY <1>1, <1>3, MarksAre
<1>5. PICK marks : marks = Marks(key)  OBVIOUS
<1>6. PICK pm : pm = plain \o marks  OBVIOUS
<1>7. PICK n \in Nat : n = Len(plain)  OBVIOUS
<1>8. /\ Len(pm) = n + m
      /\ \A i \in 1 .. n : pm[i] = plain[i]
      /\ \A i \in 1 .. m : pm[n + i] = marks[i]
  BY <1>4, <1>5, <1>6, <1>7, Together
<1>9. CASE Len(b) # Len(k)
  <2>1. Sees(bytes \o b, text \o k)  BY <1>2, LineSeen, SeesMore
  <2>2. PICK e : e = <<>>  OBVIOUS
  <2>3. e \in Seq(Alone) /\ Len(e) = 0
    <3>1. <<>> \in Seq(Alone) /\ Len(<<>>) = 0  OBVIOUS
    <3> QED  BY <2>2, <3>1
  <2>4. PICK bb, tk : bb = bytes \o b /\ tk = text \o k  OBVIOUS
  <2>5. bb = bb \o e /\ tk = tk \o e
    <3>1. bb \in Seq(Symbols) /\ tk \in Seq(Printable)  BY <2>1, <2>4, SeesIs DEF Sees
    <3>2. bb \o <<>> = bb  BY <3>1
    <3>3. tk \o <<>> = tk  BY <3>1
    <3> QED  BY <2>2, <3>2, <3>3
  <2>6. n + m \in Nat /\ n + m # 0 /\ pm[n + m] = FALSE /\ Len(pm) = (n + m) + Len(e)
    <3>1. m \in 1 .. m  BY <1>4
    <3>2. marks[m] = FALSE  BY <1>4, <1>5, <1>9, <3>1
    <3> QED  BY <1>4, <1>8, <2>3, <3>1, <3>2
  <2>7. Line(bb, tk, pm)  BY <2>1, <2>3, <2>4, <2>5, <2>6 DEF Line
  <2> QED  BY <1>1, <1>5, <1>6, <2>4, <2>7
<1>10. CASE Len(b) = Len(k)
  <2>1. b = k /\ k \in Seq(Alone)  BY <1>2, <1>10
  <2>2. PICK u, v, w, l : /\ Sees(u, v) /\ w \in Seq(Alone) /\ bytes = u \o w /\ text = v \o w
                          /\ l \in Nat
                          /\ \/ "rest" \in Range(w)
                             \/ /\ Len(plain) = l + Len(w)
                                /\ l = 0 => u = <<>> /\ v = <<>>
                                /\ l # 0 => plain[l] = FALSE
    BY Zenon DEF Line
  <2>3. PICK wk : wk = w \o k  OBVIOUS
  <2>4. wk \in Seq(Alone) /\ Len(wk) = Len(w) + Len(k)  BY <2>1, <2>2, <2>3
  <2>5. bytes \o b = u \o wk
    <3>1. u \in Seq(Symbols) /\ w \in Seq(Symbols) /\ k \in Seq(Symbols)
      BY <1>2, <2>1, <2>2, AloneIs DEF Sees
    <3>2. \A s, t, r \in Seq(Symbols) : (s \o t) \o r = s \o (t \o r)  BY SMTT(30), Associative
    <3>3. (u \o w) \o k = u \o (w \o k)  BY <3>1, <3>2, Zenon
    <3> QED  BY <2>1, <2>2, <2>3, <3>3, Zenon
  <2>6. text \o k = v \o wk
    <3>1. v \in Seq(Printable) /\ w \in Seq(Printable)  BY <2>2, AloneIs, SeesIs
    <3>2. \A s, t, r \in Seq(Printable) : (s \o t) \o r = s \o (t \o r)  BY SMTT(30), Associative
    <3>3. (v \o w) \o k = v \o (w \o k)  BY <1>2, <3>1, <3>2, Zenon
    <3> QED  BY <2>2, <2>3, <3>3, Zenon
  <2>7. CASE "rest" \in Range(w)
    <3>1. "rest" \in Range(wk)
      <4>1. Range(wk) = Range(w) \cup Range(k)  BY <2>1, <2>2, <2>3, RangeConcat
      <4> QED  BY <2>7, <4>1
    <3>2. Line(bytes \o b, text \o k, pm)  BY <2>2, <2>4, <2>5, <2>6, <3>1, Zenon DEF Line
    <3> QED  BY <1>1, <1>5, <1>6, <3>2
  <2>8. CASE /\ Len(plain) = l + Len(w)
             /\ l = 0 => u = <<>> /\ v = <<>>
             /\ l # 0 => plain[l] = FALSE
    <3>1. Len(k) # 0  BY <1>2, <2>1
    <3>2. m = Len(k)  BY <1>3, <1>4, <3>1
    <3>3. PICK o \in Nat : o = Len(w)  BY <2>2
    <3>4. Len(pm) = l + Len(wk)  BY <1>3, <1>7, <1>8, <2>2, <2>4, <2>8, <3>2, <3>3
    <3>5. l # 0 => pm[l] = FALSE
      <4>1. l # 0 => l \in 1 .. n  BY <1>7, <2>2, <2>8, <3>3
      <4> QED  BY <1>8, <2>8, <4>1
    <3>6. Line(bytes \o b, text \o k, pm)  BY <2>2, <2>4, <2>5, <2>6, <2>8, <3>4, <3>5, Zenon DEF Line
    <3> QED  BY <1>1, <1>5, <1>6, <3>6
  <2> QED  BY <2>2, <2>7, <2>8
<1> QED  BY <1>9, <1>10

\* Backspace takes the last part of what is behind.
LEMMA PopBehind ==
    ASSUME NEW X, "rest" \in X
    PROVE  \A u, w \in Seq(X) : w # <<>> => Pop(u \o w) = u \o Pop(w)
<1> SUFFICES ASSUME NEW u \in Seq(X), NEW w \in Seq(X), w # <<>>
             PROVE  Pop(u \o w) = u \o Pop(w)
  OBVIOUS
<1>1. u \o w # <<>> /\ Last(u \o w) = Last(w) /\ Front(u \o w) = u \o Front(w)  BY ConcatLast
<1>2. PICK f \in Seq(X) : f = Front(w)  BY FrontLast
<1>3. PICK r : r = Rest(Last(w))  OBVIOUS
<1>4. r \in Seq(X)
  <2>1. <<"rest">> \in Seq(X) /\ <<>> \in Seq(X)  OBVIOUS
  <2> QED  BY <1>3, <2>1 DEF Rest
<1>5. (u \o f) \o r = u \o (f \o r)  BY SMTT(30), <1>2, <1>4, Associative
<1>6. PICK uw : uw = u \o w  OBVIOUS
<1>7. Pop(uw) = (u \o f) \o r  BY <1>1, <1>2, <1>3, <1>6 DEF Pop
<1>8. Pop(w) = f \o r  BY <1>2, <1>3 DEF Pop
<1> QED  BY <1>5, <1>6, <1>7, <1>8

\* Backspace where it hits a byte that is a character, or nothing.
LEMMA LineBack ==
    ASSUME NEW bytes, NEW text, NEW plain \in Seq(BOOLEAN), Line(bytes, text, plain),
           plain # <<>> => Last(plain)
    PROVE  Line(Pop(bytes), Pop(text), IF plain = <<>> THEN <<>> ELSE Front(plain))
<1>1. PICK u, v, w, l : /\ Sees(u, v) /\ w \in Seq(Alone) /\ bytes = u \o w /\ text = v \o w
                        /\ l \in Nat
                        /\ \/ "rest" \in Range(w)
                           \/ /\ Len(plain) = l + Len(w)
                              /\ l = 0 => u = <<>> /\ v = <<>>
                              /\ l # 0 => plain[l] = FALSE
  BY Zenon DEF Line
<1>2. PICK cut : cut = IF plain = <<>> THEN <<>> ELSE Front(plain)  OBVIOUS
<1>3. PICK n \in Nat : n = Len(plain)  OBVIOUS
<1>4. n = 0 <=> plain = <<>>  BY <1>3
<1>5. n # 0 => /\ plain[n] = TRUE /\ Len(cut) = n - 1
               /\ \A i \in 1 .. n - 1 : cut[i] = plain[i]
  <2> SUFFICES ASSUME n # 0  PROVE /\ plain[n] = TRUE /\ Len(cut) = n - 1
                                   /\ \A i \in 1 .. n - 1 : cut[i] = plain[i]
    OBVIOUS
  <2>1. plain[n] \in BOOLEAN  BY <1>3
  <2>2. Last(plain) = plain[n] /\ cut = SubSeq(plain, 1, n - 1)
    BY <1>2, <1>3, <1>4 DEF Last, Front
  <2>3. Len(cut) = n - 1 /\ \A i \in 1 .. n - 1 : cut[i] = plain[i]  BY <1>3, <2>2
  <2> QED  BY <1>4, <2>1, <2>2, <2>3
<1>6. CASE w = <<>>
  <2>1. Range(w) = {} /\ Len(w) = 0  BY <1>6 DEF Range
  <2>2. n = l /\ l = 0
    <3>1. n = l /\ (l # 0 => plain[l] = FALSE)  BY <1>1, <1>3, <2>1
    <3> QED  BY <1>5, <3>1
  <2>3. u = <<>> /\ v = <<>>  BY <1>1, <2>1, <2>2
  <2>4. bytes = <<>> /\ text = <<>>
    <3>1. <<>> \o <<>> = <<>>  OBVIOUS
    <3> QED  BY <1>1, <1>6, <2>3, <3>1
  <2>5. Pop(bytes) = <<>> /\ Pop(text) = <<>>  BY <2>4 DEF Pop
  <2>6. cut = <<>>  BY <1>2, <1>4, <2>2
  <2> QED  BY <1>2, <2>5, <2>6, LineEmpty
<1>7. CASE w # <<>>
  <2>1. PICK f \in Seq(Alone), c \in Alone : f = Front(w) /\ c = Last(w) /\ w = Append(f, c)
    <3>1. Front(w) \in Seq(Alone) /\ Last(w) \in Alone  BY <1>1, <1>7, FrontLast
    <3>2. w = Append(Front(w), Last(w))  BY <1>1, <1>7, FrontLast
    <3> QED  BY <3>1, <3>2
  <2>2. PICK back : back = Pop(w)  OBVIOUS
  <2>3. back = f \o Rest(c)  BY <1>7, <2>1, <2>2 DEF Pop
  <2>4. Pop(bytes) = u \o back
    <3>1. "rest" \in Symbols /\ u \in Seq(Symbols) /\ w \in Seq(Symbols)  BY <1>1, AloneIs DEF Sees
    <3>2. \A s, t \in Seq(Symbols) : t # <<>> => Pop(s \o t) = s \o Pop(t)  BY <3>1, PopBehind
    <3> QED  BY <1>1, <1>7, <2>2, <3>1, <3>2, Zenon
  <2>5. Pop(text) = v \o back
    <3>1. "rest" \in Printable /\ v \in Seq(Printable) /\ w \in Seq(Printable)  BY <1>1, AloneIs, SeesIs
    <3>2. \A s, t \in Seq(Printable) : t # <<>> => Pop(s \o t) = s \o Pop(t)  BY <3>1, PopBehind
    <3> QED  BY <1>1, <1>7, <2>2, <3>1, <3>2, Zenon
  <2>6. CASE c \in Halves
    <3>1. PICK one : one = <<"rest">>  OBVIOUS
    <3>2. back = Append(f, "rest")
      <4>1. back = f \o <<"rest">>  BY <2>3, <2>6 DEF Rest
      <4> QED  BY <2>1, <4>1
    <3>3. back \in Seq(Alone)
      <4>1. "rest" \in Alone  BY AloneIs
      <4>2. \A A : \A s \in Seq(A), x \in A : Append(s, x) \in Seq(A)  OBVIOUS
      <4> QED  BY <2>1, <3>2, <4>1, <4>2, Zenon
    <3>4. "rest" \in Range(back)
      <4>1. "rest" \in Alone  BY AloneIs
      <4>2. \A s \in Seq(Alone), x \in Alone : Range(Append(s, x)) = Range(s) \cup {x}
        BY RangeAppend
      <4>3. Range(Append(f, "rest")) = Range(f) \cup {"rest"}  BY <2>1, <4>1, <4>2, Zenon
      <4> QED  BY <3>2, <4>3
    <3> QED  BY <1>1, <1>2, <2>4, <2>5, <3>3, <3>4, Zenon DEF Line
  <2>7. CASE c \notin Halves
    <3>1. back = f
      <4>1. back = f \o <<>>  BY <2>3, <2>7 DEF Rest
      <4>2. f \o <<>> = f  BY <2>1
      <4> QED  BY <4>1, <4>2
    <3>2. Len(w) = Len(f) + 1 /\ Len(f) \in Nat  BY <2>1
    <3>3. CASE "rest" \in Range(w)
      <4>1. "rest" \in Range(f)
        <5>1. Range(w) = Range(f) \cup {c}
          <6>1. \A s \in Seq(Alone), x \in Alone : Range(Append(s, x)) = Range(s) \cup {x}
            BY RangeAppend
          <6> QED  BY <2>1, <6>1, Zenon
        <5> QED  BY <2>7, <3>3, <5>1 DEF Halves
      <4> QED  BY <1>1, <1>2, <2>1, <2>4, <2>5, <3>1, <4>1, Zenon DEF Line
    <3>4. CASE /\ Len(plain) = l + Len(w)
               /\ l = 0 => u = <<>> /\ v = <<>>
               /\ l # 0 => plain[l] = FALSE
      <4>1. PICK o \in Nat : o = Len(f)  BY <3>2
      <4>2. n = l + o + 1  BY <1>1, <1>3, <3>2, <3>4, <4>1
      <4>3. Len(cut) = l + Len(f)  BY <1>1, <1>5, <4>1, <4>2
      <4>4. l # 0 => cut[l] = FALSE
        <5>1. l # 0 => l \in 1 .. n - 1  BY <1>1, <4>2
        <5> QED  BY <1>5, <3>4, <4>2, <5>1
      <4> QED  BY <1>1, <1>2, <2>1, <2>4, <2>5, <3>1, <3>4, <4>3, <4>4, ZenonT(30) DEF Line
    <3> QED  BY <1>1, <3>3, <3>4
  <2> QED  BY <2>6, <2>7
<1> QED  BY <1>6, <1>7

-----------------------------------------------------------------------------
(* The keys, as one sees them edit the lines and as the pump does.          *)

\* Edited's states, and one key more.
Edits == [done : Seq(Seq(Printable)), open : Seq(Printable)]

EditKey(st, key) ==
    CASE key = Enter -> [done |-> Append(st.done, st.open), open |-> <<>>]
      [] key = Backspace -> [st EXCEPT !.open = Pop(@)]
      [] OTHER -> [st EXCEPT !.open = @ \o key.shows]

EditOp == [key \in Keys |-> [st \in Edits |-> EditKey(st, key)]]

NoLines == [done |-> <<>>, open |-> <<>>]

\* Exact's states, and one key more.
Hits == [plain : Seq(BOOLEAN), ok : BOOLEAN]

HitKey(st, key) ==
    CASE key = Enter -> [st EXCEPT !.plain = <<>>]
      [] key = Backspace /\ st.plain = <<>> -> st
      [] key = Backspace /\ st.plain # <<>> ->
            [plain |-> Front(st.plain), ok |-> st.ok /\ Last(st.plain)]
      [] OTHER -> [st EXCEPT !.plain = @ \o
            [i \in 1 .. Max({1, Len(key.shows)}) |-> Len(key.bytes) = Len(key.shows)]]

HitOp == [key \in Keys |-> [st \in Hits |-> HitKey(st, key)]]

NoHit == [plain |-> <<>>, ok |-> TRUE]

\* Enter and Backspace show nothing, and are two keys.
LEMMA KeysDiffer == Enter # Backspace /\ Enter.bytes = <<"CR">> /\ Backspace.bytes = <<"BS">>
<1>1. Enter.bytes = <<"CR">> /\ Backspace.bytes = <<"BS">>  BY DEF Enter, Backspace
<1>2. <<"CR">> # <<"BS">>
  <2>1. <<"CR">>[1] = "CR" /\ <<"BS">>[1] = "BS"  OBVIOUS
  <2> QED  BY <2>1
<1> QED  BY <1>1, <1>2

\* A key ends the line, takes a part of it, or is put behind it.
LEMMA EditStep ==
    ASSUME \A key \in Keys : Legible(key)
    PROVE  \A st \in Edits, key \in Keys :
              /\ EditKey(st, key) \in Edits
              /\ key = Enter =>
                    EditKey(st, key) = [open |-> <<>>, done |-> Append(st.done, st.open)]
              /\ key = Backspace => EditKey(st, key) = [open |-> Pop(st.open), done |-> st.done]
              /\ key # Enter /\ key # Backspace =>
                    EditKey(st, key) = [open |-> st.open \o key.shows, done |-> st.done]
<1> SUFFICES ASSUME NEW st \in Edits, NEW key \in Keys
             PROVE  /\ EditKey(st, key) \in Edits
                    /\ key = Enter =>
                          EditKey(st, key) = [open |-> <<>>, done |-> Append(st.done, st.open)]
                    /\ key = Backspace =>
                          EditKey(st, key) = [open |-> Pop(st.open), done |-> st.done]
                    /\ key # Enter /\ key # Backspace =>
                          EditKey(st, key) = [open |-> st.open \o key.shows, done |-> st.done]
  OBVIOUS
<1>1. PICK L, D : L = Seq(Printable) /\ D = Seq(L)  OBVIOUS
<1>2. st \in [open : L, done : D]  BY <1>1 DEF Edits
<1>3. PICK p, a, e : p = Pop(st.open) /\ a = st.open \o key.shows /\ e = Append(st.done, st.open)
  OBVIOUS
<1>4. p \in L /\ e \in D /\ <<>> \in L
  <2>1. st.open \in L /\ st.done \in D  BY <1>2
  <2>2. "rest" \in Printable  BY AloneIs
  <2>3. Pop(st.open) \in L  BY <1>1, <2>1, <2>2, PopType
  <2>4. \A s \in D, x \in L : Append(s, x) \in D  BY <1>1
  <2>5. <<>> \in L  BY <1>1
  <2> QED  BY <1>3, <2>1, <2>3, <2>4, <2>5
<1>5. key # Enter /\ key # Backspace => a \in L
  <2>1. key # Enter /\ key # Backspace => key.shows \in L  BY <1>1, KeyIs
  <2>2. \A s, t \in L : s \o t \in L  BY <1>1
  <2> QED  BY <1>2, <1>3, <2>1, <2>2
<1>6. EditKey(st, key) =
          CASE key = Enter -> [open |-> <<>>, done |-> e]
            [] key = Backspace -> [open |-> p, done |-> st.done]
            [] OTHER -> [open |-> a, done |-> st.done]
  <2>1. [st EXCEPT !.open = p] = [open |-> p, done |-> st.done]  BY <1>2
  <2>2. [st EXCEPT !.open = a] = [open |-> a, done |-> st.done]  BY <1>2
  <2> QED  BY <1>3, <2>1, <2>2 DEF EditKey
<1>7. /\ key = Enter => EditKey(st, key) = [open |-> <<>>, done |-> e]
      /\ key = Backspace => EditKey(st, key) = [open |-> p, done |-> st.done]
      /\ key # Enter /\ key # Backspace => EditKey(st, key) = [open |-> a, done |-> st.done]
  BY <1>6, KeysDiffer
<1>8. EditKey(st, key) \in [open : L, done : D]  BY <1>2, <1>4, <1>5, <1>7
<1> QED  BY <1>1, <1>3, <1>7, <1>8 DEF Edits

\* A key takes marks or adds some.
LEMMA HitStep ==
    ASSUME \A key \in Keys : Legible(key)
    PROVE  \A st \in Hits, key \in Keys :
              /\ HitKey(st, key) \in Hits
              /\ key = Enter => HitKey(st, key) = [plain |-> <<>>, ok |-> st.ok]
              /\ key = Backspace /\ st.plain = <<>> => HitKey(st, key) = st
              /\ key = Backspace /\ st.plain # <<>> =>
                    HitKey(st, key) = [plain |-> Front(st.plain), ok |-> st.ok /\ Last(st.plain)]
              /\ key # Enter /\ key # Backspace =>
                    HitKey(st, key) = [plain |-> st.plain \o Marks(key), ok |-> st.ok]
<1> SUFFICES ASSUME NEW st \in Hits, NEW key \in Keys
             PROVE  /\ HitKey(st, key) \in Hits
                    /\ key = Enter => HitKey(st, key) = [plain |-> <<>>, ok |-> st.ok]
                    /\ key = Backspace /\ st.plain = <<>> => HitKey(st, key) = st
                    /\ key = Backspace /\ st.plain # <<>> =>
                          HitKey(st, key) =
                              [plain |-> Front(st.plain), ok |-> st.ok /\ Last(st.plain)]
                    /\ key # Enter /\ key # Backspace =>
                          HitKey(st, key) = [plain |-> st.plain \o Marks(key), ok |-> st.ok]
  OBVIOUS
<1>1. PICK P : P = Seq(BOOLEAN)  OBVIOUS
<1>2. st \in [plain : P, ok : BOOLEAN]  BY <1>1 DEF Hits
<1>3. PICK a : a = st.plain \o Marks(key)  OBVIOUS
<1>4. PICK f : f = Front(st.plain)  OBVIOUS
<1>5. PICK g : g = (st.ok /\ Last(st.plain))  OBVIOUS
<1>6. <<>> \in P /\ (st.plain # <<>> => f \in P /\ g \in BOOLEAN)
  <2>1. <<>> \in P  BY <1>1
  <2>2. st.plain # <<>> => f \in P /\ Last(st.plain) \in BOOLEAN  BY <1>1, <1>2, <1>4, FrontLast
  <2>3. g \in BOOLEAN  BY <1>5
  <2> QED  BY <2>1, <2>2, <2>3
<1>7. key # Enter /\ key # Backspace => a \in P
  <2> SUFFICES ASSUME key # Enter, key # Backspace  PROVE a \in P
    OBVIOUS
  <2>1. key.shows \in Seq(Printable)  BY KeyIs
  <2>2. Len(key.shows) \in Nat  BY <2>1
  <2>3. Marks(key) \in P  BY <1>1, <2>2, MarksAre
  <2>4. \A s, t \in P : s \o t \in P  BY <1>1
  <2> QED  BY <1>2, <1>3, <2>3, <2>4
<1>8. HitKey(st, key) =
          CASE key = Enter -> [plain |-> <<>>, ok |-> st.ok]
            [] key = Backspace /\ st.plain = <<>> -> st
            [] key = Backspace /\ st.plain # <<>> -> [plain |-> f, ok |-> g]
            [] OTHER -> [plain |-> a, ok |-> st.ok]
  <2>1. [st EXCEPT !.plain = <<>>] = [plain |-> <<>>, ok |-> st.ok]  BY <1>2
  <2>2. [st EXCEPT !.plain = a] = [plain |-> a, ok |-> st.ok]  BY <1>2
  <2>3. HitKey(st, key) =
          CASE key = Enter -> [st EXCEPT !.plain = <<>>]
            [] key = Backspace /\ st.plain = <<>> -> st
            [] key = Backspace /\ st.plain # <<>> -> [plain |-> f, ok |-> g]
            [] OTHER -> [st EXCEPT !.plain = a]
    BY <1>3, <1>4, <1>5, Zenon DEF HitKey, Marks
  <2> QED  BY <2>1, <2>2, <2>3
<1>9. /\ key = Enter => HitKey(st, key) = [plain |-> <<>>, ok |-> st.ok]
      /\ key = Backspace /\ st.plain = <<>> => HitKey(st, key) = st
      /\ key = Backspace /\ st.plain # <<>> => HitKey(st, key) = [plain |-> f, ok |-> g]
      /\ key # Enter /\ key # Backspace => HitKey(st, key) = [plain |-> a, ok |-> st.ok]
  BY <1>8, KeysDiffer
<1>10. HitKey(st, key) \in [plain : P, ok : BOOLEAN]  BY <1>2, <1>6, <1>7, <1>9
<1> QED  BY <1>1, <1>3, <1>4, <1>5, <1>9, <1>10, Zenon DEF Hits

\* The runs go from state to state.
LEMMA EditType ==
    ASSUME \A key \in Keys : Legible(key)
    PROVE  EditOp \in [Keys -> [Edits -> Edits]] /\ NoLines \in Edits
<1>1. \A st \in Edits, key \in Keys : EditKey(st, key) \in Edits  BY EditStep
<1>2. <<>> \in Seq(Printable) /\ <<>> \in Seq(Seq(Printable))  OBVIOUS
<1>3. NoLines \in Edits  BY <1>2 DEF NoLines, Edits
<1>4. PICK T : T = Edits  OBVIOUS
<1>5. EditOp \in [Keys -> [T -> T]]  BY <1>1, <1>4 DEF EditOp
<1> QED  BY <1>3, <1>4, <1>5

\* And so do the marks.
LEMMA HitType ==
    ASSUME \A key \in Keys : Legible(key)
    PROVE  HitOp \in [Keys -> [Hits -> Hits]] /\ NoHit \in Hits
<1>1. \A st \in Hits, key \in Keys : HitKey(st, key) \in Hits  BY HitStep
<1>2. <<>> \in Seq(BOOLEAN)  OBVIOUS
<1>3. NoHit \in Hits  BY <1>2 DEF NoHit, Hits
<1>4. PICK T : T = Hits  OBVIOUS
<1>5. HitOp \in [Keys -> [T -> T]]  BY <1>1, <1>4 DEF HitOp
<1> QED  BY <1>3, <1>4, <1>5

\* What one sees of the lines is a run over the keys.
LEMMA EditRun ==
    ASSUME \A key \in Keys : Legible(key), NEW typed \in Seq(Keys)
    PROVE  Edited(typed) = RunOf(EditOp, NoLines, typed)
<1> DEFINE edit(st, key) ==
              CASE key = Enter -> [done |-> Append(st.done, st.open), open |-> <<>>]
                [] key = Backspace -> [st EXCEPT !.open = Pop(@)]
                [] OTHER -> [st EXCEPT !.open = @ \o key.shows]
           base == [done |-> <<>>, open |-> <<>>]
           op == EditOp
           Body(it) == [D \in SUBSET (DOMAIN typed) |->
                           IF D = {} THEN base ELSE edit(it[D \ {Max(D)}], typed[Max(D)])]
           it == CHOOSE it : it = Body(it)
<1>1. Edited(typed) = FoldLeft(edit, base, typed)  BY DEF Edited
<1>2. FoldLeft(edit, base, typed) = it[DOMAIN typed]  BY Zenon DEF FoldLeft, MapThenFoldSet
<1>3. op \in [Keys -> [Edits -> Edits]] /\ base \in Edits  BY EditType DEF NoLines
<1>4. \A x \in Keys, t \in Edits : op[x][t] = edit(t, x)  BY DEF EditOp, EditKey
<1>5. base = NoLines  BY DEF NoLines
<1> HIDE DEF edit, op, base
<1>6. PICK h : FoldOf(h, Edits, Keys, op, base, typed)
  <2>1. \A b \in Edits, u \in Seq(Keys) : \E i : FoldOf(i, Edits, Keys, op, b, u)
    BY <1>3, FoldFun
  <2> QED  BY <1>3, <2>1, Zenon
<1>7. h = Body(h)
  <2>1. ASSUME NEW D \in SUBSET (DOMAIN typed), D # {}
        PROVE  h[D] = edit(h[D \ {Max(D)}], typed[Max(D)])
    BY <1>4, <1>6, <2>1 DEF FoldOf
  <2>2. h[{}] = base  BY <1>6 DEF FoldOf
  <2> QED  BY <1>6, <2>1, <2>2 DEF FoldOf
<1>8. it = Body(it)
  <2> HIDE DEF Body
  <2> QED  BY <1>7
<1> HIDE DEF it
<1>9. it[{}] = base /\ \A D \in SUBSET (DOMAIN typed) : D # {} =>
          it[D] = edit(it[D \ {Max(D)}], typed[Max(D)])
  BY <1>8
<1>10. FoldsAs(it, Edits, Keys, op, base, typed)  BY <1>4, <1>9 DEF FoldsAs
<1>11. \A b \in Edits, u \in Seq(Keys) : \A i :
           FoldsAs(i, Edits, Keys, op, b, u) => i[DOMAIN u] = RunOf(op, b, u)
  BY <1>3, FoldRun
<1> QED  BY <1>1, <1>2, <1>3, <1>5, <1>10, <1>11, Zenon DEF op

\* Whether Backspace has hit nothing but bytes is a run over the keys.
LEMMA HitRun ==
    ASSUME \A key \in Keys : Legible(key), NEW typed \in Seq(Keys)
    PROVE  Exact(typed) = RunOf(HitOp, NoHit, typed).ok
<1> DEFINE hit(st, key) ==
              CASE key = Enter -> [st EXCEPT !.plain = <<>>]
                [] key = Backspace /\ st.plain = <<>> -> st
                [] key = Backspace /\ st.plain # <<>> ->
                      [plain |-> Front(st.plain), ok |-> st.ok /\ Last(st.plain)]
                [] OTHER -> [st EXCEPT !.plain = @ \o
                      [i \in 1 .. Max({1, Len(key.shows)}) |-> Len(key.bytes) = Len(key.shows)]]
           base == [plain |-> <<>>, ok |-> TRUE]
           op == HitOp
           Body(it) == [D \in SUBSET (DOMAIN typed) |->
                           IF D = {} THEN base ELSE hit(it[D \ {Max(D)}], typed[Max(D)])]
           it == CHOOSE it : it = Body(it)
<1>1. Exact(typed) = FoldLeft(hit, base, typed).ok  BY DEF Exact
<1>2. FoldLeft(hit, base, typed) = it[DOMAIN typed]  BY Zenon DEF FoldLeft, MapThenFoldSet
<1>3. op \in [Keys -> [Hits -> Hits]] /\ base \in Hits  BY HitType DEF NoHit
<1>4. \A x \in Keys, t \in Hits : op[x][t] = hit(t, x)  BY Zenon DEF HitOp, HitKey
<1>5. base = NoHit  BY DEF NoHit
<1> HIDE DEF hit, op, base
<1>6. PICK h : FoldOf(h, Hits, Keys, op, base, typed)
  <2>1. \A b \in Hits, u \in Seq(Keys) : \E i : FoldOf(i, Hits, Keys, op, b, u)
    BY <1>3, FoldFun
  <2> QED  BY <1>3, <2>1, Zenon
<1>7. h = Body(h)
  <2>1. ASSUME NEW D \in SUBSET (DOMAIN typed), D # {}
        PROVE  h[D] = hit(h[D \ {Max(D)}], typed[Max(D)])
    BY <1>4, <1>6, <2>1 DEF FoldOf
  <2>2. h[{}] = base  BY <1>6 DEF FoldOf
  <2> QED  BY <1>6, <2>1, <2>2 DEF FoldOf
<1>8. it = Body(it)
  <2> HIDE DEF Body
  <2> QED  BY <1>7
<1> HIDE DEF it
<1>9. it[{}] = base /\ \A D \in SUBSET (DOMAIN typed) : D # {} =>
          it[D] = hit(it[D \ {Max(D)}], typed[Max(D)])
  BY <1>8
<1>10. FoldsAs(it, Hits, Keys, op, base, typed)  BY <1>4, <1>9 DEF FoldsAs
<1>11. \A b \in Hits, u \in Seq(Keys) : \A i :
           FoldsAs(i, Hits, Keys, op, b, u) => i[DOMAIN u] = RunOf(op, b, u)
  BY <1>3, FoldRun
<1> QED  BY <1>1, <1>2, <1>3, <1>5, <1>10, <1>11, Zenon DEF op

\* The pump's run, from state to state and byte by byte.
LEMMA PumpBytes ==
    ASSUME NEW X, "rest" \in X
    PROVE  \A base \in Pumps(X) :
              /\ RunOf(PumpOp(X), base, <<>>) = base
              /\ \A s \in Seq(X) : RunOf(PumpOp(X), base, s) \in Pumps(X)
              /\ \A s \in Seq(X), b \in X :
                    RunOf(PumpOp(X), base, Append(s, b)) = PumpByte(RunOf(PumpOp(X), base, s), b)
              /\ \A s, t \in Seq(X) :
                    RunOf(PumpOp(X), base, s \o t)
                        = RunOf(PumpOp(X), RunOf(PumpOp(X), base, s), t)
<1>1. PICK T : T = Pumps(X)  OBVIOUS
<1>2. PICK op : op = PumpOp(X)  OBVIOUS
<1>3. op \in [X -> [T -> T]]  BY <1>1, <1>2, PumpType
<1>4. \A base \in T : RunOf(op, base, <<>>) = base  BY <1>3, RunEmpty
<1>5. \A base \in T, s \in Seq(X) : RunOf(op, base, s) \in T  BY <1>3, RunType
<1>6. \A base \in T, s \in Seq(X), b \in X :
          RunOf(op, base, Append(s, b)) = op[b][RunOf(op, base, s)]
  BY <1>3, RunAppend
<1>7. \A base \in T, s \in Seq(X), t \in Seq(X) :
          RunOf(op, base, s \o t) = RunOf(op, RunOf(op, base, s), t)
  BY <1>3, RunConcat
<1>8. \A b \in X, st \in T : op[b][st] = PumpByte(st, b)  BY <1>1, <1>2 DEF PumpOp
<1>9. \A base \in T, s \in Seq(X), b \in X :
          RunOf(op, base, Append(s, b)) = PumpByte(RunOf(op, base, s), b)
  <2> SUFFICES ASSUME NEW base \in T, NEW s \in Seq(X), NEW b \in X
               PROVE  RunOf(op, base, Append(s, b)) = PumpByte(RunOf(op, base, s), b)
    OBVIOUS
  <2>1. PICK st \in T : st = RunOf(op, base, s)  BY <1>5
  <2>2. RunOf(op, base, Append(s, b)) = op[b][st]  BY <1>6, <2>1, Zenon
  <2> QED  BY <1>8, <2>1, <2>2
<1> QED  BY <1>1, <1>2, <1>4, <1>5, <1>7, <1>9, ZenonT(30)

\* Bytes that edit nothing are put behind the line.
LEMMA PumpKey ==
    ASSUME NEW X, "rest" \in X, NEW base \in Pumps(X)
    PROVE  \A s \in Seq(X) : (\A i \in DOMAIN s : s[i] \notin {"CR", "NL", "BS"}) =>
              RunOf(PumpOp(X), base, s) = [open |-> base.open \o s, done |-> base.done]
<1> DEFINE Q == {s \in Seq(X) : (\A i \in DOMAIN s : s[i] \notin {"CR", "NL", "BS"}) =>
                    RunOf(PumpOp(X), base, s) = [open |-> base.open \o s, done |-> base.done]}
<1>1. PICK L, D : L = Seq(X) /\ D = Seq(L)  OBVIOUS
<1>2. base \in [open : L, done : D]  BY <1>1 DEF Pumps
<1>3. PICK o, d : o = base.open /\ d = base.done  OBVIOUS
<1>4. o \in L /\ d \in D /\ base = [open |-> o, done |-> d]  BY <1>2, <1>3
<1>5. <<>> \in Q
  <2>1. RunOf(PumpOp(X), base, <<>>) = base  BY PumpBytes
  <2>2. o \o <<>> = o /\ <<>> \in Seq(X)  BY <1>1, <1>4
  <2> QED  BY <1>3, <1>4, <2>1, <2>2
<1>6. ASSUME NEW s \in Seq(X), NEW b \in X, s \in Q  PROVE Append(s, b) \in Q
  <2>1. PICK n \in Nat : n = Len(s)  OBVIOUS
  <2>2. PICK sb : sb = Append(s, b)  OBVIOUS
  <2>3. /\ sb \in Seq(X) /\ DOMAIN s = 1 .. n /\ DOMAIN sb = 1 .. n + 1 /\ sb[n + 1] = b
        /\ \A i \in 1 .. n : sb[i] = s[i]
    BY <2>1, <2>2
  <2>4. SUFFICES ASSUME \A i \in DOMAIN sb : sb[i] \notin {"CR", "NL", "BS"}
                 PROVE  RunOf(PumpOp(X), base, sb) = [open |-> base.open \o sb, done |-> base.done]
    BY <2>2, <2>3
  <2>5. b \notin {"CR", "NL", "BS"} /\ \A i \in DOMAIN s : s[i] \notin {"CR", "NL", "BS"}
    BY <2>3, <2>4
  <2>6. PICK os : os = o \o s  OBVIOUS
  <2>7. os \in L  BY <1>1, <1>4, <2>6
  <2>8. RunOf(PumpOp(X), base, s) = [open |-> os, done |-> d]  BY <1>3, <1>6, <2>5, <2>6
  <2>9. PICK st : st = [open |-> os, done |-> d]  OBVIOUS
  <2>10. st \in Pumps(X)  BY <1>1, <1>4, <2>7, <2>9 DEF Pumps
  <2>11. RunOf(PumpOp(X), base, sb) = PumpByte(st, b)
    <3>1. \A u \in Seq(X), x \in X :
              RunOf(PumpOp(X), base, Append(u, x)) = PumpByte(RunOf(PumpOp(X), base, u), x)
      BY PumpBytes
    <3> QED  BY <2>2, <2>8, <2>9, <3>1, Zenon
  <2>12. PumpByte(st, b) = [open |-> Append(st.open, b), done |-> st.done]
    BY <2>5, <2>10, PumpStep
  <2>13. Append(os, b) = o \o sb
    <3>1. \A u, v \in Seq(X), x \in X : u \o Append(v, x) = Append(u \o v, x)  BY AppendConcat
    <3>2. o \o Append(s, b) = Append(o \o s, b)  BY <1>1, <1>4, <3>1, Zenon
    <3> QED  BY <2>2, <2>6, <3>2, Zenon
  <2>14. st.open = os /\ st.done = d  BY <2>9
  <2> QED  BY <1>3, <2>11, <2>12, <2>13, <2>14, Zenon
<1> HIDE DEF Q
<1>7. \A s \in Seq(X) : s \in Q  BY <1>5, <1>6, ByAppend
<1> QED  BY <1>7, Zenon DEF Q

\* What the pump has emitted before does not matter.
LEMMA PumpAfter ==
    ASSUME NEW X, "rest" \in X, NEW open \in Seq(X), NEW done \in Seq(Seq(X))
    PROVE  \A s \in Seq(X) :
              RunOf(PumpOp(X), [open |-> open, done |-> done], s)
                  = [open |-> RunOf(PumpOp(X), [open |-> open, done |-> <<>>], s).open,
                     done |-> done \o RunOf(PumpOp(X), [open |-> open, done |-> <<>>], s).done]
<1>1. PICK L, D : L = Seq(X) /\ D = Seq(L)  OBVIOUS
<1>2. PICK old, new : old = [open |-> open, done |-> done] /\ new = [open |-> open, done |-> <<>>]
  OBVIOUS
<1>3. old \in Pumps(X) /\ new \in Pumps(X)
  <2>1. <<>> \in D  BY <1>1
  <2> QED  BY <1>1, <1>2, <2>1 DEF Pumps
<1>4. PICK op : op = PumpOp(X)  OBVIOUS
<1>5. Pumps(X) = [open : L, done : D]  BY <1>1 DEF Pumps
<1> DEFINE Q == {s \in Seq(X) : RunOf(op, old, s) =
                    [open |-> RunOf(op, new, s).open, done |-> done \o RunOf(op, new, s).done]}
<1>6. <<>> \in Q
  <2>1. RunOf(op, old, <<>>) = old /\ RunOf(op, new, <<>>) = new  BY <1>3, <1>4, PumpBytes
  <2>2. done \o <<>> = done  OBVIOUS
  <2>3. new.open = open /\ new.done = <<>>  BY <1>2
  <2>4. <<>> \in Seq(X)  OBVIOUS
  <2> QED  BY <1>2, <2>1, <2>2, <2>3, <2>4
<1>7. ASSUME NEW s \in Seq(X), NEW b \in X, s \in Q  PROVE Append(s, b) \in Q
  <2>1. PICK st : st = RunOf(op, new, s)  OBVIOUS
  <2>2. st \in Pumps(X)  BY <1>3, <1>4, <2>1, PumpBytes
  <2>3. st.open \in L /\ st.done \in D  BY <1>5, <2>2
  <2>4. PICK all : all = done \o st.done  OBVIOUS
  <2>5. all \in D  BY <1>1, <2>3, <2>4
  <2>6. PICK so : so = [open |-> st.open, done |-> all]  OBVIOUS
  <2>7. so \in Pumps(X)  BY <1>5, <2>3, <2>5, <2>6
  <2>8. RunOf(op, old, s) = so  BY <1>7, <2>1, <2>4, <2>6
  <2>9. /\ RunOf(op, old, Append(s, b)) = PumpByte(so, b)
        /\ RunOf(op, new, Append(s, b)) = PumpByte(st, b)
    <3>1. \A base \in Pumps(X), u \in Seq(X), x \in X :
              RunOf(op, base, Append(u, x)) = PumpByte(RunOf(op, base, u), x)
      BY <1>4, PumpBytes
    <3> QED  BY <1>3, <2>1, <2>8, <3>1, Zenon
  <2>10. PICK p, q : p = PumpByte(so, b) /\ q = PumpByte(st, b)  OBVIOUS
  <2>11. so.open = st.open /\ so.done = all  BY <2>6
  <2>12. p = [open |-> q.open, done |-> done \o q.done]
    <3>1. CASE b \in {"CR", "NL"}
      <4>1. p = [open |-> <<>>, done |-> Append(all, st.open)]
        BY <2>7, <2>10, <2>11, <3>1, PumpStep
      <4>2. q = [open |-> <<>>, done |-> Append(st.done, st.open)]  BY <2>2, <2>10, <3>1, PumpStep
      <4>3. done \o Append(st.done, st.open) = Append(all, st.open)
        <5>1. \A u, v \in Seq(L), x \in L : u \o Append(v, x) = Append(u \o v, x)  BY AppendConcat
        <5>2. done \in D  BY <1>1
        <5>3. done \o Append(st.done, st.open) = Append(done \o st.done, st.open)
          BY <1>1, <2>3, <5>1, <5>2, Zenon
        <5> QED  BY <2>4, <5>3, Zenon
      <4>4. q.open = <<>> /\ q.done = Append(st.done, st.open)  BY <4>2
      <4> QED  BY <4>1, <4>3, <4>4, Zenon
    <3>2. CASE b = "BS"
      <4>1. p = [open |-> Pop(st.open), done |-> all]  BY <2>7, <2>10, <2>11, <3>2, PumpStep
      <4>2. q = [open |-> Pop(st.open), done |-> st.done]  BY <2>2, <2>10, <3>2, PumpStep
      <4>3. q.open = Pop(st.open) /\ q.done = st.done  BY <4>2
      <4> QED  BY <2>4, <4>1, <4>3, Zenon
    <3>3. CASE b \notin {"CR", "NL", "BS"}
      <4>1. p = [open |-> Append(st.open, b), done |-> all]
        BY <2>7, <2>10, <2>11, <3>3, PumpStep
      <4>2. q = [open |-> Append(st.open, b), done |-> st.done]  BY <2>2, <2>10, <3>3, PumpStep
      <4>3. q.open = Append(st.open, b) /\ q.done = st.done  BY <4>2
      <4> QED  BY <2>4, <4>1, <4>3, Zenon
    <3> QED  BY <3>1, <3>2, <3>3
  <2>13. Append(s, b) \in Seq(X)  OBVIOUS
  <2> QED  BY <2>9, <2>10, <2>12, <2>13, Zenon
<1> HIDE DEF Q
<1>8. \A s \in Seq(X) : s \in Q  BY <1>6, <1>7, ByAppend
<1> QED  BY <1>2, <1>4, <1>8, Zenon DEF Q

\* Lines of bytes and what one sees of them.
Alike(lines, seen) ==
    Len(lines) = Len(seen) /\ \A i \in 1 .. Len(lines) : Sees(lines[i], seen[i])

\* One line more.
LEMMA AlikeAppend ==
    ASSUME NEW L, NEW P, NEW lines \in Seq(L), NEW seen \in Seq(P), Alike(lines, seen),
           NEW bytes \in L, NEW text \in P, Sees(bytes, text)
    PROVE  Alike(Append(lines, bytes), Append(seen, text))
<1>1. PICK n \in Nat : n = Len(lines) /\ n = Len(seen)
  BY DEF Alike
<1>2. PICK a, b : a = Append(lines, bytes) /\ b = Append(seen, text)  OBVIOUS
<1>3. Len(a) = n + 1 /\ a[n + 1] = bytes /\ \A i \in 1 .. n : a[i] = lines[i]
  <2>1. \A s \in Seq(L), x \in L :
            /\ Len(Append(s, x)) = Len(s) + 1 /\ Append(s, x)[Len(s) + 1] = x
            /\ \A i \in 1 .. Len(s) : Append(s, x)[i] = s[i]
    OBVIOUS
  <2> QED  BY <1>1, <1>2, <2>1, ZenonT(30)
<1>4. Len(b) = n + 1 /\ b[n + 1] = text /\ \A i \in 1 .. n : b[i] = seen[i]  BY <1>1, <1>2
<1>5. \A i \in 1 .. n : Sees(lines[i], seen[i])  BY <1>1 DEF Alike
<1>6. ASSUME NEW i \in 1 .. n + 1  PROVE Sees(a[i], b[i])
  <2>1. CASE i = n + 1  BY <1>3, <1>4, <2>1
  <2>2. CASE i # n + 1
    <3>1. i \in 1 .. n  BY <1>1, <2>2
    <3> QED  BY <1>3, <1>4, <1>5, <3>1
  <2> QED  BY <2>1, <2>2
<1>7. Alike(a, b)  BY <1>3, <1>4, <1>6, Zenon DEF Alike
<1> QED  BY <1>2, <1>7

\* The pump, the screen and the marks agree.
Agree(st, ed, h) == Alike(st.done, ed.done) /\ Line(st.open, ed.open, h.plain)

\* They do so after another key, if it hits nothing but bytes.
LEMMA KeyAgrees ==
    ASSUME \A key \in Keys : Legible(key),
           NEW st \in Pumps(Symbols), NEW ed \in Edits, NEW h \in Hits, Agree(st, ed, h),
           NEW key \in Keys, HitKey(h, key).ok
    PROVE  Agree(RunOf(PumpOp(Symbols), st, key.bytes), EditKey(ed, key), HitKey(h, key))
<1>1. PICK X : X = Symbols  OBVIOUS
<1>2. "rest" \in X  BY <1>1 DEF Symbols
<1>3. st.open \in Seq(X) /\ st.done \in Seq(Seq(X))  BY <1>1 DEF Pumps
<1>4. ed.open \in Seq(Printable) /\ ed.done \in Seq(Seq(Printable))  BY DEF Edits
<1>5. h.plain \in Seq(BOOLEAN) /\ h.ok \in BOOLEAN  BY DEF Hits
<1>6. Alike(st.done, ed.done) /\ Line(st.open, ed.open, h.plain)  BY DEF Agree
<1>7. \A b \in X : RunOf(PumpOp(X), st, <<b>>) = PumpByte(st, b)
  <2> SUFFICES ASSUME NEW b \in X  PROVE RunOf(PumpOp(X), st, <<b>>) = PumpByte(st, b)
    OBVIOUS
  <2>1. PICK e \in Seq(X) : e = <<>>
    <3>1. <<>> \in Seq(X)  OBVIOUS
    <3> QED  BY <3>1
  <2>2. <<b>> = Append(e, b)  BY <2>1
  <2>3. RunOf(PumpOp(X), st, e) = st  BY <1>1, <1>2, <2>1, PumpBytes
  <2>4. RunOf(PumpOp(X), st, Append(e, b)) = PumpByte(RunOf(PumpOp(X), st, e), b)
    BY <1>1, <1>2, PumpBytes
  <2> QED  BY <2>2, <2>3, <2>4
<1>0. \A b : key.bytes = <<b>> => b \in X
  <2>1. key.bytes \in Seq(X)
    <3>1. \A s \in Seq(STRING) : s \in Seq(X)  BY <1>1 DEF Symbols
    <3> QED  BY <3>1, CaptureAssumption
  <2>2. \A b : <<b>> \in Seq(X) => b \in X
    <3> SUFFICES ASSUME NEW b, <<b>> \in Seq(X)  PROVE b \in X
      OBVIOUS
    <3>1. <<b>>[1] \in X /\ <<b>>[1] = b  OBVIOUS
    <3> QED  BY <3>1
  <2> QED  BY <2>1, <2>2, Zenon
<1>8. PICK sn : sn = RunOf(PumpOp(X), st, key.bytes)  OBVIOUS
<1>9. PICK en, hn : en = EditKey(ed, key) /\ hn = HitKey(h, key)  OBVIOUS
<1>10. CASE key = Enter
  <2>1. sn = [open |-> <<>>, done |-> Append(st.done, st.open)]
    <3>1. key.bytes = <<"CR">>  BY <1>10, KeysDiffer
    <3>2. "CR" \in X  BY <1>0, <3>1, Zenon
    <3>3. sn = PumpByte(st, "CR")  BY <1>7, <1>8, <3>1, <3>2, Zenon
    <3> QED  BY <1>1, <1>2, <3>2, <3>3, PumpStep
  <2>2. en = [open |-> <<>>, done |-> Append(ed.done, ed.open)]  BY <1>9, <1>10, EditStep
  <2>3. hn = [plain |-> <<>>, ok |-> h.ok]  BY <1>9, <1>10, HitStep
  <2>4. Sees(st.open, ed.open)  BY <1>6, LineSeen
  <2>5. Alike(Append(st.done, st.open), Append(ed.done, ed.open))
    <3>1. PICK L, P : L = Seq(X) /\ P = Seq(Printable)  OBVIOUS
    <3> QED  BY <1>3, <1>4, <1>6, <2>4, <3>1, AlikeAppend
  <2>6. /\ sn.open = <<>> /\ sn.done = Append(st.done, st.open)
        /\ en.open = <<>> /\ en.done = Append(ed.done, ed.open)
        /\ hn.plain = <<>> /\ hn.ok = h.ok
    BY <2>1, <2>2, <2>3
  <2>7. Agree(sn, en, hn)  BY <2>5, <2>6, LineEmpty, Zenon DEF Agree
  <2> QED  BY <1>1, <1>8, <1>9, <2>6, <2>7
<1>11. CASE key = Backspace
  <2>1. sn = [open |-> Pop(st.open), done |-> st.done]
    <3>1. key.bytes = <<"BS">>  BY <1>11, KeysDiffer
    <3>2. "BS" \in X  BY <1>0, <3>1, Zenon
    <3>3. sn = PumpByte(st, "BS")  BY <1>7, <1>8, <3>1, <3>2, Zenon
    <3> QED  BY <1>1, <1>2, <3>2, <3>3, PumpStep
  <2>2. en = [open |-> Pop(ed.open), done |-> ed.done]  BY <1>9, <1>11, EditStep
  <2>3. /\ h.plain = <<>> => hn = h
        /\ h.plain # <<>> => hn = [plain |-> Front(h.plain), ok |-> h.ok /\ Last(h.plain)]
    BY <1>9, <1>11, HitStep
  <2>4. PICK cut : cut = IF h.plain = <<>> THEN <<>> ELSE Front(h.plain)  OBVIOUS
  <2>5. hn.plain = cut /\ h.ok /\ (h.plain # <<>> => Last(h.plain))
    <3>1. CASE h.plain = <<>>  BY <1>9, <2>3, <2>4, <3>1
    <3>2. CASE h.plain # <<>>
      <4>1. PICK g : g = (h.ok /\ Last(h.plain))  OBVIOUS
      <4>2. hn = [plain |-> cut, ok |-> g]  BY <2>3, <2>4, <3>2, <4>1
      <4>3. hn.plain = cut /\ hn.ok = g  BY <4>2
      <4> QED  BY <1>9, <4>1, <4>3, Zenon
    <3> QED  BY <3>1, <3>2
  <2>6. Line(Pop(st.open), Pop(ed.open), cut)  BY <1>5, <1>6, <2>4, <2>5, LineBack
  <2>7. sn.open = Pop(st.open) /\ sn.done = st.done /\ en.open = Pop(ed.open) /\ en.done = ed.done
    BY <2>1, <2>2
  <2>8. Agree(sn, en, hn)  BY <1>6, <2>5, <2>6, <2>7, Zenon DEF Agree
  <2> QED  BY <1>1, <1>8, <1>9, <2>5, <2>8
<1>12. CASE key # Enter /\ key # Backspace
  <2>1. key.bytes \in Seq(X) /\ \A i \in DOMAIN key.bytes : key.bytes[i] \notin {"CR", "NL", "BS"}
    BY <1>1, <1>12, KeyIs
  <2>2. sn = [open |-> st.open \o key.bytes, done |-> st.done]
    <3>1. PICK kb \in Seq(X) : kb = key.bytes  BY <2>1
    <3>2. RunOf(PumpOp(X), st, kb) = [open |-> st.open \o kb, done |-> st.done]
      BY <1>1, <1>2, <2>1, <3>1, PumpKey
    <3> QED  BY <1>8, <3>1, <3>2
  <2>3. en = [open |-> ed.open \o key.shows, done |-> ed.done]  BY <1>9, <1>12, EditStep
  <2>4. hn = [plain |-> h.plain \o Marks(key), ok |-> h.ok]  BY <1>9, <1>12, HitStep
  <2>5. Line(st.open \o key.bytes, ed.open \o key.shows, h.plain \o Marks(key))
    BY <1>5, <1>6, <1>12, LineKey
  <2>6. /\ sn.open = st.open \o key.bytes /\ sn.done = st.done
        /\ en.open = ed.open \o key.shows /\ en.done = ed.done
        /\ hn.plain = h.plain \o Marks(key) /\ hn.ok = h.ok
    BY <2>2, <2>3, <2>4
  <2>7. Agree(sn, en, hn)  BY <1>6, <2>5, <2>6, Zenon DEF Agree
  <2> QED  BY <1>1, <1>8, <1>9, <2>6, <2>7
<1> QED  BY <1>10, <1>11, <1>12

\* The bytes of what is typed.
All(items) == FlattenSeq(BytesOf(items))

\* Key by key.
LEMMA KeysBytes ==
    /\ All(<<>>) = <<>>
    /\ \A items \in Seq(Keys) : All(items) \in Seq(Symbols)
    /\ \A items \in Seq(Keys), key \in Keys :
          key.bytes \in Seq(Symbols) /\ All(Append(items, key)) = All(items) \o key.bytes
<1>1. PICK L : L = Seq(Symbols)  OBVIOUS
<1>2. \A key \in Keys : key.bytes \in L
  <2>1. \A s \in Seq(STRING) : s \in L  BY <1>1 DEF Symbols
  <2> QED  BY <2>1, CaptureAssumption
<1>3. All(<<>>) = <<>>
  <2>1. BytesOf(<<>>) = <<>>  BY DEF BytesOf
  <2> QED  BY <2>1, FlattenEmpty DEF All
<1>4. ASSUME NEW items \in Seq(Keys)  PROVE BytesOf(items) \in Seq(L)
  <2>1. PICK n \in Nat : DOMAIN items = 1 .. n /\ \A i \in 1 .. n : items[i] \in Keys  OBVIOUS
  <2>2. \A i \in 1 .. n : items[i].bytes \in L  BY <1>2, <2>1
  <2> QED  BY <2>1, <2>2 DEF BytesOf
<1>5. \A bs \in Seq(L) : FlattenSeq(bs) \in L  BY <1>1, FlattenType
<1>6. \A bs \in Seq(L), b \in L : FlattenSeq(Append(bs, b)) = FlattenSeq(bs) \o b
  BY <1>1, FlattenAppend
<1>7. \A items \in Seq(Keys), key \in Keys :
          BytesOf(Append(items, key)) = Append(BytesOf(items), key.bytes)
  BY ItemsAppend
<1>8. \A items \in Seq(Keys), key \in Keys :
          key.bytes \in L /\ All(Append(items, key)) = All(items) \o key.bytes
  BY <1>2, <1>4, <1>6, <1>7, Zenon DEF All
<1>9. \A items \in Seq(Keys) : All(items) \in L  BY <1>4, <1>5, Zenon DEF All
<1> QED  BY <1>1, <1>3, <1>8, <1>9, Zenon

\* What was hit stays hit.
LEMMA HitKeeps ==
    ASSUME \A key \in Keys : Legible(key)
    PROVE  \A h \in Hits, key \in Keys : HitKey(h, key).ok => h.ok
<1> SUFFICES ASSUME NEW h \in Hits, NEW key \in Keys, HitKey(h, key).ok  PROVE h.ok
  OBVIOUS
<1>1. CASE key = Enter
  <2>1. HitKey(h, key) = [plain |-> <<>>, ok |-> h.ok]  BY <1>1, HitStep
  <2> QED  BY <2>1
<1>2. CASE key = Backspace /\ h.plain = <<>>
  <2>1. HitKey(h, key) = h  BY <1>2, HitStep
  <2> QED  BY <2>1
<1>3. CASE key = Backspace /\ h.plain # <<>>
  <2>1. PICK g : g = (h.ok /\ Last(h.plain))  OBVIOUS
  <2>2. PICK f : f = Front(h.plain)  OBVIOUS
  <2>3. HitKey(h, key) = [plain |-> f, ok |-> g]  BY <1>3, <2>1, <2>2, HitStep
  <2>4. HitKey(h, key).ok = g  BY <2>3
  <2> QED  BY <2>1, <2>4, Zenon
<1>4. CASE key # Enter /\ key # Backspace
  <2>1. HitKey(h, key) = [plain |-> h.plain \o Marks(key), ok |-> h.ok]  BY <1>4, HitStep
  <2> QED  BY <2>1
<1> QED  BY <1>1, <1>2, <1>3, <1>4

\* What the pump makes of the bytes of keys is what one sees, if every Backspace
\* has hit a byte.
LEMMA KeysAgree ==
    ASSUME \A key \in Keys : Legible(key)
    PROVE  \A typed \in Seq(Keys) : Exact(typed) =>
              /\ Alike(RunOf(PumpOp(Symbols), NoLines, All(typed)).done, Edited(typed).done)
              /\ Sees(RunOf(PumpOp(Symbols), NoLines, All(typed)).open, Edited(typed).open)
<1>1. PICK X : X = Symbols  OBVIOUS
<1>2. "rest" \in X  BY <1>1 DEF Symbols
<1>3. NoLines \in Pumps(X)
  <2>1. <<>> \in Seq(X) /\ <<>> \in Seq(Seq(X))  OBVIOUS
  <2> QED  BY <2>1 DEF NoLines, Pumps
<1> DEFINE Pumped(typed) == RunOf(PumpOp(X), NoLines, All(typed))
           Seen(typed) == RunOf(EditOp, NoLines, typed)
           Hit(typed) == RunOf(HitOp, NoHit, typed)
           Q == {typed \in Seq(Keys) : Hit(typed).ok =>
                    Agree(Pumped(typed), Seen(typed), Hit(typed))}
<1>4. EditOp \in [Keys -> [Edits -> Edits]] /\ NoLines \in Edits  BY EditType
<1>5. HitOp \in [Keys -> [Hits -> Hits]] /\ NoHit \in Hits  BY HitType
<1>6. <<>> \in Q
  <2>1. Pumped(<<>>) = NoLines  BY <1>2, <1>3, KeysBytes, PumpBytes
  <2>2. Seen(<<>>) = NoLines
    <3>1. PICK T : T = Edits  OBVIOUS
    <3>2. \A base \in T : RunOf(EditOp, base, <<>>) = base  BY <1>4, <3>1, RunEmpty
    <3> QED  BY <1>4, <3>1, <3>2
  <2>3. Hit(<<>>) = NoHit
    <3>1. PICK T : T = Hits  OBVIOUS
    <3>2. \A base \in T : RunOf(HitOp, base, <<>>) = base  BY <1>5, <3>1, RunEmpty
    <3> QED  BY <1>5, <3>1, <3>2
  <2>4. /\ NoLines.open = <<>> /\ NoLines.done = <<>> /\ NoHit.plain = <<>>
    BY DEF NoLines, NoHit
  <2>5. Alike(<<>>, <<>>)
    <3>1. Len(<<>>) = 0  OBVIOUS
    <3> QED  BY <3>1 DEF Alike
  <2>6. Agree(NoLines, NoLines, NoHit)  BY <2>4, <2>5, LineEmpty DEF Agree
  <2>7. <<>> \in Seq(Keys)  OBVIOUS
  <2> HIDE DEF Pumped, Seen, Hit
  <2> QED  BY <2>1, <2>2, <2>3, <2>6, <2>7
<1>7. ASSUME NEW typed \in Seq(Keys), NEW key \in Keys, typed \in Q
      PROVE  Append(typed, key) \in Q
  <2>1. PICK st \in Pumps(X) : st = Pumped(typed)
    <3>1. All(typed) \in Seq(X)  BY <1>1, KeysBytes
    <3>2. \A s \in Seq(X) : RunOf(PumpOp(X), NoLines, s) \in Pumps(X)  BY <1>2, <1>3, PumpBytes
    <3> QED  BY <3>1, <3>2
  <2>2. PICK ed \in Edits : ed = Seen(typed)
    <3>1. PICK T : T = Edits  OBVIOUS
    <3>2. \A base \in T, s \in Seq(Keys) : RunOf(EditOp, base, s) \in T  BY <1>4, <3>1, RunType
    <3> QED  BY <1>4, <3>1, <3>2
  <2>3. PICK h \in Hits : h = Hit(typed)
    <3>1. PICK T : T = Hits  OBVIOUS
    <3>2. \A base \in T, s \in Seq(Keys) : RunOf(HitOp, base, s) \in T  BY <1>5, <3>1, RunType
    <3> QED  BY <1>5, <3>1, <3>2
  <2>4. Pumped(Append(typed, key)) = RunOf(PumpOp(X), st, key.bytes)
    <3>1. /\ All(typed) \in Seq(X) /\ key.bytes \in Seq(X)
          /\ All(Append(typed, key)) = All(typed) \o key.bytes
      BY <1>1, KeysBytes
    <3>2. \A s, t \in Seq(X) : RunOf(PumpOp(X), NoLines, s \o t)
                                  = RunOf(PumpOp(X), RunOf(PumpOp(X), NoLines, s), t)
      BY <1>2, <1>3, PumpBytes
    <3> QED  BY <2>1, <3>1, <3>2, Zenon
  <2>5. Seen(Append(typed, key)) = EditKey(ed, key)
    <3>1. PICK T : T = Edits  OBVIOUS
    <3>2. \A base \in T, s \in Seq(Keys), x \in Keys :
              RunOf(EditOp, base, Append(s, x)) = EditOp[x][RunOf(EditOp, base, s)]
      BY <1>4, <3>1, RunAppend
    <3>3. Seen(Append(typed, key)) = EditOp[key][ed]  BY <1>4, <2>2, <3>1, <3>2, Zenon
    <3>4. EditOp[key][ed] = EditKey(ed, key)  BY DEF EditOp
    <3> QED  BY <3>3, <3>4, Zenon
  <2>6. Hit(Append(typed, key)) = HitKey(h, key)
    <3>1. PICK T : T = Hits  OBVIOUS
    <3>2. \A base \in T, s \in Seq(Keys), x \in Keys :
              RunOf(HitOp, base, Append(s, x)) = HitOp[x][RunOf(HitOp, base, s)]
      BY <1>5, <3>1, RunAppend
    <3>3. Hit(Append(typed, key)) = HitOp[key][h]  BY <1>5, <2>3, <3>1, <3>2, Zenon
    <3>4. HitOp[key][h] = HitKey(h, key)  BY DEF HitOp
    <3> QED  BY <3>3, <3>4, Zenon
  <2> HIDE DEF Pumped, Seen, Hit
  <2>7. h.ok => Agree(st, ed, h)  BY <1>7, <2>1, <2>2, <2>3
  <2>8. ASSUME HitKey(h, key).ok
        PROVE  Agree(RunOf(PumpOp(X), st, key.bytes), EditKey(ed, key), HitKey(h, key))
    <3>1. h.ok
      <4>1. HitKey(h, key).ok => h.ok  BY HitKeeps
      <4> QED  BY <2>8, <4>1
    <3> QED  BY <1>1, <2>7, <2>8, <3>1, KeyAgrees
  <2>9. Append(typed, key) \in Seq(Keys)  OBVIOUS
  <2> QED  BY <2>4, <2>5, <2>6, <2>8, <2>9
<1> HIDE DEF Q, Pumped, Seen, Hit
<1>8. \A typed \in Seq(Keys) : typed \in Q  BY <1>6, <1>7, ByAppend
<1>9. ASSUME NEW typed \in Seq(Keys), Exact(typed)
      PROVE  Alike(Pumped(typed).done, Edited(typed).done) /\ Sees(Pumped(typed).open, Edited(typed).open)
  <2>1. Hit(typed).ok  BY <1>9, HitRun DEF Hit
  <2>2. Edited(typed) = Seen(typed)  BY EditRun DEF Seen
  <2>3. Agree(Pumped(typed), Seen(typed), Hit(typed))  BY <1>8, <2>1 DEF Q
  <2> QED  BY <2>2, <2>3, LineSeen, Zenon DEF Agree
<1> QED  BY <1>1, <1>9 DEF Pumped

\* The bytes of some keys begin those of all.
LEMMA KeysPrefix ==
    \A typed \in Seq(Keys) : \A n \in 0 .. Len(typed) :
        /\ SubSeq(typed, 1, n) \in Seq(Keys)
        /\ \E more \in Seq(Symbols) : All(typed) = All(SubSeq(typed, 1, n)) \o more
<1>1. PICK X : X = Symbols  OBVIOUS
<1>0. \A s, t, u \in Seq(X) : (s \o t) \o u = s \o (t \o u)  BY Associative
<1> DEFINE Q == {typed \in Seq(Keys) : \A n \in 0 .. Len(typed) :
                    \E more \in Seq(X) : All(typed) = All(SubSeq(typed, 1, n)) \o more}
<1>2. <<>> \in Q
  <2>1. <<>> \in Seq(Keys) /\ Len(<<>>) = 0 /\ SubSeq(<<>>, 1, 0) = <<>>  OBVIOUS
  <2>2. <<>> \in Seq(X) /\ <<>> \o <<>> = <<>>  OBVIOUS
  <2>3. All(<<>>) = <<>>  BY KeysBytes
  <2>4. PICK e : e = <<>>  OBVIOUS
  <2>5. e \in Seq(Keys) /\ Len(e) = 0 /\ SubSeq(e, 1, 0) = e /\ e \in Seq(X) /\ e \o e = e /\ All(e) = e
    BY <2>1, <2>2, <2>3, <2>4
  <2>6. \A n \in 0 .. Len(e) : n = 0  BY <2>5
  <2>7. \A n \in 0 .. Len(e) : \E more \in Seq(X) : All(e) = All(SubSeq(e, 1, n)) \o more
    BY <2>5, <2>6, Zenon
  <2> QED  BY <2>4, <2>5, <2>7, Zenon
<1>3. ASSUME NEW typed \in Seq(Keys), NEW key \in Keys, typed \in Q
      PROVE  Append(typed, key) \in Q
  <2>1. PICK tk : tk = Append(typed, key)  OBVIOUS
  <2>2. PICK l \in Nat : l = Len(typed)  OBVIOUS
  <2>3. tk \in Seq(Keys) /\ Len(tk) = l + 1 /\ SubSeq(tk, 1, l + 1) = tk  BY <2>1, <2>2
  <2>4. \A n \in 0 .. l : SubSeq(tk, 1, n) = SubSeq(typed, 1, n)  BY <2>1, <2>2
  <2>5. PICK all \in Seq(X) : all = All(typed)  BY <1>1, KeysBytes
  <2>6. PICK kb \in Seq(X) : kb = key.bytes  BY <1>1, KeysBytes
  <2>7. All(tk) = all \o kb  BY <2>1, <2>5, <2>6, KeysBytes
  <2>8. ASSUME NEW n \in 0 .. l + 1
        PROVE  \E more \in Seq(X) : All(tk) = All(SubSeq(tk, 1, n)) \o more
    <3>1. CASE n = l + 1
      <4>1. <<>> \in Seq(X)  OBVIOUS
      <4>2. All(tk) \o <<>> = All(tk)
        <5>1. \A s \in Seq(X) : s \o <<>> = s  OBVIOUS
        <5> QED  BY <1>1, <2>3, <5>1, KeysBytes
      <4> QED  BY <2>3, <3>1, <4>1, <4>2
    <3>2. CASE n # l + 1
      <4>1. n \in 0 .. l  BY <2>2, <3>2
      <4>2. PICK more \in Seq(X) : all = All(SubSeq(typed, 1, n)) \o more
        BY <1>3, <2>2, <2>5, <4>1
      <4>3. PICK begin \in Seq(X) : begin = All(SubSeq(typed, 1, n))
        <5>1. SubSeq(typed, 1, n) \in Seq(Keys)  BY <2>2, <4>1
        <5> QED  BY <1>1, <5>1, KeysBytes
      <4>4. PICK rest \in Seq(X) : rest = more \o kb
        <5>1. more \o kb \in Seq(X)  OBVIOUS
        <5> QED  BY <5>1
      <4>5. All(tk) = begin \o rest
        <5>1. (begin \o more) \o kb = begin \o (more \o kb)  BY <1>0, ZenonT(30)
        <5> QED  BY <2>7, <4>2, <4>3, <4>4, <5>1, Zenon
      <4>6. SubSeq(tk, 1, n) = SubSeq(typed, 1, n)  BY <2>4, <4>1
      <4> QED  BY <4>3, <4>5, <4>6, Zenon
    <3> QED  BY <3>1, <3>2
  <2> QED  BY <2>1, <2>3, <2>8, Zenon
<1> HIDE DEF Q
<1>4. \A typed \in Seq(Keys) : typed \in Q  BY <1>2, <1>3, ByAppend
<1>5. \A typed \in Seq(Keys) : \A n \in 0 .. Len(typed) : SubSeq(typed, 1, n) \in Seq(Keys)
  OBVIOUS
<1> QED  BY <1>1, <1>4, <1>5, Zenon DEF Q

-----------------------------------------------------------------------------
(* The lines on record.                                                     *)

\* It does not matter which set keeps the same elements.
LEMMA OnlyAgrees ==
    ASSUME NEW X, NEW s \in Seq(X), NEW S, NEW R, \A i \in 1 .. Len(s) : s[i] \in S <=> s[i] \in R
    PROVE  Only(s, S) = Only(s, R)
<1>1. Only(Only(s, S), R) = Only(s, R)  BY OnlyTwice
<1>2. PICK t \in Seq(X) : t = Only(s, S)  BY OnlyType
<1>0. \A x : (\E i \in 1 .. Len(Only(s, S)) : Only(s, S)[i] = x)
                  <=> x \in S /\ \E i \in 1 .. Len(s) : s[i] = x
  BY OnlyMembers
<1>3. \A i \in 1 .. Len(t) : t[i] \in R
  <2> SUFFICES ASSUME NEW i \in 1 .. Len(t)  PROVE t[i] \in R
    OBVIOUS
  <2>1. PICK x : x = t[i]  OBVIOUS
  <2>2. x \in S /\ \E j \in 1 .. Len(s) : s[j] = x  BY <1>0, <1>2, <2>1, Zenon
  <2> QED  BY <2>1, <2>2
<1>4. Only(t, R) = t  BY <1>3, OnlyAll
<1> QED  BY <1>1, <1>2, <1>4

\* The texts of the lines that are not blank.
Told(lines) ==
    LET clean == [i \in DOMAIN lines |-> CleanLine(lines[i])]
        shown == Only(clean, Range(clean) \ {<<>>})
    IN  [i \in DOMAIN shown |-> Text(shown[i])]

Cleaned == [bytes \in Seq(Symbols) |-> CleanLine(bytes)]
Texts == [chars \in Seq(Printable) |-> Text(chars)]
Visible == Seq(Printable) \ {<<>>}

\* Told as two functions of the elements and a filter.
LEMMA ToldIs ==
    \A lines \in Seq(Seq(Symbols)) :
        /\ Mapped(Cleaned, lines) \in Seq(Seq(Printable))
        /\ Told(lines) = Mapped(Texts, Only(Mapped(Cleaned, lines), Visible))
<1> SUFFICES ASSUME NEW lines \in Seq(Seq(Symbols))
             PROVE  /\ Mapped(Cleaned, lines) \in Seq(Seq(Printable))
                    /\ Told(lines) = Mapped(Texts, Only(Mapped(Cleaned, lines), Visible))
  OBVIOUS
<1>1. PICK B, L : B = Seq(Symbols) /\ L = Seq(Printable)  OBVIOUS
<1>2. PICK n \in Nat : DOMAIN lines = 1 .. n /\ \A i \in 1 .. n : lines[i] \in B  BY <1>1
<1>3. PICK clean : clean = [i \in DOMAIN lines |-> CleanLine(lines[i])]  OBVIOUS
<1>4. \A b \in B : CleanLine(b) \in L /\ Cleaned[b] = CleanLine(b)
  <2>1. {"eacute", "lost"} \subseteq Symbols  BY DEF Symbols
  <2>2. \A b \in B : CleanLine(b) \in L  BY <1>1, <2>1, CleanLineType
  <2> QED  BY <1>1, <2>2 DEF Cleaned
<1>5. Mapped(Cleaned, lines) = clean
  <2>1. \A i \in 1 .. n : Cleaned[lines[i]] = CleanLine(lines[i])  BY <1>2, <1>4
  <2> QED  BY <1>2, <1>3, <2>1 DEF Mapped
<1>6. clean \in Seq(L)
  <2>1. \A i \in 1 .. n : CleanLine(lines[i]) \in L  BY <1>2, <1>4
  <2> QED  BY <1>2, <1>3, <2>1
<1>7. Only(clean, Range(clean) \ {<<>>}) = Only(clean, L \ {<<>>})
  <2>1. \A i \in 1 .. Len(clean) :
            clean[i] \in Range(clean) \ {<<>>} <=> clean[i] \in L \ {<<>>}
    <3>1. \A i \in 1 .. Len(clean) : clean[i] \in L /\ clean[i] \in Range(clean)
      BY <1>6 DEF Range
    <3> QED  BY <3>1
  <2>2. \A S, R : (\A i \in 1 .. Len(clean) : clean[i] \in S <=> clean[i] \in R)
                    => Only(clean, S) = Only(clean, R)
    BY <1>6, OnlyAgrees
  <2> QED  BY <2>1, <2>2, Zenon
<1>8. PICK shown \in Seq(L) : shown = Only(clean, L \ {<<>>})  BY <1>6, OnlyType
<1>9. Told(lines) = [i \in DOMAIN shown |-> Text(shown[i])]
  BY <1>3, <1>7, <1>8, Zenon DEF Told
<1>10. Mapped(Texts, shown) = [i \in DOMAIN shown |-> Text(shown[i])]
  <2>1. \A i \in DOMAIN shown : shown[i] \in L  OBVIOUS
  <2>2. \A i \in DOMAIN shown : Texts[shown[i]] = Text(shown[i])  BY <1>1, <2>1 DEF Texts
  <2> QED  BY <2>2 DEF Mapped
<1> QED  BY <1>1, <1>5, <1>6, <1>8, <1>9, <1>10 DEF Visible

\* The texts of lines follow one another.
LEMMA TextsConcat ==
    \A u, v \in Seq(Seq(Printable)) : Mapped(Texts, u \o v) = Mapped(Texts, u) \o Mapped(Texts, v)
<1>1. \A X : \A u, v \in Seq(X) : Mapped(Texts, u \o v) = Mapped(Texts, u) \o Mapped(Texts, v)
  BY MapsConcat
<1> QED  BY <1>1, Zenon

\* Lines are told one after the other.
LEMMA ToldConcat ==
    \A a, c \in Seq(Seq(Symbols)) : Told(a \o c) = Told(a) \o Told(c)
<1> SUFFICES ASSUME NEW a \in Seq(Seq(Symbols)), NEW c \in Seq(Seq(Symbols))
             PROVE  Told(a \o c) = Told(a) \o Told(c)
  OBVIOUS
<1>1. PICK B, L : B = Seq(Symbols) /\ L = Seq(Printable)  OBVIOUS
<1>2. a \in Seq(B) /\ c \in Seq(B) /\ a \o c \in Seq(B)  BY <1>1
<1>3. PICK x \in Seq(L), y \in Seq(L) : x = Mapped(Cleaned, a) /\ y = Mapped(Cleaned, c)
  BY <1>1, ToldIs
<1>4. Mapped(Cleaned, a \o c) = x \o y
  <2>1. \A u, v \in Seq(B) : Mapped(Cleaned, u \o v) = Mapped(Cleaned, u) \o Mapped(Cleaned, v)
    BY MapsConcat
  <2> QED  BY <1>2, <1>3, <2>1, Zenon
<1>5. Only(x \o y, Visible) = Only(x, Visible) \o Only(y, Visible)  BY OnlyConcat
<1>6. PICK p \in Seq(L), q \in Seq(L) : p = Only(x, Visible) /\ q = Only(y, Visible)  BY OnlyType
<1>7. Mapped(Texts, p \o q) = Mapped(Texts, p) \o Mapped(Texts, q)
  BY <1>1, TextsConcat, Zenon
<1>8. /\ Told(a \o c) = Mapped(Texts, Only(Mapped(Cleaned, a \o c), Visible))
      /\ Told(a) = Mapped(Texts, Only(Mapped(Cleaned, a), Visible))
      /\ Told(c) = Mapped(Texts, Only(Mapped(Cleaned, c), Visible))
  BY <1>1, <1>2, ToldIs, Zenon
<1> QED  BY <1>3, <1>4, <1>5, <1>6, <1>7, <1>8, Zenon

\* The records of lines and what they commit to.
TypedOnes == {r \in Made : r.of.src = "typed"}
Input == [r \in Made |-> r.event.inputHash]
Hashes(rs) == Mapped(Input, Only(rs, TypedOnes))

\* Records are made one after the other.
LEMMA HashesConcat ==
    \A a, c \in Seq(Made) : Hashes(a \o c) = Hashes(a) \o Hashes(c)
<1> SUFFICES ASSUME NEW a \in Seq(Made), NEW c \in Seq(Made)
             PROVE  Hashes(a \o c) = Hashes(a) \o Hashes(c)
  OBVIOUS
<1>1. PICK M : M = Made  OBVIOUS
<1> HIDE DEF Made
<1>2. a \in Seq(M) /\ c \in Seq(M)  BY <1>1
<1>3. Only(a \o c, TypedOnes) = Only(a, TypedOnes) \o Only(c, TypedOnes)  BY <1>2, OnlyConcat
<1>4. PICK p \in Seq(M), q \in Seq(M) : p = Only(a, TypedOnes) /\ q = Only(c, TypedOnes)
  BY <1>2, OnlyType
<1>5. Mapped(Input, p \o q) = Mapped(Input, p) \o Mapped(Input, q)
  <2>1. \A u, v \in Seq(M) : Mapped(Input, u \o v) = Mapped(Input, u) \o Mapped(Input, v)
    BY SMTT(30), MapsConcat
  <2> QED  BY <2>1, Zenon
<1> QED  BY <1>3, <1>4, <1>5, Zenon DEF Hashes

\* What is no line adds nothing.
LEMMA HashesNone ==
    \A rs \in Seq(Made) : (\A i \in DOMAIN rs : rs[i].of.src # "typed") => Hashes(rs) = <<>>
<1> SUFFICES ASSUME NEW rs \in Seq(Made), \A i \in DOMAIN rs : rs[i].of.src # "typed"
             PROVE  Hashes(rs) = <<>>
  OBVIOUS
<1>1. PICK M : M = Made  OBVIOUS
<1> HIDE DEF Made
<1>2. rs \in Seq(M)  BY <1>1
<1>3. \A i \in 1 .. Len(rs) : rs[i] \notin TypedOnes
  <2>1. DOMAIN rs = 1 .. Len(rs)  BY <1>2
  <2> QED  BY <2>1 DEF TypedOnes
<1>4. Only(rs, TypedOnes) = <<>>  BY <1>2, <1>3, OnlyNone
<1> QED  BY <1>4 DEF Hashes, Mapped

\* The records of lines commit to their texts.
LEMMA HashesTold ==
    \A lines \in Seq(Seq(Symbols)) :
        LineRecords(lines) \in Seq(Made) /\ Hashes(LineRecords(lines)) = Told(lines)
<1> SUFFICES ASSUME NEW lines \in Seq(Seq(Symbols))
             PROVE  LineRecords(lines) \in Seq(Made) /\ Hashes(LineRecords(lines)) = Told(lines)
  OBVIOUS
<1>1. PICK rs : rs = LineRecords(lines)  OBVIOUS
<1>2. rs \in Seq(Typed)
  <2>1. {"eacute", "lost"} \subseteq Symbols  BY DEF Symbols
  <2>2. \A l \in Seq(Seq(Symbols)) : LineRecords(l) \in Seq(Typed)  BY <2>1, LinesType
  <2> QED  BY <1>1, <2>2, Zenon
<1>3. Typed \subseteq TypedOnes
  <2> SUFFICES ASSUME NEW r \in Typed  PROVE r \in TypedOnes
    OBVIOUS
  <2>1. PICK text \in Seq(PlainWord) : r = [of |-> [src |-> "typed"], event |-> CommandSubmitted(text)]
    BY Zenon DEF Typed
  <2>2. r.of.src = "typed"  BY <2>1
  <2>3. r \in Made
    <3> HIDE DEF Typed
    <3> QED  BY DEF Made
  <2> QED  BY <2>2, <2>3 DEF TypedOnes
<1>4. TypedOnes \subseteq Made  BY DEF TypedOnes
<1>5. PICK M, N : M = Made /\ N = TypedOnes  OBVIOUS
<1>6. rs \in Seq(N) /\ rs \in Seq(M)
  <2>1. \A S, T : S \subseteq T => \A s \in Seq(S) : s \in Seq(T)  OBVIOUS
  <2> QED  BY <1>2, <1>3, <1>4, <1>5, <2>1, Zenon
<1>7. Only(rs, N) = rs
  <2>1. \A i \in 1 .. Len(rs) : rs[i] \in N  BY <1>6
  <2> QED  BY <1>6, <2>1, OnlyAll
<1>8. PICK clean : clean = [i \in DOMAIN lines |-> CleanLine(lines[i])]  OBVIOUS
<1>9. PICK shown : shown = Only(clean, Range(clean) \ {<<>>})  OBVIOUS
<1>10. Told(lines) = [i \in DOMAIN shown |-> Text(shown[i])]  BY <1>8, <1>9, Zenon DEF Told
<1>11. rs = Of([src |-> "typed"], [i \in DOMAIN shown |-> CommandSubmitted(Text(shown[i]))])
  BY <1>1, <1>8, <1>9, Zenon DEF LineRecords
<1>12. DOMAIN rs = DOMAIN shown /\ \A i \in DOMAIN rs : rs[i].event = CommandSubmitted(Text(shown[i]))
  BY <1>11 DEF Of
<1>13. \A i \in DOMAIN rs : rs[i].event.inputHash = Text(shown[i])
  <2>1. \A text : CommandSubmitted(text).inputHash = text  BY DEF CommandSubmitted, Build
  <2> QED  BY <1>12, <2>1
<1>14. \A i \in DOMAIN rs : Input[rs[i]] = rs[i].event.inputHash
  <2>1. \A i \in DOMAIN rs : rs[i] \in M  BY <1>6
  <2>2. \A r \in M : Input[r] = r.event.inputHash  BY <1>5 DEF Input
  <2> QED  BY <2>1, <2>2
<1>15. Mapped(Input, rs) = Told(lines)
  <2>1. \A i \in DOMAIN shown : Input[rs[i]] = Text(shown[i])  BY <1>12, <1>13, <1>14
  <2> QED  BY <1>10, <1>12, <2>1 DEF Mapped
<1> QED  BY <1>1, <1>5, <1>6, <1>7, <1>15 DEF Hashes

-----------------------------------------------------------------------------
\* What the stdin pump has made of the bytes it has read.
Pumped(read) == RunOf(PumpOp(Symbols), NoLines, read)

\* Some bytes have been read, in the order typed; the line begun and the texts of the
\* lines on record are what the pump makes of them at once.
KeysInv == \E read \in Seq(Symbols) :
    /\ Len(read) = sent /\ read \o tty = All(keys)
    /\ line = Pumped(read).open
    /\ Hashes(records) =
          IF stdin = "done" THEN Told(Append(Pumped(read).done, Pumped(read).open))
          ELSE Told(Pumped(read).done)

\* A chunk more is what the pump makes of that chunk, behind the line begun.
LEMMA PumpedMore ==
    \A read, chunk \in Seq(Symbols) :
        LET new == FoldLeft(PumpByte, [open |-> Pumped(read).open, done |-> <<>>], chunk)
        IN  /\ Pumped(read) \in Pumps(Symbols) /\ new.done \in Seq(Seq(Symbols))
            /\ Pumped(read \o chunk).open = new.open
            /\ Pumped(read \o chunk).done = Pumped(read).done \o new.done
<1>1. PICK X : X = Symbols  OBVIOUS
<1>2. "rest" \in X  BY <1>1 DEF Symbols
<1>3. NoLines \in Pumps(X)
  <2>1. <<>> \in Seq(X) /\ <<>> \in Seq(Seq(X))  OBVIOUS
  <2> QED  BY <2>1 DEF NoLines, Pumps
<1>4. \A read \in Seq(X) : Pumped(read) \in Pumps(X)  BY <1>1, <1>2, <1>3, PumpBytes DEF Pumped
<1> SUFFICES ASSUME NEW read \in Seq(X), NEW chunk \in Seq(X)
             PROVE  LET new == FoldLeft(PumpByte, [open |-> Pumped(read).open, done |-> <<>>], chunk)
                    IN  /\ Pumped(read) \in Pumps(X) /\ new.done \in Seq(Seq(X))
                        /\ Pumped(read \o chunk).open = new.open
                        /\ Pumped(read \o chunk).done = Pumped(read).done \o new.done
  BY <1>1, Zenon
<1>5. PICK st \in Pumps(X) : st = Pumped(read)  BY <1>4
<1>6. PICK open \in Seq(X), done \in Seq(Seq(X)) : open = st.open /\ done = st.done  BY DEF Pumps
<1>7. st = [open |-> open, done |-> done]  BY <1>6 DEF Pumps
<1>8. PICK base : base = [open |-> open, done |-> <<>>]  OBVIOUS
<1>9. base \in Pumps(X)
  <2>1. <<>> \in Seq(Seq(X))  OBVIOUS
  <2> QED  BY <1>8, <2>1 DEF Pumps
<1>10. PICK new : new = FoldLeft(PumpByte, base, chunk)  OBVIOUS
<1>11. new = RunOf(PumpOp(X), base, chunk) /\ new \in Pumps(X)
  BY <1>2, <1>9, <1>10, PumpRun, PumpedType
<1>12. Pumped(read \o chunk) = RunOf(PumpOp(X), st, chunk)
  <2>1. \A s, t \in Seq(X) :
            RunOf(PumpOp(X), NoLines, s \o t) = RunOf(PumpOp(X), RunOf(PumpOp(X), NoLines, s), t)
    BY <1>2, <1>3, PumpBytes
  <2> QED  BY <1>1, <1>5, <2>1, Zenon DEF Pumped
<1>13. RunOf(PumpOp(X), st, chunk) = [open |-> new.open, done |-> done \o new.done]
  <2>1. \A s \in Seq(X) :
              RunOf(PumpOp(X), [open |-> open, done |-> done], s)
                  = [open |-> RunOf(PumpOp(X), [open |-> open, done |-> <<>>], s).open,
                     done |-> done \o RunOf(PumpOp(X), [open |-> open, done |-> <<>>], s).done]
    BY <1>2, PumpAfter
  <2> QED  BY <1>7, <1>8, <1>11, <2>1, Zenon
<1>14. /\ Pumped(read \o chunk).open = new.open
       /\ Pumped(read \o chunk).done = done \o new.done
  <2>1. PICK all : all = done \o new.done  OBVIOUS
  <2>2. Pumped(read \o chunk) = [open |-> new.open, done |-> all]  BY <1>12, <1>13, <2>1, Zenon
  <2> QED  BY <2>1, <2>2
<1>15. new.done \in Seq(Seq(X))  BY <1>11 DEF Pumps
<1> QED  BY <1>5, <1>6, <1>8, <1>10, <1>14, <1>15, Zenon

\* The records of lines are told behind those before them.
LEMMA HashesMore ==
    \A old \in Seq(Made), lines \in Seq(Seq(Symbols)) :
        Hashes(old \o LineRecords(lines)) = Hashes(old) \o Told(lines)
<1>1. \A a, c \in Seq(Made) : Hashes(a \o c) = Hashes(a) \o Hashes(c)  BY HashesConcat
<1>2. \A lines \in Seq(Seq(Symbols)) :
          LineRecords(lines) \in Seq(Made) /\ Hashes(LineRecords(lines)) = Told(lines)
  BY HashesTold
<1> QED  BY <1>1, <1>2, Zenon

\* Other records add nothing.
LEMMA HashesSame ==
    \A old, new \in Seq(Made) : (\A i \in DOMAIN new : new[i].of.src # "typed") =>
        Hashes(old \o new) = Hashes(old)
<1> SUFFICES ASSUME NEW old \in Seq(Made), NEW new \in Seq(Made),
                    \A i \in DOMAIN new : new[i].of.src # "typed"
             PROVE  Hashes(old \o new) = Hashes(old)
  OBVIOUS
<1>1. PICK M : M = Made  OBVIOUS
<1> HIDE DEF Made
<1>2. old \in Seq(M) /\ new \in Seq(M)  BY <1>1
<1>3. Only(old \o new, TypedOnes) = Only(old, TypedOnes) \o Only(new, TypedOnes)  BY <1>2, OnlyConcat
<1>4. Only(new, TypedOnes) = <<>>
  <2>1. \A i \in 1 .. Len(new) : new[i] \notin TypedOnes
    <3>1. DOMAIN new = 1 .. Len(new)  BY <1>2
    <3> QED  BY <3>1 DEF TypedOnes
  <2> QED  BY <1>2, <2>1, OnlyNone
<1>5. PICK kept \in Seq(M) : kept = Only(old, TypedOnes)  BY <1>2, OnlyType
<1>6. kept \o <<>> = kept  OBVIOUS
<1> QED  BY <1>3, <1>4, <1>5, <1>6, Zenon DEF Hashes

\* What hooks and the kernel report is no line.
LEMMA ObservedNoLine ==
    \A origin, events : Observed(origin, events) =>
        \A i \in DOMAIN Of(origin, events) : Of(origin, events)[i].of.src # "typed"
<1> SUFFICES ASSUME NEW origin, NEW events, Observed(origin, events),
                    NEW i \in DOMAIN Of(origin, events)
             PROVE  Of(origin, events)[i].of.src # "typed"
  OBVIOUS
<1>1. origin.src # "typed"  BY DEF Observed
<1>2. Of(origin, events)[i].of = origin  BY DEF Of
<1> QED  BY <1>1, <1>2

\* A session begins with nothing typed.
LEMMA InitKeys == Init => KeysInv
<1> SUFFICES ASSUME Init PROVE KeysInv  OBVIOUS
<1>1. PICK read \in Seq(Symbols) : read = <<>>
  <2>1. <<>> \in Seq(Symbols)  OBVIOUS
  <2> QED  BY <2>1
<1>2. Pumped(read) = NoLines
  <2>1. PICK X : X = Symbols  OBVIOUS
  <2>2. "rest" \in X  BY <2>1 DEF Symbols
  <2>3. NoLines \in Pumps(X)
    <3>1. <<>> \in Seq(X) /\ <<>> \in Seq(Seq(X))  OBVIOUS
    <3> QED  BY <3>1 DEF NoLines, Pumps
  <2> QED  BY <1>1, <2>1, <2>2, <2>3, PumpBytes DEF Pumped
<1>3. Len(read) = sent /\ read \o tty = All(keys) /\ line = Pumped(read).open
  <2>1. keys = <<>> /\ tty = <<>> /\ sent = 0 /\ line = <<>>  BY DEF Init
  <2>2. All(keys) = <<>>  BY <2>1, KeysBytes
  <2>3. read \o <<>> = read /\ Len(read) = 0  BY <1>1
  <2>4. NoLines.open = <<>>  BY DEF NoLines
  <2> QED  BY <1>1, <1>2, <2>1, <2>2, <2>3, <2>4
<1>4. Hashes(records) = Told(Pumped(read).done)
  <2>1. records = <<>> /\ NoLines.done = <<>>  BY DEF Init, NoLines
  <2>2. Hashes(<<>>) = <<>>
    <3>1. <<>> \in Seq(Made) /\ DOMAIN <<>> = {}
      <4> HIDE DEF Made
      <4> QED  OBVIOUS
    <3> QED  BY <3>1, HashesNone
  <2>3. Told(<<>>) = <<>>
    <3>1. Mapped(Cleaned, <<>>) = <<>> /\ Mapped(Texts, <<>>) = <<>>  BY DEF Mapped
    <3>2. Only(<<>>, Visible) = <<>>  BY OnlyEmpty
    <3>3. <<>> \in Seq(Seq(Symbols))  OBVIOUS
    <3> QED  BY <3>1, <3>2, <3>3, ToldIs
  <2> QED  BY <1>2, <2>1, <2>2, <2>3
<1>5. stdin # "done"  BY DEF Init
<1> QED  BY <1>3, <1>4, <1>5, Zenon DEF KeysInv

\* Every step keeps them: a chunk that is read is what was typed next.
LEMMA KeysStep == TypeInv /\ KeysInv /\ [Next]_vars => KeysInv'
<1> SUFFICES ASSUME TypeInv, KeysInv, [Next]_vars PROVE KeysInv'  OBVIOUS
<1>1. PICK B, R : B = Seq(Symbols) /\ R = Seq(Made)  OBVIOUS
<1>2. tty \in B /\ line \in B /\ records \in R /\ keys \in Seq(Keys)  BY <1>1 DEF TypeInv
<1>3. PICK read \in B :
          /\ Len(read) = sent /\ read \o tty = All(keys) /\ line = Pumped(read).open
          /\ Hashes(records) =
                IF stdin = "done" THEN Told(Append(Pumped(read).done, Pumped(read).open))
                ELSE Told(Pumped(read).done)
  BY <1>1 DEF KeysInv
<1>4. \A s, t, u \in B : (s \o t) \o u = s \o (t \o u)  BY <1>1
<1>0. \A s, t \in B : s \o t \in B /\ Len(s \o t) = Len(s) + Len(t)  BY <1>1
<1>5. ASSUME UNCHANGED <<keys, tty, sent, line, stdin>>, Hashes(records') = Hashes(records)
      PROVE  KeysInv'
  <2>1. /\ Len(read) = sent' /\ read \o tty' = All(keys') /\ line' = Pumped(read).open
        /\ Hashes(records') =
              IF stdin' = "done" THEN Told(Append(Pumped(read).done, Pumped(read).open))
              ELSE Told(Pumped(read).done)
    BY <1>3, <1>5
  <2> QED  BY <1>1, <2>1, Zenon DEF KeysInv
<1>6. ASSUME NEW key \in Keys, Press(key)  PROVE KeysInv'
  <2>1. keys' = Append(keys, key) /\ tty' = tty \o key.bytes
        /\ UNCHANGED <<sent, line, stdin, records>>
    BY <1>6 DEF Press
  <2>2. key.bytes \in B /\ All(keys') = All(keys) \o key.bytes  BY <1>1, <1>2, <2>1, KeysBytes
  <2>3. read \o tty' = All(keys')
    <3>1. (read \o tty) \o key.bytes = read \o (tty \o key.bytes)  BY <1>2, <1>4, <2>2, Zenon
    <3>2. read \o tty = All(keys)  BY <1>3
    <3> QED  BY <2>1, <2>2, <3>1, <3>2
  <2>4. /\ Len(read) = sent' /\ line' = Pumped(read).open
        /\ Hashes(records') =
              IF stdin' = "done" THEN Told(Append(Pumped(read).done, Pumped(read).open))
              ELSE Told(Pumped(read).done)
    BY <1>3, <2>1
  <2> QED  BY <1>1, <2>3, <2>4, Zenon DEF KeysInv
<1>7. ASSUME NEW n \in 1 .. Len(tty), ReadStdin(n)  PROVE KeysInv'
  <2>1. PICK c, d : c = SubSeq(tty, 1, n) /\ d = SubSeq(tty, n + 1, Len(tty))  OBVIOUS
  <2>2. c \in B /\ d \in B /\ tty = c \o d /\ Len(c) = n  BY <1>1, <1>2, <2>1, Chunk
  <2>3. PICK new : new = FoldLeft(PumpByte, [open |-> line, done |-> <<>>], c)  OBVIOUS
  <2>4. /\ line' = new.open /\ records' = records \o LineRecords(new.done)
        /\ tty' = d /\ sent' = sent + n /\ keys' = keys /\ stdin' = stdin
        /\ stdin # "done"
    BY <1>7, <2>1, <2>3 DEF ReadStdin
  <2>5. PICK more : more = read \o c  OBVIOUS
  <2>6. /\ Pumped(read) \in Pumps(Symbols) /\ new.done \in Seq(B)
        /\ Pumped(more).open = new.open /\ Pumped(more).done = Pumped(read).done \o new.done
    BY <1>1, <1>3, <2>2, <2>3, <2>5, PumpedMore
  <2>7. more \in B /\ Len(more) = Len(read) + n  BY <1>0, <2>2, <2>5
  <2>8. more \o tty' = All(keys')  BY <1>3, <1>4, <2>2, <2>4, <2>5, Zenon
  <2>9. Hashes(records') = Told(Pumped(more).done)
    <3>1. Hashes(records') = Hashes(records) \o Told(new.done)
      BY <1>1, <1>2, <2>4, <2>6, HashesMore, Zenon
    <3>2. Hashes(records) = Told(Pumped(read).done)  BY <1>3, <2>4
    <3>3. Pumped(read).done \in Seq(B)  BY <1>1, <2>6 DEF Pumps
    <3>4. Told(Pumped(read).done \o new.done) = Told(Pumped(read).done) \o Told(new.done)
      BY <1>1, <2>6, <3>3, ToldConcat, Zenon
    <3> QED  BY <2>6, <3>1, <3>2, <3>4, Zenon
  <2>10. Len(more) = sent' /\ line' = Pumped(more).open /\ stdin' # "done"
    BY <1>3, <2>4, <2>6, <2>7
  <2> QED  BY <1>1, <2>7, <2>8, <2>9, <2>10, Zenon DEF KeysInv
<1>8. ASSUME StdinEnds  PROVE KeysInv'
  <2>1. /\ stdin # "done" /\ stdin' = "done" /\ records' = records \o LineRecords(<<line>>)
        /\ UNCHANGED <<keys, tty, sent, line>>
    BY <1>8 DEF StdinEnds
  <2>2. PICK open \in B, done \in Seq(B) : open = Pumped(read).open /\ done = Pumped(read).done
    <3>1. <<>> \in Seq(Symbols)  OBVIOUS
    <3>2. Pumped(read) \in Pumps(Symbols)  BY <1>1, <3>1, PumpedMore
    <3> QED  BY <1>1, <3>2 DEF Pumps
  <2>3. PICK one \in Seq(B) : one = <<open>>
    <3>1. <<open>> \in Seq(B)  OBVIOUS
    <3> QED  BY <3>1
  <2>4. Append(done, open) = done \o one  BY <2>3
  <2>5. Hashes(records') = Hashes(records) \o Told(one)
    BY <1>1, <1>2, <1>3, <2>1, <2>2, <2>3, HashesMore, Zenon
  <2>6. Hashes(records) = Told(done)  BY <1>3, <2>1, <2>2
  <2>7. Told(done \o one) = Told(done) \o Told(one)  BY <1>1, ToldConcat, Zenon
  <2>8. Hashes(records') = Told(Append(done, open))  BY <2>4, <2>5, <2>6, <2>7
  <2>9. Len(read) = sent' /\ read \o tty' = All(keys') /\ line' = Pumped(read).open
    BY <1>3, <2>1
  <2> QED  BY <1>1, <2>1, <2>2, <2>8, <2>9, Zenon DEF KeysInv
<1>9. ASSUME NEW item \in Prints, Show(item)  PROVE KeysInv'
  BY <1>5, <1>9 DEF Show
<1>10. ASSUME NEW n \in 1 .. Len(pty), ReadPty(n)  PROVE KeysInv'
  BY <1>5, <1>10 DEF ReadPty
<1>11. ASSUME NEW status \in WaitCodes, AgentEnds(status)  PROVE KeysInv'
  <2>1. PICK text : text = Text(Sanitize(transcript))  OBVIOUS
  <2>2. PICK run : run = ProcessRun(Program, argv, text, CodeOfStatus(status))  OBVIOUS
  <2>3. PICK r : r = [of |-> [src |-> "run", status |-> status], event |-> run]  OBVIOUS
  <2>4. records' = records \o <<r>>
    <3>1. records' = records \o Of([src |-> "run", status |-> status], <<run>>)
      BY <1>11, <2>1, <2>2 DEF AgentEnds, CodeOfStatus
    <3> QED  BY <2>3, <3>1, OfOne
  <2>5. r \in Made
    <3>1. transcript \in Seq(Symbols) /\ argv \in CommandLines  BY DEF TypeInv
    <3>2. text \in Seq(PlainWord)  BY <2>1, <3>1, TranscriptType
    <3> QED  BY <2>2, <2>3, <3>1, <3>2 DEF Made, Ran
  <2>6. PICK new \in R : new = <<r>>
    <3> HIDE DEF Made
    <3>1. <<r>> \in Seq(Made)  BY <2>5
    <3> QED  BY <1>1, <3>1
  <2>7. \A i \in DOMAIN new : new[i].of.src # "typed"  BY <2>3, <2>6
  <2>8. Hashes(records') = Hashes(records)
    BY <1>1, <1>2, <2>4, <2>6, <2>7, HashesSame, Zenon
  <2>9. UNCHANGED <<keys, tty, sent, line, stdin>>  BY <1>11 DEF AgentEnds
  <2> QED  BY <1>5, <2>8, <2>9
<1>12. ASSUME Observing  PROVE KeysInv'
  <2>1. PICK origin, events : Observed(origin, events) /\ Observe(origin, events)
    BY <1>12, Zenon DEF Observing
  <2>2. PICK new : new = Of(origin, events)  OBVIOUS
  <2>3. new \in R /\ \A i \in DOMAIN new : new[i].of.src # "typed"
    BY <1>1, <2>1, <2>2, ObservedType, ObservedNoLine
  <2>4. records' = records \o new /\ UNCHANGED <<keys, tty, sent, line, stdin>>
    BY <2>1, <2>2 DEF Observe
  <2>5. Hashes(records') = Hashes(records)  BY <1>1, <1>2, <2>3, <2>4, HashesSame, Zenon
  <2> QED  BY <1>5, <2>4, <2>5
<1>13. ASSUME UNCHANGED vars  PROVE KeysInv'  BY <1>5, <1>13 DEF vars
<1> QED  BY <1>6, <1>7, <1>8, <1>9, <1>10, <1>11, <1>12, <1>13, ObservingIs, Zenon
         DEF Next, Terminated

\* The records of lines, as the property picks them.
LEMMA TypedAre ==
    TypeInv => [i \in DOMAIN Records("typed") |-> Records("typed")[i].event.inputHash]
                  = Hashes(records)
<1> SUFFICES ASSUME TypeInv
             PROVE  [i \in DOMAIN Records("typed") |-> Records("typed")[i].event.inputHash]
                        = Hashes(records)
  OBVIOUS
<1>1. PICK M : M = Made  OBVIOUS
<1>2. PICK rs \in Seq(M) : rs = records  BY <1>1 DEF TypeInv
<1> HIDE DEF Made
<1>3. PICK S : S = {r \in Range(records) : r.of.src = "typed"}  OBVIOUS
<1>4. \A i \in 1 .. Len(rs) : rs[i] \in S <=> rs[i] \in TypedOnes
  <2>1. \A i \in 1 .. Len(rs) : rs[i] \in M /\ rs[i] \in Range(rs)  BY DEF Range
  <2>2. \A r : r \in TypedOnes <=> r \in M /\ r.of.src = "typed"  BY <1>1 DEF TypedOnes
  <2>3. \A r : r \in S <=> r \in Range(rs) /\ r.of.src = "typed"  BY <1>2, <1>3
  <2> QED  BY <2>1, <2>2, <2>3
<1>5. Only(rs, S) = Only(rs, TypedOnes)  BY <1>4, OnlyAgrees
<1>6. PICK kept \in Seq(M) : kept = Only(rs, S)  BY OnlyType
<1>7. Records("typed") = kept  BY <1>2, <1>3, <1>6 DEF Records
<1>8. Hashes(records) = Mapped(Input, kept)  BY <1>2, <1>5, <1>6 DEF Hashes
<1>9. Mapped(Input, kept) = [i \in DOMAIN kept |-> kept[i].event.inputHash]
  <2>1. \A i \in DOMAIN kept : kept[i] \in M  OBVIOUS
  <2>2. \A r \in M : Input[r] = r.event.inputHash  BY <1>1 DEF Input
  <2>3. \A i \in DOMAIN kept : Input[kept[i]] = kept[i].event.inputHash  BY <2>1, <2>2
  <2> QED  BY <2>3 DEF Mapped
<1> QED  BY <1>7, <1>8, <1>9

\* The texts of what one sees.
Texted(seen) ==
    LET trimmed == [i \in DOMAIN seen |-> Trim(seen[i])]
        visible == Only(trimmed, Range(trimmed) \ {<<>>})
    IN  [i \in DOMAIN visible |-> Text(visible[i])]

\* Lines that are seen are told as what one sees of them.
LEMMA AlikeTold ==
    ASSUME NEW lines \in Seq(Seq(Symbols)), NEW seen \in Seq(Seq(Printable)), Alike(lines, seen)
    PROVE  Told(lines) = Texted(seen)
<1>1. [i \in DOMAIN lines |-> CleanLine(lines[i])] = [i \in DOMAIN seen |-> Trim(seen[i])]
  <2>1. PICK n \in Nat : DOMAIN lines = 1 .. n /\ DOMAIN seen = 1 .. n /\ n = Len(lines)
    BY DEF Alike
  <2>2. \A i \in 1 .. n : Sees(lines[i], seen[i])  BY <2>1 DEF Alike
  <2>3. \A bytes, text : Sees(bytes, text) => CleanLine(bytes) = Trim(text)  BY SeesIs
  <2>4. \A i \in 1 .. n : CleanLine(lines[i]) = Trim(seen[i])  BY <2>2, <2>3
  <2> QED  BY <2>1, <2>4
<1> QED  BY <1>1, Zenon DEF Told, Texted

\* What one sees while typing is lines of characters.
LEMMA EditedType ==
    ASSUME \A key \in Keys : Legible(key)
    PROVE  \A typed \in Seq(Keys) : Edited(typed) \in Edits
<1> SUFFICES ASSUME NEW typed \in Seq(Keys)  PROVE Edited(typed) \in Edits
  OBVIOUS
<1>1. PICK T : T = Edits  OBVIOUS
<1>2. EditOp \in [Keys -> [T -> T]] /\ NoLines \in T  BY <1>1, EditType
<1>3. RunOf(EditOp, NoLines, typed) \in T  BY <1>2, RunType
<1>4. Edited(typed) = RunOf(EditOp, NoLines, typed)  BY EditRun
<1> QED  BY <1>1, <1>3, <1>4

\* The first of the same bytes are the same.
LEMMA SameFirst ==
    ASSUME NEW X
    PROVE  \A s, t, u, v \in Seq(X) : s \o t = u \o v /\ Len(s) = Len(u) => s = u
<1> SUFFICES ASSUME NEW s \in Seq(X), NEW t \in Seq(X), NEW u \in Seq(X), NEW v \in Seq(X),
                    s \o t = u \o v, Len(s) = Len(u)
             PROVE  s = u
  OBVIOUS
<1>1. \A i \in 1 .. Len(s) : (s \o t)[i] = s[i] /\ (u \o v)[i] = u[i]  OBVIOUS
<1>2. \A i \in 1 .. Len(s) : s[i] = u[i]  BY <1>1
<1>3. s = [i \in 1 .. Len(s) |-> s[i]] /\ u = [i \in 1 .. Len(s) |-> u[i]]  OBVIOUS
<1> QED  BY <1>2, <1>3

\* pump_stdin: the lines on record are those the agent was sent, as one edited them on the
\* screen, however reads split the bytes and wherever the PTY refused them, provided
\* that a key other than Enter and Backspace has none of their bytes, is whole, and shows
\* itself if it shows as many characters as it has bytes (Legible), and as long as
\* Backspace hit only characters of a byte.
THEOREM LinesSafety ==
    (\A key \in Keys : Legible(key)) => (Spec => []LinesAsTyped)
<1> SUFFICES ASSUME \A key \in Keys : Legible(key)  PROVE Spec => []LinesAsTyped
  OBVIOUS
<1>1. TypeInv /\ KeysInv => LinesAsTyped
  <2> SUFFICES ASSUME TypeInv, KeysInv, NEW n \in 0 .. Len(keys),
                      Len(FlattenSeq([i \in DOMAIN SubSeq(keys, 1, n) |-> SubSeq(keys, 1, n)[i].bytes]))
                          = sent,
                      Exact(SubSeq(keys, 1, n))
               PROVE  [i \in DOMAIN Records("typed") |-> Records("typed")[i].event.inputHash]
                          = Texted(IF stdin = "done"
                                   THEN Append(Edited(SubSeq(keys, 1, n)).done, Edited(SubSeq(keys, 1, n)).open)
                                   ELSE Edited(SubSeq(keys, 1, n)).done)
    BY Zenon DEF LinesAsTyped, Texted
  <2>1. PICK typed : typed = SubSeq(keys, 1, n)  OBVIOUS
  <2>2. Len(All(typed)) = sent /\ Exact(typed)  BY <2>1 DEF All, BytesOf
  <2>3. PICK X, P : X = Symbols /\ P = Printable  OBVIOUS
  <2>4. keys \in Seq(Keys) /\ tty \in Seq(X)  BY <2>3 DEF TypeInv
  <2>5. PICK more \in Seq(X) : typed \in Seq(Keys) /\ All(keys) = All(typed) \o more
    BY <2>1, <2>3, <2>4, KeysPrefix
  <2>6. PICK read \in Seq(X) :
            /\ Len(read) = sent /\ read \o tty = All(keys)
            /\ Hashes(records) =
                  IF stdin = "done" THEN Told(Append(Pumped(read).done, Pumped(read).open))
                  ELSE Told(Pumped(read).done)
    BY <2>3 DEF KeysInv
  <2>7. read = All(typed)
    <3>1. PICK all \in Seq(X) : all = All(typed)  BY <2>3, <2>5, KeysBytes
    <3>2. \A s, t, u, v \in Seq(X) : s \o t = u \o v /\ Len(s) = Len(u) => s = u  BY SameFirst
    <3>3. read \o tty = all \o more /\ Len(read) = Len(all)  BY <2>2, <2>5, <2>6, <3>1
    <3>4. read = all  BY <2>4, <3>2, <3>3, Zenon
    <3> QED  BY <3>1, <3>4
  <2>8. PICK st : st = Edited(typed)  OBVIOUS
  <2>9. Alike(Pumped(read).done, st.done) /\ Sees(Pumped(read).open, st.open)
    BY <2>2, <2>5, <2>7, <2>8, KeysAgree DEF Pumped
  <2>10. st.open \in Seq(P) /\ st.done \in Seq(Seq(P))
    <3>1. st \in Edits  BY <2>5, <2>8, EditedType
    <3> QED  BY <2>3, <3>1 DEF Edits
  <2>11. Pumped(read).open \in Seq(X) /\ Pumped(read).done \in Seq(Seq(X))
    <3>1. <<>> \in Seq(Symbols)  OBVIOUS
    <3>2. Pumped(read) \in Pumps(Symbols)  BY <2>3, <3>1, PumpedMore
    <3> QED  BY <2>3, <3>2 DEF Pumps
  <2>12. PICK seen : seen = IF stdin = "done" THEN Append(st.done, st.open) ELSE st.done
    OBVIOUS
  <2>13. PICK lines : lines = IF stdin = "done" THEN Append(Pumped(read).done, Pumped(read).open)
                              ELSE Pumped(read).done
    OBVIOUS
  <2>14. PICK B, L : B = Seq(X) /\ L = Seq(P)  OBVIOUS
  <2>15. lines \in Seq(B) /\ seen \in Seq(L)
    <3>1. \A s \in Seq(B), x \in B : Append(s, x) \in Seq(B)  OBVIOUS
    <3>2. \A s \in Seq(L), x \in L : Append(s, x) \in Seq(L)  OBVIOUS
    <3> QED  BY <2>10, <2>11, <2>12, <2>13, <2>14, <3>1, <3>2
  <2>16. Alike(lines, seen)
    <3>1. Alike(Append(Pumped(read).done, Pumped(read).open), Append(st.done, st.open))
      BY <2>9, <2>10, <2>11, <2>14, AlikeAppend
    <3> QED  BY <2>9, <2>12, <2>13, <3>1
  <2>17. Hashes(records) = Told(lines)  BY <2>6, <2>13
  <2>18. Told(lines) = Texted(seen)  BY <2>3, <2>14, <2>15, <2>16, AlikeTold
  <2>19. [i \in DOMAIN Records("typed") |-> Records("typed")[i].event.inputHash] = Hashes(records)
    BY TypedAre
  <2> QED  BY <2>1, <2>8, <2>12, <2>17, <2>18, <2>19, Zenon
<1> QED  BY <1>1, InitKeys, KeysStep, TypeSafety, PTL DEF Spec

=============================================================================
