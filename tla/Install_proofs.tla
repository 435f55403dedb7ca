--------------------------- MODULE Install_proofs ---------------------------
(***************************************************************************)
(* Proofs about RcBlock and Install, for any texts of the user's, any      *)
(* paths of snitchit and any bounds.                                       *)
(*                                                                         *)
(* The argument: wherever a write was cut short and a line was added, the  *)
(* rc file has at most one end mark, with the start mark two places before *)
(* it and only the user's text and one newline of install's after it       *)
(* (Sound).  So remove_block takes out all that ends in it, and what       *)
(* install writes after that is the one block of the file.  Start marks    *)
(* without an end mark pile up where writes are cut short, and only there  *)
(* (Whole).  A destination that a command has reported as done stays done  *)
(* while the command goes on and the user edits the files (Delivered).     *)
(***************************************************************************)
EXTENDS Install, Induction, FiniteSetTheorems

-----------------------------------------------------------------------------
(* The block in an rc file without a start mark.                            *)

\* The first place of t is the one that has no t before it.
LEMMA FindFirst ==
    ASSUME NEW s \in Files, NEW t, NEW i \in Nat, NEW j \in i .. Len(s),
           s[j] = t, \A k \in i .. j - 1 : s[k] # t
    PROVE  Find(s, t, i) = j
<1> DEFINE at == {k \in i .. Len(s) : s[k] = t}
<1>1. j \in at /\ \A k \in at : j <= k
    OBVIOUS
<1>2. \A m \in at : (\A k \in at : m <= k) => m = j
    BY <1>1
<1> QED
    BY <1>1, <1>2 DEF Find

LEMMA FindNothing ==
    ASSUME NEW s \in Files, NEW t, NEW i \in Nat, \A k \in i .. Len(s) : s[k] # t
    PROVE  Find(s, t, i) = 0
BY DEF Find

\* A file without a start mark.
Clean(s) == s \in Files /\ \A i \in 1 .. Len(s) : s[i] # StartMark

LEMMA CleanStays ==
    ASSUME NEW s, Clean(s)
    PROVE  RemoveBlock(s) = s
<1>1. Find(s, StartMark, 1) = 0
    BY FindNothing DEF Clean
<1> QED
    BY <1>1 DEF RemoveBlock

\* remove_block takes the block that install wrote, and the newline before it,
\* out of a file whatever stands before and after them.
THEOREM RemovesTheBlock ==
    ASSUME NEW s, NEW t \in Files, Clean(s)
    PROVE  RemoveBlock((s \o <<Sep>> \o Block) \o t) = s \o t
<1> DEFINE f == (s \o <<Sep>> \o Block) \o t
           n == Len(s)
<1>1. /\ s \in Files /\ n \in Nat /\ f \in Files
      /\ Len(f) = n + 5 + Len(t)
      /\ \A i \in 1 .. n : f[i] = s[i]
      /\ f[n + 1] = Sep /\ f[n + 2] = StartMark /\ f[n + 3] = "functions"
      /\ f[n + 4] = EndMark /\ f[n + 5] = Eol
      /\ \A i \in 1 .. Len(t) : f[n + 5 + i] = t[i]
    BY DEF Clean, Files, Block, Sep, StartMark, EndMark, Eol
<1> HIDE DEF f, n
<1>2. Find(f, StartMark, 1) = n + 2
    <2>1. \A k \in 1 .. (n + 2) - 1 : f[k] # StartMark
      BY <1>1 DEF Clean, StartMark, Sep, n
    <2> QED
      BY <1>1, <2>1, FindFirst, n + 2 \in 1 .. Len(f)
<1>3. Find(f, EndMark, n + 2) = n + 4
    <2>1. \A k \in n + 2 .. (n + 4) - 1 : f[k] # EndMark
      BY <1>1 DEF StartMark, EndMark
    <2> QED
      BY <1>1, <2>1, FindFirst, n + 4 \in n + 2 .. Len(f)
<1>4. RemoveBlock(f) = SubSeq(f, 1, n) \o SubSeq(f, n + 6, Len(f))
    <2>1. /\ n + 2 > 1 /\ n + 2 # 0 /\ n + 4 # 0 /\ n + 4 < Len(f)
          /\ (n + 2) - 1 = n + 1 /\ (n + 4) + 1 = n + 5 /\ (n + 1) - 1 = n
          /\ (n + 5) + 1 = n + 6
          /\ IsNewline(f[n + 1]) /\ IsNewline(f[n + 5])
      BY <1>1 DEF IsNewline
    <2> QED
      BY <1>2, <1>3, <2>1, Zenon DEF RemoveBlock
<1>5. SubSeq(f, 1, n) = s
    BY <1>1 DEF Files, n
<1>6. SubSeq(f, n + 6, Len(f)) = t
    BY <1>1 DEF Files
<1> QED
    BY <1>4, <1>5, <1>6 DEF f

\* The same in a file that begins with the block, having been empty.
LEMMA RemovesTheFirstBlock ==
    ASSUME NEW t \in Files
    PROVE  RemoveBlock(Block \o t) = t
<1> DEFINE f == Block \o t
<1>1. /\ f \in Files /\ Len(f) = 4 + Len(t) /\ Len(t) \in Nat
      /\ f[1] = StartMark /\ f[2] = "functions" /\ f[3] = EndMark /\ f[4] = Eol
      /\ \A i \in 1 .. Len(t) : f[4 + i] = t[i]
    BY DEF Files, Block, Sep, StartMark, EndMark, Eol
<1> HIDE DEF f
<1>2. Find(f, StartMark, 1) = 1
    BY <1>1, FindFirst, 1 \in 1 .. Len(f)
<1>3. Find(f, EndMark, 1) = 3
    <2>1. \A k \in 1 .. 3 - 1 : f[k] # EndMark
      BY <1>1 DEF StartMark, EndMark
    <2> QED
      BY <1>1, <2>1, FindFirst, 3 \in 1 .. Len(f)
<1>4. RemoveBlock(f) = SubSeq(f, 1, 0) \o SubSeq(f, 5, Len(f))
    <2>1. /\ ~(1 > 1) /\ 1 # 0 /\ 3 # 0 /\ 3 < Len(f) /\ 3 + 1 = 4 /\ 1 - 1 = 0 /\ 4 + 1 = 5
          /\ IsNewline(f[4])
      BY <1>1 DEF IsNewline
    <2> QED
      BY <1>2, <1>3, <2>1, Zenon DEF RemoveBlock
<1>5. SubSeq(f, 1, 0) = <<>> /\ SubSeq(f, 5, Len(f)) = t
    BY <1>1 DEF Files
<1> QED
    BY <1>4, <1>5 DEF f, Files

\* uninstall undoes install in every file without a start mark: what is there
\* afterwards is what was there before, token for token.
THEOREM RoundTrip ==
    ASSUME NEW s, Clean(s)
    PROVE  RemoveBlock(WithBlock(s)) = s
<1>1. RemoveBlock(s) = s /\ s \in Files /\ <<>> \in Files
    BY CleanStays DEF Clean, Files
<1>2. CASE s = <<>>
    <2>1. WithBlock(s) = Block /\ Block \o <<>> = Block
      BY <1>1, <1>2 DEF WithBlock, Block
    <2> QED
      BY <1>1, <1>2, <2>1, RemovesTheFirstBlock
<1>3. CASE s # <<>>
    <2> DEFINE f == s \o <<Sep>> \o Block
    <2>1. WithBlock(s) = f
      BY <1>1, <1>3, Zenon DEF WithBlock
    <2>2. f \o <<>> = f /\ s \o <<>> = s
      BY <1>1 DEF Block, Files, Sep, StartMark, EndMark, Eol
    <2>3. RemoveBlock(f \o <<>>) = s \o <<>>
      BY <1>1, RemovesTheBlock
    <2> QED
      BY <2>1, <2>2, <2>3
<1> QED
    BY <1>2, <1>3

\* install again changes nothing, and never adds a second block.
THEOREM InstallTwice ==
    ASSUME NEW s, Clean(s)
    PROVE  WithBlock(WithBlock(s)) = WithBlock(s)
<1>1. RemoveBlock(WithBlock(s)) = RemoveBlock(s)
    BY RoundTrip, CleanStays
<1> QED
    BY <1>1 DEF WithBlock

-----------------------------------------------------------------------------
(* The rc file as install, uninstall, torn writes and the user leave it.    *)

\* The functions follow a start mark, the newline of install's an end mark.  There
\* is at most one end mark: it ends a block, and the user's text follows.
Sound(s) ==
    /\ s \in Files
    /\ \A i \in 1 .. Len(s) : s[i] = "functions" => i > 1 /\ s[i - 1] = StartMark
    /\ \A i \in 1 .. Len(s) : s[i] = Eol => i > 1 /\ s[i - 1] = EndMark
    /\ \A i \in 1 .. Len(s) : s[i] = EndMark =>
          /\ i > 2 /\ s[i - 1] = "functions" /\ s[i - 2] = StartMark
          /\ \A k \in i + 1 .. Len(s) :
                s[k] \in Texts \/ (k > i + 1 /\ s[k] = Nl) \/ (k = i + 1 /\ s[k] = Eol)

\* No write was cut short: every block has its end, every separator its block.
Whole(s) ==
    /\ \A i \in 1 .. Len(s) : s[i] = StartMark =>
          i + 3 <= Len(s) /\ s[i + 1] = "functions" /\ s[i + 2] = EndMark /\ s[i + 3] = Eol
    /\ \A i \in 1 .. Len(s) : s[i] = Sep => i < Len(s) /\ s[i + 1] = StartMark

\* The user has put nothing between a separator and its block.
Apart(s) == \A i \in 1 .. Len(s) : s[i] = StartMark => i = 1 \/ s[i - 1] = Sep

\* The block is in the file.
HasBlock(s) ==
    \E i \in 1 .. Len(s) : /\ i + 3 <= Len(s) /\ s[i] = StartMark /\ s[i + 1] = "functions"
                           /\ s[i + 2] = EndMark /\ s[i + 3] = Eol

\* No token of T is.
Without(s, T) == \A i \in 1 .. Len(s) : s[i] \notin T

Tokens == Texts \cup {Nl, Sep, Eol, StartMark, "functions", EndMark}

\* The user's texts are none of the tokens that install writes.
LEMMA Marks ==
    /\ Files = Seq(Tokens)
    /\ \A t \in Texts : t \notin {Nl, Sep, Eol, StartMark, "functions", EndMark}
    /\ {Nl, Sep, Eol, StartMark, "functions", EndMark} \subseteq Tokens
    /\ Nl = "nl" /\ Sep = "sep" /\ Eol = "eol" /\ StartMark = "START" /\ EndMark = "END"
BY TextsAssumption DEF Files, Tokens, Nl, Sep, Eol, StartMark, EndMark

\* Find returns 0 or the first place.
LEMMA FindPlace ==
    ASSUME NEW s \in Files, NEW t, NEW i \in Nat \ {0}
    PROVE  \/ Find(s, t, i) = 0 /\ \A k \in i .. Len(s) : s[k] # t
           \/ /\ Find(s, t, i) \in i .. Len(s) /\ s[Find(s, t, i)] = t
              /\ \A k \in i .. Find(s, t, i) - 1 : s[k] # t
<1> DEFINE at == {k \in i .. Len(s) : s[k] = t}
<1>1. CASE at = {}
  <2>1. \A k \in i .. Len(s) : s[k] # t  BY <1>1
  <2> QED  BY <2>1, FindNothing
<1>2. CASE at # {}
  <2>1. PICK j \in at : \A k \in at : j <= k
    <3>1. at \in SUBSET Nat  BY DEF Files
    <3> HIDE DEF at
    <3> QED  BY <1>2, <3>1, Least
  <2>2. j \in i .. Len(s) /\ s[j] = t /\ \A k \in i .. j - 1 : s[k] # t
    <3>1. Len(s) \in Nat  BY DEF Files
    <3> QED  BY <2>1, <3>1
  <2>3. Find(s, t, i) = j  BY <2>2, FindFirst
  <2> QED  BY <2>2, <2>3
<1> QED  BY <1>1, <1>2

LEMMA Concat ==
    ASSUME NEW X
    PROVE  \A a, b \in Seq(X) :
              /\ a \o b \in Seq(X) /\ Len(a) \in Nat /\ Len(b) \in Nat
              /\ Len(a \o b) = Len(a) + Len(b)
              /\ \A i \in 1 .. Len(a) : (a \o b)[i] = a[i]
              /\ \A i \in Len(a) + 1 .. Len(a) + Len(b) : (a \o b)[i] = b[i - Len(a)]
OBVIOUS

LEMMA Shifted ==
    ASSUME NEW n \in Nat, NEW p \in Nat, NEW q \in Nat, NEW l, NEW i,
           p < q, q <= n + 1, l = p + n + 1 - q, i \in p + 1 .. l
    PROVE  i - p \in 1 .. n + 1 - q /\ (i - p) + q - 1 = i + q - 1 - p
<1>1. l \in Int /\ i \in Int /\ p + 1 <= i /\ i <= l  OBVIOUS
<1> QED  BY <1>1

\* s without the tokens from p + 1 to q - 1.
CutOf(s, p, q) == SubSeq(s, 1, p) \o SubSeq(s, q, Len(s))

LEMMA Cut ==
    ASSUME NEW X, NEW s \in Seq(X), NEW p \in 0 .. Len(s), NEW q \in p + 1 .. Len(s) + 1,
           NEW t, t = CutOf(s, p, q)
    PROVE  /\ t \in Seq(X) /\ Len(t) = p + Len(s) + 1 - q
           /\ \A i \in 1 .. p : t[i] = s[i]
           /\ \A i \in p + 1 .. Len(t) : t[i] = s[i + q - 1 - p]
<1>1. PICK n \in Nat : n = Len(s)  OBVIOUS
<1>2. PICK a, b : a = SubSeq(s, 1, p) /\ b = SubSeq(s, q, n)  OBVIOUS
<1>3. a \in Seq(X) /\ Len(a) = p /\ \A i \in 1 .. p : a[i] = s[i]  BY <1>1, <1>2
<1>4. b \in Seq(X) /\ Len(b) = n + 1 - q /\ \A i \in 1 .. n + 1 - q : b[i] = s[i + q - 1]
  <2>1. q \in 1 .. n + 1  BY <1>1
  <2> QED  BY <1>1, <1>2, <2>1
<1>5. t = a \o b  BY <1>1, <1>2 DEF CutOf
<1>6. /\ t \in Seq(X) /\ Len(t) = Len(a) + Len(b) /\ \A i \in 1 .. Len(a) : t[i] = a[i]
      /\ \A i \in Len(a) + 1 .. Len(a) + Len(b) : t[i] = b[i - Len(a)]
  <2>1. \A c, d \in Seq(X) :
           /\ c \o d \in Seq(X) /\ Len(c \o d) = Len(c) + Len(d)
           /\ \A i \in 1 .. Len(c) : (c \o d)[i] = c[i]
           /\ \A i \in Len(c) + 1 .. Len(c) + Len(d) : (c \o d)[i] = d[i - Len(c)]
    BY Concat
  <2>2. a \in Seq(X) /\ b \in Seq(X)  BY <1>3, <1>4
  <2>3. /\ a \o b \in Seq(X) /\ Len(a \o b) = Len(a) + Len(b)
        /\ \A i \in 1 .. Len(a) : (a \o b)[i] = a[i]
        /\ \A i \in Len(a) + 1 .. Len(a) + Len(b) : (a \o b)[i] = b[i - Len(a)]
    BY <2>1, <2>2, Zenon
  <2> QED  BY <1>5, <2>3, Zenon
<1>7. p \in Nat /\ q \in Nat /\ p < q /\ q <= n + 1  BY <1>1
<1> QED
  <2>1. Len(t) = p + n + 1 - q  BY <1>1, <1>3, <1>4, <1>6, <1>7
  <2>2. ASSUME NEW i, i \in p + 1 .. Len(t)  PROVE t[i] = s[i + q - 1 - p]
    <3>1. i - p \in 1 .. n + 1 - q /\ (i - p) + q - 1 = i + q - 1 - p
      <4>1. PICK l : l = Len(t)  OBVIOUS
      <4>2. l = p + n + 1 - q /\ i \in p + 1 .. l  BY <2>1, <2>2, <4>1
      <4> QED  BY <1>7, <4>2, Shifted
    <3>2. t[i] = b[i - p]  BY <1>3, <1>4, <1>6, <1>7, <2>1, <2>2, <3>1
    <3>3. b[i - p] = s[(i - p) + q - 1]  BY <1>4, <3>1
    <3> QED  BY <3>1, <3>2, <3>3
  <2> QED  BY <1>1, <1>3, <1>6, <2>1, <2>2

\* remove_block in terms of places.
Removed(s, t, b, e, first, last) ==
    /\ b \in 1 .. Len(s) /\ e \in b + 1 .. Len(s)
    /\ s[b] = StartMark /\ s[e] = EndMark
    /\ \A k \in 1 .. b - 1 : s[k] # StartMark
    /\ \A k \in b .. e - 1 : s[k] # EndMark
    /\ first = IF b > 1 /\ IsNewline(s[b - 1]) THEN b - 1 ELSE b
    /\ last = IF e < Len(s) /\ IsNewline(s[e + 1]) THEN e + 1 ELSE e
    /\ t = SubSeq(s, 1, first - 1) \o SubSeq(s, last + 1, Len(s))

LEMMA RemoveCases ==
    ASSUME NEW s \in Files
    PROVE  \/ /\ RemoveBlock(s) = s
              /\ \/ \A k \in 1 .. Len(s) : s[k] # StartMark
                 \/ \E b \in 1 .. Len(s) : /\ \A k \in 1 .. b - 1 : s[k] # StartMark
                                           /\ \A k \in b .. Len(s) : s[k] # EndMark
           \/ \E b, e, first, last : Removed(s, RemoveBlock(s), b, e, first, last)
<1> DEFINE b == Find(s, StartMark, 1)
           e == Find(s, EndMark, b)
<1>0. Len(s) \in Nat  BY DEF Files
<1>1. CASE b = 0
  <2>1. \A k \in 1 .. Len(s) : s[k] # StartMark  BY <1>0, <1>1, FindPlace
  <2> QED  BY <1>1, <2>1 DEF RemoveBlock
<1>2. CASE b # 0
  <2>1. b \in 1 .. Len(s) /\ s[b] = StartMark /\ \A k \in 1 .. b - 1 : s[k] # StartMark
    BY <1>2, FindPlace
  <2>2. b \in Nat \ {0}  BY <1>0, <2>1
  <2>3. CASE e = 0
    <3>1. \A k \in b .. Len(s) : s[k] # EndMark
      <4>1. \A k \in b .. Len(s) : k # 0  BY <1>0, <2>2
      <4> HIDE DEF b
      <4> QED  BY <1>0, <2>2, <2>3, <4>1, FindPlace
    <3>2. RemoveBlock(s) = s  BY <2>3, Zenon DEF RemoveBlock
    <3> QED  BY <2>1, <3>1, <3>2
  <2>4. CASE e # 0
    <3>1. e \in b .. Len(s) /\ s[e] = EndMark /\ \A k \in b .. e - 1 : s[k] # EndMark
      <4> HIDE DEF b
      <4> QED  BY <2>2, <2>4, FindPlace
    <3>2. e \in b + 1 .. Len(s)
      <4> HIDE DEF b, e
      <4>1. e # b  BY <2>1, <3>1, Marks
      <4> QED  BY <1>0, <2>2, <3>1, <4>1
    <3> DEFINE first == IF b > 1 /\ IsNewline(s[b - 1]) THEN b - 1 ELSE b
               last == IF e < Len(s) /\ IsNewline(s[e + 1]) THEN e + 1 ELSE e
    <3>3. RemoveBlock(s) = SubSeq(s, 1, first - 1) \o SubSeq(s, last + 1, Len(s))
      BY <1>2, <2>4, Zenon DEF RemoveBlock
    <3> HIDE DEF b, e
    <3>4. Removed(s, RemoveBlock(s), b, e, first, last)
      BY <2>1, <3>1, <3>2, <3>3, Zenon DEF Removed
    <3> QED  BY <3>4
  <2> QED  BY <2>3, <2>4
<1> QED  BY <1>1, <1>2

\* The tokens that remain are those before first and those after last.
LEMMA RemovedTokens ==
    ASSUME NEW s, NEW t, NEW b, NEW e, NEW first, NEW last, s \in Files,
           Removed(s, t, b, e, first, last)
    PROVE  /\ t \in Files
           /\ first \in {b - 1, b} /\ first \in 1 .. b /\ last \in {e, e + 1} /\ last \in e .. Len(s)
           /\ Len(t) = first - 1 + Len(s) - last
           /\ \A i \in 1 .. first - 1 : t[i] = s[i]
           /\ \A i \in first .. Len(t) : t[i] = s[i + last - first + 1]
<1>1. /\ b \in 1 .. Len(s) /\ e \in b + 1 .. Len(s)
      /\ first = IF b > 1 /\ IsNewline(s[b - 1]) THEN b - 1 ELSE b
      /\ last = IF e < Len(s) /\ IsNewline(s[e + 1]) THEN e + 1 ELSE e
      /\ t = SubSeq(s, 1, first - 1) \o SubSeq(s, last + 1, Len(s))
  BY DEF Removed
<1>2. PICK n \in Nat : n = Len(s)  BY DEF Files
<1>3. first \in {b - 1, b} /\ first \in 1 .. b  BY <1>1, <1>2
<1>4. last \in {e, e + 1} /\ last \in e .. n  BY <1>1, <1>2
<1>5. /\ b \in Nat /\ e \in Nat /\ first \in Nat /\ last \in Nat
      /\ first <= last /\ last <= n /\ 1 <= first
  BY <1>1, <1>2, <1>3, <1>4
<1>6. PICK p, q : p = first - 1 /\ q = last + 1  OBVIOUS
<1>7. /\ t \in Files /\ Len(t) = (first - 1) + n + 1 - (last + 1)
      /\ \A i \in 1 .. first - 1 : t[i] = s[i]
      /\ \A i \in (first - 1) + 1 .. Len(t) : t[i] = s[i + (last + 1) - 1 - (first - 1)]
  <2>1. p \in 0 .. Len(s) /\ q \in p + 1 .. Len(s) + 1  BY <1>2, <1>5, <1>6
  <2>2. t = CutOf(s, p, q)  BY <1>1, <1>6, Zenon DEF CutOf
  <2>3. PICK X : Files = Seq(X)  BY Marks
  <2>4. s \in Seq(X)  BY <2>3
  <2>5. /\ t \in Seq(X) /\ Len(t) = p + Len(s) + 1 - q
        /\ \A i \in 1 .. p : t[i] = s[i]
        /\ \A i \in p + 1 .. Len(t) : t[i] = s[i + q - 1 - p]
    <3>1. \A r \in Seq(X) : \A j \in 0 .. Len(r) : \A k \in j + 1 .. Len(r) + 1 :
             LET u == CutOf(r, j, k)
             IN  /\ u \in Seq(X) /\ Len(u) = j + Len(r) + 1 - k
                 /\ \A i \in 1 .. j : u[i] = r[i]
                 /\ \A i \in j + 1 .. Len(u) : u[i] = r[i + k - 1 - j]
      BY Cut
    <3> QED  BY <2>1, <2>2, <2>4, <3>1, Zenon
  <2> QED  BY <1>2, <1>6, <2>3, <2>5, Zenon
<1>8. Len(t) = first - 1 + n - last  BY <1>2, <1>5, <1>7
<1>9. ASSUME NEW i \in first .. Len(t)  PROVE t[i] = s[i + last - first + 1]
  <2>1. i \in Int  OBVIOUS
  <2>2. i + (last + 1) - 1 - (first - 1) = i + last - first + 1 /\ (first - 1) + 1 = first
    BY <1>5, <2>1
  <2> QED  BY <1>7, <2>2
<1> QED  BY <1>2, <1>3, <1>4, <1>7, <1>8, <1>9

\* remove_block leaves no end mark, and nothing of install's unless a write was cut
\* short.
LEMMA RemoveSound ==
    ASSUME NEW s, Sound(s), NEW t, t = RemoveBlock(s)
    PROVE  /\ Sound(t) /\ Without(t, {EndMark}) /\ (t = s \/ Len(t) < Len(s))
           /\ Apart(s) => Apart(t)
           /\ Whole(s) => Whole(t) /\ Without(t, {StartMark, Sep})
<1>1. s \in Files  BY DEF Sound
<1>2. PICK n \in Nat : n = Len(s)  BY <1>1 DEF Files
<1>3. CASE /\ t = s
           /\ \/ \A k \in 1 .. n : s[k] # StartMark
              \/ \E b \in 1 .. n : /\ \A k \in 1 .. b - 1 : s[k] # StartMark
                                   /\ \A k \in b .. n : s[k] # EndMark
  <2>1. ASSUME NEW i \in 1 .. n, s[i] = EndMark  PROVE FALSE
    <3>1. i > 2 /\ s[i - 2] = StartMark  BY <1>2, <2>1 DEF Sound
    <3>2. i - 2 \in 1 .. n /\ i - 2 < i  BY <3>1
    <3> QED  BY <1>3, <2>1, <3>1, <3>2
  <2>2. Whole(s) => Without(s, {StartMark, Sep})
    <3> SUFFICES ASSUME Whole(s)  PROVE Without(s, {StartMark, Sep})  OBVIOUS
    <3>1. ASSUME NEW i \in 1 .. n, s[i] = StartMark  PROVE FALSE
      <4>1. i + 3 <= n /\ s[i + 2] = EndMark  BY <1>2, <3>1 DEF Whole
      <4>2. i + 2 \in 1 .. n  BY <4>1
      <4> QED  BY <2>1, <4>1, <4>2
    <3>2. ASSUME NEW i \in 1 .. n, s[i] = Sep  PROVE FALSE
      <4>1. i + 1 \in 1 .. n /\ s[i + 1] = StartMark  BY <1>2, <3>2 DEF Whole
      <4> QED  BY <3>1, <4>1
    <3> QED  BY <1>2, <3>1, <3>2 DEF Without
  <2> QED  BY <1>2, <1>3, <2>1, <2>2 DEF Without
<1>4. CASE \E b, e, first, last : Removed(s, t, b, e, first, last)
  <2>1. PICK b, e, first, last : Removed(s, t, b, e, first, last)  BY <1>4
  <2>2. /\ t \in Files
        /\ first \in {b - 1, b} /\ first \in 1 .. b /\ last \in {e, e + 1} /\ last \in e .. n
        /\ Len(t) = first - 1 + n - last
        /\ \A i \in 1 .. first - 1 : t[i] = s[i]
        /\ \A i \in first .. Len(t) : t[i] = s[i + last - first + 1]
    BY SMTT(30), <1>1, <1>2, <2>1, RemovedTokens
  <2>3. /\ b \in 1 .. n /\ e \in b + 1 .. n /\ s[b] = StartMark /\ s[e] = EndMark
        /\ \A k \in 1 .. b - 1 : s[k] # StartMark
        /\ b > 1 /\ IsNewline(s[b - 1]) => first = b - 1
        /\ e < n /\ IsNewline(s[e + 1]) => last = e + 1
    BY <1>2, <2>1 DEF Removed
  <2>4. b \in Nat /\ e \in Nat /\ first \in Nat /\ last \in Nat  BY <1>2, <2>2, <2>3
  <2>5. ASSUME NEW k \in 1 .. n, k < first
        PROVE  s[k] \in Texts \cup {Nl, Sep}
    <3>1. k \in 1 .. b - 1 /\ s[k] # StartMark  BY <2>2, <2>3, <2>4, <2>5
    <3>2. ASSUME s[k] = "functions"  PROVE FALSE
      <4>1. k > 1 /\ s[k - 1] = StartMark  BY <1>2, <3>2 DEF Sound
      <4>2. k - 1 \in 1 .. b - 1  BY <2>4, <3>1, <4>1
      <4> QED  BY <2>3, <4>1, <4>2
    <3>3. \A j \in 1 .. k : s[j] # EndMark
      <4> SUFFICES ASSUME NEW j \in 1 .. k, s[j] = EndMark  PROVE FALSE  OBVIOUS
      <4>1. j \in 1 .. n  BY <2>5
      <4>2. j > 2 /\ s[j - 2] = StartMark  BY <1>2, <4>1 DEF Sound
      <4>3. j - 2 \in 1 .. b - 1  BY <2>4, <3>1, <4>2
      <4> QED  BY <2>3, <4>2, <4>3
    <3>4. ASSUME s[k] = Eol  PROVE FALSE
      <4>1. k > 1 /\ s[k - 1] = EndMark  BY <1>2, <3>4 DEF Sound
      <4>2. k - 1 \in 1 .. k  BY <4>1
      <4> QED  BY <3>3, <4>1, <4>2
    <3>5. s[k] # EndMark  BY <3>3
    <3>6. s[k] \in Tokens  BY <1>1, <1>2, Marks
    <3> QED  BY <3>1, <3>2, <3>4, <3>5, <3>6 DEF Tokens
  <2>6. ASSUME NEW k \in 1 .. n, k > last
        PROVE  s[k] \in Texts \cup {Nl}
    <3>1. k \in e + 1 .. n  BY <2>2, <2>4, <2>6
    <3>2. s[k] \in Texts \/ (k > e + 1 /\ s[k] = Nl) \/ (k = e + 1 /\ s[k] = Eol)
      BY <1>2, <2>3, <3>1 DEF Sound
    <3>3. ASSUME k = e + 1, s[k] = Eol  PROVE FALSE
      <4>1. e < n /\ IsNewline(s[e + 1])  BY <2>4, <2>6, <3>3 DEF IsNewline
      <4> QED  BY <2>3, <2>4, <2>6, <3>3, <4>1
    <3> QED  BY <3>2, <3>3
  <2>7. PICK m \in Nat : m = Len(t)  BY <2>2 DEF Files
  <2>8. ASSUME NEW i \in 1 .. m
        PROVE  /\ t[i] \in Texts \cup {Nl, Sep}
               /\ t[i] = Sep => i < first
    <3>1. CASE i < first
      <4>1. i \in 1 .. n /\ i \in 1 .. first - 1  BY <2>2, <2>3, <2>4, <3>1
      <4> QED  BY <2>2, <2>5, <3>1, <4>1
    <3>2. CASE i >= first
      <4>1. i \in first .. Len(t)  BY <2>4, <2>7, <3>2
      <4>2. i + last - first + 1 \in 1 .. n /\ i + last - first + 1 > last
        BY <1>2, <2>2, <2>4, <2>7, <3>2
      <4>3. t[i] \in Texts \cup {Nl}  BY <2>2, <2>6, <4>1, <4>2
      <4>4. t[i] # Sep  BY <4>3, Marks
      <4> QED  BY <4>3, <4>4
    <3> QED  BY <2>4, <3>1, <3>2
  <2>9. \A i \in 1 .. m : t[i] \notin {StartMark, "functions", EndMark, Eol}
    BY <2>8, Marks
  <2>10. Sound(t) /\ Without(t, {EndMark}) /\ Apart(t)
    BY <2>2, <2>7, <2>9 DEF Sound, Without, Apart
  <2>11. Len(t) < Len(s)  BY <1>2, <2>2, <2>3, <2>4
  <2>12. Whole(s) => Whole(t) /\ Without(t, {StartMark, Sep})
    <3> SUFFICES ASSUME Whole(s)  PROVE Whole(t) /\ Without(t, {StartMark, Sep})  OBVIOUS
    <3>1. ASSUME NEW i \in 1 .. m, t[i] = Sep  PROVE FALSE
      <4>1. i < first /\ i \in 1 .. n /\ s[i] = Sep  BY <2>2, <2>3, <2>4, <2>8, <3>1
      <4>2. i + 1 \in 1 .. n /\ s[i + 1] = StartMark  BY <1>2, <4>1 DEF Whole
      <4>3. i + 1 = b
        <5>1. ~(i + 1 \in 1 .. b - 1)  BY <2>3, <4>2
        <5> QED  BY <2>2, <2>4, <4>1, <4>2, <5>1
      <4>4. b > 1 /\ IsNewline(s[b - 1])
        <5>1. b > 1 /\ b - 1 = i  BY <2>4, <4>1, <4>3
        <5> QED  BY <4>1, <5>1 DEF IsNewline
      <4> QED  BY <2>3, <2>4, <4>1, <4>3, <4>4
    <3> QED  BY <2>7, <2>9, <3>1 DEF Whole, Without
  <2> QED  BY <2>10, <2>11, <2>12
<1> QED  BY <1>1, <1>2, <1>3, <1>4, RemoveCases

\* A write that is cut short leaves a prefix.
LEMMA PrefixSound ==
    ASSUME NEW s, Sound(s), NEW n \in 0 .. Len(s), NEW t, t = SubSeq(s, 1, n)
    PROVE  Sound(t) /\ (Apart(s) => Apart(t))
<1>1. t \in Files /\ Len(t) = n /\ (\A i \in 1 .. n : t[i] = s[i]) /\ Len(s) \in Nat
  BY DEF Sound, Files
<1>2. n \in Nat /\ n <= Len(s)  BY <1>1
<1>3. \A i \in 1 .. n : i \in 1 .. Len(s)  BY <1>1, <1>2
<1>4. \A i \in 1 .. n, j \in 1 .. n : i - j \in 1 .. n => t[i - j] = s[i - j]  BY <1>1
<1>5. \A i \in 1 .. n : i > 1 => t[i - 1] = s[i - 1]
  <2>1. \A i \in 1 .. n : i > 1 => i - 1 \in 1 .. n  BY <1>2
  <2> QED  BY <1>1, <2>1
<1>6. \A i \in 1 .. n : i > 2 => t[i - 2] = s[i - 2]
  <2>1. \A i \in 1 .. n : i > 2 => i - 2 \in 1 .. n  BY <1>2
  <2> QED  BY <1>1, <2>1
<1>7. Apart(s) => Apart(t)
  <2> SUFFICES ASSUME Apart(s), NEW i \in 1 .. n, t[i] = StartMark, i # 1
               PROVE  t[i - 1] = Sep
    BY <1>1 DEF Apart
  <2>1. i > 1  BY <1>2
  <2> QED  BY <1>1, <1>3, <1>5, <2>1 DEF Apart
<1>8. ASSUME NEW i \in 1 .. n, t[i] = EndMark
      PROVE  /\ i > 2 /\ t[i - 1] = "functions" /\ t[i - 2] = StartMark
             /\ \A k \in i + 1 .. n :
                   t[k] \in Texts \/ (k > i + 1 /\ t[k] = Nl) \/ (k = i + 1 /\ t[k] = Eol)
  <2>1. s[i] = EndMark /\ i \in 1 .. Len(s)  BY <1>1, <1>3, <1>8
  <2>2. i > 2 /\ s[i - 1] = "functions" /\ s[i - 2] = StartMark  BY <2>1 DEF Sound
  <2>3. i > 1  BY <2>2
  <2>4. ASSUME NEW k \in i + 1 .. n
        PROVE  t[k] \in Texts \/ (k > i + 1 /\ t[k] = Nl) \/ (k = i + 1 /\ t[k] = Eol)
    <3>1. k \in i + 1 .. Len(s) /\ t[k] = s[k]  BY <1>1, <1>2
    <3> QED  BY <2>1, <3>1 DEF Sound
  <2> QED  BY <1>5, <1>6, <2>2, <2>3, <2>4
<1>9. \A i \in 1 .. n : t[i] = "functions" => i > 1 /\ t[i - 1] = StartMark
  BY <1>1, <1>3, <1>5 DEF Sound
<1>10. \A i \in 1 .. n : t[i] = Eol => i > 1 /\ t[i - 1] = EndMark
  BY <1>1, <1>3, <1>5 DEF Sound
<1> QED  BY <1>1, <1>7, <1>8, <1>9, <1>10 DEF Sound

\* The user adds a line at the end.
LEMMA EndSound ==
    ASSUME NEW s, Sound(s), NEW x \in Texts, NEW t, t = s \o <<x, Nl>>
    PROVE  /\ Sound(t) /\ (Apart(s) => Apart(t)) /\ (Whole(s) => Whole(t))
           /\ HasBlock(s) => HasBlock(t)
           /\ \A T \in SUBSET {StartMark, Sep, EndMark} : Without(s, T) => Without(t, T)
<1>1. PICK n \in Nat : n = Len(s)  BY DEF Sound, Files
<1>2. t \in Files /\ Len(t) = n + 2 /\ (\A i \in 1 .. n : t[i] = s[i])
      /\ t[n + 1] = x /\ t[n + 2] = Nl
  BY <1>1, Marks DEF Sound, Files
<1>3. \A i \in 1 .. n + 2 : i \in 1 .. n \/ t[i] \in Texts \cup {Nl}
  <2>1. \A i \in 1 .. n + 2 : i \in 1 .. n \/ i = n + 1 \/ i = n + 2  OBVIOUS
  <2> QED  BY <1>2, <2>1
<1>4. \A i \in 1 .. n + 2 : t[i] \in {Sep, Eol, StartMark, "functions", EndMark} => i \in 1 .. n
  BY <1>3, Marks
<1>5. \A i \in 1 .. n : /\ i > 1 => t[i - 1] = s[i - 1]
                        /\ i > 2 => t[i - 2] = s[i - 2]
                        /\ i < n => t[i + 1] = s[i + 1]
                        /\ i + 2 <= n => t[i + 2] = s[i + 2]
                        /\ i + 3 <= n => t[i + 3] = s[i + 3]
  BY SMTT(30), <1>1, <1>2
<1>6. Apart(s) => Apart(t)
  BY <1>1, <1>2, <1>4, <1>5 DEF Apart
<1>7. Whole(s) => Whole(t)
  <2> SUFFICES ASSUME Whole(s)  PROVE Whole(t)  OBVIOUS
  <2>1. ASSUME NEW i \in 1 .. n + 2, t[i] = StartMark
        PROVE  i + 3 <= n + 2 /\ t[i + 1] = "functions" /\ t[i + 2] = EndMark /\ t[i + 3] = Eol
    <3>1. i \in 1 .. n /\ s[i] = StartMark  BY <1>2, <1>4, <2>1
    <3>2. i + 3 <= n /\ s[i + 1] = "functions" /\ s[i + 2] = EndMark /\ s[i + 3] = Eol
      BY <1>1, <3>1 DEF Whole
    <3> QED  BY <1>1, <1>5, <3>1, <3>2
  <2>2. ASSUME NEW i \in 1 .. n + 2, t[i] = Sep  PROVE i < n + 2 /\ t[i + 1] = StartMark
    <3>1. i \in 1 .. n /\ s[i] = Sep  BY <1>2, <1>4, <2>2
    <3>2. i < n /\ s[i + 1] = StartMark  BY <1>1, <3>1 DEF Whole
    <3> QED  BY <1>1, <1>5, <3>1, <3>2
  <2> QED  BY <1>2, <2>1, <2>2 DEF Whole
<1>8. HasBlock(s) => HasBlock(t)
  <2> SUFFICES ASSUME HasBlock(s)  PROVE HasBlock(t)  OBVIOUS
  <2>1. PICK i \in 1 .. n : /\ i + 3 <= n /\ s[i] = StartMark /\ s[i + 1] = "functions"
                            /\ s[i + 2] = EndMark /\ s[i + 3] = Eol
    BY <1>1 DEF HasBlock
  <2>2. i \in 1 .. Len(t) /\ i + 3 <= Len(t) /\ i < n /\ i + 2 <= n  BY <1>2, <2>1
  <2>3. t[i] = s[i] /\ t[i + 1] = s[i + 1] /\ t[i + 2] = s[i + 2] /\ t[i + 3] = s[i + 3]
    BY <1>2, <1>5, <2>1, <2>2
  <2> QED  BY <2>1, <2>2, <2>3 DEF HasBlock
<1>9. ASSUME NEW T \in SUBSET {StartMark, Sep, EndMark}, Without(s, T)  PROVE Without(t, T)
  <2>1. \A i \in 1 .. n : t[i] \notin T  BY <1>1, <1>2, <1>9 DEF Without
  <2>2. x \notin T /\ Nl \notin T  BY Marks
  <2>3. \A i \in 1 .. n + 2 : i \in 1 .. n \/ i = n + 1 \/ i = n + 2  OBVIOUS
  <2> QED  BY <1>2, <2>1, <2>2, <2>3 DEF Without
<1>10. ASSUME NEW i \in 1 .. n + 2, t[i] = EndMark
       PROVE  /\ i > 2 /\ t[i - 1] = "functions" /\ t[i - 2] = StartMark
              /\ \A k \in i + 1 .. n + 2 :
                   t[k] \in Texts \/ (k > i + 1 /\ t[k] = Nl) \/ (k = i + 1 /\ t[k] = Eol)
  <2>1. s[i] = EndMark /\ i \in 1 .. n  BY <1>2, <1>4, <1>10
  <2>2. i > 2 /\ s[i - 1] = "functions" /\ s[i - 2] = StartMark  BY <1>1, <2>1 DEF Sound
  <2>3. i > 1  BY <2>2
  <2>4. ASSUME NEW k \in i + 1 .. n + 2
        PROVE  t[k] \in Texts \/ (k > i + 1 /\ t[k] = Nl) \/ (k = i + 1 /\ t[k] = Eol)
    <3>0. k \in i + 1 .. n \/ k = n + 1 \/ (k = n + 2 /\ k > i + 1)  BY <2>1
    <3>1. CASE k \in i + 1 .. n
      <4>1. k \in i + 1 .. Len(s) /\ t[k] = s[k]  BY <1>1, <1>2, <2>1, <3>1
      <4> QED  BY <1>1, <2>1, <4>1 DEF Sound
    <3>2. CASE k = n + 1  BY <1>2, <3>2
    <3>3. CASE k = n + 2 /\ k > i + 1  BY <1>2, <3>3
    <3> QED  BY <3>0, <3>1, <3>2, <3>3
  <2> QED  BY <1>5, <2>1, <2>2, <2>3, <2>4
<1>11. \A i \in 1 .. n + 2 : t[i] = "functions" => i > 1 /\ t[i - 1] = StartMark
  <2>1. ASSUME NEW i \in 1 .. n, t[i] = "functions"  PROVE i > 1 /\ t[i - 1] = StartMark
    <3>1. s[i] = "functions"  BY <1>2, <2>1
    <3> QED  BY <1>1, <1>5, <3>1 DEF Sound
  <2> QED  BY <1>4, <2>1
<1>12. \A i \in 1 .. n + 2 : t[i] = Eol => i > 1 /\ t[i - 1] = EndMark
  <2>1. ASSUME NEW i \in 1 .. n, t[i] = Eol  PROVE i > 1 /\ t[i - 1] = EndMark
    <3>1. s[i] = Eol  BY <1>2, <2>1
    <3> QED  BY <1>1, <1>5, <3>1 DEF Sound
  <2> QED  BY <1>4, <2>1
<1> QED  BY <1>2, <1>6, <1>7, <1>8, <1>9, <1>10, <1>11, <1>12 DEF Sound

\* The user adds a line at the beginning.
LEMMA TopSound ==
    ASSUME NEW s, Sound(s), NEW x \in Texts, NEW t, t = <<x, Nl>> \o s
    PROVE  /\ Sound(t) /\ (Whole(s) => Whole(t))
           /\ HasBlock(s) => HasBlock(t)
           /\ \A T \in SUBSET {StartMark, Sep, EndMark} : Without(s, T) => Without(t, T)
<1>1. PICK n \in Nat : n = Len(s)  BY DEF Sound, Files
<1>2. t \in Files /\ Len(t) = n + 2 /\ t[1] = x /\ t[2] = Nl
      /\ \A i \in 3 .. n + 2 : t[i] = s[i - 2]
  BY <1>1, Marks DEF Sound, Files
<1>3. \A i \in 1 .. n + 2 : t[i] \in {Sep, Eol, StartMark, "functions", EndMark} =>
          i \in 3 .. n + 2 /\ i - 2 \in 1 .. n
  <2>1. \A i \in 1 .. n + 2 : i = 1 \/ i = 2 \/ (i \in 3 .. n + 2 /\ i - 2 \in 1 .. n)  OBVIOUS
  <2>2. x \notin {Sep, Eol, StartMark, "functions", EndMark}
        /\ Nl \notin {Sep, Eol, StartMark, "functions", EndMark}
    BY Marks
  <2> QED  BY <1>2, <2>1, <2>2
<1>4. ASSUME NEW j \in 1 .. n, NEW i, i = j + 2  PROVE t[i] = s[j]
  <2>1. i \in 3 .. n + 2 /\ i - 2 = j  BY <1>4
  <2> QED  BY <1>2, <2>1
<1>5. Whole(s) => Whole(t)
  <2> SUFFICES ASSUME Whole(s)  PROVE Whole(t)  OBVIOUS
  <2>1. ASSUME NEW i \in 1 .. n + 2, t[i] = StartMark
        PROVE  i + 3 <= n + 2 /\ t[i + 1] = "functions" /\ t[i + 2] = EndMark /\ t[i + 3] = Eol
    <3>1. PICK j \in 1 .. n : i = j + 2  BY <1>3, <2>1
    <3>2. s[j] = StartMark  BY <1>4, <2>1, <3>1
    <3>3. j + 3 <= n /\ s[j + 1] = "functions" /\ s[j + 2] = EndMark /\ s[j + 3] = Eol
      BY <1>1, <3>2 DEF Whole
    <3>4. /\ j + 1 \in 1 .. n /\ j + 2 \in 1 .. n /\ j + 3 \in 1 .. n
          /\ i + 1 = (j + 1) + 2 /\ i + 2 = (j + 2) + 2 /\ i + 3 = (j + 3) + 2
      BY <3>1, <3>3
    <3>5. t[i + 1] = s[j + 1] /\ t[i + 2] = s[j + 2] /\ t[i + 3] = s[j + 3]  BY <1>4, <3>4
    <3>6. i + 3 <= n + 2  BY <3>1, <3>3
    <3> QED  BY <3>3, <3>5, <3>6
  <2>2. ASSUME NEW i \in 1 .. n + 2, t[i] = Sep  PROVE i < n + 2 /\ t[i + 1] = StartMark
    <3>1. PICK j \in 1 .. n : i = j + 2  BY <1>3, <2>2
    <3>2. s[j] = Sep  BY <1>4, <2>2, <3>1
    <3>3. j < n /\ s[j + 1] = StartMark  BY <1>1, <3>2 DEF Whole
    <3>4. j + 1 \in 1 .. n /\ i + 1 = (j + 1) + 2  BY <3>1, <3>3
    <3>5. t[i + 1] = s[j + 1]  BY <1>4, <3>4
    <3>6. i < n + 2  BY <3>1, <3>3
    <3> QED  BY <3>3, <3>5, <3>6
  <2> QED  BY <1>2, <2>1, <2>2 DEF Whole
<1>6. HasBlock(s) => HasBlock(t)
  <2> SUFFICES ASSUME HasBlock(s)  PROVE HasBlock(t)  OBVIOUS
  <2>1. PICK j \in 1 .. n : /\ j + 3 <= n /\ s[j] = StartMark /\ s[j + 1] = "functions"
                            /\ s[j + 2] = EndMark /\ s[j + 3] = Eol
    BY <1>1 DEF HasBlock
  <2>2. PICK i : i = j + 2  OBVIOUS
  <2>3. /\ j + 1 \in 1 .. n /\ j + 2 \in 1 .. n /\ j + 3 \in 1 .. n
        /\ i + 1 = (j + 1) + 2 /\ i + 2 = (j + 2) + 2 /\ i + 3 = (j + 3) + 2
        /\ i \in 1 .. Len(t) /\ i + 3 <= Len(t)
    BY <1>2, <2>1, <2>2
  <2>4. t[i] = s[j] /\ t[i + 1] = s[j + 1] /\ t[i + 2] = s[j + 2] /\ t[i + 3] = s[j + 3]
    BY <1>4, <2>2, <2>3
  <2> QED  BY <2>1, <2>3, <2>4 DEF HasBlock
<1>7. ASSUME NEW T \in SUBSET {StartMark, Sep, EndMark}, Without(s, T)  PROVE Without(t, T)
  <2>1. x \notin T /\ Nl \notin T  BY Marks
  <2>2. \A i \in 1 .. n + 2 : i = 1 \/ i = 2 \/ (i \in 3 .. n + 2 /\ i - 2 \in 1 .. n)  OBVIOUS
  <2> QED  BY <1>1, <1>2, <1>7, <2>1, <2>2 DEF Without
<1>8. ASSUME NEW i \in 1 .. n + 2, t[i] = EndMark
      PROVE  /\ i > 2 /\ t[i - 1] = "functions" /\ t[i - 2] = StartMark
             /\ \A k \in i + 1 .. n + 2 :
                  t[k] \in Texts \/ (k > i + 1 /\ t[k] = Nl) \/ (k = i + 1 /\ t[k] = Eol)
  <2>1. PICK j \in 1 .. n : i = j + 2
    <3>1. i # 1 /\ i # 2  BY <1>3, <1>8
    <3>2. i - 2 \in 1 .. n /\ i = (i - 2) + 2  BY <3>1
    <3> QED  BY <3>2
  <2>2. s[j] = EndMark  BY <1>4, <1>8, <2>1
  <2>3. j > 2 /\ s[j - 1] = "functions" /\ s[j - 2] = StartMark  BY <1>1, <2>2 DEF Sound
  <2>4. /\ j - 1 \in 1 .. n /\ j - 2 \in 1 .. n /\ i - 1 = (j - 1) + 2 /\ i - 2 = (j - 2) + 2
    BY <2>1, <2>3
  <2>5. ASSUME NEW k \in i + 1 .. n + 2
        PROVE  t[k] \in Texts \/ (k > i + 1 /\ t[k] = Nl) \/ (k = i + 1 /\ t[k] = Eol)
    <3>1. PICK h : h = k - 2  OBVIOUS
    <3>2. h \in j + 1 .. n /\ h \in 1 .. n /\ k = h + 2  BY <2>1, <3>1
    <3>3. s[h] \in Texts \/ (h > j + 1 /\ s[h] = Nl) \/ (h = j + 1 /\ s[h] = Eol)
      BY <1>1, <2>2, <3>2 DEF Sound
    <3>4. t[k] = s[h]  BY <1>4, <3>2
    <3>5. (h > j + 1 => k > i + 1) /\ (h = j + 1 => k = i + 1)  BY <2>1, <3>2
    <3> QED  BY <3>3, <3>4, <3>5
  <2>6. t[i - 1] = s[j - 1] /\ t[i - 2] = s[j - 2]  BY <1>4, <2>4
  <2>7. i > 2  BY <2>1
  <2> QED  BY <2>3, <2>5, <2>6, <2>7
<1>9. ASSUME NEW i \in 1 .. n + 2, t[i] = "functions"  PROVE i > 1 /\ t[i - 1] = StartMark
  <2>1. PICK j \in 1 .. n : i = j + 2  BY <1>3, <1>9
  <2>2. s[j] = "functions"  BY <1>4, <1>9, <2>1
  <2>3. j > 1 /\ s[j - 1] = StartMark  BY <1>1, <2>2 DEF Sound
  <2>4. j - 1 \in 1 .. n /\ i - 1 = (j - 1) + 2  BY <2>1, <2>3
  <2>5. t[i - 1] = s[j - 1]  BY <1>4, <2>4
  <2>6. i > 1  BY <2>1
  <2> QED  BY <2>3, <2>5, <2>6
<1>10. ASSUME NEW i \in 1 .. n + 2, t[i] = Eol  PROVE i > 1 /\ t[i - 1] = EndMark
  <2>1. PICK j \in 1 .. n : i = j + 2  BY <1>3, <1>10
  <2>2. s[j] = Eol  BY <1>4, <1>10, <2>1
  <2>3. j > 1 /\ s[j - 1] = EndMark  BY <1>1, <2>2 DEF Sound
  <2>4. j - 1 \in 1 .. n /\ i - 1 = (j - 1) + 2  BY <2>1, <2>3
  <2>5. t[i - 1] = s[j - 1]  BY <1>4, <2>4
  <2>6. i > 1  BY <2>1
  <2> QED  BY <2>3, <2>5, <2>6
<1> QED  BY <1>2, <1>5, <1>6, <1>7, <1>8, <1>9, <1>10 DEF Sound

\* with_block in terms of places: the block begins after place k.
LEMMA WithPlaces ==
    ASSUME NEW s, NEW base, base = RemoveBlock(s), base \in Files, NEW t, t = WithBlock(s)
    PROVE  \E k \in Nat :
              /\ k = IF base = <<>> THEN 0 ELSE Len(base) + 1
              /\ t \in Files /\ Len(t) = k + 4
              /\ \A i \in 1 .. Len(base) : t[i] = base[i]
              /\ base # <<>> => t[k] = Sep
              /\ t[k + 1] = StartMark /\ t[k + 2] = "functions" /\ t[k + 3] = EndMark /\ t[k + 4] = Eol
<1>1. PICK m \in Nat : m = Len(base)  BY DEF Files
<1>2. CASE base = <<>>
  <2>1. t = <<StartMark, "functions", EndMark, Eol>>  BY <1>2 DEF WithBlock, Block
  <2>2. t \in Files /\ Len(t) = 4 /\ t[1] = StartMark /\ t[2] = "functions"
        /\ t[3] = EndMark /\ t[4] = Eol
    BY <2>1, Marks
  <2>3. Len(base) = 0  BY <1>2
  <2> QED  BY <1>2, <2>2, <2>3
<1>3. CASE base # <<>>
  <2>1. t = base \o <<Sep>> \o <<StartMark, "functions", EndMark, Eol>>
    BY <1>3 DEF WithBlock, Block
  <2>2. /\ t \in Files /\ Len(t) = (m + 1) + 4
        /\ \A i \in 1 .. m : t[i] = base[i]
        /\ t[m + 1] = Sep /\ t[(m + 1) + 1] = StartMark /\ t[(m + 1) + 2] = "functions"
        /\ t[(m + 1) + 3] = EndMark /\ t[(m + 1) + 4] = Eol
    BY <1>1, <2>1, Marks
  <2> QED  BY <1>1, <1>3, <2>2
<1> QED  BY <1>2, <1>3

LEMMA WithSound ==
    ASSUME NEW s, Sound(s), NEW t, t = WithBlock(s)
    PROVE  /\ Sound(t) /\ HasBlock(t)
           /\ Apart(s) => Apart(t)
           /\ Whole(s) => Whole(t)
           /\ \E n \in Nat : n > 3 /\ Len(t) = n /\ t[n - 3] = StartMark /\ t[n - 2] = "functions"
                                   /\ t[n - 1] = EndMark /\ t[n] = Eol
<1>1. PICK base : base = RemoveBlock(s)  OBVIOUS
<1>2. /\ Sound(base) /\ Without(base, {EndMark})
      /\ Apart(s) => Apart(base)
      /\ Whole(s) => Whole(base) /\ Without(base, {StartMark, Sep})
  BY <1>1, RemoveSound
<1>3. base \in Files  BY <1>2 DEF Sound
<1>4. PICK k \in Nat :
         /\ k = IF base = <<>> THEN 0 ELSE Len(base) + 1
         /\ t \in Files /\ Len(t) = k + 4
         /\ \A i \in 1 .. Len(base) : t[i] = base[i]
         /\ base # <<>> => t[k] = Sep
         /\ t[k + 1] = StartMark /\ t[k + 2] = "functions" /\ t[k + 3] = EndMark /\ t[k + 4] = Eol
  BY <1>1, <1>3, WithPlaces
<1>5. PICK m \in Nat : m = Len(base)  BY <1>3 DEF Files
<1>6. (base = <<>> => m = 0 /\ k = 0) /\ (base # <<>> => k = m + 1)  BY <1>4, <1>5
<1>7. k \in {m, m + 1} /\ (k = m => m = 0) /\ (k # m => t[k] = Sep)  BY <1>4, <1>6
<1>8. \A i \in 1 .. m : t[i] = base[i] /\ base[i] # EndMark
  BY <1>2, <1>4, <1>5 DEF Without
<1>9. \A i \in 1 .. k + 4 :
         i \in 1 .. m \/ (i = k /\ k = m + 1) \/ i = k + 1 \/ i = k + 2 \/ i = k + 3 \/ i = k + 4
  BY <1>7
<1>10. ASSUME NEW i \in 1 .. k + 4, t[i] = EndMark  PROVE i = k + 3
  BY <1>4, <1>7, <1>8, <1>9, <1>10, Marks
<1>11. \A i \in 1 .. m : i > 1 => t[i - 1] = base[i - 1]  BY <1>8
<1>12. ASSUME NEW i \in 1 .. k + 4, t[i] = "functions"  PROVE i > 1 /\ t[i - 1] = StartMark
  <2>1. CASE i \in 1 .. m
    <3>1. i > 1 /\ base[i - 1] = StartMark  BY <1>2, <1>5, <1>8, <1>12, <2>1 DEF Sound
    <3> QED  BY <1>11, <2>1, <3>1
  <2>2. CASE i \notin 1 .. m
    <3>1. i = k + 2  BY <1>4, <1>7, <1>9, <1>12, <2>2, Marks
    <3> QED  BY <1>4, <3>1
  <2> QED  BY <2>1, <2>2
<1>13. ASSUME NEW i \in 1 .. k + 4, t[i] = Eol  PROVE i > 1 /\ t[i - 1] = EndMark
  <2>1. CASE i \in 1 .. m
    <3>1. i > 1 /\ base[i - 1] = EndMark  BY <1>2, <1>5, <1>8, <1>13, <2>1 DEF Sound
    <3> QED  BY <1>11, <2>1, <3>1
  <2>2. CASE i \notin 1 .. m
    <3>1. i = k + 4  BY <1>4, <1>7, <1>9, <1>13, <2>2, Marks
    <3>2. i - 1 = k + 3  BY <3>1
    <3> QED  BY <1>4, <3>1, <3>2
  <2> QED  BY <2>1, <2>2
<1>14. Sound(t)
  <2>1. /\ k + 3 > 2 /\ (k + 3) - 1 = k + 2 /\ (k + 3) - 2 = k + 1
        /\ \A j \in (k + 3) + 1 .. k + 4 : j = k + 4
    BY <1>4
  <2>2. ASSUME NEW i \in 1 .. k + 4, t[i] = EndMark
        PROVE  /\ i > 2 /\ t[i - 1] = "functions" /\ t[i - 2] = StartMark
               /\ \A j \in i + 1 .. k + 4 :
                     t[j] \in Texts \/ (j > i + 1 /\ t[j] = Nl) \/ (j = i + 1 /\ t[j] = Eol)
    <3>1. i = k + 3  BY <1>10, <2>2
    <3>2. i > 2 /\ i - 1 = k + 2 /\ i - 2 = k + 1  BY <2>1, <3>1
    <3>3. \A j \in i + 1 .. k + 4 : j = k + 4 /\ j = i + 1  BY <2>1, <3>1
    <3> QED  BY <1>4, <3>2, <3>3
  <2> QED  BY <1>4, <1>12, <1>13, <2>2 DEF Sound
<1>15. HasBlock(t)
  <2>1. PICK i : i = k + 1  OBVIOUS
  <2>2. i \in 1 .. Len(t) /\ i + 3 <= Len(t) /\ i + 1 = k + 2 /\ i + 2 = k + 3 /\ i + 3 = k + 4
    BY <1>4, <2>1
  <2> QED  BY <1>4, <2>1, <2>2 DEF HasBlock
<1>16. ASSUME Apart(s)  PROVE Apart(t)
  <2> SUFFICES ASSUME NEW i \in 1 .. k + 4, t[i] = StartMark, i # 1  PROVE t[i - 1] = Sep
    BY <1>4 DEF Apart
  <2>1. CASE i \in 1 .. m
    <3>1. base[i] = StartMark /\ i > 1  BY <1>8, <2>1
    <3>2. base[i - 1] = Sep  BY <1>2, <1>5, <1>16, <2>1, <3>1 DEF Apart
    <3> QED  BY <1>11, <2>1, <3>1, <3>2
  <2>2. CASE i \notin 1 .. m
    <3>1. i = k + 1  BY <1>4, <1>7, <1>9, <2>2, Marks
    <3>2. i - 1 = k /\ k # m  BY <1>7, <3>1
    <3> QED  BY <1>7, <3>2
  <2> QED  BY <2>1, <2>2
<1>17. ASSUME Whole(s)  PROVE Whole(t)
  <2>1. \A i \in 1 .. m : base[i] # StartMark /\ base[i] # Sep
    BY <1>2, <1>5, <1>17 DEF Without
  <2>2. ASSUME NEW i \in 1 .. k + 4, t[i] = StartMark  PROVE i = k + 1
    BY <1>4, <1>7, <1>8, <1>9, <2>1, <2>2, Marks
  <2>3. ASSUME NEW i \in 1 .. k + 4, t[i] = Sep  PROVE i = k
    BY <1>4, <1>7, <1>8, <1>9, <2>1, <2>3, Marks
  <2>4. /\ (k + 1) + 3 <= k + 4 /\ (k + 1) + 1 = k + 2 /\ (k + 1) + 2 = k + 3
        /\ (k + 1) + 3 = k + 4 /\ k < k + 4
    BY <1>4
  <2>5. ASSUME NEW i \in 1 .. k + 4, t[i] = StartMark
        PROVE  i + 3 <= k + 4 /\ t[i + 1] = "functions" /\ t[i + 2] = EndMark /\ t[i + 3] = Eol
    <3>1. i = k + 1  BY <2>2, <2>5
    <3> QED  BY <1>4, <2>4, <3>1
  <2>6. ASSUME NEW i \in 1 .. k + 4, t[i] = Sep  PROVE i < k + 4 /\ t[i + 1] = StartMark
    <3>1. i = k  BY <2>3, <2>6
    <3> QED  BY <1>4, <2>4, <3>1
  <2> QED  BY <1>4, <2>5, <2>6 DEF Whole
<1>18. \E n \in Nat : n > 3 /\ Len(t) = n /\ t[n - 3] = StartMark /\ t[n - 2] = "functions"
                                          /\ t[n - 1] = EndMark /\ t[n] = Eol
  <2>1. PICK n \in Nat : n = k + 4  OBVIOUS
  <2>2. n > 3 /\ n - 3 = k + 1 /\ n - 2 = k + 2 /\ n - 1 = k + 3  BY <2>1
  <2> QED  BY <1>4, <2>1, <2>2
<1> QED  BY <1>14, <1>15, <1>16, <1>17, <1>18

\* A file of the same bytes as that with the block has the block.
LEMMA SameBlock ==
    ASSUME NEW s, Sound(s), SameBytes(WithBlock(s), s)
    PROVE  HasBlock(s)
<1>1. PICK t : t = WithBlock(s)  OBVIOUS
<1>2. PICK n \in Nat : n > 3 /\ Len(t) = n /\ t[n - 3] = StartMark /\ t[n - 2] = "functions"
                             /\ t[n - 1] = EndMark /\ t[n] = Eol
  BY <1>1, WithSound
<1>3. Sound(t)  BY <1>1, WithSound
<1>4. s \in Files /\ t \in Files  BY <1>3 DEF Sound
<1>5. Len(s) = n /\ \A i \in 1 .. n : t[i] = s[i] \/ (IsNewline(t[i]) /\ IsNewline(s[i]))
  BY <1>1, <1>2, <1>4 DEF SameBytes, Files
<1>6. ~IsNewline(StartMark) /\ ~IsNewline("functions") /\ ~IsNewline(EndMark)
  BY Marks DEF IsNewline
<1>7. /\ n - 3 \in 1 .. n /\ n - 2 \in 1 .. n /\ n - 1 \in 1 .. n /\ n \in 1 .. n
      /\ n \in (n - 1) + 1 .. n /\ n = (n - 1) + 1
  BY <1>2
<1>8. s[n - 3] = StartMark /\ s[n - 2] = "functions" /\ s[n - 1] = EndMark
  BY <1>2, <1>5, <1>6, <1>7
<1>9. s[n] = Eol
  <2>1. s[n] \in Texts \/ (n > (n - 1) + 1 /\ s[n] = Nl) \/ s[n] = Eol
    BY <1>5, <1>7, <1>8 DEF Sound
  <2>2. s[n] \notin Texts
    <3>1. IsNewline(t[n])  BY <1>2 DEF IsNewline
    <3>2. IsNewline(s[n])  BY <1>5, <1>7, <3>1
    <3> QED  BY <3>2, Marks DEF IsNewline
  <2> QED  BY <1>7, <2>1, <2>2
<1>10. PICK i : i = n - 3  OBVIOUS
<1>11. i \in 1 .. Len(s) /\ i + 3 <= Len(s) /\ i + 1 = n - 2 /\ i + 2 = n - 1 /\ i + 3 = n
  BY <1>2, <1>5, <1>10
<1> QED  BY <1>8, <1>9, <1>10, <1>11 DEF HasBlock

-----------------------------------------------------------------------------
(* The user's text.                                                         *)

LEMMA TextOfConcat ==
    ASSUME NEW s \in Files, NEW t \in Files
    PROVE  UserText(s \o t) = UserText(s) \o UserText(t)
BY OnlyConcat DEF UserText, Files

LEMMA NoText ==
    ASSUME NEW s \in Files, \A i \in 1 .. Len(s) : s[i] \notin Texts \cup {Nl}
    PROVE  UserText(s) = <<>>
BY OnlyNone DEF UserText, Files

\* A part of s, from place p to place q.
PartOf(s, p, q) == SubSeq(s, p, q)

LEMMA Part ==
    ASSUME NEW s \in Files
    PROVE  \A p \in Nat \ {0}, q \in Nat : p <= q + 1 /\ q <= Len(s) =>
              /\ PartOf(s, p, q) \in Files /\ Len(PartOf(s, p, q)) = q + 1 - p
              /\ \A i \in 1 .. q + 1 - p : PartOf(s, p, q)[i] = s[i + p - 1]
BY DEF Files, PartOf

\* s is what comes before place p, what comes up to place q, and the rest.
Splits(s, p, q) ==
    /\ PartOf(s, 1, p - 1) \in Files /\ PartOf(s, p, q) \in Files
    /\ PartOf(s, q + 1, Len(s)) \in Files
    /\ s = (PartOf(s, 1, p - 1) \o PartOf(s, p, q)) \o PartOf(s, q + 1, Len(s))

LEMMA Split ==
    ASSUME NEW s \in Files
    PROVE  \A p \in Nat \ {0}, q \in Nat : p <= q /\ q <= Len(s) => Splits(s, p, q)
<1> SUFFICES ASSUME NEW p \in Nat \ {0}, NEW q \in Nat, p <= q, q <= Len(s)
             PROVE  Splits(s, p, q)
  OBVIOUS
<1>0. PICK u, v, w : u = PartOf(s, 1, p - 1) /\ v = PartOf(s, p, q) /\ w = PartOf(s, q + 1, Len(s))
  OBVIOUS
<1>1. PICK X : Files = Seq(X)  BY Marks
<1>2. PICK n \in Nat : n = Len(s)  BY DEF Files
<1>3. u \in Files /\ Len(u) = p - 1 /\ \A i \in 1 .. p - 1 : u[i] = s[i]
  <2>1. 1 \in Nat \ {0} /\ p - 1 \in Nat /\ 1 <= (p - 1) + 1 /\ p - 1 <= Len(s)  BY <1>2
  <2>2. u \in Files /\ Len(u) = (p - 1) + 1 - 1 /\ \A i \in 1 .. (p - 1) + 1 - 1 : u[i] = s[i + 1 - 1]
    BY ZenonT(30), <1>0, <2>1, Part
  <2>3. (p - 1) + 1 - 1 = p - 1 /\ \A i \in Int : i + 1 - 1 = i  BY <2>1
  <2> QED  BY <2>2, <2>3
<1>4. v \in Files /\ Len(v) = q + 1 - p /\ \A i \in 1 .. q + 1 - p : v[i] = s[i + p - 1]
  <2>1. p <= q + 1  OBVIOUS
  <2> QED  BY <1>0, <2>1, Part
<1>5. w \in Files /\ Len(w) = n - q /\ \A i \in 1 .. n - q : w[i] = s[i + q]
  <2>1. q + 1 \in Nat \ {0} /\ n \in Nat /\ q + 1 <= n + 1 /\ n <= Len(s)  BY <1>2
  <2>2. w = PartOf(s, q + 1, n)  BY <1>0, <1>2
  <2>3. w \in Files /\ Len(w) = n + 1 - (q + 1)
        /\ \A i \in 1 .. n + 1 - (q + 1) : w[i] = s[i + (q + 1) - 1]
    <3>1. q + 1 \in Nat \ {0} /\ n \in Nat  BY <2>1
    <3>2. q + 1 <= n + 1 /\ n <= Len(s)  BY <2>1
    <3>3. PICK h : h = q + 1  OBVIOUS
    <3>4. /\ PartOf(s, h, n) \in Files /\ Len(PartOf(s, h, n)) = n + 1 - h
          /\ \A i \in 1 .. n + 1 - h : PartOf(s, h, n)[i] = s[i + h - 1]
      <4>1. h \in Nat \ {0} /\ n \in Nat /\ h <= n + 1 /\ n <= Len(s)  BY <3>1, <3>2, <3>3
      <4>2. \A j \in Nat \ {0}, k \in Nat : j <= k + 1 /\ k <= Len(s) =>
              /\ PartOf(s, j, k) \in Files /\ Len(PartOf(s, j, k)) = k + 1 - j
              /\ \A i \in 1 .. k + 1 - j : PartOf(s, j, k)[i] = s[i + j - 1]
        BY Part
      <4> QED  BY <4>1, <4>2, Zenon
    <3> QED  BY <2>2, <3>3, <3>4, Zenon
  <2>4. n + 1 - (q + 1) = n - q /\ \A i \in Int : i + (q + 1) - 1 = i + q  BY <2>1
  <2> QED  BY <2>3, <2>4
<1>6. \A c, d \in Files :
         /\ c \o d \in Files /\ Len(c \o d) = Len(c) + Len(d)
         /\ \A i \in 1 .. Len(c) : (c \o d)[i] = c[i]
         /\ \A i \in Len(c) + 1 .. Len(c) + Len(d) : (c \o d)[i] = d[i - Len(c)]
  BY Concat DEF Files
<1>7. PICK a : a = u \o v  OBVIOUS
<1>8. /\ a \in Files /\ Len(a) = Len(u) + Len(v)
      /\ \A i \in 1 .. Len(u) : a[i] = u[i]
      /\ \A i \in Len(u) + 1 .. Len(u) + Len(v) : a[i] = v[i - Len(u)]
  BY <1>3, <1>4, <1>6, <1>7, Zenon
<1>9. PICK r : r = a \o w  OBVIOUS
<1>10. /\ r \in Files /\ Len(r) = Len(a) + Len(w)
       /\ \A i \in 1 .. Len(a) : r[i] = a[i]
       /\ \A i \in Len(a) + 1 .. Len(a) + Len(w) : r[i] = w[i - Len(a)]
  <2>1. w \in Files /\ a \in Files  BY <1>5, <1>8
  <2>2. /\ a \o w \in Files /\ Len(a \o w) = Len(a) + Len(w)
        /\ \A i \in 1 .. Len(a) : (a \o w)[i] = a[i]
        /\ \A i \in Len(a) + 1 .. Len(a) + Len(w) : (a \o w)[i] = w[i - Len(a)]
    BY <1>6, <2>1, Zenon
  <2> QED  BY <1>9, <2>2, Zenon
<1>11. Len(a) = q /\ Len(r) = n  BY <1>2, <1>3, <1>4, <1>5, <1>8, <1>10
<1>12. ASSUME NEW i \in 1 .. n  PROVE r[i] = s[i]
  <2>1. CASE i <= p - 1
    <3>1. i \in 1 .. p - 1 /\ i \in 1 .. q  BY <2>1
    <3> QED  BY <1>3, <1>8, <1>10, <1>11, <3>1
  <2>2. CASE p <= i /\ i <= q
    <3>1. i \in (p - 1) + 1 .. (p - 1) + (q + 1 - p) /\ i \in 1 .. q  BY <2>2
    <3>2. i - (p - 1) \in 1 .. q + 1 - p /\ i - (p - 1) + p - 1 = i  BY <2>2
    <3>3. r[i] = v[i - (p - 1)]  BY <1>3, <1>4, <1>8, <1>10, <1>11, <3>1
    <3>4. v[i - (p - 1)] = s[i - (p - 1) + p - 1]  BY <1>4, <3>2
    <3> QED  BY <3>2, <3>3, <3>4
  <2>3. CASE q < i
    <3>1. i \in q + 1 .. q + (n - q)  BY <2>3
    <3>2. i - q \in 1 .. n - q /\ i - q + q = i  BY <2>3
    <3>3. r[i] = w[i - q]  BY <1>5, <1>10, <1>11, <3>1
    <3>4. w[i - q] = s[i - q + q]  BY <1>5, <3>2
    <3> QED  BY <3>2, <3>3, <3>4
  <2> QED  BY <2>1, <2>2, <2>3
<1>13. r = s
  <2>1. r \in Seq(X) /\ s \in Seq(X)  BY <1>1, <1>10
  <2>2. Len(r) = Len(s) /\ \A i \in 1 .. Len(r) : r[i] = s[i]  BY <1>2, <1>11, <1>12
  <2> QED  BY <2>1, <2>2, SeqEqual
<1> QED  BY <1>0, <1>3, <1>4, <1>5, <1>7, <1>9, <1>13, Zenon DEF Splits

\* remove_block takes nothing of the user's out of a file in which every start mark
\* has its end mark, and stands at the beginning or behind a newline of install's.
LEMMA RemoveKeepsText ==
    ASSUME NEW s, Sound(s), Apart(s), WellFormed(s)
    PROVE  UserText(RemoveBlock(s)) = UserText(s)
<1>1. s \in Files  BY DEF Sound
<1>2. PICK n \in Nat : n = Len(s)  BY <1>1 DEF Files
<1>3. PICK t : t = RemoveBlock(s)  OBVIOUS
<1>4. SUFFICES ASSUME NEW b, NEW e, NEW first, NEW last, Removed(s, t, b, e, first, last)
               PROVE  UserText(t) = UserText(s)
  BY <1>1, <1>3, RemoveCases
<1>5. /\ b \in 1 .. n /\ e \in b + 1 .. n /\ s[b] = StartMark /\ s[e] = EndMark
      /\ \A k \in 1 .. b - 1 : s[k] # StartMark
      /\ \A k \in b .. e - 1 : s[k] # EndMark
      /\ first = IF b > 1 /\ IsNewline(s[b - 1]) THEN b - 1 ELSE b
      /\ last = IF e < n /\ IsNewline(s[e + 1]) THEN e + 1 ELSE e
      /\ t = PartOf(s, 1, first - 1) \o PartOf(s, last + 1, n)
  BY <1>2, <1>4 DEF Removed, PartOf
<1>6. b \in Nat /\ e \in Nat  BY <1>5
<1>7. e = b + 2 /\ s[b + 1] = "functions"
  <2>1. e > 2 /\ s[e - 1] = "functions" /\ s[e - 2] = StartMark  BY <1>2, <1>5 DEF Sound
  <2>2. e - 2 \in 1 .. n /\ ~(e - 2 \in 1 .. b - 1)  BY <1>5, <1>6, <2>1
  <2>3. PICK j \in Places(s, EndMark) :
           b < j /\ \A k \in Places(s, StartMark) : ~(b < k /\ k < j)
    BY <1>1, <1>2, <1>5 DEF WellFormed, Places, Files
  <2>4. j \in 1 .. n /\ s[j] = EndMark  BY <1>1, <1>2, <2>3 DEF Places, Files
  <2>5. j >= e
    <3>1. ~(j \in b .. e - 1)  BY <1>5, <2>4
    <3> QED  BY <1>6, <2>3, <2>4, <3>1
  <2>6. e - 2 \in Places(s, StartMark)  BY <1>1, <1>2, <2>1, <2>2 DEF Places, Files
  <2>7. ~(b < e - 2)
    <3>1. e - 2 < j  BY <1>6, <2>4, <2>5
    <3> QED  BY <2>3, <2>6, <3>1
  <2>8. e - 2 = b /\ e - 1 = b + 1  BY <1>5, <1>6, <2>2, <2>7
  <2> QED  BY <1>6, <2>1, <2>8
<1>8. first \in Nat /\ 1 <= first /\ first <= b /\ b - 1 <= first /\ (first < b => s[first] = Sep)
  <2>1. CASE first = b - 1 /\ b > 1
    <3>1. s[b - 1] = Sep  BY <1>2, <1>5, <2>1 DEF Apart
    <3> QED  BY <1>6, <2>1, <3>1
  <2>2. CASE first = b  BY <1>5, <1>6, <2>2
  <2> QED  BY <1>5, <1>6, <2>1, <2>2
<1>9. last \in Nat /\ e <= last /\ last <= n /\ last <= e + 1 /\ (last > e => s[last] = Eol)
  <2>1. CASE last = e + 1 /\ e < n /\ IsNewline(s[e + 1])
    <3>1. e + 1 \in e + 1 .. n  BY <1>6, <2>1
    <3>2. s[e + 1] \in Texts \/ (e + 1 > e + 1 /\ s[e + 1] = Nl) \/ s[e + 1] = Eol
      BY <1>2, <1>5, <3>1 DEF Sound
    <3>3. s[e + 1] \notin Texts  BY <2>1, Marks DEF IsNewline
    <3> QED  BY <1>6, <2>1, <3>2, <3>3
  <2>2. CASE last = e  BY <1>5, <1>6, <2>2
  <2> QED  BY <1>5, <1>6, <2>1, <2>2
<1>10. ASSUME NEW i \in first .. last  PROVE s[i] \notin Texts \cup {Nl}
  <2>1. (i < b /\ i = first) \/ i = b \/ i = b + 1 \/ i = e \/ (i > e /\ i = last)
    BY <1>6, <1>7, <1>8, <1>9
  <2>2. s[i] \in {Sep, StartMark, "functions", EndMark, Eol}
    BY <1>5, <1>7, <1>8, <1>9, <2>1
  <2> QED  BY <2>2, Marks
<1>11. PICK u, v, w : u = PartOf(s, 1, first - 1) /\ v = PartOf(s, first, last)
                      /\ w = PartOf(s, last + 1, n)
  OBVIOUS
<1>12. first \in Nat \ {0} /\ first <= last  BY <1>6, <1>7, <1>8, <1>9
<1>13. u \in Files /\ v \in Files /\ w \in Files /\ s = (u \o v) \o w
  <2>1. u = PartOf(s, 1, first - 1) /\ v = PartOf(s, first, last) /\ w = PartOf(s, last + 1, Len(s))
    BY <1>2, <1>11
  <2>2. last <= Len(s)  BY <1>2, <1>9
  <2>3. Splits(s, first, last)  BY <1>1, <1>9, <1>12, <2>2, Split
  <2> QED  BY <2>1, <2>3, Zenon DEF Splits
<1>14. \A i \in 1 .. Len(v) : v[i] \notin Texts \cup {Nl}
  <2>1. v = PartOf(s, first, last) /\ first <= last + 1 /\ last <= Len(s)
    BY <1>2, <1>9, <1>11, <1>12
  <2>2. Len(v) = last + 1 - first /\ \A i \in 1 .. last + 1 - first : v[i] = s[i + first - 1]
    BY <1>1, <1>9, <1>12, <2>1, Part
  <2>3. \A i \in 1 .. last + 1 - first : i + first - 1 \in first .. last  BY <1>8, <1>9
  <2> QED  BY <1>10, <2>2, <2>3
<1>15. t = u \o w  BY <1>5, <1>11
<1>16. u \o v \in Files  BY <1>13 DEF Files
<1>17. UserText(s) = (UserText(u) \o UserText(v)) \o UserText(w)
  BY <1>13, <1>16, TextOfConcat, Zenon
<1>18. UserText(v) = <<>>  BY <1>13, <1>14, NoText
<1>19. UserText(u) \o <<>> = UserText(u)
  <2>1. UserText(u) \in Files  BY <1>13, OnlyType DEF UserText, Files
  <2> QED  BY <2>1 DEF Files
<1>20. UserText(t) = UserText(u) \o UserText(w)  BY <1>13, <1>15, TextOfConcat
<1> QED  BY <1>3, <1>17, <1>18, <1>19, <1>20

LEMMA WithKeepsText ==
    ASSUME NEW s, Sound(s), Apart(s), WellFormed(s)
    PROVE  UserText(WithBlock(s)) = UserText(s)
<1>1. PICK base : base = RemoveBlock(s)  OBVIOUS
<1>2. base \in Files /\ UserText(base) = UserText(s)
  BY <1>1, RemoveKeepsText, RemoveSound DEF Sound
<1>3. PICK sep, block : sep = <<Sep>> /\ block = Block  OBVIOUS
<1>4. sep \in Files /\ block \in Files /\ UserText(sep) = <<>> /\ UserText(block) = <<>>
  <2>1. sep \in Files /\ Len(sep) = 1 /\ sep[1] = Sep  BY <1>3, Marks
  <2>2. block \in Files /\ Len(block) = 4 /\ block[1] = StartMark /\ block[2] = "functions"
        /\ block[3] = EndMark /\ block[4] = Eol
    BY <1>3, Marks DEF Block
  <2>3. \A i \in 1 .. Len(sep) : sep[i] \notin Texts \cup {Nl}
    <3>1. \A i \in 1 .. 1 : i = 1  OBVIOUS
    <3> QED  BY <2>1, <3>1, Marks
  <2>4. \A i \in 1 .. Len(block) : block[i] \notin Texts \cup {Nl}
    <3>1. \A i \in 1 .. 4 : i = 1 \/ i = 2 \/ i = 3 \/ i = 4  OBVIOUS
    <3> QED  BY <2>2, <3>1, Marks
  <2> QED  BY <2>1, <2>2, <2>3, <2>4, NoText
<1>5. CASE base = <<>>
  <2>1. WithBlock(s) = block  BY <1>1, <1>3, <1>5 DEF WithBlock
  <2>2. UserText(<<>>) = <<>>  BY OnlyEmpty DEF UserText
  <2> QED  BY <1>2, <1>4, <1>5, <2>1, <2>2
<1>6. CASE base # <<>>
  <2>1. WithBlock(s) = (base \o sep) \o block  BY <1>1, <1>3, <1>6, Zenon DEF WithBlock
  <2>2. base \o sep \in Files  BY <1>2, <1>4 DEF Files
  <2>3. UserText(WithBlock(s)) = (UserText(base) \o UserText(sep)) \o UserText(block)
    BY <1>2, <1>4, <2>1, <2>2, TextOfConcat, Zenon
  <2>4. UserText(base) \in Files  BY <1>2, OnlyType DEF UserText, Files
  <2>5. (UserText(base) \o <<>>) \o <<>> = UserText(base)  BY <2>4 DEF Files
  <2> QED  BY <1>2, <1>4, <2>3, <2>5
<1> QED  BY <1>5, <1>6

-----------------------------------------------------------------------------
(* What the command is to write.                                            *)

LEMMA NextFile ==
    ASSUME Sound(rc)
    PROVE  /\ command.op = "install" => NextRc \in {rc, WithBlock(rc)} /\ HasBlock(NextRc)
           /\ command.op # "install" => NextRc = RemoveBlock(rc)
<1>1. CASE command.op = "install"
  <2>1. CASE SameBytes(WithBlock(rc), rc)
    <3>1. NextRc = rc  BY <1>1, <2>1 DEF NextRc
    <3> QED  BY <1>1, <2>1, <3>1, SameBlock
  <2>2. CASE ~SameBytes(WithBlock(rc), rc)
    <3>1. NextRc = WithBlock(rc)  BY <1>1, <2>2 DEF NextRc
    <3> QED  BY <1>1, <3>1, WithSound
  <2> QED  BY <2>1, <2>2
<1>2. CASE command.op # "install"
  <2>1. CASE SameBytes(RemoveBlock(rc), rc)
    <3>1. NextRc = rc  BY <1>2, <2>1 DEF NextRc
    <3>2. PICK t : t = RemoveBlock(rc)  OBVIOUS
    <3>3. Len(t) = Len(rc)  BY <2>1, <3>2 DEF SameBytes
    <3>4. Len(t) \in Nat /\ (t = rc \/ Len(t) < Len(rc))
      <4>1. t \in Files  BY <3>2, RemoveSound DEF Sound
      <4> QED  BY <3>2, <4>1, RemoveSound DEF Files
    <3>5. t = rc  BY <3>3, <3>4
    <3> QED  BY <1>2, <3>1, <3>2, <3>5
  <2>2. CASE ~SameBytes(RemoveBlock(rc), rc)  BY <1>2, <2>2 DEF NextRc
  <2> QED  BY <2>1, <2>2
<1> QED  BY <1>1, <1>2

LEMMA NextFileSound ==
    ASSUME Sound(rc)
    PROVE  /\ Sound(NextRc)
           /\ Apart(rc) => Apart(NextRc)
           /\ Whole(rc) => Whole(NextRc)
           /\ command.op # "install" => /\ Without(NextRc, {EndMark})
                                        /\ Whole(rc) => Without(NextRc, {StartMark, Sep})
<1>1. CASE command.op = "install"
  <2>1. PICK t : t = NextRc  OBVIOUS
  <2>2. t \in {rc, WithBlock(rc)}  BY <1>1, <2>1, NextFile
  <2>3. CASE t = rc  BY <1>1, <2>1, <2>3
  <2>4. CASE t = WithBlock(rc)  BY <1>1, <2>1, <2>4, WithSound
  <2> QED  BY <2>2, <2>3, <2>4
<1>2. CASE command.op # "install"
  <2>1. PICK t : t = RemoveBlock(rc)  OBVIOUS
  <2>2. NextRc = t  BY <1>2, <2>1, NextFile
  <2> QED  BY <2>1, <2>2, RemoveSound
<1> QED  BY <1>1, <1>2

-----------------------------------------------------------------------------
(* The groups of Claude's settings.                                         *)

GroupsType(s) ==
    /\ s.form \in Forms /\ s = [form |-> s.form, groups |-> s.groups]
    /\ s.groups \in Seq(SUBSET (Exes \cup Users))
    /\ s.form # "table" => s.groups = <<>>

\* One group has commands of snitchit's, and it has x alone of them.
OneHook(groups, x) ==
    \E i \in 1 .. Len(groups) :
       /\ groups[i] \cap Exes = {x}
       /\ \A j \in 1 .. Len(groups) : j # i => groups[j] \cap Exes = {}

NoHook(groups) == \A j \in 1 .. Len(groups) : groups[j] \cap Exes = {}

LEMMA Others ==
    ASSUME NEW s, GroupsType(s), NEW o, o = OthersGroups(s)
    PROVE  /\ o \in Seq(SUBSET (Exes \cup Users)) /\ NoHook(o)
           /\ OnlyUsers(o) = OnlyUsers(s.groups)
           /\ s.groups = <<>> => o = <<>>
<1>1. PICK X : X = SUBSET (Exes \cup Users)  OBVIOUS
<1>2. PICK g : g = s.groups  OBVIOUS
<1>3. g \in Seq(X)  BY <1>1, <1>2 DEF GroupsType
<1>4. PICK S : S = {h \in ToSet(g) : ~IsSnitchitGroup(h)}  OBVIOUS
<1>5. o = Only(g, S)  BY <1>2, <1>4 DEF OthersGroups
<1>6. o \in Seq(X)  BY <1>3, <1>5, OnlyType
<1>7. NoHook(o)
  <2>1. \A y : (\E i \in 1 .. Len(Only(g, S)) : Only(g, S)[i] = y)
                  <=> y \in S /\ \E i \in 1 .. Len(g) : g[i] = y
    BY <1>3, OnlyMembers
  <2>2. \A j \in 1 .. Len(o) : o[j] \in S  BY <1>5, <2>1, Zenon
  <2>3. Exes \subseteq Recognized  BY InstallAssumption DEF Recognized
  <2> QED  BY <1>4, <2>2, <2>3 DEF NoHook, IsSnitchitGroup
<1>8. Only(o, SUBSET Unlike) = Only(g, SUBSET Unlike)
  <2>1. ASSUME NEW i \in 1 .. Len(g), g[i] \in SUBSET Unlike  PROVE g[i] \in S
    <3>1. g[i] \in ToSet(g)  BY <1>3 DEF ToSet
    <3>2. g[i] \cap Recognized = {}  BY <2>1 DEF Unlike, Recognized
    <3> QED  BY <1>4, <3>1, <3>2 DEF IsSnitchitGroup
  <2> QED  BY <1>3, <1>5, <2>1, OnlyTwice
<1>9. g = <<>> => o = <<>>  BY <1>5, OnlyEmpty
<1> QED  BY <1>1, <1>2, <1>6, <1>7, <1>8, <1>9 DEF OnlyUsers

\* with_hook: one group is snitchit's.
LEMMA WithHookDoes ==
    ASSUME NEW s, GroupsType(s), exe \in Exes, NEW t, t = WithHook(s)
    PROVE  /\ GroupsType(t) /\ (OneHook(t.groups, exe) \/ t.form = "odd")
           /\ OnlyUsers(t.groups) = OnlyUsers(s.groups)
<1>1. CASE s.form = "odd"  BY <1>1 DEF WithHook
<1>2. CASE s.form # "odd"
  <2>1. PICK o : o = OthersGroups(s)  OBVIOUS
  <2>2. PICK X : X = SUBSET (Exes \cup Users)  OBVIOUS
  <2>3. o \in Seq(X) /\ NoHook(o) /\ OnlyUsers(o) = OnlyUsers(s.groups)  BY <2>1, <2>2, Others
  <2>4. PICK y : y = {exe}  OBVIOUS
  <2>5. y \in X /\ y \cap Exes = {exe} /\ y \notin SUBSET Unlike
    BY <2>2, <2>4, InstallAssumption DEF Unlike
  <2>6. t = [form |-> "table", groups |-> Append(o, y)]  BY <1>2, <2>1, <2>4 DEF WithHook
  <2>7. PICK n \in Nat : n = Len(o)  BY <2>3
  <2>8. PICK g : g = Append(o, y)  OBVIOUS
  <2>9. /\ g \in Seq(X) /\ Len(g) = n + 1 /\ g[n + 1] = y
        /\ \A j \in 1 .. n : g[j] = o[j]
    BY <2>3, <2>5, <2>7, <2>8
  <2>10. OneHook(g, exe)
    <3>1. \A j \in 1 .. n + 1 : j # n + 1 => j \in 1 .. n  OBVIOUS
    <3>2. \A j \in 1 .. n + 1 : j # n + 1 => g[j] \cap Exes = {}
      BY <2>3, <2>7, <2>9, <3>1 DEF NoHook
    <3>3. n + 1 \in 1 .. n + 1  OBVIOUS
    <3> QED  BY <2>5, <2>9, <3>2, <3>3 DEF OneHook
  <2>11. Only(g, SUBSET Unlike) = Only(o, SUBSET Unlike)
    <3>1. \A S : Only(Append(o, y), S) = IF y \in S THEN Append(Only(o, S), y) ELSE Only(o, S)
      BY <2>3, <2>5, OnlyAppend
    <3> QED  BY <2>5, <2>8, <3>1
  <2>12. t.form = "table" /\ t.groups = g /\ t = [form |-> t.form, groups |-> t.groups]
    BY <2>6, <2>8
  <2>13. GroupsType(t)  BY <2>2, <2>9, <2>12 DEF GroupsType, Forms
  <2> QED  BY <2>3, <2>10, <2>11, <2>12, <2>13 DEF OnlyUsers
<1> QED  BY <1>1, <1>2

\* without_hook: no group is.
LEMMA WithoutHookDoes ==
    ASSUME NEW s, GroupsType(s), NEW t, t = WithoutHook(s)
    PROVE  GroupsType(t) /\ NoHook(t.groups) /\ OnlyUsers(t.groups) = OnlyUsers(s.groups)
<1>1. PICK o : o = OthersGroups(s)  OBVIOUS
<1>2. /\ o \in Seq(SUBSET (Exes \cup Users)) /\ NoHook(o) /\ OnlyUsers(o) = OnlyUsers(s.groups)
      /\ s.groups = <<>> => o = <<>>
  BY <1>1, Others
<1>3. t.form = s.form /\ t.groups = o /\ t = [form |-> t.form, groups |-> t.groups]
  BY <1>1 DEF WithoutHook, GroupsType
<1> QED  BY <1>2, <1>3 DEF GroupsType

\* The user adds a group of his own, or a command to a group.
LEMMA AddGroupKeeps ==
    ASSUME NEW s, GroupsType(s), s.form # "odd", NEW u \in Users,
           NEW t, t = [form |-> "table", groups |-> Append(s.groups, {u})]
    PROVE  /\ GroupsType(t) /\ t.form # "odd"
           /\ \A x : OneHook(s.groups, x) => OneHook(t.groups, x)
           /\ NoHook(s.groups) => NoHook(t.groups)
<1>1. PICK X, g, y : X = SUBSET (Exes \cup Users) /\ g = s.groups /\ y = {u}  OBVIOUS
<1>2. g \in Seq(X) /\ y \in X /\ y \cap Exes = {}  BY <1>1, InstallAssumption DEF GroupsType
<1>3. PICK n \in Nat : n = Len(g)  BY <1>2
<1>4. PICK h : h = Append(g, y)  OBVIOUS
<1>5. h \in Seq(X) /\ Len(h) = n + 1 /\ h[n + 1] = y /\ \A j \in 1 .. n : h[j] = g[j]
  BY <1>2, <1>3, <1>4
<1>6. t.form = "table" /\ t.groups = h /\ t = [form |-> t.form, groups |-> t.groups]
  BY <1>1, <1>4
<1>7. \A j \in 1 .. n + 1 : j \in 1 .. n \/ j = n + 1  OBVIOUS
<1>8. NoHook(g) => NoHook(h)  BY <1>2, <1>3, <1>5, <1>7 DEF NoHook
<1>9. ASSUME NEW x, OneHook(g, x)  PROVE OneHook(h, x)
  <2>1. PICK i \in 1 .. n : g[i] \cap Exes = {x} /\ \A j \in 1 .. n : j # i => g[j] \cap Exes = {}
    BY <1>3, <1>9 DEF OneHook
  <2>2. i \in 1 .. n + 1 /\ h[i] \cap Exes = {x}  BY <1>5, <2>1
  <2>3. \A j \in 1 .. n + 1 : j # i => h[j] \cap Exes = {}  BY <1>2, <1>5, <1>7, <2>1
  <2> QED  BY <1>5, <2>2, <2>3 DEF OneHook
<1>10. GroupsType(t)  BY <1>1, <1>5, <1>6 DEF GroupsType, Forms
<1> QED  BY <1>1, <1>6, <1>8, <1>9, <1>10

LEMMA JoinGroupKeeps ==
    ASSUME NEW s, GroupsType(s), NEW i \in DOMAIN s.groups, NEW u \in Users,
           NEW y, y = s.groups[i] \cup {u}, NEW h, h = [s.groups EXCEPT ![i] = y],
           NEW t, t = [form |-> s.form, groups |-> h]
    PROVE  /\ GroupsType(t) /\ t.form = s.form
           /\ \A x : OneHook(s.groups, x) => OneHook(t.groups, x)
           /\ NoHook(s.groups) => NoHook(t.groups)
<1>1. PICK X, g : X = SUBSET (Exes \cup Users) /\ g = s.groups  OBVIOUS
<1>2. g \in Seq(X)  BY <1>1 DEF GroupsType
<1>3. PICK n \in Nat : n = Len(g)  BY <1>2
<1>4. i \in 1 .. n /\ g[i] \in X /\ DOMAIN g = 1 .. n  BY <1>1, <1>2, <1>3
<1>5. h = [g EXCEPT ![i] = y] /\ y = g[i] \cup {u}  BY <1>1
<1>6. h \in Seq(X) /\ Len(h) = n
  <2>1. PICK z \in X : z = y  BY <1>1, <1>4, <1>5
  <2>2. h = [g EXCEPT ![i] = z]  BY <1>5, <2>1
  <2>3. [g EXCEPT ![i] = z] \in Seq(X) /\ Len([g EXCEPT ![i] = z]) = n  BY <1>2, <1>3, <1>4
  <2> QED  BY <2>2, <2>3
<1>7. \A j \in 1 .. n : h[j] = IF j = i THEN g[i] \cup {u} ELSE g[j]  BY <1>4, <1>5
<1>8. \A j \in 1 .. n : h[j] \cap Exes = g[j] \cap Exes  BY <1>7, InstallAssumption
<1>9. t.form = s.form /\ t.groups = h /\ t = [form |-> t.form, groups |-> t.groups]
  BY <1>1, <1>5 DEF GroupsType
<1>10. g # <<>>  BY <1>3, <1>4
<1>11. NoHook(g) => NoHook(h)  BY <1>3, <1>6, <1>8 DEF NoHook
<1>12. ASSUME NEW x, OneHook(g, x)  PROVE OneHook(h, x)
  BY <1>3, <1>6, <1>8, <1>12 DEF OneHook
<1>13. GroupsType(t)  BY <1>1, <1>6, <1>9, <1>10 DEF GroupsType
<1> QED  BY <1>1, <1>9, <1>11, <1>12, <1>13

-----------------------------------------------------------------------------
(* The inductive invariant.                                                 *)

Ops  == {"install", "uninstall"}
Step == {"shell", "resolve", "claude", "opencode", "kernel"}

\* What a destination is like once op has reported it as done.
ShellDone(op, f, torn) ==
    IF op = "install" THEN HasBlock(f)
    ELSE Without(f, {EndMark}) /\ (torn = 0 => Without(f, {StartMark, Sep}))

ClaudeDone(op, s, x) ==
    IF op = "install" THEN OneHook(s.groups, x) \/ s.form = "odd" ELSE NoHook(s.groups)

PluginDone(op, p, x) == IF op = "install" THEN p = x ELSE p \notin Exes \cup {"cut"}

Ok(R, d) == [dest |-> d, ok |-> TRUE] \in R

Delivered(op, R) ==
    /\ Ok(R, "shell") => ShellDone(op, rc, tears)
    /\ Ok(R, "claude") => ClaudeDone(op, settings, exe)
    /\ Ok(R, "opencode") => PluginDone(op, plugin, exe)

\* A destination is reported or yet to come, and no destination is both or either
\* twice.
Schedule(results, todo) ==
    /\ Len(results) + Len(todo) <= 5
    /\ Distinct(todo)
    /\ \A i, j \in 1 .. Len(results) : results[i].dest = results[j].dest => i = j
    /\ \A i \in 1 .. Len(results), j \in 1 .. Len(todo) :
          /\ results[i].dest # todo[j]
          /\ ~(results[i].dest = "hooks" /\ todo[j] = "resolve")

CommandType(c) ==
    /\ c = [op |-> c.op, dry |-> c.dry, results |-> c.results, todo |-> c.todo]
    /\ c.op \in Ops /\ c.dry \in BOOLEAN
    /\ c.results \in Seq([dest : Dests, ok : BOOLEAN]) /\ c.todo \in Seq(Step)
    /\ Schedule(c.results, c.todo)

RcInv ==
    /\ Sound(rc)
    /\ tears = 0 => Whole(rc)
    /\ Sides \subseteq {"end"} => Apart(rc)

CommandInv ==
    command # None =>
       /\ CommandType(command) /\ report = None
       /\ ~command.dry => Delivered(command.op, ToSet(command.results))

ReportInv ==
    report # None =>
       /\ report.op \in Ops /\ report.results \subseteq [dest : Dests, ok : BOOLEAN]
       /\ ~report.failed => \E r \in report.results : r.ok
       /\ ~report.dry => Delivered(report.op, report.results)

IInv ==
    /\ RcInv /\ GroupsType(settings) /\ CommandInv /\ ReportInv
    /\ plugin \in Exes \cup {"absent", "unrecognized", "cut"}
    /\ exe \in Exes /\ tears \in Nat

-----------------------------------------------------------------------------
(* The steps of the command.                                                *)

\* A destination is done: it moves from those to come to those reported.
Reports(c, e, r) == e = [c EXCEPT !.todo = Tail(@), !.results = Append(c.results, r)]

LEMMA Proceeds ==
    ASSUME NEW c, CommandType(c), NEW r \in [dest : Dests, ok : BOOLEAN], r.dest # "hooks",
           c.todo # <<>>, Head(c.todo) = r.dest, NEW e, Reports(c, e, r)
    PROVE  /\ CommandType(e) /\ e.op = c.op /\ e.dry = c.dry
           /\ ToSet(e.results) = ToSet(c.results) \cup {r}
           /\ \A q \in ToSet(c.results) : q.dest # r.dest
<1>1. PICK R, D : R = [dest : Dests, ok : BOOLEAN] /\ D = Step  OBVIOUS
<1>2. PICK s, t, d : s = c.results /\ t = c.todo /\ d = r.dest  OBVIOUS
<1>3. s \in Seq(R) /\ t \in Seq(D)  BY <1>1, <1>2 DEF CommandType
<1>4. r \in R /\ r.dest = d /\ d # "hooks"  BY <1>1, <1>2
<1>5. PICK n \in Nat : n = Len(s)  BY <1>3
<1>6. PICK m \in Nat : m = Len(t) /\ m > 0  BY <1>2, <1>3
<1>7. PICK s2 : s2 = Append(s, r)  OBVIOUS
<1>8. /\ s2 \in Seq(R) /\ Len(s2) = n + 1 /\ s2[n + 1] = r
      /\ \A i \in 1 .. n : s2[i] = s[i]
  BY <1>3, <1>4, <1>5, <1>7
<1>9. PICK t2 : t2 = Tail(t)  OBVIOUS
<1>10. /\ t2 \in Seq(D) /\ Len(t2) = m - 1 /\ t[1] = d
       /\ \A i \in 1 .. m - 1 : t2[i] = t[i + 1]
  BY <1>2, <1>3, <1>6, <1>9
<1>11. /\ e.op = c.op /\ e.dry = c.dry /\ e.results = s2 /\ e.todo = t2
       /\ e = [op |-> e.op, dry |-> e.dry, results |-> e.results, todo |-> e.todo]
  BY <1>2, <1>7, <1>9 DEF CommandType, Reports
<1>12. /\ n + m <= 5
       /\ \A i, j \in 1 .. m : t[i] = t[j] => i = j
       /\ \A i, j \in 1 .. n : s[i].dest = s[j].dest => i = j
       /\ \A i \in 1 .. n, j \in 1 .. m :
             s[i].dest # t[j] /\ ~(s[i].dest = "hooks" /\ t[j] = "resolve")
  BY <1>2, <1>5, <1>6 DEF CommandType, Schedule, Distinct
<1>13. \A i \in 1 .. n : s[i].dest # d
  <2>1. 1 \in 1 .. m  BY <1>6
  <2> QED  BY <1>10, <1>12, <2>1
<1>14. \A i \in 1 .. n + 1 : i \in 1 .. n \/ i = n + 1  OBVIOUS
<1>15. \A i \in 1 .. m - 1 : i + 1 \in 1 .. m /\ i + 1 # 1  BY <1>6
<1>16. \A i, j \in 1 .. m - 1 : t2[i] = t2[j] => i = j
  <2>1. ASSUME NEW i \in 1 .. m - 1, NEW j \in 1 .. m - 1, t2[i] = t2[j]  PROVE i = j
    <3>1. i + 1 = j + 1  BY <1>10, <1>12, <1>15, <2>1
    <3> QED  BY <3>1
  <2> QED  BY <2>1
<1>17. \A i, j \in 1 .. n + 1 : s2[i].dest = s2[j].dest => i = j
  BY <1>4, <1>8, <1>12, <1>13, <1>14
<1>18. ASSUME NEW i \in 1 .. n + 1, NEW j \in 1 .. m - 1
       PROVE  s2[i].dest # t2[j] /\ ~(s2[i].dest = "hooks" /\ t2[j] = "resolve")
  <2>1. t2[j] = t[j + 1] /\ j + 1 \in 1 .. m /\ 1 \in 1 .. m /\ j + 1 # 1  BY <1>6, <1>10, <1>15
  <2>2. t2[j] # d  BY <1>10, <1>12, <2>1
  <2>3. CASE i = n + 1  BY <1>4, <1>8, <2>2, <2>3
  <2>4. CASE i \in 1 .. n  BY <1>8, <1>12, <2>1, <2>4
  <2> QED  BY <1>14, <2>3, <2>4
<1>19. CommandType(e)
  <2>1. Distinct(t2)  BY <1>10, <1>16 DEF Distinct
  <2>2. Len(s2) + Len(t2) <= 5  BY <1>5, <1>6, <1>8, <1>10, <1>12
  <2>3. c.op \in Ops /\ c.dry \in BOOLEAN  BY DEF CommandType
  <2>4. Schedule(s2, t2)  BY <1>8, <1>10, <1>17, <1>18, <2>1, <2>2 DEF Schedule
  <2> QED  BY <1>1, <1>8, <1>10, <1>11, <2>3, <2>4 DEF CommandType
<1>20. ToSet(s2) = ToSet(s) \cup {r}
  <2>1. DOMAIN s = 1 .. n /\ DOMAIN s2 = 1 .. n + 1  BY <1>3, <1>5, <1>8
  <2>2. n + 1 \in 1 .. n + 1 /\ \A i \in 1 .. n : i \in 1 .. n + 1  OBVIOUS
  <2> QED  BY <1>8, <1>14, <2>1, <2>2 DEF ToSet
<1>21. \A q \in ToSet(s) : q.dest # d
  <2>1. DOMAIN s = 1 .. n  BY <1>3, <1>5
  <2> QED  BY <1>13, <2>1 DEF ToSet
<1> QED  BY <1>2, <1>11, <1>19, <1>20, <1>21

\* The path of snitchit is there, or it is not and the agents are left out.
LEMMA Resolves ==
    ASSUME NEW c, CommandType(c), c.todo # <<>>, Head(c.todo) = "resolve",
           NEW e, e = [c EXCEPT !.todo = Tail(@)]
    PROVE  CommandType(e) /\ e.op = c.op /\ e.dry = c.dry /\ e.results = c.results
<1>1. PICK s, t : s = c.results /\ t = c.todo  OBVIOUS
<1>2. t \in Seq(Step)  BY <1>1 DEF CommandType
<1>3. PICK m \in Nat : m = Len(t) /\ m > 0  BY <1>1, <1>2
<1>4. PICK t2 : t2 = Tail(t)  OBVIOUS
<1>5. t2 \in Seq(Step) /\ Len(t2) = m - 1 /\ \A i \in 1 .. m - 1 : t2[i] = t[i + 1]
  BY <1>1, <1>2, <1>3, <1>4
<1>6. /\ e.op = c.op /\ e.dry = c.dry /\ e.results = s /\ e.todo = t2
      /\ e = [op |-> e.op, dry |-> e.dry, results |-> e.results, todo |-> e.todo]
  BY <1>1, <1>4 DEF CommandType
<1>7. \A i \in 1 .. m - 1 : i + 1 \in 1 .. m  BY <1>3
<1>8. Distinct(t2)
  <2>1. \A i, j \in 1 .. m : t[i] = t[j] => i = j  BY <1>1, <1>3 DEF CommandType, Schedule, Distinct
  <2>2. ASSUME NEW i \in 1 .. m - 1, NEW j \in 1 .. m - 1, t2[i] = t2[j]  PROVE i = j
    <3>1. i + 1 = j + 1  BY <1>5, <1>7, <2>1, <2>2
    <3> QED  BY <3>1
  <2> QED  BY <1>5, <2>2 DEF Distinct
<1>9. Len(s) + Len(t2) <= 5
  <2>1. Len(s) \in Nat /\ Len(s) + m <= 5  BY <1>1, <1>3 DEF CommandType, Schedule
  <2> QED  BY <1>3, <1>5, <2>1
<1>10. \A i \in 1 .. Len(s), j \in 1 .. Len(t2) :
          s[i].dest # t2[j] /\ ~(s[i].dest = "hooks" /\ t2[j] = "resolve")
  <2>1. \A i \in 1 .. Len(s), j \in 1 .. m :
           s[i].dest # t[j] /\ ~(s[i].dest = "hooks" /\ t[j] = "resolve")
    BY <1>1, <1>3 DEF CommandType, Schedule
  <2> QED  BY <1>5, <1>7, <2>1
<1>11. Schedule(s, t2)
  <2>1. \A i, j \in 1 .. Len(s) : s[i].dest = s[j].dest => i = j
    BY <1>1 DEF CommandType, Schedule
  <2> QED  BY <1>8, <1>9, <1>10, <2>1 DEF Schedule
<1> QED  BY <1>1, <1>5, <1>6, <1>11 DEF CommandType

LeavesAgentsOut(c, e) ==
    e = [c EXCEPT !.todo = Only(Tail(@), {"kernel"}),
                  !.results = Append(c.results, [dest |-> "hooks", ok |-> FALSE])]

LEMMA ResolvesNot ==
    ASSUME NEW c, CommandType(c), c.todo # <<>>, Head(c.todo) = "resolve",
           NEW e, LeavesAgentsOut(c, e)
    PROVE  /\ CommandType(e) /\ e.op = c.op /\ e.dry = c.dry
           /\ ToSet(e.results) = ToSet(c.results) \cup {[dest |-> "hooks", ok |-> FALSE]}
<1>1. PICK R : R = [dest : Dests, ok : BOOLEAN]  OBVIOUS
<1>2. PICK s, t, r : s = c.results /\ t = c.todo /\ r = [dest |-> "hooks", ok |-> FALSE]
  OBVIOUS
<1>3. s \in Seq(R) /\ t \in Seq(Step)  BY <1>1, <1>2 DEF CommandType
<1>4. r \in R /\ r.dest = "hooks"  BY <1>1, <1>2 DEF Dests
<1>5. PICK n \in Nat : n = Len(s)  BY <1>3
<1>6. PICK m \in Nat : m = Len(t) /\ m > 0  BY <1>2, <1>3
<1>7. PICK s2 : s2 = Append(s, r)  OBVIOUS
<1>8. /\ s2 \in Seq(R) /\ Len(s2) = n + 1 /\ s2[n + 1] = r
      /\ \A i \in 1 .. n : s2[i] = s[i]
  BY <1>3, <1>4, <1>5, <1>7
<1>9. PICK u : u = Tail(t)  OBVIOUS
<1>10. u \in Seq(Step) /\ Len(u) = m - 1 /\ t[1] = "resolve"
  BY <1>2, <1>3, <1>6, <1>9
<1>11. PICK K, t2 : K = {"kernel"} /\ t2 = Only(u, K)  OBVIOUS
<1>12. t2 \in Seq(Step) /\ Len(t2) \in Nat /\ Len(t2) <= m - 1
  BY <1>10, <1>11, OnlyType, OnlyShorter
<1>13. \A j \in 1 .. Len(t2) : t2[j] = "kernel" /\ \E i \in 1 .. m : t[i] = "kernel"
  <2>1. \A x : (\E i \in 1 .. Len(Only(u, K)) : Only(u, K)[i] = x)
                    <=> x \in K /\ \E i \in 1 .. Len(u) : u[i] = x
    BY <1>10, OnlyMembers
  <2>2. \A j \in 1 .. Len(t2) : t2[j] \in K /\ \E i \in 1 .. Len(u) : u[i] = t2[j]
    BY <1>11, <2>1, Zenon
  <2>3. \A i \in 1 .. m - 1 : u[i] = t[i + 1] /\ i + 1 \in 1 .. m  BY <1>3, <1>6, <1>9
  <2>4. \A j \in 1 .. Len(t2) : t2[j] = "kernel"  BY <1>11, <2>2
  <2>5. ASSUME NEW j \in 1 .. Len(t2)  PROVE \E i \in 1 .. m : t[i] = "kernel"
    <3>1. PICK i \in 1 .. m - 1 : u[i] = t2[j]  BY <1>10, <2>2
    <3> QED  BY <2>3, <2>4, <3>1
  <2> QED  BY <2>4, <2>5
<1>14. /\ e.op = c.op /\ e.dry = c.dry /\ e.results = s2 /\ e.todo = t2
       /\ e = [op |-> e.op, dry |-> e.dry, results |-> e.results, todo |-> e.todo]
  BY <1>2, <1>7, <1>9, <1>11 DEF CommandType, LeavesAgentsOut
<1>15. /\ n + m <= 5 /\ Distinct(t)
       /\ \A i, j \in 1 .. n : s[i].dest = s[j].dest => i = j
       /\ \A i \in 1 .. n, j \in 1 .. m :
             s[i].dest # t[j] /\ ~(s[i].dest = "hooks" /\ t[j] = "resolve")
  BY <1>2, <1>5, <1>6 DEF CommandType, Schedule
<1>16. \A i \in 1 .. n : s[i].dest # "hooks"
  <2>1. 1 \in 1 .. m  BY <1>6
  <2> QED  BY <1>10, <1>15, <2>1
<1>17. \A i \in 1 .. n + 1 : i \in 1 .. n \/ i = n + 1  OBVIOUS
<1>18. Distinct(t2)
  <2>1. Distinct(u)
    <3>1. \A i \in 1 .. m - 1 : u[i] = t[i + 1] /\ i + 1 \in 1 .. m  BY <1>3, <1>6, <1>9
    <3>2. ASSUME NEW i \in 1 .. m - 1, NEW j \in 1 .. m - 1, u[i] = u[j]  PROVE i = j
      <4>1. i + 1 = j + 1  BY <1>6, <1>15, <3>1, <3>2 DEF Distinct
      <4> QED  BY <4>1
    <3> QED  BY <1>10, <3>2 DEF Distinct
  <2> QED  BY <1>10, <1>11, <2>1, OnlyDistinct
<1>19. \A i, j \in 1 .. n + 1 : s2[i].dest = s2[j].dest => i = j
  BY <1>4, <1>8, <1>15, <1>16, <1>17
<1>20. ASSUME NEW i \in 1 .. n + 1, NEW j \in 1 .. Len(t2)
       PROVE  s2[i].dest # t2[j] /\ ~(s2[i].dest = "hooks" /\ t2[j] = "resolve")
  <2>1. t2[j] = "kernel"  BY <1>13
  <2>2. PICK k \in 1 .. m : t[k] = "kernel"  BY <1>13
  <2>3. CASE i = n + 1  BY <1>4, <1>8, <2>1, <2>3
  <2>4. CASE i \in 1 .. n  BY <1>8, <1>15, <2>1, <2>2, <2>4
  <2> QED  BY <1>17, <2>3, <2>4
<1>21. CommandType(e)
  <2>1. n + 1 + Len(t2) <= 5  BY <1>12, <1>15
  <2>2. c.op \in Ops /\ c.dry \in BOOLEAN  BY DEF CommandType
  <2>3. Schedule(s2, t2)  BY <1>8, <1>12, <1>18, <1>19, <1>20, <2>1 DEF Schedule
  <2> QED  BY <1>1, <1>8, <1>12, <1>14, <2>2, <2>3 DEF CommandType
<1>22. ToSet(s2) = ToSet(s) \cup {r}
  <2>1. DOMAIN s = 1 .. n /\ DOMAIN s2 = 1 .. n + 1  BY <1>3, <1>5, <1>8
  <2>2. n + 1 \in 1 .. n + 1 /\ \A i \in 1 .. n : i \in 1 .. n + 1  OBVIOUS
  <2> QED  BY <1>8, <1>17, <2>1, <2>2 DEF ToSet
<1> QED  BY <1>2, <1>14, <1>21, <1>22

Joined(s, t) ==
    /\ s \o t \in Seq(Step) /\ Len(s \o t) = Len(s) + Len(t)
    /\ \A i \in 1 .. Len(s) : (s \o t)[i] = s[i]
    /\ Len(t) = 1 => (s \o t)[Len(s) + 1] = t[1]

LEMMA UpToFive ==
    /\ \A i \in 1 .. 3 : i = 1 \/ i = 2 \/ i = 3
    /\ \A i \in 1 .. 4 : i = 1 \/ i = 2 \/ i = 3 \/ i = 4
    /\ \A i \in 1 .. 5 : i = 1 \/ i = 2 \/ i = 3 \/ i = 4 \/ i = 5
OBVIOUS

LEMMA Joins ==
    ASSUME NEW s \in Seq(Step), NEW t \in Seq(Step)
    PROVE  Joined(s, t)
BY DEF Joined

\* The destinations of a command, in their order.
LEMMA Plans ==
    ASSUME NEW a, NEW b, a = <<>> \/ a = <<"resolve">>, b = <<>> \/ b = <<"kernel">>,
           NEW t, t = <<"shell">> \o a \o <<"claude", "opencode">> \o b
    PROVE  t \in Seq(Step) /\ Len(t) \in 0 .. 5 /\ Distinct(t)
<1>1. PICK u, v, c, w : u = <<"shell">> /\ v = u \o a /\ c = <<"claude", "opencode">> /\ w = v \o c
  OBVIOUS
<1>2. t = w \o b  BY <1>1
<1>3. u \in Seq(Step) /\ Len(u) = 1 /\ u[1] = "shell"  BY <1>1 DEF Step
<1>4. c \in Seq(Step) /\ Len(c) = 2 /\ c[1] = "claude" /\ c[2] = "opencode"  BY <1>1 DEF Step
<1>5. CASE a = <<>>
  <2>1. v \in Seq(Step) /\ Len(v) = 1 /\ v[1] = "shell"  BY <1>1, <1>3, <1>5
  <2>2. /\ w \in Seq(Step) /\ Len(w) = 3
        /\ w[1] = "shell" /\ w[2] = "claude" /\ w[3] = "opencode"
    BY <1>1, <1>4, <2>1
  <2>3. CASE b = <<>>
    <3>1. w \o <<>> = w  BY <2>2
    <3>2. t = w  BY <1>2, <2>3, <3>1
    <3>3. Distinct(w)  BY <2>2, UpToFive DEF Distinct
    <3>4. w \in Seq(Step) /\ Len(w) \in 0 .. 5  BY <2>2
    <3> QED  BY <3>2, <3>3, <3>4
  <2>4. CASE b = <<"kernel">>
    <3>1. b \in Seq(Step) /\ Len(b) = 1 /\ b[1] = "kernel"  BY <2>4 DEF Step
    <3>2. Joined(w, b)  BY <2>2, <3>1, Joins
    <3>3. PICK k : k = Len(w)  OBVIOUS
    <3>4. /\ t \in Seq(Step) /\ Len(t) = k + 1 /\ t[k + 1] = "kernel"
          /\ \A i \in 1 .. k : t[i] = w[i]
      BY <1>2, <3>1, <3>2, <3>3, Zenon DEF Joined
    <3>5. Len(t) = 4 /\ t[1] = "shell" /\ t[2] = "claude" /\ t[3] = "opencode" /\ t[4] = "kernel"
      BY <2>2, <3>3, <3>4
    <3> QED  BY <3>4, <3>5, UpToFive DEF Distinct
  <2> QED  BY <2>3, <2>4
<1>6. CASE a = <<"resolve">>
  <2>1. a \in Seq(Step) /\ Len(a) = 1 /\ a[1] = "resolve"  BY <1>6 DEF Step
  <2>2. v \in Seq(Step) /\ Len(v) = 2 /\ v[1] = "shell" /\ v[2] = "resolve"
    <3>1. Joined(u, a)  BY <1>3, <2>1, Joins
    <3> QED  BY <1>1, <1>3, <2>1, <3>1 DEF Joined
  <2>3. /\ w \in Seq(Step) /\ Len(w) = 4
        /\ w[1] = "shell" /\ w[2] = "resolve" /\ w[3] = "claude" /\ w[4] = "opencode"
    BY <1>1, <1>4, <2>2
  <2>4. CASE b = <<>>
    <3>1. w \o <<>> = w  BY <2>3
    <3>2. t = w  BY <1>2, <2>4, <3>1
    <3>3. Distinct(w)  BY <2>3, UpToFive DEF Distinct
    <3>4. w \in Seq(Step) /\ Len(w) \in 0 .. 5  BY <2>3
    <3> QED  BY <3>2, <3>3, <3>4
  <2>5. CASE b = <<"kernel">>
    <3>1. b \in Seq(Step) /\ Len(b) = 1 /\ b[1] = "kernel"  BY <2>5 DEF Step
    <3>2. t \in Seq(Step) /\ Len(t) = 5 /\ t[5] = "kernel" /\ \A i \in 1 .. 4 : t[i] = w[i]
      BY <1>2, <2>3, <3>1
    <3>3. /\ Len(t) = 5 /\ t[1] = "shell" /\ t[2] = "resolve" /\ t[3] = "claude"
          /\ t[4] = "opencode" /\ t[5] = "kernel"
      BY <2>3, <3>2
    <3>4. t \in Seq(Step)  BY <3>2
    <3> QED  BY <3>3, <3>4, UpToFive DEF Distinct
  <2> QED  BY <2>4, <2>5
<1> QED  BY <1>5, <1>6

LEMMA Begins ==
    ASSUME NEW op \in Ops, NEW dry \in BOOLEAN, NEW kernel \in BOOLEAN, Begin(op, dry, kernel)
    PROVE  /\ CommandType(command') /\ command' # None /\ command'.results = <<>>
<1>1. PICK a, b : /\ a = (IF op = "install" THEN <<"resolve">> ELSE <<>>)
                  /\ b = (IF kernel THEN <<"kernel">> ELSE <<>>)
  OBVIOUS
<1>2. PICK t : t = <<"shell">> \o a \o <<"claude", "opencode">> \o b  OBVIOUS
<1>3. command' = [op |-> op, dry |-> dry, results |-> <<>>, todo |-> t]
  BY <1>1, <1>2 DEF Begin
<1>4. t \in Seq(Step) /\ Len(t) \in 0 .. 5 /\ Distinct(t)
  <2>1. (a = <<>> \/ a = <<"resolve">>) /\ (b = <<>> \/ b = <<"kernel">>)  BY <1>1
  <2> QED  BY <1>2, <2>1, Plans
<1>5. PICK s : s = <<>>  OBVIOUS
<1>6. s \in Seq([dest : Dests, ok : BOOLEAN]) /\ Len(s) = 0  BY <1>5
<1>7. Schedule(s, t)
  <2>1. Len(t) \in 0 .. 5 /\ Len(s) = 0  BY <1>4, <1>6
  <2>2. Len(s) + Len(t) <= 5
    <3>1. PICK k, m : k = Len(s) /\ m = Len(t)  OBVIOUS
    <3>2. k = 0 /\ m \in 0 .. 5  BY <2>1, <3>1
    <3>3. k + m <= 5  BY <3>2
    <3> QED  BY <3>1, <3>3
  <2>3. ASSUME NEW i \in 1 .. Len(s)  PROVE FALSE
    <3>1. i \in 1 .. 0  BY <2>1
    <3> QED  BY <3>1
  <2> QED  BY <1>4, <2>2, <2>3 DEF Schedule
<1>8. CommandType(command')  BY <1>3, <1>4, <1>5, <1>6, <1>7 DEF CommandType
<1>9. command' # None
  <2>1. DOMAIN command' = {"op", "dry", "results", "todo"}  BY <1>3
  <2>2. DOMAIN None = {"op"}  BY DEF None
  <2>3. "dry" \notin {"op"}  OBVIOUS
  <2> QED  BY <2>1, <2>2, <2>3
<1> QED  BY <1>3, <1>8, <1>9

LEMMA NotNone ==
    ASSUME NEW c, CommandType(c)
    PROVE  c # None
<1>1. DOMAIN c = {"op", "dry", "results", "todo"}
  <2>1. c = [op |-> c.op, dry |-> c.dry, results |-> c.results, todo |-> c.todo]
    BY DEF CommandType
  <2> QED  BY <2>1
<1>2. DOMAIN None = {"op"}  BY DEF None
<1>3. "dry" \notin {"op"}  OBVIOUS
<1> QED  BY <1>1, <1>2, <1>3

\* A destination is reported: it is done if it is reported as done, and those that
\* were done before still are.
LEMMA CommandStep ==
    ASSUME IInv, NEW d \in {"shell", "claude", "opencode", "kernel"}, NEW ok \in BOOLEAN,
           At(d), Proceed(d, ok),
           ~command.dry =>
              /\ (IF d = "shell" THEN ok ELSE ShellDone(command.op, rc, tears))
                    => ShellDone(command.op, rc', tears')
              /\ (IF d = "claude" THEN ok ELSE ClaudeDone(command.op, settings, exe))
                    => ClaudeDone(command.op, settings', exe')
              /\ (IF d = "opencode" THEN ok ELSE PluginDone(command.op, plugin, exe))
                    => PluginDone(command.op, plugin', exe')
    PROVE  CommandInv' /\ ReportInv' /\ exe' = exe
<1>1. PICK c, e : c = command /\ e = command'  OBVIOUS
<1>2. c # None /\ c.todo # <<>> /\ Head(c.todo) = d  BY <1>1 DEF At
<1>3. CommandType(c) /\ report = None  BY <1>1, <1>2 DEF IInv, CommandInv
<1>4. PICK q : q = [dest |-> d, ok |-> ok]  OBVIOUS
<1>5. q \in [dest : Dests, ok : BOOLEAN] /\ q.dest = d /\ q.dest # "hooks"
  BY <1>4 DEF Dests
<1>6. Reports(c, e, q)  BY <1>1, <1>4 DEF Proceed, Result, Reports
<1>7. report' = None /\ exe' = exe  BY <1>3 DEF Proceed
<1>8. /\ CommandType(e) /\ e.op = c.op /\ e.dry = c.dry
      /\ ToSet(e.results) = ToSet(c.results) \cup {q}
      /\ \A r \in ToSet(c.results) : r.dest # d
  <2>1. Head(c.todo) = q.dest  BY <1>2, <1>5
  <2>2. /\ CommandType(e) /\ e.op = c.op /\ e.dry = c.dry
        /\ ToSet(e.results) = ToSet(c.results) \cup {q}
        /\ \A r \in ToSet(c.results) : r.dest # q.dest
    BY <1>2, <1>3, <1>5, <1>6, <2>1, Proceeds, Zenon
  <2> QED  BY <1>5, <2>2
<1>9. PICK R, Q : R = ToSet(c.results) /\ Q = ToSet(e.results)  OBVIOUS
<1>10. \A x : Ok(Q, x) => IF x = d THEN ok ELSE Ok(R, x)
  <2>1. \A r \in Q : r \in R \/ r = q  BY <1>8, <1>9
  <2>2. ASSUME NEW x, Ok(Q, x)  PROVE IF x = d THEN ok ELSE Ok(R, x)
    <3>1. PICK r : r = [dest |-> x, ok |-> TRUE]  OBVIOUS
    <3>2. r \in Q /\ r.dest = x /\ r.ok = TRUE  BY <2>2, <3>1 DEF Ok
    <3>3. CASE r \in R
      <4>1. x # d  BY <1>8, <1>9, <3>2, <3>3
      <4> QED  BY <3>1, <3>3, <4>1 DEF Ok
    <3>4. CASE r = q  BY <1>4, <3>2, <3>4
    <3> QED  BY <2>1, <3>2, <3>3, <3>4
  <2> QED  BY <2>2
<1>11. ASSUME ~c.dry  PROVE Delivered(c.op, Q)'
  <2>1. /\ Ok(R, "shell") => ShellDone(c.op, rc, tears)
        /\ Ok(R, "claude") => ClaudeDone(c.op, settings, exe)
        /\ Ok(R, "opencode") => PluginDone(c.op, plugin, exe)
    BY <1>1, <1>2, <1>9, <1>11 DEF IInv, CommandInv, Delivered
  <2>2. Ok(Q, "shell") => ShellDone(c.op, rc', tears')  BY <1>1, <1>10, <1>11, <2>1
  <2>3. Ok(Q, "claude") => ClaudeDone(c.op, settings', exe')  BY <1>1, <1>10, <1>11, <2>1
  <2>4. Ok(Q, "opencode") => PluginDone(c.op, plugin', exe')  BY <1>1, <1>10, <1>11, <2>1
  <2> QED  BY <2>2, <2>3, <2>4 DEF Delivered
<1>12. CommandInv'  BY <1>1, <1>7, <1>8, <1>9, <1>11 DEF CommandInv
<1> QED  BY <1>7, <1>12 DEF ReportInv

\* The write is cut short: the destination is not reported as done, and the others
\* are as they were.
LEMMA TearStep ==
    ASSUME IInv, NEW d \in {"shell", "claude", "opencode"}, At(d), Tear(d),
           d # "shell" => rc' = rc, d # "claude" => settings' = settings,
           d # "opencode" => plugin' = plugin
    PROVE  CommandInv' /\ ReportInv' /\ exe' = exe
<1>1. tears \in Nat /\ tears' = tears + 1 /\ tears' # 0  BY DEF IInv, Tear
<1>2. CASE Proceed(d, FALSE)
  <2>1. exe' = exe  BY <1>2 DEF Proceed
  <2>2. \A op : ShellDone(op, rc, tears) => ShellDone(op, rc, tears')
    BY <1>1 DEF ShellDone
  <2> QED  BY <1>2, <2>1, <2>2, CommandStep
<1>3. CASE command' = None /\ UNCHANGED <<exe, report, edits>>
  <2>1. report = None  BY DEF IInv, CommandInv, At
  <2> QED  BY <1>3, <2>1 DEF CommandInv, ReportInv
<1> QED  BY <1>2, <1>3 DEF Tear

\* The user edits a file: what was done still is.
LEMMA EditStep ==
    ASSUME IInv, Edit,
           \A op \in Ops : /\ ShellDone(op, rc, tears) => ShellDone(op, rc', tears')
                           /\ ClaudeDone(op, settings, exe) => ClaudeDone(op, settings', exe')
    PROVE  CommandInv' /\ ReportInv' /\ UNCHANGED <<plugin, exe, tears>>
<1>1. UNCHANGED <<plugin, exe, command, tears>> /\ report' = None  BY DEF Edit
<1>2. ASSUME command # None  PROVE ~command.dry => Delivered(command.op, ToSet(command.results))'
  <2>1. CommandType(command) /\ (~command.dry => Delivered(command.op, ToSet(command.results)))
    BY <1>2 DEF IInv, CommandInv
  <2>2. command.op \in Ops  BY <2>1 DEF CommandType
  <2> QED  BY <1>1, <2>1, <2>2 DEF Delivered
<1>3. CommandInv'  BY <1>1, <1>2 DEF IInv, CommandInv
<1> QED  BY <1>1, <1>3 DEF ReportInv

-----------------------------------------------------------------------------
(* Every step keeps the invariant.                                          *)

LEMMA InitStep ==
    ASSUME Init
    PROVE  IInv
<1>1. PICK s : s = rc  OBVIOUS
<1>2. s \in Files /\ (Len(s) = 0 \/ (s[1] \in Texts /\ (Len(s) = 1 \/ (Len(s) = 2 /\ s[2] = Nl))))
  <2>1. CASE s = <<>>  BY <2>1 DEF Files
  <2>2. ASSUME NEW t \in Texts, s = <<t>>  PROVE s \in Files /\ Len(s) = 1 /\ s[1] = t
    <3>1. t \in Tokens  BY DEF Tokens
    <3>2. s \in Seq(Tokens) /\ Len(s) = 1 /\ s[1] = t  BY <2>2, <3>1
    <3> QED  BY <3>2, Marks
  <2>3. ASSUME NEW t \in Texts, s = <<t, Nl>>
        PROVE  s \in Files /\ Len(s) = 2 /\ s[1] = t /\ s[2] = Nl
    <3>1. t \in Tokens /\ Nl \in Tokens  BY DEF Tokens
    <3>2. PICK x : x = Nl  OBVIOUS
    <3>3. s \in Seq(Tokens) /\ Len(s) = 2 /\ s[1] = t /\ s[2] = x  BY <2>3, <3>1, <3>2
    <3> QED  BY <3>2, <3>3, Marks
  <2>4. s \in {<<>>} \cup UNION {{<<t>>, <<t, Nl>>} : t \in Texts}  BY <1>1 DEF Init
  <2> QED  BY <2>1, <2>2, <2>3, <2>4
<1>3. \A i \in 1 .. Len(s) : s[i] \in Texts \/ s[i] = Nl  BY <1>2
<1>4. \A i \in 1 .. Len(s) : s[i] \notin {Sep, Eol, StartMark, "functions", EndMark}
  BY <1>3, Marks
<1>5. RcInv  BY <1>1, <1>2, <1>4 DEF RcInv, Sound, Whole, Apart
<1>6. GroupsType(settings)
  <2>1. PICK form \in Forms : settings = NoGroups(form)  BY DEF Init
  <2> QED  BY <2>1 DEF GroupsType, NoGroups
<1> QED  BY <1>5, <1>6 DEF Init, IInv, CommandInv, ReportInv

\* What a step must do about the rc file.
LEMMA RcKept ==
    ASSUME RcInv, rc' = rc, tears' = 0 => tears = 0
    PROVE  RcInv'
BY DEF RcInv

LEMMA ShellStep ==
    ASSUME IInv, Shell
    PROVE  IInv'
<1>1. Sound(rc) /\ (tears = 0 => Whole(rc)) /\ tears' = tears  BY DEF IInv, RcInv, Shell
<1>2. command # None /\ CommandType(command)  BY DEF IInv, CommandInv, Shell, At
<1>3. RcInv'
  <2>1. rc' = rc \/ rc' = NextRc  BY DEF Shell
  <2>2. /\ Sound(NextRc) /\ (Apart(rc) => Apart(NextRc)) /\ (Whole(rc) => Whole(NextRc))
    BY <1>1, NextFileSound
  <2> QED  BY <1>1, <2>1, <2>2 DEF IInv, RcInv
<1>4. ASSUME ~command.dry  PROVE ShellDone(command.op, rc', tears')
  <2>1. rc' = NextRc  BY <1>4 DEF Shell
  <2>2. CASE command.op = "install"  BY <1>1, <2>1, <2>2, NextFile DEF ShellDone
  <2>3. CASE command.op # "install"
    <3>1. Without(rc', {EndMark}) /\ (Whole(rc) => Without(rc', {StartMark, Sep}))
      BY <1>1, <2>1, <2>3, NextFileSound
    <3> QED  BY <1>1, <2>3, <3>1 DEF ShellDone
  <2> QED  BY <2>2, <2>3
<1>5. UNCHANGED <<settings, plugin>> /\ Proceed("shell", TRUE) /\ At("shell") /\ exe' = exe
  BY DEF Shell, Proceed
<1>6. CommandInv' /\ ReportInv'  BY <1>4, <1>5, CommandStep
<1>7. GroupsType(settings)'  BY <1>5 DEF IInv
<1> QED  BY <1>1, <1>3, <1>5, <1>6, <1>7 DEF IInv

LEMMA ShellTornStep ==
    ASSUME IInv, ShellTorn
    PROVE  IInv'
<1>1. Sound(rc) /\ tears \in Nat /\ tears' = tears + 1  BY DEF IInv, RcInv, ShellTorn, Tear
<1>2. Sound(NextRc) /\ (Apart(rc) => Apart(NextRc))  BY <1>1, NextFileSound
<1>3. RcInv'
  <2>1. PICK n \in 0 .. Len(NextRc) - 1 : rc' = SubSeq(NextRc, 1, n)  BY DEF ShellTorn
  <2>2. n \in 0 .. Len(NextRc)
    <3>1. Len(NextRc) \in Nat  BY <1>2 DEF Sound, Files
    <3> QED  BY <3>1
  <2>3. PICK s, t : s = NextRc /\ t = rc'  OBVIOUS
  <2>4. Sound(t) /\ (Apart(s) => Apart(t))
    <3>1. Sound(s) /\ n \in 0 .. Len(s) /\ t = SubSeq(s, 1, n)  BY <1>2, <2>1, <2>2, <2>3
    <3> QED  BY <3>1, PrefixSound
  <2>5. tears' # 0  BY <1>1
  <2> QED  BY <1>2, <2>3, <2>4, <2>5 DEF IInv, RcInv
<1>4. UNCHANGED <<settings, plugin>> /\ Tear("shell") /\ At("shell")  BY DEF ShellTorn
<1>5. CommandInv' /\ ReportInv' /\ exe' = exe  BY <1>4, TearStep
<1>6. GroupsType(settings)'  BY <1>4 DEF IInv
<1>7. tears' \in Nat  BY <1>1
<1> QED  BY <1>3, <1>4, <1>5, <1>6, <1>7 DEF IInv

LEMMA NextGroups ==
    ASSUME GroupsType(settings), exe \in Exes
    PROVE  /\ GroupsType(NextSettings) /\ ClaudeDone(command.op, NextSettings, exe)
           /\ OnlyUsers(NextSettings.groups) = OnlyUsers(settings.groups)
<1>1. PICK s, t : s = settings /\ t = NextSettings  OBVIOUS
<1>2. CASE command.op = "install"
  <2>1. t = WithHook(s)  BY <1>1, <1>2 DEF NextSettings
  <2> QED  BY <1>1, <1>2, <2>1, WithHookDoes DEF ClaudeDone
<1>3. CASE command.op # "install"
  <2>1. t = WithoutHook(s)  BY <1>1, <1>3 DEF NextSettings
  <2> QED  BY <1>1, <1>3, <2>1, WithoutHookDoes DEF ClaudeDone
<1> QED  BY <1>2, <1>3

LEMMA ClaudeStep ==
    ASSUME IInv, Claude
    PROVE  IInv'
<1>1. UNCHANGED <<rc, plugin, tears, exe>> /\ Proceed("claude", TRUE) /\ At("claude")
  BY DEF Claude, Proceed
<1>2. GroupsType(settings) /\ exe \in Exes  BY DEF IInv
<1>3. GroupsType(settings)'  BY <1>2, NextGroups DEF Claude
<1>4. ASSUME ~command.dry  PROVE ClaudeDone(command.op, settings', exe')
  BY <1>1, <1>2, <1>4, NextGroups DEF Claude
<1>5. CommandInv' /\ ReportInv'  BY <1>1, <1>4, CommandStep
<1>6. RcInv'  BY <1>1, RcKept DEF IInv
<1> QED  BY <1>1, <1>3, <1>5, <1>6 DEF IInv

LEMMA ClaudeTornStep ==
    ASSUME IInv, ClaudeTorn
    PROVE  IInv'
<1>1. UNCHANGED <<rc, plugin>> /\ Tear("claude") /\ At("claude")  BY DEF ClaudeTorn
<1>2. tears \in Nat /\ tears' = tears + 1 /\ tears' \in Nat /\ tears' # 0
  BY DEF IInv, ClaudeTorn, Tear
<1>3. GroupsType(settings)'
  <2>1. PICK form \in Forms : settings' = NoGroups(form)  BY DEF ClaudeTorn, Forms
  <2> QED  BY <2>1 DEF GroupsType, NoGroups
<1>4. CommandInv' /\ ReportInv' /\ exe' = exe  BY <1>1, TearStep
<1>5. RcInv'  BY <1>1, <1>2, RcKept DEF IInv
<1> QED  BY <1>1, <1>2, <1>3, <1>4, <1>5 DEF IInv

LEMMA OpenCodeStep ==
    ASSUME IInv, OpenCode
    PROVE  IInv'
<1>1. UNCHANGED <<rc, settings, tears, exe>> /\ Proceed("opencode", TRUE) /\ At("opencode")
  BY DEF OpenCode, Proceed
<1>2. plugin \in Exes \cup {"absent", "unrecognized", "cut"} /\ exe \in Exes  BY DEF IInv
<1>3. plugin' \in Exes \cup {"absent", "unrecognized", "cut"}  BY <1>2 DEF OpenCode
<1>4. ASSUME ~command.dry  PROVE PluginDone(command.op, plugin', exe')
  BY <1>1, <1>2, <1>4, InstallAssumption DEF OpenCode, PluginDone, Ours
<1>5. CommandInv' /\ ReportInv'  BY <1>1, <1>4, CommandStep
<1>6. RcInv' /\ GroupsType(settings)'  BY <1>1, RcKept DEF IInv
<1> QED  BY <1>1, <1>2, <1>3, <1>5, <1>6 DEF IInv

LEMMA OpenCodeTornStep ==
    ASSUME IInv, OpenCodeTorn
    PROVE  IInv'
<1>1. UNCHANGED <<rc, settings>> /\ Tear("opencode") /\ At("opencode")  BY DEF OpenCodeTorn
<1>2. tears \in Nat /\ tears' = tears + 1 /\ tears' \in Nat /\ tears' # 0
  BY DEF IInv, OpenCodeTorn, Tear
<1>3. CommandInv' /\ ReportInv' /\ exe' = exe  BY <1>1, TearStep
<1>4. RcInv' /\ GroupsType(settings)'  BY <1>1, <1>2, RcKept DEF IInv
<1> QED  BY <1>1, <1>2, <1>3, <1>4 DEF IInv, OpenCodeTorn

LEMMA FailsStep ==
    ASSUME IInv, Kernel \/ \E d \in {"shell", "claude", "opencode", "kernel"} : Fails(d)
    PROVE  IInv'
<1>1. PICK d \in {"shell", "claude", "opencode", "kernel"} :
         At(d) /\ (Proceed(d, FALSE) \/ (d = "kernel" /\ Proceed(d, TRUE)))
  BY DEF Fails, Kernel
<1>2. UNCHANGED <<files, tears>> /\ exe' = exe  BY DEF Fails, Kernel, Proceed
<1>3. CommandInv' /\ ReportInv'
  <2>1. CASE Proceed(d, FALSE)  BY <1>1, <1>2, <2>1, CommandStep DEF files
  <2>2. CASE d = "kernel" /\ Proceed(d, TRUE)  BY <1>1, <1>2, <2>2, CommandStep DEF files
  <2> QED  BY <1>1, <2>1, <2>2
<1>4. RcInv' /\ GroupsType(settings)'  BY <1>2, RcKept DEF IInv, files
<1> QED  BY <1>2, <1>3, <1>4 DEF IInv, files

\* The files are as they were, and so is what is reported as done.
LEMMA SameFiles ==
    ASSUME IInv, command # None, UNCHANGED <<files, exe, report, tears>>, CommandType(command'),
           command'.op = command.op, command'.dry = command.dry,
           \A x : Ok(ToSet(command'.results), x) => Ok(ToSet(command.results), x)
    PROVE  IInv'
<1>1. UNCHANGED <<rc, settings, plugin, exe, report, tears>>  BY DEF files
<1>2. CommandType(command) /\ report = None  BY DEF IInv, CommandInv
<1>3. ~command.dry => Delivered(command.op, ToSet(command.results))  BY DEF IInv, CommandInv
<1>4. PICK e : e = command'  OBVIOUS
<1>5. CommandInv' /\ ReportInv'
  <2>1. ~e.dry => Delivered(e.op, ToSet(e.results))'  BY <1>1, <1>3, <1>4 DEF Delivered
  <2> QED  BY <1>1, <1>2, <1>4, <2>1 DEF CommandInv, ReportInv
<1>6. RcInv' /\ GroupsType(settings)'  BY <1>1, RcKept DEF IInv
<1> QED  BY <1>1, <1>5, <1>6 DEF IInv

LEMMA ResolveStep ==
    ASSUME IInv, Resolve
    PROVE  IInv'
<1>1. PICK c, e : c = command /\ e = command'  OBVIOUS
<1>2. c # None /\ c.todo # <<>> /\ Head(c.todo) = "resolve"  BY <1>1 DEF Resolve, At
<1>3. CommandType(c)  BY <1>1, <1>2 DEF IInv, CommandInv
<1>4. CommandType(e) /\ e.op = c.op /\ e.dry = c.dry /\ e.results = c.results
  <2>1. e = [c EXCEPT !.todo = Tail(@)]  BY <1>1 DEF Resolve
  <2> QED  BY <1>2, <1>3, <2>1, Resolves
<1> QED  BY <1>1, <1>2, <1>4, SameFiles DEF Resolve

LEMMA ResolveFailsStep ==
    ASSUME IInv, ResolveFails
    PROVE  IInv'
<1>1. PICK c, e : c = command /\ e = command'  OBVIOUS
<1>2. c # None /\ c.todo # <<>> /\ Head(c.todo) = "resolve"  BY <1>1 DEF ResolveFails, At
<1>3. CommandType(c)  BY <1>1, <1>2 DEF IInv, CommandInv
<1>4. /\ CommandType(e) /\ e.op = c.op /\ e.dry = c.dry
      /\ ToSet(e.results) = ToSet(c.results) \cup {[dest |-> "hooks", ok |-> FALSE]}
  <2>1. LeavesAgentsOut(c, e)  BY <1>1 DEF ResolveFails, Result, LeavesAgentsOut
  <2> QED  BY <1>2, <1>3, <2>1, ResolvesNot
<1>5. ASSUME NEW x, Ok(ToSet(e.results), x)  PROVE Ok(ToSet(c.results), x)
  <2>1. PICK r : r = [dest |-> x, ok |-> TRUE]  OBVIOUS
  <2>2. PICK q : q = [dest |-> "hooks", ok |-> FALSE]  OBVIOUS
  <2>3. r.ok # q.ok  BY <2>1, <2>2
  <2>4. r \in ToSet(c.results) \/ r = q  BY <1>4, <1>5, <2>1, <2>2 DEF Ok
  <2> QED  BY <2>1, <2>3, <2>4 DEF Ok
<1> QED  BY <1>1, <1>2, <1>4, <1>5, SameFiles DEF ResolveFails

LEMMA BeginStep ==
    ASSUME IInv, NEW op \in Ops, NEW dry \in BOOLEAN, NEW kernel \in BOOLEAN, Begin(op, dry, kernel)
    PROVE  IInv'
<1>1. CommandType(command') /\ command'.results = <<>>  BY Begins
<1>2. UNCHANGED <<rc, settings, plugin, exe, tears>> /\ report' = None  BY DEF Begin, files
<1>3. ToSet(command'.results) = {}
  <2>1. DOMAIN <<>> = {}  OBVIOUS
  <2> QED  BY <1>1, <2>1 DEF ToSet
<1>4. \A p : Delivered(p, {})'  BY DEF Delivered, Ok
<1>5. CommandInv' /\ ReportInv'  BY <1>1, <1>2, <1>3, <1>4 DEF CommandInv, ReportInv
<1>6. RcInv' /\ GroupsType(settings)'  BY <1>2, RcKept DEF IInv
<1> QED  BY <1>2, <1>5, <1>6 DEF IInv

LEMMA FinishStep ==
    ASSUME IInv, Finish
    PROVE  IInv'
<1>1. UNCHANGED <<rc, settings, plugin, exe, tears>> /\ command' = None  BY DEF Finish, files
<1>2. command # None /\ CommandType(command)  BY DEF IInv, CommandInv, Finish
<1>3. PICK c, s, R : c = command /\ s = c.results /\ R = ToSet(s)  OBVIOUS
<1>4. /\ report'.op = c.op /\ report'.dry = c.dry /\ report'.results = R
      /\ report'.failed = \A i \in DOMAIN s : ~s[i].ok
  BY <1>3 DEF Finish
<1>5. c.op \in Ops /\ s \in Seq([dest : Dests, ok : BOOLEAN])  BY <1>2, <1>3 DEF CommandType
<1>6. R \subseteq [dest : Dests, ok : BOOLEAN]
  <2>1. PICK X : X = [dest : Dests, ok : BOOLEAN]  OBVIOUS
  <2>2. s \in Seq(X)  BY <1>5, <2>1
  <2>3. \A i \in DOMAIN s : s[i] \in X  BY <2>2
  <2> QED  BY <1>3, <2>1, <2>3 DEF ToSet
<1>7. ASSUME ~report'.failed  PROVE \E r \in R : r.ok
  <2>1. PICK i \in DOMAIN s : s[i].ok  BY <1>4, <1>7
  <2>2. s[i] \in R  BY <1>3 DEF ToSet
  <2> QED  BY <2>1, <2>2
<1>8. ~c.dry => Delivered(c.op, R)  BY <1>2, <1>3 DEF IInv, CommandInv
<1>9. ~c.dry => Delivered(c.op, R)'  BY <1>1, <1>8 DEF Delivered
<1>10. ReportInv'  BY <1>4, <1>5, <1>6, <1>7, <1>9 DEF ReportInv
<1>11. RcInv' /\ GroupsType(settings)'  BY <1>1, RcKept DEF IInv
<1> QED  BY <1>1, <1>10, <1>11 DEF IInv, CommandInv

\* snitchit is killed between two writes, or put elsewhere when it does not run.
LEMMA KillStep ==
    ASSUME IInv, Kill \/ Move
    PROVE  IInv'
<1>1. UNCHANGED <<rc, settings, plugin, tears>> /\ command' = None /\ exe' \in Exes
  BY DEF Kill, Move, files, IInv
<1>2. report' = None  BY DEF IInv, CommandInv, Kill, Move
<1>3. RcInv' /\ GroupsType(settings)'  BY <1>1, RcKept DEF IInv
<1> QED  BY <1>1, <1>2, <1>3 DEF IInv, CommandInv, ReportInv

LEMMA AddLineStep ==
    ASSUME IInv, NEW t \in Texts, NEW side \in Sides, AddLine(t, side)
    PROVE  IInv'
<1>1. Edit /\ settings' = settings  BY DEF AddLine
<1>2. UNCHANGED <<plugin, exe, tears>>  BY <1>1 DEF Edit
<1>3. PICK s, u : s = rc /\ u = rc'  OBVIOUS
<1>4. Sound(s) /\ (tears = 0 => Whole(s)) /\ (Sides \subseteq {"end"} => Apart(s))
  BY <1>3 DEF IInv, RcInv
<1>5. (side = "top" /\ u = <<t, Nl>> \o s) \/ (side = "end" /\ u = s \o <<t, Nl>>)
  BY <1>3, InstallAssumption DEF AddLine
<1>6. /\ Sound(u) /\ (Whole(s) => Whole(u)) /\ (HasBlock(s) => HasBlock(u))
      /\ \A T \in SUBSET {StartMark, Sep, EndMark} : Without(s, T) => Without(u, T)
  <2>1. CASE u = <<t, Nl>> \o s  BY <1>4, <2>1, TopSound
  <2>2. CASE u = s \o <<t, Nl>>  BY <1>4, <2>2, EndSound
  <2> QED  BY <1>5, <2>1, <2>2
<1>7. Sides \subseteq {"end"} => Apart(u)
  <2>1. ASSUME Sides \subseteq {"end"}  PROVE u = s \o <<t, Nl>>  BY <1>5, <2>1
  <2> QED  BY <1>4, <2>1, EndSound
<1>8. RcInv'  BY <1>2, <1>3, <1>4, <1>6, <1>7 DEF RcInv
<1>9. ASSUME NEW op \in Ops, ShellDone(op, rc, tears)  PROVE ShellDone(op, rc', tears')
  <2>1. {EndMark} \in SUBSET {StartMark, Sep, EndMark}
        /\ {StartMark, Sep} \in SUBSET {StartMark, Sep, EndMark}
    OBVIOUS
  <2> QED  BY <1>2, <1>3, <1>6, <1>9, <2>1 DEF ShellDone
<1>10. CommandInv' /\ ReportInv'  BY <1>1, <1>2, <1>9, EditStep
<1>11. GroupsType(settings)'  BY <1>1 DEF IInv
<1> QED  BY <1>2, <1>8, <1>10, <1>11 DEF IInv

LEMMA GroupStep ==
    ASSUME IInv, NEW u \in Users,
           AddGroup(u) \/ \E i \in DOMAIN settings.groups : JoinGroup(i, u)
    PROVE  IInv'
<1>1. Edit /\ rc' = rc  BY DEF AddGroup, JoinGroup
<1>2. UNCHANGED <<plugin, exe, tears>>  BY <1>1 DEF Edit
<1>3. GroupsType(settings)  BY DEF IInv
<1>4. /\ GroupsType(settings') /\ (settings.form = "odd" => settings'.form = "odd")
      /\ \A x : OneHook(settings.groups, x) => OneHook(settings'.groups, x)
      /\ NoHook(settings.groups) => NoHook(settings'.groups)
  <2>1. PICK s, t : s = settings /\ t = settings'  OBVIOUS
  <2>2. CASE AddGroup(u)
    <3>1. s.form # "odd" /\ t = [form |-> "table", groups |-> Append(s.groups, {u})]
      BY <2>1, <2>2 DEF AddGroup
    <3> QED  BY <1>3, <2>1, <3>1, AddGroupKeeps
  <2>3. ASSUME NEW i \in DOMAIN settings.groups, JoinGroup(i, u)
        PROVE  /\ GroupsType(t) /\ t.form = s.form
               /\ \A x : OneHook(s.groups, x) => OneHook(t.groups, x)
               /\ NoHook(s.groups) => NoHook(t.groups)
    <3>1. PICK y, h : y = s.groups[i] \cup {u} /\ h = [s.groups EXCEPT ![i] = y]  OBVIOUS
    <3>2. i \in DOMAIN s.groups /\ GroupsType(s)  BY <1>3, <2>1
    <3>3. t = [s EXCEPT !.groups = h]  BY <2>1, <2>3, <3>1 DEF JoinGroup
    <3>4. t = [form |-> s.form, groups |-> h]  BY <3>2, <3>3 DEF GroupsType
    <3> QED  BY SMTT(30), <3>1, <3>2, <3>4, JoinGroupKeeps
  <2> QED  BY <2>1, <2>2, <2>3
<1>5. RcInv'  BY <1>1, <1>2, RcKept DEF IInv
<1>6. \A op \in Ops : ClaudeDone(op, settings, exe) => ClaudeDone(op, settings', exe')
  BY <1>2, <1>4 DEF ClaudeDone
<1>7. CommandInv' /\ ReportInv'
  <2>1. \A op : ShellDone(op, rc, tears) => ShellDone(op, rc', tears')  BY <1>1, <1>2
  <2> QED  BY <1>1, <1>6, <2>1, EditStep
<1> QED  BY <1>2, <1>4, <1>5, <1>7 DEF IInv

LEMMA Inductive ==
    ASSUME IInv, [Next]_vars
    PROVE  IInv'
<1>1. CASE UNCHANGED vars
  BY <1>1 DEF vars, IInv, RcInv, CommandInv, ReportInv, Delivered
<1>2. CASE \E op \in Ops, dry, kernel \in BOOLEAN : Begin(op, dry, kernel)  BY <1>2, BeginStep
<1>3. CASE \E t \in Texts, side \in Sides : AddLine(t, side)  BY <1>3, AddLineStep
<1>4. CASE Next
  BY <1>2, <1>3, <1>4, ShellStep, ShellTornStep, ClaudeStep, ClaudeTornStep, OpenCodeStep,
     OpenCodeTornStep, FailsStep, ResolveStep, ResolveFailsStep, FinishStep, KillStep, GroupStep
     DEF Next, Ops
<1> QED  BY <1>1, <1>4

LEMMA Invariance == Spec => []IInv
<1>1. Init => IInv  BY InitStep
<1>2. IInv /\ [Next]_vars => IInv'  BY Inductive
<1> QED  BY <1>1, <1>2, PTL DEF Spec

-----------------------------------------------------------------------------
(* What the invariant says of the properties.                               *)

\* A file with a whole block, and nothing cut short in it, has no second start mark.
LEMMA OneStart ==
    ASSUME NEW s, Sound(s), Whole(s), NEW b \in 1 .. Len(s), NEW c \in 1 .. Len(s),
           s[b] = StartMark, s[c] = StartMark
    PROVE  b = c
<1>1. PICK n \in Nat : n = Len(s)  BY DEF Sound, Files
<1>2. ASSUME NEW i \in 1 .. n, NEW j \in 1 .. n, s[i] = StartMark, s[j] = StartMark, i < j
      PROVE  FALSE
  <2>1. i + 3 <= n /\ s[i + 1] = "functions" /\ s[i + 2] = EndMark
    BY <1>1, <1>2 DEF Whole
  <2>2. j # i + 1 /\ j # i + 2  BY <1>2, <2>1, Marks
  <2>3. i + 2 \in 1 .. n /\ j \in (i + 2) + 1 .. n  BY <1>2, <2>1, <2>2
  <2>4. s[j] \in Texts \/ s[j] = Nl \/ s[j] = Eol
    <3>1. PICK e : e = i + 2  OBVIOUS
    <3>2. \A k \in e + 1 .. Len(s) :
             s[k] \in Texts \/ (k > e + 1 /\ s[k] = Nl) \/ (k = e + 1 /\ s[k] = Eol)
      BY <1>1, <2>1, <2>3, <3>1 DEF Sound
    <3> QED  BY <1>1, <2>3, <3>1, <3>2
  <2> QED  BY <1>2, <2>4, Marks
<1> QED  BY <1>1, <1>2

LEMMA BlockThere ==
    ASSUME NEW s \in Files, HasBlock(s)
    PROVE  \E i \in 1 .. Len(s) - 3 : s[i] = StartMark /\ SubSeq(s, i, i + 3) = Block
<1>1. PICK i \in 1 .. Len(s) : /\ i + 3 <= Len(s) /\ s[i] = StartMark /\ s[i + 1] = "functions"
                               /\ s[i + 2] = EndMark /\ s[i + 3] = Eol
  BY DEF HasBlock
<1>2. PICK n \in Nat : n = Len(s)  BY DEF Files
<1>3. i \in 1 .. n - 3 /\ i \in Nat \ {0} /\ i + 3 \in Nat /\ i <= (i + 3) + 1 /\ i + 3 <= n
      /\ (i + 3) + 1 - i = 4
  BY <1>1, <1>2
<1>4. PICK p : p = PartOf(s, i, i + 3)  OBVIOUS
<1>5. p \in Files /\ Len(p) = 4 /\ \A k \in 1 .. 4 : p[k] = s[k + i - 1]
  <2>1. p \in Files /\ Len(p) = (i + 3) + 1 - i
        /\ \A k \in 1 .. (i + 3) + 1 - i : p[k] = s[k + i - 1]
    BY <1>2, <1>3, <1>4, Part
  <2> QED  BY <1>3, <2>1
<1>6. p[1] = StartMark /\ p[2] = "functions" /\ p[3] = EndMark /\ p[4] = Eol
  <2>1. 1 + i - 1 = i /\ 2 + i - 1 = i + 1 /\ 3 + i - 1 = i + 2 /\ 4 + i - 1 = i + 3  BY <1>3
  <2> QED  BY <1>1, <1>5, <2>1
<1>7. p = Block
  <2>1. p = <<p[1], p[2], p[3], p[4]>>  BY <1>5 DEF Files
  <2> QED  BY <1>6, <2>1 DEF Block
<1> QED  BY <1>1, <1>2, <1>3, <1>4, <1>7 DEF PartOf

LEMMA ShellWired ==
    ASSUME IInv, HasBlock(rc)
    PROVE  Wired.shell
<1>1. Sound(rc) /\ (tears = 0 => Whole(rc))  BY DEF IInv, RcInv
<1>2. PICK s : s = rc  OBVIOUS
<1>3. s \in Files /\ DOMAIN s = 1 .. Len(s) /\ Len(s) \in Nat  BY <1>1, <1>2 DEF Sound, Files
<1>4. PICK i \in 1 .. Len(s) - 3 : s[i] = StartMark /\ SubSeq(s, i, i + 3) = Block
  BY <1>2, <1>3, BlockThere
<1>5. ASSUME tears = 0  PROVE Cardinality(Places(s, StartMark)) = 1
  <2>1. i \in Places(s, StartMark)  BY <1>3, <1>4 DEF Places
  <2>2. ASSUME NEW j \in Places(s, StartMark)  PROVE j = i
    <3>1. j \in 1 .. Len(s) /\ s[j] = StartMark /\ i \in 1 .. Len(s)  BY <1>3, <1>4, <2>2 DEF Places
    <3> QED  BY <1>1, <1>2, <1>4, <1>5, <3>1, OneStart
  <2>3. Places(s, StartMark) = {i}  BY <2>1, <2>2
  <2> QED  BY <2>3, FS_Singleton
<1> QED  BY <1>2, <1>4, <1>5 DEF Wired

LEMMA ClaudeWired ==
    ASSUME IInv, OneHook(settings.groups, exe)
    PROVE  Wired.claude
<1>1. PICK g : g = settings.groups  OBVIOUS
<1>2. g \in Seq(SUBSET (Exes \cup Users)) /\ exe \in Exes  BY <1>1 DEF IInv, GroupsType
<1>3. PICK i \in 1 .. Len(g) : /\ g[i] \cap Exes = {exe}
                               /\ \A j \in 1 .. Len(g) : j # i => g[j] \cap Exes = {}
  BY <1>1 DEF OneHook
<1>4. DOMAIN g = 1 .. Len(g)  BY <1>2
<1>5. SnitchitGroups = {i}  BY <1>1, <1>3, <1>4 DEF SnitchitGroups
<1>6. Cardinality(SnitchitGroups) = 1  BY <1>5, FS_Singleton
<1>7. \A j \in SnitchitGroups : settings.groups[j] \cap Exes = {exe}  BY <1>1, <1>3, <1>5
<1> QED  BY <1>6, <1>7 DEF Wired

LEMMA InstallReported ==
    ASSUME IInv
    PROVE  InstallDelivers
<1>1. ASSUME NEW d, Reported("install", d)
      PROVE  Delivered("install", report.results) /\ Ok(report.results, d)
  BY <1>1 DEF Reported, Ok, IInv, ReportInv
<1>2. Reported("install", "shell") => Wired.shell
  BY <1>1, ShellWired DEF Delivered, ShellDone
<1>3. Reported("install", "claude") => Wired.claude \/ settings.form = "odd"
  BY <1>1, ClaudeWired DEF Delivered, ClaudeDone
<1>4. Reported("install", "opencode") => Wired.opencode
  BY <1>1 DEF Delivered, PluginDone, Wired
<1>5. ASSUME report # None, ~report.failed
      PROVE  \E d \in Dests : Reported(report.op, d) \/ report.dry
  <2>1. PICK r \in report.results : r.ok  BY <1>5 DEF IInv, ReportInv
  <2>2. r \in [dest : Dests, ok : BOOLEAN]  BY <1>5, <2>1 DEF IInv, ReportInv
  <2>3. r = [dest |-> r.dest, ok |-> TRUE] /\ r.dest \in Dests  BY <2>1, <2>2
  <2> QED  BY <1>5, <2>1, <2>3 DEF Reported
<1> QED  BY <1>2, <1>3, <1>4, <1>5 DEF InstallDelivers

\* A file without an end mark has a start mark only where it was cut short, and none
\* of the tokens that install writes if it has no start mark either.
LEMMA NothingLeft ==
    ASSUME NEW s, Sound(s), Without(s, {EndMark})
    PROVE  /\ WellFormed(s) => Places(s, StartMark) = {} /\ Places(s, "functions") = {}
           /\ Without(s, {StartMark, Sep}) => UserText(s) = s
<1>1. s \in Files /\ DOMAIN s = 1 .. Len(s) /\ Len(s) \in Nat  BY DEF Sound, Files
<1>2. Places(s, EndMark) = {}  BY <1>1 DEF Without, Places
<1>3. \A i \in 1 .. Len(s) : s[i] = "functions" => i > 1 /\ s[i - 1] = StartMark  BY DEF Sound
<1>4. \A i \in 1 .. Len(s) : i > 1 => i - 1 \in 1 .. Len(s)  BY <1>1
<1>5. ASSUME WellFormed(s)  PROVE Places(s, StartMark) = {} /\ Places(s, "functions") = {}
  <2>1. Places(s, StartMark) = {}  BY <1>2, <1>5 DEF WellFormed
  <2>2. \A i \in 1 .. Len(s) : s[i] # StartMark  BY <1>1, <2>1 DEF Places
  <2>3. \A i \in 1 .. Len(s) : s[i] # "functions"  BY <1>3, <1>4, <2>2
  <2> QED  BY <1>1, <2>1, <2>3 DEF Places
<1>6. ASSUME Without(s, {StartMark, Sep})  PROVE UserText(s) = s
  <2>1. \A i \in 1 .. Len(s) : s[i] # StartMark /\ s[i] # Sep /\ s[i] # EndMark
    BY <1>6 DEF Without
  <2>2. \A i \in 1 .. Len(s) : s[i] # "functions"  BY <1>3, <1>4, <2>1
  <2>3. \A i \in 1 .. Len(s) : s[i] # Eol
    <3>1. \A i \in 1 .. Len(s) : s[i] = Eol => i > 1 /\ s[i - 1] = EndMark  BY DEF Sound
    <3> QED  BY <1>4, <2>1, <3>1
  <2>4. s \in Seq(Tokens)  BY <1>1, Marks
  <2>5. \A i \in 1 .. Len(s) : s[i] \in Tokens  BY <2>4
  <2>6. \A i \in 1 .. Len(s) : s[i] \in Texts \cup {Nl}  BY <2>1, <2>2, <2>3, <2>5 DEF Tokens
  <2> QED  BY <2>4, <2>6, OnlyAll DEF UserText
<1> QED  BY <1>5, <1>6

LEMMA UninstallReported ==
    ASSUME IInv
    PROVE  UninstallDelivers
<1>1. ASSUME NEW d, Reported("uninstall", d)
      PROVE  Delivered("uninstall", report.results) /\ Ok(report.results, d)
  BY <1>1 DEF Reported, Ok, IInv, ReportInv
<1>2. ASSUME Reported("uninstall", "shell")
      PROVE  /\ WellFormed(rc) => Places(rc, StartMark) = {} /\ Places(rc, "functions") = {}
             /\ tears = 0 => UserText(rc) = rc
  <2>1. Without(rc, {EndMark}) /\ (tears = 0 => Without(rc, {StartMark, Sep}))
    BY <1>1, <1>2 DEF Delivered, ShellDone
  <2>2. Sound(rc)  BY DEF IInv, RcInv
  <2> QED  BY <2>1, <2>2, NothingLeft
<1>3. ASSUME Reported("uninstall", "claude")  PROVE SnitchitGroups = {}
  <2>1. PICK g : g = settings.groups  OBVIOUS
  <2>2. NoHook(g)  BY <1>1, <1>3, <2>1 DEF Delivered, ClaudeDone
  <2>3. DOMAIN g = 1 .. Len(g)  BY <2>1 DEF IInv, GroupsType
  <2> QED  BY <2>1, <2>2, <2>3 DEF NoHook, SnitchitGroups
<1>4. Reported("uninstall", "opencode") => ~Ours
  BY <1>1 DEF Delivered, PluginDone, Ours
<1> QED  BY <1>2, <1>3, <1>4 DEF UninstallDelivers

LEMMA Types ==
    ASSUME IInv
    PROVE  TypeOK
<1>1. rc \in Files  BY DEF IInv, RcInv, Sound
<1>2. settings.form \in Forms /\ (settings.form # "table" => settings.groups = <<>>)
  BY DEF IInv, GroupsType
<1>3. \A i \in DOMAIN settings.groups : settings.groups[i] \subseteq Exes \cup Users
  <2>1. PICK g, X : g = settings.groups /\ X = SUBSET (Exes \cup Users)  OBVIOUS
  <2>2. g \in Seq(X)  BY <2>1 DEF IInv, GroupsType
  <2>3. \A i \in DOMAIN g : g[i] \in X  BY <2>2
  <2> QED  BY <2>1, <2>3
<1>4. plugin \in Exes \cup {"absent", "unrecognized", "cut"}  BY DEF IInv
<1>5. ASSUME command # None
      PROVE  /\ Len(command.results) + Len(command.todo) <= 5
             /\ \A i, j \in DOMAIN command.results : command.results[i].dest \in Dests
                   /\ (command.results[i].dest = command.results[j].dest => i = j)
  <2>1. PICK s, t, X : s = command.results /\ t = command.todo /\ X = [dest : Dests, ok : BOOLEAN]
    OBVIOUS
  <2>2. s \in Seq(X) /\ Schedule(s, t)  BY <1>5, <2>1 DEF IInv, CommandInv, CommandType
  <2>3. DOMAIN s = 1 .. Len(s) /\ \A i \in DOMAIN s : s[i] \in X  BY <2>2
  <2>4. \A i \in DOMAIN s : s[i].dest \in Dests  BY <2>1, <2>3
  <2> QED  BY <2>1, <2>2, <2>3, <2>4 DEF Schedule
<1> QED  BY <1>1, <1>2, <1>3, <1>4, <1>5 DEF TypeOK

\* The edits are counted, so that a step that is none of them leaves their number.
EditsType == edits \in Nat

LEMMA Counted == Spec => []EditsType
<1>1. Init => EditsType  BY DEF Init, EditsType
<1>2. EditsType /\ [Next]_vars => EditsType'
  <2> SUFFICES ASSUME edits \in Nat, [Next]_vars  PROVE edits' \in Nat  BY DEF EditsType
  <2>1. edits' \in {edits, edits + 1}
    BY DEF Next, vars, Begin, Shell, ShellTorn, Claude, ClaudeTorn, OpenCode, OpenCodeTorn,
       Kernel, Fails, Resolve, ResolveFails, Finish, Kill, AddLine, AddGroup, JoinGroup, Move,
       Edit, Proceed, Tear
  <2> QED  BY <2>1
<1> QED  BY <1>1, <1>2, PTL DEF Spec

LEMMA TextStep ==
    ASSUME IInv, edits \in Nat, Sides \subseteq {"end"}, Next, edits' = edits, tears' = tears,
           WellFormed(rc)
    PROVE  UserText(rc') = UserText(rc)
<1>1. Sound(rc) /\ Apart(rc) /\ tears \in Nat  BY DEF IInv, RcInv
<1>2. tears' # tears + 1 /\ edits' # edits + 1  BY <1>1
<1>3. UserText(NextRc) = UserText(rc)
  <2>1. NextRc = rc \/ NextRc = WithBlock(rc) \/ NextRc = RemoveBlock(rc)  BY <1>1, NextFile
  <2> QED  BY <1>1, <2>1, WithKeepsText, RemoveKeepsText
<1>4. CASE Shell
  <2>1. rc' = rc \/ rc' = NextRc  BY <1>4 DEF Shell
  <2> QED  BY <1>3, <2>1
<1>5. CASE ~Shell
  <2>1. rc' = rc
    BY <1>2, <1>5 DEF Next, files, Begin, ShellTorn, Claude, ClaudeTorn, OpenCode, OpenCodeTorn,
       Kernel, Fails, Resolve, ResolveFails, Finish, Kill, AddLine, AddGroup, JoinGroup, Move,
       Edit, Tear
  <2> QED  BY <2>1
<1> QED  BY <1>4, <1>5

LEMMA HooksStep ==
    ASSUME IInv, edits \in Nat, Next, edits' = edits, tears' = tears
    PROVE  /\ OnlyUsers(settings'.groups) = OnlyUsers(settings.groups)
           /\ command # None /\ command.op = "uninstall" /\ ~Ours => plugin' = plugin
<1>1. GroupsType(settings) /\ exe \in Exes /\ tears \in Nat  BY DEF IInv
<1>2. tears' # tears + 1 /\ edits' # edits + 1  BY <1>1
<1>3. CASE Claude
  <2>1. settings' = settings \/ settings' = NextSettings  BY <1>3 DEF Claude
  <2>2. OnlyUsers(NextSettings.groups) = OnlyUsers(settings.groups)  BY <1>1, NextGroups
  <2> QED  BY <1>3, <2>1, <2>2 DEF Claude
<1>4. CASE OpenCode  BY <1>4 DEF OpenCode
<1>5. CASE ~Claude /\ ~OpenCode
  <2>1. settings' = settings /\ plugin' = plugin
    BY <1>2, <1>5 DEF Next, files, Begin, Shell, ShellTorn, ClaudeTorn, OpenCodeTorn,
       Kernel, Fails, Resolve, ResolveFails, Finish, Kill, AddLine, AddGroup, JoinGroup, Move,
       Edit, Tear
  <2> QED  BY <2>1
<1> QED  BY <1>3, <1>4, <1>5

-----------------------------------------------------------------------------
(* The properties.                                                          *)

\* The files and the command always have their types, and no command reports on a
\* destination twice.
THEOREM TypeSafety == Spec => []TypeOK
BY Invariance, Types, PTL

\* A destination that install has reported as wired is wired, once and for the present
\* path of snitchit, whatever was torn, killed, moved, edited or installed before.
THEOREM InstallSafety == Spec => []InstallDelivers
BY Invariance, InstallReported, PTL

\* A destination that uninstall has reported as done has nothing left of snitchit's, but
\* for what a write that was cut short has left there.
THEOREM UninstallSafety == Spec => []UninstallDelivers
BY Invariance, UninstallReported, PTL

\* No step of install or of uninstall changes the user's text, if the user adds lines
\* only at the end of the file.  A newline that is put right before the block is taken
\* for the one that install has put there, and is lost with it.
THEOREM TextSafety == Sides \subseteq {"end"} => (Spec => LeavesUserText)
<1> SUFFICES ASSUME Sides \subseteq {"end"}  PROVE Spec => LeavesUserText  OBVIOUS
<1>1. IInv /\ EditsType /\ [Next]_vars =>
         [edits' = edits /\ tears' = tears /\ WellFormed(rc) => UserText(rc') = UserText(rc)]_vars
  BY TextStep DEF EditsType
<1> QED  BY <1>1, Invariance, Counted, PTL DEF Spec, LeavesUserText

\* Nor does one change the groups that hold only commands of the user's of which none
\* both contains "snitchit" and ends in "hook", whatever other commands the user has
\* beside them; and uninstall touches no plugin file that it does not recognize.
THEOREM HooksSafety == Spec => LeavesUserHooks
<1>1. IInv /\ EditsType /\ [Next]_vars =>
         [edits' = edits /\ tears' = tears =>
            /\ OnlyUsers(settings'.groups) = OnlyUsers(settings.groups)
            /\ command # None /\ command.op = "uninstall" /\ ~Ours => plugin' = plugin]_vars
  BY HooksStep DEF EditsType
<1> QED  BY <1>1, Invariance, Counted, PTL DEF Spec, LeavesUserHooks

=============================================================================
