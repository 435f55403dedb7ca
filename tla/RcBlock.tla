------------------------------- MODULE RcBlock -------------------------------
(***************************************************************************)
(* The block of shell functions that install keeps in the user's rc file   *)
(* (with_block and remove_block of install/mod.rs).  A file is a sequence  *)
(* of tokens: the user's texts and newlines, and what install writes.  Who *)
(* wrote a newline shows in the token; remove_block cannot tell.           *)
(***************************************************************************)
EXTENDS Integers, Filter

CONSTANTS
    Texts           \* the user's texts, without newlines

\* The newline of a line of the user's, and the two that install writes.
Nl  == "nl"
Sep == "sep"
Eol == "eol"

StartMark == "START"
EndMark   == "END"

ASSUME TextsAssumption == Texts \cap {Nl, Sep, Eol, StartMark, "functions", EndMark} = {}

Files == Seq(Texts \cup {Nl, Sep, Eol, StartMark, "functions", EndMark})

IsNewline(t) == t \in {Nl, Sep, Eol}

\* The bytes do not show whose a newline is.
SameBytes(s, t) ==
    /\ Len(s) = Len(t)
    /\ \A i \in DOMAIN s : s[i] = t[i] \/ (IsNewline(s[i]) /\ IsNewline(t[i]))

\* build_block: the marks, what is between them, and the last newline.
Block == <<StartMark, "functions", EndMark, Eol>>

\* The first place of t in s from place i on; 0 if there is none.
Find(s, t, i) ==
    LET at == {j \in i .. Len(s) : s[j] = t}
    IN  IF at = {} THEN 0 ELSE CHOOSE j \in at : \A k \in at : j <= k

\* Mutant: to the last end mark there is.
RemoveToLast(s) ==
    LET b == Find(s, StartMark, 1)
        first == IF b > 1 /\ IsNewline(s[b - 1]) THEN b - 1 ELSE b
    IN  IF b = 0 \/ Find(s, EndMark, b) = 0 THEN s ELSE SubSeq(s, 1, first - 1)

\* Mutant: the newline before the block is left.
RemoveKeepingNewline(s) ==
    LET b == Find(s, StartMark, 1)
        e == Find(s, EndMark, b)
        last == IF e < Len(s) /\ IsNewline(s[e + 1]) THEN e + 1 ELSE e
    IN  IF b = 0 \/ e = 0 THEN s ELSE SubSeq(s, 1, b - 1) \o SubSeq(s, last + 1, Len(s))

\* The block goes, with the newline after it and the newline before it.
RemoveBlock(s) ==
    LET b == Find(s, StartMark, 1)
        e == Find(s, EndMark, b)
        first == IF b > 1 /\ IsNewline(s[b - 1]) THEN b - 1 ELSE b
        last == IF e < Len(s) /\ IsNewline(s[e + 1]) THEN e + 1 ELSE e
    IN  IF b = 0 \/ e = 0 THEN s ELSE SubSeq(s, 1, first - 1) \o SubSeq(s, last + 1, Len(s))

\* Mutant: a block that is there already stays.
WithOneMore(s) == IF s = <<>> THEN Block ELSE s \o <<Sep>> \o Block

\* The block at the end, after a newline of its own unless the file is empty.
WithBlock(s) ==
    LET base == RemoveBlock(s)
    IN  IF base = <<>> THEN Block ELSE base \o <<Sep>> \o Block

UserText(s) == Only(s, Texts \cup {Nl})

Places(s, t) == {i \in DOMAIN s : s[i] = t}

\* Every start mark is followed by an end mark, before the next start mark.
WellFormed(s) ==
    \A i \in Places(s, StartMark) : \E j \in Places(s, EndMark) :
        i < j /\ \A k \in Places(s, StartMark) : ~(i < k /\ k < j)

=============================================================================
