------------------------------ MODULE Terminal ------------------------------
(***************************************************************************)
(* What the PTY collector makes of the bytes that pass through it          *)
(* (collectors/src/sources/pty/mod.rs): input lines, and a text without    *)
(* escape sequences and control characters.                                *)
(*                                                                         *)
(* A byte or a character is its name; C3 and A9 are the bytes of eacute.   *)
(* k1 and k2 each stand for one half of the characters of a secret, which  *)
(* are letters and digits: together, side by side, they are a key that a   *)
(* pattern matches, and neither of them is when any byte is missing.       *)
(***************************************************************************)
EXTENDS Naturals, FiniteSets, SequencesExt

Halves == {"k1", "k2", "rest"}

\* What remains of one of these when a byte at an end of it is taken away.
Rest(b) == IF b \in Halves THEN <<"rest">> ELSE <<>>

Final == {"a", "I", "m", "[", "]"} \cup Halves      \* of those in '@' ..= '~'
Blank == {"SP", "NL", "TAB"}
Printable == Final \cup Blank \cup {"eacute", "lost"}

\* String::from_utf8_lossy: what is not a character becomes U+FFFD.
Utf8Lossy(bytes) ==
    LET decode(out, b) ==
            IF b # "A9" THEN Append(out, b)
            ELSE IF out # <<>> /\ Last(out) = "C3" THEN Append(Front(out), "eacute")
            ELSE Append(out, "lost")
        chars == FoldLeft(decode, <<>>, bytes)
    IN  [i \in DOMAIN chars |-> IF chars[i] = "C3" THEN "lost" ELSE chars[i]]

\* str::from_utf8 succeeds.
ValidUtf8(bytes) == "lost" \notin Range(Utf8Lossy(bytes))

\* One character: st.mode is where in an escape sequence it comes.
Scan(st, c) ==
    CASE st.mode = "text" /\ c = "ESC" -> [st EXCEPT !.mode = "esc"]
      [] st.mode = "text" /\ c \in Printable -> [st EXCEPT !.out = Append(@, c)]
      [] st.mode = "esc" /\ c = "[" -> [st EXCEPT !.mode = "csi"]
      [] st.mode = "esc" /\ c = "]" -> [st EXCEPT !.mode = "osc"]
      [] \/ st.mode = "esc" /\ c \notin {"[", "]"}
         \/ st.mode = "csi" /\ c \in Final -> [mode |-> "text", out |-> st.out \o Rest(c)]
      [] st.mode = "osc" /\ c = "BEL" -> [st EXCEPT !.mode = "text"]
      [] OTHER -> st

\* sanitize.
Sanitize(bytes) ==
    FoldLeft(Scan, [mode |-> "text", out |-> <<>>], Utf8Lossy(bytes)).out

\* str::trim.
Trim(chars) ==
    LET solid == {i \in DOMAIN chars : chars[i] \notin Blank}
    IN  IF solid = {} THEN <<>> ELSE SubSeq(chars, Min(solid), Max(solid))

\* Backspace takes one byte from the end of the line.
Pop(line) == IF line = <<>> THEN <<>> ELSE Front(line) \o Rest(Last(line))

\* Mutant: a line that was emitted is not cleared.
PumpKeepsLine(st, b) ==
    CASE b \in {"CR", "NL"} -> [st EXCEPT !.done = Append(@, st.open)]
      [] b = "BS" -> [st EXCEPT !.open = Pop(@)]
      [] OTHER -> [st EXCEPT !.open = Append(@, b)]

\* pump_stdin: one byte; st.done is the lines that are to be emitted.
PumpByte(st, b) ==
    CASE b \in {"CR", "NL"} -> [open |-> <<>>, done |-> Append(st.done, st.open)]
      [] b = "BS" -> [st EXCEPT !.open = Pop(@)]
      [] OTHER -> [st EXCEPT !.open = Append(@, b)]

\* The words of a text: two halves side by side are a key.
Words(chars) ==
    LET join(out, c) ==
            IF c = "k2" /\ out # <<>> /\ Last(out) = "k1"
            THEN Append(Front(out), "key") ELSE Append(out, c)
    IN  FoldLeft(join, <<>>, chars)

\* emit_line: a line as it is recorded, or empty and then it is not.
CleanLine(bytes) == Trim(Sanitize(bytes))

=============================================================================
