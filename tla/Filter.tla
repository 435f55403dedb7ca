------------------------------- MODULE Filter -------------------------------
(***************************************************************************)
(* What Iterator::filter and Vec::retain keep of a sequence.  The elements *)
(* to keep are a set, since the prover cannot reason about the operator    *)
(* that SelectSeq takes.                                                   *)
(***************************************************************************)
EXTENDS Integers, SequencesExt

\* The elements of s that are in S, in their order.
Only(s, S) ==
    LET kept[k \in 0 .. Len(s)] ==
            IF k = 0 THEN <<>>
            ELSE IF s[k] \in S THEN Append(kept[k - 1], s[k]) ELSE kept[k - 1]
    IN  kept[Len(s)]

=============================================================================
