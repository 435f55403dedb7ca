------------------------------ MODULE MCInstall ------------------------------
(* The instances of Install that TLC checks.                                 *)
EXTENDS Install, TLC

AtTheEnd == {"end"}
AtBothEnds == {"top", "end"}

Symmetry == Permutations(Exes)

=============================================================================
