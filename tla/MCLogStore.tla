------------------------------ MODULE MCLogStore ------------------------------
(* The instance of LogStore that TLC checks: the recorder, with two events   *)
(* to drain, and two hooks with one each.                                    *)
EXTENDS LogStore, TLC

CONSTANTS Recorder, Hook1, Hook2

MCBatch == [w \in Writers |-> IF w = Recorder THEN 2 ELSE 1]

\* Hooks are alike.
HookSymmetry == Permutations({Hook1, Hook2})

AnyStep == Steps \ {"crashed"}
OutsideWindow == AnyStep \ Window
FallibleStep == AnyStep \ {"synced", "failed"}
FallibleOutsideWindow == FallibleStep \ Window
NoStep == {}

=============================================================================
