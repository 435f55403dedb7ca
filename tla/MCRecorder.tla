------------------------------ MODULE MCRecorder ------------------------------
(* The instances of Recorder that TLC checks.                                *)
EXTENDS Recorder

\* All that may fail while the promise to run the agent as if directly holds.
HarmlessFaults == {"kernel", "pty", "append"}
AllFaults == FaultKinds
HandlesFault == {"handles"}

OneCode == {0}
TwoCodes == {0, 7}
CodesAndSignal == {0, Signal}
=============================================================================
