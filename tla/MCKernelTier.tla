----------------------------- MODULE MCKernelTier -----------------------------
(* The instances of KernelTier that TLC checks.                              *)
EXTENDS KernelTier, TLC

AllCollectors == {"ebpf", "es", "poll"}
OnlyEbpf == {"ebpf"}

Symmetry == Permutations(Pids)

=============================================================================
