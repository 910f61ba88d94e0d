------------------------- MODULE MCWorkloadIdentity -------------------------
(* WorkloadIdentity for TLC: workloads are interchangeable when none is a VM, *)
(* and so are process slots.                                                 *)
EXTENDS WorkloadIdentity, TLC

Symmetry == Permutations(Workloads) \cup Permutations(Procs)
=============================================================================
