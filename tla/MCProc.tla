------------------------------- MODULE MCProc -------------------------------
(* Instances of Proc for TLC. *)
EXTENDS Proc, TLC

\* No variable but the CPUs themselves tells one hart from another.
CPUSymmetry == Permutations(CPU)
=============================================================================
