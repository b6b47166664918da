------------------------------ MODULE MCVirtio ------------------------------
(* Instances of VirtioDisk for TLC. *)
EXTENDS VirtioDisk, TLC

\* Processes and contents are interchangeable.
VirtioSymmetry == Permutations(Proc) \cup Permutations(Val)
=============================================================================
