---------------------------- MODULE MCRepairCopy ----------------------------
(* Instances of RepairCopy for TLC; the configurations give the bounds.    *)
EXTENDS RepairCopy, TLC

Interchangeable == Permutations(Procs)
=============================================================================
