-------------------------- MODULE MCCaseLifecycle --------------------------
(* Instances of CaseLifecycle for TLC; the configurations give the bounds. *)
EXTENDS CaseLifecycle, TLC

Interchangeable == Permutations(Procs)
=============================================================================
