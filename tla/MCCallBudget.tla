---------------------------- MODULE MCCallBudget -----------------------------
(* Instances of CallBudget for TLC. *)
EXTENDS CallBudget, TLC

CallerSymmetry == Permutations(Callers)
=============================================================================
