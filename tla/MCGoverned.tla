----------------------------- MODULE MCGoverned -----------------------------
(* Instances of the governed executions for TLC.                            *)
EXTENDS GovernedExecution, TLC

SlotSymmetry == Permutations(Slots)
=============================================================================
