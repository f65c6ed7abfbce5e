---------------------------- MODULE MCTaskRun ----------------------------
(* The instance of TaskRun for TLC: interchangeable requests run, continue *)
(* and cancel the same topics.                                             *)
EXTENDS TaskRun, TLC

Symmetry == Permutations(Requests)
=============================================================================
