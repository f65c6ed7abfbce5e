-------------------------- MODULE MCStepExecution --------------------------
(* StepExecution for TLC: the workers are interchangeable. *)
EXTENDS StepExecution, TLC

WorkerSymmetry == Permutations(Workers)
=============================================================================
