--------------------------- MODULE AgentOperation ---------------------------
(***************************************************************************)
(* The life cycle of an agent operation as its clients see it: a status, a *)
(* number of executed steps, and what the completion hooks have reported.  *)
(* No queue, no lock and no retry appear here; StepExecution implements it *)
(* with all of them.                                                       *)
(***************************************************************************)
EXTENDS Naturals

VARIABLES
  status,     \* AgentState.status
  stepCount,  \* AgentState.stepCount
  told        \* reason of the latest onComplete dispatch, or "none"

opVars == <<status, stepCount, told>>

Running == {"idle", "running"}
Ended == {"done", "error", "interrupted", "waiting_for_human"}

Init ==
  /\ status = "idle"
  /\ stepCount = 0
  /\ told = "none"

(* One executed step.  It leaves the operation running, ends or pauses it. *)
Advance ==
  /\ told = "none"
  /\ status \in Running
  /\ status' \in Ended \cup {status}
  /\ stepCount' = stepCount + 1
  /\ UNCHANGED told

(* The agent has nothing more to do: a finish is not a step of its own. *)
Finish ==
  /\ told = "none"
  /\ status \in Running
  /\ status' = "done"
  /\ UNCHANGED <<stepCount, told>>

(* The hooks report the status; an operation that stops without a next
   context reports done although its status is still a running one. *)
Report ==
  /\ told' = IF status \in Ended THEN status ELSE "done"
  /\ UNCHANGED <<status, stepCount>>

Next == Advance \/ Finish \/ Report

Spec == Init /\ [][Next]_opVars
=============================================================================
