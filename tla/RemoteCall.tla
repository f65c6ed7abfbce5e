---------------------------- MODULE RemoteCall ----------------------------
(***************************************************************************)
(* What a call of a tool on somebody else's machine promises its caller,   *)
(* with no connection in sight.  A tool runs at most once for a call, an   *)
(* answer is the answer of a tool that ran, and a call that was refused    *)
(* never runs.  A call that is given up promises nothing: its tool may     *)
(* have run, run now, or run later.                                        *)
(***************************************************************************)
CONSTANT Calls

VARIABLES
  caller,  \* what the caller knows of each call
  ran      \* what its tool has done

vars == <<caller, ran>>

TypeOK ==
  /\ caller \in [Calls -> {"idle", "waiting", "answered", "refused", "gaveUp"}]
  /\ ran \in [Calls -> {"never", "running", "done"}]

Init ==
  /\ caller = [c \in Calls |-> "idle"]
  /\ ran = [c \in Calls |-> "never"]

Call(c) ==
  /\ caller[c] = "idle"
  /\ caller' = [caller EXCEPT ![c] = "waiting"]
  /\ UNCHANGED ran

Refuse(c) ==
  /\ caller[c] \in {"idle", "waiting"} /\ ran[c] = "never"
  /\ caller' = [caller EXCEPT ![c] = "refused"]
  /\ UNCHANGED ran

Run(c) ==
  /\ caller[c] \in {"waiting", "gaveUp"} /\ ran[c] = "never"
  /\ ran' = [ran EXCEPT ![c] = "running"]
  /\ UNCHANGED caller

Finish(c) ==
  /\ ran[c] = "running"
  /\ ran' = [ran EXCEPT ![c] = "done"]
  /\ UNCHANGED caller

Return(c) ==
  /\ caller[c] = "waiting" /\ ran[c] = "done"
  /\ caller' = [caller EXCEPT ![c] = "answered"]
  /\ UNCHANGED ran

(* Several calls may be given up at once: their server is gone.            *)
GiveUp ==
  /\ \E given \in SUBSET {c \in Calls : caller[c] = "waiting"} :
       caller' = [c \in Calls |-> IF c \in given THEN "gaveUp" ELSE caller[c]]
  /\ UNCHANGED ran

Next ==
  \/ GiveUp
  \/ \E c \in Calls : Call(c) \/ Refuse(c) \/ Run(c) \/ Finish(c) \/ Return(c)

Spec == Init /\ [][Next]_vars
=============================================================================
