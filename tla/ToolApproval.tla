---------------------------- MODULE ToolApproval ----------------------------
(***************************************************************************)
(* A batch of tool calls that waits for the user's approval.  An operation *)
(* has created one pending tool message for each and paused.  There are    *)
(* two ways to send a decision:                                            *)
(*                                                                         *)
(*  - through the gateway: it is written by the browser, then by execAgent,*)
(*    which starts an operation of its own for it with the history it      *)
(*    reads then; whether the rest of the batch is decided is seen there;  *)
(*  - in place, with processHumanIntervention: a queue message for the     *)
(*    paused operation.  The message has the decision inside its payload,  *)
(*    where the route that receives it does not look, so that a step is    *)
(*    executed without it.                                                 *)
(*                                                                         *)
(* A step is atomic here: StepExecution has locks, redeliveries and        *)
(* rejected calls.  What a model asks for once the batch is decided is     *)
(* another batch.                                                          *)
(***************************************************************************)
EXTENDS Naturals

CONSTANTS
  Tools,      \* the tool calls of the batch
  Requests,   \* decisions, numbered as they are sent; a gateway one names
              \* the operation it starts
  Paused,     \* the operation that asked for approval
  MaxFaults   \* bound: requests and steps that fail

ASSUME NumberedAssumption == Requests \subseteq Nat
ASSUME ApprovalAssumption ==
  /\ Tools # {} /\ Paused \notin Requests
  /\ MaxFaults \in Nat

VARIABLES
  plugin,     \* message_plugins.intervention.status of each tool message
  content,    \* messages.content of each tool message
  pc,         \* where each request is
  tool, decision, index, \* what it decides, and the step it names
  status,     \* of each operation
  phase,      \* of a request's operation: what its next step starts from
  undecided,  \* the tools that are open in its state
  known,      \* the contents it has of their messages
  stepCount,  \* of the paused operation
  runs,       \* history: how often each tool has run
  answer,     \* history: the model was asked with every tool decided
  overlap,    \* history: a decision was posted while another was under way
  lost,       \* history: a request or step has failed since the last decision
  faults

database == <<plugin, content>>
decided == <<tool, decision, index>>
view == <<undecided, known>>
vars == <<database, pc, decided, status, phase, view, stepCount, runs, answer,
          overlap, lost, faults>>

Operations == Requests \cup {Paused}
Decisions == {"approve", "reject"}
Contents == {"empty", "rejection", "result"}

StatusOf(d) == IF d = "approve" THEN "approved" ELSE "rejected"

Posting == {"markContent", "persistContent", "persistPlugin", "history", "create"}

TypeOK ==
  /\ plugin \in [Tools -> {"pending", "approved", "rejected"}]
  /\ content \in [Tools -> Contents]
  /\ pc \in [Requests -> {"idle", "queued", "done"} \cup Posting]
  /\ tool \in [Requests -> Tools] /\ decision \in [Requests -> Decisions]
  /\ index \in [Requests -> Nat]
  /\ status \in [Operations ->
                 {"absent", "running", "waiting_for_human", "done", "error"}]
  /\ phase \in [Requests -> {"none", "human_approved_tool", "tool_result",
                             "user_input", "llm_result"}]
  /\ undecided \in [Requests -> SUBSET Tools]
  /\ known \in [Requests -> [Tools -> Contents]]
  /\ stepCount \in Nat
  /\ runs \in [Tools -> Nat]
  /\ answer \in {"none", "blind", "informed"}
  /\ overlap \in BOOLEAN /\ lost \in BOOLEAN
  /\ faults \in 0 .. MaxFaults

Init ==
  /\ plugin = [t \in Tools |-> "pending"] /\ content = [t \in Tools |-> "empty"]
  /\ pc = [r \in Requests |-> "idle"] /\ index = [r \in Requests |-> 0]
  /\ tool = [r \in Requests |-> CHOOSE t \in Tools : TRUE]
  /\ decision = [r \in Requests |-> "approve"]
  /\ status = [o \in Operations |->
                 IF o = Paused THEN "waiting_for_human" ELSE "absent"]
  /\ phase = [r \in Requests |-> "none"]
  /\ undecided = [r \in Requests |-> Tools]
  /\ known = [r \in Requests |-> [t \in Tools |-> "empty"]]
  /\ stepCount = 1
  /\ runs = [t \in Tools |-> 0] /\ answer = "none"
  /\ overlap = FALSE /\ lost = FALSE /\ faults = 0

Pending == {t \in Tools : plugin[t] = "pending"}

UnderWay == \E r \in Requests : pc[r] \in Posting \/ phase[r] # "none"

Fault == faults < MaxFaults /\ faults' = faults + 1

IsNext(r) == pc[r] = "idle" /\ \A s \in Requests : s < r => pc[s] # "idle"

(* The model is asked by an operation that has these tools open.           *)
Asked(o, open) ==
  answer' = CASE open # {} -> answer
              [] open = {} /\ \A t \in Tools :
                   plugin[t] = "approved" => known[o][t] = "result" -> "informed"
              [] OTHER -> IF answer = "none" THEN "blind" ELSE answer

----------------------------------------------------------------------------
(* The gateway route: a decision is posted, and becomes an operation       *)

(* The browser's own write.  Nothing asks whether the tool is decided:     *)
(* another tab may have done so.  Either way of rejecting goes on.         *)
Click(r, t, d) ==
  /\ IsNext(r)
  /\ plugin' = [plugin EXCEPT ![t] = StatusOf(d)]
  /\ tool' = [tool EXCEPT ![r] = t] /\ decision' = [decision EXCEPT ![r] = d]
  /\ pc' = [pc EXCEPT ![r] = IF d = "approve" THEN "persistPlugin" ELSE "markContent"]
  /\ overlap' = (overlap \/ UnderWay)
  /\ lost' = FALSE /\ answer' = "none"
  /\ UNCHANGED <<content, index, status, phase, view, stepCount, runs, faults>>

Goes(r, from, to) == pc[r] = from /\ pc' = [pc EXCEPT ![r] = to]

Idle == <<decided, stepCount, runs, overlap>>

(* A rejection's content: written by the browser, and again by execAgent.  *)
WriteContent(r) ==
  /\ Goes(r, "markContent", "persistContent") \/ Goes(r, "persistContent", "persistPlugin")
  /\ content' = [content EXCEPT ![tool[r]] = "rejection"]
  /\ UNCHANGED <<Idle, plugin, status, phase, view, answer, lost, faults>>

PersistPlugin(r) ==
  /\ Goes(r, "persistPlugin", "history")
  /\ plugin' = [plugin EXCEPT ![tool[r]] = StatusOf(decision[r])]
  /\ UNCHANGED <<Idle, content, status, phase, view, answer, lost, faults>>

(* Defect: the history is read before the decision is written.             *)
LoadHistoryEarlier(r) ==
  /\ Goes(r, "history", "create")
  /\ undecided' = [undecided EXCEPT ![r] = Pending \cup {tool[r]}]
  /\ known' = [known EXCEPT ![r] = content]
  /\ UNCHANGED <<Idle, database, status, phase, answer, lost, faults>>

(* Step 11 of execAgent: the history that becomes the operation's state.   *)
LoadHistory(r) ==
  /\ Goes(r, "history", "create")
  /\ undecided' = [undecided EXCEPT ![r] = Pending]
  /\ known' = [known EXCEPT ![r] = content]
  /\ UNCHANGED <<Idle, database, status, phase, answer, lost, faults>>

CreateOperation(r) ==
  /\ Goes(r, "create", "done")
  /\ status' = [status EXCEPT ![r] = "running"]
  /\ phase' = [phase EXCEPT ![r] = IF decision[r] = "approve"
                                  THEN "human_approved_tool" ELSE "user_input"]
  /\ UNCHANGED <<Idle, database, view, answer, lost, faults>>

PostFails(r) ==
  /\ pc[r] \in Posting /\ Fault
  /\ pc' = [pc EXCEPT ![r] = "done"]
  /\ lost' = TRUE
  /\ UNCHANGED <<Idle, database, status, phase, view, answer>>

----------------------------------------------------------------------------
(* The steps of the operation of a decision, by the phase that plans them  *)

Advances(r, from, to) == phase[r] = from /\ phase' = [phase EXCEPT ![r] = to]

Steps == <<pc, decided, overlap>>

(* Defect: the result is written, but not put into the state.              *)
RunToolBesideState(r) ==
  /\ Advances(r, "human_approved_tool", "tool_result")
  /\ runs' = [runs EXCEPT ![tool[r]] = @ + 1]
  /\ content' = [content EXCEPT ![tool[r]] = "result"]
  /\ UNCHANGED <<Steps, plugin, status, view, stepCount, answer, lost, faults>>

(* human_approved_tool: call_tool, over the message that exists.           *)
RunTool(r) ==
  /\ Advances(r, "human_approved_tool", "tool_result")
  /\ runs' = [runs EXCEPT ![tool[r]] = @ + 1]
  /\ content' = [content EXCEPT ![tool[r]] = "result"]
  /\ known' = [known EXCEPT ![r][tool[r]] = "result"]
  /\ UNCHANGED <<Steps, plugin, status, undecided, stepCount, answer, lost, faults>>

(* tool_result with messages that are still pending: the operation pauses. *)
RequestHumanApprove(r) ==
  /\ Advances(r, "tool_result", "none") /\ undecided[r] # {}
  /\ status' = [status EXCEPT ![r] = "waiting_for_human"]
  /\ UNCHANGED <<Steps, database, view, stepCount, runs, answer, lost, faults>>

(* Defect: the planner has no case for user_input.                         *)
CallLLMOnResult(r) ==
  /\ Advances(r, "tool_result", "llm_result") /\ undecided[r] = {}
  /\ Asked(r, undecided[r])
  /\ UNCHANGED <<Steps, database, status, view, stepCount, runs, lost, faults>>

(* tool_result otherwise, and user_input whatever the messages say.        *)
CallLLM(r) ==
  /\ \/ Advances(r, "tool_result", "llm_result") /\ undecided[r] = {}
     \/ Advances(r, "user_input", "llm_result")
  /\ Asked(r, undecided[r])
  /\ UNCHANGED <<Steps, database, status, view, stepCount, runs, lost, faults>>

Finish(r) ==
  /\ Advances(r, "llm_result", "none")
  /\ status' = [status EXCEPT ![r] = "done"]
  /\ UNCHANGED <<Steps, database, view, stepCount, runs, answer, lost, faults>>

(* Defect: a step that fails leaves its operation interrupted.             *)
StepFailsInterrupted(r) ==
  /\ phase[r] # "none" /\ Fault
  /\ phase' = [phase EXCEPT ![r] = "none"]
  /\ status' = [status EXCEPT ![r] = "interrupted"]
  /\ lost' = TRUE
  /\ UNCHANGED <<Steps, database, view, stepCount, runs, answer>>

StepFails(r) ==
  /\ phase[r] # "none" /\ Fault
  /\ phase' = [phase EXCEPT ![r] = "none"]
  /\ status' = [status EXCEPT ![r] = "error"]
  /\ lost' = TRUE
  /\ UNCHANGED <<Steps, database, view, stepCount, runs, answer>>

----------------------------------------------------------------------------
(* In place: a decision is a message for the paused operation              *)

(* processHumanIntervention.  The caller names the step, 0 unless told.    *)
(* What is decided is lost on the way, and not kept here.                  *)
Send(r, i) ==
  /\ IsNext(r) /\ Goes(r, "idle", "queued")
  /\ index' = [index EXCEPT ![r] = i]
  /\ UNCHANGED <<database, tool, decision, status, phase, view, stepCount, runs, answer,
                 overlap, lost, faults>>

(* The two early exits of executeStep.                                     *)
Skip(r) ==
  /\ stepCount > index[r] \/ status[Paused] \in {"done", "error"}
  /\ Goes(r, "queued", "done")
  /\ UNCHANGED <<Idle, database, status, phase, view, answer, lost, faults>>

(* The run route reads the decision beside the payload it was sent in, and *)
(* the local queue drops it: executeStep gets none and asks the model on   *)
(* behalf of the operation that waits, whose batch is open and stays so.   *)
(* The reply starts no step: the operation waits as before.                *)
StepWithoutDecision(r) ==
  /\ stepCount <= index[r] /\ status[Paused] = "waiting_for_human"
  /\ Goes(r, "queued", "done")
  /\ stepCount' = stepCount + 1
  /\ UNCHANGED <<database, decided, status, phase, view, runs, answer, overlap, lost,
                 faults>>

StepThrows(r) ==
  /\ stepCount <= index[r] /\ status[Paused] = "waiting_for_human"
  /\ Goes(r, "queued", "done") /\ Fault
  /\ status' = [status EXCEPT ![Paused] = "error"]
  /\ UNCHANGED <<Idle, database, phase, view, answer, lost>>

----------------------------------------------------------------------------
Post(r) ==
  WriteContent(r) \/ PersistPlugin(r) \/ LoadHistory(r) \/ CreateOperation(r)

Step(r) == RunTool(r) \/ RequestHumanApprove(r) \/ CallLLM(r) \/ Finish(r)

Deliver(r) == Skip(r) \/ StepWithoutDecision(r)

Next ==
  \E r \in Requests :
    \/ \E t \in Tools, d \in Decisions : Click(r, t, d)
    \/ \E i \in 0 .. stepCount + 1 : Send(r, i)
    \/ Post(r) \/ PostFails(r)
    \/ Step(r) \/ StepFails(r)
    \/ Deliver(r) \/ StepThrows(r)

Spec == Init /\ [][Next]_vars

(* A request that has begun goes on, and the queue delivers what it has.   *)
(* No fairness for users and failures.                                     *)
FairSpec ==
  /\ Spec
  /\ \A r \in Requests : /\ WF_vars(Post(r) \/ Step(r))
                         /\ WF_vars(Deliver(r))

----------------------------------------------------------------------------
(* Properties                                                              *)

AllDecided == Pending = {}

(* Somebody is on the way to ask the model with the whole batch decided.   *)
InCharge ==
  \E r \in Requests :
    \/ pc[r] \in Posting \ {"create"}
    \/ /\ undecided[r] = {}
       /\ \/ pc[r] = "create"
          \/ phase[r] \in {"human_approved_tool", "tool_result", "user_input"}

(* When the last tool of a batch is decided the model has been asked with  *)
(* all of them decided, or will be: no order of posted decisions leaves    *)
(* every operation waiting for a tool that somebody else has decided, with *)
(* steps on the paused operation in between (execAgent, step 11).  A       *)
(* failure since the last decision may cut this off.                       *)
NoLostResume == AllDecided => answer # "none" \/ lost \/ InCharge

(* Decisions that are posted one after the other, without failures, give   *)
(* the model the results of every tool that was approved.                  *)
AnswersAreInformed == answer = "blind" => overlap \/ faults > 0

(* In the end the model is asked.                                          *)
BatchIsAnswered == AllDecided ~> (answer # "none" \/ lost)

(* The comment of aiAgent/index.ts:415-417: the check of the tool message  *)
(* `guards against stale / double-clicks'.                                 *)
ToolRunsOnce == \A t \in Tools : runs[t] <= 1

(* The comment of AgentRuntimeService.ts:1653-1657: the model is not       *)
(* resumed with an unresolved batch.                                       *)
NoUnresolvedBatch ==
  [][ \A r \in Requests : /\ CallLLM(r) => undecided[r] = {}
                          /\ ~ StepWithoutDecision(r) ]_vars
=============================================================================
