------------------------ MODULE ToolApprovalProofs -------------------------
(***************************************************************************)
(* ToolApproval for any batch, any number of decisions and of faults: no   *)
(* order of posted decisions loses the resumption of the agent, whatever   *)
(* is sent in place meanwhile.  The first invariant is nearly inductive:   *)
(* who writes a decision reads the others afterwards, and an operation     *)
(* starts only when its request is done.  What the model is told is        *)
(* followed separately (Informed): as long as decisions come one at a time *)
(* and nothing fails, an approved tool is being decided or its result is   *)
(* in the state that the model will see.                                   *)
(***************************************************************************)
EXTENDS ToolApproval, TLAPS

USE ApprovalAssumption

(* A request's operation runs when the request is done.                    *)
Begun == \A r \in Requests : pc[r] # "done" => phase[r] = "none"

Inv == TypeOK /\ Begun /\ NoLostResume

-----------------------------------------------------------------------------
(* Types                                                                   *)

LEMMA TypeInit == Init => TypeOK
<1> SUFFICES ASSUME Init PROVE TypeOK
  OBVIOUS
<1>1. (CHOOSE t \in Tools : TRUE) \in Tools
  OBVIOUS
<1>2. tool \in [Requests -> Tools]
  <2> DEFINE t == CHOOSE t \in Tools : TRUE
  <2> HIDE DEF t
  <2>1. t \in Tools
    BY <1>1 DEF t
  <2>2. tool = [r \in Requests |-> t]
    BY DEF Init, t
  <2> QED BY <2>1, <2>2
<1>3. /\ plugin \in [Tools -> {"pending", "approved", "rejected"}]
      /\ content \in [Tools -> Contents]
      /\ pc \in [Requests -> {"idle", "queued", "done"} \cup Posting]
      /\ decision \in [Requests -> Decisions] /\ index \in [Requests -> Nat]
  BY DEF Init, Contents, Decisions
<1>4. /\ undecided \in [Requests -> SUBSET Tools]
      /\ known \in [Requests -> [Tools -> Contents]]
      /\ runs \in [Tools -> Nat]
  BY DEF Init, Contents
<1>5. /\ status \in [Operations ->
                    {"absent", "running", "waiting_for_human", "done", "error"}]
      /\ phase \in [Requests -> {"none", "human_approved_tool", "tool_result",
                                "user_input", "llm_result"}]
  BY DEF Init
<1>6. answer \in {"none", "blind", "informed"} /\ overlap \in BOOLEAN /\ lost \in BOOLEAN
  BY Zenon DEF Init
<1>7. stepCount \in Nat /\ faults \in 0 .. MaxFaults
  <2>1. stepCount = 1 /\ faults = 0
    BY Zenon DEF Init
  <2> QED BY <2>1
<1> QED BY <1>2, <1>3, <1>4, <1>5, <1>6, <1>7 DEF TypeOK

LEMMA TypePost ==
  ASSUME TypeOK, NEW r \in Requests, Post(r) \/ PostFails(r)
  PROVE  TypeOK'
<1>1. CASE WriteContent(r)
  BY <1>1 DEF TypeOK, WriteContent, Goes, Posting, Contents, Idle, decided, view
<1>2. CASE PersistPlugin(r)
  BY <1>2 DEF TypeOK, PersistPlugin, Goes, Posting, StatusOf, Idle, decided, view
<1>3. CASE LoadHistory(r)
  BY <1>3 DEF TypeOK, LoadHistory, Goes, Posting, Pending, Idle, decided, database
<1>4. CASE CreateOperation(r)
  BY <1>4 DEF TypeOK, CreateOperation, Goes, Idle, decided, database, view
<1>5. CASE PostFails(r)
  BY <1>5 DEF TypeOK, PostFails, Fault, Idle, decided, database, view
<1> QED BY <1>1, <1>2, <1>3, <1>4, <1>5 DEF Post

LEMMA TypeStep ==
  ASSUME TypeOK, NEW r \in Requests, Step(r) \/ StepFails(r)
  PROVE  TypeOK'
<1>1. CASE RunTool(r)
  BY <1>1 DEF TypeOK, RunTool, Advances, Contents, Steps, decided
<1>2. CASE RequestHumanApprove(r)
  BY <1>2 DEF TypeOK, RequestHumanApprove, Advances, Steps, decided, database, view
<1>3. CASE CallLLM(r)
  <2>1. answer' \in {"none", "blind", "informed"}
    BY <1>3 DEF TypeOK, CallLLM, Asked
  <2> QED BY <1>3, <2>1 DEF TypeOK, CallLLM, Advances, Steps, decided, database, view
<1>4. CASE Finish(r)
  BY <1>4 DEF TypeOK, Finish, Advances, Steps, decided, database, view
<1>5. CASE StepFails(r)
  <2>1. status' \in [Operations ->
                   {"absent", "running", "waiting_for_human", "done", "error"}]
    BY <1>5 DEF TypeOK, StepFails
  <2> QED BY <1>5, <2>1 DEF TypeOK, StepFails, Fault, Steps, decided, database, view
<1> QED BY <1>1, <1>2, <1>3, <1>4, <1>5 DEF Step

LEMMA TypeNext == TypeOK /\ [Next]_vars => TypeOK'
<1> SUFFICES ASSUME TypeOK, [Next]_vars PROVE TypeOK'
  OBVIOUS
<1>1. ASSUME NEW r \in Requests, NEW t \in Tools, NEW d \in Decisions, Click(r, t, d)
      PROVE  TypeOK'
  BY <1>1 DEF TypeOK, Click, IsNext, StatusOf, Posting, view
<1>2. ASSUME NEW r \in Requests, NEW i \in 0 .. stepCount + 1, Send(r, i)
      PROVE  TypeOK'
  BY <1>2 DEF TypeOK, Send, Goes, database, view
<1>3. ASSUME NEW r \in Requests, Deliver(r) \/ StepThrows(r)
      PROVE  TypeOK'
  <2>1. CASE Skip(r)
    BY <2>1 DEF TypeOK, Skip, Goes, Idle, decided, database, view
  <2>2. CASE StepWithoutDecision(r)
    BY <2>2 DEF TypeOK, StepWithoutDecision, Goes, decided, database, view
  <2>3. CASE StepThrows(r)
    <3>1. status' \in [Operations ->
                     {"absent", "running", "waiting_for_human", "done", "error"}]
      BY <2>3 DEF TypeOK, StepThrows
    <3> QED
      BY <2>3, <3>1 DEF TypeOK, StepThrows, Goes, Fault, Idle, decided, database, view
  <2> QED BY <1>3, <2>1, <2>2, <2>3 DEF Deliver
<1>4. CASE UNCHANGED vars
  BY <1>4 DEF TypeOK, vars, decided, database, view
<1> QED BY <1>1, <1>2, <1>3, <1>4, TypePost, TypeStep DEF Next

-----------------------------------------------------------------------------
(* The resumption                                                          *)

(* What happens in place leaves the posted decisions alone.                *)
LEMMA InPlaceAside ==
  ASSUME TypeOK, NEW r \in Requests,
         \/ \E i \in 0 .. stepCount + 1 : Send(r, i)
         \/ Deliver(r) \/ StepThrows(r)
  PROVE  /\ UNCHANGED <<database, view, phase, tool, decision, answer, overlap, lost>>
         /\ pc[r] \in {"idle", "queued"} /\ pc'[r] \in {"queued", "done"}
         /\ \A q \in Requests : q # r => pc'[q] = pc[q]
         /\ \A q \in Requests : pc'[q] \in Posting <=> pc[q] \in Posting
<1>1. /\ UNCHANGED <<database, view, phase, tool, decision, answer, overlap, lost>>
      /\ \E from, to : Goes(r, from, to) /\ from \in {"idle", "queued"}
                                         /\ to \in {"queued", "done"}
  BY DEF Send, Deliver, Skip, StepWithoutDecision, StepThrows, Idle, decided
<1> QED BY <1>1 DEF TypeOK, Goes, Posting

LEMMA BegunStep == TypeOK /\ Begun /\ [Next]_vars => Begun'
<1> SUFFICES ASSUME TypeOK, Begun, [Next]_vars PROVE Begun'
  OBVIOUS
<1>1. ASSUME NEW r \in Requests, NEW t \in Tools, NEW d \in Decisions, Click(r, t, d)
      PROVE  Begun'
  BY <1>1 DEF Begun, TypeOK, Click, IsNext
<1>2. ASSUME NEW r \in Requests, Post(r) \/ PostFails(r)
      PROVE  Begun'
  BY <1>2 DEF Begun, TypeOK, Post, WriteContent, PersistPlugin, LoadHistory,
              CreateOperation, PostFails, Goes, Posting
<1>3. ASSUME NEW r \in Requests, Step(r) \/ StepFails(r)
      PROVE  Begun'
  BY <1>3 DEF Begun, TypeOK, Step, RunTool, RequestHumanApprove, CallLLM, Finish,
              StepFails, Advances, Steps
<1>4. ASSUME NEW r \in Requests,
             \/ \E i \in 0 .. stepCount + 1 : Send(r, i)
             \/ Deliver(r) \/ StepThrows(r)
      PROVE  Begun'
  BY <1>4, InPlaceAside DEF Begun
<1>5. CASE UNCHANGED vars
  BY <1>5 DEF Begun, vars
<1> QED BY <1>1, <1>2, <1>3, <1>4, <1>5 DEF Next

LEMMA AskedResult ==
  ASSUME NEW o, NEW open, Asked(o, open), answer' = "none"
  PROVE  answer = "none" /\ open # {}
<1> DEFINE full == \A t \in Tools : plugin[t] = "approved" => known[o][t] = "result"
<1> HIDE DEF full
<1>1. answer' = CASE open # {} -> answer
                  [] open = {} /\ full -> "informed"
                  [] OTHER -> IF answer = "none" THEN "blind" ELSE answer
  BY DEF Asked, full
<1> QED BY <1>1

(* The decision of a tool leaves its author in charge.                     *)
LEMMA ResumePost ==
  ASSUME Inv, NEW r \in Requests, Post(r) \/ PostFails(r)
  PROVE  NoLostResume'
<1> USE DEF Inv, TypeOK, Idle, decided, database, view
<1> USE DEF NoLostResume, AllDecided, Pending, InCharge
<1>1. CASE WriteContent(r) \/ PersistPlugin(r)
  BY <1>1 DEF WriteContent, PersistPlugin, Goes, StatusOf, Posting
<1>2. CASE LoadHistory(r)
  BY <1>2 DEF LoadHistory, Goes, Posting, Begun
<1>3. CASE CreateOperation(r)
  <2>1. CASE undecided[r] = {}
    BY <1>3, <2>1 DEF CreateOperation, Goes, Posting
  <2>2. CASE undecided[r] # {}
    BY <1>3, <2>2 DEF CreateOperation, Goes, Posting
  <2> QED BY <2>1, <2>2
<1>4. CASE PostFails(r)
  BY <1>4 DEF PostFails
<1> QED BY <1>1, <1>2, <1>3, <1>4 DEF Post

(* An operation in charge asks the model.                                  *)
LEMMA ResumeStep ==
  ASSUME Inv, NEW r \in Requests, Step(r) \/ StepFails(r)
  PROVE  NoLostResume'
<1> USE DEF Inv, TypeOK, Steps, decided, database, view
<1> SUFFICES ASSUME AllDecided', answer' = "none", ~ lost'
             PROVE  InCharge'
  BY DEF NoLostResume
<1>1. CASE RunTool(r)
  BY <1>1 DEF RunTool, Advances, NoLostResume, AllDecided, Pending, InCharge
<1>2. CASE RequestHumanApprove(r)
  BY <1>2 DEF RequestHumanApprove, Advances, NoLostResume, AllDecided, Pending, InCharge
<1>3. CASE CallLLM(r)
  <2>1. answer = "none" /\ undecided[r] # {}
    BY <1>3, AskedResult DEF CallLLM
  <2> QED
    BY <1>3, <2>1 DEF CallLLM, Advances, NoLostResume, AllDecided, Pending, InCharge
<1>4. CASE Finish(r)
  BY <1>4 DEF Finish, Advances, NoLostResume, AllDecided, Pending, InCharge
<1>5. CASE StepFails(r)
  BY <1>5 DEF StepFails
<1> QED BY <1>1, <1>2, <1>3, <1>4, <1>5 DEF Step

LEMMA InvInit == Init => Inv
<1> SUFFICES ASSUME Init PROVE Inv
  OBVIOUS
<1>1. TypeOK
  BY TypeInit
<1>2. Begun /\ Pending = Tools
  BY DEF Init, Begun, Pending
<1> QED BY <1>1, <1>2 DEF Inv, NoLostResume, AllDecided

LEMMA InvNext == Inv /\ [Next]_vars => Inv'
<1> SUFFICES ASSUME Inv, [Next]_vars PROVE Inv'
  OBVIOUS
<1>1. TypeOK' /\ Begun'
  BY TypeNext, BegunStep DEF Inv
<1>2. NoLostResume'
  <2>1. CASE UNCHANGED vars
    BY <2>1 DEF Inv, vars, decided, database, view, NoLostResume, AllDecided, Pending,
                InCharge
  <2>2. ASSUME NEW r \in Requests, NEW t \in Tools, NEW d \in Decisions, Click(r, t, d)
        PROVE  NoLostResume'
    BY <2>2 DEF Inv, TypeOK, Click, NoLostResume, InCharge, Posting
  <2>3. ASSUME NEW r \in Requests,
               \/ \E i \in 0 .. stepCount + 1 : Send(r, i)
               \/ Deliver(r) \/ StepThrows(r)
        PROVE  NoLostResume'
    <3>1. /\ plugin' = plugin /\ undecided' = undecided /\ phase' = phase
          /\ answer' = answer /\ lost' = lost
          /\ \A q \in Requests : pc'[q] \in Posting <=> pc[q] \in Posting
          /\ \A q \in Requests : q # r => pc'[q] = pc[q]
          /\ pc[r] \notin Posting
      BY <2>3, InPlaceAside DEF Inv, database, view, Posting
    <3>2. Pending' = Pending
      BY <3>1 DEF Pending
    <3>3. InCharge => InCharge'
      BY <3>1 DEF InCharge, Posting
    <3> QED BY <3>1, <3>2, <3>3 DEF Inv, NoLostResume, AllDecided
  <2> QED BY <2>1, <2>2, <2>3, ResumePost, ResumeStep DEF Next
<1> QED BY <1>1, <1>2 DEF Inv

-----------------------------------------------------------------------------
(* What the model knows                                                    *)

Undisturbed == ~ overlap /\ faults = 0

Acting == {r \in Requests : pc[r] \in Posting}
Running == {r \in Requests : phase[r] # "none"}

(* What r has read of the approved tools, but for those in S, is a result. *)
Knows(r, S) ==
  \A t \in Tools \ S : plugin[t] = "approved" => known[r][t] = "result"

(* One decision, or the operation it became, is under way at a time.       *)
OneAtATime ==
  /\ \A r, s \in Acting : r = s
  /\ \A r, s \in Running : r = s
  /\ Acting = {} \/ Running = {}

(* A decision is written before its tool is looked at again.               *)
DecisionWritten ==
  \A r \in Acting : plugin[tool[r]] = StatusOf(decision[r])

(* An approved tool has its result in the database, and the operation that *)
(* will ask the model has read it, but for the tool that is being decided. *)
ResultsRead ==
  /\ \A t \in Tools :
       plugin[t] = "approved" /\ content[t] # "result" =>
         \E r \in Requests : /\ tool[r] = t
                             /\ r \in Acting \/ phase[r] = "human_approved_tool"
  /\ \A r \in Requests :
       /\ pc[r] = "create" \/ phase[r] = "human_approved_tool" => Knows(r, {tool[r]})
       /\ phase[r] \in {"tool_result", "user_input"} => Knows(r, {})

Informed ==
  Undisturbed => OneAtATime /\ DecisionWritten /\ ResultsRead /\ answer # "blind"

(* A disturbed history stays disturbed.                                    *)
LEMMA StaysUndisturbed == TypeOK /\ [Next]_vars /\ Undisturbed' => Undisturbed
<1> SUFFICES ASSUME TypeOK, [Next]_vars, Undisturbed' PROVE Undisturbed
  OBVIOUS
<1> USE DEF TypeOK, Undisturbed
<1>1. ASSUME NEW r \in Requests, NEW t \in Tools, NEW d \in Decisions, Click(r, t, d)
      PROVE  Undisturbed
  BY <1>1 DEF Click
<1>2. ASSUME NEW r \in Requests, NEW i \in 0 .. stepCount + 1, Send(r, i)
      PROVE  Undisturbed
  BY <1>2 DEF Send
<1>3. ASSUME NEW r \in Requests,
             Post(r) \/ PostFails(r) \/ Deliver(r) \/ StepThrows(r)
      PROVE  Undisturbed
  BY <1>3 DEF Post, WriteContent, PersistPlugin, LoadHistory, CreateOperation, PostFails,
              Deliver, Skip, StepWithoutDecision, StepThrows, Fault, Idle
<1>4. ASSUME NEW r \in Requests, Step(r) \/ StepFails(r)
      PROVE  Undisturbed
  BY <1>4 DEF Step, RunTool, RequestHumanApprove, CallLLM, Finish, StepFails, Fault, Steps
<1>5. CASE UNCHANGED vars
  BY <1>5 DEF vars
<1> QED BY <1>1, <1>2, <1>3, <1>4, <1>5 DEF Next

(* Who asks with every approved tool known does not ask in the blind.      *)
LEMMA AskedInformed ==
  ASSUME NEW o, NEW open, Asked(o, open), answer # "blind",
         open = {} => Knows(o, {})
  PROVE  answer' # "blind"
<1> DEFINE full == \A t \in Tools : plugin[t] = "approved" => known[o][t] = "result"
<1>1. open = {} => full
  BY DEF Knows
<1> HIDE DEF full
<1>2. answer' = CASE open # {} -> answer
                  [] open = {} /\ full -> "informed"
                  [] OTHER -> IF answer = "none" THEN "blind" ELSE answer
  BY DEF Asked, full
<1> QED BY <1>1, <1>2

(* A decision that is posted while nothing is under way is alone.          *)
LEMMA ClickInformed ==
  ASSUME Inv, Informed, Undisturbed, Undisturbed',
         NEW r \in Requests, NEW t \in Tools, NEW d \in Decisions, Click(r, t, d)
  PROVE  Informed'
<1> USE DEF Inv, TypeOK, database, view
<1>1. Acting = {} /\ Running = {} /\ answer # "blind" /\ ResultsRead
  BY DEF Click, UnderWay, Undisturbed, Informed, Acting, Running
<1>2. /\ Acting' = {r} /\ Running' = {} /\ answer' = "none"
      /\ tool'[r] = t /\ decision'[r] = d /\ plugin'[t] = StatusOf(d)
      /\ pc'[r] \in {"persistPlugin", "markContent"} /\ phase' = phase
  BY <1>1 DEF Click, Acting, Running, Posting
<1>3. OneAtATime' /\ DecisionWritten'
  BY <1>2 DEF OneAtATime, DecisionWritten, StatusOf
<1>4. ASSUME NEW u \in Tools, plugin'[u] = "approved", content'[u] # "result"
      PROVE  u = t
  <2> SUFFICES ASSUME u # t PROVE FALSE
    OBVIOUS
  <2>1. plugin[u] = "approved" /\ content[u] # "result"
    BY <1>4 DEF Click
  <2> QED BY <1>1, <2>1 DEF ResultsRead, Running
<1>5. \A q \in Requests : pc'[q] # "create" /\ phase'[q] = "none"
  BY <1>1, <1>2 DEF Acting, Running, Click, Posting
<1>6. ResultsRead'
  BY <1>2, <1>4, <1>5 DEF ResultsRead
<1> QED BY <1>2, <1>3, <1>6 DEF Informed

(* A fault disturbs.                                                       *)
LEMMA FaultsDisturb == TypeOK /\ Fault => ~ Undisturbed'
BY DEF TypeOK, Fault, Undisturbed

(* A posted decision becomes an operation that has read the others.        *)
LEMMA PostInformed ==
  ASSUME Inv, Informed, Undisturbed, NEW r \in Requests, Post(r)
  PROVE  Informed'
<1> USE DEF Inv, TypeOK, Idle, decided, database, view
<1>1. /\ Acting = {r} /\ Running = {} /\ answer # "blind"
      /\ plugin[tool[r]] = StatusOf(decision[r]) /\ ResultsRead
  <2>1. r \in Acting /\ pc[r] \in Posting
    BY DEF Post, WriteContent, PersistPlugin, LoadHistory, CreateOperation, Goes, Acting,
           Posting
  <2>2. OneAtATime /\ DecisionWritten /\ ResultsRead /\ answer # "blind"
    BY DEF Informed
  <2> QED BY <2>1, <2>2 DEF OneAtATime, DecisionWritten
<1>2. \A q \in Requests : phase[q] = "none" /\ (q # r => pc[q] \notin Posting)
  BY <1>1 DEF Acting, Running
<1>3. /\ tool' = tool /\ decision' = decision /\ answer' = answer
      /\ \A q \in Requests : q # r => pc'[q] = pc[q]
  BY DEF Post, WriteContent, PersistPlugin, LoadHistory, CreateOperation, Goes
<1>4. plugin' = plugin
  BY <1>1 DEF Post, WriteContent, PersistPlugin, LoadHistory, CreateOperation
<1>5. \A t \in Tools \ {tool[r]} : plugin[t] = "approved" => content[t] = "result"
  BY <1>1, <1>2 DEF ResultsRead
<1>6. \A t \in Tools \ {tool[r]} : content'[t] = content[t]
  BY DEF Post, WriteContent, PersistPlugin, LoadHistory, CreateOperation
<1>7. CASE ~ CreateOperation(r)
  <2>1. pc'[r] \in Posting /\ phase' = phase
    BY <1>7 DEF Post, WriteContent, PersistPlugin, LoadHistory, Goes, Posting
  <2>2. Acting' = {r} /\ Running' = {}
    BY <1>1, <1>2, <1>3, <2>1 DEF Acting, Running
  <2>3. OneAtATime' /\ DecisionWritten'
    BY <1>1, <1>3, <1>4, <2>2 DEF OneAtATime, DecisionWritten
  <2>4. ASSUME pc'[r] = "create"
        PROVE  Knows(r, {tool[r]})'
    <3>1. LoadHistory(r)
      BY <1>7, <2>4 DEF Post, WriteContent, PersistPlugin, Goes
    <3>2. known'[r] = content
      BY <3>1 DEF LoadHistory
    <3> QED BY <1>3, <1>4, <1>5, <3>2 DEF Knows
  <2>5. ResultsRead'
    <3>1. \A t \in Tools : plugin'[t] = "approved" /\ content'[t] # "result" => t = tool'[r]
      BY <1>3, <1>4, <1>5, <1>6
    <3>2. \A q \in Requests : phase'[q] = "none" /\ (pc'[q] = "create" => q = r)
      BY <1>2, <1>3, <2>1 DEF Posting
    <3>3. pc'[r] = "create" => Knows(r, {tool[r]})' /\ tool'[r] = tool[r]
      BY <1>3, <2>4
    <3> QED BY <2>2, <3>1, <3>2, <3>3, <1>3 DEF ResultsRead, Knows
  <2> QED BY <1>1, <1>3, <2>3, <2>5 DEF Informed
<1>8. CASE CreateOperation(r)
  <2>1. /\ pc'[r] = "done" /\ known' = known /\ content' = content
        /\ phase' = [phase EXCEPT ![r] = IF decision[r] = "approve"
                                  THEN "human_approved_tool" ELSE "user_input"]
    BY <1>8 DEF CreateOperation, Goes
  <2>2. Acting' = {} /\ Running' = {r}
    BY <1>1, <1>2, <1>3, <2>1 DEF Acting, Running, Posting
  <2>3. OneAtATime' /\ DecisionWritten'
    BY <2>2 DEF OneAtATime, DecisionWritten
  <2>4. Knows(r, {tool[r]})
    BY <1>1, <1>8 DEF CreateOperation, Goes, ResultsRead
  <2>5. \A q \in Requests : pc'[q] # "create" /\ (q # r => phase'[q] = "none")
    BY <1>2, <1>3, <2>1 DEF Posting
  <2>6. CASE decision[r] = "approve"
    <3>1. phase'[r] = "human_approved_tool"
      BY <2>1, <2>6
    <3>2. Knows(r, {tool[r]})'
      BY <1>3, <1>4, <2>1, <2>4 DEF Knows
    <3>3. \A t \in Tools : plugin'[t] = "approved" /\ content'[t] # "result" => t = tool'[r]
      BY <1>3, <1>4, <1>5, <2>1
    <3>4. ResultsRead'
      BY <1>3, <2>5, <3>1, <3>2, <3>3 DEF ResultsRead, Knows
    <3> QED BY <1>1, <1>3, <2>3, <3>4 DEF Informed
  <2>7. CASE decision[r] # "approve"
    <3>1. phase'[r] = "user_input" /\ plugin[tool[r]] = "rejected"
      BY <1>1, <2>1, <2>7 DEF StatusOf
    <3>2. Knows(r, {})'
      BY <1>4, <2>1, <2>4, <3>1 DEF Knows
    <3>3. \A t \in Tools : plugin'[t] = "approved" => content'[t] = "result"
      BY <1>4, <1>5, <2>1, <3>1
    <3>4. ResultsRead'
      BY <2>5, <3>1, <3>2, <3>3 DEF ResultsRead
    <3> QED BY <1>1, <1>3, <2>3, <3>4 DEF Informed
  <2> QED BY <2>6, <2>7
<1> QED BY <1>7, <1>8

(* The operation of an approval runs its tool and takes the result along.  *)
LEMMA RunToolInformed ==
  ASSUME Inv, Informed, Undisturbed, NEW r \in Requests, RunTool(r)
  PROVE  Informed'
<1> USE DEF Inv, TypeOK, Steps, decided, database, view
<1>1. Acting = {} /\ Running = {r} /\ answer # "blind" /\ ResultsRead
  BY DEF RunTool, Advances, Informed, OneAtATime, Running, Acting
<1>2. /\ Acting' = {} /\ Running' = {r} /\ answer' = answer
      /\ phase'[r] = "tool_result"
  BY <1>1 DEF RunTool, Advances, Acting, Running
<1>3. OneAtATime' /\ DecisionWritten'
  BY <1>2 DEF OneAtATime, DecisionWritten
<1>4. \A q \in Requests : phase[q] # "none" => q = r
  BY <1>1 DEF Running
<1>5. \A q \in Requests : pc'[q] # "create" /\ (q # r => phase'[q] = "none")
  BY <1>1, <1>4 DEF Acting, RunTool, Advances, Posting
<1>6. Knows(r, {tool[r]}) /\ \A t \in Tools \ {tool[r]} :
                               plugin[t] = "approved" => content[t] = "result"
  BY <1>1, <1>4 DEF RunTool, Advances, ResultsRead
<1>7. /\ content' = [content EXCEPT ![tool[r]] = "result"] /\ plugin' = plugin
      /\ known'[r] = [known[r] EXCEPT ![tool[r]] = "result"]
  BY DEF RunTool
<1>8. Knows(r, {})'
  BY <1>6, <1>7 DEF Knows
<1>9. \A t \in Tools : plugin'[t] = "approved" => content'[t] = "result"
  BY <1>6, <1>7
<1>10. ResultsRead'
  BY <1>2, <1>5, <1>8, <1>9 DEF ResultsRead
<1> QED BY <1>1, <1>2, <1>3, <1>10 DEF Informed

(* The operation that is under way asks with what it has read.             *)
LEMMA OperationInformed ==
  ASSUME Inv, Informed, Undisturbed, NEW r \in Requests, Step(r), ~ RunTool(r)
  PROVE  Informed'
<1> USE DEF Inv, TypeOK, Steps, decided, database, view
<1> USE DEF Step
<1>1. Acting = {} /\ Running = {r} /\ answer # "blind" /\ ResultsRead
  BY DEF RequestHumanApprove, CallLLM, Finish, Advances, Informed, OneAtATime, Running
<1>2. /\ pc' = pc /\ tool' = tool /\ decision' = decision
      /\ plugin' = plugin /\ content' = content /\ known' = known
  BY DEF RequestHumanApprove, CallLLM, Finish
<1>3. /\ phase'[r] \in {"none", "llm_result"}
      /\ \A q \in Requests : q # r => phase'[q] = "none" /\ phase[q] = "none"
  BY <1>1 DEF RequestHumanApprove, CallLLM, Finish, Advances, Running
<1>4. Acting' = {} /\ Running' \subseteq {r}
  BY <1>1, <1>2, <1>3 DEF Acting, Running
<1>5. OneAtATime' /\ DecisionWritten'
  BY <1>4 DEF OneAtATime, DecisionWritten
<1>6. ResultsRead'
  <2>1. \A q \in Requests : phase'[q] \in {"none", "llm_result"} /\ pc'[q] # "create"
    BY <1>1, <1>2, <1>3 DEF Acting, Posting
  <2>2. phase[r] # "human_approved_tool"
    BY DEF RequestHumanApprove, CallLLM, Finish, Advances
  <2>3. ASSUME NEW t \in Tools, plugin[t] = "approved"
        PROVE  content[t] = "result"
    BY <1>1, <1>3, <2>2, <2>3 DEF ResultsRead
  <2> QED BY <1>2, <2>1, <2>3 DEF ResultsRead
<1>7. answer' # "blind"
  <2>1. CASE CallLLM(r)
    <3>1. Knows(r, {})
      BY <1>1, <2>1 DEF ResultsRead, CallLLM, Advances
    <3> QED BY <1>1, <2>1, <3>1, AskedInformed DEF CallLLM
  <2>2. CASE ~ CallLLM(r)
    BY <1>1, <2>2 DEF RequestHumanApprove, Finish
  <2> QED BY <2>1, <2>2
<1> QED BY <1>5, <1>6, <1>7 DEF Informed

(* A step without its decision changes nothing of this.                    *)
LEMMA InPlaceInformed ==
  ASSUME Inv, Informed, Undisturbed, NEW r \in Requests,
         \/ \E i \in 0 .. stepCount + 1 : Send(r, i)
         \/ Deliver(r)
  PROVE  Informed'
<1>1. /\ plugin' = plugin /\ content' = content /\ known' = known /\ phase' = phase
      /\ tool' = tool /\ decision' = decision /\ answer' = answer
      /\ \A q \in Requests : pc'[q] \in Posting <=> pc[q] \in Posting
      /\ \A q \in Requests : pc'[q] = "create" => pc[q] = "create"
  BY InPlaceAside DEF Inv, database, view, Posting
<1>2. Acting' = Acting /\ Running' = Running
  BY <1>1 DEF Acting, Running
<1> QED BY <1>1, <1>2 DEF Informed, OneAtATime, DecisionWritten, ResultsRead, Knows

LEMMA InformedInit == Init => Informed
<1> SUFFICES ASSUME Init PROVE Informed
  OBVIOUS
<1>1. /\ \A r \in Requests : pc[r] = "idle" /\ phase[r] = "none"
      /\ \A t \in Tools : plugin[t] = "pending"
  BY DEF Init
<1>2. answer # "blind"
  BY DEF Init
<1> QED
  BY <1>1, <1>2 DEF Informed, OneAtATime, DecisionWritten, ResultsRead, Acting, Running,
                    Posting

LEMMA InformedNext == Inv /\ Informed /\ [Next]_vars => Informed'
<1> SUFFICES ASSUME Inv, Informed, [Next]_vars, Undisturbed' PROVE Informed'
  BY DEF Informed
<1>1. TypeOK /\ Undisturbed
  BY StaysUndisturbed DEF Inv
<1>2. CASE UNCHANGED vars
  BY <1>2 DEF vars, decided, database, view, Informed, Undisturbed, OneAtATime,
              DecisionWritten, ResultsRead, Knows, Acting, Running
<1>3. ASSUME NEW r \in Requests, PostFails(r) \/ StepFails(r) \/ StepThrows(r)
      PROVE  FALSE
  BY <1>1, <1>3, FaultsDisturb DEF PostFails, StepFails, StepThrows
<1> QED BY <1>1, <1>2, <1>3, ClickInformed, PostInformed, RunToolInformed,
           OperationInformed, InPlaceInformed DEF Next

-----------------------------------------------------------------------------
(* The theorems                                                            *)

(* Every variable keeps its type, whatever order the browser's requests    *)
(* and the queue's deliveries come in.                                     *)
THEOREM ApprovalTypes == Spec => []TypeOK
BY TypeInit, TypeNext, PTL DEF Spec

(* When the last tool of a batch is decided somebody asks the model, or is *)
(* on the way to: for every batch and every order of posted decisions and  *)
(* failures, whatever is sent in place meanwhile (execAgent).              *)
THEOREM ApprovalResumes == Spec => []NoLostResume
<1>1. Inv => NoLostResume
  BY DEF Inv
<1> QED BY <1>1, InvInit, InvNext, PTL DEF Spec

(* Decisions that are posted one after the other give the model the        *)
(* results of all that were approved, if nothing fails: for every batch    *)
(* and any order of decisions (execAgent's history, call_tool).            *)
THEOREM AnswersKnowResults == Spec => []AnswersAreInformed
<1>1. Inv /\ Informed => AnswersAreInformed
  BY DEF Inv, TypeOK, Informed, Undisturbed, AnswersAreInformed
<1>2. Init => Inv /\ Informed
  BY InvInit, InformedInit
<1>3. Inv /\ Informed /\ [Next]_vars => (Inv /\ Informed)'
  BY InvNext, InformedNext
<1> QED BY <1>1, <1>2, <1>3, PTL DEF Spec
=============================================================================
