--------------------------- MODULE StepExecution ---------------------------
(***************************************************************************)
(* One agent operation driven step by step through a message queue.        *)
(*                                                                         *)
(* A step is one POST /api/agent/run: the handler claims the step's lock   *)
(* in Redis, loads the operation's state, runs AgentRuntime.step, writes   *)
(* the new state back, and either schedules the message of the next step   *)
(* or dispatches the completion hooks (AgentRuntimeService.executeStep).   *)
(* QStash delivers every message at least once: a delivery whose answer is *)
(* 429, 500, missing or late is retried.  Clients call interruptOperation  *)
(* and startExecution beside the steps.                                    *)
(*                                                                         *)
(* An atomic action is one call to Redis or to the queue, together with    *)
(* the local computation that follows it.                                  *)
(***************************************************************************)
EXTENDS Integers, FiniteSets

CONSTANTS
  Workers,          \* concurrent invocations of the run route
  Canceller,        \* the caller of interruptOperation
  Starter,          \* the caller of startExecution
  MaxStep,          \* bound: the last step index the agent plans
  Retries,          \* QStash retries of one message
  MaxCrashes,       \* bound: invocations killed before the save
  MaxLateCrashes,   \* bound: invocations killed behind it
  MaxThrows,        \* bound: Redis or queue calls that reject
  MaxCatchThrows,   \* bound: those that reject in executeStep's catch block
  MaxOpenClaims,    \* bound: claims that succeed because Redis rejects them
  MaxOverruns,      \* bound: locks that expire while their step runs
  MaxInterrupts,    \* bound: calls of interruptOperation
  MaxStarts,        \* bound: calls of startExecution
  MaxFaults,        \* bound: all of these together
  AutoStart,        \* createOperation schedules the first step itself
  AfterStepHooks,   \* some hook of type afterStep is in metadata._hooks
  PublishReplyLost  \* a queue publish that rejects may have been accepted

ASSUME ActorsAssumption ==
  /\ IsFiniteSet(Workers)
  /\ Canceller \notin Workers
  /\ Starter \notin Workers
  /\ Canceller # Starter

ASSUME BoundsAssumption ==
  /\ MaxStep \in Nat
  /\ Retries \in Nat
  /\ {MaxCrashes, MaxLateCrashes, MaxThrows, MaxCatchThrows, MaxOpenClaims,
      MaxOverruns, MaxInterrupts, MaxStarts, MaxFaults} \subseteq Nat
  /\ {AutoStart, AfterStepHooks, PublishReplyLost} \subseteq BOOLEAN

VARIABLES
  op,          \* agent_runtime_state:<operationId>, the state record in Redis
  lock,        \* the step indexes whose lock key exists in Redis
  queue,       \* QStash: how many copies of each message await delivery
  pc,          \* where each actor is in its handler
  job,         \* the message a worker was invoked with
  live,        \* QStash still waits for the answer of this invocation
  mem,         \* the state record an actor holds in memory
  prev,        \* previousState.status read by a coordinator save
  ctx,         \* stepResult.nextContext is present
  resume,      \* where an actor continues after a coordinator save
  spent,       \* how much of each bound has been used
  endEvents,   \* agent_runtime_end events in the operation's stream
  completed,   \* reason of the latest onComplete webhook sent, or "none"
  cancelled    \* some interruptOperation has returned true

vars == <<op, lock, queue, pc, job, live, mem, prev, ctx, resume, spent,
          endEvents, completed, cancelled>>

-----------------------------------------------------------------------------
Actors == Workers \cup {Canceller, Starter}
Steps == 0..MaxStep

Active == {"idle", "running"}
Terminal == {"done", "error", "interrupted"}
StreamEnd == Terminal \cup {"waiting_for_human"}
Status == Active \cup StreamEnd

(* hooks: metadata._hooks holds the operation's onComplete webhook *)
State == [status : Status, stepCount : Nat, hooks : BOOLEAN]

NewState == [status |-> "idle", stepCount |-> 0, hooks |-> TRUE]

(* cooled: the Retry-After of an earlier 429 has elapsed *)
Message == [step : Steps, left : 0..Retries, cooled : BOOLEAN]

(* Labels of the handlers; prev, write and end are the calls of a coordinator
   save, after which the actor continues at resume. *)
Label == {"off", "load", "run", "recheck", "prev", "write", "end", "stepEvent",
          "next", "catch", "fail", "release200", "release500", "ack", "enqueue"}

Budget == [crash : 0..MaxCrashes, late : 0..MaxLateCrashes,
           throw : 0..MaxThrows, catch : 0..MaxCatchThrows,
           open : 0..MaxOpenClaims, overrun : 0..MaxOverruns,
           interrupt : 0..MaxInterrupts, start : 0..MaxStarts]

Limit == [crash |-> MaxCrashes, late |-> MaxLateCrashes,
          throw |-> MaxThrows, catch |-> MaxCatchThrows,
          open |-> MaxOpenClaims, overrun |-> MaxOverruns,
          interrupt |-> MaxInterrupts, start |-> MaxStarts]

(* executeStep is between its claim and the end of its finally block *)
Executing(w) == pc[w] # "off"
Executors(s) == {w \in Workers : Executing(w) /\ job[w].step = s}

(* runtime.step may have begun and the result has not been written *)
Computing(w) ==
  pc[w] \in {"run", "recheck"}
    \/ (pc[w] \in {"prev", "write"} /\ resume[w] = "stepEvent")

-----------------------------------------------------------------------------
(* The queue *)

FirstDelivery(s) == [step |-> s, left |-> Retries, cooled |-> TRUE]

Put(m) == [queue EXCEPT ![m] = @ + 1]
Take(m) == [queue EXCEPT ![m] = @ - 1]

(* QStash retries a delivery that did not end in a 2xx while retries remain *)
Retry(q, m, cool) ==
  IF m.left = 0 THEN q
  ELSE [q EXCEPT ![[m EXCEPT !.left = @ - 1, !.cooled = cool]] = @ + 1]

Faults == spent.crash + spent.late + spent.throw + spent.catch
            + spent.open + spent.overrun + spent.interrupt + spent.start

Spend(what) ==
  /\ spent[what] < Limit[what]
  /\ Faults < MaxFaults
  /\ spent' = [spent EXCEPT ![what] = @ + 1]

Goto(a, label) == pc' = [pc EXCEPT ![a] = label]

-----------------------------------------------------------------------------
(* createOperation has saved the idle state and, with autoStart, scheduled
   the first step. *)
Init ==
  /\ op = NewState
  /\ lock = {}
  /\ queue = [m \in Message |->
                IF AutoStart /\ m = FirstDelivery(0) THEN 1 ELSE 0]
  /\ pc = [a \in Actors |-> "off"]
  /\ job = [w \in Workers |-> FirstDelivery(0)]
  /\ live = [w \in Workers |-> FALSE]
  /\ mem = [a \in Actors |-> op]
  /\ prev = [a \in Actors |-> "idle"]
  /\ ctx = [w \in Workers |-> FALSE]
  /\ resume = [a \in Actors |-> "off"]
  /\ spent = [what \in DOMAIN Limit |-> 0]
  /\ endEvents = 0
  /\ completed = "none"
  /\ cancelled = FALSE

-----------------------------------------------------------------------------
(* Claim, delivery and release *)

Deliverable(m) == queue[m] > 0 /\ m.cooled

(* A defect for the runs to find: the SET without its NX *)
TryClaimStepNoNX(s) == lock' = lock \cup {s} /\ UNCHANGED spent

(* tryClaimStep: SET key NX EX 35, and TRUE as well when Redis rejects it *)
TryClaimStep(s) ==
  \/ s \notin lock /\ lock' = lock \cup {s} /\ UNCHANGED spent
  \/ Spend("open") /\ lock' \in {lock, lock \cup {s}}

Claim(w, m) ==
  /\ pc[w] = "off"
  /\ Deliverable(m)
  /\ TryClaimStep(m.step)
  /\ queue' = Take(m)
  /\ job' = [job EXCEPT ![w] = m]
  /\ live' = [live EXCEPT ![w] = TRUE]
  /\ Goto(w, "load")
  /\ UNCHANGED <<op, mem, prev, ctx, resume, endEvents, completed, cancelled>>

(* The route answers 429 with Retry-After: 37 *)
Locked(m) ==
  /\ Deliverable(m)
  /\ m.step \in lock
  /\ queue' = Retry(Take(m), m, FALSE)
  /\ UNCHANGED <<op, lock, pc, job, live, mem, prev, ctx, resume, spent,
                 endEvents, completed, cancelled>>

(* 37 s after the 429 the 35 s key that caused it is gone *)
RetryAfter(m) ==
  /\ queue[m] > 0
  /\ ~m.cooled
  /\ m.step \notin lock
  /\ queue' = [Take(m) EXCEPT ![[m EXCEPT !.cooled = TRUE]] = @ + 1]
  /\ UNCHANGED <<op, lock, pc, job, live, mem, prev, ctx, resume, spent,
                 endEvents, completed, cancelled>>

(* The answer is late: QStash retries while the invocation goes on *)
DeliveryTimeout(w) ==
  /\ live[w]
  /\ job[w].left > 0
  /\ live' = [live EXCEPT ![w] = FALSE]
  /\ queue' = Retry(queue, job[w], TRUE)
  /\ UNCHANGED <<op, lock, pc, job, mem, prev, ctx, resume, spent,
                 endEvents, completed, cancelled>>

(* A defect: the lock is set without an expiry *)
LockForever(s) == FALSE /\ UNCHANGED vars

(* EX 35, which a step may outlive: dispatchClientTool waits up to 60 s *)
LockExpire(s) ==
  /\ s \in lock
  /\ IF Executors(s) = {} THEN UNCHANGED spent ELSE Spend("overrun")
  /\ lock' = lock \ {s}
  /\ UNCHANGED <<op, queue, pc, job, live, mem, prev, ctx, resume,
                 endEvents, completed, cancelled>>

(* The invocation's local variables go out of scope *)
Leave(w) ==
  /\ Goto(w, "off")
  /\ live' = [live EXCEPT ![w] = FALSE]
  /\ job' = [job EXCEPT ![w] = FirstDelivery(0)]
  /\ mem' = [mem EXCEPT ![w] = NewState]
  /\ prev' = [prev EXCEPT ![w] = "idle"]
  /\ ctx' = [ctx EXCEPT ![w] = FALSE]
  /\ resume' = [resume EXCEPT ![w] = "off"]

(* finally: DEL the key, whoever set it; then the route answers 200 or 500 *)
ReleaseStepLock(w) ==
  /\ pc[w] \in {"release200", "release500"}
  /\ \/ lock' = lock \ {job[w].step} /\ UNCHANGED spent
     \/ Spend("throw") /\ UNCHANGED lock
  /\ queue' = IF live[w] /\ pc[w] = "release500"
                THEN Retry(queue, job[w], TRUE) ELSE queue
  /\ Leave(w)
  /\ UNCHANGED <<op, endEvents, completed, cancelled>>

(* The platform kills the invocation: no catch, no finally *)
Crash(w) ==
  /\ Executing(w)
  /\ Spend(IF pc[w] = "load" \/ Computing(w) THEN "crash" ELSE "late")
  /\ queue' = IF live[w] THEN Retry(queue, job[w], TRUE) ELSE queue
  /\ Leave(w)
  /\ UNCHANGED <<op, lock, endEvents, completed, cancelled>>

-----------------------------------------------------------------------------
(* executeStep up to the save *)

(* Defects: the check of layer 2 forgotten, or off by one *)
NeverCompleted(w) == FALSE
CompletedOffByOne(w) == op.stepCount > job[w].step + 1

(* Layer 2: a retry of a step whose result is saved does nothing *)
StepAlreadyCompleted(w) == op.stepCount > job[w].step

LoadSkip(w) ==
  /\ pc[w] = "load"
  /\ StepAlreadyCompleted(w)
  /\ Goto(w, "release200")
  /\ UNCHANGED <<op, lock, queue, job, live, mem, prev, ctx, resume, spent,
                 endEvents, completed, cancelled>>

(* A terminal operation only gets its completion hooks dispatched again *)
LoadTerminal(w) ==
  /\ pc[w] = "load"
  /\ ~StepAlreadyCompleted(w)
  /\ op.status \in Terminal
  /\ mem' = [mem EXCEPT ![w] = op]
  /\ Goto(w, "next")
  /\ UNCHANGED <<op, lock, queue, job, live, prev, ctx, resume, spent,
                 endEvents, completed, cancelled>>

(* A defect: the early exit of a terminal operation forgotten *)
LoadProceedAnyway(w) ==
  /\ pc[w] = "load"
  /\ ~StepAlreadyCompleted(w)
  /\ mem' = [mem EXCEPT ![w] = op]
  /\ Goto(w, "run")
  /\ UNCHANGED <<op, lock, queue, job, live, prev, ctx, resume, spent,
                 endEvents, completed, cancelled>>

LoadProceed(w) ==
  /\ pc[w] = "load"
  /\ ~StepAlreadyCompleted(w)
  /\ op.status \notin Terminal
  /\ mem' = [mem EXCEPT ![w] = op]
  /\ Goto(w, "run")
  /\ UNCHANGED <<op, lock, queue, job, live, prev, ctx, resume, spent,
                 endEvents, completed, cancelled>>

(* A defect: a finish takes back a step that was not counted *)
StepResultUncounted(s, i) ==
  {[state |-> [s EXCEPT !.status = "done", !.stepCount = @ - 1], next |-> FALSE]}

(* What AgentRuntime.step makes of state s at step i: a finish instruction
   undoes the increment; every other result keeps it.  A result is the new
   state and whether there is a nextContext. *)
StepResult(s, i) ==
  LET Result(status, count, next) ==
        [state |-> [s EXCEPT !.status = status, !.stepCount = count],
         next |-> next]
  IN  {Result("done", s.stepCount, FALSE)} \cup
      (IF s.stepCount < MaxStep /\ i < MaxStep
       THEN {Result(status, s.stepCount + 1, FALSE) :
               status \in StreamEnd \cup {s.status}} \cup
            {Result(s.status, s.stepCount + 1, s.status \in Active)}
       ELSE {})

RunStep(w) ==
  /\ pc[w] = "run"
  /\ \E r \in StepResult(mem[w], job[w].step) :
       /\ mem' = [mem EXCEPT ![w] = r.state]
       /\ ctx' = [ctx EXCEPT ![w] = r.next]
  /\ Goto(w, "recheck")
  /\ UNCHANGED <<op, lock, queue, job, live, prev, resume, spent,
                 endEvents, completed, cancelled>>

(* An interrupt saved while the step was computing wins over its result *)
Recheck(w) ==
  /\ pc[w] = "recheck"
  /\ mem' = [mem EXCEPT ![w].status =
                IF op.status = "interrupted" THEN "interrupted" ELSE @]
  /\ Goto(w, "prev")
  /\ resume' = [resume EXCEPT ![w] = "stepEvent"]
  /\ UNCHANGED <<op, lock, queue, job, live, prev, ctx, spent,
                 endEvents, completed, cancelled>>

-----------------------------------------------------------------------------
(* AgentRuntimeCoordinator.saveStepResult and saveAgentState *)

SaveLoadPrevious(a) ==
  /\ pc[a] = "prev"
  /\ prev' = [prev EXCEPT ![a] = op.status]
  /\ Goto(a, "write")
  /\ UNCHANGED <<op, lock, queue, job, live, mem, ctx, resume, spent,
                 endEvents, completed, cancelled>>

(* Defects: the previous status ignored, and a pause not ending the stream *)
EnteredAgain(a) == mem[a].status \in StreamEnd
EnteredTerminal(a) == mem[a].status \in Terminal /\ prev[a] \notin Terminal

HasEnteredStreamEndState(a) ==
  mem[a].status \in StreamEnd /\ prev[a] \notin StreamEnd

SaveWrite(a) ==
  /\ pc[a] = "write"
  /\ op' = mem[a]
  /\ Goto(a, IF HasEnteredStreamEndState(a) THEN "end" ELSE resume[a])
  /\ UNCHANGED <<lock, queue, job, live, mem, prev, ctx, resume, spent,
                 endEvents, completed, cancelled>>

PublishAgentRuntimeEnd(a) ==
  /\ pc[a] = "end"
  /\ endEvents' = endEvents + 1
  /\ Goto(a, resume[a])
  /\ UNCHANGED <<op, lock, queue, job, live, mem, prev, ctx, resume, spent,
                 completed, cancelled>>

-----------------------------------------------------------------------------
(* executeStep after the save *)

(* step_complete and the afterStep hooks, whose tracking data is persisted by
   a second save of the same in-memory state *)
PublishStepComplete(w) ==
  /\ pc[w] = "stepEvent"
  /\ resume' = [resume EXCEPT ![w] = "next"]
  /\ Goto(w, IF AfterStepHooks THEN "prev" ELSE "next")
  /\ UNCHANGED <<op, lock, queue, job, live, mem, prev, ctx, spent,
                 endEvents, completed, cancelled>>

ShouldContinueExecution(w) == mem[w].status \in Active /\ ctx[w]

NextMessage(w) == FirstDelivery(job[w].step + 1)

ScheduleNext(w) ==
  /\ pc[w] = "next"
  /\ ShouldContinueExecution(w)
  /\ queue' = Put(NextMessage(w))
  /\ Goto(w, "release200")
  /\ UNCHANGED <<op, lock, job, live, mem, prev, ctx, resume, spent,
                 endEvents, completed, cancelled>>

(* A defect: a paused operation reported as done *)
ReasonWithoutPause(s) == IF s.status \in Terminal THEN s.status ELSE "done"

DetermineCompletionReason(s) ==
  IF s.status \in StreamEnd THEN s.status ELSE "done"

(* hookDispatcher.dispatch in queue mode sends the webhooks of the state; for a
   state without _hooks it looks in the memory of its own process, which holds
   the operation's hooks only if that process also created the operation. *)
DispatchCompletionHooks(w, reason) ==
  completed' \in IF mem[w].hooks THEN {reason} ELSE {completed, reason}

DispatchCompletion(w) ==
  /\ pc[w] = "next"
  /\ ~ShouldContinueExecution(w)
  /\ DispatchCompletionHooks(w, DetermineCompletionReason(mem[w]))
  /\ Goto(w, "release200")
  /\ UNCHANGED <<op, lock, queue, job, live, mem, prev, ctx, resume, spent,
                 endEvents, cancelled>>

-----------------------------------------------------------------------------
(* executeStep's catch block *)

(* A write or publish that rejects may have taken effect all the same. *)
Rejected(effect) == IF PublishReplyLost THEN {queue, effect} ELSE {queue}

Throw(a) ==
  /\ \/ pc[a] \in {"load", "run", "recheck", "prev", "write", "end",
                    "stepEvent", "enqueue"}
     \/ pc[a] = "next" /\ ShouldContinueExecution(a)
  /\ Spend(IF resume[a] = "fail" THEN "catch" ELSE "throw")
  /\ op' \in IF pc[a] = "write" THEN {op, mem[a]} ELSE {op}
  /\ endEvents' \in IF pc[a] = "end" THEN {endEvents, endEvents + 1}
                                     ELSE {endEvents}
  /\ queue' \in
       CASE pc[a] = "next" -> Rejected(Put(NextMessage(a)))
         [] pc[a] = "enqueue" -> Rejected(Put(FirstDelivery(mem[a].stepCount)))
         [] OTHER -> {queue}
  /\ Goto(a, IF a \notin Workers THEN "off"
             ELSE IF resume[a] = "fail" THEN "fail" ELSE "catch")
  /\ UNCHANGED <<lock, job, live, mem, prev, ctx, resume, completed, cancelled>>

SaveErrorState(w, s) ==
  /\ mem' = [mem EXCEPT ![w] = s]
  /\ resume' = [resume EXCEPT ![w] = "fail"]
  /\ Goto(w, "prev")
  /\ UNCHANGED <<op, lock, queue, job, live, prev, ctx,
                 endEvents, completed, cancelled>>

(* A defect: the error is rethrown without being saved and reported *)
CatchRethrow(w) ==
  /\ pc[w] = "catch"
  /\ Goto(w, "release500")
  /\ UNCHANGED <<op, lock, queue, job, live, mem, prev, ctx, resume, spent,
                 endEvents, completed, cancelled>>

CatchLoad(w) ==
  /\ pc[w] = "catch"
  /\ SaveErrorState(w, [op EXCEPT !.status = "error"])
  /\ UNCHANGED spent

(* The load fails as well: a minimal error state built from the step index,
   whose metadata has no _hooks *)
CatchFallback(w) ==
  /\ pc[w] = "catch"
  /\ Spend("catch")
  /\ SaveErrorState(w, [status |-> "error", stepCount |-> job[w].step,
                        hooks |-> FALSE])

DispatchError(w) ==
  /\ pc[w] = "fail"
  /\ DispatchCompletionHooks(w, "error")
  /\ Goto(w, "release500")
  /\ UNCHANGED <<op, lock, queue, job, live, mem, prev, ctx, resume, spent,
                 endEvents, cancelled>>

-----------------------------------------------------------------------------
(* interruptOperation and startExecution *)

BeginSave(a, s, continue) ==
  /\ mem' = [mem EXCEPT ![a] = s]
  /\ resume' = [resume EXCEPT ![a] = continue]
  /\ Goto(a, "prev")
  /\ UNCHANGED <<op, lock, queue, job, live, prev, ctx,
                 endEvents, completed, cancelled>>

InterruptOperation ==
  /\ pc[Canceller] = "off"
  /\ op.status \notin Terminal
  /\ Spend("interrupt")
  /\ BeginSave(Canceller, [op EXCEPT !.status = "interrupted"], "ack")

ReturnInterrupted ==
  /\ pc[Canceller] = "ack"
  /\ cancelled' = TRUE
  /\ Goto(Canceller, "off")
  /\ UNCHANGED <<op, lock, queue, job, live, mem, prev, ctx, resume, spent,
                 endEvents, completed>>

StartExecution ==
  /\ pc[Starter] = "off"
  /\ op.status \notin {"running", "done", "error"}
  /\ Spend("start")
  /\ BeginSave(Starter, [op EXCEPT !.status = "running"], "enqueue")

ScheduleStart ==
  /\ pc[Starter] = "enqueue"
  /\ queue' = Put(FirstDelivery(mem[Starter].stepCount))
  /\ Goto(Starter, "off")
  /\ UNCHANGED <<op, lock, job, live, mem, prev, ctx, resume, spent,
                 endEvents, completed, cancelled>>

-----------------------------------------------------------------------------
Save(a) == SaveLoadPrevious(a) \/ SaveWrite(a) \/ PublishAgentRuntimeEnd(a)

(* The steps a worker takes when nothing goes wrong *)
Handle(w) ==
  \/ \E m \in Message : Claim(w, m)
  \/ LoadSkip(w) \/ LoadTerminal(w) \/ LoadProceed(w)
  \/ RunStep(w) \/ Recheck(w) \/ Save(w) \/ PublishStepComplete(w)
  \/ ScheduleNext(w) \/ DispatchCompletion(w)
  \/ CatchLoad(w) \/ DispatchError(w)
  \/ ReleaseStepLock(w)

Cancel == InterruptOperation \/ ReturnInterrupted \/ Save(Canceller)

Start == StartExecution \/ ScheduleStart \/ Save(Starter)

Next ==
  \/ \E w \in Workers : Handle(w)
  \/ Cancel
  \/ Start
  \/ \E m \in Message : Locked(m) \/ RetryAfter(m)
  \/ \E s \in Steps : LockExpire(s)
  \/ \E w \in Workers : DeliveryTimeout(w) \/ Crash(w) \/ CatchFallback(w)
  \/ \E a \in Actors : Throw(a)

Spec == Init /\ [][Next]_vars

(* A running invocation goes on, QStash delivers and backs off, Redis expires
   keys; failures and clients' calls need not happen. *)
Fairness ==
  /\ \A w \in Workers : WF_vars(Handle(w))
  /\ WF_vars(\E m \in Message : RetryAfter(m))
  /\ WF_vars(\E s \in Steps : LockExpire(s))
  /\ WF_vars(ReturnInterrupted \/ Save(Canceller))
  /\ WF_vars(ScheduleStart \/ Save(Starter))

FairSpec == Spec /\ Fairness

-----------------------------------------------------------------------------
(* Properties *)

TypeOK ==
  /\ op \in State
  /\ lock \subseteq Steps
  /\ queue \in [Message -> Nat]
  /\ pc \in [Actors -> Label]
  /\ job \in [Workers -> Message]
  /\ live \in [Workers -> BOOLEAN]
  /\ mem \in [Actors -> State]
  /\ prev \in [Actors -> Status]
  /\ ctx \in [Workers -> BOOLEAN]
  /\ resume \in [Actors -> Label]
  /\ spent \in Budget
  /\ endEvents \in Nat
  /\ completed \in StreamEnd \cup {"none"}
  /\ cancelled \in BOOLEAN

(* The lock has kept what it is for: no claim was granted by a Redis error and no
   step has outlived its key. *)
Covered == spent.open = 0 /\ spent.overrun = 0

(* The first step was scheduled by createOperation or by one startExecution. *)
OneChain == spent.start + (IF AutoStart THEN 1 ELSE 0) <= 1

(* Nobody but QStash has repeated, stopped or started anything, and no call was
   rejected. *)
Undisturbed ==
  Covered /\ spent.throw = 0 /\ spent.catch = 0 /\ spent.interrupt = 0 /\ spent.start = 0

(* The retries make up for what has happened: Redis answered in the catch block,
   and who was killed had not saved. *)
Mendable ==
  /\ Covered /\ AutoStart /\ spent.start = 0
  /\ spent.catch = 0 /\ spent.late = 0
  /\ 2 * spent.crash <= Retries

(* The step lock: invocations execute the same step at once only if its key was
   not set by a claim or has expired, one for each time that this happened. *)
OneExecutorPerStep ==
  \A s \in Steps : Cardinality(Executors(s)) <= 1 + spent.open + spent.overrun

(* The two layers together: while a step computes, no result of that step or
   of a later one has been saved, so no LLM or tool call is made twice for a
   step whose result exists, and no save throws a newer result away. *)
SavedStepNotRerun ==
  Covered /\ OneChain => \A w \in Workers : Computing(w) => op.stepCount <= job[w].step

(* A step is only computed from a state that is neither terminal nor paused
   for a human: no late or repeated delivery wakes a paused operation up. *)
RunsOnlyActiveState ==
  Covered /\ OneChain => \A w \in Workers : pc[w] = "run" => mem[w].status \in Active

(* The stream of an operation carries one agent_runtime_end, and one more at most
   for every interrupt and every rejected call: a coordinator save reads the
   status that it compares with before it writes. *)
EndEventAtMostOnce ==
  Covered /\ OneChain => endEvents <= 1 + spent.interrupt + spent.throw

(* Once consumers were told that the operation is over no step is computed. *)
NoStepAfterCompletion ==
  Undisturbed /\ completed # "none" => \A w \in Workers : ~Computing(w)

Quiescent ==
  /\ \A a \in Actors : pc[a] = "off"
  /\ \A m \in Message : queue[m] = 0

(* When nothing is left to deliver or to run, the consumers of an operation
   that was scheduled have been told that it is over: no message was consumed
   without scheduling the next step or dispatching the completion hooks. *)
QuiescentMeansCompleted == Mendable /\ Quiescent => completed # "none"

(* ... with the reason that its state in Redis gives: what the webhook said
   last and what a later reader of the state finds agree. *)
CompletionMatchesState ==
  Mendable /\ Undisturbed /\ Quiescent =>
    completed = IF op.status \in StreamEnd THEN op.status ELSE "done"

(* Then an operation that ended or paused has told its event stream so, too,
   whoever saved the end beside whom: a client that waits for agent_runtime_end
   does not wait for ever, unless the publish or the write before it was
   rejected, or a kill came between them. *)
QuiescentMeansEnded ==
  Quiescent /\ op.status \in StreamEnd
    /\ spent.throw = 0 /\ spent.catch = 0 /\ spent.late = 0 => endEvents >= 1

(* interruptOperation returned true: no later step begins to compute. *)
InterruptStopsOperation ==
  [][cancelled => \A w \in Workers : ~(pc[w] = "load" /\ pc'[w] = "run")]_vars

(* agent_runtime_end is sent after all step events: a consumer that stops
   reading there has missed none of them. *)
EndEventIsLast ==
  [][endEvents > 0 => \A w \in Workers : ~PublishStepComplete(w)]_vars

(* A scheduled step leads to the completion hooks: redeliveries, the backoff
   of a 429 and the expiry of a dead worker's lock always let some invocation
   finish the operation. *)
EventuallyCompletes ==
  (\E m \in Message : queue[m] > 0) ~> completed # "none"

(* Why they hold.  The worker has loaded a live operation and not yet given up its step *)
InStep(w) ==
  \/ pc[w] \in {"run", "recheck", "stepEvent"}
  \/ pc[w] \in {"prev", "write", "end"} /\ resume[w] \in {"stepEvent", "next"}
  \/ pc[w] = "next" /\ ShouldContinueExecution(w)

(* The saved steps: F is the last step ever scheduled and G the highest
   stepCount ever saved.  Only step F computes, and only as long as G = F;
   a state that is not terminal is never an older one than G. *)
Frontier(F, G) ==
  /\ F <= G /\ G <= F + 1
  /\ \A m \in Message : queue[m] > 0 => m.step <= F
  /\ op.stepCount <= G
  /\ op.status \notin Terminal => op.stepCount = G
  /\ op.status = "waiting_for_human" => G = F + 1
  /\ \A w \in Workers :
       /\ job[w].step <= F
       /\ InStep(w) => job[w].step = F
       /\ Computing(w) => G = F
       /\ pc[w] = "run" => mem[w].stepCount = F /\ mem[w].status \in Active
       /\ InStep(w) /\ pc[w] # "run" =>
            /\ mem[w].stepCount <= F + 1
            /\ mem[w].status \notin Terminal => mem[w].stepCount = F + 1
       /\ InStep(w) /\ ~Computing(w) =>
            /\ mem[w].stepCount <= G
            /\ op.status = "waiting_for_human" => mem[w].status \notin Active
       /\ pc[w] \in {"prev", "write", "end"} =>
            /\ resume[w] \in {"stepEvent", "next", "fail"}
            /\ resume[w] = "fail" =>
                 mem[w].status = "error" /\ mem[w].stepCount <= G
       /\ pc[w] \notin {"enqueue", "ack"}
  /\ pc[Canceller] \in {"off", "prev", "write", "end", "ack"}
  /\ pc[Canceller] \in {"prev", "write", "end"} =>
       /\ resume[Canceller] = "ack"
       /\ mem[Canceller].status = "interrupted"
       /\ mem[Canceller].stepCount <= G
  /\ pc[Starter] = "off"

FrontierExists ==
  Covered /\ OneChain /\ pc[Starter] = "off"
    => \E F, G \in 0..(MaxStep + 1) : Frontier(F, G)

(* What an operation promises to its clients, whatever the queue does *)
Operation == INSTANCE AgentOperation WITH
  status <- op.status, stepCount <- op.stepCount, told <- completed

(* Every step of the handlers is a step of the operation's life cycle. *)
ImplementsOperation == Operation!Spec
=============================================================================
