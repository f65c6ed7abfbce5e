# Verification of the agent runtime, its devices and its tasks

TLA+ modules for the parts of this repository where the order of things decides:
the execution of an agent on the server (the step loop of `AgentRuntimeService`,
its state in Redis, the queue that drives it), the browser's end of the event
stream that tells a user what happens, the user's approval of tool calls, the
gateway through which a tool runs on the user's desktop, and the tasks that run
agents for a user who is away. TLC
checks small instances, TLAPS proves every safety property that the
passing runs check for every instance.

| file | what it is |
| --- | --- |
| `AgentOperation.tla` | what an operation promises: a life cycle without queue, lock or retry |
| `StepExecution.tla` | one operation executed step by step through the queue, with its faults |
| `MCStepExecution.tla` | the instance for TLC |
| `StepExecutionProofs.tla` | types, the exclusion given by the step lock, the freshness given by lock and `stepCount` together; the refinement of `AgentOperation`; one end, which is told; no operation is forgotten |
| `AgentStreamClient.tla` | the browser's WebSocket client with reconnect and replay, and its listeners |
| `AgentStreamClientProofs.tla` | it never hangs, is quiet after disconnect, and handles every event once and in order |
| `ToolApproval.tla`, `ToolApprovalProofs.tla` | a batch of tool calls that waits for the user's decisions; no resumption is lost, and the model knows every result |
| `RemoteCall.tla` | what a call of a tool on another machine promises its caller |
| `DeviceLink.tla` | desktop clients, their connections, the device gateway and the tool calls through it |
| `DeviceAlarm.tla` | the gateway's one alarm, the heartbeats and the timeouts of both ends |
| `MCDeviceLink.tla`, `MCDeviceAlarm.tla` | the instances for TLC |
| `DeviceLinkProofs.tla`, `DeviceCallProofs.tla` | one open socket, a connected client is served; the refinement of `RemoteCall` |
| `DeviceAlarmProofs.tla` | the time bounds |
| `TaskRun.tla` | the runs of a task, their cancellation, their completion and the heartbeat tests |
| `TaskUnlock.tla` | dependencies between tasks, and what completing one starts |
| `MCTaskRun.tla`, `MCTaskUnlock.tla` | the instances for TLC |
| `TaskRunProofs.tla`, `TaskUnlockProofs.tla` | canceled topics have stopped, no topic stays running; no unlock is lost |
| `*.cfg` | the runs, see below |

`PROJECT.json` maps every definition to the lines it models.

## 1. The system

LobeChat is a chat front end (Next.js, zustand stores) with a server that can
run agents without the browser. The server part is where the concurrency is:

* **Agent runtime service** (`src/server/services/agentRuntime`). State: none of
  its own; everything about an operation is in Redis. Operations:
  `createOperation`, `executeStep`, `startExecution`, `interruptOperation`,
  `processHumanIntervention`. One HTTP request (`POST /api/agent/run`) executes
  one step; the service schedules the next one as a queue message.
* **Coordinator and state manager** (`src/server/modules/AgentRuntime`). State:
  the state record (`status`, `stepCount`, messages, `metadata`), the operation's
  metadata, the step history, and one lock key per step, all with a TTL.
  Operations: `loadAgentState`, `saveAgentState`, `saveStepResult`,
  `tryClaimStep`, `releaseStepLock`. The coordinator adds the end event when a
  save makes the operation enter a status that ends its stream.
* **Queue** (`src/server/services/queue`). QStash in production (at-least-once,
  `retries` per message, `Retry-After`), timers in development.
* **Event stream** (`StreamEventManager`, `GatewayStreamNotifier`,
  `packages/agent-gateway-client`): a Redis stream per operation, pushed to an
  external WebSocket gateway; the browser resumes from the last event it saw.
* **Hooks** (`services/agentRuntime/hooks`): `beforeStep`, `afterStep`,
  `onComplete`, `onError`, as functions in memory (local mode) or webhooks
  persisted in `metadata._hooks` (queue mode). Bots, tasks and evaluations learn
  through `onComplete` that an operation is over.
* **Runtime core** (`packages/agent-runtime`): `AgentRuntime.step` asks the
  planner for instructions and runs their executors (LLM call, tool calls,
  human approval, finish).
* **Executors** (`RuntimeExecutors.ts`): LLM and tool calls, the latter on the
  server or, through the gateway, in the user's desktop client
  (`dispatchClientTool`, `ToolResultWaiter`).
* **Human intervention** (`conversationControl.ts`, `aiAgent`, `AgentRuntimeService`).
  State: `intervention.status` and the content of each tool message in the database,
  `pendingToolsCalling` in the record of the paused operation. Operations:
  `approveToolCalling` and its companions in the browser, `execAgent` with
  `resumeApproval`, `processHumanIntervention` and `handleHumanIntervention`.
* **Device gateway** (`apps/device-gateway`, `packages/device-gateway-client`,
  `GatewayConnectionService` of the desktop application). One durable object per
  user. State: its WebSockets with an attachment each (device, authenticated,
  last heartbeat), one storage alarm, and `pendingRequests` in memory. Operations:
  upgrade, `webSocketMessage`, `alarm`, `handleToolCall`. The client keeps one
  WebSocket, a heartbeat timer and a reconnect timer.
* **Tasks** (`routers/lambda/task.ts`, `models/task.ts`, `models/taskTopic.ts`,
  `services/taskLifecycle`). State: the task row (status, heartbeat), one
  `task_topics` row per run (status, operation), `task_dependencies`. Operations:
  `run`, `cancelTopic`, `deleteTopic`, `updateStatus`, `detail`, `heartbeat`,
  `watchdog`, and `onTopicComplete`, which the hooks of an operation call.
* Around them: bots, memory workflows, the database, model providers, files, desktop and CLI applications, the user
  interface. `PROJECT.json` lists them with the reason each is or is not modelled.

Who calls whom: the queue calls the run route; the route calls `executeStep`;
`executeStep` calls the coordinator (Redis), the runtime core, the hook
dispatcher and the queue. Clients call `interruptOperation` and
`startExecution` at any time, from other processes. Redis is the only shared
memory, and no two Redis calls are atomic together. A task's `run` creates an
operation and leaves; the operation comes back through its `onComplete` hook.
Requests about a task share the database and nothing locks a task. A tool call
goes from the server by HTTP to the durable object of the user and from there
down the socket of a device, and the response comes back the same way, if it
still exists.

What is hard here: a delivery is repeated whenever its answer is late, lost, 429
or 500; the lock of a step expires after 35 s whatever its owner does; a save is
a read followed by a write of the whole record; a process may be killed between
any two calls; a call that rejects may have taken effect. The two ends of a
device's connection learn of its end on their own, and each has a timer of its own; a
socket that the gateway closes is listed until its client answers, and whatever is sent
on it throws.
Two decisions about one batch are handled by two requests that see each other only in
the database. The requests about a task read, decide and write in separate queries while hooks
and other requests do the same. The complete list, each
at its line, is `hazards` in `PROJECT.json`.

What makes each part correct:

* steps: a step is executed by one invocation at a time, a saved step is not
  executed again, a paused or ended operation is not woken up by a delivery, an
  operation that was scheduled ends or pauses and its consumers learn it;
* state: the status, what the stream says and what the hooks say agree in the end;
* queue: no message is consumed without its effect;
* interrupts: an acknowledged interrupt stops the operation at a step boundary;
* stream client: every event is handled once and in order, the client always has
  one way forward, completion is reported when the operation is over and then only;
* approvals: once the user has decided the last tool of a batch the agent goes on, with
  the results of what was approved;
* devices: a device has one socket at the gateway, a client that works is not given
  up and a dead one is, a tool call runs at most once, and its caller always gets an
  answer that is true;
* tasks: what a user cancels stops, a topic does not stay `running`, and a task whose
  blockers are completed is started.

## 2. The modules

### StepExecution

One operation. An actor is an invocation of the run route (`Workers`), a caller of
`interruptOperation` (`Canceller`) or of `startExecution` (`Starter`). `pc[a]`
says where the actor is in its handler, and an action is one call to Redis or to
the queue with the computation that follows it:

| label | the call that comes next | action |
| --- | --- | --- |
| `off` | `tryClaimStep` of a delivered message | `Claim`, or `Locked` (429) |
| `load` | `loadAgentState`, the two early exits | `LoadSkip`, `LoadTerminal`, `LoadProceed` |
| `run` | `runtime.step` | `RunStep` |
| `recheck` | the second `loadAgentState` | `Recheck` |
| `prev`, `write`, `end` | a coordinator save: read, write, end event | `SaveLoadPrevious`, `SaveWrite`, `PublishAgentRuntimeEnd` |
| `stepEvent` | `step_complete`, `afterStep`, tracking save | `PublishStepComplete` |
| `next` | schedule the next step, or the completion hooks | `ScheduleNext`, `DispatchCompletion` |
| `catch`, `fail` | the catch block of `executeStep` | `CatchLoad`, `CatchFallback`, `DispatchError` |
| `release200`, `release500` | `finally`, then the route's answer | `ReleaseStepLock` |
| `ack`, `enqueue` | the rest of the two client calls | `ReturnInterrupted`, `ScheduleStart` |

A coordinator save is used at six places of the code; `resume[a]` says which one
and `mem[a]` is the record it writes. Any call may reject (`Throw`; a write may
have taken effect, a publish too if `PublishReplyLost`); the platform may kill an
invocation (`Crash`); QStash may give up waiting for an answer and deliver again
while the invocation goes on (`DeliveryTimeout`). Messages are a bag (`queue`
counts copies), so they are reordered freely.

The data is reduced to what the properties tell apart: a state is its status, its
`stepCount` and whether `metadata._hooks` holds the completion webhook. What an
agent does in a step is `StepResult`, the set of results `AgentRuntime.step` can
return: the same status with a next context, any ending or pausing status, or a
finish, which takes the increment of `stepCount` back.

Everything that can go wrong is an action of the model, and `spent` counts how often
each has happened, up to a bound of its own (`Budget`) and one for all of them
(`MaxFaults`): kills before the save (`crash`) and behind it (`late`), calls that reject
(`throw`), those of the catch block (`catch`), claims that a Redis error grants (`open`),
locks that their step outlives (`overrun`), interrupts and starts. The bounds are for
TLC; no theorem assumes one of them to be 0. A property that does not survive some of these
names them, so that its scope can be read in it and the rest is not excluded:

| condition | says of the behaviour so far |
| --- | --- |
| `Covered` | no claim was granted by a Redis error, no step has outlived its lock |
| `OneChain` | the first step was scheduled once, by `createOperation` or by `startExecution` |
| `Undisturbed` | `Covered`, no call was rejected, nobody has interrupted or started |
| `Mendable` | `Covered`, scheduled by `createOperation`; Redis has answered in the catch block, no kill came behind a save, and the kills have cost no message more retries than it has |

`PublishReplyLost`, `AutoStart` and `AfterStepHooks` are facts about the deployment and
the operation.

Abstractions. `costLimit` is never set by `createOperation`, so its branch of
`shouldContinueExecution` is left out, and the reasons `max_steps` and
`cost_limit` count as `done`. `initialStepCount` is 0. The TTL of the state record
does not run out. `completed` is the reason of the last webhook handed to the
dispatcher; whether the receiver answers is not modelled. Snapshots and tracing
are left out: their failures are caught where they happen.

`AgentOperation` is the same operation for somebody who cannot see the queue:
steps advance it, it finishes, and once the hooks have reported it nothing
changes it any more. `ImplementsOperation` is the refinement.

### AgentStreamClient

One `AgentStreamClient` (`packages/agent-gateway-client/src/client.ts`) with the
listeners of `connectToGateway` (`gateway.ts` of the chat store), for one
operation. An action is one callback: `HandleOpen`, `HandleClose`, one action for
each message type of `handleMessage` (three for `agent_event`: live, buffered,
terminal and buffered), and the timers `DoConnect`, `HeartbeatTimeout`,
`ResumeFlush`, `ResumeTimeout`. JavaScript runs a callback to its end, which makes
this atomicity exact. `flushTimer` says what the timer in `resumeFlushTimer` will
do; `staleTimers` counts the safety timeouts whose handle a second resume has
overwritten, which nothing can clear any more.

The gateway is an external service (`Arrive`, `GatewayAuth`, `GatewayReplay`,
`GatewaySessionComplete`, marked external in the map). What the client relies on:
events are numbered in the order of their arrival, a connection delivers in order,
and the answer to `resume` is what is stored after `lastEventId`. Two facts about
it are not in this repository: whether it sends live events to a connection that awaits
its replay (`LiveBeforeReplay`, `TRUE` in both runs; no theorem assumes it), and, after a
reload, whether it still has the events of a finished operation (`kept`). `overtaken`
remembers that a live event went ahead of a replay, and `EndSkipped` that the client has
asked for what follows the end without having had it. `Drop`
loses a connection with everything under way, before or after the client notices.

Abstractions. An event is its number, and all have an id; `EndEvent` is the
terminal one. The reconnect delays are left out, as is an invalid gateway URL
(`doConnect`'s catch block) and `autoReconnect = false`, which the web application
never uses. `intentionalDisconnect` and `sessionEnded` are left out because whoever
sets one calls `disconnect`, which detaches every handler that reads it. The resume
timers are long against a gateway that answers (`Owed`); once the connection is
lost, or the timer belongs to an earlier one, nothing is assumed of them.

`AgentStreamClient` starts from the events the gateway has; that the server's
pushes reach it is the part of `GatewayStreamNotifier`, which is planned. The two
modules meet at the end of the stream: `EndEventIsLast` of `StepExecution` does not
hold, so that the server's stream goes on after the event at which a client stops,
and `LastEvent` may be greater than `EndEvent`.

### ToolApproval

An operation has paused with one pending tool message for each call of a batch
(`Init` is the state `request_human_approve` leaves). There are two ways to send a
decision:

* through the *gateway*: `Click` is the browser's own write of the status, `WriteContent`
  the content of a rejection (written by the browser and again by `execAgent`),
  `PersistPlugin` the write of `execAgent`, `LoadHistory` its query, `CreateOperation`
  an operation of the decision's own, `PostFails` any of these calls. The steps of that
  operation are `RunTool`, `RequestHumanApprove`, `CallLLM`, `Finish`, `StepFails`;
* *in place*, with `processHumanIntervention`: `Send` puts a message for the paused
  operation into the queue. The decision is inside the `payload` of that message
  (`AgentRuntimeService.ts:1407-1421`); QStash gets it nested (`qstash.ts:40-47`), the run
  route looks for it beside the payload (`run/route.ts:28-37`), and the local queue drops
  it (`local.ts:40`). So `executeStep` has no decision, the condition of line 536 is
  false, and `runtime.step` asks the model on behalf of an operation that waits
  (`StepWithoutDecision`), is skipped (`Skip`) or throws (`StepThrows`).
  `handleHumanIntervention` is reached by no message, and is not modelled.

`plugin` and `content` are the database, `undecided` and `known` what an operation
believes of it, from the history it was created with.
`answer` says whether the model has been asked since the last decision, with every
tool decided, and whether it then saw the result of every approved tool. `overlap` and
`lost` name what the properties excuse.

Abstractions. A step is atomic: `StepExecution` has the lock, the rejected calls and the
redeliveries. The second write of a status by `execAgent` is one with the check of the
tool message. A tool always produces a result, errors included; an executor that throws
is `StepFails`. What the model asks for once the batch is decided is another batch, and
so is what it makes of a step without a decision.

### DeviceLink and RemoteCall

All devices of one user: a `GatewayConnectionService` each with its `GatewayClient`s,
the durable object, and the HTTP requests of the tool calls. `connect()` of the service
looks at its status, disconnects the client it has and waits for a token (`SvcConnect`),
and makes and assigns the new client when the token has come (`SvcCreate`,
`SvcNoToken`): two that overlap make two clients of one device, of which the service
knows the second, while its status is the last one that either has reported (`Heard`). A connection
is two queues, `up` and `down`. `Attached(s)`: some client has its listeners on the
socket; what comes down a socket without listeners is lost. `listed` is
`ctx.getWebSockets()`, in which a socket stays after `close` until the platform ends
it. A handler that awaits something is two actions: `OnAuth` and
`AuthSucceeds`/`AuthFails` around the verification of the token, `HandleToolCall` and
`SendToolCallRequest` around the body of the request. `webSocketClose` has an empty
body, so that `WebSocketClose` is what the platform does.

`Cut` loses a connection with everything under way, and each end notices by itself
(`HandleClose`, `HeartbeatMissed`; `WebSocketError`, `AlarmCloses`). A client that is
not yet authenticated has no timer for it: only the operating system may tell it.
`GatewayRestart` ends the object's process with its sockets and pending requests.
Sockets are used again once nothing refers to them, so that the number of reconnects
has no bound but that of the faults.

`RemoteCall` is what the caller is entitled to expect: a tool runs at most once for a
call, an answer is the answer of a tool that ran, a refused call never runs, and of a
call that was given up nothing is promised. `DeviceLink` implements it with `offline`
and `unsent` as refusals, a timeout and a restart as giving up. That `TIMEOUT` may
not be taken for a refusal is the point: the tool may be running, or run later.

Abstractions. The reconnect delays are left out; a token is good or refused. A slow
answer, a refused token, a restart, a loss, and a user who disconnects or connects
while a connection is being made, or a second time while a token is on its way, count
against `MaxFaults`. `Timeout` may come at any time. `Clients` bounds the clients in use
at once; one that has disconnected is used again as another. That an alarm may throw is
in `DeviceAlarm` and not here, where nothing is promised of `AlarmCloses`.

### DeviceAlarm

The clocks of the same two ends. Time passes by `Tick`, and the state holds only
distances to now: how long a socket has been unauthenticated (`age`) or `silent`, how
long until the alarm (`due`), until the client's next beat and until a frame arrives.
`scheduleAuthTimeout` and `scheduleHeartbeatCheck` set the alarm only where none is
set, `Alarm` closes what is `Overdue` or `Stale` and sets itself again while sockets
remain. A socket is `well` while its login takes at most `LOGIN` and its frames at
most `DELAY`; `Degrade` ends that, and from then on frames take any time or are lost.

A socket that the gateway closes (`closing`) stays in `getWebSockets`, and its messages
are still handled, until its client answers or the platform sees the connection gone
(`Leave`); to send on it throws. An alarm that meets one that is unauthenticated and
overdue throws before it sets itself again (`AlarmThrows`): the sockets before it are
closed, those behind it are not, and the platform rings it again after `RETRY`, or has
done so often enough and drops it. `thrown` remembers that until an alarm completes.

Abstractions. The order of the list is open: `AlarmThrows` closes any of the open sockets
that are due. `webSocketMessage` on a closing socket throws where it answers, so that an
authentication then schedules nothing. Heartbeats in one direction are one frame at a
time, which `HealthyKept` needs for well sockets only and which is an invariant of
the proof there.

### TaskRun

One task with its topics and requests. An action is one query of a handler with the
computation that follows it; `req[r]` is where a request is and what it has read, and
an operation is named by the run that started it. `run` is `StartRun`, `CheckTopics`,
`CleanUp`, `SetRunning`, `ExecAgent`, then `AddTopic`, or `ContinueTopic` and
`UpdateOperationId`, then `RunBeats`, with `Rollback` and `PauseTask` for the catch
block; `cancelTopic` and `deleteTopic` are `StartCancel`, `StartDelete`, `Interrupt`,
`CancelRow`, `RemoveRow`; `updateStatus` is `StartSet`, the cascade of `ReadTopics`,
`CascadeInterrupt` or `CascadeSkips` and `CascadeCancel`, and `WriteStatus`; the
heartbeat test of `detail` is `StartDetail`, `WriteStatus`, `ClearRows`. The
operation and its hook are `End`, `HookBeats`, `HookClosesRow` or `HookIgnores`,
`HookSettlesTask`. An operation ends as done, with an error, interrupted, or for another
reason (a limit of steps or cost, a human to wait for), and may be interrupted by
`aiAgent.interruptTask` without any request about its task (`InterruptDirectly`). Any
query of a request may throw (`Fail`), and any of a hook, whose dispatcher swallows the
error (`HookFails`). An interrupt that throws may have been written before, since the
coordinator writes the state and then publishes (`InterruptThrows`, in `InterruptFails`
and `CascadeSkips`).

Two history variables name what the properties excuse. `overlap` has the topics on
which a continuation and a cancellation were in progress together; `left` has the rows
that nobody is going to close: the operation's hook was past its row before
the row was written, or failed, or knew no such end; the operation was interrupted
directly or by a call that then threw; or a request failed between its interrupt and its
write.

Abstractions. The status of the task is `running` or not, which is all these handlers
read of it. `incrementTopicCount`, `updateCurrentTopic` and the task's `error` are
left out, nobody here reads them. Reviews and briefs are the choice of
`HookSettlesTask` between leaving the task, completing it and pausing it. The hook
runs in the process of the operation, as in local mode: the webhook of the queue mode
has no route in this repository.

### TaskUnlock

Tasks, their `blocks` dependencies, and the requests that complete tasks:
`Complete` (one write, the answer of which the rest follows), `PauseParent`,
`FindDependents`, then for each dependent `CheckDependencies` and `CheckBacklog`,
`AllChecked`, and `Unlock` for each task that was found; `Fail` leaves a request where
it is. Everything else that writes a status or a dependency is `SetStatus`,
`AddDependency`, `RemoveDependency` and `Delete`, at any time and in any order;
`SetStatus` includes the completions by `onTopicComplete` and by an agent's tool.
`owed` has the tasks which a request's completion left with nothing to wait for; a
task leaves it when its status or its dependencies change. The dependents are looked
at in any order.

## 3. Runs

The runs of `StepExecution` use two workers; two are enough for every pair of
overlapping executions, and a third would only repeat a role because a lock has
one holder. `MaxStep` is the last step index an agent plans: 1 gives a step with a
successor and a final one, 2 adds a step in the middle. `Retries = 2` lets a message
be answered by a 429 and still be redelivered (QStash's default is 3); the largest
run, `step_faults`, has one retry. The system really stops (nothing is left to
deliver), so deadlock is not checked; `QuiescentMeansCompleted` and its companions
say what must be true then.

| run | faults and clients | shows |
| --- | --- | --- |
| `step_redelivery` | late answers, redeliveries, 429s; 3 steps | the stream ends once, and exactly if the operation ended; nothing computes after the hooks; their reason is the saved one; refinement of `AgentOperation` |
| `step_faults` | 2 rejections, the catch block's too, lost publish replies; 1 interrupt, 1 start | types, exclusion, no saved step is rerun, no paused state is run |
| `step_heals` | 1 kill before the save, 1 rejection, lost publish replies; fairness | a scheduled operation completes, when all is quiet the hooks have fired, and the inductive invariant `FrontierExists` |
| `client_session` | 3 lost connections, refused token, leaving user; with and without reload | types; events once and in order; completion finds the end handled; always one way forward; quiet after disconnect |
| `client_told` | 3 lost connections, live events before the replay; fairness | no event is handled twice after a reload; the client is told that the operation is over |
| `device_alarm` | 2 sockets, late alarms, connections that turn bad | the alarm is never lost; dead sockets go within a bound; working connections stay |
| `device_link` | 2 devices, 2 sockets, 1 call, 2 faults; fairness | one open socket per device; connected means served; refinement of `RemoteCall`; every client comes back; every call ends |
| `task_unlock` | 4 tasks, 2 requests, 3 changes, 1 failure; fairness | the last completion finds the task it unlocks, and starts it |
| `task_run` | 3 requests, 1 topic, 1 failure or late heartbeat | canceled means stopped; no topic stays running for ever |
| `tool_approval` | 2 tools, 3 decisions, both routes, 1 failure or kill; fairness | the last decision resumes the agent, informed of every result if decisions do not overlap; a paused operation waits for what is pending; the batch is answered |

`client_session` has five events, the fourth the end: replays of several events
before it, and one that comes after it, as the server sends it. Three lost
connections are enough to lose a reconnect, a replay and a later live connection
in one behaviour, and to have two safety timeouts pending.

`device_alarm` counts in units of ten seconds: `AUTH_TIMEOUT` 1,
`HEARTBEAT_INTERVAL` 3 and `LOGIN`, `DELAY`, `LATE` 1 are the code's 10 s and 30 s;
the 90 s of the check and of the timeout are scaled to 4 and 6 and
`MAX_MISSED_HEARTBEATS` to 2, which keeps every comparison between them as it is in
the code, and the proofs cover the code's own values. Two sockets are enough: the
alarm knows only whether some socket has set it.

`device_link` has both devices compete for the gateway while one call is made; two
sockets let one device replace its connection. One device with two calls, one device
with three sockets and three faults, and two devices with three sockets and one fault
have been checked as well (244 125, 533 691 and 87 703 states).

`task_unlock`: `c` waits for `a` and `b`, `parent` for `b`; `a` and `c` are children of
`parent`, which pauses after `a` and holds `c` back. Three changes allow both blockers
to be completed and something to be edited in between; four were checked for safety.
`task_run` has three requests on one topic, which the code's own sequences need (run,
cancel, continue); the same with two topics has 2 515 059 states and passes too.

`tool_approval`: two tools are the least that can wait for each other; the third
decision repeats one, corrects it, or replaces one that failed. Decisions are numbered
in the order they are sent, which only identifies states that differ in names.

Two runs show a disagreement between the code and what it says of itself
(`findings` in `PROJECT.json` quotes the lines):

| run | violated | because |
| --- | --- | --- |
| `step_crash_after_save` | `EventuallyCompletes` | killed after the save and before the schedule: redeliveries are skipped |
| `tool_decided_twice` | `ToolRunsOnce` | `execAgent` checks which message it is told to decide, not whether it is still pending |

The constants of the passing runs are where the properties hold. What TLC answers
one step further, for a reader who wants to try:

| change | violated | because |
| --- | --- | --- |
| `step_faults` with `LockCoversStep = FALSE` | `OneExecutorPerStep` | a step may wait 60 s for a client tool (`dispatchClientTool.ts:16`), its lock lasts 35 s (`AgentRuntimeService.ts:423`) |
| `step_faults` with `AutoStart = TRUE` | `RunsOnlyActiveState`, `SavedStepNotRerun` | `startExecution` looks for the status `running`, which an operation that runs does not have in Redis |
| `step_heals` with `MaxThrows = 2`, `CatchMayFail = TRUE` | `QuiescentMeansCompleted` | the fallback error state has no `_hooks` |
| `step_redelivery` with `MaxInterrupts = 1` | `EndEventAtMostOnce` | two savers read the previous status before either writes (`AgentRuntimeCoordinator.ts:102`) |
| the same | `InterruptStopsOperation` | the step's save overwrites an acknowledged interrupt, although the agent "will stop at the next step boundary" (`AgentRuntimeService.ts:201`) |
| `step_redelivery` with `MaxThrows = 1` | `NoStepAfterCompletion` | a late redelivery fails early and reports an operation that runs on |
| `step_redelivery` | `EndEventIsLast` | the end event is part of the save, `step_complete` follows it, although it "is sent after all step events" (`AgentRuntimeCoordinator.ts:134`) |
| `client_session` | `CompleteOnlyWhenOver` | the safety timeout survives the connection it was set for (`client.ts:228-230`) |
| `client_session` with `LiveBeforeReplay = TRUE` | `EmittedInOrder` | the resume buffer is deduplicated, not sorted |
| `client_told` with `LastEvent = 5` | `EventuallyTold` | a live `step_complete` before the replay moves `lastEventId` past the end |
| `task_run` | `RejectedRunChangesNothing` | the conflict is thrown inside the try whose catch pauses a running task (`task.ts:925`) |
| `task_unlock` | `OnlyBacklogUnlocked` | the test for the backlog and the write are two queries, although "only unlock if it's in backlog" (`models/task.ts:532`) |
| `tool_approval` | `NoUnresolvedBatch` | a `reject_continue` that leaves tools has no next context, for which the step makes an initial one: the model is asked with an unresolved batch, which `AgentRuntimeService.ts:1653-1657` means to avoid; on the gateway route `user_input` asks whatever is pending |
| `tool_approval`, `AnswersAreInformed` without `overlap` | the same | two approvals at once: the operation of the second has loaded its history before the first tool has its result |
| `tool_approval`, `WaitsForPending` without `killed` | the same | a step that dies after its write leaves a decided tool in `pendingToolsCalling`; the redelivery repairs it unless another decision has gone first |
| `device_alarm` | `AuthenticatedInTime` | "10s to authenticate" (`DeviceGatewayDO.ts:7`) holds where no later alarm is set; otherwise the deadline is noticed by the next check |

`ClaimFailsOpen` is `FALSE` in every run: with it two invocations execute one step,
which the code accepts ("Fail-open: on Redis error, allow execution to proceed"), and the proofs assume it away.

Fairness (`FairSpec`): a running invocation goes on, QStash delivers what is due
and honours `Retry-After`, Redis expires keys. No fairness for failures, kills,
late answers or client calls, which need not happen.

For the client: WebSocket callbacks and timers run, a connected gateway answers
`auth` and `resume`. No fairness for new events, for `session_complete`, for lost
connections or for the user. The bound on lost connections is the assumption that
a connection holds in the end. `EventuallyTold` is checked for a token that holds:
with a refused token the code means not to complete (`gateway.ts:135-137`).

For the device link: timers fire, what is on a connection arrives or both ends notice
that it does not, a token is verified in the end. No fairness for tools, users, calls
and faults. `Settles` therefore rests on the bound on faults, as it should: a network
that fails for ever connects nobody. For tasks: a request that has begun goes on, as
long as its server does. For approvals: a request that has begun and an operation that
was started go on, and the queue delivers a decision; no fairness for the user, so that
a batch may wait for ever, but not once it is decided.

## 4. Proofs

`StepExecutionProofs`

* `TypeCorrect`: `Spec => []TypeOK`.
* `StepLockExcludes`: if `LockCoversStep` and not `ClaimFailsOpen`, then
  `Spec => []OneExecutorPerStep`. Not inductive alone: the invariant is `LockHeld`,
  an executing worker's key exists, together with the exclusion itself, since the
  release of a worker deletes the key of its own step, which is nobody else's.

In its second part, under the same assumptions and with `MaxStarts = 0`

* `FrontierAlways`: `Spec => []FrontierExists`.
* `StepOnce`: `Spec => []SavedStepNotRerun`.
* `PausedStaysPaused`: `Spec => []RunsOnlyActiveState`.

None of them is inductive: that a computing worker's step is not yet saved
depends on every message in the queue, every other worker between its save and
its schedule, and the canceller's stale copy of the record. `Frontier(F, G)` says
it with two numbers: F is the last step ever scheduled, G the highest `stepCount`
ever saved. No message is beyond F, only step F is in execution past its load,
it computes only while G = F, and a record that is not terminal is never older
than G. The proof carries the two numbers existentially: a step of the system
either keeps them, moves G to F + 1 (the save), or F to G (the schedule).

The assumptions are needed: a step that outlives its lock takes away the first, a
fail-open claim the second, and a start of an operation that runs already the third.

In its third part under `OnlyRedelivered`: besides the assumptions above no call is
rejected and nobody interrupts, while invocations are late, are answered by a 429, are
redelivered and killed as before

* `CompletionIsFinal`: `Spec => []NoStepAfterCompletion`.
* `StepsImplementOperation`: `Spec => ImplementsOperation`.
* `EndSentOnce`: `Spec => []EndEventAtMostOnce`.
* `EndIsSent`: `Spec => []QuiescentMeansEnded`, if a kill finds a step that has not
  been saved (`KillsBeforeSave`).

The first two rest on `Life`: a worker that computes step `op.stepCount` is the only one
that will change the saved state, what it has in memory is that state or its successor,
and a worker that reports the end reports what is saved. A step of the system is then a
step of `AgentOperation` (a save is `Advance` or `Finish`, the hooks are `Report`) or
leaves its variables alone. The third adds `EndSent`: the previous status
that a save has read is still the saved one, so that only one save enters a state that
ends the stream; the last, that the end event of a saved end is sent or about to be
(`EndOnItsWay`). Each of the assumptions is needed. With the instance of
`step_redelivery` and one more fault TLC refutes

| with | refuted |
| --- | --- |
| `MaxInterrupts = 1` | `NoStepAfterCompletion`, `EndEventAtMostOnce`, `QuiescentMeansEnded`, `CompletionMatchesState` |
| `MaxThrows = 1` | the same four |
| `MaxStarts = 1`, or `LockCoversStep = FALSE` | the same four |
| `MaxCrashes = 1` after the save | `QuiescentMeansEnded`, `CompletionMatchesState`, `QuiescentMeansCompleted` |

The fourth part is about an operation that is scheduled (`AutoStart`) in a system
that mends itself. `Mendable` says: no step outlives its lock, a claim fails closed,
nobody starts an operation that runs, the catch block can save the error, a kill finds
a step that has not been saved, and QStash has two retries for every kill
(`2 * MaxCrashes <= Retries`). Then, whatever is late, refused or redelivered, whoever
interrupts and whichever calls are rejected,

* `NothingForgotten`: `Spec => []QuiescentMeansCompleted`,

and, if nobody interrupts and nothing is rejected,

* `CompletionIsTrue`: `Spec => []CompletionMatchesState`.

The invariant, `InHand`, says that until the hooks have fired either a worker is
committed (it has saved its step, or is in the catch block, where no kill hits it), or the
step F has not been saved and there is exactly one chain of deliveries of it: a message
that waits, a worker whose answer QStash awaits, or a worker whose answer was late
together with the retry it caused. The chain keeps a reserve of
`Retries - 2 * spent.crash` retries. A kill costs it two: one for the delivery that died,
one for the redelivery that meets the dead worker's lock and is answered by a 429; the
`Retry-After` of 37 s outlasts the 35 s of the lock, so that there is no third. A worker
whose answer was late has spent these two already. The bound is sharp: TLC finds
`QuiescentMeansCompleted` violated with one kill and one retry, and with two kills and three
retries. So the default of three (`qstash.ts:32`) is certain to survive one kill, and
the ten of the evaluation runs (`agentEvalRun/index.ts:38`) five; `step_heals` checks
an instance with one kill and two.

`AgentStreamClientProofs`, for every value of the constants

* `ClientNeverStuck`: `Spec => []OneWayForward`.
* `ClientQuietAfterDisconnect`: `Spec => QuietAfterDisconnect`.
* `ClientTypes`: `Spec => []TypeOK`.
* `ReplayedOnce`: `Spec => []NoEventTwice`.

and if nothing live reaches a connection before its replay (`~LiveBeforeReplay`)

* `HandledInOrder`: `Spec => []EmittedInOrder`.
* `CompletedIsHandled`: `Spec => []CompletedMeansAll`.

`OneWayForward` is inductive. What a callback needs to know is that it does not run
in a disconnected client, which follows from what runs it: a socket, a timer, an
entry in the store or resume mode. The stale timeouts are the exception; they do
run, and find the client out of resume mode.

`ClientTypes` needs `Channel` (the answer to `auth` is the first message of a connection,
an event under way has arrived at the gateway) and `Timers`, which counts the forgotten
timeouts by the connections that were lost. `ReplayedOnce` follows from
`FirstConnection`: the client buffers from the first message on, and when the buffer is
flushed by its timer nothing is under way, so that every later event is newer than all that
were handled. `HandledInOrder` and `CompletedIsHandled` share `Told`. `Handled` says that
`lastEventId` is the number of events handled or buffered, which are the first ones, and
is below `EndEvent` as long as the client is not disconnected; `UnderWay(c)` that a live
connection carries exactly the events after `lastEventId`, with `session_complete` at
place `c` and behind the terminal one; `Owing` that the timeout for an empty replay cannot
run while the replay of a reloaded page is under way. The assumption is needed: with live
events before the replay the buffer is out of order (section 3).

What `Deduplicated` computes for any buffer is proved by induction on its length:
the induction theorems of the library take an operator, which the provers cannot
instantiate, but `NatLessThanWellFounded` gives that every set of numbers has a least
one (`LeastNumber`), which is applied to the set of counter-examples. `Deduplicated` is
therefore a recursive function, the loop of `flushResumeBuffer`, and not a fold.

`DeviceAlarmProofs`, for all times that satisfy `TimesAssumption`, and for the last
theorem `HealthAssumption`

* `AlarmTypes`: `Spec => []TypeOK`.
* `AlarmStays`: `Spec => []AlarmWhileSockets`.
* `SilentSocketsLeave`: `Spec => []GoneInTime`.
* `HealthyConnectionsKept`: `Spec => []HealthyKept`.

The bound on a silent socket is not inductive, since nothing in it speaks of the
alarm. `Countdown` does: `silent + due` never exceeds one timeout and one interval.
Time moves from the one to the other, and whoever sets the alarm again has just
closed what was too old. `Health` is the cycle of a heartbeat: one frame per well
socket, which is a login, an `auth_success`, nothing, a heartbeat or its answer, each
with what may then be left until the next beat.

`DeviceLinkProofs` and `DeviceCallProofs`, for any devices, sockets, calls and faults

* `LinkTypes`: `Spec => []TypeOK`.
* `OneSocketOfADevice`: `Spec => []OneOpenSocket`.
* `ConnectedClientsAreServed`: `Spec => []ConnectedIsServed`.
* `DeviceLinkImplementsRemoteCall`: `Spec => ImplementsRemoteCall`.

The second and the third rest on where a message can be (`Wires`): an upgrade is only in front of
a socket that is not listed, an `auth_success` only behind a socket that is
authenticated or about to be closed, a client's close only behind its back. The
refinement adds `Requests`: a request is on one connection, once, and its tool has not
run; a response on a connection is of a tool that is done; a call that was not sent,
or was refused, has not run. There is one case for each action, and all but seven of
them stutter.

`TaskUnlockProofs`

* `UnlockTypes`: `Spec => []TypeOK`.
* `CompletionsLoseNoUnlock`: `Spec => []NoLostUnlock`.

The invariant adds `OwedIsReady`: as long as a task is owed it is in the backlog with
nothing to wait for, so that both tests of the request in charge succeed. A request is
in charge from its write of `completed`, before it has read anything; that is why the
last of two concurrent completions always sees both.

`TaskRunProofs`

* `RunTypes`: `Spec => []TypeOK`.
* `CanceledTopicsStop`: `Spec => []CanceledMeansStopped`.
* `ThroughMeansClosed`: `Spec => []RowsSettle`.

A cancellation acts on what it has read. `AimsHold` says that the row still belongs to
the operation that was read, or is deleted, unless the topic is in `overlap`;
`InterruptsFirst`, that the operation has been told before the row is written;
`ClaimsOpenRow`, that a continuation which is about to enter its operation in the row
does not find it canceled; `OverlapSeen` ties `overlap` to the requests in progress.
For `RowsSettle` every running row has a closer: an operation of its topic that will run
its hook, or the request that has interrupted it and is about to write the row
(`RunningRowsClose`). It holds because an operation that has not yet claimed its row is
named by no other row or request (`ClaimsOwn`), and rows and requests name operations of
their own topic (`NamesOwn`).

`ToolApprovalProofs`, for any batch, decisions, faults, and both routes

* `ApprovalTypes`: `Spec => []TypeOK`.
* `ApprovalResumes`: `Spec => []NoLostResume`.
* `ApprovalWaits`: `Spec => []WaitsForPending`.
* `AnswersKnowResults`: `Spec => []AnswersAreInformed`.

On the gateway route the argument is short: a decision is written before the history
is read, so that whoever reads last reads everything. In place the paused operation
never looks at the database again, and it rests on three facts: one decision is stepped
at a time (`OneStepping`), one that was sent alone finds the step it names (`Alone`), and
`pendingToolsCalling` has exactly the pending tools and those of the step in progress
(`Remembered`). Only a step that was killed while another decision waited can break the
last: its successor advances `stepCount`, and the redelivery is skipped.

`AnswersKnowResults` is about histories without overlap and failure (`Informed`). Then one
decision, or the operation it became, is under way at a time (`OneAtATime`), and an approved
tool has its result in what the next operation reads, except for the one being decided: in
the database on the gateway route (`ResultsRead`), in the paused state in place
(`ResultsKept`). `RejectionWritten` keeps a tool from changing sides in between.

Every invariant above was model-checked on the module's runs before it was proved.

Only model-checked: the liveness properties (`EventuallyCompletes`, `EventuallyTold`,
`Settles`, `CallsEnd`, `UnlocksHappen`, `BatchIsAnswered`), since fairness is a matter of
`ENABLED`, which the provers do not have. The
properties of `step_redelivery` are proved for the faults with which that run checks
them, for any number of workers, steps and deliveries, and not beyond: TLC refutes
`EndEventAtMostOnce` with an interrupt and `NoStepAfterCompletion` with a rejection
(section 3).

## 5. Plan

1. done: `StepExecution`, `AgentOperation` and their proofs.
2. done: `AgentStreamClient` and its proofs; next, `GatewayStreamNotifier`, whose
   bounded and unordered pushes feed it.
3. done: `DeviceLink`, `DeviceAlarm`, `RemoteCall` and their proofs.
4. done: `TaskRun`, `TaskUnlock` and their proofs; next, reviews and the scheduler.
5. `ClientTool`: the wait for a tool executed in the client, with its deadline, late
   and repeated results, against `RemoteCall`.
6. done: `ToolApproval` and its proofs; next, the end event that a pause publishes
   although `gatewayEventHandler.ts:143` says it does not.
7. `BotGateway`: the start and stop of bot clients against the rows that say which
   should run.
8. `EventStream`: the trimmed Redis stream and its subscribers.
9. Proofs: done for every safety property of the passing runs; next, bounds on the
   kills of one step instead of an operation, for which the model would count them so.

Order: what decides whether an agent's work is done once comes first, then what
its users see, then what is built on top.

## 6. Not modelled

See `components` in `PROJECT.json`. In short: the local timer queue (development
mode), record expiry, tracing; everything whose difficulty is data rather than
order (prompts, model protocols, file parsing, message trees); everything owned by
an external service (the gateway, QStash, the database). Of approvals: the web client's
own call of `processHumanIntervention` (`services/agentRuntime/index.ts:101-108`), which
sends step 0 and no tool message id and is therefore always skipped; `input` and `select`, which
the server accepts and ignores; and the runtime in the browser.
