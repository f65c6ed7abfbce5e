------------------------------ MODULE TaskRun ------------------------------
(***************************************************************************)
(* The runs of one task.  A run starts an agent operation on a topic and   *)
(* keeps a row in task_topics for it; the operation goes on by itself and  *)
(* its onComplete hook, in the same process, closes the row and settles    *)
(* the task.  Requests cancel and delete topics and set the status of the  *)
(* task, interrupting operations on the way; the watchdog and every reader *)
(* of the detail page act on a heartbeat that is too old.                  *)
(*                                                                         *)
(* Each query is a step.  Nothing locks the task, so that any two requests *)
(* and hooks may be in progress together.                                  *)
(***************************************************************************)
EXTENDS Integers

CONSTANTS
  Requests,    \* each does one thing; an operation is named by its run
  Topics,
  None,
  MaxFaults    \* bound: requests and hooks that fail half-way, interrupts
               \* that throw, heartbeats that stay away for the timeout

ASSUME RunAssumption == None \notin Requests \cup Topics /\ MaxFaults \in Nat

VARIABLES
  task,     \* tasks.status
  late,     \* tasks.lastHeartbeatAt is older than heartbeatTimeout
  stuck,    \* the watchdog has listed the task and not yet failed it
  row,      \* task_topics
  op,       \* each operation, and how far its onComplete hook is
  req,      \* each request: where it is, and what it has read
  overlap,  \* history: topics that a run and a cancellation worked on at once
  left,     \* history: rows nobody is going to close
  faults

requests == <<req, overlap>>
vars == <<task, late, stuck, row, op, requests, left, faults>>

(* Here it matters only whether the task is running: the other statuses,   *)
(* from backlog and paused to completed and canceled, are one.             *)
TaskStatus == {"running", "resting"}

(* none: a topic id not yet drawn; deleted: one that does not come back.   *)
NoRow == [status |-> "none", op |-> None]
Deleted == [status |-> "deleted", op |-> None]
Rows == {NoRow, Deleted} \cup
  [status : {"running", "completed", "failed", "timeout", "canceled"}, op : Requests]

(* told: interrupted, not yet at its end.  Then the hook updates the       *)
(* heartbeat, the row and the task.  Another reason is a limit of steps or *)
(* cost, or a human to wait for.                                           *)
Operations == [status : {"none", "live", "told", "ended", "closing", "settling", "over"},
               reason : {"none", "done", "error", "interrupted", "other"},
               topic  : Topics \cup {None}]
NoOperation == [status |-> "none", reason |-> "none", topic |-> None]

(* running and late are what a request read of the task, aim the operation *)
(* of each topic it is to interrupt, goal the status it is to write.       *)
Runs == {"new", "continue"}
RunPoints == {"check", "timeout", "start", "exec", "add", "status", "operation",
              "beat", "rollback", "pause"}
CallPoints == {"interrupt", "cancel", "pause", "remove", "cascade", "cascading",
               "write", "clear"}
NoAim == [t \in Topics |-> None]
RequestRecords ==
  [pc : {"idle", "done"} \cup RunPoints \cup CallPoints,
   kind : {"none", "cancel", "delete", "set", "detail"} \cup Runs,
   topic : Topics \cup {None}, running : BOOLEAN, late : BOOLEAN,
   aim : [Topics -> Requests \cup {None}], goal : TaskStatus]
NoRequest == [pc |-> "idle", kind |-> "none", topic |-> None, running |-> FALSE,
              late |-> FALSE, aim |-> NoAim, goal |-> "resting"]
Through == [NoRequest EXCEPT !.pc = "done"]

(* What belongs to a request at each point.                                *)
Shape(q) ==
  /\ q.kind = "none" => q \in {NoRequest, Through}
  /\ q.kind \in Runs =>
       q.pc \in RunPoints /\ q.topic # None /\ q.aim = NoAim
  /\ q.kind \notin {"none"} \cup Runs => q.pc \in CallPoints
  /\ q.pc \in {"status", "operation"} => q.kind = "continue"
  /\ q.pc \in {"interrupt", "cancel"} =>
       q.topic # None /\ q.aim[q.topic] # None
  /\ q.pc = "remove" => q.topic # None
  /\ q.pc = "cascade" => q.topic = None
  /\ q.pc = "cascading" /\ q.topic # None =>
       q.aim[q.topic] # None

TypeOK ==
  /\ task \in TaskStatus /\ late \in BOOLEAN /\ stuck \in BOOLEAN
  /\ row \in [Topics -> Rows]
  /\ op \in [Requests -> Operations]
  /\ req \in [Requests -> RequestRecords]
  /\ \A r \in Requests : Shape(req[r])
  /\ overlap \subseteq Topics /\ left \subseteq Topics \cup {None}
  /\ faults \in 0 .. MaxFaults

Init ==
  /\ task = "resting" /\ late = FALSE /\ stuck = FALSE
  /\ row = [t \in Topics |-> NoRow]
  /\ op = [r \in Requests |-> NoOperation]
  /\ req = [r \in Requests |-> NoRequest]
  /\ overlap = {} /\ left = {} /\ faults = 0

----------------------------------------------------------------------------

(* A run that continues t is between its check and its last write to the   *)
(* row; a cancellation is between its read and its write.                  *)
Continuing(q, t) ==
  /\ q.kind = "continue" /\ q.topic = t
  /\ q.pc \in {"check", "timeout", "start", "exec", "status", "operation"}

Overlapping(rq) ==
  {t \in Topics : \E r, q \in Requests : Continuing(rq[r], t) /\ rq[q].aim[t] # None}

At(r, point) == req[r].pc = point
Become(r, to) ==
  /\ req' = [req EXCEPT ![r] = to]
  /\ overlap' = overlap \cup Overlapping(req')
Go(r, point) == Become(r, [req[r] EXCEPT !.pc = point])

HasRow(t) == row[t].op # None

SetRow(t, status) ==
  row' = IF HasRow(t) THEN [row EXCEPT ![t].status = status] ELSE row

TimeoutRunning ==
  row' = [t \in Topics |-> IF row[t].status = "running"
                           THEN [row[t] EXCEPT !.status = "timeout"] ELSE row[t]]

(* interruptTask: it says no, without an error, to an operation that is    *)
(* over.                                                                   *)
InterruptTask(o) ==
  op' = IF op[o].status = "live" THEN [op EXCEPT ![o].status = "told"] ELSE op

(* It throws before it has written that the operation is interrupted, or   *)
(* after, when the end event is not published: then nobody closes the row. *)
InterruptThrows(o, t) ==
  \/ UNCHANGED <<op, left>>
  \/ op[o].status = "live" /\ InterruptTask(o) /\ left' = left \cup {t}

(* Its hook is past the row.                                               *)
Rowless(r) == op[r].status \in {"settling", "over"}

----------------------------------------------------------------------------
(* run                                                                     *)

(* A new topic has an id of its own; a run may also continue any topic.    *)
StartRun(r, k, t) ==
  /\ At(r, "idle")
  /\ k = "new" => /\ row[t] = NoRow
                  /\ \A q \in Requests : req[q].topic # t /\ op[q].topic # t
  /\ k = "continue" => HasRow(t)
  /\ Become(r, [NoRequest EXCEPT !.pc = "check", !.kind = k, !.topic = t,
                  !.running = (task = "running"), !.late = late])
  /\ UNCHANGED <<task, late, stuck, row, op, left, faults>>

(* The idempotency checks.  A conflict is thrown inside the try.           *)
Conflict(r) ==
  \E t \in Topics : /\ row[t].status = "running"
                    /\ req[r].kind = "continue" => t = req[r].topic

Checked(r) == IF req[r].running THEN "exec" ELSE "start"

CheckTopics(r) ==
  /\ At(r, "check")
  /\ Go(r, IF Conflict(r) THEN "rollback"
           ELSE IF req[r].late THEN "timeout" ELSE Checked(r))
  /\ UNCHANGED <<task, late, stuck, row, op, left, faults>>

CleanUp(r) ==
  /\ At(r, "timeout") /\ Go(r, Checked(r))
  /\ TimeoutRunning
  /\ UNCHANGED <<task, late, stuck, op, left, faults>>

SetRunning(r) ==
  /\ At(r, "start") /\ Go(r, "exec")
  /\ task' = "running"
  /\ UNCHANGED <<late, stuck, row, op, left, faults>>

(* From here on the operation goes on by itself.                           *)
ExecAgent(r) ==
  /\ At(r, "exec")
  /\ Become(r, [req[r] EXCEPT !.running = FALSE, !.late = FALSE,
                  !.pc = IF req[r].kind = "new" THEN "add" ELSE "status"])
  /\ op' = [op EXCEPT ![r].status = "live", ![r].topic = req[r].topic]
  /\ UNCHANGED <<task, late, stuck, row, left, faults>>

(* The row of an operation whose hook is past it is left to nobody.        *)
AddTopic(r) ==
  LET t == req[r].topic IN
  /\ At(r, "add") /\ Go(r, "beat")
  /\ row' = IF row[t] = NoRow
            THEN [row EXCEPT ![t] = [status |-> "running", op |-> r]] ELSE row
  /\ left' = IF Rowless(r) THEN left \cup {t} ELSE left
  /\ UNCHANGED <<task, late, stuck, op, faults>>

ContinueTopic(r) ==
  LET t == req[r].topic IN
  /\ At(r, "status") /\ Go(r, "operation")
  /\ SetRow(t, "running")
  /\ left' = IF Rowless(r) THEN left \cup {t} ELSE left
  /\ UNCHANGED <<task, late, stuck, op, faults>>

(* Defect: the row is created if it is not there                           *)
UpsertOperationId(r) ==
  LET t == req[r].topic IN
  /\ At(r, "operation") /\ Go(r, "beat")
  /\ row' = [row EXCEPT ![t].op = r]
  /\ UNCHANGED <<task, late, stuck, op, left, faults>>

UpdateOperationId(r) ==
  LET t == req[r].topic IN
  /\ At(r, "operation") /\ Go(r, "beat")
  /\ row' = IF HasRow(t) THEN [row EXCEPT ![t].op = r] ELSE row
  /\ UNCHANGED <<task, late, stuck, op, left, faults>>

RunBeats(r) ==
  /\ At(r, "beat") /\ Become(r, Through)
  /\ late' = FALSE
  /\ UNCHANGED <<task, stuck, row, op, left, faults>>

(* "Rollback task status to paused on failure": a read, then a write.      *)
Rollback(r) ==
  /\ At(r, "rollback")
  /\ IF task = "running" THEN Go(r, "pause") ELSE Become(r, Through)
  /\ UNCHANGED <<task, late, stuck, row, op, left, faults>>

(* The last write of a rollback and of cancelTopic.                        *)
PauseTask(r) ==
  /\ At(r, "pause") /\ Become(r, Through)
  /\ task' = "resting"
  /\ UNCHANGED <<late, stuck, row, op, left, faults>>

----------------------------------------------------------------------------
(* cancelTopic and deleteTopic                                             *)

Aiming(k, t) ==
  [NoRequest EXCEPT !.pc = "interrupt", !.kind = k, !.topic = t,
                    !.aim[t] = row[t].op]

StartCancel(r, t) ==
  /\ At(r, "idle") /\ row[t].status = "running"
  /\ Become(r, Aiming("cancel", t))
  /\ UNCHANGED <<task, late, stuck, row, op, left, faults>>

StartDelete(r, t) ==
  /\ At(r, "idle") /\ HasRow(t)
  /\ Become(r, IF row[t].status = "running" THEN Aiming("delete", t)
               ELSE [NoRequest EXCEPT !.pc = "remove", !.kind = "delete", !.topic = t])
  /\ UNCHANGED <<task, late, stuck, row, op, left, faults>>

Interrupt(r) ==
  /\ At(r, "interrupt")
  /\ Go(r, IF req[r].kind = "cancel" THEN "cancel" ELSE "remove")
  /\ InterruptTask(req[r].aim[req[r].topic])
  /\ UNCHANGED <<task, late, stuck, row, left, faults>>

InterruptFails(r) ==
  LET t == req[r].topic IN
  /\ At(r, "interrupt") /\ Become(r, Through)
  /\ InterruptThrows(req[r].aim[t], t)
  /\ faults < MaxFaults /\ faults' = faults + 1
  /\ UNCHANGED <<task, late, stuck, row>>

(* Whatever the row says by now.                                           *)
CancelRow(r) ==
  /\ At(r, "cancel")
  /\ Become(r, [req[r] EXCEPT !.pc = "pause", !.aim = NoAim])
  /\ SetRow(req[r].topic, "canceled")
  /\ UNCHANGED <<task, late, stuck, op, left, faults>>

RemoveRow(r) ==
  /\ At(r, "remove") /\ Become(r, Through)
  /\ row' = [row EXCEPT ![req[r].topic] = Deleted]
  /\ UNCHANGED <<task, late, stuck, op, left, faults>>

----------------------------------------------------------------------------
(* updateStatus and the heartbeat test of detail                           *)

StartSet(r, s) ==
  /\ At(r, "idle")
  /\ Become(r, [NoRequest EXCEPT !.kind = "set", !.goal = s,
       !.pc = IF task = "running" /\ s # "running" THEN "cascade" ELSE "write"])
  /\ UNCHANGED <<task, late, stuck, row, op, left, faults>>

(* "Cascade: when leaving `running`, cancel all running topics"            *)
ReadTopics(r) ==
  /\ At(r, "cascade")
  /\ Become(r, [req[r] EXCEPT !.pc = "cascading",
       !.aim = [t \in Topics |-> IF row[t].status = "running" THEN row[t].op ELSE None]])
  /\ UNCHANGED <<task, late, stuck, row, op, left, faults>>

Aimed(r, t) == At(r, "cascading") /\ req[r].topic = None /\ req[r].aim[t] # None

CascadeInterrupt(r, t) ==
  /\ Aimed(r, t) /\ Become(r, [req[r] EXCEPT !.topic = t])
  /\ InterruptTask(req[r].aim[t])
  /\ UNCHANGED <<task, late, stuck, row, left, faults>>

(* Defect: the topic is canceled although its operation was not reached    *)
CascadeSkipsInterrupt(r, t) ==
  /\ Aimed(r, t) /\ Become(r, [req[r] EXCEPT !.topic = t])
  /\ faults < MaxFaults /\ faults' = faults + 1
  /\ UNCHANGED <<task, late, stuck, row, op, left>>

(* "if it fails, skip cancellation"                                        *)
CascadeSkips(r, t) ==
  /\ Aimed(r, t) /\ Become(r, [req[r] EXCEPT !.aim[t] = None])
  /\ InterruptThrows(req[r].aim[t], t)
  /\ faults < MaxFaults /\ faults' = faults + 1
  /\ UNCHANGED <<task, late, stuck, row>>

(* cancelIfRunning                                                         *)
CascadeCancel(r) ==
  LET t == req[r].topic IN
  /\ At(r, "cascading") /\ t # None
  /\ Become(r, [req[r] EXCEPT !.topic = None, !.aim[t] = None])
  /\ IF row[t].status = "running" THEN SetRow(t, "canceled") ELSE UNCHANGED row
  /\ UNCHANGED <<task, late, stuck, op, left, faults>>

Cascaded(r) == At(r, "cascading") /\ req[r].topic = None
                                  /\ req[r].aim = NoAim

WriteStatus(r) ==
  /\ At(r, "write") \/ Cascaded(r)
  /\ task' = req[r].goal
  /\ IF req[r].kind = "detail" THEN Go(r, "clear") ELSE Become(r, Through)
  /\ UNCHANGED <<late, stuck, row, op, left, faults>>

StartDetail(r) ==
  /\ At(r, "idle") /\ task = "running" /\ late
  /\ Become(r, [NoRequest EXCEPT !.pc = "write", !.kind = "detail", !.goal = "resting"])
  /\ UNCHANGED <<task, late, stuck, row, op, left, faults>>

ClearRows(r) ==
  /\ At(r, "clear") /\ Become(r, Through)
  /\ TimeoutRunning
  /\ UNCHANGED <<task, late, stuck, op, left, faults>>

----------------------------------------------------------------------------

(* A query throws.  A run rolls back; of the others nobody finishes what   *)
(* they have begun, the row of an interrupted operation included.          *)
Interrupted(r) ==
  {t \in Topics : /\ t = req[r].topic /\ req[r].aim[t] # None
                  /\ req[r].pc \in {"cancel", "remove", "cascading"}}

Fail(r) ==
  /\ req[r].pc \notin {"idle", "done", "interrupt"}
  /\ faults < MaxFaults /\ faults' = faults + 1
  /\ IF req[r].kind \in Runs /\ req[r].pc \notin {"rollback", "pause"}
     THEN Go(r, "rollback") ELSE Become(r, Through)
  /\ left' = left \cup Interrupted(r)
  /\ UNCHANGED <<task, late, stuck, row, op>>

----------------------------------------------------------------------------
(* The operation and its hook                                              *)

(* aiAgent.interruptTask, by the user of the operation: no request of the  *)
(* task looks after the row.                                               *)
InterruptDirectly(o) ==
  /\ op[o].status = "live" /\ InterruptTask(o)
  /\ left' = left \cup {op[o].topic}
  /\ UNCHANGED <<task, late, stuck, row, requests, faults>>

(* An interrupted one may have finished in the step that was in progress.  *)
(* One that ends for another reason leaves its row as it is.               *)
End(o, why) ==
  /\ op[o].status \in {"live", "told"}
  /\ why = "interrupted" => op[o].status = "told"
  /\ op' = [op EXCEPT ![o].status = "ended", ![o].reason = why]
  /\ left' = IF why = "other" THEN left \cup {op[o].topic} ELSE left
  /\ UNCHANGED <<task, late, stuck, row, requests, faults>>

HookBeats(o) ==
  /\ op[o].status = "ended"
  /\ op' = [op EXCEPT ![o].status = "closing"]
  /\ late' = FALSE
  /\ UNCHANGED <<task, stuck, row, requests, left, faults>>

(* Defect: the row of a failed operation is left to its error brief        *)
HookClosesDone(o) ==
  /\ op[o].status = "closing" /\ op[o].reason \in {"done", "error"}
  /\ IF op[o].reason = "done" THEN SetRow(op[o].topic, "completed")
     ELSE UNCHANGED row
  /\ op' = [op EXCEPT ![o].status = "settling"]
  /\ UNCHANGED <<task, late, stuck, requests, left, faults>>

(* By the topic alone: the row may belong to another operation by now.     *)
(* After any other end the hook does nothing.                              *)
HookClosesRow(o) ==
  /\ op[o].status = "closing" /\ op[o].reason \in {"done", "error"}
  /\ SetRow(op[o].topic, IF op[o].reason = "done" THEN "completed" ELSE "failed")
  /\ op' = [op EXCEPT ![o].status = "settling"]
  /\ UNCHANGED <<task, late, stuck, requests, left, faults>>

Over == [NoOperation EXCEPT !.status = "over"]

HookIgnores(o) ==
  /\ op[o].status = "closing" /\ op[o].reason \in {"interrupted", "other"}
  /\ op' = [op EXCEPT ![o] = Over]
  /\ UNCHANGED <<task, late, stuck, row, requests, left, faults>>

(* A result brief completes the task, a review or a checkpoint pauses it,  *)
(* and without either it stays as it is; an error always pauses it.        *)
HookSettlesTask(o) ==
  /\ op[o].status = "settling"
  /\ op' = [op EXCEPT ![o] = Over]
  /\ task' \in IF op[o].reason = "done" THEN {"resting", task} ELSE {"resting"}
  /\ UNCHANGED <<late, stuck, row, requests, left, faults>>

(* A query of the hook throws, or its process is gone.  The dispatcher     *)
(* swallows the error, and the hook does not come again.                   *)
HookFails(o) ==
  /\ op[o].status \in {"ended", "closing", "settling"}
  /\ faults < MaxFaults /\ faults' = faults + 1
  /\ op' = [op EXCEPT ![o] = Over]
  /\ left' = IF op[o].status = "settling" THEN left ELSE left \cup {op[o].topic}
  /\ UNCHANGED <<task, late, stuck, row, requests>>

----------------------------------------------------------------------------
(* Heartbeats                                                              *)

Beats ==
  /\ late /\ late' = FALSE
  /\ UNCHANGED <<task, stuck, row, op, requests, left, faults>>

BeatStaysAway ==
  /\ ~late /\ late' = TRUE
  /\ faults < MaxFaults /\ faults' = faults + 1
  /\ UNCHANGED <<task, stuck, row, op, requests, left>>

WatchdogFinds ==
  /\ ~stuck /\ task = "running" /\ late
  /\ stuck' = TRUE
  /\ UNCHANGED <<task, late, row, op, requests, left, faults>>

WatchdogFails ==
  /\ stuck /\ stuck' = FALSE /\ task' = "resting"
  /\ UNCHANGED <<late, row, op, requests, left, faults>>

----------------------------------------------------------------------------

Start(r) ==
  \/ \E k \in Runs, t \in Topics : StartRun(r, k, t)
  \/ \E t \in Topics : StartCancel(r, t) \/ StartDelete(r, t)
  \/ \E s \in TaskStatus : StartSet(r, s)
  \/ StartDetail(r)

Continue(r) ==
  \/ CheckTopics(r) \/ CleanUp(r) \/ SetRunning(r) \/ ExecAgent(r)
  \/ AddTopic(r) \/ ContinueTopic(r) \/ UpdateOperationId(r) \/ RunBeats(r)
  \/ Rollback(r) \/ PauseTask(r)
  \/ Interrupt(r) \/ InterruptFails(r) \/ CancelRow(r) \/ RemoveRow(r)
  \/ ReadTopics(r) \/ CascadeCancel(r) \/ WriteStatus(r) \/ ClearRows(r)
  \/ \E t \in Topics : CascadeInterrupt(r, t) \/ CascadeSkips(r, t)
  \/ Fail(r)

Operate(o) ==
  \/ InterruptDirectly(o)
  \/ \E why \in {"done", "error", "interrupted", "other"} : End(o, why)
  \/ HookBeats(o) \/ HookClosesRow(o) \/ HookIgnores(o) \/ HookSettlesTask(o)
  \/ HookFails(o)

Next ==
  \/ \E r \in Requests : Start(r) \/ Continue(r) \/ Operate(r)
  \/ Beats \/ BeatStaysAway \/ WatchdogFinds \/ WatchdogFails

Spec == Init /\ [][Next]_vars

----------------------------------------------------------------------------
(* Properties                                                              *)

(* What a user has canceled has been told to stop: the operation named by  *)
(* a canceled row has been interrupted or has ended, unless the topic was  *)
(* continued while the cancellation was under way.                         *)
CanceledMeansStopped ==
  \A t \in Topics \ overlap :
    row[t].status = "canceled" => op[row[t].op].status # "live"

(* No topic is left `running', which would make the task refuse every      *)
(* further run, once requests, operations and hooks are through, however   *)
(* many of them worked on it, except where an operation of the topic ended *)
(* before its row was written, was interrupted directly or by a call that  *)
(* then threw, ended for a reason the hook does not know, or had its hook  *)
(* fail, and where a request failed between interrupting the operation and *)
(* closing the row.                                                        *)
AllSettled ==
  \A r \in Requests : /\ req[r].pc \in {"idle", "done"}
                      /\ op[r].status \in {"none", "over"}

RowsSettle ==
  AllSettled => \A t \in Topics \ left : row[t].status # "running"

(* "reject creating a new one": a run that finds a running topic does not  *)
(* change the status of the task.                                          *)
RejectedRunChangesNothing ==
  [][\A r \in Requests :
       req[r].kind \in Runs /\ At(r, "pause") /\ op[r].status = "none" /\ faults = 0
         => task' = task]_vars
=============================================================================
