--------------------------- MODULE TaskRunProofs ---------------------------
(***************************************************************************)
(* A canceled topic has a stopped operation, for any number of requests,   *)
(* topics and faults.  A cancellation works on what it has read of a row;  *)
(* the argument is that the row cannot come to belong to another operation *)
(* meanwhile, except by a run that continues the topic, and then the two   *)
(* overlap.  An operation that has once been told to stop stays told.      *)
(* And no row stays open when everything is through: an open row has the   *)
(* hook of an operation that nobody interrupted, or the request that       *)
(* interrupted it, to close it (Settling).                                 *)
(***************************************************************************)
EXTENDS TaskRun, TLAPS

Known(o) == op[o].status # "none"
Stopped(o) == op[o].status \notin {"none", "live"}

(* An operation exists from execAgent on, and a row names one that exists. *)
RunsKnown ==
  \A r \in Requests :
    /\ req[r].pc \in {"idle", "check", "timeout", "start", "exec"} => ~Known(r)
    /\ req[r].pc \in {"add", "status", "operation"} => Known(r)

RowsKnown == \A t \in Topics : HasRow(t) => Known(row[t].op)

(* What a cancellation has read is what it would read again, unless the    *)
(* row is gone or the topic is being continued.                            *)
AimsHold ==
  \A r \in Requests, t \in Topics :
    req[r].aim[t] # None =>
      /\ Known(req[r].aim[t]) /\ row[t] # NoRow
      /\ t \notin overlap => row[t].op \in {req[r].aim[t], None}

InterruptsFirst ==
  \A r \in Requests :
    req[r].pc = "cancel" \/ (req[r].pc = "cascading" /\ req[r].topic # None)
      => Stopped(req[r].aim[req[r].topic])

OverlapSeen == Overlapping(req) \subseteq overlap

(* A run that is about to claim the row for its operation finds it open.   *)
ClaimsOpenRow ==
  \A r \in Requests :
    req[r].pc = "operation" /\ req[r].topic \notin overlap
      => row[req[r].topic].status # "canceled"

CanceledStopped ==
  \A t \in Topics \ overlap : row[t].status = "canceled" => Stopped(row[t].op)

Stopping ==
  /\ RunsKnown /\ RowsKnown /\ AimsHold /\ InterruptsFirst
  /\ OverlapSeen /\ ClaimsOpenRow /\ CanceledStopped

----------------------------------------------------------------------------

LEMMA Records ==
  /\ NoRequest \in RequestRecords /\ Through \in RequestRecords
  /\ NoAim \in [Topics -> Requests \cup {None}] /\ \A t \in Topics : NoAim[t] = None
  /\ NoRequest.pc = "idle" /\ NoRequest.kind = "none" /\ NoRequest.aim = NoAim
  /\ NoRequest.topic = None
  /\ Through.pc = "done" /\ Through.kind = "none" /\ Through.aim = NoAim
  /\ Through.topic = None
  BY DEF NoRequest, Through, RequestRecords, NoAim, TaskStatus, Runs, RunPoints,
         CallPoints

LEMMA RowFacts ==
  /\ NoRow \in Rows /\ Deleted \in Rows /\ NoRow.op = None /\ Deleted.op = None
  /\ NoRow.status = "none" /\ Deleted.status = "deleted" /\ NoRow # Deleted
  /\ \A w \in Rows : /\ w.op \in Requests \cup {None}
                     /\ w.op = None <=> w \in {NoRow, Deleted}
                     /\ w.op # None => w.status \notin {"none", "deleted"}
  BY RunAssumption DEF NoRow, Deleted, Rows

(* The two shapes of a step on rows: SetRow and TimeoutRunning.            *)
LEMMA SetRowType ==
  ASSUME row \in [Topics -> Rows], NEW t \in Topics,
         NEW s \in {"running", "completed", "failed", "timeout", "canceled"},
         SetRow(t, s)
  PROVE  /\ row' \in [Topics -> Rows]
         /\ \A u \in Topics : row'[u].op = row[u].op
         /\ \A u \in Topics : u # t => row'[u] = row[u]
         /\ \A u \in Topics : row'[u] = NoRow <=> row[u] = NoRow
         /\ HasRow(t) => row'[t].status = s
         /\ ~HasRow(t) => row'[t] = row[t]
  BY RunAssumption DEF SetRow, HasRow, Rows, NoRow, Deleted

LEMMA TimeoutRunningType ==
  ASSUME row \in [Topics -> Rows], TimeoutRunning
  PROVE  /\ row' \in [Topics -> Rows]
         /\ \A u \in Topics : row'[u].op = row[u].op
         /\ \A u \in Topics : row'[u] = NoRow <=> row[u] = NoRow
         /\ \A u \in Topics : row'[u].status = "canceled" <=> row[u].status = "canceled"
  BY RunAssumption DEF TimeoutRunning, Rows, NoRow, Deleted

LEMMA InitStopping == Init => TypeOK /\ Stopping
<1> SUFFICES ASSUME Init PROVE TypeOK /\ Stopping
  OBVIOUS
<1>1. TypeOK
  <2>1. NoOperation \in Operations
    BY DEF NoOperation, Operations
  <2>2. Shape(NoRequest)
    BY Records DEF Shape, Runs
  <2>3. req \in [Requests -> RequestRecords]
    BY Records DEF Init
  <2>4. row \in [Topics -> Rows]
    BY RowFacts DEF Init
  <2>5. \A r \in Requests : Shape(req[r])
    BY <2>2 DEF Init
  <2>6. 0 \in 0 .. MaxFaults
    BY RunAssumption
  <2> QED BY <2>1, <2>3, <2>4, <2>5, <2>6 DEF Init, TypeOK, TaskStatus
<1>2. \A r \in Requests : req[r].pc = "idle" /\ ~Known(r) /\ req[r].aim = NoAim
  BY Records DEF Init, Known, NoOperation
<1>3. \A t \in Topics : row[t] = NoRow
  BY DEF Init
<1> QED
  BY <1>1, <1>2, <1>3, Records, RowFacts
     DEF Stopping, RunsKnown, RowsKnown, HasRow, AimsHold, InterruptsFirst,
         OverlapSeen, Overlapping, Continuing, ClaimsOpenRow, CanceledStopped

(* A step of an operation.                                                 *)
LEMMA OpType ==
  ASSUME op \in [Requests -> Operations], NEW o \in Requests,
         NEW s \in {"none", "live", "told", "ended", "closing", "settling", "over"},
         NEW t \in Topics \cup {None}
  PROVE  /\ [op EXCEPT ![o].status = s] \in [Requests -> Operations]
         /\ [op EXCEPT ![o].status = s, ![o].topic = t] \in [Requests -> Operations]
  BY DEF Operations

(* An interrupt throws.                                                    *)
LEMMA ThrowType ==
  ASSUME op \in [Requests -> Operations], left \subseteq Topics \cup {None},
         NEW o \in Requests, NEW t \in Topics, InterruptThrows(o, t)
  PROVE  op' \in [Requests -> Operations] /\ left' \subseteq Topics \cup {None}
<1>1. CASE UNCHANGED <<op, left>>
  BY <1>1
<1>2. CASE InterruptTask(o) /\ left' = left \cup {t}
  <2>1. op' \in [Requests -> Operations]
    BY <1>2, OpType DEF InterruptTask, Operations
  <2> QED BY <1>2, <2>1
<1> QED BY <1>1, <1>2 DEF InterruptThrows

(* A request moves to a record of the right shape.                         *)
LEMMA BecomeType ==
  ASSUME TypeOK, NEW r \in Requests, NEW to \in RequestRecords, Shape(to),
         Become(r, to)
  PROVE  /\ req' \in [Requests -> RequestRecords]
         /\ \A q \in Requests : Shape(req'[q])
         /\ overlap' \subseteq Topics
  BY DEF TypeOK, Become, Overlapping

(* Every value a step writes has its type.                                 *)
LEMMA TypeStep == TypeOK /\ [Next]_vars => TypeOK'
<1> SUFFICES ASSUME TypeOK, [Next]_vars PROVE TypeOK'
  OBVIOUS
<1> USE DEF requests
<1>0. /\ task \in TaskStatus /\ late \in BOOLEAN /\ stuck \in BOOLEAN
      /\ row \in [Topics -> Rows] /\ op \in [Requests -> Operations]
      /\ req \in [Requests -> RequestRecords] /\ overlap \subseteq Topics
      /\ left \subseteq Topics \cup {None} /\ faults \in 0 .. MaxFaults /\ MaxFaults \in Nat
      /\ \A r \in Requests : Shape(req[r])
  BY RunAssumption DEF TypeOK
<1>1. ASSUME NEW r \in Requests, Start(r) PROVE TypeOK'
  <2>1. ASSUME NEW k \in Runs, NEW t \in Topics, StartRun(r, k, t) PROVE TypeOK'
    <3> DEFINE to == [NoRequest EXCEPT !.pc = "check", !.kind = k, !.topic = t,
                        !.running = (task = "running"), !.late = late]
    <3>1. to \in RequestRecords /\ Shape(to)
      BY <1>0, RunAssumption
         DEF NoRequest, RequestRecords, NoAim, TaskStatus, Runs, RunPoints, Shape
    <3> QED BY <1>0, <2>1, <3>1, BecomeType DEF StartRun, TypeOK
  <2>2. ASSUME NEW t \in Topics, StartCancel(r, t) PROVE TypeOK'
    <3>1. Aiming("cancel", t) \in RequestRecords /\ Shape(Aiming("cancel", t))
      BY <1>0, <2>2, RowFacts, RunAssumption
         DEF StartCancel, Aiming, NoRequest, RequestRecords, NoAim, TaskStatus, Runs,
             CallPoints, Shape
    <3> QED BY <1>0, <2>2, <3>1, BecomeType DEF StartCancel, TypeOK
  <2>3. ASSUME NEW t \in Topics, StartDelete(r, t) PROVE TypeOK'
    <3>1. row[t].status = "running" =>
            Aiming("delete", t) \in RequestRecords /\ Shape(Aiming("delete", t))
      BY <1>0, <2>3, RowFacts, RunAssumption
         DEF Aiming, NoRequest, RequestRecords, NoAim, TaskStatus, Runs,
             CallPoints, Shape
    <3> DEFINE to == [NoRequest EXCEPT !.pc = "remove", !.kind = "delete", !.topic = t]
    <3>2. to \in RequestRecords /\ Shape(to)
      BY RunAssumption
         DEF NoRequest, RequestRecords, NoAim, TaskStatus, Runs, CallPoints, Shape
    <3> QED BY <1>0, <2>3, <3>1, <3>2, BecomeType DEF StartDelete, TypeOK
  <2>4. ASSUME NEW s \in TaskStatus, StartSet(r, s) PROVE TypeOK'
    <3> DEFINE to(p) == [NoRequest EXCEPT !.kind = "set", !.goal = s, !.pc = p]
    <3>1. ASSUME NEW p \in {"cascade", "write"}
          PROVE to(p) \in RequestRecords /\ Shape(to(p))
      BY <3>1, RunAssumption
         DEF NoRequest, RequestRecords, NoAim, TaskStatus, Runs, CallPoints, Shape
    <3> QED BY <1>0, <2>4, <3>1, BecomeType DEF StartSet, TypeOK
  <2>5. ASSUME StartDetail(r) PROVE TypeOK'
    <3> DEFINE to == [NoRequest EXCEPT !.pc = "write", !.kind = "detail",
                                       !.goal = "resting"]
    <3>1. to \in RequestRecords /\ Shape(to)
      BY RunAssumption
         DEF NoRequest, RequestRecords, NoAim, TaskStatus, Runs, CallPoints, Shape
    <3> QED BY <1>0, <2>5, <3>1, BecomeType DEF StartDetail, TypeOK
  <2> QED BY <1>1, <2>1, <2>2, <2>3, <2>4, <2>5 DEF Start
<1>2. ASSUME NEW o \in Requests, Operate(o) PROVE TypeOK'
  <2>1. op' \in [Requests -> Operations]
    <3>1. Over \in Operations
      BY DEF Over, NoOperation, Operations
    <3>2. CASE HookIgnores(o) \/ HookSettlesTask(o) \/ HookFails(o)
      BY <1>0, <3>1, <3>2 DEF HookIgnores, HookSettlesTask, HookFails
    <3>3. CASE \E why \in {"done", "error", "interrupted", "other"} : End(o, why)
      <4>1. PICK why \in {"done", "error", "interrupted", "other"} : End(o, why)
        BY <3>3
      <4>2. [op[o] EXCEPT !.status = "ended", !.reason = why] \in Operations
        BY <1>0 DEF Operations
      <4>3. op' = [op EXCEPT ![o] = [op[o] EXCEPT !.status = "ended", !.reason = why]]
        BY <1>0, <4>1 DEF End
      <4> QED BY <1>0, <4>2, <4>3
    <3>4. CASE InterruptDirectly(o)
      BY <1>0, <3>4, OpType DEF InterruptDirectly, InterruptTask
    <3>5. CASE HookBeats(o) \/ HookClosesRow(o)
      <4>1. PICK p \in {"closing", "settling"} : op' = [op EXCEPT ![o].status = p]
        BY <3>5 DEF HookBeats, HookClosesRow
      <4> QED BY <1>0, <4>1, OpType DEF Operations
    <3> QED BY <1>2, <3>2, <3>3, <3>4, <3>5 DEF Operate
  <2>2. row' \in [Topics -> Rows]
    <3>1. CASE HookClosesRow(o)
      <4> DEFINE s == IF op[o].reason = "done" THEN "completed" ELSE "failed"
      <4>1. CASE op[o].topic \in Topics
        BY <1>0, <3>1, <4>1, SetRowType DEF HookClosesRow
      <4>2. CASE op[o].topic \notin Topics
        BY <1>0, <3>1, <4>2 DEF HookClosesRow, SetRow
      <4> QED BY <4>1, <4>2
    <3> QED BY <1>0, <1>2, <3>1 DEF Operate, End, InterruptDirectly, HookBeats,
                                    HookIgnores, HookSettlesTask, HookFails
  <2>3. task' \in TaskStatus
    BY <1>0, <1>2 DEF Operate, End, InterruptDirectly, HookBeats, HookClosesRow,
         HookIgnores, HookSettlesTask, HookFails, TaskStatus
  <2>4. UNCHANGED <<stuck, requests>> /\ late' \in {late, FALSE}
    BY <1>0, <1>2 DEF Operate, End, InterruptDirectly, HookBeats, HookClosesRow,
         HookIgnores, HookSettlesTask, HookFails
  <2>5. left' \subseteq Topics \cup {None} /\ faults' \in 0 .. MaxFaults
    <3>1. op[o].topic \in Topics \cup {None}
      BY <1>0 DEF Operations
    <3>2. left' \in {left, left \cup {op[o].topic}}
      BY <1>2 DEF Operate, End, InterruptDirectly, HookBeats, HookClosesRow,
         HookIgnores, HookSettlesTask, HookFails
    <3>3. faults' \in 0 .. MaxFaults
      BY <1>0, <1>2 DEF Operate, End, InterruptDirectly, HookBeats, HookClosesRow,
         HookIgnores, HookSettlesTask, HookFails
    <3> QED BY <1>0, <3>1, <3>2, <3>3
  <2>6. late' \in BOOLEAN
    BY <1>0, <2>4
  <2> QED BY <1>0, <2>1, <2>2, <2>3, <2>4, <2>5, <2>6 DEF TypeOK
<1>3. ASSUME Beats \/ BeatStaysAway \/ WatchdogFinds \/ WatchdogFails PROVE TypeOK'
  <2>1. task' \in TaskStatus /\ late' \in BOOLEAN /\ stuck' \in BOOLEAN
    BY <1>0, <1>3 DEF Beats, BeatStaysAway, WatchdogFinds, WatchdogFails, TaskStatus
  <2>2. UNCHANGED <<row, op, requests, left>> /\ faults' \in 0 .. MaxFaults
    BY <1>0, <1>3 DEF Beats, BeatStaysAway, WatchdogFinds, WatchdogFails
  <2> QED BY <1>0, <2>1, <2>2 DEF TypeOK
<1>4. ASSUME UNCHANGED vars PROVE TypeOK'
  BY <1>0, <1>4 DEF vars, TypeOK
<1>5. ASSUME NEW r \in Requests, Continue(r) PROVE TypeOK'
  <2>0. /\ req[r] \in RequestRecords /\ Shape(req[r])
        /\ Shape(Through) /\ Through \in RequestRecords
    BY <1>0, Records DEF Shape, Runs
  <2> USE DEF RequestRecords
  <2> DEFINE Moves(p) == [req[r] EXCEPT !.pc = p]
  (* The steps that only move on, through a point where nothing but the    *)
  (* kind of request is asked for.                                         *)
  <2>1. ASSUME NEW p \in {"rollback", "timeout", "start", "exec", "beat", "pause"},
               req[r].kind \in Runs
        PROVE  Moves(p) \in RequestRecords /\ Shape(Moves(p))
    BY <2>0, <2>1 DEF Shape, Runs, RunPoints, CallPoints
  <2>2. ASSUME CheckTopics(r) \/ Rollback(r) \/ CleanUp(r) \/ SetRunning(r)
               \/ ExecAgent(r) \/ AddTopic(r) \/ ContinueTopic(r)
               \/ UpdateOperationId(r) \/ RunBeats(r)
        PROVE  req[r].kind \in Runs
    BY <2>0, <2>2, Records
       DEF CheckTopics, Rollback, CleanUp, SetRunning, ExecAgent, AddTopic,
           ContinueTopic, UpdateOperationId, RunBeats, At, Shape, CallPoints, Runs
  <2>3. CASE CheckTopics(r)
    BY <1>0, <2>1, <2>2, <2>3, BecomeType DEF CheckTopics, Go, Checked, TypeOK
  <2>4. CASE CleanUp(r)
    BY <1>0, <2>1, <2>2, <2>4, BecomeType, TimeoutRunningType
       DEF CleanUp, Go, Checked, TypeOK
  <2>5. CASE SetRunning(r)
    BY <1>0, <2>1, <2>2, <2>5, BecomeType DEF SetRunning, Go, TypeOK, TaskStatus
  <2>6. CASE ExecAgent(r)
    <3> DEFINE to == [req[r] EXCEPT !.running = FALSE, !.late = FALSE,
                        !.pc = IF req[r].kind = "new" THEN "add" ELSE "status"]
    <3> DEFINE to1(p) == [req[r] EXCEPT !.running = FALSE, !.late = FALSE, !.pc = p]
    <3>5. req[r].kind \in Runs
      BY <2>2, <2>6
    <3>0. to1("add") \in RequestRecords /\ Shape(to1("add"))
      BY <2>0, <3>5 DEF Shape, Runs, RunPoints, CallPoints
    <3>1. ASSUME req[r].kind = "continue"
          PROVE  to1("status") \in RequestRecords /\ Shape(to1("status"))
      BY <2>0, <3>1 DEF Shape, Runs, RunPoints, CallPoints
    <3>3. to = to1("add") \/ (req[r].kind = "continue" /\ to = to1("status"))
      BY <3>5 DEF Runs
    <3>4. to \in RequestRecords /\ Shape(to)
      BY <3>0, <3>1, <3>3
    <3>2. op' \in [Requests -> Operations]
      BY <1>0, <2>0, <2>6, OpType DEF ExecAgent
    <3> QED BY <1>0, <2>6, <3>4, <3>2, BecomeType DEF ExecAgent, TypeOK
  <2>7. CASE AddTopic(r)
    <3>1. row' \in [Topics -> Rows] /\ left' \subseteq Topics \cup {None}
      BY <1>0, <2>0, <2>2, <2>7 DEF AddTopic, Rows, Shape
    <3> QED BY <1>0, <2>1, <2>2, <2>7, <3>1, BecomeType DEF AddTopic, Go, TypeOK
  <2>8. CASE ContinueTopic(r)
    <3>1. req[r].topic \in Topics
      BY <2>0, <2>2, <2>8 DEF Shape
    <3>2. row' \in [Topics -> Rows] /\ left' \subseteq Topics \cup {None}
      BY <1>0, <2>8, <3>1, SetRowType DEF ContinueTopic
    <3>3. Moves("operation") \in RequestRecords /\ Shape(Moves("operation"))
      BY <2>0, <2>2, <2>8 DEF Shape, Runs, RunPoints, CallPoints, ContinueTopic, At
    <3> QED BY <1>0, <2>8, <3>2, <3>3, BecomeType DEF ContinueTopic, Go, TypeOK
  <2>9. CASE UpdateOperationId(r)
    <3>1. req[r].topic \in Topics
      BY <2>0, <2>2, <2>9 DEF Shape
    <3>2. row' \in [Topics -> Rows]
      BY <1>0, <2>9, <3>1, RowFacts DEF UpdateOperationId, HasRow, Rows
    <3> QED BY <1>0, <2>1, <2>2, <2>9, <3>2, BecomeType
            DEF UpdateOperationId, Go, TypeOK
  <2>10. CASE RunBeats(r)
    BY <1>0, <2>0, <2>10, BecomeType DEF RunBeats, TypeOK
  <2>11. CASE Rollback(r)
    BY <1>0, <2>0, <2>1, <2>2, <2>11, BecomeType DEF Rollback, Go, TypeOK
  <2>12. CASE PauseTask(r)
    BY <1>0, <2>0, <2>12, BecomeType DEF PauseTask, TypeOK, TaskStatus
  <2>13. ASSUME Interrupt(r) PROVE TypeOK'
    <3>1. op' \in [Requests -> Operations]
      BY <1>0, <2>0, <2>13, OpType DEF Interrupt, InterruptTask, At, Shape
    <3>2. req[r].kind \notin {"none"} \cup Runs /\ req[r].topic # None
          /\ req[r].aim[req[r].topic] # None
      BY <2>0, <2>13, Records DEF Interrupt, At, Shape, RunPoints, Runs
    <3>3. ASSUME NEW p \in {"cancel", "remove"}
          PROVE  Moves(p) \in RequestRecords /\ Shape(Moves(p))
      BY <2>0, <3>2, <3>3 DEF Shape, RunPoints, CallPoints
    <3> QED BY <1>0, <2>13, <3>1, <3>3, BecomeType DEF Interrupt, Go, TypeOK
  <2>14. ASSUME CancelRow(r) PROVE TypeOK'
    <3>1. req[r].kind \notin {"none"} \cup Runs /\ req[r].topic \in Topics
      BY <2>0, <2>14, Records DEF CancelRow, At, Shape, RunPoints, Runs
    <3> DEFINE to == [req[r] EXCEPT !.pc = "pause", !.aim = NoAim]
    <3>2. to \in RequestRecords /\ Shape(to)
      BY <2>0, <3>1, Records DEF Shape, RunPoints, CallPoints
    <3>3. row' \in [Topics -> Rows]
      BY <1>0, <2>14, <3>1, SetRowType DEF CancelRow
    <3> QED BY <1>0, <2>14, <3>2, <3>3, BecomeType DEF CancelRow, TypeOK
  <2>15. CASE RemoveRow(r)
    <3>1. row' \in [Topics -> Rows]
      BY <1>0, <2>15, RowFacts DEF RemoveRow
    <3> QED BY <1>0, <2>0, <2>15, <3>1, BecomeType DEF RemoveRow, TypeOK
  <2>16. ASSUME ReadTopics(r) PROVE TypeOK'
    <3> DEFINE aim == [t \in Topics |-> IF row[t].status = "running" THEN row[t].op
                                        ELSE None]
               to == [req[r] EXCEPT !.pc = "cascading", !.aim = aim]
    <3>1. req[r].kind \notin {"none"} \cup Runs
      BY <2>0, <2>16, Records DEF ReadTopics, At, Shape, RunPoints, Runs
    <3>2. req[r].topic = None
      BY <2>0, <2>16 DEF ReadTopics, At, Shape
    <3>3. aim \in [Topics -> Requests \cup {None}]
      BY <1>0, RowFacts
    <3> HIDE DEF aim
    <3>4. to \in RequestRecords /\ Shape(to)
      BY <2>0, <3>1, <3>2, <3>3 DEF Shape, RunPoints, CallPoints
    <3> QED BY <1>0, <2>16, <3>4, BecomeType DEF ReadTopics, TypeOK, aim
  <2>17. ASSUME NEW t \in Topics, CascadeInterrupt(r, t) PROVE TypeOK'
    <3> DEFINE to == [req[r] EXCEPT !.topic = t]
    <3>1. to \in RequestRecords /\ Shape(to)
      BY <2>0, <2>17, Records, RunAssumption
         DEF CascadeInterrupt, Aimed, At, Shape, Runs, RunPoints, CallPoints
    <3>2. op' \in [Requests -> Operations]
      BY <1>0, <2>0, <2>17, OpType DEF CascadeInterrupt, Aimed, InterruptTask
    <3> QED BY <1>0, <2>17, <3>1, <3>2, BecomeType DEF CascadeInterrupt, TypeOK
  <2>18. ASSUME NEW t \in Topics, CascadeSkips(r, t) PROVE TypeOK'
    <3> DEFINE to == [req[r] EXCEPT !.aim[t] = None]
    <3>1. to \in RequestRecords /\ Shape(to)
      BY <2>0, <2>18, Records
         DEF CascadeSkips, Aimed, At, Shape, Runs, RunPoints, CallPoints
    <3>2. faults' \in 0 .. MaxFaults
      BY <1>0, <2>18 DEF CascadeSkips
    <3>3. req[r].aim[t] \in Requests
      BY <2>0, <2>18 DEF CascadeSkips, Aimed
    <3>4. op' \in [Requests -> Operations] /\ left' \subseteq Topics \cup {None}
      BY <1>0, <2>18, <3>3, ThrowType DEF CascadeSkips
    <3> QED BY <1>0, <2>18, <3>1, <3>2, <3>4, BecomeType DEF CascadeSkips, TypeOK
  <2>23. ASSUME InterruptFails(r) PROVE TypeOK'
    <3>1. req[r].topic \in Topics /\ req[r].aim[req[r].topic] \in Requests
      BY <2>0, <2>23 DEF InterruptFails, At, Shape
    <3>2. op' \in [Requests -> Operations] /\ left' \subseteq Topics \cup {None}
      BY <1>0, <2>23, <3>1, ThrowType DEF InterruptFails
    <3>3. faults' \in 0 .. MaxFaults
      BY <1>0, <2>23 DEF InterruptFails
    <3> QED BY <1>0, <2>0, <2>23, <3>2, <3>3, BecomeType DEF InterruptFails, TypeOK
  <2>19. ASSUME CascadeCancel(r) PROVE TypeOK'
    <3> DEFINE t == req[r].topic
               to == [req[r] EXCEPT !.topic = None, !.aim[t] = None]
    <3>1. t \in Topics /\ to \in RequestRecords /\ Shape(to)
      BY <2>0, <2>19, Records
         DEF CascadeCancel, At, Shape, Runs, RunPoints, CallPoints
    <3>2. row' \in [Topics -> Rows]
      BY <1>0, <2>19, <3>1, SetRowType DEF CascadeCancel
    <3> QED BY <1>0, <2>19, <3>1, <3>2, BecomeType DEF CascadeCancel, TypeOK
  <2>20. ASSUME WriteStatus(r) PROVE TypeOK'
    <3>1. req[r].kind = "detail" => Moves("clear") \in RequestRecords /\ Shape(Moves("clear"))
      BY <2>0 DEF Shape, Runs, RunPoints, CallPoints
    <3> QED BY <1>0, <2>0, <2>20, <3>1, BecomeType DEF WriteStatus, Go, TypeOK
  <2>21. CASE ClearRows(r)
    BY <1>0, <2>0, <2>21, BecomeType, TimeoutRunningType DEF ClearRows, TypeOK
  <2>22. ASSUME Fail(r) PROVE TypeOK'
    <3>1. faults' \in 0 .. MaxFaults /\ left' \subseteq Topics \cup {None}
      BY <1>0, <2>22 DEF Fail, Interrupted
    <3> QED BY <1>0, <2>0, <2>1, <2>22, <3>1, BecomeType DEF Fail, Go, TypeOK
  <2> QED
    BY <1>5, <2>3, <2>4, <2>5, <2>6, <2>7, <2>8, <2>9, <2>10, <2>11, <2>12, <2>13,
       <2>14, <2>15, <2>16, <2>17, <2>18, <2>19, <2>20, <2>21, <2>22,
       <2>23 DEF Continue
<1> QED
  BY <1>1, <1>2, <1>3, <1>4, <1>5 DEF Next

----------------------------------------------------------------------------

(* Operations go on and never come back.                                   *)
OpsGoOn ==
  \A o \in Requests :
    /\ op[o].status # "none" => op'[o].status # "none"
    /\ op[o].status \notin {"none", "live"} => op'[o].status \notin {"none", "live"}

(* A step that moves one request and leaves rows and operations alone.     *)
LEMMA RequestStep ==
  ASSUME TypeOK, Stopping, NEW r \in Requests, NEW to \in RequestRecords,
         Shape(to), Become(r, to), UNCHANGED <<row, op>>,
         \A t \in Topics : to.aim[t] # None =>
            to.aim[t] = req[r].aim[t] \/ (HasRow(t) /\ to.aim[t] = row[t].op),
         to.pc # "cancel" /\ (to.pc = "cascading" => to.topic = None),
         to.pc \notin {"operation", "add", "status"},
         to.pc \in {"idle", "check", "timeout", "start", "exec"} =>
           req[r].pc \in {"idle", "check", "timeout", "start", "exec"}
  PROVE  Stopping'
<1>1. /\ req' = [req EXCEPT ![r] = to] /\ req \in [Requests -> RequestRecords]
      /\ row \in [Topics -> Rows] /\ overlap \subseteq overlap'
      /\ Overlapping(req') \subseteq overlap'
  BY DEF Become, TypeOK
<1>2. RunsKnown'
  BY <1>1 DEF Stopping, RunsKnown, Known
<1>3. RowsKnown'
  BY <1>1 DEF Stopping, RowsKnown, Known, HasRow
<1>4. AimsHold'
  <2> SUFFICES ASSUME NEW q \in Requests, NEW t \in Topics, req'[q].aim[t] # None
               PROVE  /\ op'[req'[q].aim[t]].status # "none" /\ row'[t] # NoRow
                      /\ t \notin overlap' => row'[t].op \in {req'[q].aim[t], None}
    BY DEF AimsHold, Known
  <2>1. CASE req'[q].aim[t] = req[q].aim[t]
    BY <1>1, <2>1 DEF Stopping, AimsHold, Known
  <2>2. CASE HasRow(t) /\ req'[q].aim[t] = row[t].op
    BY <1>1, <2>2, RowFacts DEF Stopping, RowsKnown, HasRow, Known
  <2> QED BY <1>1, <2>1, <2>2
<1>5. InterruptsFirst'
  BY <1>1 DEF Stopping, InterruptsFirst, Stopped
<1>6. ClaimsOpenRow'
  BY <1>1 DEF Stopping, ClaimsOpenRow
<1>7. CanceledStopped'
  BY <1>1 DEF Stopping, CanceledStopped, Stopped
<1> QED
  BY <1>1, <1>2, <1>3, <1>4, <1>5, <1>6, <1>7 DEF Stopping, OverlapSeen

(* A step of an operation.  It cancels no row and hands none over.         *)
LEMMA OperationStep ==
  ASSUME TypeOK, Stopping, UNCHANGED requests, OpsGoOn,
         \A o \in Requests : op[o].status = "none" => op'[o].status = "none",
         \A t \in Topics : /\ row'[t].op = row[t].op
                           /\ row'[t] = NoRow <=> row[t] = NoRow
                           /\ row'[t].status = "canceled" => row[t].status = "canceled"
  PROVE  Stopping'
<1>0. /\ req' = req /\ overlap' = overlap
      /\ \A t \in Topics : row[t].op # None => row[t].op \in Requests
      /\ \A r \in Requests : req[r] \in RequestRecords /\ Shape(req[r])
      /\ \A r \in Requests, t \in Topics :
           req[r].aim[t] # None => req[r].aim[t] \in Requests
  <2>1. \A t \in Topics : row[t].op # None => row[t].op \in Requests
    BY RowFacts DEF TypeOK
  <2>2. \A r \in Requests : req[r].aim \in [Topics -> Requests \cup {None}]
    BY DEF TypeOK, RequestRecords
  <2> QED BY <2>1, <2>2 DEF requests, TypeOK
<1>1. RowsKnown' /\ RunsKnown'
  BY <1>0 DEF Stopping, RunsKnown, RowsKnown, HasRow, Known, OpsGoOn
<1>2. AimsHold'
  BY <1>0 DEF Stopping, AimsHold, Known, OpsGoOn
<1>3. InterruptsFirst'
  <2> SUFFICES ASSUME NEW r \in Requests,
                      req[r].pc = "cancel" \/ (req[r].pc = "cascading" /\ req[r].topic # None)
               PROVE  op'[req[r].aim[req[r].topic]].status \notin {"none", "live"}
    BY <1>0 DEF InterruptsFirst, Stopped
  <2>1. req[r].topic \in Topics /\ req[r].aim[req[r].topic] # None
    BY <1>0 DEF RequestRecords, Shape
  <2> QED BY <1>0, <2>1 DEF Stopping, InterruptsFirst, Stopped, OpsGoOn
<1>4. OverlapSeen' /\ ClaimsOpenRow'
  <2> SUFFICES ASSUME NEW r \in Requests, req[r].pc = "operation",
                      req[r].topic \notin overlap
               PROVE  row'[req[r].topic].status # "canceled"
    BY <1>0 DEF Stopping, OverlapSeen, ClaimsOpenRow
  <2>1. req[r].topic \in Topics
    BY <1>0 DEF Shape, RequestRecords, Runs
  <2> QED BY <2>1 DEF Stopping, ClaimsOpenRow
<1>5. CanceledStopped'
  <2> SUFFICES ASSUME NEW t \in Topics \ overlap, row[t].status = "canceled"
               PROVE  op'[row[t].op].status \notin {"none", "live"}
    BY <1>0 DEF CanceledStopped, Stopped
  <2>1. row[t].op # None
    BY RowFacts DEF TypeOK
  <2> QED BY <1>0, <2>1 DEF Stopping, CanceledStopped, Stopped, OpsGoOn
<1> QED
  BY <1>1, <1>2, <1>3, <1>4, <1>5 DEF Stopping

(* A step that moves one request and goes on with an operation.            *)
LEMMA OpRequestStep ==
  ASSUME TypeOK, Stopping, NEW r \in Requests, NEW to \in RequestRecords,
         Shape(to), Become(r, to), UNCHANGED row, OpsGoOn,
         \A o \in Requests \ {r} : op[o].status = "none" => op'[o].status = "none",
         \A t \in Topics : to.aim[t] # None => to.aim[t] = req[r].aim[t],
         to.pc = "cancel" \/ (to.pc = "cascading" /\ to.topic # None) =>
           op'[to.aim[to.topic]].status \notin {"none", "live"},
         to.pc \notin {"idle", "check", "timeout", "start", "exec", "operation"},
         to.pc \in {"add", "status"} => op'[r].status # "none"
  PROVE  Stopping'
<1>1. /\ req' = [req EXCEPT ![r] = to] /\ req \in [Requests -> RequestRecords]
      /\ row \in [Topics -> Rows] /\ overlap \subseteq overlap' /\ row' = row
      /\ Overlapping(req') \subseteq overlap'
      /\ \A q \in Requests : req[q] \in RequestRecords /\ Shape(req[q])
  BY DEF Become, TypeOK
<1>2. RunsKnown'
  <2> SUFFICES ASSUME NEW q \in Requests
               PROVE  /\ req'[q].pc \in {"idle", "check", "timeout", "start", "exec"}
                           => op'[q].status = "none"
                      /\ req'[q].pc \in {"add", "status", "operation"}
                           => op'[q].status # "none"
    BY DEF RunsKnown, Known
  <2> QED BY <1>1 DEF Stopping, RunsKnown, Known, OpsGoOn
<1>3. RowsKnown'
  <2> SUFFICES ASSUME NEW t \in Topics, row[t].op # None
               PROVE  op'[row[t].op].status # "none"
    BY <1>1 DEF RowsKnown, Known, HasRow
  <2> QED BY <1>1, RowFacts DEF Stopping, RowsKnown, Known, HasRow, OpsGoOn
<1>4. AimsHold'
  <2> SUFFICES ASSUME NEW q \in Requests, NEW t \in Topics, req'[q].aim[t] # None
               PROVE  /\ op'[req'[q].aim[t]].status # "none" /\ row'[t] # NoRow
                      /\ t \notin overlap' => row'[t].op \in {req'[q].aim[t], None}
    BY DEF AimsHold, Known
  <2>1. req'[q].aim[t] = req[q].aim[t] /\ req[q].aim[t] \in Requests
    BY <1>1 DEF RequestRecords
  <2> QED BY <1>1, <2>1 DEF Stopping, AimsHold, Known, OpsGoOn
<1>5. InterruptsFirst'
  <2> SUFFICES ASSUME NEW q \in Requests,
                 req'[q].pc = "cancel" \/ (req'[q].pc = "cascading" /\ req'[q].topic # None)
               PROVE  op'[req'[q].aim[req'[q].topic]].status \notin {"none", "live"}
    BY DEF InterruptsFirst, Stopped
  <2>1. CASE q = r
    BY <1>1, <2>1
  <2>2. CASE q # r
    <3>1. req[q].topic \in Topics /\ req[q].aim[req[q].topic] \in Requests
      BY <1>1, <2>2 DEF RequestRecords, Shape
    <3> QED BY <1>1, <2>2, <3>1 DEF Stopping, InterruptsFirst, Stopped, OpsGoOn
  <2> QED BY <2>1, <2>2
<1>6. ClaimsOpenRow'
  BY <1>1 DEF Stopping, ClaimsOpenRow
<1>7. CanceledStopped'
  <2> SUFFICES ASSUME NEW t \in Topics \ overlap', row[t].status = "canceled"
               PROVE  op'[row[t].op].status \notin {"none", "live"}
    BY <1>1 DEF CanceledStopped, Stopped
  <2>1. row[t].op \in Requests
    BY <1>1, RowFacts
  <2> QED BY <1>1, <2>1 DEF Stopping, CanceledStopped, Stopped, OpsGoOn
<1> QED
  BY <1>1, <1>2, <1>3, <1>4, <1>5, <1>6, <1>7 DEF Stopping, OverlapSeen

(* A step that moves one request and writes rows, none of them for another *)
(* operation.  A row it cancels is one it aimed at.                        *)
LEMMA RowRequestStep ==
  ASSUME TypeOK, Stopping, NEW r \in Requests, NEW to \in RequestRecords,
         Shape(to), Become(r, to), UNCHANGED op,
         \A t \in Topics : row'[t].op \in {row[t].op, None},
         \A t \in Topics : row[t] # NoRow => row'[t] # NoRow,
         \A t \in Topics \ overlap : row'[t].status = "canceled" =>
           \/ row[t].status = "canceled" /\ row'[t].op = row[t].op
           \/ req[r].aim[t] # None /\ op[row'[t].op].status \notin {"none", "live"},
         \A t \in Topics : to.aim[t] # None => to.aim[t] = req[r].aim[t],
         to.pc # "cancel" /\ (to.pc = "cascading" => to.topic = None),
         to.pc = "operation" =>
           row'[to.topic].status # "canceled" /\ req[r].pc = "status",
         to.pc \notin {"add", "status"},
         to.pc \in {"idle", "check", "timeout", "start", "exec"} =>
           req[r].pc \in {"idle", "check", "timeout", "start", "exec"}
  PROVE  Stopping'
<1>1. /\ req' = [req EXCEPT ![r] = to] /\ req \in [Requests -> RequestRecords]
      /\ row \in [Topics -> Rows] /\ overlap \subseteq overlap' /\ op' = op
      /\ Overlapping(req') \subseteq overlap'
      /\ \A q \in Requests : req[q] \in RequestRecords /\ Shape(req[q])
  BY DEF Become, TypeOK
<1>2. RunsKnown'
  BY <1>1 DEF Stopping, RunsKnown, Known
<1>3. RowsKnown'
  BY <1>1 DEF Stopping, RowsKnown, Known, HasRow
<1>4. AimsHold'
  <2> SUFFICES ASSUME NEW q \in Requests, NEW t \in Topics, req'[q].aim[t] # None
               PROVE  /\ op'[req'[q].aim[t]].status # "none" /\ row'[t] # NoRow
                      /\ t \notin overlap' => row'[t].op \in {req'[q].aim[t], None}
    BY DEF AimsHold, Known
  <2>1. req'[q].aim[t] = req[q].aim[t]
    BY <1>1
  <2> QED BY <1>1, <2>1 DEF Stopping, AimsHold, Known
<1>5. InterruptsFirst'
  BY <1>1 DEF Stopping, InterruptsFirst, Stopped
<1>6. ClaimsOpenRow'
  <2> SUFFICES ASSUME NEW q \in Requests, req'[q].pc = "operation",
                      req'[q].topic \notin overlap'
               PROVE  row'[req'[q].topic].status # "canceled"
    BY DEF ClaimsOpenRow
  <2>1. CASE q = r
    BY <1>1, <2>1
  <2>2. ASSUME q # r, row'[req[q].topic].status = "canceled" PROVE FALSE
    <3>1. /\ req[q].pc = "operation" /\ req[q].topic \in Topics \ overlap
          /\ req[q].kind = "continue"
      BY <1>1, <2>2 DEF Shape, RequestRecords, Runs
    <3>2. row[req[q].topic].status # "canceled"
      BY <3>1 DEF Stopping, ClaimsOpenRow
    <3>3. req[r].aim[req[q].topic] # None
      BY <2>2, <3>1, <3>2
    <3>4. req[q].topic \in Overlapping(req)
      BY <3>1, <3>3 DEF Overlapping, Continuing
    <3> QED BY <3>1, <3>4 DEF Stopping, OverlapSeen
  <2> QED BY <1>1, <2>1, <2>2
<1>7. CanceledStopped'
  <2> SUFFICES ASSUME NEW t \in Topics \ overlap', row'[t].status = "canceled"
               PROVE  op[row'[t].op].status \notin {"none", "live"}
    BY <1>1 DEF CanceledStopped, Stopped
  <2> QED BY <1>1 DEF Stopping, CanceledStopped, Stopped
<1> QED
  BY <1>1, <1>2, <1>3, <1>4, <1>5, <1>6, <1>7 DEF Stopping, OverlapSeen

LEMMA BecomeShape ==
  ASSUME TypeOK, TypeOK', NEW r \in Requests, NEW to, Become(r, to)
  PROVE  to \in RequestRecords /\ Shape(to)
<1>1. req'[r] = to
  BY DEF Become, TypeOK
<1> QED BY <1>1 DEF TypeOK

(* The start of a request: it has read of the rows what they say.          *)
LEMMA StartStopping ==
  ASSUME TypeOK, TypeOK', Stopping, NEW r \in Requests, Start(r)
  PROVE  Stopping'
<1> USE DEF At
<1>0. \A t \in Topics : NoAim[t] = None
  BY Records
<1>1. ASSUME NEW k \in Runs, NEW t \in Topics, StartRun(r, k, t) PROVE Stopping'
  <2> DEFINE to == [NoRequest EXCEPT !.pc = "check", !.kind = k, !.topic = t,
                      !.running = (task = "running"), !.late = late]
  <2>1. to.aim = NoAim /\ to.pc = "check"
    BY DEF NoRequest
  <2>2. Become(r, to) /\ UNCHANGED <<row, op>> /\ req[r].pc = "idle"
    BY <1>1 DEF StartRun
  <2>3. to \in RequestRecords /\ Shape(to)
    BY <2>2, BecomeShape
  <2> HIDE DEF to
  <2> QED BY <1>0, <2>1, <2>2, <2>3, RequestStep
<1>2. ASSUME NEW t \in Topics, NEW k \in {"cancel", "delete"},
             Become(r, Aiming(k, t)), row[t].status = "running",
             UNCHANGED <<row, op>>
      PROVE  Stopping'
  <2>1. Aiming(k, t) \in RequestRecords /\ Shape(Aiming(k, t))
    BY <1>2, BecomeShape
  <2>2. Aiming(k, t).pc = "interrupt" /\ Aiming(k, t).aim = [NoAim EXCEPT ![t] = row[t].op]
    BY DEF Aiming, NoRequest
  <2>3. row[t].op # None
    BY <1>2, RowFacts DEF TypeOK
  <2>4. \A u \in Topics : Aiming(k, t).aim[u] # None =>
                            HasRow(u) /\ Aiming(k, t).aim[u] = row[u].op
    BY <2>2, <2>3 DEF HasRow, NoAim
  <2> QED BY <1>2, <2>1, <2>2, <2>4, RequestStep
<1>3. ASSUME NEW p \in {"remove", "cascade", "write"}, NEW to, Become(r, to),
             to.aim = NoAim, to.pc = p, UNCHANGED <<row, op>>
      PROVE  Stopping'
  <2>1. to \in RequestRecords /\ Shape(to)
    BY <1>3, BecomeShape
  <2> QED BY <1>0, <1>3, <2>1, RequestStep
<1>4. ASSUME NEW t \in Topics, StartCancel(r, t) PROVE Stopping'
  BY <1>2, <1>4 DEF StartCancel
<1>5. ASSUME NEW t \in Topics, StartDelete(r, t) PROVE Stopping'
  <2> DEFINE to == [NoRequest EXCEPT !.pc = "remove", !.kind = "delete", !.topic = t]
  <2>1. to.aim = NoAim /\ to.pc = "remove"
    BY DEF NoRequest
  <2>2. (row[t].status = "running" /\ Become(r, Aiming("delete", t))) \/ Become(r, to)
    BY <1>5 DEF StartDelete
  <2>3. UNCHANGED <<row, op>>
    BY <1>5 DEF StartDelete
  <2> HIDE DEF to
  <2> QED BY <1>2, <1>3, <2>1, <2>2, <2>3
<1>6. ASSUME NEW s \in TaskStatus, StartSet(r, s) PROVE Stopping'
  <2> DEFINE to == [NoRequest EXCEPT !.kind = "set", !.goal = s,
       !.pc = IF task = "running" /\ s # "running" THEN "cascade" ELSE "write"]
  <2>1. to.aim = NoAim /\ to.pc \in {"cascade", "write"}
    BY DEF NoRequest
  <2>2. Become(r, to) /\ UNCHANGED <<row, op>>
    BY <1>6 DEF StartSet
  <2> HIDE DEF to
  <2> QED BY <1>3, <2>1, <2>2
<1>7. ASSUME StartDetail(r) PROVE Stopping'
  <2> DEFINE to == [NoRequest EXCEPT !.pc = "write", !.kind = "detail",
                                     !.goal = "resting"]
  <2>1. to.aim = NoAim /\ to.pc = "write"
    BY DEF NoRequest
  <2>2. Become(r, to) /\ UNCHANGED <<row, op>>
    BY <1>7 DEF StartDetail
  <2> HIDE DEF to
  <2> QED BY <1>3, <2>1, <2>2
<1> QED
  BY <1>1, <1>4, <1>5, <1>6, <1>7 DEF Start

(* The next step of a request.                                             *)
(* A request interrupts the operation o.                                   *)
LEMMA ToldStopping ==
  ASSUME TypeOK, Stopping, NEW r \in Requests, NEW to \in RequestRecords, Shape(to),
         Become(r, to), UNCHANGED row, NEW o \in Requests, InterruptTask(o), Known(o),
         \A t \in Topics : to.aim[t] # None => to.aim[t] = req[r].aim[t],
         to.pc = "cancel" \/ (to.pc = "cascading" /\ to.topic # None) =>
           to.aim[to.topic] = o,
         to.pc \in {"cancel", "remove", "cascading", "done"}
  PROVE  Stopping'
<1>1. /\ op'[o].status \notin {"none", "live"}
      /\ \A u \in Requests \ {o} : op'[u] = op[u]
  BY DEF InterruptTask, Known, Operations, TypeOK
<1>2. OpsGoOn /\ \A u \in Requests \ {r} : op[u].status = "none" => op'[u].status = "none"
  BY <1>1 DEF OpsGoOn, Known
<1> QED BY <1>1, <1>2, OpRequestStep

LEMMA ContinueStopping ==
  ASSUME TypeOK, TypeOK', Stopping, NEW r \in Requests, Continue(r)
  PROVE  Stopping'
<1> USE DEF At
<1>0. /\ req[r] \in RequestRecords /\ Shape(req[r])
      /\ row \in [Topics -> Rows] /\ op \in [Requests -> Operations]
      /\ \A t \in Topics : NoAim[t] = None
      /\ Through.aim = NoAim /\ Through.pc = "done"
  BY Records DEF TypeOK
<1>1. ASSUME NEW p, Go(r, p), UNCHANGED <<row, op>>,
             p \notin {"cancel", "cascading", "operation", "add", "status"},
             p \in {"idle", "check", "timeout", "start", "exec"} =>
               req[r].pc \in {"check", "timeout", "start"}
      PROVE  Stopping'
  <2> DEFINE to == [req[r] EXCEPT !.pc = p]
  <2>1. to.aim = req[r].aim /\ to.pc = p
    BY <1>0 DEF RequestRecords
  <2>2. Become(r, to)
    BY <1>1 DEF Go
  <2>3. to \in RequestRecords /\ Shape(to)
    BY <2>2, BecomeShape
  <2> HIDE DEF to
  <2> QED BY <1>1, <2>1, <2>2, <2>3, RequestStep
<1>2. ASSUME Become(r, Through), UNCHANGED <<row, op>> PROVE Stopping'
  <2>1. Through \in RequestRecords /\ Shape(Through)
    BY <1>2, BecomeShape
  <2> QED BY <1>0, <1>2, <2>1, RequestStep
<1>3. CASE CheckTopics(r)
  BY <1>1, <1>3 DEF CheckTopics, Checked
<1>4. CASE CleanUp(r)
  <2> DEFINE to == [req[r] EXCEPT !.pc = Checked(r)]
  <2>1. to.aim = req[r].aim /\ to.pc \in {"exec", "start"}
    BY <1>0 DEF RequestRecords, Checked
  <2>2. Become(r, to) /\ TimeoutRunning /\ UNCHANGED op /\ req[r].pc = "timeout"
    BY <1>4 DEF CleanUp, Go
  <2>3. to \in RequestRecords /\ Shape(to)
    BY <2>2, BecomeShape
  <2> HIDE DEF to
  <2> QED BY <1>0, <2>1, <2>2, <2>3, TimeoutRunningType, RowRequestStep
<1>5. CASE SetRunning(r)
  BY <1>1, <1>5 DEF SetRunning
<1>6. CASE ExecAgent(r)
  <2> DEFINE to == [req[r] EXCEPT !.running = FALSE, !.late = FALSE,
                      !.pc = IF req[r].kind = "new" THEN "add" ELSE "status"]
  <2>1. to.aim = req[r].aim /\ to.pc \in {"add", "status"}
    BY <1>0 DEF RequestRecords
  <2>2. Become(r, to) /\ UNCHANGED row
    BY <1>6 DEF ExecAgent
  <2>3. to \in RequestRecords /\ Shape(to)
    BY <2>2, BecomeShape
  <2>4. op[r].status = "none"
    BY <1>6 DEF ExecAgent, Stopping, RunsKnown, Known
  <2>5. op' = [op EXCEPT ![r].status = "live", ![r].topic = req[r].topic]
    BY <1>6 DEF ExecAgent
  <2>6. \A o \in Requests \ {r} : op'[o] = op[o]
    BY <1>0, <2>5
  <2>7. op'[r].status = "live"
    BY <1>0, <2>5 DEF Operations
  <2>8. OpsGoOn
    BY <2>4, <2>6, <2>7 DEF OpsGoOn
  <2> HIDE DEF to
  <2> QED BY <2>1, <2>2, <2>3, <2>6, <2>7, <2>8, OpRequestStep
<1>7. CASE RunBeats(r)
  BY <1>2, <1>7 DEF RunBeats
<1>8. CASE Rollback(r)
  BY <1>1, <1>2, <1>8 DEF Rollback
<1>9. CASE PauseTask(r)
  BY <1>2, <1>9 DEF PauseTask
<1>10. CASE WriteStatus(r)
  BY <1>1, <1>2, <1>10 DEF WriteStatus
<1>11. CASE Fail(r)
  BY <1>1, <1>2, <1>11 DEF Fail
<1>12. CASE ClearRows(r)
  <2>1. Through \in RequestRecords /\ Shape(Through)
    BY <1>12, BecomeShape DEF ClearRows
  <2>2. Become(r, Through) /\ TimeoutRunning /\ UNCHANGED op
    BY <1>12 DEF ClearRows
  <2> QED BY <1>0, <2>1, <2>2, TimeoutRunningType, RowRequestStep
<1>13. CASE RemoveRow(r)
  <2>1. Through \in RequestRecords /\ Shape(Through)
    BY <1>13, BecomeShape DEF RemoveRow
  <2>2. Become(r, Through) /\ UNCHANGED op
    BY <1>13 DEF RemoveRow
  <2>3. \A t \in Topics : row'[t] \in {row[t], Deleted}
    BY <1>0, <1>13 DEF RemoveRow
  <2> QED BY <1>0, <2>1, <2>2, <2>3, RowFacts, RowRequestStep
<1>14. CASE ReadTopics(r)
  <2> DEFINE aim == [t \in Topics |-> IF row[t].status = "running" THEN row[t].op
                                      ELSE None]
             to == [req[r] EXCEPT !.pc = "cascading", !.aim = aim]
  <2>1. to.aim = aim /\ to.pc = "cascading" /\ to.topic = req[r].topic
    BY <1>0 DEF RequestRecords
  <2>2. Become(r, to) /\ UNCHANGED <<row, op>> /\ req[r].pc = "cascade"
    BY <1>14 DEF ReadTopics
  <2>3. to \in RequestRecords /\ Shape(to) /\ to.topic = None
    BY <1>0, <2>1, <2>2, BecomeShape DEF Shape
  <2>4. \A t \in Topics : to.aim[t] # None => HasRow(t) /\ to.aim[t] = row[t].op
    BY <2>1 DEF HasRow
  <2> HIDE DEF to, aim
  <2> QED BY <2>1, <2>2, <2>3, <2>4, RequestStep
<1>15. ASSUME NEW t \in Topics, CascadeSkips(r, t) PROVE Stopping'
  <2> DEFINE to == [req[r] EXCEPT !.aim[t] = None]
  <2>1. /\ to.pc = req[r].pc /\ to.topic = req[r].topic
        /\ \A u \in Topics : to.aim[u] \in {req[r].aim[u], None}
    BY <1>0 DEF RequestRecords
  <2>2. /\ Become(r, to) /\ UNCHANGED row /\ InterruptThrows(req[r].aim[t], t)
        /\ req[r].pc = "cascading" /\ req[r].topic = None /\ req[r].aim[t] # None
    BY <1>15 DEF CascadeSkips, Aimed
  <2>3. to \in RequestRecords /\ Shape(to)
    BY <2>2, BecomeShape
  <2> HIDE DEF to
  <2>4. CASE UNCHANGED op
    BY <2>1, <2>2, <2>3, <2>4, RequestStep
  <2>5. CASE InterruptTask(req[r].aim[t])
    <3>1. Known(req[r].aim[t]) /\ req[r].aim[t] \in Requests
      BY <1>0, <2>2 DEF Stopping, AimsHold, RequestRecords
    <3> QED BY <2>1, <2>2, <2>3, <2>5, <3>1, ToldStopping
  <2> QED BY <2>2, <2>4, <2>5 DEF InterruptThrows
<1>27. CASE InterruptFails(r)
  <2> DEFINE t == req[r].topic
  <2>1. Through \in RequestRecords /\ Shape(Through) /\ UNCHANGED row
    BY <1>27, BecomeShape DEF InterruptFails
  <2>2. t \in Topics /\ req[r].aim[t] # None
    BY <1>0, <1>27 DEF InterruptFails, Shape, RequestRecords
  <2>3. CASE UNCHANGED op
    BY <1>2, <1>27, <2>1, <2>3 DEF InterruptFails
  <2>4. CASE InterruptTask(req[r].aim[t])
    <3>1. Known(req[r].aim[t]) /\ req[r].aim[t] \in Requests
      BY <1>0, <2>2 DEF Stopping, AimsHold, RequestRecords
    <3>2. Become(r, Through)
      BY <1>27 DEF InterruptFails
    <3> QED BY <1>0, <2>1, <2>4, <3>1, <3>2, ToldStopping
  <2> QED BY <1>27, <2>3, <2>4 DEF InterruptFails, InterruptThrows
<1>16. ASSUME NEW o \in Requests, NEW to, Become(r, to), UNCHANGED row, InterruptTask(o),
              to.aim = req[r].aim, Known(o),
              to.pc = "cancel" \/ (to.pc = "cascading" /\ to.topic # None) =>
                to.aim[to.topic] = o,
              to.pc \in {"cancel", "remove", "cascading"}
       PROVE  Stopping'
  <2>1. to \in RequestRecords /\ Shape(to)
    BY <1>16, BecomeShape
  <2> QED BY <1>16, <2>1, ToldStopping
<1>17. CASE Interrupt(r)
  <2> DEFINE p == IF req[r].kind = "cancel" THEN "cancel" ELSE "remove"
             to == [req[r] EXCEPT !.pc = p]
             o == req[r].aim[req[r].topic]
  <2>1. to.aim = req[r].aim /\ to.pc = p /\ to.topic = req[r].topic
    BY <1>0 DEF RequestRecords
  <2>2. Become(r, to) /\ UNCHANGED row /\ InterruptTask(o) /\ req[r].pc = "interrupt"
    BY <1>17 DEF Interrupt, Go
  <2>3. o \in Requests /\ req[r].topic \in Topics /\ o # None
    BY <1>0, <2>2 DEF Shape, RequestRecords
  <2>4. Known(o)
    BY <2>3 DEF Stopping, AimsHold
  <2>5. p \in {"cancel", "remove"}
    OBVIOUS
  <2> HIDE DEF to, p
  <2> QED BY <1>16, <2>1, <2>2, <2>3, <2>4, <2>5
<1>18. ASSUME NEW t \in Topics, CascadeInterrupt(r, t) PROVE Stopping'
  <2> DEFINE to == [req[r] EXCEPT !.topic = t]
  <2>1. to.aim = req[r].aim /\ to.pc = req[r].pc /\ to.topic = t
    BY <1>0 DEF RequestRecords
  <2>2. /\ Become(r, to) /\ UNCHANGED row /\ InterruptTask(req[r].aim[t])
        /\ req[r].pc = "cascading" /\ req[r].aim[t] # None
    BY <1>18 DEF CascadeInterrupt, Aimed
  <2>3. req[r].aim[t] \in Requests
    BY <1>0, <2>2 DEF RequestRecords
  <2>4. Known(req[r].aim[t])
    BY <2>2 DEF Stopping, AimsHold
  <2> HIDE DEF to
  <2> QED BY <1>16, <2>1, <2>2, <2>3, <2>4
(* The row that is canceled still belongs to the operation that was told,  *)
(* unless it is gone or continued.                                         *)
<1>19. ASSUME NEW t \in Topics, NEW to, Become(r, to), UNCHANGED op,
              SetRow(t, "canceled"), req[r].topic = t, req[r].aim[t] # None,
              req[r].pc \in {"cancel", "cascading"},
              \A u \in Topics : to.aim[u] # None => to.aim[u] = req[r].aim[u],
              to.pc = "pause" \/ (to.pc = "cascading" /\ to.topic = None)
       PROVE  Stopping'
  <2>1. to \in RequestRecords /\ Shape(to)
    BY <1>19, BecomeShape
  <2>2. Stopped(req[r].aim[t])
    BY <1>19, RunAssumption DEF Stopping, InterruptsFirst
  <2>3. t \notin overlap => row[t].op \in {req[r].aim[t], None}
    BY <1>19 DEF Stopping, AimsHold
  <2>4. row[t].op = None => row[t].status # "canceled"
    BY <1>0, RowFacts
  <2>5. /\ \A u \in Topics : row'[u].op = row[u].op
        /\ \A u \in Topics : u # t => row'[u] = row[u]
        /\ \A u \in Topics : row'[u] = NoRow <=> row[u] = NoRow
        /\ ~HasRow(t) => row'[t] = row[t]
    BY <1>0, <1>19, SetRowType
  <2>6. \A u \in Topics \ overlap : row'[u].status = "canceled" =>
           \/ row[u].status = "canceled" /\ row'[u].op = row[u].op
           \/ req[r].aim[u] # None /\ op[row'[u].op].status \notin {"none", "live"}
    BY <1>19, <2>2, <2>3, <2>4, <2>5 DEF Stopped, HasRow
  <2> QED BY <1>19, <2>1, <2>5, <2>6, RowRequestStep
<1>20. CASE CancelRow(r)
  <2> DEFINE to == [req[r] EXCEPT !.pc = "pause", !.aim = NoAim]
  <2>1. to.aim = NoAim /\ to.pc = "pause"
    BY <1>0 DEF RequestRecords
  <2>2. /\ Become(r, to) /\ UNCHANGED op /\ req[r].pc = "cancel"
        /\ SetRow(req[r].topic, "canceled")
    BY <1>20 DEF CancelRow
  <2>3. req[r].topic \in Topics /\ req[r].aim[req[r].topic] # None
    BY <1>0, <2>2 DEF Shape, RequestRecords
  <2> HIDE DEF to
  <2> QED BY <1>0, <1>19, <2>1, <2>2, <2>3
<1>21. CASE CascadeCancel(r)
  <2> DEFINE t == req[r].topic
             to == [req[r] EXCEPT !.topic = None, !.aim[t] = None]
  <2>1. /\ to.pc = req[r].pc /\ to.topic = None
        /\ \A u \in Topics : to.aim[u] \in {req[r].aim[u], None}
    BY <1>0 DEF RequestRecords
  <2>2. /\ Become(r, to) /\ UNCHANGED op /\ req[r].pc = "cascading" /\ t # None
        /\ SetRow(t, "canceled") \/ UNCHANGED row
    BY <1>21 DEF CascadeCancel
  <2>3. t \in Topics /\ req[r].aim[t] # None
    BY <1>0, <2>2 DEF Shape, RequestRecords
  <2>4. to \in RequestRecords /\ Shape(to)
    BY <2>2, BecomeShape
  <2> HIDE DEF to
  <2>5. CASE SetRow(t, "canceled")
    BY <1>19, <2>1, <2>2, <2>3, <2>5
  <2>6. CASE UNCHANGED row
    BY <2>1, <2>2, <2>4, <2>6, RequestStep
  <2> QED BY <2>2, <2>5, <2>6
<1>22. CASE ContinueTopic(r)
  <2> DEFINE t == req[r].topic
             to == [req[r] EXCEPT !.pc = "operation"]
  <2>1. to.aim = req[r].aim /\ to.pc = "operation" /\ to.topic = t
    BY <1>0 DEF RequestRecords
  <2>2. Become(r, to) /\ UNCHANGED op /\ SetRow(t, "running") /\ req[r].pc = "status"
    BY <1>22 DEF ContinueTopic, Go
  <2>3. to \in RequestRecords /\ Shape(to)
    BY <2>2, BecomeShape
  <2>4. t \in Topics
    BY <2>1, <2>3 DEF Shape, RequestRecords, Runs
  <2>5. \A u \in Topics : row[u].op = None => row[u].status # "canceled"
    BY <1>0, RowFacts
  <2>6. /\ \A u \in Topics : row'[u].op = row[u].op
        /\ \A u \in Topics : u # t => row'[u] = row[u]
        /\ \A u \in Topics : row'[u] = NoRow <=> row[u] = NoRow
        /\ row'[t].status # "canceled"
    BY <1>0, <2>2, <2>4, <2>5, SetRowType DEF HasRow
  <2> HIDE DEF to
  <2> QED BY <2>1, <2>2, <2>3, <2>6, RowRequestStep
(* A row comes to name the operation of the run: a new one, or the one of  *)
(* a topic that every cancellation then overlaps with.                     *)
<1>23. ASSUME NEW t \in Topics, Go(r, "beat"), UNCHANGED op, Known(r),
              \A u \in Topics : u # t => row'[u] = row[u],
              row'[t].op \in {row[t].op, r}, row'[t] # NoRow,
              t \notin overlap' => row'[t].status # "canceled",
              t \in overlap' \/ \A q \in Requests : req[q].aim[t] = None
       PROVE  Stopping'
  <2> DEFINE to == [req[r] EXCEPT !.pc = "beat"]
  <2>1. to.aim = req[r].aim /\ to.pc = "beat"
    BY <1>0 DEF RequestRecords
  <2>2. /\ req' = [req EXCEPT ![r] = to] /\ req \in [Requests -> RequestRecords]
        /\ overlap \subseteq overlap' /\ op' = op
        /\ Overlapping(req') \subseteq overlap'
    BY <1>23 DEF Go, Become, TypeOK
  <2> HIDE DEF to
  <2>3. RunsKnown'
    BY <2>1, <2>2 DEF Stopping, RunsKnown, Known
  <2>4. RowsKnown'
    <3> SUFFICES ASSUME NEW u \in Topics, row'[u].op # None
                 PROVE  op[row'[u].op].status # "none"
      BY <2>2 DEF RowsKnown, HasRow, Known
    <3> QED BY <1>23 DEF Stopping, RowsKnown, HasRow, Known
  <2>5. AimsHold'
    <3> SUFFICES ASSUME NEW q \in Requests, NEW u \in Topics, req'[q].aim[u] # None
                 PROVE  /\ op'[req'[q].aim[u]].status # "none" /\ row'[u] # NoRow
                        /\ u \notin overlap' => row'[u].op \in {req'[q].aim[u], None}
      BY DEF AimsHold, Known
    <3>1. req'[q].aim[u] = req[q].aim[u]
      BY <2>1, <2>2
    <3> QED BY <1>23, <2>2, <3>1 DEF Stopping, AimsHold, Known
  <2>6. InterruptsFirst'
    BY <2>1, <2>2 DEF Stopping, InterruptsFirst, Stopped
  <2>7. ClaimsOpenRow'
    <3> SUFFICES ASSUME NEW q \in Requests, req'[q].pc = "operation",
                        req'[q].topic \notin overlap'
                 PROVE  row'[req'[q].topic].status # "canceled"
      BY DEF ClaimsOpenRow
    <3>1. req'[q] = req[q]
      BY <2>1, <2>2
    <3>2. req[q].topic \in Topics
      BY <3>1 DEF TypeOK, RequestRecords, Shape, Runs
    <3> QED BY <1>23, <2>2, <3>1, <3>2 DEF Stopping, ClaimsOpenRow
  <2>8. CanceledStopped'
    <3> SUFFICES ASSUME NEW u \in Topics \ overlap', row'[u].status = "canceled"
                 PROVE  op[row'[u].op].status \notin {"none", "live"}
      BY <2>2 DEF CanceledStopped, Stopped
    <3> QED BY <1>23, <2>2 DEF Stopping, CanceledStopped, Stopped
  <2> QED
    BY <2>2, <2>3, <2>4, <2>5, <2>6, <2>7, <2>8 DEF Stopping, OverlapSeen
<1>24. ASSUME AddTopic(r) \/ UpdateOperationId(r) PROVE req[r].topic \in Topics /\ Known(r)
  BY <1>0, <1>24, Records
     DEF AddTopic, UpdateOperationId, Shape, RequestRecords, CallPoints, Runs,
         Stopping, RunsKnown
<1>25. CASE AddTopic(r)
  <2> DEFINE t == req[r].topic
  <2>1. Go(r, "beat") /\ UNCHANGED op
    BY <1>25 DEF AddTopic
  <2>2. CASE row[t] = NoRow
    <3>1. row' = [row EXCEPT ![t] = [status |-> "running", op |-> r]]
      BY <1>25, <2>2 DEF AddTopic
    <3>2. \A q \in Requests : req[q].aim[t] = None
      BY <1>24, <1>25, <2>2 DEF Stopping, AimsHold
    <3>3. row'[t] # NoRow /\ row'[t].op = r /\ row'[t].status = "running"
      BY <1>0, <1>24, <1>25, <3>1 DEF NoRow
    <3> QED BY <1>0, <1>23, <1>24, <1>25, <2>1, <3>1, <3>2, <3>3
  <2>3. CASE row[t] # NoRow
    <3>1. UNCHANGED row
      BY <1>25, <2>3 DEF AddTopic
    <3> DEFINE to == [req[r] EXCEPT !.pc = "beat"]
    <3> QED BY <1>1, <2>1, <3>1
  <2> QED BY <2>2, <2>3
<1>26. CASE UpdateOperationId(r)
  <2> DEFINE t == req[r].topic
  <2>1. Go(r, "beat") /\ UNCHANGED op /\ req[r].pc = "operation" /\ req[r].kind = "continue"
    BY <1>0, <1>26 DEF UpdateOperationId, Shape
  <2>2. CASE HasRow(t)
    <3>1. row' = [row EXCEPT ![t].op = r]
      BY <1>26, <2>2 DEF UpdateOperationId
    <3>2. t \in overlap' \/ \A q \in Requests : req[q].aim[t] = None
      BY <1>24, <1>26, <2>1
         DEF Stopping, OverlapSeen, Overlapping, Continuing, Go, Become
    <3>3. row[t] \in Rows /\ row[t] # NoRow /\ row[t].status # "none"
      BY <1>0, <1>24, <1>26, <2>2, RowFacts DEF HasRow
    <3>4. row'[t].op = r /\ row'[t].status = row[t].status
      BY <1>0, <1>24, <1>26, <2>2, <3>1, <3>3, RowFacts DEF HasRow, Rows
    <3>5. row'[t] # NoRow
      BY <3>3, <3>4, RowFacts
    <3>6. t \notin overlap' => row'[t].status # "canceled"
      BY <2>1, <3>4 DEF Go, Become, Stopping, ClaimsOpenRow
    <3>7. \A u \in Topics : u # t => row'[u] = row[u]
      BY <1>0, <3>1
    <3> HIDE DEF t
    <3> QED BY <1>23, <1>24, <1>26, <2>1, <3>2, <3>4, <3>5, <3>6, <3>7 DEF t
  <2>3. CASE ~HasRow(t)
    <3>1. UNCHANGED row
      BY <1>26, <2>3 DEF UpdateOperationId
    <3> QED BY <1>1, <2>1, <3>1
  <2> QED BY <2>2, <2>3
<1> QED
  BY <1>3, <1>4, <1>5, <1>6, <1>7, <1>8, <1>9, <1>10, <1>11, <1>12, <1>13, <1>14,
     <1>15, <1>17, <1>18, <1>20, <1>21, <1>22, <1>25, <1>26, <1>27 DEF Continue

(* An operation goes on, and its hook may close the row.                   *)
LEMMA OperateStopping ==
  ASSUME TypeOK, Stopping, NEW o \in Requests, Operate(o)
  PROVE  Stopping'
<1>0. row \in [Topics -> Rows] /\ op \in [Requests -> Operations]
  BY DEF TypeOK
<1>1. /\ UNCHANGED requests
      /\ op[o].status \notin {"none"} /\ op'[o].status \notin {"none", "live"}
      /\ \A u \in Requests \ {o} : op'[u] = op[u]
  BY <1>0 DEF Operate, End, InterruptDirectly, InterruptTask, HookBeats, HookClosesRow,
              HookIgnores, HookSettlesTask, HookFails, Over, NoOperation, Operations
<1>2. OpsGoOn /\ \A u \in Requests : op[u].status = "none" => op'[u].status = "none"
  BY <1>1 DEF OpsGoOn
<1>3. CASE UNCHANGED row
  BY <1>1, <1>2, <1>3, OperationStep
<1>4. CASE HookClosesRow(o)
  <2>1. CASE op[o].topic \notin Topics
    BY <1>0, <1>1, <1>2, <1>4, <2>1, OperationStep DEF HookClosesRow, SetRow
  <2>2. CASE op[o].topic \in Topics
    <3> DEFINE s == IF op[o].reason = "done" THEN "completed" ELSE "failed"
    <3>1. SetRow(op[o].topic, s) /\ s \in {"completed", "failed"}
      BY <1>4 DEF HookClosesRow
    <3> HIDE DEF s
    <3>2. /\ \A u \in Topics : row'[u].op = row[u].op
          /\ \A u \in Topics : row'[u] = NoRow <=> row[u] = NoRow
          /\ \A u \in Topics : row'[u].status = "canceled" => row[u].status = "canceled"
      BY <1>0, <2>2, <3>1, SetRowType
    <3> QED BY <1>1, <1>2, <3>2, OperationStep
  <2> QED BY <2>1, <2>2
<1> QED
  BY <1>3, <1>4 DEF Operate, End, InterruptDirectly, HookBeats, HookIgnores,
                    HookSettlesTask, HookFails

(* Stopping is inductive.                                                  *)
LEMMA StoppingStep ==
  ASSUME TypeOK, TypeOK', Stopping, [Next]_vars
  PROVE  Stopping'
<1>1. CASE Beats \/ BeatStaysAway \/ WatchdogFinds \/ WatchdogFails \/ UNCHANGED vars
  <2>1. UNCHANGED <<requests, row, op>>
    BY <1>1 DEF Beats, BeatStaysAway, WatchdogFinds, WatchdogFails, vars
  <2> QED BY <2>1, OperationStep DEF OpsGoOn
<1> QED
  BY <1>1, StartStopping, ContinueStopping, OperateStopping DEF Next

LEMMA CanceledFromStopping == Stopping => CanceledMeansStopped
  BY DEF Stopping, CanceledStopped, CanceledMeansStopped, Stopped

----------------------------------------------------------------------------
(* Rows that are still to be closed.  A run's operation is nobody's but    *)
(* the run's until the row names it, so that nobody can interrupt it, and  *)
(* it will close the row of its topic; who interrupts an operation of a    *)
(* row is about to close the row himself.  Where neither is so the topic   *)
(* is among those that are left.                                           *)

(* The hook of o is going to close the row of its topic.                   *)
Closes(o) ==
  \/ op[o].status = "live"
  \/ op[o].status \in {"ended", "closing"} /\ op[o].reason \in {"done", "error"}

Unnamed(o) ==
  \A t \in Topics : row[t].op # o /\ \A q \in Requests : req[q].aim[t] # o

Claiming == {"add", "status", "operation"}

(* The operation of a run that has not yet claimed its row.                *)
ClaimsOwn ==
  \A r \in Requests :
    req[r].pc \in Claiming =>
      /\ Unnamed(r)
      /\ op[r].status = "over" \/ op[r].topic = req[r].topic
      /\ Closes(r) \/ Rowless(r) \/ req[r].topic \in left

(* Rows, and those who have read them, name operations of their topic.     *)
NamesOwn ==
  \A t \in Topics, o \in Requests :
    row[t].op = o \/ (\E q \in Requests : req[q].aim[t] = o) =>
      op[o].status = "over" \/ op[o].topic = t

HasCloser(t) ==
  \/ \E o \in Requests : op[o].topic = t /\ Closes(o)
  \/ \E r \in Requests : t \in Interrupted(r)

RunningRowsClose ==
  \A t \in Topics \ left : row[t].status = "running" => HasCloser(t)

Settling == ClaimsOwn /\ NamesOwn /\ RunningRowsClose

LEMMA InitSettling == Init => Settling
<1> SUFFICES ASSUME Init PROVE Settling
  OBVIOUS
<1>1. \A r \in Requests : /\ req[r].pc = "idle" /\ req[r].aim = NoAim
                          /\ op[r].status = "none"
  BY Records DEF Init, NoOperation
<1>2. \A t \in Topics : row[t].op = None /\ row[t].status = "none" /\ NoAim[t] = None
  BY RowFacts, Records DEF Init
<1> QED
  BY <1>1, <1>2, RunAssumption
     DEF Settling, ClaimsOwn, Claiming, NamesOwn, RunningRowsClose

LEMMA BecomeIs ==
  ASSUME TypeOK, NEW r \in Requests, NEW to, Become(r, to)
  PROVE  req'[r] = to /\ \A q \in Requests \ {r} : req'[q] = req[q]
  BY DEF TypeOK, Become

LEMMA GoIs ==
  ASSUME TypeOK, NEW r \in Requests, NEW p, Go(r, p)
  PROVE  /\ req'[r].pc = p /\ req'[r].kind = req[r].kind
         /\ req'[r].topic = req[r].topic /\ req'[r].aim = req[r].aim
         /\ \A q \in Requests \ {r} : req'[q] = req[q]
<1>1. req'[r] = [req[r] EXCEPT !.pc = p] /\ \A q \in Requests \ {r} : req'[q] = req[q]
  BY BecomeIs DEF Go
<1>2. req[r] \in RequestRecords
  BY DEF TypeOK
<1> QED BY <1>1, <1>2 DEF RequestRecords

(* Operations keep their topic to their end, and one that nobody can name  *)
(* goes on to close its row.                                               *)
OpsKeep ==
  \A o \in Requests :
    /\ op[o].status = "over" => op'[o].status = "over"
    /\ op'[o].topic = op[o].topic \/ op'[o].status = "over"
    /\ Unnamed(o) /\ (Closes(o) \/ Rowless(o)) =>
         Closes(o)' \/ Rowless(o)' \/ op[o].topic \in left'

(* A step in which r reads names from rows at most, and claims nothing.    *)
LEMMA OwnStep ==
  ASSUME TypeOK, TypeOK', Settling, NEW r \in Requests,
         \A q \in Requests \ {r} : req'[q] = req[q],
         \A t \in Topics : req'[r].aim[t] # None =>
                             req'[r].aim[t] \in {req[r].aim[t], row[t].op},
         req'[r].pc \in Claiming =>
           req[r].pc \in Claiming /\ req'[r].topic = req[r].topic,
         \A t \in Topics : row'[t].op \in {row[t].op, None},
         OpsKeep, left \subseteq left'
  PROVE  ClaimsOwn' /\ NamesOwn'
<1>1. ASSUME NEW o \in Requests, Unnamed(o) PROVE Unnamed(o)'
  BY <1>1, RunAssumption DEF Unnamed
<1>2. ClaimsOwn'
  <2> SUFFICES ASSUME NEW q \in Requests, req'[q].pc \in Claiming
               PROVE  /\ Unnamed(q)'
                      /\ op'[q].status = "over" \/ op'[q].topic = req'[q].topic
                      /\ Closes(q)' \/ Rowless(q)' \/ req'[q].topic \in left'
    BY DEF ClaimsOwn, Claiming
  <2>1. req[q].pc \in Claiming /\ req'[q].topic = req[q].topic
    OBVIOUS
  <2>2. req'[q].topic = req[q].topic
    BY <2>1
  <2>3. /\ Unnamed(q) /\ (op[q].status = "over" \/ op[q].topic = req[q].topic)
        /\ Closes(q) \/ Rowless(q) \/ req[q].topic \in left
    BY <2>1 DEF Settling, ClaimsOwn
  <2>4. op'[q].status = "over" \/ op'[q].topic = req'[q].topic
    BY <2>2, <2>3 DEF OpsKeep
  <2>5. Closes(q)' \/ Rowless(q)' \/ req'[q].topic \in left'
    BY <2>2, <2>3 DEF OpsKeep, Rowless
  <2> QED BY <1>1, <2>3, <2>4, <2>5
<1>3. NamesOwn'
  <2> SUFFICES ASSUME NEW t \in Topics, NEW o \in Requests,
                      row'[t].op = o \/ \E q \in Requests : req'[q].aim[t] = o
               PROVE  op'[o].status = "over" \/ op'[o].topic = t
    BY DEF NamesOwn
  <2>1. row[t].op = o \/ \E q \in Requests : req[q].aim[t] = o
    BY RunAssumption
  <2>2. op[o].status = "over" \/ op[o].topic = t
    BY <2>1 DEF Settling, NamesOwn
  <2> QED BY <2>2 DEF OpsKeep
<1> QED BY <1>2, <1>3

(* A step of r that leaves nobody's row open.                              *)
LEMMA CloserStep ==
  ASSUME RunningRowsClose, NEW r \in Requests, left \subseteq left',
         \A q \in Requests \ {r} : req'[q] = req[q],
         \A t \in Topics \ left' : row'[t].status = "running" =>
                                      row[t].status = "running" \/ HasCloser(t)',
         \A t \in Topics, o \in Requests :
           op[o].topic = t /\ Closes(o) =>
             \/ op'[o].topic = t /\ Closes(o)'
             \/ row'[t].status # "running" \/ t \in Interrupted(r)' \/ t \in left',
         \A t \in Interrupted(r) :
           t \in Interrupted(r)' \/ t \in left' \/ row'[t].status # "running"
  PROVE  RunningRowsClose'
<1> SUFFICES ASSUME NEW t \in Topics \ left', row'[t].status = "running",
                    row[t].status = "running"
             PROVE  HasCloser(t)'
  BY DEF RunningRowsClose
<1>1. HasCloser(t)
  BY DEF RunningRowsClose
<1>2. CASE \E o \in Requests : op[o].topic = t /\ Closes(o)
  BY <1>2 DEF HasCloser
<1>3. CASE \E q \in Requests : t \in Interrupted(q)
  <2>1. PICK q \in Requests : t \in Interrupted(q)
    BY <1>3
  <2>2. CASE q = r
    BY <2>1, <2>2 DEF HasCloser
  <2>3. CASE q # r
    <3>1. t \in Interrupted(q)'
      BY <2>1, <2>3 DEF Interrupted
    <3> QED BY <3>1 DEF HasCloser
  <2> QED BY <2>2, <2>3
<1> QED BY <1>1, <1>2, <1>3 DEF HasCloser

(* A step that leaves the operations alone and sets no row to running.     *)
LEMMA QuietSettling ==
  ASSUME TypeOK, TypeOK', Settling, NEW r \in Requests, UNCHANGED op,
         \A q \in Requests \ {r} : req'[q] = req[q],
         \A t \in Topics : req'[r].aim[t] # None =>
                             req'[r].aim[t] \in {req[r].aim[t], row[t].op},
         req'[r].pc \in Claiming =>
           req[r].pc \in Claiming /\ req'[r].topic = req[r].topic,
         left \subseteq left',
         \A t \in Topics : /\ row'[t].op \in {row[t].op, None}
                           /\ row'[t].status = "running" => row[t].status = "running",
         \A t \in Interrupted(r) :
           t \in Interrupted(r)' \/ t \in left' \/ row'[t].status # "running"
  PROVE  Settling'
<1>1. \A o \in Requests : (Closes(o)' <=> Closes(o)) /\ (Rowless(o)' <=> Rowless(o))
  BY DEF Closes, Rowless
<1>2. OpsKeep
  BY <1>1 DEF OpsKeep
<1>3. ClaimsOwn' /\ NamesOwn'
  BY <1>2, OwnStep
<1>4. RunningRowsClose'
  BY <1>1, CloserStep DEF Settling
<1> QED BY <1>3, <1>4 DEF Settling

(* A request that starts interrupts nobody yet.                            *)
LEMMA StartSettling ==
  ASSUME TypeOK, TypeOK', Settling, NEW r \in Requests, Start(r)
  PROVE  Settling'
<1> USE DEF At
<1>1. req[r].pc = "idle" /\ UNCHANGED <<row, op, left>>
  BY DEF Start, StartRun, StartCancel, StartDelete, StartSet, StartDetail
<1>2. Interrupted(r) = {}
  BY <1>1 DEF Interrupted
<1>3. ASSUME NEW to, Become(r, to), to.pc \notin Claiming,
             \A t \in Topics : to.aim[t] \in {None, row[t].op}
      PROVE  Settling'
  <2>1. req'[r] = to /\ \A q \in Requests \ {r} : req'[q] = req[q]
    BY <1>3, BecomeIs
  <2> QED BY <1>1, <1>2, <1>3, <2>1, QuietSettling
<1>4. \A t \in Topics : NoAim[t] = None
  BY Records
<1>5. ASSUME NEW k \in Runs, NEW t \in Topics, StartRun(r, k, t) PROVE Settling'
  <2> DEFINE to == [NoRequest EXCEPT !.pc = "check", !.kind = k, !.topic = t,
                      !.running = (task = "running"), !.late = late]
  <2>1. to.aim = NoAim /\ to.pc = "check" /\ Become(r, to)
    BY <1>5 DEF NoRequest, StartRun
  <2> HIDE DEF to
  <2> QED BY <1>3, <1>4, <2>1 DEF Claiming
<1>6. ASSUME NEW t \in Topics, NEW k \in {"cancel", "delete"}, Become(r, Aiming(k, t))
      PROVE  Settling'
  <2>1. Aiming(k, t).pc = "interrupt" /\ Aiming(k, t).aim = [NoAim EXCEPT ![t] = row[t].op]
    BY DEF Aiming, NoRequest
  <2>2. \A u \in Topics : Aiming(k, t).aim[u] \in {None, row[u].op}
    BY <2>1 DEF NoAim
  <2> QED BY <1>3, <1>6, <2>1, <2>2 DEF Claiming
<1>7. ASSUME NEW t \in Topics, StartCancel(r, t) PROVE Settling'
  BY <1>6, <1>7 DEF StartCancel
<1>8. ASSUME NEW t \in Topics, StartDelete(r, t) PROVE Settling'
  <2> DEFINE to == [NoRequest EXCEPT !.pc = "remove", !.kind = "delete", !.topic = t]
  <2>1. to.aim = NoAim /\ to.pc = "remove"
    BY DEF NoRequest
  <2>2. Become(r, Aiming("delete", t)) \/ Become(r, to)
    BY <1>8 DEF StartDelete
  <2> HIDE DEF to
  <2> QED BY <1>3, <1>4, <1>6, <2>1, <2>2 DEF Claiming
<1>9. ASSUME NEW s \in TaskStatus, StartSet(r, s) PROVE Settling'
  <2> DEFINE to == [NoRequest EXCEPT !.kind = "set", !.goal = s,
       !.pc = IF task = "running" /\ s # "running" THEN "cascade" ELSE "write"]
  <2>1. to.aim = NoAim /\ to.pc \in {"cascade", "write"} /\ Become(r, to)
    BY <1>9 DEF NoRequest, StartSet
  <2> HIDE DEF to
  <2> QED BY <1>3, <1>4, <2>1 DEF Claiming
<1>10. ASSUME StartDetail(r) PROVE Settling'
  <2> DEFINE to == [NoRequest EXCEPT !.pc = "write", !.kind = "detail",
                                     !.goal = "resting"]
  <2>1. to.aim = NoAim /\ to.pc = "write" /\ Become(r, to)
    BY <1>10 DEF NoRequest, StartDetail
  <2> HIDE DEF to
  <2> QED BY <1>3, <1>4, <2>1 DEF Claiming
<1> QED BY <1>5, <1>7, <1>8, <1>9, <1>10 DEF Start

(* The steps of a run: it creates an operation, then claims the row.       *)
LEMMA RunSettling ==
  ASSUME TypeOK, TypeOK', Stopping, Settling, NEW r \in Requests,
         \/ CheckTopics(r) \/ CleanUp(r) \/ SetRunning(r) \/ ExecAgent(r)
         \/ AddTopic(r) \/ ContinueTopic(r) \/ UpdateOperationId(r) \/ RunBeats(r)
         \/ Rollback(r) \/ PauseTask(r)
  PROVE  Settling'
<1> USE DEF At
<1>0. /\ req[r] \in RequestRecords /\ Shape(req[r])
      /\ row \in [Topics -> Rows] /\ op \in [Requests -> Operations]
      /\ \A t \in Topics : NoAim[t] = None
      /\ Through.aim = NoAim /\ Through.pc = "done"
  BY Records DEF TypeOK
<1>1. Interrupted(r) = {}
  BY DEF Interrupted, CheckTopics, CleanUp, SetRunning, ExecAgent, AddTopic, ContinueTopic,
         UpdateOperationId, RunBeats, Rollback, PauseTask
<1>2. ASSUME NEW p, Go(r, p), p \notin Claiming \ {"operation"},
             p = "operation" => req[r].pc = "status",
             UNCHANGED op, left \subseteq left',
             \A t \in Topics : /\ row'[t].op \in {row[t].op, None}
                               /\ row'[t].status = "running" => row[t].status = "running"
      PROVE  Settling'
  BY <1>1, <1>2, GoIs, QuietSettling DEF Claiming
<1>3. ASSUME Become(r, Through), UNCHANGED <<row, op, left>>
      PROVE  Settling'
  BY <1>0, <1>1, <1>3, BecomeIs, QuietSettling DEF Claiming
<1>4. CASE CheckTopics(r) \/ SetRunning(r)
  BY <1>2, <1>4 DEF CheckTopics, SetRunning, Checked, Claiming
<1>5. CASE CleanUp(r)
  <2>1. \A t \in Topics : row'[t].op = row[t].op /\ row'[t].status # "running"
    BY <1>0, <1>5, TimeoutRunningType, RowFacts DEF CleanUp, TimeoutRunning, Rows
  <2> QED BY <1>2, <1>5, <2>1 DEF CleanUp, Checked, Claiming
<1>6. CASE RunBeats(r) \/ Rollback(r) \/ PauseTask(r)
  BY <1>2, <1>3, <1>6 DEF RunBeats, Rollback, PauseTask, Claiming
<1>7. CASE ExecAgent(r)
  <2>1. /\ req'[r].aim = req[r].aim /\ req'[r].topic = req[r].topic
        /\ \A q \in Requests \ {r} : req'[q] = req[q]
    <3> DEFINE to == [req[r] EXCEPT !.running = FALSE, !.late = FALSE,
                        !.pc = IF req[r].kind = "new" THEN "add" ELSE "status"]
    <3>1. to.aim = req[r].aim /\ to.topic = req[r].topic
      BY <1>0 DEF RequestRecords
    <3>2. Become(r, to)
      BY <1>7 DEF ExecAgent
    <3> HIDE DEF to
    <3> QED BY <3>1, <3>2, BecomeIs
  <2>2. /\ op[r].status = "none" /\ op'[r].status = "live" /\ op'[r].topic = req[r].topic
        /\ \A o \in Requests \ {r} : op'[o] = op[o]
    BY <1>0, <1>7 DEF ExecAgent, Operations, Stopping, RunsKnown, Known
  <2>3. row' = row /\ left' = left
    BY <1>7 DEF ExecAgent
  <2>4. Unnamed(r)
    BY <2>2, RunAssumption DEF Unnamed, Stopping, RowsKnown, AimsHold, Known, HasRow
  <2>5. \A o \in Requests : Unnamed(o)' <=> Unnamed(o)
    BY <2>1, <2>3 DEF Unnamed
  <2>6. ClaimsOwn'
    BY <2>1, <2>2, <2>3, <2>4, <2>5 DEF Settling, ClaimsOwn, Closes, Rowless
  <2>7. NamesOwn'
    <3> SUFFICES ASSUME NEW t \in Topics, NEW o \in Requests,
                        row'[t].op = o \/ \E q \in Requests : req'[q].aim[t] = o
                 PROVE  op'[o].status = "over" \/ op'[o].topic = t
      BY DEF NamesOwn
    <3>1. row[t].op = o \/ \E q \in Requests : req[q].aim[t] = o
      BY <2>1, <2>3
    <3>2. o # r
      BY <2>4, <3>1 DEF Unnamed
    <3> QED BY <2>2, <3>1, <3>2 DEF Settling, NamesOwn
  <2>8. RunningRowsClose'
    <3>1. \A o \in Requests : Closes(o) =>
            (op'[o].topic = op[o].topic /\ Closes(o)') \/ o = r
      BY <2>2 DEF Closes
    <3>2. ~ Closes(r)
      BY <2>2 DEF Closes
    <3> QED BY <1>1, <2>1, <2>3, <3>1, <3>2, CloserStep DEF Settling
  <2> QED BY <2>6, <2>7, <2>8 DEF Settling
<1>8. ASSUME AddTopic(r) \/ ContinueTopic(r) \/ UpdateOperationId(r)
      PROVE  /\ req[r].topic \in Topics /\ UNCHANGED op
             /\ Unnamed(r) /\ (op[r].status = "over" \/ op[r].topic = req[r].topic)
             /\ Closes(r) \/ Rowless(r) \/ req[r].topic \in left
  <2>1. req[r].pc \in Claiming /\ UNCHANGED op
    BY <1>8 DEF AddTopic, ContinueTopic, UpdateOperationId, Claiming
  <2>2. req[r].topic \in Topics
    BY <1>0, <2>1, Records DEF Shape, RequestRecords, Runs, CallPoints, Claiming
  <2> QED BY <2>1, <2>2 DEF Settling, ClaimsOwn
(* The row opens for the run's operation, or is left to nobody.            *)
<1>9. ASSUME AddTopic(r) \/ ContinueTopic(r),
             \A t \in Topics \ {req[r].topic} : row'[t] = row[t],
             \A q \in Requests \ {r} : req'[q] = req[q]
      PROVE  RunningRowsClose'
  <2>1. UNCHANGED op
    BY <1>8, <1>9
  <2>2. \A o \in Requests : Closes(o)' <=> Closes(o)
    BY <2>1 DEF Closes
  <2>3. ASSUME NEW t \in Topics, t = req[r].topic, t \notin left' PROVE HasCloser(t)'
    <3>1. ~Rowless(r) /\ t \notin left
      BY <1>9, <2>3 DEF AddTopic, ContinueTopic
    <3>2. Closes(r) /\ op[r].topic = t
      BY <1>8, <1>9, <2>3, <3>1 DEF Rowless
    <3> QED BY <2>1, <2>2, <3>2 DEF HasCloser
  <2>4. left \subseteq left'
    BY <1>9 DEF AddTopic, ContinueTopic
  <2>5. \A t \in Topics \ left' : row'[t].status = "running" =>
                                     row[t].status = "running" \/ HasCloser(t)'
    BY <1>9, <2>3
  <2> QED BY <1>1, <1>9, <2>1, <2>2, <2>4, <2>5, CloserStep DEF Settling
<1>10. CASE ContinueTopic(r)
  <2> DEFINE t == req[r].topic
  <2>1. /\ req'[r].pc = "operation" /\ req'[r].topic = t /\ req'[r].aim = req[r].aim
        /\ req[r].pc = "status" /\ SetRow(t, "running") /\ t \in Topics
        /\ \A q \in Requests \ {r} : req'[q] = req[q]
    BY <1>8, <1>10, GoIs DEF ContinueTopic
  <2>2. /\ \A u \in Topics : row'[u].op = row[u].op
        /\ \A u \in Topics \ {t} : row'[u] = row[u]
    BY <1>0, <2>1, SetRowType
  <2>3. OpsKeep
    BY <1>8, <1>10 DEF OpsKeep, Closes, Rowless
  <2>5. left \subseteq left'
    BY <1>10 DEF ContinueTopic
  <2>4. ClaimsOwn' /\ NamesOwn'
    BY <2>1, <2>2, <2>3, <2>5, OwnStep DEF Claiming
  <2> QED BY <1>9, <1>10, <2>1, <2>2, <2>4 DEF Settling
(* The row comes to name the operation of the run.                         *)
<1>11. ASSUME AddTopic(r) \/ UpdateOperationId(r),
              row'[req[r].topic].op \in {row[req[r].topic].op, r},
              \A t \in Topics \ {req[r].topic} : row'[t] = row[t],
              Go(r, "beat"), left \subseteq left'
       PROVE  ClaimsOwn' /\ NamesOwn'
  <2>1. /\ req'[r].pc = "beat" /\ req'[r].aim = req[r].aim
        /\ \A q \in Requests \ {r} : req'[q] = req[q]
    BY <1>11, GoIs
  <2>2. ClaimsOwn'
    <3> SUFFICES ASSUME NEW q \in Requests, req'[q].pc \in Claiming
                 PROVE  /\ Unnamed(q)'
                        /\ op'[q].status = "over" \/ op'[q].topic = req'[q].topic
                        /\ Closes(q)' \/ Rowless(q)' \/ req'[q].topic \in left'
      BY DEF ClaimsOwn, Claiming
    <3>1. q # r /\ req'[q] = req[q]
      BY <2>1 DEF Claiming
    <3>2. Unnamed(q) /\ (op[q].status = "over" \/ op[q].topic = req[q].topic)
                     /\ (Closes(q) \/ Rowless(q) \/ req[q].topic \in left)
      BY <3>1 DEF Settling, ClaimsOwn
    <3>3. Unnamed(q)'
      BY <1>8, <1>11, <2>1, <3>1, <3>2 DEF Unnamed
    <3> QED BY <1>8, <1>11, <3>1, <3>2, <3>3 DEF Closes, Rowless
  <2>3. NamesOwn'
    <3> SUFFICES ASSUME NEW t \in Topics, NEW o \in Requests,
                        row'[t].op = o \/ \E q \in Requests : req'[q].aim[t] = o
                 PROVE  op'[o].status = "over" \/ op'[o].topic = t
      BY DEF NamesOwn
    <3>1. CASE row[t].op = o \/ \E q \in Requests : req[q].aim[t] = o
      BY <1>8, <1>11, <3>1 DEF Settling, NamesOwn
    <3>2. CASE ~(row[t].op = o \/ \E q \in Requests : req[q].aim[t] = o)
      <4>1. t = req[r].topic /\ o = r
        BY <1>11, <2>1, <3>2
      <4> QED BY <1>8, <1>11, <4>1
    <3> QED BY <3>1, <3>2
  <2> QED BY <2>2, <2>3
<1>12. CASE AddTopic(r)
  <2> DEFINE t == req[r].topic
  <2>1. t \in Topics /\ Go(r, "beat") /\ \A u \in Topics \ {t} : row'[u] = row[u]
    BY <1>0, <1>8, <1>12 DEF AddTopic
  <2>4. left \subseteq left'
    BY <1>12 DEF AddTopic
  <2>2. row'[t].op \in {row[t].op, r}
    BY <1>0, <1>12, <2>1 DEF AddTopic
  <2>3. \A q \in Requests \ {r} : req'[q] = req[q]
    BY <2>1, GoIs
  <2> QED BY <1>9, <1>11, <1>12, <2>1, <2>2, <2>3, <2>4 DEF Settling
<1>13. CASE UpdateOperationId(r)
  <2> DEFINE t == req[r].topic
  <2>1. /\ t \in Topics /\ Go(r, "beat") /\ UNCHANGED <<op, left>>
        /\ \A u \in Topics \ {t} : row'[u] = row[u]
    BY <1>0, <1>8, <1>13 DEF UpdateOperationId
  <2>2. row'[t].op \in {row[t].op, r} /\ row'[t].status = row[t].status
    BY <1>0, <1>13, <2>1, RowFacts DEF UpdateOperationId, Rows, HasRow
  <2>3. \A q \in Requests \ {r} : req'[q] = req[q]
    BY <2>1, GoIs
  <2>4. \A o \in Requests : Closes(o)' <=> Closes(o)
    BY <2>1 DEF Closes
  <2>5. RunningRowsClose'
    BY <1>1, <2>1, <2>2, <2>3, <2>4, CloserStep DEF Settling
  <2> QED BY <1>11, <1>13, <2>1, <2>2, <2>5 DEF Settling
<1> QED BY <1>4, <1>5, <1>6, <1>7, <1>10, <1>12, <1>13

(* The steps of the other requests: who interrupts an operation is about   *)
(* to close its row, and closes it or fails.                               *)
LEMMA CallSettling ==
  ASSUME TypeOK, TypeOK', Settling, NEW r \in Requests,
         \/ Interrupt(r) \/ InterruptFails(r) \/ CancelRow(r) \/ RemoveRow(r)
         \/ ReadTopics(r)
         \/ CascadeCancel(r) \/ WriteStatus(r) \/ ClearRows(r) \/ Fail(r)
         \/ \E t \in Topics : CascadeInterrupt(r, t) \/ CascadeSkips(r, t)
  PROVE  Settling'
<1> USE DEF At
<1>0. /\ req[r] \in RequestRecords /\ Shape(req[r])
      /\ row \in [Topics -> Rows] /\ op \in [Requests -> Operations]
      /\ \A t \in Topics : NoAim[t] = None
      /\ Through.aim = NoAim /\ Through.pc = "done"
  BY Records DEF TypeOK
<1>1. ASSUME NEW to, Become(r, to), UNCHANGED op, left \subseteq left',
             \A t \in Topics : /\ to.aim[t] \in {None, req[r].aim[t], row[t].op}
                               /\ row'[t].op \in {row[t].op, None}
                               /\ row'[t].status = "running" => row[t].status = "running",
             to.pc \notin Claiming,
             \A t \in Interrupted(r) : t \in left' \/ row'[t].status # "running"
      PROVE  Settling'
  BY <1>1, BecomeIs, QuietSettling
<1>2. CASE WriteStatus(r)
  <2>1. Interrupted(r) = {}
    BY <1>2, RunAssumption DEF WriteStatus, Cascaded, Interrupted
  <2>2. CASE Become(r, Through)
    BY <1>0, <1>1, <1>2, <2>1, <2>2 DEF WriteStatus, Claiming
  <2>3. CASE Go(r, "clear")
    <3> DEFINE to == [req[r] EXCEPT !.pc = "clear"]
    <3>1. to.aim = req[r].aim /\ to.pc = "clear" /\ Become(r, to)
      BY <1>0, <2>3 DEF RequestRecords, Go
    <3> HIDE DEF to
    <3> QED BY <1>1, <1>2, <2>1, <3>1 DEF WriteStatus, Claiming
  <2> QED BY <1>2, <2>2, <2>3 DEF WriteStatus
<1>3. CASE ClearRows(r)
  <2>1. \A t \in Topics : row'[t].op = row[t].op /\ row'[t].status # "running"
    BY <1>0, <1>3, TimeoutRunningType, RowFacts DEF ClearRows, TimeoutRunning, Rows
  <2>2. Become(r, Through) /\ UNCHANGED <<op, left>>
    BY <1>3 DEF ClearRows
  <2>3. Interrupted(r) \subseteq Topics /\ Through.pc \notin Claiming
    BY <1>0 DEF Interrupted, Claiming
  <2>4. \A t \in Topics : Through.aim[t] = None
    BY <1>0
  <2> QED BY <1>1, <2>1, <2>2, <2>3, <2>4
<1>4. CASE RemoveRow(r)
  <2>1. \A t \in Topics : row'[t] \in {row[t], Deleted}
    BY <1>0, <1>4 DEF RemoveRow
  <2>2. \A t \in Interrupted(r) : row'[t] = Deleted
    BY <1>0, <1>4 DEF RemoveRow, Interrupted
  <2> QED BY <1>0, <1>1, <1>4, <2>1, <2>2, RowFacts DEF RemoveRow, Claiming, Interrupted
<1>5. CASE Fail(r)
  <2>1. UNCHANGED <<row, op>> /\ left' = left \cup Interrupted(r)
    BY <1>5 DEF Fail
  <2>2. CASE Become(r, Through)
    BY <1>0, <1>1, <2>1, <2>2 DEF Claiming
  <2>3. CASE Go(r, "rollback")
    <3> DEFINE to == [req[r] EXCEPT !.pc = "rollback"]
    <3>1. to.aim = req[r].aim /\ to.pc = "rollback" /\ Become(r, to)
      BY <1>0, <2>3 DEF RequestRecords, Go
    <3> HIDE DEF to
    <3> QED BY <1>1, <2>1, <3>1 DEF Claiming
  <2> QED BY <1>5, <2>2, <2>3 DEF Fail
<1>6. CASE ReadTopics(r)
  <2> DEFINE aim == [t \in Topics |-> IF row[t].status = "running" THEN row[t].op
                                      ELSE None]
             to == [req[r] EXCEPT !.pc = "cascading", !.aim = aim]
  <2>1. to.aim = aim /\ to.pc = "cascading" /\ Become(r, to)
    BY <1>0, <1>6 DEF RequestRecords, ReadTopics
  <2>2. \A t \in Topics : to.aim[t] \in {None, row[t].op}
    BY <2>1
  <2>3. Interrupted(r) = {} /\ UNCHANGED <<row, op, left>>
    BY <1>6 DEF ReadTopics, Interrupted
  <2> HIDE DEF to, aim
  <2> QED BY <1>1, <2>1, <2>2, <2>3 DEF Claiming
(* The row is closed.                                                      *)
<1>8. ASSUME NEW t \in Topics, SetRow(t, "canceled") \/ (UNCHANGED row /\ row[t].status # "running")
      PROVE  /\ \A u \in Topics : /\ row'[u].op = row[u].op
                                  /\ row'[u].status = "running" => row[u].status = "running"
             /\ row'[t].status # "running"
  <2>1. CASE SetRow(t, "canceled")
    <3>1. ~HasRow(t) => row[t].status # "running"
      BY <1>0, RowFacts DEF HasRow
    <3> QED BY <1>0, <2>1, <3>1, SetRowType
  <2>2. CASE UNCHANGED row /\ row[t].status # "running"
    BY <2>2
  <2> QED BY <1>8, <2>1, <2>2
<1>9. CASE CancelRow(r)
  <2> DEFINE to == [req[r] EXCEPT !.pc = "pause", !.aim = NoAim]
             t == req[r].topic
  <2>1. to.aim = NoAim /\ to.pc = "pause" /\ Become(r, to)
    BY <1>0, <1>9 DEF RequestRecords, CancelRow
  <2>2. UNCHANGED <<op, left>> /\ SetRow(t, "canceled") /\ t \in Topics
    BY <1>0, <1>9 DEF CancelRow, Shape, RequestRecords
  <2>3. Interrupted(r) \subseteq {t}
    BY DEF Interrupted
  <2> HIDE DEF to
  <2> QED BY <1>0, <1>1, <1>8, <2>1, <2>2, <2>3 DEF Claiming
<1>10. CASE CascadeCancel(r)
  <2> DEFINE t == req[r].topic
             to == [req[r] EXCEPT !.topic = None, !.aim[t] = None]
  <2>1. /\ to.pc = req[r].pc /\ \A u \in Topics : to.aim[u] \in {req[r].aim[u], None}
    BY <1>0 DEF RequestRecords
  <2>2. /\ Become(r, to) /\ UNCHANGED <<op, left>> /\ req[r].pc = "cascading" /\ t \in Topics
        /\ SetRow(t, "canceled") \/ (UNCHANGED row /\ row[t].status # "running")
    BY <1>0, <1>10 DEF CascadeCancel, RequestRecords
  <2>3. Interrupted(r) \subseteq {t}
    BY DEF Interrupted
  <2> HIDE DEF to
  <2> QED BY <1>1, <1>8, <2>1, <2>2, <2>3 DEF Claiming
(* The operation is interrupted: r is now the one who closes the row, or   *)
(* the topic is left.                                                      *)
<1>11. ASSUME NEW t \in Topics, NEW to, Become(r, to), UNCHANGED row, left \subseteq left',
              InterruptTask(req[r].aim[t]), req[r].aim[t] # None,
              \A u \in Topics : to.aim[u] \in {req[r].aim[u], None},
              to.pc \notin Claiming,
              \/ t \in left'
              \/ /\ to.topic = t /\ to.aim[t] # None
                 /\ to.pc \in {"cancel", "remove", "cascading"},
              Interrupted(r) = {}
       PROVE  Settling'
  <2>1. req'[r] = to /\ \A q \in Requests \ {r} : req'[q] = req[q]
    BY <1>11, BecomeIs
  <2>2. t \in Interrupted(r)' \/ t \in left'
    BY <1>11, <2>1 DEF Interrupted
  <2> DEFINE o == req[r].aim[t]
  <2>3. o \in Requests /\ ~Unnamed(o)
    BY <1>0, <1>11 DEF RequestRecords, Unnamed
  <2>4. /\ \A u \in Requests \ {o} : op'[u] = op[u]
        /\ op'[o].topic = op[o].topic /\ (op[o].status # "live" => op'[o] = op[o])
        /\ op[o].status = "live" => op'[o].status # "over"
    BY <1>0, <1>11, <2>3 DEF InterruptTask, Operations
  <2>5. OpsKeep
    BY <2>3, <2>4 DEF OpsKeep, Closes, Rowless
  <2>6. ClaimsOwn' /\ NamesOwn'
    BY <1>11, <2>1, <2>5, OwnStep
  <2>7. op[o].status = "over" \/ op[o].topic = t
    BY <2>3 DEF Settling, NamesOwn
  <2>8. ASSUME NEW u \in Topics, NEW p \in Requests, op[p].topic = u, Closes(p)
        PROVE  (op'[p].topic = u /\ Closes(p)') \/ u = t
    <3>1. CASE p # o \/ op[o].status # "live"
      BY <2>4, <2>8, <3>1 DEF Closes
    <3>2. CASE p = o /\ op[o].status = "live"
      BY <2>7, <2>8, <3>2
    <3> QED BY <3>1, <3>2
  <2>9. RunningRowsClose'
    BY <1>11, <2>1, <2>2, <2>8, CloserStep DEF Settling
  <2> QED BY <2>6, <2>9 DEF Settling
(* The call throws, and may have written before.                           *)
<1>14. ASSUME NEW t \in Topics, NEW to, Become(r, to), UNCHANGED row,
              InterruptThrows(req[r].aim[t], t), req[r].aim[t] # None,
              \A u \in Topics : to.aim[u] \in {req[r].aim[u], None},
              to.pc \notin Claiming, Interrupted(r) = {}
       PROVE  Settling'
  <2>1. CASE UNCHANGED <<op, left>>
    BY <1>1, <1>14, <2>1
  <2>2. CASE InterruptTask(req[r].aim[t]) /\ left' = left \cup {t}
    BY <1>11, <1>14, <2>2
  <2> QED BY <1>14, <2>1, <2>2 DEF InterruptThrows
<1>7. ASSUME NEW t \in Topics, CascadeSkips(r, t) PROVE Settling'
  <2> DEFINE to == [req[r] EXCEPT !.aim[t] = None]
  <2>1. /\ to.pc = req[r].pc /\ \A u \in Topics : to.aim[u] \in {req[r].aim[u], None}
    BY <1>0 DEF RequestRecords
  <2>2. /\ Become(r, to) /\ UNCHANGED row /\ InterruptThrows(req[r].aim[t], t)
        /\ req[r].pc = "cascading" /\ Interrupted(r) = {} /\ req[r].aim[t] # None
    BY <1>7, RunAssumption DEF CascadeSkips, Aimed, Interrupted
  <2> HIDE DEF to
  <2> QED BY <1>14, <2>1, <2>2 DEF Claiming
<1>15. CASE InterruptFails(r)
  <2>1. /\ Become(r, Through) /\ UNCHANGED row /\ req[r].pc = "interrupt"
        /\ InterruptThrows(req[r].aim[req[r].topic], req[r].topic)
        /\ Interrupted(r) = {}
    BY <1>15 DEF InterruptFails, Interrupted
  <2>2. req[r].topic \in Topics /\ req[r].aim[req[r].topic] # None
    BY <1>0, <2>1 DEF Shape, RequestRecords
  <2> QED BY <1>0, <1>14, <2>1, <2>2 DEF Claiming
<1>12. CASE Interrupt(r)
  <2> DEFINE p == IF req[r].kind = "cancel" THEN "cancel" ELSE "remove"
             to == [req[r] EXCEPT !.pc = p]
             t == req[r].topic
  <2>1. to.aim = req[r].aim /\ to.pc = p /\ to.topic = t /\ p \in {"cancel", "remove"}
    BY <1>0 DEF RequestRecords
  <2>2. /\ Become(r, to) /\ UNCHANGED <<row, left>> /\ InterruptTask(req[r].aim[t])
        /\ req[r].pc = "interrupt" /\ Interrupted(r) = {}
    BY <1>12 DEF Interrupt, Go, Interrupted
  <2>3. t \in Topics /\ req[r].aim[t] # None
    BY <1>0, <2>2 DEF Shape, RequestRecords
  <2> HIDE DEF to, p
  <2> QED BY <1>11, <2>1, <2>2, <2>3 DEF Claiming
<1>13. ASSUME NEW t \in Topics, CascadeInterrupt(r, t) PROVE Settling'
  <2> DEFINE to == [req[r] EXCEPT !.topic = t]
  <2>1. to.aim = req[r].aim /\ to.pc = req[r].pc /\ to.topic = t
    BY <1>0 DEF RequestRecords
  <2>2. /\ Become(r, to) /\ UNCHANGED <<row, left>> /\ InterruptTask(req[r].aim[t])
        /\ req[r].pc = "cascading" /\ req[r].aim[t] # None /\ Interrupted(r) = {}
    BY <1>13, RunAssumption DEF CascadeInterrupt, Aimed, Interrupted
  <2> HIDE DEF to
  <2> QED BY <1>11, <2>1, <2>2 DEF Claiming
<1> QED
  BY <1>2, <1>3, <1>4, <1>5, <1>6, <1>7, <1>9, <1>10, <1>12, <1>13, <1>15

(* An operation that was not interrupted comes to its hook, which closes   *)
(* the row of the topic.                                                   *)
LEMMA OperateSettling ==
  ASSUME TypeOK, TypeOK', Settling, NEW o \in Requests, Operate(o)
  PROVE  Settling'
<1>0. row \in [Topics -> Rows] /\ op \in [Requests -> Operations]
  BY DEF TypeOK
<1>1. /\ req' = req /\ left \subseteq left' /\ \A u \in Requests \ {o} : op'[u] = op[u]
      /\ op'[o].topic = op[o].topic \/ op'[o].status = "over"
      /\ op[o].status # "over"
      /\ Closes(o) => Closes(o)' \/ HookClosesRow(o) \/ op[o].topic \in left'
      /\ Closes(o) => op'[o].topic = op[o].topic \/ op[o].topic \in left'
      /\ Closes(o) \/ Rowless(o) => Closes(o)' \/ Rowless(o)' \/ op[o].topic \in left'
  <2>1. CASE \E why \in {"done", "error", "interrupted", "other"} : End(o, why)
    <3>1. PICK why \in {"done", "error", "interrupted", "other"} : End(o, why)
      BY <2>1
    <3>2. CASE op[o].status = "live"
      BY <1>0, <3>1, <3>2 DEF End, Operations, requests, Closes, Rowless
    <3>3. CASE op[o].status = "told"
      BY <1>0, <3>1, <3>3 DEF End, Operations, requests, Closes, Rowless
    <3> QED BY <3>1, <3>2, <3>3 DEF End
  <2>2. CASE InterruptDirectly(o) \/ HookBeats(o) \/ HookClosesRow(o)
    BY <1>0, <2>2 DEF InterruptDirectly, InterruptTask, HookBeats, HookClosesRow,
       Operations, requests, Closes, Rowless
  <2>3. CASE HookIgnores(o) \/ HookSettlesTask(o) \/ HookFails(o)
    BY <1>0, <2>3 DEF HookIgnores, HookSettlesTask, HookFails, Over, NoOperation,
       Operations, requests, Closes, Rowless
  <2> QED BY <2>1, <2>2, <2>3 DEF Operate
<1>2. OpsKeep
  BY <1>1 DEF OpsKeep, Closes, Rowless
<1>3. /\ \A t \in Topics : /\ row'[t].op = row[t].op
                           /\ row'[t].status = "running" => row[t].status = "running"
      /\ HookClosesRow(o) /\ op[o].topic \in Topics => row'[op[o].topic].status # "running"
  <2>1. CASE UNCHANGED row
    <3>1. ASSUME HookClosesRow(o), op[o].topic \in Topics
          PROVE  row'[op[o].topic].status # "running"
      <4> DEFINE t == op[o].topic
      <4>1. SetRow(t, "completed") \/ SetRow(t, "failed")
        BY <3>1 DEF HookClosesRow
      <4>2. ~HasRow(t) => row[t].status # "running"
        BY <1>0, <3>1, RowFacts DEF HasRow
      <4> QED BY <1>0, <2>1, <3>1, <4>1, <4>2, SetRowType
    <3> QED BY <2>1, <3>1
  <2>2. CASE HookClosesRow(o)
    <3> DEFINE t == op[o].topic
    <3>1. SetRow(t, "completed") \/ SetRow(t, "failed")
      BY <2>2 DEF HookClosesRow
    <3>2. CASE t \in Topics
      <4>1. ~HasRow(t) => row[t].status # "running"
        BY <1>0, <3>2, RowFacts DEF HasRow
      <4>2. /\ \A u \in Topics : row'[u].op = row[u].op
            /\ \A u \in Topics : u # t => row'[u] = row[u]
            /\ row'[t].status # "running"
        BY <1>0, <3>1, <3>2, <4>1, SetRowType
      <4> QED BY <4>2
    <3>3. CASE t \notin Topics
      <4>1. row' = row
        BY <1>0, <3>1, <3>3 DEF SetRow
      <4> QED BY <3>3, <4>1
    <3> QED BY <3>2, <3>3
  <2> QED BY <2>1, <2>2 DEF Operate, End, InterruptDirectly, HookBeats, HookIgnores,
                            HookSettlesTask, HookFails
<1>4. \A t \in Topics : req[o].aim[t] # None => req[o].aim[t] \in {req[o].aim[t], row[t].op}
  OBVIOUS
<1>5. ClaimsOwn' /\ NamesOwn'
  BY <1>1, <1>2, <1>3, <1>4, OwnStep
<1>6. Interrupted(o)' = Interrupted(o)
  BY <1>1 DEF Interrupted
<1>7. ASSUME NEW t \in Topics, NEW p \in Requests, op[p].topic = t, Closes(p)
      PROVE  \/ (op'[p].topic = t /\ Closes(p)') \/ row'[t].status # "running"
             \/ t \in left'
  BY <1>1, <1>3, <1>7 DEF Closes
<1>8. RunningRowsClose'
  BY <1>1, <1>3, <1>6, <1>7, CloserStep DEF Settling
<1> QED BY <1>5, <1>8 DEF Settling

LEMMA SettlingNext ==
  ASSUME TypeOK, TypeOK', Stopping, Settling, [Next]_vars
  PROVE  Settling'
<1>1. CASE Beats \/ BeatStaysAway \/ WatchdogFinds \/ WatchdogFails \/ UNCHANGED vars
  <2>1. UNCHANGED <<req, row, op, left>>
    BY <1>1 DEF Beats, BeatStaysAway, WatchdogFinds, WatchdogFails, vars, requests
  <2> QED
    BY <2>1 DEF Settling, ClaimsOwn, NamesOwn, RunningRowsClose, HasCloser, Unnamed,
                Closes, Rowless, Interrupted
<1> QED
  BY <1>1, StartSettling, RunSettling, CallSettling, OperateSettling DEF Next, Continue

----------------------------------------------------------------------------
(* A request's record has the shape of the place in the code it stands at  *)
(* (Shape): a run works on one topic, a request on a row holds one aim.    *)
THEOREM RunTypes == Spec => []TypeOK
<1>1. Init => TypeOK
  BY InitStopping
<1> QED
  BY <1>1, TypeStep, PTL DEF Spec

(* What a user has canceled has been told to stop: a canceled row names no *)
(* operation that runs on, for any number of requests and topics, unless a *)
(* run continued the topic while it was being canceled (cancelTopic,       *)
(* updateStatus, run, onTopicComplete).                                    *)
THEOREM CanceledTopicsStop == Spec => []CanceledMeansStopped
<1>1. Init => TypeOK /\ Stopping
  BY InitStopping
<1>2. TypeOK /\ Stopping /\ [Next]_vars => (TypeOK /\ Stopping)'
  BY TypeStep, StoppingStep
<1>3. TypeOK /\ Stopping => CanceledMeansStopped
  BY CanceledFromStopping
<1> QED
  BY <1>1, <1>2, <1>3, PTL DEF Spec

(* Once requests, operations and hooks are through no topic is left        *)
(* running, for any number of them, except where an operation ended before *)
(* its row was written, was interrupted directly or by a call that threw,  *)
(* ended for a reason the hook ignores or had its hook fail, and where a   *)
(* request failed between interrupting the operation and closing the row   *)
(* (run, onTopicComplete, cancelTopic, deleteTopic, updateStatus).         *)
THEOREM ThroughMeansClosed == Spec => []RowsSettle
<1>1. Init => TypeOK /\ Stopping /\ Settling
  BY InitStopping, InitSettling
<1>2. TypeOK /\ Stopping /\ Settling /\ [Next]_vars => (TypeOK /\ Stopping /\ Settling)'
  BY TypeStep, StoppingStep, SettlingNext
<1>3. Settling => RowsSettle
  <2> SUFFICES ASSUME Settling, AllSettled, NEW t \in Topics, HasCloser(t)
               PROVE  FALSE
    BY DEF Settling, RunningRowsClose, RowsSettle
  <2> QED BY DEF AllSettled, HasCloser, Closes, Interrupted
<1> QED
  BY <1>1, <1>2, <1>3, PTL DEF Spec
=============================================================================
