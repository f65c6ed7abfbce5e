----------------------------- MODULE TaskUnlock -----------------------------
(***************************************************************************)
(* What completing a task does to the tasks around it: the update-status   *)
(* request of the task router writes `completed', pauses the parent where  *)
(* a checkpoint asks for it, looks for tasks that depended on this one and *)
(* have nothing left to wait for, and starts them.  Each read and write is *)
(* a query of its own, without a transaction: requests interleave, and one *)
(* that fails half-way has done the first half.  Tasks are also completed  *)
(* by the task lifecycle and by an agent's tool, which only write.         *)
(***************************************************************************)
EXTENDS Integers

CONSTANTS
  Tasks, Requests, None,
  Parent,             \* parentTaskId
  BeforeIds, AfterIds,\* checkpoint.tasks of each task: children to pause at
  InitBlocks,         \* <<t, u>>: t depends on u, with type `blocks'
  MaxCalls,           \* bound: calls that change a task or a dependency
  MaxFailures         \* bound: requests that die or whose query fails

ASSUME UnlockAssumption ==
  /\ None \notin Tasks
  /\ Parent \in [Tasks -> Tasks \cup {None}]
  /\ BeforeIds \in [Tasks -> SUBSET Tasks] /\ AfterIds \in [Tasks -> SUBSET Tasks]
  /\ InitBlocks \subseteq Tasks \X Tasks
  /\ MaxCalls \in Nat /\ MaxFailures \in Nat

VARIABLES
  status,    \* tasks.status; gone: the row is deleted
  blocks,    \* task_dependencies
  pc,        \* where each request is
  target,    \* the task it completes
  todo,      \* dependents getUnlockedTasks has not looked at
  checking,  \* the one whose dependencies it has found completed
  found,     \* the tasks it is going to start
  owed,      \* history: tasks a completion has left with nothing to wait for
  died,      \* history: tasks whose completion was not carried through
  calls, failures

request == <<pc, target, todo, checking, found>>
bounds == <<calls, failures>>
vars == <<status, blocks, request, owed, died, bounds>>

Statuses == {"backlog", "running", "paused", "completed", "failed",
             "canceled", "gone"}

TypeOK ==
  /\ status \in [Tasks -> Statuses]
  /\ blocks \subseteq Tasks \X Tasks
  /\ pc \in [Requests -> {"idle", "parent", "dependents", "checking",
                          "unlocking"}]
  /\ target \in [Requests -> Tasks \cup {None}]
  /\ todo \in [Requests -> SUBSET Tasks]
  /\ checking \in [Requests -> Tasks \cup {None}]
  /\ found \in [Requests -> SUBSET Tasks]
  /\ owed \subseteq Tasks /\ died \subseteq Tasks
  /\ calls \in 0 .. MaxCalls /\ failures \in 0 .. MaxFailures
  /\ \A r \in Requests :
       /\ pc[r] # "idle" => target[r] \in Tasks
       /\ pc[r] # "checking" => todo[r] = {} /\ checking[r] = None
       /\ pc[r] \notin {"checking", "unlocking"} => found[r] = {}

Init ==
  /\ status = [t \in Tasks |-> "backlog"] /\ blocks = InitBlocks
  /\ pc = [r \in Requests |-> "idle"] /\ target = [r \in Requests |-> None]
  /\ todo = [r \in Requests |-> {}] /\ found = [r \in Requests |-> {}]
  /\ checking = [r \in Requests |-> None]
  /\ owed = {} /\ died = {} /\ calls = 0 /\ failures = 0

----------------------------------------------------------------------------
(* Dependencies                                                            *)

GetDependents(t) == {d \in Tasks : <<d, t>> \in blocks}

(* The query of areAllDependenciesCompleted, over given rows.              *)
NothingLeft(d, st, deps) ==
  \A u \in Tasks : <<d, u>> \in deps => st[u] = "completed"

AreAllDependenciesCompleted(d) == NothingLeft(d, status, blocks)

(* A task stays owed while it waits in the backlog with nothing left to    *)
(* wait for.  Who takes a dependency of it away takes it over.             *)
StillOwed(st, deps) ==
  {d \in owed : /\ st[d] = "backlog" /\ NothingLeft(d, st, deps)
                /\ \A u \in Tasks : <<d, u>> \in blocks => <<d, u>> \in deps}

----------------------------------------------------------------------------
(* The request that completes a task                                       *)

(* One write; the rest of the request follows from the row it returns.     *)
Complete(r, t) ==
  /\ pc[r] = "idle" /\ status[t] # "gone" /\ calls < MaxCalls
  /\ calls' = calls + 1
  /\ status' = [status EXCEPT ![t] = "completed"]
  /\ target' = [target EXCEPT ![r] = t]
  /\ pc' = [pc EXCEPT ![r] = IF Parent[t] = None THEN "dependents" ELSE "parent"]
  /\ owed' = StillOwed(status', blocks) \cup
               {d \in GetDependents(t) :
                  status'[d] = "backlog" /\ NothingLeft(d, status', blocks)}
  /\ died' = died \ {t}
  /\ UNCHANGED <<blocks, todo, checking, found, failures>>

(* Defect: the request answers once the parent is paused.                  *)
PauseParentLast(r) ==
  /\ pc[r] = "parent"
  /\ LET p == Parent[target[r]]
         hit == status[p] # "gone" /\ target[r] \in AfterIds[p]
     IN /\ status' = IF hit THEN [status EXCEPT ![p] = "paused"] ELSE status
        /\ pc' = [pc EXCEPT ![r] = IF hit THEN "idle" ELSE "dependents"]
        /\ target' = [target EXCEPT ![r] = IF hit THEN None ELSE @]
  /\ owed' = StillOwed(status', blocks)
  /\ UNCHANGED <<blocks, todo, checking, found, died, bounds>>

(* The afterIds checkpoint of the parent: paused whatever its status.      *)
PauseParent(r) ==
  /\ pc[r] = "parent"
  /\ LET p == Parent[target[r]] IN
       status' = IF status[p] # "gone" /\ target[r] \in AfterIds[p]
                 THEN [status EXCEPT ![p] = "paused"] ELSE status
  /\ pc' = [pc EXCEPT ![r] = "dependents"]
  /\ owed' = StillOwed(status', blocks)
  /\ UNCHANGED <<blocks, target, todo, checking, found, died, bounds>>

FindDependents(r) ==
  /\ pc[r] = "dependents"
  /\ todo' = [todo EXCEPT ![r] = GetDependents(target[r])]
  /\ pc' = [pc EXCEPT ![r] = "checking"]
  /\ UNCHANGED <<status, blocks, target, checking, found, owed, died, bounds>>

CheckDependencies(r, d) ==
  /\ pc[r] = "checking" /\ checking[r] = None /\ d \in todo[r]
  /\ todo' = [todo EXCEPT ![r] = @ \ {d}]
  /\ checking' = [checking EXCEPT ![r] =
                    IF AreAllDependenciesCompleted(d) THEN d ELSE None]
  /\ UNCHANGED <<status, blocks, pc, target, found, owed, died, bounds>>

(* Defect: a row that is not there is collected as null.                   *)
CheckBacklogNoRow(r) ==
  /\ checking[r] # None
  /\ checking' = [checking EXCEPT ![r] = None]
  /\ LET d == checking[r]
         row == IF status[d] = "gone" THEN None ELSE d
     IN found' = IF status[d] \in {"backlog", "gone"}
                 THEN [found EXCEPT ![r] = @ \cup {row}] ELSE found
  /\ UNCHANGED <<status, blocks, pc, target, todo, owed, died, bounds>>

(* "only unlock if it's in backlog"                                        *)
CheckBacklog(r) ==
  /\ checking[r] # None
  /\ checking' = [checking EXCEPT ![r] = None]
  /\ found' = IF status[checking[r]] = "backlog"
              THEN [found EXCEPT ![r] = @ \cup {checking[r]}] ELSE found
  /\ UNCHANGED <<status, blocks, pc, target, todo, owed, died, bounds>>

AllChecked(r) ==
  /\ pc[r] = "checking" /\ checking[r] = None /\ todo[r] = {}
  /\ pc' = [pc EXCEPT ![r] = "unlocking"]
  /\ UNCHANGED <<status, blocks, target, todo, checking, found, owed, died, bounds>>

(* Defect: a task its parent holds back is skipped, not paused.            *)
UnlockSkipsHeld(r, d) ==
  /\ pc[r] = "unlocking" /\ d \in found[r]
  /\ found' = [found EXCEPT ![r] = @ \ {d}]
  /\ LET p == Parent[d]
         held == p # None /\ status[p] # "gone" /\ d \in BeforeIds[p]
     IN status' = IF held \/ status[d] = "gone" THEN status
                  ELSE [status EXCEPT ![d] = "running"]
  /\ owed' = StillOwed(status', blocks)
  /\ UNCHANGED <<blocks, pc, target, todo, checking, died, bounds>>

(* The task is started, or paused where the beforeIds of its parent name   *)
(* it, whatever its status is by now; a deleted row is not there to write. *)
Unlock(r, d) ==
  /\ pc[r] = "unlocking" /\ d \in found[r]
  /\ found' = [found EXCEPT ![r] = @ \ {d}]
  /\ LET p == Parent[d]
         held == p # None /\ status[p] # "gone" /\ d \in BeforeIds[p]
     IN status' = IF status[d] = "gone" THEN status
                  ELSE [status EXCEPT ![d] = IF held THEN "paused" ELSE "running"]
  /\ owed' = StillOwed(status', blocks)
  /\ UNCHANGED <<blocks, pc, target, todo, checking, died, bounds>>

Answer(r) ==
  /\ pc[r] = "unlocking" /\ found[r] = {}
  /\ pc' = [pc EXCEPT ![r] = "idle"] /\ target' = [target EXCEPT ![r] = None]
  /\ UNCHANGED <<status, blocks, todo, checking, found, owed, died, bounds>>

(* A query throws (`Failed to update status') or the process dies.  The    *)
(* completion has been written and nobody comes back for what is left.     *)
Fail(r) ==
  /\ pc[r] # "idle" /\ failures < MaxFailures
  /\ failures' = failures + 1
  /\ died' = died \cup {target[r]}
  /\ pc' = [pc EXCEPT ![r] = "idle"] /\ target' = [target EXCEPT ![r] = None]
  /\ todo' = [todo EXCEPT ![r] = {}] /\ found' = [found EXCEPT ![r] = {}]
  /\ checking' = [checking EXCEPT ![r] = None]
  /\ UNCHANGED <<status, blocks, owed, calls>>

----------------------------------------------------------------------------
(* Everything else that writes tasks and dependencies                      *)

Edit(st, deps) ==
  /\ calls < MaxCalls /\ calls' = calls + 1
  /\ status' = st /\ blocks' = deps
  /\ owed' = StillOwed(st, deps)
  /\ UNCHANGED <<request, died, failures>>

(* Another status from the router, a run, or an agent's tool; `completed'  *)
(* from an agent's tool or onTopicComplete, which look at no dependent.    *)
SetStatus(t, s) ==
  /\ status[t] # "gone"
  /\ Edit([status EXCEPT ![t] = s], blocks)

AddDependency(t, u) ==
  /\ status[t] # "gone" /\ status[u] # "gone"
  /\ Edit(status, blocks \cup {<<t, u>>})

RemoveDependency(t, u) ==
  /\ status[t] # "gone" /\ status[u] # "gone"
  /\ Edit(status, blocks \ {<<t, u>>})

(* The rows of its dependencies go with it.                                *)
Delete(t) ==
  /\ status[t] # "gone"
  /\ Edit([status EXCEPT ![t] = "gone"],
          {e \in blocks : e[1] # t /\ e[2] # t})

----------------------------------------------------------------------------

Continue(r) ==
  \/ PauseParent(r) \/ FindDependents(r)
  \/ \E d \in Tasks : CheckDependencies(r, d)
  \/ CheckBacklog(r) \/ AllChecked(r)
  \/ \E d \in Tasks : Unlock(r, d)
  \/ Answer(r)

SomeEdit ==
  \/ \E t \in Tasks, s \in Statuses \ {"gone"} : SetStatus(t, s)
  \/ \E t, u \in Tasks : AddDependency(t, u) \/ RemoveDependency(t, u)
  \/ \E t \in Tasks : Delete(t)

Next ==
  \/ \E r \in Requests : \/ \E t \in Tasks : Complete(r, t)
                         \/ Continue(r) \/ Fail(r)
  \/ SomeEdit

Spec == Init /\ [][Next]_vars

(* A request goes on as long as the server runs it; users need not act.    *)
FairSpec == Spec /\ \A r \in Requests : WF_vars(Continue(r))

----------------------------------------------------------------------------
(* Properties                                                              *)

InCharge(r, d) ==
  /\ <<d, target[r]>> \in blocks
  /\ \/ pc[r] \in {"parent", "dependents"}
     \/ d \in todo[r] \/ checking[r] = d \/ d \in found[r]

CutShort(d) == \E t \in died : <<d, t>> \in blocks

(* However requests that complete several tasks interleave with each other *)
(* and with edits, a task in the backlog whose blockers a request has      *)
(* completed is in the hands of a request that is going to start it, or is *)
(* left by one that failed: the last of two concurrent completions always  *)
(* sees both.                                                              *)
NoLostUnlock ==
  \A d \in owed : (\E r \in Requests : InCharge(r, d)) \/ CutShort(d)

(* Such a task leaves the backlog, or is taken over by an edit of its      *)
(* dependencies, unless the request that would have started it failed.     *)
UnlocksHappen ==
  \A d \in Tasks : d \in owed ~> (d \notin owed \/ CutShort(d))

(* "only unlock if it's in backlog": a completion never changes the status *)
(* of a dependent that somebody has moved out of the backlog.              *)
OnlyBacklogUnlocked ==
  [][\A r \in Requests, d \in Tasks :
       d \in found[r] \ found'[r] /\ status'[d] # status[d]
         => status[d] = "backlog"]_vars
=============================================================================
