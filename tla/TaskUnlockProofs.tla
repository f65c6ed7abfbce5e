-------------------------- MODULE TaskUnlockProofs --------------------------
(***************************************************************************)
(* No completion loses a task it should start, for every set of tasks and  *)
(* requests and every graph of dependencies.  The argument: an owed task   *)
(* has, as long as it is owed, nothing left to wait for and stays in the   *)
(* backlog, so that both tests of the request that is in charge of it      *)
(* come out in its favour; and a request is in charge from the write that  *)
(* makes the task owed, before it has read anything.                       *)
(***************************************************************************)
EXTENDS TaskUnlock, TLAPS

(* What makes the tests of a request succeed for an owed task.             *)
OwedIsReady ==
  \A d \in owed : status[d] = "backlog" /\ AreAllDependenciesCompleted(d)

Unlocking == TypeOK /\ OwedIsReady /\ NoLostUnlock

LEMMA InitUnlocking == Init => Unlocking
  BY UnlockAssumption DEF Init, Unlocking, TypeOK, OwedIsReady, NoLostUnlock, Statuses

(* Every value a step writes has its type.                                 *)
LEMMA TypeStep == TypeOK /\ [Next]_vars => TypeOK'
<1> SUFFICES ASSUME TypeOK, [Next]_vars PROVE TypeOK'
  OBVIOUS
<1> USE UnlockAssumption DEF TypeOK
<1>1. ASSUME NEW r \in Requests, NEW t \in Tasks, Complete(r, t) PROVE TypeOK'
  BY <1>1 DEF Complete, bounds, Statuses, StillOwed, GetDependents
<1>2. ASSUME NEW r \in Requests, PauseParent(r) PROVE TypeOK'
  BY <1>2 DEF PauseParent, bounds, Statuses, StillOwed
<1>3. ASSUME NEW r \in Requests, FindDependents(r) PROVE TypeOK'
  BY <1>3 DEF FindDependents, bounds, GetDependents
<1>4. ASSUME NEW r \in Requests, NEW d \in Tasks, CheckDependencies(r, d)
      PROVE TypeOK'
  BY <1>4 DEF CheckDependencies, bounds
<1>5. ASSUME NEW r \in Requests, CheckBacklog(r) PROVE TypeOK'
  BY <1>5 DEF CheckBacklog, bounds
<1>6. ASSUME NEW r \in Requests, AllChecked(r) PROVE TypeOK'
  BY <1>6 DEF AllChecked, bounds
<1>7. ASSUME NEW r \in Requests, NEW d \in Tasks, Unlock(r, d) PROVE TypeOK'
  BY <1>7 DEF Unlock, bounds, Statuses, StillOwed
<1>8. ASSUME NEW r \in Requests, Answer(r) PROVE TypeOK'
  BY <1>8 DEF Answer, bounds
<1>9. ASSUME NEW r \in Requests, Fail(r) PROVE TypeOK'
  BY <1>9 DEF Fail, bounds
<1>10. ASSUME NEW st \in [Tasks -> Statuses], NEW deps \in SUBSET (Tasks \X Tasks),
              Edit(st, deps)
       PROVE TypeOK'
  BY <1>10 DEF Edit, request, StillOwed
<1>11. ASSUME SomeEdit PROVE TypeOK'
  <2>1. ASSUME NEW t \in Tasks, NEW s \in Statuses, SetStatus(t, s) PROVE TypeOK'
    BY <1>10, <2>1 DEF SetStatus
  <2>2. ASSUME NEW t \in Tasks, NEW u \in Tasks, AddDependency(t, u)
        PROVE TypeOK'
    BY <1>10, <2>2 DEF AddDependency
  <2>3. ASSUME NEW t \in Tasks, NEW u \in Tasks, RemoveDependency(t, u)
        PROVE TypeOK'
    BY <1>10, <2>3 DEF RemoveDependency
  <2>4. ASSUME NEW t \in Tasks, Delete(t) PROVE TypeOK'
    <3>1. [status EXCEPT ![t] = "gone"] \in [Tasks -> Statuses]
      BY DEF Statuses
    <3>2. {e \in blocks : e[1] # t /\ e[2] # t} \in SUBSET (Tasks \X Tasks)
      OBVIOUS
    <3> QED BY <1>10, <2>4, <3>1, <3>2 DEF Delete
  <2> QED
    BY <1>11, <2>1, <2>2, <2>3, <2>4 DEF SomeEdit
<1>12. CASE UNCHANGED vars
  BY <1>12 DEF vars, request, bounds
<1> QED
  BY <1>1, <1>2, <1>3, <1>4, <1>5, <1>6, <1>7, <1>8, <1>9, <1>11, <1>12
     DEF Next, Continue

(* A step that leaves the requests alone and recomputes owed, as every     *)
(* write of a task or a dependency does, keeps who is in charge: what is   *)
(* still owed has kept its dependencies.                                   *)
LEMMA StillInCharge ==
  ASSUME Unlocking, NEW st, NEW deps, UNCHANGED request, died' = died,
         blocks' = deps, status' = st, owed' = StillOwed(st, deps)
  PROVE  OwedIsReady' /\ NoLostUnlock'
<1>1. OwedIsReady'
  BY DEF StillOwed, OwedIsReady, AreAllDependenciesCompleted
<1>2. ASSUME NEW d \in owed'
      PROVE  (\E r \in Requests : InCharge(r, d)') \/ CutShort(d)'
  <2>1. d \in owed /\ d \in Tasks
    BY <1>2 DEF StillOwed, Unlocking, TypeOK
  <2>2. ASSUME NEW u, <<d, u>> \in blocks PROVE <<d, u>> \in blocks'
    BY <1>2, <2>2 DEF StillOwed, Unlocking, TypeOK
  <2>3. CASE CutShort(d)
    BY <2>2, <2>3 DEF CutShort
  <2>4. ASSUME NEW r \in Requests, InCharge(r, d) PROVE InCharge(r, d)'
    BY <2>2, <2>4 DEF InCharge, request
  <2> QED
    BY <2>1, <2>3, <2>4 DEF Unlocking, NoLostUnlock
<1> QED
  BY <1>1, <1>2 DEF NoLostUnlock

(* An edit, whatever rows it leaves, is such a step.                       *)
LEMMA EditStep ==
  ASSUME Unlocking, NEW st, NEW deps, Edit(st, deps)
  PROVE  OwedIsReady' /\ NoLostUnlock'
  BY StillInCharge DEF Edit

(* A step of one request that writes no task and gives up no dependent.    *)
LEMMA HandedOn ==
  ASSUME Unlocking, UNCHANGED <<status, blocks, owed>>, died \subseteq died',
         NEW r \in Requests,
         \A q \in Requests, d \in owed :
           InCharge(q, d) => InCharge(q, d)' \/ CutShort(d)'
  PROVE  OwedIsReady' /\ NoLostUnlock'
  BY DEF Unlocking, OwedIsReady, AreAllDependenciesCompleted, NoLostUnlock, CutShort

(* Each step of the request itself.                                        *)
LEMMA UnlockingStep == Unlocking /\ [Next]_vars => Unlocking'
<1> SUFFICES ASSUME Unlocking, [Next]_vars PROVE OwedIsReady' /\ NoLostUnlock'
  BY TypeStep DEF Unlocking
<1> USE DEF Unlocking, TypeOK
<1>1. ASSUME NEW r \in Requests, NEW t \in Tasks, Complete(r, t)
      PROVE OwedIsReady' /\ NoLostUnlock'
  <2>1. \A d \in owed' : status'[d] = "backlog" /\ NothingLeft(d, status', blocks')
    BY <1>1 DEF Complete, StillOwed
  <2>2. ASSUME NEW d \in Tasks, <<d, t>> \in blocks PROVE InCharge(r, d)'
    BY <1>1, <2>2 DEF Complete, InCharge
  <2>3. ASSUME NEW d \in Tasks, NEW q \in Requests, InCharge(q, d)
        PROVE InCharge(q, d)'
    BY <1>1, <2>3, UnlockAssumption DEF Complete, InCharge
  <2>4. ASSUME NEW d \in owed', d \in owed, CutShort(d)
        PROVE CutShort(d)' \/ InCharge(r, d)'
    BY <1>1, <2>2, <2>4 DEF Complete, CutShort
  <2>5. ASSUME NEW d \in owed', d \notin owed PROVE InCharge(r, d)'
    BY <1>1, <2>2, <2>5 DEF Complete, StillOwed, GetDependents
  <2>6. NoLostUnlock'
    BY <1>1, <2>3, <2>4, <2>5 DEF NoLostUnlock
  <2> QED BY <2>1, <2>6 DEF OwedIsReady, AreAllDependenciesCompleted
<1>2. ASSUME NEW r \in Requests, PauseParent(r)
      PROVE OwedIsReady' /\ NoLostUnlock'
  <2>1. OwedIsReady'
    BY <1>2 DEF PauseParent, StillOwed, OwedIsReady, AreAllDependenciesCompleted
  <2>2. ASSUME NEW d \in owed' PROVE (\E q \in Requests : InCharge(q, d)') \/ CutShort(d)'
    <3>1. d \in owed
      BY <1>2 DEF PauseParent, StillOwed
    <3>2. ASSUME NEW q \in Requests, InCharge(q, d) PROVE InCharge(q, d)'
      BY <1>2, <3>2 DEF PauseParent, InCharge
    <3>3. ASSUME CutShort(d) PROVE CutShort(d)'
      BY <1>2, <3>3 DEF PauseParent, CutShort
    <3> QED BY <3>1, <3>2, <3>3 DEF NoLostUnlock
  <2> QED BY <2>1, <2>2 DEF NoLostUnlock
<1>3. ASSUME NEW r \in Requests, FindDependents(r)
      PROVE OwedIsReady' /\ NoLostUnlock'
  <2>1. ASSUME NEW q \in Requests, NEW d \in owed, InCharge(q, d)
        PROVE InCharge(q, d)'
    BY <1>3, <2>1 DEF FindDependents, GetDependents, InCharge
  <2> QED BY <1>3, <2>1, HandedOn DEF FindDependents
<1>4. ASSUME NEW r \in Requests, NEW t \in Tasks, CheckDependencies(r, t)
      PROVE OwedIsReady' /\ NoLostUnlock'
  <2>1. ASSUME NEW q \in Requests, NEW d \in owed, InCharge(q, d)
        PROVE InCharge(q, d)'
    BY <1>4, <2>1, UnlockAssumption DEF CheckDependencies, InCharge, OwedIsReady
  <2> QED BY <1>4, <2>1, HandedOn DEF CheckDependencies
<1>5. ASSUME NEW r \in Requests, CheckBacklog(r)
      PROVE OwedIsReady' /\ NoLostUnlock'
  <2>1. ASSUME NEW q \in Requests, NEW d \in owed, InCharge(q, d)
        PROVE InCharge(q, d)'
    BY <1>5, <2>1 DEF CheckBacklog, InCharge, OwedIsReady
  <2> QED BY <1>5, <2>1, HandedOn DEF CheckBacklog
<1>6. ASSUME NEW r \in Requests, AllChecked(r)
      PROVE OwedIsReady' /\ NoLostUnlock'
  <2>1. ASSUME NEW q \in Requests, NEW d \in owed, InCharge(q, d)
        PROVE InCharge(q, d)'
    BY <1>6, <2>1 DEF AllChecked, InCharge
  <2> QED BY <1>6, <2>1, HandedOn DEF AllChecked
<1>7. ASSUME NEW r \in Requests, NEW t \in Tasks, Unlock(r, t)
      PROVE OwedIsReady' /\ NoLostUnlock'
  <2>1. OwedIsReady'
    BY <1>7 DEF Unlock, StillOwed, OwedIsReady, AreAllDependenciesCompleted
  <2>2. t \notin owed'
    BY <1>7 DEF Unlock, StillOwed
  <2>3. ASSUME NEW d \in owed' PROVE (\E q \in Requests : InCharge(q, d)') \/ CutShort(d)'
    <3>1. d \in owed /\ d # t
      BY <1>7, <2>2 DEF Unlock, StillOwed
    <3>2. ASSUME NEW q \in Requests, InCharge(q, d) PROVE InCharge(q, d)'
      BY <1>7, <3>1, <3>2 DEF Unlock, InCharge
    <3>3. ASSUME CutShort(d) PROVE CutShort(d)'
      BY <1>7, <3>3 DEF Unlock, CutShort
    <3> QED BY <3>1, <3>2, <3>3 DEF NoLostUnlock
  <2> QED BY <2>1, <2>3 DEF NoLostUnlock
<1>8. ASSUME NEW r \in Requests, Answer(r)
      PROVE OwedIsReady' /\ NoLostUnlock'
  <2>1. ASSUME NEW q \in Requests, NEW d \in owed, InCharge(q, d)
        PROVE InCharge(q, d)'
    BY <1>8, <2>1, UnlockAssumption DEF Answer, InCharge
  <2> QED BY <1>8, <2>1, HandedOn DEF Answer
<1>9. ASSUME NEW r \in Requests, Fail(r)
      PROVE OwedIsReady' /\ NoLostUnlock'
  <2>1. ASSUME NEW d \in owed, NEW q \in Requests, q # r, InCharge(q, d)
        PROVE InCharge(q, d)'
    BY <1>9, <2>1 DEF Fail, InCharge
  <2>2. ASSUME NEW d \in owed, InCharge(r, d) PROVE CutShort(d)'
    BY <1>9, <2>2 DEF Fail, InCharge, CutShort
  <2> QED BY <1>9, <2>1, <2>2, HandedOn DEF Fail
<1>10. ASSUME SomeEdit PROVE OwedIsReady' /\ NoLostUnlock'
  BY <1>10, EditStep DEF SomeEdit, SetStatus, AddDependency, RemoveDependency, Delete
<1>11. CASE UNCHANGED vars
  BY <1>11 DEF vars, request, OwedIsReady, AreAllDependenciesCompleted,
               NoLostUnlock, InCharge, CutShort
<1> QED
  BY <1>1, <1>2, <1>3, <1>4, <1>5, <1>6, <1>7, <1>8, <1>9, <1>10, <1>11
     DEF Next, Continue

(* A request holds dependents and results only while it works on them:     *)
(* the last clauses of TypeOK tie its variables to its place in the code.  *)
THEOREM UnlockTypes == Spec => []TypeOK
<1>1. Init => TypeOK
  BY InitUnlocking DEF Unlocking
<1> QED
  BY <1>1, TypeStep, PTL DEF Spec

(* For every set of tasks, every graph of dependencies and any number of   *)
(* concurrent requests: a task whose last blocker a request has completed  *)
(* is started by a request that is under way, unless the request failed.   *)
THEOREM CompletionsLoseNoUnlock == Spec => []NoLostUnlock
<1>1. Init => Unlocking
  BY InitUnlocking
<1>2. Unlocking /\ [Next]_vars => Unlocking'
  BY UnlockingStep
<1>3. Unlocking => NoLostUnlock
  BY DEF Unlocking
<1> QED
  BY <1>1, <1>2, <1>3, PTL DEF Spec
=============================================================================
