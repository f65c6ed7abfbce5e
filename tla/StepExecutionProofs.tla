------------------------ MODULE StepExecutionProofs ------------------------
(***************************************************************************)
(* Theorems about StepExecution, for every number of workers, of steps, of *)
(* retries and of faults.                                                  *)
(***************************************************************************)
EXTENDS StepExecution, FiniteSetTheorems, TLAPS

-----------------------------------------------------------------------------
(* Helpers *)

(* Adding one copy of anything to a bag gives a bag over the same set. *)
LEMMA BagAdd ==
  ASSUME NEW S, NEW q \in [S -> Nat], NEW k
  PROVE  [q EXCEPT ![k] = @ + 1] \in [S -> Nat]
<1>1. CASE k \in S
  <2>1. q[k] + 1 \in Nat
    BY <1>1
  <2> QED
    BY <2>1
<1>2. CASE k \notin S
  BY <1>2
<1> QED
  BY <1>1, <1>2

(* So does taking one copy of what the bag holds. *)
LEMMA BagRemove ==
  ASSUME NEW S, NEW q \in [S -> Nat], NEW k \in S, q[k] > 0
  PROVE  [q EXCEPT ![k] = @ - 1] \in [S -> Nat]
<1>1. q[k] - 1 \in Nat
  OBVIOUS
<1> QED
  BY <1>1

LEMMA RetryType ==
  ASSUME NEW q \in [Message -> Nat], NEW m, NEW cool
  PROVE  Retry(q, m, cool) \in [Message -> Nat]
<1> DEFINE k == [m EXCEPT !.left = @ - 1, !.cooled = cool]
<1>1. [q EXCEPT ![k] = @ + 1] \in [Message -> Nat]
  <2> HIDE DEF k
  <2> QED BY BagAdd
<1> QED
  BY <1>1 DEF Retry

LEMMA FirstDeliveryType ==
  ASSUME NEW s \in Steps PROVE FirstDelivery(s) \in Message
  BY BoundsAssumption DEF FirstDelivery, Message

Kinds == {"crash", "late", "throw", "catch", "open", "overrun", "interrupt", "start"}

(* Spending keeps the budget, adds one to its own account and leaves the others
   alone. *)
LEMMA SpendType ==
  ASSUME spent \in Budget, NEW k \in Kinds, Spend(k)
  PROVE  /\ spent' \in Budget
         /\ spent'[k] = spent[k] + 1
         /\ \A i \in Kinds \ {k} : spent'[i] = spent[i]
<1>1. spent[k] < Limit[k] /\ spent' = [spent EXCEPT ![k] = @ + 1]
  BY DEF Spend
<1>2. \A i \in Kinds : spent[i] \in 0..Limit[i]
  BY DEF Kinds, Budget, Limit
<1>3. \A i \in Kinds : Limit[i] \in Nat
  BY BoundsAssumption DEF Kinds, Limit
<1>4. spent[k] + 1 \in 0..Limit[k]
  BY <1>1, <1>2, <1>3
<1>5. DOMAIN spent = Kinds
  BY DEF Budget, Kinds
<1>6. /\ DOMAIN spent' = Kinds
      /\ spent'[k] = spent[k] + 1
      /\ \A i \in Kinds \ {k} : spent'[i] = spent[i]
  BY <1>1, <1>5
<1>7. spent' = [crash |-> spent'.crash, late |-> spent'.late,
                throw |-> spent'.throw, catch |-> spent'.catch,
                open |-> spent'.open, overrun |-> spent'.overrun,
                interrupt |-> spent'.interrupt, start |-> spent'.start]
  BY <1>1 DEF Budget
<1>8. \A i \in Kinds : spent'[i] \in 0..Limit[i]
  BY <1>2, <1>4, <1>6
<1>9. spent' \in Budget
  BY <1>7, <1>8 DEF Budget, Kinds, Limit
<1> QED
  BY <1>6, <1>9

LEMMA SpentType ==
  ASSUME spent \in Budget
  PROVE  \A k \in Kinds : spent[k] \in Nat
  BY BoundsAssumption DEF Budget, Kinds

(* Whatever a step returns is a state record and a flag; it has finished the
   operation with the count unchanged, or has been counted and ended, paused or
   kept the operation as it was.  A next context is within the bound. *)
LEMMA StepResultType ==
  ASSUME NEW s \in State, NEW i, NEW r \in StepResult(s, i)
  PROVE  /\ r.state \in State /\ r.next \in BOOLEAN
         /\ \/ r.state.stepCount = s.stepCount /\ r.state.status = "done"
            \/ /\ r.state.stepCount = s.stepCount + 1
               /\ r.state.status \in StreamEnd \cup {s.status}
         /\ r.state.hooks = s.hooks
         /\ r.next => i < MaxStep
<1> DEFINE Result(status, count, next) ==
      [state |-> [s EXCEPT !.status = status, !.stepCount = count],
       next |-> next]
<1>1. s.status \in Status /\ s.stepCount \in Nat /\ s.stepCount + 1 \in Nat
  BY DEF State
<1>2. \/ r = Result("done", s.stepCount, FALSE)
      \/ \E status \in StreamEnd \cup {s.status} :
           r = Result(status, s.stepCount + 1, FALSE)
      \/ r = Result(s.status, s.stepCount + 1, s.status \in Active) /\ i < MaxStep
  BY DEF StepResult
<1> HIDE DEF Result
<1>4. "done" \in Status /\ StreamEnd \cup {s.status} \subseteq Status
  BY <1>1 DEF Status, StreamEnd, Terminal
<1>5. \E status \in Status, count \in Nat, next \in BOOLEAN :
        /\ r = Result(status, count, next)
        /\ \/ count = s.stepCount /\ status = "done"
           \/ count = s.stepCount + 1 /\ status \in StreamEnd \cup {s.status}
        /\ next => i < MaxStep
  <2>1. CASE r = Result("done", s.stepCount, FALSE)
    BY <1>1, <1>4, <2>1
  <2>2. CASE \E status \in StreamEnd \cup {s.status} :
               r = Result(status, s.stepCount + 1, FALSE)
    <3>1. PICK status \in StreamEnd \cup {s.status} :
            r = Result(status, s.stepCount + 1, FALSE)
      BY <2>2
    <3> QED
      BY <1>1, <1>4, <3>1
  <2>3. CASE r = Result(s.status, s.stepCount + 1, s.status \in Active) /\ i < MaxStep
    <3> DEFINE next == s.status \in Active
    <3>1. next \in BOOLEAN /\ r = Result(s.status, s.stepCount + 1, next)
      BY <2>3
    <3> HIDE DEF next
    <3> QED
      BY <1>1, <1>4, <2>3, <3>1
  <2> QED
    BY <1>2, <2>1, <2>2, <2>3
<1>6. PICK status \in Status, count \in Nat, next \in BOOLEAN :
        /\ r = Result(status, count, next)
        /\ \/ count = s.stepCount /\ status = "done"
           \/ count = s.stepCount + 1 /\ status \in StreamEnd \cup {s.status}
        /\ next => i < MaxStep
  BY <1>5
<1> DEFINE t == [s EXCEPT !.status = status, !.stepCount = count]
<1>7. /\ t \in State /\ t.status = status /\ t.stepCount = count
      /\ t.hooks = s.hooks
  BY DEF State
<1>8. r.state = t /\ r.next = next
  BY <1>6 DEF Result
<1> HIDE DEF t
<1> QED
  BY <1>6, <1>7, <1>8

-----------------------------------------------------------------------------
(* Type correctness *)

(* The initial states have their types. *)
LEMMA InitType == Init => TypeOK
<1> SUFFICES ASSUME Init PROVE TypeOK
  OBVIOUS
<1>1. 0 \in Steps
  BY BoundsAssumption DEF Steps
<1>2. op \in State
  BY DEF Init, NewState, State, Status, Active
<1>3. spent \in Budget
  <2>1. spent = [crash |-> 0, late |-> 0, throw |-> 0, catch |-> 0, open |-> 0,
                 overrun |-> 0, interrupt |-> 0, start |-> 0]
    BY DEF Init, Limit
  <2> QED
    BY <2>1, BoundsAssumption DEF Budget
<1>4. queue \in [Message -> Nat]
  BY DEF Init
<1>5. job \in [Workers -> Message]
  BY <1>1, FirstDeliveryType DEF Init
<1> QED
  BY <1>2, <1>3, <1>4, <1>5
  DEF Init, TypeOK, Label, Status, Active, StreamEnd

LEMMA LabelType ==
  /\ {"off", "load", "run", "recheck", "prev", "write", "end", "stepEvent",
       "next", "catch", "fail", "release200", "release500", "ack", "enqueue"}
       \subseteq Label
  /\ StreamEnd \subseteq Status
  /\ Active \subseteq Status
  /\ {"done", "error", "interrupted"} \subseteq StreamEnd
  BY DEF Label, Status, StreamEnd, Terminal

(* What an invocation does to the queue and to the lock on its way in and out *)
LEMMA DeliveryType ==
  ASSUME TypeOK, NEW w \in Workers
  PROVE  /\ \A m \in Message : Claim(w, m) => TypeOK'
         /\ DeliveryTimeout(w) => TypeOK'
         /\ ReleaseStepLock(w) => TypeOK'
         /\ Crash(w) => TypeOK'
<1> USE DEF TypeOK, Goto
<1>1. ASSUME NEW m \in Message, Claim(w, m) PROVE TypeOK'
  <2>1. queue' \in [Message -> Nat]
    BY <1>1, BagRemove DEF Claim, Take, Deliverable
  <2>2. lock' \subseteq Steps /\ spent' \in Budget
    BY <1>1, SpendType DEF Claim, TryClaimStep, Message, Kinds
  <2> QED
    BY <1>1, <2>1, <2>2, LabelType DEF Claim, Actors
<1>2. ASSUME DeliveryTimeout(w) PROVE TypeOK'
  BY <1>2, RetryType DEF DeliveryTimeout
<1>3. ASSUME Leave(w) PROVE /\ pc' \in [Actors -> Label]
                            /\ live' \in [Workers -> BOOLEAN]
                            /\ job' \in [Workers -> Message]
                            /\ mem' \in [Actors -> State]
                            /\ prev' \in [Actors -> Status]
                            /\ ctx' \in [Workers -> BOOLEAN]
                            /\ resume' \in [Actors -> Label]
  <2>1. FirstDelivery(0) \in Message
    BY FirstDeliveryType, BoundsAssumption DEF Steps
  <2>2. NewState \in State /\ "idle" \in Status
    BY DEF NewState, State, Status, Active
  <2> QED
    BY <1>3, <2>1, <2>2, LabelType DEF Leave, Actors
<1>4. ASSUME ReleaseStepLock(w) PROVE TypeOK'
  <2>1. queue' \in [Message -> Nat]
    BY <1>4, RetryType DEF ReleaseStepLock
  <2>2. lock' \subseteq Steps /\ spent' \in Budget
    BY <1>4, SpendType DEF ReleaseStepLock, Kinds
  <2> QED
    BY <1>3, <1>4, <2>1, <2>2 DEF ReleaseStepLock
<1>5. ASSUME Crash(w) PROVE TypeOK'
  <2>1. queue' \in [Message -> Nat]
    BY <1>5, RetryType DEF Crash
  <2>2. spent' \in Budget
    BY <1>5, SpendType DEF Crash, Kinds
  <2> QED
    BY <1>3, <1>5, <2>1, <2>2 DEF Crash
<1> QED
  BY <1>1, <1>2, <1>4, <1>5

(* What QStash and Redis do on their own *)
LEMMA ServiceType ==
  ASSUME TypeOK
  PROVE  /\ \A m \in Message : Locked(m) \/ RetryAfter(m) => TypeOK'
         /\ \A s \in Steps : LockExpire(s) => TypeOK'
<1>1. ASSUME NEW m \in Message, queue[m] > 0
      PROVE  Take(m) \in [Message -> Nat]
  BY <1>1, BagRemove DEF TypeOK, Take
<1>2. ASSUME NEW m \in Message, Locked(m) PROVE TypeOK'
  <2>1. queue' \in [Message -> Nat]
    BY <1>1, <1>2, RetryType DEF Locked, Deliverable
  <2> QED
    BY <1>2, <2>1 DEF Locked, TypeOK
<1>3. ASSUME NEW m \in Message, RetryAfter(m) PROVE TypeOK'
  <2> DEFINE k == [m EXCEPT !.cooled = TRUE]
  <2>1. queue' = [Take(m) EXCEPT ![k] = @ + 1] /\ queue[m] > 0
    BY <1>3 DEF RetryAfter
  <2>2. queue' \in [Message -> Nat]
    <3> HIDE DEF k
    <3> QED BY <2>1, <1>1, BagAdd
  <2> QED
    BY <1>3, <2>2 DEF RetryAfter, TypeOK
<1>4. ASSUME NEW s \in Steps, LockExpire(s) PROVE TypeOK'
  <2>1. spent' \in Budget
    BY <1>4, SpendType DEF LockExpire, TypeOK, Kinds
  <2> QED
    BY <1>4, <2>1 DEF LockExpire, TypeOK
<1> QED
  BY <1>2, <1>3, <1>4

(* The steps of executeStep between its claim and its finally block *)
LEMMA HandlerType ==
  ASSUME TypeOK, NEW w \in Workers
  PROVE  /\ LoadSkip(w) \/ LoadTerminal(w) \/ LoadProceed(w) => TypeOK'
         /\ RunStep(w) => TypeOK'
         /\ Recheck(w) => TypeOK'
         /\ PublishStepComplete(w) => TypeOK'
         /\ ScheduleNext(w) \/ DispatchCompletion(w) => TypeOK'
         /\ CatchLoad(w) \/ CatchFallback(w) \/ DispatchError(w) => TypeOK'
<1> USE DEF TypeOK, Goto
<1>1. ASSUME LoadSkip(w) \/ LoadTerminal(w) \/ LoadProceed(w) PROVE TypeOK'
  BY <1>1, LabelType DEF LoadSkip, LoadTerminal, LoadProceed, Actors
<1>2. ASSUME RunStep(w) PROVE TypeOK'
  <2>1. PICK r \in StepResult(mem[w], job[w].step) :
          /\ mem' = [mem EXCEPT ![w] = r.state]
          /\ ctx' = [ctx EXCEPT ![w] = r.next]
    BY <1>2 DEF RunStep
  <2>2. r.state \in State /\ r.next \in BOOLEAN
    BY StepResultType DEF Actors
  <2> QED
    BY <1>2, <2>1, <2>2, LabelType DEF RunStep, Actors
<1>3. ASSUME Recheck(w) PROVE TypeOK'
  <2>1. mem' \in [Actors -> State]
    BY <1>3, LabelType DEF Recheck, State, Actors
  <2> QED
    BY <1>3, <2>1, LabelType DEF Recheck, Actors
<1>4. ASSUME PublishStepComplete(w) PROVE TypeOK'
  BY <1>4, LabelType DEF PublishStepComplete, Actors
<1>5. ASSUME ScheduleNext(w) \/ DispatchCompletion(w) PROVE TypeOK'
  <2>1. DetermineCompletionReason(mem[w]) \in StreamEnd
    BY LabelType DEF DetermineCompletionReason
  <2>3. DispatchCompletion(w) => completed' \in StreamEnd \cup {"none"}
    BY <2>1 DEF DispatchCompletion, DispatchCompletionHooks
  <2>2. Put(NextMessage(w)) \in [Message -> Nat]
    BY BagAdd DEF Put
  <2> QED
    BY <1>5, <2>2, <2>3, LabelType DEF ScheduleNext, DispatchCompletion, Actors
<1>6. ASSUME NEW s \in State, SaveErrorState(w, s), spent' \in Budget
      PROVE  TypeOK'
  BY <1>6, LabelType DEF SaveErrorState, Actors
<1>7. ASSUME CatchLoad(w) \/ CatchFallback(w) PROVE TypeOK'
  <2>1. [op EXCEPT !.status = "error"] \in State
    BY LabelType DEF State
  <2>2. [status |-> "error", stepCount |-> job[w].step, hooks |-> FALSE] \in State
    BY LabelType, BoundsAssumption DEF State, Message, Steps
  <2> QED
    BY <1>6, <1>7, <2>1, <2>2, SpendType DEF CatchLoad, CatchFallback, Kinds
<1>8. ASSUME DispatchError(w) PROVE TypeOK'
  BY <1>8, LabelType DEF DispatchError, DispatchCompletionHooks, Actors
<1> QED
  BY <1>1, <1>2, <1>3, <1>4, <1>5, <1>7, <1>8

(* A coordinator save, by any actor *)
LEMMA SaveType ==
  ASSUME TypeOK, NEW a \in Actors, Save(a)
  PROVE  TypeOK'
<1> USE DEF TypeOK, Goto
<1>1. CASE SaveLoadPrevious(a)
  BY <1>1, LabelType DEF SaveLoadPrevious, State
<1>2. CASE SaveWrite(a)
  BY <1>2, LabelType DEF SaveWrite
<1>3. CASE PublishAgentRuntimeEnd(a)
  BY <1>3 DEF PublishAgentRuntimeEnd
<1> QED
  BY <1>1, <1>2, <1>3 DEF Save

LEMMA ThrowType ==
  ASSUME TypeOK, NEW a \in Actors, Throw(a)
  PROVE  TypeOK'
<1> USE DEF TypeOK, Goto
<1>1. op' \in State /\ endEvents' \in Nat /\ spent' \in Budget
  BY SpendType DEF Throw, Kinds
<1>2. \A m : Put(m) \in [Message -> Nat]
  BY BagAdd DEF Put
<1>3. queue' \in [Message -> Nat]
  <2>1. \/ queue' = queue
        \/ queue' = Put(NextMessage(a))
        \/ queue' = Put(FirstDelivery(mem[a].stepCount))
    BY DEF Throw, Rejected
  <2> QED
    BY <1>2, <2>1
<1> QED
  BY <1>1, <1>3, LabelType DEF Throw

(* interruptOperation and startExecution *)
LEMMA ClientType ==
  ASSUME TypeOK
  PROVE  Cancel \/ Start => TypeOK'
<1> USE DEF TypeOK, Goto
<1>1. Canceller \in Actors /\ Starter \in Actors
  BY DEF Actors
<1>2. ASSUME NEW a \in Actors, NEW s \in State, NEW continue \in Label,
             BeginSave(a, s, continue), spent' \in Budget
      PROVE  TypeOK'
  BY <1>2, LabelType DEF BeginSave
<1>3. ASSUME InterruptOperation PROVE TypeOK'
  <2>1. [op EXCEPT !.status = "interrupted"] \in State
    BY LabelType DEF State
  <2> QED
    BY <1>1, <1>2, <1>3, <2>1, SpendType, LabelType DEF InterruptOperation, Kinds
<1>4. ASSUME StartExecution PROVE TypeOK'
  <2>1. [op EXCEPT !.status = "running"] \in State
    BY LabelType DEF State, Active
  <2> QED
    BY <1>1, <1>2, <1>4, <2>1, SpendType, LabelType DEF StartExecution, Kinds
<1>5. ASSUME ReturnInterrupted PROVE TypeOK'
  BY <1>1, <1>5, LabelType DEF ReturnInterrupted
<1>6. ASSUME ScheduleStart PROVE TypeOK'
  <2>1. Put(FirstDelivery(mem[Starter].stepCount)) \in [Message -> Nat]
    BY BagAdd DEF Put
  <2> QED
    BY <1>1, <1>6, <2>1, LabelType DEF ScheduleStart
<1> QED
  BY <1>1, <1>3, <1>4, <1>5, <1>6, SaveType DEF Cancel, Start

LEMMA NextType == TypeOK /\ [Next]_vars => TypeOK'
<1> SUFFICES ASSUME TypeOK, [Next]_vars PROVE TypeOK'
  OBVIOUS
<1>1. ASSUME NEW w \in Workers, Handle(w) PROVE TypeOK'
  BY <1>1, DeliveryType, HandlerType, SaveType DEF Handle, Actors
<1>2. ASSUME NEW w \in Workers, DeliveryTimeout(w) \/ Crash(w) \/ CatchFallback(w)
      PROVE  TypeOK'
  BY <1>2, DeliveryType, HandlerType
<1>3. CASE UNCHANGED vars
  BY <1>3 DEF vars, TypeOK
<1> QED
  BY <1>1, <1>2, <1>3, ServiceType, ClientType, ThrowType DEF Next

(* Every variable keeps its type, whatever fails and whoever calls. *)
THEOREM TypeCorrect == Spec => []TypeOK
<1> QED
  BY InitType, NextType, PTL DEF Spec

-----------------------------------------------------------------------------
(* What has been spent *)

LEMMA SpendOrNot ==
  ASSUME [Next]_vars
  PROVE  spent' = spent \/ \E k \in Kinds : Spend(k)
<1> USE DEF Kinds
<1>1. ASSUME NEW a \in Actors, Save(a) PROVE spent' = spent
  BY <1>1 DEF Save, SaveLoadPrevious, SaveWrite, PublishAgentRuntimeEnd
<1>2. ASSUME NEW w \in Workers,
             \/ \E m \in Message : Claim(w, m)
             \/ DeliveryTimeout(w) \/ ReleaseStepLock(w) \/ Crash(w)
      PROVE  spent' = spent \/ \E k \in Kinds : Spend(k)
  BY <1>2 DEF Claim, TryClaimStep, DeliveryTimeout, ReleaseStepLock, Crash
<1>3. ASSUME NEW w \in Workers,
             \/ LoadSkip(w) \/ LoadTerminal(w) \/ LoadProceed(w) \/ RunStep(w)
             \/ Recheck(w) \/ PublishStepComplete(w) \/ ScheduleNext(w)
             \/ DispatchCompletion(w) \/ CatchLoad(w) \/ CatchFallback(w)
             \/ DispatchError(w)
      PROVE  spent' = spent \/ \E k \in Kinds : Spend(k)
  BY <1>3
  DEF LoadSkip, LoadTerminal, LoadProceed, RunStep, Recheck,
      PublishStepComplete, ScheduleNext, DispatchCompletion, CatchLoad,
      CatchFallback, DispatchError
<1>4. ASSUME NEW a \in Actors, Throw(a)
      PROVE  spent' = spent \/ \E k \in Kinds : Spend(k)
  BY <1>4 DEF Throw
<1>5. ASSUME \/ InterruptOperation \/ ReturnInterrupted
             \/ StartExecution \/ ScheduleStart
      PROVE  spent' = spent \/ \E k \in Kinds : Spend(k)
  BY <1>5 DEF InterruptOperation, ReturnInterrupted, StartExecution, ScheduleStart
<1>6. ASSUME \/ \E m \in Message : Locked(m) \/ RetryAfter(m)
             \/ \E x \in Steps : LockExpire(x)
             \/ UNCHANGED vars
      PROVE  spent' = spent \/ \E k \in Kinds : Spend(k)
  BY <1>6 DEF Locked, RetryAfter, LockExpire, vars
<1> QED
  BY <1>1, <1>2, <1>3, <1>4, <1>5, <1>6 DEF Next, Handle, Cancel, Start, Actors

(* Nothing that was spent comes back. *)
LEMMA Frugal ==
  ASSUME TypeOK, [Next]_vars
  PROVE  \A k \in Kinds : spent[k] \in Nat /\ spent'[k] \in Nat /\ spent[k] <= spent'[k]
<1>1. spent \in Budget
  BY DEF TypeOK
<1>2. CASE spent' = spent
  BY <1>1, <1>2, SpentType
<1>3. ASSUME NEW i \in Kinds, Spend(i)
      PROVE  \A k \in Kinds : spent[k] \in Nat /\ spent'[k] \in Nat /\ spent[k] <= spent'[k]
  BY <1>1, <1>3, SpendType, SpentType
<1> QED
  BY <1>2, <1>3, SpendOrNot

(* What is unspent after a step was not spent in it. *)
LEMMA Unspent ==
  ASSUME TypeOK, NEW k \in Kinds, spent'[k] = 0
  PROVE  ~Spend(k)
  BY SpendType, SpentType DEF TypeOK

(* The conditions of the theorems, once lost, are lost for good. *)
LEMMA Histories ==
  ASSUME TypeOK, [Next]_vars
  PROVE  /\ Covered' => Covered
         /\ OneChain' => OneChain
         /\ Undisturbed' => Undisturbed
         /\ Mendable' => Mendable
<1>1. \A k \in Kinds : spent[k] \in Nat /\ spent'[k] \in Nat /\ spent[k] <= spent'[k]
  BY Frugal
<1>2. Covered' => Covered
  BY <1>1 DEF Covered, Kinds
<1>3. OneChain' => OneChain
  BY <1>1 DEF OneChain, Kinds
<1>4. Undisturbed' => Undisturbed
  BY <1>1, <1>2 DEF Undisturbed, Kinds
<1>5. Mendable' => Mendable
  <2>1. 2 * spent'.crash <= Retries => 2 * spent.crash <= Retries
    BY <1>1, BoundsAssumption DEF Kinds
  <2> QED
    BY <1>1, <1>2, <2>1 DEF Mendable, Kinds
<1> QED
  BY <1>2, <1>3, <1>4, <1>5

-----------------------------------------------------------------------------
(* The step lock *)

LockHeld == \A w \in Workers : Executing(w) => job[w].step \in lock

Exclusive ==
  \A v, w \in Workers :
    Executing(v) /\ Executing(w) /\ job[v].step = job[w].step => v = w

(* While the lock covers what it is for, a step that is executed is locked and
   has one executor. *)
LockInv == TypeOK /\ LockHeld /\ Exclusive

(* An action that neither claims, releases nor removes keys, nor makes a worker
   start executing, keeps the lock invariant. *)
LEMMA LockUnchanged ==
  ASSUME LockInv, TypeOK', UNCHANGED <<job, lock>>,
         \A w \in Workers : Executing(w)' => Executing(w)
  PROVE  LockInv'
  BY DEF LockInv, LockHeld, Exclusive

LEMMA LockStep ==
  ASSUME LockInv, [Next]_vars, Covered'
  PROVE  LockInv'
<1> USE DEF Goto
<1>0. TypeOK /\ TypeOK'
  BY NextType DEF LockInv
<1>1. ASSUME NEW w \in Workers, NEW m \in Message, Claim(w, m) PROVE LockInv'
  <2>1. m.step \notin lock /\ lock' = lock \cup {m.step}
    BY <1>0, <1>1, Unspent DEF Claim, TryClaimStep, Covered, Kinds
  <2>2. job' = [job EXCEPT ![w] = m] /\ pc' = [pc EXCEPT ![w] = "load"]
    BY <1>1 DEF Claim
  <2> QED
    BY <1>0, <2>1, <2>2
    DEF LockInv, LockHeld, Exclusive, Executing, TypeOK, Actors
<1>2. ASSUME NEW w \in Workers, ReleaseStepLock(w) PROVE LockInv'
  <2>1. Executing(w) /\ (lock' = lock \ {job[w].step} \/ lock' = lock)
    BY <1>2 DEF ReleaseStepLock, Executing
  <2>2. pc' = [pc EXCEPT ![w] = "off"]
        /\ job' = [job EXCEPT ![w] = FirstDelivery(0)]
    BY <1>2 DEF ReleaseStepLock, Leave
  <2> QED
    BY <1>0, <2>1, <2>2
    DEF LockInv, LockHeld, Exclusive, Executing, TypeOK, Actors
<1>3. ASSUME NEW w \in Workers, Crash(w) PROVE LockInv'
  <2>1. pc' = [pc EXCEPT ![w] = "off"] /\ lock' = lock
        /\ job' = [job EXCEPT ![w] = FirstDelivery(0)]
    BY <1>3 DEF Crash, Leave
  <2> QED
    BY <1>0, <2>1
    DEF LockInv, LockHeld, Exclusive, Executing, TypeOK, Actors
<1>4. ASSUME NEW s \in Steps, LockExpire(s) PROVE LockInv'
  <2>1. Executors(s) = {} /\ lock' = lock \ {s} /\ pc' = pc /\ job' = job
    BY <1>0, <1>4, Unspent DEF LockExpire, Covered, Kinds
  <2> QED
    BY <1>0, <2>1 DEF LockInv, LockHeld, Exclusive, Executing, Executors
<1>5. ASSUME NEW a \in Actors, Save(a) PROVE LockInv'
  <2>1. UNCHANGED <<job, lock>> /\ \A w \in Workers : Executing(w)' => Executing(w)
    BY <1>0, <1>5 DEF Save, SaveLoadPrevious, SaveWrite, PublishAgentRuntimeEnd,
                      Executing, TypeOK, Actors
  <2> QED
    BY <1>0, <2>1, LockUnchanged
<1>6. ASSUME NEW a \in Actors, Throw(a) PROVE LockInv'
  <2>1. UNCHANGED <<job, lock>> /\ \A w \in Workers : Executing(w)' => Executing(w)
    BY <1>0, <1>6 DEF Throw, Executing, TypeOK, Actors
  <2> QED
    BY <1>0, <2>1, LockUnchanged
<1>7. ASSUME NEW w \in Workers,
             \/ LoadSkip(w) \/ LoadTerminal(w) \/ LoadProceed(w) \/ RunStep(w)
             \/ Recheck(w) \/ PublishStepComplete(w) \/ ScheduleNext(w)
             \/ DispatchCompletion(w) \/ CatchLoad(w) \/ CatchFallback(w)
             \/ DispatchError(w) \/ DeliveryTimeout(w)
      PROVE  LockInv'
  <2>1. UNCHANGED <<job, lock>> /\ \A v \in Workers : Executing(v)' => Executing(v)
    BY <1>0, <1>7
    DEF LoadSkip, LoadTerminal, LoadProceed, RunStep, Recheck,
        PublishStepComplete, ScheduleNext, DispatchCompletion, CatchLoad,
        CatchFallback, SaveErrorState, DispatchError, DeliveryTimeout,
        Executing, TypeOK, Actors
  <2> QED
    BY <1>0, <2>1, LockUnchanged
<1>8. ASSUME NEW m \in Message, Locked(m) \/ RetryAfter(m) PROVE LockInv'
  BY <1>0, <1>8, LockUnchanged DEF Locked, RetryAfter, Executing
<1>9. CASE Cancel \/ Start
  <2>1. CASE Save(Canceller) \/ Save(Starter)
    BY <1>5, <2>1 DEF Actors
  <2>2. CASE InterruptOperation \/ ReturnInterrupted \/ StartExecution \/ ScheduleStart
    <3>1. UNCHANGED <<job, lock>> /\ \A w \in Workers : pc'[w] = pc[w]
      BY <1>0, <2>2, ActorsAssumption
      DEF InterruptOperation, ReturnInterrupted, StartExecution, ScheduleStart,
          BeginSave, TypeOK, Actors
    <3> QED
      BY <1>0, <3>1, LockUnchanged DEF Executing
  <2> QED
    BY <1>9, <2>1, <2>2 DEF Cancel, Start
<1>10. CASE UNCHANGED vars
  BY <1>0, <1>10, LockUnchanged DEF vars, Executing
<1> QED
  BY <1>1, <1>2, <1>3, <1>4, <1>5, <1>6, <1>7, <1>8, <1>9, <1>10
  DEF Next, Handle, Actors

LEMMA LockInit == Init => LockInv
  BY InitType DEF Init, LockInv, LockHeld, Exclusive, Executing, Actors

LEMMA LockInvariant == Spec => [](TypeOK /\ (Covered => LockInv))
<1>1. TypeOK /\ (Covered => LockInv) /\ [Next]_vars => TypeOK' /\ (Covered' => LockInv')
  BY NextType, LockStep, Histories
<1> QED
  BY <1>1, InitType, LockInit, PTL DEF Spec

(* How many execute a step: one if it is locked, and one more for every claim
   that Redis let through and for every lock that was outlived *)
Crowd ==
  \A s \in Steps :
    Cardinality(Executors(s)) <= (IF s \in lock THEN 1 ELSE 0) + spent.open + spent.overrun

LEMMA ExecutorsFinite ==
  ASSUME NEW s
  PROVE  /\ IsFiniteSet(Executors(s)) /\ Cardinality(Executors(s)) \in Nat
         /\ IsFiniteSet(Executors(s)') /\ Cardinality(Executors(s)') \in Nat
<1>1. IsFiniteSet(Workers) /\ Executors(s) \subseteq Workers
      /\ Executors(s)' \subseteq Workers
  BY ActorsAssumption DEF Executors
<1> QED
  BY <1>1, FS_Subset, FS_CardinalityType

(* An action that sets and removes no key and makes no worker start executing *)
LEMMA CrowdFrame ==
  ASSUME TypeOK, Crowd, [Next]_vars, lock' = lock,
         \A w \in Workers : Executing(w)' => Executing(w) /\ job'[w] = job[w]
  PROVE  Crowd'
<1> SUFFICES ASSUME NEW s \in Steps
             PROVE  Cardinality(Executors(s)') <=
                      (IF s \in lock THEN 1 ELSE 0) + spent'.open + spent'.overrun
  BY DEF Crowd
<1>1. Executors(s)' \subseteq Executors(s)
  BY DEF Executors
<1>2. Cardinality(Executors(s)') <= Cardinality(Executors(s))
  BY <1>1, ExecutorsFinite, FS_Subset
<1>3. /\ spent.open \in Nat /\ spent'.open \in Nat /\ spent.open <= spent'.open
      /\ spent.overrun \in Nat /\ spent'.overrun \in Nat
      /\ spent.overrun <= spent'.overrun
  BY Frugal DEF Kinds
<1>4. Cardinality(Executors(s)) <= (IF s \in lock THEN 1 ELSE 0) + spent.open + spent.overrun
  BY DEF Crowd
<1> QED
  BY <1>2, <1>3, <1>4, ExecutorsFinite

LEMMA CrowdClaim ==
  ASSUME TypeOK, Crowd, [Next]_vars, NEW w \in Workers, NEW m \in Message, Claim(w, m)
  PROVE  Crowd'
<1> SUFFICES ASSUME NEW s \in Steps
             PROVE  Cardinality(Executors(s)') <=
                      (IF s \in lock' THEN 1 ELSE 0) + spent'.open + spent'.overrun
  BY DEF Crowd
<1>1. /\ ~Executing(w) /\ job'[w] = m
      /\ \A v \in Workers \ {w} : pc'[v] = pc[v] /\ job'[v] = job[v]
  BY DEF Claim, Goto, TypeOK, Actors, Executing
<1>2. /\ Cardinality(Executors(s)) <= (IF s \in lock THEN 1 ELSE 0) + spent.open + spent.overrun
      /\ spent.open \in Nat /\ spent.overrun \in Nat
      /\ Cardinality(Executors(s)) \in Nat /\ Cardinality(Executors(s)') \in Nat
  BY ExecutorsFinite, Frugal DEF Crowd, Kinds
<1>3. \/ m.step \notin lock /\ lock' = lock \cup {m.step} /\ spent' = spent
      \/ /\ lock' \in {lock, lock \cup {m.step}}
         /\ spent'.open = spent.open + 1 /\ spent'.overrun = spent.overrun
  <2>1. spent \in Budget
    BY DEF TypeOK
  <2> QED
    BY <2>1, SpendType DEF Claim, TryClaimStep, Kinds
<1>4. CASE s = m.step
  <2>1. Executors(s)' \subseteq Executors(s) \cup {w} /\ w \notin Executors(s)
    BY <1>1 DEF Executors, Executing
  <2>2. Cardinality(Executors(s) \cup {w}) = Cardinality(Executors(s)) + 1
        /\ IsFiniteSet(Executors(s) \cup {w})
    BY <2>1, ExecutorsFinite, FS_AddElement
  <2>3. Cardinality(Executors(s)') <= Cardinality(Executors(s)) + 1
    BY <2>1, <2>2, FS_Subset
  <2> QED
    BY <1>2, <1>3, <1>4, <2>3
<1>5. CASE s # m.step
  <2>1. Executors(s)' \subseteq Executors(s)
    BY <1>1, <1>5 DEF Executors, Executing
  <2>2. Cardinality(Executors(s)') <= Cardinality(Executors(s))
    BY <2>1, ExecutorsFinite, FS_Subset
  <2>3. s \in lock' <=> s \in lock
    BY <1>3, <1>5
  <2> QED
    BY <1>2, <1>3, <2>2, <2>3
<1> QED
  BY <1>4, <1>5

LEMMA CrowdRelease ==
  ASSUME TypeOK, Crowd, [Next]_vars, NEW w \in Workers, ReleaseStepLock(w)
  PROVE  Crowd'
<1> SUFFICES ASSUME NEW s \in Steps
             PROVE  Cardinality(Executors(s)') <=
                      (IF s \in lock' THEN 1 ELSE 0) + spent'.open + spent'.overrun
  BY DEF Crowd
<1>1. /\ Executing(w) /\ ~Executing(w)'
      /\ \A v \in Workers \ {w} : pc'[v] = pc[v] /\ job'[v] = job[v]
  BY DEF ReleaseStepLock, Leave, Goto, TypeOK, Actors, Executing
<1>2. /\ Cardinality(Executors(s)) <= (IF s \in lock THEN 1 ELSE 0) + spent.open + spent.overrun
      /\ spent.open \in Nat /\ spent.overrun \in Nat
      /\ spent'.open \in Nat /\ spent'.overrun \in Nat
      /\ spent.open <= spent'.open /\ spent.overrun <= spent'.overrun
      /\ Cardinality(Executors(s)) \in Nat /\ Cardinality(Executors(s)') \in Nat
  BY ExecutorsFinite, Frugal DEF Crowd, Kinds
<1>3. lock' = lock \/ lock' = lock \ {job[w].step}
  BY DEF ReleaseStepLock
<1>4. CASE s = job[w].step
  <2>1. w \in Executors(s) /\ Executors(s)' = Executors(s) \ {w}
    BY <1>1, <1>4 DEF Executors, Executing
  <2>2. Cardinality(Executors(s)') = Cardinality(Executors(s)) - 1
    BY <2>1, ExecutorsFinite, FS_RemoveElement
  <2> QED
    BY <1>2, <2>2
<1>5. CASE s # job[w].step
  <2>1. Executors(s)' = Executors(s)
    BY <1>1, <1>5 DEF Executors, Executing
  <2>2. s \in lock' <=> s \in lock
    BY <1>3, <1>5
  <2> QED
    BY <1>2, <2>1, <2>2
<1> QED
  BY <1>4, <1>5

LEMMA CrowdExpire ==
  ASSUME TypeOK, Crowd, [Next]_vars, NEW x \in Steps, LockExpire(x)
  PROVE  Crowd'
<1> SUFFICES ASSUME NEW s \in Steps
             PROVE  Cardinality(Executors(s)') <=
                      (IF s \in lock' THEN 1 ELSE 0) + spent'.open + spent'.overrun
  BY DEF Crowd
<1>1. Executors(s)' = Executors(s) /\ lock' = lock \ {x}
  BY DEF LockExpire, Executors, Executing
<1>2. /\ Cardinality(Executors(s)) <= (IF s \in lock THEN 1 ELSE 0) + spent.open + spent.overrun
      /\ spent.open \in Nat /\ spent.overrun \in Nat
      /\ spent'.open \in Nat /\ spent'.overrun \in Nat
      /\ spent.open <= spent'.open /\ spent.overrun <= spent'.overrun
      /\ Cardinality(Executors(s)) \in Nat
  BY ExecutorsFinite, Frugal DEF Crowd, Kinds
<1>3. CASE Executors(x) = {}
  <2>1. Cardinality({}) = 0
    BY FS_EmptySet
  <2> QED
    BY <1>1, <1>2, <1>3, <2>1
<1>4. CASE Executors(x) # {}
  <2>1. spent'.overrun = spent.overrun + 1
    BY <1>4, SpendType DEF LockExpire, Kinds, TypeOK
  <2> QED
    BY <1>1, <1>2, <2>1
<1> QED
  BY <1>3, <1>4

LEMMA CrowdNext ==
  ASSUME TypeOK, Crowd, [Next]_vars
  PROVE  Crowd'
<1> USE DEF Goto, Executing
<1>1. ASSUME NEW w \in Workers, Crash(w) PROVE Crowd'
  <2>1. lock' = lock /\ \A v \in Workers : pc'[v] # "off" => pc[v] # "off" /\ job'[v] = job[v]
    BY <1>1 DEF Crash, Leave, TypeOK, Actors
  <2> QED
    BY <2>1, CrowdFrame
<1>2. ASSUME NEW a \in Actors, Save(a) \/ Throw(a) PROVE Crowd'
  <2>1. UNCHANGED <<job, lock>> /\ \A w \in Workers : pc'[w] # "off" => pc[w] # "off"
    BY <1>2 DEF Save, SaveLoadPrevious, SaveWrite, PublishAgentRuntimeEnd, Throw,
                TypeOK, Actors
  <2> QED
    BY <2>1, CrowdFrame
<1>3. ASSUME NEW w \in Workers,
             \/ LoadSkip(w) \/ LoadTerminal(w) \/ LoadProceed(w) \/ RunStep(w)
             \/ Recheck(w) \/ PublishStepComplete(w) \/ ScheduleNext(w)
             \/ DispatchCompletion(w) \/ CatchLoad(w) \/ CatchFallback(w)
             \/ DispatchError(w) \/ DeliveryTimeout(w)
      PROVE  Crowd'
  <2>1. UNCHANGED <<job, lock>> /\ \A v \in Workers : pc'[v] # "off" => pc[v] # "off"
    BY <1>3
    DEF LoadSkip, LoadTerminal, LoadProceed, RunStep, Recheck,
        PublishStepComplete, ScheduleNext, DispatchCompletion, CatchLoad,
        CatchFallback, SaveErrorState, DispatchError, DeliveryTimeout,
        TypeOK, Actors
  <2> QED
    BY <2>1, CrowdFrame
<1>4. ASSUME NEW m \in Message, Locked(m) \/ RetryAfter(m) PROVE Crowd'
  BY <1>4, CrowdFrame DEF Locked, RetryAfter
<1>5. ASSUME InterruptOperation \/ ReturnInterrupted \/ StartExecution \/ ScheduleStart
      PROVE  Crowd'
  <2>1. UNCHANGED <<job, lock>> /\ \A w \in Workers : pc'[w] = pc[w]
    BY <1>5, ActorsAssumption
    DEF InterruptOperation, ReturnInterrupted, StartExecution, ScheduleStart,
        BeginSave, TypeOK, Actors
  <2> QED
    BY <2>1, CrowdFrame
<1>6. CASE UNCHANGED vars
  BY <1>6, CrowdFrame DEF vars
<1> QED
  BY <1>1, <1>2, <1>3, <1>4, <1>5, <1>6, CrowdClaim, CrowdRelease, CrowdExpire
  DEF Next, Handle, Cancel, Start, Actors

(* The lock excludes, but for what Redis and the clock take from it: a step has
   one invocation at a time, and one more at most for every claim that went
   through because Redis rejected it and for every lock that a step outlived,
   whatever is redelivered, rejected or killed and whoever interrupts or
   restarts. *)
THEOREM StepLockExcludes == Spec => []OneExecutorPerStep
<1>1. Init => Crowd
  <2> SUFFICES ASSUME Init, NEW s \in Steps
               PROVE  Cardinality(Executors(s)) <=
                        (IF s \in lock THEN 1 ELSE 0) + spent.open + spent.overrun
    BY DEF Crowd
  <2>1. Executors(s) = {}
    BY DEF Init, Executors, Executing, Actors
  <2>2. s \notin lock /\ spent.open = 0 /\ spent.overrun = 0
    BY DEF Init, Limit
  <2> QED
    BY <2>1, <2>2, FS_EmptySet
<1>2. TypeOK /\ Crowd => OneExecutorPerStep
  <2> SUFFICES ASSUME TypeOK, Crowd, NEW s \in Steps
               PROVE  Cardinality(Executors(s)) <= 1 + spent.open + spent.overrun
    BY DEF OneExecutorPerStep
  <2>1. Cardinality(Executors(s)) <= (IF s \in lock THEN 1 ELSE 0) + spent.open + spent.overrun
    BY DEF Crowd
  <2>2. spent.open \in Nat /\ spent.overrun \in Nat /\ Cardinality(Executors(s)) \in Nat
    BY SpentType, ExecutorsFinite DEF TypeOK, Kinds
  <2> QED
    BY <2>1, <2>2
<1>3. TypeOK /\ Crowd /\ [Next]_vars => Crowd'
  BY CrowdNext
<1> QED
  BY <1>1, <1>2, <1>3, TypeCorrect, PTL DEF Spec

-----------------------------------------------------------------------------
(***************************************************************************)
(* SavedStepNotRerun and RunsOnlyActiveState for every number of workers,  *)
(* steps, retries, faults and interrupts, by the inductive invariant       *)
(* Frontier.  The two layers of executeStep are both needed: the lock      *)
(* makes the worker of step F unique, and the stepCount check turns away   *)
(* every delivery of a step before F.                                      *)
(***************************************************************************)

-----------------------------------------------------------------------------
(* What the queue holds after an operation on it *)

LEMMA PutHolds ==
  ASSUME queue \in [Message -> Nat], NEW x, NEW m \in Message, Put(x)[m] > 0
  PROVE  queue[m] > 0 \/ m = x
  BY DEF Put

LEMMA TakeHolds ==
  ASSUME queue \in [Message -> Nat], NEW x \in Message, NEW m \in Message,
         Take(x)[m] > 0
  PROVE  queue[m] > 0
<1>1. queue[m] \in Nat /\ queue[x] \in Nat
  OBVIOUS
<1> QED
  BY <1>1 DEF Take

LEMMA RetryHolds ==
  ASSUME NEW q \in [Message -> Nat], NEW x \in Message, NEW cool,
         NEW m \in Message, Retry(q, x, cool)[m] > 0
  PROVE  q[m] > 0 \/ m.step = x.step
<1> DEFINE k == [x EXCEPT !.left = @ - 1, !.cooled = cool]
<1>1. k.step = x.step
  BY DEF Message
<1>2. q[m] > 0 \/ m = k
  <2> HIDE DEF k
  <2>1. Retry(q, x, cool) = q \/ Retry(q, x, cool) = [q EXCEPT ![k] = @ + 1]
    BY DEF Retry, k
  <2> QED
    BY <2>1
<1> QED
  BY <1>1, <1>2

-----------------------------------------------------------------------------
(* The parts of Frontier *)

QueueBelow(F) == \A m \in Message : queue[m] > 0 => m.step <= F

(* Every step that was ever scheduled is at most n. *)
Past(n) == QueueBelow(n) /\ \A w \in Workers : job[w].step <= n

OpBelow(F, G) ==
  /\ op.stepCount <= G
  /\ op.status \notin Terminal => op.stepCount = G
  /\ op.status = "waiting_for_human" => G = F + 1

WorkerBelow(F, G, w) ==
  /\ job[w].step <= F
  /\ InStep(w) => job[w].step = F
  /\ Computing(w) => G = F
  /\ pc[w] = "run" => mem[w].stepCount = F /\ mem[w].status \in Active
  /\ InStep(w) /\ pc[w] # "run" =>
       /\ mem[w].stepCount <= F + 1
       /\ mem[w].status \notin Terminal => mem[w].stepCount = F + 1
  /\ InStep(w) /\ ~Computing(w) =>
       /\ mem[w].stepCount <= G
       /\ op.status = "waiting_for_human" => mem[w].status \notin Active
  /\ pc[w] \in {"prev", "write", "end"} =>
       /\ resume[w] \in {"stepEvent", "next", "fail"}
       /\ resume[w] = "fail" =>
            mem[w].status = "error" /\ mem[w].stepCount <= G
  /\ pc[w] \notin {"enqueue", "ack"}

ClientsBelow(G) ==
  /\ pc[Canceller] \in {"off", "prev", "write", "end", "ack"}
  /\ pc[Canceller] \in {"prev", "write", "end"} =>
       /\ resume[Canceller] = "ack"
       /\ mem[Canceller].status = "interrupted"
       /\ mem[Canceller].stepCount <= G
  /\ pc[Starter] = "off"

LEMMA FrontierParts ==
  ASSUME NEW F, NEW G
  PROVE  Frontier(F, G) <=>
           /\ F <= G /\ G <= F + 1
           /\ QueueBelow(F) /\ OpBelow(F, G) /\ ClientsBelow(G)
           /\ \A w \in Workers : WorkerBelow(F, G, w)
  BY DEF Frontier, QueueBelow, OpBelow, WorkerBelow, ClientsBelow

LEMMA RetryBelow ==
  ASSUME NEW F \in Nat, NEW q \in [Message -> Nat], NEW x \in Message, NEW cool,
         \A m \in Message : q[m] > 0 => m.step <= F, x.step <= F,
         queue' = Retry(q, x, cool)
  PROVE  QueueBelow(F)'
<1> SUFFICES ASSUME NEW m \in Message, queue'[m] > 0 PROVE m.step <= F
  BY DEF QueueBelow
<1>1. Retry(q, x, cool)[m] > 0
  OBVIOUS
<1>2. q[m] > 0 \/ m.step = x.step
  BY <1>1, RetryHolds
<1> QED
  BY <1>2

LEMMA TakeBelow ==
  ASSUME queue \in [Message -> Nat], NEW F \in Nat, QueueBelow(F),
         NEW x \in Message
  PROVE  \A m \in Message : Take(x)[m] > 0 => m.step <= F
  BY TakeHolds DEF QueueBelow

(* The two workers of one step are one. *)
LEMMA SameStep ==
  ASSUME LockInv, NEW F, NEW G, Frontier(F, G),
         NEW v \in Workers, NEW w \in Workers, InStep(v), InStep(w)
  PROVE  v = w
<1>1. Executing(v) /\ Executing(w)
  BY DEF InStep, Executing
<1>2. job[v].step = F /\ job[w].step = F
  BY DEF Frontier
<1> QED
  BY <1>1, <1>2 DEF LockInv, Exclusive

LEMMA ComputingInStep ==
  ASSUME NEW w PROVE Computing(w) => InStep(w)
  BY DEF Computing, InStep

(* A worker that an action does not touch *)
Unmoved(v) ==
  /\ pc'[v] = pc[v] /\ job'[v] = job[v] /\ mem'[v] = mem[v]
  /\ resume'[v] = resume[v] /\ ctx'[v] = ctx[v]

ClientsUnmoved ==
  /\ pc'[Canceller] = pc[Canceller] /\ mem'[Canceller] = mem[Canceller]
  /\ resume'[Canceller] = resume[Canceller]
  /\ pc'[Starter] = pc[Starter]

LEMMA UnmovedLabels ==
  ASSUME NEW v \in Workers, Unmoved(v)
  PROVE  /\ Executing(v)' <=> Executing(v)
         /\ Computing(v)' <=> Computing(v)
         /\ InStep(v)' <=> InStep(v)
  BY DEF Unmoved, Executing, Computing, InStep, ShouldContinueExecution

LEMMA WorkerUnmoved ==
  ASSUME NEW F, NEW G, NEW v \in Workers, Unmoved(v), WorkerBelow(F, G, v),
         op' = op
  PROVE  WorkerBelow(F, G, v)'
  BY UnmovedLabels DEF WorkerBelow, Unmoved

(* An action that only moves worker w and leaves the saved state alone *)
LEMMA OneWorker ==
  ASSUME NEW F \in Nat, NEW G \in Nat, NEW w \in Workers,
         Frontier(F, G), op' = op, QueueBelow(F)', WorkerBelow(F, G, w)',
         ClientsUnmoved,
         \A v \in Workers \ {w} : Unmoved(v)
  PROVE  Frontier(F, G)'
<1>1. OpBelow(F, G)' /\ ClientsBelow(G)'
  BY FrontierParts DEF OpBelow, ClientsBelow, ClientsUnmoved
<1>2. ASSUME NEW v \in Workers PROVE WorkerBelow(F, G, v)'
  BY FrontierParts, WorkerUnmoved
<1> QED
  BY <1>1, <1>2, FrontierParts
     DEF Frontier, QueueBelow, OpBelow, WorkerBelow, ClientsBelow

LEMMA OthersUnmoved ==
  ASSUME TypeOK, NEW w \in Workers,
         NEW label, pc' = [pc EXCEPT ![w] = label],
         job' = job \/ \E x : job' = [job EXCEPT ![w] = x],
         mem' = mem \/ \E x : mem' = [mem EXCEPT ![w] = x],
         resume' = resume \/ \E x : resume' = [resume EXCEPT ![w] = x],
         ctx' = ctx \/ \E x : ctx' = [ctx EXCEPT ![w] = x]
  PROVE  /\ \A v \in Workers \ {w} : Unmoved(v)
         /\ ClientsUnmoved
         /\ pc'[w] = label
  BY ActorsAssumption DEF TypeOK, Actors, Unmoved, ClientsUnmoved

LEMMA Leaving ==
  ASSUME TypeOK, NEW F \in Nat, NEW G \in Nat, NEW w \in Workers,
         Frontier(F, G), op' = op, QueueBelow(F)', Leave(w)
  PROVE  Frontier(F, G)'
<1>1. /\ \A v \in Workers \ {w} : Unmoved(v)
      /\ ClientsUnmoved /\ pc'[w] = "off"
  BY OthersUnmoved DEF Leave, Goto
<1>2. job'[w] = FirstDelivery(0)
  BY DEF Leave, TypeOK
<1>3. job'[w].step = 0
  BY <1>2 DEF FirstDelivery
<1>4. WorkerBelow(F, G, w)'
  BY <1>1, <1>3 DEF WorkerBelow, Computing, InStep
<1> QED
  BY <1>1, <1>4, OneWorker

(* No delivery brings a step that was not scheduled before. *)
LEMMA DeliveryPast ==
  ASSUME TypeOK, NEW n \in Nat, Past(n)
  PROVE  /\ \A w \in Workers : \A m \in Message : Claim(w, m) => Past(n)'
         /\ \A w \in Workers : ReleaseStepLock(w) \/ Crash(w) => Past(n)'
         /\ \A w \in Workers : DeliveryTimeout(w) => Past(n)'
         /\ \A m \in Message : Locked(m) \/ RetryAfter(m) => Past(n)'
         /\ \A s \in Steps : LockExpire(s) => Past(n)'
<1>0. QueueBelow(n) /\ queue \in [Message -> Nat]
      /\ \A w \in Workers : job[w] \in Message /\ job[w].step <= n
  BY DEF TypeOK, Past
<1>1. ASSUME NEW w \in Workers, NEW m \in Message, Claim(w, m)
      PROVE  Past(n)'
  <2>1. m.step <= n
    BY <1>0, <1>1 DEF Claim, Deliverable, QueueBelow
  <2>2. QueueBelow(n)'
    BY <1>0, <1>1, TakeHolds DEF Claim, QueueBelow
  <2>3. \A v \in Workers : job'[v] = IF v = w THEN m ELSE job[v]
    BY <1>1 DEF Claim, TypeOK
  <2> QED
    BY <1>0, <2>1, <2>2, <2>3 DEF Past
<1>2. ASSUME NEW w \in Workers, ReleaseStepLock(w) \/ Crash(w)
      PROVE  Past(n)'
  <2>1. QueueBelow(n)'
    <3>1. queue' = queue \/ queue' = Retry(queue, job[w], TRUE)
      BY <1>2 DEF ReleaseStepLock, Crash
    <3>2. CASE queue' = queue
      BY <1>0, <3>2 DEF QueueBelow
    <3>3. CASE queue' = Retry(queue, job[w], TRUE)
      BY <1>0, <3>3, RetryBelow DEF QueueBelow
    <3> QED
      BY <3>1, <3>2, <3>3
  <2>2. \A v \in Workers : job'[v] = IF v = w THEN FirstDelivery(0) ELSE job[v]
    BY <1>2 DEF ReleaseStepLock, Crash, Leave, TypeOK
  <2>3. FirstDelivery(0).step = 0
    BY DEF FirstDelivery
  <2> QED
    BY <1>0, <2>1, <2>2, <2>3 DEF Past
<1>3. ASSUME NEW w \in Workers, DeliveryTimeout(w) PROVE Past(n)'
  <2>1. QueueBelow(n)'
    BY <1>0, <1>3, RetryBelow DEF DeliveryTimeout, QueueBelow
  <2> QED
    BY <1>0, <1>3, <2>1 DEF DeliveryTimeout, Past
<1>4. ASSUME NEW m \in Message, Locked(m) PROVE Past(n)'
  <2>1. m.step <= n /\ Take(m) \in [Message -> Nat]
    BY <1>0, <1>4, BagRemove DEF Locked, Deliverable, QueueBelow, Take
  <2>2. QueueBelow(n)'
    BY <1>0, <1>4, <2>1, RetryBelow, TakeBelow DEF Locked
  <2> QED
    BY <1>0, <1>4, <2>2 DEF Locked, Past
<1>5. ASSUME NEW m \in Message, RetryAfter(m) PROVE Past(n)'
  <2> DEFINE k == [m EXCEPT !.cooled = TRUE]
  <2>1. m.step <= n /\ k.step = m.step /\ Take(m) \in [Message -> Nat]
    BY <1>0, <1>5, BagRemove DEF RetryAfter, QueueBelow, Take, Message
  <2>2. queue' = [Take(m) EXCEPT ![k] = @ + 1]
    BY <1>5 DEF RetryAfter
  <2>3. ASSUME NEW x \in Message, queue'[x] > 0 PROVE x = k \/ Take(m)[x] > 0
    <3> HIDE DEF k
    <3> QED BY <2>1, <2>2, <2>3
  <2>4. QueueBelow(n)'
    BY <1>0, <2>1, <2>3, TakeHolds DEF QueueBelow
  <2> QED
    BY <1>0, <1>5, <2>4 DEF RetryAfter, Past
<1>6. ASSUME NEW s \in Steps, LockExpire(s) PROVE Past(n)'
  BY <1>0, <1>6 DEF LockExpire, QueueBelow, Past
<1> QED
  BY <1>1, <1>2, <1>3, <1>4, <1>5, <1>6

(* Deliveries *)
LEMMA FrontierDelivery ==
  ASSUME TypeOK, NEW F \in Nat, NEW G \in Nat, Frontier(F, G)
  PROVE  /\ \A w \in Workers : \A m \in Message : Claim(w, m) => Frontier(F, G)'
         /\ \A w \in Workers : ReleaseStepLock(w) \/ Crash(w) => Frontier(F, G)'
         /\ \A w \in Workers : DeliveryTimeout(w) => Frontier(F, G)'
         /\ \A m \in Message : Locked(m) \/ RetryAfter(m) => Frontier(F, G)'
         /\ \A s \in Steps : LockExpire(s) => Frontier(F, G)'
<1>0. Past(F)
  BY FrontierParts DEF Past, WorkerBelow
<1>1. ASSUME NEW w \in Workers, NEW m \in Message, Claim(w, m)
      PROVE  Frontier(F, G)'
  <2>1. QueueBelow(F)' /\ job'[w].step <= F
    BY <1>0, <1>1, DeliveryPast DEF Past
  <2>2. /\ \A v \in Workers \ {w} : Unmoved(v)
        /\ ClientsUnmoved /\ pc'[w] = "load"
    BY <1>1, OthersUnmoved DEF Claim, Goto
  <2>3. WorkerBelow(F, G, w)'
    BY <2>1, <2>2 DEF WorkerBelow, Executing, Computing, InStep
  <2> QED
    BY <1>1, <2>1, <2>2, <2>3, OneWorker DEF Claim
<1>2. ASSUME NEW w \in Workers, ReleaseStepLock(w) \/ Crash(w)
      PROVE  Frontier(F, G)'
  <2>1. QueueBelow(F)'
    BY <1>0, <1>2, DeliveryPast DEF Past
  <2> QED
    BY <1>2, <2>1, Leaving DEF ReleaseStepLock, Crash
<1>3. ASSUME op' = op, pc' = pc, job' = job, mem' = mem, ctx' = ctx,
             resume' = resume, Past(F)'
      PROVE  Frontier(F, G)'
  <2>1. \A v \in Workers : Unmoved(v)
    BY <1>3 DEF Unmoved
  <2>2. \A v \in Workers : WorkerBelow(F, G, v)'
    BY <1>3, <2>1, WorkerUnmoved, FrontierParts
  <2>3. OpBelow(F, G)' /\ ClientsBelow(G)' /\ QueueBelow(F)'
    BY <1>3, FrontierParts DEF OpBelow, ClientsBelow, Past
  <2> QED
    BY <2>2, <2>3, FrontierParts
       DEF Frontier, QueueBelow, OpBelow, WorkerBelow, ClientsBelow
<1>4. ASSUME NEW w \in Workers, DeliveryTimeout(w)
      PROVE  Frontier(F, G)'
  BY <1>0, <1>3, <1>4, DeliveryPast DEF DeliveryTimeout
<1>5. ASSUME NEW m \in Message, Locked(m) \/ RetryAfter(m)
      PROVE  Frontier(F, G)'
  BY <1>0, <1>3, <1>5, DeliveryPast DEF Locked, RetryAfter
<1>6. ASSUME NEW s \in Steps, LockExpire(s) PROVE Frontier(F, G)'
  BY <1>0, <1>3, <1>6, DeliveryPast DEF LockExpire
<1> QED
  BY <1>1, <1>2, <1>4, <1>5, <1>6
-----------------------------------------------------------------------------
(* The steps of a handler *)

(* A worker that gives its step up, or has not begun one, is harmless. *)
LEMMA OutOfStep ==
  ASSUME NEW F, NEW G, NEW w \in Workers, WorkerBelow(F, G, w),
         job'[w] = job[w],
         pc'[w] \in {"off", "load", "catch", "fail", "release200", "release500"}
  PROVE  WorkerBelow(F, G, w)' /\ ~InStep(w)' /\ ~Computing(w)'
  BY DEF WorkerBelow, InStep, Computing

(* A worker that is not in the step is not disturbed by what others save. *)
LEMMA Bystander ==
  ASSUME NEW F \in Nat, NEW G \in Nat, NEW F2 \in Nat, NEW G2 \in Nat,
         TypeOK, F <= F2, G <= G2,
         NEW v \in Workers, Unmoved(v), WorkerBelow(F, G, v), ~InStep(v)
  PROVE  WorkerBelow(F2, G2, v)'
<1>1. ~InStep(v)' /\ ~Computing(v)' /\ pc'[v] # "run"
  BY UnmovedLabels, ComputingInStep DEF Unmoved, InStep
<1>2. mem[v].stepCount \in Nat /\ job[v].step \in Int
  BY DEF TypeOK, Actors, State, Message, Steps
<1>3. job'[v].step <= F2
  BY <1>2 DEF WorkerBelow, Unmoved
<1>4. resume[v] = "fail" /\ pc[v] \in {"prev", "write", "end"} =>
        mem[v].stepCount <= G2
  BY <1>2 DEF WorkerBelow
<1> QED
  BY <1>1, <1>3, <1>4 DEF WorkerBelow, Unmoved

LEMMA ClientsOnward ==
  ASSUME TypeOK, NEW G \in Nat, NEW G2 \in Nat, G <= G2,
         ClientsBelow(G), ClientsUnmoved
  PROVE  ClientsBelow(G2)'
<1>1. mem[Canceller].stepCount \in Nat
  BY DEF TypeOK, Actors, State
<1> QED
  BY <1>1 DEF ClientsBelow, ClientsUnmoved

(* Every action of a worker but SaveWrite, ScheduleNext and Throw *)
LEMMA FrontierHandler ==
  ASSUME LockInv, NEW F \in Nat, NEW G \in Nat, Frontier(F, G),
         NEW w \in Workers
  PROVE  /\ LoadSkip(w) \/ LoadTerminal(w) \/ LoadProceed(w) => Frontier(F, G)'
         /\ RunStep(w) \/ Recheck(w) \/ SaveLoadPrevious(w) => Frontier(F, G)'
         /\ PublishAgentRuntimeEnd(w) \/ PublishStepComplete(w) => Frontier(F, G)'
         /\ DispatchCompletion(w) \/ DispatchError(w) => Frontier(F, G)'
         /\ CatchLoad(w) \/ CatchFallback(w) => Frontier(F, G)'
<1>1. TypeOK /\ QueueBelow(F) /\ OpBelow(F, G) /\ WorkerBelow(F, G, w)
      /\ F <= G /\ G <= F + 1
  BY FrontierParts DEF LockInv
<1>2. /\ job[w].step \in Int /\ op \in State /\ mem[w] \in State
      /\ w \in Actors
  BY <1>1 DEF TypeOK, Actors, Message, Steps
<1>3. ASSUME op' = op, queue' = queue, job' = job, WorkerBelow(F, G, w)',
             NEW label, pc' = [pc EXCEPT ![w] = label],
             mem' = mem \/ \E x : mem' = [mem EXCEPT ![w] = x],
             resume' = resume \/ \E x : resume' = [resume EXCEPT ![w] = x],
             ctx' = ctx \/ \E x : ctx' = [ctx EXCEPT ![w] = x]
      PROVE  Frontier(F, G)'
  <2>1. (\A v \in Workers \ {w} : Unmoved(v)) /\ ClientsUnmoved
    BY <1>1, <1>3, OthersUnmoved
  <2>2. QueueBelow(F)'
    BY <1>1, <1>3 DEF QueueBelow
  <2> QED
    BY <1>3, <2>1, <2>2, OneWorker
<1>4. ASSUME LoadSkip(w) \/ DispatchCompletion(w) \/ DispatchError(w)
      PROVE  Frontier(F, G)'
  <2>1. pc'[w] \in {"release200", "release500"} /\ job'[w] = job[w]
    BY <1>1, <1>2, <1>4
       DEF LoadSkip, DispatchCompletion, DispatchError, Goto, TypeOK
  <2>2. WorkerBelow(F, G, w)'
    BY <1>1, <2>1, OutOfStep
  <2> QED
    BY <1>3, <1>4, <2>2 DEF LoadSkip, DispatchCompletion, DispatchError, Goto
<1>5. ASSUME LoadTerminal(w) PROVE Frontier(F, G)'
  <2>1. pc'[w] = "next" /\ mem'[w] = op /\ job'[w] = job[w]
    BY <1>1, <1>2, <1>5 DEF LoadTerminal, Goto, TypeOK
  <2>2. ~InStep(w)' /\ ~Computing(w)'
    BY <1>5, <2>1
       DEF LoadTerminal, InStep, Computing, ShouldContinueExecution, Active, Terminal
  <2>3. WorkerBelow(F, G, w)'
    BY <1>1, <2>1, <2>2 DEF WorkerBelow
  <2> QED
    BY <1>3, <1>5, <2>3 DEF LoadTerminal, Goto
<1>6. ASSUME LoadProceed(w) PROVE Frontier(F, G)'
  <2>1. pc'[w] = "run" /\ mem'[w] = op /\ job'[w] = job[w]
    BY <1>1, <1>2, <1>6 DEF LoadProceed, Goto, TypeOK
  <2>2. op.stepCount = G /\ G = F /\ job[w].step = F
    BY <1>1, <1>2, <1>6
       DEF LoadProceed, StepAlreadyCompleted, OpBelow, WorkerBelow, State
  <2>3. op.status \in Active
    BY <1>1, <1>2, <1>6, <2>2
       DEF LoadProceed, OpBelow, State, Status, StreamEnd
  <2>4. WorkerBelow(F, G, w)'
    BY <1>1, <2>1, <2>2, <2>3 DEF WorkerBelow, Computing, InStep
  <2> QED
    BY <1>3, <1>6, <2>4 DEF LoadProceed, Goto
<1>7. ASSUME RunStep(w) PROVE Frontier(F, G)'
  <2>1. G = F /\ job[w].step = F /\ mem[w].stepCount = F
    BY <1>1, <1>7 DEF RunStep, WorkerBelow, InStep, Computing
  <2>2. PICK r \in StepResult(mem[w], job[w].step) :
          /\ mem' = [mem EXCEPT ![w] = r.state]
          /\ ctx' = [ctx EXCEPT ![w] = r.next]
    BY <1>7 DEF RunStep
  <2>3. \/ r.state.stepCount = F /\ r.state.status = "done"
        \/ r.state.stepCount = F + 1
    BY <1>2, <2>1, StepResultType
  <2>4. pc'[w] = "recheck" /\ mem'[w] = r.state /\ job'[w] = job[w]
    BY <1>1, <1>2, <1>7, <2>2 DEF RunStep, Goto, TypeOK
  <2>5. InStep(w)' /\ Computing(w)'
    BY <2>4 DEF InStep, Computing
  <2>6. WorkerBelow(F, G, w)'
    BY <2>1, <2>3, <2>4, <2>5 DEF WorkerBelow, Terminal
  <2> QED
    BY <1>3, <1>7, <2>2, <2>6 DEF RunStep, Goto
<1>8. ASSUME Recheck(w) PROVE Frontier(F, G)'
  <2> DEFINE status == IF op.status = "interrupted" THEN "interrupted"
                                                    ELSE mem[w].status
  <2>1. mem'[w] = [mem[w] EXCEPT !.status = status]
    BY <1>1, <1>2, <1>8 DEF Recheck, TypeOK
  <2>2. /\ mem'[w].stepCount = mem[w].stepCount
        /\ mem'[w].status \notin Terminal => mem[w].status \notin Terminal
    BY <1>2, <2>1 DEF State, Terminal
  <2>3. /\ pc[w] = "recheck" /\ pc'[w] = "prev" /\ resume'[w] = "stepEvent"
        /\ job'[w] = job[w]
    BY <1>1, <1>2, <1>8 DEF Recheck, Goto, TypeOK
  <2>4. InStep(w) /\ Computing(w) /\ InStep(w)' /\ Computing(w)'
    BY <2>3 DEF InStep, Computing
  <2>5. WorkerBelow(F, G, w)'
    BY <1>1, <2>2, <2>3, <2>4 DEF WorkerBelow
  <2>6. \E x : mem' = [mem EXCEPT ![w] = x]
    BY <1>8 DEF Recheck
  <2> QED
    BY <1>3, <1>8, <2>5, <2>6 DEF Recheck, Goto
<1>9. ASSUME SaveLoadPrevious(w) PROVE Frontier(F, G)'
  <2>1. pc'[w] = "write" /\ pc[w] = "prev"
    BY <1>1, <1>2, <1>9 DEF SaveLoadPrevious, Goto, TypeOK
  <2>2. /\ job' = job /\ mem' = mem /\ resume' = resume /\ op' = op
    BY <1>9 DEF SaveLoadPrevious
  <2>3. InStep(w)' <=> InStep(w)
    BY <2>1, <2>2 DEF InStep
  <2>4. Computing(w)' <=> Computing(w)
    BY <2>1, <2>2 DEF Computing
  <2>5. WorkerBelow(F, G, w)'
    BY <1>1, <2>1, <2>2, <2>3, <2>4 DEF WorkerBelow
  <2> QED
    BY <1>3, <1>9, <2>5 DEF SaveLoadPrevious, Goto
<1>10. ASSUME PublishAgentRuntimeEnd(w) PROVE Frontier(F, G)'
  <2>1. /\ pc[w] = "end" /\ pc'[w] = resume[w]
        /\ job' = job /\ mem' = mem /\ resume' = resume /\ op' = op /\ ctx' = ctx
    BY <1>1, <1>2, <1>10 DEF PublishAgentRuntimeEnd, Goto, TypeOK
  <2>2. resume[w] \in {"stepEvent", "next", "fail"}
    BY <1>1, <2>1 DEF WorkerBelow
  <2>3. ~Computing(w) /\ ~Computing(w)' /\ (InStep(w)' => InStep(w))
    BY <2>1, <2>2 DEF InStep, Computing
  <2>4. WorkerBelow(F, G, w)'
    BY <1>1, <2>1, <2>2, <2>3 DEF WorkerBelow
  <2> QED
    BY <1>3, <1>10, <2>4 DEF PublishAgentRuntimeEnd, Goto
<1>11. ASSUME PublishStepComplete(w) PROVE Frontier(F, G)'
  <2>1. /\ pc[w] = "stepEvent" /\ pc'[w] \in {"prev", "next"}
        /\ resume'[w] = "next" /\ job' = job /\ mem' = mem /\ op' = op
    BY <1>1, <1>2, <1>11 DEF PublishStepComplete, Goto, TypeOK
  <2>2. InStep(w) /\ ~Computing(w) /\ ~Computing(w)'
    BY <2>1 DEF InStep, Computing
  <2>3. WorkerBelow(F, G, w)'
    BY <1>1, <2>1, <2>2 DEF WorkerBelow
  <2>4. \E label : pc' = [pc EXCEPT ![w] = label]
    BY <1>11 DEF PublishStepComplete, Goto
  <2>5. \E x : resume' = [resume EXCEPT ![w] = x]
    BY <1>11 DEF PublishStepComplete
  <2> QED
    BY <1>3, <1>11, <2>3, <2>4, <2>5 DEF PublishStepComplete
<1>12. ASSUME NEW s \in State, SaveErrorState(w, s), s.status = "error",
              s.stepCount <= G
       PROVE  Frontier(F, G)'
  <2>1. pc'[w] = "prev" /\ resume'[w] = "fail" /\ mem'[w] = s /\ job' = job
    BY <1>1, <1>2, <1>12 DEF SaveErrorState, Goto, TypeOK
  <2>2. ~InStep(w)' /\ ~Computing(w)'
    BY <2>1 DEF InStep, Computing
  <2>3. WorkerBelow(F, G, w)'
    BY <1>1, <1>12, <2>1, <2>2 DEF WorkerBelow
  <2> QED
    BY <1>3, <1>12, <2>3 DEF SaveErrorState, Goto
<1>13. ASSUME CatchLoad(w) PROVE Frontier(F, G)'
  <2> DEFINE s == [op EXCEPT !.status = "error"]
  <2>1. s \in State /\ s.status = "error" /\ s.stepCount = op.stepCount
    BY <1>2 DEF State, Status, StreamEnd, Terminal
  <2>2. SaveErrorState(w, s)
    BY <1>13 DEF CatchLoad
  <2> HIDE DEF s
  <2> QED
    BY <1>1, <1>12, <2>1, <2>2 DEF OpBelow
<1>14. ASSUME CatchFallback(w) PROVE Frontier(F, G)'
  <2> DEFINE s == [status |-> "error", stepCount |-> job[w].step,
                   hooks |-> FALSE]
  <2>1. job[w].step \in Nat
    BY <1>1 DEF TypeOK, Message, Steps
  <2>2. s \in State /\ s.status = "error" /\ s.stepCount <= G
    BY <1>1, <2>1 DEF State, Status, StreamEnd, Terminal, WorkerBelow
  <2>3. SaveErrorState(w, s)
    BY <1>14 DEF CatchFallback
  <2> HIDE DEF s
  <2> QED
    BY <1>12, <2>2, <2>3
<1> QED
  BY <1>4, <1>5, <1>6, <1>7, <1>8, <1>9, <1>10, <1>11, <1>13, <1>14

(* Worker w overwrites the saved state with what it holds in memory: the
   frontier G moves exactly when the worker was computing step F. *)
LEMMA Overwrite ==
  ASSUME LockInv, NEW F \in Nat, NEW G \in Nat, Frontier(F, G),
         NEW w \in Workers, pc[w] = "write",
         NEW label \in {"end", "catch", "fail", resume[w]},
         pc' = [pc EXCEPT ![w] = label], op' = mem[w],
         UNCHANGED <<queue, job, mem, ctx, resume>>
  PROVE  \E G2 \in Nat : Frontier(F, G2)'
<1>1. TypeOK /\ QueueBelow(F) /\ OpBelow(F, G) /\ WorkerBelow(F, G, w)
      /\ ClientsBelow(G) /\ F <= G /\ G <= F + 1
  BY FrontierParts DEF LockInv
<1>2. mem[w] \in State /\ w \in Actors /\ pc'[w] = label
  BY <1>1 DEF TypeOK, Actors
<1>3. resume[w] \in {"stepEvent", "next", "fail"}
  BY <1>1 DEF WorkerBelow
<1>4. (\A v \in Workers \ {w} : Unmoved(v)) /\ ClientsUnmoved
  BY <1>1, OthersUnmoved
<1>5. QueueBelow(F)'
  BY <1>1 DEF QueueBelow
<1>6. ASSUME NEW G2 \in Nat, G <= G2, G2 <= F + 1, OpBelow(F, G2)',
             WorkerBelow(F, G2, w)',
             \A v \in Workers \ {w} : WorkerBelow(F, G2, v)'
      PROVE  Frontier(F, G2)'
  <2>1. ClientsBelow(G2)'
    BY <1>1, <1>4, <1>6, ClientsOnward
  <2> QED
    BY <1>1, <1>5, <1>6, <2>1
       DEF Frontier, QueueBelow, OpBelow, WorkerBelow, ClientsBelow
<1>7. ASSUME InStep(w), NEW G2 \in Nat, G <= G2
      PROVE  \A v \in Workers \ {w} : WorkerBelow(F, G2, v)'
  BY <1>1, <1>4, <1>7, SameStep, Bystander, FrontierParts
<1>8. ~Computing(w)'
  BY <1>2, <1>3 DEF Computing
<1>9. CASE resume[w] = "stepEvent"
  <2>1. InStep(w) /\ Computing(w)
    BY <1>9 DEF InStep, Computing
  <2>2. /\ G = F /\ mem[w].stepCount <= F + 1
        /\ mem[w].status \notin Terminal => mem[w].stepCount = F + 1
    BY <1>1, <2>1 DEF WorkerBelow
  <2>3. PICK G2 \in Nat :
          /\ G <= G2 /\ G2 <= F + 1 /\ mem[w].stepCount <= G2
          /\ mem[w].status \notin Terminal => mem[w].stepCount = G2 /\ G2 = F + 1
    <3>1. CASE mem[w].stepCount = F + 1
      BY <2>2, <3>1
    <3>2. CASE mem[w].stepCount # F + 1
      BY <1>2, <2>2, <3>2 DEF State
    <3> QED
      BY <3>1, <3>2
  <2>4. OpBelow(F, G2)'
    BY <2>3 DEF OpBelow, Terminal
  <2>5. WorkerBelow(F, G2, w)'
    BY <1>1, <1>2, <1>8, <1>9, <2>1, <2>2, <2>3
       DEF WorkerBelow, InStep, Active
  <2> QED
    BY <1>6, <1>7, <2>1, <2>3, <2>4, <2>5
<1>10. CASE resume[w] = "next"
  <2>1. InStep(w) /\ ~Computing(w)
    BY <1>10 DEF InStep, Computing
  <2>2. /\ mem[w].stepCount <= G /\ mem[w].stepCount <= F + 1
        /\ mem[w].status \notin Terminal => mem[w].stepCount = F + 1
    BY <1>1, <2>1 DEF WorkerBelow
  <2>3. mem[w].status \notin Terminal => G = F + 1 /\ mem[w].stepCount = G
    BY <1>1, <1>2, <2>2 DEF State
  <2>4. OpBelow(F, G)'
    BY <2>2, <2>3 DEF OpBelow, Terminal
  <2>5. WorkerBelow(F, G, w)'
    BY <1>1, <1>2, <1>8, <1>10, <2>1, <2>2, <2>3
       DEF WorkerBelow, InStep, Active
  <2> QED
    BY <1>1, <1>6, <1>7, <2>1, <2>4, <2>5
<1>11. CASE resume[w] = "fail"
  <2>1. mem[w].status = "error" /\ mem[w].stepCount <= G
    BY <1>1, <1>11 DEF WorkerBelow
  <2>2. OpBelow(F, G)'
    BY <2>1 DEF OpBelow, Terminal
  <2>3. ~InStep(w)'
    BY <1>2, <1>11 DEF InStep
  <2>4. WorkerBelow(F, G, w)'
    BY <1>1, <1>2, <1>8, <1>11, <2>1, <2>3 DEF WorkerBelow
  <2>5. ASSUME NEW v \in Workers \ {w} PROVE WorkerBelow(F, G, v)'
    <3>1. Unmoved(v) /\ WorkerBelow(F, G, v)
      BY <1>4, FrontierParts
    <3> QED
      BY <2>1, <3>1, UnmovedLabels DEF WorkerBelow, Unmoved
  <2> QED
    BY <1>1, <1>6, <2>2, <2>4, <2>5
<1> QED
  BY <1>3, <1>9, <1>10, <1>11

(* Worker w puts the message of step F + 1 into the queue: only the worker of
   step F does, and only after it has saved the step. *)
LEMMA Advance ==
  ASSUME LockInv, NEW F \in Nat, NEW G \in Nat, Frontier(F, G),
         NEW w \in Workers, pc[w] = "next", ShouldContinueExecution(w),
         NEW label \in {"release200", "catch", "fail"},
         pc' = [pc EXCEPT ![w] = label], queue' = Put(NextMessage(w)),
         UNCHANGED <<op, job, mem, ctx, resume>>
  PROVE  Frontier(F + 1, G)'
<1>1. TypeOK /\ QueueBelow(F) /\ OpBelow(F, G) /\ WorkerBelow(F, G, w)
      /\ ClientsBelow(G) /\ F <= G /\ G <= F + 1
  BY FrontierParts DEF LockInv
<1>2. InStep(w) /\ ~Computing(w)
  BY DEF InStep, Computing
<1>3. mem[w].status \in Active /\ mem[w].status \notin Terminal
  BY DEF ShouldContinueExecution, Active, Terminal
<1>4. job[w].step = F /\ G = F + 1 /\ op.status # "waiting_for_human"
  BY <1>1, <1>2, <1>3 DEF WorkerBelow, InStep
<1>5. (\A v \in Workers \ {w} : Unmoved(v)) /\ ClientsUnmoved /\ pc'[w] = label
  BY <1>1, OthersUnmoved
<1>6. QueueBelow(F + 1)'
  <2> SUFFICES ASSUME NEW m \in Message, queue'[m] > 0 PROVE m.step <= F + 1
    BY DEF QueueBelow
  <2>1. queue[m] > 0 \/ m = NextMessage(w)
    BY <1>1, PutHolds DEF TypeOK
  <2>2. NextMessage(w).step = F + 1
    BY <1>4 DEF NextMessage, FirstDelivery
  <2>3. m.step \in Int
    BY DEF Message, Steps
  <2> QED
    BY <1>1, <2>1, <2>2, <2>3 DEF QueueBelow
<1>7. OpBelow(F + 1, G)'
  BY <1>1, <1>4 DEF OpBelow
<1>8. ClientsBelow(G)'
  BY <1>1, <1>5, ClientsOnward
<1>9. WorkerBelow(F, G, w)' /\ ~InStep(w)' /\ ~Computing(w)'
  BY <1>1, <1>5, OutOfStep
<1>10. WorkerBelow(F + 1, G, w)'
  BY <1>4, <1>9, <1>5 DEF WorkerBelow
<1>11. \A v \in Workers \ {w} : WorkerBelow(F + 1, G, v)'
  BY <1>1, <1>2, <1>5, SameStep, Bystander, FrontierParts
<1> QED
  BY <1>4, <1>6, <1>7, <1>8, <1>10, <1>11
     DEF Frontier, QueueBelow, OpBelow, WorkerBelow, ClientsBelow

FrontierInv == \E F \in Steps, G \in Nat : Frontier(F, G)

(* ... and the frontier never moves back. *)
FrontierFrom(F) == \E F2 \in Steps, G2 \in Nat : F <= F2 /\ Frontier(F2, G2)

(* A step may follow only where the agent has planned one. *)
ContextInv ==
  \A w \in Workers : ctx[w] => pc[w] # "off" /\ job[w].step < MaxStep

LEMMA StepsFollow ==
  ASSUME TypeOK, ContextInv, NEW F \in Steps, NEW G \in Nat, Frontier(F, G),
         NEW w \in Workers, pc[w] = "next", ShouldContinueExecution(w)
  PROVE  F + 1 \in Steps
<1>1. job[w].step = F
  BY DEF Frontier, InStep
<1>2. F < MaxStep
  BY <1>1 DEF ContextInv, ShouldContinueExecution
<1> QED
  BY <1>2, BoundsAssumption DEF Steps

(* A call that rejects; a rejected write or publish may have taken effect. *)
LEMMA FrontierThrow ==
  ASSUME LockInv, ContextInv, NEW F \in Steps, NEW G \in Nat, Frontier(F, G),
         NEW w \in Workers, Throw(w)
  PROVE  FrontierFrom(F)'
<1> DEFINE label == IF resume[w] = "fail" THEN "fail" ELSE "catch"
<1>1. TypeOK /\ QueueBelow(F) /\ WorkerBelow(F, G, w)
  BY FrontierParts DEF LockInv
<1> F \in Nat
  BY BoundsAssumption DEF Steps
<1> USE DEF FrontierFrom
<1>2. pc' = [pc EXCEPT ![w] = label] /\ UNCHANGED <<job, mem, ctx, resume>>
  BY DEF Throw, Goto
<1>3. label \in {"catch", "fail"}
  OBVIOUS
<1> HIDE DEF label
<1>4. pc'[w] = label
  BY <1>1, <1>2 DEF TypeOK, Actors
<1>5. pc[w] # "enqueue"
  BY <1>1 DEF WorkerBelow
<1>6. CASE op' = mem[w] /\ pc[w] = "write" /\ queue' = queue
  <2>1. \E G2 \in Nat : Frontier(F, G2)'
    BY <1>2, <1>3, <1>6, Overwrite
  <2> QED
    BY <2>1
<1>7. CASE op' = op /\ queue' = queue
  <2>1. (\A v \in Workers \ {w} : Unmoved(v)) /\ ClientsUnmoved
    BY <1>1, <1>2, OthersUnmoved
  <2>2. QueueBelow(F)'
    BY <1>1, <1>7 DEF QueueBelow
  <2>3. WorkerBelow(F, G, w)'
    BY <1>1, <1>2, <1>3, <1>4, OutOfStep
  <2>4. Frontier(F, G)'
    BY <1>7, <2>1, <2>2, <2>3, OneWorker
  <2> QED
    BY <2>4
<1>8. CASE /\ op' = op /\ queue' = Put(NextMessage(w))
           /\ pc[w] = "next" /\ ShouldContinueExecution(w)
  <2>1. Frontier(F + 1, G)'
    BY <1>2, <1>3, <1>8, Advance
  <2>2. F + 1 \in Steps
    BY <1>1, <1>8, StepsFollow
  <2> QED
    BY <2>1, <2>2
<1>9. \/ op' = op
      \/ op' = mem[w] /\ pc[w] = "write"
  BY DEF Throw
<1>10. \/ queue' = queue
       \/ queue' = Put(NextMessage(w)) /\ pc[w] = "next"
    BY <1>5 DEF Throw, Rejected
<1>11. pc[w] = "next" => ShouldContinueExecution(w)
  BY DEF Throw
<1> QED
  BY <1>6, <1>7, <1>8, <1>9, <1>10, <1>11

(* The callers of interruptOperation, while no one calls startExecution *)
LEMMA FrontierClient ==
  ASSUME TypeOK, ~StartExecution, NEW F \in Nat, NEW G \in Nat, Frontier(F, G),
         Cancel \/ Start \/ Throw(Canceller) \/ Throw(Starter)
  PROVE  Frontier(F, G)'
<1>1. QueueBelow(F) /\ OpBelow(F, G) /\ ClientsBelow(G)
  BY FrontierParts
<1>2. /\ Canceller \in Actors /\ Starter \in Actors /\ Canceller # Starter
      /\ mem[Canceller] \in State /\ op \in State /\ Canceller \notin Workers
  BY ActorsAssumption DEF TypeOK, Actors
<1>3. pc[Starter] = "off"
  BY <1>1 DEF ClientsBelow
<1>4. ~Start /\ ~Throw(Starter)
  BY <1>3 DEF Start, Save, ScheduleStart, SaveLoadPrevious, SaveWrite,
              PublishAgentRuntimeEnd, Throw
<1>5. ASSUME NEW label \in {"off", "prev", "write", "end", "ack"},
             pc' = [pc EXCEPT ![Canceller] = label],
             UNCHANGED <<queue, job, ctx>>, OpBelow(F, G)',
             mem' = mem \/ \E x : mem' = [mem EXCEPT ![Canceller] = x],
             resume' = resume \/ \E x : resume' = [resume EXCEPT ![Canceller] = x],
             op' = op \/ op'.status = "interrupted",
             label \in {"prev", "write", "end"} =>
               /\ resume'[Canceller] = "ack"
               /\ mem'[Canceller].status = "interrupted"
               /\ mem'[Canceller].stepCount <= G
      PROVE  Frontier(F, G)'
  <2>1. ASSUME NEW v \in Workers PROVE Unmoved(v)
    <3>1. v # Canceller /\ v \in Actors
      BY <1>2 DEF Actors
    <3>2. pc'[v] = pc[v] /\ mem'[v] = mem[v] /\ resume'[v] = resume[v]
      BY <1>5, <3>1 DEF TypeOK
    <3> QED
      BY <1>5, <3>2 DEF Unmoved
  <2>2. pc'[Canceller] = label /\ pc'[Starter] = "off"
    BY <1>2, <1>3, <1>5 DEF TypeOK
  <2>3. ClientsBelow(G)' /\ QueueBelow(F)'
    BY <1>1, <1>5, <2>2 DEF ClientsBelow, QueueBelow
  <2>4. ASSUME NEW v \in Workers PROVE WorkerBelow(F, G, v)'
    <3>1. WorkerBelow(F, G, v) /\ Unmoved(v)
      BY <2>1, FrontierParts
    <3> QED
      BY <1>5, <3>1, UnmovedLabels DEF WorkerBelow, Unmoved
  <2> QED
    BY <1>5, <2>3, <2>4, FrontierParts
       DEF Frontier, QueueBelow, OpBelow, WorkerBelow, ClientsBelow
<1>6. ASSUME op' = op PROVE OpBelow(F, G)'
  BY <1>1, <1>6 DEF OpBelow
<1>7. CASE InterruptOperation
  <2> DEFINE s == [op EXCEPT !.status = "interrupted"]
  <2>1. s.status = "interrupted" /\ s.stepCount <= G
    BY <1>1, <1>2 DEF State, OpBelow
  <2>2. BeginSave(Canceller, s, "ack")
    BY <1>7 DEF InterruptOperation
  <2> HIDE DEF s
  <2>3. mem'[Canceller] = s /\ resume'[Canceller] = "ack"
    BY <1>2, <2>2 DEF BeginSave, TypeOK
  <2> QED
    BY <1>5, <1>6, <2>1, <2>2, <2>3 DEF BeginSave, Goto
<1>8. CASE ReturnInterrupted
  BY <1>5, <1>6, <1>8 DEF ReturnInterrupted, Goto
<1>9. CASE SaveLoadPrevious(Canceller)
  BY <1>1, <1>5, <1>6, <1>9 DEF SaveLoadPrevious, Goto, ClientsBelow
<1>10. ASSUME pc[Canceller] = "write", op' = mem[Canceller]
       PROVE  OpBelow(F, G)' /\ op'.status = "interrupted"
  BY <1>1, <1>10 DEF OpBelow, ClientsBelow, Terminal
<1>11. CASE SaveWrite(Canceller)
  <2>1. resume[Canceller] = "ack" /\ mem[Canceller].status = "interrupted"
        /\ mem[Canceller].stepCount <= G
    BY <1>1, <1>11 DEF SaveWrite, ClientsBelow
  <2> QED
    BY <1>5, <1>10, <1>11, <2>1 DEF SaveWrite, Goto
<1>12. CASE PublishAgentRuntimeEnd(Canceller)
  <2>1. resume[Canceller] = "ack"
    BY <1>1, <1>12 DEF PublishAgentRuntimeEnd, ClientsBelow
  <2> QED
    BY <1>5, <1>6, <1>12, <2>1 DEF PublishAgentRuntimeEnd, Goto
<1>13. CASE Throw(Canceller)
  <2>1. pc[Canceller] \notin {"next", "enqueue"}
    BY <1>1 DEF ClientsBelow
  <2>2. pc' = [pc EXCEPT ![Canceller] = "off"]
        /\ UNCHANGED <<queue, job, ctx, mem, resume>>
    BY <1>2, <1>13, <2>1 DEF Throw, Goto
  <2>3. op' = op \/ (pc[Canceller] = "write" /\ op' = mem[Canceller])
    BY <1>13 DEF Throw
  <2> QED
    BY <1>5, <1>6, <1>10, <2>2, <2>3
<1> QED
  BY <1>4, <1>7, <1>8, <1>9, <1>11, <1>12, <1>13 DEF Cancel, Save

-----------------------------------------------------------------------------
(* The theorem *)

LEMMA FrontierInit == Init => Frontier(0, 0)
<1> SUFFICES ASSUME Init PROVE Frontier(0, 0)
  OBVIOUS
<1>1. ASSUME NEW m \in Message, queue[m] > 0 PROVE m.step <= 0
  BY <1>1 DEF Init, FirstDelivery
<1>2. \A a \in Actors : pc[a] = "off"
  BY DEF Init
<1>3. Canceller \in Actors /\ Starter \in Actors /\ Workers \subseteq Actors
  BY DEF Actors
<1>4. \A w \in Workers : job[w].step = 0
  BY DEF Init, FirstDelivery
<1>5. op.stepCount = 0 /\ op.status = "idle"
  BY DEF Init, NewState
<1> QED
  BY <1>1, <1>2, <1>3, <1>4, <1>5 DEF Frontier, InStep, Computing

(* A worker that saves goes on with its step or with its catch block. *)
ResumeInv ==
  \A w \in Workers :
    pc[w] \in {"prev", "write", "end"} => resume[w] \in {"stepEvent", "next", "fail"}

LEMMA ResumeNext ==
  ASSUME TypeOK, ResumeInv, [Next]_vars
  PROVE  ResumeInv'
<1> USE DEF ResumeInv, TypeOK, Actors, Goto
<1>1. ASSUME UNCHANGED resume,
             \A w \in Workers : pc'[w] \in {"prev", "write", "end"} =>
                                  pc[w] \in {"prev", "write", "end"}
      PROVE  ResumeInv'
  BY <1>1
<1>2. ASSUME NEW w \in Workers,
             \/ \E m \in Message : Claim(w, m)
             \/ LoadSkip(w) \/ LoadTerminal(w) \/ LoadProceed(w) \/ RunStep(w)
             \/ ScheduleNext(w) \/ DispatchCompletion(w)
             \/ DispatchError(w) \/ DeliveryTimeout(w)
      PROVE  ResumeInv'
  BY <1>1, <1>2
  DEF Claim, LoadSkip, LoadTerminal, LoadProceed, RunStep, ScheduleNext,
      DispatchCompletion, DispatchError, DeliveryTimeout
<1>3. ASSUME NEW w \in Workers, ReleaseStepLock(w) \/ Crash(w) PROVE ResumeInv'
  BY <1>3 DEF ReleaseStepLock, Crash, Leave
<1>4. ASSUME NEW w \in Workers,
             \/ Recheck(w) \/ PublishStepComplete(w)
             \/ CatchLoad(w) \/ CatchFallback(w)
      PROVE  ResumeInv'
  BY <1>4 DEF Recheck, PublishStepComplete, CatchLoad, CatchFallback, SaveErrorState
<1>5. ASSUME NEW a \in Actors, Save(a) PROVE ResumeInv'
  BY <1>5, ActorsAssumption DEF Save, SaveLoadPrevious, SaveWrite, PublishAgentRuntimeEnd
<1>6. ASSUME NEW a \in Actors, Throw(a) PROVE ResumeInv'
  BY <1>1, <1>6 DEF Throw
<1>7. ASSUME InterruptOperation \/ ReturnInterrupted \/ StartExecution \/ ScheduleStart
      PROVE  ResumeInv'
  BY <1>7, ActorsAssumption
  DEF InterruptOperation, ReturnInterrupted, StartExecution, ScheduleStart, BeginSave
<1>8. ASSUME \/ \E m \in Message : Locked(m) \/ RetryAfter(m)
             \/ \E s \in Steps : LockExpire(s)
             \/ UNCHANGED vars
      PROVE  ResumeInv'
  BY <1>1, <1>8 DEF Locked, RetryAfter, LockExpire, vars
<1> QED
  BY <1>2, <1>3, <1>4, <1>5, <1>6, <1>7, <1>8 DEF Next, Handle, Cancel, Start

(* Only the agent, within its bound, sets ctx; an idle worker has none. *)
LEMMA ContextNext ==
  ASSUME TypeOK, ResumeInv, ContextInv, [Next]_vars
  PROVE  ContextInv'
<1> USE DEF ContextInv, TypeOK, Actors, Goto
<1>1. ASSUME NEW w \in Workers, NEW m \in Message, Claim(w, m)
      PROVE  ContextInv'
  BY <1>1 DEF Claim
<1>2. ASSUME NEW w \in Workers, ReleaseStepLock(w) \/ Crash(w)
      PROVE  ContextInv'
  <2>1. Leave(w)
    BY <1>2 DEF ReleaseStepLock, Crash
  <2> QED
    BY <2>1 DEF Leave
<1>3. ASSUME NEW w \in Workers, RunStep(w) PROVE ContextInv'
  <2>1. PICK r \in StepResult(mem[w], job[w].step) :
          ctx' = [ctx EXCEPT ![w] = r.next]
    BY <1>3 DEF RunStep
  <2>2. r.next => job[w].step < MaxStep
    BY StepResultType
  <2>3. job' = job /\ pc' = [pc EXCEPT ![w] = "recheck"]
    BY <1>3 DEF RunStep
  <2> QED
    BY <2>1, <2>2, <2>3
<1>4. ASSUME UNCHANGED <<job, ctx>>,
             \A w \in Workers : Executing(w) => Executing(w)'
      PROVE  ContextInv'
  BY <1>4 DEF Executing
<1>5. ASSUME NEW w \in Workers,
             \/ LoadSkip(w) \/ LoadTerminal(w) \/ LoadProceed(w) \/ Recheck(w)
             \/ PublishStepComplete(w) \/ ScheduleNext(w)
             \/ DispatchCompletion(w) \/ CatchLoad(w) \/ CatchFallback(w)
             \/ DispatchError(w) \/ DeliveryTimeout(w)
      PROVE  ContextInv'
  <2>1. UNCHANGED <<job, ctx>> /\ \A v \in Workers : Executing(v) => Executing(v)'
    BY <1>5
    DEF LoadSkip, LoadTerminal, LoadProceed, Recheck, PublishStepComplete,
        ScheduleNext, DispatchCompletion, CatchLoad, CatchFallback,
        SaveErrorState, DispatchError, DeliveryTimeout, Executing
  <2> QED
    BY <1>4, <2>1
<1>6. ASSUME NEW w \in Workers, Save(w) PROVE ContextInv'
  <2>1. pc[w] \in {"prev", "write", "end"} => resume[w] # "off"
    BY DEF ResumeInv
  <2>2. UNCHANGED <<job, ctx>> /\ \A v \in Workers : Executing(v) => Executing(v)'
    BY <1>6, <2>1
    DEF Save, SaveLoadPrevious, SaveWrite, PublishAgentRuntimeEnd, Executing
  <2> QED
    BY <1>4, <2>2
<1>7. ASSUME NEW a \in Actors, Throw(a) PROVE ContextInv'
  <2>1. UNCHANGED <<job, ctx>> /\ \A v \in Workers : Executing(v) => Executing(v)'
    BY <1>7 DEF Throw, Executing
  <2> QED
    BY <1>4, <2>1
<1>8. ASSUME Cancel \/ Start PROVE ContextInv'
  <2>1. ASSUME NEW a \in {Canceller, Starter}, Save(a) PROVE ContextInv'
    <3>1. UNCHANGED <<job, ctx>> /\ \A v \in Workers : pc'[v] = pc[v]
      BY <2>1, ActorsAssumption
      DEF Save, SaveLoadPrevious, SaveWrite, PublishAgentRuntimeEnd
    <3> QED
      BY <1>4, <3>1 DEF Executing
  <2>2. CASE InterruptOperation \/ ReturnInterrupted \/ StartExecution \/ ScheduleStart
    <3>1. UNCHANGED <<job, ctx>> /\ \A v \in Workers : pc'[v] = pc[v]
      BY <2>2, ActorsAssumption
      DEF InterruptOperation, ReturnInterrupted, StartExecution, ScheduleStart,
          BeginSave
    <3> QED
      BY <1>4, <3>1 DEF Executing
  <2> QED
    BY <1>8, <2>1, <2>2 DEF Cancel, Start
<1>9. ASSUME NEW m \in Message, Locked(m) \/ RetryAfter(m) PROVE ContextInv'
  BY <1>4, <1>9 DEF Locked, RetryAfter, Executing
<1>10. ASSUME NEW s \in Steps, LockExpire(s) PROVE ContextInv'
  BY <1>4, <1>10 DEF LockExpire, Executing
<1>11. CASE UNCHANGED vars
  BY <1>4, <1>11 DEF vars, Executing
<1> QED
  BY <1>1, <1>2, <1>3, <1>5, <1>6, <1>7, <1>8, <1>9, <1>10, <1>11
  DEF Next, Handle

LEMMA FrontierNext ==
  ASSUME ~StartExecution, LockInv, ContextInv,
         NEW F \in Steps, NEW G \in Nat, Frontier(F, G), [Next]_vars
  PROVE  FrontierFrom(F)'
<1> F \in Nat
  BY BoundsAssumption DEF Steps
<1> USE DEF FrontierFrom
<1>1. TypeOK
  BY DEF LockInv
<1>2. CASE UNCHANGED vars
  BY <1>2 DEF vars, Frontier, InStep, Computing, ShouldContinueExecution
<1>3. ASSUME NEW w \in Workers, Handle(w) PROVE FrontierFrom(F)'
  <2>1. CASE SaveWrite(w)
    <3>1. PICK label \in {"end", resume[w]} : pc' = [pc EXCEPT ![w] = label]
      BY <2>1 DEF SaveWrite, Goto
    <3>2. \E G2 \in Nat : Frontier(F, G2)'
      BY <2>1, <3>1, Overwrite DEF SaveWrite
    <3> QED
      BY <3>2
  <2>2. CASE ScheduleNext(w)
    <3>1. Frontier(F + 1, G)'
      BY <2>2, Advance DEF ScheduleNext, Goto
    <3>2. F + 1 \in Steps
      BY <1>1, <2>2, StepsFollow DEF ScheduleNext
    <3> QED
      BY <3>1, <3>2
  <2>3. CASE ~SaveWrite(w) /\ ~ScheduleNext(w)
    BY <1>1, <1>3, <2>3, FrontierDelivery, FrontierHandler DEF Handle, Save
  <2> QED
    BY <2>1, <2>2, <2>3
<1>4. ASSUME Cancel \/ Start PROVE FrontierFrom(F)'
  BY <1>1, <1>4, FrontierClient
<1>5. ASSUME NEW m \in Message, Locked(m) \/ RetryAfter(m) PROVE FrontierFrom(F)'
  BY <1>1, <1>5, FrontierDelivery
<1>6. ASSUME NEW s \in Steps, LockExpire(s) PROVE FrontierFrom(F)'
  BY <1>1, <1>6, FrontierDelivery
<1>7. ASSUME NEW w \in Workers, DeliveryTimeout(w) \/ Crash(w) \/ CatchFallback(w)
      PROVE  FrontierFrom(F)'
  BY <1>1, <1>7, FrontierDelivery, FrontierHandler
<1>8. ASSUME NEW a \in Actors, Throw(a) PROVE FrontierFrom(F)'
  <2>1. CASE a \in Workers
    BY <1>8, <2>1, FrontierThrow
  <2>2. CASE a \in {Canceller, Starter}
    BY <1>1, <1>8, <2>2, FrontierClient
  <2> QED
    BY <2>1, <2>2 DEF Actors
<1> QED
  BY <1>2, <1>3, <1>4, <1>5, <1>6, <1>7, <1>8 DEF Next

(* Until the first step is scheduled only the two clients are at work. *)
Before ==
  /\ \A m \in Message : queue[m] = 0
  /\ \A w \in Workers : pc[w] = "off" /\ ~live[w] /\ job[w].step = 0
  /\ op.stepCount = 0 /\ op.status \in Active \cup {"interrupted"}
  /\ pc[Canceller] \in {"off", "prev", "write", "end", "ack"}
  /\ pc[Canceller] \in {"prev", "write", "end"} =>
       /\ resume[Canceller] = "ack"
       /\ mem[Canceller].status = "interrupted"
       /\ mem[Canceller].stepCount = 0
  /\ pc[Starter] \in {"off", "prev", "write", "enqueue"}
  /\ pc[Starter] # "off" =>
       /\ resume[Starter] = "enqueue"
       /\ mem[Starter].status = "running" /\ mem[Starter].stepCount = 0
       /\ spent.start >= 1

LEMMA BeforeIsFrontier ==
  ASSUME Before, pc[Starter] = "off"
  PROVE  Frontier(0, 0)
<1>1. \A w \in Workers : ~InStep(w) /\ ~Computing(w)
  BY DEF Before, InStep, Computing
<1> QED
  BY <1>1 DEF Before, Frontier, Active, Terminal

(* startExecution schedules the step after the one its state has counted. *)
LEMMA StartSchedules ==
  ASSUME TypeOK, Before, pc[Starter] = "enqueue",
         pc' = [pc EXCEPT ![Starter] = "off"],
         queue' = Put(FirstDelivery(mem[Starter].stepCount)),
         UNCHANGED <<op, job, mem, resume>>
  PROVE  Frontier(0, 0)'
<1>1. ASSUME NEW m \in Message, queue'[m] > 0 PROVE m.step <= 0
  <2>1. m = FirstDelivery(0)
    BY <1>1, PutHolds DEF Before, TypeOK
  <2> QED
    BY <2>1 DEF FirstDelivery
<1>2. \A w \in Workers : pc'[w] = "off"
  BY ActorsAssumption DEF Before
<1>3. pc'[Starter] = "off" /\ pc'[Canceller] = pc[Canceller]
  BY ActorsAssumption DEF TypeOK, Actors
<1>4. \A w \in Workers : ~InStep(w)' /\ ~Computing(w)'
  BY <1>2 DEF InStep, Computing
<1> QED
  BY <1>1, <1>2, <1>3, <1>4 DEF Before, Frontier, Active, Terminal

LEMMA BeforeNext ==
  ASSUME TypeOK, Before, [Next]_vars
  PROVE  Before' \/ (Frontier(0, 0)' /\ spent'.start >= 1)
<1>0. /\ Canceller \in Actors /\ Starter \in Actors /\ Canceller # Starter
      /\ Canceller \notin Workers /\ Starter \notin Workers
      /\ op \in State
  BY ActorsAssumption DEF TypeOK, Actors
<1>00. spent.start \in Nat /\ spent'.start \in Nat /\ spent.start <= spent'.start
  BY Frugal DEF Kinds
<1>1. CASE UNCHANGED vars
  BY <1>1 DEF vars, Before
<1>01. ASSUME NEW m \in Message PROVE ~(queue[m] > 0)
  <2>1. queue[m] = 0
    BY DEF Before
  <2> QED
    BY <2>1
<1>2. ASSUME NEW w \in Workers PROVE ~Handle(w)
  BY <1>01
  DEF Before, Handle, Claim, Deliverable, LoadSkip, LoadTerminal, LoadProceed,
         RunStep, Recheck, Save, SaveLoadPrevious, SaveWrite,
         PublishAgentRuntimeEnd, PublishStepComplete, ScheduleNext,
         DispatchCompletion, CatchLoad, DispatchError, ReleaseStepLock
<1>3. ASSUME NEW w \in Workers
      PROVE  ~(DeliveryTimeout(w) \/ Crash(w) \/ CatchFallback(w) \/ Throw(w))
  BY DEF Before, DeliveryTimeout, Crash, Executing, CatchFallback, Throw
<1>4. ASSUME NEW m \in Message PROVE ~(Locked(m) \/ RetryAfter(m))
  BY <1>01 DEF Locked, Deliverable, RetryAfter
<1>5. ASSUME NEW s \in Steps, LockExpire(s) PROVE Before'
  BY <1>00, <1>5 DEF LockExpire, Before
(* One client moves and schedules nothing. *)
<1>6. ASSUME NEW a \in {Canceller, Starter},
             NEW label, pc' = [pc EXCEPT ![a] = label],
             UNCHANGED <<queue, job, live>>,
             op'.stepCount = 0 /\ op'.status \in Active \cup {"interrupted"},
             mem' = mem \/ \E x : mem' = [mem EXCEPT ![a] = x],
             resume' = resume \/ \E x : resume' = [resume EXCEPT ![a] = x],
             a = Canceller =>
               /\ label \in {"off", "prev", "write", "end", "ack"}
               /\ label \in {"prev", "write", "end"} =>
                    /\ resume'[a] = "ack" /\ mem'[a].status = "interrupted"
                    /\ mem'[a].stepCount = 0,
             a = Starter =>
               /\ label \in {"off", "prev", "write", "enqueue"}
               /\ label # "off" =>
                    /\ resume'[a] = "enqueue" /\ mem'[a].status = "running"
                    /\ mem'[a].stepCount = 0 /\ spent'.start >= 1
      PROVE  Before'
  <2>1. \A w \in Workers : pc'[w] = pc[w]
    BY <1>0, <1>6 DEF TypeOK, Actors
  <2>2. pc'[a] = label
    BY <1>0, <1>6 DEF TypeOK
  <2>3. CASE a = Canceller
    <3>1. pc'[Starter] = pc[Starter] /\ mem'[Starter] = mem[Starter]
          /\ resume'[Starter] = resume[Starter]
      BY <1>0, <1>6, <2>3 DEF TypeOK
    <3> QED
      BY <1>00, <1>6, <2>1, <2>2, <2>3, <3>1 DEF Before
  <2>4. CASE a = Starter
    <3>1. pc'[Canceller] = pc[Canceller] /\ mem'[Canceller] = mem[Canceller]
          /\ resume'[Canceller] = resume[Canceller]
      BY <1>0, <1>6, <2>4 DEF TypeOK
    <3> QED
      BY <1>6, <2>1, <2>2, <2>4, <3>1 DEF Before
  <2> QED
    BY <2>3, <2>4
<1>7. CASE InterruptOperation
  <2> DEFINE s == [op EXCEPT !.status = "interrupted"]
  <2>1. s.status = "interrupted" /\ s.stepCount = 0
    BY <1>0 DEF State, Before
  <2>2. BeginSave(Canceller, s, "ack")
    BY <1>7 DEF InterruptOperation
  <2> HIDE DEF s
  <2>3. mem'[Canceller] = s /\ resume'[Canceller] = "ack"
    BY <1>0, <2>2 DEF BeginSave, TypeOK
  <2>4. op'.stepCount = 0 /\ op'.status \in Active \cup {"interrupted"}
    BY <2>2 DEF BeginSave, Before
  <2> QED
    BY <1>0, <1>6, <2>1, <2>2, <2>3, <2>4 DEF BeginSave, Goto
<1>8. CASE StartExecution
  <2> DEFINE s == [op EXCEPT !.status = "running"]
  <2>1. s.status = "running" /\ s.stepCount = 0
    BY <1>0 DEF State, Before
  <2>2. BeginSave(Starter, s, "enqueue") /\ Spend("start")
    BY <1>8 DEF StartExecution
  <2> HIDE DEF s
  <2>3. mem'[Starter] = s /\ resume'[Starter] = "enqueue"
    BY <1>0, <2>2 DEF BeginSave, TypeOK
  <2>4. op'.stepCount = 0 /\ op'.status \in Active \cup {"interrupted"}
    BY <2>2 DEF BeginSave, Before
  <2>5. spent'.start >= 1
    <3>1. spent'.start = spent.start + 1
      BY <2>2 DEF Spend, TypeOK, Budget
    <3> QED
      BY <1>00, <3>1
  <2> QED
    BY <1>0, <1>6, <2>1, <2>2, <2>3, <2>4, <2>5 DEF BeginSave, Goto
<1>9. ASSUME UNCHANGED <<queue, job, live, mem, resume, op>>,
             pc' = [pc EXCEPT ![Canceller] = "off"] \/ pc' = [pc EXCEPT ![Starter] = "off"]
      PROVE  Before'
  <2>1. op'.stepCount = 0 /\ op'.status \in Active \cup {"interrupted"}
    BY <1>9 DEF Before
  <2> QED
    BY <1>0, <1>6, <1>9, <2>1
<1>10. CASE ReturnInterrupted
  BY <1>9, <1>10 DEF ReturnInterrupted, Goto
<1>11. CASE ScheduleStart
  <2>1. spent'.start >= 1
    BY <1>00, <1>11 DEF ScheduleStart, Before
  <2> QED
    BY <1>11, <2>1, StartSchedules DEF ScheduleStart, Goto
<1>12. ASSUME NEW a \in {Canceller, Starter}, Save(a) PROVE Before'
  <2>1. /\ a = Canceller => resume[a] = "ack" /\ mem[a].status = "interrupted"
        /\ a = Starter => /\ resume[a] = "enqueue" /\ mem[a].status = "running"
                          /\ pc[a] # "end" /\ spent'.start >= 1
        /\ mem[a].stepCount = 0 /\ mem[a].status \in Active \cup {"interrupted"}
    BY <1>0, <1>00, <1>12
    DEF Save, SaveLoadPrevious, SaveWrite, PublishAgentRuntimeEnd, Before, Active
  <2>2. op'.stepCount = 0 /\ op'.status \in Active \cup {"interrupted"}
    BY <1>12, <2>1
    DEF Save, SaveLoadPrevious, SaveWrite, PublishAgentRuntimeEnd, Before
  <2>3. UNCHANGED <<queue, job, live, mem, resume>>
    BY <1>12 DEF Save, SaveLoadPrevious, SaveWrite, PublishAgentRuntimeEnd
  <2>4. \E label \in {"write", "end", resume[a]} :
          pc' = [pc EXCEPT ![a] = label] /\ (a = Starter => label # "end")
    BY <1>12, <2>1
    DEF Save, SaveLoadPrevious, SaveWrite, PublishAgentRuntimeEnd, Goto,
        HasEnteredStreamEndState, StreamEnd, Terminal
  <2> QED
    BY <1>0, <1>6, <2>1, <2>2, <2>3, <2>4
<1>13. ASSUME NEW a \in {Canceller, Starter}, Throw(a)
       PROVE  Before' \/ (Frontier(0, 0)' /\ spent'.start >= 1)
  <2>1. /\ pc' = [pc EXCEPT ![a] = "off"] /\ UNCHANGED <<job, live, mem, resume>>
    BY <1>0, <1>13 DEF Throw, Goto
  <2>2. pc[a] # "next" /\ (a = Canceller => pc[a] # "enqueue")
    BY <1>0 DEF Before
  <2>3. op' = op \/ (pc[a] = "write" /\ op' = mem[a])
    BY <1>13 DEF Throw
  <2>4. \/ queue' = queue
        \/ /\ a = Starter /\ pc[a] = "enqueue"
           /\ queue' = Put(FirstDelivery(mem[a].stepCount))
    BY <1>13, <2>2 DEF Throw, Rejected
  <2>5. CASE queue' = queue
    <3>1. op'.stepCount = 0 /\ op'.status \in Active \cup {"interrupted"}
      BY <1>0, <2>3 DEF Before, Active
    <3> QED
      BY <1>0, <1>6, <2>1, <2>5, <3>1
  <2>6. CASE /\ a = Starter /\ pc[a] = "enqueue"
             /\ queue' = Put(FirstDelivery(mem[a].stepCount))
    <3>1. spent'.start >= 1
      BY <1>00, <2>6 DEF Before
    <3>2. op' = op
      BY <2>3, <2>6
    <3> QED
      BY <2>1, <2>6, <3>1, <3>2, StartSchedules
  <2> QED
    BY <2>4, <2>5, <2>6
<1> QED
  BY <1>1, <1>2, <1>3, <1>4, <1>5, <1>7, <1>8, <1>10, <1>11, <1>12, <1>13
  DEF Next, Cancel, Start, Actors

(* One chain of messages: it has not begun, or it is at its frontier. *)
ChainInv ==
  \/ Before /\ ~AutoStart
  \/ FrontierInv /\ (AutoStart \/ spent.start >= 1)

LEMMA OneChainNext ==
  ASSUME LockInv, ContextInv, ChainInv, [Next]_vars, OneChain'
  PROVE  ChainInv'
<1>1. TypeOK
  BY DEF LockInv
<1>2. spent.start \in Nat /\ spent'.start \in Nat /\ spent.start <= spent'.start
  BY <1>1, Frugal DEF Kinds
<1>3. CASE Before /\ ~AutoStart
  <2>1. 0 \in Steps /\ 0 \in Nat
    BY BoundsAssumption DEF Steps
  <2> QED
    BY <1>1, <1>3, <2>1, BeforeNext DEF ChainInv, FrontierInv
<1>4. CASE FrontierInv /\ (AutoStart \/ spent.start >= 1)
  <2>1. ~StartExecution
    <3>1. ASSUME StartExecution PROVE spent'.start = spent.start + 1
      BY <1>1, <3>1 DEF StartExecution, Spend, TypeOK, Budget
    <3> QED
      BY <1>2, <1>4, <3>1 DEF OneChain
  <2>2. PICK F \in Steps, G \in Nat : Frontier(F, G)
    BY <1>4 DEF FrontierInv
  <2>3. FrontierFrom(F)'
    BY <2>1, <2>2, FrontierNext
  <2>4. FrontierInv'
    BY <2>3 DEF FrontierFrom, FrontierInv
  <2> QED
    BY <1>2, <1>4, <2>4 DEF ChainInv
<1> QED
  BY <1>3, <1>4 DEF ChainInv

LEMMA ChainInit == Init => ChainInv
<1> SUFFICES ASSUME Init PROVE ChainInv
  OBVIOUS
<1>1. CASE AutoStart
  <2>1. 0 \in Steps /\ 0 \in Nat
    BY BoundsAssumption DEF Steps
  <2> QED
    BY <1>1, <2>1, FrontierInit DEF ChainInv, FrontierInv
<1>2. CASE ~AutoStart
  BY <1>2 DEF Init, Before, ChainInv, NewState, FirstDelivery, Actors, Active
<1> QED
  BY <1>1, <1>2

(* What holds in every behaviour *)
Background == TypeOK /\ ResumeInv /\ ContextInv

LEMMA BackgroundInvariant == Spec => []Background
<1>1. Init => ResumeInv /\ ContextInv
  BY DEF Init, ResumeInv, ContextInv, Actors
<1>2. TypeOK /\ ResumeInv /\ ContextInv /\ [Next]_vars => ResumeInv' /\ ContextInv'
  BY ResumeNext, ContextNext
<1> QED
  BY <1>1, <1>2, TypeCorrect, PTL DEF Spec, Background

LEMMA ChainInvariant == Spec => [](Covered /\ OneChain => LockInv /\ ChainInv)
<1>1. Background /\ (Covered => LockInv) /\ (Covered /\ OneChain => ChainInv) /\ [Next]_vars
        => (Covered /\ OneChain => ChainInv)'
  BY OneChainNext, Histories DEF Background
<1> QED
  BY <1>1, ChainInit, BackgroundInvariant, LockInvariant, PTL DEF Spec

(* The rest of this module is about operations that createOperation alone has
   started; of those that nobody has started yet nothing is to be said. *)
LEMMA ChainAtFrontier ==
  ASSUME TypeOK, ChainInv, spent.start = 0
  PROVE  FrontierInv
<1>1. 0 \in Steps /\ 0 \in Nat
  BY BoundsAssumption DEF Steps
<1>2. CASE Before
  <2>1. pc[Starter] = "off"
    BY <1>2 DEF Before
  <2> QED
    BY <1>1, <1>2, <2>1, BeforeIsFrontier DEF FrontierInv
<1> QED
  BY <1>2 DEF ChainInv

LEMMA FrontierInvariant ==
  Spec => [](Covered /\ spent.start = 0 => LockInv /\ ContextInv /\ FrontierInv)
<1>1. Background /\ (Covered /\ OneChain => LockInv /\ ChainInv)
        => (Covered /\ spent.start = 0 => LockInv /\ ContextInv /\ FrontierInv)
  BY ChainAtFrontier DEF Background, OneChain
<1> QED
  BY <1>1, ChainInvariant, BackgroundInvariant, PTL

LEMMA FrontierImplies ==
  ASSUME TypeOK, ChainInv PROVE SavedStepNotRerun /\ RunsOnlyActiveState
<1>1. CASE FrontierInv
  <2> PICK F \in Steps, G \in Nat : Frontier(F, G)
    BY <1>1 DEF FrontierInv
  <2>1. ASSUME NEW w \in Workers, Computing(w) PROVE op.stepCount <= job[w].step
    BY <2>1, ComputingInStep DEF Frontier
  <2>2. ASSUME NEW w \in Workers, pc[w] = "run" PROVE mem[w].status \in Active
    BY <2>2 DEF Frontier
  <2> QED
    BY <2>1, <2>2 DEF SavedStepNotRerun, RunsOnlyActiveState
<1>2. CASE Before
  BY <1>2 DEF Before, Computing, SavedStepNotRerun, RunsOnlyActiveState
<1> QED
  BY <1>1, <1>2 DEF ChainInv

(* As long as Redis grants no claim by rejecting it, no step outlives its lock
   and the operation was started once, two numbers tell all about its progress:
   the last step ever scheduled and the highest count ever saved differ by at
   most one, and everything in the queue, in the handlers and in Redis is as old
   as they say. *)
THEOREM FrontierAlways == Spec => []FrontierExists
<1>1. Background /\ (Covered /\ OneChain => LockInv /\ ChainInv) => FrontierExists
  <2> SUFFICES ASSUME ChainInv, pc[Starter] = "off"
               PROVE  \E F, G \in 0..(MaxStep + 1) : Frontier(F, G)
    BY DEF FrontierExists
  <2>1. CASE Before
    BY <2>1, BeforeIsFrontier, BoundsAssumption
  <2>2. CASE FrontierInv
    <3> PICK F \in Steps, G \in Nat : Frontier(F, G)
      BY <2>2 DEF FrontierInv
    <3>1. F \in 0..(MaxStep + 1) /\ G \in 0..(MaxStep + 1)
      BY BoundsAssumption DEF Frontier, Steps
    <3> QED
      BY <3>1
  <2> QED
    BY <2>1, <2>2 DEF ChainInv
<1> QED
  BY <1>1, ChainInvariant, BackgroundInvariant, PTL

(* A step whose result is saved is never computed again before a claim was
   granted by a Redis error, a step has outlived its lock or the operation was
   started twice: for every number of invocations, steps, retries, kills,
   rejected calls and interrupts, executeStep's claim and its stepCount check
   do what they are there for. *)
THEOREM StepOnce == Spec => []SavedStepNotRerun
<1>1. Background /\ (Covered /\ OneChain => LockInv /\ ChainInv) => SavedStepNotRerun
  BY FrontierImplies DEF Background, SavedStepNotRerun
<1> QED
  BY <1>1, ChainInvariant, BackgroundInvariant, PTL

(* Until then, too, a step is only ever computed from a state that is neither
   terminal nor waiting for a human: a late or repeated delivery never wakes up
   a paused operation. *)
THEOREM PausedStaysPaused == Spec => []RunsOnlyActiveState
<1>1. Background /\ (Covered /\ OneChain => LockInv /\ ChainInv) => RunsOnlyActiveState
  BY FrontierImplies DEF Background, RunsOnlyActiveState
<1> QED
  BY <1>1, ChainInvariant, BackgroundInvariant, PTL

-----------------------------------------------------------------------------
(***************************************************************************)
(* The life of an operation until it is disturbed: while no call has been  *)
(* rejected and no client has interfered, whatever was late, killed or     *)
(* delivered twice, a worker that computes is the only one that will       *)
(* change the saved state, and a worker that reports the end of the        *)
(* operation reports what is saved.                                        *)
(***************************************************************************)

(* The worker has saved its step, or has loaded a terminal state. *)
Saved(w) ==
  \/ pc[w] \in {"end", "stepEvent", "next"}
  \/ pc[w] \in {"prev", "write"} /\ resume[w] = "next"

Ending(w) == Saved(w) /\ ~ShouldContinueExecution(w)

(* No step will be computed any more: the state is terminal, or its count is
   past every step that was scheduled. *)
Over ==
  /\ op.status \in Terminal \/ (op.stepCount > 0 /\ Past(op.stepCount - 1))
  /\ \A w \in Workers : ~Computing(w) /\ (Saved(w) => Ending(w))

(* The worker is neither in a catch block nor on its way to a 500. *)
NoDetour(w) ==
  /\ pc[w] \notin {"catch", "fail", "release500", "enqueue", "ack"}
  /\ pc[w] \in {"prev", "write", "end"} => resume[w] \in {"stepEvent", "next"}

(* What a computing worker will save is the saved state, finished or one step
   further; what another worker acts upon is the saved state itself. *)
WorksOn(w) ==
  /\ Computing(w) => op.status \in Active
  /\ pc[w] = "run" => mem[w] = op
  /\ Computing(w) /\ pc[w] # "run" =>
       \/ mem[w].status = "done" /\ mem[w].stepCount = op.stepCount
       \/ /\ mem[w].status \in StreamEnd \cup {op.status}
          /\ mem[w].stepCount = op.stepCount + 1
  /\ Saved(w) => mem[w] = op

Life ==
  /\ pc[Canceller] = "off" /\ pc[Starter] = "off"
  /\ \A w \in Workers : NoDetour(w) /\ WorksOn(w) /\ (Ending(w) => Over)
  /\ completed # "none" =>
       Over /\ completed = DetermineCompletionReason(op)

Execute(w) ==
  \/ LoadSkip(w) \/ LoadTerminal(w) \/ LoadProceed(w) \/ RunStep(w)
  \/ Recheck(w) \/ SaveLoadPrevious(w) \/ SaveWrite(w)
  \/ PublishAgentRuntimeEnd(w) \/ PublishStepComplete(w)
  \/ ScheduleNext(w) \/ DispatchCompletion(w)

Deliver ==
  \/ \E w \in Workers : \E m \in Message : Claim(w, m)
  \/ \E w \in Workers : DeliveryTimeout(w) \/ ReleaseStepLock(w) \/ Crash(w)
  \/ \E m \in Message : Locked(m) \/ RetryAfter(m)
  \/ \E s \in Steps : LockExpire(s)

(* Nothing else happens. *)
LEMMA RedeliveredNext ==
  ASSUME TypeOK, Life, Next, Undisturbed'
  PROVE  Deliver \/ \E w \in Workers : Execute(w)
<1>1. ~Spend("throw") /\ ~Spend("catch") /\ ~Spend("start") /\ ~Spend("interrupt")
  BY Unspent DEF Undisturbed, Kinds
<1>2. ASSUME NEW a \in Actors PROVE ~Throw(a)
  BY <1>1 DEF Throw
<1>3. ~Cancel
  BY <1>1 DEF Life, Cancel, InterruptOperation, ReturnInterrupted, Save,
              SaveLoadPrevious, SaveWrite, PublishAgentRuntimeEnd
<1>4. ~Start
  BY <1>1 DEF Life, Start, StartExecution, ScheduleStart, Save,
              SaveLoadPrevious, SaveWrite, PublishAgentRuntimeEnd
<1>5. ASSUME NEW w \in Workers
      PROVE  ~CatchLoad(w) /\ ~CatchFallback(w) /\ ~DispatchError(w)
  BY DEF Life, NoDetour, CatchLoad, CatchFallback, DispatchError
<1>6. ASSUME NEW w \in Workers, Handle(w)
      PROVE  Deliver \/ \E v \in Workers : Execute(v)
  BY <1>5, <1>6 DEF Handle, Save, Execute, Deliver
<1> QED
  BY <1>2, <1>3, <1>4, <1>5, <1>6 DEF Next, Deliver

LEMMA UnmovedSaved ==
  ASSUME NEW v \in Workers, Unmoved(v)
  PROVE  /\ Saved(v)' <=> Saved(v)
         /\ Ending(v)' <=> Ending(v)
         /\ NoDetour(v)' <=> NoDetour(v)
         /\ op' = op => (WorksOn(v)' <=> WorksOn(v))
<1>1. /\ Saved(v)' <=> Saved(v)
      /\ ShouldContinueExecution(v)' <=> ShouldContinueExecution(v)
  BY DEF Unmoved, Saved, ShouldContinueExecution
<1>2. NoDetour(v)' <=> NoDetour(v)
  BY DEF Unmoved, NoDetour
<1>3. ASSUME op' = op PROVE WorksOn(v)' <=> WorksOn(v)
  BY <1>1, <1>3, UnmovedLabels DEF Unmoved, WorksOn
<1> QED
  BY <1>1, <1>2, <1>3 DEF Ending

(* The operation stays over. *)
LEMMA OverStays ==
  ASSUME TypeOK, Over, op' = op,
         \A n \in Nat : Past(n) => Past(n)',
         \A v \in Workers : ~Computing(v)' /\ (Saved(v)' => Ending(v)')
  PROVE  Over'
<1>1. op.stepCount > 0 => op.stepCount - 1 \in Nat
  BY DEF TypeOK, State
<1>2. op.stepCount > 0 /\ Past(op.stepCount - 1) => Past(op.stepCount - 1)'
  BY <1>1
<1> DEFINE n == op.stepCount - 1
<1>3. n' = n
  OBVIOUS
<1> QED
  BY <1>2 DEF Over, Past, QueueBelow

(* Workers that begin or leave an invocation have no part in the step. *)
LEMMA Aside ==
  ASSUME NEW v \in Workers, pc'[v] \in {"off", "load", "release200"}
  PROVE  NoDetour(v)' /\ WorksOn(v)' /\ ~Saved(v)' /\ ~Computing(v)' /\ ~Ending(v)'
  BY DEF NoDetour, WorksOn, Saved, Computing, Ending

(* An action that leaves the saved state alone *)
LEMMA LifeGoesOn ==
  ASSUME TypeOK, Life, op' = op, ClientsUnmoved,
         Over => \A n \in Nat : Past(n) => Past(n)',
         \A v \in Workers :
           \/ Unmoved(v)
           \/ /\ NoDetour(v)' /\ WorksOn(v)'
              /\ Over => ~Computing(v)' /\ (Saved(v)' => Ending(v)')
              /\ Ending(v)' => Over,
         completed' # "none" => Over,
         completed' \in {completed, DetermineCompletionReason(op)}
  PROVE  Life'
<1>1. ASSUME NEW v \in Workers
      PROVE  /\ NoDetour(v)' /\ WorksOn(v)'
             /\ Over => ~Computing(v)' /\ (Saved(v)' => Ending(v)')
             /\ Ending(v)' => Over
  <2>1. CASE Unmoved(v)
    BY <2>1, UnmovedSaved, UnmovedLabels DEF Life, Over
  <2> QED
    BY <2>1
<1>2. Over => Over'
  BY <1>1, OverStays
<1>3. completed' # "none" => completed' = DetermineCompletionReason(op)
  BY DEF Life
<1>4. DetermineCompletionReason(op)' = DetermineCompletionReason(op)
  BY DEF DetermineCompletionReason
<1> QED
  BY <1>1, <1>2, <1>3, <1>4 DEF Life, ClientsUnmoved
LEMMA LifeDeliver ==
  ASSUME TypeOK, Life, Deliver
  PROVE  Life'
<1>1. ASSUME op' = op, completed' = completed, ClientsUnmoved,
             \A n \in Nat : Past(n) => Past(n)',
             \A v \in Workers : Unmoved(v) \/ pc'[v] \in {"off", "load"}
      PROVE  Life'
  BY <1>1, Aside, LifeGoesOn DEF Life
<1>2. ASSUME NEW w \in Workers, NEW m \in Message, Claim(w, m) PROVE Life'
  <2>1. (\A v \in Workers \ {w} : Unmoved(v)) /\ ClientsUnmoved /\ pc'[w] = "load"
    BY <1>2, OthersUnmoved DEF Claim, Goto
  <2> QED
    BY <1>1, <1>2, <2>1, DeliveryPast DEF Claim
<1>3. ASSUME NEW w \in Workers, ReleaseStepLock(w) \/ Crash(w) PROVE Life'
  <2>1. (\A v \in Workers \ {w} : Unmoved(v)) /\ ClientsUnmoved /\ pc'[w] = "off"
    <3>1. Leave(w)
      BY <1>3 DEF ReleaseStepLock, Crash
    <3> QED
      BY <3>1, OthersUnmoved DEF Leave, Goto
  <2> QED
    BY <1>1, <1>3, <2>1, DeliveryPast DEF ReleaseStepLock, Crash
<1>4. ASSUME UNCHANGED <<op, pc, job, mem, ctx, resume, completed>>,
             \A n \in Nat : Past(n) => Past(n)'
      PROVE  Life'
  BY <1>1, <1>4 DEF Unmoved, ClientsUnmoved
<1>5. ASSUME NEW w \in Workers, DeliveryTimeout(w) PROVE Life'
  BY <1>4, <1>5, DeliveryPast DEF DeliveryTimeout
<1>6. ASSUME NEW m \in Message, Locked(m) \/ RetryAfter(m) PROVE Life'
  BY <1>4, <1>6, DeliveryPast DEF Locked, RetryAfter
<1>7. ASSUME NEW s \in Steps, LockExpire(s) PROVE Life'
  BY <1>4, <1>7, DeliveryPast DEF LockExpire
<1> QED
  BY <1>2, <1>3, <1>5, <1>6, <1>7 DEF Deliver

(* A worker that computes has no other worker beside it in the step, and the
   operation is not over. *)
LEMMA AloneInStep ==
  ASSUME LockInv, FrontierInv, Life, NEW w \in Workers, Computing(w)
  PROVE  /\ completed = "none" /\ ~Over
         /\ \A v \in Workers \ {w} : ~Computing(v) /\ ~Saved(v) /\ ~InStep(v)
<1> PICK F \in Steps, G \in Nat : Frontier(F, G)
  BY DEF FrontierInv
<1>1. completed = "none" /\ ~Over
  BY DEF Life, Over
<1>2. ASSUME NEW v \in Workers \ {w} PROVE ~InStep(v)
  BY <1>2, SameStep, ComputingInStep
<1>3. ASSUME NEW v \in Workers, Saved(v), ~InStep(v) PROVE Ending(v)
  <2>1. pc[v] \in {"prev", "write", "end"} => resume[v] \in {"stepEvent", "next"}
    BY DEF Life, NoDetour
  <2> QED
    BY <1>3, <2>1 DEF Saved, InStep, Ending
<1> QED
  BY <1>1, <1>2, <1>3, ComputingInStep DEF Life

(* The steps of executeStep that leave the saved state alone *)
LEMMA LifeHandler ==
  ASSUME LockInv, FrontierInv, Life, NEW w \in Workers
  PROVE  /\ LoadSkip(w) \/ LoadTerminal(w) \/ LoadProceed(w) => Life'
         /\ RunStep(w) \/ Recheck(w) \/ SaveLoadPrevious(w) => Life'
         /\ PublishAgentRuntimeEnd(w) \/ PublishStepComplete(w) => Life'
         /\ ScheduleNext(w) \/ DispatchCompletion(w) => Life'
<1>1. TypeOK /\ w \in Actors /\ op \in State /\ mem[w] \in State
      /\ NoDetour(w) /\ WorksOn(w) /\ (Ending(w) => Over)
  BY DEF LockInv, TypeOK, Actors, Life
<1>2. ASSUME NEW label, pc' = [pc EXCEPT ![w] = label], op' = op,
             UNCHANGED <<queue, job, completed>>,
             mem' = mem \/ \E x : mem' = [mem EXCEPT ![w] = x],
             resume' = resume \/ \E x : resume' = [resume EXCEPT ![w] = x],
             ctx' = ctx \/ \E x : ctx' = [ctx EXCEPT ![w] = x],
             NoDetour(w)', WorksOn(w)',
             Over => ~Computing(w)' /\ (Saved(w)' => Ending(w)'),
             Ending(w)' => Over
      PROVE  Life'
  <2>1. (\A v \in Workers \ {w} : Unmoved(v)) /\ ClientsUnmoved
    BY <1>1, <1>2, OthersUnmoved
  <2>2. \A n \in Nat : Past(n) => Past(n)'
    BY <1>2 DEF Past, QueueBelow
  <2> QED
    BY <1>1, <1>2, <2>1, <2>2, LifeGoesOn DEF Life
<1>3. ASSUME LoadSkip(w) PROVE Life'
  <2>1. pc'[w] = "release200"
    BY <1>1, <1>3 DEF LoadSkip, Goto, TypeOK
  <2> QED
    BY <1>2, <1>3, <2>1, Aside DEF LoadSkip, Goto
<1>4. ASSUME LoadTerminal(w) PROVE Life'
  <2>1. pc'[w] = "next" /\ mem'[w] = op /\ op' = op /\ op.status \in Terminal
    BY <1>1, <1>4 DEF LoadTerminal, Goto, TypeOK
  <2>2. NoDetour(w)' /\ WorksOn(w)' /\ Ending(w)' /\ ~Computing(w)'
    BY <2>1 DEF NoDetour, WorksOn, Ending, Saved, Computing,
                ShouldContinueExecution, Terminal, Active
  <2>3. ASSUME NEW v \in Workers PROVE ~Computing(v) /\ (Saved(v) => Ending(v))
    BY <1>4 DEF LoadTerminal, Life, WorksOn, Ending, ShouldContinueExecution,
                Terminal, Active
  <2>4. Over
    BY <2>1, <2>3 DEF Over
  <2> QED
    BY <1>2, <1>4, <2>2, <2>4 DEF LoadTerminal, Goto
<1>5. ASSUME LoadProceed(w) PROVE Life'
  <2>1. pc'[w] = "run" /\ mem'[w] = op /\ op' = op
    BY <1>1, <1>5 DEF LoadProceed, Goto, TypeOK
  <2>2. op.status \in Active
    <3> PICK F \in Steps, G \in Nat : Frontier(F, G)
      BY DEF FrontierInv
    <3>1. F \in Int
      BY DEF Steps
    <3>2. job[w].step \in Int /\ op.stepCount \in Int
      BY <1>1 DEF TypeOK, Message, Steps, State
    <3>3. op.stepCount <= job[w].step /\ op.status \notin Terminal
      BY <1>5, <3>2 DEF LoadProceed, StepAlreadyCompleted
    <3>4. op.stepCount = G
      BY <3>3 DEF Frontier
    <3>5. job[w].step <= F /\ F <= G
      BY DEF Frontier
    <3>6. G # F + 1
      BY <3>1, <3>2, <3>3, <3>4, <3>5
    <3>7. op.status # "waiting_for_human"
      BY <3>6 DEF Frontier
    <3> QED
      BY <1>1, <3>3, <3>7 DEF State, Status, StreamEnd
  <2>3. ~Over
    <3>1. job[w].step \in Int /\ op.stepCount \in Int
      BY <1>1 DEF TypeOK, Message, Steps, State
    <3> QED
      BY <1>5, <3>1 DEF LoadProceed, StepAlreadyCompleted, Over, Past
  <2>4. NoDetour(w)' /\ WorksOn(w)' /\ ~Ending(w)'
    BY <2>1, <2>2 DEF NoDetour, WorksOn, Ending, Saved
  <2> QED
    BY <1>2, <1>5, <2>3, <2>4 DEF LoadProceed, Goto
<1>6. ASSUME RunStep(w) PROVE Life'
  <2>1. PICK r \in StepResult(mem[w], job[w].step) :
          /\ mem' = [mem EXCEPT ![w] = r.state]
          /\ ctx' = [ctx EXCEPT ![w] = r.next]
    BY <1>6 DEF RunStep
  <2>2. pc'[w] = "recheck" /\ mem'[w] = r.state /\ op' = op
    BY <1>1, <1>6, <2>1 DEF RunStep, Goto, TypeOK
  <2>3. Computing(w) /\ mem[w] = op
    BY <1>1, <1>6 DEF RunStep, Computing, WorksOn
  <2>4. NoDetour(w)' /\ WorksOn(w)' /\ ~Ending(w)'
    BY <1>1, <2>2, <2>3, StepResultType
       DEF NoDetour, WorksOn, Ending, Saved, Computing
  <2> QED
    BY <1>2, <1>6, <2>1, <2>3, <2>4, AloneInStep DEF RunStep, Goto
<1>7. ASSUME Recheck(w) PROVE Life'
  <2>1. Computing(w) /\ pc[w] # "run" /\ op.status \in Active
    BY <1>1, <1>7 DEF Recheck, Computing, WorksOn
  <2>2. mem'[w] = mem[w]
    <3>1. mem'[w] = [mem[w] EXCEPT !.status = mem[w].status]
      BY <1>1, <1>7, <2>1 DEF Recheck, TypeOK, Active
    <3> QED
      BY <1>1, <3>1 DEF State
  <2>3. pc'[w] = "prev" /\ resume'[w] = "stepEvent" /\ op' = op
    BY <1>1, <1>7 DEF Recheck, Goto, TypeOK
  <2>4. NoDetour(w)' /\ WorksOn(w)' /\ ~Ending(w)'
    BY <1>1, <2>1, <2>2, <2>3 DEF NoDetour, WorksOn, Ending, Saved, Computing
  <2>5. \E x : mem' = [mem EXCEPT ![w] = x]
    BY <1>7 DEF Recheck
  <2> QED
    BY <1>2, <1>7, <2>1, <2>4, <2>5, AloneInStep DEF Recheck, Goto
<1>8. ASSUME SaveLoadPrevious(w) PROVE Life'
  <2>1. pc[w] = "prev" /\ pc'[w] = "write" /\ UNCHANGED <<op, mem, resume, ctx>>
    BY <1>1, <1>8 DEF SaveLoadPrevious, Goto, TypeOK
  <2>2. /\ Computing(w)' <=> Computing(w)
        /\ Saved(w)' <=> Saved(w)
        /\ Ending(w)' <=> Ending(w)
    BY <2>1 DEF Computing, Saved, Ending, ShouldContinueExecution
  <2>3. NoDetour(w)' /\ WorksOn(w)'
    BY <1>1, <2>1, <2>2 DEF NoDetour, WorksOn
  <2> QED
    BY <1>1, <1>2, <1>8, <2>2, <2>3 DEF SaveLoadPrevious, Goto, Over
<1>9. ASSUME PublishAgentRuntimeEnd(w) \/ PublishStepComplete(w) PROVE Life'
  <2>1. /\ UNCHANGED <<op, mem, ctx>> /\ Saved(w) /\ Saved(w)'
        /\ ~Computing(w)' /\ NoDetour(w)' /\ pc'[w] # "run"
    BY <1>1, <1>9 DEF PublishAgentRuntimeEnd, PublishStepComplete, Goto, TypeOK,
                      NoDetour, Saved, Computing
  <2>2. Ending(w)' <=> Ending(w)
    BY <2>1 DEF Ending, ShouldContinueExecution
  <2>3. WorksOn(w)'
    BY <1>1, <2>1 DEF WorksOn
  <2>4. \E label : pc' = [pc EXCEPT ![w] = label]
    BY <1>9 DEF PublishAgentRuntimeEnd, PublishStepComplete, Goto
  <2>5. resume' = resume \/ \E x : resume' = [resume EXCEPT ![w] = x]
    BY <1>9 DEF PublishAgentRuntimeEnd, PublishStepComplete
  <2> QED
    BY <1>1, <1>2, <1>9, <2>1, <2>2, <2>3, <2>4, <2>5
    DEF PublishAgentRuntimeEnd, PublishStepComplete, Over
<1>10. ASSUME ScheduleNext(w) \/ DispatchCompletion(w) PROVE Life'
  <2>1. pc[w] = "next" /\ pc'[w] = "release200" /\ op' = op
    BY <1>1, <1>10 DEF ScheduleNext, DispatchCompletion, Goto, TypeOK
  <2>2. (\A v \in Workers \ {w} : Unmoved(v)) /\ ClientsUnmoved
    BY <1>1, <1>10, OthersUnmoved DEF ScheduleNext, DispatchCompletion, Goto
  <2>3. mem[w] = op /\ Saved(w)
    BY <1>1, <2>1 DEF WorksOn, Saved
  <2>4. CASE ScheduleNext(w)
    <3>1. ~Over
      BY <2>3, <2>4 DEF ScheduleNext, Over, Ending
    <3> QED
      BY <1>1, <2>1, <2>2, <2>4, <3>1, Aside, LifeGoesOn DEF ScheduleNext, Life
  <2>5. CASE DispatchCompletion(w)
    <3>1. Over
      BY <1>1, <2>3, <2>5 DEF DispatchCompletion, Ending
    <3>2. completed' \in {completed, DetermineCompletionReason(op)}
      BY <2>3, <2>5 DEF DispatchCompletion, DispatchCompletionHooks
    <3>3. \A n \in Nat : Past(n) => Past(n)'
      BY <2>5 DEF DispatchCompletion, Past, QueueBelow
    <3> QED
      BY <1>1, <2>1, <2>2, <3>1, <3>2, <3>3, Aside, LifeGoesOn
  <2> QED
    BY <1>10, <2>4, <2>5
<1> QED
  BY <1>3, <1>4, <1>5, <1>6, <1>7, <1>8, <1>9, <1>10
(* A save writes what is saved already or, by the only worker that computes,
   the result of its step. *)
LEMMA LifeWrite ==
  ASSUME LockInv, FrontierInv, Life, NEW w \in Workers,
         SaveWrite(w)
  PROVE  Life'
<1> PICK F \in Steps, G \in Nat : Frontier(F, G)
  BY DEF FrontierInv
<1>1. TypeOK /\ w \in Actors /\ op \in State /\ mem[w] \in State /\ F \in Nat
      /\ NoDetour(w) /\ WorksOn(w) /\ (Ending(w) => Over)
  BY BoundsAssumption DEF LockInv, TypeOK, Actors, Life, Steps
<1>2. /\ pc[w] = "write" /\ pc'[w] \in {"end", resume[w]} /\ op' = mem[w]
      /\ UNCHANGED <<queue, job, mem, resume, ctx, completed>>
      /\ resume[w] \in {"stepEvent", "next"}
  BY <1>1 DEF SaveWrite, Goto, TypeOK, NoDetour
<1>3. \E label : pc' = [pc EXCEPT ![w] = label]
  BY DEF SaveWrite, Goto
<1>4. (\A v \in Workers \ {w} : Unmoved(v)) /\ ClientsUnmoved
  BY <1>1, <1>2, <1>3, OthersUnmoved
<1>5. NoDetour(w)' /\ Saved(w)' /\ ~Computing(w)'
  BY <1>2 DEF NoDetour, Saved, Computing
<1>6. CASE resume[w] = "next"
  <2>1. Saved(w) /\ op' = op /\ WorksOn(w)'
    BY <1>1, <1>2, <1>5, <1>6 DEF Saved, WorksOn
  <2>2. Ending(w)' <=> Ending(w)
    BY <1>2, <1>5, <2>1 DEF Ending, ShouldContinueExecution
  <2>3. \A n \in Nat : Past(n) => Past(n)'
    BY <1>2 DEF Past, QueueBelow
  <2>4. Over => Ending(w)
    BY <2>1 DEF Over
  <2> QED
    BY <1>1, <1>2, <1>4, <1>5, <2>1, <2>2, <2>3, <2>4, LifeGoesOn DEF Life
<1>7. CASE resume[w] = "stepEvent"
  <2>1. Computing(w) /\ InStep(w)
    BY <1>2, <1>7 DEF Computing, InStep
  <2>2. /\ completed' = "none"
        /\ \A v \in Workers \ {w} :
             /\ ~Computing(v)' /\ ~Saved(v)' /\ ~Ending(v)'
             /\ NoDetour(v)' /\ WorksOn(v)'
    <3>1. \A v \in Workers \ {w} : ~Computing(v)' /\ ~Saved(v)' /\ NoDetour(v)'
      BY <1>4, <2>1, AloneInStep, UnmovedLabels, UnmovedSaved DEF Life
    <3>2. ASSUME NEW v \in Workers \ {w} PROVE pc'[v] # "run"
      BY <3>1 DEF Computing
    <3> QED
      BY <1>2, <2>1, <3>1, <3>2, AloneInStep DEF WorksOn, Ending
  <2>3. WorksOn(w)'
    BY <1>2, <1>5 DEF WorksOn, Computing
  <2>4. Ending(w)' => Over'
    <3>1. op'.status \notin Terminal => op'.stepCount = F + 1
      BY <1>2, <2>1 DEF Frontier
    <3>2. Past(F)'
      BY <1>2 DEF Past, QueueBelow, Frontier
    <3>3. op'.stepCount = F + 1 => Past(op.stepCount - 1)' /\ op'.stepCount > 0
      <4>1. SUFFICES ASSUME op'.stepCount = F + 1
                     PROVE  op'.stepCount - 1 = F /\ op'.stepCount > 0
        BY <3>2 DEF Past, QueueBelow
      <4> QED
        BY <1>1, <4>1
    <3> QED
      BY <1>5, <2>2, <3>1, <3>3 DEF Over, Ending
  <2> QED
    BY <1>1, <1>4, <1>5, <2>2, <2>3, <2>4 DEF Life, ClientsUnmoved
<1> QED
  BY <1>2, <1>6, <1>7

LEMMA LifeNext ==
  ASSUME LockInv, FrontierInv, Life, [Next]_vars, Undisturbed'
  PROVE  Life'
<1>1. TypeOK
  BY DEF LockInv
<1>2. CASE UNCHANGED vars
  <2>1. \A v \in Workers : Unmoved(v)
    BY <1>2 DEF vars, Unmoved
  <2>2. \A n \in Nat : Past(n) => Past(n)'
    BY <1>2 DEF vars, Past, QueueBelow
  <2> QED
    BY <1>1, <1>2, <2>1, <2>2, LifeGoesOn DEF vars, ClientsUnmoved, Life
<1>3. CASE Next
  BY <1>1, <1>3, RedeliveredNext, LifeDeliver, LifeHandler, LifeWrite DEF Execute
<1> QED
  BY <1>2, <1>3

LEMMA LifeInit == Init => Life
<1> SUFFICES ASSUME Init PROVE Life
  OBVIOUS
<1>1. \A a \in Actors : pc[a] = "off"
  BY DEF Init
<1>2. \A w \in Workers : NoDetour(w) /\ WorksOn(w) /\ ~Ending(w)
  BY <1>1 DEF Actors, NoDetour, WorksOn, Ending, Saved, Computing
<1> QED
  BY <1>1, <1>2 DEF Life, Init, Actors

LEMMA LifeInvariant ==
  Spec => [](Undisturbed => LockInv /\ ContextInv /\ FrontierInv /\ Life)
<1>1. Undisturbed => Covered /\ spent.start = 0
  BY DEF Undisturbed
<1>2. Background /\ (Covered /\ spent.start = 0 => LockInv /\ ContextInv /\ FrontierInv)
        /\ (Undisturbed => Life) /\ [Next]_vars
        => (Undisturbed => Life)'
  BY <1>1, LifeNext, Histories DEF Background
<1> QED
  BY <1>1, <1>2, LifeInit, FrontierInvariant, BackgroundInvariant, PTL DEF Spec

(* Until it is disturbed, whatever is late, killed or delivered twice, the end
   of an operation is final: once a consumer was told that it is over, no step
   of it computes any more. *)
THEOREM CompletionIsFinal == Spec => []NoStepAfterCompletion
<1>1. (Undisturbed => LockInv /\ ContextInv /\ FrontierInv /\ Life)
        => NoStepAfterCompletion
  BY DEF Life, Over, NoStepAfterCompletion
<1> QED
  BY <1>1, LifeInvariant, PTL

-----------------------------------------------------------------------------
(* The refinement: the queue, the lock and the retries disappear. *)

LEMMA OperationInit == Init => Operation!Init
  BY DEF Init, NewState, Operation!Init

(* Only the save of a computed step and the dispatch of the hooks are seen by
   the clients of an operation. *)
LEMMA OperationNext ==
  ASSUME LockInv, FrontierInv, Life, [Next]_vars, Undisturbed'
  PROVE  [Operation!Next]_(Operation!opVars)
<1>1. TypeOK
  BY DEF LockInv
<1> USE DEF Operation!opVars
<1>2. ASSUME op' = op, completed' = completed
      PROVE  [Operation!Next]_(Operation!opVars)
  BY <1>2
<1>3. CASE UNCHANGED vars
  BY <1>2, <1>3 DEF vars
<1>4. CASE Deliver
  BY <1>2, <1>4 DEF Deliver, Claim, DeliveryTimeout, ReleaseStepLock, Crash,
                    Locked, RetryAfter, LockExpire
<1>5. ASSUME NEW w \in Workers, Execute(w)
      PROVE  [Operation!Next]_(Operation!opVars)
  <2>1. WorksOn(w) /\ NoDetour(w) /\ w \in Actors
    BY DEF Life, Actors
  <2>2. CASE DispatchCompletion(w)
    <3>1. mem[w] = op /\ op' = op /\ ~ShouldContinueExecution(w)
      BY <2>1, <2>2 DEF DispatchCompletion, WorksOn, Saved
    <3>2. completed' \in {completed, DetermineCompletionReason(op)}
      BY <2>2, <3>1 DEF DispatchCompletion, DispatchCompletionHooks
    <3>3. CASE completed' = DetermineCompletionReason(op)
      <4>1. Operation!Report
        BY <3>1, <3>3
        DEF Operation!Report, Operation!Ended, DetermineCompletionReason,
            StreamEnd, Terminal
      <4> QED
        BY <4>1 DEF Operation!Next
    <3> QED
      BY <1>2, <3>1, <3>2, <3>3
  <2>3. CASE SaveWrite(w)
    <3>1. pc[w] = "write" /\ op' = mem[w] /\ completed' = completed
      BY <2>3 DEF SaveWrite
    <3>2. CASE resume[w] = "next"
      BY <1>2, <2>1, <3>1, <3>2 DEF WorksOn, Saved
    <3>3. CASE resume[w] = "stepEvent"
      <4>1. Computing(w) /\ op.status \in Active /\ completed = "none"
        BY <2>1, <3>1, <3>3, AloneInStep DEF Computing, WorksOn
      <4>2. \/ op'.status = "done" /\ op'.stepCount = op.stepCount
            \/ /\ op'.status \in StreamEnd \cup {op.status}
               /\ op'.stepCount = op.stepCount + 1
        BY <2>1, <3>1, <4>1 DEF WorksOn
      <4>3. Operation!Advance \/ Operation!Finish
        BY <3>1, <4>1, <4>2
        DEF Operation!Advance, Operation!Finish, Operation!Ended,
            Operation!Running, Active, StreamEnd, Terminal
      <4> QED
        BY <4>3 DEF Operation!Next
    <3> QED
      BY <2>1, <3>1, <3>2, <3>3 DEF NoDetour
  <2>4. CASE ~SaveWrite(w) /\ ~DispatchCompletion(w)
    BY <1>2, <1>5, <2>4
    DEF Execute, LoadSkip, LoadTerminal, LoadProceed, RunStep, Recheck,
        SaveLoadPrevious, PublishAgentRuntimeEnd, PublishStepComplete,
        ScheduleNext
  <2> QED
    BY <2>2, <2>3, <2>4
<1> QED
  BY <1>1, <1>3, <1>4, <1>5, RedeliveredNext

(* A behaviour that is not disturbed is one of AgentOperation: with at least one
   delivery per message, late answers, retries and killed workers the operation
   still advances step by step from one active state to the next, ends once,
   and reports to its consumers no other end than the one it has come to. *)
THEOREM StepsImplementOperation == Spec /\ []Undisturbed => ImplementsOperation
<1>1. (Undisturbed => LockInv /\ ContextInv /\ FrontierInv /\ Life) /\ Undisturbed
        /\ Undisturbed' /\ [Next]_vars
        => [Operation!Next]_(Operation!opVars)
  BY OperationNext
<1> QED
  BY <1>1, OperationInit, LifeInvariant, PTL
     DEF Spec, ImplementsOperation, Operation!Spec
-----------------------------------------------------------------------------
(***************************************************************************)
(* Nothing is lost.  As long as the consumers have not been told, either   *)
(* some worker is past the point where a kill or a refusal could stop it,  *)
(* or there is one chain of deliveries of the step F that comes next, and  *)
(* the retries it has left outlast the kills that may still come: a kill   *)
(* costs the chain two of them, one for the invocation that died and one   *)
(* for the delivery that then finds the dead worker's lock.                *)
(***************************************************************************)

(* All this is about operations that are Mendable: Redis has answered in every
   catch block, who was killed had not saved its step, and the retries make up
   for the kills. *)

(* The worker may still be killed, or is refused work it has not begun. *)
Attempting(w) == pc[w] = "load" \/ Computing(w)

(* It will schedule the next step or tell the consumers. *)
Committed(w) ==
  /\ pc[w] \notin {"off", "load", "release200", "release500"}
  /\ ~Computing(w)

NoCopy(s) == \A m \in Message : m.step = s => queue[m] = 0

OneCopy(x) ==
  /\ queue[x] = 1
  /\ \A m \in Message : m.step = x.step /\ m # x => queue[m] = 0

(* The retries the chain must have left: two for each kill that may come *)
Reserve == Retries - 2 * spent.crash

(* The delivery waits; a lock that nobody holds will cost it a retry. *)
Queued(F) ==
  /\ \A w \in Workers : Executing(w) => job[w].step # F
  /\ \E m \in Message :
       /\ m.step = F /\ OneCopy(m) /\ m.left >= Reserve
       /\ m.cooled /\ F \in lock => m.left >= Reserve + 1

(* A worker attempts the step and its answer is awaited. *)
Answering(F, w) ==
  /\ Attempting(w) /\ job[w].step = F /\ live[w]
  /\ job[w].left >= Reserve /\ NoCopy(F)

(* Its answer was late: the retry is already in the queue, and may even be
   used up if no kill can come any more. *)
Late(F, w) ==
  /\ Attempting(w) /\ job[w].step = F /\ ~live[w]
  /\ \/ Reserve < 2 /\ NoCopy(F)
     \/ \E m \in Message :
          /\ m.step = F /\ OneCopy(m) /\ m.left >= Reserve - 2
          /\ m.cooled => m.left >= Reserve - 1

Chain(F) == Queued(F) \/ \E w \in Workers : Answering(F, w) \/ Late(F, w)

OnlineExecutes == \A w \in Workers : live[w] => Executing(w)

HooksPresent == op.hooks /\ \A a \in Actors : mem[a].hooks

KeysBelow(F) == \A s \in lock : s <= F

InHand(F, G) ==
  /\ Frontier(F, G) /\ KeysBelow(F)
  /\ \/ completed # "none"
     \/ \E w \in Workers : Committed(w)
     \/ G = F /\ Chain(F)

InHandInv == \E F \in Steps, G \in Nat : InHand(F, G)

-----------------------------------------------------------------------------
(* What the queue operations do to the copies of one step *)

LEMMA TakeCopy ==
  ASSUME queue \in [Message -> Nat], NEW x \in Message, OneCopy(x)
  PROVE  /\ Take(x) \in [Message -> Nat]
         /\ \A m \in Message : m.step = x.step => Take(x)[m] = 0
<1>1. queue[x] = 1
  BY DEF OneCopy
<1>2. Take(x) \in [Message -> Nat]
  BY <1>1, BagRemove DEF Take
<1>3. Take(x)[x] = 0
  BY <1>1 DEF Take
<1>4. ASSUME NEW m \in Message, m.step = x.step, m # x PROVE Take(x)[m] = 0
  BY <1>4 DEF Take, OneCopy
<1> QED
  BY <1>2, <1>3, <1>4

LEMMA AddCopy ==
  ASSUME NEW q \in [Message -> Nat], NEW k \in Message,
         \A m \in Message : m.step = k.step => q[m] = 0,
         queue' = [q EXCEPT ![k] = @ + 1]
  PROVE  OneCopy(k)'
<1>1. q[k] = 0 /\ queue'[k] = 1
  OBVIOUS
<1>2. ASSUME NEW m \in Message, m.step = k.step, m # k PROVE queue'[m] = 0
  BY <1>2
<1> QED
  BY <1>1, <1>2 DEF OneCopy

(* A retry: the copy with one retry less, or nothing when none is left *)
LEMMA RetryCopy ==
  ASSUME NEW q \in [Message -> Nat], NEW x \in Message, NEW cool \in BOOLEAN,
         \A m \in Message : m.step = x.step => q[m] = 0,
         queue' = Retry(q, x, cool)
  PROVE  /\ x.left = 0 => NoCopy(x.step)'
         /\ x.left > 0 => \E k \in Message :
              /\ k.step = x.step /\ k.left = x.left - 1 /\ k.cooled = cool
              /\ OneCopy(k)'
<1>1. ASSUME x.left = 0 PROVE NoCopy(x.step)'
  <2>1. queue' = q
    BY <1>1 DEF Retry
  <2> QED
    BY <2>1 DEF NoCopy
<1>2. ASSUME x.left > 0
      PROVE  \E k \in Message :
               /\ k.step = x.step /\ k.left = x.left - 1 /\ k.cooled = cool
               /\ OneCopy(k)'
  <2> DEFINE k == [x EXCEPT !.left = @ - 1, !.cooled = cool]
  <2>1. x.left - 1 \in 0..Retries
    BY <1>2, BoundsAssumption DEF Message
  <2>2. /\ k \in Message /\ k.step = x.step /\ k.left = x.left - 1
        /\ k.cooled = cool
    BY <2>1 DEF Message
  <2>3. queue' = [q EXCEPT ![k] = @ + 1]
    BY <1>2 DEF Retry
  <2> HIDE DEF k
  <2>4. OneCopy(k)'
    BY <2>2, <2>3, AddCopy
  <2> QED
    BY <2>2, <2>4
<1> QED
  BY <1>1, <1>2

(* Nothing that happens to the messages of other steps matters. *)
SameCopies(F) == \A m \in Message : m.step = F => queue'[m] = queue[m]

LEMMA OtherCopies ==
  ASSUME queue \in [Message -> Nat], NEW F, NEW x \in Message, x.step # F,
         NEW cool \in BOOLEAN
  PROVE  /\ queue' = Take(x) => SameCopies(F)
         /\ queue' = Retry(queue, x, cool) => SameCopies(F)
         /\ queue[x] > 0 /\ queue' = Retry(Take(x), x, cool) => SameCopies(F)
         /\ queue[x] > 0 /\ queue' = [Take(x) EXCEPT ![[x EXCEPT !.cooled = cool]] = @ + 1]
              => SameCopies(F)
<1> DEFINE k == [x EXCEPT !.left = @ - 1, !.cooled = cool]
           c == [x EXCEPT !.cooled = cool]
<1>1. k.step = x.step /\ c.step = x.step
  BY DEF Message
<1>2. ASSUME NEW q \in [Message -> Nat] , queue' = Retry(q, x, cool),
             \A m \in Message : m.step = F => q[m] = queue[m]
      PROVE  SameCopies(F)
  <2>1. queue' = q \/ queue' = [q EXCEPT ![k] = @ + 1]
    BY <1>2 DEF Retry
  <2> HIDE DEF k
  <2> QED
    BY <1>1, <1>2, <2>1 DEF SameCopies
<1>3. \A m \in Message : m.step = F => Take(x)[m] = queue[m]
  BY DEF Take
<1>4. queue[x] > 0 => Take(x) \in [Message -> Nat]
  BY BagRemove DEF Take
<1>5. ASSUME queue[x] > 0, queue' = [Take(x) EXCEPT ![c] = @ + 1]
      PROVE  SameCopies(F)
  <2> HIDE DEF c
  <2> QED
    BY <1>1, <1>3, <1>4, <1>5 DEF SameCopies
<1> QED
  BY <1>2, <1>3, <1>4, <1>5 DEF SameCopies

LEMMA CopiesStay ==
  ASSUME NEW F, SameCopies(F)
  PROVE  /\ NoCopy(F) => NoCopy(F)'
         /\ \A m \in Message : m.step = F /\ OneCopy(m) => OneCopy(m)'
  BY DEF SameCopies, NoCopy, OneCopy
(* Clients do not touch a worker, a lock or a delivery. *)
LEMMA ClientsAside ==
  ASSUME TypeOK, Cancel \/ Start
  PROVE  /\ UNCHANGED <<lock, job, live, ctx, completed>>
         /\ spent'.crash = spent.crash
         /\ \A v \in Workers : pc'[v] = pc[v] /\ resume'[v] = resume[v]
<1>1. Canceller \in Actors /\ Starter \in Actors
  BY DEF Actors
<1>2. ASSUME NEW a \in {Canceller, Starter}, Save(a)
      PROVE  /\ UNCHANGED <<lock, job, live, ctx, completed, spent, resume>>
             /\ \A v \in Workers : pc'[v] = pc[v]
  BY <1>1, <1>2, ActorsAssumption
  DEF Save, SaveLoadPrevious, SaveWrite, PublishAgentRuntimeEnd, Goto, TypeOK,
      Actors
<1>3. ASSUME NEW a \in {Canceller, Starter}, NEW s, NEW label,
             BeginSave(a, s, label)
      PROVE  /\ UNCHANGED <<lock, job, live, ctx, completed>>
             /\ \A v \in Workers : pc'[v] = pc[v] /\ resume'[v] = resume[v]
  BY <1>1, <1>3, ActorsAssumption DEF BeginSave, Goto, TypeOK, Actors
<1>4. CASE InterruptOperation \/ StartExecution
  <2>1. spent'.crash = spent.crash
    BY <1>4 DEF InterruptOperation, StartExecution, Spend, TypeOK, Budget
  <2> QED
    BY <1>3, <1>4, <2>1 DEF InterruptOperation, StartExecution
<1>5. CASE ReturnInterrupted \/ ScheduleStart
  BY <1>1, <1>5, ActorsAssumption
  DEF ReturnInterrupted, ScheduleStart, Goto, TypeOK, Actors
<1> QED
  BY <1>2, <1>4, <1>5 DEF Cancel, Start

LEMMA LockShrinks ==
  ASSUME TypeOK, [Next]_vars, ~ \E w \in Workers : \E m \in Message : Claim(w, m)
  PROVE  lock' \subseteq lock
<1>1. CASE Cancel \/ Start
  BY <1>1, ClientsAside
<1>2. ASSUME NEW w \in Workers, ReleaseStepLock(w) \/ Crash(w)
      PROVE  lock' \subseteq lock
  BY <1>2 DEF ReleaseStepLock, Crash
<1>3. ASSUME NEW a \in Actors, Save(a) \/ Throw(a) PROVE lock' \subseteq lock
  BY <1>3 DEF Save, SaveLoadPrevious, SaveWrite, PublishAgentRuntimeEnd, Throw
<1>4. ASSUME NEW w \in Workers,
             \/ LoadSkip(w) \/ LoadTerminal(w) \/ LoadProceed(w) \/ RunStep(w)
             \/ Recheck(w) \/ PublishStepComplete(w) \/ ScheduleNext(w)
             \/ DispatchCompletion(w) \/ CatchLoad(w) \/ CatchFallback(w)
             \/ DispatchError(w) \/ DeliveryTimeout(w)
      PROVE  lock' \subseteq lock
  BY <1>4
  DEF LoadSkip, LoadTerminal, LoadProceed, RunStep, Recheck,
      PublishStepComplete, ScheduleNext, DispatchCompletion, CatchLoad,
      CatchFallback, SaveErrorState, DispatchError, DeliveryTimeout
<1>5. ASSUME \/ \E m \in Message : Locked(m) \/ RetryAfter(m)
             \/ \E s \in Steps : LockExpire(s)
             \/ UNCHANGED vars
      PROVE  lock' \subseteq lock
  BY <1>5 DEF Locked, RetryAfter, LockExpire, vars
<1> QED
  BY <1>1, <1>2, <1>3, <1>4, <1>5 DEF Next, Handle, Actors
-----------------------------------------------------------------------------
(* Three invariants of their own *)

(* QStash waits for the answer of a running invocation only. *)
LEMMA OnlineNext ==
  ASSUME TypeOK, ResumeInv, OnlineExecutes, [Next]_vars
  PROVE  OnlineExecutes'
<1> USE DEF OnlineExecutes, Executing
<1>1. ASSUME live' = live, \A w \in Workers : Executing(w) => Executing(w)'
      PROVE  OnlineExecutes'
  BY <1>1
<1>2. ASSUME NEW w \in Workers, NEW m \in Message, Claim(w, m)
      PROVE  OnlineExecutes'
  BY <1>2 DEF Claim, Goto, TypeOK, Actors
<1>3. ASSUME NEW w \in Workers, ReleaseStepLock(w) \/ Crash(w)
      PROVE  OnlineExecutes'
  <2>1. Leave(w)
    BY <1>3 DEF ReleaseStepLock, Crash
  <2> QED
    BY <2>1 DEF Leave, Goto, TypeOK, Actors
<1>4. ASSUME NEW w \in Workers, DeliveryTimeout(w) PROVE OnlineExecutes'
  BY <1>4 DEF DeliveryTimeout, TypeOK
<1>5. ASSUME NEW w \in Workers,
             \/ LoadSkip(w) \/ LoadTerminal(w) \/ LoadProceed(w) \/ RunStep(w)
             \/ Recheck(w) \/ PublishStepComplete(w) \/ ScheduleNext(w)
             \/ DispatchCompletion(w) \/ CatchLoad(w) \/ CatchFallback(w)
             \/ DispatchError(w)
      PROVE  OnlineExecutes'
  <2>1. live' = live /\ \A v \in Workers : Executing(v) => Executing(v)'
    BY <1>5
    DEF LoadSkip, LoadTerminal, LoadProceed, RunStep, Recheck,
        PublishStepComplete, ScheduleNext, DispatchCompletion, CatchLoad,
        CatchFallback, SaveErrorState, DispatchError, Goto, TypeOK, Actors
  <2> QED
    BY <1>1, <2>1
<1>6. ASSUME NEW w \in Workers, Save(w) PROVE OnlineExecutes'
  <2>1. pc[w] \in {"prev", "write", "end"} => resume[w] # "off"
    BY DEF ResumeInv
  <2>2. live' = live /\ \A v \in Workers : Executing(v) => Executing(v)'
    BY <1>6, <2>1 DEF Save, SaveLoadPrevious, SaveWrite, PublishAgentRuntimeEnd,
                      Goto, TypeOK, Actors
  <2> QED
    BY <1>1, <2>2
<1>7. ASSUME NEW a \in Actors, Throw(a) PROVE OnlineExecutes'
  <2>1. live' = live /\ \A v \in Workers : Executing(v) => Executing(v)'
    BY <1>7 DEF Throw, Goto, TypeOK, Actors
  <2> QED
    BY <1>1, <2>1
<1>8. ASSUME Cancel \/ Start PROVE OnlineExecutes'
  <2>1. live' = live /\ \A v \in Workers : pc'[v] = pc[v]
    BY <1>8, ClientsAside
  <2> QED
    BY <1>1, <2>1
<1>9. CASE UNCHANGED vars
  BY <1>1, <1>9 DEF vars
<1>10. ASSUME NEW m \in Message, Locked(m) \/ RetryAfter(m) PROVE OnlineExecutes'
  BY <1>1, <1>10 DEF Locked, RetryAfter
<1>11. ASSUME NEW s \in Steps, LockExpire(s) PROVE OnlineExecutes'
  BY <1>1, <1>11 DEF LockExpire
<1> QED
  BY <1>2, <1>3, <1>4, <1>5, <1>6, <1>7, <1>8, <1>9, <1>10, <1>11
  DEF Next, Handle

(* Every state record still carries the operation's hooks. *)
LEMMA HooksNext ==
  ASSUME Mendable', TypeOK, HooksPresent, [Next]_vars
  PROVE  HooksPresent'
<1> USE DEF HooksPresent, TypeOK
<1>1. ASSUME op' = op \/ \E a \in Actors : op' = mem[a],
             \A a \in Actors : mem'[a] = mem[a] \/ mem'[a].hooks
      PROVE  HooksPresent'
  BY <1>1
<1>2. ASSUME NEW a \in Actors, NEW s, s.hooks, op' = op,
             mem' = [mem EXCEPT ![a] = s]
      PROVE  HooksPresent'
  BY <1>1, <1>2
<1>3. \A status : [op EXCEPT !.status = status].hooks
  BY DEF State
<1>4. ASSUME NEW w \in Workers, Leave(w), op' = op PROVE HooksPresent'
  BY <1>2, <1>4 DEF Leave, NewState, Actors
<1>5. ASSUME NEW w \in Workers, RunStep(w) PROVE HooksPresent'
  <2>1. PICK r \in StepResult(mem[w], job[w].step) :
          mem' = [mem EXCEPT ![w] = r.state]
    BY <1>5 DEF RunStep
  <2>2. r.state.hooks
    BY StepResultType DEF Actors
  <2> QED
    BY <1>2, <1>5, <2>1, <2>2 DEF RunStep, Actors
<1>6. ASSUME NEW w \in Workers, Recheck(w) PROVE HooksPresent'
  <2> DEFINE x == IF op.status = "interrupted" THEN "interrupted"
                                               ELSE mem[w].status
             s == [mem[w] EXCEPT !.status = x]
  <2>1. mem' = [mem EXCEPT ![w] = s]
    BY <1>6 DEF Recheck, Actors
  <2>2. s.hooks
    BY DEF Actors, State
  <2> HIDE DEF s
  <2> QED
    BY <1>2, <1>6, <2>1, <2>2 DEF Recheck, Actors
<1>7. ASSUME NEW w \in Workers, CatchLoad(w) \/ CatchFallback(w)
      PROVE  HooksPresent'
  <2>1. ~CatchFallback(w)
    BY Unspent DEF CatchFallback, Mendable, Kinds
  <2> DEFINE s == [op EXCEPT !.status = "error"]
  <2>2. mem' = [mem EXCEPT ![w] = s] /\ s.hooks /\ op' = op
    BY <1>3, <1>7, <2>1 DEF CatchLoad, SaveErrorState
  <2> HIDE DEF s
  <2> QED
    BY <1>2, <2>2 DEF Actors
<1>8. ASSUME NEW a \in Actors, NEW status, NEW continue,
             BeginSave(a, [op EXCEPT !.status = status], continue)
      PROVE  HooksPresent'
  BY <1>2, <1>3, <1>8 DEF BeginSave
<1>9. ASSUME NEW a \in Actors, Save(a) \/ Throw(a) PROVE HooksPresent'
  <2>1. mem' = mem /\ (op' = op \/ op' = mem[a])
    BY <1>9 DEF Save, SaveLoadPrevious, SaveWrite, PublishAgentRuntimeEnd, Throw
  <2> QED
    BY <1>1, <2>1
<1>10. CASE Cancel \/ Start
  BY <1>1, <1>8, <1>9, <1>10
  DEF Cancel, Start, InterruptOperation, StartExecution, ReturnInterrupted,
      ScheduleStart, Actors
<1>11. ASSUME NEW w \in Workers,
              \/ \E m \in Message : Claim(w, m)
              \/ LoadSkip(w) \/ LoadTerminal(w) \/ LoadProceed(w)
              \/ PublishStepComplete(w) \/ ScheduleNext(w)
              \/ DispatchCompletion(w) \/ DispatchError(w) \/ DeliveryTimeout(w)
       PROVE  HooksPresent'
  <2>1. op' = op /\ (mem' = mem \/ mem' = [mem EXCEPT ![w] = op])
    BY <1>11
    DEF Claim, LoadSkip, LoadTerminal, LoadProceed, PublishStepComplete,
        ScheduleNext, DispatchCompletion, DispatchError, DeliveryTimeout
  <2> QED
    BY <1>1, <1>2, <2>1 DEF Actors
<1>12. ASSUME NEW w \in Workers, ReleaseStepLock(w) \/ Crash(w)
       PROVE  HooksPresent'
  BY <1>4, <1>12 DEF ReleaseStepLock, Crash
<1>13. ASSUME \/ \E m \in Message : Locked(m) \/ RetryAfter(m)
              \/ \E s \in Steps : LockExpire(s)
              \/ UNCHANGED vars
       PROVE  HooksPresent'
  BY <1>1, <1>13 DEF Locked, RetryAfter, LockExpire, vars
<1> QED
  BY <1>5, <1>6, <1>7, <1>9, <1>10, <1>11, <1>12, <1>13 DEF Next, Handle, Actors

(* Only steps that were scheduled are ever locked. *)
LEMMA KeysNext ==
  ASSUME TypeOK, NEW F \in Steps, NEW F2 \in Steps, F <= F2, QueueBelow(F),
         KeysBelow(F), [Next]_vars
  PROVE  KeysBelow(F2)'
<1>1. \A s \in lock : s <= F2
  BY BoundsAssumption DEF TypeOK, Steps, KeysBelow
<1>2. ASSUME lock' \subseteq lock PROVE KeysBelow(F2)'
  BY <1>1, <1>2 DEF KeysBelow
<1>3. ASSUME NEW w \in Workers, NEW m \in Message, Claim(w, m)
      PROVE  KeysBelow(F2)'
  <2>1. m.step <= F /\ m.step \in Steps
    BY <1>3 DEF Claim, Deliverable, QueueBelow, Message
  <2>2. m.step <= F2
    BY <2>1, BoundsAssumption DEF Steps
  <2>3. lock' \subseteq lock \cup {m.step}
    BY <1>3 DEF Claim, TryClaimStep
  <2> QED
    BY <1>1, <2>2, <2>3 DEF KeysBelow
<1>4. CASE ~ \E w \in Workers : \E m \in Message : Claim(w, m)
  <2>1. lock' \subseteq lock
    BY <1>4, LockShrinks
  <2> QED
    BY <1>2, <2>1
<1> QED
  BY <1>3, <1>4
-----------------------------------------------------------------------------
(* A committed worker *)

(* Once told, always told. *)
LEMMA ToldStays ==
  ASSUME TypeOK, completed # "none", [Next]_vars
  PROVE  completed' # "none"
<1>1. \A s : DetermineCompletionReason(s) # "none"
  BY DEF DetermineCompletionReason, StreamEnd, Terminal
<1>2. ASSUME NEW w \in Workers, DispatchCompletion(w) \/ DispatchError(w)
      PROVE  completed' # "none"
  <2>1. completed' \in {completed, "error", DetermineCompletionReason(mem[w])}
    BY <1>2 DEF DispatchCompletion, DispatchError, DispatchCompletionHooks
  <2> QED
    BY <1>1, <2>1
<1>3. CASE Cancel \/ Start
  BY <1>3, ClientsAside
<1>4. ASSUME NEW w \in Workers,
             \/ \E m \in Message : Claim(w, m)
             \/ LoadSkip(w) \/ LoadTerminal(w) \/ LoadProceed(w) \/ RunStep(w)
             \/ Recheck(w) \/ PublishStepComplete(w) \/ ScheduleNext(w)
             \/ CatchLoad(w) \/ CatchFallback(w) \/ DeliveryTimeout(w)
             \/ ReleaseStepLock(w) \/ Crash(w)
      PROVE  completed' = completed
  BY <1>4
  DEF Claim, LoadSkip, LoadTerminal, LoadProceed, RunStep, Recheck,
      PublishStepComplete, ScheduleNext, CatchLoad, CatchFallback,
      SaveErrorState, DeliveryTimeout, ReleaseStepLock, Crash
<1>5. ASSUME \/ \E a \in Actors : Save(a) \/ Throw(a)
             \/ \E m \in Message : Locked(m) \/ RetryAfter(m)
             \/ \E s \in Steps : LockExpire(s)
             \/ UNCHANGED vars
      PROVE  completed' = completed
  BY <1>5 DEF Save, SaveLoadPrevious, SaveWrite, PublishAgentRuntimeEnd, Throw,
              Locked, RetryAfter, LockExpire, vars
<1> QED
  BY <1>2, <1>3, <1>4, <1>5 DEF Next, Handle, Actors

(* What another actor does leaves a worker where it is. *)
LEMMA OthersStay ==
  ASSUME TypeOK, NEW w \in Workers, NEW a \in Actors, a # w,
         \/ Save(a) \/ Throw(a)
         \/ /\ a \in Workers
            /\ \/ \E m \in Message : Claim(a, m)
               \/ LoadSkip(a) \/ LoadTerminal(a) \/ LoadProceed(a) \/ RunStep(a)
               \/ Recheck(a) \/ PublishStepComplete(a) \/ ScheduleNext(a)
               \/ DispatchCompletion(a) \/ CatchLoad(a) \/ CatchFallback(a)
               \/ DispatchError(a) \/ DeliveryTimeout(a)
               \/ ReleaseStepLock(a) \/ Crash(a)
  PROVE  pc'[w] = pc[w] /\ resume'[w] = resume[w]
<1>1. w \in Actors
  BY DEF Actors
<1>2. CASE Save(a) \/ Throw(a)
  BY <1>1, <1>2 DEF Save, SaveLoadPrevious, SaveWrite, PublishAgentRuntimeEnd,
                    Throw, Goto, TypeOK
<1>3. ASSUME a \in Workers,
             \/ \E m \in Message : Claim(a, m)
             \/ LoadSkip(a) \/ LoadTerminal(a) \/ LoadProceed(a) \/ RunStep(a)
             \/ Recheck(a) \/ PublishStepComplete(a) \/ ScheduleNext(a)
             \/ DispatchCompletion(a) \/ CatchLoad(a) \/ CatchFallback(a)
             \/ DispatchError(a) \/ DeliveryTimeout(a)
      PROVE  pc'[w] = pc[w] /\ resume'[w] = resume[w]
  BY <1>1, <1>3
  DEF Claim, LoadSkip, LoadTerminal, LoadProceed, RunStep, Recheck,
      PublishStepComplete, ScheduleNext, DispatchCompletion, CatchLoad,
      CatchFallback, SaveErrorState, DispatchError, DeliveryTimeout, Goto, TypeOK
<1>4. ASSUME a \in Workers, ReleaseStepLock(a) \/ Crash(a)
      PROVE  pc'[w] = pc[w] /\ resume'[w] = resume[w]
  BY <1>1, <1>4 DEF ReleaseStepLock, Crash, Leave, Goto, TypeOK
<1> QED
  BY <1>2, <1>3, <1>4

(* A committed worker stays one until it schedules the next step or tells the
   consumers: no kill hits it, and a call of its that is rejected leads to the
   catch block, which reports the error. *)
LEMMA CommittedNext ==
  ASSUME Mendable', TypeOK, HooksPresent, FrontierInv, NEW w \in Workers,
         Committed(w), [Next]_vars
  PROVE  Committed(w)' \/ completed' # "none" \/ ScheduleNext(w)
<1>1. /\ w \in Actors /\ mem[w].hooks
      /\ pc[w] \notin {"off", "load", "run", "recheck", "release200",
                       "release500", "enqueue", "ack"}
      /\ pc[w] \in {"prev", "write"} => resume[w] \in {"next", "fail"}
      /\ pc[w] = "end" => resume[w] \in {"stepEvent", "next", "fail"}
  BY DEF Actors, HooksPresent, Committed, Computing, FrontierInv, Frontier
<1>2. ASSUME pc'[w] = pc[w] /\ resume'[w] = resume[w] PROVE Committed(w)'
  BY <1>2 DEF Committed, Computing
<1>3. ASSUME pc'[w] \in {"end", "stepEvent", "next", "catch", "fail"}
      PROVE  Committed(w)'
  BY <1>3 DEF Committed, Computing
<1>4. ASSUME NEW a \in Actors, Save(a) PROVE Committed(w)'
  <2>1. CASE a # w
    BY <1>2, <1>4, <2>1, OthersStay
  <2>2. CASE SaveLoadPrevious(w)
    BY <1>1, <2>2 DEF SaveLoadPrevious, Goto, TypeOK, Committed, Computing
  <2>3. CASE SaveWrite(w) \/ PublishAgentRuntimeEnd(w)
    BY <1>1, <1>3, <2>3 DEF SaveWrite, PublishAgentRuntimeEnd, Goto, TypeOK
  <2> QED
    BY <1>4, <2>1, <2>2, <2>3 DEF Save
<1>5. ASSUME NEW a \in Actors, Throw(a) PROVE Committed(w)'
  <2>1. CASE a # w
    BY <1>2, <1>5, <2>1, OthersStay
  <2>2. CASE a = w
    BY <1>1, <1>3, <1>5, <2>2 DEF Throw, Goto, TypeOK
  <2> QED
    BY <2>1, <2>2
<1>6. ASSUME NEW v \in Workers,
             \/ \E m \in Message : Claim(v, m)
             \/ LoadSkip(v) \/ LoadTerminal(v) \/ LoadProceed(v) \/ RunStep(v)
             \/ Recheck(v) \/ PublishStepComplete(v) \/ ScheduleNext(v)
             \/ DispatchCompletion(v) \/ CatchLoad(v) \/ CatchFallback(v)
             \/ DispatchError(v) \/ DeliveryTimeout(v)
             \/ ReleaseStepLock(v) \/ Crash(v)
      PROVE  Committed(w)' \/ completed' # "none" \/ ScheduleNext(w)
  <2>1. CASE v # w
    BY <1>2, <1>6, <2>1, OthersStay DEF Actors
  <2>2. CASE DispatchCompletion(w) \/ DispatchError(w)
    <3>1. completed' \in {"error", DetermineCompletionReason(mem[w])}
      BY <1>1, <2>2
      DEF DispatchCompletion, DispatchError, DispatchCompletionHooks
    <3> QED
      BY <3>1 DEF DetermineCompletionReason, StreamEnd, Terminal
  <2>3. CASE PublishStepComplete(w)
    BY <2>3, <1>1 DEF PublishStepComplete, Goto, TypeOK, Committed, Computing
  <2>4. CASE CatchLoad(w) \/ CatchFallback(w)
    BY <2>4, <1>1 DEF CatchLoad, CatchFallback, SaveErrorState, Goto, TypeOK,
                      Committed, Computing
  <2>5. CASE DeliveryTimeout(w)
    BY <1>2, <2>5 DEF DeliveryTimeout
  <2>6. ~Crash(w)
    <3>1. ~Spend("late")
      BY Unspent DEF Mendable, Kinds
    <3> QED
      BY <1>1, <3>1 DEF Crash, Committed
  <2>7. /\ ~LoadSkip(w) /\ ~LoadTerminal(w) /\ ~LoadProceed(w) /\ ~RunStep(w)
        /\ ~Recheck(w) /\ ~ReleaseStepLock(w)
        /\ \A m \in Message : ~Claim(w, m)
    BY <1>1 DEF LoadSkip, LoadTerminal, LoadProceed, RunStep, Recheck,
                ReleaseStepLock, Claim
  <2> QED
    BY <1>6, <2>1, <2>2, <2>3, <2>4, <2>5, <2>6, <2>7
<1>7. ASSUME \/ \E m \in Message : Locked(m) \/ RetryAfter(m)
             \/ \E s \in Steps : LockExpire(s)
             \/ UNCHANGED vars
      PROVE  Committed(w)'
  BY <1>2, <1>7 DEF Locked, RetryAfter, LockExpire, vars
<1>8. CASE Cancel \/ Start
  BY <1>2, <1>8, ClientsAside
<1> QED
  BY <1>4, <1>5, <1>6, <1>7, <1>8 DEF Next, Handle, Actors
-----------------------------------------------------------------------------
(* The chain of deliveries *)

(* What does not concern step F leaves its chain as it is; a kill elsewhere
   only lowers what the chain must have in reserve. *)
LEMMA ChainStays ==
  ASSUME TypeOK, TypeOK', NEW F \in Steps, Chain(F), SameCopies(F),
         spent.crash <= spent'.crash, F \in lock' => F \in lock,
         \A v \in Workers : Executing(v)' /\ job'[v].step = F =>
                              Executing(v) /\ job[v].step = F,
         \A v \in Workers : Attempting(v) /\ job[v].step = F =>
                              Attempting(v)' /\ job'[v] = job[v] /\ live'[v] = live[v]
  PROVE  Chain(F)'
<1>1. /\ spent.crash \in Int /\ spent'.crash \in Int /\ Retries \in Int
      /\ \A m \in Message : m.left \in Int
      /\ \A v \in Workers : job[v] \in Message
  BY BoundsAssumption DEF TypeOK, Budget, Message
<1>2. Reserve \in Int /\ Reserve' \in Int /\ Reserve' <= Reserve
  BY <1>1 DEF Reserve
<1>3. CASE Queued(F)
  <2>1. PICK m \in Message :
          /\ m.step = F /\ OneCopy(m) /\ m.left >= Reserve
          /\ m.cooled /\ F \in lock => m.left >= Reserve + 1
    BY <1>3 DEF Queued
  <2>2. OneCopy(m)'
    BY <2>1, CopiesStay
  <2>3. m.left >= Reserve' /\ (m.cooled /\ F \in lock' => m.left >= Reserve' + 1)
    BY <1>1, <1>2, <2>1
  <2>4. \A v \in Workers : Executing(v)' => job'[v].step # F
    BY <1>3 DEF Queued
  <2>5. Queued(F)'
    BY <2>1, <2>2, <2>3, <2>4 DEF Queued
  <2> QED
    BY <2>5 DEF Chain
<1>4. ASSUME NEW w \in Workers, Answering(F, w) PROVE Chain(F)'
  <2>1. Attempting(w)' /\ job'[w] = job[w] /\ live'[w] = live[w]
    BY <1>4 DEF Answering
  <2>2. job[w].left >= Reserve' /\ NoCopy(F)'
    BY <1>1, <1>2, <1>4, CopiesStay DEF Answering
  <2>3. Answering(F, w)'
    BY <1>4, <2>1, <2>2 DEF Answering
  <2> QED
    BY <2>3 DEF Chain
<1>5. ASSUME NEW w \in Workers, Late(F, w) PROVE Chain(F)'
  <2>1. Attempting(w)' /\ job'[w] = job[w] /\ live'[w] = live[w]
    BY <1>5 DEF Late
  <2>2. CASE Reserve < 2 /\ NoCopy(F)
    <3>1. Reserve' < 2 /\ NoCopy(F)'
      BY <1>2, <2>2, CopiesStay
    <3>2. Late(F, w)'
      BY <1>5, <2>1, <3>1 DEF Late
    <3> QED
      BY <3>2 DEF Chain
  <2>3. ASSUME NEW m \in Message, m.step = F, OneCopy(m), m.left >= Reserve - 2,
               m.cooled => m.left >= Reserve - 1
        PROVE  Chain(F)'
    <3>1. OneCopy(m)'
      BY <2>3, CopiesStay
    <3>2. m.left >= Reserve' - 2 /\ (m.cooled => m.left >= Reserve' - 1)
      BY <1>1, <1>2, <2>3
    <3>3. Late(F, w)'
      BY <1>5, <2>1, <2>3, <3>1, <3>2 DEF Late
    <3> QED
      BY <3>3 DEF Chain
  <2> QED
    BY <1>5, <2>2, <2>3 DEF Late
<1> QED
  BY <1>3, <1>4, <1>5 DEF Chain

(* Only the chain's own worker executes step F; while its delivery waits,
   nobody does. *)
LEMMA ChainWorker ==
  ASSUME LockInv, NEW F \in Steps, Chain(F), NEW w \in Workers, Executing(w),
         job[w].step = F
  PROVE  ~Queued(F) /\ (Answering(F, w) \/ Late(F, w))
<1>1. ~Queued(F)
  BY DEF Queued
<1>2. PICK v \in Workers : Answering(F, v) \/ Late(F, v)
  BY <1>1 DEF Chain
<1>3. Executing(v) /\ job[v].step = F
  BY <1>2 DEF Answering, Late, Attempting, Computing, Executing
<1>4. v = w
  BY <1>3 DEF LockInv, Exclusive
<1> QED
  BY <1>1, <1>2, <1>4

(* While the lock is free nobody executes step F. *)
LEMMA ChainFree ==
  ASSUME LockInv, NEW F \in Steps, Chain(F), F \notin lock
  PROVE  Queued(F)
<1>1. ASSUME NEW v \in Workers, Answering(F, v) \/ Late(F, v) PROVE FALSE
  <2>1. Executing(v) /\ job[v].step = F
    BY <1>1 DEF Answering, Late, Attempting, Computing, Executing
  <2> QED
    BY <2>1 DEF LockInv, LockHeld
<1> QED
  BY <1>1 DEF Chain

(* What is in reserve covers the kills so far. *)
LEMMA ReserveCovers ==
  ASSUME Mendable, TypeOK
  PROVE  /\ Reserve \in Nat /\ spent.crash \in Nat
         /\ \A m \in Message : m.left \in Nat
<1>1. spent.crash \in Nat /\ Retries \in Nat
  BY BoundsAssumption DEF TypeOK, Budget
<1>2. Reserve \in Nat
  BY <1>1 DEF Reserve, Mendable
<1> QED
  BY <1>1, <1>2, BoundsAssumption DEF Message

LEMMA ChainClaim ==
  ASSUME Mendable, Mendable', LockInv, TypeOK', NEW F \in Steps, Chain(F),
         NEW w \in Workers, NEW m \in Message, Claim(w, m)
  PROVE  Chain(F)'
<1>1. TypeOK
  BY DEF LockInv
<1>2. /\ pc[w] = "off" /\ queue[m] > 0 /\ queue' = Take(m)
      /\ m.step \notin lock /\ lock' = lock \cup {m.step} /\ spent' = spent
  <2>1. ~Spend("open")
    BY <1>1, Unspent DEF Mendable, Covered, Kinds
  <2> QED
    BY <2>1 DEF Claim, Deliverable, TryClaimStep
<1>3. /\ pc'[w] = "load" /\ job'[w] = m /\ live'[w]
      /\ \A v \in Workers \ {w} :
           pc'[v] = pc[v] /\ job'[v] = job[v] /\ live'[v] = live[v]
      /\ resume' = resume
  BY <1>1 DEF Claim, Goto, TypeOK, Actors
<1>4. CASE m.step # F
  <2>1. SameCopies(F)
    BY <1>1, <1>2, <1>4, OtherCopies DEF TypeOK
  <2>2. \A v \in Workers : Executing(v)' /\ job'[v].step = F =>
                              Executing(v) /\ job[v].step = F
    BY <1>3, <1>4 DEF Executing
  <2>3. \A v \in Workers : Attempting(v) /\ job[v].step = F =>
                              Attempting(v)' /\ job'[v] = job[v] /\ live'[v] = live[v]
    BY <1>2, <1>3 DEF Attempting, Computing
  <2>4. (F \in lock' => F \in lock) /\ spent.crash <= spent'.crash
    BY <1>1, <1>2, <1>4 DEF TypeOK, Budget
  <2> QED
    BY <1>1, <2>1, <2>2, <2>3, <2>4, ChainStays
<1>5. CASE m.step = F
  <2>1. PICK x \in Message : x.step = F /\ OneCopy(x) /\ x.left >= Reserve
    BY <1>2, <1>5, ChainFree DEF Queued
  <2>2. m = x
    BY <1>1, <1>2, <1>5, <2>1 DEF OneCopy, TypeOK
  <2>3. NoCopy(F)'
    BY <1>1, <1>2, <2>1, <2>2, TakeCopy DEF NoCopy, TypeOK
  <2>4. Reserve' = Reserve
    BY <1>2 DEF Reserve
  <2>5. Answering(F, w)'
    BY <1>3, <1>5, <2>1, <2>2, <2>3, <2>4 DEF Answering, Attempting
  <2> QED
    BY <2>5 DEF Chain
<1> QED
  BY <1>4, <1>5

(* A refusal costs a retry; either the dead worker's lock was reckoned with, or
   the message is a late worker's second. *)
LEMMA ChainLocked ==
  ASSUME Mendable, Mendable', LockInv, TypeOK', NEW F \in Steps, Chain(F),
         NEW m \in Message, Locked(m)
  PROVE  Chain(F)'
<1>1. TypeOK /\ queue \in [Message -> Nat]
  BY DEF LockInv, TypeOK
<1>2. /\ queue[m] > 0 /\ m.cooled /\ m.step \in lock
      /\ queue' = Retry(Take(m), m, FALSE)
      /\ UNCHANGED <<pc, job, live, lock, resume, spent>>
  BY DEF Locked, Deliverable
<1>3. Reserve' = Reserve
  BY <1>2 DEF Reserve
<1>4. CASE m.step # F
  <2>1. SameCopies(F)
    BY <1>1, <1>2, <1>4, OtherCopies
  <2>2. \A v \in Workers : (Attempting(v)' <=> Attempting(v))
                           /\ (Executing(v)' <=> Executing(v))
    BY <1>2 DEF Attempting, Computing, Executing
  <2>3. spent.crash <= spent'.crash
    BY <1>1, <1>2 DEF TypeOK, Budget
  <2> QED
    BY <1>1, <1>2, <2>1, <2>2, <2>3, ChainStays
<1>5. ASSUME m.step = F, OneCopy(m)
      PROVE  /\ m.left = 0 => NoCopy(F)'
             /\ m.left > 0 => \E k \in Message :
                  /\ k.step = F /\ k.left = m.left - 1 /\ ~k.cooled
                  /\ OneCopy(k)'
  <2>1. /\ Take(m) \in [Message -> Nat]
        /\ \A x \in Message : x.step = m.step => Take(m)[x] = 0
    BY <1>1, <1>5, TakeCopy
  <2> QED
    BY <1>2, <1>5, <2>1, RetryCopy
<1>6. CASE m.step = F /\ Queued(F)
  <2>1. PICK x \in Message :
          /\ x.step = F /\ OneCopy(x)
          /\ x.cooled /\ F \in lock => x.left >= Reserve + 1
    BY <1>6 DEF Queued
  <2>2. m = x
    BY <1>1, <1>2, <1>6, <2>1 DEF OneCopy
  <2>3. m.left > 0 /\ m.left - 1 >= Reserve
    BY <1>1, <1>2, <1>6, <2>1, <2>2, ReserveCovers
  <2>4. PICK k \in Message :
          k.step = F /\ k.left = m.left - 1 /\ ~k.cooled /\ OneCopy(k)'
    BY <1>5, <1>6, <2>1, <2>2, <2>3
  <2>5. \A v \in Workers : Executing(v)' => job'[v].step # F
    BY <1>2, <1>6 DEF Queued, Executing
  <2>6. Queued(F)'
    BY <1>3, <2>3, <2>4, <2>5 DEF Queued
  <2> QED
    BY <2>6 DEF Chain
<1>7. ASSUME m.step = F, NEW w \in Workers, Late(F, w) PROVE Chain(F)'
  <2>1. PICK x \in Message :
          /\ x.step = F /\ OneCopy(x) /\ (x.cooled => x.left >= Reserve - 1)
    BY <1>1, <1>2, <1>7 DEF Late, NoCopy
  <2>2. m = x
    BY <1>1, <1>2, <1>7, <2>1 DEF OneCopy
  <2>3. m.left >= Reserve - 1
    BY <1>2, <2>1, <2>2
  <2>4. Attempting(w)' /\ job'[w].step = F /\ ~live'[w]
    BY <1>2, <1>7 DEF Late, Attempting, Computing
  <2>5. CASE m.left = 0
    <3>1. Reserve' < 2
      BY <1>1, <1>3, <2>3, <2>5, ReserveCovers
    <3>2. Late(F, w)'
      BY <1>5, <1>7, <2>1, <2>2, <2>4, <2>5, <3>1 DEF Late
    <3> QED
      BY <3>2 DEF Chain
  <2>6. CASE m.left > 0
    <3>1. PICK k \in Message :
            k.step = F /\ k.left = m.left - 1 /\ ~k.cooled /\ OneCopy(k)'
      BY <1>5, <1>7, <2>1, <2>2, <2>6
    <3>2. k.left >= Reserve' - 2
      BY <1>1, <1>3, <2>3, <3>1, ReserveCovers
    <3>3. Late(F, w)'
      BY <2>4, <3>1, <3>2 DEF Late
    <3> QED
      BY <3>3 DEF Chain
  <2> QED
    BY <1>1, <2>5, <2>6, ReserveCovers
<1>8. ASSUME m.step = F, NEW w \in Workers, Answering(F, w) PROVE FALSE
  BY <1>1, <1>2, <1>8 DEF Answering, NoCopy
<1> QED
  BY <1>4, <1>6, <1>7, <1>8 DEF Chain

LEMMA ChainRetryAfter ==
  ASSUME Mendable, Mendable', LockInv, TypeOK', NEW F \in Steps, Chain(F),
         NEW m \in Message, RetryAfter(m)
  PROVE  Chain(F)'
<1> DEFINE k == [m EXCEPT !.cooled = TRUE]
<1>1. TypeOK /\ queue \in [Message -> Nat]
  BY DEF LockInv, TypeOK
<1>2. /\ queue[m] > 0 /\ m.step \notin lock
      /\ UNCHANGED <<pc, job, live, lock, resume, spent>>
      /\ queue' = [Take(m) EXCEPT ![k] = @ + 1]
  BY DEF RetryAfter
<1>3. Reserve' = Reserve
  BY <1>2 DEF Reserve
<1>4. CASE m.step # F
  <2>1. SameCopies(F)
    BY <1>1, <1>2, <1>4, OtherCopies
  <2>2. \A v \in Workers : (Attempting(v)' <=> Attempting(v))
                           /\ (Executing(v)' <=> Executing(v))
    BY <1>2 DEF Attempting, Computing, Executing
  <2>3. spent.crash <= spent'.crash
    BY <1>1, <1>2 DEF TypeOK, Budget
  <2> QED
    BY <1>1, <1>2, <2>1, <2>2, <2>3, ChainStays
<1>5. CASE m.step = F
  <2>0. Queued(F)
    BY <1>2, <1>5, ChainFree
  <2>1. PICK x \in Message : x.step = F /\ OneCopy(x) /\ x.left >= Reserve
    BY <2>0 DEF Queued
  <2>2. m = x
    BY <1>1, <1>2, <1>5, <2>1 DEF OneCopy
  <2>3. k \in Message /\ k.step = F /\ k.left = m.left
    BY <1>5 DEF Message
  <2>4. /\ Take(m) \in [Message -> Nat]
        /\ \A y \in Message : y.step = m.step => Take(m)[y] = 0
    BY <1>1, <2>1, <2>2, TakeCopy
  <2>5. \A v \in Workers : Executing(v)' => job'[v].step # F
    BY <1>2, <2>0 DEF Queued, Executing
  <2> HIDE DEF k
  <2>6. OneCopy(k)'
    BY <1>2, <1>5, <2>3, <2>4, AddCopy
  <2>7. Queued(F)'
    BY <1>2, <1>3, <1>5, <2>1, <2>2, <2>3, <2>5, <2>6 DEF Queued
  <2> QED
    BY <2>7 DEF Chain
<1> QED
  BY <1>4, <1>5

LEMMA ChainTimeout ==
  ASSUME Mendable, Mendable', LockInv, OnlineExecutes, TypeOK', NEW F \in Steps, Chain(F),
         NEW w \in Workers, DeliveryTimeout(w)
  PROVE  Chain(F)'
<1>1. TypeOK /\ queue \in [Message -> Nat] /\ job[w] \in Message
  BY DEF LockInv, TypeOK
<1>2. /\ live[w] /\ job[w].left > 0 /\ queue' = Retry(queue, job[w], TRUE)
      /\ ~live'[w] /\ \A v \in Workers \ {w} : live'[v] = live[v]
      /\ UNCHANGED <<pc, job, lock, resume, spent>>
  BY <1>1 DEF DeliveryTimeout, TypeOK
<1>3. Reserve' = Reserve /\ Executing(w)
  BY <1>2 DEF Reserve, OnlineExecutes
<1>4. CASE job[w].step # F
  <2>1. SameCopies(F)
    BY <1>1, <1>2, <1>4, OtherCopies
  <2>2. \A v \in Workers : (Attempting(v)' <=> Attempting(v))
                           /\ (Executing(v)' <=> Executing(v))
    BY <1>2 DEF Attempting, Computing, Executing
  <2>3. spent.crash <= spent'.crash
    BY <1>1, <1>2 DEF TypeOK, Budget
  <2> QED
    BY <1>1, <1>2, <1>4, <2>1, <2>2, <2>3, ChainStays
<1>5. CASE job[w].step = F
  <2>1. Answering(F, w)
    BY <1>2, <1>3, <1>5, ChainWorker DEF Late
  <2>2. \A m \in Message : m.step = job[w].step => queue[m] = 0
    BY <1>5, <2>1 DEF Answering, NoCopy
  <2>3. PICK k \in Message :
          k.step = F /\ k.left = job[w].left - 1 /\ OneCopy(k)'
    BY <1>1, <1>2, <1>5, <2>2, RetryCopy
  <2>4. job[w].left >= Reserve
    BY <2>1 DEF Answering
  <2>5. k.left >= Reserve' - 1 /\ k.left >= Reserve' - 2
    BY <1>1, <1>3, <2>3, <2>4, ReserveCovers
  <2>6. Attempting(w)' /\ job'[w].step = F
    BY <1>2, <1>5, <2>1 DEF Answering, Attempting, Computing
  <2>7. Late(F, w)'
    BY <1>2, <2>3, <2>5, <2>6 DEF Late
  <2> QED
    BY <2>7 DEF Chain
<1> QED
  BY <1>4, <1>5

(* The worker that dies leaves its lock behind, and two retries fewer. *)
LEMMA ChainCrash ==
  ASSUME Mendable, Mendable', LockInv, OnlineExecutes, TypeOK', NEW F \in Steps, Chain(F),
         NEW w \in Workers, Crash(w)
  PROVE  Chain(F)'
<1>1. TypeOK /\ queue \in [Message -> Nat] /\ job[w] \in Message
  BY DEF LockInv, TypeOK
<1>2. /\ Executing(w) /\ spent'.crash = spent.crash + 1 /\ lock' = lock
      /\ live[w] => queue' = Retry(queue, job[w], TRUE)
      /\ ~live[w] => queue' = queue
      /\ Leave(w)
  <2>1. ~Spend("late")
    BY <1>1, Unspent DEF Mendable, Kinds
  <2>2. Spend("crash")
    BY <2>1 DEF Crash
  <2> QED
    BY <1>1, <2>2 DEF Crash, Spend, TypeOK, Budget
<1>3. /\ pc'[w] = "off"
      /\ \A v \in Workers \ {w} : /\ pc'[v] = pc[v] /\ job'[v] = job[v]
                                  /\ live'[v] = live[v] /\ resume'[v] = resume[v]
  BY <1>1, <1>2 DEF Leave, Goto, TypeOK, Actors
<1>4. Reserve' = Reserve - 2 /\ Reserve >= 2 /\ Reserve \in Nat
  <2>1. spent.crash \in Nat /\ Retries \in Nat
    BY <1>1, BoundsAssumption, ReserveCovers
  <2>2. 2 * spent'.crash <= Retries
    BY DEF Mendable
  <2> QED
    BY <1>1, <1>2, <2>1, <2>2, ReserveCovers DEF Reserve
<1>5. CASE job[w].step # F
  <2>1. SameCopies(F)
    BY <1>1, <1>2, <1>5, OtherCopies DEF SameCopies
  <2>2. \A v \in Workers : Executing(v)' /\ job'[v].step = F =>
                              Executing(v) /\ job[v].step = F
    BY <1>3 DEF Executing
  <2>3. \A v \in Workers : Attempting(v) /\ job[v].step = F =>
                              Attempting(v)' /\ job'[v] = job[v] /\ live'[v] = live[v]
    BY <1>3, <1>5 DEF Attempting, Computing
  <2>4. spent.crash <= spent'.crash
    BY <1>1, <1>2, ReserveCovers
  <2> QED
    BY <1>1, <1>2, <2>1, <2>2, <2>3, <2>4, ChainStays
<1>6. CASE job[w].step = F
  <2>1. Answering(F, w) \/ Late(F, w)
    BY <1>2, <1>6, ChainWorker
  <2>2. \A v \in Workers : Executing(v)' => job'[v].step # F
    <3>1. \A v \in Workers \ {w} : Executing(v) => job[v].step # F
      BY <1>2, <1>6 DEF LockInv, Exclusive
    <3> QED
      BY <1>3, <3>1 DEF Executing
  <2>3. ASSUME NEW k \in Message, k.step = F, OneCopy(k)', k.left >= Reserve - 2,
               k.cooled => k.left >= Reserve - 1
        PROVE  Chain(F)'
    <3>1. k.left >= Reserve' /\ (k.cooled => k.left >= Reserve' + 1)
      BY <1>1, <1>4, <2>3, ReserveCovers
    <3>2. Queued(F)'
      BY <2>2, <2>3, <3>1 DEF Queued
    <3> QED
      BY <3>2 DEF Chain
  <2>4. CASE Answering(F, w)
    <3>1. live[w] /\ job[w].left >= Reserve
          /\ \A m \in Message : m.step = job[w].step => queue[m] = 0
      BY <1>6, <2>4 DEF Answering, NoCopy
    <3>2. job[w].left > 0 /\ job[w].left - 1 >= Reserve - 1
          /\ job[w].left - 1 >= Reserve - 2
      BY <1>1, <1>4, <3>1, ReserveCovers
    <3>3. PICK k \in Message :
            k.step = F /\ k.left = job[w].left - 1 /\ OneCopy(k)'
      BY <1>1, <1>2, <1>6, <3>1, <3>2, RetryCopy
    <3> QED
      BY <2>3, <3>2, <3>3
  <2>5. CASE Late(F, w)
    <3>1. ~live[w] /\ ~(Reserve < 2)
      BY <1>4, <2>5 DEF Late
    <3>2. PICK k \in Message :
            /\ k.step = F /\ OneCopy(k) /\ k.left >= Reserve - 2
            /\ k.cooled => k.left >= Reserve - 1
      BY <2>5, <3>1 DEF Late
    <3>3. OneCopy(k)'
      BY <1>2, <3>1, <3>2 DEF OneCopy
    <3> QED
      BY <2>3, <3>2, <3>3
  <2> QED
    BY <2>1, <2>4, <2>5
<1> QED
  BY <1>5, <1>6

LEMMA ChainRelease ==
  ASSUME Mendable, Mendable', LockInv, TypeOK', NEW F \in Steps, Chain(F),
         NEW w \in Workers, ReleaseStepLock(w)
  PROVE  Chain(F)'
<1>1. TypeOK /\ queue \in [Message -> Nat] /\ job[w] \in Message
  BY DEF LockInv, TypeOK
<1>2. /\ pc[w] \in {"release200", "release500"} /\ lock' \subseteq lock
      /\ queue' = queue \/ queue' = Retry(queue, job[w], TRUE)
      /\ Leave(w)
  BY DEF ReleaseStepLock
<1>3. /\ pc'[w] = "off"
      /\ \A v \in Workers \ {w} : /\ pc'[v] = pc[v] /\ job'[v] = job[v]
                                  /\ live'[v] = live[v] /\ resume'[v] = resume[v]
  BY <1>1, <1>2 DEF Leave, Goto, TypeOK, Actors
<1>4. Executing(w) /\ ~Attempting(w)
  BY <1>2 DEF Executing, Attempting, Computing
<1>5. job[w].step # F
  BY <1>4, ChainWorker DEF Answering, Late
<1>6. SameCopies(F)
  BY <1>1, <1>2, <1>5, OtherCopies DEF SameCopies
<1>7. \A v \in Workers : Executing(v)' /\ job'[v].step = F =>
                            Executing(v) /\ job[v].step = F
  BY <1>3 DEF Executing
<1>8. \A v \in Workers : Attempting(v) /\ job[v].step = F =>
                            Attempting(v)' /\ job'[v] = job[v] /\ live'[v] = live[v]
  BY <1>3, <1>5 DEF Attempting, Computing
<1>9. spent.crash <= spent'.crash
  BY <1>1 DEF ReleaseStepLock, Spend, TypeOK, Budget
<1> QED
  BY <1>1, <1>2, <1>6, <1>7, <1>8, <1>9, ChainStays
(* While nobody is committed the frontier does not move. *)
LEMMA FrontierHolds ==
  ASSUME Mendable, Mendable', LockInv, ContextInv, NEW F \in Steps, Frontier(F, F),
         [Next]_vars, \A w \in Workers : ~Committed(w),
         ~ \E w \in Workers : Committed(w)'
  PROVE  Frontier(F, F)'
<1> F \in Nat
  BY BoundsAssumption DEF Steps
<1>1. TypeOK
  BY DEF LockInv
<1>2. CASE UNCHANGED vars
  BY <1>2 DEF vars, Frontier, InStep, Computing, ShouldContinueExecution
<1>3. ASSUME NEW w \in Workers, SaveWrite(w) PROVE FALSE
  <2>1. resume[w] = "stepEvent" /\ pc[w] = "write"
    BY <1>3 DEF SaveWrite, Committed, Computing
  <2>2. pc'[w] \in {"end", "stepEvent"}
    BY <1>1, <1>3, <2>1 DEF SaveWrite, Goto, TypeOK, Actors
  <2> QED
    BY <2>2 DEF Committed, Computing
<1>4. ASSUME NEW w \in Workers PROVE ~ScheduleNext(w)
  BY DEF ScheduleNext, Committed, Computing
<1>5. ASSUME NEW w \in Workers, Throw(w) PROVE FALSE
  <2>1. pc'[w] \in {"catch", "fail"}
    BY <1>1, <1>5 DEF Throw, Goto, TypeOK, Actors
  <2> QED
    BY <2>1 DEF Committed, Computing
<1>6. ASSUME NEW w \in Workers, Handle(w) PROVE Frontier(F, F)'
  BY <1>1, <1>3, <1>4, <1>6, FrontierDelivery, FrontierHandler DEF Handle, Save
<1>7. ASSUME Cancel \/ Start \/ Throw(Canceller) \/ Throw(Starter)
      PROVE  Frontier(F, F)'
  <2>1. ~StartExecution
    BY <1>1, Unspent DEF StartExecution, Mendable, Kinds
  <2> QED
    BY <1>1, <1>7, <2>1, FrontierClient
<1>8. ASSUME \/ \E m \in Message : Locked(m) \/ RetryAfter(m)
             \/ \E s \in Steps : LockExpire(s)
             \/ \E w \in Workers : DeliveryTimeout(w) \/ Crash(w)
      PROVE  Frontier(F, F)'
  BY <1>1, <1>8, FrontierDelivery
<1>9. ASSUME NEW w \in Workers, CatchFallback(w) PROVE Frontier(F, F)'
  BY <1>9, FrontierHandler
<1> QED
  BY <1>2, <1>5, <1>6, <1>7, <1>8, <1>9 DEF Next, Actors
(* An action that neither moves the queue nor stops an attempt *)
LEMMA ChainUndisturbed ==
  ASSUME TypeOK, TypeOK', NEW F \in Steps, Chain(F),
         UNCHANGED <<queue, job, live>>, spent'.crash = spent.crash,
         lock' \subseteq lock,
         \A v \in Workers : Executing(v)' => Executing(v),
         \A v \in Workers : Attempting(v) /\ job[v].step = F => Attempting(v)'
  PROVE  Chain(F)'
<1>1. SameCopies(F)
  BY DEF SameCopies
<1>2. spent.crash <= spent'.crash
  BY DEF TypeOK, Budget
<1> QED
  BY <1>1, <1>2, ChainStays

(* What a worker does between its claim and its release: it goes on attempting
   the step or is committed. *)
LEMMA ChainHandler ==
  ASSUME LockInv, TypeOK', NEW F \in Steps, Frontier(F, F), Chain(F),
         NEW w \in Workers, ~Committed(w),
         \/ LoadSkip(w) \/ LoadTerminal(w) \/ LoadProceed(w) \/ RunStep(w)
         \/ Recheck(w) \/ SaveLoadPrevious(w) \/ SaveWrite(w)
  PROVE  Chain(F)' \/ Committed(w)'
<1>1. TypeOK /\ w \in Actors
  BY DEF LockInv, Actors
<1>2. ASSUME UNCHANGED <<queue, job, live, lock, spent>>, Executing(w),
             \A v \in Workers \ {w} : pc'[v] = pc[v] /\ resume'[v] = resume[v],
             Attempting(w) /\ job[w].step = F => Attempting(w)'
      PROVE  Chain(F)'
  <2>1. \A v \in Workers : Executing(v)' => Executing(v)
    BY <1>2 DEF Executing
  <2>2. \A v \in Workers : Attempting(v) /\ job[v].step = F => Attempting(v)'
    BY <1>2 DEF Attempting, Computing
  <2> QED
    BY <1>1, <1>2, <2>1, <2>2, ChainUndisturbed
<1>3. CASE LoadSkip(w)
  <2>1. /\ UNCHANGED <<queue, job, live, lock, spent>> /\ Executing(w)
        /\ \A v \in Workers \ {w} : pc'[v] = pc[v] /\ resume'[v] = resume[v]
    BY <1>1, <1>3 DEF LoadSkip, Goto, TypeOK, Actors, Executing
  <2>2. job[w].step # F
    <3>1. op.stepCount \in Int /\ job[w].step \in Int /\ F \in Int
      BY <1>1, BoundsAssumption DEF TypeOK, State, Message, Steps
    <3>2. op.stepCount <= F /\ op.stepCount > job[w].step
      BY <1>3 DEF Frontier, LoadSkip, StepAlreadyCompleted
    <3> QED
      BY <3>1, <3>2
  <2> QED
    BY <1>2, <2>1, <2>2
<1>4. CASE LoadTerminal(w)
  BY <1>1, <1>4 DEF LoadTerminal, Goto, TypeOK, Committed, Computing
<1>5. CASE LoadProceed(w) \/ RunStep(w)
  <2>1. /\ UNCHANGED <<queue, job, live, lock, spent>> /\ Executing(w)
        /\ \A v \in Workers \ {w} : pc'[v] = pc[v] /\ resume'[v] = resume[v]
        /\ pc'[w] \in {"run", "recheck"}
    BY <1>1, <1>5 DEF LoadProceed, RunStep, Goto, TypeOK, Actors, Executing
  <2> QED
    BY <1>2, <2>1 DEF Attempting, Computing
<1>6. CASE Recheck(w)
  <2>1. /\ UNCHANGED <<queue, job, live, lock, spent>> /\ Executing(w)
        /\ \A v \in Workers \ {w} : pc'[v] = pc[v] /\ resume'[v] = resume[v]
        /\ pc'[w] = "prev" /\ resume'[w] = "stepEvent"
    BY <1>1, <1>6 DEF Recheck, Goto, TypeOK, Actors, Executing
  <2> QED
    BY <1>2, <2>1 DEF Attempting, Computing
<1>7. CASE SaveLoadPrevious(w)
  <2>1. /\ UNCHANGED <<queue, job, live, lock, spent>> /\ Executing(w)
        /\ \A v \in Workers \ {w} : pc'[v] = pc[v] /\ resume'[v] = resume[v]
        /\ pc[w] = "prev" /\ pc'[w] = "write" /\ resume'[w] = resume[w]
    BY <1>1, <1>7 DEF SaveLoadPrevious, Goto, TypeOK, Actors, Executing
  <2> QED
    BY <1>2, <2>1 DEF Attempting, Computing
<1>8. CASE SaveWrite(w)
  <2>1. pc[w] = "write" /\ resume[w] = "stepEvent"
    BY <1>8 DEF SaveWrite, Committed, Computing
  <2>2. pc'[w] \in {"end", "stepEvent"}
    BY <1>1, <1>8, <2>1 DEF SaveWrite, Goto, TypeOK
  <2> QED
    BY <2>2 DEF Committed, Computing
<1> QED
  BY <1>3, <1>4, <1>5, <1>6, <1>7, <1>8

LEMMA ChainNext ==
  ASSUME Mendable, Mendable', LockInv, OnlineExecutes, TypeOK', NEW F \in Steps,
         Frontier(F, F), Chain(F), \A w \in Workers : ~Committed(w), [Next]_vars
  PROVE  Chain(F)' \/ \E w \in Workers : Committed(w)'
<1>1. /\ TypeOK
      /\ pc[Canceller] \in {"off", "prev", "write", "end", "ack"}
      /\ pc[Starter] = "off"
  BY DEF LockInv, Frontier
<1>2. ASSUME NEW w \in Workers, NEW m \in Message, Claim(w, m) PROVE Chain(F)'
  BY <1>2, ChainClaim
<1>3. ASSUME NEW m \in Message, Locked(m) \/ RetryAfter(m) PROVE Chain(F)'
  BY <1>3, ChainLocked, ChainRetryAfter
<1>4. ASSUME NEW w \in Workers, DeliveryTimeout(w) \/ Crash(w) PROVE Chain(F)'
  BY <1>4, ChainTimeout, ChainCrash
<1>5. ASSUME NEW w \in Workers, ReleaseStepLock(w) PROVE Chain(F)'
  BY <1>5, ChainRelease
<1>6. ASSUME NEW w \in Workers,
             \/ LoadSkip(w) \/ LoadTerminal(w) \/ LoadProceed(w) \/ RunStep(w)
             \/ Recheck(w) \/ SaveLoadPrevious(w) \/ SaveWrite(w)
      PROVE  Chain(F)' \/ \E v \in Workers : Committed(v)'
  BY <1>6, ChainHandler
<1>7. ASSUME NEW w \in Workers
      PROVE  /\ ~PublishAgentRuntimeEnd(w) /\ ~PublishStepComplete(w)
             /\ ~ScheduleNext(w) /\ ~DispatchCompletion(w) /\ ~CatchLoad(w)
             /\ ~CatchFallback(w) /\ ~DispatchError(w)
  BY DEF PublishAgentRuntimeEnd, PublishStepComplete, ScheduleNext,
         DispatchCompletion, CatchLoad, CatchFallback, DispatchError, Committed,
         Computing
<1>8. ASSUME NEW w \in Workers, Throw(w) PROVE Committed(w)'
  <2>1. pc'[w] \in {"catch", "fail"}
    BY <1>1, <1>8 DEF Throw, Goto, TypeOK, Actors
  <2> QED
    BY <2>1 DEF Committed, Computing
<1>9. ASSUME UNCHANGED <<queue, job, live>>, spent'.crash = spent.crash,
             lock' \subseteq lock,
             \A v \in Workers : pc'[v] = pc[v] /\ resume'[v] = resume[v]
      PROVE  Chain(F)'
  <2>1. \A v \in Workers : (Attempting(v)' <=> Attempting(v))
                           /\ (Executing(v)' <=> Executing(v))
    BY <1>9 DEF Attempting, Computing, Executing
  <2> QED
    BY <1>1, <1>9, <2>1, ChainUndisturbed
<1>10. ASSUME NEW a \in {Canceller, Starter}, Throw(a) PROVE Chain(F)'
  <2>1. a \in Actors /\ \A v \in Workers : v # a /\ v \in Actors
    BY ActorsAssumption DEF Actors
  <2>2. pc[a] \notin {"next", "enqueue"}
    BY <1>1
  <2>3. UNCHANGED <<queue, job, live, lock, resume>> /\ spent'.crash = spent.crash
    BY <1>1, <1>10, <2>2 DEF Throw, Spend, TypeOK, Budget
  <2>4. \A v \in Workers : pc'[v] = pc[v]
    BY <1>1, <1>10, <2>1 DEF Throw, Goto, TypeOK
  <2> QED
    BY <1>9, <2>3, <2>4
<1>11. CASE Cancel \/ Start
  <2>1. queue' = queue
    BY <1>1, <1>11
    DEF Cancel, Start, InterruptOperation, StartExecution, BeginSave,
        ReturnInterrupted, ScheduleStart, Save, SaveLoadPrevious, SaveWrite,
        PublishAgentRuntimeEnd
  <2> QED
    BY <1>1, <1>9, <1>11, <2>1, ClientsAside
<1>12. ASSUME NEW s \in Steps, LockExpire(s) PROVE Chain(F)'
  <2>1. spent'.crash = spent.crash
    BY <1>1, <1>12 DEF LockExpire, Spend, TypeOK, Budget
  <2> QED
    BY <1>9, <1>12, <2>1 DEF LockExpire
<1>13. CASE UNCHANGED vars
  BY <1>9, <1>13 DEF vars
<1> QED
  BY <1>2, <1>3, <1>4, <1>5, <1>6, <1>7, <1>8, <1>10, <1>11, <1>12, <1>13
  DEF Next, Handle, Save, Actors

-----------------------------------------------------------------------------
(* The theorem *)

(* The message of the next step begins its chain with all its retries. *)
LEMMA ChainBegins ==
  ASSUME Mendable, Mendable', LockInv, TypeOK', ContextInv, NEW F \in Steps, NEW G \in Nat,
         Frontier(F, G), KeysBelow(F), NEW w \in Workers, ScheduleNext(w)
  PROVE  F + 1 \in Steps /\ InHand(F + 1, F + 1)'
<1>1. TypeOK /\ F \in Nat /\ queue \in [Message -> Nat] /\ w \in Actors
  BY BoundsAssumption DEF LockInv, TypeOK, Steps, Actors
<1>2. /\ pc[w] = "next" /\ ShouldContinueExecution(w) /\ queue' = Put(NextMessage(w))
      /\ pc' = [pc EXCEPT ![w] = "release200"]
      /\ UNCHANGED <<op, lock, job, mem, ctx, resume, spent>>
  BY DEF ScheduleNext, Goto
<1>3. F + 1 \in Steps
  BY <1>1, <1>2, StepsFollow
<1>4. Frontier(F + 1, G)'
  BY <1>1, <1>2, Advance
<1>5. G = F + 1 /\ job[w].step = F
  <2>1. /\ InStep(w) /\ ~Computing(w) /\ mem[w].status \notin Terminal
    BY <1>2 DEF InStep, Computing, ShouldContinueExecution, Active, Terminal
  <2>2. mem[w].stepCount = F + 1 /\ mem[w].stepCount <= G /\ G <= F + 1
    BY <1>2, <2>1 DEF Frontier
  <2> QED
    BY <1>1, <2>1, <2>2 DEF Frontier
<1>6. PICK m \in Message :
        m.step = F + 1 /\ m.left = Retries /\ m = NextMessage(w)
  <2>1. /\ NextMessage(w) \in Message /\ NextMessage(w).step = F + 1
        /\ NextMessage(w).left = Retries
    BY <1>3, <1>5, FirstDeliveryType DEF NextMessage, FirstDelivery
  <2> QED
    BY <2>1
<1>7. \A x \in Message : x.step = F + 1 => queue[x] = 0
  <2> SUFFICES ASSUME NEW x \in Message, x.step = F + 1 PROVE queue[x] = 0
    OBVIOUS
  <2>1. ~(queue[x] > 0)
    BY <1>1 DEF Frontier
  <2> QED
    BY <1>1, <2>1
<1>8. \A v \in Workers : job'[v].step # F + 1
  BY <1>1, <1>2 DEF Frontier, TypeOK, Message, Steps
<1>9. F + 1 \notin lock'
  BY <1>1, <1>2 DEF KeysBelow
<1>10. m.left >= Reserve'
  <2>1. spent.crash \in Nat /\ Retries \in Nat
    BY <1>1, BoundsAssumption, ReserveCovers
  <2> QED
    BY <1>2, <1>6, <2>1 DEF Reserve
<1>11. OneCopy(m)'
  <2>1. queue' = [queue EXCEPT ![m] = @ + 1]
    BY <1>2, <1>6 DEF Put
  <2>2. \A x \in Message : x.step = m.step => queue[x] = 0
    BY <1>6, <1>7
  <2> QED
    BY <1>1, <1>6, <2>1, <2>2, AddCopy
<1>12. Queued(F + 1)'
  <2>1. \A v \in Workers : Executing(v)' => job'[v].step # F + 1
    BY <1>8
  <2>2. m.step = F + 1 /\ OneCopy(m)' /\ m.left >= Reserve'
        /\ (m.cooled /\ F + 1 \in lock' => m.left >= Reserve' + 1)
    BY <1>6, <1>9, <1>10, <1>11
  <2> QED
    BY <1>6, <2>1, <2>2 DEF Queued
<1>13. KeysBelow(F + 1)'
  BY <1>1, <1>2 DEF KeysBelow, TypeOK, Steps
<1> QED
  BY <1>3, <1>4, <1>5, <1>12, <1>13 DEF InHand, Chain

LEMMA InHandNext ==
  ASSUME Mendable, Mendable', LockInv, TypeOK', ContextInv, OnlineExecutes, HooksPresent,
         InHandInv, [Next]_vars
  PROVE  InHandInv'
<1> PICK F \in Steps, G \in Nat : InHand(F, G)
  BY DEF InHandInv
<1>1. TypeOK /\ Frontier(F, G) /\ KeysBelow(F) /\ QueueBelow(F) /\ FrontierInv
  BY FrontierParts DEF LockInv, InHand, FrontierInv
<1>2. PICK F2 \in Steps, G2 \in Nat : F <= F2 /\ Frontier(F2, G2)'
  <2>1. ~StartExecution
    BY <1>1, Unspent DEF StartExecution, Mendable, Kinds
  <2> QED
    BY <1>1, <2>1, FrontierNext DEF FrontierFrom
<1>3. KeysBelow(F2)'
  BY <1>1, <1>2, KeysNext
<1>4. ASSUME completed' # "none" \/ \E w \in Workers : Committed(w)'
      PROVE  InHandInv'
  BY <1>2, <1>3, <1>4 DEF InHandInv, InHand
<1>5. CASE completed # "none"
  BY <1>1, <1>4, <1>5, ToldStays
<1>6. ASSUME NEW w \in Workers, Committed(w) PROVE InHandInv'
  <2>1. CASE ScheduleNext(w)
    <3>1. F + 1 \in Steps /\ InHand(F + 1, F + 1)'
      BY <1>1, <2>1, ChainBegins
    <3>2. F + 1 \in Nat
      BY <3>1, BoundsAssumption DEF Steps
    <3> QED
      BY <3>1, <3>2 DEF InHandInv
  <2> QED
    BY <1>1, <1>4, <1>6, <2>1, CommittedNext
<1>7. CASE completed = "none" /\ \A w \in Workers : ~Committed(w)
  <2>1. G = F /\ Chain(F) /\ Frontier(F, F)
    BY <1>1, <1>7 DEF InHand
  <2>2. Chain(F)' \/ \E w \in Workers : Committed(w)'
    BY <1>7, <2>1, ChainNext
  <2>3. CASE \E w \in Workers : Committed(w)'
    BY <1>4, <2>3
  <2>4. CASE Chain(F)' /\ ~ \E w \in Workers : Committed(w)'
    <3>1. Frontier(F, F)'
      BY <1>1, <1>7, <2>1, <2>4, FrontierHolds
    <3>2. KeysBelow(F)'
      BY <1>1, BoundsAssumption, KeysNext DEF Steps
    <3> QED
      BY <2>1, <2>4, <3>1, <3>2 DEF InHandInv, InHand
  <2> QED
    BY <2>2, <2>3, <2>4
<1> QED
  BY <1>5, <1>6, <1>7

LEMMA InHandInit ==
  ASSUME Mendable, Init
  PROVE  InHandInv /\ OnlineExecutes /\ HooksPresent
<1>1. /\ 0 \in Steps /\ FirstDelivery(0) \in Message
      /\ FirstDelivery(0).step = 0 /\ FirstDelivery(0).left = Retries
  BY FirstDeliveryType, BoundsAssumption DEF Steps, FirstDelivery
<1>2. OneCopy(FirstDelivery(0))
  BY <1>1 DEF Init, OneCopy, Mendable
<1>3. Reserve = Retries /\ Retries \in Nat
  BY BoundsAssumption DEF Init, Reserve, Limit
<1>4. \A w \in Workers : ~Executing(w)
  BY DEF Init, Executing, Actors
<1>5. Queued(0)
  BY <1>1, <1>2, <1>3, <1>4 DEF Queued, Init, Mendable
<1>6. Frontier(0, 0) /\ KeysBelow(0)
  BY FrontierInit DEF Init, KeysBelow
<1>7. InHandInv
  BY <1>1, <1>5, <1>6 DEF InHandInv, InHand, Chain
<1> QED
  BY <1>7 DEF Init, OnlineExecutes, HooksPresent, NewState, Actors

LEMMA InHandInvariant == Spec => [](Mendable => InHandInv)
<1>1. Mendable => Covered /\ spent.start = 0
  BY DEF Mendable
<1>2. Init => OnlineExecutes /\ (Mendable => InHandInv /\ HooksPresent)
  <2>1. Init => OnlineExecutes
    BY DEF Init, OnlineExecutes
  <2> QED
    BY <2>1, InHandInit
<1>3. Background /\ OnlineExecutes /\ [Next]_vars => OnlineExecutes'
  BY OnlineNext DEF Background
<1>4. /\ Background /\ Background' /\ OnlineExecutes
      /\ (Covered /\ spent.start = 0 => LockInv /\ ContextInv /\ FrontierInv)
      /\ (Mendable => InHandInv /\ HooksPresent) /\ [Next]_vars
      => (Mendable => InHandInv /\ HooksPresent)'
  BY <1>1, InHandNext, HooksNext, Histories DEF Background
<1> QED
  BY <1>1, <1>2, <1>3, <1>4, FrontierInvariant, BackgroundInvariant, PTL DEF Spec

(* An operation whose first step createOperation has scheduled is not forgotten,
   however often its messages come, are late or are refused by the lock, whoever
   interrupts it, whichever calls reject and whenever an invocation is killed
   before its save, as long as QStash has two retries for every kill: once
   nothing is left to deliver or to run, its consumers have been told of its
   end. *)
THEOREM NothingForgotten == Spec => []QuiescentMeansCompleted
<1>1. (Mendable => InHandInv) => QuiescentMeansCompleted
  <2> SUFFICES ASSUME NEW F \in Steps, NEW G \in Nat, InHand(F, G), Quiescent
               PROVE  completed # "none"
    BY DEF InHandInv, QuiescentMeansCompleted
  <2>1. \A w \in Workers : pc[w] = "off"
    BY DEF Quiescent, Actors
  <2>2. \A w \in Workers : ~Committed(w) /\ ~Attempting(w)
    BY <2>1 DEF Committed, Attempting, Computing
  <2>3. ~Chain(F)
    BY <2>2 DEF Quiescent, Chain, Queued, OneCopy, Answering, Late
  <2> QED
    BY <2>2, <2>3 DEF InHand
<1> QED
  BY <1>1, InHandInvariant, PTL

(* As long as no client has interfered and no call was rejected, what the
   consumers were told last is what the state in Redis says. *)
THEOREM CompletionIsTrue == Spec => []CompletionMatchesState
<1>1. (Undisturbed => LockInv /\ ContextInv /\ FrontierInv /\ Life)
        /\ QuiescentMeansCompleted
        => CompletionMatchesState
  BY DEF Life, QuiescentMeansCompleted, CompletionMatchesState,
         DetermineCompletionReason
<1> QED
  BY <1>1, LifeInvariant, NothingForgotten, PTL

-----------------------------------------------------------------------------
(***************************************************************************)
(* The end event                                                           *)
(***************************************************************************)

(* The end of a saved operation has been sent or is about to be, by whoever has
   saved it; so has that of one that a save has found ended before. *)
EndOnItsWay ==
  /\ spent.throw = 0 /\ spent.catch = 0 /\ spent.late = 0
  /\ \/ op.status \in StreamEnd
     \/ \E a \in Actors : pc[a] = "write" /\ prev[a] \in StreamEnd
  => endEvents >= 1 \/ \E a \in Actors : pc[a] = "end"

LEMMA EndOnItsWayNext ==
  ASSUME TypeOK, EndOnItsWay, [Next]_vars
  PROVE  EndOnItsWay'
<1> SUFFICES ASSUME spent'.throw = 0, spent'.catch = 0, spent'.late = 0
             PROVE  EndOnItsWay'
  BY DEF EndOnItsWay
<1>0. /\ endEvents \in Nat /\ pc \in [Actors -> Label] /\ prev \in [Actors -> Status]
      /\ Workers \subseteq Actors /\ Canceller \in Actors /\ Starter \in Actors
  BY DEF TypeOK, Actors
<1>1. spent.throw = 0 /\ spent.catch = 0 /\ spent.late = 0
  BY Frugal DEF Kinds
<1>2. ~Spend("throw") /\ ~Spend("catch") /\ ~Spend("late")
  BY Unspent DEF Kinds
<1>3. ASSUME op' = op, endEvents' = endEvents,
             \A a \in Actors : pc[a] = "end" => pc'[a] = "end",
             \A a \in Actors : pc'[a] = "write" /\ prev'[a] \in StreamEnd =>
                                pc[a] = "write" /\ prev[a] \in StreamEnd
      PROVE  EndOnItsWay'
  BY <1>1, <1>3 DEF EndOnItsWay
<1>4. ASSUME NEW a \in Actors, NEW label, label # "write", pc[a] # "end",
             op' = op, endEvents' = endEvents, pc' = [pc EXCEPT ![a] = label],
             prev' = prev \/ \E x : prev' = [prev EXCEPT ![a] = x]
      PROVE  EndOnItsWay'
  <2>1. \A b \in Actors \ {a} : pc'[b] = pc[b] /\ prev'[b] = prev[b]
    BY <1>0, <1>4
  <2>2. pc'[a] # "write"
    BY <1>0, <1>4
  <2> QED
    BY <1>3, <1>4, <2>1, <2>2
<1>5. ASSUME NEW w \in Workers,
             \/ \E m \in Message : Claim(w, m)
             \/ LoadSkip(w) \/ LoadTerminal(w) \/ LoadProceed(w) \/ RunStep(w)
             \/ Recheck(w) \/ ScheduleNext(w) \/ DispatchCompletion(w)
             \/ CatchLoad(w) \/ CatchFallback(w) \/ DispatchError(w)
      PROVE  EndOnItsWay'
  BY <1>0, <1>4, <1>5
  DEF Claim, LoadSkip, LoadTerminal, LoadProceed, RunStep, Recheck, ScheduleNext,
      DispatchCompletion, CatchLoad, CatchFallback, SaveErrorState, DispatchError, Goto
<1>6. ASSUME NEW w \in Workers, PublishStepComplete(w) PROVE EndOnItsWay'
  <2>1. PICK label \in {"prev", "next"} : pc' = [pc EXCEPT ![w] = label]
    BY <1>6 DEF PublishStepComplete, Goto
  <2> QED
    BY <1>0, <1>4, <1>6, <2>1 DEF PublishStepComplete
<1>7. ASSUME NEW w \in Workers, ReleaseStepLock(w) \/ Crash(w) PROVE EndOnItsWay'
  <2>1. pc[w] # "end"
    BY <1>2, <1>7 DEF ReleaseStepLock, Crash, Computing
  <2>2. Leave(w) /\ op' = op /\ endEvents' = endEvents
    BY <1>7 DEF ReleaseStepLock, Crash
  <2> QED
    BY <1>0, <1>4, <2>1, <2>2 DEF Leave, Goto
<1>8. ASSUME NEW a \in Actors, Save(a) PROVE EndOnItsWay'
  <2>1. CASE SaveLoadPrevious(a)
    <3>1. /\ op' = op /\ endEvents' = endEvents /\ pc[a] = "prev"
          /\ prev'[a] = op.status
          /\ \A b \in Actors \ {a} : pc'[b] = pc[b] /\ prev'[b] = prev[b]
      BY <1>0, <2>1 DEF SaveLoadPrevious, Goto
    <3> QED
      BY <1>1, <3>1 DEF EndOnItsWay
  <2>2. CASE SaveWrite(a)
    <3>1. /\ endEvents' = endEvents /\ pc[a] = "write" /\ prev' = prev
          /\ \A b \in Actors \ {a} : pc'[b] = pc[b]
          /\ op' = mem[a]
      BY <1>0, <2>2 DEF SaveWrite, Goto
    <3>2. pc'[a] = IF HasEnteredStreamEndState(a) THEN "end" ELSE resume[a]
      BY <1>0, <2>2 DEF SaveWrite, Goto
    <3>3. CASE pc'[a] = "end"
      BY <3>3 DEF EndOnItsWay
    <3>4. CASE pc'[a] # "end"
      <4>1. op'.status \in StreamEnd => prev[a] \in StreamEnd
        BY <3>1, <3>2, <3>4 DEF HasEnteredStreamEndState
      <4>2. op'.status \in StreamEnd
              => endEvents >= 1 \/ \E b \in Actors : pc[b] = "end"
        BY <1>1, <3>1, <4>1 DEF EndOnItsWay
      <4>3. \A b \in Actors : pc[b] = "end" => pc'[b] = "end"
        BY <3>1
      <4>4. \A b \in Actors : pc'[b] = "write" /\ prev'[b] \in StreamEnd =>
                               \E c \in Actors : pc[c] = "write" /\ prev[c] \in StreamEnd
        <5>1. ASSUME NEW b \in Actors, pc'[b] = "write", prev'[b] \in StreamEnd
              PROVE  \E c \in Actors : pc[c] = "write" /\ prev[c] \in StreamEnd
          <6>1. CASE b = a
            BY <3>1, <5>1, <6>1
          <6>2. CASE b # a
            BY <3>1, <5>1, <6>2
          <6> QED
            BY <6>1, <6>2
        <5> QED
          BY <5>1
      <4> QED
        BY <1>1, <3>1, <4>2, <4>3, <4>4 DEF EndOnItsWay
    <3> QED
      BY <3>3, <3>4
  <2>3. CASE PublishAgentRuntimeEnd(a)
    BY <1>0, <2>3 DEF PublishAgentRuntimeEnd, EndOnItsWay
  <2> QED
    BY <1>8, <2>1, <2>2, <2>3 DEF Save
<1>9. ASSUME NEW a \in Actors PROVE ~Throw(a)
  BY <1>2 DEF Throw
<1>10. CASE InterruptOperation \/ ReturnInterrupted \/ StartExecution \/ ScheduleStart
  BY <1>0, <1>4, <1>10
  DEF InterruptOperation, ReturnInterrupted, StartExecution, ScheduleStart,
      BeginSave, Goto
<1>11. ASSUME \/ \E m \in Message : Locked(m) \/ RetryAfter(m)
              \/ \E s \in Steps : LockExpire(s)
              \/ \E w \in Workers : DeliveryTimeout(w)
              \/ UNCHANGED vars
       PROVE  EndOnItsWay'
  BY <1>3, <1>11 DEF Locked, RetryAfter, LockExpire, DeliveryTimeout, vars
<1> QED
  BY <1>0, <1>5, <1>6, <1>7, <1>8, <1>9, <1>10, <1>11 DEF Next, Handle, Cancel, Start

(* Whoever saves the end beside whom, with however many interrupts, starts, lost
   locks and repeated deliveries, the event stream of an operation that ended or
   paused has had its agent_runtime_end when all is quiet, unless a call was
   rejected or an invocation killed behind its save. *)
THEOREM EndIsSent == Spec => []QuiescentMeansEnded
<1>1. Init => EndOnItsWay
  BY DEF Init, NewState, EndOnItsWay, StreamEnd, Terminal
<1>2. TypeOK /\ EndOnItsWay /\ [Next]_vars => EndOnItsWay'
  BY EndOnItsWayNext
<1>3. EndOnItsWay => QuiescentMeansEnded
  BY DEF EndOnItsWay, QuiescentMeansEnded, Quiescent
<1> QED
  BY <1>1, <1>2, <1>3, TypeCorrect, PTL DEF Spec

(* An end is reported on account of one actor at a time: of the caller of
   interruptOperation from its save on, of an invocation once its save has
   entered the end, and of one whose call was rejected until its catch block has
   saved the error. *)
Sending(a) ==
  \/ a = Canceller /\ pc[a] \in {"prev", "write", "end"}
  \/ a \in Workers /\ (pc[a] \in {"catch", "end"}
                        \/ (pc[a] \in {"prev", "write"} /\ resume[a] = "fail"))

Senders == {a \in Actors : Sending(a)}

(* The step in hand has ended the operation, or found it ended: it will not make
   a save enter the end once more. *)
Decided ==
  /\ op.status \in StreamEnd
  /\ \A w \in Workers :
       /\ ~Computing(w)
       /\ InStep(w) => mem[w].status \in StreamEnd
       /\ pc[w] = "write" /\ resume[w] = "next" => prev[w] \in StreamEnd

(* Every end event, sent or to be sent, is one of an interrupt, of a rejected call
   or the one of the steps themselves. *)
EarlyBound == endEvents + Cardinality(Senders) <= spent.interrupt + spent.throw
EndBound ==
  endEvents + Cardinality(Senders)
    <= spent.interrupt + spent.throw + (IF Decided THEN 1 ELSE 0)

LEMMA SendersFinite ==
  /\ IsFiniteSet(Senders) /\ Cardinality(Senders) \in Nat
  /\ IsFiniteSet(Senders') /\ Cardinality(Senders') \in Nat
<1>1. IsFiniteSet(Actors)
  <2>1. IsFiniteSet(Workers \cup {Canceller}) /\ IsFiniteSet((Workers \cup {Canceller}) \cup {Starter})
    BY ActorsAssumption, FS_AddElement
  <2>2. Actors = (Workers \cup {Canceller}) \cup {Starter}
    BY DEF Actors
  <2> QED
    BY <2>1, <2>2
<1>2. Senders \subseteq Actors /\ Senders' \subseteq Actors
  BY DEF Senders
<1> QED
  BY <1>1, <1>2, FS_Subset, FS_CardinalityType

(* One actor moves. *)
LEMMA OneSender ==
  ASSUME NEW a \in Actors, \A b \in Actors \ {a} : Sending(b)' <=> Sending(b)
  PROVE  /\ (Sending(a)' => Sending(a)) => Cardinality(Senders') <= Cardinality(Senders)
         /\ Sending(a) /\ ~Sending(a)' => Cardinality(Senders') = Cardinality(Senders) - 1
         /\ Cardinality(Senders') <= Cardinality(Senders) + 1
<1>1. CASE Sending(a) /\ ~Sending(a)'
  <2>1. a \in Senders /\ Senders' = Senders \ {a}
    BY <1>1 DEF Senders
  <2>2. Cardinality(Senders') = Cardinality(Senders) - 1
    BY <2>1, SendersFinite, FS_RemoveElement
  <2> QED
    BY <1>1, <2>2, SendersFinite
<1>2. CASE ~Sending(a) /\ Sending(a)'
  <2>1. a \notin Senders /\ Senders' = Senders \cup {a}
    BY <1>2 DEF Senders
  <2>2. Cardinality(Senders') = Cardinality(Senders) + 1
    BY <2>1, SendersFinite, FS_AddElement
  <2> QED
    BY <1>2, <2>2, SendersFinite
<1>3. CASE Sending(a)' <=> Sending(a)
  <2>1. Senders' = Senders
    BY <1>3 DEF Senders
  <2> QED
    BY <1>3, <2>1, SendersFinite
<1> QED
  BY <1>1, <1>2, <1>3

LEMMA WorkerSends ==
  ASSUME NEW w \in Workers, \A v \in Workers \ {w} : Unmoved(v), ClientsUnmoved
  PROVE  \A b \in Actors \ {w} : Sending(b)' <=> Sending(b)
<1> SUFFICES ASSUME NEW b \in Actors \ {w} PROVE Sending(b)' <=> Sending(b)
  OBVIOUS
<1>1. CASE b \in Workers
  <2>1. pc'[b] = pc[b] /\ resume'[b] = resume[b] /\ b # Canceller
    BY <1>1, ActorsAssumption DEF Unmoved
  <2> QED
    BY <2>1 DEF Sending
<1>2. CASE b = Canceller
  BY <1>2, ActorsAssumption DEF Sending, ClientsUnmoved
<1>3. CASE b = Starter
  BY <1>3, ActorsAssumption DEF Sending
<1> QED
  BY <1>1, <1>2, <1>3 DEF Actors

LEMMA ClientSends ==
  ASSUME TypeOK, NEW a \in {Canceller, Starter}, NEW label,
         pc' = [pc EXCEPT ![a] = label],
         resume' = resume \/ \E x : resume' = [resume EXCEPT ![a] = x]
  PROVE  /\ a \in Actors /\ pc'[a] = label
         /\ \A b \in Actors \ {a} : Sending(b)' <=> Sending(b)
         /\ \A w \in Workers : pc'[w] = pc[w] /\ resume'[w] = resume[w]
<1>1. a \in Actors /\ pc'[a] = label
  BY DEF TypeOK, Actors
<1>2. \A b \in Actors \ {a} : pc'[b] = pc[b] /\ resume'[b] = resume[b]
  BY DEF TypeOK
<1>3. \A w \in Workers : w \in Actors \ {a}
  BY ActorsAssumption DEF Actors
<1> QED
  BY <1>1, <1>2, <1>3 DEF Sending

(* What happens to the sums when one actor moves *)
LEMMA BoundsMove ==
  ASSUME TypeOK, TypeOK', [Next]_vars, NEW a \in Actors,
         \A b \in Actors \ {a} : Sending(b)' <=> Sending(b),
         \/ endEvents' = endEvents /\ (Sending(a)' => Sending(a))
         \/ endEvents' \in {endEvents, endEvents + 1} /\ Sending(a) /\ ~Sending(a)'
         \/ /\ \/ endEvents' = endEvents
               \/ endEvents' = endEvents + 1 /\ Sending(a)
            /\ \/ spent'.throw = spent.throw + 1
               \/ spent'.interrupt = spent.interrupt + 1
  PROVE  /\ EarlyBound => EarlyBound'
         /\ EndBound /\ (Decided => Decided') => EndBound'
<1>1. /\ endEvents \in Nat /\ endEvents' \in Nat
      /\ spent.throw \in Nat /\ spent'.throw \in Nat /\ spent.throw <= spent'.throw
      /\ spent.interrupt \in Nat /\ spent'.interrupt \in Nat
      /\ spent.interrupt <= spent'.interrupt
  BY Frugal DEF TypeOK, Kinds
<1>2. endEvents' + Cardinality(Senders') - spent'.throw - spent'.interrupt
        <= endEvents + Cardinality(Senders) - spent.throw - spent.interrupt
  <2>1. CASE endEvents' = endEvents /\ (Sending(a)' => Sending(a))
    BY <1>1, <2>1, OneSender, SendersFinite
  <2>2. CASE endEvents' \in {endEvents, endEvents + 1} /\ Sending(a) /\ ~Sending(a)'
    BY <1>1, <2>2, OneSender, SendersFinite
  <2>3. CASE /\ \/ endEvents' = endEvents
                \/ endEvents' = endEvents + 1 /\ Sending(a)
             /\ \/ spent'.throw = spent.throw + 1
                \/ spent'.interrupt = spent.interrupt + 1
    <3>1. endEvents' + Cardinality(Senders') <= endEvents + Cardinality(Senders) + 1
      BY <1>1, <2>3, OneSender, SendersFinite
    <3> QED
      BY <1>1, <2>3, <3>1, SendersFinite
  <2> QED
    BY <2>1, <2>2, <2>3
<1> QED
  BY <1>1, <1>2, SendersFinite DEF EarlyBound, EndBound

(* The two clients; nobody else touches the workers' variables. *)
LEMMA EndClient ==
  ASSUME TypeOK, [Next]_vars, NEW a \in {Canceller, Starter},
         \/ a = Canceller /\ (InterruptOperation \/ ReturnInterrupted)
         \/ a = Starter /\ (StartExecution \/ ScheduleStart)
         \/ Save(a) \/ Throw(a),
         pc[a] \in {"prev", "write", "end"} =>
           \/ a = Canceller /\ resume[a] = "ack" /\ mem[a].status = "interrupted"
           \/ a = Starter /\ resume[a] = "enqueue" /\ pc[a] # "end"
                /\ mem[a].status = "running"
  PROVE  /\ EarlyBound => EarlyBound'
         /\ EndBound /\ a = Canceller => EndBound'
<1>0. TypeOK' /\ spent \in Budget /\ Canceller # Starter /\ a \in Actors
  BY NextType, ActorsAssumption DEF TypeOK, Actors
<1>1. PICK label : pc' = [pc EXCEPT ![a] = label]
  BY ActorsAssumption
  DEF InterruptOperation, ReturnInterrupted, StartExecution, ScheduleStart, BeginSave,
      Save, SaveLoadPrevious, SaveWrite, PublishAgentRuntimeEnd, Throw, Goto
<1>2. /\ resume' = resume \/ \E x : resume' = [resume EXCEPT ![a] = x]
      /\ mem' = mem \/ \E x : mem' = [mem EXCEPT ![a] = x]
      /\ prev' = prev \/ \E x : prev' = [prev EXCEPT ![a] = x]
      /\ ctx' = ctx
  BY DEF InterruptOperation, ReturnInterrupted, StartExecution, ScheduleStart, BeginSave,
      Save, SaveLoadPrevious, SaveWrite, PublishAgentRuntimeEnd, Throw
<1>3. /\ \A b \in Actors \ {a} : Sending(b)' <=> Sending(b)
      /\ \A w \in Workers : pc'[w] = pc[w] /\ resume'[w] = resume[w]
      /\ pc'[a] = label
  BY <1>1, <1>2, ClientSends
<1>4. \A w \in Workers : /\ mem'[w] = mem[w] /\ prev'[w] = prev[w] /\ ctx'[w] = ctx[w]
                         /\ w \in Actors \ {a}
  BY <1>2, ActorsAssumption DEF TypeOK, Actors
<1>5. \/ op' = op
      \/ op' = mem[a] /\ pc[a] = "write"
  BY DEF InterruptOperation, ReturnInterrupted, StartExecution, ScheduleStart, BeginSave,
      Save, SaveLoadPrevious, SaveWrite, PublishAgentRuntimeEnd, Throw
<1>6. a = Canceller /\ Decided => Decided'
  <2>1. SUFFICES ASSUME a = Canceller, Decided PROVE Decided'
    OBVIOUS
  <2>2. op'.status \in StreamEnd
    BY <1>0, <1>5, <2>1 DEF Decided, StreamEnd, Terminal
  <2>3. \A w \in Workers : /\ Computing(w)' <=> Computing(w)
                           /\ InStep(w)' <=> InStep(w)
    BY <1>3, <1>4 DEF Computing, InStep, ShouldContinueExecution
  <2> QED
    BY <1>3, <1>4, <2>1, <2>2, <2>3 DEF Decided
<1>7. \/ endEvents' = endEvents /\ (Sending(a)' => Sending(a))
      \/ endEvents' \in {endEvents, endEvents + 1} /\ Sending(a) /\ ~Sending(a)'
      \/ /\ endEvents' = endEvents
         /\ spent'.interrupt = spent.interrupt + 1
  <2>0. Sending(a) <=> a = Canceller /\ pc[a] \in {"prev", "write", "end"}
    BY ActorsAssumption DEF Sending
  <2>00. Sending(a)' <=> a = Canceller /\ pc'[a] \in {"prev", "write", "end"}
    BY ActorsAssumption DEF Sending
  <2>1. CASE a = Canceller /\ InterruptOperation
    BY <1>0, <2>1, SpendType DEF InterruptOperation, BeginSave, Kinds
  <2>2. CASE a = Canceller /\ ReturnInterrupted
    <3>1. endEvents' = endEvents /\ pc' = [pc EXCEPT ![a] = "off"]
      BY <2>2 DEF ReturnInterrupted, Goto
    <3>2. pc'[a] = "off"
      BY <1>0, <3>1 DEF TypeOK
    <3> QED
      BY <2>00, <3>1, <3>2
  <2>3. CASE a = Starter /\ (StartExecution \/ ScheduleStart)
    <3>1. endEvents' = endEvents
      BY <2>3 DEF StartExecution, ScheduleStart, BeginSave
    <3> QED
      BY <1>0, <2>00, <2>3, <3>1
  <2>4. CASE SaveLoadPrevious(a) \/ SaveWrite(a)
    <3>1. endEvents' = endEvents /\ pc[a] \in {"prev", "write", "end"}
      BY <2>4 DEF SaveLoadPrevious, SaveWrite
    <3> QED
      BY <1>0, <2>0, <2>00, <3>1
  <2>5. CASE PublishAgentRuntimeEnd(a)
    <3>1. a = Canceller /\ pc[a] = "end" /\ endEvents' = endEvents + 1
          /\ pc' = [pc EXCEPT ![a] = resume[a]] /\ resume[a] = "ack"
      BY <2>5 DEF PublishAgentRuntimeEnd, Goto
    <3>2. pc'[a] = "ack"
      BY <1>0, <3>1 DEF TypeOK
    <3> QED
      BY <2>0, <2>00, <3>1, <3>2
  <2>6. CASE Throw(a)
    <3>1. pc' = [pc EXCEPT ![a] = "off"]
      BY <2>6, ActorsAssumption DEF Throw, Goto
    <3>2. pc'[a] = "off"
      BY <1>0, <3>1 DEF TypeOK
    <3>3. \/ endEvents' = endEvents
          \/ endEvents' = endEvents + 1 /\ pc[a] = "end" /\ a = Canceller
      BY <2>6 DEF Throw
    <3> QED
      BY <2>0, <2>00, <3>2, <3>3
  <2> QED
    BY <2>1, <2>2, <2>3, <2>4, <2>5, <2>6 DEF Save
<1>8. \/ endEvents' = endEvents /\ (Sending(a)' => Sending(a))
      \/ endEvents' \in {endEvents, endEvents + 1} /\ Sending(a) /\ ~Sending(a)'
      \/ /\ \/ endEvents' = endEvents
            \/ endEvents' = endEvents + 1 /\ Sending(a)
         /\ \/ spent'.throw = spent.throw + 1
            \/ spent'.interrupt = spent.interrupt + 1
  BY <1>7
<1>9. /\ EarlyBound => EarlyBound'
      /\ EndBound /\ (Decided => Decided') => EndBound'
  BY <1>0, <1>3, <1>8, BoundsMove
<1> QED
  BY <1>6, <1>9

(* The worker that moves neither computes nor is about to enter the end. *)
LEMMA DecidedStays ==
  ASSUME TypeOK, NEW w \in Workers, Decided,
         \A v \in Workers \ {w} : Unmoved(v),
         prev' = prev \/ \E x : prev' = [prev EXCEPT ![w] = x],
         op'.status \in StreamEnd,
         ~Computing(w)', InStep(w)' => mem'[w].status \in StreamEnd,
         pc'[w] = "write" /\ resume'[w] = "next" => prev'[w] \in StreamEnd
  PROVE  Decided'
<1> SUFFICES ASSUME NEW v \in Workers
             PROVE  /\ ~Computing(v)'
                    /\ InStep(v)' => mem'[v].status \in StreamEnd
                    /\ pc'[v] = "write" /\ resume'[v] = "next" => prev'[v] \in StreamEnd
  BY DEF Decided
<1>1. CASE v = w
  BY <1>1
<1>2. CASE v # w
  <2>1. Unmoved(v) /\ prev'[v] = prev[v]
    BY <1>2 DEF TypeOK, Actors
  <2> QED
    BY <2>1, UnmovedLabels DEF Decided, Unmoved
<1> QED
  BY <1>1, <1>2

(* The steps of a worker that save and send nothing and are not rejected *)
LEMMA EndQuiet ==
  ASSUME TypeOK, [Next]_vars, NEW F \in Nat, NEW G \in Nat, Frontier(F, G), EndBound,
         NEW w \in Workers,
         \/ \E m \in Message : Claim(w, m)
         \/ LoadSkip(w) \/ LoadTerminal(w) \/ LoadProceed(w) \/ RunStep(w)
         \/ Recheck(w) \/ SaveLoadPrevious(w) \/ PublishStepComplete(w)
         \/ ScheduleNext(w) \/ DispatchCompletion(w)
         \/ CatchLoad(w) \/ CatchFallback(w) \/ DispatchError(w)
         \/ ReleaseStepLock(w) \/ Crash(w)
  PROVE  EndBound'
<1>0. /\ TypeOK' /\ w \in Actors /\ w # Canceller
      /\ pc \in [Actors -> Label] /\ mem \in [Actors -> State] /\ mem[w] \in State
      /\ resume \in [Actors -> Label] /\ prev \in [Actors -> Status]
      /\ ctx \in [Workers -> BOOLEAN] /\ op \in State
  BY NextType, ActorsAssumption DEF TypeOK, Actors
<1>1. op' = op /\ endEvents' = endEvents
  BY DEF Claim, LoadSkip, LoadTerminal, LoadProceed, RunStep, Recheck, SaveLoadPrevious,
         PublishStepComplete, ScheduleNext, DispatchCompletion, CatchLoad, CatchFallback,
         SaveErrorState, DispatchError, ReleaseStepLock, Crash, Leave
<1>2. PICK label : pc' = [pc EXCEPT ![w] = label]
  BY DEF Claim, LoadSkip, LoadTerminal, LoadProceed, RunStep, Recheck, SaveLoadPrevious,
         PublishStepComplete, ScheduleNext, DispatchCompletion, CatchLoad, CatchFallback,
         SaveErrorState, DispatchError, ReleaseStepLock, Crash, Leave, Goto
<1>3. /\ job' = job \/ \E x : job' = [job EXCEPT ![w] = x]
      /\ mem' = mem \/ \E x : mem' = [mem EXCEPT ![w] = x]
      /\ resume' = resume \/ \E x : resume' = [resume EXCEPT ![w] = x]
      /\ ctx' = ctx \/ \E x : ctx' = [ctx EXCEPT ![w] = x]
      /\ prev' = prev \/ \E x : prev' = [prev EXCEPT ![w] = x]
  BY DEF Claim, LoadSkip, LoadTerminal, LoadProceed, RunStep, Recheck, SaveLoadPrevious,
         PublishStepComplete, ScheduleNext, DispatchCompletion, CatchLoad, CatchFallback,
         SaveErrorState, DispatchError, ReleaseStepLock, Crash, Leave
<1>4. (\A v \in Workers \ {w} : Unmoved(v)) /\ ClientsUnmoved
  BY <1>2, <1>3, OthersUnmoved
<1>5. ASSUME Sending(w)' => Sending(w), Decided => Decided' PROVE EndBound'
  <2>1. \A b \in Actors \ {w} : Sending(b)' <=> Sending(b)
    BY <1>4, WorkerSends
  <2> QED
    BY <1>0, <1>1, <1>5, <2>1, BoundsMove
<1>6. ASSUME pc'[w] \notin {"run", "recheck", "prev", "write"},
             InStep(w)' => mem'[w].status \in StreamEnd, Decided
      PROVE  Decided'
  <2>1. ~Computing(w)' /\ op'.status \in StreamEnd
    BY <1>1, <1>6 DEF Computing, Decided
  <2> QED
    BY <1>3, <1>4, <1>6, <2>1, DecidedStays
<1>7. ASSUME NEW l \in {"off", "load", "release200", "release500"},
             pc' = [pc EXCEPT ![w] = l]
      PROVE  EndBound'
  <2>1. pc'[w] = l
    BY <1>0, <1>7
  <2>2. ~Sending(w)' /\ ~InStep(w)' /\ pc'[w] \notin {"run", "recheck", "prev", "write"}
    BY <1>0, <2>1 DEF Sending, InStep
  <2> QED
    BY <1>5, <1>6, <2>2
<1>8. CASE \/ \E m \in Message : Claim(w, m)
           \/ LoadSkip(w) \/ ScheduleNext(w) \/ DispatchCompletion(w)
           \/ DispatchError(w) \/ ReleaseStepLock(w) \/ Crash(w)
  <2>1. \E l \in {"off", "load", "release200", "release500"} : pc' = [pc EXCEPT ![w] = l]
    BY <1>8 DEF Claim, LoadSkip, ScheduleNext, DispatchCompletion, DispatchError,
                ReleaseStepLock, Crash, Leave, Goto
  <2> QED
    BY <1>7, <2>1
<1>9. CASE LoadTerminal(w)
  <2>1. pc'[w] = "next" /\ mem'[w] = op /\ op.status \in Terminal
    BY <1>0, <1>9 DEF LoadTerminal, Goto
  <2>2. ~InStep(w)' /\ ~Sending(w)'
    BY <1>0, <2>1 DEF InStep, ShouldContinueExecution, Sending, Active, Terminal
  <2> QED
    BY <1>5, <1>6, <2>1, <2>2
<1>10. CASE LoadProceed(w) \/ RunStep(w) \/ Recheck(w)
  <2>1. ~Decided
    <3>1. CASE LoadProceed(w)
      <4>1. op.stepCount <= job[w].step /\ op.status \notin Terminal
        BY <1>0, <3>1 DEF LoadProceed, StepAlreadyCompleted, TypeOK, State, Message, Steps
      <4>2. op.stepCount = G /\ job[w].step <= F /\ (op.status = "waiting_for_human" => G = F + 1)
        BY <4>1 DEF Frontier
      <4>3. op.status # "waiting_for_human"
        BY <4>1, <4>2 DEF TypeOK, Message, Steps
      <4> QED
        BY <4>1, <4>3 DEF Decided, StreamEnd
    <3>2. CASE RunStep(w) \/ Recheck(w)
      <4>1. Computing(w)
        BY <3>2 DEF RunStep, Recheck, Computing
      <4> QED
        BY <4>1 DEF Decided
    <3> QED
      BY <1>10, <3>1, <3>2
  <2>2. ~Sending(w)'
    <3>1. CASE LoadProceed(w) \/ RunStep(w)
      <4>1. pc'[w] \in {"run", "recheck"}
        BY <1>0, <3>1 DEF LoadProceed, RunStep, Goto
      <4> QED
        BY <1>0, <4>1 DEF Sending
    <3>2. CASE Recheck(w)
      <4>1. pc'[w] = "prev" /\ resume'[w] = "stepEvent"
        BY <1>0, <3>2 DEF Recheck, Goto
      <4> QED
        BY <1>0, <4>1 DEF Sending
    <3> QED
      BY <1>10, <3>1, <3>2
  <2> QED
    BY <1>5, <2>1, <2>2
<1>11. CASE SaveLoadPrevious(w)
  <2>1. /\ pc[w] = "prev" /\ pc'[w] = "write" /\ prev'[w] = op.status
        /\ resume'[w] = resume[w] /\ mem'[w] = mem[w]
    BY <1>0, <1>11 DEF SaveLoadPrevious, Goto
  <2>2. Sending(w)' => Sending(w)
    BY <1>0, <2>1 DEF Sending
  <2>3. ASSUME Decided PROVE Decided'
    <3>1. ~Computing(w)' /\ (InStep(w)' => mem'[w].status \in StreamEnd)
      BY <2>1, <2>3 DEF Decided, Computing, InStep
    <3> QED
      BY <1>1, <1>3, <1>4, <2>1, <2>3, <3>1, DecidedStays DEF Decided
  <2> QED
    BY <1>5, <2>2, <2>3
<1>12. CASE PublishStepComplete(w)
  <2>1. /\ pc[w] = "stepEvent" /\ pc'[w] \in {"prev", "next"} /\ resume'[w] = "next"
        /\ mem'[w] = mem[w]
    BY <1>0, <1>12 DEF PublishStepComplete, Goto
  <2>2. ~Sending(w)'
    BY <1>0, <2>1 DEF Sending
  <2>3. ASSUME Decided PROVE Decided'
    <3>1. mem'[w].status \in StreamEnd /\ ~Computing(w)' /\ op'.status \in StreamEnd
      BY <1>1, <2>1, <2>3 DEF Decided, Computing, InStep
    <3> QED
      BY <1>3, <1>4, <2>1, <2>3, <3>1, DecidedStays
  <2> QED
    BY <1>5, <2>2, <2>3
<1>13. CASE CatchLoad(w) \/ CatchFallback(w)
  <2>1. pc[w] = "catch" /\ pc'[w] = "prev" /\ resume'[w] = "fail"
    BY <1>0, <1>13 DEF CatchLoad, CatchFallback, SaveErrorState, Goto
  <2>2. Sending(w)
    BY <2>1 DEF Sending
  <2>3. ASSUME Decided PROVE Decided'
    <3>1. ~InStep(w)' /\ ~Computing(w)' /\ op'.status \in StreamEnd
      BY <1>1, <2>1, <2>3 DEF Decided, Computing, InStep
    <3> QED
      BY <1>3, <1>4, <2>1, <2>3, <3>1, DecidedStays
  <2> QED
    BY <1>5, <2>2, <2>3
<1> QED
  BY <1>8, <1>9, <1>10, <1>11, <1>12, <1>13

(* A worker's write, its end event and its rejected calls *)
LEMMA EndSave ==
  ASSUME LockInv, [Next]_vars, NEW F \in Nat, NEW G \in Nat, Frontier(F, G), EndBound,
         NEW w \in Workers, SaveWrite(w) \/ PublishAgentRuntimeEnd(w) \/ Throw(w)
  PROVE  EndBound'
<1>0. /\ TypeOK /\ TypeOK' /\ w \in Actors /\ w # Canceller
      /\ pc \in [Actors -> Label] /\ spent \in Budget
  BY NextType, ActorsAssumption DEF LockInv, TypeOK, Actors
<1>1. /\ UNCHANGED <<job, mem, resume, ctx, prev>>
      /\ \E label : pc' = [pc EXCEPT ![w] = label]
  BY DEF SaveWrite, PublishAgentRuntimeEnd, Throw, Goto
<1>2. (\A v \in Workers \ {w} : Unmoved(v)) /\ ClientsUnmoved
  BY <1>0, <1>1, OthersUnmoved
<1>3. \A b \in Actors \ {w} : Sending(b)' <=> Sending(b)
  BY <1>2, WorkerSends
<1>4. pc[w] \in {"prev", "write", "end"} =>
        /\ resume[w] \in {"stepEvent", "next", "fail"}
        /\ resume[w] = "fail" => mem[w].status = "error"
  BY DEF Frontier
<1>5. ASSUME op'.status \in StreamEnd,
             pc'[w] \in {"catch", "fail", "stepEvent", "next", "end"},
             InStep(w)' => InStep(w), Decided
      PROVE  Decided'
  <2>1. ~Computing(w)' /\ pc'[w] # "write"
    BY <1>5 DEF Computing
  <2>2. InStep(w)' => mem'[w].status \in StreamEnd
    BY <1>1, <1>5 DEF Decided
  <2> QED
    BY <1>0, <1>1, <1>2, <1>5, <2>1, <2>2, DecidedStays
<1>6. CASE PublishAgentRuntimeEnd(w)
  <2>1. pc[w] = "end" /\ pc'[w] = resume[w] /\ endEvents' = endEvents + 1 /\ op' = op
    BY <1>0, <1>6 DEF PublishAgentRuntimeEnd, Goto
  <2>2. Sending(w) /\ ~Sending(w)'
    BY <1>0, <1>4, <2>1 DEF Sending
  <2>3. Decided => Decided'
    <3>1. InStep(w)' => InStep(w)
      BY <1>1, <1>4, <2>1 DEF InStep, ShouldContinueExecution
    <3> QED
      BY <1>4, <1>5, <2>1, <3>1 DEF Decided
  <2> QED
    BY <1>0, <1>3, <2>1, <2>2, <2>3, BoundsMove
<1>7. ASSUME pc[w] = "write", op' = mem[w], Decided PROVE op'.status \in StreamEnd
  <2>1. CASE resume[w] = "fail"
    BY <1>4, <1>7, <2>1 DEF StreamEnd, Terminal
  <2>2. CASE resume[w] \in {"stepEvent", "next"}
    <3>1. InStep(w)
      BY <1>7, <2>2 DEF InStep
    <3> QED
      BY <1>7, <3>1 DEF Decided
  <2> QED
    BY <1>4, <1>7, <2>1, <2>2
<1>8. CASE SaveWrite(w)
  <2>1. /\ pc[w] = "write" /\ op' = mem[w] /\ endEvents' = endEvents
        /\ pc'[w] = IF HasEnteredStreamEndState(w) THEN "end" ELSE resume[w]
    BY <1>0, <1>8 DEF SaveWrite, Goto
  <2>2. InStep(w)' => InStep(w)
    BY <1>1, <1>4, <2>1 DEF InStep, ShouldContinueExecution
  <2>3. Decided => Decided'
    BY <1>4, <1>5, <1>7, <2>1, <2>2
  <2>4. CASE resume[w] = "fail" \/ ~HasEnteredStreamEndState(w)
    <3>1. Sending(w)' => Sending(w)
      BY <1>0, <1>1, <1>4, <2>1, <2>4 DEF Sending
    <3> QED
      BY <1>0, <1>3, <2>1, <2>3, <3>1, BoundsMove
  <2>5. CASE resume[w] # "fail" /\ HasEnteredStreamEndState(w)
    <3>1. resume[w] \in {"stepEvent", "next"} /\ InStep(w) /\ pc'[w] = "end"
      BY <1>4, <2>1, <2>5 DEF InStep
    <3>2. ~Decided
      BY <2>1, <2>5, <3>1 DEF HasEnteredStreamEndState, Decided, Computing
    <3>3. Decided'
      <4>1. ASSUME NEW v \in Workers
            PROVE  /\ ~Computing(v)'
                   /\ InStep(v)' => mem'[v].status \in StreamEnd
                   /\ ~(pc'[v] = "write" /\ resume'[v] = "next")
        <5>1. CASE v = w
          BY <1>1, <2>5, <3>1, <5>1 DEF Computing, HasEnteredStreamEndState
        <5>2. CASE v # w
          <6>1. ~InStep(v)
            BY <3>1, <5>2, SameStep
          <6>2. ~InStep(v)' /\ ~Computing(v)'
            BY <1>2, <5>2, <6>1, UnmovedLabels, ComputingInStep
          <6> QED
            BY <6>2 DEF InStep
        <5> QED
          BY <5>1, <5>2
      <4>2. op'.status \in StreamEnd
        BY <2>1, <2>5 DEF HasEnteredStreamEndState
      <4> QED
        BY <4>1, <4>2 DEF Decided
    <3>4. Cardinality(Senders') <= Cardinality(Senders) + 1
      BY <1>0, <1>3, OneSender
    <3>5. /\ endEvents \in Nat /\ spent' = spent
          /\ spent.throw \in Nat /\ spent.interrupt \in Nat
      BY <1>0, <1>8, SpentType DEF SaveWrite, TypeOK, Kinds
    <3> QED
      BY <2>1, <3>2, <3>3, <3>4, <3>5, SendersFinite DEF EndBound
  <2> QED
    BY <2>4, <2>5
<1>9. CASE Throw(w)
  <2>1. /\ pc'[w] = (IF resume[w] = "fail" THEN "fail" ELSE "catch")
        /\ op' = op \/ (pc[w] = "write" /\ op' = mem[w])
        /\ \/ endEvents' = endEvents
           \/ endEvents' = endEvents + 1 /\ pc[w] = "end"
        /\ Spend(IF resume[w] = "fail" THEN "catch" ELSE "throw")
    BY <1>0, <1>9 DEF Throw, Goto
  <2>2. Decided => Decided'
    <3>1. ~InStep(w)'
      BY <2>1 DEF InStep
    <3> QED
      BY <1>5, <1>7, <2>1, <3>1 DEF Decided
  <2>3. CASE resume[w] = "fail"
    <3>1. ~Sending(w)' /\ (pc[w] = "end" => Sending(w))
      BY <1>0, <2>1, <2>3 DEF Sending
    <3>2. \/ endEvents' = endEvents /\ (Sending(w)' => Sending(w))
          \/ endEvents' \in {endEvents, endEvents + 1} /\ Sending(w) /\ ~Sending(w)'
      BY <2>1, <3>1
    <3> QED
      BY <1>0, <1>3, <2>2, <3>2, BoundsMove
  <2>4. CASE resume[w] # "fail"
    <3>1. spent'.throw = spent.throw + 1
      BY <1>0, <2>1, <2>4, SpendType DEF Kinds
    <3>2. pc[w] = "end" => Sending(w)
      BY DEF Sending
    <3>3. \/ endEvents' = endEvents
          \/ endEvents' = endEvents + 1 /\ Sending(w)
      BY <2>1, <3>2
    <3> QED
      BY <1>0, <1>3, <2>2, <3>1, <3>3, BoundsMove
  <2> QED
    BY <2>3, <2>4
<1> QED
  BY <1>6, <1>8, <1>9

(* What changes no actor *)
LEMMA EndAside ==
  ASSUME TypeOK, [Next]_vars, UNCHANGED <<op, pc, mem, prev, ctx, resume, endEvents>>
  PROVE  /\ EarlyBound => EarlyBound'
         /\ EndBound => EndBound'
<1>1. Senders' = Senders
  BY DEF Senders, Sending
<1>2. Decided' <=> Decided
  BY DEF Decided, Computing, InStep, ShouldContinueExecution
<1>3. /\ endEvents \in Nat
      /\ spent.throw \in Nat /\ spent'.throw \in Nat /\ spent.throw <= spent'.throw
      /\ spent.interrupt \in Nat /\ spent'.interrupt \in Nat
      /\ spent.interrupt <= spent'.interrupt
  BY Frugal DEF TypeOK, Kinds
<1> QED
  BY <1>1, <1>2, <1>3, SendersFinite DEF EarlyBound, EndBound

(* The chain has begun *)
LEMMA EndBoundNext ==
  ASSUME LockInv, FrontierInv, EndBound, ~StartExecution, [Next]_vars
  PROVE  EndBound'
<1>1. TypeOK
  BY DEF LockInv
<1>2. PICK F \in Nat, G \in Nat : Frontier(F, G)
  BY BoundsAssumption DEF FrontierInv, Steps
<1>3. /\ pc[Starter] = "off"
      /\ pc[Canceller] \in {"prev", "write", "end"} =>
           resume[Canceller] = "ack" /\ mem[Canceller].status = "interrupted"
  BY <1>2 DEF Frontier
<1>4. ~Start /\ ~Throw(Starter)
  BY <1>3 DEF Start, Save, ScheduleStart, SaveLoadPrevious, SaveWrite,
              PublishAgentRuntimeEnd, Throw
<1>5. Cancel \/ Throw(Canceller) => EndBound'
  BY <1>1, <1>3, EndClient DEF Cancel
<1>6. ASSUME NEW w \in Workers, Handle(w) \/ Crash(w) \/ CatchFallback(w) \/ Throw(w)
      PROVE  EndBound'
  BY <1>1, <1>2, <1>6, EndQuiet, EndSave DEF Handle, Save
<1>7. ASSUME \/ \E m \in Message : Locked(m) \/ RetryAfter(m)
             \/ \E s \in Steps : LockExpire(s)
             \/ \E w \in Workers : DeliveryTimeout(w)
             \/ UNCHANGED vars
      PROVE  EndBound'
  <2>1. UNCHANGED <<op, pc, mem, prev, ctx, resume, endEvents>>
    BY <1>7 DEF Locked, RetryAfter, LockExpire, DeliveryTimeout, vars
  <2> QED
    BY <1>1, <2>1, EndAside
<1> QED
  BY <1>4, <1>5, <1>6, <1>7 DEF Next, Actors

(* ... and has not *)
LEMMA EarlyBoundNext ==
  ASSUME TypeOK, Before, EarlyBound, [Next]_vars
  PROVE  EarlyBound'
<1>1. ASSUME NEW m \in Message PROVE ~(queue[m] > 0)
  <2>1. queue[m] = 0
    BY DEF Before
  <2> QED
    BY <2>1
<1>2. ASSUME NEW w \in Workers
      PROVE  ~(Handle(w) \/ DeliveryTimeout(w) \/ Crash(w) \/ CatchFallback(w) \/ Throw(w))
  BY <1>1
  DEF Before, Handle, Claim, Deliverable, LoadSkip, LoadTerminal, LoadProceed,
      RunStep, Recheck, Save, SaveLoadPrevious, SaveWrite,
      PublishAgentRuntimeEnd, PublishStepComplete, ScheduleNext,
      DispatchCompletion, CatchLoad, DispatchError, ReleaseStepLock,
      DeliveryTimeout, Crash, Executing, CatchFallback, Throw
<1>3. ASSUME \/ \E m \in Message : Locked(m) \/ RetryAfter(m)
             \/ \E s \in Steps : LockExpire(s)
             \/ UNCHANGED vars
      PROVE  EarlyBound'
  <2>1. UNCHANGED <<op, pc, mem, prev, ctx, resume, endEvents>>
    BY <1>3 DEF Locked, RetryAfter, LockExpire, vars
  <2> QED
    BY <2>1, EndAside
<1>4. /\ pc[Canceller] \in {"prev", "write", "end"} =>
           resume[Canceller] = "ack" /\ mem[Canceller].status = "interrupted"
      /\ pc[Starter] # "end"
      /\ pc[Starter] \in {"prev", "write", "end"} =>
           resume[Starter] = "enqueue" /\ mem[Starter].status = "running"
  BY DEF Before
<1>5. Cancel \/ Throw(Canceller) => EarlyBound'
  BY <1>4, EndClient DEF Cancel
<1>6. Start \/ Throw(Starter) => EarlyBound'
  BY <1>4, EndClient DEF Start
<1> QED
  BY <1>2, <1>3, <1>5, <1>6 DEF Next, Actors

(* The one chain of messages and what it has to send *)
EndInv ==
  \/ Before /\ ~AutoStart /\ EarlyBound
  \/ FrontierInv /\ (AutoStart \/ spent.start >= 1) /\ EndBound

LEMMA EndInvNext ==
  ASSUME LockInv, ContextInv, EndInv, [Next]_vars, OneChain'
  PROVE  EndInv'
<1>1. TypeOK /\ TypeOK' /\ ChainInv /\ ChainInv'
  <2>1. ChainInv /\ TypeOK
    BY DEF EndInv, ChainInv, LockInv
  <2> QED
    BY <2>1, OneChainNext, NextType
<1>2. spent.start \in Nat /\ spent'.start \in Nat /\ spent.start <= spent'.start
  BY <1>1, Frugal DEF Kinds
<1>3. CASE Before /\ ~AutoStart /\ EarlyBound
  <2>1. EarlyBound'
    BY <1>1, <1>3, EarlyBoundNext
  <2>2. EndBound'
    <3>1. /\ endEvents' \in Nat /\ spent'.throw \in Nat /\ spent'.interrupt \in Nat
      BY <1>1, Frugal DEF TypeOK, Kinds
    <3> QED
      BY <2>1, <3>1, SendersFinite DEF EarlyBound, EndBound
  <2> QED
    BY <1>1, <2>1, <2>2 DEF EndInv, ChainInv
<1>4. CASE FrontierInv /\ (AutoStart \/ spent.start >= 1) /\ EndBound
  <2>1. ~StartExecution
    <3>1. ASSUME StartExecution PROVE spent'.start = spent.start + 1
      BY <1>1, <3>1 DEF StartExecution, Spend, TypeOK, Budget
    <3> QED
      BY <1>2, <1>4, <3>1 DEF OneChain
  <2>2. EndBound'
    BY <1>4, <2>1, EndBoundNext
  <2>3. PICK F \in Steps, G \in Nat : Frontier(F, G)
    BY <1>4 DEF FrontierInv
  <2>4. FrontierFrom(F)'
    BY <2>1, <2>3, FrontierNext
  <2>5. FrontierInv'
    BY <2>4 DEF FrontierFrom, FrontierInv
  <2> QED
    BY <1>2, <1>4, <2>2, <2>5 DEF EndInv
<1> QED
  BY <1>3, <1>4 DEF EndInv

(* An operation whose messages form one chain, and whose lock has kept its steps
   apart, sends agent_runtime_end once, and once more at most for every interrupt
   and for every rejected call, although a save reads the status that it compares
   with before it writes and others may save in between. *)
THEOREM EndSentOnce == Spec => []EndEventAtMostOnce
<1>1. Init => EndInv
  <2> SUFFICES ASSUME Init PROVE EndInv
    OBVIOUS
  <2>1. Senders = {} /\ endEvents = 0 /\ spent.throw = 0 /\ spent.interrupt = 0
    BY DEF Init, Senders, Sending, Limit, Actors
  <2>2. EarlyBound /\ EndBound
    BY <2>1, FS_EmptySet DEF EarlyBound, EndBound
  <2> QED
    BY <2>2, ChainInit DEF ChainInv, EndInv
<1>2. Background /\ (Covered => LockInv) /\ (Covered /\ OneChain => EndInv) /\ [Next]_vars
        => (Covered /\ OneChain => EndInv)'
  BY EndInvNext, Histories DEF Background
<1>3. Background /\ (Covered /\ OneChain => EndInv) => EndEventAtMostOnce
  <2> SUFFICES ASSUME TypeOK, EndInv PROVE endEvents <= 1 + spent.interrupt + spent.throw
    BY DEF Background, EndEventAtMostOnce
  <2>1. endEvents \in Nat /\ spent.throw \in Nat /\ spent.interrupt \in Nat
    BY SpentType DEF TypeOK, Kinds
  <2> QED
    BY <2>1, SendersFinite DEF EndInv, EarlyBound, EndBound
<1> QED
  BY <1>1, <1>2, <1>3, BackgroundInvariant, LockInvariant, PTL DEF Spec

=============================================================================
