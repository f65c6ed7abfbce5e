---------------------- MODULE AgentStreamClientProofs ----------------------
(***************************************************************************)
(* What the client of AgentStreamClient does is right for any number of    *)
(* events and lost connections.                                            *)
(*                                                                         *)
(*  - It never hangs and never speaks after it was left, whatever the      *)
(*    gateway does with live events.  OneWayForward is inductive: what     *)
(*    each callback needs to know is that it cannot run in a client that   *)
(*    is disconnected, because a socket, a timer or resume mode is what    *)
(*    runs it.                                                             *)
(*  - Its variables have their types (Typed).                              *)
(*  - On the first connection of a reloaded page no event is handled       *)
(*    twice, also when live events come before the replay                  *)
(*    (FirstConnection).                                                   *)
(*  - As long as no live event overtakes a replay, all events are handled *)
(*    in order (Told).                                                     *)
(*  - Whatever comes first, the session is completed behind its end, if    *)
(*    the client did not resume after it (Ending).                         *)
(***************************************************************************)
EXTENDS AgentStreamClient, WellFoundedInduction, TLAPS

(* A disconnect leads to the first half of the invariant. *)
LEMMA DisconnectForward ==
  ASSUME NEW complete \in BOOLEAN, Disconnect(complete)
  PROVE  OneWayForward' /\ status' = "disconnected"
BY DEF Disconnect, Cleanup, OneWayForward

(* So does giving up the socket of a client that is not disconnected. *)
LEMMA ReconnectForward ==
  ASSUME OneWayForward, status # "disconnected", ScheduleReconnect
  PROVE  OneWayForward'
BY DEF ScheduleReconnect, OneWayForward, resumeVars, storeVars

(* Every step keeps the invariant. *)
LEMMA StepForward ==
  ASSUME OneWayForward, [Next]_vars
  PROVE  OneWayForward'
<1>1. CASE Gateway
  BY <1>1 DEF Gateway, Arrive, GatewayAuth, GatewayReplay, GatewaySessionComplete,
     Drop, OneWayForward, socketVars, resumeVars, storeVars
<1>2. CASE HandleOpen
  BY <1>2 DEF HandleOpen, OneWayForward, resumeVars, storeVars
<1>3. CASE HandleClose \/ HeartbeatTimeout \/ ConnectFails
  <2>1. status # "disconnected" /\ ScheduleReconnect
    BY <1>3 DEF HandleClose, HeartbeatTimeout, ConnectFails, OneWayForward
  <2> QED BY <2>1, ReconnectForward
<1>4. CASE DoConnect
  BY <1>4 DEF DoConnect, OneWayForward, resumeVars, storeVars
<1>5. CASE OnAuthSuccess
  <2>1. /\ sock = "open" /\ sock' = "open"
        /\ status' = "connected"
        /\ UNCHANGED <<reconnectTimer, tracked>>
        /\ ~reconnectTimer /\ status # "disconnected"
    BY <1>5 DEF OnAuthSuccess, Receive, OneWayForward, storeVars
  <2>2. resumeMode' <=> flushTimer' # "none"
    BY <1>5 DEF OnAuthSuccess, EnterResumeMode, OneWayForward
  <2> QED BY <2>1, <2>2 DEF OneWayForward
<1>6. CASE OnLiveEvent
  <2>1. CASE Head(down).id = EndEvent
    BY <1>6, <2>1, DisconnectForward DEF OnLiveEvent
  <2>2. CASE Head(down).id # EndEvent
    BY <1>6, <2>2 DEF OnLiveEvent, OneWayForward, socketVars
  <2> QED BY <2>1, <2>2
<1>7. CASE OnReplayedEvent
  BY <1>7 DEF OnReplayedEvent, OneWayForward, socketVars, storeVars
<1>8. CASE ResumeFlush
  <2>1. resumeMode
    BY <1>8 DEF ResumeFlush, OneWayForward
  <2> QED
    BY <1>8, <2>1 DEF ResumeFlush, FlushResumeBuffer, OneWayForward, socketVars
<1>9. CASE StaleTimeout
  <2>1. CASE NothingToReplay
    BY <1>9, <2>1, DisconnectForward DEF StaleTimeout
  <2>2. CASE ~NothingToReplay
    BY <1>9, <2>2 DEF StaleTimeout, OneWayForward, socketVars
  <2> QED BY <2>1, <2>2
<1>10. CASE DisconnectFromGateway \/ OnAuthFailed \/ OnReplayedEnd
            \/ OnSessionComplete \/ ResumeTimeout
  <2>1. PICK complete \in BOOLEAN : Disconnect(complete)
    BY <1>10 DEF DisconnectFromGateway, OnAuthFailed, OnReplayedEnd,
       OnSessionComplete, ResumeTimeout
  <2> QED BY <2>1, DisconnectForward
<1>11. CASE UNCHANGED vars
  BY <1>11 DEF vars, socketVars, resumeVars, storeVars, OneWayForward
<1> QED
  BY <1>1, <1>2, <1>3, <1>4, <1>5, <1>6, <1>7, <1>8, <1>9, <1>10, <1>11
     DEF Next, Connection, HandleMessage, ResumeTimer

(* connectToGateway starts with a socket that connects. *)
LEMMA InitForward == Init => OneWayForward
BY DEF Init, OneWayForward

(* The client is disconnected with nothing left running, or exactly one of a
   socket and a reconnect timer will take it further, and a buffer has a timer. *)
THEOREM ClientNeverStuck == Spec => []OneWayForward
<1>1. OneWayForward /\ [Next]_vars => OneWayForward'
  BY StepForward
<1> QED BY <1>1, InitForward, PTL DEF Spec

(* In a disconnected client no callback does anything. *)
LEMMA StepQuiet ==
  ASSUME OneWayForward, status = "disconnected", [Next]_vars
  PROVE  UNCHANGED <<emitted, sessionCompleted, status>>
<1>1. sock = "none" /\ ~heartbeat /\ ~reconnectTimer /\ ~resumeMode
        /\ flushTimer = "none" /\ ~tracked
  BY DEF OneWayForward
<1>2. CASE Gateway
  BY <1>2 DEF Gateway, Arrive, GatewayAuth, GatewayReplay, GatewaySessionComplete,
     Drop, socketVars, storeVars
<1>3. CASE Connection
  BY <1>1, <1>3 DEF Connection, HandleOpen, HandleClose, HeartbeatTimeout,
     ConnectFails, DoConnect, DisconnectFromGateway
<1>4. CASE HandleMessage
  BY <1>1, <1>4 DEF HandleMessage, OnAuthSuccess, OnAuthFailed, OnLiveEvent,
     OnReplayedEvent, OnReplayedEnd, OnSessionComplete, Receive
<1>5. CASE ResumeTimer
  BY <1>1, <1>5 DEF ResumeTimer, ResumeFlush, ResumeTimeout, StaleTimeout,
     NothingToReplay, socketVars
<1>6. CASE UNCHANGED vars
  BY <1>6 DEF vars, socketVars, storeVars
<1> QED BY <1>2, <1>3, <1>4, <1>5, <1>6 DEF Next

(* After disconnect no event reaches the event handler and onSessionComplete is
   not called. *)
THEOREM ClientQuietAfterDisconnect == Spec => QuietAfterDisconnect
<1>1. OneWayForward /\ [Next]_vars
        => [status = "disconnected" => UNCHANGED <<emitted, sessionCompleted,
                                                   status>>]_vars
  BY StepQuiet
<1>2. Spec => []OneWayForward
  BY ClientNeverStuck
<1> QED BY <1>1, <1>2, PTL DEF Spec, QuietAfterDisconnect

-----------------------------------------------------------------------------
(* What Deduplicated computes, by induction on the number of events *)

(* A set of numbers has a least one: induction without an operator for the
   induction hypothesis. *)
LEMMA LeastNumber ==
  ASSUME NEW S, S \subseteq Nat, S # {}
  PROVE  \E n \in S : \A m \in S : n <= m
<1> DEFINE R == {ss \in Nat \X Nat : ss[1] < ss[2]}
<1>1. IsWellFoundedOn(R, Nat)
  BY NatLessThanWellFounded DEF OpToRel
<1> HIDE DEF R
<1>2. PICK n \in S : \A m \in S : <<m, n>> \notin R
  BY <1>1, WFMin
<1>3. \A m \in S : ~(m < n)
  BY <1>2 DEF R
<1> QED BY <1>3

(* What the loop does with an event *)
Add(d, e) == IF Contains(d, e) THEN d ELSE Append(d, e)

(* f is the function that Deduplicated defines, on the first m events. *)
Counts(s, m, f) ==
  f = [n \in 0..m |-> IF n = 0 THEN <<>> ELSE Add(f[n - 1], s[n])]

(* There is such a function. *)
LEMMA CountsExist ==
  ASSUME NEW T, NEW s \in Seq(T)
  PROVE  \A m \in 0..Len(s) : \E f : Counts(s, m, f)
<1> DEFINE Bad == {m \in 0..Len(s) : ~ \E f : Counts(s, m, f)}
<1>1. SUFFICES ASSUME Bad # {} PROVE FALSE
  OBVIOUS
<1>2. PICK m \in Bad : \A k \in Bad : m <= k
  <2>1. Bad \subseteq Nat
    OBVIOUS
  <2> HIDE DEF Bad
  <2> QED BY <1>1, <2>1, LeastNumber
<1>3. CASE m = 0
  <2> DEFINE f == [n \in 0..0 |-> <<>>]
  <2>1. Counts(s, 0, f)
    BY DEF Counts
  <2> QED BY <1>2, <1>3, <2>1
<1>4. CASE m # 0
  <2>1. m - 1 \in 0..Len(s) /\ m - 1 \notin Bad /\ m \in 1..Len(s)
    BY <1>2, <1>4
  <2>2. PICK f : Counts(s, m - 1, f)
    BY <2>1
  <2> DEFINE g == [n \in 0..m |-> IF n = m THEN Add(f[m - 1], s[m]) ELSE f[n]]
  <2>3. ASSUME NEW n \in 0..m PROVE g[n] = IF n = 0 THEN <<>> ELSE Add(g[n - 1], s[n])
    <3>1. CASE n = m
      BY <1>4, <2>1, <3>1
    <3>2. CASE n # m
      BY <2>1, <2>2, <3>2 DEF Counts
    <3> QED BY <3>1, <3>2
  <2>4. Counts(s, m, g)
    BY <2>3 DEF Counts
  <2> QED BY <1>2, <2>4
<1> QED BY <1>3, <1>4

(* Deduplicated is what it has for all events. *)
LEMMA DeduplicatedIs ==
  ASSUME NEW T, NEW s \in Seq(T)
  PROVE  \E f : Counts(s, Len(s), f) /\ Deduplicated(s) = f[Len(s)]
<1> DEFINE f == CHOOSE f : f = [n \in 0..Len(s) |->
        IF n = 0 THEN <<>>
        ELSE IF Contains(f[n - 1], s[n]) THEN f[n - 1]
        ELSE Append(f[n - 1], s[n])]
<1>1. Deduplicated(s) = f[Len(s)]
  BY DEF Deduplicated
<1>2. \E g : Counts(s, Len(s), g)
  BY CountsExist
<1>3. f = [n \in 0..Len(s) |->
        IF n = 0 THEN <<>>
        ELSE IF Contains(f[n - 1], s[n]) THEN f[n - 1]
        ELSE Append(f[n - 1], s[n])]
  BY <1>2 DEF Counts, Add
<1>4. Counts(s, Len(s), f)
  BY <1>3, Zenon DEF Counts, Add
<1> QED BY <1>1, <1>4

(* No element comes twice. *)
Once(d) == \A i, j \in 1..Len(d) : d[i] = d[j] => i = j

(* What the loop has after n events: each of them once. *)
Holds(s, n, d, T) ==
  /\ d \in Seq(T) /\ Once(d)
  /\ \A i \in 1..Len(d) : \E j \in 1..n : d[i] = s[j]
  /\ Once(s) => d = [i \in 1..n |-> s[i]]

(* One event more *)
LEMMA AddHolds ==
  ASSUME NEW T, NEW s \in Seq(T), NEW n \in 1..Len(s), NEW d, Holds(s, n - 1, d, T)
  PROVE  Holds(s, n, Add(d, s[n]), T)
<1> DEFINE a == Add(d, s[n])
<1>1. s[n] \in T /\ d \in Seq(T) /\ Once(d) /\ Len(d) \in Nat
  BY DEF Holds
<1>2. CASE Contains(d, s[n])
  <2>1. a = d
    BY <1>2 DEF Add
  <2>2. \A i \in 1..Len(d) : \E j \in 1..n : d[i] = s[j]
    BY DEF Holds
  <2>3. ~Once(s)
    <3>1. PICK i \in 1..Len(d) : d[i] = s[n]
      BY <1>2 DEF Contains
    <3>2. PICK j \in 1..(n - 1) : d[i] = s[j]
      BY DEF Holds
    <3>3. j \in 1..Len(s) /\ n \in 1..Len(s) /\ j # n /\ s[j] = s[n]
      BY <3>1, <3>2
    <3> QED BY <3>3 DEF Once
  <2> HIDE DEF a
  <2>4. Holds(s, n, a, T)
    BY <1>1, <2>1, <2>2, <2>3 DEF Holds
  <2> QED BY <2>4 DEF a
<1>3. CASE ~Contains(d, s[n])
  <2>1. a = Append(d, s[n])
    BY <1>3 DEF Add
  <2>2. a \in Seq(T) /\ Len(a) = Len(d) + 1 /\ a[Len(d) + 1] = s[n]
        /\ \A i \in 1..Len(d) : a[i] = d[i]
    BY <1>1, <2>1
  <2> HIDE DEF a
  <2>3. \A i \in 1..Len(d) : d[i] # s[n]
    BY <1>3 DEF Contains
  <2>4. Once(a)
    BY <1>1, <2>2, <2>3 DEF Once
  <2>5. \A i \in 1..Len(a) : \E j \in 1..n : a[i] = s[j]
    <3> SUFFICES ASSUME NEW i \in 1..Len(a) PROVE \E j \in 1..n : a[i] = s[j]
      OBVIOUS
    <3>1. CASE i = Len(a)
      BY <1>1, <2>2, <3>1
    <3>2. CASE i # Len(a)
      <4>1. i \in 1..Len(d)
        BY <1>1, <2>2, <3>2
      <4> QED BY <2>2, <4>1 DEF Holds
    <3> QED BY <3>1, <3>2
  <2>6. ASSUME Once(s) PROVE a = [i \in 1..n |-> s[i]]
    <3>1. d = [i \in 1..(n - 1) |-> s[i]]
      BY <2>6 DEF Holds
    <3>2. Len(d) = n - 1
      BY <1>1, <3>1
    <3>3. Len(a) = n /\ a \in Seq(T)
      BY <2>2, <3>2
    <3>4. \A i \in 1..n : a[i] = s[i]
      BY <2>2, <3>1, <3>2
    <3>5. a = [i \in 1..n |-> a[i]]
      BY <3>3
    <3> QED BY <3>4, <3>5
  <2>7. Holds(s, n, a, T)
    BY <2>2, <2>4, <2>5, <2>6 DEF Holds
  <2> QED BY <2>7 DEF a
<1> QED BY <1>2, <1>3

(* Deduplicated keeps events, each once, and keeps all if none comes twice. *)
LEMMA DeduplicatedHolds ==
  ASSUME NEW T, NEW s \in Seq(T)
  PROVE  Holds(s, Len(s), Deduplicated(s), T)
<1>1. PICK f : Counts(s, Len(s), f) /\ Deduplicated(s) = f[Len(s)]
  BY DeduplicatedIs
<1>2. \A n \in 0..Len(s) : f[n] = IF n = 0 THEN <<>> ELSE Add(f[n - 1], s[n])
  BY <1>1 DEF Counts
<1> DEFINE Bad == {n \in 0..Len(s) : ~Holds(s, n, f[n], T)}
<1>3. SUFFICES ASSUME Bad # {} PROVE FALSE
  BY <1>1
<1>4. PICK n \in Bad : \A k \in Bad : n <= k
  <2>1. Bad \subseteq Nat
    OBVIOUS
  <2> HIDE DEF Bad
  <2> QED BY <1>3, <2>1, LeastNumber
<1>5. n # 0
  <2>1. Holds(s, 0, <<>>, T)
    BY DEF Holds, Once
  <2>2. 0 \in 0..Len(s)
    OBVIOUS
  <2>3. f[0] = <<>>
    BY <1>2, <2>2
  <2> QED BY <1>4, <2>1, <2>3
<1>6. n \in 1..Len(s) /\ n - 1 \in 0..Len(s) /\ n - 1 \notin Bad
  BY <1>4, <1>5
<1>7. Holds(s, n - 1, f[n - 1], T)
  BY <1>6
<1>8. f[n] = Add(f[n - 1], s[n])
  BY <1>2, <1>4, <1>5
<1>9. Holds(s, n, Add(f[n - 1], s[n]), T)
  BY <1>6, <1>7, AddHolds
<1> QED BY <1>4, <1>8, <1>9

-----------------------------------------------------------------------------
(* What the proofs add to the invariants above *)

AuthAnswers == {"auth_success", "auth_failed"}

(* The gateway's answer to auth is the first message of a connection, what it
   sends it has received, and a socket that is not open has no other end. *)
Channel ==
  /\ sock # "open" => peer = "none"
  /\ peer \in {"none", "auth"} => down = <<>>
  /\ peer = "authed" => down # <<>> /\ down[1].type \in AuthAnswers
  /\ \A i \in 1..Len(down) :
       /\ down[i].type \in AuthAnswers => i = 1 /\ peer = "authed"
       /\ down[i].type = "agent_event" => down[i].id <= arrived

(* A resume timeout is set once in a connection, so that those which are
   forgotten, and one that a new connection finds, are of connections lost. *)
Timers ==
  /\ staleTimers <= drops
  /\ flushTimer = "timeout" /\ peer \notin {"resume", "live"} => staleTimers < drops

(* TypeOK in three parts *)
NumbersOK ==
  /\ arrived \in 0..LastEvent /\ drops \in 0..MaxDrops
  /\ resumeFrom \in 0..arrived /\ lastEventId \in 0..arrived
  /\ staleTimers \in 0..MaxDrops

ControlOK ==
  /\ peer \in {"none", "auth", "authed", "resume", "live"}
  /\ status \in {"connecting", "authenticating", "connected", "reconnecting",
                 "disconnected"}
  /\ sock \in {"none", "connecting", "open"}
  /\ flushTimer \in {"none", "flush", "timeout"}
  /\ kept \in BOOLEAN /\ resumeOnConnect \in BOOLEAN /\ overtaken \in BOOLEAN
  /\ heartbeat \in BOOLEAN /\ reconnectTimer \in BOOLEAN /\ resumeMode \in BOOLEAN
  /\ tracked \in BOOLEAN /\ sessionCompleted \in BOOLEAN

SequencesOK ==
  /\ down \in Seq(ServerMessage)
  /\ resumeBuffer \in Seq(1..arrived) /\ emitted \in Seq(1..arrived)

(* What TypeOK rests on *)
Typed ==
  /\ NumbersOK /\ ControlOK /\ SequencesOK
  /\ OneWayForward /\ Channel /\ Timers

IsEvent(i) == down[i].type = "agent_event"

(* The events under way are in order and newer than all that are handled. *)
Increasing ==
  /\ \A i \in 1..Len(down), j \in 1..Len(emitted) :
       IsEvent(i) => down[i].id > emitted[j]
  /\ \A i, j \in 1..Len(down) :
       i < j /\ IsEvent(i) /\ IsEvent(j) => down[i].id < down[j].id

(* The connection of a reloaded page buffers until it is live and silent. *)
Replaying ==
  /\ Once(emitted)
  /\ peer \in {"none", "auth", "authed"} /\ status # "disconnected" =>
       emitted = <<>> /\ resumeBuffer = <<>> /\ lastEventId = 0 /\ ~resumeMode
  /\ peer = "resume" => resumeMode
  /\ resumeMode => peer \in {"resume", "live"} /\ emitted = <<>>
  /\ ~resumeMode /\ peer = "live" => Increasing

FirstConnection == drops = 0 /\ resumeOnConnect => Replaying

(* The events from the first on *)
InOrder(s) == \A i \in 1..Len(s) : s[i] = i

(* What is under way on a live connection: the events after lastEventId, and
   session_complete behind the terminal one. *)
UnderWay(c) ==
  /\ c <= Len(down) => Len(down) = arrived - lastEventId + 1 /\ lastEventId + c > EndEvent
  /\ c > Len(down) => Len(down) = arrived - lastEventId
  /\ \A i \in 1..Len(down) :
       down[i] = IF i < c THEN AgentEvent(lastEventId + i)
                 ELSE IF i = c THEN Signal("session_complete")
                 ELSE AgentEvent(lastEventId + i - 1)

(* A client that is not disconnected has handled or buffered the events up to
   lastEventId. *)
Handled ==
  /\ lastEventId < EndEvent
  /\ Len(emitted) + Len(resumeBuffer) = lastEventId
  /\ InOrder(emitted) /\ InOrder(resumeBuffer)
  /\ ~resumeMode => resumeBuffer = <<>>
  /\ resumeMode => resumeOnConnect /\ emitted = <<>>
  /\ ~sessionCompleted

(* The others come, unless the gateway has forgotten them all. *)
Coming ==
  /\ peer = "authed" => Len(down) = 1
  /\ peer = "resume" => down = <<>> /\ resumeFrom = lastEventId
  /\ peer = "live" /\ kept => \E c \in 1..(Len(down) + 1) : UnderWay(c)
  /\ ~kept => /\ lastEventId = 0 /\ arrived = LastEvent
             /\ \A i \in 1..Len(down) : ~IsEvent(i)

(* What EmittedInOrder rests on *)
Told ==
  /\ InOrder(emitted)
  /\ status # "disconnected" => Handled /\ Coming

(* The end is among the first n messages of s. *)
EndIn(s, n) == \E j \in 1..n : s[j] = AgentEvent(EndEvent)

Completes(s, i) == s[i].type = "session_complete"

(* On a connection that resumes before the end, session_complete comes behind
   the end, and the end comes once it has arrived. *)
EndComes ==
  /\ peer \in {"authed", "resume"} => \A i \in 1..Len(down) : ~Completes(down, i)
  /\ peer = "live" /\ ~EndSkipped =>
       /\ \A i \in 1..Len(down) : Completes(down, i) => EndIn(down, i - 1)
       /\ Over => EndIn(down, Len(down))

(* The replay of a reloaded page is not empty. *)
Owing == kept /\ drops = 0 /\ NothingToReplay => Owed

(* What CompletedMeansAll rests on *)
Ending ==
  /\ CompletedMeansAll
  /\ resumeMode => resumeOnConnect
  /\ resumeOnConnect => arrived >= 1
  /\ resumeOnConnect /\ drops = 0 => resumeFrom = 0
  /\ Owing
  /\ status # "disconnected" => ~sessionCompleted /\ (kept => EndComes)

-----------------------------------------------------------------------------
(* Sequences *)

(* The rest of a nonempty sequence *)
LEMMA TailIs ==
  ASSUME NEW T, NEW s \in Seq(T), s # <<>>
  PROVE  /\ Tail(s) \in Seq(T) /\ Len(s) \in Nat \ {0} /\ Len(Tail(s)) = Len(s) - 1
         /\ Head(s) = s[1] /\ s[1] \in T
         /\ \A i \in 1..Len(Tail(s)) : Tail(s)[i] = s[i + 1]
OBVIOUS

(* A sequence with one more element *)
LEMMA AppendIs ==
  ASSUME NEW T, NEW s \in Seq(T), NEW e \in T
  PROVE  /\ Append(s, e) \in Seq(T) /\ Len(s) \in Nat /\ Len(Append(s, e)) = Len(s) + 1
         /\ Append(s, e)[Len(s) + 1] = e
         /\ \A i \in 1..Len(s) : Append(s, e)[i] = s[i]
OBVIOUS

(* One sequence behind another *)
LEMMA ConcatIs ==
  ASSUME NEW T, NEW s \in Seq(T), NEW t \in Seq(T)
  PROVE  /\ s \o t \in Seq(T) /\ Len(s) \in Nat /\ Len(t) \in Nat
         /\ Len(s \o t) = Len(s) + Len(t)
         /\ \A i \in 1..Len(s) : (s \o t)[i] = s[i]
         /\ \A i \in 1..Len(t) : (s \o t)[Len(s) + i] = t[i]
OBVIOUS

(* A function on the first k numbers *)
LEMMA SequenceOf ==
  ASSUME NEW T, NEW k \in Nat, NEW s \in [1..k -> T]
  PROVE  s \in Seq(T) /\ Len(s) = k
OBVIOUS

(* An element of a sequence *)
LEMMA ElementIs ==
  ASSUME NEW T, NEW s \in Seq(T)
  PROVE  \A i \in 1..Len(s) : s[i] \in T
OBVIOUS

(* Nothing behind a sequence, and a sequence behind nothing *)
LEMMA ConcatNothing ==
  ASSUME NEW T, NEW s \in Seq(T)
  PROVE  s \o <<>> = s /\ <<>> \o s = s
OBVIOUS

-----------------------------------------------------------------------------
(* Types *)

(* Events of a shorter history are events of a longer one. *)
LEMMA HistoryGrows ==
  ASSUME NEW m \in Nat, NEW n \in Nat, m <= n, NEW s \in Seq(1..m)
  PROVE  s \in Seq(1..n)
OBVIOUS

(* The parts are TypeOK. *)
LEMMA TypesSplit == TypeOK <=> NumbersOK /\ ControlOK /\ SequencesOK
BY DEF TypeOK, NumbersOK, ControlOK, SequencesOK

(* A disconnect leaves nothing under way and no timer set. *)
LEMMA DisconnectTyped ==
  ASSUME Typed, NEW complete \in BOOLEAN, Disconnect(complete),
         lastEventId' \in 0..arrived, emitted' \in Seq(1..arrived),
         staleTimers' \in 0..staleTimers
  PROVE  Typed'
<1>1. NumbersOK'
  BY EventsAssumption DEF Typed, Disconnect, NumbersOK, fixed
<1>2. ControlOK'
  <2>1. sessionCompleted' \in BOOLEAN
    BY DEF Typed, Disconnect, ControlOK
  <2> QED BY <2>1 DEF Typed, Disconnect, Cleanup, ControlOK, fixed
<1>3. SequencesOK'
  <2>1. resumeBuffer' \in Seq(1..arrived) /\ down' \in Seq(ServerMessage)
        /\ arrived' = arrived
    BY DEF Disconnect, Cleanup
  <2> QED BY <2>1 DEF SequencesOK
<1>4. Channel'
  <2>1. peer' = "none" /\ sock' = "none" /\ down' = <<>>
    BY DEF Disconnect, Cleanup
  <2> QED BY <2>1 DEF Channel
<1>5. Timers'
  <2>1. flushTimer' = "none" /\ status' = "disconnected" /\ drops' = drops
    BY DEF Disconnect, Cleanup
  <2> QED BY <2>1, EventsAssumption DEF Typed, Timers, NumbersOK
<1> QED BY <1>1, <1>2, <1>3, <1>4, <1>5, DisconnectForward DEF Typed

(* A socket that is given up has lost its other end. *)
LEMMA ReconnectTyped ==
  ASSUME Typed, status # "disconnected", peer = "none", ScheduleReconnect,
         UNCHANGED <<arrived, overtaken, fixed, peer, resumeFrom, down>>,
         drops' \in drops..MaxDrops
  PROVE  Typed'
<1>1. NumbersOK'
  BY EventsAssumption DEF Typed, ScheduleReconnect, NumbersOK, resumeVars
<1>2. ControlOK'
  BY DEF Typed, ScheduleReconnect, ControlOK, fixed, resumeVars, storeVars
<1>3. SequencesOK'
  BY DEF Typed, ScheduleReconnect, SequencesOK, resumeVars, storeVars
<1>4. Channel'
  BY DEF Typed, ScheduleReconnect, Channel
<1>5. Timers'
  <2>1. flushTimer' = flushTimer /\ staleTimers' = staleTimers /\ status' = "reconnecting"
    BY DEF ScheduleReconnect, resumeVars
  <2> QED BY <2>1, EventsAssumption DEF Typed, Timers, NumbersOK
<1> QED BY <1>1, <1>2, <1>3, <1>4, <1>5, ReconnectForward DEF Typed
(* A message is an event with its number or a signal without one. *)
LEMMA MessageIs ==
  ASSUME NEW m \in ServerMessage
  PROVE  /\ m.id \in Nat
         /\ m.type \in {"agent_event", "auth_success", "auth_failed", "session_complete"}
         /\ m.type = "agent_event" => m.id \in Events
BY EventsAssumption DEF ServerMessage, Events

(* So are those that the gateway sends. *)
LEMMA MessagesAre ==
  /\ \A i \in Events : /\ AgentEvent(i) \in ServerMessage
                       /\ AgentEvent(i).type = "agent_event" /\ AgentEvent(i).id = i
  /\ \A t \in {"auth_success", "auth_failed", "session_complete"} :
       Signal(t) \in ServerMessage /\ Signal(t).type = t /\ Signal(t).id = 0
BY DEF ServerMessage, AgentEvent, Signal

(* A message of the gateway is added at the end. *)
LEMMA SendTyped ==
  ASSUME Typed, NEW e \in ServerMessage,
         down' = Append(down, e), peer' \in {"authed", "live", "resume"},
         sock = "open", UNCHANGED <<fixed, resumeFrom, drops, socketVars,
                                    resumeVars, storeVars>>,
         arrived' \in arrived..LastEvent, overtaken' \in BOOLEAN,
         peer \in {"resume", "live"} => peer' = peer,
         peer' \in {"resume", "live"} => peer' = peer,
         e.type = "agent_event" => e.id <= arrived',
         peer' = "authed" /\ down = <<>> => e.type \in AuthAnswers,
         e.type \in AuthAnswers => down = <<>> /\ peer' = "authed"
  PROVE  Typed'
<1> USE EventsAssumption
<1>1. NumbersOK'
  BY DEF Typed, NumbersOK, resumeVars
<1>2. ControlOK'
  BY DEF Typed, ControlOK, fixed, socketVars, resumeVars, storeVars
<1>3. arrived \in Nat /\ arrived' \in Nat /\ arrived <= arrived' /\ down \in Seq(ServerMessage)
  BY <1>1 DEF Typed, NumbersOK, SequencesOK
<1>4. SequencesOK'
  <2>1. resumeBuffer \in Seq(1..arrived') /\ emitted \in Seq(1..arrived')
    BY <1>3, HistoryGrows DEF Typed, SequencesOK
  <2>2. down' \in Seq(ServerMessage)
    BY <1>3, AppendIs
  <2> QED BY <2>1, <2>2 DEF SequencesOK, resumeVars, storeVars
<1>5. Channel'
  <2>1. /\ Len(down) \in Nat /\ Len(down') = Len(down) + 1 /\ down'[Len(down) + 1] = e
        /\ \A i \in 1..Len(down) : down'[i] = down[i]
    BY <1>3, AppendIs
  <2>2. down' # <<>> /\ sock' = "open"
    BY <2>1 DEF socketVars
  <2>3. down = <<>> => Len(down) = 0
    OBVIOUS
  <2>4. down # <<>> => Len(down) > 0
    BY <1>3
  <2>5. peer' = "authed" => down'[1].type \in AuthAnswers
    <3>1. CASE down = <<>>
      BY <2>1, <2>3, <3>1
    <3>2. CASE down # <<>>
      BY <2>1, <2>4, <3>2 DEF Typed, Channel, ControlOK
    <3> QED BY <3>1, <3>2
  <2>6. ASSUME NEW i \in 1..Len(down')
        PROVE  /\ down'[i].type \in AuthAnswers => i = 1 /\ peer' = "authed"
               /\ down'[i].type = "agent_event" => down'[i].id <= arrived'
    <3>1. CASE i = Len(down) + 1
      BY <2>1, <2>3, <3>1
    <3>2. CASE i # Len(down) + 1
      <4>1. i \in 1..Len(down) /\ down'[i] = down[i]
        BY <2>1, <3>2
      <4>2. down[i].type = "agent_event" => down[i].id <= arrived
        BY <4>1 DEF Typed, Channel
      <4>3. down[i].type = "agent_event" => down[i].id <= arrived'
        BY <1>3, <4>1, <4>2, MessageIs
      <4> QED BY <4>1, <4>3 DEF Typed, Channel
    <3> QED BY <3>1, <3>2
  <2> QED BY <2>2, <2>5, <2>6 DEF Channel
<1>6. Timers'
  BY DEF Typed, Timers, NumbersOK, resumeVars
<1>7. OneWayForward'
  BY DEF Typed, OneWayForward, socketVars, resumeVars, storeVars
<1> QED BY <1>1, <1>2, <1>4, <1>5, <1>6, <1>7 DEF Typed
(* A client that receives a message has a connection: the gateway has the number
   of an event, and answers to auth come to who asked. *)
LEMMA Received ==
  ASSUME Typed, NEW type, Receive(type)
  PROVE  /\ sock = "open" /\ status # "disconnected" /\ tracked /\ ~reconnectTimer
         /\ down # <<>> /\ down \in Seq(ServerMessage)
         /\ Head(down) = down[1] /\ Head(down) \in ServerMessage /\ Head(down).type = type
         /\ type \in AuthAnswers => peer = "authed"
         /\ type \notin AuthAnswers => peer \in {"resume", "live"}
         /\ type = "agent_event" => Head(down).id \in 1..arrived
<1>1. sock = "open" /\ down # <<>> /\ Head(down).type = type
  BY DEF Receive
<1>2. status # "disconnected" /\ tracked /\ ~reconnectTimer
  BY <1>1 DEF Typed, OneWayForward
<1>3. down \in Seq(ServerMessage)
  BY DEF Typed, SequencesOK
<1>4. Head(down) = down[1] /\ Head(down) \in ServerMessage /\ 1 \in 1..Len(down)
  BY <1>1, <1>3, TailIs
<1>5. type \in AuthAnswers => peer = "authed"
  BY <1>1, <1>4 DEF Typed, Channel
<1>6. type \notin AuthAnswers => peer \in {"resume", "live"}
  BY <1>1, <1>4 DEF Typed, Channel, ControlOK
<1>7. type = "agent_event" => Head(down).id \in 1..arrived
  <2>1. type = "agent_event" => Head(down).id <= arrived /\ Head(down).id \in Events
    BY <1>1, <1>4, MessageIs DEF Typed, Channel
  <2>2. arrived \in Nat
    BY EventsAssumption DEF Typed, NumbersOK
  <2> QED BY <2>1, <2>2, EventsAssumption DEF Events
<1> QED BY <1>1, <1>2, <1>3, <1>4, <1>5, <1>6, <1>7

(* What is left of the messages when the first is handled *)
LEMMA TailTyped ==
  ASSUME Typed, NEW type, Receive(type),
         down' = Tail(down), peer' \in {"resume", "live"},
         UNCHANGED <<arrived, sock>>
  PROVE  Channel' /\ down' \in Seq(ServerMessage)
<1>1. down \in Seq(ServerMessage) /\ down # <<>> /\ sock' = "open"
  BY Received
<1>2. /\ down' \in Seq(ServerMessage) /\ Len(down) \in Nat \ {0}
      /\ Len(down') = Len(down) - 1
      /\ \A i \in 1..Len(down') : down'[i] = down[i + 1]
  BY <1>1, TailIs
<1>3. ASSUME NEW i \in 1..Len(down')
      PROVE  /\ down'[i].type \notin AuthAnswers
             /\ down'[i].type = "agent_event" => down'[i].id <= arrived'
  <2>1. i + 1 \in 1..Len(down) /\ i + 1 # 1 /\ down'[i] = down[i + 1]
    BY <1>2
  <2> QED BY <2>1 DEF Typed, Channel
<1> QED BY <1>1, <1>2, <1>3 DEF Channel

(* The gateway's replay *)
LEMMA ReplayIs ==
  ASSUME NEW m \in Nat, NEW n \in 0..LastEvent
  PROVE  /\ EventMessages(m + 1, n) \in Seq(ServerMessage)
         /\ m <= n => Len(EventMessages(m + 1, n)) = n - m
         /\ \A i \in 1..Len(EventMessages(m + 1, n)) :
              EventMessages(m + 1, n)[i] = AgentEvent(m + i) /\ m + i \in 1..n
<1> DEFINE s == EventMessages(m + 1, n)
<1>1. s = [i \in 1..(n - m) |-> AgentEvent(m + i)]
  <2>1. n - (m + 1) + 1 = n - m /\ \A i \in 1..(n - m) : (m + 1) + i - 1 = m + i
    BY EventsAssumption
  <2> QED BY <2>1 DEF EventMessages
<1> HIDE DEF s
<1>2. \A i \in 1..(n - m) : m + i \in 1..n /\ AgentEvent(m + i) \in ServerMessage
  BY EventsAssumption, MessagesAre DEF Events
<1>3. CASE m <= n
  <2>1. n - m \in Nat
    BY <1>3, EventsAssumption
  <2>2. s \in Seq(ServerMessage) /\ Len(s) = n - m
    <3>1. s \in [1..(n - m) -> ServerMessage]
      BY <1>1, <1>2
    <3> QED BY <2>1, <3>1, SequenceOf
  <2>3. \A i \in 1..Len(s) : s[i] = AgentEvent(m + i) /\ m + i \in 1..n
    BY <1>1, <1>2, <2>2
  <2> QED BY <2>2, <2>3 DEF s
<1>4. CASE ~(m <= n)
  <2>1. 1..(n - m) = {} /\ 1..(n - m) = 1..0
    BY <1>4, EventsAssumption
  <2>2. s = <<>>
    BY <1>1, <2>1
  <2>3. s \in Seq(ServerMessage) /\ Len(s) = 0
    BY <2>2
  <2> QED BY <1>4, <2>3, EventsAssumption DEF s
<1> QED BY <1>3, <1>4, EventsAssumption
(* Every step keeps the types. *)
LEMMA StepTyped ==
  ASSUME Typed, [Next]_vars
  PROVE  Typed'
<1> USE EventsAssumption
<1>1. CASE Arrive
  <2>1. CASE Listening
    <3>1. /\ sock = "open" /\ peer \in {"authed", "live", "resume"}
          /\ peer = "authed" => down # <<>>
      BY <2>1 DEF Listening, Typed, Channel
    <3>2. arrived + 1 \in Events /\ arrived' = arrived + 1
      BY <1>1 DEF Arrive, Events, Typed, NumbersOK
    <3> DEFINE e == AgentEvent(arrived + 1)
    <3>3. e \in ServerMessage /\ e.type = "agent_event" /\ e.id = arrived + 1
      BY <3>2, MessagesAre
    <3>4. down' = Append(down, e)
      <4>1. down' = down \o <<e>>
        BY <1>1, <2>1 DEF Arrive, Send
      <4>2. down \in Seq(ServerMessage)
        BY DEF Typed, SequencesOK
      <4> HIDE DEF e
      <4> QED BY <3>3, <4>1, <4>2
    <3> HIDE DEF e
    <3>5. /\ UNCHANGED <<fixed, resumeFrom, drops, socketVars, resumeVars, storeVars>>
          /\ peer' = peer /\ arrived' \in arrived..LastEvent /\ overtaken' \in BOOLEAN
      BY <1>1, <3>2 DEF Arrive, Events, Typed, NumbersOK
    <3>6. e.type \notin AuthAnswers /\ e.id <= arrived'
      BY <3>2, <3>3 DEF AuthAnswers, Typed, NumbersOK
    <3> QED BY <3>1, <3>3, <3>4, <3>5, <3>6, SendTyped
  <2>2. CASE ~Listening
    <3>1. down' = down /\ arrived' = arrived + 1
          /\ UNCHANGED <<fixed, peer, resumeFrom, drops, socketVars, resumeVars,
                         storeVars>>
      <4>1. down' = down \o <<>> /\ down \in Seq(ServerMessage)
        BY <1>1, <2>2 DEF Arrive, Send, Typed, SequencesOK
      <4>2. down' = down
        BY <4>1, ConcatNothing
      <4> QED BY <1>1, <4>2 DEF Arrive
    <3>2. NumbersOK'
      BY <1>1, <3>1 DEF Arrive, Typed, NumbersOK, resumeVars
    <3>3. ControlOK' /\ OneWayForward'
      <4>1. overtaken' \in BOOLEAN
        BY <1>1 DEF Arrive
      <4> QED BY <3>1, <4>1 DEF Typed, ControlOK, OneWayForward, fixed, socketVars,
             resumeVars, storeVars
    <3>4. SequencesOK'
      <4>1. arrived \in Nat /\ arrived' \in Nat /\ arrived <= arrived'
        BY <3>1 DEF Typed, NumbersOK
      <4>2. resumeBuffer \in Seq(1..arrived') /\ emitted \in Seq(1..arrived')
        BY <4>1, HistoryGrows DEF Typed, SequencesOK
      <4> QED BY <3>1, <4>2 DEF Typed, SequencesOK, resumeVars, storeVars
    <3>5. Channel'
      <4>1. ASSUME NEW i \in 1..Len(down), down[i].type = "agent_event"
            PROVE  down[i].id <= arrived'
        <5>1. down[i].id <= arrived /\ down[i].id \in Nat
          BY <4>1, MessageIs DEF Typed, Channel, SequencesOK
        <5> QED BY <3>1, <5>1 DEF Typed, NumbersOK
      <4> QED BY <3>1, <4>1 DEF Typed, Channel, socketVars
    <3>6. Timers'
      BY <3>1 DEF Typed, Timers, resumeVars
    <3> QED BY <3>2, <3>3, <3>4, <3>5, <3>6 DEF Typed
  <2> QED BY <2>1, <2>2
<1>2. CASE GatewayAuth
  <2>1. PICK t \in AuthAnswers : down' = down \o <<Signal(t)>>
    BY <1>2 DEF GatewayAuth, Send, AuthAnswers
  <2>2. /\ peer = "auth" /\ peer' = "authed" /\ down = <<>> /\ sock = "open"
        /\ UNCHANGED <<arrived, overtaken, fixed, resumeFrom, drops, socketVars,
                       resumeVars, storeVars>>
    BY <1>2 DEF GatewayAuth, Typed, Channel
  <2> DEFINE e == Signal(t)
  <2>3. e \in ServerMessage /\ e.type = t
    BY MessagesAre DEF AuthAnswers
  <2>4. down' = Append(down, e)
    <3> HIDE DEF e
    <3>1. down' = down \o <<e>>
      BY <2>1 DEF e
    <3> QED BY <2>2, <2>3, <3>1
  <2> HIDE DEF e
  <2>5. e.type \in AuthAnswers /\ e.type # "agent_event" /\ arrived' \in arrived..LastEvent
    BY <2>2, <2>3 DEF AuthAnswers, Typed, NumbersOK
  <2>6. overtaken' \in BOOLEAN
    BY <2>2 DEF Typed, ControlOK
  <2> QED BY <2>2, <2>3, <2>4, <2>5, <2>6, SendTyped
<1>3. CASE GatewaySessionComplete
  <2>1. /\ peer = "live" /\ peer' = "live" /\ sock = "open"
        /\ down' = down \o <<Signal("session_complete")>>
        /\ UNCHANGED <<arrived, overtaken, fixed, resumeFrom, drops, socketVars,
                       resumeVars, storeVars>>
    BY <1>3 DEF GatewaySessionComplete, Send, Typed, Channel
  <2> DEFINE e == Signal("session_complete")
  <2>2. e \in ServerMessage /\ e.type = "session_complete"
    BY MessagesAre
  <2>3. down' = Append(down, e)
    <3> HIDE DEF e
    <3>1. down' = down \o <<e>> /\ down \in Seq(ServerMessage)
      BY <2>1 DEF e, Typed, SequencesOK
    <3> QED BY <2>2, <3>1
  <2> HIDE DEF e
  <2>4. e.type \notin AuthAnswers /\ e.type # "agent_event" /\ arrived' \in arrived..LastEvent
    BY <2>1, <2>2 DEF AuthAnswers, Typed, NumbersOK
  <2>5. overtaken' \in BOOLEAN
    BY <2>1 DEF Typed, ControlOK
  <2> QED BY <2>1, <2>2, <2>3, <2>4, <2>5, SendTyped
<1>4. CASE GatewayReplay
  <2> DEFINE s == IF kept THEN EventMessages(resumeFrom + 1, arrived) ELSE <<>>
  <2>1. /\ peer = "resume" /\ peer' = "live" /\ sock = "open" /\ down' = down \o s
        /\ UNCHANGED <<arrived, overtaken, fixed, resumeFrom, drops, socketVars,
                       resumeVars, storeVars>>
    BY <1>4 DEF GatewayReplay, Send, Typed, Channel
  <2>2. resumeFrom \in Nat /\ arrived \in 0..LastEvent /\ arrived \in Nat
    BY DEF Typed, NumbersOK
  <2>3. s \in Seq(ServerMessage)
        /\ \A i \in 1..Len(s) : s[i].type = "agent_event" /\ s[i].id \in 1..arrived
    <3>1. CASE kept
      <4>1. s = EventMessages(resumeFrom + 1, arrived)
        BY <3>1
      <4> HIDE DEF s
      <4>2. /\ s \in Seq(ServerMessage)
            /\ \A i \in 1..Len(s) : s[i] = AgentEvent(resumeFrom + i)
                                    /\ resumeFrom + i \in 1..arrived
        BY <2>2, <4>1, ReplayIs
      <4> QED BY <2>2, <4>2, MessagesAre DEF Events
    <3>2. CASE ~kept
      BY <3>2
    <3> QED BY <3>1, <3>2
  <2> HIDE DEF s
  <2>4. /\ down \in Seq(ServerMessage) /\ down' \in Seq(ServerMessage)
        /\ Len(down) \in Nat /\ Len(s) \in Nat /\ Len(down') = Len(down) + Len(s)
        /\ \A i \in 1..Len(down) : down'[i] = down[i]
        /\ \A i \in 1..Len(s) : down'[Len(down) + i] = s[i]
    BY <2>1, <2>3, ConcatIs DEF Typed, SequencesOK
  <2>5. Channel'
    <3>1. ASSUME NEW i \in 1..Len(down')
          PROVE  /\ down'[i].type \notin AuthAnswers
                 /\ down'[i].type = "agent_event" => down'[i].id <= arrived
      <4>1. CASE i <= Len(down)
        BY <2>1, <2>4, <4>1 DEF Typed, Channel
      <4>2. CASE ~(i <= Len(down))
        <5>1. i - Len(down) \in 1..Len(s) /\ i = Len(down) + (i - Len(down))
          BY <2>4, <4>2
        <5>2. down'[i] = s[i - Len(down)]
          BY <2>4, <5>1
        <5> QED BY <2>2, <2>3, <5>1, <5>2 DEF AuthAnswers
      <4> QED BY <2>4, <4>1, <4>2
    <3> QED BY <2>1, <3>1 DEF Channel, socketVars
  <2>6. NumbersOK' /\ ControlOK' /\ OneWayForward'
    BY <2>1 DEF Typed, NumbersOK, ControlOK, OneWayForward, fixed, socketVars,
       resumeVars, storeVars
  <2>7. SequencesOK'
    BY <2>1, <2>4 DEF Typed, SequencesOK, resumeVars, storeVars
  <2>8. Timers'
    BY <2>1 DEF Typed, Timers, resumeVars
  <2> QED BY <2>5, <2>6, <2>7, <2>8 DEF Typed
<1>5. CASE Drop
  <2>1. /\ peer' = "none" /\ down' = <<>> /\ drops' = drops + 1 /\ drops' \in 0..MaxDrops
        /\ UNCHANGED <<arrived, overtaken, fixed, resumeFrom, socketVars,
                       resumeVars, storeVars>>
    BY <1>5 DEF Drop, Typed, NumbersOK
  <2>2. NumbersOK' /\ ControlOK' /\ OneWayForward'
    BY <2>1 DEF Typed, NumbersOK, ControlOK, OneWayForward, fixed, socketVars,
       resumeVars, storeVars
  <2>3. SequencesOK'
    BY <2>1 DEF Typed, SequencesOK, resumeVars, storeVars
  <2>4. Channel'
    BY <2>1 DEF Channel
  <2>5. Timers'
    BY <2>1 DEF Typed, Timers, NumbersOK, resumeVars
  <2> QED BY <2>2, <2>3, <2>4, <2>5 DEF Typed
<1>6. CASE HandleOpen
  <2>1. /\ sock = "connecting" /\ sock' = "open" /\ status' = "authenticating"
        /\ peer = "none" /\ peer' = "auth" /\ down' = down /\ down = <<>>
        /\ UNCHANGED <<arrived, overtaken, fixed, resumeFrom, drops, heartbeat,
                       reconnectTimer,
                       resumeVars, storeVars>>
    BY <1>6 DEF HandleOpen, Typed, Channel
  <2>2. NumbersOK' /\ ControlOK' /\ OneWayForward'
    BY <2>1 DEF Typed, NumbersOK, ControlOK, OneWayForward, fixed,
       resumeVars, storeVars
  <2>3. SequencesOK'
    BY <2>1 DEF Typed, SequencesOK, resumeVars, storeVars
  <2>4. Channel' /\ Timers'
    BY <2>1 DEF Typed, Channel, Timers, resumeVars
  <2> QED BY <2>2, <2>3, <2>4 DEF Typed
<1>7. CASE HandleClose \/ HeartbeatTimeout \/ ConnectFails
  <2>1. /\ status # "disconnected" /\ peer = "none" /\ ScheduleReconnect
        /\ UNCHANGED <<arrived, overtaken, fixed, peer, resumeFrom, down>>
        /\ drops' \in drops..MaxDrops
    <3>1. CASE HandleClose \/ HeartbeatTimeout
      BY <3>1 DEF HandleClose, HeartbeatTimeout, Typed, OneWayForward, NumbersOK, gatewayVars
    <3>2. CASE ConnectFails
      BY <3>2 DEF ConnectFails, Typed, OneWayForward, Channel, NumbersOK
    <3> QED BY <1>7, <3>1, <3>2
  <2> QED BY <2>1, ReconnectTyped
<1>8. CASE DoConnect
  <2>1. /\ status' = "connecting" /\ sock' = "connecting" /\ reconnectTimer'= FALSE
        /\ sock = "none" /\ status # "disconnected" /\ reconnectTimer
        /\ UNCHANGED <<arrived, overtaken, fixed, peer, resumeFrom, down, drops,
                       heartbeat,
                       resumeVars, storeVars>>
    BY <1>8 DEF DoConnect, gatewayVars, Typed, OneWayForward
  <2>2. NumbersOK' /\ ControlOK' /\ OneWayForward'
    BY <2>1 DEF Typed, NumbersOK, ControlOK, OneWayForward, fixed,
       resumeVars, storeVars
  <2>3. SequencesOK'
    BY <2>1 DEF Typed, SequencesOK, resumeVars, storeVars
  <2>4. Channel' /\ Timers'
    BY <2>1 DEF Typed, Channel, Timers, resumeVars
  <2> QED BY <2>2, <2>3, <2>4 DEF Typed
<1>9. CASE OnAuthSuccess
  <2>1. /\ Receive("auth_success") /\ down' = Tail(down)
        /\ status' = "connected" /\ heartbeat' = TRUE /\ sock = "open"
        /\ peer = "authed" /\ peer' = "resume" /\ resumeFrom' = lastEventId
        /\ status # "disconnected" /\ tracked
        /\ UNCHANGED <<arrived, overtaken, fixed, drops, sock, reconnectTimer,
                       lastEventId, storeVars>>
    BY <1>9, Received DEF OnAuthSuccess, SendResume, AuthAnswers
  <2>2. Channel' /\ down' \in Seq(ServerMessage)
    BY <2>1, TailTyped
  <2>3. /\ resumeMode' \in BOOLEAN /\ resumeBuffer' \in Seq(1..arrived)
        /\ flushTimer' \in {"none", "flush", "timeout"}
        /\ \/ staleTimers' = staleTimers
           \/ staleTimers' = staleTimers + 1 /\ flushTimer = "timeout"
    <3>1. CASE resumeOnConnect /\ lastEventId = 0
      <4>1. EnterResumeMode
        BY <1>9, <3>1 DEF OnAuthSuccess
      <4>2. resumeBuffer' = <<>> /\ staleTimers \in Nat
        BY <4>1 DEF EnterResumeMode, Typed, NumbersOK
      <4> QED BY <4>1, <4>2 DEF EnterResumeMode
    <3>2. CASE ~(resumeOnConnect /\ lastEventId = 0)
      BY <1>9, <3>2 DEF OnAuthSuccess, Typed, ControlOK, SequencesOK
    <3> QED BY <3>1, <3>2
  <2>4. NumbersOK' /\ Timers'
    BY <2>1, <2>3 DEF Typed, NumbersOK, Timers
  <2>5. ControlOK'
    BY <2>1, <2>3 DEF Typed, ControlOK, fixed, storeVars
  <2>6. SequencesOK'
    BY <2>1, <2>2, <2>3 DEF Typed, SequencesOK, storeVars
  <2> QED BY <2>2, <2>4, <2>5, <2>6, StepForward DEF Typed
<1>10. CASE DisconnectFromGateway \/ OnAuthFailed \/ ResumeTimeout
  <2>1. PICK complete \in BOOLEAN :
          Disconnect(complete) /\ UNCHANGED <<lastEventId, emitted, staleTimers>>
    BY <1>10 DEF DisconnectFromGateway, OnAuthFailed, ResumeTimeout
  <2>2. /\ lastEventId' \in 0..arrived /\ emitted' \in Seq(1..arrived)
        /\ staleTimers' \in 0..staleTimers
    BY <2>1 DEF Typed, NumbersOK, SequencesOK
  <2> QED BY <2>1, <2>2, DisconnectTyped
<1>11. CASE StaleTimeout
  <2>1. CASE NothingToReplay
    <3>1. /\ Disconnect(TRUE) /\ UNCHANGED <<lastEventId, emitted>>
          /\ staleTimers > 0 /\ staleTimers' = staleTimers - 1
      BY <1>11, <2>1 DEF StaleTimeout
    <3>2. lastEventId' \in 0..arrived /\ staleTimers' \in 0..staleTimers
      BY <3>1 DEF Typed, NumbersOK
    <3>3. emitted' \in Seq(1..arrived)
      BY <3>1 DEF Typed, SequencesOK
    <3> QED BY <3>1, <3>2, <3>3, DisconnectTyped
  <2>2. CASE ~NothingToReplay
    <3>1. /\ staleTimers > 0 /\ staleTimers' = staleTimers - 1
          /\ UNCHANGED <<gatewayVars, socketVars, lastEventId, emitted, resumeMode,
                         resumeBuffer, flushTimer, tracked, sessionCompleted>>
      BY <1>11, <2>2 DEF StaleTimeout
    <3>2. NumbersOK' /\ Timers'
      BY <3>1 DEF Typed, NumbersOK, Timers, gatewayVars, socketVars
    <3>3. ControlOK' /\ SequencesOK' /\ Channel'
      BY <3>1 DEF Typed, ControlOK, SequencesOK, Channel, gatewayVars, fixed, socketVars
    <3> QED BY <3>2, <3>3, StepForward DEF Typed
  <2> QED BY <2>1, <2>2
<1>12. CASE ResumeFlush
  <2>1. /\ flushTimer' = "none" /\ resumeMode' = FALSE /\ resumeBuffer' = <<>>
        /\ emitted' = emitted \o Deduplicated(resumeBuffer)
        /\ UNCHANGED <<gatewayVars, socketVars, lastEventId, staleTimers, tracked,
                       sessionCompleted>>
    BY <1>12 DEF ResumeFlush, FlushResumeBuffer
  <2>2. emitted' \in Seq(1..arrived)
    <3>1. Deduplicated(resumeBuffer) \in Seq(1..arrived)
      BY DeduplicatedHolds DEF Holds, Typed, SequencesOK
    <3> HIDE DEF Holds
    <3>2. emitted \in Seq(1..arrived)
      BY DEF Typed, SequencesOK
    <3> QED BY <2>1, <3>1, <3>2, ConcatIs
  <2>3. NumbersOK' /\ Timers'
    BY <2>1 DEF Typed, NumbersOK, Timers, gatewayVars
  <2>5. ControlOK'
    <3>1. UNCHANGED <<overtaken, fixed, peer>>
      BY <2>1 DEF gatewayVars
    <3>2. overtaken' \in BOOLEAN
      BY <3>1 DEF Typed, ControlOK
    <3>3. UNCHANGED <<status, sock, heartbeat, reconnectTimer, tracked, sessionCompleted>>
      BY <2>1 DEF socketVars
    <3> QED BY <2>1, <3>1, <3>2, <3>3 DEF Typed, ControlOK, fixed
  <2>4. SequencesOK' /\ Channel'
    BY <2>1, <2>2 DEF Typed, SequencesOK, Channel, gatewayVars, socketVars
  <2> QED BY <2>3, <2>4, <2>5, StepForward DEF Typed
<1>13. CASE OnSessionComplete
  <2> DEFINE s == IF resumeMode THEN Deduplicated(resumeBuffer) ELSE <<>>
  <2>1. /\ Disconnect(TRUE) /\ UNCHANGED <<lastEventId, staleTimers>>
        /\ emitted' = emitted \o s
    BY <1>13 DEF OnSessionComplete
  <2>2. s \in Seq(1..arrived)
    <3>1. Deduplicated(resumeBuffer) \in Seq(1..arrived)
      BY DeduplicatedHolds DEF Holds, Typed, SequencesOK
    <3>2. <<>> \in Seq(1..arrived)
      OBVIOUS
    <3> QED BY <3>1, <3>2
  <2> HIDE DEF s
  <2>3. emitted' \in Seq(1..arrived)
    BY <2>1, <2>2, ConcatIs DEF Typed, SequencesOK
  <2>4. lastEventId' \in 0..arrived /\ staleTimers' \in 0..staleTimers
    BY <2>1 DEF Typed, NumbersOK
  <2> QED BY <2>1, <2>3, <2>4, DisconnectTyped
<1>14. CASE OnReplayedEnd
  <2> DEFINE s == Deduplicated(Append(resumeBuffer, EndEvent))
  <2>1. /\ Disconnect(FALSE) /\ UNCHANGED staleTimers /\ lastEventId' = EndEvent
        /\ emitted' = emitted \o s /\ EndEvent \in 1..arrived
    BY <1>14, Received DEF OnReplayedEnd
  <2>2. s \in Seq(1..arrived)
    <3>1. Append(resumeBuffer, EndEvent) \in Seq(1..arrived)
      BY <2>1, AppendIs DEF Typed, SequencesOK
    <3> QED BY <3>1, DeduplicatedHolds DEF Holds
  <2> HIDE DEF s
  <2>3. emitted' \in Seq(1..arrived)
    BY <2>1, <2>2, ConcatIs DEF Typed, SequencesOK
  <2>4. lastEventId' \in 0..arrived /\ staleTimers' \in 0..staleTimers
    BY <2>1 DEF Typed, NumbersOK
  <2> QED BY <2>1, <2>3, <2>4, DisconnectTyped
<1>15. CASE OnReplayedEvent
  <2>1. /\ Receive("agent_event") /\ lastEventId' = Head(down).id
        /\ resumeBuffer' = Append(resumeBuffer, Head(down).id)
        /\ flushTimer' = "flush" /\ down' = Tail(down)
        /\ UNCHANGED <<arrived, overtaken, fixed, peer, resumeFrom, drops,
                       socketVars, resumeMode,
                       staleTimers, storeVars>>
    BY <1>15 DEF OnReplayedEvent
  <2>2. Head(down).id \in 1..arrived /\ peer \in {"resume", "live"}
    BY <2>1, Received DEF AuthAnswers
  <2>3. Channel' /\ down' \in Seq(ServerMessage)
    BY <2>1, <2>2, TailTyped DEF socketVars
  <2>4. resumeBuffer' \in Seq(1..arrived)
    BY <2>1, <2>2, AppendIs DEF Typed, SequencesOK
  <2>5. NumbersOK' /\ Timers'
    BY <2>1, <2>2 DEF Typed, NumbersOK, Timers
  <2>6. ControlOK' /\ SequencesOK'
    BY <2>1, <2>3, <2>4 DEF Typed, ControlOK, SequencesOK, fixed, socketVars, storeVars
  <2> QED BY <2>3, <2>5, <2>6, StepForward DEF Typed
<1>16. CASE OnLiveEvent
  <2>1. /\ Receive("agent_event") /\ lastEventId' = Head(down).id
        /\ emitted' = Append(emitted, Head(down).id) /\ UNCHANGED staleTimers
    BY <1>16 DEF OnLiveEvent
  <2>2. Head(down).id \in 1..arrived /\ peer \in {"resume", "live"}
    BY <2>1, Received DEF AuthAnswers
  <2>3. emitted' \in Seq(1..arrived)
    BY <2>1, <2>2, AppendIs DEF Typed, SequencesOK
  <2>4. CASE Head(down).id = EndEvent
    <3>1. Disconnect(FALSE)
      BY <1>16, <2>4 DEF OnLiveEvent
    <3>2. lastEventId' \in 0..arrived /\ staleTimers' \in 0..staleTimers
      BY <2>1, <2>2 DEF Typed, NumbersOK
    <3> QED BY <2>3, <3>1, <3>2, DisconnectTyped
  <2>5. CASE Head(down).id # EndEvent
    <3>1. /\ down' = Tail(down)
          /\ UNCHANGED <<arrived, overtaken, fixed, peer, resumeFrom, drops, socketVars,
                         resumeMode, resumeBuffer, flushTimer, tracked, sessionCompleted>>
      BY <1>16, <2>5 DEF OnLiveEvent
    <3>2. Channel' /\ down' \in Seq(ServerMessage)
      BY <2>1, <2>2, <3>1, TailTyped DEF socketVars
    <3>3. NumbersOK' /\ Timers'
      BY <2>1, <2>2, <3>1 DEF Typed, NumbersOK, Timers
    <3>4. ControlOK' /\ SequencesOK'
      BY <2>1, <2>3, <3>1, <3>2 DEF Typed, ControlOK, SequencesOK, fixed, socketVars
    <3> QED BY <3>2, <3>3, <3>4, StepForward DEF Typed
  <2> QED BY <2>4, <2>5
<1>17. CASE UNCHANGED vars
  <2>1. UNCHANGED <<gatewayVars, fixed, socketVars, resumeVars, storeVars>>
    BY <1>17 DEF vars, gatewayVars
  <2> QED
    BY <2>1 DEF Typed, NumbersOK, ControlOK, SequencesOK, OneWayForward, Channel,
       Timers, gatewayVars, fixed, socketVars, resumeVars, storeVars
<1> QED
  BY <1>1, <1>2, <1>3, <1>4, <1>5, <1>6, <1>7, <1>8, <1>9, <1>10, <1>11, <1>12,
     <1>13, <1>14, <1>15, <1>16, <1>17
     DEF Next, Gateway, Connection, HandleMessage, ResumeTimer

(* So do the initial states. *)
LEMMA InitTyped == Init => Typed
<1> SUFFICES ASSUME Init PROVE Typed
  OBVIOUS
<1>1. arrived \in 0..LastEvent
  BY EventsAssumption DEF Init
<1>2. NumbersOK
  BY <1>1, EventsAssumption DEF Init, NumbersOK
<1>4. ControlOK
  <2>1. kept \in BOOLEAN
    BY DEF Init
  <2> QED BY <2>1 DEF Init, ControlOK
<1>3. SequencesOK /\ Channel /\ Timers
  BY <1>1, EventsAssumption DEF Init, SequencesOK, Channel, Timers
<1> QED BY <1>2, <1>3, <1>4, InitForward DEF Typed

(* The types and what they rest on hold in every state. *)
LEMMA TypedAlways == Spec => []Typed
<1>1. Typed /\ [Next]_vars => Typed'
  BY StepTyped
<1> QED BY <1>1, InitTyped, PTL DEF Spec

(* Every variable of the client has its type: the gateway has every event that
   is under way, buffered or handled, and no more resume timeouts are forgotten
   than connections were lost. *)
THEOREM ClientTypes == Spec => []TypeOK
<1>1. Typed => TypeOK
  BY TypesSplit DEF Typed
<1> QED BY <1>1, TypedAlways, PTL
-----------------------------------------------------------------------------
(* No event twice *)

(* Nobody forgets an event, a lost connection or how the client was created. *)
LEMMA StepCounts ==
  ASSUME Typed, [Next]_vars
  PROVE  /\ fixed' = fixed /\ arrived' \in {arrived, arrived + 1}
         /\ drops' \in {drops, drops + 1} /\ (overtaken => overtaken')
<1>1. ASSUME NEW complete \in BOOLEAN, Disconnect(complete)
      PROVE  UNCHANGED <<fixed, arrived, overtaken, drops>>
  BY <1>1 DEF Disconnect
<1>2. CASE Gateway
  <2>1. CASE Arrive
    <3>1. overtaken => overtaken'
      BY <2>1 DEF Arrive
    <3> QED BY <2>1, <3>1 DEF Arrive
  <2>2. CASE GatewayAuth \/ GatewayReplay \/ GatewaySessionComplete \/ Drop
    BY <2>2 DEF GatewayAuth, GatewayReplay, GatewaySessionComplete, Drop
  <2> QED BY <1>2, <2>1, <2>2 DEF Gateway
<1>3. CASE HandleOpen \/ HandleClose \/ HeartbeatTimeout \/ ConnectFails \/ DoConnect
  BY <1>3 DEF HandleOpen, HandleClose, HeartbeatTimeout, ConnectFails, DoConnect,
     gatewayVars
<1>4. CASE DisconnectFromGateway \/ OnAuthFailed \/ OnReplayedEnd
            \/ OnSessionComplete \/ ResumeTimeout
  <2>1. PICK complete \in BOOLEAN : Disconnect(complete)
    BY <1>4 DEF DisconnectFromGateway, OnAuthFailed, OnReplayedEnd,
       OnSessionComplete, ResumeTimeout
  <2> QED BY <1>1, <2>1
<1>5. CASE OnAuthSuccess \/ OnReplayedEvent \/ ResumeFlush
  BY <1>5 DEF OnAuthSuccess, OnReplayedEvent, ResumeFlush, gatewayVars
<1>6. CASE OnLiveEvent \/ StaleTimeout
  <2>1. Disconnect(FALSE) \/ Disconnect(TRUE)
          \/ UNCHANGED <<fixed, arrived, overtaken, drops>>
    <3>1. CASE OnLiveEvent
      BY <3>1 DEF OnLiveEvent
    <3>2. CASE StaleTimeout
      BY <3>2 DEF StaleTimeout, gatewayVars
    <3> QED BY <1>6, <3>1, <3>2
  <2>2. UNCHANGED <<fixed, arrived, overtaken, drops>>
    BY <1>1, <2>1
  <2> QED BY <2>2
<1>7. CASE UNCHANGED vars
  BY <1>7 DEF vars, gatewayVars
<1> QED
  BY <1>2, <1>3, <1>4, <1>5, <1>6, <1>7 DEF Next, Connection, HandleMessage, ResumeTimer

(* A client that is disconnected has only to have handled each event once. *)
LEMMA DisconnectReplaying ==
  ASSUME NEW complete \in BOOLEAN, Disconnect(complete), Once(emitted')
  PROVE  Replaying'
BY DEF Disconnect, Cleanup, Replaying, Once

(* The client's socket and timers are not looked at. *)
LEMMA ReplayingFrame ==
  ASSUME Replaying, UNCHANGED <<emitted, resumeBuffer, lastEventId, resumeMode, down>>,
         \/ peer' = peer
         \/ {peer, peer'} \subseteq {"none", "auth", "authed"},
         status' # "disconnected" => status # "disconnected"
  PROVE  Replaying'
BY DEF Replaying, Once, Increasing, IsEvent

(* A message at the end keeps the order, if it is no event or the newest one. *)
LEMMA SendIncreasing ==
  ASSUME Typed, Increasing, NEW e \in ServerMessage, down' = Append(down, e),
         UNCHANGED emitted,
         e.type = "agent_event" => e.id = arrived + 1
  PROVE  Increasing'
<1>1. /\ down \in Seq(ServerMessage) /\ emitted \in Seq(1..arrived) /\ arrived \in Nat
  BY EventsAssumption DEF Typed, SequencesOK, NumbersOK
<1>2. /\ Len(down) \in Nat /\ Len(down') = Len(down) + 1 /\ down'[Len(down) + 1] = e
      /\ \A i \in 1..Len(down) : down'[i] = down[i]
  BY <1>1, AppendIs
<1>3. \A i \in 1..Len(down) : IsEvent(i) => down[i].id <= arrived /\ down[i].id \in Nat
  BY <1>1, MessageIs DEF Typed, Channel, IsEvent
<1>4. \A j \in 1..Len(emitted) : emitted[j] \in 1..arrived
  BY <1>1
<1>5. ASSUME NEW i \in 1..Len(down'), NEW j \in 1..Len(emitted), IsEvent(i)'
      PROVE  down'[i].id > emitted[j]
  <2>1. CASE i = Len(down) + 1
    BY <1>1, <1>2, <1>4, <1>5, <2>1 DEF IsEvent
  <2>2. CASE i # Len(down) + 1
    <3>1. i \in 1..Len(down) /\ down'[i] = down[i] /\ IsEvent(i)
      BY <1>2, <1>5, <2>2 DEF IsEvent
    <3> QED BY <3>1 DEF Increasing
  <2> QED BY <2>1, <2>2
<1>6. ASSUME NEW i \in 1..Len(down'), NEW j \in 1..Len(down'), i < j,
             IsEvent(i)', IsEvent(j)'
      PROVE  down'[i].id < down'[j].id
  <2>1. i \in 1..Len(down) /\ down'[i] = down[i] /\ IsEvent(i)
    BY <1>2, <1>6 DEF IsEvent
  <2>2. CASE j = Len(down) + 1
    BY <1>1, <1>2, <1>3, <1>6, <2>1, <2>2 DEF IsEvent
  <2>3. CASE j # Len(down) + 1
    <3>1. j \in 1..Len(down) /\ down'[j] = down[j] /\ IsEvent(j)
      BY <1>2, <1>6, <2>3 DEF IsEvent
    <3> QED BY <1>6, <2>1, <3>1 DEF Increasing
  <2> QED BY <2>2, <2>3
<1> QED BY <1>5, <1>6 DEF Increasing
(* The first connection of a reloaded page stays as FirstConnection says. *)
LEMMA StepReplaying ==
  ASSUME Typed, Replaying, [Next]_vars, drops = 0, drops' = 0, resumeOnConnect
  PROVE  Replaying'
<1>1. CASE Arrive \/ GatewaySessionComplete
  <2>1. /\ UNCHANGED <<peer, emitted, resumeBuffer, lastEventId, resumeMode, status>>
        /\ down \in Seq(ServerMessage)
    BY <1>1 DEF Arrive, GatewaySessionComplete, socketVars, resumeVars, storeVars,
       Typed, SequencesOK
  <2>2. ASSUME ~resumeMode, peer = "live" PROVE Increasing'
    <3>1. PICK e \in ServerMessage :
            /\ down' = down \o <<e>>
            /\ e.type = "agent_event" => e.id = arrived + 1
      <4>1. CASE Arrive
        <5>1. down' = down \o <<AgentEvent(arrived + 1)>> /\ arrived + 1 \in Events
          BY <2>2, <4>1, EventsAssumption
             DEF Arrive, Send, Listening, Events, Typed, NumbersOK
        <5> QED BY <5>1, MessagesAre
      <4>2. CASE GatewaySessionComplete
        <5>1. down' = down \o <<Signal("session_complete")>>
          BY <4>2 DEF GatewaySessionComplete, Send
        <5> QED BY <5>1, MessagesAre
      <4> QED BY <1>1, <4>1, <4>2
    <3>2. down' = Append(down, e)
      BY <2>1, <3>1
    <3> QED BY <2>1, <2>2, <3>1, <3>2, SendIncreasing DEF Replaying
  <2> QED BY <2>1, <2>2 DEF Replaying, Once
<1>2. CASE GatewayAuth
  BY <1>2 DEF GatewayAuth, Replaying, Once, socketVars, resumeVars, storeVars
<1>3. CASE GatewayReplay
  BY <1>3 DEF GatewayReplay, Replaying, Once, socketVars, resumeVars, storeVars
<1>4. CASE Drop \/ ConnectFails
  BY <1>4 DEF Drop, ConnectFails
<1>5. CASE HandleOpen
  <2>1. UNCHANGED <<emitted, resumeBuffer, lastEventId, resumeMode, down>>
        /\ peer = "none" /\ peer' = "auth" /\ status # "disconnected"
    BY <1>5 DEF HandleOpen, resumeVars, storeVars, Typed, Channel, OneWayForward
  <2> QED BY <2>1, ReplayingFrame
<1>6. CASE HandleClose \/ HeartbeatTimeout \/ DoConnect
  <2>1. UNCHANGED <<emitted, resumeBuffer, lastEventId, resumeMode, down, peer>>
        /\ status # "disconnected"
    BY <1>6 DEF HandleClose, HeartbeatTimeout, DoConnect, ScheduleReconnect, gatewayVars,
       resumeVars, storeVars, Typed, OneWayForward
  <2> QED BY <2>1, ReplayingFrame
<1>7. CASE DisconnectFromGateway \/ OnAuthFailed \/ ResumeTimeout
  <2>1. PICK complete \in BOOLEAN : Disconnect(complete) /\ emitted' = emitted
    BY <1>7 DEF DisconnectFromGateway, OnAuthFailed, ResumeTimeout
  <2>2. Once(emitted')
    BY <2>1 DEF Replaying, Once
  <2> QED BY <2>1, <2>2, DisconnectReplaying
<1>8. CASE StaleTimeout
  BY <1>8 DEF StaleTimeout, Typed, Timers, NumbersOK
<1>9. CASE OnAuthSuccess
  <2>1. peer = "authed" /\ status # "disconnected"
    BY <1>9, Received DEF OnAuthSuccess, AuthAnswers
  <2>2. emitted = <<>> /\ lastEventId = 0 /\ Once(emitted)
    BY <2>1 DEF Replaying
  <2>3. resumeMode' = TRUE /\ peer' = "resume" /\ emitted' = emitted
    BY <1>9, <2>2 DEF OnAuthSuccess, EnterResumeMode, SendResume, storeVars
  <2> QED BY <2>2, <2>3 DEF Replaying, Once
<1>10. CASE ResumeFlush
  <2>1. /\ resumeMode /\ ~Owed /\ resumeMode' = FALSE
        /\ emitted' = emitted \o Deduplicated(resumeBuffer)
        /\ UNCHANGED <<peer, down, status>>
    BY <1>10 DEF ResumeFlush, FlushResumeBuffer, gatewayVars, socketVars, Typed, OneWayForward
  <2>2. peer = "live" /\ down = <<>> /\ emitted = <<>>
    BY <2>1 DEF Owed, Replaying
  <2>3. emitted' = Deduplicated(resumeBuffer) /\ Once(Deduplicated(resumeBuffer))
    <3>1. Deduplicated(resumeBuffer) \in Seq(1..arrived) /\ Once(Deduplicated(resumeBuffer))
      BY DeduplicatedHolds DEF Holds, Typed, SequencesOK
    <3> QED BY <2>1, <2>2, <3>1, ConcatNothing
  <2>4. Increasing'
    BY <2>1, <2>2 DEF Increasing
  <2> QED BY <2>1, <2>2, <2>3, <2>4 DEF Replaying
<1>11. CASE OnSessionComplete \/ OnReplayedEnd
  <2> DEFINE s == IF OnReplayedEnd THEN Append(resumeBuffer, EndEvent) ELSE resumeBuffer
  <2>1. PICK complete \in BOOLEAN : Disconnect(complete)
    BY <1>11 DEF OnSessionComplete, OnReplayedEnd
  <2>2. s \in Seq(1..LastEvent)
    <3>1. resumeBuffer \in Seq(1..LastEvent)
      BY HistoryGrows, EventsAssumption DEF Typed, SequencesOK, NumbersOK
    <3>2. EndEvent \in 1..LastEvent
      BY EventsAssumption
    <3> QED BY <3>1, <3>2, AppendIs
  <2>3. Deduplicated(s) \in Seq(1..LastEvent) /\ Once(Deduplicated(s))
    <3> HIDE DEF s
    <3> QED BY <2>2, DeduplicatedHolds DEF Holds
  <2>4. \/ emitted' = emitted \o Deduplicated(s) /\ resumeMode
        \/ emitted' = emitted \o <<>>
    BY <1>11 DEF OnSessionComplete, OnReplayedEnd
  <2> HIDE DEF s
  <2>5. emitted \in Seq(1..arrived)
    BY DEF Typed, SequencesOK
  <2>6. Once(emitted')
    <3>1. CASE emitted' = emitted \o Deduplicated(s) /\ resumeMode
      <4>1. emitted = <<>>
        BY <3>1 DEF Replaying
      <4>2. emitted' = Deduplicated(s)
        BY <2>3, <3>1, <4>1, ConcatNothing
      <4> QED BY <2>3, <4>2
    <3>2. CASE emitted' = emitted \o <<>>
      <4>1. emitted' = emitted
        BY <2>5, <3>2, ConcatNothing
      <4> QED BY <4>1 DEF Replaying
    <3> QED BY <2>4, <3>1, <3>2
  <2> QED BY <2>1, <2>6, DisconnectReplaying
<1>12. CASE OnReplayedEvent
  <2>1. /\ resumeMode /\ UNCHANGED <<peer, emitted, resumeMode, status>>
    BY <1>12 DEF OnReplayedEvent, socketVars, storeVars
  <2> QED BY <2>1 DEF Replaying, Once
<1>13. CASE OnLiveEvent
  <2>1. /\ Receive("agent_event") /\ ~resumeMode
        /\ emitted' = Append(emitted, Head(down).id)
    BY <1>13 DEF OnLiveEvent
  <2>2. /\ down \in Seq(ServerMessage) /\ down # <<>> /\ Head(down) = down[1]
        /\ Head(down).id \in 1..arrived /\ IsEvent(1) /\ peer = "live"
        /\ Head(down).type = "agent_event"
    BY <2>1, Received DEF Replaying, AuthAnswers, IsEvent
  <2>3. /\ down \in Seq(ServerMessage) /\ Tail(down) \in Seq(ServerMessage)
        /\ Len(down) \in Nat \ {0} /\ Len(Tail(down)) = Len(down) - 1
        /\ \A i \in 1..Len(Tail(down)) : Tail(down)[i] = down[i + 1]
    BY <2>2, TailIs
  <2>4. emitted \in Seq(1..arrived)
    BY DEF Typed, SequencesOK
  <2>5. /\ Len(emitted) \in Nat /\ Len(emitted') = Len(emitted) + 1
        /\ emitted'[Len(emitted) + 1] = down[1].id
        /\ \A i \in 1..Len(emitted) : emitted'[i] = emitted[i]
    BY <2>1, <2>2, <2>4, AppendIs
  <2>6. Increasing
    BY <2>1, <2>2 DEF Replaying
  <2>7. \A i \in 1..Len(emitted) : emitted[i] < down[1].id /\ emitted[i] \in Nat
    <3>1. \A i \in 1..Len(emitted) : emitted[i] \in 1..arrived
      BY <2>4, ElementIs
    <3>2. 1 \in 1..Len(down)
      BY <2>3
    <3>3. \A i \in 1..Len(emitted) : down[1].id > emitted[i]
      BY <2>2, <2>6, <3>2 DEF Increasing
    <3> QED BY <2>2, <3>1, <3>3
  <2>8. Once(emitted')
    <3> SUFFICES ASSUME NEW i \in 1..(Len(emitted) + 1), NEW j \in 1..(Len(emitted) + 1),
                        emitted'[i] = emitted'[j], i # j
                 PROVE  FALSE
      BY <2>5 DEF Once
    <3>1. CASE i \in 1..Len(emitted) /\ j \in 1..Len(emitted)
      BY <2>5, <3>1 DEF Replaying, Once
    <3>2. CASE i = Len(emitted) + 1
      BY <2>5, <2>7, <3>2
    <3>3. CASE j = Len(emitted) + 1
      BY <2>5, <2>7, <3>3
    <3> QED BY <2>5, <3>1, <3>2, <3>3
  <2>9. CASE Head(down).id = EndEvent
    BY <1>13, <2>8, <2>9, DisconnectReplaying DEF OnLiveEvent
  <2>10. CASE Head(down).id # EndEvent
    <3>1. down' = Tail(down) /\ UNCHANGED <<peer, resumeMode, status>>
      BY <1>13, <2>10 DEF OnLiveEvent, socketVars
    <3>2. Len(down') = Len(down) - 1 /\ \A i \in 1..Len(down') : down'[i] = down[i + 1]
      BY <2>3, <3>1
    <3>3. \A i \in 1..Len(down) : IsEvent(i) => down[i].id \in Nat
      BY <2>3, MessageIs
    <3>4. ASSUME NEW i \in 1..Len(down'), NEW j \in 1..Len(emitted'), IsEvent(i)'
          PROVE  down'[i].id > emitted'[j]
      <4>1. i + 1 \in 1..Len(down) /\ 1 \in 1..Len(down) /\ 1 < i + 1 /\ IsEvent(i + 1)
        BY <2>3, <3>2, <3>4 DEF IsEvent
      <4>2. down[1].id < down[i + 1].id
        BY <2>2, <2>6, <4>1 DEF Increasing
      <4>3. CASE j = Len(emitted) + 1
        BY <2>2, <2>5, <3>2, <3>3, <4>1, <4>2, <4>3
      <4>4. CASE j # Len(emitted) + 1
        <5>1. j \in 1..Len(emitted) /\ emitted'[j] = emitted[j]
          BY <2>5, <4>4
        <5>2. down[i + 1].id > emitted[j]
          BY <2>6, <4>1, <5>1 DEF Increasing
        <5> QED BY <3>2, <5>1, <5>2
      <4> QED BY <4>3, <4>4
    <3>5. ASSUME NEW i \in 1..Len(down'), NEW j \in 1..Len(down'), i < j,
                 IsEvent(i)', IsEvent(j)'
          PROVE  down'[i].id < down'[j].id
      <4>1. /\ i + 1 \in 1..Len(down) /\ j + 1 \in 1..Len(down) /\ i + 1 < j + 1
            /\ IsEvent(i + 1) /\ IsEvent(j + 1)
        BY <2>3, <3>2, <3>5 DEF IsEvent
      <4>2. down[i + 1].id < down[j + 1].id
        BY <2>6, <4>1 DEF Increasing
      <4> QED BY <3>2, <4>2
    <3>6. Increasing'
      BY <3>4, <3>5 DEF Increasing
    <3> QED BY <2>1, <2>2, <2>8, <3>1, <3>6 DEF Replaying
  <2> QED BY <2>9, <2>10
<1>14. CASE UNCHANGED vars
  BY <1>14, ReplayingFrame DEF vars, gatewayVars, socketVars, resumeVars, storeVars
<1> QED
  BY <1>1, <1>2, <1>3, <1>4, <1>5, <1>6, <1>7, <1>8, <1>9, <1>10, <1>11, <1>12,
     <1>13, <1>14
     DEF Next, Gateway, Connection, HandleMessage, ResumeTimer

(* Nothing was handled when the client is created. *)
LEMMA InitFirst == Init => FirstConnection
BY DEF Init, FirstConnection, Replaying, Once

(* So it does in every state. *)
LEMMA FirstAlways == Spec => []FirstConnection
<1>1. ASSUME Typed, FirstConnection, [Next]_vars
      PROVE  FirstConnection'
  <2> SUFFICES ASSUME drops' = 0, resumeOnConnect' PROVE Replaying'
    BY DEF FirstConnection
  <2>1. fixed' = fixed /\ drops' \in {drops, drops + 1} /\ drops \in 0..MaxDrops
    BY <1>1, StepCounts DEF Typed, NumbersOK
  <2>2. drops = 0
    BY <2>1
  <2>3. resumeOnConnect
    BY <2>1 DEF fixed
  <2> QED BY <1>1, <2>2, <2>3, StepReplaying DEF FirstConnection
<1> QED BY <1>1, InitFirst, TypedAlways, PTL DEF Spec

(* On the connection of a reloaded page no event is handled twice, even if live
   events come before the replay: what is replayed twice is in one buffer, which
   is handled before anything else is. *)
THEOREM ReplayedOnce == Spec => []NoEventTwice
<1>1. FirstConnection => NoEventTwice
  BY DEF FirstConnection, Replaying, Once, NoEventTwice
<1> QED BY <1>1, FirstAlways, PTL
-----------------------------------------------------------------------------
(* Every event, in order, before the session is completed *)

(* What is in order is flushed as it is. *)
LEMMA InOrderDeduplicated ==
  ASSUME NEW T, NEW s \in Seq(T), InOrder(s)
  PROVE  Deduplicated(s) = s
<1>1. Once(s)
  BY DEF InOrder, Once
<1>2. Deduplicated(s) = [i \in 1..Len(s) |-> s[i]]
  BY <1>1, DeduplicatedHolds DEF Holds
<1>3. s = [i \in 1..Len(s) |-> s[i]]
  OBVIOUS
<1> QED BY <1>2, <1>3

(* The next event behind those in order *)
LEMMA InOrderAppend ==
  ASSUME NEW T, NEW s \in Seq(T), InOrder(s), Len(s) + 1 \in T
  PROVE  /\ InOrder(Append(s, Len(s) + 1))
         /\ Append(s, Len(s) + 1) \in Seq(T)
         /\ Len(Append(s, Len(s) + 1)) = Len(s) + 1
         /\ Contains(Append(s, Len(s) + 1), Len(s) + 1)
<1> DEFINE a == Append(s, Len(s) + 1)
<1>1. /\ a \in Seq(T) /\ Len(s) \in Nat /\ Len(a) = Len(s) + 1
      /\ a[Len(s) + 1] = Len(s) + 1 /\ \A i \in 1..Len(s) : a[i] = s[i]
  BY AppendIs
<1> HIDE DEF a
<1>2. InOrder(a)
  BY <1>1 DEF InOrder
<1>3. Contains(a, Len(s) + 1)
  <2>1. Len(s) + 1 \in 1..Len(a)
    BY <1>1
  <2> QED BY <1>1, <2>1 DEF Contains
<1> QED BY <1>1, <1>2, <1>3 DEF a

(* A client that is disconnected has only to have handled the events in order. *)
LEMMA DisconnectTold ==
  ASSUME NEW complete \in BOOLEAN, Disconnect(complete), InOrder(emitted')
  PROVE  Told'
BY DEF Disconnect, Told

(* What the gateway and the socket do is no matter of the client's. *)
LEMMA HandledFrame ==
  ASSUME Handled, UNCHANGED <<fixed, lastEventId, resumeMode, resumeBuffer,
                              emitted, sessionCompleted>>
  PROVE  Handled'
BY DEF Handled, InOrder, fixed

(* The timers and the socket of the client are no matter of the gateway's. *)
LEMMA ComingFrame ==
  ASSUME Coming, UNCHANGED <<fixed, arrived, peer, down, resumeFrom, lastEventId>>
  PROVE  Coming'
BY DEF Coming, UnderWay, IsEvent, fixed

(* Without a connection nothing comes. *)
LEMMA NothingComes ==
  ASSUME Coming, peer' \in {"none", "auth"}, down' = <<>>,
         UNCHANGED <<fixed, arrived, lastEventId>>
  PROVE  Coming'
BY DEF Coming, fixed

(* Once disconnected, only the gateway goes on. *)
LEMMA QuietTold ==
  ASSUME Typed, Told, status = "disconnected", [Next]_vars
  PROVE  Told'
<1>1. UNCHANGED <<emitted, status>>
  BY StepQuiet DEF Typed
<1> QED BY <1>1 DEF Told, InOrder
(* What is under way, as integers and sequences *)
LEMMA UnderWayTypes ==
  ASSUME Typed
  PROVE  /\ down \in Seq(ServerMessage) /\ Len(down) \in Nat
         /\ arrived \in Nat /\ lastEventId \in Nat /\ EndEvent \in Nat
         /\ emitted \in Seq(1..arrived) /\ resumeBuffer \in Seq(1..arrived)
         /\ Len(emitted) \in Nat /\ Len(resumeBuffer) \in Nat
BY EventsAssumption DEF Typed, NumbersOK, SequencesOK

(* A live event goes behind what is under way. *)
LEMMA EventUnderWay ==
  ASSUME Typed, NEW c \in 1..(Len(down) + 1), UnderWay(c),
         arrived + 1 \in Events, down' = Append(down, AgentEvent(arrived + 1)),
         arrived' = arrived + 1, lastEventId' = lastEventId
  PROVE  \E d \in 1..(Len(down') + 1) : UnderWay(d)'
<1>1. AgentEvent(arrived + 1) \in ServerMessage
  BY MessagesAre
<1>2. /\ Len(down) \in Nat /\ Len(down') = Len(down) + 1
      /\ down'[Len(down) + 1] = AgentEvent(arrived + 1)
      /\ \A i \in 1..Len(down) : down'[i] = down[i]
  BY <1>1, UnderWayTypes, AppendIs
<1>3. CASE c = Len(down) + 1
  <2>1. Len(down) = arrived - lastEventId
    BY <1>2, <1>3, UnderWayTypes DEF UnderWay
  <2>2. ASSUME NEW i \in 1..Len(down') PROVE down'[i] = AgentEvent(lastEventId + i)
    <3>1. CASE i = Len(down) + 1
      <4>1. lastEventId + i = arrived + 1
        BY <2>1, <3>1, UnderWayTypes
      <4> QED BY <1>2, <3>1, <4>1
    <3>2. CASE i # Len(down) + 1
      <4>1. i \in 1..Len(down) /\ i < c
        BY <1>2, <1>3, <3>2
      <4> QED BY <1>2, <4>1 DEF UnderWay
    <3> QED BY <3>1, <3>2
  <2> DEFINE d == c + 1
  <2>3. d \in 1..(Len(down') + 1) /\ d = Len(down') + 1
    BY <1>2, <1>3
  <2> HIDE DEF d
  <2>4. Len(down') = arrived' - lastEventId' /\ ~(d <= Len(down'))
    BY <1>2, <2>1, <2>3, UnderWayTypes
  <2>5. \A i \in 1..Len(down') : i < d /\ down'[i] = AgentEvent(lastEventId' + i)
    BY <1>2, <2>2, <2>3
  <2>6. UnderWay(d)'
    BY <2>4, <2>5, UnderWayTypes DEF UnderWay
  <2> QED BY <2>3, <2>6
<1>4. CASE c # Len(down) + 1
  <2>1. /\ c <= Len(down) /\ Len(down) = arrived - lastEventId + 1
        /\ lastEventId + c > EndEvent
    <3>1. c <= Len(down)
      BY <1>2, <1>4
    <3> QED BY <3>1 DEF UnderWay
  <2>2. ASSUME NEW i \in 1..Len(down')
        PROVE  down'[i] = IF i < c THEN AgentEvent(lastEventId + i)
                          ELSE IF i = c THEN Signal("session_complete")
                          ELSE AgentEvent(lastEventId + i - 1)
    <3>1. CASE i = Len(down) + 1
      <4>1. lastEventId + i - 1 = arrived + 1 /\ ~(i < c) /\ i # c
        BY <1>2, <2>1, <3>1, UnderWayTypes
      <4> QED BY <1>2, <3>1, <4>1
    <3>2. CASE i # Len(down) + 1
      <4>1. i \in 1..Len(down)
        BY <1>2, <3>2
      <4> QED BY <1>2, <4>1 DEF UnderWay
    <3> QED BY <3>1, <3>2
  <2>3. /\ c \in 1..(Len(down') + 1) /\ c <= Len(down') /\ ~(c > Len(down'))
        /\ Len(down') = arrived' - lastEventId' + 1 /\ lastEventId' + c > EndEvent
    BY <1>2, <2>1, UnderWayTypes
  <2>4. UnderWay(c)'
    BY <2>2, <2>3 DEF UnderWay
  <2> QED BY <2>3, <2>4
<1> QED BY <1>3, <1>4

(* The gateway sends session_complete once, behind the terminal event. *)
LEMMA CompleteUnderWay ==
  ASSUME Typed, NEW c \in 1..(Len(down) + 1), UnderWay(c), Over,
         ~Contains(down, Signal("session_complete")),
         down' = Append(down, Signal("session_complete")),
         arrived' = arrived, lastEventId' = lastEventId
  PROVE  \E d \in 1..(Len(down') + 1) : UnderWay(d)'
<1>1. Signal("session_complete") \in ServerMessage
  BY MessagesAre
<1>2. /\ Len(down) \in Nat /\ Len(down') = Len(down) + 1
      /\ down'[Len(down) + 1] = Signal("session_complete")
      /\ \A i \in 1..Len(down) : down'[i] = down[i]
  BY <1>1, UnderWayTypes, AppendIs
<1>3. c = Len(down) + 1
  <2>1. ASSUME c \in 1..Len(down) PROVE FALSE
    <3>1. down[c] = Signal("session_complete")
      BY <2>1 DEF UnderWay
    <3> QED BY <2>1, <3>1 DEF Contains
  <2> QED BY <1>2, <2>1
<1>4. /\ Len(down) = arrived - lastEventId /\ c <= Len(down')
      /\ Len(down') = arrived' - lastEventId' + 1
      /\ lastEventId + c > EndEvent /\ c \in 1..(Len(down') + 1)
  BY <1>2, <1>3, UnderWayTypes DEF UnderWay, Over
<1>5. ASSUME NEW i \in 1..Len(down')
      PROVE  down'[i] = IF i < c THEN AgentEvent(lastEventId + i)
                        ELSE IF i = c THEN Signal("session_complete")
                        ELSE AgentEvent(lastEventId + i - 1)
  <2>1. CASE i = c
    BY <1>2, <1>3, <2>1
  <2>2. CASE i # c
    <3>1. i \in 1..Len(down) /\ i < c
      BY <1>2, <1>3, <2>2
    <3> QED BY <1>2, <3>1 DEF UnderWay
  <2> QED BY <2>1, <2>2
<1>6. UnderWay(c)'
  BY <1>4, <1>5 DEF UnderWay
<1> QED BY <1>4, <1>6

(* The next message is the next event, while the terminal event is to come. *)
LEMMA NextUnderWay ==
  ASSUME Typed, NEW c \in 1..(Len(down) + 1), UnderWay(c), lastEventId < EndEvent,
         down # <<>>
  PROVE  /\ Head(down) = AgentEvent(lastEventId + 1)
         /\ lastEventId + 1 \in 1..arrived
         /\ down' = Tail(down) /\ arrived' = arrived /\ lastEventId' = lastEventId + 1
              => \E d \in 1..(Len(down') + 1) : UnderWay(d)'
<1>1. /\ Tail(down) \in Seq(ServerMessage) /\ Len(down) \in Nat \ {0}
      /\ Len(Tail(down)) = Len(down) - 1 /\ Head(down) = down[1]
      /\ \A i \in 1..Len(Tail(down)) : Tail(down)[i] = down[i + 1]
  BY UnderWayTypes, TailIs
<1>2. c > 1
  BY <1>1, UnderWayTypes DEF UnderWay
<1>3. down[1] = AgentEvent(lastEventId + 1)
  BY <1>1, <1>2 DEF UnderWay
<1>4. lastEventId + 1 \in 1..arrived
  BY <1>1, <1>2, UnderWayTypes DEF UnderWay
<1>5. ASSUME down' = Tail(down), arrived' = arrived, lastEventId' = lastEventId + 1
      PROVE  \E d \in 1..(Len(down') + 1) : UnderWay(d)'
  <2> DEFINE d == c - 1
  <2>1. d \in 1..(Len(down') + 1) /\ c = d + 1 /\ Len(down') = Len(down) - 1
    BY <1>1, <1>2, <1>5
  <2> HIDE DEF d
  <2>2. /\ d <= Len(down') => Len(down') = arrived' - lastEventId' + 1
                               /\ lastEventId' + d > EndEvent
        /\ d > Len(down') => Len(down') = arrived' - lastEventId'
    <3>1. /\ c <= Len(down) => Len(down) = arrived - lastEventId + 1
                               /\ lastEventId + c > EndEvent
          /\ c > Len(down) => Len(down) = arrived - lastEventId
      BY DEF UnderWay
    <3>2. Len(down') \in Nat /\ d \in Nat
      BY <1>1, <2>1
    <3>3. ASSUME d <= Len(down')
          PROVE  Len(down') = arrived' - lastEventId' + 1 /\ lastEventId' + d > EndEvent
      <4>1. c <= Len(down)
        BY <1>1, <2>1, <3>2, <3>3
      <4> QED BY <1>1, <1>5, <2>1, <3>1, <3>2, <4>1, UnderWayTypes
    <3>4. ASSUME d > Len(down')
          PROVE  Len(down') = arrived' - lastEventId'
      <4>1. c > Len(down)
        BY <1>1, <2>1, <3>2, <3>4
      <4> QED BY <1>1, <1>5, <2>1, <3>1, <3>2, <4>1, UnderWayTypes
    <3> QED BY <3>3, <3>4
  <2>3. ASSUME NEW i \in 1..Len(down')
        PROVE  down'[i] = IF i < d THEN AgentEvent(lastEventId' + i)
                          ELSE IF i = d THEN Signal("session_complete")
                          ELSE AgentEvent(lastEventId' + i - 1)
    <3>1. i + 1 \in 1..Len(down) /\ down'[i] = down[i + 1]
      BY <1>1, <1>5, <2>1
    <3>2. lastEventId' + i = lastEventId + (i + 1)
          /\ lastEventId' + i - 1 = lastEventId + (i + 1) - 1
      <4>1. i \in Nat /\ lastEventId \in Nat /\ lastEventId' = lastEventId + 1
        BY <1>5, UnderWayTypes
      <4> QED BY <4>1
    <3>3. (i < d <=> i + 1 < c) /\ (i = d <=> i + 1 = c)
      BY <1>1, <2>1
    <3>4. down[i + 1] = IF i + 1 < c THEN AgentEvent(lastEventId + (i + 1))
                        ELSE IF i + 1 = c THEN Signal("session_complete")
                        ELSE AgentEvent(lastEventId + (i + 1) - 1)
      BY <3>1 DEF UnderWay
    <3> QED BY <3>1, <3>2, <3>3, <3>4
  <2>4. UnderWay(d)'
    BY <2>2, <2>3 DEF UnderWay
  <2> QED BY <2>1, <2>4
<1> QED BY <1>1, <1>3, <1>4, <1>5

(* The replay is what is under way after lastEventId. *)
LEMMA ReplayUnderWay ==
  ASSUME Typed, down' = EventMessages(lastEventId + 1, arrived),
         arrived' = arrived, lastEventId' = lastEventId
  PROVE  /\ Len(down') = arrived - lastEventId
         /\ \E d \in 1..(Len(down') + 1) : UnderWay(d)'
<1>1. lastEventId \in 0..arrived /\ arrived \in 0..LastEvent
  BY DEF Typed, NumbersOK
<1> DEFINE s == EventMessages(lastEventId + 1, arrived)
<1>2. lastEventId \in Nat /\ lastEventId <= arrived /\ arrived \in Nat
  BY <1>1, EventsAssumption
<1>3. /\ s \in Seq(ServerMessage) /\ Len(s) = arrived - lastEventId
      /\ \A i \in 1..Len(s) : s[i] = AgentEvent(lastEventId + i)
  BY <1>1, <1>2, ReplayIs
<1> HIDE DEF s
<1>4. down' = s
  BY DEF s
<1>5. PICK d \in Nat : d = Len(s) + 1 /\ Len(s) \in Nat
  BY <1>3
<1>6. /\ d \in 1..(Len(s) + 1) /\ ~(d <= Len(s)) /\ d > Len(s)
      /\ \A i \in 1..Len(s) : i < d
  BY <1>5
<1>7. /\ d \in 1..(Len(down') + 1) /\ ~(d <= Len(down'))
      /\ Len(down') = arrived' - lastEventId'
  BY <1>3, <1>4, <1>6
<1>8. ASSUME NEW i \in 1..Len(down')
      PROVE  i < d /\ down'[i] = AgentEvent(lastEventId' + i)
  BY <1>3, <1>4, <1>6
<1>9. UnderWay(d)'
  BY <1>7, <1>8 DEF UnderWay
<1> QED BY <1>3, <1>4, <1>7, <1>9
(* What a client that receives an event knows: it is the next one. *)
LEMMA NextReceived ==
  ASSUME Typed, Told, Receive("agent_event")
  PROVE  /\ Handled /\ Coming /\ status # "disconnected" /\ peer = "live" /\ kept
         /\ Head(down).id = lastEventId + 1 /\ lastEventId + 1 \in 1..arrived
         /\ down' = Tail(down) /\ arrived' = arrived /\ lastEventId' = lastEventId + 1
              => \E d \in 1..(Len(down') + 1) : UnderWay(d)'
<1>1. /\ status # "disconnected" /\ peer \in {"resume", "live"} /\ down # <<>>
      /\ down \in Seq(ServerMessage)
      /\ Head(down) = down[1] /\ Head(down).type = "agent_event"
  BY Received DEF AuthAnswers
<1>2. Handled /\ Coming
  BY <1>1 DEF Told
<1>3. peer = "live" /\ kept
  <2>1. IsEvent(1) /\ 1 \in 1..Len(down)
    BY <1>1, TailIs DEF IsEvent
  <2> QED BY <1>1, <1>2, <2>1 DEF Coming
<1>4. PICK c \in 1..(Len(down) + 1) : UnderWay(c)
  BY <1>2, <1>3 DEF Coming
<1>5. /\ Head(down) = AgentEvent(lastEventId + 1) /\ lastEventId + 1 \in 1..arrived
      /\ down' = Tail(down) /\ arrived' = arrived /\ lastEventId' = lastEventId + 1
           => \E d \in 1..(Len(down') + 1) : UnderWay(d)'
  BY <1>1, <1>2, <1>4, NextUnderWay DEF Handled
<1>6. Head(down).id = lastEventId + 1
  <2>1. lastEventId + 1 \in Events
    BY <1>5, EventsAssumption DEF Events, Typed, NumbersOK
  <2> QED BY <1>5, <2>1, MessagesAre
<1> QED BY <1>1, <1>2, <1>3, <1>5, <1>6

(* The gateway's steps, with a client that is not disconnected *)
LEMMA GatewayTold ==
  ASSUME Typed, Handled, Coming, Gateway, ~overtaken'
  PROVE  Handled' /\ Coming'
<1>1. /\ UNCHANGED <<fixed, socketVars, resumeVars, storeVars>>
      /\ UNCHANGED <<lastEventId, resumeMode, resumeBuffer, emitted, sessionCompleted>>
  BY DEF Gateway, Arrive, GatewayAuth, GatewayReplay, GatewaySessionComplete, Drop,
     resumeVars, storeVars
<1>2. Handled'
  BY <1>1, HandledFrame
<1>3. down \in Seq(ServerMessage)
  BY UnderWayTypes
<1>4. CASE Arrive
  <2>1. /\ arrived < LastEvent /\ arrived' = arrived + 1 /\ kept
        /\ UNCHANGED <<peer, resumeFrom, drops>>
        /\ down' = down \o (IF peer = "live" THEN <<AgentEvent(arrived + 1)>> ELSE <<>>)
    <3>1. Listening => peer = "live"
      BY <1>4 DEF Arrive
    <3>2. peer = "live" => Listening
      BY DEF Listening
    <3> QED
      BY <1>4, <3>1, <3>2, EventsAssumption DEF Arrive, Send, Coming, Typed, NumbersOK
  <2>2. CASE peer = "live"
    <3>1. arrived + 1 \in Events
      BY <2>1, EventsAssumption DEF Events, Typed, NumbersOK
    <3>2. AgentEvent(arrived + 1) \in ServerMessage
      BY <3>1, MessagesAre
    <3>3. down' = Append(down, AgentEvent(arrived + 1)) /\ down' # <<>>
      BY <1>3, <2>1, <2>2, <3>2
    <3>4. \E d \in 1..(Len(down') + 1) : UnderWay(d)'
      BY <1>1, <2>1, <2>2, <3>1, <3>3, EventUnderWay DEF Coming
    <3>5. Coming'
      BY <1>1, <2>1, <2>2, <3>3, <3>4 DEF Coming, fixed
    <3> QED BY <1>2, <3>5
  <2>3. CASE peer # "live"
    <3>1. down' = down
      BY <1>3, <2>1, <2>3, ConcatNothing
    <3>2. Coming'
      BY <1>1, <2>1, <2>3, <3>1 DEF Coming, fixed
    <3> QED BY <1>2, <3>2
  <2> QED BY <2>2, <2>3
<1>5. CASE GatewayAuth
  <2>1. PICK t \in AuthAnswers : down' = down \o <<Signal(t)>>
    BY <1>5 DEF GatewayAuth, Send, AuthAnswers
  <2>2. /\ peer = "auth" /\ peer' = "authed" /\ down = <<>>
        /\ UNCHANGED <<arrived, resumeFrom, drops>>
    BY <1>5 DEF GatewayAuth, Typed, Channel
  <2>3. Signal(t) \in ServerMessage /\ Signal(t).type # "agent_event"
    BY MessagesAre DEF AuthAnswers
  <2>4. down' = <<Signal(t)>> /\ Len(down') = 1 /\ down'[1] = Signal(t)
    BY <2>1, <2>2, <2>3
  <2>5. Coming'
    BY <1>1, <2>2, <2>3, <2>4 DEF Coming, IsEvent, fixed
  <2> QED BY <1>2, <2>5
<1>6. CASE GatewayReplay
  <2>1. /\ peer = "resume" /\ peer' = "live" /\ UNCHANGED <<arrived, resumeFrom, drops>>
        /\ down = <<>> /\ resumeFrom = lastEventId
        /\ down' = down \o (IF kept THEN EventMessages(resumeFrom + 1, arrived) ELSE <<>>)
    BY <1>6 DEF GatewayReplay, Send, Coming
  <2>2. CASE kept
    <3>1. down' = EventMessages(lastEventId + 1, arrived)
      <4>1. EventMessages(lastEventId + 1, arrived) \in Seq(ServerMessage)
        BY ReplayIs DEF Typed, NumbersOK
      <4> QED BY <2>1, <2>2, <4>1, ConcatNothing
    <3>2. /\ Len(down') = arrived - lastEventId
          /\ \E d \in 1..(Len(down') + 1) : UnderWay(d)'
      BY <1>1, <2>1, <3>1, ReplayUnderWay
    <3>3. Coming'
      BY <1>1, <2>1, <2>2, <3>2 DEF Coming, fixed
    <3> QED BY <1>2, <3>3
  <2>3. CASE ~kept
    <3>1. down' = <<>>
      BY <1>3, <2>1, <2>3, ConcatNothing
    <3>2. Coming'
      BY <1>1, <2>1, <2>3, <3>1 DEF Coming, fixed
    <3> QED BY <1>2, <3>2
  <2> QED BY <2>2, <2>3
<1>7. CASE GatewaySessionComplete
  <2>1. /\ peer = "live" /\ peer' = "live" /\ Over
        /\ ~Contains(down, Signal("session_complete"))
        /\ down' = down \o <<Signal("session_complete")>>
        /\ UNCHANGED <<arrived, resumeFrom, drops>>
    BY <1>7 DEF GatewaySessionComplete, Send
  <2>2. /\ Signal("session_complete") \in ServerMessage
        /\ Signal("session_complete").type = "session_complete"
    BY MessagesAre
  <2>3. down' = Append(down, Signal("session_complete")) /\ down' # <<>>
    BY <1>3, <2>1, <2>2
  <2>4. kept => \E d \in 1..(Len(down') + 1) : UnderWay(d)'
    BY <1>1, <2>1, <2>3, CompleteUnderWay DEF Coming
  <2>5. ~kept => \A i \in 1..Len(down') : ~IsEvent(i)'
    <3>1. /\ Len(down) \in Nat /\ Len(down') = Len(down) + 1
          /\ down'[Len(down) + 1] = Signal("session_complete")
          /\ \A i \in 1..Len(down) : down'[i] = down[i]
      BY <1>3, <2>2, <2>3, AppendIs
    <3> SUFFICES ASSUME ~kept, NEW i \in 1..Len(down') PROVE ~IsEvent(i)'
      OBVIOUS
    <3>2. CASE i = Len(down) + 1
      BY <2>2, <3>1, <3>2 DEF IsEvent
    <3>3. CASE i # Len(down) + 1
      <4>1. i \in 1..Len(down)
        BY <3>1, <3>3
      <4> QED BY <3>1, <4>1 DEF Coming, IsEvent
    <3> QED BY <3>2, <3>3
  <2>6. Coming'
    BY <1>1, <2>1, <2>4, <2>5 DEF Coming, fixed
  <2> QED BY <1>2, <2>6
<1>8. CASE Drop
  <2>1. peer' = "none" /\ down' = <<>> /\ arrived' = arrived
    BY <1>8 DEF Drop
  <2>2. Coming'
    BY <1>1, <2>1, NothingComes
  <2> QED BY <1>2, <2>2
<1> QED BY <1>4, <1>5, <1>6, <1>7, <1>8 DEF Gateway
(* Every step in which no live event overtakes a replay *)
LEMMA StepTold ==
  ASSUME Typed, Told, [Next]_vars, ~overtaken'
  PROVE  Told'
<1>1. CASE status = "disconnected"
  BY <1>1, QuietTold
<1>2. CASE status # "disconnected"
  <2>1. Handled /\ Coming
    BY <1>2 DEF Told
  <2>2. fixed' = fixed /\ arrived' \in {arrived, arrived + 1}
    BY StepCounts
  <2>3. ASSUME Handled', Coming' PROVE Told'
    BY <2>3 DEF Told, Handled
  <2>4. CASE Gateway
    BY <2>1, <2>3, <2>4, GatewayTold
  <2>5. CASE HandleOpen \/ HandleClose \/ HeartbeatTimeout \/ ConnectFails \/ DoConnect
    <3>1. /\ UNCHANGED <<arrived, down, lastEventId, resumeMode, resumeBuffer, emitted,
                         sessionCompleted>>
          /\ peer = "none" /\ peer' \in {"none", "auth"} /\ down = <<>>
      BY <2>5 DEF HandleOpen, HandleClose, HeartbeatTimeout, ConnectFails, DoConnect,
         ScheduleReconnect, gatewayVars, resumeVars, storeVars, Typed, Channel, OneWayForward
    <3>2. Handled' /\ Coming'
      BY <2>1, <2>2, <3>1, HandledFrame, NothingComes
    <3> QED BY <2>3, <3>2
  <2>6. CASE DisconnectFromGateway \/ OnAuthFailed
    <3>1. Disconnect(FALSE) /\ emitted' = emitted
      BY <2>6 DEF DisconnectFromGateway, OnAuthFailed
    <3>2. InOrder(emitted')
      BY <2>1, <3>1 DEF Handled
    <3> QED BY <3>1, <3>2, DisconnectTold
  <2>7. CASE ResumeTimeout \/ (StaleTimeout /\ NothingToReplay)
    <3>1. Disconnect(TRUE) /\ emitted' = emitted /\ NothingToReplay
      BY <2>7 DEF ResumeTimeout, StaleTimeout
    <3>2. InOrder(emitted')
      BY <2>1, <3>1 DEF Handled
    <3> QED BY <3>1, <3>2, DisconnectTold
  <2>8. CASE StaleTimeout /\ ~NothingToReplay
    <3>1. UNCHANGED <<arrived, peer, down, resumeFrom, lastEventId, resumeMode,
                      resumeBuffer, emitted, sessionCompleted>>
      BY <2>8 DEF StaleTimeout, gatewayVars
    <3>2. Handled' /\ Coming'
      BY <2>1, <2>2, <3>1, HandledFrame, ComingFrame
    <3> QED BY <2>3, <3>2
  <2>9. CASE OnAuthSuccess
    <3>1. /\ peer = "authed" /\ peer' = "resume" /\ resumeFrom' = lastEventId
          /\ down' = Tail(down) /\ down # <<>> /\ down \in Seq(ServerMessage)
          /\ UNCHANGED <<arrived, lastEventId, emitted, sessionCompleted>>
      BY <2>9, Received DEF OnAuthSuccess, SendResume, AuthAnswers, storeVars
    <3>2. down' = <<>>
      <4>1. Len(down) = 1
        BY <2>1, <3>1 DEF Coming
      <4>2. down' \in Seq(ServerMessage) /\ Len(down') = 0
        BY <3>1, <4>1, TailIs
      <4> QED BY <4>2
    <3>3. Coming'
      <4>1. Len(down') = 0
        BY <3>2
      <4>2. ~kept => lastEventId = 0 /\ arrived = LastEvent
        BY <2>1 DEF Coming
      <4>3. kept' = kept
        BY <2>2 DEF fixed
      <4>4. ~kept' => /\ lastEventId' = 0 /\ arrived' = LastEvent
                      /\ \A i \in 1..Len(down') : ~IsEvent(i)'
        BY <3>1, <4>1, <4>2, <4>3
      <4> QED BY <3>1, <3>2, <4>4 DEF Coming
    <3>4. Handled'
      <4>1. CASE resumeOnConnect /\ lastEventId = 0
        <5>1. resumeMode' = TRUE /\ resumeBuffer' = <<>>
          BY <2>9, <4>1 DEF OnAuthSuccess, EnterResumeMode
        <5>2. emitted = <<>> /\ resumeBuffer = <<>>
          <6>1. Len(emitted) = 0 /\ Len(resumeBuffer) = 0
            BY <2>1, <4>1, UnderWayTypes DEF Handled
          <6> QED BY <6>1, UnderWayTypes
        <5> QED BY <2>1, <2>2, <3>1, <4>1, <5>1, <5>2 DEF Handled, fixed, InOrder
      <4>2. CASE ~(resumeOnConnect /\ lastEventId = 0)
        <5>1. UNCHANGED <<resumeMode, resumeBuffer>>
          BY <2>9, <4>2 DEF OnAuthSuccess
        <5> QED BY <2>1, <2>2, <3>1, <5>1, HandledFrame
      <4> QED BY <4>1, <4>2
    <3> QED BY <2>3, <3>3, <3>4
  <2>10. CASE ResumeFlush
    <3>1. /\ resumeMode /\ resumeMode' = FALSE /\ resumeBuffer' = <<>>
          /\ emitted' = emitted \o Deduplicated(resumeBuffer)
          /\ UNCHANGED <<arrived, peer, down, resumeFrom, lastEventId, sessionCompleted>>
      BY <2>10 DEF ResumeFlush, FlushResumeBuffer, gatewayVars, Typed, OneWayForward
    <3>2. emitted = <<>> /\ InOrder(resumeBuffer) /\ Len(resumeBuffer) = lastEventId
      BY <2>1, <3>1, UnderWayTypes DEF Handled
    <3>3. emitted' = resumeBuffer
      BY <3>1, <3>2, UnderWayTypes, InOrderDeduplicated, ConcatNothing
    <3>4. Handled'
      BY <2>1, <3>1, <3>2, <3>3, UnderWayTypes DEF Handled, InOrder
    <3>5. Coming'
      BY <2>1, <2>2, <3>1, ComingFrame
    <3> QED BY <2>3, <3>4, <3>5
  <2>11. CASE OnSessionComplete
    <3>1. /\ Disconnect(TRUE) /\ Receive("session_complete")
          /\ emitted' = emitted \o (IF resumeMode THEN Deduplicated(resumeBuffer) ELSE <<>>)
      BY <2>11 DEF OnSessionComplete
    <3>2. emitted' = IF resumeMode THEN resumeBuffer ELSE emitted
      <4>1. CASE resumeMode
        <5>1. emitted = <<>> /\ InOrder(resumeBuffer)
          BY <2>1, <4>1 DEF Handled
        <5> QED BY <3>1, <4>1, <5>1, UnderWayTypes, InOrderDeduplicated, ConcatNothing
      <4>2. CASE ~resumeMode
        BY <3>1, <4>2, UnderWayTypes, ConcatNothing
      <4> QED BY <4>1, <4>2
    <3>3. InOrder(emitted')
      BY <2>1, <3>2 DEF Handled
    <3> QED BY <3>1, <3>3, DisconnectTold
  <2>12. CASE OnReplayedEnd
    <3>1. /\ Disconnect(FALSE) /\ Receive("agent_event") /\ resumeMode
          /\ Head(down).id = EndEvent
          /\ emitted' = emitted \o Deduplicated(Append(resumeBuffer, EndEvent))
      BY <2>12 DEF OnReplayedEnd
    <3>2. emitted = <<>> /\ InOrder(resumeBuffer) /\ Len(resumeBuffer) + 1 = EndEvent
      <4>1. Head(down).id = lastEventId + 1
        BY <3>1, NextReceived
      <4> QED BY <2>1, <3>1, <4>1, UnderWayTypes DEF Handled
    <3>3. /\ InOrder(Append(resumeBuffer, EndEvent))
          /\ Append(resumeBuffer, EndEvent) \in Seq(Nat)
      <4>1. Len(resumeBuffer) + 1 \in Nat
        BY UnderWayTypes
      <4>2. resumeBuffer \in Seq(Nat)
        BY UnderWayTypes
      <4>3. /\ InOrder(Append(resumeBuffer, Len(resumeBuffer) + 1))
            /\ Append(resumeBuffer, Len(resumeBuffer) + 1) \in Seq(Nat)
        BY <3>2, <4>1, <4>2, InOrderAppend
      <4> QED BY <3>2, <4>3
    <3>4. emitted' = Append(resumeBuffer, EndEvent)
      BY <3>1, <3>2, <3>3, InOrderDeduplicated, ConcatNothing
    <3>5. InOrder(emitted')
      BY <3>3, <3>4
    <3> QED BY <3>1, <3>5, DisconnectTold
  <2>13. CASE OnReplayedEvent
    <3>1. /\ Receive("agent_event") /\ resumeMode /\ Head(down).id # EndEvent
          /\ lastEventId' = Head(down).id
          /\ resumeBuffer' = Append(resumeBuffer, Head(down).id)
          /\ down' = Tail(down)
          /\ UNCHANGED <<arrived, peer, resumeMode, emitted, sessionCompleted>>
      BY <2>13 DEF OnReplayedEvent, storeVars
    <3>2. /\ peer = "live" /\ kept /\ Head(down).id = lastEventId + 1
          /\ lastEventId + 1 \in 1..arrived
          /\ down' = Tail(down) /\ arrived' = arrived /\ lastEventId' = lastEventId + 1
               => \E d \in 1..(Len(down') + 1) : UnderWay(d)'
      BY <3>1, NextReceived
    <3>3. emitted = <<>> /\ InOrder(resumeBuffer) /\ Len(resumeBuffer) = lastEventId
      BY <2>1, <3>1, UnderWayTypes DEF Handled
    <3>4. /\ InOrder(resumeBuffer') /\ Len(resumeBuffer') = lastEventId + 1
      BY <3>1, <3>2, <3>3, UnderWayTypes, InOrderAppend
    <3>5. lastEventId' < EndEvent
      BY <2>1, <3>1, <3>2, UnderWayTypes DEF Handled
    <3>6. Handled'
      BY <2>1, <2>2, <3>1, <3>2, <3>3, <3>4, <3>5 DEF Handled, fixed
    <3>7. Coming'
      BY <2>2, <3>1, <3>2 DEF Coming, fixed
    <3> QED BY <2>3, <3>6, <3>7
  <2>14. CASE OnLiveEvent
    <3>1. /\ Receive("agent_event") /\ ~resumeMode
          /\ lastEventId' = Head(down).id /\ emitted' = Append(emitted, Head(down).id)
      BY <2>14 DEF OnLiveEvent
    <3>2. /\ peer = "live" /\ kept /\ Head(down).id = lastEventId + 1
          /\ lastEventId + 1 \in 1..arrived
          /\ down' = Tail(down) /\ arrived' = arrived /\ lastEventId' = lastEventId + 1
               => \E d \in 1..(Len(down') + 1) : UnderWay(d)'
      BY <3>1, NextReceived
    <3>3. resumeBuffer = <<>> /\ InOrder(emitted) /\ Len(emitted) = lastEventId
      BY <2>1, <3>1, UnderWayTypes DEF Handled
    <3>4. InOrder(emitted') /\ Len(emitted') = lastEventId + 1
      BY <3>1, <3>2, <3>3, UnderWayTypes, InOrderAppend
    <3>5. CASE Head(down).id = EndEvent
      <4>1. Disconnect(FALSE)
        BY <2>14, <3>5 DEF OnLiveEvent
      <4> QED BY <3>4, <4>1, DisconnectTold
    <3>6. CASE Head(down).id # EndEvent
      <4>1. /\ down' = Tail(down)
            /\ UNCHANGED <<arrived, peer, resumeMode, resumeBuffer, sessionCompleted>>
        BY <2>14, <3>6 DEF OnLiveEvent
      <4>2. lastEventId' < EndEvent
        BY <2>1, <3>1, <3>2, <3>6, UnderWayTypes DEF Handled
      <4>3. Handled'
        BY <2>1, <3>1, <3>2, <3>3, <3>4, <4>1, <4>2 DEF Handled, InOrder
      <4>4. Coming'
        BY <2>2, <3>1, <3>2, <4>1 DEF Coming, fixed
      <4> QED BY <2>3, <4>3, <4>4
    <3> QED BY <3>5, <3>6
  <2>15. CASE UNCHANGED vars
    <3>1. UNCHANGED <<arrived, drops, peer, down, resumeFrom, lastEventId, resumeMode,
                      resumeBuffer, emitted, sessionCompleted>>
      BY <2>15 DEF vars, gatewayVars, resumeVars, storeVars
    <3>2. Handled' /\ Coming'
      BY <2>1, <2>2, <3>1, HandledFrame, ComingFrame
    <3> QED BY <2>3, <3>2
  <2> QED
    BY <2>4, <2>5, <2>6, <2>7, <2>8, <2>9, <2>10, <2>11, <2>12, <2>13, <2>14, <2>15
       DEF Next, Connection, HandleMessage, ResumeTimer
<1> QED BY <1>1, <1>2

(* Nothing is handled yet when the client is created. *)
LEMMA InitTold == Init => Told
<1> SUFFICES ASSUME Init PROVE Told
  OBVIOUS
<1>1. ~kept => arrived = LastEvent
  <2>1. kept \in IF resumeOnConnect /\ arrived = LastEvent THEN BOOLEAN ELSE {TRUE}
    BY DEF Init
  <2> SUFFICES ASSUME arrived # LastEvent PROVE kept = TRUE
    OBVIOUS
  <2> QED BY <2>1
<1> QED BY <1>1, EventsAssumption DEF Init, Told, Handled, Coming, InOrder

(* However often the connection is lost, the event handler is given the
   operation's events from the first on, each once and in order, as long as no
   live event overtakes a replay: what is under way on a connection is what follows
   lastEventId, and lastEventId counts what is handled or buffered. *)
THEOREM HandledInOrder == Spec => []EmittedInOrder
<1>1. Init => (~overtaken => Told)
  BY InitTold
<1>2. Typed /\ (~overtaken => Told) /\ [Next]_vars => (~overtaken => Told)'
  BY StepTold, StepCounts
<1>3. Typed /\ (~overtaken => Told) => EmittedInOrder
  <2> SUFFICES ASSUME Typed, Told PROVE emitted = [i \in 1..Len(emitted) |-> i]
    BY DEF EmittedInOrder
  <2>1. emitted \in Seq(1..arrived) /\ \A i \in 1..Len(emitted) : emitted[i] = i
    BY UnderWayTypes DEF Told, InOrder
  <2> QED BY <2>1
<1> QED BY <1>1, <1>2, <1>3, TypedAlways, PTL DEF Spec
-----------------------------------------------------------------------------
(* The end, before the session is completed *)

(* What a message more at the end of a sequence means for the end *)
LEMMA EndAppended ==
  ASSUME NEW s \in Seq(ServerMessage), NEW m \in ServerMessage, NEW t, t = Append(s, m)
  PROVE  /\ m.type # "session_complete" /\ (\A i \in 1..Len(s) : ~Completes(s, i))
              => \A i \in 1..Len(t) : ~Completes(t, i)
         /\ EndIn(s, Len(s)) \/ m = AgentEvent(EndEvent) => EndIn(t, Len(t))
         /\ /\ \A i \in 1..Len(s) : Completes(s, i) => EndIn(s, i - 1)
            /\ m.type = "session_complete" => EndIn(s, Len(s))
            => \A i \in 1..Len(t) : Completes(t, i) => EndIn(t, i - 1)
<1>1. /\ Len(s) \in Nat /\ Len(t) = Len(s) + 1 /\ t[Len(s) + 1] = m
      /\ \A i \in 1..Len(s) : t[i] = s[i]
  BY AppendIs
<1>2. ASSUME NEW n \in 0..Len(s), EndIn(s, n)
      PROVE  EndIn(t, n) /\ EndIn(t, Len(t))
  <2>1. PICK j \in 1..n : s[j] = AgentEvent(EndEvent)
    BY <1>2 DEF EndIn
  <2>2. j \in 1..Len(s) /\ j \in 1..Len(t)
    BY <1>1
  <2> QED BY <1>1, <2>1, <2>2 DEF EndIn
<1>3. \A i \in 1..Len(t) : i \in 1..Len(s) \/ i = Len(s) + 1
  BY <1>1
<1>4. EndIn(s, Len(s)) \/ m = AgentEvent(EndEvent) => EndIn(t, Len(t))
  <2>1. Len(s) \in 0..Len(s) /\ Len(t) \in 1..Len(t)
    BY <1>1
  <2> QED BY <1>1, <1>2, <2>1 DEF EndIn
<1>5. ASSUME \A i \in 1..Len(s) : Completes(s, i) => EndIn(s, i - 1),
             m.type = "session_complete" => EndIn(s, Len(s)),
             NEW i \in 1..Len(t), Completes(t, i)
      PROVE  EndIn(t, i - 1)
  <2>1. CASE i \in 1..Len(s)
    <3>1. i - 1 \in 0..Len(s) /\ Completes(s, i)
      BY <1>1, <1>5, <2>1 DEF Completes
    <3> QED BY <1>2, <1>5, <2>1, <3>1
  <2>2. CASE i = Len(s) + 1
    <3>1. Len(s) \in 0..Len(s) /\ i - 1 = Len(s) /\ EndIn(s, Len(s))
      BY <1>1, <1>5, <2>2 DEF Completes
    <3> QED BY <1>2, <3>1
  <2> QED BY <1>3, <2>1, <2>2
<1>6. m.type # "session_complete" /\ (\A i \in 1..Len(s) : ~Completes(s, i))
        => \A i \in 1..Len(t) : ~Completes(t, i)
  BY <1>1, <1>3 DEF Completes
<1> QED BY <1>4, <1>5, <1>6

(* What is left when a message that is not the end is handled *)
LEMMA EndInTail ==
  ASSUME NEW s \in Seq(ServerMessage), s # <<>>, Head(s) # AgentEvent(EndEvent),
         NEW t, t = Tail(s)
  PROVE  /\ (\A i \in 1..Len(s) : ~Completes(s, i))
              => \A i \in 1..Len(t) : ~Completes(t, i)
         /\ EndIn(s, Len(s)) => EndIn(t, Len(t))
         /\ (\A i \in 1..Len(s) : Completes(s, i) => EndIn(s, i - 1))
              => \A i \in 1..Len(t) : Completes(t, i) => EndIn(t, i - 1)
<1>1. /\ Len(s) \in Nat /\ Len(t) \in Nat /\ Len(s) = Len(t) + 1 /\ Head(s) = s[1]
      /\ \A i \in 1..Len(t) : t[i] = s[i + 1]
  BY TailIs
<1>2. \A i \in 1..Len(t) : i + 1 \in 1..Len(s)
  BY <1>1
<1>3. ASSUME NEW n \in 0..Len(t), EndIn(s, n + 1) PROVE EndIn(t, n)
  <2>1. PICK j \in 1..(n + 1) : s[j] = AgentEvent(EndEvent)
    BY <1>3 DEF EndIn
  <2>2. j # 1
    BY <1>1, <2>1
  <2>3. j - 1 \in 1..n /\ j - 1 \in 1..Len(t) /\ (j - 1) + 1 = j
    BY <1>1, <2>2
  <2>4. t[j - 1] = AgentEvent(EndEvent)
    BY <1>1, <2>1, <2>3
  <2> QED BY <2>3, <2>4 DEF EndIn
<1>4. EndIn(s, Len(s)) => EndIn(t, Len(t))
  <2>1. Len(t) \in 0..Len(t)
    BY <1>1
  <2> QED BY <1>1, <1>3, <2>1
<1>5. ASSUME \A i \in 1..Len(s) : Completes(s, i) => EndIn(s, i - 1),
             NEW i \in 1..Len(t), Completes(t, i)
      PROVE  EndIn(t, i - 1)
  <2>1. i - 1 \in 0..Len(t) /\ (i - 1) + 1 = (i + 1) - 1 /\ i + 1 \in 1..Len(s)
    BY <1>1
  <2>2. Completes(s, i + 1)
    BY <1>1, <1>5 DEF Completes
  <2>3. EndIn(s, (i + 1) - 1)
    BY <1>5, <2>1, <2>2
  <2> QED BY <1>3, <2>1, <2>3
<1> QED BY <1>1, <1>2, <1>4, <1>5 DEF Completes

(* The replay from m on has the end, if it arrived and is behind m, and no
   session_complete. *)
LEMMA EndReplayed ==
  ASSUME NEW s \in Seq(ServerMessage), NEW m \in Nat, NEW n \in 0..LastEvent,
         \A i \in 1..Len(s) : ~Completes(s, i), NEW t, t = s \o EventMessages(m + 1, n)
  PROVE  /\ \A i \in 1..Len(t) : ~Completes(t, i)
         /\ m < EndEvent /\ EndEvent <= n => EndIn(t, Len(t))
         /\ m < n => t # <<>>
<1> DEFINE e == EventMessages(m + 1, n)
<1>1. /\ e \in Seq(ServerMessage) /\ (m <= n => Len(e) = n - m)
      /\ \A i \in 1..Len(e) : e[i] = AgentEvent(m + i) /\ m + i \in 1..n
  BY ReplayIs
<1> HIDE DEF e
<1>2. /\ Len(s) \in Nat /\ Len(e) \in Nat /\ Len(t) = Len(s) + Len(e)
      /\ \A i \in 1..Len(s) : t[i] = s[i]
      /\ \A i \in 1..Len(e) : t[Len(s) + i] = e[i]
  BY <1>1, ConcatIs DEF e
<1>3. ASSUME NEW i \in 1..Len(t) PROVE ~Completes(t, i)
  <2>1. CASE i \in 1..Len(s)
    BY <1>2, <2>1 DEF Completes
  <2>2. CASE i \notin 1..Len(s)
    <3>1. i - Len(s) \in 1..Len(e) /\ Len(s) + (i - Len(s)) = i
      BY <1>2, <2>2
    <3>2. t[i] = AgentEvent(m + (i - Len(s))) /\ m + (i - Len(s)) \in Events
      BY <1>1, <1>2, <3>1, EventsAssumption DEF Events
    <3> QED BY <3>2, MessagesAre DEF Completes
  <2> QED BY <2>1, <2>2
<1>4. ASSUME m < EndEvent, EndEvent <= n PROVE EndIn(t, Len(t))
  <2>1. /\ EndEvent - m \in 1..Len(e) /\ m + (EndEvent - m) = EndEvent
        /\ Len(s) + (EndEvent - m) \in 1..Len(t)
    BY <1>1, <1>2, <1>4, EventsAssumption
  <2> QED BY <1>1, <1>2, <2>1 DEF EndIn
<1>5. ASSUME m < n PROVE t # <<>>
  <2>1. Len(t) > 0
    BY <1>1, <1>2, <1>5, EventsAssumption
  <2> QED BY <2>1
<1> QED BY <1>3, <1>4, <1>5

(* Only auth_success makes the client ask for a replay. *)
LEMMA StepResumes ==
  ASSUME [Next]_vars
  PROVE  resumeFrom' = resumeFrom \/ OnAuthSuccess
<1>1. ASSUME NEW complete \in BOOLEAN, Disconnect(complete)
      PROVE  resumeFrom' = resumeFrom
  BY <1>1 DEF Disconnect
<1>2. CASE Gateway
  BY <1>2 DEF Gateway, Arrive, GatewayAuth, GatewayReplay, GatewaySessionComplete, Drop
<1>3. CASE HandleOpen \/ HandleClose \/ HeartbeatTimeout \/ ConnectFails \/ DoConnect
  BY <1>3 DEF HandleOpen, HandleClose, HeartbeatTimeout, ConnectFails, DoConnect,
     gatewayVars
<1>4. CASE DisconnectFromGateway \/ OnAuthFailed \/ OnReplayedEnd
            \/ OnSessionComplete \/ ResumeTimeout
  BY <1>1, <1>4 DEF DisconnectFromGateway, OnAuthFailed, OnReplayedEnd,
     OnSessionComplete, ResumeTimeout
<1>5. CASE OnReplayedEvent \/ ResumeFlush
  BY <1>5 DEF OnReplayedEvent, ResumeFlush, gatewayVars
<1>6. CASE OnLiveEvent \/ StaleTimeout
  BY <1>1, <1>6 DEF OnLiveEvent, StaleTimeout, gatewayVars
<1>7. CASE UNCHANGED vars
  BY <1>7 DEF vars, gatewayVars
<1> QED
  BY <1>2, <1>3, <1>4, <1>5, <1>6, <1>7 DEF Next, Connection, HandleMessage, ResumeTimer
(* A disconnect that completes the session of a conversation that the gateway has
   finds the end handled. *)
LEMMA DisconnectEnding ==
  ASSUME Typed, Ending, status # "disconnected",
         NEW complete \in BOOLEAN, Disconnect(complete),
         complete /\ kept /\ (resumeOnConnect => drops = 0) /\ ~EndSkipped
           => Contains(emitted', EndEvent)
  PROVE  Ending'
<1>1. /\ status' = "disconnected" /\ resumeMode' = FALSE /\ ~sessionCompleted
      /\ sessionCompleted' = (sessionCompleted \/ complete \/ Contains(emitted', EndEvent))
      /\ UNCHANGED <<arrived, fixed, resumeFrom, drops>>
  BY DEF Disconnect, Cleanup, Ending
<1>2. CompletedMeansAll'
  BY <1>1 DEF CompletedMeansAll, EndSkipped, fixed
<1>3. /\ (resumeOnConnect => arrived >= 1)'
      /\ (resumeOnConnect /\ drops = 0 => resumeFrom = 0)'
  BY <1>1 DEF Ending, fixed
<1> QED BY <1>1, <1>2, <1>3 DEF Ending, Owing, NothingToReplay

(* A client that goes on has completed nothing. *)
LEMMA GoesOnEnding ==
  ASSUME Typed, Ending, [Next]_vars, status # "disconnected",
         UNCHANGED <<sessionCompleted, resumeFrom>>, resumeMode' => resumeMode,
         Owing', kept => EndComes'
  PROVE  Ending'
<1>1. fixed' = fixed /\ arrived' \in {arrived, arrived + 1} /\ drops' \in {drops, drops + 1}
  BY StepCounts
<1>2. ~sessionCompleted'
  BY DEF Ending
<1>3. (resumeOnConnect => arrived >= 1)'
  BY <1>1, EventsAssumption DEF Ending, fixed, Typed, NumbersOK
<1>4. (resumeOnConnect /\ drops = 0 => resumeFrom = 0)'
  BY <1>1 DEF Ending, fixed, Typed, NumbersOK
<1>5. CompletedMeansAll' /\ (resumeMode => resumeOnConnect)' /\ (kept => EndComes)'
  BY <1>1, <1>2 DEF Ending, CompletedMeansAll, fixed
<1> QED BY <1>2, <1>3, <1>4, <1>5 DEF Ending

(* Once disconnected, nothing is completed any more. *)
LEMMA QuietEnding ==
  ASSUME Typed, Ending, status = "disconnected", [Next]_vars
  PROVE  Ending'
<1>1. /\ UNCHANGED <<emitted, sessionCompleted, status>> /\ fixed' = fixed
      /\ arrived' \in {arrived, arrived + 1} /\ drops' \in {drops, drops + 1}
  BY StepQuiet, StepCounts DEF Typed
<1>2. resumeMode' = FALSE
  <2>1. OneWayForward' /\ status' = "disconnected" /\ ControlOK'
    BY <1>1, StepTyped DEF Typed
  <2> QED BY <2>1 DEF OneWayForward, ControlOK
<1>3. resumeFrom' = resumeFrom
  <2>1. ~OnAuthSuccess
    BY DEF OnAuthSuccess, Receive, Typed, OneWayForward
  <2> QED BY <2>1, StepResumes
<1>4. drops' = 0 => drops = 0
  BY <1>1 DEF Typed, NumbersOK
<1>5. CompletedMeansAll'
  BY <1>1, <1>3, <1>4 DEF Ending, CompletedMeansAll, EndSkipped, fixed
<1>6. /\ (resumeOnConnect => arrived >= 1)'
      /\ (resumeOnConnect /\ drops = 0 => resumeFrom = 0)'
  BY <1>1, <1>3, <1>4, EventsAssumption DEF Ending, fixed, Typed, NumbersOK
<1> QED BY <1>1, <1>2, <1>5, <1>6 DEF Ending, Owing, NothingToReplay

(* The gateway's steps, with a client that is not disconnected *)
LEMMA GatewayEnding ==
  ASSUME Typed, Ending, Gateway, status # "disconnected"
  PROVE  Owing' /\ (kept => EndComes')
<1>1. /\ UNCHANGED <<fixed, resumeFrom, resumeMode, resumeBuffer>>
      /\ down \in Seq(ServerMessage)
  BY UnderWayTypes DEF Gateway, Arrive, GatewayAuth, GatewayReplay, GatewaySessionComplete,
     Drop, resumeVars
<1>2. (NothingToReplay' <=> NothingToReplay) /\ (EndSkipped' <=> EndSkipped)
      /\ kept' = kept /\ resumeOnConnect' = resumeOnConnect
  BY <1>1 DEF NothingToReplay, EndSkipped, fixed
<1>3. kept => EndComes
  BY DEF Ending
<1>4. CASE Arrive
  <2>1. /\ arrived + 1 \in Events /\ arrived' = arrived + 1 /\ UNCHANGED <<peer, drops>>
        /\ down' = down \o (IF Listening THEN <<AgentEvent(arrived + 1)>> ELSE <<>>)
    BY <1>4, EventsAssumption DEF Arrive, Send, Events, Typed, NumbersOK
  <2>2. CASE Listening
    <3>1. PICK m \in ServerMessage : /\ m = AgentEvent(arrived + 1) /\ down' = Append(down, m)
                                     /\ m.type = "agent_event"
      <4>1. AgentEvent(arrived + 1) \in ServerMessage
            /\ AgentEvent(arrived + 1).type = "agent_event"
        BY <2>1, MessagesAre
      <4>2. down' = Append(down, AgentEvent(arrived + 1))
        BY <1>1, <2>1, <2>2, <4>1
      <4> QED BY <4>1, <4>2
    <3>2. down' # <<>>
      BY <1>1, <3>1, AppendIs
    <3>3. Over' => Over \/ m = AgentEvent(EndEvent)
      BY <2>1, <3>1, EventsAssumption DEF Over, Typed, NumbersOK
    <3>4. kept => EndComes'
      BY <1>1, <1>2, <1>3, <2>1, <3>1, <3>3, EndAppended DEF EndComes
    <3>5. Owing'
      BY <1>2, <2>1, <3>2 DEF Ending, Owing, Owed
    <3> QED BY <3>4, <3>5
  <2>3. CASE ~Listening
    <3>1. down' = down /\ peer # "live"
      BY <1>1, <2>1, <2>3, ConcatNothing DEF Listening
    <3>2. kept => EndComes'
      BY <1>3, <2>1, <3>1 DEF EndComes, Completes
    <3>3. Owing'
      BY <1>2, <2>1, <3>1 DEF Ending, Owing, Owed
    <3> QED BY <3>2, <3>3
  <2> QED BY <2>2, <2>3
<1>5. CASE GatewayAuth
  <2>1. PICK t \in AuthAnswers : down' = down \o <<Signal(t)>>
    BY <1>5 DEF GatewayAuth, Send, AuthAnswers
  <2>2. peer = "auth" /\ peer' = "authed" /\ down = <<>> /\ UNCHANGED <<arrived, drops>>
    BY <1>5 DEF GatewayAuth, Typed, Channel
  <2>3. Signal(t) \in ServerMessage /\ Signal(t).type # "session_complete"
    BY MessagesAre DEF AuthAnswers
  <2>4. down' = <<Signal(t)>> /\ Len(down') = 1 /\ down'[1] = Signal(t)
    BY <2>1, <2>2, <2>3
  <2>5. EndComes'
    BY <2>2, <2>3, <2>4 DEF EndComes, Completes
  <2>6. Owing'
    BY <1>2, <2>2 DEF Ending, Owing, Owed
  <2> QED BY <2>5, <2>6
<1>6. CASE GatewayReplay
  <2>1. /\ peer = "resume" /\ peer' = "live" /\ UNCHANGED <<arrived, drops>>
        /\ kept => down' = down \o EventMessages(resumeFrom + 1, arrived)
    BY <1>6 DEF GatewayReplay, Send
  <2>2. /\ resumeFrom \in Nat /\ arrived \in 0..LastEvent /\ arrived \in Nat
    BY EventsAssumption DEF Typed, NumbersOK
  <2>3. kept => \A i \in 1..Len(down) : ~Completes(down, i)
    BY <1>3, <2>1 DEF EndComes
  <2>4. kept => /\ \A i \in 1..Len(down') : ~Completes(down', i)
                /\ resumeFrom < EndEvent /\ EndEvent <= arrived => EndIn(down', Len(down'))
                /\ resumeFrom < arrived => down' # <<>>
    BY <1>1, <2>1, <2>2, <2>3, EndReplayed
  <2>5. kept => EndComes'
    <3>1. ~EndSkipped' => resumeFrom < EndEvent
      BY <1>2, <2>2, EventsAssumption DEF EndSkipped
    <3>2. Over' => EndEvent <= arrived
      BY <2>1, <2>2, EventsAssumption DEF Over
    <3> QED BY <2>1, <2>4, <3>1, <3>2 DEF EndComes
  <2>6. Owing'
    <3> SUFFICES ASSUME kept, drops = 0, NothingToReplay PROVE Owed'
      BY <1>2, <2>1 DEF Owing
    <3>1. resumeFrom < arrived
      BY <2>2 DEF Ending, NothingToReplay
    <3> QED BY <2>1, <2>4, <3>1 DEF Owed
  <2> QED BY <2>5, <2>6
<1>7. CASE GatewaySessionComplete
  <2>1. /\ peer = "live" /\ peer' = "live" /\ Over /\ UNCHANGED <<arrived, drops>>
        /\ down' = down \o <<Signal("session_complete")>>
    BY <1>7 DEF GatewaySessionComplete, Send
  <2>2. PICK m \in ServerMessage : m.type = "session_complete" /\ down' = Append(down, m)
    <3>1. Signal("session_complete") \in ServerMessage
          /\ Signal("session_complete").type = "session_complete"
      BY MessagesAre
    <3>2. down' = Append(down, Signal("session_complete"))
      BY <1>1, <2>1, <3>1
    <3> QED BY <3>1, <3>2
  <2>3. down' # <<>>
    BY <1>1, <2>2, AppendIs
  <2>4. kept => EndComes'
    BY <1>1, <1>2, <1>3, <2>1, <2>2, EndAppended DEF EndComes
  <2>5. Owing'
    BY <2>1, <2>3 DEF Owing, Owed
  <2> QED BY <2>4, <2>5
<1>8. CASE Drop
  <2>1. peer' = "none" /\ drops' = drops + 1 /\ drops \in Nat
    BY <1>8, EventsAssumption DEF Drop, Typed, NumbersOK
  <2> QED BY <2>1 DEF Owing, EndComes
<1> QED BY <1>4, <1>5, <1>6, <1>7, <1>8 DEF Gateway

(* An event that is not the end is handled or buffered. *)
LEMMA EventEnding ==
  ASSUME Typed, Ending, status # "disconnected", Receive("agent_event"),
         Head(down).id # EndEvent, down' = Tail(down),
         UNCHANGED <<arrived, peer, resumeFrom>>
  PROVE  kept => EndComes'
<1>1. down \in Seq(ServerMessage) /\ down # <<>>
  BY Received
<1>2. Head(down) # AgentEvent(EndEvent)
  BY EventsAssumption, MessagesAre DEF Events
<1>3. kept => EndComes
  BY DEF Ending
<1>4. (EndSkipped' <=> EndSkipped) /\ (Over' <=> Over)
  BY DEF EndSkipped, Over
<1> QED BY <1>1, <1>2, <1>3, <1>4, EndInTail DEF EndComes

(* Every step *)
LEMMA StepEnding ==
  ASSUME Typed, FirstConnection, Ending, [Next]_vars
  PROVE  Ending'
<1>1. CASE status = "disconnected"
  BY <1>1, QuietEnding
<1>2. CASE status # "disconnected"
  <2>1. ~sessionCompleted /\ (kept => EndComes) /\ Owing /\ (resumeMode => resumeOnConnect)
    BY <1>2 DEF Ending
  <2>2. CASE Gateway
    <3>1. UNCHANGED <<sessionCompleted, resumeFrom, resumeMode>>
      BY <2>2 DEF Gateway, Arrive, GatewayAuth, GatewayReplay, GatewaySessionComplete, Drop,
         resumeVars, storeVars
    <3> QED BY <1>2, <2>2, <3>1, GatewayEnding, GoesOnEnding
  <2>3. CASE HandleOpen \/ HandleClose \/ HeartbeatTimeout \/ ConnectFails \/ DoConnect
    <3>1. /\ UNCHANGED <<resumeFrom, resumeMode, resumeBuffer, sessionCompleted>>
          /\ peer = "none" /\ peer' \in {"none", "auth"} /\ down = <<>>
      BY <2>3 DEF HandleOpen, HandleClose, HeartbeatTimeout, ConnectFails, DoConnect,
         ScheduleReconnect, gatewayVars, resumeVars, storeVars, Typed, Channel, OneWayForward
    <3>2. /\ drops' = 0 => drops = 0
          /\ fixed' = fixed
      BY StepCounts DEF Typed, NumbersOK
    <3>3. Owing'
      BY <2>1, <3>1, <3>2 DEF Owing, Owed, NothingToReplay, fixed
    <3>4. EndComes'
      BY <3>1 DEF EndComes
    <3> QED BY <1>2, <3>1, <3>3, <3>4, GoesOnEnding
  <2>4. CASE DisconnectFromGateway \/ OnAuthFailed \/ OnReplayedEnd
    <3>1. Disconnect(FALSE)
      BY <2>4 DEF DisconnectFromGateway, OnAuthFailed, OnReplayedEnd
    <3> QED BY <1>2, <3>1, DisconnectEnding
  <2>5. CASE ResumeTimeout \/ (StaleTimeout /\ NothingToReplay)
    <3>1. Disconnect(TRUE) /\ NothingToReplay
      BY <2>5 DEF ResumeTimeout, StaleTimeout
    <3>2. resumeOnConnect
      BY <2>1, <3>1 DEF NothingToReplay
    <3>3. ~(kept /\ drops = 0)
      <4>1. CASE ResumeTimeout
        BY <2>1, <3>1, <4>1 DEF ResumeTimeout, Owing
      <4>2. CASE StaleTimeout
        BY <4>2 DEF StaleTimeout, Typed, Timers, NumbersOK
      <4> QED BY <2>5, <4>1, <4>2
    <3> QED BY <1>2, <3>1, <3>2, <3>3, DisconnectEnding
  <2>6. CASE (StaleTimeout /\ ~NothingToReplay) \/ UNCHANGED vars
    <3>1. UNCHANGED <<arrived, kept, peer, down, drops, resumeFrom, resumeMode,
                      resumeBuffer, sessionCompleted>>
      BY <2>6 DEF StaleTimeout, vars, gatewayVars, fixed, resumeVars, storeVars
    <3>2. Owing' /\ (kept => EndComes')
      BY <2>1, <3>1 DEF Owing, Owed, NothingToReplay, EndComes, EndSkipped, Over
    <3> QED BY <1>2, <3>1, <3>2, GoesOnEnding
  <2>7. CASE OnAuthSuccess
    <3>1. /\ peer = "authed" /\ peer' = "resume" /\ resumeFrom' = lastEventId
          /\ down' = Tail(down) /\ down # <<>> /\ down \in Seq(ServerMessage)
          /\ UNCHANGED <<arrived, fixed, drops, sessionCompleted>>
      BY <2>7, Received DEF OnAuthSuccess, SendResume, AuthAnswers, storeVars
    <3>2. resumeMode' => resumeMode \/ resumeOnConnect
      BY <2>7 DEF OnAuthSuccess, EnterResumeMode
    <3>3. resumeOnConnect /\ drops = 0 => lastEventId = 0
      BY <1>2, <3>1 DEF FirstConnection, Replaying
    <3>4. kept => EndComes'
      <4>1. /\ Len(down) \in Nat /\ Len(down') = Len(down) - 1
            /\ \A i \in 1..Len(down') : down'[i] = down[i + 1] /\ i + 1 \in 1..Len(down)
        BY <3>1, TailIs
      <4> QED BY <2>1, <3>1, <4>1 DEF EndComes, Completes
    <3>5. Owing'
      BY <3>1 DEF Owing, Owed
    <3>6. CompletedMeansAll'
      BY <2>1, <3>1 DEF CompletedMeansAll
    <3> QED BY <1>2, <2>1, <3>1, <3>2, <3>3, <3>4, <3>5, <3>6 DEF Ending, fixed
  <2>8. CASE ResumeFlush
    <3>1. /\ resumeMode' = FALSE
          /\ UNCHANGED <<arrived, peer, down, resumeFrom, sessionCompleted>>
      BY <2>8 DEF ResumeFlush, FlushResumeBuffer, gatewayVars
    <3>2. Owing' /\ (kept => EndComes')
      BY <2>1, <3>1 DEF Owing, NothingToReplay, EndComes, EndSkipped, Over
    <3> QED BY <1>2, <3>1, <3>2, GoesOnEnding
  <2>9. CASE OnSessionComplete
    <3>1. Disconnect(TRUE) /\ Receive("session_complete")
      BY <2>9 DEF OnSessionComplete
    <3>2. ~(kept /\ ~EndSkipped)
      <4>1. /\ peer \in {"resume", "live"} /\ 1 \in 1..Len(down) /\ Completes(down, 1)
        <5>1. /\ peer \in {"resume", "live"} /\ down # <<>> /\ down \in Seq(ServerMessage)
              /\ Head(down) = down[1] /\ Head(down).type = "session_complete"
          BY <3>1, Received DEF AuthAnswers
        <5> QED BY <5>1, TailIs DEF Completes
      <4>2. ~EndIn(down, 1 - 1)
        BY DEF EndIn
      <4> QED BY <2>1, <4>1, <4>2 DEF EndComes
    <3> QED BY <1>2, <3>1, <3>2, DisconnectEnding
  <2>10. CASE OnReplayedEvent
    <3>1. /\ Receive("agent_event") /\ Head(down).id # EndEvent
          /\ resumeBuffer' = Append(resumeBuffer, Head(down).id)
          /\ down' = Tail(down)
          /\ UNCHANGED <<arrived, peer, resumeFrom, resumeMode, sessionCompleted>>
      BY <2>10 DEF OnReplayedEvent, storeVars
    <3>2. kept => EndComes'
      BY <1>2, <3>1, EventEnding
    <3>3. resumeBuffer' # <<>>
      <4>1. Head(down).id \in 1..arrived
        BY <3>1, Received
      <4>2. Len(resumeBuffer') = Len(resumeBuffer) + 1 /\ Len(resumeBuffer) \in Nat
        BY <3>1, <4>1, UnderWayTypes, AppendIs
      <4> QED BY <4>2
    <3>4. Owing'
      BY <3>3 DEF Owing, NothingToReplay
    <3> QED BY <1>2, <3>1, <3>2, <3>4, GoesOnEnding
  <2>11. CASE OnLiveEvent
    <3>1. CASE Head(down).id = EndEvent
      <4>1. Disconnect(FALSE)
        BY <2>11, <3>1 DEF OnLiveEvent
      <4> QED BY <1>2, <4>1, DisconnectEnding
    <3>2. CASE Head(down).id # EndEvent
      <4>1. /\ Receive("agent_event") /\ ~resumeMode /\ down' = Tail(down)
            /\ UNCHANGED <<arrived, peer, resumeFrom, resumeMode, sessionCompleted>>
        BY <2>11, <3>2 DEF OnLiveEvent
      <4>2. kept => EndComes'
        BY <1>2, <3>2, <4>1, EventEnding
      <4>3. Owing'
        BY <4>1 DEF Owing, NothingToReplay
      <4> QED BY <1>2, <4>1, <4>2, <4>3, GoesOnEnding
    <3> QED BY <3>1, <3>2
  <2> QED
    BY <2>2, <2>3, <2>4, <2>5, <2>6, <2>7, <2>8, <2>9, <2>10, <2>11
       DEF Next, Connection, HandleMessage, ResumeTimer
<1> QED BY <1>1, <1>2

(* A reloaded page is of an operation that has begun. *)
LEMMA InitEnding == Init => Ending
<1> SUFFICES ASSUME Init PROVE Ending
  OBVIOUS
<1>1. resumeOnConnect => arrived >= 1
  <2>1. resumeOnConnect => arrived \in 1..LastEvent
    BY DEF Init
  <2> QED BY <2>1, EventsAssumption
<1> QED BY <1>1 DEF Init, Ending, CompletedMeansAll, Owing, NothingToReplay, EndComes

(* Whatever the gateway sends first and however often the connection is lost, the
   session is completed in the store only when its end was handled, unless the
   client has asked for what follows the end, the gateway has forgotten the
   operation or the connection of a reloaded page was lost: session_complete is
   behind the end, and the timeout of a replay finds a replay under way. *)
THEOREM CompletedIsHandled == Spec => []CompletedMeansAll
<1>1. Typed /\ FirstConnection /\ Ending /\ [Next]_vars => Ending'
  BY StepEnding
<1>2. Ending => CompletedMeansAll
  BY DEF Ending
<1> QED BY <1>1, <1>2, InitEnding, FirstAlways, TypedAlways, PTL DEF Spec
=============================================================================
