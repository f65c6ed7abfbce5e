------------------------ MODULE DeviceAlarmProofs --------------------------
(***************************************************************************)
(* The time bounds of DeviceAlarm, for any number of sockets and any       *)
(* choice of the times.  Two facts carry them.  The alarm counts down what *)
(* a socket may still live: its age and the time to the alarm together     *)
(* never grow past one timeout and one interval, unless an alarm throws    *)
(* (Countdown).  And the heartbeat of a well socket is a single frame that *)
(* goes to and fro between two beats (Health).                             *)
(***************************************************************************)
EXTENDS DeviceAlarm, TLAPS

(* What is between a socket's two ends, as long as it is well.             *)
Idle(s) == frame[s] = NoFrames
LoggingIn(s) ==
  /\ state[s] = "unauthenticated"
  /\ age[s] <= LOGIN /\ silent[s] = age[s]
  /\ Idle(s) /\ beat[s] = Off
LoggedIn(s) ==
  /\ frame[s]["auth_success"] \in 0 .. DELAY
  /\ frame[s]["heartbeat"] = Off /\ frame[s]["heartbeat_ack"] = Off
  /\ silent[s] <= LOGIN + DELAY - frame[s]["auth_success"]
  /\ beat[s] = Off
Resting(s) ==
  /\ Idle(s) /\ missed[s] = 0
  /\ beat[s] \in 0 .. HEARTBEAT_INTERVAL
  /\ silent[s] <= LOGIN + DELAY + HEARTBEAT_INTERVAL - beat[s]
Asking(s) ==
  /\ frame[s]["auth_success"] = Off /\ frame[s]["heartbeat_ack"] = Off
  /\ frame[s]["heartbeat"] \in 0 .. DELAY
  /\ beat[s] >= HEARTBEAT_INTERVAL - DELAY + frame[s]["heartbeat"]
  /\ silent[s] <= LOGIN + DELAY + HEARTBEAT_INTERVAL
                    + DELAY - frame[s]["heartbeat"]
Answered(s) ==
  /\ frame[s]["auth_success"] = Off /\ frame[s]["heartbeat"] = Off
  /\ frame[s]["heartbeat_ack"] \in 0 .. DELAY
  /\ beat[s] >= HEARTBEAT_INTERVAL - DELAY - DELAY + frame[s]["heartbeat_ack"]
  /\ silent[s] <= LOGIN + DELAY + HEARTBEAT_INTERVAL - beat[s]

HealthOf(s) ==
  /\ state[s] = "none" \/ s \in closing => ~well[s]
  /\ state[s] # "authenticated" => Idle(s) /\ beat[s] = Off
  /\ well[s] => \/ LoggingIn(s)
                \/ /\ state[s] = "authenticated"
                   /\ \/ LoggedIn(s) \/ Resting(s)
                      \/ Asking(s) \/ Answered(s)

Health == \A s \in Sockets : HealthOf(s)

Countdown ==
  /\ AlarmWhileSockets
  /\ alarm => due \in -LATE .. HEARTBEAT_CHECK_INTERVAL
  /\ \A s \in Sockets : state[s] = "unauthenticated" => silent[s] = age[s]
  /\ ~thrown => \A s \in Open :
       /\ state[s] = "unauthenticated" =>
            age[s] + due <= AUTH_TIMEOUT + HEARTBEAT_CHECK_INTERVAL
       /\ state[s] = "authenticated" =>
            silent[s] + due <= HEARTBEAT_TIMEOUT + HEARTBEAT_CHECK_INTERVAL

-----------------------------------------------------------------------------
USE TimesAssumption

(* No frame is a value of the frames' type.                                *)
LEMMA NoFramesType == NoFrames \in [Kinds -> Off .. DELAY]
BY DEF NoFrames, Off

LEMMA InitType == Init => TypeOK
<1> SUFFICES ASSUME Init PROVE TypeOK
  OBVIOUS
<1>1. frame \in [Sockets -> [Kinds -> Off .. DELAY]]
  BY NoFramesType DEF Init
<1>2. /\ beat \in [Sockets -> Off .. HEARTBEAT_INTERVAL]
      /\ missed \in [Sockets -> 0 .. MAX_MISSED_HEARTBEATS]
  BY DEF Init, Off
<1>3. alarm \in BOOLEAN /\ well \in [Sockets -> BOOLEAN]
  BY DEF Init
<1>4. /\ state \in [Sockets -> {"none", "unauthenticated", "authenticated"}]
      /\ age \in [Sockets -> Nat] /\ silent \in [Sockets -> Nat] /\ due \in Int
      /\ closing \subseteq Listed
  BY DEF Init
<1>5. thrown \in BOOLEAN
  BY DEF Init
<1> QED
  BY <1>1, <1>2, <1>3, <1>4, <1>5 DEF TypeOK

(* A clock that stops is a clock.                                          *)
LEMMA OlderType ==
  ASSUME NEW t \in Nat
  PROVE  Older(t) \in Nat /\ Older(t) <= t + 1
BY DEF Older, Forever

(* Closing listed sockets keeps what is closing listed.                    *)
LEMMA CloseType ==
  ASSUME TypeOK, NEW closed \in SUBSET Listed, CloseSockets(closed), state' = state
  PROVE  closing' \subseteq Listed' /\ well' \in [Sockets -> BOOLEAN]
BY DEF CloseSockets, TypeOK, Listed

LEMMA NextType == TypeOK /\ [Next]_vars => TypeOK'
<1> SUFFICES ASSUME TypeOK, [Next]_vars PROVE TypeOK'
  OBVIOUS
<1>1. ASSUME NEW s \in Sockets, NEW old \in Sockets, NEW healthy \in BOOLEAN,
             HandleWebSocketUpgrade(s, old, healthy)
      PROVE  TypeOK'
  <2>1. /\ state' \in [Sockets -> {"none", "unauthenticated", "authenticated"}]
        /\ age' \in [Sockets -> Nat] /\ silent' \in [Sockets -> Nat]
    BY <1>1 DEF HandleWebSocketUpgrade, TypeOK
  <2>2. well' \in [Sockets -> BOOLEAN]
    BY <1>1 DEF HandleWebSocketUpgrade, TypeOK
  <2>3. closing' \subseteq Listed'
    BY <1>1 DEF HandleWebSocketUpgrade, TypeOK, Listed
  <2>4. alarm' \in BOOLEAN /\ due' \in Int
    BY <1>1 DEF HandleWebSocketUpgrade, ScheduleAuthTimeout, Schedule, TypeOK
  <2> QED BY <1>1, <2>1, <2>2, <2>3, <2>4 DEF HandleWebSocketUpgrade, TypeOK, client
<1>2. ASSUME NEW s \in Sockets, Authenticate(s) PROVE TypeOK'
  <2>2. CASE s \in closing
    <3>1. alarm' \in BOOLEAN /\ due' \in Int
      BY <1>2, <2>2 DEF Authenticate, TypeOK
    <3>2. frame' \in [Sockets -> [Kinds -> Off .. DELAY]]
      BY <1>2, <2>2 DEF Authenticate, TypeOK
    <3> QED BY <1>2, <3>1, <3>2 DEF Authenticate, TypeOK, client, Listed
  <2>3. CASE s \notin closing
    <3>1. alarm' \in BOOLEAN
      BY <1>2, <2>3 DEF Authenticate, ScheduleHeartbeatCheck, Schedule
    <3>2. due' \in Int
      BY <1>2, <2>3 DEF Authenticate, ScheduleHeartbeatCheck, Schedule, TypeOK
    <3>3. frame' \in [Sockets -> [Kinds -> Off .. DELAY]]
      BY <1>2, <2>3 DEF Authenticate, Send, TypeOK, Kinds, Off
    <3> QED BY <1>2, <3>1, <3>2, <3>3 DEF Authenticate, TypeOK, client, Listed
  <2> QED BY <2>2, <2>3
<1>3. ASSUME NEW s \in Sockets, Leave(s) PROVE TypeOK'
  <2>1. /\ beat' \in [Sockets -> Off .. HEARTBEAT_INTERVAL]
        /\ missed' \in [Sockets -> 0 .. MAX_MISSED_HEARTBEATS]
        /\ frame' \in [Sockets -> [Kinds -> Off .. DELAY]]
    BY <1>3, NoFramesType DEF Leave, TypeOK, Off
  <2> QED BY <1>3, <2>1 DEF Leave, TypeOK, Listed
<1>4. ASSUME NEW s \in Sockets, OnHeartbeat(s) PROVE TypeOK'
  <2>1. frame' \in [Sockets -> [Kinds -> Off .. DELAY]]
    BY <1>4 DEF OnHeartbeat, TypeOK, Kinds, Off
  <2> QED BY <1>4, <2>1 DEF OnHeartbeat, TypeOK, client, Listed
<1>5. CASE Alarm \/ AlarmThrows
  <2>1. PICK closed \in SUBSET Listed : CloseSockets(closed)
    BY <1>5 DEF Alarm, AlarmThrows, Open
  <2>4. alarm' \in BOOLEAN /\ thrown' \in BOOLEAN
    BY <1>5, Zenon DEF Alarm, AlarmThrows
  <2>5. due' \in Int
    BY <1>5 DEF Alarm, AlarmThrows
  <2>6. UNCHANGED <<state, age, silent, beat, missed, frame>>
    BY <1>5 DEF Alarm, AlarmThrows, client
  <2>2. /\ state' = state /\ alarm' \in BOOLEAN /\ due' \in Int /\ thrown' \in BOOLEAN
        /\ UNCHANGED <<age, silent, beat, missed, frame>>
    BY <2>4, <2>5, <2>6
  <2>3. closing' \subseteq Listed' /\ well' \in [Sockets -> BOOLEAN]
    BY <2>1, <2>2, CloseType
  <2> QED BY <2>2, <2>3 DEF TypeOK
<1>12. ASSUME NEW s \in Sockets, Refuse(s) PROVE TypeOK'
  <2>1. closing' \subseteq Listed' /\ well' \in [Sockets -> BOOLEAN]
    BY <1>12, CloseType DEF Refuse, Listed
  <2> QED BY <1>12, <2>1 DEF Refuse, TypeOK, client
<1>6. ASSUME NEW s \in Sockets, OnAuthSuccess(s) PROVE TypeOK'
  BY <1>6 DEF OnAuthSuccess, TypeOK, gateway, Kinds, Off, Listed
<1>7. ASSUME NEW s \in Sockets, Beat(s) PROVE TypeOK'
  <2>1. CASE missed[s] + 1 > MAX_MISSED_HEARTBEATS
    <3>1. frame' \in [Sockets -> [Kinds -> Off .. DELAY]]
      BY <1>7, <2>1, NoFramesType DEF Beat, TypeOK
    <3>2. Off \in Off .. HEARTBEAT_INTERVAL /\ 0 \in 0 .. MAX_MISSED_HEARTBEATS
      BY DEF Off
    <3>3. /\ beat' \in [Sockets -> Off .. HEARTBEAT_INTERVAL]
          /\ missed' \in [Sockets -> 0 .. MAX_MISSED_HEARTBEATS]
      BY <1>7, <2>1, <3>2 DEF Beat, TypeOK
    <3> QED BY <1>7, <2>1, <3>1, <3>3 DEF Beat, TypeOK, gateway, Listed
  <2>2. CASE ~(missed[s] + 1 > MAX_MISSED_HEARTBEATS)
    <3>1. frame' \in [Sockets -> [Kinds -> Off .. DELAY]]
      BY <1>7, <2>2 DEF Beat, Send, TypeOK, Kinds, Off
    <3>2. /\ HEARTBEAT_INTERVAL \in Off .. HEARTBEAT_INTERVAL
          /\ missed[s] + 1 \in 0 .. MAX_MISSED_HEARTBEATS
      BY <2>2 DEF Off, TypeOK
    <3>3. /\ beat' \in [Sockets -> Off .. HEARTBEAT_INTERVAL]
          /\ missed' \in [Sockets -> 0 .. MAX_MISSED_HEARTBEATS]
      BY <1>7, <2>2, <3>2 DEF Beat, TypeOK
    <3> QED BY <1>7, <2>2, <3>1, <3>3 DEF Beat, TypeOK, gateway, Listed
  <2> QED BY <2>1, <2>2
<1>8. ASSUME NEW s \in Sockets, OnHeartbeatAck(s) PROVE TypeOK'
  BY <1>8 DEF OnHeartbeatAck, TypeOK, gateway, Kinds, Off, Listed
<1>9. ASSUME NEW s \in Sockets, Degrade(s) PROVE TypeOK'
  BY <1>9 DEF Degrade, TypeOK, gateway, client, Kinds, Off, Listed
<1>10. CASE Tick
  <2>1. age' \in [Sockets -> Nat] /\ silent' \in [Sockets -> Nat]
    BY <1>10, OlderType DEF Tick, TypeOK
  <2>2. /\ beat' \in [Sockets -> Off .. HEARTBEAT_INTERVAL]
        /\ frame' \in [Sockets -> [Kinds -> Off .. DELAY]] /\ due' \in Int
    BY <1>10 DEF Tick, Down, TypeOK, Off
  <2> QED BY <1>10, <2>1, <2>2 DEF Tick, TypeOK, Listed
<1>11. CASE UNCHANGED vars
  BY <1>11 DEF vars, TypeOK, Listed
<1> QED
  BY <1>1, <1>2, <1>3, <1>4, <1>5, <1>6, <1>7, <1>8, <1>9, <1>10, <1>11,
     <1>12 DEF Next, Connection

-----------------------------------------------------------------------------
(* The bounds of the alarm.                                                *)
LEMMA InitCountdown == Init => Countdown
BY DEF Init, Countdown, AlarmWhileSockets, Open, Listed

(* A step that leaves the gateway's clocks alone.                          *)
LEMMA SameGateway ==
  ASSUME Countdown, UNCHANGED gateway
  PROVE  Countdown'
BY DEF Countdown, gateway, AlarmWhileSockets, Open, Listed

LEMMA NextCountdown == TypeOK /\ Countdown /\ [Next]_vars => Countdown'
<1> SUFFICES ASSUME TypeOK, Countdown, [Next]_vars PROVE Countdown'
  OBVIOUS
<1>1. ASSUME NEW s \in Sockets, NEW old \in Sockets, NEW healthy \in BOOLEAN,
             HandleWebSocketUpgrade(s, old, healthy)
      PROVE  Countdown'
  <2>1. alarm' /\ due' \in -LATE .. HEARTBEAT_CHECK_INTERVAL /\ thrown' = thrown
    BY <1>1 DEF HandleWebSocketUpgrade, ScheduleAuthTimeout, Schedule,
       Countdown, TypeOK
  <2>2. ASSUME NEW t \in Sockets
        PROVE  \/ /\ state'[t] = "unauthenticated"
                  /\ age'[t] = 0 /\ silent'[t] = 0
               \/ /\ state'[t] = state[t] /\ (t \in Open' => t \in Open)
                  /\ age'[t] = age[t] /\ silent'[t] = silent[t]
    BY <1>1 DEF HandleWebSocketUpgrade, TypeOK, Listed, Open
  <2>3. Open # {} /\ ~thrown => due' = due
    BY <1>1 DEF HandleWebSocketUpgrade, ScheduleAuthTimeout, Schedule,
       Countdown, AlarmWhileSockets
  <2>4. ASSUME NEW t \in Open', ~thrown
        PROVE  /\ state'[t] = "unauthenticated" =>
                    age'[t] + due' <= AUTH_TIMEOUT + HEARTBEAT_CHECK_INTERVAL
               /\ state'[t] = "authenticated" =>
                    silent'[t] + due' <= HEARTBEAT_TIMEOUT + HEARTBEAT_CHECK_INTERVAL
    <3>1. t \in Sockets
      BY DEF Open, Listed
    <3> QED BY <2>1, <2>2, <2>3, <2>4, <3>1 DEF Countdown, TypeOK
  <2> QED BY <2>1, <2>2, <2>4 DEF Countdown, AlarmWhileSockets
<1>2. ASSUME NEW s \in Sockets, Authenticate(s) PROVE Countdown'
  <2>1. CASE s \in closing
    BY <1>2, <2>1 DEF Authenticate, Countdown, AlarmWhileSockets, Open, Listed, TypeOK
  <2>2. CASE s \notin closing
    <3>1. s \in Open /\ alarm' /\ due' \in -LATE .. HEARTBEAT_CHECK_INTERVAL
      BY <1>2, <2>2 DEF Authenticate, ScheduleHeartbeatCheck, Schedule, Countdown, Open,
         Listed, TypeOK
    <3>2. ~thrown => due' = due
      BY <1>2, <2>2, <3>1 DEF Authenticate, ScheduleHeartbeatCheck, Schedule, Countdown,
         AlarmWhileSockets
    <3>3. Open' = Open /\ thrown' = thrown
      BY <1>2 DEF Authenticate, Open, Listed, TypeOK
    <3> QED BY <1>2, <3>1, <3>2, <3>3 DEF Authenticate, Countdown, AlarmWhileSockets,
               TypeOK
  <2> QED BY <2>1, <2>2
<1>3. ASSUME NEW s \in Sockets, Leave(s) \/ Refuse(s) PROVE Countdown'
  <2>1. UNCHANGED <<alarm, due, thrown>>
    BY <1>3 DEF Leave, Refuse
  <2>2. ASSUME NEW t \in Sockets, state'[t] # "none"
        PROVE  state'[t] = state[t] /\ age'[t] = age[t] /\ silent'[t] = silent[t]
    BY <1>3, <2>2 DEF Leave, Refuse, TypeOK
  <2>3. Open' \subseteq Open
    <3>1. CASE Leave(s)
      BY <3>1, <2>2 DEF Leave, Open, Listed, TypeOK
    <3>2. CASE Refuse(s)
      BY <3>2 DEF Refuse, CloseSockets, Open, Listed
    <3> QED BY <1>3, <3>1, <3>2
  <2>4. \A t \in Open' : t \in Sockets /\ state'[t] # "none"
    BY DEF Open, Listed
  <2> QED BY <2>1, <2>2, <2>3, <2>4 DEF Countdown, AlarmWhileSockets
<1>4. ASSUME NEW s \in Sockets, OnHeartbeat(s) PROVE Countdown'
  BY <1>4 DEF OnHeartbeat, Countdown, AlarmWhileSockets, Open, Listed, TypeOK
<1>5. CASE Alarm
  <2>1. PICK closed : /\ closed = {s \in Listed : Overdue(s) \/ Stale(s)}
                      /\ CloseSockets(closed)
                      /\ alarm' = (Listed \ closed # {})
                      /\ alarm' => due' = HEARTBEAT_CHECK_INTERVAL
    BY <1>5 DEF Alarm
  <2>2. state' = state /\ age' = age /\ silent' = silent
    BY <1>5 DEF Alarm
  <2>3. Open' \subseteq Listed \ closed
    BY <2>1, <2>2 DEF CloseSockets, Open, Listed
  <2>4. \A t \in Open' : alarm' /\ ~Overdue(t) /\ ~Stale(t) /\ t \in Sockets
    BY <2>1, <2>3 DEF Listed
  <2> QED BY <2>1, <2>2, <2>4 DEF Countdown, AlarmWhileSockets, Overdue, Stale, TypeOK
<1>9. CASE AlarmThrows
  BY <1>9 DEF AlarmThrows, Countdown, AlarmWhileSockets
<1>6. ASSUME NEW s \in Sockets,
             \/ OnAuthSuccess(s) \/ Beat(s) \/ OnHeartbeatAck(s) \/ Degrade(s)
      PROVE  Countdown'
  BY <1>6, SameGateway DEF OnAuthSuccess, Beat, OnHeartbeatAck, Degrade
<1>7. CASE Tick
  <2>1. /\ alarm' = alarm /\ state' = state /\ thrown' = thrown /\ Open' = Open
        /\ alarm => due' = due - 1 /\ due' \in -LATE .. HEARTBEAT_CHECK_INTERVAL
    BY <1>7 DEF Tick, Countdown, TypeOK, Open, Listed
  <2>2. ASSUME NEW t \in Sockets, state[t] # "none"
        PROVE  /\ silent'[t] = Older(silent[t])
               /\ state[t] = "unauthenticated" => age'[t] = Older(age[t])
    BY <1>7, <2>2 DEF Tick
  <2>3. ASSUME NEW t \in Open, ~thrown
        PROVE  /\ state[t] = "unauthenticated" =>
                    age'[t] + due' <= AUTH_TIMEOUT + HEARTBEAT_CHECK_INTERVAL
               /\ state[t] = "authenticated" =>
                    silent'[t] + due' <= HEARTBEAT_TIMEOUT + HEARTBEAT_CHECK_INTERVAL
    <3>1. t \in Sockets /\ state[t] # "none" /\ alarm
      BY <2>3 DEF Open, Listed, Countdown, AlarmWhileSockets
    <3>2. age[t] \in Nat /\ silent[t] \in Nat /\ due \in Int /\ due' = due - 1
      BY <2>1, <3>1 DEF TypeOK
    <3>3. /\ state[t] = "unauthenticated" => age'[t] <= age[t] + 1 /\ age'[t] \in Nat
          /\ silent'[t] <= silent[t] + 1 /\ silent'[t] \in Nat
      BY <2>2, <3>1, <3>2, OlderType
    <3> QED BY <2>3, <3>2, <3>3 DEF Countdown
  <2>4. \A t \in Sockets : state'[t] = "unauthenticated" => silent'[t] = age'[t]
    BY <2>1, <2>2 DEF Countdown
  <2> QED BY <2>1, <2>3, <2>4 DEF Countdown, AlarmWhileSockets
<1>8. CASE UNCHANGED vars
  BY <1>8, SameGateway DEF vars, gateway
<1> QED
  BY <1>1, <1>2, <1>3, <1>4, <1>5, <1>6, <1>7, <1>8, <1>9 DEF Next, Connection

(* The invariant bounds what the gateway still lists.                      *)
LEMMA CountdownBounds == TypeOK /\ Countdown => GoneInTime
<1> SUFFICES ASSUME TypeOK, Countdown, ~thrown, NEW s \in Open
             PROVE  /\ state[s] = "unauthenticated" =>
                         age[s] <= AUTH_TIMEOUT + HEARTBEAT_CHECK_INTERVAL + LATE
                    /\ state[s] = "authenticated" =>
                         silent[s] <= HEARTBEAT_TIMEOUT
                                        + HEARTBEAT_CHECK_INTERVAL + LATE
  BY DEF GoneInTime
<1>1. due \in Int /\ due >= -LATE
  BY DEF Countdown, AlarmWhileSockets, TypeOK
<1>2. age[s] \in Nat /\ silent[s] \in Nat
  BY DEF TypeOK, Open, Listed
<1> QED
  BY <1>1, <1>2 DEF Countdown

(* Every variable keeps its type: no count of a heartbeat passes its       *)
(* interval and no frame is on its way for longer than DELAY.              *)
THEOREM AlarmTypes == Spec => []TypeOK
BY InitType, NextType, PTL DEF Spec

(* No handler that leaves an open socket behind leaves it without an alarm *)
(* (scheduleAuthTimeout, scheduleHeartbeatCheck, alarm), but for an alarm  *)
(* that throws.                                                            *)
THEOREM AlarmStays == Spec => []AlarmWhileSockets
<1>1. Init => TypeOK /\ Countdown
  BY InitType, InitCountdown
<1>2. TypeOK /\ Countdown /\ [Next]_vars => (TypeOK /\ Countdown)'
  BY NextType, NextCountdown
<1>3. Countdown => AlarmWhileSockets
  BY DEF Countdown
<1> QED BY <1>1, <1>2, <1>3, PTL DEF Spec

(* A socket that does not authenticate, or that falls silent, is closed    *)
(* within its timeout, one check interval and the lateness of an alarm,    *)
(* as long as the last alarm that rang has completed.                      *)
THEOREM SilentSocketsLeave == Spec => []GoneInTime
<1>1. Init => TypeOK /\ Countdown
  BY InitType, InitCountdown
<1>2. TypeOK /\ Countdown /\ [Next]_vars => (TypeOK /\ Countdown)'
  BY NextType, NextCountdown
<1> QED BY <1>1, <1>2, CountdownBounds, PTL DEF Spec

-----------------------------------------------------------------------------
(* The connection that works.                                              *)
LEMMA FrameFacts ==
  ASSUME TypeOK, NEW s \in Sockets
  PROVE  /\ Idle(s) <=> /\ frame[s]["auth_success"] = Off
                        /\ frame[s]["heartbeat"] = Off
                        /\ frame[s]["heartbeat_ack"] = Off
         /\ \A k \in Kinds : frame[s][k] \in Int /\ frame[s][k] >= -1
         /\ beat[s] \in Int /\ silent[s] \in Nat /\ age[s] \in Nat
         /\ missed[s] \in Nat
BY DEF TypeOK, Idle, NoFrames, Kinds, Off

LEMMA InitHealth == Init => Health
BY DEF Init, Health, HealthOf, Idle

(* A step that does not touch a socket keeps its health.                   *)
LEMMA Untouched ==
  ASSUME NEW t \in Sockets, HealthOf(t),
         state'[t] = state[t], age'[t] = age[t], silent'[t] = silent[t],
         beat'[t] = beat[t], missed'[t] = missed[t], frame'[t] = frame[t],
         well'[t] = well[t], t \in closing' => t \in closing
  PROVE  HealthOf(t)'
BY DEF HealthOf, Idle, LoggingIn, LoggedIn, Resting, Asking, Answered

(* A socket that is gone has nothing left.                                 *)
LEMMA Gone ==
  ASSUME NEW t \in Sockets, state'[t] = "none", beat'[t] = Off,
         frame'[t] = NoFrames, ~well'[t]
  PROVE  HealthOf(t)'
BY DEF HealthOf, Idle

(* A socket that turns bad is held to nothing but the gateway's rule that  *)
(* an unauthenticated socket is sent nothing.                              *)
LEMMA TurnedBad ==
  ASSUME NEW t \in Sockets, ~well'[t], state'[t] = "authenticated"
  PROVE  HealthOf(t)'
BY DEF HealthOf

(* So is a socket that the gateway closes.                                 *)
LEMMA Closed ==
  ASSUME TypeOK, NEW t \in Sockets, HealthOf(t), NEW closed, CloseSockets(closed),
         UNCHANGED <<state, age, silent, beat, missed, frame>>
  PROVE  HealthOf(t)'
<1>4. t \notin closed => well'[t] = well[t] /\ (t \in closing' => t \in closing)
  BY DEF CloseSockets, TypeOK
<1>5. t \in closed => ~well'[t]
  BY DEF CloseSockets
<1>1. /\ t \notin closed => well'[t] = well[t] /\ (t \in closing' => t \in closing)
      /\ t \in closed => ~well'[t]
  BY <1>4, <1>5
<1>2. CASE t \notin closed
  BY <1>1, <1>2, Untouched
<1>3. CASE t \in closed
  BY <1>1, <1>3 DEF HealthOf, Idle
<1> QED BY <1>2, <1>3

LEMMA NextHealth == TypeOK /\ Health /\ [Next]_vars => Health'
<1> SUFFICES ASSUME TypeOK, Health, [Next]_vars, NEW t \in Sockets
             PROVE  HealthOf(t)'
  BY DEF Health
<1>0. HealthOf(t) /\ TypeOK'
  BY NextType DEF Health
<1>1. ASSUME NEW s \in Sockets, NEW old \in Sockets, NEW healthy \in BOOLEAN,
             HandleWebSocketUpgrade(s, old, healthy)
      PROVE  HealthOf(t)'
  <2>1. CASE t # s /\ t # old
    BY <1>0, <1>1, <2>1, Untouched DEF HandleWebSocketUpgrade, client, TypeOK
  <2>2. CASE t # s /\ t = old
    <3>1. ~well'[t] /\ state'[t] = state[t] /\ beat' = beat /\ frame' = frame
      BY <1>1, <2>2 DEF HandleWebSocketUpgrade, client, TypeOK
    <3> QED BY <1>0, <3>1 DEF HealthOf, Idle
  <2>3. CASE t = s
    <3>1. Idle(t) /\ beat[t] = Off /\ state[t] = "none"
      BY <1>0, <1>1, <2>3 DEF HandleWebSocketUpgrade, HealthOf
    <3>2. frame'[t] = NoFrames /\ beat'[t] = Off
      BY <1>1, <3>1 DEF HandleWebSocketUpgrade, client, Idle
    <3>3. /\ state'[t] = "unauthenticated" /\ age'[t] = 0 /\ silent'[t] = 0
          /\ t \notin closing'
      BY <1>1, <2>3, <3>1 DEF HandleWebSocketUpgrade, TypeOK, Listed
    <3> QED BY <3>2, <3>3 DEF HealthOf, LoggingIn, Idle
  <2> QED BY <2>1, <2>2, <2>3
<1>2. ASSUME NEW s \in Sockets, Authenticate(s) PROVE HealthOf(t)'
  <2>1. CASE t # s
    BY <1>0, <1>2, <2>1, Untouched DEF Authenticate, Send, client, TypeOK
  <2>2. CASE t = s /\ s \in closing
    <3>1. ~well'[t] /\ state'[t] = "authenticated"
      BY <1>0, <1>2, <2>2 DEF Authenticate, HealthOf, TypeOK
    <3> QED BY <3>1, TurnedBad
  <2>3. CASE t = s /\ s \notin closing
    <3>1. /\ frame'[t]["auth_success"] = DELAY
          /\ frame'[t]["heartbeat"] = frame[t]["heartbeat"]
          /\ frame'[t]["heartbeat_ack"] = frame[t]["heartbeat_ack"]
          /\ state[t] = "unauthenticated" /\ state'[t] = "authenticated"
          /\ well' = well /\ silent' = silent /\ beat' = beat /\ closing' = closing
      BY <1>2, <2>3 DEF Authenticate, Send, client, TypeOK, Kinds
    <3> QED BY <1>0, <3>1, FrameFacts DEF HealthOf, LoggingIn, LoggedIn
  <2> QED BY <2>1, <2>2, <2>3
<1>3. ASSUME NEW s \in Sockets, Leave(s) PROVE HealthOf(t)'
  <2>1. CASE t # s
    BY <1>0, <1>3, <2>1, Untouched DEF Leave, TypeOK
  <2>2. CASE t = s
    BY <1>3, <2>2, Gone DEF Leave, TypeOK
  <2> QED BY <2>1, <2>2
<1>4. ASSUME NEW s \in Sockets, OnHeartbeat(s) PROVE HealthOf(t)'
  <2>1. CASE t # s
    BY <1>0, <1>4, <2>1, Untouched DEF OnHeartbeat, client, TypeOK
  <2>2. CASE t = s /\ s \in closing
    <3>1. ~well'[t] /\ state'[t] = "authenticated"
      BY <1>0, <1>4, <2>2 DEF OnHeartbeat, HealthOf
    <3> QED BY <3>1, TurnedBad
  <2>3. CASE t = s /\ s \notin closing
    <3>1. /\ frame[t]["heartbeat"] # Off /\ state[t] = "authenticated"
          /\ frame'[t]["auth_success"] = frame[t]["auth_success"]
          /\ frame'[t]["heartbeat"] = Off
          /\ frame'[t]["heartbeat_ack"] = DELAY
          /\ state' = state /\ well' = well /\ silent'[t] = 0 /\ beat' = beat
          /\ closing' = closing
      BY <1>4, <2>3 DEF OnHeartbeat, client, TypeOK, Kinds
    <3>2. well[t] => Asking(t)
      BY <1>0, <3>1, FrameFacts DEF HealthOf, LoggingIn, LoggedIn, Resting,
         Answered
    <3> QED BY <1>0, <3>1, <3>2, FrameFacts DEF HealthOf, Asking, Answered,
               TypeOK, Kinds
  <2> QED BY <2>1, <2>2, <2>3
<1>5. CASE Alarm \/ AlarmThrows \/ \E s \in Sockets : Refuse(s)
  <2>1. /\ \E closed : CloseSockets(closed)
        /\ UNCHANGED <<state, age, silent, beat, missed, frame>>
    BY <1>5 DEF Alarm, AlarmThrows, Refuse, client
  <2> QED BY <1>0, <2>1, Closed
<1>6. ASSUME NEW s \in Sockets, OnAuthSuccess(s) PROVE HealthOf(t)'
  <2>1. CASE t # s
    BY <1>0, <1>6, <2>1, Untouched DEF OnAuthSuccess, gateway, TypeOK
  <2>2. CASE t = s
    <3>1. /\ frame[t]["auth_success"] # Off
          /\ frame'[t]["auth_success"] = Off
          /\ frame'[t]["heartbeat"] = frame[t]["heartbeat"]
          /\ frame'[t]["heartbeat_ack"] = frame[t]["heartbeat_ack"]
          /\ state' = state /\ well' = well /\ silent' = silent /\ closing' = closing
          /\ beat'[t] = HEARTBEAT_INTERVAL /\ missed'[t] = 0
      BY <1>6, <2>2 DEF OnAuthSuccess, gateway, TypeOK, Kinds
    <3>2. state[t] = "authenticated" /\ well[t] => LoggedIn(t)
      BY <1>0, <3>1, FrameFacts DEF HealthOf, LoggingIn, Resting, Asking,
         Answered
    <3>3. state[t] = "authenticated"
      BY <1>0, <3>1, FrameFacts DEF HealthOf
    <3> QED BY <1>0, <3>1, <3>2, <3>3, FrameFacts DEF HealthOf, LoggedIn,
               Resting, Idle, NoFrames, Kinds, TypeOK
  <2> QED BY <2>1, <2>2
<1>7. ASSUME NEW s \in Sockets, Beat(s) PROVE HealthOf(t)'
  <2>1. CASE t # s
    <3>1. /\ state' = state /\ age' = age /\ silent' = silent /\ closing' = closing
          /\ beat'[t] = beat[t] /\ missed'[t] = missed[t]
          /\ frame'[t] = frame[t] /\ well'[t] = well[t]
      BY <1>7, <2>1 DEF Beat, Send, gateway, TypeOK
    <3> QED BY <1>0, <3>1, Untouched
  <2>2. CASE t = s
    <3>1. beat[t] = 0 /\ state' = state /\ silent' = silent /\ closing' = closing
      BY <1>7, <2>2 DEF Beat, gateway
    <3>2. state[t] = "authenticated"
      BY <1>0, <3>1, FrameFacts DEF HealthOf, Off
    <3>3. well[t] => Resting(t)
      BY <1>0, <3>1, <3>2, FrameFacts, HealthAssumption
         DEF HealthOf, LoggingIn, LoggedIn, Asking, Answered, Off
    <3>4. CASE missed[t] + 1 > MAX_MISSED_HEARTBEATS
      <4>1. ~well'[t]
        BY <1>7, <2>2, <3>4 DEF Beat, TypeOK
      <4> QED BY <3>1, <3>2, <4>1, TurnedBad
    <3>5. CASE ~(missed[t] + 1 > MAX_MISSED_HEARTBEATS)
      <4>1. /\ frame'[t]["auth_success"] = frame[t]["auth_success"]
            /\ frame'[t]["heartbeat"] = DELAY
            /\ frame'[t]["heartbeat_ack"] = frame[t]["heartbeat_ack"]
            /\ beat'[t] = HEARTBEAT_INTERVAL /\ well' = well
        BY <1>7, <2>2, <3>5 DEF Beat, Send, TypeOK, Kinds
      <4>2. well[t] => Asking(t)'
        BY <3>1, <3>3, <4>1, FrameFacts DEF Resting, Asking, Off
      <4> QED BY <1>0, <3>1, <3>2, <4>1, <4>2 DEF HealthOf
    <3> QED BY <3>4, <3>5
  <2> QED BY <2>1, <2>2
<1>8. ASSUME NEW s \in Sockets, OnHeartbeatAck(s) PROVE HealthOf(t)'
  <2>1. CASE t # s
    BY <1>0, <1>8, <2>1, Untouched DEF OnHeartbeatAck, gateway, TypeOK
  <2>2. CASE t = s
    <3>1. /\ frame[t]["heartbeat_ack"] # Off
          /\ frame'[t]["auth_success"] = frame[t]["auth_success"]
          /\ frame'[t]["heartbeat"] = frame[t]["heartbeat"]
          /\ frame'[t]["heartbeat_ack"] = Off
          /\ state' = state /\ well' = well /\ silent' = silent /\ closing' = closing
          /\ beat' = beat /\ missed'[t] = 0
      BY <1>8, <2>2 DEF OnHeartbeatAck, gateway, TypeOK, Kinds
    <3>2. state[t] = "authenticated"
      BY <1>0, <3>1, FrameFacts DEF HealthOf
    <3>3. well[t] => Answered(t)
      BY <1>0, <3>1, <3>2, FrameFacts DEF HealthOf, LoggingIn, LoggedIn,
         Resting, Asking
    <3>4. Answered(t) => beat[t] \in 0 .. HEARTBEAT_INTERVAL
      BY FrameFacts, HealthAssumption DEF Answered, TypeOK, Off
    <3>5. Answered(t) => Idle(t)'
      BY <1>0, <3>1 DEF Answered, Idle, NoFrames, Kinds, TypeOK
    <3>6. well[t] => Resting(t)'
      BY <3>1, <3>3, <3>4, <3>5 DEF Answered, Resting
    <3> QED BY <1>0, <3>1, <3>2, <3>6 DEF HealthOf
  <2> QED BY <2>1, <2>2
<1>9. ASSUME NEW s \in Sockets, Degrade(s) PROVE HealthOf(t)'
  <2>1. CASE t # s
    BY <1>0, <1>9, <2>1, Untouched DEF Degrade, gateway, client, TypeOK
  <2>2. CASE t = s
    <3>1. PICK lost \in SUBSET Kinds :
            frame' = [frame EXCEPT ![s] =
                        [k \in Kinds |-> IF k \in lost THEN Off ELSE @[k]]]
      BY <1>9 DEF Degrade
    <3>2. state' = state /\ beat' = beat /\ ~well'[t] /\ closing' = closing
      BY <1>9, <2>2 DEF Degrade, gateway, client, TypeOK
    <3>3. Idle(t) => Idle(t)'
      BY <2>2, <3>1 DEF Idle, NoFrames, TypeOK
    <3> QED BY <1>0, <3>2, <3>3 DEF HealthOf
  <2> QED BY <2>1, <2>2
<1>10. CASE Tick
  <2>1. /\ OnTime(t) /\ state' = state /\ missed' = missed /\ well' = well
        /\ closing' = closing
    BY <1>10 DEF Tick
  <2>2. /\ beat'[t] = Down(beat[t])
        /\ \A k \in Kinds : frame'[t][k] = Down(frame[t][k])
        /\ frame'[t] = [k \in Kinds |-> Down(frame[t][k])]
        /\ age'[t] = IF state[t] = "unauthenticated" THEN Older(age[t]) ELSE age[t]
        /\ silent'[t] = IF state[t] # "none" THEN Older(silent[t]) ELSE 0
    BY <1>10 DEF Tick
  <2>15. /\ Older(age[t]) \in Nat /\ Older(age[t]) <= age[t] + 1
         /\ Older(silent[t]) \in Nat /\ Older(silent[t]) <= silent[t] + 1
    BY OlderType DEF TypeOK
  <2>3. Idle(t) => Idle(t)'
    BY <2>2 DEF Idle, NoFrames, Down, Off
  <2>4. beat[t] = Off => beat'[t] = Off
    BY <2>2 DEF Down, Off
  <2>5. /\ beat[t] # 0
        /\ well[t] => \A k \in Kinds : frame[t][k] # 0
        /\ well[t] /\ state[t] = "unauthenticated" => age[t] < LOGIN
    BY <2>1 DEF OnTime
  <2>6. /\ "auth_success" \in Kinds /\ "heartbeat" \in Kinds
        /\ "heartbeat_ack" \in Kinds
    BY DEF Kinds
  <2>7. CASE well[t] /\ LoggingIn(t)
    BY <1>0, <2>1, <2>2, <2>3, <2>4, <2>5, <2>7, <2>15, FrameFacts
       DEF HealthOf, LoggingIn
  <2>8. ASSUME well[t], state[t] = "authenticated", LoggedIn(t)
        PROVE  LoggedIn(t)'
    BY <2>1, <2>2, <2>4, <2>5, <2>6, <2>8, <2>15, FrameFacts DEF LoggedIn, Down, Off
  <2>9. ASSUME well[t], state[t] = "authenticated", Resting(t)
        PROVE  Resting(t)'
    <3>1. beat[t] > 0
      BY <2>5, <2>9, <2>15, FrameFacts DEF Resting
    <3> QED BY <2>1, <2>2, <2>3, <2>9, <2>15, <3>1, FrameFacts DEF Resting, Down
  <2>10. ASSUME well[t], state[t] = "authenticated", Asking(t)
         PROVE  Asking(t)'
    <3>1. frame[t]["heartbeat"] > 0 /\ beat[t] > 0
      BY <2>5, <2>6, <2>10, FrameFacts, HealthAssumption DEF Asking
    <3> QED BY <2>1, <2>2, <2>6, <2>10, <2>15, <3>1, FrameFacts DEF Asking, Down, Off
  <2>11. ASSUME well[t], state[t] = "authenticated", Answered(t)
         PROVE  Answered(t)'
    <3>1. frame[t]["heartbeat_ack"] > 0 /\ beat[t] > 0
      BY <2>5, <2>6, <2>11, FrameFacts, HealthAssumption DEF Answered
    <3> QED BY <2>1, <2>2, <2>6, <2>11, <2>15, <3>1, FrameFacts
            DEF Answered, Down, Off
  <2>12. well[t] => \/ LoggingIn(t)
                    \/ /\ state[t] = "authenticated"
                       /\ \/ LoggedIn(t) \/ Resting(t)
                          \/ Asking(t) \/ Answered(t)
    BY <1>0 DEF HealthOf
  <2>13. /\ state'[t] = "none" \/ t \in closing' => ~well'[t]
         /\ state'[t] # "authenticated" => Idle(t)' /\ beat'[t] = Off
    BY <1>0, <2>1, <2>3, <2>4 DEF HealthOf
  <2>14. CASE ~(well[t] /\ LoggingIn(t))
    BY <2>1, <2>8, <2>9, <2>10, <2>11, <2>12, <2>13, <2>14 DEF HealthOf
  <2> QED BY <2>7, <2>14
<1>11. CASE UNCHANGED vars
  BY <1>0, <1>11, Untouched DEF vars
<1> QED
  BY <1>1, <1>2, <1>3, <1>4, <1>5, <1>6, <1>7, <1>8, <1>9, <1>10, <1>11
     DEF Next, Connection

LEMMA HealthSuffices == TypeOK /\ Health => HealthyKept
<1> SUFFICES ASSUME TypeOK, Health, NEW s \in Sockets, well[s]
             PROVE  /\ ~Overdue(s) /\ ~Stale(s)
                    /\ beat[s] = 0 => missed[s] = 0
  BY DEF HealthyKept
<1>1. HealthOf(s)
  BY DEF Health
<1>2. CASE LoggingIn(s)
  BY <1>2, FrameFacts, HealthAssumption DEF LoggingIn, Overdue, Stale, Off
<1>3. CASE state[s] = "authenticated" /\ LoggedIn(s)
  BY <1>3, FrameFacts, HealthAssumption DEF LoggedIn, Overdue, Stale, Off
<1>4. CASE state[s] = "authenticated" /\ Resting(s)
  BY <1>4, FrameFacts, HealthAssumption DEF Resting, Overdue, Stale
<1>5. CASE state[s] = "authenticated" /\ Asking(s)
  BY <1>5, FrameFacts, HealthAssumption DEF Asking, Overdue, Stale
<1>6. CASE state[s] = "authenticated" /\ Answered(s)
  BY <1>6, FrameFacts, HealthAssumption DEF Answered, Overdue, Stale
<1> QED BY <1>1, <1>2, <1>3, <1>4, <1>5, <1>6 DEF HealthOf

(* While the network and the login are within their times, neither end     *)
(* gives the connection up, whatever the other sockets of the user do to   *)
(* the alarm they share.                                                   *)
THEOREM HealthyConnectionsKept == Spec => []HealthyKept
<1>1. Init => TypeOK /\ Health
  BY InitType, InitHealth
<1>2. TypeOK /\ Health /\ [Next]_vars => (TypeOK /\ Health)'
  BY NextType, NextHealth
<1> QED BY <1>1, <1>2, HealthSuffices, PTL DEF Spec
=============================================================================
