---------------------------- MODULE DeviceAlarm ----------------------------
(***************************************************************************)
(* The clocks of the device gateway: DeviceGatewayDO keeps one storage     *)
(* alarm for all the sockets of a user, sets it only where none is set,    *)
(* and closes at the alarm the sockets that did not authenticate in time   *)
(* and those whose heartbeats stopped; GatewayClient sends a heartbeat at  *)
(* every beat and gives its socket up after too many beats without an      *)
(* answer.                                                                 *)
(*                                                                         *)
(* Time passes one unit at a Tick and everything is kept relative to now   *)
(* (how long ago, how long until), so that the state space is finite with  *)
(* no bound on the clock.  A socket is well while its authentication takes *)
(* at most LOGIN and its frames at most DELAY; nothing is assumed of the   *)
(* others: their frames take any time or are lost.                         *)
(*                                                                         *)
(* A socket that the gateway closes stays in getWebSockets, and its        *)
(* messages are still handled, until its client answers or the connection  *)
(* is seen to be gone; until then to send on it throws, and to close it    *)
(* again does nothing (external: the platform).  An alarm that throws is   *)
(* rung again by the platform, a few times.                                *)
(***************************************************************************)
EXTENDS Integers

CONSTANTS
  Sockets,                   \* the sockets of one user
  AUTH_TIMEOUT,              \* DeviceGatewayDO.ts:7
  HEARTBEAT_TIMEOUT,         \* DeviceGatewayDO.ts:8
  HEARTBEAT_CHECK_INTERVAL,  \* DeviceGatewayDO.ts:9
  HEARTBEAT_INTERVAL,        \* client.ts:21
  MAX_MISSED_HEARTBEATS,     \* client.ts:24
  LOGIN,                     \* a well socket is authenticated within this
  DELAY,                     \* a frame of a well socket arrives within this
  LATE,                      \* an alarm rings at most this late
  RETRY                      \* an alarm that threw rings again after this

ASSUME TimesAssumption ==
  /\ AUTH_TIMEOUT \in Nat \ {0} /\ HEARTBEAT_TIMEOUT \in Nat \ {0}
  /\ HEARTBEAT_CHECK_INTERVAL \in Nat \ {0}
  /\ HEARTBEAT_INTERVAL \in Nat \ {0}
  /\ MAX_MISSED_HEARTBEATS \in Nat \ {0}
  /\ LOGIN \in Nat /\ DELAY \in Nat /\ LATE \in Nat /\ RETRY \in 0 .. HEARTBEAT_CHECK_INTERVAL
  /\ AUTH_TIMEOUT <= HEARTBEAT_TIMEOUT
  /\ AUTH_TIMEOUT <= HEARTBEAT_CHECK_INTERVAL

(* A heartbeat and its answer pass before the next beat, and the first     *)
(* heartbeat of a well socket is in time: 10 s + 2 * 10 s + 30 s <= 90 s.  *)
ASSUME HealthAssumption ==
  /\ LOGIN <= AUTH_TIMEOUT
  /\ 2 * DELAY < HEARTBEAT_INTERVAL
  /\ LOGIN + DELAY + HEARTBEAT_INTERVAL + DELAY <= HEARTBEAT_TIMEOUT

VARIABLES
  state,    \* the attachment of each socket, "none" outside getWebSockets
  age,      \* time since connectedAt, while there is an authDeadline
  silent,   \* time since lastHeartbeat
  closing,  \* the sockets of getWebSockets that the gateway has closed
  alarm,    \* is the alarm of the object set?
  due,      \* time until the alarm, negative when it is late
  thrown,   \* history: an alarm has thrown, and none has completed since
  beat,     \* time until the client's next beat, Off without a timer
  missed,   \* missedHeartbeats of the client
  frame,    \* time within which each kind of frame arrives, Off when none
  well      \* the socket is within LOGIN and DELAY so far

vars == <<state, age, silent, closing, alarm, due, thrown, beat, missed, frame, well>>
gateway == <<state, age, silent, closing, alarm, due, thrown>>
client == <<beat, missed>>

Off == -1
Kinds == {"auth_success", "heartbeat", "heartbeat_ack"}
NoFrames == [k \in Kinds |-> Off]
Listed == {s \in Sockets : state[s] # "none"}
Open == Listed \ closing

(* Where the clocks of a socket stop: past every bound, so that no guard   *)
(* or property tells later times apart.                                    *)
Forever == HEARTBEAT_TIMEOUT + HEARTBEAT_CHECK_INTERVAL + LATE + 1

TypeOK ==
  /\ state \in [Sockets -> {"none", "unauthenticated", "authenticated"}]
  /\ age \in [Sockets -> Nat] /\ silent \in [Sockets -> Nat]
  /\ closing \subseteq Listed
  /\ alarm \in BOOLEAN /\ due \in Int /\ thrown \in BOOLEAN
  /\ beat \in [Sockets -> Off .. HEARTBEAT_INTERVAL]
  /\ missed \in [Sockets -> 0 .. MAX_MISSED_HEARTBEATS]
  /\ frame \in [Sockets -> [Kinds -> Off .. DELAY]]
  /\ well \in [Sockets -> BOOLEAN]

Init ==
  /\ state = [s \in Sockets |-> "none"]
  /\ age = [s \in Sockets |-> 0] /\ silent = [s \in Sockets |-> 0]
  /\ closing = {}
  /\ alarm = FALSE /\ due = 0 /\ thrown = FALSE
  /\ beat = [s \in Sockets |-> Off]
  /\ missed = [s \in Sockets |-> 0]
  /\ frame = [s \in Sockets |-> NoFrames]
  /\ well = [s \in Sockets |-> FALSE]

-----------------------------------------------------------------------------
(* Defect: whoever schedules puts the alarm off.                           *)
ScheduleAgain(delay) == alarm' = TRUE /\ due' = delay

(* scheduleAuthTimeout and scheduleHeartbeatCheck set the alarm only where *)
(* none is set.                                                            *)
Schedule(delay) ==
  /\ alarm' = TRUE
  /\ due' = IF alarm THEN due ELSE delay

ScheduleAuthTimeout == Schedule(AUTH_TIMEOUT)
ScheduleHeartbeatCheck == Schedule(HEARTBEAT_CHECK_INTERVAL)

(* The gateway closes these sockets: none of them is well any more.        *)
CloseSockets(closed) ==
  /\ closing' = closing \cup closed
  /\ well' = [s \in Sockets |-> s \notin closed /\ well[s]]

Send(s, kind) == frame' = [frame EXCEPT ![s][kind] = DELAY]

(* handleWebSocketUpgrade: the socket of the same device, if there is one  *)
(* (old # s), is closed; the new one is accepted.                          *)
HandleWebSocketUpgrade(s, old, healthy) ==
  /\ state[s] = "none"
  /\ old # s => old \in Listed
  /\ state' = [state EXCEPT ![s] = "unauthenticated"]
  /\ closing' = closing \cup ({old} \ {s})
  /\ well' = [t \in Sockets |-> CASE t = s -> healthy
                                 [] t = old /\ t # s -> FALSE
                                 [] OTHER -> well[t]]
  /\ age' = [age EXCEPT ![s] = 0] /\ silent' = [silent EXCEPT ![s] = 0]
  /\ ScheduleAuthTimeout
  /\ UNCHANGED <<thrown, client, frame>>

(* webSocketMessage, "auth": the token was verified.  On a socket that is  *)
(* closing the attachment is written and the send throws, so that nothing  *)
(* is scheduled.                                                           *)
Authenticate(s) ==
  /\ state[s] = "unauthenticated"
  /\ state' = [state EXCEPT ![s] = "authenticated"]
  /\ age' = [age EXCEPT ![s] = 0]
  /\ IF s \in closing
     THEN UNCHANGED <<frame, alarm, due>>
     ELSE Send(s, "auth_success") /\ ScheduleHeartbeatCheck
  /\ UNCHANGED <<silent, closing, thrown, client, well>>

(* webSocketMessage, "auth": the token was refused.                        *)
Refuse(s) ==
  /\ state[s] = "unauthenticated" /\ s \notin closing
  /\ CloseSockets({s})
  /\ UNCHANGED <<state, age, silent, alarm, due, thrown, client, frame>>

(* The close of the client, its answer to that of the gateway or the       *)
(* failure of the connection reaches the gateway: the socket is gone, and  *)
(* what both ends kept for it with it.                                     *)
Leave(s) ==
  /\ s \in Listed
  /\ state' = [state EXCEPT ![s] = "none"]
  /\ age' = [age EXCEPT ![s] = 0] /\ silent' = [silent EXCEPT ![s] = 0]
  /\ closing' = closing \ {s}
  /\ well' = [well EXCEPT ![s] = FALSE]
  /\ beat' = [beat EXCEPT ![s] = Off] /\ missed' = [missed EXCEPT ![s] = 0]
  /\ frame' = [frame EXCEPT ![s] = NoFrames]
  /\ UNCHANGED <<alarm, due, thrown>>

(* Defect: the heartbeat is answered and not noted.                        *)
AnswerHeartbeat(s) ==
  /\ state[s] = "authenticated"
  /\ frame[s]["heartbeat"] # Off
  /\ frame' = [frame EXCEPT ![s]["heartbeat"] = Off,
                            ![s]["heartbeat_ack"] = DELAY]
  /\ UNCHANGED <<gateway, client, well>>

(* webSocketMessage, "heartbeat": only of an authenticated socket.  It is  *)
(* noted, and answered unless the socket is closing.                       *)
OnHeartbeat(s) ==
  /\ state[s] = "authenticated"
  /\ frame[s]["heartbeat"] # Off
  /\ silent' = [silent EXCEPT ![s] = 0]
  /\ frame' = [frame EXCEPT
                 ![s]["heartbeat"] = Off,
                 ![s]["heartbeat_ack"] = IF s \in closing THEN @ ELSE DELAY]
  /\ UNCHANGED <<state, age, closing, alarm, due, thrown, client, well>>

(* alarm: what is overdue is told and closed, what is silent is closed.    *)
Overdue(s) == state[s] = "unauthenticated" /\ age[s] > AUTH_TIMEOUT
Stale(s) == state[s] = "authenticated" /\ silent[s] > HEARTBEAT_TIMEOUT

(* Sockets the alarm cannot tell that they are overdue: the send throws.   *)
Unsendable == {s \in closing : Overdue(s)}

(* Defect: only authenticated sockets count as remaining.                  *)
AlarmForAuthenticated ==
  LET closed == {s \in Listed : Overdue(s) \/ Stale(s)}
      left == {s \in Listed \ closed : state[s] = "authenticated"}
  IN  /\ alarm /\ due <= 0 /\ Unsendable = {}
      /\ CloseSockets(closed)
      /\ alarm' = (left # {})
      /\ due' = IF left # {} THEN HEARTBEAT_CHECK_INTERVAL ELSE 0
      /\ thrown' = FALSE
      /\ UNCHANGED <<state, age, silent, client, frame>>

(* The alarm that completes sets itself again while sockets remain that it *)
(* has not closed.                                                         *)
Alarm ==
  LET closed == {s \in Listed : Overdue(s) \/ Stale(s)}
  IN  /\ alarm /\ due <= 0 /\ Unsendable = {}
      /\ CloseSockets(closed)
      /\ alarm' = (Listed \ closed # {})
      /\ due' = IF Listed \ closed # {} THEN HEARTBEAT_CHECK_INTERVAL ELSE 0
      /\ thrown' = FALSE
      /\ UNCHANGED <<state, age, silent, client, frame>>

(* The alarm that throws has closed what it met before, and sets nothing.  *)
(* The platform rings it again or has done so often enough.                *)
AlarmThrows ==
  /\ alarm /\ due <= 0 /\ Unsendable # {}
  /\ \E met \in SUBSET {s \in Open : Overdue(s) \/ Stale(s)} : CloseSockets(met)
  /\ alarm' \in BOOLEAN
  /\ due' = IF alarm' THEN RETRY ELSE 0
  /\ thrown' = TRUE
  /\ UNCHANGED <<state, age, silent, client, frame>>

-----------------------------------------------------------------------------
(* handleMessage, "auth_success": startHeartbeat.                          *)
OnAuthSuccess(s) ==
  /\ frame[s]["auth_success"] # Off
  /\ frame' = [frame EXCEPT ![s]["auth_success"] = Off]
  /\ beat' = [beat EXCEPT ![s] = HEARTBEAT_INTERVAL]
  /\ missed' = [missed EXCEPT ![s] = 0]
  /\ UNCHANGED <<gateway, well>>

(* Defect: one beat too many before the socket is given up.                *)
BeatOnceMore(s) ==
  /\ beat[s] = 0
  /\ IF missed[s] > MAX_MISSED_HEARTBEATS
     THEN /\ beat' = [beat EXCEPT ![s] = Off]
          /\ missed' = [missed EXCEPT ![s] = 0]
          /\ frame' = [frame EXCEPT ![s] = NoFrames]
          /\ well' = [well EXCEPT ![s] = FALSE]
     ELSE /\ beat' = [beat EXCEPT ![s] = HEARTBEAT_INTERVAL]
          /\ missed' = [missed EXCEPT ![s] = @ + 1]
          /\ Send(s, "heartbeat")
          /\ UNCHANGED well
  /\ UNCHANGED gateway

(* The heartbeat timer: one more beat without an answer; a heartbeat is    *)
(* sent, or the socket is given up (the timer stops, closeWebSocket).      *)
Beat(s) ==
  /\ beat[s] = 0
  /\ IF missed[s] + 1 > MAX_MISSED_HEARTBEATS
     THEN /\ beat' = [beat EXCEPT ![s] = Off]
          /\ missed' = [missed EXCEPT ![s] = 0]
          /\ frame' = [frame EXCEPT ![s] = NoFrames]
          /\ well' = [well EXCEPT ![s] = FALSE]
     ELSE /\ beat' = [beat EXCEPT ![s] = HEARTBEAT_INTERVAL]
          /\ missed' = [missed EXCEPT ![s] = @ + 1]
          /\ Send(s, "heartbeat")
          /\ UNCHANGED well
  /\ UNCHANGED gateway

(* handleMessage, "heartbeat_ack".                                         *)
OnHeartbeatAck(s) ==
  /\ frame[s]["heartbeat_ack"] # Off
  /\ frame' = [frame EXCEPT ![s]["heartbeat_ack"] = Off]
  /\ missed' = [missed EXCEPT ![s] = 0]
  /\ UNCHANGED <<gateway, beat, well>>

(* The connection turns bad and loses what is under way.  What it still    *)
(* carries takes any time from here on.                                    *)
Degrade(s) ==
  /\ s \in Listed
  /\ \E lost \in SUBSET Kinds :
       frame' = [frame EXCEPT ![s] =
                   [k \in Kinds |-> IF k \in lost THEN Off ELSE @[k]]]
  /\ well' = [well EXCEPT ![s] = FALSE]
  /\ UNCHANGED <<gateway, client>>

(* Time passes, but not past a beat, past LATE after the alarm, or past    *)
(* what a well socket promises.                                            *)
OnTime(s) ==
  /\ beat[s] # 0
  /\ well[s] => /\ state[s] = "unauthenticated" => age[s] < LOGIN
                /\ \A k \in Kinds : frame[s][k] # 0

Down(t) == IF t > 0 THEN t - 1 ELSE t
Older(t) == IF t < Forever THEN t + 1 ELSE t

Tick ==
  /\ alarm => due > -LATE
  /\ \A s \in Sockets : OnTime(s)
  /\ due' = IF alarm THEN due - 1 ELSE due
  /\ age' = [s \in Sockets |-> IF state[s] = "unauthenticated"
                               THEN Older(age[s]) ELSE age[s]]
  /\ silent' = [s \in Sockets |-> IF state[s] # "none"
                                  THEN Older(silent[s]) ELSE 0]
  /\ beat' = [s \in Sockets |-> Down(beat[s])]
  /\ frame' = [s \in Sockets |-> [k \in Kinds |-> Down(frame[s][k])]]
  /\ UNCHANGED <<state, closing, alarm, thrown, missed, well>>

Connection(s) ==
  \/ \E old \in Sockets, healthy \in BOOLEAN :
       HandleWebSocketUpgrade(s, old, healthy)
  \/ Authenticate(s) \/ Refuse(s) \/ OnAuthSuccess(s)
  \/ OnHeartbeat(s) \/ OnHeartbeatAck(s) \/ Beat(s)
  \/ Degrade(s) \/ Leave(s)

Next == Tick \/ Alarm \/ AlarmThrows \/ \E s \in Sockets : Connection(s)

Spec == Init /\ [][Next]_vars

-----------------------------------------------------------------------------
(* While the object has a socket that it has not closed its alarm is set:  *)
(* the handlers that set it trust one that was set before, and the alarm   *)
(* sets itself again only for the sockets that it did not close.  Only an  *)
(* alarm that threw may be lost, until one completes again.                *)
AlarmWhileSockets == Open # {} => alarm \/ thrown

(* A socket that never authenticates, or whose client falls silent with no *)
(* word to the gateway, is closed in the end: one check may see it just    *)
(* before it is too old, the next one closes it, unless the alarm throws.  *)
(* Until then the device is reported online and is sent tool calls.        *)
GoneInTime ==
  ~thrown => \A s \in Open :
    /\ state[s] = "unauthenticated" =>
         age[s] <= AUTH_TIMEOUT + HEARTBEAT_CHECK_INTERVAL + LATE
    /\ state[s] = "authenticated" =>
         silent[s] <= HEARTBEAT_TIMEOUT + HEARTBEAT_CHECK_INTERVAL + LATE

(* Neither end gives up a connection that works: no alarm closes a well    *)
(* socket, and every heartbeat of its client is answered before the next   *)
(* beat.  The gateway counts from the upgrade and the client from the end  *)
(* of the authentication.                                                  *)
HealthyKept ==
  \A s \in Sockets : well[s] =>
    /\ ~Overdue(s) /\ ~Stale(s)
    /\ beat[s] = 0 => missed[s] = 0

(* The time to authenticate is the one the constant states.                *)
AuthenticatedInTime ==
  \A s \in Sockets :
    state[s] = "unauthenticated" => age[s] <= AUTH_TIMEOUT + LATE

(* The comment of DeviceGatewayDO.ts:152: the alarm is kept `running while *)
(* there are active connections'.                                          *)
AlarmKeepsRunning == Open # {} => alarm
=============================================================================
