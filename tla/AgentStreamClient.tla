------------------------- MODULE AgentStreamClient -------------------------
(***************************************************************************)
(* The browser's end of an operation's event stream: AgentStreamClient and *)
(* the listeners that connectToGateway puts on it.                         *)
(*                                                                         *)
(* The agent gateway is an external service.  It numbers the events of the *)
(* operation in the order of their arrival, sends them to the connected    *)
(* client, and replays those after lastEventId when a client asks for it.  *)
(* Connections are lost at any moment, together with what is in flight.    *)
(*                                                                         *)
(* An atomic action is one callback of the client: a WebSocket event or a  *)
(* timer.                                                                  *)
(***************************************************************************)
EXTENDS Integers, SequencesExt

CONSTANTS
  LastEvent,        \* bound: events the gateway receives, numbered from 1
  EndEvent,         \* the number of agent_runtime_end or error
  MaxDrops,         \* bound: connections lost
  LiveBeforeReplay, \* live events reach a connection that awaits its replay
  TokenExpires,     \* the token may be refused at a reconnect
  UserLeaves        \* disconnectFromGateway may be called

ASSUME EventsAssumption ==
  /\ LastEvent \in Nat
  /\ EndEvent \in 1..LastEvent
  /\ MaxDrops \in Nat
  /\ {LiveBeforeReplay, TokenExpires, UserLeaves} \subseteq BOOLEAN

VARIABLES
  arrived,          \* gateway: number of events received
  overtaken,        \* an event was sent before the replay of its predecessors
  kept,             \* gateway: it still has them (never changes)
  peer,             \* gateway: its side of the connection
  resumeFrom,       \* gateway: lastEventId of the resume request
  down,             \* messages on their way to the client
  drops,            \* connections lost so far
  resumeOnConnect,  \* the client was created after a reload (never changes)
  status,           \* _status
  sock,             \* ws, with its readyState
  heartbeat,        \* the heartbeat interval runs
  reconnectTimer,   \* a reconnect is scheduled
  lastEventId,      \* 0 stands for ''
  resumeMode,
  resumeBuffer,     \* event numbers
  flushTimer,       \* what resumeFlushTimer will do
  staleTimers,      \* resume timeouts that resumeFlushTimer forgot
  tracked,          \* gatewayConnections has an entry for the operation
  emitted,          \* event numbers given to the event handler
  sessionCompleted  \* onSessionComplete was called

fixed == <<kept, resumeOnConnect>>
gatewayVars == <<arrived, overtaken, fixed, peer, resumeFrom, down, drops>>
socketVars == <<status, sock, heartbeat, reconnectTimer>>
resumeVars == <<lastEventId, resumeMode, resumeBuffer, flushTimer, staleTimers>>
storeVars == <<tracked, emitted, sessionCompleted>>
vars == <<gatewayVars, socketVars, resumeVars, storeVars>>

-----------------------------------------------------------------------------
Events == 1..LastEvent

AgentEvent(i) == [type |-> "agent_event", id |-> i]
Signal(type) == [type |-> type, id |-> 0]

ServerMessage ==
  [type : {"agent_event"}, id : Events] \cup
  [type : {"auth_success", "auth_failed", "session_complete"}, id : {0}]

(* The events first..last as messages *)
EventMessages(first, last) ==
  [i \in 1..(last - first + 1) |-> AgentEvent(first + i - 1)]

Over == arrived >= EndEvent

(* The gateway has not answered this connection's resume request, or what it
   sent is under way.  The timers that this request starts are long against a
   gateway whose connection holds: 3 s for the replay, 500 ms between two of its
   events.  They do not bound anything once the connection is lost. *)
Owed == peer = "resume" \/ (peer = "live" /\ down # <<>>)

-----------------------------------------------------------------------------
(* connectToGateway has registered its listeners and called connect().  After
   a reload the gateway has at least agent_runtime_init, unless the operation
   is over and forgotten. *)
Init ==
  /\ resumeOnConnect \in BOOLEAN
  /\ arrived \in IF resumeOnConnect THEN 1..LastEvent ELSE {0}
  /\ kept \in IF resumeOnConnect /\ arrived = LastEvent THEN BOOLEAN ELSE {TRUE}
  /\ overtaken = FALSE
  /\ peer = "none"
  /\ resumeFrom = 0
  /\ down = <<>>
  /\ drops = 0
  /\ status = "connecting"
  /\ sock = "connecting"
  /\ heartbeat = FALSE
  /\ reconnectTimer = FALSE
  /\ lastEventId = 0
  /\ resumeMode = FALSE
  /\ resumeBuffer = <<>>
  /\ flushTimer = "none"
  /\ staleTimers = 0
  /\ tracked = TRUE
  /\ emitted = <<>>
  /\ sessionCompleted = FALSE

-----------------------------------------------------------------------------
(* The gateway *)

Send(messages) == down' = down \o messages

Listening == peer = "live" \/ (LiveBeforeReplay /\ peer \in {"authed", "resume"})

Arrive ==
  /\ arrived < LastEvent
  /\ arrived' = arrived + 1
  /\ overtaken' = (overtaken \/ (Listening /\ peer # "live"))
  /\ Send(IF Listening THEN <<AgentEvent(arrived + 1)>> ELSE <<>>)
  /\ UNCHANGED <<fixed, peer, resumeFrom, drops, socketVars, resumeVars, storeVars>>

GatewayAuth ==
  /\ peer = "auth"
  /\ \/ Send(<<Signal("auth_success")>>)
     \/ TokenExpires /\ drops > 0 /\ Send(<<Signal("auth_failed")>>)
  /\ peer' = "authed"
  /\ UNCHANGED <<arrived, overtaken, fixed, resumeFrom, drops, socketVars,
                 resumeVars, storeVars>>

GatewayReplay ==
  /\ peer = "resume"
  /\ peer' = "live"
  /\ Send(IF kept THEN EventMessages(resumeFrom + 1, arrived) ELSE <<>>)
  /\ UNCHANGED <<arrived, overtaken, fixed, resumeFrom, drops, socketVars,
                 resumeVars, storeVars>>

GatewaySessionComplete ==
  /\ peer = "live"
  /\ Over
  /\ ~Contains(down, Signal("session_complete"))
  /\ Send(<<Signal("session_complete")>>)
  /\ UNCHANGED <<arrived, overtaken, fixed, peer, resumeFrom, drops, socketVars,
                 resumeVars, storeVars>>

(* The connection is lost; the client has not noticed yet. *)
Drop ==
  /\ peer # "none"
  /\ drops < MaxDrops
  /\ drops' = drops + 1
  /\ peer' = "none"
  /\ down' = <<>>
  /\ UNCHANGED <<arrived, overtaken, fixed, resumeFrom, socketVars, resumeVars,
                 storeVars>>

-----------------------------------------------------------------------------
(* Connecting and reconnecting *)

HandleOpen ==
  /\ sock = "connecting"
  /\ sock' = "open"
  /\ status' = "authenticating"
  /\ peer' = "auth"
  /\ UNCHANGED <<arrived, overtaken, fixed, resumeFrom, down, drops, heartbeat,
                 reconnectTimer, resumeVars, storeVars>>

(* Defects for the runs to find: handleClose forgets one of its effects *)
ReconnectWith(socket, beat, timer) ==
  /\ sock' = socket
  /\ heartbeat' = beat
  /\ status' = "reconnecting"
  /\ reconnectTimer' = timer
  /\ UNCHANGED <<resumeVars, storeVars>>
ReconnectKeepsSocket == ReconnectWith("closed", FALSE, TRUE)
ReconnectKeepsHeartbeat == ReconnectWith("none", heartbeat, TRUE)

(* The socket is gone: handleClose, or the heartbeat that gives it up.  Nobody
   has set intentionalDisconnect or sessionEnded, since those who do also call
   disconnect, which detaches the handlers and stops the heartbeat. *)
ScheduleReconnect ==
  /\ sock' = "none"
  /\ heartbeat' = FALSE
  /\ status' = "reconnecting"
  /\ reconnectTimer' = TRUE
  /\ UNCHANGED <<resumeVars, storeVars>>

HandleClose ==
  /\ sock = "open"
  /\ peer = "none"
  /\ ScheduleReconnect
  /\ UNCHANGED gatewayVars

(* No heartbeat_ack for MAX_MISSED_HEARTBEATS intervals *)
HeartbeatTimeout ==
  /\ heartbeat
  /\ peer = "none"
  /\ ScheduleReconnect
  /\ UNCHANGED gatewayVars

ConnectFails ==
  /\ sock = "connecting"
  /\ drops < MaxDrops
  /\ drops' = drops + 1
  /\ ScheduleReconnect
  /\ UNCHANGED <<arrived, overtaken, fixed, peer, resumeFrom, down>>

DoConnect ==
  /\ reconnectTimer
  /\ reconnectTimer' = FALSE
  /\ status' = "connecting"
  /\ sock' = "connecting"
  /\ UNCHANGED <<gatewayVars, heartbeat, resumeVars, storeVars>>

-----------------------------------------------------------------------------
(* A defect: cleanup leaves the client in resume mode *)
CleanupKeepsMode ==
  /\ heartbeat' = FALSE
  /\ reconnectTimer' = FALSE
  /\ sock' = "none"
  /\ peer' = "none"
  /\ down' = <<>>
  /\ flushTimer' = "none"
  /\ resumeBuffer' = <<>>
  /\ UNCHANGED resumeMode

(* disconnect: cleanup, then the disconnected listener, which completes the
   session if a terminal event was given to the handler.  It clears the timer
   that resumeFlushTimer holds and forgets the others. *)
Cleanup ==
  /\ heartbeat' = FALSE
  /\ reconnectTimer' = FALSE
  /\ sock' = "none"
  /\ peer' = "none"
  /\ down' = <<>>
  /\ flushTimer' = "none"
  /\ resumeMode' = FALSE
  /\ resumeBuffer' = <<>>

Disconnect(complete) ==
  /\ Cleanup
  /\ status' = "disconnected"
  /\ tracked' = FALSE
  /\ sessionCompleted' =
       (sessionCompleted \/ complete \/ Contains(emitted', EndEvent))
  /\ UNCHANGED <<arrived, overtaken, fixed, resumeFrom, drops>>

DisconnectFromGateway ==
  /\ UserLeaves
  /\ tracked
  /\ UNCHANGED <<lastEventId, emitted, staleTimers>>
  /\ Disconnect(FALSE)

-----------------------------------------------------------------------------
(* A defect: replayed events are not compared with the live ones *)
NotDeduplicated(s) == s

(* flushResumeBuffer keeps the first occurrence of every event. *)
Deduplicated(s) ==
  LET seen[n \in 0..Len(s)] ==
        IF n = 0 THEN <<>>
        ELSE IF Contains(seen[n - 1], s[n]) THEN seen[n - 1]
        ELSE Append(seen[n - 1], s[n])
  IN seen[Len(s)]

FlushResumeBuffer ==
  /\ resumeMode' = FALSE
  /\ flushTimer' = "none"
  /\ resumeBuffer' = <<>>
  /\ emitted' = emitted \o Deduplicated(resumeBuffer)

Receive(type) ==
  /\ sock = "open"
  /\ down # <<>>
  /\ Head(down).type = type

(* A defect: resume mode without its safety timeout *)
EnterWithoutTimeout ==
  /\ resumeMode' = TRUE
  /\ resumeBuffer' = <<>>
  /\ UNCHANGED <<flushTimer, staleTimers>>

(* The next resume timeout overwrites resumeFlushTimer without clearing it. *)
EnterResumeMode ==
  /\ resumeMode' = TRUE
  /\ resumeBuffer' = <<>>
  /\ flushTimer' = "timeout"
  /\ staleTimers' = staleTimers + (IF flushTimer = "timeout" THEN 1 ELSE 0)

(* Defects: a resume request that ignores lastEventId, and none at all *)
ResumeFromStart == peer' = "resume" /\ resumeFrom' = 0
NoResume == peer' = "live" /\ UNCHANGED resumeFrom

SendResume ==
  /\ peer' = "resume"
  /\ resumeFrom' = lastEventId

OnAuthSuccess ==
  /\ Receive("auth_success")
  /\ down' = Tail(down)
  /\ status' = "connected"
  /\ heartbeat' = TRUE
  /\ IF resumeOnConnect /\ lastEventId = 0
       THEN EnterResumeMode
       ELSE UNCHANGED <<resumeMode, resumeBuffer, flushTimer, staleTimers>>
  /\ SendResume
  /\ UNCHANGED <<arrived, overtaken, fixed, drops, sock, reconnectTimer,
                 lastEventId, storeVars>>

OnAuthFailed ==
  /\ Receive("auth_failed")
  /\ UNCHANGED <<lastEventId, emitted, staleTimers>>
  /\ Disconnect(FALSE)

OnLiveEvent ==
  /\ Receive("agent_event")
  /\ ~resumeMode
  /\ lastEventId' = Head(down).id
  /\ emitted' = Append(emitted, Head(down).id)
  /\ UNCHANGED staleTimers
  /\ IF Head(down).id = EndEvent
       THEN Disconnect(FALSE)
       ELSE /\ down' = Tail(down)
            /\ UNCHANGED <<arrived, overtaken, fixed, peer, resumeFrom, drops,
                           socketVars, resumeMode, resumeBuffer, flushTimer,
                           tracked, sessionCompleted>>

(* Buffered; scheduleResumeFlush replaces the pending timer. *)
OnReplayedEvent ==
  /\ Receive("agent_event")
  /\ resumeMode
  /\ Head(down).id # EndEvent
  /\ lastEventId' = Head(down).id
  /\ resumeBuffer' = Append(resumeBuffer, Head(down).id)
  /\ flushTimer' = "flush"
  /\ down' = Tail(down)
  /\ UNCHANGED <<arrived, overtaken, fixed, peer, resumeFrom, drops, socketVars,
                 resumeMode,
                 staleTimers, storeVars>>

(* A terminal event is buffered, the buffer is flushed, and the session ends. *)
OnReplayedEnd ==
  /\ Receive("agent_event")
  /\ resumeMode
  /\ Head(down).id = EndEvent
  /\ lastEventId' = EndEvent
  /\ emitted' = emitted \o Deduplicated(Append(resumeBuffer, EndEvent))
  /\ UNCHANGED staleTimers
  /\ Disconnect(FALSE)

OnSessionComplete ==
  /\ Receive("session_complete")
  /\ emitted' = emitted \o
       (IF resumeMode THEN Deduplicated(resumeBuffer) ELSE <<>>)
  /\ UNCHANGED <<lastEventId, staleTimers>>
  /\ Disconnect(TRUE)

-----------------------------------------------------------------------------
(* The timers of the resume *)

ResumeFlush ==
  /\ flushTimer = "flush"
  /\ ~Owed
  /\ FlushResumeBuffer
  /\ UNCHANGED <<gatewayVars, socketVars, lastEventId, staleTimers, tracked,
                 sessionCompleted>>

NothingToReplay == resumeMode /\ resumeBuffer = <<>>

(* Nothing came within RESUME_TIMEOUT: the session is taken for completed. *)
ResumeTimeout ==
  /\ flushTimer = "timeout"
  /\ ~Owed
  /\ NothingToReplay
  /\ UNCHANGED <<lastEventId, emitted, staleTimers>>
  /\ Disconnect(TRUE)

(* A forgotten timeout of an earlier connection may come at any moment of this
   one; it does nothing unless resume mode was entered again. *)
StaleTimeout ==
  /\ staleTimers > 0
  /\ staleTimers' = staleTimers - 1
  /\ UNCHANGED <<lastEventId, emitted>>
  /\ IF NothingToReplay
       THEN Disconnect(TRUE)
       ELSE UNCHANGED <<gatewayVars, socketVars, resumeMode, resumeBuffer,
                        flushTimer, tracked, sessionCompleted>>

-----------------------------------------------------------------------------
Gateway ==
  Arrive \/ GatewayAuth \/ GatewayReplay \/ GatewaySessionComplete \/ Drop

Connection ==
  \/ HandleOpen \/ HandleClose \/ HeartbeatTimeout \/ ConnectFails
  \/ DoConnect \/ DisconnectFromGateway

HandleMessage ==
  \/ OnAuthSuccess \/ OnAuthFailed \/ OnLiveEvent \/ OnReplayedEvent
  \/ OnReplayedEnd \/ OnSessionComplete

ResumeTimer == ResumeFlush \/ ResumeTimeout \/ StaleTimeout

Next == Gateway \/ Connection \/ HandleMessage \/ ResumeTimer

Spec == Init /\ [][Next]_vars

(* Timers and WebSocket events reach the client, and a connected gateway
   answers.  Nothing makes events arrive, connections fail or the gateway send
   session_complete. *)
Fairness ==
  /\ WF_vars(HandleOpen) /\ WF_vars(HandleClose) /\ WF_vars(DoConnect)
  /\ WF_vars(GatewayAuth) /\ WF_vars(GatewayReplay)
  /\ WF_vars(HandleMessage)
  /\ WF_vars(ResumeTimer)

FairSpec == Spec /\ Fairness

-----------------------------------------------------------------------------
(* Every variable has its type: an event that was received is one that arrived,
   and a lost socket is forgotten. *)
TypeOK ==
  /\ arrived \in 0..LastEvent
  /\ {kept, resumeOnConnect, overtaken} \subseteq BOOLEAN
  /\ peer \in {"none", "auth", "authed", "resume", "live"}
  /\ {resumeFrom, lastEventId} \subseteq 0..arrived
  /\ down \in Seq(ServerMessage)
  /\ drops \in 0..MaxDrops
  /\ status \in {"connecting", "authenticating", "connected", "reconnecting",
                 "disconnected"}
  /\ sock \in {"none", "connecting", "open"}
  /\ flushTimer \in {"none", "flush", "timeout"}
  /\ staleTimers \in 0..MaxDrops
  /\ {heartbeat, reconnectTimer, resumeMode, tracked, sessionCompleted} \subseteq BOOLEAN
  /\ {resumeBuffer, emitted} \subseteq Seq(1..arrived)

(* The event handler is given the operation's events from the first on, each
   once and in order, however often the connection is lost between them, until
   the gateway sends a live event to a connection that awaits its replay. *)
EmittedInOrder == ~overtaken => emitted = [i \in 1..Len(emitted) |-> i]

(* On the connection of a reloaded page, an event that came live and was then
   replayed is not handled twice. *)
NoEventTwice ==
  resumeOnConnect /\ drops = 0 =>
    \A i, j \in 1..Len(emitted) : emitted[i] = emitted[j] => i = j

(* An event behind the end came live, the end was still to be replayed, and the
   connection was lost: the client has asked for what follows the end. *)
EndSkipped == resumeFrom >= EndEvent

(* onSessionComplete clears the operation in the store, so that it must find the
   end of the conversation handled, whatever the gateway sends first, unless the
   end was skipped, the gateway has forgotten the operation or, after a reload,
   the connection of the replay was lost (CompleteOnlyWhenOver). *)
CompletedMeansAll ==
  sessionCompleted /\ kept /\ (resumeOnConnect => drops = 0) /\ ~EndSkipped
    => Contains(emitted, EndEvent)

(* What RESUME_TIMEOUT says of a session without replay. *)
CompleteOnlyWhenOver == sessionCompleted => Over

(* The client is either disconnected, with no timer, no socket and no entry in
   gatewayConnections, or it waits for exactly one of a socket and a reconnect;
   what is buffered has a timer that will deliver it. *)
OneWayForward ==
  /\ tracked <=> status # "disconnected"
  /\ status = "disconnected" =>
       sock = "none" /\ ~heartbeat /\ ~reconnectTimer /\ ~resumeMode
  /\ status # "disconnected" => (reconnectTimer <=> sock = "none")
  /\ heartbeat => sock = "open"
  /\ resumeMode <=> flushTimer # "none"

(* Whoever left is left alone: no timer of the client calls a listener of the
   operation after disconnect. *)
QuietAfterDisconnect ==
  [][status = "disconnected" => UNCHANGED <<emitted, sessionCompleted,
                                            status>>]_vars

(* If the user stays and the token holds, an operation that is over is
   completed in the browser too, unless its end was skipped. *)
EventuallyTold == Over ~> (sessionCompleted \/ EndSkipped)
=============================================================================
