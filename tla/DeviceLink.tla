----------------------------- MODULE DeviceLink -----------------------------
(***************************************************************************)
(* Tool calls on the devices of one user.  The desktop application keeps a *)
(* WebSocket to the user's DeviceGatewayDO (GatewayConnectionService, a    *)
(* GatewayClient and its reconnects); the server posts a tool call to the  *)
(* object, which sends it down the socket of the device and holds the      *)
(* request until the response or its timeout.                              *)
(*                                                                         *)
(* connect() of the service looks at the status, waits for a token and     *)
(* only then makes the client, so two of them that overlap make two        *)
(* clients of one device.  The service forgets the first, which stays      *)
(* connected, reconnects and runs tools like the other.                    *)
(*                                                                         *)
(* A connection is a pair of queues and both ends learn of its end on      *)
(* their own: the gateway may list a socket that its client has left long  *)
(* ago, and a client may have replaced one that the gateway still reads.   *)
(* The clocks are in DeviceAlarm.  Here a timeout may come at any time     *)
(* where the other end is gone, and counts as a fault where it is slow.    *)
(***************************************************************************)
EXTENDS Integers, Sequences

CONSTANTS
  Devices, Calls,
  Clients,       \* bound: GatewayClients in use at once, Device[k] each one's
  Device,        \* device
  Sockets,       \* connections, used again once both ends have forgotten them
  None,
  Target,        \* the device of each call: deviceProxy always names one
  MaxFaults      \* bound: losses, slow answers, refused tokens, restarts,
                 \* disconnects and impatient or overlapping connects

ASSUME LinkAssumption ==
  /\ Target \in [Calls -> Devices] /\ Device \in [Clients -> Devices]
  /\ None \notin Sockets /\ None \notin Calls /\ None \notin Clients
  /\ MaxFaults \in Nat

VARIABLES
  svc,        \* what each service knows: the last status a client reported
  current,    \* its client, None without one
  tokens,     \* how many of its connect() are waiting for the token
  status,     \* ConnectionStatus of each client
  ws,         \* its socket, None without one
  owner,      \* the client a socket belongs to; the gateway has its device
  up, down,   \* the two directions of each connection
  lost,       \* connections that fail to carry anything, noticed or not
  listed,     \* ctx.getWebSockets(): closing ones are in it until their end
  closing,    \* the gateway has called close on these
  authed,     \* attachment.authenticated
  verifying,  \* sockets whose token is being verified
  call,       \* the HTTP request of each tool call
  aim,        \* the socket it has chosen, None if there is none
  pending,    \* pendingRequests
  tool,       \* the tool of each call; orphan: its client has disconnected
  by,         \* the client that runs it
  faults

service == <<current, tokens>>
client == <<service, svc, status, ws>>
wire == <<up, down>>
gateway == <<listed, closing, authed, verifying>>
requests == <<call, aim, pending>>
tools == <<tool, by>>
vars == <<client, owner, wire, lost, gateway, requests, tools, faults>>

Msg(type) == [type |-> type, call |-> None]
MsgOf(type, c) == [type |-> type, call |-> c]
Upward == {Msg(t) : t \in {"upgrade", "auth", "close"}}
            \cup {MsgOf("response", c) : c \in Calls}
Downward == {Msg(t) : t \in {"open", "auth_success", "auth_failed", "close"}}
              \cup {MsgOf("request", c) : c \in Calls}

Statuses == {"disconnected", "connecting", "authenticating", "connected",
             "reconnecting"}

TypeOK ==
  /\ svc \in [Devices -> Statuses] /\ status \in [Clients -> Statuses]
  /\ current \in [Devices -> Clients \cup {None}]
  /\ tokens \in [Devices -> Nat]
  /\ ws \in [Clients -> Sockets \cup {None}]
  /\ owner \in [Sockets -> Clients \cup {None}]
  /\ up \in [Sockets -> Seq(Upward)] /\ down \in [Sockets -> Seq(Downward)]
  /\ lost \subseteq Sockets /\ listed \subseteq Sockets
  /\ closing \subseteq listed /\ authed \subseteq listed
  /\ verifying \subseteq Sockets
  /\ call \in [Calls -> {"idle", "reading", "waiting", "answered", "timeout",
                         "offline", "unsent", "broken"}]
  /\ aim \in [Calls -> Sockets \cup {None}]
  /\ pending \subseteq Calls
  /\ tool \in [Calls -> {"none", "running", "orphan", "done"}]
  /\ by \in [Calls -> Clients \cup {None}]
  /\ faults \in 0 .. MaxFaults

Init ==
  /\ svc = [e \in Devices |-> "disconnected"]
  /\ current = [e \in Devices |-> None] /\ tokens = [e \in Devices |-> 0]
  /\ status = [k \in Clients |-> "disconnected"]
  /\ ws = [k \in Clients |-> None]
  /\ owner = [s \in Sockets |-> None]
  /\ up = [s \in Sockets |-> <<>>] /\ down = [s \in Sockets |-> <<>>]
  /\ lost = {} /\ listed = {} /\ closing = {} /\ authed = {} /\ verifying = {}
  /\ call = [c \in Calls |-> "idle"] /\ aim = [c \in Calls |-> None]
  /\ pending = {}
  /\ tool = [c \in Calls |-> "none"] /\ by = [c \in Calls |-> None]
  /\ faults = 0

Fault == faults < MaxFaults /\ faults' = faults + 1

-----------------------------------------------------------------------------
(* The connection.  Nothing reaches a client that has detached its         *)
(* listeners, and nothing is carried by a connection that is lost.         *)
Attached(s) == \E k \in Clients : ws[k] = s

Sent(q, s, m) == IF s \in lost THEN q ELSE [q EXCEPT ![s] = Append(@, m)]

Told(q, s, m) == IF Attached(s) THEN Sent(q, s, m) ELSE q

Free(s) ==
  /\ ~Attached(s) /\ s \notin listed \cup verifying /\ up[s] = <<>>
  /\ \A c \in Calls : aim[c] # s

(* closeWebSocket: the client forgets its socket, and what still comes     *)
(* down it is lost.                                                        *)
UpWithoutClient(k) ==
  IF ws[k] = None THEN up ELSE Sent(up, ws[k], Msg("close"))
DownWithoutClient(k) ==
  IF ws[k] = None THEN down ELSE [down EXCEPT ![ws[k]] = <<>>]

(* setStatus of a client: its service hears of every change.               *)
Heard(k, next) ==
  svc' = IF status[k] = next THEN svc ELSE [svc EXCEPT ![Device[k]] = next]

Leave(k, next) ==
  /\ ws' = [ws EXCEPT ![k] = None]
  /\ status' = [status EXCEPT ![k] = next]
  /\ up' = UpWithoutClient(k) /\ down' = DownWithoutClient(k)
  /\ UNCHANGED <<owner, lost>>

Detach(k, next) == Leave(k, next) /\ Heard(k, next)

(* GatewayClient.doConnect, with the socket it may have had before.  The   *)
(* connections are alike: it takes one of the free ones.                   *)
DoConnect(k, s) ==
  /\ Free(s) /\ s = CHOOSE t \in Sockets : Free(t)
  /\ ws' = [ws EXCEPT ![k] = s]
  /\ status' = [status EXCEPT ![k] = "connecting"] /\ Heard(k, "connecting")
  /\ owner' = [owner EXCEPT ![s] = k]
  /\ lost' = lost \ {s}
  /\ up' = [UpWithoutClient(k) EXCEPT ![s] = <<Msg("upgrade")>>]
  /\ down' = DownWithoutClient(k)

-----------------------------------------------------------------------------
(* A client that disconnects does not come back.  Its tools go on, but     *)
(* their responses go nowhere.                                             *)
Orphans(k) ==
  [c \in Calls |-> IF by[c] = k /\ tool[c] = "running"
                   THEN "orphan" ELSE tool[c]]

Quit(k) ==
  /\ Leave(k, "disconnected")
  /\ tool' = Orphans(k)

(* GatewayConnectionService.  connect(): the client there is goes, and the *)
(* token is asked for.                                                     *)
SvcConnect(e) ==
  /\ svc[e] \notin {"connected", "connecting"}
  /\ IF svc[e] = "disconnected" /\ tokens[e] = 0
     THEN UNCHANGED faults ELSE Fault
  /\ tokens' = [tokens EXCEPT ![e] = @ + 1]
  /\ current' = [current EXCEPT ![e] = None]
  /\ IF current[e] # None
     THEN Quit(current[e]) /\ Heard(current[e], "disconnected")
     ELSE UNCHANGED <<svc, status, ws, owner, wire, lost, tool>>
  /\ UNCHANGED <<gateway, requests, by>>

(* The token: the client that is made takes the place of whatever client   *)
(* the service has by now.                                                 *)
Spare(e) ==
  {k \in Clients :
     Device[k] = e /\ status[k] = "disconnected" /\ current[e] # k}

SvcCreate(e, k) ==
  /\ tokens[e] > 0
  /\ k \in Spare(e) /\ k = CHOOSE l \in Spare(e) : TRUE
  /\ \E s \in Sockets : DoConnect(k, s)
  /\ current' = [current EXCEPT ![e] = k]
  /\ tokens' = [tokens EXCEPT ![e] = @ - 1]
  /\ UNCHANGED <<gateway, requests, tools, faults>>

SvcNoToken(e) ==
  /\ tokens[e] > 0
  /\ tokens' = [tokens EXCEPT ![e] = @ - 1]
  /\ UNCHANGED <<current, svc, status, ws, owner, wire, lost, gateway,
                 requests, tools, faults>>

SvcDisconnect(e) ==
  /\ (current[e] # None \/ svc[e] # "disconnected") /\ Fault
  /\ svc' = [svc EXCEPT ![e] = "disconnected"]
  /\ current' = [current EXCEPT ![e] = None]
  /\ IF current[e] # None THEN Quit(current[e])
     ELSE UNCHANGED <<status, ws, owner, wire, lost, tool>>
  /\ UNCHANGED <<tokens, gateway, requests, by>>

(* The reconnect timer.                                                    *)
Reconnect(k) ==
  /\ status[k] = "reconnecting"
  /\ \E s \in Sockets : DoConnect(k, s)
  /\ UNCHANGED <<service, gateway, requests, tools, faults>>

(* handleClose on a connection that failed, where the operating system     *)
(* tells the client.                                                       *)
HandleClose(k) ==
  /\ ws[k] \in lost
  /\ Detach(k, "reconnecting")
  /\ UNCHANGED <<service, gateway, requests, tools, faults>>

(* Defect: the socket is closed, and the reconnect is left to handleClose, *)
(* whose listener is gone.                                                 *)
HeartbeatOnlyCloses(k) ==
  /\ status[k] = "connected" /\ ws[k] # None
  /\ IF ws[k] \in lost THEN UNCHANGED faults ELSE Fault
  /\ Detach(k, "connected")
  /\ UNCHANGED <<service, gateway, requests, tools>>

(* The heartbeat timer gives a socket up that does not answer, or not in   *)
(* time.                                                                   *)
HeartbeatMissed(k) ==
  /\ status[k] = "connected"
  /\ IF ws[k] \in lost THEN UNCHANGED faults ELSE Fault
  /\ Detach(k, "reconnecting")
  /\ UNCHANGED <<service, gateway, requests, tools>>

-----------------------------------------------------------------------------
(* handleOpen and handleMessage of the client.                             *)
Coming(k, type) ==
  ws[k] # None /\ down[ws[k]] # <<>> /\ Head(down[ws[k]]).type = type

Received(k) == down' = [down EXCEPT ![ws[k]] = Tail(@)]

HandleOpen(k) ==
  /\ Coming(k, "open") /\ Received(k)
  /\ status' = [status EXCEPT ![k] = "authenticating"]
  /\ Heard(k, "authenticating")
  /\ up' = Sent(up, ws[k], Msg("auth"))
  /\ UNCHANGED <<service, ws, owner, lost, gateway, requests, tools, faults>>

OnAuthSuccess(k) ==
  /\ Coming(k, "auth_success") /\ Received(k)
  /\ status' = [status EXCEPT ![k] = "connected"] /\ Heard(k, "connected")
  /\ UNCHANGED <<service, ws, up, owner, lost, gateway, requests, tools,
                 faults>>

OnAuthFailed(k) ==
  /\ Coming(k, "auth_failed")
  /\ Quit(k) /\ Heard(k, "disconnected")
  /\ UNCHANGED <<service, gateway, requests, by, faults>>

(* Defect: the close is left to the next missed heartbeat.                 *)
OnCloseStays(k) ==
  /\ Coming(k, "close") /\ Received(k)
  /\ UNCHANGED <<client, up, owner, lost, gateway, requests, tools, faults>>

OnClose(k) ==
  /\ Coming(k, "close")
  /\ Detach(k, "reconnecting")
  /\ UNCHANGED <<service, gateway, requests, tools, faults>>

OnToolCallRequest(k) ==
  LET c == Head(down[ws[k]]).call
  IN  /\ Coming(k, "request") /\ Received(k)
      /\ tool' = [tool EXCEPT ![c] = "running"]
      /\ by' = [by EXCEPT ![c] = k]
      /\ UNCHANGED <<client, up, owner, lost, gateway, requests, faults>>

(* handleToolCallRequest after the tool: the client that got the request   *)
(* answers on the socket that it has by now, if that one is open.          *)
SendToolCallResponse(c) ==
  LET open == status[by[c]] \in {"authenticating", "connected"}
  IN  /\ tool[c] \in {"running", "orphan"}
      /\ tool' = [tool EXCEPT ![c] = "done"]
      /\ by' = [by EXCEPT ![c] = None]
      /\ up' = IF tool[c] = "running" /\ open
               THEN Sent(up, ws[by[c]], MsgOf("response", c)) ELSE up
      /\ UNCHANGED <<client, down, owner, lost, gateway, requests, faults>>

-----------------------------------------------------------------------------
(* DeviceGatewayDO.                                                        *)
Arrived(s, type) == up[s] # <<>> /\ Head(up[s]).type = type

Taken(s) == up' = [up EXCEPT ![s] = Tail(@)]

(* The device of a socket, in its URL and in its attachment.               *)
DeviceOf(s) == Device[owner[s]]

(* Defect: a socket that is still to authenticate is not replaced.         *)
UpgradeReplacesAuthenticated(s) ==
  LET same == {t \in authed : DeviceOf(t) = DeviceOf(s)}
  IN  /\ Arrived(s, "upgrade") /\ Taken(s)
      /\ listed' = listed \cup {s}
      /\ closing' = closing \cup same
      /\ down' = [t \in Sockets |->
                    IF t = s THEN Told(down, s, Msg("open"))[s]
                    ELSE IF t \in same \ closing
                    THEN Told(down, t, Msg("close"))[t] ELSE down[t]]
      /\ UNCHANGED <<client, owner, lost, authed, verifying, requests, tools,
                     faults>>

(* handleWebSocketUpgrade: the other sockets of the device are closed.     *)
HandleWebSocketUpgrade(s) ==
  LET same == {t \in listed : DeviceOf(t) = DeviceOf(s)}
  IN  /\ Arrived(s, "upgrade") /\ Taken(s)
      /\ listed' = listed \cup {s}
      /\ closing' = closing \cup same
      /\ down' = [t \in Sockets |->
                    IF t = s THEN Told(down, s, Msg("open"))[s]
                    ELSE IF t \in same \ closing
                    THEN Told(down, t, Msg("close"))[t] ELSE down[t]]
      /\ UNCHANGED <<client, owner, lost, authed, verifying, requests, tools,
                     faults>>

(* webSocketMessage, "auth": until the token is verified.                  *)
OnAuth(s) ==
  /\ Arrived(s, "auth") /\ Taken(s)
  /\ verifying' = IF s \in authed THEN verifying ELSE verifying \cup {s}
  /\ UNCHANGED <<client, down, owner, lost, listed, closing, authed, requests,
                 tools, faults>>

(* The token is good.  The attachment is changed whatever has become of    *)
(* the socket, and send throws where it is closing.                        *)
AuthSucceeds(s) ==
  /\ s \in verifying
  /\ verifying' = verifying \ {s}
  /\ authed' = IF s \in listed THEN authed \cup {s} ELSE authed
  /\ down' = IF s \in listed \ closing
             THEN Told(down, s, Msg("auth_success")) ELSE down
  /\ UNCHANGED <<client, up, owner, lost, listed, closing, requests, tools,
                 faults>>

Refused(q, s) == Told(Told(q, s, Msg("auth_failed")), s, Msg("close"))

AuthFails(s) ==
  /\ s \in verifying /\ Fault
  /\ verifying' = verifying \ {s}
  /\ closing' = IF s \in listed THEN closing \cup {s} ELSE closing
  /\ down' = IF s \in listed \ closing THEN Refused(down, s) ELSE down
  /\ UNCHANGED <<client, up, owner, lost, listed, authed, requests, tools>>

(* alarm: it closes a socket that did not authenticate or whose heartbeats *)
(* stopped.                                                                *)
AlarmCloses(s) ==
  /\ s \in listed \ closing
  /\ IF s \in lost THEN UNCHANGED faults ELSE Fault
  /\ closing' = closing \cup {s}
  /\ down' = IF s \in authed THEN Told(down, s, Msg("close"))
             ELSE Refused(down, s)
  /\ UNCHANGED <<client, up, owner, lost, listed, authed, verifying, requests,
                 tools>>

(* Defect: the calls of the device are dropped with its socket.            *)
UnlistWithCalls(s) ==
  /\ listed' = listed \ {s} /\ closing' = closing \ {s}
  /\ authed' = authed \ {s}
  /\ pending' = {c \in pending : Target[c] # DeviceOf(s)}
  /\ UNCHANGED <<client, down, owner, lost, verifying, call, aim, tools,
                 faults>>

(* Defect: the socket that has ended stays among the authenticated ones.   *)
UnlistListed(s) ==
  /\ listed' = listed \ {s} /\ closing' = closing \ {s}
  /\ UNCHANGED <<client, down, owner, lost, authed, verifying, requests, tools,
                 faults>>

(* The platform ends a socket: the client's close, or the loss noticed.    *)
Unlist(s) ==
  /\ listed' = listed \ {s} /\ closing' = closing \ {s}
  /\ authed' = authed \ {s}
  /\ UNCHANGED <<client, down, owner, lost, verifying, requests, tools,
                 faults>>

WebSocketClose(s) == Arrived(s, "close") /\ Taken(s) /\ Unlist(s)

WebSocketError(s) == s \in listed \cap lost /\ Unlist(s) /\ UNCHANGED up

(* webSocketMessage, "tool_call_response".                                 *)
OnToolCallResponse(s) ==
  LET c == Head(up[s]).call
  IN  /\ Arrived(s, "response") /\ Taken(s)
      /\ IF s \in authed /\ c \in pending
         THEN /\ call' = [call EXCEPT ![c] =
                            IF @ = "waiting" THEN "answered" ELSE @]
              /\ pending' = pending \ {c}
         ELSE UNCHANGED <<call, pending>>
      /\ UNCHANGED <<client, down, owner, lost, gateway, aim, tools, faults>>

(* handleToolCall: the authenticated sockets are read before the body of   *)
(* the request, and the target is chosen among them.  The platform         *)
(* promises no order of the sockets of a device.                           *)
HandleToolCall(c) ==
  /\ call[c] = "idle"
  /\ IF authed = {}
     THEN call' = [call EXCEPT ![c] = "offline"] /\ UNCHANGED aim
     ELSE LET mine == {s \in authed : DeviceOf(s) = Target[c]}
          IN  /\ call' = [call EXCEPT ![c] = "reading"]
              /\ \E s \in IF mine = {} THEN {None} ELSE mine :
                   aim' = [aim EXCEPT ![c] = s]
  /\ UNCHANGED <<client, owner, wire, lost, gateway, pending, tools, faults>>

(* Its second half: send throws on a socket that is closing or gone, and   *)
(* the request stays registered until its timer.                           *)
SendToolCallRequest(c) ==
  /\ call[c] = "reading"
  /\ aim' = [aim EXCEPT ![c] = None]
  /\ pending' = IF aim[c] = None THEN pending ELSE pending \cup {c}
  /\ \/ /\ aim[c] = None
        /\ call' = [call EXCEPT ![c] = "offline"]
        /\ UNCHANGED down
     \/ /\ aim[c] \in listed \ closing
        /\ call' = [call EXCEPT ![c] = "waiting"]
        /\ down' = Told(down, aim[c], MsgOf("request", c))
     \/ /\ aim[c] \in Sockets \ (listed \ closing)
        /\ call' = [call EXCEPT ![c] = "unsent"]
        /\ UNCHANGED down
  /\ UNCHANGED <<client, owner, up, lost, gateway, tools, faults>>

(* Defect: a device that does not answer is reported offline.              *)
TimeoutIsOffline(c) ==
  /\ c \in pending
  /\ pending' = pending \ {c}
  /\ call' = [call EXCEPT ![c] = IF @ = "waiting" THEN "offline" ELSE @]
  /\ UNCHANGED <<client, owner, wire, lost, gateway, aim, tools, faults>>

(* The timer of the request.                                               *)
Timeout(c) ==
  /\ c \in pending
  /\ pending' = pending \ {c}
  /\ call' = [call EXCEPT ![c] = IF @ = "waiting" THEN "timeout" ELSE @]
  /\ UNCHANGED <<client, owner, wire, lost, gateway, aim, tools, faults>>

-----------------------------------------------------------------------------
(* The network loses a connection; the gateway's process ends.             *)
Cut(s) ==
  /\ s \notin lost /\ (Attached(s) \/ s \in listed \/ up[s] # <<>>) /\ Fault
  /\ lost' = lost \cup {s}
  /\ up' = [up EXCEPT ![s] = <<>>] /\ down' = [down EXCEPT ![s] = <<>>]
  /\ UNCHANGED <<client, owner, gateway, requests, tools>>

GatewayRestart ==
  /\ Fault
  /\ lost' = lost \cup listed
  /\ up' = [s \in Sockets |-> IF s \in listed THEN <<>> ELSE up[s]]
  /\ down' = [s \in Sockets |-> IF s \in listed THEN <<>> ELSE down[s]]
  /\ listed' = {} /\ closing' = {} /\ authed' = {} /\ verifying' = {}
  /\ pending' = {} /\ aim' = [c \in Calls |-> None]
  /\ call' = [c \in Calls |-> IF call[c] \in {"reading", "waiting"}
                              THEN "broken" ELSE call[c]]
  /\ UNCHANGED <<client, owner, tools>>

ServiceNext(e) ==
  \/ SvcConnect(e) \/ SvcNoToken(e) \/ SvcDisconnect(e)
  \/ \E k \in Clients : SvcCreate(e, k)

ClientNext(k) ==
  \/ Reconnect(k) \/ HandleClose(k) \/ HeartbeatMissed(k)
  \/ HandleOpen(k) \/ OnAuthSuccess(k) \/ OnAuthFailed(k) \/ OnClose(k)
  \/ OnToolCallRequest(k)

SocketNext(s) ==
  \/ HandleWebSocketUpgrade(s) \/ OnAuth(s) \/ AuthSucceeds(s) \/ AuthFails(s)
  \/ AlarmCloses(s) \/ WebSocketClose(s) \/ WebSocketError(s)
  \/ OnToolCallResponse(s) \/ Cut(s)

CallNext(c) ==
  \/ HandleToolCall(c) \/ SendToolCallRequest(c) \/ Timeout(c)
  \/ SendToolCallResponse(c)

Next ==
  \/ \E e \in Devices : ServiceNext(e)
  \/ \E k \in Clients : ClientNext(k)
  \/ \E s \in Sockets : SocketNext(s)
  \/ \E c \in Calls : CallNext(c)
  \/ GatewayRestart

Spec == Init /\ [][Next]_vars

(* Timers fire, what is on a connection that is not lost arrives, the      *)
(* gateway's side of a lost one ends, a token is verified in the end.  A   *)
(* client notices a loss by its heartbeats only: nothing is assumed of     *)
(* HandleClose, of the tools, of the user and of the faults.               *)
Fairness ==
  /\ \A k \in Clients :
       /\ WF_vars(Reconnect(k) \/ HandleOpen(k) \/ OnAuthSuccess(k)
                    \/ OnAuthFailed(k) \/ OnClose(k) \/ OnToolCallRequest(k))
       /\ WF_vars(ws[k] \in lost /\ HeartbeatMissed(k))
  /\ \A s \in Sockets :
       /\ WF_vars(HandleWebSocketUpgrade(s) \/ OnAuth(s) \/ WebSocketClose(s)
                    \/ WebSocketError(s) \/ OnToolCallResponse(s))
       /\ WF_vars(AuthSucceeds(s))
  /\ \A c \in Calls : WF_vars(SendToolCallRequest(c)) /\ WF_vars(Timeout(c))

FairSpec == Spec /\ Fairness

-----------------------------------------------------------------------------
(* A device has one open socket at the gateway, however its upgrades, the  *)
(* closes of its clients and the losses are ordered.                       *)
OneOpenSocket ==
  \A s, t \in listed \ closing : DeviceOf(s) = DeviceOf(t) => s = t

(* A client that believes it is connected is: unless the connection is     *)
(* lost, the gateway holds its socket as authenticated, or the close that  *)
(* ends it is under way.                                                   *)
ConnectedIsServed ==
  \A k \in Clients :
    LET s == ws[k]
    IN  status[k] = "connected" /\ s \notin lost =>
          \/ s \in authed \ closing
          \/ \E i \in 1 .. Len(down[s]) : down[s][i].type = "close"

(* What the caller is told, through every reconnect: RemoteCall.           *)
Caller(c) ==
  CASE call[c] = "idle" -> "idle"
    [] call[c] \in {"reading", "waiting"} -> "waiting"
    [] call[c] = "answered" -> "answered"
    [] call[c] \in {"offline", "unsent"} -> "refused"
    [] call[c] \in {"timeout", "broken"} -> "gaveUp"
Ran(c) ==
  CASE tool[c] = "none" -> "never"
    [] tool[c] \in {"running", "orphan"} -> "running"
    [] tool[c] = "done" -> "done"

Abstract == INSTANCE RemoteCall WITH
  caller <- [c \in Calls |-> Caller(c)], ran <- [c \in Calls |-> Ran(c)]
ImplementsRemoteCall == Abstract!Spec

(* Two clients of one device replace each other at the gateway for ever,   *)
(* and a client that lost its connection before it was authenticated has   *)
(* no timer that would tell it.  With neither, every client ends up        *)
(* connected and served, unless the user or a refused token disconnects    *)
(* it.                                                                     *)
Alone ==
  \A k, l \in Clients :
    Device[k] = Device[l] /\ "disconnected" \notin {status[k], status[l]}
      => k = l
Stuck(k) == status[k] \in {"connecting", "authenticating"} /\ ws[k] \in lost
Settled(k) ==
  \/ status[k] = "disconnected" \/ Stuck(k)
  \/ status[k] = "connected" /\ ws[k] \in authed \ (closing \cup lost)

Settles == <>[]Alone => <>[](\A k \in Clients : Settled(k))

(* Every call comes back.                                                  *)
CallsEnd ==
  \A c \in Calls :
    call[c] \in {"reading", "waiting"} ~> call[c] \notin {"reading", "waiting"}
=============================================================================
