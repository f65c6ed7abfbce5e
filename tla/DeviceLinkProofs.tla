------------------------- MODULE DeviceLinkProofs --------------------------
(***************************************************************************)
(* DeviceLink for any devices, sockets, calls and number of faults: it     *)
(* implements RemoteCall, a device has one open socket, and a client that  *)
(* believes it is connected is served.  What carries the proof is where a  *)
(* message can be: a request is in one place at most, an upgrade only in   *)
(* front of a socket that is not listed yet, and a close of the client     *)
(* only behind the client's back (Wires, Requests).                        *)
(***************************************************************************)
EXTENDS DeviceLink, TLAPS

LEMMA LinkConstants ==
  /\ Target \in [Calls -> Devices]
  /\ None \notin Sockets /\ None \notin Calls
  /\ MaxFaults \in Nat
BY LinkAssumption

USE LinkConstants

(* One end of a connection.                                                *)
Ends(M) == [Sockets -> Seq(M)]

LEMMA SentType ==
  ASSUME NEW M, NEW q \in Ends(M), NEW s, NEW m \in M
  PROVE  /\ Sent(q, s, m) \in Ends(M)
         /\ \A t \in Sockets : t # s => Sent(q, s, m)[t] = q[t]
         /\ s \in Sockets =>
              Sent(q, s, m)[s] = IF s \in lost THEN q[s] ELSE Append(q[s], m)
<1>1. CASE s \in lost
  BY <1>1 DEF Sent, Ends
<1>2. CASE s \notin lost /\ s \in Sockets
  <2>1. Append(q[s], m) \in Seq(M)
    BY <1>2 DEF Ends
  <2> QED BY <1>2, <2>1 DEF Sent, Ends
<1>3. CASE s \notin lost /\ s \notin Sockets
  <2>1. Sent(q, s, m) = q
    BY <1>3 DEF Sent, Ends
  <2> QED BY <1>3, <2>1
<1> QED BY <1>1, <1>2, <1>3

LEMMA ToldType ==
  ASSUME NEW M, NEW q \in Ends(M), NEW s, NEW m \in M
  PROVE  /\ Told(q, s, m) \in Ends(M)
         /\ \A t \in Sockets : t # s => Told(q, s, m)[t] = q[t]
         /\ s \in Sockets =>
              Told(q, s, m)[s] = IF Attached(s) /\ s \notin lost
                                 THEN Append(q[s], m) ELSE q[s]
<1>1. CASE Attached(s)
  BY <1>1, SentType DEF Told
<1>2. CASE ~Attached(s)
  BY <1>2 DEF Told
<1> QED BY <1>1, <1>2

LEMMA Messages ==
  /\ \A t \in {"upgrade", "auth", "close"} : Msg(t) \in Upward
  /\ \A t \in {"open", "auth_success", "auth_failed", "close"} :
       Msg(t) \in Downward
  /\ \A c \in Calls : MsgOf("response", c) \in Upward
  /\ \A c \in Calls : MsgOf("request", c) \in Downward
  /\ \A m \in Upward : m.type = "response" => m.call \in Calls
  /\ \A m \in Downward : m.type = "request" => m.call \in Calls
  /\ \A t : Msg(t).type = t
  /\ \A t, c : MsgOf(t, c).type = t /\ MsgOf(t, c).call = c
<1>1. /\ \A t : Msg(t).type = t
      /\ \A t, c : MsgOf(t, c).type = t /\ MsgOf(t, c).call = c
  BY DEF Msg, MsgOf
<1>2. \A m \in Upward : m.type = "response" => m.call \in Calls
  BY <1>1 DEF Upward
<1>3. \A m \in Downward : m.type = "request" => m.call \in Calls
  BY <1>1 DEF Downward
<1> QED BY <1>1, <1>2, <1>3 DEF Upward, Downward

LEMMA TailType ==
  ASSUME NEW M, NEW q \in Ends(M), NEW s \in Sockets, q[s] # <<>>
  PROVE  /\ [q EXCEPT ![s] = Tail(@)] \in Ends(M)
         /\ Head(q[s]) \in M
         /\ Tail(q[s]) \in Seq(M)
BY DEF Ends

LEMMA ClearType ==
  ASSUME NEW M, NEW q \in Ends(M), NEW s
  PROVE  [q EXCEPT ![s] = <<>>] \in Ends(M)
<1>1. <<>> \in Seq(M)
  OBVIOUS
<1> QED BY <1>1 DEF Ends

-----------------------------------------------------------------------------
(* Types.                                                                  *)
LEMMA InitType == Init => TypeOK
<1> SUFFICES ASSUME Init PROVE TypeOK
  OBVIOUS
<1>1. /\ svc \in [Devices -> Statuses] /\ status \in [Clients -> Statuses]
      /\ current \in [Devices -> Clients \cup {None}]
      /\ tokens \in [Devices -> Nat]
      /\ ws \in [Clients -> Sockets \cup {None}]
      /\ owner \in [Sockets -> Clients \cup {None}]
  BY DEF Init, Statuses
<1>2. up \in [Sockets -> Seq(Upward)] /\ down \in [Sockets -> Seq(Downward)]
  BY DEF Init
<1>3. /\ aim \in [Calls -> Sockets \cup {None}]
      /\ by \in [Calls -> Clients \cup {None}]
      /\ tool \in [Calls -> {"none", "running", "orphan", "done"}]
  BY DEF Init
<1>4. call \in [Calls -> {"idle", "reading", "waiting", "answered", "timeout",
                         "offline", "unsent", "broken"}]
  BY DEF Init
<1> QED BY <1>1, <1>2, <1>3, <1>4 DEF Init, TypeOK

LEMMA WithoutClient ==
  ASSUME TypeOK, NEW k \in Clients
  PROVE  /\ UpWithoutClient(k) \in Ends(Upward)
         /\ DownWithoutClient(k) \in Ends(Downward)
BY SentType, ClearType, Messages
   DEF UpWithoutClient, DownWithoutClient, TypeOK, Ends

LEMMA HeardType ==
  ASSUME TypeOK, NEW k \in Clients, NEW next \in Statuses, Heard(k, next)
  PROVE  svc' \in [Devices -> Statuses]
BY LinkAssumption DEF Heard, TypeOK

LEMMA OrphansType ==
  ASSUME TypeOK, NEW k, tool' = Orphans(k)
  PROVE  tool' \in [Calls -> {"none", "running", "orphan", "done"}]
BY DEF Orphans, TypeOK

LEMMA LeaveType ==
  ASSUME TypeOK, NEW k \in Clients, NEW next \in Statuses, Leave(k, next)
  PROVE  /\ status' \in [Clients -> Statuses]
         /\ ws' \in [Clients -> Sockets \cup {None}]
         /\ owner' \in [Sockets -> Clients \cup {None}] /\ lost' \subseteq Sockets
         /\ up' \in [Sockets -> Seq(Upward)]
         /\ down' \in [Sockets -> Seq(Downward)]
BY WithoutClient DEF Leave, TypeOK, Ends

LEMMA DoConnectType ==
  ASSUME TypeOK, NEW k \in Clients, NEW s \in Sockets, DoConnect(k, s)
  PROVE  /\ status' \in [Clients -> Statuses] /\ svc' \in [Devices -> Statuses]
         /\ ws' \in [Clients -> Sockets \cup {None}]
         /\ owner' \in [Sockets -> Clients \cup {None}] /\ lost' \subseteq Sockets
         /\ up' \in [Sockets -> Seq(Upward)]
         /\ down' \in [Sockets -> Seq(Downward)]
<1>1. <<Msg("upgrade")>> \in Seq(Upward)
  BY Messages
<1>2. svc' \in [Devices -> Statuses]
  BY HeardType DEF DoConnect, Statuses
<1> QED BY <1>1, <1>2, WithoutClient DEF DoConnect, TypeOK, Ends, Statuses

LEMMA NextType == TypeOK /\ [Next]_vars => TypeOK'
<1> SUFFICES ASSUME TypeOK, [Next]_vars PROVE TypeOK'
  OBVIOUS
<1>0. up \in Ends(Upward) /\ down \in Ends(Downward)
  BY DEF TypeOK, Ends
<1>f. faults' = faults \/ Fault => faults' \in 0 .. MaxFaults
  BY DEF Fault, TypeOK
<1>1. ASSUME NEW e \in Devices, SvcConnect(e) PROVE TypeOK'
  <2>1. /\ tokens' \in [Devices -> Nat] /\ faults' \in 0 .. MaxFaults
        /\ current' \in [Devices -> Clients \cup {None}]
    BY <1>f, <1>1 DEF SvcConnect, TypeOK
  <2>2. CASE current[e] # None
    <3>1. PICK k \in Clients : k = current[e]
      BY <2>2 DEF TypeOK
    <3>2. Leave(k, "disconnected") /\ Heard(k, "disconnected")
            /\ tool' = Orphans(k)
      BY <1>1, <2>2, <3>1 DEF SvcConnect, Quit
    <3>3. "disconnected" \in Statuses
      BY DEF Statuses
    <3> QED BY <1>1, <2>1, <3>2, <3>3, LeaveType, HeardType, OrphansType
            DEF SvcConnect, TypeOK, gateway, requests
  <2>3. CASE current[e] = None
    BY <1>1, <2>1, <2>3 DEF SvcConnect, TypeOK, gateway, requests, wire
  <2> QED BY <2>2, <2>3
<1>2. ASSUME NEW e \in Devices, SvcDisconnect(e) PROVE TypeOK'
  <2>1. /\ svc' \in [Devices -> Statuses] /\ faults' \in 0 .. MaxFaults
        /\ current' \in [Devices -> Clients \cup {None}]
    BY <1>f, <1>2 DEF SvcDisconnect, TypeOK, Statuses
  <2>2. CASE current[e] # None
    <3>1. PICK k \in Clients : k = current[e]
      BY <2>2 DEF TypeOK
    <3>2. Leave(k, "disconnected") /\ tool' = Orphans(k)
      BY <1>2, <2>2, <3>1 DEF SvcDisconnect, Quit
    <3>3. "disconnected" \in Statuses
      BY DEF Statuses
    <3> QED BY <1>2, <2>1, <3>2, <3>3, LeaveType, OrphansType
            DEF SvcDisconnect, TypeOK, gateway, requests
  <2>3. CASE current[e] = None
    BY <1>2, <2>1, <2>3 DEF SvcDisconnect, TypeOK, gateway, requests, wire
  <2> QED BY <2>2, <2>3
<1>3. ASSUME NEW e \in Devices, NEW k \in Clients, SvcCreate(e, k)
      PROVE  TypeOK'
  <2>1. tokens' \in [Devices -> Nat] /\ current' \in [Devices -> Clients \cup {None}]
    BY <1>3 DEF SvcCreate, TypeOK
  <2> QED BY <1>3, <2>1, DoConnectType
          DEF SvcCreate, TypeOK, gateway, requests, tools
<1>4. ASSUME NEW e \in Devices, SvcNoToken(e) PROVE TypeOK'
  BY <1>4 DEF SvcNoToken, TypeOK, gateway, requests, tools, wire
<1>5. ASSUME NEW k \in Clients,
             \/ Reconnect(k) \/ HandleClose(k) \/ HeartbeatMissed(k)
             \/ OnAuthFailed(k) \/ OnClose(k)
      PROVE  TypeOK'
  <2>1. CASE Reconnect(k)
    BY <2>1, DoConnectType
       DEF Reconnect, TypeOK, service, gateway, requests, tools
  <2>2. CASE HandleClose(k) \/ HeartbeatMissed(k) \/ OnClose(k)
    <3>1. "reconnecting" \in Statuses
      BY DEF Statuses
    <3> QED BY <1>f, <2>2, <3>1, LeaveType, HeardType
            DEF HandleClose, HeartbeatMissed, OnClose, Detach, TypeOK, service,
                gateway, requests, tools
  <2>3. CASE OnAuthFailed(k)
    <3>1. "disconnected" \in Statuses
      BY DEF Statuses
    <3> QED BY <2>3, <3>1, LeaveType, HeardType, OrphansType
            DEF OnAuthFailed, Quit, TypeOK, service, gateway, requests
  <2> QED BY <1>5, <2>1, <2>2, <2>3
<1>6. ASSUME NEW k \in Clients, NEW type, Coming(k, type), Received(k)
      PROVE  /\ down' \in [Sockets -> Seq(Downward)]
             /\ Head(down[ws[k]]) \in Downward
  <2>1. ws[k] \in Sockets /\ down[ws[k]] # <<>>
    BY <1>6 DEF Coming, TypeOK
  <2> QED BY <1>0, <1>6, <2>1, TailType DEF Received, Ends
<1>7. ASSUME NEW k \in Clients, HandleOpen(k) PROVE TypeOK'
  <2>1. up' \in [Sockets -> Seq(Upward)]
    BY <1>0, <1>7, SentType, Messages DEF HandleOpen, Ends
  <2>2. svc' \in [Devices -> Statuses]
    BY <1>7, HeardType DEF HandleOpen, Statuses
  <2> QED BY <1>6, <1>7, <2>1, <2>2
          DEF HandleOpen, TypeOK, Statuses, service, gateway, requests, tools
<1>8. ASSUME NEW k \in Clients, OnAuthSuccess(k) PROVE TypeOK'
  <2>1. svc' \in [Devices -> Statuses]
    BY <1>8, HeardType DEF OnAuthSuccess, Statuses
  <2> QED BY <1>6, <1>8, <2>1
          DEF OnAuthSuccess, TypeOK, Statuses, service, gateway, requests, tools
<1>9. ASSUME NEW k \in Clients, OnToolCallRequest(k) PROVE TypeOK'
  BY <1>6, <1>9 DEF OnToolCallRequest, TypeOK, gateway, requests, tools, client, service
<1>10. ASSUME NEW c \in Calls, SendToolCallResponse(c) PROVE TypeOK'
  <2>1. up' \in [Sockets -> Seq(Upward)]
    BY <1>0, <1>10, SentType, Messages DEF SendToolCallResponse, Ends
  <2> QED BY <1>10, <2>1
          DEF SendToolCallResponse, TypeOK, gateway, requests, tools, client, service
<1>11. ASSUME NEW s \in Sockets, NEW type, Arrived(s, type), Taken(s)
       PROVE  /\ up' \in [Sockets -> Seq(Upward)] /\ Head(up[s]) \in Upward
  BY <1>0, <1>11, TailType DEF Arrived, Taken, Ends
<1>12. ASSUME NEW s \in Sockets, HandleWebSocketUpgrade(s) PROVE TypeOK'
  <2>1. \A t \in Sockets : /\ Told(down, t, Msg("close"))[t] \in Seq(Downward)
                           /\ Told(down, t, Msg("open"))[t] \in Seq(Downward)
                           /\ down[t] \in Seq(Downward)
    BY <1>0, ToldType, Messages DEF Ends
  <2>2. down' \in [Sockets -> Seq(Downward)]
    BY <1>12, <2>1 DEF HandleWebSocketUpgrade
  <2> QED BY <1>11, <1>12, <2>2
          DEF HandleWebSocketUpgrade, TypeOK, requests, tools, client, service
<1>13. ASSUME NEW s \in Sockets, OnAuth(s) PROVE TypeOK'
  BY <1>11, <1>13 DEF OnAuth, TypeOK, requests, tools, client, service
<1>14. ASSUME NEW s \in Sockets, AuthSucceeds(s) PROVE TypeOK'
  <2>1. down' \in [Sockets -> Seq(Downward)]
    BY <1>0, <1>14, ToldType, Messages DEF AuthSucceeds, Ends
  <2> QED BY <1>14, <2>1 DEF AuthSucceeds, TypeOK, requests, tools, client, service
<1>15. ASSUME NEW s \in Sockets PROVE Refused(down, s) \in [Sockets -> Seq(Downward)]
  BY <1>0, <1>15, ToldType, Messages DEF Refused, Ends
<1>16. ASSUME NEW s \in Sockets, AuthFails(s) PROVE TypeOK'
  BY <1>15, <1>16 DEF AuthFails, TypeOK, requests, tools, client, service, Fault
<1>17. ASSUME NEW s \in Sockets, AlarmCloses(s) PROVE TypeOK'
  <2>1. down' \in [Sockets -> Seq(Downward)]
    BY <1>0, <1>15, <1>17, ToldType, Messages DEF AlarmCloses, Ends
  <2>2. faults' \in 0 .. MaxFaults
    BY <1>17 DEF AlarmCloses, Fault, TypeOK
  <2> QED BY <1>17, <2>1, <2>2 DEF AlarmCloses, TypeOK, requests, tools, client, service
<1>18. ASSUME NEW s \in Sockets, WebSocketClose(s) PROVE TypeOK'
  BY <1>11, <1>18 DEF WebSocketClose, Unlist, TypeOK, requests, tools, client, service
<1>19. ASSUME NEW s \in Sockets, WebSocketError(s) PROVE TypeOK'
  BY <1>19 DEF WebSocketError, Unlist, TypeOK, requests, tools, client, service
<1>20. ASSUME NEW s \in Sockets, OnToolCallResponse(s) PROVE TypeOK'
  <2> DEFINE c == Head(up[s]).call
  <2>1. /\ call' = call \/ call' = [call EXCEPT ![c] =
                                      IF @ = "waiting" THEN "answered" ELSE @]
        /\ pending' = pending \/ pending' = pending \ {c}
    BY <1>20 DEF OnToolCallResponse
  <2> HIDE DEF c
  <2>2. call' \in [Calls -> {"idle", "reading", "waiting", "answered",
                             "timeout", "offline", "unsent", "broken"}]
    BY <2>1 DEF TypeOK
  <2>3. pending' \subseteq Calls
    BY <2>1 DEF TypeOK
  <2>4. up' \in [Sockets -> Seq(Upward)]
    BY <1>11, <1>20 DEF OnToolCallResponse
  <2> QED BY <1>20, <2>2, <2>3, <2>4
          DEF OnToolCallResponse, TypeOK, gateway, tools, client, service
<1>21. ASSUME NEW c \in Calls, HandleToolCall(c) PROVE TypeOK'
  <2>1. call' \in [Calls -> {"idle", "reading", "waiting", "answered",
                             "timeout", "offline", "unsent", "broken"}]
    <3>1. \/ call' = [call EXCEPT ![c] = "offline"]
          \/ call' = [call EXCEPT ![c] = "reading"]
      BY <1>21 DEF HandleToolCall
    <3> QED BY <3>1 DEF TypeOK
  <2>2. aim' \in [Calls -> Sockets \cup {None}]
    <3>1. CASE authed = {}
      BY <1>21, <3>1 DEF HandleToolCall, TypeOK
    <3>2. CASE authed # {}
      <4>1. PICK s \in authed \cup {None} : aim' = [aim EXCEPT ![c] = s]
        BY <1>21, <3>2 DEF HandleToolCall
      <4> QED BY <4>1 DEF TypeOK
    <3> QED BY <3>1, <3>2
  <2> QED BY <1>21, <2>1, <2>2
          DEF HandleToolCall, TypeOK, gateway, tools, client, service, wire
<1>22. ASSUME NEW c \in Calls, SendToolCallRequest(c) PROVE TypeOK'
  <2>1. down' \in [Sockets -> Seq(Downward)]
    <3>1. Told(down, aim[c], MsgOf("request", c)) \in Ends(Downward)
      BY <1>0, ToldType, Messages
    <3>2. down' = down \/ down' = Told(down, aim[c], MsgOf("request", c))
      BY <1>22 DEF SendToolCallRequest
    <3> QED BY <1>0, <3>1, <3>2 DEF Ends
  <2>2. call' \in [Calls -> {"idle", "reading", "waiting", "answered",
                             "timeout", "offline", "unsent", "broken"}]
    BY <1>22 DEF SendToolCallRequest, TypeOK
  <2>3. aim' \in [Calls -> Sockets \cup {None}] /\ pending' \subseteq Calls
    BY <1>22 DEF SendToolCallRequest, TypeOK
  <2> QED BY <1>22, <2>1, <2>2, <2>3
          DEF SendToolCallRequest, TypeOK, gateway, tools, client, service
<1>23. ASSUME NEW c \in Calls, Timeout(c) PROVE TypeOK'
  BY <1>23 DEF Timeout, TypeOK, gateway, tools, client, service, wire
<1>24. ASSUME NEW s \in Sockets, Cut(s) PROVE TypeOK'
  <2>1. up' \in [Sockets -> Seq(Upward)] /\ down' \in [Sockets -> Seq(Downward)]
    BY <1>0, <1>24, ClearType DEF Cut, Ends
  <2> QED BY <1>24, <2>1 DEF Cut, Fault, TypeOK, gateway, tools, client, service, requests
<1>25. CASE GatewayRestart
  <2>1. up' \in [Sockets -> Seq(Upward)] /\ down' \in [Sockets -> Seq(Downward)]
    <3>1. \A t \in Sockets : up[t] \in Seq(Upward) /\ down[t] \in Seq(Downward)
      BY DEF TypeOK
    <3>2. <<>> \in Seq(Upward) /\ <<>> \in Seq(Downward)
      OBVIOUS
    <3> QED BY <1>25, <3>1, <3>2 DEF GatewayRestart
  <2> QED BY <1>25, <2>1 DEF GatewayRestart, Fault, TypeOK, client, service, tools
<1>26. CASE UNCHANGED vars
  BY <1>26 DEF vars, client, service, tools, wire, gateway, requests, TypeOK
<1>27. ASSUME NEW e \in Devices, ServiceNext(e) PROVE TypeOK'
  BY <1>1, <1>2, <1>3, <1>4, <1>27 DEF ServiceNext
<1>30. ASSUME NEW k \in Clients, ClientNext(k) PROVE TypeOK'
  BY <1>5, <1>7, <1>8, <1>9, <1>30 DEF ClientNext
<1>28. ASSUME NEW s \in Sockets, SocketNext(s) PROVE TypeOK'
  BY <1>12, <1>13, <1>14, <1>16, <1>17, <1>18, <1>19, <1>20, <1>24, <1>28
     DEF SocketNext
<1>29. ASSUME NEW c \in Calls, CallNext(c) PROVE TypeOK'
  BY <1>10, <1>21, <1>22, <1>23, <1>29 DEF CallNext
<1> QED BY <1>25, <1>26, <1>27, <1>28, <1>29, <1>30 DEF Next

-----------------------------------------------------------------------------
(* What is on a connection.                                                *)
Has(q, type) == \E i \in 1 .. Len(q) : q[i].type = type

LEMMA HasAppend ==
  ASSUME NEW M, NEW q \in Seq(M), NEW m \in M, NEW type
  PROVE  Has(Append(q, m), type) <=> Has(q, type) \/ m.type = type
<1>1. /\ Len(Append(q, m)) = Len(q) + 1 /\ Len(q) \in Nat
      /\ \A i \in 1 .. Len(q) : Append(q, m)[i] = q[i]
      /\ Append(q, m)[Len(q) + 1] = m
  OBVIOUS
<1> QED BY <1>1 DEF Has

LEMMA HasTail ==
  ASSUME NEW M, NEW q \in Seq(M), q # <<>>, NEW type
  PROVE  Has(q, type) <=> Head(q).type = type \/ Has(Tail(q), type)
<1>1. /\ Len(Tail(q)) = Len(q) - 1 /\ Len(q) \in Nat \ {0}
      /\ \A i \in 1 .. Len(q) - 1 : Tail(q)[i] = q[i + 1]
      /\ Head(q) = q[1]
  OBVIOUS
<1>2. ASSUME NEW i \in 1 .. Len(q), q[i].type = type, i # 1
      PROVE  Has(Tail(q), type)
  <2>1. i - 1 \in 1 .. Len(q) - 1 /\ Tail(q)[i - 1] = q[i]
    BY <1>1, <1>2
  <2> QED BY <1>1, <1>2, <2>1 DEF Has
<1>3. ASSUME NEW i \in 1 .. Len(q) - 1, Tail(q)[i].type = type
      PROVE  Has(q, type)
  <2>1. i + 1 \in 1 .. Len(q) /\ q[i + 1] = Tail(q)[i]
    BY <1>1, <1>3
  <2> QED BY <1>3, <2>1 DEF Has
<1> QED BY <1>1, <1>2, <1>3 DEF Has

LEMMA HasNone == \A type : ~Has(<<>>, type)
BY DEF Has

LEMMA HasUpgrade ==
  \A type : Has(<<Msg("upgrade")>>, type) <=> type = "upgrade"
<1>1. /\ Len(<<Msg("upgrade")>>) = 1 /\ <<Msg("upgrade")>>[1] = Msg("upgrade")
      /\ Msg("upgrade").type = "upgrade"
  BY Messages
<1> QED BY <1>1 DEF Has

LEMMA TailAppend ==
  ASSUME NEW M, NEW q \in Seq(M), NEW m \in M
  PROVE  /\ Append(q, m) # <<>>
         /\ q # <<>> => Tail(Append(q, m)) = Append(Tail(q), m)
         /\ q = <<>> => Tail(Append(q, m)) = <<>>
<1>1. Append(q, m) # <<>>
  OBVIOUS
<1>2. ASSUME q # <<>> PROVE Tail(Append(q, m)) = Append(Tail(q), m)
  BY <1>2
<1>3. ASSUME q = <<>> PROVE Tail(Append(q, m)) = <<>>
  BY <1>3
<1> QED BY <1>1, <1>2, <1>3

-----------------------------------------------------------------------------
(* Where upgrades, closes and the signs of an authentication can be.       *)
Owned(k) == ws[k] # None => owner[ws[k]] = k
Deaf(t) == ~Attached(t) => down[t] = <<>>
UpRules(t) ==
  /\ Has(up[t], "upgrade") => t \notin listed
  /\ up[t] # <<>> => ~Has(Tail(up[t]), "upgrade")
  /\ Has(up[t], "close") => ~Attached(t)
Served(k) ==
  ws[k] # None /\ ws[k] \notin lost
    /\ (status[k] = "connected" \/ Has(down[ws[k]], "auth_success"))
  => ws[k] \in authed \ closing \/ Has(down[ws[k]], "close")

Wires ==
  /\ \A k \in Clients : Owned(k) /\ Served(k)
  /\ \A t \in Sockets : Deaf(t) /\ UpRules(t)

LEMMA AttachedTo ==
  ASSUME TypeOK, Wires, NEW k \in Clients, NEW e \in Clients, ws[k] = ws[e],
         ws[k] # None
  PROVE  k = e
BY DEF Wires, Owned

(* The ways in which the queue to the gateway changes.                     *)
UpStep(t) ==
  \/ /\ \/ up'[t] = up[t] \/ up'[t] = <<>>
        \/ up[t] # <<>> /\ up'[t] = Tail(up[t])
        \/ \E m \in Upward : /\ m.type \notin {"upgrade", "close"}
                             /\ up'[t] = Append(up[t], m)
     /\ t \in listed' => t \in listed \/ ~Has(up'[t], "upgrade")
     /\ Attached(t)' => Attached(t) \/ ~Has(up'[t], "close")
  \/ /\ up'[t] = Append(up[t], Msg("close"))
     /\ ~Attached(t)' /\ (t \in listed' => t \in listed)
  \/ up'[t] = <<Msg("upgrade")>> /\ t \notin listed'

LEMMA UpKeeps ==
  ASSUME TypeOK, NEW t \in Sockets, UpRules(t), UpStep(t)
  PROVE  UpRules(t)'
<1> DEFINE q == up[t]
<1>0. q \in Seq(Upward) /\ Tail(<<>>) = <<>>
  BY DEF TypeOK
<1>1. CASE up'[t] = up[t]
  BY <1>1, HasUpgrade, HasAppend, <1>0, Messages DEF UpRules, UpStep
<1>2. CASE up'[t] = <<>>
  BY <1>2, HasNone DEF UpRules
<1>3. CASE q # <<>> /\ up'[t] = Tail(q) /\ up'[t] # <<>>
  <2>1. Tail(q) \in Seq(Upward)
    BY <1>0, <1>3
  <2>2. \A type : Has(Tail(q), type) => Has(q, type)
    BY <1>0, <1>3, HasTail
  <2>3. Has(Tail(Tail(q)), "upgrade") => Has(Tail(q), "upgrade")
    BY <1>3, <2>1, HasTail
  <2>4. ~Has(Tail(q), "upgrade")
    BY <1>3 DEF UpRules
  <2>5. Has(up'[t], "close") => ~Attached(t)'
    <3>1. (Attached(t)' => Attached(t) \/ ~Has(up'[t], "close"))
            \/ ~Attached(t)' \/ up'[t] = <<Msg("upgrade")>>
      BY DEF UpStep
    <3>2. Has(up'[t], "close") => ~Attached(t)
      BY <1>3, <2>2 DEF UpRules
    <3> QED BY <3>1, <3>2, HasUpgrade
  <2> QED BY <1>3, <2>3, <2>4, <2>5 DEF UpRules
<1>4. ASSUME NEW m \in Upward, m.type # "upgrade", up'[t] = Append(q, m),
             m.type = "close" => ~Attached(t)',
             t \in listed' => t \in listed \/ ~Has(up'[t], "upgrade"),
             Attached(t)' => Attached(t) \/ ~Has(up'[t], "close")
      PROVE  UpRules(t)'
  <2>1. \A type : Has(up'[t], type) <=> Has(q, type) \/ m.type = type
    BY <1>0, <1>4, HasAppend
  <2>2. CASE q = <<>>
    BY <1>0, <1>4, <2>1, <2>2, TailAppend, HasNone DEF UpRules
  <2>3. CASE q # <<>>
    <3>1. Tail(q) \in Seq(Upward) /\ Tail(up'[t]) = Append(Tail(q), m)
      BY <1>0, <1>4, <2>3, TailAppend
    <3>2. ~Has(Tail(up'[t]), "upgrade")
      <4>1. ~Has(Tail(q), "upgrade")
        BY <2>3 DEF UpRules
      <4>2. Has(Append(Tail(q), m), "upgrade")
              <=> Has(Tail(q), "upgrade") \/ m.type = "upgrade"
        BY <3>1, HasAppend
      <4> QED BY <1>4, <3>1, <4>1, <4>2
    <3>3. Has(up'[t], "upgrade") => t \notin listed'
      BY <1>4, <2>1 DEF UpRules
    <3>4. Has(up'[t], "close") => ~Attached(t)'
      BY <1>4, <2>1 DEF UpRules
    <3> QED BY <3>2, <3>3, <3>4 DEF UpRules
  <2> QED BY <2>2, <2>3
<1>5. CASE up'[t] = Append(up[t], Msg("close"))
            /\ ~Attached(t)' /\ (t \in listed' => t \in listed)
  BY <1>4, <1>5, Messages
<1>6. CASE up'[t] = <<Msg("upgrade")>> /\ t \notin listed'
  <2>1. Tail(<<Msg("upgrade")>>) = <<>> /\ Msg("upgrade") \in Upward
    BY Messages
  <2>2. \A type : Has(up'[t], type) <=> type = "upgrade"
    BY <1>6, HasUpgrade
  <2> QED BY <1>6, <2>1, <2>2, HasNone DEF UpRules
<1> QED BY <1>1, <1>2, <1>3, <1>4, <1>5, <1>6 DEF UpStep

LEMMA InitWires == Init => Wires
<1> SUFFICES ASSUME Init PROVE Wires
  OBVIOUS
<1>1. \A k \in Clients : ws[k] = None
  BY DEF Init
<1>2. \A t \in Sockets : up[t] = <<>> /\ down[t] = <<>>
  BY DEF Init
<1> QED BY <1>1, <1>2, HasNone DEF Wires, Owned, Served, Deaf, UpRules

LEMMA SameUp ==
  ASSUME NEW t \in Sockets, UpRules(t), up'[t] = up[t], listed' = listed,
         Attached(t)' => Attached(t)
  PROVE  UpRules(t)'
BY DEF UpRules

LEMMA UpAppends ==
  ASSUME TypeOK, NEW t \in Sockets, UpRules(t), NEW m \in Upward,
         m.type \notin {"upgrade", "close"}, up'[t] = Append(up[t], m),
         listed' = listed, Attached(t)' => Attached(t)
  PROVE  UpRules(t)'
<1>1. up[t] \in Seq(Upward)
  BY DEF TypeOK
<1>2. Attached(t)' => Attached(t) \/ ~Has(up'[t], "close")
  OBVIOUS
<1>3. UpStep(t)
  BY <1>2 DEF UpStep
<1> QED BY <1>3, UpKeeps

LEMMA LeaveWires ==
  ASSUME TypeOK, Wires, NEW k \in Clients, NEW next, next # "connected",
         Leave(k, next), UNCHANGED gateway
  PROVE  Wires'
<1> USE DEF gateway
<1>0. up \in Ends(Upward) /\ down \in Ends(Downward)
  BY DEF TypeOK, Ends
<1>1. /\ ws'[k] = None /\ \A e \in Clients : e # k => ws'[e] = ws[e]
      /\ status'[k] = next
      /\ \A e \in Clients : e # k => status'[e] = status[e]
      /\ owner' = owner /\ lost' = lost
  BY DEF Leave, TypeOK
<1>2. \A t \in Sockets : Attached(t)' => Attached(t) /\ t # ws[k]
  <2> TAKE t \in Sockets
  <2>1. t # None
    OBVIOUS
  <2> QED BY <1>1, <2>1, AttachedTo DEF Attached
<1>3. \A t \in Sockets : down'[t] = IF t = ws[k] THEN <<>> ELSE down[t]
  BY <1>0 DEF Leave, DownWithoutClient, Ends
<1>4. \A t \in Sockets :
        up'[t] = IF t = ws[k] /\ t \notin lost
                 THEN Append(up[t], Msg("close")) ELSE up[t]
  BY <1>0, SentType, Messages DEF Leave, UpWithoutClient
<1>5. ASSUME NEW e \in Clients PROVE Owned(e)' /\ Served(e)'
  <2>1. CASE e = k
    BY <1>1, <2>1 DEF Owned, Served
  <2>2. CASE e # k /\ ws[e] = None
    BY <1>1, <2>2 DEF Owned, Served
  <2>3. CASE e # k /\ ws[e] # None
    <3>1. ws[e] # ws[k] /\ ws[e] \in Sockets
      BY <2>3, AttachedTo DEF TypeOK
    <3>2. down'[ws[e]] = down[ws[e]]
      BY <1>3, <3>1
    <3> QED BY <1>1, <2>3, <3>2 DEF Owned, Served, Wires
  <2> QED BY <2>1, <2>2, <2>3
<1>6. ASSUME NEW t \in Sockets PROVE Deaf(t)'
  <2>1. CASE t = ws[k]
    BY <1>3, <2>1 DEF Deaf
  <2>2. CASE t # ws[k]
    <3>1. Attached(t) => Attached(t)'
      BY <1>1, <2>2 DEF Attached
    <3> QED BY <1>3, <2>2, <3>1 DEF Deaf, Wires
  <2> QED BY <2>1, <2>2
<1>7. ASSUME NEW t \in Sockets PROVE UpRules(t)'
  <2>1. CASE t = ws[k] /\ t \notin lost
    BY <1>2, <1>4, <2>1, UpKeeps DEF UpStep, Wires
  <2>2. CASE ~(t = ws[k] /\ t \notin lost)
    BY <1>2, <1>4, <2>2, SameUp DEF Wires
  <2> QED BY <2>1, <2>2
<1> QED BY <1>5, <1>6, <1>7 DEF Wires

LEMMA ConnectWires ==
  ASSUME TypeOK, Wires, NEW k \in Clients, NEW s \in Sockets, DoConnect(k, s),
         UNCHANGED gateway
  PROVE  Wires'
<1> USE DEF gateway
<1>0. up \in Ends(Upward) /\ down \in Ends(Downward)
  BY DEF TypeOK, Ends
<1>1. /\ ws'[k] = s /\ \A e \in Clients : e # k => ws'[e] = ws[e]
      /\ status'[k] = "connecting"
      /\ \A e \in Clients : e # k => status'[e] = status[e]
      /\ owner'[s] = k /\ \A t \in Sockets : t # s => owner'[t] = owner[t]
      /\ \A t \in Sockets : t # s => (t \in lost' <=> t \in lost)
  BY DEF DoConnect, TypeOK
<1>2. /\ ~Attached(s) /\ s \notin listed /\ s # ws[k]
      /\ down[s] = <<>>
  BY DEF DoConnect, Free, Attached, Wires, Deaf
<1>3. \A t \in Sockets : down'[t] = IF t = ws[k] THEN <<>> ELSE down[t]
  BY <1>0 DEF DoConnect, DownWithoutClient, Ends
<1>4. /\ up'[s] = <<Msg("upgrade")>>
      /\ \A t \in Sockets : t # s =>
           up'[t] = IF t = ws[k] /\ t \notin lost
                    THEN Append(up[t], Msg("close")) ELSE up[t]
  <2>1. /\ UpWithoutClient(k) \in Ends(Upward)
        /\ \A t \in Sockets :
             UpWithoutClient(k)[t] = IF t = ws[k] /\ t \notin lost
                    THEN Append(up[t], Msg("close")) ELSE up[t]
    BY <1>0, SentType, Messages DEF UpWithoutClient
  <2> QED BY <2>1 DEF DoConnect, Ends
<1>5. \A t \in Sockets : Attached(t)' => t = s \/ (Attached(t) /\ t # ws[k])
  <2> TAKE t \in Sockets
  <2>1. t # None
    OBVIOUS
  <2> QED BY <1>1, <2>1, AttachedTo DEF Attached
<1>6. ASSUME NEW e \in Clients PROVE Owned(e)' /\ Served(e)'
  <2>1. CASE e = k
    BY <1>1, <1>2, <1>3, <2>1, HasNone DEF Owned, Served
  <2>2. CASE e # k /\ ws[e] = None
    BY <1>1, <2>2 DEF Owned, Served
  <2>3. CASE e # k /\ ws[e] # None
    <3>1. ws[e] # ws[k] /\ ws[e] \in Sockets /\ ws[e] # s
      BY <1>2, <2>3, AttachedTo DEF TypeOK, Attached
    <3>2. down'[ws[e]] = down[ws[e]]
      BY <1>3, <3>1
    <3> QED BY <1>1, <2>3, <3>1, <3>2 DEF Owned, Served, Wires
  <2> QED BY <2>1, <2>2, <2>3
<1>7. ASSUME NEW t \in Sockets PROVE Deaf(t)'
  <2>1. CASE t = ws[k]
    BY <1>3, <2>1 DEF Deaf
  <2>2. CASE t # ws[k]
    <3>1. Attached(t) => Attached(t)'
      BY <1>1, <2>2 DEF Attached
    <3> QED BY <1>3, <2>2, <3>1 DEF Deaf, Wires
  <2> QED BY <2>1, <2>2
<1>8. ASSUME NEW t \in Sockets PROVE UpRules(t)'
  <2>1. CASE t = s
    BY <1>2, <1>4, <2>1, UpKeeps DEF UpStep, Wires
  <2>2. CASE t # s /\ t = ws[k] /\ t \notin lost
    BY <1>4, <1>5, <2>2, UpKeeps DEF UpStep, Wires
  <2>3. CASE t # s /\ ~(t = ws[k] /\ t \notin lost)
    BY <1>4, <1>5, <2>3, SameUp DEF Wires
  <2> QED BY <2>1, <2>2, <2>3
<1> QED BY <1>6, <1>7, <1>8 DEF Wires

(* A handler of the client that takes one message.                         *)
LEMMA ReceiveWires ==
  ASSUME TypeOK, Wires, NEW k \in Clients, NEW type, Coming(k, type),
         type # "close", Received(k), UNCHANGED <<ws, owner, lost, gateway>>,
         \A e \in Clients : e # k => status'[e] = status[e],
         status'[k] = "connected" =>
           status[k] = "connected" \/ type = "auth_success",
         up' = up \/ up' = Sent(up, ws[k], Msg("auth"))
  PROVE  Wires'
<1> USE DEF gateway
<1>0. up \in Ends(Upward) /\ down \in Ends(Downward)
  BY DEF TypeOK, Ends
<1>1. /\ ws[k] \in Sockets /\ down[ws[k]] # <<>>
      /\ Head(down[ws[k]]).type = type
  BY DEF Coming, TypeOK
<1>2. \A t \in Sockets :
        down'[t] = IF t = ws[k] THEN Tail(down[t]) ELSE down[t]
  BY <1>0, <1>1 DEF Received, Ends
<1>3. \A t \in Sockets : Attached(t)' <=> Attached(t)
  BY DEF Attached
<1>4. ASSUME NEW e \in Clients PROVE Owned(e)' /\ Served(e)'
  <2>1. CASE e = k
    <3>1. /\ \A y : Has(down[ws[k]], y)
                   <=> Head(down[ws[k]]).type = y \/ Has(Tail(down[ws[k]]), y)
      BY <1>0, <1>1, HasTail DEF Ends
    <3>2. \A y : /\ Has(down'[ws[k]], y) => Has(down[ws[k]], y)
                 /\ y # type /\ Has(down[ws[k]], y) => Has(down'[ws[k]], y)
                 /\ Has(down[ws[k]], type)
      BY <1>1, <1>2, <3>1
    <3>3. Served(k)'
      BY <3>2 DEF Served, Wires
    <3> QED BY <2>1, <3>3 DEF Owned, Wires
  <2>2. CASE e # k /\ ws[e] = None
    BY <2>2 DEF Owned, Served
  <2>3. CASE e # k /\ ws[e] # None
    <3>1. ws[e] # ws[k] /\ ws[e] \in Sockets
      BY <2>3, AttachedTo DEF TypeOK
    <3>2. down'[ws[e]] = down[ws[e]]
      BY <1>2, <3>1
    <3> QED BY <2>3, <3>2 DEF Owned, Served, Wires
  <2> QED BY <2>1, <2>2, <2>3
<1>5. ASSUME NEW t \in Sockets PROVE Deaf(t)'
  <2>1. Attached(ws[k])
    BY DEF Attached
  <2> QED BY <1>2, <1>3, <2>1 DEF Deaf, Wires
<1>6. ASSUME NEW t \in Sockets PROVE UpRules(t)'
  <2>1. CASE up'[t] = up[t]
    BY <1>3, <2>1, SameUp DEF Wires
  <2>2. CASE up'[t] # up[t]
    <3>1. up'[t] = Append(up[t], Msg("auth"))
      <4>1. Msg("auth") \in Upward
        BY Messages
      <4>2. /\ t # ws[k] => Sent(up, ws[k], Msg("auth"))[t] = up[t]
            /\ Sent(up, ws[k], Msg("auth"))[ws[k]] =
                 IF ws[k] \in lost THEN up[ws[k]]
                 ELSE Append(up[ws[k]], Msg("auth"))
        BY <1>0, <1>1, <4>1, SentType
      <4> QED BY <2>2, <4>2
    <3>2. PICK m \in Upward : m = Msg("auth") /\ m.type = "auth"
      BY Messages
    <3>3. UpRules(t) /\ listed' = listed /\ up'[t] = Append(up[t], m)
      BY <3>1, <3>2 DEF Wires
    <3> QED BY <1>3, <3>2, <3>3, UpAppends
  <2> QED BY <2>1, <2>2
<1> QED BY <1>4, <1>5, <1>6 DEF Wires

LEMMA AnswerWires ==
  ASSUME TypeOK, Wires, NEW c \in Calls, SendToolCallResponse(c)
  PROVE  Wires'
<1> DEFINE s == ws[by[c]]
<1>0. up \in Ends(Upward) /\ MsgOf("response", c) \in Upward
      /\ MsgOf("response", c).type = "response"
  BY Messages DEF TypeOK, Ends
<1>1. ws' = ws /\ status' = status /\ down' = down /\ owner' = owner
      /\ lost' = lost /\ listed' = listed /\ closing' = closing
      /\ authed' = authed
  BY DEF SendToolCallResponse, client, gateway
<1>2. up' = up \/ up' = Sent(up, s, MsgOf("response", c))
  BY DEF SendToolCallResponse
<1>3. ASSUME NEW t \in Sockets PROVE UpRules(t)'
  <2>0. UpRules(t) /\ (Attached(t)' => Attached(t))
    BY <1>1 DEF Wires, Attached
  <2>1. CASE up'[t] = up[t]
    BY <1>1, <2>0, <2>1, SameUp
  <2>2. CASE up'[t] # up[t]
    <3>1. /\ t # s => Sent(up, s, MsgOf("response", c))[t] = up[t]
          /\ t = s => Sent(up, s, MsgOf("response", c))[t] =
                        IF t \in lost THEN up[t]
                        ELSE Append(up[t], MsgOf("response", c))
      BY <1>0, SentType
    <3>2. up'[t] = Append(up[t], MsgOf("response", c))
      BY <1>2, <2>2, <3>1
    <3>3. PICK m \in Upward : m = MsgOf("response", c) /\ m.type = "response"
      BY <1>0
    <3> QED BY <1>1, <2>0, <3>2, <3>3, UpAppends
  <2> QED BY <2>1, <2>2
<1> QED BY <1>1, <1>3 DEF Wires, Owned, Served, Deaf, Attached

(* A handler of the gateway that takes one message and may end the socket  *)
(* that nobody is attached to.                                             *)
LEMMA TakeWires ==
  ASSUME TypeOK, Wires, NEW s \in Sockets, up[s] # <<>>, Taken(s),
         UNCHANGED <<client, down, owner, lost>>,
         \/ listed' = listed /\ closing' = closing /\ authed' = authed
         \/ ~Attached(s) /\ listed' = listed \ {s} /\ closing' = closing \ {s}
            /\ authed' = authed \ {s}
  PROVE  Wires'
<1>0. up \in Ends(Upward) /\ ws' = ws /\ status' = status
  BY DEF TypeOK, Ends, client
<1>1. ASSUME NEW t \in Sockets PROVE UpRules(t)'
  <2>0. /\ UpRules(t) /\ (Attached(t)' => Attached(t))
        /\ t \in listed' => t \in listed
    BY <1>0 DEF Wires, Attached
  <2>1. CASE t # s
    <3>1. up'[t] = up[t]
      BY <1>0, <2>1 DEF Taken, Ends
    <3> QED BY <2>0, <3>1 DEF UpRules
  <2>2. CASE t = s
    <3>1. up[t] # <<>> /\ up'[t] = Tail(up[t])
      BY <1>0, <2>2 DEF Taken, Ends
    <3>2. UpStep(t)
      BY <2>0, <3>1 DEF UpStep
    <3> QED BY <2>0, <3>2, UpKeeps
  <2> QED BY <2>1, <2>2
<1>2. ASSUME NEW e \in Clients PROVE Owned(e)' /\ Served(e)'
  <2>1. ws[e] # None => Attached(ws[e])
    BY DEF Attached
  <2> QED BY <1>0, <2>1 DEF Wires, Owned, Served
<1> QED BY <1>0, <1>1, <1>2 DEF Wires, Deaf, Attached

(* A handler of the gateway that sends.                                    *)
LEMMA TellWires ==
  ASSUME TypeOK, Wires, UNCHANGED <<client, up, owner, lost, listed>>,
         \A t \in Sockets :
           /\ ~Attached(t) => down'[t] = down[t]
           /\ Attached(t) /\ t \notin lost =>
                /\ Has(down[t], "close") => Has(down'[t], "close")
                /\ t \in authed \ closing
                     \/ (Has(down'[t], "auth_success")
                           /\ ~Has(down[t], "auth_success"))
                   => t \in authed' \ closing' \/ Has(down'[t], "close")
  PROVE  Wires'
<1>1. ws' = ws /\ status' = status
  BY DEF client
<1>2. ASSUME NEW e \in Clients PROVE Owned(e)' /\ Served(e)'
  <2>1. ws[e] # None => Attached(ws[e]) /\ ws[e] \in Sockets
    BY DEF Attached, TypeOK
  <2>2. Owned(e)'
    BY <1>1 DEF Wires, Owned
  <2>3. CASE ws[e] # None /\ ws[e] \notin lost
    <3> DEFINE t == ws[e]
    <3>1. Served(e) /\ t \in Sockets /\ Attached(t)
      BY <2>1, <2>3 DEF Wires
    <3>2. /\ Has(down[t], "close") => Has(down'[t], "close")
          /\ t \in authed \ closing
               \/ (Has(down'[t], "auth_success")
                     /\ ~Has(down[t], "auth_success"))
             => t \in authed' \ closing' \/ Has(down'[t], "close")
      BY <2>3, <3>1
    <3> QED BY <1>1, <2>2, <2>3, <3>1, <3>2 DEF Served
  <2>4. CASE ~(ws[e] # None /\ ws[e] \notin lost)
    BY <1>1, <2>2, <2>4 DEF Served
  <2> QED BY <2>3, <2>4
<1>3. ASSUME NEW t \in Sockets PROVE Deaf(t)' /\ UpRules(t)'
  BY <1>1 DEF Wires, Deaf, UpRules, Attached
<1> QED BY <1>2, <1>3 DEF Wires

(* Told, seen from one socket.                                             *)
LEMMA ToldHas ==
  ASSUME NEW q \in Ends(Downward), NEW s \in Sockets, NEW m \in Downward,
         NEW t \in Sockets
  PROVE  /\ ~Attached(t) => Told(q, s, m)[t] = q[t]
         /\ t # s => Told(q, s, m)[t] = q[t]
         /\ \A y : Has(q[t], y) => Has(Told(q, s, m)[t], y)
         /\ \A y : Has(Told(q, s, m)[t], y) => Has(q[t], y) \/ y = m.type
         /\ Attached(s) /\ s \notin lost => Has(Told(q, s, m)[s], m.type)
<1>1. q[t] \in Seq(Downward) /\ q[s] \in Seq(Downward)
  BY DEF Ends
<1>2. /\ t # s => Told(q, s, m)[t] = q[t]
      /\ Told(q, s, m)[s] = IF Attached(s) /\ s \notin lost
                             THEN Append(q[s], m) ELSE q[s]
  BY ToldType
<1>3. \A y : Has(Append(q[s], m), y) <=> Has(q[s], y) \/ m.type = y
  BY <1>1, HasAppend
<1> QED BY <1>2, <1>3

LEMMA UpgradeWires ==
  ASSUME TypeOK, Wires, NEW s \in Sockets, HandleWebSocketUpgrade(s)
  PROVE  Wires'
<1> DEFINE same == {t \in listed : DeviceOf(t) = DeviceOf(s)}
<1>0. /\ up \in Ends(Upward) /\ down \in Ends(Downward) /\ up[s] # <<>>
      /\ Head(up[s]).type = "upgrade" /\ Msg("open") \in Downward
      /\ Msg("open").type = "open" /\ Msg("close") \in Downward
      /\ Msg("close").type = "close"
  BY Messages DEF TypeOK, Ends, HandleWebSocketUpgrade, Arrived
<1>1. /\ ws' = ws /\ status' = status /\ owner' = owner /\ lost' = lost
      /\ authed' = authed /\ listed' = listed \cup {s}
      /\ closing' = closing \cup same
  BY DEF HandleWebSocketUpgrade, client
<1>2. \A t \in Sockets : Attached(t)' <=> Attached(t)
  BY <1>1 DEF Attached
<1>3. Has(up[s], "upgrade") /\ s \notin listed /\ ~Has(Tail(up[s]), "upgrade")
  BY <1>0, HasTail DEF Ends, Wires, UpRules
<1>4. \A t \in Sockets : up'[t] = IF t = s THEN Tail(up[s]) ELSE up[t]
  BY <1>0 DEF HandleWebSocketUpgrade, Taken, Ends
<1>5. ASSUME NEW t \in Sockets PROVE UpRules(t)'
  <2>0. UpRules(t)
    BY DEF Wires
  <2>1. CASE t = s
    <3>1. UpStep(t)
      BY <1>0, <1>1, <1>2, <1>3, <1>4, <2>1 DEF UpStep
    <3> QED BY <2>0, <3>1, UpKeeps
  <2>2. CASE t # s
    BY <1>1, <1>2, <1>4, <2>0, <2>2 DEF UpRules
  <2> QED BY <2>1, <2>2
<1>6. \A t \in Sockets :
        down'[t] = IF t = s THEN Told(down, s, Msg("open"))[s]
                   ELSE IF t \in same \ closing
                   THEN Told(down, t, Msg("close"))[t] ELSE down[t]
  BY DEF HandleWebSocketUpgrade
<1>7. ASSUME NEW t \in Sockets
      PROVE  /\ ~Attached(t) => down'[t] = down[t]
             /\ \A y : Has(down[t], y) => Has(down'[t], y)
             /\ Has(down'[t], "auth_success") => Has(down[t], "auth_success")
             /\ Attached(t) /\ t \notin lost /\ t \in same \ closing =>
                  Has(down'[t], "close")
  <2>1. CASE t = s
    BY <1>0, <1>3, <1>6, <2>1, ToldHas
  <2>2. CASE t # s /\ t \in same \ closing
    <3>1. down'[t] = Told(down, t, Msg("close"))[t]
      BY <1>6, <2>2
    <3> HIDE DEF same
    <3> QED BY <1>0, <2>2, <3>1, ToldHas
  <2>3. CASE t # s /\ t \notin same \ closing
    BY <1>6, <2>3
  <2> QED BY <2>1, <2>2, <2>3
<1>8. ASSUME NEW t \in Sockets PROVE Deaf(t)'
  BY <1>2, <1>7 DEF Wires, Deaf
<1>9. ASSUME NEW e \in Clients PROVE Owned(e)' /\ Served(e)'
  <2>1. Owned(e)'
    BY <1>1 DEF Wires, Owned
  <2>2. CASE ws[e] # None /\ ws[e] \notin lost
    <3> DEFINE t == ws[e]
    <3>1. Served(e) /\ t \in Sockets /\ Attached(t)
      BY <2>2 DEF Wires, Attached, TypeOK
    <3>2. CASE t \in same \ closing
      BY <1>1, <1>7, <2>1, <2>2, <3>1, <3>2 DEF Served
    <3>3. CASE t \notin same \ closing
      BY <1>1, <1>7, <2>1, <2>2, <3>1, <3>3 DEF Served
    <3> QED BY <2>1, <3>2, <3>3
  <2>3. CASE ~(ws[e] # None /\ ws[e] \notin lost)
    BY <1>1, <2>1, <2>3 DEF Served
  <2> QED BY <2>1, <2>2, <2>3
<1> QED BY <1>5, <1>8, <1>9 DEF Wires

LEMMA RefusedHas ==
  ASSUME TypeOK, NEW s \in Sockets, NEW t \in Sockets
  PROVE  /\ ~Attached(t) => Refused(down, s)[t] = down[t]
         /\ t # s => Refused(down, s)[t] = down[t]
         /\ \A y : Has(down[t], y) => Has(Refused(down, s)[t], y)
         /\ Has(Refused(down, s)[t], "auth_success") =>
              Has(down[t], "auth_success")
         /\ Attached(s) /\ s \notin lost => Has(Refused(down, s)[s], "close")
<1> DEFINE q == Told(down, s, Msg("auth_failed"))
<1>0. /\ down \in Ends(Downward)
      /\ Msg("auth_failed") \in Downward /\ Msg("auth_failed").type = "auth_failed"
      /\ Msg("close") \in Downward /\ Msg("close").type = "close"
  BY Messages DEF TypeOK, Ends
<1>1. q \in Ends(Downward)
  BY <1>0, ToldType
<1>2. /\ ~Attached(t) => q[t] = down[t]
      /\ t # s => q[t] = down[t]
      /\ \A y : Has(down[t], y) => Has(q[t], y)
      /\ \A y : Has(q[t], y) => Has(down[t], y) \/ y = "auth_failed"
  BY <1>0, ToldHas
<1> HIDE DEF q
<1>3. /\ ~Attached(t) => Told(q, s, Msg("close"))[t] = q[t]
      /\ t # s => Told(q, s, Msg("close"))[t] = q[t]
      /\ \A y : Has(q[t], y) => Has(Told(q, s, Msg("close"))[t], y)
      /\ \A y : Has(Told(q, s, Msg("close"))[t], y) => Has(q[t], y) \/ y = "close"
      /\ Attached(s) /\ s \notin lost => Has(Told(q, s, Msg("close"))[s], "close")
  BY <1>0, <1>1, ToldHas
<1>4. Refused(down, s) = Told(q, s, Msg("close"))
  BY DEF Refused, q
<1> QED BY <1>2, <1>3, <1>4

LEMMA NextWires == TypeOK /\ Wires /\ [Next]_vars => Wires'
<1> SUFFICES ASSUME TypeOK, Wires, [Next]_vars PROVE Wires'
  OBVIOUS
<1>0. /\ up \in Ends(Upward) /\ down \in Ends(Downward)
      /\ \A y \in {"auth_success", "close"} :
           Msg(y) \in Downward /\ Msg(y).type = y
  BY Messages DEF TypeOK, Ends
<1>6. ASSUME NEW e \in Devices, ServiceNext(e) PROVE Wires'
  <2>1. UNCHANGED gateway
    BY <1>6 DEF ServiceNext, SvcConnect, SvcCreate, SvcNoToken, SvcDisconnect
  <2>2. ASSUME UNCHANGED <<status, ws, owner, wire, lost>> PROVE Wires'
    BY <2>1, <2>2 DEF wire, gateway, Wires, Owned, Served, Deaf, UpRules,
       Attached
  <2>3. CASE SvcConnect(e) \/ SvcDisconnect(e)
    <3>1. CASE current[e] # None
      <4>1. PICK k \in Clients : k = current[e]
        BY <3>1 DEF TypeOK
      <4>2. Leave(k, "disconnected")
        BY <2>3, <3>1, <4>1 DEF SvcConnect, SvcDisconnect, Quit
      <4> QED BY <2>1, <4>2, LeaveWires
    <3>2. CASE current[e] = None
      BY <2>2, <2>3, <3>2 DEF SvcConnect, SvcDisconnect
    <3> QED BY <3>1, <3>2
  <2>4. ASSUME NEW k \in Clients, SvcCreate(e, k) PROVE Wires'
    BY <2>1, <2>4, ConnectWires DEF SvcCreate
  <2>5. CASE SvcNoToken(e)
    BY <2>2, <2>5 DEF SvcNoToken
  <2> QED BY <1>6, <2>3, <2>4, <2>5 DEF ServiceNext
<1>1. ASSUME NEW k \in Clients, ClientNext(k) PROVE Wires'
  <2>1. CASE Reconnect(k)
    BY <2>1, ConnectWires DEF Reconnect
  <2>2. CASE \/ HandleClose(k) \/ HeartbeatMissed(k)
             \/ OnAuthFailed(k) \/ OnClose(k)
    BY <2>2, LeaveWires
       DEF HandleClose, HeartbeatMissed, OnAuthFailed, OnClose, Detach, Quit
  <2>3. CASE HandleOpen(k)
    BY <2>3, ReceiveWires DEF HandleOpen, TypeOK
  <2>4. CASE OnAuthSuccess(k)
    BY <2>4, ReceiveWires DEF OnAuthSuccess, TypeOK
  <2>5. CASE OnToolCallRequest(k)
    BY <2>5, ReceiveWires DEF OnToolCallRequest, client
  <2> QED BY <1>1, <2>1, <2>2, <2>3, <2>4, <2>5 DEF ClientNext
<1>2. ASSUME NEW s \in Sockets, SocketNext(s) PROVE Wires'
  <2>1. CASE HandleWebSocketUpgrade(s)
    BY <2>1, UpgradeWires
  <2>2. CASE OnAuth(s)
    BY <2>2, TakeWires DEF OnAuth, Arrived
  <2>3. CASE OnToolCallResponse(s)
    BY <2>3, TakeWires DEF OnToolCallResponse, Arrived, gateway
  <2>4. CASE WebSocketClose(s)
    <3>1. Has(up[s], "close")
      BY <1>0, <2>4, HasTail DEF WebSocketClose, Arrived, Ends
    <3>2. ~Attached(s)
      BY <3>1 DEF Wires, UpRules
    <3> QED BY <2>4, <3>2, TakeWires DEF WebSocketClose, Unlist, Arrived
  <2>5. CASE AuthSucceeds(s)
    <3>1. \A t \in Sockets :
            /\ ~Attached(t) => down'[t] = down[t]
            /\ \A y : Has(down[t], y) => Has(down'[t], y)
            /\ Has(down'[t], "auth_success") /\ ~Has(down[t], "auth_success")
                 => t = s /\ s \in listed \ closing
      BY <1>0, <2>5, ToldHas DEF AuthSucceeds
    <3> QED BY <2>5, <3>1, TellWires DEF AuthSucceeds
  <2>6. CASE AuthFails(s)
    <3>1. \A t \in Sockets :
            /\ ~Attached(t) => down'[t] = down[t]
            /\ \A y : Has(down[t], y) => Has(down'[t], y)
            /\ Has(down'[t], "auth_success") => Has(down[t], "auth_success")
            /\ Attached(t) /\ t \notin lost /\ t \in closing' \ closing =>
                 Has(down'[t], "close")
      BY <2>6, RefusedHas DEF AuthFails
    <3>2. UNCHANGED <<client, up, owner, lost, listed, authed>>
      BY <2>6 DEF AuthFails
    <3> QED BY <3>1, <3>2, TellWires
  <2>7. CASE AlarmCloses(s)
    <3>1. \A t \in Sockets :
            /\ ~Attached(t) => down'[t] = down[t]
            /\ \A y : Has(down[t], y) => Has(down'[t], y)
            /\ Has(down'[t], "auth_success") => Has(down[t], "auth_success")
            /\ Attached(t) /\ t \notin lost /\ t \in closing' \ closing =>
                 Has(down'[t], "close")
      <4>1. CASE s \in authed
        BY <1>0, <2>7, <4>1, ToldHas DEF AlarmCloses
      <4>2. CASE s \notin authed
        BY <2>7, <4>2, RefusedHas DEF AlarmCloses
      <4> QED BY <4>1, <4>2
    <3>2. UNCHANGED <<client, up, owner, lost, listed, authed>>
      BY <2>7 DEF AlarmCloses
    <3> QED BY <3>1, <3>2, TellWires
  <2>8. CASE WebSocketError(s)
    <3>1. s \in lost
      BY <2>8 DEF WebSocketError
    <3> QED BY <2>8, <3>1 DEF WebSocketError, Unlist, client, Wires, Owned,
               Served, Deaf, UpRules, Attached
  <2>9. CASE Cut(s)
    <3>1. /\ ws' = ws /\ status' = status /\ owner' = owner /\ listed' = listed
          /\ closing' = closing /\ authed' = authed
          /\ lost' = lost \cup {s}
          /\ \A t \in Sockets : /\ up'[t] = IF t = s THEN <<>> ELSE up[t]
                               /\ down'[t] = IF t = s THEN <<>> ELSE down[t]
      BY <1>0, <2>9 DEF Cut, client, gateway, Ends
    <3>2. \A t \in Sockets : Attached(t)' <=> Attached(t)
      BY <3>1 DEF Attached
    <3>3. ASSUME NEW t \in Sockets PROVE Deaf(t)' /\ UpRules(t)'
      BY <3>1, <3>2, HasNone DEF Wires, Deaf, UpRules
    <3>4. ASSUME NEW e \in Clients PROVE Owned(e)' /\ Served(e)'
      <4>1. ws[e] \in Sockets \cup {None}
        BY DEF TypeOK
      <4> QED BY <3>1, <4>1 DEF Wires, Owned, Served
    <3> QED BY <3>3, <3>4 DEF Wires
  <2> QED BY <1>2, <2>1, <2>2, <2>3, <2>4, <2>5, <2>6, <2>7, <2>8, <2>9
          DEF SocketNext
<1>3. ASSUME NEW c \in Calls, CallNext(c) PROVE Wires'
  <2>1. CASE HandleToolCall(c)
    BY <2>1 DEF HandleToolCall, client, wire, gateway, Wires, Owned, Served,
       Deaf, UpRules, Attached
  <2>2. CASE Timeout(c)
    BY <2>2 DEF Timeout, client, wire, gateway, Wires, Owned, Served,
       Deaf, UpRules, Attached
  <2>3. CASE SendToolCallResponse(c)
    BY <2>3, AnswerWires
  <2>4. CASE SendToolCallRequest(c)
    <3>1. \A t \in Sockets :
            /\ ~Attached(t) => down'[t] = down[t]
            /\ \A y : Has(down[t], y) => Has(down'[t], y)
            /\ Has(down'[t], "auth_success") => Has(down[t], "auth_success")
      <4>1. CASE down' = down
        BY <4>1
      <4>2. CASE aim[c] \in listed /\ down' = Told(down, aim[c], MsgOf("request", c))
        <5>1. /\ aim[c] \in Sockets /\ MsgOf("request", c) \in Downward
              /\ MsgOf("request", c).type = "request"
          BY <4>2, Messages DEF TypeOK
        <5> QED BY <1>0, <4>2, <5>1, ToldHas
      <4> QED BY <2>4, <4>1, <4>2 DEF SendToolCallRequest
    <3>2. UNCHANGED <<client, up, owner, lost, listed, authed, closing>>
      BY <2>4 DEF SendToolCallRequest, gateway
    <3> QED BY <3>1, <3>2, TellWires
  <2> QED BY <1>3, <2>1, <2>2, <2>3, <2>4 DEF CallNext
<1>4. CASE GatewayRestart
  <2>1. /\ ws' = ws /\ status' = status /\ owner' = owner
        /\ lost' = lost \cup listed /\ listed' = {}
        /\ \A t \in Sockets :
             /\ up'[t] = IF t \in listed THEN <<>> ELSE up[t]
             /\ down'[t] = IF t \in listed THEN <<>> ELSE down[t]
    BY <1>4 DEF GatewayRestart, client
  <2>2. \A t \in Sockets : Attached(t)' <=> Attached(t)
    BY <2>1 DEF Attached
  <2>3. ASSUME NEW t \in Sockets PROVE Deaf(t)' /\ UpRules(t)'
    BY <2>1, <2>2, HasNone DEF Wires, Deaf, UpRules
  <2>4. ASSUME NEW e \in Clients PROVE Owned(e)' /\ Served(e)'
    <3>1. ws[e] \in Sockets \cup {None} /\ authed \subseteq listed
      BY DEF TypeOK
    <3> QED BY <2>1, <3>1 DEF Wires, Owned, Served
  <2> QED BY <2>3, <2>4 DEF Wires
<1>5. CASE UNCHANGED vars
  BY <1>5 DEF vars, client, wire, gateway, Wires, Owned, Served, Deaf, UpRules,
     Attached
<1> QED BY <1>1, <1>2, <1>3, <1>4, <1>5, <1>6 DEF Next

-----------------------------------------------------------------------------
(* A client that is connected or on its way has a socket.                  *)
Linked ==
  \A k \in Clients :
    status[k] \in {"connecting", "authenticating", "connected"} => ws[k] # None

LEMMA NextLinked == TypeOK /\ Linked /\ [Next]_vars => Linked'
<1> SUFFICES ASSUME TypeOK, Linked, [Next]_vars PROVE Linked'
  OBVIOUS
<1>1. ASSUME NEW k \in Clients, NEW next \in {"disconnected", "reconnecting"},
             Leave(k, next)
      PROVE  Linked'
  BY <1>1 DEF Leave, Linked, TypeOK
<1>2. ASSUME NEW k \in Clients, NEW s \in Sockets, DoConnect(k, s)
      PROVE  Linked'
  BY <1>2 DEF DoConnect, Linked, TypeOK
<1>3. ASSUME NEW k \in Clients, HandleOpen(k) \/ OnAuthSuccess(k)
      PROVE  Linked'
  BY <1>3 DEF HandleOpen, OnAuthSuccess, Coming, Linked, TypeOK
<1>4. ASSUME NEW k \in Clients, ClientNext(k) PROVE Linked'
  <2>1. CASE OnToolCallRequest(k)
    BY <2>1 DEF OnToolCallRequest, client, Linked
  <2> QED BY <1>1, <1>2, <1>3, <1>4, <2>1
          DEF ClientNext, Reconnect, HandleClose, HeartbeatMissed,
              OnAuthFailed, OnClose, Detach, Quit
<1>9. ASSUME NEW e \in Devices, ServiceNext(e) PROVE Linked'
  <2>1. CASE SvcConnect(e) \/ SvcDisconnect(e)
    <3>1. CASE current[e] # None
      <4>1. PICK k \in Clients : k = current[e]
        BY <3>1 DEF TypeOK
      <4> QED BY <1>1, <2>1, <3>1, <4>1 DEF SvcConnect, SvcDisconnect, Quit
    <3>2. CASE current[e] = None
      BY <2>1, <3>2 DEF SvcConnect, SvcDisconnect, Linked
    <3> QED BY <3>1, <3>2
  <2>2. ASSUME NEW k \in Clients, SvcCreate(e, k) PROVE Linked'
    BY <1>2, <2>2 DEF SvcCreate
  <2>3. CASE SvcNoToken(e)
    BY <2>3 DEF SvcNoToken, Linked
  <2> QED BY <1>9, <2>1, <2>2, <2>3 DEF ServiceNext
<1>5. CASE UNCHANGED client
  BY <1>5 DEF client, Linked
<1>6. ASSUME NEW s \in Sockets, SocketNext(s) PROVE UNCHANGED client
  BY <1>6 DEF SocketNext, HandleWebSocketUpgrade, OnAuth, AuthSucceeds,
     AuthFails, AlarmCloses, WebSocketClose, WebSocketError, Unlist,
     OnToolCallResponse, Cut
<1>7. ASSUME NEW c \in Calls, CallNext(c) PROVE UNCHANGED client
  BY <1>7 DEF CallNext, HandleToolCall, SendToolCallRequest, Timeout,
     SendToolCallResponse
<1>8. GatewayRestart \/ UNCHANGED vars => UNCHANGED client
  BY DEF GatewayRestart, vars
<1> QED BY <1>4, <1>5, <1>6, <1>7, <1>8, <1>9 DEF Next

(* The open sockets.                                                       *)
LEMMA NextOpen == TypeOK /\ OneOpenSocket /\ [Next]_vars => OneOpenSocket'
<1> SUFFICES ASSUME TypeOK, OneOpenSocket, [Next]_vars PROVE OneOpenSocket'
  OBVIOUS
<1>1. CASE owner' = owner /\ listed' \ closing' \subseteq listed \ closing
  BY <1>1 DEF OneOpenSocket, DeviceOf
<1>2. ASSUME NEW k \in Clients, NEW s \in Sockets, DoConnect(k, s),
             UNCHANGED gateway
      PROVE  OneOpenSocket'
  <2>1. s \notin listed /\ listed' = listed /\ closing' = closing
    BY <1>2 DEF DoConnect, Free, gateway
  <2>2. \A t \in listed : owner'[t] = owner[t]
    BY <1>2, <2>1 DEF DoConnect, TypeOK
  <2> QED BY <2>1, <2>2 DEF OneOpenSocket, DeviceOf
<1>3. ASSUME NEW s \in Sockets, HandleWebSocketUpgrade(s) PROVE OneOpenSocket'
  <2>1. /\ owner' = owner /\ listed' = listed \cup {s}
        /\ closing' = closing \cup {t \in listed : DeviceOf(t) = DeviceOf(s)}
    BY <1>3 DEF HandleWebSocketUpgrade
  <2> QED BY <2>1 DEF OneOpenSocket, DeviceOf
<1>4. ASSUME NEW k \in Clients, ClientNext(k) PROVE OneOpenSocket'
  <2>1. CASE Reconnect(k)
    BY <1>2, <2>1 DEF Reconnect
  <2>2. CASE ~Reconnect(k)
    BY <1>1, <1>4, <2>2
       DEF ClientNext, HandleClose, HeartbeatMissed, HandleOpen, OnAuthSuccess,
           OnAuthFailed, OnClose, OnToolCallRequest, Detach, Quit, Leave,
           gateway
  <2> QED BY <2>1, <2>2
<1>9. ASSUME NEW e \in Devices, ServiceNext(e) PROVE OneOpenSocket'
  <2>1. ASSUME NEW k \in Clients, SvcCreate(e, k) PROVE OneOpenSocket'
    BY <1>2, <2>1 DEF SvcCreate
  <2>2. CASE SvcConnect(e) \/ SvcNoToken(e) \/ SvcDisconnect(e)
    BY <1>1, <2>2 DEF SvcConnect, SvcNoToken, SvcDisconnect, Quit, Leave,
       gateway
  <2> QED BY <1>9, <2>1, <2>2 DEF ServiceNext
<1>5. ASSUME NEW s \in Sockets, SocketNext(s) PROVE OneOpenSocket'
  <2>1. CASE OnAuth(s) \/ OnToolCallResponse(s) \/ Cut(s)
    BY <1>1, <2>1 DEF OnAuth, OnToolCallResponse, Cut, gateway
  <2>2. CASE AuthSucceeds(s) \/ AuthFails(s) \/ AlarmCloses(s)
    BY <1>1, <2>2 DEF AuthSucceeds, AuthFails, AlarmCloses
  <2>3. CASE WebSocketClose(s) \/ WebSocketError(s)
    BY <1>1, <2>3 DEF WebSocketClose, WebSocketError, Unlist
  <2> QED BY <1>3, <1>5, <2>1, <2>2, <2>3 DEF SocketNext
<1>6. ASSUME NEW c \in Calls, CallNext(c) PROVE OneOpenSocket'
  BY <1>1, <1>6 DEF CallNext, HandleToolCall, SendToolCallRequest, Timeout,
     SendToolCallResponse, gateway
<1>7. CASE GatewayRestart
  BY <1>1, <1>7 DEF GatewayRestart
<1>8. CASE UNCHANGED vars
  BY <1>1, <1>8 DEF vars, gateway
<1> QED BY <1>4, <1>5, <1>6, <1>7, <1>8, <1>9 DEF Next

Inv == TypeOK /\ Wires /\ Linked /\ OneOpenSocket

LEMMA InitInv == Init => Inv
<1> SUFFICES ASSUME Init PROVE Inv
  OBVIOUS
<1>1. Linked /\ OneOpenSocket
  BY DEF Init, Linked, OneOpenSocket
<1> QED BY <1>1, InitType, InitWires DEF Inv

LEMMA NextInv == Inv /\ [Next]_vars => Inv'
BY NextType, NextWires, NextLinked, NextOpen DEF Inv

(* The sockets the gateway authenticates and closes are sockets it lists,  *)
(* and each end sends only the messages the other has a handler for.       *)
THEOREM LinkTypes == Spec => []TypeOK
BY InitType, NextType, PTL DEF Spec

(* The gateway never holds two open sockets of one device.                 *)
THEOREM OneSocketOfADevice == Spec => []OneOpenSocket
<1>1. Inv => OneOpenSocket
  BY DEF Inv
<1> QED BY <1>1, InitInv, NextInv, PTL DEF Spec

(* A client that believes it is connected is served by the gateway, or     *)
(* will be told that it is not.                                            *)
THEOREM ConnectedClientsAreServed == Spec => []ConnectedIsServed
<1>1. Inv => ConnectedIsServed
  <2> SUFFICES ASSUME Inv, NEW k \in Clients, status[k] = "connected",
                      ws[k] \notin lost
               PROVE  \/ ws[k] \in authed \ closing
                      \/ \E i \in 1 .. Len(down[ws[k]]) :
                           down[ws[k]][i].type = "close"
    BY DEF ConnectedIsServed
  <2>1. ws[k] # None /\ Served(k)
    BY DEF Inv, Linked, Wires
  <2> QED BY <2>1 DEF Served, Has
<1> QED BY <1>1, InitInv, NextInv, PTL DEF Spec
=============================================================================
