------------------------- MODULE DeviceCallProofs --------------------------
(***************************************************************************)
(* DeviceLink implements RemoteCall: whatever happens to the connections,  *)
(* a call runs once at most, an answer is the answer of its own run, and a *)
(* refused call never runs.  A request is on one connection at most and    *)
(* its tool has not run (Requests); the rest is one case per action.       *)
(***************************************************************************)
EXTENDS DeviceLinkProofs

Sure == {"waiting", "timeout", "broken"}

RequestFresh(t, i) ==
  down[t][i].type = "request" =>
    tool[down[t][i].call] = "none" /\ call[down[t][i].call] \in Sure
RequestOnce(t, i, u, j) ==
  /\ down[t][i].type = "request" /\ down[u][j].type = "request"
  /\ down[t][i].call = down[u][j].call
  => t = u /\ i = j
ResponseDone(t, i) ==
  up[t][i].type = "response" => tool[up[t][i].call] = "done"
NotRun(c) ==
  call[c] \in {"idle", "reading", "offline", "unsent"} => tool[c] = "none"

Fresh == \A t \in Sockets : \A i \in 1 .. Len(down[t]) : RequestFresh(t, i)
Once ==
  \A t, u \in Sockets :
    \A i \in 1 .. Len(down[t]), j \in 1 .. Len(down[u]) : RequestOnce(t, i, u, j)
Done == \A t \in Sockets : \A i \in 1 .. Len(up[t]) : ResponseDone(t, i)

Requests == Fresh /\ Once /\ Done /\ \A c \in Calls : NotRun(c)

LEMMA InitRequests == Init => Requests
BY DEF Init, Requests, Fresh, Once, Done, NotRun

-----------------------------------------------------------------------------
(* r has the requests of q, or those of its tail, at their places.         *)
Follows(q, r) ==
  \E off \in {0, 1} :
    \A i \in 1 .. Len(r) :
      r[i].type = "request" => i + off \in 1 .. Len(q) /\ r[i] = q[i + off]

LEMMA FollowsSame == \A q : Len(q) \in Nat => Follows(q, q)
<1> SUFFICES ASSUME NEW q, Len(q) \in Nat PROVE Follows(q, q)
  OBVIOUS
<1>1. \A i \in 1 .. Len(q) : i + 0 \in 1 .. Len(q) /\ q[i] = q[i + 0]
  OBVIOUS
<1> QED BY <1>1 DEF Follows

LEMMA FollowsNone == \A q : Follows(q, <<>>)
BY DEF Follows

LEMMA FollowsTail ==
  ASSUME NEW M, NEW q \in Seq(M), q # <<>>
  PROVE  Follows(q, Tail(q))
<1>1. /\ Len(Tail(q)) = Len(q) - 1 /\ Len(q) \in Nat
      /\ \A i \in 1 .. Len(q) - 1 : Tail(q)[i] = q[i + 1]
  OBVIOUS
<1>2. \A i \in 1 .. Len(Tail(q)) : i + 1 \in 1 .. Len(q) /\ Tail(q)[i] = q[i + 1]
  BY <1>1
<1> QED BY <1>2 DEF Follows

LEMMA FollowsAppend ==
  ASSUME NEW M, NEW q \in Seq(M), NEW r \in Seq(M), Follows(q, r), NEW m \in M,
         m.type # "request"
  PROVE  Follows(q, Append(r, m))
<1>1. /\ Len(Append(r, m)) = Len(r) + 1 /\ Len(r) \in Nat
      /\ \A i \in 1 .. Len(r) : Append(r, m)[i] = r[i]
      /\ Append(r, m)[Len(r) + 1] = m
  OBVIOUS
<1>2. PICK off \in {0, 1} :
        \A i \in 1 .. Len(r) :
          r[i].type = "request" => i + off \in 1 .. Len(q) /\ r[i] = q[i + off]
  BY DEF Follows
<1>3. ASSUME NEW i \in 1 .. Len(Append(r, m)), Append(r, m)[i].type = "request"
      PROVE  i + off \in 1 .. Len(q) /\ Append(r, m)[i] = q[i + off]
  <2>1. i \in 1 .. Len(r)
    BY <1>1, <1>3
  <2> QED BY <1>1, <1>2, <1>3, <2>1
<1> QED BY <1>3 DEF Follows

LEMMA FollowsTold ==
  ASSUME NEW q \in Ends(Downward), NEW r \in Ends(Downward), NEW s \in Sockets,
         NEW m \in Downward, m.type # "request", NEW t \in Sockets,
         Follows(q[t], r[t])
  PROVE  Follows(q[t], Told(r, s, m)[t])
<1>1. q[t] \in Seq(Downward) /\ r[t] \in Seq(Downward)
  BY DEF Ends
<1>2. Follows(q[t], Append(r[t], m))
  BY <1>1, FollowsAppend
<1>3. Told(r, s, m)[t] = r[t] \/ Told(r, s, m)[t] = Append(r[t], m)
  <2>1. /\ t # s => Told(r, s, m)[t] = r[t]
        /\ Told(r, s, m)[s] = IF Attached(s) /\ s \notin lost
                               THEN Append(r[s], m) ELSE r[s]
    BY ToldType
  <2> QED BY <2>1
<1> QED BY <1>2, <1>3

LEMMA FollowsRefused ==
  ASSUME TypeOK, NEW s \in Sockets, NEW t \in Sockets
  PROVE  Follows(down[t], Refused(down, s)[t])
<1>0. /\ down \in Ends(Downward) /\ Len(down[t]) \in Nat
      /\ Msg("auth_failed") \in Downward /\ Msg("auth_failed").type # "request"
      /\ Msg("close") \in Downward /\ Msg("close").type # "request"
  BY Messages DEF TypeOK, Ends
<1>1. /\ Told(down, s, Msg("auth_failed")) \in Ends(Downward)
      /\ Follows(down[t], Told(down, s, Msg("auth_failed"))[t])
  BY <1>0, FollowsSame, FollowsTold, ToldType
<1> QED BY <1>0, <1>1, FollowsTold DEF Refused

(* Only the second half of handleToolCall puts a request on a connection.  *)
LEMMA DownFollows ==
  ASSUME TypeOK, [Next]_vars, NEW t \in Sockets,
         ~\E c \in Calls : SendToolCallRequest(c)
  PROVE  Follows(down[t], down'[t])
<1>0. /\ down \in Ends(Downward) /\ Len(down[t]) \in Nat
      /\ down[t] \in Seq(Downward)
      /\ \A y \in {"open", "auth_success", "close"} :
           Msg(y) \in Downward /\ Msg(y).type # "request"
  BY Messages DEF TypeOK, Ends
<1>1. Follows(down[t], down[t]) /\ Follows(down[t], <<>>)
  BY <1>0, FollowsSame, FollowsNone
<1>2. ASSUME NEW k \in Clients PROVE Follows(down[t], DownWithoutClient(k)[t])
  BY <1>0, <1>1 DEF DownWithoutClient, Ends
<1>3. ASSUME NEW k \in Clients, NEW type, Coming(k, type), Received(k)
      PROVE  Follows(down[t], down'[t])
  <2>1. ws[k] \in Sockets /\ down[ws[k]] # <<>>
    BY <1>3 DEF Coming, TypeOK
  <2>2. CASE t = ws[k]
    BY <1>0, <1>3, <2>1, <2>2, FollowsTail DEF Received, Ends
  <2>3. CASE t # ws[k]
    BY <1>0, <1>1, <1>3, <2>1, <2>3 DEF Received, Ends
  <2> QED BY <2>2, <2>3
<1>9. ASSUME NEW e \in Devices, ServiceNext(e) PROVE Follows(down[t], down'[t])
  <2>1. CASE SvcConnect(e) \/ SvcDisconnect(e)
    <3>1. CASE current[e] # None
      <4>1. PICK k \in Clients : k = current[e]
        BY <3>1 DEF TypeOK
      <4> QED BY <1>2, <2>1, <3>1, <4>1
              DEF SvcConnect, SvcDisconnect, Quit, Leave
    <3>2. CASE current[e] = None
      BY <1>1, <2>1, <3>2 DEF SvcConnect, SvcDisconnect, wire
    <3> QED BY <3>1, <3>2
  <2>2. ASSUME NEW k \in Clients, SvcCreate(e, k)
        PROVE  Follows(down[t], down'[t])
    BY <1>2, <2>2 DEF SvcCreate, DoConnect
  <2>3. CASE SvcNoToken(e)
    BY <1>1, <2>3 DEF SvcNoToken, wire
  <2> QED BY <1>9, <2>1, <2>2, <2>3 DEF ServiceNext
<1>4. ASSUME NEW k \in Clients, ClientNext(k) PROVE Follows(down[t], down'[t])
  <2>1. CASE Reconnect(k)
    BY <1>2, <2>1 DEF Reconnect, DoConnect
  <2>2. CASE \/ HandleClose(k) \/ HeartbeatMissed(k)
             \/ OnAuthFailed(k) \/ OnClose(k)
    BY <1>2, <2>2
       DEF HandleClose, HeartbeatMissed, OnAuthFailed, OnClose,
           Detach, Quit, Leave
  <2>3. CASE HandleOpen(k) \/ OnAuthSuccess(k) \/ OnToolCallRequest(k)
    BY <1>3, <2>3 DEF HandleOpen, OnAuthSuccess, OnToolCallRequest
  <2> QED BY <1>4, <2>1, <2>2, <2>3 DEF ClientNext
<1>5. ASSUME NEW s \in Sockets, SocketNext(s) PROVE Follows(down[t], down'[t])
  <2>1. CASE HandleWebSocketUpgrade(s)
    <3>1. /\ Follows(down[t], Told(down, s, Msg("open"))[t])
          /\ Follows(down[t], Told(down, t, Msg("close"))[t])
      BY <1>0, <1>1, FollowsTold
    <3> QED BY <1>1, <2>1, <3>1 DEF HandleWebSocketUpgrade
  <2>2. CASE \/ OnAuth(s) \/ OnToolCallResponse(s) \/ WebSocketClose(s)
             \/ WebSocketError(s)
    BY <1>1, <2>2 DEF OnAuth, OnToolCallResponse, WebSocketClose,
       WebSocketError, Unlist
  <2>3. CASE AuthSucceeds(s)
    <3>1. Follows(down[t], Told(down, s, Msg("auth_success"))[t])
      BY <1>0, <1>1, FollowsTold
    <3> QED BY <1>1, <2>3, <3>1 DEF AuthSucceeds
  <2>4. CASE AuthFails(s)
    BY <1>1, <2>4, FollowsRefused DEF AuthFails
  <2>5. CASE AlarmCloses(s)
    <3>1. Follows(down[t], Told(down, s, Msg("close"))[t])
      BY <1>0, <1>1, FollowsTold
    <3> QED BY <2>5, <3>1, FollowsRefused DEF AlarmCloses
  <2>6. CASE Cut(s)
    BY <1>0, <1>1, <2>6 DEF Cut, Ends
  <2> QED BY <1>5, <2>1, <2>2, <2>3, <2>4, <2>5, <2>6 DEF SocketNext
<1>6. ASSUME NEW c \in Calls, CallNext(c) PROVE Follows(down[t], down'[t])
  BY <1>1, <1>6 DEF CallNext, HandleToolCall, Timeout, SendToolCallResponse, wire
<1>7. CASE GatewayRestart
  BY <1>1, <1>7 DEF GatewayRestart
<1>8. CASE UNCHANGED vars
  BY <1>1, <1>8 DEF vars, wire
<1> QED BY <1>4, <1>5, <1>6, <1>7, <1>8, <1>9 DEF Next

-----------------------------------------------------------------------------
(* A response on its way up.                                               *)
Carries(q, c) ==
  \E i \in 1 .. Len(q) : q[i].type = "response" /\ q[i].call = c

LEMMA CarriesAppend ==
  ASSUME NEW M, NEW q \in Seq(M), NEW m \in M, NEW c
  PROVE  Carries(Append(q, m), c) =>
           Carries(q, c) \/ (m.type = "response" /\ m.call = c)
<1>1. /\ Len(Append(q, m)) = Len(q) + 1 /\ Len(q) \in Nat
      /\ \A i \in 1 .. Len(q) : Append(q, m)[i] = q[i]
      /\ Append(q, m)[Len(q) + 1] = m
  OBVIOUS
<1>2. ASSUME NEW i \in 1 .. Len(Append(q, m)),
             Append(q, m)[i].type = "response", Append(q, m)[i].call = c
      PROVE  Carries(q, c) \/ (m.type = "response" /\ m.call = c)
  <2>1. i \in 1 .. Len(q) \/ i = Len(q) + 1
    BY <1>1, <1>2
  <2> QED BY <1>1, <1>2, <2>1 DEF Carries
<1> QED BY <1>2 DEF Carries

LEMMA CarriesTail ==
  ASSUME NEW M, NEW q \in Seq(M), q # <<>>, NEW c
  PROVE  /\ Carries(Tail(q), c) => Carries(q, c)
         /\ Head(q).type = "response" => Carries(q, Head(q).call)
<1>1. /\ Len(Tail(q)) = Len(q) - 1 /\ Len(q) \in Nat \ {0}
      /\ \A i \in 1 .. Len(q) - 1 : Tail(q)[i] = q[i + 1]
      /\ Head(q) = q[1] /\ 1 \in 1 .. Len(q)
  OBVIOUS
<1>2. ASSUME NEW i \in 1 .. Len(Tail(q)),
             Tail(q)[i].type = "response", Tail(q)[i].call = c
      PROVE  Carries(q, c)
  <2>1. i + 1 \in 1 .. Len(q) /\ q[i + 1] = Tail(q)[i]
    BY <1>1, <1>2
  <2> QED BY <1>2, <2>1 DEF Carries
<1> QED BY <1>1, <1>2 DEF Carries

(* Only the end of a tool puts a response on a connection.                 *)
LEMMA UpCarries ==
  ASSUME TypeOK, [Next]_vars, NEW t \in Sockets, NEW c \in Calls,
         Carries(up'[t], c), ~Carries(up[t], c)
  PROVE  SendToolCallResponse(c)
<1> SUFFICES ASSUME ~SendToolCallResponse(c) PROVE FALSE
  OBVIOUS
<1>0. /\ up \in Ends(Upward) /\ up[t] \in Seq(Upward)
      /\ \A y \in {"upgrade", "auth", "close"} :
           Msg(y) \in Upward /\ Msg(y).type # "response"
      /\ \A e \in Calls : /\ MsgOf("response", e) \in Upward
                          /\ MsgOf("response", e).call = e
  BY Messages DEF TypeOK, Ends
<1>1. up'[t] # up[t] /\ up'[t] # <<>>
  BY DEF Carries
<1>2. ASSUME NEW s, NEW m \in Upward, m.type # "response" \/ m.call # c
      PROVE  up'[t] # Sent(up, s, m)[t]
  <2>1. Sent(up, s, m)[t] = up[t] \/ Sent(up, s, m)[t] = Append(up[t], m)
    <3>1. /\ t # s => Sent(up, s, m)[t] = up[t]
          /\ t = s => Sent(up, s, m)[t] = IF t \in lost THEN up[t]
                                          ELSE Append(up[t], m)
      BY <1>0, SentType
    <3> QED BY <3>1
  <2>2. Carries(Append(up[t], m), c) =>
          Carries(up[t], c) \/ (m.type = "response" /\ m.call = c)
    BY <1>0, CarriesAppend
  <2> QED BY <1>2, <2>1, <2>2
<1>3. ASSUME NEW k \in Clients PROVE up'[t] # UpWithoutClient(k)[t]
  BY <1>0, <1>1, <1>2 DEF UpWithoutClient
<1>4. ASSUME NEW s \in Sockets, Taken(s), up[s] # <<>> PROVE FALSE
  <2>1. CASE s = t
    BY <1>0, <1>4, <2>1, CarriesTail DEF Taken, Ends
  <2>2. CASE s # t
    BY <1>0, <1>1, <1>4, <2>2 DEF Taken, Ends
  <2> QED BY <2>1, <2>2
<1>10. ASSUME NEW k \in Clients, NEW s \in Sockets, DoConnect(k, s)
       PROVE  FALSE
  <2>1. CASE s = t
    <3>1. up'[t] = <<Msg("upgrade")>>
      BY <1>0, <1>10, <2>1, WithoutClient DEF DoConnect, Ends
    <3>2. /\ Len(up'[t]) = 1 /\ up'[t][1] = Msg("upgrade")
      BY <3>1
    <3> QED BY <1>0, <3>2 DEF Carries
  <2>2. CASE s # t
    <3>1. up'[t] = UpWithoutClient(k)[t]
      BY <1>10, <2>2, WithoutClient DEF DoConnect, Ends
    <3> QED BY <1>3, <3>1
  <2> QED BY <2>1, <2>2
<1>11. ASSUME NEW e \in Devices, ServiceNext(e) PROVE FALSE
  <2>1. CASE SvcConnect(e) \/ SvcDisconnect(e)
    <3>1. CASE current[e] # None
      <4>1. PICK k \in Clients : k = current[e]
        BY <3>1 DEF TypeOK
      <4> QED BY <1>3, <2>1, <3>1, <4>1
              DEF SvcConnect, SvcDisconnect, Quit, Leave
    <3>2. CASE current[e] = None
      BY <1>1, <2>1, <3>2 DEF SvcConnect, SvcDisconnect, wire
    <3> QED BY <3>1, <3>2
  <2>2. ASSUME NEW k \in Clients, SvcCreate(e, k) PROVE FALSE
    BY <1>10, <2>2 DEF SvcCreate
  <2>3. CASE SvcNoToken(e)
    BY <1>1, <2>3 DEF SvcNoToken, wire
  <2> QED BY <1>11, <2>1, <2>2, <2>3 DEF ServiceNext
<1>5. ASSUME NEW k \in Clients, ClientNext(k) PROVE FALSE
  <2>1. CASE Reconnect(k)
    BY <1>10, <2>1 DEF Reconnect
  <2>2. CASE \/ HandleClose(k) \/ HeartbeatMissed(k)
             \/ OnAuthFailed(k) \/ OnClose(k)
    BY <1>3, <2>2
       DEF HandleClose, HeartbeatMissed, OnAuthFailed, OnClose, Detach, Quit,
           Leave
  <2>3. CASE HandleOpen(k)
    BY <1>0, <1>2, <2>3 DEF HandleOpen
  <2>4. CASE OnAuthSuccess(k) \/ OnToolCallRequest(k)
    BY <1>1, <2>4 DEF OnAuthSuccess, OnToolCallRequest
  <2> QED BY <1>5, <2>1, <2>2, <2>3, <2>4 DEF ClientNext
<1>6. ASSUME NEW s \in Sockets, SocketNext(s) PROVE FALSE
  <2>1. CASE \/ HandleWebSocketUpgrade(s) \/ OnAuth(s) \/ OnToolCallResponse(s)
             \/ WebSocketClose(s)
    BY <1>4, <2>1 DEF HandleWebSocketUpgrade, OnAuth, OnToolCallResponse,
       WebSocketClose, Arrived
  <2>2. CASE AuthSucceeds(s) \/ AuthFails(s) \/ AlarmCloses(s)
    BY <1>1, <2>2 DEF AuthSucceeds, AuthFails, AlarmCloses
  <2>3. CASE WebSocketError(s)
    BY <1>1, <2>3 DEF WebSocketError
  <2>4. CASE Cut(s)
    BY <1>0, <1>1, <2>4 DEF Cut, Ends
  <2> QED BY <1>6, <2>1, <2>2, <2>3, <2>4 DEF SocketNext
<1>7. ASSUME NEW e \in Calls, CallNext(e) PROVE FALSE
  <2>1. CASE SendToolCallResponse(e)
    <3>1. e # c
      BY <2>1
    <3> QED BY <1>0, <1>1, <1>2, <2>1, <3>1 DEF SendToolCallResponse
  <2>2. CASE HandleToolCall(e) \/ SendToolCallRequest(e) \/ Timeout(e)
    BY <1>1, <2>2 DEF HandleToolCall, SendToolCallRequest, Timeout, wire
  <2> QED BY <1>7, <2>1, <2>2 DEF CallNext
<1>8. CASE GatewayRestart
  BY <1>1, <1>8 DEF GatewayRestart
<1>9. CASE UNCHANGED vars
  BY <1>1, <1>9 DEF vars, wire
<1> QED BY <1>5, <1>6, <1>7, <1>8, <1>9, <1>11 DEF Next

-----------------------------------------------------------------------------
(* What a step other than the arrival of a request does to one call.       *)
CallStep(c) ==
  /\ tool[c] = "none" <=> tool'[c] = "none"
  /\ tool[c] = "done" => tool'[c] = "done"
  /\ call[c] \in Sure /\ tool[c] = "none" => call'[c] \in Sure
  /\ call'[c] \in {"idle", "reading", "offline", "unsent"} =>
       call[c] \in {"idle", "reading", "offline", "unsent"}

LEMMA CarriesDone ==
  ASSUME TypeOK, Requests, NEW t \in Sockets, NEW c, Carries(up[t], c)
  PROVE  tool[c] = "done"
BY DEF Carries, Requests, Done, ResponseDone

LEMMA NextCallStep ==
  ASSUME TypeOK, Requests, [Next]_vars, NEW c \in Calls,
         ~\E k \in Clients : OnToolCallRequest(k)
  PROVE  CallStep(c)
<1>1. CASE tool' = tool /\ call' = call
  BY <1>1 DEF CallStep
<1>2. ASSUME NEW k, tool' = Orphans(k), UNCHANGED requests
      PROVE  CallStep(c)
  BY <1>2 DEF CallStep, Orphans, requests
<1>8. ASSUME NEW e \in Devices, ServiceNext(e) PROVE CallStep(c)
  <2>1. UNCHANGED requests /\ (tool' = tool \/ tool' = Orphans(current[e]))
    BY <1>8 DEF ServiceNext, SvcConnect, SvcCreate, SvcNoToken, SvcDisconnect,
       Quit, tools
  <2> QED BY <1>1, <1>2, <2>1 DEF requests
<1>3. ASSUME NEW k \in Clients, ClientNext(k) PROVE CallStep(c)
  <2>1. CASE OnAuthFailed(k)
    BY <1>2, <2>1 DEF OnAuthFailed, Quit
  <2>2. CASE ~OnAuthFailed(k)
    BY <1>1, <1>3, <2>2
       DEF ClientNext, Reconnect, HandleClose, HeartbeatMissed, HandleOpen,
           OnAuthSuccess, OnClose, requests, tools
  <2> QED BY <2>1, <2>2
<1>4. ASSUME NEW s \in Sockets, SocketNext(s) PROVE CallStep(c)
  <2>1. CASE OnToolCallResponse(s)
    <3> DEFINE e == Head(up[s]).call
    <3>1. tool' = tool
      BY <2>1 DEF OnToolCallResponse, tools
    <3>2. call' = call \/ call' = [call EXCEPT ![e] =
                                     IF @ = "waiting" THEN "answered" ELSE @]
      BY <2>1 DEF OnToolCallResponse
    <3>3. tool[e] = "done"
      <4>1. up[s] \in Seq(Upward) /\ up[s] # <<>> /\ Head(up[s]).type = "response"
        BY <2>1 DEF OnToolCallResponse, Arrived, TypeOK
      <4>2. Carries(up[s], e)
        BY <4>1, CarriesTail
      <4> QED BY <4>2, CarriesDone
    <3> HIDE DEF e
    <3>4. c # e => call'[c] = call[c]
      BY <3>2 DEF TypeOK
    <3>5. c = e => call'[c] = call[c] \/ (call[c] = "waiting" /\ call'[c] = "answered")
      BY <3>2 DEF TypeOK
    <3> QED BY <3>1, <3>3, <3>4, <3>5 DEF CallStep
  <2>2. CASE ~OnToolCallResponse(s)
    <3>1. tool' = tool /\ call' = call
      BY <1>4, <2>2
         DEF SocketNext, HandleWebSocketUpgrade, OnAuth, AuthSucceeds,
             AuthFails, AlarmCloses, WebSocketClose, WebSocketError, Unlist,
             Cut, requests, tools
    <3> QED BY <1>1, <3>1
  <2> QED BY <2>1, <2>2
<1>5. ASSUME NEW e \in Calls, CallNext(e) PROVE CallStep(c)
  <2>1. CASE HandleToolCall(e)
    BY <2>1 DEF HandleToolCall, CallStep, tools, TypeOK, Sure
  <2>2. CASE SendToolCallRequest(e)
    BY <2>2 DEF SendToolCallRequest, CallStep, tools, TypeOK, Sure
  <2>3. CASE Timeout(e)
    BY <2>3 DEF Timeout, CallStep, tools, TypeOK, Sure
  <2>4. CASE SendToolCallResponse(e)
    BY <2>4 DEF SendToolCallResponse, CallStep, TypeOK, requests
  <2> QED BY <1>5, <2>1, <2>2, <2>3, <2>4 DEF CallNext
<1>6. CASE GatewayRestart
  BY <1>6 DEF GatewayRestart, CallStep, tools, TypeOK, Sure
<1>7. CASE UNCHANGED vars
  BY <1>1, <1>7 DEF vars, requests, tools
<1> QED BY <1>3, <1>4, <1>5, <1>6, <1>7, <1>8 DEF Next

(* Requests, once no request is new and none arrives.                      *)
LEMMA KeepsRequests ==
  ASSUME TypeOK, TypeOK', Requests, [Next]_vars,
         \A t \in Sockets : Follows(down[t], down'[t]),
         \A c \in Calls : CallStep(c)
  PROVE  Requests'
<1>1. ASSUME NEW t \in Sockets, NEW i \in 1 .. Len(down'[t])
      PROVE  RequestFresh(t, i)'
  <2>1. PICK off \in {0, 1} :
          \A k \in 1 .. Len(down'[t]) :
            down'[t][k].type = "request" =>
              k + off \in 1 .. Len(down[t]) /\ down'[t][k] = down[t][k + off]
    BY DEF Follows
  <2>2. CASE down'[t][i].type = "request"
    <3> DEFINE c == down'[t][i].call
    <3>1. down'[t][i] \in Downward
      BY DEF TypeOK
    <3>2. c \in Calls
      BY <2>2, <3>1, Messages
    <3>3. RequestFresh(t, i + off) /\ down'[t][i] = down[t][i + off]
      BY <2>1, <2>2 DEF Requests, Fresh
    <3> QED BY <2>2, <3>2, <3>3 DEF RequestFresh, CallStep
  <2>3. CASE down'[t][i].type # "request"
    BY <2>3 DEF RequestFresh
  <2> QED BY <2>2, <2>3
<1>2. ASSUME NEW t \in Sockets, NEW u \in Sockets,
             NEW i \in 1 .. Len(down'[t]), NEW j \in 1 .. Len(down'[u]),
             down'[t][i].type = "request", down'[u][j].type = "request",
             down'[t][i].call = down'[u][j].call
      PROVE  t = u /\ i = j
  <2>1. PICK f \in {0, 1} :
          \A k \in 1 .. Len(down'[t]) :
            down'[t][k].type = "request" =>
              k + f \in 1 .. Len(down[t]) /\ down'[t][k] = down[t][k + f]
    BY DEF Follows
  <2>2. PICK g \in {0, 1} :
          \A k \in 1 .. Len(down'[u]) :
            down'[u][k].type = "request" =>
              k + g \in 1 .. Len(down[u]) /\ down'[u][k] = down[u][k + g]
    BY DEF Follows
  <2>3. /\ i + f \in 1 .. Len(down[t]) /\ down'[t][i] = down[t][i + f]
        /\ j + g \in 1 .. Len(down[u]) /\ down'[u][j] = down[u][j + g]
    BY <1>2, <2>1, <2>2
  <2>4. t = u /\ i + f = j + g
    BY <1>2, <2>3 DEF Requests, Once, RequestOnce
  <2>5. ASSUME i # j PROVE FALSE
    <3>1. i + g \in 1 .. Len(down[t]) \/ j + f \in 1 .. Len(down[t])
      BY <2>3, <2>4, <2>5
    <3>2. down'[t][i] = down[t][i + f] /\ down'[t][j] = down[t][j + f]
      BY <1>2, <2>1, <2>4
    <3>3. j + f \in 1 .. Len(down[t])
      BY <1>2, <2>1, <2>4
    <3>4. i + f = j + f
      BY <1>2, <2>3, <2>4, <3>2, <3>3 DEF Requests, Once, RequestOnce
    <3>5. i \in Int /\ j \in Int /\ f \in Int
      OBVIOUS
    <3> QED BY <2>5, <3>4, <3>5
  <2> QED BY <2>4, <2>5
<1>3. ASSUME NEW t \in Sockets, NEW i \in 1 .. Len(up'[t]),
             up'[t][i].type = "response"
      PROVE  tool'[up'[t][i].call] = "done"
  <2> DEFINE c == up'[t][i].call
  <2>1. up'[t][i] \in Upward
    BY DEF TypeOK
  <2>2. c \in Calls
    BY <1>3, <2>1, Messages
  <2>3. Carries(up'[t], c)
    BY <1>3 DEF Carries
  <2>4. CASE Carries(up[t], c)
    BY <2>2, <2>4, CarriesDone DEF CallStep
  <2>5. CASE ~Carries(up[t], c)
    <3>1. SendToolCallResponse(c)
      BY <2>2, <2>3, <2>5, UpCarries
    <3> QED BY <2>2, <3>1 DEF SendToolCallResponse, TypeOK
  <2> QED BY <2>4, <2>5
<1>4. ASSUME NEW c \in Calls PROVE NotRun(c)'
  BY DEF Requests, NotRun, CallStep
<1>5. Fresh' /\ Once' /\ Done'
  BY <1>1, <1>2, <1>3 DEF Fresh, Once, Done, RequestOnce, ResponseDone
<1> QED BY <1>4, <1>5 DEF Requests

(* A request arrives: it was the only one of its call.                     *)
LEMMA ArrivalRequests ==
  ASSUME TypeOK, TypeOK', Requests, NEW cl \in Clients, OnToolCallRequest(cl)
  PROVE  Requests'
<1> DEFINE s == ws[cl]
           c0 == Head(down[s]).call
           off(t) == IF t = s THEN 1 ELSE 0
<1>0. /\ s \in Sockets /\ down[s] # <<>> /\ Head(down[s]).type = "request"
      /\ up' = up /\ call' = call /\ tool' = [tool EXCEPT ![c0] = "running"]
      /\ \A t \in Sockets : down'[t] = IF t = s THEN Tail(down[t]) ELSE down[t]
      /\ \A t \in Sockets : down[t] \in Seq(Downward)
  BY DEF OnToolCallRequest, Coming, Received, requests, TypeOK
<1>1. \A t \in Sockets : \A i \in 1 .. Len(down'[t]) :
        /\ i + off(t) \in 1 .. Len(down[t]) /\ down'[t][i] = down[t][i + off(t)]
        /\ t = s => i + off(t) # 1
  <2>1. ASSUME NEW i \in 1 .. Len(Tail(down[s]))
        PROVE  i + 1 \in 1 .. Len(down[s]) /\ Tail(down[s])[i] = down[s][i + 1]
    <3>1. down[s] \in Seq(Downward) /\ down[s] # <<>>
      BY <1>0
    <3>2. Len(Tail(down[s])) = Len(down[s]) - 1 /\ Len(down[s]) \in Nat \ {0}
      BY <3>1
    <3> QED BY <3>1, <3>2
  <2>2. ASSUME NEW t \in Sockets, NEW i \in 1 .. Len(down'[t])
        PROVE  /\ i + off(t) \in 1 .. Len(down[t])
               /\ down'[t][i] = down[t][i + off(t)]
               /\ t = s => i + off(t) # 1
    <3>1. CASE t = s
      <4>1. down'[t] = Tail(down[s]) /\ off(t) = 1
        BY <1>0, <3>1
      <4>2. i \in 1 .. Len(Tail(down[s])) /\ i # 0 /\ i + 1 # 1
        BY <4>1
      <4>3. i + 1 \in 1 .. Len(down[s]) /\ Tail(down[s])[i] = down[s][i + 1]
        BY <2>1, <4>2
      <4> HIDE DEF off, s
      <4> QED BY <3>1, <4>1, <4>2, <4>3
    <3>2. CASE t # s
      <4>1. /\ down'[t] = down[t] /\ off(t) = 0 /\ i + 0 = i
            /\ i \in 1 .. Len(down[t])
        BY <1>0, <2>2, <3>2
      <4> QED BY <3>2, <4>1
    <3> QED BY <3>1, <3>2
  <2> QED BY <2>2
<1>2. /\ 1 \in 1 .. Len(down[s]) /\ down[s][1] = Head(down[s])
      /\ tool[c0] = "none" /\ call[c0] \in Sure /\ c0 \in Calls
  <2>1. 1 \in 1 .. Len(down[s]) /\ down[s][1] = Head(down[s])
    BY <1>0
  <2>2. RequestFresh(s, 1)
    BY <1>0, <2>1 DEF Requests, Fresh
  <2>3. Head(down[s]) \in Downward
    BY <1>0
  <2> QED BY <1>0, <2>1, <2>2, <2>3, Messages DEF RequestFresh
<1> HIDE DEF c0, off
<1>3. ASSUME NEW t \in Sockets, NEW i \in 1 .. Len(down'[t]),
             down'[t][i].type = "request"
      PROVE  down'[t][i].call # c0 /\ RequestFresh(t, i)'
  <2> DEFINE k == i + off(t)
  <2>1. /\ k \in 1 .. Len(down[t]) /\ down'[t][i] = down[t][k]
        /\ ~(t = s /\ k = 1)
    BY <1>1
  <2>2. RequestOnce(t, k, s, 1) /\ RequestFresh(t, k)
    BY <1>0, <1>2, <2>1 DEF Requests, Once, Fresh
  <2>3. down[t][k].call # c0
    BY <1>0, <1>2, <1>3, <2>1, <2>2 DEF RequestOnce, c0
  <2> QED BY <1>0, <1>3, <2>1, <2>2, <2>3 DEF RequestFresh, TypeOK
<1>4. Fresh'
  BY <1>3 DEF Fresh, RequestFresh
<1>5. ASSUME NEW t \in Sockets, NEW u \in Sockets,
             NEW i \in 1 .. Len(down'[t]), NEW j \in 1 .. Len(down'[u])
      PROVE  RequestOnce(t, i, u, j)'
  <2> DEFINE k == i + off(t)
             l == j + off(u)
  <2>1. /\ k \in 1 .. Len(down[t]) /\ down'[t][i] = down[t][k]
        /\ l \in 1 .. Len(down[u]) /\ down'[u][j] = down[u][l]
    BY <1>1
  <2>2. t = u /\ k = l => i = j
    BY DEF off
  <2> HIDE DEF k, l
  <2>3. RequestOnce(t, k, u, l)
    BY <2>1 DEF Requests, Once
  <2> QED BY <2>1, <2>2, <2>3 DEF RequestOnce
<1>6. Done'
  <2> SUFFICES ASSUME NEW t \in Sockets, NEW i \in 1 .. Len(up[t]),
                      up[t][i].type = "response"
               PROVE  tool'[up[t][i].call] = "done"
    BY <1>0 DEF Done, ResponseDone
  <2>1. tool[up[t][i].call] = "done"
    BY DEF Requests, Done, ResponseDone
  <2>2. up[t][i].call # c0
    BY <1>2, <2>1
  <2>3. up[t][i] \in Upward
    BY DEF TypeOK
  <2>4. up[t][i].call \in Calls
    BY <2>3, Messages
  <2> QED BY <1>0, <2>1, <2>2, <2>4 DEF TypeOK
<1>7. ASSUME NEW c \in Calls PROVE NotRun(c)'
  BY <1>0, <1>2 DEF Requests, NotRun, Sure, TypeOK
<1> QED BY <1>4, <1>5, <1>6, <1>7 DEF Requests, Once

(* A request is sent: there was none of its call.                          *)
LEMMA SendingRequests ==
  ASSUME TypeOK, TypeOK', Requests, [Next]_vars, NEW c \in Calls,
         SendToolCallRequest(c)
  PROVE  Requests'
<1>0. /\ \A t \in Sockets : down[t] \in Seq(Downward) /\ Len(down[t]) \in Nat
      /\ down \in Ends(Downward)
  BY DEF TypeOK, Ends
<1>1. CASE down' = down
  <2>1. \A e \in Calls : CallStep(e)
    BY DEF SendToolCallRequest, tools, CallStep, TypeOK, Sure
  <2> QED BY <1>0, <1>1, <2>1, FollowsSame, KeepsRequests
<1>2. CASE down' # down
  <2> DEFINE s == aim[c]
             m == MsgOf("request", c)
  <2>1. /\ s \in Sockets /\ call[c] = "reading"
        /\ call' = [call EXCEPT ![c] = "waiting"]
        /\ down' = Told(down, s, m) /\ up' = up /\ tool' = tool
    BY <1>2 DEF SendToolCallRequest, tools, TypeOK
  <2>2. m \in Downward /\ m.type = "request" /\ m.call = c
    BY Messages
  <2> HIDE DEF m, s
  <2>3. \A t \in Sockets :
          /\ t # s => down'[t] = down[t]
          /\ t = s => down'[t] = down[t] \/ down'[t] = Append(down[t], m)
    <3>1. /\ \A t \in Sockets : t # s => Told(down, s, m)[t] = down[t]
          /\ Told(down, s, m)[s] = IF Attached(s) /\ s \notin lost
                                    THEN Append(down[s], m) ELSE down[s]
      BY <1>0, <2>1, <2>2, ToldType
    <3> QED BY <2>1, <3>1
  <2>4. \A t \in Sockets : \A i \in 1 .. Len(down'[t]) :
          \/ i \in 1 .. Len(down[t]) /\ down'[t][i] = down[t][i]
          \/ t = s /\ i = Len(down[t]) + 1 /\ down'[t][i] = m
    <3>1. \A q \in Seq(Downward) :
            /\ Len(Append(q, m)) = Len(q) + 1 /\ Len(q) \in Nat
            /\ \A i \in 1 .. Len(q) : Append(q, m)[i] = q[i]
            /\ Append(q, m)[Len(q) + 1] = m
      BY <2>2
    <3> QED BY <1>0, <2>3, <3>1
  <2>5. tool[c] = "none"
    BY <2>1 DEF Requests, NotRun
  <2>6. \A t \in Sockets : \A i \in 1 .. Len(down[t]) :
          down[t][i].type = "request" => down[t][i].call # c
    BY <2>1 DEF Requests, Fresh, RequestFresh, Sure
  <2>7. ASSUME NEW t \in Sockets, NEW i \in 1 .. Len(down'[t]),
               down'[t][i].type = "request"
        PROVE  RequestFresh(t, i)'
    <3>1. CASE i \in 1 .. Len(down[t]) /\ down'[t][i] = down[t][i]
      <4>1. RequestFresh(t, i) /\ down[t][i].call # c
        BY <2>6, <2>7, <3>1 DEF Requests, Fresh
      <4> QED BY <2>1, <2>7, <3>1, <4>1 DEF RequestFresh, TypeOK
    <3>2. CASE down'[t][i] = m
      BY <2>1, <2>2, <2>5, <3>2 DEF RequestFresh, Sure, TypeOK
    <3> QED BY <2>4, <3>1, <3>2
  <2>8. ASSUME NEW t \in Sockets, NEW u \in Sockets,
               NEW i \in 1 .. Len(down'[t]), NEW j \in 1 .. Len(down'[u])
        PROVE  RequestOnce(t, i, u, j)'
    <3>1. CASE /\ i \in 1 .. Len(down[t]) /\ down'[t][i] = down[t][i]
               /\ j \in 1 .. Len(down[u]) /\ down'[u][j] = down[u][j]
      BY <3>1 DEF Requests, Once, RequestOnce
    <3>2. CASE /\ i \in 1 .. Len(down[t]) /\ down'[t][i] = down[t][i]
               /\ down'[u][j] = m
      BY <2>2, <2>6, <3>2 DEF RequestOnce
    <3>3. CASE /\ j \in 1 .. Len(down[u]) /\ down'[u][j] = down[u][j]
               /\ down'[t][i] = m
      BY <2>2, <2>6, <3>3 DEF RequestOnce
    <3>4. CASE /\ t = s /\ i = Len(down[t]) + 1 /\ u = s /\ j = Len(down[u]) + 1
      BY <3>4 DEF RequestOnce
    <3> QED BY <2>4, <3>1, <3>2, <3>3, <3>4
  <2>9. Fresh' /\ Once'
    BY <2>7, <2>8 DEF Fresh, RequestFresh, Once
  <2>10. Done'
    BY <2>1 DEF Requests, Done, ResponseDone
  <2>11. \A e \in Calls : NotRun(e)'
    BY <2>1 DEF Requests, NotRun, TypeOK
  <2> QED BY <2>9, <2>10, <2>11 DEF Requests
<1> QED BY <1>1, <1>2

LEMMA NextRequests == TypeOK /\ Requests /\ [Next]_vars => Requests'
<1> SUFFICES ASSUME TypeOK, Requests, [Next]_vars PROVE Requests'
  OBVIOUS
<1>0. TypeOK'
  BY NextType
<1>1. CASE \E k \in Clients : OnToolCallRequest(k)
  BY <1>0, <1>1, ArrivalRequests
<1>2. CASE \E c \in Calls : SendToolCallRequest(c)
  BY <1>0, <1>2, SendingRequests
<1>3. CASE /\ ~\E k \in Clients : OnToolCallRequest(k)
           /\ ~\E c \in Calls : SendToolCallRequest(c)
  <2>1. \A t \in Sockets : Follows(down[t], down'[t])
    BY <1>3, DownFollows
  <2>2. \A c \in Calls : CallStep(c)
    BY <1>3, NextCallStep
  <2> QED BY <1>0, <2>1, <2>2, KeepsRequests
<1> QED BY <1>1, <1>2, <1>3

-----------------------------------------------------------------------------
(* The refinement, one case per action that the caller or a tool can see.  *)
callers == [c \in Calls |-> Caller(c)]
runs == [c \in Calls |-> Ran(c)]

(* Who runs no tool and answers no caller maps to a stutter.               *)
LEMMA Stutters ==
  ASSUME callers' = callers, runs' = runs
  PROVE  [Abstract!Next]_(Abstract!vars)
BY DEF callers, runs, Abstract!vars

LEMMA SameCalls ==
  ASSUME call' = call, tool' = tool
  PROVE  callers' = callers /\ runs' = runs
BY DEF callers, runs, Caller, Ran

(* A call that keeps its state keeps what it maps to.                      *)
LEMMA SameCall ==
  ASSUME TypeOK, NEW c \in Calls
  PROVE  /\ call'[c] = call[c] => Caller(c)' = Caller(c)
         /\ tool'[c] = tool[c] => Ran(c)' = Ran(c)
<1>1. /\ call[c] \in {"idle", "reading", "waiting", "answered", "timeout",
                       "offline", "unsent", "broken"}
      /\ tool[c] \in {"none", "running", "orphan", "done"}
  BY DEF TypeOK
<1> QED BY <1>1 DEF Caller, Ran

(* One call changes: the mapped functions change at it.                    *)
LEMMA OneCall ==
  ASSUME TypeOK, NEW c \in Calls,
         \A e \in Calls : e # c => call'[e] = call[e] /\ tool'[e] = tool[e]
  PROVE  /\ callers' = [callers EXCEPT ![c] = Caller(c)']
         /\ runs' = [runs EXCEPT ![c] = Ran(c)']
         /\ callers[c] = Caller(c) /\ runs[c] = Ran(c)
<1>1. \A e \in Calls : e # c => Caller(e)' = Caller(e) /\ Ran(e)' = Ran(e)
  BY SameCall
<1> QED BY <1>1 DEF callers, runs

LEMMA SameRuns == ASSUME tool' = tool PROVE runs' = runs
BY DEF runs, Ran

LEMMA SameCallers == ASSUME call' = call PROVE callers' = callers
BY DEF callers, Caller

LEMMA GivesUp ==
  ASSUME runs' = runs, NEW given \in SUBSET Calls,
         \A c \in given : Caller(c) = "waiting",
         \A c \in Calls : Caller(c)' = IF c \in given THEN "gaveUp" ELSE Caller(c)
  PROVE  [Abstract!Next]_(Abstract!vars)
BY DEF Abstract!Next, Abstract!GiveUp, callers, runs

LEMMA InitImplements == Init => Abstract!Init
BY DEF Init, Abstract!Init, Caller, Ran

LEMMA NextImplements ==
  TypeOK /\ Requests /\ [Next]_vars => [Abstract!Next]_(Abstract!vars)
<1> SUFFICES ASSUME TypeOK, Requests, [Next]_vars
             PROVE  [Abstract!Next]_(Abstract!vars)
  OBVIOUS
<1>1. ASSUME call' = call, tool' = tool PROVE [Abstract!Next]_(Abstract!vars)
  BY <1>1, SameCalls, Stutters
<1>7. ASSUME NEW k, call' = call, tool' = Orphans(k)
      PROVE  [Abstract!Next]_(Abstract!vars)
  <2>1. \A c \in Calls : Ran(c)' = Ran(c) /\ Caller(c)' = Caller(c)
    BY <1>7 DEF Orphans, Ran, Caller
  <2> QED BY <2>1, Stutters DEF callers, runs
<1>8. ASSUME NEW e \in Devices, ServiceNext(e)
      PROVE  [Abstract!Next]_(Abstract!vars)
  <2>1. call' = call /\ (tool' = tool \/ tool' = Orphans(current[e]))
    BY <1>8 DEF ServiceNext, SvcConnect, SvcCreate, SvcNoToken, SvcDisconnect,
       Quit, requests, tools
  <2> QED BY <1>1, <1>7, <2>1
<1>2. ASSUME NEW k \in Clients, ClientNext(k)
      PROVE  [Abstract!Next]_(Abstract!vars)
  <2>1. CASE OnAuthFailed(k)
    BY <1>7, <2>1 DEF OnAuthFailed, Quit, requests
  <2>2. CASE OnToolCallRequest(k)
    <3> DEFINE q == down[ws[k]]
    <3>0. PICK c : c = Head(q).call
      OBVIOUS
    <3>1. /\ ws[k] \in Sockets /\ q \in Seq(Downward) /\ q # <<>>
          /\ Head(q).type = "request"
          /\ call' = call /\ tool' = [tool EXCEPT ![c] = "running"]
      BY <2>2, <3>0 DEF OnToolCallRequest, Coming, requests, TypeOK
    <3>2. 1 \in 1 .. Len(q) /\ q[1] = Head(q) /\ Head(q) \in Downward
      BY <3>1
    <3>3. RequestFresh(ws[k], 1)
      BY <3>1, <3>2 DEF Requests, Fresh
    <3>4. c \in Calls /\ tool[c] = "none" /\ call[c] \in Sure
      BY <3>0, <3>1, <3>2, <3>3, Messages DEF RequestFresh
    <3>5. /\ tool'[c] = "running"
          /\ \A e \in Calls : e # c => tool'[e] = tool[e]
      BY <3>1, <3>4 DEF TypeOK
    <3>6. Ran(c) = "never" /\ Ran(c)' = "running" /\ Caller(c)' = Caller(c)
      BY <3>1, <3>4, <3>5 DEF Ran, Caller
    <3>7. Caller(c) \in {"waiting", "gaveUp"}
      BY <3>4 DEF Caller, Sure
    <3>8. Abstract!Run(c)
      BY <3>1, <3>4, <3>5, <3>6, <3>7, OneCall, SameCallers
         DEF Abstract!Run, callers, runs
    <3> QED BY <3>4, <3>8 DEF Abstract!Next
  <2>3. CASE ~(OnAuthFailed(k) \/ OnToolCallRequest(k))
    BY <1>1, <1>2, <2>3
       DEF ClientNext, Reconnect, HandleClose, HeartbeatMissed, HandleOpen,
           OnAuthSuccess, OnClose, requests, tools
  <2> QED BY <2>1, <2>2, <2>3
<1>3. ASSUME NEW s \in Sockets, SocketNext(s)
      PROVE  [Abstract!Next]_(Abstract!vars)
  <2>1. CASE OnToolCallResponse(s)
    <3>0. PICK c : c = Head(up[s]).call
      OBVIOUS
    <3>1. /\ tool' = tool /\ up[s] \in Seq(Upward) /\ up[s] # <<>>
          /\ Head(up[s]).type = "response"
          /\ \/ call' = call
             \/ call' = [call EXCEPT ![c] = IF @ = "waiting" THEN "answered"
                                            ELSE @]
      BY <2>1, <3>0 DEF OnToolCallResponse, Arrived, TypeOK, tools
    <3>2. Carries(up[s], c)
      BY <3>0, <3>1, CarriesTail
    <3>3. tool[c] = "done"
      BY <3>2, CarriesDone
    <3>4. Head(up[s]) \in Upward
      BY <3>1
    <3>5. c \in Calls
      BY <3>0, <3>1, <3>4, Messages
    <3>6. CASE call' = call
      BY <1>1, <3>1, <3>6
    <3>7. CASE call' # call
      <4>1. /\ call[c] = "waiting" /\ call'[c] = "answered"
            /\ \A e \in Calls : e # c => call'[e] = call[e]
        BY <3>1, <3>5, <3>7 DEF TypeOK
      <4>2. /\ Caller(c) = "waiting" /\ Caller(c)' = "answered"
            /\ Ran(c) = "done"
        BY <3>3, <4>1 DEF Caller, Ran
      <4>3. Abstract!Return(c)
        BY <3>1, <3>5, <4>1, <4>2, OneCall, SameRuns
           DEF Abstract!Return, callers, runs
      <4> QED BY <3>5, <4>3 DEF Abstract!Next
    <3> QED BY <3>6, <3>7
  <2>2. CASE ~OnToolCallResponse(s)
    BY <1>1, <1>3, <2>2
       DEF SocketNext, HandleWebSocketUpgrade, OnAuth, AuthSucceeds, AuthFails,
           AlarmCloses, WebSocketClose, WebSocketError, Unlist, Cut, requests,
           tools
  <2> QED BY <2>1, <2>2
<1>4. ASSUME NEW c \in Calls, CallNext(c)
      PROVE  [Abstract!Next]_(Abstract!vars)
  <2>1. CASE HandleToolCall(c)
    <3>1. /\ tool' = tool /\ call[c] = "idle"
          /\ call'[c] \in {"offline", "reading"}
          /\ \A e \in Calls : e # c => call'[e] = call[e]
      BY <2>1 DEF HandleToolCall, TypeOK, tools
    <3>2. tool[c] = "none"
      BY <3>1 DEF Requests, NotRun
    <3>3. /\ Caller(c) = "idle" /\ Ran(c) = "never"
          /\ Caller(c)' = IF call'[c] = "offline" THEN "refused" ELSE "waiting"
      BY <3>1, <3>2 DEF Caller, Ran
    <3>4. Abstract!Call(c) \/ Abstract!Refuse(c)
      BY <3>1, <3>3, OneCall, SameRuns
         DEF Abstract!Call, Abstract!Refuse, callers, runs
    <3> QED BY <3>4 DEF Abstract!Next
  <2>2. CASE SendToolCallRequest(c)
    <3>1. /\ tool' = tool /\ call[c] = "reading"
          /\ call'[c] \in {"offline", "waiting", "unsent"}
          /\ \A e \in Calls : e # c => call'[e] = call[e]
      BY <2>2 DEF SendToolCallRequest, TypeOK, tools
    <3>2. tool[c] = "none"
      BY <3>1 DEF Requests, NotRun
    <3>3. /\ Caller(c) = "waiting" /\ Ran(c) = "never"
          /\ Caller(c)' = IF call'[c] = "waiting" THEN "waiting" ELSE "refused"
      BY <3>1, <3>2 DEF Caller, Ran
    <3>4. CASE call'[c] = "waiting"
      <4>1. \A e \in Calls : Caller(e)' = Caller(e)
        BY <3>1, <3>3, <3>4 DEF Caller
      <4> QED BY <3>1, <4>1, Stutters, SameRuns DEF callers
    <3>5. CASE call'[c] # "waiting"
      <4>1. Abstract!Refuse(c)
        BY <3>1, <3>3, <3>5, OneCall, SameRuns
           DEF Abstract!Refuse, callers, runs
      <4> QED BY <4>1 DEF Abstract!Next
    <3> QED BY <3>4, <3>5
  <2>3. CASE Timeout(c)
    <3>1. /\ tool' = tool
          /\ call'[c] = IF call[c] = "waiting" THEN "timeout" ELSE call[c]
          /\ \A e \in Calls : e # c => call'[e] = call[e]
      BY <2>3 DEF Timeout, TypeOK, tools
    <3>2. CASE call[c] = "waiting"
      <4>1. Caller(c) = "waiting" /\ Caller(c)' = "gaveUp"
        BY <3>1, <3>2 DEF Caller
      <4>2. \A e \in Calls : Caller(e)' = IF e \in {c} THEN "gaveUp"
                                          ELSE Caller(e)
        BY <3>1, <4>1, SameCall
      <4> QED BY <3>1, <4>1, <4>2, GivesUp, SameRuns
    <3>3. CASE call[c] # "waiting"
      <4>1. \A e \in Calls : Caller(e)' = Caller(e)
        BY <3>1, <3>3 DEF Caller
      <4> QED BY <3>1, <4>1, Stutters, SameRuns DEF callers
    <3> QED BY <3>2, <3>3
  <2>4. CASE SendToolCallResponse(c)
    <3>1. /\ call' = call /\ tool[c] \in {"running", "orphan"}
          /\ tool'[c] = "done"
          /\ \A e \in Calls : e # c => tool'[e] = tool[e]
      BY <2>4 DEF SendToolCallResponse, requests, TypeOK
    <3>2. Ran(c) = "running" /\ Ran(c)' = "done" /\ Caller(c)' = Caller(c)
      BY <3>1 DEF Ran, Caller
    <3>3. Abstract!Finish(c)
      BY <3>1, <3>2, OneCall, SameCallers
         DEF Abstract!Finish, callers, runs
    <3> QED BY <3>3 DEF Abstract!Next
  <2> QED BY <1>4, <2>1, <2>2, <2>3, <2>4 DEF CallNext
<1>5. CASE GatewayRestart
  <2> DEFINE given == {c \in Calls : call[c] \in {"reading", "waiting"}}
  <2>1. /\ tool' = tool
        /\ \A e \in Calls : call'[e] = IF e \in given THEN "broken" ELSE call[e]
    BY <1>5 DEF GatewayRestart, tools
  <2>2. \A e \in given : Caller(e) = "waiting"
    BY DEF Caller
  <2>3. \A e \in Calls : Caller(e)' = IF e \in given THEN "gaveUp" ELSE Caller(e)
    <3>1. \A e \in Calls : e \in given => Caller(e)' = "gaveUp"
      BY <2>1 DEF Caller
    <3>2. \A e \in Calls : e \notin given => Caller(e)' = Caller(e)
      BY <2>1, SameCall
    <3> QED BY <3>1, <3>2
  <2> QED BY <2>1, <2>2, <2>3, GivesUp, SameRuns
<1>6. CASE UNCHANGED vars
  BY <1>1, <1>6 DEF vars, requests, tools
<1> QED BY <1>2, <1>3, <1>4, <1>5, <1>6, <1>8 DEF Next

(* A tool call through a device's WebSocket is a remote call: it runs at   *)
(* most once through every reconnect and restart, an answer is the answer  *)
(* of a run that is over, and a call refused as offline never runs.        *)
THEOREM DeviceLinkImplementsRemoteCall == Spec => ImplementsRemoteCall
<1>1. Init => TypeOK /\ Requests
  BY InitType, InitRequests
<1>2. TypeOK /\ Requests /\ [Next]_vars => (TypeOK /\ Requests)'
  BY NextType, NextRequests
<1> QED
  BY <1>1, <1>2, InitImplements, NextImplements, PTL
     DEF Spec, ImplementsRemoteCall, Abstract!Spec
=============================================================================
