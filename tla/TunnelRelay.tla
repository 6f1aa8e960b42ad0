---------------------------- MODULE TunnelRelay ----------------------------
(***************************************************************************)
(* A tunnel: requests and websockets that the gateway passes to            *)
(* control-api, which relays them through the websocket of an agent of the *)
(* owner to an application on the agent's computer.  The agent passes a    *)
(* request on to the loopback hosts one after the other, until a call of   *)
(* one does not fail: a call that fails may have reached the application.  *)
(*                                                                         *)
(* The agents tried are the one on the tunnel's row, then the others that  *)
(* were online when the request came; the next one is tried only when an   *)
(* agent is offline.  The hub learns some time after a connection dropped  *)
(* that it did; until then what it sends is lost, and by then the agent    *)
(* may be back with a new connection.  A websocket is tried at most once   *)
(* on each agent, so the pair of both names the attempt and connectionId.  *)
(* The gateway stands between the client and control-api: it refuses what  *)
(* names no open tunnel, and pairs each websocket of a client with one of  *)
(* its own to control-api, so that the two are closed one after the other. *)
(* What is in a frame, the gateway's copying of headers and cookies, and   *)
(* the probes and diagnostics are left out.                                *)
(***************************************************************************)
EXTENDS Integers, Sequences, FiniteSets

CONSTANTS
  Agents, Owner,  \* the agents of the user; the one the tunnel was created for
  Https,          \* requests: POST /internal/tunnels/:slug/proxy
  Sockets,        \* websockets: /internal/tunnels/:slug/ws
  LastHost,       \* how many loopbackHosts there are
  None,
  Unsteady,       \* bound on faults: the agents whose connections drop
  MaxConns,       \* bound on the connections of the agents
  MaxRequests     \* bound on the requests and websockets accepted

VARIABLES
  tunnel,       \* the row: "none", "open" or "closed"
  rowAgent,     \* its agent_id
  conn,         \* agentSockets of the hub: a connection number, or 0
  bound,        \* connections whose handlers bindAgentSocket has attached
  closing,      \* dropped connections the hub has not seen close
  agentConn,    \* the connection the agent holds, or 0
  conns,        \* connections so far
  toAgent, toHub,  \* messages on the connection the agent holds
  gone,         \* websockets whose client has gone away
  heard,        \* those of them that control-api has seen close
  at,           \* where a request or websocket stands
  candidates,   \* the agents it has still to try
  pendingProxy, \* pairs of a request and the agent it was sent to
  pendingOpen,  \* pendingTunnelWsOpen: pairs of a websocket and an agent
  routes,       \* tunnelWsRoute: likewise
  ports,        \* agents that know the tunnel
  fetching,     \* requests the agent is passing to the application: the connection
                \*   each came on, and the host that is being called
  opening,      \* websockets the agent is opening: attempt -> its connection
  local,        \* websockets it has open: attempt -> the connection it opened on
  served,       \* how often an agent has called a host for a request
  lapsed        \* attempts whose open timed out, whose client or connection went
                \*   away before, or whose answer or route was lost with a connection

rowVars   == <<tunnel, rowAgent>>
connVars  == <<conn, bound, closing, agentConn, conns>>
wireVars  == <<toAgent, toHub>>
askVars   == <<at, candidates, gone, heard>>
hubVars   == <<pendingProxy, pendingOpen, routes>>
agentVars == <<ports, fetching, opening, local, served>>
tunnelVars == <<rowVars, connVars, wireVars, askVars, hubVars, agentVars, lapsed>>

Requests == Https \union Sockets
Attempt  == Sockets \X Agents
Conn     == 0 .. MaxConns
Host     == 1 .. LastHost
Msg      == [type : {"tunnel.open"}, of : {None}]
            \union [type : {"http.request", "ws.open", "ws.close"}, of : Requests]
Reply    == [type : {"http.response", "ws.opened", "ws.failed", "ws.closed"}, of : Requests]

Message(type, of) == [type |-> type, of |-> of]
OnTheWay(queue, type, of) == \E i \in 1 .. Len(queue) : queue[i] = Message(type, of)
Without(f, x) == [y \in DOMAIN f \ {x} |-> f[y]]
With(f, x, v) == [y \in DOMAIN f \union {x} |-> IF y = x THEN v ELSE f[y]]

-----------------------------------------------------------------------------
(* The hub's connections.                                                   *)

IsAgentOnline(a) == conn[a] # 0

\* What is sent on a connection that has dropped is lost.
Delivers(a) == conn[a] = agentConn[a]

Send(a, msgs) ==
  toAgent' = IF Delivers(a) THEN [toAgent EXCEPT ![a] = @ \o msgs] ELSE toAgent

\* sendToSpecificWs: the agent answers on the connection it was asked on.
Answer(a, n, m) ==
  toHub' = IF n = agentConn[a] THEN [toHub EXCEPT ![a] = Append(@, m)] ELSE toHub

\* The agent connects; bindAgentSocket sets the map, then waits for the database.
Connect(a) ==
  /\ agentConn[a] = 0
  /\ conns < MaxConns
  /\ conns' = conns + 1
  /\ agentConn' = [agentConn EXCEPT ![a] = conns + 1]
  /\ conn' = [conn EXCEPT ![a] = conns + 1]
  /\ UNCHANGED <<rowVars, bound, closing, wireVars, askVars, hubVars, agentVars, lapsed>>

\* The handlers of the socket are attached after that.
HandlersAttached(a) ==
  /\ agentConn[a] # 0 /\ agentConn[a] \notin bound[a]
  /\ bound' = [bound EXCEPT ![a] = @ \union {agentConn[a]}]
  /\ UNCHANGED <<rowVars, conn, closing, agentConn, conns, wireVars, askVars, hubVars,
                 agentVars, lapsed>>

Drop(a) ==
  /\ agentConn[a] # 0
  /\ closing' = [closing EXCEPT ![a] = @ \union {agentConn[a]}]
  /\ agentConn' = [agentConn EXCEPT ![a] = 0]
  /\ toAgent' = [toAgent EXCEPT ![a] = <<>>]
  /\ toHub' = [toHub EXCEPT ![a] = <<>>]
  /\ lapsed' = lapsed \union {r \in pendingOpen \union routes : r[2] = a}
  /\ UNCHANGED <<rowVars, conn, bound, conns, askVars, hubVars>>

ConnectionDrops(a) == Drop(a) /\ UNCHANGED agentVars

\* The agent's process ends: it forgets the tunnels, and its sockets close.
AgentStops(a) ==
  LET keep(f) == [r \in {q \in DOMAIN f : q[2] # a} |-> f[r]]
  IN  /\ Drop(a)
      /\ ports' = ports \ {a}
      /\ fetching' = keep(fetching) /\ opening' = keep(opening) /\ local' = keep(local)
      /\ UNCHANGED served

\* The hub sees a connection close: what waits for the agent is rejected and its
\* websockets are closed, whichever connection they were opened on.
SeesClose(a, n) ==
  /\ n \in closing[a]
  /\ closing' = [closing EXCEPT ![a] = @ \ {n}]
  /\ conn' = [conn EXCEPT ![a] = IF @ = n THEN 0 ELSE @]
  /\ IF n \in bound[a]
     THEN LET mine(S) == {r \in S : r[2] = a}
          IN  /\ pendingOpen' = pendingOpen \ mine(pendingOpen)
              /\ routes' = routes \ mine(routes)
              /\ lapsed' = lapsed \union mine(pendingOpen) \union mine(routes)
              /\ at' = [r \in Requests |->
                          IF \E p \in mine(pendingOpen) : p[1] = r THEN "trying"
                          ELSE IF \E p \in mine(routes) : p[1] = r THEN "over"
                          ELSE at[r]]
     ELSE UNCHANGED <<pendingOpen, routes, lapsed, at>>
  /\ UNCHANGED <<rowVars, bound, agentConn, conns, wireVars, candidates, gone, heard,
                 pendingProxy, agentVars>>

-----------------------------------------------------------------------------
(* The tunnel gateway.                                                      *)

\* A client asks for a tunnel it has a link to, and control-api is asked.
Ask(r) ==
  /\ tunnel # "none"
  /\ at[r] = "none"
  /\ Cardinality({q \in Requests : at[q] # "none"}) < MaxRequests
  /\ at' = [at EXCEPT ![r] = "asked"]
  /\ UNCHANGED <<rowVars, connVars, wireVars, candidates, gone, heard, hubVars, agentVars,
                 lapsed>>

\* app.all: the request is posted to control-api.
GatewayProxy(r) == r \in Https /\ Ask(r)

\* upgrade: the client's websocket is accepted, and one to control-api is opened.
GatewayUpgrade(w) == w \in Sockets /\ Ask(w)

\* control-api is not reached: 502, or the client's websocket is closed.
GatewayFails(r) ==
  /\ at[r] = "asked"
  /\ at' = [at EXCEPT ![r] = "over"]
  /\ UNCHANGED <<rowVars, connVars, wireVars, candidates, gone, heard, hubVars, agentVars,
                 lapsed>>

\* The websocket to control-api is closed, or terminated when it is not open yet, which
\* control-api may or may not notice before it answers.
CloseWebSocketSafely(w) == gone' = gone \union {w}

\* The client goes away, or the gateway stops.
ClientCloses(w) ==
  /\ w \in Sockets \ gone
  /\ at[w] \in {"asked", "trying", "waiting", "opened", "open"}
  /\ CloseWebSocketSafely(w)
  /\ UNCHANGED <<rowVars, connVars, wireVars, at, candidates, heard, hubVars, agentVars,
                 lapsed>>

-----------------------------------------------------------------------------
(* The routes of control-api.                                               *)

\* POST /tunnels: the row is deleted again when the agent is offline.
CreateTunnel ==
  /\ tunnel = "none"
  /\ IsAgentOnline(Owner)
  /\ tunnel' = "open"
  /\ Send(Owner, <<Message("tunnel.open", None)>>)
  /\ UNCHANGED <<rowAgent, connVars, toHub, askVars, hubVars, agentVars, lapsed>>

\* DELETE /tunnels/:tunnelId: neither the agent nor a websocket is told.
CloseTunnel ==
  /\ tunnel = "open"
  /\ tunnel' = "closed"
  /\ UNCHANGED <<rowAgent, connVars, wireVars, askVars, hubVars, agentVars, lapsed>>

\* tunnelAgentCandidates: the agent of the row first.
Candidates == {rowAgent} \union {a \in Agents : IsAgentOnline(a)}
NextToTry(S) == IF rowAgent \in S THEN {rowAgent} ELSE S

\* The row is read and checked; the answers 401 to 410 are one.
Accept(r) ==
  /\ at[r] = "asked"
  /\ IF tunnel = "open"
     THEN /\ at' = [at EXCEPT ![r] = "trying"]
          /\ candidates' = [candidates EXCEPT ![r] = Candidates]
     ELSE at' = [at EXCEPT ![r] = "over"] /\ UNCHANGED candidates
  /\ UNCHANGED <<rowVars, connVars, wireVars, gone, heard, hubVars, agentVars, lapsed>>

\* POST /internal/tunnels/:slug/proxy.
Proxy(r) == r \in Https /\ Accept(r)

\* The upgrade of /internal/tunnels/:slug/ws.
Upgrade(w) == w \in Sockets /\ Accept(w)

\* ensureTunnelOpenOnAgent goes before each request.
EnsureTunnelOpen(msgs) == <<Message("tunnel.open", None)>> \o msgs

ProxyHttpThroughAgent(r, a) ==
  /\ pendingProxy' = pendingProxy \union {<<r, a>>}
  /\ Send(a, EnsureTunnelOpen(<<Message("http.request", r)>>))
  /\ UNCHANGED pendingOpen

OpenTunnelWsThroughAgent(w, a) ==
  /\ pendingOpen' = pendingOpen \union {<<w, a>>}
  /\ Send(a, EnsureTunnelOpen(<<Message("ws.open", w)>>))
  /\ UNCHANGED pendingProxy

\* proxyTunnelThroughAvailableAgent and openTunnelWsThroughAvailableAgent: the
\* next agent, which is passed over when it is offline.
Try(r, a) ==
  /\ at[r] = "trying"
  /\ a \in NextToTry(candidates[r])
  /\ candidates' = [candidates EXCEPT ![r] = @ \ {a}]
  /\ IF IsAgentOnline(a)
     THEN /\ at' = [at EXCEPT ![r] = "waiting"]
          /\ IF r \in Https THEN ProxyHttpThroughAgent(r, a)
                            ELSE OpenTunnelWsThroughAgent(r, a)
     ELSE UNCHANGED <<at, toAgent, pendingProxy, pendingOpen>>
  /\ UNCHANGED <<rowVars, connVars, toHub, gone, heard, routes, agentVars, lapsed>>

\* Nobody is left to try: agent_offline.
GiveUp(r) ==
  /\ at[r] = "trying"
  /\ candidates[r] = {}
  /\ at' = [at EXCEPT ![r] = "over"]
  /\ UNCHANGED <<rowVars, connVars, wireVars, candidates, gone, heard, hubVars, agentVars, lapsed>>

\* Mutant: after a timeout the next agent is tried.
TimedOutTriesNext(r) == [at EXCEPT ![r] = "trying"]

\* A timeout is not agent_offline: it ends the request.
AfterTimeout(r) == [at EXCEPT ![r] = "over"]

\* 15 s without an answer; the agent is not told.
Timeout(r, a) ==
  /\ <<r, a>> \in pendingProxy \union pendingOpen
  /\ pendingProxy' = pendingProxy \ {<<r, a>>}
  /\ pendingOpen' = pendingOpen \ {<<r, a>>}
  /\ at' = AfterTimeout(r)
  /\ lapsed' = lapsed \union ({<<r, a>>} \intersect Attempt)
  /\ UNCHANGED <<rowVars, connVars, wireVars, candidates, gone, heard, routes, agentVars>>

\* Mutant: the route is forgotten and the agent not told.
ForgetRoute(w, a) == routes' = routes \ {<<w, a>>} /\ UNCHANGED toAgent

\* closeTunnelWs: the route is kept until the agent reports the close.
CloseTunnelWs(w, a) ==
  IF IsAgentOnline(a)
  THEN Send(a, <<Message("ws.close", w)>>) /\ UNCHANGED routes
  ELSE routes' = routes \ {<<w, a>>} /\ UNCHANGED toAgent

\* The handler of the upgrade learns its connectionId once the row is written.
ConnectionIdKnown(w) ==
  /\ at[w] = "opened"
  /\ at' = [at EXCEPT ![w] = "open"]
  /\ UNCHANGED <<rowVars, connVars, wireVars, candidates, gone, heard, hubVars, agentVars, lapsed>>

\* control-api sees the gateway close the websocket: as long as the connectionId is not
\* known nothing is done about it, nor later.
UpstreamCloses(w) ==
  /\ w \in gone \ heard
  /\ at[w] \in {"trying", "waiting", "opened", "open"}
  /\ heard' = heard \union {w}
  /\ IF at[w] = "open"
     THEN /\ \E a \in Agents : <<w, a>> \in routes /\ CloseTunnelWs(w, a)
          /\ UNCHANGED lapsed
     ELSE /\ lapsed' = lapsed \union ({w} \X Agents)
          /\ UNCHANGED <<toAgent, routes>>
  /\ UNCHANGED <<rowVars, connVars, toHub, at, candidates, gone, pendingProxy, pendingOpen,
                 agentVars>>

-----------------------------------------------------------------------------
(* handleAgentMessage: what the agent answers.                              *)

PersistTunnelAgent(a) == rowAgent' = a

HttpResponse(r, a) ==
  IF <<r, a>> \in pendingProxy
  THEN /\ pendingProxy' = pendingProxy \ {<<r, a>>}
       /\ at' = [at EXCEPT ![r] = "over"]
       /\ PersistTunnelAgent(a)
       /\ UNCHANGED <<pendingOpen, routes>>
  ELSE UNCHANGED <<pendingProxy, pendingOpen, routes, at, rowAgent>>

\* An open that nobody waits for any more is ignored.
WsOpened(w, a) ==
  IF <<w, a>> \in pendingOpen
  THEN /\ pendingOpen' = pendingOpen \ {<<w, a>>}
       /\ routes' = routes \union {<<w, a>>}
       /\ at' = [at EXCEPT ![w] = IF rowAgent = a THEN "open" ELSE "opened"]
       /\ PersistTunnelAgent(a)
       /\ UNCHANGED pendingProxy
  ELSE UNCHANGED <<pendingProxy, pendingOpen, routes, at, rowAgent>>

\* tunnel.ws.error and tunnel.ws.closed end a pending open or a route.
WsEnded(w, a) ==
  /\ pendingOpen' = pendingOpen \ {<<w, a>>}
  /\ routes' = routes \ {<<w, a>>}
  /\ at' = [at EXCEPT ![w] = IF <<w, a>> \in pendingOpen \union routes THEN "over" ELSE @]
  /\ UNCHANGED <<pendingProxy, rowAgent>>

\* A message that comes before the handlers are attached is lost.
ReceiveReply(a) ==
  /\ toHub[a] # <<>>
  /\ toHub' = [toHub EXCEPT ![a] = Tail(@)]
  /\ IF agentConn[a] \in bound[a]
     THEN LET m == Head(toHub[a])
          IN  CASE m.type = "http.response" -> HttpResponse(m.of, a)
                [] m.type = "ws.opened" -> WsOpened(m.of, a)
                [] OTHER -> WsEnded(m.of, a)
     ELSE UNCHANGED <<hubVars, at, rowAgent>>
  /\ lapsed' = IF agentConn[a] \in bound[a] THEN lapsed
               ELSE lapsed \union ({<<Head(toHub[a]).of, a>>} \intersect Attempt)
  /\ UNCHANGED <<tunnel, connVars, toAgent, candidates, gone, heard, agentVars>>

-----------------------------------------------------------------------------
(* The agent: the tunnel handlers of runner.ts and the TunnelManager.       *)

Takes(a, type) ==
  /\ toAgent[a] # <<>>
  /\ Head(toAgent[a]).type = type
  /\ toAgent' = [toAgent EXCEPT ![a] = Tail(@)]

OpenTunnel(a) ==
  /\ Takes(a, "tunnel.open")
  /\ ports' = ports \union {a}
  /\ UNCHANGED <<rowVars, connVars, toHub, askVars, hubVars, fetching, opening, local,
                 served, lapsed>>

\* The host is called for the request.
Calls(r, a, h) ==
  /\ served' = [served EXCEPT ![<<r, a, h>>] = @ + 1]
  /\ UNCHANGED toHub

\* The request is passed to the first host, or the tunnel is unknown: 404.
HttpRequest(a) ==
  LET r == Head(toAgent[a]).of
  IN  /\ Takes(a, "http.request")
      /\ IF a \in ports
         THEN /\ fetching' = With(fetching, <<r, a>>, [on |-> agentConn[a], host |-> 1])
              /\ Calls(r, a, 1)
         ELSE Answer(a, agentConn[a], Message("http.response", r)) /\ UNCHANGED <<fetching, served>>
      /\ UNCHANGED <<rowVars, connVars, askVars, hubVars, ports, opening, local, lapsed>>

\* proxyLocalHttpWithFallback: after a call that fails, whatever the reason, the same
\* request goes to the next host.
NextHost(r, a) ==
  LET h == fetching[<<r, a>>].host + 1
  IN  /\ <<r, a>> \in DOMAIN fetching
      /\ h \in Host
      /\ fetching' = With(fetching, <<r, a>>, [on |-> fetching[<<r, a>>].on, host |-> h])
      /\ Calls(r, a, h)
      /\ UNCHANGED <<rowVars, connVars, toAgent, askVars, hubVars, ports, opening, local,
                     lapsed>>

\* The host called answers; or its answer breaks off, or it was the last one and cannot
\* be reached: 502.
HttpAnswered(r, a) ==
  /\ <<r, a>> \in DOMAIN fetching
  /\ fetching' = Without(fetching, <<r, a>>)
  /\ Answer(a, fetching[<<r, a>>].on, Message("http.response", r))
  /\ UNCHANGED <<rowVars, connVars, toAgent, askVars, hubVars, ports, opening, local,
                 served, lapsed>>

WsOpen(a) ==
  LET w == Head(toAgent[a]).of
  IN  /\ Takes(a, "ws.open")
      /\ IF a \in ports
         THEN opening' = With(opening, <<w, a>>, agentConn[a]) /\ UNCHANGED toHub
         ELSE Answer(a, agentConn[a], Message("ws.failed", w)) /\ UNCHANGED opening
      /\ UNCHANGED <<rowVars, connVars, askVars, hubVars, ports, fetching, local, served,
                     lapsed>>

\* openLocalWsWithFallback succeeds or fails.
WsOpenEnds(w, a, ok) ==
  LET r == <<w, a>>
  IN  /\ r \in DOMAIN opening
      /\ opening' = Without(opening, r)
      /\ local' = IF ok THEN With(local, r, opening[r]) ELSE local
      /\ Answer(a, opening[r], Message(IF ok THEN "ws.opened" ELSE "ws.failed", w))
      /\ UNCHANGED <<rowVars, connVars, toAgent, askVars, hubVars, ports, fetching, served,
                     lapsed>>

\* tunnel.ws.close: the socket is closed, and its handler of "close" reports it.
WsClose(a) ==
  LET r == <<Head(toAgent[a]).of, a>>
  IN  /\ Takes(a, "ws.close")
      /\ IF r \in DOMAIN local
         THEN /\ local' = Without(local, r)
              /\ Answer(a, local[r], Message("ws.closed", r[1]))
         ELSE UNCHANGED <<local, toHub>>
      /\ UNCHANGED <<rowVars, connVars, askVars, hubVars, ports, fetching, opening, served,
                     lapsed>>

\* The application closes the socket.
LocalCloses(w, a) ==
  /\ <<w, a>> \in DOMAIN local
  /\ local' = Without(local, <<w, a>>)
  /\ Answer(a, local[<<w, a>>], Message("ws.closed", w))
  /\ UNCHANGED <<rowVars, connVars, toAgent, askVars, hubVars, ports, fetching, opening,
                 served, lapsed>>

-----------------------------------------------------------------------------
Init ==
  /\ tunnel = "none" /\ rowAgent = Owner
  /\ conn = [a \in Agents |-> 0]
  /\ bound = [a \in Agents |-> {}]
  /\ closing = [a \in Agents |-> {}]
  /\ agentConn = [a \in Agents |-> 0]
  /\ conns = 0
  /\ toAgent = [a \in Agents |-> <<>>] /\ toHub = [a \in Agents |-> <<>>]
  /\ at = [r \in Requests |-> "none"]
  /\ candidates = [r \in Requests |-> {}] /\ gone = {} /\ heard = {}
  /\ pendingProxy = {} /\ pendingOpen = {} /\ routes = {}
  /\ ports = {} /\ fetching = <<>> /\ opening = <<>> /\ local = <<>>
  /\ served = [call \in Https \X Agents \X Host |-> 0]
  /\ lapsed = {}

HubStep ==
  \/ \E a \in Agents, n \in 1 .. MaxConns : SeesClose(a, n)
  \/ \E a \in Agents : HandlersAttached(a) \/ ReceiveReply(a)
  \/ \E r \in Requests : GiveUp(r) \/ ConnectionIdKnown(r) \/ \E a \in Agents : Try(r, a)

AgentStep(a) ==
  \/ OpenTunnel(a) \/ HttpRequest(a) \/ WsOpen(a) \/ WsClose(a)
  \/ \E r \in Https : NextHost(r, a) \/ HttpAnswered(r, a)
  \/ \E w \in Sockets, ok \in BOOLEAN : WsOpenEnds(w, a, ok)

Next ==
  \/ HubStep
  \/ CreateTunnel \/ CloseTunnel
  \/ \E r \in Requests :
       \/ GatewayProxy(r) \/ GatewayUpgrade(r) \/ GatewayFails(r) \/ ClientCloses(r)
       \/ Proxy(r) \/ Upgrade(r) \/ UpstreamCloses(r)
       \/ \E a \in Agents : Timeout(r, a)
  \/ \E a \in Agents :
       \/ Connect(a) \/ AgentStep(a)
       \/ a \in Unsteady /\ (ConnectionDrops(a) \/ AgentStops(a))
       \/ \E w \in Sockets : LocalCloses(w, a)

Spec == Init /\ [][Next]_tunnelVars

-----------------------------------------------------------------------------
TypeOK ==
  /\ tunnel \in {"none", "open", "closed"}
  /\ rowAgent \in Agents
  /\ conn \in [Agents -> Conn]
  /\ bound \in [Agents -> SUBSET Conn]
  /\ closing \in [Agents -> SUBSET Conn]
  /\ agentConn \in [Agents -> Conn]
  /\ conns \in Conn
  /\ toAgent \in [Agents -> Seq(Msg)]
  /\ toHub \in [Agents -> Seq(Reply)]
  /\ at \in [Requests -> {"none", "asked", "trying", "waiting", "opened", "open", "over"}]
  /\ gone \subseteq Sockets /\ heard \subseteq gone
  /\ candidates \in [Requests -> SUBSET Agents]
  /\ pendingProxy \subseteq Https \X Agents
  /\ pendingOpen \subseteq Attempt
  /\ routes \subseteq Attempt
  /\ ports \subseteq Agents
  /\ DOMAIN fetching \subseteq Https \X Agents
  /\ \A r \in DOMAIN fetching : fetching[r] \in [on : Conn, host : Host]
  /\ DOMAIN opening \subseteq Attempt
  /\ DOMAIN local \subseteq Attempt
  /\ served \in [Https \X Agents \X Host -> Nat]
  /\ lapsed \subseteq Attempt

\* A proxied request is served by one agent at most, which calls each of its hosts for it
\* at most once, however often connections drop and agents are tried: another agent is
\* tried only when the request cannot have been sent.
ServedByOneAgent ==
  \A r \in Https, a, b \in Agents, g, h \in Host :
    /\ served[<<r, a, h>>] <= 1
    /\ served[<<r, a, h>>] > 0 /\ served[<<r, b, g>>] > 0 => a = b

\* A websocket that is open on the agent's computer has a gateway at its other end and
\* is known to the hub, or word of its opening or closing is on the way: one is left
\* behind only after the open timed out, the client left before it was answered, or a
\* connection of the agent dropped or was only being set up.
LocalIsRouted ==
  \A r \in DOMAIN local :
    LET w == r[1]
        a == r[2]
    IN  \/ r \in lapsed
        \/ r \in routes /\ (w \in heard => OnTheWay(toAgent[a], "ws.close", w))
        \/ r \in pendingOpen /\ OnTheWay(toHub[a], "ws.opened", w)
=============================================================================
