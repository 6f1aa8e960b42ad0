------------------------- MODULE ServerRequestRelay -------------------------
(***************************************************************************)
(* How a request of codex (an approval, a question to the user) gets to    *)
(* the phone of the user and the answer back to codex: the                 *)
(* pendingServerRequests of the agent, the pendingServerResponses of the   *)
(* hub, and the cards of the phone.                                        *)
(*                                                                         *)
(* One user with several agents.  codex numbers its requests from 0 in     *)
(* every process, and everyone on the way knows a request by that number.  *)
(* The agent opens an answer with the key of the conversation the hub      *)
(* names, so an answer given in another conversation does not decrypt; one *)
(* of the conversation may not either, when its sender is unknown or its   *)
(* sequence number is behind one already seen, which is not modelled here. *)
(* The phone is always connected, and several devices of the user may      *)
(* answer the same card.                                                   *)
(***************************************************************************)
EXTENDS Integers, Sequences

CONSTANTS
  Request,       \* requests codex may make
  Agent, Conversation,
  AgentOf,       \* the agent of each conversation
  NoRequest,
  MaxId,         \* bound on the numbers codex gives its requests
  MaxLives,      \* bound on the codex processes of an agent
  MaxFaults      \* bound on lost connections and restarts of agent and hub

ASSUME ConstantsAssumption ==
  /\ AgentOf \in [Conversation -> Agent]
  /\ NoRequest \notin Request
  /\ MaxId \in Nat /\ MaxLives \in Nat /\ MaxFaults \in Nat

VARIABLES
  about,      \* of each request made: its conversation, turn, process and number
  turn,       \* the turns each conversation has had
  life,       \* the codex processes each agent has had
  alive,      \* codexClient.child is set
  nextId,     \* the number of codex's next request
  waiting,    \* requests codex waits for
  announced,  \* requests codex has sent serverRequest/resolved for
  reply,      \* what codex was answered, and on the card of which request
  pendingServerRequests,   \* of each agent
  link,       \* each agent's connection: up, dead (the hub has not noticed), down
  replaced,   \* dead sockets of each agent that a newer one replaced in the hub
  toHub, toAgent,          \* messages on the connection
  pendingServerResponses,  \* of the hub, by number
  cards,      \* requests the phone shows as open
  answers,    \* cards whose answer is on its way from the phone to the hub
  faults

codexVars  == <<turn, life, alive, nextId>>
settleVars == <<waiting, reply>>
linkVars   == <<link, replaced, faults>>
hubVars    == <<pendingServerResponses, cards, answers>>
vars == <<about, codexVars, announced, settleVars, pendingServerRequests, linkVars,
          toHub, toAgent, hubVars>>

Id == 0 .. MaxId
ReplyKind == {"none", "answered", "undecryptable", "replaced", "noContext"}

Made == DOMAIN about
AgentOfRequest(r) == AgentOf[about[r].conversation]
ConversationsOf(a) == {c \in Conversation : AgentOf[c] = a}

\* What codex, as it runs now on a, waits for under number i.
WaitingAs(a, i) == {r \in waiting : AgentOfRequest(r) = a /\ about[r].id = i}

Init ==
  /\ about = [r \in {} |-> r]
  /\ turn = [c \in Conversation |-> 1]
  /\ life = [a \in Agent |-> 0]
  /\ alive = [a \in Agent |-> FALSE]
  /\ nextId = [a \in Agent |-> 0]
  /\ waiting = {} /\ announced = {}
  /\ reply = [r \in Request |-> [kind |-> "none", of |-> NoRequest]]
  /\ pendingServerRequests = [a \in Agent |-> [i \in Id |-> NoRequest]]
  /\ link = [a \in Agent |-> "up"]
  /\ replaced = [a \in Agent |-> 0]
  /\ toHub = [a \in Agent |-> <<>>]
  /\ toAgent = [a \in Agent |-> {}]
  /\ pendingServerResponses = [i \in Id |-> NoRequest]
  /\ cards = {} /\ answers = {}
  /\ faults = 0

-----------------------------------------------------------------------------
(* The agent and its codex.                                                 *)

\* sendToControl drops what it is given while the socket is not open.
Emit(a, message) ==
  toHub' = IF link[a] = "up" THEN [toHub EXCEPT ![a] = Append(@, message)] ELSE toHub

\* Codex takes a reply with number i for the request it so numbered.
Settle(settled, kind, q) ==
  /\ waiting' = waiting \ settled
  /\ reply' = [r \in Request |->
                 IF r \in settled THEN [kind |-> kind, of |-> q] ELSE reply[r]]

\* start(), when a turn, a hydration or a model list first needs codex.
ChildStart(a) ==
  /\ ~alive[a] /\ life[a] < MaxLives
  /\ alive' = [alive EXCEPT ![a] = TRUE]
  /\ life' = [life EXCEPT ![a] = @ + 1]
  /\ nextId' = [nextId EXCEPT ![a] = 0]
  /\ UNCHANGED <<about, turn, announced, settleVars, pendingServerRequests, linkVars,
                 toHub, toAgent, hubVars>>

Numbered(c) ==
  [conversation |-> c, turn |-> turn[c], life |-> life[AgentOf[c]],
   id |-> nextId[AgentOf[c]]]

\* onServerRequest rejects what is filed under the number, a request of an earlier
\* codex, whose error the codex of now takes for the answer to its new request.
AskUser(a, i, r) ==
  /\ Emit(a, [type |-> "request", request |-> r])
  /\ pendingServerRequests' = [pendingServerRequests EXCEPT ![a][i] = r]
  /\ IF pendingServerRequests[a][i] = NoRequest
       THEN waiting' = waiting \union {r} /\ UNCHANGED reply
       ELSE Settle({r}, "replaced", NoRequest)

\* A request the agent knows no turn for is refused, and filed nowhere.
RefuseRequest(r) ==
  /\ Settle({r}, "noContext", NoRequest)
  /\ UNCHANGED <<toHub, pendingServerRequests>>

MakeRequest(c, r) ==
  LET a == AgentOf[c]
      i == nextId[a]
  IN  /\ alive[a] /\ i \in Id /\ r \notin Made
      /\ about' = [x \in Made \union {r} |-> IF x = r THEN Numbered(c) ELSE about[x]]
      /\ nextId' = [nextId EXCEPT ![a] = @ + 1]
      /\ AskUser(a, i, r) \/ RefuseRequest(r)
      /\ UNCHANGED <<turn, life, alive, announced, linkVars, toAgent, hubVars>>

\* Mutant: an answer that does not decrypt is reported and not given to codex.
ResolveLosing(a, i, kind, q) ==
  LET r == pendingServerRequests[a][i]
  IN  IF r = NoRequest
        THEN UNCHANGED <<pendingServerRequests, toHub, settleVars>>
        ELSE /\ pendingServerRequests' = [pendingServerRequests EXCEPT ![a][i] = NoRequest]
             /\ Emit(a, [type |-> "resolved", request |-> r])
             /\ Settle(IF alive[a] /\ kind = "answered" THEN WaitingAs(a, i) ELSE {}, kind, q)

\* resolveServerRequest with the answer given on the card of q, whatever
\* request is filed under the number; writeJson writes only to a child.
Resolve(a, i, kind, q) ==
  LET r == pendingServerRequests[a][i]
  IN  IF r = NoRequest
        THEN UNCHANGED <<pendingServerRequests, toHub, settleVars>>
        ELSE /\ pendingServerRequests' = [pendingServerRequests EXCEPT ![a][i] = NoRequest]
             /\ Emit(a, [type |-> "resolved", request |-> r])
             /\ Settle(IF alive[a] THEN WaitingAs(a, i) ELSE {}, kind, q)

\* serverRequest/resolved, after a reply or of codex's own accord: what is filed
\* under the number is resolved, else the event is passed on as it is; without a
\* turn context it is dropped.
Announce(r) ==
  LET a == AgentOfRequest(r)
      i == about[r].id
      filed == pendingServerRequests[a][i]
  IN  /\ alive[a] /\ about[r].life = life[a] /\ r \notin announced
      /\ announced' = announced \union {r}
      /\ waiting' = waiting \ {r}
      /\ \/ /\ pendingServerRequests' = [pendingServerRequests EXCEPT ![a][i] = NoRequest]
            /\ Emit(a, [type |-> "resolved",
                        request |-> IF filed = NoRequest THEN r ELSE filed])
         \/ UNCHANGED <<pendingServerRequests, toHub>>
      /\ UNCHANGED <<about, codexVars, reply, linkVars, toAgent, hubVars>>

\* turn/completed: codex no longer waits for the requests of the turn.  The
\* agent keeps what it has filed for them.
TurnEnds(c) ==
  LET a == AgentOf[c]
      mine == {r \in Made : about[r].conversation = c /\ about[r].turn = turn[c]}
  IN  /\ alive[a] /\ mine # {}
      /\ waiting' = waiting \ mine
      /\ turn' = [turn EXCEPT ![c] = @ + 1]
      /\ Emit(a, [type |-> "completed", turns |-> {<<c, turn[c]>>}])
      /\ UNCHANGED <<about, life, alive, nextId, announced, reply,
                     pendingServerRequests, linkVars, toAgent, hubVars>>

\* The exit of codex ends every turn it ran and stops all its waiting; the
\* entries of its requests stay in pendingServerRequests.
CodexGone(a) ==
  /\ alive' = [alive EXCEPT ![a] = FALSE]
  /\ waiting' = {r \in waiting : AgentOfRequest(r) # a}
  /\ turn' = [c \in Conversation |-> IF AgentOf[c] = a THEN turn[c] + 1 ELSE turn[c]]
  /\ UNCHANGED <<about, life, nextId, announced, reply>>

\* onCodexClientExit reports the turn of every conversation that has one active
\* (its turn.completed events are one message here).
ChildExit(a) ==
  /\ alive[a]
  /\ CodexGone(a)
  /\ \E active \in SUBSET ConversationsOf(a) :
       Emit(a, [type |-> "completed", turns |-> {<<c, turn[c]>> : c \in active}])
  /\ UNCHANGED <<pendingServerRequests, linkVars, toAgent, hubVars>>

\* Mutant: one key for all conversations of the user.
OpenedAny(m) == {"answered", "undecryptable"}

\* The answer of the phone is opened, after the await of syncE2EPeers, with the
\* key of the conversation of the request e the hub routed it for.  Several
\* answers may be past their await in any order.
Opened(m) ==
  {"undecryptable"} \union
    {k \in {"answered"} : about[m.answer].conversation = about[m.entry].conversation}

AgentReceives(a, m) ==
  /\ m \in toAgent[a]
  /\ toAgent' = [toAgent EXCEPT ![a] = @ \ {m}]
  /\ \E kind \in Opened(m) : Resolve(a, about[m.entry].id, kind, m.answer)
  /\ UNCHANGED <<about, codexVars, announced, linkVars, hubVars>>

-----------------------------------------------------------------------------
(* The hub and the phone.                                                   *)

\* Mutant: resolved closes every card that has the number.
ClosedByNumber(r) == {x \in cards : about[x].id = about[r].id}

\* The card a resolved event closes: the phone knows it by turn and number.
ClosedBy(r) == {r}

\* completed clears the routes of its turns,
ClearTurns(turns) ==
  [i \in Id |-> LET r == pendingServerResponses[i] IN
                IF r # NoRequest /\ <<about[r].conversation, about[r].turn>> \in turns
                  THEN NoRequest ELSE r]

\* Mutant: the close of a socket leaves the routes of its agent.
KeepRoutes(a) == pendingServerResponses

\* and the close of a socket those of its agent.
ClearAgent(a) ==
  [i \in Id |-> LET r == pendingServerResponses[i] IN
                IF r # NoRequest /\ AgentOfRequest(r) = a THEN NoRequest ELSE r]

\* handleAgentMessage.  The key has the user and the number, not the agent.
HubReceives(a) ==
  /\ toHub[a] # <<>>
  /\ toHub' = [toHub EXCEPT ![a] = Tail(@)]
  /\ LET m == Head(toHub[a]) IN
       \/ /\ m.type = "request"
          /\ pendingServerResponses' = [pendingServerResponses EXCEPT ![about[m.request].id] = m.request]
          /\ cards' = cards \union {m.request}
       \/ /\ m.type = "resolved"
          /\ pendingServerResponses' = [pendingServerResponses EXCEPT ![about[m.request].id] = NoRequest]
          /\ cards' = cards \ ClosedBy(m.request)
       \/ /\ m.type = "completed"
          /\ pendingServerResponses' = ClearTurns(m.turns)
          /\ UNCHANGED cards
  /\ UNCHANGED <<about, codexVars, announced, settleVars, pendingServerRequests, linkVars,
                 toAgent, answers>>

\* respondToServerRequest, from a device that shows the card.
UserAnswers(r) ==
  /\ r \in cards
  /\ answers' = answers \union {r}
  /\ UNCHANGED <<about, codexVars, announced, settleVars, pendingServerRequests, linkVars,
                 toHub, toAgent, pendingServerResponses, cards>>

\* The answer on the card of q is routed by its number.  A socket the hub has
\* not seen closed takes the message and loses it; without one the route stays.
HubRoutes(q) ==
  LET i == about[q].id
      entry == pendingServerResponses[i]
      a == AgentOfRequest(entry)
  IN  /\ q \in answers
      /\ answers' = answers \ {q}
      /\ IF entry = NoRequest \/ link[a] = "down"
           THEN UNCHANGED <<pendingServerResponses, toAgent>>
           ELSE /\ pendingServerResponses' = [pendingServerResponses EXCEPT ![i] = NoRequest]
                /\ toAgent' = IF link[a] = "up"
                                THEN [toAgent EXCEPT ![a] = @ \union {[answer |-> q, entry |-> entry]}]
                                ELSE toAgent
      /\ UNCHANGED <<about, codexVars, announced, settleVars, pendingServerRequests, linkVars,
                     toHub, cards>>

\* pendingServerResponseTtlMs
Expire(i) ==
  /\ pendingServerResponses[i] # NoRequest
  /\ pendingServerResponses' = [pendingServerResponses EXCEPT ![i] = NoRequest]
  /\ UNCHANGED <<about, codexVars, announced, settleVars, pendingServerRequests, linkVars,
                 toHub, toAgent, cards, answers>>

-----------------------------------------------------------------------------
(* The connections, and restarts.                                           *)

\* The agent loses its socket: what is on the way to the hub is lost, and of
\* what is on the way to the agent all that it has not read.
Disconnect(a) ==
  /\ link[a] = "up" /\ faults < MaxFaults
  /\ faults' = faults + 1
  /\ link' = [link EXCEPT ![a] = "dead"]
  /\ toHub' = [toHub EXCEPT ![a] = <<>>]
  /\ \E read \in SUBSET toAgent[a] : toAgent' = [toAgent EXCEPT ![a] = read]
  /\ UNCHANGED <<about, codexVars, announced, settleVars, pendingServerRequests, replaced,
                 hubVars>>

\* The close event of the agent's only socket.
HubClose(a) ==
  /\ link[a] = "dead"
  /\ link' = [link EXCEPT ![a] = "down"]
  /\ pendingServerResponses' = ClearAgent(a)
  /\ UNCHANGED <<about, codexVars, announced, settleVars, pendingServerRequests, replaced,
                 faults, toHub, toAgent, cards, answers>>

\* bindAgentSocket
Connect(a) ==
  /\ link[a] # "up"
  /\ link' = [link EXCEPT ![a] = "up"]
  /\ replaced' = IF link[a] = "dead" THEN [replaced EXCEPT ![a] = @ + 1] ELSE replaced
  /\ UNCHANGED <<about, codexVars, announced, settleVars, pendingServerRequests, faults,
                 toHub, toAgent, hubVars>>

\* Mutant: the close of a socket is handled once more.
OldCloseAgain(a) ==
  /\ replaced' = [replaced EXCEPT ![a] = @ - 1]
  /\ pendingServerResponses' = ClearAgent(a)
  /\ UNCHANGED <<about, codexVars, announced, settleVars, pendingServerRequests, link,
                 faults, toHub, toAgent, cards, answers>>

\* The close event of a replaced socket clears the routes of the agent too.
OldClose(a) ==
  /\ replaced[a] > 0
  /\ replaced' = [replaced EXCEPT ![a] = @ - 1]
  /\ pendingServerResponses' = ClearAgent(a)
  /\ UNCHANGED <<about, codexVars, announced, settleVars, pendingServerRequests, link,
                 faults, toHub, toAgent, cards, answers>>

\* The agent process dies, and codex with it.
AgentRestart(a) ==
  /\ faults < MaxFaults
  /\ faults' = faults + 1
  /\ CodexGone(a)
  /\ pendingServerRequests' = [pendingServerRequests EXCEPT ![a] = [i \in Id |-> NoRequest]]
  /\ link' = [link EXCEPT ![a] = IF @ = "up" THEN "dead" ELSE @]
  /\ toHub' = [toHub EXCEPT ![a] = <<>>]
  /\ toAgent' = [toAgent EXCEPT ![a] = {}]
  /\ UNCHANGED <<replaced, hubVars>>

\* The hub keeps nothing of this on disk; the phone keeps its cards.
HubRestart ==
  /\ faults < MaxFaults
  /\ faults' = faults + 1
  /\ link' = [a \in Agent |-> "down"]
  /\ replaced' = [a \in Agent |-> 0]
  /\ toHub' = [a \in Agent |-> <<>>]
  /\ \E read \in [Agent -> SUBSET UNION {toAgent[a] : a \in Agent}] :
       /\ \A a \in Agent : read[a] \subseteq toAgent[a]
       /\ toAgent' = read
  /\ pendingServerResponses' = [i \in Id |-> NoRequest]
  /\ answers' = {}
  /\ UNCHANGED <<about, codexVars, announced, settleVars, pendingServerRequests, cards>>

Next ==
  \/ \E a \in Agent :
       ChildStart(a) \/ ChildExit(a) \/ HubReceives(a) \/ Disconnect(a) \/ HubClose(a)
         \/ Connect(a) \/ OldClose(a) \/ AgentRestart(a)
  \/ \E a \in Agent : \E m \in toAgent[a] : AgentReceives(a, m)
  \/ \E c \in Conversation : TurnEnds(c) \/ \E r \in Request : MakeRequest(c, r)
  \/ \E r \in Made : Announce(r) \/ UserAnswers(r) \/ HubRoutes(r)
  \/ \E i \in Id : Expire(i)
  \/ HubRestart

Spec == Init /\ [][Next]_vars

-----------------------------------------------------------------------------
(* Properties.                                                              *)

Message ==
  [type : {"request", "resolved"}, request : Made]
    \union [type : {"completed"}, turns : SUBSET (Conversation \X (Nat \ {0}))]

TypeOK ==
  /\ Made \subseteq Request
  /\ about \in [Made -> [conversation : Conversation, turn : Nat \ {0},
                        life : Nat \ {0}, id : Id]]
  /\ turn \in [Conversation -> Nat \ {0}]
  /\ life \in [Agent -> Nat]
  /\ alive \in [Agent -> BOOLEAN]
  /\ \A a \in Agent : alive[a] => life[a] > 0
  /\ nextId \in [Agent -> 0 .. (MaxId + 1)]
  /\ waiting \subseteq Made /\ announced \subseteq Made
  /\ reply \in [Request -> [kind : ReplyKind, of : Made \union {NoRequest}]]
  /\ pendingServerRequests \in [Agent -> [Id -> Made \union {NoRequest}]]
  /\ link \in [Agent -> {"up", "dead", "down"}]
  /\ replaced \in [Agent -> Nat]
  /\ toHub \in [Agent -> Seq(Message)]
  /\ toAgent \in [Agent -> SUBSET [answer : Made, entry : Made]]
  /\ pendingServerResponses \in [Id -> Made \union {NoRequest}]
  /\ cards \subseteq Made /\ answers \subseteq Made
  /\ faults \in Nat

\* What codex waits for is filed by the agent under its own number, so that an
\* answer that comes can reach it: no restart of codex, and no answer to or
\* resolution of an older request of the same number, takes its entry away.
WaitingIsFiled ==
  \A r \in waiting : pendingServerRequests[AgentOfRequest(r)][about[r].id] = r

\* An answer that codex accepted was given on a card of the same agent and
\* number, and of the same codex only on the card of the request itself: what the
\* hub mixes up between agents, who share its routes, does not decrypt, and after
\* that only the card of an earlier codex can stand in for the right one.
AnsweredOnOwnAgent ==
  \A r \in Request : reply[r].kind = "answered" =>
    LET q == reply[r].of
    IN  /\ AgentOfRequest(q) = AgentOfRequest(r)
        /\ about[q].id = about[r].id
        /\ q = r \/ about[q].life < about[r].life

\* A route of the hub leads to a request its agent still has on file, unless the
\* news that ends it is on the way, or a socket the agent has left is still to
\* be closed: no route outlives its request for good.
AboutNumber(m, i) == m.type # "completed" /\ about[m.request].id = i

RouteIsLive ==
  \A i \in Id : LET r == pendingServerResponses[i] IN r # NoRequest =>
    LET a == AgentOfRequest(r)
    IN  \/ pendingServerRequests[a][i] = r
        \/ link[a] = "dead" \/ replaced[a] > 0
        \/ \E n \in DOMAIN toHub[a] : AboutNumber(toHub[a][n], i)

\* The phone closes a card only when codex no longer waits for its request: the
\* user is never left without the card of a request that blocks codex.
ClosedIsOver == [][\A r \in cards : r \notin cards' => r \notin waiting']_vars

\* The round trip of a request: what codex gets for a request that was shown to
\* the user comes of the answer on its own card.
RoundTrip ==
  \A r \in Request : reply[r].kind \notin {"none", "noContext"} => reply[r].of = r
=============================================================================
