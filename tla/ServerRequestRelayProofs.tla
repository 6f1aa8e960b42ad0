---------------------- MODULE ServerRequestRelayProofs ----------------------
(* Theorems of ServerRequestRelay, for any agents, conversations, requests   *)
(* and numbers, and any restarts and lost connections.                       *)
EXTENDS ServerRequestRelay, SequenceTheorems, TLAPS

\* A sequence over a set is one over a larger set.
LEMMA WiderSeq ==
  ASSUME NEW S, NEW T, S \subseteq T, NEW s \in Seq(S)
  PROVE  s \in Seq(T)
<1>1. s \in [1 .. Len(s) -> S]
  BY LenProperties
<1>2. s \in [1 .. Len(s) -> T]
  BY <1>1
<1>3. Len(s) \in Nat
  BY LenProperties
<1> QED
  BY <1>2, <1>3, SeqDef

\* Emitting a message that names known requests keeps toHub to its type.
LEMMA EmitTypes ==
  ASSUME TypeOK, NEW a \in Agent, NEW m \in Message, Emit(a, m)
  PROVE  toHub' \in [Agent -> Seq(Message)]
  BY DEF TypeOK, Emit

\* Settling requests keeps reply to its type.
LEMMA SettleTypes ==
  ASSUME TypeOK, NEW S, NEW kind \in ReplyKind, NEW q \in Made \union {NoRequest},
         Settle(S, kind, q)
  PROVE  /\ waiting' \subseteq Made
         /\ reply' \in [Request -> [kind : ReplyKind, of : Made \union {NoRequest}]]
  BY DEF TypeOK, Settle

\* So does resolving an entry, whatever answer it is resolved with.
LEMMA ResolveTypes ==
  ASSUME TypeOK, NEW a \in Agent, NEW i \in Id, NEW kind \in ReplyKind, NEW q \in Made,
         Resolve(a, i, kind, q)
  PROVE  /\ waiting' \subseteq Made
         /\ reply' \in [Request -> [kind : ReplyKind, of : Made \union {NoRequest}]]
         /\ pendingServerRequests' \in [Agent -> [Id -> Made \union {NoRequest}]]
         /\ toHub' \in [Agent -> Seq(Message)]
<1> DEFINE r == pendingServerRequests[a][i]
<1>1. CASE r = NoRequest
  BY <1>1 DEF TypeOK, Resolve, settleVars
<1>2. CASE r # NoRequest
  <2>1. r \in Made
    BY <1>2 DEF TypeOK
  <2>2. [type |-> "resolved", request |-> r] \in Message
    BY <2>1 DEF Message
  <2>3. Emit(a, [type |-> "resolved", request |-> r])
    BY <1>2 DEF Resolve
  <2>4. toHub' \in [Agent -> Seq(Message)]
    BY <2>2, <2>3, EmitTypes
  <2>5. Settle(IF alive[a] THEN WaitingAs(a, i) ELSE {}, kind, q)
    BY <1>2 DEF Resolve
  <2>6. /\ waiting' \subseteq Made
        /\ reply' \in [Request -> [kind : ReplyKind, of : Made \union {NoRequest}]]
    BY <2>5, SettleTypes
  <2>7. pendingServerRequests' = [pendingServerRequests EXCEPT ![a][i] = NoRequest]
    BY <1>2 DEF Resolve
  <2>8. pendingServerRequests' \in [Agent -> [Id -> Made \union {NoRequest}]]
    BY <2>7 DEF TypeOK
  <2> QED
    BY <2>4, <2>6, <2>8
<1> QED
  BY <1>1, <1>2

\* The message types grow with the requests made.
LEMMA WiderMessages ==
  ASSUME TypeOK, Made \subseteq Made'
  PROVE  toHub \in [Agent -> Seq(Message')]
<1>1. Message \subseteq Message'
  BY DEF Message
<1>2. ASSUME NEW a \in Agent PROVE toHub[a] \in Seq(Message')
  <2>1. toHub[a] \in Seq(Message)
    BY DEF TypeOK
  <2> QED
    BY <1>1, <2>1, WiderSeq
<1> QED
  BY <1>2 DEF TypeOK

\* A request of codex keeps the types: what is known of the others stays known.
LEMMA MakeTypes ==
  ASSUME TypeOK, NEW c \in Conversation, NEW r \in Request, MakeRequest(c, r)
  PROVE  TypeOK'
<1> DEFINE a == AgentOf[c]
           i == nextId[a]
<1>1. a \in Agent /\ i \in Id /\ r \notin Made /\ i \in Nat /\ alive[a]
  BY ConstantsAssumption DEF MakeRequest, TypeOK, Id
<1>2. Made' = Made \union {r}
  BY DEF MakeRequest, Made
<1>3. about' \in [Made' -> [conversation : Conversation, turn : Nat \ {0},
                            life : Nat \ {0}, id : Id]]
  <2>1. Numbered(c) \in [conversation : Conversation, turn : Nat \ {0},
                         life : Nat \ {0}, id : Id]
    BY <1>1 DEF Numbered, TypeOK
  <2> QED
    BY <1>2, <2>1 DEF MakeRequest, TypeOK
<1>4. nextId' \in [Agent -> 0 .. (MaxId + 1)]
  BY <1>1, ConstantsAssumption DEF MakeRequest, TypeOK, Id
<1>5. toHub \in [Agent -> Seq(Message')]
  BY <1>2, WiderMessages
<1>6. /\ waiting' \subseteq Made'
      /\ reply' \in [Request -> [kind : ReplyKind, of : Made' \union {NoRequest}]]
      /\ pendingServerRequests' \in [Agent -> [Id -> Made' \union {NoRequest}]]
      /\ toHub' \in [Agent -> Seq(Message')]
  <2>1. CASE AskUser(a, i, r)
    <3>1. [type |-> "request", request |-> r] \in Message'
      BY <1>2 DEF Message
    <3>2. toHub' \in [Agent -> Seq(Message')]
      BY <1>1, <1>5, <2>1, <3>1 DEF AskUser, Emit
    <3>3. pendingServerRequests' = [pendingServerRequests EXCEPT ![a][i] = r]
      BY <2>1 DEF AskUser
    <3>4. pendingServerRequests' \in [Agent -> [Id -> Made' \union {NoRequest}]]
      BY <1>1, <1>2, <3>3 DEF TypeOK
    <3>5. waiting' \subseteq Made'
      BY <1>2, <2>1 DEF AskUser, Settle, TypeOK
    <3>6. reply' \in [Request -> [kind : ReplyKind, of : Made' \union {NoRequest}]]
      BY <1>2, <2>1 DEF AskUser, Settle, TypeOK, ReplyKind
    <3> QED
      BY <3>2, <3>4, <3>5, <3>6
  <2>2. CASE RefuseRequest(r)
    BY <1>2, <1>5, <2>2 DEF RefuseRequest, Settle, TypeOK, ReplyKind
  <2> QED
    BY <2>1, <2>2 DEF MakeRequest
<1>7. /\ UNCHANGED <<turn, life, alive, announced, linkVars, toAgent, hubVars>>
  BY DEF MakeRequest
<1>8. toAgent' \in [Agent -> SUBSET [answer : Made', entry : Made']]
  BY <1>2, <1>7 DEF TypeOK
<1> QED
  BY <1>2, <1>3, <1>4, <1>6, <1>7, <1>8 DEF TypeOK, linkVars, hubVars

\* The end of a codex process keeps the types of what it changes.
LEMMA GoneTypes ==
  ASSUME TypeOK, NEW a \in Agent, CodexGone(a)
  PROVE  /\ turn' \in [Conversation -> Nat \ {0}]
         /\ alive' \in [Agent -> BOOLEAN]
         /\ \A b \in Agent : alive'[b] => life'[b] > 0
         /\ waiting' \subseteq Made
         /\ UNCHANGED <<about, life, nextId, announced, reply>>
<1>1. turn' \in [Conversation -> Nat \ {0}]
  BY DEF CodexGone, TypeOK
<1>2. /\ alive' \in [Agent -> BOOLEAN]
      /\ \A b \in Agent : alive'[b] => life'[b] > 0
  BY DEF CodexGone, TypeOK
<1> QED
  BY <1>1, <1>2 DEF CodexGone, TypeOK

\* Every action keeps the types.
LEMMA TypeStep == TypeOK /\ [Next]_vars => TypeOK'
<1> SUFFICES ASSUME TypeOK, [Next]_vars PROVE TypeOK'
  OBVIOUS
<1> DEFINE Same == UNCHANGED about
<1>same. ASSUME Same PROVE Made' = Made /\ Message' = Message
  BY <1>same DEF Made, Message
<1>1. ASSUME NEW a \in Agent, ChildStart(a) PROVE TypeOK'
  <2>1. /\ life' \in [Agent -> Nat]
        /\ alive' \in [Agent -> BOOLEAN]
        /\ \A b \in Agent : alive'[b] => life'[b] > 0
    BY <1>1 DEF ChildStart, TypeOK
  <2>2. nextId' \in [Agent -> 0 .. (MaxId + 1)]
    BY <1>1, ConstantsAssumption DEF ChildStart, TypeOK
  <2>3. UNCHANGED <<about, turn, announced, settleVars, pendingServerRequests, linkVars,
                    toHub, toAgent, hubVars>>
    BY <1>1 DEF ChildStart
  <2> QED
    BY <1>same, <2>1, <2>2, <2>3 DEF TypeOK, settleVars, linkVars, hubVars
<1>2. ASSUME NEW a \in Agent, ChildExit(a) PROVE TypeOK'
  <2>1. PICK active \in SUBSET ConversationsOf(a) :
          Emit(a, [type |-> "completed", turns |-> {<<c, turn[c]>> : c \in active}])
    BY <1>2 DEF ChildExit
  <2>2. [type |-> "completed", turns |-> {<<c, turn[c]>> : c \in active}] \in Message
    BY DEF TypeOK, Message, ConversationsOf
  <2>3. toHub' \in [Agent -> Seq(Message)]
    BY <2>1, <2>2, EmitTypes
  <2> QED
    BY <1>2, <1>same, <2>3, GoneTypes DEF ChildExit, TypeOK, linkVars, hubVars
<1>3. ASSUME NEW a \in Agent, HubReceives(a) PROVE TypeOK'
  <2>1. PICK m \in Message : m = Head(toHub[a])
    BY <1>3, HeadTailProperties DEF HubReceives, TypeOK
  <2>2. toHub' \in [Agent -> Seq(Message)]
    BY <1>3, HeadTailProperties DEF HubReceives, TypeOK
  <2>3. /\ pendingServerResponses' \in [Id -> Made \union {NoRequest}]
        /\ cards' \subseteq Made
    BY <1>3, <2>1 DEF HubReceives, TypeOK, Message, ClearTurns
  <2> QED
    BY <1>3, <1>same, <2>2, <2>3 DEF HubReceives, TypeOK, codexVars, settleVars, linkVars
<1>4. ASSUME NEW a \in Agent, Disconnect(a) PROVE TypeOK'
  <2>1. toHub' \in [Agent -> Seq(Message)]
    BY <1>4, EmptySeq DEF Disconnect, TypeOK
  <2>2. link' \in [Agent -> {"up", "dead", "down"}] /\ faults' \in Nat
    BY <1>4 DEF Disconnect, TypeOK
  <2>3. toAgent' \in [Agent -> SUBSET [answer : Made, entry : Made]]
    <3>1. PICK read \in SUBSET toAgent[a] : toAgent' = [toAgent EXCEPT ![a] = read]
      BY <1>4 DEF Disconnect
    <3> QED
      BY <3>1 DEF TypeOK
  <2>4. UNCHANGED <<about, codexVars, announced, settleVars, pendingServerRequests,
                    replaced, hubVars>>
    BY <1>4 DEF Disconnect
  <2> QED
    BY <1>same, <2>1, <2>2, <2>3, <2>4 DEF TypeOK, codexVars, settleVars, hubVars
<1>5. ASSUME NEW a \in Agent, HubClose(a) \/ Connect(a) \/ OldClose(a) PROVE TypeOK'
  <2>1. ClearAgent(a) \in [Id -> Made \union {NoRequest}]
    BY DEF ClearAgent, TypeOK
  <2>2. CASE HubClose(a)
    BY <1>same, <2>1, <2>2 DEF HubClose, TypeOK, codexVars, settleVars
  <2>3. CASE Connect(a)
    BY <1>same, <2>3 DEF Connect, TypeOK, codexVars, settleVars, hubVars
  <2>4. CASE OldClose(a)
    <3>1. replaced' \in [Agent -> Nat]
      BY <2>4 DEF OldClose, TypeOK
    <3> QED
      BY <1>same, <2>1, <2>4, <3>1 DEF OldClose, TypeOK, codexVars, settleVars
  <2> QED
    BY <1>5, <2>2, <2>3, <2>4
<1>6. ASSUME NEW a \in Agent, AgentRestart(a) PROVE TypeOK'
  <2>1. toHub' \in [Agent -> Seq(Message)]
    BY <1>6, EmptySeq DEF AgentRestart, TypeOK
  <2>2. /\ link' \in [Agent -> {"up", "dead", "down"}] /\ faults' \in Nat
        /\ toAgent' \in [Agent -> SUBSET [answer : Made, entry : Made]]
        /\ pendingServerRequests' \in [Agent -> [Id -> Made \union {NoRequest}]]
    BY <1>6 DEF AgentRestart, TypeOK
  <2>3. CodexGone(a) /\ UNCHANGED <<replaced, hubVars>>
    BY <1>6 DEF AgentRestart
  <2> QED
    BY <1>same, <2>1, <2>2, <2>3, GoneTypes DEF TypeOK, hubVars
<1>7. ASSUME NEW a \in Agent, NEW m \in toAgent[a], AgentReceives(a, m) PROVE TypeOK'
  <2>1. m.answer \in Made /\ m.entry \in Made /\ about[m.entry].id \in Id
    BY DEF TypeOK
  <2>2. PICK kind \in Opened(m) : Resolve(a, about[m.entry].id, kind, m.answer)
    BY <1>7 DEF AgentReceives
  <2>3. kind \in ReplyKind
    BY DEF Opened, ReplyKind
  <2>4. /\ waiting' \subseteq Made
        /\ reply' \in [Request -> [kind : ReplyKind, of : Made \union {NoRequest}]]
        /\ pendingServerRequests' \in [Agent -> [Id -> Made \union {NoRequest}]]
        /\ toHub' \in [Agent -> Seq(Message)]
    BY <2>1, <2>2, <2>3, ResolveTypes
  <2> QED
    BY <1>7, <1>same, <2>4 DEF AgentReceives, TypeOK, codexVars, linkVars, hubVars
<1>8. ASSUME NEW c \in Conversation, TurnEnds(c) PROVE TypeOK'
  <2>1. AgentOf[c] \in Agent
    BY ConstantsAssumption
  <2>2. [type |-> "completed", turns |-> {<<c, turn[c]>>}] \in Message
    BY DEF TypeOK, Message
  <2>3. toHub' \in [Agent -> Seq(Message)]
    BY <1>8, <2>1, <2>2, EmitTypes DEF TurnEnds
  <2>4. turn' \in [Conversation -> Nat \ {0}] /\ waiting' \subseteq Made
    BY <1>8 DEF TurnEnds, TypeOK
  <2>5. UNCHANGED <<about, life, alive, nextId, announced, reply,
                    pendingServerRequests, linkVars, toAgent, hubVars>>
    BY <1>8 DEF TurnEnds
  <2> QED
    BY <1>same, <2>3, <2>4, <2>5 DEF TypeOK, linkVars, hubVars
<1>9. ASSUME NEW c \in Conversation, NEW r \in Request, MakeRequest(c, r) PROVE TypeOK'
  BY <1>9, MakeTypes
<1>10. ASSUME NEW r \in Made, Announce(r) PROVE TypeOK'
  <2> DEFINE a == AgentOfRequest(r)
             i == about[r].id
             filed == pendingServerRequests[a][i]
             named == IF filed = NoRequest THEN r ELSE filed
  <2>1. a \in Agent /\ i \in Id
    BY ConstantsAssumption DEF TypeOK, AgentOfRequest
  <2>2. named \in Made
    BY <2>1 DEF TypeOK
  <2>3. [type |-> "resolved", request |-> named] \in Message
    BY <2>2 DEF Message
  <2>4. toHub' \in [Agent -> Seq(Message)]
    <3>1. CASE Emit(a, [type |-> "resolved", request |-> named])
      BY <2>1, <2>3, <3>1, EmitTypes
    <3>2. CASE UNCHANGED toHub
      BY <3>2 DEF TypeOK
    <3> QED
      BY <1>10, <3>1, <3>2 DEF Announce
  <2>5. \/ pendingServerRequests' = [pendingServerRequests EXCEPT ![a][i] = NoRequest]
        \/ UNCHANGED pendingServerRequests
    BY <1>10 DEF Announce
  <2>6. pendingServerRequests' \in [Agent -> [Id -> Made \union {NoRequest}]]
    <3> HIDE DEF a, i
    <3>1. pendingServerRequests \in [Agent -> [Id -> Made \union {NoRequest}]]
      BY DEF TypeOK
    <3>2. [pendingServerRequests EXCEPT ![a][i] = NoRequest]
            \in [Agent -> [Id -> Made \union {NoRequest}]]
      BY <2>1, <3>1
    <3> QED
      BY <2>5, <3>1, <3>2
  <2> QED
    BY <1>10, <1>same, <2>4, <2>6 DEF Announce, TypeOK, codexVars, linkVars, hubVars
<1>11. ASSUME NEW r \in Made, UserAnswers(r) \/ HubRoutes(r) PROVE TypeOK'
  <2>1. CASE UserAnswers(r)
    BY <1>same, <2>1 DEF UserAnswers, TypeOK, codexVars, settleVars, linkVars
  <2>2. CASE HubRoutes(r)
    <3> DEFINE i == about[r].id
               entry == pendingServerResponses[i]
               a == AgentOfRequest(entry)
    <3>1. i \in Id /\ entry \in Made \union {NoRequest}
      BY DEF TypeOK
    <3>2. \/ UNCHANGED <<pendingServerResponses, toAgent>>
          \/ /\ entry \in Made
             /\ pendingServerResponses' = [pendingServerResponses EXCEPT ![i] = NoRequest]
             /\ \/ UNCHANGED toAgent
                \/ toAgent' = [toAgent EXCEPT ![a] =
                                 @ \union {[answer |-> r, entry |-> entry]}]
      BY <2>2, <3>1 DEF HubRoutes
    <3>3. pendingServerResponses' \in [Id -> Made \union {NoRequest}]
      BY <3>1, <3>2 DEF TypeOK
    <3>4. toAgent' \in [Agent -> SUBSET [answer : Made, entry : Made]]
      <4>1. [answer |-> r, entry |-> entry] \in [answer : Made, entry : Made]
              \/ UNCHANGED toAgent
        BY <3>2
      <4> HIDE DEF entry, a
      <4>2. toAgent \in [Agent -> SUBSET [answer : Made, entry : Made]]
        BY DEF TypeOK
      <4> QED
        BY <3>2, <4>1, <4>2
    <3>5. answers' \subseteq Made
      BY <2>2 DEF HubRoutes, TypeOK
    <3>6. UNCHANGED <<about, codexVars, announced, settleVars, pendingServerRequests,
                      linkVars, toHub, cards>>
      BY <2>2 DEF HubRoutes
    <3> QED
      BY <1>same, <3>3, <3>4, <3>5, <3>6 DEF TypeOK, codexVars, settleVars, linkVars
  <2> QED
    BY <1>11, <2>1, <2>2
<1>12. ASSUME NEW i \in Id, Expire(i) PROVE TypeOK'
  BY <1>12, <1>same DEF Expire, TypeOK, codexVars, settleVars, linkVars
<1>13. CASE HubRestart
  <2>1. toHub' \in [Agent -> Seq(Message)]
    BY <1>13, EmptySeq DEF HubRestart, TypeOK
  <2> QED
    BY <1>13, <1>same, <2>1 DEF HubRestart, TypeOK, codexVars, settleVars
<1>14. CASE UNCHANGED vars
  BY <1>14, <1>same DEF vars, TypeOK, codexVars, settleVars, linkVars, hubVars
<1> QED
  BY <1>1, <1>2, <1>3, <1>4, <1>5, <1>6, <1>7, <1>8, <1>9, <1>10, <1>11, <1>12, <1>13, <1>14
  DEF Next

\* Nothing has been made at first.
LEMMA InitTypes == Init => TypeOK
<1> SUFFICES ASSUME Init PROVE TypeOK
  OBVIOUS
<1>1. Made = {}
  BY DEF Init, Made
<1>2. about \in [Made -> [conversation : Conversation, turn : Nat \ {0},
                        life : Nat \ {0}, id : Id]]
  BY <1>1 DEF Init
<1>3. toHub \in [Agent -> Seq(Message)]
  BY EmptySeq DEF Init
<1>4. nextId \in [Agent -> 0 .. (MaxId + 1)]
  BY ConstantsAssumption DEF Init
<1> QED
  BY <1>1, <1>2, <1>3, <1>4 DEF Init, TypeOK, ReplyKind

\* The maps of the agent, the hub and the phone keep their types, and name only
\* requests that codex has made.
THEOREM TypeCorrect == Spec => []TypeOK
<1>1. Init => TypeOK
  BY InitTypes
<1>2. TypeOK /\ [Next]_vars => TypeOK'
  BY TypeStep
<1> QED
  BY <1>1, <1>2, PTL DEF Spec

-----------------------------------------------------------------------------
(* Numbers.  Within one process of codex a number stands for one request.    *)

\* The requests of the running codex have the numbers it has used so far.
Numbering ==
  \A r \in Made :
    /\ about[r].life <= life[AgentOfRequest(r)]
    /\ about[r].life = life[AgentOfRequest(r)] => about[r].id < nextId[AgentOfRequest(r)]

DistinctNumbers ==
  \A r, s \in Made :
    /\ AgentOfRequest(r) = AgentOfRequest(s)
    /\ about[r].life = about[s].life
    /\ about[r].id = about[s].id
    => r = s

\* Only the start of codex and its requests change what the numbers are about.
LEMMA NumbersChange ==
  ASSUME [Next]_vars
  PROVE  \/ UNCHANGED <<about, life, nextId>>
         \/ \E a \in Agent : ChildStart(a)
         \/ \E c \in Conversation, r \in Request : MakeRequest(c, r)
  BY DEF Next, vars, codexVars, ChildExit, CodexGone, HubReceives, Disconnect, HubClose,
         Connect, OldClose, AgentRestart, AgentReceives, TurnEnds, Announce, UserAnswers,
         HubRoutes, Expire, HubRestart

\* What is known of a request does not change when codex makes another.
LEMMA MakeAbout ==
  ASSUME TypeOK, NEW c \in Conversation, NEW r \in Request, MakeRequest(c, r)
  PROVE  /\ Made' = Made \union {r} /\ r \notin Made
         /\ \A s \in Made : about'[s] = about[s] /\ AgentOfRequest(s)' = AgentOfRequest(s)
         /\ about'[r] = Numbered(c) /\ AgentOfRequest(r)' = AgentOf[c]
         /\ AgentOf[c] \in Agent
         /\ Numbered(c).life = life[AgentOf[c]] /\ Numbered(c).id = nextId[AgentOf[c]]
         /\ Numbered(c).conversation = c
<1>1. Made' = Made \union {r} /\ r \notin Made
  BY DEF MakeRequest, Made
<1>2. /\ \A s \in Made : about'[s] = about[s]
      /\ about'[r] = Numbered(c)
  BY <1>1 DEF MakeRequest
<1>3. AgentOfRequest(r)' = AgentOf[c]
  BY <1>2 DEF AgentOfRequest, Numbered
<1> QED
  BY <1>1, <1>2, <1>3, ConstantsAssumption DEF AgentOfRequest, Numbered

\* No step gives a number of one process to two requests.
LEMMA NumberingStep ==
  TypeOK /\ Numbering /\ DistinctNumbers /\ [Next]_vars => Numbering' /\ DistinctNumbers'
<1> SUFFICES ASSUME TypeOK, Numbering, DistinctNumbers, [Next]_vars
             PROVE  Numbering' /\ DistinctNumbers'
  OBVIOUS
<1>1. CASE UNCHANGED <<about, life, nextId>>
  BY <1>1 DEF Numbering, DistinctNumbers, Made, AgentOfRequest
<1>2. ASSUME NEW a \in Agent, ChildStart(a) PROVE Numbering' /\ DistinctNumbers'
  <2>1. UNCHANGED about
    BY <1>2 DEF ChildStart
  <2>2. DistinctNumbers'
    BY <2>1 DEF DistinctNumbers, Made, AgentOfRequest
  <2>3. ASSUME NEW r \in Made
        PROVE  /\ about[r].life <= life'[AgentOfRequest(r)]
               /\ about[r].life = life'[AgentOfRequest(r)]
                    => about[r].id < nextId'[AgentOfRequest(r)]
    <3>1. AgentOfRequest(r) \in Agent
      BY ConstantsAssumption DEF TypeOK, AgentOfRequest
    <3>2. about[r].life \in Nat
      BY DEF TypeOK
    <3>3. CASE AgentOfRequest(r) = a
      <4>1. life'[a] = life[a] + 1 /\ life[a] \in Nat
        BY <1>2 DEF ChildStart, TypeOK
      <4>2. about[r].life <= life[a]
        BY <3>3 DEF Numbering
      <4> QED
        BY <3>2, <3>3, <4>1, <4>2
    <3>4. CASE AgentOfRequest(r) # a
      BY <1>2, <3>1, <3>4 DEF ChildStart, TypeOK, Numbering
    <3> QED
      BY <3>3, <3>4
  <2> QED
    BY <2>1, <2>2, <2>3 DEF Numbering, Made, AgentOfRequest
<1>3. ASSUME NEW c \in Conversation, NEW r \in Request, MakeRequest(c, r)
      PROVE  Numbering' /\ DistinctNumbers'
  <2> DEFINE a == AgentOf[c]
  <2>1. /\ Made' = Made \union {r} /\ r \notin Made
        /\ \A s \in Made : about'[s] = about[s] /\ AgentOfRequest(s)' = AgentOfRequest(s)
        /\ about'[r] = Numbered(c) /\ AgentOfRequest(r)' = a
        /\ a \in Agent
        /\ Numbered(c).life = life[a] /\ Numbered(c).id = nextId[a]
    BY <1>3, MakeAbout
  <2>2. life' = life /\ nextId' = [nextId EXCEPT ![a] = @ + 1]
    BY <1>3 DEF MakeRequest
  <2>3. nextId[a] \in Nat /\ life[a] \in Nat
    BY <2>1, ConstantsAssumption DEF TypeOK
  <2>4. ASSUME NEW s \in Made
        PROVE  /\ about[s].life <= life[AgentOfRequest(s)]
               /\ about[s].life = life[AgentOfRequest(s)]
                    => about[s].id < nextId'[AgentOfRequest(s)]
    <3>1. about[s].id \in Nat
      BY ConstantsAssumption DEF TypeOK, Id
    <3>2. nextId[AgentOfRequest(s)] \in Nat /\ AgentOfRequest(s) \in Agent
      BY ConstantsAssumption DEF TypeOK, AgentOfRequest
    <3>3. nextId'[AgentOfRequest(s)] >= nextId[AgentOfRequest(s)]
      BY <2>2, <2>3, <3>2 DEF TypeOK
    <3>4. nextId'[AgentOfRequest(s)] \in Nat
      BY <2>2, <2>3, <3>2 DEF TypeOK
    <3> QED
      BY <3>1, <3>2, <3>3, <3>4 DEF Numbering
  <2>5. about'[r].life = life[a] /\ about'[r].id = nextId[a] /\ nextId'[a] = nextId[a] + 1
    BY <2>1, <2>2 DEF TypeOK
  <2>6. Numbering'
    <3> SUFFICES ASSUME NEW s \in Made'
                 PROVE  /\ about'[s].life <= life'[AgentOfRequest(s)']
                        /\ about'[s].life = life'[AgentOfRequest(s)']
                             => about'[s].id < nextId'[AgentOfRequest(s)']
      BY DEF Numbering
    <3>1. CASE s \in Made
      BY <2>1, <2>2, <2>4, <3>1
    <3>2. CASE s = r
      BY <2>1, <2>2, <2>3, <2>5, <3>2
    <3> QED
      BY <2>1, <3>1, <3>2
  <2>7. ASSUME NEW s \in Made, AgentOfRequest(s) = a, about[s].life = life[a]
        PROVE  about[s].id # nextId[a]
    <3>1. about[s].id < nextId[a]
      BY <2>7 DEF Numbering
    <3>2. about[s].id \in Nat
      BY ConstantsAssumption DEF TypeOK, Id
    <3> QED
      BY <2>3, <3>1, <3>2
  <2>8. DistinctNumbers'
    BY <2>1, <2>5, <2>7 DEF DistinctNumbers
  <2> QED
    BY <2>6, <2>8
<1> QED
  BY <1>1, <1>2, <1>3, NumbersChange

\* No number is given at first.
LEMMA NumberingInit == Init => Numbering /\ DistinctNumbers
  BY DEF Init, Made, Numbering, DistinctNumbers

-----------------------------------------------------------------------------
(* What is filed.  Codex waits only for requests of the process that runs,   *)
(* and each of them is filed under its number.                               *)

WaitingRuns ==
  \A r \in waiting : /\ alive[AgentOfRequest(r)]
                     /\ about[r].life = life[AgentOfRequest(r)]

FiledRight ==
  \A a \in Agent, i \in Id : pendingServerRequests[a][i] # NoRequest =>
    /\ AgentOfRequest(pendingServerRequests[a][i]) = a
    /\ about[pendingServerRequests[a][i]].id = i

Filing == WaitingRuns /\ FiledRight /\ WaitingIsFiled

\* Two requests codex waits for on an agent have different numbers.
LEMMA WaitingDiffer ==
  ASSUME WaitingRuns, DistinctNumbers, TypeOK,
         NEW r \in waiting, NEW s \in Made, AgentOfRequest(r) = AgentOfRequest(s),
         about[s].life = life[AgentOfRequest(s)], about[r].id = about[s].id
  PROVE  r = s
<1>1. r \in Made /\ about[r].life = about[s].life
  BY DEF WaitingRuns, TypeOK
<1> QED
  BY <1>1 DEF DistinctNumbers

\* Emptying the entry of a number, with codex waiting no more for it, and for
\* nothing else that is new.
LEMMA UnfileKeeps ==
  ASSUME TypeOK, Filing, NEW a \in Agent, NEW i \in Id,
         pendingServerRequests' = [pendingServerRequests EXCEPT ![a][i] = NoRequest],
         waiting' \subseteq waiting,
         \A r \in waiting' : ~(AgentOfRequest(r) = a /\ about[r].id = i),
         UNCHANGED <<about, alive, life>>
  PROVE  Filing'
<1>1. ASSUME NEW b \in Agent, NEW j \in Id
      PROVE  pendingServerRequests'[b][j] =
               IF b = a /\ j = i THEN NoRequest ELSE pendingServerRequests[b][j]
  BY DEF TypeOK
<1>2. WaitingRuns'
  BY DEF Filing, WaitingRuns, AgentOfRequest
<1>3. FiledRight'
  BY <1>1 DEF Filing, FiledRight, AgentOfRequest
<1>4. WaitingIsFiled'
  <2> SUFFICES ASSUME NEW r \in waiting'
               PROVE  pendingServerRequests'[AgentOfRequest(r)][about[r].id] = r
    BY DEF WaitingIsFiled, AgentOfRequest
  <2>1. r \in waiting /\ r \in Made
    BY DEF TypeOK
  <2>2. AgentOfRequest(r) \in Agent /\ about[r].id \in Id
    BY <2>1, ConstantsAssumption DEF TypeOK, AgentOfRequest
  <2> QED
    BY <1>1, <2>1, <2>2 DEF Filing, WaitingIsFiled
<1> QED
  BY <1>2, <1>3, <1>4 DEF Filing

\* With nothing filed or unfiled, codex may only wait for less.
LEMMA LessWaiting ==
  ASSUME TypeOK, Filing, waiting' \subseteq waiting,
         UNCHANGED <<about, pendingServerRequests>>,
         \A r \in waiting' : /\ alive'[AgentOfRequest(r)] = alive[AgentOfRequest(r)]
                             /\ life'[AgentOfRequest(r)] = life[AgentOfRequest(r)]
  PROVE  Filing'
<1>1. WaitingRuns'
  BY DEF Filing, WaitingRuns, AgentOfRequest
<1>2. FiledRight' /\ WaitingIsFiled'
  BY DEF Filing, FiledRight, WaitingIsFiled, AgentOfRequest
<1> QED
  BY <1>1, <1>2 DEF Filing

\* Resolving an entry.
LEMMA ResolveKeeps ==
  ASSUME TypeOK, Filing, NEW a \in Agent, NEW i \in Id, NEW kind, NEW q,
         Resolve(a, i, kind, q), UNCHANGED <<about, alive, life>>
  PROVE  Filing'
<1>1. CASE pendingServerRequests[a][i] = NoRequest
  BY <1>1, LessWaiting DEF Resolve, settleVars
<1>2. CASE pendingServerRequests[a][i] # NoRequest
  <2>1. /\ pendingServerRequests' = [pendingServerRequests EXCEPT ![a][i] = NoRequest]
        /\ waiting' = waiting \ (IF alive[a] THEN WaitingAs(a, i) ELSE {})
    BY <1>2 DEF Resolve, Settle
  <2>2. ASSUME NEW r \in waiting' PROVE ~(AgentOfRequest(r) = a /\ about[r].id = i)
    BY <2>1 DEF WaitingAs, Filing, WaitingRuns
  <2> QED
    BY <2>1, <2>2, UnfileKeeps
<1> QED
  BY <1>1, <1>2

\* A request of codex is filed, over whatever an earlier codex left there.
LEMMA MakeKeeps ==
  ASSUME TypeOK, Numbering, Filing,
         NEW c \in Conversation, NEW r \in Request, MakeRequest(c, r)
  PROVE  Filing'
<1> DEFINE a == AgentOf[c]
           i == nextId[a]
<1>1. /\ Made' = Made \union {r} /\ r \notin Made
      /\ \A s \in Made : about'[s] = about[s] /\ AgentOfRequest(s)' = AgentOfRequest(s)
      /\ about'[r].life = life[a] /\ about'[r].id = i /\ AgentOfRequest(r)' = a
      /\ a \in Agent
  BY MakeAbout
<1>2. alive[a] /\ i \in Id /\ UNCHANGED <<life, alive>>
  BY DEF MakeRequest
<1>3. r # NoRequest /\ r \notin waiting /\ waiting \subseteq Made
  BY <1>1, ConstantsAssumption DEF TypeOK
<1>4. CASE RefuseRequest(r)
  <2>1. waiting' = waiting /\ pendingServerRequests' = pendingServerRequests
    BY <1>3, <1>4 DEF RefuseRequest, Settle
  <2>2. \A b \in Agent, j \in Id :
          pendingServerRequests[b][j] # NoRequest => pendingServerRequests[b][j] \in Made
    BY DEF TypeOK
  <2>3. WaitingRuns'
    BY <1>1, <1>2, <1>3, <2>1 DEF Filing, WaitingRuns
  <2>4. FiledRight'
    BY <1>1, <2>1, <2>2 DEF Filing, FiledRight
  <2>5. WaitingIsFiled'
    BY <1>1, <1>3, <2>1 DEF Filing, WaitingIsFiled
  <2> QED
    BY <2>3, <2>4, <2>5 DEF Filing
<1>5. CASE AskUser(a, i, r)
  <2>1. pendingServerRequests' = [pendingServerRequests EXCEPT ![a][i] = r]
    BY <1>5 DEF AskUser
  <2>2. ASSUME NEW b \in Agent, NEW j \in Id
        PROVE  pendingServerRequests'[b][j] =
                 IF b = a /\ j = i THEN r ELSE pendingServerRequests[b][j]
    BY <1>1, <1>2, <2>1 DEF TypeOK
  <2>3. ASSUME NEW b \in Agent, NEW j \in Id
        PROVE  pendingServerRequests[b][j] # NoRequest => pendingServerRequests[b][j] \in Made
    BY DEF TypeOK
  <2>4. waiting' \subseteq waiting \union {r}
    BY <1>5 DEF AskUser, Settle
  <2>5. WaitingRuns'
    <3> SUFFICES ASSUME NEW s \in waiting'
                 PROVE  /\ alive'[AgentOfRequest(s)']
                        /\ about'[s].life = life'[AgentOfRequest(s)']
      BY DEF WaitingRuns
    <3>1. CASE s = r
      BY <1>1, <1>2, <3>1
    <3>2. CASE s \in waiting
      <4>1. AgentOfRequest(s)' = AgentOfRequest(s) /\ about'[s] = about[s]
        BY <1>1, <1>3, <3>2
      <4>2. alive[AgentOfRequest(s)] /\ about[s].life = life[AgentOfRequest(s)]
        BY <3>2 DEF Filing, WaitingRuns
      <4> QED
        BY <1>2, <4>1, <4>2
    <3> QED
      BY <2>4, <3>1, <3>2
  <2>6. FiledRight'
    <3> SUFFICES ASSUME NEW b \in Agent, NEW j \in Id,
                        pendingServerRequests'[b][j] # NoRequest
                 PROVE  /\ AgentOfRequest(pendingServerRequests[b][j])' = b
                        /\ about'[pendingServerRequests'[b][j]].id = j
      BY DEF FiledRight
    <3>1. CASE b = a /\ j = i
      BY <1>1, <2>2, <3>1 DEF AgentOfRequest
    <3>2. CASE ~(b = a /\ j = i)
      <4>1. pendingServerRequests'[b][j] = pendingServerRequests[b][j]
        BY <2>2, <3>2
      <4>2. pendingServerRequests[b][j] \in Made
        BY <2>3, <4>1
      <4>3. /\ AgentOfRequest(pendingServerRequests[b][j]) = b
            /\ about[pendingServerRequests[b][j]].id = j
        BY <4>1 DEF Filing, FiledRight
      <4> QED
        BY <1>1, <4>1, <4>2, <4>3 DEF AgentOfRequest
    <3> QED
      BY <3>1, <3>2
  <2>7. WaitingIsFiled'
    <3> SUFFICES ASSUME NEW s \in waiting'
                 PROVE  pendingServerRequests'[AgentOfRequest(s)'][about'[s].id] = s
      BY DEF WaitingIsFiled
    <3>1. CASE s = r
      BY <1>1, <1>2, <2>2, <3>1
    <3>2. CASE s \in waiting
      <4>1. s \in Made /\ AgentOfRequest(s)' = AgentOfRequest(s) /\ about'[s] = about[s]
        BY <1>1, <1>3, <3>2
      <4>2. AgentOfRequest(s) \in Agent /\ about[s].id \in Id
        BY <4>1, ConstantsAssumption DEF TypeOK, AgentOfRequest
      <4>3. ~(AgentOfRequest(s) = a /\ about[s].id = i)
        <5>1. about[s].id < nextId[AgentOfRequest(s)]
          BY <3>2, <4>1 DEF Filing, WaitingRuns, Numbering
        <5>2. about[s].id \in Int
          BY <4>2 DEF Id
        <5> QED
          BY <5>1, <5>2
      <4>4. pendingServerRequests[AgentOfRequest(s)][about[s].id] = s
        BY <3>2 DEF Filing, WaitingIsFiled
      <4> QED
        BY <2>2, <4>1, <4>2, <4>3, <4>4
    <3> QED
      BY <2>4, <3>1, <3>2
  <2> QED
    BY <2>5, <2>6, <2>7 DEF Filing
<1> QED
  BY <1>4, <1>5 DEF MakeRequest

\* No step, a restart of codex or of the agent included, loses the entry of a
\* request codex waits for.
LEMMA FilingStep ==
  TypeOK /\ Numbering /\ DistinctNumbers /\ Filing /\ [Next]_vars => Filing'
<1> SUFFICES ASSUME TypeOK, Numbering, DistinctNumbers, Filing, [Next]_vars PROVE Filing'
  OBVIOUS
<1>1. ASSUME NEW a \in Agent, ChildStart(a) PROVE Filing'
  <2>1. \A r \in waiting : AgentOfRequest(r) # a /\ AgentOfRequest(r) \in Agent
    BY <1>1, ConstantsAssumption DEF ChildStart, Filing, WaitingRuns, TypeOK, AgentOfRequest
  <2>2. /\ alive' = [alive EXCEPT ![a] = TRUE] /\ life' = [life EXCEPT ![a] = @ + 1]
        /\ UNCHANGED <<about, waiting, pendingServerRequests>>
    BY <1>1 DEF ChildStart, settleVars
  <2> QED
    BY <2>1, <2>2, LessWaiting DEF TypeOK
<1>2. ASSUME NEW a \in Agent, CodexGone(a), UNCHANGED pendingServerRequests PROVE Filing'
  <2>1. \A r \in waiting : AgentOfRequest(r) \in Agent
    BY ConstantsAssumption DEF TypeOK, AgentOfRequest
  <2>2. /\ alive' = [alive EXCEPT ![a] = FALSE] /\ UNCHANGED <<about, life>>
        /\ waiting' = {r \in waiting : AgentOfRequest(r) # a}
    BY <1>2 DEF CodexGone
  <2> QED
    BY <1>2, <2>1, <2>2, LessWaiting DEF TypeOK
<1>3. ASSUME NEW a \in Agent, AgentRestart(a) PROVE Filing'
  <2>1. \A r \in waiting : AgentOfRequest(r) \in Agent /\ about[r].id \in Id
    BY ConstantsAssumption DEF TypeOK, AgentOfRequest
  <2>2. /\ alive' = [alive EXCEPT ![a] = FALSE] /\ UNCHANGED <<about, life>>
        /\ waiting' = {r \in waiting : AgentOfRequest(r) # a}
        /\ pendingServerRequests' = [pendingServerRequests EXCEPT ![a] = [i \in Id |-> NoRequest]]
    BY <1>3 DEF AgentRestart, CodexGone
  <2>3. ASSUME NEW b \in Agent, NEW j \in Id
        PROVE  pendingServerRequests'[b][j] =
                 IF b = a THEN NoRequest ELSE pendingServerRequests[b][j]
    BY <2>2 DEF TypeOK
  <2>4. WaitingRuns'
    BY <2>1, <2>2 DEF Filing, WaitingRuns, AgentOfRequest, TypeOK
  <2>5. FiledRight'
    BY <2>2, <2>3 DEF Filing, FiledRight, AgentOfRequest
  <2>6. WaitingIsFiled'
    BY <2>1, <2>2, <2>3 DEF Filing, WaitingIsFiled, AgentOfRequest
  <2> QED
    BY <2>4, <2>5, <2>6 DEF Filing
<1>4. ASSUME NEW a \in Agent, NEW m \in toAgent[a], AgentReceives(a, m) PROVE Filing'
  <2>1. about[m.entry].id \in Id
    BY DEF TypeOK
  <2> QED
    BY <1>4, <2>1, ResolveKeeps DEF AgentReceives, codexVars
<1>5. ASSUME NEW r \in Made, Announce(r) PROVE Filing'
  <2> DEFINE a == AgentOfRequest(r)
             i == about[r].id
  <2>1. a \in Agent /\ i \in Id
    BY ConstantsAssumption DEF TypeOK, AgentOfRequest
  <2>2. /\ waiting' = waiting \ {r} /\ about[r].life = life[a]
        /\ UNCHANGED <<about, alive, life>>
    BY <1>5 DEF Announce, codexVars
  <2>3. CASE UNCHANGED pendingServerRequests
    BY <2>2, <2>3, LessWaiting
  <2>4. CASE pendingServerRequests' = [pendingServerRequests EXCEPT ![a][i] = NoRequest]
    <3>1. ASSUME NEW s \in waiting' PROVE ~(AgentOfRequest(s) = a /\ about[s].id = i)
      BY <2>2, WaitingDiffer DEF Filing
    <3> QED
      BY <2>1, <2>2, <2>4, <3>1, UnfileKeeps
  <2> QED
    BY <1>5, <2>3, <2>4 DEF Announce
<1>6. ASSUME NEW c \in Conversation, TurnEnds(c) PROVE Filing'
  BY <1>6, LessWaiting DEF TurnEnds
<1>7. ASSUME NEW c \in Conversation, NEW r \in Request, MakeRequest(c, r) PROVE Filing'
  BY <1>7, MakeKeeps
<1>8. CASE UNCHANGED <<about, alive, life, waiting, pendingServerRequests>>
  BY <1>8, LessWaiting
<1>9. CASE UNCHANGED vars
  BY <1>8, <1>9 DEF vars, codexVars, settleVars
<1>10. ASSUME NEW a \in Agent, ChildExit(a) PROVE Filing'
  BY <1>2, <1>10 DEF ChildExit
<1>11. ASSUME NEW a \in Agent,
              HubReceives(a) \/ Disconnect(a) \/ HubClose(a) \/ Connect(a) \/ OldClose(a)
       PROVE  Filing'
  BY <1>8, <1>11
  DEF HubReceives, Disconnect, HubClose, Connect, OldClose, codexVars, settleVars
<1>12. ASSUME NEW r \in Made, UserAnswers(r) \/ HubRoutes(r) PROVE Filing'
  BY <1>8, <1>12 DEF UserAnswers, HubRoutes, codexVars, settleVars
<1>13. ASSUME NEW i \in Id, Expire(i) PROVE Filing'
  BY <1>8, <1>13 DEF Expire, codexVars, settleVars
<1>14. CASE HubRestart
  BY <1>8, <1>14 DEF HubRestart, codexVars, settleVars
<1> QED
  BY <1>1, <1>3, <1>4, <1>5, <1>6, <1>7, <1>9, <1>10, <1>11, <1>12, <1>13, <1>14 DEF Next

\* Nothing is filed at first, and codex waits for nothing.
LEMMA FilingInit == Init => Filing
  BY DEF Init, Filing, WaitingRuns, FiledRight, WaitingIsFiled

\* Numbers and files are right in every state.
LEMMA FilingInvariant == Spec => [](TypeOK /\ Numbering /\ DistinctNumbers /\ Filing)
<1> DEFINE Inv == TypeOK /\ Numbering /\ DistinctNumbers /\ Filing
<1>1. Init => Inv
  BY InitTypes, NumberingInit, FilingInit
<1>2. Inv /\ [Next]_vars => Inv'
  BY TypeStep, NumberingStep, FilingStep
<1> QED
  BY <1>1, <1>2, PTL DEF Spec

\* What codex waits for is filed by the agent under its own number.
THEOREM WaitingFiled == Spec => []WaitingIsFiled
<1>1. Filing => WaitingIsFiled
  BY DEF Filing
<1> QED
  BY <1>1, FilingInvariant, PTL

-----------------------------------------------------------------------------
(* Resolved events.  One that is on its way to the hub names a request that  *)
(* codex no longer waits for.                                                *)

ResolvedIsOver ==
  \A a \in Agent : \A n \in DOMAIN toHub[a] :
    toHub[a][n].type = "resolved" => toHub[a][n].request \notin waiting

\* A message more, after which codex waits for nothing that a resolved event names.
LEMMA EmitOver ==
  ASSUME TypeOK, ResolvedIsOver, NEW a \in Agent, NEW m, Emit(a, m),
         waiting' \subseteq waiting \union (Request \ Made),
         m.type = "resolved" => m.request \notin waiting'
  PROVE  ResolvedIsOver'
<1> SUFFICES ASSUME NEW b \in Agent, NEW n \in DOMAIN toHub'[b],
                    toHub'[b][n].type = "resolved"
             PROVE  toHub'[b][n].request \notin waiting'
  BY DEF ResolvedIsOver
<1>1. toHub[b] \in Seq(Message)
  BY DEF TypeOK
<1>2. CASE n \in DOMAIN toHub[b] /\ toHub'[b][n] = toHub[b][n]
  <2>1. toHub[b][n] \in Message
    BY <1>1, <1>2
  <2>2. toHub[b][n].request \in Made
    BY <1>2, <2>1 DEF Message
  <2> QED
    BY <1>2, <2>2 DEF ResolvedIsOver
<1>3. CASE toHub'[b][n] = m
  BY <1>3
<1>4. CASE link[a] = "up" /\ b = a
  <2>1. toHub'[b] = Append(toHub[b], m)
    BY <1>4 DEF Emit, TypeOK
  <2>2. n \in 1 .. Len(toHub[b]) + 1
    BY <1>1, <2>1
  <2>3. \/ n \in 1 .. Len(toHub[b]) /\ toHub'[b][n] = toHub[b][n]
        \/ toHub'[b][n] = m
    BY <1>1, <2>1, <2>2
  <2> QED
    BY <1>1, <1>2, <1>3, <2>3
<1>5. CASE ~(link[a] = "up" /\ b = a)
  BY <1>2, <1>5 DEF Emit, TypeOK
<1> QED
  BY <1>4, <1>5

\* No message more, and nothing known that codex waits for anew.
LEMMA QuietOver ==
  ASSUME TypeOK, ResolvedIsOver, waiting' \subseteq waiting \union (Request \ Made),
         \A a \in Agent : toHub'[a] = toHub[a] \/ toHub'[a] = <<>>
  PROVE  ResolvedIsOver'
<1> SUFFICES ASSUME NEW b \in Agent, NEW n \in DOMAIN toHub'[b],
                    toHub'[b][n].type = "resolved"
             PROVE  toHub'[b][n].request \notin waiting'
  BY DEF ResolvedIsOver
<1>1. toHub[b] \in Seq(Message) /\ toHub'[b] = toHub[b]
  BY DEF TypeOK
<1>2. toHub[b][n] \in Message
  BY <1>1
<1>3. toHub[b][n].request \in Made
  BY <1>1, <1>2 DEF Message
<1> QED
  BY <1>1, <1>3 DEF ResolvedIsOver

\* No step sends a resolved event of a request codex goes on waiting for.
LEMMA ResolvedStep ==
  TypeOK /\ DistinctNumbers /\ Filing /\ ResolvedIsOver /\ [Next]_vars => ResolvedIsOver'
<1> SUFFICES ASSUME TypeOK, DistinctNumbers, Filing, ResolvedIsOver, [Next]_vars
             PROVE  ResolvedIsOver'
  OBVIOUS
<1>1. CASE UNCHANGED <<toHub, waiting>>
  BY <1>1, QuietOver
<1>2. ASSUME NEW a \in Agent, CodexGone(a) PROVE waiting' \subseteq waiting
  BY <1>2 DEF CodexGone
<1>3. ASSUME NEW a \in Agent, ChildExit(a) PROVE ResolvedIsOver'
  BY <1>2, <1>3, EmitOver DEF ChildExit
<1>4. ASSUME NEW a \in Agent, AgentRestart(a) PROVE ResolvedIsOver'
  BY <1>2, <1>4, QuietOver DEF AgentRestart, TypeOK
<1>5. ASSUME NEW a \in Agent, HubReceives(a) PROVE ResolvedIsOver'
  <2> SUFFICES ASSUME NEW b \in Agent, NEW n \in DOMAIN toHub'[b],
                      toHub'[b][n].type = "resolved"
               PROVE  toHub'[b][n].request \notin waiting'
    BY DEF ResolvedIsOver
  <2>1. toHub[b] \in Seq(Message) /\ waiting' = waiting
    BY <1>5 DEF HubReceives, TypeOK, settleVars
  <2>2. CASE b = a
    <3>1. toHub'[b] = Tail(toHub[b]) /\ toHub[b] # <<>>
      BY <1>5, <2>2 DEF HubReceives, TypeOK
    <3>2. n + 1 \in DOMAIN toHub[b] /\ toHub'[b][n] = toHub[b][n + 1]
      BY <2>1, <3>1
    <3> QED
      BY <2>1, <3>2 DEF ResolvedIsOver
  <2>3. CASE b # a
    BY <1>5, <2>1, <2>3 DEF HubReceives, TypeOK, ResolvedIsOver
  <2> QED
    BY <2>2, <2>3
<1>6. ASSUME NEW a \in Agent, NEW m \in toAgent[a], AgentReceives(a, m)
      PROVE  ResolvedIsOver'
  <2> DEFINE i == about[m.entry].id
             r == pendingServerRequests[a][i]
  <2>1. i \in Id
    BY DEF TypeOK
  <2>2. PICK kind \in Opened(m) : Resolve(a, i, kind, m.answer)
    BY <1>6 DEF AgentReceives
  <2>3. CASE r = NoRequest
    BY <1>1, <2>2, <2>3 DEF Resolve, settleVars
  <2>4. CASE r # NoRequest
    <3>1. /\ Emit(a, [type |-> "resolved", request |-> r])
          /\ waiting' = waiting \ (IF alive[a] THEN WaitingAs(a, i) ELSE {})
      BY <2>2, <2>4 DEF Resolve, Settle
    <3>2. AgentOfRequest(r) = a /\ about[r].id = i
      BY <2>1, <2>4 DEF Filing, FiledRight
    <3>3. r \notin waiting'
      BY <3>1, <3>2 DEF WaitingAs, Filing, WaitingRuns
    <3>4. waiting' \subseteq waiting
      BY <3>1
    <3> HIDE DEF r
    <3> QED
      BY <3>1, <3>3, <3>4, EmitOver
  <2> QED
    BY <2>3, <2>4
<1>7. ASSUME NEW r \in Made, Announce(r) PROVE ResolvedIsOver'
  <2> DEFINE a == AgentOfRequest(r)
             i == about[r].id
             filed == pendingServerRequests[a][i]
             named == IF filed = NoRequest THEN r ELSE filed
  <2>1. a \in Agent /\ i \in Id
    BY ConstantsAssumption DEF TypeOK, AgentOfRequest
  <2>2. waiting' = waiting \ {r} /\ about[r].life = life[a]
    BY <1>7 DEF Announce
  <2>3. CASE UNCHANGED toHub
    BY <2>2, <2>3, QuietOver
  <2>4. CASE Emit(a, [type |-> "resolved", request |-> named])
    <3>1. named \notin waiting'
      <4>1. CASE filed = NoRequest
        BY <2>2, <4>1
      <4>2. CASE filed # NoRequest
        <5>1. AgentOfRequest(filed) = a /\ about[filed].id = i
          BY <2>1, <4>2 DEF Filing, FiledRight
        <5>2. filed \in waiting => filed = r
          BY <2>2, <5>1, WaitingDiffer DEF Filing
        <5> QED
          BY <2>2, <4>2, <5>2
      <4> QED
        BY <4>1, <4>2
    <3>2. waiting' \subseteq waiting
      BY <2>2
    <3> HIDE DEF named, a
    <3> QED
      BY <2>1, <2>4, <3>1, <3>2, EmitOver
  <2> QED
    BY <1>7, <2>3, <2>4 DEF Announce
<1>8. ASSUME NEW c \in Conversation, TurnEnds(c) PROVE ResolvedIsOver'
  <2>1. AgentOf[c] \in Agent /\ waiting' \subseteq waiting
    BY <1>8, ConstantsAssumption DEF TurnEnds
  <2> QED
    BY <1>8, <2>1, EmitOver DEF TurnEnds
<1>9. ASSUME NEW c \in Conversation, NEW r \in Request, MakeRequest(c, r)
      PROVE  ResolvedIsOver'
  <2>1. r \notin Made /\ AgentOf[c] \in Agent
    BY <1>9, ConstantsAssumption DEF MakeRequest
  <2>2. CASE RefuseRequest(r)
    BY <2>2, QuietOver DEF RefuseRequest, Settle
  <2>3. CASE AskUser(AgentOf[c], nextId[AgentOf[c]], r)
    <3>1. waiting' \subseteq waiting \union (Request \ Made)
      BY <2>1, <2>3 DEF AskUser, Settle
    <3> QED
      BY <2>1, <2>3, <3>1, EmitOver DEF AskUser
  <2> QED
    BY <1>9, <2>2, <2>3 DEF MakeRequest
<1>10. ASSUME NEW a \in Agent,
              ChildStart(a) \/ Disconnect(a) \/ HubClose(a) \/ Connect(a) \/ OldClose(a)
       PROVE  ResolvedIsOver'
  BY <1>10, QuietOver
  DEF ChildStart, Disconnect, HubClose, Connect, OldClose, settleVars, TypeOK
<1>11. ASSUME NEW r \in Made, UserAnswers(r) \/ HubRoutes(r) PROVE ResolvedIsOver'
  BY <1>1, <1>11 DEF UserAnswers, HubRoutes, settleVars
<1>12. ASSUME NEW i \in Id, Expire(i) PROVE ResolvedIsOver'
  BY <1>1, <1>12 DEF Expire, settleVars
<1>13. CASE HubRestart
  BY <1>13, QuietOver DEF HubRestart, settleVars
<1>14. CASE UNCHANGED vars
  BY <1>1, <1>14 DEF vars, settleVars
<1> QED
  BY <1>3, <1>4, <1>5, <1>6, <1>7, <1>8, <1>9, <1>10, <1>11, <1>12, <1>13, <1>14 DEF Next

\* A card goes away only with a resolved event.
LEMMA ClosedStep ==
  ASSUME TypeOK, ResolvedIsOver, [Next]_vars
  PROVE  \A r \in cards : r \notin cards' => r \notin waiting'
<1> SUFFICES ASSUME NEW r \in cards, r \notin cards' PROVE r \notin waiting'
  OBVIOUS
<1>1. PICK a \in Agent : HubReceives(a)
  BY DEF Next, vars, hubVars, ChildStart, ChildExit, CodexGone, Disconnect, HubClose,
         Connect, OldClose, AgentRestart, AgentReceives, TurnEnds, MakeRequest, Announce,
         UserAnswers, HubRoutes, Expire, HubRestart
<1>2. toHub[a] \in Seq(Message) /\ toHub[a] # <<>> /\ waiting' = waiting
  BY <1>1 DEF HubReceives, TypeOK, settleVars
<1>3. 1 \in DOMAIN toHub[a] /\ Head(toHub[a]) = toHub[a][1]
  BY <1>2, HeadTailProperties
<1>4. toHub[a][1].type = "resolved" /\ toHub[a][1].request = r
  BY <1>1, <1>3 DEF HubReceives, ClosedBy
<1> QED
  BY <1>2, <1>3, <1>4 DEF ResolvedIsOver

\* The phone closes a card only when codex no longer waits for its request.
THEOREM ClosedCorrect == Spec => ClosedIsOver
<1>1. Init => ResolvedIsOver
  BY DEF Init, ResolvedIsOver
<1>2. Spec => []ResolvedIsOver
  BY <1>1, ResolvedStep, FilingInvariant, PTL DEF Spec
<1>3. TypeOK /\ ResolvedIsOver /\ [Next]_vars
        => [\A r \in cards : r \notin cards' => r \notin waiting']_vars
  BY ClosedStep
<1> QED
  BY <1>2, <1>3, TypeCorrect, PTL DEF Spec, ClosedIsOver

-----------------------------------------------------------------------------
(* Answers.  The hub routes an answer by its number, to the agent of the     *)
(* request it has the route of.                                              *)

RoutedRight ==
  \A i \in Id : pendingServerResponses[i] # NoRequest =>
    about[pendingServerResponses[i]].id = i

DeliveredRight ==
  \A a \in Agent : \A m \in toAgent[a] :
    /\ AgentOfRequest(m.entry) = a
    /\ about[m.answer].id = about[m.entry].id

AnsweredMade ==
  \A r \in Request : reply[r].kind = "answered" => r \in Made /\ reply[r].of \in Made

Answers == RoutedRight /\ DeliveredRight /\ AnsweredMade /\ AnsweredOnOwnAgent

\* The routes stay right as requests are made and routes are cleared.
LEMMA RoutesKeep ==
  ASSUME TypeOK, RoutedRight, Made \subseteq Made', \A s \in Made : about'[s] = about[s],
         \A i \in Id : pendingServerResponses'[i] \in {pendingServerResponses[i], NoRequest}
  PROVE  RoutedRight'
<1> SUFFICES ASSUME NEW i \in Id, pendingServerResponses'[i] # NoRequest
             PROVE  about'[pendingServerResponses'[i]].id = i
  BY DEF RoutedRight
<1>1. pendingServerResponses'[i] = pendingServerResponses[i]
  OBVIOUS
<1>2. pendingServerResponses[i] \in Made
  BY <1>1 DEF TypeOK
<1> QED
  BY <1>1, <1>2 DEF RoutedRight

\* So do the messages to the agents, as requests are made and messages lost.
LEMMA DeliveriesKeep ==
  ASSUME TypeOK, DeliveredRight, \A s \in Made : about'[s] = about[s],
         \A a \in Agent : toAgent'[a] \subseteq toAgent[a]
  PROVE  DeliveredRight'
<1> SUFFICES ASSUME NEW a \in Agent, NEW m \in toAgent'[a]
             PROVE  /\ AgentOfRequest(m.entry)' = a
                    /\ about'[m.answer].id = about'[m.entry].id
  BY DEF DeliveredRight
<1>1. m \in toAgent[a] /\ m.answer \in Made /\ m.entry \in Made
  BY DEF TypeOK
<1> QED
  BY <1>1 DEF DeliveredRight, AgentOfRequest

\* And the answers codex has accepted, as long as it accepts no other.
LEMMA RepliesKeep ==
  ASSUME TypeOK, AnsweredMade, AnsweredOnOwnAgent,
         Made \subseteq Made', \A s \in Made : about'[s] = about[s],
         \A r \in Request : reply'[r] = reply[r] \/ reply'[r].kind # "answered"
  PROVE  AnsweredMade' /\ AnsweredOnOwnAgent'
<1>1. ASSUME NEW r \in Request, reply'[r].kind = "answered"
      PROVE  reply'[r] = reply[r] /\ r \in Made /\ reply[r].of \in Made
  BY <1>1 DEF AnsweredMade
<1>2. AnsweredMade'
  BY <1>1 DEF AnsweredMade
<1>3. AnsweredOnOwnAgent'
  BY <1>1 DEF AnsweredOnOwnAgent, AgentOfRequest
<1> QED
  BY <1>2, <1>3

\* An answer that is accepted comes of a card of the agent and the number, and
\* of a process that is not later.
LEMMA AcceptedRight ==
  ASSUME TypeOK, Numbering, DistinctNumbers, Filing, Answers,
         NEW a \in Agent, NEW m \in toAgent[a], AgentReceives(a, m)
  PROVE  AnsweredMade' /\ AnsweredOnOwnAgent'
<1> DEFINE i == about[m.entry].id
           q == m.answer
<1>1. PICK kind \in Opened(m) : Resolve(a, i, kind, q)
  BY DEF AgentReceives
<1>2. UNCHANGED about
  BY DEF AgentReceives
<1>3. CASE reply' = reply
  BY <1>2, <1>3, RepliesKeep DEF Answers, Made
<1>4. CASE kind # "answered"
  <2>1. \A r \in Request : reply'[r] = reply[r] \/ reply'[r].kind # "answered"
    BY <1>1, <1>4 DEF Resolve, Settle, settleVars
  <2> QED
    BY <1>2, <2>1, RepliesKeep DEF Answers, Made
<1>5. CASE kind = "answered" /\ reply' # reply
  <2>1. q \in Made /\ m.entry \in Made /\ i \in Id
    BY DEF TypeOK
  <2>2. AgentOfRequest(q) = a /\ about[q].id = i
    BY <1>5 DEF Opened, Answers, DeliveredRight, AgentOfRequest
  <2>3. \A r \in Request :
          \/ reply'[r] = reply[r]
          \/ alive[a] /\ r \in WaitingAs(a, i) /\ reply'[r] = [kind |-> "answered", of |-> q]
    BY <1>1, <1>5 DEF Resolve, Settle, settleVars
  <2>4. ASSUME NEW r \in WaitingAs(a, i)
        PROVE  /\ r \in Made /\ AgentOfRequest(r) = a /\ about[r].id = i
               /\ q = r \/ about[q].life < about[r].life
    <3>1. r \in Made /\ AgentOfRequest(r) = a /\ about[r].id = i
      BY DEF WaitingAs, TypeOK
    <3>2. about[r].life = life[a]
      BY <3>1 DEF WaitingAs, Filing, WaitingRuns
    <3>3. about[q].life <= life[a]
      BY <2>1, <2>2 DEF Numbering
    <3>4. about[q].life \in Nat /\ life[a] \in Nat
      BY <2>1 DEF TypeOK
    <3>5. about[q].life = about[r].life => q = r
      BY <2>1, <2>2, <3>1 DEF DistinctNumbers
    <3> QED
      BY <3>1, <3>2, <3>3, <3>4, <3>5
  <2>5. AnsweredMade'
    BY <1>2, <2>1, <2>3, <2>4 DEF Answers, AnsweredMade, Made
  <2>6. AnsweredOnOwnAgent'
    <3>1. ASSUME NEW r \in Request, reply'[r].kind = "answered", NEW p, p = reply'[r].of
          PROVE  /\ AgentOfRequest(p) = AgentOfRequest(r)
                 /\ about[p].id = about[r].id
                 /\ p = r \/ about[p].life < about[r].life
      <4>1. CASE reply'[r] = reply[r]
        BY <3>1, <4>1 DEF Answers, AnsweredOnOwnAgent
      <4>2. CASE r \in WaitingAs(a, i) /\ reply'[r] = [kind |-> "answered", of |-> q]
        <5>1. p = q
          BY <3>1, <4>2
        <5> HIDE DEF q, i
        <5> QED
          BY <2>2, <2>4, <4>2, <5>1
      <4> QED
        BY <2>3, <4>1, <4>2
    <3> QED
      BY <1>2, <3>1 DEF AnsweredOnOwnAgent, AgentOfRequest
  <2> QED
    BY <2>5, <2>6
<1> QED
  BY <1>3, <1>4, <1>5

\* The hub takes a route from the event of its request.
LEMMA HubKeeps ==
  ASSUME TypeOK, RoutedRight, NEW a \in Agent, HubReceives(a)
  PROVE  RoutedRight'
<1> DEFINE m == Head(toHub[a])
<1>1. m \in Message
  BY HeadTailProperties DEF HubReceives, TypeOK
<1>2. UNCHANGED about
  BY DEF HubReceives
<1>3. CASE m.type = "request"
  <2>1. m.request \in Made
    BY <1>1, <1>3 DEF Message
  <2>2. pendingServerResponses' =
          [pendingServerResponses EXCEPT ![about[m.request].id] = m.request]
    BY <1>3 DEF HubReceives
  <2> HIDE DEF m
  <2> QED
    BY <1>2, <2>1, <2>2 DEF RoutedRight, TypeOK
<1>4. CASE m.type # "request"
  <2>1. \A i \in Id : pendingServerResponses'[i] \in {pendingServerResponses[i], NoRequest}
    <3>1. CASE m.type = "resolved"
      <4>1. pendingServerResponses' =
              [pendingServerResponses EXCEPT ![about[m.request].id] = NoRequest]
        BY <3>1 DEF HubReceives
      <4> QED
        BY <4>1 DEF TypeOK
    <3>2. CASE m.type = "completed"
      <4>1. pendingServerResponses' = ClearTurns(m.turns)
        BY <3>2 DEF HubReceives
      <4> QED
        BY <4>1 DEF ClearTurns
    <3> QED
      BY <1>4, <3>1, <3>2 DEF HubReceives
  <2> QED
    BY <1>2, <2>1, RoutesKeep DEF Made
<1> QED
  BY <1>3, <1>4

\* It delivers an answer under the number it came for.
LEMMA RouteDelivers ==
  ASSUME TypeOK, RoutedRight, DeliveredRight, NEW q \in Made, HubRoutes(q)
  PROVE  RoutedRight' /\ DeliveredRight'
<1> DEFINE i == about[q].id
           entry == pendingServerResponses[i]
           a == AgentOfRequest(entry)
<1>1. i \in Id /\ UNCHANGED about
  BY DEF HubRoutes, TypeOK
<1>2. \/ UNCHANGED <<pendingServerResponses, toAgent>>
      \/ /\ entry # NoRequest
         /\ pendingServerResponses' = [pendingServerResponses EXCEPT ![i] = NoRequest]
         /\ \/ UNCHANGED toAgent
            \/ toAgent' = [toAgent EXCEPT ![a] = @ \union {[answer |-> q, entry |-> entry]}]
  BY DEF HubRoutes
<1>3. RoutedRight'
  <2>1. \A j \in Id : pendingServerResponses'[j] \in {pendingServerResponses[j], NoRequest}
    BY <1>2 DEF TypeOK
  <2> QED
    BY <1>1, <2>1, RoutesKeep DEF Made
<1>4. DeliveredRight'
  <2>1. CASE UNCHANGED toAgent
    BY <1>1, <2>1, DeliveriesKeep
  <2>2. CASE /\ entry # NoRequest
             /\ toAgent' = [toAgent EXCEPT ![a] = @ \union {[answer |-> q, entry |-> entry]}]
    <3>1. about[entry].id = i
      BY <1>1, <2>2 DEF RoutedRight
    <3>2. ASSUME NEW b \in Agent, NEW m \in toAgent'[b]
          PROVE  /\ AgentOfRequest(m.entry) = b
                 /\ about[m.answer].id = about[m.entry].id
      <4>1. CASE m \in toAgent[b]
        BY <4>1 DEF DeliveredRight
      <4>2. CASE m \notin toAgent[b]
        <5>1. b = a /\ m = [answer |-> q, entry |-> entry]
          BY <2>2, <4>2 DEF TypeOK
        <5>2. m.answer = q /\ m.entry = entry
          BY <5>1
        <5> QED
          BY <3>1, <5>1, <5>2
      <4> QED
        BY <4>1, <4>2
    <3> QED
      BY <1>1, <3>2 DEF DeliveredRight, AgentOfRequest
  <2> QED
    BY <1>2, <2>1, <2>2
<1> QED
  BY <1>3, <1>4

\* No step routes, delivers or accepts an answer under another number.
LEMMA AnswersStep ==
  TypeOK /\ Numbering /\ DistinctNumbers /\ Filing /\ Answers /\ [Next]_vars => Answers'
<1> SUFFICES ASSUME TypeOK, Numbering, DistinctNumbers, Filing, Answers, [Next]_vars
             PROVE  Answers'
  OBVIOUS
<1> USE DEF Answers
<1>1. CASE /\ UNCHANGED <<about, reply>>
           /\ \A i \in Id :
                pendingServerResponses'[i] \in {pendingServerResponses[i], NoRequest}
           /\ \A a \in Agent : toAgent'[a] \subseteq toAgent[a]
  BY <1>1, RoutesKeep, DeliveriesKeep, RepliesKeep DEF Made
<1>2. CASE UNCHANGED <<about, reply, pendingServerResponses, toAgent>>
  BY <1>1, <1>2
<1>3. ASSUME NEW c \in Conversation, NEW r \in Request, MakeRequest(c, r) PROVE Answers'
  <2>1. Made \subseteq Made' /\ \A s \in Made : about'[s] = about[s]
    BY <1>3, MakeAbout
  <2>2. UNCHANGED <<pendingServerResponses, toAgent>>
    BY <1>3 DEF MakeRequest, hubVars
  <2>3. \A s \in Request : reply'[s] = reply[s] \/ reply'[s].kind # "answered"
    BY <1>3 DEF MakeRequest, AskUser, RefuseRequest, Settle
  <2> QED
    BY <2>1, <2>2, <2>3, RoutesKeep, DeliveriesKeep, RepliesKeep
<1>4. ASSUME NEW a \in Agent, NEW m \in toAgent[a], AgentReceives(a, m) PROVE Answers'
  <2>1. /\ UNCHANGED <<about, pendingServerResponses>>
        /\ \A b \in Agent : toAgent'[b] \subseteq toAgent[b]
    BY <1>4 DEF AgentReceives, hubVars, TypeOK
  <2> QED
    BY <1>4, <2>1, AcceptedRight, RoutesKeep, DeliveriesKeep DEF Made
<1>5. ASSUME NEW a \in Agent, HubReceives(a) PROVE Answers'
  <2>1. UNCHANGED <<about, reply, toAgent>>
    BY <1>5 DEF HubReceives, settleVars
  <2> QED
    BY <1>5, <2>1, HubKeeps, DeliveriesKeep, RepliesKeep DEF Made
<1>6. ASSUME NEW q \in Made, HubRoutes(q) PROVE Answers'
  <2>1. UNCHANGED <<about, reply>>
    BY <1>6 DEF HubRoutes, settleVars
  <2> QED
    BY <1>6, <2>1, RouteDelivers, RepliesKeep DEF Made
<1>7. ASSUME NEW a \in Agent, ChildStart(a) \/ ChildExit(a) \/ Connect(a) PROVE Answers'
  BY <1>2, <1>7 DEF ChildStart, ChildExit, CodexGone, Connect, settleVars, hubVars
<1>8. ASSUME NEW a \in Agent, Disconnect(a) \/ AgentRestart(a) PROVE Answers'
  <2>1. UNCHANGED <<about, reply, pendingServerResponses>>
    BY <1>8 DEF Disconnect, AgentRestart, CodexGone, settleVars, hubVars
  <2>2. \A b \in Agent : toAgent'[b] \subseteq toAgent[b]
    BY <1>8 DEF Disconnect, AgentRestart, TypeOK
  <2> QED
    BY <1>1, <2>1, <2>2
<1>9. ASSUME NEW a \in Agent, HubClose(a) \/ OldClose(a) PROVE Answers'
  BY <1>1, <1>9 DEF HubClose, OldClose, ClearAgent, settleVars
<1>10. ASSUME NEW c \in Conversation, TurnEnds(c) PROVE Answers'
  BY <1>2, <1>10 DEF TurnEnds, hubVars
<1>11. ASSUME NEW r \in Made, Announce(r) \/ UserAnswers(r) PROVE Answers'
  BY <1>2, <1>11 DEF Announce, UserAnswers, settleVars, hubVars
<1>12. ASSUME NEW i \in Id, Expire(i) PROVE Answers'
  <2>1. /\ pendingServerResponses' = [pendingServerResponses EXCEPT ![i] = NoRequest]
        /\ UNCHANGED <<about, reply, toAgent>>
    BY <1>12 DEF Expire, settleVars
  <2> QED
    BY <1>1, <2>1 DEF TypeOK
<1>13. CASE HubRestart
  BY <1>1, <1>13 DEF HubRestart, settleVars
<1>14. CASE UNCHANGED vars
  BY <1>2, <1>14 DEF vars, settleVars, hubVars
<1> QED
  BY <1>3, <1>4, <1>5, <1>6, <1>7, <1>8, <1>9, <1>10, <1>11, <1>12, <1>13, <1>14 DEF Next

\* An answer that codex accepted was given on a card of its own agent, under the
\* number of the request, and not of a later process.
THEOREM AnsweredCorrect == Spec => []AnsweredOnOwnAgent
<1>1. Init => Answers
  BY DEF Init, Answers, RoutedRight, DeliveredRight, AnsweredMade, AnsweredOnOwnAgent
<1>2. Spec => []Answers
  BY <1>1, AnswersStep, FilingInvariant, PTL DEF Spec
<1>3. Answers => AnsweredOnOwnAgent
  BY DEF Answers
<1> QED
  BY <1>2, <1>3, PTL

-----------------------------------------------------------------------------
(* No route of the hub outlives its request.                                 *)

\* What an agent sends is about its own requests.
QueueRight ==
  \A a \in Agent : \A n \in DOMAIN toHub[a] :
    toHub[a][n].type # "completed" => AgentOfRequest(toHub[a][n].request) = a

\* A request on the way to the hub is on file, or the news that ends it follows.
QueueLive ==
  \A a \in Agent : \A n \in DOMAIN toHub[a] : toHub[a][n].type = "request" =>
    LET r == toHub[a][n].request
        i == about[r].id
    IN  \/ pendingServerRequests[a][i] = r
        \/ \E k \in DOMAIN toHub[a] : k > n /\ AboutNumber(toHub[a][k], i)

\* Nothing is on the way over a connection that is not up.
OffIsEmpty == \A a \in Agent : link[a] # "up" => toHub[a] = <<>>

\* The hub has no route to an agent it knows to be away.
AwayHasNoRoute ==
  \A i \in Id : LET r == pendingServerResponses[i] IN
    r # NoRequest => link[AgentOfRequest(r)] # "down"

Routes == RouteIsLive /\ QueueRight /\ QueueLive /\ OffIsEmpty /\ AwayHasNoRoute

-----------------------------------------------------------------------------
\* A route that stays leads where it led.
LEMMA RouteStays ==
  ASSUME TypeOK, \A s \in Made : AgentOfRequest(s)' = AgentOfRequest(s),
         NEW i \in Id, pendingServerResponses'[i] \in {pendingServerResponses[i], NoRequest},
         NEW r, r = pendingServerResponses'[i], r # NoRequest
  PROVE  /\ r = pendingServerResponses[i] /\ r \in Made
         /\ AgentOfRequest(r)' = AgentOfRequest(r) /\ AgentOfRequest(r) \in Agent
<1>1. r = pendingServerResponses[i] /\ r \in Made
  BY DEF TypeOK
<1> QED
  BY <1>1, ConstantsAssumption DEF TypeOK, AgentOfRequest

\* Messages name requests that were made.
LEMMA MessageNames ==
  ASSUME TypeOK, NEW a \in Agent, NEW n \in DOMAIN toHub[a]
  PROVE  /\ toHub[a][n] \in Message
         /\ toHub[a][n].type # "completed" => toHub[a][n].request \in Made
<1>1. toHub[a] \in Seq(Message)
  BY DEF TypeOK
<1>2. toHub[a][n] \in Message
  BY <1>1
<1> QED
  BY <1>2 DEF Message

\* Nothing is sent or filed, and routes are cleared at most.
LEMMA QuietRoutes ==
  ASSUME TypeOK, Routes, UNCHANGED <<toHub, pendingServerRequests, link, replaced>>,
         \A s \in Made : about'[s] = about[s] /\ AgentOfRequest(s)' = AgentOfRequest(s),
         \A i \in Id : pendingServerResponses'[i] \in {pendingServerResponses[i], NoRequest}
  PROVE  Routes'
<1> USE DEF Routes
<1>1. ASSUME NEW a \in Agent, NEW n \in DOMAIN toHub[a], NEW i \in Id
      PROVE  AboutNumber(toHub[a][n], i)' = AboutNumber(toHub[a][n], i)
  BY <1>1, MessageNames DEF AboutNumber
<1>2. RouteIsLive'
  <2> SUFFICES ASSUME NEW i \in Id, NEW r, r = pendingServerResponses'[i], r # NoRequest,
                      NEW a, a = AgentOfRequest(r)'
               PROVE  \/ pendingServerRequests[a][i] = r
                      \/ link[a] = "dead" \/ replaced[a] > 0
                      \/ \E n \in DOMAIN toHub[a] : AboutNumber(toHub[a][n], i)'
    BY DEF RouteIsLive
  <2>1. r = pendingServerResponses[i] /\ r \in Made /\ a = AgentOfRequest(r) /\ a \in Agent
    BY RouteStays
  <2> QED
    BY <1>1, <2>1 DEF RouteIsLive
<1>3. QueueRight'
  BY MessageNames DEF QueueRight
<1>4. QueueLive'
  <2> SUFFICES ASSUME NEW a \in Agent, NEW n \in DOMAIN toHub[a], toHub[a][n].type = "request",
                      NEW r, r = toHub[a][n].request, NEW i, i = about'[r].id
               PROVE  \/ pendingServerRequests[a][i] = r
                      \/ \E k \in DOMAIN toHub[a] : k > n /\ AboutNumber(toHub[a][k], i)'
    BY DEF QueueLive
  <2>1. r \in Made /\ i = about[r].id /\ i \in Id
    BY MessageNames DEF TypeOK
  <2> QED
    BY <1>1, <2>1 DEF QueueLive
<1>5. OffIsEmpty'
  BY DEF OffIsEmpty
<1>6. AwayHasNoRoute'
  BY RouteStays DEF AwayHasNoRoute
<1> QED
  BY <1>2, <1>3, <1>4, <1>5, <1>6

\* What a message does to the queue of its agent.
LEMMA EmitQueue ==
  ASSUME TypeOK, NEW a \in Agent, NEW m, Emit(a, m)
  PROVE  /\ \A b \in Agent : (b # a \/ link[a] # "up") => toHub'[b] = toHub[b]
         /\ link[a] = "up" =>
              /\ Len(toHub[a]) \in Nat /\ DOMAIN toHub[a] = 1 .. Len(toHub[a])
              /\ DOMAIN toHub'[a] = 1 .. Len(toHub[a]) + 1
              /\ \A n \in DOMAIN toHub[a] : toHub'[a][n] = toHub[a][n]
              /\ toHub'[a][Len(toHub[a]) + 1] = m
<1>1. toHub[a] \in Seq(Message)
  BY DEF TypeOK
<1>2. CASE link[a] = "up"
  <2>1. toHub'[a] = Append(toHub[a], m) /\ \A b \in Agent : b # a => toHub'[b] = toHub[b]
    BY <1>2 DEF Emit, TypeOK
  <2> QED
    BY <1>1, <1>2, <2>1
<1>3. CASE link[a] # "up"
  BY <1>3 DEF Emit
<1> QED
  BY <1>2, <1>3

\* An agent sends a message, and files at most what the message tells of.
LEMMA EmitRoutes ==
  ASSUME TypeOK, Routes, Made \subseteq Made',
         \A s \in Made : about'[s] = about[s] /\ AgentOfRequest(s)' = AgentOfRequest(s),
         UNCHANGED <<pendingServerResponses, link, replaced>>,
         NEW a \in Agent, NEW i \in Id, NEW m, Emit(a, m),
         m.type # "completed" => AgentOfRequest(m.request)' = a /\ about'[m.request].id = i,
         m.type = "request" => pendingServerRequests'[a][i] = m.request,
         m.type = "completed" => UNCHANGED pendingServerRequests,
         \A b \in Agent, j \in Id : <<b, j>> # <<a, i>> =>
           pendingServerRequests'[b][j] = pendingServerRequests[b][j]
  PROVE  Routes'
<1> USE DEF Routes
<1> DEFINE last == Len(toHub[a]) + 1
<1>1. /\ \A b \in Agent : (b # a \/ link[a] # "up") => toHub'[b] = toHub[b]
      /\ link[a] = "up" =>
           /\ Len(toHub[a]) \in Nat /\ DOMAIN toHub[a] = 1 .. Len(toHub[a])
           /\ DOMAIN toHub'[a] = 1 .. last
           /\ \A n \in DOMAIN toHub[a] : toHub'[a][n] = toHub[a][n]
           /\ toHub'[a][last] = m
  BY EmitQueue
\* What was on the way still is, and is followed by the message.
<1>2. ASSUME NEW b \in Agent, NEW n \in DOMAIN toHub[b]
      PROVE  n \in DOMAIN toHub'[b] /\ toHub'[b][n] = toHub[b][n]
  BY <1>1, <1>2
<1>3. ASSUME NEW b \in Agent, NEW n \in DOMAIN toHub'[b]
      PROVE  \/ n \in DOMAIN toHub[b] /\ toHub'[b][n] = toHub[b][n]
             \/ b = a /\ n = last /\ toHub'[b][n] = m
  BY <1>1, <1>3
<1>4. ASSUME NEW b \in Agent, NEW n \in DOMAIN toHub[b], NEW j \in Id,
             AboutNumber(toHub[b][n], j)
      PROVE  AboutNumber(toHub[b][n], j)'
  BY <1>2, <1>4, MessageNames DEF AboutNumber
<1>5. /\ \A b \in Agent, j \in Id : pendingServerRequests'[b][j] # pendingServerRequests[b][j] =>
             b = a /\ j = i /\ m.type # "completed"
      /\ m.type # "completed" => AboutNumber(m, i)'
  BY DEF AboutNumber
<1>6. ASSUME link[a] = "up"
      PROVE  /\ last \in DOMAIN toHub'[a] /\ toHub'[a][last] = m
             /\ \A n \in DOMAIN toHub[a] : last > n
  BY <1>1, <1>6
<1>7. OffIsEmpty'
  BY <1>1 DEF OffIsEmpty
<1>8. RouteIsLive'
  <2> SUFFICES ASSUME NEW j \in Id, NEW r, r = pendingServerResponses'[j], r # NoRequest,
                      NEW b, b = AgentOfRequest(r)'
               PROVE  \/ pendingServerRequests'[b][j] = r
                      \/ link[b] = "dead" \/ replaced[b] > 0
                      \/ \E n \in DOMAIN toHub'[b] : AboutNumber(toHub[b][n], j)'
    BY DEF RouteIsLive
  <2>1. r = pendingServerResponses[j] /\ r \in Made /\ b = AgentOfRequest(r) /\ b \in Agent
    BY RouteStays
  <2>2. CASE pendingServerRequests'[b][j] = pendingServerRequests[b][j]
    BY <1>2, <1>4, <2>1, <2>2 DEF RouteIsLive
  <2>3. CASE pendingServerRequests'[b][j] # pendingServerRequests[b][j]
    <3>1. b = a /\ j = i /\ AboutNumber(m, i)'
      BY <1>5, <2>1, <2>3
    <3>2. link[b] \in {"up", "dead"}
      BY <2>1 DEF AwayHasNoRoute, TypeOK
    <3> QED
      BY <1>6, <3>1, <3>2
  <2> QED
    BY <2>2, <2>3
<1>9. QueueRight'
  <2> SUFFICES ASSUME NEW b \in Agent, NEW n \in DOMAIN toHub'[b],
                      toHub'[b][n].type # "completed"
               PROVE  AgentOfRequest(toHub[b][n].request)' = b
    BY DEF QueueRight
  <2>1. CASE b = a /\ n = last /\ toHub'[b][n] = m
    BY <2>1 DEF AgentOfRequest
  <2>2. CASE n \in DOMAIN toHub[b] /\ toHub'[b][n] = toHub[b][n]
    <3>1. toHub[b][n].request \in Made /\ AgentOfRequest(toHub[b][n].request) = b
      BY <2>2, MessageNames DEF QueueRight
    <3> QED
      BY <2>2, <3>1 DEF AgentOfRequest
  <2> QED
    BY <1>3, <2>1, <2>2
<1>10. QueueLive'
  <2> SUFFICES ASSUME NEW b \in Agent, NEW n \in DOMAIN toHub'[b], toHub'[b][n].type = "request",
                      NEW r, r = toHub'[b][n].request, NEW j, j = about'[r].id
               PROVE  \/ pendingServerRequests'[b][j] = r
                      \/ \E k \in DOMAIN toHub'[b] : k > n /\ AboutNumber(toHub[b][k], j)'
    BY DEF QueueLive
  <2>1. CASE b = a /\ n = last /\ toHub'[b][n] = m
    BY <2>1
  <2>2. CASE n \in DOMAIN toHub[b] /\ toHub'[b][n] = toHub[b][n]
    <3>0. toHub[b][n].type = "request" /\ r = toHub[b][n].request
      BY <2>2
    <3>1. r \in Made /\ j = about[r].id /\ j \in Id
      <4>1. r \in Made
        BY <2>2, <3>0, MessageNames
      <4> QED
        BY <4>1 DEF TypeOK
    <3>2. CASE pendingServerRequests'[b][j] = pendingServerRequests[b][j]
      <4>1. \/ pendingServerRequests[b][j] = r
            \/ \E k \in DOMAIN toHub[b] : k > n /\ AboutNumber(toHub[b][k], j)
        BY <2>2, <3>1 DEF QueueLive
      <4> QED
        BY <1>2, <1>4, <3>1, <3>2, <4>1
    <3>3. CASE pendingServerRequests'[b][j] # pendingServerRequests[b][j]
      <4>1. b = a /\ j = i /\ AboutNumber(m, i)'
        BY <1>5, <3>1, <3>3
      <4>2. toHub[b] # <<>>
        BY <2>2
      <4>3. link[b] = "up"
        BY <4>2 DEF OffIsEmpty
      <4> QED
        BY <1>6, <2>2, <4>1, <4>3
    <3> QED
      BY <3>2, <3>3
  <2> QED
    BY <1>3, <2>1, <2>2
<1>11. AwayHasNoRoute'
  BY RouteStays DEF AwayHasNoRoute
<1> QED
  BY <1>7, <1>8, <1>9, <1>10, <1>11

\* The agent opens an answer: what it has filed under the number goes.
LEMMA ReceiveRoutes ==
  ASSUME TypeOK, Filing, Routes, NEW a \in Agent, NEW m \in toAgent[a], AgentReceives(a, m)
  PROVE  Routes'
<1> DEFINE i == about[m.entry].id
<1>1. i \in Id
  BY DEF TypeOK
<1> PICK r : r = pendingServerRequests[a][i]
  OBVIOUS
<1>2. UNCHANGED <<about, pendingServerResponses, link, replaced>>
  BY DEF AgentReceives, hubVars, linkVars
<1>3. Made' = Made /\ \A s \in Made : AgentOfRequest(s)' = AgentOfRequest(s)
  BY <1>2 DEF Made, AgentOfRequest
<1>4. PICK kind \in Opened(m) : Resolve(a, i, kind, m.answer)
  BY DEF AgentReceives
<1>5. CASE r = NoRequest
  BY <1>2, <1>3, <1>4, <1>5, QuietRoutes DEF Resolve
<1>6. CASE r # NoRequest
  <2>1. /\ Emit(a, [type |-> "resolved", request |-> r])
        /\ pendingServerRequests' = [pendingServerRequests EXCEPT ![a][i] = NoRequest]
    BY <1>4, <1>6 DEF Resolve
  <2>2. r \in Made /\ AgentOfRequest(r)' = a /\ about'[r].id = i
    BY <1>1, <1>2, <1>3, <1>6 DEF Filing, FiledRight, TypeOK
  <2>3. \A b \in Agent, j \in Id : <<b, j>> # <<a, i>> =>
          pendingServerRequests'[b][j] = pendingServerRequests[b][j]
    BY <2>1, <1>1 DEF TypeOK
  <2> HIDE DEF i
  <2> QED
    BY <1>1, <1>2, <1>3, <2>1, <2>2, <2>3, EmitRoutes
<1> QED
  BY <1>5, <1>6

\* So it does when codex announces that a request is resolved.
LEMMA AnnounceRoutes ==
  ASSUME TypeOK, Filing, Routes, NEW r \in Made, Announce(r)
  PROVE  Routes'
<1> DEFINE a == AgentOfRequest(r)
           i == about[r].id
           filed == pendingServerRequests[a][i]
<1> PICK named : named = IF filed = NoRequest THEN r ELSE filed
  OBVIOUS
<1>1. a \in Agent /\ i \in Id
  BY ConstantsAssumption DEF TypeOK, AgentOfRequest
<1>2. UNCHANGED <<about, pendingServerResponses, link, replaced>>
  BY DEF Announce, hubVars, linkVars
<1>3. Made' = Made /\ \A s \in Made : AgentOfRequest(s)' = AgentOfRequest(s)
  BY <1>2 DEF Made, AgentOfRequest
<1>4. CASE UNCHANGED <<pendingServerRequests, toHub>>
  BY <1>2, <1>3, <1>4, QuietRoutes
<1>5. CASE /\ pendingServerRequests' = [pendingServerRequests EXCEPT ![a][i] = NoRequest]
           /\ Emit(a, [type |-> "resolved", request |-> named])
  <2>1. named \in Made /\ AgentOfRequest(named)' = a /\ about'[named].id = i
    BY <1>1, <1>2, <1>3 DEF Filing, FiledRight, TypeOK
  <2>2. \A b \in Agent, j \in Id : <<b, j>> # <<a, i>> =>
          pendingServerRequests'[b][j] = pendingServerRequests[b][j]
    BY <1>1, <1>5 DEF TypeOK
  <2> HIDE DEF a, i
  <2> QED
    BY <1>1, <1>2, <1>3, <1>5, <2>1, <2>2, EmitRoutes
<1> QED
  BY <1>4, <1>5 DEF Announce

\* A request of codex is filed as it is sent, or refused.
LEMMA MakeRoutes ==
  ASSUME TypeOK, Routes, NEW c \in Conversation, NEW r \in Request, MakeRequest(c, r)
  PROVE  Routes'
<1> DEFINE a == AgentOf[c]
           i == nextId[a]
<1>1. /\ Made \subseteq Made' /\ a \in Agent
      /\ \A s \in Made : about'[s] = about[s] /\ AgentOfRequest(s)' = AgentOfRequest(s)
      /\ AgentOfRequest(r)' = a /\ about'[r].id = i
  BY MakeAbout
<1>2. i \in Id /\ UNCHANGED <<pendingServerResponses, link, replaced>>
  BY DEF MakeRequest, hubVars, linkVars
<1>3. CASE RefuseRequest(r)
  BY <1>1, <1>2, <1>3, QuietRoutes DEF RefuseRequest
<1>4. CASE AskUser(a, i, r)
  <2>1. /\ Emit(a, [type |-> "request", request |-> r])
        /\ pendingServerRequests' = [pendingServerRequests EXCEPT ![a][i] = r]
    BY <1>4 DEF AskUser
  <2>2. /\ pendingServerRequests'[a][i] = r
        /\ \A b \in Agent, j \in Id : <<b, j>> # <<a, i>> =>
             pendingServerRequests'[b][j] = pendingServerRequests[b][j]
    BY <1>1, <1>2, <2>1 DEF TypeOK
  <2> HIDE DEF a, i
  <2> QED
    BY <1>1, <1>2, <2>1, <2>2, EmitRoutes
<1> QED
  BY <1>3, <1>4 DEF MakeRequest

\* The hub handles a message: a route it takes from a request is to one on file,
\* or is ended by what follows; what a message ends has no route any more.
LEMMA HubRoutesLive ==
  ASSUME TypeOK, Routes, NEW a \in Agent, HubReceives(a)
  PROVE  Routes'
<1> USE DEF Routes
<1> PICK m : m = Head(toHub[a])
  OBVIOUS
<1>1. /\ toHub[a] # <<>> /\ toHub[a] \in Seq(Message)
      /\ \A b \in Agent : b # a => toHub'[b] = toHub[b]
      /\ toHub'[a] = Tail(toHub[a])
  BY DEF HubReceives, TypeOK
<1>2. UNCHANGED <<about, pendingServerRequests, link, replaced>>
  BY DEF HubReceives, linkVars
<1>3. \A s \in Made : AgentOfRequest(s)' = AgentOfRequest(s)
  BY <1>2 DEF AgentOfRequest
<1>4. /\ 1 \in DOMAIN toHub[a] /\ toHub[a][1] = m /\ link[a] = "up"
      /\ \A n \in DOMAIN toHub'[a] : 
            n \in Nat /\ n # 0 /\ n + 1 \in DOMAIN toHub[a] /\ toHub'[a][n] = toHub[a][n + 1]
      /\ \A n \in DOMAIN toHub[a] : n \in Nat /\ (n # 1 =>
            n - 1 \in DOMAIN toHub'[a] /\ toHub'[a][n - 1] = toHub[a][n])
  BY <1>1 DEF OffIsEmpty
<1>5. m \in Message /\ (m.type # "completed" => m.request \in Made /\ AgentOfRequest(m.request) = a)
  BY <1>4, MessageNames DEF QueueRight
\* What was behind the message is still on the way.
<1>6. ASSUME NEW b \in Agent, NEW n \in DOMAIN toHub[b], b # a \/ n # 1,
             NEW j, AboutNumber(toHub[b][n], j)
      PROVE  \E k \in DOMAIN toHub'[b] :
               /\ AboutNumber(toHub[b][k], j)'
               /\ (b # a => k = n) /\ (b = a => k = n - 1)
  <2>1. CASE b # a
    BY <1>1, <1>2, <1>6, <2>1 DEF AboutNumber
  <2>2. CASE b = a
    BY <1>2, <1>4, <1>6, <2>2 DEF AboutNumber
  <2> QED
    BY <2>1, <2>2
<1>7. ASSUME NEW j \in Id, pendingServerResponses'[j] # NoRequest
      PROVE  \/ pendingServerResponses'[j] = pendingServerResponses[j] /\ ~AboutNumber(m, j)
             \/ /\ m.type = "request" /\ j = about[m.request].id
                /\ pendingServerResponses'[j] = m.request
  <2>1. CASE m.type = "request"
    <3>1. pendingServerResponses' = [pendingServerResponses EXCEPT ![about[m.request].id] = m.request]
      BY <2>1 DEF HubReceives
    <3> QED
      BY <2>1, <3>1 DEF TypeOK, AboutNumber
  <2>2. CASE m.type = "resolved"
    <3>1. pendingServerResponses' = [pendingServerResponses EXCEPT ![about[m.request].id] = NoRequest]
      BY <2>2 DEF HubReceives
    <3> QED
      BY <1>7, <3>1 DEF TypeOK, AboutNumber
  <2>3. CASE m.type = "completed"
    <3>1. pendingServerResponses' = ClearTurns(m.turns)
      BY <2>3 DEF HubReceives
    <3> QED
      BY <1>7, <2>3, <3>1 DEF ClearTurns, AboutNumber
  <2> QED
    BY <1>5, <2>1, <2>2, <2>3 DEF Message
<1>8. RouteIsLive'
  <2> SUFFICES ASSUME NEW j \in Id, NEW r, r = pendingServerResponses'[j], r # NoRequest,
                      NEW b, b = AgentOfRequest(r)'
               PROVE  \/ pendingServerRequests[b][j] = r
                      \/ link[b] = "dead" \/ replaced[b] > 0
                      \/ \E n \in DOMAIN toHub'[b] : AboutNumber(toHub[b][n], j)'
    BY <1>2 DEF RouteIsLive
  <2>1. CASE r = pendingServerResponses[j] /\ ~AboutNumber(m, j)
    <3>1. r \in Made /\ b = AgentOfRequest(r) /\ b \in Agent
      BY <1>3, <2>1, RouteStays
    <3>2. ASSUME NEW n \in DOMAIN toHub[b], AboutNumber(toHub[b][n], j)
          PROVE  \E k \in DOMAIN toHub'[b] : AboutNumber(toHub[b][k], j)'
      <4>1. b # a \/ n # 1
        BY <1>4, <2>1, <3>2
      <4> QED
        BY <1>6, <3>1, <3>2, <4>1
    <3> QED
      BY <2>1, <3>1, <3>2 DEF RouteIsLive
  <2>2. CASE m.type = "request" /\ j = about[m.request].id /\ r = m.request
    <3>1. b = a /\ toHub[a][1].type = "request" /\ toHub[a][1].request = r
      BY <1>2, <1>4, <1>5, <2>2 DEF AgentOfRequest
    <3>2. \/ pendingServerRequests[a][j] = r
          \/ \E k \in DOMAIN toHub[a] : k > 1 /\ AboutNumber(toHub[a][k], j)
      BY <1>4, <2>2, <3>1 DEF QueueLive
    <3>3. ASSUME NEW k \in DOMAIN toHub[a], k > 1, AboutNumber(toHub[a][k], j)
          PROVE  \E n \in DOMAIN toHub'[a] : AboutNumber(toHub[a][n], j)'
      <4>1. k # 1
        BY <1>4, <3>3
      <4> QED
        BY <1>6, <3>3, <4>1
    <3> QED
      BY <3>1, <3>2, <3>3
  <2> QED
    BY <1>7, <2>1, <2>2
\* Each message that stays on the way was on it, one place further back at most.
<1>9. ASSUME NEW b \in Agent, NEW n \in DOMAIN toHub'[b]
      PROVE  \E k \in DOMAIN toHub[b] :
               /\ toHub'[b][n] = toHub[b][k]
               /\ (b # a => k = n) /\ (b = a => k = n + 1 /\ n \in Nat /\ k # 1)
  <2>1. CASE b # a
    BY <1>1, <2>1
  <2>2. CASE b = a
    <3>1. n \in Nat /\ n + 1 # 1
      BY <1>4, <2>2
    <3> QED
      BY <1>4, <2>2, <3>1
  <2> QED
    BY <2>1, <2>2
<1>10. QueueRight'
  <2> SUFFICES ASSUME NEW b \in Agent, NEW n \in DOMAIN toHub'[b],
                      toHub'[b][n].type # "completed"
               PROVE  AgentOfRequest(toHub[b][n].request)' = b
    BY DEF QueueRight
  <2> PICK k \in DOMAIN toHub[b] : toHub'[b][n] = toHub[b][k]
    BY <1>9
  <2>1. AgentOfRequest(toHub[b][k].request) = b
    BY DEF QueueRight
  <2> QED
    BY <1>2, <2>1 DEF AgentOfRequest
<1>11. QueueLive'
  <2> SUFFICES ASSUME NEW b \in Agent, NEW n \in DOMAIN toHub'[b], toHub'[b][n].type = "request",
                      NEW r, r = toHub'[b][n].request, NEW j, j = about[r].id
               PROVE  \/ pendingServerRequests[b][j] = r
                      \/ \E k \in DOMAIN toHub'[b] : k > n /\ AboutNumber(toHub[b][k], j)'
    BY <1>2 DEF QueueLive
  <2> PICK k \in DOMAIN toHub[b] :
             /\ toHub'[b][n] = toHub[b][k]
             /\ (b # a => k = n) /\ (b = a => k = n + 1 /\ n \in Nat /\ k # 1)
    BY <1>9
  <2>1. \/ pendingServerRequests[b][j] = r
        \/ \E l \in DOMAIN toHub[b] : l > k /\ AboutNumber(toHub[b][l], j)
    BY DEF QueueLive
  <2>2. ASSUME NEW l \in DOMAIN toHub[b], l > k, AboutNumber(toHub[b][l], j)
        PROVE  \E x \in DOMAIN toHub'[b] : x > n /\ AboutNumber(toHub[b][x], j)'
    <3>1. b # a \/ l # 1
      BY <1>4, <2>2
    <3> PICK x \in DOMAIN toHub'[b] :
               /\ AboutNumber(toHub[b][x], j)'
               /\ (b # a => x = l) /\ (b = a => x = l - 1)
      BY <1>6, <2>2, <3>1
    <3>2. x > n
      BY <1>4, <2>2
    <3> QED
      BY <3>2
  <2> QED
    BY <2>1, <2>2
<1>12. OffIsEmpty'
  BY <1>1, <1>2, <1>4 DEF OffIsEmpty
<1>13. AwayHasNoRoute'
  <2> SUFFICES ASSUME NEW j \in Id, NEW r, r = pendingServerResponses'[j], r # NoRequest
               PROVE  link[AgentOfRequest(r)'] # "down"
    BY <1>2 DEF AwayHasNoRoute
  <2>1. CASE r = pendingServerResponses[j]
    BY <1>3, <2>1, RouteStays DEF AwayHasNoRoute
  <2>2. CASE m.type = "request" /\ r = m.request
    BY <1>2, <1>4, <1>5, <2>2 DEF AgentOfRequest
  <2> QED
    BY <1>7, <2>1, <2>2
<1> QED
  BY <1>8, <1>10, <1>11, <1>12, <1>13

\* A connection changes: what it carried stays or goes with it, and what is lost
\* with it is made good by the close of the socket, which is still to come.
LEMMA LinkRoutes ==
  ASSUME TypeOK, Routes, UNCHANGED about,
         \A i \in Id : pendingServerResponses'[i] \in {pendingServerResponses[i], NoRequest},
         \A b \in Agent :
           LET noRoute == \A i \in Id : pendingServerResponses'[i] # NoRequest =>
                            AgentOfRequest(pendingServerResponses'[i]) # b
           IN  \/ /\ toHub'[b] = toHub[b] /\ link'[b] = link[b]
                  /\ pendingServerRequests'[b] = pendingServerRequests[b]
                  /\ replaced'[b] = replaced[b] \/ noRoute
               \/ /\ toHub'[b] = <<>>
                  /\ \/ link'[b] = "dead" \/ noRoute
                     \/ replaced'[b] > 0 /\ link'[b] = "up"
  PROVE  Routes'
<1> USE DEF Routes
<1>1. \A s \in Made : AgentOfRequest(s)' = AgentOfRequest(s)
  BY DEF AgentOfRequest
<1>2. ASSUME NEW i \in Id, NEW r, r = pendingServerResponses'[i], r # NoRequest,
             NEW a, a = AgentOfRequest(r)'
      PROVE  /\ r = pendingServerResponses[i] /\ a = AgentOfRequest(r) /\ a \in Agent
             /\ \/ /\ toHub'[a] = toHub[a] /\ link'[a] = link[a]
                   /\ pendingServerRequests'[a] = pendingServerRequests[a]
                   /\ replaced'[a] = replaced[a]
                \/ link'[a] = "dead"
                \/ replaced'[a] > 0 /\ link'[a] = "up"
  <2>1. r = pendingServerResponses[i] /\ a = AgentOfRequest(r) /\ a \in Agent
    BY <1>1, <1>2, RouteStays
  <2> QED
    BY <1>2, <2>1
<1>3. ASSUME NEW a \in Agent, NEW n \in DOMAIN toHub'[a]
      PROVE  /\ toHub'[a] = toHub[a] /\ n \in DOMAIN toHub[a]
             /\ pendingServerRequests'[a] = pendingServerRequests[a]
  <2>1. toHub'[a] # <<>>
    BY <1>3
  <2> QED
    BY <1>3, <2>1
<1>4. RouteIsLive'
  <2> SUFFICES ASSUME NEW i \in Id, NEW r, r = pendingServerResponses'[i], r # NoRequest,
                      NEW a, a = AgentOfRequest(r)'
               PROVE  \/ pendingServerRequests'[a][i] = r
                      \/ link'[a] = "dead" \/ replaced'[a] > 0
                      \/ \E n \in DOMAIN toHub'[a] : AboutNumber(toHub[a][n], i)'
    BY DEF RouteIsLive
  <2>1. CASE link'[a] = "dead" \/ replaced'[a] > 0
    BY <2>1
  <2>2. CASE /\ toHub'[a] = toHub[a] /\ link'[a] = link[a]
             /\ pendingServerRequests'[a] = pendingServerRequests[a]
             /\ replaced'[a] = replaced[a]
    <3>1. /\ r = pendingServerResponses[i] /\ a = AgentOfRequest(r)
      BY <1>2
    <3> QED
      BY <2>2, <3>1 DEF RouteIsLive, AboutNumber
  <2> QED
    BY <1>2, <2>1, <2>2
<1>5. QueueRight'
  BY <1>3 DEF QueueRight, AgentOfRequest
<1>6. QueueLive'
  <2> SUFFICES ASSUME NEW a \in Agent, NEW n \in DOMAIN toHub'[a], toHub'[a][n].type = "request",
                      NEW r, r = toHub'[a][n].request, NEW i, i = about[r].id
               PROVE  \/ pendingServerRequests'[a][i] = r
                      \/ \E k \in DOMAIN toHub'[a] : k > n /\ AboutNumber(toHub[a][k], i)'
    BY DEF QueueLive
  <2>1. /\ toHub'[a] = toHub[a] /\ n \in DOMAIN toHub[a]
        /\ pendingServerRequests'[a] = pendingServerRequests[a]
    BY <1>3
  <2> QED
    BY <2>1 DEF QueueLive, AboutNumber
<1>7. OffIsEmpty'
  BY DEF OffIsEmpty
<1>8. AwayHasNoRoute'
  <2> SUFFICES ASSUME NEW i \in Id, NEW r, r = pendingServerResponses'[i], r # NoRequest
               PROVE  link'[AgentOfRequest(r)'] # "down"
    BY DEF AwayHasNoRoute
  <2> QED
    BY <1>2 DEF AwayHasNoRoute
<1> QED
  BY <1>4, <1>5, <1>6, <1>7, <1>8

\* No step leaves a route to a request that is over.
LEMMA RoutesStep == TypeOK /\ Filing /\ Routes /\ [Next]_vars => Routes'
<1> SUFFICES ASSUME TypeOK, Filing, Routes, [Next]_vars PROVE Routes'
  OBVIOUS
<1>1. ASSUME UNCHANGED about
      PROVE  Made' = Made /\ \A s \in Made : AgentOfRequest(s)' = AgentOfRequest(s)
  BY <1>1 DEF Made, AgentOfRequest
<1>2. ASSUME UNCHANGED <<about, toHub, pendingServerRequests, link, replaced>>,
             \A i \in Id : pendingServerResponses'[i] \in {pendingServerResponses[i], NoRequest}
      PROVE  Routes'
  BY <1>1, <1>2, QuietRoutes
<1>3. ASSUME NEW a \in Agent, NEW turns, Emit(a, [type |-> "completed", turns |-> turns]),
             UNCHANGED <<about, pendingServerRequests, pendingServerResponses, link, replaced>>
      PROVE  Routes'
  <2>1. 0 \in Id
    BY ConstantsAssumption DEF Id
  <2> PICK m : m = [type |-> "completed", turns |-> turns]
    OBVIOUS
  <2>2. m.type = "completed"
    OBVIOUS
  <2> QED
    BY <1>1, <1>3, <2>1, <2>2, EmitRoutes
<1>4. ASSUME NEW a \in Agent, ChildExit(a) PROVE Routes'
  <2> PICK active \in SUBSET ConversationsOf(a) :
             Emit(a, [type |-> "completed", turns |-> {<<c, turn[c]>> : c \in active}])
    BY <1>4 DEF ChildExit
  <2> QED
    BY <1>3, <1>4 DEF ChildExit, CodexGone, hubVars, linkVars
<1>5. ASSUME NEW c \in Conversation, TurnEnds(c) PROVE Routes'
  <2>1. AgentOf[c] \in Agent
    BY ConstantsAssumption
  <2> QED
    BY <1>3, <1>5, <2>1 DEF TurnEnds, hubVars, linkVars
<1>6. ASSUME NEW a \in Agent, ChildStart(a) PROVE Routes'
  BY <1>2, <1>6 DEF ChildStart, hubVars, linkVars
<1>7. ASSUME NEW r \in Made, UserAnswers(r) \/ HubRoutes(r) PROVE Routes'
  BY <1>2, <1>7 DEF UserAnswers, HubRoutes, linkVars, TypeOK
<1>8. ASSUME NEW i \in Id, Expire(i) PROVE Routes'
  BY <1>2, <1>8 DEF Expire, linkVars, TypeOK
<1>9. ASSUME NEW a \in Agent, Disconnect(a) PROVE Routes'
  BY <1>9, LinkRoutes DEF Disconnect, hubVars, TypeOK
<1>10. ASSUME NEW a \in Agent, HubClose(a) PROVE Routes'
  BY <1>10, LinkRoutes DEF HubClose, ClearAgent, TypeOK, Routes, OffIsEmpty
<1>11. ASSUME NEW a \in Agent, OldClose(a) PROVE Routes'
  BY <1>11, LinkRoutes DEF OldClose, ClearAgent, TypeOK
<1>12. ASSUME NEW a \in Agent, Connect(a) PROVE Routes'
  <2>1. toHub[a] = <<>>
    BY <1>12 DEF Connect, Routes, OffIsEmpty
  <2>2. CASE link[a] = "dead"
    <3>1. /\ UNCHANGED <<about, pendingServerRequests, pendingServerResponses, toHub>>
          /\ link' = [link EXCEPT ![a] = "up"] /\ replaced' = [replaced EXCEPT ![a] = @ + 1]
      BY <1>12, <2>2 DEF Connect, hubVars
    <3>2. link'[a] = "up" /\ replaced'[a] > 0
      BY <3>1 DEF TypeOK
    <3>3. \A b \in Agent : b # a => link'[b] = link[b] /\ replaced'[b] = replaced[b]
      BY <3>1 DEF TypeOK
    <3> QED
      BY <2>1, <3>1, <3>2, <3>3, LinkRoutes
  <2>3. CASE link[a] = "down"
    <3>1. /\ UNCHANGED <<about, pendingServerRequests, pendingServerResponses, replaced>>
          /\ toHub'[a] = <<>>
          /\ \A b \in Agent : b # a => toHub'[b] = toHub[b] /\ link'[b] = link[b]
      BY <1>12, <2>1, <2>3 DEF Connect, hubVars, TypeOK
    <3>2. \A i \in Id : pendingServerResponses[i] # NoRequest =>
            AgentOfRequest(pendingServerResponses[i]) # a
      BY <2>3 DEF Routes, AwayHasNoRoute
    <3> QED
      BY <3>1, <3>2, LinkRoutes
  <2> QED
    BY <1>12, <2>2, <2>3 DEF Connect, TypeOK
<1>13. ASSUME NEW a \in Agent, AgentRestart(a) PROVE Routes'
  <2>1. CASE link[a] = "down"
    <3>1. /\ UNCHANGED <<about, pendingServerResponses, replaced>> /\ toHub'[a] = <<>>
          /\ \A b \in Agent : b # a => /\ toHub'[b] = toHub[b] /\ link'[b] = link[b]
                                      /\ pendingServerRequests'[b] = pendingServerRequests[b]
      BY <1>13 DEF AgentRestart, CodexGone, hubVars, TypeOK
    <3>2. \A i \in Id : pendingServerResponses[i] # NoRequest =>
            AgentOfRequest(pendingServerResponses[i]) # a
      BY <2>1 DEF Routes, AwayHasNoRoute
    <3> QED
      BY <3>1, <3>2, LinkRoutes
  <2>2. CASE link[a] # "down"
    BY <1>13, <2>2, LinkRoutes DEF AgentRestart, CodexGone, hubVars, TypeOK
  <2> QED
    BY <2>1, <2>2
<1>14. CASE HubRestart
  BY <1>14, LinkRoutes DEF HubRestart
<1>15. CASE UNCHANGED vars
  BY <1>2, <1>15 DEF vars, hubVars, linkVars
<1> QED
  BY <1>4, <1>5, <1>6, <1>7, <1>8, <1>9, <1>10, <1>11, <1>12, <1>13, <1>14, <1>15,
     ReceiveRoutes, AnnounceRoutes, MakeRoutes, HubRoutesLive
  DEF Next

\* A route of the hub leads to a request its agent has on file, unless the news that
\* ends it is on the way or the close of a socket the agent has left is to come.
THEOREM RoutesLive == Spec => []RouteIsLive
<1>1. Init => Routes
  BY DEF Init, Routes, RouteIsLive, QueueRight, QueueLive, OffIsEmpty, AwayHasNoRoute
<1>2. Spec => []Routes
  BY <1>1, RoutesStep, FilingInvariant, PTL DEF Spec
<1>3. Routes => RouteIsLive
  BY DEF Routes
<1> QED
  BY <1>2, <1>3, PTL
=============================================================================
