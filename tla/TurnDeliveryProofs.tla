------------------------ MODULE TurnDeliveryProofs ------------------------
(* Theorems of TurnDelivery, for any number of turns, retries and faults.    *)
EXTENDS TurnDelivery, SequenceTheorems, TLAPS

\* What the agent does with a turn after it has taken it.
AgentActs(t) == AgentStarts(t) \/ AgentEnds(t) \/ AgentEndsEarly(t) \/ AgentGivesUp(t)

\* What the dispatcher holds at each of its steps.
DispatchShape ==
  /\ disp \in {"idle", "claiming"} => batch = {} /\ cur = NoTurn
  /\ disp = "sending" => cur = NoTurn
  /\ disp \in {"sent", "unsent"} => cur \in Turn \ batch

\* Sending a turn keeps the socket and the count of sends to their types.
LEMMA SendTypes ==
  ASSUME TypeOK, NEW t \in Turn, Send(t)
  PROVE  /\ online' \in BOOLEAN /\ toAgent' \in Seq(Turn) /\ toHub' \in Seq(Event)
         /\ sends' \in [Turn -> Nat]
  BY DEF TypeOK, Send

\* Cutting the connection keeps the socket to its types.
LEMMA CutTypes ==
  ASSUME Cut
  PROVE  online' \in BOOLEAN /\ toAgent' \in Seq(Turn) /\ toHub' \in Seq(Event)
  BY EmptySeq DEF Cut

\* Counting a fault keeps the bound on faults.
LEMMA FaultTypes ==
  ASSUME TypeOK, Fault
  PROVE  faults' \in 0 .. MaxFaults
  BY BoundsAssumption DEF TypeOK, Fault

\* Every action keeps the row, the dispatcher, the socket and the agent within
\* their types.
LEMMA TypeStep == TypeOK /\ DispatchShape /\ [Next]_vars => TypeOK'
<1> SUFFICES ASSUME TypeOK, DispatchShape, [Next]_vars PROVE TypeOK'
  OBVIOUS
<1> USE DEF TypeOK
<1>1. ASSUME NEW t \in Turn, CreateTurn(t) \/ RouteSend(t) PROVE TypeOK'
  <2>1. CASE Send(t) /\ RouteSend(t)
    BY <2>1, SendTypes DEF RouteState, RouteSend, rowVars, dispatchVars, agentVars, faultVars
  <2>2. CASE ~Send(t)
    BY <1>1, <2>2 DEF RouteState, CreateTurn, RouteSend, rowVars, dispatchVars, netVars,
                      agentVars, faultVars
  <2>3. CASE CreateTurn(t)
    BY <2>3 DEF RouteState, CreateTurn, rowVars, dispatchVars, netVars, agentVars, faultVars
  <2> QED
    BY <1>1, <2>1, <2>2, <2>3
<1>2. ASSUME NEW t \in Turn, RouteUpdate(t) PROVE TypeOK'
  BY <1>2 DEF RouteState, Status, DeliveryState, RouteUpdate, MarkDispatched, MarkDeferred, CompleteTurn, dispatchVars,
              netVars, agentVars, faultVars
<1>3. ASSUME NEW t \in Turn, DeliveryFallsDue(t) \/ RetryCheck(t) \/ RetryAccept(t)
      PROVE  TypeOK'
  BY <1>3 DEF DeliveryState, DispatchState, DeliveryFallsDue, RetryCheck, RetryAccept, MarkDeferred, rowVars,
              dispatchVars, netVars, agentVars, faultVars
<1>4. ASSUME NEW t \in Turn, AgentActs(t) PROVE TypeOK'
  <2>1. CASE AgentGivesUp(t)
    BY <2>1 DEF AgentGivesUp, rowVars, dispatchVars, netVars, faultVars
  <2>2. CASE ~AgentGivesUp(t)
    <3>1. PICK type \in {"started"} \union Outcome : Report([type |-> type, turn |-> t])
      BY <1>4, <2>2 DEF AgentActs, AgentStarts, AgentEnds, AgentEndsEarly
    <3>2. [type |-> type, turn |-> t] \in Event
      BY DEF Event
    <3>3. toHub' \in Seq(Event)
      BY <3>1, <3>2 DEF Report
    <3>4. faults' \in 0 .. MaxFaults
      BY <1>4, <2>2, FaultTypes DEF AgentActs, AgentStarts, AgentEnds, AgentEndsEarly, faultVars
    <3> QED
      BY <1>4, <2>2, <3>1, <3>3, <3>4 DEF AgentActs, AgentStarts, AgentEnds, AgentEndsEarly,
        Report, rowVars, dispatchVars, faultVars
  <2> QED
    BY <2>1, <2>2
<1>5. CASE AgentHeard \/ Connect
  BY <1>5 DEF DispatchState, AgentHeard, Connect, rowVars, dispatchVars, netVars, agentVars, faultVars
<1>6. CASE Claim
  <2>1. PICK claimed \in SUBSET Claimable :
          /\ delivery' = [t \in Turn |-> IF t \in claimed THEN "pending" ELSE delivery[t]]
          /\ due' = [t \in Turn |-> due[t] /\ t \notin claimed]
          /\ batch' = claimed
    BY <1>6 DEF Claim
  <2>2. delivery' \in [Turn -> DeliveryState] /\ due' \in [Turn -> BOOLEAN]
    BY <2>1 DEF DeliveryState
  <2>3. batch' \in SUBSET Turn
    BY <2>1 DEF Claimable
  <2> QED
    BY <1>6, <2>2, <2>3 DEF DispatchState, Claim, netVars, agentVars, faultVars
<1>7. CASE DispatchNext
  <2>1. PICK t \in Turn :
          /\ cur' = t /\ batch' = batch \ {t}
          /\ \/ Send(t) /\ disp' = "sent" /\ UNCHANGED inFlight
             \/ /\ disp' = "unsent" /\ inFlight' = inFlight \ {t}
                /\ UNCHANGED <<netVars, sends>>
    BY <1>7 DEF DispatchNext
  <2>2. CASE Send(t)
    BY <1>7, <2>1, <2>2, SendTypes DEF DispatchNext, DispatchState, rowVars, agentVars, faultVars
  <2>3. CASE ~Send(t)
    BY <1>7, <2>1, <2>3 DEF DispatchNext, DispatchState, rowVars, netVars, agentVars, faultVars
  <2> QED
    BY <2>2, <2>3
<1>8. CASE DispatchUpdate
  <2>1. /\ delivery' \in [Turn -> DeliveryState] /\ due' \in [Turn -> BOOLEAN]
        /\ status' = status
    BY <1>8 DEF DispatchUpdate, MarkDispatched, MarkDeferred, DeliveryState, rowVars
  <2>2. inFlight' \in SUBSET Turn
    BY <1>8 DEF DispatchUpdate, DispatchShape
  <2> QED
    BY <1>8, <2>1, <2>2 DEF DispatchUpdate, DispatchState, netVars, agentVars, faultVars
<1>9. CASE AgentReceives
  <2>1. Head(toAgent) \in Turn /\ toAgent' \in Seq(Turn)
    BY <1>9 DEF AgentReceives
  <2>2. seen' \in SUBSET Turn
    BY <1>9, <2>1 DEF AgentReceives, agentVars
  <2>3. agentTurn' \in [Turn -> {"none", "accepted", "running", "early", "over"}]
    BY <1>9, <2>1 DEF AgentReceives, agentVars
  <2>4. executions' \in [Turn -> Nat]
    <3>1. CASE Head(toAgent) \in seen
      BY <1>9, <3>1 DEF AgentReceives, agentVars
    <3>2. CASE Head(toAgent) \notin seen
      <4>1. executions' = [executions EXCEPT ![Head(toAgent)] = @ + 1]
        BY <1>9, <3>2 DEF AgentReceives
      <4> QED
        BY <2>1, <4>1
    <3> QED
      BY <3>1, <3>2
  <2> QED
    BY <1>9, <2>1, <2>2, <2>3, <2>4 DEF AgentReceives, rowVars, dispatchVars, faultVars
<1>10. CASE HubReceives
  <2>1. Head(toHub) \in Event /\ toHub' \in Seq(Event)
    BY <1>10 DEF HubReceives
  <2>2. writes' \in SUBSET Event
    BY <1>10, <2>1 DEF HubReceives
  <2>3. inFlight' \in SUBSET Turn /\ notified' \in SUBSET Turn
    BY <1>10, <2>1 DEF HubReceives
  <2> QED
    BY <1>10, <2>1, <2>2, <2>3 DEF HubReceives, rowVars, dispatchVars, agentVars, faultVars
<1>11. CASE WriteLands
  <2>1. PICK w \in writes :
          /\ writes' = writes \ {w}
          /\ \/ w.type = "started" /\ MarkStarted(w.turn)
             \/ w.type \in Outcome /\ CompleteTurn(w.turn, w.type)
    BY <1>11 DEF WriteLands
  <2>2. w.turn \in Turn
    BY DEF Event
  <2>3. /\ status' \in [Turn -> Status] /\ delivery' \in [Turn -> DeliveryState]
        /\ due' \in [Turn -> BOOLEAN]
    <3>1. CASE MarkStarted(w.turn)
      BY <2>2, <3>1 DEF MarkStarted, Status, DeliveryState
    <3>2. CASE w.type \in Outcome /\ CompleteTurn(w.turn, w.type)
      <4>1. w.type \in Status /\ w.type \in DeliveryState
        BY <3>2 DEF Outcome, Status, DeliveryState
      <4> QED
        BY <2>2, <3>2, <4>1 DEF CompleteTurn
    <3> QED
      BY <2>1, <3>1, <3>2
  <2> QED
    BY <1>11, <2>1, <2>3 DEF WriteLands, dispatchVars, netVars, agentVars, faultVars
<1>12. CASE Disconnect
  BY <1>12, CutTypes, FaultTypes DEF Disconnect, rowVars, dispatchVars, agentVars
<1>13. CASE AgentRestart
  BY <1>13, CutTypes, FaultTypes DEF AgentRestart, rowVars, dispatchVars
<1>14. CASE HubRestart
  <2>1. /\ route' \in [Turn -> RouteState]
        /\ retry' \in [Turn -> {"none", "checked", "accepted"}]
        /\ abandoned' \in SUBSET Turn
    BY <1>14 DEF HubRestart, RouteState, InRoute, InDispatch
  <2> QED
    BY <1>14, <2>1, CutTypes, FaultTypes DEF HubRestart, DispatchState, rowVars, agentVars
<1>15. CASE DispatchError
  BY <1>15, FaultTypes DEF DispatchError, DispatchState, InDispatch, rowVars, netVars, agentVars
<1>16. CASE UNCHANGED vars
  BY <1>16 DEF vars, rowVars, dispatchVars, netVars, agentVars, faultVars
<1> HIDE DEF TypeOK
<1> QED
  BY <1>1, <1>2, <1>3, <1>4, <1>5, <1>6, <1>7, <1>8, <1>9, <1>10, <1>11, <1>12, <1>13,
     <1>14, <1>15, <1>16 DEF Next, AgentActs

\* The dispatcher has a turn in hand exactly while it sends it and updates its row.
LEMMA ShapeStep == TypeOK /\ DispatchShape /\ [Next]_vars => DispatchShape'
<1> SUFFICES ASSUME TypeOK, DispatchShape, [Next]_vars PROVE DispatchShape'
  OBVIOUS
<1> USE DEF DispatchShape
<1>1. ASSUME NEW t \in Turn, RetryAccept(t) PROVE DispatchShape'
  BY <1>1 DEF RetryAccept
<1>2. CASE AgentHeard \/ HubRestart \/ DispatchError
  BY <1>2 DEF AgentHeard, HubRestart, DispatchError
<1>3. CASE Claim
  BY <1>3 DEF Claim
<1>4. CASE DispatchNext
  BY <1>4 DEF DispatchNext, TypeOK
<1>5. CASE DispatchUpdate
  BY <1>5 DEF DispatchUpdate
<1>6. CASE \/ \E t \in Turn : \/ CreateTurn(t) \/ RouteSend(t) \/ RouteUpdate(t)
                              \/ DeliveryFallsDue(t) \/ RetryCheck(t)
                              \/ AgentActs(t)
           \/ Connect \/ AgentReceives \/ HubReceives \/ WriteLands
           \/ Disconnect \/ AgentRestart \/ UNCHANGED vars
  <2>1. UNCHANGED dispatchVars
    BY <1>6 DEF CreateTurn, RouteSend, RouteUpdate, DeliveryFallsDue, RetryCheck,
                AgentActs, AgentStarts, AgentEnds, AgentEndsEarly,
    AgentGivesUp, Connect, AgentReceives, HubReceives, WriteLands,
                Disconnect, AgentRestart, vars
  <2> QED
    BY <2>1 DEF dispatchVars
<1> QED
  BY <1>1, <1>2, <1>3, <1>4, <1>5, <1>6 DEF Next, AgentActs

\* The types hold at the start.
LEMMA InitTypes == Init => TypeOK /\ DispatchShape
<1> SUFFICES ASSUME Init PROVE TypeOK /\ DispatchShape
  OBVIOUS
<1>1. toAgent \in Seq(Turn) /\ toHub \in Seq(Event)
  BY EmptySeq DEF Init
<1>2. faults \in 0 .. MaxFaults
  BY BoundsAssumption DEF Init
<1>3. TypeOK
  BY <1>1, <1>2 DEF Init, TypeOK, RouteState, Status, DeliveryState, DispatchState
<1> QED
  BY <1>3 DEF Init, DispatchShape

\* The types hold in every state of the system.
THEOREM TypeCorrect == Spec => []TypeOK
  BY InitTypes, TypeStep, ShapeStep, PTL DEF Spec

-----------------------------------------------------------------------------
(* Who handles a turn: the create route first, then the dispatcher.  The row *)
(* stays 'pending' until the route has updated it, and only a queued row can *)
(* be claimed, so the two never overlap.                                     *)

RouteFirst ==
  \A t \in Turn :
    /\ t \in InDispatch => route[t] = "done"
    /\ route[t] # "done" /\ status[t] = "queued" => delivery[t] = "pending"
    /\ retry[t] # "none" => route[t] = "done" \/ status[t] # "queued"

Ownership == TypeOK /\ DispatchShape /\ RouteFirst /\ PendingHasOwner

\* Each handler passes the turn on, or updates its row before it lets go of it.
LEMMA OwnershipStep ==
  ASSUME TypeOK, DispatchShape, RouteFirst, PendingHasOwner, [Next]_vars
  PROVE  RouteFirst' /\ PendingHasOwner'
<1> USE DEF RouteFirst, PendingHasOwner, InRoute, InDispatch
<1> NoTurn \notin Turn
  BY BoundsAssumption DEF Turn, NoTurn
<1>0. /\ route \in [Turn -> RouteState]
      /\ status \in [Turn -> Status]
      /\ delivery \in [Turn -> DeliveryState]
      /\ retry \in [Turn -> {"none", "checked", "accepted"}]
      /\ batch \in SUBSET Turn
      /\ cur \in Turn \union {NoTurn}
  BY DEF TypeOK
<1>1. ASSUME NEW t \in Turn, CreateTurn(t) \/ RouteSend(t)
      PROVE  RouteFirst' /\ PendingHasOwner'
  <2>1. /\ route[t] \in {"none", "inserted"}
        /\ \E to \in {"inserted", "sent", "deferring", "failing"} :
             route' = [route EXCEPT ![t] = to]
        /\ UNCHANGED <<rowVars, retry, dispatchVars, abandoned>>
    BY <1>1 DEF CreateTurn, RouteSend, faultVars
  <2> QED
    BY <1>0, <2>1 DEF rowVars, dispatchVars
<1>2. ASSUME NEW t \in Turn, RouteUpdate(t) PROVE RouteFirst' /\ PendingHasOwner'
  BY <1>0, <1>2 DEF RouteUpdate, MarkDispatched, MarkDeferred, CompleteTurn,
              dispatchVars, faultVars
<1>3. ASSUME NEW t \in Turn, DeliveryFallsDue(t) \/ AgentActs(t)
      PROVE  RouteFirst' /\ PendingHasOwner'
  BY <1>3 DEF DeliveryFallsDue, AgentActs, AgentStarts, AgentEnds, AgentEndsEarly,
    AgentGivesUp, rowVars, dispatchVars, faultVars
<1>4. ASSUME NEW t \in Turn, RetryCheck(t) PROVE RouteFirst' /\ PendingHasOwner'
  BY <1>0, <1>4 DEF RetryCheck, rowVars, dispatchVars, faultVars
<1>5. ASSUME NEW t \in Turn, RetryAccept(t) PROVE RouteFirst' /\ PendingHasOwner'
  BY <1>0, <1>5 DEF RetryAccept, MarkDeferred, faultVars
<1>6. CASE AgentHeard
  BY <1>6 DEF AgentHeard, rowVars, faultVars
<1>7. CASE Claim
  <2>1. PICK claimed \in SUBSET Claimable :
          /\ delivery' = [t \in Turn |-> IF t \in claimed THEN "pending" ELSE delivery[t]]
          /\ batch' = claimed
    BY <1>7 DEF Claim
  <2>2. batch = {} /\ cur = NoTurn
    BY <1>7 DEF Claim, DispatchShape
  <2> QED
    BY <1>7, <2>1, <2>2 DEF Claim, Claimable, faultVars
<1>8. CASE DispatchNext
  <2>1. InDispatch' = InDispatch
    BY <1>0, <1>8 DEF DispatchNext, DispatchShape
  <2> QED
    BY <1>8, <2>1 DEF DispatchNext, rowVars, faultVars
<1>9. CASE DispatchUpdate
  <2>1. cur \in Turn /\ InDispatch' \subseteq InDispatch /\ InDispatch \subseteq InDispatch' \union {cur}
    BY <1>0, <1>9 DEF DispatchUpdate, DispatchShape
  <2>2. /\ delivery' \in [Turn -> DeliveryState] /\ delivery'[cur] # "pending"
        /\ \A t \in Turn \ {cur} : delivery'[t] = delivery[t]
        /\ UNCHANGED <<route, status, retry, abandoned>>
    BY <1>0, <1>9, <2>1 DEF DispatchUpdate, MarkDispatched, MarkDeferred, DeliveryState, faultVars
  <2> QED
    BY <2>1, <2>2
<1>10. CASE WriteLands
  <2>1. PICK t \in Turn, outcome \in Outcome : MarkStarted(t) \/ CompleteTurn(t, outcome)
    <3>1. PICK w \in writes : \/ w.type = "started" /\ MarkStarted(w.turn)
                              \/ w.type \in Outcome /\ CompleteTurn(w.turn, w.type)
      BY <1>10 DEF WriteLands
    <3>2. w.turn \in Turn
      BY DEF TypeOK, Event
    <3> QED
      BY <3>1, <3>2 DEF Outcome
  <2> QED
    BY <1>0, <1>10, <2>1 DEF WriteLands, MarkStarted, CompleteTurn, Outcome,
                       dispatchVars, faultVars
<1>11. CASE HubRestart
  <2>1. InDispatch' = {}
    BY <1>11 DEF HubRestart
  <2>2. /\ abandoned' = abandoned \union InRoute \union InDispatch
        /\ \A t \in Turn : /\ route'[t] = IF t \in InRoute THEN "done" ELSE route[t]
                           /\ retry'[t] # "none" => retry[t] # "none"
        /\ UNCHANGED <<status, delivery>>
    BY <1>11 DEF HubRestart, rowVars
  <2> QED
    BY <1>0, <2>1, <2>2
<1>12. CASE DispatchError
  <2>1. InDispatch' = {}
    BY <1>12 DEF DispatchError
  <2>2. /\ abandoned' = abandoned \union InDispatch
        /\ UNCHANGED <<route, status, delivery, retry>>
    BY <1>12 DEF DispatchError, rowVars
  <2> QED
    BY <1>0, <2>1, <2>2
<1>13. CASE Connect \/ AgentReceives \/ HubReceives \/ Disconnect \/ AgentRestart
            \/ UNCHANGED vars
  <2>1. UNCHANGED <<route, rowVars, retry, dispatchVars, abandoned>>
    BY <1>13 DEF Connect, AgentReceives, HubReceives, Disconnect, AgentRestart, vars, faultVars
  <2> QED
    BY <2>1 DEF rowVars, dispatchVars
<1> HIDE DEF RouteFirst, PendingHasOwner
<1> QED
  BY <1>1, <1>2, <1>3, <1>4, <1>5, <1>6, <1>7, <1>8, <1>9, <1>10, <1>11, <1>12, <1>13
     DEF Next, AgentActs

\* Nothing is handled yet at the start.
LEMMA OwnershipInit == Init => Ownership
<1> SUFFICES ASSUME Init PROVE Ownership
  OBVIOUS
<1>1. TypeOK /\ DispatchShape
  BY InitTypes
<1>2. RouteFirst /\ PendingHasOwner
  BY DEF Init, RouteFirst, PendingHasOwner, InDispatch, NoTurn, Turn
<1> QED
  BY <1>1, <1>2 DEF Ownership

\* The inductive invariant of the handlers.
LEMMA OwnershipInvariant == Spec => []Ownership
<1>1. Init => Ownership
  BY OwnershipInit
<1>2. Ownership /\ [Next]_vars => Ownership'
  BY TypeStep, ShapeStep, OwnershipStep DEF Ownership
<1> QED
  BY <1>1, <1>2, PTL DEF Spec

\* The create route and the dispatcher never handle the same turn.
THEOREM OneHandlerCorrect == Spec => []OneHandler
<1>1. Ownership => OneHandler
  BY DEF Ownership, RouteFirst, OneHandler, InRoute
<1> QED
  BY <1>1, OwnershipInvariant, PTL

\* Only a restart or a database error leaves a row in 'pending' for good.
THEOREM PendingOwned == Spec => []PendingHasOwner
<1>1. Ownership => PendingHasOwner
  BY DEF Ownership
<1> QED
  BY <1>1, OwnershipInvariant, PTL
-----------------------------------------------------------------------------
(* How often a turn is run.                                                  *)

\* In the life of one agent process only a turn it has not seen can still run.
FreshMayRun ==
  /\ lives \in Nat
  /\ \A t \in Turn : /\ executions[t] \in Nat
                     /\ executions[t] <= lives
                     /\ t \notin seen => executions[t] < lives

\* No step runs a turn without the agent having seen it in this life.
LEMMA FreshStep == TypeOK /\ FreshMayRun /\ [Next]_vars => FreshMayRun'
<1> SUFFICES ASSUME TypeOK, FreshMayRun, [Next]_vars PROVE FreshMayRun'
  OBVIOUS
<1> USE DEF FreshMayRun
<1>1. CASE AgentReceives
  <2>1. Head(toAgent) \in Turn
    BY <1>1 DEF AgentReceives, TypeOK
  <2>2. lives' = lives
    BY <1>1 DEF AgentReceives, faultVars
  <2>3. CASE Head(toAgent) \in seen
    BY <1>1, <2>2, <2>3 DEF AgentReceives, agentVars
  <2>4. CASE Head(toAgent) \notin seen
    <3>1. /\ seen' = seen \union {Head(toAgent)}
          /\ executions' = [executions EXCEPT ![Head(toAgent)] = @ + 1]
      BY <1>1, <2>4 DEF AgentReceives
    <3>2. executions \in [Turn -> Nat]
      BY DEF TypeOK
    <3> QED
      BY <2>1, <2>2, <2>4, <3>1, <3>2
  <2> QED
    BY <2>3, <2>4
<1>2. CASE AgentRestart
  BY <1>2 DEF AgentRestart
<1>3. CASE ~AgentReceives /\ ~AgentRestart
  <2>1. UNCHANGED <<lives, seen, executions>>
    BY <1>3 DEF Next, CreateTurn, RouteSend, RouteUpdate, DeliveryFallsDue, RetryCheck,
                RetryAccept, AgentActs, AgentStarts, AgentEnds, AgentEndsEarly,
    AgentGivesUp, AgentHeard, Claim, DispatchNext,
                DispatchUpdate, Connect, HubReceives, WriteLands, Disconnect, HubRestart,
                DispatchError, vars, agentVars, faultVars
  <2> QED
    BY <2>1
<1> QED
  BY <1>1, <1>2, <1>3

\* A turn runs at most once in each life of the agent.
THEOREM SingleExecutionCorrect == Spec => []SingleExecution
<1>1. Init => TypeOK /\ DispatchShape /\ FreshMayRun
  BY InitTypes DEF Init, FreshMayRun
<1>2. FreshMayRun => SingleExecution
  BY DEF FreshMayRun, SingleExecution
<1> QED
  BY <1>1, <1>2, TypeStep, ShapeStep, FreshStep, PTL DEF Spec

-----------------------------------------------------------------------------
(* What the row and the reports say of a turn: everything that carries news  *)
(* of a turn stems from its execution.                                       *)

NewsOfExecuted ==
  /\ \A t \in Turn : agentTurn[t] # "none" => executions[t] > 0
  /\ \A i \in 1 .. Len(toHub) : executions[toHub[i].turn] > 0
  /\ \A w \in writes : executions[w.turn] > 0
  /\ RunningWasExecuted

\* No step reports or writes news of a turn that did not run.
LEMMA NewsStep ==
  TypeOK /\ NewsOfExecuted /\ DispatchShape /\ [Next]_vars => NewsOfExecuted'
<1> SUFFICES ASSUME TypeOK, NewsOfExecuted, DispatchShape, [Next]_vars
             PROVE  NewsOfExecuted'
  OBVIOUS
<1> USE DEF NewsOfExecuted, RunningWasExecuted
<1>0. /\ executions \in [Turn -> Nat]
      /\ agentTurn \in [Turn -> {"none", "accepted", "running", "early", "over"}]
      /\ status \in [Turn -> Status]
      /\ toHub \in Seq(Event)
      /\ writes \in SUBSET Event
      /\ \A e \in Event : e.turn \in Turn
  BY DEF TypeOK, Event
<1>1. CASE AgentReceives
  <2>1. \A t \in Turn : /\ executions'[t] >= executions[t]
                        /\ agentTurn'[t] # agentTurn[t] => executions'[t] > 0
    <3>1. Head(toAgent) \in Turn
      BY <1>1 DEF AgentReceives, TypeOK
    <3>2. CASE Head(toAgent) \in seen
      BY <1>0, <1>1, <3>2 DEF AgentReceives, agentVars
    <3>3. CASE Head(toAgent) \notin seen
      <4>1. /\ agentTurn' = [agentTurn EXCEPT ![Head(toAgent)] = "accepted"]
            /\ executions' = [executions EXCEPT ![Head(toAgent)] = @ + 1]
        BY <1>1, <3>3 DEF AgentReceives
      <4> QED
        BY <1>0, <3>1, <4>1
    <3> QED
      BY <3>2, <3>3
  <2>2. executions' \in [Turn -> Nat] /\ UNCHANGED <<toHub, writes, status>>
    BY <1>1, TypeStep DEF AgentReceives, rowVars, TypeOK
  <2>3. \A i \in 1 .. Len(toHub) : toHub[i].turn \in Turn
    BY <1>0
  <2> QED
    <3>1. \A t \in Turn : executions[t] > 0 => executions'[t] > 0
      BY <1>0, <2>1, <2>2
    <3>2. \A t \in Turn : agentTurn'[t] # "none" => executions'[t] > 0
      BY <2>1, <3>1
    <3>3. \A w \in writes : w.turn \in Turn
      BY <1>0
    <3>4. \A i \in 1 .. Len(toHub') : executions'[toHub'[i].turn] > 0
      BY <2>2, <2>3, <3>1
    <3>5. \A w \in writes' : executions'[w.turn] > 0
      BY <2>2, <3>1, <3>3
    <3> QED
      BY <2>2, <3>1, <3>2, <3>4, <3>5
<1>2. ASSUME NEW t \in Turn, AgentActs(t) PROVE NewsOfExecuted'
  <2>1. PICK type \in {"started"} \union Outcome :
          Report([type |-> type, turn |-> t]) \/ UNCHANGED netVars
    BY <1>2 DEF AgentActs, AgentStarts, AgentEnds, AgentEndsEarly,
    AgentGivesUp
  <2>2. executions[t] > 0 /\ UNCHANGED <<executions, writes, status>>
    BY <1>2 DEF AgentActs, AgentStarts, AgentEnds, AgentEndsEarly,
    AgentGivesUp, rowVars
  <2>3. \A u \in Turn : agentTurn'[u] # agentTurn[u] => u = t
    BY <1>0, <1>2 DEF AgentActs, AgentStarts, AgentEnds, AgentEndsEarly,
    AgentGivesUp
  <2>4. \A i \in 1 .. Len(toHub') : executions[toHub'[i].turn] > 0
    <3> DEFINE e == [type |-> type, turn |-> t]
    <3>1. e \in Event /\ e.turn = t
      BY DEF Event
    <3>2. toHub' = toHub \/ toHub' = Append(toHub, e)
      BY <2>1 DEF Report, netVars
    <3> HIDE DEF e
    <3>3. CASE toHub' = Append(toHub, e)
      BY <1>0, <2>2, <3>1, <3>3, AppendProperties
    <3> QED
      BY <3>2, <3>3
  <2> QED
    BY <2>2, <2>3, <2>4
<1>3. CASE HubReceives
  <2>1. Head(toHub) = toHub[1] /\ 1 \in 1 .. Len(toHub)
    BY <1>0, <1>3 DEF HubReceives
  <2>2. /\ writes' = writes \union {Head(toHub)}
        /\ UNCHANGED <<executions, agentTurn, status>>
    BY <1>3 DEF HubReceives, agentVars, rowVars
  <2>3. \A i \in 1 .. Len(toHub') : i + 1 \in 1 .. Len(toHub) /\ toHub'[i] = toHub[i + 1]
    BY <1>0, <1>3, HeadTailProperties DEF HubReceives
  <2> QED
    BY <2>1, <2>2, <2>3
<1>4. CASE WriteLands
  <2>1. PICK w \in writes : /\ writes' = writes \ {w}
                            /\ MarkStarted(w.turn) \/ CompleteTurn(w.turn, w.type)
    BY <1>4 DEF WriteLands
  <2>2. w.turn \in Turn
    BY <1>0
  <2>3. \A t \in Turn \ {w.turn} : status'[t] = status[t]
    BY <1>0, <2>1, <2>2 DEF MarkStarted, CompleteTurn
  <2>4. UNCHANGED <<executions, agentTurn, toHub>>
    BY <1>4 DEF WriteLands, agentVars, netVars
  <2> QED
    BY <2>1, <2>3, <2>4
<1>5. ASSUME NEW t \in Turn, RouteUpdate(t) PROVE NewsOfExecuted'
  BY <1>0, <1>5 DEF RouteUpdate, MarkDispatched, MarkDeferred, CompleteTurn, agentVars, netVars
<1>6. CASE DispatchUpdate
  BY <1>6 DEF DispatchUpdate, MarkDispatched, MarkDeferred, agentVars, netVars
<1>7. CASE Disconnect \/ AgentRestart \/ HubRestart
  <2>1. UNCHANGED <<executions, status>> /\ toHub' = <<>> /\ writes' \subseteq writes
    BY <1>7 DEF Disconnect, AgentRestart, HubRestart, Cut, agentVars, rowVars
  <2>2. \A t \in Turn : agentTurn'[t] # "none" => agentTurn[t] # "none"
    BY <1>7 DEF Disconnect, AgentRestart, HubRestart, agentVars
  <2> QED
    BY <2>1, <2>2
<1>8. CASE \/ \E t \in Turn : \/ CreateTurn(t) \/ RouteSend(t) \/ DeliveryFallsDue(t)
                              \/ RetryCheck(t) \/ RetryAccept(t)
           \/ AgentHeard \/ Claim \/ DispatchNext \/ Connect \/ DispatchError
           \/ UNCHANGED vars
  <2>1. UNCHANGED <<executions, agentTurn, toHub, writes, status>>
    BY <1>8 DEF CreateTurn, RouteSend, DeliveryFallsDue, RetryCheck, RetryAccept, MarkDeferred,
                AgentHeard, Claim, DispatchNext, Connect, DispatchError, Send, vars,
                agentVars, netVars, rowVars
  <2> QED
    BY <2>1
<1> HIDE DEF NewsOfExecuted
<1> QED
  BY <1>1, <1>2, <1>3, <1>4, <1>5, <1>6, <1>7, <1>8 DEF Next, AgentActs

\* The row of a turn that never ran does not say that it runs or has completed.
THEOREM RunningCorrect == Spec => []RunningWasExecuted
<1>1. Init => TypeOK /\ DispatchShape /\ NewsOfExecuted
  BY InitTypes DEF Init, NewsOfExecuted, RunningWasExecuted
<1>2. NewsOfExecuted => RunningWasExecuted
  BY DEF NewsOfExecuted
<1> QED
  BY <1>1, <1>2, TypeStep, ShapeStep, NewsStep, PTL DEF Spec
-----------------------------------------------------------------------------
(* How often a turn is sent.  Until its retry is accepted a turn is sent by  *)
(* the route or by the dispatcher, and where it stands tells whether it was. *)

InTransit(t) == {i \in 1 .. Len(toAgent) : toAgent[i] = t}

\* Where a turn stands before it is sent.
Unsent(t) ==
  \/ route[t] \in {"none", "inserted", "deferring", "failing"}
  \/ t \in batch
  \/ disp = "unsent" /\ cur = t
  \/ delivery[t] = "deferred" /\ status[t] = "queued"

\* A turn that was not sent is nowhere on its way, and one that was sent once
\* is in transit once or has run once.
Traffic ==
  \A t \in Turn :
    /\ sends[t] = 0 => executions[t] = 0 /\ InTransit(t) = {}
    /\ retry[t] # "accepted" =>
         /\ sends[t] <= 1 /\ executions[t] <= 1
         /\ InTransit(t) # {} => executions[t] = 0
         /\ \A i, j \in InTransit(t) : i = j

SentKnown ==
  \A t \in Turn :
    retry[t] # "accepted" =>
      /\ Unsent(t) => sends[t] = 0
      /\ t \in InDispatch => ~(delivery[t] = "deferred" /\ status[t] = "queued")

\* The dispatcher and the routes move an unretried turn through states in which
\* it is unsent until it is sent.
LEMMA SentKnownStep ==
  ASSUME TypeOK, DispatchShape, RouteFirst, SentKnown, [Next]_vars
  PROVE  SentKnown'
<1> USE DEF SentKnown, Unsent, InDispatch
<1> NoTurn \notin Turn
  BY BoundsAssumption DEF Turn, NoTurn
<1>0. /\ route \in [Turn -> RouteState]
      /\ status \in [Turn -> Status]
      /\ delivery \in [Turn -> DeliveryState]
      /\ retry \in [Turn -> {"none", "checked", "accepted"}]
      /\ batch \in SUBSET Turn
      /\ sends \in [Turn -> Nat]
  BY DEF TypeOK
<1>1. ASSUME NEW t \in Turn, CreateTurn(t) PROVE SentKnown'
  BY <1>0, <1>1 DEF CreateTurn, rowVars, dispatchVars
<1>2. ASSUME NEW t \in Turn, RouteSend(t) PROVE SentKnown'
  BY <1>0, <1>2 DEF RouteFirst, RouteSend, Send, rowVars, dispatchVars
<1>3. ASSUME NEW t \in Turn, RouteUpdate(t) PROVE SentKnown'
  BY <1>0, <1>3 DEF RouteFirst, InRoute, RouteUpdate, MarkDispatched, MarkDeferred, CompleteTurn,
                    dispatchVars
<1>4. ASSUME NEW t \in Turn, RetryCheck(t) \/ RetryAccept(t) PROVE SentKnown'
  BY <1>0, <1>4 DEF RetryCheck, RetryAccept, MarkDeferred, rowVars, dispatchVars
<1>5. CASE AgentHeard
  BY <1>5 DEF AgentHeard, rowVars
<1>6. CASE Claim
  <2>1. PICK claimed \in SUBSET Claimable :
          /\ delivery' = [t \in Turn |-> IF t \in claimed THEN "pending" ELSE delivery[t]]
          /\ batch' = claimed
    BY <1>6 DEF Claim
  <2>2. UNCHANGED <<route, status, retry, cur, sends>> /\ disp' # "unsent" /\ cur = NoTurn
    BY <1>6 DEF Claim, DispatchShape
  <2> QED
    BY <1>0, <2>1, <2>2 DEF Claimable
<1>7. CASE DispatchNext
  <2>1. PICK t \in batch :
          /\ cur' = t
          /\ batch' = batch \ {t}
          /\ \/ Send(t) /\ disp' = "sent"
             \/ disp' = "unsent" /\ sends' = sends
    BY <1>7 DEF DispatchNext
  <2>2. \A u \in Turn \ {t} : sends'[u] = sends[u]
    BY <1>0, <2>1 DEF Send
  <2>3. UNCHANGED <<route, status, delivery, retry>>
    BY <1>7 DEF DispatchNext, rowVars
  <2>4. CASE disp' = "unsent" /\ sends' = sends
    BY <1>0, <2>1, <2>3, <2>4
  <2>5. CASE Send(t) /\ disp' = "sent"
    <3>1. ~Unsent(t)' \/ retry[t] = "accepted"
      BY <1>0, <2>1, <2>3, <2>5 DEF RouteFirst
    <3> QED
      BY <1>0, <2>1, <2>2, <2>3, <2>5, <3>1
  <2> QED
    BY <2>1, <2>4, <2>5
<1>8. CASE DispatchUpdate
  BY <1>0, <1>8 DEF DispatchUpdate, MarkDispatched, MarkDeferred, DispatchShape
<1>9. CASE WriteLands
  <2>1. PICK t \in Turn, outcome \in Outcome : MarkStarted(t) \/ CompleteTurn(t, outcome)
    <3>1. PICK w \in writes : \/ w.type = "started" /\ MarkStarted(w.turn)
                              \/ w.type \in Outcome /\ CompleteTurn(w.turn, w.type)
      BY <1>9 DEF WriteLands
    <3>2. w.turn \in Turn
      BY DEF TypeOK, Event
    <3> QED
      BY <3>1, <3>2 DEF Outcome
  <2>2. UNCHANGED <<route, retry, dispatchVars, sends>>
    BY <1>9 DEF WriteLands
  <2>3. \A u \in Turn :
          delivery'[u] = "deferred" => delivery[u] = "deferred" /\ status'[u] = status[u]
    BY <1>0, <2>1 DEF MarkStarted, CompleteTurn, Outcome
  <2> QED
    BY <2>2, <2>3 DEF dispatchVars
<1>10. CASE HubRestart \/ DispatchError
  <2>1. /\ batch' = {} /\ cur' = NoTurn /\ disp' = "idle"
        /\ UNCHANGED <<status, delivery, sends>>
        /\ \A t \in Turn : /\ route'[t] = route[t] \/ route'[t] = "done"
                           /\ retry'[t] # "accepted" => retry[t] # "accepted"
    BY <1>0, <1>10 DEF HubRestart, DispatchError, rowVars
  <2> QED
    BY <2>1
<1>11. CASE \/ \E t \in Turn : DeliveryFallsDue(t) \/ AgentActs(t)
            \/ Connect \/ AgentReceives \/ HubReceives \/ Disconnect \/ AgentRestart
            \/ UNCHANGED vars
  <2>1. UNCHANGED <<route, status, delivery, retry, dispatchVars, sends>>
    BY <1>11 DEF DeliveryFallsDue, AgentActs, AgentStarts, AgentEnds, AgentEndsEarly,
    AgentGivesUp, Connect, AgentReceives,
                 HubReceives, Disconnect, AgentRestart, vars, rowVars
  <2> QED
    BY <2>1 DEF dispatchVars
<1> HIDE DEF SentKnown
<1> QED
  BY <1>1, <1>2, <1>3, <1>4, <1>5, <1>6, <1>7, <1>8, <1>9, <1>10, <1>11 DEF Next, AgentActs

\* A turn in transit that was sent once runs when it arrives, and not again.
LEMMA TrafficStep ==
  ASSUME TypeOK, DispatchShape, SentKnown, Traffic, [Next]_vars
  PROVE  Traffic'
<1> USE DEF Traffic, InTransit
<1>0. /\ retry \in [Turn -> {"none", "checked", "accepted"}]
      /\ toAgent \in Seq(Turn)
      /\ sends \in [Turn -> Nat]
      /\ executions \in [Turn -> Nat]
  BY DEF TypeOK
<1>1. ASSUME NEW t \in Turn, Send(t), UNCHANGED <<retry, executions>>,
             retry[t] # "accepted" => sends[t] = 0
      PROVE  Traffic'
  <2>1. /\ toAgent' \in Seq(Turn) /\ Len(toAgent') = Len(toAgent) + 1
        /\ \A i \in 1 .. Len(toAgent) : toAgent'[i] = toAgent[i]
        /\ toAgent'[Len(toAgent) + 1] = t
    BY <1>0, <1>1, AppendProperties DEF Send
  <2>2. /\ sends'[t] = sends[t] + 1
        /\ \A u \in Turn \ {t} : sends'[u] = sends[u]
    BY <1>0, <1>1 DEF Send
  <2> 1 .. Len(toAgent') = (1 .. Len(toAgent)) \union {Len(toAgent) + 1}
    <3>1. Len(toAgent) \in Nat
      BY <1>0
    <3> QED
      BY <2>1, <3>1
  <2>3. InTransit(t)' = InTransit(t) \union {Len(toAgent) + 1}
    BY <2>1
  <2>4. \A u \in Turn \ {t} : InTransit(u)' = InTransit(u)
    BY <2>1
  <2> HIDE DEF InTransit
  <2>5. \A u \in Turn : sends[u] \in Nat
    BY <1>0
  <2> QED
    BY <1>1, <2>2, <2>3, <2>4, <2>5
<1>2. ASSUME NEW t \in Turn, RouteSend(t) PROVE Traffic'
  <2>1. retry[t] # "accepted" => sends[t] = 0
    BY <1>2 DEF RouteSend, SentKnown, Unsent
  <2>2. UNCHANGED <<retry, executions>>
    BY <1>2 DEF RouteSend, agentVars
  <2>3. CASE Send(t)
    BY <1>1, <2>1, <2>2, <2>3
  <2>4. CASE ~Send(t)
    BY <1>2, <2>2, <2>4 DEF RouteSend, netVars
  <2> QED
    BY <2>3, <2>4
<1>3. CASE DispatchNext
  <2>1. PICK t \in batch : Send(t) \/ UNCHANGED <<netVars, sends>>
    BY <1>3 DEF DispatchNext
  <2>2. t \in Turn /\ (retry[t] # "accepted" => sends[t] = 0)
    BY DEF TypeOK, SentKnown, Unsent
  <2>3. UNCHANGED <<retry, executions>>
    BY <1>3 DEF DispatchNext, agentVars
  <2>4. CASE Send(t)
    BY <1>1, <2>2, <2>3, <2>4
  <2>5. CASE UNCHANGED <<netVars, sends>>
    BY <2>3, <2>5 DEF netVars
  <2> QED
    BY <2>1, <2>4, <2>5
<1>4. CASE AgentReceives
  <2> PICK h \in Turn : h = Head(toAgent)
    BY <1>0, <1>4 DEF AgentReceives
  <2>1. /\ toAgent' \in Seq(Turn) /\ Len(toAgent') = Len(toAgent) - 1
        /\ \A i \in 1 .. Len(toAgent') : toAgent'[i] = toAgent[i + 1]
    BY <1>0, <1>4, HeadTailProperties DEF AgentReceives
  <2>2. 1 \in InTransit(h) /\ Len(toAgent) \in Nat
    BY <1>0, <1>4 DEF AgentReceives
  <2>3. \A u \in Turn : \A i \in InTransit(u)' : i \in Nat \ {0} /\ i + 1 \in InTransit(u)
    BY <2>1, <2>2
  <2>4. /\ UNCHANGED <<retry, sends>>
        /\ \/ executions' = executions
           \/ executions' = [executions EXCEPT ![h] = @ + 1]
    BY <1>4 DEF AgentReceives, agentVars
  <2> HIDE DEF InTransit
  <2>5. \A u \in Turn : executions[u] \in Nat /\ sends[u] \in Nat
    BY <1>0
  <2>6. ASSUME NEW u \in Turn, sends[u] = 0 PROVE executions'[u] = 0 /\ InTransit(u)' = {}
    <3>1. u # h /\ executions'[u] = executions[u]
      BY <1>0, <2>1, <2>2, <2>4, <2>6
    <3> QED
      BY <2>3, <2>6, <3>1
  <2>7. ASSUME NEW u \in Turn, retry[u] # "accepted", u # h
        PROVE  /\ executions'[u] <= 1
               /\ InTransit(u)' # {} => executions'[u] = 0
               /\ \A i, j \in InTransit(u)' : i = j
    <3>1. executions'[u] = executions[u]
      BY <1>0, <2>1, <2>4, <2>7
    <3>2. \A i, j \in InTransit(u)' : i = j
      <4> TAKE i, j \in InTransit(u)'
      <4>1. i \in Nat /\ j \in Nat /\ i + 1 = j + 1
        BY <2>3, <2>7
      <4> QED
        BY <4>1
    <3> QED
      BY <2>3, <2>7, <3>1, <3>2
  <2>8. ASSUME retry[h] # "accepted"
        PROVE  executions'[h] <= 1 /\ InTransit(h)' = {}
    <3>1. executions[h] = 0
      BY <2>1, <2>2, <2>8
    <3>2. InTransit(h)' = {}
      <4> SUFFICES ASSUME NEW i \in InTransit(h)' PROVE FALSE
        OBVIOUS
      <4>1. i \in Nat \ {0} /\ i + 1 \in InTransit(h)
        BY <2>1, <2>3
      <4>2. \A k, j \in InTransit(h) : k = j
        BY <2>1, <2>8
      <4>3. i + 1 = 1
        BY <2>2, <4>1, <4>2
      <4> QED
        BY <4>1, <4>3
    <3> QED
      BY <1>0, <2>1, <2>4, <3>1, <3>2
  <2> QED
    <3>1. ASSUME NEW u \in Turn
          PROVE  /\ sends'[u] = 0 => executions'[u] = 0 /\ InTransit(u)' = {}
                 /\ retry'[u] # "accepted" =>
                      /\ sends'[u] <= 1 /\ executions'[u] <= 1
                      /\ InTransit(u)' # {} => executions'[u] = 0
                      /\ \A i, j \in InTransit(u)' : i = j
      <4>1. retry'[u] # "accepted" => sends'[u] <= 1
        BY <2>4
      <4>2. CASE u = h
        BY <2>4, <2>6, <2>8, <4>1, <4>2
      <4>3. CASE u # h
        BY <2>4, <2>6, <2>7, <4>1, <4>3
      <4> QED
        BY <4>2, <4>3
    <3> QED
      BY <3>1
<1>5. CASE Disconnect \/ AgentRestart \/ HubRestart
  <2>1. /\ toAgent' = <<>>
        /\ UNCHANGED <<sends, executions>>
        /\ \A t \in Turn : retry'[t] # "accepted" => retry[t] # "accepted"
    BY <1>0, <1>5 DEF Disconnect, AgentRestart, HubRestart, Cut, agentVars
  <2>2. \A t \in Turn : InTransit(t)' = {}
    BY <2>1
  <2> HIDE DEF InTransit
  <2> QED
    BY <2>1, <2>2
<1>6. ASSUME NEW t \in Turn, RetryCheck(t) \/ RetryAccept(t) PROVE Traffic'
  <2>1. /\ UNCHANGED <<toAgent, sends, executions>>
        /\ \A u \in Turn : retry'[u] # "accepted" => retry[u] # "accepted"
    BY <1>0, <1>6 DEF RetryCheck, RetryAccept, netVars, agentVars
  <2>2. \A u \in Turn : InTransit(u)' = InTransit(u)
    BY <2>1
  <2> HIDE DEF InTransit
  <2> QED
    BY <2>1, <2>2
<1>7. CASE \/ \E t \in Turn : \/ CreateTurn(t) \/ RouteUpdate(t) \/ DeliveryFallsDue(t)
                              \/ AgentActs(t)
           \/ AgentHeard \/ Claim \/ DispatchUpdate \/ Connect \/ HubReceives
           \/ WriteLands \/ DispatchError \/ UNCHANGED vars
  <2>1. UNCHANGED <<retry, toAgent, sends, executions>>
    BY <1>7 DEF CreateTurn, RouteUpdate, DeliveryFallsDue, AgentActs, AgentStarts, AgentEnds, AgentEndsEarly,
    AgentGivesUp, Report,
                AgentHeard, Claim, DispatchUpdate, Connect, HubReceives, WriteLands,
                DispatchError, vars, netVars, agentVars
  <2> QED
    BY <2>1
<1> HIDE DEF Traffic
<1> QED
  BY <1>2, <1>3, <1>4, <1>5, <1>6, <1>7 DEF Next, AgentActs

\* Without a retry a turn is sent and run at most once.
THEOREM SentOnce == Spec => []SentOnceUnlessRetried
<1> DEFINE Known == Ownership /\ SentKnown /\ Traffic
<1>1. Init => Known
  <2> SUFFICES ASSUME Init PROVE Known
    OBVIOUS
  <2>1. Ownership
    BY OwnershipInit
  <2>2. SentKnown
    BY DEF Init, SentKnown, Unsent, InDispatch, NoTurn, Turn
  <2>3. \A t \in Turn : InTransit(t) = {}
    BY DEF Init, InTransit
  <2>4. Traffic
    BY <2>3 DEF Init, Traffic
  <2> QED
    BY <2>1, <2>2, <2>4
<1>2. Known /\ [Next]_vars => Known'
  BY TypeStep, ShapeStep, OwnershipStep, SentKnownStep, TrafficStep DEF Ownership
<1>3. Known => SentOnceUnlessRetried
  BY DEF Traffic, SentOnceUnlessRetried
<1> QED
  BY <1>1, <1>2, <1>3, PTL DEF Spec
=============================================================================
