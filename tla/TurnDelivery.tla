---------------------------- MODULE TurnDelivery ----------------------------
(***************************************************************************)
(* How control-api gets a turn to its agent: the route that creates it and *)
(* sends it or defers it, the dispatcher that claims deferred turns when   *)
(* the agent says hello or sends a heartbeat, the retry route, the agent's *)
(* websocket, the agent's de-duplication, and the writes with which the    *)
(* agent's events come back into the turn's row.                           *)
(*                                                                         *)
(* One agent.  Every await is a step boundary.  The writes that ws-hub     *)
(* does not await reach the database in any order.  The conversation's own *)
(* status column and the attempt counter, which no step here reads, are    *)
(* left out.                                                               *)
(***************************************************************************)
EXTENDS Integers, Sequences, FiniteSets

CONSTANTS
  Turns,      \* how many turns are created; a turn is its place in that order
  Retriable,  \* the turns for which the user may call the retry route, once
  Misreported,  \* the turns that may be reported as completed early
  ClaimLimit, \* how many turns one claim takes (20 in the source)
  MaxFaults   \* bound on disconnections, restarts, database errors and
              \*   turns reported as completed early

ASSUME BoundsAssumption ==
  /\ Turns \in Nat \ {0}
  /\ Retriable \subseteq 1 .. Turns
  /\ Misreported \subseteq 1 .. Turns
  /\ ClaimLimit \in Nat \ {0}
  /\ MaxFaults \in Nat

Turn == 1 .. Turns
NoTurn == 0

VARIABLES
  route,      \* where the create route of each turn stands
  status,     \* columns of the row: status, delivery_state, and whether
  delivery,   \*   next_delivery_at has passed
  due,
  retry,      \* the retry route of each turn
  disp,       \* the dispatcher of the agent: where it stands,
  batch,      \*   the claimed turns it has not reached,
  cur,        \*   the turn it handles
  inFlight,   \* deferredInFlightTurnIds
  writes,     \* database writes ws-hub has issued and not awaited
  online,     \* the agent's socket is open
  toAgent, toHub,   \* what is in flight on it
  seen,       \* the agent's seenTurnStartIds
  agentTurn,  \* what the agent does with each turn
  sends, executions,   \* how often each turn was sent, and run
  notified,   \* turns whose deferred_turn_completed notification was emitted
  lives,      \* agent processes so far
  abandoned,  \* claimed or new turns whose handler died before their row was updated
  faults

rowVars      == <<status, delivery, due>>
dispatchVars == <<disp, batch, cur>>
netVars      == <<online, toAgent, toHub>>
agentVars    == <<seen, agentTurn, executions>>
faultVars    == <<lives, abandoned, faults>>
vars == <<route, rowVars, retry, dispatchVars, inFlight, writes, netVars, agentVars,
          sends, notified, faultVars>>

RouteState    == {"none", "inserted", "sent", "deferring", "failing", "done"}
Status        == {"queued", "running", "completed", "failed"}
DeliveryState == {"pending", "deferred", "dispatched", "completed", "failed"}
DispatchState == {"idle", "claiming", "sending", "sent", "unsent"}
Outcome       == {"completed", "failed"}
Event         == [type : {"started"} \union Outcome, turn : Turn]

-----------------------------------------------------------------------------
(* The row of a turn.                                                       *)

\* Mutant: a dispatched turn counts as running.
MarkDispatchedAsRunning(t) ==
  /\ delivery' = [delivery EXCEPT ![t] = "dispatched"]
  /\ due' = [due EXCEPT ![t] = FALSE]
  /\ status' = [status EXCEPT ![t] = "running"]

MarkDispatched(t) ==
  /\ delivery' = [delivery EXCEPT ![t] = "dispatched"]
  /\ due' = [due EXCEPT ![t] = FALSE]
  /\ UNCHANGED status

\* Mutant: the value of one column is written into the other.
MarkDeferredAsQueued(t, now) ==
  /\ delivery' = [delivery EXCEPT ![t] = "queued"]
  /\ due' = [due EXCEPT ![t] = now]
  /\ UNCHANGED status

MarkDeferred(t, now) ==
  /\ delivery' = [delivery EXCEPT ![t] = "deferred"]
  /\ due' = [due EXCEPT ![t] = now]
  /\ UNCHANGED status

MarkStarted(t) ==
  /\ status' = [status EXCEPT ![t] = "running"]
  /\ delivery' = [delivery EXCEPT ![t] = "dispatched"]
  /\ due' = [due EXCEPT ![t] = FALSE]

CompleteTurn(t, outcome) ==
  /\ status' = [status EXCEPT ![t] = outcome]
  /\ delivery' = [delivery EXCEPT ![t] = outcome]
  /\ UNCHANGED due

\* sendToAgent, when the socket is open.
Send(t) ==
  /\ toAgent' = Append(toAgent, t)
  /\ sends' = [sends EXCEPT ![t] = @ + 1]
  /\ UNCHANGED <<online, toHub>>

-----------------------------------------------------------------------------
(* POST /conversations/:id/turns                                            *)

\* The checks pass and the row is inserted.
CreateTurn(t) ==
  /\ route[t] = "none"
  /\ \A u \in Turn : u < t => route[u] # "none"
  /\ route' = [route EXCEPT ![t] = "inserted"]
  /\ UNCHANGED <<rowVars, retry, dispatchVars, inFlight, writes, netVars, agentVars,
                 sends, notified, faultVars>>

\* The turn is sent, or the deliveryPolicy of the request says what happens to it.
RouteSend(t) ==
  /\ route[t] = "inserted"
  /\ \/ /\ online
        /\ Send(t)
        /\ route' = [route EXCEPT ![t] = "sent"]
     \/ /\ ~online
        /\ \/ route' = [route EXCEPT ![t] = "deferring"]   \* defer_if_offline
           \/ route' = [route EXCEPT ![t] = "failing"]     \* immediate
        /\ UNCHANGED <<netVars, sends>>
  /\ UNCHANGED <<rowVars, retry, dispatchVars, inFlight, writes, agentVars,
                 notified, faultVars>>

\* The update the route awaits before it answers 201, 202 or 503.
RouteUpdate(t) ==
  /\ \/ route[t] = "sent"      /\ MarkDispatched(t)
     \/ route[t] = "deferring" /\ MarkDeferred(t, FALSE)
     \/ route[t] = "failing"   /\ CompleteTurn(t, "failed")
  /\ route' = [route EXCEPT ![t] = "done"]
  /\ UNCHANGED <<retry, dispatchVars, inFlight, writes, netVars, agentVars, sends,
                 notified, faultVars>>

-----------------------------------------------------------------------------
(* The dispatcher.  deferredDispatchLocks lets one run per agent.           *)

\* next_delivery_at passes.
DeliveryFallsDue(t) ==
  /\ delivery[t] = "deferred"
  /\ ~due[t]
  /\ due' = [due EXCEPT ![t] = TRUE]
  /\ UNCHANGED <<route, status, delivery, retry, dispatchVars, inFlight, writes,
                 netVars, agentVars, sends, notified, faultVars>>

\* agent.hello or a heartbeat arrives.
AgentHeard ==
  /\ online
  /\ disp = "idle"
  /\ disp' = "claiming"
  /\ UNCHANGED <<route, rowVars, retry, batch, cur, inFlight, writes, netVars,
                 agentVars, sends, notified, faultVars>>

\* Mutant: turns left in 'pending' are picked up too.
ClaimableWithPending ==
  {t \in Turn : /\ route[t] # "none"
                /\ status[t] = "queued"
                /\ delivery[t] = "pending" \/ (delivery[t] = "deferred" /\ due[t])}

Claimable == {t \in Turn : status[t] = "queued" /\ delivery[t] = "deferred" /\ due[t]}

\* The oldest claimable turns, up to the limit.
Claims(claimed) ==
  /\ Cardinality(claimed) <= ClaimLimit
  /\ claimed = Claimable \/ Cardinality(claimed) = ClaimLimit
  /\ \A t \in claimed, u \in Claimable \ claimed : t < u

\* Mutant: the claimed rows stay deferred until they are dispatched.
ClaimKeepsDeferred ==
  /\ disp = "claiming"
  /\ \E claimed \in SUBSET Claimable :
       /\ Claims(claimed)
       /\ batch' = claimed
  /\ disp' = IF Claimable = {} THEN "idle" ELSE "sending"
  /\ UNCHANGED <<route, rowVars, retry, cur, inFlight, writes, netVars, agentVars, sends,
                 notified, faultVars>>

\* The transaction that claims the turns that are due.
Claim ==
  /\ disp = "claiming"
  /\ \E claimed \in SUBSET Claimable :
       /\ Claims(claimed)
       /\ delivery' = [t \in Turn |-> IF t \in claimed THEN "pending" ELSE delivery[t]]
       /\ due' = [t \in Turn |-> due[t] /\ t \notin claimed]
       /\ batch' = claimed
  /\ disp' = IF Claimable = {} THEN "idle" ELSE "sending"
  /\ UNCHANGED <<route, status, retry, cur, inFlight, writes, netVars, agentVars,
                 sends, notified, faultVars>>

\* The next claimed turn, oldest first, is sent if the agent is online.
DispatchNext ==
  /\ disp = "sending"
  /\ \E t \in batch :
       /\ \A u \in batch : t <= u
       /\ cur' = t
       /\ batch' = batch \ {t}
       /\ \/ /\ online
             /\ Send(t)
             /\ disp' = "sent"
             /\ UNCHANGED inFlight
          \/ /\ ~online
             /\ disp' = "unsent"
             /\ inFlight' = inFlight \ {t}
             /\ UNCHANGED <<netVars, sends>>
  /\ UNCHANGED <<route, rowVars, retry, writes, agentVars, notified, faultVars>>

\* Mutant: a turn that could not be sent is skipped without an update.
DispatchUpdateSkipsUnsent ==
  /\ \/ /\ disp = "sent"
        /\ MarkDispatched(cur)
        /\ inFlight' = inFlight \union {cur}
     \/ /\ disp = "unsent"
        /\ UNCHANGED <<rowVars, inFlight>>
  /\ disp' = IF batch = {} THEN "idle" ELSE "sending"
  /\ cur' = NoTurn
  /\ UNCHANGED <<route, retry, batch, writes, netVars, agentVars, sends, notified, faultVars>>

\* Mutant: the lock is not released after a turn that could not be sent.
DispatchUpdateKeepsLock ==
  /\ \/ /\ disp = "sent"
        /\ MarkDispatched(cur)
        /\ inFlight' = inFlight \union {cur}
     \/ /\ disp = "unsent"
        /\ MarkDeferred(cur, FALSE)
        /\ UNCHANGED inFlight
  /\ disp' = IF batch = {} /\ disp = "sent" THEN "idle" ELSE "sending"
  /\ cur' = NoTurn
  /\ UNCHANGED <<route, retry, batch, writes, netVars, agentVars, sends, notified, faultVars>>

\* The update awaited after it, and the step to the next turn of the batch.
DispatchUpdate ==
  /\ \/ /\ disp = "sent"
        /\ MarkDispatched(cur)
        /\ inFlight' = inFlight \union {cur}
     \/ /\ disp = "unsent"
        /\ MarkDeferred(cur, FALSE)
        /\ UNCHANGED inFlight
  /\ disp' = IF batch = {} THEN "idle" ELSE "sending"
  /\ cur' = NoTurn
  /\ UNCHANGED <<route, retry, batch, writes, netVars, agentVars, sends, notified,
                 faultVars>>

-----------------------------------------------------------------------------
(* POST /conversations/:id/turns/:id/retry                                  *)

\* The row is read and its delivery_state checked.
RetryCheck(t) ==
  /\ t \in Retriable
  /\ route[t] # "none"
  /\ retry[t] = "none"
  /\ delivery[t] \in {"deferred", "failed"}
  /\ retry' = [retry EXCEPT ![t] = "checked"]
  /\ UNCHANGED <<route, rowVars, dispatchVars, inFlight, writes, netVars, agentVars,
                 sends, notified, faultVars>>

\* The row is rescheduled, the dispatcher scheduled, and 202 answered.
RetryAccept(t) ==
  /\ retry[t] = "checked"
  /\ retry' = [retry EXCEPT ![t] = "accepted"]
  /\ MarkDeferred(t, TRUE)
  /\ disp' = IF disp = "idle" THEN "claiming" ELSE disp
  /\ UNCHANGED <<route, batch, cur, inFlight, writes, netVars, agentVars, sends,
                 notified, faultVars>>

Fault ==
  /\ faults < MaxFaults
  /\ faults' = faults + 1

-----------------------------------------------------------------------------
(* The agent and its socket.                                                *)

Connect ==
  /\ ~online
  /\ online' = TRUE
  /\ UNCHANGED <<route, rowVars, retry, dispatchVars, inFlight, writes, toAgent, toHub,
                 agentVars, sends, notified, faultVars>>

\* Mutant: no de-duplication.
AgentReceivesAgain ==
  /\ toAgent # <<>>
  /\ toAgent' = Tail(toAgent)
  /\ LET t == Head(toAgent)
     IN  /\ seen' = seen \union {t}
         /\ agentTurn' = [agentTurn EXCEPT ![t] = "accepted"]
         /\ executions' = [executions EXCEPT ![t] = @ + 1]
  /\ UNCHANGED <<route, rowVars, retry, dispatchVars, inFlight, writes, online, toHub,
                 sends, notified, faultVars>>

\* conversation.turn.start: a turn the agent has seen is ignored.
AgentReceives ==
  /\ toAgent # <<>>
  /\ toAgent' = Tail(toAgent)
  /\ LET t == Head(toAgent)
     IN  IF t \in seen
           THEN UNCHANGED agentVars
           ELSE /\ seen' = seen \union {t}
                /\ agentTurn' = [agentTurn EXCEPT ![t] = "accepted"]
                /\ executions' = [executions EXCEPT ![t] = @ + 1]
  /\ UNCHANGED <<route, rowVars, retry, dispatchVars, inFlight, writes, online, toHub,
                 sends, notified, faultVars>>

\* sendToControl drops what it is given while the socket is not open.
Report(event) ==
  /\ toHub' = IF online THEN Append(toHub, event) ELSE toHub
  /\ UNCHANGED <<online, toAgent>>

\* conversation.turn.started
AgentStarts(t) ==
  /\ agentTurn[t] \in {"accepted", "early"}
  /\ agentTurn' = [agentTurn EXCEPT ![t] = "running"]
  /\ Report([type |-> "started", turn |-> t])
  /\ UNCHANGED <<route, rowVars, retry, dispatchVars, inFlight, writes, seen,
                 executions, sends, notified, faultVars>>

\* conversation.turn.completed; a turn can fail before it has started.
AgentEnds(t) ==
  /\ \E outcome \in Outcome :
       /\ agentTurn[t] = "running" \/ (agentTurn[t] = "accepted" /\ outcome = "failed")
       /\ Report([type |-> outcome, turn |-> t])
  /\ agentTurn' = [agentTurn EXCEPT ![t] = "over"]
  /\ UNCHANGED <<route, rowVars, retry, dispatchVars, inFlight, writes, seen,
                 executions, sends, notified, faultVars>>

\* conversation.turn.completed while the turn is still being started: the thread's
\* status was taken for the turn's.  The turn is reported as started again, ...
AgentEndsEarly(t) ==
  /\ t \in Misreported
  /\ Fault
  /\ agentTurn[t] \in {"accepted", "running"}
  /\ \E outcome \in Outcome : Report([type |-> outcome, turn |-> t])
  /\ agentTurn' = [agentTurn EXCEPT ![t] = "early"]
  /\ UNCHANGED <<route, rowVars, retry, dispatchVars, inFlight, writes, seen,
                 executions, sends, notified, lives, abandoned>>

\* ... or its start fails, which is not reported after that.
AgentGivesUp(t) ==
  /\ agentTurn[t] = "early"
  /\ agentTurn' = [agentTurn EXCEPT ![t] = "over"]
  /\ UNCHANGED <<route, rowVars, retry, dispatchVars, inFlight, writes, netVars, seen,
                 executions, sends, notified, faultVars>>

\* The hub handles an event: it issues the write and goes on.
HubReceives ==
  /\ toHub # <<>>
  /\ toHub' = Tail(toHub)
  /\ LET event == Head(toHub)
     IN  /\ writes' = writes \union {event}
         /\ IF event.type = "started"
              THEN UNCHANGED <<inFlight, notified>>
              ELSE /\ inFlight' = inFlight \ {event.turn}
                   /\ notified' = notified \union ({event.turn} \intersect inFlight)
  /\ UNCHANGED <<route, rowVars, retry, dispatchVars, online, toAgent, agentVars, sends,
                 faultVars>>

\* A write that was not awaited reaches the database.
WriteLands ==
  /\ \E w \in writes :
       /\ writes' = writes \ {w}
       /\ \/ w.type = "started" /\ MarkStarted(w.turn)
          \/ w.type \in Outcome /\ CompleteTurn(w.turn, w.type)
  /\ UNCHANGED <<route, retry, dispatchVars, inFlight, netVars, agentVars, sends,
                 notified, faultVars>>

-----------------------------------------------------------------------------
(* Faults.                                                                  *)

Cut ==
  /\ online' = FALSE
  /\ toAgent' = <<>>
  /\ toHub' = <<>>

\* The connection is lost, and what was in flight on it.
Disconnect ==
  /\ Fault
  /\ online
  /\ Cut
  /\ UNCHANGED <<route, rowVars, retry, dispatchVars, inFlight, writes, agentVars, sends,
                 notified, lives, abandoned>>

\* The agent process dies and another takes its place.
AgentRestart ==
  /\ Fault
  /\ Cut
  /\ lives' = lives + 1
  /\ seen' = {}
  /\ agentTurn' = [t \in Turn |-> "none"]
  /\ UNCHANGED <<route, rowVars, retry, dispatchVars, inFlight, writes, executions, sends,
                 notified, abandoned>>

\* The turns whose row an unfinished handler of control-api is going to update.
InRoute == {t \in Turn : route[t] \in {"inserted", "sent", "deferring", "failing"}}
InDispatch == batch \union ({cur} \intersect Turn)

\* control-api restarts: its handlers and its memory are gone.
HubRestart ==
  /\ Fault
  /\ Cut
  /\ abandoned' = abandoned \union InRoute \union InDispatch
  /\ route' = [t \in Turn |-> IF t \in InRoute THEN "done" ELSE route[t]]
  /\ retry' = [t \in Turn |-> IF retry[t] = "checked" THEN "none" ELSE retry[t]]
  /\ disp' = "idle"
  /\ batch' = {}
  /\ cur' = NoTurn
  /\ inFlight' = {}
  /\ writes' = {}
  /\ UNCHANGED <<rowVars, agentVars, sends, notified, lives>>

\* A statement of the dispatcher fails: scheduleDeferredDispatch logs it and
\* releases the lock.
DispatchError ==
  /\ Fault
  /\ disp \in {"claiming", "sent", "unsent"}
  /\ abandoned' = abandoned \union InDispatch
  /\ disp' = "idle"
  /\ batch' = {}
  /\ cur' = NoTurn
  /\ UNCHANGED <<route, rowVars, retry, inFlight, writes, netVars, agentVars, sends,
                 notified, lives>>

-----------------------------------------------------------------------------

Init ==
  /\ route = [t \in Turn |-> "none"]
  /\ status = [t \in Turn |-> "queued"]
  /\ delivery = [t \in Turn |-> "pending"]
  /\ due = [t \in Turn |-> FALSE]
  /\ retry = [t \in Turn |-> "none"]
  /\ disp = "idle"
  /\ batch = {}
  /\ cur = NoTurn
  /\ inFlight = {}
  /\ writes = {}
  /\ online = FALSE
  /\ toAgent = <<>>
  /\ toHub = <<>>
  /\ seen = {}
  /\ agentTurn = [t \in Turn |-> "none"]
  /\ sends = [t \in Turn |-> 0]
  /\ executions = [t \in Turn |-> 0]
  /\ notified = {}
  /\ lives = 1
  /\ abandoned = {}
  /\ faults = 0

Next ==
  \/ \E t \in Turn :
       \/ CreateTurn(t) \/ RouteSend(t) \/ RouteUpdate(t)
       \/ DeliveryFallsDue(t)
       \/ RetryCheck(t) \/ RetryAccept(t)
       \/ AgentStarts(t) \/ AgentEnds(t) \/ AgentEndsEarly(t) \/ AgentGivesUp(t)
  \/ AgentHeard \/ Claim \/ DispatchNext \/ DispatchUpdate
  \/ Connect \/ AgentReceives \/ HubReceives \/ WriteLands
  \/ Disconnect \/ AgentRestart \/ HubRestart \/ DispatchError

\* Handlers go on, statements return, the agent reconnects, reads its socket and
\* sends a heartbeat again and again (so one finds the dispatcher idle); nothing
\* makes a user create or retry a turn.
Fairness ==
  /\ \A t \in Turn : /\ WF_vars(RouteSend(t))
                     /\ WF_vars(RouteUpdate(t))
                     /\ WF_vars(DeliveryFallsDue(t))
                     /\ WF_vars(RetryAccept(t))
                     /\ WF_vars(AgentStarts(t) \/ AgentEnds(t) \/ AgentGivesUp(t))
  /\ SF_vars(AgentHeard)
  /\ WF_vars(Claim) /\ WF_vars(DispatchNext) /\ WF_vars(DispatchUpdate)
  /\ WF_vars(Connect) /\ WF_vars(AgentReceives) /\ WF_vars(HubReceives)
  /\ WF_vars(WriteLands)

Spec == Init /\ [][Next]_vars

FairSpec == Spec /\ Fairness

-----------------------------------------------------------------------------
(* What delivery keeps true.                                                *)

TypeOK ==
  /\ route \in [Turn -> RouteState]
  /\ status \in [Turn -> Status]
  /\ delivery \in [Turn -> DeliveryState]
  /\ due \in [Turn -> BOOLEAN]
  /\ retry \in [Turn -> {"none", "checked", "accepted"}]
  /\ disp \in DispatchState
  /\ batch \in SUBSET Turn
  /\ cur \in Turn \union {NoTurn}
  /\ inFlight \in SUBSET Turn
  /\ writes \in SUBSET Event
  /\ online \in BOOLEAN
  /\ toAgent \in Seq(Turn)
  /\ toHub \in Seq(Event)
  /\ seen \in SUBSET Turn
  /\ agentTurn \in [Turn -> {"none", "accepted", "running", "early", "over"}]
  /\ sends \in [Turn -> Nat]
  /\ executions \in [Turn -> Nat]
  /\ notified \in SUBSET Turn
  /\ lives \in Nat
  /\ abandoned \in SUBSET Turn
  /\ faults \in 0 .. MaxFaults

\* A turn runs once in the life of an agent process, even when a retry races
\* the dispatcher and the turn is sent twice.
SingleExecution == \A t \in Turn : executions[t] <= lives

\* Without a retry a turn is sent once and so runs once, whatever connections
\* drop and whichever process restarts between the steps of its delivery.
SentOnceUnlessRetried ==
  \A t \in Turn : retry[t] # "accepted" => sends[t] <= 1 /\ executions[t] <= 1

\* A row that waits in 'pending', which nothing ever claims again, is held by
\* the route or the dispatcher that is about to update it, unless a restart or a
\* database error took that handler away.
PendingHasOwner ==
  \A t \in Turn :
    /\ route[t] # "none" /\ status[t] = "queued" /\ delivery[t] = "pending"
    /\ t \notin abandoned
    => t \in InRoute \union InDispatch

\* The create route and the dispatcher never handle the same turn at once.
OneHandler == InRoute \intersect InDispatch = {}

\* The row says that a turn ran only if the agent ran it.
RunningWasExecuted ==
  \A t \in Turn : status[t] \in {"running", "completed"} => executions[t] > 0

\* A deferred turn is sent to the agent in the end, unless a restart or a
\* database error caught the handler that held it.
DeferredIsSent ==
  \A t \in Turn : delivery[t] = "deferred" /\ status[t] = "queued"
                    ~> sends[t] > 0 \/ t \in abandoned

\* A turn whose retry was accepted is sent to the agent again.
RetryIsSent ==
  \A t \in Turn : retry[t] = "accepted" /\ delivery[t] = "deferred"
                    ~> delivery[t] # "deferred"

\* A turn that was deferred and has completed is announced as completed.
CompletionIsNotified ==
  \A t \in Turn : t \in inFlight /\ agentTurn[t] = "over" ~> t \in notified
=============================================================================
