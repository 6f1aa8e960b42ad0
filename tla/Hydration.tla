----------------------------- MODULE Hydration -----------------------------
(***************************************************************************)
(* The turns that control-api shows of a conversation: rows created by     *)
(* POST .../turns and updated by the agent's events, and rows that a       *)
(* hydration copies from codex's thread after it has deleted all others.   *)
(* A hydration is run by GET .../turns, which any number of clients call   *)
(* at once, or by the import route.                                        *)
(*                                                                         *)
(* One conversation bound to one thread.  A codex turn is its place in the *)
(* thread.  Each await is a step boundary, except that the queries which   *)
(* copy one turn are one step.  Turns that need repair, which only data    *)
(* from before encryption does, are left out, and so are a turn's items.   *)
(***************************************************************************)
EXTENDS Integers, Sequences, FiniteSets

CONSTANTS
  LiveTurns,      \* turns that users create
  MaxHydrations,  \* bound on the calls of hydrateConversationFromCodexThread
  MaxTurns,       \* bound on the turns of the thread
  MaxFailures,    \* bound on the hydrations that fail
  Final           \* how a turn can end, of "completed" and "failed"

VARIABLES
  thread,      \* codex: the status of each turn of the thread
  turnOf,      \* the codex turn the agent started for each live turn, or 0
  sent,        \* live turns on their way to the agent
  routeAt,     \* where the route of each live turn stands
  rows,        \* conversation_turns: id -> status and codex_turn_id (0 if NULL)
  convStatus,  \* the status of the conversation
  writes,      \* writes of the agent's events that are not done yet
  hydration,   \* where each hydration stands
  snapshot,    \* the turns it read from the agent and has still to copy: the
               \*   statuses of the whole thread, and the next turn's place
  nextTurn,
  overlapped,  \* two hydrations were at work at the same time
  halfDone,    \* a hydration failed after it had deleted the rows
  early,       \* live turns whose row a hydration deleted before the agent started
               \*   them, and codex turns whose row it deleted unread
  earlyTurns,
  hydrationFailures

liveVars      == <<thread, turnOf, sent, routeAt>>
rowVars       == <<rows, convStatus, writes>>
progressVars  == <<hydration, snapshot, nextTurn>>
ghostVars     == <<overlapped, halfDone, early, earlyTurns, hydrationFailures>>
hydrationVars == <<liveVars, rowVars, progressVars, ghostVars>>

\* Calls are numbered in the order they come.
Hydrations == 1 .. MaxHydrations
TurnNo   == 1 .. MaxTurns
RowId    == (LiveTurns \X {0}) \union (Hydrations \X TurnNo)
RowOf(l) == <<l, 0>>
Row(status, k) == [status |-> status, codex |-> k]
Stage    == {"idle", "reading", "read", "copying", "done"}

-----------------------------------------------------------------------------
(* Turns created by users, run by the agent.                                *)

CreateConversationTurn(l) ==
  /\ routeAt[l] = "idle"
  /\ routeAt' = [routeAt EXCEPT ![l] = "created"]
  /\ rows' = [r \in DOMAIN rows \union {RowOf(l)} |->
                IF r = RowOf(l) THEN Row("queued", 0) ELSE rows[r]]
  /\ UNCHANGED <<thread, turnOf, sent, convStatus, writes, progressVars, ghostVars>>

\* Sent, or deferred, in which case the dispatcher sends it some time later.
SendTurn(l) ==
  /\ routeAt[l] = "created"
  /\ routeAt' = [routeAt EXCEPT ![l] = "sent"]
  /\ sent' = sent \union {l}
  /\ convStatus' = "running"
  /\ UNCHANGED <<thread, turnOf, rows, writes, progressVars, ghostVars>>

AgentStartsTurn(l) ==
  /\ l \in sent
  /\ Len(thread) < MaxTurns
  /\ sent' = sent \ {l}
  /\ thread' = Append(thread, "running")
  /\ turnOf' = [turnOf EXCEPT ![l] = Len(thread')]
  /\ writes' = writes \union {<<l, "running">>}
  /\ earlyTurns' = IF l \in early THEN earlyTurns \union {Len(thread')} ELSE earlyTurns
  /\ UNCHANGED <<routeAt, rows, convStatus, progressVars, overlapped, halfDone, early,
                 hydrationFailures>>

\* A turn the user starts in codex on the computer.
DesktopTurn ==
  /\ Len(thread) < MaxTurns
  /\ thread' = Append(thread, "running")
  /\ UNCHANGED <<turnOf, sent, routeAt, rowVars, progressVars, ghostVars>>

TurnEnds(k, outcome) ==
  /\ k \in 1 .. Len(thread) /\ thread[k] = "running"
  /\ thread' = [thread EXCEPT ![k] = outcome]
  /\ writes' = writes \union {<<l, outcome>> : l \in {m \in LiveTurns : turnOf[m] = k}}
  /\ UNCHANGED <<turnOf, sent, routeAt, rows, convStatus, progressVars, ghostVars>>

\* An UPDATE of an event: it finds no row when a hydration has deleted it.
WriteEvent(l, status) ==
  /\ <<l, status>> \in writes
  /\ writes' = writes \ {<<l, status>>}
  /\ rows' = [r \in DOMAIN rows |->
       IF r = RowOf(l)
       THEN Row(status, IF status = "running" THEN turnOf[l] ELSE rows[r].codex)
       ELSE rows[r]]
  /\ convStatus' = IF status = "completed" THEN "idle" ELSE status
  /\ UNCHANGED <<liveVars, progressVars, ghostVars>>

-----------------------------------------------------------------------------
(* hydrateConversationFromCodexThread.                                      *)

AtWork(h) == hydration[h] \in {"reading", "read", "copying"}

StartHydration(h) ==
  /\ hydration[h] = "idle" /\ \A g \in 1 .. h - 1 : hydration[g] # "idle"
  /\ hydration' = [hydration EXCEPT ![h] = "reading"]
  /\ overlapped' = (overlapped \/ \E g \in Hydrations : AtWork(g))
  /\ UNCHANGED <<liveVars, rowVars, snapshot, nextTurn, halfDone, early, earlyTurns,
                 hydrationFailures>>

\* GET .../turns when there are no rows and the conversation is not active; ...
HydrateOnDemand(h) ==
  /\ rows = <<>>
  /\ convStatus # "running"
  /\ StartHydration(h)

\* ... GET .../turns?forceHydrate; and the import, whose conditions are about time.
ForceHydrate(h) == StartHydration(h)

\* The agent answers codex.thread.read.
ThreadRead(h) ==
  /\ hydration[h] = "reading"
  /\ snapshot' = [snapshot EXCEPT ![h] = thread]
  /\ hydration' = [hydration EXCEPT ![h] = "read"]
  /\ UNCHANGED <<liveVars, rowVars, nextTurn, ghostVars>>

\* The codex turn a row stands for, 0 if the agent has not started it.
CodexTurnOf(r) ==
  IF r[2] = 0 THEN turnOf[r[1]] ELSE rows[r].codex

Unread(h) == {r \in DOMAIN rows : CodexTurnOf(r) > Len(snapshot[h])}

\* Mutant: the rows that are there are kept.
DeleteNothing(h) ==
  UNCHANGED <<rows, early, earlyTurns>>

\* deleteConversationTurns: every row of the conversation.
DeleteConversationTurns(h) ==
  /\ rows' = <<>>
  /\ early' = early \union
       {l \in LiveTurns : RowOf(l) \in DOMAIN rows /\ turnOf[l] = 0}
  /\ earlyTurns' = earlyTurns \union {CodexTurnOf(r) : r \in Unread(h)}

DeleteRows(h) ==
  /\ hydration[h] = "read"
  /\ DeleteConversationTurns(h)
  /\ nextTurn' = [nextTurn EXCEPT ![h] = 1]
  /\ hydration' = [hydration EXCEPT ![h] = "copying"]
  /\ UNCHANGED <<liveVars, convStatus, writes, snapshot, overlapped, halfDone,
                 hydrationFailures>>

\* Mutant: only turns that have ended are copied.
CopiesEnded(status) == status \in Final

Copies(status) == TRUE

CopyTurn(h) ==
  LET k == nextTurn[h] IN
  /\ hydration[h] = "copying" /\ k <= Len(snapshot[h])
  /\ rows' = IF Copies(snapshot[h][k])
             THEN [r \in DOMAIN rows \union {<<h, k>>} |->
                     IF r = <<h, k>> THEN Row(snapshot[h][k], k) ELSE rows[r]]
             ELSE rows
  /\ nextTurn' = [nextTurn EXCEPT ![h] = k + 1]
  /\ UNCHANGED <<liveVars, convStatus, writes, hydration, snapshot, ghostVars>>

Returns(h) ==
  /\ hydration' = [hydration EXCEPT ![h] = "done"]
  /\ snapshot' = [snapshot EXCEPT ![h] = <<>>]
  /\ nextTurn' = [nextTurn EXCEPT ![h] = 0]

\* The conversation's status becomes that of the last turn.
EndHydration(h) ==
  LET last == snapshot[h][Len(snapshot[h])] IN
  /\ hydration[h] = "copying" /\ nextTurn[h] > Len(snapshot[h])
  /\ convStatus' = IF snapshot[h] = <<>> \/ last = "completed" THEN "idle" ELSE last
  /\ Returns(h)
  /\ UNCHANGED <<liveVars, rows, writes, ghostVars>>

\* The agent is offline or does not answer in time, or a query fails.
HydrationFails(h) ==
  /\ AtWork(h)
  /\ hydrationFailures < MaxFailures
  /\ hydrationFailures' = hydrationFailures + 1
  /\ Returns(h)
  /\ halfDone' = (halfDone \/ hydration[h] = "copying")
  /\ UNCHANGED <<liveVars, rowVars, overlapped, early, earlyTurns>>

Init ==
  /\ thread = <<>> /\ sent = {} /\ rows = <<>> /\ convStatus = "idle" /\ writes = {}
  /\ turnOf = [l \in LiveTurns |-> 0] /\ routeAt = [l \in LiveTurns |-> "idle"]
  /\ hydration = [h \in Hydrations |-> "idle"]
  /\ snapshot = [h \in Hydrations |-> <<>>] /\ nextTurn = [h \in Hydrations |-> 0]
  /\ overlapped = FALSE /\ halfDone = FALSE /\ early = {} /\ earlyTurns = {}
  /\ hydrationFailures = 0

Next ==
  \/ \E l \in LiveTurns :
       \/ CreateConversationTurn(l) \/ SendTurn(l) \/ AgentStartsTurn(l)
       \/ \E status \in {"running"} \union Final : WriteEvent(l, status)
  \/ DesktopTurn
  \/ \E k \in TurnNo, outcome \in Final : TurnEnds(k, outcome)
  \/ \E h \in Hydrations :
       \/ HydrateOnDemand(h) \/ ForceHydrate(h) \/ ThreadRead(h)
       \/ DeleteRows(h) \/ CopyTurn(h) \/ EndHydration(h) \/ HydrationFails(h)

Spec == Init /\ [][Next]_hydrationVars

-----------------------------------------------------------------------------
TypeOK ==
  /\ thread \in Seq({"running"} \union Final) /\ Len(thread) <= MaxTurns
  /\ turnOf \in [LiveTurns -> 0 .. MaxTurns]
  /\ sent \subseteq LiveTurns /\ early \subseteq LiveTurns /\ earlyTurns \subseteq TurnNo
  /\ routeAt \in [LiveTurns -> {"idle", "created", "sent"}]
  /\ DOMAIN rows \subseteq RowId
  /\ \A r \in DOMAIN rows :
       rows[r] \in [status : {"queued", "running"} \union Final, codex : 0 .. MaxTurns]
  /\ convStatus \in {"idle", "running", "failed"}
  /\ writes \subseteq LiveTurns \X ({"running"} \union Final)
  /\ hydration \in [Hydrations -> Stage]
  /\ {overlapped, halfDone} \subseteq BOOLEAN
  /\ hydrationFailures \in 0 .. MaxFailures

\* A turn of the thread is shown once, although a hydration and the routes and events
\* of turns work on the same rows, unless two hydrations were at work together.
ShownOnce ==
  ~overlapped => \A r, q \in DOMAIN rows :
    (r # q /\ rows[r].codex # 0) => rows[r].codex # rows[q].codex

\* A turn that was created by a user and started by the agent is shown once nothing is
\* under way, although hydrations delete all rows.  The exceptions: a hydration failed
\* after that, or deleted the row before the agent had started the turn or told of it.
StartedIsShown ==
  (~halfDone /\ writes = {} /\ \A h \in Hydrations : ~AtWork(h)) =>
    \A l \in LiveTurns :
      (turnOf[l] # 0 /\ turnOf[l] \notin earlyTurns) =>
        \E r \in DOMAIN rows : CodexTurnOf(r) = turnOf[l]
=============================================================================
