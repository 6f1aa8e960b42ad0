---------------------------- MODULE TurnTimeline ----------------------------
(***************************************************************************)
(* What a phone shows of a turn while it runs: codex reports the turn and  *)
(* its items to the agent, the agent to the hub, and the hub writes each   *)
(* report to the database, without awaiting it, and broadcasts it to the   *)
(* user's sockets.  The phone applies the events to its timeline, and      *)
(* reloads the turns when a turn ends, when its socket is back and when    *)
(* the user selects the conversation.                                      *)
(*                                                                         *)
(* One turn, which the phone has created and control-api has sent, and one *)
(* phone.  How far the turn or an item is stands for its payload.  Deltas, *)
(* diffs and plans, which add text to what is shown, are left out, and so  *)
(* is thread.status.changed, which may clear activeTurnId before           *)
(* turn.completed does.                                                    *)
(***************************************************************************)
EXTENDS Naturals, Sequences

CONSTANTS
  Items,       \* the items of the turn
  Turn,        \* the turn itself
  MaxLinks,    \* bound on the sockets of the phone
  MaxSelects   \* bound on how often the user leaves the conversation

VARIABLES
  told,       \* what the hub has been told: Turn or item -> "none", "started" or
              \*   "completed"
  inserts,    \* its writes that are not done yet
  row,        \* conversation_turns and conversation_items
  link,       \* the phone's socket: "down", "opening" or "bound" by the hub
  links,      \* its sockets so far
  toPhone,    \* events on the socket
  selected,   \* the conversation is _selectedConversation
  selects,    \* how often the user has left it
  activeTurn, \* the turn is activeTurnId
  turns,      \* its status in turns, or "absent"
  shown,      \* its items in the timeline
  load,       \* loadTurns of the conversation: "idle", "asked" or "read"
  payload,    \* the rows it has read
  superseded, \* _loadTurnsRequestToken has grown since it was asked
  recent,     \* it was asked less than 700 ms ago
  lapsed      \* a write or a reload failed, or a reload was refused or superseded, or has
              \*   read what was no longer the truth, or events and writes have crossed

storeVars    == <<inserts, row>>
linkVars     == <<link, links, toPhone>>
choiceVars   == <<selected, selects>>
viewVars     == <<activeTurn, turns, shown>>
loadVars     == <<load, payload, superseded, recent>>
timelineVars == <<told, storeVars, linkVars, choiceVars, viewVars, loadVars, lapsed>>

Things == Items \union {Turn}
Status == {"none", "started", "completed"}

Unknown == [x \in Things |-> "none"]
Rank(s) == CASE s = "none" -> 0 [] s = "started" -> 1 [] s = "completed" -> 2

OnTheWay(x, s) == \E k \in 1 .. Len(toPhone) : toPhone[k] = <<x, s>>

\* Rows that lack what the phone has been told, or will never be told.
Outdated(rows) ==
  \E x \in Things : Rank(rows[x]) < Rank(told[x]) /\ ~OnTheWay(x, told[x])

Noting(happened) == lapsed' = (lapsed \/ happened)

-----------------------------------------------------------------------------
(* Codex, the agent and the hub.                                            *)

\* The socket's readyState tells the hub nothing of a phone that is gone, and a
\* socket whose token is being verified is not in userSockets yet.
BroadcastToUser(x, s) ==
  /\ toPhone' = IF link = "bound" THEN Append(toPhone, <<x, s>>) ELSE toPhone
  /\ Noting(link = "opening" /\ load = "idle")

\* The agent's event reaches the hub, which starts a write and broadcasts it.
Relay(x, s) ==
  /\ told' = [told EXCEPT ![x] = s]
  /\ inserts' = inserts \union {<<x, s>>}
  /\ BroadcastToUser(x, s)
  /\ UNCHANGED <<row, link, links, choiceVars, viewVars, loadVars>>

TurnStarted == told[Turn] = "none" /\ Relay(Turn, "started")

TurnCompleted == told[Turn] = "started" /\ Relay(Turn, "completed")

ItemStarted(i) == told[Turn] = "started" /\ told[i] = "none" /\ Relay(i, "started")

ItemCompleted(i) == told[Turn] = "started" /\ told[i] = "started" /\ Relay(i, "completed")

\* The later of two writes of one row wins, whichever event it is of.
Upsert(x, s) == [row EXCEPT ![x] = s]

WriteLands(x, s) ==
  /\ <<x, s>> \in inserts
  /\ inserts' = inserts \ {<<x, s>>}
  /\ row' = Upsert(x, s)
  /\ Noting(Rank(s) < Rank(row[x]))
  /\ UNCHANGED <<told, linkVars, choiceVars, viewVars, loadVars>>

\* The write of an item fails, which is logged.
ItemWriteFails(i, s) ==
  /\ <<i, s>> \in inserts
  /\ inserts' = inserts \ {<<i, s>>}
  /\ lapsed' = TRUE
  /\ UNCHANGED <<told, row, linkVars, choiceVars, viewVars, loadVars>>

-----------------------------------------------------------------------------
(* loadTurns.                                                               *)

MayLoad == load = "idle"

\* A call while another is in flight, or soon after one, returns at once.
LoadTurns ==
  IF MayLoad /\ ~recent
  THEN /\ load' = "asked" /\ superseded' = FALSE /\ recent' = TRUE
       /\ UNCHANGED payload
  ELSE UNCHANGED loadVars

\* A call that is to make good what was missed, and does not.
Throttled == MayLoad /\ recent

\* GET /conversations/:conversationId/turns lists the rows.
ListConversationTurns ==
  /\ load = "asked"
  /\ load' = "read" /\ payload' = row
  /\ UNCHANGED <<told, storeVars, linkVars, choiceVars, viewVars, superseded, recent,
                 lapsed>>

\* applyCompleted takes the status of the payload, and "completed" if it has none, as
\* that of a message.
Hydrated(s) == IF s = "started" THEN {"started", "completed"} ELSE {s}

CountsAsRunning(s) == s \in {"none", "started"}

\* _hydrateTimelineFromTurn overwrites what is shown, and never removes an item.
ApplyTurns ==
  /\ load = "read" /\ load' = "idle" /\ payload' = Unknown
  /\ IF superseded \/ ~selected
     THEN /\ Noting(superseded /\ selected)
          /\ UNCHANGED viewVars
     ELSE /\ turns' = payload[Turn]
          /\ activeTurn' = CountsAsRunning(payload[Turn])
          /\ shown' \in [Items -> Status]
          /\ \A i \in Items :
               shown'[i] \in IF payload[i] = "none" THEN {shown[i]} ELSE Hydrated(payload[i])
          /\ Noting(Outdated(payload))
  /\ UNCHANGED <<told, storeVars, linkVars, choiceVars, superseded, recent>>

LoadFails ==
  /\ load = "asked" /\ load' = "idle"
  /\ lapsed' = TRUE
  /\ UNCHANGED <<told, storeVars, linkVars, choiceVars, viewVars, payload, superseded,
                 recent>>

Elapse ==
  /\ recent /\ recent' = FALSE
  /\ UNCHANGED <<told, storeVars, linkVars, choiceVars, viewVars, load, payload,
                 superseded, lapsed>>

-----------------------------------------------------------------------------
(* Events on the phone, its socket and its user.                            *)

NextEvent(x, s) == toPhone # <<>> /\ Head(toPhone) = <<x, s>>

ItemEvent(i, s) ==
  /\ NextEvent(i, s)
  /\ toPhone' = Tail(toPhone)
  /\ shown' = [shown EXCEPT ![i] = s]
  /\ UNCHANGED <<told, storeVars, link, links, choiceVars, activeTurn, turns, loadVars,
                 lapsed>>

TurnStartedEvent ==
  /\ NextEvent(Turn, "started")
  /\ toPhone' = Tail(toPhone)
  /\ activeTurn' = TRUE
  /\ UNCHANGED <<told, storeVars, link, links, choiceVars, turns, shown, loadVars,
                 lapsed>>

TurnCompletedEvent ==
  /\ NextEvent(Turn, "completed")
  /\ toPhone' = Tail(toPhone)
  /\ activeTurn' = FALSE
  /\ LoadTurns
  /\ UNCHANGED <<told, storeVars, link, links, choiceVars, turns, shown, lapsed>>

\* Mutant of SeemsRunning: the phone reloads nothing when its socket is back.
SeemsIdle == FALSE

\* What the phone looks at to decide whether it has missed something.
SeemsRunning == activeTurn \/ CountsAsRunning(turns)

SocketDisconnected ==
  /\ link # "down" /\ links < MaxLinks
  /\ link' = "down" /\ toPhone' = <<>>
  /\ Noting(toPhone # <<>> /\ ~SeemsRunning)
  /\ UNCHANGED <<told, storeVars, links, choiceVars, viewVars, loadVars>>

\* The phone counts as connected at once, and reloads the selected conversation.
ConnectSocket ==
  /\ link = "down"
  /\ link' = "opening" /\ links' = links + 1
  /\ IF selected /\ SeemsRunning
     THEN LoadTurns /\ Noting(Throttled)
     ELSE /\ superseded' = (superseded \/ (load # "idle" /\ ~selected /\ activeTurn))
          /\ UNCHANGED <<load, payload, recent, lapsed>>
  /\ UNCHANGED <<told, storeVars, toPhone, choiceVars, viewVars>>

\* verifyAccessTokenWithUser has answered.
BindUserSocket ==
  /\ link = "opening" /\ link' = "bound"
  /\ UNCHANGED <<told, storeVars, links, toPhone, choiceVars, viewVars, loadVars, lapsed>>

\* The user turns to another conversation, whose turns are loaded, unless they are
\* loading already.
SelectOther ==
  /\ selected /\ selects < MaxSelects
  /\ selected' = FALSE /\ selects' = selects + 1
  /\ superseded' \in {superseded, load # "idle"}
  /\ UNCHANGED <<told, storeVars, linkVars, viewVars, load, payload, recent, lapsed>>

OtherLoaded ==
  /\ ~selected
  /\ activeTurn' = FALSE /\ turns' = "absent"
  /\ UNCHANGED <<told, storeVars, linkVars, choiceVars, shown, loadVars, lapsed>>

SelectBack ==
  /\ ~selected /\ selected' = TRUE
  /\ LoadTurns /\ Noting(Throttled)
  /\ UNCHANGED <<told, storeVars, linkVars, selects, viewVars>>

-----------------------------------------------------------------------------
Init ==
  /\ told = Unknown /\ row = Unknown
  /\ inserts = {} /\ toPhone = <<>>
  /\ link = "bound" /\ links = 1
  /\ selected = TRUE /\ selects = 0
  /\ activeTurn = TRUE /\ turns = "none" /\ shown = [i \in Items |-> "none"]
  /\ load = "idle" /\ payload = row /\ superseded = FALSE /\ recent = FALSE
  /\ lapsed = FALSE

Next ==
  \/ TurnStarted \/ TurnCompleted
  \/ \E i \in Items : ItemStarted(i) \/ ItemCompleted(i)
  \/ \E x \in Things, s \in Status : WriteLands(x, s)
  \/ \E i \in Items, s \in Status : ItemWriteFails(i, s) \/ ItemEvent(i, s)
  \/ TurnStartedEvent \/ TurnCompletedEvent
  \/ ListConversationTurns \/ ApplyTurns \/ LoadFails \/ Elapse
  \/ SocketDisconnected \/ ConnectSocket \/ BindUserSocket
  \/ SelectOther \/ OtherLoaded \/ SelectBack

Spec == Init /\ [][~lapsed /\ Next]_timelineVars

-----------------------------------------------------------------------------
TypeOK ==
  /\ {told, row, payload} \subseteq [Things -> Status]
  /\ inserts \subseteq Things \X Status
  /\ link \in {"down", "opening", "bound"} /\ links \in 1 .. MaxLinks
  /\ toPhone \in Seq(Things \X Status)
  /\ selected \in BOOLEAN /\ selects \in 0 .. MaxSelects
  /\ activeTurn \in BOOLEAN /\ turns \in Status \union {"absent"} /\ shown \in [Items -> Status]
  /\ load \in {"idle", "asked", "read"} /\ superseded \in BOOLEAN /\ recent \in BOOLEAN
  /\ lapsed \in BOOLEAN

Settled == /\ inserts = {} /\ toPhone = <<>> /\ load = "idle"
           /\ link = "bound" /\ selected

\* Once nothing is under way, a phone shows a finished turn as finished and its items
\* as the agent has reported them: what its socket missed, and what other conversations
\* put in its place, is made good by the reload, unless a write failed, or the reload was
\* refused, failed or superseded, or read what was not yet, or is no longer, the truth.
EndIsShown ==
  Settled /\ row[Turn] = "completed" /\ ~lapsed =>
    /\ ~activeTurn
    /\ \A i \in Items : shown[i] \in Hydrated(told[i])
=============================================================================
