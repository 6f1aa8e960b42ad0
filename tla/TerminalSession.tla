-------------------------- MODULE TerminalSession --------------------------
(***************************************************************************)
(* Terminal sessions, and keeping the computer awake while there is work.  *)
(* POST /sessions inserts a row and sends session.create to the agent; the *)
(* agent's SessionManager runs the command in a child process and reports  *)
(* session.status, which the hub writes to the row without waiting for the *)
(* write.  KeepAwakeManager runs an inhibitor process while a session or a *)
(* turn is marked active.                                                  *)
(*                                                                         *)
(* Messages travel in order until the connection drops; the pool runs the  *)
(* writes of the hub in any order, or fails them.  The agent may be asked  *)
(* to stop, or be killed, and another one started: the hub does nothing    *)
(* about the sessions of the old one, whose processes and inhibitor may    *)
(* run on.  Input and output change no state of a session but its cursor,  *)
(* and are left out.                                                       *)
(***************************************************************************)
EXTENDS Integers, Sequences, FiniteSets

CONSTANTS
  Sessions,
  Turns,       \* turns that the ConversationManager starts and completes
  MaxSpawns,   \* bound on the inhibitors spawned
  MaxLosses    \* bound on drops of the connection, failed writes and ends of agents

VARIABLES
  row,         \* sessions.status
  writing,     \* writes of the hub that the pool has not run yet
  toAgent,     \* messages to the agent
  toHub,       \* session.status messages to the hub
  serving,     \* the agent has not been asked to stop
  creating,    \* session.create handlers that wait for syncE2EPeers
  sessions,    \* SessionManager.sessions
  child,       \* the child process of a session, "lost" if its agent ended first
  activeSessions, activeTurns,
  inhibitor,   \* inhibitorProcess, 0 for null
  alive,       \* inhibitor processes that run
  signalled,   \* those of them that were sent SIGTERM
  spawned,     \* inhibitors so far
  orphans,     \* inhibitors whose agent ended without a signal to them
  threw,       \* sessions whose spawn threw
  reordered,   \* sessions two of whose writes were under way at once
  cut,         \* sessions with a message, a write or a waiting handler lost
  losses

serverVars == <<row, writing>>
wireVars   == <<toAgent, toHub>>
agentVars  == <<serving, creating, sessions, child>>
awakeVars  == <<activeSessions, activeTurns, inhibitor, alive, signalled, spawned, orphans>>
pastVars   == <<threw, reordered, cut, losses>>
sessionVars == <<serverVars, wireVars, agentVars, awakeVars, pastVars>>

Status     == {"running", "exited", "failed"}
AgentMsg   == [type : {"create", "terminate"}, session : Sessions]
StatusMsg  == [session : Sessions, status : Status]
ChildState == {"none", "runs", "broken", "ended", "closed", "lost"}

Loss == losses < MaxLosses /\ losses' = losses + 1

-----------------------------------------------------------------------------
(* keep-awake.ts, with the mode "active" and an inhibitor to run.           *)

EnsureInhibitor ==
  IF inhibitor # 0
  THEN UNCHANGED <<inhibitor, alive, signalled, spawned>>
  ELSE /\ spawned < MaxSpawns
       /\ spawned' = spawned + 1
       /\ inhibitor' = spawned + 1
       /\ alive' = alive \union {spawned + 1}
       /\ UNCHANGED signalled

StopInhibitor ==
  /\ inhibitor' = 0
  /\ signalled' = signalled \union (alive \intersect {inhibitor})
  /\ UNCHANGED <<alive, spawned>>

\* recomputeKeepAwakeState, at the end of markSessionActive and markTurnActive.
MarkActive(someSessions, someTurns) ==
  /\ activeSessions' = someSessions
  /\ activeTurns' = someTurns
  /\ UNCHANGED orphans
  /\ IF someSessions \union someTurns # {} THEN EnsureInhibitor ELSE StopInhibitor

\* Mutant: the exit of any inhibitor clears the reference.
ForgetAny(i) == inhibitor' = 0

\* The handler of a child's exit or error clears the reference to that child only.
Forget(i) == inhibitor' = IF inhibitor = i THEN 0 ELSE inhibitor

InhibitorExits(i) ==
  /\ i \in alive
  /\ alive' = alive \ {i}
  /\ signalled' = signalled \ {i}
  /\ orphans' = orphans \ {i}
  /\ Forget(i)
  /\ UNCHANGED <<serverVars, wireVars, agentVars, activeSessions, activeTurns, spawned,
                 pastVars>>

\* conversation.turn.started and conversation.turn.completed pass the runner.
TurnMarked(t) ==
  /\ MarkActive(activeSessions, IF t \in activeTurns THEN activeTurns \ {t}
                                ELSE activeTurns \union {t})
  /\ UNCHANGED <<serverVars, wireVars, agentVars, pastVars>>

-----------------------------------------------------------------------------
(* control-api.                                                             *)

\* updateSessionStatus, called and not awaited.
UpdateSessionStatus(s, status) ==
  /\ writing' = writing \union {[session |-> s, status |-> status]}
  /\ reordered' = IF \E w \in writing : w.session = s /\ w.status # status
                  THEN reordered \union {s} ELSE reordered

SendToAgent(type, s) ==
  toAgent' = Append(toAgent, [type |-> type, session |-> s])

\* POST /sessions; when the agent is offline the row is failed at once.
CreateSession(s, online) ==
  /\ row[s] = "none"
  /\ row' = [row EXCEPT ![s] = IF online THEN "running" ELSE "failed"]
  /\ IF online THEN SendToAgent("create", s) ELSE UNCHANGED toAgent
  /\ UNCHANGED <<writing, toHub, agentVars, awakeVars, pastVars>>

\* session.terminate over the user's websocket, or from stopService.
SendTerminate(s) ==
  /\ row[s] = "running"
  /\ ~\E i \in 1 .. Len(toAgent) : toAgent[i] = [type |-> "terminate", session |-> s]
  /\ SendToAgent("terminate", s)
  /\ UNCHANGED <<serverVars, toHub, agentVars, awakeVars, pastVars>>

\* handleAgentMessage of session.status.
ReceiveStatus ==
  /\ toHub # <<>>
  /\ UpdateSessionStatus(Head(toHub).session, Head(toHub).status)
  /\ toHub' = Tail(toHub)
  /\ UNCHANGED <<row, toAgent, agentVars, awakeVars, threw, cut, losses>>

WriteRuns(w) ==
  /\ w \in writing
  /\ writing' = writing \ {w}
  /\ row' = [row EXCEPT ![w.session] = w.status]
  /\ UNCHANGED <<wireVars, agentVars, awakeVars, pastVars>>

\* Nobody waits for the write, and nobody is told that it failed.
WriteFails(w) ==
  /\ w \in writing
  /\ Loss
  /\ writing' = writing \ {w}
  /\ cut' = cut \union {w.session}
  /\ UNCHANGED <<row, wireVars, agentVars, awakeVars, threw, reordered>>

\* The sessions of the messages on the connection.
OnTheWire == {toAgent[i].session : i \in 1 .. Len(toAgent)}
             \union {toHub[i].session : i \in 1 .. Len(toHub)}

\* The connection drops with everything on it; the hub leaves the rows as they are.
Drop ==
  /\ Loss
  /\ toAgent # <<>> \/ toHub # <<>>
  /\ cut' = cut \union OnTheWire
  /\ toAgent' = <<>> /\ toHub' = <<>>
  /\ UNCHANGED <<serverVars, agentVars, awakeVars, threw, reordered>>

-----------------------------------------------------------------------------
(* The agent: runner.ts and SessionManager.                                 *)

\* An agent that stops has no connection any more: what it says is lost.
Says(s, status) ==
  IF serving
  THEN toHub' = Append(toHub, [session |-> s, status |-> status]) /\ UNCHANGED cut
  ELSE cut' = cut \union {s} /\ UNCHANGED toHub

\* requestStop: the connection is closed and the inhibitor stopped. The process stays
\* until its children have closed, and goes on handling what becomes of them.
StopAgent ==
  /\ serving
  /\ serving' = FALSE
  /\ cut' = cut \union OnTheWire
  /\ toAgent' = <<>> /\ toHub' = <<>>
  /\ StopInhibitor
  /\ UNCHANGED <<serverVars, creating, sessions, child, activeSessions, activeTurns, orphans,
                 threw, reordered, losses>>

InWork == {s \in Sessions : child[s] \in {"runs", "broken", "ended"}}

\* The agent's process ends, asked to or killed, and another one takes its place: what
\* it had in memory is gone, and the inhibitor it did not signal runs on.
AgentEnds ==
  /\ Loss
  /\ serving' = TRUE
  /\ cut' = cut \union OnTheWire \union creating
  /\ toAgent' = <<>> /\ toHub' = <<>>
  /\ creating' = {} /\ sessions' = {}
  /\ child' = [s \in Sessions |-> IF s \in InWork THEN "lost" ELSE child[s]]
  /\ activeSessions' = {} /\ activeTurns' = {}
  /\ inhibitor' = 0
  /\ orphans' = orphans \union (alive \ signalled)
  /\ UNCHANGED <<serverVars, alive, signalled, spawned, threw, reordered>>

\* session.create waits for the sender to be known among the peers.
HandleCreate ==
  /\ serving /\ toAgent # <<>> /\ Head(toAgent).type = "create"
  /\ creating' = creating \union {Head(toAgent).session}
  /\ toAgent' = Tail(toAgent)
  /\ UNCHANGED <<serverVars, toHub, serving, sessions, child, awakeVars, pastVars>>

\* The envelope cannot be decrypted.
CreateRefused(s) ==
  /\ s \in creating
  /\ creating' = creating \ {s}
  /\ Says(s, "failed")
  /\ UNCHANGED <<serverVars, toAgent, serving, sessions, child, awakeVars, threw, reordered,
                 losses>>

\* The session is marked active and its command spawned; onStatus marks it again.
\* A command that cannot be run makes a child that only fails.
SpawnSession(s, runs) ==
  /\ s \in creating
  /\ creating' = creating \ {s}
  /\ MarkActive(activeSessions \union {s}, activeTurns)
  /\ sessions' = sessions \union {s}
  /\ child' = [child EXCEPT ![s] = IF runs THEN "runs" ELSE "broken"]
  /\ Says(s, "running")
  /\ UNCHANGED <<serverVars, toAgent, serving, threw, reordered, losses>>

\* spawn refuses its arguments: the handler only logs the exception.
SpawnThrows(s) ==
  /\ s \in creating
  /\ creating' = creating \ {s}
  /\ MarkActive(activeSessions \union {s}, activeTurns)
  /\ threw' = threw \union {s}
  /\ UNCHANGED <<serverVars, wireVars, serving, sessions, child, reordered, cut, losses>>

\* session.terminate: a session that is not in the map is only marked.
HandleTerminate ==
  LET s == Head(toAgent).session
  IN  /\ serving /\ toAgent # <<>> /\ Head(toAgent).type = "terminate"
      /\ sessions' = sessions \ {s}
      /\ MarkActive(activeSessions \ {s}, activeTurns)
      /\ toAgent' = Tail(toAgent)
      /\ UNCHANGED <<serverVars, toHub, serving, creating, child, pastVars>>

ChildEnds(s) ==
  /\ child[s] = "runs"
  /\ child' = [child EXCEPT ![s] = "ended"]
  /\ UNCHANGED <<serverVars, wireVars, serving, creating, sessions, awakeVars, pastVars>>

\* The handler of "error"; "close" follows.
ChildFails(s) ==
  /\ child[s] = "broken"
  /\ child' = [child EXCEPT ![s] = "ended"]
  /\ sessions' = sessions \ {s}
  /\ MarkActive(activeSessions \ {s}, activeTurns)
  /\ Says(s, "failed")
  /\ UNCHANGED <<serverVars, toAgent, serving, creating, threw, reordered, losses>>

\* Mutant: the end of a session that is no longer in the map is not reported.
ReportIfKnown(s) ==
  IF s \in sessions THEN Says(s, "exited") ELSE UNCHANGED <<toHub, cut>>

ReportClose(s) == Says(s, "exited")

\* The handler of "close", also of a child that was terminated.
ChildCloses(s) ==
  /\ child[s] = "ended"
  /\ child' = [child EXCEPT ![s] = "closed"]
  /\ sessions' = sessions \ {s}
  /\ MarkActive(activeSessions \ {s}, activeTurns)
  /\ ReportClose(s)
  /\ UNCHANGED <<serverVars, toAgent, serving, creating, threw, reordered, losses>>

-----------------------------------------------------------------------------
Init ==
  /\ row = [s \in Sessions |-> "none"]
  /\ writing = {}
  /\ toAgent = <<>> /\ toHub = <<>>
  /\ serving = TRUE /\ creating = {}
  /\ sessions = {}
  /\ child = [s \in Sessions |-> "none"]
  /\ activeSessions = {} /\ activeTurns = {}
  /\ inhibitor = 0 /\ alive = {} /\ signalled = {} /\ spawned = 0 /\ orphans = {}
  /\ threw = {} /\ reordered = {} /\ cut = {} /\ losses = 0

Next ==
  \/ \E s \in Sessions :
       \/ \E b \in BOOLEAN : CreateSession(s, b) \/ SpawnSession(s, b)
       \/ SendTerminate(s) \/ CreateRefused(s) \/ SpawnThrows(s)
       \/ ChildEnds(s) \/ ChildFails(s) \/ ChildCloses(s)
  \/ ReceiveStatus \/ Drop \/ HandleCreate \/ HandleTerminate
  \/ StopAgent \/ AgentEnds
  \/ \E w \in StatusMsg : WriteRuns(w) \/ WriteFails(w)
  \/ \E i \in 1 .. MaxSpawns : InhibitorExits(i)
  \/ \E t \in Turns : TurnMarked(t)

Spec == Init /\ [][Next]_sessionVars

-----------------------------------------------------------------------------
TypeOK ==
  /\ row \in [Sessions -> Status \union {"none"}]
  /\ writing \subseteq StatusMsg
  /\ toAgent \in Seq(AgentMsg)
  /\ toHub \in Seq(StatusMsg)
  /\ serving \in BOOLEAN
  /\ creating \subseteq Sessions
  /\ sessions \subseteq Sessions
  /\ child \in [Sessions -> ChildState]
  /\ activeSessions \subseteq Sessions
  /\ activeTurns \subseteq Turns
  /\ inhibitor \in 0 .. MaxSpawns
  /\ alive \subseteq 1 .. MaxSpawns
  /\ signalled \subseteq alive
  /\ spawned \in 0 .. MaxSpawns
  /\ orphans \subseteq alive
  /\ threw \subseteq Sessions
  /\ reordered \subseteq Sessions
  /\ cut \subseteq Sessions
  /\ losses \in 0 .. MaxLosses

\* The computer is kept awake only for work, and can be let to sleep again: an
\* inhibitor nobody has signalled is the one the manager refers to, or was left behind
\* by an agent that ended; the manager refers to none when nothing is active; and an
\* active session has a process that has not ended yet (or its spawn threw).
AwakeOnlyForWork ==
  /\ alive \ signalled \subseteq orphans \union {inhibitor}
  /\ activeSessions \union activeTurns = {} => inhibitor = 0
  /\ \A s \in activeSessions : s \in InWork \union threw

\* Once no message, handler or write is under way, a row says "running" only of a
\* session whose process the agent runs: it is wrong only if a message, a write or a
\* waiting handler was lost, if the agent ended before the process did, after two
\* writes were under way at once, or when spawn threw.
RowFollowsSession ==
  \A s \in Sessions :
    row[s] = "running" /\ s \notin (creating \union threw \union reordered \union cut) =>
      \/ s \in InWork \/ child[s] = "lost"
      \/ \E w \in writing : w.session = s
      \/ \E i \in 1 .. Len(toHub) : toHub[i].session = s
      \/ \E i \in 1 .. Len(toAgent) : toAgent[i] = [type |-> "create", session |-> s]
=============================================================================
