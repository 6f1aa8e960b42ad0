----------------------------- MODULE MCComputer -----------------------------
(***************************************************************************)
(* What runs on and for the agent's computer, for TLC: its session file,   *)
(* its daemon, its terminal sessions, its tunnels and their tokens, the    *)
(* envelopes it receives, its codex, and the conversations that codex's    *)
(* threads are bound to. The components share no state, so that what holds *)
(* of each alone holds of them together; a behaviour is that of one of     *)
(* them, and the others keep their initial state.                          *)
(***************************************************************************)
EXTENDS Integers, Sequences, FiniteSets, TLC

CONSTANTS
  MaxToken, MaxAged, MaxSeq, MaxCrashes, Commands, Pids, NoPid,
  MaxCommands, MaxExits, MaxBreaks, Sessions, Turns, MaxSpawns, MaxLosses,
  Agents, Owner, Unsteady, Https, Sockets, LastHost, None, MaxConns, MaxRequests,
  TokenRequests, MaxTokens, MaxEnvelopes, MaxScans, MaxFaults,
  Callers, MaxCodexes, MaxId, Threads, Syncs, MaxConversations

VARIABLES
  part,  \* the component whose behaviour this is
  file, live, aged, sessionIssued, logins, runs, pc, read, token, up, mem,
  rtKey, seq, timer, queued, wpc, next, base, latest,
  clobbered, lost, unsaved, crashes,
  runtimeFile, process, op, daemonAt, state, inspections, commandRuns,
  exits, breaks, startRaced, interrupted,
  row, writing, terminalToAgent, terminalToHub, serving, creating, sessions, child,
  activeSessions, activeTurns, inhibitor, alive, signalled, spawned, orphans,
  threw, reordered, cut, losses,
  tunnel, rowAgent, conn, bound, closing, agentConn, conns, tunnelToAgent,
  tunnelToHub, gone, heard, tunnelAt, candidates, pendingProxy,
  pendingOpen, routes, ports, fetching, opening, local, served, lapsed,
  hashed, life, tokenIssued, request, minting, minted, given, overlapped,
  failures,
  phoneSeq, phoneFile, phoneWrites, made, scans, onTheWay, knownPeer,
  peerOnFile, peerSync, held, lastSeen, sent, accepted, refused, unknown,
  faults,
  codexChild, codexes, nextRequestId, pending, asked, replies,
  authBackoff, transientBackoff, codexAt, awaits, settled, lateExit,
  onDisk, starter, reports, convs, threadOf, locked, paused, sync, listed,
  known, making, conversationMade, unreported, syncFailures

\* What the constants of each component are.
ASSUME SessionAssumption ==
  MaxToken \in Nat \ {0} /\ {MaxAged, MaxSeq, MaxCrashes} \subseteq Nat
ASSUME DaemonAssumption ==
  NoPid \notin Pids /\ {MaxCommands, MaxExits, MaxBreaks} \subseteq Nat
ASSUME TerminalAssumption == {MaxSpawns, MaxLosses} \subseteq Nat
ASSUME TunnelAssumption ==
  MaxConns \in Nat /\ LastHost \in Nat \ {0} /\ Owner \in Agents /\ Https \intersect Sockets = {}
ASSUME TokenAssumption == MaxTokens \in Nat \ {0}
ASSUME ChannelAssumption == {MaxEnvelopes, MaxScans, MaxFaults} \subseteq Nat
ASSUME CodexAssumption == {MaxCodexes, MaxId} \subseteq Nat
ASSUME SyncAssumption == MaxConversations \in Nat /\ None \notin Threads

\* The components that have a proof module of their own are instances of it, so that
\* its theorems hold of them here, too.
Session == INSTANCE AgentSession WITH
  Commands <- {"command"}, MaxCommands <- 1, issued <- sessionIssued
Daemon == INSTANCE AgentDaemonProofs WITH
  at <- daemonAt
Terminal == INSTANCE TerminalSession WITH
  toAgent <- terminalToAgent, toHub <- terminalToHub
Tunnel == INSTANCE TunnelRelay WITH
  toAgent <- tunnelToAgent, toHub <- tunnelToHub, at <- tunnelAt
Token == INSTANCE TunnelTokens WITH
  MaxFailures <- 2, issued <- tokenIssued
Channel == INSTANCE E2EChannel
Codex == INSTANCE CodexClientProofs WITH
  child <- codexChild, at <- codexAt
Sync == INSTANCE ThreadSyncProofs WITH
  MaxFailures <- 1, bound <- threadOf, made <- conversationMade

sessionVars ==
  << file, live, aged, sessionIssued, logins, runs, pc, read, token, up,
     mem, rtKey, seq, timer, queued, wpc, next, base, latest,
     clobbered, lost, unsaved, crashes >>
daemonVars ==
  << runtimeFile, process, op, daemonAt, state, inspections, commandRuns,
     exits, breaks, startRaced, interrupted >>
terminalVars ==
  << row, writing, terminalToAgent, terminalToHub, serving, creating, sessions,
     child, activeSessions, activeTurns, inhibitor, alive, signalled,
     spawned, orphans, threw, reordered, cut, losses >>
tunnelVars ==
  << tunnel, rowAgent, conn, bound, closing, agentConn, conns,
     tunnelToAgent, tunnelToHub, gone, heard, tunnelAt, candidates,
     pendingProxy, pendingOpen, routes, ports, fetching, opening, local,
     served, lapsed >>
tokenVars ==
  << hashed, life, tokenIssued, request, minting, minted, given,
     overlapped, failures >>
channelVars ==
  << phoneSeq, phoneFile, phoneWrites, made, scans, onTheWay, knownPeer,
     peerOnFile, peerSync, held, lastSeen, sent, accepted, refused,
     unknown, faults >>
clientVars ==
  << codexChild, codexes, nextRequestId, pending, asked, replies,
     authBackoff, transientBackoff, codexAt, awaits, settled, lateExit >>
syncVars ==
  << onDisk, starter, reports, convs, threadOf, locked, paused, sync,
     listed, known, making, conversationMade, unreported, syncFailures >>

vars ==
  << part, sessionVars, daemonVars, terminalVars,
     tunnelVars, tokenVars, channelVars, clientVars, syncVars >>

Parts ==
  {"session", "daemon", "terminal", "tunnel", "token", "channel", "codex", "sync"}

\* All components but one stay as they are.
Rest(p) ==
  /\ UNCHANGED part
  /\ p # "session" => UNCHANGED sessionVars
  /\ p # "daemon" => UNCHANGED daemonVars
  /\ p # "terminal" => UNCHANGED terminalVars
  /\ p # "tunnel" => UNCHANGED tunnelVars
  /\ p # "token" => UNCHANGED tokenVars
  /\ p # "channel" => UNCHANGED channelVars
  /\ p # "codex" => UNCHANGED clientVars
  /\ p # "sync" => UNCHANGED syncVars

Init ==
  /\ part \in Parts
  /\ Session!Init
  /\ Daemon!Init
  /\ Terminal!Init
  /\ Tunnel!Init
  /\ Token!Init
  /\ Channel!Init
  /\ Codex!Init
  /\ Sync!Init

Next ==
  \* TLC follows a session file until a process has put back an older state, which is
  \* the exception of the properties; the theorems follow it further.
  \/ part = "session" /\ ~clobbered /\ Session!Next /\ Rest("session")
  \/ part = "daemon" /\ Daemon!Next /\ Rest("daemon")
  \/ part = "terminal" /\ Terminal!Next /\ Rest("terminal")
  \/ part = "tunnel" /\ Tunnel!Next /\ Rest("tunnel")
  \/ part = "token" /\ Token!Next /\ Rest("token")
  \/ part = "channel" /\ Channel!Next /\ Rest("channel")
  \/ part = "codex" /\ Codex!Next /\ Rest("codex")
  \/ part = "sync" /\ Sync!Next /\ Rest("sync")

Spec == Init /\ [][Next]_vars

TypeOK ==
  /\ part \in Parts
  /\ part = "session" => Session!TypeOK
  /\ part = "daemon" => Daemon!TypeOK
  /\ part = "terminal" => Terminal!TypeOK
  /\ part = "tunnel" => Tunnel!TypeOK
  /\ part = "token" => Token!TypeOK
  /\ part = "channel" => Channel!TypeOK
  /\ part = "codex" => Codex!TypeOK
  /\ part = "sync" => Sync!TypeOK

\* A sign-in never has more than one live refresh token, and the one on file is it,
\* unless a lost answer, a failed write or an overlapping write parted them.
TokensInStep == Session!TokensInStep

\* Every sequence number the idle agent has used is on file, or could not be saved.
UsedSeqIsOnFile == Session!UsedSeqIsOnFile

\* The daemon that runs is the one runtime.json names.
DaemonIsOnFile == Daemon!DaemonIsOnFile

\* The computer is kept awake only for work, and can be let to sleep again.
AwakeOnlyForWork == Terminal!AwakeOnlyForWork

\* A row says "running" only of a session whose process runs, or was left behind by its
\* agent, once all is quiet and nothing was lost.
RowFollowsSession == Terminal!RowFollowsSession

\* A proxied request is served by one agent at most, and by each of its hosts once.
ServedByOneAgent == Tunnel!ServedByOneAgent

\* A websocket open on the agent's computer has a client and is known to the hub.
LocalIsRouted == Tunnel!LocalIsRouted

\* The token control-api hands out again is the one the tunnel admits.
CachedTokenWorks == Token!CachedTokenWorks

\* The phone gives every prompt a number above those of the prompts before.
PromptNumbersGrow == Channel!PromptNumbersGrow

\* An envelope is refused as a replay only if it was overtaken, or if the phone lost
\* its numbers.
RefusedWasOvertaken == Channel!RefusedWasOvertaken

\* A call that waits will be answered or fail, and is answered by the codex it asked.
CallsGetTheirAnswers == Codex!CallsGetTheirAnswers

\* A codex that runs on is the one the client knows.
RunningIsChild == Codex!RunningIsChild

\* A thread of the computer's codex is shown as one conversation.
BoundOnce == Sync!BoundOnce
=============================================================================
