---------------------------- MODULE AgentSession ----------------------------
(***************************************************************************)
(* session.json of nomade-agent: the refresh token of the sign-in, and the *)
(* end-to-end state of the computer (its peers, and how far the sequence   *)
(* numbers of each scope have been used).  The running agent and the       *)
(* commands of the command line read and write the file with no lock       *)
(* between them: ensureSession refreshes the tokens, login replaces them,  *)
(* logout revokes them, and the agent persists the end-to-end state some   *)
(* time after it changed.                                                  *)
(*                                                                         *)
(* writeUserSession truncates the file before it fills it, and may fail on *)
(* the way.  Whoever reads the file in between, or finds it truncated or   *)
(* mixed, treats it like a file that is not there: NoSession stands for    *)
(* both.                                                                   *)
(*                                                                         *)
(* One scope and one phone that may be added stand for all of them.  Every *)
(* await is a step boundary.  A refresh token and the access token issued  *)
(* with it have the same number; a root key has the number of the token of *)
(* the sign-in that made it.                                               *)
(***************************************************************************)
EXTENDS Integers, FiniteSets, TLC

CONSTANTS
  Commands,    \* command-line processes
  MaxToken,    \* bound on the tokens issued
  MaxAged,     \* bound on the access tokens that expire
  MaxSeq,      \* bound on the sequence number
  MaxCommands, \* bound on the commands run
  MaxCrashes   \* bound on crashes of the agent and failed writes

Process == Commands \union {"agent"}
Writer  == {"flush", "merge"}   \* flushPersistedSeqByScope, mergePeerDevices

VARIABLES
  file,        \* session.json
  live,        \* refresh_tokens that are not revoked
  aged,        \* the access tokens up to this one have expired, or are about to
  issued,      \* the last token number
  logins,      \* sign-ins so far
  runs,        \* commands so far
  pc,          \* where a process stands in ensureSession, login or logout
  read,        \* the session it has read
  token,       \* the token it has received
  up,          \* the agent runs
  mem,         \* its sessionForPersistence
  rtKey, seq,  \* the runtime: its root key and sequence number
  timer,       \* persistSeqTimer is set
  queued,      \* persistSeqQueued
  wpc,         \* where a writer stands; "idle" of flush is persistSeqInFlight = false
  next, base, latest,   \* the state it writes, what that was made from, the file it read
  clobbered,   \* some write undid what another had written since it read
  lost,        \* a token that was issued never reached the file
  unsaved,     \* numbers could not be saved, and no flush has saved them all since
  crashes

serverVars == <<live, aged, issued, logins>>
procVars   == <<runs, pc, read, token>>
runtimeVars == <<up, mem, rtKey, seq>>
writerVars == <<timer, queued, wpc, next, base, latest>>
historyVars == <<clobbered, lost, unsaved, crashes>>
vars == <<file, serverVars, procVars, runtimeVars, writerVars, historyVars>>

NoSession == [token |-> 0, key |-> 0, seq |-> 0, peer |-> FALSE]
Session   == [token : 1 .. MaxToken, key : 1 .. MaxToken, seq : 0 .. MaxSeq, peer : BOOLEAN]
E2E       == [key : 0 .. MaxToken, seq : 0 .. MaxSeq, peer : BOOLEAN]
NoE2E     == [key |-> 0, seq |-> 0, peer |-> FALSE]
State(s)  == [key |-> s.key, seq |-> s.seq, peer |-> s.peer]
ProcState == {"idle", "ready", "refreshing", "refused", "revoked", "issued",
              "login", "redeemed", "logout", "unlink"}

\* A process is done with ensureSession, login or logout, and forgets what it read.
Leaves(p, to) ==
  /\ pc' = [pc EXCEPT ![p] = to]
  /\ read' = [read EXCEPT ![p] = NoSession]
  /\ token' = [token EXCEPT ![p] = 0]

Ends(p) == Leaves(p, "idle")

Fails(p) == Leaves(p, "refused")

\* Whether a write that started from `from` loses something written since.
Loses(from) == clobbered' = (clobbered \/ from # file)

\* Who is about to write the file, or is at it.
Writing == {p \in Process : pc[p] \in {"issued", "redeemed"}}
           \union {w \in Writer : wpc[w] = "writing"}

\* readUserSession, while the file may just have been truncated.
Readings == {file} \union {NoSession : x \in Writing}

\* writeUserSession of a content made from `from`: if another write went between, what
\* the two leave may be mixed.
Written(from, content) == {content} \union {NoSession : x \in {from} \ {file}}

Fault == crashes < MaxCrashes /\ crashes' = crashes + 1

\* writeUserSession fails, before or after it has truncated the file, or in chmod.
HalfWritten(content) == {file, NoSession, content}

-----------------------------------------------------------------------------
(* The tokens on the server.                                                *)

\* Mutant: the token is looked up and revoked by two statements, so that two
\* requests can both find it.
UsableTwice(t) == t \in 1 .. issued

\* useRefreshToken: one UPDATE that finds and revokes the token.
Usable(t) == t \in live

RevokeRefreshToken(t) == live' = live \ {t}

IssueToken(p) ==
  /\ issued < MaxToken
  /\ issued' = issued + 1
  /\ live' = live \union {issued + 1}
  /\ token' = [token EXCEPT ![p] = issued + 1]

-----------------------------------------------------------------------------
(* ensureSession, in a command and in the agent.                            *)

\* The command starts, or the agent does.
Begins(p) ==
  \/ p \in Commands /\ runs < MaxCommands /\ runs' = runs + 1 /\ UNCHANGED up
  \/ p = "agent" /\ ~up /\ up' = TRUE /\ UNCHANGED runs

EnsureRead(p) ==
  /\ pc[p] = "idle"
  /\ file # NoSession
  /\ Begins(p)
  /\ read' = [read EXCEPT ![p] = file]
  /\ pc' = [pc EXCEPT ![p] = IF file.token <= aged THEN "refreshing" ELSE "ready"]
  /\ UNCHANGED <<file, serverVars, token, mem, rtKey, seq, writerVars, historyVars>>

\* createPairingCodeFromSession: the access token was refused all the same.
PairingRefused(p) ==
  /\ p \in Commands
  /\ pc[p] = "ready"
  /\ pc' = [pc EXCEPT ![p] = "refreshing"]
  /\ UNCHANGED <<file, serverVars, runs, read, token, runtimeVars, writerVars, historyVars>>

CommandEnds(p) ==
  /\ p \in Commands
  /\ pc[p] = "ready"
  /\ Ends(p)
  /\ UNCHANGED <<file, serverVars, runs, runtimeVars, writerVars, historyVars>>

\* POST /auth/refresh revokes the token it was given, or answers 401.
RefreshRevokes(p) ==
  /\ pc[p] = "refreshing"
  /\ IF Usable(read[p].token)
     THEN /\ live' = live \ {read[p].token}
          /\ pc' = [pc EXCEPT ![p] = "revoked"]
          /\ UNCHANGED <<read, token>>
     ELSE Fails(p) /\ UNCHANGED live
  /\ UNCHANGED <<file, aged, issued, logins, runs, runtimeVars, writerVars,
                 historyVars>>

RefreshIssues(p) ==
  /\ pc[p] = "revoked"
  /\ IssueToken(p)
  /\ pc' = [pc EXCEPT ![p] = "issued"]
  /\ UNCHANGED <<file, aged, logins, runs, read, runtimeVars, writerVars,
                 historyVars>>

\* The server stops between the two statements, or the answer is lost.
RefreshIsLost(p) ==
  /\ pc[p] \in {"revoked", "issued"}
  /\ lost' = TRUE
  /\ Fails(p)
  /\ UNCHANGED <<file, serverVars, runs, runtimeVars, writerVars, clobbered, unsaved, crashes>>

\* refresh_failed ends the command.
CommandFails(p) ==
  /\ p \in Commands
  /\ pc[p] = "refused"
  /\ Ends(p)
  /\ UNCHANGED <<file, serverVars, runs, runtimeVars, writerVars, historyVars>>

\* What saveSession writes: the end-to-end state is the one read before the requests,
\* and a login that could read none makes a new root key.
Content(p) == [read[p] EXCEPT !.token = token[p],
                              !.key = IF read[p] = NoSession THEN token[p] ELSE @]

\* saveSession, in ensureSession and at the end of a login.
SaveSession(p) ==
  /\ pc[p] \in {"issued", "redeemed"}
  /\ file' \in Written(read[p], Content(p))
  /\ Loses(read[p])
  /\ \/ /\ pc[p] = "issued"
        /\ read' = [read EXCEPT ![p] = Content(p)]
        /\ token' = [token EXCEPT ![p] = 0]
        /\ pc' = [pc EXCEPT ![p] = "ready"]
     \/ pc[p] = "redeemed" /\ Ends(p)
  /\ UNCHANGED <<serverVars, runs, runtimeVars, writerVars, lost, unsaved, crashes>>

SaveFails(p) ==
  /\ pc[p] \in {"issued", "redeemed"}
  /\ Fault
  /\ file' \in HalfWritten(Content(p))
  /\ clobbered' = (clobbered \/ (file' # file /\ read[p] # file))
  /\ lost' = TRUE
  /\ Fails(p)
  /\ UNCHANGED <<serverVars, runs, runtimeVars, writerVars, unsaved>>

-----------------------------------------------------------------------------
(* login and logout.                                                        *)

\* loadReusableE2EState, at the start of loginWithDeviceCode.
LoginReads(p) ==
  /\ p \in Commands
  /\ pc[p] = "idle"
  /\ Begins(p)
  /\ \E reading \in Readings : read' = [read EXCEPT ![p] = reading]
  /\ pc' = [pc EXCEPT ![p] = "login"]
  /\ UNCHANGED <<file, serverVars, token, mem, rtKey, seq, writerVars, historyVars>>

\* The code is redeemed, and the tokens arrive.
LoginRedeems(p) ==
  /\ pc[p] = "login"
  /\ IssueToken(p)
  /\ logins' = logins + 1
  /\ pc' = [pc EXCEPT ![p] = "redeemed"]
  /\ UNCHANGED <<file, aged, runs, read, runtimeVars, writerVars, historyVars>>

LogoutReads(p) ==
  /\ p \in Commands
  /\ pc[p] = "idle"
  /\ Begins(p)
  /\ \E reading \in Readings :
       /\ read' = [read EXCEPT ![p] = reading]
       /\ pc' = [pc EXCEPT ![p] = IF reading = NoSession THEN "unlink" ELSE "logout"]
  /\ UNCHANGED <<file, serverVars, token, mem, rtKey, seq, writerVars, historyVars>>

\* POST /auth/logout needs a valid access token; the answer is not looked at.
LogoutRevokes(p) ==
  /\ pc[p] = "logout"
  /\ IF read[p].token <= aged THEN UNCHANGED live ELSE RevokeRefreshToken(read[p].token)
  /\ pc' = [pc EXCEPT ![p] = "unlink"]
  /\ UNCHANGED <<file, aged, issued, logins, runs, read, token, runtimeVars,
                 writerVars, historyVars>>

LogoutUnlinks(p) ==
  /\ pc[p] = "unlink"
  /\ file' = NoSession
  /\ Loses(read[p])
  /\ Ends(p)
  /\ UNCHANGED <<serverVars, runs, runtimeVars, writerVars, lost, unsaved, crashes>>

-----------------------------------------------------------------------------
(* The running agent.                                                       *)

\* runAgent, with no session that ensureSession can read.
StartWithoutSession ==
  /\ ~up /\ NoSession \in Readings
  /\ up' = TRUE
  /\ pc' = [pc EXCEPT !["agent"] = "refused"]
  /\ UNCHANGED <<file, serverVars, runs, read, token, mem, rtKey, seq, writerVars, historyVars>>

\* ensureSession has returned.  At startup, when it has failed, the file is read once
\* more and its session taken all the same, and the runtime is made from it; later,
\* syncE2EPeers takes over a refreshed session only.
AgentTakesSession ==
  /\ \/ pc["agent"] = "ready" /\ mem' = read["agent"]
     \/ pc["agent"] = "refused" /\ rtKey = 0 /\ mem' \in Readings
     \/ pc["agent"] = "refused" /\ rtKey # 0 /\ UNCHANGED mem
  /\ IF rtKey = 0
     THEN rtKey' = mem'.key /\ seq' = mem'.seq
     ELSE UNCHANGED <<rtKey, seq>>
  /\ Ends("agent")
  /\ UNCHANGED <<file, serverVars, runs, up, writerVars, historyVars>>

Running == up /\ pc["agent"] = "idle" /\ mem # NoSession

\* An event is encrypted; schedulePersistSeqByScope sets the timer once, unless the
\* agent has no session to persist any more.
EncryptEvent ==
  /\ up /\ rtKey # 0
  /\ seq < MaxSeq
  /\ seq' = seq + 1
  /\ timer' = (timer \/ mem # NoSession)
  /\ unsaved' = (unsaved \/ mem = NoSession)
  /\ UNCHANGED <<file, serverVars, procVars, up, mem, rtKey, queued, wpc, next, base,
                 latest, clobbered, lost, crashes>>

StartWriter(w, state) ==
  /\ wpc' = [wpc EXCEPT ![w] = "reading"]
  /\ next' = [next EXCEPT ![w] = state]
  /\ base' = [base EXCEPT ![w] = State(mem)]

\* flushPersistedSeqByScope, when the timer fires.
Flush ==
  /\ timer /\ up
  /\ timer' = FALSE
  /\ CASE mem = NoSession -> UNCHANGED <<queued, wpc, next, base>>
       [] mem # NoSession /\ wpc["flush"] # "idle" ->
            queued' = TRUE /\ UNCHANGED <<wpc, next, base>>
       [] mem # NoSession /\ wpc["flush"] = "idle" /\ mem.seq = seq ->
            UNCHANGED <<queued, wpc, next, base>>
       [] OTHER -> StartWriter("flush", [State(mem) EXCEPT !.seq = seq]) /\ UNCHANGED queued
  /\ unsaved' = (unsaved \/ mem = NoSession)
  /\ UNCHANGED <<file, serverVars, procVars, runtimeVars, latest, clobbered, lost, crashes>>

\* syncE2EPeers: the access token is refused, and ensureSession is called.
SyncRefused ==
  /\ Running
  /\ wpc["merge"] = "idle"
  /\ mem.token <= aged
  /\ file # NoSession
  /\ read' = [read EXCEPT !["agent"] = file]
  /\ pc' = [pc EXCEPT !["agent"] = IF file.token <= aged THEN "refreshing" ELSE "ready"]
  /\ UNCHANGED <<file, serverVars, runs, token, runtimeVars, writerVars, historyVars>>

\* syncE2EPeers: the list of devices, which by now has the added phone, is merged into
\* the peers.
MergePeers ==
  /\ Running
  /\ wpc["merge"] = "idle"
  /\ mem.token > aged
  /\ ~mem.peer
  /\ StartWriter("merge", [State(mem) EXCEPT !.peer = TRUE])
  /\ UNCHANGED <<file, serverVars, procVars, runtimeVars, timer, queued, latest,
                 historyVars>>

\* Mutant: what was asked for while a flush was under way is forgotten.
FlushEndsQuietly == queued' = FALSE /\ UNCHANGED timer

\* The flush is over, if only by an error: what was asked for meanwhile is scheduled,
\* but nothing else is.
FlushEnds ==
  /\ queued' = FALSE
  /\ timer' = (timer \/ (queued /\ mem' # NoSession))

WriterEnds(w) ==
  /\ wpc' = [wpc EXCEPT ![w] = "idle"]
  /\ next' = [next EXCEPT ![w] = NoE2E]
  /\ base' = [base EXCEPT ![w] = NoE2E]
  /\ latest' = [latest EXCEPT ![w] = NoSession]
  /\ IF w = "flush" THEN FlushEnds ELSE UNCHANGED <<queued, timer>>

\* Mutant: a session that was deleted meanwhile is not noticed.
SignedOutUnnoticed(reading) == FALSE

\* persistSessionE2EState: the session file was deleted by a logout, or looks so.
SignedOut(reading) == reading = NoSession

\* persistSessionE2EState reads the file and writes it with the new state.
PersistReads(w) ==
  /\ wpc[w] = "reading"
  /\ \E reading \in Readings :
       IF SignedOut(reading)
       THEN /\ mem' = NoSession
            /\ WriterEnds(w)
            /\ unsaved' = (unsaved \/ w = "flush")
       ELSE /\ wpc' = [wpc EXCEPT ![w] = "writing"]
            /\ latest' = [latest EXCEPT ![w] = reading]
            /\ UNCHANGED <<mem, queued, timer, next, base, unsaved>>
  /\ UNCHANGED <<file, serverVars, procVars, up, rtKey, seq, clobbered, lost, crashes>>

Persisted(w) == [latest[w] EXCEPT !.key = next[w].key, !.seq = next[w].seq,
                                  !.peer = next[w].peer]

\* Whether the writer puts back a state that is older than the file's or the agent's.
IsStale(w) == \/ latest[w] # file
              \/ base[w] \notin {State(mem)} \intersect {State(latest[w])}

PersistWrites(w) ==
  /\ wpc[w] = "writing"
  /\ file' \in Written(latest[w], Persisted(w))
  /\ mem' = Persisted(w)
  /\ clobbered' = (clobbered \/ IsStale(w))
  /\ unsaved' = (unsaved /\ (w = "merge" \/ next[w].seq # seq))
  /\ WriterEnds(w)
  /\ UNCHANGED <<serverVars, procVars, up, rtKey, seq, lost, crashes>>

\* The error is logged; the agent keeps the session it has.
PersistFails(w) ==
  /\ wpc[w] = "writing"
  /\ Fault
  /\ file' \in HalfWritten(Persisted(w))
  /\ clobbered' = (clobbered \/ (file' # file /\ IsStale(w)))
  /\ unsaved' = (unsaved \/ w = "flush")
  /\ UNCHANGED <<serverVars, procVars, runtimeVars, lost>>
  /\ WriterEnds(w)

\* The agent stops or crashes: everything in memory is gone, a token that was exchanged
\* and not yet saved is lost, and a file it was writing may stay truncated.
AgentCrashes ==
  /\ up
  /\ Fault
  /\ up' = FALSE
  /\ mem' = NoSession
  /\ rtKey' = 0 /\ seq' = 0
  /\ timer' = FALSE /\ queued' = FALSE
  /\ wpc' = [w \in Writer |-> "idle"]
  /\ next' = [w \in Writer |-> NoE2E]
  /\ base' = [w \in Writer |-> NoE2E]
  /\ latest' = [w \in Writer |-> NoSession]
  /\ file' \in {file} \union {NoSession : x \in Writing \ Commands}
  /\ lost' = (lost \/ pc["agent"] \in {"revoked", "issued"})
  /\ unsaved' = FALSE
  /\ Ends("agent")
  /\ UNCHANGED <<serverVars, runs, clobbered>>

-----------------------------------------------------------------------------
(* The rest of the world.                                                   *)

TokenAges ==
  /\ aged < issued /\ aged < MaxAged
  /\ aged' = aged + 1
  /\ UNCHANGED <<file, live, issued, logins, procVars, runtimeVars, writerVars,
                 historyVars>>

\* The computer has signed in once, and nothing has happened since.
Init ==
  /\ file = [token |-> 1, key |-> 1, seq |-> 0, peer |-> FALSE]
  /\ live = {1} /\ aged = 0 /\ issued = 1 /\ logins = 1
  /\ runs = 0
  /\ pc = [p \in Process |-> "idle"]
  /\ read = [p \in Process |-> NoSession]
  /\ token = [p \in Process |-> 0]
  /\ up = FALSE /\ mem = NoSession /\ rtKey = 0 /\ seq = 0
  /\ timer = FALSE /\ queued = FALSE
  /\ wpc = [w \in Writer |-> "idle"]
  /\ next = [w \in Writer |-> NoE2E]
  /\ base = [w \in Writer |-> NoE2E]
  /\ latest = [w \in Writer |-> NoSession]
  /\ clobbered = FALSE /\ lost = FALSE /\ unsaved = FALSE /\ crashes = 0

Next ==
  \/ \E p \in Process :
       \/ EnsureRead(p) \/ PairingRefused(p) \/ CommandEnds(p)
       \/ RefreshRevokes(p) \/ RefreshIssues(p) \/ RefreshIsLost(p) \/ SaveSession(p)
       \/ SaveFails(p) \/ CommandFails(p)
       \/ LoginReads(p) \/ LoginRedeems(p)
       \/ LogoutReads(p) \/ LogoutRevokes(p) \/ LogoutUnlinks(p)
  \/ StartWithoutSession \/ AgentTakesSession \/ EncryptEvent \/ Flush
  \/ SyncRefused \/ MergePeers \/ AgentCrashes
  \/ \E w \in Writer : PersistReads(w) \/ PersistWrites(w) \/ PersistFails(w)
  \/ TokenAges

Spec == Init /\ [][Next]_vars

-----------------------------------------------------------------------------
TypeOK ==
  /\ file \in Session \union {NoSession}
  /\ live \in SUBSET (1 .. issued)
  /\ aged \in 0 .. issued /\ aged <= MaxAged
  /\ issued \in 1 .. MaxToken
  /\ logins \in Nat
  /\ runs \in 0 .. MaxCommands
  /\ pc \in [Process -> ProcState]
  /\ read \in [Process -> Session \union {NoSession}]
  /\ token \in [Process -> 0 .. MaxToken]
  /\ up \in BOOLEAN
  /\ mem \in Session \union {NoSession}
  /\ seq \in 0 .. MaxSeq
  /\ rtKey \in 0 .. MaxToken
  /\ timer \in BOOLEAN
  /\ queued \in BOOLEAN
  /\ wpc \in [Writer -> {"idle", "reading", "writing"}]
  /\ next \in [Writer -> E2E]
  /\ base \in [Writer -> E2E]
  /\ latest \in [Writer -> Session \union {NoSession}]
  /\ clobbered \in BOOLEAN
  /\ lost \in BOOLEAN
  /\ unsaved \in BOOLEAN
  /\ crashes \in 0 .. MaxCrashes

\* A refresh token is exchanged once: however many processes refresh at the same
\* time, a sign-in never has more than one live token.  And the token on file is
\* live, or a process is about to replace it, or the sign-in was revoked: this fails
\* only after a lost answer or a failed write, or after a process wrote back a session
\* it had read before another process wrote.
TokensInStep ==
  /\ Cardinality(live) <= logins
  /\ \/ file = NoSession \/ file.token \in live
     \/ lost \/ clobbered
     \/ \E p \in Process : pc[p] \in {"revoked", "issued", "unlink"}

\* When the agent has nothing left to write, every sequence number it has used is on
\* file, so that a restart does not use it again.  Two cases are excepted: some write has
\* put back an older state; or the numbers could not be saved, because the write failed
\* or the file could not be read, and the agent does not try again before it uses the
\* next number.  (When the file is gone, or holds the keys of another sign-in, the agent
\* starts again under other keys.)
UsedSeqIsOnFile ==
  /\ up /\ rtKey # 0 /\ ~timer /\ \A w \in Writer : wpc[w] = "idle"
  /\ file.key = rtKey
  => file.seq >= seq \/ clobbered \/ unsaved
=============================================================================
