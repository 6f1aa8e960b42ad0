---------------------------- MODULE CodexClient ----------------------------
(***************************************************************************)
(* CodexAppServerClient: the codex app-server the agent spawns, the        *)
(* requests that await an answer of it, and what becomes of both when the  *)
(* process is replaced: a codex that was told to end, or has ended, is     *)
(* heard of later, when another one may be at work.                        *)
(*                                                                         *)
(* A call is one of the manager's: it starts codex if need be and makes    *)
(* one request after the other. What a request is about, the lock of       *)
(* ensureThread, which is part of ConversationManager, the cache of        *)
(* models, and requests of codex, which are part of ServerRequestRelay,    *)
(* are left out. Times are: a back-off may end at any moment, and so may   *)
(* the patience of a request.                                              *)
(***************************************************************************)
EXTENDS Integers

CONSTANTS
  Callers,      \* calls of the manager
  MaxCodexes,   \* bound on the processes spawned
  MaxId         \* bound on the requests

VARIABLES
  child,          \* the process in this.child, or 0
  codexes,        \* the processes spawned: "running", "killed" or "exited"
  nextRequestId,
  pending,        \* requests that await an answer: id -> process it was written to
  asked,          \* requests a process has not answered: <<process, id>>
  replies,        \* answers on stdout: <<process, id, kind>>
  authBackoff, transientBackoff,  \* Date.now() is before the end of the back-off
  at,             \* each call: "idle", "initialize", "between", "request" or "ended"
  awaits,         \* the request it awaits, or 0
  settled,        \* answers given to calls: <<who answered, who was asked>>
  lateExit        \* a process has exited while another one was this.child

backoffVars == <<authBackoff, transientBackoff>>
callVars    == <<at, awaits>>
clientVars  == <<child, codexes, nextRequestId, pending, asked, replies, backoffVars,
                 callVars, settled, lateExit>>

Spawned == DOMAIN codexes
Waits   == {"initialize", "request"}
Kinds   == {"result", "error", "overloaded"}

-----------------------------------------------------------------------------
(* Requests and their promises. What awaits a promise goes on before        *)
(* another line, timer or exit is handled.                                  *)

\* The calls that await these requests end with an error.
Reject(ids) ==
  /\ pending' = [i \in DOMAIN pending \ ids |-> pending[i]]
  /\ at' = [c \in Callers |-> IF awaits[c] \in ids THEN "ended" ELSE at[c]]
  /\ awaits' = [c \in Callers |-> IF awaits[c] \in ids THEN 0 ELSE awaits[c]]

Resolve(i) ==
  /\ pending' = [j \in DOMAIN pending \ {i} |-> pending[j]]
  /\ at' = [c \in Callers |-> IF awaits[c] = i THEN "between" ELSE at[c]]
  /\ awaits' = [c \in Callers |-> IF awaits[c] = i THEN 0 ELSE awaits[c]]

\* The process has been told to end, and exits some time later.
Kill(p) == codexes' = [codexes EXCEPT ![p] = IF @ = "running" THEN "killed" ELSE @]

\* close(), which leaves what is pending to time-outs and to the exit.
Close == IF child = 0 THEN UNCHANGED <<child, codexes>> ELSE Kill(child) /\ child' = 0

\* start() closes the client when its initialize is rejected.
CloseIfInitialize(i) ==
  IF \E c \in Callers : at[c] = "initialize" /\ awaits[c] = i
  THEN Close
  ELSE UNCHANGED <<child, codexes>>

\* request() is written to whatever is this.child.
Request(c, kind, p, id) ==
  /\ id <= MaxId
  /\ nextRequestId' = id + 1
  /\ pending' = [i \in DOMAIN pending \union {id} |-> IF i = id THEN p ELSE pending[i]]
  /\ asked' = asked \union {<<p, id>>}
  /\ at' = [at EXCEPT ![c] = kind] /\ awaits' = [awaits EXCEPT ![c] = id]

-----------------------------------------------------------------------------
(* Calls.                                                                   *)

\* Mutant of FirstId: ids start over with each process.
FirstIdOfChild == 1

\* The id of a new process's initialize.
FirstId == nextRequestId

\* start() returns at once while there is a child, even if its initialize has not been
\* answered yet.
StartReturns(c) ==
  /\ at[c] = "idle" /\ child # 0
  /\ at' = [at EXCEPT ![c] = "between"]
  /\ UNCHANGED <<child, codexes, nextRequestId, pending, asked, replies, backoffVars,
                 awaits, settled, lateExit>>

StartRefused(c) ==
  /\ at[c] = "idle" /\ child = 0
  /\ authBackoff \/ transientBackoff
  /\ at' = [at EXCEPT ![c] = "ended"]
  /\ UNCHANGED <<child, codexes, nextRequestId, pending, asked, replies, backoffVars,
                 awaits, settled, lateExit>>

StartSpawns(c, p) ==
  /\ at[c] = "idle" /\ child = 0 /\ ~authBackoff /\ ~transientBackoff
  /\ Spawned = 1 .. p - 1
  /\ child' = p
  /\ codexes' = [q \in Spawned \union {p} |-> IF q = p THEN "running" ELSE codexes[q]]
  /\ Request(c, "initialize", p, FirstId)
  /\ UNCHANGED <<replies, backoffVars, settled, lateExit>>

RequestSent(c) ==
  /\ at[c] = "between" /\ ~transientBackoff /\ child # 0
  /\ Request(c, "request", child, nextRequestId)
  /\ UNCHANGED <<child, codexes, replies, backoffVars, settled, lateExit>>

\* The call has all its answers, or its next request is refused, by the back-off or for
\* want of a child.
CallEnds(c) ==
  /\ at[c] = "between"
  /\ at' = [at EXCEPT ![c] = "ended"]
  /\ UNCHANGED <<child, codexes, nextRequestId, pending, asked, replies, backoffVars,
                 awaits, settled, lateExit>>

\* After 30 s without an answer.
RequestTimesOut(i) ==
  /\ i \in DOMAIN pending
  /\ Reject({i}) /\ CloseIfInitialize(i)
  /\ UNCHANGED <<nextRequestId, asked, replies, backoffVars, settled, lateExit>>

-----------------------------------------------------------------------------
(* Codex.                                                                   *)

\* A process may answer until it has exited, and what it has written by then may be read
\* later.
CodexAnswers(p, i, kind) ==
  /\ <<p, i>> \in asked /\ codexes[p] # "exited"
  /\ asked' = asked \ {<<p, i>>}
  /\ replies' = replies \union {<<p, i, kind>>}
  /\ UNCHANGED <<child, codexes, nextRequestId, pending, backoffVars, callVars, settled,
                 lateExit>>

\* handleLine: the reader of every process spawned stays on.
HandleReply(p, i, kind) ==
  /\ <<p, i, kind>> \in replies
  /\ replies' = replies \ {<<p, i, kind>>}
  /\ IF i \in DOMAIN pending
     THEN /\ settled' = settled \union {<<p, pending[i]>>}
          /\ IF kind = "result"
             THEN Resolve(i) /\ UNCHANGED <<child, codexes>>
             ELSE Reject({i}) /\ CloseIfInitialize(i)
     ELSE UNCHANGED <<child, codexes, pending, callVars, settled>>
  /\ transientBackoff' = CASE kind = "overloaded" -> TRUE
                           [] kind = "result" /\ i \in DOMAIN pending -> FALSE
                           [] OTHER -> transientBackoff
  /\ UNCHANGED <<nextRequestId, asked, authBackoff, lateExit>>

\* Mutant of EndChild: the child is forgotten and runs on.
ForgetChild == child' = 0 /\ UNCHANGED codexes

\* What enterAuthBackoff does to this.child, whoever has complained.
EndChild == Close

\* A line on stderr says that codex may not sign in.
EnterAuthBackoff ==
  /\ \E p \in Spawned : codexes[p] # "exited"
  /\ authBackoff' = TRUE
  /\ Reject(DOMAIN pending) /\ EndChild
  /\ UNCHANGED <<nextRequestId, asked, replies, transientBackoff, settled, lateExit>>

\* A line on stderr says that its server is overloaded.
EnterTransientBackoff ==
  /\ \E p \in Spawned : codexes[p] # "exited"
  /\ transientBackoff' = TRUE
  /\ UNCHANGED <<child, codexes, nextRequestId, pending, asked, replies, authBackoff,
                 callVars, settled, lateExit>>

\* Date.now() has passed the end of a back-off.
AuthBackoffEnds ==
  /\ authBackoff /\ authBackoff' = FALSE
  /\ UNCHANGED <<child, codexes, nextRequestId, pending, asked, replies, transientBackoff,
                 callVars, settled, lateExit>>

TransientBackoffEnds ==
  /\ transientBackoff /\ transientBackoff' = FALSE
  /\ UNCHANGED <<child, codexes, nextRequestId, pending, asked, replies, authBackoff,
                 callVars, settled, lateExit>>

\* The exit handler rejects what is pending and clears this.child, also when those are
\* of another process.
CodexExits(p) ==
  /\ p \in Spawned /\ codexes[p] # "exited"
  /\ codexes' = [codexes EXCEPT ![p] = "exited"]
  /\ child' = 0
  /\ Reject(DOMAIN pending)
  /\ lateExit' = (lateExit \/ child \notin {0, p})
  /\ UNCHANGED <<nextRequestId, asked, replies, backoffVars, settled>>

-----------------------------------------------------------------------------
Init ==
  /\ child = 0 /\ codexes = [p \in {} |-> "running"]
  /\ nextRequestId = 1 /\ pending = [i \in {} |-> 0] /\ asked = {} /\ replies = {}
  /\ authBackoff = FALSE /\ transientBackoff = FALSE
  /\ at = [c \in Callers |-> "idle"] /\ awaits = [c \in Callers |-> 0]
  /\ settled = {} /\ lateExit = FALSE

Next ==
  \/ \E c \in Callers :
       \/ StartReturns(c) \/ StartRefused(c) \/ RequestSent(c) \/ CallEnds(c)
       \/ \E p \in 1 .. MaxCodexes : StartSpawns(c, p)
  \/ \E i \in 1 .. MaxId : RequestTimesOut(i)
  \/ \E p \in 1 .. MaxCodexes, i \in 1 .. MaxId, kind \in Kinds :
       CodexAnswers(p, i, kind) \/ HandleReply(p, i, kind)
  \/ EnterAuthBackoff \/ EnterTransientBackoff \/ AuthBackoffEnds \/ TransientBackoffEnds
  \/ \E p \in 1 .. MaxCodexes : CodexExits(p)

Spec == Init /\ [][Next]_clientVars

-----------------------------------------------------------------------------
TypeOK ==
  /\ child \in 0 .. MaxCodexes
  /\ Spawned \subseteq 1 .. MaxCodexes /\ codexes \in [Spawned -> {"running", "killed", "exited"}]
  /\ child # 0 => child \in Spawned
  /\ nextRequestId \in 1 .. MaxId + 1
  /\ pending \in [DOMAIN pending -> Spawned] /\ DOMAIN pending \subseteq 1 .. MaxId
  /\ asked \subseteq Spawned \X (1 .. MaxId)
  /\ replies \subseteq Spawned \X (1 .. MaxId) \X Kinds
  /\ authBackoff \in BOOLEAN /\ transientBackoff \in BOOLEAN /\ lateExit \in BOOLEAN
  /\ at \in [Callers -> Waits \union {"idle", "between", "ended"}]
  /\ awaits \in [Callers -> 0 .. MaxId]
  /\ settled \subseteq Spawned \X Spawned

\* Every call that waits does so for a request that an answer, a time-out or an exit will
\* end, and what answers it is the process that was asked, whatever is still heard of
\* earlier ones.
CallsGetTheirAnswers ==
  /\ \A c \in Callers : at[c] \in Waits => awaits[c] \in DOMAIN pending
  /\ \A i \in DOMAIN pending : \E c \in Callers : at[c] \in Waits /\ awaits[c] = i
  /\ \A s \in settled : s[1] = s[2]

\* A codex that runs on is the child, so that it can be told to end: no other is left
\* behind unless a process exited when its successor was the child already.
RunningIsChild == lateExit \/ \A p \in Spawned : codexes[p] = "running" => child = p
=============================================================================
