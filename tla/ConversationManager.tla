------------------------ MODULE ConversationManager ------------------------
(***************************************************************************)
(* The agent's ConversationManager: how a turn that control-api asks for   *)
(* is started on the local codex app-server, which of codex's              *)
(* notifications are attributed to it, and which conversation.turn.started *)
(* and conversation.turn.completed events the agent emits for it.          *)
(*                                                                         *)
(* Node runs one macrotask at a time (a control message, a timer, the      *)
(* child's exit, a chunk of the child's stdout) and drains the promise     *)
(* continuations before the next.  Every line of one stdout chunk is       *)
(* handled before those continuations, so between the line that answers    *)
(* turn/start and the code after its await the handler of any later line   *)
(* of the chunk may run, and nothing else.  Settled is that rule; a line   *)
(* that only wakes a call can be taken first in its chunk, so those lines  *)
(* are Settled too.                                                        *)
(*                                                                         *)
(* A codex turn is named by the Nomade turn whose turn/start created it,   *)
(* so that a right attribution is an equality.                             *)
(***************************************************************************)
EXTENDS Integers

CONSTANTS
  Turn,            \* turn ids given by control-api
  Conversation,    \* conversation ids
  Thread,          \* codex thread ids
  ConversationOf,  \* the conversation control-api created each turn in
  InitialOwner,    \* the conversation of each thread codex already has
  NoTurn, NoThread, NoConversation

ASSUME ConstantsAssumption ==
  /\ ConversationOf \in [Turn -> Conversation]
  /\ InitialOwner \in [Thread -> Conversation \union {NoConversation}]
  /\ NoTurn \notin Turn
  /\ NoThread \notin Thread
  /\ NoConversation \notin Conversation

VARIABLES
  pc,                   \* where the startTurn call of each turn stands
  threadOf,             \* currentThreadId of each startTurn call
  retried,              \* turns whose call is past its thread-not-found branch
  threadByConversation,
  turnByCodex,          \* keyed by codex turn (its thread is threadOf)
  codexByTurn,
  pendingTurnByThread,
  activeTurnByThread,
  terminalTurnIds,
  lastEvent,            \* the last lifecycle event emitted for each turn
  syncing,              \* a syncThreads call awaits codex
  desired,              \* the threads of the snapshot it was called with
  alive,                \* codexClient.child is set
  loaded,               \* threads codex has loaded and sends notifications of
  owner,                \* the conversation each thread belongs to
  codex                 \* what became of each codex turn

callVars  == <<pc, threadOf, retried>>
bindVars  == <<turnByCodex, codexByTurn, pendingTurnByThread, activeTurnByThread,
               terminalTurnIds, lastEvent>>
syncVars  == <<syncing, desired>>
codexVars == <<alive, loaded, owner, codex>>
vars == <<callVars, threadByConversation, bindVars, syncVars, codexVars>>

OptTurn   == Turn \union {NoTurn}
OptThread == Thread \union {NoThread}
InRequest == {"requesting", "answered", "refused", "notFound"}
Continuation == {"threadReady", "noThread", "answered", "refused", "notFound"}
CallState == {"idle", "starting", "ensuring", "done"} \union InRequest \union Continuation
CodexTurnState == {"none", "missing", "accepted", "started", "over"}

\* No continuation waits, so the event loop may take its next macrotask.
Settled == \A t \in Turn : pc[t] \notin Continuation

Goto(t, to) == pc' = [pc EXCEPT ![t] = to]

-----------------------------------------------------------------------------
(* bindTurn and emitTurnCompleted, the two helpers that move a turn between *)
(* the maps.                                                                *)

\* Mutant: the pending entry is left in place.
BindTurnKeepsPending(th, c, t) ==
  /\ turnByCodex' = [turnByCodex EXCEPT ![c] = t]
  /\ codexByTurn' = [codexByTurn EXCEPT ![t] = c]
  /\ activeTurnByThread' = [activeTurnByThread EXCEPT ![th] = t]
  /\ terminalTurnIds' = terminalTurnIds \ {t}
  /\ lastEvent' = [lastEvent EXCEPT ![t] = "started"]
  /\ UNCHANGED pendingTurnByThread

\* Mutant: the turn stays in terminalTurnIds.
BindTurnKeepsTerminal(th, c, t) ==
  /\ pendingTurnByThread' = [pendingTurnByThread EXCEPT ![th] = NoTurn]
  /\ turnByCodex' = [turnByCodex EXCEPT ![c] = t]
  /\ codexByTurn' = [codexByTurn EXCEPT ![t] = c]
  /\ activeTurnByThread' = [activeTurnByThread EXCEPT ![th] = t]
  /\ lastEvent' = [lastEvent EXCEPT ![t] = "started"]
  /\ UNCHANGED terminalTurnIds

\* bindTurn and the conversation.turn.started its callers emit.
BindTurn(th, c, t) ==
  /\ pendingTurnByThread' = [pendingTurnByThread EXCEPT ![th] = NoTurn]
  /\ turnByCodex' = [turnByCodex EXCEPT ![c] = t]
  /\ codexByTurn' = [codexByTurn EXCEPT ![t] = c]
  /\ activeTurnByThread' = [activeTurnByThread EXCEPT ![th] = t]
  /\ terminalTurnIds' = terminalTurnIds \ {t}
  /\ lastEvent' = [lastEvent EXCEPT ![t] = "started"]

\* A map of turns by thread without the entry of th (th may be "no thread").
Without(map, th) == [x \in Thread |-> IF x = th THEN NoTurn ELSE map[x]]

EmitTurnCompleted(t, th, pendingNow) ==
  /\ UNCHANGED <<turnByCodex, codexByTurn>>
  /\ IF t \in terminalTurnIds
       THEN /\ pendingTurnByThread' = pendingNow
            /\ UNCHANGED <<activeTurnByThread, terminalTurnIds, lastEvent>>
       ELSE /\ terminalTurnIds' = terminalTurnIds \union {t}
            /\ lastEvent' = [lastEvent EXCEPT ![t] = "completed"]
            /\ pendingTurnByThread' = Without(pendingNow, th)
            /\ activeTurnByThread' = [x \in Thread |->
                 IF x = th /\ activeTurnByThread[x] = t THEN NoTurn
                 ELSE activeTurnByThread[x]]

-----------------------------------------------------------------------------
(* startTurn, cut at its awaits.                                            *)

\* The code from the first await to the next: reuse the thread or ask codex
\* for one, and register the turn as pending before turn/start is sent.
Proceed(t, th) ==
  IF th = NoThread
    THEN /\ Goto(t, "ensuring")
         /\ UNCHANGED <<threadByConversation, pendingTurnByThread>>
    ELSE /\ Goto(t, "requesting")
         /\ threadByConversation' = [threadByConversation EXCEPT ![ConversationOf[t]] = th]
         /\ pendingTurnByThread' = [pendingTurnByThread EXCEPT ![th] = t]

\* conversation.turn.start: control-api sends the thread id it has stored for
\* the conversation, if any.  start() resolves at once when a child is there,
\* spawns one, or throws because a backoff is in force.
StartTurn(t) ==
  /\ Settled
  /\ pc[t] = "idle"
  /\ \E given \in {NoThread} \union {x \in Thread : owner[x] = ConversationOf[t]} :
       LET th == IF given # NoThread THEN given
                 ELSE threadByConversation[ConversationOf[t]]
       IN  /\ threadOf' = [threadOf EXCEPT ![t] = th]
           /\ \/ /\ alive
                 /\ Proceed(t, th)
              \/ /\ ~alive
                 /\ Goto(t, "starting")
                 /\ UNCHANGED <<threadByConversation, pendingTurnByThread>>
              \/ /\ ~alive
                 /\ Goto(t, "noThread")
                 /\ UNCHANGED <<threadByConversation, pendingTurnByThread>>
  /\ alive' = (alive \/ pc'[t] = "starting")
  /\ UNCHANGED <<retried, turnByCodex, codexByTurn, activeTurnByThread,
                 terminalTurnIds, lastEvent, syncVars, loaded, owner, codex>>

\* initialize is answered, so start() resolves.
CodexReady(t) ==
  /\ Settled
  /\ pc[t] = "starting"
  /\ Proceed(t, threadOf[t])
  /\ UNCHANGED <<threadOf, retried, turnByCodex, codexByTurn, activeTurnByThread,
                 terminalTurnIds, lastEvent, syncVars, codexVars>>

\* Mutant: one thread/start is shared by every call, not one per conversation.
EnsuringAny(c) == {t \in Turn : pc[t] = "ensuring"}

\* The calls of one conversation that wait for a thread share one thread/start.
Ensuring(c) == {t \in Turn : pc[t] = "ensuring" /\ ConversationOf[t] = c}

\* codex answers thread/start with a new thread.
ThreadStarted(c, th) ==
  /\ Settled
  /\ Ensuring(c) # {}
  /\ owner[th] = NoConversation
  /\ owner' = [owner EXCEPT ![th] = c]
  /\ loaded' = loaded \union {th}
  /\ pc' = [t \in Turn |-> IF t \in Ensuring(c) THEN "threadReady" ELSE pc[t]]
  /\ threadOf' = [t \in Turn |-> IF t \in Ensuring(c) THEN th ELSE threadOf[t]]
  /\ UNCHANGED <<retried, threadByConversation, bindVars, syncVars, alive, codex>>

\* thread/start, or the model lookup before it, fails or times out.
ThreadStartFails(c) ==
  /\ Settled
  /\ Ensuring(c) # {}
  /\ pc' = [t \in Turn |-> IF t \in Ensuring(c) THEN "noThread" ELSE pc[t]]
  /\ UNCHANGED <<threadOf, retried, threadByConversation, bindVars, syncVars, codexVars>>

\* The code after ensureThread: store the thread, register the turn as pending
\* and call turnStart.
AfterThread(t) ==
  /\ pc[t] = "threadReady"
  /\ Proceed(t, threadOf[t])
  /\ UNCHANGED <<threadOf, retried, turnByCodex, codexByTurn, activeTurnByThread,
                 terminalTurnIds, lastEvent, syncVars, codexVars>>

\* turn/start is answered with a codex turn id.
TurnStartAnswered(t) ==
  /\ pc[t] = "requesting"
  /\ codex[t] \notin {"none", "missing"}
  /\ Goto(t, "answered")
  /\ UNCHANGED <<threadOf, retried, threadByConversation, bindVars, syncVars, codexVars>>

\* turn/start is answered with thread-not-found.
TurnStartNotFound(t) ==
  /\ Settled
  /\ pc[t] = "requesting"
  /\ codex[t] = "missing"
  /\ Goto(t, "notFound")
  /\ codex' = [codex EXCEPT ![t] = "none"]
  /\ UNCHANGED <<threadOf, retried, threadByConversation, bindVars, syncVars,
                 alive, loaded, owner>>

\* turn/start is refused, or its 30 s timer fires: codex may have taken it.
TurnStartFails(t) ==
  /\ Settled
  /\ pc[t] = "requesting"
  /\ Goto(t, "refused")
  /\ UNCHANGED <<threadOf, retried, threadByConversation, bindVars, syncVars, codexVars>>

\* Mutant: a turn that turn/started has bound is not bound again.
AfterAnswerTrustsNotification(t) ==
  /\ pc[t] = "answered"
  /\ IF codexByTurn[t] = NoTurn THEN BindTurn(threadOf[t], t, t) ELSE UNCHANGED bindVars
  /\ Goto(t, "done")
  /\ UNCHANGED <<threadOf, retried, threadByConversation, syncVars, codexVars>>

\* The code after turnStart resolves.
AfterAnswer(t) ==
  /\ pc[t] = "answered"
  /\ BindTurn(threadOf[t], t, t)
  /\ Goto(t, "done")
  /\ UNCHANGED <<threadOf, retried, threadByConversation, syncVars, codexVars>>

\* The thread-not-found branch: forget the thread and ask for a new one, once.
AfterNotFound(t) ==
  /\ pc[t] = "notFound"
  /\ t \notin retried
  /\ retried' = retried \union {t}
  /\ pendingTurnByThread' = Without(pendingTurnByThread, threadOf[t])
  /\ threadByConversation' = [threadByConversation EXCEPT ![ConversationOf[t]] = NoThread]
  /\ Goto(t, "ensuring")
  /\ UNCHANGED <<threadOf, turnByCodex, codexByTurn, activeTurnByThread,
                 terminalTurnIds, lastEvent, syncVars, codexVars>>

\* Mutant: ensureThread is called outside the try block.
AfterFailureOfTurnStart(t) ==
  /\ \/ pc[t] = "refused"
     \/ pc[t] = "notFound" /\ t \in retried
  /\ EmitTurnCompleted(t, threadOf[t], Without(pendingTurnByThread, threadOf[t]))
  /\ Goto(t, "done")
  /\ UNCHANGED <<threadOf, retried, threadByConversation, syncVars, codexVars>>

\* The outer catch: the turn is reported failed.
AfterFailure(t) ==
  /\ \/ pc[t] \in {"refused", "noThread"}
     \/ pc[t] = "notFound" /\ t \in retried
  /\ EmitTurnCompleted(t, threadOf[t],
       IF pc[t] = "noThread" THEN pendingTurnByThread
       ELSE Without(pendingTurnByThread, threadOf[t]))
  /\ Goto(t, "done")
  /\ UNCHANGED <<threadOf, retried, threadByConversation, syncVars, codexVars>>

-----------------------------------------------------------------------------
(* codex, as far as the agent can tell, and the handlers of its            *)
(* notifications.  A thread that is not loaded sends none.                 *)

\* codex takes a turn/start, unless it has not loaded the thread.
CodexAccepts(t) ==
  /\ Settled
  /\ pc[t] = "requesting"
  /\ codex[t] = "none"
  /\ codex' = [codex EXCEPT ![t] = IF threadOf[t] \in loaded THEN "accepted" ELSE "missing"]
  /\ UNCHANGED <<callVars, threadByConversation, bindVars, syncVars, alive, loaded, owner>>

\* turn/started: bound to whatever turn is pending on the thread.
TurnStarted(c) ==
  /\ codex[c] = "accepted"
  /\ codex' = [codex EXCEPT ![c] = "started"]
  /\ LET th == threadOf[c]
         t  == pendingTurnByThread[th]
     IN  IF th \in loaded /\ t # NoTurn THEN BindTurn(th, c, t) ELSE UNCHANGED bindVars
  /\ UNCHANGED <<callVars, threadByConversation, syncVars, alive, loaded, owner>>

\* The turn a notification is about: by its codex turn id when it carries a
\* known one, else the pending turn of the thread, else its active turn.
Context(th, byId) ==
  IF byId # NoTurn THEN byId
  ELSE IF pendingTurnByThread[th] # NoTurn THEN pendingTurnByThread[th]
  ELSE activeTurnByThread[th]

\* turn/completed, which may not name the codex turn: the handler then needs
\* the codex turn its context is bound to.
TurnCompleted(c) ==
  /\ codex[c] = "started"
  /\ codex' = [codex EXCEPT ![c] = "over"]
  /\ \E named \in BOOLEAN :
       LET th == threadOf[c]
           t  == Context(th, IF named THEN turnByCodex[c] ELSE NoTurn)
       IN  IF th \in loaded /\ t # NoTurn /\ (named \/ codexByTurn[t] # NoTurn)
             THEN EmitTurnCompleted(t, th, pendingTurnByThread)
             ELSE UNCHANGED bindVars
  /\ UNCHANGED <<callVars, threadByConversation, syncVars, alive, loaded, owner>>

\* Mutant: the status is reported whether or not the thread has a context.
ThreadStatusWithoutContext(th) ==
  /\ th \in loaded
  /\ EmitTurnCompleted(Context(th, NoTurn), th, pendingTurnByThread)
  /\ UNCHANGED <<callVars, threadByConversation, syncVars, codexVars>>

\* thread/status/changed with a terminal status (idle, failed, ...), which
\* carries no turn id.  codex sends it when a turn ends, before or after the
\* turn/completed, and when it loads a thread.
ThreadStatusTerminal(th) ==
  /\ th \in loaded
  /\ LET t == Context(th, NoTurn)
     IN  IF t # NoTurn THEN EmitTurnCompleted(t, th, pendingTurnByThread)
         ELSE UNCHANGED bindVars
  /\ UNCHANGED <<callVars, threadByConversation, syncVars, codexVars>>

\* thread/started: repeats the binding of a conversation whose turn is pending.
ThreadStartedNotification(th) ==
  /\ th \in loaded
  /\ pendingTurnByThread[th] # NoTurn
  /\ threadByConversation' = [threadByConversation EXCEPT
       ![ConversationOf[pendingTurnByThread[th]]] = th]
  /\ UNCHANGED <<callVars, bindVars, syncVars, codexVars>>

\* The child exits, of its own or because start() kills a child that fails
\* initialize: every request is rejected, then onCodexClientExit fails the
\* active turns.  Its loop follows insertion order: a turn that is active on two
\* threads is reported on the one met first (at).
CodexExit ==
  LET failing == {activeTurnByThread[th] : th \in Thread} \ (terminalTurnIds \union {NoTurn})
  IN
  /\ Settled
  /\ alive
  /\ alive' = FALSE
  /\ loaded' = {}
  /\ codex' = [c \in Turn |-> IF codex[c] \in {"none", "missing"} THEN "none" ELSE "over"]
  /\ pc' = [t \in Turn |-> CASE pc[t] = "requesting" -> "refused"
                             [] pc[t] \in {"starting", "ensuring"} -> "noThread"
                             [] OTHER -> pc[t]]
  /\ terminalTurnIds' = terminalTurnIds \union failing
  /\ lastEvent' = [t \in Turn |-> IF t \in failing THEN "completed" ELSE lastEvent[t]]
  /\ \E at \in [failing -> Thread] :
       /\ \A t \in failing : activeTurnByThread[at[t]] = t
       /\ LET hit == {at[t] : t \in failing}
          IN  /\ pendingTurnByThread' = [th \in Thread |->
                   IF th \in hit THEN NoTurn ELSE pendingTurnByThread[th]]
              /\ activeTurnByThread' = [th \in Thread |->
                   IF th \in hit THEN NoTurn ELSE activeTurnByThread[th]]
  /\ syncing' = FALSE
  /\ desired' = {}
  /\ UNCHANGED <<threadOf, retried, threadByConversation, turnByCodex, codexByTurn, owner>>

-----------------------------------------------------------------------------
(* syncThreads.  control-api reads the bindings from its database, so the   *)
(* snapshot may miss a thread that was just created.                        *)

SyncThreads ==
  /\ Settled
  /\ \E snapshot \in [Conversation -> OptThread] :
       /\ \A c \in Conversation : snapshot[c] # NoThread => owner[snapshot[c]] = c
       /\ threadByConversation' = snapshot
       /\ \/ \* the call goes on to codex, starting it if need be
             /\ ~syncing
             /\ syncing' = TRUE
             /\ desired' = {snapshot[c] : c \in Conversation} \ {NoThread}
             /\ alive' = TRUE
          \/ \* same snapshot as before, or a backoff is in force
             UNCHANGED <<syncVars, alive>>
  /\ UNCHANGED <<callVars, bindVars, loaded, owner, codex>>

\* Loaded threads that the snapshot does not name are unsubscribed, and the
\* others resumed.  Either request may fail for a thread, and one loaded after
\* thread/loaded/list was answered is left alone.
SyncReconcile ==
  /\ Settled
  /\ syncing
  /\ syncing' = FALSE
  /\ desired' = {}
  /\ \E gone \in SUBSET (loaded \ desired), resumed \in SUBSET (desired \ loaded) :
       loaded' = (loaded \ gone) \union resumed
  /\ UNCHANGED <<callVars, threadByConversation, bindVars, alive, owner, codex>>

\* thread/loaded/list fails, or the child does.
SyncFails ==
  /\ Settled
  /\ syncing
  /\ syncing' = FALSE
  /\ desired' = {}
  /\ UNCHANGED <<callVars, threadByConversation, bindVars, codexVars>>

-----------------------------------------------------------------------------

Init ==
  /\ pc = [t \in Turn |-> "idle"]
  /\ threadOf = [t \in Turn |-> NoThread]
  /\ retried = {}
  /\ threadByConversation = [c \in Conversation |-> NoThread]
  /\ turnByCodex = [c \in Turn |-> NoTurn]
  /\ codexByTurn = [t \in Turn |-> NoTurn]
  /\ pendingTurnByThread = [th \in Thread |-> NoTurn]
  /\ activeTurnByThread = [th \in Thread |-> NoTurn]
  /\ terminalTurnIds = {}
  /\ lastEvent = [t \in Turn |-> "none"]
  /\ syncing = FALSE
  /\ desired = {}
  /\ alive = FALSE
  /\ loaded = {}
  /\ owner = InitialOwner
  /\ codex = [c \in Turn |-> "none"]

\* The code of one startTurn call that runs without waiting for codex.
Continue(t) == AfterThread(t) \/ AfterAnswer(t) \/ AfterNotFound(t) \/ AfterFailure(t)

Next ==
  \/ \E t \in Turn :
       \/ StartTurn(t) \/ CodexReady(t)
       \/ TurnStartAnswered(t) \/ TurnStartNotFound(t) \/ TurnStartFails(t)
       \/ Continue(t)
       \/ CodexAccepts(t) \/ TurnStarted(t) \/ TurnCompleted(t)
  \/ \E c \in Conversation : ThreadStartFails(c)
  \/ \E c \in Conversation, th \in Thread : ThreadStarted(c, th)
  \/ \E th \in Thread : ThreadStatusTerminal(th) \/ ThreadStartedNotification(th)
  \/ CodexExit
  \/ SyncThreads \/ SyncReconcile \/ SyncFails

\* Continuations always run, start() settles (CodexReady, or the child's exit)
\* and every request has a 30 s timer.
Fairness ==
  /\ \A t \in Turn : /\ WF_vars(Continue(t))
                     /\ WF_vars(CodexReady(t))
                     /\ WF_vars(TurnStartFails(t))
  /\ \A c \in Conversation : WF_vars(ThreadStartFails(c))

Spec == Init /\ [][Next]_vars

FairSpec == Spec /\ Fairness

-----------------------------------------------------------------------------
(* What the manager keeps true.                                             *)

TypeOK ==
  /\ pc \in [Turn -> CallState]
  /\ threadOf \in [Turn -> OptThread]
  /\ retried \in SUBSET Turn
  /\ threadByConversation \in [Conversation -> OptThread]
  /\ turnByCodex \in [Turn -> OptTurn]
  /\ codexByTurn \in [Turn -> OptTurn]
  /\ pendingTurnByThread \in [Thread -> OptTurn]
  /\ activeTurnByThread \in [Thread -> OptTurn]
  /\ terminalTurnIds \in SUBSET Turn
  /\ lastEvent \in [Turn -> {"none", "started", "completed"}]
  /\ syncing \in BOOLEAN
  /\ desired \in SUBSET Thread
  /\ alive \in BOOLEAN
  /\ loaded \in SUBSET Thread
  /\ owner \in [Thread -> Conversation \union {NoConversation}]
  /\ codex \in [Turn -> CodexTurnState]

\* A turn waits for turn/started on a thread only while its own startTurn call
\* is in its turn/start request for that thread: no error path, exit or shared
\* thread leaves an entry behind that would take over a later codex turn.
PendingOnlyInCall ==
  \A th \in Thread, t \in Turn :
    pendingTurnByThread[th] = t => pc[t] \in InRequest /\ threadOf[t] = th

\* What codex does in a thread is attributed to the conversation of the thread
\* and to no other, whatever turns share it and whatever snapshots arrive.
Isolation ==
  /\ \A th \in Thread : /\ pendingTurnByThread[th] # NoTurn =>
                             owner[th] = ConversationOf[pendingTurnByThread[th]]
                        /\ activeTurnByThread[th] # NoTurn =>
                             owner[th] = ConversationOf[activeTurnByThread[th]]
  /\ \A c \in Turn : turnByCodex[c] # NoTurn =>
       ConversationOf[turnByCodex[c]] = ConversationOf[c]
  /\ \A cv \in Conversation : threadByConversation[cv] # NoThread =>
       owner[threadByConversation[cv]] = cv

\* The set that suppresses a second conversation.turn.completed agrees with what
\* the hub was told last, and a finished call has told it something.
ReportsAgree ==
  \A t \in Turn : /\ t \in terminalTurnIds <=> lastEvent[t] = "completed"
                  /\ pc[t] = "done" => lastEvent[t] # "none"

\* interruptTurn asks codex to stop the codex turn that this very turn created,
\* however the turns of the thread overlapped while they were being bound.
InterruptReachesOwnTurn ==
  \A t \in Turn :
    pc[t] = "done" /\ lastEvent[t] = "started" => codexByTurn[t] = t

\* How control-api sees each turn.
PhaseOf(t) ==
  CASE pc[t] = "idle"             -> "none"
    [] lastEvent[t] = "started"   -> "running"
    [] lastEvent[t] = "completed" -> IF pc[t] = "done" THEN "over" ELSE "early"
    [] OTHER                      -> "accepted"

Agent == INSTANCE AgentTurn WITH phase <- [t \in Turn |-> PhaseOf(t)]

\* The manager implements AgentTurn, on which turn delivery relies: every turn it is
\* given gets its reports in order, and one that is over is never reported again,
\* however codex's notifications and exits fall between the steps of other turns.
ImplementsAgentTurn == Agent!Spec

\* Once the startTurn call of a turn has ended, a completed turn is not
\* reported as started again.
CompletedIsFinal ==
  [][\A t \in Turn : pc[t] = "done" /\ lastEvent[t] = "completed"
                       => lastEvent'[t] = "completed"]_vars

\* When the codex child exits, every turn codex was running is reported as
\* completed, so that none stays running for the hub.
ExitFailsRunningTurns ==
  [][alive /\ ~alive' => \A t \in Turn : lastEvent[t] = "started" /\ codex[t] = "started"
                                          => lastEvent'[t] = "completed"]_vars

\* conversation.turn.start is always followed by a report about the turn.
StartReports ==
  \A t \in Turn : pc[t] # "idle" ~> pc[t] = "done" /\ lastEvent[t] # "none"
=============================================================================
