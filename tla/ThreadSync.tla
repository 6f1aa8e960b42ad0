----------------------------- MODULE ThreadSync -----------------------------
(***************************************************************************)
(* The synchronisation of codex's threads with the conversations of a      *)
(* user on one agent: by the import route, or by itself when the agent is  *)
(* heard of or a conversation is looked at.  A thread that no conversation *)
(* is bound to gets a new one.  A conversation's own first turn makes a    *)
(* thread, too, and the agent reports it; the hub does not await the write *)
(* of that report.                                                         *)
(*                                                                         *)
(* A conversation is its place in the order of creation.  Each await of a  *)
(* synchronisation is a step boundary.  The workspace of a conversation,   *)
(* and the turns an import copies (module Hydration), are left out.        *)
(***************************************************************************)
EXTENDS Integers, FiniteSets

CONSTANTS
  Threads, None,
  Syncs,              \* synchronisations, of either kind
  MaxConversations,   \* bound on the conversations
  MaxFailures         \* bound on failed synchronisations and restarts

VARIABLES
  onDisk,      \* threads codex has
  starter,     \* the conversation whose turn made a thread, 0 for the desktop
  reports,     \* threads whose conversation.thread.started is not yet written
  convs,       \* conversations so far
  bound,       \* codex_thread_id of each
  locked,      \* codexImportLocks has the pair of user and agent
  paused,      \* cooldown or backoff of the automatic synchronisation
  sync,        \* where each synchronisation stands
  listed,      \* the threads it has still to handle
  known,       \* conversationByThreadId: the threads it found bound
  making,      \* the thread it makes a conversation for
  made,        \*   and that conversation
  unreported,  \* threads a synchronisation listed while their report was on its way
  syncFailures

codexVars == <<onDisk, starter, reports>>
conversationVars == <<convs, bound>>
syncVars == <<sync, listed, known, making, made>>
threadSyncVars == <<codexVars, conversationVars, locked, paused, syncVars, unreported,
                    syncFailures>>

Conversation == 1 .. MaxConversations
Stage == {"idle", "listing", "listed", "importing", "binding", "done"}

-----------------------------------------------------------------------------
(* Threads that appear.                                                     *)

\* The user starts a thread in codex on the computer.
DesktopThread(t) ==
  /\ t \notin onDisk
  /\ onDisk' = onDisk \union {t}
  /\ UNCHANGED <<starter, reports, conversationVars, locked, paused, syncVars, unreported,
                 syncFailures>>

\* POST /conversations.
CreateConversation ==
  /\ convs < MaxConversations
  /\ convs' = convs + 1
  /\ UNCHANGED <<codexVars, bound, locked, paused, syncVars, unreported, syncFailures>>

\* The first turn of a conversation makes the agent start a thread.
FirstTurn(c, t) ==
  /\ c \in 1 .. convs /\ bound[c] = None
  /\ \A u \in Threads : starter[u] # c
  /\ t \notin onDisk
  /\ onDisk' = onDisk \union {t}
  /\ starter' = [starter EXCEPT ![t] = c]
  /\ reports' = reports \union {t}
  /\ UNCHANGED <<conversationVars, locked, paused, syncVars, unreported, syncFailures>>

\* updateConversationThreadId, some time after the agent's message.
ThreadStartedWritten(t) ==
  /\ t \in reports
  /\ reports' = reports \ {t}
  /\ bound' = [bound EXCEPT ![starter[t]] = t]
  /\ UNCHANGED <<onDisk, starter, convs, locked, paused, syncVars, unreported, syncFailures>>

-----------------------------------------------------------------------------
(* A synchronisation.                                                       *)

\* Mutant: the lock is not looked at.
FreeForAll == TRUE

MayImport == ~locked

Begin(s) ==
  /\ sync[s] = "idle"
  /\ MayImport
  /\ locked' = TRUE
  /\ sync' = [sync EXCEPT ![s] = "listing"]
  /\ UNCHANGED <<codexVars, conversationVars, paused, listed, known, making, made,
                 unreported, syncFailures>>

\* The import route answers 409 when the lock is held.
Import(s) == Begin(s)

\* scheduleCodexAutoSync also waits for the cooldown and the backoff.
AutoSync(s) == ~paused /\ Begin(s)

\* The agent answers codex.thread.list.
ThreadsListed(s) ==
  /\ sync[s] = "listing"
  /\ listed' = [listed EXCEPT ![s] = onDisk]
  /\ sync' = [sync EXCEPT ![s] = "listed"]
  /\ UNCHANGED <<codexVars, conversationVars, locked, paused, known, making, made,
                 unreported, syncFailures>>

\* The workspaces and conversations are read after that.
ReadConversations(s) ==
  /\ sync[s] = "listed"
  /\ known' = [known EXCEPT ![s] = {bound[c] : c \in Conversation} \ {None}]
  /\ unreported' = unreported \union (listed[s] \intersect reports)
  /\ sync' = [sync EXCEPT ![s] = "importing"]
  /\ UNCHANGED <<codexVars, conversationVars, locked, paused, listed, making, made,
                 syncFailures>>

\* The next thread of the list: it has a conversation, ...
SkipThread(s, t) ==
  /\ sync[s] = "importing"
  /\ t \in listed[s] \intersect known[s]
  /\ listed' = [listed EXCEPT ![s] = @ \ {t}]
  /\ UNCHANGED <<codexVars, conversationVars, locked, paused, sync, known, making, made,
                 unreported, syncFailures>>

\* ... or gets one, ...
ImportThread(s, t) ==
  /\ sync[s] = "importing"
  /\ t \in listed[s] \ known[s]
  /\ convs < MaxConversations
  /\ convs' = convs + 1
  /\ listed' = [listed EXCEPT ![s] = @ \ {t}]
  /\ making' = [making EXCEPT ![s] = t]
  /\ made' = [made EXCEPT ![s] = convs']
  /\ sync' = [sync EXCEPT ![s] = "binding"]
  /\ UNCHANGED <<codexVars, bound, locked, paused, known, unreported, syncFailures>>

\* ... which is then bound to it.
BindThread(s) ==
  /\ sync[s] = "binding"
  /\ bound' = [bound EXCEPT ![made[s]] = making[s]]
  /\ known' = [known EXCEPT ![s] = @ \union {making[s]}]
  /\ making' = [making EXCEPT ![s] = None]
  /\ sync' = [sync EXCEPT ![s] = "importing"]
  /\ UNCHANGED <<codexVars, convs, locked, paused, listed, made, unreported, syncFailures>>

\* The list is done: the bindings are pushed to the agent and the lock is released.
EndSync(s) ==
  /\ sync[s] = "importing"
  /\ listed[s] = {}
  /\ sync' = [sync EXCEPT ![s] = "done"]
  /\ locked' = FALSE
  /\ paused' = TRUE
  /\ UNCHANGED <<codexVars, conversationVars, listed, known, making, made, unreported,
                 syncFailures>>

\* The agent is offline, or it or a query fails: the lock is released as well.
SyncFails(s) ==
  /\ sync[s] \notin {"idle", "done"}
  /\ syncFailures < MaxFailures
  /\ syncFailures' = syncFailures + 1
  /\ sync' = [sync EXCEPT ![s] = "done"]
  /\ listed' = [listed EXCEPT ![s] = {}]
  /\ making' = [making EXCEPT ![s] = None]
  /\ locked' = FALSE
  /\ paused' = TRUE
  /\ UNCHANGED <<codexVars, conversationVars, known, made, unreported>>

CooldownEnds ==
  /\ paused
  /\ paused' = FALSE
  /\ UNCHANGED <<codexVars, conversationVars, locked, syncVars, unreported, syncFailures>>

\* control-api restarts: its synchronisations and locks are gone, and so are the
\* reports it had not written.
RestartSync ==
  /\ syncFailures < MaxFailures
  /\ syncFailures' = syncFailures + 1
  /\ locked' = FALSE /\ paused' = FALSE
  /\ sync' = [s \in Syncs |-> IF sync[s] = "idle" THEN "idle" ELSE "done"]
  /\ listed' = [s \in Syncs |-> {}]
  /\ making' = [s \in Syncs |-> None]
  /\ unreported' = unreported \union reports
  /\ reports' = {}
  /\ UNCHANGED <<onDisk, starter, conversationVars, known, made>>

Init ==
  /\ onDisk = {} /\ starter = [t \in Threads |-> 0] /\ reports = {}
  /\ convs = 0 /\ bound = [c \in Conversation |-> None]
  /\ locked = FALSE /\ paused = FALSE
  /\ sync = [s \in Syncs |-> "idle"] /\ listed = [s \in Syncs |-> {}]
  /\ known = [s \in Syncs |-> {}] /\ making = [s \in Syncs |-> None]
  /\ made = [s \in Syncs |-> 0]
  /\ unreported = {} /\ syncFailures = 0

Next ==
  \/ CreateConversation \/ CooldownEnds \/ RestartSync
  \/ \E t \in Threads :
       \/ DesktopThread(t) \/ ThreadStartedWritten(t)
       \/ \E c \in Conversation : FirstTurn(c, t)
  \/ \E s \in Syncs :
       \/ Import(s) \/ AutoSync(s) \/ ThreadsListed(s) \/ ReadConversations(s)
       \/ \E t \in Threads : SkipThread(s, t) \/ ImportThread(s, t)
       \/ BindThread(s) \/ EndSync(s) \/ SyncFails(s)

Spec == Init /\ [][Next]_threadSyncVars

-----------------------------------------------------------------------------
TypeOK ==
  /\ onDisk \subseteq Threads /\ reports \subseteq onDisk /\ unreported \subseteq onDisk
  /\ starter \in [Threads -> 0 .. MaxConversations]
  /\ convs \in 0 .. MaxConversations /\ bound \in [Conversation -> Threads \union {None}]
  /\ {locked, paused} \subseteq BOOLEAN
  /\ sync \in [Syncs -> Stage]
  /\ listed \in [Syncs -> SUBSET Threads] /\ known \in [Syncs -> SUBSET Threads]
  /\ making \in [Syncs -> Threads \union {None}]
  /\ made \in [Syncs -> 0 .. MaxConversations]
  /\ syncFailures \in 0 .. MaxFailures

\* A thread is shown as one conversation: two are bound to it only if a
\* synchronisation listed it while the report that a conversation's own turn had
\* started it was on its way to the database, or was lost with control-api.
BoundOnce ==
  \A c, d \in Conversation :
    (c # d /\ bound[c] = bound[d] /\ bound[c] # None) => bound[c] \in unreported
=============================================================================
