# A verification of Nomade for Codex

Nomade lets a user run codex on their own machines from a phone: a phone app and
a web app talk to **control-api**; an **agent** on each machine keeps a websocket
to control-api and drives a local `codex app-server` over JSON-RPC. The TLA+
modules here model the parts in which those processes have to agree although
each can stop, restart or lose its connection at any point. TLC checks the
models on small instances, and the TLA+ proof system proves the invariants for
instances of every size.

Paths below are relative to the repository root; `control-api` stands for
`services/control-api/src`, `agent` for `agent/nomade-agent/src`, `mobile` for
`apps/mobile/lib`.

## 1. The system

| component | state it keeps | operations | interacts with |
|---|---|---|---|
| Turn lifecycle on the agent (`agent/conversation-manager.ts`) | maps thread/turn/conversation, `pendingTurnByThread`, `activeTurnByThread`, `terminalTurnIds` | startTurn, interruptTurn, syncThreads, notification handler, child exit | calls the codex client; emits events to the runner |
| codex client (`agent/codex-app-server.ts`) | child process, pending requests with timers, `threadStartLock`, backoff | start, ensureThread, turnStart, handleLine, exit handler, close | stdin/stdout of codex; callbacks into the manager |
| Agent runner (`agent/runner.ts`) | active socket, `seenTurnStartIds`, end-to-end state, sessions, tunnels | connection loop, one handler per control message | websocket to the hub |
| Turn delivery (`control-api/server.ts`, `repositories.ts`) | row of each turn (status, delivery_state, next_delivery_at), dispatcher locks, `deferredInFlightTurnIds` | create, retry, claim, dispatch, update | hub (send), Postgres, notifications |
| Hub (`control-api/ws-hub.ts`) | sockets of agents and users, `pendingServerResponses`, pending proxies and tunnels, owners of conversations | handlers of agent and user messages, socket close | agents, phones, gateway, repository (writes it does not await) |
| Server requests (manager, client, hub, phone) | `pendingServerRequests` (agent), `pendingServerResponses` (hub), cards (phone) | ask, route, answer, resolve, expire | all of the above |
| Pairing and sign-in (`control-api/auth.ts`, `agent/user-auth.ts`, `mobile`) | device codes, scan flows, exchange keys | start, scan, hand over the root key, acknowledge, poll, redeem | Postgres, phones |
| Session file and tokens (`agent/user-auth.ts`, `runner.ts`) | `session.json`: refresh token, peers, used sequence numbers | ensureSession, login, logout, flush, merge | agent, commands, token routes |
| End-to-end runtime (`agent/e2e-runtime.ts`, `mobile/services/mobile_e2e_runtime.dart`) | sequence numbers, last seen numbers, peers | encrypt, decrypt, peer sync, persist | storage of the phone, control-api |
| Agent process (`agent/lifecycle.ts`, `index.ts`) | `runtime.json`, daemon | start, stop, restart, install, uninstall | operating system |
| Terminal sessions and keep-awake (`agent/session-manager.ts`, `keep-awake.ts`) | child processes, active sets, inhibitor; session rows | create, status, terminate | hub, operating system |
| Tunnels (`control-api/server.ts`, `ws-hub.ts`, tunnel gateway, runner) | pending proxies, pending opens, routes, local websockets | proxy, ws open/frame/close, time-outs | clients, gateway, agents, local applications |
| Dev services (`control-api/service-manager.ts`) | runtime rows, probe timers, tunnel tokens | issue and rotate a token; stop, probe (start is disabled in the source) | hub, Postgres |
| Thread synchronisation and hydration (`control-api/server.ts`) | bindings of conversations to threads; stored turns of a conversation | list threads, import, read a thread, replace turns | agent, Postgres |
| Billing and entitlements (`control-api/server.ts`, `repositories.ts`) | customer, plan, limit on agents, agents, active conversations | checkout, webhooks, pair, register, create a turn, delete the account | Stripe, RevenueCat, Postgres |
| Push registrations (`control-api`, `mobile`) | the phone's token, `push_registrations` rows | register, unregister, sign out, notify | push service, Postgres |
| Phone's timeline (`mobile/providers`) | turns and items shown, `activeTurnId` | user socket, events, reload | hub, control-api |
| User interfaces | what the parts above keep | | |

What is hard here: codex's notifications do not carry Nomade's turn ids and come
in any order with the continuations of the calls that caused them; every `await`
in control-api lets other handlers in between a read and the write that depends
on it; the hub sends without acknowledgement and does not await its writes; ids
that are unique in one process (thread, request number) are used as keys in
another; and the agent and the commands of its command line share files without
a lock. `PROJECT.json` lists each of these hazards with its line and the
properties that cover it.

What makes each part correct:
* lifecycle: a codex turn is attributed to the conversation of its thread;
  an interrupt reaches the codex turn of its own turn; a finished turn stays
  finished; every start is followed by a report;
* codex client: a call is answered by the process it asked; no codex is left
  running that nobody can end;
* delivery: a turn is run at most once in the life of an agent, sent at most
  once unless the user retries it, never forgotten while its row waits, and never
  shown as running when it did not run;
* server requests: what codex waits for can be answered, an answer reaches the
  request it was given for, a card is closed only when codex no longer waits;
* sign-in: a computer is signed in only as a user whose phone holds the root key,
  and an approved code ends in a session;
* session file and end-to-end runtime: the token on file is live, a used sequence
  number is never used again, and only an overtaken message is refused;
* process, sessions, keep-awake: the daemon that runs is the one on file; a row
  says "running" of what runs; the computer is awake only for work;
* tunnels: a request is served by one agent at most, no websocket is left open behind a
  client that is gone, the token handed out is admitted;
* synchronisation and hydration: a thread is one conversation, a turn is shown,
  and shown once;
* billing and entitlements: the limit belongs to the plan, who pays is known, the
  limits hold;
* push and timeline: a registered token belongs to whoever is signed in; a phone
  shows the end of a turn.

## 2. Modules

| module | models | composed of |
|---|---|---|
| `AgentTurn` | abstract: the events of one turn that an agent may report | |
| `ConversationManager` | lifecycle of turns on the agent, implements `AgentTurn` | client, manager, codex |
| `CodexClient` | children of the client and its pending requests | client, codex |
| `TurnDelivery` | a turn from the create route to its last event | route, dispatcher, repository, hub, socket, runner |
| `ServerRequestRelay` | a request of codex and its answer | manager, client, hub, socket, phone |
| `AgentSession` | `session.json`: tokens, peers and sequence numbers | agent, commands, token routes |
| `AgentDaemon` | `runtime.json` and the daemon | commands, operating system |
| `TerminalSession` | terminal sessions and keep-awake | routes, hub, socket, runner, processes |
| `TunnelRelay` | requests and websockets of a tunnel | client, gateway, control-api, hub, agents, application |
| `TunnelTokens` | access tokens of a tunnel | routes, row, memory |
| `E2EChannel` | numbered envelopes from a phone to the agent | phone, its storage, agent |
| `DeviceLogin` | device codes and the exchange of the root key | login command, routes, phones, browser |
| `Billing` | from a payment to a plan | routes, webhooks, providers |
| `Entitlements` | what the plan allows | routes, rows, account deletion |
| `ThreadSync` | bindings of codex threads to conversations | routes, hub, agent |
| `Hydration` | stored turns against live ones | routes, hub, agent |
| `PushRegistrations` | a phone's push token and its rows | phone, routes, notifications |
| `TurnTimeline` | a turn as the phone shows it | agent, hub, database, phone |
| `MCComputer`, `MCServer` | the parts of a computer and of a user's records, for TLC | |
| other `MC...` | instances of the three core modules for TLC | |
| `...Proofs` | theorems of these | |

`MCComputer` and `MCServer` put eight and six components in one run each. These
components share no variable, so a behaviour of all of them together projects to
a behaviour of each; the run therefore takes, in `part`, one component and leaves
the others in their initial state, and what holds in it of each holds of any
interleaving. The first half of that is proved, one `...Behaves` lemma for each
component (section 4). Four of them stop early, where a property is silent: a session file
once it is `clobbered`, the plan once its turns are `excused`, push registrations once calls
have crossed, a timeline once a reload has lapsed. Only TLC stops there: the invariants
of section 4 are proved of the components without that guard (`SessionInvariant`,
`EntitlementInvariant`, ...).

### AgentTurn and ConversationManager
`AgentTurn` is what control-api can rely on: while `startTurn` runs, a turn may be
reported completed and started again, since codex's notifications are about
threads; after that it is completed once, for good. The manager implements it
under the mapping `ImplementsAgentTurn` of its maps to the phase of each turn.
The agent's part of `TurnDelivery` takes the same steps.

One action per handler or per stretch of code between two awaits:
`StartTurn`/`CodexReady`/`Ensuring`/`AfterThread` are `startTurn` up to its
`turn/start` request, `AfterAnswer`/`AfterNotFound`/`AfterFailure` what follows
it; `TurnStarted`, `TurnCompleted`, `ThreadStatusTerminal`,
`ThreadStartedNotification` are branches of `onNotification`; `SyncThreads` and
`SyncReconcile` the two halves of `syncThreads`; `CodexExit` the exit handler.
`CodexAccepts`, and when notifications come, are codex, which is external.
The guard `Settled` is Node's scheduling: the lines of one chunk of stdout are
all handled before the continuations they release, so a notification may
overtake the code after an await but a new control message may not.
Left out: notifications that are only relayed; the backoff timers (a start may
be refused at any time); a second child before the exit event of the first,
which is `CodexClient`; the status `interrupted`, which is treated like every
other end.

### CodexClient
A child is its place in the order of spawning, a request its id. `Close` and
`ChildExits` are two steps, so that another child may be spawned between; the
exit handler then meets a `child` that is not its own. `asked` and `replies` are
the pipes, `settled` the history of who answered whom. The property
`RunningIsChild` excepts `lateExit`: an exit handler does not look whose exit it
handles, so a late one takes the new child for gone, and that child is never
ended by `close`.

### TurnDelivery
`status`, `delivery`, `due` are the columns of a row. `CreateTurn`, `RouteSend`,
`RouteUpdate` are the create route cut at its awaits; `AgentHeard`, `Claim`,
`DispatchNext`, `DispatchUpdate` are `dispatchDeferredTurnsForAgent`;
`RetryCheck`, `RetryAccept` the retry route; `AgentReceives`, `AgentStarts`,
`AgentEnds` the runner; `HubReceives` and `WriteLands` the hub's handlers, whose
writes land in any order. `Cut` drops what is in flight, so a turn sent to a
socket that is dead already is `Send` followed by `Disconnect`. Left out: the
attempt counter and the status column of the conversation, which no guard here
reads; the limit of 2048 remembered turn ids; the dispatcher's answer to an
envelope that does not parse, since the create route validates it.

### ServerRequestRelay
`about` says what each request is; codex gives it the next number of its process.
`MakeRequest` is `onServerRequest`, with the rejection of what is filed under the
number; `AgentReceives`/`Resolve` the answer's handler and
`resolveServerRequest`; `Announce` the notification `serverRequest/resolved`;
`TurnEnds`, `ChildExit` the ends of a turn and of codex; `HubReceives`,
`HubRoutes`, `Expire`, `HubClose`, `OldClose`, `Connect` the hub;
`UserAnswers` the phone. Assumed of codex: it numbers requests from 0 in each
process, settles a request at the first reply with its number, and waits for
nothing of a turn that ended. Left out: the plaintext of requests and answers, sequence numbers (an
answer may fail to decrypt for no modelled reason), and a phone that is offline.

### The computer: AgentSession, AgentDaemon, TerminalSession
`AgentSession` cuts `ensureSession`, `login` and `logout` at their awaits, for the
commands and for the agent, and has the two writers of the agent
(`flushPersistedSeqByScope` 300 ms after a change, `mergePeerDevices`), each of
which reads the whole file and writes it back later. A refresh token is a number;
`live` are those the server accepts. `writeUserSession` truncates the file before it
fills it: whoever reads in between finds no session (`Readings`), two writes at once may
leave a mixture (`Written`), and one that fails, or is cut off by a crash, leaves the old
content, none or the new one (`SaveFails`, `PersistFails`, `AgentCrashes`); a file that
does not parse is treated like one that is not there. `lost`, `clobbered` and `unsaved`
record what the code does not guard against: a token that never arrived or could not be
saved after the server had revoked the old one; a write of a session read before
another process wrote; and sequence numbers that a failed write, which is only logged, or
an unreadable file, after which the agent persists nothing any more, has left off the
file. The properties say that nothing else parts the file from the server or loses a
sequence number. The list of devices may name one more phone at any time.

`AgentDaemon` has the awaits of `start`, `stop`, `restart`, `install` and `uninstall`:
reading the file with the liveness of its pid, signalling, waiting, killing,
spawning, writing and deleting. Pids are used again by other programs. `startRaced`
and `interrupted` record a start that overlapped another command and a command
that was interrupted, after which `DaemonIsOnFile` promises nothing.

`TerminalSession` is the route, the hub's un-awaited writes of `session.status`, the
runner's `session.create` (which waits for the peer sync) and `session.terminate`
(which does not), the child and its events, and `KeepAwakeManager`. The hub's writes may
run in any order or fail (`WriteFails`). `StopAgent` is `requestStop`: the connection is
closed, and the process goes on handling what becomes of its children until they have
closed. `AgentEnds` is its end, asked for or not, at any point, and the start of another
one, since two agents of a computer do not overlap (`AgentDaemon`): the hub changes no
row, children become `lost`, and an inhibitor that was not signalled is left behind
(`orphans`). `RowFollowsSession` excepts sessions with a lost message, write or waiting
handler (`cut`) or with two writes under way at once (`reordered`), and a spawn that
threw; a row that says "running" of a session whose process outlived its agent is named
as such in the property.

### Tunnels: TunnelRelay, TunnelTokens
`TunnelRelay` follows a request or a websocket from the client through the gateway,
the fallback loop of control-api, the hub's pending maps and the agent to a local
application, and back. The gateway refuses what names no open tunnel, and pairs
each websocket of a client with one to control-api. A connection may drop unnoticed:
what is sent then is lost, and the close of the old one may come when the agent is
back. The agent calls its loopback hosts one after the other until one answers
(`HttpRequest`, `NextHost`): any error of a call, also of one that was served, passes the
request on, so that `served` counts calls of each host, and an application that listens
on several may get a request several times. `ServedByOneAgent` says that there is no
other way to serve it again. `LocalIsRouted` excepts `lapsed` attempts: opened after the hub's time-out, given
up by the client, or across a dropped connection. `Unsteady`
bounds which agents' connections drop.

`TunnelTokens` is `issueTunnelToken`, `rotateTunnelToken` and `closeTunnel` with their
awaits; `overlapped` records two calls that minted at the same time.

### Phone and agent: E2EChannel, DeviceLogin
`E2EChannel` has the numbers the phone takes when it encrypts, stored before a prompt is
sent and in the background for an answer, restarts of both sides, the agent's check against the
last number accepted, envelopes of a sender it does not know yet, which wait for
`syncE2EPeers`, and secure scans that start the numbers over.

`DeviceLogin` has the login command, the routes of both modes and the phones, cut at
every await, with several phones, repeated scans and failed requests. `PeerHoldsKey`
excepts two phones of the same user, of which the first may acknowledge after
other phones have scanned.

### A user's records: Billing, Entitlements, ThreadSync, Hydration, PushRegistrations, TurnTimeline
Each of these is a few routes cut at their awaits over a few rows. The exceptions in
their properties are variables that record an overlap nothing in the code excludes:
`Billing` two webhooks between their rows (`crossed`), a webhook that failed between
them (`halved`), two checkouts that found no customer (`doubled`); `Entitlements` two
checks that passed before either insert or an import of a running turn (`excused`), and
the start of a turn that is written after its end, without a guard and without a check,
and makes its conversation active again (`reopened`); `ThreadSync` a thread listed
while the report of its conversation was on its way (`unreported`); `Hydration` two
hydrations at once (`overlapped`), one that failed after it had deleted (`halfDone`)
and turns started before the agent told of them (`earlyTurns`); `PushRegistrations`
calls that overlap (`crossed`); `TurnTimeline` a write or a reload that failed, was
refused, was superseded or read too early (`lapsed`). Outside them the properties hold.

## 3. What is checked

| run | bounds | shows |
|---|---|---|
| `conversation_overlapping` | 2 turns of one conversation, 2 threads | `PendingOnlyInCall`, `InterruptReachesOwnTurn`, `ImplementsAgentTurn` |
| `conversation_apart` | 2 turns of 2 conversations, 2 threads | `Isolation`, and under fairness `StartReports` |
| `conversation_exit` | as overlapping | **violated**: `ExitFailsRunningTurns` |
| `turn_delivery` | 2 turns, 1 retry, 1 fault | `SingleExecution`, `SentOnceUnlessRetried`, `PendingHasOwner`, `RunningWasExecuted` |
| `turn_delivery_live` | 2 turns, 1 fault, one claim at a time | `DeferredIsSent` |
| `turn_retry` | 1 turn, 1 retry | **violated**: `RetryIsSent` |
| `turn_notified` | 1 turn | **violated**: `CompletionIsNotified` |
| `server_requests` | 1 agent, 2 requests, 2 lives of codex, 1 fault | `WaitingIsFiled`, `RouteIsLive`, `ClosedIsOver` |
| `server_requests_two_agents` | 2 agents, 2 requests, 2 numbers | `AnsweredOnOwnAgent` |
| `server_requests_round_trip` | 2 agents, 2 requests, no fault | **violated**: `RoundTrip` |
| `computer` | see below | `TypeOK`; session file: `TokensInStep`, `UsedSeqIsOnFile`; daemon: `DaemonIsOnFile`; terminal: `AwakeOnlyForWork`, `RowFollowsSession`; tunnels: `ServedByOneAgent`, `LocalIsRouted`, `CachedTokenWorks`; envelopes: `PromptNumbersGrow`, `RefusedWasOvertaken`; codex client: `CallsGetTheirAnswers`, `RunningIsChild`; threads: `BoundOnce` |
| `server` | see below | `TypeOK`; sign-in: `KeyHolderSignsIn`, `PeerHoldsKey`, and under fairness `ApprovedIsRedeemed`; `PlanMatchesLimit`, `SessionIsMapped`; `AgentsWithinLimit`, `OneActiveConversation`; `ShownOnce`, `StartedIsShown`; `RegistrationFollowsSignIn`; `EndIsShown` |

Why these bounds. Two turns meet on a thread, in a claim or in a retry; a third
adds no new pair, since no map and no query relates three. Two threads are the
conversation's own and the one made when codex has forgotten it. One fault
(connection, agent, hub or database) at every point is what the code handles; of
two faults the second meets a state the first has already reset. Two lives of
codex let a request meet what an earlier process left.

In `computer`: a command beside the agent, three tokens (the first, one refreshed by
each of the two) and one fault, a crash or a write that fails, for the session file; two commands with three runs
in all and two pids, so that a pid comes back; one session and two turns with two
inhibitors and two losses (a drop, a failed write or the end of an agent), so that an
agent that follows another meets what is left of it; two agents of which the first's
connection drops, one request or
websocket, three connections, and the three loopback hosts of the source; three token calls and four tokens, so that a mint
meets a rotation and a third caller sees the result; three envelopes, one more scan and one
restart, loss or failure; two calls, two codexes and four request ids, so that
each call can ask both; two threads, synchronisations and conversations. In `server`: one code that two phones of the user and one
of a stranger can scan twice; two events, deliveries and checkouts and one
failure; two pairing codes and registrations for a limit of one on the free plan and
two on the paid one, with two writes of the plan; one live turn beside a thread of two turns, two hydrations, and
`completed` as the only way a turn ends (`failed` is handled in the same branches);
two calls and a notification of a phone with two tokens and two sign-ins; one item
of one turn, two sockets, and one visit to another conversation. Each pair that races in the code is there; what two of
a kind can do to a row, a third repeats.

The `Max...` constants, `Unsteady`, `ClaimLimit`, `Misreported` and `Retriable` are
only such bounds. Deadlock is checked except for server requests, `computer` and
`server`, where a behaviour ends when the bounded requests, faults or calls are
used up.

Each run also bears on the action relation: with one action changed the way a
plausible mistake would change it (`mutants` in `PROJECT.json`), the run finds the
property violated.

Fairness. `ConversationManager`: a continuation is run by Node's microtask queue,
and each JSON-RPC request has a 30 s timer, so weak fairness of the continuation
and of the failing action; codex itself is never assumed to answer.
`TurnDelivery`: handlers and statements go on (weak fairness), the agent's loop
reconnects, and it sends a heartbeat every 10 s for ever, so that some heartbeat finds
the dispatcher idle: strong fairness of `AgentHeard`. `DeviceLogin`: the login command
polls in a loop until it has an answer that ends it, so weak fairness of `LoginStep`;
phones are not fair. No user action is fair.

### Findings
* **A codex exit leaves a turn running** (`conversation_exit`):
  `activeTurnByThread` keeps one turn per thread, so of two turns that run on a
  thread `onCodexClientExit` reports the later one only.
* **A retry of a failed turn is accepted and never sent** (`turn_retry`): the
  route sets `delivery_state` to `deferred` and leaves `status` at `failed`,
  while the claim selects `queued` rows.
* **A deferred turn can complete without its notification** (`turn_notified`):
  `deferredInFlightTurnIds` is filled after an await that follows the send.
* **An approval can be routed to another agent** (`server_requests_round_trip`):
  routes are kept by user and request number, and two agents use the same
  numbers. With one agent the same property fails after a restart of codex: the
  entry an earlier process left is rejected when the number comes again, and the
  rejection is written to the new process as the answer to its first request.
  The models also reach, without contradicting any sentence of the docs: an
  answer that waits for the peer sync being given to a later request of a
  restarted codex, and the close of a replaced socket taking the routes of
  requests shown since.

Met while reading and not the subject of a run: with encryption
`enrichConversationEventWithE2E` drops `itemId` from `conversation.item.delta`,
which the message type declares, so that the phone files each such delta under an
id of its own until the turn is reloaded.

## 4. What is proved

For any numbers of turns, threads, conversations, agents, requests, commands, calls
and faults:

* `ConversationManagerProofs`: `TypeOK`, `PendingOnlyInCall`, `Isolation`,
  `InterruptReachesOwnTurn`, `ReportsAgree`, the action property
  `CompletedIsFinal`, and the refinement `ImplementsAgentTurn`, from
  `ConstantsAssumption`. The inductive invariant `Inv`
  joins them with `CallsKnowThread` (a call that waits for `turn/start` has a
  thread of its own conversation; a codex turn exists only for a call that has
  asked for it): without it `AfterAnswer` could bind a turn to a thread of
  another conversation. `AgentTurnImplemented` shows that each action is, for every
  turn, a step of `AgentTurn` or leaves its phase alone, from `TypeOK` and
  `ReportsAgree`.
* `TurnDeliveryProofs`: `TypeOK`, `OneHandler`, `PendingHasOwner`,
  `SingleExecution`, `RunningWasExecuted`, `SentOnceUnlessRetried`, from
  `BoundsAssumption`. `Ownership` says which rows each step of the route and of
  the dispatcher may hold; `FreshMayRun` that a turn the agent has not seen has
  runs to spare in this life; `NewsOfExecuted` that events and writes speak of
  turns that ran; `Traffic` and `SentKnown` count every copy of a turn that
  was not retried, in the dispatcher, in flight or at the agent: together at
  most one.
* `ServerRequestRelayProofs`: `TypeOK`, `WaitingIsFiled`, `AnsweredOnOwnAgent`,
  `RouteIsLive` and the action property `ClosedIsOver`, from `ConstantsAssumption`. `Numbering` and
  `DistinctNumbers` (a number stands for one request within a life of codex)
  carry `Filing`: what codex waits for belongs to the running process and is
  filed. From that, `ResolvedIsOver` (a resolved event under way names nothing
  codex waits for) gives `ClosedIsOver`, and `Answers` (routes and deliveries
  agree in their numbers) gives `AnsweredOnOwnAgent`.
  `RouteIsLive` is not inductive alone: `QueueLive` says
  that a request still on its way to the hub is on file or is followed by the news
  that ends it, `QueueRight` and `OffIsEmpty` whose messages a connection carries,
  `AwayHasNoRoute` that a close clears all routes of the agent.
* `CodexClientProofs`: `TypeOK`, `CallsGetTheirAnswers`, `RunningIsChild`, from the
  bounds being numbers. `IdsAreOld` (no id is used twice) and `AskedOnce` (who
  answers a pending request is who was asked) are what makes a late answer of an
  ended codex harmless.
* `AgentDaemonProofs`: `DaemonIsOnFile`, from `NoPid` being no pid. While no start
  overlapped another command: a command that starts a daemon is alone
  (`StartsAlone`), no daemon is left where one is about to be started or the file
  deleted (`NoneLeft`), and only the command's own runs where it has started or
  signalled one (`OnlyOwn`).
* `ThreadSyncProofs`: `BoundOnce`. The lock gives `OneSync`; `ReportedIsFree` and
  `ListedIsFree` keep reports and imports off each other's threads.
* `MCComputerProofs` and `MCServerProofs`: every invariant of the runs `computer` and
  `server`, component by component as follows.

`MCComputerProofs`, from the assumptions named in `MCComputer` (bounds are numbers,
`NoPid` is no pid, `None` no thread, the tunnel's `Owner` an agent, a request no
websocket):
* `TunnelTokens` (`TokensInv`): `CachedTokenWorks`. Without overlapping mints the row has
  the token a call has stored until that call ends (`StoredIsHashed`), and the cached
  one otherwise (`CachedIsHashed`).
* `E2EChannel` (`ChannelInv`): `PromptNumbersGrow`, `RefusedWasOvertaken`. The property
  speaks of prompts that were sent, and is kept by what waits: `NumbersGrow` states it of
  the waiting ones too, `PhoneCounts` that the phone's number is above all of them,
  `FileCounts` and `QueueCounts` that whatever a restart reads back, from the file or
  after a write that is still queued, is above those that were sent. `ReceivedOnce`
  and `LastIsAccepted` say that the agent's last number is of something it accepted,
  which is what overtook.
* `AgentSession` (`SessionInv`): `TokensInStep`, `UsedSeqIsOnFile`. A token that was
  received and not yet saved is live and equal to no other token or root key that anybody
  knows (`FreshTokens`), and the revoked ones still to be exchanged count against the sign-ins (`OneLive`); so a save
  cannot put a dead token on file. For the numbers: no copy of the state is ahead of the
  runtime (`NoneAhead`), the file is not behind what the agent remembers
  (`FileKeepsUp`), and where it is behind the runtime a timer or a write is to come, or
  the numbers are `unsaved` (`WillBeWritten`).
* `TerminalSession` (`TerminalInv`): `AwakeOnlyForWork`, `RowFollowsSession`. The second
  promises something of quiet states only. `AllTold` says it of all: when a session of which
  nothing was lost is over, each "running" on the socket, in a write or in the row is followed by the status that
  ends it.
* `TunnelRelay` (`TunnelInv`): `ServedByOneAgent`, `LocalIsRouted`. `HttpInv`: a request is
  on its way to one agent at most, and before it is sent, or while it is on its way, no
  host has been called for it. `OriginInv`: an agent that passes a request on has called
  its hosts up to the present one, once each. `NetInv`: which connection carries what. `AttemptInv`: an attempt to open a websocket is asked for,
  opens, is open, has ended, in this order and in one stage at a time, while the hub
  waits for it on the connection it was asked on; `PairsInv`, `RouteInv`, `HeardInv`: which
  client each pending open or route belongs to, and what control-api knows of a client
  that is gone.
* `CodexClient`, `AgentDaemon`, `ThreadSync`: the theorems of their own modules, which
  `MCComputer` takes by instance.

`MCServerProofs`, from the assumptions named in `MCServer` (bounds are numbers, finitely
many registrations, `None` no phone, user or code, the turn none of its items):
* `DeviceLogin` (`LoginInv`): `KeyHolderSignsIn`, `PeerHoldsKey`. `HolderApproves` follows the
  phone that holds the root key from the approval over the answer of a poll to the session;
  it needs `ScanHolds` (who holds a bundle has decrypted the one built for its newest key),
  `KeyOnFile`, `OneBundle` and `BundleIsForPeer`, which tie the key on file, the bundle and
  the peer of the command to one scan.
* `Billing` (`BillingInv`): `PlanMatchesLimit`, `SessionIsMapped`. `PlanIsCarried`: between
  its two rows a webhook that was not crossed is alone, and the plan is that of its event.
  `OneCustomer`: a call makes a customer only while none is on file.
* `Entitlements` (`EntitlementInv`): `AgentsWithinLimit`, `OneActiveConversation`. A limit
  read earlier is below the highest granted (`LimitsGranted`); a conversation that passed
  the check is the only one beside those a late start has reopened (`OneAllowed`).
* `Hydration` (`HydrationInv`): `ShownOnce`, `StartedIsShown`. `CopiesApart`: until two
  hydrations overlap, the copies are of turns up to the one that was read last, and the
  users' rows of later ones; `WillBeShown`: what a hydration has deleted it will copy.
* `PushRegistrations` (`PushInv`): `RegistrationFollowsSignIn`. `OneCall`: until calls cross
  there is one, of the user signed in, and what it has done so far is in the rows.
* `TurnTimeline` (`TimelineInv`): `EndIsShown`. `StoreInv` and `QueueInv`: the rows and the
  socket hold what the hub was told last, or a write is to come; `ViewInv`: what the
  phone does not show yet is on its way or will be loaded.

The argument from a component to the run is the same in both modules: each step of the
run is a step of the component or leaves its variables alone (`CodexBehaves`,
`TunnelBehaves`, `LoginBehaves`, ...), so a behaviour of the run is one of the
component, and what the component's theorem says for every value of its constants
holds there. `AwakeOnlyForWork` is inductive together with the types; the other
properties are not, and stand in their invariants beside what their proofs need.

`TypeOK` of the three core modules, `OneHandler`, `ReportsAgree` and
`CompletedIsFinal` are proved and no longer listed among the runs' properties:
`ImplementsAgentTurn` and the invariants above say more about the same steps.

Only model-checked: the liveness properties (`StartReports`, `DeferredIsSent`,
`ApprovedIsRedeemed`), which need fairness and are beyond the prover; and the four
violations, which are counterexamples. Every invariant and every action property of the
passing runs is proved. That the bounds do not hide a case is argued in section 3; the proofs hold for
all bounds, so what stays bounded is the liveness alone.

## 5. Not modelled, and the plan

Not modelled, and why:
* starting, probing and stopping of dev services: `startService` throws in this
  source, so that none of it is reached;
* the cryptography, and the repair of turns from before encryption;
* what is relayed or read without a decision depending on it: deltas, diffs, plans,
  token usage, input and output of terminal sessions, debug traces, audit events,
  diagnostics and probes of tunnels, the wording of notifications and the access
  token for Firebase, headers and cookies in the gateway and its own check of a
  tunnel's access token;
* workspaces, rate limits (which make a client repeat a call), runtime options, the
  MCP switch and the cache of models: rows and caches that no other component
  modelled here depends on;
* the limit of 2048 remembered turn ids: a turn sent twice so far apart needs more
  turns than an instance can have;
* screens, widgets and the web front end.

Next:
1. An abstract specification of a request of codex (asked, answered once) for
   `ServerRequestRelay`, up to the finding above.
2. One composition of `TurnDelivery` with `TurnTimeline`, so that the liveness of a
   deferred turn reaches the phone.
