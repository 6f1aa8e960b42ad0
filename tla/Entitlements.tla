---------------------------- MODULE Entitlements ----------------------------
(***************************************************************************)
(* What the plan allows a user: so many agents, checked when a pairing     *)
(* code is made and when an agent registers with it, and, on the free      *)
(* plan, turns in one conversation at a time, checked when a turn is       *)
(* created.  The two rows of the plan are written one after the other by   *)
(* the webhooks (module Billing) and read by every check.  The hub writes  *)
(* that a turn has started without a guard and without waiting for it: the *)
(* write may land after the end of the turn.  The account may be deleted   *)
(* at any time.                                                            *)
(*                                                                         *)
(* One user of the cloud billing mode.  Each await is a step boundary.     *)
(***************************************************************************)
EXTENDS Integers, FiniteSets

CONSTANTS
  PairingCodes,       \* calls of POST /agents/pair, and the code each makes
  Registrations,      \* calls of POST /agents/register
  Conversations,
  FreeAgents, PaidAgents,   \* freeMaxAgents and paidMaxAgents
  MaxPlanWrites       \* bound on the writes of the plan's rows

VARIABLES
  account,     \* the users row is there
  paid,        \* subscriptions: a paid plan whose status is active
  maxAgents,   \* device_entitlements: max_agents
  planWrites,
  agents,      \* rows of agents
  pairing,     \* where each code stands
  register,    \* where each registration stands
  limit,       \* the limit each of them has read
  busy,        \* conversations with a queued or running turn
  starting,    \* conversations with a turn whose start is not written yet
  reopened,    \* busy conversations that a start written after the end of its
               \*   turn has made so
  creating,    \* where the creation of a turn stands, one at a time in each
  granted,     \* the highest limit there was
  everPaid,    \* the user had a paid plan at some time
  excused      \* two checks passed before either inserted its turn, or a turn
               \*   came by an import

planRows == <<paid, maxAgents, planWrites, granted, everPaid>>
agentRows == <<agents, pairing, register, limit>>
turnRows == <<busy, starting, reopened, creating, excused>>
entitlementVars == <<account, planRows, agentRows, turnRows>>

PairingState == {"none", "checked", "fresh", "used"}
RegisterStage == {"idle", "consumed", "limited", "done", "refused"}
CreatingStage == {"idle", "free", "allowed"}
Larger(m, n) == IF m > n THEN m ELSE n

-----------------------------------------------------------------------------
(* The plan, as the webhooks write it.                                      *)

PlanWritten ==
  /\ account /\ planWrites < MaxPlanWrites
  /\ planWrites' = planWrites + 1
  /\ paid' = ~paid
  /\ everPaid' = TRUE
  /\ UNCHANGED <<account, maxAgents, granted, agentRows, turnRows>>

LimitWritten ==
  /\ account /\ planWrites < MaxPlanWrites
  /\ planWrites' = planWrites + 1
  /\ maxAgents' \in {FreeAgents, PaidAgents} \ {maxAgents}
  /\ granted' = Larger(granted, maxAgents')
  /\ UNCHANGED <<account, paid, everPaid, agentRows, turnRows>>

-----------------------------------------------------------------------------
(* Agents.                                                                  *)

\* POST /agents/pair: getUserEntitlements says that the limit is not reached, ...
CheckLimit(c) ==
  /\ account /\ pairing[c] = "none"
  /\ agents < maxAgents
  /\ pairing' = [pairing EXCEPT ![c] = "checked"]
  /\ UNCHANGED <<account, planRows, agents, register, limit, turnRows>>

\* ... and the code is made.
CreatePairingCode(c) ==
  /\ account /\ pairing[c] = "checked"
  /\ pairing' = [pairing EXCEPT ![c] = "fresh"]
  /\ UNCHANGED <<account, planRows, agents, register, limit, turnRows>>

\* POST /agents/register: one UPDATE uses the code, ...
ConsumePairingCode(r, c) ==
  /\ register[r] = "idle"
  /\ pairing[c] \in {"fresh", "used"}
  /\ pairing' = [pairing EXCEPT ![c] = "used"]
  /\ register' = [register EXCEPT ![r] = IF pairing[c] = "fresh" THEN "consumed"
                                                                 ELSE "refused"]
  /\ UNCHANGED <<account, planRows, agents, limit, turnRows>>

\* ... the limit is read, ...
ReadLimit(r) ==
  /\ register[r] = "consumed"
  /\ limit' = [limit EXCEPT ![r] = maxAgents]
  /\ register' = [register EXCEPT ![r] = "limited"]
  /\ UNCHANGED <<account, planRows, agents, pairing, turnRows>>

\* Mutant: the agents are counted when the limit is read, not when the row is made.
CountsBefore(r) == TRUE

\* The count of createAgent, under the lock of the users row.
CountsUnder(r) == agents < limit[r]

\* ... and createAgent makes the row, if there is room and the account is there.
CreateAgent(r) ==
  /\ register[r] = "limited"
  /\ IF account /\ CountsUnder(r)
     THEN agents' = agents + 1 /\ register' = [register EXCEPT ![r] = "done"]
     ELSE register' = [register EXCEPT ![r] = "refused"] /\ UNCHANGED agents
  /\ UNCHANGED <<account, planRows, pairing, limit, turnRows>>

-----------------------------------------------------------------------------
(* Turns.                                                                   *)

\* POST .../turns: the entitlements are read; a paid plan allows the turn.
ReadPlan(k) ==
  /\ account /\ creating[k] = "idle"
  /\ creating' = [creating EXCEPT ![k] = IF paid THEN "allowed" ELSE "free"]
  /\ UNCHANGED <<account, planRows, agentRows, busy, starting, reopened, excused>>

\* Mutant: the conversation itself is not excluded, and no other one is looked at.
NoOtherLookedAt(k) == TRUE

NoOtherBusy(k) == busy \ {k} = {}

\* On the free plan no other conversation may have an active turn.
FindOtherActive(k) ==
  /\ creating[k] = "free"
  /\ creating' = [creating EXCEPT ![k] = IF NoOtherBusy(k) THEN "allowed" ELSE "idle"]
  /\ excused' = (excused \/ (NoOtherBusy(k) /\ \E j \in Conversations : creating[j] = "allowed"))
  /\ UNCHANGED <<account, planRows, agentRows, busy, starting, reopened>>

InsertTurn(k) ==
  /\ account /\ creating[k] = "allowed"
  /\ busy' = busy \union {k}
  /\ starting' = starting \union {k}
  /\ creating' = [creating EXCEPT ![k] = "idle"]
  /\ UNCHANGED <<account, planRows, agentRows, reopened, excused>>

\* The last active turn of a conversation ends: its agent reports so, or it cannot be
\* sent. Its start may be reported still, or may have been and not be written.
TurnsEnd(k) ==
  /\ k \in busy
  /\ busy' = busy \ {k}
  /\ reopened' = reopened \ {k}
  /\ UNCHANGED <<account, planRows, agentRows, starting, creating, excused>>

\* markConversationTurnStarted, issued by the hub at conversation.turn.started, lands:
\* the row says running, whatever it said before.
StartLands(k) ==
  /\ account /\ k \in starting
  /\ starting' = starting \ {k}
  /\ busy' = busy \union {k}
  /\ reopened' = IF k \in busy THEN reopened ELSE reopened \union {k}
  /\ UNCHANGED <<account, planRows, agentRows, creating, excused>>

\* A hydration writes the turns of a thread whose last turn is running.
ImportRunningTurn(k) ==
  /\ account /\ k \notin busy
  /\ busy' = busy \union {k}
  /\ excused' = TRUE
  /\ UNCHANGED <<account, planRows, agentRows, starting, reopened, creating>>

\* deleteUserAccount, in one transaction. A start written later finds no row.
DeleteUserAccount ==
  /\ account
  /\ account' = FALSE
  /\ agents' = 0
  /\ pairing' = [c \in PairingCodes |-> "none"]
  /\ busy' = {} /\ starting' = {} /\ reopened' = {}
  /\ UNCHANGED <<planRows, register, limit, creating, excused>>

Init ==
  /\ account = TRUE /\ paid = FALSE /\ maxAgents = FreeAgents /\ planWrites = 0
  /\ agents = 0
  /\ pairing = [c \in PairingCodes |-> "none"]
  /\ register = [r \in Registrations |-> "idle"]
  /\ limit = [r \in Registrations |-> 0]
  /\ busy = {} /\ starting = {} /\ reopened = {}
  /\ creating = [k \in Conversations |-> "idle"]
  /\ granted = FreeAgents /\ everPaid = FALSE /\ excused = FALSE

Next ==
  \/ PlanWritten \/ LimitWritten \/ DeleteUserAccount
  \/ \E c \in PairingCodes :
       \/ CheckLimit(c) \/ CreatePairingCode(c)
       \/ \E r \in Registrations : ConsumePairingCode(r, c)
  \/ \E r \in Registrations : ReadLimit(r) \/ CreateAgent(r)
  \/ \E k \in Conversations :
       \/ ReadPlan(k) \/ FindOtherActive(k) \/ InsertTurn(k)
       \/ TurnsEnd(k) \/ StartLands(k) \/ ImportRunningTurn(k)

Spec == Init /\ [][Next]_entitlementVars

-----------------------------------------------------------------------------
TypeOK ==
  /\ {account, paid, everPaid, excused} \subseteq BOOLEAN
  /\ {maxAgents, granted} \subseteq {FreeAgents, PaidAgents}
  /\ planWrites \in 0 .. MaxPlanWrites
  /\ agents \in 0 .. Cardinality(Registrations)
  /\ pairing \in [PairingCodes -> PairingState]
  /\ register \in [Registrations -> RegisterStage]
  /\ limit \in [Registrations -> {0, FreeAgents, PaidAgents}]
  /\ busy \subseteq Conversations /\ starting \subseteq Conversations
  /\ reopened \subseteq busy
  /\ creating \in [Conversations -> CreatingStage]

\* A user never has more agents than the highest limit there was, however many pairing
\* codes are about and however the registrations and the changes of the plan
\* interleave; nor an agent, or a turn, after the account was deleted.
AgentsWithinLimit ==
  /\ agents <= granted
  /\ ~account => agents = 0 /\ busy = {}

\* A user who never paid has active turns in one conversation at most, not counting
\* those that a late start has made active again; except after two requests whose checks
\* both passed before either inserted its turn, and after an import, which asks nobody.
OneActiveConversation ==
  (~everPaid /\ ~excused) => Cardinality(busy \ reopened) <= 1
=============================================================================
