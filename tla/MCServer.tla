------------------------------ MODULE MCServer ------------------------------
(***************************************************************************)
(* The records of control-api about a user, for TLC: sign-ins, payments,   *)
(* what the plan allows, the turns copied from codex, push registrations,  *)
(* and the events of a turn as a phone shows them. The components share no *)
(* state, so that what holds of each alone holds of them together; a       *)
(* behaviour is that of one of them, and the others keep their initial     *)
(* state.                                                                  *)
(***************************************************************************)
EXTENDS Integers, Sequences, FiniteSets, TLC

CONSTANTS
  other, user, stranger, Codes, Phones, Users, None, MaxAttempts,
  MaxBroken, MaxEvents, MaxDeliveries, MaxCheckouts, PairingCodes,
  Registrations, Conversations, FreeAgents, PaidAgents, MaxPlanWrites,
  LiveTurns, MaxHydrations, MaxTurns, Final, Calls, Notices, MaxToken, MaxSignIns, MaxChanges,
  Items, Turn, MaxLinks, MaxSelects

\* What the constants of each component are.
ASSUME LoginAssumption ==
  /\ MaxAttempts \in Nat
  /\ None \notin Phones \union Users \union Codes
  /\ {user, stranger} \subseteq Users
ASSUME BillingAssumption == {MaxEvents, MaxDeliveries, MaxCheckouts} \subseteq Nat
ASSUME PlanAssumption ==
  /\ IsFiniteSet(Registrations)
  /\ {FreeAgents, PaidAgents, MaxPlanWrites} \subseteq Nat
ASSUME HydrationAssumption ==
  /\ {MaxHydrations, MaxTurns} \subseteq Nat
  /\ Final \subseteq {"completed", "failed"}
ASSUME PushAssumption ==
  /\ {MaxToken, MaxSignIns, MaxChanges} \subseteq Nat
  /\ MaxToken > 0
ASSUME TimelineAssumption ==
  /\ {MaxLinks, MaxSelects} \subseteq Nat
  /\ MaxLinks > 0
  /\ Turn \notin Items

\* The phone `other` is that of the second user.
MCOwnerOf(p) == IF p = other THEN stranger ELSE user

VARIABLES
  part,  \* the component whose behaviour this is
  dcStatus, dcUser, consumed, expired, mode, mobileUser, mobileKey,
  hostBundle, userDevice, login, answer, peer, hostBundleSent, session,
  scan, scanned, attempt, rootKeys, broken,
  customer, customers, checkout, using, kind, of, recorded, delivery,
  carries, plan, raised, billingCrossed, halved, doubled, failures,
  account, paid, maxAgents, planWrites, agents, pairing, register, limit,
  busy, starting, reopened, creating, granted, everPaid, excused,
  thread, turnOf, sent, routeAt, rows, convStatus, writes, hydration,
  snapshot, nextTurn, overlapped, halfDone, early, earlyTurns,
  hydrationFailures,
  native, signedIn, signIns, registered, leaving, call, entitled, owner,
  active, notice, rejected, pushCrossed, changes,
  told, inserts, row, link, links, toPhone, selected, selects,
  activeTurn, turns, shown, load, payload, superseded, recent, lapsed

Login == INSTANCE DeviceLogin WITH
  OwnerOf <- MCOwnerOf
Bill == INSTANCE Billing WITH
  MaxFailures <- 1, crossed <- billingCrossed
Plan == INSTANCE Entitlements
Hydrate == INSTANCE Hydration WITH
  MaxFailures <- 1
Push == INSTANCE PushRegistrations WITH
  crossed <- pushCrossed
Timeline == INSTANCE TurnTimeline

loginVars ==
  << dcStatus, dcUser, consumed, expired, mode, mobileUser, mobileKey,
     hostBundle, userDevice, login, answer, peer, hostBundleSent, session,
     scan, scanned, attempt, rootKeys, broken >>
billingVars ==
  << customer, customers, checkout, using, kind, of, recorded, delivery,
     carries, plan, raised, billingCrossed, halved, doubled, failures >>
planVars ==
  << account, paid, maxAgents, planWrites, agents, pairing, register,
     limit, busy, starting, reopened, creating, granted, everPaid, excused >>
hydrationVars ==
  << thread, turnOf, sent, routeAt, rows, convStatus, writes, hydration,
     snapshot, nextTurn, overlapped, halfDone, early, earlyTurns,
     hydrationFailures >>
pushVars ==
  << native, signedIn, signIns, registered, leaving, call, entitled, owner,
     active, notice, rejected, pushCrossed, changes >>
timelineVars ==
  << told, inserts, row, link, links, toPhone, selected, selects,
     activeTurn, turns, shown, load, payload, superseded, recent, lapsed >>

vars ==
  << part, loginVars, billingVars, planVars,
     hydrationVars, pushVars, timelineVars >>

Parts == {"login", "billing", "plan", "hydration", "push", "timeline"}

\* All components but one stay as they are.
Rest(p) ==
  /\ UNCHANGED part
  /\ p # "login" => UNCHANGED loginVars
  /\ p # "billing" => UNCHANGED billingVars
  /\ p # "plan" => UNCHANGED planVars
  /\ p # "hydration" => UNCHANGED hydrationVars
  /\ p # "push" => UNCHANGED pushVars
  /\ p # "timeline" => UNCHANGED timelineVars

Init ==
  /\ part \in Parts
  /\ Login!Init
  /\ Bill!Init
  /\ Plan!Init
  /\ Hydrate!Init
  /\ Push!Init
  /\ Timeline!Init

\* Nothing is said of turns once they are excused, of push registrations once calls have
\* crossed, nor of a timeline once a reload has lapsed: that ends a behaviour.
Next ==
  \/ part = "login" /\ Login!Next /\ Rest("login")
  \/ part = "billing" /\ Bill!Next /\ Rest("billing")
  \/ part = "plan" /\ ~excused /\ Plan!Next /\ Rest("plan")
  \/ part = "hydration" /\ Hydrate!Next /\ Rest("hydration")
  \/ part = "push" /\ ~pushCrossed /\ Push!Next /\ Rest("push")
  \/ part = "timeline" /\ ~lapsed /\ Timeline!Next /\ Rest("timeline")

Spec == Init /\ [][Next]_vars

\* A login command goes on polling and handles what it is answered.
FairSpec ==
  Spec /\ \A c \in Codes : WF_vars(part = "login" /\ Login!LoginStep(c) /\ Rest("login"))

TypeOK ==
  /\ part \in Parts
  /\ part = "login" => Login!TypeOK
  /\ part = "billing" => Bill!TypeOK
  /\ part = "plan" => Plan!TypeOK
  /\ part = "hydration" => Hydrate!TypeOK
  /\ part = "push" => Push!TypeOK
  /\ part = "timeline" => Timeline!TypeOK

\* A secure scan signs a computer in only as a user whose phone holds its root key.
KeyHolderSignsIn == Login!KeyHolderSignsIn

\* The peer a session trusts is a phone of its user that holds the root key.
PeerHoldsKey == Login!PeerHoldsKey

\* An approved code ends in a saved session, expires, is scanned anew, or its login
\* command fails.
ApprovedIsRedeemed == Login!ApprovedIsRedeemed

\* The limit on agents belongs to the plan on file once no webhook is at work.
PlanMatchesLimit == Bill!PlanMatchesLimit

\* Who pays in an opened session is the customer the webhooks map to the user.
SessionIsMapped == Bill!SessionIsMapped

\* A user never has more agents than the highest limit there was, and none once the
\* account is deleted.
AgentsWithinLimit == Plan!AgentsWithinLimit

\* A user who never paid has active turns in one conversation at most, apart from those
\* that a late start has made active again.
OneActiveConversation == Plan!OneActiveConversation

\* A turn of the thread is shown once.
ShownOnce == Hydrate!ShownOnce

\* A turn that the agent started is shown once nothing is under way.
StartedIsShown == Hydrate!StartedIsShown

\* A phone that believes its push token is registered is right.
RegistrationFollowsSignIn == Push!RegistrationFollowsSignIn

\* A finished turn is shown as finished, with its items, once nothing is under way.
EndIsShown == Timeline!EndIsShown
=============================================================================
