------------------------- MODULE PushRegistrations -------------------------
(***************************************************************************)
(* Which push token belongs to which user: the calls in which a phone      *)
(* registers and unregisters its native token, the push_registrations rows *)
(* they write, and the notifications that read the rows and deactivate     *)
(* those whose token the push service refuses.                             *)
(*                                                                         *)
(* One phone, which may be signed out and in as another user, restarted,   *)
(* or given another token by its system.  It starts a registration without *)
(* waiting for it, so that its calls may overlap one another and a         *)
(* sign-out.  Every await is a step boundary.                              *)
(***************************************************************************)
EXTENDS Integers, FiniteSets

CONSTANTS
  Users, None,
  Calls,       \* calls of the phone under way at the same time
  Notices,     \* notifications of control-api, likewise
  MaxToken,    \* bound on the tokens the phone is given
  MaxSignIns,  \* bound on its sign-ins
  MaxChanges   \* bound on plan changes, failures, restarts and notifications

VARIABLES
  native,      \* the token of the phone
  signedIn,    \* the user signed in on it, or None
  signIns,     \* sign-ins so far
  registered,  \* its _registeredPushToken, or 0
  leaving,     \* where logout stands
  call,        \* calls of the phone
  entitled,    \* users whose plan includes push notifications
  owner,       \* push_registrations: the user of a token, or None without a row
  active,      \*   and the tokens whose status is "active"
  notice,      \* notifications: where one stands, and the tokens it deals with
  rejected,    \* tokens that were deactivated because the push service refused them
  crossed,     \* a call of the phone overlapped another one, or outlived its sign-in
  changes

Token == 1 .. MaxToken

phoneVars  == <<native, signedIn, signIns, registered, leaving>>
rowVars    == <<owner, active>>
noticeVars == <<notice, rejected>>
pushVars   == <<phoneVars, call, entitled, rowVars, noticeVars, crossed, changes>>

Free == [op |-> "none", at |-> "free", user |-> None, token |-> 0, signIn |-> 0]
CallRecord == [op : {"none", "register", "unregister", "logout"},
               at : {"free", "reading", "sent", "checked", "upserted", "done", "refused"},
               user : Users \union {None}, token : 0 .. MaxToken, signIn : 0 .. MaxSignIns]
Silent == [at |-> "idle", tokens |-> {}]

Change == changes < MaxChanges /\ changes' = changes + 1

-----------------------------------------------------------------------------
(* The phone: syncNativePushRegistration and logout.                        *)

InFlight == {c \in Calls : call[c].at \notin {"free", "reading"}}

\* The phone no longer waits for the answer of a call with signIn 0.
Heard(c) == call[c].signIn # 0
Stale(c) == call[c].signIn # signIns \/ signedIn = None

Put(c, op, at, token) ==
  call' = [call EXCEPT ![c] = [op |-> op, at |-> at, user |-> signedIn, token |-> token,
                               signIn |-> signIns]]

\* Who is signed in is read, and the plan that control-api has just reported.
Sync(c) ==
  /\ signedIn # None
  /\ call[c] = Free
  /\ \/ signedIn \in entitled /\ Put(c, "register", "reading", 0) /\ UNCHANGED crossed
     \/ /\ signedIn \notin entitled /\ registered # 0
        /\ Put(c, "unregister", "sent", registered)
        /\ crossed' = (crossed \/ InFlight # {})
  /\ UNCHANGED <<phoneVars, entitled, rowVars, noticeVars, changes>>

\* The native token is known: it is registered unless it already is.
SendRegister(c) ==
  /\ call[c].at = "reading"
  /\ IF registered = native
     THEN call' = [call EXCEPT ![c] = Free] /\ UNCHANGED crossed
     ELSE /\ call' = [call EXCEPT ![c].at = "sent", ![c].token = native]
          /\ crossed' = (crossed \/ InFlight # {} \/ Stale(c))
  /\ UNCHANGED <<phoneVars, entitled, rowVars, noticeVars, changes>>

\* A register call is answered, or refused; the answer counts whoever is signed in
\* by now.
RegisterAnswered(c) ==
  /\ call[c].op = "register" /\ call[c].at \in {"done", "refused"}
  /\ registered' = IF call[c].at = "done" /\ Heard(c) THEN call[c].token ELSE registered
  /\ call' = [call EXCEPT ![c] = Free]
  /\ UNCHANGED <<native, signedIn, signIns, leaving, entitled, rowVars, noticeVars, crossed,
                 changes>>

\* What follows an unregister call, whether it succeeded or failed.
AfterUnregister(c) ==
  IF Heard(c)
  THEN IF call[c].op = "logout"
       THEN leaving' = "clearing" /\ UNCHANGED registered
       ELSE registered' = 0 /\ UNCHANGED leaving
  ELSE UNCHANGED <<registered, leaving>>

AfterFailure(c) ==
  IF call[c].op = "register" THEN UNCHANGED <<registered, leaving>> ELSE AfterUnregister(c)

UnregisterAnswered(c) ==
  /\ call[c].op \in {"unregister", "logout"} /\ call[c].at = "done"
  /\ AfterUnregister(c)
  /\ call' = [call EXCEPT ![c] = Free]
  /\ UNCHANGED <<native, signedIn, signIns, entitled, rowVars, noticeVars, crossed, changes>>

\* logout: the token the phone believes registered is unregistered first.
Logout(c) ==
  /\ signedIn # None /\ leaving = "no"
  /\ call[c] = Free
  /\ IF registered = 0
     THEN leaving' = "clearing" /\ UNCHANGED call
     ELSE leaving' = "unregistering" /\ Put(c, "logout", "sent", registered)
  /\ crossed' = (crossed \/ InFlight # {})
  /\ UNCHANGED <<native, signedIn, signIns, registered, entitled, rowVars, noticeVars, changes>>

\* Mutant: the token stays registered for the next user.
LogoutEndsKeepingToken ==
  /\ leaving = "clearing"
  /\ signedIn' = None /\ leaving' = "no"
  /\ crossed' = (crossed \/ InFlight # {})
  /\ UNCHANGED <<native, signIns, registered, call, entitled, rowVars, noticeVars, changes>>

\* Then the state is cleared.
LogoutEnds ==
  /\ leaving = "clearing"
  /\ signedIn' = None /\ registered' = 0 /\ leaving' = "no"
  /\ crossed' = (crossed \/ InFlight # {})
  /\ UNCHANGED <<native, signIns, call, entitled, rowVars, noticeVars, changes>>

SignIn(u) ==
  /\ signedIn = None
  /\ signIns < MaxSignIns
  /\ signIns' = signIns + 1 /\ signedIn' = u
  /\ UNCHANGED <<native, registered, leaving, call, entitled, rowVars, noticeVars, crossed,
                 changes>>

\* The app restarts: what it had sent may still arrive.
PhoneRestarts ==
  /\ Change
  /\ registered' = 0 /\ leaving' = "no"
  /\ call' = [c \in Calls |-> IF c \in InFlight THEN [call[c] EXCEPT !.signIn = 0] ELSE Free]
  /\ UNCHANGED <<native, signedIn, signIns, entitled, rowVars, noticeVars, crossed>>

TokenRefreshed ==
  /\ native < MaxToken
  /\ native' = native + 1
  /\ UNCHANGED <<signedIn, signIns, registered, leaving, call, entitled, rowVars, noticeVars,
                 crossed, changes>>

\* The phone gives up on a call, which goes on in control-api.
AnswerIsLost(c) ==
  /\ Change
  /\ c \in InFlight /\ Heard(c)
  /\ call' = [call EXCEPT ![c].signIn = 0]
  /\ AfterFailure(c)
  /\ UNCHANGED <<native, signedIn, signIns, entitled, rowVars, noticeVars, crossed>>

-----------------------------------------------------------------------------
(* control-api: the calls.                                                  *)

PlanChanges(u) ==
  /\ Change
  /\ entitled' = IF u \in entitled THEN entitled \ {u} ELSE entitled \union {u}
  /\ UNCHANGED <<phoneVars, call, rowVars, noticeVars, crossed>>

\* POST /me/push/register: ensureEntitlementFeature.
EnsureEntitlement(c) ==
  /\ call[c].op = "register" /\ call[c].at = "sent"
  /\ call' = [call EXCEPT ![c].at = IF call[c].user \in entitled THEN "checked" ELSE "refused"]
  /\ UNCHANGED <<phoneVars, entitled, rowVars, noticeVars, crossed, changes>>

\* upsertPushRegistration: the row of the token, ...
UpsertRow(c) ==
  /\ call[c].at = "checked"
  /\ owner' = [owner EXCEPT ![call[c].token] = call[c].user]
  /\ active' = active \union {call[c].token}
  /\ call' = [call EXCEPT ![c].at = "upserted"]
  /\ UNCHANGED <<phoneVars, entitled, noticeVars, crossed, changes>>

\* ... then the other tokens of the user's device.
Supersede(c) ==
  /\ call[c].at = "upserted"
  /\ active' = {t \in active : owner[t] # call[c].user \/ t = call[c].token}
  /\ call' = [call EXCEPT ![c].at = "done"]
  /\ UNCHANGED <<phoneVars, entitled, owner, noticeVars, crossed, changes>>

\* deactivatePushRegistrations: the token, as long as it is the user's.
Deactivate(u, t) == active' = IF owner[t] = u THEN active \ {t} ELSE active

\* POST /me/push/unregister.
Unregister(c) ==
  /\ call[c].op \in {"unregister", "logout"} /\ call[c].at = "sent"
  /\ Deactivate(call[c].user, call[c].token)
  /\ call' = [call EXCEPT ![c].at = "done"]
  /\ UNCHANGED <<phoneVars, entitled, owner, noticeVars, crossed, changes>>

\* The call does not arrive, or control-api or a query of it fails.
CallFails(c) ==
  /\ Change
  /\ c \in InFlight
  /\ call' = [call EXCEPT ![c] = Free]
  /\ AfterFailure(c)
  /\ UNCHANGED <<native, signedIn, signIns, entitled, rowVars, noticeVars, crossed>>

-----------------------------------------------------------------------------
(* control-api: notifications.                                              *)

\* listActivePushRegistrations.
ActiveOf(u) == {t \in active : owner[t] = u}

\* emitMobileNotificationEvent, when the user's plan includes it.
Notify(n, u) ==
  /\ Change
  /\ notice[n] = Silent
  /\ u \in entitled
  /\ ActiveOf(u) # {}
  /\ notice' = [notice EXCEPT ![n] = [at |-> "sending", tokens |-> ActiveOf(u)]]
  /\ UNCHANGED <<phoneVars, call, entitled, rowVars, rejected, crossed>>

\* isInvalidDeviceTokenError: an old token is refused, and so is any token with a
\* message that the service finds invalid.
Refusable(targets, R) == R \subseteq targets /\ {t \in targets : t < native} \subseteq R

\* FirebasePushGateway.send waits for the answers to all its messages.
SendPush(n) ==
  /\ notice[n].at = "sending"
  /\ \E R \in SUBSET notice[n].tokens :
       /\ Refusable(notice[n].tokens, R)
       /\ notice' = [notice EXCEPT ![n] =
                       IF R = {} THEN Silent ELSE [at |-> "marking", tokens |-> R]]
  /\ UNCHANGED <<phoneVars, call, entitled, rowVars, rejected, crossed, changes>>

\* getFirebaseAccessToken fails: nothing is sent.
NoAccessToken(n) ==
  /\ notice[n].at = "sending"
  /\ notice' = [notice EXCEPT ![n] = Silent]
  /\ UNCHANGED <<phoneVars, call, entitled, rowVars, rejected, crossed, changes>>

\* markPushRegistrationInvalid, for each of the rows.
MarkInvalid(n, t) ==
  /\ notice[n].at = "marking" /\ t \in notice[n].tokens
  /\ active' = active \ {t}
  /\ rejected' = rejected \union {t}
  /\ notice' = [notice EXCEPT ![n] = IF @.tokens = {t} THEN Silent
                       ELSE [at |-> "marking", tokens |-> @.tokens \ {t}]]
  /\ UNCHANGED <<phoneVars, call, entitled, owner, crossed, changes>>

-----------------------------------------------------------------------------
Init ==
  /\ native = 1 /\ signedIn = None /\ signIns = 0 /\ registered = 0 /\ leaving = "no"
  /\ call = [c \in Calls |-> Free]
  /\ entitled = Users
  /\ owner = [t \in Token |-> None] /\ active = {}
  /\ notice = [n \in Notices |-> Silent]
  /\ rejected = {} /\ crossed = FALSE /\ changes = 0

Next ==
  \/ \E c \in Calls :
       \/ Sync(c) \/ SendRegister(c) \/ RegisterAnswered(c) \/ UnregisterAnswered(c)
       \/ Logout(c) \/ AnswerIsLost(c) \/ CallFails(c)
       \/ EnsureEntitlement(c) \/ UpsertRow(c) \/ Supersede(c) \/ Unregister(c)
  \/ LogoutEnds \/ PhoneRestarts \/ TokenRefreshed
  \/ \E u \in Users : SignIn(u) \/ PlanChanges(u)
  \/ \E n \in Notices :
       \/ SendPush(n) \/ NoAccessToken(n)
       \/ \E u \in Users : Notify(n, u)
       \/ \E t \in Token : MarkInvalid(n, t)

Spec == Init /\ [][Next]_pushVars

-----------------------------------------------------------------------------
TypeOK ==
  /\ native \in Token /\ signedIn \in Users \union {None} /\ signIns \in 0 .. MaxSignIns
  /\ registered \in 0 .. MaxToken /\ leaving \in {"no", "unregistering", "clearing"}
  /\ call \in [Calls -> CallRecord]
  /\ entitled \subseteq Users
  /\ owner \in [Token -> Users \union {None}] /\ active \subseteq Token
  /\ notice \in [Notices -> [at : {"idle", "sending", "marking"}, tokens : SUBSET Token]]
  /\ rejected \subseteq Token /\ crossed \in BOOLEAN /\ changes \in 0 .. MaxChanges

\* A phone that believes its token is registered is right: the row is active and belongs
\* to whoever is signed in, however tokens, plans and users changed and whatever calls
\* and answers were lost, once nothing of its own is under way.  The exceptions: calls
\* that overlapped one another or a sign-out, and a token the push service refused.
RegistrationFollowsSignIn ==
  (/\ ~crossed /\ InFlight = {} /\ leaving = "no"
   /\ registered = native /\ native \notin rejected) =>
    signedIn # None /\ native \in active /\ owner[native] = signedIn
=============================================================================
