---------------------------- MODULE DeviceLogin ----------------------------
(***************************************************************************)
(* How a computer, or the mobile app itself, signs in with a device code.  *)
(* `nomade-agent login` starts a code in mode scan_secure, polls it, and   *)
(* hands the root key, encrypted for the phone that scanned the code, to   *)
(* control-api; the phone fetches that bundle, decrypts it and             *)
(* acknowledges, which approves the code; the next poll consumes the       *)
(* approved code and receives the tokens.  A code of mode legacy is        *)
(* approved in the browser.                                                *)
(*                                                                         *)
(* Several phones may scan one code, a phone may start over at any point   *)
(* with a fresh exchange key, requests of different actors interleave, and *)
(* a request that is under way may fail.  An exchange key pair is the      *)
(* attempt it was generated for.  Rate limiting only repeats a request and *)
(* is left out.                                                            *)
(***************************************************************************)
EXTENDS Integers, FiniteSets

CONSTANTS
  Codes,        \* device codes; each is started by one login command
  Phones,
  Users,
  OwnerOf(_),   \* the user signed in on a phone
  None,
  MaxAttempts,  \* bound on the scans of one phone
  MaxBroken     \* bound on login commands that end with a failed request

VARIABLES
  dcStatus, dcUser, consumed, expired,   \* device_codes: status, user_id, consumed_at, expires_at
  mode,         \* device_scan_flows: mode,
  mobileUser, mobileKey, hostBundle,   \*   mobile_user_id, the mobile_* keys, host_bundle
  userDevice,   \* user_devices: the user a phone is registered for
  login,        \* where the login command of a code stands
  answer,       \* the answer to its last poll
  peer,         \* its mobilePeer
  hostBundleSent,
  session,      \* the session it saved: the user the tokens are for and its peer
  scan,         \* where approveSecureScan stands on a phone
  scanned,      \* the code it scans
  attempt,      \* the exchange key pair of its current scan
  rootKeys,     \* the codes whose root key the phone has decrypted and saved
  broken        \* the codes whose login command ended with a failed request

rowVars   == <<dcStatus, dcUser, consumed, expired>>
flowVars  == <<mode, mobileUser, mobileKey, hostBundle>>
hostVars  == <<login, answer, peer, hostBundleSent, session>>
phoneVars == <<scan, scanned, attempt, rootKeys>>
vars == <<rowVars, flowVars, userDevice, hostVars, phoneVars, broken>>

Mode       == {"legacy", "scan_secure"}
CodeStatus == {"none", "pending", "pending_key_exchange", "approved"}
LoginState == {"none", "waiting", "consuming", "answered", "checking", "storing",
               "done", "failed"}
ScanState  == {"idle", "waiting", "holding", "acked", "failed"}
Key        == [phone : Phones, n : 1 .. MaxAttempts]
NoKey      == [phone |-> None, n |-> 0]
Answer     == [status : {"none", "pending", "pending_key_exchange", "expired", "null"},
               user : {None}, key : Key \union {NoKey}]
              \union [status : {"ok"}, user : Users, key : {NoKey}]
NoAnswer   == [status |-> "none", user |-> None, key |-> NoKey]
Session    == [user : Users, peer : Phones \union {None}]
NoSession  == [user |-> None, peer |-> None]

-----------------------------------------------------------------------------
(* What the rows of a code say.                                             *)

\* Mutant: an approved code is reported with the key of its flow, not its user.
PollStateWithoutUser(c) ==
  [NoAnswer EXCEPT !.status = CASE expired[c] -> "expired"
                                [] ~expired[c] /\ dcStatus[c] = "approved" -> "ok"
                                [] OTHER -> "pending"]

\* consumeDeviceCodePollState up to its update: what a poll reads.
PollState(c) ==
  LET said(s) == [NoAnswer EXCEPT !.status = s]
  IN  CASE expired[c] -> said("expired")
        [] ~expired[c] /\ dcStatus[c] = "pending_key_exchange" ->
             [said("pending_key_exchange") EXCEPT !.key = mobileKey[c]]
        [] ~expired[c] /\ dcStatus[c] = "pending" -> said("pending")
        [] ~expired[c] /\ dcStatus[c] = "approved" ->
             IF consumed[c] THEN said("null")
             ELSE [said("ok") EXCEPT !.user = dcUser[c]]

\* createDeviceCode: one transaction inserts both rows.
CreateDeviceCode(c, m) ==
  /\ dcStatus' = [dcStatus EXCEPT ![c] = "pending"]
  /\ mode' = [mode EXCEPT ![c] = m]
  /\ UNCHANGED <<dcUser, consumed, expired, mobileUser, mobileKey, hostBundle>>

\* Mutant: the browser may approve a code of any mode.
BrowserMayApproveAny(c) == dcStatus[c] \in {"pending", "pending_key_exchange"} /\ ~expired[c]

BrowserMayApprove(c) ==
  /\ dcStatus[c] \in {"pending", "pending_key_exchange"}
  /\ ~expired[c]
  /\ mode[c] = "legacy"

Approve(c, u) ==
  /\ dcStatus' = [dcStatus EXCEPT ![c] = "approved"]
  /\ dcUser' = [dcUser EXCEPT ![c] = u]
  /\ UNCHANGED <<consumed, expired, flowVars>>

\* approveScanByMobile: it does not look at the state the code is in.
ApproveScanByMobile(c, p, key) ==
  /\ userDevice' = [userDevice EXCEPT ![p] = OwnerOf(p)]
  /\ mobileUser' = [mobileUser EXCEPT ![c] = OwnerOf(p)]
  /\ mobileKey' = [mobileKey EXCEPT ![c] = key]
  /\ dcUser' = [dcUser EXCEPT ![c] = OwnerOf(p)]
  /\ dcStatus' = [dcStatus EXCEPT ![c] = "pending_key_exchange"]
  /\ UNCHANGED <<consumed, expired, mode, hostBundle>>

StoreScanHostBundle(c, key) ==
  /\ hostBundle' = [hostBundle EXCEPT ![c] = key]
  /\ UNCHANGED <<mode, mobileUser, mobileKey>>

\* Mutant: the acknowledgement is accepted from any user.
MayAcknowledgeAny(p, c) == ~expired[c] /\ hostBundle[c] # NoKey

\* The checks of the route and the conditions of acknowledgeScanKeyExchange.
MayAcknowledge(p, c) ==
  /\ ~expired[c]
  /\ mobileUser[c] = OwnerOf(p)
  /\ hostBundle[c] # NoKey

\* resolveScanFlow: the payload or the short code leads to a secure scan's rows.
ResolveScanFlow(c) == dcStatus[c] # "none" /\ mode[c] = "scan_secure"

-----------------------------------------------------------------------------
(* The login command: loginWithDeviceCode and, for a legacy code, the app's *)
(* waitForBrowserApproval.                                                  *)

\* POST /auth/device/start.
StartDeviceCode(c, m) ==
  /\ login[c] = "none"
  /\ CreateDeviceCode(c, m)
  /\ login' = [login EXCEPT ![c] = "waiting"]
  /\ UNCHANGED <<userDevice, answer, peer, hostBundleSent, session, phoneVars, broken>>

\* POST /auth/device/poll reads the rows; an approved code is consumed by a
\* statement of its own.
Poll(c) ==
  /\ login[c] = "waiting"
  /\ answer' = [answer EXCEPT ![c] = PollState(c)]
  /\ login' = [login EXCEPT ![c] = IF PollState(c).status = "ok" THEN "consuming"
                                   ELSE "answered"]
  /\ UNCHANGED <<rowVars, flowVars, userDevice, peer, hostBundleSent, session,
                 phoneVars, broken>>

\* consumed_at is set, and the tokens are issued for the user that was read.
ConsumeCode(c) ==
  /\ login[c] = "consuming"
  /\ consumed' = [consumed EXCEPT ![c] = TRUE]
  /\ login' = [login EXCEPT ![c] = "answered"]
  /\ UNCHANGED <<dcStatus, dcUser, expired, flowVars, userDevice, answer, peer,
                 hostBundleSent, session, phoneVars, broken>>

\* Mutant: the bundle is sent again for every key the phone presents.
NeedsBundleEveryTime(c) == answer[c].key # NoKey

\* The bundle is built once, for the exchange key of the poll that is answered.
NeedsBundle(c) == ~hostBundleSent[c] /\ answer[c].key # NoKey

\* The peer that is saved is the phone of the latest key exchange that was seen.
ReceiveKeyExchange(c) ==
  /\ login[c] = "answered"
  /\ answer[c].status = "pending_key_exchange"
  /\ peer' = [peer EXCEPT ![c] = answer[c].key.phone]
  /\ login' = [login EXCEPT ![c] = IF NeedsBundle(c) THEN "checking" ELSE "waiting"]
  /\ UNCHANGED <<rowVars, flowVars, userDevice, answer, hostBundleSent, session,
                 phoneVars, broken>>

\* The poll says that nothing has happened yet, or that the code is over.
ReceiveOther(c) ==
  /\ login[c] = "answered"
  /\ answer[c].status \in {"pending", "null", "expired"}
  /\ login' = [login EXCEPT ![c] = IF answer[c].status = "expired" THEN "failed"
                                   ELSE "waiting"]
  /\ UNCHANGED <<rowVars, flowVars, userDevice, answer, peer, hostBundleSent, session,
                 phoneVars, broken>>

\* The tokens are saved together with the peer.
SaveSession(c) ==
  /\ login[c] = "answered"
  /\ answer[c].status = "ok"
  /\ session' = [session EXCEPT ![c] = [user |-> answer[c].user, peer |-> peer[c]]]
  /\ login' = [login EXCEPT ![c] = "done"]
  /\ UNCHANGED <<rowVars, flowVars, userDevice, answer, peer, hostBundleSent,
                 phoneVars, broken>>

\* POST /auth/device/scan-host-complete looks at the state of the code first,
\* with the function that also consumes an approved code.
HostComplete(c) ==
  /\ login[c] = "checking"
  /\ LET state == PollState(c).status
     IN  /\ login' = [login EXCEPT ![c] =
                        IF state = "pending_key_exchange" THEN "storing" ELSE "failed"]
         /\ consumed' = [consumed EXCEPT ![c] = @ \/ state = "ok"]
  /\ UNCHANGED <<dcStatus, dcUser, expired, flowVars, userDevice, answer, peer,
                 hostBundleSent, session, phoneVars, broken>>

\* storeScanHostBundle, unless the code has expired meanwhile.
StoreHostBundle(c) ==
  /\ login[c] = "storing"
  /\ IF expired[c]
     THEN /\ login' = [login EXCEPT ![c] = "failed"]
          /\ UNCHANGED <<flowVars, hostBundleSent>>
     ELSE /\ StoreScanHostBundle(c, answer[c].key)
          /\ hostBundleSent' = [hostBundleSent EXCEPT ![c] = TRUE]
          /\ login' = [login EXCEPT ![c] = "waiting"]
  /\ UNCHANGED <<rowVars, userDevice, answer, peer, session,
                 phoneVars, broken>>

\* A request of the command fails after the server handled it or before: the
\* command ends, and what the server has done stays.
LoginRequestFails(c) ==
  /\ login[c] \in {"waiting", "answered", "checking", "storing"}
  /\ Cardinality(broken) < MaxBroken
  /\ broken' = broken \union {c}
  /\ login' = [login EXCEPT ![c] = "failed"]
  /\ UNCHANGED <<rowVars, flowVars, userDevice, answer, peer, hostBundleSent, session,
                 phoneVars>>

-----------------------------------------------------------------------------
(* The browser, and time.                                                   *)

\* POST /auth/device/approve, and POST /web/activate likewise.
ApproveDeviceCode(c, u) ==
  /\ BrowserMayApprove(c)
  /\ Approve(c, u)
  /\ UNCHANGED <<userDevice, hostVars, phoneVars, broken>>

Expire(c) ==
  /\ dcStatus[c] # "none"
  /\ ~expired[c]
  /\ expired' = [expired EXCEPT ![c] = TRUE]
  /\ UNCHANGED <<dcStatus, dcUser, consumed, flowVars, userDevice, hostVars, phoneVars,
                 broken>>

-----------------------------------------------------------------------------
(* approveSecureScan on a phone and the routes it calls.                    *)

\* POST /auth/device/scan-approve.  A scan that was broken off is taken up again
\* from its saved payload, with a new exchange key.
ScanApprove(p, c) ==
  /\ scan[p] \in {"idle", "failed"}
  /\ attempt[p] < MaxAttempts
  /\ ResolveScanFlow(c)
  /\ ~expired[c]
  /\ ApproveScanByMobile(c, p, [phone |-> p, n |-> attempt[p] + 1])
  /\ scan' = [scan EXCEPT ![p] = "waiting"]
  /\ scanned' = [scanned EXCEPT ![p] = c]
  /\ attempt' = [attempt EXCEPT ![p] = @ + 1]
  /\ UNCHANGED <<hostVars, rootKeys, broken>>

\* The route has an answer other than "not ready yet".
HostBundleAnswered(p, c) ==
  hostBundle[c] # NoKey \/ expired[c] \/ mobileUser[c] # OwnerOf(p)

Decryptable(p, c) ==
  /\ ~expired[c]
  /\ mobileUser[c] = OwnerOf(p)
  /\ hostBundle[c] = [phone |-> p, n |-> attempt[p]]

\* POST /auth/device/scan-mobile-ack without ack, answered with the bundle.  A
\* bundle for another exchange key cannot be decrypted and ends the scan.
FetchHostBundle(p) ==
  LET c == scanned[p]
  IN  /\ scan[p] = "waiting"
      /\ HostBundleAnswered(p, c)
      /\ scan' = [scan EXCEPT ![p] = IF Decryptable(p, c) THEN "holding" ELSE "failed"]
      /\ rootKeys' = [rootKeys EXCEPT ![p] = IF Decryptable(p, c) THEN @ \union {c} ELSE @]
      /\ UNCHANGED <<rowVars, flowVars, userDevice, hostVars, scanned, attempt, broken>>

\* POST /auth/device/scan-mobile-ack with ack: acknowledgeScanKeyExchange.
Acknowledge(p) ==
  LET c == scanned[p]
  IN  /\ scan[p] = "holding"
      /\ IF MayAcknowledge(p, c)
         THEN Approve(c, OwnerOf(p)) /\ scan' = [scan EXCEPT ![p] = "acked"]
         ELSE UNCHANGED <<rowVars, flowVars>> /\ scan' = [scan EXCEPT ![p] = "failed"]
      /\ UNCHANGED <<userDevice, hostVars, scanned, attempt, rootKeys, broken>>

\* The app is closed, or gives up after 120 s; the pending scan stays saved.
BreakOffScan(p) ==
  /\ scan[p] \in {"waiting", "holding"}
  /\ scan' = [scan EXCEPT ![p] = "failed"]
  /\ UNCHANGED <<rowVars, flowVars, userDevice, hostVars, scanned, attempt, rootKeys,
                 broken>>

-----------------------------------------------------------------------------
Init ==
  /\ dcStatus = [c \in Codes |-> "none"]
  /\ dcUser = [c \in Codes |-> None]
  /\ consumed = [c \in Codes |-> FALSE]
  /\ expired = [c \in Codes |-> FALSE]
  /\ mode = [c \in Codes |-> "none"]
  /\ mobileUser = [c \in Codes |-> None]
  /\ mobileKey = [c \in Codes |-> NoKey]
  /\ hostBundle = [c \in Codes |-> NoKey]
  /\ userDevice = [p \in Phones |-> None]
  /\ login = [c \in Codes |-> "none"]
  /\ answer = [c \in Codes |-> NoAnswer]
  /\ peer = [c \in Codes |-> None]
  /\ hostBundleSent = [c \in Codes |-> FALSE]
  /\ session = [c \in Codes |-> NoSession]
  /\ scan = [p \in Phones |-> "idle"]
  /\ scanned = [p \in Phones |-> None]
  /\ attempt = [p \in Phones |-> 0]
  /\ rootKeys = [p \in Phones |-> {}]
  /\ broken = {}

\* Steps of a command that runs and of the request handlers it waits for.
LoginStep(c) ==
  \/ Poll(c)
  \/ ConsumeCode(c)
  \/ ReceiveKeyExchange(c)
  \/ ReceiveOther(c)
  \/ SaveSession(c)
  \/ HostComplete(c)
  \/ StoreHostBundle(c)

Next ==
  \/ \E c \in Codes :
       \/ \E m \in Mode : StartDeviceCode(c, m)
       \/ LoginStep(c)
       \/ LoginRequestFails(c)
       \/ \E u \in Users : ApproveDeviceCode(c, u)
       \/ Expire(c)
  \/ \E p \in Phones :
       \/ \E c \in Codes : ScanApprove(p, c)
       \/ FetchHostBundle(p)
       \/ Acknowledge(p)
       \/ BreakOffScan(p)

Spec == Init /\ [][Next]_vars

\* The command loops until it is done or fails, and control-api answers.
FairSpec == Spec /\ \A c \in Codes : WF_vars(LoginStep(c))

-----------------------------------------------------------------------------
TypeOK ==
  /\ dcStatus \in [Codes -> CodeStatus]
  /\ dcUser \in [Codes -> Users \union {None}]
  /\ consumed \in [Codes -> BOOLEAN]
  /\ expired \in [Codes -> BOOLEAN]
  /\ mode \in [Codes -> Mode \union {"none"}]
  /\ mobileUser \in [Codes -> Users \union {None}]
  /\ mobileKey \in [Codes -> Key \union {NoKey}]
  /\ hostBundle \in [Codes -> Key \union {NoKey}]
  /\ userDevice \in [Phones -> Users \union {None}]
  /\ login \in [Codes -> LoginState]
  /\ answer \in [Codes -> Answer]
  /\ peer \in [Codes -> Phones \union {None}]
  /\ hostBundleSent \in [Codes -> BOOLEAN]
  /\ session \in [Codes -> Session \union {NoSession}]
  /\ scan \in [Phones -> ScanState]
  /\ scanned \in [Phones -> Codes \union {None}]
  /\ attempt \in [Phones -> 0 .. MaxAttempts]
  /\ rootKeys \in [Phones -> SUBSET Codes]
  /\ broken \in SUBSET Codes

\* A computer is signed in by a secure scan only as a user one of whose phones
\* has decrypted the root key of that login and is registered as the user's
\* device, however many phones scan the code and whatever they do at once.
KeyHolderSignsIn ==
  \A c \in Codes :
    session[c] # NoSession /\ mode[c] = "scan_secure" =>
      \E p \in Phones : /\ OwnerOf(p) = session[c].user
                        /\ userDevice[p] = session[c].user
                        /\ c \in rootKeys[p]

\* The peer a session trusts, taken from an earlier poll than its tokens, is a
\* phone of the user that holds the root key, even when phones of other users
\* scanned the code in between -- provided the user scanned with one phone only.
\* (With two, the first can acknowledge after others have scanned.)
PeerHoldsKey ==
  \A c \in Codes :
    session[c] # NoSession /\ session[c].peer # None =>
      \/ OwnerOf(session[c].peer) = session[c].user /\ c \in rootKeys[session[c].peer]
      \/ \E p, q \in Phones : /\ p # q /\ attempt[p] > 0 /\ attempt[q] > 0
                              /\ OwnerOf(p) = session[c].user
                              /\ OwnerOf(q) = session[c].user

\* An approved code ends in a saved session: the only ways out are that it
\* expires, that a phone scans it anew, and that a request of the login fails.
ApprovedIsRedeemed ==
  \A c \in Codes :
    dcStatus[c] = "approved" /\ login[c] # "failed"
      ~> \/ session[c] # NoSession
         \/ expired[c]
         \/ dcStatus[c] = "pending_key_exchange"
         \/ c \in broken
=============================================================================
