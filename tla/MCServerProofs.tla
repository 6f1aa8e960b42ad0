--------------------------- MODULE MCServerProofs ---------------------------
(***************************************************************************)
(* What is proved of the records of control-api: an inductive invariant of *)
(* each component, one part of this module for each, and at the end that   *)
(* the runs' properties hold of all of them together, for every value of   *)
(* the constants.                                                          *)
(***************************************************************************)
EXTENDS MCServer, FiniteSetTheorems, SequenceTheorems, TLAPS

-----------------------------------------------------------------------------
(* Signing a computer in.                                                   *)

LoginBounds ==
  /\ MaxAttempts \in Nat
  /\ None \notin Phones /\ None \notin Users /\ None \notin Codes
  /\ \A p \in Phones : MCOwnerOf(p) \in Users

\* An exchange key that some phone has generated.
KeyMade(key) == key \in Login!Key /\ key.n <= attempt[key.phone]

\* A code is in use once its login command has started; only a secure scan has a peer.
CodeStarts(c) ==
  /\ login[c] = "none" <=> mode[c] = "none"
  /\ login[c] = "none" <=> dcStatus[c] = "none"
  /\ login[c] = "none" => answer[c] = Login!NoAnswer /\ session[c] = Login!NoSession
  /\ mode[c] # "scan_secure" =>
       /\ dcStatus[c] # "pending_key_exchange" /\ answer[c].status # "pending_key_exchange"
       /\ peer[c] = None /\ session[c].peer = None

\* The key on file is that of the last phone that scanned the code, and is its newest
\* unless the phone has scanned another code since.
KeyOnFile(c) ==
  /\ dcStatus[c] = "pending_key_exchange" => mobileUser[c] # None
  /\ mobileUser[c] # None =>
       /\ KeyMade(mobileKey[c]) /\ MCOwnerOf(mobileKey[c].phone) = mobileUser[c]
       /\ scanned[mobileKey[c].phone] = c => mobileKey[c].n = attempt[mobileKey[c].phone]
  /\ dcStatus[c] = "approved" => dcUser[c] \in Users

\* The command builds one bundle, for the key and the peer of an answer it received.
OneBundle(c) ==
  /\ hostBundleSent[c] <=> hostBundle[c] # Login!NoKey
  /\ hostBundle[c] # Login!NoKey => KeyMade(hostBundle[c])
  /\ answer[c].status = "pending_key_exchange" =>
       /\ KeyMade(answer[c].key)
       /\ login[c] \notin {"answered", "failed"} => peer[c] = answer[c].key.phone
  /\ login[c] \in {"checking", "storing"} =>
       ~hostBundleSent[c] /\ answer[c].status = "pending_key_exchange"

\* A phone that holds the bundle of a code has decrypted it.
ScanHolds(p) ==
  /\ scan[p] \in {"waiting", "holding"} =>
       /\ scanned[p] \in Codes /\ mode[scanned[p]] = "scan_secure"
       /\ userDevice[p] = MCOwnerOf(p) /\ attempt[p] > 0
  /\ scan[p] = "holding" =>
       /\ hostBundle[scanned[p]] = [phone |-> p, n |-> attempt[p]]
       /\ scanned[p] \in rootKeys[p]

\* No other phone of its user has scanned anything.
Sole(p) == \A q \in Phones : (MCOwnerOf(q) = MCOwnerOf(p) /\ attempt[q] > 0) => q = p

\* The peer of the command once it has handled its last answer.
PeerToBe(c) ==
  IF answer[c].status = "pending_key_exchange" THEN answer[c].key.phone ELSE peer[c]

\* A phone of user u holds the root key, and is the peer b unless another phone of u
\* scans, too.
Holder(c, u, b) ==
  \E p \in Phones :
    /\ MCOwnerOf(p) = u /\ userDevice[p] = u /\ c \in rootKeys[p] /\ attempt[p] > 0
    /\ Sole(p) => b = p

\* The phone whose newest key the bundle is for is the peer, as long as nobody else has
\* scanned the code.
BundleIsForPeer(c) ==
  \A p \in Phones :
    (/\ hostBundle[c] = [phone |-> p, n |-> attempt[p]] /\ scanned[p] = c
     /\ mobileUser[c] = MCOwnerOf(p) /\ Sole(p)) => PeerToBe(c) = p

\* From the approval to the session, a phone of the user holds the root key.
HolderApproves(c) ==
  mode[c] = "scan_secure" =>
    /\ dcStatus[c] = "approved" => Holder(c, dcUser[c], PeerToBe(c))
    /\ answer[c].status = "ok" => Holder(c, answer[c].user, peer[c])
    /\ session[c] # Login!NoSession => Holder(c, session[c].user, session[c].peer)

CodeInv(c) ==
  CodeStarts(c) /\ KeyOnFile(c) /\ OneBundle(c) /\ BundleIsForPeer(c) /\ HolderApproves(c)
LoginInv == Login!TypeOK /\ (\A c \in Codes : CodeInv(c)) /\ (\A p \in Phones : ScanHolds(p))

\* Keys are told apart from the lack of one, and the polls are answered in form.
LEMMA KeyTypes ==
  ASSUME LoginBounds
  PROVE  /\ Login!NoKey \notin Login!Key
         /\ \A key \in Login!Key : key.phone \in Phones /\ key.n \in 1 .. MaxAttempts /\ key.n \in Nat
         /\ \A p \in Phones, n \in 1 .. MaxAttempts :
              /\ [phone |-> p, n |-> n] \in Login!Key
              /\ [phone |-> p, n |-> n].phone = p /\ [phone |-> p, n |-> n].n = n
  BY DEF Login!NoKey, Login!Key, LoginBounds

\* What a poll is answered is an answer.
LEMMA PollTypes ==
  ASSUME LoginBounds, LoginInv, NEW c \in Codes, dcStatus[c] # "none"
  PROVE  /\ Login!PollState(c) \in Login!Answer
         /\ Login!PollState(c).status = "pending_key_exchange" =>
              dcStatus[c] = "pending_key_exchange" /\ Login!PollState(c).key = mobileKey[c]
         /\ Login!PollState(c).status = "ok" =>
              dcStatus[c] = "approved" /\ Login!PollState(c).user = dcUser[c]
<1>1. Login!TypeOK /\ CodeInv(c)
  BY DEF LoginInv
<1>2. /\ dcStatus[c] \in Login!CodeStatus /\ expired[c] \in BOOLEAN
      /\ mobileKey[c] \in Login!Key \union {Login!NoKey}
  BY <1>1 DEF Login!TypeOK
<1>3. dcStatus[c] = "approved" => dcUser[c] \in Users
  BY <1>1 DEF CodeInv, KeyOnFile
<1> DEFINE said(s) == [status |-> s, user |-> None, key |-> Login!NoKey]
<1>4. CASE expired[c]
  <2>1. Login!PollState(c) = said("expired")
    BY <1>4 DEF Login!PollState, Login!NoAnswer
  <2> QED
    BY <2>1 DEF Login!Answer
<1>5. CASE ~expired[c] /\ dcStatus[c] = "pending_key_exchange"
  <2>1. Login!PollState(c) = [status |-> "pending_key_exchange", user |-> None, key |-> mobileKey[c]]
    BY <1>5 DEF Login!PollState, Login!NoAnswer
  <2> QED
    BY <1>2, <1>5, <2>1 DEF Login!Answer
<1>6. CASE ~expired[c] /\ dcStatus[c] = "pending"
  <2>1. Login!PollState(c) = said("pending")
    BY <1>6 DEF Login!PollState, Login!NoAnswer
  <2> QED
    BY <2>1 DEF Login!Answer
<1>7. CASE ~expired[c] /\ dcStatus[c] = "approved" /\ consumed[c]
  <2>1. Login!PollState(c) = said("null")
    BY <1>7 DEF Login!PollState, Login!NoAnswer
  <2> QED
    BY <2>1 DEF Login!Answer
<1>8. CASE ~expired[c] /\ dcStatus[c] = "approved" /\ ~consumed[c]
  <2>1. Login!PollState(c) = [status |-> "ok", user |-> dcUser[c], key |-> Login!NoKey]
    BY <1>8 DEF Login!PollState, Login!NoAnswer
  <2> QED
    BY <1>3, <1>8, <2>1 DEF Login!Answer
<1> QED
  BY <1>2, <1>4, <1>5, <1>6, <1>7, <1>8 DEF Login!CodeStatus

\* Nothing is written about a code.
SameCode(d) ==
  /\ dcStatus'[d] = dcStatus[d] /\ dcUser'[d] = dcUser[d] /\ mode'[d] = mode[d]
  /\ mobileUser'[d] = mobileUser[d] /\ mobileKey'[d] = mobileKey[d]
  /\ hostBundle'[d] = hostBundle[d]
  /\ login'[d] = login[d] /\ answer'[d] = answer[d] /\ peer'[d] = peer[d]
  /\ hostBundleSent'[d] = hostBundleSent[d] /\ session'[d] = session[d]

\* What holds of a code stays so when nothing is written about it and nothing scanned.
LEMMA OtherCode ==
  ASSUME LoginInv, NEW d \in Codes, SameCode(d), UNCHANGED <<scanned, attempt, userDevice>>,
         \A p \in Phones : rootKeys[p] \subseteq rootKeys'[p]
  PROVE  CodeInv(d)'
<1>1. CodeInv(d)
  BY DEF LoginInv
<1>2. CodeStarts(d)'
  BY <1>1 DEF CodeInv, CodeStarts, SameCode
<1>3. KeyOnFile(d)' /\ OneBundle(d)'
  BY <1>1 DEF CodeInv, KeyOnFile, OneBundle, KeyMade, SameCode
<1>4. BundleIsForPeer(d)'
  BY <1>1 DEF CodeInv, BundleIsForPeer, PeerToBe, Sole, SameCode
<1>5. HolderApproves(d)'
  BY <1>1 DEF CodeInv, HolderApproves, PeerToBe, Holder, Sole, SameCode
<1> QED
  BY <1>2, <1>3, <1>4, <1>5 DEF CodeInv

\* So does what holds of a phone, when it does nothing and its bundle is left alone.
LEMMA OtherPhone ==
  ASSUME LoginInv, NEW p \in Phones,
         scan'[p] = scan[p] \/ scan'[p] \notin {"waiting", "holding"},
         scanned'[p] = scanned[p], attempt'[p] = attempt[p], userDevice'[p] = userDevice[p],
         rootKeys[p] \subseteq rootKeys'[p],
         \A d \in Codes : mode[d] = "scan_secure" => mode'[d] = mode[d],
         \A d \in Codes : hostBundle[d] # Login!NoKey =>
           hostBundle'[d] = hostBundle[d], Login!NoKey \notin Login!Key,
         LoginBounds
  PROVE  ScanHolds(p)'
<1>1. ScanHolds(p)
  BY DEF LoginInv
<1>2. [phone |-> p, n |-> attempt[p]] # Login!NoKey
  BY DEF Login!NoKey, LoginBounds
<1> QED
  BY <1>1, <1>2 DEF ScanHolds

\* The login command of a code starts.
LEMMA StartKeepsLogin ==
  ASSUME LoginBounds, LoginInv, NEW c \in Codes, NEW m \in Login!Mode, Login!StartDeviceCode(c, m)
  PROVE  LoginInv'
<1> USE DEF Login!StartDeviceCode, Login!CreateDeviceCode, Login!phoneVars
<1>t. Login!TypeOK /\ CodeInv(c)
  BY DEF LoginInv
<1>1. /\ UNCHANGED <<dcUser, consumed, expired, mobileUser, mobileKey, hostBundle, userDevice,
                     answer, peer, hostBundleSent, session, scan, scanned, attempt, rootKeys, broken>>
      /\ login[c] = "none" /\ mode[c] = "none"
      /\ dcStatus' = [dcStatus EXCEPT ![c] = "pending"] /\ mode' = [mode EXCEPT ![c] = m]
      /\ login' = [login EXCEPT ![c] = "waiting"]
  BY <1>t DEF CodeInv, CodeStarts
<1>2. Login!TypeOK'
  <2>1. dcStatus' \in [Codes -> Login!CodeStatus]
    BY <1>1, <1>t DEF Login!TypeOK, Login!CodeStatus
  <2>2. mode' \in [Codes -> Login!Mode \union {"none"}]
    BY <1>1, <1>t DEF Login!TypeOK
  <2>3. login' \in [Codes -> Login!LoginState]
    BY <1>1, <1>t DEF Login!TypeOK, Login!LoginState
  <2> QED
    BY <1>1, <1>t, <2>1, <2>2, <2>3 DEF Login!TypeOK
<1>3. ASSUME NEW d \in Codes PROVE CodeInv(d)'
  <2>1. CASE d # c
    BY <2>1, <1>1, <1>t, OtherCode DEF SameCode, Login!TypeOK
  <2>2. CASE d = c
    <3>1. /\ dcStatus'[c] = "pending" /\ mode'[c] = m /\ login'[c] = "waiting"
          /\ answer[c] = Login!NoAnswer /\ session[c] = Login!NoSession /\ m # "none"
          /\ Login!NoAnswer.status = "none" /\ Login!NoSession.peer = None /\ peer[c] = None
      BY <1>1, <1>t DEF Login!TypeOK, CodeInv, CodeStarts, Login!Mode, Login!NoAnswer,
         Login!NoSession
    <3>2. CodeStarts(c)'
      BY <1>1, <3>1 DEF CodeStarts
    <3>3. KeyOnFile(c)' /\ OneBundle(c)'
      BY <1>1, <1>t, <3>1 DEF CodeInv, KeyOnFile, OneBundle, KeyMade
    <3>4. BundleIsForPeer(c)'
      BY <1>1, <1>t, <3>1 DEF CodeInv, BundleIsForPeer, PeerToBe, Sole
    <3>5. HolderApproves(c)'
      BY <1>1, <3>1 DEF HolderApproves
    <3> QED
      BY <2>2, <3>2, <3>3, <3>4, <3>5 DEF CodeInv
  <2> QED
    BY <2>1, <2>2
<1>4. ASSUME NEW p \in Phones PROVE ScanHolds(p)'
  BY <1>1, <1>t, OtherPhone, KeyTypes DEF Login!TypeOK
<1> QED
  BY <1>2, <1>3, <1>4 DEF LoginInv

\* A poll reads the rows.
LEMMA PollKeepsLogin ==
  ASSUME LoginBounds, LoginInv, NEW c \in Codes, Login!Poll(c)
  PROVE  LoginInv'
<1>t. Login!TypeOK /\ CodeInv(c)
  BY DEF LoginInv
<1> DEFINE said == Login!PollState(c)
<1>1. /\ UNCHANGED <<dcStatus, dcUser, consumed, expired, mode, mobileUser, mobileKey,
                      hostBundle,
                     userDevice, peer, hostBundleSent, session, scan, scanned, attempt, rootKeys, broken>>
      /\ login[c] = "waiting"
      /\ answer' = [answer EXCEPT ![c] = said]
      /\ login' = [login EXCEPT ![c] = IF said.status = "ok" THEN "consuming" ELSE "answered"]
  BY DEF Login!Poll, Login!rowVars, Login!flowVars, Login!phoneVars
<1>2. dcStatus[c] # "none"
  BY <1>1, <1>t DEF CodeInv, CodeStarts
<1>3. /\ said \in Login!Answer
      /\ said.status = "pending_key_exchange" =>
           dcStatus[c] = "pending_key_exchange" /\ said.key = mobileKey[c]
      /\ said.status = "ok" => dcStatus[c] = "approved" /\ said.user = dcUser[c]
  BY <1>2, PollTypes
<1> HIDE DEF said
<1>4. Login!TypeOK'
  <2>1. answer' \in [Codes -> Login!Answer]
    BY <1>1, <1>3, <1>t DEF Login!TypeOK
  <2>2. login' \in [Codes -> Login!LoginState]
    BY <1>1, <1>t DEF Login!TypeOK, Login!LoginState
  <2> QED
    BY <1>1, <1>t, <2>1, <2>2 DEF Login!TypeOK
<1>5. ASSUME NEW d \in Codes PROVE CodeInv(d)'
  <2>1. CASE d # c
    BY <2>1, <1>1, <1>t, OtherCode DEF SameCode, Login!TypeOK
  <2>2. CASE d = c
    <3>1. answer'[c] = said /\ login'[c] \in {"consuming", "answered"}
          /\ (login'[c] = "consuming" => said.status = "ok")
      BY <1>1, <1>t DEF Login!TypeOK
    <3>2. CodeStarts(c)'
      BY <1>1, <1>2, <1>3, <1>t, <3>1 DEF CodeInv, CodeStarts
    <3>3. KeyOnFile(c)'
      BY <1>1, <1>t DEF CodeInv, KeyOnFile, KeyMade
    <3>4. said.status = "pending_key_exchange" => KeyMade(mobileKey[c])
      BY <1>3, <1>t DEF CodeInv, KeyOnFile
    <3>5. OneBundle(c)'
      BY <1>1, <1>3, <1>t, <3>1, <3>4 DEF CodeInv, OneBundle, KeyMade
    <3>6. peer[c] = PeerToBe(c)
      BY <1>1, <1>t DEF CodeInv, OneBundle, PeerToBe
    <3>7. BundleIsForPeer(c)'
      <4> SUFFICES ASSUME NEW p \in Phones, hostBundle[c] = [phone |-> p, n |-> attempt[p]],
                          scanned[p] = c, mobileUser[c] = MCOwnerOf(p), Sole(p)
                   PROVE  PeerToBe(c)' = p
        BY <1>1 DEF BundleIsForPeer, Sole
      <4>1. PeerToBe(c) = p
        BY <1>t DEF CodeInv, BundleIsForPeer
      <4>2. CASE said.status = "pending_key_exchange"
        <5>1. mobileUser[c] # None
          BY LoginBounds DEF LoginBounds
        <5>2. mobileKey[c].phone \in Phones /\ attempt[mobileKey[c].phone] > 0
              /\ MCOwnerOf(mobileKey[c].phone) = MCOwnerOf(p)
          BY <5>1, <1>t, KeyTypes DEF CodeInv, KeyOnFile, KeyMade, Login!TypeOK
        <5>3. mobileKey[c].phone = p
          BY <5>2 DEF Sole
        <5> QED
          BY <4>2, <5>3, <3>1, <1>3 DEF PeerToBe
      <4>3. CASE said.status # "pending_key_exchange"
        BY <4>1, <4>3, <3>1, <3>6, <1>1 DEF PeerToBe
      <4> QED
        BY <4>2, <4>3
    <3>8. HolderApproves(c)'
      <4>1. dcStatus[c] = "approved" => PeerToBe(c)' = peer[c]
        BY <1>1, <1>3, <3>1 DEF PeerToBe
      <4>2. mode[c] = "scan_secure" =>
              /\ dcStatus[c] = "approved" => Holder(c, dcUser[c], peer[c])
              /\ session[c] # Login!NoSession => Holder(c, session[c].user, session[c].peer)
        BY <1>t, <3>6 DEF CodeInv, HolderApproves
      <4> QED
        BY <1>1, <1>3, <3>1, <4>1, <4>2 DEF HolderApproves, Holder, Sole
    <3> QED
      BY <2>2, <3>2, <3>3, <3>5, <3>7, <3>8 DEF CodeInv
  <2> QED
    BY <2>1, <2>2
<1>6. ASSUME NEW p \in Phones PROVE ScanHolds(p)'
  BY <1>1, <1>t, OtherPhone, KeyTypes DEF Login!TypeOK
<1> QED
  BY <1>4, <1>5, <1>6 DEF LoginInv

\* The command or the server handles an answer, up to the bundle.
LEMMA AnswerKeepsLogin ==
  ASSUME LoginBounds, LoginInv, NEW c \in Codes,
         \/ Login!ConsumeCode(c) \/ Login!ReceiveKeyExchange(c) \/ Login!ReceiveOther(c) \/ Login!SaveSession(c)
         \/ Login!HostComplete(c) \/ Login!LoginRequestFails(c)
  PROVE  LoginInv'
<1> USE DEF Login!ConsumeCode, Login!ReceiveKeyExchange, Login!ReceiveOther, Login!SaveSession,
            Login!HostComplete,
            Login!LoginRequestFails, Login!rowVars, Login!flowVars, Login!phoneVars
<1>t. Login!TypeOK /\ CodeInv(c)
  BY DEF LoginInv
<1>1. /\ UNCHANGED <<dcStatus, dcUser, expired, mode, mobileUser, mobileKey, hostBundle,
                     userDevice, answer, hostBundleSent, scan, scanned, attempt, rootKeys>>
      /\ login[c] # "none"
  OBVIOUS
<1>2. /\ consumed' \in [Codes -> BOOLEAN] /\ broken' \in SUBSET Codes
      /\ login' \in [Codes -> Login!LoginState] /\ login'[c] # "none"
      /\ \A d \in Codes \ {c} : login'[d] = login[d] /\ session'[d] = session[d] /\ peer'[d] = peer[d]
  <2>1. \E b \in BOOLEAN : consumed' = [consumed EXCEPT ![c] = b] \/ consumed' = consumed
    OBVIOUS
  <2>2. consumed' \in [Codes -> BOOLEAN]
    BY <2>1, <1>t DEF Login!TypeOK
  <2>3. \E s \in Login!LoginState \ {"none"} : login' = [login EXCEPT ![c] = s]
    BY DEF Login!LoginState
  <2>4. login' \in [Codes -> Login!LoginState] /\ login'[c] # "none"
        /\ \A d \in Codes \ {c} : login'[d] = login[d]
    BY <2>3, <1>t DEF Login!TypeOK
  <2>5. \A d \in Codes \ {c} : session'[d] = session[d] /\ peer'[d] = peer[d]
    BY <1>t DEF Login!TypeOK
  <2>6. broken' \in SUBSET Codes
    BY <1>t DEF Login!TypeOK
  <2> QED
    BY <2>2, <2>4, <2>5, <2>6
<1>3. CASE Login!ReceiveKeyExchange(c)
  <2>1. /\ UNCHANGED session /\ peer' = [peer EXCEPT ![c] = answer[c].key.phone]
        /\ answer[c].status = "pending_key_exchange"
        /\ login'[c] \in {"checking", "waiting"}
        /\ login'[c] = "checking" => ~hostBundleSent[c]
    BY <1>3, <1>t DEF Login!TypeOK, Login!NeedsBundle
  <2>2. KeyMade(answer[c].key) /\ answer[c].key.phone \in Phones
    BY <2>1, <1>t, KeyTypes DEF CodeInv, OneBundle, KeyMade
  <2>3. Login!TypeOK'
    BY <1>1, <1>2, <1>t, <2>1, <2>2 DEF Login!TypeOK
  <2>4. CodeInv(c)'
    <3>1. peer'[c] = answer[c].key.phone /\ PeerToBe(c)' = PeerToBe(c)
      BY <2>1, <1>1, <1>t DEF Login!TypeOK, PeerToBe
    <3>2. CodeStarts(c)'
      BY <1>1, <1>2, <1>t, <2>1 DEF CodeInv, CodeStarts
    <3>3. KeyOnFile(c)' /\ OneBundle(c)'
      BY <1>1, <1>t, <2>1, <3>1 DEF CodeInv, KeyOnFile, OneBundle, KeyMade
    <3>4. BundleIsForPeer(c)'
      BY <1>1, <1>t, <3>1 DEF CodeInv, BundleIsForPeer, Sole
    <3>5. HolderApproves(c)'
      BY <1>1, <1>t, <2>1, <3>1 DEF CodeInv, HolderApproves, Holder, Sole
    <3> QED
      BY <3>2, <3>3, <3>4, <3>5 DEF CodeInv
  <2> QED
    BY <1>1, <1>2, <1>t, <2>3, <2>4, OtherCode, OtherPhone, KeyTypes DEF LoginInv, SameCode,
       Login!TypeOK
<1>4. CASE Login!SaveSession(c)
  <2>1. /\ UNCHANGED peer /\ answer[c].status = "ok" /\ login'[c] = "done"
        /\ session' = [session EXCEPT ![c] = [user |-> answer[c].user, peer |-> peer[c]]]
    BY <1>4, <1>t DEF Login!TypeOK
  <2>2. answer[c].user \in Users /\ peer[c] \in Phones \union {None}
    BY <2>1, <1>t DEF Login!TypeOK, Login!Answer
  <2>3. Login!TypeOK'
    <3>1. session' \in [Codes -> Login!Session \union {Login!NoSession}]
      BY <2>1, <2>2, <1>t DEF Login!TypeOK, Login!Session
    <3> QED
      BY <1>1, <1>2, <1>t, <2>1, <3>1 DEF Login!TypeOK
  <2>4. CodeInv(c)'
    <3>1. session'[c].user = answer[c].user /\ session'[c].peer = peer[c]
      BY <2>1, <1>t DEF Login!TypeOK
    <3>2. CodeStarts(c)'
      BY <1>1, <1>2, <1>t, <2>1, <3>1 DEF CodeInv, CodeStarts
    <3>3. KeyOnFile(c)' /\ OneBundle(c)'
      BY <1>1, <1>t, <2>1 DEF CodeInv, KeyOnFile, OneBundle, KeyMade
    <3>4. BundleIsForPeer(c)'
      BY <1>1, <1>t, <2>1 DEF CodeInv, BundleIsForPeer, PeerToBe, Sole
    <3>5. HolderApproves(c)'
      BY <1>1, <1>t, <2>1, <3>1 DEF CodeInv, HolderApproves, PeerToBe, Holder, Sole
    <3> QED
      BY <3>2, <3>3, <3>4, <3>5 DEF CodeInv
  <2> QED
    BY <1>1, <1>2, <1>t, <2>3, <2>4, OtherCode, OtherPhone, KeyTypes DEF LoginInv, SameCode,
       Login!TypeOK
<1>5. CASE Login!ConsumeCode(c) \/ Login!ReceiveOther(c) \/ Login!HostComplete(c) \/ Login!LoginRequestFails(c)
  <2>1. /\ UNCHANGED <<peer, session>>
        /\ login'[c] \in {"checking", "storing"} => login[c] \in {"checking", "storing"}
        /\ \/ login'[c] \in {"answered", "failed"}
           \/ login[c] \notin {"answered", "failed"}
           \/ answer[c].status # "pending_key_exchange"
    BY <1>5, <1>t DEF Login!TypeOK
  <2>2. Login!TypeOK'
    BY <1>1, <1>2, <1>t, <2>1 DEF Login!TypeOK
  <2>3. CodeInv(c)'
    <3>1. CodeStarts(c)'
      BY <1>1, <1>2, <1>t, <2>1 DEF CodeInv, CodeStarts
    <3>2. KeyOnFile(c)' /\ OneBundle(c)'
      BY <1>1, <1>t, <2>1 DEF CodeInv, KeyOnFile, OneBundle, KeyMade
    <3>3. BundleIsForPeer(c)' /\ HolderApproves(c)'
      BY <1>1, <1>t, <2>1 DEF CodeInv, BundleIsForPeer, HolderApproves, PeerToBe, Holder, Sole
    <3> QED
      BY <3>1, <3>2, <3>3 DEF CodeInv
  <2> QED
    BY <1>1, <1>2, <1>t, <2>1, <2>2, <2>3, OtherCode, OtherPhone, KeyTypes
    DEF LoginInv, SameCode, Login!TypeOK
<1> QED
  BY <1>3, <1>4, <1>5

\* The bundle is stored, for the key of the answer.
LEMMA StoreKeepsLogin ==
  ASSUME LoginBounds, LoginInv, NEW c \in Codes, Login!StoreHostBundle(c)
  PROVE  LoginInv'
<1>t. Login!TypeOK /\ CodeInv(c)
  BY DEF LoginInv
<1>1. /\ UNCHANGED <<dcStatus, dcUser, consumed, expired, mode, mobileUser, mobileKey,
                      userDevice,
                     answer, peer, session, scan, scanned, attempt, rootKeys, broken>>
      /\ login[c] = "storing"
      /\ \/ login' = [login EXCEPT ![c] = "failed"] /\ UNCHANGED <<hostBundle, hostBundleSent>>
         \/ /\ login' = [login EXCEPT ![c] = "waiting"]
            /\ hostBundle' = [hostBundle EXCEPT ![c] = answer[c].key]
            /\ hostBundleSent' = [hostBundleSent EXCEPT ![c] = TRUE]
  BY DEF Login!StoreHostBundle, Login!StoreScanHostBundle, Login!rowVars, Login!flowVars,
     Login!phoneVars
<1>2. /\ ~hostBundleSent[c] /\ hostBundle[c] = Login!NoKey
      /\ answer[c].status = "pending_key_exchange"
      /\ KeyMade(answer[c].key) /\ peer[c] = answer[c].key.phone
      /\ answer[c].key \in Login!Key /\ answer[c].key # Login!NoKey
  BY <1>1, <1>t, KeyTypes DEF CodeInv, OneBundle, KeyMade
<1>3. Login!TypeOK'
  <2>1. login' \in [Codes -> Login!LoginState]
    BY <1>1, <1>t DEF Login!TypeOK, Login!LoginState
  <2>2. /\ hostBundle' \in [Codes -> Login!Key \union {Login!NoKey}]
        /\ hostBundleSent' \in [Codes -> BOOLEAN]
    BY <1>1, <1>2, <1>t DEF Login!TypeOK
  <2> QED
    BY <1>1, <1>t, <2>1, <2>2 DEF Login!TypeOK
<1>4. CodeInv(c)'
  <2>1. /\ login'[c] \in {"failed", "waiting"}
        /\ \/ hostBundle'[c] = Login!NoKey /\ ~hostBundleSent'[c]
           \/ hostBundle'[c] = answer[c].key /\ hostBundleSent'[c]
    BY <1>1, <1>2, <1>t DEF Login!TypeOK
  <2>2. CodeStarts(c)'
    BY <1>1, <1>t, <2>1 DEF CodeInv, CodeStarts
  <2>3. KeyOnFile(c)'
    BY <1>1, <1>t DEF CodeInv, KeyOnFile, KeyMade
  <2>4. OneBundle(c)'
    BY <1>1, <1>2, <1>t, <2>1 DEF CodeInv, OneBundle, KeyMade
  <2>5. BundleIsForPeer(c)'
    BY <1>1, <1>2, <2>1, <1>t, KeyTypes DEF CodeInv, BundleIsForPeer, PeerToBe, Sole,
       Login!NoKey, LoginBounds
  <2>6. HolderApproves(c)'
    BY <1>1, <1>t DEF CodeInv, HolderApproves, PeerToBe, Holder, Sole
  <2> QED
    BY <2>2, <2>3, <2>4, <2>5, <2>6 DEF CodeInv
<1>5. ASSUME NEW d \in Codes, d # c PROVE CodeInv(d)'
  BY <1>1, <1>5, <1>t, OtherCode DEF SameCode, Login!TypeOK
<1>6. ASSUME NEW p \in Phones PROVE ScanHolds(p)'
  <2>1. \A d \in Codes : hostBundle[d] # Login!NoKey => hostBundle'[d] = hostBundle[d]
    BY <1>1, <1>2, <1>t DEF Login!TypeOK
  <2> QED
    BY <1>1, <2>1, OtherPhone, KeyTypes
<1> QED
  BY <1>3, <1>4, <1>5, <1>6 DEF LoginInv

\* The browser approves a legacy code, or a code expires.
LEMMA BrowserKeepsLogin ==
  ASSUME LoginBounds, LoginInv, NEW c \in Codes,
         (\E u \in Users : Login!ApproveDeviceCode(c, u)) \/ Login!Expire(c)
  PROVE  LoginInv'
<1>t. Login!TypeOK /\ CodeInv(c)
  BY DEF LoginInv
<1>1. UNCHANGED <<consumed, mode, mobileUser, mobileKey, hostBundle, userDevice, login,
                   answer, peer,
                  hostBundleSent, session, scan, scanned, attempt, rootKeys, broken>>
  BY DEF Login!ApproveDeviceCode, Login!Approve, Login!Expire, Login!flowVars, Login!hostVars,
     Login!phoneVars
<1>2. \/ \E u \in Users :
           /\ mode[c] = "legacy" /\ dcStatus[c] # "none" /\ UNCHANGED expired
           /\ dcStatus' = [dcStatus EXCEPT ![c] = "approved"]
           /\ dcUser' = [dcUser EXCEPT ![c] = u]
      \/ expired' = [expired EXCEPT ![c] = TRUE] /\ UNCHANGED <<dcStatus, dcUser>>
  BY DEF Login!ApproveDeviceCode, Login!BrowserMayApprove, Login!Approve, Login!Expire
<1>3. CASE UNCHANGED <<dcStatus, dcUser>> /\ expired' = [expired EXCEPT ![c] = TRUE]
  <2>1. Login!TypeOK'
    BY <1>1, <1>3, <1>t DEF Login!TypeOK
  <2> QED
    BY <1>1, <1>3, <2>1, OtherCode, OtherPhone, KeyTypes DEF SameCode, LoginInv
<1>4. ASSUME NEW u \in Users, mode[c] = "legacy", dcStatus[c] # "none", UNCHANGED expired,
             dcStatus' = [dcStatus EXCEPT ![c] = "approved"], dcUser' = [dcUser EXCEPT ![c] = u]
      PROVE  LoginInv'
  <2>1. Login!TypeOK'
    BY <1>1, <1>4, <1>t DEF Login!TypeOK, Login!CodeStatus
  <2>2. CodeInv(c)'
    <3>1. dcStatus'[c] = "approved" /\ dcUser'[c] = u
      BY <1>4, <1>t DEF Login!TypeOK
    <3>2. CodeStarts(c)' /\ KeyOnFile(c)'
      BY <1>1, <1>4, <1>t, <3>1 DEF CodeInv, CodeStarts, KeyOnFile, KeyMade
    <3>3. OneBundle(c)' /\ BundleIsForPeer(c)'
      BY <1>1, <1>t DEF CodeInv, OneBundle, KeyMade, BundleIsForPeer, PeerToBe, Sole
    <3>4. HolderApproves(c)'
      BY <1>1, <1>4 DEF HolderApproves
    <3> QED
      BY <3>2, <3>3, <3>4 DEF CodeInv
  <2>3. ASSUME NEW d \in Codes, d # c PROVE CodeInv(d)'
    BY <1>1, <1>4, <2>3, <1>t, OtherCode DEF SameCode, Login!TypeOK
  <2>4. ASSUME NEW p \in Phones PROVE ScanHolds(p)'
    BY <1>1, OtherPhone, KeyTypes
  <2> QED
    BY <2>1, <2>2, <2>3, <2>4 DEF LoginInv
<1> QED
  BY <1>2, <1>3, <1>4

\* A holder stays one when phones go on scanning.
LEMMA HolderStays ==
  ASSUME LoginBounds, Login!TypeOK, NEW c \in Codes, NEW u, NEW b, Holder(c, u, b), attempt' \in [Phones -> Nat],
         \A p \in Phones : /\ attempt[p] <= attempt'[p] /\ rootKeys[p] \subseteq rootKeys'[p]
                           /\ userDevice'[p] \in {userDevice[p], MCOwnerOf(p)}
  PROVE  \E p \in Phones :
           /\ MCOwnerOf(p) = u /\ userDevice'[p] = u /\ c \in rootKeys'[p] /\ attempt'[p] > 0
           /\ (\A q \in Phones : (MCOwnerOf(q) = MCOwnerOf(p) /\ attempt'[q] > 0) => q = p) =>
                b = p
<1>1. PICK p \in Phones :
        /\ MCOwnerOf(p) = u /\ userDevice[p] = u /\ c \in rootKeys[p] /\ attempt[p] > 0
        /\ Sole(p) => b = p
  BY DEF Holder
<1>2. \A q \in Phones : attempt[q] \in Nat /\ attempt'[q] \in Nat
  BY DEF Login!TypeOK, LoginBounds
<1>3. (\A q \in Phones : (MCOwnerOf(q) = MCOwnerOf(p) /\ attempt'[q] > 0) => q = p) => Sole(p)
  BY <1>2 DEF Sole
<1> QED
  BY <1>1, <1>2, <1>3

\* A phone scans a code, anew or for the first time.
LEMMA ScanKeepsLogin ==
  ASSUME LoginBounds, LoginInv, NEW p \in Phones, NEW c \in Codes, Login!ScanApprove(p, c)
  PROVE  LoginInv'
<1>t. Login!TypeOK /\ \A d \in Codes : CodeInv(d)
  BY DEF LoginInv
<1> DEFINE n == attempt[p] + 1
           key == [phone |-> p, n |-> n]
<1>1. /\ UNCHANGED <<consumed, expired, mode, hostBundle, login, answer, peer, hostBundleSent,
                      session,
                     rootKeys, broken>>
      /\ attempt[p] < MaxAttempts /\ mode[c] = "scan_secure" /\ dcStatus[c] # "none"
      /\ userDevice' = [userDevice EXCEPT ![p] = MCOwnerOf(p)]
      /\ mobileUser' = [mobileUser EXCEPT ![c] = MCOwnerOf(p)]
      /\ mobileKey' = [mobileKey EXCEPT ![c] = key]
      /\ dcUser' = [dcUser EXCEPT ![c] = MCOwnerOf(p)]
      /\ dcStatus' = [dcStatus EXCEPT ![c] = "pending_key_exchange"]
      /\ scan' = [scan EXCEPT ![p] = "waiting"] /\ scanned' = [scanned EXCEPT ![p] = c]
      /\ attempt' = [attempt EXCEPT ![p] = n]
  BY <1>t DEF Login!ScanApprove, Login!ApproveScanByMobile, Login!ResolveScanFlow,
     Login!hostVars, Login!TypeOK
<1>2. /\ n \in 1 .. MaxAttempts /\ key \in Login!Key /\ key.phone = p /\ key.n = n
      /\ MCOwnerOf(p) \in Users /\ MCOwnerOf(p) # None
      /\ \A q \in Phones : attempt[q] \in Nat
  <2>1. \A q \in Phones : attempt[q] \in Nat
    BY <1>t DEF Login!TypeOK, LoginBounds
  <2>2. n \in 1 .. MaxAttempts
    BY <2>1, <1>1 DEF LoginBounds
  <2> QED
    BY <2>1, <2>2, KeyTypes DEF LoginBounds
<1>3. /\ attempt' \in [Phones -> Nat] /\ attempt' \in [Phones -> 0 .. MaxAttempts]
      /\ attempt'[p] = n /\ \A q \in Phones \ {p} : attempt'[q] = attempt[q]
      /\ \A q \in Phones : attempt[q] <= attempt'[q]
  BY <1>1, <1>2, <1>t DEF Login!TypeOK, LoginBounds
<1> HIDE DEF key, n
<1>4. Login!TypeOK'
  <2>1. /\ dcStatus' \in [Codes -> Login!CodeStatus] /\ scan' \in [Phones -> Login!ScanState]
    BY <1>1, <1>t DEF Login!TypeOK, Login!CodeStatus, Login!ScanState
  <2>2. /\ dcUser' \in [Codes -> Users \union {None}]
        /\ mobileUser' \in [Codes -> Users \union {None}]
        /\ userDevice' \in [Phones -> Users \union {None}]
    BY <1>1, <1>2, <1>t DEF Login!TypeOK
  <2>3. /\ mobileKey' \in [Codes -> Login!Key \union {Login!NoKey}]
        /\ scanned' \in [Phones -> Codes \union {None}]
    BY <1>1, <1>2, <1>t DEF Login!TypeOK
  <2> QED
    BY <1>1, <1>3, <1>t, <2>1, <2>2, <2>3 DEF Login!TypeOK
<1>5. \A k : KeyMade(k) => k \in Login!Key /\ k.phone \in Phones /\ k.n <= attempt'[k.phone]
  <2> SUFFICES ASSUME NEW k, KeyMade(k) PROVE k \in Login!Key /\ k.phone \in Phones /\ k.n <= attempt'[k.phone]
    OBVIOUS
  <2>1. k \in Login!Key /\ k.phone \in Phones /\ k.n \in Nat /\ k.n <= attempt[k.phone]
    BY KeyTypes DEF KeyMade
  <2>2. /\ attempt[k.phone] \in Nat /\ attempt'[k.phone] \in Nat
        /\ attempt[k.phone] <= attempt'[k.phone]
    BY <2>1, <1>2, <1>3
  <2> QED
    BY <2>1, <2>2
<1>6. ASSUME NEW d \in Codes PROVE CodeInv(d)'
  <2>1. CodeStarts(d)'
    BY <1>1, <1>t DEF CodeInv, CodeStarts, Login!TypeOK
  <2>2. OneBundle(d)'
    BY <1>1, <1>5, <1>t DEF CodeInv, OneBundle, KeyMade
  <2>3. KeyOnFile(d)'
    <3>1. CASE d = c
      <4>1. /\ dcStatus'[c] = "pending_key_exchange" /\ mobileUser'[c] = MCOwnerOf(p)
            /\ mobileKey'[c] = key
        BY <1>1, <1>t DEF Login!TypeOK
      <4> QED
        BY <3>1, <4>1, <1>2, <1>3 DEF KeyOnFile, KeyMade
    <3>2. CASE d # c
      <4>1. /\ dcStatus'[d] = dcStatus[d] /\ mobileUser'[d] = mobileUser[d]
            /\ mobileKey'[d] = mobileKey[d]
            /\ dcUser'[d] = dcUser[d] /\ scanned'[p] = c
            /\ \A q \in Phones \ {p} : scanned'[q] = scanned[q]
        BY <3>2, <1>1, <1>t DEF Login!TypeOK
      <4>2. mobileUser[d] # None => mobileKey[d].phone \in Phones
        BY <1>t, <1>5 DEF CodeInv, KeyOnFile
      <4> QED
        BY <3>2, <4>1, <4>2, <1>3, <1>5, <1>t DEF CodeInv, KeyOnFile, KeyMade
    <3> QED
      BY <3>1, <3>2
  <2>4. BundleIsForPeer(d)'
    <3> SUFFICES ASSUME NEW q \in Phones, hostBundle[d] = [phone |-> q, n |-> attempt'[q]],
                        scanned'[q] = d, mobileUser'[d] = MCOwnerOf(q),
                        \A o \in Phones : (MCOwnerOf(o) = MCOwnerOf(q) /\ attempt'[o] > 0) =>
                          o = q
                 PROVE  PeerToBe(d) = q
      BY <1>1 DEF BundleIsForPeer, Sole, PeerToBe
    <3>1. hostBundle[d] # Login!NoKey
      BY DEF Login!NoKey, LoginBounds
    <3>2. q # p
      <4>1. KeyMade(hostBundle[d])
        BY <3>1, <1>t DEF CodeInv, OneBundle
      <4>2. attempt'[q] <= attempt[q]
        BY <4>1 DEF KeyMade
      <4> QED
        BY <4>2, <1>2, <1>3 DEF n
    <3>3. attempt[q] = attempt'[q] /\ scanned[q] = d
      BY <3>2, <1>1, <1>3, <1>t DEF Login!TypeOK
    <3>4. Sole(q)
      BY <1>2, <1>3 DEF Sole
    <3>5. d # c
      <4>1. MCOwnerOf(p) # MCOwnerOf(q)
        BY <3>2, <1>2, <1>3
      <4> QED
        BY <4>1, <1>1, <1>t DEF Login!TypeOK
    <3>6. mobileUser[d] = MCOwnerOf(q)
      BY <3>5, <1>1, <1>t DEF Login!TypeOK
    <3> QED
      BY <3>3, <3>4, <3>6, <1>t DEF CodeInv, BundleIsForPeer
  <2>5. HolderApproves(d)'
    <3>1. dcStatus'[d] = "approved" => dcStatus[d] = "approved" /\ dcUser'[d] = dcUser[d]
      BY <1>1, <1>t DEF Login!TypeOK
    <3>2. \A q \in Phones : /\ attempt[q] <= attempt'[q] /\ rootKeys[q] \subseteq rootKeys'[q]
                            /\ userDevice'[q] \in {userDevice[q], MCOwnerOf(q)}
      BY <1>1, <1>3, <1>t DEF Login!TypeOK
    <3>3. \A u, b : Holder(d, u, b) =>
            \E o \in Phones :
              /\ MCOwnerOf(o) = u /\ userDevice'[o] = u /\ d \in rootKeys'[o] /\ attempt'[o] > 0
              /\ (\A q \in Phones : (MCOwnerOf(q) = MCOwnerOf(o) /\ attempt'[q] > 0) => q = o) => b = o
      BY <3>2, <1>3, <1>t, HolderStays
    <3>4. UNCHANGED <<mode, answer, peer, session>> /\ PeerToBe(d)' = PeerToBe(d)
      BY <1>1 DEF PeerToBe
    <3>5. HolderApproves(d)
      BY <1>t DEF CodeInv
    <3> SUFFICES ASSUME mode[d] = "scan_secure"
                 PROVE  /\ dcStatus'[d] = "approved" => Holder(d, dcUser[d], PeerToBe(d))'
                        /\ answer[d].status = "ok" => Holder(d, answer[d].user, peer[d])'
                        /\ session[d] # Login!NoSession =>
                             Holder(d, session[d].user, session[d].peer)'
      BY <3>4 DEF HolderApproves
    <3>6. ASSUME dcStatus'[d] = "approved" PROVE Holder(d, dcUser[d], PeerToBe(d))'
      <4>1. Holder(d, dcUser[d], PeerToBe(d)) /\ dcUser'[d] = dcUser[d]
        BY <3>1, <3>5, <3>6 DEF HolderApproves
      <4> DEFINE u == dcUser[d]
                 b == PeerToBe(d)
      <4>2. \E o \in Phones :
              /\ MCOwnerOf(o) = u /\ userDevice'[o] = u /\ d \in rootKeys'[o] /\ attempt'[o] > 0
              /\ (\A q \in Phones : (MCOwnerOf(q) = MCOwnerOf(o) /\ attempt'[q] > 0) => q = o) => b = o
        BY <4>1, <3>3
      <4> QED
        BY <4>1, <4>2, <3>4 DEF Holder, Sole
    <3>7. ASSUME answer[d].status = "ok" PROVE Holder(d, answer[d].user, peer[d])'
      <4>1. Holder(d, answer[d].user, peer[d])
        BY <3>4, <3>5, <3>7 DEF HolderApproves
      <4>2. \E o \in Phones :
              /\ MCOwnerOf(o) = answer[d].user /\ userDevice'[o] = answer[d].user
              /\ d \in rootKeys'[o] /\ attempt'[o] > 0
              /\ (\A q \in Phones : (MCOwnerOf(q) = MCOwnerOf(o) /\ attempt'[q] > 0) => q = o) => peer[d] = o
        BY <4>1, <3>3
      <4> QED
        BY <4>2, <3>4 DEF Holder, Sole
    <3>8. ASSUME session[d] # Login!NoSession PROVE Holder(d, session[d].user, session[d].peer)'
      <4>1. Holder(d, session[d].user, session[d].peer)
        BY <3>4, <3>5, <3>8 DEF HolderApproves
      <4>2. \E o \in Phones :
              /\ MCOwnerOf(o) = session[d].user /\ userDevice'[o] = session[d].user
              /\ d \in rootKeys'[o] /\ attempt'[o] > 0
              /\ (\A q \in Phones : (MCOwnerOf(q) = MCOwnerOf(o) /\ attempt'[q] > 0) => q = o) => session[d].peer = o
        BY <4>1, <3>3
      <4> QED
        BY <4>2, <3>4 DEF Holder, Sole
    <3> QED
      BY <3>6, <3>7, <3>8
  <2> QED
    BY <2>1, <2>2, <2>3, <2>4, <2>5 DEF CodeInv
<1>7. ASSUME NEW q \in Phones PROVE ScanHolds(q)'
  <2>1. CASE q = p
    <3>1. /\ scan'[p] = "waiting" /\ scanned'[p] = c /\ userDevice'[p] = MCOwnerOf(p)
          /\ attempt'[p] > 0
      BY <1>1, <1>2, <1>3, <1>t DEF Login!TypeOK
    <3> QED
      BY <2>1, <3>1, <1>1 DEF ScanHolds
  <2>2. CASE q # p
    BY <2>2, <1>1, <1>3, <1>t, OtherPhone, KeyTypes DEF Login!TypeOK
  <2> QED
    BY <2>1, <2>2
<1> QED
  BY <1>4, <1>6, <1>7 DEF LoginInv

\* A phone fetches the bundle, or breaks off.
LEMMA FetchKeepsLogin ==
  ASSUME LoginBounds, LoginInv, NEW p \in Phones, Login!FetchHostBundle(p) \/ Login!BreakOffScan(p)
  PROVE  LoginInv'
<1>t. Login!TypeOK /\ ScanHolds(p)
  BY DEF LoginInv
<1>1. /\ UNCHANGED <<Login!rowVars, Login!flowVars, userDevice, Login!hostVars, scanned,
                      attempt, broken>>
      /\ scan[p] \in {"waiting", "holding"} /\ scanned[p] \in Codes
      /\ \/ scan' = [scan EXCEPT ![p] = "failed"] /\ UNCHANGED rootKeys
         \/ /\ scan' = [scan EXCEPT ![p] = "holding"]
            /\ rootKeys' = [rootKeys EXCEPT ![p] = @ \union {scanned[p]}]
            /\ hostBundle[scanned[p]] = [phone |-> p, n |-> attempt[p]]
  <2>1. CASE Login!BreakOffScan(p)
    BY <2>1, <1>t DEF Login!BreakOffScan, ScanHolds
  <2>2. CASE Login!FetchHostBundle(p) /\ Login!Decryptable(p, scanned[p])
    BY <2>2, <1>t DEF Login!FetchHostBundle, Login!Decryptable, ScanHolds
  <2>3. CASE Login!FetchHostBundle(p) /\ ~Login!Decryptable(p, scanned[p])
    <3>1. [rootKeys EXCEPT ![p] = rootKeys[p]] = rootKeys
      BY <1>t DEF Login!TypeOK
    <3> QED
      BY <2>3, <3>1, <1>t DEF Login!FetchHostBundle, ScanHolds
  <2> QED
    BY <2>1, <2>2, <2>3
<1>2. Login!TypeOK'
  <2>1. scan' \in [Phones -> Login!ScanState] /\ rootKeys' \in [Phones -> SUBSET Codes]
    BY <1>1, <1>t DEF Login!TypeOK, Login!ScanState
  <2> QED
    BY <2>1, <1>1, <1>t DEF Login!TypeOK, Login!rowVars, Login!flowVars, Login!hostVars
<1>3. \A q \in Phones : rootKeys[q] \subseteq rootKeys'[q]
  BY <1>1, <1>t DEF Login!TypeOK
<1>4. ASSUME NEW d \in Codes PROVE CodeInv(d)'
  BY <1>1, <1>3, OtherCode DEF SameCode, Login!rowVars, Login!flowVars, Login!hostVars
<1>5. ASSUME NEW q \in Phones PROVE ScanHolds(q)'
  <2>1. CASE q = p /\ scan'[p] = "holding"
    <3>1. /\ scanned[p] \in rootKeys'[p]
          /\ hostBundle[scanned[p]] = [phone |-> p, n |-> attempt[p]]
      BY <2>1, <1>1, <1>t DEF Login!TypeOK
    <3> QED
      BY <2>1, <3>1, <1>1, <1>t DEF ScanHolds, Login!rowVars, Login!flowVars, Login!hostVars
  <2>2. CASE q = p /\ scan'[p] # "holding"
    <3>1. scan'[p] = "failed"
      BY <2>2, <1>1, <1>t DEF Login!TypeOK
    <3> QED
      BY <2>2, <3>1 DEF ScanHolds
  <2>3. CASE q # p
    <3>1. scan'[q] = scan[q]
      BY <2>3, <1>1, <1>t DEF Login!TypeOK
    <3> QED
      BY <3>1, <1>1, <1>3, OtherPhone, KeyTypes DEF Login!flowVars
  <2> QED
    BY <2>1, <2>2, <2>3
<1> QED
  BY <1>2, <1>4, <1>5 DEF LoginInv

\* A phone acknowledges the bundle, which approves the code for its user.
LEMMA AcknowledgeKeepsLogin ==
  ASSUME LoginBounds, LoginInv, NEW p \in Phones, Login!Acknowledge(p)
  PROVE  LoginInv'
<1>t. Login!TypeOK /\ ScanHolds(p)
  BY DEF LoginInv
<1> PICK c : c = scanned[p]
  OBVIOUS
<1>1. /\ UNCHANGED <<consumed, expired, mode, mobileUser, mobileKey, hostBundle, userDevice,
                      Login!hostVars,
                     scanned, attempt, rootKeys, broken>>
      /\ scan[p] = "holding" /\ c \in Codes /\ mode[c] = "scan_secure"
      /\ userDevice[p] = MCOwnerOf(p)
      /\ attempt[p] > 0 /\ hostBundle[c] = [phone |-> p, n |-> attempt[p]] /\ c \in rootKeys[p]
      /\ \/ scan' = [scan EXCEPT ![p] = "failed"] /\ UNCHANGED <<dcStatus, dcUser>>
         \/ /\ scan' = [scan EXCEPT ![p] = "acked"] /\ mobileUser[c] = MCOwnerOf(p)
            /\ dcStatus' = [dcStatus EXCEPT ![c] = "approved"]
            /\ dcUser' = [dcUser EXCEPT ![c] = MCOwnerOf(p)]
  BY <1>t DEF Login!Acknowledge, Login!MayAcknowledge, Login!Approve, ScanHolds,
     Login!rowVars, Login!flowVars
<1>2. Login!TypeOK'
  <2>1. scan' \in [Phones -> Login!ScanState]
    BY <1>1, <1>t DEF Login!TypeOK, Login!ScanState
  <2>2. dcStatus' \in [Codes -> Login!CodeStatus] /\ dcUser' \in [Codes -> Users \union {None}]
    BY <1>1, <1>t DEF Login!TypeOK, Login!CodeStatus, LoginBounds
  <2> QED
    BY <2>1, <2>2, <1>1, <1>t DEF Login!TypeOK, Login!hostVars
<1>3. ASSUME NEW d \in Codes PROVE CodeInv(d)'
  <2>1. CASE dcStatus'[d] = dcStatus[d] /\ dcUser'[d] = dcUser[d]
    BY <2>1, <1>1, OtherCode DEF SameCode, Login!hostVars
  <2>2. CASE /\ d = c /\ dcStatus'[c] = "approved" /\ dcUser'[c] = MCOwnerOf(p)
             /\ mobileUser[c] = MCOwnerOf(p)
    <3>1. CodeInv(c)
      BY <1>1 DEF LoginInv
    <3>2. CodeStarts(c)'
      <4>1. dcStatus[c] # "none"
        BY <1>1, <3>1 DEF CodeInv, CodeStarts
      <4> QED
        BY <4>1, <1>1, <2>2, <3>1 DEF CodeInv, CodeStarts, Login!hostVars
    <3>3. KeyOnFile(c)' /\ OneBundle(c)'
      BY <1>1, <2>2, <3>1 DEF CodeInv, KeyOnFile, OneBundle, KeyMade, Login!hostVars,
         LoginBounds
    <3>4. BundleIsForPeer(c)'
      BY <1>1, <3>1 DEF CodeInv, BundleIsForPeer, PeerToBe, Sole, Login!hostVars
    <3>5. HolderApproves(c)'
      <4>1. Sole(p) => PeerToBe(c) = p
        BY <1>1, <2>2, <3>1 DEF CodeInv, BundleIsForPeer
      <4>2. Holder(c, MCOwnerOf(p), PeerToBe(c))
        BY <1>1, <4>1 DEF Holder
      <4> QED
        BY <1>1, <2>2, <3>1, <4>2 DEF CodeInv, HolderApproves, PeerToBe, Holder, Sole,
           Login!hostVars
    <3> QED
      BY <2>2, <3>2, <3>3, <3>4, <3>5 DEF CodeInv
  <2> QED
    BY <2>1, <2>2, <1>1, <1>t DEF Login!TypeOK
<1>4. ASSUME NEW q \in Phones PROVE ScanHolds(q)'
  <2>1. scan'[q] = scan[q] \/ scan'[q] \notin {"waiting", "holding"}
    BY <1>1, <1>t DEF Login!TypeOK
  <2> QED
    BY <2>1, <1>1, OtherPhone, KeyTypes
<1> QED
  BY <1>2, <1>3, <1>4 DEF LoginInv

\* The start.
LEMMA InitLoginInv ==
  ASSUME LoginBounds, Login!Init
  PROVE  LoginInv
<1> USE DEF Login!Init
<1>1. /\ Login!NoAnswer \in Login!Answer /\ Login!NoAnswer.status = "none"
      /\ Login!NoSession.peer = None
  BY DEF Login!NoAnswer, Login!Answer, Login!NoSession
<1>2. Login!TypeOK
  <2>1. /\ dcStatus \in [Codes -> Login!CodeStatus] /\ login \in [Codes -> Login!LoginState]
        /\ scan \in [Phones -> Login!ScanState]
    BY DEF Login!CodeStatus, Login!LoginState, Login!ScanState
  <2>2. attempt \in [Phones -> 0 .. MaxAttempts]
    BY DEF LoginBounds
  <2>3. /\ answer \in [Codes -> Login!Answer]
        /\ session \in [Codes -> Login!Session \union {Login!NoSession}]
    BY <1>1
  <2> QED
    BY <2>1, <2>2, <2>3 DEF Login!TypeOK
<1>3. ASSUME NEW c \in Codes PROVE CodeInv(c)
  BY <1>1 DEF CodeInv, CodeStarts, KeyOnFile, OneBundle, BundleIsForPeer, HolderApproves,
     LoginBounds
<1>4. ASSUME NEW p \in Phones PROVE ScanHolds(p)
  BY DEF ScanHolds
<1> QED
  BY <1>2, <1>3, <1>4 DEF LoginInv

\* Every step keeps the invariant.
LEMMA NextKeepsLogin ==
  ASSUME LoginBounds, LoginInv, [Login!Next]_(Login!vars)
  PROVE  LoginInv'
<1>1. CASE UNCHANGED Login!vars
  <2> USE DEF Login!vars, Login!rowVars, Login!flowVars, Login!hostVars, Login!phoneVars
  <2>1. Login!TypeOK'
    BY <1>1 DEF LoginInv, Login!TypeOK
  <2>2. ASSUME NEW d \in Codes PROVE CodeInv(d)'
    BY <1>1, OtherCode DEF SameCode
  <2>3. ASSUME NEW p \in Phones PROVE ScanHolds(p)'
    BY <1>1, OtherPhone, KeyTypes
  <2> QED
    BY <2>1, <2>2, <2>3 DEF LoginInv
<1>2. CASE Login!Next
  BY <1>2, StartKeepsLogin, PollKeepsLogin, AnswerKeepsLogin, StoreKeepsLogin,
     BrowserKeepsLogin,
     ScanKeepsLogin, FetchKeepsLogin, AcknowledgeKeepsLogin
  DEF Login!Next, Login!LoginStep
<1> QED
  BY <1>1, <1>2

\* What the invariant says of a session.
LEMMA HolderSignsIn ==
  ASSUME LoginBounds, LoginInv
  PROVE  Login!KeyHolderSignsIn /\ Login!PeerHoldsKey
<1>1. Login!KeyHolderSignsIn
  BY DEF LoginInv, CodeInv, HolderApproves, Holder, Login!KeyHolderSignsIn
<1>2. Login!PeerHoldsKey
  <2> SUFFICES ASSUME NEW c \in Codes, session[c] # Login!NoSession, session[c].peer # None
               PROVE  \/ MCOwnerOf(session[c].peer) = session[c].user /\ c \in rootKeys[session[c].peer]
                      \/ \E p, q \in Phones : /\ p # q /\ attempt[p] > 0 /\ attempt[q] > 0
                                              /\ MCOwnerOf(p) = session[c].user
                                              /\ MCOwnerOf(q) = session[c].user
    BY DEF Login!PeerHoldsKey
  <2>1. mode[c] = "scan_secure"
    BY DEF LoginInv, CodeInv, CodeStarts
  <2>2. PICK p \in Phones :
          /\ MCOwnerOf(p) = session[c].user /\ c \in rootKeys[p] /\ attempt[p] > 0
          /\ Sole(p) => session[c].peer = p
    BY <2>1 DEF LoginInv, CodeInv, HolderApproves, Holder
  <2> QED
    BY <2>2 DEF Sole
<1> QED
  BY <1>1, <1>2

\* In every state rows, login commands and phones fit together.
THEOREM LoginInvariant ==
  ASSUME LoginBounds PROVE Login!Spec => []LoginInv
<1>1. Login!Init => LoginInv
  BY InitLoginInv
<1>2. LoginInv /\ [Login!Next]_(Login!vars) => LoginInv'
  BY NextKeepsLogin
<1> QED
  BY <1>1, <1>2, PTL DEF Login!Spec

-----------------------------------------------------------------------------
(* Payments and what the plan says.                                         *)

\* A call under way handles an event that exists.
Carried ==
  \A d \in Bill!Deliveries : delivery[d] \in {"recorded", "mapped", "planned"} =>
    carries[d] \in Bill!Events /\ kind[carries[d]] # "none"

\* Without a crossing one call at most is between the two rows, and the plan is what
\* its event says.
PlanIsCarried ==
  ~billingCrossed => \A d \in Bill!Deliveries : delivery[d] = "planned" =>
    /\ ~halved => plan = Bill!Paid(kind[carries[d]])
    /\ \A b \in Bill!Deliveries : delivery[b] = "planned" => b = d

\* Without doubling, a call makes a customer only while none is on file, alone, and
\* every call that has one has the one on file.
OneCustomer ==
  ~doubled => \A k \in Bill!Checkouts :
    /\ checkout[k] \in {"creating", "storing"} =>
         /\ customer = 0
         /\ \A j \in Bill!Checkouts : checkout[j] \in {"creating", "storing"} => j = k
    /\ checkout[k] \in {"opening", "open", "portal"} => using[k] = customer /\ customer # 0
    /\ checkout[k] = "storing" => using[k] # 0

\* Each checkout call makes one customer at most.
HasCreated == {k \in Bill!Checkouts : checkout[k] \notin {"idle", "creating"}}
CustomersCounted == customers <= Cardinality(HasCreated)

BillingInv ==
  /\ Bill!TypeOK /\ Carried /\ PlanIsCarried /\ Bill!PlanMatchesLimit /\ OneCustomer
  /\ CustomersCounted

BillingBounds ==
  MaxEvents \in Nat /\ MaxDeliveries \in Nat /\ MaxCheckouts \in Nat /\ 1 \in Nat

\* The calls that have made a customer are finitely many.
LEMMA CreatedFinite ==
  ASSUME BillingBounds, NEW S, S \subseteq Bill!Checkouts
  PROVE  IsFiniteSet(S) /\ Cardinality(S) \in 0 .. MaxCheckouts
<1>1. IsFiniteSet(Bill!Checkouts) /\ Cardinality(Bill!Checkouts) = MaxCheckouts
  BY FS_Interval DEF Bill!Checkouts, BillingBounds
<1> QED
  BY <1>1, FS_Subset, FS_CardinalityType DEF BillingBounds

\* Customers stay counted when calls only go on.
LEMMA CountedGrows ==
  ASSUME BillingBounds, CustomersCounted, customers \in Nat,
         HasCreated' \subseteq Bill!Checkouts, HasCreated \subseteq HasCreated',
         customers' = customers
  PROVE  CustomersCounted'
<1>1. /\ IsFiniteSet(HasCreated') /\ Cardinality(HasCreated') \in Nat
      /\ Cardinality(HasCreated) \in Nat
  BY CreatedFinite DEF HasCreated, BillingBounds
<1>2. Cardinality(HasCreated) <= Cardinality(HasCreated')
  BY <1>1, FS_Subset
<1> QED
  BY <1>1, <1>2 DEF CustomersCounted

\* Calls of Stripe and of the checkout routes.
LEMMA CheckoutKeepsBilling ==
  ASSUME BillingBounds, BillingInv, NEW k \in Bill!Checkouts,
         \/ Bill!LookUpCustomer(k) \/ Bill!CreateStripeCustomer(k) \/ Bill!UpsertStripeCustomer(k)
         \/ Bill!OpenCheckoutSession(k) \/ Bill!OpenPortalSession(k) \/ Bill!CheckoutFails(k)
  PROVE  BillingInv'
<1> USE DEF BillingInv
<1> DEFINE Step == \/ Bill!LookUpCustomer(k) \/ Bill!CreateStripeCustomer(k) \/ Bill!UpsertStripeCustomer(k)
                   \/ Bill!OpenCheckoutSession(k) \/ Bill!OpenPortalSession(k) \/ Bill!CheckoutFails(k)
<1> USE DEF Bill!stripeVars, Bill!checkoutVars, Bill!webhookVars, Bill!planVars,
            Bill!SessionOpened,
            Bill!LookUpCustomer, Bill!CreateStripeCustomer, Bill!UpsertStripeCustomer,
            Bill!OpenCheckoutSession,
            Bill!OpenPortalSession, Bill!CheckoutFails
<1>1. /\ UNCHANGED <<recorded, delivery, carries, plan, raised, billingCrossed, halved, kind,
                      of>>
      /\ failures' \in {failures, failures + 1} /\ (failures' # failures => failures < 1)
  OBVIOUS
<1>2. /\ checkout' \in [Bill!Checkouts -> Bill!CheckoutStage]
      /\ checkout[k] \in Bill!CheckoutStage
      /\ \A j \in Bill!Checkouts \ {k} : checkout'[j] = checkout[j]
      /\ checkout'[k] # "creating" \/ checkout[k] = "idle"
      /\ checkout'[k] # "idle"
  BY DEF Bill!TypeOK, Bill!CheckoutStage
<1>3. HasCreated \subseteq HasCreated' /\ HasCreated' \subseteq Bill!Checkouts
  BY <1>2 DEF HasCreated, Bill!TypeOK, Bill!CustomerOnFile
<1>4. CustomersCounted'
  <2>1. CASE customers' = customers
    BY <2>1, <1>3, CountedGrows DEF Bill!TypeOK, BillingBounds
  <2>2. CASE Bill!CreateStripeCustomer(k)
    <3>1. HasCreated' = HasCreated \union {k} /\ k \notin HasCreated
      BY <2>2, <1>2 DEF HasCreated, Bill!TypeOK
    <3>2. HasCreated \subseteq Bill!Checkouts
      BY DEF HasCreated
    <3>3. IsFiniteSet(HasCreated) /\ Cardinality(HasCreated) \in Nat
      BY <3>2, CreatedFinite DEF BillingBounds
    <3>4. Cardinality(HasCreated') = Cardinality(HasCreated) + 1
      BY <3>1, <3>3, FS_AddElement
    <3> QED
      BY <2>2, <3>3, <3>4 DEF CustomersCounted, Bill!TypeOK, BillingBounds
  <2> QED
    BY <2>1, <2>2
<1>5. customers' \in 0 .. MaxCheckouts
  <2>1. Cardinality(HasCreated') \in 0 .. MaxCheckouts
    BY <1>3, CreatedFinite
  <2>2. customers' \in Nat
    BY DEF Bill!TypeOK, BillingBounds
  <2> QED
    BY <1>4, <2>1, <2>2 DEF CustomersCounted, BillingBounds
<1>6. Bill!TypeOK'
  <2>1. using' \in [Bill!Checkouts -> 0 .. MaxCheckouts]
    BY <1>5 DEF Bill!TypeOK, Bill!CustomerOnFile, BillingBounds
  <2>2. customer' \in 0 .. MaxCheckouts /\ doubled' \in BOOLEAN
    BY DEF Bill!TypeOK
  <2>3. failures' \in 0 .. 1
    BY <1>1 DEF Bill!TypeOK, BillingBounds
  <2> QED
    BY <1>1, <1>2, <1>5, <2>1, <2>2, <2>3 DEF Bill!TypeOK
<1>7. Carried' /\ PlanIsCarried' /\ Bill!PlanMatchesLimit'
  BY <1>1 DEF Carried, PlanIsCarried, Bill!PlanMatchesLimit
<1>8. OneCustomer'
  <2> USE DEF OneCustomer
  <2>1. /\ using \in [Bill!Checkouts -> Int] /\ customer \in Int /\ customers \in Nat
        /\ doubled \in BOOLEAN
        /\ checkout \in [Bill!Checkouts -> Bill!CheckoutStage]
    BY DEF Bill!TypeOK, BillingBounds
  <2>2. CASE Bill!LookUpCustomer(k)
    BY <2>1, <2>2, <1>2 DEF Bill!CustomerOnFile
  <2>3. CASE Bill!CreateStripeCustomer(k)
    <3>1. using' = [using EXCEPT ![k] = customers + 1] /\ customers + 1 # 0
      BY <2>1, <2>3
    <3> QED
      BY <2>1, <2>3, <3>1, <1>2
  <2>4. CASE Bill!UpsertStripeCustomer(k)
    BY <2>1, <2>4, <1>2
  <2>5. CASE Bill!OpenCheckoutSession(k) \/ Bill!OpenPortalSession(k)
    BY <2>1, <2>5, <1>2
  <2>6. CASE Bill!CheckoutFails(k)
    BY <2>1, <2>6, <1>2
  <2> QED
    BY <2>2, <2>3, <2>4, <2>5, <2>6
<1> QED
  BY <1>4, <1>6, <1>7, <1>8

\* An event comes to exist.
LEMMA ReportKeepsBilling ==
  ASSUME BillingBounds, BillingInv, NEW e \in Bill!Events, Bill!ProviderReports(e)
  PROVE  BillingInv'
<1> USE DEF BillingInv, Bill!ProviderReports, Bill!checkoutVars, Bill!webhookVars, Bill!planVars
<1>1. /\ kind[e] = "none" /\ \A f \in Bill!Events \ {e} : kind'[f] = kind[f]
      /\ kind' \in [Bill!Events -> Bill!Kind \union {"none"}]
  BY DEF Bill!TypeOK
<1>2. of' \in [Bill!Events -> 0 .. MaxCheckouts]
  BY DEF Bill!TypeOK, BillingBounds
<1>3. Bill!TypeOK'
  BY <1>1, <1>2 DEF Bill!TypeOK
<1>4. \A d \in Bill!Deliveries : delivery[d] \in {"recorded", "mapped", "planned"} =>
        kind'[carries[d]] = kind[carries[d]]
  BY <1>1 DEF Carried
<1>5. Carried'
  BY <1>1, <1>4 DEF Carried
<1>6. PlanIsCarried'
  BY <1>4 DEF PlanIsCarried, Bill!Paid
<1>7. Bill!PlanMatchesLimit' /\ OneCustomer' /\ CustomersCounted'
  BY DEF Bill!PlanMatchesLimit, OneCustomer, CustomersCounted, HasCreated
<1> QED
  BY <1>3, <1>5, <1>6, <1>7

\* A call of a webhook goes on or ends.
LEMMA WebhookKeepsBilling ==
  ASSUME BillingBounds, BillingInv, NEW d \in Bill!Deliveries,
         \/ \E e \in Bill!Events : Bill!StripeWebhook(d, e) \/ Bill!RevenueCatWebhook(d, e)
         \/ Bill!MapStripeUser(d) \/ Bill!MapRevenueCatUser(d)
         \/ Bill!ApplyPlan(d) \/ Bill!ApplyLimit(d) \/ Bill!WebhookFails(d)
  PROVE  BillingInv'
<1> USE DEF BillingInv
<1> USE DEF Bill!stripeVars, Bill!checkoutVars, Bill!webhookVars, Bill!planVars, Bill!End,
            Bill!MapUser, Bill!RecordEvent,
            Bill!StripeWebhook, Bill!RevenueCatWebhook, Bill!MapStripeUser,
            Bill!MapRevenueCatUser, Bill!ApplyPlan,
            Bill!ApplyLimit, Bill!WebhookFails
<1>1. /\ UNCHANGED <<customer, customers, checkout, using, doubled, kind, of>>
      /\ failures' \in {failures, failures + 1} /\ (failures' # failures => failures < 1)
  OBVIOUS
<1>2. /\ delivery' \in [Bill!Deliveries -> Bill!DeliveryStage]
      /\ carries' \in [Bill!Deliveries -> 0 .. MaxEvents]
      /\ \A b \in Bill!Deliveries \ {d} : delivery'[b] = delivery[b] /\ carries'[b] = carries[b]
      /\ recorded' \subseteq Bill!Events
  <2>1. /\ delivery \in [Bill!Deliveries -> Bill!DeliveryStage]
        /\ carries \in [Bill!Deliveries -> 0 .. MaxEvents]
        /\ recorded \subseteq Bill!Events /\ Bill!Events \subseteq 0 .. MaxEvents
        /\ 0 \in 0 .. MaxEvents
    BY DEF Bill!TypeOK, Bill!Events, BillingBounds
  <2>2. \E s \in Bill!DeliveryStage : delivery' = [delivery EXCEPT ![d] = s]
    BY DEF Bill!DeliveryStage
  <2>3. \E e \in 0 .. MaxEvents : carries' = [carries EXCEPT ![d] = e] \/ carries' = carries
    BY <2>1
  <2>4. recorded' \subseteq Bill!Events
    BY <2>1
  <2> QED
    BY <2>1, <2>2, <2>3, <2>4
<1>3. Bill!TypeOK'
  <2>1. {plan', raised', billingCrossed', halved'} \subseteq BOOLEAN
    BY DEF Bill!TypeOK, Bill!Paid, Bill!RaisesLimit
  <2>2. failures' \in 0 .. 1
    BY <1>1 DEF Bill!TypeOK, BillingBounds
  <2> QED
    BY <1>1, <1>2, <2>1, <2>2 DEF Bill!TypeOK
<1>4. Carried'
  BY <1>1, <1>2 DEF Carried, Bill!TypeOK
<1>5. PlanIsCarried' /\ Bill!PlanMatchesLimit'
  <2>1. CASE Bill!ApplyPlan(d)
    BY <2>1, <1>1, <1>2 DEF PlanIsCarried, Bill!PlanMatchesLimit, Bill!TypeOK, Bill!Paid
  <2>2. CASE Bill!ApplyLimit(d)
    BY <2>2, <1>1, <1>2 DEF PlanIsCarried, Bill!PlanMatchesLimit, Bill!TypeOK, Bill!Paid,
       Bill!RaisesLimit
  <2>3. CASE Bill!WebhookFails(d)
    BY <2>3, <1>1, <1>2 DEF PlanIsCarried, Bill!PlanMatchesLimit, Bill!TypeOK, Bill!Paid
  <2>4. CASE \/ \E e \in Bill!Events : Bill!StripeWebhook(d, e) \/ Bill!RevenueCatWebhook(d, e)
             \/ Bill!MapStripeUser(d) \/ Bill!MapRevenueCatUser(d)
    <3>1. /\ UNCHANGED <<plan, raised, billingCrossed, halved>>
          /\ delivery[d] # "planned" /\ delivery'[d] # "planned"
      BY <2>4, <1>2 DEF Bill!TypeOK
    <3> QED
      BY <3>1, <1>1, <1>2 DEF PlanIsCarried, Bill!PlanMatchesLimit, Bill!TypeOK, Bill!Paid
  <2> QED
    BY <2>1, <2>2, <2>3, <2>4
<1>6. OneCustomer' /\ CustomersCounted'
  BY <1>1 DEF OneCustomer, CustomersCounted, HasCreated
<1> QED
  BY <1>3, <1>4, <1>5, <1>6

\* A restart ends every call.
LEMMA RestartKeepsBilling ==
  ASSUME BillingBounds, BillingInv, Bill!RestartBilling
  PROVE  BillingInv'
<1> USE DEF BillingInv, Bill!RestartBilling, Bill!stripeVars
<1>1. Bill!TypeOK'
  BY DEF Bill!TypeOK, Bill!DeliveryStage, Bill!CheckoutStage, BillingBounds
<1>2. Carried' /\ PlanIsCarried'
  BY DEF Carried, PlanIsCarried
<1>3. Bill!PlanMatchesLimit'
  BY DEF Bill!PlanMatchesLimit
<1>4. OneCustomer'
  BY DEF OneCustomer
<1>5. CustomersCounted'
  BY CountedGrows DEF HasCreated, Bill!TypeOK, BillingBounds
<1> QED
  BY <1>1, <1>2, <1>3, <1>4, <1>5

\* The start.
LEMMA InitBillingInv ==
  ASSUME BillingBounds, Bill!Init
  PROVE  BillingInv
<1> USE DEF Bill!Init
<1>1. Bill!TypeOK
  <2>1. 0 \in 0 .. MaxCheckouts /\ 0 \in 0 .. MaxEvents /\ 0 \in 0 .. 1
    BY DEF BillingBounds
  <2>2. /\ checkout \in [Bill!Checkouts -> Bill!CheckoutStage]
        /\ using \in [Bill!Checkouts -> 0 .. MaxCheckouts]
    BY <2>1 DEF Bill!CheckoutStage
  <2>3. /\ kind \in [Bill!Events -> Bill!Kind \union {"none"}]
        /\ of \in [Bill!Events -> 0 .. MaxCheckouts]
    BY <2>1
  <2>4. /\ delivery \in [Bill!Deliveries -> Bill!DeliveryStage]
        /\ carries \in [Bill!Deliveries -> 0 .. MaxEvents]
    BY <2>1 DEF Bill!DeliveryStage
  <2> QED
    BY <2>1, <2>2, <2>3, <2>4 DEF Bill!TypeOK
<1>2. HasCreated = {}
  BY DEF HasCreated
<1>3. CustomersCounted
  BY <1>2, FS_EmptySet DEF CustomersCounted
<1>4. Carried /\ PlanIsCarried /\ Bill!PlanMatchesLimit /\ OneCustomer
  BY DEF Carried, PlanIsCarried, Bill!PlanMatchesLimit, OneCustomer
<1> QED
  BY <1>1, <1>3, <1>4 DEF BillingInv

\* Every step keeps the invariant.
LEMMA NextKeepsBilling ==
  ASSUME BillingBounds, BillingInv, [Bill!Next]_(Bill!billingVars)
  PROVE  BillingInv'
<1>1. CASE UNCHANGED Bill!billingVars
  BY <1>1 DEF BillingInv, Bill!billingVars, Bill!stripeVars, Bill!checkoutVars,
     Bill!webhookVars, Bill!planVars, Bill!TypeOK,
     Carried, PlanIsCarried, Bill!PlanMatchesLimit, OneCustomer, CustomersCounted, HasCreated
<1>2. CASE Bill!Next
  BY <1>2, CheckoutKeepsBilling, ReportKeepsBilling, WebhookKeepsBilling, RestartKeepsBilling
  DEF Bill!Next
<1> QED
  BY <1>1, <1>2

\* In every state the calls, the rows and the customers fit together.
THEOREM BillingInvariant == ASSUME BillingBounds PROVE Bill!Spec => []BillingInv
<1>1. Bill!Init => BillingInv
  BY InitBillingInv
<1>2. BillingInv /\ [Bill!Next]_(Bill!billingVars) => BillingInv'
  BY NextKeepsBilling
<1> QED
  BY <1>1, <1>2, PTL DEF Bill!Spec

-----------------------------------------------------------------------------
(* What the plan allows.                                                    *)

EntitlementBounds ==
  /\ IsFiniteSet(Registrations)
  /\ FreeAgents \in Nat /\ PaidAgents \in Nat /\ MaxPlanWrites \in Nat

\* Each registration makes one agent at most.
Registered == {r \in Registrations : register[r] = "done"}
AgentsCounted == agents <= Cardinality(Registered)

\* No limit that was read is above the highest there was.
LimitsGranted ==
  /\ maxAgents <= granted
  /\ \A r \in Registrations : limit[r] <= granted

\* Until the user pays or is excused, a conversation allowed a turn is the only one, and
\* no other is busy, unless a late start has reopened it.
OneAllowed ==
  /\ ~everPaid => ~paid
  /\ (~everPaid /\ ~excused) => \A k \in Conversations :
       /\ creating[k] = "allowed" =>
            /\ busy \ reopened \subseteq {k}
            /\ \A j \in Conversations : creating[j] = "allowed" => j = k
       /\ k \in busy \ reopened => busy \ reopened \subseteq {k}

EntitlementInv == Plan!TypeOK /\ AgentsCounted /\ LimitsGranted /\ Plan!AgentsWithinLimit /\ OneAllowed

\* The component counts as this module does.
LEMMA PlanCounts == ASSUME NEW S PROVE Plan!Cardinality(S) = Cardinality(S)
  BY DEF Plan!Cardinality, Cardinality

\* The registrations that have made an agent are finitely many.
LEMMA RegisteredFinite ==
  ASSUME EntitlementBounds
  PROVE  /\ IsFiniteSet(Registered) /\ Cardinality(Registered) \in Nat
         /\ Cardinality(Registered) <= Cardinality(Registrations)
         /\ Cardinality(Registrations) \in Nat
  BY FS_Subset, FS_CardinalityType DEF Registered, EntitlementBounds

\* A write of the plan's rows.
LEMMA PlanKeepsEntitlements ==
  ASSUME EntitlementBounds, EntitlementInv, Plan!PlanWritten \/ Plan!LimitWritten
  PROVE  EntitlementInv'
<1> USE DEF EntitlementInv, Plan!agentRows, Plan!turnRows
<1>1. planWrites' \in 0 .. MaxPlanWrites
  BY DEF Plan!PlanWritten, Plan!LimitWritten, Plan!TypeOK, EntitlementBounds
<1>2. /\ maxAgents' \in {FreeAgents, PaidAgents} /\ granted' \in {FreeAgents, PaidAgents}
      /\ granted <= granted' /\ maxAgents' <= granted'
  BY DEF Plan!PlanWritten, Plan!LimitWritten, Plan!Larger, Plan!TypeOK, LimitsGranted,
     EntitlementBounds
<1>3. /\ {paid', everPaid'} \subseteq BOOLEAN
      /\ everPaid' \/ (UNCHANGED <<paid, everPaid>>)
  BY DEF Plan!PlanWritten, Plan!LimitWritten, Plan!TypeOK
<1>4. UNCHANGED <<account, Plan!agentRows, Plan!turnRows>>
  BY DEF Plan!PlanWritten, Plan!LimitWritten
<1>5. Plan!TypeOK'
  BY <1>1, <1>2, <1>3, <1>4 DEF Plan!TypeOK
<1>6. AgentsCounted'
  BY <1>4 DEF AgentsCounted, Registered
<1>7. LimitsGranted' /\ Plan!AgentsWithinLimit'
  <2>1. granted \in Nat /\ granted' \in Nat /\ agents \in Nat
        /\ \A r \in Registrations : limit[r] \in Nat
    BY <1>2, RegisteredFinite DEF Plan!TypeOK, EntitlementBounds
  <2> QED
    BY <2>1, <1>2, <1>4 DEF LimitsGranted, Plan!AgentsWithinLimit
<1>8. OneAllowed'
  BY <1>3, <1>4 DEF OneAllowed
<1> QED
  BY <1>5, <1>6, <1>7, <1>8

\* A pairing code is made and used, an agent is registered.
LEMMA AgentsKeepEntitlements ==
  ASSUME EntitlementBounds, EntitlementInv,
         \/ \E c \in PairingCodes :
              \/ Plan!CheckLimit(c) \/ Plan!CreatePairingCode(c)
              \/ \E r \in Registrations : Plan!ConsumePairingCode(r, c)
         \/ \E r \in Registrations : Plan!ReadLimit(r) \/ Plan!CreateAgent(r)
  PROVE  EntitlementInv'
<1> USE DEF EntitlementInv, Plan!planRows, Plan!turnRows
<1>1. UNCHANGED <<account, Plan!planRows, Plan!turnRows>>
  BY DEF Plan!CheckLimit, Plan!CreatePairingCode, Plan!ConsumePairingCode, Plan!ReadLimit,
     Plan!CreateAgent
<1>2. pairing' \in [PairingCodes -> Plan!PairingState]
  BY DEF Plan!CheckLimit, Plan!CreatePairingCode, Plan!ConsumePairingCode, Plan!ReadLimit,
     Plan!CreateAgent, Plan!TypeOK,
         Plan!PairingState
<1>3. /\ register' \in [Registrations -> Plan!RegisterStage]
      /\ \A r \in Registrations : register[r] = "done" => register'[r] = "done"
  BY DEF Plan!CheckLimit, Plan!CreatePairingCode, Plan!ConsumePairingCode, Plan!ReadLimit,
     Plan!CreateAgent, Plan!TypeOK,
         Plan!RegisterStage
<1>4. limit' \in [Registrations -> {0, FreeAgents, PaidAgents}] /\ LimitsGranted'
  BY <1>1 DEF Plan!CheckLimit, Plan!CreatePairingCode, Plan!ConsumePairingCode,
     Plan!ReadLimit, Plan!CreateAgent, Plan!TypeOK,
         LimitsGranted
<1>5. agents' \in Nat /\ AgentsCounted' /\ Plan!AgentsWithinLimit'
  <2>1. agents \in Nat /\ granted \in Nat /\ \A r \in Registrations : limit[r] \in Nat
    BY RegisteredFinite DEF Plan!TypeOK, EntitlementBounds
  <2>2. CASE agents' = agents
    <3>1. Registered \subseteq Registered' /\ Registered' \subseteq Registrations
      BY <1>3 DEF Registered
    <3>2. /\ IsFiniteSet(Registered') /\ Cardinality(Registered) <= Cardinality(Registered')
          /\ Cardinality(Registered) \in Nat /\ Cardinality(Registered') \in Nat
      BY <3>1, FS_Subset, FS_CardinalityType DEF EntitlementBounds
    <3> QED
      BY <2>1, <2>2, <3>2, <1>1 DEF AgentsCounted, Plan!AgentsWithinLimit
  <2>3. ASSUME NEW r \in Registrations, Plan!CreateAgent(r), account, Plan!CountsUnder(r)
        PROVE  agents' \in Nat /\ AgentsCounted' /\ Plan!AgentsWithinLimit'
    <3>1. agents' = agents + 1 /\ agents < limit[r] /\ limit[r] <= granted
      BY <2>3 DEF Plan!CreateAgent, Plan!CountsUnder, LimitsGranted
    <3>2. Registered' = Registered \union {r} /\ r \notin Registered
      BY <2>3 DEF Plan!CreateAgent, Registered, Plan!TypeOK
    <3>3. /\ Cardinality(Registered') = Cardinality(Registered) + 1
          /\ Cardinality(Registered) \in Nat
      BY <3>2, RegisteredFinite, FS_AddElement
    <3> QED
      BY <2>1, <2>3, <3>1, <3>3, <1>1 DEF AgentsCounted, Plan!AgentsWithinLimit
  <2> QED
    BY <2>2, <2>3 DEF Plan!CheckLimit, Plan!CreatePairingCode, Plan!ConsumePairingCode,
       Plan!ReadLimit, Plan!CreateAgent
<1>6. agents' \in 0 .. Cardinality(Registrations)
  <2>1. Registered' \subseteq Registrations
    BY DEF Registered
  <2>2. /\ Cardinality(Registered') <= Cardinality(Registrations)
        /\ Cardinality(Registered') \in Nat /\ Cardinality(Registrations) \in Nat
    BY <2>1, FS_Subset, FS_CardinalityType DEF EntitlementBounds
  <2> QED
    BY <2>2, <1>5 DEF AgentsCounted
<1>7. OneAllowed'
  BY <1>1 DEF OneAllowed
<1>8. Plan!TypeOK'
  BY <1>1, <1>2, <1>3, <1>4, <1>6, PlanCounts DEF Plan!TypeOK
<1> QED
  BY <1>4, <1>5, <1>7, <1>8

\* A turn is created, ends or is imported.
LEMMA TurnsKeepEntitlements ==
  ASSUME EntitlementBounds, EntitlementInv, NEW k \in Conversations,
         \/ Plan!ReadPlan(k) \/ Plan!FindOtherActive(k) \/ Plan!InsertTurn(k)
         \/ Plan!TurnsEnd(k) \/ Plan!StartLands(k) \/ Plan!ImportRunningTurn(k)
  PROVE  EntitlementInv'
<1> USE DEF EntitlementInv, Plan!planRows, Plan!agentRows
<1>1. UNCHANGED <<account, Plan!planRows, Plan!agentRows>>
  BY DEF Plan!ReadPlan, Plan!FindOtherActive, Plan!InsertTurn, Plan!TurnsEnd,
     Plan!StartLands, Plan!ImportRunningTurn
<1>2. /\ creating' \in [Conversations -> Plan!CreatingStage]
      /\ busy' \subseteq Conversations /\ starting' \subseteq Conversations
      /\ reopened' \subseteq busy' /\ excused' \in BOOLEAN
  BY DEF Plan!ReadPlan, Plan!FindOtherActive, Plan!InsertTurn, Plan!TurnsEnd,
     Plan!StartLands, Plan!ImportRunningTurn, Plan!TypeOK, Plan!CreatingStage
<1>3. Plan!TypeOK'
  BY <1>1, <1>2 DEF Plan!TypeOK
<1>4. AgentsCounted' /\ LimitsGranted'
  BY <1>1 DEF AgentsCounted, Registered, LimitsGranted
<1>5. Plan!AgentsWithinLimit'
  BY <1>1 DEF Plan!AgentsWithinLimit, Plan!ReadPlan, Plan!FindOtherActive, Plan!InsertTurn,
     Plan!TurnsEnd, Plan!StartLands, Plan!ImportRunningTurn
<1>6. OneAllowed'
  <2> USE DEF OneAllowed, Plan!TypeOK
  <2>1. CASE Plan!ReadPlan(k)
    BY <2>1, <1>1 DEF Plan!ReadPlan
  <2>2. CASE Plan!FindOtherActive(k)
    <3>1. UNCHANGED <<busy, reopened, paid, everPaid>> /\ (excused => excused')
      BY <2>2, <1>1 DEF Plan!FindOtherActive
    <3>2. CASE busy \subseteq {k} /\ \A j \in Conversations : creating[j] # "allowed"
      <4>1. \A j \in Conversations \ {k} : creating'[j] # "allowed"
        BY <2>2, <3>2 DEF Plan!FindOtherActive
      <4> QED
        BY <3>1, <3>2, <4>1
    <3>3. CASE ~(busy \subseteq {k})
      <4>1. ~Plan!NoOtherBusy(k)
        BY <3>3 DEF Plan!NoOtherBusy
      <4>2. \A j \in Conversations : creating'[j] = "allowed" => creating[j] = "allowed"
        BY <2>2, <4>1 DEF Plan!FindOtherActive
      <4> QED
        BY <3>1, <4>2
    <3>4. CASE busy \subseteq {k} /\ \E j \in Conversations : creating[j] = "allowed"
      <4>1. Plan!NoOtherBusy(k)
        BY <3>4 DEF Plan!NoOtherBusy
      <4>2. excused'
        BY <2>2, <3>4, <4>1 DEF Plan!FindOtherActive
      <4> QED
        BY <3>1, <4>2
    <3> QED
      BY <3>2, <3>3, <3>4
  <2>3. CASE Plan!InsertTurn(k)
    BY <2>3, <1>1 DEF Plan!InsertTurn
  <2>4. CASE Plan!TurnsEnd(k)
    BY <2>4, <1>1 DEF Plan!TurnsEnd
  <2>5. CASE Plan!ImportRunningTurn(k)
    BY <2>5, <1>1 DEF Plan!ImportRunningTurn
  <2>6. CASE Plan!StartLands(k)
    <3>1. busy' \ reopened' = busy \ reopened
      BY <2>6 DEF Plan!StartLands
    <3> QED
      BY <2>6, <3>1, <1>1 DEF Plan!StartLands
  <2> QED
    BY <2>1, <2>2, <2>3, <2>4, <2>5, <2>6
<1> QED
  BY <1>3, <1>4, <1>5, <1>6

\* The account goes, and its agents and turns with it.
LEMMA DeletionKeepsEntitlements ==
  ASSUME EntitlementBounds, EntitlementInv, Plan!DeleteUserAccount
  PROVE  EntitlementInv'
<1> USE DEF EntitlementInv, Plan!DeleteUserAccount, Plan!planRows
<1>1. Cardinality(Registered) \in Nat /\ Cardinality(Registrations) \in Nat
  BY RegisteredFinite
<1>2. pairing' \in [PairingCodes -> Plan!PairingState]
  BY DEF Plan!PairingState
<1>3. Plan!TypeOK'
  <2>1. /\ {account', paid', everPaid', excused'} \subseteq BOOLEAN
        /\ busy' \subseteq Conversations /\ starting' \subseteq Conversations
        /\ reopened' \subseteq busy'
    BY DEF Plan!TypeOK
  <2>2. agents' \in 0 .. Cardinality(Registrations)
    BY <1>1
  <2> QED
    BY <1>2, <2>1, <2>2, PlanCounts DEF Plan!TypeOK
<1>4. AgentsCounted'
  BY <1>1 DEF AgentsCounted, Registered
<1>5. LimitsGranted' /\ Plan!AgentsWithinLimit'
  BY DEF LimitsGranted, Plan!AgentsWithinLimit, Plan!TypeOK, EntitlementBounds
<1>6. OneAllowed'
  BY DEF OneAllowed
<1> QED
  BY <1>3, <1>4, <1>5, <1>6

\* The start.
LEMMA InitEntitlementInv ==
  ASSUME EntitlementBounds, Plan!Init
  PROVE  EntitlementInv
<1> USE DEF Plan!Init, EntitlementBounds
<1>1. Cardinality(Registered) \in Nat /\ Cardinality(Registrations) \in Nat
  BY RegisteredFinite
<1>2. Plan!TypeOK
  <2>1. /\ {account, paid, everPaid, excused} \subseteq BOOLEAN
        /\ busy \subseteq Conversations /\ starting \subseteq Conversations
        /\ reopened \subseteq busy
    OBVIOUS
  <2>2. agents \in 0 .. Cardinality(Registrations) /\ planWrites \in 0 .. MaxPlanWrites
    BY <1>1
  <2>3. /\ pairing \in [PairingCodes -> Plan!PairingState]
        /\ register \in [Registrations -> Plan!RegisterStage]
        /\ creating \in [Conversations -> Plan!CreatingStage]
    BY DEF Plan!PairingState, Plan!RegisterStage, Plan!CreatingStage
  <2> QED
    BY <2>1, <2>2, <2>3, PlanCounts DEF Plan!TypeOK
<1>3. AgentsCounted /\ LimitsGranted /\ Plan!AgentsWithinLimit /\ OneAllowed
  BY <1>1 DEF AgentsCounted, LimitsGranted, Plan!AgentsWithinLimit, OneAllowed
<1> QED
  BY <1>2, <1>3 DEF EntitlementInv

\* Every step keeps the invariant.
LEMMA NextKeepsEntitlements ==
  ASSUME EntitlementBounds, EntitlementInv, [Plan!Next]_(Plan!entitlementVars)
  PROVE  EntitlementInv'
<1>1. CASE UNCHANGED Plan!entitlementVars
  BY <1>1 DEF EntitlementInv, Plan!entitlementVars, Plan!planRows, Plan!agentRows,
     Plan!turnRows, Plan!TypeOK,
     AgentsCounted, Registered, LimitsGranted, Plan!AgentsWithinLimit, OneAllowed
<1>2. CASE Plan!Next
  BY <1>2, PlanKeepsEntitlements, AgentsKeepEntitlements, TurnsKeepEntitlements,
     DeletionKeepsEntitlements DEF Plan!Next
<1> QED
  BY <1>1, <1>2

\* No more than one conversation is busy that was not reopened.
LEMMA OneBusy ==
  ASSUME EntitlementInv
  PROVE  Plan!OneActiveConversation
<1> SUFFICES ASSUME ~everPaid, ~excused PROVE Cardinality(busy \ reopened) <= 1
  BY PlanCounts DEF Plan!OneActiveConversation
<1>1. CASE busy \ reopened = {}
  BY <1>1, FS_EmptySet
<1>2. ASSUME NEW k \in busy \ reopened PROVE Cardinality(busy \ reopened) <= 1
  <2>1. busy \ reopened = {k}
    BY <1>2 DEF EntitlementInv, OneAllowed, Plan!TypeOK
  <2>2. Cardinality({k}) = 1
    BY FS_Singleton
  <2> QED
    BY <2>1, <2>2
<1> QED
  BY <1>1, <1>2

\* In every state what was granted covers what there is.
THEOREM EntitlementInvariant ==
  ASSUME EntitlementBounds PROVE Plan!Spec => []EntitlementInv
<1>1. Plan!Init => EntitlementInv
  BY InitEntitlementInv
<1>2. EntitlementInv /\ [Plan!Next]_(Plan!entitlementVars) => EntitlementInv'
  BY NextKeepsEntitlements
<1> QED
  BY <1>1, <1>2, PTL DEF Plan!Spec

-----------------------------------------------------------------------------
(* The turns copied from codex.                                             *)

HydrationBounds ==
  /\ MaxHydrations \in Nat /\ MaxTurns \in Nat /\ 1 \in Nat
  /\ Final \subseteq {"completed", "failed"}

ThreadStatus == {"running"} \union Final

\* The agent starts a turn of a user once, and its row is there until then unless a
\* hydration has deleted it.
LiveInv ==
  \A l \in LiveTurns :
    /\ turnOf[l] <= Len(thread)
    /\ turnOf[l] # 0 => routeAt[l] = "sent" /\ l \notin sent
    /\ l \in sent => routeAt[l] = "sent"
    /\ \A m \in LiveTurns : (turnOf[l] # 0 /\ turnOf[l] = turnOf[m]) => l = m
    /\ (routeAt[l] # "idle" /\ turnOf[l] = 0 /\ l \notin early) =>
         Hydrate!RowOf(l) \in DOMAIN rows

\* A hydration has read some turns of the thread, from the first.
SnapshotInv ==
  /\ DOMAIN snapshot = Hydrate!Hydrations /\ DOMAIN nextTurn = Hydrate!Hydrations
  /\ \A h \in Hydrate!Hydrations :
       /\ snapshot[h] \in Seq(ThreadStatus) /\ Len(snapshot[h]) <= Len(thread)
       /\ nextTurn[h] \in Nat
       /\ hydration[h] = "copying" => nextTurn[h] > 0

\* A row is of the turn it was made for.
RowInv ==
  \A r \in DOMAIN rows :
    /\ r[2] = 0 => rows[r].codex \in {0, turnOf[r[1]]}
    /\ r[2] # 0 => rows[r].codex = r[2] /\ r[2] <= Len(thread)

\* Until two hydrations overlap, the copies are those of one, and the rows of users are
\* of turns after those it has read.
After(r, k) == r[2] = 0 => (turnOf[r[1]] = 0 \/ turnOf[r[1]] > k)
CopiesApart ==
  ~overlapped =>
    /\ \A h, g \in Hydrate!Hydrations : (Hydrate!AtWork(h) /\ Hydrate!AtWork(g)) => h = g
    /\ \A q, r \in DOMAIN rows : q[2] # 0 => /\ r[2] # 0 => r[1] = q[1]
                                             /\ After(r, q[2])
    /\ \A h \in Hydrate!Hydrations : hydration[h] = "copying" =>
         \A r \in DOMAIN rows : /\ r[2] # 0 => r[1] = h
                                /\ After(r, Len(snapshot[h]))

\* Until a hydration fails half done, what it has deleted will be copied.
WillBeShown ==
  ~halfDone => \A l \in LiveTurns :
    (turnOf[l] # 0 /\ turnOf[l] \notin earlyTurns) =>
      \/ \E r \in DOMAIN rows : Hydrate!CodexTurnOf(r) = turnOf[l]
      \/ \E h \in Hydrate!Hydrations : /\ hydration[h] = "copying"
                                       /\ nextTurn[h] <= turnOf[l]
                                       /\ turnOf[l] <= Len(snapshot[h])

HydrationInv ==
  Hydrate!TypeOK /\ LiveInv /\ SnapshotInv /\ RowInv /\ CopiesApart /\ WillBeShown

RowSet == [status : {"queued", "running"} \union Final, codex : 0 .. MaxTurns]

\* What the type invariant says of the rows and the numbers.
LEMMA HydrationTypes ==
  ASSUME HydrationBounds, Hydrate!TypeOK
  PROVE  /\ thread \in Seq(ThreadStatus) /\ Len(thread) \in Nat /\ Len(thread) <= MaxTurns
         /\ MaxTurns \in Nat
         /\ \A l \in LiveTurns : turnOf[l] \in 0 .. MaxTurns /\ turnOf[l] \in Nat
         /\ \A r \in DOMAIN rows :
              /\ rows[r] \in RowSet /\ rows[r].codex \in 0 .. MaxTurns
              /\ r[2] \in Nat /\ r = <<r[1], r[2]>>
              /\ r[2] = 0 => r[1] \in LiveTurns /\ r = Hydrate!RowOf(r[1])
              /\ r[2] # 0 => r[1] \in Hydrate!Hydrations /\ r[2] \in Hydrate!TurnNo
<1>1. thread \in Seq(ThreadStatus) /\ Len(thread) <= MaxTurns /\ MaxTurns \in Nat
  BY DEF Hydrate!TypeOK, ThreadStatus, HydrationBounds
<1>2. \A l \in LiveTurns : turnOf[l] \in 0 .. MaxTurns /\ turnOf[l] \in Nat
  BY <1>1 DEF Hydrate!TypeOK
<1>3. \A r \in DOMAIN rows :
        /\ rows[r] \in RowSet /\ rows[r].codex \in 0 .. MaxTurns
        /\ r[2] \in Nat /\ r = <<r[1], r[2]>>
        /\ r[2] = 0 => r[1] \in LiveTurns /\ r = Hydrate!RowOf(r[1])
        /\ r[2] # 0 => r[1] \in Hydrate!Hydrations /\ r[2] \in Hydrate!TurnNo
  <2> TAKE r \in DOMAIN rows
  <2>1. rows[r] \in RowSet
    BY DEF Hydrate!TypeOK, RowSet
  <2>2. r \in Hydrate!RowId
    BY DEF Hydrate!TypeOK
  <2> QED
    BY <2>1, <2>2, <1>1 DEF RowSet, Hydrate!RowId, Hydrate!RowOf, Hydrate!TurnNo
<1> QED
  BY <1>1, <1>2, <1>3

\* A row with its status and codex turn is typed.
LEMMA RowIsTyped ==
  ASSUME NEW status \in {"queued", "running"} \union Final, NEW k \in 0 .. MaxTurns
  PROVE  Hydrate!Row(status, k) \in RowSet /\ Hydrate!Row(status, k).codex = k
  BY DEF Hydrate!Row, RowSet

\* The row of a turn.
LEMMA RowOfTurn ==
  ASSUME NEW l
  PROVE  Hydrate!RowOf(l)[1] = l /\ Hydrate!RowOf(l)[2] = 0 /\ (l \in LiveTurns => Hydrate!RowOf(l) \in Hydrate!RowId)
  BY DEF Hydrate!RowOf, Hydrate!RowId

\* A user creates a turn.
LEMMA CreateKeepsRows ==
  ASSUME HydrationBounds, HydrationInv, NEW l \in LiveTurns, Hydrate!CreateConversationTurn(l)
  PROVE  HydrationInv'
<1> USE DEF HydrationInv
<1>0. Hydrate!TypeOK /\ LiveInv /\ SnapshotInv /\ RowInv /\ CopiesApart /\ WillBeShown
  OBVIOUS
<1>1. /\ routeAt[l] = "idle" /\ routeAt' = [routeAt EXCEPT ![l] = "created"]
      /\ DOMAIN rows' = DOMAIN rows \union {Hydrate!RowOf(l)}
      /\ rows'[Hydrate!RowOf(l)] = Hydrate!Row("queued", 0)
      /\ \A r \in DOMAIN rows : r # Hydrate!RowOf(l) => rows'[r] = rows[r]
      /\ UNCHANGED <<thread, turnOf, sent, convStatus, writes, hydration, snapshot, nextTurn,
                     overlapped, halfDone, early, earlyTurns, hydrationFailures>>
  BY DEF Hydrate!CreateConversationTurn, Hydrate!progressVars, Hydrate!ghostVars
<1>2. Hydrate!Row("queued", 0) \in RowSet /\ Hydrate!Row("queued", 0).codex = 0
  BY RowIsTyped, HydrationTypes
<1>3. Hydrate!RowOf(l)[1] = l /\ Hydrate!RowOf(l)[2] = 0 /\ Hydrate!RowOf(l) \in Hydrate!RowId
  BY RowOfTurn
<1>4. turnOf[l] = 0
  BY <1>0, <1>1 DEF LiveInv
<1>a. Hydrate!TypeOK'
  BY <1>0, <1>1, <1>2, <1>3 DEF Hydrate!TypeOK, RowSet
<1>b. LiveInv'
  BY <1>0, <1>1, <1>4 DEF LiveInv, Hydrate!TypeOK
<1>c. SnapshotInv'
  BY <1>0, <1>1 DEF SnapshotInv
<1>d. RowInv'
  BY <1>0, <1>1, <1>2, <1>3 DEF RowInv
<1>e. CopiesApart'
  BY <1>0, <1>1, <1>3, <1>4 DEF CopiesApart, After, Hydrate!AtWork
<1>f. \A r \in DOMAIN rows : Hydrate!CodexTurnOf(r)' = Hydrate!CodexTurnOf(r)
  BY <1>1, <1>3 DEF Hydrate!CodexTurnOf
<1>g. WillBeShown'
  BY <1>0, <1>1, <1>f DEF WillBeShown
<1> QED
  BY <1>a, <1>b, <1>c, <1>d, <1>e, <1>g

\* The route or the dispatcher sends it.
LEMMA SendKeepsRows ==
  ASSUME HydrationBounds, HydrationInv, NEW l \in LiveTurns, Hydrate!SendTurn(l)
  PROVE  HydrationInv'
<1> USE DEF HydrationInv
<1>0. Hydrate!TypeOK /\ LiveInv /\ SnapshotInv /\ RowInv /\ CopiesApart /\ WillBeShown
  OBVIOUS
<1>1. /\ routeAt[l] = "created" /\ routeAt' = [routeAt EXCEPT ![l] = "sent"]
      /\ sent' = sent \union {l} /\ convStatus' = "running"
      /\ UNCHANGED <<thread, turnOf, rows, writes, hydration, snapshot, nextTurn,
                     overlapped, halfDone, early, earlyTurns, hydrationFailures>>
  BY DEF Hydrate!SendTurn, Hydrate!progressVars, Hydrate!ghostVars
<1>a. Hydrate!TypeOK'
  BY <1>0, <1>1 DEF Hydrate!TypeOK
<1>b. LiveInv'
  BY <1>0, <1>1 DEF LiveInv, Hydrate!TypeOK
<1>c. SnapshotInv' /\ RowInv'
  BY <1>0, <1>1 DEF SnapshotInv, RowInv
<1>d. CopiesApart'
  BY <1>0, <1>1 DEF CopiesApart, After, Hydrate!AtWork
<1>e. WillBeShown'
  BY <1>0, <1>1 DEF WillBeShown, Hydrate!CodexTurnOf
<1> QED
  BY <1>a, <1>b, <1>c, <1>d, <1>e

\* A turn is appended to the thread.
LEMMA ThreadGrows ==
  ASSUME HydrationBounds, Hydrate!TypeOK, Len(thread) < MaxTurns, thread' = Append(thread, "running")
  PROVE  /\ thread' \in Seq(ThreadStatus) /\ Len(thread') = Len(thread) + 1
         /\ Len(thread') <= MaxTurns /\ Len(thread') \in 1 .. MaxTurns
<1>1. thread \in Seq(ThreadStatus) /\ MaxTurns \in Nat
  BY HydrationTypes
<1>2. "running" \in ThreadStatus
  BY DEF ThreadStatus
<1>3. thread' \in Seq(ThreadStatus) /\ Len(thread') = Len(thread) + 1
  BY <1>1, <1>2
<1> QED
  BY <1>1, <1>3

\* The agent starts the turn of a user.
LEMMA StartKeepsRows ==
  ASSUME HydrationBounds, HydrationInv, NEW l \in LiveTurns, Hydrate!AgentStartsTurn(l)
  PROVE  HydrationInv'
<1> USE DEF HydrationInv
<1>0. Hydrate!TypeOK /\ LiveInv /\ SnapshotInv /\ RowInv /\ CopiesApart /\ WillBeShown
  OBVIOUS
<1>1. /\ l \in sent /\ sent' = sent \ {l}
      /\ turnOf' = [turnOf EXCEPT ![l] = Len(thread')]
      /\ writes' = writes \union {<<l, "running">>}
      /\ earlyTurns' = IF l \in early THEN earlyTurns \union {Len(thread')} ELSE earlyTurns
      /\ UNCHANGED <<routeAt, rows, convStatus, hydration, snapshot, nextTurn, overlapped,
                     halfDone, early, hydrationFailures>>
  BY DEF Hydrate!AgentStartsTurn, Hydrate!progressVars
<1>2. /\ thread' \in Seq(ThreadStatus) /\ Len(thread') = Len(thread) + 1
      /\ Len(thread') <= MaxTurns /\ Len(thread') \in 1 .. MaxTurns
  BY ThreadGrows DEF Hydrate!AgentStartsTurn
<1>3. /\ Len(thread) \in Nat /\ \A m \in LiveTurns : turnOf[m] \in Nat
      /\ \A r \in DOMAIN rows : r[2] = 0 => r[1] \in LiveTurns /\ r = Hydrate!RowOf(r[1])
      /\ \A r \in DOMAIN rows : r[2] \in Nat
      /\ MaxTurns \in Nat
  BY HydrationTypes
<1>4. turnOf[l] = 0 /\ routeAt[l] = "sent" /\ turnOf'[l] = Len(thread) + 1
  BY <1>0, <1>1, <1>2 DEF LiveInv, Hydrate!TypeOK
<1>5. \A m \in LiveTurns : m # l => turnOf'[m] = turnOf[m]
  BY <1>0, <1>1 DEF Hydrate!TypeOK
<1>a. Hydrate!TypeOK'
  <2>1. turnOf' \in [LiveTurns -> 0 .. MaxTurns]
    BY <1>0, <1>1, <1>2, <1>3 DEF Hydrate!TypeOK
  <2>2. earlyTurns' \subseteq Hydrate!TurnNo
    BY <1>0, <1>1, <1>2 DEF Hydrate!TypeOK, Hydrate!TurnNo
  <2>3. thread' \in Seq({"running"} \union Final) /\ Len(thread') <= MaxTurns
    BY <1>2 DEF ThreadStatus
  <2> QED
    BY <1>0, <1>1, <2>1, <2>2, <2>3 DEF Hydrate!TypeOK
<1>b. LiveInv'
  BY <1>0, <1>1, <1>2, <1>3, <1>4, <1>5 DEF LiveInv, Hydrate!TypeOK
<1>c. SnapshotInv'
  <2> SUFFICES ASSUME NEW h \in Hydrate!Hydrations
               PROVE  Len(snapshot[h]) <= Len(thread')
    BY <1>0, <1>1 DEF SnapshotInv
  <2>1. snapshot[h] \in Seq(ThreadStatus) /\ Len(snapshot[h]) <= Len(thread)
    BY <1>0 DEF SnapshotInv
  <2> QED
    BY <2>1, <1>2, <1>3
<1>d. RowInv'
  <2> SUFFICES ASSUME NEW r \in DOMAIN rows
               PROVE  /\ r[2] = 0 => rows[r].codex \in {0, turnOf'[r[1]]}
                      /\ r[2] # 0 => rows[r].codex = r[2] /\ r[2] <= Len(thread')
    BY <1>1 DEF RowInv
  <2>1. /\ r[2] = 0 => rows[r].codex \in {0, turnOf[r[1]]}
        /\ r[2] # 0 => rows[r].codex = r[2] /\ r[2] <= Len(thread)
    BY <1>0 DEF RowInv
  <2>2. r[2] = 0 => r[1] \in LiveTurns
    BY <1>3
  <2>3. r[2] \in Nat
    BY <1>3
  <2> QED
    BY <2>1, <2>2, <2>3, <1>2, <1>3, <1>4, <1>5
<1>e. \A r \in DOMAIN rows, k \in Nat : (k <= Len(thread) /\ After(r, k)) => After(r, k)'
  <2> SUFFICES ASSUME NEW r \in DOMAIN rows, NEW k \in Nat, k <= Len(thread), After(r, k),
                      r[2] = 0
               PROVE  turnOf'[r[1]] = 0 \/ turnOf'[r[1]] > k
    BY DEF After
  <2>1. r[1] \in LiveTurns
    BY <1>3
  <2> QED
    BY <2>1, <1>3, <1>4, <1>5 DEF After
<1>f. CopiesApart'
  <2> SUFFICES ASSUME ~overlapped
               PROVE  CopiesApart'
    BY <1>1 DEF CopiesApart
  <2>1. \A h, g \in Hydrate!Hydrations : (Hydrate!AtWork(h)' /\ Hydrate!AtWork(g)') => h = g
    BY <1>0, <1>1 DEF CopiesApart, Hydrate!AtWork
  <2>2. ASSUME NEW q \in DOMAIN rows, NEW r \in DOMAIN rows, q[2] # 0
        PROVE  (r[2] # 0 => r[1] = q[1]) /\ After(r, q[2])'
    <3>1. (r[2] # 0 => r[1] = q[1]) /\ After(r, q[2])
      BY <1>0, <2>2 DEF CopiesApart
    <3>2. q[2] \in Nat /\ q[2] <= Len(thread)
      BY <1>0, <1>3, <2>2 DEF RowInv
    <3> QED
      BY <3>1, <3>2, <1>e
  <2>3. ASSUME NEW h \in Hydrate!Hydrations, hydration[h] = "copying", NEW r \in DOMAIN rows
        PROVE  (r[2] # 0 => r[1] = h) /\ After(r, Len(snapshot[h]))'
    <3>1. (r[2] # 0 => r[1] = h) /\ After(r, Len(snapshot[h]))
      BY <1>0, <2>3 DEF CopiesApart
    <3>2. Len(snapshot[h]) \in Nat /\ Len(snapshot[h]) <= Len(thread)
      BY <1>0 DEF SnapshotInv
    <3>3. After(r, Len(snapshot[h]))' <=> (r[2] = 0 => turnOf'[r[1]] = 0 \/ turnOf'[r[1]] > Len(snapshot[h]))
      BY <1>1 DEF After
    <3>4. \A k \in Nat : After(r, k)' <=> (r[2] = 0 => turnOf'[r[1]] = 0 \/ turnOf'[r[1]] > k)
      BY DEF After
    <3> QED
      BY <3>1, <3>2, <3>3, <3>4, <1>e
  <2>4. \A q \in DOMAIN rows' : q[2]' = q[2]
    OBVIOUS
  <2> QED
    BY <2>1, <2>2, <2>3, <1>1 DEF CopiesApart, After
<1>g. WillBeShown'
  <2> SUFFICES ASSUME ~halfDone, NEW m \in LiveTurns, turnOf'[m] # 0, turnOf'[m] \notin earlyTurns'
               PROVE  \/ \E r \in DOMAIN rows : Hydrate!CodexTurnOf(r)' = turnOf'[m]
                      \/ \E h \in Hydrate!Hydrations : /\ hydration[h] = "copying"
                                                       /\ nextTurn[h] <= turnOf'[m]
                                                       /\ turnOf'[m] <= Len(snapshot[h])
    BY <1>1 DEF WillBeShown
  <2>1. CASE m = l
    <3>1. l \notin early
      BY <2>1, <1>1, <1>2, <1>4
    <3>2. Hydrate!RowOf(l) \in DOMAIN rows
      BY <1>0, <1>4, <3>1 DEF LiveInv
    <3>3. Hydrate!CodexTurnOf(Hydrate!RowOf(l))' = turnOf'[l]
      BY RowOfTurn DEF Hydrate!CodexTurnOf
    <3> QED
      BY <2>1, <3>2, <3>3
  <2>2. CASE m # l
    <3>1. turnOf'[m] = turnOf[m] /\ turnOf[m] # 0 /\ turnOf[m] \notin earlyTurns
      BY <2>2, <1>1, <1>5
    <3>2. \A r \in DOMAIN rows : Hydrate!CodexTurnOf(r) = turnOf[m] =>
            Hydrate!CodexTurnOf(r)' = turnOf[m]
      BY <3>1, <1>1, <1>3, <1>4, <1>5 DEF Hydrate!CodexTurnOf
    <3> QED
      BY <1>0, <3>1, <3>2 DEF WillBeShown
  <2> QED
    BY <2>1, <2>2
<1> QED
  BY <1>a, <1>b, <1>c, <1>d, <1>f, <1>g

\* The user starts a turn on the computer.
LEMMA DesktopKeepsRows ==
  ASSUME HydrationBounds, HydrationInv, Hydrate!DesktopTurn
  PROVE  HydrationInv'
<1> USE DEF HydrationInv
<1>0. Hydrate!TypeOK /\ LiveInv /\ SnapshotInv /\ RowInv /\ CopiesApart /\ WillBeShown
  OBVIOUS
<1>1. UNCHANGED <<turnOf, sent, routeAt, rows, convStatus, writes, hydration, snapshot,
                   nextTurn,
                  overlapped, halfDone, early, earlyTurns, hydrationFailures>>
  BY DEF Hydrate!DesktopTurn, Hydrate!rowVars, Hydrate!progressVars, Hydrate!ghostVars
<1>2. /\ thread' \in Seq(ThreadStatus) /\ Len(thread') = Len(thread) + 1
      /\ Len(thread') <= MaxTurns
  BY ThreadGrows DEF Hydrate!DesktopTurn
<1>3. /\ Len(thread) \in Nat /\ \A m \in LiveTurns : turnOf[m] \in Nat
      /\ \A r \in DOMAIN rows : r[2] \in Nat
  BY HydrationTypes
<1>a. Hydrate!TypeOK'
  BY <1>0, <1>1, <1>2 DEF Hydrate!TypeOK, ThreadStatus
<1>b. LiveInv'
  BY <1>0, <1>1, <1>2, <1>3 DEF LiveInv
<1>c. SnapshotInv'
  <2> SUFFICES ASSUME NEW h \in Hydrate!Hydrations
               PROVE  Len(snapshot[h]) <= Len(thread')
    BY <1>0, <1>1 DEF SnapshotInv
  <2>1. snapshot[h] \in Seq(ThreadStatus) /\ Len(snapshot[h]) <= Len(thread)
    BY <1>0 DEF SnapshotInv
  <2> QED
    BY <2>1, <1>2, <1>3
<1>d. RowInv'
  BY <1>0, <1>1, <1>2, <1>3 DEF RowInv
<1>e. CopiesApart'
  BY <1>0, <1>1 DEF CopiesApart, After, Hydrate!AtWork
<1>f. WillBeShown'
  BY <1>0, <1>1 DEF WillBeShown, Hydrate!CodexTurnOf
<1> QED
  BY <1>a, <1>b, <1>c, <1>d, <1>e, <1>f

\* A turn of the thread ends.
LEMMA EndKeepsRows ==
  ASSUME HydrationBounds, HydrationInv, NEW k \in Hydrate!TurnNo, NEW outcome \in Final,
         Hydrate!TurnEnds(k, outcome)
  PROVE  HydrationInv'
<1> USE DEF HydrationInv
<1>0. Hydrate!TypeOK /\ LiveInv /\ SnapshotInv /\ RowInv /\ CopiesApart /\ WillBeShown
  OBVIOUS
<1>1. /\ thread' = [thread EXCEPT ![k] = outcome]
      /\ writes' = writes \union {<<l, outcome>> : l \in {m \in LiveTurns : turnOf[m] = k}}
      /\ UNCHANGED <<turnOf, sent, routeAt, rows, convStatus, hydration, snapshot, nextTurn,
                     overlapped, halfDone, early, earlyTurns, hydrationFailures>>
  BY DEF Hydrate!TurnEnds, Hydrate!progressVars, Hydrate!ghostVars
<1>2. thread' \in Seq(ThreadStatus) /\ Len(thread') = Len(thread)
  <2>1. thread \in Seq(ThreadStatus) /\ outcome \in ThreadStatus
    BY HydrationTypes DEF ThreadStatus
  <2>2. k \in 1 .. Len(thread)
    BY DEF Hydrate!TurnEnds
  <2> QED
    BY <1>1, <2>1, <2>2, ExceptSeq
<1>a. Hydrate!TypeOK'
  BY <1>0, <1>1, <1>2 DEF Hydrate!TypeOK, ThreadStatus
<1>b. LiveInv' /\ SnapshotInv' /\ RowInv'
  BY <1>0, <1>1, <1>2 DEF LiveInv, SnapshotInv, RowInv
<1>c. CopiesApart'
  BY <1>0, <1>1 DEF CopiesApart, After, Hydrate!AtWork
<1>d. WillBeShown'
  BY <1>0, <1>1 DEF WillBeShown, Hydrate!CodexTurnOf
<1> QED
  BY <1>a, <1>b, <1>c, <1>d

\* The write of an event reaches the row, or finds none.
LEMMA WriteKeepsRows ==
  ASSUME HydrationBounds, HydrationInv, NEW l \in LiveTurns,
         NEW status \in {"running"} \union Final, Hydrate!WriteEvent(l, status)
  PROVE  HydrationInv'
<1> USE DEF HydrationInv
<1>0. Hydrate!TypeOK /\ LiveInv /\ SnapshotInv /\ RowInv /\ CopiesApart /\ WillBeShown
  OBVIOUS
<1>1. /\ writes' = writes \ {<<l, status>>} /\ DOMAIN rows' = DOMAIN rows
      /\ Hydrate!RowOf(l) \in DOMAIN rows =>
           rows'[Hydrate!RowOf(l)] =
             Hydrate!Row(status, IF status = "running" THEN turnOf[l] ELSE rows[Hydrate!RowOf(l)].codex)
      /\ \A r \in DOMAIN rows : r # Hydrate!RowOf(l) => rows'[r] = rows[r]
      /\ convStatus' = IF status = "completed" THEN "idle" ELSE status
      /\ UNCHANGED <<thread, turnOf, sent, routeAt, hydration, snapshot, nextTurn,
                     overlapped, halfDone, early, earlyTurns, hydrationFailures>>
  BY DEF Hydrate!WriteEvent, Hydrate!liveVars, Hydrate!progressVars, Hydrate!ghostVars
<1>2. Hydrate!RowOf(l) \in DOMAIN rows =>
        /\ rows'[Hydrate!RowOf(l)] \in RowSet
        /\ rows'[Hydrate!RowOf(l)].codex \in {turnOf[l], rows[Hydrate!RowOf(l)].codex}
  BY <1>1, RowIsTyped, HydrationTypes
<1>3. Hydrate!RowOf(l)[1] = l /\ Hydrate!RowOf(l)[2] = 0
  BY RowOfTurn
<1>a. Hydrate!TypeOK'
  <2>1. \A r \in DOMAIN rows' : rows'[r] \in RowSet
    BY <1>1, <1>2, HydrationTypes
  <2>2. convStatus' \in {"idle", "running", "failed"}
    BY <1>1 DEF HydrationBounds
  <2> QED
    BY <1>0, <1>1, <2>1, <2>2 DEF Hydrate!TypeOK, RowSet
<1>b. LiveInv' /\ SnapshotInv'
  BY <1>0, <1>1 DEF LiveInv, SnapshotInv
<1>d. RowInv'
  BY <1>0, <1>1, <1>2, <1>3 DEF RowInv
<1>e. CopiesApart'
  BY <1>0, <1>1 DEF CopiesApart, After, Hydrate!AtWork
<1>f. \A r \in DOMAIN rows : Hydrate!CodexTurnOf(r)' = Hydrate!CodexTurnOf(r)
  BY <1>1, <1>3 DEF Hydrate!CodexTurnOf
<1>g. WillBeShown'
  BY <1>0, <1>1, <1>f DEF WillBeShown
<1> QED
  BY <1>a, <1>b, <1>d, <1>e, <1>g

\* A hydration begins.
LEMMA BeginKeepsRows ==
  ASSUME HydrationBounds, HydrationInv, NEW h \in Hydrate!Hydrations, Hydrate!StartHydration(h)
  PROVE  HydrationInv'
<1> USE DEF HydrationInv
<1>0. Hydrate!TypeOK /\ LiveInv /\ SnapshotInv /\ RowInv /\ CopiesApart /\ WillBeShown
  OBVIOUS
<1>1. /\ hydration[h] = "idle" /\ hydration' = [hydration EXCEPT ![h] = "reading"]
      /\ overlapped' = (overlapped \/ \E g \in Hydrate!Hydrations : Hydrate!AtWork(g))
      /\ UNCHANGED <<thread, turnOf, sent, routeAt, rows, convStatus, writes, snapshot,
                      nextTurn,
                     halfDone, early, earlyTurns, hydrationFailures>>
  BY DEF Hydrate!StartHydration, Hydrate!liveVars, Hydrate!rowVars
<1>2. hydration \in [Hydrate!Hydrations -> Hydrate!Stage]
  BY <1>0 DEF Hydrate!TypeOK
<1>3. \A g \in Hydrate!Hydrations : g # h => hydration'[g] = hydration[g]
  BY <1>1, <1>2
<1>4. hydration'[h] = "reading"
  BY <1>1, <1>2
<1>a. Hydrate!TypeOK'
  BY <1>0, <1>1 DEF Hydrate!TypeOK, Hydrate!Stage
<1>b. LiveInv' /\ SnapshotInv' /\ RowInv'
  BY <1>0, <1>1, <1>3, <1>4 DEF LiveInv, SnapshotInv, RowInv
<1>c. CopiesApart'
  BY <1>0, <1>1, <1>3, <1>4 DEF CopiesApart, After, Hydrate!AtWork
<1>d. WillBeShown'
  BY <1>0, <1>1, <1>3, <1>4 DEF WillBeShown, Hydrate!CodexTurnOf
<1> QED
  BY <1>a, <1>b, <1>c, <1>d

\* The agent answers with the thread as it is.
LEMMA ReadKeepsRows ==
  ASSUME HydrationBounds, HydrationInv, NEW h \in Hydrate!Hydrations, Hydrate!ThreadRead(h)
  PROVE  HydrationInv'
<1> USE DEF HydrationInv
<1>0. Hydrate!TypeOK /\ LiveInv /\ SnapshotInv /\ RowInv /\ CopiesApart /\ WillBeShown
  OBVIOUS
<1>1. /\ hydration[h] = "reading" /\ hydration' = [hydration EXCEPT ![h] = "read"]
      /\ snapshot' = [snapshot EXCEPT ![h] = thread]
      /\ UNCHANGED <<thread, turnOf, sent, routeAt, rows, convStatus, writes, nextTurn,
                      overlapped,
                     halfDone, early, earlyTurns, hydrationFailures>>
  BY DEF Hydrate!ThreadRead, Hydrate!liveVars, Hydrate!rowVars, Hydrate!ghostVars
<1>2. hydration \in [Hydrate!Hydrations -> Hydrate!Stage]
  BY <1>0 DEF Hydrate!TypeOK
<1>3. \A g \in Hydrate!Hydrations : g # h =>
        hydration'[g] = hydration[g] /\ snapshot'[g] = snapshot[g]
  BY <1>0, <1>1, <1>2 DEF SnapshotInv
<1>4. hydration'[h] = "read" /\ snapshot'[h] = thread
  BY <1>0, <1>1, <1>2 DEF SnapshotInv
<1>5. thread \in Seq(ThreadStatus) /\ Len(thread) \in Nat
  BY HydrationTypes
<1>a. Hydrate!TypeOK'
  BY <1>0, <1>1 DEF Hydrate!TypeOK, Hydrate!Stage
<1>b. LiveInv' /\ RowInv'
  BY <1>0, <1>1 DEF LiveInv, RowInv
<1>c. SnapshotInv'
  <2> SUFFICES ASSUME NEW g \in Hydrate!Hydrations
               PROVE  /\ snapshot'[g] \in Seq(ThreadStatus) /\ Len(snapshot'[g]) <= Len(thread)
                      /\ nextTurn[g] \in Nat /\ (hydration'[g] = "copying" => nextTurn[g] > 0)
    BY <1>1 DEF SnapshotInv
  <2>1. CASE g = h
    BY <2>1, <1>0, <1>4, <1>5 DEF SnapshotInv
  <2>2. CASE g # h
    BY <2>2, <1>0, <1>3 DEF SnapshotInv
  <2> QED
    BY <2>1, <2>2
<1>d. CopiesApart'
  BY <1>0, <1>1, <1>3, <1>4 DEF CopiesApart, After, Hydrate!AtWork
<1>e. WillBeShown'
  BY <1>0, <1>1, <1>3, <1>4 DEF WillBeShown, Hydrate!CodexTurnOf
<1> QED
  BY <1>a, <1>b, <1>c, <1>d, <1>e

\* A hydration deletes all rows.
LEMMA DeleteKeepsRows ==
  ASSUME HydrationBounds, HydrationInv, NEW h \in Hydrate!Hydrations, Hydrate!DeleteRows(h)
  PROVE  HydrationInv'
<1> USE DEF HydrationInv
<1>0. Hydrate!TypeOK /\ LiveInv /\ SnapshotInv /\ RowInv /\ CopiesApart /\ WillBeShown
  OBVIOUS
<1>1. /\ hydration[h] = "read" /\ hydration' = [hydration EXCEPT ![h] = "copying"]
      /\ nextTurn' = [nextTurn EXCEPT ![h] = 1] /\ rows' = <<>>
      /\ early' = early \union {l \in LiveTurns : Hydrate!RowOf(l) \in DOMAIN rows /\ turnOf[l] = 0}
      /\ earlyTurns' = earlyTurns \union {Hydrate!CodexTurnOf(r) : r \in Hydrate!Unread(h)}
      /\ UNCHANGED <<thread, turnOf, sent, routeAt, convStatus, writes, snapshot, overlapped,
                     halfDone, hydrationFailures>>
  BY DEF Hydrate!DeleteRows, Hydrate!DeleteConversationTurns, Hydrate!liveVars
<1>2. DOMAIN rows' = {}
  BY <1>1
<1>3. \A g \in Hydrate!Hydrations : g # h =>
        hydration'[g] = hydration[g] /\ nextTurn'[g] = nextTurn[g]
  BY <1>0, <1>1 DEF Hydrate!TypeOK, SnapshotInv
<1>4. hydration'[h] = "copying" /\ nextTurn'[h] = 1 /\ DOMAIN nextTurn' = Hydrate!Hydrations
  BY <1>0, <1>1 DEF Hydrate!TypeOK, SnapshotInv
<1>5. \A r \in DOMAIN rows : Hydrate!CodexTurnOf(r) \in 0 .. MaxTurns
  BY HydrationTypes DEF Hydrate!CodexTurnOf
<1>6. Len(snapshot[h]) \in Nat /\ MaxTurns \in Nat /\ \A l \in LiveTurns : turnOf[l] \in Nat
  BY <1>0, HydrationTypes DEF SnapshotInv
<1>a. Hydrate!TypeOK'
  <2>1. {Hydrate!CodexTurnOf(r) : r \in Hydrate!Unread(h)} \subseteq Hydrate!TurnNo
    BY <1>5, <1>6 DEF Hydrate!Unread, Hydrate!TurnNo
  <2> QED
    BY <1>0, <1>1, <1>2, <2>1 DEF Hydrate!TypeOK, Hydrate!Stage
<1>b. LiveInv'
  BY <1>0, <1>1 DEF LiveInv
<1>c. SnapshotInv'
  BY <1>0, <1>1, <1>3, <1>4 DEF SnapshotInv
<1>d. RowInv'
  BY <1>2 DEF RowInv
<1>e. CopiesApart'
  BY <1>0, <1>1, <1>2, <1>3, <1>4 DEF CopiesApart, Hydrate!AtWork
<1>f. WillBeShown'
  <2> SUFFICES ASSUME ~halfDone, NEW l \in LiveTurns, turnOf[l] # 0, turnOf[l] \notin earlyTurns'
               PROVE  \E g \in Hydrate!Hydrations : /\ hydration'[g] = "copying"
                                                    /\ nextTurn'[g] <= turnOf[l]
                                                    /\ turnOf[l] <= Len(snapshot[g])
    BY <1>1 DEF WillBeShown
  <2>1. CASE turnOf[l] <= Len(snapshot[h])
    BY <2>1, <1>4, <1>6
  <2>2. CASE turnOf[l] > Len(snapshot[h])
    <3>1. ~ \E r \in DOMAIN rows : Hydrate!CodexTurnOf(r) = turnOf[l]
      BY <2>2, <1>1 DEF Hydrate!Unread
    <3>2. PICK g \in Hydrate!Hydrations : /\ hydration[g] = "copying"
                                          /\ nextTurn[g] <= turnOf[l]
                                          /\ turnOf[l] <= Len(snapshot[g])
      BY <3>1, <1>0, <1>1 DEF WillBeShown
    <3> QED
      BY <3>2, <1>1, <1>3
  <2> QED
    BY <2>1, <2>2, <1>6
<1> QED
  BY <1>a, <1>b, <1>c, <1>d, <1>e, <1>f

\* A hydration copies the next turn it has read.
LEMMA CopyKeepsRows ==
  ASSUME HydrationBounds, HydrationInv, NEW h \in Hydrate!Hydrations, Hydrate!CopyTurn(h)
  PROVE  HydrationInv'
<1> USE DEF HydrationInv
<1>0. Hydrate!TypeOK /\ LiveInv /\ SnapshotInv /\ RowInv /\ CopiesApart /\ WillBeShown
  OBVIOUS
<1> PICK k : k = nextTurn[h]
  OBVIOUS
<1>1. /\ hydration[h] = "copying" /\ k <= Len(snapshot[h])
      /\ DOMAIN rows' = DOMAIN rows \union {<<h, k>>}
      /\ rows'[<<h, k>>] = Hydrate!Row(snapshot[h][k], k)
      /\ \A r \in DOMAIN rows : r # <<h, k>> => rows'[r] = rows[r]
      /\ nextTurn' = [nextTurn EXCEPT ![h] = k + 1]
      /\ UNCHANGED <<thread, turnOf, sent, routeAt, convStatus, writes, hydration, snapshot,
                     overlapped, halfDone, early, earlyTurns, hydrationFailures>>
  BY DEF Hydrate!CopyTurn, Hydrate!Copies, Hydrate!liveVars, Hydrate!ghostVars
<1>2. /\ snapshot[h] \in Seq(ThreadStatus) /\ Len(snapshot[h]) \in Nat
      /\ Len(snapshot[h]) <= Len(thread) /\ k \in Nat /\ k > 0
  BY <1>0, <1>1 DEF SnapshotInv
<1>3. Len(thread) \in Nat /\ Len(thread) <= MaxTurns /\ MaxTurns \in Nat
  BY HydrationTypes
<1>4. k \in Hydrate!TurnNo /\ k <= Len(thread)
  BY <1>1, <1>2, <1>3 DEF Hydrate!TurnNo
<1>5. Hydrate!Row(snapshot[h][k], k) \in RowSet /\ Hydrate!Row(snapshot[h][k], k).codex = k
  <2>1. snapshot[h][k] \in {"queued", "running"} \union Final
    BY <1>1, <1>2 DEF ThreadStatus
  <2>2. k \in 0 .. MaxTurns
    BY <1>2, <1>3, <1>4 DEF Hydrate!TurnNo
  <2> QED
    BY <2>1, <2>2, RowIsTyped
<1>6. <<h, k>>[1] = h /\ <<h, k>>[2] = k /\ k # 0
  BY <1>2
<1>7. \A r \in DOMAIN rows : Hydrate!CodexTurnOf(r)' = Hydrate!CodexTurnOf(r)
  BY <1>0, <1>1, <1>5, <1>6 DEF Hydrate!CodexTurnOf, RowInv
<1>8. \A g \in Hydrate!Hydrations : g # h => nextTurn'[g] = nextTurn[g]
  BY <1>0, <1>1 DEF SnapshotInv
<1>9. nextTurn'[h] = k + 1 /\ DOMAIN nextTurn' = Hydrate!Hydrations
  BY <1>0, <1>1 DEF SnapshotInv
<1>a. Hydrate!TypeOK'
  <2>1. \A r \in DOMAIN rows' : rows'[r] \in RowSet
    BY <1>1, <1>5, HydrationTypes
  <2>2. DOMAIN rows' \subseteq Hydrate!RowId
    BY <1>0, <1>1, <1>4 DEF Hydrate!TypeOK, Hydrate!RowId
  <2> QED
    BY <1>0, <1>1, <2>1, <2>2 DEF Hydrate!TypeOK, RowSet
<1>b. LiveInv'
  BY <1>0, <1>1 DEF LiveInv
<1>c. SnapshotInv'
  <2> SUFFICES ASSUME NEW g \in Hydrate!Hydrations
               PROVE  nextTurn'[g] \in Nat /\ (hydration[g] = "copying" => nextTurn'[g] > 0)
    BY <1>0, <1>1, <1>9 DEF SnapshotInv
  <2>1. CASE g = h
    BY <2>1, <1>2, <1>9
  <2>2. CASE g # h
    BY <2>2, <1>0, <1>8 DEF SnapshotInv
  <2> QED
    BY <2>1, <2>2
<1>d. RowInv'
  BY <1>0, <1>1, <1>4, <1>5, <1>6 DEF RowInv
<1>e. CopiesApart'
  <2> SUFFICES ASSUME ~overlapped
               PROVE  CopiesApart'
    BY <1>1 DEF CopiesApart
  <2>1. \A f, g \in Hydrate!Hydrations : (Hydrate!AtWork(f)' /\ Hydrate!AtWork(g)') => f = g
    BY <1>0, <1>1 DEF CopiesApart, Hydrate!AtWork
  <2>2. \A r \in DOMAIN rows : (r[2] # 0 => r[1] = h) /\ After(r, Len(snapshot[h]))
    BY <1>0, <1>1 DEF CopiesApart
  <2>3. ASSUME NEW q \in DOMAIN rows', NEW r \in DOMAIN rows', q[2] # 0
        PROVE  (r[2] # 0 => r[1] = q[1]) /\ After(r, q[2])
    <3>1. r[2] # 0 => r[1] = h
      BY <2>2, <1>1, <1>6
    <3>2. q[1] = h
      BY <2>2, <2>3, <1>1, <1>6
    <3>3. After(r, q[2])
      <4>1. CASE r = <<h, k>>
        BY <4>1, <1>6 DEF After
      <4>2. CASE r # <<h, k>> /\ q = <<h, k>>
        <5>1. r \in DOMAIN rows /\ After(r, Len(snapshot[h]))
          BY <4>2, <1>1, <2>2
        <5>2. r[2] = 0 => turnOf[r[1]] \in Nat
          BY <5>1, HydrationTypes
        <5> QED
          BY <5>1, <5>2, <4>2, <1>1, <1>2, <1>6 DEF After
      <4>3. CASE r # <<h, k>> /\ q # <<h, k>>
        BY <4>3, <2>3, <1>0, <1>1 DEF CopiesApart
      <4> QED
        BY <4>1, <4>2, <4>3
    <3> QED
      BY <3>1, <3>2, <3>3
  <2>4. ASSUME NEW g \in Hydrate!Hydrations, hydration[g] = "copying", NEW r \in DOMAIN rows'
        PROVE  (r[2] # 0 => r[1] = g) /\ After(r, Len(snapshot[g]))
    <3>1. g = h
      BY <2>4, <1>0, <1>1 DEF CopiesApart, Hydrate!AtWork
    <3>2. CASE r = <<h, k>>
      BY <3>1, <3>2, <1>6 DEF After
    <3>3. CASE r # <<h, k>>
      BY <3>1, <3>3, <1>1, <2>2
    <3> QED
      BY <3>2, <3>3
  <2> QED
    BY <2>1, <2>3, <2>4, <1>1 DEF CopiesApart, After
<1>f. WillBeShown'
  <2> SUFFICES ASSUME ~halfDone, NEW l \in LiveTurns, turnOf[l] # 0, turnOf[l] \notin earlyTurns
               PROVE  \/ \E r \in DOMAIN rows' : Hydrate!CodexTurnOf(r)' = turnOf[l]
                      \/ \E g \in Hydrate!Hydrations : /\ hydration[g] = "copying"
                                                       /\ nextTurn'[g] <= turnOf[l]
                                                       /\ turnOf[l] <= Len(snapshot[g])
    BY <1>1 DEF WillBeShown
  <2>0. turnOf[l] \in Nat
    BY HydrationTypes
  <2>1. CASE \E r \in DOMAIN rows : Hydrate!CodexTurnOf(r) = turnOf[l]
    BY <2>1, <1>1, <1>7
  <2>2. CASE turnOf[l] = k
    <3>1. Hydrate!CodexTurnOf(<<h, k>>)' = k
      BY <1>1, <1>5, <1>6 DEF Hydrate!CodexTurnOf
    <3> QED
      BY <3>1, <2>2, <1>1
  <2>3. CASE turnOf[l] # k /\ ~ \E r \in DOMAIN rows : Hydrate!CodexTurnOf(r) = turnOf[l]
    <3>1. PICK g \in Hydrate!Hydrations : /\ hydration[g] = "copying"
                                          /\ nextTurn[g] <= turnOf[l]
                                          /\ turnOf[l] <= Len(snapshot[g])
      BY <2>3, <1>0 DEF WillBeShown
    <3>2. CASE g = h
      BY <3>1, <3>2, <2>0, <2>3, <1>2, <1>9
    <3>3. CASE g # h
      BY <3>1, <3>3, <1>8
    <3> QED
      BY <3>2, <3>3
  <2> QED
    BY <2>1, <2>2, <2>3
<1> QED
  BY <1>a, <1>b, <1>c, <1>d, <1>e, <1>f

\* A hydration ends, having copied all, or fails.
LEMMA ReturnKeepsRows ==
  ASSUME HydrationBounds, HydrationInv, NEW h \in Hydrate!Hydrations, Hydrate!EndHydration(h) \/ Hydrate!HydrationFails(h)
  PROVE  HydrationInv'
<1> USE DEF HydrationInv
<1>0. Hydrate!TypeOK /\ LiveInv /\ SnapshotInv /\ RowInv /\ CopiesApart /\ WillBeShown
  OBVIOUS
<1>1. /\ hydration' = [hydration EXCEPT ![h] = "done"]
      /\ snapshot' = [snapshot EXCEPT ![h] = <<>>]
      /\ nextTurn' = [nextTurn EXCEPT ![h] = 0]
      /\ UNCHANGED <<thread, turnOf, sent, routeAt, rows, writes, overlapped, early,
                      earlyTurns>>
  BY DEF Hydrate!EndHydration, Hydrate!HydrationFails, Hydrate!Returns, Hydrate!liveVars,
     Hydrate!rowVars, Hydrate!ghostVars
<1>2. /\ halfDone => halfDone'
      /\ hydration[h] = "copying" => halfDone' \/ nextTurn[h] > Len(snapshot[h])
  <2>1. CASE Hydrate!EndHydration(h)
    <3>1. halfDone' = halfDone /\ nextTurn[h] > Len(snapshot[h])
      BY <2>1 DEF Hydrate!EndHydration, Hydrate!ghostVars
    <3> QED
      BY <3>1
  <2>2. CASE Hydrate!HydrationFails(h)
    <3>1. halfDone' = (halfDone \/ hydration[h] = "copying")
      BY <2>2 DEF Hydrate!HydrationFails
    <3> QED
      BY <3>1
  <2> QED
    BY <2>1, <2>2
<1>3. \A g \in Hydrate!Hydrations : g # h => /\ hydration'[g] = hydration[g]
                                             /\ snapshot'[g] = snapshot[g]
                                             /\ nextTurn'[g] = nextTurn[g]
  BY <1>0, <1>1 DEF Hydrate!TypeOK, SnapshotInv
<1>4. hydration'[h] = "done" /\ snapshot'[h] = <<>> /\ nextTurn'[h] = 0
  BY <1>0, <1>1 DEF Hydrate!TypeOK, SnapshotInv
<1>5. /\ Len(thread) \in Nat /\ \A l \in LiveTurns : turnOf[l] \in Nat
      /\ 1 \in Nat
  BY HydrationTypes DEF HydrationBounds
<1>6. /\ snapshot[h] \in Seq(ThreadStatus) /\ Len(snapshot[h]) \in Nat /\ nextTurn[h] \in Nat
  BY <1>0 DEF SnapshotInv
<1>a. Hydrate!TypeOK'
  <2>1. convStatus' \in {"idle", "running", "failed"}
    <3>1. CASE Hydrate!EndHydration(h)
      <4>1. CASE snapshot[h] = <<>>
        BY <3>1, <4>1 DEF Hydrate!EndHydration
      <4>2. CASE snapshot[h] # <<>>
        <5>1. snapshot[h][Len(snapshot[h])] \in ThreadStatus
          BY <4>2, <1>6
        <5> QED
          BY <5>1, <3>1 DEF Hydrate!EndHydration, ThreadStatus, HydrationBounds
      <4> QED
        BY <4>1, <4>2
    <3>2. CASE Hydrate!HydrationFails(h)
      BY <3>2, <1>0 DEF Hydrate!HydrationFails, Hydrate!rowVars, Hydrate!TypeOK
    <3> QED
      BY <3>1, <3>2
  <2>2. hydrationFailures' \in 0 .. 1
    BY <1>0, <1>5 DEF Hydrate!EndHydration, Hydrate!HydrationFails, Hydrate!ghostVars,
       Hydrate!TypeOK
  <2>3. halfDone' \in BOOLEAN
    BY <1>0 DEF Hydrate!EndHydration, Hydrate!HydrationFails, Hydrate!ghostVars, Hydrate!TypeOK
  <2>4. hydration' \in [Hydrate!Hydrations -> Hydrate!Stage]
    BY <1>0, <1>1 DEF Hydrate!TypeOK, Hydrate!Stage
  <2> QED
    BY <1>0, <1>1, <2>1, <2>2, <2>3, <2>4 DEF Hydrate!TypeOK
<1>b. LiveInv' /\ RowInv'
  BY <1>0, <1>1 DEF LiveInv, RowInv
<1>c. SnapshotInv'
  <2>1. /\ DOMAIN snapshot' = Hydrate!Hydrations /\ DOMAIN nextTurn' = Hydrate!Hydrations
    BY <1>0, <1>1 DEF SnapshotInv
  <2> SUFFICES ASSUME NEW g \in Hydrate!Hydrations
               PROVE  /\ snapshot'[g] \in Seq(ThreadStatus) /\ Len(snapshot'[g]) <= Len(thread)
                      /\ nextTurn'[g] \in Nat /\ (hydration'[g] = "copying" => nextTurn'[g] > 0)
    BY <1>1, <2>1 DEF SnapshotInv
  <2>2. CASE g = h
    BY <2>2, <1>4, <1>5
  <2>3. CASE g # h
    BY <2>3, <1>0, <1>3 DEF SnapshotInv
  <2> QED
    BY <2>2, <2>3
<1>d. CopiesApart'
  BY <1>0, <1>1, <1>3, <1>4 DEF CopiesApart, After, Hydrate!AtWork
<1>e. WillBeShown'
  <2> SUFFICES ASSUME ~halfDone', NEW l \in LiveTurns, turnOf[l] # 0, turnOf[l] \notin earlyTurns
               PROVE  \/ \E r \in DOMAIN rows : Hydrate!CodexTurnOf(r) = turnOf[l]
                      \/ \E g \in Hydrate!Hydrations : /\ hydration'[g] = "copying"
                                                       /\ nextTurn'[g] <= turnOf[l]
                                                       /\ turnOf[l] <= Len(snapshot'[g])
    BY <1>1 DEF WillBeShown, Hydrate!CodexTurnOf
  <2>1. CASE \E r \in DOMAIN rows : Hydrate!CodexTurnOf(r) = turnOf[l]
    BY <2>1
  <2>2. CASE ~ \E r \in DOMAIN rows : Hydrate!CodexTurnOf(r) = turnOf[l]
    <3>1. PICK g \in Hydrate!Hydrations : /\ hydration[g] = "copying"
                                          /\ nextTurn[g] <= turnOf[l]
                                          /\ turnOf[l] <= Len(snapshot[g])
      BY <2>2, <1>0, <1>2 DEF WillBeShown
    <3>2. g # h
      BY <3>1, <1>2, <1>5, <1>6
    <3> QED
      BY <3>1, <3>2, <1>3
  <2> QED
    BY <2>1, <2>2
<1> QED
  BY <1>a, <1>b, <1>c, <1>d, <1>e

\* At the start there are no turns.
LEMMA HydrationStarts == HydrationBounds /\ Hydrate!Init => HydrationInv
<1> SUFFICES ASSUME HydrationBounds, Hydrate!Init PROVE HydrationInv
  OBVIOUS
<1>1. DOMAIN rows = {} /\ thread \in Seq(ThreadStatus) /\ Len(thread) = 0
  BY DEF Hydrate!Init
<1>2. Hydrate!TypeOK
  <2>1. turnOf \in [LiveTurns -> 0 .. MaxTurns]
    BY DEF Hydrate!Init, HydrationBounds
  <2>2. hydration \in [Hydrate!Hydrations -> Hydrate!Stage]
    BY DEF Hydrate!Init, Hydrate!Stage
  <2>3. thread \in Seq({"running"} \union Final) /\ Len(thread) <= MaxTurns
    BY <1>1 DEF ThreadStatus, HydrationBounds
  <2>4. overlapped = FALSE /\ halfDone = FALSE /\ hydrationFailures \in 0 .. 1
    BY DEF Hydrate!Init, HydrationBounds
  <2> QED
    BY <1>1, <2>1, <2>2, <2>3, <2>4 DEF Hydrate!Init, Hydrate!TypeOK
<1>3. LiveInv /\ SnapshotInv /\ RowInv
  BY <1>1 DEF Hydrate!Init, LiveInv, SnapshotInv, RowInv
<1>4. CopiesApart /\ WillBeShown
  BY <1>1 DEF Hydrate!Init, CopiesApart, WillBeShown, Hydrate!AtWork
<1> QED
  BY <1>2, <1>3, <1>4 DEF HydrationInv

\* Every step keeps the rows as they should be.
LEMMA HydrationStep == HydrationBounds /\ HydrationInv /\ [Hydrate!Next]_(Hydrate!hydrationVars) => HydrationInv'
<1> SUFFICES ASSUME HydrationBounds, HydrationInv, [Hydrate!Next]_(Hydrate!hydrationVars) PROVE HydrationInv'
  OBVIOUS
<1>1. CASE UNCHANGED Hydrate!hydrationVars
  <2>1. UNCHANGED <<thread, turnOf, sent, routeAt, rows, convStatus, writes, hydration,
                     snapshot,
                    nextTurn, overlapped, halfDone, early, earlyTurns, hydrationFailures>>
    BY <1>1 DEF Hydrate!hydrationVars, Hydrate!liveVars, Hydrate!rowVars,
       Hydrate!progressVars, Hydrate!ghostVars
  <2> QED
    BY <2>1 DEF HydrationInv, Hydrate!TypeOK, LiveInv, SnapshotInv, RowInv, CopiesApart,
       WillBeShown,
                After, Hydrate!AtWork, Hydrate!CodexTurnOf
<1>2. ASSUME NEW l \in LiveTurns, Hydrate!CreateConversationTurn(l) PROVE HydrationInv'
  BY <1>2, CreateKeepsRows
<1>3. ASSUME NEW l \in LiveTurns, Hydrate!SendTurn(l) PROVE HydrationInv'
  BY <1>3, SendKeepsRows
<1>4. ASSUME NEW l \in LiveTurns, Hydrate!AgentStartsTurn(l) PROVE HydrationInv'
  BY <1>4, StartKeepsRows
<1>5. ASSUME NEW l \in LiveTurns, NEW status \in {"running"} \union Final, Hydrate!WriteEvent(l, status)
      PROVE  HydrationInv'
  BY <1>5, WriteKeepsRows
<1>6. CASE Hydrate!DesktopTurn
  BY <1>6, DesktopKeepsRows
<1>7. ASSUME NEW k \in Hydrate!TurnNo, NEW outcome \in Final, Hydrate!TurnEnds(k, outcome) PROVE HydrationInv'
  BY <1>7, EndKeepsRows
<1>8. ASSUME NEW h \in Hydrate!Hydrations, Hydrate!HydrateOnDemand(h) \/ Hydrate!ForceHydrate(h) PROVE HydrationInv'
  BY <1>8, BeginKeepsRows DEF Hydrate!HydrateOnDemand, Hydrate!ForceHydrate
<1>9. ASSUME NEW h \in Hydrate!Hydrations, Hydrate!ThreadRead(h) PROVE HydrationInv'
  BY <1>9, ReadKeepsRows
<1>10. ASSUME NEW h \in Hydrate!Hydrations, Hydrate!DeleteRows(h) PROVE HydrationInv'
  BY <1>10, DeleteKeepsRows
<1>11. ASSUME NEW h \in Hydrate!Hydrations, Hydrate!CopyTurn(h) PROVE HydrationInv'
  BY <1>11, CopyKeepsRows
<1>12. ASSUME NEW h \in Hydrate!Hydrations, Hydrate!EndHydration(h) \/ Hydrate!HydrationFails(h) PROVE HydrationInv'
  BY <1>12, ReturnKeepsRows
<1> QED
  BY <1>1, <1>2, <1>3, <1>4, <1>5, <1>6, <1>7, <1>8, <1>9, <1>10, <1>11, <1>12 DEF Hydrate!Next

\* Until hydrations overlap, two rows are not of one codex turn.
LEMMA RowsApart ==
  ASSUME HydrationBounds, HydrationInv
  PROVE  Hydrate!ShownOnce
<1> SUFFICES ASSUME ~overlapped, NEW r \in DOMAIN rows, NEW q \in DOMAIN rows, r # q,
                    rows[r].codex # 0, rows[r].codex = rows[q].codex
             PROVE  FALSE
  BY DEF Hydrate!ShownOnce
<1>1. Hydrate!TypeOK /\ LiveInv /\ RowInv /\ CopiesApart
  BY DEF HydrationInv
<1>2. \A x \in {r, q} : /\ x[2] \in Nat /\ x = <<x[1], x[2]>>
                        /\ x[2] = 0 => x[1] \in LiveTurns /\ turnOf[x[1]] \in Nat
  BY <1>1, HydrationTypes
<1>3. \A x \in {r, q} : /\ x[2] = 0 => rows[x].codex = turnOf[x[1]]
                        /\ x[2] # 0 => rows[x].codex = x[2]
  BY <1>1 DEF RowInv
<1>4. CASE r[2] = 0 /\ q[2] = 0
  BY <1>1, <1>2, <1>3, <1>4 DEF LiveInv
<1>5. CASE r[2] # 0 /\ q[2] # 0
  BY <1>1, <1>2, <1>3, <1>5 DEF CopiesApart
<1>6. CASE r[2] = 0 /\ q[2] # 0
  <2>1. After(r, q[2])
    BY <1>1, <1>6 DEF CopiesApart
  <2> QED
    BY <2>1, <1>2, <1>3, <1>6 DEF After
<1>7. CASE r[2] # 0 /\ q[2] = 0
  <2>1. After(q, r[2])
    BY <1>1, <1>7 DEF CopiesApart
  <2> QED
    BY <2>1, <1>2, <1>3, <1>7 DEF After
<1> QED
  BY <1>4, <1>5, <1>6, <1>7

\* When no hydration is at work, what would be copied is there.
LEMMA NothingToCopy ==
  ASSUME HydrationInv
  PROVE  Hydrate!StartedIsShown
  BY DEF HydrationInv, WillBeShown, Hydrate!StartedIsShown, Hydrate!AtWork

\* The invariant of the rows holds in every behaviour.
THEOREM HydrationInvariant == ASSUME HydrationBounds PROVE Hydrate!Spec => []HydrationInv
<1>1. Hydrate!Init => HydrationInv
  BY HydrationStarts
<1>2. HydrationInv /\ [Hydrate!Next]_(Hydrate!hydrationVars) => HydrationInv'
  BY HydrationStep
<1> QED
  BY <1>1, <1>2, PTL DEF Hydrate!Spec

-----------------------------------------------------------------------------
(* Push registrations.                                                      *)

PushBounds ==
  /\ MaxToken \in Nat \ {0} /\ MaxSignIns \in Nat /\ MaxChanges \in Nat
  /\ None \notin Users

\* A call is of the sign-in in which it was made, and of a token there was.
CallInv ==
  /\ signIns = 0 => signedIn = None
  /\ registered <= native
  /\ \A c \in Calls :
       /\ call[c].signIn <= signIns /\ call[c].token <= native
       /\ call[c].at = "reading" =>
            /\ call[c].op = "register"
            /\ (call[c].signIn = signIns /\ signedIn # None) => call[c].user = signedIn
       /\ call[c].at \in {"checked", "upserted"} => call[c].op = "register"
       /\ c \in Push!InFlight => call[c].op # "none"
       /\ (call[c].op = "register" /\ call[c].at # "reading") => call[c].token # 0

Unregisters(c) == call[c].op \in {"unregister", "logout"}

\* Until calls cross there is one at a time, of the user signed in, and the phone
\* believes nothing of a token while it registers it, nor once it no longer waits to hear
\* that it is unregistered.
OneCall ==
  \A c \in Push!InFlight :
    /\ \A d \in Push!InFlight : c = d
    /\ signedIn # None /\ call[c].user = signedIn
    /\ call[c].op = "register" => registered # native
    /\ (call[c].op = "register" /\ call[c].at \in {"upserted", "done"}) =>
         owner[call[c].token] = signedIn /\ call[c].token \in active \union rejected
    /\ (Unregisters(c) /\ ~Push!Heard(c)) => registered # native \/ leaving # "no"

\* Until then what the phone believes is so, unless it is about to unregister.
Belief ==
  (leaving = "no" /\ registered = native) =>
    /\ signedIn # None /\ owner[native] = signedIn
    /\ native \in active \union rejected \/ \E c \in Push!InFlight : Unregisters(c) /\ Push!Heard(c)

PushInv == Push!TypeOK /\ CallInv /\ (~pushCrossed => OneCall /\ Belief)

\* What the type invariant says of the calls and the numbers.
LEMMA PushTypes ==
  ASSUME PushBounds, Push!TypeOK
  PROVE  /\ native \in Nat \ {0} /\ native \in Push!Token /\ registered \in Nat
         /\ signIns \in Nat
         /\ MaxToken \in Nat /\ MaxSignIns \in Nat /\ MaxChanges \in Nat
         /\ registered \in 0 .. MaxToken /\ signIns \in 0 .. MaxSignIns
         /\ signedIn \in Users \union {None} /\ DOMAIN call = Calls
         /\ \A c \in Calls : /\ call[c] \in Push!CallRecord
                             /\ call[c].token \in Nat /\ call[c].token <= MaxToken
                             /\ call[c].signIn \in Nat
<1>1. /\ native \in Nat \ {0} /\ native \in Push!Token /\ registered \in Nat /\ signIns \in Nat
      /\ MaxToken \in Nat /\ MaxSignIns \in Nat /\ MaxChanges \in Nat
      /\ registered \in 0 .. MaxToken /\ signIns \in 0 .. MaxSignIns
      /\ signedIn \in Users \union {None} /\ DOMAIN call = Calls
  BY DEF Push!TypeOK, PushBounds, Push!Token
<1>2. ASSUME NEW c \in Calls
      PROVE  /\ call[c] \in Push!CallRecord /\ call[c].token \in Nat
             /\ call[c].token <= MaxToken
             /\ call[c].signIn \in Nat
  <2>1. call[c] \in Push!CallRecord
    BY DEF Push!TypeOK
  <2> QED
    BY <2>1, <1>1 DEF Push!CallRecord
<1> QED
  BY <1>1, <1>2

\* A step that changes one call at most, and keeps the calls typed and of their sign-in.
LEMMA OneCallChanges ==
  ASSUME PushBounds, Push!TypeOK, CallInv, NEW c \in Calls, NEW r \in Push!CallRecord,
         call' = [call EXCEPT ![c] = r],
         r.signIn <= signIns, r.token <= native,
         r.at = "reading" =>
           r.op = "register" /\ ((r.signIn = signIns /\ signedIn # None) => r.user = signedIn),
         r.at \in {"checked", "upserted"} => r.op = "register",
         r.at \notin {"free", "reading"} => r.op # "none",
         (r.op = "register" /\ r.at # "reading") => r.token # 0,
         signIns' = signIns, signedIn' = signedIn, native' = native, registered' <= native
  PROVE  /\ CallInv' /\ call' \in [Calls -> Push!CallRecord]
         /\ call'[c] = r /\ \A d \in Calls : d # c => call'[d] = call[d]
         /\ Push!InFlight' = IF r.at \in {"free", "reading"} THEN Push!InFlight \ {c} ELSE Push!InFlight \union {c}
<1>1. call \in [Calls -> Push!CallRecord]
  BY DEF Push!TypeOK
<1>2. call'[c] = r /\ \A d \in Calls : d # c => call'[d] = call[d]
  BY <1>1
<1>3. call' \in [Calls -> Push!CallRecord]
  BY <1>1
<1>4. Push!InFlight' = IF r.at \in {"free", "reading"} THEN Push!InFlight \ {c} ELSE Push!InFlight \union {c}
  BY <1>2 DEF Push!InFlight
<1>5. \A d \in Calls : d # c => (d \in Push!InFlight' <=> d \in Push!InFlight)
  BY <1>4
<1>6. c \in Push!InFlight' <=> r.at \notin {"free", "reading"}
  BY <1>4
<1>7. CallInv'
  BY <1>2, <1>5, <1>6 DEF CallInv
<1> QED
  BY <1>2, <1>3, <1>4, <1>7

\* The plan is read, and the phone is about to register its token or unregisters it.
LEMMA SyncKeepsBelief ==
  ASSUME PushBounds, PushInv, NEW c \in Calls, Push!Sync(c)
  PROVE  PushInv'
<1> USE DEF PushInv
<1>0. Push!TypeOK /\ CallInv
  OBVIOUS
<1> PICK r : r = call'[c]
  OBVIOUS
<1>1. /\ signedIn # None /\ call[c] = Push!Free
      /\ \/ /\ r = [op |-> "register", at |-> "reading", user |-> signedIn, token |-> 0,
                    signIn |-> signIns]
            /\ pushCrossed' = pushCrossed
         \/ /\ r = [op |-> "unregister", at |-> "sent", user |-> signedIn, token |-> registered,
                    signIn |-> signIns]
            /\ pushCrossed' = (pushCrossed \/ Push!InFlight # {})
      /\ call' = [call EXCEPT ![c] = r]
      /\ UNCHANGED <<native, signedIn, signIns, registered, leaving, entitled, owner, active,
                      notice,
                     rejected, changes>>
  BY <1>0 DEF Push!Sync, Push!Put, Push!TypeOK, Push!phoneVars, Push!rowVars, Push!noticeVars
<1>2. r \in Push!CallRecord
  <2>1. signedIn \in Users \union {None} /\ registered \in 0 .. MaxToken /\ 0 \in 0 .. MaxToken
        /\ signIns \in 0 .. MaxSignIns
    BY <1>0, PushTypes
  <2> QED
    BY <1>1, <2>1 DEF Push!CallRecord
<1>c. ~pushCrossed' => ~pushCrossed /\ (r.at = "sent" => Push!InFlight = {})
  <2>1. \/ r.at = "reading" /\ pushCrossed' = pushCrossed
        \/ pushCrossed' = (pushCrossed \/ Push!InFlight # {})
    BY <1>1
  <2> QED
    BY <2>1
<1>3. /\ r.op # "none" /\ r.signIn = signIns /\ r.user = signedIn
      /\ r.at \in {"reading", "sent"}
      /\ r.at = "reading" <=> r.op = "register"
      /\ r.op = "unregister" <=> r.at = "sent"
      /\ r.token \in {0, registered}
  BY <1>1
<1>4. /\ CallInv' /\ call' \in [Calls -> Push!CallRecord]
      /\ call'[c] = r /\ \A d \in Calls : d # c => call'[d] = call[d]
      /\ Push!InFlight' = IF r.at \in {"free", "reading"} THEN Push!InFlight \ {c} ELSE Push!InFlight \union {c}
  <2>1. r.token <= native /\ r.signIn <= signIns /\ registered' <= native
    BY <1>0, <1>1, <1>3, PushTypes DEF CallInv
  <2> QED
    BY <1>0, <1>1, <1>2, <1>3, <2>1, OneCallChanges
<1>5. Push!TypeOK'
  <2>1. pushCrossed' \in BOOLEAN
    BY <1>0, <1>1 DEF Push!TypeOK
  <2> QED
    BY <1>0, <1>1, <1>4, <2>1 DEF Push!TypeOK
<1>6. c \notin Push!InFlight
  BY <1>1 DEF Push!InFlight, Push!Free
<1>7. ASSUME ~pushCrossed'
      PROVE  OneCall' /\ Belief'
  <2>1. ~pushCrossed /\ OneCall /\ Belief
    BY <1>c, <1>7
  <2>2. CASE r.at = "reading"
    <3>1. Push!InFlight' = Push!InFlight
      BY <2>2, <1>4, <1>6
    <3>2. \A d \in Push!InFlight : call'[d] = call[d]
      BY <1>4, <1>6 DEF Push!InFlight
    <3> QED
      BY <2>1, <3>1, <3>2, <1>1 DEF OneCall, Belief, Unregisters, Push!Heard
  <2>3. CASE r.at = "sent"
    <3>1. Push!InFlight' = {c}
      BY <2>3, <1>c, <1>4, <1>7
    <3>2. signIns # 0
      BY <1>0, <1>1 DEF CallInv
    <3>3. OneCall'
      BY <2>3, <3>1, <3>2, <1>1, <1>3, <1>4 DEF OneCall, Unregisters, Push!Heard
    <3>4. Unregisters(c)' /\ Push!Heard(c)'
      BY <2>3, <3>2, <1>3, <1>4 DEF Unregisters, Push!Heard
    <3>5. Push!InFlight = {}
      BY <2>3, <1>c, <1>7
    <3>6. Belief'
      BY <2>1, <3>1, <3>4, <3>5, <1>1 DEF Belief
    <3> QED
      BY <3>3, <3>6
  <2> QED
    BY <2>2, <2>3, <1>3
<1> QED
  BY <1>4, <1>5, <1>7

\* The native token is known, and registered unless the phone believes it is.
LEMMA SendKeepsBelief ==
  ASSUME PushBounds, PushInv, NEW c \in Calls, Push!SendRegister(c)
  PROVE  PushInv'
<1> USE DEF PushInv
<1>0. Push!TypeOK /\ CallInv
  OBVIOUS
<1> PICK r : r = call'[c]
  OBVIOUS
<1>1. /\ call[c].at = "reading" /\ call' = [call EXCEPT ![c] = r]
      /\ \/ r = Push!Free /\ pushCrossed' = pushCrossed
         \/ /\ r = [call[c] EXCEPT !.at = "sent", !.token = native]
            /\ registered # native
            /\ pushCrossed' = (pushCrossed \/ Push!InFlight # {} \/ Push!Stale(c))
      /\ UNCHANGED <<native, signedIn, signIns, registered, leaving, entitled, owner, active,
                      notice,
                     rejected, changes>>
  BY <1>0 DEF Push!SendRegister, Push!TypeOK, Push!phoneVars, Push!rowVars, Push!noticeVars
<1>2. /\ call[c] \in Push!CallRecord /\ native \in Nat \ {0} /\ native <= MaxToken
      /\ MaxSignIns \in Nat /\ MaxToken \in Nat /\ signIns \in Nat
  BY <1>0, PushTypes DEF Push!Token
<1>3. /\ r = Push!Free \/ /\ r.op = "register" /\ r.at = "sent" /\ r.user = call[c].user
                          /\ r.signIn = call[c].signIn /\ r.token = native
      /\ r \in Push!CallRecord
  <2>1. call[c].op = "register"
    BY <1>0, <1>1 DEF CallInv
  <2>2. CASE r = Push!Free
    BY <2>2, <1>2 DEF Push!CallRecord, Push!Free
  <2>3. CASE r = [call[c] EXCEPT !.at = "sent", !.token = native]
    <3> PICK s : s = [call[c] EXCEPT !.at = "sent"]
      OBVIOUS
    <3>1. /\ s \in Push!CallRecord /\ s.at = "sent" /\ s.op = call[c].op
          /\ s.user = call[c].user /\ s.signIn = call[c].signIn
      BY <1>2 DEF Push!CallRecord
    <3>2. r = [s EXCEPT !.token = native]
      BY <2>3
    <3>3. /\ r \in Push!CallRecord /\ r.token = native /\ r.at = s.at /\ r.op = s.op
          /\ r.user = s.user /\ r.signIn = s.signIn
      <4>1. native \in 0 .. MaxToken
        BY <1>2
      <4> QED
        BY <3>1, <3>2, <4>1 DEF Push!CallRecord
    <3> QED
      BY <2>1, <3>1, <3>3
  <2>4. r = Push!Free \/ r = [call[c] EXCEPT !.at = "sent", !.token = native]
    BY <1>1
  <2> QED
    BY <2>2, <2>3, <2>4
<1>c. ~pushCrossed' => ~pushCrossed /\ (r # Push!Free => Push!InFlight = {} /\ ~Push!Stale(c))
  BY <1>1
<1>4. /\ CallInv' /\ call' \in [Calls -> Push!CallRecord]
      /\ call'[c] = r /\ \A d \in Calls : d # c => call'[d] = call[d]
      /\ Push!InFlight' = IF r.at \in {"free", "reading"} THEN Push!InFlight \ {c} ELSE Push!InFlight \union {c}
  <2>1. r.token <= native /\ r.signIn <= signIns /\ registered' <= native
    BY <1>0, <1>1, <1>2, <1>3 DEF CallInv, Push!Free
  <2>2. /\ r.at \notin {"reading", "checked", "upserted"}
        /\ r.at \notin {"free", "reading"} => r.op # "none"
        /\ r.op = "register" => r.token # 0
    BY <1>2, <1>3 DEF Push!Free
  <2> QED
    BY <1>0, <1>1, <1>3, <2>1, <2>2, OneCallChanges
<1>5. Push!TypeOK'
  <2>1. pushCrossed' \in BOOLEAN
    BY <1>0, <1>1 DEF Push!TypeOK
  <2> QED
    BY <1>0, <1>1, <1>4, <2>1 DEF Push!TypeOK
<1>6. c \notin Push!InFlight
  BY <1>1 DEF Push!InFlight
<1>7. ASSUME ~pushCrossed'
      PROVE  OneCall' /\ Belief'
  <2>1. ~pushCrossed /\ OneCall /\ Belief
    BY <1>c, <1>7
  <2>2. CASE r = Push!Free
    <3>1. Push!InFlight' = Push!InFlight
      BY <2>2, <1>4, <1>6 DEF Push!Free
    <3>2. \A d \in Push!InFlight : call'[d] = call[d]
      BY <1>4, <1>6 DEF Push!InFlight
    <3> QED
      BY <2>1, <3>1, <3>2, <1>1 DEF OneCall, Belief, Unregisters, Push!Heard
  <2>3. CASE r # Push!Free
    <3>1. /\ Push!InFlight = {} /\ ~Push!Stale(c) /\ registered # native
      BY <2>3, <1>1, <1>c, <1>7
    <3>2. Push!InFlight' = {c}
      BY <2>3, <3>1, <1>3, <1>4
    <3>3. signedIn # None /\ r.user = signedIn
      BY <2>3, <3>1, <1>0, <1>1, <1>3 DEF Push!Stale, CallInv
    <3> QED
      BY <2>3, <3>1, <3>2, <3>3, <1>1, <1>3, <1>4 DEF OneCall, Belief, Unregisters
  <2> QED
    BY <2>2, <2>3
<1> QED
  BY <1>4, <1>5, <1>7

\* A call of the phone is dealt with in control-api, which changes where it stands.
LEMMA StageChanges ==
  ASSUME PushBounds, Push!TypeOK, CallInv, NEW c \in Push!InFlight,
         NEW a \in {"sent", "checked", "upserted", "done", "refused"},
         call' = [call EXCEPT ![c].at = a], a \in {"checked", "upserted"} =>
           call[c].op = "register",
         signIns' = signIns, signedIn' = signedIn, native' = native, registered' = registered
  PROVE  /\ CallInv' /\ call' \in [Calls -> Push!CallRecord] /\ Push!InFlight' = Push!InFlight
         /\ call'[c].at = a /\ call'[c].op = call[c].op /\ call'[c].user = call[c].user
         /\ call'[c].token = call[c].token /\ call'[c].signIn = call[c].signIn
         /\ \A d \in Push!InFlight : d # c => call'[d] = call[d]
<1> PICK r : r = call'[c]
  OBVIOUS
<1>1. /\ c \in Calls /\ call[c] \in Push!CallRecord /\ DOMAIN call = Calls
  BY PushTypes DEF Push!InFlight
<1>2. call' = [call EXCEPT ![c] = r] /\ r = [call[c] EXCEPT !.at = a]
  BY <1>1
<1>3. /\ r \in Push!CallRecord /\ r.at = a /\ r.op = call[c].op /\ r.user = call[c].user
      /\ r.token = call[c].token /\ r.signIn = call[c].signIn
  BY <1>1, <1>2 DEF Push!CallRecord
<1>4. /\ r.signIn <= signIns /\ r.token <= native /\ registered' <= native
      /\ r.op # "none" /\ r.at \notin {"free", "reading"}
      /\ (r.op = "register" /\ r.at # "reading") => r.token # 0
  BY <1>1, <1>3 DEF CallInv, Push!InFlight
<1>5. /\ CallInv' /\ call' \in [Calls -> Push!CallRecord]
      /\ call'[c] = r /\ \A d \in Calls : d # c => call'[d] = call[d]
      /\ Push!InFlight' = Push!InFlight \union {c}
  BY <1>1, <1>2, <1>3, <1>4, OneCallChanges
<1> QED
  BY <1>3, <1>5 DEF Push!InFlight

\* The plan is looked up.
LEMMA CheckKeepsBelief ==
  ASSUME PushBounds, PushInv, NEW c \in Calls, Push!EnsureEntitlement(c)
  PROVE  PushInv'
<1> USE DEF PushInv
<1>0. Push!TypeOK /\ CallInv
  OBVIOUS
<1> PICK a : a = (IF call[c].user \in entitled THEN "checked" ELSE "refused")
  OBVIOUS
<1>1. /\ call[c].op = "register" /\ call[c].at = "sent" /\ call' = [call EXCEPT ![c].at = a]
      /\ UNCHANGED <<native, signedIn, signIns, registered, leaving, entitled, owner, active,
                      notice,
                     rejected, pushCrossed, changes>>
  BY DEF Push!EnsureEntitlement, Push!phoneVars, Push!rowVars, Push!noticeVars
<1>2. a \in {"checked", "refused"} /\ c \in Push!InFlight
  BY <1>1 DEF Push!InFlight
<1>3. /\ CallInv' /\ call' \in [Calls -> Push!CallRecord] /\ Push!InFlight' = Push!InFlight
      /\ call'[c].at = a /\ call'[c].op = call[c].op /\ call'[c].user = call[c].user
      /\ call'[c].token = call[c].token /\ call'[c].signIn = call[c].signIn
      /\ \A d \in Push!InFlight : d # c => call'[d] = call[d]
  BY <1>0, <1>1, <1>2, StageChanges
<1>4. Push!TypeOK'
  BY <1>0, <1>1, <1>3 DEF Push!TypeOK
<1>5. ASSUME ~pushCrossed'
      PROVE  OneCall' /\ Belief'
  <2>1. OneCall /\ Belief
    BY <1>1, <1>5
  <2>2. OneCall'
    BY <2>1, <1>1, <1>2, <1>3 DEF OneCall, Unregisters, Push!Heard
  <2>3. registered # native
    BY <2>1, <1>1, <1>2 DEF OneCall
  <2> QED
    BY <2>2, <2>3, <1>1 DEF Belief
<1> QED
  BY <1>3, <1>4, <1>5

\* The row of the token becomes the user's.
LEMMA UpsertKeepsBelief ==
  ASSUME PushBounds, PushInv, NEW c \in Calls, Push!UpsertRow(c)
  PROVE  PushInv'
<1> USE DEF PushInv
<1>0. Push!TypeOK /\ CallInv
  OBVIOUS
<1>1. /\ call[c].at = "checked" /\ call' = [call EXCEPT ![c].at = "upserted"]
      /\ owner' = [owner EXCEPT ![call[c].token] = call[c].user]
      /\ active' = active \union {call[c].token}
      /\ UNCHANGED <<native, signedIn, signIns, registered, leaving, entitled, notice,
                      rejected,
                     pushCrossed, changes>>
  BY DEF Push!UpsertRow, Push!phoneVars, Push!noticeVars
<1>2. c \in Push!InFlight /\ call[c].op = "register"
  BY <1>0, <1>1 DEF Push!InFlight, CallInv
<1>3. /\ CallInv' /\ call' \in [Calls -> Push!CallRecord] /\ Push!InFlight' = Push!InFlight
      /\ call'[c].at = "upserted" /\ call'[c].op = call[c].op /\ call'[c].user = call[c].user
      /\ call'[c].token = call[c].token /\ call'[c].signIn = call[c].signIn
      /\ \A d \in Push!InFlight : d # c => call'[d] = call[d]
  BY <1>0, <1>1, <1>2, StageChanges
<1>4. call[c].token \in Push!Token /\ call[c].user \in Users \union {None}
  <2>1. /\ call[c].token \in Nat /\ call[c].token # 0 /\ call[c].token <= MaxToken
        /\ MaxToken \in Nat /\ call[c] \in Push!CallRecord
    BY <1>0, <1>1, <1>2, PushTypes DEF CallInv
  <2> QED
    BY <2>1 DEF Push!Token, Push!CallRecord
<1>5. owner' \in [Push!Token -> Users \union {None}] /\ owner'[call[c].token] = call[c].user
  BY <1>0, <1>1, <1>4 DEF Push!TypeOK
<1>6. Push!TypeOK'
  BY <1>0, <1>1, <1>3, <1>4, <1>5 DEF Push!TypeOK
<1>7. ASSUME ~pushCrossed'
      PROVE  OneCall' /\ Belief'
  <2>1. OneCall /\ Belief
    BY <1>1, <1>7
  <2>2. /\ Push!InFlight' = {c} /\ call[c].user = signedIn /\ signedIn # None
        /\ registered # native
    BY <2>1, <1>2, <1>3 DEF OneCall
  <2>3. OneCall'
    BY <2>2, <1>1, <1>2, <1>3, <1>5 DEF OneCall, Unregisters
  <2> QED
    BY <2>2, <2>3, <1>1 DEF Belief
<1> QED
  BY <1>3, <1>6, <1>7

\* The other tokens of the user are superseded.
LEMMA SupersedeKeepsBelief ==
  ASSUME PushBounds, PushInv, NEW c \in Calls, Push!Supersede(c)
  PROVE  PushInv'
<1> USE DEF PushInv
<1>0. Push!TypeOK /\ CallInv
  OBVIOUS
<1>1. /\ call[c].at = "upserted" /\ call' = [call EXCEPT ![c].at = "done"]
      /\ active' = {t \in active : owner[t] # call[c].user \/ t = call[c].token}
      /\ UNCHANGED <<native, signedIn, signIns, registered, leaving, entitled, owner, notice,
                     rejected, pushCrossed, changes>>
  BY DEF Push!Supersede, Push!phoneVars, Push!noticeVars
<1>2. c \in Push!InFlight /\ call[c].op = "register"
  BY <1>0, <1>1 DEF Push!InFlight, CallInv
<1>3. /\ CallInv' /\ call' \in [Calls -> Push!CallRecord] /\ Push!InFlight' = Push!InFlight
      /\ call'[c].at = "done" /\ call'[c].op = call[c].op /\ call'[c].user = call[c].user
      /\ call'[c].token = call[c].token /\ call'[c].signIn = call[c].signIn
      /\ \A d \in Push!InFlight : d # c => call'[d] = call[d]
  BY <1>0, <1>1, <1>2, StageChanges
<1>4. Push!TypeOK'
  BY <1>0, <1>1, <1>3 DEF Push!TypeOK
<1>5. ASSUME ~pushCrossed'
      PROVE  OneCall' /\ Belief'
  <2>1. OneCall /\ Belief
    BY <1>1, <1>5
  <2>2. /\ Push!InFlight' = {c} /\ call[c].user = signedIn /\ signedIn # None
        /\ registered # native
        /\ owner[call[c].token] = signedIn /\ call[c].token \in active \union rejected
    BY <2>1, <1>1, <1>2, <1>3 DEF OneCall
  <2>3. OneCall'
    BY <2>2, <1>1, <1>2, <1>3 DEF OneCall, Unregisters
  <2> QED
    BY <2>2, <2>3, <1>1 DEF Belief
<1> QED
  BY <1>3, <1>4, <1>5

\* The token is deactivated as the phone asks.
LEMMA UnregisterKeepsBelief ==
  ASSUME PushBounds, PushInv, NEW c \in Calls, Push!Unregister(c)
  PROVE  PushInv'
<1> USE DEF PushInv
<1>0. Push!TypeOK /\ CallInv
  OBVIOUS
<1>1. /\ call[c].op \in {"unregister", "logout"} /\ call[c].at = "sent"
      /\ call' = [call EXCEPT ![c].at = "done"] /\ active' \subseteq active
      /\ UNCHANGED <<native, signedIn, signIns, registered, leaving, entitled, owner, notice,
                     rejected, pushCrossed, changes>>
  BY DEF Push!Unregister, Push!Deactivate, Push!phoneVars, Push!noticeVars
<1>2. c \in Push!InFlight /\ Unregisters(c)
  BY <1>1 DEF Push!InFlight, Unregisters
<1>3. /\ CallInv' /\ call' \in [Calls -> Push!CallRecord] /\ Push!InFlight' = Push!InFlight
      /\ call'[c].at = "done" /\ call'[c].op = call[c].op /\ call'[c].user = call[c].user
      /\ call'[c].token = call[c].token /\ call'[c].signIn = call[c].signIn
      /\ \A d \in Push!InFlight : d # c => call'[d] = call[d]
  BY <1>0, <1>1, <1>2, StageChanges
<1>4. Push!TypeOK'
  BY <1>0, <1>1, <1>3 DEF Push!TypeOK
<1>5. ASSUME ~pushCrossed'
      PROVE  OneCall' /\ Belief'
  <2>1. OneCall /\ Belief
    BY <1>1, <1>5
  <2>2. Push!InFlight' = {c} /\ call[c].user = signedIn /\ signedIn # None
    BY <2>1, <1>2, <1>3 DEF OneCall
  <2>3. ~Push!Heard(c) => registered # native \/ leaving # "no"
    BY <2>1, <1>2 DEF OneCall
  <2>4. OneCall'
    BY <2>2, <2>3, <1>1, <1>3 DEF OneCall, Unregisters, Push!Heard
  <2>5. Belief'
    BY <2>1, <2>2, <2>3, <1>1, <1>3 DEF Belief, Unregisters, Push!Heard
  <2> QED
    BY <2>4, <2>5
<1> QED
  BY <1>3, <1>4, <1>5

\* A call that the phone no longer knows of.
LEMMA CallFreed ==
  ASSUME PushBounds, Push!TypeOK, CallInv, NEW c \in Calls, call' = [call EXCEPT ![c] = Push!Free],
         signIns' = signIns, signedIn' = signedIn, native' = native, registered' <= native
  PROVE  /\ CallInv' /\ call' \in [Calls -> Push!CallRecord]
         /\ Push!InFlight' = Push!InFlight \ {c}
<1>1. /\ Push!Free \in Push!CallRecord /\ Push!Free.at = "free" /\ Push!Free.op = "none"
      /\ Push!Free.signIn = 0
      /\ Push!Free.token = 0
  BY DEF Push!Free, Push!CallRecord, PushBounds
<1>2. Push!Free.signIn <= signIns /\ Push!Free.token <= native
  BY <1>1, PushTypes
<1>3. /\ CallInv' /\ call' \in [Calls -> Push!CallRecord]
      /\ Push!InFlight' = IF Push!Free.at \in {"free", "reading"} THEN Push!InFlight \ {c} ELSE Push!InFlight \union {c}
  BY <1>1, <1>2, OneCallChanges
<1> QED
  BY <1>1, <1>3

\* The phone hears that its token is registered, or that the call is refused.
LEMMA RegisteredKeepsBelief ==
  ASSUME PushBounds, PushInv, NEW c \in Calls, Push!RegisterAnswered(c)
  PROVE  PushInv'
<1> USE DEF PushInv
<1>0. Push!TypeOK /\ CallInv
  OBVIOUS
<1>1. /\ call[c].op = "register" /\ call[c].at \in {"done", "refused"}
      /\ registered' = IF call[c].at = "done" /\ Push!Heard(c) THEN call[c].token ELSE registered
      /\ call' = [call EXCEPT ![c] = Push!Free]
      /\ UNCHANGED <<native, signedIn, signIns, leaving, entitled, owner, active, notice,
                      rejected,
                     pushCrossed, changes>>
  BY DEF Push!RegisterAnswered, Push!rowVars, Push!noticeVars
<1>2. /\ c \in Push!InFlight /\ registered' <= native /\ registered' \in 0 .. MaxToken
  <2>1. /\ call[c].token \in Nat /\ call[c].token <= MaxToken /\ MaxToken \in Nat
        /\ registered \in 0 .. MaxToken
    BY <1>0, PushTypes
  <2> QED
    BY <2>1, <1>0, <1>1 DEF CallInv, Push!InFlight
<1>3. /\ CallInv' /\ call' \in [Calls -> Push!CallRecord]
      /\ Push!InFlight' = Push!InFlight \ {c}
  BY <1>0, <1>1, <1>2, CallFreed
<1>4. Push!TypeOK'
  BY <1>0, <1>1, <1>2, <1>3 DEF Push!TypeOK
<1>5. ASSUME ~pushCrossed'
      PROVE  OneCall' /\ Belief'
  <2>1. OneCall /\ Belief
    BY <1>1, <1>5
  <2>2. Push!InFlight' = {} /\ signedIn # None /\ registered # native
    BY <2>1, <1>1, <1>2, <1>3 DEF OneCall
  <2>3. call[c].at = "done" =>
          owner[call[c].token] = signedIn /\ call[c].token \in active \union rejected
    BY <2>1, <1>1, <1>2 DEF OneCall
  <2> QED
    BY <2>2, <2>3, <1>1 DEF OneCall, Belief
<1> QED
  BY <1>3, <1>4, <1>5

\* What the phone does once it knows no more of a call that unregisters.
LEMMA AfterUnregisterBelieves ==
  ASSUME PushBounds, Push!TypeOK, CallInv, NEW c \in Calls, Push!AfterFailure(c)
  PROVE  /\ registered' \in {0, registered} /\ registered' <= native
         /\ leaving' \in {leaving, "clearing"}
         /\ call[c].op = "register" => UNCHANGED <<registered, leaving>>
         /\ (call[c].op # "register" /\ Push!Heard(c)) =>
              registered' = 0 \/ leaving' = "clearing"
         /\ ~Push!Heard(c) => UNCHANGED <<registered, leaving>>
<1>1. registered <= native /\ native \in Nat
  BY PushTypes DEF CallInv
<1> QED
  BY <1>1 DEF Push!AfterFailure, Push!AfterUnregister

\* A call that ends, whatever it did, leaves the phone believing what is so.
LEMMA EndKeepsBelief ==
  ASSUME PushBounds, PushInv, NEW c \in Calls, Push!UnregisterAnswered(c) \/ Push!CallFails(c)
  PROVE  PushInv'
<1> USE DEF PushInv
<1>0. Push!TypeOK /\ CallInv
  OBVIOUS
<1>1. /\ c \in Push!InFlight /\ Push!AfterFailure(c) /\ call' = [call EXCEPT ![c] = Push!Free]
      /\ UNCHANGED <<native, signedIn, signIns, entitled, owner, active, notice, rejected,
                      pushCrossed>>
  BY DEF Push!UnregisterAnswered, Push!CallFails, Push!AfterFailure, Push!InFlight,
     Push!rowVars, Push!noticeVars
<1>2. changes' \in 0 .. MaxChanges
  BY <1>0, PushTypes DEF Push!UnregisterAnswered, Push!CallFails, Push!Change, Push!TypeOK
<1>3. /\ registered' \in {0, registered} /\ registered' <= native
      /\ leaving' \in {leaving, "clearing"}
      /\ call[c].op = "register" => UNCHANGED <<registered, leaving>>
      /\ (call[c].op # "register" /\ Push!Heard(c)) => registered' = 0 \/ leaving' = "clearing"
      /\ ~Push!Heard(c) => UNCHANGED <<registered, leaving>>
  BY <1>0, <1>1, AfterUnregisterBelieves
<1>4. /\ CallInv' /\ call' \in [Calls -> Push!CallRecord]
      /\ Push!InFlight' = Push!InFlight \ {c}
  BY <1>0, <1>1, <1>3, CallFreed
<1>5. registered' \in 0 .. MaxToken
  BY <1>0, <1>3, PushTypes
<1>6. Push!TypeOK'
  BY <1>0, <1>1, <1>2, <1>3, <1>4, <1>5 DEF Push!TypeOK
<1>7. ASSUME ~pushCrossed'
      PROVE  OneCall' /\ Belief'
  <2>1. OneCall /\ Belief
    BY <1>1, <1>7
  <2>2. Push!InFlight' = {}
    BY <2>1, <1>1, <1>4 DEF OneCall
  <2>3. native # 0
    BY <1>0, PushTypes
  <2>4. /\ call[c].op = "register" => registered # native
        /\ (Unregisters(c) /\ ~Push!Heard(c)) => registered # native \/ leaving # "no"
    BY <2>1, <1>1 DEF OneCall
  <2>5. call[c].op = "register" \/ Unregisters(c)
    BY <1>0, <1>1, PushTypes DEF CallInv, Push!CallRecord, Unregisters
  <2>6. registered' # native \/ leaving' # "no"
    BY <2>3, <2>4, <2>5, <1>3 DEF Unregisters
  <2> QED
    BY <2>2, <2>6, <1>1 DEF OneCall, Belief
<1> QED
  BY <1>4, <1>6, <1>7

\* The answer to a call is lost.
LEMMA LossKeepsBelief ==
  ASSUME PushBounds, PushInv, NEW c \in Calls, Push!AnswerIsLost(c)
  PROVE  PushInv'
<1> USE DEF PushInv
<1>0. Push!TypeOK /\ CallInv
  OBVIOUS
<1> PICK r : r = call'[c]
  OBVIOUS
<1>1. /\ c \in Push!InFlight /\ Push!Heard(c) /\ Push!AfterFailure(c) /\ changes < MaxChanges
      /\ changes' = changes + 1 /\ call' = [call EXCEPT ![c].signIn = 0]
      /\ UNCHANGED <<native, signedIn, signIns, entitled, owner, active, notice, rejected,
                      pushCrossed>>
  BY DEF Push!AnswerIsLost, Push!Change, Push!rowVars, Push!noticeVars
<1>2. changes' \in 0 .. MaxChanges
  BY <1>0, <1>1, PushTypes DEF Push!TypeOK
<1>3. /\ registered' \in {0, registered} /\ registered' <= native
      /\ leaving' \in {leaving, "clearing"}
      /\ call[c].op = "register" => UNCHANGED <<registered, leaving>>
      /\ (call[c].op # "register" /\ Push!Heard(c)) => registered' = 0 \/ leaving' = "clearing"
  BY <1>0, <1>1, AfterUnregisterBelieves
<1>4. /\ call[c] \in Push!CallRecord /\ DOMAIN call = Calls /\ signIns \in Nat
      /\ MaxSignIns \in Nat
  BY <1>0, PushTypes
<1>5. /\ r \in Push!CallRecord /\ r.signIn = 0 /\ r.at = call[c].at /\ r.op = call[c].op
      /\ r.user = call[c].user /\ r.token = call[c].token /\ call' = [call EXCEPT ![c] = r]
  <2>1. call' = [call EXCEPT ![c] = r] /\ r = [call[c] EXCEPT !.signIn = 0]
    BY <1>1, <1>4
  <2> QED
    BY <2>1, <1>4 DEF Push!CallRecord
<1>6. /\ CallInv' /\ call' \in [Calls -> Push!CallRecord] /\ call'[c] = r
      /\ Push!InFlight' = Push!InFlight \union {c}
  <2>1. r.signIn <= signIns /\ r.token <= native /\ r.at \notin {"free", "reading"}
    BY <1>0, <1>1, <1>4, <1>5 DEF CallInv, Push!InFlight
  <2>2. /\ r.at \in {"checked", "upserted"} => r.op = "register"
        /\ r.op # "none"
        /\ r.op = "register" => r.token # 0
    BY <1>0, <1>1, <1>5 DEF CallInv, Push!InFlight
  <2> QED
    BY <1>0, <1>1, <1>3, <1>5, <2>1, <2>2, OneCallChanges
<1>7. registered' \in 0 .. MaxToken
  BY <1>0, <1>3, PushTypes
<1>8. Push!TypeOK'
  BY <1>0, <1>1, <1>2, <1>3, <1>6, <1>7 DEF Push!TypeOK
<1>9. ASSUME ~pushCrossed'
      PROVE  OneCall' /\ Belief'
  <2>1. OneCall /\ Belief
    BY <1>1, <1>9
  <2>2. Push!InFlight' = {c} /\ signedIn # None /\ r.user = signedIn
    BY <2>1, <1>1, <1>5, <1>6 DEF OneCall
  <2>3. native # 0
    BY <1>0, PushTypes
  <2>4. registered' # native \/ leaving' # "no"
    BY <2>1, <2>3, <1>1, <1>3 DEF OneCall
  <2>5. /\ call[c].op = "register" => registered # native
        /\ (call[c].op = "register" /\ call[c].at \in {"upserted", "done"}) =>
             owner[call[c].token] = signedIn /\ call[c].token \in active \union rejected
    BY <2>1, <1>1 DEF OneCall
  <2>6. OneCall'
    BY <2>2, <2>4, <2>5, <1>1, <1>3, <1>5, <1>6 DEF OneCall, Unregisters
  <2> QED
    BY <2>4, <2>6, <1>1 DEF Belief
<1> QED
  BY <1>6, <1>8, <1>9

\* The user leaves: the token is unregistered first if the phone believes it registered.
LEMMA LogoutKeepsBelief ==
  ASSUME PushBounds, PushInv, NEW c \in Calls, Push!Logout(c)
  PROVE  PushInv'
<1> USE DEF PushInv
<1>0. Push!TypeOK /\ CallInv
  OBVIOUS
<1>1. /\ signedIn # None /\ call[c] = Push!Free /\ leaving' \in {"clearing", "unregistering"}
      /\ UNCHANGED <<native, signedIn, signIns, registered, entitled, owner, active, notice,
                      rejected,
                     changes>>
  BY DEF Push!Logout, Push!rowVars, Push!noticeVars
<1>c. /\ pushCrossed' \in BOOLEAN
      /\ ~pushCrossed' => ~pushCrossed /\ Push!InFlight = {}
  BY DEF Push!Logout
<1>2. c \notin Push!InFlight /\ signIns # 0
  BY <1>0, <1>1 DEF Push!InFlight, Push!Free, CallInv
<1>3. CASE UNCHANGED call
  <2>1. CallInv' /\ Push!InFlight' = Push!InFlight
    BY <1>0, <1>1, <1>3 DEF CallInv, Push!InFlight
  <2>2. Push!TypeOK'
    BY <1>0, <1>1, <1>c, <1>3 DEF Push!TypeOK
  <2>3. ASSUME ~pushCrossed' PROVE OneCall' /\ Belief'
    BY <2>1, <2>3, <1>1, <1>c DEF OneCall, Belief
  <2> QED
    BY <2>1, <2>2, <2>3
<1>4. CASE Push!Put(c, "logout", "sent", registered)
  <2> PICK r : r = [op |-> "logout", at |-> "sent", user |-> signedIn, token |-> registered,
                    signIn |-> signIns]
    OBVIOUS
  <2>1. /\ call' = [call EXCEPT ![c] = r] /\ r.op = "logout" /\ r.at = "sent"
        /\ r.user = signedIn
        /\ r.token = registered /\ r.signIn = signIns
    BY <1>4 DEF Push!Put
  <2>2. /\ r \in Push!CallRecord /\ r.signIn <= signIns /\ r.token <= native
        /\ registered' <= native
    <3>1. signedIn \in Users \union {None} /\ registered \in 0 .. MaxToken
          /\ signIns \in 0 .. MaxSignIns /\ signIns \in Nat /\ registered <= native
      BY <1>0, PushTypes DEF CallInv
    <3> QED
      BY <3>1, <2>1, <1>1 DEF Push!CallRecord
  <2>3. /\ CallInv' /\ call' \in [Calls -> Push!CallRecord] /\ call'[c] = r
        /\ Push!InFlight' = IF r.at \in {"free", "reading"} THEN Push!InFlight \ {c} ELSE Push!InFlight \union {c}
    <3>1. /\ r.at \notin {"reading", "checked", "upserted"}
          /\ r.op \notin {"none", "register"}
      BY <2>1
    <3> QED
      BY <1>0, <1>1, <2>1, <2>2, <3>1, OneCallChanges
  <2>4. Push!TypeOK'
    BY <1>0, <1>1, <1>c, <2>3 DEF Push!TypeOK
  <2>5. ASSUME ~pushCrossed' PROVE OneCall' /\ Belief'
    <3>1. Push!InFlight' = {c}
      BY <2>1, <2>3, <2>5, <1>c
    <3> QED
      BY <2>1, <2>3, <3>1, <1>1, <1>2 DEF OneCall, Belief, Unregisters, Push!Heard
  <2> QED
    BY <2>3, <2>4, <2>5
<1> QED
  BY <1>3, <1>4 DEF Push!Logout

\* The state of the sign-in is cleared.
LEMMA LeftKeepsBelief ==
  ASSUME PushBounds, PushInv, Push!LogoutEnds
  PROVE  PushInv'
<1> USE DEF PushInv
<1>0. Push!TypeOK /\ CallInv
  OBVIOUS
<1>1. /\ signedIn' = None /\ registered' = 0 /\ leaving' = "no"
      /\ UNCHANGED <<native, signIns, call, entitled, owner, active, notice, rejected,
                      changes>>
  BY DEF Push!LogoutEnds, Push!rowVars, Push!noticeVars
<1>c. /\ pushCrossed' \in BOOLEAN
      /\ ~pushCrossed' => ~pushCrossed /\ Push!InFlight = {}
  BY DEF Push!LogoutEnds
<1>2. native \in Nat \ {0} /\ MaxToken \in Nat
  BY <1>0, PushTypes
<1>3. CallInv' /\ Push!InFlight' = Push!InFlight
  BY <1>0, <1>1, <1>2 DEF CallInv, Push!InFlight
<1>4. Push!TypeOK'
  BY <1>0, <1>1, <1>c, <1>2 DEF Push!TypeOK
<1>5. ASSUME ~pushCrossed' PROVE OneCall' /\ Belief'
  BY <1>5, <1>1, <1>2, <1>3, <1>c DEF OneCall, Belief
<1> QED
  BY <1>3, <1>4, <1>5

\* A user signs in on the phone.
LEMMA SignInKeepsBelief ==
  ASSUME PushBounds, PushInv, NEW u \in Users, Push!SignIn(u)
  PROVE  PushInv'
<1> USE DEF PushInv
<1>0. Push!TypeOK /\ CallInv
  OBVIOUS
<1>1. /\ signedIn = None /\ signIns < MaxSignIns /\ signIns' = signIns + 1 /\ signedIn' = u
      /\ UNCHANGED <<native, registered, leaving, call, entitled, owner, active, notice,
                      rejected,
                     pushCrossed, changes>>
  BY DEF Push!SignIn, Push!rowVars, Push!noticeVars
<1>2. signIns \in Nat /\ MaxSignIns \in Nat /\ \A c \in Calls : call[c].signIn \in Nat
  BY <1>0, PushTypes
<1>3. CallInv' /\ Push!InFlight' = Push!InFlight
  BY <1>0, <1>1, <1>2 DEF CallInv, Push!InFlight
<1>4. Push!TypeOK'
  BY <1>0, <1>1, <1>2 DEF Push!TypeOK
<1>5. ASSUME ~pushCrossed' PROVE OneCall' /\ Belief'
  <2>1. OneCall /\ Belief
    BY <1>1, <1>5
  <2>2. Push!InFlight = {}
    BY <2>1, <1>1 DEF OneCall
  <2>3. registered # native \/ leaving # "no"
    BY <2>1, <1>1 DEF Belief
  <2> QED
    BY <2>2, <2>3, <1>1, <1>3 DEF OneCall, Belief
<1> QED
  BY <1>3, <1>4, <1>5

\* The app starts again and believes nothing.
LEMMA RestartKeepsBelief ==
  ASSUME PushBounds, PushInv, Push!PhoneRestarts
  PROVE  PushInv'
<1> USE DEF PushInv
<1>0. Push!TypeOK /\ CallInv
  OBVIOUS
<1>1. /\ changes < MaxChanges /\ changes' = changes + 1 /\ registered' = 0 /\ leaving' = "no"
      /\ call' = [c \in Calls |-> IF c \in Push!InFlight THEN [call[c] EXCEPT !.signIn = 0] ELSE Push!Free]
      /\ UNCHANGED <<native, signedIn, signIns, entitled, owner, active, notice, rejected,
                      pushCrossed>>
  BY DEF Push!PhoneRestarts, Push!Change, Push!rowVars, Push!noticeVars
<1>2. /\ native \in Nat \ {0} /\ MaxToken \in Nat /\ MaxSignIns \in Nat /\ signIns \in Nat
      /\ \A c \in Calls : call[c] \in Push!CallRecord
      /\ changes' \in 0 .. MaxChanges
  BY <1>0, <1>1, PushTypes DEF Push!TypeOK
<1>3. \A c \in Calls : c \notin Push!InFlight =>
        /\ call'[c] \in Push!CallRecord /\ call'[c].at = "free" /\ call'[c].op = "none"
        /\ call'[c].signIn = 0 /\ call'[c].token = 0
  BY <1>1, <1>2 DEF Push!Free, Push!CallRecord
<1>4. \A c \in Calls : c \in Push!InFlight =>
        /\ call'[c] \in Push!CallRecord /\ call'[c].at = call[c].at /\ call'[c].op = call[c].op
        /\ call'[c].signIn = 0 /\ call'[c].token = call[c].token /\ call'[c].user = call[c].user
  BY <1>1, <1>2 DEF Push!CallRecord
<1>5. Push!InFlight' = Push!InFlight
  BY <1>3, <1>4 DEF Push!InFlight
<1>6. CallInv'
  <2> SUFFICES ASSUME NEW c \in Calls
               PROVE  /\ call'[c].signIn <= signIns /\ call'[c].token <= native
                      /\ call'[c].at # "reading"
                      /\ call'[c].at \in {"checked", "upserted"} => call'[c].op = "register"
                      /\ c \in Push!InFlight => call'[c].op # "none"
                      /\ (call'[c].op = "register" /\ call'[c].at # "reading") =>
                           call'[c].token # 0
    BY <1>0, <1>1, <1>2, <1>5 DEF CallInv
  <2>1. CASE c \in Push!InFlight
    BY <2>1, <1>0, <1>2, <1>4 DEF CallInv, Push!InFlight
  <2>2. CASE c \notin Push!InFlight
    BY <2>2, <1>2, <1>3
  <2> QED
    BY <2>1, <2>2
<1>7. Push!TypeOK'
  <2>1. call' \in [Calls -> Push!CallRecord]
    BY <1>1, <1>3, <1>4
  <2> QED
    BY <1>0, <1>1, <1>2, <2>1 DEF Push!TypeOK
<1>8. ASSUME ~pushCrossed' PROVE OneCall' /\ Belief'
  <2>1. OneCall
    BY <1>1, <1>8
  <2>2. OneCall'
    <3>1. registered' # native'
      BY <1>1, <1>2
    <3>2. \A c \in Push!InFlight : /\ call'[c].at = call[c].at /\ call'[c].op = call[c].op
                                   /\ call'[c].token = call[c].token
                                   /\ call'[c].user = call[c].user
      BY <1>4 DEF Push!InFlight
    <3> QED
      BY <2>1, <3>1, <3>2, <1>1, <1>5 DEF OneCall
  <2> QED
    BY <2>2, <1>1, <1>2 DEF Belief
<1> QED
  BY <1>6, <1>7, <1>8

\* The phone is given another token.
LEMMA RefreshKeepsBelief ==
  ASSUME PushBounds, PushInv, Push!TokenRefreshed
  PROVE  PushInv'
<1> USE DEF PushInv
<1>0. Push!TypeOK /\ CallInv
  OBVIOUS
<1>1. /\ native < MaxToken /\ native' = native + 1
      /\ UNCHANGED <<signedIn, signIns, registered, leaving, call, entitled, owner, active,
                      notice,
                     rejected, pushCrossed, changes>>
  BY DEF Push!TokenRefreshed, Push!rowVars, Push!noticeVars
<1>2. /\ native \in Nat /\ registered \in Nat /\ MaxToken \in Nat /\ registered <= native
      /\ \A c \in Calls : call[c].token \in Nat
  BY <1>0, PushTypes DEF CallInv
<1>3. CallInv' /\ Push!InFlight' = Push!InFlight
  BY <1>0, <1>1, <1>2 DEF CallInv, Push!InFlight
<1>4. Push!TypeOK'
  <2>1. native' \in Push!Token
    BY <1>1, <1>2 DEF Push!Token
  <2> QED
    BY <1>0, <1>1, <2>1 DEF Push!TypeOK
<1>5. ASSUME ~pushCrossed' PROVE OneCall' /\ Belief'
  <2>1. OneCall
    BY <1>1, <1>5
  <2>2. registered # native'
    BY <1>1, <1>2
  <2> QED
    BY <2>1, <2>2, <1>1, <1>3 DEF OneCall, Belief, Unregisters, Push!Heard
<1> QED
  BY <1>3, <1>4, <1>5

\* Plans change, and notifications are sent: no row does.
LEMMA NoticeKeepsBelief ==
  ASSUME PushBounds, PushInv,
         \/ \E u \in Users : Push!PlanChanges(u)
         \/ \E n \in Notices : Push!SendPush(n) \/ Push!NoAccessToken(n) \/ \E u \in Users : Push!Notify(n, u)
  PROVE  PushInv'
<1> USE DEF PushInv
<1>0. Push!TypeOK /\ CallInv
  OBVIOUS
<1>1. UNCHANGED <<native, signedIn, signIns, registered, leaving, call, owner, active,
                   rejected,
                  pushCrossed>>
  BY DEF Push!PlanChanges, Push!SendPush, Push!NoAccessToken, Push!Notify, Push!phoneVars,
     Push!rowVars, Push!noticeVars
<1>2. CallInv' /\ Push!InFlight' = Push!InFlight
  BY <1>0, <1>1 DEF CallInv, Push!InFlight
<1>3. entitled' \subseteq Users /\ changes' \in 0 .. MaxChanges
  BY <1>0, PushTypes DEF Push!PlanChanges, Push!SendPush, Push!NoAccessToken, Push!Notify,
     Push!Change, Push!TypeOK
<1>4. notice' \in [Notices -> [at : {"idle", "sending", "marking"}, tokens : SUBSET Push!Token]]
  <2>1. Push!Silent \in [at : {"idle", "sending", "marking"}, tokens : SUBSET Push!Token]
    BY DEF Push!Silent
  <2>2. CASE \E u \in Users : Push!PlanChanges(u)
    BY <2>2, <1>0 DEF Push!PlanChanges, Push!noticeVars, Push!TypeOK
  <2>3. ASSUME NEW n \in Notices, NEW u \in Users, Push!Notify(n, u)
        PROVE  notice' \in [Notices -> [at : {"idle", "sending", "marking"}, tokens : SUBSET Push!Token]]
    BY <2>3, <1>0 DEF Push!Notify, Push!ActiveOf, Push!TypeOK
  <2>4. ASSUME NEW n \in Notices, Push!SendPush(n)
        PROVE  notice' \in [Notices -> [at : {"idle", "sending", "marking"}, tokens : SUBSET Push!Token]]
    BY <2>1, <2>4, <1>0 DEF Push!SendPush, Push!TypeOK
  <2>5. ASSUME NEW n \in Notices, Push!NoAccessToken(n)
        PROVE  notice' \in [Notices -> [at : {"idle", "sending", "marking"}, tokens : SUBSET Push!Token]]
    BY <2>1, <2>5, <1>0 DEF Push!NoAccessToken, Push!TypeOK
  <2> QED
    BY <2>2, <2>3, <2>4, <2>5
<1>5. Push!TypeOK'
  BY <1>0, <1>1, <1>3, <1>4 DEF Push!TypeOK
<1>6. ASSUME ~pushCrossed' PROVE OneCall' /\ Belief'
  BY <1>1, <1>2, <1>6 DEF OneCall, Belief, Unregisters, Push!Heard
<1> QED
  BY <1>2, <1>5, <1>6

\* A token that the push service refuses is deactivated.
LEMMA RefusalKeepsBelief ==
  ASSUME PushBounds, PushInv, NEW n \in Notices, NEW t \in Push!Token, Push!MarkInvalid(n, t)
  PROVE  PushInv'
<1> USE DEF PushInv
<1>0. Push!TypeOK /\ CallInv
  OBVIOUS
<1>1. /\ active' = active \ {t} /\ rejected' = rejected \union {t}
      /\ UNCHANGED <<native, signedIn, signIns, registered, leaving, call, entitled, owner,
                      pushCrossed,
                     changes>>
  BY DEF Push!MarkInvalid, Push!phoneVars
<1>2. CallInv' /\ Push!InFlight' = Push!InFlight
  BY <1>0, <1>1 DEF CallInv, Push!InFlight
<1>3. notice' \in [Notices -> [at : {"idle", "sending", "marking"}, tokens : SUBSET Push!Token]]
  <2> PICK q : q = IF notice[n].tokens = {t} THEN Push!Silent
                   ELSE [at |-> "marking", tokens |-> notice[n].tokens \ {t}]
    OBVIOUS
  <2>1. notice \in [Notices -> [at : {"idle", "sending", "marking"}, tokens : SUBSET Push!Token]]
    BY <1>0 DEF Push!TypeOK
  <2>2. notice' = [notice EXCEPT ![n] = q]
    BY DEF Push!MarkInvalid
  <2>3. Push!Silent \in [at : {"idle", "sending", "marking"}, tokens : SUBSET Push!Token]
    BY DEF Push!Silent
  <2>4. q \in [at : {"idle", "sending", "marking"}, tokens : SUBSET Push!Token]
    BY <2>1, <2>3
  <2> QED
    BY <2>1, <2>2, <2>4
<1>4. Push!TypeOK'
  BY <1>0, <1>1, <1>3 DEF Push!TypeOK
<1>5. active' \union rejected' = active \union rejected \union {t}
  BY <1>1
<1>6. ASSUME ~pushCrossed' PROVE OneCall' /\ Belief'
  BY <1>1, <1>2, <1>5, <1>6 DEF OneCall, Belief, Unregisters, Push!Heard
<1> QED
  BY <1>2, <1>4, <1>6

\* At the start nobody is signed in.
LEMMA PushStarts == PushBounds /\ Push!Init => PushInv
<1> SUFFICES ASSUME PushBounds, Push!Init PROVE PushInv
  OBVIOUS
<1>1. /\ Push!Free \in Push!CallRecord /\ Push!Free.at = "free" /\ Push!Free.op = "none"
      /\ Push!Free.signIn = 0
      /\ Push!Free.token = 0
  BY DEF Push!Free, Push!CallRecord, PushBounds
<1>2. \A c \in Calls : call[c] = Push!Free
  BY DEF Push!Init
<1>3. Push!InFlight = {}
  BY <1>1, <1>2 DEF Push!InFlight
<1>4. Push!TypeOK
  <2>1. call \in [Calls -> Push!CallRecord]
    BY <1>1 DEF Push!Init
  <2>2. native \in Push!Token /\ registered \in 0 .. MaxToken /\ signIns \in 0 .. MaxSignIns
        /\ changes \in 0 .. MaxChanges
    BY DEF Push!Init, Push!Token, PushBounds
  <2>3. notice \in [Notices -> [at : {"idle", "sending", "marking"}, tokens : SUBSET Push!Token]]
    BY DEF Push!Init, Push!Silent
  <2> QED
    BY <2>1, <2>2, <2>3 DEF Push!Init, Push!TypeOK
<1>5. CallInv
  BY <1>1, <1>2, <1>3 DEF CallInv, Push!Init
<1>6. OneCall /\ Belief
  BY <1>3 DEF OneCall, Belief, Push!Init
<1> QED
  BY <1>4, <1>5, <1>6 DEF PushInv

\* Every step keeps what the phone believes so.
LEMMA PushStep == PushBounds /\ PushInv /\ [Push!Next]_(Push!pushVars) => PushInv'
<1> SUFFICES ASSUME PushBounds, PushInv, [Push!Next]_(Push!pushVars) PROVE PushInv'
  OBVIOUS
<1>1. CASE UNCHANGED Push!pushVars
  <2>1. UNCHANGED <<native, signedIn, signIns, registered, leaving, call, entitled, owner,
                     active,
                    notice, rejected, pushCrossed, changes>>
    BY <1>1 DEF Push!pushVars, Push!phoneVars, Push!rowVars, Push!noticeVars
  <2>2. Push!InFlight' = Push!InFlight
    BY <2>1 DEF Push!InFlight
  <2> QED
    BY <2>1, <2>2 DEF PushInv, Push!TypeOK, CallInv, OneCall, Belief, Unregisters, Push!Heard
<1>2. ASSUME NEW c \in Calls, Push!Sync(c) PROVE PushInv'
  BY <1>2, SyncKeepsBelief
<1>3. ASSUME NEW c \in Calls, Push!SendRegister(c) PROVE PushInv'
  BY <1>3, SendKeepsBelief
<1>4. ASSUME NEW c \in Calls, Push!RegisterAnswered(c) PROVE PushInv'
  BY <1>4, RegisteredKeepsBelief
<1>5. ASSUME NEW c \in Calls, Push!UnregisterAnswered(c) \/ Push!CallFails(c) PROVE PushInv'
  BY <1>5, EndKeepsBelief
<1>6. ASSUME NEW c \in Calls, Push!Logout(c) PROVE PushInv'
  BY <1>6, LogoutKeepsBelief
<1>7. ASSUME NEW c \in Calls, Push!AnswerIsLost(c) PROVE PushInv'
  BY <1>7, LossKeepsBelief
<1>8. ASSUME NEW c \in Calls, Push!EnsureEntitlement(c) PROVE PushInv'
  BY <1>8, CheckKeepsBelief
<1>9. ASSUME NEW c \in Calls, Push!UpsertRow(c) PROVE PushInv'
  BY <1>9, UpsertKeepsBelief
<1>10. ASSUME NEW c \in Calls, Push!Supersede(c) PROVE PushInv'
  BY <1>10, SupersedeKeepsBelief
<1>11. ASSUME NEW c \in Calls, Push!Unregister(c) PROVE PushInv'
  BY <1>11, UnregisterKeepsBelief
<1>12. CASE Push!LogoutEnds
  BY <1>12, LeftKeepsBelief
<1>13. CASE Push!PhoneRestarts
  BY <1>13, RestartKeepsBelief
<1>14. CASE Push!TokenRefreshed
  BY <1>14, RefreshKeepsBelief
<1>15. ASSUME NEW u \in Users, Push!SignIn(u) PROVE PushInv'
  BY <1>15, SignInKeepsBelief
<1>16. CASE \/ \E u \in Users : Push!PlanChanges(u)
            \/ \E n \in Notices : Push!SendPush(n) \/ Push!NoAccessToken(n) \/ \E u \in Users : Push!Notify(n, u)
  BY <1>16, NoticeKeepsBelief
<1>17. ASSUME NEW n \in Notices, NEW t \in Push!Token, Push!MarkInvalid(n, t) PROVE PushInv'
  BY <1>17, RefusalKeepsBelief
<1> QED
  BY <1>1, <1>2, <1>3, <1>4, <1>5, <1>6, <1>7, <1>8, <1>9, <1>10, <1>11, <1>12, <1>13, <1>14,
     <1>15, <1>16, <1>17 DEF Push!Next

\* What the phone believes is so once it waits for no call.
LEMMA BeliefIsSo ==
  ASSUME PushInv
  PROVE  Push!RegistrationFollowsSignIn
<1> SUFFICES ASSUME ~pushCrossed, Push!InFlight = {}, leaving = "no", registered = native,
                    native \notin rejected
             PROVE  signedIn # None /\ native \in active /\ owner[native] = signedIn
  BY DEF Push!RegistrationFollowsSignIn
<1>1. Belief
  BY DEF PushInv
<1> QED
  BY <1>1 DEF Belief

\* The invariant of the push registrations holds in every behaviour.
THEOREM PushInvariant == ASSUME PushBounds PROVE Push!Spec => []PushInv
<1>1. Push!Init => PushInv
  BY PushStarts
<1>2. PushInv /\ [Push!Next]_(Push!pushVars) => PushInv'
  BY PushStep
<1> QED
  BY <1>1, <1>2, PTL DEF Push!Spec

-----------------------------------------------------------------------------
(* The events of a turn as a phone shows them.                              *)

TimelineBounds == MaxLinks \in Nat \ {0} /\ MaxSelects \in Nat /\ Turn \notin Items

\* A socket that is not bound brings nothing.
LinkInv ==
  /\ link = "down" => links < MaxLinks
  /\ link # "bound" => toPhone = <<>>

\* What the hub was told is in the rows, or a write will put it there.
StoreInv ==
  \A x \in Timeline!Things :
    /\ Timeline!Rank(row[x]) <= Timeline!Rank(told[x])
    /\ row[x] = told[x] \/ <<x, told[x]>> \in inserts
    /\ \A s \in Timeline!Status : <<x, s>> \in inserts =>
         Timeline!Rank(s) <= Timeline!Rank(told[x])

\* The last event of a thing on the socket is what the hub was told last.
QueueInv ==
  \A k \in 1 .. Len(toPhone) :
    /\ told[toPhone[k][1]] # "none"
    /\ \E j \in k .. Len(toPhone) : toPhone[j] = <<toPhone[k][1], told[toPhone[k][1]]>>

\* The phone shows nothing that the hub was not told, and has loaded what it shows.
LoadInv ==
  /\ load = "read" =>
       \A x \in Timeline!Things : Timeline!Rank(payload[x]) <= Timeline!Rank(told[x])
  /\ turns = "completed" => told[Turn] = "completed"
  /\ (selected /\ load = "idle") => turns # "absent"
  /\ \A i \in Items : told[i] = "none" => shown[i] = "none"

\* The phone will load the turns.
WillLoad == load # "idle" \/ ~selected \/ (link = "down" /\ Timeline!SeemsRunning)

Known(x) ==
  IF x = Turn THEN told[Turn] = "completed" => ~activeTurn
              ELSE shown[x] \in Timeline!Hydrated(told[x])

\* What the hub was told is shown, on its way, or will be loaded.
ViewInv == \A x \in Timeline!Things : Known(x) \/ Timeline!OnTheWay(x, told[x]) \/ WillLoad

TimelineInv ==
  Timeline!TypeOK /\ (~lapsed => LinkInv /\ StoreInv /\ QueueInv /\ LoadInv /\ ViewInv)

\* What the type invariant says of each function and of the events.
LEMMA TimelineTypes ==
  ASSUME TimelineBounds, Timeline!TypeOK
  PROVE  /\ told \in [Timeline!Things -> Timeline!Status]
         /\ row \in [Timeline!Things -> Timeline!Status]
         /\ payload \in [Timeline!Things -> Timeline!Status]
         /\ shown \in [Items -> Timeline!Status]
         /\ toPhone \in Seq(Timeline!Things \X Timeline!Status) /\ Len(toPhone) \in Nat
         /\ \A k \in 1 .. Len(toPhone) :
              /\ toPhone[k] = <<toPhone[k][1], toPhone[k][2]>>
              /\ toPhone[k][1] \in Timeline!Things /\ toPhone[k][2] \in Timeline!Status
         /\ Items \subseteq Timeline!Things /\ Turn \in Timeline!Things
<1>1. toPhone \in Seq(Timeline!Things \X Timeline!Status)
  BY DEF Timeline!TypeOK
<1>2. \A k \in 1 .. Len(toPhone) : toPhone[k] \in Timeline!Things \X Timeline!Status
  BY <1>1
<1> QED
  BY <1>1, <1>2 DEF Timeline!TypeOK, Timeline!Things

\* How far each status is.
LEMMA Ranks ==
  /\ Timeline!Rank("none") = 0 /\ Timeline!Rank("started") = 1 /\ Timeline!Rank("completed") = 2
  /\ \A s \in Timeline!Status : Timeline!Rank(s) \in 0 .. 2
  /\ \A s, t \in Timeline!Status : Timeline!Rank(s) = Timeline!Rank(t) => s = t
<1>1. /\ Timeline!Rank("none") = 0 /\ Timeline!Rank("started") = 1
      /\ Timeline!Rank("completed") = 2
  BY DEF Timeline!Rank
<1> QED
  BY <1>1 DEF Timeline!Status

\* The hub is told how far a thing is.
LEMMA RelayKeepsView ==
  ASSUME TimelineBounds, TimelineInv, ~lapsed, NEW x \in Timeline!Things, NEW s \in Timeline!Status \ {"none"},
         told[Turn] # "completed", Timeline!Rank(told[x]) < Timeline!Rank(s), Timeline!Relay(x, s)
  PROVE  TimelineInv'
<1>0. /\ Timeline!TypeOK /\ LinkInv /\ StoreInv /\ QueueInv /\ LoadInv /\ ViewInv
  BY DEF TimelineInv
<1>1. /\ told' = [told EXCEPT ![x] = s] /\ inserts' = inserts \union {<<x, s>>}
      /\ toPhone' = IF link = "bound" THEN Append(toPhone, <<x, s>>) ELSE toPhone
      /\ UNCHANGED <<row, link, links, selected, selects, activeTurn, turns, shown,
                     load, payload, superseded, recent>>
  BY DEF Timeline!Relay, Timeline!BroadcastToUser, Timeline!choiceVars, Timeline!viewVars,
     Timeline!loadVars
<1>2. lapsed' \in BOOLEAN /\ (~lapsed' => (link = "opening" => load # "idle"))
  BY DEF Timeline!Relay, Timeline!BroadcastToUser, Timeline!Noting
<1>3. /\ told \in [Timeline!Things -> Timeline!Status]
      /\ row \in [Timeline!Things -> Timeline!Status]
      /\ payload \in [Timeline!Things -> Timeline!Status]
      /\ toPhone \in Seq(Timeline!Things \X Timeline!Status) /\ Len(toPhone) \in Nat
      /\ \A k \in 1 .. Len(toPhone) :
           /\ toPhone[k] = <<toPhone[k][1], toPhone[k][2]>>
           /\ toPhone[k][1] \in Timeline!Things /\ toPhone[k][2] \in Timeline!Status
      /\ Items \subseteq Timeline!Things /\ Turn \in Timeline!Things
  BY <1>0, TimelineTypes
<1>4. /\ told' \in [Timeline!Things -> Timeline!Status] /\ told'[x] = s
      /\ \A y \in Timeline!Things : y # x => told'[y] = told[y]
      /\ \A y \in Timeline!Things : Timeline!Rank(told[y]) <= Timeline!Rank(told'[y])
  <2>1. /\ told' \in [Timeline!Things -> Timeline!Status] /\ told'[x] = s
        /\ \A y \in Timeline!Things : y # x => told'[y] = told[y]
    BY <1>1, <1>3
  <2>2. \A y \in Timeline!Things : Timeline!Rank(told[y]) \in 0 .. 2 /\ Timeline!Rank(s) \in 0 .. 2
    BY <1>3, Ranks
  <2> QED
    BY <2>1, <2>2
<1>5. \A y \in Timeline!Things : /\ Timeline!Rank(row[y]) \in 0 .. 2 /\ Timeline!Rank(told[y]) \in 0 .. 2
                                 /\ Timeline!Rank(told'[y]) \in 0 .. 2
                                 /\ Timeline!Rank(payload[y]) \in 0 .. 2
  BY <1>3, <1>4, Ranks
<1>6. toPhone' \in Seq(Timeline!Things \X Timeline!Status)
  <2>1. <<x, s>> \in Timeline!Things \X Timeline!Status
    OBVIOUS
  <2> QED
    BY <2>1, <1>1, <1>3
<1>a. Timeline!TypeOK'
  <2>1. inserts' \subseteq Timeline!Things \X Timeline!Status
    BY <1>0, <1>1 DEF Timeline!TypeOK
  <2> QED
    BY <1>0, <1>1, <1>2, <1>3, <1>4, <1>6, <2>1 DEF Timeline!TypeOK
<1>b. LinkInv'
  BY <1>0, <1>1 DEF LinkInv
<1>c. StoreInv'
  <2> SUFFICES ASSUME NEW y \in Timeline!Things
               PROVE  /\ Timeline!Rank(row[y]) <= Timeline!Rank(told'[y])
                      /\ row[y] = told'[y] \/ <<y, told'[y]>> \in inserts'
                      /\ \A t \in Timeline!Status : <<y, t>> \in inserts' =>
                           Timeline!Rank(t) <= Timeline!Rank(told'[y])
    BY <1>1 DEF StoreInv
  <2>1. \A t \in Timeline!Status : Timeline!Rank(t) \in 0 .. 2
    BY Ranks
  <2>2. CASE y = x
    <3>0. /\ Timeline!Rank(row[y]) <= Timeline!Rank(told[y])
          /\ Timeline!Rank(told[y]) <= Timeline!Rank(told'[y])
          /\ Timeline!Rank(row[y]) \in 0 .. 2 /\ Timeline!Rank(told[y]) \in 0 .. 2
          /\ Timeline!Rank(told'[y]) \in 0 .. 2
      <4>1. Timeline!Rank(row[y]) <= Timeline!Rank(told[y])
        BY <1>0 DEF StoreInv
      <4> QED
        BY <4>1, <1>4, <1>5
    <3>1. Timeline!Rank(row[y]) <= Timeline!Rank(told'[y])
      BY <3>0
    <3>2. <<y, told'[y]>> \in inserts'
      BY <2>2, <1>1, <1>4
    <3>3. ASSUME NEW t \in Timeline!Status, <<y, t>> \in inserts'
          PROVE  Timeline!Rank(t) <= Timeline!Rank(told'[y])
      <4>1. CASE t = s
        BY <4>1, <2>1, <2>2, <1>4
      <4>2. CASE <<y, t>> \in inserts
        <5>1. Timeline!Rank(t) <= Timeline!Rank(told[y])
          BY <4>2, <1>0 DEF StoreInv
        <5>2. Timeline!Rank(t) \in 0 .. 2
          BY <2>1
        <5> QED
          BY <5>1, <5>2, <3>0
      <4> QED
        BY <4>1, <4>2, <3>3, <2>2, <1>1
    <3> QED
      BY <3>1, <3>2, <3>3
  <2>3. CASE y # x
    BY <2>3, <1>0, <1>1, <1>4 DEF StoreInv
  <2> QED
    BY <2>2, <2>3
<1>d. QueueInv'
  <2>1. CASE link # "bound"
    <3>1. toPhone = <<>> /\ toPhone' = <<>>
      BY <2>1, <1>0, <1>1 DEF LinkInv
    <3> QED
      BY <3>1 DEF QueueInv
  <2>2. CASE link = "bound"
    <3>1. /\ Len(toPhone') = Len(toPhone) + 1
          /\ \A k \in 1 .. Len(toPhone) : toPhone'[k] = toPhone[k]
          /\ toPhone'[Len(toPhone) + 1] = <<x, s>>
      BY <2>2, <1>1, <1>3
    <3> SUFFICES ASSUME NEW k \in 1 .. Len(toPhone')
                 PROVE  /\ told'[toPhone'[k][1]] # "none"
                        /\ \E j \in k .. Len(toPhone') :
                             toPhone'[j] = <<toPhone'[k][1], told'[toPhone'[k][1]]>>
      BY DEF QueueInv
    <3>2. CASE toPhone'[k][1] = x
      BY <3>1, <3>2, <1>3, <1>4
    <3>3. CASE toPhone'[k][1] # x
      <4>1. k \in 1 .. Len(toPhone) /\ toPhone'[k] = toPhone[k]
        BY <3>1, <3>3, <1>3
      <4>2. PICK j \in k .. Len(toPhone) : toPhone[j] = <<toPhone[k][1], told[toPhone[k][1]]>>
        BY <4>1, <1>0 DEF QueueInv
      <4>3. j \in k .. Len(toPhone') /\ toPhone'[j] = toPhone[j]
        BY <4>1, <3>1, <1>3
      <4>4. told'[toPhone'[k][1]] = told[toPhone[k][1]] /\ told[toPhone[k][1]] # "none"
        BY <4>1, <3>3, <1>0, <1>3, <1>4 DEF QueueInv
      <4> QED
        BY <4>1, <4>2, <4>3, <4>4
    <3> QED
      BY <3>2, <3>3
  <2> QED
    BY <2>1, <2>2
<1>e. LoadInv'
  <2>1. load = "read" =>
          \A y \in Timeline!Things : Timeline!Rank(payload[y]) <= Timeline!Rank(told'[y])
    BY <1>0, <1>4, <1>5 DEF LoadInv
  <2>2. turns # "completed"
    BY <1>0 DEF LoadInv
  <2>3. \A i \in Items : told'[i] = "none" => shown[i] = "none"
    BY <1>0, <1>3, <1>4 DEF LoadInv
  <2> QED
    BY <2>1, <2>2, <2>3, <1>0, <1>1 DEF LoadInv
<1>f. ASSUME ~lapsed' PROVE ViewInv'
  <2> SUFFICES ASSUME NEW y \in Timeline!Things
               PROVE  (Known(y) \/ Timeline!OnTheWay(y, told[y]) \/ WillLoad)'
    BY DEF ViewInv
  <2>1. WillLoad' <=> WillLoad
    BY <1>1 DEF WillLoad, Timeline!SeemsRunning
  <2>2. CASE y # x
    <3>1. Known(y)' <=> Known(y)
      BY <2>2, <1>1, <1>3, <1>4 DEF Known, Timeline!Things
    <3>2. Timeline!OnTheWay(y, told[y]) => Timeline!OnTheWay(y, told[y])'
      BY <2>2, <1>1, <1>3, <1>4 DEF Timeline!OnTheWay
    <3> QED
      BY <2>1, <3>1, <3>2, <1>0 DEF ViewInv
  <2>3. CASE y = x /\ link = "bound"
    <3>1. /\ Len(toPhone') = Len(toPhone) + 1 /\ toPhone'[Len(toPhone) + 1] = <<x, s>>
      BY <2>3, <1>1, <1>3
    <3>2. Timeline!OnTheWay(x, told[x])'
      BY <3>1, <1>3, <1>4 DEF Timeline!OnTheWay
    <3> QED
      BY <2>3, <3>2
  <2>4. CASE y = x /\ link = "opening"
    BY <2>1, <2>4, <1>2, <1>f DEF WillLoad
  <2>5. CASE y = x /\ link = "down"
    <3>1. turns \in {"none", "started"} \/ load # "idle" \/ ~selected
      BY <1>0 DEF LoadInv, Timeline!TypeOK, Timeline!Status
    <3>2. WillLoad
      BY <2>5, <3>1 DEF WillLoad, Timeline!SeemsRunning, Timeline!CountsAsRunning
    <3> QED
      BY <2>1, <3>2
  <2> QED
    BY <2>2, <2>3, <2>4, <2>5, <1>0 DEF Timeline!TypeOK
<1> QED
  BY <1>a, <1>b, <1>c, <1>d, <1>e, <1>f DEF TimelineInv

\* A write reaches its row.
LEMMA WriteKeepsView ==
  ASSUME TimelineBounds, TimelineInv, ~lapsed, NEW x \in Timeline!Things, NEW s \in Timeline!Status,
         Timeline!WriteLands(x, s)
  PROVE  TimelineInv'
<1>0. /\ Timeline!TypeOK /\ LinkInv /\ StoreInv /\ QueueInv /\ LoadInv /\ ViewInv
  BY DEF TimelineInv
<1>1. /\ <<x, s>> \in inserts /\ inserts' = inserts \ {<<x, s>>} /\ row' = [row EXCEPT ![x] = s]
      /\ UNCHANGED <<told, toPhone, link, links, selected, selects, activeTurn, turns, shown,
                     load, payload, superseded, recent>>
  BY DEF Timeline!WriteLands, Timeline!Upsert, Timeline!linkVars, Timeline!choiceVars,
     Timeline!viewVars, Timeline!loadVars
<1>2. lapsed' \in BOOLEAN /\ (~lapsed' => ~(Timeline!Rank(s) < Timeline!Rank(row[x])))
  BY DEF Timeline!WriteLands, Timeline!Noting
<1>3. /\ told \in [Timeline!Things -> Timeline!Status]
      /\ row \in [Timeline!Things -> Timeline!Status]
  BY <1>0, TimelineTypes
<1>4. \A y \in Timeline!Things : Timeline!Rank(row[y]) \in 0 .. 2 /\ Timeline!Rank(told[y]) \in 0 .. 2
  BY <1>3, Ranks
<1>5. row' \in [Timeline!Things -> Timeline!Status] /\ row'[x] = s /\ \A y \in Timeline!Things : y # x => row'[y] = row[y]
  BY <1>1, <1>3
<1>a. Timeline!TypeOK'
  BY <1>0, <1>1, <1>2, <1>5 DEF Timeline!TypeOK
<1>b. LinkInv' /\ QueueInv' /\ LoadInv'
  BY <1>0, <1>1 DEF LinkInv, QueueInv, LoadInv
<1>c. ASSUME ~lapsed' PROVE StoreInv'
  <2> SUFFICES ASSUME NEW y \in Timeline!Things
               PROVE  /\ Timeline!Rank(row'[y]) <= Timeline!Rank(told[y])
                      /\ row'[y] = told[y] \/ <<y, told[y]>> \in inserts'
                      /\ \A t \in Timeline!Status : <<y, t>> \in inserts' =>
                           Timeline!Rank(t) <= Timeline!Rank(told[y])
    BY <1>1 DEF StoreInv
  <2>1. \A t \in Timeline!Status : <<y, t>> \in inserts' =>
          Timeline!Rank(t) <= Timeline!Rank(told[y])
    BY <1>0, <1>1 DEF StoreInv
  <2>2. CASE y # x
    BY <2>1, <2>2, <1>0, <1>1, <1>5 DEF StoreInv
  <2>3. CASE y = x
    <3>1. Timeline!Rank(s) <= Timeline!Rank(told[x])
      BY <1>0, <1>1 DEF StoreInv
    <3>2. s # told[x] => row[x] # told[x]
      <4> SUFFICES ASSUME row[x] = told[x] PROVE s = told[x]
        OBVIOUS
      <4>1. Timeline!Rank(s) \in 0 .. 2 /\ Timeline!Rank(told[x]) \in 0 .. 2
        BY <1>4, Ranks
      <4>2. Timeline!Rank(s) = Timeline!Rank(told[x])
        BY <4>1, <3>1, <1>2, <1>c
      <4> QED
        BY <4>2, <1>3, Ranks
    <3>3. s # told[x] => <<x, told[x]>> \in inserts'
      BY <3>2, <1>0, <1>1 DEF StoreInv
    <3> QED
      BY <2>1, <2>3, <3>1, <3>3, <1>5
  <2> QED
    BY <2>2, <2>3
<1>d. ViewInv'
  BY <1>0, <1>1 DEF ViewInv, Known, Timeline!OnTheWay, WillLoad, Timeline!SeemsRunning
<1> QED
  BY <1>a, <1>b, <1>c, <1>d DEF TimelineInv

\* A write or a reload fails.
LEMMA FailureLapses ==
  ASSUME TimelineBounds, TimelineInv, ~lapsed,
         Timeline!LoadFails \/ \E i \in Items, s \in Timeline!Status : Timeline!ItemWriteFails(i, s)
  PROVE  TimelineInv'
<1>1. Timeline!TypeOK
  BY DEF TimelineInv
<1>2. lapsed'
  BY DEF Timeline!LoadFails, Timeline!ItemWriteFails
<1>3. Timeline!TypeOK'
  BY <1>1 DEF Timeline!LoadFails, Timeline!ItemWriteFails, Timeline!TypeOK,
     Timeline!storeVars, Timeline!linkVars, Timeline!choiceVars, Timeline!viewVars,
     Timeline!loadVars
<1> QED
  BY <1>2, <1>3 DEF TimelineInv

\* The rows are read, and time passes, and the hub binds the socket.
LEMMA ReadKeepsView ==
  ASSUME TimelineBounds, TimelineInv, ~lapsed, Timeline!ListConversationTurns \/ Timeline!Elapse \/ Timeline!BindUserSocket
  PROVE  TimelineInv'
<1>0. /\ Timeline!TypeOK /\ LinkInv /\ StoreInv /\ QueueInv /\ LoadInv /\ ViewInv
  BY DEF TimelineInv
<1>1. /\ UNCHANGED <<told, inserts, row, links, toPhone, selected, selects, activeTurn, turns,
                     shown, superseded, lapsed>>
      /\ recent' \in BOOLEAN
  BY <1>0 DEF Timeline!ListConversationTurns, Timeline!Elapse, Timeline!BindUserSocket,
     Timeline!storeVars, Timeline!linkVars, Timeline!choiceVars,
              Timeline!viewVars, Timeline!loadVars, Timeline!TypeOK
<1>2. /\ link' = link \/ (link = "opening" /\ link' = "bound")
      /\ UNCHANGED <<load, payload>> \/ (load = "asked" /\ load' = "read" /\ payload' = row)
  BY DEF Timeline!ListConversationTurns, Timeline!Elapse, Timeline!BindUserSocket,
     Timeline!linkVars, Timeline!loadVars
<1>a. Timeline!TypeOK'
  BY <1>0, <1>1, <1>2 DEF Timeline!TypeOK
<1>b. LinkInv' /\ StoreInv' /\ QueueInv'
  BY <1>0, <1>1, <1>2 DEF LinkInv, StoreInv, QueueInv
<1>c. LoadInv'
  BY <1>0, <1>1, <1>2 DEF LoadInv, StoreInv
<1>d. ViewInv'
  <2>1. WillLoad => WillLoad'
    BY <1>1, <1>2 DEF WillLoad, Timeline!SeemsRunning
  <2> QED
    BY <2>1, <1>0, <1>1 DEF ViewInv, Known, Timeline!OnTheWay
<1> QED
  BY <1>a, <1>b, <1>c, <1>d DEF TimelineInv

\* The rows that were read are applied.
LEMMA ApplyKeepsView ==
  ASSUME TimelineBounds, TimelineInv, ~lapsed, Timeline!ApplyTurns
  PROVE  TimelineInv'
<1>0. /\ Timeline!TypeOK /\ LinkInv /\ StoreInv /\ QueueInv /\ LoadInv /\ ViewInv
  BY DEF TimelineInv
<1>1. /\ load = "read" /\ load' = "idle" /\ payload' = Timeline!Unknown
      /\ UNCHANGED <<told, inserts, row, link, links, toPhone, selected, selects, superseded,
                      recent>>
  BY DEF Timeline!ApplyTurns, Timeline!storeVars, Timeline!linkVars, Timeline!choiceVars
<1>2. /\ told \in [Timeline!Things -> Timeline!Status]
      /\ payload \in [Timeline!Things -> Timeline!Status]
      /\ shown \in [Items -> Timeline!Status] /\ Items \subseteq Timeline!Things
      /\ Turn \in Timeline!Things
  BY <1>0, TimelineTypes
<1>3. payload' \in [Timeline!Things -> Timeline!Status]
  BY <1>1 DEF Timeline!Unknown, Timeline!Status
<1>4. lapsed' \in BOOLEAN
  BY DEF Timeline!ApplyTurns, Timeline!Noting
<1>5. CASE superseded \/ ~selected
  <2>1. /\ UNCHANGED <<activeTurn, turns, shown>>
        /\ ~lapsed' => ~selected
    BY <1>5 DEF Timeline!ApplyTurns, Timeline!Noting, Timeline!viewVars
  <2>2. Timeline!TypeOK'
    BY <2>1, <1>0, <1>1, <1>3, <1>4 DEF Timeline!TypeOK
  <2>3. LinkInv' /\ StoreInv' /\ QueueInv'
    BY <1>0, <1>1 DEF LinkInv, StoreInv, QueueInv
  <2>4. ~lapsed' => LoadInv'
    BY <2>1, <1>0, <1>1 DEF LoadInv
  <2>5. ~lapsed' => ViewInv'
    BY <2>1, <1>1 DEF ViewInv, WillLoad
  <2> QED
    BY <2>2, <2>3, <2>4, <2>5 DEF TimelineInv
<1>6. CASE ~(superseded \/ ~selected)
  <2>1. /\ turns' = payload[Turn] /\ activeTurn' = Timeline!CountsAsRunning(payload[Turn])
        /\ shown' \in [Items -> Timeline!Status]
        /\ \A i \in Items :
             shown'[i] \in IF payload[i] = "none" THEN {shown[i]} ELSE Timeline!Hydrated(payload[i])
        /\ ~lapsed' => ~Timeline!Outdated(payload)
    BY <1>6 DEF Timeline!ApplyTurns, Timeline!Noting
  <2>2. Timeline!TypeOK'
    <3>1. activeTurn' \in BOOLEAN
      BY <2>1 DEF Timeline!CountsAsRunning
    <3>2. turns' \in Timeline!Status \union {"absent"}
      BY <2>1, <1>2
    <3> QED
      BY <2>1, <3>1, <3>2, <1>0, <1>1, <1>3, <1>4 DEF Timeline!TypeOK
  <2>3. LinkInv' /\ StoreInv' /\ QueueInv'
    BY <1>0, <1>1 DEF LinkInv, StoreInv, QueueInv
  <2>4. \A x \in Timeline!Things : /\ Timeline!Rank(payload[x]) \in 0 .. 2 /\ Timeline!Rank(told[x]) \in 0 .. 2
                                   /\ Timeline!Rank(payload[x]) <= Timeline!Rank(told[x])
                                   /\ told[x] = "none" => payload[x] = "none"
                                   /\ payload[x] = "completed" => told[x] = "completed"
    <3>1. \A x \in Timeline!Things : /\ Timeline!Rank(payload[x]) \in 0 .. 2 /\ Timeline!Rank(told[x]) \in 0 .. 2
                                     /\ Timeline!Rank(payload[x]) <= Timeline!Rank(told[x])
      BY <1>0, <1>1, <1>2, Ranks DEF LoadInv
    <3>2. \A x \in Timeline!Things : told[x] = "none" => payload[x] = "none"
      BY <3>1, <1>2, Ranks DEF Timeline!Status
    <3>3. \A x \in Timeline!Things : payload[x] = "completed" => told[x] = "completed"
      BY <3>1, <1>2, Ranks DEF Timeline!Status
    <3> QED
      BY <3>1, <3>2, <3>3
  <2>5. LoadInv'
    BY <2>1, <2>4, <1>0, <1>1, <1>2 DEF LoadInv, Timeline!Status
  <2>6. ASSUME ~lapsed' PROVE ViewInv'
    <3> SUFFICES ASSUME NEW x \in Timeline!Things, ~Timeline!OnTheWay(x, told[x])
                 PROVE  Known(x)'
      BY <1>1 DEF ViewInv, Timeline!OnTheWay
    <3>1. payload[x] = told[x]
      <4>1. ~(Timeline!Rank(payload[x]) < Timeline!Rank(told[x]))
        BY <2>1, <2>6 DEF Timeline!Outdated
      <4>2. Timeline!Rank(payload[x]) = Timeline!Rank(told[x])
        BY <2>4, <4>1
      <4> QED
        BY <4>2, <1>2, Ranks
    <3>2. CASE x = Turn
      BY <3>1, <3>2, <2>1, <1>1 DEF Known, Timeline!CountsAsRunning
    <3>3. CASE x # Turn /\ told[x] = "none"
      BY <3>1, <3>3, <2>1, <1>0, <1>1 DEF Known, LoadInv, Timeline!Hydrated, Timeline!Things
    <3>4. CASE x # Turn /\ told[x] # "none"
      BY <3>1, <3>4, <2>1, <1>1 DEF Known, Timeline!Things
    <3> QED
      BY <3>2, <3>3, <3>4
  <2> QED
    BY <2>2, <2>3, <2>5, <2>6 DEF TimelineInv
<1> QED
  BY <1>5, <1>6

\* The phone takes the first event: if it is not the last of its thing, that one is still
\* on the way.
LEMMA EventTaken ==
  ASSUME TimelineBounds, Timeline!TypeOK, QueueInv, NEW x \in Timeline!Things, NEW s \in Timeline!Status, Timeline!NextEvent(x, s),
         toPhone' = Tail(toPhone), told' = told
  PROVE  /\ toPhone' \in Seq(Timeline!Things \X Timeline!Status) /\ QueueInv'
         /\ told[x] # "none"
         /\ \A y \in Timeline!Things : Timeline!OnTheWay(y, told[y]) =>
              Timeline!OnTheWay(y, told[y])' \/ (y = x /\ s = told[x])
         /\ s = told[x] \/ Timeline!OnTheWay(x, told[x])'
<1>1. /\ toPhone \in Seq(Timeline!Things \X Timeline!Status) /\ Len(toPhone) \in Nat
      /\ toPhone # <<>>
      /\ toPhone[1] = <<x, s>>
  BY TimelineTypes DEF Timeline!NextEvent
<1>2. /\ toPhone' \in Seq(Timeline!Things \X Timeline!Status)
      /\ Len(toPhone') = Len(toPhone) - 1
      /\ \A k \in 1 .. Len(toPhone') : toPhone'[k] = toPhone[k + 1]
      /\ Len(toPhone) >= 1
  BY <1>1
<1>3. told[x] # "none" /\ \E j \in 1 .. Len(toPhone) : toPhone[j] = <<x, told[x]>>
  BY <1>1, <1>2 DEF QueueInv
<1>4. \A y \in Timeline!Things : Timeline!OnTheWay(y, told[y]) =>
        Timeline!OnTheWay(y, told[y])' \/ (y = x /\ s = told[x])
  <2> SUFFICES ASSUME NEW y \in Timeline!Things, NEW k \in 1 .. Len(toPhone), toPhone[k] = <<y, told[y]>>
               PROVE  Timeline!OnTheWay(y, told[y])' \/ (y = x /\ s = told[x])
    BY DEF Timeline!OnTheWay
  <2>1. CASE k = 1
    BY <2>1, <1>1
  <2>2. CASE k # 1
    <3>1. k - 1 \in 1 .. Len(toPhone') /\ (k - 1) + 1 = k
      BY <2>2, <1>1, <1>2
    <3>2. toPhone'[k - 1] = <<y, told'[y]>>
      BY <3>1, <1>2
    <3> QED
      BY <3>1, <3>2 DEF Timeline!OnTheWay
  <2> QED
    BY <2>1, <2>2
<1>5. s = told[x] \/ Timeline!OnTheWay(x, told[x])'
  BY <1>3, <1>4 DEF Timeline!OnTheWay
<1>6. QueueInv'
  <2> SUFFICES ASSUME NEW k \in 1 .. Len(toPhone')
               PROVE  /\ told[toPhone'[k][1]] # "none"
                      /\ \E j \in k .. Len(toPhone') :
                           toPhone'[j] = <<toPhone'[k][1], told[toPhone'[k][1]]>>
    BY DEF QueueInv
  <2>1. k + 1 \in 1 .. Len(toPhone) /\ toPhone'[k] = toPhone[k + 1]
    BY <1>1, <1>2
  <2>2. PICK j \in k + 1 .. Len(toPhone) :
          toPhone[j] = <<toPhone[k + 1][1], told[toPhone[k + 1][1]]>>
    BY <2>1 DEF QueueInv
  <2>3. j - 1 \in k .. Len(toPhone') /\ j - 1 \in 1 .. Len(toPhone') /\ (j - 1) + 1 = j
    BY <1>1, <1>2
  <2>4. toPhone'[j - 1] = toPhone[j]
    BY <2>3, <1>2
  <2>5. told[toPhone[k + 1][1]] # "none"
    BY <2>1 DEF QueueInv
  <2> QED
    BY <2>1, <2>2, <2>3, <2>4, <2>5
<1> QED
  BY <1>2, <1>3, <1>4, <1>5, <1>6

\* loadTurns asks for the rows, unless it has been called before.
LEMMA LoadAsked ==
  ASSUME Timeline!TypeOK, Timeline!LoadTurns
  PROVE  /\ payload' = payload /\ load' \in {load, "asked"}
         /\ superseded' \in BOOLEAN /\ recent' \in BOOLEAN
         /\ load' = "read" => load = "read"
         /\ load # "idle" => load' # "idle"
         /\ ~Timeline!Throttled => load' # "idle"
  BY DEF Timeline!LoadTurns, Timeline!Throttled, Timeline!MayLoad, Timeline!loadVars,
     Timeline!TypeOK

\* The phone is told of an item.
LEMMA ItemKeepsView ==
  ASSUME TimelineBounds, TimelineInv, ~lapsed, NEW i \in Items, NEW s \in Timeline!Status, Timeline!ItemEvent(i, s)
  PROVE  TimelineInv'
<1>0. /\ Timeline!TypeOK /\ LinkInv /\ StoreInv /\ QueueInv /\ LoadInv /\ ViewInv
  BY DEF TimelineInv
<1>1. /\ Timeline!NextEvent(i, s) /\ toPhone' = Tail(toPhone)
      /\ shown' = [shown EXCEPT ![i] = s]
      /\ UNCHANGED <<told, inserts, row, link, links, selected, selects, activeTurn, turns,
                      load,
                     payload, superseded, recent, lapsed>>
  BY DEF Timeline!ItemEvent, Timeline!storeVars, Timeline!choiceVars, Timeline!loadVars
<1>2. i \in Timeline!Things /\ i # Turn /\ shown \in [Items -> Timeline!Status]
  BY <1>0, TimelineTypes DEF TimelineBounds
<1>3. /\ toPhone' \in Seq(Timeline!Things \X Timeline!Status) /\ QueueInv' /\ told[i] # "none"
      /\ \A y \in Timeline!Things : Timeline!OnTheWay(y, told[y]) =>
           Timeline!OnTheWay(y, told[y])' \/ (y = i /\ s = told[i])
      /\ s = told[i] \/ Timeline!OnTheWay(i, told[i])'
  BY <1>0, <1>1, <1>2, EventTaken
<1>4. shown' \in [Items -> Timeline!Status] /\ shown'[i] = s /\ \A j \in Items : j # i =>
        shown'[j] = shown[j]
  BY <1>1, <1>2
<1>a. Timeline!TypeOK'
  BY <1>0, <1>1, <1>3, <1>4 DEF Timeline!TypeOK
<1>b. LinkInv' /\ StoreInv'
  BY <1>0, <1>1 DEF LinkInv, StoreInv, Timeline!NextEvent
<1>c. LoadInv'
  BY <1>0, <1>1, <1>3, <1>4 DEF LoadInv
<1>d. ViewInv'
  <2> SUFFICES ASSUME NEW y \in Timeline!Things, ~Timeline!OnTheWay(y, told[y])', ~WillLoad
               PROVE  Known(y)'
    BY <1>1 DEF ViewInv, WillLoad, Timeline!SeemsRunning
  <2>1. CASE y = i
    BY <2>1, <1>1, <1>2, <1>3, <1>4 DEF Known, Timeline!Hydrated
  <2>2. CASE y # i
    <3>1. Known(y)
      BY <2>2, <1>0, <1>3 DEF ViewInv
    <3> QED
      BY <2>2, <3>1, <1>1, <1>4 DEF Known, Timeline!Things
  <2> QED
    BY <2>1, <2>2
<1> QED
  BY <1>3, <1>a, <1>b, <1>c, <1>d DEF TimelineInv

\* The phone is told that the turn runs, or has ended.
LEMMA TurnKeepsView ==
  ASSUME TimelineBounds, TimelineInv, ~lapsed, Timeline!TurnStartedEvent \/ Timeline!TurnCompletedEvent
  PROVE  TimelineInv'
<1>0. /\ Timeline!TypeOK /\ LinkInv /\ StoreInv /\ QueueInv /\ LoadInv /\ ViewInv
  BY DEF TimelineInv
<1> PICK s \in {"started", "completed"} :
      \/ s = "started" /\ Timeline!TurnStartedEvent
      \/ s = "completed" /\ Timeline!TurnCompletedEvent
  OBVIOUS
<1>1. /\ Timeline!NextEvent(Turn, s) /\ toPhone' = Tail(toPhone)
      /\ activeTurn' = (s = "started")
      /\ UNCHANGED <<told, inserts, row, link, links, selected, selects, turns, shown, lapsed>>
  BY DEF Timeline!TurnStartedEvent, Timeline!TurnCompletedEvent, Timeline!storeVars,
     Timeline!choiceVars
<1>2. /\ payload' = payload /\ load' \in {load, "asked"}
      /\ superseded' \in BOOLEAN /\ recent' \in BOOLEAN
      /\ load' = "read" => load = "read"
      /\ load # "idle" => load' # "idle"
  <2>1. CASE s = "started"
    BY <2>1, <1>0 DEF Timeline!TurnStartedEvent, Timeline!loadVars, Timeline!TypeOK
  <2>2. CASE s = "completed"
    BY <2>2, <1>0, LoadAsked DEF Timeline!TurnCompletedEvent
  <2> QED
    BY <2>1, <2>2
<1>3. Turn \in Timeline!Things /\ s \in Timeline!Status
  BY <1>0, TimelineTypes DEF Timeline!Status
<1>4. /\ toPhone' \in Seq(Timeline!Things \X Timeline!Status) /\ QueueInv'
      /\ told[Turn] # "none"
      /\ \A y \in Timeline!Things : Timeline!OnTheWay(y, told[y]) =>
           Timeline!OnTheWay(y, told[y])' \/ (y = Turn /\ s = told[Turn])
      /\ s = told[Turn] \/ Timeline!OnTheWay(Turn, told[Turn])'
  BY <1>0, <1>1, <1>3, EventTaken
<1>5. link # "down"
  BY <1>0, <1>1 DEF LinkInv, Timeline!NextEvent
<1>a. Timeline!TypeOK'
  BY <1>0, <1>1, <1>2, <1>4 DEF Timeline!TypeOK
<1>b. LinkInv' /\ StoreInv'
  BY <1>0, <1>1 DEF LinkInv, StoreInv, Timeline!NextEvent
<1>c. LoadInv'
  BY <1>0, <1>1, <1>2 DEF LoadInv
<1>d. ViewInv'
  <2> SUFFICES ASSUME NEW y \in Timeline!Things, ~Timeline!OnTheWay(y, told[y])', ~WillLoad'
               PROVE  Known(y)'
    BY DEF ViewInv
  <2>1. ~WillLoad
    BY <1>1, <1>2, <1>5 DEF WillLoad
  <2>2. CASE y = Turn
    BY <2>2, <1>1, <1>4 DEF Known
  <2>3. CASE y # Turn
    <3>1. Known(y)
      BY <2>1, <2>3, <1>0, <1>4 DEF ViewInv
    <3> QED
      BY <2>3, <3>1, <1>1 DEF Known
  <2> QED
    BY <2>2, <2>3
<1> QED
  BY <1>4, <1>a, <1>b, <1>c, <1>d DEF TimelineInv

\* The socket is gone, with what was on it.
LEMMA DisconnectKeepsView ==
  ASSUME TimelineBounds, TimelineInv, ~lapsed, Timeline!SocketDisconnected
  PROVE  TimelineInv'
<1>0. /\ Timeline!TypeOK /\ LinkInv /\ StoreInv /\ QueueInv /\ LoadInv /\ ViewInv
  BY DEF TimelineInv
<1>1. /\ link # "down" /\ links < MaxLinks /\ link' = "down" /\ toPhone' = <<>>
      /\ UNCHANGED <<told, inserts, row, links, selected, selects, activeTurn, turns, shown,
                      load,
                     payload, superseded, recent>>
  BY DEF Timeline!SocketDisconnected, Timeline!storeVars, Timeline!choiceVars,
     Timeline!viewVars, Timeline!loadVars
<1>2. lapsed' \in BOOLEAN /\ (~lapsed' => toPhone = <<>> \/ Timeline!SeemsRunning)
  BY DEF Timeline!SocketDisconnected, Timeline!Noting
<1>a. Timeline!TypeOK'
  BY <1>0, <1>1, <1>2 DEF Timeline!TypeOK
<1>b. LinkInv' /\ StoreInv' /\ LoadInv'
  BY <1>0, <1>1 DEF LinkInv, StoreInv, LoadInv
<1>c. QueueInv'
  BY <1>1 DEF QueueInv
<1>d. ASSUME ~lapsed' PROVE ViewInv'
  <2> SUFFICES ASSUME NEW y \in Timeline!Things, ~WillLoad'
               PROVE  Known(y)'
    BY DEF ViewInv
  <2>1. ~Timeline!SeemsRunning /\ ~WillLoad
    BY <1>1 DEF WillLoad, Timeline!SeemsRunning
  <2>2. toPhone = <<>>
    BY <2>1, <1>2, <1>d
  <2>3. ~Timeline!OnTheWay(y, told[y])
    BY <2>2 DEF Timeline!OnTheWay
  <2>4. Known(y)
    BY <2>1, <2>3, <1>0 DEF ViewInv
  <2> QED
    BY <2>4, <1>1 DEF Known
<1> QED
  BY <1>a, <1>b, <1>c, <1>d DEF TimelineInv

\* The phone connects again.
LEMMA ConnectKeepsView ==
  ASSUME TimelineBounds, TimelineInv, ~lapsed, Timeline!ConnectSocket
  PROVE  TimelineInv'
<1>0. /\ Timeline!TypeOK /\ LinkInv /\ StoreInv /\ QueueInv /\ LoadInv /\ ViewInv
  BY DEF TimelineInv
<1>1. /\ link = "down" /\ link' = "opening" /\ links' = links + 1
      /\ UNCHANGED <<told, inserts, row, toPhone, selected, selects, activeTurn, turns, shown>>
  BY DEF Timeline!ConnectSocket, Timeline!storeVars, Timeline!choiceVars, Timeline!viewVars
<1>2. /\ payload' = payload /\ load' \in {load, "asked"}
      /\ superseded' \in BOOLEAN /\ recent' \in BOOLEAN /\ lapsed' \in BOOLEAN
      /\ load' = "read" => load = "read"
      /\ load # "idle" => load' # "idle"
      /\ (selected /\ Timeline!SeemsRunning /\ ~lapsed') => load' # "idle"
  <2>1. CASE selected /\ Timeline!SeemsRunning
    <3>1. Timeline!LoadTurns
      BY <2>1 DEF Timeline!ConnectSocket
    <3>2. lapsed' \in BOOLEAN /\ (~lapsed' => ~Timeline!Throttled)
      BY <2>1 DEF Timeline!ConnectSocket, Timeline!Noting
    <3> QED
      BY <3>1, <3>2, <1>0, LoadAsked
  <2>2. CASE ~(selected /\ Timeline!SeemsRunning)
    BY <2>2, <1>0 DEF Timeline!ConnectSocket, Timeline!TypeOK
  <2> QED
    BY <2>1, <2>2
<1>3. links \in 1 .. MaxLinks /\ links < MaxLinks /\ MaxLinks \in Nat /\ toPhone = <<>>
  BY <1>0, <1>1 DEF Timeline!TypeOK, LinkInv, TimelineBounds
<1>a. Timeline!TypeOK'
  BY <1>0, <1>1, <1>2, <1>3 DEF Timeline!TypeOK
<1>b. LinkInv' /\ StoreInv' /\ QueueInv'
  BY <1>0, <1>1, <1>3 DEF LinkInv, StoreInv, QueueInv
<1>c. LoadInv'
  BY <1>0, <1>1, <1>2 DEF LoadInv
<1>d. ASSUME ~lapsed' PROVE ViewInv'
  <2>1. WillLoad => WillLoad'
    BY <1>1, <1>2, <1>d DEF WillLoad
  <2> QED
    BY <2>1, <1>0, <1>1 DEF ViewInv, Known, Timeline!OnTheWay
<1> QED
  BY <1>a, <1>b, <1>c, <1>d DEF TimelineInv

\* The user turns to another conversation, whose turns replace those of this one.
LEMMA LeaveKeepsView ==
  ASSUME TimelineBounds, TimelineInv, ~lapsed, Timeline!SelectOther \/ Timeline!OtherLoaded
  PROVE  TimelineInv'
<1>0. /\ Timeline!TypeOK /\ LinkInv /\ StoreInv /\ QueueInv /\ LoadInv /\ ViewInv
  BY DEF TimelineInv
<1>1. /\ selected' = FALSE
      /\ UNCHANGED <<told, inserts, row, link, links, toPhone, shown, load, payload, recent,
                      lapsed>>
      /\ turns' \in {turns, "absent"}
  BY DEF Timeline!SelectOther, Timeline!OtherLoaded, Timeline!storeVars, Timeline!linkVars,
     Timeline!viewVars, Timeline!choiceVars, Timeline!loadVars
<1>a. Timeline!TypeOK'
  <2>1. selects' \in 0 .. MaxSelects
    BY <1>0 DEF Timeline!SelectOther, Timeline!OtherLoaded, Timeline!choiceVars,
       Timeline!TypeOK, TimelineBounds
  <2>2. superseded' \in BOOLEAN /\ activeTurn' \in BOOLEAN
    BY <1>0 DEF Timeline!SelectOther, Timeline!OtherLoaded, Timeline!viewVars,
       Timeline!loadVars, Timeline!TypeOK
  <2> QED
    BY <2>1, <2>2, <1>0, <1>1 DEF Timeline!TypeOK
<1>b. LinkInv' /\ StoreInv' /\ QueueInv'
  BY <1>0, <1>1 DEF LinkInv, StoreInv, QueueInv
<1>c. LoadInv'
  BY <1>0, <1>1 DEF LoadInv
<1>d. ViewInv'
  BY <1>1 DEF ViewInv, WillLoad
<1> QED
  BY <1>a, <1>b, <1>c, <1>d DEF TimelineInv

\* The user comes back to the conversation.
LEMMA BackKeepsView ==
  ASSUME TimelineBounds, TimelineInv, ~lapsed, Timeline!SelectBack
  PROVE  TimelineInv'
<1>0. /\ Timeline!TypeOK /\ LinkInv /\ StoreInv /\ QueueInv /\ LoadInv /\ ViewInv
  BY DEF TimelineInv
<1>1. /\ selected' = TRUE /\ Timeline!LoadTurns
      /\ UNCHANGED <<told, inserts, row, link, links, toPhone, selects, activeTurn, turns,
                      shown>>
  BY DEF Timeline!SelectBack, Timeline!storeVars, Timeline!linkVars, Timeline!viewVars
<1>2. lapsed' \in BOOLEAN /\ (~lapsed' => ~Timeline!Throttled)
  BY DEF Timeline!SelectBack, Timeline!Noting
<1>3. /\ payload' = payload /\ load' \in {load, "asked"}
      /\ superseded' \in BOOLEAN /\ recent' \in BOOLEAN
      /\ load' = "read" => load = "read"
      /\ ~lapsed' => load' # "idle"
  BY <1>0, <1>1, <1>2, LoadAsked
<1>a. Timeline!TypeOK'
  BY <1>0, <1>1, <1>2, <1>3 DEF Timeline!TypeOK
<1>b. LinkInv' /\ StoreInv' /\ QueueInv'
  BY <1>0, <1>1 DEF LinkInv, StoreInv, QueueInv
<1>c. ASSUME ~lapsed' PROVE LoadInv' /\ ViewInv'
  BY <1>0, <1>1, <1>3, <1>c DEF LoadInv, ViewInv, WillLoad
<1> QED
  BY <1>a, <1>b, <1>c DEF TimelineInv

\* At the start the hub was told nothing.
LEMMA TimelineStarts == TimelineBounds /\ Timeline!Init => TimelineInv
<1> SUFFICES ASSUME TimelineBounds, Timeline!Init PROVE TimelineInv
  OBVIOUS
<1>1. /\ Timeline!Unknown \in [Timeline!Things -> Timeline!Status]
      /\ \A x \in Timeline!Things : Timeline!Unknown[x] = "none"
      /\ toPhone \in Seq(Timeline!Things \X Timeline!Status) /\ Len(toPhone) = 0
      /\ Turn \in Timeline!Things /\ Items \subseteq Timeline!Things
  BY DEF Timeline!Init, Timeline!Unknown, Timeline!Status, Timeline!Things
<1>2. Timeline!TypeOK
  <2>1. links \in 1 .. MaxLinks /\ selects \in 0 .. MaxSelects
    BY DEF Timeline!Init, TimelineBounds
  <2>2. shown \in [Items -> Timeline!Status] /\ turns \in Timeline!Status
    BY DEF Timeline!Init, Timeline!Status
  <2> QED
    BY <1>1, <2>1, <2>2 DEF Timeline!Init, Timeline!TypeOK
<1>3. LinkInv /\ QueueInv
  BY <1>1 DEF Timeline!Init, LinkInv, QueueInv
<1>4. StoreInv
  <2>1. Timeline!Rank("none") \in 0 .. 2
    BY Ranks
  <2> QED
    BY <1>1, <2>1 DEF Timeline!Init, StoreInv
<1>5. LoadInv /\ ViewInv
  BY <1>1 DEF Timeline!Init, LoadInv, ViewInv, Known, Timeline!Hydrated, Timeline!Things
<1> QED
  BY <1>2, <1>3, <1>4, <1>5 DEF TimelineInv

\* Every step keeps what the phone shows right, or lapses.
LEMMA TimelineStep == TimelineBounds /\ TimelineInv /\ [~lapsed /\ Timeline!Next]_(Timeline!timelineVars) => TimelineInv'
<1> SUFFICES ASSUME TimelineBounds, TimelineInv, [~lapsed /\ Timeline!Next]_(Timeline!timelineVars) PROVE TimelineInv'
  OBVIOUS
<1>0. Timeline!TypeOK
  BY DEF TimelineInv
<1>1. CASE UNCHANGED Timeline!timelineVars
  <2>1. UNCHANGED <<told, inserts, row, link, links, toPhone, selected, selects, activeTurn,
                     turns,
                    shown, load, payload, superseded, recent, lapsed>>
    BY <1>1 DEF Timeline!timelineVars, Timeline!storeVars, Timeline!linkVars,
       Timeline!choiceVars, Timeline!viewVars, Timeline!loadVars
  <2> QED
    BY <2>1 DEF TimelineInv, Timeline!TypeOK, LinkInv, StoreInv, QueueInv, LoadInv, ViewInv,
       Known, Timeline!OnTheWay,
                WillLoad, Timeline!SeemsRunning
<1>2. ASSUME ~lapsed, Timeline!TurnStarted \/ Timeline!TurnCompleted PROVE TimelineInv'
  <2>1. /\ Turn \in Timeline!Things
        /\ {"started", "completed"} \subseteq Timeline!Status \ {"none"}
    BY <1>0, TimelineTypes DEF Timeline!Status
  <2>2. PICK s \in {"started", "completed"} :
          /\ Timeline!Relay(Turn, s) /\ told[Turn] # "completed"
          /\ Timeline!Rank(told[Turn]) < Timeline!Rank(s)
    BY <1>2, Ranks DEF Timeline!TurnStarted, Timeline!TurnCompleted
  <2> QED
    BY <1>2, <2>1, <2>2, RelayKeepsView
<1>3. ASSUME ~lapsed, NEW i \in Items, Timeline!ItemStarted(i) \/ Timeline!ItemCompleted(i) PROVE TimelineInv'
  <2>1. /\ i \in Timeline!Things
        /\ {"started", "completed"} \subseteq Timeline!Status \ {"none"}
    BY <1>0, TimelineTypes DEF Timeline!Status
  <2>2. PICK s \in {"started", "completed"} :
          /\ Timeline!Relay(i, s) /\ told[Turn] # "completed"
          /\ Timeline!Rank(told[i]) < Timeline!Rank(s)
    BY <1>3, Ranks DEF Timeline!ItemStarted, Timeline!ItemCompleted
  <2> QED
    BY <1>3, <2>1, <2>2, RelayKeepsView
<1>4. ASSUME ~lapsed, NEW x \in Timeline!Things, NEW s \in Timeline!Status, Timeline!WriteLands(x, s) PROVE TimelineInv'
  BY <1>4, WriteKeepsView
<1>5. ASSUME ~lapsed, Timeline!LoadFails \/ \E i \in Items, s \in Timeline!Status : Timeline!ItemWriteFails(i, s)
      PROVE  TimelineInv'
  BY <1>5, FailureLapses
<1>6. ASSUME ~lapsed, NEW i \in Items, NEW s \in Timeline!Status, Timeline!ItemEvent(i, s) PROVE TimelineInv'
  BY <1>6, ItemKeepsView
<1>7. ASSUME ~lapsed, Timeline!TurnStartedEvent \/ Timeline!TurnCompletedEvent PROVE TimelineInv'
  BY <1>7, TurnKeepsView
<1>8. ASSUME ~lapsed, Timeline!ListConversationTurns \/ Timeline!Elapse \/ Timeline!BindUserSocket PROVE TimelineInv'
  BY <1>8, ReadKeepsView
<1>9. ASSUME ~lapsed, Timeline!ApplyTurns PROVE TimelineInv'
  BY <1>9, ApplyKeepsView
<1>10. ASSUME ~lapsed, Timeline!SocketDisconnected PROVE TimelineInv'
  BY <1>10, DisconnectKeepsView
<1>11. ASSUME ~lapsed, Timeline!ConnectSocket PROVE TimelineInv'
  BY <1>11, ConnectKeepsView
<1>12. ASSUME ~lapsed, Timeline!SelectOther \/ Timeline!OtherLoaded PROVE TimelineInv'
  BY <1>12, LeaveKeepsView
<1>13. ASSUME ~lapsed, Timeline!SelectBack PROVE TimelineInv'
  BY <1>13, BackKeepsView
<1> QED
  BY <1>1, <1>2, <1>3, <1>4, <1>5, <1>6, <1>7, <1>8, <1>9, <1>10, <1>11, <1>12, <1>13
     DEF Timeline!Next

\* Once nothing is under way, the phone shows what the hub was told.
LEMMA KnownIsShown ==
  ASSUME TimelineBounds, TimelineInv
  PROVE  Timeline!EndIsShown
<1> SUFFICES ASSUME Timeline!Settled, row[Turn] = "completed", ~lapsed
             PROVE  ~activeTurn /\ \A i \in Items : shown[i] \in Timeline!Hydrated(told[i])
  BY DEF Timeline!EndIsShown
<1>1. StoreInv /\ ViewInv
  BY DEF TimelineInv
<1>2. \A x \in Timeline!Things : Known(x)
  BY <1>1 DEF ViewInv, WillLoad, Timeline!OnTheWay, Timeline!Settled
<1>3. told[Turn] = "completed"
  BY <1>1 DEF StoreInv, Timeline!Settled, Timeline!Things
<1> QED
  BY <1>2, <1>3 DEF Known, Timeline!Things, TimelineBounds

\* The invariant of the timeline holds in every behaviour.
THEOREM TimelineInvariant == ASSUME TimelineBounds PROVE Timeline!Spec => []TimelineInv
<1>1. Timeline!Init => TimelineInv
  BY TimelineStarts
<1>2. TimelineInv /\ [~lapsed /\ Timeline!Next]_(Timeline!timelineVars) => TimelineInv'
  BY TimelineStep
<1> QED
  BY <1>1, <1>2, PTL DEF Timeline!Spec

-----------------------------------------------------------------------------
(* The properties of the runs.                                             *)

\* Sign-ins behave as DeviceLogin says.
LEMMA LoginBehaves == Spec => Login!Spec
<1>1. Init => Login!Init
  BY DEF Init
<1>2. [Next]_vars => [Login!Next]_(Login!vars)
  BY DEF Next, Rest, vars, loginVars, Login!rowVars, Login!flowVars, Login!hostVars,
     Login!phoneVars, Login!vars
<1> QED
  BY <1>1, <1>2, PTL DEF Spec, Login!Spec

\* Payments behave as Billing says.
LEMMA BillingBehaves == Spec => Bill!Spec
<1>1. Init => Bill!Init
  BY DEF Init
<1>2. [Next]_vars => [Bill!Next]_(Bill!billingVars)
  BY DEF Next, Rest, vars, billingVars, Bill!stripeVars, Bill!checkoutVars, Bill!webhookVars,
     Bill!planVars, Bill!billingVars
<1> QED
  BY <1>1, <1>2, PTL DEF Spec, Bill!Spec

\* What the plan allows behaves as Entitlements says.
LEMMA PlanBehaves == Spec => Plan!Spec
<1>1. Init => Plan!Init
  BY DEF Init
<1>2. [Next]_vars => [Plan!Next]_(Plan!entitlementVars)
  BY DEF Next, Rest, vars, planVars, Plan!planRows, Plan!agentRows, Plan!turnRows,
     Plan!entitlementVars
<1> QED
  BY <1>1, <1>2, PTL DEF Spec, Plan!Spec

\* Copied turns behave as Hydration says.
LEMMA HydrateBehaves == Spec => Hydrate!Spec
<1>1. Init => Hydrate!Init
  BY DEF Init
<1>2. [Next]_vars => [Hydrate!Next]_(Hydrate!hydrationVars)
  BY DEF Next, Rest, vars, hydrationVars, Hydrate!liveVars, Hydrate!rowVars, Hydrate!progressVars,
     Hydrate!ghostVars, Hydrate!hydrationVars
<1> QED
  BY <1>1, <1>2, PTL DEF Spec, Hydrate!Spec

\* Push registrations behave as PushRegistrations says.
LEMMA PushBehaves == Spec => Push!Spec
<1>1. Init => Push!Init
  BY DEF Init
<1>2. [Next]_vars => [Push!Next]_(Push!pushVars)
  BY DEF Next, Rest, vars, pushVars, Push!phoneVars, Push!rowVars, Push!noticeVars,
     Push!pushVars
<1> QED
  BY <1>1, <1>2, PTL DEF Spec, Push!Spec

\* The events of a turn behave as TurnTimeline says.
LEMMA TimelineBehaves == Spec => Timeline!Spec
<1>1. Init => Timeline!Init
  BY DEF Init
<1>2. [Next]_vars => [~lapsed /\ Timeline!Next]_(Timeline!timelineVars)
  BY DEF Next, Rest, vars, timelineVars, Timeline!storeVars, Timeline!linkVars, Timeline!choiceVars,
     Timeline!viewVars, Timeline!loadVars, Timeline!timelineVars
<1> QED
  BY <1>1, <1>2, PTL DEF Spec, Timeline!Spec

\* The constants are what the proofs of the components ask for.
LEMMA ServerBounds ==
  /\ LoginBounds
  /\ BillingBounds
  /\ EntitlementBounds
  /\ HydrationBounds
  /\ PushBounds
  /\ TimelineBounds
<1>1. LoginBounds
  BY LoginAssumption DEF LoginBounds, MCOwnerOf
<1>2. BillingBounds
  BY BillingAssumption DEF BillingBounds
<1>3. EntitlementBounds
  BY PlanAssumption DEF EntitlementBounds
<1>4. HydrationBounds
  BY HydrationAssumption DEF HydrationBounds
<1>5. PushBounds
  BY PushAssumption, LoginAssumption DEF PushBounds
<1>6. TimelineBounds
  BY TimelineAssumption DEF TimelineBounds
<1> QED
  BY <1>1, <1>2, <1>3, <1>4, <1>5, <1>6

\* So the invariant of DeviceLogin holds.
LEMMA LoginHolds == Spec => []LoginInv
<1>1. Login!Spec => []LoginInv
  BY ServerBounds, LoginInvariant
<1> QED
  BY <1>1, LoginBehaves, PTL

\* So the invariant of Billing holds.
LEMMA BillingHolds == Spec => []BillingInv
<1>1. Bill!Spec => []BillingInv
  BY ServerBounds, BillingInvariant
<1> QED
  BY <1>1, BillingBehaves, PTL

\* So the invariant of Entitlements holds.
LEMMA PlanHolds == Spec => []EntitlementInv
<1>1. Plan!Spec => []EntitlementInv
  BY ServerBounds, EntitlementInvariant
<1> QED
  BY <1>1, PlanBehaves, PTL

\* So the invariant of Hydration holds.
LEMMA HydrateHolds == Spec => []HydrationInv
<1>1. Hydrate!Spec => []HydrationInv
  BY ServerBounds, HydrationInvariant
<1> QED
  BY <1>1, HydrateBehaves, PTL

\* So the invariant of PushRegistrations holds.
LEMMA PushHolds == Spec => []PushInv
<1>1. Push!Spec => []PushInv
  BY ServerBounds, PushInvariant
<1> QED
  BY <1>1, PushBehaves, PTL

\* So the invariant of TurnTimeline holds.
LEMMA TimelineHolds == Spec => []TimelineInv
<1>1. Timeline!Spec => []TimelineInv
  BY ServerBounds, TimelineInvariant
<1> QED
  BY <1>1, TimelineBehaves, PTL

\* A secure scan signs a computer in only as a user whose phone holds its root key.
THEOREM SecureSignIn == Spec => []KeyHolderSignsIn
<1>1. LoginInv => KeyHolderSignsIn
  BY ServerBounds, HolderSignsIn DEF KeyHolderSignsIn
<1> QED
  BY <1>1, LoginHolds, PTL

\* The peer a session trusts is a phone of its user that holds the root key.
THEOREM SecurePeer == Spec => []PeerHoldsKey
<1>1. LoginInv => PeerHoldsKey
  BY ServerBounds, HolderSignsIn DEF PeerHoldsKey
<1> QED
  BY <1>1, LoginHolds, PTL

\* The limit on agents belongs to the plan on file once no webhook is at work, unless
\* webhooks crossed or one broke half way.
THEOREM LimitOfPlan == Spec => []PlanMatchesLimit
<1>1. BillingInv => PlanMatchesLimit
  BY DEF PlanMatchesLimit, BillingInv, Bill!PlanMatchesLimit
<1> QED
  BY <1>1, BillingHolds, PTL

\* Who pays in an opened session is the customer the webhooks map to the user, unless
\* two calls made a customer at once.
THEOREM PayerIsMapped == Spec => []SessionIsMapped
<1>1. BillingInv => SessionIsMapped
  BY DEF SessionIsMapped, BillingInv, OneCustomer, Bill!SessionIsMapped, Bill!TypeOK
<1> QED
  BY <1>1, BillingHolds, PTL

\* A user never has more agents than the highest limit there was, and none once the
\* account is deleted.
THEOREM AgentsLimited == Spec => []AgentsWithinLimit
<1>1. EntitlementInv => AgentsWithinLimit
  BY DEF AgentsWithinLimit, EntitlementInv, Plan!AgentsWithinLimit
<1> QED
  BY <1>1, PlanHolds, PTL

\* A user who never paid has active turns in one conversation at most, apart from those
\* that a late start has made active again.
THEOREM OneActive == Spec => []OneActiveConversation
<1>1. EntitlementInv => OneActiveConversation
  BY ServerBounds, OneBusy DEF OneActiveConversation
<1> QED
  BY <1>1, PlanHolds, PTL

\* A turn of the thread is shown once, unless it was copied twice at the same time.
THEOREM TurnsShownOnce == Spec => []ShownOnce
<1>1. HydrationInv => ShownOnce
  BY ServerBounds, RowsApart DEF ShownOnce
<1> QED
  BY <1>1, HydrateHolds, PTL

\* A turn that the agent started is shown once nothing is under way.
THEOREM StartedShown == Spec => []StartedIsShown
<1>1. HydrationInv => StartedIsShown
  BY ServerBounds, NothingToCopy DEF StartedIsShown
<1> QED
  BY <1>1, HydrateHolds, PTL

\* A phone that believes its push token is registered is right, unless calls crossed.
THEOREM BeliefRight == Spec => []RegistrationFollowsSignIn
<1>1. PushInv => RegistrationFollowsSignIn
  BY ServerBounds, BeliefIsSo DEF RegistrationFollowsSignIn
<1> QED
  BY <1>1, PushHolds, PTL

\* A finished turn is shown as finished, with its items, once nothing is under way.
THEOREM EndShown == Spec => []EndIsShown
<1>1. TimelineInv => EndIsShown
  BY ServerBounds, KnownIsShown DEF EndIsShown
<1> QED
  BY <1>1, TimelineHolds, PTL

\* Every component keeps the types of its variables, the one whose behaviour this is
\* included.
THEOREM ServerTypes == Spec => []TypeOK
<1>1. Init => part \in Parts
  BY DEF Init
<1>2. part \in Parts /\ [Next]_vars => (part \in Parts)'
  BY DEF Next, Rest, vars
<1>3. /\ part \in Parts
      /\ LoginInv /\ BillingInv /\ EntitlementInv
      /\ HydrationInv /\ PushInv /\ TimelineInv
      => TypeOK
  BY DEF TypeOK, LoginInv, BillingInv, EntitlementInv, HydrationInv, PushInv, TimelineInv
<1> QED
  BY <1>1, <1>2, <1>3, LoginHolds, BillingHolds, PlanHolds, HydrateHolds, PushHolds,
     TimelineHolds, PTL DEF Spec
=============================================================================
