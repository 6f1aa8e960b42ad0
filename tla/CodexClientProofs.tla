------------------------- MODULE CodexClientProofs -------------------------
(* Proofs about CodexClient, for any calls and any bounds.                   *)
EXTENDS CodexClient, TLAPS

\* Ids are not used twice,
IdsAreOld ==
  /\ \A i \in DOMAIN pending : i < nextRequestId
  /\ \A p, i : <<p, i>> \in asked => i < nextRequestId
  /\ \A p, i, kind : <<p, i, kind>> \in replies => i < nextRequestId

\* so that a process that answers a pending request is the one that was asked.
AskedOnce ==
  /\ \A p, i : <<p, i>> \in asked /\ i \in DOMAIN pending => pending[i] = p
  /\ \A p, i, kind : <<p, i, kind>> \in replies /\ i \in DOMAIN pending => pending[i] = p

\* A call awaits something only while it waits.
AwaitsMatch == \A c \in Callers : at[c] \in Waits <=> awaits[c] # 0

ClientInv ==
  TypeOK /\ IdsAreOld /\ AskedOnce /\ AwaitsMatch /\ CallsGetTheirAnswers /\ RunningIsChild

\* The client starts in it.
LEMMA InitClientInv ==
  ASSUME MaxCodexes \in Nat, MaxId \in Nat, Init
  PROVE  ClientInv
<1> USE DEF Init, Spawned, Waits, Kinds
<1>1. TypeOK
  <2>1. Spawned = {} /\ DOMAIN pending = {} OBVIOUS
  <2>2. codexes \in [Spawned -> {"running", "killed", "exited"}] /\ pending \in [DOMAIN pending -> Spawned]
    BY <2>1
  <2>3. asked \subseteq Spawned \X (1 .. MaxId) /\ replies \subseteq Spawned \X (1 .. MaxId) \X Kinds
    OBVIOUS
  <2>4. settled \subseteq Spawned \X Spawned OBVIOUS
  <2>5. at \in [Callers -> Waits \union {"idle", "between", "ended"}] /\ awaits \in [Callers -> 0 .. MaxId]
    OBVIOUS
  <2>6. child \in 0 .. MaxCodexes /\ nextRequestId \in 1 .. MaxId + 1 OBVIOUS
  <2>7. authBackoff \in BOOLEAN /\ transientBackoff \in BOOLEAN /\ lateExit \in BOOLEAN OBVIOUS
  <2>8. Spawned \subseteq 1 .. MaxCodexes /\ DOMAIN pending \subseteq 1 .. MaxId BY <2>1
  <2>9. child # 0 => child \in Spawned OBVIOUS
  <2> HIDE DEF Init, Spawned, Waits, Kinds
  <2> QED BY <2>2, <2>3, <2>4, <2>5, <2>6, <2>7, <2>8, <2>9 DEF TypeOK
<1>2. IdsAreOld /\ AskedOnce BY DEF IdsAreOld, AskedOnce
<1>3. AwaitsMatch /\ CallsGetTheirAnswers BY DEF AwaitsMatch, CallsGetTheirAnswers
<1>4. RunningIsChild BY DEF RunningIsChild
<1> QED BY <1>1, <1>2, <1>3, <1>4 DEF ClientInv

\* StartReturns keeps the invariant.
LEMMA StartReturnsKeeps ==
  ASSUME MaxCodexes \in Nat, MaxId \in Nat, ClientInv,
         NEW c \in Callers, StartReturns(c)
  PROVE  ClientInv'
<1> USE DEF ClientInv, Spawned, Waits, Kinds, callVars, backoffVars
<1>1. TypeOK' BY DEF TypeOK, StartReturns
<1>2. IdsAreOld' BY DEF IdsAreOld, TypeOK, StartReturns
<1>3. AskedOnce' BY DEF AskedOnce, TypeOK, IdsAreOld, StartReturns
<1>4. AwaitsMatch' BY DEF AwaitsMatch, TypeOK, CallsGetTheirAnswers, StartReturns
<1>5. CallsGetTheirAnswers'
  BY DEF CallsGetTheirAnswers, TypeOK, AwaitsMatch, AskedOnce, StartReturns
<1>6. RunningIsChild' BY DEF RunningIsChild, TypeOK, StartReturns
<1> QED BY <1>1, <1>2, <1>3, <1>4, <1>5, <1>6

\* StartRefused keeps the invariant.
LEMMA StartRefusedKeeps ==
  ASSUME MaxCodexes \in Nat, MaxId \in Nat, ClientInv,
         NEW c \in Callers, StartRefused(c)
  PROVE  ClientInv'
<1> USE DEF ClientInv, Spawned, Waits, Kinds, callVars, backoffVars
<1>1. TypeOK' BY DEF TypeOK, StartRefused
<1>2. IdsAreOld' BY DEF IdsAreOld, TypeOK, StartRefused
<1>3. AskedOnce' BY DEF AskedOnce, TypeOK, IdsAreOld, StartRefused
<1>4. AwaitsMatch' BY DEF AwaitsMatch, TypeOK, CallsGetTheirAnswers, StartRefused
<1>5. CallsGetTheirAnswers'
  BY DEF CallsGetTheirAnswers, TypeOK, AwaitsMatch, AskedOnce, StartRefused
<1>6. RunningIsChild' BY DEF RunningIsChild, TypeOK, StartRefused
<1> QED BY <1>1, <1>2, <1>3, <1>4, <1>5, <1>6

\* StartSpawns keeps the invariant.
LEMMA StartSpawnsKeeps ==
  ASSUME MaxCodexes \in Nat, MaxId \in Nat, ClientInv,
         NEW c \in Callers, NEW p \in 1 .. MaxCodexes, StartSpawns(c, p)
  PROVE  ClientInv'
<1> USE DEF ClientInv, Spawned, Waits, Kinds, callVars, backoffVars
<1>1. TypeOK' BY DEF TypeOK, StartSpawns, Request, FirstId
<1>2. IdsAreOld' BY DEF IdsAreOld, TypeOK, StartSpawns, Request, FirstId
<1>3. AskedOnce' BY DEF AskedOnce, TypeOK, IdsAreOld, StartSpawns, Request, FirstId
<1>4. AwaitsMatch'
  BY DEF AwaitsMatch, TypeOK, CallsGetTheirAnswers, StartSpawns, Request, FirstId
<1>5. CallsGetTheirAnswers'
  BY DEF CallsGetTheirAnswers, TypeOK, AwaitsMatch, AskedOnce, StartSpawns, Request,
         FirstId
<1>6. RunningIsChild' BY DEF RunningIsChild, TypeOK, StartSpawns, Request, FirstId
<1> QED BY <1>1, <1>2, <1>3, <1>4, <1>5, <1>6

\* RequestSent keeps the invariant.
LEMMA RequestSentKeeps ==
  ASSUME MaxCodexes \in Nat, MaxId \in Nat, ClientInv,
         NEW c \in Callers, RequestSent(c)
  PROVE  ClientInv'
<1> USE DEF ClientInv, Spawned, Waits, Kinds, callVars, backoffVars
<1>1. TypeOK' BY DEF TypeOK, RequestSent, Request
<1>2. IdsAreOld' BY DEF IdsAreOld, TypeOK, RequestSent, Request
<1>3. AskedOnce' BY DEF AskedOnce, TypeOK, IdsAreOld, RequestSent, Request
<1>4. AwaitsMatch' BY DEF AwaitsMatch, TypeOK, CallsGetTheirAnswers, RequestSent, Request
<1>5. CallsGetTheirAnswers'
  BY DEF CallsGetTheirAnswers, TypeOK, AwaitsMatch, AskedOnce, RequestSent, Request
<1>6. RunningIsChild' BY DEF RunningIsChild, TypeOK, RequestSent, Request
<1> QED BY <1>1, <1>2, <1>3, <1>4, <1>5, <1>6

\* CallEnds keeps the invariant.
LEMMA CallEndsKeeps ==
  ASSUME MaxCodexes \in Nat, MaxId \in Nat, ClientInv,
         NEW c \in Callers, CallEnds(c)
  PROVE  ClientInv'
<1> USE DEF ClientInv, Spawned, Waits, Kinds, callVars, backoffVars
<1>1. TypeOK' BY DEF TypeOK, CallEnds
<1>2. IdsAreOld' BY DEF IdsAreOld, TypeOK, CallEnds
<1>3. AskedOnce' BY DEF AskedOnce, TypeOK, IdsAreOld, CallEnds
<1>4. AwaitsMatch' BY DEF AwaitsMatch, TypeOK, CallsGetTheirAnswers, CallEnds
<1>5. CallsGetTheirAnswers'
  BY DEF CallsGetTheirAnswers, TypeOK, AwaitsMatch, AskedOnce, CallEnds
<1>6. RunningIsChild' BY DEF RunningIsChild, TypeOK, CallEnds
<1> QED BY <1>1, <1>2, <1>3, <1>4, <1>5, <1>6

\* RequestTimesOut keeps the invariant.
LEMMA RequestTimesOutKeeps ==
  ASSUME MaxCodexes \in Nat, MaxId \in Nat, ClientInv,
         NEW i \in 1 .. MaxId, RequestTimesOut(i)
  PROVE  ClientInv'
<1> USE DEF ClientInv, Spawned, Waits, Kinds, callVars, backoffVars
<1>1. TypeOK' BY DEF TypeOK, RequestTimesOut, Reject, CloseIfInitialize, Close, Kill
<1>2. IdsAreOld'
  BY DEF IdsAreOld, TypeOK, RequestTimesOut, Reject, CloseIfInitialize, Close, Kill
<1>3. AskedOnce'
  BY DEF AskedOnce, TypeOK, IdsAreOld, RequestTimesOut, Reject, CloseIfInitialize, Close,
         Kill
<1>4. AwaitsMatch'
  BY DEF AwaitsMatch, TypeOK, CallsGetTheirAnswers, RequestTimesOut, Reject,
         CloseIfInitialize, Close, Kill
<1>5. CallsGetTheirAnswers'
  BY DEF CallsGetTheirAnswers, TypeOK, AwaitsMatch, AskedOnce, RequestTimesOut, Reject,
         CloseIfInitialize, Close, Kill
<1>6. RunningIsChild'
  BY DEF RunningIsChild, TypeOK, RequestTimesOut, Reject, CloseIfInitialize, Close, Kill
<1> QED BY <1>1, <1>2, <1>3, <1>4, <1>5, <1>6

\* CodexAnswers keeps the invariant.
LEMMA CodexAnswersKeeps ==
  ASSUME MaxCodexes \in Nat, MaxId \in Nat, ClientInv,
         NEW p \in 1 .. MaxCodexes, NEW i \in 1 .. MaxId, NEW kind \in Kinds,
         CodexAnswers(p, i, kind)
  PROVE  ClientInv'
<1> USE DEF ClientInv, Spawned, Waits, Kinds, callVars, backoffVars
<1>1. TypeOK' BY DEF TypeOK, CodexAnswers
<1>2. IdsAreOld' BY DEF IdsAreOld, TypeOK, CodexAnswers
<1>3. AskedOnce' BY DEF AskedOnce, TypeOK, IdsAreOld, CodexAnswers
<1>4. AwaitsMatch' BY DEF AwaitsMatch, TypeOK, CallsGetTheirAnswers, CodexAnswers
<1>5. CallsGetTheirAnswers'
  BY DEF CallsGetTheirAnswers, TypeOK, AwaitsMatch, AskedOnce, CodexAnswers
<1>6. RunningIsChild' BY DEF RunningIsChild, TypeOK, CodexAnswers
<1> QED BY <1>1, <1>2, <1>3, <1>4, <1>5, <1>6

\* HandleReply keeps the invariant.
LEMMA HandleReplyKeeps ==
  ASSUME MaxCodexes \in Nat, MaxId \in Nat, ClientInv,
         NEW p \in 1 .. MaxCodexes, NEW i \in 1 .. MaxId, NEW kind \in Kinds,
         HandleReply(p, i, kind)
  PROVE  ClientInv'
<1> USE DEF ClientInv, Spawned, Waits, Kinds, callVars, backoffVars
<1>1. TypeOK'
  <2>1. CASE i \notin DOMAIN pending BY <2>1 DEF TypeOK, HandleReply
  <2>2. CASE i \in DOMAIN pending /\ kind = "result"
    BY <2>2 DEF TypeOK, HandleReply, Resolve
  <2>3. CASE i \in DOMAIN pending /\ kind # "result"
    <3>1. child' \in {0, child} /\ Spawned' = Spawned
      BY <2>3 DEF TypeOK, HandleReply, CloseIfInitialize, Close, Kill
    <3>2. codexes' \in [Spawned -> {"running", "killed", "exited"}]
      BY <2>3 DEF TypeOK, HandleReply, CloseIfInitialize, Close, Kill
    <3>3. pending' \in [DOMAIN pending' -> Spawned] /\ DOMAIN pending' \subseteq 1 .. MaxId
      BY <2>3 DEF TypeOK, HandleReply, Reject
    <3>4. at' \in [Callers -> Waits \union {"idle", "between", "ended"}] /\ awaits' \in [Callers -> 0 .. MaxId]
      BY <2>3 DEF TypeOK, HandleReply, Reject
    <3>5. settled' \subseteq Spawned \X Spawned /\ replies' \subseteq Spawned \X (1 .. MaxId) \X Kinds
      BY <2>3 DEF TypeOK, HandleReply
    <3>6. transientBackoff' \in BOOLEAN BY <2>3 DEF TypeOK, HandleReply
    <3>7. UNCHANGED <<nextRequestId, asked, authBackoff, lateExit>> BY DEF HandleReply
    <3> HIDE DEF ClientInv
    <3> QED BY <3>1, <3>2, <3>3, <3>4, <3>5, <3>6, <3>7 DEF TypeOK, ClientInv
  <2> QED BY <2>1, <2>2, <2>3
<1>2. IdsAreOld'
  BY DEF IdsAreOld, TypeOK, HandleReply, Reject, Resolve, CloseIfInitialize, Close, Kill
<1>3. AskedOnce'
  BY DEF AskedOnce, TypeOK, IdsAreOld, HandleReply, Reject, Resolve, CloseIfInitialize,
         Close, Kill
<1>4. AwaitsMatch'
  BY DEF AwaitsMatch, TypeOK, CallsGetTheirAnswers, HandleReply, Reject, Resolve,
         CloseIfInitialize, Close, Kill
<1>5. CallsGetTheirAnswers'
  BY DEF CallsGetTheirAnswers, TypeOK, AwaitsMatch, AskedOnce, HandleReply, Reject,
         Resolve, CloseIfInitialize, Close, Kill
<1>6. RunningIsChild'
  BY DEF RunningIsChild, TypeOK, HandleReply, Reject, Resolve, CloseIfInitialize, Close,
         Kill
<1> QED BY <1>1, <1>2, <1>3, <1>4, <1>5, <1>6

\* EnterAuthBackoff keeps the invariant.
LEMMA EnterAuthBackoffKeeps ==
  ASSUME MaxCodexes \in Nat, MaxId \in Nat, ClientInv,
         EnterAuthBackoff
  PROVE  ClientInv'
<1> USE DEF ClientInv, Spawned, Waits, Kinds, callVars, backoffVars
<1>1. TypeOK' BY DEF TypeOK, EnterAuthBackoff, Reject, EndChild, Close, Kill
<1>2. IdsAreOld' BY DEF IdsAreOld, TypeOK, EnterAuthBackoff, Reject, EndChild, Close, Kill
<1>3. AskedOnce'
  BY DEF AskedOnce, TypeOK, IdsAreOld, EnterAuthBackoff, Reject, EndChild, Close, Kill
<1>4. AwaitsMatch'
  BY DEF AwaitsMatch, TypeOK, CallsGetTheirAnswers, EnterAuthBackoff, Reject, EndChild,
         Close, Kill
<1>5. CallsGetTheirAnswers'
  BY DEF CallsGetTheirAnswers, TypeOK, AwaitsMatch, AskedOnce, EnterAuthBackoff, Reject,
         EndChild, Close, Kill
<1>6. RunningIsChild'
  BY DEF RunningIsChild, TypeOK, EnterAuthBackoff, Reject, EndChild, Close, Kill
<1> QED BY <1>1, <1>2, <1>3, <1>4, <1>5, <1>6

\* The back-offs keep the invariant.
LEMMA BackoffsKeeps ==
  ASSUME MaxCodexes \in Nat, MaxId \in Nat, ClientInv,
         EnterTransientBackoff \/ AuthBackoffEnds \/ TransientBackoffEnds
  PROVE  ClientInv'
<1> USE DEF ClientInv, Spawned, Waits, Kinds, callVars, backoffVars
<1>1. TypeOK' BY DEF TypeOK, EnterTransientBackoff, AuthBackoffEnds, TransientBackoffEnds
<1>2. IdsAreOld'
  BY DEF IdsAreOld, TypeOK, EnterTransientBackoff, AuthBackoffEnds, TransientBackoffEnds
<1>3. AskedOnce'
  BY DEF AskedOnce, TypeOK, IdsAreOld, EnterTransientBackoff, AuthBackoffEnds,
         TransientBackoffEnds
<1>4. AwaitsMatch'
  BY DEF AwaitsMatch, TypeOK, CallsGetTheirAnswers, EnterTransientBackoff,
         AuthBackoffEnds, TransientBackoffEnds
<1>5. CallsGetTheirAnswers'
  BY DEF CallsGetTheirAnswers, TypeOK, AwaitsMatch, AskedOnce, EnterTransientBackoff,
         AuthBackoffEnds, TransientBackoffEnds
<1>6. RunningIsChild'
  BY DEF RunningIsChild, TypeOK, EnterTransientBackoff, AuthBackoffEnds,
         TransientBackoffEnds
<1> QED BY <1>1, <1>2, <1>3, <1>4, <1>5, <1>6

\* CodexExits keeps the invariant.
LEMMA CodexExitsKeeps ==
  ASSUME MaxCodexes \in Nat, MaxId \in Nat, ClientInv,
         NEW p \in 1 .. MaxCodexes, CodexExits(p)
  PROVE  ClientInv'
<1> USE DEF ClientInv, Spawned, Waits, Kinds, callVars, backoffVars
<1>1. TypeOK' BY DEF TypeOK, CodexExits, Reject
<1>2. IdsAreOld' BY DEF IdsAreOld, TypeOK, CodexExits, Reject
<1>3. AskedOnce' BY DEF AskedOnce, TypeOK, IdsAreOld, CodexExits, Reject
<1>4. AwaitsMatch' BY DEF AwaitsMatch, TypeOK, CallsGetTheirAnswers, CodexExits, Reject
<1>5. CallsGetTheirAnswers'
  BY DEF CallsGetTheirAnswers, TypeOK, AwaitsMatch, AskedOnce, CodexExits, Reject
<1>6. RunningIsChild' BY DEF RunningIsChild, TypeOK, CodexExits, Reject
<1> QED BY <1>1, <1>2, <1>3, <1>4, <1>5, <1>6

\* Stuttering keeps the invariant.
LEMMA StutterKeeps ==
  ASSUME MaxCodexes \in Nat, MaxId \in Nat, ClientInv,
         UNCHANGED clientVars
  PROVE  ClientInv'
<1> USE DEF ClientInv, Spawned, Waits, Kinds, callVars, backoffVars
<1>1. TypeOK' BY DEF TypeOK, clientVars
<1>2. IdsAreOld' BY DEF IdsAreOld, TypeOK, clientVars
<1>3. AskedOnce' BY DEF AskedOnce, TypeOK, IdsAreOld, clientVars
<1>4. AwaitsMatch' BY DEF AwaitsMatch, TypeOK, CallsGetTheirAnswers, clientVars
<1>5. CallsGetTheirAnswers'
  BY DEF CallsGetTheirAnswers, TypeOK, AwaitsMatch, AskedOnce, clientVars
<1>6. RunningIsChild' BY DEF RunningIsChild, TypeOK, clientVars
<1> QED BY <1>1, <1>2, <1>3, <1>4, <1>5, <1>6

\* Every step of the client keeps the invariant.
LEMMA NextKeeps ==
  ASSUME MaxCodexes \in Nat, MaxId \in Nat, ClientInv, [Next]_clientVars
  PROVE  ClientInv'
<1>1. CASE \E c \in Callers : StartReturns(c) BY <1>1, StartReturnsKeeps
<1>2. CASE \E c \in Callers : StartRefused(c) BY <1>2, StartRefusedKeeps
<1>3. CASE \E c \in Callers, p \in 1 .. MaxCodexes : StartSpawns(c, p) BY <1>3, StartSpawnsKeeps
<1>4. CASE \E c \in Callers : RequestSent(c) BY <1>4, RequestSentKeeps
<1>5. CASE \E c \in Callers : CallEnds(c) BY <1>5, CallEndsKeeps
<1>6. CASE \E i \in 1 .. MaxId : RequestTimesOut(i) BY <1>6, RequestTimesOutKeeps
<1>7. CASE \E p \in 1 .. MaxCodexes, i \in 1 .. MaxId, kind \in Kinds : CodexAnswers(p, i, kind)
  BY <1>7, CodexAnswersKeeps
<1>8. CASE \E p \in 1 .. MaxCodexes, i \in 1 .. MaxId, kind \in Kinds : HandleReply(p, i, kind)
  BY <1>8, HandleReplyKeeps
<1>9. CASE EnterAuthBackoff BY <1>9, EnterAuthBackoffKeeps
<1>10. CASE EnterTransientBackoff \/ AuthBackoffEnds \/ TransientBackoffEnds BY <1>10, BackoffsKeeps
<1>11. CASE \E p \in 1 .. MaxCodexes : CodexExits(p) BY <1>11, CodexExitsKeeps
<1>12. CASE UNCHANGED clientVars BY <1>12, StutterKeeps
<1> QED
  BY <1>1, <1>2, <1>3, <1>4, <1>5, <1>6, <1>7, <1>8, <1>9, <1>10, <1>11, <1>12 DEF Next

\* All the parts together are inductive: the ids and who was asked are what
\* CallsGetTheirAnswers needs of the past.
THEOREM ClientInvariant ==
  ASSUME MaxCodexes \in Nat, MaxId \in Nat
  PROVE  Spec => []ClientInv
<1>1. Init => ClientInv BY InitClientInv
<1>2. ClientInv /\ [Next]_clientVars => ClientInv' BY NextKeeps
<1> QED BY <1>1, <1>2, PTL DEF Spec

\* The client's maps keep their types.
THEOREM TypeCorrect ==
  ASSUME MaxCodexes \in Nat, MaxId \in Nat
  PROVE  Spec => []TypeOK
<1>1. ClientInv => TypeOK BY DEF ClientInv
<1> QED BY <1>1, ClientInvariant, PTL

\* A call that waits will be answered or fail, and by the codex it asked: the ids of
\* request() go on over all processes, and pending is rejected wherever it is emptied.
THEOREM CallsCorrect ==
  ASSUME MaxCodexes \in Nat, MaxId \in Nat
  PROVE  Spec => []CallsGetTheirAnswers
<1>1. ClientInv => CallsGetTheirAnswers BY DEF ClientInv
<1> QED BY <1>1, ClientInvariant, PTL

\* A codex that runs on is this.child, unless the exit of another one was late: start(),
\* close() and enterAuthBackoff never leave one behind.
THEOREM RunningCorrect ==
  ASSUME MaxCodexes \in Nat, MaxId \in Nat
  PROVE  Spec => []RunningIsChild
<1>1. ClientInv => RunningIsChild BY DEF ClientInv
<1> QED BY <1>1, ClientInvariant, PTL
=============================================================================
