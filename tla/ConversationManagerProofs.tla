--------------------- MODULE ConversationManagerProofs ---------------------
(* Theorems of ConversationManager, for any turns, conversations and threads. *)
EXTENDS ConversationManager, TLAPS

\* Every action keeps the types of the maps, so attribution never yields
\* anything but a turn, a thread or their absence.
LEMMA TypeStep == TypeOK /\ [Next]_vars => TypeOK'
<1> SUFFICES ASSUME TypeOK, [Next]_vars PROVE TypeOK'
  OBVIOUS
<1> USE ConstantsAssumption DEF TypeOK, CallState, InRequest, Continuation, OptTurn,
                                OptThread, CodexTurnState
<1>1. ASSUME NEW t \in Turn, StartTurn(t) PROVE TypeOK'
  <2>1. PICK given \in {NoThread} \union {x \in Thread : owner[x] = ConversationOf[t]} :
          LET th == IF given # NoThread THEN given
                    ELSE threadByConversation[ConversationOf[t]]
          IN  /\ threadOf' = [threadOf EXCEPT ![t] = th]
              /\ \/ alive /\ Proceed(t, th)
                 \/ /\ ~alive
                    /\ Goto(t, "starting")
                    /\ UNCHANGED <<threadByConversation, pendingTurnByThread>>
                 \/ /\ ~alive
                    /\ Goto(t, "noThread")
                    /\ UNCHANGED <<threadByConversation, pendingTurnByThread>>
    BY <1>1 DEF StartTurn
  <2> DEFINE th == IF given # NoThread THEN given
                   ELSE threadByConversation[ConversationOf[t]]
  <2>2. th \in OptThread
    OBVIOUS
  <2>3. pc' \in [Turn -> CallState] /\ threadOf' \in [Turn -> OptThread]
    BY <2>1, <2>2 DEF Proceed, Goto
  <2>4. /\ threadByConversation' \in [Conversation -> OptThread]
        /\ pendingTurnByThread' \in [Thread -> OptTurn]
    BY <2>1, <2>2 DEF Proceed
  <2>5. alive' \in BOOLEAN
    BY <1>1, <2>3 DEF StartTurn
  <2> QED
    BY <1>1, <2>3, <2>4, <2>5 DEF StartTurn, syncVars
<1>2. ASSUME NEW t \in Turn, CodexReady(t) PROVE TypeOK'
  BY <1>2 DEF CodexReady, Proceed, Goto, syncVars, codexVars
<1>3. ASSUME NEW t \in Turn,
             TurnStartAnswered(t) \/ TurnStartNotFound(t) \/ TurnStartFails(t)
                                  \/ CodexAccepts(t)
      PROVE  TypeOK'
  BY <1>3 DEF TurnStartAnswered, TurnStartNotFound, TurnStartFails, CodexAccepts, Goto,
              callVars, bindVars, syncVars, codexVars
<1>4. ASSUME NEW t \in Turn, Continue(t) PROVE TypeOK'
  <2>1. CASE AfterThread(t)
    BY <2>1 DEF AfterThread, Proceed, Goto, syncVars, codexVars
  <2>2. CASE AfterAnswer(t)
    BY <2>2 DEF AfterAnswer, BindTurn, Goto, syncVars, codexVars
  <2>3. CASE AfterNotFound(t)
    BY <2>3 DEF AfterNotFound, Without, Goto, syncVars, codexVars
  <2>4. CASE AfterFailure(t)
    BY <2>4 DEF AfterFailure, EmitTurnCompleted, Without, Goto, syncVars, codexVars
  <2> QED
    BY <1>4, <2>1, <2>2, <2>3, <2>4 DEF Continue
<1>5. ASSUME NEW c \in Turn, TurnStarted(c) PROVE TypeOK'
  BY <1>5 DEF TurnStarted, BindTurn, callVars, bindVars, syncVars
<1>6. ASSUME NEW c \in Turn, TurnCompleted(c) PROVE TypeOK'
  BY <1>6 DEF TurnCompleted, Context, EmitTurnCompleted, Without, callVars, bindVars, syncVars
<1>7. ASSUME NEW c \in Conversation, ThreadStartFails(c) PROVE TypeOK'
  BY <1>7 DEF ThreadStartFails, Ensuring, bindVars, syncVars, codexVars
<1>8. ASSUME NEW c \in Conversation, NEW th \in Thread, ThreadStarted(c, th)
       PROVE  TypeOK'
  BY <1>8 DEF ThreadStarted, Ensuring, bindVars, syncVars, codexVars
<1>9. ASSUME NEW th \in Thread, ThreadStatusTerminal(th) PROVE TypeOK'
  BY <1>9 DEF ThreadStatusTerminal, Context, EmitTurnCompleted, Without,
              callVars, bindVars, syncVars, codexVars
<1>10. ASSUME NEW th \in Thread, ThreadStartedNotification(th) PROVE TypeOK'
  BY <1>10 DEF ThreadStartedNotification, callVars, bindVars, syncVars, codexVars
<1>11. CASE CodexExit
  <2> DEFINE failing == {activeTurnByThread[th] : th \in Thread}
                          \ (terminalTurnIds \union {NoTurn})
  <2>1. PICK at \in [failing -> Thread] :
          LET hit == {at[t] : t \in failing}
          IN  /\ pendingTurnByThread' = [th \in Thread |->
                   IF th \in hit THEN NoTurn ELSE pendingTurnByThread[th]]
              /\ activeTurnByThread' = [th \in Thread |->
                   IF th \in hit THEN NoTurn ELSE activeTurnByThread[th]]
    BY <1>11, Zenon DEF CodexExit
  <2>2. /\ pendingTurnByThread' \in [Thread -> OptTurn]
        /\ activeTurnByThread' \in [Thread -> OptTurn]
    BY <2>1
  <2>3. failing \subseteq Turn
    OBVIOUS
  <2>4. terminalTurnIds' \in SUBSET Turn /\ lastEvent' \in [Turn -> {"none", "started", "completed"}]
    BY <1>11, <2>3 DEF CodexExit
  <2>5. pc' \in [Turn -> CallState] /\ codex' \in [Turn -> CodexTurnState]
    BY <1>11 DEF CodexExit
  <2> QED
    BY <1>11, <2>2, <2>4, <2>5 DEF CodexExit
<1>12. CASE SyncThreads
  <2>1. PICK snapshot \in [Conversation -> OptThread] :
          /\ threadByConversation' = snapshot
          /\ \/ /\ syncing' = TRUE
                /\ desired' = {snapshot[c] : c \in Conversation} \ {NoThread}
                /\ alive' = TRUE
             \/ UNCHANGED <<syncVars, alive>>
    BY <1>12, Zenon DEF SyncThreads
  <2>2. {snapshot[c] : c \in Conversation} \ {NoThread} \subseteq Thread
    OBVIOUS
  <2>3. /\ syncing' \in BOOLEAN
        /\ desired' \in SUBSET Thread
        /\ alive' \in BOOLEAN
        /\ threadByConversation' \in [Conversation -> OptThread]
    BY <2>1, <2>2 DEF syncVars
  <2> QED
    BY <1>12, <2>3 DEF SyncThreads, callVars, bindVars
<1>13. CASE SyncReconcile \/ SyncFails
  BY <1>13 DEF SyncReconcile, SyncFails, callVars, bindVars, codexVars
<1>14. CASE UNCHANGED vars
  BY <1>14 DEF vars, callVars, bindVars, syncVars, codexVars
<1> HIDE DEF TypeOK
<1> QED
  BY <1>1, <1>2, <1>3, <1>4, <1>5, <1>6, <1>7, <1>8, <1>9, <1>10, <1>11, <1>12, <1>13,
     <1>14 DEF Next

\* The variables of the manager and of the codex child always have their types.
THEOREM TypeCorrect == Spec => []TypeOK
<1>1. Init => TypeOK
  BY ConstantsAssumption DEF Init, TypeOK, CallState, OptTurn, OptThread, CodexTurnState
<1> QED
  BY <1>1, TypeStep, PTL DEF Spec

-----------------------------------------------------------------------------
(* The inductive invariant: the checked invariants and what a startTurn call *)
(* knows at each of its awaits.                                              *)

\* A call that waits for turn/start has a thread, of its own conversation; a
\* codex turn exists only for a call that has sent turn/start.
CallsKnowThread ==
  \A t \in Turn :
    /\ threadOf[t] # NoThread => owner[threadOf[t]] = ConversationOf[t]
    /\ pc[t] \in InRequest \union {"threadReady"} => threadOf[t] \in Thread
    /\ pc[t] = "notFound" => codex[t] = "none"
    /\ codex[t] # "none" => /\ threadOf[t] \in Thread
                            /\ pc[t] \in {"requesting", "answered", "refused", "done"}

Inv ==
  /\ TypeOK
  /\ CallsKnowThread
  /\ PendingOnlyInCall
  /\ Isolation
  /\ ReportsAgree
  /\ InterruptReachesOwnTurn

\* A step that reports the turns of S as completed, and otherwise only takes
\* entries out of the maps by thread.
Reported(S) ==
  /\ \A x \in Thread : /\ pendingTurnByThread'[x] \in {pendingTurnByThread[x], NoTurn}
                       /\ activeTurnByThread'[x] \in {activeTurnByThread[x], NoTurn}
  /\ UNCHANGED <<turnByCodex, codexByTurn>>
  /\ terminalTurnIds' = terminalTurnIds \union S
  /\ lastEvent' = [t \in Turn |-> IF t \in S THEN "completed" ELSE lastEvent[t]]

\* emitTurnCompleted reports its turn, once, and only forgets.
LEMMA EmitReports ==
  ASSUME TypeOK, ReportsAgree, NEW t \in Turn, NEW th \in OptThread, NEW now,
         now \in [Thread -> OptTurn],
         \A x \in Thread : now[x] \in {pendingTurnByThread[x], NoTurn},
         EmitTurnCompleted(t, th, now)
  PROVE  Reported({t})
<1>1. CASE t \in terminalTurnIds
  BY <1>1 DEF EmitTurnCompleted, Reported, TypeOK, ReportsAgree
<1>2. CASE t \notin terminalTurnIds
  BY <1>2 DEF EmitTurnCompleted, Without, Reported, TypeOK
<1> QED
  BY <1>1, <1>2

\* Forgetting one pending entry.
LEMMA WithoutForgets ==
  ASSUME TypeOK, NEW th \in OptThread
  PROVE  /\ Without(pendingTurnByThread, th) \in [Thread -> OptTurn]
         /\ \A x \in Thread :
              Without(pendingTurnByThread, th)[x] \in {pendingTurnByThread[x], NoTurn}
         /\ th \in Thread => Without(pendingTurnByThread, th)[th] = NoTurn
  BY DEF Without, TypeOK, OptTurn, OptThread

\* A turn that was given, or is found in a map.
Known(t) ==
  \/ pc[t] # "idle"
  \/ \E th \in Thread : t \in {pendingTurnByThread[th], activeTurnByThread[th]}
  \/ \E c \in Turn : turnByCodex[c] = t

ReportsKnown == \E S \in SUBSET Turn : Reported(S) /\ \A t \in S : Known(t)

\* The failed call of a turn, a notification about it and the child's exit
\* report completed turns and bind none.
LEMMA OnlyReports ==
  ASSUME TypeOK, ReportsAgree,
         \/ \E t \in Turn : AfterFailure(t) \/ TurnCompleted(t)
         \/ \E th \in Thread : ThreadStatusTerminal(th)
         \/ CodexExit
  PROVE  ReportsKnown
<1> USE ConstantsAssumption
<1>1. ASSUME UNCHANGED bindVars PROVE Reported({})
  BY <1>1 DEF Reported, bindVars, TypeOK
<1>2. ASSUME NEW t \in Turn, AfterFailure(t) PROVE Reported({t})
  <2>1. threadOf[t] \in OptThread
    BY DEF TypeOK
  <2>2. CASE pc[t] = "noThread"
    <3>1. EmitTurnCompleted(t, threadOf[t], pendingTurnByThread)
      BY <1>2, <2>2 DEF AfterFailure
    <3> QED
      BY <2>1, <3>1, EmitReports DEF TypeOK
  <2>3. CASE pc[t] # "noThread"
    <3>1. EmitTurnCompleted(t, threadOf[t], Without(pendingTurnByThread, threadOf[t]))
      BY <1>2, <2>3 DEF AfterFailure
    <3> QED
      BY <2>1, <3>1, EmitReports, WithoutForgets
  <2> QED
    BY <2>2, <2>3
<1>3. ASSUME NEW c \in Turn, TurnCompleted(c) PROVE ReportsKnown
  <2>1. PICK named \in BOOLEAN :
          LET th == threadOf[c]
              t  == Context(th, IF named THEN turnByCodex[c] ELSE NoTurn)
          IN  IF th \in loaded /\ t # NoTurn /\ (named \/ codexByTurn[t] # NoTurn)
                THEN EmitTurnCompleted(t, th, pendingTurnByThread)
                ELSE UNCHANGED bindVars
    BY <1>3 DEF TurnCompleted
  <2> DEFINE th == threadOf[c]
             t  == Context(th, IF named THEN turnByCodex[c] ELSE NoTurn)
  <2>2. CASE th \in loaded /\ t # NoTurn /\ (named \/ codexByTurn[t] # NoTurn)
    <3>1. t \in Turn /\ th \in OptThread
      BY <2>2 DEF Context, TypeOK, OptTurn, OptThread
    <3>2. EmitTurnCompleted(t, th, pendingTurnByThread)
      BY <2>1, <2>2
    <3>3. Reported({t})
      BY <3>1, <3>2, EmitReports DEF TypeOK
    <3>4. Known(t)
      BY <2>2 DEF Known, Context, TypeOK
    <3> HIDE DEF t
    <3> QED
      BY <3>1, <3>3, <3>4 DEF ReportsKnown
  <2>3. CASE ~(th \in loaded /\ t # NoTurn /\ (named \/ codexByTurn[t] # NoTurn))
    BY <1>1, <2>1, <2>3 DEF ReportsKnown
  <2> QED
    BY <2>2, <2>3
<1>4. ASSUME NEW th \in Thread, ThreadStatusTerminal(th)
      PROVE  ReportsKnown
  <2> DEFINE t == Context(th, NoTurn)
  <2>1. CASE t # NoTurn
    <3>1. t \in Turn /\ th \in OptThread
      BY <2>1 DEF Context, TypeOK, OptTurn, OptThread
    <3>2. EmitTurnCompleted(t, th, pendingTurnByThread)
      BY <1>4, <2>1 DEF ThreadStatusTerminal
    <3>3. Reported({t})
      BY <3>1, <3>2, EmitReports DEF TypeOK
    <3>4. Known(t)
      BY <2>1 DEF Known, Context, TypeOK
    <3> HIDE DEF t
    <3> QED
      BY <3>1, <3>3, <3>4 DEF ReportsKnown
  <2>2. CASE t = NoTurn
    BY <1>1, <1>4, <2>2 DEF ThreadStatusTerminal, ReportsKnown
  <2> QED
    BY <2>1, <2>2
<1>5. CASE CodexExit
  <2> DEFINE failing == {activeTurnByThread[th] : th \in Thread}
                          \ (terminalTurnIds \union {NoTurn})
  <2>1. failing \subseteq Turn
    BY DEF TypeOK, OptTurn
  <2>2. PICK at \in [failing -> Thread] :
          LET hit == {at[t] : t \in failing}
          IN  /\ pendingTurnByThread' = [th \in Thread |->
                   IF th \in hit THEN NoTurn ELSE pendingTurnByThread[th]]
              /\ activeTurnByThread' = [th \in Thread |->
                   IF th \in hit THEN NoTurn ELSE activeTurnByThread[th]]
    BY <1>5, Zenon DEF CodexExit
  <2>3. Reported(failing)
    BY <1>5, <2>2 DEF CodexExit, Reported
  <2>4. \A t \in failing : Known(t)
    BY DEF Known
  <2> QED
    BY <2>1, <2>3, <2>4 DEF ReportsKnown
<1>6. ASSUME NEW t \in Turn, AfterFailure(t) PROVE ReportsKnown
  <2>1. Reported({t}) /\ Known(t)
    BY <1>2, <1>6 DEF AfterFailure, Known
  <2> QED
    BY <2>1 DEF ReportsKnown
<1> QED
  BY <1>3, <1>4, <1>5, <1>6

\* What each await leaves the call with survives every step.
LEMMA CallsStep == Inv /\ [Next]_vars => CallsKnowThread'
<1> SUFFICES ASSUME Inv, [Next]_vars PROVE CallsKnowThread'
  OBVIOUS
<1> USE ConstantsAssumption DEF Inv, TypeOK, CallsKnowThread, InRequest, OptTurn, OptThread
<1>1. ASSUME NEW t \in Turn, StartTurn(t) PROVE CallsKnowThread'
  <2>1. PICK given \in {NoThread} \union {x \in Thread : owner[x] = ConversationOf[t]} :
          LET th == IF given # NoThread THEN given
                    ELSE threadByConversation[ConversationOf[t]]
          IN  /\ threadOf' = [threadOf EXCEPT ![t] = th]
              /\ \/ Proceed(t, th)
                 \/ Goto(t, "starting")
                 \/ Goto(t, "noThread")
    BY <1>1 DEF StartTurn
  <2> DEFINE th == IF given # NoThread THEN given
                   ELSE threadByConversation[ConversationOf[t]]
  <2>2. th \in Thread => owner[th] = ConversationOf[t]
    BY DEF Isolation
  <2>3. th \in OptThread
    OBVIOUS
  <2>4. /\ threadOf' = [threadOf EXCEPT ![t] = th]
        /\ \/ pc' = [pc EXCEPT ![t] = "ensuring"]
           \/ pc' = [pc EXCEPT ![t] = "starting"]
           \/ pc' = [pc EXCEPT ![t] = "noThread"]
           \/ th \in Thread /\ pc' = [pc EXCEPT ![t] = "requesting"]
    BY <2>1, <2>3 DEF Proceed, Goto
  <2>5. pc[t] = "idle" /\ owner' = owner /\ codex' = codex
    BY <1>1 DEF StartTurn
  <2> HIDE DEF th
  <2> QED
    BY <2>2, <2>3, <2>4, <2>5
<1>2. ASSUME NEW t \in Turn, CodexReady(t) PROVE CallsKnowThread'
  BY <1>2 DEF CodexReady, Proceed, Goto, codexVars
<1>3. ASSUME NEW t \in Turn, AfterThread(t) \/ AfterAnswer(t) \/ AfterNotFound(t)
      PROVE  CallsKnowThread'
  BY <1>3 DEF AfterThread, AfterAnswer, AfterNotFound, Proceed, Goto, codexVars
<1>4. ASSUME NEW t \in Turn, AfterFailure(t) PROVE CallsKnowThread'
  BY <1>4 DEF AfterFailure, Goto, codexVars
<1>5. ASSUME NEW t \in Turn, TurnStartAnswered(t) \/ TurnStartNotFound(t) \/ TurnStartFails(t)
      PROVE  CallsKnowThread'
  BY <1>5 DEF TurnStartAnswered, TurnStartNotFound, TurnStartFails, Goto, codexVars
<1>6. ASSUME NEW t \in Turn, CodexAccepts(t) \/ TurnStarted(t) \/ TurnCompleted(t)
      PROVE  CallsKnowThread'
  BY <1>6 DEF CodexAccepts, TurnStarted, TurnCompleted, callVars
<1>7. ASSUME NEW c \in Conversation, ThreadStartFails(c) PROVE CallsKnowThread'
  BY <1>7 DEF ThreadStartFails, Ensuring, codexVars
<1>8. ASSUME NEW c \in Conversation, NEW th \in Thread, ThreadStarted(c, th)
      PROVE  CallsKnowThread'
  BY <1>8 DEF ThreadStarted, Ensuring
<1>9. CASE CodexExit
  BY <1>9 DEF CodexExit
<1>10. CASE \/ \E th \in Thread : ThreadStatusTerminal(th) \/ ThreadStartedNotification(th)
            \/ SyncThreads \/ SyncReconcile \/ SyncFails
            \/ UNCHANGED vars
  BY <1>10 DEF ThreadStatusTerminal, ThreadStartedNotification, SyncThreads, SyncReconcile,
               SyncFails, vars, callVars, codexVars
<1> HIDE DEF Inv, CallsKnowThread, TypeOK
<1> QED
  BY <1>1, <1>2, <1>3, <1>4, <1>5, <1>6, <1>7, <1>8, <1>9, <1>10 DEF Next, Continue

\* No step leaves a pending entry behind a call that has left its request.
LEMMA PendingStep == Inv /\ [Next]_vars => PendingOnlyInCall'
<1> SUFFICES ASSUME Inv, [Next]_vars PROVE PendingOnlyInCall'
  OBVIOUS
<1> USE ConstantsAssumption DEF Inv, TypeOK, PendingOnlyInCall, InRequest, OptTurn, OptThread
<1>1. ASSUME NEW t \in Turn, StartTurn(t) PROVE PendingOnlyInCall'
  <2>1. PICK th \in OptThread :
          /\ threadOf' = [threadOf EXCEPT ![t] = th]
          /\ \/ Proceed(t, th)
             \/ Goto(t, "starting") /\ UNCHANGED pendingTurnByThread
             \/ Goto(t, "noThread") /\ UNCHANGED pendingTurnByThread
    BY <1>1 DEF StartTurn
  <2>2. pc[t] = "idle"
    BY <1>1 DEF StartTurn
  <2> QED
    BY <2>1, <2>2 DEF Proceed, Goto
<1>2. ASSUME NEW t \in Turn, CodexReady(t) \/ AfterThread(t) PROVE PendingOnlyInCall'
  BY <1>2 DEF CodexReady, AfterThread, Proceed, Goto
<1>3. ASSUME NEW t \in Turn, AfterAnswer(t) PROVE PendingOnlyInCall'
  BY <1>3 DEF AfterAnswer, BindTurn, Goto
<1>4. ASSUME NEW t \in Turn, AfterNotFound(t) PROVE PendingOnlyInCall'
  BY <1>4, WithoutForgets DEF AfterNotFound, Goto
<1>5. ASSUME NEW t \in Turn, AfterFailure(t) PROVE PendingOnlyInCall'
  <2>1. \A x \in Thread : pendingTurnByThread'[x] \in {pendingTurnByThread[x], NoTurn}
    BY <1>5, OnlyReports DEF ReportsKnown, Reported
  <2>2. \A x \in Thread : pendingTurnByThread'[x] # t
    <3>1. CASE pc[t] = "noThread"
      BY <2>1, <3>1
    <3>2. CASE pc[t] # "noThread"
      <4>1. \A x \in Thread : pendingTurnByThread'[x]
                                \in {Without(pendingTurnByThread, threadOf[t])[x], NoTurn}
        BY <1>5, <3>2 DEF AfterFailure, EmitTurnCompleted, Without
      <4> QED
        BY <4>1 DEF Without
    <3> QED
      BY <3>1, <3>2
  <2> QED
    BY <1>5, <2>1, <2>2 DEF AfterFailure, Goto
<1>6. ASSUME NEW t \in Turn, TurnStartAnswered(t) \/ TurnStartNotFound(t) \/ TurnStartFails(t)
      PROVE  PendingOnlyInCall'
  BY <1>6 DEF TurnStartAnswered, TurnStartNotFound, TurnStartFails, Goto, bindVars
<1>7. ASSUME NEW t \in Turn, CodexAccepts(t) \/ TurnStarted(t) PROVE PendingOnlyInCall'
  BY <1>7 DEF CodexAccepts, TurnStarted, BindTurn, callVars, bindVars
<1>8. ASSUME NEW c \in Turn, TurnCompleted(c) PROVE PendingOnlyInCall'
  <2>1. \A x \in Thread : pendingTurnByThread'[x] \in {pendingTurnByThread[x], NoTurn}
    BY <1>8, OnlyReports DEF ReportsKnown, Reported
  <2> QED
    BY <1>8, <2>1 DEF TurnCompleted, callVars
<1>9. ASSUME NEW th \in Thread, ThreadStatusTerminal(th) PROVE PendingOnlyInCall'
  <2>1. \A x \in Thread : pendingTurnByThread'[x] \in {pendingTurnByThread[x], NoTurn}
    BY <1>9, OnlyReports DEF ReportsKnown, Reported
  <2> QED
    BY <1>9, <2>1 DEF ThreadStatusTerminal, callVars
<1>10. CASE CodexExit
  <2>1. \A x \in Thread : pendingTurnByThread'[x] \in {pendingTurnByThread[x], NoTurn}
    BY <1>10, OnlyReports DEF ReportsKnown, Reported
  <2> QED
    BY <1>10, <2>1 DEF CodexExit
<1>11. ASSUME NEW c \in Conversation, ThreadStartFails(c) PROVE PendingOnlyInCall'
  BY <1>11 DEF ThreadStartFails, Ensuring, bindVars
<1>12. ASSUME NEW c \in Conversation, NEW th \in Thread, ThreadStarted(c, th)
       PROVE  PendingOnlyInCall'
  BY <1>12 DEF ThreadStarted, Ensuring, bindVars
<1>13. CASE \/ \E th \in Thread : ThreadStartedNotification(th)
            \/ SyncThreads \/ SyncReconcile \/ SyncFails
            \/ UNCHANGED vars
  BY <1>13 DEF ThreadStartedNotification, SyncThreads, SyncReconcile, SyncFails, vars,
               callVars, bindVars
<1> HIDE DEF Inv, PendingOnlyInCall, TypeOK
<1> QED
  BY <1>1, <1>2, <1>3, <1>4, <1>5, <1>6, <1>7, <1>8, <1>9, <1>10, <1>11, <1>12, <1>13
     DEF Next, Continue

\* Binding and reporting stay inside the conversation of the thread.
LEMMA IsolationStep == Inv /\ [Next]_vars => Isolation'
<1> SUFFICES ASSUME Inv, [Next]_vars PROVE Isolation'
  OBVIOUS
<1> USE ConstantsAssumption DEF Inv, TypeOK, Isolation, OptTurn, OptThread
<1>1. ASSUME NEW S \in SUBSET Turn, Reported(S), UNCHANGED <<owner, threadByConversation>>
      PROVE  Isolation'
  BY <1>1 DEF Reported
<1>2. ASSUME NEW t \in Turn, StartTurn(t) PROVE Isolation'
  <2>1. PICK given \in {NoThread} \union {x \in Thread : owner[x] = ConversationOf[t]} :
          LET th == IF given # NoThread THEN given
                    ELSE threadByConversation[ConversationOf[t]]
          IN  \/ Proceed(t, th)
              \/ UNCHANGED <<threadByConversation, pendingTurnByThread>>
    BY <1>2 DEF StartTurn
  <2> DEFINE th == IF given # NoThread THEN given
                   ELSE threadByConversation[ConversationOf[t]]
  <2>2. th \in OptThread /\ (th \in Thread => owner[th] = ConversationOf[t])
    OBVIOUS
  <2>3. Proceed(t, th) \/ UNCHANGED <<threadByConversation, pendingTurnByThread>>
    BY <2>1
  <2>4. UNCHANGED <<turnByCodex, activeTurnByThread, owner>>
    BY <1>2 DEF StartTurn
  <2> HIDE DEF th
  <2> QED
    BY <2>2, <2>3, <2>4 DEF Proceed
<1>3. ASSUME NEW t \in Turn, CodexReady(t) \/ AfterThread(t) PROVE Isolation'
  BY <1>3 DEF CodexReady, AfterThread, Proceed, CallsKnowThread, codexVars
<1>4. ASSUME NEW t \in Turn, AfterAnswer(t) PROVE Isolation'
  BY <1>4 DEF AfterAnswer, BindTurn, CallsKnowThread, InRequest, codexVars
<1>5. ASSUME NEW t \in Turn, AfterNotFound(t) PROVE Isolation'
  BY <1>5, WithoutForgets DEF AfterNotFound, codexVars
<1>6. ASSUME NEW c \in Turn, TurnStarted(c) PROVE Isolation'
  BY <1>6 DEF TurnStarted, BindTurn, CallsKnowThread, bindVars
<1>7. CASE \/ \E t \in Turn : AfterFailure(t) \/ TurnCompleted(t)
           \/ \E th \in Thread : ThreadStatusTerminal(th)
           \/ CodexExit
  <2>1. UNCHANGED <<owner, threadByConversation>>
    BY <1>7 DEF AfterFailure, TurnCompleted, ThreadStatusTerminal, CodexExit, codexVars
  <2> HIDE DEF Inv, TypeOK, Isolation
  <2>2. PICK S \in SUBSET Turn : Reported(S)
    BY <1>7, OnlyReports DEF ReportsKnown, Inv
  <2> QED
    BY <1>1, <2>1, <2>2
<1>8. ASSUME NEW t \in Turn,
             TurnStartAnswered(t) \/ TurnStartNotFound(t) \/ TurnStartFails(t) \/ CodexAccepts(t)
      PROVE  Isolation'
  BY <1>8 DEF TurnStartAnswered, TurnStartNotFound, TurnStartFails, CodexAccepts,
              bindVars, codexVars
<1>9. ASSUME NEW c \in Conversation, NEW th \in Thread, ThreadStarted(c, th)
      PROVE  Isolation'
  BY <1>9 DEF ThreadStarted, bindVars
<1>10. CASE SyncThreads
  BY <1>10 DEF SyncThreads, bindVars
<1>11. CASE \/ \E c \in Conversation : ThreadStartFails(c)
            \/ \E th \in Thread : ThreadStartedNotification(th)
            \/ SyncReconcile \/ SyncFails
            \/ UNCHANGED vars
  BY <1>11 DEF ThreadStartFails, ThreadStartedNotification, SyncReconcile, SyncFails,
               vars, bindVars, codexVars
<1> HIDE DEF Inv, TypeOK, Isolation
<1> QED
  BY <1>2, <1>3, <1>4, <1>5, <1>6, <1>7, <1>8, <1>9, <1>10, <1>11 DEF Next, Continue

\* A turn is bound to its own codex turn when its call ends with an answer, and
\* only turns whose call has not ended are bound afterwards.
LEMMA ReportsStep ==
  Inv /\ [Next]_vars => ReportsAgree' /\ InterruptReachesOwnTurn'
<1> SUFFICES ASSUME Inv, [Next]_vars PROVE ReportsAgree' /\ InterruptReachesOwnTurn'
  OBVIOUS
<1> USE ConstantsAssumption DEF Inv, TypeOK, ReportsAgree, InterruptReachesOwnTurn,
                                OptTurn, OptThread
<1>1. ASSUME NEW S \in SUBSET Turn, Reported(S),
             \A t \in Turn : pc'[t] = "done" => pc[t] = "done" \/ t \in S
      PROVE  ReportsAgree' /\ InterruptReachesOwnTurn'
  BY <1>1 DEF Reported
<1>2. ASSUME NEW t \in Turn, AfterAnswer(t) PROVE ReportsAgree' /\ InterruptReachesOwnTurn'
  BY <1>2 DEF AfterAnswer, BindTurn, Goto
<1>3. ASSUME NEW c \in Turn, TurnStarted(c) PROVE ReportsAgree' /\ InterruptReachesOwnTurn'
  BY <1>3 DEF TurnStarted, BindTurn, PendingOnlyInCall, InRequest, CallsKnowThread,
              callVars, bindVars
<1>4. ASSUME NEW t \in Turn, AfterFailure(t) PROVE ReportsAgree' /\ InterruptReachesOwnTurn'
  <2>1. t \in terminalTurnIds' /\ lastEvent'[t] = "completed"
    BY <1>4 DEF AfterFailure, EmitTurnCompleted
  <2>2. \A u \in Turn \ {t} : /\ u \in terminalTurnIds' <=> u \in terminalTurnIds
                              /\ lastEvent'[u] = lastEvent[u]
    BY <1>4 DEF AfterFailure, EmitTurnCompleted
  <2>3. codexByTurn' = codexByTurn /\ pc' = [pc EXCEPT ![t] = "done"]
    BY <1>4 DEF AfterFailure, EmitTurnCompleted, Goto
  <2> QED
    BY <2>1, <2>2, <2>3
<1>5. CASE \/ \E t \in Turn : TurnCompleted(t)
           \/ \E th \in Thread : ThreadStatusTerminal(th)
           \/ CodexExit
  <2>1. \A t \in Turn : pc'[t] = "done" => pc[t] = "done"
    BY <1>5 DEF TurnCompleted, ThreadStatusTerminal, CodexExit, callVars
  <2> HIDE DEF Inv, TypeOK, ReportsAgree, InterruptReachesOwnTurn
  <2>2. PICK S \in SUBSET Turn : Reported(S)
    BY <1>5, OnlyReports DEF ReportsKnown, Inv
  <2> QED
    BY <1>1, <2>1, <2>2
<1>6. ASSUME UNCHANGED <<codexByTurn, terminalTurnIds, lastEvent>>,
             \A t \in Turn : pc'[t] = "done" => pc[t] = "done"
      PROVE  ReportsAgree' /\ InterruptReachesOwnTurn'
  BY <1>6
<1>7. CASE \/ \E t \in Turn : \/ StartTurn(t) \/ CodexReady(t)
                              \/ AfterThread(t) \/ AfterNotFound(t)
                              \/ TurnStartAnswered(t) \/ TurnStartNotFound(t)
                              \/ TurnStartFails(t) \/ CodexAccepts(t)
           \/ \E c \in Conversation : ThreadStartFails(c)
           \/ \E c \in Conversation, th \in Thread : ThreadStarted(c, th)
           \/ \E th \in Thread : ThreadStartedNotification(th)
           \/ SyncThreads \/ SyncReconcile \/ SyncFails
           \/ UNCHANGED vars
  <2>1. UNCHANGED <<codexByTurn, terminalTurnIds, lastEvent>>
    BY <1>7 DEF StartTurn, CodexReady, AfterThread, AfterNotFound, TurnStartAnswered,
                TurnStartNotFound, TurnStartFails, CodexAccepts, ThreadStartFails,
                ThreadStarted, ThreadStartedNotification, SyncThreads, SyncReconcile,
                SyncFails, vars, bindVars
  <2>2. ASSUME NEW t \in Turn,
               \/ StartTurn(t) \/ CodexReady(t) \/ AfterThread(t) \/ AfterNotFound(t)
               \/ TurnStartAnswered(t) \/ TurnStartNotFound(t)
               \/ TurnStartFails(t) \/ CodexAccepts(t)
        PROVE  \A u \in Turn : pc'[u] = "done" => pc[u] = "done"
    BY <2>2 DEF StartTurn, CodexReady, AfterThread, AfterNotFound, TurnStartAnswered,
                TurnStartNotFound, TurnStartFails, CodexAccepts, Proceed, Goto, callVars
  <2>3. ASSUME \/ \E c \in Conversation : ThreadStartFails(c)
               \/ \E c \in Conversation, th \in Thread : ThreadStarted(c, th)
               \/ \E th \in Thread : ThreadStartedNotification(th)
               \/ SyncThreads \/ SyncReconcile \/ SyncFails
               \/ UNCHANGED vars
        PROVE  \A u \in Turn : pc'[u] = "done" => pc[u] = "done"
    BY <2>3 DEF ThreadStartFails, ThreadStarted, Ensuring, ThreadStartedNotification,
                SyncThreads, SyncReconcile, SyncFails, vars, callVars
  <2> QED
    BY <1>6, <1>7, <2>1, <2>2, <2>3
<1> HIDE DEF Inv, TypeOK, ReportsAgree, InterruptReachesOwnTurn
<1> QED
  BY <1>2, <1>3, <1>4, <1>5, <1>7 DEF Next, Continue

-----------------------------------------------------------------------------
(* The theorems. *)

\* The inductive invariant holds from the first state on.
LEMMA Invariance == Spec => []Inv
<1>1. Init => Inv
  <2> SUFFICES ASSUME Init PROVE Inv
    OBVIOUS
  <2> USE ConstantsAssumption DEF Init
  <2>1. TypeOK
    BY DEF TypeOK, CallState, OptTurn, OptThread, CodexTurnState
  <2>2. CallsKnowThread
    BY DEF CallsKnowThread, InRequest
  <2>3. PendingOnlyInCall
    BY DEF PendingOnlyInCall
  <2>4. Isolation
    BY DEF Isolation
  <2>5. ReportsAgree /\ InterruptReachesOwnTurn
    BY DEF ReportsAgree, InterruptReachesOwnTurn
  <2> QED
    BY <2>1, <2>2, <2>3, <2>4, <2>5 DEF Inv
<1>2. Inv /\ [Next]_vars => Inv'
  BY TypeStep, CallsStep, PendingStep, IsolationStep, ReportsStep DEF Inv
<1> QED
  BY <1>1, <1>2, PTL DEF Spec

\* No pending entry outlives the request it was registered for: a later codex
\* turn on the thread is never bound to a call that has failed or ended.
THEOREM PendingCorrect == Spec => []PendingOnlyInCall
<1>1. Inv => PendingOnlyInCall
  BY DEF Inv
<1> QED
  BY <1>1, Invariance, PTL

\* Nothing codex does in a thread is ever attributed to another conversation.
THEOREM IsolationCorrect == Spec => []Isolation
<1>1. Inv => Isolation
  BY DEF Inv
<1> QED
  BY <1>1, Invariance, PTL

\* An interrupt always names the codex turn that the interrupted turn created.
THEOREM InterruptCorrect == Spec => []InterruptReachesOwnTurn
<1>1. Inv => InterruptReachesOwnTurn
  BY DEF Inv
<1> QED
  BY <1>1, Invariance, PTL

\* What suppresses repeated completions is what the hub was told.
THEOREM ReportsCorrect == Spec => []ReportsAgree
<1>1. Inv => ReportsAgree
  BY DEF Inv
<1> QED
  BY <1>1, Invariance, PTL

\* A completed turn whose startTurn call has ended is not reported again by a step.
LEMMA FinalStep ==
  ASSUME Inv, [Next]_vars, NEW t \in Turn, pc[t] = "done", lastEvent[t] = "completed"
  PROVE  lastEvent'[t] = "completed"
<1> USE ConstantsAssumption DEF Inv, TypeOK, OptTurn, OptThread
<1>1. ASSUME NEW u \in Turn, AfterAnswer(u) PROVE lastEvent'[t] = "completed"
  BY <1>1 DEF AfterAnswer, BindTurn
<1>2. ASSUME NEW c \in Turn, TurnStarted(c) PROVE lastEvent'[t] = "completed"
  BY <1>2 DEF TurnStarted, BindTurn, PendingOnlyInCall, InRequest, bindVars
<1>3. CASE \/ \E u \in Turn : AfterFailure(u) \/ TurnCompleted(u)
           \/ \E th \in Thread : ThreadStatusTerminal(th)
           \/ CodexExit
  <2>1. PICK S \in SUBSET Turn : Reported(S)
    <3> HIDE DEF Inv, TypeOK
    <3> QED
      BY <1>3, OnlyReports DEF ReportsKnown, Inv
  <2> QED
    BY <2>1 DEF Reported
<1>4. CASE \/ \E u \in Turn : \/ StartTurn(u) \/ CodexReady(u)
                              \/ AfterThread(u) \/ AfterNotFound(u)
                              \/ TurnStartAnswered(u) \/ TurnStartNotFound(u)
                              \/ TurnStartFails(u) \/ CodexAccepts(u)
           \/ \E c \in Conversation : ThreadStartFails(c)
           \/ \E c \in Conversation, th \in Thread : ThreadStarted(c, th)
           \/ \E th \in Thread : ThreadStartedNotification(th)
           \/ SyncThreads \/ SyncReconcile \/ SyncFails \/ UNCHANGED vars
  <2>1. lastEvent' = lastEvent
    BY <1>4 DEF StartTurn, CodexReady, AfterThread, AfterNotFound, TurnStartAnswered,
                TurnStartNotFound, TurnStartFails, CodexAccepts, ThreadStartFails,
                ThreadStarted, ThreadStartedNotification, SyncThreads, SyncReconcile,
                SyncFails, bindVars, vars
  <2> QED
    BY <2>1
<1> HIDE DEF Inv, TypeOK
<1> QED
  BY <1>1, <1>2, <1>3, <1>4 DEF Next, Continue

\* A completed turn whose startTurn call has ended is never reopened.
THEOREM CompletedStays == Spec => CompletedIsFinal
<1> DEFINE Final == \A t \in Turn : pc[t] = "done" /\ lastEvent[t] = "completed"
                                      => lastEvent'[t] = "completed"
<1>1. Inv /\ [Next]_vars => [Final]_vars
  BY FinalStep
<1> QED
  BY <1>1, Invariance, PTL DEF Spec, CompletedIsFinal

-----------------------------------------------------------------------------
(* The manager implements AgentTurn.  The mapping reads a turn's phase off   *)
(* its startTurn call and the last report about it, so the steps to exclude  *)
(* are the ones that report a turn before it was given or after it is over.  *)

\* A turn that was not given is in none of the maps.
IdleUnknown ==
  \A t \in Turn : pc[t] = "idle" =>
    /\ lastEvent[t] = "none"
    /\ \A th \in Thread : activeTurnByThread[th] # t
    /\ \A c \in Turn : turnByCodex[c] # t

\* What a step may do with the call and the report of a turn.
TurnStep(t) ==
  /\ pc[t] = "done" => pc'[t] = "done"
  /\ pc[t] # "idle" => pc'[t] # "idle"
  /\ lastEvent[t] # "none" => lastEvent'[t] # "none"
  /\ pc[t] = "idle" => lastEvent'[t] = "none"

\* bindTurn is called for a turn that was given.
LEMMA BindStep ==
  ASSUME TypeOK, IdleUnknown, NEW th \in Thread, NEW c \in Turn, NEW t \in Turn,
         pc[t] # "idle", BindTurn(th, c, t),
         \A u \in Turn : pc'[u] = IF u = t THEN pc'[t] ELSE pc[u],
         pc'[t] \in {pc[t], "done"}
  PROVE  IdleUnknown' /\ \A u \in Turn : TurnStep(u)
<1> USE DEF TypeOK, IdleUnknown
<1>1. /\ lastEvent' = [lastEvent EXCEPT ![t] = "started"]
      /\ activeTurnByThread' = [activeTurnByThread EXCEPT ![th] = t]
      /\ turnByCodex' = [turnByCodex EXCEPT ![c] = t]
  BY DEF BindTurn
<1>2. \A u \in Turn : TurnStep(u)
  BY <1>1 DEF TurnStep
<1>3. IdleUnknown'
  BY <1>1
<1> QED
  BY <1>2, <1>3

\* A step that reports only turns that were given.
LEMMA ReportStep ==
  ASSUME TypeOK, IdleUnknown, NEW S \in SUBSET Turn, Reported(S),
         \A t \in S : pc[t] # "idle",
         \A t \in Turn : /\ pc[t] = "done" => pc'[t] = "done"
                         /\ pc[t] # "idle" <=> pc'[t] # "idle"
  PROVE  IdleUnknown' /\ \A u \in Turn : TurnStep(u)
<1> USE DEF TypeOK, IdleUnknown
<1>1. ASSUME NEW t \in Turn PROVE TurnStep(t)
  BY DEF TurnStep, Reported
<1>2. ASSUME NEW t \in Turn, pc'[t] = "idle"
      PROVE  /\ lastEvent'[t] = "none"
             /\ \A th \in Thread : activeTurnByThread'[th] # t
             /\ \A c \in Turn : turnByCodex'[c] # t
  <2>1. pc[t] = "idle" /\ t \notin S
    BY <1>2
  <2>2. t # NoTurn
    BY ConstantsAssumption
  <2> QED
    BY <2>1, <2>2 DEF Reported
<1> QED
  BY <1>1, <1>2

\* Every step of the manager is one that AgentTurn's phases allow.
LEMMA GivenStep ==
  ASSUME Inv, IdleUnknown, [Next]_vars
  PROVE  IdleUnknown' /\ \A t \in Turn : TurnStep(t)
<1> USE ConstantsAssumption
<1>0. TypeOK /\ TypeOK' /\ PendingOnlyInCall /\ ReportsAgree
  BY TypeStep DEF Inv
<1>1. ASSUME NEW t \in Turn, AfterAnswer(t)
      PROVE  IdleUnknown' /\ \A u \in Turn : TurnStep(u)
  <2>1. threadOf[t] \in Thread
    BY <1>1 DEF AfterAnswer, Inv, CallsKnowThread, InRequest
  <2>2. BindTurn(threadOf[t], t, t) /\ pc' = [pc EXCEPT ![t] = "done"] /\ pc[t] # "idle"
    BY <1>1 DEF AfterAnswer, Goto
  <2> QED
    BY <1>0, <2>1, <2>2, BindStep DEF TypeOK
<1>2. ASSUME NEW c \in Turn, TurnStarted(c)
      PROVE  IdleUnknown' /\ \A u \in Turn : TurnStep(u)
  <2> DEFINE th == threadOf[c]
             t  == pendingTurnByThread[th]
  <2>1. CASE th \in loaded /\ t # NoTurn
    <3>1. th \in Thread /\ t \in Turn /\ pc' = pc
      BY <1>0, <1>2, <2>1 DEF TypeOK, OptTurn, TurnStarted, callVars
    <3>2. BindTurn(th, c, t)
      BY <1>2, <2>1 DEF TurnStarted
    <3>3. pc[t] # "idle"
      BY <1>0, <3>1 DEF PendingOnlyInCall, InRequest
    <3> HIDE DEF th, t
    <3> QED
      BY <1>0, <3>1, <3>2, <3>3, BindStep
  <2>2. CASE ~(th \in loaded /\ t # NoTurn)
    <3>1. UNCHANGED bindVars /\ UNCHANGED callVars
      BY <1>2, <2>2 DEF TurnStarted
    <3> QED
      BY <3>1 DEF bindVars, callVars, IdleUnknown, TurnStep
  <2> QED
    BY <2>1, <2>2
<1>3. CASE \/ \E t \in Turn : AfterFailure(t) \/ TurnCompleted(t)
           \/ \E th \in Thread : ThreadStatusTerminal(th)
           \/ CodexExit
  <2>1. PICK S \in SUBSET Turn : Reported(S) /\ \A t \in S : Known(t)
    BY <1>0, <1>3, OnlyReports DEF ReportsKnown
  <2>2. \A t \in S : pc[t] # "idle"
    BY <1>0, <2>1 DEF Known, IdleUnknown, PendingOnlyInCall, InRequest
  <2>3. \A t \in Turn : /\ pc[t] = "done" => pc'[t] = "done"
                        /\ pc[t] # "idle" <=> pc'[t] # "idle"
    <3>1. ASSUME NEW u \in Turn, AfterFailure(u)
          PROVE  pc' = [pc EXCEPT ![u] = "done"] /\ pc[u] # "idle"
      BY <3>1 DEF AfterFailure, Goto
    <3>2. ASSUME \/ \E t \in Turn : TurnCompleted(t)
                 \/ \E th \in Thread : ThreadStatusTerminal(th)
          PROVE  pc' = pc
      BY <3>2 DEF TurnCompleted, ThreadStatusTerminal, callVars
    <3>3. CASE CodexExit
      BY <3>3 DEF CodexExit
    <3> QED
      BY <1>0, <1>3, <3>1, <3>2, <3>3 DEF TypeOK
  <2> QED
    BY <1>0, <2>1, <2>2, <2>3, ReportStep
<1>4. CASE \/ \E t \in Turn : \/ StartTurn(t) \/ CodexReady(t)
                              \/ AfterThread(t) \/ AfterNotFound(t)
                              \/ TurnStartAnswered(t) \/ TurnStartNotFound(t)
                              \/ TurnStartFails(t) \/ CodexAccepts(t)
           \/ \E c \in Conversation : ThreadStartFails(c)
           \/ \E c \in Conversation, th \in Thread : ThreadStarted(c, th)
           \/ \E th \in Thread : ThreadStartedNotification(th)
           \/ SyncThreads \/ SyncReconcile \/ SyncFails \/ UNCHANGED vars
  <2>1. UNCHANGED <<turnByCodex, activeTurnByThread, lastEvent>>
    BY <1>4 DEF StartTurn, CodexReady, AfterThread, AfterNotFound, TurnStartAnswered,
                TurnStartNotFound, TurnStartFails, CodexAccepts, ThreadStartFails,
                ThreadStarted, ThreadStartedNotification, SyncThreads, SyncReconcile,
                SyncFails, bindVars, vars
  <2>2. ASSUME NEW u \in Turn
        PROVE  /\ pc[u] = "done" => pc'[u] = "done"
               /\ pc[u] # "idle" => pc'[u] # "idle"
    <3>1. ASSUME NEW t \in Turn,
                 \/ StartTurn(t) \/ CodexReady(t) \/ AfterThread(t) \/ AfterNotFound(t)
                 \/ TurnStartAnswered(t) \/ TurnStartNotFound(t) \/ TurnStartFails(t)
          PROVE  \E to : /\ pc' = [pc EXCEPT ![t] = to] /\ to # "idle" /\ pc[t] # "done"
      BY <3>1 DEF StartTurn, CodexReady, AfterThread, AfterNotFound, TurnStartAnswered,
                  TurnStartNotFound, TurnStartFails, Proceed, Goto
    <3>2. ASSUME \/ \E t \in Turn : CodexAccepts(t)
                 \/ \E th \in Thread : ThreadStartedNotification(th)
                 \/ SyncThreads \/ SyncReconcile \/ SyncFails \/ UNCHANGED vars
          PROVE  pc' = pc
      BY <3>2 DEF CodexAccepts, ThreadStartedNotification, SyncThreads, SyncReconcile,
                  SyncFails, vars, callVars
    <3>3. ASSUME NEW c \in Conversation,
                 ThreadStartFails(c) \/ \E th \in Thread : ThreadStarted(c, th)
          PROVE  /\ pc[u] = "done" => pc'[u] = "done"
                 /\ pc[u] # "idle" => pc'[u] # "idle"
      BY <3>3 DEF ThreadStartFails, ThreadStarted, Ensuring
    <3> QED
      BY <1>0, <1>4, <3>1, <3>2, <3>3 DEF TypeOK
  <2> QED
    BY <2>1, <2>2 DEF IdleUnknown, TurnStep
<1> QED
  BY <1>1, <1>2, <1>3, <1>4 DEF Next, Continue

\* A step of a turn's call and report is a step of its phase.
LEMMA PhaseStep ==
  ASSUME Inv, Inv', IdleUnknown, IdleUnknown', [Next]_vars, NEW t \in Turn,
         TurnStep(t), PhaseOf(t)' # PhaseOf(t)
  PROVE  <<PhaseOf(t), PhaseOf(t)'>> \in Agent!Follows
<1>1. pc[t] = "done" /\ lastEvent[t] = "completed" => lastEvent'[t] = "completed"
  BY FinalStep
<1>2. /\ lastEvent[t] \in {"none", "started", "completed"}
      /\ lastEvent'[t] \in {"none", "started", "completed"}
      /\ pc[t] = "done" => lastEvent[t] # "none"
      /\ pc'[t] = "done" => lastEvent'[t] # "none"
      /\ pc[t] = "idle" => lastEvent[t] = "none"
      /\ pc'[t] = "idle" => lastEvent'[t] = "none"
  BY DEF Inv, TypeOK, ReportsAgree, IdleUnknown
<1> QED
  BY <1>1, <1>2 DEF TurnStep, PhaseOf, Agent!Follows

\* The manager implements AgentTurn.
THEOREM AgentTurnImplemented == Spec => ImplementsAgentTurn
<1>1. Init => Agent!Init /\ IdleUnknown
  <2> SUFFICES ASSUME Init PROVE Agent!Init /\ IdleUnknown
    OBVIOUS
  <2>1. \A t \in Turn : PhaseOf(t) = "none"
    BY DEF Init, PhaseOf
  <2> QED
    BY <2>1, ConstantsAssumption DEF Agent!Init, Init, IdleUnknown
<1>2. Inv /\ Inv' /\ IdleUnknown /\ [Next]_vars
        => IdleUnknown' /\ [Agent!Next]_([t \in Turn |-> PhaseOf(t)])
  <2> SUFFICES ASSUME Inv, Inv', IdleUnknown, [Next]_vars
               PROVE  IdleUnknown' /\ Agent!Next
    OBVIOUS
  <2>1. IdleUnknown' /\ \A t \in Turn : TurnStep(t)
    BY GivenStep
  <2>2. \A t \in Turn : PhaseOf(t)' # PhaseOf(t)
                          => <<PhaseOf(t), PhaseOf(t)'>> \in Agent!Follows
    BY <2>1, PhaseStep
  <2>3. \A t \in Turn : PhaseOf(t)' \in Agent!Phase
    BY DEF PhaseOf, Agent!Phase
  <2> QED
    BY <2>1, <2>2, <2>3 DEF Agent!Next
<1> QED
  BY <1>1, <1>2, Invariance, PTL DEF Spec, ImplementsAgentTurn, Agent!Spec
=============================================================================
