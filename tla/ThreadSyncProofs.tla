-------------------------- MODULE ThreadSyncProofs --------------------------
(* Proofs about ThreadSync, for any threads, synchronisations and bounds.    *)
EXTENDS ThreadSync, TLAPS

Active(s) == sync[s] \notin {"idle", "done"}

\* One synchronisation runs at a time, with the lock.
OneSync ==
  /\ \A s \in Syncs : Active(s) => locked
  /\ \A s, q \in Syncs : Active(s) /\ Active(q) => s = q

\* Only threads that codex has are listed, made conversations for and bound.
OnDisk ==
  /\ \A s \in Syncs : listed[s] \subseteq onDisk
  /\ \A s \in Syncs : sync[s] = "binding" => making[s] \in onDisk \ listed[s]
  /\ \A c \in Conversation : bound[c] # None => bound[c] \in onDisk

Bound(t) == \E c \in Conversation : bound[c] = t

\* A thread whose report is on its way is bound to nothing yet,
ReportedIsFree == \A t \in reports \ unreported : ~Bound(t)

\* nor is one that the synchronisation will bind, and no report will bind that one.
ToBind(s) ==
  IF sync[s] = "importing" THEN listed[s] \ known[s]
  ELSE IF sync[s] = "binding" THEN (listed[s] \ known[s]) \union {making[s]}
  ELSE {}

ListedIsFree ==
  \A s \in Syncs : \A t \in ToBind(s) \ unreported : t \notin reports /\ ~Bound(t)

SyncInv ==
  TypeOK /\ OneSync /\ OnDisk /\ ReportedIsFree /\ ListedIsFree /\ BoundOnce

-----------------------------------------------------------------------------
\* The start.
LEMMA InitSyncInv ==
  ASSUME MaxConversations \in Nat, MaxFailures \in Nat, None \notin Threads, Init
  PROVE  SyncInv
<1>1. TypeOK
  <2>1. /\ convs \in 0 .. MaxConversations /\ bound \in [Conversation -> Threads \union {None}]
        /\ starter \in [Threads -> 0 .. MaxConversations]
    BY DEF Init
  <2>2. /\ sync \in [Syncs -> Stage] /\ listed \in [Syncs -> SUBSET Threads]
        /\ known \in [Syncs -> SUBSET Threads] /\ making \in [Syncs -> Threads \union {None}]
        /\ made \in [Syncs -> 0 .. MaxConversations]
    BY DEF Init, Stage
  <2>3. locked \in BOOLEAN /\ paused \in BOOLEAN
    BY DEF Init
  <2>5. syncFailures \in 0 .. MaxFailures
    BY DEF Init
  <2>4. onDisk \subseteq Threads /\ reports \subseteq onDisk /\ unreported \subseteq onDisk
    BY DEF Init
  <2> QED
    BY <2>1, <2>2, <2>3, <2>4, <2>5 DEF TypeOK
<1>2. OneSync /\ OnDisk
  BY DEF Init, OneSync, Active, OnDisk
<1>3. ReportedIsFree /\ ListedIsFree /\ BoundOnce
  BY DEF Init, ReportedIsFree, ListedIsFree, ToBind, BoundOnce
<1> QED
  BY <1>1, <1>2, <1>3 DEF SyncInv

\* A conversation that is created is bound to nothing.
LEMMA CreateKeeps ==
  ASSUME MaxConversations \in Nat, MaxFailures \in Nat, None \notin Threads, SyncInv,
         CreateConversation
  PROVE  SyncInv'
<1> USE DEF SyncInv, CreateConversation, codexVars, conversationVars, syncVars, Stage, Conversation
<1>1. TypeOK'
  <2>1. /\ convs' \in 0 .. MaxConversations /\ bound' \in [Conversation -> Threads \union {None}]
        /\ starter' \in [Threads -> 0 .. MaxConversations]
    BY DEF TypeOK
  <2>2. sync' \in [Syncs -> Stage] /\ made' \in [Syncs -> 0 .. MaxConversations]
    BY DEF TypeOK
  <2>5. listed' \in [Syncs -> SUBSET Threads] /\ known' \in [Syncs -> SUBSET Threads]
    BY DEF TypeOK, OnDisk
  <2>6. making' \in [Syncs -> Threads \union {None}]
    BY DEF TypeOK
  <2>3. locked' \in BOOLEAN /\ paused' \in BOOLEAN
    BY DEF TypeOK
  <2>7. syncFailures' \in 0 .. MaxFailures
    BY DEF TypeOK
  <2>4. onDisk' \subseteq Threads /\ reports' \subseteq onDisk' /\ unreported' \subseteq onDisk'
    BY DEF TypeOK
  <2> QED
    BY <2>1, <2>2, <2>3, <2>4, <2>5, <2>6, <2>7 DEF TypeOK
<1>2. OneSync'
  BY DEF TypeOK, OneSync, Active
<1>3. OnDisk'
  BY DEF TypeOK, OnDisk
<1>4. ReportedIsFree'
  BY DEF TypeOK, OnDisk, ReportedIsFree, ListedIsFree, ToBind, Bound
<1>5. ListedIsFree'
  BY DEF TypeOK, OneSync, Active, OnDisk, ReportedIsFree, ListedIsFree, ToBind, Bound
<1>6. BoundOnce'
  BY DEF TypeOK, ReportedIsFree, ListedIsFree, ToBind, Bound, BoundOnce
<1> QED
  BY <1>1, <1>2, <1>3, <1>4, <1>5, <1>6

\* The end of a pause changes none of it.
LEMMA CooldownKeeps ==
  ASSUME MaxConversations \in Nat, MaxFailures \in Nat, None \notin Threads, SyncInv,
         CooldownEnds
  PROVE  SyncInv'
<1> USE DEF SyncInv, CooldownEnds, codexVars, conversationVars, syncVars, Stage, Conversation
<1>1. TypeOK'
  <2>1. /\ convs' \in 0 .. MaxConversations /\ bound' \in [Conversation -> Threads \union {None}]
        /\ starter' \in [Threads -> 0 .. MaxConversations]
    BY DEF TypeOK
  <2>2. sync' \in [Syncs -> Stage] /\ made' \in [Syncs -> 0 .. MaxConversations]
    BY DEF TypeOK
  <2>5. listed' \in [Syncs -> SUBSET Threads] /\ known' \in [Syncs -> SUBSET Threads]
    BY DEF TypeOK, OnDisk
  <2>6. making' \in [Syncs -> Threads \union {None}]
    BY DEF TypeOK
  <2>3. locked' \in BOOLEAN /\ paused' \in BOOLEAN
    BY DEF TypeOK
  <2>7. syncFailures' \in 0 .. MaxFailures
    BY DEF TypeOK
  <2>4. onDisk' \subseteq Threads /\ reports' \subseteq onDisk' /\ unreported' \subseteq onDisk'
    BY DEF TypeOK
  <2> QED
    BY <2>1, <2>2, <2>3, <2>4, <2>5, <2>6, <2>7 DEF TypeOK
<1>2. OneSync'
  BY DEF TypeOK, OneSync, Active
<1>3. OnDisk'
  BY DEF TypeOK, OnDisk
<1>4. ReportedIsFree'
  BY DEF TypeOK, OnDisk, ReportedIsFree, ListedIsFree, ToBind, Bound
<1>5. ListedIsFree'
  BY DEF TypeOK, OneSync, Active, OnDisk, ReportedIsFree, ListedIsFree, ToBind, Bound
<1>6. BoundOnce'
  BY DEF TypeOK, ReportedIsFree, ListedIsFree, ToBind, Bound, BoundOnce
<1> QED
  BY <1>1, <1>2, <1>3, <1>4, <1>5, <1>6

\* A restart ends every synchronisation.
LEMMA RestartSyncKeeps ==
  ASSUME MaxConversations \in Nat, MaxFailures \in Nat, None \notin Threads, SyncInv,
         RestartSync
  PROVE  SyncInv'
<1> USE DEF SyncInv, RestartSync, codexVars, conversationVars, syncVars, Stage, Conversation
<1>1. TypeOK'
  <2>1. /\ convs' \in 0 .. MaxConversations /\ bound' \in [Conversation -> Threads \union {None}]
        /\ starter' \in [Threads -> 0 .. MaxConversations]
    BY DEF TypeOK
  <2>2. sync' \in [Syncs -> Stage] /\ made' \in [Syncs -> 0 .. MaxConversations]
    BY DEF TypeOK
  <2>5. listed' \in [Syncs -> SUBSET Threads] /\ known' \in [Syncs -> SUBSET Threads]
    BY DEF TypeOK, OnDisk
  <2>6. making' \in [Syncs -> Threads \union {None}]
    BY DEF TypeOK
  <2>3. locked' \in BOOLEAN /\ paused' \in BOOLEAN
    BY DEF TypeOK
  <2>7. syncFailures' \in 0 .. MaxFailures
    BY DEF TypeOK
  <2>4. onDisk' \subseteq Threads /\ reports' \subseteq onDisk' /\ unreported' \subseteq onDisk'
    BY DEF TypeOK
  <2> QED
    BY <2>1, <2>2, <2>3, <2>4, <2>5, <2>6, <2>7 DEF TypeOK
<1>2. OneSync'
  BY DEF TypeOK, OneSync, Active
<1>3. OnDisk'
  BY DEF TypeOK, OnDisk
<1>4. ReportedIsFree'
  BY DEF TypeOK, OnDisk, ReportedIsFree, ListedIsFree, ToBind, Bound
<1>5. ListedIsFree'
  BY DEF TypeOK, OneSync, Active, OnDisk, ReportedIsFree, ListedIsFree, ToBind, Bound
<1>6. BoundOnce'
  BY DEF TypeOK, ReportedIsFree, ListedIsFree, ToBind, Bound, BoundOnce
<1> QED
  BY <1>1, <1>2, <1>3, <1>4, <1>5, <1>6

\* A thread that is new to codex is not listed or bound.
LEMMA DesktopKeeps ==
  ASSUME MaxConversations \in Nat, MaxFailures \in Nat, None \notin Threads, SyncInv,
         NEW t \in Threads, DesktopThread(t)
  PROVE  SyncInv'
<1> USE DEF SyncInv, DesktopThread, codexVars, conversationVars, syncVars, Stage, Conversation
<1>1. TypeOK'
  <2>1. /\ convs' \in 0 .. MaxConversations /\ bound' \in [Conversation -> Threads \union {None}]
        /\ starter' \in [Threads -> 0 .. MaxConversations]
    BY DEF TypeOK
  <2>2. sync' \in [Syncs -> Stage] /\ made' \in [Syncs -> 0 .. MaxConversations]
    BY DEF TypeOK
  <2>5. listed' \in [Syncs -> SUBSET Threads] /\ known' \in [Syncs -> SUBSET Threads]
    BY DEF TypeOK, OnDisk
  <2>6. making' \in [Syncs -> Threads \union {None}]
    BY DEF TypeOK
  <2>3. locked' \in BOOLEAN /\ paused' \in BOOLEAN
    BY DEF TypeOK
  <2>7. syncFailures' \in 0 .. MaxFailures
    BY DEF TypeOK
  <2>4. onDisk' \subseteq Threads /\ reports' \subseteq onDisk' /\ unreported' \subseteq onDisk'
    BY DEF TypeOK
  <2> QED
    BY <2>1, <2>2, <2>3, <2>4, <2>5, <2>6, <2>7 DEF TypeOK
<1>2. OneSync'
  BY DEF TypeOK, OneSync, Active
<1>3. OnDisk'
  BY DEF TypeOK, OnDisk
<1>4. ReportedIsFree'
  BY DEF TypeOK, OnDisk, ReportedIsFree, ListedIsFree, ToBind, Bound
<1>5. ListedIsFree'
  BY DEF TypeOK, OneSync, Active, OnDisk, ReportedIsFree, ListedIsFree, ToBind, Bound
<1>6. BoundOnce'
  BY DEF TypeOK, ReportedIsFree, ListedIsFree, ToBind, Bound, BoundOnce
<1> QED
  BY <1>1, <1>2, <1>3, <1>4, <1>5, <1>6

\* A report binds a thread that nothing was bound to.
LEMMA ReportKeeps ==
  ASSUME MaxConversations \in Nat, MaxFailures \in Nat, None \notin Threads, SyncInv,
         NEW t \in Threads, ThreadStartedWritten(t)
  PROVE  SyncInv'
<1> USE DEF SyncInv, ThreadStartedWritten, codexVars, conversationVars, syncVars, Stage, Conversation
<1>1. TypeOK'
  <2>1. /\ convs' \in 0 .. MaxConversations /\ bound' \in [Conversation -> Threads \union {None}]
        /\ starter' \in [Threads -> 0 .. MaxConversations]
    BY DEF TypeOK
  <2>2. sync' \in [Syncs -> Stage] /\ made' \in [Syncs -> 0 .. MaxConversations]
    BY DEF TypeOK
  <2>5. listed' \in [Syncs -> SUBSET Threads] /\ known' \in [Syncs -> SUBSET Threads]
    BY DEF TypeOK, OnDisk
  <2>6. making' \in [Syncs -> Threads \union {None}]
    BY DEF TypeOK
  <2>3. locked' \in BOOLEAN /\ paused' \in BOOLEAN
    BY DEF TypeOK
  <2>7. syncFailures' \in 0 .. MaxFailures
    BY DEF TypeOK
  <2>4. onDisk' \subseteq Threads /\ reports' \subseteq onDisk' /\ unreported' \subseteq onDisk'
    BY DEF TypeOK
  <2> QED
    BY <2>1, <2>2, <2>3, <2>4, <2>5, <2>6, <2>7 DEF TypeOK
<1>2. OneSync'
  BY DEF TypeOK, OneSync, Active
<1>3. OnDisk'
  BY DEF TypeOK, OnDisk
<1>4. ReportedIsFree'
  BY DEF TypeOK, OnDisk, ReportedIsFree, ListedIsFree, ToBind, Bound
<1>5. ListedIsFree'
  BY DEF TypeOK, OneSync, Active, OnDisk, ReportedIsFree, ListedIsFree, ToBind, Bound
<1>6. BoundOnce'
  BY DEF TypeOK, ReportedIsFree, ListedIsFree, ToBind, Bound, BoundOnce
<1> QED
  BY <1>1, <1>2, <1>3, <1>4, <1>5, <1>6

\* The thread of a first turn is new.
LEMMA FirstTurnKeeps ==
  ASSUME MaxConversations \in Nat, MaxFailures \in Nat, None \notin Threads, SyncInv,
         NEW c \in Conversation, NEW t \in Threads, FirstTurn(c, t)
  PROVE  SyncInv'
<1> USE DEF SyncInv, FirstTurn, codexVars, conversationVars, syncVars, Stage, Conversation
<1>1. TypeOK'
  <2>1. /\ convs' \in 0 .. MaxConversations /\ bound' \in [Conversation -> Threads \union {None}]
        /\ starter' \in [Threads -> 0 .. MaxConversations]
    BY DEF TypeOK
  <2>2. sync' \in [Syncs -> Stage] /\ made' \in [Syncs -> 0 .. MaxConversations]
    BY DEF TypeOK
  <2>5. listed' \in [Syncs -> SUBSET Threads] /\ known' \in [Syncs -> SUBSET Threads]
    BY DEF TypeOK, OnDisk
  <2>6. making' \in [Syncs -> Threads \union {None}]
    BY DEF TypeOK
  <2>3. locked' \in BOOLEAN /\ paused' \in BOOLEAN
    BY DEF TypeOK
  <2>7. syncFailures' \in 0 .. MaxFailures
    BY DEF TypeOK
  <2>4. onDisk' \subseteq Threads /\ reports' \subseteq onDisk' /\ unreported' \subseteq onDisk'
    BY DEF TypeOK
  <2> QED
    BY <2>1, <2>2, <2>3, <2>4, <2>5, <2>6, <2>7 DEF TypeOK
<1>2. OneSync'
  BY DEF TypeOK, OneSync, Active
<1>3. OnDisk'
  BY DEF TypeOK, OnDisk
<1>4. ReportedIsFree'
  BY DEF TypeOK, OnDisk, ReportedIsFree, ListedIsFree, ToBind, Bound
<1>5. ListedIsFree'
  BY DEF TypeOK, OneSync, Active, OnDisk, ReportedIsFree, ListedIsFree, ToBind, Bound
<1>6. BoundOnce'
  BY DEF TypeOK, ReportedIsFree, ListedIsFree, ToBind, Bound, BoundOnce
<1> QED
  BY <1>1, <1>2, <1>3, <1>4, <1>5, <1>6

\* A synchronisation begins when no other runs.
LEMMA BeginKeeps ==
  ASSUME MaxConversations \in Nat, MaxFailures \in Nat, None \notin Threads, SyncInv,
         NEW s \in Syncs, Begin(s)
  PROVE  SyncInv'
<1> USE DEF SyncInv, Begin, MayImport, codexVars, conversationVars, syncVars, Stage, Conversation
<1>1. TypeOK'
  <2>1. /\ convs' \in 0 .. MaxConversations /\ bound' \in [Conversation -> Threads \union {None}]
        /\ starter' \in [Threads -> 0 .. MaxConversations]
    BY DEF TypeOK
  <2>2. sync' \in [Syncs -> Stage] /\ made' \in [Syncs -> 0 .. MaxConversations]
    BY DEF TypeOK
  <2>5. listed' \in [Syncs -> SUBSET Threads] /\ known' \in [Syncs -> SUBSET Threads]
    BY DEF TypeOK, OnDisk
  <2>6. making' \in [Syncs -> Threads \union {None}]
    BY DEF TypeOK
  <2>3. locked' \in BOOLEAN /\ paused' \in BOOLEAN
    BY DEF TypeOK
  <2>7. syncFailures' \in 0 .. MaxFailures
    BY DEF TypeOK
  <2>4. onDisk' \subseteq Threads /\ reports' \subseteq onDisk' /\ unreported' \subseteq onDisk'
    BY DEF TypeOK
  <2> QED
    BY <2>1, <2>2, <2>3, <2>4, <2>5, <2>6, <2>7 DEF TypeOK
<1>2. OneSync'
  BY DEF TypeOK, OneSync, Active
<1>3. OnDisk'
  BY DEF TypeOK, OnDisk
<1>4. ReportedIsFree'
  BY DEF TypeOK, OnDisk, ReportedIsFree, ListedIsFree, ToBind, Bound
<1>5. ListedIsFree'
  BY DEF TypeOK, OneSync, Active, OnDisk, ReportedIsFree, ListedIsFree, ToBind, Bound
<1>6. BoundOnce'
  BY DEF TypeOK, ReportedIsFree, ListedIsFree, ToBind, Bound, BoundOnce
<1> QED
  BY <1>1, <1>2, <1>3, <1>4, <1>5, <1>6

\* What it lists is on the disk.
LEMMA ListedKeeps ==
  ASSUME MaxConversations \in Nat, MaxFailures \in Nat, None \notin Threads, SyncInv,
         NEW s \in Syncs, ThreadsListed(s)
  PROVE  SyncInv'
<1> USE DEF SyncInv, ThreadsListed, codexVars, conversationVars, syncVars, Stage, Conversation
<1>1. TypeOK'
  <2>1. /\ convs' \in 0 .. MaxConversations /\ bound' \in [Conversation -> Threads \union {None}]
        /\ starter' \in [Threads -> 0 .. MaxConversations]
    BY DEF TypeOK
  <2>2. sync' \in [Syncs -> Stage] /\ made' \in [Syncs -> 0 .. MaxConversations]
    BY DEF TypeOK
  <2>5. listed' \in [Syncs -> SUBSET Threads] /\ known' \in [Syncs -> SUBSET Threads]
    BY DEF TypeOK, OnDisk
  <2>6. making' \in [Syncs -> Threads \union {None}]
    BY DEF TypeOK
  <2>3. locked' \in BOOLEAN /\ paused' \in BOOLEAN
    BY DEF TypeOK
  <2>7. syncFailures' \in 0 .. MaxFailures
    BY DEF TypeOK
  <2>4. onDisk' \subseteq Threads /\ reports' \subseteq onDisk' /\ unreported' \subseteq onDisk'
    BY DEF TypeOK
  <2> QED
    BY <2>1, <2>2, <2>3, <2>4, <2>5, <2>6, <2>7 DEF TypeOK
<1>2. OneSync'
  BY DEF TypeOK, OneSync, Active
<1>3. OnDisk'
  BY DEF TypeOK, OnDisk
<1>4. ReportedIsFree'
  BY DEF TypeOK, OnDisk, ReportedIsFree, ListedIsFree, ToBind, Bound
<1>5. ListedIsFree'
  BY DEF TypeOK, OneSync, Active, OnDisk, ReportedIsFree, ListedIsFree, ToBind, Bound
<1>6. BoundOnce'
  BY DEF TypeOK, ReportedIsFree, ListedIsFree, ToBind, Bound, BoundOnce
<1> QED
  BY <1>1, <1>2, <1>3, <1>4, <1>5, <1>6

\* What it finds bound to nothing it may bind, unless a report is on its way.
LEMMA ReadKeeps ==
  ASSUME MaxConversations \in Nat, MaxFailures \in Nat, None \notin Threads, SyncInv,
         NEW s \in Syncs, ReadConversations(s)
  PROVE  SyncInv'
<1> USE DEF SyncInv, ReadConversations, codexVars, conversationVars, syncVars, Stage, Conversation
<1>1. TypeOK'
  <2>1. /\ convs' \in 0 .. MaxConversations /\ bound' \in [Conversation -> Threads \union {None}]
        /\ starter' \in [Threads -> 0 .. MaxConversations]
    BY DEF TypeOK
  <2>2. sync' \in [Syncs -> Stage] /\ made' \in [Syncs -> 0 .. MaxConversations]
    BY DEF TypeOK
  <2>5. listed' \in [Syncs -> SUBSET Threads] /\ known' \in [Syncs -> SUBSET Threads]
    BY DEF TypeOK, OnDisk
  <2>6. making' \in [Syncs -> Threads \union {None}]
    BY DEF TypeOK
  <2>3. locked' \in BOOLEAN /\ paused' \in BOOLEAN
    BY DEF TypeOK
  <2>7. syncFailures' \in 0 .. MaxFailures
    BY DEF TypeOK
  <2>4. onDisk' \subseteq Threads /\ reports' \subseteq onDisk' /\ unreported' \subseteq onDisk'
    BY DEF TypeOK
  <2> QED
    BY <2>1, <2>2, <2>3, <2>4, <2>5, <2>6, <2>7 DEF TypeOK
<1>2. OneSync'
  BY DEF TypeOK, OneSync, Active
<1>3. OnDisk'
  BY DEF TypeOK, OnDisk
<1>4. ReportedIsFree'
  BY DEF TypeOK, OnDisk, ReportedIsFree, ListedIsFree, ToBind, Bound
<1>5. ListedIsFree'
  BY DEF TypeOK, OneSync, Active, OnDisk, ReportedIsFree, ListedIsFree, ToBind, Bound
<1>6. BoundOnce'
  BY DEF TypeOK, ReportedIsFree, ListedIsFree, ToBind, Bound, BoundOnce
<1> QED
  BY <1>1, <1>2, <1>3, <1>4, <1>5, <1>6

\* A thread that is skipped is off the list.
LEMMA SkipKeeps ==
  ASSUME MaxConversations \in Nat, MaxFailures \in Nat, None \notin Threads, SyncInv,
         NEW s \in Syncs, NEW t \in Threads, SkipThread(s, t)
  PROVE  SyncInv'
<1> USE DEF SyncInv, SkipThread, codexVars, conversationVars, syncVars, Stage, Conversation
<1>1. TypeOK'
  <2>1. /\ convs' \in 0 .. MaxConversations /\ bound' \in [Conversation -> Threads \union {None}]
        /\ starter' \in [Threads -> 0 .. MaxConversations]
    BY DEF TypeOK
  <2>2. sync' \in [Syncs -> Stage] /\ made' \in [Syncs -> 0 .. MaxConversations]
    BY DEF TypeOK
  <2>5. listed' \in [Syncs -> SUBSET Threads] /\ known' \in [Syncs -> SUBSET Threads]
    BY DEF TypeOK, OnDisk
  <2>6. making' \in [Syncs -> Threads \union {None}]
    BY DEF TypeOK
  <2>3. locked' \in BOOLEAN /\ paused' \in BOOLEAN
    BY DEF TypeOK
  <2>7. syncFailures' \in 0 .. MaxFailures
    BY DEF TypeOK
  <2>4. onDisk' \subseteq Threads /\ reports' \subseteq onDisk' /\ unreported' \subseteq onDisk'
    BY DEF TypeOK
  <2> QED
    BY <2>1, <2>2, <2>3, <2>4, <2>5, <2>6, <2>7 DEF TypeOK
<1>2. OneSync'
  BY DEF TypeOK, OneSync, Active
<1>3. OnDisk'
  BY DEF TypeOK, OnDisk
<1>4. ReportedIsFree'
  BY DEF TypeOK, OnDisk, ReportedIsFree, ListedIsFree, ToBind, Bound
<1>5. ListedIsFree'
  BY DEF TypeOK, OneSync, Active, OnDisk, ReportedIsFree, ListedIsFree, ToBind, Bound
<1>6. BoundOnce'
  BY DEF TypeOK, ReportedIsFree, ListedIsFree, ToBind, Bound, BoundOnce
<1> QED
  BY <1>1, <1>2, <1>3, <1>4, <1>5, <1>6

\* A thread that is imported was not bound.
LEMMA ImportKeeps ==
  ASSUME MaxConversations \in Nat, MaxFailures \in Nat, None \notin Threads, SyncInv,
         NEW s \in Syncs, NEW t \in Threads, ImportThread(s, t)
  PROVE  SyncInv'
<1> USE DEF SyncInv, ImportThread, codexVars, conversationVars, syncVars, Stage, Conversation
<1>1. TypeOK'
  <2>1. /\ convs' \in 0 .. MaxConversations /\ bound' \in [Conversation -> Threads \union {None}]
        /\ starter' \in [Threads -> 0 .. MaxConversations]
    BY DEF TypeOK
  <2>2. sync' \in [Syncs -> Stage] /\ made' \in [Syncs -> 0 .. MaxConversations]
    BY DEF TypeOK
  <2>5. listed' \in [Syncs -> SUBSET Threads] /\ known' \in [Syncs -> SUBSET Threads]
    BY DEF TypeOK, OnDisk
  <2>6. making' \in [Syncs -> Threads \union {None}]
    BY DEF TypeOK
  <2>3. locked' \in BOOLEAN /\ paused' \in BOOLEAN
    BY DEF TypeOK
  <2>7. syncFailures' \in 0 .. MaxFailures
    BY DEF TypeOK
  <2>4. onDisk' \subseteq Threads /\ reports' \subseteq onDisk' /\ unreported' \subseteq onDisk'
    BY DEF TypeOK
  <2> QED
    BY <2>1, <2>2, <2>3, <2>4, <2>5, <2>6, <2>7 DEF TypeOK
<1>2. OneSync'
  BY DEF TypeOK, OneSync, Active
<1>3. OnDisk'
  BY DEF TypeOK, OnDisk
<1>4. ReportedIsFree'
  BY DEF TypeOK, OnDisk, ReportedIsFree, ListedIsFree, ToBind, Bound
<1>5. ListedIsFree'
  BY DEF TypeOK, OneSync, Active, OnDisk, ReportedIsFree, ListedIsFree, ToBind, Bound
<1>6. BoundOnce'
  BY DEF TypeOK, ReportedIsFree, ListedIsFree, ToBind, Bound, BoundOnce
<1> QED
  BY <1>1, <1>2, <1>3, <1>4, <1>5, <1>6

\* It is bound once.
LEMMA BindKeeps ==
  ASSUME MaxConversations \in Nat, MaxFailures \in Nat, None \notin Threads, SyncInv,
         NEW s \in Syncs, BindThread(s)
  PROVE  SyncInv'
<1> USE DEF SyncInv, BindThread, codexVars, conversationVars, syncVars, Stage, Conversation
<1>1. TypeOK'
  <2>1. /\ convs' \in 0 .. MaxConversations /\ bound' \in [Conversation -> Threads \union {None}]
        /\ starter' \in [Threads -> 0 .. MaxConversations]
    BY DEF TypeOK
  <2>2. sync' \in [Syncs -> Stage] /\ made' \in [Syncs -> 0 .. MaxConversations]
    BY DEF TypeOK
  <2>5. listed' \in [Syncs -> SUBSET Threads] /\ known' \in [Syncs -> SUBSET Threads]
    BY DEF TypeOK, OnDisk
  <2>6. making' \in [Syncs -> Threads \union {None}]
    BY DEF TypeOK
  <2>3. locked' \in BOOLEAN /\ paused' \in BOOLEAN
    BY DEF TypeOK
  <2>7. syncFailures' \in 0 .. MaxFailures
    BY DEF TypeOK
  <2>4. onDisk' \subseteq Threads /\ reports' \subseteq onDisk' /\ unreported' \subseteq onDisk'
    BY DEF TypeOK
  <2> QED
    BY <2>1, <2>2, <2>3, <2>4, <2>5, <2>6, <2>7 DEF TypeOK
<1>2. OneSync'
  BY DEF TypeOK, OneSync, Active
<1>3. OnDisk'
  BY DEF TypeOK, OnDisk
<1>4. ReportedIsFree'
  BY DEF TypeOK, OnDisk, ReportedIsFree, ListedIsFree, ToBind, Bound
<1>5. ListedIsFree'
  BY DEF TypeOK, OneSync, Active, OnDisk, ReportedIsFree, ListedIsFree, ToBind, Bound
<1>6. BoundOnce'
  BY DEF TypeOK, ReportedIsFree, ListedIsFree, ToBind, Bound, BoundOnce
<1> QED
  BY <1>1, <1>2, <1>3, <1>4, <1>5, <1>6

\* A synchronisation that has ended binds nothing.
LEMMA EndKeeps ==
  ASSUME MaxConversations \in Nat, MaxFailures \in Nat, None \notin Threads, SyncInv,
         NEW s \in Syncs, EndSync(s)
  PROVE  SyncInv'
<1> USE DEF SyncInv, EndSync, codexVars, conversationVars, syncVars, Stage, Conversation
<1>1. TypeOK'
  <2>1. /\ convs' \in 0 .. MaxConversations /\ bound' \in [Conversation -> Threads \union {None}]
        /\ starter' \in [Threads -> 0 .. MaxConversations]
    BY DEF TypeOK
  <2>2. sync' \in [Syncs -> Stage] /\ made' \in [Syncs -> 0 .. MaxConversations]
    BY DEF TypeOK
  <2>5. listed' \in [Syncs -> SUBSET Threads] /\ known' \in [Syncs -> SUBSET Threads]
    BY DEF TypeOK, OnDisk
  <2>6. making' \in [Syncs -> Threads \union {None}]
    BY DEF TypeOK
  <2>3. locked' \in BOOLEAN /\ paused' \in BOOLEAN
    BY DEF TypeOK
  <2>7. syncFailures' \in 0 .. MaxFailures
    BY DEF TypeOK
  <2>4. onDisk' \subseteq Threads /\ reports' \subseteq onDisk' /\ unreported' \subseteq onDisk'
    BY DEF TypeOK
  <2> QED
    BY <2>1, <2>2, <2>3, <2>4, <2>5, <2>6, <2>7 DEF TypeOK
<1>2. OneSync'
  BY DEF TypeOK, OneSync, Active
<1>3. OnDisk'
  BY DEF TypeOK, OnDisk
<1>4. ReportedIsFree'
  BY DEF TypeOK, OnDisk, ReportedIsFree, ListedIsFree, ToBind, Bound
<1>5. ListedIsFree'
  BY DEF TypeOK, OneSync, Active, OnDisk, ReportedIsFree, ListedIsFree, ToBind, Bound
<1>6. BoundOnce'
  BY DEF TypeOK, ReportedIsFree, ListedIsFree, ToBind, Bound, BoundOnce
<1> QED
  BY <1>1, <1>2, <1>3, <1>4, <1>5, <1>6

\* Nor does one that has failed.
LEMMA FailKeeps ==
  ASSUME MaxConversations \in Nat, MaxFailures \in Nat, None \notin Threads, SyncInv,
         NEW s \in Syncs, SyncFails(s)
  PROVE  SyncInv'
<1> USE DEF SyncInv, SyncFails, codexVars, conversationVars, syncVars, Stage, Conversation
<1>1. TypeOK'
  <2>1. /\ convs' \in 0 .. MaxConversations /\ bound' \in [Conversation -> Threads \union {None}]
        /\ starter' \in [Threads -> 0 .. MaxConversations]
    BY DEF TypeOK
  <2>2. sync' \in [Syncs -> Stage] /\ made' \in [Syncs -> 0 .. MaxConversations]
    BY DEF TypeOK
  <2>5. listed' \in [Syncs -> SUBSET Threads] /\ known' \in [Syncs -> SUBSET Threads]
    BY DEF TypeOK, OnDisk
  <2>6. making' \in [Syncs -> Threads \union {None}]
    BY DEF TypeOK
  <2>3. locked' \in BOOLEAN /\ paused' \in BOOLEAN
    BY DEF TypeOK
  <2>7. syncFailures' \in 0 .. MaxFailures
    BY DEF TypeOK
  <2>4. onDisk' \subseteq Threads /\ reports' \subseteq onDisk' /\ unreported' \subseteq onDisk'
    BY DEF TypeOK
  <2> QED
    BY <2>1, <2>2, <2>3, <2>4, <2>5, <2>6, <2>7 DEF TypeOK
<1>2. OneSync'
  BY DEF TypeOK, OneSync, Active
<1>3. OnDisk'
  BY DEF TypeOK, OnDisk
<1>4. ReportedIsFree'
  BY DEF TypeOK, OnDisk, ReportedIsFree, ListedIsFree, ToBind, Bound
<1>5. ListedIsFree'
  BY DEF TypeOK, OneSync, Active, OnDisk, ReportedIsFree, ListedIsFree, ToBind, Bound
<1>6. BoundOnce'
  BY DEF TypeOK, ReportedIsFree, ListedIsFree, ToBind, Bound, BoundOnce
<1> QED
  BY <1>1, <1>2, <1>3, <1>4, <1>5, <1>6

\* No step breaks the invariant.
LEMMA NextKeepsSync ==
  ASSUME MaxConversations \in Nat, MaxFailures \in Nat, None \notin Threads, SyncInv,
         [Next]_threadSyncVars
  PROVE  SyncInv'
<1>1. CASE UNCHANGED threadSyncVars
  BY <1>1 DEF threadSyncVars, codexVars, conversationVars, syncVars, SyncInv, TypeOK, OneSync,
              Active, OnDisk, ReportedIsFree, ListedIsFree, ToBind, Bound, BoundOnce
<1>2. ASSUME NEW s \in Syncs, Import(s) \/ AutoSync(s) PROVE SyncInv'
  BY <1>2, BeginKeeps DEF Import, AutoSync
<1>3. CASE Next
  BY <1>2, <1>3, CreateKeeps, CooldownKeeps, RestartSyncKeeps, DesktopKeeps, ReportKeeps,
     FirstTurnKeeps, ListedKeeps, ReadKeeps, SkipKeeps, ImportKeeps, BindKeeps, EndKeeps,
     FailKeeps DEF Next
<1> QED
  BY <1>1, <1>3

\* The invariant holds, of any synchronisations.
THEOREM SyncInvariant ==
  ASSUME MaxConversations \in Nat, MaxFailures \in Nat, None \notin Threads
  PROVE  Spec => []SyncInv
<1>1. Init => SyncInv
  BY InitSyncInv
<1>2. SyncInv /\ [Next]_threadSyncVars => SyncInv'
  BY NextKeepsSync
<1> QED
  BY <1>1, <1>2, PTL DEF Spec

\* A thread is bound to one conversation, unless a synchronisation listed it while
\* the report of it was on its way or was lost.
THEOREM BoundOnceCorrect ==
  ASSUME MaxConversations \in Nat, MaxFailures \in Nat, None \notin Threads
  PROVE  Spec => []BoundOnce
<1>1. SyncInv => BoundOnce
  BY DEF SyncInv
<1> QED
  BY <1>1, SyncInvariant, PTL
=============================================================================
