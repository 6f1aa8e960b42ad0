----------------------- MODULE MCConversationManager -----------------------
(* Instances of ConversationManager for TLC.  Codex already has a thread of  *)
(* the first conversation; the other thread is there to be created.          *)
(*   overlapping: two turns of one conversation, so that they meet on a      *)
(*     thread;                                                               *)
(*   apart: two turns of two conversations.                                  *)
EXTENDS ConversationManager, TLC

CONSTANTS t1, t2, cA, cB, th1, th2

MCTurn == {t1, t2}
MCConversation == {cA, cB}
MCThread == {th1, th2}
MCInitialOwner == (th1 :> cA) @@ (th2 :> NoConversation)

MCOverlapping == (t1 :> cA) @@ (t2 :> cA)
MCApart == (t1 :> cA) @@ (t2 :> cB)

MCSymmetry == Permutations(MCTurn)
=============================================================================
