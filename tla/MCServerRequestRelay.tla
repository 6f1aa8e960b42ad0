------------------------ MODULE MCServerRequestRelay ------------------------
(* Instances of ServerRequestRelay for TLC.                                  *)
(*   one: one agent with one conversation;                                    *)
(*   two: two agents of the user, with a conversation each.                  *)
EXTENDS ServerRequestRelay, TLC

CONSTANTS r1, r2, A, B, cA, cB

MCRequest == {r1, r2}
MCAgents == {A, B}
MCConversations == {cA, cB}
MCOne == [c \in Conversation |-> A]
MCTwo == (cA :> A) @@ (cB :> B)

MCSymmetry == Permutations(Request)
=============================================================================
