----------------------------- MODULE AgentTurn -----------------------------
(***************************************************************************)
(* What the agent promises control-api about the turns it is given, as     *)
(* seen in its conversation.turn.started and conversation.turn.completed   *)
(* events.  While it is still starting a turn it may report it completed   *)
(* and started again, codex's notifications being about threads; after     *)
(* that a turn is completed once, for good.                                *)
(*                                                                         *)
(* ConversationManager implements this; the agent of TurnDelivery takes    *)
(* the same steps.                                                         *)
(***************************************************************************)
CONSTANT Turn

VARIABLE phase

\* not given, being started, reported as started, reported as completed but still
\* being started, completed
Phase == {"none", "accepted", "running", "early", "over"}

Follows ==
  {<<"none", "accepted">>,
   <<"accepted", "running">>, <<"accepted", "early">>, <<"accepted", "over">>,
   <<"running", "early">>, <<"running", "over">>,
   <<"early", "running">>, <<"early", "over">>}

Init == phase = [t \in Turn |-> "none"]

\* The exit of codex moves several turns at once.
Next ==
  /\ phase' \in [Turn -> Phase]
  /\ \A t \in Turn : phase'[t] # phase[t] => <<phase[t], phase'[t]>> \in Follows

Spec == Init /\ [][Next]_phase
=============================================================================
