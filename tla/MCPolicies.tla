------------------------------ MODULE MCPolicies ------------------------------
(***************************************************************************)
(* The policies that decide by themselves, each with its own state: one of  *)
(* them moves in a behaviour, the others stay as they start.                *)
(***************************************************************************)
EXTENDS PositionStateMachine, AttackPosition, UserMode

MCProfits == {-9, -6, -1, 1, 4, 6, 10, 17, 22}

VARIABLES which

InitPolicies ==
  /\ which \in {"position", "capital", "attack", "mode"}
  /\ PsmInit /\ CapitalInit /\ AttackInit /\ UserModeInit

NextPolicies ==
  \/ which = "position" /\ PsmNext /\ UNCHANGED <<which, capitalVars, signal, modeVars>>
  \/ which = "capital" /\ CapitalNext /\ UNCHANGED <<which, psmVars, signal, modeVars>>
  \/ which = "attack" /\ AttackNext /\ UNCHANGED <<which, psmVars, capitalVars, modeVars>>
  \/ which = "mode" /\ UserModeNext /\ UNCHANGED <<which, psmVars, capitalVars, signal>>
===============================================================================
