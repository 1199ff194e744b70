------------------------------- MODULE UserMode -------------------------------
(***************************************************************************)
(* services/mode_manager.py: the mode the user asked for and the mode the   *)
(* engine works in, which the drawdown and the day's loss may lower.  Both  *)
(* in tenths of a per cent.  Risk is read when the user chooses and when a  *)
(* signal is executed, and at no other time.                                *)
(***************************************************************************)
EXTENDS Integers

CONSTANTS Drawdowns, Losses   (* what may be measured                        *)

ASSUME ModeAssumption == Drawdowns \subseteq Nat /\ Losses \subseteq Nat

VARIABLES requested, effective,
          account,     (* state of the drawdown tracker, or NoState          *)
          evaluated    (* history: the account at the last evaluation        *)

modeVars == <<requested, effective, account, evaluated>>

Modes == {"SAFE", "BALANCED", "AGGRESSIVE", "PAPER"}
NoState == [dd |-> 0, loss |-> 0]     (* nothing measured lowers nothing     *)

(* Mutation of EvaluateEffectiveMode: a loss raises SAFE to BALANCED too.    *)
EvaluateAnyMode(mode, a) ==
  IF mode = "PAPER" THEN "PAPER"
  ELSE IF a.dd > 40 \/ a.loss > 15 THEN "SAFE"
  ELSE IF a.dd > 30 \/ a.loss > 20 THEN "BALANCED" ELSE mode

EvaluateEffectiveMode(mode, a) ==
  LET lowered == IF mode = "AGGRESSIVE" /\ (a.dd > 30 \/ a.loss > 20) THEN "BALANCED" ELSE mode
  IN  IF lowered = "BALANCED" /\ (a.dd > 40 \/ a.loss > 15) THEN "SAFE" ELSE lowered

SetMode(mode) ==
  /\ requested' = mode
  /\ effective' = EvaluateEffectiveMode(mode, account)
  /\ evaluated' = account
  /\ UNCHANGED account

(* core.py, _execute_v3_signal: the overlay measures the account, and the   *)
(* mode is evaluated anew.                                                  *)
UpdateRiskState(a) ==
  /\ account' = a
  /\ effective' = EvaluateEffectiveMode(requested, a)
  /\ evaluated' = a
  /\ UNCHANGED requested

(* The tracker is fed elsewhere too.                                        *)
AccountMeasured(a) == account' = a /\ UNCHANGED <<requested, effective, evaluated>>

ShouldExecuteTrades == effective # "PAPER"

Accounts == [dd : Drawdowns, loss : Losses]

UserModeInit ==
  /\ requested = "BALANCED" /\ effective = "BALANCED"
  /\ account = NoState /\ evaluated = NoState

UserModeNext ==
  \/ \E mode \in Modes : SetMode(mode)
  \/ \E a \in Accounts : UpdateRiskState(a) \/ AccountMeasured(a)

-------------------------------------------------------------------------------
Boldness(mode) ==
  CASE mode = "PAPER" -> 0 [] mode = "SAFE" -> 1 [] mode = "BALANCED" -> 2 [] mode = "AGGRESSIVE" -> 3

(* The engine is never bolder than the user asked for, and whether it       *)
(* trades at all - exits are skipped in PAPER too - is the user's decision  *)
(* alone. Under one request, a worse account never makes it bolder.         *)
OnlyLowered ==
  [][/\ Boldness(effective') <= Boldness(requested')
     /\ ShouldExecuteTrades' <=> requested' # "PAPER"
     /\ requested' = requested /\ evaluated'.dd >= evaluated.dd /\ evaluated'.loss >= evaluated.loss
          => Boldness(effective') <= Boldness(effective)]_modeVars
===============================================================================
