-------------------------- MODULE PositionReducer --------------------------
(***************************************************************************)
(* The forced reductions of src/server/src/risk/position_reducer.py, as    *)
(* operators on a record: the overlay owns the reducer and passes its      *)
(* calls on.  The orders of a reduction are left out, and the rate of one  *)
(* that has ended, which nobody reads.                                     *)
(***************************************************************************)
EXTENDS Integers

CONSTANTS StayTicks,     \* reduce_stay_duration_minutes
          GradualTicks   \* the 30 minutes of a gradual close

ASSUME ReducerAssumption == {StayTicks, GradualTicks} \subseteq Nat \ {0}

-----------------------------------------------------------------------------
(* stay counts down to the end of the stay; NoStay is the None of a full    *)
(* close.                                                                   *)

NoStay == -1
Triggers == {"RISK_OFF", "CORR_SHOCK", "DD_SOFT", "DD_HARD", "DD_HARD_PHASE2",
             "DD_HARD_PHASE3", "MANUAL"}

Calm == [reducing |-> FALSE, pct |-> 0, stay |-> NoStay]

Reducing(pct, stay) == [reducing |-> TRUE, pct |-> pct, stay |-> stay]

(* _get_reduce_pct, in per cent; severity is given in tenths.               *)
ReducePct(trigger, severity) ==
  CASE trigger = "RISK_OFF" -> 40
    [] trigger = "CORR_SHOCK" -> 30 + 3 * severity
    [] trigger \in {"DD_SOFT", "DD_HARD"} -> 50
    [] trigger = "DD_HARD_PHASE2" -> 30
    [] trigger = "DD_HARD_PHASE3" -> 100
    [] OTHER -> 0

(* trigger_reduce: a trigger that is not stronger than the reduction under  *)
(* way is dropped, also when that one's stay is over and nobody has looked. *)
TriggerReduce(red, trigger, severity) ==
  LET pct == ReducePct(trigger, severity)
  IN IF pct = 0 \/ (red.reducing /\ red.pct >= pct) THEN red ELSE Reducing(pct, StayTicks)

ForceCloseAll == Reducing(100, NoStay)

(* gradual_hard_dd_close overwrites the reduction under way.                *)
GradualHardDdClose(phase) ==
  CASE phase = 1 -> Reducing(ReducePct("DD_HARD", 10), GradualTicks)
    [] phase = 2 -> Reducing(ReducePct("DD_HARD_PHASE2", 10), GradualTicks)
    [] phase = 3 -> ForceCloseAll

InStay(red) == red.reducing /\ red.stay > 0

(* check_stay_period: the flag falls when somebody looks after the end.     *)
CheckStayPeriod(red) == IF red.reducing /\ red.stay = 0 THEN Calm ELSE red

MinutePasses(red) == [red EXCEPT !.stay = @ - 1]
=============================================================================
