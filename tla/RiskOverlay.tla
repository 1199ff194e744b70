---------------------------- MODULE RiskOverlay ----------------------------
(***************************************************************************)
(* The risk overlay of src/server/src/risk/risk_overlay.py with the        *)
(* drawdown tracker, the volatility index and the correlation guard it     *)
(* asks, the reductions of PositionReducer, the pass of the engine that    *)
(* acts on its decision, and the operator's route.  Sizes are told apart   *)
(* as zero or not; max_exposure_pct, core_allocation_pct, hedge_required   *)
(* and the mode that force_mode sets, which no decision reads, are left    *)
(* out, and so is v3_enabled = False, with which no pass evaluates.  The   *)
(* portfolio's risk budget is left out too: nothing in the repository adds *)
(* a position to it, so evaluate always finds it has room.                 *)
(***************************************************************************)
EXTENDS PositionReducer, FiniteSetsExt

CONSTANTS Levels,      \* what the equity of the account may come to; 0 when
                       \* the exchange did not answer
          Severities   \* severity of a correlation shock, in tenths

ASSUME LevelsAssumption == Levels \subseteq Nat /\ Severities \subseteq 0 .. 10

Modes == {"NORMAL", "SAFE", "HALT"}
Tiers == {"NORMAL", "HIGH", "CRISIS"}   \* ELEVATED only sizes down

(* CorrelationGuard.get_guard_action: is the correlation of the coins at    *)
(* the action level, and has BTC moved sharply?  WARN restricts nothing.    *)
GuardAction(spike, shock) ==
  CASE spike /\ shock -> "HEDGE"
    [] spike /\ ~shock -> "REDUCE"
    [] ~spike /\ shock -> "BLOCK"
    [] OTHER -> "NONE"

GuardActions == {GuardAction(spike, shock) : spike, shock \in BOOLEAN}

VARIABLES
  equity, peak, dayStart,  \* DrawdownTracker, as of its last update
  dayDue,                  \* the UTC date is later than _last_reset_date
  kmvi,                    \* tier of _last_kmvi; NORMAL while there is none
  decision,                \* _last_decision, or Undecided
  red,                     \* PositionReducer
  ordered                  \* the last pass placed an order

overlayVars == <<equity, peak, dayStart, dayDue, kmvi, decision, red, ordered>>
tracker == <<equity, peak, dayStart, dayDue>>

-----------------------------------------------------------------------------
(* DrawdownTracker.  Losses are compared in per mille.                      *)

Lost(base, e, permille) == base > 0 /\ 1000 * (base - e) >= permille * base

(* The state update computes, from the equity and the bases it set.         *)
Drawdown(e, top, day) ==
  [hard |-> Lost(top, e, 50), soft |-> Lost(top, e, 35),
   safe |-> Lost(top, e, 20), caution |-> Lost(top, e, 10),
   combined |-> Lost(top, e, 10) /\ Lost(day, e, 5),
   daySafe |-> Lost(day, e, 10), dayHalt |-> Lost(day, e, 15)]

(* Mutation of Update: a peak over two passes only.                         *)
UpdatePeakShort(e) ==
  /\ equity' = e /\ peak' = Max({equity, e})
  /\ dayStart' = (IF dayDue THEN e ELSE dayStart) /\ dayDue' = FALSE

Update(e) ==
  /\ equity' = e
  /\ peak' = Max({peak, e})
  /\ dayStart' = IF dayDue THEN e ELSE dayStart
  /\ dayDue' = FALSE

Midnight == ~dayDue /\ dayDue' = TRUE

-----------------------------------------------------------------------------
(* evaluate, stage by stage; each takes and returns the decision.           *)

Undecided == [mode |-> "NORMAL", satellite |-> TRUE, core |-> TRUE, ignition |-> TRUE,
              sized |-> TRUE, deep |-> FALSE, hard |-> FALSE, systemOk |-> TRUE,
              tailOk |-> TRUE, regimeOk |-> TRUE, decided |-> FALSE]

(* 1. exec_health                                                           *)
SystemSafety(d, ok) ==
  IF ok THEN d
  ELSE [d EXCEPT !.systemOk = FALSE, !.mode = "SAFE", !.satellite = FALSE,
                 !.core = FALSE, !.sized = FALSE]

(* Mutation of TailAction: the daily loss counts only where no drawdown acts. *)
TailActionElif(dd, guard) ==
  CASE dd.hard \/ (dd.dayHalt /\ ~dd.soft) -> "HALT"
    [] ~dd.hard /\ (dd.soft \/ (~dd.dayHalt /\ (dd.daySafe \/ (dd.safe /\ ~dd.combined)))) -> "SAFE"
    [] OTHER -> "OK"

(* _check_tail_risk.  The combined trigger switches the plain one off and   *)
(* sets nothing itself.                                                     *)
TailAction(dd, guard) ==
  LET shocked == guard = "HEDGE" \/ (guard = "REDUCE" /\ dd.caution)
  IN CASE dd.hard \/ dd.dayHalt -> "HALT"
       [] ~(dd.hard \/ dd.dayHalt)
          /\ (dd.soft \/ (dd.safe /\ ~dd.combined) \/ dd.daySafe \/ shocked) -> "SAFE"
       [] OTHER -> "OK"

(* 2. drawdown and correlation: sizes come from the tier of the drawdown    *)
(* where one is known; deep is the fourth tier and beyond.                  *)
TailRisk(d, dd, known, guard) ==
  LET action == TailAction(dd, guard)
  IN [d EXCEPT !.tailOk = action = "OK",
               !.mode = IF action = "OK" THEN @ ELSE action,
               !.satellite = @ /\ action = "OK" /\ ~dd.soft,
               !.core = @ /\ action # "HALT",
               !.sized = action # "HALT" /\ (known \/ @),
               !.deep = dd.soft,
               !.hard = dd.hard]

(* 2.5 the index of volatility                                              *)
Volatility(d) ==
  [d EXCEPT !.satellite = @ /\ kmvi \notin {"HIGH", "CRISIS"},
            !.ignition = @ /\ kmvi # "CRISIS"]

(* 3. regime and correlation guard                                          *)
Regime(d, riskOff, guard) ==
  [d EXCEPT !.regimeOk = ~riskOff,
            !.satellite = @ /\ ~riskOff /\ guard \notin {"HEDGE", "BLOCK"}]

(* The stay of a reduction comes last.                                      *)
Staying(d, r) == [d EXCEPT !.satellite = @ /\ ~InStay(r), !.decided = TRUE]

(* The decision the drawdown and the components' answers lead to.           *)
Decide(dd, known, ok, riskOff, guard) ==
  /\ red' = CheckStayPeriod(red)
  /\ decision' = Staying(Regime(Volatility(
                   TailRisk(SystemSafety(Undecided, ok), dd, known, guard)), riskOff, guard), red')

(* _execute_strategies evaluates the equity it has read and, unless HALT,   *)
(* places the orders of its signals with the decision it holds, as far as   *)
(* equity and multiplier leave them a size.  It asks none of the questions  *)
(* below: SAFE, a closed satellite gate and the regime hold back no order.  *)
ExecuteStrategies ==
  /\ \E e \in Levels : Update(e)
  /\ \E dd \in {Drawdown(equity', peak', dayStart')},
        ok, riskOff \in BOOLEAN, guard \in GuardActions : Decide(dd, TRUE, ok, riskOff, guard)
  /\ ordered' \in {FALSE, decision'.mode # "HALT" /\ decision'.sized /\ equity' > 0}
  /\ UNCHANGED kmvi

(* A route that asks before the first pass evaluates without an equity.     *)
EvaluateBlind ==
  /\ ~decision.decided
  /\ \E ok, riskOff \in BOOLEAN, guard \in GuardActions :
       Decide(Drawdown(0, 0, 0), FALSE, ok, riskOff, guard)
  /\ UNCHANGED <<tracker, kmvi, ordered>>

-----------------------------------------------------------------------------
(* What may be opened, by the overlay's own questions.                      *)

CanOpenSatellite == decision.mode # "HALT" /\ decision.satellite /\ decision.sized
CanOpenCore == decision.mode # "HALT" /\ decision.core
CanOpenIgnition == decision.mode # "HALT" /\ decision.ignition /\ kmvi # "CRISIS" /\ ~decision.deep
ShouldForceClose == LET dd == Drawdown(equity, peak, dayStart) IN dd.dayHalt \/ dd.hard

(* update_kmvi, at the head of every 30th pass; it keeps its last state     *)
(* while candles are missing.                                               *)
UpdateKmvi ==
  /\ kmvi' \in Tiers
  /\ UNCHANGED <<tracker, decision, red, ordered>>

Reduce(r) ==
  /\ red' = r
  /\ UNCHANGED <<tracker, kmvi, decision, ordered>>

Trigger == \E t \in Triggers, sev \in Severities : Reduce(TriggerReduce(red, t, sev))
GradualClose == \E phase \in 1 .. 3 : Reduce(GradualHardDdClose(phase))
ForceClose == Reduce(ForceCloseAll)
Minute == red.stay > 0 /\ Reduce(MinutePasses(red))

OverlayInit ==
  /\ equity = 0 /\ peak = 0 /\ dayStart = 0 /\ dayDue = TRUE
  /\ kmvi = "NORMAL" /\ decision = Undecided
  /\ red = Calm /\ ordered = FALSE

(* Nothing of this is stored.                                               *)
OverlayRestart ==
  /\ equity' = 0 /\ peak' = 0 /\ dayStart' = 0 /\ dayDue' = TRUE
  /\ kmvi' = "NORMAL" /\ decision' = Undecided
  /\ red' = Calm /\ ordered' = FALSE

Pass == ExecuteStrategies \/ EvaluateBlind \/ UpdateKmvi
Reductions == Trigger \/ GradualClose \/ ForceClose \/ Minute
OverlayNext ==
  \/ Pass \/ Reductions \/ OverlayRestart
  \/ Midnight /\ UNCHANGED <<equity, peak, dayStart, kmvi, decision, red, ordered>>

OverlaySpec == OverlayInit /\ [][OverlayNext]_overlayVars

-----------------------------------------------------------------------------
(* Every variable keeps its type; in particular the peak is never under the *)
(* equity and a stay never runs past its end.                               *)
OverlayTypeOK ==
  /\ {equity, peak, dayStart} \subseteq Levels \cup {0} /\ equity <= peak
  /\ dayDue \in BOOLEAN /\ kmvi \in Tiers /\ ordered \in BOOLEAN
  /\ DOMAIN decision = DOMAIN Undecided /\ decision.mode \in Modes
  /\ \A f \in DOMAIN Undecided \ {"mode"} : decision[f] \in BOOLEAN
  /\ red.reducing \in BOOLEAN /\ red.pct \in 0 .. 100
  /\ red.stay \in {NoStay} \cup 0 .. Max({StayTicks, GradualTicks})

(* What the overlay answers: whatever the later stages of evaluate do,      *)
(* danger in an earlier one keeps the gates it closed closed, and an index  *)
(* in crisis closes the ignition's at once.                                 *)
DangerClosesGates ==
  /\ ~decision.systemOk => ~CanOpenSatellite /\ ~CanOpenCore
  /\ ~decision.tailOk \/ ~decision.regimeOk => ~CanOpenSatellite
  /\ decision.hard \/ decision.mode = "HALT" => ~CanOpenSatellite /\ ~CanOpenCore /\ ~CanOpenIgnition
  /\ kmvi = "CRISIS" => ~CanOpenIgnition

(* The mode follows the loss of the account through overlapping limits:     *)
(* HALT exactly at 5 % under the peak or 1.5 % under the start of the day,  *)
(* and NORMAL nowhere at 3.5 % or 1 %.  At 2 % under the peak it stays      *)
(* NORMAL only where the day's loss is between 0.5 and 1 %: there the       *)
(* combined trigger, documented to tighten, hides the plain one             *)
(* (risk_overlay.py:463).                                                   *)
ModeFollowsLoss ==
  decision.decided =>
    LET dd == Drawdown(equity, peak, dayStart)
    IN  /\ decision.mode = "HALT" <=> dd.hard \/ dd.dayHalt
        /\ decision.mode = "NORMAL" => ~dd.soft /\ ~dd.daySafe /\ (dd.safe => dd.combined)

(* What the engine makes of it: no order is placed by a pass that read an   *)
(* account 5 % under its peak or 1.5 % under the start of the day.  That is *)
(* all: the documented rule that no entry passes a danger of the stages 1   *)
(* to 3 (risk_overlay.py:10) does not hold, since core.py:869 asks for HALT *)
(* only; an unsafe system, SAFE, a denied satellite and a regime off        *)
(* exclude no order.                                                        *)
NoOrderInDeepLoss == ordered => ~ShouldForceClose

(* The overlay's answers, its mode and the orders of the engine's passes    *)
(* agree with the dangers seen and the account, as far as they do.          *)
GatesClosed == OverlayTypeOK /\ DangerClosesGates /\ ModeFollowsLoss /\ NoOrderInDeepLoss

(* HALT is followed by a milder decision only when the account has          *)
(* recovered or a new day or process began; and a decision taken while a    *)
(* reduction stays allows no satellite entry.                               *)
HaltStays ==
  decision.mode = "HALT" /\ decision'.mode # "HALT"
    => equity' > equity \/ dayDue \/ ~decision'.decided

StayDenies == decision' # decision /\ decision'.decided /\ InStay(red') => ~CanOpenSatellite'

LimitsLast == [][HaltStays /\ StayDenies]_overlayVars
==============================================================================
