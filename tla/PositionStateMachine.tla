------------------------- MODULE PositionStateMachine -------------------------
(***************************************************************************)
(* position/state_machine.py with score_calculator.py, policies.py and      *)
(* time_stop_policy.py: what becomes of one managed long position (the     *)
(* account is a spot account).  A reading is all that an evaluation sees    *)
(* of candles and features; profit is in tenths of R, age in units of the   *)
(* five minutes between candle closes.  Stop prices are left out.           *)
(***************************************************************************)
EXTENDS Integers, FiniteSets, FiniteSetsExt

CONSTANTS MaxAge,   (* bound: age of a position, in candles                 *)
          Profits   (* what a position may be up or down when evaluated      *)

ASSUME PositionAssumption == MaxAge \in Nat /\ Profits \subseteq Int

VARIABLES position,   (* the ManagedPosition, or NoPosition                 *)
          intent,     (* the OrderIntent last returned, or NoIntent         *)
          seen,       (* history: overheat and danger at the last evaluation *)
          highs       (* history: scores of 70 or more since one below 40,  *)
                      (* of evaluations no hard rule decided                *)

psmVars == <<position, intent, seen, highs>>

PositionState == {"WEAK", "NORMAL", "STRONG", "EXTREME"}

-------------------------------------------------------------------------------
(* score_calculator.py.  Thresholds of the relative volume: 1.5, 2.5, 4,    *)
(* 4.02 and 6 times the usual one; wick: 1.2 and 1.5 bodies.                *)

Signals ==
  [rvol : 0..5, wick : 0..2, failedHigh : BOOLEAN,
   vwap : {20, 10, 0, -15, -25}, secondBelow : BOOLEAN, structure : {-20, 0, 15},
   candle : {0, 5, 10}, momentum : {0, 5, 10}, btc : {0, -10, -30}]

VolumeScore(s) == IF s.rvol >= 3 THEN 25 ELSE <<0, 8, 15>>[s.rvol + 1]

OverheatPenalty(s) ==
  IF s.rvol = 5 /\ s.wick = 2 THEN -20 ELSE IF s.rvol >= 4 /\ s.wick >= 1 THEN -10 ELSE 0

CalculateScore(s) ==
  LET raw == 50 + VolumeScore(s) + s.vwap + s.structure + s.candle + s.momentum
               + OverheatPenalty(s) + s.btc
  IN  Max({0, Min({100, raw})})

CheckOverheatCondition(s) == s.rvol = 5 /\ s.wick = 2 /\ s.failedHigh

(* A lower low with the last two closes below VWAP.                         *)
CheckStructureBreak(s) == s.structure = -20 /\ s.vwap <= 0 /\ s.secondBelow

Band(score) ==
  CASE score < 40 -> "weak" [] score \in 40..69 -> "middle"
    [] score \in 70..84 -> "strong" [] score >= 85 -> "extreme"

Read(s) == [band |-> Band(CalculateScore(s)), overheat |-> CheckOverheatCondition(s),
            broken |-> CheckStructureBreak(s), riskOff |-> s.btc = -30,
            aboveVwap |-> s.vwap >= 10]

(* What the market can show at once.                                        *)
Readings == {Read(s) : s \in Signals}

-------------------------------------------------------------------------------
(* state_machine.py                                                         *)

NoPosition == [state |-> "none", weak |-> 0, strong |-> 0, extreme |-> 0, age |-> 0,
               tp1 |-> FALSE, tp2 |-> FALSE]
NoIntent == [exit |-> FALSE, reduceOnly |-> FALSE, sell |-> 0]
NothingSeen == [overheat |-> FALSE, danger |-> FALSE]

(* The counters are compared with 1 and 2 only.                             *)
Counted(n) == Min({n + 1, 2})

CheckWeakHardRules(x, r, engine, tier) ==
  \/ x.riskOff
  \/ engine # "NORMAL"
  \/ tier >= 4
  \/ tier >= 3 /\ r <= -5
  \/ x.broken
  \/ r <= -8

(* Mutation of CheckHardRules: the climax is looked for first.               *)
HardRulesOverheatFirst(x, r, engine, tier) ==
  IF x.overheat THEN "EXTREME"
  ELSE IF CheckWeakHardRules(x, r, engine, tier) THEN "WEAK" ELSE "none"

(* Mutation of CheckHardRules: the climax is left to the score.              *)
HardRulesWeakOnly(x, r, engine, tier) ==
  IF CheckWeakHardRules(x, r, engine, tier) THEN "WEAK" ELSE "none"

CheckHardRules(x, r, engine, tier) ==
  IF CheckWeakHardRules(x, r, engine, tier) THEN "WEAK"
  ELSE IF x.overheat THEN "EXTREME" ELSE "none"

RecoverFromWeak(p, x) ==
  [p EXCEPT !.weak = 0, !.state = IF x.aboveVwap THEN "NORMAL" ELSE "WEAK"]

(* Mutation of ScoreToState: a weak score keeps the count of strong ones.    *)
ScoreKeepingStrong(p, x) ==
  IF x.band = "weak" THEN [p EXCEPT !.state = "WEAK", !.extreme = 0, !.weak = Counted(@)]
  ELSE IF x.band = "middle" THEN [p EXCEPT !.state = IF @ = "WEAK" THEN @ ELSE "NORMAL"]
  ELSE LET q == [p EXCEPT !.weak = 0, !.strong = Counted(@)]
       IN  IF q.strong >= 2 THEN [q EXCEPT !.state = "STRONG"] ELSE RecoverFromWeak(q, x)

Climax(x) == x.band = "extreme" /\ x.overheat

ScoreToState(p, x) ==
  CASE x.band = "weak" ->
         [p EXCEPT !.state = "WEAK", !.strong = 0, !.extreme = 0, !.weak = Counted(@)]
    [] Climax(x) ->
         [p EXCEPT !.state = "EXTREME", !.weak = 0, !.strong = 0, !.extreme = Counted(@)]
    [] x.band \in {"strong", "extreme"} /\ ~Climax(x) ->
         LET q == [p EXCEPT !.weak = 0, !.extreme = 0, !.strong = Counted(@)]
         IN  IF q.strong >= 2 \/ p.state = "STRONG" THEN [q EXCEPT !.state = "STRONG"]
             ELSE IF p.state = "WEAK" THEN RecoverFromWeak(q, x)
             ELSE [q EXCEPT !.state = "NORMAL"]
    [] x.band = "middle" ->
         IF p.state = "WEAK" THEN RecoverFromWeak(p, x)
         ELSE [p EXCEPT !.state = "NORMAL", !.strong = 0, !.extreme = 0]

-------------------------------------------------------------------------------
(* policies.py                                                              *)

TakeProfit(p, r, first, secondAt) ==
  (IF r >= 8 /\ ~p.tp1 THEN first ELSE 0) + (IF r >= secondAt /\ ~p.tp2 THEN 30 ELSE 0)

TimedOut(p, r) ==
  \/ p.state = "WEAK" /\ p.age >= 3 /\ r < 3
  \/ p.state = "NORMAL" /\ p.age >= 6 /\ r < 5

GetAction(p, r) ==
  LET exit == TimedOut(p, r) \/ (p.state = "EXTREME" /\ p.extreme >= 2)
      sell == CASE p.state = "WEAK"    -> IF p.weak >= 2 THEN 50 ELSE 0
                [] p.state = "NORMAL"  -> TakeProfit(p, r, 30, 15)
                [] p.state = "STRONG"  -> TakeProfit(p, r, 20, 20)
                [] p.state = "EXTREME" -> IF p.extreme = 1 THEN 70 ELSE 50
  IN  [exit |-> exit, reduceOnly |-> p.state \in {"WEAK", "EXTREME"},
       sell |-> IF exit THEN 0 ELSE sell]

-------------------------------------------------------------------------------
(* time_stop_policy.py: minutes after which a position without profit goes. *)

TimeMultiplier(volatility) == CASE volatility = "high" -> 15 [] volatility = "low" -> 8 [] volatility = "usual" -> 10

(* Mutation of ThresholdMinutes: every state waits as long as WEAK.          *)
ThresholdOfWeak(state, volatility) == (20 * TimeMultiplier(volatility)) \div 10

ThresholdMinutes(state, volatility) ==
  ((IF state = "WEAK" THEN 20 ELSE 45) * TimeMultiplier(volatility)) \div 10

ShouldTimeStop(state, minutes, r, volatility) ==
  /\ state \in {"WEAK", "NORMAL"}
  /\ minutes >= 10
  /\ r <= 0
  /\ minutes >= ThresholdMinutes(state, volatility)

-------------------------------------------------------------------------------
CreatePosition ==
  /\ position' = [NoPosition EXCEPT !.state = "NORMAL"]
  /\ intent' = NoIntent /\ seen' = NothingSeen /\ highs' = 0

Evaluate(x, r, engine, tier) ==
  /\ position # NoPosition
  /\ \E forced \in {CheckHardRules(x, r, engine, tier)} :
       /\ position' = IF forced # "none" THEN [position EXCEPT !.state = forced]
                      ELSE ScoreToState(position, x)
       /\ highs' = IF forced # "none" \/ x.band = "middle" THEN highs
                   ELSE IF x.band = "weak" THEN 0 ELSE Min({highs + 1, 2})
  /\ intent' = GetAction(position', r)
  /\ seen' = [overheat |-> x.overheat, danger |-> x.riskOff \/ engine # "NORMAL" \/ tier >= 4]

ClosePosition ==
  /\ position # NoPosition
  /\ position' = NoPosition
  /\ intent' = NoIntent /\ seen' = NothingSeen /\ highs' = 0

(* The caller reports that the take-profit orders of the last intent filled. *)
UpdateTpStatus ==
  /\ position # NoPosition
  /\ \E first, second \in BOOLEAN :
       position' = [position EXCEPT !.tp1 = @ \/ first, !.tp2 = @ \/ second]
  /\ UNCHANGED <<intent, seen, highs>>

CandleCloses ==
  /\ position # NoPosition
  /\ position.age < MaxAge
  /\ position' = [position EXCEPT !.age = @ + 1]
  /\ UNCHANGED <<intent, seen, highs>>

PsmInit ==
  position = NoPosition /\ intent = NoIntent /\ seen = NothingSeen /\ highs = 0

PsmNext ==
  \/ CreatePosition \/ ClosePosition \/ UpdateTpStatus \/ CandleCloses
  \/ \E x \in Readings, r \in Profits,
        risk \in {<<"NORMAL", 1>>, <<"NORMAL", 3>>, <<"NORMAL", 4>>, <<"SAFE", 1>>} :
        Evaluate(x, r, risk[1], risk[2])

-------------------------------------------------------------------------------
PsmTypeOK ==
  /\ position \in [state : PositionState \cup {"none"}, weak : 0..2, strong : 0..2,
                   extreme : 0..2, age : 0..MaxAge, tp1 : BOOLEAN, tp2 : BOOLEAN]
  /\ intent \in [exit : BOOLEAN, reduceOnly : BOOLEAN, sell : {0, 20, 30, 50, 60, 70}]
  /\ seen \in [overheat : BOOLEAN, danger : BOOLEAN]
  /\ highs \in 0..2

(* What state a position is in has been earned. EXTREME takes the climax at *)
(* the last evaluation, by the hard rule, which counts nothing: the score    *)
(* path can neither make nor keep a position EXTREME, and the full exit the *)
(* policy grants after two of them is never given. Volatile markets, an     *)
(* engine out of NORMAL and a drawdown of 3.5 % leave no position to its    *)
(* score or to a climax: it is WEAK, and the intent only reduces. STRONG    *)
(* takes two scores of 70 or more with no score below 40 in between - not   *)
(* two in a row: in WEAK a middling score keeps the count, and so do the    *)
(* evaluations that a hard rule decides.                                    *)
StateIsEarned ==
  /\ position.state = "EXTREME" => seen.overheat
  /\ position.extreme = 0
  /\ seen.danger => position.state = "WEAK" /\ intent.reduceOnly
  /\ position.state = "STRONG" => highs = 2

(* The conditional time stop never sells a position the policy of its state *)
(* would keep: whoever consults it beside the state machine only waits      *)
(* longer, in any volatility.                                               *)
TimeStopNeverQuicker ==
  \A r \in Profits, volatility \in {"high", "usual", "low"} :
    ShouldTimeStop(position.state, 5 * position.age, r, volatility) => GetAction(position, r).exit
===============================================================================
