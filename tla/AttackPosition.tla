---------------------------- MODULE AttackPosition -----------------------------
(***************************************************************************)
(* position/attack_position_policy.py: stop and size of an entry that the   *)
(* attack gate has granted, by the capital profile.  Prices and values are  *)
(* in 1/10 000 of the entry price and of the equity.                        *)
(***************************************************************************)
EXTENDS CapitalProfile

CONSTANTS Breakouts,   (* breakout prices of signals                         *)
          Ranges       (* average true ranges at a signal                    *)

ASSUME AttackAssumption == Breakouts \subseteq Nat /\ Ranges \subseteq Nat

VARIABLES signal    (* the signal being sized, or NoSignal                   *)

NoSignal == "none"

Entry == 10000

(* The profile widens the guard against slippage under PRESERVE.            *)
GetSlippageGuard(mode) == IF mode = "PRESERVE" THEN 45 ELSE 30

Clipped(n, low, high) == IF n < low THEN low ELSE IF n > high THEN high ELSE n

(* The tighter of the stop below the breakout and the stop by the range,    *)
(* between 0.5 % and 1.5 % away. What counts is the distance.               *)
CalculateStop(mode, breakout, atr) ==
  LET struct == (breakout * (Entry - 30 - GetSlippageGuard(mode))) \div Entry
      range  == Entry - (3 * atr) \div 2 - GetSlippageGuard(mode)
  IN  Clipped(Entry - (IF struct >= range THEN struct ELSE range), 50, 150)

LevelAllocation(level) == <<1000, 3000, 5000>>[level]

Least(S) == CHOOSE n \in S : \A m \in S : n <= m

(* Mutation of CalculatePosition: the size follows the asked level alone.    *)
PositionByAllocation(mode, level, stop, c) ==
  IF level = 0 THEN 0 ELSE LevelAllocation(level)

CalculatePosition(mode, level, stop, c) ==
  IF level = 0 THEN 0
  ELSE Least({LevelAllocation(level), 5500,
              (GetRiskPerTrade(mode, level, c.attack, c.tier, c.regime) * 1000) \div stop})

CalculateTranches(value) == <<value \div 2, (3 * value) \div 10, value \div 5>>

(* Gate, stop and size of one signal.                                       *)
CalculateFull(mode, c, breakout, atr) ==
  LET stop  == CalculateStop(mode, breakout, atr)
      level == GateCheck(mode, c)
      value == CalculatePosition(mode, level, stop, c)
  IN  [level |-> level, stop |-> stop, value |-> value, tranches |-> CalculateTranches(value)]

SignalArrives ==
  /\ signal = NoSignal
  /\ \E c \in Conditions, breakout \in Breakouts, atr \in Ranges :
       signal' = <<c, breakout, atr>>

SignalSized == signal # NoSignal /\ signal' = NoSignal

AttackInit == signal = NoSignal

AttackNext == SignalArrives \/ SignalSized

-------------------------------------------------------------------------------
(* The next worse conditions in one respect.                                *)
Worse(c) ==
  (IF c.tier < 6 THEN {[c EXCEPT !.tier = @ + 1]} ELSE {})
    \cup (IF c.change < 3 THEN {[c EXCEPT !.change = @ + 1]} ELSE {})
    \cup {[c EXCEPT !.loss = TRUE], [c EXCEPT !.pump = TRUE], [c EXCEPT !.regime = "VOLATILE"]}
    \cup (IF c.regime \in {"NEUTRAL", "RISK_ON"}
          THEN {[c EXCEPT !.regime = "RISK_OFF"], [c EXCEPT !.regime = "BEARISH"]} ELSE {})

(* Gates, profile and sizing add up: a deeper drawdown, a loss, a worse     *)
(* market or a hotter coin never grants a higher level or a larger position, *)
(* PRESERVE never buys more than GROWTH, and whatever level is asked for,   *)
(* the stop loses no more than the profile allows one trade. After the gate *)
(* that cap never decides: what it grants is bought in full.                *)
DangerBuysNoMore ==
  signal # NoSignal =>
    LET c == signal[1]
        Sizing(mode, d) == CalculateFull(mode, d, signal[2], signal[3])
    IN  /\ \A mode \in {"GROWTH", "PRESERVE"} :
             LET s == Sizing(mode, c)
             IN  /\ \A d \in Worse(c) : Sizing(mode, d).level <= s.level /\ Sizing(mode, d).value <= s.value
                 /\ CalculatePosition(mode, c.level, s.stop, c) * s.stop
                      <= 1000 * GetRiskPerTrade(mode, c.level, c.attack, c.tier, c.regime)
                 /\ s.level > 0 => s.value = LevelAllocation(s.level)
                 /\ s.tranches[1] + s.tranches[2] + s.tranches[3] <= s.value
        /\ Sizing("PRESERVE", c).value <= Sizing("GROWTH", c).value
===============================================================================
