------------------------------ MODULE RegimeSwitch -----------------------------
(***************************************************************************)
(* strategies/market_regime.py: the trend of BTC, read off candles of five  *)
(* minutes, and the strategies that are active under it.  A reading is what *)
(* the score is made of: the changes of a day, of four hours and of one,    *)
(* the slope of the average and whether the volume increases.  Scores are   *)
(* in tenths, confidences in thousandths, times in candles.  Nothing        *)
(* constructs the two classes yet: readings come whenever they like.        *)
(***************************************************************************)
EXTENDS Integers, FiniteSets

CONSTANTS Cooldown    (* _regime_change_cooldown: 6 candles                   *)

ASSUME CooldownAssumption == Cooldown \in Nat

VARIABLES trend,      (* regime of _last_regime, or NoTrend                   *)
          since,      (* time since _last_change_time, up to Cooldown         *)
          running,    (* _active_strategies                                   *)
          lastRead,   (* history: what the last reading alone would say, and  *)
                      (* the time since the last change when it came          *)
          quickest    (* history: shortest time between two changes           *)

regimeVars == <<trend, since, running, lastRead, quickest>>

NoTrend == "none"
LongStrategies == {"VOLATILE_OVERSOLD_BOUNCE", "CRASH_RECOVERY", "TRIPLE_BEARISH_REVERSAL"}
ConservativeStrategies == {"TRIPLE_BEARISH_REVERSAL"}
MinConfidence(g) == IF g = "CRASH_RECOVERY" THEN 600 ELSE 500

(* The change of four hours is in tenths of a per cent; of the others only  *)
(* the side of their thresholds counts.                                     *)
Candles ==
  [four : {-20, -19, -12, 0, 12, 19, 20}, hour : -1..1, day : -1..1, ema : -1..1,
   volume : BOOLEAN]

-------------------------------------------------------------------------------
Magnitude(n) == IF n < 0 THEN -n ELSE n
AtMost(n, limit) == IF n < limit THEN n ELSE limit

TrendScore(c) ==
  LET base == (IF c.four >= 20 THEN 400 ELSE IF c.four <= -20 THEN -400 ELSE 10 * c.four)
              + 200 * c.hour + 150 * c.day + 150 * c.ema
  IN  IF c.volume THEN (base \div 10) * 12 ELSE base

(* Between what is sideways and what is a trend nothing is known.           *)
DetermineRegime(score) ==
  CASE score >= 300 -> [regime |-> "BULLISH", confidence |-> AtMost(score, 1000)]
    [] score <= -300 -> [regime |-> "BEARISH", confidence |-> AtMost(-score, 1000)]
    [] Magnitude(score) <= 150 ->
         [regime |-> "SIDEWAYS", confidence |-> 1000 - (10 * Magnitude(score)) \div 3]
    [] OTHER -> [regime |-> "UNKNOWN", confidence |-> 300]

(* A trend that changed not long ago is kept, with eight tenths of the      *)
(* confidence in the one that was read, whichever that is.                  *)
Cooled(read) ==
  IF trend # NoTrend /\ since < Cooldown /\ read.regime # trend
  THEN [regime |-> trend, confidence |-> (8 * read.confidence) \div 10]
  ELSE read

(* Mutation of Cooled: a trend that is read with confidence is believed.    *)
CooledUnlessSure(read) ==
  IF trend # NoTrend /\ since < Cooldown /\ read.regime # trend /\ read.confidence < 800
  THEN [regime |-> trend, confidence |-> (8 * read.confidence) \div 10]
  ELSE read

Recommended(signal) ==
  IF signal.confidence < 500 THEN ConservativeStrategies
  ELSE CASE signal.regime = "BULLISH" -> LongStrategies
         [] signal.regime = "SIDEWAYS" -> ConservativeStrategies
         [] OTHER -> {}

(* Too few candles are answered without looking at what was known.          *)
UpdateWithoutCandles ==
  /\ running' = {}
  /\ lastRead' = [regime |-> "UNKNOWN", after |-> since]
  /\ UNCHANGED <<trend, since, quickest>>

UpdateStrategies(c) ==
  LET read == DetermineRegime(TrendScore(c))
      signal == Cooled(read)
      changes == signal.regime # trend
  IN  /\ trend' = signal.regime
      /\ since' = IF changes THEN 0 ELSE since
      /\ running' = {g \in Recommended(signal) : signal.confidence >= MinConfidence(g)}
      /\ lastRead' = [regime |-> read.regime, after |-> since]
      /\ quickest' = IF changes /\ trend # NoTrend THEN AtMost(since, quickest) ELSE quickest

CandlePasses ==
  /\ since < Cooldown /\ since' = since + 1
  /\ UNCHANGED <<trend, running, lastRead, quickest>>

RegimeInit ==
  /\ trend = NoTrend /\ since = 0 /\ running = {}
  /\ lastRead = [regime |-> "UNKNOWN", after |-> 0] /\ quickest = Cooldown

RegimeNext == UpdateWithoutCandles \/ CandlePasses \/ \E c \in Candles : UpdateStrategies(c)

-------------------------------------------------------------------------------
(* The trend is switched no sooner than the cooldown allows, whatever the   *)
(* market does.  What is bought on a rising market only runs while it is    *)
(* taken to rise.  It may be taken so when it is read to fall or to stand,  *)
(* in the cooldown alone and never in doubt: the confidence is then that of *)
(* the other reading.  And being in doubt starts nothing:                   *)
(* the conservative strategy asks for the confidence it stands in for, so   *)
(* that it runs by itself in a sideways market only.                        *)
RegimeSettles ==
  /\ quickest >= Cooldown
  /\ running \ ConservativeStrategies # {} =>
       /\ trend = "BULLISH"
       /\ lastRead.regime = "BULLISH" \/ (lastRead.regime # "UNKNOWN" /\ lastRead.after < Cooldown)
  /\ running = ConservativeStrategies => trend = "SIDEWAYS"
  /\ running # {} => trend \in {"BULLISH", "SIDEWAYS"}
===============================================================================
