--------------------------- MODULE SimpleBacktester ---------------------------
(***************************************************************************)
(* server/run_backtest.py: one strategy at a time over the candles of five  *)
(* minutes of all symbols.  What a strategy measures of a symbol is a       *)
(* record of the quantities its conditions compare; prices, the indicators  *)
(* behind the quantities and the requests for candles are left out.  Per    *)
(* mille unless said otherwise; volumes and scores in tenths.               *)
(***************************************************************************)
EXTENDS Integers, Sequences, FiniteSets, SequencesExt, FiniteSetsExt

CONSTANTS Cash,        (* initial_capital                                    *)
          AtOnce,      (* signals acted upon at one time stamp: 5            *)
          LastStamp    (* bound: time stamps                                 *)

ASSUME SimpleAssumption == Cash \in Nat /\ LastStamp \in Nat

VARIABLES chosen,      (* strategy and exit_params                           *)
          stamp,       (* time stamps gone through; LastStamp + 1 at the end *)
          cash,        (* cash                                               *)
          holding,     (* positions                                          *)
          earned,      (* sum of the profits of the trades                   *)
          lastEntry,   (* last_entry of the generator, or Never              *)
          last,        (* current_prices: those of the last time stamp       *)
          refused      (* history: strategies whose score refused a signal   *)
                       (* that met every condition                           *)

simpleVars == <<chosen, stamp, cash, holding, earned, lastEntry, last, refused>>

Markets == 1..2          (* in the order of all_candles                      *)
Never == -1000
Minutes(n) == 5 * n
Trends == {"BULLISH", "BEARISH", "SIDEWAYS"}

-------------------------------------------------------------------------------
(* get_hourly_trend and get_active_strategies                               *)
ActiveIn(trend) ==
  CASE trend = "BULLISH" -> {"PULLBACK", "REBOUND", "ATTACK"}
    [] trend = "BEARISH" -> {"SHORT_BREAKDOWN", "SHORT_RALLY_FADE"}
    [] OTHER -> {"SHORT_BREAKDOWN", "REBOUND"}

(* exit_params of main, and of the adaptive and weekly tests: stop, target, *)
(* trailing (a trigger of 0 is none) and minutes held (0 is no limit).      *)
Exits(stop, target, trigger, trail, minutes) ==
  [stop |-> stop, target |-> target, trigger |-> trigger, trail |-> trail, minutes |-> minutes]

MainExits ==
  [PULLBACK |-> Exits(-8, 12, 8, 4, 0), REBOUND |-> Exits(-6, 10, 0, 0, 12),
   ATTACK |-> Exits(-10, 20, 15, 8, 0), SHORT_BREAKDOWN |-> Exits(-8, 10, 0, 0, 0),
   SHORT_RALLY_FADE |-> Exits(-10, 15, 0, 0, 0)]

AdaptiveExits ==
  [PULLBACK |-> Exits(-8, 15, 0, 0, 0), REBOUND |-> Exits(-7, 12, 0, 0, 15),
   DIP_SCALPER |-> Exits(-8, 10, 0, 0, 10), ATTACK |-> Exits(-12, 25, 0, 0, 0),
   SHORT_BREAKDOWN |-> Exits(-10, 12, 0, 0, 0), SHORT_RALLY_FADE |-> Exits(-10, 15, 0, 0, 0)]

(* The strategies main goes through, those the trend of the moment makes    *)
(* active, and the two of the week.  Nobody chooses DIP_SCALPER.            *)
MainTest == {[strategy |-> s, exits |-> MainExits[s]] : s \in DOMAIN MainExits}
AdaptiveTest ==
  UNION {{[strategy |-> s, exits |-> AdaptiveExits[s]] : s \in ActiveIn(t)} : t \in Trends}
WeeklyTest == {[strategy |-> s, exits |-> AdaptiveExits[s]] : s \in {"PULLBACK", "SHORT_BREAKDOWN"}}

-------------------------------------------------------------------------------
(* The six generators: what they compare, their conditions, their score.    *)
(* The candle of now is "up", "down" or "flat"; body and wick are parts of  *)
(* its range in per cent; hist and macd in thousandths of the price.        *)
Measures(strategy) ==
  CASE strategy = "PULLBACK" ->
         [enough : BOOLEAN, trend : Trends, band : {"below", "near", "above"}, rsi : {27, 34, 38, 39},
          candle : {"up", "flat"}, body : {44, 45}, hist : {-2, -1, 1}]
    [] strategy = "REBOUND" ->
         [enough : BOOLEAN, trend : Trends, drop : {29, 30}, rvol : {0, 19, 20, 60}, rsi : {30, 31},
          wick : {24, 25}]
    [] strategy = "DIP_SCALPER" ->
         [enough : BOOLEAN, trend : Trends, drop : {14, 15}, rvol : {0, 17, 18}, rsi : {27, 34, 42, 43},
          wick : {19, 20}]
    [] strategy = "ATTACK" ->
         [enough : BOOLEAN, trend : Trends, breakout : {14, 15, 45, 46}, rvol : {0, 24, 25, 60},
          candle : {"up", "flat"}, body : {49, 50}, rsi : {75, 76}]
    [] strategy = "SHORT_BREAKDOWN" ->
         [enough : BOOLEAN, trend : Trends, drop : {14, 15}, rvol : {0, 14, 15}, rsi : {70, 71},
          candle : {"down", "flat"}, macd : {0, 1}]
    [] strategy = "SHORT_RALLY_FADE" ->
         [enough : BOOLEAN, trend : Trends, rally : {69, 70}, fade : {29, 30}, rsi : {51, 52, 66},
          candle : {"down", "flat"}, body : {44, 45}, bearish : {1, 2}, hist : {0, 1}]

Conditions(strategy, m) ==
  /\ m.enough
  /\ CASE strategy = "PULLBACK" ->
            m.trend = "BULLISH" /\ m.band # "above" /\ m.rsi <= 38 /\ m.candle = "up"
            /\ m.body >= 45 /\ m.hist >= -1
       [] strategy = "REBOUND" -> m.drop >= 30 /\ m.rvol >= 20 /\ m.rsi <= 30 /\ m.wick >= 25
       [] strategy = "DIP_SCALPER" -> m.drop >= 15 /\ m.rvol >= 18 /\ m.rsi <= 42 /\ m.wick >= 20
       [] strategy = "ATTACK" ->
            m.trend # "BEARISH" /\ m.breakout \in 15..45 /\ m.rvol >= 25 /\ m.candle = "up"
            /\ m.body >= 50 /\ m.rsi <= 75
       [] strategy = "SHORT_BREAKDOWN" ->
            m.drop >= 15 /\ m.rvol >= 15 /\ m.rsi <= 70 /\ m.candle = "down" /\ m.macd <= 0
       [] strategy = "SHORT_RALLY_FADE" ->
            m.rally >= 70 /\ m.fade >= 30 /\ m.rsi >= 52 /\ m.candle = "down" /\ m.body >= 45
            /\ m.bearish >= 2 /\ m.hist <= 0

If(condition, points) == IF condition THEN points ELSE 0

Score(strategy, m) ==
  CASE strategy = "PULLBACK" ->
         600 + (IF m.rsi < 28 THEN 200 ELSE If(m.rsi < 35, 120)) + If(m.band = "below", 150)
             + If(m.hist > 0, 100)
    [] strategy = "REBOUND" -> 700 + 5 * m.drop + 3 * Min({m.rvol, 50})
    [] strategy = "DIP_SCALPER" ->
         550 + 4 * m.drop + 5 * Min({m.rvol, 40}) + (IF m.rsi < 28 THEN 150 ELSE If(m.rsi < 35, 80))
    [] strategy = "ATTACK" -> 600 + 4 * m.breakout + 4 * Min({m.rvol, 50})
    [] strategy = "SHORT_BREAKDOWN" -> 600 + 5 * m.drop + 5 * Min({m.rvol, 40})
    [] strategy = "SHORT_RALLY_FADE" ->
         600 + 3 * m.fade + (3 * m.rally) \div 2 + If(m.rsi > 65, 120)

(* min_score, cooldown_minutes and position_pct (per cent).                  *)
Setting ==
  [PULLBACK |-> [score |-> 750, cooldown |-> 30, percent |-> 15],
   REBOUND |-> [score |-> 700, cooldown |-> 10, percent |-> 20],
   DIP_SCALPER |-> [score |-> 600, cooldown |-> 8, percent |-> 10],
   ATTACK |-> [score |-> 720, cooldown |-> 20, percent |-> 10],
   SHORT_BREAKDOWN |-> [score |-> 600, cooldown |-> 10, percent |-> 15],
   SHORT_RALLY_FADE |-> [score |-> 780, cooldown |-> 40, percent |-> 12]]

Short(strategy) == strategy \in {"SHORT_BREAKDOWN", "SHORT_RALLY_FADE"}

-------------------------------------------------------------------------------
(* SimpleBacktester                                                         *)

Gain(p, price) == ((IF p.short THEN p.entry - price ELSE price - p.entry) * 1000) \div p.entry

Leaves(p, price, best) ==
  \/ Gain(p, price) <= chosen.exits.stop
  \/ Gain(p, price) >= chosen.exits.target
  \/ /\ chosen.exits.trigger > 0 /\ best >= chosen.exits.trigger
     /\ Gain(p, price) <= best - chosen.exits.trail
  \/ chosen.exits.minutes > 0 /\ Minutes(stamp - p.at) >= chosen.exits.minutes

(* What a position brings back; the loss of a short one has no limit.        *)
Proceeds(p, price) ==
  IF p.short THEN p.value + (p.value * (p.entry - price)) \div p.entry
  ELSE (p.value * price) \div p.entry

(* Positions that are closed at these prices (0 where there is no candle).  *)
Profit(closed, price) ==
  MapThenSumSet(LAMBDA p : Proceeds(p, price[p.market]) - p.value, closed)
Value(positions) == MapThenSumSet(LAMBDA p : p.value, positions)

(* Every open position takes its share of what cash is left, in turn.  A    *)
(* position that would need more than that is not opened (there is none).   *)
OpenAll(state, signals, price) ==
  LET open(acc, s) ==
        LET value == (acc.cash * Setting[chosen.strategy].percent) \div 100
        IN  IF s \notin signals \/ price[s] = 0 \/ acc.cash < value THEN acc
            ELSE [cash |-> acc.cash - value,
                  holding |-> acc.holding \cup
                    {[market |-> s, entry |-> price[s], at |-> stamp, value |-> value,
                      best |-> 0, short |-> Short(chosen.strategy)]}]
  IN  FoldLeft(open, state, <<1, 2>>)

(* The first so many of the signals are acted upon.                          *)
First(signals) == {s \in signals : Cardinality({t \in signals : t < s}) < AtOnce}

(* One time stamp: exits, then the signals of the symbols not held, which   *)
(* start their cooldown whether or not they are acted upon.                 *)
Trade(price, m, showing) ==
  LET priced == {p \in holding : price[p.market] # 0}
      noted == {[p EXCEPT !.best = Max({p.best, Gain(p, price[p.market])})] : p \in priced}
      closed == {p \in noted : Leaves(p, price[p.market], p.best)}
      kept == (holding \ priced) \cup (noted \ closed)
      asked == {s \in showing : /\ \A p \in kept : p.market # s
                                /\ Minutes(stamp - lastEntry[s]) >= Setting[chosen.strategy].cooldown
                                /\ Conditions(chosen.strategy, m)}
      scored == Score(chosen.strategy, m) >= Setting[chosen.strategy].score
      signals == IF asked # {} /\ scored THEN asked ELSE {}
      after == OpenAll([cash |-> cash + Value(closed) + Profit(closed, price), holding |-> kept],
                       First(signals), price)
  IN  /\ stamp < LastStamp
      /\ stamp' = stamp + 1
      /\ cash' = after.cash
      /\ holding' = after.holding
      /\ earned' = earned + Profit(closed, price)
      /\ lastEntry' = [s \in Markets |-> IF s \in signals THEN stamp ELSE lastEntry[s]]
      /\ last' = price
      /\ refused' = IF asked # {} /\ signals = {} THEN refused \cup {chosen.strategy} ELSE refused
      /\ UNCHANGED chosen

(* What is left is closed if it has a candle at the last time stamp; the    *)
(* rest counts as what it cost (_calculate_results).                        *)
CloseAll ==
  LET closed == {p \in holding : last[p.market] # 0}
  IN  /\ stamp = LastStamp
      /\ stamp' = stamp + 1
      /\ cash' = cash + Value(closed) + Profit(closed, last)
      /\ earned' = earned + Profit(closed, last)
      /\ holding' = holding \ closed
      /\ UNCHANGED <<chosen, lastEntry, last, refused>>

-------------------------------------------------------------------------------
SimpleInit ==
  /\ chosen \in MainTest \cup AdaptiveTest \cup WeeklyTest
  /\ stamp = 0 /\ cash = Cash /\ holding = {} /\ earned = 0
  /\ lastEntry = [s \in Markets |-> Never] /\ last = [s \in Markets |-> 0]
  /\ refused = {}

(* Bound: all measures at the first time stamp, with one price of the first *)
(* symbol; later one that signals and one that does not, with prices apart  *)
(* by less than an exit and by more.                                        *)
Typical ==
  [g \in DOMAIN Setting |->
     LET signals(m) == Conditions(g, m) /\ Score(g, m) >= Setting[g].score
     IN  {CHOOSE m \in Measures(g) : signals(m), CHOOSE m \in Measures(g) : ~signals(m)}]

MeasuresNow == IF stamp = 0 THEN Measures(chosen.strategy) ELSE Typical[chosen.strategy]

MarksNow == IF stamp = 0 THEN {1000} ELSE {0, 990, 1000, 1010, 1016}

SimpleNext ==
  \/ \E x \in MarksNow, y \in {0, 1000}, m \in MeasuresNow, showing \in {{1}, {1, 2}} :
        Trade(<<x, y>>, m, showing)
  \/ CloseAll

-------------------------------------------------------------------------------
(* The cash is what was there and what was earned, less what is invested;   *)
(* only a symbol without a candle at the end stays open; and no score ever  *)
(* decides anything but for PULLBACK: whoever meets the conditions has it.  *)
SimpleBalances ==
  /\ cash = Cash + earned - Value(holding)
  /\ \A p, q \in holding : p.market = q.market => p = q
  /\ stamp > LastStamp => \A p \in holding : last[p.market] = 0
  /\ refused \subseteq {"PULLBACK"}
===============================================================================
