---------------------------- MODULE BacktestEngine ----------------------------
(***************************************************************************)
(* backtesting/engine/backtest_engine.py: a simulated account is led        *)
(* through the candles of several symbols.  At every time stamp exits come  *)
(* first, then the signals, one after the other; at the end everything is   *)
(* closed.  The strategies may signal anything.  Money is integer: a price  *)
(* slips by 1, a commission is 1 per cent, a quantity is in hundredths.     *)
(***************************************************************************)
EXTENDS Integers, Sequences, FiniteSets, SequencesExt, FiniteSetsExt

CONSTANTS Capital,       (* initial_capital                                  *)
          MaxOpen,       (* parameters: max_positions                        *)
          HoldLimit,     (* time_stop_minutes, in candles                    *)
          LastCandle     (* bound: time stamps                               *)

ASSUME EngineAssumption ==
  Capital \in Nat /\ MaxOpen \in Nat /\ HoldLimit \in Nat /\ LastCandle \in Nat

VARIABLES account,   (* SimulatedAccount, its trades as sums                 *)
          setup,     (* parameters: margin_mode, multi_strategy              *)
          clock,     (* time stamps gone through; LastCandle + 1 at the end  *)
          lastClose, (* close of the last candle of each symbol              *)
          peak       (* highest equity recorded                              *)

engineVars == <<account, setup, clock, lastClose, peak>>

Pairs == {"A", "B"}
NoPrice == 0

(* Candles, none among them: quiet, a little and a lot higher, and one that *)
(* only dips.                                                               *)
Candle == [none |-> [close |-> NoPrice, low |-> 0, high |-> 0],
           quiet |-> [close |-> 100, low |-> 100, high |-> 100],
           higher |-> [close |-> 102, low |-> 102, high |-> 102],
           much |-> [close |-> 110, low |-> 105, high |-> 110],
           dip |-> [close |-> 100, low |-> 85, high |-> 100]]
Shapes == [A |-> {"none", "quiet", "higher", "much", "dip"}, B |-> {"none", "quiet"}]

Invested(acc) == MapThenSumSet(LAMBDA p : p.value, acc.open)
EquityOf(acc) == acc.cash + MapThenSumSet(LAMBDA p : (p.quantity * p.entry) \div 100, acc.open)
Commission(value) == value \div 100

-------------------------------------------------------------------------------
(* _open_position: the key is the symbol, unless several strategies trade   *)
(* side by side.  On margin the size does not depend on what there is.      *)
KeyOf(signal) == IF setup.multi THEN <<signal.strategy, signal.symbol>> ELSE <<"any", signal.symbol>>

SizeOf(acc, percent) ==
  IF setup.margin THEN (Capital * percent) \div 100
  ELSE Min({(EquityOf(acc) * percent) \div 100, (acc.cash * 95) \div 100})

OpenPosition(acc, signal, price) ==
  LET value == SizeOf(acc, signal.percent)
      exec == price + 1
  IN  IF \/ \E p \in acc.open : p.key = KeyOf(signal)
         \/ Cardinality(acc.open) >= MaxOpen
         \/ ~setup.margin /\ acc.cash < value
      THEN acc
      ELSE [acc EXCEPT
              !.cash = acc.cash - value - Commission(value),
              !.fees = acc.fees + Commission(value),
              !.open = acc.open \cup
                {[key |-> KeyOf(signal), symbol |-> signal.symbol, entry |-> exec,
                  quantity |-> (value * 100) \div exec, value |-> value,
                  at |-> clock + 1, best |-> 0]}]

(* Mutation of ClosePosition: the entry's price comes back, not the exit's.  *)
ClosePositionAtCost(acc, p, price) ==
  LET gross == (p.quantity * (price - 1)) \div 100
      pnl == gross - p.value - Commission(gross)
  IN  [acc EXCEPT !.cash = acc.cash + p.value - Commission(gross), !.pnl = acc.pnl + pnl,
                  !.open = acc.open \ {p}]

(* _close_position: the profit of a trade leaves out what its entry cost.    *)
ClosePosition(acc, p, price) ==
  LET gross == (p.quantity * (price - 1)) \div 100
      pnl == gross - p.value - Commission(gross)
  IN  [acc EXCEPT !.cash = acc.cash + gross - Commission(gross), !.pnl = acc.pnl + pnl,
                  !.open = acc.open \ {p}]

(* A signal to sell names the symbol, which is the key of a position only    *)
(* when strategies do not trade side by side.                               *)
ProcessSignal(acc, signal, price) ==
  IF price = NoPrice THEN acc
  ELSE IF signal.action = "buy" THEN OpenPosition(acc, signal, price)
  ELSE LET held == {p \in acc.open : p.key = <<"any", signal.symbol>>}
       IN  IF held = {} THEN acc ELSE ClosePosition(acc, CHOOSE p \in held : TRUE, price)

(* create_pullback_exit_checker, with its defaults: -1, +1.5 and, above     *)
(* +0.8, 0.4 per cent below the best close.  Per cents are thousandths here. *)
Change(p, price) == ((price - p.entry) * 1000) \div p.entry

ExitReason(p, candle) ==
  IF HoldLimit > 0 /\ clock + 1 - p.at >= HoldLimit THEN "time_stop"
  ELSE IF Change(p, candle.low) <= -10 THEN "stop_loss"
  ELSE IF Change(p, candle.high) >= 15 THEN "take_profit"
  ELSE IF Change(p, candle.close) <= -10 THEN "stop_loss"
  ELSE IF Change(p, candle.close) >= 15 THEN "take_profit"
  ELSE IF p.best >= 8 /\ p.best - Change(p, candle.close) >= 4 THEN "trailing_stop"
  ELSE "none"

(* The best close is noted before the conditions are looked at, and the     *)
(* position is closed at the close, wherever in the candle its stop lay.    *)
CheckExits(acc, candles) ==
  LET priced == {p \in acc.open : candles[p.symbol].close # NoPrice}
      noted == {[p EXCEPT !.best = Max({p.best, Change(p, candles[p.symbol].close)})] : p \in priced}
      leaving == {p \in noted : ExitReason(p, candles[p.symbol]) # "none"}
  IN  FoldSet(LAMBDA p, a : ClosePosition(a, p, candles[p.symbol].close),
              [acc EXCEPT !.open = (acc.open \ priced) \cup noted], leaving)

-------------------------------------------------------------------------------
(* What the strategies may say, in the order they say it.                    *)
Signals ==
  LET buy(s, strategy, percent) == [symbol |-> s, strategy |-> strategy, action |-> "buy", percent |-> percent]
      sell == [symbol |-> "A", strategy |-> "S1", action |-> "sell", percent |-> 0]
  IN  {<<>>, <<buy("A", "S1", 50)>>, <<buy("A", "S1", 100), buy("A", "S2", 100)>>,
       <<buy("B", "S1", 50), buy("A", "S2", 100)>>, <<sell>>, <<sell, buy("A", "S1", 100)>>}

(* One time stamp of the loop of run.                                        *)
Advance(shape, signals) ==
  LET candles == [s \in Pairs |-> Candle[shape[s]]]
      left == CheckExits(account, candles)
      traded == FoldLeft(LAMBDA a, g : ProcessSignal(a, g, candles[g.symbol].close), left, signals)
  IN  /\ clock < LastCandle
      /\ clock' = clock + 1
      /\ account' = traded
      /\ lastClose' = [s \in Pairs |-> IF candles[s].close = NoPrice THEN lastClose[s] ELSE candles[s].close]
      /\ peak' = Max({peak, EquityOf(traded)})
      /\ UNCHANGED setup

(* _close_all_positions and _build_result                                   *)
Finish ==
  /\ clock = LastCandle
  /\ clock' = clock + 1
  /\ account' = FoldSet(LAMBDA p, a : ClosePosition(a, p, lastClose[p.symbol]), account, account.open)
  /\ UNCHANGED <<setup, lastClose, peak>>

EngineInit ==
  /\ account = [cash |-> Capital, open |-> {}, pnl |-> 0, fees |-> 0]
  /\ setup \in [margin : BOOLEAN, multi : BOOLEAN]
  /\ clock = 0 /\ lastClose = [s \in Pairs |-> NoPrice] /\ peak = Capital

EngineNext ==
  \/ \E shape \in [Pairs -> UNION {Shapes[s] : s \in Pairs}], signals \in Signals :
       (\A s \in Pairs : shape[s] \in Shapes[s]) /\ Advance(shape, signals)
  \/ Finish

-------------------------------------------------------------------------------
(* No money is made or lost but by trading: the cash is the capital and the *)
(* profits of the closed trades, less what is invested and the commissions  *)
(* of the entries - which the profits do not know of, so that the sum of    *)
(* the trades is better than the account.                                   *)
EngineBalances ==
  /\ account.cash = Capital + account.pnl - account.fees - Invested(account)
  /\ Cardinality({p.key : p \in account.open}) = Cardinality(account.open)
  /\ ~setup.margin => account.cash >= 0
  /\ clock > LastCandle => account.open = {}
===============================================================================
