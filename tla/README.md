# A verification model of the Upbit trading server

The repository is an automatic trader for the Upbit KRW spot market: an asyncio
Python server (`server/src`) with a FastAPI interface, a PostgreSQL or SQLite
database, a Next.js dashboard, and offline tools that back-test and tune
strategies. This directory holds TLA+ modules of it, the TLC configurations that
check them, and theorems about them checked by TLAPS.

    tlc -config X.cfg M          model-checks module M (see "The runs")
    tlapm M.tla                  checks the proofs of module M

## 1. Inventory of the system

Paths are below `server/src` unless they begin with `server`. One process, one
event loop: a handler or a task is interrupted only where it really suspends, so
"concurrent" below means interleaved at awaits, and a method whose awaits never
suspend (an uncontended `asyncio.Lock`) is one step.

| Component | State it keeps | Operations | Interacts with | Modelled in |
|---|---|---|---|---|
| Position ledger, `portfolio/position_ledger.py` | dict of positions, two indices; table `position_ledger` | fills, force sync, reconcile, save, restore | engine, database (saves nobody awaits) | `PositionLedger`, `LedgerPersistence` |
| Trading mode and risk engine, `risk/modes.py`, `risk/risk_engine.py` | mode; failure counters; windows of events | events, monitor round, pause, resume | engine, reconciler, executor | `RiskEngine` |
| Command queue, `engine/command_queue.py` | bounded queue, pending and results | put, take, complete, poll | API handlers, main loop | `CommandQueue` |
| Engine main loop, `engine/core.py` | counters, caches | a pass every second | all of these | `TradingControl` |
| Entries, exits, FLATTEN, restore, `engine/core.py` | caches, tables | buy on a signal, sell on an exit | exchange, strategies, ledger | `TradingEngine` |
| Upbit client, `exchange/upbit.py` | session | market orders with polling | exchange | `UpbitExchange` |
| Stop watchdog, `risk/stop_watchdog.py` | watched positions, prices | watch, trail, round, trigger | engine callback; its loop runs, but the engine adds no position | `StopWatchdog` |
| Order states and executor, `execution/*` | orders, hedge pairs | submit, wait, retry, roll back, cancel, sync | exchange, risk engine; nothing starts it yet | `OrderState`, `HedgeExecution` |
| Risk overlay, drawdown, correlation, reductions, `risk/*` | peaks, regime, decision, reduction | evaluate, pass, reduce | engine before entries; nothing triggers a reduction yet | `RiskOverlay`, `PositionReducer` |
| Exposure and portfolio limits, `risk/exposure_manager.py`, `risk/portfolio_risk.py` | reads the ledger; open risks | may a position be opened, for how much | created, never asked | see "Not modelled" |
| Capital profile and attack gate, `risk/hysteresis_tracker.py`, `risk/capital_profile.py`, `risk/attack_gate.py` | profile, days, a state file | record a day, force, grant | attack entries | `CapitalProfile`, `AttackPosition` |
| Position states and policies, `position/*` | one managed position | evaluate, hard rules, time stops | nothing constructs it yet | `PositionStateMachine` |
| User mode, `services/mode_manager.py` | mode asked for, mode in force | set, re-evaluate | engine before orders | `UserMode` |
| Market data, `data/*`, `engine/core.py` | list of symbols, buffers, regime | refresh, candle rounds | strategies | `MarketData` |
| Trade recorder, `services/trade_recorder.py`, `engine/core.py` | tables of orders, trades, days, positions | tasks nobody awaits, snapshot | engine | `TradeRecords` |
| Reconciler and books, `portfolio/reconcile.py`, `portfolio/ledger.py` | expectations, failures; books of the day | three checks at three intervals | risk engine; nothing starts it yet | `Reconciler` |
| Candle history, `backtesting/data/*`, `server/scripts/fetch_extended_candles.py` | table of candles | fetch by pages, fill gaps, load | exchange, backtests | `CandleHistory` |
| Backtesters, `backtesting/engine`, `server/run_backtest.py` | simulated account | entries and exits candle by candle | candle history | `BacktestEngine`, `SimpleBacktester` |
| AI optimizer, `ai_optimizer/*` | candidates, rounds | discover, generate, optimize, validate | language model, backtests | `OptimizerSession` |
| Parameter searches, `backtesting/optimization`, `server/scripts/run_v3_openai_optimize.py` | best parameters | grid over windows; rounds | backtests | `ParameterSearch` |
| Stream, `api/websocket.py` and `dashboard/lib/websocket.ts` | connections; the client's socket, timers, intervals | accept, serve, broadcast; connect, reconnect, ping | browser; nobody calls broadcast or client yet | `LiveStream` |
| Trend, `strategies/market_regime.py` | last trend, time of its change, active strategies | update on candles | nothing constructs it yet | `RegimeSwitch` |
| Filters, indicators, analytics, API views, notifications, the rest of the dashboard | - | compute, read, show | - | see "Not modelled" |

What can go wrong in each, and which property would notice, is the list of hazards
in `PROJECT.json`.

## 2. Modules

Operators that stand for a method bear its name in camel case (`on_buy_fill` is
`OnBuyFill`); `map` in `PROJECT.json` gives the lines of each. Definitions headed
"Mutation of X" are wrong variants of X: each property of a passing run is shown to
fail when one of them takes the place of X.

### How they compose

* `PositionLedger` refines `LedgerBook` (one quantity per symbol and strategy);
  `LedgerPersistence` extends it with the table, saves, crash and restart.
* `TradingControl` puts the main loop between `CommandQueue` and `RiskEngine`: it
  declares their variables, its steps are made of their actions, and it refines both.
* `TradingEngine` extends `UpbitExchange`: the account, and the orders still live there.
* `HedgeExecution` extends `OrderState`: an executor of hedge pairs over the table of
  transitions.
* `RiskOverlay` extends `PositionReducer`: the decision of a pass and whether the pass
  orders on it, with the forced reductions as operators on a record.
* `AttackPosition` extends `CapitalProfile`: the gate's grant, then size and stop.
* `MCPolicies` and `MCServices` check parts that share no state side by side in one
  run: one of them, named by `which`, moves in a behaviour.
* `MCPositionLedger`, `MCLedgerPersistence` give symmetry, `MCStopWatchdog` a function,
  `MCPolicies` the profits around the thresholds.
* The modules of proofs: `LedgerProofs` (`PositionLedger`, `LedgerPersistence`),
  `RiskProofs` (`RiskEngine`, `RiskOverlay`, `StopWatchdog`), `PolicyProofs`
  (`PositionStateMachine`, `AttackPosition`, `CapitalProfile`, `UserMode`),
  `CommandQueueProofs`, `TradingControlProofs`, `OrderProofs`
  (`TradingEngine`, `HedgeExecution`), `ServiceProofs` (`LiveStream`, `TradeRecords`,
  `Reconciler`, `OptimizerSession`, `ParameterSearch`, `BacktestEngine`,
  `SimpleBacktester`, `MarketData`, `CandleHistory`, `RegimeSwitch`); `SetProofs` has the
  lemmas about sets, sums and folds they share.

### Position ledger

A list of ids without duplicates is a set, a quantity a number of units, `Dust` the
0.0001 coins below which a position counts as closed. Every ledger method runs under
one lock without an await inside: one action each. `balances` is the account at the
exchange: a fill has happened there first. `Oversell` says whether a strategy may
sell more than it bought (the engine sells the whole balance of a coin,
`core.py:1073`).

`LedgerPersistence` adds the table. Every fill creates a task that nobody awaits
(`position_ledger.py:396`, `:444`, `:487`, `:504`); it selects the row, reads the
position as it is when the select returns, and commits, with other tasks between.
SQLAlchemy's update carries only the changed columns. `unsaved`, `atCrash` and the like
are history variables.

### Risk engine, command queue, main loop

One `Tick` is a second; events carry their age, and leave a window when they reach its
length. `market` is what the account and the market show. The engine as assembled
creates its risk engine without a balance ledger and a feature engine (`core.py:87`);
the executor and the reconciler report to a risk engine but are not started by it: the
module is about the component and whoever uses it. Two of its documented triggers are dead
and are modelled so (`WeeklyLossSeen`, `LiquidationNear`; section 4). `Restart` is a new process, whose
risk engine knows nothing.

A request stands for an API handler and its command. `Put` suspends only when the queue
is full; a woken putter and a newcomer race. `TradingControl`'s own variables are where
the loop is (`pc`), the counter of the clean-up and the orders placed in this pass. The
mode is read at one step (`MarketUpdated`) and used at later ones (`Buy`).

### Trading engine

The account holds free and locked KRW and coins. An order is placed and polled for
three seconds; what is not filled by then stays live and is reported as a success with
nothing filled; an error may hide an order that lives. Both order handlers create a
`FillEvent` without `requested_price` and end in the `TypeError`, after the strategy
was told (`FillEventRaises`): the ledger gets no fill, and holds only what a start restores
from its own table, or nothing. The same start gives every strategy with a row in the table
of positions the whole balance of its coin. Signals, the time, PAPER and a crash are the environment.

### Watchdog and executor

The watchdog's round collects positions by reference, may suspend at each of them for
the REST fallback, and then executes the stops it found. Other tasks add, remove,
re-price and trail meanwhile, also under the id of a position the round still holds. The
callback asks the exchange for a method it does not have: what is removed from the watch
stays unsold by it. In `HedgeExecution` an order is
a record as `order_state.py` has it, the exchange decides how much fills and when, cancel and synchronisation
come from other tasks at any await, and the answer to an order may be lost (`unseen`): the
exchange then executes it while the executor goes on as if it had been refused.

### Overlay and policies

Equities range over the values around the thresholds in the code; losses are compared in
per mille. The overlay's `decision` is kept until the next pass, and `ordered` says whether
the engine's pass placed an order with it: the engine asks it for HALT and for a multiplier
and for nothing else, and the questions the overlay offers (`CanOpenSatellite`, ...) are
operators that the property reads. A managed position
(`PositionStateMachine`) meets every reading of the market a candle can give, with
profits around the thresholds of the policies. The capital profile's file may be
empty after a failed save, since it is truncated before it is written; the days since the
last change (`since`) are counted outside of process and file, so that neither a restart nor
a stale file resets them.

### Services

`MarketData` has the list of liquid symbols, the round that loads a batch of them, the
regime, and the buffer of one symbol with two loaders. `TradeRecords` has the tasks of
`_record_order_to_db` step by step: each reads and writes in a session of its own. In
`Reconciler` everything the loop asks for may have moved since its last question.
`CandleHistory` pages backwards through an exchange at which not every minute is
traded, with several requests at once and pages that fail. The two backtesters' accounts
are integers; the sessions of the optimizer treat code and parameters as versions.
In `LiveStream` a client makes one socket after the other, the events of all of them
change the same fields, and the server's handlers join and leave the set a broadcast
iterates over. `RegimeSwitch` reads the trend off changes on both sides of every
threshold.

## 3. The runs

| Run (module) | Checks | Instance |
|---|---|---|
| `LedgerCore` (`MCPositionLedger`) | `Consistent`, `ClosedIsFinal`, `ImplementsBook`, `OverrideReconciles` | 2 symbols, 2 strategies, 3 ids, up to 3 coins, oversells and overrides |
| `Persist` (`MCLedgerPersistence`) | `PConsistent`, `SavedWhenSettled`, `RestoreExact`, `NeverReopened` | 1 strategy in 1 coin, 2 ids, no oversell, no dust, 2 saves in flight that race, failing database, a crash |
| `RiskTriggers` (`RiskEngine`) | `HaltIsManual`, `NormalIsClean`, `CausesEscalate` | reconcile limit 2, the others 1; all four signals; the last 5 orders; one slow message and a latency window of 1 s; restarts; fair monitor |
| `CommandQueue` | `FirstInFirstRun`, `PendingExact`, `EveryRequestEnds` | 4 requests, room for 2, fair |
| `TradingControl` | `PauseHolds`, `ExitsGoOn`, `ImplementsQueue`, `ImplementsRisk` | a pause, a resume, a flatten; room for 1; fair |
| `TradingEngine` | `Backed`, `ExitsLeave` | 2 strategies in a coin, money for one entry each way, a crash, PAPER, fair |
| `EntriesUnbooked` (`TradingEngine`) | `FilledIsBooked`: **violated** | the same, with 0 or 1 coin in the ledger's table; the trace ends in an entry |
| `StopWatchdog` (`MCStopWatchdog`) | `WatchSound`, `StoppedLeave`, `StoppedInTime` | 2 ids on a symbol, 3 positions ever made, so that an id is taken again beside another position; prices 1 to 3, stops set at 1 and trailed to 2, a crash from 3 to 1, fair |
| `HedgeExecution` | `LegsConsistent`, `HedgedOnce`, `NeverOversold`, `PairAnswered` | a pair of 2 units, 2 retries, either side, 2 answers lost, fair |
| `RiskOverlay` | `GatesClosed`, `LimitsLast` | equities 1000, 989, 985, 979, 964, 949 and no answer: one between every two limits of drawdown and day; stays of a tick |
| `Policies` (`MCPolicies`) | `StateIsEarned`, `TimeStopNeverQuicker`, `NoFlapping`, `DangerBuysNoMore`, `OnlyLowered` | 7 candles; 3 and 2 days of hysteresis; every signal; every account |
| `Services` (`MCServices`) | `MarketDataCurrent`, `BooksAgree`, `BacktestsBalance`, `BestIsMeasured`, `StreamSound` | see below |

What they show, beyond the names: indices and quantities never drift apart, and a
restart restores what is consistent even after racing saves; no trigger masks another
and HALT is left by hand only; commands run once, in order, and everybody is answered;
under an executed PAUSE no order is placed and exits go on; a strategy never believes in
more coins than the account could hold for it, and what passed its time stop leaves it;
the watchdog calls once per stop, takes no position but what it hands on or what replaced
it under its id, and finds every stop that stands; of the orders whose answer it saw the
executor hedges with one, never sells more back than was bought, and answers every pair; the
overlay's mode follows the loss it read and its gates stay closed behind it, and the engine
orders nothing in a deep one; a position's
state has been earned by what it saw; the profile does not flap by recording days; danger
never buys more; buffers hold the newest candles; tables and books agree with what
happened; accounts balance; what is called the best was measured; a trend does not flap;
and reconnecting never multiplies connections.

The properties say what the code guarantees, with its exceptions named. `RecordsExact`
leaves out the three ways in which the tables go wrong (section 4), `SessionMeasured`
the four in which a candidate's figures are not of its code, `HistoryComplete` the
candles passed over, `HedgedOnce` the orders whose answer was lost, `StoppedLeave` the
position that took an id a round still held, `NoFlapping` the mode set by hand and the stale
file, `RestoreExact` the partly sold position: outside of these nothing else goes wrong, and
section 4 lists each of them.

**Instances of `Services`.** Lists of up to 4 symbols in batches of 2 have every kind of
window, the short one included, and rounds are counted to 12, which every such length
divides, as the proof asks of the bound; a buffer of 3 and 6 minutes let each loader overtake the
other; 2 requests with pages of 2 over 3 candles cross, fail and meet at every page
boundary; 2 orders in 2 coins with 1 cached id race on each row; checks every 2nd and 4th
cycle keep the proportion of the code's 3 and 6 that matters (not every cycle); 3
candles hold a position to its time stop; 5 rounds, two of them of the generation, with one retry, and answers of
one optimization (what several do to one candidate is left to the theorem);
7 days with windows of 4 and steps of 2 end in a window that does not fit; 3 sockets
and 2 calls of connect give two chains of reconnections that cross, and one reconnection
of a lone chain; the cooldown is the code's.

**Bounds.** Every bounding constant says "bound" where it is declared, and bounds inside
a next-state relation are marked by the same word. Two symbols and strategies, and as many ids as a
pair and its successor need, give every shared coin, reopened pair and index collision;
two saves in flight give every race of a pair of saves; a queue smaller than the number of
handlers gives blocked putters and overtaking; counters that reach their limit from one
below it give everything a comparison with it can see; amounts are chosen on both sides
of, and at, every threshold in the code. Symmetry is used over values no
definition tells apart, and in no run with a liveness property. Deadlock is not checked
where the bounded environment runs out of ids, coins, requests or candles, or where an
offline tool ends.

**Fairness.** The monitor task, the main loop and the watchdog's loop repeat for ever,
await only sleeps or exchange calls with a time-out, and catch every exception: weak
fairness of their steps. A handler polls every 0.1 s, and a waiting putter is woken when
there is room: weak fairness for each. `HedgeExecution` assumes weak fairness of the
executor's next step and of the end of a wait, which is a time-out. `TradingEngine`
assumes in addition that the exchange decides what lives there, and (strong fairness)
that selling a position past its time stop, tried again every pass for ever, is not
refused every time; without it an exchange that always fails keeps every position.
Nothing is assumed of operators, failures, the market or the database.

## 4. What the code does that its text does not say

Shown by a run: no entry is ever booked. `_execute_v3_signal` creates `FillEvent` without
`requested_price` after the order was placed (`EntriesUnbooked`, `core.py:985`); the
exit does the same (`core.py:1098`), and the strategy has forgotten the position by then.

Met while modelling, and part of the models (the actions do what the code does):

* Engine. Every 30th pass ends before strategies and exits, because `core.py:355` calls a
  method that does not exist. The mode is checked before a sequence of awaits and may be
  SAFE when the order is placed. PAPER skips exits as well (`core.py:1066`). An exit
  sells the whole balance of a coin, other strategies' coins included.
* Ledger. Two strategies in a coin are each compared with the whole balance; concurrent
  saves may lose an insert. `restore_from_database` says that it restores open positions,
  and `is_open` (`position_ledger.py:60`) counts a partly sold one as open, but the query
  takes rows of status OPEN only (`position_ledger.py:170`): a partly sold position is
  forgotten by a restart. `RestoreExact` says nothing of it, so that it holds either way.
* Risk engine. The week's loss never disables the satellite: `risk_engine.py:371` reads
  `pnl_week_pct`, which `Ledger.get_summary` (`portfolio/ledger.py:227`) does not return.
  The liquidation distance never triggers HALT: its helper returns None
  (`risk_engine.py:375`). The failure rate triggers at 20 %, not above it
  (`risk_engine.py:63`, `:268`), and the rise of BTC's volatility without the fall that the
  class names (`:66`, `:276`). The start of high latency survives rounds that return before
  looking at it.
* Watchdog. Stops are collected over awaits and executed without another look: a position
  re-priced or removed meanwhile is handed on all the same, and since
  `stop_watchdog.py:455` removes by id, one added under the id of a stop leaves the watch
  with it, sold by nobody. It leaves before its sale is tried, whatever comes of that.
* Executor. An order whose answer is lost counts as refused (`executor.py:565`-`610`): the
  exchange may execute it besides the retry, or after the spot order was sold back, so that
  a pair is hedged twice, or left with a hedge alone. `HedgedOnce` is about the orders whose
  answer the executor saw, by what the exchange executed of them.
* Overlay. "However good the signal, no entry where 1 to 3 show danger" (`risk_overlay.py:10`)
  is not so: a pass asks its decision for HALT (`core.py:869`) and, for the size, for the
  multiplier. An unsafe system (whose multiplier of 0 the tier of the drawdown overwrites), SAFE, a
  drawdown of 3.5 %, a denied satellite and a regime off hold back no entry; `can_open_*`
  are called by nobody. "2 % of drawdown alone makes SAFE" (`risk/config.py:82`,
  `risk_overlay.py:430`) is not so between 0.5 and 1 % of daily loss: there the combined
  trigger, meant to tighten, switches the plain one off (`risk_overlay.py:463`) and sets
  nothing. A gradual close overwrites a longer stay (`position_reducer.py:267`). Nobody calls
  the forced reductions.
* Capital profile. `force_mode` resets the counts of consecutive days
  (`hysteresis_tracker.py:299`) but not the days they are counted from, so that the next
  record may undo it; a restart from a file that missed a save undoes a change, and the same
  day recorded again makes it a second time. Nobody calls `on_day_close` or `force_mode`.
* Market data. The candle window does not wrap (`core.py:557`): the last round of a turn
  is short, so a symbol may wait almost a whole list of rounds. A round whose loads failed
  counts as a refresh (`core.py:568`). A late answer overwrites
  a closed candle with the open one it saw. The BTC regime takes the absolute change
  (`core.py:784`): a falling BTC is bullish, BEARISH and VOLATILE are never reached.
* Records. The id of an order is the length of a capped list and the second
  (`core.py:1526`): past the cap two orders of a second share it, and the second is not
  recorded. Two tasks that write the day's row at once lose a count. A second open row of
  a coin makes every later sale of it raise (`core.py:1646`). The snapshot adds the profit of
  the day again each time (`core.py:1317`).
* Reconciler. Failures seen only in positions or orders never escalate: a cycle that
  does not look at them counts as a success between. `record_trade` raises on
  `StrategyType.CORE` after counting the trade.
* Policies. With a daily loss between 1.5 and 2 % AGGRESSIVE stays bold while BALANCED
  drops to SAFE. The full exit of EXTREME is unreachable. The attack policy's risk cap
  never decides after the gate.
* Candle history. The candle between two pages is lost (the end is exclusive on both);
  `fill_gaps` never looks between the oldest and newest candle; a failed store leaves the
  shared session unusable for later symbols. Pages are asked for in KST, as the comment in the
  fetcher claims Upbit wants it: that is assumed, and both readings of "up to" are checked.
* Backtests. The entry's commission is in the cash and not in the trade's profit; open
  losses do not show in an equity at cost; with several strategies a sale by the bare
  symbol does nothing; `run_backtest.py` sees the open hour of BTC; its minimum score
  decides for PULLBACK only; symbols without a last candle stay open at cost.
* Optimizers. An optimization that does not compile restores parameters but not code
  (`round_controller.py:296`); an exception in a round skips the rollback; the final
  parameters of the model are not measured. The language-model search drops names left
  out of an answer; a new name ends it before it saves.
* Stream. `disconnect()` is followed by `onclose`, which reconnects although told to stop.
  `connect()` while a socket is connecting makes a second one; with two chains the interval
  of one is overwritten and pings for ever. A connection that joins or leaves during a
  broadcast makes it raise. The server's "pong" is not the JSON the client parses.
* Trend. A trend kept in the cooldown takes the confidence of the opposite reading, so that
  after a change to BULLISH the buying strategies may run up to 30 minutes into a fall. The conservative
  strategy recommended in doubt never starts: it asks for the confidence that is missing.

## 5. The theorems

For every value of the constants that satisfies the modules' assumptions. Each module
of proofs names its inductive invariants at its head; a lemma says that the initial
states have it, one lemma per action (or group of actions) that it is kept, and one
step lemma puts them together.

* **`LedgerProofs`, the ledger in memory.** Types, `IndexExact`, `OneOpenPerPair`,
  `StatusMatchesQuantity` (together `Consistent`), `ClosedIsFinal`, and that the ledger
  implements `LedgerBook`, with and without overrides. `LedgerInv` is the conjunction of
  the four invariants: none is inductive alone. An index is exact after a close only if
  the position closed was the only entry under its id; a fill finds the open position
  only if the indices are exact; and a pair gets no second position only because a fill
  finds the first.
* **`LedgerProofs`, overrides.** `OverrideReconciles`. It needs, besides `LedgerInv`, that
  there are finitely many positions: "one open position" is a cardinality, and only of a
  finite set does 1 mean that there is no other.
* **`LedgerProofs`, the ledger and its table.** `PConsistent`, `SavedWhenSettled`,
  `NeverReopened`, `RestoreExact`. `OneOpenPerPair` is no part of `PInv`, because a
  restart can bring back two open rows of a pair: what does survive is that the ledger
  is indexed. `RestoreExact` speaks of the rows OPEN and CLOSED at the crash. `PInv` says
  besides that a row is as far as its position or behind it and
  never ahead, that a save carries what it read, and that a position that did not move
  during its save has that one save under way and the row it was read from.
* **`RiskProofs`, the risk engine.** Types, by one lemma per group of events;
  `HaltIsManual` and `NormalIsClean` follow from what each action does to the mode, and
  `CausesEscalate` from what a round does to a trigger it finds, and from fairness: of the
  triggers the code can raise, that is, without the two dead ones.
* **`RiskProofs`, the overlay.** `GatesClosed`, `LimitsLast`. `OverlayInv` says what the
  stages of a decision hand on, that the mode stands for the loss of the account as it was
  read, and that nothing is held against an account that was not. Neither the gates nor the
  orders of a pass follow without the second: a gate tests the mode, and what the mode means
  is set four stages earlier.
* **`RiskProofs`, the watchdog.** `WatchSound`, that nothing is handed on twice, and
  `StoppedLeave`, that a round takes from the watch only what it hands on or what took the
  place of that under its id. A round hands on objects it collected
  earlier but takes ids from the watch; `WatchInv` says that an object is watched under
  its own id only, and that what a round still holds, or the watch contains, has not been
  handed on. Both are needed for "once": without the first, removing an id would leave
  the object watched elsewhere. `RoundsShrink` and `StopsAreExecuted`: a round that
  begins while an object is at its stop has it until it executes its stops.
* **`OrderProofs`, hedge pairs.** `LegsConsistent`, `HedgedOnce`, `NeverOversold`, by what
  the exchange executed. `PairInv` says that an order ahead of the current one is
  untouched, how much the exchange can
  execute of each order and when, that a fill is booked on top of nothing, and that the
  order which succeeded is the current one. `LegsEnd`: an order that was polled as
  executed is acknowledged and never SENT again, so a leg goes round its wait once.
* **`PolicyProofs`.** `OnlyLowered`, `StateIsEarned`, `TimeStopNeverQuicker`,
  `DangerBuysNoMore`, `NoFlapping`. `StateIsEarned` is inductive only
  together with the bound that relates the counter of strong scores to its history.
  `DangerBuysNoMore` compares two evaluations of the same operators and is proved by
  monotonicity of each of them. `NoFlapping` counts days over every restart, so that its
  invariant says, of a mode neither set by hand nor changed by a stale file, that no further
  back than days have passed since it changed there is a recorded day against changing again,
  one that can no longer be recorded anew. It has the hypotheses `PreserveDays > 1` and
  `GrowthDays > 1`: with one day the change looks at a single day, which may be the very
  day on which it changed before, recorded again; TLC gives the counterexample, and the
  code asks for three and two days.
* **`CommandQueueProofs`.** Types, `FirstInFirstRun`, `PendingExact`. `QueueInv` adds to
  them where the clients of accepted commands and of results can be, that the executing
  command is the last one that ran, and the order index by index; without these a
  completed command could still be queued, or a put one already have a result.
  `WaitersReturn`, `QueuedCommandsMoveUp` and `RoomComes` are what `EveryRequestEnds` is
  made of.
* **`TradingControlProofs`.** Every step of the composition is a step of `CommandQueue`
  or none, and of `RiskEngine` or none, so what is proved of those holds here; and
  `PauseHolds`, from `PauseInv`: a pause keeps the mode out of NORMAL, and the
  strategies never run under one. `ControlServesTheQueue` and `ControlServesTheRisk` add
  the fairness to the refinement, and `ExitsGoOnAlways` follows the pass round.
* **`OrderProofs`, the engine.** `Backed`, and `PositionLimit`, which no run lists. That
  believed coins are in the account is not inductive, because a live sale takes coins
  away later: `EngineInv` says that they are covered by the coins that are free, and for
  the limit that signals are counted before they are tried.
* **`ServiceProofs`, the stream.** `StreamSound`. `StreamInv` counts: the connections
  alive and the timers waiting are never more than the calls of `connect`. That pings of
  a lone chain go where its connection is follows from there being one: a socket that is
  not closing is the current one, and the interval that can be cleared is its own.
* **`ServiceProofs`, records and reconciler.** `BooksAgree`. `RecordsInv` relates each
  row to the steps its tasks have still to do: what happened is what the row says and
  what is read but not written, as long as no named error struck the row. `ReconcileInv`
  says that every failure counted has a drift behind it and that an unexplained drift
  was counted when it was looked for. The hypotheses on the intervals are those of the
  code's 3 and 6 cycles: positions not in every cycle, orders a multiple of them.
* **`ServiceProofs`, sessions and searches.** `BestIsMeasured`. `SessionInv` says what
  each reason promises: without one the figures are of the candidate's code and
  parameters, and a kept code differs from the measured one while the parameters are
  those measured. The proof found the property too weak: with two rounds of generation
  an optimization can be taken back of a candidate that already had a reason, and the
  reason that then holds is the earlier one. The model, the property and the bounds of
  the run were changed to say so. `SearchInv` adds the types; `WindowsInv` where the
  next window begins, and `BestIsTried` what the fold over the tried combinations
  yields, for any sequence of them.
* **`ServiceProofs`, backtests.** `BacktestsBalance`. `EngineInv` and `SimpleInv` say that
  the account is balanced, with what is invested as a sum that a position enters when it
  is opened and leaves when it is closed, and that what is open has been seen at a price:
  without that the end could close a position at no price. Exits and signals are folds
  over sets and sequences, whose every step keeps the balance, so that their result does
  (`AllClosed`, `SignalsKeep`). That no score but PULLBACK's refuses what met the conditions
  (`ScoreFollows`) is arithmetic on the thresholds. The prices and what the strategies
  may say are those of the models; capital, limits and lengths are any.
* **`ServiceProofs`, market data.** `MarketDataCurrent`. `ListInv` says of each symbol that
  the rounds behind it and the rounds until its next turn are together fewer than the
  symbols. That this can be so of all of them at every round is the arithmetic of the
  code's `(round * batch) % n`: the starts of the windows come round within n rounds
  (`StartsReturn`), and some window holds any given place (`SomeWindow`). `BufferInv` says
  that a buffer is in order and holds the newest of what it was given. The sort of
  `CandleBuffer.add` is modelled by what it returns, the same candles in order; that there
  is one, and which (`OrderExists`, `SortedIs`), is proved by where each candle goes.
* **`ServiceProofs`, candle history.** `HistoryComplete`, a part of the same theorem.
  `HistoryInv` says that a time once asked for is stored, lost, or still before some request
  at work, and of a page in hand that whatever it leaves out of its range is older than all
  it holds, and then it is full (`PageIs`, `NewestOf`): so that the next page ends at or
  above everything that is missing (`NextToIs`). That no final candle is replaced by
  an open one needs that the open candles of a page, unless another page was stored since
  it was asked for, meet no final row.
* **`ServiceProofs`, the trend.** `RegimeSettles` is inductive, given the types.
* **`SetProofs`.** What `Min`, `Max`, sums and folds over finite sets come to: the community
  module defines them by a recursive function on subsets. The induction theorems of
  the library take an operator as a parameter, which the provers cannot instantiate;
  instead each fact is shown by looking at a smallest set that would be an exception,
  which exists because strict inclusion is well-founded on finite sets.

Every invariant and every action property that a run checks has a theorem.

**Liveness.** The theorems about it start from the fairness of the specifications
(`FairSpec`, `HedgeSpec`, `WatchSpec`), and two things are left outside of them.

* *ENABLED.* The prover has no rules for it. What a proof has to know of it is a hypothesis of
  the theorem, `[](Guard => ENABLED <<Action>>_vars)` with the guard of the code
  (`LoopDue`, `RoundDue`, `Underway`, ...); the refinements need besides that a step of the
  queue is enabled only where the loop or handler can make it (`LoopCanStep`,
  `HandlerCanStep`, `MonitorCanStep`). Each says that a task with
  something to do can do it, and is a state predicate: evaluated by TLC as an invariant of
  the instance its run uses, every one of them holds.
* *Counting.* That a measure which goes down reaches its end is an induction over temporal
  formulas, which the provers cannot make. So the theorems say that it goes down, for
  any size: `QueuedCommandsMoveUp` (a place of the queue), `RoundsShrink` (the positions a
  round has left), `LegsEnd` (the orders of a pair), `StrategiesGoOn` (the buys of a
  pass). So many uses of the theorem as the bound has steps, MaxSize, MaxMade, Rollback,
  MaxBuys, give the rest. Where another theorem needs what follows from that it is a hypothesis in
  words of the model: `StopsAreExecuted` asks that rounds end, `ControlServesTheQueue`
  that the strategies do, `ExitsGoOnAlways` besides that a pass gets through its
  commands, which in the code as in the model is so as long as they do not come faster than
  they are executed. These hypotheses hold on the runs' instances as well. With
  `CleanupEvery = 1` every pass would end before the exits; the code has 30.

Proved in full but for ENABLED are `CausesEscalate` and the fairness of `ImplementsRisk`;
`ImplementsQueue` and, for each object, `StoppedInTime` up to one such hypothesis about
passes or rounds, `ExitsGoOn` up to two; `PairAnswered` and `EveryRequestEnds` up to
counting. A handler blocked on a full queue is one of the latter's cases with no theorem
of its own beyond `RoomComes`: a latecomer may get in before it, and only that there are
finitely many helps. Only model-checked is `ExitsLeave`: that every pass
comes to a given position rests on which others were sold and bought back before it.

## 6. Not modelled

* Numbers: prices, profit, fees, slippage, signal scores, indicators and features,
  correlation coefficients, the volatility index, liquidity and pump filters, metrics and
  trade analyses. They decide when something happens, which the models leave open, and a
  bounded check of arithmetic would say nothing of it.
* Views and output: the read-only routes, analytics, notifications, logs, the pages of the
  dashboard, reports; configuration and wiring; the declarations of tables.
* The exposure limits and the portfolio's risk budget (`risk/exposure_manager.py`,
  `risk/portfolio_risk.py`): the engine and the overlay create them, but no code asks them
  before an entry or tells them of one, so that no limit of theirs holds of the program. A
  model would have to invent the caller, and with it what it claims to check.
* The handler around the reconciler's checks (`reconcile.py:189`): each check catches what
  it raises, so nothing arrives there.
* Routes that go past the queue: `close_all_positions` and `test_buy` place orders from
  the handler. They race with the loop in the way FLATTEN does in `TradingEngine`.
* The Binance half of the symbol list, and perpetuals: no exchange of the repository
  provides them; `HedgeExecution` takes the exchange's interface for it.
* The v4 strategies, which only back-tests load, and the other one-off scripts.
* Parts the engine does not start are modelled by what they are given, since nothing says
  who would call them: the executor, the reconciler, the position state machine, the trend, the stream's broadcasts, and the
  watchdog's positions (its loop runs, but the engine adds nothing to it).

## 7. Plan

Every safety property has its theorem, and all liveness but `ExitsLeave` its steps. What
could be added is a wider model: the Binance
half of the symbol list, the v4 strategies, and the routes that go past the queue.
