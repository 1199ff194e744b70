------------------------------ MODULE MCServices ------------------------------
(***************************************************************************)
(* The services around the engine and its offline tools, each by itself:    *)
(* one of them moves in a behaviour, the others stay as they start.         *)
(***************************************************************************)
EXTENDS MarketData, CandleHistory, TradeRecords, Reconciler, BacktestEngine, SimpleBacktester,
        OptimizerSession, ParameterSearch, LiveStream, RegimeSwitch

VARIABLES which

Parts == {"list", "buffer", "history", "records", "reconcile", "books", "engine", "simple",
          "session", "rounds", "windows", "stream", "regime"}

(* Initial values that differ matter to one part only: the others start     *)
(* with one of them.                                                        *)
InitServices ==
  /\ which \in Parts
  /\ ListInit /\ BufferInit /\ HistoryInit /\ RecordsInit /\ ReconcileInit /\ EngineInit /\ SimpleInit
  /\ SessionInit /\ SearchInit /\ StreamInit /\ RegimeInit
  /\ which = "history" \/ (exchange.inclusive /\ exchange.traded = Times)
  /\ which = "records" \/ orderRows = {}
  /\ which = "reconcile" \/ \A a \in Accounts : actual[a] = 0
  /\ which = "engine" \/ ~(setup.margin \/ setup.multi)
  /\ which = "simple" \/ (chosen.strategy = "ATTACK" /\ chosen.exits = MainExits["ATTACK"])

NextServices ==
  \/ /\ which = "list" /\ ListNext
     /\ UNCHANGED <<which, bufferVars, historyVars, recordVars, reconcileVars, engineVars, simpleVars,
                    sessionVars, roundVars, windowVars, streamVars, regimeVars>>
  \/ /\ which = "buffer" /\ BufferNext
     /\ UNCHANGED <<which, listVars, historyVars, recordVars, reconcileVars, engineVars, simpleVars,
                    sessionVars, roundVars, windowVars, streamVars, regimeVars>>
  \/ /\ which = "history" /\ HistoryNext
     /\ UNCHANGED <<which, listVars, bufferVars, recordVars, reconcileVars, engineVars, simpleVars,
                    sessionVars, roundVars, windowVars, streamVars, regimeVars>>
  \/ /\ which = "records" /\ RecordsNext
     /\ UNCHANGED <<which, listVars, bufferVars, historyVars, reconcileVars, engineVars, simpleVars,
                    sessionVars, roundVars, windowVars, streamVars, regimeVars>>
  \/ /\ which = "reconcile" /\ ReconcileNext
     /\ UNCHANGED <<which, listVars, bufferVars, historyVars, recordVars, engineVars, simpleVars,
                    sessionVars, roundVars, windowVars, streamVars, regimeVars>>
  \/ /\ which = "books" /\ BooksNext
     /\ UNCHANGED <<which, listVars, bufferVars, historyVars, recordVars, engineVars, simpleVars,
                    sessionVars, roundVars, windowVars, streamVars, regimeVars>>
  \/ /\ which = "engine" /\ EngineNext
     /\ UNCHANGED <<which, listVars, bufferVars, historyVars, recordVars, reconcileVars, simpleVars,
                    sessionVars, roundVars, windowVars, streamVars, regimeVars>>
  \/ /\ which = "simple" /\ SimpleNext
     /\ UNCHANGED <<which, listVars, bufferVars, historyVars, recordVars, reconcileVars, engineVars,
                    sessionVars, roundVars, windowVars, streamVars, regimeVars>>
  \/ /\ which = "session" /\ SessionNext
     /\ UNCHANGED <<which, listVars, bufferVars, historyVars, recordVars, reconcileVars, engineVars,
                    simpleVars, roundVars, windowVars, streamVars, regimeVars>>
  \/ /\ which = "rounds" /\ RoundNext
     /\ UNCHANGED <<which, listVars, bufferVars, historyVars, recordVars, reconcileVars, engineVars,
                    simpleVars, sessionVars, windowVars, streamVars, regimeVars>>
  \/ /\ which = "windows" /\ WindowNext
     /\ UNCHANGED <<which, listVars, bufferVars, historyVars, recordVars, reconcileVars, engineVars,
                    simpleVars, sessionVars, roundVars, streamVars, regimeVars>>
  \/ /\ which = "stream" /\ StreamNext
     /\ UNCHANGED <<which, listVars, bufferVars, historyVars, recordVars, reconcileVars, engineVars,
                    simpleVars, sessionVars, roundVars, windowVars, regimeVars>>
  \/ /\ which = "regime" /\ RegimeNext
     /\ UNCHANGED <<which, listVars, bufferVars, historyVars, recordVars, reconcileVars, engineVars,
                    simpleVars, sessionVars, roundVars, windowVars, streamVars>>

-------------------------------------------------------------------------------
(* The picture of the market, of the moment and of the past, is as complete *)
(* as the code can make it, and the trend read off it does not flap.        *)
MarketDataCurrent ==
  EveryoneRefreshed /\ HalfListIsDue /\ BufferKeepsNewest /\ HistoryComplete /\ RegimeSettles

(* The tables of orders, days and positions, the failures the reconciler    *)
(* reports and the books of the day agree with what their writers were told, *)
(* in whatever order that came.                                             *)
BooksAgree == RecordsExact /\ DriftEscalates /\ DayAddsUp

(* Neither of the two backtesters makes or loses money but by its trades.   *)
BacktestsBalance == EngineBalances /\ SimpleBalances

(* What is called the best is something that was measured, in the sessions  *)
(* of the language model and in the searches for parameters alike.          *)
BestIsMeasured == SessionMeasured /\ SearchMeasured /\ WindowsMeasured
===============================================================================
