------------------------- MODULE TradingControlProofs -------------------------
(***************************************************************************)
(* What holds of the main loop between the command queue and the risk       *)
(* engine, for any sets of requests and any limits: every step is a step of *)
(* the queue or leaves it alone, likewise for the risk engine, and a PAUSE  *)
(* holds.  The last needs to know, between the moment the mode is read and  *)
(* the orders, that only the loop itself could undo or set a pause.  Then   *)
(* that fair loop, monitor and handlers make a fair queue and risk engine.  *)
(***************************************************************************)
EXTENDS TradingControl, TLAPS

(* The main loop leaves the order of the commands to the queue: each of its  *)
(* steps is a step of CommandQueue or none.                                 *)
THEOREM ControlImplementsQueue == Spec => Queue!Spec
<1>1. Init => Queue!Init
  BY DEF Init
<1>2. ASSUME [Next]_vars PROVE [Queue!Next]_(Queue!queueVars)
  <2> USE DEF queueVars, Queue!queueVars
  <2>1. ASSUME NEW r \in Request, Submit(r) \/ Proceed(r) PROVE Queue!Next
    BY <2>1 DEF Submit, Proceed, Queue!Next, Queue!Handler
  <2>2. CASE TakeCommand \/ ExecuteCommand
    BY <2>2 DEF TakeCommand, ExecuteCommand, Queue!Next, Queue!Loop
  <2>3. CASE CommandsDone \/ MarketUpdated \/ Buy \/ StrategiesDone \/ ExitsDone \/ Wake
    BY <2>3 DEF CommandsDone, MarketUpdated, Buy, StrategiesDone, ExitsDone, Wake
  <2>4. CASE SafeResumeRoute \/ Monitor \/ Report
    BY <2>4 DEF SafeResumeRoute, Monitor, Report
  <2>5. CASE UNCHANGED vars
    BY <2>5 DEF vars
  <2> QED BY <1>2, <2>1, <2>2, <2>3, <2>4, <2>5 DEF Next, MainLoop
<1> QED BY <1>1, <1>2, PTL DEF Spec, Queue!Spec

(* The loop and the handlers change the mode by the risk engine's own        *)
(* operations: each step is a step of RiskEngine or none.                    *)
THEOREM ControlImplementsRisk == Spec => Risk!Spec
<1>1. Init => Risk!Init
  BY DEF Init
<1>2. ASSUME [Next]_vars PROVE [Risk!Next]_(Risk!vars)
  <2> USE DEF riskVars, Risk!vars, Risk!counters, Risk!feed
  <2>1. CASE \E r \in Request : Submit(r) \/ Proceed(r)
    BY <2>1 DEF Submit, Proceed
  <2>2. CASE ExecuteCommand
    BY <2>2 DEF ExecuteCommand, Risk!Next, Risk!Operator
  <2>3. CASE TakeCommand \/ CommandsDone \/ MarketUpdated \/ Buy \/ StrategiesDone
               \/ ExitsDone \/ Wake
    BY <2>3 DEF TakeCommand, CommandsDone, MarketUpdated, Buy, StrategiesDone, ExitsDone, Wake
  <2>4. CASE SafeResumeRoute \/ Monitor \/ Report
    BY <2>4 DEF SafeResumeRoute, Monitor, Report, Risk!Next, Risk!Operator, Risk!FailureEvent
  <2>5. CASE UNCHANGED vars
    BY <2>5 DEF vars
  <2> QED BY <1>2, <2>1, <2>2, <2>3, <2>4, <2>5 DEF Next, MainLoop
<1> QED BY <1>1, <1>2, PTL DEF Spec, Risk!Spec

-------------------------------------------------------------------------------
(* A pause keeps the mode out of NORMAL, and the strategies do not start     *)
(* under one.                                                               *)
PauseInv ==
  /\ paused => mode # "NORMAL"
  /\ pc = "strategies" => ~paused

(* Of all that happens beside the loop nothing leads to NORMAL.              *)
LEMMA OthersKeepInv ==
  ASSUME PauseInv, SafeResumeRoute \/ Monitor \/ Report
  PROVE  PauseInv'
<1>1. UNCHANGED <<pc, paused>>
  BY DEF SafeResumeRoute, Monitor, Report, loopVars
<1>2. mode' = "NORMAL" => mode = "NORMAL"
  <2>1. CASE SafeResumeRoute
    BY <2>1 DEF SafeResumeRoute, Risk!SafeResumeFromHalt, Risk!SafeToNormalFromHalt
  <2>2. CASE Monitor
    BY <2>2 DEF Monitor, Risk!Monitor, Risk!CheckAllConditions, Risk!CheckSafeConditions,
                Risk!ToHalt, Risk!ToSafe
  <2>3. CASE Report
    BY <2>3 DEF Report, Risk!OnReconcileFailure, Risk!OnReconcileSuccess,
                Risk!OnHedgeFailure, Risk!MarketMoves, Risk!ToSafe
  <2> QED BY <2>1, <2>2, <2>3
<1> QED BY <1>1, <1>2 DEF PauseInv

LEMMA LoopKeepsInv ==
  ASSUME PauseInv, MainLoop
  PROVE  PauseInv'
<1>1. CASE ExecuteCommand
  <2>1. pc = "commands" /\ UNCHANGED pc
    BY <1>1 DEF ExecuteCommand
  <2>2. paused' => mode' # "NORMAL"
    <3>1. CASE Risk!Pause
      BY <3>1, SMT DEF Risk!Pause, Risk!ToSafe
    <3>2. CASE paused' = (paused /\ mode' # "NORMAL")
      BY <3>2, Zenon
    <3>3. CASE UNCHANGED <<riskVars, paused>>
      BY <3>3 DEF PauseInv, riskVars
    <3> QED BY <1>1, <3>1, <3>2, <3>3, Zenon DEF ExecuteCommand
  <2>3. pc' # "strategies"
    BY <2>1
  <2> QED BY <2>2, <2>3 DEF PauseInv
<1>2. CASE MarketUpdated
  BY <1>2 DEF PauseInv, MarketUpdated, Risk!CanOpenNewPosition, riskVars
<1>3. CASE TakeCommand \/ CommandsDone \/ Buy \/ StrategiesDone \/ ExitsDone \/ Wake
  BY <1>3 DEF PauseInv, TakeCommand, CommandsDone, Buy, StrategiesDone, ExitsDone, Wake,
              riskVars, loopVars
<1> QED BY <1>1, <1>2, <1>3 DEF MainLoop

(* Between an executed PAUSE and the next RESUME that succeeds no order is   *)
(* placed by the strategies.                                                *)
THEOREM PauseHoldsAlways == Spec => PauseHolds
<1>1. Init => PauseInv
  BY DEF Init, PauseInv
<1>2. ASSUME PauseInv, [Next]_vars PROVE PauseInv'
  <2>1. CASE \E r \in Request : Submit(r) \/ Proceed(r)
    BY <1>2, <2>1 DEF Submit, Proceed, riskVars, loopVars, PauseInv
  <2>2. CASE UNCHANGED vars
    BY <1>2, <2>2 DEF vars, riskVars, loopVars, PauseInv
  <2> QED BY <1>2, <2>1, <2>2, LoopKeepsInv, OthersKeepInv DEF Next
<1>3. PauseInv => [Buy => ~paused]_vars
  BY DEF PauseInv, Buy
<1>4. Spec => []PauseInv
  BY <1>1, <1>2, PTL DEF Spec
<1> QED BY <1>3, <1>4, PTL DEF PauseHolds

-------------------------------------------------------------------------------
(* The fairness of the queue and of the risk engine follows from the loop's, *)
(* the monitor's and the handlers'.  Which steps are enabled the prover      *)
(* cannot see: what it has to know of ENABLED is said here, and taken as a   *)
(* hypothesis where it is needed.                                           *)

CommandDue == executing # NoRequest \/ queue # <<>>

(* The loop can always make a step of its pass, and the queue's only when    *)
(* there is a command.                                                      *)
LoopCanStep ==
  /\ ENABLED <<MainLoop>>_vars
  /\ ENABLED <<Queue!Loop>>_(Queue!queueVars) => CommandDue

(* A handler can go on whenever its part of the queue can.                   *)
HandlerCanStep(r) ==
  /\ ENABLED <<Queue!PutWoken(r)>>_(Queue!queueVars) =>
       client[r] = "putting" /\ ENABLED <<Proceed(r)>>_vars
  /\ ENABLED <<Queue!GetResult(r) \/ Queue!TimeOut(r)>>_(Queue!queueVars) =>
       client[r] = "waiting" /\ ENABLED <<Proceed(r)>>_vars

(* A monitor of the risk engine can always make a round here.                *)
MonitorCanStep == ENABLED <<Risk!Monitor>>_(Risk!vars) => ENABLED <<Monitor>>_vars

(* Where the pass of the loop goes on; only the loop itself moves it.        *)
LEMMA PassGoesOn ==
  ASSUME [Next]_vars
  PROVE  /\ ~MainLoop => pc' = pc
         /\ MainLoop =>
              /\ pc = "market" => pc' \in {"asleep", "strategies", "exits"}
              /\ pc = "strategies" => pc' \in {"strategies", "exits"}
              /\ pc = "exits" => pc' = "asleep"
              /\ pc = "asleep" => pc' = "commands"
              /\ pc = "commands" /\ CommandDue => pc' = "commands"
              /\ pc = "commands" => pc' \in {"commands", "market"}
<1>1. ~MainLoop => pc' = pc
  BY DEF Next, Submit, Proceed, SafeResumeRoute, Monitor, Report, loopVars, vars
<1>2. ASSUME MainLoop
      PROVE  /\ pc = "market" => pc' \in {"asleep", "strategies", "exits"}
             /\ pc = "strategies" => pc' \in {"strategies", "exits"}
             /\ pc = "exits" => pc' = "asleep"
             /\ pc = "asleep" => pc' = "commands"
             /\ pc = "commands" /\ CommandDue => pc' = "commands"
             /\ pc = "commands" => pc' \in {"commands", "market"}
  BY <1>2 DEF MainLoop, TakeCommand, ExecuteCommand, CommandsDone, MarketUpdated, Buy,
              StrategiesDone, ExitsDone, Wake, loopVars, CommandDue
<1> QED BY <1>1, <1>2

(* A step of the pass at its commands, with one due, is a step of the queue. *)
LEMMA PassServesTheQueue ==
  ASSUME <<MainLoop>>_vars, pc = "commands", CommandDue
  PROVE  <<Queue!Loop>>_(Queue!queueVars)
<1>1. TakeCommand \/ ExecuteCommand
  BY DEF MainLoop, CommandsDone, MarketUpdated, Buy, StrategiesDone, ExitsDone, Wake, CommandDue
<1>2. CASE TakeCommand
  BY <1>2 DEF TakeCommand, Queue!Loop, vars, queueVars, Queue!queueVars
<1>3. CASE ExecuteCommand
  <2>1. Queue!Complete /\ executing' # executing
    BY <1>3 DEF ExecuteCommand, Queue!Complete
  <2> QED BY <2>1 DEF Queue!Loop, Queue!queueVars
<1> QED BY <1>1, <1>2, <1>3

(* A step of a handler is a step of the queue.                               *)
LEMMA HandlersServeTheQueue ==
  ASSUME NEW r \in Request, <<Proceed(r)>>_vars
  PROVE  /\ client[r] = "putting" => <<Queue!PutWoken(r)>>_(Queue!queueVars)
         /\ client[r] = "waiting" => <<Queue!GetResult(r) \/ Queue!TimeOut(r)>>_(Queue!queueVars)
BY DEF Proceed, Queue!PutWoken, Queue!GetResult, Queue!TimeOut, vars, queueVars, Queue!queueVars

(* A buy of the strategies brings them nearer to the last they may place:    *)
(* bought is at most MaxBuys, so so many uses of the theorem end them.       *)
THEOREM StrategiesGoOn ==
  ASSUME NEW n \in Nat
  PROVE  FairSpec /\ []LoopCanStep
         => (pc = "strategies" /\ bought = n ~> pc = "exits" \/ (pc = "strategies" /\ bought = n + 1))
<1> DEFINE Here == pc = "strategies" /\ bought = n
           On == pc = "exits" \/ (pc = "strategies" /\ bought = n + 1)
<1>1. Here /\ [Next]_vars => Here' \/ On'
  BY DEF Next, Submit, Proceed, SafeResumeRoute, Monitor, Report, loopVars, vars, MainLoop,
         TakeCommand, ExecuteCommand, CommandsDone, MarketUpdated, Buy, StrategiesDone, ExitsDone, Wake
<1>2. Here /\ <<MainLoop>>_vars => On'
  BY DEF MainLoop, TakeCommand, ExecuteCommand, CommandsDone, MarketUpdated, Buy, StrategiesDone,
         ExitsDone, Wake
<1> HIDE DEF Here, On
<1>3. FairSpec /\ []LoopCanStep => (Here ~> On)
  BY <1>1, <1>2, PTL DEF FairSpec, Spec, LoopCanStep
<1> QED BY <1>3 DEF Here, On

(* The queue is served as CommandQueue demands, fairness included: a loop    *)
(* whose strategies end comes back to its commands, in whatever mode, and    *)
(* takes none of them for another step.                                      *)
THEOREM ControlServesTheQueue ==
  /\ FairSpec
  /\ []LoopCanStep
  /\ \A r \in Request : []HandlerCanStep(r)
  /\ pc = "strategies" ~> pc = "exits"
  => ImplementsQueue
<1> DEFINE C == pc = "commands"
           M == pc = "market"
           S == pc = "strategies"
           E == pc = "exits"
           A == pc = "asleep"
           Fair == FairSpec /\ []LoopCanStep /\ (S ~> E)
           QueueFair == WF_(Queue!queueVars)(Queue!Loop)
           Can == \A r \in Request : []HandlerCanStep(r)
<1>1. Spec => [](C \/ M \/ S \/ E \/ A)
  <2>1. Init => C
    BY DEF Init
  <2>2. (C \/ M \/ S \/ E \/ A) /\ [Next]_vars => (C \/ M \/ S \/ E \/ A)'
    BY PassGoesOn
  <2> QED BY <2>1, <2>2, PTL DEF Spec
<1>2. /\ M /\ [Next]_vars => M' \/ A' \/ S' \/ E'
      /\ E /\ [Next]_vars => E' \/ A'
      /\ A /\ [Next]_vars => A' \/ C'
      /\ C /\ CommandDue /\ [Next]_vars => C'
  BY PassGoesOn
<1>3. /\ M /\ <<MainLoop>>_vars => A' \/ S' \/ E'
      /\ E /\ <<MainLoop>>_vars => A'
      /\ A /\ <<MainLoop>>_vars => C'
  BY PassGoesOn DEF Next
<1>4. C /\ CommandDue /\ <<MainLoop>>_vars => <<Queue!Loop>>_(Queue!queueVars)
  BY PassServesTheQueue
<1> HIDE DEF C, M, S, E, A
<1>5. Fair => QueueFair
  BY <1>1, <1>2, <1>3, <1>4, PTL DEF FairSpec, Spec, LoopCanStep
<1>6. ASSUME NEW r \in Request
      PROVE  HandlerFairness(r) /\ []HandlerCanStep(r) => Queue!ClientFairness(r)
  <2>1. <<Proceed(r)>>_vars /\ client[r] = "putting" => <<Queue!PutWoken(r)>>_(Queue!queueVars)
    BY HandlersServeTheQueue
  <2>2. <<Proceed(r)>>_vars /\ client[r] = "waiting" =>
          <<Queue!GetResult(r) \/ Queue!TimeOut(r)>>_(Queue!queueVars)
    BY HandlersServeTheQueue
  <2> QED BY <2>1, <2>2, PTL DEF HandlerFairness, HandlerCanStep, Queue!ClientFairness
<1>7. HandlersFairness /\ Can => Queue!ClientsFairness
  BY <1>6 DEF HandlersFairness, Queue!ClientsFairness
<1>8. FairSpec => Spec /\ HandlersFairness
  BY PTL DEF FairSpec
<1>9. Fair /\ Can => ImplementsQueue
  BY <1>5, <1>7, <1>8, ControlImplementsQueue, PTL DEF ImplementsQueue, Queue!FairSpec
<1> QED BY <1>9 DEF S, E

(* The risk engine is served as RiskEngine demands, fairness included: the   *)
(* loop and the handlers do not keep its monitor from its rounds.            *)
THEOREM ControlServesTheRisk == FairSpec /\ []MonitorCanStep => ImplementsRisk
<1>1. <<Monitor>>_vars => <<Risk!Monitor>>_(Risk!vars)
  BY DEF Monitor, vars, riskVars, Risk!vars, Risk!counters, Risk!feed
<1> QED BY <1>1, ControlImplementsRisk, PTL
           DEF FairSpec, MonitorCanStep, ImplementsRisk, Risk!FairSpec

(* The exits come again and again, in every mode, although the pass that is  *)
(* due a clean-up ends before them, if passes do: if a pass gets through its *)
(* commands and its strategies, and not every pass is one of the clean-up.   *)
THEOREM ExitsGoOnAlways ==
  ASSUME CleanupEvery > 1
  PROVE  /\ FairSpec
         /\ []LoopCanStep
         /\ pc = "commands" ~> pc = "market"
         /\ pc = "strategies" ~> pc = "exits"
         => ExitsGoOn
<1> DEFINE C == pc = "commands"
           M == pc = "market"
           S == pc = "strategies"
           E == pc = "exits"
           A == pc = "asleep"
           Fresh == sinceClean = 0
           Fair == FairSpec /\ []LoopCanStep /\ (C ~> M) /\ (S ~> E)
<1>1. Spec => [](C \/ M \/ S \/ E \/ A)
  <2>1. Init => C
    BY DEF Init
  <2>2. (C \/ M \/ S \/ E \/ A) /\ [Next]_vars => (C \/ M \/ S \/ E \/ A)'
    BY PassGoesOn
  <2> QED BY <2>1, <2>2, PTL DEF Spec
<1>2. ASSUME [Next]_vars, ~MainLoop PROVE UNCHANGED <<pc, sinceClean>>
  BY <1>2 DEF Next, Submit, Proceed, SafeResumeRoute, Monitor, Report, loopVars, vars
<1>3. ASSUME MainLoop, M
      PROVE  IF sinceClean + 1 >= CleanupEvery THEN A' /\ Fresh' ELSE S' \/ E'
  BY <1>3 DEF MainLoop, TakeCommand, ExecuteCommand, CommandsDone, MarketUpdated, Buy,
              StrategiesDone, ExitsDone, Wake
<1>4. ASSUME MainLoop, ~M PROVE UNCHANGED sinceClean
  BY <1>4 DEF MainLoop, TakeCommand, ExecuteCommand, CommandsDone, MarketUpdated, Buy,
              StrategiesDone, ExitsDone, Wake, loopVars
<1>5. Fresh => ~(sinceClean + 1 >= CleanupEvery)
  BY ControlAssumption
<1> HIDE DEF Fresh
<1>6. /\ M /\ [Next]_vars => M' \/ (A' /\ Fresh') \/ S' \/ E'
      /\ M /\ Fresh /\ [Next]_vars => (M' /\ Fresh') \/ S' \/ E'
      /\ ~M /\ Fresh /\ [Next]_vars => Fresh'
  BY <1>2, <1>3, <1>4, <1>5 DEF Fresh
<1>7. /\ M /\ <<MainLoop>>_vars => (A' /\ Fresh') \/ S' \/ E'
      /\ M /\ Fresh /\ <<MainLoop>>_vars => S' \/ E'
      /\ A /\ <<MainLoop>>_vars => C'
  BY <1>3, <1>5, PassGoesOn DEF Next
<1>8. /\ A /\ [Next]_vars => A' \/ C'
      /\ C /\ [Next]_vars => C' \/ M'
  BY PassGoesOn
<1>9. A \/ C => ~M
  OBVIOUS
<1> HIDE DEF C, M, S, E, A
<1>10. Fair => []<>E
  BY <1>1, <1>6, <1>7, <1>8, <1>9, PTL DEF FairSpec, Spec, LoopCanStep
<1> QED BY <1>10 DEF C, M, S, E, ExitsGoOn
===============================================================================
