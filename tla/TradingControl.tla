---------------------------- MODULE TradingControl ----------------------------
(***************************************************************************)
(* engine/core.py's main loop between the API's handlers and the risk       *)
(* engine: it executes commands, reads the mode and, as that allows, runs   *)
(* the strategies, then the exits.  The command queue and the risk engine   *)
(* are the modules of those names: their variables are declared here and    *)
(* every change of them is an action of theirs, with the guards that its    *)
(* callers add.  The risk engine's monitor and the handlers run whenever    *)
(* the loop awaits.                                                         *)
(***************************************************************************)
EXTENDS Naturals, Sequences

CONSTANTS PauseRequest, ResumeRequest, OtherRequest, (* by command type      *)
          NoRequest, MaxSize,
          MaxReconcileFailures, Signals, None,
          CleanupEvery, (* passes between two clean-ups of pending orders   *)
          MaxBuys       (* bound: orders placed by the strategies in a pass *)

Request == PauseRequest \cup ResumeRequest \cup OtherRequest

ASSUME ControlAssumption ==
  /\ PauseRequest \cap ResumeRequest = {}
  /\ (PauseRequest \cup ResumeRequest) \cap OtherRequest = {}
  /\ CleanupEvery \in Nat \ {0} /\ MaxBuys \in Nat

VARIABLES client, queue, pending, results, executing, accepted, ran,
          mode, wsDisconnects, authFailures, reconcileFailures, silence,
          latency, highSince, orderEvents, satelliteDisabled, market,
          pc,         (* where the pass of the main loop is                 *)
          sinceClean, (* _pending_order_cleanup_counter                     *)
          bought,     (* orders the strategies placed in this pass          *)
          paused      (* history: a PAUSE ran, and no RESUME succeeded since *)

Queue == INSTANCE CommandQueue

(* No websocket and no order feeds the risk engine here.                     *)
Risk == INSTANCE RiskEngine WITH
  MaxWsDisconnect <- 1, MaxAuthFailures <- 1, Beyond <- 0,
  WsTimeout <- 1, LatencyWindow <- 1, LatencyDuration <- 1, MinOrderEvents <- 1,
  MaxOrderEvents <- 0, MaxLatencyEvents <- 0

queueVars == <<client, queue, pending, results, executing, accepted, ran>>
riskVars == <<mode, wsDisconnects, authFailures, reconcileFailures, silence, latency,
              highSince, orderEvents, satelliteDisabled, market>>
loopVars == <<pc, sinceClean, bought, paused>>
vars == <<queueVars, riskVars, loopVars>>

Stage == {"commands", "market", "strategies", "exits", "asleep"}

Init ==
  /\ Queue!Init
  /\ Risk!Init
  /\ pc = "commands"
  /\ sinceClean = 0
  /\ bought = 0
  /\ paused = FALSE

-------------------------------------------------------------------------------
(* The API's handlers.  /bot/resume refuses in HALT, /bot/safe-resume        *)
(* elsewhere; what they saw can have changed when the command is executed.   *)

Submit(r) ==
  /\ r \in ResumeRequest => mode # "HALT"
  /\ Queue!Put(r)
  /\ UNCHANGED <<riskVars, loopVars>>

Proceed(r) ==
  /\ Queue!PutWoken(r) \/ Queue!GetResult(r) \/ Queue!TimeOut(r)
  /\ UNCHANGED <<riskVars, loopVars>>

SafeResumeRoute ==
  /\ mode = "HALT"
  /\ Risk!SafeResumeFromHalt
  /\ UNCHANGED <<queueVars, loopVars>>

(* The monitor task, and what others report to the risk engine.              *)
Monitor == Risk!Monitor /\ UNCHANGED <<queueVars, loopVars>>

Report ==
  /\ \/ Risk!OnReconcileFailure \/ Risk!OnReconcileSuccess \/ Risk!OnHedgeFailure
     \/ Risk!MarketMoves
  /\ UNCHANGED <<queueVars, loopVars>>

-------------------------------------------------------------------------------
(* The main loop.                                                           *)

TakeCommand ==
  /\ pc = "commands"
  /\ Queue!Take
  /\ UNCHANGED <<riskVars, loopVars>>

(* Mutation of ExecuteCommand: RESUME sets the mode, without the risk engine. *)
ExecuteForced ==
  /\ pc = "commands"
  /\ Queue!Complete
  /\ \/ /\ executing \in PauseRequest
        /\ Risk!Pause
        /\ paused' = TRUE
     \/ /\ executing \in ResumeRequest
        /\ mode' = "NORMAL"
        /\ UNCHANGED <<wsDisconnects, authFailures, reconcileFailures, silence, latency,
                       highSince, orderEvents, satelliteDisabled, market>>
        /\ paused' = FALSE
     \/ /\ executing \in OtherRequest
        /\ UNCHANGED <<riskVars, paused>>
  /\ UNCHANGED <<pc, sinceClean, bought>>

(* Mutation of ExecuteCommand: a command that is no PAUSE or RESUME is        *)
(* dropped without an answer.                                               *)
ExecuteUnanswered ==
  /\ pc = "commands"
  /\ \/ executing \in OtherRequest
          /\ executing' = NoRequest
          /\ UNCHANGED <<client, queue, pending, results, accepted, ran, riskVars, paused>>
     \/ executing \in PauseRequest /\ Queue!Complete /\ Risk!Pause /\ paused' = TRUE
     \/ executing \in ResumeRequest /\ Queue!Complete /\ Risk!Resume
          /\ paused' = (paused /\ mode' # "NORMAL")
  /\ UNCHANGED <<pc, sinceClean, bought>>

(* A PAUSE and a RESUME go to the risk engine; the other commands leave it   *)
(* and the loop alone.                                                      *)
ExecuteCommand ==
  /\ pc = "commands"
  /\ Queue!Complete
  /\ \/ /\ executing \in PauseRequest
        /\ Risk!Pause
        /\ paused' = TRUE
     \/ /\ executing \in ResumeRequest
        /\ Risk!Resume
        /\ paused' = (paused /\ mode' # "NORMAL")
     \/ /\ executing \in OtherRequest
        /\ UNCHANGED <<riskVars, paused>>
  /\ UNCHANGED <<pc, sinceClean, bought>>

CommandsDone ==
  /\ pc = "commands"
  /\ executing = NoRequest /\ queue = <<>>
  /\ pc' = "market"
  /\ UNCHANGED <<queueVars, riskVars, sinceClean, bought, paused>>

(* Mutation of MarketUpdated: only HALT keeps the strategies from running.   *)
MarketUpdatedUnlessHalt ==
  /\ pc = "market"
  /\ sinceClean' = (sinceClean + 1) % CleanupEvery
  /\ pc' = IF sinceClean' = 0 THEN "asleep" ELSE IF mode # "HALT" THEN "strategies" ELSE "exits"
  /\ bought' = 0
  /\ UNCHANGED <<queueVars, riskVars, paused>>

(* Mutation of MarketUpdated: the counter is reset after the clean-up, which *)
(* raises.                                                                  *)
MarketUpdatedNotReset ==
  /\ pc = "market"
  /\ sinceClean' = IF sinceClean < CleanupEvery THEN sinceClean + 1 ELSE sinceClean
  /\ pc' = IF sinceClean' >= CleanupEvery THEN "asleep"
           ELSE IF Risk!CanOpenNewPosition THEN "strategies" ELSE "exits"
  /\ bought' = 0
  /\ UNCHANGED <<queueVars, riskVars, paused>>

(* After the market data the mode is read, once.  The engine has no method   *)
(* for the clean-up of pending orders: a pass that is due one ends there.    *)
MarketUpdated ==
  /\ pc = "market"
  /\ IF sinceClean + 1 >= CleanupEvery
       THEN sinceClean' = 0 /\ pc' = "asleep"
       ELSE /\ sinceClean' = sinceClean + 1
            /\ pc' = IF Risk!CanOpenNewPosition THEN "strategies" ELSE "exits"
  /\ bought' = 0
  /\ UNCHANGED <<queueVars, riskVars, paused>>

(* The strategies await the exchange before, between and after their orders. *)
Buy ==
  /\ pc = "strategies"
  /\ bought < MaxBuys
  /\ bought' = bought + 1
  /\ UNCHANGED <<queueVars, riskVars, pc, sinceClean, paused>>

StrategiesDone ==
  /\ pc = "strategies"
  /\ pc' = "exits"
  /\ UNCHANGED <<queueVars, riskVars, sinceClean, bought, paused>>

ExitsDone ==
  /\ pc = "exits"
  /\ pc' = "asleep"
  /\ UNCHANGED <<queueVars, riskVars, sinceClean, bought, paused>>

Wake ==
  /\ pc = "asleep"
  /\ pc' = "commands"
  /\ UNCHANGED <<queueVars, riskVars, sinceClean, bought, paused>>

MainLoop ==
  \/ TakeCommand \/ ExecuteCommand \/ CommandsDone \/ MarketUpdated
  \/ Buy \/ StrategiesDone \/ ExitsDone \/ Wake

Next ==
  \/ MainLoop
  \/ \E r \in Request : Submit(r) \/ Proceed(r)
  \/ SafeResumeRoute \/ Monitor \/ Report

Spec == Init /\ [][Next]_vars

(* A handler polls every 0.1 s.                                              *)
HandlerFairness(r) == WF_vars(Proceed(r))
HandlersFairness == \A r \in Request : HandlerFairness(r)

(* The loop and the monitor are tasks that only await sleeps and answers of  *)
(* the exchange, which has timeouts.                                         *)
FairSpec == Spec /\ WF_vars(MainLoop) /\ WF_vars(Monitor) /\ HandlersFairness

-------------------------------------------------------------------------------
TypeOK ==
  /\ Queue!TypeOK
  /\ Risk!TypeOK
  /\ pc \in Stage
  /\ sinceClean \in 0..CleanupEvery - 1
  /\ bought \in 0..MaxBuys
  /\ paused \in BOOLEAN

(* Between an executed PAUSE and the next RESUME that succeeds the           *)
(* strategies place no order, whatever else moves the mode meanwhile:        *)
(* failures, HALT, the operator's way out of HALT.                           *)
PauseHolds == [][Buy => ~paused]_vars

(* The loop never stops coming to its exits: in no mode, and not for the     *)
(* passes that the clean-up ends.                                           *)
ExitsGoOn == []<>(pc = "exits")

(* Placed in the loop, between handlers and monitor, the queue and the risk  *)
(* engine still keep to their own specifications, fairness included.         *)
ImplementsQueue == Queue!FairSpec
ImplementsRisk == Risk!FairSpec
===============================================================================
