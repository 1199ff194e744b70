------------------------------ MODULE RiskEngine ------------------------------
(***************************************************************************)
(* risk/modes.py and risk/risk_engine.py: the trading mode, the events that *)
(* count against it, the monitor that escalates it and the operator's ways  *)
(* back.  The mode manager's lock is never waited for: no listener is ever  *)
(* registered, so nothing awaits while it is held, and each method is one   *)
(* action.  One Tick is one second.  Reasons and messages are left out.     *)
(***************************************************************************)
EXTENDS Naturals, Sequences, FiniteSets

CONSTANTS MaxWsDisconnect, MaxAuthFailures, MaxReconcileFailures,
          WsTimeout, LatencyWindow, LatencyDuration,
          MinOrderEvents,
          MaxOrderEvents, MaxLatencyEvents, (* the deques' maxlen           *)
          Beyond,     (* bound: how far the counters count past their limits *)
          Signals,    (* what the account and the market can show           *)
          None        (* no WS message yet; no high latency                 *)

ASSUME RiskAssumption ==
  /\ {MaxWsDisconnect, MaxAuthFailures, MaxReconcileFailures} \subseteq Nat \ {0}
  /\ {WsTimeout, LatencyDuration, MinOrderEvents, Beyond} \subseteq Nat
  /\ {LatencyWindow, MaxOrderEvents, MaxLatencyEvents} \subseteq Nat
  /\ Signals \subseteq {"safe loss", "halt loss", "volatile", "exposed"}
  /\ "halt loss" \in Signals => "safe loss" \in Signals
  /\ None \notin Nat

VARIABLES mode,
          wsDisconnects, authFailures, reconcileFailures,
          silence,      (* seconds since the last WS message                *)
          latency,      (* the latency events of the last LatencyWindow s   *)
          highSince,    (* seconds since the noted start of high latency    *)
          orderEvents,  (* the last minute's orders: did they succeed?      *)
          satelliteDisabled, (* by a weekly loss                            *)
          market        (* the Signals that show at present                 *)

counters == <<authFailures, reconcileFailures>>
feed == <<wsDisconnects, silence, latency, highSince>>
vars == <<mode, counters, feed, orderEvents, satelliteDisabled, market>>

Mode == {"NORMAL", "SAFE", "HALT"}

-------------------------------------------------------------------------------
(* ModeManager: a refused change leaves the mode as it is.                  *)

(* Mutation of ToSafe: HALT is not refused.                                 *)
ToSafeFromAny == mode' = "SAFE"

ToSafe == mode' = IF mode = "NORMAL" THEN "SAFE" ELSE mode
ToHalt == mode' = "HALT"
ToNormal == mode' = IF mode = "SAFE" THEN "NORMAL" ELSE mode
SafeToNormalFromHalt == mode' = IF mode = "HALT" THEN "SAFE" ELSE mode

CanOpenNewPosition == mode = "NORMAL"

-------------------------------------------------------------------------------
(* The conditions of the monitor.  Two of the documented ones are dead:     *)
(* the week's loss is summary.get("pnl_week_pct", 0.0), a key that          *)
(* Ledger.get_summary does not return, and 0 is no loss; and the helper for  *)
(* the liquidation distance returns None.                                   *)
WeeklyLossSeen == FALSE
LiquidationNear == FALSE

HaltCondition ==
  \/ "halt loss" \in market
  \/ reconcileFailures >= MaxReconcileFailures
  \/ authFailures >= MaxAuthFailures
  \/ LiquidationNear

(* The conditions looked at before the latency: each of them returns.       *)
FeedCondition ==
  \/ "safe loss" \in market
  \/ wsDisconnects >= MaxWsDisconnect
  \/ silence # None /\ silence > WsTimeout

AllHigh == latency # <<>> /\ \A i \in DOMAIN latency : latency[i].high

HighSinceNow ==
  IF ~AllHigh THEN None
  ELSE IF highSince = None THEN latency[1].age ELSE highSince

HighLatency == AllHigh /\ HighSinceNow >= LatencyDuration

(* failures / len >= 20 %, from MinOrderEvents orders on                    *)
OrdersFail ==
  LET failed == Cardinality({i \in DOMAIN orderEvents : ~orderEvents[i]})
  IN  Len(orderEvents) >= MinOrderEvents /\ 5 * failed >= Len(orderEvents)

LaterCondition ==
  HighLatency \/ OrdersFail \/ "volatile" \in market \/ "exposed" \in market

CheckSafeConditions ==
  \/ /\ FeedCondition
     /\ ToSafe
     /\ UNCHANGED highSince
  \/ /\ ~FeedCondition
     /\ highSince' = HighSinceNow
     /\ IF LaterCondition THEN ToSafe ELSE UNCHANGED mode

CheckKillSwitch ==
  satelliteDisabled' = (satelliteDisabled \/ WeeklyLossSeen)

(* Mutation of CheckAllConditions: SAFE ends the check as HALT does.        *)
CheckOnlyInNormal ==
  /\ \/ mode = "NORMAL" /\ HaltCondition /\ ToHalt /\ UNCHANGED <<highSince, satelliteDisabled>>
     \/ mode = "NORMAL" /\ ~HaltCondition /\ CheckSafeConditions /\ CheckKillSwitch
     \/ mode # "NORMAL" /\ UNCHANGED <<mode, highSince, satelliteDisabled>>
  /\ UNCHANGED <<counters, wsDisconnects, silence, latency, orderEvents, market>>

(* One round of the monitor.                                                *)
CheckAllConditions ==
  /\ \/ HaltCondition /\ ToHalt /\ UNCHANGED <<highSince, satelliteDisabled>>
     \/ ~HaltCondition /\ mode = "HALT" /\ UNCHANGED <<mode, highSince, satelliteDisabled>>
     \/ ~HaltCondition /\ mode # "HALT" /\ CheckSafeConditions /\ CheckKillSwitch
  /\ UNCHANGED <<counters, wsDisconnects, silence, latency, orderEvents, market>>

-------------------------------------------------------------------------------
(* Events.                                                                  *)

(* deque.append                                                             *)
Appended(events, e, maxlen) ==
  IF Len(events) < maxlen THEN Append(events, e)
  ELSE IF maxlen = 0 THEN events
  ELSE Append(Tail(events), e)

(* Mutation of OnWsMessage: the deque has no maxlen.                        *)
OnWsMessageUnbounded(delay) ==
  /\ silence' = 0
  /\ wsDisconnects' = 0
  /\ latency' = IF delay = "none" \/ Len(latency) > MaxLatencyEvents THEN latency
                ELSE Append(latency, [age |-> 0, high |-> delay = "high"])
  /\ UNCHANGED <<mode, counters, highSince, orderEvents, satelliteDisabled, market>>

(* A message whose latency is 0 or unknown is not recorded.                 *)
OnWsMessage(delay) ==
  /\ silence' = 0
  /\ wsDisconnects' = 0
  /\ latency' = IF delay = "none" THEN latency
                ELSE Appended(latency, [age |-> 0, high |-> delay = "high"], MaxLatencyEvents)
  /\ UNCHANGED <<mode, counters, highSince, orderEvents, satelliteDisabled, market>>

OnWsDisconnect ==
  /\ wsDisconnects < MaxWsDisconnect + Beyond
  /\ wsDisconnects' = wsDisconnects + 1
  /\ UNCHANGED <<mode, counters, silence, latency, highSince, orderEvents,
                 satelliteDisabled, market>>

OnWsReconnect ==
  /\ wsDisconnects' = 0
  /\ highSince' = None
  /\ UNCHANGED <<mode, counters, silence, latency, orderEvents, satelliteDisabled, market>>

OnOrder(ok) ==
  /\ orderEvents' = Appended(orderEvents, ok, MaxOrderEvents)
  /\ UNCHANGED <<mode, counters, feed, satelliteDisabled, market>>

(* The oldest order is more than a minute ago.                              *)
OrderAges ==
  /\ orderEvents # <<>>
  /\ orderEvents' = Tail(orderEvents)
  /\ UNCHANGED <<mode, counters, feed, satelliteDisabled, market>>

OnAuthFailure ==
  /\ authFailures < MaxAuthFailures + Beyond
  /\ authFailures' = authFailures + 1
  /\ UNCHANGED <<mode, reconcileFailures, feed, orderEvents, satelliteDisabled, market>>

OnReconcileFailure ==
  /\ reconcileFailures < MaxReconcileFailures + Beyond
  /\ reconcileFailures' = reconcileFailures + 1
  /\ UNCHANGED <<mode, authFailures, feed, orderEvents, satelliteDisabled, market>>

OnReconcileSuccess ==
  /\ reconcileFailures' = 0
  /\ UNCHANGED <<mode, authFailures, feed, orderEvents, satelliteDisabled, market>>

OnHedgeFailure ==
  /\ ToSafe
  /\ UNCHANGED <<counters, feed, orderEvents, satelliteDisabled, market>>

(* A daily loss beyond the HALT limit is beyond the SAFE limit.             *)
MarketMoves ==
  /\ \E m \in SUBSET Signals :
       /\ "halt loss" \in m => "safe loss" \in m
       /\ market' = m
  /\ UNCHANGED <<mode, counters, feed, orderEvents, satelliteDisabled>>

Older(age, limit) == IF age = None THEN None ELSE IF age < limit THEN age + 1 ELSE age

(* A second passes. The n oldest latency events leave the window.           *)
Tick ==
  /\ silence' = Older(silence, WsTimeout + 1)
  /\ \E n \in 0..Len(latency) :
       /\ \A i \in DOMAIN latency : latency[i].age + 1 >= LatencyWindow <=> i <= n
       /\ latency' = [i \in 1..(Len(latency) - n) |->
                        [age |-> latency[i + n].age + 1, high |-> latency[i + n].high]]
  /\ highSince' = Older(highSince, LatencyDuration)
  /\ UNCHANGED <<mode, counters, wsDisconnects, orderEvents, satelliteDisabled, market>>

-------------------------------------------------------------------------------
(* The operator.                                                            *)

Pause ==
  /\ ToSafe
  /\ UNCHANGED <<counters, feed, orderEvents, satelliteDisabled, market>>

(* Mutation of Resume: the reconcile failures are not looked at.            *)
ResumeUnchecked ==
  /\ IF authFailures > 0 THEN UNCHANGED mode ELSE ToNormal
  /\ UNCHANGED <<counters, feed, orderEvents, satelliteDisabled, market>>

Resume ==
  /\ IF reconcileFailures > 0 \/ authFailures > 0 THEN UNCHANGED mode ELSE ToNormal
  /\ UNCHANGED <<counters, feed, orderEvents, satelliteDisabled, market>>

(* The counters are reset whatever the mode is.                             *)
SafeResumeFromHalt ==
  /\ authFailures' = 0
  /\ reconcileFailures' = 0
  /\ SafeToNormalFromHalt
  /\ UNCHANGED <<feed, orderEvents, satelliteDisabled, market>>

ResetCounters ==
  /\ wsDisconnects' = 0
  /\ orderEvents' = <<>>
  /\ latency' = <<>>
  /\ highSince' = None
  /\ authFailures' = 0
  /\ reconcileFailures' = 0
  /\ satelliteDisabled' = FALSE
  /\ UNCHANGED <<mode, silence, market>>

EnableSatellite ==
  /\ satelliteDisabled' = FALSE
  /\ UNCHANGED <<mode, counters, feed, orderEvents, market>>

-------------------------------------------------------------------------------
Init ==
  /\ mode = "NORMAL"
  /\ wsDisconnects = 0 /\ authFailures = 0 /\ reconcileFailures = 0
  /\ silence = None /\ latency = <<>> /\ highSince = None
  /\ orderEvents = <<>>
  /\ satelliteDisabled = FALSE
  /\ market = {}

(* A new process creates its risk engine anew: nothing of it is persisted.  *)
Restart ==
  /\ mode' = "NORMAL"
  /\ wsDisconnects' = 0 /\ authFailures' = 0 /\ reconcileFailures' = 0
  /\ silence' = None /\ latency' = <<>> /\ highSince' = None
  /\ orderEvents' = <<>>
  /\ satelliteDisabled' = FALSE
  /\ UNCHANGED market

Monitor == CheckAllConditions

FeedEvent == \/ \E delay \in {"none", "low", "high"} : OnWsMessage(delay)
             \/ OnWsDisconnect \/ OnWsReconnect \/ Tick

OrderEvent == OrderAges \/ \E ok \in BOOLEAN : OnOrder(ok)

FailureEvent == OnAuthFailure \/ OnReconcileFailure \/ OnReconcileSuccess \/ OnHedgeFailure

Operator == Pause \/ Resume \/ SafeResumeFromHalt \/ ResetCounters \/ EnableSatellite

Next == Monitor \/ FeedEvent \/ OrderEvent \/ FailureEvent \/ MarketMoves \/ Operator \/ Restart

Spec == Init /\ [][Next]_vars

(* The monitor task rounds every second for as long as the engine runs.     *)
FairSpec == Spec /\ WF_vars(Monitor)

-------------------------------------------------------------------------------
TypeOK ==
  /\ mode \in Mode
  /\ {wsDisconnects, authFailures, reconcileFailures} \subseteq Nat
  /\ {silence, highSince} \subseteq Nat \cup {None}
  /\ latency \in Seq([age : Nat, high : BOOLEAN])
  /\ orderEvents \in Seq(BOOLEAN)
  /\ Len(latency) <= MaxLatencyEvents /\ Len(orderEvents) <= MaxOrderEvents
  /\ satelliteDisabled \in BOOLEAN
  /\ market \subseteq Signals

(* HALT is left by the operator's safe resume alone, and for SAFE: not by a  *)
(* pause or a hedge failure that asks for SAFE, a resume, or a condition    *)
(* that clears.  "HALT -> SAFE -> NORMAL (manual recovery only)".  Only a    *)
(* new process knows nothing of it.                                         *)
HaltIsManual ==
  [][mode = "HALT" /\ mode' # "HALT" =>
       \/ mode' = "SAFE" /\ SafeResumeFromHalt
       \/ Restart]_vars

(* Trading resumes only when no reconcile and no authentication failure is  *)
(* outstanding, and only because an operator said so, or in a new process.  *)
NormalIsClean ==
  [][mode # "NORMAL" /\ mode' = "NORMAL" =>
       \/ mode = "SAFE" /\ authFailures = 0 /\ reconcileFailures = 0 /\ Resume
       \/ Restart]_vars

(* The triggers of the class's documentation that the code has, as they     *)
(* stand now.  The liquidation distance and the week's loss are not among    *)
(* them: they never trigger anything (LiquidationNear, WeeklyLossSeen).  Of  *)
(* "ATR spike and crash" the code looks at the spike alone, and 20 % of      *)
(* failed orders is enough where the text says more than 20 %.              *)
HaltTrigger ==
  \/ reconcileFailures >= MaxReconcileFailures
  \/ authFailures >= MaxAuthFailures
  \/ "halt loss" \in market

SafeTrigger ==
  \/ HaltTrigger
  \/ {"safe loss", "volatile", "exposed"} \cap market # {}
  \/ wsDisconnects >= MaxWsDisconnect
  \/ silence # None /\ silence > WsTimeout
  \/ /\ latency # <<>> /\ \A i \in DOMAIN latency : latency[i].high
     /\ highSince # None /\ highSince >= LatencyDuration
  \/ /\ Len(orderEvents) >= MinOrderEvents
     /\ 5 * Cardinality({i \in DOMAIN orderEvents : ~orderEvents[i]}) >= Len(orderEvents)

(* No trigger is masked by another, or by the mode of the moment: one that  *)
(* lasts does its work, from whichever mode it finds.                       *)
CausesEscalate ==
  /\ HaltTrigger ~> (mode = "HALT" \/ ~HaltTrigger)
  /\ SafeTrigger ~> (mode # "NORMAL" \/ ~SafeTrigger)
===============================================================================
