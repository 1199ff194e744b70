------------------------------ MODULE RiskProofs ------------------------------
(***************************************************************************)
(* Proofs about what guards the account, RiskEngine, RiskOverlay and        *)
(* StopWatchdog, each for any value of its constants.                       *)
(*                                                                          *)
(* RiskEngine.  TypeOK is inductive by itself; the two properties of the    *)
(* mode follow from what each action does to it, with no invariant at all.  *)
(* That causes escalate is proved from the fairness of FairSpec, with what  *)
(* has to be known of ENABLED as a hypothesis.                              *)
(*                                                                          *)
(* RiskOverlay.  The inductive invariant is OverlayInv: what the stages of  *)
(* a decision hand on (Gates), that the mode stands for the loss the        *)
(* account still shows (ModeFollowsLoss), and that without a decision there *)
(* is no account (Blank).                                                   *)
(*                                                                          *)
(* StopWatchdog.  The inductive invariant is WatchInv.  A round hands on    *)
(* objects it has collected earlier, but takes ids from the watch.  That no *)
(* object is handed on twice rests on the two agreeing: an object is        *)
(* watched under its own id only (OwnId), so that taking its id removes it  *)
(* for every later round, and what a round holds or the watch contains has  *)
(* not been handed on yet (Pending).  What leaves with an object that is     *)
(* handed on was made after it for the same id (Latest).  That rounds end   *)
(* is proved for a step of what they have left, that an object at its stop  *)
(* goes for a round.                                                        *)
(***************************************************************************)
EXTENDS RiskEngine, RiskOverlay, StopWatchdog, SequenceTheorems, SetProofs

Event == [age : Nat, high : BOOLEAN]

(* A deque that is appended to keeps its kind of event and its maxlen.       *)
LEMMA AppendedInSeq ==
  ASSUME NEW S, NEW events \in Seq(S), NEW e \in S, NEW maxlen \in Nat,
         Len(events) <= maxlen
  PROVE  Appended(events, e, maxlen) \in Seq(S) /\ Len(Appended(events, e, maxlen)) <= maxlen
<1>1. CASE Len(events) < maxlen
  BY <1>1 DEF Appended
<1>2. CASE Len(events) = maxlen /\ maxlen = 0
  BY <1>2 DEF Appended
<1>3. CASE Len(events) = maxlen /\ maxlen # 0
  <2>1. events # <<>> /\ Tail(events) \in Seq(S) /\ Len(Tail(events)) = Len(events) - 1
    BY <1>3
  <2>2. QED
    BY <1>3, <2>1 DEF Appended
<1>4. QED
  BY <1>1, <1>2, <1>3

(* The limits are numbers.                                                   *)
LEMMA EngineLimits ==
  /\ MaxOrderEvents \in Nat
  /\ MaxLatencyEvents \in Nat
BY RiskAssumption

(* A deque is created empty.                                                 *)
LEMMA EmptyDeques ==
  /\ <<>> \in Seq(Event) /\ Len(<<>>) <= MaxLatencyEvents
  /\ <<>> \in Seq(BOOLEAN) /\ Len(<<>>) <= MaxOrderEvents
BY EngineLimits, EmptySeq

(* What TypeOK says of the deques.                                           *)
LEMMA Deques ==
  ASSUME TypeOK
  PROVE  /\ latency \in Seq(Event) /\ Len(latency) \in Nat
         /\ DOMAIN latency = 1..Len(latency)
         /\ \A i \in 1..Len(latency) : latency[i] \in Event
         /\ orderEvents \in Seq(BOOLEAN) /\ Len(orderEvents) \in Nat
<1>1. latency \in Seq(Event) /\ orderEvents \in Seq(BOOLEAN)
  BY DEF TypeOK, Event
<1>2. QED
  BY <1>1, LenProperties, ElementOfSeq

(* The variables Init, and a new process, start with are typed.              *)
LEMMA InitTyped == Init => TypeOK
<1> SUFFICES ASSUME Init
             PROVE  TypeOK
  OBVIOUS
<1>1. latency \in Seq(Event) /\ Len(latency) <= MaxLatencyEvents
  BY EmptyDeques DEF Init
<1>2. orderEvents \in Seq(BOOLEAN) /\ Len(orderEvents) <= MaxOrderEvents
  BY EmptyDeques DEF Init
<1>3. satelliteDisabled \in BOOLEAN
  BY DEF Init
<1>4. QED
  BY <1>1, <1>2, <1>3 DEF Init, TypeOK, Mode, Event

(* The monitor changes the mode, the start of high latency and the latch.    *)
LEMMA MonitorTyped ==
  ASSUME TypeOK, Monitor
  PROVE  TypeOK'
<1>1. HighSinceNow \in Nat \cup {None}
  <2>1. CASE AllHigh /\ highSince = None
    <3>1. latency[1] \in Event
      BY <2>1, Deques, EmptySeq DEF AllHigh
    <3>2. QED
      BY <2>1, <3>1 DEF HighSinceNow, Event
  <2>2. QED
    BY <2>1 DEF HighSinceNow, TypeOK
<1>2. highSince' \in Nat \cup {None}
  BY <1>1 DEF Monitor, CheckAllConditions, CheckSafeConditions, TypeOK
<1>3. mode' \in Mode
  BY DEF Monitor, CheckAllConditions, CheckSafeConditions, ToHalt, ToSafe, Mode, TypeOK
<1>4. satelliteDisabled' \in BOOLEAN
  BY DEF Monitor, CheckAllConditions, CheckKillSwitch, TypeOK
<1>5. QED
  BY <1>2, <1>3, <1>4 DEF Monitor, CheckAllConditions, counters, TypeOK

(* A passing second ages the events that stay.                               *)
LEMMA TickTyped ==
  ASSUME TypeOK, Tick
  PROVE  TypeOK'
<1>1. silence' \in Nat \cup {None} /\ highSince' \in Nat \cup {None}
  BY DEF Tick, Older, TypeOK
<1>2. latency' \in Seq(Event) /\ Len(latency') <= MaxLatencyEvents
  <2>1. PICK n \in 0..Len(latency) :
          latency' = [i \in 1..(Len(latency) - n) |->
                       [age |-> latency[i + n].age + 1, high |-> latency[i + n].high]]
    BY DEF Tick
  <2>2. \A i \in 1..(Len(latency) - n) : latency[i + n] \in Event
    BY Deques
  <2>3. Len(latency) - n \in Nat /\ Len(latency) - n <= MaxLatencyEvents
    BY Deques, EngineLimits DEF TypeOK
  <2>4. \A i \in 1..(Len(latency) - n) :
          [age |-> latency[i + n].age + 1, high |-> latency[i + n].high] \in Event
    <3>1. \A e \in Event : [age |-> e.age + 1, high |-> e.high] \in Event
      BY DEF Event
    <3>2. QED
      BY <2>2, <3>1
  <2>5. latency' \in [1..(Len(latency) - n) -> Event]
    BY <2>1, <2>4
  <2>6. latency' \in Seq(Event)
    BY <2>3, <2>5, SeqDef
  <2>7. Len(latency') = Len(latency) - n
    BY <2>1, <2>3, <2>6, LenProperties
  <2>8. QED
    BY <2>3, <2>6, <2>7
<1>3. QED
  BY <1>1, <1>2 DEF Tick, counters, TypeOK, Event

(* A message, a disconnect and a reconnect.                                  *)
LEMMA FeedTyped ==
  ASSUME TypeOK, FeedEvent
  PROVE  TypeOK'
<1>1. ASSUME NEW delay \in {"none", "low", "high"}, OnWsMessage(delay)
      PROVE  TypeOK'
  <2>1. [age |-> 0, high |-> delay = "high"] \in Event
    BY DEF Event
  <2>2. latency' \in Seq(Event) /\ Len(latency') <= MaxLatencyEvents
    BY <1>1, <2>1, AppendedInSeq, RiskAssumption DEF OnWsMessage, TypeOK, Event
  <2>3. QED
    BY <1>1, <2>2 DEF OnWsMessage, counters, TypeOK, Event
<1>2. CASE OnWsDisconnect
  BY <1>2 DEF OnWsDisconnect, counters, TypeOK
<1>3. CASE OnWsReconnect
  BY <1>3 DEF OnWsReconnect, counters, TypeOK
<1>4. QED
  BY <1>1, <1>2, <1>3, TickTyped DEF FeedEvent

(* The order window.                                                         *)
LEMMA OrderTyped ==
  ASSUME TypeOK, OrderEvent
  PROVE  TypeOK'
<1>1. orderEvents' \in Seq(BOOLEAN) /\ Len(orderEvents') <= MaxOrderEvents
  <2>1. ASSUME NEW ok \in BOOLEAN, OnOrder(ok)
        PROVE  orderEvents' \in Seq(BOOLEAN) /\ Len(orderEvents') <= MaxOrderEvents
    BY <2>1, AppendedInSeq, RiskAssumption DEF OnOrder, TypeOK
  <2>2. CASE OrderAges
    <3>1. orderEvents # <<>> /\ orderEvents' = Tail(orderEvents) /\ orderEvents \in Seq(BOOLEAN)
      BY <2>2, Deques DEF OrderAges
    <3>2. Tail(orderEvents) \in Seq(BOOLEAN) /\ Len(Tail(orderEvents)) = Len(orderEvents) - 1
      BY <3>1, HeadTailProperties
    <3>3. QED
      BY <3>1, <3>2, Deques, EngineLimits DEF TypeOK
  <2>3. QED
    BY <2>1, <2>2 DEF OrderEvent
<1>2. UNCHANGED <<mode, counters, feed, satelliteDisabled, market>>
  BY DEF OrderEvent, OnOrder, OrderAges
<1>3. QED
  BY <1>1, <1>2 DEF counters, feed, TypeOK

(* Every variable keeps its type, and no deque outgrows its maxlen.          *)
THEOREM RiskTypeCorrect == Spec => []TypeOK
<1>1. TypeOK /\ [Next]_vars => TypeOK'
  <2> SUFFICES ASSUME TypeOK, [Next]_vars
               PROVE  TypeOK'
    OBVIOUS
  <2>1. CASE FailureEvent
    BY <2>1 DEF FailureEvent, OnAuthFailure, OnReconcileFailure, OnReconcileSuccess,
                OnHedgeFailure, ToSafe, Mode, counters, feed, TypeOK
  <2>2. CASE MarketMoves
    BY <2>2 DEF MarketMoves, counters, feed, TypeOK
  <2>3. CASE Pause \/ Resume \/ SafeResumeFromHalt
    BY <2>3 DEF Pause, Resume, SafeResumeFromHalt, ToSafe, ToNormal, SafeToNormalFromHalt,
                Mode, counters, feed, TypeOK
  <2>4. CASE ResetCounters
    <3>1. latency' \in Seq(Event) /\ Len(latency') <= MaxLatencyEvents
      BY <2>4, EmptyDeques DEF ResetCounters
    <3>2. orderEvents' \in Seq(BOOLEAN) /\ Len(orderEvents') <= MaxOrderEvents
      BY <2>4, EmptyDeques DEF ResetCounters
    <3>3. satelliteDisabled' \in BOOLEAN
      BY <2>4 DEF ResetCounters
    <3>4. QED
      BY <2>4, <3>1, <3>2, <3>3 DEF ResetCounters, TypeOK, Event
  <2>8. CASE EnableSatellite
    BY <2>8 DEF EnableSatellite, counters, feed, TypeOK
  <2>5. CASE Restart
    <3>1. latency' \in Seq(Event) /\ Len(latency') <= MaxLatencyEvents
      BY <2>5, EmptyDeques DEF Restart
    <3>2. orderEvents' \in Seq(BOOLEAN) /\ Len(orderEvents') <= MaxOrderEvents
      BY <2>5, EmptyDeques DEF Restart
    <3>3. satelliteDisabled' \in BOOLEAN
      BY <2>5 DEF Restart
    <3>4. QED
      BY <2>5, <3>1, <3>2, <3>3 DEF Restart, Mode, TypeOK, Event
  <2>6. CASE UNCHANGED vars
    BY <2>6 DEF vars, counters, feed, TypeOK
  <2>7. QED
    BY <2>1, <2>2, <2>3, <2>4, <2>5, <2>6, <2>8, MonitorTyped, FeedTyped, OrderTyped
       DEF Next, Operator
<1>2. QED
  BY <1>1, InitTyped, PTL DEF Spec

(* HALT ends by the operator's safe resume, or with the process, whatever    *)
(* fails, clears or is asked for meanwhile.                                 *)
THEOREM HaltIsManualAlways == Spec => HaltIsManual
<1> DEFINE ByHand == mode' = "SAFE" /\ SafeResumeFromHalt
           Left == mode = "HALT" /\ mode' # "HALT" => ByHand \/ Restart
<1>1. [Next]_vars => [Left]_vars
  <2> SUFFICES ASSUME Next, mode = "HALT", mode' # "HALT"
               PROVE  ByHand \/ Restart
    OBVIOUS
  <2>1. CASE Monitor
    BY <2>1 DEF Monitor, CheckAllConditions, ToHalt
  <2>2. CASE FeedEvent
    BY <2>2 DEF FeedEvent, OnWsMessage, OnWsDisconnect, OnWsReconnect, Tick
  <2>3. CASE OrderEvent
    BY <2>3 DEF OrderEvent, OnOrder, OrderAges
  <2>4. CASE FailureEvent
    BY <2>4 DEF FailureEvent, OnAuthFailure, OnReconcileFailure, OnReconcileSuccess,
                OnHedgeFailure, ToSafe
  <2>5. CASE MarketMoves
    BY <2>5 DEF MarketMoves
  <2>6. CASE Operator
    BY <2>6 DEF Operator, Pause, Resume, SafeResumeFromHalt, ResetCounters, EnableSatellite,
                ToSafe, ToNormal, SafeToNormalFromHalt
  <2>7. QED
    BY <2>1, <2>2, <2>3, <2>4, <2>5, <2>6 DEF Next
<1>2. QED
  BY <1>1, PTL DEF Spec, HaltIsManual

(* Trading is resumed from SAFE, by a resume and with no reconcile or        *)
(* authentication failure outstanding, or in a new process.                 *)
THEOREM NormalIsCleanAlways == Spec => NormalIsClean
<1> DEFINE Clean == mode = "SAFE" /\ authFailures = 0 /\ reconcileFailures = 0 /\ Resume
           Entered == mode # "NORMAL" /\ mode' = "NORMAL" => Clean \/ Restart
<1>1. TypeOK /\ [Next]_vars => [Entered]_vars
  <2> SUFFICES ASSUME TypeOK, Next, mode # "NORMAL", mode' = "NORMAL"
               PROVE  Clean \/ Restart
    OBVIOUS
  <2>1. CASE Monitor
    BY <2>1 DEF Monitor, CheckAllConditions, CheckSafeConditions, ToHalt, ToSafe
  <2>2. CASE FeedEvent
    BY <2>2 DEF FeedEvent, OnWsMessage, OnWsDisconnect, OnWsReconnect, Tick
  <2>3. CASE OrderEvent
    BY <2>3 DEF OrderEvent, OnOrder, OrderAges
  <2>4. CASE FailureEvent
    BY <2>4 DEF FailureEvent, OnAuthFailure, OnReconcileFailure, OnReconcileSuccess,
                OnHedgeFailure, ToSafe
  <2>5. CASE MarketMoves
    BY <2>5 DEF MarketMoves
  <2>6. CASE Resume
    BY <2>6 DEF Resume, ToNormal, TypeOK
  <2>7. CASE Pause \/ SafeResumeFromHalt \/ ResetCounters \/ EnableSatellite
    BY <2>7 DEF Pause, SafeResumeFromHalt, ResetCounters, EnableSatellite,
                ToSafe, SafeToNormalFromHalt
  <2>8. QED
    BY <2>1, <2>2, <2>3, <2>4, <2>5, <2>6, <2>7 DEF Next, Operator
<1>2. QED
  BY <1>1, RiskTypeCorrect, PTL DEF Spec, NormalIsClean

(* What a round of the monitor still has to do.                              *)
HaltDue == HaltTrigger /\ mode # "HALT"
SafeDue == SafeTrigger /\ mode = "NORMAL"

(* One round does it, all of it at once: no trigger is masked by another.    *)
LEMMA OneRoundSuffices ==
  ASSUME Monitor
  PROVE  /\ HaltDue => mode' = "HALT"
         /\ SafeDue => mode' # "NORMAL"
<1>1. \/ HaltCondition /\ mode' = "HALT"
      \/ ~HaltCondition /\ mode = "HALT" /\ mode' = mode
      \/ ~HaltCondition /\ mode # "HALT" /\ CheckSafeConditions /\ CheckKillSwitch
  BY DEF Monitor, CheckAllConditions, ToHalt
<1>2. HaltTrigger => HaltCondition
  BY DEF HaltTrigger, HaltCondition
<1>3. HaltDue => mode' = "HALT"
  BY <1>1, <1>2 DEF HaltDue
<1>4. ASSUME SafeDue PROVE mode' # "NORMAL"
  <2>1. CASE HaltCondition  BY <1>1, <2>1
  <2>2. CASE ~HaltCondition
    <3>1. mode = "NORMAL" /\ CheckSafeConditions  BY <1>1, <1>4, <2>2 DEF SafeDue
    <3>2. FeedCondition \/ HighLatency \/ OrdersFail \/ "volatile" \in market \/ "exposed" \in market
      BY <1>2, <1>4, <2>2 DEF SafeDue, SafeTrigger, FeedCondition, OrdersFail,
           HighLatency, AllHigh, HighSinceNow
    <3>3. QED  BY <3>1, <3>2 DEF CheckSafeConditions, LaterCondition, ToSafe
  <2>3. QED  BY <2>1, <2>2
<1>5. QED  BY <1>3, <1>4

(* CausesEscalate (RiskEngine) from the fairness of the specification.  That  *)
(* a monitor with something to do can make a round, and that it changes the  *)
(* state, is the hypothesis: the prover knows nothing of ENABLED.            *)
THEOREM CausesEscalateAlways ==
  FairSpec /\ [](HaltDue \/ SafeDue => ENABLED <<Monitor>>_vars) => CausesEscalate
<1> DEFINE HaltDone == mode = "HALT" \/ ~HaltTrigger
           SafeDone == mode # "NORMAL" \/ ~SafeTrigger
<1>1. HaltDone <=> ~HaltDue  BY DEF HaltDue
<1>2. SafeDone <=> ~SafeDue  BY DEF SafeDue
<1>3. <<Monitor>>_vars /\ HaltDue => HaltDone'
  BY OneRoundSuffices
<1>4. <<Monitor>>_vars /\ SafeDue => SafeDone'
  BY OneRoundSuffices
<1>5. CausesEscalate <=> (HaltTrigger ~> HaltDone) /\ (SafeTrigger ~> SafeDone)
  BY DEF CausesEscalate
<1> HIDE DEF HaltDone, SafeDone
<1>6. QED  BY <1>1, <1>2, <1>3, <1>4, <1>5, PTL DEF FairSpec

-------------------------------------------------------------------------------
(* The overlay.                                                             *)

(* What evaluate hands from stage to stage, and what it asks.                *)
Decision == [mode : Modes, satellite : BOOLEAN, core : BOOLEAN, ignition : BOOLEAN,
             sized : BOOLEAN, deep : BOOLEAN, hard : BOOLEAN, systemOk : BOOLEAN,
             tailOk : BOOLEAN, regimeOk : BOOLEAN, decided : BOOLEAN]
DrawdownState == [hard : BOOLEAN, soft : BOOLEAN, safe : BOOLEAN, caution : BOOLEAN,
                  combined : BOOLEAN, daySafe : BOOLEAN, dayHalt : BOOLEAN]
Reduction == [reducing : BOOLEAN, pct : 0..100,
              stay : {NoStay} \cup 0..Max({StayTicks, GradualTicks})]

(* A loss at which the mode may be NORMAL.                                   *)
NormalLoss(dd) == ~dd.soft /\ ~dd.daySafe /\ (dd.safe => dd.combined)

(* What danger a stage saw stays closed in what the later ones make of it.   *)
Gates(d) ==
  /\ ~d.systemOk => ~d.satellite /\ ~d.core
  /\ ~d.tailOk \/ ~d.regimeOk => ~d.satellite
  /\ d.hard => d.mode = "HALT"

(* Before a process has decided it knows of no account.                      *)
Blank ==
  ~decision.decided => decision.mode = "NORMAL" /\ equity = 0 /\ peak = 0 /\ dayStart = 0

Accounts ==
  /\ equity \in Nat /\ peak \in Nat /\ dayStart \in Nat
  /\ equity \in Levels \cup {0} /\ peak \in Levels \cup {0} /\ dayStart \in Levels \cup {0}
  /\ equity <= peak

OverlayInv ==
  /\ Accounts
  /\ dayDue \in BOOLEAN /\ kmvi \in Tiers /\ ordered \in BOOLEAN
  /\ decision \in Decision /\ red \in Reduction
  /\ Gates(decision)
  /\ Blank
  /\ ModeFollowsLoss
  /\ NoOrderInDeepLoss

-------------------------------------------------------------------------------
(* The constants.                                                           *)

(* The longest stay is a number and not shorter than either.                 *)
LEMMA Stays ==
  /\ StayTicks \in Nat /\ GradualTicks \in Nat
  /\ Max({StayTicks, GradualTicks}) \in Nat
  /\ StayTicks \in 0..Max({StayTicks, GradualTicks})
  /\ GradualTicks \in 0..Max({StayTicks, GradualTicks})
<1>1. StayTicks \in Nat /\ GradualTicks \in Nat
  BY ReducerAssumption
<1>2. QED
  BY <1>1, MinMaxOfTwo

-------------------------------------------------------------------------------
(* The stages of evaluate.                                                  *)

(* The drawdown of an account.                                              *)
LEMMA DrawdownFacts ==
  ASSUME NEW e, NEW top, NEW day
  PROVE  /\ Drawdown(e, top, day) \in DrawdownState
         /\ Drawdown(e, top, day).hard = Lost(top, e, 50)
         /\ Drawdown(e, top, day).dayHalt = Lost(day, e, 15)
BY DEF Drawdown, DrawdownState, Lost

(* A decision with one answer changed is a decision.                        *)
LEMMA OneField ==
  ASSUME NEW d \in Decision
  PROVE  /\ \A m \in Modes : [d EXCEPT !.mode = m] \in Decision
         /\ \A b \in BOOLEAN :
              /\ [d EXCEPT !.tailOk = b] \in Decision
              /\ [d EXCEPT !.satellite = b] \in Decision
              /\ [d EXCEPT !.core = b] \in Decision
              /\ [d EXCEPT !.sized = b] \in Decision
              /\ [d EXCEPT !.deep = b] \in Decision
              /\ [d EXCEPT !.hard = b] \in Decision
BY DEF Decision

(* An unhealthy executor closes core and satellite.                         *)
LEMMA SystemFacts ==
  ASSUME NEW ok \in BOOLEAN
  PROVE  LET d == SystemSafety(Undecided, ok)
         IN  /\ d \in Decision
             /\ ~d.systemOk => ~d.satellite /\ ~d.core
             /\ d.mode # "HALT" /\ d.regimeOk
BY DEF SystemSafety, Undecided, Decision, Modes

(* A tail risk sets the mode; HALT comes of the two deepest losses alone.    *)
LEMMA TailFacts ==
  ASSUME NEW d \in Decision, d.mode # "HALT", NEW dd \in DrawdownState,
         NEW known \in BOOLEAN, NEW guard, NEW q, q = TailRisk(d, dd, known, guard)
  PROVE  /\ q \in Decision
         /\ q.mode = "NORMAL" => NormalLoss(dd)
         /\ q.mode = "HALT" <=> dd.hard \/ dd.dayHalt
         /\ q.satellite => d.satellite /\ q.tailOk
         /\ q.core => d.core
         /\ q.systemOk = d.systemOk /\ q.regimeOk = d.regimeOk
         /\ q.hard = dd.hard
<1> DEFINE a == TailAction(dd, guard)
<1>1. a \in {"HALT", "SAFE", "OK"} /\ (a = "HALT" <=> dd.hard \/ dd.dayHalt)
  BY DEF TailAction, DrawdownState
<1>a. a = "OK" => NormalLoss(dd)
  BY DEF TailAction, NormalLoss, DrawdownState
<1>2. q = [d EXCEPT !.tailOk = a = "OK",
               !.mode = IF a = "OK" THEN @ ELSE a,
               !.satellite = @ /\ a = "OK" /\ ~dd.soft,
               !.core = @ /\ a # "HALT",
               !.sized = a # "HALT" /\ (known \/ @),
               !.deep = dd.soft,
               !.hard = dd.hard]
  BY DEF TailRisk
<1> HIDE DEF a
<1>3. dd.soft \in BOOLEAN /\ dd.hard \in BOOLEAN  BY DEF DrawdownState
<1>4. /\ q.mode = IF a = "OK" THEN d.mode ELSE a
      /\ q.satellite = (d.satellite /\ a = "OK" /\ ~dd.soft)
      /\ q.tailOk = (a = "OK")
      /\ q.core = (d.core /\ a # "HALT")
      /\ q.systemOk = d.systemOk /\ q.regimeOk = d.regimeOk
      /\ q.hard = dd.hard
  BY <1>2 DEF Decision
<1>5. q \in Decision
  <2> DEFINE m == IF a = "OK" THEN d.mode ELSE a
             s == d.satellite /\ a = "OK" /\ ~dd.soft
             c == d.core /\ a # "HALT"
             z == a # "HALT" /\ (known \/ d.sized)
             t == a = "OK"
  <2>1. q = [d EXCEPT !.tailOk = t, !.mode = m, !.satellite = s, !.core = c,
                      !.sized = z, !.deep = dd.soft, !.hard = dd.hard]
    BY <1>2 DEF Decision
  <2>2. m \in Modes /\ s \in BOOLEAN /\ c \in BOOLEAN /\ z \in BOOLEAN /\ t \in BOOLEAN
    BY <1>1 DEF Decision, Modes
  <2> HIDE DEF m, s, c, z, t
  <2> DEFINE d1 == [d EXCEPT !.tailOk = t]
             d2 == [d1 EXCEPT !.mode = m]
             d3 == [d2 EXCEPT !.satellite = s]
             d4 == [d3 EXCEPT !.core = c]
             d5 == [d4 EXCEPT !.sized = z]
             d6 == [d5 EXCEPT !.deep = dd.soft]
  <2>3. q = [d6 EXCEPT !.hard = dd.hard]  BY <2>1
  <2>4. d1 \in Decision  BY <2>2, OneField
  <2> HIDE DEF d1
  <2>5. d2 \in Decision  BY <2>2, <2>4, OneField
  <2> HIDE DEF d2
  <2>6. d3 \in Decision  BY <2>2, <2>5, OneField
  <2> HIDE DEF d3
  <2>7. d4 \in Decision  BY <2>2, <2>6, OneField
  <2> HIDE DEF d4
  <2>8. d5 \in Decision  BY <2>2, <2>7, OneField
  <2> HIDE DEF d5
  <2>9. d6 \in Decision  BY <1>3, <2>8, OneField
  <2> HIDE DEF d6
  <2>10. QED  BY <1>3, <2>3, <2>9, OneField
<1>6. q.mode = "NORMAL" => NormalLoss(dd)
  BY <1>1, <1>a, <1>4
<1>7. QED  BY <1>1, <1>4, <1>5, <1>6 DEF a

(* The index of volatility only closes.                                      *)
LEMMA VolatilityFacts ==
  ASSUME NEW d \in Decision
  PROVE  LET q == Volatility(d)
         IN  /\ q \in Decision
             /\ q.satellite => d.satellite
             /\ q.mode = d.mode /\ q.core = d.core /\ q.hard = d.hard
             /\ q.systemOk = d.systemOk /\ q.tailOk = d.tailOk /\ q.regimeOk = d.regimeOk
<1> DEFINE q == Volatility(d)
<1>1. q \in Decision
  BY ZenonT(60) DEF Volatility, Decision
<1>2. q.satellite => d.satellite
  BY ZenonT(60) DEF Volatility, Decision
<1>3. q.mode = d.mode /\ q.core = d.core /\ q.hard = d.hard
  BY ZenonT(60) DEF Volatility, Decision
<1>4. q.systemOk = d.systemOk /\ q.tailOk = d.tailOk /\ q.regimeOk = d.regimeOk
  BY ZenonT(60) DEF Volatility, Decision
<1>5. QED  BY <1>1, <1>2, <1>3, <1>4

(* So does the regime ...                                                   *)
LEMMA RegimeFacts ==
  ASSUME NEW d \in Decision, NEW riskOff \in BOOLEAN, NEW guard
  PROVE  LET q == Regime(d, riskOff, guard)
         IN  /\ q \in Decision
             /\ q.satellite => d.satellite /\ q.regimeOk
             /\ q.mode = d.mode /\ q.core = d.core /\ q.hard = d.hard
             /\ q.systemOk = d.systemOk /\ q.tailOk = d.tailOk
BY DEF Regime, Decision

(* ... and the stay.                                                        *)
LEMMA StayingFacts ==
  ASSUME NEW d \in Decision, NEW r
  PROVE  LET q == Staying(d, r)
         IN  /\ q \in Decision
             /\ q.satellite => d.satellite /\ ~InStay(r)
             /\ q.mode = d.mode /\ q.core = d.core /\ q.hard = d.hard /\ q.decided
             /\ q.systemOk = d.systemOk /\ q.tailOk = d.tailOk /\ q.regimeOk = d.regimeOk
BY DEF Staying, Decision, InStay

(* A decision.                                                              *)
LEMMA DecideFacts ==
  ASSUME NEW dd \in DrawdownState, NEW known \in BOOLEAN, NEW ok \in BOOLEAN,
         NEW riskOff \in BOOLEAN, NEW guard,
         Decide(dd, known, ok, riskOff, guard)
  PROVE  /\ decision' \in Decision
         /\ Gates(decision)'
         /\ decision'.mode = "HALT" <=> dd.hard \/ dd.dayHalt
         /\ decision'.mode = "NORMAL" => NormalLoss(dd)
         /\ decision'.decided
         /\ decision'.satellite => ~InStay(red')
<1> DEFINE d1 == SystemSafety(Undecided, ok)
           d2 == TailRisk(d1, dd, known, guard)
           d3 == Volatility(d2)
           d4 == Regime(d3, riskOff, guard)
           d5 == Staying(d4, red')
<1>1. decision' = d5  BY DEF Decide
<1>2. /\ d1 \in Decision
      /\ ~d1.systemOk => ~d1.satellite /\ ~d1.core
      /\ d1.mode # "HALT" /\ d1.regimeOk
  BY SystemFacts
<1> HIDE DEF d1
<1>3. /\ d2 \in Decision
      /\ d2.mode = "HALT" <=> dd.hard \/ dd.dayHalt
      /\ d2.mode = "NORMAL" => NormalLoss(dd)
      /\ d2.satellite => d1.satellite /\ d2.tailOk
      /\ d2.core => d1.core
      /\ d2.systemOk = d1.systemOk /\ d2.regimeOk = d1.regimeOk
      /\ d2.hard = dd.hard
  <2> HIDE DEF d2
  <2>1. d2 = TailRisk(d1, dd, known, guard)  BY DEF d2
  <2>2. d1 \in Decision /\ d1.mode # "HALT"  BY <1>2
  <2>3. d2 \in Decision  BY <2>1, <2>2, TailFacts
  <2>4. d2.mode = "HALT" <=> dd.hard \/ dd.dayHalt  BY <2>1, <2>2, TailFacts
  <2>5. d2.satellite => d1.satellite /\ d2.tailOk  BY <2>1, <2>2, TailFacts
  <2>6. d2.core => d1.core  BY <2>1, <2>2, TailFacts
  <2>7. d2.systemOk = d1.systemOk  BY <2>1, <2>2, TailFacts
  <2>8. d2.regimeOk = d1.regimeOk /\ d2.hard = dd.hard  BY <2>1, <2>2, TailFacts
  <2>9. d2.mode = "NORMAL" => NormalLoss(dd)  BY <2>1, <2>2, TailFacts
  <2>10. QED  BY <2>3, <2>4, <2>5, <2>6, <2>7, <2>8, <2>9
<1> HIDE DEF d2
<1>4. /\ d3 \in Decision
      /\ d3.satellite => d2.satellite
      /\ d3.mode = d2.mode /\ d3.core = d2.core /\ d3.hard = d2.hard
      /\ d3.systemOk = d2.systemOk /\ d3.tailOk = d2.tailOk /\ d3.regimeOk = d2.regimeOk
  BY <1>3, VolatilityFacts
<1> HIDE DEF d3
<1>5. /\ d4 \in Decision
      /\ d4.satellite => d3.satellite /\ d4.regimeOk
      /\ d4.mode = d3.mode /\ d4.core = d3.core /\ d4.hard = d3.hard
      /\ d4.systemOk = d3.systemOk /\ d4.tailOk = d3.tailOk
  BY <1>4, RegimeFacts
<1> HIDE DEF d4
<1>6. /\ d5 \in Decision
      /\ d5.satellite => d4.satellite /\ ~InStay(red')
      /\ d5.mode = d4.mode /\ d5.core = d4.core /\ d5.hard = d4.hard /\ d5.decided
      /\ d5.systemOk = d4.systemOk /\ d5.tailOk = d4.tailOk /\ d5.regimeOk = d4.regimeOk
  BY <1>5, StayingFacts
<1> HIDE DEF d5
<1>7. Gates(decision)'
  BY <1>1, <1>2, <1>3, <1>4, <1>5, <1>6 DEF Gates
<1>8. /\ decision'.mode = "HALT" <=> dd.hard \/ dd.dayHalt
      /\ decision'.mode = "NORMAL" => NormalLoss(dd)
  BY <1>1, <1>3, <1>4, <1>5, <1>6
<1>9. QED  BY <1>1, <1>6, <1>7, <1>8

-------------------------------------------------------------------------------
(* The reductions.                                                          *)

(* A reduction that is begun, looked at, or a minute older is a reduction.   *)
LEMMA ReductionTypes ==
  ASSUME red \in Reduction
  PROVE  /\ CheckStayPeriod(red) \in Reduction
         /\ ForceCloseAll \in Reduction
         /\ \A t \in Triggers, sev \in Severities : TriggerReduce(red, t, sev) \in Reduction
         /\ \A phase \in 1..3 : GradualHardDdClose(phase) \in Reduction
         /\ red.stay > 0 => MinutePasses(red) \in Reduction
<1> DEFINE Top == Max({StayTicks, GradualTicks})
<1>0. Top \in Nat  BY Stays
<1>1. \A pct \in 0..100, stay \in {NoStay, StayTicks, GradualTicks} : Reducing(pct, stay) \in Reduction
  BY Stays DEF Reducing, Reduction
<1>2. CheckStayPeriod(red) \in Reduction
  BY DEF CheckStayPeriod, Calm, Reduction
<1>3. ForceCloseAll \in Reduction
  BY <1>1 DEF ForceCloseAll
<1>4. ASSUME NEW t \in Triggers, NEW sev \in Severities
      PROVE  TriggerReduce(red, t, sev) \in Reduction
  <2>1. sev \in 0..10  BY LevelsAssumption
  <2>2. ReducePct(t, sev) \in 0..100
    BY <2>1 DEF ReducePct, Triggers
  <2>3. QED  BY <1>1, <2>2 DEF TriggerReduce
<1>5. ASSUME NEW phase \in 1..3
      PROVE  GradualHardDdClose(phase) \in Reduction
  <2>1. ReducePct("DD_HARD", 10) = 50 /\ ReducePct("DD_HARD_PHASE2", 10) = 30
    BY DEF ReducePct
  <2>2. phase = 1 \/ phase = 2 \/ phase = 3  OBVIOUS
  <2>3. QED  BY <1>1, <1>3, <2>1, <2>2 DEF GradualHardDdClose
<1>6. ASSUME red.stay > 0
      PROVE  MinutePasses(red) \in Reduction
  <2>1. PICK n \in 0..Top : red.stay = n  BY <1>6 DEF Reduction, NoStay
  <2>2. n - 1 \in 0..Top  BY <1>0, <1>6, <2>1
  <2> HIDE DEF Top
  <2>3. red.stay - 1 \in {NoStay} \cup 0..Top  BY <2>1, <2>2
  <2>4. MinutePasses(red) = [red EXCEPT !.stay = red.stay - 1]  BY DEF MinutePasses, Reduction
  <2>5. QED  BY <2>3, <2>4 DEF Reduction, Top
<1>7. QED  BY <1>2, <1>3, <1>4, <1>5, <1>6

-------------------------------------------------------------------------------
(* The account.                                                             *)

(* A loss does not heal while the equity does not rise.                      *)
LEMMA LossStays ==
  ASSUME NEW base \in Nat, NEW e \in Nat, NEW f \in Nat, f <= e
  PROVE  /\ Lost(base, e, 50) => Lost(base, f, 50)
         /\ Lost(base, e, 15) => Lost(base, f, 15)
BY DEF Lost

(* Forced closing is asked for by two of the losses.                         *)
LEMMA ForceCloseFacts ==
  ShouldForceClose <=> Lost(peak, equity, 50) \/ Lost(dayStart, equity, 15)
BY DrawdownFacts DEF ShouldForceClose

(* The tracker takes in an equity.                                          *)
LEMMA UpdateFacts ==
  ASSUME Accounts, NEW e \in Levels, Update(e)
  PROVE  /\ Accounts' /\ dayDue' = FALSE
         /\ equity' = e
         /\ e <= equity => peak' = peak
         /\ ~dayDue => dayStart' = dayStart
<1>1. e \in Nat  BY LevelsAssumption
<1>2. peak' \in {peak, e} /\ peak' >= e /\ peak' = IF peak >= e THEN peak ELSE e
  BY <1>1, MinMaxOfTwo DEF Accounts, Update
<1>3. equity' = e /\ dayDue' = FALSE /\ dayStart' \in {e, dayStart} /\ (~dayDue => dayStart' = dayStart)
  BY DEF Update
<1>4. Accounts'
  BY <1>1, <1>2, <1>3 DEF Accounts
<1>5. e <= equity => peak' = peak
  BY <1>1, <1>2 DEF Accounts
<1>6. QED  BY <1>3, <1>4, <1>5

-------------------------------------------------------------------------------
(* The invariant.                                                           *)

(* A decision looks at the reduction.                                       *)
LEMMA DecideTypes ==
  ASSUME red \in Reduction, NEW dd, NEW known, NEW ok, NEW riskOff, NEW guard,
         Decide(dd, known, ok, riskOff, guard)
  PROVE  red' \in Reduction
BY ReductionTypes DEF Decide

(* HALT was decided from a loss that is the account's until the next pass.   *)
LEMMA HaltIsDeep ==
  ASSUME OverlayInv, decision.mode = "HALT"
  PROVE  decision.decided /\ ShouldForceClose
<1>1. decision.decided  BY DEF OverlayInv, Blank
<1>2. QED  BY <1>1 DEF OverlayInv, ModeFollowsLoss, ShouldForceClose

(* An order is placed and HALT decided by what the pass has just read.        *)
LEMMA ExecuteKeepsInv ==
  ASSUME OverlayInv, ExecuteStrategies
  PROVE  OverlayInv'
<1>1. PICK e \in Levels : Update(e)
  BY DEF ExecuteStrategies
<1> DEFINE dd == Drawdown(equity', peak', dayStart')
<1>2. PICK ok \in BOOLEAN, riskOff \in BOOLEAN, guard \in GuardActions :
        Decide(dd, TRUE, ok, riskOff, guard)
  BY DEF ExecuteStrategies
<1>3. /\ dd \in DrawdownState
      /\ dd.hard = Lost(peak', equity', 50) /\ dd.dayHalt = Lost(dayStart', equity', 15)
  BY DrawdownFacts
<1>4. ShouldForceClose' <=> dd.hard \/ dd.dayHalt
  BY <1>3, ForceCloseFacts, DrawdownFacts DEF ShouldForceClose
<1> HIDE DEF dd
<1>a. dd = Drawdown(equity, peak, dayStart)'
  BY DEF dd
<1>5. /\ decision' \in Decision /\ Gates(decision)' /\ decision'.decided
      /\ decision'.mode = "HALT" <=> dd.hard \/ dd.dayHalt
      /\ decision'.mode = "NORMAL" => NormalLoss(dd)
  BY <1>2, <1>3, DecideFacts
<1>6. Accounts' /\ dayDue' \in BOOLEAN
  BY <1>1, UpdateFacts DEF OverlayInv
<1>7. red' \in Reduction
  BY <1>2, DecideTypes DEF OverlayInv
<1>8. kmvi' = kmvi /\ ordered' \in {FALSE, decision'.mode # "HALT" /\ decision'.sized /\ equity' > 0}
  BY DEF ExecuteStrategies
<1>9. ordered' \in BOOLEAN /\ (ordered' => decision'.mode # "HALT")
  <2>1. decision'.sized \in BOOLEAN  BY <1>5 DEF Decision
  <2>2. equity' \in Nat  BY <1>6 DEF Accounts
  <2> DEFINE z == decision'.sized
             e2 == equity'
  <2>3. z \in BOOLEAN /\ e2 \in Nat  BY <2>1, <2>2
  <2>4. (decision'.mode # "HALT" /\ z /\ e2 > 0) \in BOOLEAN  BY <2>3
  <2>5. QED  BY <1>8, <2>4
<1>b. ModeFollowsLoss'
  BY <1>a, <1>5 DEF ModeFollowsLoss, NormalLoss
<1>10. Blank' /\ NoOrderInDeepLoss'
  BY <1>4, <1>5, <1>9 DEF Blank, NoOrderInDeepLoss
<1>11. QED
  BY <1>5, <1>6, <1>7, <1>8, <1>9, <1>10, <1>b DEF OverlayInv

(* Without an account there is no loss to halt for.                          *)
LEMMA BlindKeepsInv ==
  ASSUME OverlayInv, EvaluateBlind
  PROVE  OverlayInv'
<1> DEFINE dd == Drawdown(0, 0, 0)
<1>1. PICK ok \in BOOLEAN, riskOff \in BOOLEAN, guard \in GuardActions :
        Decide(dd, FALSE, ok, riskOff, guard)
  BY DEF EvaluateBlind
<1>2. dd \in DrawdownState /\ ~dd.hard /\ ~dd.dayHalt
  <2>1. /\ dd \in DrawdownState
        /\ dd.hard = Lost(0, 0, 50) /\ dd.dayHalt = Lost(0, 0, 15)
    BY DrawdownFacts
  <2>2. ~Lost(0, 0, 50) /\ ~Lost(0, 0, 15)  BY DEF Lost
  <2> HIDE DEF dd
  <2>3. QED  BY <2>1, <2>2
<1> HIDE DEF dd
<1>3. /\ decision' \in Decision /\ Gates(decision)' /\ decision'.decided
      /\ decision'.mode = "HALT" <=> dd.hard \/ dd.dayHalt
      /\ decision'.mode = "NORMAL" => NormalLoss(dd)
  BY <1>1, <1>2, DecideFacts
<1>4. red' \in Reduction
  BY <1>1, DecideTypes DEF OverlayInv
<1>5. UNCHANGED <<equity, peak, dayStart, dayDue, kmvi, ordered>>
  BY DEF EvaluateBlind, tracker
<1>6. equity' = 0 /\ peak' = 0 /\ dayStart' = 0
  BY <1>5 DEF EvaluateBlind, OverlayInv, Blank
<1>7. ModeFollowsLoss'
  BY <1>3, <1>6 DEF ModeFollowsLoss, NormalLoss, dd
<1>8. Blank' /\ NoOrderInDeepLoss'
  BY <1>3, <1>5 DEF Blank, NoOrderInDeepLoss, ShouldForceClose, OverlayInv
<1>9. QED
  BY <1>3, <1>4, <1>5, <1>7, <1>8 DEF OverlayInv, Accounts

(* Between decisions neither the account nor the decision moves.             *)
LEMMA RestKeepsInv ==
  ASSUME OverlayInv, UNCHANGED <<equity, peak, dayStart, decision, ordered>>,
         kmvi' \in Tiers, dayDue' \in BOOLEAN, red' \in Reduction
  PROVE  OverlayInv'
<1>1. Blank' /\ ModeFollowsLoss' /\ NoOrderInDeepLoss' /\ Gates(decision)' /\ Accounts'
  BY DEF OverlayInv, Blank, ModeFollowsLoss, NoOrderInDeepLoss, ShouldForceClose, Gates, Accounts
<1>2. QED
  BY <1>1 DEF OverlayInv

(* A process starts without an account and without a decision.               *)
LEMMA InitInv == OverlayInit => OverlayInv
<1> SUFFICES ASSUME OverlayInit PROVE OverlayInv
  OBVIOUS
<1>1. decision \in Decision /\ Gates(decision) /\ decision.mode = "NORMAL" /\ ~decision.decided
  BY DEF OverlayInit, Undecided, Decision, Modes, Gates
<1>2. red \in Reduction
  BY DEF OverlayInit, Calm, Reduction
<1>3. Accounts
  BY DEF OverlayInit, Accounts
<1>4. QED
  BY <1>1, <1>2, <1>3
  DEF OverlayInv, OverlayInit, Tiers, Blank, ModeFollowsLoss, NoOrderInDeepLoss

(* Every step preserves the invariant.                                      *)
LEMMA StepKeepsInv == OverlayInv /\ [OverlayNext]_overlayVars => OverlayInv'
<1> SUFFICES ASSUME OverlayInv, [OverlayNext]_overlayVars PROVE OverlayInv'
  OBVIOUS
<1>1. CASE ExecuteStrategies  BY <1>1, ExecuteKeepsInv
<1>2. CASE EvaluateBlind  BY <1>2, BlindKeepsInv
<1>3. CASE UpdateKmvi
  BY <1>3, RestKeepsInv DEF UpdateKmvi, tracker, OverlayInv
<1>4. CASE Reductions
  <2>1. PICK r : Reduce(r) /\ r \in Reduction
    <3>1. CASE Trigger  BY <3>1, ReductionTypes DEF Trigger, OverlayInv
    <3>2. CASE GradualClose  BY <3>2, ReductionTypes DEF GradualClose, OverlayInv
    <3>3. CASE ForceClose  BY <3>3, ReductionTypes DEF ForceClose, OverlayInv
    <3>4. CASE Minute  BY <3>4, ReductionTypes DEF Minute, OverlayInv
    <3>5. QED  BY <1>4, <3>1, <3>2, <3>3, <3>4 DEF Reductions
  <2>2. QED  BY <2>1, RestKeepsInv DEF Reduce, tracker, OverlayInv
<1>5. CASE OverlayRestart
  <2>1. OverlayInit'  BY <1>5 DEF OverlayRestart, OverlayInit
  <2>2. QED  BY <2>1, InitInv, PTL
<1>6. CASE Midnight /\ UNCHANGED <<equity, peak, dayStart, kmvi, decision, red, ordered>>
  BY <1>6, RestKeepsInv DEF Midnight, OverlayInv
<1>7. CASE UNCHANGED overlayVars
  BY <1>7, RestKeepsInv DEF overlayVars, OverlayInv
<1>8. QED
  BY <1>1, <1>2, <1>3, <1>4, <1>5, <1>6, <1>7 DEF OverlayNext, Pass

-------------------------------------------------------------------------------
(* What the runs check.                                                     *)

(* The gates are closed whenever the decision or the account say so.         *)
LEMMA InvClosesGates == OverlayInv => GatesClosed
<1> SUFFICES ASSUME OverlayInv PROVE GatesClosed
  OBVIOUS
<1>1. OverlayTypeOK
  <2>1. DOMAIN decision = DOMAIN Undecided /\ decision.mode \in Modes
    BY DEF OverlayInv, Decision, Undecided
  <2>2. \A f \in DOMAIN Undecided \ {"mode"} : decision[f] \in BOOLEAN
    BY DEF OverlayInv, Decision, Undecided
  <2>3. QED
    BY <2>1, <2>2 DEF OverlayInv, Accounts, OverlayTypeOK, Reduction
<1>2. DangerClosesGates
  BY DEF OverlayInv, Gates, DangerClosesGates, CanOpenSatellite, CanOpenCore, CanOpenIgnition
<1>3. QED  BY <1>1, <1>2 DEF GatesClosed, OverlayInv

(* HALT ends by recovery, a new day or a new process.                        *)
LEMMA StepKeepsHalt == OverlayInv /\ [OverlayNext]_overlayVars => HaltStays
<1> SUFFICES ASSUME OverlayInv, [OverlayNext]_overlayVars, decision.mode = "HALT", decision'.mode # "HALT",
                    ~(equity' > equity), ~dayDue
             PROVE  ~decision'.decided
  BY DEF HaltStays
<1>1. ~ExecuteStrategies
  <2> SUFFICES ASSUME ExecuteStrategies PROVE FALSE
    OBVIOUS
  <2>1. PICK e \in Levels : Update(e)
    BY DEF ExecuteStrategies
  <2> DEFINE dd == Drawdown(equity', peak', dayStart')
  <2>2. PICK ok \in BOOLEAN, riskOff \in BOOLEAN, guard \in GuardActions :
          Decide(dd, TRUE, ok, riskOff, guard)
    BY DEF ExecuteStrategies
  <2>3. /\ dd \in DrawdownState
        /\ dd.hard = Lost(peak', equity', 50) /\ dd.dayHalt = Lost(dayStart', equity', 15)
    BY DrawdownFacts
  <2> HIDE DEF dd
  <2>4. equity' = e /\ e \in Nat /\ equity \in Nat /\ peak \in Nat /\ dayStart \in Nat
    BY <2>1, UpdateFacts, LevelsAssumption DEF OverlayInv, Accounts
  <2>5. e <= equity  BY <2>4
  <2>6. peak' = peak /\ dayStart' = dayStart
    BY <2>1, <2>5, UpdateFacts DEF OverlayInv
  <2>7. Lost(peak, equity, 50) \/ Lost(dayStart, equity, 15)
    BY ForceCloseFacts, HaltIsDeep
  <2>8. Lost(peak', equity', 50) \/ Lost(dayStart', equity', 15)
    BY <2>4, <2>5, <2>6, <2>7, LossStays
  <2>9. QED  BY <2>2, <2>3, <2>8, DecideFacts
<1>2. ~EvaluateBlind
  BY HaltIsDeep DEF EvaluateBlind
<1>3. CASE OverlayRestart
  BY <1>3 DEF OverlayRestart, Undecided
<1>4. CASE UNCHANGED decision
  BY <1>4
<1>5. QED
  BY <1>1, <1>2, <1>3, <1>4 DEF OverlayNext, overlayVars, Pass, UpdateKmvi, Reductions, Trigger, GradualClose,
     ForceClose, Minute, Reduce

(* A decision taken in a reduction's stay allows no satellite.               *)
LEMMA StepDeniesInStay == OverlayInv /\ [OverlayNext]_overlayVars => StayDenies
<1> SUFFICES ASSUME OverlayInv, [OverlayNext]_overlayVars, decision' # decision, decision'.decided, InStay(red')
             PROVE  ~CanOpenSatellite'
  BY DEF StayDenies
<1>1. CASE ExecuteStrategies
  <2>1. PICK dd \in {Drawdown(equity', peak', dayStart')}, ok \in BOOLEAN, riskOff \in BOOLEAN,
             guard \in GuardActions : Decide(dd, TRUE, ok, riskOff, guard)
    BY <1>1 DEF ExecuteStrategies
  <2>2. dd \in DrawdownState  BY DrawdownFacts
  <2>3. ~decision'.satellite  BY <2>1, <2>2, DecideFacts
  <2>4. QED  BY <2>3 DEF CanOpenSatellite
<1>2. CASE EvaluateBlind
  <2>1. PICK ok \in BOOLEAN, riskOff \in BOOLEAN, guard \in GuardActions :
          Decide(Drawdown(0, 0, 0), FALSE, ok, riskOff, guard)
    BY <1>2 DEF EvaluateBlind
  <2>2. Drawdown(0, 0, 0) \in DrawdownState  BY DrawdownFacts
  <2>3. ~decision'.satellite  BY <2>1, <2>2, DecideFacts
  <2>4. QED  BY <2>3 DEF CanOpenSatellite
<1>3. CASE OverlayRestart
  BY <1>3 DEF OverlayRestart, Undecided
<1>4. QED
  BY <1>1, <1>2, <1>3 DEF OverlayNext, overlayVars, Pass, UpdateKmvi, Reductions, Trigger, GradualClose,
     ForceClose, Minute, Reduce

(* The overlay answers no for satellite, core and ignition as long as the    *)
(* decision holds a danger, its mode is the one the overlapping limits of    *)
(* loss lead to, and no order is placed in a loss that forces the positions  *)
(* closed, whatever passes, reductions and restarts happen.                  *)
THEOREM GatesClosedAlways == OverlaySpec => []GatesClosed
<1>1. OverlaySpec => []OverlayInv
  BY InitInv, StepKeepsInv, PTL DEF OverlaySpec
<1>2. QED
  BY <1>1, InvClosesGates, PTL

(* HALT outlasts every pass that sees no recovery and no new day, and a      *)
(* reduction's stay denies satellites.                                       *)
THEOREM LimitsLastAlways == OverlaySpec => LimitsLast
<1>1. OverlayInv /\ [OverlayNext]_overlayVars => [HaltStays /\ StayDenies]_overlayVars
  BY StepKeepsHalt, StepDeniesInStay
<1>2. QED
  BY <1>1, InitInv, StepKeepsInv, PTL DEF OverlaySpec, LimitsLast
-------------------------------------------------------------------------------
(* The objects not made yet have no fields, but there is a place for them.   *)
Places == pos = [o \in Position |-> pos[o]]

OwnId == \A i \in Id : watched[i] # NoPosition => pos[watched[i]].id = i

Pending ==
  /\ \A o \in Position : called[o] > 0 => o <= made
  /\ \A o \in todo \cup stops : called[o] = 0
  /\ \A i \in Id : watched[i] # NoPosition => called[watched[i]] = 0

(* The object watched under an id is the last one made for it.               *)
Latest == \A o \in 1..made : watched[pos[o].id] # NoPosition => o <= watched[pos[o].id]

WatchInv == WatchTypeOK /\ Places /\ OwnId /\ Latest /\ Pending /\ CalledOnce

-------------------------------------------------------------------------------
(* An object made so far has fields, and its symbol has a price.             *)
LEMMA MadeFields ==
  ASSUME WatchTypeOK, NEW o \in 1..made
  PROVE  /\ o \in Position /\ pos[o] \in Fields
         /\ pos[o].id \in Id /\ SymbolAt(o) \in Symbol
         /\ price[SymbolAt(o)] \in Nat /\ price[SymbolAt(o)] <= MaxPrice
<1>1. o \in Position /\ o <= made  BY WatchdogAssumption DEF WatchTypeOK, Position
<1>2. pos[o] \in Fields  BY <1>1 DEF WatchTypeOK
<1>3. pos[o].id \in Id  BY <1>2 DEF Fields
<1>4. SymbolAt(o) \in Symbol  BY <1>3 DEF SymbolAt, Symbol
<1>5. price[SymbolAt(o)] \in 0..MaxPrice  BY <1>4 DEF WatchTypeOK
<1>6. QED  BY <1>1, <1>2, <1>3, <1>4, <1>5, WatchdogAssumption

(* Following the price changes the high and the stop of an object only.      *)
LEMMA TrailedFields ==
  ASSUME WatchTypeOK, NEW o \in 1..made, NEW p \in Nat
  PROVE  Trailed(o, p) \in Fields /\ Trailed(o, p).id = pos[o].id
<1>1. pos[o] \in Fields  BY MadeFields
<1>2. Distance \in Nat  BY WatchdogAssumption
<1>3. p >= Distance => p - Distance \in Nat  BY <1>2
<1>4. QED  BY <1>1, <1>2, <1>3 DEF Trailed, Fields

-------------------------------------------------------------------------------
(* Initially nothing is watched and nothing was handed on.                   *)
LEMMA InitWatch == WatchInit => WatchInv
BY WatchdogAssumption
   DEF WatchInit, WatchInv, WatchTypeOK, Places, OwnId, Latest, Pending, CalledOnce, Position,
       NoPosition, Price

(* A new position is an object nobody holds yet.                             *)
LEMMA AddKeeps ==
  ASSUME WatchInv, NEW i \in Id, NEW e \in Entries, NEW p \in Stops, NEW k \in Kind,
         AddPosition(i, e, p, k)
  PROVE  WatchInv'
<1> DEFINE new == made + 1
           fields == [id |-> i, entry |-> e, stop |-> p, kind |-> k, high |-> 0]
<1>1. made \in Nat /\ new \in Nat /\ new \in Position /\ new \in 1..MaxMade /\ made' = new
  BY WatchdogAssumption DEF WatchInv, WatchTypeOK, AddPosition, Position
<1>2. fields \in Fields /\ fields.id = i
  BY WatchdogAssumption DEF Fields
<1>3. pos' = [pos EXCEPT ![new] = fields] /\ watched' = [watched EXCEPT ![i] = new]
  BY DEF AddPosition
<1>4. /\ pos'[new] = fields
      /\ \A o \in Position : o # new => pos'[o] = pos[o]
      /\ Places'
  BY <1>1, <1>3 DEF WatchInv, Places
<1>5. \A j \in Id : watched'[j] = IF j = i THEN new ELSE watched[j]
  BY <1>3 DEF WatchInv, WatchTypeOK
<1>6. \A j \in Id : watched[j] \in 0..made
  BY DEF WatchInv, WatchTypeOK
<1>7. UNCHANGED <<feedVars, roundVars, called>>
  BY DEF AddPosition
<1> HIDE DEF new, fields
<1>8. WatchTypeOK'
  <2>1. made' \in 0..MaxMade  BY <1>1
  <2>2. \A o \in Position : IF o <= made' THEN pos'[o] \in Fields ELSE pos'[o] = NoPosition
    <3>1. \A o \in Position : o \in Nat  BY DEF Position
    <3>2. made' = made + 1  BY <1>1 DEF new
    <3>3. QED  BY <1>1, <1>2, <1>4, <3>1, <3>2 DEF WatchInv, WatchTypeOK, new
  <2>3. watched' \in [Id -> 0..made']
    BY <1>1, <1>3 DEF WatchInv, WatchTypeOK, new
  <2>4. todo' \subseteq 1..made' /\ stops' \subseteq 1..made' /\ fetching' \in 0..made'
    BY <1>1, <1>7 DEF WatchInv, WatchTypeOK, roundVars, new
  <2>5. QED
    BY <1>7, <2>1, <2>2, <2>3, <2>4 DEF WatchInv, WatchTypeOK, feedVars, roundVars
<1>9. OwnId'
  <2> SUFFICES ASSUME NEW j \in Id, watched'[j] # NoPosition
               PROVE  pos'[watched'[j]].id = j
    BY DEF OwnId
  <2>1. CASE j = i  BY <1>2, <1>4, <1>5, <2>1
  <2>2. CASE j # i
    <3>1. watched'[j] = watched[j] /\ watched[j] # NoPosition  BY <1>5, <2>2
    <3>2. watched[j] \in Position /\ watched[j] # new
      BY <1>1, <1>6, <3>1, WatchdogAssumption DEF WatchInv, WatchTypeOK, Position, NoPosition, new
    <3>3. QED  BY <1>4, <3>1, <3>2 DEF WatchInv, OwnId
  <2>3. QED  BY <2>1, <2>2
<1>10. called[new] = 0
  <2>1. called[new] \in Nat  BY <1>1 DEF WatchInv, WatchTypeOK
  <2>2. ~(new <= made)  BY <1>1 DEF new
  <2>3. QED  BY <1>1, <2>1, <2>2 DEF WatchInv, Pending
<1>11. Pending'
  <2>1. \A o \in Position : called'[o] > 0 => o <= made'
    BY <1>1, <1>7 DEF WatchInv, Pending, Position, new
  <2>2. \A o \in (todo \cup stops)' : called'[o] = 0
    BY <1>7 DEF WatchInv, Pending, roundVars
  <2>3. \A j \in Id : watched'[j] # NoPosition => called'[watched'[j]] = 0
    BY <1>5, <1>7, <1>10 DEF WatchInv, Pending
  <2>4. QED  BY <2>1, <2>2, <2>3 DEF Pending
<1>12. CalledOnce'  BY <1>7 DEF WatchInv, CalledOnce
<1>13. Latest'
  <2> SUFFICES ASSUME NEW o \in 1..made', watched'[pos'[o].id] # NoPosition
               PROVE  o <= watched'[pos'[o].id]
    BY DEF Latest
  <2>1. CASE o = new  BY <1>1, <1>2, <1>4, <1>5, <2>1
  <2>2. CASE o # new
    <3>1. o \in 1..made  BY <1>1, <2>2 DEF new
    <3>2. o \in Position /\ pos[o].id \in Id  BY <3>1, MadeFields DEF WatchInv
    <3>3. pos'[o] = pos[o]  BY <1>4, <2>2, <3>2
    <3>4. CASE pos[o].id = i
      <4>1. watched'[pos'[o].id] = made + 1  BY <1>5, <3>2, <3>3, <3>4 DEF new
      <4>2. QED  BY <1>1, <3>1, <4>1
    <3>5. CASE pos[o].id # i
      <4>1. watched'[pos'[o].id] = watched[pos[o].id]  BY <1>5, <3>2, <3>3, <3>5
      <4>2. QED  BY <3>1, <4>1 DEF WatchInv, Latest
    <3>6. QED  BY <3>4, <3>5
  <2>3. QED  BY <2>1, <2>2
<1>14. QED  BY <1>4, <1>8, <1>9, <1>11, <1>12, <1>13 DEF WatchInv

(* An id that is removed is watched no more.                                 *)
LEMMA RemoveKeeps ==
  ASSUME WatchInv, NEW i \in Id, RemovePosition(i)
  PROVE  WatchInv'
<1>1. \A j \in Id : watched'[j] = IF j = i THEN NoPosition ELSE watched[j]
  BY DEF WatchInv, WatchTypeOK, RemovePosition
<1>2. WatchTypeOK'
  BY DEF WatchInv, WatchTypeOK, RemovePosition, feedVars, roundVars, NoPosition
<1>3. OwnId'  BY <1>1 DEF WatchInv, OwnId, RemovePosition
<1>4. Pending'  BY <1>1 DEF WatchInv, Pending, RemovePosition, roundVars
<1>5. Latest'
  <2>1. \A o \in 1..made : pos[o].id \in Id  BY MadeFields DEF WatchInv
  <2>2. QED  BY <1>1, <2>1 DEF WatchInv, Latest, RemovePosition
<1>6. QED
  BY <1>2, <1>3, <1>4, <1>5 DEF WatchInv, Places, CalledOnce, RemovePosition

(* A round and the other tasks change fields of objects, never their id.     *)
LEMMA ChangeKeeps ==
  ASSUME WatchInv, NEW o \in 1..made, NEW f \in Fields, f.id = pos[o].id,
         pos' = [pos EXCEPT ![o] = f], UNCHANGED <<made, watched>>
  PROVE  /\ Places' /\ OwnId' /\ Latest'
         /\ \A q \in Position : IF q <= made THEN pos'[q] \in Fields ELSE pos'[q] = NoPosition
<1>1. o \in Position /\ o <= made  BY MadeFields DEF WatchInv
<1>2. \A q \in Position : pos'[q] = IF q = o THEN f ELSE pos[q]
  BY <1>1 DEF WatchInv, Places
<1>3. Places'  BY <1>1 DEF WatchInv, Places
<1>4. OwnId'
  <2>1. \A i \in Id : watched[i] # NoPosition => watched[i] \in Position
    BY WatchdogAssumption DEF WatchInv, WatchTypeOK, Position, NoPosition
  <2>2. QED  BY <1>2, <2>1 DEF WatchInv, OwnId
<1>5. Latest'
  <2>1. \A q \in 1..made : q \in Position  BY MadeFields DEF WatchInv
  <2>2. \A q \in 1..made : pos'[q].id = pos[q].id  BY <1>2, <2>1
  <2>3. QED  BY <2>2 DEF WatchInv, Latest
<1>6. QED  BY <1>1, <1>2, <1>3, <1>4, <1>5 DEF WatchInv, WatchTypeOK

(* A new stop price is a change of the watched object.                       *)
LEMMA UpdateKeeps ==
  ASSUME WatchInv, NEW i \in Id, NEW p \in Stops, NEW k \in Kind,
         UpdateStopPrice(i, p, k)
  PROVE  WatchInv'
<1> DEFINE o == watched[i]
           f == [pos[o] EXCEPT !.stop = p, !.kind = k]
<1>1. o \in 1..made
  BY DEF WatchInv, WatchTypeOK, UpdateStopPrice, NoPosition
<1>2. pos[o] \in Fields  BY <1>1, MadeFields DEF WatchInv
<1>3. f \in Fields /\ f.id = pos[o].id  BY <1>2, WatchdogAssumption DEF Fields
<1>4. pos' = [pos EXCEPT ![o] = f]
  BY <1>1, <1>2 DEF UpdateStopPrice, WatchInv, Places, Fields
<1>5. UNCHANGED <<made, watched, feedVars, roundVars, called>>
  BY DEF UpdateStopPrice
<1> HIDE DEF o, f
<1>6. /\ Places' /\ OwnId' /\ Latest'
      /\ \A q \in Position : IF q <= made THEN pos'[q] \in Fields ELSE pos'[q] = NoPosition
  BY <1>1, <1>3, <1>4, <1>5, ChangeKeeps
<1>7. QED
  BY <1>5, <1>6 DEF WatchInv, WatchTypeOK, Pending, CalledOnce, feedVars, roundVars

(* Prices that come in or grow old concern no position.                      *)
LEMMA PricesKeep ==
  ASSUME WatchInv, NEW s \in Symbol,
         (\E p \in Price : UpdatePrice(s, p)) \/ PriceAges(s)
  PROVE  WatchInv'
<1>1. UNCHANGED <<made, pos, watched, roundVars, called>>
  BY DEF UpdatePrice, PriceAges
<1>2. price' \in [Symbol -> 0..MaxPrice] /\ highest' \in [Symbol -> 0..MaxPrice]
  BY WatchdogAssumption DEF WatchInv, WatchTypeOK, UpdatePrice, PriceAges, Price
<1>3. QED
  BY <1>1, <1>2 DEF WatchInv, WatchTypeOK, Places, OwnId, Latest, Pending, CalledOnce, roundVars

-------------------------------------------------------------------------------
(* What a round collects is watched, and so not handed on yet.               *)
LEMMA BeginKeeps ==
  ASSUME WatchInv, BeginRound
  PROVE  WatchInv'
<1>1. todo' = Watched /\ stops' = {} /\ pc' = "round"
  BY DEF BeginRound, Collected
<1>2. UNCHANGED <<made, pos, watched, fetching, feedVars, called>>
  BY DEF BeginRound
<1>3. Watched \subseteq 1..made
  BY DEF Watched, Position, WatchInv, WatchTypeOK
<1>4. \A o \in Watched : called[o] = 0
  BY DEF Watched, Position, WatchInv, Pending, NoPosition
<1>5. QED
  BY <1>1, <1>2, <1>3, <1>4
  DEF WatchInv, WatchTypeOK, Places, OwnId, Latest, Pending, CalledOnce, feedVars

(* A check keeps the object for the stops of the round or drops it.          *)
LEMMA CheckKeeps ==
  ASSUME WatchInv, NEW o \in Position, NEW due \in BOOLEAN, Check(o, due)
  PROVE  WatchInv'
<1> DEFINE p == price[SymbolAt(o)]
           f == Trailed(o, p)
<1>1. o \in todo /\ o \in 1..made
  BY DEF WatchInv, WatchTypeOK, Check
<1>2. /\ UNCHANGED <<made, watched, pc, fetching, feedVars, called>>
      /\ todo' \subseteq todo /\ stops' \subseteq stops \cup {o}
      /\ pos' = [pos EXCEPT ![o] = f] \/ pos' = pos
  BY DEF Check
<1>3. p \in Nat  BY <1>1, MadeFields DEF WatchInv
<1>4. f \in Fields /\ f.id = pos[o].id  BY <1>1, <1>3, TrailedFields DEF WatchInv
<1> HIDE DEF p, f
<1>5. /\ Places' /\ OwnId' /\ Latest'
      /\ \A q \in Position : IF q <= made THEN pos'[q] \in Fields ELSE pos'[q] = NoPosition
  <2>1. CASE pos' = pos  BY <1>2, <2>1 DEF WatchInv, WatchTypeOK, Places, OwnId, Latest
  <2>2. CASE pos' = [pos EXCEPT ![o] = f]  BY <1>1, <1>2, <1>4, <2>2, ChangeKeeps
  <2>3. QED  BY <1>2, <2>1, <2>2
<1>6. WatchTypeOK'  BY <1>1, <1>2, <1>5 DEF WatchInv, WatchTypeOK, feedVars
<1>7. Pending'  BY <1>1, <1>2 DEF WatchInv, Pending
<1>8. QED  BY <1>2, <1>5, <1>6, <1>7 DEF WatchInv, CalledOnce

(* The fallback gives no price: the round only loses the object.             *)
LEMMA FetchKeeps ==
  ASSUME WatchInv, (\E o \in Position : Fetch(o)) \/ FetchedNothing
  PROVE  WatchInv'
<1>1. /\ UNCHANGED <<made, pos, watched, stops, feedVars, called>>
      /\ todo' \subseteq todo
      /\ fetching' = NoPosition \/ fetching' \in todo
      /\ pc' \in {"round", "fetching"}
  BY DEF Fetch, FetchedNothing
<1>2. fetching' \in 0..made
  <2>1. made \in Nat /\ todo \subseteq 1..made  BY WatchdogAssumption DEF WatchInv, WatchTypeOK
  <2>2. \A n \in 1..made : n \in 0..made  BY <2>1
  <2>3. 0 \in 0..made  BY <2>1
  <2>4. QED  BY <1>1, <2>1, <2>2, <2>3 DEF NoPosition
<1>3. WatchTypeOK'  BY <1>1, <1>2 DEF WatchInv, WatchTypeOK, feedVars
<1>4. QED
  BY <1>1, <1>3 DEF WatchInv, Places, OwnId, Latest, Pending, CalledOnce

(* What is handed on leaves the watch, under the only id it is watched by.   *)
LEMMA ExecuteKeeps ==
  ASSUME WatchInv, ExecuteStops
  PROVE  WatchInv'
<1>1. /\ UNCHANGED <<made, todo, fetching, feedVars>>
      /\ pos' = Forgotten(watched')
      /\ todo = {} /\ stops' = {} /\ pc' = "idle"
      /\ watched' = Unwatched(stops)
      /\ called' = [o \in Position |-> called[o] + (IF o \in stops THEN 1 ELSE 0)]
  BY DEF ExecuteStops
<1>2. \A i \in Id : watched'[i] = IF \E o \in stops : pos[o].id = i THEN NoPosition ELSE watched[i]
  BY <1>1 DEF Unwatched
<1>3. \A o \in Position : called[o] \in Nat /\ called[o] <= 1 /\ (o \in stops => called[o] = 0)
  BY DEF WatchInv, WatchTypeOK, CalledOnce, Pending
<1>4. \A o \in Position : called'[o] = called[o] + (IF o \in stops THEN 1 ELSE 0)
  BY <1>1
<1>a. /\ Places'
      /\ \A o \in Position : IF o <= made THEN pos'[o] \in Fields ELSE pos'[o] = NoPosition
      /\ \A o \in 1..made : o \in Position /\ pos[o].id \in Id /\ pos'[o].id = pos[o].id
  <2>1. \A o \in 1..made : o \in Position /\ pos[o] \in Fields /\ pos[o].id \in Id
    BY MadeFields DEF WatchInv
  <2> DEFINE blank(o) == [pos[o] EXCEPT !.stop = 0, !.kind = "HARD_STOP", !.high = 0]
  <2>2. \A o \in 1..made : blank(o) \in Fields /\ blank(o).id = pos[o].id
    BY <2>1 DEF Fields, Kind
  <2>3. \A o \in Position :
          /\ pos'[o] = pos[o] \/ pos'[o] = blank(o)
          /\ o > made => pos'[o] = pos[o]
    BY <1>1 DEF Forgotten
  <2> HIDE DEF blank
  <2>4. made \in Nat /\ \A o \in Position : o \in Nat /\ o > 0
    BY WatchdogAssumption DEF WatchInv, WatchTypeOK, Position
  <2>5. \A o \in 1..made : pos'[o] \in Fields /\ pos'[o].id = pos[o].id
    BY <2>1, <2>2, <2>3
  <2>6. \A o \in Position : IF o <= made THEN pos'[o] \in Fields ELSE pos'[o] = NoPosition
    <3> SUFFICES ASSUME NEW o \in Position
                 PROVE  IF o <= made THEN pos'[o] \in Fields ELSE pos'[o] = NoPosition
      OBVIOUS
    <3>1. CASE o <= made
      <4>1. o \in 1..made  BY <2>4, <3>1
      <4>2. QED  BY <2>5, <3>1, <4>1
    <3>2. CASE ~(o <= made)
      <4>1. o > made  BY <2>4, <3>2
      <4>2. QED  BY <2>3, <3>2, <4>1 DEF WatchInv, WatchTypeOK
    <3>3. QED  BY <3>1, <3>2
  <2>7. Places'  BY <1>1 DEF Forgotten, Places
  <2>8. QED  BY <2>1, <2>5, <2>6, <2>7
<1>b. \A i \in Id : watched[i] # NoPosition => watched[i] \in 1..made
  BY WatchdogAssumption DEF WatchInv, WatchTypeOK, NoPosition
<1>5. WatchTypeOK'
  <2>1. watched' \in [Id -> 0..made]  BY <1>1 DEF WatchInv, WatchTypeOK, Unwatched, NoPosition
  <2>2. called' \in [Position -> Nat]  BY <1>1, <1>3
  <2>3. QED  BY <1>1, <1>a, <2>1, <2>2 DEF WatchInv, WatchTypeOK, feedVars
<1>6. OwnId'  BY <1>2, <1>a, <1>b DEF WatchInv, OwnId
<1>c. Latest'
  BY <1>1, <1>2, <1>a DEF WatchInv, Latest
<1>7. Pending'
  <2>1. \A o \in Position : called'[o] > 0 => o <= made'
    <3>1. \A o \in stops : o <= made  BY DEF WatchInv, WatchTypeOK
    <3>2. QED  BY <1>1, <1>3, <1>4, <3>1 DEF WatchInv, Pending
  <2>2. \A i \in Id : watched'[i] # NoPosition => called'[watched'[i]] = 0
    <3> SUFFICES ASSUME NEW i \in Id, watched'[i] # NoPosition
                 PROVE  called'[watched'[i]] = 0
      OBVIOUS
    <3>1. watched'[i] = watched[i] /\ ~(\E o \in stops : pos[o].id = i)  BY <1>2
    <3>2. pos[watched[i]].id = i /\ called[watched[i]] = 0
      BY <3>1 DEF WatchInv, OwnId, Pending
    <3>3. watched[i] \in Position
      BY <3>1, WatchdogAssumption DEF WatchInv, WatchTypeOK, Position, NoPosition
    <3>4. QED  BY <1>4, <3>1, <3>2, <3>3
  <2>3. QED  BY <1>1, <2>1, <2>2 DEF Pending
<1>8. CalledOnce'  BY <1>3, <1>4 DEF CalledOnce
<1>9. QED  BY <1>a, <1>c, <1>5, <1>6, <1>7, <1>8 DEF WatchInv

-------------------------------------------------------------------------------
(* Every step preserves the invariant.                                       *)
LEMMA NextWatch == WatchInv /\ [WatchNext]_watchVars => WatchInv'
<1> SUFFICES ASSUME WatchInv, [WatchNext]_watchVars PROVE WatchInv'
  OBVIOUS
<1>1. CASE BeginRound  BY <1>1, BeginKeeps
<1>2. CASE \E o \in Position, due \in BOOLEAN : Check(o, due)  BY <1>2, CheckKeeps
<1>3. CASE (\E o \in Position : Fetch(o)) \/ FetchedNothing  BY <1>3, FetchKeeps
<1>4. CASE ExecuteStops  BY <1>4, ExecuteKeeps
<1>5. CASE \E i \in Id, e \in Entries, p \in Stops, k \in Kind : AddPosition(i, e, p, k)
  BY <1>5, AddKeeps
<1>6. CASE \E i \in Id : RemovePosition(i)  BY <1>6, RemoveKeeps
<1>7. CASE \E i \in Id, p \in Stops, k \in Kind : UpdateStopPrice(i, p, k)  BY <1>7, UpdateKeeps
<1>8. CASE \E s \in Symbol : (\E p \in Price : UpdatePrice(s, p)) \/ PriceAges(s)
  BY <1>8, PricesKeep
<1>9. CASE UNCHANGED watchVars
  BY <1>9
  DEF watchVars, feedVars, roundVars, WatchInv, WatchTypeOK, Places, OwnId, Latest, Pending, CalledOnce
<1>10. QED
  BY <1>1, <1>2, <1>3, <1>4, <1>5, <1>6, <1>7, <1>8, <1>9 DEF WatchNext, Round, Others

(* Within a round the watch changes only where the stops are executed.  What *)
(* leaves is the object handed on, or one made after it for the same id.     *)
LEMMA RoundTakesItsStops == WatchInv /\ [WatchNext]_watchVars => [OnlyStoppedLeave]_watchVars
<1> SUFFICES ASSUME WatchInv, WatchNext, pc = "round",
                    NEW i \in Id, watched'[i] # watched[i]
             PROVE  \/ HandedOn(watched[i])
                    \/ \E o \in 1..(watched[i] - 1) : pos[o].id = i /\ HandedOn(o)
  BY DEF OnlyStoppedLeave
<1>1. ExecuteStops
  <2>1. ~Others
    BY DEF Others, AddPosition, RemovePosition, UpdateStopPrice, UpdatePrice, PriceAges, Outside
  <2>2. Round  BY <2>1 DEF WatchNext
  <2>3. QED  BY <2>2 DEF Round, BeginRound, Fetch, Check, FetchedNothing
<1>2. PICK o \in stops : pos[o].id = i
  BY <1>1 DEF ExecuteStops, Unwatched
<1>3. o \in 1..made /\ o \in Position
  BY MadeFields DEF WatchInv, WatchTypeOK
<1>4. HandedOn(o)
  BY <1>1, <1>3 DEF ExecuteStops, HandedOn
<1>5. watched[i] \in 0..made /\ watched[i] # NoPosition
  BY <1>1, <1>2 DEF WatchInv, WatchTypeOK, ExecuteStops, Unwatched
<1>6. o <= watched[i]
  BY <1>2, <1>3, <1>5 DEF WatchInv, Latest
<1>7. o = watched[i] \/ o \in 1..(watched[i] - 1)
  BY <1>3, <1>5, <1>6, WatchdogAssumption DEF WatchInv, WatchTypeOK
<1>8. QED  BY <1>2, <1>4, <1>7

(* The watch loop of any size hands no position to the engine's callback     *)
(* twice and is never left malformed, whatever is added, changed or removed  *)
(* while it waits.                                                           *)
THEOREM WatchSoundAlways == WatchSpec => []WatchSound
<1>1. WatchInv => WatchSound
  BY DEF WatchInv, WatchSound
<1>2. QED  BY <1>1, InitWatch, NextWatch, PTL DEF WatchSpec

(* A round of the watch loop takes from the watch what it hands on, and else *)
(* only what took the place of an object handed on, made later under its id. *)
THEOREM StoppedLeaveAlways == WatchSpec => StoppedLeave
<1>1. WatchSpec => []WatchInv
  BY InitWatch, NextWatch, PTL DEF WatchSpec
<1>2. QED  BY <1>1, RoundTakesItsStops, PTL DEF WatchSpec, StoppedLeave

-------------------------------------------------------------------------------
(* A position at or below its stop.                                          *)

(* A round has something to do, or there is something to begin one for.      *)
RoundDue == pc # "idle" \/ Watched # {}

(* Object o is watched under i, at or below its stop, at a price that is new. *)
AtStop(i, o) ==
  watched[i] = o /\ Fresh(SymbolOf[i]) /\ price[SymbolOf[i]] <= pos[o].stop

(* The round has o before it or among what it will hand on.                  *)
Caught(o) == o \in todo \cup stops /\ (pc = "fetching" => fetching # o)

(* The fallback is asked for a position the round has still to check.        *)
FetchesWhatIsLeft == pc = "fetching" => fetching \in todo

(* Only the round itself moves the round.                                    *)
LEMMA OthersLeaveTheRound ==
  ASSUME [WatchNext]_watchVars, ~Round
  PROVE  UNCHANGED roundVars
BY DEF WatchNext, Others, AddPosition, RemovePosition, UpdateStopPrice, UpdatePrice, PriceAges, watchVars

LEMMA NextFetch == FetchesWhatIsLeft /\ [WatchNext]_watchVars => FetchesWhatIsLeft'
<1> SUFFICES ASSUME FetchesWhatIsLeft, [WatchNext]_watchVars PROVE FetchesWhatIsLeft'
  OBVIOUS
<1>1. CASE Round
  BY <1>1 DEF Round, BeginRound, Fetch, Check, FetchedNothing, ExecuteStops, FetchesWhatIsLeft
<1>2. CASE ~Round
  BY <1>2, OthersLeaveTheRound DEF roundVars, FetchesWhatIsLeft
<1>3. QED  BY <1>1, <1>2

(* A round that has the objects S to check ends or has fewer of them to      *)
(* check some day, whatever other tasks do while it waits for a price: no    *)
(* fetch makes it start over.  There are at most MaxMade objects, so so many *)
(* uses of the theorem end the round.  That a round can make its next step   *)
(* is the hypothesis: the prover knows nothing of ENABLED.                   *)
THEOREM RoundsShrink ==
  ASSUME NEW S
  PROVE  WatchSpec /\ [](RoundDue => ENABLED <<Round>>_watchVars)
         => (pc # "idle" /\ todo = S ~> pc = "idle" \/ (todo \subseteq S /\ todo # S))
<1> DEFINE Checking == pc = "round" /\ todo = S
           Asking == pc = "fetching" /\ todo = S
           Less == pc = "idle" \/ (todo \subseteq S /\ todo # S)
           Going == pc # "idle" /\ todo = S
<1>1. ASSUME Checking \/ Asking, [WatchNext]_watchVars, ~Round
      PROVE  (Checking => Checking') /\ (Asking => Asking')
  BY <1>1, OthersLeaveTheRound DEF roundVars
<1>2. ASSUME Checking, Round PROVE Asking' \/ Less'
  BY <1>2 DEF Round, BeginRound, Fetch, Check, FetchedNothing, ExecuteStops
<1>3. ASSUME FetchesWhatIsLeft, Asking, Round PROVE Less'
  BY <1>3 DEF Round, BeginRound, Fetch, Check, FetchedNothing, ExecuteStops, FetchesWhatIsLeft
<1>4. Checking \/ Asking => RoundDue
  BY DEF RoundDue
<1>5. WatchInv /\ Going => Checking \/ Asking
  BY DEF WatchInv, WatchTypeOK
<1>6. WatchInit => FetchesWhatIsLeft
  BY DEF WatchInit, FetchesWhatIsLeft
<1>7. WatchSpec => [](WatchInv /\ FetchesWhatIsLeft)
  BY <1>6, NextFetch, InitWatch, NextWatch, PTL DEF WatchSpec
<1> HIDE DEF Checking, Asking, Less, Going
<1>8. /\ Checking /\ [WatchNext]_watchVars => Checking' \/ Asking' \/ Less'
      /\ FetchesWhatIsLeft /\ Asking /\ [WatchNext]_watchVars => Asking' \/ Less'
      /\ Checking /\ <<Round>>_watchVars => Asking' \/ Less'
      /\ FetchesWhatIsLeft /\ Asking /\ <<Round>>_watchVars => Less'
  BY <1>1, <1>2, <1>3
<1>9. WatchSpec /\ [](RoundDue => ENABLED <<Round>>_watchVars) => (Going ~> Less)
  BY <1>4, <1>5, <1>7, <1>8, PTL DEF WatchSpec
<1>10. QED  BY <1>9 DEF Going, Less

(* StoppedInTime for an object, as rounds end: it does not stay watched at   *)
(* or below its stop while its prices keep coming in.  A round that begins   *)
(* there catches it, and cannot end without taking it from the watch.        *)
THEOREM StopsAreExecuted ==
  ASSUME NEW i \in Id, NEW o \in Position
  PROVE  /\ WatchSpec
         /\ [](RoundDue => ENABLED <<Round>>_watchVars)
         /\ pc # "idle" ~> pc = "idle"
         => ~<>[]AtStop(i, o)
<1> DEFINE Idle == pc = "idle"
           Bad == AtStop(i, o)
           InRound == Caught(o)
<1>a. ASSUME WatchInv, Bad
      PROVE  /\ pos[o].id = i /\ SymbolAt(o) = SymbolOf[i] /\ o # NoPosition
             /\ Fresh(SymbolAt(o)) /\ price[SymbolAt(o)] <= pos[o].stop
  BY <1>a DEF WatchInv, OwnId, AtStop, SymbolAt, Position, NoPosition
<1>1. ASSUME WatchInv, Bad, Idle, [WatchNext]_watchVars, ~Idle' PROVE InRound'
  <2>1. Round
    BY <1>1, OthersLeaveTheRound DEF roundVars
  <2>2. BeginRound
    BY <1>1, <2>1 DEF Round, Fetch, Check, FetchedNothing, ExecuteStops
  <2>3. o \in Watched  BY <1>1 DEF Watched, AtStop
  <2>4. QED  BY <2>2, <2>3 DEF BeginRound, Collected, Caught
<1>2. ASSUME WatchInv, Bad, Bad', InRound, ~Idle, [WatchNext]_watchVars PROVE ~Idle' /\ InRound'
  <2>1. CASE ~Round
    BY <1>2, <2>1, OthersLeaveTheRound DEF roundVars, Caught
  <2>2. CASE FetchedNothing
    BY <1>2, <2>2 DEF FetchedNothing, Caught
  <2>3. ASSUME NEW x \in Position, Fetch(x) PROVE ~Idle' /\ InRound'
    BY <1>2, <1>a, <2>3 DEF Fetch, Caught
  <2>4. ASSUME NEW x \in Position, NEW due \in BOOLEAN, Check(x, due) PROVE ~Idle' /\ InRound'
    <3>1. x = o => Stopped(o, price[SymbolAt(o)], due)
      BY <1>2, <1>a DEF Stopped
    <3>2. /\ pc = "round" /\ pc' = pc /\ todo' = todo \ {x}
          /\ stops \subseteq stops' /\ (x = o => o \in stops')
      BY <2>4, <3>1 DEF Check
    <3>3. QED  BY <1>2, <3>2 DEF Caught
  <2>5. CASE ExecuteStops
    <3>1. o \in stops /\ watched' = Unwatched(stops)
      BY <1>2, <2>5 DEF ExecuteStops, Caught
    <3>2. watched'[i] = NoPosition
      BY <1>2, <1>a, <3>1 DEF Unwatched
    <3>3. QED  BY <1>2, <1>a, <3>2 DEF AtStop
  <2>6. CASE BeginRound
    BY <1>2, <2>6 DEF BeginRound
  <2>7. QED
    BY <2>1, <2>2, <2>3, <2>4, <2>5, <2>6 DEF Round
<1>3. Idle /\ <<Round>>_watchVars => ~Idle'
  BY DEF Round, BeginRound, Fetch, Check, FetchedNothing, ExecuteStops
<1>4. Bad => RoundDue
  BY DEF RoundDue, Watched, AtStop
<1>5. WatchSpec => []WatchInv
  BY InitWatch, NextWatch, PTL DEF WatchSpec
<1>b. (pc # "idle" <=> ~Idle) /\ (pc = "idle" <=> Idle) /\ (AtStop(i, o) <=> Bad)
  OBVIOUS
<1> HIDE DEF Idle, Bad, InRound
<1>6. /\ WatchInv /\ Bad /\ Idle /\ [WatchNext]_watchVars => Idle' \/ InRound'
      /\ WatchInv /\ Bad /\ Bad' /\ InRound /\ ~Idle /\ [WatchNext]_watchVars => ~Idle' /\ InRound'
  BY <1>1, <1>2
<1>7. /\ WatchSpec
      /\ [](RoundDue => ENABLED <<Round>>_watchVars)
      /\ ~Idle ~> Idle
      => ~<>[]Bad
  BY <1>3, <1>4, <1>5, <1>6, PTL DEF WatchSpec
<1>8. QED  BY <1>7, <1>b, PTL
===============================================================================
