----------------------------- MODULE PolicyProofs -----------------------------
(***************************************************************************)
(* Proofs about the policies that decide by themselves: the user's mode,    *)
(* the state machine of a position, and the size of an entry.               *)
(***************************************************************************)
EXTENDS PositionStateMachine, AttackPosition, UserMode, SetProofs

-------------------------------------------------------------------------------
(* The user's mode.  The mode in force is that of the last evaluation.       *)

Measured == [dd : Nat, loss : Nat]

ModeInv ==
  /\ requested \in Modes
  /\ account \in Measured /\ evaluated \in Measured
  /\ effective = EvaluateEffectiveMode(requested, evaluated)

(* Initially BALANCED is asked for, and nothing measured lowers it.          *)
LEMMA InitMode == UserModeInit => ModeInv
BY DEF UserModeInit, ModeInv, Modes, NoState, Measured, EvaluateEffectiveMode

(* Whatever sets the mode in force evaluates it from what it remembers.      *)
LEMMA NextMode == ModeInv /\ [UserModeNext]_modeVars => ModeInv'
<1> SUFFICES ASSUME ModeInv, [UserModeNext]_modeVars PROVE ModeInv'
  OBVIOUS
<1>1. Accounts \subseteq Measured
  BY ModeAssumption DEF Accounts, Measured
<1>2. CASE \E mode \in Modes : SetMode(mode)
  BY <1>2 DEF SetMode, ModeInv
<1>3. CASE \E a \in Accounts : UpdateRiskState(a) \/ AccountMeasured(a)
  BY <1>1, <1>3 DEF UpdateRiskState, AccountMeasured, ModeInv
<1>4. CASE UNCHANGED modeVars
  BY <1>4 DEF modeVars, ModeInv
<1>5. QED  BY <1>2, <1>3, <1>4 DEF UserModeNext

(* The evaluation lowers by the account, a worse account at least as much.   *)
LEMMA EvaluationLowers ==
  ASSUME NEW mode \in Modes, NEW a \in Measured
  PROVE  /\ Boldness(EvaluateEffectiveMode(mode, a)) <= Boldness(mode)
         /\ EvaluateEffectiveMode(mode, a) = "PAPER" <=> mode = "PAPER"
         /\ \A b \in Measured : b.dd >= a.dd /\ b.loss >= a.loss =>
              Boldness(EvaluateEffectiveMode(mode, b)) <= Boldness(EvaluateEffectiveMode(mode, a))
<1>1. \A m \in Modes : Boldness(m) \in Int
  BY DEF Modes, Boldness
<1>2. \A b \in Measured : b.dd \in Nat /\ b.loss \in Nat
  BY DEF Measured
<1>3. CASE mode = "PAPER"  BY <1>3 DEF EvaluateEffectiveMode, Boldness
<1>4. CASE mode = "SAFE"  BY <1>4 DEF EvaluateEffectiveMode, Boldness
<1>5. CASE mode = "BALANCED"  BY <1>2, <1>5 DEF EvaluateEffectiveMode, Boldness
<1>6. CASE mode = "AGGRESSIVE"  BY <1>2, <1>6 DEF EvaluateEffectiveMode, Boldness
<1>7. QED  BY <1>3, <1>4, <1>5, <1>6 DEF Modes

(* Whatever is measured and asked for, and however the two interleave, the   *)
(* engine is never bolder than the user asked for, trades unless the user    *)
(* asked for PAPER, and gets no bolder by a worse account.                   *)
THEOREM OnlyLoweredAlways == UserModeInit /\ [][UserModeNext]_modeVars => OnlyLowered
<1> DEFINE Lowered ==
      /\ Boldness(effective') <= Boldness(requested')
      /\ ShouldExecuteTrades' <=> requested' # "PAPER"
      /\ requested' = requested /\ evaluated'.dd >= evaluated.dd /\ evaluated'.loss >= evaluated.loss
           => Boldness(effective') <= Boldness(effective)
<1>1. UserModeInit /\ [][UserModeNext]_modeVars => []ModeInv
  BY InitMode, NextMode, PTL
<1>2. ModeInv /\ ModeInv' => Lowered
  BY EvaluationLowers DEF ModeInv, ShouldExecuteTrades
<1>3. ModeInv /\ ModeInv' => [Lowered]_modeVars
  BY <1>2
<1>4. QED  BY <1>1, <1>3, PTL DEF OnlyLowered

-------------------------------------------------------------------------------
(* The state machine of a position.  A count of two strong scores is backed  *)
(* by as many evaluations (strong), and nothing counts a climax (extreme).   *)

PsmInv == PsmTypeOK /\ StateIsEarned /\ position.strong <= highs

(* The counters of the state machine stop at 2.                              *)
LEMMA CountedBound ==
  ASSUME NEW n \in 0..2
  PROVE  Counted(n) = IF n < 2 THEN n + 1 ELSE 2
BY MinMaxOfTwo, n + 1 \in Int, 2 \in Int DEF Counted

Bands == {"weak", "middle", "strong", "extreme"}
Reading == [band : Bands, overheat : BOOLEAN, broken : BOOLEAN, riskOff : BOOLEAN, aboveVwap : BOOLEAN]

(* Every reading has a band: the score is a number between 0 and 100.         *)
LEMMA ReadingTypes == Readings \subseteq Reading
<1> SUFFICES ASSUME NEW s \in Signals PROVE Read(s) \in Reading
  BY DEF Readings
<1>1. VolumeScore(s) \in Int
  <2>1. s.rvol \in 0..5  BY DEF Signals
  <2>2. CASE s.rvol >= 3  BY <2>2 DEF VolumeScore
  <2>3. CASE s.rvol \in {0, 1, 2}  BY <2>3 DEF VolumeScore
  <2>4. QED  BY <2>1, <2>2, <2>3
<1>2. OverheatPenalty(s) \in Int  BY DEF OverheatPenalty
<1>3. /\ s.vwap \in Int /\ s.structure \in Int /\ s.candle \in Int
      /\ s.momentum \in Int /\ s.btc \in Int
  BY DEF Signals
<1> DEFINE raw == 50 + VolumeScore(s) + s.vwap + s.structure + s.candle + s.momentum
                    + OverheatPenalty(s) + s.btc
<1>4. raw \in Int  BY <1>1, <1>2, <1>3
<1>5. CalculateScore(s) = Max({0, Min({100, raw})})  BY DEF CalculateScore
<1> HIDE DEF raw
<1>6. CalculateScore(s) \in 0..100
  <2>1. PICK m \in Int : m = Min({100, raw}) /\ m <= 100  BY <1>4, MinMaxOfTwo
  <2>2. Max({0, m}) = IF 0 >= m THEN 0 ELSE m  BY MinMaxOfTwo
  <2>3. QED  BY <1>5, <2>1, <2>2
<1>7. \A n \in 0..100 : Band(n) \in Bands  BY DEF Band, Bands
<1>8. CheckOverheatCondition(s) \in BOOLEAN /\ CheckStructureBreak(s) \in BOOLEAN
  BY DEF CheckOverheatCondition, CheckStructureBreak
<1>9. QED  BY <1>3, <1>6, <1>7, <1>8 DEF Read, Reading

(* Positions of which no climax is counted.                                  *)
Uncounted == [state : PositionState \cup {"none"}, weak : 0..2, strong : 0..2, extreme : {0},
              age : 0..MaxAge, tp1 : BOOLEAN, tp2 : BOOLEAN]

(* Setting one field of such a position.                                     *)
LEMMA OneField ==
  ASSUME NEW p \in Uncounted
  PROVE  /\ \A state \in PositionState : [p EXCEPT !.state = state] \in Uncounted
         /\ \A n \in 0..2 : [p EXCEPT !.weak = n] \in Uncounted
         /\ \A n \in 0..2 : [p EXCEPT !.strong = n] \in Uncounted
         /\ [p EXCEPT !.extreme = 0] \in Uncounted
BY DEF Uncounted

(* Leaving WEAK takes a price above VWAP; it forgets the weak scores only.    *)
LEMMA RecoverFacts ==
  ASSUME NEW p \in Uncounted, NEW x \in Reading
  PROVE  /\ RecoverFromWeak(p, x) \in Uncounted
         /\ RecoverFromWeak(p, x).state \in {"WEAK", "NORMAL"}
         /\ RecoverFromWeak(p, x).strong = p.strong
<1> DEFINE p1 == [p EXCEPT !.weak = 0]
           to == IF x.aboveVwap THEN "NORMAL" ELSE "WEAK"
<1>1. RecoverFromWeak(p, x) = [p1 EXCEPT !.state = to]
  BY DEF RecoverFromWeak, Uncounted
<1>2. p1 \in Uncounted /\ p1.strong = p.strong  BY OneField DEF Uncounted
<1>3. to \in {"WEAK", "NORMAL"} /\ to \in PositionState  BY DEF PositionState
<1> HIDE DEF p1, to
<1>4. QED  BY <1>1, <1>2, <1>3, OneField DEF Uncounted

(* What the score path makes of a position when no hard rule decides: never   *)
(* EXTREME, and STRONG only with two strong scores counted.                   *)
LEMMA ScoreFacts ==
  ASSUME PsmInv, NEW x \in Reading, ~x.overheat,
         NEW h, h = IF x.band = "middle" THEN highs
                    ELSE IF x.band = "weak" THEN 0 ELSE Min({highs + 1, 2})
  PROVE  /\ ScoreToState(position, x) \in
              [state : {"WEAK", "NORMAL", "STRONG"}, weak : 0..2, strong : 0..2, extreme : {0},
               age : 0..MaxAge, tp1 : BOOLEAN, tp2 : BOOLEAN]
         /\ h \in 0..2 /\ ScoreToState(position, x).strong <= h
         /\ ScoreToState(position, x).state = "STRONG" => h = 2
<1> DEFINE p == position
           q == ScoreToState(p, x)
<1>1. /\ p \in Uncounted
      /\ highs \in 0..2 /\ p.strong <= highs
      /\ p.state = "STRONG" => highs = 2
  BY DEF PsmInv, PsmTypeOK, StateIsEarned, Uncounted
<1>2. /\ Counted(p.weak) \in 0..2
      /\ Counted(p.strong) \in 0..2 /\ Counted(highs) \in 0..2
      /\ Counted(p.strong) <= Counted(highs)
      /\ highs = 2 => Counted(highs) = 2
      /\ Min({highs + 1, 2}) = Counted(highs)
  <2>1. \A n \in 0..2 : Counted(n) = IF n < 2 THEN n + 1 ELSE 2  BY CountedBound
  <2>2. PICK w \in 0..2, t \in 0..2, k \in 0..2 : w = p.weak /\ t = p.strong /\ k = highs
    BY <1>1 DEF Uncounted
  <2>3. t <= k  BY <1>1, <2>2
  <2>4. /\ Counted(w) \in 0..2 /\ Counted(t) \in 0..2 /\ Counted(k) \in 0..2
        /\ Counted(t) <= Counted(k)
        /\ k = 2 => Counted(k) = 2
    BY <2>1, <2>3
  <2>5. Min({highs + 1, 2}) = Counted(highs)  BY DEF Counted
  <2>6. QED  BY <2>2, <2>4, <2>5
<1>3. x.band \in Bands /\ x.aboveVwap \in BOOLEAN /\ ~Climax(x)
  BY DEF Reading, Climax
<1>4. \A u \in Uncounted : u.state # "none" /\ u.state # "EXTREME" =>
         u \in [state : {"WEAK", "NORMAL", "STRONG"}, weak : 0..2, strong : 0..2, extreme : {0},
                age : 0..MaxAge, tp1 : BOOLEAN, tp2 : BOOLEAN]
  BY DEF Uncounted, PositionState
<1> SUFFICES /\ q \in Uncounted /\ q.state \in {"WEAK", "NORMAL", "STRONG"}
             /\ h \in 0..2 /\ q.strong <= h
             /\ q.state = "STRONG" => h = 2
  BY <1>4
<1>5. CASE x.band = "weak"
  <2> DEFINE p1 == [p EXCEPT !.state = "WEAK"]
             p2 == [p1 EXCEPT !.strong = 0]
             p3 == [p2 EXCEPT !.extreme = 0]
  <2>1. q = [p EXCEPT !.state = "WEAK", !.strong = 0, !.extreme = 0, !.weak = Counted(p.weak)]
    BY <1>3, <1>5 DEF ScoreToState
  <2>2. q = [p3 EXCEPT !.weak = Counted(p.weak)]  BY <1>1, <2>1 DEF Uncounted
  <2> HIDE DEF p, q
  <2>3. p1 \in Uncounted /\ p1.state = "WEAK"
    BY <1>1, OneField DEF Uncounted, PositionState
  <2> HIDE DEF p1
  <2>4. p2 \in Uncounted /\ p2.state = "WEAK" /\ p2.strong = 0
    BY <2>3, OneField DEF Uncounted
  <2> HIDE DEF p2
  <2>5. p3 \in Uncounted /\ p3.state = "WEAK" /\ p3.strong = 0
    BY <2>4, OneField DEF Uncounted
  <2> HIDE DEF p3
  <2>6. q \in Uncounted /\ q.state = "WEAK" /\ q.strong = 0
    BY <1>2, <2>2, <2>5, OneField DEF Uncounted
  <2>7. h = 0  BY <1>5
  <2>8. QED  BY <2>6, <2>7
<1>6. CASE x.band \in {"strong", "extreme"}
  <2> DEFINE p1 == [p EXCEPT !.weak = 0]
             p2 == [p1 EXCEPT !.extreme = 0]
             r == [p EXCEPT !.weak = 0, !.extreme = 0, !.strong = Counted(p.strong)]
  <2>1. q = IF r.strong >= 2 \/ p.state = "STRONG" THEN [r EXCEPT !.state = "STRONG"]
            ELSE IF p.state = "WEAK" THEN RecoverFromWeak(r, x)
            ELSE [r EXCEPT !.state = "NORMAL"]
    BY <1>3, <1>6 DEF ScoreToState
  <2>2. h = Counted(highs)  BY <1>2, <1>6
  <2>3. r \in Uncounted /\ r.strong = Counted(p.strong) /\ r.state = p.state
    <3>1. r = [p2 EXCEPT !.strong = Counted(p.strong)]  BY <1>1 DEF Uncounted
    <3> HIDE DEF p, r
    <3>2. p1 \in Uncounted /\ p1.state = p.state  BY <1>1, OneField DEF Uncounted
    <3> HIDE DEF p1
    <3>3. p2 \in Uncounted /\ p2.state = p.state  BY <3>2, OneField DEF Uncounted
    <3> HIDE DEF p2
    <3>4. QED  BY <1>2, <3>1, <3>3, OneField DEF Uncounted
  <2> HIDE DEF p, q, r
  <2>4. RecoverFromWeak(r, x).strong = r.strong /\ RecoverFromWeak(r, x) \in Uncounted
        /\ RecoverFromWeak(r, x).state \in {"WEAK", "NORMAL"}
    BY <2>3, RecoverFacts
  <2>5. /\ q \in Uncounted /\ q.state \in {"WEAK", "NORMAL", "STRONG"} /\ q.strong = r.strong
        /\ q.state = "STRONG" => r.strong >= 2 \/ p.state = "STRONG"
    BY <2>1, <2>3, <2>4, OneField, ZenonT(40) DEF PositionState, Uncounted
  <2>6. PICK m \in 0..2, k \in 0..2 : m = Counted(p.strong) /\ k = Counted(highs)  BY <1>2
  <2>7. QED  BY <1>1, <1>2, <2>2, <2>3, <2>5, <2>6
<1>7. CASE x.band = "middle"
  <2> DEFINE p1 == [p EXCEPT !.state = "NORMAL"]
             p2 == [p1 EXCEPT !.strong = 0]
  <2>1. q = IF p.state = "WEAK" THEN RecoverFromWeak(p, x)
            ELSE [p EXCEPT !.state = "NORMAL", !.strong = 0, !.extreme = 0]
    BY <1>3, <1>7 DEF ScoreToState
  <2>2. h = highs  BY <1>7
  <2>3. CASE p.state = "WEAK"
    <3>1. q = RecoverFromWeak(p, x)  BY <2>1, <2>3
    <3> HIDE DEF p, q
    <3>2. QED  BY <1>1, <2>2, <3>1, RecoverFacts
  <2>4. CASE p.state # "WEAK"
    <3>1. q = [p2 EXCEPT !.extreme = 0]  BY <1>1, <2>1, <2>4 DEF Uncounted
    <3> HIDE DEF p, q
    <3>2. p1 \in Uncounted /\ p1.state = "NORMAL"
      BY <1>1, OneField DEF Uncounted, PositionState
    <3> HIDE DEF p1
    <3>3. p2 \in Uncounted /\ p2.state = "NORMAL" /\ p2.strong = 0
      BY <3>2, OneField DEF Uncounted
    <3> HIDE DEF p2
    <3>4. q \in Uncounted /\ q.state = "NORMAL" /\ q.strong = 0
      BY <3>1, <3>3, OneField DEF Uncounted
    <3>5. QED  BY <1>1, <2>2, <3>4
  <2>5. QED  BY <2>3, <2>4
<1>8. QED  BY <1>3, <1>5, <1>6, <1>7 DEF Bands

(* A policy sells one of a few shares of the position.                        *)
LEMMA ActionTypes ==
  ASSUME NEW p, p.state \in PositionState, NEW r \in Int,
         p.tp1 \in BOOLEAN, p.tp2 \in BOOLEAN
  PROVE  /\ GetAction(p, r) \in [exit : BOOLEAN, reduceOnly : BOOLEAN, sell : {0, 20, 30, 50, 60, 70}]
         /\ p.state = "WEAK" => GetAction(p, r).reduceOnly
         /\ TimedOut(p, r) => GetAction(p, r).exit
<1>1. TakeProfit(p, r, 30, 15) \in {0, 30, 60} /\ TakeProfit(p, r, 20, 20) \in {0, 20, 30, 50}
  BY DEF TakeProfit
<1>2. TimedOut(p, r) \in BOOLEAN  BY DEF TimedOut
<1>3. CASE p.state = "WEAK"  BY <1>2, <1>3 DEF GetAction
<1>4. CASE p.state = "NORMAL"  BY <1>1, <1>2, <1>4 DEF GetAction
<1>5. CASE p.state = "STRONG"  BY <1>1, <1>2, <1>5 DEF GetAction
<1>6. CASE p.state = "EXTREME"  BY <1>2, <1>6 DEF GetAction
<1>7. QED  BY <1>3, <1>4, <1>5, <1>6 DEF PositionState

(* Initially there is no position.                                           *)
LEMMA InitPsm == PsmInit => PsmInv
BY PositionAssumption
   DEF PsmInit, PsmInv, PsmTypeOK, StateIsEarned, NoPosition, NoIntent, NothingSeen, PositionState

(* An evaluation: the hard rules first, and danger before the climax.        *)
LEMMA EvaluateKeeps ==
  ASSUME PsmInv, NEW x \in Readings, NEW r \in Int, NEW engine, NEW tier \in Nat,
         Evaluate(x, r, engine, tier)
  PROVE  PsmInv'
<1> DEFINE forced == CheckHardRules(x, r, engine, tier)
           danger == x.riskOff \/ engine # "NORMAL" \/ tier >= 4
<1>1. x \in Reading  BY ReadingTypes
<1>2. /\ position' = IF forced # "none" THEN [position EXCEPT !.state = forced]
                     ELSE ScoreToState(position, x)
      /\ highs' = IF forced # "none" \/ x.band = "middle" THEN highs
                  ELSE IF x.band = "weak" THEN 0 ELSE Min({highs + 1, 2})
      /\ intent' = GetAction(position', r)
      /\ seen' = [overheat |-> x.overheat, danger |-> danger]
  BY DEF Evaluate
<1>3. /\ x.overheat \in BOOLEAN /\ danger \in BOOLEAN
      /\ forced \in {"WEAK", "EXTREME", "none"}
      /\ danger => forced = "WEAK"
      /\ forced = "EXTREME" => x.overheat
      /\ forced = "none" => ~x.overheat
  BY <1>1 DEF Reading, CheckHardRules, CheckWeakHardRules
<1> HIDE DEF forced, danger
<1>4. /\ position' \in [state : PositionState, weak : 0..2, strong : 0..2, extreme : {0},
                        age : 0..MaxAge, tp1 : BOOLEAN, tp2 : BOOLEAN]
      /\ highs' \in 0..2 /\ position'.strong <= highs'
      /\ position'.state = "STRONG" => highs' = 2
      /\ position'.state = "EXTREME" => x.overheat
      /\ danger => position'.state = "WEAK"
  <2>1. CASE forced # "none"
    <3>1. position' = [position EXCEPT !.state = forced] /\ highs' = highs  BY <1>2, <2>1
    <3>2. QED
      BY <1>3, <2>1, <3>1 DEF PsmInv, PsmTypeOK, StateIsEarned, PositionState
  <2>2. CASE forced = "none"
    <3>1. /\ position' = ScoreToState(position, x)
          /\ highs' = IF x.band = "middle" THEN highs
                      ELSE IF x.band = "weak" THEN 0 ELSE Min({highs + 1, 2})
      BY <1>2, <2>2
    <3>2. ~x.overheat /\ ~danger  BY <1>3, <2>2
    <3>3. QED  BY <1>1, <3>1, <3>2, ScoreFacts DEF PositionState
  <2>3. QED  BY <2>1, <2>2
<1>5. /\ intent' \in [exit : BOOLEAN, reduceOnly : BOOLEAN, sell : {0, 20, 30, 50, 60, 70}]
      /\ position'.state = "WEAK" => intent'.reduceOnly
  BY <1>2, <1>4, ActionTypes
<1>6. seen' \in [overheat : BOOLEAN, danger : BOOLEAN]
      /\ seen'.overheat = x.overheat /\ seen'.danger = danger
  BY <1>2, <1>3
<1>7. QED  BY <1>4, <1>5, <1>6 DEF PsmInv, PsmTypeOK, StateIsEarned

(* Every other step leaves the state of a position, or begins or ends one.   *)
LEMMA OthersKeepPsm ==
  ASSUME PsmInv, CreatePosition \/ ClosePosition \/ UpdateTpStatus \/ CandleCloses
  PROVE  PsmInv'
<1>1. CASE CreatePosition
  <2>1. position' = [state |-> "NORMAL", weak |-> 0, strong |-> 0, extreme |-> 0, age |-> 0,
                     tp1 |-> FALSE, tp2 |-> FALSE]
    BY <1>1 DEF CreatePosition, NoPosition
  <2>2. intent' = NoIntent /\ seen' = NothingSeen /\ highs' = 0  BY <1>1 DEF CreatePosition
  <2>3. PsmTypeOK'
    BY <2>1, <2>2, PositionAssumption DEF PsmTypeOK, NoIntent, NothingSeen, PositionState
  <2>4. StateIsEarned'  BY <2>1, <2>2 DEF StateIsEarned, NothingSeen
  <2>5. position'.strong <= highs'  BY <2>1, <2>2
  <2>6. QED  BY <2>3, <2>4, <2>5 DEF PsmInv
<1>2. CASE ClosePosition
  BY <1>2, PositionAssumption
  DEF ClosePosition, PsmInv, PsmTypeOK, StateIsEarned, NoPosition, NoIntent, NothingSeen, PositionState
<1>3. CASE UpdateTpStatus
  <2>1. PICK first, second \in BOOLEAN :
           position' = [position EXCEPT !.tp1 = @ \/ first, !.tp2 = @ \/ second]
    BY <1>3 DEF UpdateTpStatus
  <2>2. (position.tp1 \/ first) \in BOOLEAN /\ (position.tp2 \/ second) \in BOOLEAN
    OBVIOUS
  <2>3. /\ position' \in [state : PositionState \cup {"none"}, weak : 0..2, strong : 0..2,
                          extreme : 0..2, age : 0..MaxAge, tp1 : BOOLEAN, tp2 : BOOLEAN]
        /\ position'.state = position.state /\ position'.extreme = position.extreme
        /\ position'.strong = position.strong
    BY <2>1, <2>2 DEF PsmInv, PsmTypeOK
  <2>4. QED  BY <1>3, <2>3 DEF UpdateTpStatus, PsmInv, PsmTypeOK, StateIsEarned
<1>4. CASE CandleCloses
  <2>1. position.age + 1 \in 0..MaxAge
    BY <1>4, PositionAssumption DEF CandleCloses, PsmInv, PsmTypeOK
  <2>2. QED  BY <1>4, <2>1 DEF CandleCloses, PsmInv, PsmTypeOK, StateIsEarned
<1>5. QED  BY <1>1, <1>2, <1>3, <1>4

(* Every step preserves the invariant.                                       *)
LEMMA NextPsm == PsmInv /\ [PsmNext]_psmVars => PsmInv'
<1> SUFFICES ASSUME PsmInv, [PsmNext]_psmVars PROVE PsmInv'
  OBVIOUS
<1>1. CASE CreatePosition \/ ClosePosition \/ UpdateTpStatus \/ CandleCloses
  BY <1>1, OthersKeepPsm
<1>2. CASE \E x \in Readings, r \in Profits,
              risk \in {<<"NORMAL", 1>>, <<"NORMAL", 3>>, <<"NORMAL", 4>>, <<"SAFE", 1>>} :
              Evaluate(x, r, risk[1], risk[2])
  <2>1. PICK x \in Readings, r \in Profits,
             risk \in {<<"NORMAL", 1>>, <<"NORMAL", 3>>, <<"NORMAL", 4>>, <<"SAFE", 1>>} :
             Evaluate(x, r, risk[1], risk[2])
    BY <1>2
  <2>2. r \in Int /\ risk[2] \in Nat  BY PositionAssumption
  <2>3. QED  BY <2>1, <2>2, EvaluateKeeps
<1>3. CASE UNCHANGED psmVars
  BY <1>3 DEF psmVars, PsmInv, PsmTypeOK, StateIsEarned
<1>4. QED  BY <1>1, <1>2, <1>3 DEF PsmNext

(* At any age and profit, a position is EXTREME, STRONG or out of WEAK only  *)
(* where the evaluations have earned it.                                     *)
THEOREM StateIsEarnedAlways == PsmInit /\ [][PsmNext]_psmVars => []StateIsEarned
<1>1. PsmInv => StateIsEarned  BY DEF PsmInv
<1>2. QED  BY InitPsm, NextPsm, <1>1, PTL

(* The conditional time stop asks for a profit of nothing and an age at      *)
(* which the policy of the state has given the position up already.          *)
LEMMA TimeStopWaits == PsmTypeOK => TimeStopNeverQuicker
<1> SUFFICES ASSUME PsmTypeOK, NEW r \in Profits, NEW volatility \in {"high", "usual", "low"},
                    ShouldTimeStop(position.state, 5 * position.age, r, volatility)
             PROVE  GetAction(position, r).exit
  BY DEF TimeStopNeverQuicker
<1>1. position.age \in Nat /\ r \in Int /\ r <= 0
  BY PositionAssumption DEF PsmTypeOK, ShouldTimeStop
<1>2. TimeMultiplier(volatility) \in {15, 8, 10}  BY DEF TimeMultiplier
<1>3. CASE position.state = "WEAK"
  <2>1. ThresholdMinutes("WEAK", volatility) \in {30, 16, 20}
    BY <1>2 DEF ThresholdMinutes
  <2>2. 5 * position.age >= 16  BY <1>1, <1>3, <2>1 DEF ShouldTimeStop
  <2>3. position.age >= 3  BY <1>1, <2>2
  <2>4. TimedOut(position, r)  BY <1>1, <1>3, <2>3 DEF TimedOut
  <2>5. QED  BY <1>1, <1>3, <2>4, ActionTypes DEF PsmTypeOK, PositionState
<1>4. CASE position.state = "NORMAL"
  <2>1. ThresholdMinutes("NORMAL", volatility) \in {67, 36, 45}
    BY <1>2 DEF ThresholdMinutes
  <2>2. 5 * position.age >= 36  BY <1>1, <1>4, <2>1 DEF ShouldTimeStop
  <2>3. position.age >= 6  BY <1>1, <2>2
  <2>4. TimedOut(position, r)  BY <1>1, <1>4, <2>3 DEF TimedOut
  <2>5. QED  BY <1>1, <1>4, <2>4, ActionTypes DEF PsmTypeOK, PositionState
<1>5. QED  BY <1>3, <1>4 DEF ShouldTimeStop

(* However old a position gets, the conditional time stop never sells what    *)
(* the policy of its state would keep.                                       *)
THEOREM TimeStopNeverQuickerAlways == PsmInit /\ [][PsmNext]_psmVars => []TimeStopNeverQuicker
<1>1. PsmInv => TimeStopNeverQuicker  BY TimeStopWaits DEF PsmInv
<1>2. QED  BY InitPsm, NextPsm, <1>1, PTL

-------------------------------------------------------------------------------
(* The size of an entry.  What the gate grants is the least of a set of      *)
(* levels that danger only adds to; what it grants is affordable at any stop. *)

Profiles == {"GROWTH", "PRESERVE"}
Level == 0..3
StopDistance == 50..150
Limits(mode, c) == SoftLimits(mode, c) \cup {c.level}

AttackInv == signal # NoSignal => signal \in Conditions \X Breakouts \X Ranges

(* The fields of a condition.                                                *)
LEMMA ConditionFields ==
  ASSUME NEW c \in Conditions
  PROVE  /\ c.level \in Level /\ c.tier \in 1..6 /\ c.change \in 0..3
         /\ c.attack \in {"OFF", "NORMAL", "PLUS", "MAX"}
         /\ c.regime \in {"RISK_ON", "NEUTRAL", "BEARISH", "RISK_OFF", "VOLATILE"}
         /\ c.loss \in BOOLEAN /\ c.pump \in BOOLEAN
BY DEF Conditions, Level

(* A non-empty set of levels has a least one.                                *)
LEMMA LeastLevel ==
  ASSUME NEW S \in SUBSET Level, S # {}
  PROVE  Least(S) \in S /\ \A m \in S : Least(S) <= m
<1>1. \E n \in S : \A m \in S : n <= m
  <2>1. CASE 0 \in S  BY <2>1 DEF Level
  <2>2. CASE 0 \notin S /\ 1 \in S  BY <2>2 DEF Level
  <2>3. CASE 0 \notin S /\ 1 \notin S /\ 2 \in S  BY <2>3 DEF Level
  <2>4. CASE 0 \notin S /\ 1 \notin S /\ 2 \notin S
    <3>1. \A m \in S : m = 3  BY <2>4 DEF Level
    <3>2. QED  BY <3>1
  <2>5. QED  BY <2>1, <2>2, <2>3, <2>4
<1>2. QED  BY <1>1 DEF Least

(* The profiles allow two and three levels.                                  *)
LEMMA LevelsAllowed ==
  ASSUME NEW mode \in Profiles
  PROVE  Cardinality(AllowedAttackLevels(mode)) = IF mode = "PRESERVE" THEN 2 ELSE 3
<1>1. \A a, b \in Int : Cardinality(a..b) = IF a > b THEN 0 ELSE b - a + 1
  BY FS_Interval
<1>2. 1 \in Int /\ 2 \in Int /\ 3 \in Int  OBVIOUS
<1>3. /\ Cardinality(1..2) = IF 1 > 2 THEN 0 ELSE 2 - 1 + 1
      /\ Cardinality(1..3) = IF 1 > 3 THEN 0 ELSE 3 - 1 + 1
  BY <1>1, <1>2, Zenon
<1>4. Cardinality(1..2) = 2 /\ Cardinality(1..3) = 3  BY <1>3
<1>5. QED  BY <1>4 DEF AllowedAttackLevels, Profiles

(* What the gate chooses from are levels.                                     *)
LEMMA LimitTypes ==
  ASSUME NEW mode \in Profiles, NEW c \in Conditions
  PROVE  Limits(mode, c) \in SUBSET Level /\ Limits(mode, c) # {}
<1>1. c.level \in Level  BY ConditionFields
<1>2. ModeMaxLevel(c.attack) \in Level  BY ConditionFields DEF ModeMaxLevel, Level
<1>3. Cardinality(AllowedAttackLevels(mode)) \in Level  BY LevelsAllowed DEF Level
<1>4. c.level \in {2, 3} => c.level - 1 \in Level  BY DEF Level
<1>5. 1 \in Level /\ 2 \in Level  BY DEF Level
<1>6. SoftLimits(mode, c) \subseteq Level  BY <1>2, <1>3, <1>4, <1>5 DEF SoftLimits
<1>7. QED  BY <1>1, <1>6 DEF Limits

(* The gate blocks, or grants the least of its limits.                        *)
LEMMA GateFacts ==
  ASSUME NEW mode \in Profiles, NEW c \in Conditions
  PROVE  /\ GateCheck(mode, c) \in Level
         /\ Blocked(mode, c) => GateCheck(mode, c) = 0
         /\ ~Blocked(mode, c) => /\ GateCheck(mode, c) \in Limits(mode, c)
                                /\ \A m \in Limits(mode, c) : GateCheck(mode, c) <= m
<1>1. /\ Least(Limits(mode, c)) \in Limits(mode, c)
      /\ \A m \in Limits(mode, c) : Least(Limits(mode, c)) <= m
  BY LimitTypes, LeastLevel
<1>2. GateCheck(mode, c) = IF Blocked(mode, c) THEN 0 ELSE Least(Limits(mode, c))
  BY DEF GateCheck, Least, Limits
<1>3. 0 \in Level  BY DEF Level
<1>4. QED  BY <1>1, <1>2, <1>3, LimitTypes

(* What the gate has made sure of when it grants a level.                     *)
LEMMA GrantedMeans ==
  ASSUME NEW mode \in Profiles, NEW c \in Conditions, GateCheck(mode, c) # 0
  PROVE  /\ ~Blocked(mode, c)
         /\ c.tier \in {1, 2} /\ c.regime \in {"RISK_ON", "NEUTRAL"}
         /\ c.attack \in {"NORMAL", "PLUS", "MAX"}
         /\ mode = "PRESERVE" => c.attack = "NORMAL"
         /\ GateCheck(mode, c) \in 1..3
         /\ GateCheck(mode, c) <= ModeMaxLevel(c.attack)
         /\ c.tier = 2 => GateCheck(mode, c) <= 1
<1>1. ~Blocked(mode, c)  BY GateFacts
<1>2. /\ c.tier \in {1, 2} /\ c.regime \in {"RISK_ON", "NEUTRAL"}
      /\ c.attack \in {"NORMAL", "PLUS", "MAX"}
      /\ mode = "PRESERVE" => c.attack = "NORMAL"
  BY <1>1, ConditionFields DEF Blocked, AllowedAttackModes, Profiles
<1>3. GateCheck(mode, c) \in 1..3  BY GateFacts DEF Level
<1>4. ModeMaxLevel(c.attack) \in Limits(mode, c)  BY DEF Limits, SoftLimits
<1>5. c.tier = 2 => 1 \in Limits(mode, c)  BY DEF Limits, SoftLimits
<1>6. QED  BY <1>1, <1>2, <1>3, <1>4, <1>5, GateFacts

(* A worse condition is blocked or has all the limits of the better one.      *)
LEMMA WorseGate ==
  ASSUME NEW mode \in Profiles, NEW c \in Conditions, NEW d \in Worse(c)
  PROVE  /\ d \in Conditions
         /\ GateCheck(mode, d) <= GateCheck(mode, c)
<1>1. CASE c.tier < 6 /\ d = [c EXCEPT !.tier = @ + 1]
  <2>1. /\ d \in Conditions /\ d.tier = c.tier + 1
        /\ d.level = c.level /\ d.attack = c.attack /\ d.regime = c.regime
        /\ d.loss = c.loss /\ d.change = c.change /\ d.pump = c.pump
    BY <1>1, ConditionFields DEF Conditions
  <2>2. Blocked(mode, c) => Blocked(mode, d)
    BY <2>1, ConditionFields DEF Blocked
  <2>3. Limits(mode, c) \subseteq Limits(mode, d)
    <3>1. CanUseAttackLevel(mode, d.level, d.tier, d.regime) =>
             CanUseAttackLevel(mode, c.level, c.tier, c.regime)
      BY <2>1, ConditionFields DEF CanUseAttackLevel
    <3>2. c.tier >= 2 => d.tier >= 2  BY <2>1, ConditionFields
    <3>3. QED  BY <2>1, <3>1, <3>2 DEF Limits, SoftLimits
  <2>4. QED  BY <2>1, <2>2, <2>3, GateFacts DEF Level
<1>2. CASE c.change < 3 /\ d = [c EXCEPT !.change = @ + 1]
  <2>1. /\ d \in Conditions /\ d.change = c.change + 1
        /\ d.level = c.level /\ d.attack = c.attack /\ d.regime = c.regime
        /\ d.loss = c.loss /\ d.tier = c.tier /\ d.pump = c.pump
    BY <1>2, ConditionFields DEF Conditions
  <2>2. Blocked(mode, c) => Blocked(mode, d)
    BY <1>2, <2>1, ConditionFields DEF Blocked
  <2>3. Limits(mode, c) \subseteq Limits(mode, d)
    <3>1. /\ c.change >= 1 => d.change >= 1
          /\ c.change >= 2 => d.change >= 2
      BY <2>1, ConditionFields
    <3>2. QED  BY <2>1, <3>1 DEF Limits, SoftLimits
  <2>4. QED  BY <2>1, <2>2, <2>3, GateFacts DEF Level
<1>3. CASE \/ d = [c EXCEPT !.loss = TRUE] \/ d = [c EXCEPT !.pump = TRUE]
           \/ d \in {[c EXCEPT !.regime = r] : r \in {"VOLATILE", "RISK_OFF", "BEARISH"}}
  <2>1. CASE d = [c EXCEPT !.loss = TRUE]
    <3>1. d \in Conditions /\ d.loss = TRUE  BY <2>1 DEF Conditions
    <3>2. QED  BY <3>1, GateFacts DEF Blocked, Level
  <2>2. CASE d = [c EXCEPT !.pump = TRUE]
    <3>1. d \in Conditions /\ d.pump = TRUE  BY <2>2 DEF Conditions
    <3>2. QED  BY <3>1, GateFacts DEF Blocked, Level
  <2>3. CASE \E r \in {"VOLATILE", "RISK_OFF", "BEARISH"} : d = [c EXCEPT !.regime = r]
    <3>1. d \in Conditions /\ d.regime \in {"VOLATILE", "RISK_OFF", "BEARISH"}
      BY <2>3 DEF Conditions
    <3>2. QED  BY <3>1, GateFacts DEF Blocked, Level
  <2>4. QED  BY <1>3, <2>1, <2>2, <2>3
<1>4. QED  BY <1>1, <1>2, <1>3 DEF Worse

(* PRESERVE grants no level that GROWTH would not.                            *)
LEMMA PreserveGate ==
  ASSUME NEW c \in Conditions
  PROVE  GateCheck("PRESERVE", c) <= GateCheck("GROWTH", c)
<1> DEFINE p == GateCheck("PRESERVE", c)
           g == GateCheck("GROWTH", c)
<1>1. "PRESERVE" \in Profiles /\ "GROWTH" \in Profiles  BY DEF Profiles
<1>2. p \in Level /\ g \in Level  BY <1>1, GateFacts
<1>3. CASE p = 0  BY <1>2, <1>3 DEF Level
<1>4. CASE p # 0
  <2>1. ~Blocked("PRESERVE", c) /\ c.attack = "NORMAL" /\ p <= 1
    BY <1>1, <1>4, GrantedMeans DEF ModeMaxLevel
  <2>2. ~Blocked("GROWTH", c)  BY <2>1 DEF Blocked, AllowedAttackModes
  <2>3. c.level \in Limits("PRESERVE", c)  BY DEF Limits
  <2>4. c.level >= 1  BY <1>1, <1>2, <1>4, <2>1, <2>3, GateFacts, ConditionFields DEF Level
  <2>5. 0 \notin Limits("GROWTH", c)
    BY <1>1, <2>1, <2>4, LevelsAllowed, ConditionFields DEF Limits, SoftLimits, ModeMaxLevel, Level
  <2>6. g # 0  BY <1>1, <2>2, <2>5, GateFacts
  <2>7. QED  BY <1>2, <2>1, <2>6 DEF Level
<1>5. QED  BY <1>3, <1>4

(* A stop is between half a per cent and one and a half away.                *)
LEMMA StopBounds ==
  ASSUME NEW mode \in Profiles, NEW breakout \in Nat, NEW atr \in Nat
  PROVE  CalculateStop(mode, breakout, atr) \in StopDistance
<1>1. \A n \in Int : Clipped(n, 50, 150) \in StopDistance  BY DEF Clipped, StopDistance
<1>2. GetSlippageGuard(mode) \in Int /\ Entry \in Nat \ {0}  BY DEF GetSlippageGuard, Entry
<1>3. breakout * (Entry - 30 - GetSlippageGuard(mode)) \in Int  BY <1>2
<1>4. (breakout * (Entry - 30 - GetSlippageGuard(mode))) \div Entry \in Int  BY <1>2, <1>3
<1>5. Entry - (3 * atr) \div 2 - GetSlippageGuard(mode) \in Int  BY <1>2
<1>6. QED  BY <1>1, <1>2, <1>4, <1>5 DEF CalculateStop

(* Quotients: the product with the divisor is no larger than the dividend,   *)
(* and a number whose product is no larger does not exceed the quotient.     *)
LEMMA QuotientBounds ==
  ASSUME NEW a \in Nat, NEW b \in Nat, NEW n \in Nat \ {0}
  PROVE  /\ a \div n \in Nat
         /\ (a \div n) * n <= a
         /\ b * n <= a => b <= a \div n
<1>1. a \div n \in Nat  OBVIOUS
<1>2. (a \div n) * n <= a  OBVIOUS
<1>3. a < (a \div n + 1) * n  OBVIOUS
<1>4. ASSUME b * n <= a PROVE b <= a \div n
  <2> DEFINE q == a \div n
  <2>1. b * n < (q + 1) * n  BY <1>1, <1>3, <1>4
  <2>2. q \in Nat  BY <1>1
  <2> HIDE DEF q
  <2>3. ASSUME b >= q + 1 PROVE FALSE
    <3>1. b * n >= (q + 1) * n  BY <2>2, <2>3
    <3>2. QED  BY <2>1, <2>2, <3>1
  <2>4. QED  BY <2>2, <2>3 DEF q
<1>5. QED  BY <1>1, <1>2, <1>4

(* The risk of a trade is a number of the profile's range or less.           *)
LEMMA RiskTypes ==
  ASSUME NEW mode \in Profiles, NEW c \in Conditions, NEW level \in Level
  PROVE  GetRiskPerTrade(mode, level, c.attack, c.tier, c.regime) \in Nat
<1> DEFINE range == RiskRange(mode)
           base == IF c.attack = "MAX" /\ level = 3 THEN range[2]
                   ELSE IF c.attack = "PLUS" \/ level >= 2 THEN (range[1] + range[2]) \div 2
                   ELSE range[1]
           risk == (base * DdMultiplier(c.tier) * RegimeMultiplier(c.regime)) \div 100
<1>1. base \in Nat
  <2>1. range[1] \in Nat /\ range[2] \in Nat  BY DEF RiskRange
  <2> HIDE DEF range
  <2>2. (range[1] + range[2]) \div 2 \in Nat  BY <2>1
  <2>3. QED  BY <2>1, <2>2
<1>2. DdMultiplier(c.tier) \in Nat  BY ConditionFields DEF DdMultiplier
<1>3. RegimeMultiplier(c.regime) \in Nat  BY ConditionFields DEF RegimeMultiplier
<1>4. TotalRiskLimit(mode) \in Nat  BY DEF TotalRiskLimit
<1>5. GetRiskPerTrade(mode, level, c.attack, c.tier, c.regime)
        = IF risk < TotalRiskLimit(mode) THEN risk ELSE TotalRiskLimit(mode)
  BY DEF GetRiskPerTrade
<1> HIDE DEF base
<1>6. base * DdMultiplier(c.tier) * RegimeMultiplier(c.regime) \in Nat  BY <1>1, <1>2, <1>3
<1>7. risk \in Nat  BY <1>6
<1> HIDE DEF risk
<1>8. QED  BY <1>4, <1>5, <1>7

(* The least of three numbers.                                               *)
LEMMA LeastOfThree ==
  ASSUME NEW a \in Nat, NEW b \in Nat, NEW n \in Nat
  PROVE  /\ Least({a, b, n}) \in {a, b, n}
         /\ Least({a, b, n}) <= a /\ Least({a, b, n}) <= b /\ Least({a, b, n}) <= n
<1>1. \E l \in {a, b, n} : \A m \in {a, b, n} : l <= m
  <2>1. CASE a <= b /\ a <= n  BY <2>1
  <2>2. CASE b <= a /\ b <= n  BY <2>2
  <2>3. CASE n <= a /\ n <= b  BY <2>3
  <2>4. QED  BY <2>1, <2>2, <2>3
<1>2. QED  BY <1>1 DEF Least

(* Whatever level is asked for, the stop loses no more than the profile      *)
(* allows one trade.                                                         *)
LEMMA LossWithinRisk ==
  ASSUME NEW mode \in Profiles, NEW c \in Conditions, NEW level \in Level, NEW stop \in StopDistance
  PROVE  CalculatePosition(mode, level, stop, c) * stop
           <= 1000 * GetRiskPerTrade(mode, level, c.attack, c.tier, c.regime)
<1> DEFINE risk == GetRiskPerTrade(mode, level, c.attack, c.tier, c.regime)
           value == CalculatePosition(mode, level, stop, c)
           bought == (risk * 1000) \div stop
<1> SUFFICES value * stop <= 1000 * risk
  OBVIOUS
<1>1. risk \in Nat /\ stop \in Nat \ {0}  BY RiskTypes DEF StopDistance
<1>2. CASE level = 0
  <2>1. value = 0  BY <1>2 DEF CalculatePosition
  <2> HIDE DEF risk, value
  <2>2. QED  BY <1>1, <2>1
<1>3. CASE level # 0
  <2>1. LevelAllocation(level) \in Nat  BY <1>3 DEF LevelAllocation, Level
  <2>2. value = Least({LevelAllocation(level), 5500, bought})  BY <1>3 DEF CalculatePosition
  <2> HIDE DEF risk, value
  <2>3. risk * 1000 \in Nat  BY <1>1
  <2>4. bought \in Nat /\ bought * stop <= risk * 1000  BY <1>1, <2>3, QuotientBounds
  <2> HIDE DEF bought
  <2>5. value \in Nat /\ value <= bought  BY <2>1, <2>2, <2>4, LeastOfThree
  <2>6. value * stop <= bought * stop  BY <1>1, <2>4, <2>5
  <2>7. value * stop \in Int /\ bought * stop \in Int  BY <1>1, <2>4, <2>5
  <2>8. QED  BY <1>1, <2>4, <2>6, <2>7
<1>4. QED  BY <1>2, <1>3

(* What the gate grants is affordable at the widest stop: it is bought in full. *)
LEMMA BoughtInFull ==
  ASSUME NEW mode \in Profiles, NEW c \in Conditions, NEW stop \in StopDistance,
         GateCheck(mode, c) # 0
  PROVE  CalculatePosition(mode, GateCheck(mode, c), stop, c) = LevelAllocation(GateCheck(mode, c))
<1> DEFINE level == GateCheck(mode, c)
           risk == GetRiskPerTrade(mode, level, c.attack, c.tier, c.regime)
           bought == (risk * 1000) \div stop
<1>1. stop \in Nat \ {0} /\ stop <= 150  BY DEF StopDistance
<1>2. /\ c.tier \in {1, 2} /\ c.regime \in {"RISK_ON", "NEUTRAL"}
      /\ c.attack \in {"NORMAL", "PLUS", "MAX"} /\ level \in 1..3
      /\ level <= ModeMaxLevel(c.attack)
      /\ mode = "PRESERVE" => c.attack = "NORMAL"
      /\ c.tier = 2 => level <= 1
  BY GrantedMeans
<1>3. CalculatePosition(mode, level, stop, c) = Least({LevelAllocation(level), 5500, bought})
  BY <1>2 DEF CalculatePosition
<1> HIDE DEF level
<1>4. RegimeMultiplier(c.regime) = 10 /\ DdMultiplier(c.tier) = IF c.tier = 1 THEN 10 ELSE 8
  BY <1>2 DEF RegimeMultiplier, DdMultiplier
<1>5. /\ risk \in Nat
      /\ LevelAllocation(level) \in Nat /\ LevelAllocation(level) <= 5500
      /\ LevelAllocation(level) * 150 <= risk * 1000
  <2>1. CASE mode = "PRESERVE"
    <3>1. c.attack = "NORMAL" /\ level = 1  BY <1>2, <2>1 DEF ModeMaxLevel
    <3>2. RiskRange(mode)[1] = 250 /\ TotalRiskLimit(mode) = 1200
      BY <2>1 DEF RiskRange, TotalRiskLimit
    <3>3. risk \in {250, 200}  BY <1>2, <1>4, <3>1, <3>2 DEF GetRiskPerTrade
    <3>4. LevelAllocation(level) = 1000  BY <3>1 DEF LevelAllocation
    <3> HIDE DEF risk
    <3>5. QED  BY <3>3, <3>4
  <2>2. CASE mode = "GROWTH"
    <3>1. RiskRange(mode)[1] = 700 /\ RiskRange(mode)[2] = 1000 /\ TotalRiskLimit(mode) = 2000
      BY <2>2 DEF RiskRange, TotalRiskLimit
    <3>2. CASE level = 1
      <4>1. LevelAllocation(level) = 1000  BY <3>2 DEF LevelAllocation
      <4>2. risk \in {850, 700, 680, 560}  BY <1>2, <1>4, <3>1, <3>2 DEF GetRiskPerTrade
      <4> HIDE DEF risk
      <4>3. QED  BY <4>1, <4>2
    <3>3. CASE level = 2
      <4>1. LevelAllocation(level) = 3000  BY <3>3 DEF LevelAllocation
      <4>2. risk = 850  BY <1>2, <1>4, <3>1, <3>3 DEF GetRiskPerTrade
      <4> HIDE DEF risk
      <4>3. QED  BY <4>1, <4>2
    <3>4. CASE level = 3
      <4>1. LevelAllocation(level) = 5000  BY <3>4 DEF LevelAllocation
      <4>2. c.attack = "MAX"  BY <1>2, <3>4 DEF ModeMaxLevel
      <4>3. risk = 1000  BY <1>2, <1>4, <3>1, <3>4, <4>2 DEF GetRiskPerTrade
      <4> HIDE DEF risk
      <4>4. QED  BY <4>1, <4>3
    <3>5. QED  BY <1>2, <3>2, <3>3, <3>4
  <2>3. QED  BY <2>1, <2>2 DEF Profiles
<1> HIDE DEF risk
<1>6. LevelAllocation(level) * stop <= risk * 1000
  <2>1. LevelAllocation(level) * stop <= LevelAllocation(level) * 150  BY <1>1, <1>5
  <2>2. LevelAllocation(level) * stop \in Int /\ LevelAllocation(level) * 150 \in Int
    BY <1>1, <1>5
  <2>3. QED  BY <1>5, <2>1, <2>2
<1>7. bought \in Nat /\ LevelAllocation(level) <= bought
  <2>1. risk * 1000 \in Nat  BY <1>5
  <2>2. QED  BY <1>1, <1>5, <1>6, <2>1, QuotientBounds
<1> HIDE DEF bought
<1>8. Least({LevelAllocation(level), 5500, bought}) = LevelAllocation(level)
  BY <1>5, <1>7, LeastOfThree
<1>9. QED  BY <1>3, <1>8 DEF level

Value(level) == IF level = 0 THEN 0 ELSE LevelAllocation(level)

(* What is bought at a level, and that a lower one buys no more.             *)
LEMMA ValueFacts ==
  /\ \A m \in Level : Value(m) \in {0, 1000, 3000, 5000}
  /\ \A m, n \in Level : m <= n => Value(m) <= Value(n)
<1>1. Value(0) = 0 /\ Value(1) = 1000 /\ Value(2) = 3000 /\ Value(3) = 5000
  BY DEF Value, LevelAllocation
<1>2. QED  BY <1>1 DEF Level

(* Level and value of a sized signal follow from the level the gate grants.  *)
LEMMA FullFacts ==
  ASSUME NEW mode \in Profiles, NEW c \in Conditions, NEW breakout \in Nat, NEW atr \in Nat
  PROVE  LET s == CalculateFull(mode, c, breakout, atr)
         IN  /\ s.level = GateCheck(mode, c) /\ s.stop \in StopDistance
             /\ s.value = Value(GateCheck(mode, c))
             /\ s.tranches = CalculateTranches(s.value)
<1> DEFINE stop == CalculateStop(mode, breakout, atr)
           level == GateCheck(mode, c)
<1>1. stop \in StopDistance  BY StopBounds
<1>2. CalculatePosition(mode, level, stop, c) = Value(level)
  <2>1. CASE level = 0  BY <2>1 DEF CalculatePosition, Value
  <2>2. CASE level # 0  BY <1>1, <2>2, BoughtInFull DEF Value
  <2>3. QED  BY <2>1, <2>2
<1>3. QED  BY <1>1, <1>2 DEF CalculateFull

(* The tranches of a position come to no more than the position.             *)
LEMMA TranchesAddUp ==
  ASSUME NEW v \in {0, 1000, 3000, 5000}
  PROVE  CalculateTranches(v)[1] + CalculateTranches(v)[2] + CalculateTranches(v)[3] <= v
BY DEF CalculateTranches

(* Any signal that may be waiting is sized safely.                            *)
LEMMA SizedSafely == AttackInv => DangerBuysNoMore
<1> SUFFICES ASSUME AttackInv, signal # NoSignal PROVE DangerBuysNoMore
  BY DEF DangerBuysNoMore
<1> DEFINE c == signal[1]
           Sizing(mode, d) == CalculateFull(mode, d, signal[2], signal[3])
<1>1. c \in Conditions /\ signal[2] \in Nat /\ signal[3] \in Nat
  BY AttackAssumption DEF AttackInv
<1>2. \A mode \in Profiles, d \in Conditions :
         /\ Sizing(mode, d).level = GateCheck(mode, d) /\ Sizing(mode, d).stop \in StopDistance
         /\ Sizing(mode, d).value = Value(GateCheck(mode, d))
         /\ Sizing(mode, d).tranches = CalculateTranches(Sizing(mode, d).value)
  BY <1>1, FullFacts
<1>3. ASSUME NEW mode \in Profiles
      PROVE  LET s == Sizing(mode, c)
             IN  /\ \A d \in Worse(c) : Sizing(mode, d).level <= s.level /\ Sizing(mode, d).value <= s.value
                 /\ CalculatePosition(mode, c.level, s.stop, c) * s.stop
                      <= 1000 * GetRiskPerTrade(mode, c.level, c.attack, c.tier, c.regime)
                 /\ s.level > 0 => s.value = LevelAllocation(s.level)
                 /\ s.tranches[1] + s.tranches[2] + s.tranches[3] <= s.value
  <2> DEFINE s == Sizing(mode, c)
  <2>1. /\ s.level = GateCheck(mode, c) /\ s.level \in Level /\ s.stop \in StopDistance
        /\ s.value = Value(s.level) /\ s.tranches = CalculateTranches(s.value)
    BY <1>1, <1>2, GateFacts
  <2>2. ASSUME NEW d \in Worse(c)
        PROVE  Sizing(mode, d).level <= s.level /\ Sizing(mode, d).value <= s.value
    <3>1. d \in Conditions /\ GateCheck(mode, d) <= GateCheck(mode, c)
      BY <1>1, WorseGate
    <3>2. Sizing(mode, d).level = GateCheck(mode, d) /\ GateCheck(mode, d) \in Level
          /\ Sizing(mode, d).value = Value(GateCheck(mode, d))
      BY <1>2, <3>1, GateFacts
    <3> HIDE DEF Sizing
    <3>3. QED  BY <2>1, <3>1, <3>2, ValueFacts
  <2> HIDE DEF Sizing
  <2>3. CalculatePosition(mode, c.level, s.stop, c) * s.stop
          <= 1000 * GetRiskPerTrade(mode, c.level, c.attack, c.tier, c.regime)
    BY <1>1, <2>1, LossWithinRisk, ConditionFields
  <2>4. s.level > 0 => s.value = LevelAllocation(s.level)
    BY <2>1 DEF Value, Level
  <2>5. s.tranches[1] + s.tranches[2] + s.tranches[3] <= s.value
    BY <2>1, ValueFacts, TranchesAddUp
  <2>6. QED  BY <2>2, <2>3, <2>4, <2>5
<1>4. Sizing("PRESERVE", c).value <= Sizing("GROWTH", c).value
  <2>1. "PRESERVE" \in Profiles /\ "GROWTH" \in Profiles  BY DEF Profiles
  <2>2. QED  BY <1>1, <1>2, <2>1, GateFacts, PreserveGate, ValueFacts
<1>5. QED  BY <1>3, <1>4 DEF DangerBuysNoMore, Profiles

(* At any breakout and range a signal may come with, a deeper drawdown, a    *)
(* loss, a worse market or a hotter coin never buys more, PRESERVE never     *)
(* buys more than GROWTH, and the stop loses no more than the profile allows. *)
THEOREM DangerBuysNoMoreAlways == AttackInit /\ [][AttackNext]_signal => []DangerBuysNoMore
<1>1. AttackInit => AttackInv  BY DEF AttackInit, AttackInv
<1>2. AttackInv /\ [AttackNext]_signal => AttackInv'
  BY DEF AttackInv, AttackNext, SignalArrives, SignalSized, NoSignal
<1>3. QED  BY <1>1, <1>2, SizedSafely, PTL

-------------------------------------------------------------------------------
(* The capital profile.  Counts of at least two days: then a change leaves   *)
(* two days behind that speak against changing back, and only the last of    *)
(* them can be recorded anew.                                                *)

Mode == {"GROWTH", "PRESERVE"}
EquityOfDay == {"high", "mid", "low"}
Asked(mode) == IF mode = "GROWTH" THEN PreserveDays ELSE GrowthDays
Trigger(mode) == IF mode = "GROWTH" THEN "high" ELSE "low"

Tracker == [mode : Mode, days : Seq(EquityOfDay), today : BOOLEAN]

(* The days that can no longer be recorded anew.                             *)
Over(t) == IF t.today THEN Len(t.days) - 1 ELSE Len(t.days)

(* Among them, and one more of them than have passed since the last change,  *)
(* there is a day against the next change.                                   *)
Resisted(t, n) ==
  n < Over(t) => \E i \in 1..Over(t) : t.days[i] # Trigger(t.mode) /\ Over(t) - i <= n

Sound(t) == t \in Tracker /\ Len(t.days) <= Kept /\ (t.today => t.days # <<>>)

CapitalInv ==
  /\ Sound(tracker) /\ (file = Broken \/ Sound(file))
  /\ since \in 0..Kept
  /\ ~astray => Resisted(tracker, since)

(* The days kept are enough for either count.                                *)
LEMMA KeptFacts ==
  Kept \in Nat /\ \A mode \in Mode : Asked(mode) \in Nat \ {0} /\ Asked(mode) <= Kept
BY CapitalAssumption DEF Kept, Asked, Mode

(* The check is for the days the mode asks for.                              *)
LEMMA TransitionFacts ==
  ASSUME NEW mode \in Mode, NEW days
  PROVE  CheckTransition(mode, days) <=> Consecutive(days, Trigger(mode), Asked(mode))
BY DEF CheckTransition, Trigger, Asked, Mode

(* Setting one field of a tracker leaves the others.                         *)
LEMMA TrackerFields ==
  ASSUME NEW t \in Tracker
  PROVE  /\ \A mode \in Mode : LET u == [t EXCEPT !.mode = mode]
                                IN  /\ u \in Tracker /\ u.mode = mode /\ u.days = t.days
                                    /\ u.today = t.today
         /\ \A days \in Seq(EquityOfDay) : LET u == [t EXCEPT !.days = days]
                                IN  /\ u \in Tracker /\ u.mode = t.mode /\ u.days = days
                                    /\ u.today = t.today
         /\ \A today \in BOOLEAN : LET u == [t EXCEPT !.today = today]
                                IN  /\ u \in Tracker /\ u.mode = t.mode /\ u.days = t.days
                                    /\ u.today = today
BY DEF Tracker

(* What a sound tracker is made of.                                          *)
LEMMA SoundFacts ==
  ASSUME NEW t, Sound(t)
  PROVE  /\ t \in Tracker /\ t.mode \in Mode /\ t.days \in Seq(EquityOfDay) /\ t.today \in BOOLEAN
         /\ Len(t.days) \in Nat /\ Len(t.days) <= Kept /\ Over(t) \in Nat /\ Over(t) <= Len(t.days)
         /\ t.today => Len(t.days) \in Nat \ {0}
BY DEF Sound, Tracker, Over

(* Recording a day leaves the days before it, but for the first of them when *)
(* too many are kept.                                                        *)
LEMMA RecordedFacts ==
  ASSUME NEW t, Sound(t), NEW equity \in EquityOfDay
  PROVE  LET r == Recorded(t, equity)
         IN  /\ Sound(r) /\ r.mode = t.mode /\ r.today = TRUE
             /\ \/ Over(r) = Over(t) /\ \A i \in 1..Over(t) : r.days[i] = t.days[i]
                \/ /\ Over(t) > 0 /\ Over(r) = Over(t) - 1
                   /\ \A i \in 1..Over(r) : r.days[i] = t.days[i + 1]
<1> DEFINE days == IF t.today THEN [t.days EXCEPT ![Len(t.days)] = equity] ELSE Append(t.days, equity)
           kept == IF Len(days) > Kept THEN Tail(days) ELSE days
           r == Recorded(t, equity)
           Old == \/ Over(r) = Over(t) /\ \A i \in 1..Over(t) : r.days[i] = t.days[i]
                  \/ /\ Over(t) > 0 /\ Over(r) = Over(t) - 1
                     /\ \A i \in 1..Over(r) : r.days[i] = t.days[i + 1]
<1> SUFFICES Sound(r) /\ r.mode = t.mode /\ r.today = TRUE /\ Old
  OBVIOUS
<1>1. /\ t \in Tracker /\ t.mode \in Mode /\ t.days \in Seq(EquityOfDay)
      /\ t.today \in BOOLEAN /\ Len(t.days) \in Nat /\ Len(t.days) <= Kept
      /\ t.today => Len(t.days) \in Nat \ {0}
      /\ Over(t) = IF t.today THEN Len(t.days) - 1 ELSE Len(t.days)
  BY SoundFacts DEF Over
<1>2. r = [[t EXCEPT !.days = kept] EXCEPT !.today = TRUE]
  BY <1>1 DEF Recorded, Tracker
<1> HIDE DEF r, kept
<1>3. ASSUME kept \in Seq(EquityOfDay)
      PROVE  r \in Tracker /\ r.mode = t.mode /\ r.days = kept /\ r.today = TRUE
  <2> DEFINE t1 == [t EXCEPT !.days = kept]
  <2>1. t1 \in Tracker /\ t1.mode = t.mode /\ t1.days = kept
    BY <1>1, <1>3, TrackerFields
  <2>2. r = [t1 EXCEPT !.today = TRUE]  BY <1>2
  <2> HIDE DEF t1
  <2>3. QED  BY <2>1, <2>2, TrackerFields
<1>4. ASSUME kept \in Seq(EquityOfDay), Len(kept) \in 1..Kept
      PROVE  Sound(r) /\ r.mode = t.mode /\ r.today = TRUE /\ r.days = kept /\ Over(r) = Len(kept) - 1
  <2>1. r \in Tracker /\ r.mode = t.mode /\ r.days = kept /\ r.today = TRUE
    BY <1>3, <1>4
  <2>2. kept # <<>> /\ Len(kept) <= Kept  BY <1>4, KeptFacts
  <2>3. Sound(r)  BY <2>1, <2>2 DEF Sound
  <2>4. Over(r) = Len(kept) - 1  BY <2>1 DEF Over
  <2>5. QED  BY <2>1, <2>3, <2>4
<1>5. CASE t.today
  <2>1. days = [t.days EXCEPT ![Len(t.days)] = equity]  BY <1>5
  <2>2. /\ days \in Seq(EquityOfDay) /\ Len(days) = Len(t.days)
        /\ \A i \in 1..Len(t.days) - 1 : days[i] = t.days[i]
    <3> HIDE DEF days
    <3>1. Len(t.days) \in 1..Len(t.days)  BY <1>1, <1>5
    <3>2. days \in [1..Len(t.days) -> EquityOfDay]  BY <1>1, <2>1, <3>1
    <3>3. QED  BY <1>1, <2>1, <3>1, <3>2
  <2> HIDE DEF days
  <2>3. kept = days  BY <1>1, <2>2, KeptFacts DEF kept
  <2>4. Len(kept) \in 1..Kept  BY <1>1, <1>5, <2>2, <2>3, KeptFacts
  <2>5. Over(r) = Over(t) /\ \A i \in 1..Over(t) : r.days[i] = t.days[i]
    BY <1>1, <1>4, <1>5, <2>2, <2>3, <2>4
  <2>6. QED  BY <1>4, <2>2, <2>3, <2>4, <2>5
<1>6. CASE ~t.today
  <2>1. days = Append(t.days, equity)  BY <1>6
  <2>2. /\ days \in Seq(EquityOfDay) /\ Len(days) = Len(t.days) + 1
        /\ \A i \in 1..Len(t.days) : days[i] = t.days[i]
    <3> HIDE DEF days
    <3>1. QED  BY <1>1, <2>1
  <2> HIDE DEF days
  <2>3. CASE Len(days) <= Kept
    <3>1. kept = days  BY <1>1, <2>2, <2>3, KeptFacts DEF kept
    <3>2. Len(kept) \in 1..Kept  BY <1>1, <2>2, <2>3, <3>1, KeptFacts
    <3>3. Over(r) = Over(t) /\ \A i \in 1..Over(t) : r.days[i] = t.days[i]
      BY <1>1, <1>4, <1>6, <2>2, <3>1, <3>2
    <3>4. QED  BY <1>4, <2>2, <3>1, <3>2, <3>3
  <2>4. CASE Len(days) > Kept
    <3>1. kept = Tail(days) /\ Len(t.days) = Kept /\ Kept \in Nat \ {0}
      BY <1>1, <2>2, <2>4, KeptFacts, CapitalAssumption DEF kept, Kept
    <3>2. /\ kept \in Seq(EquityOfDay) /\ Len(kept) = Len(t.days)
          /\ \A i \in 1..Len(t.days) : kept[i] = days[i + 1]
      BY <1>1, <2>2, <3>1
    <3>3. Len(kept) \in 1..Kept  BY <3>1, <3>2
    <3>4. Over(t) > 0 /\ Over(r) = Over(t) - 1
      BY <1>1, <1>4, <1>6, <3>1, <3>2, <3>3
    <3>5. ASSUME NEW i \in 1..Over(r) PROVE r.days[i] = t.days[i + 1]
      <4>1. i \in 1..Len(t.days) /\ i + 1 \in 1..Len(t.days)
        BY <1>1, <1>6, <3>4, <3>5
      <4>2. r.days[i] = days[i + 1]  BY <1>4, <3>2, <3>3, <4>1
      <4>3. QED  BY <2>2, <4>1, <4>2
    <3>6. QED  BY <1>4, <3>2, <3>3, <3>4, <3>5
  <2>5. Len(days) \in Nat /\ Kept \in Nat  BY <2>2, KeptFacts
  <2>6. Len(days) <= Kept \/ Len(days) > Kept  BY <2>5
  <2>7. QED  BY <2>3, <2>4, <2>6
<1>7. QED  BY <1>1, <1>5, <1>6

(* Recording a day keeps a day that resists.                                 *)
LEMMA RecordedResists ==
  ASSUME NEW t, Sound(t), NEW equity \in EquityOfDay, NEW n \in Nat, Resisted(t, n)
  PROVE  Resisted(Recorded(t, equity), n)
<1> DEFINE r == Recorded(t, equity)
<1>1. /\ Sound(r) /\ r.mode = t.mode
      /\ \/ Over(r) = Over(t) /\ \A i \in 1..Over(t) : r.days[i] = t.days[i]
         \/ /\ Over(t) > 0 /\ Over(r) = Over(t) - 1
            /\ \A i \in 1..Over(r) : r.days[i] = t.days[i + 1]
  BY RecordedFacts
<1>2. Over(t) \in Nat  BY SoundFacts
<1> HIDE DEF r
<1> SUFFICES ASSUME n < Over(r)
             PROVE  \E i \in 1..Over(r) : r.days[i] # Trigger(r.mode) /\ Over(r) - i <= n
  BY DEF Resisted, r
<1>3. PICK i \in 1..Over(t) : t.days[i] # Trigger(t.mode) /\ Over(t) - i <= n
  BY <1>1, <1>2 DEF Resisted
<1>4. CASE Over(r) = Over(t) /\ \A j \in 1..Over(t) : r.days[j] = t.days[j]
  BY <1>1, <1>3, <1>4
<1>5. CASE /\ Over(t) > 0 /\ Over(r) = Over(t) - 1
           /\ \A j \in 1..Over(r) : r.days[j] = t.days[j + 1]
  <2>1. i - 1 \in 1..Over(r) /\ (i - 1) + 1 = i /\ Over(r) - (i - 1) <= n
    BY <1>2, <1>3, <1>5
  <2>2. r.days[i - 1] = t.days[i]  BY <1>5, <2>1
  <2>3. QED  BY <1>1, <1>3, <2>1, <2>2
<1>6. QED  BY <1>1, <1>4, <1>5

(* A tracker that has resisted changes late enough.                          *)
LEMMA ChangesLate ==
  ASSUME NEW t, Sound(t), t.today = TRUE, NEW n \in Nat, Resisted(t, n),
         CheckTransition(t.mode, t.days)
  PROVE  n + 1 >= Asked(t.mode)
<1>1. /\ t.mode \in Mode /\ Len(t.days) \in Nat /\ Over(t) = Len(t.days) - 1
      /\ Asked(t.mode) \in Nat
  BY SoundFacts, KeptFacts DEF Over
<1>2. /\ Len(t.days) >= Asked(t.mode)
      /\ \A i \in Len(t.days) - Asked(t.mode) + 1..Len(t.days) : t.days[i] = Trigger(t.mode)
  BY <1>1, TransitionFacts DEF Consecutive
<1>3. ASSUME n + 1 < Asked(t.mode) PROVE FALSE
  <2>1. n < Over(t)  BY <1>1, <1>2, <1>3
  <2>2. PICK i \in 1..Over(t) : t.days[i] # Trigger(t.mode) /\ Over(t) - i <= n
    BY <2>1 DEF Resisted
  <2>3. i \in Len(t.days) - Asked(t.mode) + 1..Len(t.days)
    BY <1>1, <1>3, <2>2
  <2>4. QED  BY <1>2, <2>2, <2>3
<1>4. QED  BY <1>1, <1>3

(* A change leaves the last day but one against changing back.               *)
LEMMA ChangeSound ==
  ASSUME PreserveDays > 1, GrowthDays > 1, NEW t, Sound(t), t.today = TRUE,
         CheckTransition(t.mode, t.days)
  PROVE  LET u == [t EXCEPT !.mode = Other(@)]
         IN  Sound(u) /\ u.mode = Other(t.mode) /\ Resisted(u, 0)
<1> DEFINE u == [t EXCEPT !.mode = Other(@)]
<1> SUFFICES Sound(u) /\ u.mode = Other(t.mode) /\ Resisted(u, 0)
  OBVIOUS
<1>1. /\ t \in Tracker /\ t.mode \in Mode /\ Len(t.days) \in Nat /\ Asked(t.mode) \in Nat
      /\ Asked(t.mode) >= 2
  BY SoundFacts, KeptFacts DEF Asked
<1>2. Other(t.mode) \in Mode /\ Trigger(Other(t.mode)) # Trigger(t.mode)
  BY <1>1 DEF Other, Mode, Trigger
<1>3. u = [t EXCEPT !.mode = Other(t.mode)]
  BY <1>1 DEF Tracker
<1> HIDE DEF u
<1>4. u \in Tracker /\ u.mode = Other(t.mode) /\ u.days = t.days /\ u.today = t.today
  BY <1>1, <1>2, <1>3, TrackerFields
<1>5. Sound(u)  BY <1>4 DEF Sound
<1>6. /\ Len(t.days) >= Asked(t.mode)
      /\ \A i \in Len(t.days) - Asked(t.mode) + 1..Len(t.days) : t.days[i] = Trigger(t.mode)
  BY <1>1, TransitionFacts DEF Consecutive
<1>7. Over(u) = Len(t.days) - 1  BY <1>4 DEF Over
<1>8. /\ Over(u) \in 1..Over(u) /\ Over(u) - Over(u) <= 0
      /\ Over(u) \in Len(t.days) - Asked(t.mode) + 1..Len(t.days)
  BY <1>1, <1>6, <1>7
<1>9. u.days[Over(u)] # Trigger(u.mode)  BY <1>2, <1>4, <1>6, <1>8
<1>10. Resisted(u, 0)  BY <1>8, <1>9 DEF Resisted
<1>11. QED  BY <1>4, <1>5, <1>10

(* A fresh tracker resists: it has no days.                                  *)
LEMMA FreshSound == Sound(Fresh) /\ \A n \in Nat : Resisted(Fresh, n)
<1>1. Fresh.mode = "GROWTH" /\ Fresh.days = <<>> /\ Fresh.today = FALSE
  BY DEF Fresh
<1>2. Fresh \in Tracker  BY DEF Fresh, Tracker, Mode
<1>3. Len(<<>>) = 0  OBVIOUS
<1>4. Sound(Fresh)  BY <1>1, <1>2, <1>3, KeptFacts DEF Sound
<1>5. Over(Fresh) = 0  BY <1>1, <1>3 DEF Over
<1>6. QED  BY <1>4, <1>5 DEF Resisted

(* The day that ends becomes one of the days over, and one more has passed.  *)
LEMMA DaySound ==
  ASSUME NEW t, Sound(t)
  PROVE  LET u == [t EXCEPT !.today = FALSE]
         IN  Sound(u) /\ \A n \in 0..Kept :
               Resisted(t, n) => Resisted(u, IF n = Kept THEN n ELSE n + 1)
<1> DEFINE u == [t EXCEPT !.today = FALSE]
<1>1. u \in Tracker /\ u.days = t.days /\ u.mode = t.mode /\ u.today = FALSE
  BY TrackerFields DEF Sound
<1> HIDE DEF u
<1>2. Sound(u)  BY <1>1 DEF Sound
<1>3. /\ Len(t.days) \in Nat /\ Len(t.days) <= Kept /\ Kept \in Nat /\ t.today \in BOOLEAN
      /\ Over(t) = IF t.today THEN Len(t.days) - 1 ELSE Len(t.days)
      /\ Over(u) = Len(t.days) /\ Over(t) \in Nat
  BY <1>1, SoundFacts, KeptFacts DEF Over
<1>4. ASSUME NEW n \in 0..Kept, Resisted(t, n)
      PROVE  Resisted(u, IF n = Kept THEN n ELSE n + 1)
  <2>1. CASE n = Kept  BY <1>3, <2>1 DEF Resisted
  <2>2. CASE n # Kept
    <3> SUFFICES ASSUME n + 1 < Over(u)
                 PROVE  \E i \in 1..Over(u) : u.days[i] # Trigger(u.mode) /\ Over(u) - i <= n + 1
      BY <2>2 DEF Resisted
    <3>1. n < Over(t)  BY <1>3
    <3>2. PICK i \in 1..Over(t) : t.days[i] # Trigger(t.mode) /\ Over(t) - i <= n
      BY <1>4, <3>1 DEF Resisted
    <3>3. i \in 1..Over(u) /\ Over(u) - i <= n + 1  BY <1>3, <3>2
    <3>4. QED  BY <1>1, <3>2, <3>3
  <2>3. QED  BY <2>1, <2>2
<1>5. QED  BY <1>2, <1>4 DEF u

(* Recording an equity keeps the invariant, and changes the mode late.       *)
LEMMA RecordSound ==
  ASSUME PreserveDays > 1, GrowthDays > 1, CapitalInv, NEW equity \in EquityOfDay, Record(equity)
  PROVE  /\ CapitalInv'
         /\ tracker'.mode # tracker.mode /\ ~astray => since + 1 >= Asked(tracker.mode)
         /\ tracker'.mode \in Mode
<1> DEFINE r == Recorded(tracker, equity)
<1>1. /\ Sound(r) /\ r.mode = tracker.mode /\ r.today = TRUE
      /\ since \in 0..Kept /\ Kept \in Nat
      /\ ~astray => Resisted(r, since)
  <2>1. Sound(tracker) /\ since \in 0..Kept /\ Kept \in Nat  BY KeptFacts DEF CapitalInv
  <2>2. since \in Nat  BY <2>1
  <2>3. Sound(r) /\ r.mode = tracker.mode /\ r.today = TRUE  BY <2>1, RecordedFacts
  <2>4. ~astray => Resisted(r, since)  BY <2>1, <2>2, RecordedResists DEF CapitalInv
  <2>5. QED  BY <2>1, <2>3, <2>4
<1>2. tracker' = IF CheckTransition(r.mode, r.days) THEN [r EXCEPT !.mode = Other(@)] ELSE r
  BY DEF Record, RecordDailyEquity
<1> HIDE DEF r
<1>3. Sound(tracker') => (file' = Broken \/ Sound(file'))
  BY DEF Record, SaveState, CapitalInv
<1>4. CASE CheckTransition(r.mode, r.days)
  <2>1. Sound(tracker') /\ tracker'.mode = Other(r.mode) /\ Resisted(tracker', 0)
    BY <1>1, <1>2, <1>4, ChangeSound
  <2>2. r.mode \in Mode /\ Other(r.mode) \in Mode /\ Other(r.mode) # r.mode
    BY <1>1, SoundFacts DEF Other, Mode
  <2>3. since' = 0 /\ astray' = FALSE  BY <1>1, <2>1, <2>2 DEF Record
  <2>4. CapitalInv'  BY <1>1, <1>3, <2>1, <2>3 DEF CapitalInv
  <2>5. ~astray => since + 1 >= Asked(r.mode)
    <3>1. since \in Nat  BY <1>1
    <3>2. QED  BY <1>1, <1>4, <3>1, ChangesLate
  <2>6. QED  BY <1>1, <2>1, <2>2, <2>4, <2>5
<1>5. CASE ~CheckTransition(r.mode, r.days)
  <2>1. tracker' = r  BY <1>2, <1>5
  <2>2. since' = since /\ astray' = astray  BY <1>1, <2>1 DEF Record
  <2>3. CapitalInv'  BY <1>1, <1>3, <2>1, <2>2 DEF CapitalInv
  <2>4. QED  BY <1>1, <2>1, <2>3, SoundFacts
<1>6. QED  BY <1>4, <1>5

(* A mode set by hand is a change nothing protects.                          *)
LEMMA ForceSound ==
  ASSUME CapitalInv, NEW mode \in Mode, SetByHand(mode)
  PROVE  CapitalInv'
<1>1. /\ Sound(tracker) /\ tracker \in Tracker /\ since \in 0..Kept /\ Kept \in Nat
      /\ tracker' = [tracker EXCEPT !.mode = mode]
  BY KeptFacts DEF CapitalInv, Sound, SetByHand, ForceMode
<1>2. /\ tracker' \in Tracker /\ tracker'.mode = mode /\ tracker'.days = tracker.days
      /\ tracker'.today = tracker.today
  BY <1>1, TrackerFields
<1>3. Sound(tracker') /\ (file' = Broken \/ Sound(file'))
  BY <1>1, <1>2 DEF Sound, SetByHand, SaveState, CapitalInv
<1>4. CASE mode # tracker.mode
  <2>1. since' = 0 /\ astray' = TRUE  BY <1>4 DEF SetByHand
  <2>2. QED  BY <1>1, <1>3, <2>1 DEF CapitalInv
<1>5. CASE mode = tracker.mode
  <2>1. since' = since /\ astray' = astray  BY <1>5 DEF SetByHand
  <2>2. Resisted(tracker, since) => Resisted(tracker', since')
    BY <1>2, <1>5, <2>1 DEF Resisted, Over
  <2>3. QED  BY <1>1, <1>3, <2>1, <2>2 DEF CapitalInv
<1>6. QED  BY <1>4, <1>5

(* A restart finds what was in memory, nothing, or something older.          *)
LEMMA RestartSound ==
  ASSUME CapitalInv, Restart
  PROVE  CapitalInv'
<1>1. /\ Sound(tracker) /\ (file = Broken \/ Sound(file)) /\ file' = file
      /\ since \in 0..Kept /\ Kept \in Nat
      /\ tracker' = IF file = Broken THEN Fresh ELSE file
      /\ since' = IF tracker'.mode # tracker.mode THEN 0 ELSE since
      /\ astray' = (file # Broken /\ (astray \/ file # tracker))
  BY KeptFacts DEF CapitalInv, Restart, LoadState
<1>2. Sound(tracker') /\ since' \in 0..Kept
  BY <1>1, FreshSound
<1>3. CASE file = Broken
  <2>1. Resisted(tracker', since')  BY <1>1, <1>2, <1>3, FreshSound
  <2>2. QED  BY <1>1, <1>2, <2>1 DEF CapitalInv
<1>4. CASE file # Broken /\ file = tracker
  <2>1. tracker' = tracker /\ since' = since /\ astray' = (astray \/ FALSE)  BY <1>1, <1>4
  <2>2. ~astray' => ~astray  BY <2>1
  <2>3. ~astray' => Resisted(tracker', since')  BY <2>1, <2>2 DEF CapitalInv
  <2>4. QED  BY <1>1, <1>2, <2>3 DEF CapitalInv
<1>5. CASE file # Broken /\ file # tracker
  <2>1. astray'  BY <1>1, <1>5
  <2>2. QED  BY <1>1, <1>2, <2>1 DEF CapitalInv
<1>6. QED  BY <1>3, <1>4, <1>5

(* Every step keeps the tracker, what the file restores and the days passed. *)
LEMMA NextCapital ==
  ASSUME PreserveDays > 1, GrowthDays > 1, CapitalInv, [CapitalNext]_capitalVars
  PROVE  CapitalInv'
<1>1. CASE \E equity \in {"high", "mid", "low"} : Record(equity)
  BY <1>1, RecordSound DEF EquityOfDay
<1>2. CASE \E mode \in {"GROWTH", "PRESERVE"} : SetByHand(mode)
  BY <1>2, ForceSound DEF Mode
<1>3. CASE NextDay
  <2>1. /\ Sound(tracker) /\ since \in 0..Kept /\ Kept \in Nat /\ astray' = astray
        /\ tracker' = [tracker EXCEPT !.today = FALSE]
        /\ since' = IF since = Kept THEN since ELSE since + 1
    BY <1>3, KeptFacts DEF NextDay, CapitalInv
  <2>2. Sound(tracker') /\ (Resisted(tracker, since) => Resisted(tracker', since'))
    BY <2>1, DaySound
  <2>3. since' \in 0..Kept  BY <2>1
  <2>4. file' = Broken \/ Sound(file')
    <3>1. CASE file = Broken  BY <1>3, <3>1 DEF NextDay, Broken
    <3>2. CASE Sound(file)  BY <1>3, <3>2, DaySound DEF NextDay
    <3>3. QED  BY <3>1, <3>2 DEF CapitalInv
  <2>5. QED  BY <2>1, <2>2, <2>3, <2>4 DEF CapitalInv
<1>4. CASE Restart
  BY <1>4, RestartSound
<1>5. CASE UNCHANGED capitalVars
  BY <1>5 DEF capitalVars, CapitalInv
<1>6. QED  BY <1>1, <1>2, <1>3, <1>4, <1>5 DEF CapitalNext

(* Where the settings ask for at least two days, whatever the counts, a      *)
(* record never changes the mode before as many days have passed, less one,  *)
(* as the change asks for - unless the mode was set by hand or an older      *)
(* state came back from the file since the last change.                      *)
THEOREM NoFlappingAlways ==
  ASSUME PreserveDays > 1, GrowthDays > 1
  PROVE  CapitalInit /\ [][CapitalNext]_capitalVars => NoFlapping
<1> DEFINE Late == \A equity \in {"high", "mid", "low"} :
              Record(equity) /\ tracker'.mode # tracker.mode /\ ~astray =>
                since + 1 >= (IF tracker'.mode = "PRESERVE" THEN PreserveDays ELSE GrowthDays)
<1>1. CapitalInit => CapitalInv
  BY FreshSound, KeptFacts DEF CapitalInit, CapitalInv
<1>2. CapitalInv /\ [CapitalNext]_capitalVars => CapitalInv'
  BY NextCapital
<1>3. CapitalInv => Late
  <2> SUFFICES ASSUME CapitalInv, NEW equity \in EquityOfDay, Record(equity),
                      tracker'.mode # tracker.mode, ~astray
               PROVE  since + 1 >= (IF tracker'.mode = "PRESERVE" THEN PreserveDays ELSE GrowthDays)
    BY DEF EquityOfDay
  <2>1. since + 1 >= Asked(tracker.mode) /\ tracker'.mode \in Mode
    BY RecordSound
  <2>2. tracker.mode \in Mode  BY SoundFacts DEF CapitalInv
  <2>3. Asked(tracker.mode) = IF tracker'.mode = "PRESERVE" THEN PreserveDays ELSE GrowthDays
    BY <2>1, <2>2 DEF Asked, Mode
  <2>4. QED  BY <2>1, <2>3
<1>4. CapitalInv => [Late]_capitalVars  BY <1>3
<1>5. QED  BY <1>1, <1>2, <1>4, PTL DEF NoFlapping
===============================================================================
