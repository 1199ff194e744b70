---------------------------- MODULE CapitalProfile ----------------------------
(***************************************************************************)
(* risk/hysteresis_tracker.py with capital_profile.py and attack_gate.py:   *)
(* the capital profile, which changes with the equities of consecutive      *)
(* recorded days and is kept in a file, and the attack gate that grants     *)
(* entries by it.  An equity is "high" (at least the preserve threshold),   *)
(* "low" (at most the growth threshold) or "mid".  Risks are in thousandths *)
(* of a per cent.                                                           *)
(***************************************************************************)
EXTENDS Integers, Sequences, FiniteSets

CONSTANTS PreserveDays, GrowthDays   (* days in a row that change the profile *)

(* 30 days are kept: more in a row are never counted.                       *)
ASSUME CapitalAssumption == PreserveDays \in 1..30 /\ GrowthDays \in 1..30

VARIABLES tracker,   (* HysteresisState: mode, days (their equities) and     *)
                     (* whether the last of them is today                   *)
          file,      (* the state file: a saved tracker or Broken           *)
          since,     (* history, outside of process and file: the days that *)
                     (* have passed since the mode last changed, up to Kept *)
          astray     (* history: since then the mode was set by hand, or a  *)
                     (* restart took an older state than was in memory      *)

capitalVars == <<tracker, file, since, astray>>

Kept == IF PreserveDays > GrowthDays THEN PreserveDays ELSE GrowthDays
Broken == [mode |-> "none", days |-> <<>>, today |-> FALSE]
Fresh == [mode |-> "GROWTH", days |-> <<>>, today |-> FALSE]

-------------------------------------------------------------------------------
(* hysteresis_tracker.py                                                    *)

(* Were the last n recorded days, one after the other, like this?           *)
Consecutive(days, equity, n) ==
  Len(days) >= n /\ \A i \in Len(days) - n + 1..Len(days) : days[i] = equity

CheckTransition(mode, days) ==
  \/ mode = "GROWTH" /\ Consecutive(days, "high", PreserveDays)
  \/ mode = "PRESERVE" /\ Consecutive(days, "low", GrowthDays)

Other(mode) == IF mode = "GROWTH" THEN "PRESERVE" ELSE "GROWTH"

(* Mutation of Recorded: a second record of the day is one more day.         *)
RecordedTwice(t, equity) ==
  LET days == Append(t.days, equity)
  IN  [t EXCEPT !.days = IF Len(days) > Kept THEN Tail(days) ELSE days, !.today = TRUE]

(* A second record of the day replaces the first. Days nobody recorded leave *)
(* no gap.                                                                  *)
Recorded(t, equity) ==
  LET days == IF t.today THEN [t.days EXCEPT ![Len(t.days)] = equity] ELSE Append(t.days, equity)
      kept == IF Len(days) > Kept THEN Tail(days) ELSE days
  IN  [t EXCEPT !.days = kept, !.today = TRUE]

RecordDailyEquity(t, equity) ==
  LET r == Recorded(t, equity)
  IN  IF CheckTransition(r.mode, r.days) THEN [r EXCEPT !.mode = Other(@)] ELSE r

(* The counts are reset, but not the days they are counted from at the next  *)
(* record.                                                                  *)
ForceMode(t, mode) == [t EXCEPT !.mode = mode]

(* The file is opened for writing, and so emptied, before the state is put  *)
(* into it: a failure is logged, and leaves it as it was or broken.         *)
SaveState(t) == file' \in {t, file, Broken}

LoadState == IF file = Broken THEN Fresh ELSE file

-------------------------------------------------------------------------------
(* capital_profile.py                                                       *)

RiskRange(mode) == IF mode = "PRESERVE" THEN <<250, 500>> ELSE <<700, 1000>>
TotalRiskLimit(mode) == IF mode = "PRESERVE" THEN 1200 ELSE 2000
AllowedAttackLevels(mode) == IF mode = "PRESERVE" THEN 1..2 ELSE 1..3
AllowedAttackModes(mode) == IF mode = "PRESERVE" THEN {"NORMAL", "OFF"} ELSE {"NORMAL", "PLUS", "MAX"}

(* In tenths: the multipliers of the drawdown tier and of the regime, which *)
(* does not know the gate's word for a falling market.                      *)
DdMultiplier(tier) == <<10, 8, 6, 3, 1, 0>>[tier]
RegimeMultiplier(regime) ==
  CASE regime \in {"RISK_ON", "NEUTRAL", "BEARISH"} -> 10 [] regime = "RISK_OFF" -> 5 [] regime = "VOLATILE" -> 3

GetRiskPerTrade(mode, level, attack, tier, regime) ==
  LET range == RiskRange(mode)
      base  == IF attack = "MAX" /\ level = 3 THEN range[2]
               ELSE IF attack = "PLUS" \/ level >= 2 THEN (range[1] + range[2]) \div 2
               ELSE range[1]
      risk  == (base * DdMultiplier(tier) * RegimeMultiplier(regime)) \div 100
  IN  IF risk < TotalRiskLimit(mode) THEN risk ELSE TotalRiskLimit(mode)

CanUseAttackLevel(mode, level, tier, regime) ==
  /\ level \in AllowedAttackLevels(mode)
  /\ level = 3 => tier = 1 /\ regime \notin {"RISK_OFF", "VOLATILE"}

-------------------------------------------------------------------------------
(* attack_gate.py: the level it grants, 0 to block. change is how far the   *)
(* coin is up in a day: 15, 20 or 40 %; pump what the quick check suspects. *)

Conditions ==
  [level : 0..3, attack : {"OFF", "NORMAL", "PLUS", "MAX"}, tier : 1..6,
   regime : {"RISK_ON", "NEUTRAL", "BEARISH", "RISK_OFF", "VOLATILE"}, loss : BOOLEAN,
   change : 0..3, pump : BOOLEAN]

Blocked(mode, c) ==
  \/ c.attack \notin AllowedAttackModes(mode) \cup {"OFF"}
  \/ c.pump \/ c.change = 3
  \/ c.attack = "OFF"
  \/ c.tier >= 3
  \/ c.loss
  \/ c.regime \in {"VOLATILE", "BEARISH", "RISK_OFF"}

ModeMaxLevel(attack) == CASE attack = "OFF" -> 0 [] attack = "NORMAL" -> 1 [] attack = "PLUS" -> 2 [] attack = "MAX" -> 3

(* What each soft gate leaves of the levels.                                *)
SoftLimits(mode, c) ==
  {ModeMaxLevel(c.attack)}
    \cup (IF CanUseAttackLevel(mode, c.level, c.tier, c.regime) THEN {}
          ELSE {Cardinality(AllowedAttackLevels(mode))})
    \cup (IF (c.level = 3 /\ c.change >= 1) \/ (c.level = 2 /\ c.change >= 2) THEN {c.level - 1} ELSE {})
    \cup (IF c.tier >= 2 THEN {1} ELSE {})
    \cup (IF c.change >= 1 THEN {2} ELSE {})

GateCheck(mode, c) ==
  IF Blocked(mode, c) THEN 0
  ELSE CHOOSE l \in SoftLimits(mode, c) \cup {c.level} :
         \A m \in SoftLimits(mode, c) \cup {c.level} : l <= m

-------------------------------------------------------------------------------
Record(equity) ==
  /\ tracker' = RecordDailyEquity(tracker, equity)
  /\ SaveState(tracker')
  /\ IF tracker'.mode # tracker.mode THEN since' = 0 /\ astray' = FALSE
     ELSE UNCHANGED <<since, astray>>

SetByHand(mode) ==
  /\ tracker' = ForceMode(tracker, mode)
  /\ SaveState(tracker')
  /\ IF mode # tracker.mode THEN since' = 0 /\ astray' = TRUE
     ELSE UNCHANGED <<since, astray>>

(* The day is over for the dates in memory and in the file.                 *)
NextDay ==
  /\ tracker' = [tracker EXCEPT !.today = FALSE]
  /\ file' = [file EXCEPT !.today = FALSE]
  /\ since' = IF since = Kept THEN since ELSE since + 1
  /\ UNCHANGED astray

(* The process ends at any time, and the next one starts from the file.      *)
Restart ==
  /\ tracker' = LoadState
  /\ since' = IF tracker'.mode # tracker.mode THEN 0 ELSE since
  /\ astray' = (file # Broken /\ (astray \/ file # tracker))
  /\ UNCHANGED file

CapitalInit == tracker = Fresh /\ file = Broken /\ since = Kept /\ astray = FALSE

CapitalNext ==
  \/ \E equity \in {"high", "mid", "low"} : Record(equity)
  \/ \E mode \in {"GROWTH", "PRESERVE"} : SetByHand(mode)
  \/ NextDay \/ Restart

-------------------------------------------------------------------------------
(* What hysteresis is for: a record does not change the mode back at once.   *)
(* Since the mode last changed, by a record or by a restart that found the   *)
(* file broken, as many days have passed, less one, as the change asks for - *)
(* however often a day is recorded anew, and over any restart that lost      *)
(* nothing or everything. Not so, and excepted by `astray': after a mode set *)
(* by hand, which force_mode does not protect (it resets the counts, and the *)
(* next record counts the same days again), and after a restart from a file  *)
(* that missed a save: the change it missed is undone, and made again by     *)
(* recording the same day anew. With a count of one day, which the settings  *)
(* allow, it would not hold at all: recording the day of a change anew       *)
(* changes back by the days before it.                                       *)
NoFlapping ==
  [][\A equity \in {"high", "mid", "low"} :
       Record(equity) /\ tracker'.mode # tracker.mode /\ ~astray =>
         since + 1 >= (IF tracker'.mode = "PRESERVE" THEN PreserveDays ELSE GrowthDays)]_capitalVars
===============================================================================
