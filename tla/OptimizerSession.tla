--------------------------- MODULE OptimizerSession ---------------------------
(***************************************************************************)
(* ai_optimizer: a session of rounds in which a language model proposes     *)
(* strategies (discovery), writes their code (generation), changes their    *)
(* parameters (optimization) and puts a portfolio together (validation).    *)
(* What it answers, and what a backtest of it yields, is any.  Code and     *)
(* parameters are versions: there is no code 0, and one code does not       *)
(* compile.  A round ends at the first exception and leaves what it did.    *)
(***************************************************************************)
EXTENDS Integers, Sequences, FiniteSets, SequencesExt, FiniteSetsExt

CONSTANTS Discovered,     (* last round of the discovery: 3                  *)
          Generated,      (* of the generation: 8                            *)
          Optimized,      (* of the optimization: 12                         *)
          LastRound,      (* total_rounds: 15                                *)
          MaxRetries,     (* MAX_CODE_RETRIES: 2                             *)
          SameType,       (* max_same_type: 2                                *)
          MaxOptimized    (* bound: optimizations in one answer              *)

ASSUME SessionAssumption ==
  /\ Discovered \in Nat /\ Generated \in Nat /\ Optimized \in Nat /\ LastRound \in Nat
  /\ Discovered <= Generated /\ Generated <= Optimized /\ Optimized <= LastRound

VARIABLES cands,     (* candidates of the session, or NoCandidate            *)
          rnd,       (* current_round                                        *)
          queue,     (* candidates the generation has still to do            *)
          attempts,  (* retries of its first one                             *)
          applied,   (* optimizations applied of the answer, or -1           *)
          report     (* at the end: the strategies selected, the ensemble    *)

sessionVars == <<cands, rnd, queue, attempts, applied, report>>

Ids == {"c1", "c2"}                 (* in the order they are found           *)
Codes == 0..3
NoCode == 0
Broken == 3
Versions == 1..2
Returns == {-1, 3}                  (* return_pct                              *)
NotRun == 0                         (* never measured                          *)
NoCandidate == [there |-> FALSE]
NoReport == [done |-> FALSE]

ActiveIds == {c \in Ids : cands[c].there /\ cands[c].active}
Found == {c \in Ids : cands[c].there}
Waiting == queue = <<>> /\ applied = -1

Phase == IF rnd <= Discovered THEN "discovery"
         ELSE IF rnd <= Generated THEN "generation"
         ELSE IF rnd <= Optimized THEN "optimization" ELSE "validation"

-------------------------------------------------------------------------------
(* A candidate has the return of the code and the parameters last measured; *)
(* one never measured has 0, and so ranks above those that lose.            *)
New(type, params) ==
  [there |-> TRUE, type |-> type, active |-> TRUE, code |-> NoCode, params |-> params,
   return |-> NotRun, of |-> <<NoCode, 0>>, walk |-> FALSE, excuse |-> "none"]

(* _update_metrics                                                          *)
WithResult(c, r) == [c EXCEPT !.return = r, !.of = <<c.code, c.params>>, !.excuse = "none"]

(* A change that is kept without being measured.                             *)
Kept(c, why) == [c EXCEPT !.excuse = IF c.of = <<c.code, c.params>> THEN "none" ELSE why]

(* How get_top_candidates ranks: the one found first before its equals.      *)
Ranked(c, d) ==
  \/ cands[c].return > cands[d].return
  \/ cands[c].return = cands[d].return /\ c = "c1" /\ d = "c2"

Compiles(c) == c.code # Broken
Runs(c) == Compiles(c) /\ c.code # NoCode

(* What a backtest of it may come to; without a signal generator it fails.  *)
Results(c) == {NotRun} \cup (IF Runs(c) THEN Returns ELSE {})

-------------------------------------------------------------------------------
NextRound == rnd' = rnd + 1

(* No answer, or one that raises before anything is changed.                *)
RoundFails ==
  /\ Waiting /\ rnd <= LastRound
  /\ NextRound
  /\ UNCHANGED <<cands, queue, attempts, applied, report>>

Discover(types, params) ==
  /\ Phase = "discovery" /\ rnd <= LastRound
  /\ cands' = [c \in Ids |-> IF ~cands[c].there /\ c \in DOMAIN types
                             THEN New(types[c], params) ELSE cands[c]]
  /\ NextRound
  /\ UNCHANGED <<queue, attempts, applied, report>>

(* Candidates without code first, or else the one that earns least.          *)
StartGeneration ==
  /\ Phase = "generation" /\ Waiting
  /\ LET bare == {c \in ActiveIds : cands[c].code = NoCode}
         worst == {c \in ActiveIds : \A d \in ActiveIds \ {c} : Ranked(d, c)}
     IN  queue' = IF bare = Ids THEN <<"c1", "c2">>
                  ELSE SetToSeq(IF bare # {} THEN bare ELSE worst)
  /\ IF queue' = <<>> THEN NextRound ELSE UNCHANGED rnd
  /\ attempts' = 0
  /\ UNCHANGED <<cands, applied, report>>

NextInQueue == /\ queue' = Tail(queue)
               /\ attempts' = 0
               /\ IF Len(queue) = 1 THEN NextRound ELSE UNCHANGED rnd

(* One request for code.  Without an answer the candidate keeps what the    *)
(* last attempt left it with, be it broken.  Code that does not compile is  *)
(* asked for again, and the third time the candidate is given up.  Code     *)
(* that does is tested, and kept even when the test raises.                 *)
Generate ==
  /\ queue # <<>>
  /\ LET id == Head(queue)
         c == cands[id]
     IN  \/ NextInQueue /\ cands' = [cands EXCEPT ![id] = Kept(c, "generation")]
         \/ \E code \in Codes, params \in Versions :
              LET d == [c EXCEPT !.code = code, !.params = params]
              IN  IF ~Compiles(d)
                  THEN IF attempts = MaxRetries
                       THEN NextInQueue /\ cands' = [cands EXCEPT ![id] = [Kept(d, "generation") EXCEPT !.active = FALSE]]
                       ELSE /\ attempts' = attempts + 1
                            /\ cands' = [cands EXCEPT ![id] = Kept(d, "generation")]
                            /\ UNCHANGED <<queue, rnd>>
                  ELSE \E r \in Results(d) :
                         /\ NextInQueue
                         /\ cands' = [cands EXCEPT ![id] = IF r = NotRun THEN Kept(d, "generation") ELSE WithResult(d, r)]
  /\ UNCHANGED <<applied, report>>

(* The top five are measured again; those that do not compile or run keep   *)
(* what they had.                                                           *)
StartOptimization ==
  /\ Phase = "optimization" /\ Waiting /\ ActiveIds # {}
  /\ \E r \in [Ids -> Returns \cup {NotRun}] :
       /\ \A c \in Ids : r[c] \in IF c \in ActiveIds THEN Results(cands[c]) ELSE {NotRun}
       /\ cands' = [c \in Ids |-> IF r[c] = NotRun THEN cands[c] ELSE WithResult(cands[c], r[c])]
  /\ applied' = 0
  /\ UNCHANGED <<rnd, queue, attempts, report>>

(* Without an improvement the parameters go back; the code does not.  What  *)
(* had not been measured before keeps the reason for that.                  *)
Reverted(c, old) ==
  LET back == [c EXCEPT !.params = old.params]
  IN  IF c.code = old.code THEN back
      ELSE Kept(back, IF old.excuse = "none" THEN "code kept" ELSE old.excuse)

(* One of the optimizations of the answer, which may name any candidate of  *)
(* the session, and the same one twice.                                     *)
Optimize ==
  /\ applied \in 0..MaxOptimized - 1
  /\ \E id \in Found, params \in Versions, code \in Codes \ {NoCode} :
       LET old == cands[id]
           keeps == code = old.code
           d == [old EXCEPT !.code = IF keeps THEN old.code ELSE code, !.params = params]
       IN  \/ /\ applied' = applied + 1
              /\ UNCHANGED rnd
              /\ IF ~Compiles(d) THEN cands' = [cands EXCEPT ![id] = Reverted(d, old)]
                 ELSE \E r \in Results(d) :
                        cands' = [cands EXCEPT ![id] =
                          IF r # NotRun /\ r > old.return THEN WithResult(d, r) ELSE Reverted(d, old)]
           \/ /\ cands' = [cands EXCEPT ![id] = Kept(d, "raised")]   (* the round fails *)
              /\ applied' = -1
              /\ NextRound
  /\ UNCHANGED <<queue, attempts, report>>

EndOptimization ==
  /\ applied >= 0
  /\ applied' = -1
  /\ NextRound
  /\ UNCHANGED <<cands, queue, attempts, report>>

(* The walk forward of every candidate with code; the model's answer then   *)
(* names the final parameters of any of them, which nothing measures.       *)
Validate ==
  /\ Phase = "validation" /\ Waiting /\ rnd <= LastRound /\ ActiveIds # {}
  /\ \E passed \in SUBSET {c \in ActiveIds : Runs(cands[c])}, final \in SUBSET Found, params \in Versions :
       cands' = [c \in Ids |->
                   LET w == IF c \in ActiveIds /\ cands[c].code # NoCode
                            THEN [cands[c] EXCEPT !.walk = c \in passed] ELSE cands[c]
                   IN  IF c \in final THEN Kept([w EXCEPT !.params = params], "final parameters") ELSE w]
  /\ NextRound
  /\ UNCHANGED <<queue, attempts, applied, report>>

-------------------------------------------------------------------------------
(* strategy_selector.py: who earns enough, scored by the return and by      *)
(* whether the walk forward was passed; the first of its type has a bonus.  *)
MinReturn == 2
ScoreOf(c, first) == (IF cands[c].return > MinReturn THEN 6 ELSE 3)
                   + (IF cands[c].walk THEN 15 ELSE 0) + (IF first THEN 5 ELSE 0)

Selected ==
  LET good == {c \in ActiveIds : cands[c].return >= MinReturn}
      first(c) == ~\E d \in good : c = "c2" /\ d = "c1" /\ cands[d].type = cands[c].type
      ahead(c, d) == \/ ScoreOf(c, first(c)) > ScoreOf(d, first(d))
                     \/ ScoreOf(c, first(c)) = ScoreOf(d, first(d)) /\ c = "c1" /\ d = "c2"
  IN  {c \in good :
         Cardinality({d \in good : cands[d].type = cands[c].type /\ ahead(d, c)}) < SameType}

(* ensemble.py: by return, whoever is of another type than those taken,     *)
(* which is the first of each type.  A single strategy is no ensemble.      *)
Ensemble(selected) ==
  IF Cardinality(selected) < 2 THEN {}
  ELSE {c \in selected : ~\E d \in selected : cands[d].type = cands[c].type /\ Ranked(d, c)}

(* The end of DiscoveryEngine.run.                                           *)
Report ==
  /\ rnd = LastRound + 1 /\ report = NoReport
  /\ report' = [done |-> TRUE, selected |-> Selected, ensemble |-> Ensemble(Selected)]
  /\ UNCHANGED <<cands, rnd, queue, attempts, applied>>

SessionInit ==
  /\ cands = [c \in Ids |-> NoCandidate] /\ rnd = 1 /\ queue = <<>> /\ attempts = 0
  /\ applied = -1 /\ report = NoReport

SessionNext ==
  \/ RoundFails \/ StartGeneration \/ Generate \/ StartOptimization \/ Optimize \/ EndOptimization
  \/ Validate \/ Report
  \/ \E known \in SUBSET Ids \ {{}} : \E types \in [known -> {"TREND", "VOLUME"}] :
       ("c1" \in known => types["c1"] = "TREND") /\ Discover(types, 1)   (* types are alike *)

-------------------------------------------------------------------------------
(* What a candidate claims to earn was measured of the code and parameters  *)
(* it has - but for the four ways in which the code lets the two part: an   *)
(* attempt to generate that came to nothing, an optimization that failed    *)
(* and took only the parameters back, one that raised, and the final        *)
(* parameters of the model.  Only what was measured is selected, and an     *)
(* ensemble holds one strategy of a type.                                   *)
SessionMeasured ==
  /\ \A c \in Found : cands[c].return # NotRun =>
       \/ cands[c].of = <<cands[c].code, cands[c].params>>
       \/ cands[c].excuse \in {"generation", "code kept", "raised", "final parameters"}
  /\ \A c \in Found : cands[c].excuse = "code kept" =>
       /\ cands[c].of[1] # cands[c].code
       /\ cands[c].return # NotRun => cands[c].of[2] = cands[c].params
  /\ report.done =>
       /\ \A c \in report.selected : cands[c].return # NotRun
       /\ \A c, d \in report.ensemble : cands[c].type = cands[d].type => c = d
===============================================================================
