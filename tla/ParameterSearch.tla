---------------------------- MODULE ParameterSearch ---------------------------
(***************************************************************************)
(* The two searches for parameters over the backtest of a strategy:         *)
(* backtesting/optimization/optimizer.py tries all combinations of a grid,  *)
(* window by window; scripts/run_v3_openai_optimize.py asks a language      *)
(* model for better ones, round by round, and validates the best at the     *)
(* end.  A backtest ends at the moment it is run, so that the same          *)
(* parameters do not yield the same return twice.                           *)
(***************************************************************************)
EXTENDS Integers, Sequences, SequencesExt

CONSTANTS Rounds,      (* MAX_ROUNDS: 3                                      *)
          SearchDays,  (* bound: days from start_date to end_date            *)
          WindowDays,  (* window_days: 30                                    *)
          StepDays     (* step_days: 7                                       *)

ASSUME SearchAssumption ==
  Rounds \in Nat /\ SearchDays \in Nat /\ WindowDays \in Nat /\ StepDays \in Nat

VARIABLES search,      (* the rounds: where they are, current and best       *)
                       (* parameters and best return                         *)
          measured,    (* history: parameters and what they returned         *)
          baseline,    (* history: the first return                          *)
          window,      (* first day of the next window                       *)
          windows      (* the result of each window                          *)

roundVars == <<search, measured, baseline>>
windowVars == <<window, windows>>

(* Parameters: a value for some names, of which one is not in the original. *)
Names == {"stop", "target", "new"}
Original == [n \in {"stop", "target"} |-> 1]
Proposals == UNION {[names -> 1..2] : names \in {{}, {"stop"}, {"new"}, {"stop", "target"}, {"stop", "new"}}}
Yields == -1..1
Unknown == -9

-------------------------------------------------------------------------------
(* optimize_single_strategy: at the start of every round the current        *)
(* parameters are run; the first run is what has to be beaten.              *)
StartRound(r) ==
  /\ search.stage = "run" /\ search.round <= Rounds
  /\ search' = [search EXCEPT !.stage = "ask", !.best = IF search.best = Unknown THEN r ELSE search.best]
  /\ measured' = measured \cup {<<search.current, r>>}
  /\ baseline' = IF baseline = Unknown THEN r ELSE baseline

(* The names whose value changes.  Those that are new do not count, those   *)
(* left out neither.                                                        *)
Changes(new) ==
  {n \in DOMAIN search.current \cap DOMAIN new : new[n] # search.current[n]}

NextRoundOf(s) == [s EXCEPT !.stage = "run", !.round = s.round + 1]

(* No answer, none with parameters, or none that changes one.                *)
Skip(new) ==
  /\ search.stage = "ask" /\ Changes(new) = {}
  /\ search' = NextRoundOf(search)
  /\ UNCHANGED <<measured, baseline>>

(* Mutation of After: what was tried stays current.                          *)
AfterTried(new, r) ==
  IF r > search.best THEN [search EXCEPT !.best = r, !.bestParams = new, !.current = new]
  ELSE [search EXCEPT !.current = new]

(* The new parameters replace the best ones whole, or are taken back.        *)
After(new, r) ==
  IF r > search.best THEN [search EXCEPT !.best = r, !.bestParams = new, !.current = new]
  ELSE [search EXCEPT !.current = search.bestParams]

Try(new, r) ==
  /\ search.stage = "ask" /\ Changes(new) # {}
  /\ search' = NextRoundOf(After(new, r))
  /\ measured' = measured \cup {<<new, r>>}
  /\ UNCHANGED baseline

(* A backtest that raises ends the program.                                  *)
Raise ==
  /\ search.stage \in {"run", "ask"} /\ search.round <= Rounds
  /\ search' = [search EXCEPT !.stage = "dead"]
  /\ UNCHANGED <<measured, baseline>>

(* main: the validation over ninety days, of the best and of the original,  *)
(* decides nothing.  Listing what changed looks every name of the best up   *)
(* in the original: one that is new ends the program before it has saved    *)
(* anything.                                                                *)
Save ==
  /\ search.stage = "run" /\ search.round = Rounds + 1
  /\ search' = [search EXCEPT !.stage = IF DOMAIN search.bestParams \subseteq DOMAIN Original
                                        THEN "saved" ELSE "dead"]
  /\ UNCHANGED <<measured, baseline>>

-------------------------------------------------------------------------------
(* run_walk_forward_optimization, over ParameterOptimizer.optimize: a grid  *)
(* tries every combination, a random search those it happened to draw.      *)
Combinations == <<"a", "b", "c">>

(* The sort keeps the order of equals.                                       *)
BestOf(tried, score) ==
  FoldLeft(LAMBDA best, p : IF score[p] > score[best] THEN p ELSE best, tried[1], tried)

SearchWindow(tried, score) ==
  /\ window + WindowDays <= SearchDays
  /\ window' = window + StepDays
  /\ windows' = Append(windows, [from |-> window, to |-> window + WindowDays, score |-> score,
                                 tried |-> tried,
                                 best |-> IF tried = <<>> THEN "none" ELSE BestOf(tried, score)])

-------------------------------------------------------------------------------
SearchInit ==
  /\ search = [stage |-> "run", round |-> 1, current |-> Original, bestParams |-> Original,
               best |-> Unknown]
  /\ measured = {} /\ baseline = Unknown /\ window = 0 /\ windows = <<>>

RoundNext ==
  \/ \E r \in Yields : StartRound(r) \/ \E new \in Proposals : Try(new, r)
  \/ \E new \in Proposals : Skip(new)
  \/ Raise \/ Save

WindowNext ==
  \E score \in [{"a", "b", "c"} -> -1..1], tried \in {Combinations, <<"b", "a">>, <<>>} :
     SearchWindow(tried, score)

-------------------------------------------------------------------------------
(* The best return is one the best parameters have really had, and at least *)
(* the first one; every round starts with the best parameters; and what is  *)
(* saved can be used where the original was.                                *)
SearchMeasured ==
  /\ search.best # Unknown => /\ <<search.bestParams, search.best>> \in measured
                              /\ search.best >= baseline
  /\ search.current = search.bestParams
  /\ search.stage = "saved" => DOMAIN search.bestParams \subseteq DOMAIN Original

(* Every window lies within the days, and names one that none of those it   *)
(* tried beats.                                                             *)
WindowsMeasured ==
  \A i \in DOMAIN windows :
    LET w == windows[i]
    IN  /\ 0 <= w.from /\ w.to <= SearchDays /\ (i > 1 => w.from = windows[i - 1].from + StepDays)
        /\ w.tried # <<>> => /\ w.best \in ToSet(w.tried)
                             /\ \A p \in ToSet(w.tried) : w.score[p] <= w.score[w.best]
===============================================================================
