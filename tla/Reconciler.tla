------------------------------ MODULE Reconciler ------------------------------
(***************************************************************************)
(* portfolio/reconcile.py, the loop that compares what the program believes *)
(* it has with what the exchanges say, and portfolio/ledger.py, the books   *)
(* of the day it updates.  The exchanges, and the callers that tell the     *)
(* reconciler what to expect, move at every await of the loop.  Nothing in  *)
(* the repository constructs the two yet: the callers are any.              *)
(* Balances are whole units, so that every difference is above the          *)
(* threshold; there is one symbol with a position and one order.            *)
(***************************************************************************)
EXTENDS Integers

CONSTANTS PositionsEvery,  (* cycles: 3                                      *)
          OrdersEvery,     (* cycles, a multiple of PositionsEvery: 6        *)
          MaxFailures,     (* _max_consecutive_failures: 3                   *)
          MaxTotal,        (* bound: balance of one exchange                 *)
          MaxBooked        (* bound: trades of a day                         *)

ASSUME ReconcilerAssumption ==
  /\ PositionsEvery \in Nat /\ PositionsEvery >= 2
  /\ OrdersEvery \in Nat \ {0} /\ OrdersEvery % PositionsEvery = 0
  /\ MaxFailures \in Nat /\ MaxTotal \in Nat

VARIABLES actual,     (* the balances the exchanges report                   *)
          expected,   (* _expected_spot_balance, _expected_perp_balance      *)
          position,   (* the position here and there, or "none"              *)
          order,      (* the status of the order here (or "none"), and       *)
                      (* whether it is open there                            *)
          stage,      (* the request the loop makes next                     *)
          cycle,      (* check_cycle, modulo OrdersEvery                     *)
          spotRead,   (* the balance of the first exchange, as it was read   *)
          ok,         (* no check of this cycle has failed                   *)
          failures,   (* _consecutive_failures, up to MaxFailures            *)
          balanceBad, (* history: cycles, latest last, that the balance      *)
                      (* check has failed in                                 *)
          standing,   (* history: whole cycles the same drift has stood      *)
          books       (* Ledger: _current_equity and the stats of today      *)

loopVars == <<actual, expected, position, order, stage, cycle, spotRead, ok,
              failures, balanceBad, standing>>
reconcileVars == <<loopVars, books>>

Accounts == {"spot", "perp"}
ActiveStatuses == {"NEW", "PENDING", "ACK", "PARTIAL"}
Abs(x) == IF x < 0 THEN -x ELSE x
Larger(x, y) == IF x > y THEN x ELSE y
Lower(x, y) == IF x < y THEN x ELSE y

-------------------------------------------------------------------------------
(* ledger.py                                                                *)

Today(start) == [start |-> start, current |-> start, max |-> start, min |-> start,
                 pnl |-> 0, trades |-> 0, split |-> 0, since |-> 0]

(* update_equity sets the profit of the day, whatever trades had added.      *)
Updated(b, e) ==
  [equity |-> e,
   today |-> [b.today EXCEPT !.current = e, !.pnl = e - b.today.start,
                             !.max = Larger(b.today.max, e),
                             !.min = Lower(b.today.min, e),
                             !.since = 0]]

(* record_trade: the trade is counted, and then the split by kind of        *)
(* strategy raises, for a name (CORE) that StrategyType has not.            *)
Recorded(b, p) ==
  [b EXCEPT !.today.trades = b.today.trades + 1, !.today.pnl = b.today.pnl + p,
            !.today.since = b.today.since + p]

(* A new day begins when it is first asked for, or when a caller says so,   *)
(* with the equity he names.                                                *)
DayBegins == books' = [books EXCEPT !.today = Today(books.equity)]
NewDay(start) == books' = [books EXCEPT !.today = Today(start)]

UpdateEquity(e) == books' = Updated(books, e)
BookTrade(p) == books.today.trades < MaxBooked /\ books' = Recorded(books, p)

-------------------------------------------------------------------------------
(* reconcile.py                                                             *)

(* An account of which nothing is expected is not compared.                  *)
Drift(a, e) ==
  LET of(account) == IF e[account] > 0 THEN Abs(a[account] - e[account]) ELSE 0
  IN  of("spot") + of("perp")

Total(a) == a["spot"] + a["perp"]
OrderMismatch == (order.here \in ActiveStatuses /\ ~order.open) \/ (order.here = "none" /\ order.open)

AfterBalance == IF cycle % PositionsEvery = 0 THEN "positions"
                ELSE IF cycle % OrdersEvery = 0 THEN "orders" ELSE "spot"
AfterPositions == IF cycle % OrdersEvery = 0 THEN "orders" ELSE "spot"

Off == \E a \in Accounts : expected[a] > 0 /\ actual[a] # expected[a]

(* What the end of a cycle makes of its checks.                              *)
Failures(good) == IF good THEN 0 ELSE Lower(failures + 1, MaxFailures)

(* The stage ends with the checks having come out this way so far.  The     *)
(* last stage of a cycle reports, and the loop sleeps.  The loop's own       *)
(* handler (reconcile.py:189), which would count a failure and keep the      *)
(* cycle, is not a step: each check answers its errors with a failed result, *)
(* and on_reconcile_success and on_reconcile_failure only assign and log.    *)
Go(next, good) ==
  /\ stage' = next
  /\ IF next = "spot"
     THEN /\ failures' = Failures(good)
          /\ cycle' = (cycle + 1) % OrdersEvery
          /\ ok' = TRUE
          /\ standing' = IF Off THEN Lower(standing + 1, MaxFailures) ELSE 0
     ELSE ok' = good /\ UNCHANGED <<failures, cycle, standing>>

ReadSpot ==
  /\ stage = "spot"
  /\ stage' = "perp"
  /\ spotRead' = actual["spot"]
  /\ UNCHANGED <<actual, expected, position, order, cycle, ok, failures, balanceBad, standing, books>>

(* The second balance, and the comparison; a request that fails is a failed *)
(* check.                                                                   *)
ReadPerp(answered) ==
  LET read == [actual EXCEPT !["spot"] = spotRead]
      good == answered /\ Drift(read, expected) = 0
  IN  /\ stage = "perp"
      /\ Go(AfterBalance, good)
      /\ balanceBad' = <<balanceBad[2], ~good>>
      /\ spotRead' = 0
      /\ IF good THEN UpdateEquity(Total(read)) ELSE UNCHANGED books
      /\ UNCHANGED <<actual, expected, position, order>>

ReadPositions(answered) ==
  /\ stage = "positions"
  /\ Go(AfterPositions, ok /\ answered /\ position.here = position.there)
  /\ UNCHANGED <<actual, expected, position, order, spotRead, balanceBad, books>>

ReadOrders(answered) ==
  /\ stage = "orders"
  /\ Go("spot", ok /\ answered /\ ~OrderMismatch)
  /\ UNCHANGED <<actual, expected, position, order, spotRead, balanceBad, books>>

(* The exchanges and the callers.                                            *)
Changed == standing' = (IF stage = "spot" THEN 0 ELSE -1)

BalanceMoves(a) ==
  /\ a # actual /\ actual' = a /\ Changed
  /\ UNCHANGED <<expected, position, order, stage, cycle, spotRead, ok, failures, balanceBad, books>>

UpdateExpectedBalances(e) ==
  /\ e # expected /\ expected' = e /\ Changed
  /\ UNCHANGED <<actual, position, order, stage, cycle, spotRead, ok, failures, balanceBad, books>>

PositionMoves(p) ==
  /\ p # position /\ position' = p
  /\ UNCHANGED <<actual, expected, order, stage, cycle, spotRead, ok, failures, balanceBad, standing, books>>

OrderMoves(o) ==
  /\ o # order /\ order' = o
  /\ UNCHANGED <<actual, expected, position, stage, cycle, spotRead, ok, failures, balanceBad, standing, books>>

(* track_order, update_order_status (a final status ends the tracking) and  *)
(* untrack_order; an unknown status is kept and expects nothing.            *)
OrderChanges ==
  \E here \in {"none", "NEW", "UNKNOWN"}, open \in BOOLEAN :
    /\ here = "UNKNOWN" => order.here # "none"
    /\ OrderMoves([here |-> here, open |-> open])

-------------------------------------------------------------------------------
Balances == [Accounts -> 0..MaxTotal]

ReconcileInit ==
  /\ actual \in Balances /\ expected = [a \in Accounts |-> 0]
  /\ position = [here |-> "none", there |-> "none"]
  /\ order = [here |-> "none", open |-> FALSE]
  /\ stage = "spot" /\ cycle = 0 /\ spotRead = 0 /\ ok = TRUE
  /\ failures = 0 /\ balanceBad = <<FALSE, FALSE>> /\ standing = 0
  /\ books = [equity |-> 1, today |-> Today(1)]

ReconcileNext ==
  \/ ReadSpot
  \/ \E answered \in BOOLEAN : ReadPerp(answered) \/ ReadPositions(answered) \/ ReadOrders(answered)
  \/ \E b \in Balances : BalanceMoves(b) \/ UpdateExpectedBalances(b)
  \/ \E here \in {"none", "LONG"} : PositionMoves([here |-> here, there |-> "none"])
  \/ OrderChanges

BooksNext ==
  /\ \/ \E e \in 0..2 * MaxTotal : UpdateEquity(e) \/ NewDay(e)
     \/ \E p \in {-1, 1} : BookTrade(p)
     \/ DayBegins
  /\ UNCHANGED loopVars

-------------------------------------------------------------------------------
(* A drift of a balance that stands is noticed in every cycle, and after    *)
(* three of them the failures say so, whatever else changes; but what only  *)
(* the positions or the orders show never gets that far: between two of     *)
(* their checks lies a cycle that counts as a success.                      *)
DriftEscalates ==
  /\ standing = MaxFailures => failures = MaxFailures
  /\ failures >= 2 => balanceBad[1] \/ balanceBad[2]

(* The profit of the day is what the equity has grown by, and what the      *)
(* trades since the last update add; the extremes hold the equity.          *)
DayAddsUp ==
  LET t == books.today
  IN  /\ t.pnl = t.current - t.start + t.since
      /\ t.min <= t.current /\ t.current <= t.max /\ t.min <= t.start /\ t.start <= t.max
===============================================================================
