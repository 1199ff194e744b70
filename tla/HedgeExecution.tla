---------------------------- MODULE HedgeExecution ----------------------------
(***************************************************************************)
(* execution/executor.py: a task submits a spot order and, when it was       *)
(* executed, the perpetual order that hedges it; a failed hedge is tried     *)
(* again and in the end the spot order is sold back.  Meanwhile the exchange *)
(* executes what was placed, and other tasks cancel and synchronise orders   *)
(* and change the trading mode.  No exchange of src/ has perpetuals: both    *)
(* exchanges are what exchange/base.py lets them be.                         *)
(***************************************************************************)
EXTENDS OrderState, FiniteSets

CONSTANTS Qty,          (* quantity of both legs                             *)
          MaxRetries,   (* max_retries of the recovery                       *)
          MaxUnseen     (* bound: answers the engine does not see            *)

ASSUME ExecutionAssumption ==
  Qty \in Nat \ {0} /\ MaxRetries \in Nat \ {0} /\ MaxUnseen \in Nat

Spot == 1
Perp == 2
Retries == 3..(MaxRetries + 2)
Rollback == MaxRetries + 3
Order == 1..Rollback
Perps == {Perp} \cup Retries
None == 0

VARIABLES side,       (* of the spot order                                   *)
          maker,      (* is the spot order a limit order without urgency?    *)
          order,      (* the orders made so far                              *)
          canOpen,    (* risk.can_open_position                              *)
          stage, cur, (* where the task is, with which order                 *)
          ok,         (* what the last submit_order returned                 *)
          pair,       (* is the pair in _hedge_pairs?                        *)
          result,     (* what submit_hedge_pair returned, or raised          *)
          resting,    (* exchange: what is left of the limit order           *)
          pending,    (* exchange: what is left of a market order            *)
          executed,   (* exchange: executed quantity of an order             *)
          unseen,     (* history: placed, but the engine did not see the answer *)
          cancelling, (* orders other tasks are waiting to cancel            *)
          reports     (* history: successes and failures told to the risk engine *)

taskVars == <<side, maker, stage, cur, ok, pair, result>>
venueVars == <<resting, pending, executed, unseen>>
hedgeVars == <<taskVars, order, canOpen, venueVars, cancelling, reports>>

(* The hedge and the rollback trade against the spot order.                  *)
SideOf(o) == IF (o = Spot) = (side = "BUY") THEN "BUY" ELSE "SELL"

(* An order that is not made yet has no quantity.                            *)
Made == {o \in Order : order[o].qty > 0}

(* submit_order ends for the current order and tells the risk engine how.    *)
Ended(success) ==
  /\ stage' = "returned" /\ ok' = success
  /\ reports' = [reports EXCEPT ![cur] = @ + 1]
  /\ UNCHANGED <<side, maker, cur, pair, result, canOpen, cancelling>>

Goto(label) ==
  /\ stage' = label
  /\ UNCHANGED <<side, maker, cur, ok, pair, result, canOpen, cancelling, reports>>

Update(record) == order' = [order EXCEPT ![cur] = record]

-------------------------------------------------------------------------------
(* submit_order                                                              *)

(* Both orders are made by create_order before the pair is submitted.        *)
SubmitHedgePair(s, m) ==
  /\ stage = "idle"
  /\ side' = s /\ maker' = m
  /\ order' = [order EXCEPT ![Spot] = Created(Qty), ![Perp] = Created(Qty)]
  /\ cur' = Spot /\ stage' = "submit"
  /\ UNCHANGED <<ok, pair, result, canOpen, venueVars, cancelling, reports>>

Blocked == ~canOpen /\ SideOf(cur) = "BUY"

(* A blocked order is not reported.                                          *)
SubmitBlocked ==
  /\ stage = "submit" /\ Blocked
  /\ stage' = "returned" /\ ok' = FALSE
  /\ UNCHANGED <<side, maker, cur, pair, result, order, canOpen, venueVars,
                 cancelling, reports>>

(* _get_policy_for_strategy: only the spot order may rest in the book.       *)
PostOnly == cur = Spot /\ maker

SubmitIoc ==
  /\ stage = "submit" /\ ~Blocked /\ ~PostOnly
  /\ Goto("ioc") /\ UNCHANGED <<order, venueVars>>

PlacePostOnly ==
  /\ stage = "submit" /\ ~Blocked /\ PostOnly
  /\ Update(MarkSent(order[cur])) /\ Goto("wait")
  /\ resting' = Qty
  /\ UNCHANGED <<pending, executed, unseen>>

AnswerLost == Cardinality(unseen) < MaxUnseen /\ unseen' = unseen \cup {cur}

(* place_order reports no success and the order goes to market, or raises.   *)
(* The limit order is refused, or its answer was lost and it rests in the    *)
(* book without the engine knowing its id.                                  *)
PostOnlyRefused ==
  /\ stage = "submit" /\ ~Blocked /\ PostOnly
  /\ Goto("ioc") \/ Ended(FALSE)
  /\ \/ UNCHANGED <<resting, unseen>>
     \/ resting' = Qty /\ AnswerLost
  /\ UNCHANGED <<order, pending, executed>>

-------------------------------------------------------------------------------
(* _wait_for_fill: every poll is a status, then the order's details.         *)

PollExecuted ==
  /\ stage = "wait" /\ executed[cur] > 0 /\ (resting > 0 \/ executed[cur] = Qty)
  /\ Update(MarkAcked(order[cur]))
  /\ IF CanBecome(order[cur], "ACK")
     THEN Goto(IF executed[cur] = Qty THEN "filled" ELSE "partial")
     ELSE Ended(FALSE)
  /\ UNCHANGED venueVars

(* The slippage of a filled order is computed from a field orders lack: the  *)
(* order is filled and submit_order fails.                                   *)
DetailsFilled ==
  /\ stage = "filled"
  /\ \E info \in BOOLEAN :
       Update(IF info THEN MarkFilled(order[cur], executed[cur]) ELSE order[cur])
  /\ Ended(FALSE) /\ UNCHANGED venueVars

DetailsPartial ==
  /\ stage = "partial"
  /\ \/ /\ Update(MarkPartialFill(order[cur], executed[cur]))
        /\ IF CanBePartial(order[cur]) THEN Goto("wait") ELSE Ended(FALSE)
     \/ Goto("wait") /\ UNCHANGED order
  /\ UNCHANGED venueVars

(* Mutation of WaitEnds: an order that is partly executed is waited for.     *)
WaitEndsUnexecuted ==
  /\ stage = "wait" /\ executed[cur] = 0 /\ Goto("cancel") /\ UNCHANGED <<order, venueVars>>

(* Canceled by another, or not executed in time.                             *)
WaitEnds ==
  /\ stage = "wait" /\ Goto("cancel") /\ UNCHANGED <<order, venueVars>>

(* Whether the exchange still had something to cancel is not looked at.      *)
CancelUnfilled ==
  /\ stage = "cancel"
  /\ resting' \in {resting, 0}
  /\ Goto("chase") /\ UNCHANGED <<order, pending, executed, unseen>>

(* _chase_price: the price has moved too far, or the order goes to market.   *)
ChasePrice ==
  /\ stage = "chase"
  /\ \/ Ended(FALSE)
     \/ Goto("ioc")
  /\ UNCHANGED <<order, venueVars>>

-------------------------------------------------------------------------------
(* _execute_ioc: the whole quantity, whatever was executed of it before.  The *)
(* markers raise when the order is not NEW; the market order stands.         *)

Executes(n) == executed' = [executed EXCEPT ![cur] = @ + n]

(* Mutation of IocFill: the quantity ordered is booked for a partial fill.   *)
IocFillOrdered(o, n) == MarkPartialFill(MarkAcked(MarkSent(order[o])), order[o].qty)

(* The record of a market order of which the exchange executed n.            *)
IocFill(o, n) ==
  LET acked == MarkAcked(MarkSent(order[o]))
  IN  IF n = order[o].qty THEN MarkFilled(acked, n) ELSE MarkPartialFill(acked, n)

IocExecuted(n) ==
  /\ stage = "ioc" /\ n <= order[cur].qty
  /\ Executes(n)
  /\ IF order[cur].status = "NEW"
     THEN Update(IocFill(cur, n)) /\ Ended(TRUE)
     ELSE Update([order[cur] EXCEPT !.sent = TRUE]) /\ Ended(FALSE)
  /\ pending' = [pending EXCEPT ![cur] = order[cur].qty - n]
  /\ UNCHANGED <<resting, unseen>>

Placed ==
  /\ pending' = [pending EXCEPT ![cur] = order[cur].qty]
  /\ AnswerLost /\ UNCHANGED <<resting, executed>>

(* Accepted, but neither filled nor partly filled as far as the client saw:  *)
(* the order is rejected here, unless the marker before raises, and executes *)
(* at the exchange.                                                         *)
IocUnseen ==
  /\ stage = "ioc"
  /\ LET sent == MarkSent(order[cur])
     IN  Update(IF CanBecome(order[cur], "SENT") THEN MarkRejected(sent) ELSE sent)
  /\ Placed /\ Ended(FALSE)

(* place_order reports no success, or raises: the order was refused, or the  *)
(* answer was lost.                                                         *)
IocRefused ==
  /\ stage = "ioc"
  /\ Update(MarkRejected(order[cur])) \/ UNCHANGED order
  /\ UNCHANGED venueVars \/ Placed
  /\ Ended(FALSE)

-------------------------------------------------------------------------------
(* submit_hedge_pair and _attempt_hedge_recovery                             *)

Returns(value) ==
  /\ stage' = "over" /\ result' = value
  /\ UNCHANGED <<side, maker, cur, ok, order, canOpen, venueVars, cancelling, reports>>

Submits(o, qty) ==
  /\ cur' = o /\ stage' = "submit"
  /\ order' = IF o = Perp THEN order ELSE [order EXCEPT ![o] = Created(qty)]
  /\ UNCHANGED <<side, maker, ok, pair, result, venueVars, cancelling, reports>>

(* Mutation of SpotReturned: the perpetual is submitted in any case.         *)
SpotReturnedAny ==
  /\ stage = "returned" /\ cur = Spot
  /\ Submits(Perp, Qty) /\ UNCHANGED canOpen

SpotReturned ==
  /\ stage = "returned" /\ cur = Spot
  /\ IF ok THEN Submits(Perp, Qty) /\ UNCHANGED canOpen ELSE Returns("none") /\ UNCHANGED pair

(* A failed hedge puts the engine into SAFE mode before it is tried again.   *)
PerpReturned ==
  /\ stage = "returned" /\ cur = Perp
  /\ IF ok THEN Returns("hedged") /\ pair' = TRUE
     ELSE Submits(Perp + 1, Qty) /\ canOpen' = FALSE

(* Mutation of AfterRetry: the loop goes on after a retry that succeeded.    *)
AfterRetryOn == IF cur + 1 \in Retries THEN cur + 1 ELSE Rollback

(* The next order of the recovery, None when it has succeeded.               *)
AfterRetry ==
  IF ok THEN None ELSE IF cur + 1 \in Retries THEN cur + 1 ELSE Rollback

(* Mutation of RollbackQty: the whole order is sold back.                    *)
RollbackQtyAll == order[Spot].qty

RollbackQty == IF order[Spot].filled = 0 THEN order[Spot].qty ELSE order[Spot].filled

(* A retry that succeeds ends in the missing field as well, outside of       *)
(* submit_order: the pair is not kept and the caller gets the error.         *)
RetryReturned ==
  /\ stage = "returned" /\ cur \in Retries
  /\ IF AfterRetry = None THEN Returns("raised") /\ UNCHANGED pair
     ELSE /\ Submits(AfterRetry, IF AfterRetry = Rollback THEN RollbackQty ELSE Qty)
          /\ UNCHANGED canOpen

RollbackReturned ==
  /\ stage = "returned" /\ cur = Rollback
  /\ Returns(IF ok THEN "rolledBack" ELSE "unhedged") /\ UNCHANGED pair

-------------------------------------------------------------------------------
(* The exchange.                                                             *)

RestingExecutes ==
  /\ resting > 0
  /\ resting' = resting - 1
  /\ executed' = [executed EXCEPT ![Spot] = @ + 1]
  /\ UNCHANGED <<taskVars, order, canOpen, pending, unseen, cancelling, reports>>

(* What is left of a market order executes as far as it can.                 *)
PendingEnds(o) ==
  /\ pending[o] > 0
  /\ pending' = [pending EXCEPT ![o] = 0]
  /\ \E n \in 0..pending[o] : executed' = [executed EXCEPT ![o] = @ + n]
  /\ UNCHANGED <<taskVars, order, canOpen, resting, unseen, cancelling, reports>>

-------------------------------------------------------------------------------
(* Other tasks.                                                              *)

(* cancel_order looks at the order, waits for the exchange and then marks it. *)
CancelOrder(o) ==
  /\ o \in Made \ cancelling /\ order[o].sent /\ order[o].status \notin Terminal
  /\ cancelling' = cancelling \cup {o}
  /\ UNCHANGED <<taskVars, order, canOpen, venueVars, reports>>

(* The spot order may have a limit and a market order at the exchange: only  *)
(* the one whose id it holds is canceled, either is tried.                   *)
CancelAnswered(o) ==
  /\ o \in cancelling
  /\ cancelling' = cancelling \ {o}
  /\ \/ /\ o = Spot /\ resting > 0
        /\ order' = [order EXCEPT ![o] = MarkCanceled(@)]
        /\ resting' = 0 /\ UNCHANGED pending
     \/ /\ pending[o] > 0
        /\ order' = [order EXCEPT ![o] = MarkCanceled(@)]
        /\ pending' = [pending EXCEPT ![o] = 0] /\ UNCHANGED resting
     \/ UNCHANGED <<order, resting, pending>>
  /\ UNCHANGED <<taskVars, canOpen, executed, unseen, reports>>

StatusAt(o) ==
  CASE executed[o] >= order[o].qty -> "FILLED"
    [] pending[o] > 0 -> IF executed[o] > 0 THEN "PARTIAL" ELSE "NEW"
    [] OTHER -> "CANCELED"

(* While a limit order may have gone to market, the id it holds may be of    *)
(* either: any status is tried.  Once the hedge follows it is the market's.  *)
StatusesAt(o) ==
  IF o = cur /\ o = Spot /\ maker THEN {"FILLED", "PARTIAL", "NEW", "CANCELED"}
  ELSE {StatusAt(o)}

(* sync_order_status takes over the status, without quantities.              *)
SyncOrderStatus(o) ==
  /\ o \in Made /\ order[o].sent
  /\ \E status \in StatusesAt(o) \ {order[o].status} :
       order' = [order EXCEPT ![o] = Become(@, status)]
  /\ UNCHANGED <<taskVars, canOpen, venueVars, cancelling, reports>>

ModeChanges ==
  /\ canOpen' = ~canOpen
  /\ UNCHANGED <<taskVars, order, venueVars, cancelling, reports>>

-------------------------------------------------------------------------------
HedgeInit ==
  /\ side = "BUY" /\ maker = FALSE
  /\ order = [o \in Order |-> Created(0)]
  /\ canOpen = TRUE
  /\ stage = "idle" /\ cur = None /\ ok = FALSE /\ pair = FALSE /\ result = "none"
  /\ resting = 0 /\ pending = [o \in Order |-> 0] /\ executed = [o \in Order |-> 0]
  /\ unseen = {}
  /\ cancelling = {}
  /\ reports = [o \in Order |-> 0]

Submission ==
  \/ SubmitBlocked \/ SubmitIoc \/ PlacePostOnly \/ PostOnlyRefused
  \/ PollExecuted \/ DetailsFilled \/ DetailsPartial
  \/ CancelUnfilled \/ ChasePrice
  \/ \E n \in 1..Qty : IocExecuted(n)
  \/ IocUnseen \/ IocRefused
  \/ SpotReturned \/ PerpReturned \/ RetryReturned \/ RollbackReturned

Others ==
  \/ \E o \in Order : \/ PendingEnds(o)
                      \/ CancelOrder(o) \/ CancelAnswered(o) \/ SyncOrderStatus(o)
  \/ RestingExecutes
  \/ ModeChanges

HedgeNext ==
  \/ \E s \in {"BUY", "SELL"}, m \in BOOLEAN : SubmitHedgePair(s, m)
  \/ Submission \/ WaitEnds \/ Others

(* The exchange client answers or fails in bounded time; the wait for a fill *)
(* is a loop with a time-out.                                                *)
HedgeSpec == HedgeInit /\ [][HedgeNext]_hedgeVars /\ WF_hedgeVars(Submission) /\ WF_hedgeVars(WaitEnds)

-------------------------------------------------------------------------------
Record == [status : OrderStatus, qty : 0..Qty, filled : 0..Qty, sent : BOOLEAN]

HedgeTypeOK ==
  /\ side \in {"BUY", "SELL"} /\ maker \in BOOLEAN
  /\ order \in [Order -> Record]
  /\ cancelling \subseteq Made
  /\ canOpen \in BOOLEAN /\ ok \in BOOLEAN /\ pair \in BOOLEAN
  /\ stage \in {"idle", "submit", "wait", "filled", "partial", "cancel", "chase", "ioc",
             "returned", "over"}
  /\ cur \in Order \cup {None}
  /\ result \in {"none", "hedged", "raised", "rolledBack", "unhedged"}
  /\ resting \in 0..Qty /\ pending \in [Order -> 0..Qty]
  /\ executed \in [Order -> 0..(2 * Qty)] /\ unseen \subseteq Order
  /\ reports \in [Order -> 0..1]

(* The engine never counts more as filled than the exchange executed, also   *)
(* with polls, cancellations and synchronisation at the same order.          *)
FilledIsExecuted == \A o \in Made : order[o].filled <= executed[o]

(* The hedge is only traded against a spot order that was executed.          *)
PerpNeedsSpot == (\E o \in Perps : executed[o] > 0) => executed[Spot] > 0

(* What the orders say, and the order in which the legs trade, agree with   *)
(* the exchange.                                                            *)
LegsConsistent == HedgeTypeOK /\ FilledIsExecuted /\ PerpNeedsSpot

(* The exchange executes at most one hedge the engine saw the answer of, and *)
(* none when the spot order is sold back; a kept pair has both its legs.     *)
(* Not more: recovery goes on after an order whose answer it did not see     *)
(* (executor.py:565-610), and that one may execute too, so that a pair is    *)
(* hedged twice, or hedged and sold back.                                   *)
HedgedOnce ==
  LET hedges == {o \in Perps : executed[o] > 0} \ unseen
  IN  /\ Cardinality(hedges) <= 1
      /\ executed[Rollback] > 0 => hedges = {}
      /\ pair => executed[Spot] > 0 /\ executed[Perp] > 0

(* The rollback never sells more of the spot order than was executed of it.  *)
NeverOversold == executed[Rollback] <= executed[Spot]

(* Every pair that is submitted is answered.                                 *)
PairAnswered == stage = "submit" ~> stage = "over"
===============================================================================
