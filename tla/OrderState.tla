------------------------------ MODULE OrderState ------------------------------
(***************************************************************************)
(* execution/order_state.py: an order of the execution engine.  A marker    *)
(* that the table of transitions forbids raises; Can... says when it does   *)
(* not, and what the marker had assigned before it raised stays.            *)
(***************************************************************************)
EXTENDS Naturals

OrderStatus == {"NEW", "SENT", "ACK", "PARTIAL", "FILLED", "CANCELED", "REJECTED"}
Terminal == {"FILLED", "CANCELED", "REJECTED"}

(* VALID_TRANSITIONS                                                         *)
ValidTransitions ==
  {<<"NEW", "SENT">>, <<"NEW", "CANCELED">>,
   <<"SENT", "ACK">>, <<"SENT", "REJECTED">>, <<"SENT", "CANCELED">>,
   <<"ACK", "PARTIAL">>, <<"ACK", "FILLED">>, <<"ACK", "CANCELED">>,
   <<"PARTIAL", "PARTIAL">>, <<"PARTIAL", "FILLED">>, <<"PARTIAL", "CANCELED">>}

Created(qty) == [status |-> "NEW", qty |-> qty, filled |-> 0, sent |-> FALSE]

CanBecome(order, status) == <<order.status, status>> \in ValidTransitions

Become(order, status) ==
  IF CanBecome(order, status) THEN [order EXCEPT !.status = status] ELSE order

(* The exchange's order id is kept before the transition is tried.           *)
MarkSent(order) == Become([order EXCEPT !.sent = TRUE], "SENT")

MarkAcked(order) == Become(order, "ACK")

CanBePartial(order) == order.status \in {"ACK", "PARTIAL"}

(* Fills add up; the status does not move when it is PARTIAL already.        *)
MarkPartialFill(order, n) ==
  IF CanBePartial(order) THEN Become([order EXCEPT !.filled = @ + n], "PARTIAL") ELSE order

(* The filled quantity is assigned before the transition is tried.           *)
MarkFilled(order, n) == Become([order EXCEPT !.filled = n], "FILLED")

MarkCanceled(order) == Become(order, "CANCELED")

MarkRejected(order) == Become(order, "REJECTED")
===============================================================================
