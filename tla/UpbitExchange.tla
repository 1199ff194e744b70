---------------------------- MODULE UpbitExchange ----------------------------
(***************************************************************************)
(* exchange/upbit.py and the account behind it, as far as the engine's      *)
(* market orders go.  Of a coin the account holds a free part and a part    *)
(* locked in live sell orders; of KRW a free part and what is locked in     *)
(* live buy orders.  Live orders of one symbol and side are added up.       *)
(*                                                                         *)
(* A market order is placed and then polled for three seconds: an order not *)
(* done by then is returned as a success with nothing filled and stays      *)
(* live; an error after the exchange accepted the order is returned as a    *)
(* failure, and the order stays live as well.                               *)
(***************************************************************************)
EXTENDS Naturals

CONSTANTS Symbol,
          Price,      (* KRW of a coin                                      *)
          MinOrder    (* least KRW of an order                              *)

ASSUME ExchangeAssumption == Price \in Nat \ {0} /\ MinOrder \in Nat \ {0}

VARIABLES krw,       (* free KRW                                            *)
          free,      (* free coins of a symbol                              *)
          buying,    (* KRW locked in live buy orders of a symbol           *)
          selling    (* coins locked in live sell orders of a symbol        *)

exchangeVars == <<krw, free, buying, selling>>

(* balance.total                                                            *)
Total(s) == free[s] + selling[s]

Result == [success : BOOLEAN, filled : Nat]
Failed == [success |-> FALSE, filled |-> 0]

(* The order was not seen done: polling ended, or the answer was lost.      *)
Unseen(r) == r \in {[success |-> TRUE, filled |-> 0], Failed}

Refused(r) == r = Failed /\ UNCHANGED exchangeVars

(* A market buy takes the quantity it is given for an amount of KRW.        *)
PlaceMarketBuy(s, amount, r) ==
  \/ Refused(r)
  \/ /\ MinOrder <= amount /\ amount <= krw
     /\ \/ \E f \in 1..(amount \div Price) :
             /\ r = [success |-> TRUE, filled |-> f]
             /\ krw' = krw - f * Price
             /\ free' = [free EXCEPT ![s] = @ + f]
             /\ UNCHANGED <<buying, selling>>
        \/ /\ Unseen(r)
           /\ krw' = krw - amount
           /\ buying' = [buying EXCEPT ![s] = @ + amount]
           /\ UNCHANGED <<free, selling>>

(* Mutation of PlaceMarketSell: locked coins are sold again.                *)
PlaceMarketSellLocked(s, quantity, r) ==
  \/ Refused(r)
  \/ /\ quantity <= Total(s) /\ Unseen(r)
     /\ free' = [free EXCEPT ![s] = @ - quantity]
     /\ selling' = [selling EXCEPT ![s] = @ + quantity]
     /\ UNCHANGED <<krw, buying>>

PlaceMarketSell(s, quantity, r) ==
  \/ Refused(r)
  \/ /\ 0 < quantity /\ quantity <= free[s]
     /\ \/ \E f \in 1..quantity :
             /\ r = [success |-> TRUE, filled |-> f]
             /\ krw' = krw + f * Price
             /\ free' = [free EXCEPT ![s] = @ - f]
             /\ UNCHANGED <<buying, selling>>
        \/ /\ Unseen(r)
           /\ free' = [free EXCEPT ![s] = @ - quantity]
           /\ selling' = [selling EXCEPT ![s] = @ + quantity]
           /\ UNCHANGED <<krw, buying>>

-------------------------------------------------------------------------------
(* What happens to live orders.                                             *)

LateBuy(s) ==
  /\ buying[s] >= Price
  /\ buying' = [buying EXCEPT ![s] = @ - Price]
  /\ free' = [free EXCEPT ![s] = @ + 1]
  /\ UNCHANGED <<krw, selling>>

LateSell(s) ==
  /\ selling[s] > 0
  /\ selling' = [selling EXCEPT ![s] = @ - 1]
  /\ krw' = krw + Price
  /\ UNCHANGED <<free, buying>>

(* What a market order could not fill is canceled.                          *)
LateCancel(s) ==
  /\ buying[s] + selling[s] > 0
  /\ krw' = krw + buying[s]
  /\ free' = [free EXCEPT ![s] = @ + selling[s]]
  /\ buying' = [buying EXCEPT ![s] = 0]
  /\ selling' = [selling EXCEPT ![s] = 0]

LiveOrders(s) == LateBuy(s) \/ LateSell(s) \/ LateCancel(s)

ExchangeTypeOK ==
  /\ krw \in Nat
  /\ free \in [Symbol -> Nat]
  /\ buying \in [Symbol -> Nat]
  /\ selling \in [Symbol -> Nat]
===============================================================================
