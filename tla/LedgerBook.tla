------------------------------ MODULE LedgerBook ------------------------------
(***************************************************************************)
(* What the position ledger promises its readers, whatever ids, indices    *)
(* and statuses it keeps: one quantity for every (symbol, strategy) pair.  *)
(* A confirmed buy adds to it, a confirmed sell takes from it and never    *)
(* below zero, a remainder that is only dust counts as nothing, and a sell *)
(* for a pair that holds nothing changes nothing.                          *)
(***************************************************************************)
EXTENDS Integers

CONSTANTS Key,      (* the (symbol, strategy) pairs                         *)
          Quantity, (* what one fill, or one override, can amount to        *)
          Dust      (* a quantity up to this one is not a holding           *)

VARIABLE book

BookTypeOK == book \in [Key -> Nat]

Settle(q) == IF q <= Dust THEN 0 ELSE q

Init == book = [k \in Key |-> 0]

Bought(k) == \E q \in Quantity \ {0} : book' = [book EXCEPT ![k] = @ + q]

Sold(k) == /\ book[k] > 0
           /\ \E q \in Quantity : book' = [book EXCEPT ![k] = Settle(@ - q)]

(* The reconciler's override: a held quantity is replaced by what the       *)
(* exchange reports; a pair that holds nothing is never given a holding.    *)
Synced(k) == /\ book[k] > 0
             /\ \E q \in Quantity : book' = [book EXCEPT ![k] = Settle(q)]

FillNext == \E k \in Key : Bought(k) \/ Sold(k)

Next == FillNext \/ \E k \in Key : Synced(k)

FillSpec == Init /\ [][FillNext]_book
Spec == Init /\ [][Next]_book
===============================================================================
