---------------------------- MODULE PositionLedger ----------------------------
(***************************************************************************)
(* portfolio/position_ledger.py: the in-memory ledger of positions.        *)
(* Every operation runs under one asyncio lock and has no await inside, so *)
(* it is one action here.  A quantity is a number of units; Dust units     *)
(* stand for the 0.0001 coins below which a position counts as closed.     *)
(* Prices, fees, profit and the display-only fill history are left out.    *)
(***************************************************************************)
EXTENDS Integers, FiniteSets

CONSTANTS Symbol, Strategy,
          Pid,        (* the ids uuid4 can return, each used once           *)
          NoPid,      (* "position_id=None" in a fill                       *)
          Dust,       (* the closing tolerance, in units                    *)
          MaxHeld,    (* bound: coins of one symbol, held or on one entry   *)
          Oversell    (* may a strategy sell more coins than it bought?     *)

ASSUME LedgerAssumption ==
  /\ NoPid \notin Pid
  /\ Dust \in Nat
  /\ MaxHeld \in Nat
  /\ Oversell \in BOOLEAN

VARIABLES positions,          (* the dict position_id -> entry              *)
          symbolPositions,    (* symbol -> ids of its open positions        *)
          strategyPositions,  (* strategy -> ids of its open positions      *)
          balances            (* the account's coins at the exchange        *)

ledgerVars == <<positions, symbolPositions, strategyPositions>>
vars == <<positions, symbolPositions, strategyPositions, balances>>

Status == {"OPEN", "PARTIAL_CLOSED", "CLOSED"}
Entry == [symbol : Symbol, strategy : Strategy, quantity : Nat, status : Status]

IsOpen(p) == positions[p].status \in {"OPEN", "PARTIAL_CLOSED"}

-------------------------------------------------------------------------------
(* Indices and lookups. A list of ids without duplicates is a set of ids.  *)

AddToIndex(p, s, t) ==
  /\ symbolPositions' = [symbolPositions EXCEPT ![s] = @ \cup {p}]
  /\ strategyPositions' = [strategyPositions EXCEPT ![t] = @ \cup {p}]

(* Mutation: the by-strategy index keeps the closed position.               *)
RemoveFromSymbolIndex(p) ==
  /\ symbolPositions' = [symbolPositions EXCEPT ![positions[p].symbol] = @ \ {p}]
  /\ UNCHANGED strategyPositions

RemoveFromIndex(p) ==
  /\ symbolPositions' = [symbolPositions EXCEPT ![positions[p].symbol] = @ \ {p}]
  /\ strategyPositions' = [strategyPositions EXCEPT ![positions[p].strategy] = @ \ {p}]

(* Mutations of FindOpen: partly sold positions are overlooked ...          *)
FindNeverSold(s, t) ==
  {p \in symbolPositions[s] :
     /\ p \in DOMAIN positions
     /\ positions[p].status = "OPEN"
     /\ positions[p].strategy = t}

(* ... and the whole dict is scanned, closed positions included.            *)
FindEver(s, t) ==
  {p \in DOMAIN positions : positions[p].symbol = s /\ positions[p].strategy = t}

FindOpen(s, t) ==
  {p \in symbolPositions[s] :
     p \in DOMAIN positions /\ IsOpen(p) /\ positions[p].strategy = t}

GetPositionsBySymbol(s) ==
  {p \in symbolPositions[s] : p \in DOMAIN positions /\ IsOpen(p)}

OpenPositions == {p \in DOMAIN positions : IsOpen(p)}

-------------------------------------------------------------------------------
(* What a fill does to the ledger. p is the position it ends up on.        *)

CreateNewPosition(p, s, t, q) ==
  /\ p \in Pid \ DOMAIN positions
  /\ positions' = [x \in DOMAIN positions \cup {p} |->
                     IF x = p
                     THEN [symbol |-> s, strategy |-> t, quantity |-> q, status |-> "OPEN"]
                     ELSE positions[x]]
  /\ AddToIndex(p, s, t)

(* position.quantity = q; position.status = st                              *)
SetEntry(p, q, st) ==
  positions' = [positions EXCEPT ![p] =
                  [symbol |-> positions[p].symbol, strategy |-> positions[p].strategy,
                   quantity |-> q, status |-> st]]

AddToPosition(p, q) ==
  /\ SetEntry(p, positions[p].quantity + q, positions[p].status)
  /\ UNCHANGED <<symbolPositions, strategyPositions>>

(* Mutations of ClosePosition: no tolerance for what is left over ...       *)
CloseOnlyBelowZero(p, q) ==
  \/ /\ positions[p].quantity - q < 0
     /\ SetEntry(p, 0, "CLOSED")
     /\ RemoveFromIndex(p)
  \/ /\ positions[p].quantity - q >= 0
     /\ SetEntry(p, positions[p].quantity - q, "PARTIAL_CLOSED")
     /\ UNCHANGED <<symbolPositions, strategyPositions>>

(* ... what is left over is kept on the closed position ...                 *)
CloseWithoutZeroing(p, q) ==
  \/ /\ positions[p].quantity - q <= Dust
     /\ SetEntry(p, positions[p].quantity - q, "CLOSED")
     /\ RemoveFromIndex(p)
  \/ /\ positions[p].quantity - q > Dust
     /\ SetEntry(p, positions[p].quantity - q, "PARTIAL_CLOSED")
     /\ UNCHANGED <<symbolPositions, strategyPositions>>

ClosePosition(p, q) ==
  \/ /\ positions[p].quantity - q <= Dust
     /\ SetEntry(p, 0, "CLOSED")
     /\ RemoveFromIndex(p)
  \/ /\ positions[p].quantity - q > Dust
     /\ SetEntry(p, positions[p].quantity - q, "PARTIAL_CLOSED")
     /\ UNCHANGED <<symbolPositions, strategyPositions>>

OnBuyFill(id, s, t, q, p) ==
  \/ /\ id \in DOMAIN positions
     /\ p = id
     /\ AddToPosition(p, q)
  \/ /\ id \notin DOMAIN positions
     /\ p \in FindOpen(s, t)
     /\ AddToPosition(p, q)
  \/ /\ id \notin DOMAIN positions
     /\ FindOpen(s, t) = {}
     /\ CreateNewPosition(p, s, t, q)

OnSellFill(id, s, t, q, p) ==
  /\ \/ id \in DOMAIN positions /\ p = id
     \/ id \notin DOMAIN positions /\ p \in FindOpen(s, t)
  /\ ClosePosition(p, q)

(* A sell fill for a pair the ledger does not hold is logged and dropped.  *)
DropSellFill(id, s, t) ==
  /\ id \notin DOMAIN positions
  /\ FindOpen(s, t) = {}
  /\ UNCHANGED ledgerVars

ForceSyncQuantity(s, t, q) ==
  \E p \in FindOpen(s, t) :
    \/ /\ q <= Dust
       /\ SetEntry(p, q, "CLOSED")
       /\ RemoveFromIndex(p)
    \/ /\ q > Dust
       /\ SetEntry(p, q, positions[p].status)
       /\ UNCHANGED <<symbolPositions, strategyPositions>>

-------------------------------------------------------------------------------
(* reconcile_with_exchange changes nothing: it is the set of mismatches it *)
(* returns. Each position is compared with the whole balance of its coin.  *)

Abs(x) == IF x < 0 THEN -x ELSE x

(* The larger of 0.1 % of the quantity and the absolute tolerance.          *)
Tolerance(q) == IF q \div 1000 > Dust THEN q \div 1000 ELSE Dust

(* Mutation of ReconcileWithExchange: dust no position is kept for is       *)
(* reported as an orphan.                                                   *)
ReconcileCountingDust(held) ==
  LET mismatched == {p \in OpenPositions :
                       Abs(positions[p].quantity - held[positions[p].symbol])
                         > Tolerance(positions[p].quantity)}
      booked     == {positions[p].symbol : p \in OpenPositions}
  IN  [positions |-> mismatched, orphans |-> {s \in Symbol : held[s] > 0 /\ s \notin booked}]

ReconcileWithExchange(held) ==
  LET mismatched == {p \in OpenPositions :
                       Abs(positions[p].quantity - held[positions[p].symbol])
                         > Tolerance(positions[p].quantity)}
      booked     == {positions[p].symbol : p \in OpenPositions}
      orphans    == {s \in Symbol : held[s] > Dust /\ s \notin booked}
  IN  [positions |-> mismatched, orphans |-> orphans]

-------------------------------------------------------------------------------
(* The fills that arrive. A fill happened at the exchange first, so the     *)
(* account's coins change with it. The id it carries, if any, is one the    *)
(* ledger returned for this pair and has not closed since.                  *)

KnownIds(s, t) ==
  {p \in OpenPositions : positions[p].symbol = s /\ positions[p].strategy = t}

Sellable(s, t) ==
  {q \in 0..MaxHeld :
     /\ q <= balances[s]
     /\ Oversell \/ (q > 0 => \E p \in FindOpen(s, t) : q <= positions[p].quantity)}

BuyFill(s, t, p) ==
  \E id \in KnownIds(s, t) \cup {NoPid}, q \in 1..MaxHeld :
    /\ balances[s] + q <= MaxHeld
    /\ p \in DOMAIN positions => positions[p].quantity + q <= MaxHeld
    /\ OnBuyFill(id, s, t, q, p)
    /\ balances' = [balances EXCEPT ![s] = @ + q]

SellFill(s, t, p) ==
  \E id \in KnownIds(s, t) \cup {NoPid}, q \in Sellable(s, t) :
    /\ OnSellFill(id, s, t, q, p)
    /\ balances' = [balances EXCEPT ![s] = @ - q]

UnknownSellFill(s, t) ==
  \E q \in Sellable(s, t) :
    /\ DropSellFill(NoPid, s, t)
    /\ balances' = [balances EXCEPT ![s] = @ - q]

ForceSync(s, t) ==
  /\ \E q \in 0..MaxHeld : q <= balances[s] /\ ForceSyncQuantity(s, t, q)
  /\ UNCHANGED balances

Init ==
  /\ positions = [p \in {} |-> NoPid]
  /\ symbolPositions = [s \in Symbol |-> {}]
  /\ strategyPositions = [t \in Strategy |-> {}]
  /\ balances = [s \in Symbol |-> 0]

FillNext ==
  \E s \in Symbol, t \in Strategy :
    \/ \E p \in Pid : BuyFill(s, t, p) \/ SellFill(s, t, p)
    \/ UnknownSellFill(s, t)

Next == FillNext \/ \E s \in Symbol, t \in Strategy : ForceSync(s, t)

(* Updates by confirmed fills only, as the class promises ...               *)
FillSpec == Init /\ [][FillNext]_vars
(* ... and with the reconciler's override.                                  *)
Spec == Init /\ [][Next]_vars

-------------------------------------------------------------------------------
TypeOK ==
  /\ DOMAIN positions \subseteq Pid
  /\ positions \in [DOMAIN positions -> Entry]
  /\ symbolPositions \in [Symbol -> SUBSET Pid]
  /\ strategyPositions \in [Strategy -> SUBSET Pid]
  /\ balances \in [Symbol -> Nat]

(* Both indices list exactly the open positions, each under its own symbol  *)
(* and its own strategy: an open position is never unreachable from the     *)
(* by-symbol and by-strategy queries, a closed one is never found by them.  *)
IndexExact ==
  /\ \A s \in Symbol :
       symbolPositions[s] = {p \in OpenPositions : positions[p].symbol = s}
  /\ \A t \in Strategy :
       strategyPositions[t] = {p \in OpenPositions : positions[p].strategy = t}

(* A symbol and strategy have at most one open position, so that the first  *)
(* match on_buy_fill and on_sell_fill take is the only one.                 *)
OneOpenPerPair ==
  \A p, r \in OpenPositions :
    positions[p].symbol = positions[r].symbol
      /\ positions[p].strategy = positions[r].strategy => p = r

(* A closed position holds nothing but dust and an open one something.      *)
StatusMatchesQuantity ==
  \A p \in DOMAIN positions :
    IF IsOpen(p) THEN positions[p].quantity > 0 ELSE positions[p].quantity <= Dust

(* The three together: no mix of fills, partial sales, closes and overrides *)
(* lets dict, indices and statuses drift apart.                             *)
Consistent == TypeOK /\ IndexExact /\ OneOpenPerPair /\ StatusMatchesQuantity

(* A closed position never changes again: no later fill of the same symbol  *)
(* and strategy reopens it or adds to it.                                   *)
ClosedIsFinal ==
  [][\A p \in DOMAIN positions : ~IsOpen(p) => p \in DOMAIN positions'
                                               /\ positions'[p] = positions[p]]_vars

(* An override to what the account holds ends the mismatch it answers: the  *)
(* position force_sync_quantity sets, or closes, to the whole balance of a  *)
(* coin no other strategy holds is what reconcile_with_exchange then finds, *)
(* neither a mismatch nor an orphan. (Of two strategies in one coin each is *)
(* compared with the whole balance, and one of them never matches.)         *)
OverrideReconciles ==
  [][\A s \in Symbol, t \in Strategy :
       /\ Cardinality(GetPositionsBySymbol(s)) = 1
       /\ ForceSyncQuantity(s, t, balances[s])
       /\ UNCHANGED balances
       => LET found == ReconcileWithExchange(balances)'
          IN  s \notin found.orphans /\ \A p \in found.positions : positions'[p].symbol # s]_vars

-------------------------------------------------------------------------------
(* The ledger implements the book of quantities per pair.                   *)

Holding(s, t) ==
  IF FindOpen(s, t) = {} THEN 0
  ELSE positions[CHOOSE p \in FindOpen(s, t) : TRUE].quantity

Pair == Symbol \X Strategy
BookNow == [k \in Pair |-> Holding(k[1], k[2])]

Book == INSTANCE LedgerBook
          WITH Key <- Pair, Quantity <- 0..MaxHeld, book <- BookNow

(* Through ids, indices and statuses, readers see one quantity per symbol   *)
(* and strategy that moves only as confirmed fills and overrides move it.   *)
ImplementsBook == Book!Spec

(* Without overrides the quantity is what the fills add up to, nothing else  *)
(* ever moves it.                                                           *)
FillsImplementBook == Book!FillSpec
===============================================================================
