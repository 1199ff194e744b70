---------------------------- MODULE TradingEngine ----------------------------
(***************************************************************************)
(* engine/core.py: what entries, exits, FLATTEN and a restart do to the     *)
(* exchange account, to the positions the v3 strategies track and to the    *)
(* ledger.  The loop is one task: its steps follow each other, and orders   *)
(* at the exchange, the time, the user's PAPER mode and a crash come in     *)
(* between.  Which signals and exits the market gives is left open.         *)
(*                                                                         *)
(* Both order handlers build a FillEvent without requested_price, which has *)
(* no default (FillEventRaises): the TypeError is caught at the end of the  *)
(* handler, after the strategy was told and before ledger, events and order *)
(* table are.                                                               *)
(***************************************************************************)
EXTENDS UpbitExchange, FiniteSets, FiniteSetsExt

CONSTANTS Strategies,    (* how many; they are visited in the order 1, 2, ... *)
          MaxPositions,  (* v3_max_positions                                *)
          Sizes,         (* the KRW a signal may be sized at                *)
          StartKrw,
          SavedQty,      (* what the ledger's table may hold of a pair      *)
          MaxCrashes     (* bound: crashes of the process                   *)

ASSUME EngineAssumption ==
  /\ IsFiniteSet(Symbol) /\ Strategies \in Nat
  /\ MaxPositions \in Nat /\ Sizes \subseteq Nat
  /\ StartKrw \in Nat /\ SavedQty \subseteq Nat /\ MaxCrashes \in Nat

Strategy == 1..Strategies
Pair == Strategy \X Symbol

VARIABLES pc,        (* where the loop is                                   *)
          todo,      (* signals, or positions, the pass has still to visit  *)
          total,     (* total_v3_positions of the pass                      *)
          sells,     (* the balances FLATTEN has read and not yet sold      *)
          tracked,   (* coins the strategy believes it holds, 0 for none    *)
          cooling,   (* pairs whose cooldown since the last entry runs      *)
          expired,   (* tracked pairs past their time stop                  *)
          paper,     (* has the user selected PAPER?                        *)
          rows,      (* table positions: the strategies with an open row of a symbol *)
          booked,    (* the ledger's quantity of a pair                     *)
          ledgerRows, (* table position_ledger: the quantity of its OPEN rows *)
          crashes,
          restored,  (* history: positions the last start brought back      *)
          blurred    (* history: symbols whose coins somebody else's order,  *)
                     (* or one not seen filled, may have taken              *)

loopVars == <<pc, todo, total, sells>>
beliefVars == <<tracked, cooling, expired>>
bookVars == <<rows, booked, ledgerRows>>
fixedVars == <<paper, bookVars, crashes, restored>>
vars == <<exchangeVars, loopVars, beliefVars, fixedVars, blurred>>

Tracked == {k \in Pair : tracked[k] > 0}
Shared(k) == \E j \in Tracked : j # k /\ j[2] = k[2]

NoSells == [s \in Symbol |-> 0]

-------------------------------------------------------------------------------
(* Entries.                                                                 *)

ToExits ==
  /\ pc' = "exits"
  /\ todo' = Tracked
  /\ total' = 0
  /\ UNCHANGED sells

(* Not in NORMAL, no overlay permission, or an error reading the account.   *)
SkipStrategies ==
  /\ pc \in {"idle", "ready"}
  /\ ToExits
  /\ UNCHANGED <<exchangeVars, beliefVars, fixedVars, blurred>>

Scannable == {k \in Pair : tracked[k] = 0 /\ k \notin cooling}

ExecuteStrategies ==
  /\ pc \in {"idle", "ready"}
  /\ Cardinality(Tracked) < MaxPositions
  /\ \E signals \in SUBSET Scannable : todo' = signals
  /\ total' = Cardinality(Tracked)
  /\ pc' = "entries"
  /\ UNCHANGED <<sells, exchangeVars, beliefVars, fixedVars, blurred>>

NextSignal(k) ==
  /\ pc = "entries" /\ k \in todo /\ total < MaxPositions
  /\ todo' = todo \ {k}
  /\ total' = total + 1
  /\ UNCHANGED <<pc, sells>>

(* Too small, too little KRW, or PAPER.                                     *)
EntrySkipped(k) ==
  /\ NextSignal(k)
  /\ UNCHANGED <<exchangeVars, beliefVars, fixedVars, blurred>>

(* Mutation of Believed: what was ordered, whatever was filled.             *)
BelievedOrdered(r, quantity) == quantity

(* fill_qty = result.filled_qty or quantity                                 *)
Believed(r, quantity) == IF r.filled > 0 THEN r.filled ELSE quantity

(* The fields of FillEvent without a default, and those the handlers give.  *)
RequiredFields ==
  {"order_id", "exchange_order_id", "position_id", "symbol", "strategy_id", "side",
   "filled_quantity", "fill_price", "fee", "fee_asset", "timestamp", "requested_price"}
GivenFields == RequiredFields \ {"requested_price"}

FillEventRaises == ~(RequiredFields \subseteq GivenFields)

(* on_buy_fill, then the order's record; both write their table.            *)
EntryRecorded(k, quantity) ==
  IF FillEventRaises THEN UNCHANGED bookVars
  ELSE /\ booked' = [booked EXCEPT ![k] = @ + quantity]
       /\ ledgerRows' = [ledgerRows EXCEPT ![k] = @ + quantity]
       /\ rows' = [rows EXCEPT ![k[2]] = @ \cup {k[1]}]

(* The quantity of coins goes to the exchange, which takes it for KRW.      *)
ExecuteSignal(k) ==
  /\ NextSignal(k)
  /\ ~paper
  /\ \E size \in Sizes, r \in [success : BOOLEAN, filled : 0..StartKrw] :
       /\ MinOrder <= size /\ size <= krw
       /\ size \div Price > 0
       /\ PlaceMarketBuy(k[2], size \div Price, r)
       /\ \/ /\ r.success
             /\ tracked' = [tracked EXCEPT ![k] = Believed(r, size \div Price)]
             /\ cooling' = cooling \cup {k}
             /\ blurred' = IF r.filled > 0 THEN blurred ELSE blurred \cup {k[2]}
             /\ EntryRecorded(k, Believed(r, size \div Price))
          \/ /\ ~r.success
             /\ UNCHANGED <<tracked, cooling, blurred, bookVars>>
  /\ UNCHANGED <<expired, paper, crashes, restored>>

StrategiesDone ==
  /\ pc = "entries"
  /\ todo = {} \/ total >= MaxPositions
  /\ ToExits
  /\ UNCHANGED <<exchangeVars, beliefVars, fixedVars, blurred>>

-------------------------------------------------------------------------------
(* Exits.                                                                   *)

NextExit(k) ==
  /\ pc = "exits" /\ k \in todo
  /\ \A j \in todo : k[1] <= j[1]
  /\ UNCHANGED <<total, sells>>

(* No price, no reason to exit, or PAPER.                                   *)
ExitSkipped(k) ==
  /\ NextExit(k)
  /\ todo' = todo \ {k}
  /\ UNCHANGED <<pc, exchangeVars, beliefVars, fixedVars, blurred>>

(* The whole balance of the coin; what is tracked when it shows nothing or  *)
(* could not be read.                                                       *)
SellQuantity(k) == {tracked[k]} \cup ({Total(k[2])} \ {0})

(* on_sell_fill, and the order's record; an exception ends the pass.        *)
ExitRecorded(k, filled) ==
  LET left(n) == IF n > filled THEN n - filled ELSE 0
  IN  IF FillEventRaises
      THEN todo' = {} /\ pc' = "idle" /\ UNCHANGED bookVars
      ELSE /\ booked' = [booked EXCEPT ![k] = left(@)]
           /\ ledgerRows' = [ledgerRows EXCEPT ![k] = left(@)]
           /\ rows' = [rows EXCEPT ![k[2]] = @ \ {k[1]}]
           /\ todo' = todo \ {k} /\ UNCHANGED pc

(* The sale went through: the strategy forgets the position.                *)
ExitSold(k) ==
  /\ NextExit(k)
  /\ ~paper
  /\ \E q \in SellQuantity(k), r \in [success : {TRUE}, filled : 0..StartKrw] :
       /\ PlaceMarketSell(k[2], q, r)
       /\ blurred' = IF Shared(k) /\ q > tracked[k] THEN blurred \cup {k[2]} ELSE blurred
       /\ ExitRecorded(k, r.filled)
  /\ tracked' = [tracked EXCEPT ![k] = 0]
  /\ expired' = expired \ {k}
  /\ UNCHANGED <<cooling, paper, crashes, restored>>

(* Mutation of AfterFailure: the pass gives up.                             *)
AfterFailureGivingUp(k) == todo' = {} /\ UNCHANGED tracked

(* The exit is tried again in the next pass.                                *)
AfterFailure(k) == todo' = todo \ {k} /\ UNCHANGED tracked

ExitFailed(k) ==
  /\ NextExit(k)
  /\ ~paper
  /\ \E q \in SellQuantity(k) : PlaceMarketSell(k[2], q, Failed)
  /\ blurred' = IF selling' = selling THEN blurred ELSE blurred \cup {k[2]}
  /\ AfterFailure(k)
  /\ UNCHANGED <<pc, cooling, expired, fixedVars>>

(* Cooldowns, of half an hour and more, outlast the passes that a sale ended *)
(* early: they end with a pass that visited every position.                 *)
ExitsDone ==
  /\ pc = "exits" /\ todo = {}
  /\ pc' = "idle"
  /\ cooling' \in SUBSET cooling
  /\ UNCHANGED <<todo, total, sells, exchangeVars, tracked, expired, fixedVars, blurred>>

-------------------------------------------------------------------------------
(* FLATTEN, with or without a symbol, in any mode, at the head of a pass.   *)

Flatten ==
  /\ pc = "idle"
  /\ \E chosen \in {Symbol} \cup {{s} : s \in Symbol} :
       sells' = [s \in Symbol |-> IF s \in chosen THEN Total(s) ELSE 0]
  /\ sells' # NoSells
  /\ pc' = "flatten"
  /\ UNCHANGED <<todo, total, exchangeVars, beliefVars, fixedVars, blurred>>

(* The strategies are not told.                                             *)
FlattenOne(s) ==
  /\ pc = "flatten" /\ sells[s] > 0
  /\ \E r \in [success : BOOLEAN, filled : 0..StartKrw] : PlaceMarketSell(s, sells[s], r)
  /\ blurred' = IF free' # free /\ \E k \in Tracked : k[2] = s THEN blurred \cup {s} ELSE blurred
  /\ sells' = [sells EXCEPT ![s] = 0]
  /\ UNCHANGED <<pc, todo, total, beliefVars, fixedVars>>

FlattenDone ==
  /\ pc = "flatten" /\ sells = NoSells
  /\ pc' = "ready"
  /\ UNCHANGED <<todo, total, sells, exchangeVars, beliefVars, fixedVars, blurred>>

-------------------------------------------------------------------------------
(* Crash and restart.                                                       *)

Crash ==
  /\ pc # "down" /\ crashes < MaxCrashes
  /\ crashes' = crashes + 1
  /\ pc' = "down" /\ todo' = {} /\ sells' = NoSells
  /\ tracked' = [k \in Pair |-> 0]
  /\ cooling' = {} /\ expired' = {} /\ paper' = FALSE
  /\ total' = 0 /\ booked' = [k \in Pair |-> 0]
  /\ UNCHANGED <<exchangeVars, rows, ledgerRows, restored, blurred>>

(* The ledger restores its OPEN rows, or on an error nothing.  Then         *)
(* _restore_positions_from_db: every strategy with an open row is given the *)
(* whole balance of the coin; a symbol without a price is skipped, and an   *)
(* error restores nothing.                                                  *)
Restorable == {k \in Pair : k[1] \in rows[k[2]] /\ Total(k[2]) > 0}

Start ==
  /\ pc = "down"
  /\ pc' = "idle"
  /\ booked' \in {ledgerRows, [k \in Pair |-> 0]}
  /\ \E R \in SUBSET Symbol :
       LET back == {k \in Restorable : k[2] \in R}
       IN  /\ tracked' = [k \in Pair |-> IF k \in back THEN Total(k[2]) ELSE 0]
           /\ restored' = Cardinality(back)
  /\ blurred' = {s \in Symbol : selling[s] > 0 \/ Cardinality(rows[s]) > 1}
  /\ UNCHANGED <<todo, total, sells, exchangeVars, cooling, expired, paper, rows,
                 ledgerRows, crashes>>

-------------------------------------------------------------------------------
(* The environment.                                                         *)

TimeStop(k) ==
  /\ k \in Tracked \ expired
  /\ expired' = expired \cup {k}
  /\ UNCHANGED <<exchangeVars, loopVars, tracked, cooling, fixedVars, blurred>>

SetMode ==
  /\ pc # "down"
  /\ paper' = ~paper
  /\ UNCHANGED <<exchangeVars, loopVars, beliefVars, bookVars, crashes, restored, blurred>>

Exchange(s) ==
  /\ LiveOrders(s)
  /\ UNCHANGED <<loopVars, beliefVars, fixedVars, blurred>>

(* Coins and rows are what an earlier process left behind.                  *)
Init ==
  /\ pc = "down" /\ todo = {} /\ total = 0 /\ sells = NoSells
  /\ krw = StartKrw
  /\ free \in [Symbol -> 0..1]
  /\ buying = NoSells /\ selling = NoSells
  /\ tracked = [k \in Pair |-> 0] /\ cooling = {} /\ expired = {}
  /\ paper = FALSE
  /\ rows \in [Symbol -> SUBSET Strategy]
  /\ booked = [k \in Pair |-> 0] /\ ledgerRows \in [Pair -> SavedQty]
  /\ crashes = 0 /\ restored = 0 /\ blurred = {}

Loop ==
  \/ SkipStrategies \/ ExecuteStrategies \/ StrategiesDone
  \/ \E k \in Pair : EntrySkipped(k) \/ ExecuteSignal(k)
                     \/ ExitSkipped(k) \/ ExitSold(k) \/ ExitFailed(k)
  \/ ExitsDone
  \/ Flatten \/ FlattenDone \/ \E s \in Symbol : FlattenOne(s)
  \/ Start

Environment ==
  \/ \E k \in Pair : TimeStop(k)
  \/ \E s \in Symbol : Exchange(s)
  \/ SetMode
  \/ Crash

Next == Loop \/ Environment

(* The loop goes on, live orders are filled or canceled, and of a position  *)
(* past its time stop that is visited again and again with free coins a     *)
(* sale goes through some day.                                              *)
Fairness ==
  /\ WF_vars(Loop)
  /\ \A s \in Symbol : WF_vars(Exchange(s))
  /\ \A k \in Pair : SF_vars(k \in expired /\ ExitSold(k))

Spec == Init /\ [][Next]_vars /\ Fairness

-------------------------------------------------------------------------------
TypeOK ==
  /\ ExchangeTypeOK
  /\ pc \in {"down", "idle", "ready", "entries", "exits", "flatten"}
  /\ todo \in SUBSET Pair
  /\ total \in Nat
  /\ sells \in [Symbol -> Nat]
  /\ tracked \in [Pair -> Nat]
  /\ cooling \in SUBSET Pair /\ expired \in SUBSET Pair
  /\ paper \in BOOLEAN
  /\ rows \in [Symbol -> SUBSET Strategy]
  /\ booked \in [Pair -> Nat] /\ ledgerRows \in [Pair -> Nat]
  /\ crashes \in Nat /\ restored \in Nat
  /\ blurred \in SUBSET Symbol

(* The strategies together never track more than v3_max_positions, unless   *)
(* a restart brought back more: the counter of the pass counts every signal *)
(* it tries.                                                                *)
PositionLimit ==
  Cardinality(Tracked) <= IF restored > MaxPositions THEN restored ELSE MaxPositions

(* The coins of a symbol the strategies believe they hold together.         *)
BelievedIn(s) == MapThenSumSet(LAMBDA k : tracked[k], {k \in Pair : k[2] = s})

(* What the strategies believe they hold of a coin is in the account,       *)
(* unless one of these struck the coin: a buy not seen filled in time, a    *)
(* sale by a strategy that shares it, a sale reported as failed, a FLATTEN, *)
(* a restart in the middle of a sale or with rows of two strategies.        *)
TrackedBacked ==
  \A s \in Symbol \ blurred : BelievedIn(s) <= Total(s)

(* ... and every handler leaves its part of the state well formed.           *)
Backed == TypeOK /\ TrackedBacked

(* A position past its time stop leaves the strategy, if the mode lets it   *)
(* and its coins are there, none of them locked in a live order: no failing *)
(* exit starves another, and none is given up.                              *)
ExitsLeave ==
  \A k \in Pair :
    (k \in expired /\ ~paper)
      ~> (k \notin expired \/ paper \/ free[k[2]] = 0 \/ selling[k[2]] > 0)

(* "Recorded in the PositionLedger": an entry that was placed, succeeded and *)
(* was taken up by its strategy is added to the ledger.                      *)
FilledIsBooked ==
  [][\A k \in Pair : pc = "entries" /\ tracked[k] = 0 /\ tracked'[k] > 0
       => booked'[k] = booked[k] + tracked'[k]]_vars
===============================================================================
