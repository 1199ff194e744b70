----------------------------- MODULE LedgerProofs -----------------------------
(***************************************************************************)
(* Proofs about PositionLedger and LedgerPersistence for any symbols,       *)
(* strategies, ids, bounds and number of save tasks.                        *)
(*                                                                          *)
(* The ledger in memory.  Its inductive invariant is LedgerInv.  IndexExact *)
(* is not inductive by itself: that a created position is the only one of   *)
(* its pair needs OneOpenPerPair, which in turn needs the index FindOpen    *)
(* reads to list every open position; both need the types.                  *)
(*                                                                          *)
(* The ledger with its table.  The inductive invariant is PInv.             *)
(* OneOpenPerPair is no part of it: a restart can bring back two open rows  *)
(* of one pair.  What holds after it is that the ledger is indexed          *)
(* (Indexed), that rows are as far as the position or behind it, never      *)
(* ahead (Rows, Carried), and that a position that did not move during a    *)
(* save has that one save, with the row it was read from (Alone, Fresh).    *)
(***************************************************************************)
EXTENDS LedgerPersistence, FiniteSetTheorems, TLAPS

LedgerTypeOK ==
  /\ DOMAIN positions \subseteq Pid
  /\ positions \in [DOMAIN positions -> Entry]
  /\ symbolPositions \in [Symbol -> SUBSET Pid]
  /\ strategyPositions \in [Strategy -> SUBSET Pid]

(* What also survives a restart from the database.                          *)
Indexed == LedgerTypeOK /\ IndexExact

LedgerInv ==
  /\ LedgerTypeOK
  /\ IndexExact
  /\ OneOpenPerPair
  /\ StatusMatchesQuantity

-------------------------------------------------------------------------------
(* What the lookups return when the indices are exact.                      *)

(* FindOpen finds exactly the open positions of the pair.                   *)
LEMMA FindOpenExact ==
  ASSUME LedgerTypeOK, IndexExact, NEW s \in Symbol, NEW t \in Strategy
  PROVE  FindOpen(s, t) = {p \in OpenPositions : positions[p].symbol = s
                                               /\ positions[p].strategy = t}
BY DEF FindOpen, IndexExact, OpenPositions, IsOpen, LedgerTypeOK

(* An entry of the ledger has the fields of an entry.                       *)
LEMMA EntryFields ==
  ASSUME LedgerTypeOK, NEW p \in DOMAIN positions
  PROVE  /\ p \in Pid
         /\ positions[p] \in Entry
         /\ positions[p].symbol \in Symbol
         /\ positions[p].strategy \in Strategy
         /\ positions[p].quantity \in Nat
         /\ positions[p].status \in Status
BY DEF LedgerTypeOK, Entry

-------------------------------------------------------------------------------
(* Each way a fill changes the ledger preserves the invariant.              *)

(* A created position is indexed.                                            *)
LEMMA CreateKeepsIndex ==
  ASSUME Indexed, NEW s \in Symbol, NEW t \in Strategy, NEW p \in Pid,
         NEW q \in Nat \ {0}, CreateNewPosition(p, s, t, q)
  PROVE  /\ Indexed'
         /\ OpenPositions' = OpenPositions \cup {p} /\ p \notin DOMAIN positions
         /\ DOMAIN positions' = DOMAIN positions \cup {p}
         /\ positions'[p] = [symbol |-> s, strategy |-> t, quantity |-> q, status |-> "OPEN"]
         /\ \A x \in DOMAIN positions : positions'[x] = positions[x]
<1> DEFINE e == [symbol |-> s, strategy |-> t, quantity |-> q, status |-> "OPEN"]
<1>1. /\ p \notin DOMAIN positions
      /\ DOMAIN positions' = DOMAIN positions \cup {p}
      /\ positions'[p] = e
      /\ \A x \in DOMAIN positions : positions'[x] = positions[x]
  BY DEF CreateNewPosition
<1>2. e \in Entry
  BY DEF Entry, Status
<1>3. LedgerTypeOK'
  BY <1>1, <1>2 DEF Indexed, LedgerTypeOK, CreateNewPosition, AddToIndex
<1>4. OpenPositions' = OpenPositions \cup {p}
  BY <1>1 DEF OpenPositions, IsOpen
<1>5. IndexExact'
  BY <1>1, <1>4 DEF Indexed, LedgerTypeOK, IndexExact, CreateNewPosition, AddToIndex,
                    OpenPositions
<1>6. QED
  BY <1>1, <1>3, <1>4, <1>5 DEF Indexed

(* A change of quantity that leaves an open position open.                  *)
LEMMA ResizeKeepsIndex ==
  ASSUME Indexed, NEW p \in OpenPositions, NEW q \in Nat,
         NEW st \in {"OPEN", "PARTIAL_CLOSED"},
         SetEntry(p, q, st), UNCHANGED <<symbolPositions, strategyPositions>>
  PROVE  /\ Indexed' /\ OpenPositions' = OpenPositions
         /\ DOMAIN positions' = DOMAIN positions
         /\ \A x \in DOMAIN positions : x # p => positions'[x] = positions[x]
         /\ positions'[p].symbol = positions[p].symbol
         /\ positions'[p].strategy = positions[p].strategy
         /\ positions'[p].quantity = q /\ positions'[p].status = st
<1>1. p \in DOMAIN positions
  BY DEF OpenPositions
<1>2. /\ DOMAIN positions' = DOMAIN positions
      /\ \A x \in DOMAIN positions : x # p => positions'[x] = positions[x]
      /\ positions'[p] = [symbol |-> positions[p].symbol, quantity |-> q,
                          strategy |-> positions[p].strategy, status |-> st]
  BY <1>1 DEF SetEntry, Indexed, LedgerTypeOK
<1>3. /\ positions'[p] \in Entry
      /\ positions'[p].symbol = positions[p].symbol
      /\ positions'[p].strategy = positions[p].strategy
      /\ positions'[p].quantity = q
      /\ positions'[p].status = st
  BY <1>1, <1>2, EntryFields DEF Indexed, Entry, Status
<1>4. LedgerTypeOK'
  BY <1>1, <1>2, <1>3 DEF Indexed, LedgerTypeOK, SetEntry
<1>5. OpenPositions' = OpenPositions
  BY <1>2, <1>3 DEF OpenPositions, IsOpen
<1>6. IndexExact'
  BY <1>2, <1>3, <1>5 DEF Indexed, IndexExact, OpenPositions
<1>7. QED
  BY <1>2, <1>3, <1>4, <1>5, <1>6 DEF Indexed

(* A close takes the position out of both indices.                           *)
LEMMA CloseKeepsIndex ==
  ASSUME Indexed, NEW p \in OpenPositions, NEW q \in Nat,
         SetEntry(p, q, "CLOSED"), RemoveFromIndex(p)
  PROVE  /\ Indexed' /\ OpenPositions' = OpenPositions \ {p}
         /\ DOMAIN positions' = DOMAIN positions
         /\ \A x \in DOMAIN positions : x # p => positions'[x] = positions[x]
         /\ positions'[p].symbol = positions[p].symbol
         /\ positions'[p].strategy = positions[p].strategy
         /\ positions'[p].quantity = q /\ positions'[p].status = "CLOSED"
<1>1. p \in DOMAIN positions
  BY DEF OpenPositions
<1>2. /\ DOMAIN positions' = DOMAIN positions
      /\ \A x \in DOMAIN positions : x # p => positions'[x] = positions[x]
      /\ positions'[p] = [symbol |-> positions[p].symbol, quantity |-> q,
                          strategy |-> positions[p].strategy, status |-> "CLOSED"]
  BY <1>1 DEF SetEntry, Indexed, LedgerTypeOK
<1>3. /\ positions'[p] \in Entry
      /\ positions'[p].symbol = positions[p].symbol
      /\ positions'[p].strategy = positions[p].strategy
      /\ positions'[p].quantity = q
      /\ positions'[p].status = "CLOSED"
  BY <1>1, <1>2, EntryFields DEF Indexed, Entry, Status
<1>4. LedgerTypeOK'
  BY <1>1, <1>2, <1>3, EntryFields
     DEF Indexed, LedgerTypeOK, RemoveFromIndex, SetEntry
<1>5. OpenPositions' = OpenPositions \ {p}
  BY <1>2, <1>3 DEF OpenPositions, IsOpen
<1>6. IndexExact'
  BY <1>1, <1>2, <1>5, EntryFields
     DEF Indexed, LedgerTypeOK, IndexExact, RemoveFromIndex, OpenPositions
<1>7. QED
  BY <1>2, <1>3, <1>4, <1>5, <1>6 DEF Indexed

(* A position created for a pair that has none is alone, too.                *)
LEMMA CreateKeepsInv ==
  ASSUME LedgerInv, NEW s \in Symbol, NEW t \in Strategy, NEW p \in Pid,
         NEW q \in Nat \ {0}, FindOpen(s, t) = {}, CreateNewPosition(p, s, t, q)
  PROVE  LedgerInv'
<1>1. Indexed
  BY DEF LedgerInv, Indexed
<1>2. /\ Indexed'
      /\ OpenPositions' = OpenPositions \cup {p} /\ p \notin DOMAIN positions
      /\ DOMAIN positions' = DOMAIN positions \cup {p}
      /\ positions'[p] = [symbol |-> s, strategy |-> t, quantity |-> q, status |-> "OPEN"]
      /\ \A x \in DOMAIN positions : positions'[x] = positions[x]
  BY <1>1, CreateKeepsIndex
<1>3. OneOpenPerPair'
  <2>1. \A x \in OpenPositions : ~(positions[x].symbol = s /\ positions[x].strategy = t)
    BY FindOpenExact DEF LedgerInv
  <2>2. QED
    BY <2>1, <1>2 DEF LedgerInv, OneOpenPerPair, OpenPositions
<1>4. StatusMatchesQuantity'
  BY <1>2 DEF LedgerInv, StatusMatchesQuantity, IsOpen
<1>5. QED
  BY <1>2, <1>3, <1>4 DEF LedgerInv, Indexed

(* A resize to something keeps open what holds something.                    *)
LEMMA ResizeKeepsInv ==
  ASSUME LedgerInv, NEW p \in OpenPositions, NEW q \in Nat \ {0},
         NEW st \in {"OPEN", "PARTIAL_CLOSED"},
         SetEntry(p, q, st), UNCHANGED <<symbolPositions, strategyPositions>>
  PROVE  LedgerInv'
<1>1. Indexed /\ q \in Nat
  BY DEF LedgerInv, Indexed
<1>2. /\ Indexed' /\ OpenPositions' = OpenPositions
      /\ DOMAIN positions' = DOMAIN positions
      /\ \A x \in DOMAIN positions : x # p => positions'[x] = positions[x]
      /\ positions'[p].symbol = positions[p].symbol
      /\ positions'[p].strategy = positions[p].strategy
      /\ positions'[p].quantity = q /\ positions'[p].status = st
  BY <1>1, ResizeKeepsIndex
<1>3. OneOpenPerPair'
  BY <1>2 DEF LedgerInv, OneOpenPerPair, OpenPositions
<1>4. StatusMatchesQuantity'
  BY <1>2 DEF LedgerInv, StatusMatchesQuantity, IsOpen
<1>5. QED
  BY <1>2, <1>3, <1>4 DEF LedgerInv, Indexed

(* The close of an open position, with at most dust left on it.             *)
LEMMA CloseKeepsInv ==
  ASSUME LedgerInv, NEW p \in OpenPositions, NEW q \in Nat, q <= Dust,
         SetEntry(p, q, "CLOSED"), RemoveFromIndex(p)
  PROVE  LedgerInv'
<1>1. Indexed
  BY DEF LedgerInv, Indexed
<1>2. /\ Indexed' /\ OpenPositions' = OpenPositions \ {p}
      /\ DOMAIN positions' = DOMAIN positions
      /\ \A x \in DOMAIN positions : x # p => positions'[x] = positions[x]
      /\ positions'[p].quantity = q /\ positions'[p].status = "CLOSED"
  BY <1>1, CloseKeepsIndex
<1>3. OneOpenPerPair'
  BY <1>2 DEF LedgerInv, OneOpenPerPair, OpenPositions
<1>4. StatusMatchesQuantity'
  BY <1>2 DEF LedgerInv, StatusMatchesQuantity, IsOpen
<1>5. QED
  BY <1>2, <1>3, <1>4 DEF LedgerInv, Indexed

-------------------------------------------------------------------------------
(* The operations preserve the invariant when no fill names a closed entry. *)

(* on_buy_fill: adding to the open position, or creating the first one.      *)
LEMMA BuyFillKeepsInv ==
  ASSUME LedgerInv, NEW s \in Symbol, NEW t \in Strategy, NEW p \in Pid,
         BuyFill(s, t, p)
  PROVE  LedgerInv'
<1>1. PICK id \in KnownIds(s, t) \cup {NoPid}, q \in 1..MaxHeld : OnBuyFill(id, s, t, q, p)
  BY DEF BuyFill
<1>2. q \in Nat \ {0}
  BY LedgerAssumption
<1>3. CASE p \in OpenPositions /\ AddToPosition(p, q)
  <2>1. /\ positions[p].quantity + q \in Nat \ {0}
        /\ positions[p].status \in {"OPEN", "PARTIAL_CLOSED"}
    BY <1>2, <1>3, EntryFields DEF LedgerInv, OpenPositions, IsOpen
  <2>2. QED
    BY <2>1, <1>3, ResizeKeepsInv DEF AddToPosition
<1>4. CASE FindOpen(s, t) = {} /\ CreateNewPosition(p, s, t, q)
  BY <1>2, <1>4, CreateKeepsInv
<1>5. KnownIds(s, t) \subseteq OpenPositions /\ FindOpen(s, t) \subseteq OpenPositions
  BY DEF KnownIds, FindOpen, OpenPositions
<1>6. NoPid \notin DOMAIN positions
  BY LedgerAssumption DEF LedgerInv, LedgerTypeOK
<1>7. QED
  BY <1>1, <1>3, <1>4, <1>5, <1>6 DEF OnBuyFill

(* on_sell_fill: a partial close is a resize, a full one a close.            *)
LEMMA SellFillKeepsInv ==
  ASSUME LedgerInv, NEW s \in Symbol, NEW t \in Strategy, NEW p \in Pid,
         SellFill(s, t, p)
  PROVE  LedgerInv'
<1>1. PICK id \in KnownIds(s, t) \cup {NoPid}, q \in Sellable(s, t) : OnSellFill(id, s, t, q, p)
  BY DEF SellFill
<1>2. q \in Nat
  BY LedgerAssumption DEF Sellable
<1>3. p \in OpenPositions
  <2>1. NoPid \notin DOMAIN positions
    BY LedgerAssumption DEF LedgerInv, LedgerTypeOK
  <2>2. QED
    BY <1>1, <2>1 DEF OnSellFill, KnownIds, FindOpen, OpenPositions
<1>4. CASE /\ positions[p].quantity - q <= Dust
           /\ SetEntry(p, 0, "CLOSED")
           /\ RemoveFromIndex(p)
  BY <1>3, <1>4, CloseKeepsInv, LedgerAssumption
<1>5. CASE /\ positions[p].quantity - q > Dust
           /\ SetEntry(p, positions[p].quantity - q, "PARTIAL_CLOSED")
           /\ UNCHANGED <<symbolPositions, strategyPositions>>
  <2>1. positions[p].quantity - q \in Nat \ {0}
    BY <1>2, <1>3, <1>5, EntryFields, LedgerAssumption DEF LedgerInv, OpenPositions
  <2>2. QED
    BY <2>1, <1>3, <1>5, ResizeKeepsInv
<1>6. QED
  BY <1>1, <1>4, <1>5 DEF OnSellFill, ClosePosition

(* force_sync_quantity is a resize too, or a close.                          *)
LEMMA ForceSyncKeepsInv ==
  ASSUME LedgerInv, NEW s \in Symbol, NEW t \in Strategy, ForceSync(s, t)
  PROVE  LedgerInv'
<1>1. PICK q \in 0..MaxHeld : ForceSyncQuantity(s, t, q)
  BY DEF ForceSync
<1>2. PICK p \in FindOpen(s, t) :
        \/ q <= Dust /\ SetEntry(p, q, "CLOSED") /\ RemoveFromIndex(p)
        \/ /\ q > Dust
           /\ SetEntry(p, q, positions[p].status)
           /\ UNCHANGED <<symbolPositions, strategyPositions>>
  BY <1>1 DEF ForceSyncQuantity
<1>3. /\ q \in Nat
      /\ p \in OpenPositions
      /\ positions[p].status \in {"OPEN", "PARTIAL_CLOSED"}
  BY LedgerAssumption DEF FindOpen, OpenPositions, IsOpen
<1>4. CASE q <= Dust
  BY <1>2, <1>3, <1>4, CloseKeepsInv, LedgerAssumption
<1>5. CASE q > Dust
  BY <1>2, <1>3, <1>5, ResizeKeepsInv, LedgerAssumption
<1>6. QED
  BY <1>3, <1>4, <1>5, LedgerAssumption

(* So every step preserves the invariant.                                    *)
LEMMA StepKeepsInv ==
  ASSUME LedgerInv, [Next]_vars
  PROVE  LedgerInv'
<1>1. ASSUME NEW s \in Symbol, NEW t \in Strategy, NEW p \in Pid, BuyFill(s, t, p)
      PROVE  LedgerInv'
  BY <1>1, BuyFillKeepsInv
<1>2. ASSUME NEW s \in Symbol, NEW t \in Strategy, NEW p \in Pid, SellFill(s, t, p)
      PROVE  LedgerInv'
  BY <1>2, SellFillKeepsInv
<1>3. ASSUME NEW s \in Symbol, NEW t \in Strategy, ForceSync(s, t)
      PROVE  LedgerInv'
  BY <1>3, ForceSyncKeepsInv
<1>4. ASSUME UNCHANGED ledgerVars
      PROVE  LedgerInv'
  BY <1>4 DEF ledgerVars, LedgerInv, LedgerTypeOK, IndexExact, OneOpenPerPair,
              StatusMatchesQuantity, OpenPositions, IsOpen
<1>5. ASSUME NEW s \in Symbol, NEW t \in Strategy, UnknownSellFill(s, t)
      PROVE  LedgerInv'
  BY <1>4, <1>5 DEF UnknownSellFill, DropSellFill
<1>6. QED
  BY <1>1, <1>2, <1>3, <1>4, <1>5 DEF Next, FillNext, vars, ledgerVars

(* The empty ledger satisfies it.                                            *)
LEMMA InitInv == Init => LedgerInv
BY DEF Init, LedgerInv, LedgerTypeOK, IndexExact, OneOpenPerPair, StatusMatchesQuantity,
       OpenPositions, Entry

(* Every variable keeps its type; quantities and balances never go below 0. *)
THEOREM TypeCorrect == Spec => []TypeOK
<1> DEFINE BalancesOK == balances \in [Symbol -> Nat]
<1>1. LedgerInv /\ [Next]_vars => LedgerInv'
  BY StepKeepsInv
<1>2. Init => BalancesOK
  BY DEF Init
<1>3. BalancesOK /\ [Next]_vars => BalancesOK'
  BY LedgerAssumption
     DEF Next, FillNext, BuyFill, SellFill, UnknownSellFill, ForceSync, Sellable, vars
<1>4. LedgerInv /\ BalancesOK => TypeOK
  BY DEF LedgerInv, LedgerTypeOK, TypeOK
<1>5. QED
  BY InitInv, <1>1, <1>2, <1>3, <1>4, PTL DEF Spec

(* The ledger keeps its indices exact: in every state the by-symbol and     *)
(* by-strategy lists hold the open positions of that symbol or strategy, no *)
(* more and no fewer, after any fills and overrides.                        *)
THEOREM IndexExactAlways == Spec => []IndexExact
<1>1. LedgerInv /\ [Next]_vars => LedgerInv'
  BY StepKeepsInv
<1>2. LedgerInv => IndexExact
  BY DEF LedgerInv
<1>3. QED
  BY InitInv, <1>1, <1>2, PTL DEF Spec

(* No symbol and strategy ever have two open positions, so a fill without a *)
(* position id has one position it can belong to.                           *)
THEOREM OneOpenPerPairAlways == Spec => []OneOpenPerPair
<1>1. LedgerInv /\ [Next]_vars => LedgerInv'
  BY StepKeepsInv
<1>2. LedgerInv => OneOpenPerPair
  BY DEF LedgerInv
<1>3. QED
  BY InitInv, <1>1, <1>2, PTL DEF Spec

(* What is open holds coins and what is closed holds at most dust.          *)
THEOREM StatusMatchesQuantityAlways == Spec => []StatusMatchesQuantity
<1>1. LedgerInv /\ [Next]_vars => LedgerInv'
  BY StepKeepsInv
<1>2. LedgerInv => StatusMatchesQuantity
  BY DEF LedgerInv
<1>3. QED
  BY InitInv, <1>1, <1>2, PTL DEF Spec

(* Entries, indices and statuses never drift apart.                          *)
THEOREM ConsistentAlways == Spec => []Consistent
<1>1. TypeOK /\ IndexExact /\ OneOpenPerPair /\ StatusMatchesQuantity => Consistent
  BY DEF Consistent
<1>2. QED
  BY <1>1, TypeCorrect, IndexExactAlways, OneOpenPerPairAlways,
     StatusMatchesQuantityAlways, PTL

(* A closed position is never reopened, added to or sold from again.        *)
THEOREM ClosedIsFinalAlways == Spec => ClosedIsFinal
<1> DEFINE Final == \A p \in DOMAIN positions :
                      ~IsOpen(p) => p \in DOMAIN positions' /\ positions'[p] = positions[p]
<1>1. LedgerInv /\ [Next]_vars => LedgerInv'
  BY StepKeepsInv
<1>2. ASSUME LedgerInv, [Next]_vars PROVE [Final]_vars
  <2>1. ASSUME NEW s \in Symbol, NEW t \in Strategy, NEW p \in Pid, BuyFill(s, t, p)
        PROVE  Final
    <3>1. CASE p \in OpenPositions /\ \E q \in 1..MaxHeld : AddToPosition(p, q)
      BY <3>1 DEF AddToPosition, SetEntry, OpenPositions
    <3>2. CASE \E q \in 1..MaxHeld : CreateNewPosition(p, s, t, q)
      BY <3>2 DEF CreateNewPosition
    <3>3. QED
      BY <2>1, <3>1, <3>2, LedgerAssumption, <1>2
         DEF BuyFill, OnBuyFill, KnownIds, FindOpen, OpenPositions, LedgerInv, LedgerTypeOK
  <2>2. ASSUME NEW s \in Symbol, NEW t \in Strategy, NEW p \in Pid, SellFill(s, t, p)
        PROVE  Final
    BY <2>2, LedgerAssumption, <1>2
       DEF SellFill, OnSellFill, ClosePosition, SetEntry, KnownIds, FindOpen, OpenPositions,
           IsOpen, LedgerInv, LedgerTypeOK
  <2>3. ASSUME NEW s \in Symbol, NEW t \in Strategy, ForceSync(s, t)
        PROVE  Final
    BY <2>3 DEF ForceSync, ForceSyncQuantity, SetEntry, FindOpen, IsOpen
  <2>4. ASSUME NEW s \in Symbol, NEW t \in Strategy, UnknownSellFill(s, t)
        PROVE  Final
    BY <2>4 DEF UnknownSellFill, DropSellFill, ledgerVars
  <2>5. QED
    BY <1>2, <2>1, <2>2, <2>3, <2>4 DEF Next, FillNext
<1>3. QED
  BY InitInv, <1>1, <1>2, PTL DEF Spec, ClosedIsFinal

-------------------------------------------------------------------------------
(* An override ends the mismatch it answers.                                *)

(* The ledger never holds more than finitely many positions.                 *)
LEMMA FewPositions ==
  ASSUME IsFiniteSet(DOMAIN positions), LedgerInv, [Next]_vars
  PROVE  IsFiniteSet(DOMAIN positions)'
<1>1. CASE UNCHANGED positions
  BY <1>1
<1>2. CASE \E p \in DOMAIN positions : \E q, st : SetEntry(p, q, st)
  BY <1>2 DEF SetEntry
<1>3. CASE \E s \in Symbol, t \in Strategy : \E p, q : CreateNewPosition(p, s, t, q)
  <2>1. PICK s \in Symbol, t \in Strategy : \E p, q : CreateNewPosition(p, s, t, q)
    BY <1>3
  <2>2. PICK p : DOMAIN positions' = DOMAIN positions \cup {p}
    BY <2>1 DEF CreateNewPosition
  <2>3. QED  BY <2>2, FS_AddElement
<1>4. ASSUME NEW s \in Symbol, NEW t \in Strategy, NEW p \in Pid, BuyFill(s, t, p)
      PROVE  \/ \E x \in DOMAIN positions : \E y, st : SetEntry(x, y, st)
             \/ \E u \in Symbol, v \in Strategy : \E x, y : CreateNewPosition(x, u, v, y)
  BY <1>4 DEF BuyFill, OnBuyFill, AddToPosition, FindOpen
<1>5. ASSUME NEW s \in Symbol, NEW t \in Strategy, NEW p \in Pid, SellFill(s, t, p)
      PROVE  \E x \in DOMAIN positions : \E y, st : SetEntry(x, y, st)
  BY <1>5 DEF SellFill, OnSellFill, ClosePosition, FindOpen
<1>6. ASSUME NEW s \in Symbol, NEW t \in Strategy, UnknownSellFill(s, t)
      PROVE  UNCHANGED positions
  BY <1>6 DEF UnknownSellFill, DropSellFill, ledgerVars
<1>7. ASSUME NEW s \in Symbol, NEW t \in Strategy, ForceSync(s, t)
      PROVE  \E x \in DOMAIN positions : \E y, st : SetEntry(x, y, st)
  BY <1>7 DEF ForceSync, ForceSyncQuantity, FindOpen
<1>8. QED
  BY <1>1, <1>2, <1>3, <1>4, <1>5, <1>6, <1>7 DEF Next, FillNext, vars

(* What is reported of a coin with one open position that was just set to    *)
(* what the account holds: nothing.                                          *)
LEMMA OverrideIsFound ==
  ASSUME LedgerInv, LedgerInv', IsFiniteSet(DOMAIN positions), balances \in [Symbol -> Nat],
         NEW s \in Symbol, NEW t \in Strategy,
         Cardinality(GetPositionsBySymbol(s)) = 1,
         ForceSyncQuantity(s, t, balances[s]), UNCHANGED balances
  PROVE  LET found == ReconcileWithExchange(balances)'
         IN  s \notin found.orphans /\ \A p \in found.positions : positions'[p].symbol # s
<1>1. PICK p \in FindOpen(s, t) :
        \/ balances[s] <= Dust /\ SetEntry(p, balances[s], "CLOSED")
        \/ balances[s] > Dust /\ SetEntry(p, balances[s], positions[p].status)
  BY DEF ForceSyncQuantity
<1>2. /\ p \in DOMAIN positions /\ IsOpen(p) /\ p \in GetPositionsBySymbol(s)
      /\ positions[p].symbol = s
  BY FindOpenExact DEF FindOpen, GetPositionsBySymbol, LedgerInv
<1>3. GetPositionsBySymbol(s) = {p}
  <2>1. IsFiniteSet(GetPositionsBySymbol(s))
    BY FS_Subset, GetPositionsBySymbol(s) \subseteq DOMAIN positions DEF GetPositionsBySymbol
  <2>2. PICK x : GetPositionsBySymbol(s) = {x}  BY <2>1, FS_Singleton
  <2>3. QED  BY <1>2, <2>2
<1>4. \A x \in OpenPositions : positions[x].symbol = s => x = p
  BY <1>3 DEF GetPositionsBySymbol, LedgerInv, IndexExact, OpenPositions
<1>5. /\ DOMAIN positions' = DOMAIN positions
      /\ \A x \in DOMAIN positions : x # p => positions'[x] = positions[x]
      /\ positions'[p].symbol = s /\ positions'[p].quantity = balances[s]
      /\ positions'[p].status = IF balances[s] <= Dust THEN "CLOSED" ELSE positions[p].status
  BY <1>1, <1>2, LedgerAssumption DEF SetEntry, LedgerInv, LedgerTypeOK
<1>6. \A x \in OpenPositions' : positions'[x].symbol = s => x = p
  BY <1>4, <1>5 DEF OpenPositions, IsOpen
<1>7. balances[s] \in Nat /\ Dust \in Nat  BY LedgerAssumption
<1> DEFINE found == ReconcileWithExchange(balances)'
<1>8. found.orphans = {u \in Symbol : balances'[u] > Dust
                                      /\ u \notin {positions'[x].symbol : x \in OpenPositions'}}
  BY DEF ReconcileWithExchange
<1>9. found.positions = {x \in OpenPositions' :
                           Abs(positions'[x].quantity - balances'[positions'[x].symbol])
                             > Tolerance(positions'[x].quantity)}
  BY DEF ReconcileWithExchange
<1>10. s \notin found.orphans
  <2>1. CASE balances[s] <= Dust
    BY <1>7, <1>8, <2>1
  <2>2. CASE balances[s] > Dust
    <3>1. p \in OpenPositions'
      BY <1>2, <1>5, <1>7, <2>2 DEF OpenPositions, IsOpen
    <3>2. QED  BY <1>5, <1>8, <3>1
  <2>3. QED  BY <1>7, <2>1, <2>2
<1>11. ASSUME NEW x \in found.positions, positions'[x].symbol = s PROVE FALSE
  <2>1. x = p  BY <1>6, <1>9, <1>11
  <2>2. Abs(balances[s] - balances[s]) > Tolerance(balances[s])
    BY <1>5, <1>9, <1>11, <2>1
  <2>3. QED
    BY <1>7, <2>2 DEF Abs, Tolerance
<1>12. QED  BY <1>10, <1>11

(* OverrideReconciles (PositionLedger): force_sync_quantity to what the      *)
(* account holds ends the mismatch of a coin one strategy holds, whatever    *)
(* the quantities and the tolerance.                                         *)
THEOREM OverrideReconcilesAlways == Spec => OverrideReconciles
<1> DEFINE Few == IsFiniteSet(DOMAIN positions)
           Found == \A s \in Symbol, t \in Strategy :
                      /\ Cardinality(GetPositionsBySymbol(s)) = 1
                      /\ ForceSyncQuantity(s, t, balances[s])
                      /\ UNCHANGED balances
                      => LET found == ReconcileWithExchange(balances)'
                         IN  s \notin found.orphans /\ \A p \in found.positions : positions'[p].symbol # s
<1>1. LedgerInv /\ [Next]_vars => LedgerInv'
  BY StepKeepsInv
<1>2. Init => Few
  BY FS_EmptySet DEF Init
<1>3. Few /\ LedgerInv /\ [Next]_vars => Few'
  BY FewPositions
<1>4. TypeOK => balances \in [Symbol -> Nat]
  BY DEF TypeOK
<1>5. TypeOK /\ Few /\ LedgerInv /\ LedgerInv' => Found
  BY <1>4, OverrideIsFound
<1> HIDE DEF Few, Found
<1>6. TypeOK /\ Few /\ LedgerInv /\ LedgerInv' => [Found]_vars
  BY <1>5
<1>7. Spec => [][Found]_vars
  BY InitInv, TypeCorrect, <1>1, <1>2, <1>3, <1>6, PTL DEF Spec
<1>8. QED  BY <1>7, PTL DEF Found, OverrideReconciles

-------------------------------------------------------------------------------
(* The ledger implements LedgerBook.                                        *)

(* The holding of a pair is the quantity of its one open position.          *)
LEMMA HoldingOfOpen ==
  ASSUME LedgerInv, NEW p \in OpenPositions
  PROVE  Holding(positions[p].symbol, positions[p].strategy) = positions[p].quantity
<1>1. positions[p].symbol \in Symbol /\ positions[p].strategy \in Strategy
  BY EntryFields DEF LedgerInv, OpenPositions
<1>2. FindOpen(positions[p].symbol, positions[p].strategy) = {p}
  BY <1>1, FindOpenExact DEF LedgerInv, OneOpenPerPair
<1>3. QED
  BY <1>2 DEF Holding

(* A pair without an open position holds nothing.                            *)
LEMMA HoldingOfNone ==
  ASSUME LedgerInv, NEW s \in Symbol, NEW t \in Strategy,
         ~ \E p \in OpenPositions : positions[p].symbol = s /\ positions[p].strategy = t
  PROVE  Holding(s, t) = 0
BY FindOpenExact DEF LedgerInv, Holding

(* Either way a holding is a natural number.                                 *)
LEMMA HoldingIsNat ==
  ASSUME LedgerInv, NEW s \in Symbol, NEW t \in Strategy
  PROVE  Holding(s, t) \in Nat
<1>1. CASE \E p \in OpenPositions : positions[p].symbol = s /\ positions[p].strategy = t
  BY <1>1, HoldingOfOpen, EntryFields DEF LedgerInv, OpenPositions
<1>2. QED
  BY <1>1, HoldingOfNone

(* The same two facts as one formula, for the next state too.               *)
HoldingFacts ==
  LedgerInv =>
    /\ \A p \in OpenPositions :
         Holding(positions[p].symbol, positions[p].strategy) = positions[p].quantity
    /\ \A s \in Symbol, t \in Strategy :
         ~(\E p \in OpenPositions : positions[p].symbol = s /\ positions[p].strategy = t)
           => Holding(s, t) = 0

(* They hold in the state before a step and in the one after it.             *)
LEMMA HoldingNowAndNext == HoldingFacts /\ HoldingFacts'
<1>1. HoldingFacts
  BY HoldingOfOpen, HoldingOfNone DEF HoldingFacts
<1>2. QED
  BY <1>1, PTL

(* A step that touches one entry touches the holding of its pair only.      *)
LEMMA OneEntryOnePair ==
  ASSUME LedgerInv, LedgerInv', NEW s \in Symbol, NEW t \in Strategy, NEW p \in DOMAIN positions',
         positions'[p].symbol = s, positions'[p].strategy = t,
         DOMAIN positions' = DOMAIN positions \cup {p},
         \A x \in DOMAIN positions \ {p} : positions'[x] = positions[x],
         p \in DOMAIN positions => positions[p].symbol = s /\ positions[p].strategy = t
  PROVE  BookNow' = [BookNow EXCEPT ![<<s, t>>] = Holding(s, t)']
<1>1. ASSUME NEW u \in Symbol, NEW v \in Strategy, <<u, v>> # <<s, t>>
      PROVE  Holding(u, v)' = Holding(u, v)
  <2>1. {x \in OpenPositions : positions[x].symbol = u /\ positions[x].strategy = v}'
          = {x \in OpenPositions : positions[x].symbol = u /\ positions[x].strategy = v}
    BY <1>1 DEF OpenPositions, IsOpen
  <2>2. CASE \E x \in OpenPositions : positions[x].symbol = u /\ positions[x].strategy = v
    <3>1. PICK x \in OpenPositions : positions[x].symbol = u /\ positions[x].strategy = v
      BY <2>2
    <3>2. x \in OpenPositions' /\ x # p
      BY <3>1, <2>1, <1>1 DEF OpenPositions
    <3>3. positions'[x] = positions[x]
      BY <3>1, <3>2 DEF OpenPositions
    <3>4. Holding(u, v) = positions[x].quantity
      BY <3>1, HoldingNowAndNext DEF HoldingFacts
    <3>5. Holding(u, v)' = positions'[x].quantity
      BY <3>1, <3>2, <3>3, HoldingNowAndNext DEF HoldingFacts
    <3>6. QED
      BY <3>3, <3>4, <3>5
  <2>3. CASE ~ \E x \in OpenPositions : positions[x].symbol = u /\ positions[x].strategy = v
    BY <2>1, <2>3, HoldingNowAndNext DEF HoldingFacts
  <2>4. QED
    BY <2>2, <2>3
<1>2. \A k \in Pair : k = <<k[1], k[2]>> /\ k[1] \in Symbol /\ k[2] \in Strategy
  BY DEF Pair
<1>3. \A k \in Pair : k # <<s, t>> => BookNow'[k] = BookNow[k]
  BY <1>1, <1>2 DEF BookNow
<1>4. <<s, t>> \in Pair
  BY DEF Pair
<1>5. BookNow'[<<s, t>>] = Holding(s, t)'
  BY <1>4 DEF BookNow, Pair
<1>6. /\ BookNow = [k \in Pair |-> BookNow[k]]
      /\ BookNow' = [k \in Pair |-> BookNow'[k]]
  BY DEF BookNow, Pair
<1>7. QED
  BY <1>3, <1>4, <1>5, <1>6

(* Rewriting the open entry of a pair rewrites the holding of the pair.     *)
LEMMA EntryBecomesHolding ==
  ASSUME LedgerInv, LedgerInv', NEW p \in OpenPositions, NEW r \in Nat, NEW st \in Status,
         NEW s \in Symbol, NEW t \in Strategy,
         positions[p].symbol = s, positions[p].strategy = t,
         SetEntry(p, r, st), r = 0 <=> st = "CLOSED"
  PROVE  BookNow' = [BookNow EXCEPT ![<<s, t>>] = r]
<1>1. /\ DOMAIN positions' = DOMAIN positions
      /\ \A x \in DOMAIN positions \ {p} : positions'[x] = positions[x]
      /\ p \in DOMAIN positions
      /\ positions'[p] = [symbol |-> s, strategy |-> t, quantity |-> r, status |-> st]
  BY DEF SetEntry, LedgerInv, LedgerTypeOK, OpenPositions
<1>2. Holding(s, t)' = r
  <2>1. CASE st = "CLOSED"
    <3>1. \A x \in OpenPositions' : x \in OpenPositions /\ x # p /\ positions'[x] = positions[x]
      BY <1>1, <2>1 DEF OpenPositions, IsOpen
    <3>2. ~(\E x \in OpenPositions : positions[x].symbol = s /\ positions[x].strategy = t
                                     /\ x # p)
      BY DEF LedgerInv, OneOpenPerPair
    <3>3. ~(\E x \in OpenPositions' : positions'[x].symbol = s /\ positions'[x].strategy = t)
      BY <3>1, <3>2
    <3>4. Holding(s, t)' = 0
      BY <3>3, HoldingNowAndNext DEF HoldingFacts
    <3>5. QED
      BY <2>1, <3>4
  <2>2. CASE st # "CLOSED"
    <3>1. p \in OpenPositions'
      BY <1>1, <2>2 DEF OpenPositions, IsOpen, Status
    <3>2. QED
      BY <1>1, <3>1, HoldingNowAndNext DEF HoldingFacts
  <2>3. QED
    BY <2>1, <2>2
<1>3. QED
  BY <1>1, <1>2, OneEntryOnePair

(* A buy fill adds its quantity to the holding of its pair.                  *)
LEMMA BuyFillIsBought ==
  ASSUME LedgerInv, LedgerInv',
         NEW s \in Symbol, NEW t \in Strategy, NEW p \in Pid, BuyFill(s, t, p)
  PROVE  \E q \in (0..MaxHeld) \ {0} :
           BookNow' = [BookNow EXCEPT ![<<s, t>>] = BookNow[<<s, t>>] + q]
<1>1. PICK id \in KnownIds(s, t) \cup {NoPid}, q \in 1..MaxHeld : OnBuyFill(id, s, t, q, p)
  BY DEF BuyFill
<1>2. q \in (0..MaxHeld) \ {0}
  BY LedgerAssumption
<1>3. BookNow[<<s, t>>] = Holding(s, t)
  BY DEF BookNow, Pair
<1>4. CASE /\ p \in OpenPositions
           /\ positions[p].symbol = s
           /\ positions[p].strategy = t
           /\ AddToPosition(p, q)
  <2>1. /\ DOMAIN positions' = DOMAIN positions
        /\ \A x \in DOMAIN positions \ {p} : positions'[x] = positions[x]
        /\ p \in DOMAIN positions
        /\ positions'[p] = [symbol |-> s, strategy |-> t, quantity |-> positions[p].quantity + q,
                            status |-> positions[p].status]
    BY <1>4 DEF AddToPosition, SetEntry, LedgerInv, LedgerTypeOK, OpenPositions
  <2>2. p \in OpenPositions'
    BY <1>4, <2>1 DEF OpenPositions, IsOpen
  <2>3. Holding(s, t)' = Holding(s, t) + q
    BY <1>4, <2>1, <2>2, HoldingNowAndNext DEF HoldingFacts
  <2>4. QED
    BY <1>2, <1>3, <1>4, <2>1, <2>3, OneEntryOnePair
<1>5. CASE FindOpen(s, t) = {} /\ CreateNewPosition(p, s, t, q)
  <2>1. /\ DOMAIN positions' = DOMAIN positions \cup {p}
        /\ p \notin DOMAIN positions
        /\ \A x \in DOMAIN positions \ {p} : positions'[x] = positions[x]
        /\ positions'[p] = [symbol |-> s, strategy |-> t, quantity |-> q, status |-> "OPEN"]
    BY <1>5 DEF CreateNewPosition
  <2>2. p \in OpenPositions'
    BY <2>1 DEF OpenPositions, IsOpen
  <2>3. Holding(s, t) = 0
    BY <1>5 DEF Holding
  <2>4. Holding(s, t)' = q
    BY <2>1, <2>2, HoldingNowAndNext DEF HoldingFacts
  <2>5. QED
    BY <1>2, <1>3, <2>1, <2>3, <2>4, OneEntryOnePair
<1>6. NoPid \notin DOMAIN positions
  BY LedgerAssumption DEF LedgerInv, LedgerTypeOK
<1>7. QED
  BY <1>1, <1>4, <1>5, <1>6, FindOpenExact
     DEF OnBuyFill, KnownIds, OpenPositions, LedgerInv

(* A sell fill takes from a holding, leaving dust as nothing.                *)
LEMMA SellFillIsSold ==
  ASSUME LedgerInv, LedgerInv',
         NEW s \in Symbol, NEW t \in Strategy, NEW p \in Pid, SellFill(s, t, p)
  PROVE  /\ BookNow[<<s, t>>] > 0
         /\ \E q \in 0..MaxHeld :
              BookNow' = [BookNow EXCEPT ![<<s, t>>] = Book!Settle(BookNow[<<s, t>>] - q)]
<1>1. PICK id \in KnownIds(s, t) \cup {NoPid}, q \in Sellable(s, t) : OnSellFill(id, s, t, q, p)
  BY DEF SellFill
<1>2. q \in 0..MaxHeld
  BY DEF Sellable
<1>3. /\ p \in OpenPositions
      /\ positions[p].symbol = s
      /\ positions[p].strategy = t
      /\ ClosePosition(p, q)
  <2>1. NoPid \notin DOMAIN positions
    BY LedgerAssumption DEF LedgerInv, LedgerTypeOK
  <2>2. QED
    BY <1>1, <2>1, FindOpenExact DEF OnSellFill, KnownIds, OpenPositions, LedgerInv
<1>4. BookNow[<<s, t>>] = positions[p].quantity
  BY <1>3, HoldingNowAndNext DEF BookNow, Pair, HoldingFacts
<1>5. positions[p].quantity > 0
  BY <1>3 DEF LedgerInv, StatusMatchesQuantity, OpenPositions
<1>6. \E r \in Nat, st \in Status :
        /\ SetEntry(p, r, st)
        /\ r = Book!Settle(positions[p].quantity - q)
        /\ r = 0 <=> st = "CLOSED"
  BY <1>2, <1>3, EntryFields, LedgerAssumption
     DEF ClosePosition, Book!Settle, Status, LedgerInv, OpenPositions
<1>7. PICK r \in Nat, st \in Status :
        /\ SetEntry(p, r, st)
        /\ r = Book!Settle(positions[p].quantity - q)
        /\ r = 0 <=> st = "CLOSED"
  BY <1>6
<1>8. QED
  BY <1>2, <1>3, <1>4, <1>5, <1>7, EntryBecomesHolding

(* An override replaces a holding, leaving dust as nothing.                  *)
LEMMA ForceSyncIsSynced ==
  ASSUME LedgerInv, LedgerInv', NEW s \in Symbol, NEW t \in Strategy, ForceSync(s, t)
  PROVE  /\ BookNow[<<s, t>>] > 0
         /\ \E q \in 0..MaxHeld : BookNow' = [BookNow EXCEPT ![<<s, t>>] = Book!Settle(q)]
<1>1. PICK q \in 0..MaxHeld : ForceSyncQuantity(s, t, q)
  BY DEF ForceSync
<1>2. PICK p \in FindOpen(s, t) :
        \/ q <= Dust /\ SetEntry(p, q, "CLOSED")
        \/ q > Dust /\ SetEntry(p, q, positions[p].status)
  BY <1>1 DEF ForceSyncQuantity
<1>3. /\ p \in OpenPositions
      /\ positions[p].symbol = s
      /\ positions[p].strategy = t
      /\ q \in Nat
  BY FindOpenExact, LedgerAssumption DEF LedgerInv
<1>4. BookNow[<<s, t>>] > 0
  BY <1>3, HoldingNowAndNext
     DEF BookNow, Pair, HoldingFacts, LedgerInv, StatusMatchesQuantity, OpenPositions
<1>5. CASE q <= Dust /\ SetEntry(p, q, "CLOSED")
  <2>1. /\ DOMAIN positions' = DOMAIN positions
        /\ \A x \in DOMAIN positions \ {p} : positions'[x] = positions[x]
        /\ p \in DOMAIN positions
        /\ positions'[p] = [symbol |-> s, strategy |-> t, quantity |-> q, status |-> "CLOSED"]
    BY <1>3, <1>5 DEF SetEntry, LedgerInv, LedgerTypeOK, OpenPositions
  <2>2. ~(\E x \in OpenPositions' : positions'[x].symbol = s /\ positions'[x].strategy = t)
    <3>1. \A x \in OpenPositions' : x \in OpenPositions /\ x # p /\ positions'[x] = positions[x]
      BY <2>1 DEF OpenPositions, IsOpen
    <3>2. QED
      BY <1>3, <3>1 DEF LedgerInv, OneOpenPerPair
  <2>3. Holding(s, t)' = 0
    BY <2>2, HoldingNowAndNext DEF HoldingFacts
  <2>4. BookNow' = [BookNow EXCEPT ![<<s, t>>] = 0]
    BY <1>3, <2>1, <2>3, OneEntryOnePair
  <2>5. Book!Settle(q) = 0
    BY <1>5 DEF Book!Settle
  <2>6. QED
    BY <1>4, <2>4, <2>5
<1>6. CASE q > Dust /\ SetEntry(p, q, positions[p].status)
  <2>1. positions[p].status \in Status \ {"CLOSED"} /\ q # 0
    BY <1>3, <1>6, LedgerAssumption DEF OpenPositions, IsOpen, Status
  <2>2. BookNow' = [BookNow EXCEPT ![<<s, t>>] = q]
    BY <1>3, <1>6, <2>1, EntryBecomesHolding
  <2>3. Book!Settle(q) = q
    BY <1>3, <1>6, LedgerAssumption DEF Book!Settle
  <2>4. QED
    BY <1>4, <2>2, <2>3
<1>7. QED
  BY <1>2, <1>5, <1>6

(* Readers of the ledger see one quantity per symbol and strategy, which    *)
(* moves only as a fill or an override moves it: the ledger implements the  *)
(* book, with the quantity of the open position of a pair as its holding.   *)
THEOREM LedgerImplementsBook == Spec => ImplementsBook
<1>1. Init => Book!Init
  <2>1. Init => BookNow = [k \in Pair |-> 0]
    BY DEF Init, BookNow, Pair, Holding, FindOpen
  <2>2. QED
    BY <2>1 DEF Book!Init
<1>2. LedgerInv /\ [Next]_vars => LedgerInv'
  BY StepKeepsInv
<1>3. ASSUME LedgerInv, LedgerInv', [Next]_vars
      PROVE  [Book!Next]_BookNow
  <2>1. ASSUME NEW s \in Symbol, NEW t \in Strategy, NEW p \in Pid, BuyFill(s, t, p)
        PROVE  \E k \in Pair : Book!Bought(k)
    <3>1. <<s, t>> \in Pair  BY DEF Pair
    <3>2. \E q \in (0..MaxHeld) \ {0} :
            BookNow' = [BookNow EXCEPT ![<<s, t>>] = BookNow[<<s, t>>] + q]
      BY <1>3, <2>1, BuyFillIsBought
    <3>3. Book!Bought(<<s, t>>)  BY <3>2 DEF Book!Bought
    <3>4. QED  BY <3>1, <3>3
  <2>2. ASSUME NEW s \in Symbol, NEW t \in Strategy, NEW p \in Pid, SellFill(s, t, p)
        PROVE  \E k \in Pair : Book!Sold(k)
    <3>1. <<s, t>> \in Pair  BY DEF Pair
    <3>2. /\ BookNow[<<s, t>>] > 0
          /\ \E q \in 0..MaxHeld :
               BookNow' = [BookNow EXCEPT ![<<s, t>>] = Book!Settle(BookNow[<<s, t>>] - q)]
      BY <1>3, <2>2, SellFillIsSold
    <3>3. Book!Sold(<<s, t>>)  BY <3>2 DEF Book!Sold
    <3>4. QED  BY <3>1, <3>3
  <2>3. ASSUME NEW s \in Symbol, NEW t \in Strategy, ForceSync(s, t)
        PROVE  \E k \in Pair : Book!Synced(k)
    BY <1>3, <2>3, ForceSyncIsSynced DEF Book!Synced, Pair
  <2>4. ASSUME UNCHANGED ledgerVars
        PROVE  UNCHANGED BookNow
    BY <2>4 DEF ledgerVars, BookNow, Holding, FindOpen, IsOpen
  <2>5. ASSUME NEW s \in Symbol, NEW t \in Strategy, UnknownSellFill(s, t)
        PROVE  UNCHANGED BookNow
    BY <2>4, <2>5 DEF UnknownSellFill, DropSellFill
  <2>6. QED
    BY <1>3, <2>1, <2>2, <2>3, <2>4, <2>5
       DEF Next, FillNext, Book!Next, Book!FillNext, Pair, vars, ledgerVars
<1>4. QED
  BY <1>1, <1>2, <1>3, InitInv, PTL DEF Spec, ImplementsBook, Book!Spec

(* By fills alone, the quantity readers see for a symbol and strategy is    *)
(* moved by its own fills and by nothing else: no index repair, status      *)
(* change or new position id ever adds to it or takes from it.              *)
THEOREM FillsImplementTheBook == FillSpec => FillsImplementBook
<1>1. Init => Book!Init
  <2>1. Init => BookNow = [k \in Pair |-> 0]
    BY DEF Init, BookNow, Pair, Holding, FindOpen
  <2>2. QED
    BY <2>1 DEF Book!Init
<1>2. LedgerInv /\ [FillNext]_vars => LedgerInv'
  BY StepKeepsInv DEF Next
<1>3. ASSUME LedgerInv, LedgerInv', [FillNext]_vars
      PROVE  [Book!FillNext]_BookNow
  <2>1. ASSUME NEW s \in Symbol, NEW t \in Strategy, NEW p \in Pid, BuyFill(s, t, p)
        PROVE  \E k \in Pair : Book!Bought(k)
    <3>1. <<s, t>> \in Pair  BY DEF Pair
    <3>2. \E q \in (0..MaxHeld) \ {0} :
            BookNow' = [BookNow EXCEPT ![<<s, t>>] = BookNow[<<s, t>>] + q]
      BY <1>3, <2>1, BuyFillIsBought
    <3>3. Book!Bought(<<s, t>>)  BY <3>2 DEF Book!Bought
    <3>4. QED  BY <3>1, <3>3
  <2>2. ASSUME NEW s \in Symbol, NEW t \in Strategy, NEW p \in Pid, SellFill(s, t, p)
        PROVE  \E k \in Pair : Book!Sold(k)
    <3>1. <<s, t>> \in Pair  BY DEF Pair
    <3>2. /\ BookNow[<<s, t>>] > 0
          /\ \E q \in 0..MaxHeld :
               BookNow' = [BookNow EXCEPT ![<<s, t>>] = Book!Settle(BookNow[<<s, t>>] - q)]
      BY <1>3, <2>2, SellFillIsSold
    <3>3. Book!Sold(<<s, t>>)  BY <3>2 DEF Book!Sold
    <3>4. QED  BY <3>1, <3>3
  <2>3. ASSUME UNCHANGED ledgerVars
        PROVE  UNCHANGED BookNow
    BY <2>3 DEF ledgerVars, BookNow, Holding, FindOpen, IsOpen
  <2>4. ASSUME NEW s \in Symbol, NEW t \in Strategy, UnknownSellFill(s, t)
        PROVE  UNCHANGED BookNow
    BY <2>3, <2>4 DEF UnknownSellFill, DropSellFill
  <2>5. QED
    BY <1>3, <2>1, <2>2, <2>3, <2>4 DEF FillNext, Book!FillNext, Pair, vars, ledgerVars
<1>4. QED
  BY <1>1, <1>2, <1>3, InitInv, PTL DEF FillSpec, FillsImplementBook, Book!FillSpec

-------------------------------------------------------------------------------
(* The ledger with its table in the database.                               *)

(* The tasks at work, and what one of them is.                              *)
Busy == {k \in Task : tasks[k].pc # "idle"}
TaskRecord == [pc : {"idle", "created", "selected", "assigned"}, pid : Pid \cup {NoPid},
               loaded : Entry \cup {NoRow}, write : Entry \cup {NoRow}]

DbTypeOK ==
  /\ DOMAIN db \subseteq Pid /\ db \in [DOMAIN db -> Entry]
  /\ tasks \in [Task -> TaskRecord]
  /\ up \in BOOLEAN
  /\ unsaved \subseteq Pid /\ raced \subseteq Pid
  /\ balances \in [Symbol -> Nat]

(* Entry b is what entry a was, or what has become of it since.             *)
Later(a, b) ==
  /\ b.symbol = a.symbol /\ b.strategy = a.strategy
  /\ a.status # "OPEN" => b.status # "OPEN"

(* Between a crash and the restart there is nothing but the table.          *)
Down ==
  ~up => /\ DOMAIN positions = {} /\ Busy = {} /\ unsaved = {} /\ raced = {}
         /\ \A p \in DOMAIN atCrash : p \in DOMAIN db /\ db[p] = atCrash[p]

(* A row is never ahead of its position.                                    *)
Rows == \A p \in DOMAIN positions \cap DOMAIN db : Later(db[p], positions[p])

(* Nor is what a task carries from the one to the other.                    *)
Carried ==
  \A k \in Busy :
    /\ tasks[k].pid \in DOMAIN positions
    /\ tasks[k].pc \in {"selected", "assigned"} /\ tasks[k].loaded # NoRow =>
         tasks[k].pid \in DOMAIN db
    /\ tasks[k].pc = "selected" /\ tasks[k].loaded # NoRow =>
         Later(tasks[k].loaded, positions[tasks[k].pid])
    /\ tasks[k].pc = "assigned" =>
         /\ tasks[k].write \in Entry /\ Later(tasks[k].write, positions[tasks[k].pid])
         /\ tasks[k].loaded # NoRow => Later(tasks[k].loaded, tasks[k].write)

(* A position that did not move during a save of it has one save at most ... *)
Alone ==
  \A j, k \in Busy : tasks[j].pid = tasks[k].pid /\ tasks[j].pid \notin raced => j = k

(* ... which found the row as it still is and carries the position as it is. *)
Fresh ==
  \A k \in Busy :
    tasks[k].pid \notin raced =>
      /\ tasks[k].pc \in {"selected", "assigned"} =>
           tasks[k].loaded = IF tasks[k].pid \in DOMAIN db THEN db[tasks[k].pid] ELSE NoRow
      /\ tasks[k].pc = "assigned" => tasks[k].write = positions[tasks[k].pid]

PInv ==
  /\ LedgerTypeOK /\ IndexExact /\ DbTypeOK
  /\ Down /\ Rows /\ Carried /\ Alone /\ Fresh /\ SavedWhenSettled

-------------------------------------------------------------------------------
(* What fills and overrides do to the entries.                              *)

(* A fill moves one entry, and never back to OPEN.                           *)
LEMMA FillTouches ==
  ASSUME Indexed, NEW s \in Symbol, NEW t \in Strategy, NEW p \in Pid,
         BuyFill(s, t, p) \/ SellFill(s, t, p)
  PROVE  /\ Indexed' /\ DOMAIN positions' = DOMAIN positions \cup {p}
         /\ \A x \in DOMAIN positions : x # p => positions'[x] = positions[x]
         /\ p \in DOMAIN positions => Later(positions[p], positions'[p])
<1>0. NoPid \notin DOMAIN positions
  BY LedgerAssumption DEF Indexed, LedgerTypeOK
<1>1. \A x \in OpenPositions : /\ x \in DOMAIN positions
                               /\ positions[x].status \in {"OPEN", "PARTIAL_CLOSED"}
                               /\ positions[x].quantity \in Nat
  BY EntryFields DEF OpenPositions, IsOpen, Indexed
<1>2. \A id \in KnownIds(s, t) \cup {NoPid} : id \in DOMAIN positions => id \in OpenPositions
  BY <1>0 DEF KnownIds
<1>3. FindOpen(s, t) \subseteq OpenPositions
  BY DEF FindOpen, OpenPositions
<1>4. CASE BuyFill(s, t, p)
  <2>1. PICK id \in KnownIds(s, t) \cup {NoPid}, q \in 1..MaxHeld : OnBuyFill(id, s, t, q, p)
    BY <1>4 DEF BuyFill
  <2>2. q \in Nat \ {0}
    BY LedgerAssumption
  <2>3. CASE p \in OpenPositions /\ AddToPosition(p, q)
    <3>1. positions[p].quantity + q \in Nat
      BY <1>1, <2>2, <2>3
    <3>2. QED
      BY <1>1, <2>3, <3>1, ResizeKeepsIndex DEF AddToPosition, Later
  <2>4. CASE CreateNewPosition(p, s, t, q)
    BY <2>2, <2>4, CreateKeepsIndex
  <2>5. QED
    BY <1>2, <1>3, <2>1, <2>3, <2>4 DEF OnBuyFill
<1>5. CASE SellFill(s, t, p)
  <2>1. PICK id \in KnownIds(s, t) \cup {NoPid}, q \in Sellable(s, t) :
               OnSellFill(id, s, t, q, p)
    BY <1>5 DEF SellFill
  <2>2. p \in OpenPositions /\ ClosePosition(p, q)
    BY <1>2, <1>3, <2>1 DEF OnSellFill
  <2>3. q \in Nat /\ Dust \in Nat /\ 0 \in Nat
    BY LedgerAssumption DEF Sellable
  <2>4. CASE SetEntry(p, 0, "CLOSED") /\ RemoveFromIndex(p)
    BY <1>1, <2>2, <2>3, <2>4, CloseKeepsIndex DEF Later
  <2>5. CASE /\ positions[p].quantity - q > Dust
             /\ SetEntry(p, positions[p].quantity - q, "PARTIAL_CLOSED")
             /\ UNCHANGED <<symbolPositions, strategyPositions>>
    <3>1. PICK r \in Nat : r = positions[p].quantity - q
      BY <1>1, <2>2, <2>3, <2>5
    <3>2. SetEntry(p, r, "PARTIAL_CLOSED")
      BY <2>5, <3>1
    <3>3. QED
      BY <1>1, <2>2, <2>5, <3>2, ResizeKeepsIndex DEF Later
  <2>6. QED
    BY <2>2, <2>4, <2>5 DEF ClosePosition
<1>6. QED
  BY <1>4, <1>5

(* An override moves what FindOpen finds, and never back to OPEN.            *)
LEMMA OverrideTouches ==
  ASSUME Indexed, NEW s \in Symbol, NEW t \in Strategy, ForceSync(s, t)
  PROVE  /\ Indexed' /\ DOMAIN positions' = DOMAIN positions
         /\ \A x \in DOMAIN positions : x \notin FindOpen(s, t) => positions'[x] = positions[x]
         /\ \A x \in DOMAIN positions : Later(positions[x], positions'[x])
<1>1. PICK q \in 0..MaxHeld : ForceSyncQuantity(s, t, q)
  BY DEF ForceSync
<1>2. PICK p \in FindOpen(s, t) :
        \/ SetEntry(p, q, "CLOSED") /\ RemoveFromIndex(p)
        \/ /\ SetEntry(p, q, positions[p].status)
           /\ UNCHANGED <<symbolPositions, strategyPositions>>
  BY <1>1 DEF ForceSyncQuantity
<1>3. q \in Nat /\ p \in OpenPositions /\ positions[p].status \in {"OPEN", "PARTIAL_CLOSED"}
  BY LedgerAssumption DEF FindOpen, OpenPositions, IsOpen
<1>4. \A x \in DOMAIN positions : Later(positions[x], positions[x])
  BY DEF Later
<1>5. CASE SetEntry(p, q, "CLOSED") /\ RemoveFromIndex(p)
  BY <1>3, <1>4, <1>5, CloseKeepsIndex DEF Later
<1>6. CASE /\ SetEntry(p, q, positions[p].status)
           /\ UNCHANGED <<symbolPositions, strategyPositions>>
  BY <1>3, <1>4, <1>6, ResizeKeepsIndex DEF Later
<1>7. QED
  BY <1>2, <1>5, <1>6

(* Coins are only sold that are there.                                       *)
LEMMA BalancesKept ==
  ASSUME balances \in [Symbol -> Nat], NEW s \in Symbol, NEW t \in Strategy,
         \/ \E p \in Pid : BuyFill(s, t, p) \/ SellFill(s, t, p)
         \/ UnknownSellFill(s, t)
  PROVE  balances' \in [Symbol -> Nat]
<1>1. (0..MaxHeld) \subseteq Nat /\ (1..MaxHeld) \subseteq Nat
  BY LedgerAssumption
<1>2. balances[s] \in Nat
  OBVIOUS
<1>3. CASE \E q \in 1..MaxHeld : balances' = [balances EXCEPT ![s] = balances[s] + q]
  BY <1>1, <1>2, <1>3
<1>4. CASE \E q \in 0..MaxHeld : /\ q <= balances[s]
                                /\ balances' = [balances EXCEPT ![s] = balances[s] - q]
  <2>1. PICK q \in 0..MaxHeld : /\ q <= balances[s]
                                /\ balances' = [balances EXCEPT ![s] = balances[s] - q]
    BY <1>4
  <2>2. balances[s] - q \in Nat
    BY <1>1, <1>2, <2>1
  <2>3. QED
    BY <2>1, <2>2
<1>5. QED
  BY <1>3, <1>4 DEF BuyFill, SellFill, UnknownSellFill, Sellable

-------------------------------------------------------------------------------
(* The running ledger.                                                      *)

(* The empty ledger has nothing to save.                                     *)
LEMMA PInitInv == PInit => PInv
<1> SUFFICES ASSUME PInit PROVE PInv
  OBVIOUS
<1>1. LedgerInv
  BY InitInv DEF PInit
<1>2. /\ Idle \in TaskRecord /\ Idle.pc = "idle"
  BY DEF Idle, TaskRecord
<1>3. Busy = {} /\ tasks \in [Task -> TaskRecord]
  BY <1>2 DEF PInit, Busy
<1>4. DOMAIN positions = {} /\ balances \in [Symbol -> Nat]
  BY DEF PInit, Init
<1>5. DbTypeOK
  BY <1>3, <1>4 DEF PInit, Nothing, DbTypeOK
<1>6. Down /\ Rows /\ SavedWhenSettled
  BY <1>4 DEF PInit, Down, Rows, SavedWhenSettled, Settled
<1>7. Carried /\ Alone /\ Fresh
  BY <1>3 DEF Carried, Alone, Fresh
<1>8. QED
  BY <1>1, <1>5, <1>6, <1>7 DEF PInv, LedgerInv

(* A fill is followed by one more save of its position.                      *)
LEMMA FillKeepsPInv ==
  ASSUME PInv, NEW s \in Symbol, NEW t \in Strategy, Fill(s, t)
  PROVE  PInv'
<1> USE DEF PInv
<1>1. PICK p \in Pid : /\ FreshOrKnown(p)
                       /\ BuyFill(s, t, p) \/ SellFill(s, t, p)
                       /\ Spawn(p)
                       /\ raced' = IF Pending(p) THEN raced \cup {p} ELSE raced \ {p}
  BY DEF Fill
<1>2. /\ Indexed' /\ DOMAIN positions' = DOMAIN positions \cup {p}
      /\ \A x \in DOMAIN positions : x # p => positions'[x] = positions[x]
      /\ p \in DOMAIN positions => Later(positions[p], positions'[p])
  BY <1>1, FillTouches DEF Indexed
<1>3. up /\ UNCHANGED <<db, up, crashes, unsaved, atCrash>>
  BY DEF Fill
<1>4. PICK k \in Task : /\ tasks[k].pc = "idle"
                        /\ tasks' = [tasks EXCEPT ![k] = [Idle EXCEPT !.pc = "created", !.pid = p]]
  BY <1>1 DEF Spawn
<1> DEFINE save == [Idle EXCEPT !.pc = "created", !.pid = p]
<1>5. save \in TaskRecord /\ save.pc = "created" /\ save.pid = p
  BY DEF Idle, TaskRecord
<1> HIDE DEF save
<1>6. /\ tasks' \in [Task -> TaskRecord] /\ tasks'[k] = save
      /\ \A j \in Task : j # k => tasks'[j] = tasks[j]
  BY <1>4, <1>5 DEF DbTypeOK, save
<1>7. Busy' = Busy \cup {k} /\ k \notin Busy
  BY <1>4, <1>5, <1>6 DEF Busy
<1>8. \A j \in Busy : j # k /\ tasks'[j] = tasks[j]
  BY <1>6, <1>7 DEF Busy
<1>9. \A j \in Busy : tasks[j].pid = p => p \in raced'
  BY <1>1 DEF Pending, Busy
<1>10. \A x : x # p => (x \in raced' <=> x \in raced)
  BY <1>1
<1>11. \A x \in DOMAIN positions : Later(positions[x], positions'[x])
  BY <1>2 DEF Later
<1>12. DbTypeOK'
  <2>1. balances' \in [Symbol -> Nat]
    BY <1>1, BalancesKept DEF DbTypeOK
  <2>2. QED
    BY <1>1, <1>3, <1>6, <2>1 DEF DbTypeOK
<1>13. Down'
  BY <1>3 DEF Down
<1>14. Rows'
  <2>1. p \in DOMAIN positions \/ p \notin DOMAIN db
    BY <1>1 DEF FreshOrKnown
  <2>2. QED
    BY <1>2, <1>3, <1>11, <2>1 DEF Rows, Later
<1>15. Carried'
  <2>1. ASSUME NEW j \in Busy'
        PROVE  /\ tasks'[j].pid \in DOMAIN positions'
               /\ tasks'[j].pc \in {"selected", "assigned"} /\ tasks'[j].loaded # NoRow =>
                    tasks'[j].pid \in DOMAIN db'
               /\ tasks'[j].pc = "selected" /\ tasks'[j].loaded # NoRow =>
                    Later(tasks'[j].loaded, positions'[tasks'[j].pid])
               /\ tasks'[j].pc = "assigned" =>
                    /\ tasks'[j].write \in Entry
                    /\ Later(tasks'[j].write, positions'[tasks'[j].pid])
                    /\ tasks'[j].loaded # NoRow => Later(tasks'[j].loaded, tasks'[j].write)
    <3>1. CASE j = k
      BY <1>2, <1>5, <1>6, <3>1
    <3>2. CASE j # k
      <4>1. j \in Busy /\ tasks'[j] = tasks[j] /\ tasks[j].pid \in DOMAIN positions
        BY <1>7, <1>8, <3>2 DEF Carried
      <4>2. Later(positions[tasks[j].pid], positions'[tasks[j].pid])
        BY <1>11, <4>1
      <4>3. QED
        BY <1>2, <1>3, <4>1, <4>2 DEF Carried, Later
    <3>3. QED
      BY <3>1, <3>2
  <2>2. QED
    BY <2>1 DEF Carried
<1>16. Alone'
  <2>1. ASSUME NEW i \in Busy', NEW j \in Busy', tasks'[i].pid = tasks'[j].pid,
               tasks'[i].pid \notin raced'
        PROVE  i = j
    <3>1. CASE tasks'[i].pid = p
      BY <1>7, <1>8, <1>9, <2>1, <3>1
    <3>2. CASE tasks'[i].pid # p
      BY <1>5, <1>6, <1>7, <1>8, <1>10, <2>1, <3>2 DEF Alone
    <3>3. QED
      BY <3>1, <3>2
  <2>2. QED
    BY <2>1 DEF Alone
<1>17. Fresh'
  <2>1. ASSUME NEW j \in Busy', tasks'[j].pid \notin raced'
        PROVE  /\ tasks'[j].pc \in {"selected", "assigned"} =>
                    tasks'[j].loaded = IF tasks'[j].pid \in DOMAIN db'
                                       THEN db'[tasks'[j].pid] ELSE NoRow
               /\ tasks'[j].pc = "assigned" => tasks'[j].write = positions'[tasks'[j].pid]
    <3>1. CASE j = k
      BY <1>5, <1>6, <3>1
    <3>2. CASE j # k
      <4>1. j \in Busy /\ tasks'[j] = tasks[j] /\ tasks[j].pid # p /\ tasks[j].pid \notin raced
        BY <1>7, <1>8, <1>9, <1>10, <2>1, <3>2
      <4>2. positions'[tasks[j].pid] = positions[tasks[j].pid]
        BY <1>2, <4>1 DEF Carried
      <4>3. QED
        BY <1>3, <4>1, <4>2 DEF Fresh
    <3>3. QED
      BY <3>1, <3>2
  <2>2. QED
    BY <2>1 DEF Fresh
<1>18. SavedWhenSettled'
  <2>1. ASSUME NEW x \in Settled' PROVE x \in DOMAIN db' /\ db'[x] = positions'[x]
    <3>1. x # p
      BY <1>5, <1>6 DEF Settled, Pending
    <3>2. x \in Settled
      BY <1>2, <1>3, <1>4, <1>6, <1>10, <3>1 DEF Settled, Pending
    <3>3. QED
      BY <1>2, <1>3, <3>1, <3>2 DEF SavedWhenSettled, Settled
  <2>2. QED
    BY <2>1 DEF SavedWhenSettled
<1>19. QED
  BY <1>2, <1>12, <1>13, <1>14, <1>15, <1>16, <1>17, <1>18 DEF Indexed

(* An override leaves positions unsaved, and raced if a save was at work.    *)
LEMMA OverrideKeepsPInv ==
  ASSUME PInv, NEW s \in Symbol, NEW t \in Strategy, Override(s, t)
  PROVE  PInv'
<1> USE DEF PInv
<1>1. /\ Indexed' /\ DOMAIN positions' = DOMAIN positions
      /\ \A x \in DOMAIN positions : x \notin FindOpen(s, t) => positions'[x] = positions[x]
      /\ \A x \in DOMAIN positions : Later(positions[x], positions'[x])
  BY OverrideTouches DEF Override, Indexed
<1>2. /\ up /\ UNCHANGED <<db, tasks, up, crashes, atCrash, balances>>
      /\ unsaved' = unsaved \cup FindOpen(s, t)
      /\ raced' = raced \cup {p \in FindOpen(s, t) : Pending(p)}
  BY DEF Override, ForceSync
<1>3. FindOpen(s, t) \subseteq DOMAIN positions /\ DOMAIN positions \subseteq Pid
  BY DEF FindOpen, LedgerTypeOK
<1>4. /\ Busy' = Busy /\ \A j \in Busy : tasks'[j] = tasks[j]
      /\ \A j \in Busy : tasks[j].pid \notin raced' =>
           /\ tasks[j].pid \notin raced
           /\ positions'[tasks[j].pid] = positions[tasks[j].pid]
  <2>1. \A j \in Busy : Pending(tasks[j].pid) /\ tasks[j].pid \in DOMAIN positions
    BY DEF Busy, Pending, Carried
  <2>2. QED
    BY <1>1, <1>2, <2>1 DEF Busy
<1>5. DbTypeOK'
  BY <1>2, <1>3 DEF DbTypeOK
<1>6. Down'
  BY <1>2 DEF Down
<1>7. Rows'
  BY <1>1, <1>2 DEF Rows, Later
<1>8. Carried'
  BY <1>1, <1>2, <1>4 DEF Carried, Later
<1>9. Alone' /\ Fresh'
  BY <1>1, <1>2, <1>4 DEF Alone, Fresh
<1>10. SavedWhenSettled'
  BY <1>1, <1>2 DEF SavedWhenSettled, Settled, Pending
<1>11. QED
  BY <1>1, <1>5, <1>6, <1>7, <1>8, <1>9, <1>10 DEF Indexed

(* A sale of what the ledger does not hold moves no entry.                   *)
LEMMA UnknownFillKeepsPInv ==
  ASSUME PInv, NEW s \in Symbol, NEW t \in Strategy, UnknownFill(s, t)
  PROVE  PInv'
<1> USE DEF PInv
<1>1. UNCHANGED <<positions, symbolPositions, strategyPositions, db, tasks, up, unsaved, raced,
                  atCrash>>
  BY DEF UnknownFill, UnknownSellFill, DropSellFill, ledgerVars, dbVars
<1>2. balances' \in [Symbol -> Nat]
  BY BalancesKept DEF DbTypeOK, UnknownFill
<1>3. LedgerTypeOK' /\ IndexExact' /\ DbTypeOK'
  BY <1>1, <1>2 DEF LedgerTypeOK, IndexExact, OpenPositions, IsOpen, DbTypeOK
<1>4. Busy' = Busy
  BY <1>1 DEF Busy
<1>5. Down' /\ Rows' /\ Carried' /\ Alone' /\ Fresh'
  BY <1>1, <1>4 DEF Down, Rows, Carried, Alone, Fresh
<1>6. SavedWhenSettled'
  BY <1>1 DEF SavedWhenSettled, Settled, Pending
<1>7. QED
  BY <1>3, <1>5, <1>6

-------------------------------------------------------------------------------
(* _persist_position_to_db                                                  *)

(* A task that goes on with its save.                                        *)
LEMMA SaveGoesOnKeepsPInv ==
  ASSUME PInv, NEW k \in Task, up, k \in Busy, NEW r \in TaskRecord,
         tasks' = [tasks EXCEPT ![k] = r], r.pid = tasks[k].pid,
         r.pc \in {"selected", "assigned"},
         r.loaded # NoRow => r.pid \in DOMAIN db,
         r.pc = "selected" /\ r.loaded # NoRow => Later(r.loaded, positions[r.pid]),
         r.pc = "assigned" => /\ r.write = positions[r.pid]
                              /\ r.loaded # NoRow => Later(r.loaded, r.write),
         r.pid \notin raced =>
           r.loaded = IF r.pid \in DOMAIN db THEN db[r.pid] ELSE NoRow,
         UNCHANGED <<vars, db, unsaved, up, crashes, raced, atCrash>>
  PROVE  PInv'
<1> USE DEF PInv
<1>1. UNCHANGED <<positions, symbolPositions, strategyPositions, balances>>
  BY DEF vars
<1>2. /\ tasks' \in [Task -> TaskRecord] /\ tasks'[k] = r
      /\ \A j \in Task : j # k => tasks'[j] = tasks[j]
  BY DEF DbTypeOK
<1>3. Busy' = Busy /\ \A j \in Busy : tasks'[j].pid = tasks[j].pid
  BY <1>2 DEF Busy
<1>4. LedgerTypeOK' /\ IndexExact' /\ DbTypeOK'
  BY <1>1, <1>2 DEF LedgerTypeOK, IndexExact, OpenPositions, IsOpen, DbTypeOK
<1>5. Down' /\ Rows'
  BY <1>1 DEF Down, Rows
<1>6. r.pid \in DOMAIN positions /\ positions[r.pid] \in Entry
  BY DEF Carried, LedgerTypeOK
<1>7. Carried'
  <2>1. ASSUME NEW j \in Busy'
        PROVE  /\ tasks'[j].pid \in DOMAIN positions'
               /\ tasks'[j].pc \in {"selected", "assigned"} /\ tasks'[j].loaded # NoRow =>
                    tasks'[j].pid \in DOMAIN db'
               /\ tasks'[j].pc = "selected" /\ tasks'[j].loaded # NoRow =>
                    Later(tasks'[j].loaded, positions'[tasks'[j].pid])
               /\ tasks'[j].pc = "assigned" =>
                    /\ tasks'[j].write \in Entry
                    /\ Later(tasks'[j].write, positions'[tasks'[j].pid])
                    /\ tasks'[j].loaded # NoRow => Later(tasks'[j].loaded, tasks'[j].write)
    <3>1. CASE j = k
      BY <1>1, <1>2, <1>6, <3>1 DEF Later
    <3>2. CASE j # k
      BY <1>1, <1>2, <1>3, <3>2 DEF Carried, Busy
    <3>3. QED
      BY <3>1, <3>2
  <2>2. QED
    BY <2>1 DEF Carried
<1>8. Alone'
  BY <1>3 DEF Alone
<1>9. Fresh'
  <2>1. ASSUME NEW j \in Busy', tasks'[j].pid \notin raced'
        PROVE  /\ tasks'[j].pc \in {"selected", "assigned"} =>
                    tasks'[j].loaded = IF tasks'[j].pid \in DOMAIN db'
                                       THEN db'[tasks'[j].pid] ELSE NoRow
               /\ tasks'[j].pc = "assigned" => tasks'[j].write = positions'[tasks'[j].pid]
    <3>1. CASE j = k
      BY <1>1, <1>2, <2>1, <3>1
    <3>2. CASE j # k
      BY <1>1, <1>2, <1>3, <2>1, <3>2 DEF Fresh, Busy
    <3>3. QED
      BY <3>1, <3>2
  <2>2. QED
    BY <2>1 DEF Fresh
<1>10. SavedWhenSettled'
  <2>1. \A p : Pending(p)' <=> Pending(p)
    BY <1>2, <1>3 DEF Pending, Busy
  <2>2. Settled' = Settled
    BY <1>1, <2>1 DEF Settled
  <2>3. QED
    BY <1>1, <2>2 DEF SavedWhenSettled
<1>11. QED
  BY <1>4, <1>5, <1>7, <1>8, <1>9, <1>10

(* What is selected is the row, or that there is none.                       *)
LEMMA SelectRowKeepsPInv ==
  ASSUME PInv, NEW k \in Task, SelectRow(k), up,
         UNCHANGED <<vars, up, crashes, raced, atCrash>>
  PROVE  PInv'
<1> DEFINE p == tasks[k].pid
           row == IF p \in DOMAIN db THEN db[p] ELSE NoRow
           r == [tasks[k] EXCEPT !.pc = "selected", !.loaded = row]
<1>1. /\ tasks[k] \in TaskRecord /\ tasks[k].pc = "created" /\ k \in Busy
      /\ row \in Entry \cup {NoRow} /\ NoRow \notin Entry
  BY PersistenceAssumption DEF PInv, DbTypeOK, SelectRow, Busy
<1>2. tasks' = [tasks EXCEPT ![k] = r] /\ UNCHANGED <<db, unsaved>>
  BY DEF SelectRow, PInv, DbTypeOK
<1>3. p \in DOMAIN positions
  BY <1>1 DEF PInv, Carried
<1>4. row # NoRow => p \in DOMAIN db /\ Later(row, positions[p])
  BY <1>3 DEF PInv, Rows
<1> HIDE DEF row
<1>5. r \in TaskRecord /\ r.pc = "selected" /\ r.pid = p /\ r.loaded = row
  BY <1>1 DEF TaskRecord
<1> HIDE DEF r
<1>6. row = IF p \in DOMAIN db THEN db[p] ELSE NoRow
  BY DEF row
<1>7. QED
  BY <1>1, <1>2, <1>3, <1>4, <1>5, <1>6, SaveGoesOnKeepsPInv

(* What is assigned is the position as it is by now.                         *)
LEMMA AssignColumnsKeepsPInv ==
  ASSUME PInv, NEW k \in Task, AssignColumns(k), up,
         UNCHANGED <<vars, up, crashes, raced, atCrash>>
  PROVE  PInv'
<1> DEFINE p == tasks[k].pid
           r == [tasks[k] EXCEPT !.pc = "assigned", !.write = positions[p]]
<1>1. /\ tasks[k] \in TaskRecord /\ tasks[k].pc = "selected" /\ k \in Busy
  BY DEF PInv, DbTypeOK, AssignColumns, Busy
<1>2. tasks' = [tasks EXCEPT ![k] = r] /\ UNCHANGED <<db, unsaved>>
  BY DEF AssignColumns, PInv, DbTypeOK
<1>3. p \in DOMAIN positions /\ positions[p] \in Entry
  BY <1>1 DEF PInv, Carried, LedgerTypeOK
<1>4. /\ r \in TaskRecord /\ r.pc = "assigned" /\ r.pid = p /\ r.loaded = tasks[k].loaded
      /\ r.write = positions[p]
  BY <1>1, <1>3 DEF TaskRecord
<1> HIDE DEF r
<1>5. tasks[k].loaded # NoRow => p \in DOMAIN db /\ Later(tasks[k].loaded, positions[p])
  BY <1>1 DEF PInv, Carried
<1>6. p \notin raced => tasks[k].loaded = IF p \in DOMAIN db THEN db[p] ELSE NoRow
  BY <1>1 DEF PInv, Fresh
<1>7. QED
  BY <1>1, <1>2, <1>3, <1>4, <1>5, <1>6, SaveGoesOnKeepsPInv

(* What a commit does to the table: one row of an unmoved position becomes   *)
(* the position, no row gets ahead of its position, and none goes back to    *)
(* OPEN.                                                                    *)
LEMMA CommitRow ==
  ASSUME PInv, NEW k \in Task, Commit(k), NEW p, p = tasks[k].pid
  PROVE  /\ k \in Busy /\ tasks' = [tasks EXCEPT ![k] = Idle] /\ p \in DOMAIN positions
         /\ db' \in [DOMAIN db' -> Entry]
         /\ DOMAIN db \subseteq DOMAIN db' /\ DOMAIN db' \subseteq DOMAIN db \cup {p}
         /\ \A x \in DOMAIN db : x # p => db'[x] = db[x]
         /\ p \in DOMAIN db' => Later(db'[p], positions[p])
         /\ p \in DOMAIN db => Later(db[p], db'[p])
         /\ \/ unsaved' = unsaved \cup {p}
            \/ unsaved' = unsaved \ {p} /\ (p \notin raced => p \in DOMAIN db'
                                                           /\ db'[p] = positions[p])
<1> USE DEF PInv
<1> DEFINE loaded == tasks[k].loaded
           write == tasks[k].write
<1>1. /\ k \in Busy /\ tasks[k] \in TaskRecord /\ tasks[k].pc = "assigned"
      /\ tasks' = [tasks EXCEPT ![k] = Idle]
  BY DEF Commit, Busy, DbTypeOK
<1>2. /\ p \in DOMAIN positions /\ positions[p] \in Entry
      /\ write \in Entry /\ Later(write, positions[p])
      /\ loaded # NoRow => /\ loaded \in Entry /\ p \in DOMAIN db /\ Later(loaded, write)
      /\ p \notin raced => /\ loaded = IF p \in DOMAIN db THEN db[p] ELSE NoRow
                           /\ write = positions[p]
  BY <1>1 DEF Carried, Fresh, LedgerTypeOK, TaskRecord
<1>3. /\ db \in [DOMAIN db -> Entry] /\ NoRow \notin Entry
      /\ \A x \in DOMAIN db : db[x] \in Entry
      /\ p \in DOMAIN db => Later(db[p], positions[p])
  BY <1>2, PersistenceAssumption DEF DbTypeOK, Rows
<1> HIDE DEF loaded, write
<1>4. CASE /\ loaded # NoRow /\ unsaved' = unsaved \ {p}
           /\ db' = [db EXCEPT ![p] = Updated(db[p], loaded, write)]
  <2> DEFINE row == Updated(db[p], loaded, write)
  <2>1. p \in DOMAIN db /\ db[p] \in Entry /\ loaded \in Entry /\ write \in Entry
    BY <1>2, <1>3, <1>4
  <2>2. /\ row \in Entry /\ row.symbol = db[p].symbol /\ row.strategy = db[p].strategy
        /\ row.quantity = IF write.quantity = loaded.quantity THEN db[p].quantity
                          ELSE write.quantity
        /\ row.status = IF write.status = loaded.status THEN db[p].status ELSE write.status
    BY <2>1 DEF Updated, Entry
  <2>3. Later(db[p], row) /\ Later(row, positions[p])
    <3>1. row.symbol = db[p].symbol /\ row.strategy = db[p].strategy
      BY <2>2
    <3>2. CASE write.status = loaded.status
      BY <1>3, <2>1, <2>2, <3>1, <3>2 DEF Later
    <3>3. CASE write.status # loaded.status
      <4>1. row.status = write.status /\ write.status # "OPEN"
        <5>1. loaded.status # "OPEN" => write.status # "OPEN"
          BY <1>2, <1>4 DEF Later
        <5>2. CASE loaded.status = "OPEN"
          BY <2>2, <3>3, <5>2
        <5>3. CASE loaded.status # "OPEN"
          BY <2>2, <3>3, <5>1, <5>3
        <5>4. QED
          BY <5>2, <5>3
      <4>2. QED
        BY <1>2, <1>3, <2>1, <3>1, <4>1 DEF Later
    <3>4. QED
      BY <3>2, <3>3
  <2>4. p \notin raced => row = positions[p]
    <3>1. ASSUME p \notin raced PROVE row = positions[p]
      <4>1. loaded = db[p] /\ write = positions[p]
        BY <1>2, <2>1, <3>1
      <4>2. /\ row.symbol = positions[p].symbol /\ row.strategy = positions[p].strategy
            /\ row.quantity = positions[p].quantity /\ row.status = positions[p].status
        BY <1>3, <2>1, <2>2, <4>1 DEF Later
      <4>3. \A a, b \in Entry : /\ a.symbol = b.symbol /\ a.strategy = b.strategy
                               /\ a.quantity = b.quantity /\ a.status = b.status => a = b
        BY DEF Entry
      <4>4. QED
        BY <1>2, <2>2, <4>2, <4>3
    <3>2. QED
      BY <3>1
  <2> HIDE DEF row
  <2>5. /\ db' \in [DOMAIN db -> Entry] /\ DOMAIN db' = DOMAIN db /\ db'[p] = row
        /\ \A x \in DOMAIN db : x # p => db'[x] = db[x]
    BY <1>3, <1>4, <2>1, <2>2 DEF row
  <2>6. QED
    BY <1>1, <1>2, <1>4, <2>3, <2>4, <2>5
<1>5. CASE /\ p \notin DOMAIN db /\ unsaved' = unsaved \ {p}
           /\ db' = [x \in DOMAIN db \cup {p} |-> IF x = p THEN write ELSE db[x]]
  <2>1. /\ DOMAIN db' = DOMAIN db \cup {p} /\ db'[p] = write
        /\ \A x \in DOMAIN db : x # p => db'[x] = db[x]
        /\ db' \in [DOMAIN db \cup {p} -> Entry]
    BY <1>2, <1>3, <1>5
  <2>2. QED
    BY <1>1, <1>2, <1>5, <2>1
<1>6. CASE unsaved' = unsaved \cup {p} /\ db' = db
  <2>1. p \in DOMAIN db => Later(db[p], db[p])
    BY DEF Later
  <2>2. QED
    BY <1>1, <1>2, <1>3, <1>6, <2>1
<1>7. QED
  BY <1>4, <1>5, <1>6 DEF Commit, loaded, write

(* A task that ends.                                                         *)
LEMMA SaveEndsKeepsPInv ==
  ASSUME PInv, NEW k \in Busy, up, NEW p, p = tasks[k].pid,
         tasks' = [tasks EXCEPT ![k] = Idle],
         db' \in [DOMAIN db' -> Entry],
         DOMAIN db \subseteq DOMAIN db', DOMAIN db' \subseteq DOMAIN db \cup {p},
         \A x \in DOMAIN db : x # p => db'[x] = db[x],
         p \in DOMAIN db' => Later(db'[p], positions[p]),
         \/ unsaved' = unsaved \cup {p}
         \/ unsaved' = unsaved \ {p} /\ (p \notin raced => p \in DOMAIN db'
                                                        /\ db'[p] = positions[p]),
         UNCHANGED <<vars, up, crashes, raced, atCrash>>
  PROVE  PInv'
<1> USE DEF PInv
<1>1. UNCHANGED <<positions, symbolPositions, strategyPositions, balances>>
  BY DEF vars
<1>2. Idle \in TaskRecord /\ Idle.pc = "idle" /\ k \in Task
  BY DEF Idle, TaskRecord, Busy
<1>3. /\ tasks' \in [Task -> TaskRecord] /\ tasks'[k] = Idle
      /\ \A j \in Task : j # k => tasks'[j] = tasks[j]
  BY <1>2 DEF DbTypeOK
<1>4. Busy' = Busy \ {k} /\ \A j \in Busy : j # k => tasks'[j] = tasks[j]
  BY <1>2, <1>3 DEF Busy
<1>5. p \in DOMAIN positions /\ p \in Pid
  BY DEF Carried, LedgerTypeOK
<1>6. LedgerTypeOK' /\ IndexExact'
  BY <1>1 DEF LedgerTypeOK, IndexExact, OpenPositions, IsOpen
<1>7. DbTypeOK'
  BY <1>1, <1>3, <1>5 DEF DbTypeOK
<1>8. Down'
  BY DEF Down
<1>9. Rows'
  BY <1>1 DEF Rows
<1>10. Carried'
  BY <1>1, <1>4 DEF Carried
<1>11. Alone'
  BY <1>4 DEF Alone
<1>12. Fresh'
  <2>1. ASSUME NEW j \in Busy', tasks'[j].pid \notin raced'
        PROVE  /\ tasks'[j].pc \in {"selected", "assigned"} =>
                    tasks'[j].loaded = IF tasks'[j].pid \in DOMAIN db'
                                       THEN db'[tasks'[j].pid] ELSE NoRow
               /\ tasks'[j].pc = "assigned" => tasks'[j].write = positions'[tasks'[j].pid]
    <3>1. j \in Busy /\ j # k /\ tasks'[j] = tasks[j] /\ tasks[j].pid \notin raced
      BY <1>4, <2>1
    <3>2. tasks[j].pid # p
      BY <3>1 DEF Alone
    <3>3. /\ tasks[j].pid \in DOMAIN db' <=> tasks[j].pid \in DOMAIN db
          /\ tasks[j].pid \in DOMAIN db => db'[tasks[j].pid] = db[tasks[j].pid]
      BY <3>2
    <3>4. QED
      BY <1>1, <3>1, <3>3 DEF Fresh
  <2>2. QED
    BY <2>1 DEF Fresh
<1>13. SavedWhenSettled'
  <2>1. ASSUME NEW x \in Settled' PROVE x \in DOMAIN db' /\ db'[x] = positions'[x]
    <3>1. CASE x = p
      BY <1>1, <2>1, <3>1 DEF Settled
    <3>2. CASE x # p
      <4>1. Pending(x) => Pending(x)'
        BY <1>3, <3>2 DEF Pending
      <4>2. x \in Settled
        BY <1>1, <2>1, <3>2, <4>1 DEF Settled
      <4>3. QED
        BY <1>1, <3>2, <4>2 DEF SavedWhenSettled
    <3>3. QED
      BY <3>1, <3>2
  <2>2. QED
    BY <2>1 DEF SavedWhenSettled
<1>14. QED
  BY <1>6, <1>7, <1>8, <1>9, <1>10, <1>11, <1>12, <1>13

(* A save goes on, ends, or fails at any point of it.                        *)
LEMMA PersistKeepsPInv ==
  ASSUME PInv, NEW k \in Task, Persist(k) PROVE PInv'
<1>1. up /\ UNCHANGED <<vars, up, crashes, raced, atCrash>>
  BY DEF Persist
<1>2. CASE SelectRow(k)
  BY <1>1, <1>2, SelectRowKeepsPInv
<1>3. CASE AssignColumns(k)
  BY <1>1, <1>3, AssignColumnsKeepsPInv
<1>4. CASE Commit(k)
  <2> DEFINE p == tasks[k].pid
  <2>1. /\ k \in Busy /\ tasks' = [tasks EXCEPT ![k] = Idle]
        /\ db' \in [DOMAIN db' -> Entry]
        /\ DOMAIN db \subseteq DOMAIN db' /\ DOMAIN db' \subseteq DOMAIN db \cup {p}
        /\ \A x \in DOMAIN db : x # p => db'[x] = db[x]
        /\ p \in DOMAIN db' => Later(db'[p], positions[p])
        /\ \/ unsaved' = unsaved \cup {p}
           \/ unsaved' = unsaved \ {p} /\ (p \notin raced => p \in DOMAIN db'
                                                          /\ db'[p] = positions[p])
    BY <1>4, CommitRow
  <2>2. QED
    BY <1>1, <2>1, SaveEndsKeepsPInv
<1>5. CASE PersistFails(k)
  <2> DEFINE p == tasks[k].pid
  <2>1. /\ k \in Busy /\ tasks' = [tasks EXCEPT ![k] = Idle] /\ db' = db
        /\ unsaved' = unsaved \cup {p}
    BY <1>5 DEF PersistFails, Busy
  <2>2. /\ db \in [DOMAIN db -> Entry] /\ p \in DOMAIN positions
        /\ p \in DOMAIN db => Later(db[p], positions[p])
    BY <2>1 DEF PInv, DbTypeOK, Carried, Rows
  <2>3. QED
    BY <1>1, <2>1, <2>2, SaveEndsKeepsPInv
<1>6. QED
  BY <1>2, <1>3, <1>4, <1>5 DEF Persist

-------------------------------------------------------------------------------
(* Crash and restart.                                                       *)

(* What was saved when the process crashed is in the table.                  *)
LEMMA CrashKeepsPInv == ASSUME PInv, Crash PROVE PInv'
<1> USE DEF PInv
<1>1. /\ DOMAIN positions' = {} /\ unsaved' = {} /\ raced' = {} /\ up' = FALSE
      /\ symbolPositions' = [s \in Symbol |-> {}]
      /\ strategyPositions' = [t \in Strategy |-> {}]
      /\ tasks' = [k \in Task |-> Idle]
      /\ UNCHANGED <<db, balances>>
      /\ atCrash' = [p \in Settled |-> positions[p]]
  BY DEF Crash, Nothing
<1>2. Idle \in TaskRecord /\ Idle.pc = "idle"
  BY DEF Idle, TaskRecord
<1>3. Busy' = {} /\ tasks' \in [Task -> TaskRecord]
  BY <1>1, <1>2 DEF Busy
<1>4. LedgerTypeOK' /\ IndexExact'
  <2>1. positions' \in [DOMAIN positions' -> Entry]
    BY <1>1 DEF Crash
  <2>2. OpenPositions' = {}
    BY <1>1 DEF OpenPositions
  <2>3. QED
    BY <1>1, <2>1, <2>2 DEF LedgerTypeOK, IndexExact
<1>5. DbTypeOK'
  BY <1>1, <1>3 DEF DbTypeOK
<1>6. Down'
  BY <1>1, <1>3 DEF Down, SavedWhenSettled
<1>7. Rows' /\ Carried' /\ Alone' /\ Fresh' /\ SavedWhenSettled'
  BY <1>1, <1>3 DEF Rows, Carried, Alone, Fresh, SavedWhenSettled, Settled
<1>8. QED
  BY <1>4, <1>5, <1>6, <1>7

(* The ledger restored is indexed, and is what the table says.               *)
LEMMA RestartKeepsPInv == ASSUME PInv, Restart PROVE PInv'
<1> USE DEF PInv
<1> DEFINE rows == {p \in DOMAIN db : db[p].status = "OPEN"}
<1>1. /\ positions' = [p \in rows |-> db[p]]
      /\ symbolPositions' = [s \in Symbol |-> {p \in rows : db[p].symbol = s}]
      /\ strategyPositions' = [t \in Strategy |-> {p \in rows : db[p].strategy = t}]
  BY DEF Restart, RestoreFromDatabase
<1>2. ~up /\ up' = TRUE /\ UNCHANGED <<db, tasks, crashes, unsaved, raced, balances>>
  BY DEF Restart
<1>3. Busy = {} /\ Busy' = {} /\ raced = {}
  BY <1>2 DEF Down, Busy
<1>4. /\ DOMAIN positions' = rows /\ \A p \in rows : positions'[p] = db[p]
      /\ rows \subseteq Pid /\ \A p \in rows : db[p] \in Entry /\ db[p].status = "OPEN"
  BY <1>1 DEF DbTypeOK
<1>5. LedgerTypeOK'
  BY <1>1, <1>4 DEF LedgerTypeOK
<1>6. OpenPositions' = rows
  BY <1>4 DEF OpenPositions, IsOpen
<1>7. IndexExact'
  BY <1>1, <1>4, <1>6 DEF IndexExact
<1>8. DbTypeOK' /\ Down'
  BY <1>2 DEF DbTypeOK, Down
<1>9. Rows' /\ SavedWhenSettled'
  BY <1>2, <1>4 DEF Rows, Later, SavedWhenSettled, Settled
<1>10. Carried' /\ Alone' /\ Fresh'
  BY <1>3 DEF Carried, Alone, Fresh
<1>11. QED
  BY <1>5, <1>7, <1>8, <1>9, <1>10

(* Nothing happens to the ledger, but the process may come up.               *)
LEMMA IdleKeepsPInv ==
  ASSUME PInv, UNCHANGED <<vars, db, tasks, unsaved, raced>>,
         (up' = up /\ UNCHANGED atCrash) \/ (~up /\ up' = TRUE)
  PROVE  PInv'
<1> USE DEF PInv
<1>1. UNCHANGED <<positions, symbolPositions, strategyPositions, balances>>
  BY DEF vars
<1>2. Busy' = Busy
  BY DEF Busy
<1>3. LedgerTypeOK' /\ IndexExact' /\ DbTypeOK'
  BY <1>1 DEF LedgerTypeOK, IndexExact, OpenPositions, IsOpen, DbTypeOK
<1>4. Down' /\ Rows' /\ Carried' /\ Alone' /\ Fresh'
  BY <1>1, <1>2 DEF Down, Rows, Carried, Alone, Fresh
<1>5. SavedWhenSettled'
  BY <1>1 DEF SavedWhenSettled, Settled, Pending
<1>6. QED
  BY <1>3, <1>4, <1>5

(* Every step of the ledger, its saves and the process keeps PInv.           *)
LEMMA PStepKeepsInv == PInv /\ [PNext]_allVars => PInv'
<1> SUFFICES ASSUME PInv, [PNext]_allVars PROVE PInv'
  OBVIOUS
<1>1. ASSUME NEW s \in Symbol, NEW t \in Strategy,
             Fill(s, t) \/ UnknownFill(s, t) \/ Override(s, t)
      PROVE  PInv'
  BY <1>1, FillKeepsPInv, UnknownFillKeepsPInv, OverrideKeepsPInv
<1>2. ASSUME NEW k \in Task, Persist(k) PROVE PInv'
  BY <1>2, PersistKeepsPInv
<1>3. CASE Crash \/ Restart
  BY <1>3, CrashKeepsPInv, RestartKeepsPInv
<1>4. CASE RestartEmpty \/ UNCHANGED allVars
  BY <1>4, IdleKeepsPInv DEF RestartEmpty, allVars, dbVars
<1>5. QED
  BY <1>1, <1>2, <1>3, <1>4 DEF PNext, PFillNext

-------------------------------------------------------------------------------
(* Whatever fills, overrides, racing saves, failures, crashes and restarts   *)
(* do, the entries are well formed and both indices of the ledger list its   *)
(* open positions and nothing else.                                         *)
THEOREM PConsistentAlways == PSpec => []PConsistent
<1> DEFINE Bounded == crashes \in 0..MaxCrashes
<1>1. PInit => Bounded
  BY PersistenceAssumption DEF PInit
<1>2. Bounded /\ [PNext]_allVars => Bounded'
  BY PersistenceAssumption
     DEF PNext, PFillNext, Fill, UnknownFill, Persist, Crash, Restart, RestartEmpty,
         Override, allVars, dbVars
<1>3. PInv /\ Bounded => PConsistent
  BY DEF PInv, PConsistent, PTypeOK, TypeOK, LedgerTypeOK, DbTypeOK, TaskRecord
<1>4. QED
  BY PInitInv, PStepKeepsInv, <1>1, <1>2, <1>3, PTL DEF PSpec

(* A position at rest, with its last save not lost, is in the table as it is *)
(* in memory, for any number of saves that raced or failed before.           *)
THEOREM SavedWhenSettledAlways == PSpec => []SavedWhenSettled
<1>1. PInv => SavedWhenSettled
  BY DEF PInv
<1>2. QED
  BY PInitInv, PStepKeepsInv, <1>1, PTL DEF PSpec

(* A row that was seen closed, or partly closed, never becomes OPEN again,   *)
(* whatever saves are still at work when it does.                           *)
THEOREM NeverReopenedAlways == PSpec => NeverReopened
<1> DEFINE Kept == \A p \in DOMAIN db : db[p].status # "OPEN" => db'[p].status # "OPEN"
<1>1. ASSUME PInv, [PNext]_allVars PROVE [Kept]_allVars
  <2>1. CASE db' = db
    BY <2>1
  <2>2. CASE db' # db
    <3>1. PICK k \in Task : Commit(k)
      BY <1>1, <2>2
         DEF PNext, PFillNext, Fill, UnknownFill, Persist, SelectRow, AssignColumns,
             PersistFails, Crash, Restart, RestartEmpty, Override, allVars, dbVars
    <3> DEFINE p == tasks[k].pid
    <3>2. /\ \A x \in DOMAIN db : x # p => db'[x] = db[x]
          /\ p \in DOMAIN db => Later(db[p], db'[p])
      BY <1>1, <3>1, CommitRow
    <3>3. QED
      BY <3>2 DEF Later
  <2>3. QED
    BY <2>1, <2>2
<1>2. QED
  BY PInitInv, PStepKeepsInv, <1>1, PTL DEF PSpec, NeverReopened

(* A restart brings back what was saved as OPEN when the process crashed,    *)
(* as it was, and nothing of what was saved as closed.                       *)
THEOREM RestoreExactAlways == PSpec => RestoreExact
<1> DEFINE Exact == ~up /\ up' /\ RestoreFromDatabase =>
                      \A p \in DOMAIN atCrash :
                        /\ atCrash[p].status = "OPEN" =>
                             p \in DOMAIN positions' /\ positions'[p] = atCrash[p]
                        /\ atCrash[p].status = "CLOSED" => p \notin DOMAIN positions'
<1>1. ASSUME PInv PROVE Exact
  <2>1. ASSUME ~up, RestoreFromDatabase, NEW p \in DOMAIN atCrash
        PROVE  /\ atCrash[p].status = "OPEN" =>
                    p \in DOMAIN positions' /\ positions'[p] = atCrash[p]
               /\ atCrash[p].status = "CLOSED" => p \notin DOMAIN positions'
    <3>1. p \in DOMAIN db /\ db[p] = atCrash[p]
      BY <1>1, <2>1 DEF PInv, Down
    <3>2. QED
      BY <2>1, <3>1 DEF RestoreFromDatabase
  <2>2. QED
    BY <2>1
<1>2. QED
  BY PInitInv, PStepKeepsInv, <1>1, PTL DEF PSpec, RestoreExact
===============================================================================
