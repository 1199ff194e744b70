----------------------------- MODULE OrderProofs -----------------------------
(***************************************************************************)
(* Proofs about what places orders, TradingEngine and HedgeExecution, each  *)
(* for any value of its constants.                                          *)
(*                                                                          *)
(* TradingEngine.  The inductive invariant is EngineInv.  That believed     *)
(* coins are in the account is not inductive, since a live sale takes coins *)
(* away later: what is believed is covered by the coins that are free       *)
(* (Covered).  Signals are counted before they are tried (Counted).         *)
(*                                                                          *)
(* HedgeExecution.  The inductive invariant is PairInv.  What the legs say  *)
(* is only true because the task moves through the orders one after the     *)
(* other: an order ahead of the current one is untouched (Phase), so that   *)
(* it is placed at most once and the exchange executes no more of it than   *)
(* was ordered (Volume), so that a fill is booked on top of nothing         *)
(* (Bookings), and so that the order which succeeded is the current one     *)
(* (Outcome).  With it goes Seen: a hedge at the exchange is booked, unless  *)
(* its answer was not seen.  That a pair is answered is proved leg by leg:   *)
(* within a leg the stages come round at most once.                          *)
(***************************************************************************)
EXTENDS TradingEngine, HedgeExecution, SetProofs

-------------------------------------------------------------------------------
(* TradingEngine                                                            *)

Column(s) == {k \in Pair : k[2] = s}

Covered == \A s \in Symbol \ blurred : SumOf(tracked, Column(s)) <= free[s]

Bounded(n) == n <= IF restored > MaxPositions THEN restored ELSE MaxPositions

Counted ==
  /\ Bounded(Cardinality(Tracked))
  /\ pc = "entries" => Cardinality(Tracked) <= total

EngineInv == TypeOK /\ Covered /\ Counted

-------------------------------------------------------------------------------
(* What a part of an amount buys costs no more than the amount.              *)
LEMMA CostWithin ==
  ASSUME NEW a \in Nat, NEW p \in Nat \ {0}, NEW f \in 1..(a \div p)
  PROVE  f * p \in Nat /\ f * p <= a
<1>1. PICK d \in Nat : d = a \div p
  OBVIOUS
<1>2. PICK e \in Nat : d = f + e
  <2>1. f \in Nat /\ f <= d  BY <1>1
  <2>2. d - f \in Nat /\ d = f + (d - f)  BY <2>1
  <2>3. QED  BY <2>2
<1>3. p * d <= a
  BY <1>1
<1>4. f \in Nat /\ f * p \in Nat /\ e * p \in Nat
  BY <1>1
<1>5. p * d = f * p + e * p
  BY <1>2, <1>4
<1>6. QED  BY <1>3, <1>4, <1>5

(* There are finitely many pairs.                                           *)
LEMMA PairsFinite ==
  /\ IsFiniteSet(Pair)
  /\ \A s : IsFiniteSet(Column(s)) /\ Column(s) \subseteq Pair
<1>1. IsFiniteSet(Strategy)
  BY EngineAssumption, FS_Interval DEF Strategy
<1>2. IsFiniteSet(Pair)
  BY <1>1, EngineAssumption, FS_Product DEF Pair
<1>3. QED  BY <1>2, FS_Subset DEF Column

(* What is tracked is finitely much.                                        *)
LEMMA TrackedFinite ==
  /\ IsFiniteSet(Tracked) /\ Cardinality(Tracked) \in Nat
  /\ \A s : IsFiniteSet(Column(s))
BY PairsFinite, FS_Subset, FS_CardinalityType DEF Tracked

(* What is believed of a coin is a sum over its column.                     *)
LEMMA BelievedIsSum == \A s : BelievedIn(s) = SumOf(tracked, Column(s))
BY DEF BelievedIn, SumOf, Column

(* The sums are numbers.                                                    *)
LEMMA SumsAreNat == tracked \in [Pair -> Nat] => \A s : SumOf(tracked, Column(s)) \in Nat
<1> SUFFICES ASSUME tracked \in [Pair -> Nat], NEW s PROVE SumOf(tracked, Column(s)) \in Nat
  OBVIOUS
<1>1. IsFiniteSet(Column(s)) /\ \A k \in Column(s) : tracked[k] \in Nat
  BY PairsFinite
<1>2. QED  BY <1>1, SumType

-------------------------------------------------------------------------------
(* Orders at the exchange.                                                  *)

(* A refused order changes nothing; one that is seen takes what was filled;  *)
(* one that is not seen locks what it may take.                             *)
LEMMA BuyFacts ==
  ASSUME ExchangeTypeOK, NEW s \in Symbol, NEW amount \in Nat, NEW r,
         r \in [success : BOOLEAN, filled : Nat],
         PlaceMarketBuy(s, amount, r)
  PROVE  /\ ExchangeTypeOK'
         /\ free' \in [Symbol -> Nat] /\ free'[s] = free[s] + r.filled
         /\ \A t \in Symbol \ {s} : free'[t] = free[t]
<1>1. CASE Refused(r)
  BY <1>1 DEF Refused, Failed, exchangeVars, ExchangeTypeOK
<1>2. CASE amount <= krw /\ \E f \in 1..(amount \div Price) :
             /\ r = [success |-> TRUE, filled |-> f]
             /\ krw' = krw - f * Price
             /\ free' = [free EXCEPT ![s] = @ + f]
             /\ UNCHANGED <<buying, selling>>
  <2>1. PICK f \in 1..(amount \div Price) :
             /\ r = [success |-> TRUE, filled |-> f]
             /\ krw' = krw - f * Price
             /\ free' = [free EXCEPT ![s] = @ + f]
             /\ UNCHANGED <<buying, selling>>
    BY <1>2
  <2>2. f \in Nat  BY <2>1, ExchangeAssumption
  <2>3. PICK c \in Nat : c = f * Price /\ c <= amount
    BY CostWithin, ExchangeAssumption
  <2>4. krw' \in Nat
    <3>1. krw' = krw - c /\ amount <= krw /\ krw \in Nat
      BY <1>2, <2>1, <2>3 DEF ExchangeTypeOK
    <3>2. QED  BY <2>3, <3>1
  <2>5. free' \in [Symbol -> Nat]  BY <2>1, <2>2 DEF ExchangeTypeOK
  <2>6. QED  BY <2>1, <2>4, <2>5 DEF ExchangeTypeOK
<1>3. CASE /\ amount <= krw /\ Unseen(r)
           /\ krw' = krw - amount
           /\ buying' = [buying EXCEPT ![s] = @ + amount]
           /\ UNCHANGED <<free, selling>>
  <2>1. r.filled = 0  BY <1>3 DEF Unseen, Failed
  <2>2. krw' \in Nat  BY <1>3 DEF ExchangeTypeOK
  <2>3. buying' \in [Symbol -> Nat]  BY <1>3 DEF ExchangeTypeOK
  <2>4. QED  BY <1>3, <2>1, <2>2, <2>3 DEF ExchangeTypeOK
<1>4. QED  BY <1>1, <1>2, <1>3 DEF PlaceMarketBuy

(* A sale takes no more of the free coins than it was given.                 *)
LEMMA SellFacts ==
  ASSUME ExchangeTypeOK, NEW s \in Symbol, NEW quantity \in Nat, NEW r,
         PlaceMarketSell(s, quantity, r)
  PROVE  /\ ExchangeTypeOK'
         /\ free' \in [Symbol -> Nat]
         /\ \A t \in Symbol \ {s} : free'[t] = free[t]
         /\ \/ r = Failed /\ UNCHANGED exchangeVars
            \/ quantity <= free[s] /\ free'[s] + quantity >= free[s]
         /\ r = Failed /\ selling' = selling => free' = free
<1>1. CASE Refused(r)
  BY <1>1 DEF Refused, Failed, exchangeVars, ExchangeTypeOK
<1>2. CASE /\ 0 < quantity /\ quantity <= free[s]
           /\ \E f \in 1..quantity :
             /\ r = [success |-> TRUE, filled |-> f]
             /\ krw' = krw + f * Price
             /\ free' = [free EXCEPT ![s] = @ - f]
             /\ UNCHANGED <<buying, selling>>
  <2>1. PICK f \in 1..quantity :
             /\ r = [success |-> TRUE, filled |-> f]
             /\ krw' = krw + f * Price
             /\ free' = [free EXCEPT ![s] = @ - f]
             /\ UNCHANGED <<buying, selling>>
    BY <1>2
  <2>2. f \in Nat /\ f * Price \in Nat  BY ExchangeAssumption
  <2>3. krw' \in Nat  BY <2>1, <2>2 DEF ExchangeTypeOK
  <2>4. /\ free[s] - f \in Nat /\ free[s] - f + quantity >= free[s]
    BY <1>2, <2>2 DEF ExchangeTypeOK
  <2>5. free' \in [Symbol -> Nat] /\ free'[s] = free[s] - f
    BY <2>1, <2>4 DEF ExchangeTypeOK
  <2>6. r # Failed  BY <2>1 DEF Failed
  <2>7. QED  BY <1>2, <2>1, <2>3, <2>4, <2>5, <2>6 DEF ExchangeTypeOK
<1>3. CASE /\ 0 < quantity /\ quantity <= free[s]
           /\ Unseen(r)
           /\ free' = [free EXCEPT ![s] = @ - quantity]
           /\ selling' = [selling EXCEPT ![s] = @ + quantity]
           /\ UNCHANGED <<krw, buying>>
  <2>1. free[s] - quantity \in Nat /\ free[s] - quantity + quantity >= free[s]
    BY <1>3 DEF ExchangeTypeOK
  <2>2. free' \in [Symbol -> Nat] /\ free'[s] = free[s] - quantity
    BY <1>3, <2>1 DEF ExchangeTypeOK
  <2>3. selling' \in [Symbol -> Nat] /\ selling'[s] # selling[s]
    BY <1>3 DEF ExchangeTypeOK
  <2>4. QED  BY <1>3, <2>1, <2>2, <2>3 DEF ExchangeTypeOK
<1>4. QED  BY <1>1, <1>2, <1>3 DEF PlaceMarketSell

(* What happens to live orders frees coins or leaves the free ones alone.    *)
LEMMA LiveFacts ==
  ASSUME ExchangeTypeOK, NEW s \in Symbol, LiveOrders(s)
  PROVE  ExchangeTypeOK' /\ \A t \in Symbol : free'[t] >= free[t]
<1>1. CASE LateBuy(s)
  <2>1. buying[s] - Price \in Nat  BY <1>1, ExchangeAssumption DEF LateBuy, ExchangeTypeOK
  <2>2. QED  BY <1>1, <2>1 DEF LateBuy, ExchangeTypeOK
<1>2. CASE LateSell(s)
  <2>1. selling[s] - 1 \in Nat  BY <1>2 DEF LateSell, ExchangeTypeOK
  <2>2. QED  BY <1>2, <2>1, ExchangeAssumption DEF LateSell, ExchangeTypeOK
<1>3. CASE LateCancel(s)
  BY <1>3 DEF LateCancel, ExchangeTypeOK
<1>4. QED  BY <1>1, <1>2, <1>3 DEF LiveOrders

-------------------------------------------------------------------------------
(* What a step does to what is believed.                                    *)

(* Free coins that do not become fewer cover what they covered.             *)
LEMMA CoveredStays ==
  ASSUME TypeOK, Covered, tracked' = tracked, free' \in [Symbol -> Nat],
         blurred \subseteq blurred',
         \A s \in Symbol \ blurred' : free'[s] >= free[s]
  PROVE  Covered'
<1> SUFFICES ASSUME NEW s \in Symbol \ blurred' PROVE SumOf(tracked, Column(s)) <= free'[s]
  BY DEF Covered, Column
<1>1. SumOf(tracked, Column(s)) \in Nat
  BY SumsAreNat DEF TypeOK
<1>2. SumOf(tracked, Column(s)) <= free[s] /\ free[s] \in Nat
  BY DEF Covered, TypeOK, ExchangeTypeOK
<1>3. QED  BY <1>1, <1>2

(* A strategy that changes its belief in one coin changes one sum by as much. *)
LEMMA CoveredChanges ==
  ASSUME TypeOK, Covered, NEW k \in Pair, NEW v \in Nat,
         tracked' \in [Pair -> Nat], tracked'[k] = v,
         \A j \in Pair \ {k} : tracked'[j] = tracked[j],
         free' \in [Symbol -> Nat],
         \A s \in Symbol \ {k[2]} : free'[s] = free[s],
         blurred \subseteq blurred',
         k[2] \notin blurred' => SumOf(tracked', Column(k[2])) <= free'[k[2]]
  PROVE  Covered'
<1> SUFFICES ASSUME NEW s \in Symbol \ blurred' PROVE SumOf(tracked', Column(s)) <= free'[s]
  BY DEF Covered, Column
<1>1. CASE s = k[2]
  BY <1>1
<1>2. CASE s # k[2]
  <2>1. \A j \in Column(s) : tracked'[j] = tracked[j]
    BY <1>2 DEF Column
  <2>2. SumOf(tracked', Column(s)) = SumOf(tracked, Column(s))
    BY <2>1, PairsFinite, SumSame
  <2>3. QED  BY <1>2, <2>2 DEF Covered
<1>3. QED  BY <1>1, <1>2

(* The sum of the column that changes.                                      *)
LEMMA ColumnChanges ==
  ASSUME tracked \in [Pair -> Nat], NEW k \in Pair,
         tracked' \in [Pair -> Nat],
         \A j \in Pair \ {k} : tracked'[j] = tracked[j]
  PROVE  /\ SumOf(tracked', Column(k[2])) + tracked[k] = SumOf(tracked, Column(k[2])) + tracked'[k]
         /\ SumOf(tracked', Column(k[2])) \in Nat /\ SumOf(tracked, Column(k[2])) \in Nat
<1> DEFINE S == Column(k[2])
<1>1. k \in S /\ IsFiniteSet(S) /\ S \subseteq Pair
  BY PairsFinite DEF Column
<1>2. /\ \A x \in S : tracked[x] \in Nat
      /\ tracked'[k] \in Nat
      /\ \A x \in S \ {k} : tracked'[x] = tracked[x]
  BY <1>1
<1> HIDE DEF S
<1>3. /\ SumOf(tracked', S) + tracked[k] = SumOf(tracked, S) + tracked'[k]
      /\ SumOf(tracked', S) \in Nat /\ SumOf(tracked, S) \in Nat
  BY <1>1, <1>2, SumChange
<1>4. QED  BY <1>3 DEF S

(* Forgetting a position does not make them more.                           *)
LEMMA CountStays ==
  ASSUME Counted, Tracked' \subseteq Tracked, restored \in Nat, restored' = restored
  PROVE  /\ Bounded(Cardinality(Tracked))'
         /\ Cardinality(Tracked)' \in Nat /\ Cardinality(Tracked)' <= Cardinality(Tracked)
<1>1. /\ Cardinality(Tracked)' \in Nat /\ Cardinality(Tracked)' <= Cardinality(Tracked)
      /\ Cardinality(Tracked) \in Nat
  BY TrackedFinite, FS_Subset, FS_CardinalityType
<1>2. QED
  <2>1. CASE restored > MaxPositions
    BY <1>1, <2>1, EngineAssumption DEF Counted, Bounded
  <2>2. CASE ~(restored > MaxPositions)
    BY <1>1, <2>2, EngineAssumption DEF Counted, Bounded
  <2>3. QED  BY <2>1, <2>2

(* A step that changes no belief.                                           *)
LEMMA BeliefStays ==
  ASSUME Counted, tracked' = tracked, restored \in Nat, restored' = restored,
         pc' = "entries" => (pc = "entries" /\ total' >= total) \/ total' >= Cardinality(Tracked),
         total \in Nat, total' \in Nat
  PROVE  Counted'
<1>1. Tracked' = Tracked  BY DEF Tracked
<1>2. /\ Bounded(Cardinality(Tracked))'
      /\ Cardinality(Tracked)' = Cardinality(Tracked) /\ Cardinality(Tracked) \in Nat
  BY <1>1, CountStays, TrackedFinite
<1>3. QED  BY <1>2 DEF Counted

-------------------------------------------------------------------------------
(* Initially nothing is tracked.                                            *)
LEMMA InitEngine == Init => EngineInv
<1> SUFFICES ASSUME Init PROVE EngineInv
  OBVIOUS
<1>1. tracked \in [Pair -> Nat] /\ \A k \in Pair : tracked[k] = 0
  BY DEF Init
<1>2. free \in [Symbol -> Nat]
  BY DEF Init
<1>3. TypeOK
  BY <1>1, <1>2, EngineAssumption DEF Init, TypeOK, ExchangeTypeOK, NoSells
<1>4. Covered
  <2> SUFFICES ASSUME NEW s \in Symbol PROVE SumOf(tracked, Column(s)) <= free[s]
    BY DEF Covered
  <2>1. IsFiniteSet(Column(s)) /\ \A k \in Column(s) : tracked[k] = 0
    BY <1>1, PairsFinite
  <2>2. SumOf(tracked, Column(s)) = 0  BY <2>1, SumOfZeros
  <2>3. QED  BY <1>2, <2>2
<1>5. Counted
  <2>1. Tracked = {}  BY <1>1 DEF Tracked
  <2>2. Cardinality(Tracked) = 0  BY <2>1, FS_EmptySet
  <2>3. QED  BY <2>2, EngineAssumption DEF Counted, Bounded, Init
<1>6. QED  BY <1>3, <1>4, <1>5 DEF EngineInv

(* Steps of the pass, of the clock and of the user leave account and beliefs  *)
(* alone.                                                                   *)
LEMMA QuietSteps ==
  ASSUME EngineInv,
         \/ SkipStrategies \/ ExecuteStrategies \/ StrategiesDone \/ ExitsDone
         \/ Flatten \/ FlattenDone \/ SetMode
         \/ \E k \in Pair : EntrySkipped(k) \/ ExitSkipped(k) \/ TimeStop(k)
  PROVE  EngineInv'
<1>1. /\ TypeOK /\ Covered /\ Counted /\ total \in Nat /\ restored \in Nat
      /\ Cardinality(Tracked) \in Nat /\ Tracked \subseteq Pair
  BY TrackedFinite DEF EngineInv, TypeOK, Tracked
<1>2. tracked' = tracked /\ restored' = restored /\ blurred' = blurred /\ UNCHANGED exchangeVars
  BY DEF SkipStrategies, ExecuteStrategies, StrategiesDone, ExitsDone, Flatten, FlattenDone,
         SetMode, EntrySkipped, ExitSkipped, TimeStop, ToExits, NextSignal, NextExit,
         exchangeVars, beliefVars, fixedVars, bookVars, loopVars
<1>3. TypeOK'
  <2>1. CASE SkipStrategies
    BY <1>1, <2>1 DEF SkipStrategies, ToExits, exchangeVars, beliefVars, fixedVars, bookVars, TypeOK, ExchangeTypeOK
  <2>2. CASE ExecuteStrategies
    BY <1>1, <2>2 DEF ExecuteStrategies, Scannable, exchangeVars, beliefVars, fixedVars, bookVars, TypeOK, ExchangeTypeOK
  <2>3. CASE StrategiesDone
    BY <1>1, <2>3 DEF StrategiesDone, ToExits, exchangeVars, beliefVars, fixedVars, bookVars, TypeOK, ExchangeTypeOK
  <2>4. CASE ExitsDone
    BY <1>1, <2>4 DEF ExitsDone, exchangeVars, fixedVars, bookVars, TypeOK, ExchangeTypeOK
  <2>5. CASE Flatten
    <3>1. \A s \in Symbol : Total(s) \in Nat
      BY <1>1 DEF Total, TypeOK, ExchangeTypeOK
    <3>2. sells' \in [Symbol -> Nat]
      BY <2>5, <3>1 DEF Flatten
    <3>3. QED
      BY <1>1, <2>5, <3>2 DEF Flatten, exchangeVars, beliefVars, fixedVars, bookVars, TypeOK, ExchangeTypeOK
  <2>6. CASE FlattenDone
    BY <1>1, <2>6 DEF FlattenDone, exchangeVars, beliefVars, fixedVars, bookVars, TypeOK, ExchangeTypeOK
  <2>7. CASE SetMode
    BY <1>1, <2>7 DEF SetMode, exchangeVars, beliefVars, fixedVars, bookVars, loopVars, TypeOK, ExchangeTypeOK
  <2>8. ASSUME NEW k \in Pair, EntrySkipped(k)
        PROVE  TypeOK'
    BY <1>1, <2>8 DEF EntrySkipped, NextSignal, exchangeVars, beliefVars, fixedVars, bookVars, TypeOK, ExchangeTypeOK
  <2>9. ASSUME NEW k \in Pair, ExitSkipped(k)
        PROVE  TypeOK'
    BY <1>1, <2>9 DEF ExitSkipped, NextExit, exchangeVars, beliefVars, fixedVars, bookVars, TypeOK, ExchangeTypeOK
  <2>10. ASSUME NEW k \in Pair, TimeStop(k)
         PROVE  TypeOK'
    BY <1>1, <2>10 DEF TimeStop, exchangeVars, beliefVars, fixedVars, bookVars, loopVars, TypeOK, ExchangeTypeOK
  <2>11. QED
    BY <2>1, <2>2, <2>3, <2>4, <2>5, <2>6, <2>7, <2>8, <2>9, <2>10
<1>4. Covered'
  <2>1. free' = free /\ free \in [Symbol -> Nat]  BY <1>1, <1>2 DEF exchangeVars, TypeOK, ExchangeTypeOK
  <2>2. \A s \in Symbol : free'[s] >= free[s]  BY <2>1
  <2>3. QED  BY <1>1, <1>2, <2>1, <2>2, CoveredStays
<1>5. pc' = "entries" => (pc = "entries" /\ total' >= total) \/ total' >= Cardinality(Tracked)
  BY <1>1 DEF SkipStrategies, ExecuteStrategies, StrategiesDone, ExitsDone, Flatten, FlattenDone,
         SetMode, EntrySkipped, ExitSkipped, TimeStop, ToExits, NextSignal, NextExit,
         exchangeVars, beliefVars, fixedVars, bookVars, loopVars
<1>6. total' \in Nat  BY <1>3 DEF TypeOK
<1>7. Counted'
  BY <1>1, <1>2, <1>5, <1>6, BeliefStays
<1>8. QED  BY <1>3, <1>4, <1>7 DEF EngineInv

(* The handlers build their FillEvent without a field it asks for.           *)
LEMMA NothingIsRecorded ==
  ASSUME NEW k \in Pair, NEW n
  PROVE  /\ EntryRecorded(k, n) => UNCHANGED bookVars
         /\ ExitRecorded(k, n) => todo' = {} /\ pc' = "idle" /\ UNCHANGED bookVars
<1>1. FillEventRaises
  BY DEF FillEventRaises, GivenFields, RequiredFields
<1>2. QED  BY <1>1 DEF EntryRecorded, ExitRecorded

(* An order that is seen filled covers what the strategy believes.           *)
LEMMA ExecuteSignalKeeps ==
  ASSUME EngineInv, NEW k \in Pair, ExecuteSignal(k)
  PROVE  EngineInv'
<1> DEFINE s == k[2]
<1>1. s \in Symbol  BY DEF Pair
<1>2. /\ TypeOK /\ Covered /\ Counted /\ ExchangeTypeOK
      /\ tracked \in [Pair -> Nat] /\ free \in [Symbol -> Nat] /\ total \in Nat /\ restored \in Nat
  BY DEF EngineInv, TypeOK, ExchangeTypeOK
<1>3. PICK size \in Sizes, r \in [success : BOOLEAN, filled : 0..StartKrw] :
       /\ size \div Price > 0
       /\ PlaceMarketBuy(s, size \div Price, r)
       /\ \/ /\ r.success
             /\ tracked' = [tracked EXCEPT ![k] = Believed(r, size \div Price)]
             /\ cooling' = cooling \cup {k}
             /\ blurred' = IF r.filled > 0 THEN blurred ELSE blurred \cup {s}
             /\ EntryRecorded(k, Believed(r, size \div Price))
          \/ /\ ~r.success
             /\ UNCHANGED <<tracked, cooling, blurred, bookVars>>
  BY DEF ExecuteSignal
<1>4. /\ pc = "entries" /\ pc' = pc /\ total < MaxPositions /\ total' = total + 1
      /\ todo' = todo \ {k} /\ sells' = sells
      /\ expired' = expired /\ paper' = paper /\ UNCHANGED bookVars
      /\ crashes' = crashes /\ restored' = restored
  BY <1>3, NothingIsRecorded DEF ExecuteSignal, NextSignal
<1>5. PICK amount \in Nat : amount = size \div Price
  BY EngineAssumption, ExchangeAssumption
<1>6. r \in [success : BOOLEAN, filled : Nat] /\ r.filled \in Nat
  BY EngineAssumption
<1>7. /\ ExchangeTypeOK'
      /\ free' \in [Symbol -> Nat] /\ free'[s] = free[s] + r.filled
      /\ \A t \in Symbol \ {s} : free'[t] = free[t]
  BY <1>1, <1>2, <1>3, <1>5, <1>6, BuyFacts
<1>8. PICK v \in Nat : v = Believed(r, amount) /\ (r.filled > 0 => v = r.filled)
  BY <1>5, <1>6 DEF Believed
<1>9. blurred \subseteq blurred' /\ blurred' \subseteq Symbol
  BY <1>1, <1>2, <1>3 DEF TypeOK
<1>10. CASE r.success
  <2>1. /\ tracked' \in [Pair -> Nat] /\ tracked'[k] = v
        /\ \A j \in Pair \ {k} : tracked'[j] = tracked[j]
    BY <1>2, <1>3, <1>5, <1>8, <1>10
  <2>2. TypeOK'
    <3>1. cooling' \subseteq Pair  BY <1>2, <1>3, <1>10 DEF TypeOK
    <3>2. total' \in Nat  BY <1>2, <1>4
    <3>3. QED  BY <1>2, <1>4, <1>7, <1>9, <2>1, <3>1, <3>2 DEF TypeOK, bookVars
  <2>3. s \notin blurred' => SumOf(tracked', Column(s)) <= free'[s]
    <3>1. SUFFICES ASSUME s \notin blurred' PROVE SumOf(tracked', Column(s)) <= free'[s]
      OBVIOUS
    <3>2. s \notin blurred /\ v = r.filled
      BY <1>3, <1>6, <1>8, <1>10, <3>1
    <3>3. PICK a \in Nat, b \in Nat :
             /\ a = SumOf(tracked, Column(s)) /\ b = SumOf(tracked', Column(s))
             /\ b + tracked[k] = a + v
      BY <1>2, <2>1, ColumnChanges
    <3>4. a <= free[s] /\ free[s] \in Nat /\ tracked[k] \in Nat
      BY <1>1, <1>2, <3>2, <3>3 DEF Covered
    <3>5. QED  BY <1>6, <1>7, <3>2, <3>3, <3>4
  <2>4. Covered'
    BY <1>1, <1>2, <1>7, <1>9, <2>1, <2>3, CoveredChanges
  <2>5. Counted'
    <3>1. Tracked' \subseteq Tracked \cup {k}
      BY <2>1 DEF Tracked
    <3>2. /\ Cardinality(Tracked) \in Nat /\ Cardinality(Tracked)' \in Nat
          /\ Cardinality(Tracked)' <= Cardinality(Tracked) + 1
      BY <3>1, TrackedFinite, OneMore
    <3>3. Cardinality(Tracked) <= total  BY <1>2, <1>4 DEF Counted
    <3>4. Cardinality(Tracked)' <= total' /\ total' <= MaxPositions
      BY <1>2, <1>4, <3>2, <3>3, EngineAssumption
    <3>5. QED
      <4>1. CASE restored > MaxPositions
        BY <1>2, <1>4, <3>2, <3>4, <4>1, EngineAssumption DEF Counted, Bounded
      <4>2. CASE ~(restored > MaxPositions)
        BY <1>2, <1>4, <3>2, <3>4, <4>2, EngineAssumption DEF Counted, Bounded
      <4>3. QED  BY <4>1, <4>2
  <2>6. QED  BY <2>2, <2>4, <2>5 DEF EngineInv
<1>11. CASE ~r.success
  <2>1. UNCHANGED <<tracked, cooling, blurred>>
    BY <1>3, <1>11
  <2>2. TypeOK'
    <3>1. total' \in Nat  BY <1>2, <1>4
    <3>2. QED  BY <1>2, <1>4, <1>7, <2>1, <3>1 DEF TypeOK, bookVars
  <2>3. Covered'
    <3>1. \A t \in Symbol : free'[t] >= free[t]  BY <1>1, <1>2, <1>6, <1>7
    <3>2. QED  BY <1>2, <1>7, <2>1, <3>1, CoveredStays
  <2>4. Counted'
    <3>1. total' \in Nat /\ total' >= total  BY <1>2, <1>4
    <3>2. QED  BY <1>2, <1>4, <2>1, <3>1, BeliefStays
  <2>5. QED  BY <2>2, <2>3, <2>4 DEF EngineInv
<1>12. QED  BY <1>10, <1>11, <1>6

(* A sale of a coin nobody shares leaves nothing to cover; one that is        *)
(* shared takes no more than was believed, or the coin is blurred.           *)
LEMMA ExitSoldKeeps ==
  ASSUME EngineInv, NEW k \in Pair, ExitSold(k)
  PROVE  EngineInv'
<1> DEFINE s == k[2]
<1>1. s \in Symbol  BY DEF Pair
<1>2. /\ TypeOK /\ Covered /\ Counted /\ ExchangeTypeOK
      /\ tracked \in [Pair -> Nat] /\ free \in [Symbol -> Nat] /\ total \in Nat /\ restored \in Nat
  BY DEF EngineInv, TypeOK, ExchangeTypeOK
<1>3. PICK q \in SellQuantity(k), r \in [success : {TRUE}, filled : 0..StartKrw] :
       /\ PlaceMarketSell(s, q, r)
       /\ blurred' = IF Shared(k) /\ q > tracked[k] THEN blurred \cup {s} ELSE blurred
       /\ ExitRecorded(k, r.filled)
  BY DEF ExitSold
<1>4. /\ tracked' = [tracked EXCEPT ![k] = 0]
      /\ expired' = expired \ {k} /\ todo' = {} /\ pc' = "idle"
      /\ total' = total /\ sells' = sells
      /\ cooling' = cooling /\ paper' = paper /\ UNCHANGED bookVars
      /\ crashes' = crashes /\ restored' = restored
  BY <1>3, NothingIsRecorded DEF ExitSold, NextExit
<1>5. q \in Nat
  <2>1. Total(s) \in Nat  BY <1>1, <1>2 DEF Total, ExchangeTypeOK
  <2>2. QED  BY <1>2, <1>3, <2>1 DEF SellQuantity
<1>6. /\ ExchangeTypeOK' /\ free' \in [Symbol -> Nat]
      /\ \A t \in Symbol \ {s} : free'[t] = free[t]
      /\ q <= free[s] /\ free'[s] + q >= free[s]
  <2>1. r # Failed
    <3>1. r.success = TRUE  OBVIOUS
    <3>2. Failed.success = FALSE  BY DEF Failed
    <3>3. QED  BY <3>1, <3>2
  <2>2. /\ ExchangeTypeOK' /\ free' \in [Symbol -> Nat]
        /\ \A t \in Symbol \ {s} : free'[t] = free[t]
        /\ \/ r = Failed /\ UNCHANGED exchangeVars
           \/ q <= free[s] /\ free'[s] + q >= free[s]
    BY <1>1, <1>2, <1>3, <1>5, SellFacts
  <2>3. QED  BY <2>1, <2>2
<1>7. /\ tracked' \in [Pair -> Nat] /\ tracked'[k] = 0
      /\ \A j \in Pair \ {k} : tracked'[j] = tracked[j]
  BY <1>2, <1>4
<1>8. blurred \subseteq blurred' /\ blurred' \subseteq Symbol
  BY <1>1, <1>2, <1>3 DEF TypeOK
<1>9. TypeOK'
  BY <1>2, <1>4, <1>6, <1>7, <1>8 DEF TypeOK, bookVars
<1>10. s \notin blurred' => SumOf(tracked', Column(s)) <= free'[s]
  <2>1. SUFFICES ASSUME s \notin blurred' PROVE SumOf(tracked', Column(s)) <= free'[s]
    OBVIOUS
  <2>2. s \notin blurred /\ ~(Shared(k) /\ q > tracked[k])
    BY <1>3, <2>1
  <2>3. CASE ~Shared(k)
    <3>1. \A j \in Column(s) : tracked'[j] = 0
      <4>1. \A j \in Pair : j # k /\ j[2] = s => j \notin Tracked
        BY <2>3 DEF Shared, Tracked
      <4>2. \A j \in Pair : j # k /\ j[2] = s => tracked[j] = 0
        BY <1>2, <4>1 DEF Tracked
      <4>3. QED  BY <1>7, <4>2 DEF Column
    <3>2. SumOf(tracked', Column(s)) = 0
      BY <3>1, PairsFinite, SumOfZeros
    <3>3. free'[s] \in Nat  BY <1>1, <1>6
    <3>4. QED  BY <3>2, <3>3
  <2>4. CASE Shared(k)
    <3>1. q <= tracked[k] /\ tracked[k] \in Nat  BY <1>2, <1>5, <2>2, <2>4
    <3>2. PICK a \in Nat, b \in Nat :
             /\ a = SumOf(tracked, Column(s)) /\ b = SumOf(tracked', Column(s))
             /\ b + tracked[k] = a + 0
      BY <1>2, <1>7, ColumnChanges
    <3>3. a <= free[s] /\ free[s] \in Nat /\ free'[s] \in Nat
      BY <1>1, <1>2, <1>6, <2>2, <3>2 DEF Covered
    <3>4. QED  BY <1>5, <1>6, <3>1, <3>2, <3>3
  <2>5. QED  BY <2>3, <2>4
<1>11. Covered'
  BY <1>1, <1>2, <1>6, <1>7, <1>8, <1>10, CoveredChanges
<1>12. Counted'
  <2>1. Tracked' \subseteq Tracked  BY <1>7 DEF Tracked
  <2>2. QED  BY <1>2, <1>4, <2>1, CountStays DEF Counted
<1>13. QED  BY <1>9, <1>11, <1>12 DEF EngineInv

(* Free coins that become fewer blur the coin, unless nobody believes in it. *)
LEMMA CoveredOrBlurred ==
  ASSUME EngineInv, NEW s \in Symbol, tracked' = tracked, free' \in [Symbol -> Nat],
         \A t \in Symbol \ {s} : free'[t] = free[t],
         \/ blurred' = blurred \cup {s}
         \/ blurred' = blurred /\ free' = free
         \/ blurred' = blurred /\ \A k \in Tracked : k[2] # s
  PROVE  Covered'
<1>1. /\ TypeOK /\ Covered /\ free \in [Symbol -> Nat] /\ tracked \in [Pair -> Nat]
  BY DEF EngineInv, TypeOK, ExchangeTypeOK
<1>2. CASE blurred' = blurred \cup {s} \/ (blurred' = blurred /\ free' = free)
  <2>1. blurred \subseteq blurred'  BY <1>2
  <2>2. \A t \in Symbol \ blurred' : free'[t] >= free[t]  BY <1>1, <1>2
  <2>3. QED  BY <1>1, <2>1, <2>2, CoveredStays
<1>3. CASE blurred' = blurred /\ \A k \in Tracked : k[2] # s
  <2> SUFFICES ASSUME NEW t \in Symbol \ blurred' PROVE SumOf(tracked, Column(t)) <= free'[t]
    BY DEF Covered, Column
  <2>1. CASE t = s
    <3>1. \A k \in Column(s) : tracked[k] = 0
      BY <1>1, <1>3 DEF Column, Tracked
    <3>2. SumOf(tracked, Column(s)) = 0
      BY <3>1, PairsFinite, SumOfZeros
    <3>3. QED  BY <2>1, <3>2
  <2>2. CASE t # s
    BY <1>1, <1>3, <2>2 DEF Covered
  <2>3. QED  BY <2>1, <2>2
<1>4. QED  BY <1>2, <1>3

(* An exit that fails changes no belief, and blurs the coin when its order   *)
(* lives.                                                                   *)
LEMMA ExitFailedKeeps ==
  ASSUME EngineInv, NEW k \in Pair, ExitFailed(k)
  PROVE  EngineInv'
<1> DEFINE s == k[2]
<1>1. s \in Symbol  BY DEF Pair
<1>2. /\ TypeOK /\ Covered /\ Counted /\ ExchangeTypeOK
      /\ tracked \in [Pair -> Nat] /\ free \in [Symbol -> Nat] /\ total \in Nat /\ restored \in Nat
  BY DEF EngineInv, TypeOK, ExchangeTypeOK
<1>3. PICK q \in SellQuantity(k) : PlaceMarketSell(s, q, Failed)
  BY DEF ExitFailed
<1>4. /\ blurred' = IF selling' = selling THEN blurred ELSE blurred \cup {s}
      /\ todo' = todo \ {k} /\ tracked' = tracked
      /\ pc' = pc /\ pc = "exits" /\ total' = total /\ sells' = sells
      /\ cooling' = cooling /\ expired' = expired /\ paper' = paper /\ rows' = rows
      /\ booked' = booked /\ ledgerRows' = ledgerRows
      /\ crashes' = crashes /\ restored' = restored
  BY DEF ExitFailed, NextExit, AfterFailure, fixedVars, bookVars
<1>5. q \in Nat
  <2>1. Total(s) \in Nat  BY <1>1, <1>2 DEF Total, ExchangeTypeOK
  <2>2. QED  BY <1>2, <1>3, <2>1 DEF SellQuantity
<1>6. /\ ExchangeTypeOK' /\ free' \in [Symbol -> Nat]
      /\ \A t \in Symbol \ {s} : free'[t] = free[t]
      /\ selling' = selling => free' = free
  BY <1>1, <1>2, <1>3, <1>5, SellFacts
<1>7. TypeOK'
  <2>1. blurred' \subseteq Symbol  BY <1>1, <1>2, <1>4 DEF TypeOK
  <2>2. QED  BY <1>2, <1>4, <1>6, <2>1 DEF TypeOK
<1>8. Covered'
  BY <1>1, <1>4, <1>6, CoveredOrBlurred
<1>9. Counted'
  BY <1>2, <1>4, BeliefStays
<1>10. QED  BY <1>7, <1>8, <1>9 DEF EngineInv

(* FLATTEN blurs every coin it sells that somebody believes in.              *)
LEMMA FlattenOneKeeps ==
  ASSUME EngineInv, NEW s \in Symbol, FlattenOne(s)
  PROVE  EngineInv'
<1>2. /\ TypeOK /\ Covered /\ Counted /\ ExchangeTypeOK
      /\ tracked \in [Pair -> Nat] /\ free \in [Symbol -> Nat] /\ total \in Nat /\ restored \in Nat
      /\ sells \in [Symbol -> Nat]
  BY DEF EngineInv, TypeOK, ExchangeTypeOK
<1>3. PICK r \in [success : BOOLEAN, filled : 0..StartKrw] : PlaceMarketSell(s, sells[s], r)
  BY DEF FlattenOne
<1>4. /\ blurred' = IF free' # free /\ \E k \in Tracked : k[2] = s THEN blurred \cup {s} ELSE blurred
      /\ sells' = [sells EXCEPT ![s] = 0]
      /\ todo' = todo /\ tracked' = tracked
      /\ pc' = pc /\ pc = "flatten" /\ total' = total
      /\ cooling' = cooling /\ expired' = expired /\ paper' = paper /\ rows' = rows
      /\ booked' = booked /\ ledgerRows' = ledgerRows
      /\ crashes' = crashes /\ restored' = restored
  BY DEF FlattenOne, beliefVars, fixedVars, bookVars
<1>6. /\ ExchangeTypeOK' /\ free' \in [Symbol -> Nat]
      /\ \A t \in Symbol \ {s} : free'[t] = free[t]
  BY <1>2, <1>3, SellFacts
<1>7. TypeOK'
  <2>1. blurred' \subseteq Symbol  BY <1>2, <1>4 DEF TypeOK
  <2>2. sells' \in [Symbol -> Nat]  BY <1>2, <1>4
  <2>3. QED  BY <1>2, <1>4, <1>6, <2>1, <2>2 DEF TypeOK
<1>8. Covered'
  <2>1. \/ blurred' = blurred \cup {s}
        \/ blurred' = blurred /\ free' = free
        \/ blurred' = blurred /\ \A k \in Tracked : k[2] # s
    BY <1>4
  <2>2. QED  BY <1>4, <1>6, <2>1, CoveredOrBlurred
<1>9. Counted'
  BY <1>2, <1>4, BeliefStays
<1>10. QED  BY <1>7, <1>8, <1>9 DEF EngineInv

(* Orders that live sell nothing a strategy believes in.                     *)
LEMMA ExchangeKeeps ==
  ASSUME EngineInv, NEW s \in Symbol, Exchange(s)
  PROVE  EngineInv'
<1>1. /\ TypeOK /\ Covered /\ Counted /\ ExchangeTypeOK /\ total \in Nat /\ restored \in Nat
  BY DEF EngineInv, TypeOK
<1>2. LiveOrders(s) /\ UNCHANGED <<loopVars, beliefVars, fixedVars, blurred>>
  BY DEF Exchange
<1>3. ExchangeTypeOK' /\ \A t \in Symbol : free'[t] >= free[t]
  BY <1>1, <1>2, LiveFacts
<1>4. TypeOK'
  BY <1>1, <1>2, <1>3 DEF TypeOK, loopVars, beliefVars, fixedVars, bookVars
<1>5. Covered'
  <2>1. tracked' = tracked /\ blurred' = blurred /\ free' \in [Symbol -> Nat]
    BY <1>2, <1>3 DEF beliefVars, ExchangeTypeOK
  <2>2. QED  BY <1>1, <1>3, <2>1, CoveredStays
<1>6. Counted'
  <2>1. tracked' = tracked /\ restored' = restored /\ pc' = pc /\ total' = total
    BY <1>2 DEF beliefVars, fixedVars, bookVars, loopVars
  <2>2. total' >= total  BY <1>1, <2>1
  <2>3. QED  BY <1>1, <2>1, <2>2, BeliefStays
<1>7. QED  BY <1>4, <1>5, <1>6 DEF EngineInv

(* A crash forgets everything.                                              *)
LEMMA CrashKeeps ==
  ASSUME EngineInv, Crash
  PROVE  EngineInv'
<1>1. /\ TypeOK /\ Covered /\ Counted /\ ExchangeTypeOK /\ free \in [Symbol -> Nat]
      /\ crashes \in Nat /\ restored \in Nat
  BY DEF EngineInv, TypeOK, ExchangeTypeOK
<1>2. /\ tracked' \in [Pair -> Nat] /\ \A k \in Pair : tracked'[k] = 0
      /\ free' = free /\ blurred' = blurred /\ pc' = "down" /\ restored' = restored
  BY DEF Crash, exchangeVars
<1>3. TypeOK'
  <2>1. crashes' \in Nat  BY <1>1 DEF Crash
  <2>2. QED  BY <1>1, <1>2, <2>1 DEF Crash, TypeOK, ExchangeTypeOK, exchangeVars, NoSells
<1>4. Covered'
  <2> SUFFICES ASSUME NEW s \in Symbol PROVE SumOf(tracked', Column(s)) <= free'[s]
    BY DEF Covered, Column
  <2>1. SumOf(tracked', Column(s)) = 0
    <3>1. IsFiniteSet(Column(s)) /\ \A k \in Column(s) : tracked'[k] = 0
      BY <1>2, PairsFinite
    <3>2. QED  BY <3>1, SumOfZeros
  <2>2. QED  BY <1>1, <1>2, <2>1
<1>5. Counted'
  <2>1. Tracked' \subseteq Tracked  BY <1>2 DEF Tracked
  <2>2. QED  BY <1>1, <1>2, <2>1, CountStays DEF Counted
<1>6. QED  BY <1>3, <1>4, <1>5 DEF EngineInv

(* A restart gives the whole balance of a coin to one strategy, or blurs it. *)
LEMMA StartKeeps ==
  ASSUME EngineInv, Start
  PROVE  EngineInv'
<1>1. /\ TypeOK /\ Covered /\ Counted /\ ExchangeTypeOK
      /\ free \in [Symbol -> Nat] /\ selling \in [Symbol -> Nat]
      /\ rows \in [Symbol -> SUBSET Strategy] /\ MaxPositions \in Nat
  BY EngineAssumption DEF EngineInv, TypeOK, ExchangeTypeOK
<1>2. PICK R \in SUBSET Symbol :
        LET back == {k \in Restorable : k[2] \in R}
        IN  /\ tracked' = [k \in Pair |-> IF k \in back THEN Total(k[2]) ELSE 0]
            /\ restored' = Cardinality(back)
  BY DEF Start
<1> DEFINE back == {k \in Restorable : k[2] \in R}
<1>3. /\ free' = free /\ UNCHANGED exchangeVars
      /\ blurred' = {s \in Symbol : selling[s] > 0 \/ Cardinality(rows[s]) > 1}
      /\ pc' = "idle" /\ todo' = todo /\ total' = total /\ sells' = sells
      /\ cooling' = cooling /\ expired' = expired /\ paper' = paper /\ rows' = rows
      /\ ledgerRows' = ledgerRows /\ crashes' = crashes
      /\ booked' \in {ledgerRows, [k \in Pair |-> 0]}
  BY DEF Start, exchangeVars
<1>4. \A s \in Symbol : Total(s) \in Nat
  BY <1>1 DEF Total
<1>5. back \subseteq Pair /\ \A k \in back : k[1] \in rows[k[2]] /\ Total(k[2]) > 0
  BY DEF Restorable
<1>6. /\ tracked' \in [Pair -> Nat] /\ restored' = Cardinality(back)
      /\ \A k \in Pair : tracked'[k] = IF k \in back THEN Total(k[2]) ELSE 0
  <2>1. \A k \in Pair : k[2] \in Symbol  BY DEF Pair
  <2>2. QED  BY <1>2, <1>4, <2>1
<1>7. restored' \in Nat
  BY <1>5, <1>6, PairsFinite, FS_Subset, FS_CardinalityType
<1>8. TypeOK'
  <2>1. ledgerRows \in [Pair -> Nat]  BY <1>1 DEF TypeOK
  <2>2. booked' \in [Pair -> Nat]  BY <1>3, <2>1
  <2>3. QED  BY <1>1, <1>3, <1>6, <1>7, <2>2 DEF TypeOK, ExchangeTypeOK, exchangeVars
<1>9. Covered'
  <2> SUFFICES ASSUME NEW s \in Symbol \ blurred' PROVE SumOf(tracked', Column(s)) <= free'[s]
    BY DEF Covered, Column
  <2> DEFINE live == {k \in Column(s) : tracked'[k] > 0}
  <2>1. selling[s] = 0 /\ ~(Cardinality(rows[s]) > 1)
    BY <1>1, <1>3
  <2>2. Total(s) = free[s] /\ free[s] \in Nat
    BY <1>1, <2>1 DEF Total
  <2>3. IsFiniteSet(rows[s]) /\ Cardinality(rows[s]) \in Nat /\ Cardinality(rows[s]) <= 1
    <3>1. rows[s] \subseteq Strategy
      BY <1>1
    <3>2. IsFiniteSet(Strategy)
      BY EngineAssumption, FS_Interval DEF Strategy
    <3>3. IsFiniteSet(rows[s]) /\ Cardinality(rows[s]) \in Nat
      BY <3>1, <3>2, FS_Subset, FS_CardinalityType
    <3>4. QED  BY <2>1, <3>3
  <2>4. live \subseteq rows[s] \X {s}
    <3>1. SUFFICES ASSUME NEW k \in live PROVE k \in rows[s] \X {s}
      OBVIOUS
    <3>2. k \in Pair /\ k[2] = s /\ k \in back
      BY <1>6, <3>1 DEF Column
    <3>3. k = <<k[1], k[2]>> /\ k[1] \in rows[s]
      BY <1>5, <3>2 DEF Pair
    <3>4. QED  BY <3>2, <3>3
  <2>5. IsFiniteSet(rows[s] \X {s}) /\ Cardinality(rows[s] \X {s}) <= 1
    <3>1. IsFiniteSet({s}) /\ Cardinality({s}) = 1  BY FS_Singleton
    <3>2. /\ IsFiniteSet(rows[s] \X {s})
          /\ Cardinality(rows[s] \X {s}) = Cardinality(rows[s]) * Cardinality({s})
      BY <2>3, <3>1, FS_Product
    <3>3. Cardinality(rows[s] \X {s}) = Cardinality(rows[s])
      BY <2>3, <3>1, <3>2
    <3>4. QED  BY <2>3, <3>2, <3>3
  <2>6. IsFiniteSet(live) /\ Cardinality(live) <= 1
    <3>1. /\ IsFiniteSet(live) /\ Cardinality(live) <= Cardinality(rows[s] \X {s})
          /\ Cardinality(live) \in Nat /\ Cardinality(rows[s] \X {s}) \in Nat
      BY <2>4, <2>5, FS_Subset, FS_CardinalityType
    <3>2. QED  BY <2>5, <3>1
  <2>7. /\ \A k \in live : tracked'[k] \in Nat
        /\ \A k \in live : tracked'[k] <= free[s]
    <3>1. \A k \in live : k \in Pair /\ k[2] = s  BY DEF Column
    <3>2. QED  BY <1>6, <2>2, <3>1
  <2>8. IsFiniteSet(Column(s)) /\ \A k \in Column(s) : tracked'[k] \in Nat
    BY <1>6, PairsFinite
  <2>9. SumOf(tracked', live) = SumOf(tracked', Column(s))
    BY <2>8, SumSupport
  <2> HIDE DEF live
  <2>10. SumOf(tracked', live) <= free[s]
    BY <2>2, <2>6, <2>7, SumOfOne
  <2>11. QED  BY <1>3, <2>9, <2>10
<1>10. Counted'
  <2>1. Tracked' = back
    <3>1. \A k \in back : Total(k[2]) > 0  BY <1>5
    <3>2. QED  BY <1>5, <1>6, <3>1 DEF Tracked
  <2>2. Cardinality(Tracked)' = restored'  BY <1>6, <2>1
  <2>3. Bounded(Cardinality(Tracked))'
    <3>1. CASE restored' > MaxPositions  BY <2>2, <1>7, <3>1 DEF Bounded
    <3>2. CASE ~(restored' > MaxPositions)  BY <1>1, <2>2, <1>7, <3>2 DEF Bounded
    <3>3. QED  BY <3>1, <3>2
  <2>4. QED  BY <1>3, <2>3 DEF Counted
<1>11. QED  BY <1>8, <1>9, <1>10 DEF EngineInv

(* Every step of the loop and of its environment keeps the invariant.        *)
LEMMA NextEngine == EngineInv /\ [Next]_vars => EngineInv'
<1> SUFFICES ASSUME EngineInv, [Next]_vars PROVE EngineInv'
  OBVIOUS
<1>1. CASE Loop
  <2>1. ASSUME NEW k \in Pair, ExecuteSignal(k)
        PROVE  EngineInv'
    BY <2>1, ExecuteSignalKeeps
  <2>2. ASSUME NEW k \in Pair, ExitSold(k)
        PROVE  EngineInv'
    BY <2>2, ExitSoldKeeps
  <2>3. ASSUME NEW k \in Pair, ExitFailed(k)
        PROVE  EngineInv'
    BY <2>3, ExitFailedKeeps
  <2>4. ASSUME NEW s \in Symbol, FlattenOne(s)
        PROVE  EngineInv'
    BY <2>4, FlattenOneKeeps
  <2>5. CASE Start
    BY <2>5, StartKeeps
  <2>6. QED
    BY <1>1, <2>1, <2>2, <2>3, <2>4, <2>5, QuietSteps DEF Loop
<1>2. CASE Environment
  <2>1. ASSUME NEW s \in Symbol, Exchange(s)
        PROVE  EngineInv'
    BY <2>1, ExchangeKeeps
  <2>2. CASE Crash
    BY <2>2, CrashKeeps
  <2>3. QED
    BY <1>2, <2>1, <2>2, QuietSteps DEF Environment
<1>3. CASE UNCHANGED vars
  <2>1. TypeOK'
    BY <1>3 DEF EngineInv, vars, exchangeVars, loopVars, beliefVars, fixedVars, bookVars, TypeOK, ExchangeTypeOK
  <2>2. Covered'
    BY <1>3 DEF EngineInv, vars, exchangeVars, beliefVars, Covered, Column
  <2>3. Counted'
    BY <1>3 DEF EngineInv, vars, loopVars, beliefVars, fixedVars, bookVars, Counted, Bounded, Tracked
  <2>4. QED  BY <2>1, <2>2, <2>3 DEF EngineInv
<1>4. QED  BY <1>1, <1>2, <1>3 DEF Next

(* The invariant holds for any instance of the constants.                    *)
LEMMA EngineInvAlways == Spec => []EngineInv
BY InitEngine, NextEngine, PTL DEF Spec

(* Unless one of the named events struck a coin, what the strategies believe  *)
(* they hold of it is in the account, whatever lives at the exchange.        *)
THEOREM BackedAlways == Spec => []Backed
<1>1. EngineInv => Backed
  <2> SUFFICES ASSUME EngineInv, NEW s \in Symbol \ blurred PROVE BelievedIn(s) <= Total(s)
    BY DEF EngineInv, Backed, TrackedBacked
  <2>1. PICK a \in Nat : a = SumOf(tracked, Column(s))
    BY SumsAreNat DEF EngineInv, TypeOK
  <2>2. a <= free[s] /\ free[s] \in Nat /\ selling[s] \in Nat
    BY <2>1 DEF EngineInv, Covered, TypeOK, ExchangeTypeOK
  <2>3. QED  BY <2>1, <2>2, BelievedIsSum DEF Total
<1>2. QED  BY <1>1, EngineInvAlways, PTL

(* The strategies never track more positions than they may, but for what a    *)
(* restart brought back.                                                    *)
THEOREM PositionLimitAlways == Spec => []PositionLimit
<1>1. EngineInv => PositionLimit
  BY DEF EngineInv, Counted, Bounded, PositionLimit
<1>2. QED  BY <1>1, EngineInvAlways, PTL

-------------------------------------------------------------------------------
(* HedgeExecution                                                           *)

OnSpot == {"wait", "filled", "partial", "cancel", "chase"}

Untouched(o) ==
  /\ order[o].status = "NEW" /\ order[o].filled = 0 /\ ~order[o].sent
  /\ executed[o] = 0 /\ pending[o] = 0 /\ reports[o] = 0

Ahead(o) == o > cur \/ (o = cur /\ (stage = "submit" \/ (stage = "ioc" /\ cur # Spot)))

(* The task and the orders it has still to place.                           *)
Phase ==
  /\ stage = "idle" <=> cur = None
  /\ stage \in OnSpot => cur = Spot
  /\ \A o \in Order : Ahead(o) => Untouched(o)
  /\ cur # None /\ stage \notin {"returned", "over"} => reports[cur] = 0
  /\ \A o \in cancelling : order[o].sent

(* What the exchange may execute: the spot order once from the book and     *)
(* once from the market, every other order once.                            *)
Volume ==
  /\ executed[Spot] + resting + pending[Spot] <= 2 * Qty
  /\ cur = None \/ (cur = Spot /\ stage = "submit") => resting = 0
  /\ cur = Spot /\ stage \notin {"returned", "over"} =>
       pending[Spot] = 0 /\ executed[Spot] + resting <= Qty
  /\ \A o \in Order \ {Spot} : executed[o] + pending[o] <= order[o].qty

Early == {"NEW", "SENT"}

(* What is entered as filled.                                                *)
Bookings ==
  /\ \A o \in Order : order[o].filled <= executed[o]
  /\ \A o \in Order : order[o].status \in Early => order[o].filled = 0
  /\ stage \in {"filled", "partial"} => order[Spot].status \notin Early
  /\ stage = "partial" => order[Spot].filled = 0

(* What success of a leg means for the legs after it.                       *)
Outcome ==
  /\ stage = "returned" /\ ok => order[cur].filled > 0
  /\ cur \notin {None, Spot} => order[Spot].filled > 0
  /\ \A o \in Perps : order[o].filled > 0 => o = cur /\ ok /\ stage \in {"returned", "over"}
  /\ pair => executed[Spot] > 0 /\ executed[Perp] > 0
  /\ cur = Rollback => order[Rollback].qty <= order[Spot].filled

PairInv == HedgeTypeOK /\ Phase /\ Volume /\ Bookings /\ Outcome

-------------------------------------------------------------------------------
(* The orders are numbered 1 .. Rollback, spot first and roll-back last.     *)
LEMMA OrderNumbers ==
  /\ Rollback \in Nat /\ Rollback >= 4
  /\ Spot \in Order /\ Perp \in Order /\ Rollback \in Order /\ Perp + 1 \in Order
  /\ Spot = 1 /\ Perp = 2 /\ None = 0 /\ Rollback \notin Perps /\ None \notin Order
  /\ Spot \notin Retries /\ Perp \notin Retries /\ Rollback \notin Retries
  /\ Perp + 1 \in Retries
  /\ \A o \in Order : o \in Nat /\ o >= 1 /\ o <= Rollback
  /\ \A o \in Retries : o \in Order /\ o # Spot /\ o # Perp /\ o # Rollback
  /\ \A o \in Order : o # Spot /\ o # Rollback => o \in Perps
  /\ \A o \in Perps : o \in Order /\ o # Spot /\ o # Rollback
BY ExecutionAssumption DEF Rollback, Spot, Perp, Order, Retries, Perps, None

(* A transition moves nothing but the status, and never back to an early one. *)
LEMMA BecomeFacts ==
  ASSUME NEW r \in Record, NEW st \in OrderStatus
  PROVE  /\ Become(r, st) \in Record
         /\ Become(r, st).qty = r.qty
         /\ Become(r, st).filled = r.filled
         /\ Become(r, st).sent = r.sent
         /\ Become(r, st).status \in {r.status, st}
         /\ Become(r, st).status \in Early => r.status \in Early
         /\ CanBecome(r, st) => Become(r, st).status = st
BY DEF Become, CanBecome, Record, OrderStatus, ValidTransitions, Early

(* A marker that books a quantity leaves early states behind when it may be  *)
(* used.                                                                    *)
LEMMA FillFacts ==
  ASSUME NEW r \in Record, NEW n \in 0..Qty
  PROVE  /\ MarkFilled(r, n) \in Record
         /\ MarkFilled(r, n).qty = r.qty
         /\ MarkFilled(r, n).filled = n
         /\ MarkFilled(r, n).sent = r.sent
         /\ r.status \notin Early => MarkFilled(r, n).status \notin Early
         /\ CanBePartial(r) /\ r.filled = 0 =>
              /\ MarkPartialFill(r, n) \in Record
              /\ MarkPartialFill(r, n).filled = n
              /\ MarkPartialFill(r, n).qty = r.qty
              /\ MarkPartialFill(r, n).sent = r.sent
              /\ MarkPartialFill(r, n).status = "PARTIAL"
         /\ ~CanBePartial(r) => MarkPartialFill(r, n) = r
<1> DEFINE entered == [r EXCEPT !.filled = n]
           added == [r EXCEPT !.filled = @ + n]
<1>1. /\ entered \in Record /\ entered.filled = n
      /\ entered.qty = r.qty /\ entered.sent = r.sent /\ entered.status = r.status
  BY DEF Record
<1>2. r.filled = 0 => added = entered
  BY ExecutionAssumption DEF Record
<1> HIDE DEF entered, added
<1>3. "FILLED" \in OrderStatus /\ "FILLED" \notin Early /\ "PARTIAL" \in OrderStatus
  BY DEF OrderStatus, Early
<1>4. /\ MarkFilled(r, n) = Become(entered, "FILLED")
      /\ CanBePartial(r) => MarkPartialFill(r, n) = Become(added, "PARTIAL")
      /\ ~CanBePartial(r) => MarkPartialFill(r, n) = r
  BY DEF MarkFilled, MarkPartialFill, entered, added
<1>5. CanBePartial(r) => CanBecome(entered, "PARTIAL")
  BY <1>1 DEF CanBePartial, CanBecome, ValidTransitions
<1>6. QED
  BY <1>1, <1>2, <1>3, <1>4, <1>5, BecomeFacts

(* What an untouched order becomes when the exchange executes n of it.       *)
LEMMA IocFillFacts ==
  ASSUME NEW o \in Order, NEW n \in 1..Qty, order[o] \in Record,
         order[o].status = "NEW", order[o].filled = 0
  PROVE  /\ IocFill(o, n) \in Record
         /\ IocFill(o, n).qty = order[o].qty
         /\ IocFill(o, n).filled = n
         /\ IocFill(o, n).sent
         /\ IocFill(o, n).status \notin Early
<1> DEFINE sent == MarkSent(order[o])
           acked == MarkAcked(sent)
<1>1. /\ sent \in Record /\ sent.status = "SENT" /\ sent.filled = 0
      /\ sent.qty = order[o].qty /\ sent.sent
  BY DEF MarkSent, Become, CanBecome, ValidTransitions, Record, OrderStatus
<1>2. /\ acked \in Record /\ acked.status = "ACK" /\ acked.filled = 0
      /\ acked.qty = order[o].qty /\ acked.sent
  BY <1>1 DEF MarkAcked, Become, CanBecome, ValidTransitions, Record, OrderStatus
<1>3. n \in 0..Qty
  BY ExecutionAssumption
<1>4. CanBePartial(acked) /\ acked.status \notin Early
  BY <1>2 DEF CanBePartial, Early
<1> HIDE DEF sent, acked
<1>5. IocFill(o, n) \in {MarkFilled(acked, n), MarkPartialFill(acked, n)}
  BY DEF IocFill, acked, sent
<1>6. QED
  BY <1>2, <1>3, <1>4, <1>5, FillFacts DEF Early

-------------------------------------------------------------------------------
(* Nothing is made, placed or executed at the start.                        *)
LEMMA InitInv == HedgeInit => PairInv
<1> SUFFICES ASSUME HedgeInit PROVE PairInv
  OBVIOUS
<1>1. Created(0) \in Record /\ Created(0).qty = 0 /\ Created(0).filled = 0
      /\ Created(0).status = "NEW" /\ ~Created(0).sent
  BY ExecutionAssumption DEF Created, Record, OrderStatus
<1>2. HedgeTypeOK
  <2>1. order \in [Order -> Record] /\ cancelling \subseteq Made
    BY <1>1 DEF HedgeInit
  <2>2. /\ resting \in 0..Qty /\ pending \in [Order -> 0..Qty]
        /\ executed \in [Order -> 0..(2 * Qty)] /\ reports \in [Order -> 0..1]
    BY ExecutionAssumption DEF HedgeInit
  <2>3. QED
    BY <2>1, <2>2 DEF HedgeInit, HedgeTypeOK
<1>3. Phase
  BY <1>1, OrderNumbers DEF HedgeInit, Phase, OnSpot, Untouched, Ahead, None
<1>4. Volume
  BY <1>1, OrderNumbers, ExecutionAssumption DEF HedgeInit, Volume, None
<1>5. Bookings
  BY <1>1, OrderNumbers DEF HedgeInit, Bookings
<1>6. Outcome
  BY <1>1, OrderNumbers DEF HedgeInit, Outcome, None, Perps
<1>7. QED
  BY <1>2, <1>3, <1>4, <1>5, <1>6 DEF PairInv

(* Both orders of a pair are made at once; nothing else has moved yet.       *)
LEMMA SubmitPairKeepsInv ==
  ASSUME PairInv, NEW s \in {"BUY", "SELL"}, NEW m \in BOOLEAN, SubmitHedgePair(s, m)
  PROVE  PairInv'
<1>1. /\ Created(Qty) \in Record /\ Created(Qty).qty = Qty /\ Created(Qty).filled = 0
      /\ Created(Qty).status = "NEW" /\ ~Created(Qty).sent
  BY ExecutionAssumption DEF Created, Record, OrderStatus
<1>2. /\ order' \in [Order -> Record]
      /\ order'[Spot] = Created(Qty) /\ order'[Perp] = Created(Qty)
      /\ \A o \in Order : o \notin {Spot, Perp} => order'[o] = order[o]
  BY <1>1, OrderNumbers DEF SubmitHedgePair, PairInv, HedgeTypeOK
<1>3. cur = None /\ \A o \in Order : Untouched(o)
  BY OrderNumbers DEF SubmitHedgePair, PairInv, Phase, Ahead, None
<1>10. cancelling = {} /\ cancelling' = cancelling
  BY <1>3 DEF SubmitHedgePair, PairInv, Phase, HedgeTypeOK, Made, Untouched
<1>4. HedgeTypeOK'
  BY <1>2, <1>10, OrderNumbers DEF SubmitHedgePair, PairInv, HedgeTypeOK, venueVars
<1>5. Phase'
  BY <1>1, <1>2, <1>3, <1>10, OrderNumbers
     DEF SubmitHedgePair, PairInv, HedgeTypeOK, Phase, OnSpot, Untouched, Ahead, None, venueVars
<1>6. Volume'
  BY <1>1, <1>2, <1>3, OrderNumbers, ExecutionAssumption
     DEF SubmitHedgePair, PairInv, HedgeTypeOK, Volume, Untouched, None, venueVars
<1>7. Bookings'
  BY <1>1, <1>2, <1>3, OrderNumbers
     DEF SubmitHedgePair, PairInv, Bookings, Untouched, venueVars
<1>8. Outcome'
  BY <1>1, <1>2, <1>3, OrderNumbers
     DEF SubmitHedgePair, PairInv, Outcome, Untouched, venueVars, None, Perps
<1>9. QED
  BY <1>4, <1>5, <1>6, <1>7, <1>8 DEF PairInv

(* A blocked order leaves everything but the task where it was.               *)
LEMMA SubmitBlockedKeepsInv == ASSUME PairInv, SubmitBlocked PROVE PairInv'
<1> USE OrderNumbers, ExecutionAssumption DEF PairInv
<1>1. HedgeTypeOK'
  BY DEF SubmitBlocked, HedgeTypeOK, Made, venueVars, taskVars
<1>2. Phase'
  BY DEF SubmitBlocked, HedgeTypeOK, Phase, OnSpot, Untouched, Ahead, venueVars, taskVars
<1>3. Volume'
  BY DEF SubmitBlocked, HedgeTypeOK, Phase, Volume, venueVars, taskVars
<1>4. Bookings'
  BY DEF SubmitBlocked, HedgeTypeOK, Phase, Bookings, venueVars, taskVars
<1>5. Outcome'
  BY DEF SubmitBlocked, HedgeTypeOK, Phase, Bookings, Outcome, venueVars, taskVars
<1>6. QED
  BY <1>1, <1>2, <1>3, <1>4, <1>5

(* Going to the market touches no order yet.                                 *)
LEMMA SubmitIocKeepsInv == ASSUME PairInv, SubmitIoc PROVE PairInv'
<1> USE OrderNumbers, ExecutionAssumption DEF PairInv
<1>1. HedgeTypeOK'
  BY DEF SubmitIoc, HedgeTypeOK, Made, venueVars, taskVars, PostOnly, Goto
<1>2. Phase'
  BY DEF SubmitIoc, HedgeTypeOK, Phase, OnSpot, Untouched, Ahead, venueVars, taskVars, PostOnly, Goto
<1>3. Volume'
  BY DEF SubmitIoc, HedgeTypeOK, Phase, Volume, venueVars, taskVars, PostOnly, Goto
<1>4. Bookings'
  BY DEF SubmitIoc, HedgeTypeOK, Phase, Bookings, venueVars, taskVars, PostOnly, Goto
<1>5. Outcome'
  BY DEF SubmitIoc, HedgeTypeOK, Phase, Bookings, Outcome, venueVars, taskVars, PostOnly, Goto
<1>6. QED
  BY <1>1, <1>2, <1>3, <1>4, <1>5

(* The end of the wait.                                                     *)
LEMMA WaitEndsKeepsInv == ASSUME PairInv, WaitEnds PROVE PairInv'
<1> USE OrderNumbers, ExecutionAssumption DEF PairInv
<1>1. HedgeTypeOK'
  BY DEF WaitEnds, HedgeTypeOK, Made, venueVars, taskVars, Goto
<1>2. Phase'
  BY DEF WaitEnds, HedgeTypeOK, Phase, OnSpot, Untouched, Ahead, venueVars, taskVars, Goto
<1>3. Volume'
  BY DEF WaitEnds, HedgeTypeOK, Phase, Volume, venueVars, taskVars, Goto
<1>4. Bookings'
  BY DEF WaitEnds, HedgeTypeOK, Phase, Bookings, venueVars, taskVars, Goto
<1>5. Outcome'
  BY DEF WaitEnds, HedgeTypeOK, Phase, Bookings, Outcome, venueVars, taskVars, Goto
<1>6. QED
  BY <1>1, <1>2, <1>3, <1>4, <1>5

(* What rests may be taken out of the book, or not.                          *)
LEMMA CancelUnfilledKeepsInv == ASSUME PairInv, CancelUnfilled PROVE PairInv'
<1> USE OrderNumbers, ExecutionAssumption DEF PairInv
<1>1. HedgeTypeOK'
  BY DEF CancelUnfilled, HedgeTypeOK, Made, venueVars, taskVars, Goto
<1>2. Phase'
  BY DEF CancelUnfilled, HedgeTypeOK, Phase, OnSpot, Untouched, Ahead, venueVars, taskVars, Goto
<1>3. Volume'
  BY DEF CancelUnfilled, HedgeTypeOK, Phase, Volume, venueVars, taskVars, Goto
<1>4. Bookings'
  BY DEF CancelUnfilled, HedgeTypeOK, Phase, Bookings, venueVars, taskVars, Goto
<1>5. Outcome'
  BY DEF CancelUnfilled, HedgeTypeOK, Phase, Bookings, Outcome, venueVars, taskVars, Goto
<1>6. QED
  BY <1>1, <1>2, <1>3, <1>4, <1>5

(* submit_order ends once for an order.                                      *)
LEMMA EndedFacts ==
  ASSUME PairInv, NEW success \in BOOLEAN, Ended(success),
         stage \notin {"idle", "returned", "over"}
  PROVE  /\ cur \in Order /\ stage' = "returned" /\ ok' = success
         /\ reports' \in [Order -> 0..1]
         /\ \A o \in Order : o # cur => reports'[o] = reports[o]
         /\ UNCHANGED <<side, maker, cur, pair, result, canOpen, cancelling>>
<1>1. cur \in Order /\ reports[cur] = 0
  BY DEF PairInv, HedgeTypeOK, Phase
<1>2. reports' = [reports EXCEPT ![cur] = reports[cur] + 1]
  BY DEF Ended
<1>3. reports' \in [Order -> 0..1]
  BY <1>1, <1>2 DEF PairInv, HedgeTypeOK
<1>4. QED
  BY <1>1, <1>2, <1>3 DEF Ended, PairInv, HedgeTypeOK

(* The limit order is given up for a market order, or at all.                *)
LEMMA ChasePriceKeepsInv == ASSUME PairInv, ChasePrice PROVE PairInv'
<1> USE OrderNumbers, ExecutionAssumption DEF PairInv
<1>1. /\ stage = "chase" /\ cur = Spot
      /\ UNCHANGED <<order, resting, pending, executed, unseen, side, maker, cur, pair, result,
                     canOpen, cancelling>>
  BY DEF ChasePrice, Phase, OnSpot, Goto, Ended, venueVars
<1>2. /\ stage' \in {"returned", "ioc"} /\ ok' \in BOOLEAN
      /\ stage' = "returned" => ~ok'
      /\ reports' \in [Order -> 0..1]
      /\ \A o \in Order : o # cur => reports'[o] = reports[o]
      /\ stage' = "ioc" => reports' = reports
  <2>1. CASE Ended(FALSE)
    BY <1>1, <2>1, EndedFacts
  <2>2. CASE Goto("ioc")
    BY <2>2 DEF Goto, HedgeTypeOK
  <2>3. QED
    BY <2>1, <2>2 DEF ChasePrice
<1>3. HedgeTypeOK'
  BY <1>1, <1>2 DEF HedgeTypeOK, Made
<1>4. Phase'
  BY <1>1, <1>2 DEF HedgeTypeOK, Phase, OnSpot, Untouched, Ahead
<1>5. Volume'
  BY <1>1, <1>2 DEF HedgeTypeOK, Volume
<1>6. Bookings'
  BY <1>1, <1>2 DEF HedgeTypeOK, Bookings
<1>7. Outcome'
  BY <1>1, <1>2 DEF HedgeTypeOK, Outcome
<1>8. QED
  BY <1>3, <1>4, <1>5, <1>6, <1>7

(* The roll-back is the last order.                                         *)
LEMMA RollbackReturnedKeepsInv == ASSUME PairInv, RollbackReturned PROVE PairInv'
<1> USE OrderNumbers, ExecutionAssumption DEF PairInv
<1>1. HedgeTypeOK'
  BY DEF RollbackReturned, HedgeTypeOK, Made, venueVars, taskVars, Returns
<1>2. Phase'
  BY DEF RollbackReturned, HedgeTypeOK, Phase, OnSpot, Untouched, Ahead, venueVars, taskVars, Returns
<1>3. Volume'
  BY DEF RollbackReturned, HedgeTypeOK, Phase, Volume, venueVars, taskVars, Returns
<1>4. Bookings'
  BY DEF RollbackReturned, HedgeTypeOK, Phase, Bookings, venueVars, taskVars, Returns
<1>5. Outcome'
  BY DEF RollbackReturned, HedgeTypeOK, Phase, Bookings, Outcome, venueVars, taskVars, Returns
<1>6. QED
  BY <1>1, <1>2, <1>3, <1>4, <1>5

(* The mode decides nothing the invariant speaks of.                         *)
LEMMA ModeChangesKeepsInv == ASSUME PairInv, ModeChanges PROVE PairInv'
<1> USE OrderNumbers, ExecutionAssumption DEF PairInv
<1>1. HedgeTypeOK'
  BY DEF ModeChanges, HedgeTypeOK, Made, venueVars, taskVars
<1>2. Phase'
  BY DEF ModeChanges, HedgeTypeOK, Phase, OnSpot, Untouched, Ahead, venueVars, taskVars
<1>3. Volume'
  BY DEF ModeChanges, HedgeTypeOK, Phase, Volume, venueVars, taskVars
<1>4. Bookings'
  BY DEF ModeChanges, HedgeTypeOK, Phase, Bookings, venueVars, taskVars
<1>5. Outcome'
  BY DEF ModeChanges, HedgeTypeOK, Phase, Bookings, Outcome, venueVars, taskVars
<1>6. QED
  BY <1>1, <1>2, <1>3, <1>4, <1>5

(* What executes was resting.                                                *)
LEMMA RestingExecutesKeepsInv == ASSUME PairInv, RestingExecutes PROVE PairInv'
<1> USE OrderNumbers, ExecutionAssumption DEF PairInv
<1>1. /\ executed' \in [Order -> 0..(2 * Qty)] /\ executed'[Spot] = executed[Spot] + 1
      /\ \A o \in Order : o # Spot => executed'[o] = executed[o]
      /\ resting' = resting - 1 /\ resting \in 1..Qty
  BY DEF RestingExecutes, HedgeTypeOK, Volume
<1>2. UNCHANGED <<side, maker, stage, cur, ok, pair, result, order, canOpen, pending,
                  unseen, cancelling, reports>>
  BY DEF RestingExecutes, taskVars
<1>3. cur # None /\ ~(cur = Spot /\ stage = "submit")
  BY <1>1 DEF Volume
<1>4. HedgeTypeOK'
  BY <1>1, <1>2 DEF HedgeTypeOK, Made
<1>5. Phase'
  BY <1>1, <1>2, <1>3 DEF HedgeTypeOK, Phase, OnSpot, Untouched, Ahead
<1>6. Volume'
  BY <1>1, <1>2, <1>3 DEF HedgeTypeOK, Volume
<1>7. Bookings'
  BY <1>1, <1>2 DEF HedgeTypeOK, Bookings, Record
<1>8. Outcome'
  BY <1>1, <1>2 DEF HedgeTypeOK, Outcome
<1>9. QED
  BY <1>4, <1>5, <1>6, <1>7, <1>8

(* A market order ends with what the exchange executed of its rest.          *)
LEMMA PendingEndsKeepsInv ==
  ASSUME PairInv, NEW o \in Order, PendingEnds(o) PROVE PairInv'
<1> USE OrderNumbers, ExecutionAssumption DEF PairInv
<1>1. PICK n \in 0..pending[o] : executed' = [executed EXCEPT ![o] = @ + n]
  BY DEF PendingEnds
<1>2. /\ pending[o] \in 1..Qty /\ n \in 0..Qty
      /\ pending' \in [Order -> 0..Qty] /\ pending'[o] = 0
      /\ executed'[o] = executed[o] + n
      /\ \A p \in Order : p # o => executed'[p] = executed[p] /\ pending'[p] = pending[p]
  BY <1>1 DEF PendingEnds, HedgeTypeOK
<1>3. UNCHANGED <<side, maker, stage, cur, ok, pair, result, order, canOpen, resting,
                  unseen, cancelling, reports>>
  BY DEF PendingEnds, taskVars
<1>4. executed[o] + n <= 2 * Qty
  BY <1>1, <1>2 DEF HedgeTypeOK, Volume, Record
<1>5. executed' \in [Order -> 0..(2 * Qty)]
  BY <1>1, <1>2, <1>4 DEF HedgeTypeOK
<1>6. ~Ahead(o) /\ ~(o = Spot /\ cur = Spot /\ stage \notin {"returned", "over"})
  <2>1. ~Ahead(o)
    <3>1. pending[o] # 0
      BY <1>2
    <3>2. QED
      BY <3>1 DEF Phase, Untouched
  <2>2. ~(o = Spot /\ cur = Spot /\ stage \notin {"returned", "over"})
    BY <1>2 DEF Volume
  <2>3. QED
    BY <2>1, <2>2
<1>7. HedgeTypeOK'
  BY <1>2, <1>3, <1>5 DEF HedgeTypeOK, Made
<1>8. Phase'
  BY <1>2, <1>3, <1>6 DEF HedgeTypeOK, Phase, OnSpot, Untouched, Ahead
<1>9. Volume'
  BY <1>1, <1>2, <1>3, <1>6 DEF HedgeTypeOK, Volume, Record
<1>10. Bookings'
  BY <1>1, <1>2, <1>3 DEF HedgeTypeOK, Bookings, Record
<1>11. Outcome'
  BY <1>1, <1>2, <1>3 DEF HedgeTypeOK, Outcome
<1>12. QED
  BY <1>7, <1>8, <1>9, <1>10, <1>11

-------------------------------------------------------------------------------
(* The current order is placed as a limit order.                             *)
LEMMA PlacePostOnlyKeepsInv == ASSUME PairInv, PlacePostOnly PROVE PairInv'
<1> USE OrderNumbers, ExecutionAssumption DEF PairInv
<1>1. /\ cur = Spot /\ stage = "submit" /\ Untouched(Spot) /\ resting = 0
      /\ order[Spot] \in Record
  BY DEF PlacePostOnly, PostOnly, Phase, Ahead, Volume, HedgeTypeOK
<1>2. /\ UNCHANGED <<side, maker, cur, ok, pair, result, canOpen, pending, executed, unseen,
                     cancelling, reports>>
      /\ Update(MarkSent(order[cur])) /\ resting' = Qty /\ stage' = "wait"
  BY DEF PlacePostOnly, Goto
<1>3. stage' = "wait" /\ cur' = Spot
  BY <1>1, <1>2
<1>4. /\ MarkSent(order[Spot]) \in Record /\ MarkSent(order[Spot]).status = "SENT"
      /\ MarkSent(order[Spot]).filled = 0 /\ MarkSent(order[Spot]).sent
      /\ MarkSent(order[Spot]).qty = order[Spot].qty
  BY <1>1 DEF Untouched, MarkSent, Become, CanBecome, ValidTransitions, Record, OrderStatus
<1>5. /\ order' \in [Order -> Record] /\ order'[Spot] = MarkSent(order[Spot])
      /\ \A o \in Order : o # Spot => order'[o] = order[o]
  BY <1>1, <1>2, <1>4 DEF Update, HedgeTypeOK
<1>6. HedgeTypeOK'
  BY <1>2, <1>4, <1>5 DEF HedgeTypeOK, Made
<1>7. Phase'
  BY <1>1, <1>2, <1>4, <1>5 DEF HedgeTypeOK, Phase, OnSpot, Untouched, Ahead, Made
<1>8. Volume'
  BY <1>1, <1>2, <1>4, <1>5 DEF HedgeTypeOK, Volume, Untouched
<1>9. Bookings'
  BY <1>1, <1>2, <1>4, <1>5 DEF HedgeTypeOK, Bookings, Untouched, Early
<1>10. Outcome'
  BY <1>1, <1>2, <1>3, <1>4, <1>5, ZenonT(40) DEF HedgeTypeOK, Outcome, Untouched
<1>11. QED
  BY <1>6, <1>7, <1>8, <1>9, <1>10

(* A refused limit order goes to the market or ends the leg; when only its   *)
(* answer was lost, it rests in the book besides.                            *)
LEMMA PostOnlyRefusedKeepsInv == ASSUME PairInv, PostOnlyRefused PROVE PairInv'
<1> USE OrderNumbers, ExecutionAssumption DEF PairInv
<1>1. /\ cur = Spot /\ stage = "submit" /\ Untouched(Spot) /\ resting = 0
      /\ cur \in Order
  BY DEF PostOnlyRefused, PostOnly, Phase, Ahead, Volume, HedgeTypeOK
<1>2. /\ UNCHANGED <<side, maker, cur, pair, result, canOpen, order, pending, executed,
                     cancelling>>
      /\ resting' \in {0, Qty} /\ unseen' \subseteq Order
  BY <1>1 DEF PostOnlyRefused, AnswerLost, Goto, Ended, HedgeTypeOK
<1>3. /\ stage' \in {"returned", "ioc"} /\ ok' \in BOOLEAN
      /\ stage' = "returned" => ~ok'
      /\ reports' \in [Order -> 0..1]
      /\ \A o \in Order : o # cur => reports'[o] = reports[o]
      /\ stage' = "ioc" => reports' = reports
  <2>1. CASE Ended(FALSE)
    BY <1>1, <2>1, EndedFacts
  <2>2. CASE Goto("ioc")
    BY <2>2 DEF Goto, HedgeTypeOK
  <2>3. QED
    BY <2>1, <2>2 DEF PostOnlyRefused
<1>4. HedgeTypeOK'
  BY <1>1, <1>2, <1>3 DEF HedgeTypeOK, Made
<1>5. Phase'
  BY <1>1, <1>2, <1>3 DEF HedgeTypeOK, Phase, OnSpot, Untouched, Ahead
<1>6. Volume'
  BY <1>1, <1>2, <1>3 DEF HedgeTypeOK, Volume, Untouched
<1>7. Bookings'
  BY <1>1, <1>2, <1>3 DEF HedgeTypeOK, Bookings
<1>8. Outcome'
  BY <1>1, <1>2, <1>3 DEF HedgeTypeOK, Outcome
<1>9. QED
  BY <1>4, <1>5, <1>6, <1>7, <1>8

(* The task writes the current order.                                        *)
LEMMA UpdateFacts ==
  ASSUME HedgeTypeOK, cur \in Order, NEW r \in Record, r.qty = order[cur].qty, Update(r)
  PROVE  /\ order' \in [Order -> Record] /\ order'[cur] = r
         /\ \A o \in Order : o # cur => order'[o] = order[o]
         /\ Made' = Made
<1>1. /\ order' \in [Order -> Record] /\ order'[cur] = r
      /\ \A o \in Order : o # cur => order'[o] = order[o]
  BY DEF Update, HedgeTypeOK
<1>2. QED
  BY <1>1 DEF Made

(* A poll sees an execution: what was sent is acknowledged.                  *)
LEMMA PollExecutedKeepsInv == ASSUME PairInv, PollExecuted PROVE PairInv'
<1> USE OrderNumbers, ExecutionAssumption DEF PairInv
<1> DEFINE r == MarkAcked(order[cur])
<1>1. /\ stage = "wait" /\ cur = Spot /\ cur \in Order /\ order[cur] \in Record
      /\ UNCHANGED <<resting, pending, executed, unseen>> /\ Update(r)
  BY DEF PollExecuted, Phase, OnSpot, venueVars, HedgeTypeOK
<1>2. /\ r \in Record /\ r.qty = order[cur].qty /\ r.filled = order[cur].filled
      /\ r.sent = order[cur].sent
      /\ r.status \in Early => order[cur].status \in Early
      /\ CanBecome(order[cur], "ACK") => r.status = "ACK"
  BY <1>1, BecomeFacts DEF MarkAcked, OrderStatus
<1> HIDE DEF r
<1>3. /\ order' \in [Order -> Record] /\ order'[cur] = r /\ Made' = Made
      /\ \A o \in Order : o # cur => order'[o] = order[o]
  BY <1>1, <1>2, UpdateFacts
<1>4. /\ stage' \in {"filled", "partial", "returned"} /\ ok' \in BOOLEAN
      /\ stage' = "returned" => ~ok'
      /\ stage' # "returned" => reports' = reports /\ CanBecome(order[cur], "ACK")
      /\ reports' \in [Order -> 0..1]
      /\ \A o \in Order : o # cur => reports'[o] = reports[o]
      /\ UNCHANGED <<side, maker, cur, pair, result, canOpen, cancelling>>
  <2>1. CASE CanBecome(order[cur], "ACK")
    BY <2>1 DEF PollExecuted, Goto, HedgeTypeOK
  <2>2. CASE ~CanBecome(order[cur], "ACK")
    BY <1>1, <2>2, EndedFacts DEF PollExecuted
  <2>3. QED
    BY <2>1, <2>2
<1>5. CanBecome(order[cur], "ACK") => order[cur].status = "SENT" /\ order[cur].filled = 0
  BY <1>1 DEF CanBecome, ValidTransitions, Bookings, Early
<1>6. HedgeTypeOK'
  BY <1>1, <1>3, <1>4 DEF HedgeTypeOK
<1>7. Phase'
  BY <1>1, <1>2, <1>3, <1>4 DEF HedgeTypeOK, Phase, OnSpot, Untouched, Ahead, Made
<1>8. Volume'
  BY <1>1, <1>2, <1>3, <1>4 DEF HedgeTypeOK, Volume
<1>9. Bookings'
  BY <1>1, <1>2, <1>3, <1>4, <1>5 DEF HedgeTypeOK, Bookings, Early
<1>10. Outcome'
  BY <1>1, <1>2, <1>3, <1>4 DEF HedgeTypeOK, Outcome
<1>11. QED
  BY <1>6, <1>7, <1>8, <1>9, <1>10

(* The details book what was executed of the limit order.                    *)
LEMMA DetailsFilledKeepsInv == ASSUME PairInv, DetailsFilled PROVE PairInv'
<1> USE OrderNumbers, ExecutionAssumption DEF PairInv
<1>1. /\ stage = "filled" /\ cur = Spot /\ cur \in Order /\ order[cur] \in Record
      /\ UNCHANGED <<resting, pending, executed, unseen>> /\ Ended(FALSE)
      /\ order[cur].status \notin Early
  BY DEF DetailsFilled, Phase, OnSpot, venueVars, HedgeTypeOK, Bookings
<1>2. PICK n \in 0..Qty : executed[cur] = n
  BY <1>1 DEF Volume, HedgeTypeOK
<1>3. PICK r \in {MarkFilled(order[cur], n), order[cur]} : Update(r)
  BY <1>2 DEF DetailsFilled
<1>4. /\ r \in Record /\ r.qty = order[cur].qty /\ r.sent = order[cur].sent
      /\ r.filled <= executed[cur] /\ r.status \notin Early
  <2>1. CASE r = order[cur]
    BY <1>1, <2>1 DEF Bookings
  <2>2. CASE r = MarkFilled(order[cur], n)
    BY <1>1, <1>2, <2>2, FillFacts
  <2>3. QED
    BY <1>3, <2>1, <2>2
<1>5. /\ order' \in [Order -> Record] /\ order'[cur] = r /\ Made' = Made
      /\ \A o \in Order : o # cur => order'[o] = order[o]
  BY <1>1, <1>3, <1>4, UpdateFacts
<1>6. /\ stage' = "returned" /\ ~ok' /\ ok' \in BOOLEAN
      /\ reports' \in [Order -> 0..1]
      /\ \A o \in Order : o # cur => reports'[o] = reports[o]
      /\ UNCHANGED <<side, maker, cur, pair, result, canOpen, cancelling>>
  BY <1>1, EndedFacts
<1>7. HedgeTypeOK'
  BY <1>1, <1>5, <1>6 DEF HedgeTypeOK
<1>8. Phase'
  BY <1>1, <1>4, <1>5, <1>6 DEF HedgeTypeOK, Phase, OnSpot, Untouched, Ahead, Made
<1>9. Volume'
  BY <1>1, <1>4, <1>5, <1>6 DEF HedgeTypeOK, Volume
<1>10. Bookings'
  BY <1>1, <1>4, <1>5, <1>6 DEF HedgeTypeOK, Bookings
<1>11. Outcome'
  <2>1. (stage = "returned" /\ ok => order[cur].filled > 0)'
    BY <1>6
  <2>2. (cur \notin {None, Spot} => order[Spot].filled > 0)'
    BY <1>1, <1>6
  <2>3. (\A o \in Perps : order[o].filled > 0 => o = cur /\ ok /\ stage \in {"returned", "over"})'
    BY <1>1, <1>5, <1>6 DEF Outcome
  <2>4. (pair => executed[Spot] > 0 /\ executed[Perp] > 0)'
    BY <1>1, <1>6 DEF Outcome
  <2>5. (cur = Rollback => order[Rollback].qty <= order[Spot].filled)'
    BY <1>1, <1>6
  <2>6. QED
    BY <2>1, <2>2, <2>3, <2>4, <2>5 DEF Outcome
<1>12. QED
  BY <1>7, <1>8, <1>9, <1>10, <1>11

(* A partial fill is entered once: nothing was entered before it.              *)
LEMMA DetailsPartialKeepsInv == ASSUME PairInv, DetailsPartial PROVE PairInv'
<1> USE OrderNumbers, ExecutionAssumption DEF PairInv
<1>1. /\ stage = "partial" /\ cur = Spot /\ cur \in Order /\ order[cur] \in Record
      /\ UNCHANGED <<resting, pending, executed, unseen>>
      /\ order[cur].status \notin Early /\ order[cur].filled = 0
  BY DEF DetailsPartial, Phase, OnSpot, venueVars, HedgeTypeOK, Bookings
<1>2. PICK n \in 0..Qty : executed[cur] = n
  BY <1>1 DEF Volume, HedgeTypeOK
<1>3. PICK r \in {MarkPartialFill(order[cur], n), order[cur]} : Update(r)
  BY <1>1, <1>2 DEF DetailsPartial, Update, HedgeTypeOK
<1>4. /\ r \in Record /\ r.qty = order[cur].qty /\ r.sent = order[cur].sent
      /\ r.filled <= executed[cur] /\ r.status \notin Early
  <2>1. CASE r = order[cur]
    BY <1>1, <2>1 DEF Bookings
  <2>2. CASE r = MarkPartialFill(order[cur], n) /\ CanBePartial(order[cur])
    <3> DEFINE m == MarkPartialFill(order[cur], n)
    <3>0. /\ m \in Record /\ m.qty = order[cur].qty /\ m.sent = order[cur].sent
          /\ m.filled = n /\ m.status = "PARTIAL"
      <4>1. order[cur] \in Record /\ order[cur].filled = 0 /\ CanBePartial(order[cur])
        BY <1>1, <2>2
      <4>2. ASSUME NEW q \in Record, CanBePartial(q), q.filled = 0
            PROVE  /\ MarkPartialFill(q, n) \in Record
                   /\ MarkPartialFill(q, n).qty = q.qty
                   /\ MarkPartialFill(q, n).sent = q.sent
                   /\ MarkPartialFill(q, n).filled = n
                   /\ MarkPartialFill(q, n).status = "PARTIAL"
        BY <1>2, <4>2, FillFacts
      <4>3. QED
        BY <4>1, <4>2
    <3>1. /\ r \in Record /\ r.qty = order[cur].qty /\ r.sent = order[cur].sent
          /\ r.filled = n /\ r.status = "PARTIAL"
      BY <2>2, <3>0
    <3>2. QED
      BY <1>2, <3>1 DEF Early
  <2>3. CASE r = MarkPartialFill(order[cur], n) /\ ~CanBePartial(order[cur])
    BY <1>1, <2>1, <2>3, FillFacts
  <2>4. QED
    BY <1>3, <2>1, <2>2, <2>3
<1>5. /\ order' \in [Order -> Record] /\ order'[cur] = r /\ Made' = Made
      /\ \A o \in Order : o # cur => order'[o] = order[o]
  BY <1>1, <1>3, <1>4, UpdateFacts
<1>6. /\ stage' \in {"wait", "returned"} /\ ok' \in BOOLEAN
      /\ stage' = "returned" => ~ok'
      /\ stage' = "wait" => reports' = reports
      /\ reports' \in [Order -> 0..1]
      /\ \A o \in Order : o # cur => reports'[o] = reports[o]
      /\ UNCHANGED <<side, maker, cur, pair, result, canOpen, cancelling>>
  <2>1. CASE Goto("wait")
    BY <2>1 DEF Goto, HedgeTypeOK
  <2>2. CASE Ended(FALSE)
    BY <1>1, <2>2, EndedFacts
  <2>3. QED
    BY <2>1, <2>2 DEF DetailsPartial
<1>7. HedgeTypeOK'
  BY <1>1, <1>5, <1>6 DEF HedgeTypeOK
<1>8. Phase'
  BY <1>1, <1>4, <1>5, <1>6 DEF HedgeTypeOK, Phase, OnSpot, Untouched, Ahead, Made
<1>9. Volume'
  BY <1>1, <1>4, <1>5, <1>6 DEF HedgeTypeOK, Volume
<1>10. Bookings'
  BY <1>1, <1>4, <1>5, <1>6 DEF HedgeTypeOK, Bookings
<1>11. Outcome'
  <2>1. (stage = "returned" /\ ok => order[cur].filled > 0)'
    BY <1>6
  <2>2. (cur \notin {None, Spot} => order[Spot].filled > 0)'
    BY <1>1, <1>6
  <2>3. (\A o \in Perps : order[o].filled > 0 => o = cur /\ ok /\ stage \in {"returned", "over"})'
    BY <1>1, <1>5, <1>6 DEF Outcome
  <2>4. (pair => executed[Spot] > 0 /\ executed[Perp] > 0)'
    BY <1>1, <1>6 DEF Outcome
  <2>5. (cur = Rollback => order[Rollback].qty <= order[Spot].filled)'
    BY <1>1, <1>6
  <2>6. QED
    BY <2>1, <2>2, <2>3, <2>4, <2>5 DEF Outcome
<1>12. QED
  BY <1>7, <1>8, <1>9, <1>10, <1>11

(* The order that goes to the market has not been there.                     *)
LEMMA AtMarket ==
  ASSUME PairInv, stage = "ioc"
  PROVE  /\ cur \in Order /\ order[cur] \in Record /\ pending[cur] = 0
         /\ cur # Spot => Untouched(cur)
         /\ cur = Spot => executed[Spot] + resting <= Qty
         /\ order[cur].status = "NEW" => order[cur].filled = 0
         /\ \A o \in Perps : order[o].filled = 0
<1>1. cur \in Order /\ order[cur] \in Record
  BY DEF PairInv, Phase, HedgeTypeOK
<1>2. cur # Spot => Untouched(cur)
  BY <1>1 DEF PairInv, Phase, Ahead
<1>3. cur = Spot => pending[cur] = 0 /\ executed[Spot] + resting <= Qty
  BY DEF PairInv, Volume
<1>4. order[cur].status = "NEW" => order[cur].filled = 0
  BY <1>1 DEF PairInv, Bookings, Early
<1>5. \A o \in Perps : order[o].filled = 0
  <2>1. \A o \in Perps : order[o] \in Record /\ ~(order[o].filled > 0)
    BY OrderNumbers DEF PairInv, Outcome, HedgeTypeOK
  <2>2. QED
    BY <2>1, ExecutionAssumption DEF Record
<1>6. QED
  BY <1>1, <1>2, <1>3, <1>4, <1>5 DEF Untouched

(* What a market order leaves behind: its record r, executed by n with k     *)
(* left to execute.                                                          *)
LEMMA MarketOrderKeepsInv ==
  ASSUME PairInv, stage = "ioc", NEW r \in Record, NEW n \in 0..Qty, NEW k \in 0..Qty,
         NEW success \in BOOLEAN, Update(r), Ended(success),
         executed' = [executed EXCEPT ![cur] = executed[cur] + n],
         pending' = [pending EXCEPT ![cur] = k], resting' = resting,
         unseen' \subseteq Order,
         n + k <= order[cur].qty, r.qty = order[cur].qty,
         r.filled <= executed[cur] + n, order[cur].sent => r.sent,
         cur = Spot \/ success \/ r.filled = 0,
         r.status \in Early => r.filled = 0,
         success => r.filled > 0
  PROVE  PairInv'
<1> USE OrderNumbers, ExecutionAssumption DEF PairInv
<1>1. /\ cur \in Order /\ order[cur] \in Record /\ pending[cur] = 0
      /\ cur # Spot => executed[cur] = 0
      /\ cur = Spot => executed[Spot] + resting <= Qty
      /\ \A o \in Perps : order[o].filled = 0
  BY AtMarket DEF Untouched
<1>2. /\ order' \in [Order -> Record] /\ order'[cur] = r /\ Made' = Made
      /\ \A o \in Order : o # cur => order'[o] = order[o]
  BY <1>1, UpdateFacts
<1>3. /\ stage' = "returned" /\ ok' = success
      /\ reports' \in [Order -> 0..1]
      /\ \A o \in Order : o # cur => reports'[o] = reports[o]
      /\ UNCHANGED <<side, maker, cur, pair, result, canOpen, cancelling>>
  BY EndedFacts
<1>4. executed[cur] + n \in 0..(2 * Qty)
  BY <1>1 DEF HedgeTypeOK
<1>5. /\ executed' \in [Order -> 0..(2 * Qty)] /\ executed'[cur] = executed[cur] + n
      /\ pending' \in [Order -> 0..Qty] /\ pending'[cur] = k
      /\ \A o \in Order : o # cur => executed'[o] = executed[o] /\ pending'[o] = pending[o]
  BY <1>1, <1>4 DEF HedgeTypeOK
<1>6. HedgeTypeOK'
  BY <1>1, <1>2, <1>3, <1>5 DEF HedgeTypeOK
<1>7. Phase'
  <2>1. (\A o \in Order : Ahead(o) => Untouched(o))'
    BY <1>1, <1>2, <1>3, <1>5 DEF HedgeTypeOK, Phase, Untouched, Ahead
  <2>2. (\A o \in cancelling : order[o].sent)'
    BY <1>2, <1>3 DEF HedgeTypeOK, Phase, Made
  <2>3. QED
    BY <1>1, <1>3, <2>1, <2>2 DEF Phase, OnSpot
<1>8. Volume'
  <2>1. (executed[Spot] + resting + pending[Spot] <= 2 * Qty)'
    BY <1>1, <1>3, <1>5 DEF HedgeTypeOK, Volume, Record
  <2>2. (\A o \in Order \ {Spot} : executed[o] + pending[o] <= order[o].qty)'
    BY <1>1, <1>2, <1>3, <1>5 DEF HedgeTypeOK, Volume
  <2>3. QED
    BY <1>1, <1>3, <2>1, <2>2 DEF Volume
<1>9. Bookings'
  BY <1>1, <1>2, <1>3, <1>5 DEF HedgeTypeOK, Bookings
<1>10. Outcome'
  <2>1. (stage = "returned" /\ ok => order[cur].filled > 0)'
    BY <1>2, <1>3
  <2>2. (cur \notin {None, Spot} => order[Spot].filled > 0)'
    BY <1>2, <1>3 DEF Outcome
  <2>3. (\A o \in Perps : order[o].filled > 0 => o = cur /\ ok /\ stage \in {"returned", "over"})'
    <3>1. ASSUME NEW o \in Perps, order'[o].filled > 0 PROVE o = cur /\ success
      <4>1. o \in Order /\ o # Spot
        OBVIOUS
      <4>2. o = cur
        BY <1>1, <1>2, <3>1, <4>1
      <4>3. r.filled > 0
        BY <1>2, <3>1, <4>2
      <4>4. QED
        BY <4>1, <4>2, <4>3
    <3>2. QED
      BY <1>3, <3>1
  <2>4. (pair => executed[Spot] > 0 /\ executed[Perp] > 0)'
    BY <1>1, <1>3, <1>5 DEF Outcome, HedgeTypeOK
  <2>5. (cur = Rollback => order[Rollback].qty <= order[Spot].filled)'
    BY <1>1, <1>2, <1>3 DEF Outcome
  <2>6. QED
    BY <2>1, <2>2, <2>3, <2>4, <2>5 DEF Outcome
<1>11. QED
  BY <1>6, <1>7, <1>8, <1>9, <1>10

(* The market order executes by n at once.                                   *)
LEMMA IocExecutedKeepsInv ==
  ASSUME PairInv, NEW n \in 1..Qty, IocExecuted(n) PROVE PairInv'
<1>1. /\ stage = "ioc" /\ cur \in Order /\ order[cur] \in Record /\ n <= order[cur].qty
      /\ cur # Spot => Untouched(cur)
      /\ order[cur].status = "NEW" => order[cur].filled = 0
  BY AtMarket DEF IocExecuted
<1>2. PICK k \in 0..Qty : k = order[cur].qty - n
  BY <1>1, ExecutionAssumption DEF Record
<1>3. /\ executed' = [executed EXCEPT ![cur] = executed[cur] + n]
      /\ pending' = [pending EXCEPT ![cur] = k] /\ resting' = resting
      /\ n \in 0..Qty /\ n + k <= order[cur].qty /\ unseen' \subseteq Order
  BY <1>1, <1>2, ExecutionAssumption DEF IocExecuted, Executes, Record, PairInv, HedgeTypeOK
<1>4. executed[cur] \in Nat /\ order[cur].filled <= executed[cur]
  BY <1>1, ExecutionAssumption DEF PairInv, HedgeTypeOK, Bookings
<1>5. CASE order[cur].status = "NEW"
  <2> DEFINE r == IocFill(cur, n)
  <2>1. /\ r \in Record /\ r.qty = order[cur].qty /\ r.filled = n /\ r.sent
        /\ r.status \notin Early
    BY <1>1, <1>5, IocFillFacts
  <2>2. Update(r) /\ Ended(TRUE)
    BY <1>5 DEF IocExecuted
  <2> HIDE DEF r
  <2>3. r.filled <= executed[cur] + n /\ r.filled > 0
    BY <1>4, <2>1
  <2>4. QED
    BY <1>1, <1>3, <2>1, <2>2, <2>3, MarketOrderKeepsInv
<1>6. CASE order[cur].status # "NEW"
  <2> DEFINE r == [order[cur] EXCEPT !.sent = TRUE]
  <2>1. /\ r \in Record /\ r.qty = order[cur].qty /\ r.filled = order[cur].filled /\ r.sent
        /\ r.status = order[cur].status
    BY <1>1 DEF Record
  <2>2. Update(r) /\ Ended(FALSE)
    BY <1>6 DEF IocExecuted
  <2> HIDE DEF r
  <2>3. r.filled <= executed[cur] + n
    BY <1>1, <1>4, <2>1, ExecutionAssumption DEF Record
  <2>4. cur = Spot /\ (r.status \in Early => r.filled = 0)
    BY <1>1, <1>6, <2>1 DEF Untouched, PairInv, Bookings
  <2>5. QED
    BY <1>1, <1>3, <2>1, <2>2, <2>3, <2>4, MarketOrderKeepsInv
<1>7. QED
  BY <1>5, <1>6

(* A market order stays at the exchange that the client saw no answer of.    *)
LEMMA PlacedFacts ==
  ASSUME PairInv, cur \in Order, Placed
  PROVE  /\ pending' = [pending EXCEPT ![cur] = order[cur].qty]
         /\ resting' = resting /\ executed' = executed /\ unseen' \subseteq Order
BY DEF Placed, AnswerLost, PairInv, HedgeTypeOK

(* The client gives up a market order the exchange still executes.           *)
LEMMA IocUnseenKeepsInv == ASSUME PairInv, IocUnseen PROVE PairInv'
<1> DEFINE s == [order[cur] EXCEPT !.sent = TRUE]
           u == Become(s, "SENT")
           r == IF CanBecome(order[cur], "SENT") THEN Become(u, "REJECTED") ELSE u
<1>1. /\ stage = "ioc" /\ cur \in Order /\ order[cur] \in Record
      /\ cur # Spot => Untouched(cur)
      /\ \A o \in Perps : order[o].filled = 0
  BY AtMarket DEF IocUnseen
<1>2. /\ s \in Record /\ s.qty = order[cur].qty /\ s.filled = order[cur].filled /\ s.sent
      /\ s.status = order[cur].status
  BY <1>1 DEF Record
<1> HIDE DEF s
<1>3. /\ r \in Record /\ r.qty = order[cur].qty /\ r.filled = order[cur].filled /\ r.sent
      /\ r.status \in Early => order[cur].status \in Early
  <2>1. "SENT" \in OrderStatus /\ "REJECTED" \in OrderStatus
    BY DEF OrderStatus
  <2>2. /\ u \in Record /\ u.qty = s.qty /\ u.filled = s.filled /\ u.sent
        /\ u.status \in Early => s.status \in Early
    BY <1>2, <2>1, BecomeFacts
  <2> HIDE DEF u
  <2>3. /\ Become(u, "REJECTED") \in Record /\ Become(u, "REJECTED").qty = u.qty
        /\ Become(u, "REJECTED").filled = u.filled /\ Become(u, "REJECTED").sent
        /\ Become(u, "REJECTED").status \in Early => u.status \in Early
    BY <2>1, <2>2, BecomeFacts
  <2>4. QED
    BY <1>2, <2>2, <2>3
<1>4. /\ Update(r) /\ Ended(FALSE) /\ resting' = resting /\ executed' = executed
      /\ pending' = [pending EXCEPT ![cur] = order[cur].qty] /\ unseen' \subseteq Order
  BY <1>1, PlacedFacts DEF IocUnseen, MarkRejected, MarkSent, s
<1> HIDE DEF u, r
<1>5. PICK k \in 0..Qty : k = order[cur].qty
  BY <1>1 DEF Record
<1>10. PICK n \in 0..Qty : n = 0
  BY ExecutionAssumption
<1>6. /\ executed' = [executed EXCEPT ![cur] = executed[cur] + n]
      /\ pending' = [pending EXCEPT ![cur] = k] /\ n + k <= order[cur].qty
      /\ executed[cur] \in Nat
  BY <1>1, <1>4, <1>5, <1>10, ExecutionAssumption DEF PairInv, HedgeTypeOK
<1>7. r.filled <= executed[cur] + n
  BY <1>1, <1>3, <1>6, <1>10 DEF PairInv, Bookings
<1>8. /\ cur = Spot \/ r.filled = 0
      /\ r.status \in Early => r.filled = 0
  BY <1>1, <1>3 DEF Untouched, PairInv, Bookings
<1>9. QED
  BY <1>1, <1>3, <1>4, <1>6, <1>7, <1>8, MarketOrderKeepsInv

(* A market order is refused, or the exchange executes it later on.          *)
LEMMA IocRefusedKeepsInv == ASSUME PairInv, IocRefused PROVE PairInv'
<1> DEFINE rejected == Become(order[cur], "REJECTED")
<1>1. /\ stage = "ioc" /\ cur \in Order /\ order[cur] \in Record /\ pending[cur] = 0
      /\ cur # Spot => Untouched(cur)
      /\ Ended(FALSE)
  BY AtMarket DEF IocRefused
<1>2. PICK r \in {rejected, order[cur]} : Update(r)
  BY <1>1 DEF IocRefused, MarkRejected, Update, PairInv, HedgeTypeOK
<1>3. /\ r \in Record /\ r.qty = order[cur].qty /\ r.filled = order[cur].filled
      /\ r.sent = order[cur].sent
      /\ r.status \in Early => order[cur].status \in Early
  BY <1>1, <1>2, BecomeFacts DEF OrderStatus
<1> HIDE DEF rejected
<1>4. PICK n \in 0..Qty : n = 0
  BY ExecutionAssumption
<1>5. PICK k \in {0, order[cur].qty} :
        /\ pending' = [pending EXCEPT ![cur] = k] /\ resting' = resting
        /\ executed' = executed /\ unseen' \subseteq Order
  <2>1. CASE UNCHANGED venueVars
    BY <1>1, <2>1 DEF venueVars, PairInv, HedgeTypeOK
  <2>2. CASE Placed
    BY <1>1, <2>2, PlacedFacts
  <2>3. QED
    BY <2>1, <2>2 DEF IocRefused
<1>6. /\ executed' = [executed EXCEPT ![cur] = executed[cur] + n]
      /\ k \in 0..Qty /\ n + k <= order[cur].qty /\ executed[cur] \in Nat
  BY <1>1, <1>4, <1>5, ExecutionAssumption DEF PairInv, HedgeTypeOK, Record
<1>7. r.filled <= executed[cur] + n
  BY <1>1, <1>3, <1>4, <1>6 DEF PairInv, Bookings
<1>8. /\ cur = Spot \/ r.filled = 0
      /\ r.status \in Early => r.filled = 0
  BY <1>1, <1>3 DEF Untouched, PairInv, Bookings
<1>9. QED
  BY <1>1, <1>2, <1>3, <1>5, <1>6, <1>7, <1>8, MarketOrderKeepsInv

-------------------------------------------------------------------------------
(* submit_hedge_pair goes on with an order o further ahead.                  *)
LEMMA SubmitsKeepsInv ==
  ASSUME PairInv, stage = "returned", cur \in Order, NEW o \in Order, o > cur,
         NEW q \in 0..Qty, Submits(o, q), canOpen' \in BOOLEAN,
         \A p \in Perps : order[p].filled = 0, order[Spot].filled > 0,
         o = Rollback => q <= order[Spot].filled
  PROVE  PairInv'
<1> USE OrderNumbers, ExecutionAssumption DEF PairInv
<1>1. o # Spot /\ o # None /\ Untouched(o) /\ \A p \in Order : p >= o => Untouched(p)
  BY DEF Phase, Ahead
<1>2. /\ UNCHANGED <<side, maker, ok, pair, result, resting, pending, executed, unseen,
                     cancelling, reports>>
      /\ cur' = o /\ stage' = "submit"
  BY DEF Submits, venueVars
<1>3. /\ Created(q) \in Record /\ Created(q).qty = q /\ Created(q).filled = 0
      /\ Created(q).status = "NEW" /\ ~Created(q).sent
  BY DEF Created, Record, OrderStatus
<1>4. /\ order' \in [Order -> Record]
      /\ order'[o].status = "NEW" /\ order'[o].filled = 0 /\ ~order'[o].sent
      /\ o = Rollback => order'[o].qty = q
      /\ order'[o].qty \in Nat
      /\ \A p \in Order : p # o => order'[p] = order[p]
  <2>1. CASE o = Perp
    BY <1>1, <2>1 DEF Submits, HedgeTypeOK, Untouched, Record
  <2>2. CASE o # Perp
    BY <1>3, <2>2 DEF Submits, HedgeTypeOK
  <2>3. QED
    BY <2>1, <2>2
<1>5. o \notin cancelling
  BY <1>1 DEF Phase, Untouched
<1>6. HedgeTypeOK'
  <2>1. cancelling' \subseteq Made'
    BY <1>2, <1>4, <1>5 DEF HedgeTypeOK, Made
  <2>2. QED
    BY <1>2, <1>4, <2>1 DEF HedgeTypeOK
<1>7. Phase'
  <2>1. (\A p \in Order : Ahead(p) => Untouched(p))'
    <3>1. ASSUME NEW p \in Order, p >= o PROVE Untouched(p)'
      BY <1>1, <1>2, <1>4, <3>1 DEF Untouched
    <3>2. ASSUME NEW p \in Order, Ahead(p)' PROVE p >= o
      <4>1. p > o \/ p = o
        BY <1>2, <3>2 DEF Ahead
      <4>2. QED
        BY <4>1
    <3>3. QED
      BY <3>1, <3>2
  <2>2. (\A p \in cancelling : order[p].sent)'
    BY <1>2, <1>4, <1>5 DEF HedgeTypeOK, Phase, Made
  <2>3. QED
    BY <1>1, <1>2, <2>1, <2>2 DEF Phase, OnSpot, Untouched
<1>8. Volume'
  <2>1. (\A p \in Order \ {Spot} : executed[p] + pending[p] <= order[p].qty)'
    BY <1>1, <1>2, <1>4 DEF Volume, Untouched
  <2>2. QED
    BY <1>1, <1>2, <2>1 DEF Volume
<1>9. Bookings'
  BY <1>1, <1>2, <1>4 DEF Bookings, Untouched
<1>10. Outcome'
  <2>1. \A p \in Perps : order'[p].filled = 0
    BY <1>4
  <2>2. order'[Spot] = order[Spot]
    BY <1>1, <1>4
  <2>3. QED
    BY <1>2, <1>4, <2>1, <2>2 DEF Outcome
<1>11. QED
  BY <1>6, <1>7, <1>8, <1>9, <1>10

(* submit_hedge_pair ends.                                                   *)
LEMMA ReturnsKeepsInv ==
  ASSUME PairInv, stage = "returned",
         NEW v \in {"none", "hedged", "raised", "rolledBack", "unhedged"}, Returns(v),
         pair' \in BOOLEAN, pair' => pair \/ (executed[Spot] > 0 /\ executed[Perp] > 0)
  PROVE  PairInv'
<1> USE OrderNumbers, ExecutionAssumption DEF PairInv
<1>1. /\ UNCHANGED <<side, maker, cur, ok, order, canOpen, resting, pending, executed,
                     unseen, cancelling, reports>>
      /\ stage' = "over" /\ result' = v
  BY DEF Returns, venueVars
<1>2. HedgeTypeOK'
  BY <1>1 DEF HedgeTypeOK, Made
<1>3. Phase'
  BY <1>1 DEF Phase, OnSpot, Untouched, Ahead
<1>4. Volume'
  BY <1>1 DEF Volume
<1>5. Bookings'
  BY <1>1 DEF Bookings
<1>6. Outcome'
  BY <1>1 DEF Outcome
<1>7. QED
  BY <1>2, <1>3, <1>4, <1>5, <1>6

(* The hedge follows a spot order that was executed.                         *)
LEMMA SpotReturnedKeepsInv == ASSUME PairInv, SpotReturned PROVE PairInv'
<1>1. /\ stage = "returned" /\ cur = Spot /\ cur \in Order
      /\ ok \in BOOLEAN /\ pair \in BOOLEAN /\ canOpen \in BOOLEAN
  BY OrderNumbers DEF SpotReturned, PairInv, HedgeTypeOK
<1>2. CASE ok
  <2>1. Submits(Perp, Qty) /\ canOpen' = canOpen /\ Qty \in 0..Qty /\ Perp > cur
    BY <1>1, <1>2, OrderNumbers, ExecutionAssumption DEF SpotReturned
  <2>2. order[Spot].filled > 0
    BY <1>1, <1>2 DEF PairInv, Outcome
  <2>3. \A o \in Perps : order[o] \in Record /\ ~(order[o].filled > 0)
    BY <1>1, OrderNumbers DEF PairInv, HedgeTypeOK, Outcome
  <2>4. \A o \in Perps : order[o].filled = 0
    BY <2>3, ExecutionAssumption DEF Record
  <2>5. Perp # Rollback /\ Perp \in Order
    BY OrderNumbers
  <2>6. QED
    BY <1>1, <2>1, <2>2, <2>4, <2>5, SubmitsKeepsInv
<1>3. CASE ~ok
  BY <1>1, <1>3, ReturnsKeepsInv DEF SpotReturned
<1>4. QED
  BY <1>2, <1>3

(* A pair that is kept has both legs; a hedge that failed is tried again.    *)
LEMMA PerpReturnedKeepsInv == ASSUME PairInv, PerpReturned PROVE PairInv'
<1>1. /\ stage = "returned" /\ cur = Perp /\ cur \in Order /\ order[Spot].filled > 0
      /\ ok \in BOOLEAN
  BY OrderNumbers DEF PerpReturned, PairInv, HedgeTypeOK, Outcome
<1>2. CASE ok
  <2>1. executed[Spot] > 0 /\ executed[Perp] > 0
    <3>1. order[Perp].filled > 0
      BY <1>1, <1>2 DEF PairInv, Outcome
    <3>2. order[Perp].filled <= executed[Perp] /\ order[Spot].filled <= executed[Spot]
      BY OrderNumbers DEF PairInv, Bookings
    <3>3. /\ order[Perp].filled \in Nat /\ order[Spot].filled \in Nat
          /\ executed[Perp] \in Nat /\ executed[Spot] \in Nat
      BY OrderNumbers, ExecutionAssumption DEF PairInv, HedgeTypeOK, Record
    <3>4. QED
      BY <1>1, <3>1, <3>2, <3>3
  <2>2. Returns("hedged") /\ pair' = TRUE
    BY <1>2 DEF PerpReturned
  <2>3. QED
    BY <1>1, <2>1, <2>2, ReturnsKeepsInv
<1>3. CASE ~ok
  <2>1. Submits(Perp + 1, Qty) /\ canOpen' \in BOOLEAN
    BY <1>3 DEF PerpReturned
  <2>2. PICK o \in Order : o = Perp + 1 /\ o > cur /\ o # Rollback
    BY <1>1, OrderNumbers
  <2>3. \A p \in Perps : order[p] \in Record /\ ~(order[p].filled > 0)
    BY <1>3, OrderNumbers DEF PairInv, HedgeTypeOK, Outcome
  <2>4. \A p \in Perps : order[p].filled = 0
    BY <2>3, ExecutionAssumption DEF Record
  <2>5. Submits(o, Qty) /\ Qty \in 0..Qty
    BY <2>1, <2>2, ExecutionAssumption
  <2>6. QED
    BY <1>1, <2>1, <2>2, <2>4, <2>5, SubmitsKeepsInv
<1>4. QED
  BY <1>2, <1>3

(* The next retry, or the roll-back of what is entered of the spot order.     *)
LEMMA RetryReturnedKeepsInv == ASSUME PairInv, RetryReturned PROVE PairInv'
<1>1. /\ stage = "returned" /\ cur \in Retries /\ cur \in Order /\ order[Spot].filled > 0
      /\ ok \in BOOLEAN /\ pair \in BOOLEAN /\ canOpen \in BOOLEAN
  BY OrderNumbers DEF RetryReturned, PairInv, HedgeTypeOK, Outcome
<1>2. CASE AfterRetry = None
  BY <1>1, <1>2, ReturnsKeepsInv DEF RetryReturned
<1>3. CASE AfterRetry # None
  <2>1. ~ok
    BY <1>3 DEF AfterRetry
  <2>2. PICK o \in Order : o = AfterRetry /\ o > cur
    BY <1>1, <2>1, OrderNumbers DEF AfterRetry
  <2>3. order[Spot].filled \in 0..Qty /\ RollbackQty = order[Spot].filled
    BY <1>1, OrderNumbers DEF RollbackQty, PairInv, HedgeTypeOK, Record
  <2>4. PICK q \in 0..Qty : /\ q = IF AfterRetry = Rollback THEN RollbackQty ELSE Qty
                            /\ o = Rollback => q <= order[Spot].filled
    <3>1. CASE AfterRetry = Rollback
      BY <2>2, <2>3, <3>1
    <3>2. CASE AfterRetry # Rollback
      BY <2>2, <3>2, ExecutionAssumption
    <3>3. QED
      BY <3>1, <3>2
  <2>5. Submits(o, q) /\ canOpen' \in BOOLEAN
    BY <1>1, <1>3, <2>2, <2>4 DEF RetryReturned
  <2>6. \A p \in Perps : order[p] \in Record /\ ~(order[p].filled > 0)
    BY <2>1, OrderNumbers DEF PairInv, HedgeTypeOK, Outcome
  <2>7. \A p \in Perps : order[p].filled = 0
    BY <2>6, ExecutionAssumption DEF Record
  <2>8. QED
    BY <1>1, <2>2, <2>4, <2>5, <2>7, SubmitsKeepsInv
<1>4. QED
  BY <1>2, <1>3

-------------------------------------------------------------------------------
(* An order is taken for cancellation only when it was placed.               *)
LEMMA CancelOrderKeepsInv ==
  ASSUME PairInv, NEW o \in Order, CancelOrder(o) PROVE PairInv'
<1> USE OrderNumbers, ExecutionAssumption DEF PairInv
<1>1. /\ UNCHANGED <<side, maker, stage, cur, ok, pair, result, order, canOpen, resting,
                     pending, executed, unseen, reports>>
      /\ cancelling' = cancelling \cup {o} /\ o \in Made /\ order[o].sent
  BY DEF CancelOrder, taskVars, venueVars
<1>2. HedgeTypeOK'
  BY <1>1 DEF HedgeTypeOK, Made
<1>3. Phase'
  BY <1>1 DEF Phase, OnSpot, Untouched, Ahead
<1>4. Volume'
  BY <1>1 DEF Volume
<1>5. Bookings'
  BY <1>1 DEF Bookings
<1>6. Outcome'
  BY <1>1 DEF Outcome
<1>7. QED
  BY <1>2, <1>3, <1>4, <1>5, <1>6

(* Other tasks move the status of an order that was placed, and take it out  *)
(* of the exchange.                                                         *)
LEMMA StatusMovesKeepInv ==
  ASSUME PairInv, NEW o \in Order, order[o].sent, NEW r \in Record,
         order' = [order EXCEPT ![o] = r],
         r.qty = order[o].qty, r.filled = order[o].filled, r.sent,
         r.status \in Early => order[o].status \in Early,
         UNCHANGED <<side, maker, stage, cur, ok, pair, result, canOpen, executed, unseen,
                     reports>>,
         resting' \in {resting, 0}, pending' \in [Order -> 0..Qty],
         \A p \in Order : pending'[p] <= pending[p], cancelling' \subseteq cancelling
  PROVE  PairInv'
<1> USE OrderNumbers, ExecutionAssumption DEF PairInv
<1>1. /\ order' \in [Order -> Record] /\ order'[o] = r
      /\ \A p \in Order : p # o => order'[p] = order[p]
  BY DEF HedgeTypeOK
<1>2. Made' = Made /\ ~Ahead(o)
  BY <1>1 DEF Made, Phase, Untouched, Ahead
<1>9. \A p \in Order : /\ pending'[p] \in 0..Qty /\ pending[p] \in 0..Qty
                       /\ pending'[p] <= pending[p]
                       /\ executed[p] \in 0..(2 * Qty) /\ executed'[p] = executed[p]
  BY DEF HedgeTypeOK
<1>10. resting \in 0..Qty /\ resting' \in 0..Qty /\ resting' <= resting
  BY DEF HedgeTypeOK
<1>3. HedgeTypeOK'
  BY <1>1, <1>2 DEF HedgeTypeOK
<1>4. Phase'
  <2>1. (\A p \in Order : Ahead(p) => Untouched(p))'
    <3>1. ASSUME NEW p \in Order, Ahead(p)' PROVE Untouched(p)'
      <4>1. Ahead(p)
        BY <3>1 DEF Ahead
      <4>2. p # o /\ Untouched(p)
        BY <1>2, <4>1 DEF Phase
      <4>3. pending'[p] = 0
        BY <1>9, <4>2 DEF Untouched
      <4>4. QED
        BY <1>1, <4>2, <4>3 DEF Untouched
    <3>2. QED
      BY <3>1
  <2>2. (\A p \in cancelling : order[p].sent)'
    BY <1>1 DEF HedgeTypeOK, Phase, Made
  <2>3. QED
    BY <2>1, <2>2 DEF Phase, OnSpot
<1>5. Volume'
  <2>1. (executed[Spot] + resting + pending[Spot] <= 2 * Qty)'
    BY <1>9, <1>10 DEF Volume
  <2>2. (cur = None \/ (cur = Spot /\ stage = "submit") => resting = 0)'
    BY DEF Volume
  <2>3. (cur = Spot /\ stage \notin {"returned", "over"} =>
           pending[Spot] = 0 /\ executed[Spot] + resting <= Qty)'
    BY <1>9, <1>10 DEF Volume
  <2>4. (\A p \in Order \ {Spot} : executed[p] + pending[p] <= order[p].qty)'
    <3>1. ASSUME NEW p \in Order \ {Spot}
          PROVE  executed'[p] + pending'[p] <= order'[p].qty
      <4>1. order'[p].qty = order[p].qty /\ order[p].qty \in Nat
        BY <1>1 DEF HedgeTypeOK, Record
      <4>2. QED
        BY <1>9, <4>1 DEF Volume
    <3>2. QED
      BY <3>1
  <2>5. QED
    BY <2>1, <2>2, <2>3, <2>4 DEF Volume
<1>6. Bookings'
  BY <1>1 DEF Bookings
<1>7. Outcome'
  <2>1. \A p \in Order : order'[p].filled = order[p].filled /\ order'[p].qty = order[p].qty
    BY <1>1
  <2>2. QED
    BY <2>1 DEF Outcome, HedgeTypeOK
<1>8. QED
  BY <1>3, <1>4, <1>5, <1>6, <1>7

(* The exchange answers a cancellation.                                      *)
LEMMA CancelAnsweredKeepsInv ==
  ASSUME PairInv, NEW o \in Order, CancelAnswered(o) PROVE PairInv'
<1> USE OrderNumbers, ExecutionAssumption
<1>1. /\ o \in cancelling /\ order[o].sent /\ order[o] \in Record
      /\ cancelling' \subseteq cancelling
      /\ UNCHANGED <<side, maker, stage, cur, ok, pair, result, canOpen, executed, unseen,
                     reports>>
  BY DEF CancelAnswered, PairInv, Phase, HedgeTypeOK, taskVars
<1> DEFINE r == Become(order[o], "CANCELED")
<1>2. /\ r \in Record /\ r.qty = order[o].qty /\ r.filled = order[o].filled
      /\ r.sent = order[o].sent
      /\ r.status \in Early => order[o].status \in Early
  BY <1>1, BecomeFacts DEF OrderStatus
<1>3. CASE /\ order' = [order EXCEPT ![o] = MarkCanceled(@)]
           /\ \/ resting' = 0 /\ pending' = pending
              \/ resting' = resting /\ pending' = [pending EXCEPT ![o] = 0]
  <2>1. order' = [order EXCEPT ![o] = r]
    BY <1>3 DEF MarkCanceled
  <2> HIDE DEF r
  <2>2. resting' \in {resting, 0}
    BY <1>3
  <2>3. /\ pending' \in [Order -> 0..Qty]
        /\ \A p \in Order : pending'[p] <= pending[p]
    BY <1>3 DEF PairInv, HedgeTypeOK
  <2>4. QED
    BY <1>1, <1>2, <2>1, <2>2, <2>3, StatusMovesKeepInv
<1>4. CASE UNCHANGED <<order, resting, pending>>
  <2> DEFINE same == order[o]
  <2>1. order' = [order EXCEPT ![o] = same] /\ resting' \in {resting, 0}
    BY <1>4 DEF PairInv, HedgeTypeOK
  <2>2. /\ pending' \in [Order -> 0..Qty]
        /\ \A p \in Order : pending'[p] <= pending[p]
    BY <1>4 DEF PairInv, HedgeTypeOK
  <2>3. same \in Record /\ same.qty = order[o].qty /\ same.filled = order[o].filled
        /\ same.sent /\ (same.status \in Early => order[o].status \in Early)
    BY <1>1
  <2> HIDE DEF same
  <2>4. QED
    BY <1>1, <2>1, <2>2, <2>3, StatusMovesKeepInv
<1>5. QED
  BY <1>3, <1>4 DEF CancelAnswered

(* The status of the exchange is taken over where the table allows it.       *)
LEMMA SyncKeepsInv ==
  ASSUME PairInv, NEW o \in Order, SyncOrderStatus(o) PROVE PairInv'
<1> USE OrderNumbers, ExecutionAssumption
<1>0. PICK status \in StatusesAt(o) : order' = [order EXCEPT ![o] = Become(@, status)]
  BY DEF SyncOrderStatus
<1> DEFINE r == Become(order[o], status)
<1>1. /\ order[o].sent /\ order[o] \in Record /\ order' = [order EXCEPT ![o] = r]
      /\ cancelling' = cancelling
      /\ UNCHANGED <<side, maker, stage, cur, ok, pair, result, canOpen, executed, unseen,
                     reports, resting, pending>>
  BY <1>0 DEF SyncOrderStatus, PairInv, HedgeTypeOK, taskVars, venueVars
<1>2. status \in OrderStatus
  BY <1>0 DEF StatusesAt, StatusAt, OrderStatus
<1>3. /\ r \in Record /\ r.qty = order[o].qty /\ r.filled = order[o].filled
      /\ r.sent = order[o].sent
      /\ r.status \in Early => order[o].status \in Early
  BY <1>1, <1>2, BecomeFacts
<1> HIDE DEF r
<1>4. /\ pending' \in [Order -> 0..Qty]
      /\ \A p \in Order : pending'[p] <= pending[p]
  BY <1>1 DEF PairInv, HedgeTypeOK
<1>5. QED
  BY <1>1, <1>3, <1>4, StatusMovesKeepInv

-------------------------------------------------------------------------------
(* Nothing happens to the pair.                                              *)
LEMMA StutterKeepsInv == ASSUME PairInv, UNCHANGED hedgeVars PROVE PairInv'
<1>1. HedgeTypeOK' /\ Phase'
  BY DEF hedgeVars, taskVars, venueVars, PairInv, HedgeTypeOK, Made, Phase, OnSpot, Untouched, Ahead
<1>2. Volume' /\ Bookings' /\ Outcome'
  BY DEF hedgeVars, taskVars, venueVars, PairInv, Volume, Bookings, Outcome
<1>3. QED
  BY <1>1, <1>2 DEF PairInv

(* Every step of the task, the exchange and the other tasks keeps PairInv.   *)
LEMMA StepKeepsInv == PairInv /\ [HedgeNext]_hedgeVars => PairInv'
<1> SUFFICES ASSUME PairInv, [HedgeNext]_hedgeVars PROVE PairInv'
  OBVIOUS
<1>1. CASE \E s \in {"BUY", "SELL"}, m \in BOOLEAN : SubmitHedgePair(s, m)
  BY <1>1, SubmitPairKeepsInv
<1>2. CASE SubmitBlocked \/ SubmitIoc \/ PlacePostOnly \/ PostOnlyRefused
  BY <1>2, SubmitBlockedKeepsInv, SubmitIocKeepsInv, PlacePostOnlyKeepsInv,
     PostOnlyRefusedKeepsInv
<1>3. CASE PollExecuted \/ DetailsFilled \/ DetailsPartial
  BY <1>3, PollExecutedKeepsInv, DetailsFilledKeepsInv, DetailsPartialKeepsInv
<1>4. CASE CancelUnfilled \/ ChasePrice \/ WaitEnds
  BY <1>4, CancelUnfilledKeepsInv, ChasePriceKeepsInv, WaitEndsKeepsInv
<1>5. CASE (\E n \in 1..Qty : IocExecuted(n)) \/ IocUnseen \/ IocRefused
  BY <1>5, IocExecutedKeepsInv, IocUnseenKeepsInv, IocRefusedKeepsInv
<1>6. CASE SpotReturned \/ PerpReturned \/ RetryReturned \/ RollbackReturned
  BY <1>6, SpotReturnedKeepsInv, PerpReturnedKeepsInv, RetryReturnedKeepsInv,
     RollbackReturnedKeepsInv
<1>7. CASE \E o \in Order : \/ PendingEnds(o) \/ CancelOrder(o)
                           \/ CancelAnswered(o) \/ SyncOrderStatus(o)
  BY <1>7, PendingEndsKeepsInv, CancelOrderKeepsInv, CancelAnsweredKeepsInv, SyncKeepsInv
<1>8. CASE RestingExecutes \/ ModeChanges
  BY <1>8, RestingExecutesKeepsInv, ModeChangesKeepsInv
<1>9. CASE UNCHANGED hedgeVars
  BY <1>9, StutterKeepsInv
<1>10. QED
  BY <1>1, <1>2, <1>3, <1>4, <1>5, <1>6, <1>7, <1>8, <1>9 DEF HedgeNext, Submission, Others

-------------------------------------------------------------------------------
(* A hedge at the exchange is one the engine booked, or did not see the      *)
(* answer of.                                                               *)
Seen == \A o \in Perps \ unseen : executed[o] > 0 \/ pending[o] > 0 => order[o].filled > 0

(* Seen holds as long as no other hedge comes to the exchange and what is    *)
(* booked stays.                                                            *)
LEMMA SeenStays ==
  ASSUME Seen, unseen \subseteq unseen',
         \A o \in Perps \ unseen' :
           /\ executed'[o] > 0 \/ pending'[o] > 0 => executed[o] > 0 \/ pending[o] > 0
           /\ order'[o].filled = order[o].filled
  PROVE  Seen'
BY DEF Seen

(* The task, where it does not go to the market, books only the spot order.  *)
LEMMA TaskKeepsSeen ==
  ASSUME PairInv, Seen,
         \/ \E s \in {"BUY", "SELL"}, m \in BOOLEAN : SubmitHedgePair(s, m)
         \/ SubmitBlocked \/ SubmitIoc \/ PlacePostOnly \/ PostOnlyRefused
         \/ PollExecuted \/ DetailsFilled \/ DetailsPartial
         \/ CancelUnfilled \/ ChasePrice \/ WaitEnds
  PROVE  Seen'
<1> USE OrderNumbers
<1>0. order \in [Order -> Record]
  BY DEF PairInv, HedgeTypeOK
<1>1. executed' = executed /\ pending' = pending /\ unseen \subseteq unseen'
  BY DEF SubmitHedgePair, SubmitBlocked, SubmitIoc, PlacePostOnly, PostOnlyRefused, AnswerLost,
         PollExecuted, DetailsFilled, DetailsPartial, CancelUnfilled, ChasePrice, WaitEnds,
         venueVars
<1>2. ASSUME NEW o \in Perps PROVE order'[o].filled = order[o].filled
  <2>1. o \in Order /\ o # Spot
    OBVIOUS
  <2>2. CASE \E s \in {"BUY", "SELL"}, m \in BOOLEAN : SubmitHedgePair(s, m)
    <3>1. Untouched(o)
      BY <2>1, <2>2 DEF SubmitHedgePair, PairInv, Phase, Ahead
    <3>2. order'[o] = Created(Qty) \/ order'[o] = order[o]
      BY <1>0, <2>1, <2>2 DEF SubmitHedgePair
    <3>3. QED
      BY <3>1, <3>2 DEF Untouched, Created
  <2>3. CASE SubmitBlocked \/ SubmitIoc \/ CancelUnfilled \/ ChasePrice \/ WaitEnds
             \/ PostOnlyRefused
    BY <2>3 DEF SubmitBlocked, SubmitIoc, CancelUnfilled, ChasePrice, WaitEnds, PostOnlyRefused
  <2>4. CASE PlacePostOnly \/ PollExecuted \/ DetailsFilled \/ DetailsPartial
    <3>1. cur = Spot
      BY <2>4 DEF PlacePostOnly, PostOnly, PollExecuted, DetailsFilled, DetailsPartial, PairInv,
             Phase, OnSpot
    <3>2. order' = order \/ \E r : order' = [order EXCEPT ![cur] = r]
      BY <2>4 DEF PlacePostOnly, PollExecuted, DetailsFilled, DetailsPartial, Update
    <3>3. QED
      BY <1>0, <2>1, <3>1, <3>2
  <2>5. QED
    BY <2>2, <2>3, <2>4
<1>3. QED
  BY <1>1, <1>2, SeenStays

(* A hedge that goes to the market is booked, or its answer is not seen.     *)
LEMMA MarketKeepsSeen ==
  ASSUME PairInv, Seen, (\E n \in 1..Qty : IocExecuted(n)) \/ IocUnseen \/ IocRefused
  PROVE  Seen'
<1> USE OrderNumbers
<1>0. /\ order \in [Order -> Record] /\ executed \in [Order -> 0..(2 * Qty)]
      /\ pending \in [Order -> 0..Qty]
  BY DEF PairInv, HedgeTypeOK
<1>1. /\ cur \in Order /\ order[cur] \in Record
      /\ cur # Spot => order[cur].status = "NEW" /\ order[cur].filled = 0
  BY AtMarket DEF IocExecuted, IocUnseen, IocRefused, Untouched
<1>2. \A o \in Order : o # cur => /\ executed'[o] = executed[o] /\ pending'[o] = pending[o]
                                 /\ order'[o] = order[o]
  <2>1. CASE \E n \in 1..Qty : IocExecuted(n)
    <3>1. PICK n \in 1..Qty : IocExecuted(n)
      BY <2>1
    <3>2. \E r : order' = [order EXCEPT ![cur] = r]
      BY <3>1 DEF IocExecuted, Update
    <3>3. \E x, y : /\ executed' = [executed EXCEPT ![cur] = x]
                    /\ pending' = [pending EXCEPT ![cur] = y]
      BY <3>1 DEF IocExecuted, Executes
    <3>4. QED
      BY <1>0, <3>2, <3>3
  <2>2. CASE IocUnseen \/ IocRefused
    BY <1>0, <2>2 DEF IocUnseen, IocRefused, Placed, Update, venueVars
  <2>3. QED
    BY <2>1, <2>2
<1>3. CASE \E n \in 1..Qty : IocExecuted(n)
  <2>1. PICK n \in 1..Qty : IocExecuted(n)
    BY <1>3
  <2>2. CASE cur = Spot
    BY <1>2, <2>1, <2>2, SeenStays DEF IocExecuted
  <2>3. CASE cur # Spot
    <3>1. order' = [order EXCEPT ![cur] = IocFill(cur, n)] /\ unseen' = unseen
      BY <1>1, <2>1, <2>3 DEF IocExecuted, Update
    <3>2. IocFill(cur, n).filled = n
      BY <1>1, <2>3, IocFillFacts
    <3>3. order'[cur].filled > 0
      BY <1>0, <1>1, <3>1, <3>2, ExecutionAssumption
    <3>4. QED
      BY <1>2, <3>1, <3>3 DEF Seen
  <2>4. QED
    BY <2>2, <2>3
<1>4. CASE IocUnseen \/ IocRefused
  <2>1. CASE Placed
    BY <1>2, <2>1, SeenStays DEF Placed, AnswerLost
  <2>2. CASE IocRefused /\ UNCHANGED venueVars
    <3>1. Become(order[cur], "REJECTED").filled = order[cur].filled
      BY <1>1, BecomeFacts DEF OrderStatus
    <3>2. order'[cur].filled = order[cur].filled
      BY <1>0, <1>1, <2>2, <3>1 DEF IocRefused, MarkRejected, Update
    <3>3. QED
      BY <1>2, <2>2, <3>2, SeenStays DEF venueVars
  <2>3. QED
    BY <1>4, <2>1, <2>2 DEF IocUnseen, IocRefused
<1>5. QED
  BY <1>3, <1>4

(* Going on to the next order leaves the earlier ones as they are.           *)
LEMMA ReturnKeepsSeen ==
  ASSUME PairInv, Seen, SpotReturned \/ PerpReturned \/ RetryReturned \/ RollbackReturned
  PROVE  Seen'
<1> USE OrderNumbers
<1>0. order \in [Order -> Record] /\ cur \in Order
  BY DEF PairInv, HedgeTypeOK, SpotReturned, PerpReturned, RetryReturned, RollbackReturned
<1>1. executed' = executed /\ pending' = pending /\ unseen' = unseen
  BY DEF SpotReturned, PerpReturned, RetryReturned, RollbackReturned, Submits, Returns, venueVars
<1>2. \/ order' = order
      \/ \E o \in Order, q \in 0..Qty : o > cur /\ order' = [order EXCEPT ![o] = Created(q)]
  <2>1. CASE SpotReturned \/ RollbackReturned
    BY <2>1 DEF SpotReturned, RollbackReturned, Submits, Returns
  <2>2. CASE PerpReturned
    <3>1. Perp + 1 \in Order /\ Perp + 1 > Perp /\ Qty \in 0..Qty
      BY ExecutionAssumption
    <3>2. QED
      BY <2>2, <3>1 DEF PerpReturned, Submits, Returns
  <2>3. CASE RetryReturned
    <3>1. CASE AfterRetry = None
      BY <2>3, <3>1 DEF RetryReturned, Returns
    <3>2. CASE AfterRetry # None
      <4>0. ~ok /\ cur \in Retries
        BY <2>3, <3>2 DEF AfterRetry, RetryReturned
      <4>1. PICK o \in Order : o = AfterRetry /\ o > cur
        BY <1>0, <4>0 DEF AfterRetry
      <4>2. RollbackQty \in 0..Qty
        BY <1>0, ExecutionAssumption DEF RollbackQty, Record
      <4>3. PICK q \in 0..Qty : q = IF AfterRetry = Rollback THEN RollbackQty ELSE Qty
        BY <4>2, ExecutionAssumption
      <4>4. Submits(o, q)
        BY <2>3, <3>2, <4>1, <4>3 DEF RetryReturned
      <4>5. QED
        BY <4>1, <4>4 DEF Submits
    <3>3. QED
      BY <3>1, <3>2
  <2>4. QED
    BY <2>1, <2>2, <2>3
<1>3. ASSUME NEW o \in Perps PROVE order'[o].filled = order[o].filled
  <2>1. CASE order' = order
    BY <2>1
  <2>2. ASSUME NEW p \in Order, NEW q \in 0..Qty, p > cur, order' = [order EXCEPT ![p] = Created(q)]
        PROVE  order'[o].filled = order[o].filled
    <3>1. Untouched(p)
      BY <2>2 DEF PairInv, Phase, Ahead
    <3>2. Created(q).filled = 0
      BY DEF Created
    <3>3. QED
      BY <1>0, <2>2, <3>1, <3>2 DEF Untouched
  <2>3. QED
    BY <1>2, <2>1, <2>2
<1>4. QED
  BY <1>1, <1>3, SeenStays

(* The exchange executes what it has; the other tasks book nothing.          *)
LEMMA OthersKeepSeen == ASSUME PairInv, Seen, Others PROVE Seen'
<1> USE OrderNumbers
<1>0. /\ order \in [Order -> Record] /\ executed \in [Order -> 0..(2 * Qty)]
      /\ pending \in [Order -> 0..Qty]
  BY DEF PairInv, HedgeTypeOK
<1>1. CASE ModeChanges \/ \E o \in Order : CancelOrder(o)
  BY <1>1, SeenStays DEF ModeChanges, CancelOrder, venueVars
<1>2. CASE RestingExecutes
  <2>1. \A o \in Perps : executed'[o] = executed[o]
    BY <1>0, <1>2 DEF RestingExecutes
  <2>2. QED
    BY <1>2, <2>1, SeenStays DEF RestingExecutes
<1>3. ASSUME NEW o \in Order, PendingEnds(o) PROVE Seen'
  <2>1. \A p \in Perps : p # o => executed'[p] = executed[p] /\ pending'[p] = pending[p]
    BY <1>0, <1>3 DEF PendingEnds
  <2>2. pending[o] > 0 /\ unseen' = unseen /\ order' = order
    BY <1>3 DEF PendingEnds
  <2>3. QED
    BY <2>1, <2>2, SeenStays
<1>4. ASSUME NEW o \in Order, CancelAnswered(o) PROVE Seen'
  <2>1. executed' = executed /\ unseen' = unseen
    BY <1>4 DEF CancelAnswered
  <2>2. \A p \in Perps : pending'[p] > 0 => pending[p] > 0
    BY <1>0, <1>4 DEF CancelAnswered
  <2>3. order' = order \/ order' = [order EXCEPT ![o] = Become(order[o], "CANCELED")]
    BY <1>4 DEF CancelAnswered, MarkCanceled
  <2>4. Become(order[o], "CANCELED").filled = order[o].filled
    BY <1>0, BecomeFacts DEF OrderStatus
  <2>5. \A p \in Perps : order'[p].filled = order[p].filled
    BY <1>0, <2>3, <2>4
  <2>6. QED
    BY <2>1, <2>2, <2>5, SeenStays
<1>5. ASSUME NEW o \in Order, SyncOrderStatus(o) PROVE Seen'
  <2>1. executed' = executed /\ unseen' = unseen /\ pending' = pending
    BY <1>5 DEF SyncOrderStatus, venueVars
  <2>2. PICK status \in StatusesAt(o) : order' = [order EXCEPT ![o] = Become(order[o], status)]
    BY <1>5 DEF SyncOrderStatus
  <2>3. status \in OrderStatus
    BY <2>2 DEF StatusesAt, StatusAt, OrderStatus
  <2>4. Become(order[o], status).filled = order[o].filled
    BY <1>0, <2>3, BecomeFacts
  <2>5. \A p \in Perps : order'[p].filled = order[p].filled
    BY <1>0, <2>2, <2>4
  <2>6. QED
    BY <2>1, <2>5, SeenStays
<1>6. QED
  BY <1>1, <1>2, <1>3, <1>4, <1>5 DEF Others

(* Every step keeps Seen.                                                    *)
LEMMA StepKeepsSeen == PairInv /\ Seen /\ [HedgeNext]_hedgeVars => Seen'
<1>1. PairInv /\ Seen /\ UNCHANGED hedgeVars => Seen'
  BY DEF Seen, hedgeVars, venueVars
<1>2. PairInv /\ Seen /\ HedgeNext => Seen'
  BY TaskKeepsSeen, MarketKeepsSeen, ReturnKeepsSeen, OthersKeepSeen DEF HedgeNext, Submission
<1>3. QED
  BY <1>1, <1>2

(* Seen holds at the start, and of every state.                              *)
LEMMA SeenAlways == HedgeSpec => [](PairInv /\ Seen)
<1>1. HedgeInit => Seen
  BY OrderNumbers DEF HedgeInit, Seen
<1>2. QED
  BY <1>1, InitInv, StepKeepsInv, StepKeepsSeen, PTL DEF HedgeSpec

(* PairInv says of the legs what the runs check.                             *)
LEMMA InvImplies == PairInv /\ Seen => LegsConsistent /\ HedgedOnce /\ NeverOversold
<1> SUFFICES ASSUME PairInv, Seen PROVE LegsConsistent /\ HedgedOnce /\ NeverOversold
  OBVIOUS
<1> USE OrderNumbers, ExecutionAssumption
<1>1. \A o \in Order : /\ order[o].filled \in Nat /\ executed[o] \in Nat
                       /\ pending[o] \in Nat /\ order[o].qty \in Nat
  BY DEF PairInv, HedgeTypeOK, Record
<1>2. \A o \in Order : order[o].filled <= executed[o]
  BY DEF PairInv, Bookings
<1>3. cur \notin {None, Spot} => order[Spot].filled > 0
  BY DEF PairInv, Outcome
<1>4. \A o \in Order : ~Untouched(o) => ~(o > cur)
  BY DEF PairInv, Phase, Ahead
<1>5. cur \in Nat
  BY DEF PairInv, HedgeTypeOK
<1>6. LegsConsistent
  <2>1. FilledIsExecuted
    BY <1>2 DEF FilledIsExecuted, Made
  <2>2. PerpNeedsSpot
    <3>1. ASSUME NEW o \in Perps, executed[o] > 0 PROVE executed[Spot] > 0
      <4>1. o \in Order /\ o > Spot
        BY DEF Perps
      <4>2. ~Untouched(o)
        BY <1>1, <3>1, <4>1 DEF Untouched
      <4>3. cur \notin {None, Spot}
        BY <1>4, <1>5, <4>1, <4>2
      <4>4. QED
        BY <1>1, <1>2, <1>3, <4>3
    <3>2. QED
      BY <3>1 DEF PerpNeedsSpot
  <2>3. QED
    BY <2>1, <2>2 DEF LegsConsistent, PairInv
<1>7. HedgedOnce
  <2> DEFINE H == {o \in Perps : executed[o] > 0} \ unseen
  <2>1. H \subseteq {cur}
    BY DEF PairInv, Outcome, Seen
  <2>2. IsFiniteSet({cur}) /\ Cardinality({cur}) = 1
    BY FS_Singleton
  <2>3. Cardinality(H) <= 1
    BY <2>1, <2>2, FS_Subset
  <2>4. executed[Rollback] > 0 => H = {}
    <3>1. executed[Rollback] > 0 => ~(Rollback > cur)
      BY <1>4 DEF Untouched
    <3>2. executed[Rollback] > 0 => cur = Rollback
      BY <1>5, <3>1 DEF PairInv, HedgeTypeOK
    <3>3. QED
      BY <2>1, <3>2
  <2>5. pair => executed[Spot] > 0 /\ executed[Perp] > 0
    BY DEF PairInv, Outcome
  <2>6. QED
    BY <2>3, <2>4, <2>5 DEF HedgedOnce
<1>8. NeverOversold
  <2>1. CASE cur = Rollback
    <3>1. executed[Rollback] + pending[Rollback] <= order[Rollback].qty
      BY DEF PairInv, Volume
    <3>2. order[Rollback].qty <= order[Spot].filled
      BY <2>1 DEF PairInv, Outcome
    <3>3. QED
      BY <1>1, <1>2, <3>1, <3>2 DEF NeverOversold
  <2>2. CASE cur # Rollback
    <3>1. Rollback > cur
      BY <1>5, <2>2 DEF PairInv, HedgeTypeOK
    <3>2. executed[Rollback] = 0
      BY <1>4, <3>1 DEF Untouched
    <3>3. QED
      BY <1>1, <3>2 DEF NeverOversold
  <2>3. QED
    BY <2>1, <2>2
<1>9. QED
  BY <1>6, <1>7, <1>8

(* What the orders of a pair say agrees with the exchange: nothing counts as *)
(* filled that was not executed, whoever polls, cancels or synchronises, and *)
(* the hedge trades only against a spot order that was executed.             *)
THEOREM LegsConsistentAlways == HedgeSpec => []LegsConsistent
BY SeenAlways, InvImplies, PTL

(* However many retries there are, the exchange executes at most one hedge   *)
(* whose answer was seen, none when the spot order is sold back, and a pair  *)
(* that is kept has both its legs.  An order whose answer was lost may hedge *)
(* besides.                                                                 *)
THEOREM HedgedOnceAlways == HedgeSpec => []HedgedOnce
BY SeenAlways, InvImplies, PTL

(* The roll-back sells no more of the spot order than was executed of it.    *)
THEOREM NeverOversoldAlways == HedgeSpec => []NeverOversold
BY SeenAlways, InvImplies, PTL

-------------------------------------------------------------------------------
(* Every leg of a pair ends.  A leg goes round at most once: an order that   *)
(* was polled as executed is acknowledged, and no task makes it SENT again.  *)

(* The task is at a stage with an order.                                     *)
At(label, o) == stage = label /\ cur = o

(* It polls an order that can still be acknowledged, or cannot any more.     *)
Unacked(label, o) == At(label, o) /\ order[o].status = "SENT"
Acked(label, o) == At(label, o) /\ order[o].status # "SENT"

(* The task has something to do but wait.                                    *)
Underway == stage \in {"submit", "filled", "partial", "cancel", "chase", "ioc", "returned"}

(* A later order is submitted.                                               *)
LaterSubmitted(o) == stage = "submit" /\ cur \in (o + 1)..Rollback

(* What no marker, no cancellation and no synchronisation does.              *)
LEMMA SentOnlyByMarkSent ==
  ASSUME NEW r \in Record, r.status # "SENT"
  PROVE  /\ \A st \in {"FILLED", "PARTIAL", "NEW", "CANCELED", "ACK"} : Become(r, st).status # "SENT"
         /\ MarkAcked(r) = r \/ MarkAcked(r).status = "ACK"
         /\ \A n \in 0..Qty : MarkPartialFill(r, n).status # "SENT"
<1>1. \A st \in {"FILLED", "PARTIAL", "NEW", "CANCELED", "ACK"} : Become(r, st).status # "SENT"
  BY DEF Become, Record
<1>2. MarkAcked(r) = r \/ MarkAcked(r).status = "ACK"
  BY DEF MarkAcked, Become, Record
<1>3. ASSUME NEW n \in 0..Qty PROVE MarkPartialFill(r, n).status # "SENT"
  <2> DEFINE added == [r EXCEPT !.filled = @ + n]
  <2>1. added.status = r.status /\ added = [added EXCEPT !.status = r.status]
    BY DEF Record
  <2>2. Become(added, "PARTIAL").status # "SENT"
    <3>1. [added EXCEPT !.status = "PARTIAL"].status = "PARTIAL"
      BY DEF Record
    <3> HIDE DEF added
    <3>2. QED  BY <2>1, <3>1 DEF Become
  <2>3. QED  BY <2>2 DEF MarkPartialFill, added
<1>4. QED  BY <1>1, <1>2, <1>3

(* The exchange and the other tasks leave the task where it is, and an order *)
(* that is acknowledged stays so.                                            *)
LEMMA OthersLeave ==
  ASSUME PairInv, NEW o \in Order, cur = o, Others \/ UNCHANGED hedgeVars
  PROVE  /\ stage' = stage /\ cur' = cur
         /\ order[o].status # "SENT" => order'[o].status # "SENT"
<1>0. order \in [Order -> Record]
  BY DEF PairInv, HedgeTypeOK
<1>1. CASE UNCHANGED hedgeVars
  BY <1>1 DEF hedgeVars, taskVars
<1>2. ASSUME NEW x \in Order, PendingEnds(x) \/ CancelOrder(x)
      PROVE  stage' = stage /\ cur' = cur /\ order' = order
  BY <1>2 DEF PendingEnds, CancelOrder, taskVars
<1>3. CASE RestingExecutes \/ ModeChanges
  BY <1>3 DEF RestingExecutes, ModeChanges, taskVars
<1>4. ASSUME NEW x \in Order, CancelAnswered(x) \/ SyncOrderStatus(x)
      PROVE  /\ stage' = stage /\ cur' = cur
             /\ order[o].status # "SENT" => order'[o].status # "SENT"
  <2>1. stage' = stage /\ cur' = cur
    BY <1>4 DEF CancelAnswered, SyncOrderStatus, taskVars
  <2>2. StatusesAt(x) \subseteq {"FILLED", "PARTIAL", "NEW", "CANCELED"}
    BY DEF StatusesAt, StatusAt
  <2>3. \/ order' = order
        \/ \E st \in {"FILLED", "PARTIAL", "NEW", "CANCELED"} :
             order' = [order EXCEPT ![x] = Become(order[x], st)]
    BY <1>4, <2>2 DEF CancelAnswered, SyncOrderStatus, MarkCanceled
  <2>4. QED  BY <1>0, <2>1, <2>3, SentOnlyByMarkSent
<1>5. QED  BY <1>1, <1>2, <1>3, <1>4 DEF Others

(* Which steps the task can make at which stage.                             *)
LEMMA StepsOfStage ==
  ASSUME Submission
  PROVE  /\ stage = "submit" => \/ SubmitBlocked \/ SubmitIoc
                                \/ PlacePostOnly \/ PostOnlyRefused
         /\ stage = "wait" => PollExecuted
         /\ stage = "filled" => DetailsFilled
         /\ stage = "partial" => DetailsPartial
         /\ stage = "cancel" => CancelUnfilled
         /\ stage = "chase" => ChasePrice
         /\ stage = "ioc" => (\E n \in 1..Qty : IocExecuted(n)) \/ IocUnseen \/ IocRefused
         /\ stage = "returned" => SpotReturned \/ PerpReturned \/ RetryReturned \/ RollbackReturned
         /\ Underway \/ stage = "wait"
BY DEF Submission, SubmitBlocked, SubmitIoc, PlacePostOnly, PostOnlyRefused, PollExecuted, DetailsFilled,
       DetailsPartial, CancelUnfilled, ChasePrice, IocExecuted, IocUnseen, IocRefused,
       SpotReturned, PerpReturned, RetryReturned, RollbackReturned, Underway

(* The next stage of the task, while submit_order runs.                      *)
LEMMA LegGoesOn ==
  ASSUME PairInv, NEW o \in Order, cur = o, Submission
  PROVE  /\ At("submit", o) => \/ Unacked("wait", o)' \/ Acked("wait", o)'
                               \/ At("ioc", o)' \/ At("returned", o)'
         /\ Unacked("wait", o) => At("filled", o)' \/ Acked("partial", o)' \/ At("returned", o)'
         /\ Acked("wait", o) => At("returned", o)'
         /\ At("filled", o) => At("returned", o)'
         /\ Acked("partial", o) => Acked("wait", o)' \/ At("returned", o)'
         /\ At("cancel", o) => At("chase", o)'
         /\ At("chase", o) => At("ioc", o)' \/ At("returned", o)'
         /\ At("ioc", o) => At("returned", o)'
<1> USE StepsOfStage
<1>0. order \in [Order -> Record] /\ order[o] \in Record
  BY DEF PairInv, HedgeTypeOK
<1>1. At("submit", o) => \/ Unacked("wait", o)' \/ Acked("wait", o)'
                         \/ At("ioc", o)' \/ At("returned", o)'
  BY DEF At, Unacked, Acked, SubmitBlocked, SubmitIoc, PlacePostOnly, PostOnlyRefused, Goto,
         Ended
<1>2. At("wait", o) =>
        \/ At("returned", o)' /\ ~CanBecome(order[o], "ACK")
        \/ CanBecome(order[o], "ACK") /\ order'[o] = MarkAcked(order[o])
             /\ (At("filled", o)' \/ At("partial", o)')
  BY <1>0 DEF At, PollExecuted, Goto, Ended, Update
<1>3. CanBecome(order[o], "ACK") <=> order[o].status = "SENT"
  BY DEF CanBecome, ValidTransitions
<1>4. CanBecome(order[o], "ACK") => MarkAcked(order[o]).status # "SENT"
  BY <1>0 DEF MarkAcked, Become, Record
<1>5. /\ Unacked("wait", o) => At("filled", o)' \/ Acked("partial", o)' \/ At("returned", o)'
      /\ Acked("wait", o) => At("returned", o)'
  BY <1>2, <1>3, <1>4 DEF Unacked, Acked, At
<1>6. At("filled", o) => At("returned", o)'
  BY DEF At, DetailsFilled, Ended
<1>7. Acked("partial", o) => Acked("wait", o)' \/ At("returned", o)'
  <2> SUFFICES ASSUME Acked("partial", o), DetailsPartial
               PROVE  Acked("wait", o)' \/ At("returned", o)'
    BY DEF Acked, At
  <2>1. \/ At("returned", o)'
        \/ At("wait", o)' /\ order' = order
        \/ At("wait", o)' /\ order' = [order EXCEPT ![o] = MarkPartialFill(order[o], executed[o])]
    BY DEF DetailsPartial, Goto, Ended, Update, Acked, At
  <2>2. executed[o] \in 0..Qty
    <3>1. o = Spot  BY DEF Acked, At, PairInv, Phase, OnSpot
    <3>2. executed[Spot] \in Nat /\ resting \in Nat /\ executed[Spot] + resting <= Qty
      BY <3>1, OrderNumbers DEF PairInv, HedgeTypeOK, Volume, Acked, At
    <3>3. QED  BY <3>1, <3>2, ExecutionAssumption
  <2>3. MarkPartialFill(order[o], executed[o]).status # "SENT"
    BY <1>0, <2>2, SentOnlyByMarkSent DEF Acked
  <2>4. QED  BY <1>0, <2>1, <2>3 DEF Acked, At
<1>8. At("cancel", o) => At("chase", o)'
  BY DEF At, CancelUnfilled, Goto
<1>9. At("chase", o) => At("ioc", o)' \/ At("returned", o)'
  BY DEF At, ChasePrice, Goto, Ended
<1>10. At("ioc", o) => At("returned", o)'
  BY DEF At, IocExecuted, IocUnseen, IocRefused, Ended
<1>11. QED  BY <1>1, <1>5, <1>6, <1>7, <1>8, <1>9, <1>10

(* A leg that ended ends the pair or goes on to a later order.               *)
LEMMA LegsGoForward ==
  ASSUME PairInv, NEW o \in Order, At("returned", o), Submission
  PROVE  stage' = "over" \/ LaterSubmitted(o)'
<1> USE OrderNumbers DEF At
<1>1. CASE SpotReturned \/ RollbackReturned
  BY <1>1 DEF SpotReturned, RollbackReturned, Submits, Returns, LaterSubmitted
<1>2. CASE PerpReturned
  BY <1>2 DEF PerpReturned, Submits, Returns, LaterSubmitted
<1>3. CASE RetryReturned
  <2>1. o \in Retries /\ (stage' = "over" \/ (AfterRetry # None /\ stage' = "submit" /\ cur' = AfterRetry))
    BY <1>3 DEF RetryReturned, Submits, Returns
  <2>2. AfterRetry # None => AfterRetry \in (o + 1)..Rollback
    BY <2>1, ExecutionAssumption DEF AfterRetry, Retries, Rollback, Order
  <2>3. QED  BY <2>1, <2>2 DEF LaterSubmitted
<1>4. QED  BY <1>1, <1>2, <1>3, StepsOfStage

(* PairAnswered, a leg at a time: whatever the exchange and the other tasks  *)
(* do to the order meanwhile, a leg that is submitted ends the pair or goes  *)
(* on to a later order.  The legs are numbered up to Rollback, after which   *)
(* there is none: so many uses of the theorem lead from the first to the     *)
(* answer.  That the task can make the step its stage calls for is the       *)
(* hypothesis: the prover knows nothing of ENABLED.                          *)
THEOREM LegsEnd ==
  ASSUME NEW o \in Order
  PROVE  /\ HedgeSpec
         /\ [](Underway => ENABLED <<Submission>>_hedgeVars)
         /\ [](stage = "wait" => ENABLED <<WaitEnds>>_hedgeVars)
         => (stage = "submit" /\ cur = o ~> stage = "over" \/ LaterSubmitted(o))
<1> DEFINE S == At("submit", o)
           U == Unacked("wait", o)
           A == Acked("wait", o)
           F == At("filled", o)
           P == Acked("partial", o)
           C == At("cancel", o)
           H == At("chase", o)
           I == At("ioc", o)
           R == At("returned", o)
           Goal == stage = "over" \/ LaterSubmitted(o)
           Waiting == stage = "wait"
           Leg == S \/ U \/ A \/ F \/ P \/ C \/ H \/ I \/ R
<1>1. ASSUME PairInv, Leg, [HedgeNext]_hedgeVars, ~Submission, ~WaitEnds
      PROVE  /\ (S => S') /\ (U => U' \/ A') /\ (A => A') /\ (F => F') /\ (P => P')
             /\ (C => C') /\ (H => H') /\ (I => I') /\ (R => R')
  <2>1. cur = o /\ stage # "idle"
    BY <1>1 DEF At, Unacked, Acked
  <2>2. Others \/ UNCHANGED hedgeVars
    BY <1>1, <2>1 DEF HedgeNext, SubmitHedgePair
  <2>3. QED  BY <1>1, <2>1, <2>2, OthersLeave DEF At, Unacked, Acked
<1>2. ASSUME PairInv, Leg, WaitEnds PROVE (U \/ A) /\ C'
  BY <1>2 DEF WaitEnds, Goto, At, Unacked, Acked
<1>3. ASSUME PairInv, Leg, Submission
      PROVE  /\ S => U' \/ A' \/ I' \/ R'
             /\ U => F' \/ P' \/ R'
             /\ (A => R') /\ (F => R') /\ (P => A' \/ R')
             /\ (C => H') /\ (H => I' \/ R') /\ (I => R')
             /\ R => Goal'
  <2>1. cur = o
    BY <1>3 DEF At, Unacked, Acked
  <2>2. R => Goal'  BY <1>3, LegsGoForward
  <2>3. QED  BY <1>3, <2>1, <2>2, LegGoesOn
<1>4. /\ S \/ F \/ P \/ C \/ H \/ I \/ R => Underway /\ ~Waiting
      /\ U \/ A <=> Waiting /\ cur = o
  BY DEF At, Unacked, Acked, Underway
<1>5. HedgeSpec => []PairInv
  BY InitInv, StepKeepsInv, PTL DEF HedgeSpec
<1> HIDE DEF S, U, A, F, P, C, H, I, R, Goal, Waiting
<1>6. /\ PairInv /\ S /\ [HedgeNext]_hedgeVars => S' \/ U' \/ A' \/ I' \/ R'
      /\ PairInv /\ F /\ [HedgeNext]_hedgeVars => F' \/ R'
      /\ PairInv /\ P /\ [HedgeNext]_hedgeVars => P' \/ A' \/ R'
      /\ PairInv /\ C /\ [HedgeNext]_hedgeVars => C' \/ H'
      /\ PairInv /\ H /\ [HedgeNext]_hedgeVars => H' \/ I' \/ R'
      /\ PairInv /\ I /\ [HedgeNext]_hedgeVars => I' \/ R'
      /\ PairInv /\ R /\ [HedgeNext]_hedgeVars => R' \/ Goal'
      /\ PairInv /\ A /\ [HedgeNext]_hedgeVars => A' \/ C' \/ R'
      /\ PairInv /\ U /\ [HedgeNext]_hedgeVars => U' \/ A' \/ C' \/ F' \/ P' \/ R'
  BY <1>1, <1>2, <1>3, <1>4
<1>7. /\ PairInv /\ S /\ <<Submission>>_hedgeVars => U' \/ A' \/ I' \/ R'
      /\ PairInv /\ F /\ <<Submission>>_hedgeVars => R'
      /\ PairInv /\ P /\ <<Submission>>_hedgeVars => A' \/ R'
      /\ PairInv /\ C /\ <<Submission>>_hedgeVars => H'
      /\ PairInv /\ H /\ <<Submission>>_hedgeVars => I' \/ R'
      /\ PairInv /\ I /\ <<Submission>>_hedgeVars => R'
      /\ PairInv /\ R /\ <<Submission>>_hedgeVars => Goal'
      /\ PairInv /\ A /\ <<WaitEnds>>_hedgeVars => C'
      /\ PairInv /\ U /\ <<WaitEnds>>_hedgeVars => C'
  BY <1>2, <1>3
<1> DEFINE Started == HedgeSpec /\ [](Underway => ENABLED <<Submission>>_hedgeVars)
                                /\ [](Waiting => ENABLED <<WaitEnds>>_hedgeVars)
<1>8. Started => (S ~> Goal)
  BY <1>4, <1>5, <1>6, <1>7, PTL DEF HedgeSpec
<1>9. QED  BY <1>8 DEF S, Goal, Waiting, At
===============================================================================
