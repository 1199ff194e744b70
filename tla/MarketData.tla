------------------------------ MODULE MarketData ------------------------------
(***************************************************************************)
(* What the strategies see of the market: the list of liquid symbols        *)
(* (data/symbol_manager.py), the rounds in which the engine refreshes their *)
(* candles and the regime it reads off the tickers (engine/core.py), and    *)
(* the buffer of one symbol's candles (data/candle_manager.py), which the   *)
(* loader of the start and the rounds fill at the same time.  Prices and    *)
(* the indicators computed from the buffers are left out.                   *)
(***************************************************************************)
EXTENDS Integers, Sequences, FiniteSets, SequencesExt, FiniteSetsExt

CONSTANTS Batch,        (* symbols refreshed in a round: 15                  *)
          BufferSize,   (* candles a buffer keeps: 100                       *)
          MaxListed,    (* bound: length of the list                         *)
          RoundCycle,   (* bound: rounds counted, as every length divides it *)
          MaxMinute     (* bound: the clock of the exchange                  *)

ASSUME MarketAssumption ==
  /\ Batch \in Nat \ {0} /\ BufferSize \in Nat /\ MaxListed \in Nat
  /\ RoundCycle \in Nat \ {0} /\ \A n \in 1..MaxListed : RoundCycle % n = 0

VARIABLES listing,   (* length of the list, whether it was left half built   *)
                     (* and whether the next pass refreshes it               *)
          round,     (* _candle_refresh_round, modulo RoundCycle             *)
          lag,       (* history: rounds since the symbol at a place in the   *)
                     (* list had its candles, or since the list changed      *)
          btc,       (* the stored change of KRW-BTC in per cent, or NoTicker *)
          regime,    (* _btc_regime                                          *)
          minute,    (* the minute the exchange is in                        *)
          answers,   (* candles a loader was sent and has not yet stored     *)
          buffer,    (* CandleBuffer.candles                                 *)
          received   (* history: the minutes ever stored                     *)

listVars == <<listing, round, lag, btc, regime>>
bufferVars == <<minute, answers, buffer, received>>

NoTicker == -1

-------------------------------------------------------------------------------
(* symbol_manager.py: a failing request leaves the list as it is. A failure *)
(* among the symbols leaves what was built so far, and the list still due.  *)
RefreshSymbols(n) ==
  listing' \in {listing, [n |-> n, half |-> FALSE, due |-> FALSE],
                [n |-> n, half |-> TRUE, due |-> TRUE]}

(* The change comes without its sign, so that neither of the two in the     *)
(* middle is ever reached.                                                  *)
Regime(change) ==
  IF change > 3 THEN "BULLISH"
  ELSE IF change < -3 THEN "BEARISH"
  ELSE IF change > 5 \/ change < -5 THEN "VOLATILE" ELSE "NEUTRAL"

Unsigned(change) == IF change < 0 THEN -change ELSE change

(* A pass of the engine: the list if it is due, then the tickers. A ticker  *)
(* that is missing leaves the data of the last pass.                        *)
UpdateMarketData(n, change) ==
  /\ IF listing.due THEN RefreshSymbols(n) ELSE UNCHANGED listing
  /\ lag' = IF listing' = listing THEN lag ELSE [i \in 1..MaxListed |-> 0]
  /\ btc' = IF listing'.n = 0 \/ change = NoTicker THEN btc ELSE Unsigned(change)
  /\ regime' = IF listing'.n = 0 \/ btc' = NoTicker THEN regime ELSE Regime(btc')
  /\ UNCHANGED round

HourPasses ==
  /\ ~listing.due
  /\ listing' = [listing EXCEPT !.due = TRUE]
  /\ UNCHANGED <<round, lag, btc, regime>>

(* Mutation of RefreshWindow: a window that reaches past the end is left out.       *)
RefreshWindowWhole(n, r) ==
  LET start == (r * Batch) % Max({n, 1})
  IN  IF start + Batch <= n THEN start + 1 .. start + Batch ELSE {}

(* Places of the list whose candles a round refreshes: the window does not  *)
(* wrap around the end of the list.                                         *)
RefreshWindow(n, r) ==
  LET start == (r * Batch) % Max({n, 1})
  IN  start + 1 .. Min({start + Batch, n})

RefreshCandles ==
  /\ round' = (round + 1) % RoundCycle
  /\ lag' = [i \in 1..MaxListed |->
               IF i \in RefreshWindow(listing.n, round) THEN 0 ELSE Min({lag[i] + 1, MaxListed})]
  /\ UNCHANGED <<listing, btc, regime>>

-------------------------------------------------------------------------------
(* candle_manager.py                                                        *)

Loaders == {"initial", "round"}
Asked(loader) == IF loader = "initial" THEN 4 ELSE 2   (* candles: 100 and 10 *)
Nothing == <<>>

Places(candles, t) == {i \in 1..Len(candles) : candles[i].time = t}

(* sort(key=open_time), of candles no two of which are of the same time.    *)
InOrder(candles) ==
  CHOOSE s \in [1..Len(candles) -> Range(candles)] :
    /\ Range(s) = Range(candles)
    /\ \A i, j \in 1..Len(candles) : i < j => s[i].time < s[j].time

(* CandleBuffer.add                                                         *)
Add(candles, c) ==
  IF Places(candles, c.time) # {}
  THEN [i \in 1..Len(candles) |-> IF candles[i].time = c.time THEN c ELSE candles[i]]
  ELSE LET sorted == InOrder(Append(candles, c))
       IN  IF Len(sorted) > BufferSize THEN Tail(sorted) ELSE sorted

(* The exchange answers with its newest candles, the newest first; the last *)
(* one may still be open.                                                   *)
Ask(loader) ==
  /\ answers[loader] = Nothing
  /\ \E k \in {Min({Asked(loader), minute})} :
       answers' = [answers EXCEPT ![loader] =
                     [i \in 1..k |-> [time |-> minute + 1 - i, closed |-> i > 1]]]
  /\ UNCHANGED <<minute, buffer, received>>

Fail(loader) ==
  /\ answers[loader] # Nothing
  /\ answers' = [answers EXCEPT ![loader] = Nothing]
  /\ UNCHANGED <<minute, buffer, received>>

(* _load_candles_for_symbol: an answer is stored candle by candle, without  *)
(* awaiting anything.                                                       *)
Load(loader) ==
  /\ answers[loader] # Nothing
  /\ buffer' = FoldLeft(Add, buffer, answers[loader])
  /\ received' = received \cup {answers[loader][i].time : i \in DOMAIN answers[loader]}
  /\ answers' = [answers EXCEPT ![loader] = Nothing]
  /\ UNCHANGED minute

NextMinute ==
  /\ minute < MaxMinute
  /\ minute' = minute + 1
  /\ UNCHANGED <<answers, buffer, received>>

-------------------------------------------------------------------------------
ListInit ==
  /\ listing = [n |-> 0, half |-> FALSE, due |-> TRUE]
  /\ round = 0 /\ lag = [i \in 1..MaxListed |-> 0]
  /\ btc = NoTicker /\ regime = "NEUTRAL"

ListNext ==
  \/ \E n \in 0..MaxListed, change \in {NoTicker, -6, -4, 0, 4, 6} : UpdateMarketData(n, change)
  \/ HourPasses \/ RefreshCandles

BufferInit ==
  /\ minute = 1 /\ buffer = <<>> /\ received = {}
  /\ answers = [l \in Loaders |-> Nothing]

BufferNext ==
  \/ \E l \in Loaders : Ask(l) \/ Fail(l) \/ Load(l)
  \/ NextMinute

-------------------------------------------------------------------------------
(* The rounds reach everybody: as long as the list stands, no symbol waits  *)
(* for as many rounds as the list is long - though some do wait that long   *)
(* but one, the first and most liquid among them, when the length and the   *)
(* batch have no common divisor.                                            *)
EveryoneRefreshed == \A i \in 1..listing.n : lag[i] < listing.n

(* A list left half built is refreshed at the next pass.                    *)
HalfListIsDue == listing.half => listing.due

(* A buffer holds the newest of all the minutes it was ever given, in order *)
(* and each once, whichever loader brought them and in whatever order.      *)
BufferKeepsNewest ==
  /\ \A i \in 2..Len(buffer) : buffer[i - 1].time < buffer[i].time
  /\ Len(buffer) = Min({BufferSize, Cardinality(received)})
  /\ \A t \in received : Places(buffer, t) # {} \/ (\A i \in 1..Len(buffer) : t < buffer[i].time)
===============================================================================
