----------------------------- MODULE StopWatchdog -----------------------------
(***************************************************************************)
(* risk/stop_watchdog.py with the engine's callback: a loop of its own that *)
(* compares the prices of watched positions with their stops.  A round      *)
(* suspends only where a price is too old and the REST fallback is asked:   *)
(* there other tasks add, remove and change positions.  The positions of a  *)
(* round are collected before, and held by reference.  A callback task asks *)
(* the exchange client for a method it does not have.                       *)
(***************************************************************************)
EXTENDS Naturals, FiniteSets

CONSTANTS Id,          (* position ids                                       *)
          SymbolOf,    (* the symbol a position id is about                  *)
          MaxPrice,    (* bound: prices are 1..MaxPrice                      *)
          Entries,     (* entry prices to check                              *)
          Stops,       (* stop prices to set                                 *)
          Distance,    (* trailing distance                                  *)
          Drop,        (* fall within the window that is a crash             *)
          MaxMade      (* bound: positions ever watched                      *)

ASSUME WatchdogAssumption ==
  /\ IsFiniteSet(Id)
  /\ Entries \subseteq Nat /\ Stops \subseteq Nat
  /\ MaxPrice \in Nat /\ Distance \in Nat /\ Drop \in Nat /\ MaxMade \in Nat

Symbol == {SymbolOf[i] : i \in Id}
Price == 1..MaxPrice
Position == 1..MaxMade       (* objects, in the order they are made          *)
NoPosition == 0

VARIABLES made,      (* objects made so far                                  *)
          pos,       (* fields of an object                                  *)
          watched,   (* _positions: id -> object                             *)
          price,     (* _last_prices, 0 when there is none or it is too old  *)
          highest,   (* highest price of the window of the crash detection   *)
          pc,        (* idle, round, or fetching: suspended in the fallback  *)
          todo,      (* objects the round has still to check                 *)
          fetching,  (* the object whose price is being fetched              *)
          stops,     (* stops_to_trigger                                     *)
          called     (* history: how often an object was handed to the callback *)

roundVars == <<pc, todo, fetching, stops>>
feedVars == <<price, highest>>
watchVars == <<made, pos, watched, feedVars, roundVars, called>>

Kind == {"HARD_STOP", "TRAILING_STOP"}

Watched == {o \in Position : \E i \in Id : watched[i] = o}

Outside == pc \in {"idle", "fetching"}

-------------------------------------------------------------------------------
(* What other tasks do.                                                      *)

(* A second position under an id takes the place of the first.               *)
AddPosition(i, entry, stop, kind) ==
  /\ Outside /\ made < MaxMade
  /\ made' = made + 1
  /\ pos' = [pos EXCEPT ![made + 1] =
               [id |-> i, entry |-> entry, stop |-> stop, kind |-> kind,
                high |-> 0]]
  /\ watched' = [watched EXCEPT ![i] = made + 1]
  /\ UNCHANGED <<feedVars, roundVars, called>>

RemovePosition(i) ==
  /\ Outside /\ watched[i] # NoPosition
  /\ watched' = [watched EXCEPT ![i] = NoPosition]
  /\ UNCHANGED <<made, pos, feedVars, roundVars, called>>

UpdateStopPrice(i, stop, kind) ==
  /\ Outside /\ watched[i] # NoPosition
  /\ pos' = [pos EXCEPT ![watched[i]].stop = stop, ![watched[i]].kind = kind]
  /\ UNCHANGED <<made, watched, feedVars, roundVars, called>>

UpdatePrice(s, p) ==
  /\ Outside
  /\ price' = [price EXCEPT ![s] = p]
  /\ highest' = [highest EXCEPT ![s] = IF p > @ THEN p ELSE @]
  /\ UNCHANGED <<made, pos, watched, roundVars, called>>

(* Time passes, in a round as well: a price becomes too old, or what is      *)
(* older leaves the window of the crash detection.                           *)
PriceAges(s) ==
  /\ \/ price[s] # 0 /\ price' = [price EXCEPT ![s] = 0] /\ UNCHANGED highest
     \/ highest[s] > price[s] /\ highest' = [highest EXCEPT ![s] = price[s]] /\ UNCHANGED price
  /\ UNCHANGED <<made, pos, watched, roundVars, called>>

-------------------------------------------------------------------------------
(* A round.                                                                  *)

(* A copy of the positions there are when the round begins.                  *)
Collected == Watched

BeginRound ==
  /\ pc = "idle" /\ Watched # {}
  /\ pc' = "round"
  /\ todo' = Collected
  /\ stops' = {}
  /\ UNCHANGED <<made, pos, watched, fetching, feedVars, called>>

SymbolAt(o) == SymbolOf[pos[o].id]
Fresh(s) == price[s] # 0

Crashed(s) == highest[s] >= price[s] + Drop

(* update_trailing: a new high may raise the stop.                           *)
Trailed(o, p) ==
  IF p <= pos[o].high THEN pos[o]
  ELSE [pos[o] EXCEPT !.high = p,
                      !.stop = IF p >= Distance /\ p - Distance > @ THEN p - Distance ELSE @]

(* Mutation of Stopped: a price at the stop is not enough.*)
StoppedBelow(o, p, due) ==
  \/ Crashed(SymbolAt(o))
  \/ p < pos[o].stop
  \/ pos[o].kind = "TRAILING_STOP" /\ p <= Trailed(o, p).stop
  \/ due /\ p < pos[o].entry

(* Fast crash; hard stop; trailing stop after following; time stop at a loss.  *)
Stopped(o, p, due) ==
  \/ Crashed(SymbolAt(o))
  \/ p <= pos[o].stop
  \/ pos[o].kind = "TRAILING_STOP" /\ p <= Trailed(o, p).stop
  \/ due /\ p < pos[o].entry

(* The stop is followed only where crash and hard stop did not end the check. *)
Follows(o, p) ==
  pos[o].kind = "TRAILING_STOP" /\ ~Crashed(SymbolAt(o)) /\ p > pos[o].stop

(* Whether the time stop is due is left to the clock.                        *)
Check(o, due) ==
  /\ pc = "round" /\ o \in todo /\ Fresh(SymbolAt(o))
  /\ todo' = todo \ {o}
  /\ LET p == price[SymbolAt(o)]
     IN  /\ stops' = IF Stopped(o, p, due) THEN stops \cup {o} ELSE stops
         /\ pos' = IF Follows(o, p) THEN [pos EXCEPT ![o] = Trailed(o, p)] ELSE pos
  /\ UNCHANGED <<made, watched, pc, fetching, feedVars, called>>

Fetch(o) ==
  /\ pc = "round" /\ o \in todo /\ ~Fresh(SymbolAt(o))
  /\ pc' = "fetching"
  /\ fetching' = o
  /\ UNCHANGED <<made, pos, watched, todo, stops, feedVars, called>>

(* get_ticker returns an object without the get the fallback calls: the      *)
(* error is caught, there is no price, and the position is passed over.      *)
FetchedNothing ==
  /\ pc = "fetching"
  /\ pc' = "round"
  /\ todo' = todo \ {fetching}
  /\ fetching' = NoPosition
  /\ UNCHANGED <<made, pos, watched, stops, feedVars, called>>

(* Mutations of Unwatched: a stop leaves the position in the watch; every    *)
(* other position goes with it.                                             *)
UnwatchedNot(S) == [i \in Id |-> watched[i]]

UnwatchedSymbol(S) ==
  [i \in Id |-> IF \E o \in S : pos[o].id # i THEN NoPosition ELSE watched[i]]

(* remove_position by id, whatever object is under it by then.               *)
Unwatched(S) == [i \in Id |-> IF \E o \in S : pos[o].id = i THEN NoPosition ELSE watched[i]]

(* What is not watched when the round has ended is garbage: its fields are   *)
(* forgotten.                                                               *)
Forgotten(w) ==
  [o \in Position |->
     IF o > made \/ \E i \in Id : w[i] = o THEN pos[o]
     ELSE [pos[o] EXCEPT !.stop = 0, !.kind = "HARD_STOP", !.high = 0]]

(* The stops of the round are executed without another await.                *)
ExecuteStops ==
  /\ pc = "round" /\ todo = {}
  /\ watched' = Unwatched(stops)
  /\ called' = [o \in Position |-> called[o] + (IF o \in stops THEN 1 ELSE 0)]
  /\ pos' = Forgotten(watched')
  /\ stops' = {}
  /\ pc' = "idle"
  /\ UNCHANGED <<made, todo, fetching, feedVars>>

WatchInit ==
  /\ made = 0
  /\ pos = [o \in Position |-> NoPosition]
  /\ watched = [i \in Id |-> NoPosition]
  /\ price = [s \in Symbol |-> 0]
  /\ highest = [s \in Symbol |-> 0]
  /\ pc = "idle" /\ todo = {} /\ fetching = NoPosition /\ stops = {}
  /\ called = [o \in Position |-> 0]

Round == BeginRound \/ (\E o \in Position : Fetch(o) \/ \E due \in BOOLEAN : Check(o, due)) \/ FetchedNothing \/ ExecuteStops

Others ==
  \/ \E i \in Id, e \in Entries, p \in Stops, k \in Kind : AddPosition(i, e, p, k)
  \/ \E i \in Id : RemovePosition(i)
  \/ \E i \in Id, p \in Stops, k \in Kind : UpdateStopPrice(i, p, k)
  \/ \E s \in Symbol, p \in Price : UpdatePrice(s, p)
  \/ \E s \in Symbol : PriceAges(s)

WatchNext == Round \/ Others

(* The loop sleeps, catches every error, and its fallback has a time-out.    *)
WatchSpec == WatchInit /\ [][WatchNext]_watchVars /\ WF_watchVars(Round)

-------------------------------------------------------------------------------
Fields == [id : Id, entry : Entries, stop : Nat, kind : Kind, high : Nat]

WatchTypeOK ==
  /\ made \in 0..MaxMade
  /\ \A o \in Position : IF o <= made THEN pos[o] \in Fields ELSE pos[o] = NoPosition
  /\ watched \in [Id -> 0..made]
  /\ price \in [Symbol -> 0..MaxPrice]
  /\ highest \in [Symbol -> 0..MaxPrice]
  /\ pc \in {"idle", "round", "fetching"}
  /\ todo \subseteq 1..made /\ stops \subseteq 1..made
  /\ fetching \in 0..made
  /\ called \in [Position -> Nat]

(* No position is handed to the callback twice, whatever is removed, changed *)
(* or added again while a round waits for a price.                           *)
CalledOnce == \A o \in Position : called[o] <= 1

HandedOn(o) == called'[o] = called[o] + 1

(* A position leaves the watch by a round only when it is handed on, or when *)
(* it took the place, while the round waited, of an earlier one of its id    *)
(* that is handed on: stop_watchdog.py:455 removes by id, and the later one  *)
(* goes with it, unsold.  Objects are numbered as they are made.             *)
OnlyStoppedLeave ==
  pc = "round" =>
    \A i \in Id : watched'[i] # watched[i] =>
      \/ HandedOn(watched[i])
      \/ \E o \in 1..(watched[i] - 1) : pos[o].id = i /\ HandedOn(o)

StoppedLeave == [][OnlyStoppedLeave]_watchVars

(* No handler between two fetches leaves the watch malformed or has a stop   *)
(* answered a second time.                                                  *)
WatchSound == WatchTypeOK /\ CalledOnce

(* A position does not stay watched at or below its stop while its prices    *)
(* keep coming in.                                                           *)
StoppedInTime ==
  \A i \in Id :
    ~<>[](watched[i] # NoPosition /\ Fresh(SymbolOf[i])
          /\ price[SymbolOf[i]] <= pos[watched[i]].stop)

===============================================================================
