----------------------------- MODULE CandleHistory -----------------------------
(***************************************************************************)
(* The candles the backtests run on: backtesting/data/candle_fetcher.py     *)
(* pages backwards through the exchange's history and stores it, at the     *)
(* request of the API or of scripts/fetch_extended_candles.py, and          *)
(* data_loader.py reads it for a run.  One symbol and one interval; a time  *)
(* is the number of a candle.  Several requests may run at once.            *)
(***************************************************************************)
EXTENDS Integers, Sequences, FiniteSets, SequencesExt, FiniteSetsExt

CONSTANTS Fetchers,     (* requests that run at the same time                *)
          PageSize,     (* candles in a page: 200                            *)
          LastTime      (* bound: the clock                                  *)

ASSUME HistoryAssumption == PageSize \in Nat \ {0} /\ LastTime \in Nat \ {0}

VARIABLES exchange,   (* the times somebody traded at, and whether a page    *)
                      (* includes the candle of the time it is asked up to   *)
          present,    (* the time the candle still open began at             *)
          rows,       (* time -> "none", or the candle stored for it: "open" *)
                      (* as it was half way, "final" as it ended             *)
          fetch,      (* fetcher -> what it does                             *)
          run,        (* a backtest: idle, checked, loaded, or empty          *)
          asked,      (* history: times requests were for                    *)
          lost,       (* history: times a request passed over                *)
          undone      (* history: final candles replaced by open ones by the *)
                      (* newest answer there was                             *)

historyVars == <<exchange, present, rows, fetch, run, asked, lost, undone>>

Times == 0..LastTime
Done == [stage |-> "idle"]
Stored == {t \in Times : rows[t] # "none"}
InRange(r) == {t \in Times : r.from <= t /\ t < r.to}

(* A page failed or a request ended: the rest of its ranges stays as it is.  *)
Rest(f) == {t \in Times : fetch[f].from <= t /\ t <= fetch[f].to}
           \cup UNION {InRange(r) : r \in ToSet(fetch[f].later)}

-------------------------------------------------------------------------------
(* fetch_and_store of one range after the other; the first begins, none is   *)
(* left when the request ends.                                              *)
Begin(f, ranges) ==
  IF ranges = <<>> THEN Done
  ELSE [stage |-> "ask", from |-> Head(ranges).from, to |-> Head(ranges).to,
        later |-> Tail(ranges), page |-> {}, full |-> FALSE, crossed |-> FALSE]

Request(f, ranges) ==
  /\ fetch[f] = Done
  /\ fetch' = [fetch EXCEPT ![f] = Begin(f, ranges)]
  /\ UNCHANGED <<exchange, present, rows, run, undone>>

(* The API: the last so many candles up to now.                              *)
FetchCandles(f, from) ==
  /\ Request(f, <<[from |-> from, to |-> present]>>)
  /\ asked' = asked \cup from..present - 1
  /\ lost' = lost \ (from..present - 1)

(* fill_gaps: what lies before the oldest and after the newest candle there *)
(* is; nothing between the two.                                             *)
FillGaps(f, from) ==
  LET oldest == Min(Stored)
      newest == Max(Stored)
      front == IF from < oldest THEN <<[from |-> from, to |-> oldest]>> ELSE <<>>
      back == IF present > newest THEN <<[from |-> newest, to |-> present]>> ELSE <<>>
      ranges == IF Stored = {} THEN <<[from |-> from, to |-> present]>> ELSE front \o back
      between == IF Stored = {} THEN {} ELSE oldest..newest
  IN  /\ Request(f, ranges)
      /\ asked' = asked \cup (from..present - 1)
      /\ lost' = (lost \ UNION {InRange(r) : r \in ToSet(ranges)})
                 \cup ((between \cap from..present - 1) \ Stored)

(* The exchange's answer: the newest candles before (or up to) a time.       *)
Page(to) ==
  LET known == {t \in exchange.traded : t <= present /\ (t < to \/ (exchange.inclusive /\ t = to))}
  IN  {t \in known : Cardinality({u \in known : u > t}) < PageSize}

AskPage(f) ==
  /\ fetch[f].stage = "ask" /\ fetch[f].to > fetch[f].from
  /\ fetch' = [fetch EXCEPT ![f].stage = "store", ![f].crossed = FALSE,
                            ![f].full = Cardinality(Page(fetch[f].to)) = PageSize,
                            ![f].page = {[time |-> t, as |-> IF t < present THEN "final" ELSE "open"] :
                                           t \in Page(fetch[f].to)}]
  /\ UNCHANGED <<exchange, present, rows, run, asked, lost, undone>>

(* A request for a page that fails is an empty page.                         *)
PageFails(f) ==
  /\ fetch[f].stage = "ask" /\ fetch[f].to > fetch[f].from
  /\ fetch' = [fetch EXCEPT ![f] = Begin(f, fetch[f].later)]
  /\ lost' = lost \cup ({t \in Times : fetch[f].from <= t /\ t <= fetch[f].to} \ Stored)
  /\ UNCHANGED <<exchange, present, rows, run, asked, undone>>

RangeDone(f) ==
  /\ fetch[f].stage = "ask" /\ fetch[f].to <= fetch[f].from
  /\ fetch' = [fetch EXCEPT ![f] = Begin(f, fetch[f].later)]
  /\ UNCHANGED <<exchange, present, rows, run, asked, lost, undone>>

(* The next page ends one candle before the oldest of this one.              *)
NextTo(f, kept) == Min({fetch[f].to} \cup {c.time : c \in kept}) - 1

(* The page is stored, candle by candle in one transaction.  A page that is *)
(* not full is the last one.  Where the exchange leaves out the candle it   *)
(* is asked up to, the first candle of every further page is passed over;   *)
(* where it does not, the one a range begins with, if a page ends there.    *)
StorePage(f) ==
  LET kept == {c \in fetch[f].page : c.time >= fetch[f].from}
      to == NextTo(f, kept)
      more == fetch[f].full /\ fetch[f].page # {}
  IN  /\ fetch[f].stage = "store"
      /\ rows' = [t \in Times |-> IF \E c \in kept : c.time = t
                                  THEN (CHOOSE c \in kept : c.time = t).as ELSE rows[t]]
      /\ undone' = IF fetch[f].crossed THEN undone
                   ELSE undone \cup {t \in Times : rows[t] = "final" /\ rows'[t] = "open"}
      /\ lost' = IF more /\ to >= fetch[f].from /\ (~exchange.inclusive \/ to = fetch[f].from)
                    /\ rows'[to] = "none"
                 THEN lost \cup {to} ELSE lost
      /\ fetch' = [g \in Fetchers |->
                     IF g = f THEN IF more THEN [fetch[f] EXCEPT !.stage = "ask", !.to = to, !.page = {}]
                                   ELSE Begin(f, fetch[f].later)
                     ELSE IF fetch[g].stage = "store" THEN [fetch[g] EXCEPT !.crossed = TRUE] ELSE fetch[g]]
      /\ UNCHANGED <<exchange, present, run, asked>>

(* A transaction that fails ends the request.                                *)
StoreFails(f) ==
  /\ fetch[f].stage = "store"
  /\ fetch' = [fetch EXCEPT ![f] = Done]
  /\ lost' = lost \cup (Rest(f) \ Stored)
  /\ UNCHANGED <<exchange, present, rows, run, asked, undone>>

-------------------------------------------------------------------------------
(* A run is refused where there is no candle, and then loads those there are. *)
CheckData ==
  /\ run = "idle" /\ Stored # {}
  /\ run' = "checked"
  /\ UNCHANGED <<exchange, present, rows, fetch, asked, lost, undone>>

LoadCandles ==
  /\ run = "checked"
  /\ run' = IF Stored = {} THEN "empty" ELSE "loaded"
  /\ UNCHANGED <<exchange, present, rows, fetch, asked, lost, undone>>

TimePasses ==
  /\ present < LastTime
  /\ present' = present + 1
  /\ UNCHANGED <<exchange, rows, fetch, run, asked, lost, undone>>

HistoryInit ==
  /\ exchange \in [traded : {Times, Times \ {1}}, inclusive : BOOLEAN]
  /\ present = 1 /\ rows = [t \in Times |-> "none"]
  /\ fetch = [f \in Fetchers |-> Done]
  /\ run = "idle"
  /\ asked = {} /\ lost = {} /\ undone = {}

HistoryNext ==
  \/ \E f \in Fetchers :
       \/ AskPage(f) \/ PageFails(f) \/ RangeDone(f) \/ StorePage(f) \/ StoreFails(f)
       \/ \E from \in {0, present - 1} : FetchCandles(f, from) \/ FillGaps(f, from)
  \/ CheckData \/ LoadCandles \/ TimePasses

-------------------------------------------------------------------------------
(* When no request runs, every candle ever asked for is there, but for those *)
(* the code passes over: what lay behind a page that failed, the candle     *)
(* between two pages, and what fill_gaps takes to be there because older    *)
(* and newer ones are.  A final candle becomes an open one again only when  *)
(* two requests cross; and a run that was let through has candles.          *)
HistoryComplete ==
  /\ (\A f \in Fetchers : fetch[f] = Done)
       => (asked \cap exchange.traded) \ lost \subseteq Stored
  /\ undone = {}
  /\ run # "empty"
===============================================================================
