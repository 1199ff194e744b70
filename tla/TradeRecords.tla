----------------------------- MODULE TradeRecords -----------------------------
(***************************************************************************)
(* What the database remembers of the trading: engine/core.py hands every   *)
(* order to a task of its own (fire and forget), and the task goes through  *)
(* services/trade_recorder.py table after table, each in a session of its   *)
(* own.  Tasks, and the snapshot of the main loop, interleave at every      *)
(* await.  Amounts are left out: a row is counted, or is there or not.      *)
(***************************************************************************)
EXTENDS Integers, Sequences, FiniteSets

CONSTANTS Coins,        (* symbols                                           *)
          CacheLimit,   (* orders kept in memory: 500                        *)
          MaxOrders     (* bound: orders added, and seconds told apart       *)

ASSUME RecordsAssumption == CacheLimit \in Nat

VARIABLES orders,     (* every order handed to a task: what it is, its id    *)
                      (* and how far its task is                             *)
          cached,     (* length of _cached_orders                            *)
          second,     (* the second the clock shows                          *)
          orderRows,  (* orders recorded in the table of orders; 0 is one of *)
                      (* an earlier run                                      *)
          trades,     (* rows in the table of trades                         *)
          daily,      (* trades_count of the day's row, or NoRow             *)
          openRows,   (* coin -> its open rows in the table of positions     *)
          snapshot,   (* what the snapshot has read of the day's row         *)
          failed,     (* history: a commit failed, or a task was killed      *)
          overlap     (* history: what two writers had in hand at once       *)

recordVars == <<orders, cached, second, orderRows, trades, daily, openRows,
                snapshot, failed, overlap>>

NoRow == -1
NothingRead == -2      (* nothing read                                              *)
Orders == DOMAIN orders

Step(i, next) == orders' = [orders EXCEPT ![i].step = next]

-------------------------------------------------------------------------------
(* The id counts the orders in memory: once the memory is full, two orders  *)
(* of the same second get the same one.                                     *)
AddOrder(kind, s, t) ==
  /\ Len(orders) < MaxOrders
  /\ orders' = Append(orders, [kind |-> kind, coin |-> s, id |-> <<cached + 1, t>>,
                               step |-> "order", read |-> {}, count |-> NothingRead])
  /\ cached' = IF cached < CacheLimit THEN cached + 1 ELSE CacheLimit
  /\ second' = t
  /\ overlap' = IF \E i \in Orders : orders[i].coin = s /\ orders[i].step # "done"
                THEN overlap \cup {s} ELSE overlap
  /\ UNCHANGED <<orderRows, trades, daily, openRows, snapshot, failed>>

(* record_order: a failure is logged, and the task goes on.  An order that  *)
(* was found at a restart has no more to record.                            *)
RecordOrder(i, ok) ==
  /\ orders[i].step = "order"
  /\ Step(i, IF orders[i].kind = "SYNCED" THEN "done" ELSE "trade")
  /\ orderRows' = IF ok /\ \A j \in orderRows \ {0} : orders[j].id # orders[i].id
                  THEN orderRows \cup {i} ELSE orderRows
  /\ failed' = (failed \/ ~ok)
  /\ UNCHANGED <<cached, second, trades, daily, openRows, snapshot, overlap>>

RecordTrade(i, ok) ==
  /\ orders[i].step = "trade"
  /\ Step(i, "read day")
  /\ trades' = IF ok THEN trades + 1 ELSE trades
  /\ failed' = (failed \/ ~ok)
  /\ UNCHANGED <<cached, second, orderRows, daily, openRows, snapshot, overlap>>

(* update_daily_stats reads the row, and writes what it makes of it.         *)
ReadDay(i) ==
  /\ orders[i].step = "read day"
  /\ orders' = [orders EXCEPT ![i].step = "write day", ![i].count = daily]
  /\ overlap' = IF snapshot # NothingRead \/ \E j \in Orders : orders[j].step = "write day"
                THEN overlap \cup {"day"} ELSE overlap
  /\ UNCHANGED <<cached, second, orderRows, trades, daily, openRows, snapshot, failed>>

(* Mutation of Written: every call makes a new row of the day.               *)
WrittenAnew(read, n) == n

(* A second row of one day is refused.                                       *)
Written(read, n) ==
  IF read = NoRow THEN IF daily = NoRow THEN n ELSE daily ELSE read + n

WriteDay(i, ok) ==
  /\ orders[i].step = "write day"
  /\ orders' = [orders EXCEPT ![i].step = "read position", ![i].count = NothingRead]
  /\ daily' = IF ok THEN Written(orders[i].count, 1) ELSE daily
  /\ failed' = (failed \/ ~ok)
  /\ UNCHANGED <<cached, second, orderRows, trades, openRows, snapshot, overlap>>

(* _update_position_in_db: more than one open row of a coin raises.          *)
ReadPosition(i) ==
  /\ orders[i].step = "read position"
  /\ LET rows == openRows[orders[i].coin]
     IN  orders' = [orders EXCEPT
           ![i].read = rows,
           ![i].step = IF Cardinality(rows) > 1 \/ (orders[i].kind = "SELL" /\ rows = {})
                       THEN "done" ELSE "write position"]
  /\ UNCHANGED <<cached, second, orderRows, trades, daily, openRows, snapshot, failed, overlap>>

(* A buy is added to the row that was read, whether it is still open or not; *)
(* a sale closes it, whatever was sold.                                      *)
PositionRows(i) ==
  LET rows == openRows[orders[i].coin]
  IN  IF orders[i].kind = "SELL" THEN rows \ orders[i].read
      ELSE IF orders[i].read = {} THEN rows \cup {i} ELSE rows

WritePosition(i, ok) ==
  /\ orders[i].step = "write position"
  /\ orders' = [orders EXCEPT ![i].step = "done", ![i].read = {}]
  /\ openRows' = IF ok THEN [openRows EXCEPT ![orders[i].coin] = PositionRows(i)] ELSE openRows
  /\ failed' = (failed \/ ~ok)
  /\ UNCHANGED <<cached, second, orderRows, trades, daily, snapshot, overlap>>

(* The snapshot of the main loop writes the same row of the day.  It adds   *)
(* no trade, so that the count is written only with a new row.              *)
Snapshot ==
  \/ /\ snapshot = NothingRead
     /\ snapshot' = daily
     /\ overlap' = IF \E i \in Orders : orders[i].step = "write day"
                   THEN overlap \cup {"day"} ELSE overlap
     /\ UNCHANGED <<daily, failed>>
  \/ /\ snapshot # NothingRead
     /\ snapshot' = NothingRead
     /\ \E ok \in {TRUE, failed} :
          /\ daily' = IF ok /\ snapshot = NoRow /\ daily = NoRow THEN 0 ELSE daily
          /\ failed' = (failed \/ ~ok)
     /\ UNCHANGED overlap

SnapshotDay == Snapshot /\ UNCHANGED <<orders, cached, second, orderRows, trades, openRows>>

(* A restart kills the tasks; what they had not committed is never recorded. *)
(* _load_orders_from_db fills the memory from the table of orders.           *)
Restart ==
  /\ second < MaxOrders
  /\ second' = second + 1
  /\ orders' = [i \in Orders |-> [orders[i] EXCEPT !.step = "done", !.read = {}, !.count = NothingRead]]
  /\ failed' = (failed \/ \E i \in Orders : orders[i].step # "done")
  /\ snapshot' = NothingRead
  /\ cached' = LET n == Cardinality(orderRows) IN IF n < CacheLimit THEN n ELSE CacheLimit
  /\ UNCHANGED <<orderRows, trades, daily, openRows, overlap>>

-------------------------------------------------------------------------------
RecordsInit ==
  /\ orders = <<>> /\ second = 0 /\ trades = 0
  /\ orderRows \in {{}, {0}} /\ cached = Cardinality(orderRows)
  /\ daily = NoRow /\ openRows = [s \in Coins |-> {}] /\ snapshot = NothingRead
  /\ failed = FALSE /\ overlap = {}

RecordsNext ==
  \/ \E kind \in {"BUY", "SELL", "SYNCED"}, s \in Coins, t \in {second, second + 1} :
        /\ t <= MaxOrders
        /\ orders = <<>> => s = CHOOSE c \in Coins : TRUE   (* coins are alike *)
        /\ AddOrder(kind, s, t)
  \/ \E i \in Orders :
       \/ ReadDay(i) \/ ReadPosition(i)
       \/ \E ok \in {TRUE, failed} :     (* bound: one failure             *)
            RecordOrder(i, ok) \/ RecordTrade(i, ok) \/ WriteDay(i, ok) \/ WritePosition(i, ok)
  \/ SnapshotDay \/ Restart

-------------------------------------------------------------------------------
Quiet == snapshot = NothingRead /\ \A i \in Orders : orders[i].step = "done"
Filled == {i \in Orders : orders[i].kind # "SYNCED"}
Clash == \E i, j \in Orders : i # j /\ orders[i].id = orders[j].id
LastOf(s) == {i \in Filled : orders[i].coin = s /\ \A j \in Filled : orders[j].coin = s => j <= i}

(* Once the tasks have ended and nothing failed, the tables say what was    *)
(* traded - with the exceptions the code makes: an order whose id another   *)
(* one of that second has, a day's row that two wrote at once, and a coin   *)
(* traded again before the task of its last order had ended.                *)
RecordsExact ==
  Quiet =>
    /\ daily <= Cardinality(Filled) /\ trades <= Cardinality(Filled)
    /\ ~failed =>
         /\ Clash \/ orderRows \ {0} = Orders
         /\ trades = Cardinality(Filled)
         /\ "day" \in overlap \/ Filled = {} \/ daily = Cardinality(Filled)
         /\ \A s \in Coins \ overlap :
              /\ Cardinality(openRows[s]) <= 1
              /\ openRows[s] # {} <=> \E i \in LastOf(s) : orders[i].kind = "BUY"
===============================================================================
