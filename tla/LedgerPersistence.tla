-------------------------- MODULE LedgerPersistence --------------------------
(***************************************************************************)
(* The position ledger with its table in the database.                     *)
(*                                                                         *)
(* Every fill leaves behind a task made with asyncio.create_task and never *)
(* awaited.  The task selects the row, then, back on the event loop, reads *)
(* the position as it is by then, and commits; other tasks and fills run   *)
(* at each of those awaits.  SQLAlchemy updates only the columns whose     *)
(* value differs from the one it selected, and a second insert of an id    *)
(* fails on the unique constraint.  Errors are logged and dropped.  A crash *)
(* loses the ledger and the tasks; a restart reads the rows back.          *)
(***************************************************************************)
EXTENDS PositionLedger

CONSTANTS Task,        (* bound: save tasks pending at once                 *)
          NoRow,       (* the select found nothing                          *)
          MaxCrashes,  (* bound: crashes of the process                     *)
          DbMayFail    (* may the database raise an error?                  *)

ASSUME PersistenceAssumption ==
  /\ NoRow \notin Entry
  /\ MaxCrashes \in Nat
  /\ DbMayFail \in BOOLEAN

VARIABLES db,         (* the position_ledger table: id -> row               *)
          tasks,      (* the save tasks                                     *)
          up,         (* is the process running?                            *)
          crashes,
          unsaved,    (* history: ids whose last change never reached a save *)
          raced,      (* history: ids changed while a save of them was        *)
                      (* pending, and not changed at rest since              *)
          atCrash     (* history: what was open or closed, and saved, when   *)
                      (* the process crashed, until it is back               *)

dbVars == <<db, tasks, up, crashes, unsaved, raced, atCrash>>
allVars == <<vars, dbVars>>

Idle == [pc |-> "idle", pid |-> NoPid, loaded |-> NoRow, write |-> NoRow]

Nothing == [p \in {} |-> NoPid]

Pending(p) == \E k \in Task : tasks[k].pc # "idle" /\ tasks[k].pid = p

(* asyncio.create_task(self._persist_position_to_db(position))              *)
Spawn(p) ==
  \E k \in Task :
    /\ tasks[k].pc = "idle"
    /\ tasks' = [tasks EXCEPT ![k] = [Idle EXCEPT !.pc = "created", !.pid = p]]

-------------------------------------------------------------------------------
(* Operations of the running ledger.                                        *)

(* uuid4 never returns an id twice; one that a crash left no trace of may as *)
(* well be new.                                                             *)
FreshOrKnown(p) == p \in DOMAIN positions \/ p \notin DOMAIN db

Fill(s, t) ==
  /\ up
  /\ \E p \in Pid : /\ FreshOrKnown(p)
                    /\ BuyFill(s, t, p) \/ SellFill(s, t, p)
                    /\ Spawn(p)
                    /\ raced' = IF Pending(p) THEN raced \cup {p} ELSE raced \ {p}
  /\ UNCHANGED <<db, up, crashes, unsaved, atCrash>>

UnknownFill(s, t) ==
  /\ up
  /\ UnknownSellFill(s, t)
  /\ UNCHANGED dbVars

(* force_sync_quantity saves nothing.                                       *)
Override(s, t) ==
  /\ up
  /\ ForceSync(s, t)
  /\ unsaved' = unsaved \cup FindOpen(s, t)
  /\ raced' = raced \cup {p \in FindOpen(s, t) : Pending(p)}
  /\ UNCHANGED <<db, tasks, up, crashes, atCrash>>

-------------------------------------------------------------------------------
(* _persist_position_to_db                                                  *)

SelectRow(k) ==
  /\ tasks[k].pc = "created"
  /\ tasks' = [tasks EXCEPT
       ![k].pc = "selected",
       ![k].loaded = IF tasks[k].pid \in DOMAIN db THEN db[tasks[k].pid] ELSE NoRow]
  /\ UNCHANGED <<db, unsaved>>

(* Mutation of AssignColumns: what was selected is written back.            *)
AssignLoaded(k) ==
  /\ tasks[k].pc = "selected"
  /\ tasks' = [tasks EXCEPT ![k].pc = "assigned", ![k].write = tasks[k].loaded]
  /\ UNCHANGED <<db, unsaved>>

AssignColumns(k) ==
  /\ tasks[k].pc = "selected"
  /\ tasks' = [tasks EXCEPT ![k].pc = "assigned", ![k].write = positions[tasks[k].pid]]
  /\ UNCHANGED <<db, unsaved>>

(* Mutations of Updated: the status column is left out of the update ...    *)
UpdatedQuantity(row, loaded, write) ==
  [row EXCEPT !.quantity = IF write.quantity = loaded.quantity THEN @ ELSE write.quantity]

(* ... and every column is written, changed or not.                         *)
UpdatedWhole(row, loaded, write) == write

(* The columns an UPDATE carries are those that differ from the loaded row. *)
Updated(row, loaded, write) ==
  [row EXCEPT !.quantity = IF write.quantity = loaded.quantity THEN @ ELSE write.quantity,
              !.status   = IF write.status = loaded.status THEN @ ELSE write.status]

Commit(k) ==
  LET p == tasks[k].pid
  IN  /\ tasks[k].pc = "assigned"
      /\ tasks' = [tasks EXCEPT ![k] = Idle]
      /\ \/ /\ tasks[k].loaded # NoRow
            /\ db' = [db EXCEPT ![p] = Updated(@, tasks[k].loaded, tasks[k].write)]
            /\ unsaved' = unsaved \ {p}
         \/ /\ tasks[k].loaded = NoRow
            /\ p \notin DOMAIN db
            /\ db' = [x \in DOMAIN db \cup {p} |-> IF x = p THEN tasks[k].write ELSE db[x]]
            /\ unsaved' = unsaved \ {p}
         \/ /\ tasks[k].loaded = NoRow
            /\ p \in DOMAIN db                       \* IntegrityError, logged
            /\ unsaved' = unsaved \cup {p}
            /\ UNCHANGED db

PersistFails(k) ==
  /\ DbMayFail
  /\ tasks[k].pc # "idle"
  /\ tasks' = [tasks EXCEPT ![k] = Idle]
  /\ unsaved' = unsaved \cup {tasks[k].pid}
  /\ UNCHANGED db

Persist(k) ==
  /\ up
  /\ SelectRow(k) \/ AssignColumns(k) \/ Commit(k) \/ PersistFails(k)
  /\ UNCHANGED <<vars, up, crashes, raced, atCrash>>

-------------------------------------------------------------------------------
(* Crash and restart.                                                       *)

Settled == {p \in DOMAIN positions : ~Pending(p) /\ p \notin unsaved \cup raced}

Crash ==
  /\ up
  /\ crashes < MaxCrashes
  /\ crashes' = crashes + 1
  /\ up' = FALSE
  /\ atCrash' = [p \in Settled |-> positions[p]]
  /\ positions' = Nothing
  /\ symbolPositions' = [s \in Symbol |-> {}]
  /\ strategyPositions' = [t \in Strategy |-> {}]
  /\ tasks' = [k \in Task |-> Idle]
  /\ unsaved' = {}
  /\ raced' = {}
  /\ UNCHANGED <<db, balances>>

(* Mutations of RestoreFromDatabase: closed positions come back too ...     *)
RestoreEveryRow ==
  LET rows == {p \in DOMAIN db : db[p].status # "CLOSED"}
  IN  /\ positions' = db
      /\ symbolPositions' = [s \in Symbol |-> {p \in rows : db[p].symbol = s}]
      /\ strategyPositions' = [t \in Strategy |-> {p \in rows : db[p].strategy = t}]

(* ... and one index is not rebuilt.                                        *)
RestoreWithoutStrategies ==
  LET rows == {p \in DOMAIN db : db[p].status = "OPEN"}
  IN  /\ positions' = [p \in rows |-> db[p]]
      /\ symbolPositions' = [s \in Symbol |-> {p \in rows : db[p].symbol = s}]
      /\ UNCHANGED strategyPositions

RestoreFromDatabase ==
  LET rows == {p \in DOMAIN db : db[p].status = "OPEN"}
  IN  /\ positions' = [p \in rows |-> db[p]]
      /\ symbolPositions' = [s \in Symbol |-> {p \in rows : db[p].symbol = s}]
      /\ strategyPositions' = [t \in Strategy |-> {p \in rows : db[p].strategy = t}]

Restart ==
  /\ ~up
  /\ up' = TRUE
  /\ RestoreFromDatabase
  /\ atCrash' = Nothing
  /\ UNCHANGED <<db, tasks, crashes, unsaved, raced, balances>>

(* The select fails, the error is logged, and the engine starts all the same. *)
RestartEmpty ==
  /\ ~up
  /\ DbMayFail
  /\ up' = TRUE
  /\ atCrash' = Nothing
  /\ UNCHANGED <<vars, db, tasks, crashes, unsaved, raced>>

PInit ==
  /\ Init
  /\ db = Nothing
  /\ tasks = [k \in Task |-> Idle]
  /\ up = TRUE
  /\ crashes = 0
  /\ unsaved = {}
  /\ raced = {}
  /\ atCrash = Nothing

PFillNext ==
  \/ \E s \in Symbol, t \in Strategy : Fill(s, t) \/ UnknownFill(s, t)
  \/ \E k \in Task : Persist(k)
  \/ Crash
  \/ Restart
  \/ RestartEmpty

PNext == PFillNext \/ \E s \in Symbol, t \in Strategy : Override(s, t)

(* Confirmed fills only ...                                                 *)
PFillSpec == PInit /\ [][PFillNext]_allVars
(* ... and with the override, which the table never hears of.               *)
PSpec == PInit /\ [][PNext]_allVars

-------------------------------------------------------------------------------
PTypeOK ==
  /\ TypeOK
  /\ DOMAIN db \subseteq Pid /\ db \in [DOMAIN db -> Entry]
  /\ tasks \in [Task -> [pc : {"idle", "created", "selected", "assigned"},
                         pid : Pid \cup {NoPid},
                         loaded : Entry \cup {NoRow}, write : Entry \cup {NoRow}]]
  /\ up \in BOOLEAN
  /\ crashes \in 0..MaxCrashes
  /\ unsaved \cup raced \subseteq Pid

(* Whatever saves and restarts do, what the ledger holds is well formed and  *)
(* its indices list exactly the open positions, also after a restart from a *)
(* table that half of the saves never reached.                              *)
PConsistent == PTypeOK /\ IndexExact

(* A position with no save in flight, and none lost, is in the table as it  *)
(* is in memory, also when an earlier save of it failed, or when earlier    *)
(* saves raced each other: a save made at rest carries the whole position,  *)
(* so it makes up for the ones before it.                                   *)
SavedWhenSettled ==
  \A p \in Settled : p \in DOMAIN db /\ db[p] = positions[p]

(* A restart brings back every position whose row was OPEN at the crash, as  *)
(* the row had it, and none whose row was CLOSED.  "Restores the open        *)
(* positions", says restore_from_database; a partly closed one is open too   *)
(* (is_open), but the query asks for OPEN only and it is not brought back.   *)
(* Nothing is said of those here: neither way would be a surprise.           *)
RestoreExact ==
  [][~up /\ up' /\ RestoreFromDatabase =>
       \A p \in DOMAIN atCrash :
         /\ atCrash[p].status = "OPEN" =>
              p \in DOMAIN positions' /\ positions'[p] = atCrash[p]
         /\ atCrash[p].status = "CLOSED" => p \notin DOMAIN positions']_allVars

(* However the saves of a position interleave, a row that left OPEN never   *)
(* returns to it, so no restart can resurrect a row once it was seen closed. *)
NeverReopened ==
  [][\A p \in DOMAIN db : db[p].status # "OPEN" => db'[p].status # "OPEN"]_allVars
===============================================================================
