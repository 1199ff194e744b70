------------------------- MODULE MCLedgerPersistence -------------------------
(* Small instances of the ledger and its table.                             *)
EXTENDS LedgerPersistence, TLC

Symmetry ==
  Permutations(Strategy) \cup Permutations(Pid) \cup Permutations(Task)
===============================================================================
