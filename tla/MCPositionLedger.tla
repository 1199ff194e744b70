--------------------------- MODULE MCPositionLedger ---------------------------
(* Small instances of the ledger: interchangeable symbols, strategies, ids. *)
EXTENDS PositionLedger, TLC

Symmetry ==
  Permutations(Symbol) \cup Permutations(Strategy) \cup Permutations(Pid)
===============================================================================
