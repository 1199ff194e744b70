---------------------------- MODULE MCStopWatchdog ----------------------------
EXTENDS StopWatchdog, TLC

CONSTANTS idA, idB, btc

(* Two positions of one coin: its price may become too old between them.     *)
MCSymbolOf == (idA :> btc) @@ (idB :> btc)
===============================================================================
