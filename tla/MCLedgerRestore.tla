-------------------------- MODULE MCLedgerRestore --------------------------
(* TLC instance of LedgerRestore: the conversations are interchangeable.   *)
EXTENDS LedgerRestore, TLC

Symmetry == Permutations(Conv)

AllTiers == {"holder", "wedged", "tmux"}
MCConditions == {{}, {"slow", "swap"}}

(* The conditions are considered with wedged holders, whose behaviours      *)
(* then contain those of holders that are not; only these have two crashes  *)
(* of the daemon.  Two runs, and one a restore has resumed: as the second,   *)
(* or as a third one, so that two rows compete to be resumed.               *)
Bound ==
  /\ tier # "wedged" => may = {}
  /\ may = {} => deaths < 2
  /\ \A r \in Run : r > 2 /\ rstate[r] # "unused" =>
       tier = "holder" /\ deaths = 0 /\ restored # {}
=============================================================================
