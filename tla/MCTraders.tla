------------------------------ MODULE MCTraders ------------------------------
(***************************************************************************)
(* Small instances of Traders for TLC.                                     *)
(***************************************************************************)
EXTENDS Traders

\* A small and a large order, so that one trade may cross what the other left.
SmallAndLarge == [id \in {"c1", "c2"} |-> IF id = "c1" THEN {1} ELSE {3}]
==============================================================================
