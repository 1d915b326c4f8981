------------------------ MODULE MCSimulationController ------------------------
(* SimulationController with an operator of a name.                        *)
EXTENDS SimulationController

CONSTANTS c1
=============================================================================
