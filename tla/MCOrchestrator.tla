---------------------------- MODULE MCOrchestrator ----------------------------
(* Orchestrator with two nodes, two exchanges, one of them named twice in  *)
(* the configuration, and two callers.                                     *)
EXTENDS Orchestrator

CONSTANTS n1, n2, x1, x2, i1, i2, a1, k1, k2

TwoNodes == <<n1, n2>>
ThreeExchanges == <<x1, x1, x2>>
TwoInstruments == <<i1, i2>>
OneActor == <<a1>>
OneWatched == <<{i2}>>
===============================================================================
