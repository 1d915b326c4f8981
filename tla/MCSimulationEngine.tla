-------------------------- MODULE MCSimulationEngine --------------------------
(* SimulationEngine for TLC: one thread, or two, each of which may run it.      *)
EXTENDS SimulationEngine

CONSTANTS t1, t2

OneThread == {t1}
TwoThreads == {t1, t2}

\* A latency is negative when the jitter exceeds the base (exchange.cpp:23-32).
AnyDelay == {-1, 0, 2}
==============================================================================
