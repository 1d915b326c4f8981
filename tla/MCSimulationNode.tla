--------------------------- MODULE MCSimulationNode ---------------------------
(* SimulationNode for TLC: one RPC thread, two simulation threads.      *)
EXTENDS SimulationNode

CONSTANTS c1, s1, s2

TwoRunners == {s1, s2}
OneClient == {c1} \cup TwoRunners
\* A latency is negative when the jitter exceeds the base (exchange.cpp:23-32).
AnyDelay == {-1, 0, 2}
==============================================================================
