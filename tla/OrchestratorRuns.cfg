\* Two nodes, two exchanges, the first named twice and so created on both nodes,
\* two callers in a process that may be started a second time, and one lost
\* request or answer, restarted node, or file that is not created.
SPECIFICATION Spec
CONSTANTS
  n1 = n1
  n2 = n2
  x1 = x1
  x2 = x2
  i1 = i1
  i2 = i2
  a1 = a1
  k1 = k1
  k2 = k2
  NodeList <- TwoNodes
  ExchangeList <- ThreeExchanges
  InstrumentList <- TwoInstruments
  ActorList <- OneActor
  Watches <- OneWatched
  Callers = {k1, k2}
  MaxFaults = 1
  MaxRestarts = 1
INVARIANTS SetUpIsComplete RunsAsSetUp OneGeneration NoSendAfterClose NilMeansStarted
PROPERTIES ShutsDown
\* A process whose setup failed, or that was told to stop, does nothing more.
CHECK_DEADLOCK FALSE
