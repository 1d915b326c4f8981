\* Two threads, each of which schedules events and runs the engine.
SPECIFICATION FairSpec
CONSTANTS
  t1 = t1
  t2 = t2
  NoThread = NoThread
  Threads <- TwoThreads
  Runners <- TwoThreads
  Delays <- AnyDelay
  Intervals = {1, 2}
  Durations = {1, 2}
  Sources = {"idle", "process"}
  Faults = {"process"}
  Calls = {"condition", "callback"}
  MaxEvents = 3
  MaxCallbacks = 1
INVARIANTS CallbacksKeepUp NeverEarly EachEventOnce
PROPERTIES RunReturns
