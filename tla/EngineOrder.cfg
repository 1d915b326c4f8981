\* One thread, before and during its runs; handlers, callbacks and actors may throw.
SPECIFICATION Spec
CONSTANTS
  t1 = t1
  t2 = t2
  NoThread = NoThread
  Threads <- OneThread
  Runners <- OneThread
  Delays = {0, 1, 2}
  Intervals = {0, 1, 2}
  Durations = {0, 1, 2}
  Sources = {"idle", "process"}
  Faults = {"process", "callback", "init"}
  Calls = {"condition", "register", "callback", "initialize"}
  MaxEvents = 4
  MaxCallbacks = 1
INVARIANTS InOrder
