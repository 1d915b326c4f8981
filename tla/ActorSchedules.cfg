\* An actor whose initialize schedules its first decision.
SPECIFICATION Spec
CONSTANTS
  t1 = t1
  t2 = t2
  NoThread = NoThread
  Threads <- OneThread
  Runners <- OneThread
  Delays = {0}
  Intervals = {1, 2}
  Durations = {1}
  Sources = {"init"}
  Faults = {}
  Calls = {"register"}
  MaxEvents = 1
  MaxCallbacks = 0
INVARIANTS NeverWaitsForItself
