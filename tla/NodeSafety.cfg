\* One client calls RunSimulation again and again; handlers and actors may throw.
SPECIFICATION NodeFairSpec
CONSTANTS
  c1 = c1
  s1 = s1
  s2 = s2
  NoThread = NoThread
  Threads <- OneClient
  Runners <- TwoRunners
  Delays <- AnyDelay
  Intervals = {1}
  Durations = {1, 2}
  Sources = {"idle", "process"}
  Faults = {"process"}
  Calls = {"initialize", "callback"}
  MaxEvents = 3
  MaxCallbacks = 1
INVARIANTS OneRunAtATime OpenWhileRunning FlagCoversTheRun
PROPERTIES RunStopsForAReason NodeBecomesFree
CHECK_DEADLOCK FALSE
