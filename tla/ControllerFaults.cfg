\* One operator whose cache lags behind its own writes, and up to three faults;
\* a second has two ticks, a simulation three, which may start at time 0 or 1,
\* both stored as 0, and fails when it has no nodes after that.
SPECIFICATION Spec
CONSTANTS
  c1 = c1
  Controllers = {c1}
  Duration = 2
  Grace = 0
  Second = 2
  MaxStart = 1
  MaxFaults = 3
INVARIANTS TypeOK ResourcesAreThere
PROPERTIES PhasesGoForward TimesAreKept SimulationEnds
\* A simulation that ended or is deleted is left alone.
CHECK_DEADLOCK FALSE
