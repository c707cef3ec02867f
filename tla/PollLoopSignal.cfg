\* What the docstring of _clean_shutdown says, against one signal.
CONSTANTS
  MaxBatteries = 2
  Level = "low"
  AutoSync = FALSE
  MaxSignals = 1
  MaxSessions = 0
SPECIFICATION Spec
INVARIANT SignalAlwaysCleansUp
