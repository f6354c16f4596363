\* One caller, no crash: the docstring of shutdown() taken at its word.
SPECIFICATION Spec
CONSTANTS
  Callers = {c1}
  Threads = {t1, t2}
  NoThread = NoThread
  MaxSize = 2
  MaxWrites = 2
  MaxCrashes = 0
  MaxShutdowns = 1
INVARIANT ShutdownDrains
CHECK_DEADLOCK FALSE
