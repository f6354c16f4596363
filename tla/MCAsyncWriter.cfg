\* Two callers race one shutdown() over a queue of two entries.
SPECIFICATION FairSpec
CONSTANTS
  Callers = {c1, c2}
  Threads = {t1, t2, t3}
  NoThread = NoThread
  MaxSize = 2
  MaxWrites = 3
  MaxCrashes = 1
  MaxShutdowns = 1
INVARIANTS TypeOK OneDrainThread NoWriteLost ShutdownDrainsOutsideWindow
PROPERTIES ImplementsWriteLog LiveThreadHandlesAll SentinelDoesNotCutOff DrainTerminates
\* The system may stop: all writes made and the drain thread ended.
CHECK_DEADLOCK FALSE
