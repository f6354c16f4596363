\* One host thread races the worker, two initialize() calls and shutdown().
SPECIFICATION FairSpec
CONSTANTS
  Themes = {trading, marketing}
  Sessions = {s1, s2}
  Hosts = {h1}
  Workers = {w1, w2}
  NoTheme = NoTheme
  NoThread = NoThread
  CacheCap = 1
  StartMayFail = TRUE
  MaxRequests = 2
  MaxInits = 2
  MaxShutdowns = 2
INVARIANTS TypeOK OneWorker NoRecallReplayed RecallIsOwnOutsideDrain
PROPERTIES RequestServedOutsideExit
\* The host may stop calling and the worker has then ended.
CHECK_DEADLOCK FALSE
