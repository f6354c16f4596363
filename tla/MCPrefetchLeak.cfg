\* The comment in _prefetch_worker_loop() taken at its word.
SPECIFICATION Spec
CONSTANTS
  Themes = {trading, marketing}
  Sessions = {s1}
  Hosts = {h1}
  Workers = {w1}
  NoTheme = NoTheme
  NoThread = NoThread
  CacheCap = 1
  StartMayFail = FALSE
  MaxRequests = 1
  MaxInits = 2
  MaxShutdowns = 1
INVARIANT RecallIsOwn
CHECK_DEADLOCK FALSE
