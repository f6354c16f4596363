\* The docstring of queue_prefetch() taken at its word: no lifecycle call but
\* the first initialize(), and no failing start().
SPECIFICATION FairSpec
CONSTANTS
  Themes = {trading, marketing}
  Sessions = {s1}
  Hosts = {h1}
  Workers = {w1, w2}
  NoTheme = NoTheme
  NoThread = NoThread
  CacheCap = 1
  StartMayFail = FALSE
  MaxRequests = 2
  MaxInits = 1
  MaxShutdowns = 0
PROPERTY RequestServed
CHECK_DEADLOCK FALSE
