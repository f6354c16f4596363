\* The mirror of one agent over two sessions.
SPECIFICATION Spec
CONSTANTS
  Contents = {"a", "ab"}
  Blank = {}
  LikePairs <- MCLikePairs
  Null = Null
  Agent = "agent"
  MaxQueue = 1
  EmbedBreaker = 1
  MaxWrites = 3
  MaxSessions = 2
VIEW MCView
INVARIANTS TypeOK NothingMissing NothingStale
\* The agent may stop writing.
CHECK_DEADLOCK FALSE
