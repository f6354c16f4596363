\* The mirror of one agent while sweeps run.
SPECIFICATION FairSpec
CONSTANTS
  Contents = {"a", "z", " "}
  Blank = {" "}
  LikePairs <- MCLikePairs
  Null = Null
  Agent = "agent"
  MaxQueue = 1
  EmbedBreaker = 1
  MaxWrites = 1
  MaxSessions = 1
  Undecodable = {"z"}
  BatchSize = 1
  MaxFailures = 2
  MaxSweeps = 2
INVARIANTS TypeOK EmbeddingMatchesContent SweepHealsWhatItFound
PROPERTIES SweepEnds
\* The agent may stop writing and the nightly sweep be over.
CHECK_DEADLOCK FALSE
