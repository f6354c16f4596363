\* The last value of embed_protocol is a misspelling, which means auto.
\* Timeouts of two ticks, two retries, answers in two pieces.
SPECIFICATION Spec
CONSTANTS
  Configured = {"openai", "ollama", "Auto-detect"}
  EmbedTimeout = 2
  WriteTimeout = 2
  WriteRetries = 2
  WriteBackoff = 1
  SweepBackoff = 1
  PrefetchBudget = 9
  BudgetMin = 1
  BudgetMax = 3
  HostLimit = 4
  MaxPieces = 1
INVARIANTS TypeOK CallBounded PrefetchWithinHost DrainDelayBounded FaultsAbsorbed MisconfigurationNamed
