\* operations.md taken at its word: one remap without --force, agents writing.
SPECIFICATION Spec
CONSTANTS
  Contents = {"x", "y"}
  Blank = {}
  LikePairs <- MCLikePairs
  Null = Null
  Identities = {"Sales", "sales"}
  Operators = {m1}
  Nobody = Nobody
  DupLimit = 1
  Tables <- MCTables
  MaxOps = 1
  MaxWrites = 4
INVARIANT ForceGuard
CHECK_DEADLOCK FALSE
