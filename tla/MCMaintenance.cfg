\* Two operators' commands meet each other and the agents' writes.
SPECIFICATION Spec
CONSTANTS
  Contents = {"x", "y"}
  Blank = {}
  LikePairs <- MCLikePairs
  Null = Null
  Identities = {"Sales", "sales"}
  Operators = {m1, m2}
  Nobody = Nobody
  DupLimit = 0
  Tables <- MCTables
  MaxOps = 2
  MaxWrites = 2
SYMMETRY Symmetry
INVARIANTS TypeOK ReportsWhatItDid ForceGuardWhenQuiet
PROPERTIES RemapMergesWhenQuiet
\* Agents and operators may stop.
CHECK_DEADLOCK FALSE
