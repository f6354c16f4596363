SPECIFICATION Spec
CONSTANTS
  Names <- NamesValue
  Fold <- FoldValue
  DmKeys = {"dm-key"}
  GroupKeys = {"group-key"}
  BenchNames = {"ops-bench"}
  Aliases <- AliasesValue
  Allowed = {}
  BenchMode = "bucket"
  Requests <- RequestsValue
  Sessions = {"s1", "s1b", "s2", "s3"}
  ThemeBy <- ThemeByValue
  OldRows <- OldRowsValue
  Asked = {"WhatsApp-DM"}
  MaxInits = 2
  MaxOps = 2
VIEW MCView
INVARIANTS TypeOK IdentityGoverned RecallGate RowsAttributed AppliedInOrder AcceptedWritesStored
PROPERTY PoolsStayClosed
CHECK_DEADLOCK FALSE
