SPECIFICATION Spec
CONSTANTS
  Processes = {operator, ops_api}
  Operator = operator
  Table <- RepositoryTables
  Columns <- RepositoryColumns
  MaxStarts = 3
  HistoryLimit = 2
  MaxOps = 3
  MaxWrites = 1
  MaxSeconds = 1
  None = none
INVARIANTS RecordedIsWhole FailsForACause ActiveRestorable RollbackUndoes HistoryReplays
PROPERTIES SomeoneMigrates
\* The starts and the scripts are bounded.
CHECK_DEADLOCK FALSE
