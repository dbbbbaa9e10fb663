SPECIFICATION Spec
CONSTANTS
  Kinds <- FiveKinds
  Names = {"a", "session"}
  MaxEntries = 2
  Output = "FilePath"
  WithDatabase = TRUE
  MaxRuns = 3
  MaxSamples = 2
  MaxLines = 6
INVARIANTS TypeOK JsonAhead OwnLine RowsPrefix Heals OutputsAgree
CHECK_DEADLOCK FALSE
