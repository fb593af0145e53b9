SPECIFICATION GateSpec
CONSTANTS
  Finding <- MCFinding
  Covers <- MCCovers
  MaxSeverity = 2
  Configs <- MCConfigs
  Entries <- MCEntries
  Options <- MCOptions
  LastDay = 2
INVARIANTS
  CrashIsAnExecutionError
