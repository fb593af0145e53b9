SPECIFICATION Spec
CONSTANTS
  File <- MCFile
  Root = "a"
  Items <- MCItems
  Jobs <- MCJobs
INVARIANTS
  NothingIsRaised
CHECK_DEADLOCK FALSE
