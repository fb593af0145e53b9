SPECIFICATION Spec
CONSTANTS
  File <- MCFile
  Root = "a"
  Items <- MCItems
  Jobs <- MCJobs
INVARIANTS
  TypeOK
  NeverOpenTwice
  IncludesAreTold
  OutputIsExpansion
PROPERTIES
  ResolutionEnds
\* Resolution is done when it is done.
CHECK_DEADLOCK FALSE
