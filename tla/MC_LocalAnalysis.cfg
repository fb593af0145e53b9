SPECIFICATION LocalSpec
CONSTANTS
  Rule <- MCRule
  StageOf <- MCStageOf
  Category <- MCCategory
  ServerOf <- MCServerOf
  OptIn <- MCOptIn
  NeedsDirective <- MCNeedsDirective
  RunOrder <- MCRunOrder
  Superseded <- MCSuperseded
  Htaccess = {"h1", "h2"}
  WebConfig = {"w1", "w2"}
  Requirements <- MCRequirements
  MaxContexts = 2
  Reported <- MCReported
INVARIANTS
  TypeOK
  ManifestIsTrue
  FailuresHaveIssues
  FindingsAreExact
  RecorderTypeOK
  OutcomeIsStrongest
  ManifestOnlyFailsIncomplete
PROPERTIES
  EveryAnalysisEnds
  FailureIsSticky
\* An analysis that has returned or raised has nothing more to do.
CHECK_DEADLOCK FALSE
