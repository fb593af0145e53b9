SPECIFICATION LocalSpec
CONSTANTS
  Rule <- MCRule
  StageOf <- MCStageOf
  Category <- MCCategory
  ServerOf <- MCServerOf
  OptIn <- MCOptIn
  NeedsDirective <- MCNeedsDirective
  RunOrder <- MCRunOrder
  Superseded <- MCSuperseded
  Htaccess = {"h1", "h2"}
  WebConfig = {"w1", "w2"}
  Requirements <- MCRequirements
  MaxContexts = 2
  Reported <- MCReported
INVARIANTS
  DropsOnlyDuplicates
CHECK_DEADLOCK FALSE
