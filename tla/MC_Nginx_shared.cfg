SPECIFICATION NginxSpec
CONSTANTS
  line1 = line1
  Lines = {line1}
  Families <- NginxFamilies
  Off = logOff
  DefaultLog <- NginxDefault
  nameA = nameA
  nameB = nameB
INVARIANTS
  CompleteMeansWhole
CHECK_DEADLOCK FALSE
