SPECIFICATION NginxSpec
CONSTANTS
  line1 = line1
  Lines = {line1}
  Families <- NginxFamilies
  Off = logOff
  DefaultLog <- NginxDefault
  nameA = nameA
  nameB = nameB
INVARIANTS
  ScopesAreSound
  LoggingVerdictsAreTrue
  SettingRulesAreSound
  RequestRulesAreSound
\* A configuration is looked at once.
CHECK_DEADLOCK FALSE
