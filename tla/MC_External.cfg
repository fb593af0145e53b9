SPECIFICATION ExternalSpec
CONSTANTS
  PortLists <- MCPortLists
  InvalidPort = {99999}
  MaxWorkers = 2
  Targets <- MCTargets
  Statuses = {200, 301, 405}
  Url <- MCUrl
  HttpsUrl <- MCHttpsUrl
  HostOf <- MCHostOf
  Unsupported = {"mailto:x"}
  Invalid = {"https://a:99999/"}
  NoLocation = "none"
  MaxHops = 5
  Rule <- Rules
  StageOf <- StageOfRule
  Server = {"nginx", "apache", "iis", "lighttpd"}
  Endpoints <- HostEndpoints
  Answers <- HostAnswers
  Pages = {"none", "nginx", "apache"}
  MalformedReplies <- Replies
  Requirements <- RequirementSets
  SortedRules <- RulesInOrder
  Soon = 1
  MaxDepth = 2
  IpLiterals <- Addresses
  Sites <- MCSites
  NamesAsked <- MCNames
  MayMiss = {"observe", "versions", "chain", "depth", "order", "time"}
  LastDay = 3
  Entries <- InventoryEntries
  Required = {"handshake", "certificate_name", "certificate_chain", "protocol_support", "negotiated_cipher", "ocsp_stapling"}
  Complete = TRUE
  Servers <- InventoryServers
  MayLose = {"handshake", "chain", "order", "ocsp", "versions"}
  Today = 1
INVARIANTS
  TypeOK
  ProbeIsSound
  ChainIsTold
  ReportIsSound
  DisclosureToldOnce
  TlsFindingsAreExact
  InventoryIsSound
PROPERTIES
  ImplementsContract
  ScansAndChainsEnd
\* Whatever has been asked for has been done at last.
CHECK_DEADLOCK FALSE
