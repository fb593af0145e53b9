SPECIFICATION EvidenceSpec
CONSTANTS
    Registry = {global, fresh}
    Global = global
    Package <- MCPackage
    Public <- MCPublic
    Private <- MCPrivate
    Defines <- MCDefines
    Exposes <- MCExposes
    MetaRule <- MCMetaRule
    NoCall = NoCall
    Writer = {w1, w2, w3}
    Forced = {w3}
    Nobody = Nobody
    MaxFaults = 2
    w1 = w1
    w2 = w2
    w3 = w3
    Sources = {cis, asvs}
    Items <- MCItems
    SourceOf <- MCSourceOf
    Applicable = {i1, i2}
    Rules = {direct, derived}
    Evidence <- MCEvidence
    ServerTypes = {"nginx", "generic"}
    Policies <- MCPolicies
    Targets <- MCTargets
    None = None
    cis = cis
    asvs = asvs
    i1 = i1
    i2 = i2
    i3 = i3
    unlisted = unlisted
    direct = direct
    derived = derived
    MappedRules = {ra, rb}
    ResultTargets = {t1, t2}
    LedgerItems <- MCLedgerItems
    Reports <- MCReports
    Gates <- MCGates
    ra = ra
    rb = rb
    t1 = t1
    t2 = t2
    N = 3
    MaxFailures = 4
    CanBeKilled = TRUE
    Finding <- MCFinding
    Covers <- MCCovers
    MaxSeverity = 2
    Configs <- MCConfigs
    Entries <- MCEntries
    Options <- MCOptions
    LastDay = 2
INVARIANTS
    RegistryIsSound
    PolicyIsFollowed
    VerdictsAreEarned
    GreenHidesNothing
    ExportsAreSound
    DocumentsAreSafe
    GateTypeOK
    GreenIsEarned
    RedIsEarned
    FailsClosed
PROPERTY PublishesAtomically
\* The commands end; only the gate is run again and again.
CHECK_DEADLOCK FALSE
