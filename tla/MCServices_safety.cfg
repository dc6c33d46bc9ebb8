\* Thirteen components, one at a time, with their faults: safety.
SPECIFICATION Spec
CONSTANTS
    Components = {"cli", "history", "purge", "live", "revalidation", "admission", "images", "membership", "boot", "sessions", "groups", "attribution", "steps"}
    Nil = Nil
    CliPods = {a, b}
    CliRequests = {r1, r2}
    CliVersions = {1, 2}
    CliAllowed = {1}
    MaxGetFaults = 1
    HistPods = {a, b}
    HistTraces = {t1}
    MaxHistFaults = 1
    MaxHistMoves = 1
    MaxBatches = 2
    PurgeVersions = {v1}
    MaxOrdinal = 1
    LiveClients = {c1}
    Ingests = {i1, i2}
    ChannelSize = 1
    LiveFaults = TRUE
    MaxStored = 2
    RevRequests = {h1, h2}
    Interval = 1
    Jitter = 0
    Grace = 1
    FailOpen = FALSE
    MaxEntryAge = 1
    MaxTime = 2
    MaxCred = 2
    MaxChecks = 2
    MaxIdpChanges = 1
    AdmPods = {a, b}
    AdmSlots = {s1, s2}
    AdmUsers = {"u1"}
    AdmAdmins = {}
    AdmGroups = {"g1", "g2"}
    MembersOf <- MCMembersOf
    AgentAvailable = {"g1"}
    Quota <- MCQuota
    MaxLeases = 3
    MaxAdmFaults = 1
    Tags = {t1, t2}
    Digests = {d1, d2}
    Workers = 2
    MaxPulls = 1
    Sizes = {1, 2, 3}
    MaxRescales = 2
    MaxMemFaults = 2
    BootPods = {a, b}
    Values = {1, 2, 3, 4, 5, 6}
    MaxBootFaults = 2
    GrpUsers = {w1, w2}
    GrpNames = {"default", "team", "-team"}
    GrpInvalid = {"-team"}
    DefaultGroup = "default"
    MaxGroupId = 2
    GrpRequests = {h1, h2}
    GrpOverlap = TRUE
    MaxGrpCalls = 2
    MaxGrpFaults = 1
    AttrTraces = {w1, w2}
    AttrRepos = {"ruled", "matched"}
    AttrCalls = {h1, h2}
    AttrGroupIds = {1, 2}
    RuleFor <- MCRuleFor
    MatchedBy <- MCMatchedBy
    MaxProjects = 2
    MaxAttrEvents = 1
    Spans = {1, 2, 3}
    Shapes <- MCShapes
    MaxDepth = 1
    LogRecords <- MCLogRecords
    LogLimit = 2
    MaxPolls = 2
    Handlers = {h1, h2}
    Passwords = {w1, w2}
    MaxBumps = 2
    MaxSessions = 2
SYMMETRY RequestSymmetry
CHECK_DEADLOCK FALSE
INVARIANTS
    ServicesTypeOK CliFetchedOnce CliServesVerified LiveNoSendOnClosed AdmQuotaBounded
    ImgReportTrue SecretReplicated RecoveryFileExact
    RevivedOnlyByStaleWrite OldPasswordOnlyByStaleWrite LoginReconciles AttrAgrees StepsRenderable
PROPERTIES HistGcSparesRunning PurgeReclaims RevStalenessBounded
