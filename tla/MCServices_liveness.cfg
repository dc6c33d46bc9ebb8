\* Ten components, one at a time, with their faults: what must happen.
SPECIFICATION FairSpec
CONSTANTS
    Components = {"cli", "history", "purge", "live", "revalidation", "admission", "images", "membership", "boot", "steps"}
    Nil = Nil
    CliPods = {a, b}
    CliRequests = {r1, r2}
    CliVersions = {1}
    CliAllowed = {1}
    MaxGetFaults = 1
    HistPods = {a, b}
    HistTraces = {t1}
    MaxHistFaults = 1
    MaxHistMoves = 1
    MaxBatches = 2
    PurgeVersions = {v1}
    MaxOrdinal = 1
    LiveClients = {c1}
    Ingests = {i1}
    ChannelSize = 1
    LiveFaults = FALSE
    MaxStored = 2
    RevRequests = {r1, r2}
    Interval = 1
    Jitter = 0
    Grace = 1
    FailOpen = FALSE
    MaxEntryAge = 1
    MaxTime = 1
    MaxCred = 2
    MaxChecks = 2
    MaxIdpChanges = 0
    AdmPods = {a, b}
    AdmSlots = {s1, s2}
    AdmUsers = {"u1"}
    AdmAdmins = {}
    AdmGroups = {"g1", "g2"}
    MembersOf <- MCMembersOf
    AgentAvailable = {"g1"}
    Quota <- MCQuota
    MaxLeases = 2
    MaxAdmFaults = 1
    Tags = {t1, t2}
    Digests = {d1, d2}
    Workers = 2
    MaxPulls = 0
    Sizes = {1, 2, 3}
    MaxRescales = 1
    MaxMemFaults = 2
    BootPods = {a, b}
    Values = {1, 2, 3, 4, 5, 6}
    MaxBootFaults = 1
    GrpUsers = {w1, w2}
    GrpNames = {"default", "team", "-team"}
    GrpInvalid = {"-team"}
    DefaultGroup = "default"
    MaxGroupId = 2
    GrpRequests = {h1, h2}
    GrpOverlap = TRUE
    MaxGrpCalls = 2
    MaxGrpFaults = 1
    AttrTraces = {w1, w2}
    AttrRepos = {"ruled", "matched"}
    AttrCalls = {h1, h2}
    AttrGroupIds = {1, 2}
    RuleFor <- MCRuleFor
    MatchedBy <- MCMatchedBy
    MaxProjects = 2
    MaxAttrEvents = 1
    Spans = {1, 2}
    Shapes <- MCShapes
    MaxDepth = 1
    LogRecords <- MCLogRecords
    LogLimit = 1
    MaxPolls = 1
    Handlers = {h1, h2}
    Passwords = {w1}
    MaxBumps = 2
    MaxSessions = 2
CHECK_DEADLOCK FALSE
PROPERTIES
    HistPurged LiveSignalled LiveReleased AdmTunnelServed VotersConverge PodsComeUp
    RequestsAnswered
