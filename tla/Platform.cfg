SPECIFICATION MCSpec
CONSTANTS
    Hosts = {h1, h2}
    Plugin <- MCPlugin
    NameOf <- MCNameOf
    SlotOf <- MCSlotOf
    Overrides <- MCOverrides
    Throttles = {rt1}
    Knows <- MCKnows
    Breaks = {rt2, prov1}
    Ops <- MCOps
    Requested = {"a", "b"}
    MaxLoads = 3
    Void = Void
    Movers = {m1, m2}
    Worker = {ag1, ag2}
    MaxMoves = 4
    HistoryCap = 3
    Projects = {pr1, pr2}
    TraceCap = 2
    Fees = {1, 2}
    MaxFees = 4
    Posters = {w1}
    Channel = {c1, c2}
    ChannelOrg = {"o1", "o2"}
    Rows <- MCRows
    Subjects = {"e1", "e2"}
    MaxTouch = 4
    MaxPosts = 1
    Missing = Missing
    Graders = {g1, g2}
    Rated = {ra1, ra2}
    TaskCosts = {1, 60, 600}
    MaxTasks = 2
    MaxGrades = 3
    Unset = Unset
    Clients = {k1, k2}
    Payloads <- MCPayloads
    Tariff <- MCTariff
    MaxSends = 3
    Default <- MCDefault
    NoValue = NoValue
    ReportLimit = 2
    PeriodLength = 2
    Raters = {rr1, rr2}
    TraceInfo <- MCTraceInfo
    Scores <- MCScores
    Tenants = {o1, o2}
    MaxFeedback = 2
    MaxTraceRows = 3
    Unversioned = 0
    Days <- MCDays
    DayCosts <- MCDayCosts
    BatchSize = 2
    MaxBatches = 2
    RecentDays = 3
    Limits <- MCLimits
    Watchers = {wa1, wa2}
    Series = {se1}
    Readings <- MCReadings
    MinSamples = 1
    BaselineSize = 2
    StatusSize = 2
    SenseNum = 5
    SenseDen = 2
    RateNum = 3
    RateDen = 10
    AlertCooldown = 1
    MaxReadings = 3
    MaxTicks = 4
    MaxResets = 1
    Planners = {pl1, pl2}
    Companies = {co1, co2}
    MaxScenarios = 2
    MaxWrites = 3
    Visitors = {v1, v2}
    Addresses = {ad1}
    KeyIds = {kid1}
    MaxMaterial = 2
    Bearers <- MCBearers
    ApiKeys = {key1}
    KeyUntil <- MCKeyUntil
    Endless = Endless
    Nobody = Nobody
    FailMax = 1
    FailWindow = 2
    CacheTtl = 1
    SessionAge = 1
    LastHour = 3
    MaxRefused = 3
    kid1 = kid1
    key1 = key1
    rt1 = rt1
    rt2 = rt2
    prov1 = prov1
    prov2 = prov2
    react1 = react1
    react2 = react2
SYMMETRY Symmetry
INVARIANTS
    
    
    
    AccessSound
CHECK_DEADLOCK FALSE
