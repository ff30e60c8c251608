SPECIFICATION MCSpec
CONSTANTS
    Admins = {a1, a2}
    Drafts <- MCDrafts
    Contexts <- MCContexts
    NumberOf <- MCNumberOf
    Inside <- MCInside
    Fits <- MCFits
    MaxPolicies = 3
    MaxWrites = 4
    NaN = NaN
    RModels = {low, high, four}
    Profiles <- MCProfiles
    Asks <- MCAsks
    MaxEdits = 4
    NoLimit = NoLimit
    Readers = {r1, r2}
    TModels = {low, high, four}
    PriceOf <- MCPriceOf
    ContextOf <- MCContextOf
    MakerOf <- MCMakerOf
    NotChat = {low}
    Thresholds <- MCThresholds
    Granted <- MCGranted
    MaxSets = 2
    Uncached = Uncached
    MaxHits = 3
    Talks = {1, 6, 11}
    ModelOf <- MCModelOf
    Providers = {"default", "openai"}
    Recordable <- MCCalls
    MaxRecorded = 2
    Loaders = {l1, l2}
    Models <- MCNames
    Rank <- MCRank
    StripOf <- MCStrip
    BaseOf <- MCBase
    BeginsWith <- MCBegins
    Tables <- MCTables
    FileOverrides <- MCOverrides
    Price <- MCPrice
    Unpriced = Unpriced
    MaxSyncs = 2
    Staff = {w1, w2}
    Tenants = {o1, o2}
    Center = {c1, c2}
    Work = {p1}
    Bots = {b1}
    Shares = {50, 100}
    TraceCosts = {1}
    MaxRules = 2
    MaxTraces = 1
    MaxEdit = 4
    Null = Null
    low = low
    high = high
    four = four
    fouro = fouro
    dated = dated
SYMMETRY Symmetry
INVARIANTS   PricesSound 
CHECK_DEADLOCK FALSE
