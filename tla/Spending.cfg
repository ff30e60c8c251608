SPECIFICATION MCSpec
CONSTANTS
    Threads = {t1, t2}
    Prices = {1, 2}
    Limits = {2, 3}
    WarnNum = 1
    WarnDen = 2
    MaxUses = 4
    Callers = {c1, c2}
    Agents = {a1}
    Spends = {1, 2}
    AgentBudgets = {2}
    AvgWindow = 2
    MaxCycles = 3
    MaxSpends = 3
    MaxTouches = 2
    Nobody = Nobody
    Clerks = {w1, w2}
    Goal = {g1, g2, g3}
    GoalCap = 2
    MaxChanges = 2
    MaxFound = 4
    Top = Top
    Gone = Gone
    Desks = {d1, d2}
    Org = {o1, o2}
    Project = {p1}
    BudgetLimits <- MCLimits
    Estimates = {1}
    FirstOfMonth <- MCFirst
    LastDay = 1
    MaxCalls = 4
    NoOrg = NoOrg
    Nodes = {n1, n2}
    Allowances = {0, 3, 5}
    WarnAt = 50
    DowngradeAt = 80
    BlockAt = 100
    Chains <- MCChains
    GateModels = {big, mid, tiny}
    CallCost <- MCCost
    MaxAsks = 6
    big = big
    mid = mid
    tiny = tiny
SYMMETRY Symmetry
INVARIANTS TrackerSound HeartbeatSound GoalsSound TenantsApart GateHolds
CHECK_DEADLOCK FALSE
