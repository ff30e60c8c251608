SPECIFICATION FairSpec
CONSTANTS
    e1 = e1
    e2 = e2
    x1 = x1
    r1 = r1
    r2 = r2
    Events = {e1, e2, x1}
    Names = {r1, r2}
    ReactionOf <- MCReactionOf
    Cooldown <- MCCooldown
    Escalation <- MCEscalation
    Configurable = {}
    Start = 2
    MaxTime = 2
    MaxHistory = 1
    Streams = {}
    SseCap = 2
    Hooks = {h1}
    HookEvents = {e1, e2}
    MaxRetries = 2
    FailLimit = 2
    None = None
INVARIANT DisabledAfterFailures
PROPERTIES EmitReturns DeliveriesEnd
CHECK_DEADLOCK FALSE
