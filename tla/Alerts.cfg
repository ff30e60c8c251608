SPECIFICATION Spec
CONSTANTS
    e1 = e1
    e2 = e2
    x1 = x1
    r1 = r1
    r2 = r2
    Events = {e1, e2, x1}
    Names = {r1, r2}
    ReactionOf <- MCReactionOf
    Cooldown <- MCCooldown
    Escalation <- MCEscalation
    Configurable = {r2}
    Start = 2
    MaxTime = 4
    MaxHistory = 2
    Streams = {s1}
    SseCap = 2
    Hooks = {}
    HookEvents = {}
    MaxRetries = 1
    FailLimit = 2
    None = None
INVARIANTS StreamsHaveNoGap FiringsSpaced
CHECK_DEADLOCK FALSE
