SPECIFICATION FairSpec
CONSTANTS
    Apps = {a1, a2}
    Timers = {t1, t2}
    Main = Main
    Events = {e1, e2}
    BatchSize = 2
    MaxStarts = 2
    HasEndpoint = TRUE
    None = None
INVARIANTS Conservation RunningIsFlushed
PROPERTIES EventuallyOut StoppedTimersEnd
CHECK_DEADLOCK FALSE
