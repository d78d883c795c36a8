SPECIFICATION MCSpec
CONSTANTS
    Request = {r1}
    Watcher = {w1, w2}
    PerMinute = 1
    PerDay = 1
    MaxUncounted = 1
    None = None
INVARIANT QuotaHolds
PROPERTY SwitchIsObeyed
PROPERTY WatchdogIsHeard
CHECK_DEADLOCK FALSE
