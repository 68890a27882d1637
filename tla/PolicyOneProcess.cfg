SPECIFICATION Spec
CONSTANTS
    t1 = t1
    t2 = t2
    o1 = o1
    w1 = w1
    cap = cap
    hold = hold
    None = None
    Requests = {t1, t2}
    Owners = {o1}
    Workers = {w1}
    WorkerOf <- OneProcess
    Actors = {"agent"}
    Rules = {cap, hold}
    RuleKind <- Kinds
    Defaults = {cap}
    HourlyLimit = 2
    DailyCap = 2
    DayCap = 1
    UtcDay <- UtcDays
    LocalDay <- LocalDays
    MaxHour = 2
    MaxCalls = 3
    Failures = TRUE
INVARIANTS
    RulesInForceApply
    CapsHold
    OvershootBounded
