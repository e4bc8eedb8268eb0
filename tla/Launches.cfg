SPECIFICATION MCSpec
CONSTANTS
    a = a
    b = b
    c = c
    m = m
    p1 = p1
    p2 = p2
    None = None
    Accounts = {a, b}
    Models = {m}
    MaxRefusals = 2
    MaxLaunches = 3
    n = n
    Workers = {p1, p2}
    Registry <- MCRegistry
    Priority <- MCPriority
    Readings <- MCReadings
    NoFiveHour = {c}
    Preference <- MCPreference
    Weekly = m
    Threshold = 80
    Hysteresis = 10
    HoldBack = 80
    WeekLength = 2
    Pools <- MCPools
    MaxTime = 1
INVARIANTS Inv HeadlessInv WorkerInv ClaimsInv PolicyInv
PROPERTIES LaunchesGoOn
CHECK_DEADLOCK FALSE
