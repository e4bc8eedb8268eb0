SPECIFICATION FairSpec
CONSTANTS
    t1 = t1
    t2 = t2
    t3 = t3
    p1 = p1
    p2 = p2
    p3 = p3
    NoTask = NoTask
    Tasks = {t1, t2}
    Pids = {p1, p2}
    PidOf <- MCTwo
    MaxDeaths = 2
    MayDieInGuard = TRUE
    MayStall = TRUE
PROPERTY LeftLockIsRecovered
