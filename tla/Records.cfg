SPECIFICATION MCSpec
CONSTANTS
    p1 = p1
    p2 = p2
    a = a
    b = b
    a1 = a1
    a2 = a2
    m = m
    n = n
    pg = pg
    qg = qg
    s1 = s1
    None = None
    Absent = Absent
    Procs = {p1, p2}
    MaxChanges = 2
    Throwing <- MCThrowing
    Models = {m, n}
    MaxTime = 1
    MaxLimits = 1
    Backoff = 1
    Order <- MCOrder
    Default = m
    Preferences <- MCPreferences
    MaxLines = 2
    TrimAt = 0
    MaxAstray = 1
    Sources = {s1}
    MaxRows = 3
    CompactAt = 1
    CompactTo = 2
INVARIANTS Inv RunsInv LogInv PagesInv
PROPERTIES NothingLost ChangesSettle
CHECK_DEADLOCK FALSE
