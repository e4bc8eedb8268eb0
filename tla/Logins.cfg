SPECIFICATION MCSpec
CONSTANTS
    t1 = t1
    t2 = t2
    t3 = t3
    x = x
    y = y
    e1 = e1
    e2 = e2
    p1 = p1
    q = q
    r = r
    v = v
    None = None
    Tasks = {t1, t2}
    MaxLogins = 4
    MaxSignIns = 2
    MaxFailures = 2
    Accounts = {x, y}
    Events = {e1, e2}
    Mac = TRUE
    MaxMade = 2
    MaxCalls = 2
    Profiles = {q, r, v}
    Emails <- MCEmails
    Carriers = {p1}
    Measured = {x}
    MaxTime = 4
    Ttl = 0
INVARIANTS Inv EditorInv CarriedInv
PROPERTIES SendsNoSpentLogin KeptIsSettled
CHECK_DEADLOCK FALSE
