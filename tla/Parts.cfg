SPECIFICATION MCSpec
CONSTANTS
    t1 = t1
    t2 = t2
    t3 = t3
    p1 = p1
    p2 = p2
    p3 = p3
    p4 = p4
    p5 = p5
    c1 = c1
    c2 = c2
    a = a
    b = b
    s1 = s1
    m = m
    n = n
    NoTask = NoTask
    None = None
    Tasks = {t1, t2, t3}
    Pids = {p1, p2}
    PidOf <- MCPidOf
    MaxDeaths = 2
    MayDieInGuard = FALSE
    MayStall = FALSE
    Procs = {p3, p4, p5}
    MaxMade = 3
    Conversations = {c1, c2}
    Kept = 1
    AnswersIn = 1
    MaxAge = 1
    MaxTime = 3
    MaxLines = 2
    MaxLogins = 3
    Accounts = {a, b}
    Believed = a
    Stranger = s1
    Models <- MCModels
    Timeout = 4
    BackOffWait = 2
    SecondAsk = 2
    Budget = 5
    MaxSignIns = 1
    Quiet = 1
    GateWait = 1
    MaxProcs = 2
    DeskTime = 1
    MaxTurns <- MCTurns
    MaxHands = 1
INVARIANTS Inv DirInv EvidenceInv ArrivesInv
PROPERTIES RemovalsAreRightful KeepsPromise
CHECK_DEADLOCK FALSE
