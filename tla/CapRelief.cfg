SPECIFICATION MCSpec
CONSTANTS
    a = a
    b = b
    None = None
    Accounts = {a, b}
    Walls = 2
    MaxRefusals = 3
    MaxTries = 1
    SlowMoves = {"relief", "switch"}
    Pickup = 1
    Settle = 1
    Submit = 1
    Answer = 2
    Blocked = 2
    Retry = 1
    IdleFor = 1
    MaxAttempts = 2
    MaxDismissals = 1
    MaxMoves = 2
    MaxEvents = 2
INVARIANTS Inv CarryOnInv
PROPERTIES LimitsAreSettled ExitsAreSettled CarryOnEnds
CHECK_DEADLOCK FALSE
