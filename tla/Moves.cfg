SPECIFICATION MCSpec
CONSTANTS
    a = a
    b = b
    t = t
    x = x
    p = p
    q = q
    k1 = k1
    own = own
    home = home
    c1 = c1
    c2 = c2
    None = None
    NoAccount = NoAccount
    NoCall = NoCall
    Pids = {p}
    Accounts = {a, b, t, x}
    TokenOnly = {t}
    SignedOut = {x}
    MayBeDue = {b}
    Commands = {k1}
    Elsewhere = 1
    MaxAsks = 3
    Calls = {c1, c2}
    Tracked = {c1}
    MaxLaunches = 2
    CallsMissMoves = TRUE
INVARIANTS Inv HopInv
PROPERTIES FreshSessionsStayPut RequestsSettle ComesBack
CHECK_DEADLOCK FALSE
