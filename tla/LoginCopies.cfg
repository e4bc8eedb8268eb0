SPECIFICATION FairSpec
CONSTANTS
    a = a
    b = b
    c = c
    Sessions = {a, b}
    MaxLogins = 2
    MaxDeaths = 1
    Movers = {b}
    SignsIn = {a}
INVARIANTS Inv
PROPERTIES LoginsAreKept RenewalsSpread
