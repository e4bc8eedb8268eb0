SPECIFICATION Spec
CONSTANTS
    a = a
    b = b
    c = c
    Sessions = {a, b}
    MaxLogins = 2
    MaxDeaths = 0
    Movers = {a, b}
    SignsIn = {}
PROPERTY HandBackSparesRenewal
SYMMETRY Symmetric
