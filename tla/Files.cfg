SPECIFICATION MCSpec
CONSTANTS
    s = s
    e = e
    w = w
    u = u
    v = v
    i = i
    p1 = p1
    p2 = p2
    Absent = Absent
    Broken = Broken
    None = None
    Sessions = {s}
    Editors = {e}
    Sweepers = {w}
    Starting <- Started
    Kinds = {"settings", "state", "whole", "lines"}
    Values = {u, v}
    Items = {i}
    MaxTries = 2
    MaxEdits = 2
    MaxDeaths = 1
    Procs = {p1, p2}
    SettledFor = 2
    Quiet = 1
    Stalled = 3
    Hold = 1
    Fetch = 2
    MaxUpdates = 1
INVARIANTS Inv InstallInv
PROPERTIES UsersChoiceStands
