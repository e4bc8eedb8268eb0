CONSTANTS
    s = s
    e = e
    w = w
    u = u
    v = v
    i = i
    Absent = Absent
    Broken = Broken
    None = None
    Sessions = {s}
    Editors = {e}
    Sweepers = {w}
    Starting <- Started
    Kinds = {"whole"}
    Values = {u, v}
    Items = {i}
    MaxTries = 2
    MaxEdits = 2
    MaxDeaths = 1
SPECIFICATION Spec
PROPERTY NeitherEditIsLost
