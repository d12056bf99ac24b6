SPECIFICATION Spec
CONSTANTS
    x = x
    y1 = y1
    y2 = y2
    w1 = w1
    w2 = w2
    Hole = Hole
    NoFile = NoFile
    Document <- MCDocument
    Writer = {w1, w2}
    TakeTurns = FALSE
    DiskMayFail = FALSE
    MaxSaves = 2
    MaxDeaths = 0
INVARIANTS
    NeverTorn
