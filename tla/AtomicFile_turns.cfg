SPECIFICATION Spec
CONSTANTS
    x = x
    y1 = y1
    y2 = y2
    w1 = w1
    w2 = w2
    Hole = Hole
    NoFile = NoFile
    Document <- MCDocument
    Writer = {w1, w2}
    TakeTurns = TRUE
    DiskMayFail = TRUE
    MaxSaves = 3
    MaxDeaths = 2
INVARIANTS
    TypeOK
    NeverTorn
PROPERTIES
    OldOrNew
    SaveLasts
SYMMETRY MCWriterSymmetry
