CONSTANTS
    Unit = {"A", "B"}
    Dir = {"home", "away"}
    Name = {"abs", "sos0", "sos1"}
    Image = {"x", "y"}
    NoImage = "none"
    Lead <- MCLead
    Default <- MCDefault
    Unnamed = unnamed
    Closed = closed
    Sector <- MCSector
    Zero <- MCZero
    MaxRec = 2
    MaxCount = 1
    PerRec = 2
    DirPos = 0
    DirMod = 4
    Low = {0, 3}
    Letter = {"A", "E", "T", "Z"}
    Reserved = {"E"}
    Tape = {"T"}
    Bad = {"Z"}
SPECIFICATION MCSpec
INVARIANTS TypeOK SavedIsOnHost
PROPERTIES ReadsLatest FindsNextEntry SearchEnds
CHECK_DEADLOCK FALSE
