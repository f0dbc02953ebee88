CONSTANTS
    VH = 3
    NarrowW = 2
    MaxW = 2
    PH = 3
    PW = 3
    Char = {sp, a}
    Blank = sp
    Star = a
    Nul = nul
    TabLen = 1
    CutMax = 2
    Null = null
    sp = sp
    a = a
SPECIFICATION MCSpec
INVARIANTS TypeOK YankUndoesKill KeysEditTheSheet
PROPERTY StaysShown
CHECK_DEADLOCK FALSE
