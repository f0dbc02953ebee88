CONSTANTS
  VH = 2
  NarrowW = 2
  MaxW = 3
  PH = 2
  PW = 3
  Char = {sp, ast}
  Blank = sp
  Star = ast
  Nul = nul
  MaxTab = 3
  MaxPuts = 3
SPECIFICATION SuspendSpec
PROPERTY RedrawRestores
