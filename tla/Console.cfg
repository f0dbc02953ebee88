CONSTANTS
  VH = 2
  NarrowW = 2
  MaxW = 3
  PH = 3
  PW = 3
  Char = {sp, ast}
  Blank = sp
  Star = ast
  Nul = nul
  MaxTab = 3
  MaxPuts = 2
SPECIFICATION Spec
INVARIANTS TypeOK CursorOnScreen XyInSync CursorTracked ScreenMirrored LastRowNotJoined IInv
PROPERTIES CallsKeepPromises FeedStartsLine ImplementsDisplay
