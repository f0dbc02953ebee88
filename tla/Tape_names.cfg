CONSTANTS
  Unix = {"a", "b"}
  Sos = {"A", "B"}
  Utos <- MCUtos
  Stou <- MCStou
  Locked = {}
  Dot = {"."}
  Deck = {"T", "S"}
  Datum = {cr, lf, nul}
  CR = cr
  LF = lf
  NUL = nul
  Null = null
  SizeCap = 1
  MaxDirno = 1
SPECIFICATION SharedSpec
INVARIANTS TypeOK ModeMatches
PROPERTY KeepsRecordings
