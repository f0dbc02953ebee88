CONSTANTS
  Unix = {"a", "long", "locked"}
  Sos = {"A", "L"}
  Utos <- MCUtos
  Stou <- MCStou
  Locked = {"locked"}
  Dot = {"."}
  Deck = {"T", "S"}
  Datum = {cr, lf, nul}
  CR = cr
  LF = lf
  NUL = nul
  Null = null
  SizeCap = 1
  MaxDirno = 3
SPECIFICATION ListSpec
PROPERTY SeekReachesRequest
