CONSTANTS
  Unix = {"a", "b", "long"}
  Sos = {"A", "B"}
  Utos <- MCUtos
  Stou <- MCStou
  Locked = {}
  Dot = {"."}
  Deck = {"T"}
  Datum = {cr, lf, nul}
  CR = cr
  LF = lf
  NUL = nul
  Null = null
  SizeCap = 1
  MaxDirno = 2
SPECIFICATION NamesSpec
INVARIANTS NeverFaults SeekInv
PROPERTY SeekReachesRequest
