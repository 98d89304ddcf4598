CONSTANTS
  Bills = {b1, b2, b3}
  Keys = {k1, k2}
  Reasons = {r1, r2}
  NoReason = NoReason
  NoTotal = NoTotal
  Stamps = {1, 2, 3}
  Limits = {0, 3}
  DefaultLimit = 1
  MaxLimit = 2
SPECIFICATION ReadSpec
SYMMETRY Alike
INVARIANTS ReadTypeOK ClosedTotalIsFinal ItemsNeedStart
  ReadTotalCovered ReadClosedIsExact PagesMissNothing
PROPERTIES ClosedIsTerminal TotalsGrow
CHECK_DEADLOCK FALSE
