CONSTANTS
  Bill = b1
  Keys = {k1}
  Overflows = {}
  Periods <- OnePeriod
  MaxAttempts <- ThreeTries
  Forgetful = {"activate", "total", "close"}
  MaxFaults = 1
  MaxCloses = 0
  Horizon = 3
  NoTotal = NoTotal
  NoAct = NoAct
SPECIFICATION Spec
CHECK_DEADLOCK FALSE
INVARIANTS ActiveIsWatched
