CONSTANTS
  Bill = b1
  Keys = {k1}
  Overflows = {}
  Periods <- OnePeriod
  MaxAttempts <- ThreeTries
  Forgetful = {}
  MaxFaults = 0
  MaxCloses = 0
  Horizon = 4
  NoTotal = NoTotal
  NoAct = NoAct
SPECIFICATION Spec
CHECK_DEADLOCK FALSE
PROPERTIES ItemsWithinPeriod
