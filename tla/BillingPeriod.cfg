CONSTANTS
  Bill = b1
  Keys = {k1, k2, k3}
  Overflows <- AllTogether
  Periods <- ShortPeriods
  MaxAttempts <- ThreeTries
  Forgetful = {"activate", "total", "close"}
  MaxFaults = 3
  MaxCloses = 1
  Horizon = 4
  NoTotal = NoTotal
  NoAct = NoAct
SPECIFICATION FairSpec
CHECK_DEADLOCK FALSE
INVARIANTS TypeOK OnTime UnwatchedTakesNoItems GivesUpOnlyAfterFaults
PROPERTIES EventuallyClosed ItemsAreTotalled WorkflowEnds
