CONSTANTS
  o1 = o1
  o2 = o2
  o3 = o3
  n1 = n1
  n2 = n2
  b1 = b1
  Ops = {o1, o2}
  Bills = {b1}
  Keys = {k1}
  Instances = {o1, o2}
  Instance <- OneEach
  Overlap = FALSE
  NoOp = NoOp
  NoKey = NoKey
  NoCall = NoCall
  NoTotal = NoTotal
  NoRow = NoRow
SPECIFICATION Spec
CHECK_DEADLOCK FALSE
SYMMETRY AllCalls
INVARIANTS FailedCloseIsFlagged
