CONSTANTS
  o1 = o1
  o2 = o2
  o3 = o3
  n1 = n1
  n2 = n2
  b1 = b1
  Ops = {o1, o2, o3}
  Bills = {b1, b2}
  Keys = {k1}
  Instances = {n1}
  Instance <- AllOnFirst
  Overlap = TRUE
  NoOp = NoOp
  NoKey = NoKey
  NoCall = NoCall
  NoTotal = NoTotal
  NoRow = NoRow
SPECIFICATION ThreeSpec
CHECK_DEADLOCK FALSE
INVARIANTS OneItemPerKey LossNeedsCrossing
PROPERTIES CallsReturn
