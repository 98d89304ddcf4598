CONSTANTS
  Requests = {r1, r2, r3}
  items1 = items1
  items2 = items2
  close1 = close1
  Paths = {items1, items2, close1}
  Inserting = {items1, items2}
  Table <- OneTable
  Keys = {k1, k2}
  Bodies = {x, y}
  Mishaps = 3
  Nothing = Nothing
SPECIFICATION Spec
CHECK_DEADLOCK FALSE
SYMMETRY Alike
INVARIANTS TypeOK SameAnswer AnswersOwnBody RefusedRightly MishapsBlock Replayable
