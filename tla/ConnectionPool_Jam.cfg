CONSTANTS
  Calls = {c1, c2, c3}
  Bills = {b1, b2}
  PoolSize = 2
  NoCall = NoCall
SPECIFICATION FairSpec
CHECK_DEADLOCK FALSE
PROPERTIES CallsReturn
