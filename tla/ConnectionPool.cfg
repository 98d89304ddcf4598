CONSTANTS
  Calls = {c1, c2, c3}
  Bills = {b1, b2}
  PoolSize = 3
  NoCall = NoCall
SPECIFICATION FairSpec
CHECK_DEADLOCK FALSE
INVARIANTS TypeOK 
 
