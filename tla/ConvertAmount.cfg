CONSTANTS
  USD = USD
  GEL = GEL
  JPY = JPY
  TINY = TINY
  NIL = NIL
  OLD = OLD
  Currencies = {USD, GEL, JPY, TINY, NIL, OLD}
  Enabled = {USD, GEL, JPY, TINY, NIL}
  Rate <- Table
  Precision = 100
  Unit = 268968
  MaxInt = 255
  Amounts = {1, 7, 60, 99, 240}
  MaxItems = 3
SPECIFICATION Spec
CHECK_DEADLOCK FALSE
INVARIANTS TypeOK NearExact WholeIsExact TotalNearExact
