SPECIFICATION Spec
CONSTANTS
  m1 = m1
  m2 = m2
  m3 = m3
  Models = {m1, m2, m3}
  Cap <- MCCap
  Provider <- MCProvider
  Family <- MCFamily
  IndependentOf <- MCIndependentOf
  Distinct = TRUE
  Dispatchers = {"wave", "other"}
  Seats = 2
  MaxFallbacks = 1
  MaxExternal = 1
  MaxLeases = 5
INVARIANTS WithinCap Counted NothingLeaked
CHECK_DEADLOCK FALSE
