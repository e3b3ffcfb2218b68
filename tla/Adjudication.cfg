SPECIFICATION Spec
CONSTANTS
  i1 = i1
  i2 = i2
  i3 = i3
  c1 = c1
  c2 = c2
  w1 = w1
  w2 = w2
  Seats <- MCSeats
  Claims = {c1, c2}
  Overlaps <- MCOverlaps
  Ids = {i1, i2, i3}
  Reasons = {w1, w2}
  MaxRounds = 3
  MaxReports = 2
SYMMETRY Symmetry
INVARIANTS NothingLost SettledByRight IndependentAdjudicator NoRebuttalTwice
PROPERTY SettledStays
CHECK_DEADLOCK FALSE
