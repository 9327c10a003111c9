SPECIFICATION Spec
CONSTANTS
  Workers = {w1, w2}
  Mixes <- RosterMixes
  Cohorts = {c1, c2}
  Students = {s1, s2}
  Opened = {c1}
  Capacity = 1
  Capacities = {0, 1, None}
  Resources = {teacher}
  Hours = {h1, h2}
  MaxPrice = 2
  MaxPaid = 1
  MaxFiles = 2
  None = None
SYMMETRY RosterSymmetry
INVARIANTS SignedHasDocument NotDoubleBooked
PROPERTIES NobodyBeyondCapacity SignedStays PriceStaysFrozen
CHECK_DEADLOCK FALSE
