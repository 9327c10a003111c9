SPECIFICATION Spec
CONSTANTS
  Workers = {w1, w2}
  Operations = {"create", "accept", "reject", "cancel", "list", "add", "edit", "delete", "regenerate", "generate"}
  Teachers = {t1, t2}
  MaxSessions = 2
  MaxRequests = 2
  NumDays = 1
  PerDay = 2
  Length = 2
  None = None
SYMMETRY HandoverSymmetry
INVARIANTS CoveredOnce
PROPERTIES DecisionStands HandoverPinsSession
CHECK_DEADLOCK FALSE
