\* A receipt that was returned while temporary, replayed to the live PosAPI.
SPECIFICATION Spec
CONSTANTS
  Workers = {w1}
  Mixes <- ReplayMixes
  Amount = 2
  Totals = {}
  MaxRows = 3
  MaxFiled = 3
  None = None
INVARIANTS
  NeverTwoValid
