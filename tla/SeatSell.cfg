\* Two requests over one seat: held, lapsed, resold, paid late, refunded, swept; any may die.
\* And every operation, two gateways and a promotion, one request at a time.
SPECIFICATION Spec
CONSTANTS
  Bookings = {b1, b2, b3}
  Invoices = {i1, i2}
  Leads = {r1}
  Workers = {w1, w2}
  Mixes <- SellMixes
  Providers = {"qpay", "storepay"}
  Capacity = 1
  MaxUses = 1
  None = None
SYMMETRY RowSymmetry
INVARIANTS
  OneClaimPerSeat SoldForMoney PaidLeadHasSale OneOpenInvoice
PROPERTIES
  PromotionCountedAtSale KeepsPromise
