\* Two buyers, two seats, a collision, late payments: money that arrives becomes a sale.
SPECIFICATION FairSpec
CONSTANTS
  Bookings = {b1, b2}
  Invoices = {i1, i2}
  Leads = {r1}
  Workers = {w1, w2}
  Mixes <- LiveMixes
  Providers = {"qpay"}
  Capacity = 2
  MaxUses = 0
  None = None
PROPERTIES
  PaidCheckoutIsSold
