\* A poll after a refund sells the refunded seat to the same buyer again.
SPECIFICATION Spec
CONSTANTS
  Bookings = {b1}
  Invoices = {i1}
  Leads = {r1}
  Workers = {w1}
  Mixes <- RefundMixes
  Providers = {"qpay"}
  Capacity = 1
  MaxUses = 0
  None = None
PROPERTIES
  RefundedBookingStaysClosed
