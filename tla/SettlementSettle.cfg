\* Overlapping settlements, refunds and invoices of one enrollment: two threads.
SPECIFICATION Spec
CONSTANTS
  Invoices = {i1, i2}
  GolomtInvoices = {i1, i2}
  Credits = {c1, c2}
  Workers = {w1, w2}
  Mixes <- SettleMixes
  MaxInstallments = 2
  InstallmentCount = 1
  Price = 2
  MaxAmount = 3
  MaxAlone = 1
  None = None
SYMMETRY RowSymmetry
INVARIANTS
  RecordedIsCollected PaidInvoiceCovered FullPaymentSettles
  LedgerHonest LedgerFollows CircleNeedsDelete
PROPERTIES
  PaidStaysPaid
