\* Requests and money get through: two threads, fair scheduling.
SPECIFICATION FairSpec
CONSTANTS
  Invoices = {i1}
  GolomtInvoices = {}
  Credits = {}
  Workers = {w1, w2}
  Mixes <- LiveMixes
  MaxInstallments = 1
  InstallmentCount = 1
  Price = 2
  MaxAmount = 3
  MaxAlone = 1
  None = None
PROPERTIES
  MoneyReachesBooks
