\* Overlapping issues, refunds, returns and replays of one payment's receipts; and
\* the same one request at a time, any of them dying half way.
SPECIFICATION Spec
CONSTANTS
  Workers = {w1, w2}
  Mixes <- ReceiptsMixes
  Amount = 3
  Totals = {1, 3}
  MaxRows = 4
  MaxFiled = 4
  None = None
SYMMETRY ThreadSymmetry
INVARIANTS ValidReceiptIsKnown OneValidReceipt RefundCanBeRetried KeptIsReceipted
PROPERTIES RefundTakesReceiptBack
