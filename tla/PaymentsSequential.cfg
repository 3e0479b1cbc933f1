SPECIFICATION Spec
CONSTANTS
  None = None
  Payers = {p1, p2}
  PayIds = {a1, a2, a3}
  RefundIds = {r1, r2}
  Amounts = {1, 2}
  Handlers = {h1}
  ProviderIdsStored = TRUE
  RefundNamesPayment = FALSE
SYMMETRY MCSymmetry
INVARIANTS
  TermsFrozen
  ReceiptMeansSettled
  OnePendingRefund
  RefundedInFull
  LedgerReconciles
PROPERTIES
  CompletedRowsFixed
\* A session can be over with every request answered and no webhook left to send.
CHECK_DEADLOCK FALSE
