SPECIFICATION Spec
CONSTANTS
  None = None
  Payers = {p1}
  PayIds = {a1, a2}
  RefundIds = {r1, r2}
  Amounts = {1, 2}
  Handlers = {h1, h2}
  ProviderIdsStored = TRUE
  RefundNamesPayment = FALSE
SYMMETRY MCSymmetry
INVARIANTS
  SettledHasReceipt
  OneReceiptFirst
  ReceiptIsCapture
  ChargedPriceRecorded
  RefundsCounted
  RefundsWrittenAhead
  PaymentsInv
PROPERTIES
  LedgerOnlyGrows
  KeepsPromise
\* A session can be over with every request answered and no webhook left to send.
CHECK_DEADLOCK FALSE
