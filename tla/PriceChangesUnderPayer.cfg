SPECIFICATION Spec
CONSTANTS
  None = None
  Payers = {p1}
  PayIds = {a1}
  RefundIds = {r1, r2}
  Amounts = {1, 2}
  Handlers = {h1, h2}
  ProviderIdsStored = TRUE
  RefundNamesPayment = FALSE
SYMMETRY MCSymmetry
INVARIANTS
  TermsFrozen
\* A session can be over with every request answered and no webhook left to send.
CHECK_DEADLOCK FALSE
