SPECIFICATION FairSpec
CONSTANTS
  None = None
  Payers = {p1}
  PayIds = {a1}
  RefundIds = {r1, r2}
  Amounts = {1, 2}
  Handlers = {h1}
  ProviderIdsStored = FALSE
  RefundNamesPayment = FALSE
PROPERTIES
  AuthorizedSettles
\* A session can be over with every request answered and no webhook left to send.
CHECK_DEADLOCK FALSE
