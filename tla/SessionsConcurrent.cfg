SPECIFICATION Spec
CONSTANTS
  None = None
  u1 = u1
  u2 = u2
  Users = {u1, u2}
  Requests = {q1}
  Requester <- MCRequester
  Recipient <- MCRecipient
  SessionIds = {s1, s2}
  Events = {e1}
  Schedules = {t1, t2}
  Handlers = {h1, h2}
  Faults = TRUE
SYMMETRY MCSymmetry
INVARIANTS
  SessionsInv
  OneSessionPerRequest
  RemindersFollow
PROPERTIES
  KeepsSessionLife
\* A request may be answered with no, and a session may be over.
CHECK_DEADLOCK FALSE
