SPECIFICATION Spec
CONSTANTS
  None = None
  u1 = u1
  u2 = u2
  u3 = u3
  Users <- MCUsers
  Sessions = {s1, s2}
  Parties <- MCParties
  Badges = {b1, b2}
  Ids = {i1, i2}
  Handlers = {h1, h2}
SYMMETRY MCSymmetry
INVARIANTS
  FeedbackInv
  OnePerKey
  FeedbackIsEarned
  AnnouncedIsRow
  LoserFindsBadge
  ReputationIsBacked
\* Every id may have been used.
CHECK_DEADLOCK FALSE
