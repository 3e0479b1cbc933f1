SPECIFICATION GrowthSpec
CONSTANTS
  None = None
  Handlers = {h1, h2}
  Users = {u1}
  Rows = {a1, a2}
  Skills = {b1}
  Times = {0, 1}
INVARIANT SavedIsStored
CHECK_DEADLOCK FALSE
