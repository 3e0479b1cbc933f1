SPECIFICATION ReportsSpec
CONSTANTS
  None = None
  Handlers = {h1}
  Users = {u1}
  Skills = {s1}
  People = {a1, a2}
  EventIds = {b1}
INVARIANT ContainedFailures
CHECK_DEADLOCK FALSE
