SPECIFICATION MCSpec
CONSTANTS
  None = None
  Handlers = {h1, h2}
  Users = {a1, a2}
  Requests = {b1, b2, q3}
  Tokens = {b1, b2}
  Browsers = {n1, n2}
  Emails = {m1}
  Flows = {a1, a2}
  Rows = {a1, a2}
  Skills = {b1, b2}
  Times = {0, 1}
  Owners = {a1}
  Profiles = {b1, b2}
  Texts = {t1}
  People = {a1, a2}
  EventIds = {b1, b2}
  Members = {1, 2, 3}
  Topics = {b1, b2}
  Slots = {b1, b2}
  MaxRows = 2
  PageLimit = 1
SYMMETRY Ids
INVARIANTS
  OneActivePerSubject
  AnnouncedIsRow
  AccountsAgree
  NothingServedLate
  DisconnectedStaysGone
  GrowthAgrees
  OutboxAgrees
  MatchesAgree
  PageAgrees
PROPERTIES
  KeepsLife
  ToldWhatWasSo
CHECK_DEADLOCK FALSE
