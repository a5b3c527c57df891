\* Two commands at a time, over the life of a session.
SPECIFICATION Spec
CONSTANTS
  p1 = p1
  p2 = p2
  Process = {p1, p2}
  AccessLife = 1
  RefreshLife = 2
  Margin = 1
  MaxSessions = 2
  MaxToken = 2
  MaxClock = 3
SYMMETRY Symmetric
INVARIANTS TypeOK FileUsable LogoutEnds
PROPERTY RegistrySpec
