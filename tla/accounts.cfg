\* The serial environment.
SPECIFICATION BothSpec
CONSTANTS
  e1 = e1
  e2 = e2
  p1 = p1
  p2 = p2
  s1 = s1
  s2 = s2
  Email = {e1, e2}
  Password = {p1, p2}
  Cost = {1}
  Slot = {s1, s2}
  Overlap = FALSE
  Faulty = FALSE
  MaxUsers = 2
  MaxJwts = 4
  MaxClock = 4
SYMMETRY Symmetric
INVARIANTS TypeOK EmailsUnique JwtOfCurrentPassword
PROPERTIES RevokedStaysRevoked
CHECK_DEADLOCK FALSE
