\* The serial environment; responses are lost, and clients have a JWT too.
SPECIFICATION AnySpec
CONSTANTS
  d1 = d1
  d2 = d2
  s1 = s1
  s2 = s2
  Device = {d1, d2}
  Slot = {s1, s2}
  AccessLife = 0
  RefreshLife = 1
  Overlap = FALSE
  Parallel = FALSE
  Lossy = TRUE
  Faulty = FALSE
  Jwt = TRUE
  MaxSessions = 2
  MaxSignIns = 2
  MaxToken = 3
  MaxClock = 2
SYMMETRY Symmetric
INVARIANTS TypeOK EndedForGood HolderAccepted
PROPERTIES SomeoneStays RetiredTokensDead RegistrySpec
CHECK_DEADLOCK FALSE
