\* Requests overlap.
SPECIFICATION Spec
CONSTANTS
  d1 = d1
  d2 = d2
  s1 = s1
  s2 = s2
  Device = {d1, d2}
  Slot = {s1, s2}
  AccessLife = 1
  RefreshLife = 2
  Overlap = TRUE
  Parallel = FALSE
  Lossy = FALSE
  Faulty = FALSE
  Jwt = FALSE
  MaxSessions = 2
  MaxSignIns = 2
  MaxToken = 3
  MaxClock = 1
SYMMETRY Symmetric
INVARIANTS TerminatedStays
CHECK_DEADLOCK FALSE
