\* Two devices and one item, requests overlapping.
SPECIFICATION Spec
CONSTANTS
  d1 = d1
  d2 = d2
  n1 = n1
  n2 = n2
  Device = {d1, d2}
  Item = {n1}
  Creator <- OneAuthor
  Overlap = TRUE
  Api = {"20190520"}
  Limits = {0}
  Steps = {2}
  Losses = {0}
  ConflictInterval = 1
  ConflictInterval16 = 2
  OmitUpdatedAt = FALSE
  Faulty = FALSE
  MaxClock = 6
INVARIANT NothingMissed
