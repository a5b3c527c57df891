\* One request after the other; clients round updated_at or leave it out, calls fail.
SPECIFICATION FairSpec
CONSTANTS
  d1 = d1
  d2 = d2
  n1 = n1
  n2 = n2
  Device = {d1, d2}
  Item = {n1, n2}
  Creator <- TwoAuthors
  Overlap = FALSE
  Api = {"20190520"}
  Limits = {0}
  Steps = {2}
  Losses = {0, 1}
  ConflictInterval = 2
  ConflictInterval16 = 2
  OmitUpdatedAt = TRUE
  Faulty = TRUE
  MaxClock = 8
PROPERTIES RegisterSpec Converges
