\* The serial environment: both protocol versions, pages, rounded and missing
\* updated_at; calls fail and the server crashes.
SPECIFICATION AnySpec
CONSTANTS
  d1 = d1
  d2 = d2
  n1 = n1
  n2 = n2
  Device = {d1, d2}
  Item = {n1, n2}
  Creator <- OneAuthor
  Overlap = FALSE
  Api = {"20161215", "20190520"}
  Limits = {0, 1}
  Steps = {2, 4}
  Losses = {0, 1}
  ConflictInterval = 2
  ConflictInterval16 = 2
  OmitUpdatedAt = TRUE
  Faulty = TRUE
  MaxClock = 6
INVARIANTS TypeOK MissedOnlyInGaps HashMissesOnlyGaps TokenCoversResponse NoSpuriousConflict
SYMMETRY Symmetric
PROPERTIES OverwrittenUnseen RegisterUntilLost
