\* Two callbacks and two notes, with failures, restarts and an expiring session.
SPECIFICATION FairSpec
CONSTANTS
  n1 = n1
  n2 = n2
  c1 = c1
  c2 = c2
  Note = {n1, n2}
  Callback = {c1, c2}
  Faulty = TRUE
  MaxTyped = 2
INVARIANTS TypeOK NothingForgotten ConflictsExplained
PROPERTIES NeverOlder Synchronized
CHECK_DEADLOCK FALSE
