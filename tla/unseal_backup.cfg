\* An account of 004.
SPECIFICATION Spec
CONSTANTS
  k1 = k1
  k2 = k2
  n1 = n1
  n2 = n2
  KeyId = {k1}
  NoteId = {n1}
  NoId = none
  Protocol = {"004"}
  Cost = {110000}
  MaxDrawn = 6
INVARIANTS BackupReadable
