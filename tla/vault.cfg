\* Two items keys and two notes, over an upgrade and changes of the password.
SPECIFICATION Spec
CONSTANTS
  k1 = k1
  k2 = k2
  n1 = n1
  n2 = n2
  KeyId = {k1, k2}
  NoteId = {n1, n2}
  NoId = none
  Protocol = {"003", "004"}
  Cost = {3000, 110000}
  MaxDrawn = 7
SYMMETRY Symmetric
INVARIANTS TypeOK Readable SealsWhatItOpens StartsWhenCurrent OldBackupReadable
PROPERTIES SchemeStays FormatKept
CHECK_DEADLOCK FALSE
