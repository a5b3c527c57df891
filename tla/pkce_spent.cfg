\* Three requests at a time, over the life of the challenges.
SPECIFICATION Spec
CONSTANTS
  c1 = c1
  c2 = c2
  h1 = h1
  h2 = h2
  h3 = h3
  Challenge = {c1, c2}
  Handler = {h1, h2, h3}
  Lifetime = 2
  Faulty = TRUE
  MaxClock = 3
  MaxStores = 2
INVARIANTS TypeOK SpentOnce
PROPERTIES AcceptedUnexpired UnspentStays
SYMMETRY Symmetric
