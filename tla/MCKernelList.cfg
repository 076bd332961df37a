SPECIFICATION Spec
CONSTANTS
  e1 = e1
  e2 = e2
  e3 = e3
  h1 = h1
  h2 = h2
  NULL = NULL
  POISON1 = POISON1
  POISON2 = POISON2
  NoList = NoList
  Entries <- MCEntries
  Heads <- MCHeads
SYMMETRY Symmetry
INVARIANTS TypeOK WellLinked ReadersAgree
PROPERTY FunctionsKeepTheirWord
