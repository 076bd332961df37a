SPECIFICATION Spec
CONSTANTS
  n1 = n1
  n2 = n2
  n3 = n3
  n4 = n4
  h1 = h1
  h2 = h2
  NULL = NULL
  POISON1 = POISON1
  POISON2 = POISON2
  Unhashed = Unhashed
  NoList = NoList
  Nodes <- MCNodes
  Heads <- MCHeads
INVARIANTS TypeOK PprevLeadsHere TestsAreRight
PROPERTIES NodesGoWhereTold
