SPECIFICATION AccessSpec
CONSTANTS
  Users = {u1, u2, u3}
SYMMETRY Interchangeable
INVARIANTS CountsOneSide
PROPERTIES ImplementsSides
