SPECIFICATION Spec
CONSTANTS
  Base = 4
  Second = 5
  MaxLate = 3
  Registers = "rax"
INVARIANT MeasuresCycles
