SPECIFICATION ProgramsSpec
CONSTANTS
  NUM_THREADS = 5
  Limit = 6
  Base = 4
  Second = 5
  MaxLate = 3
  Registers = "edx:eax"
INVARIANT EachGreetsAsItself
PROPERTIES AllGreet EndsMeasured
