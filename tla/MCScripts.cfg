SPECIFICATION ScriptsSpec
CONSTANTS
  Points <- MCPoints
  Layouts = {"fio-3.7", "fio-3.13"}
  MaxStarts = 2
  Collectors <- MCCollectors
  LogSize = 3
  DumpLines = 2
  MaxArrived = 12
  Pages <- MCPages
  Images = {i1, i2}
INVARIANTS OneResultEach TableMatchesGrid SectionsHoldTheirDump EachMessageOnce
PROPERTY AtMostOneLost
