SPECIFICATION InodeSpec
CONSTANTS
  Readers = {r}
  Writers = {w}
  Setters = {s1, s2}
  Nobody = nobody
  SizeReaders = {r}
  SizeWriters = {w1, w2}
  Base = 2
  MaxWrites = 3
  Submitters = {d1, d2, d3}
  Changers = {c1, c2}
INVARIANTS NoLeaseUnnoticed SizeIsOne DrainedIsQuiet
PROPERTIES ReadsEnd DrainEnds
