SPECIFICATION Spec
CONSTANTS
  Tasks = {t1, t2}
  Regular = {t1}
  MaxTaken = 3
INVARIANTS NobodyInFrozen
PROPERTIES FreezeEnds
