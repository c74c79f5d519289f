CONSTANTS
  NoThread = NoThread
  Thread = {t1}
  Key = {k1, k2}
  Value = {v1}
  MaxSets = 2
SPECIFICATION Spec
INVARIANT SetPersists
