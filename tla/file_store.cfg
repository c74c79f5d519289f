CONSTANTS
  NoThread = NoThread
  Thread = {t1, t2, t3}
  Key = {k1, k2}
  Value = {v1, v2}
  MaxSets = 2
SPECIFICATION FairSpec
INVARIANTS
  TypeOK
  AllOrNothing
  FileAgrees
  SeenTogether
PROPERTY CallsReturn
