SPECIFICATION FairSpec
CONSTANTS
  Keys = {k1, k2}
  Vals = {v1}
  None = None
  End = End
  Hole = Hole
  Persisters = {p1}
  Inodes = {i1, i2}
  NoInode = NoInode
  PowerLoss = FALSE
  Writers = {w1, w2}
  Down = Down
  MaxLog = 3
INVARIANTS
  TypeOK
  CanonicalComplete
  PersistDurable
PROPERTIES
  RestartRecovers
  UpsertCompletes
  ImplementsDurableMap
