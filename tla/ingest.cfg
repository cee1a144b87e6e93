SPECIFICATION MCSpec
CONSTANTS
  Keys = {d1, d2}
  Vals <- DocRecords
  ChunkLists = {c1}
  NoChunks = NoChunks
  None = None
  End = End
  Hole = Hole
  Persisters = {p1}
  Inodes = {i1, i2}
  NoInode = NoInode
  PowerLoss = TRUE
  Down = Down
  Callers = {w1, w2}
  FailDoc = d2
INVARIANTS
  OneRunPerDoc
  FileIsSettled
  KilledRunsResume
SYMMETRY MCSymmetry
