SPECIFICATION Spec
CONSTANTS
  Keys = {d1, d2}
  Vals <- DocRecords
  ChunkLists = {c1}
  NoChunks = NoChunks
  None = None
  End = End
  Hole = Hole
  Persisters = {p1}
  Inodes = {i1, i2, i3}
  NoInode = NoInode
  PowerLoss = TRUE
  Down = Down
INVARIANT FileNeverHalfWritten
SYMMETRY InodeSymmetry
CHECK_DEADLOCK FALSE
