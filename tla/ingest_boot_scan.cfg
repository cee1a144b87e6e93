SPECIFICATION Spec
CONSTANTS
  Keys = {d1}
  Vals <- DocRecords
  ChunkLists = {c1}
  NoChunks = NoChunks
  None = None
  End = End
  Hole = Hole
  Persisters = {p1}
  Inodes = {i1, i2}
  NoInode = NoInode
  PowerLoss = FALSE
  Down = Down
INVARIANT BootScanFindsAll
