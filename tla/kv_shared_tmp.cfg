SPECIFICATION Spec
CONSTANTS
  Keys = {k1, k2}
  Vals = {v1}
  None = None
  End = End
  Hole = Hole
  Persisters = {p1, p2}
  Inodes = {i1, i2, i3}
  NoInode = NoInode
  PowerLoss = FALSE
  Writers = {w1}
  Down = Down
  MaxLog = 3
INVARIANT CanonicalComplete
SYMMETRY InodeSymmetry
CHECK_DEADLOCK FALSE
