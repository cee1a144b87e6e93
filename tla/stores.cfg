SPECIFICATION StoresSpec
CONSTANTS
  a = a
  b = b
  c = c
  x = x
  y = y
  Ids <- MCIds
  NoId = NoId
  Rank <- MCRank
  Attrs = {x, y}
  Bare = Bare
  Entities <- MCEntities
  Relations <- MCRelations
  None = None
  Down = Down
  RecordIds = {a, b}
  NoRecordId = NoId
  Vecs <- MCVecs
  Before <- MCRank
  MaxBatch = 2
  Missing = None
  IndexDown = Down
  Docs = {"d", "e"}
  Texts <- MCTexts
  ChunkSize = 2
  TopK = 2
  MaxInserts = 3
  Absent = None
INVARIANTS
  MapsAgree
  FilesAreGraphs
  SnapshotIsEnough
  IndexAgrees
  OneDimension
  QueryAnswersMap
  InsertRepairs
  QuietQueryShowsItsHits
PROPERTIES
  ImplementsDurableMap
  IndexImplementsDurableMap
