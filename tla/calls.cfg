SPECIFICATION CallsSpec
CONSTANTS
  a = a
  b = b
  c = c
  d = d
  Ids <- MCIds
  Rank <- MCRank
  MaxTexts = 3
  MaxBatch = 2
  MaxBudget = 2
  MaxDepth = 3
  MaxNodes = 4
  CutInputs <- MCCutInputs
  Inputs <- MCInputs
  NoKeywords = ""
  Limits <- MCLimits
  AnswerSizes = {0, 2}
  Chunks = {"c1", "c2", "c3"}
  Ents = {"e1", "e2", "e3"}
  Rels <- MCRels
  Lists <- MCLists
  Slices <- MCSlices
  MaxWrites = 1
  Size <- MCSize
  Line = 2
  Header = 1
  Params <- MCParams
INVARIANTS
  VisitedOnceAndConnected
  NearestWithinBudget
  DegreeDecides
  VectorsAlignWithTexts
  RetriesByTheRule
  StretchesStayWhole
  NoNeedlessChunk
  EveryDescriptionOnce
  EveryLevelMakesProgress
  ReferencesByRank
  ChunksFollowRecords
  OnlyTheFirstOverruns
PROPERTIES
  Terminates
  CallReturns
