SPECIFICATION QuerySpec
CONSTANTS
  Chunks = {"c1", "c2"}
  Ents = {"e1", "e2"}
  Rels <- MCRels
  Lists <- MCLists
  Slices <- MCSlices
  Size <- MCSize
  Line = 2
  Header = 1
  Params <- MCParams
INVARIANT CitesWhatItShowed
