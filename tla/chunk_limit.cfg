SPECIFICATION CutSpec
CONSTANT CutInputs <- Ideographs
INVARIANT EveryChunkWithinLimit
