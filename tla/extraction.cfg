SPECIFICATION FairSpec
CONSTANTS
  k1 = k1
  k2 = k2
  text = text
  m = m
  n = n
  r = r
  Callers = {g1, g2}
  Chunks <- MCChunks
  Contents = {text}
  ContentOf <- MCContentOf
  Answers <- MCAnswers
  Blank = Blank
  None = None
  MaxGleaningRounds = 2
INVARIANT CachedIsNotAskedAgain
PROPERTIES
  HitIsFromTheFill
  NothingHeardIsLost
  ExtractReturns
