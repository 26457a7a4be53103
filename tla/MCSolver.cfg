SPECIFICATION FairSpec
CONSTANTS
  Half = 7
  Degree = 3
  SearchRange = 10
  Errors = {0, 1, 2}
  Limit = 2
  NaN = NaN
INVARIANTS TypeOK LeastErrorWins FacesGimbal
PROPERTY EverySolveReturns
