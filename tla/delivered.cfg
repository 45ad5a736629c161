SPECIFICATION SolverSpec
CONSTANTS
  band = band
  MaxWorkers = 2
  NumCols = 2
  Constraints = {band}
  Equality = {}
  EpsActivate = 2
  EpsDeactivate = 1
  LambdaStep = 1
  MaxLambda = 3
  LambdaSmall = 1
  Layouts <- TwoByTwo
  Glasses <- TwoByTwo
  Free = Free
  Landscapes <- OneLandscape
  Merit <- PlainMerit
  Drift <- NoDrift
  Violation <- BandOnLayout
  MaxIter = 3
  LineProbes = 1
  StallAfter = 1
  StallTail = 1
  NoImproveLimit = 2
  StallWindow = 1
  MuMax = 2
  MuGrowth = 2
INVARIANT DeliveredMerit
CHECK_DEADLOCK FALSE
