SPECIFICATION PhaseSpec
CONSTANTS
  band = band
  MaxWorkers = 2
  NumCols = 2
  Constraints = {band}
  Equality = {}
  EpsActivate = 2
  EpsDeactivate = 1
  LambdaStep = 1
  MaxLambda = 3
  LambdaSmall = 1
  Layouts <- TwoByTwo
  Glasses <- TwoByTwo
  Free = Free
  Landscapes <- AllLandscapes
  Merit <- Merits
  Drift <- PlainTurnsLate
  Violation <- BandOnLayout
  MaxIter = 3
  LineProbes = 1
  StallAfter = 1
  StallTail = 1
  NoImproveLimit = 2
  StallWindow = 1
  MuMax = 2
  MuGrowth = 2
  Spots <- Points
  Settings <- AllLandscapes
  SpotMerit <- Merits
  SpotPenalty <- PenaltyOnLayout
  Turns <- PlainTurnsLate
  SwarmSize = 2
  PsoIterations = 3
  SwarmWindow = 1
  Bumped <- JustBumped
  Colour <- JustColour
  Plain <- JustPlain
  Unbumped <- NoBumps
  Settled <- LayoutGivesWay
  Insane = 15
  Start <- StartPoint
  Configs <- SomeConfigs
INVARIANTS
  SolverTypeOK
  JacobianComplete
  KnownCarriesBest
  DeliveredNotWorse
  PinnedStays
  ConvergedAtFeasible
  SwarmKeepsBest
  SwarmNotWorse
  CleanIsFree
  CycleKeepsTheGain
PROPERTIES
  TrialsKeepMultipliers
  CycleEnds
CHECK_DEADLOCK FALSE
