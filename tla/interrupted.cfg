SPECIFICATION Spec
CONSTANTS
  a = a
  b = b
  h = h
  g = g
  c = c
  e = e
  None = None
  NoMerit = NoMerit
  Workers = {w1}
  Designs <- Basins
  Dist <- Line
  Dt = 3
  FpDist <- Prints
  DtFp = 0
  Merits <- MCMerits
  MaxCycles = 2
  MaxFail = 2
  Merit <- MCMerit
  TooLarge = 7
  Verdict <- MCVerdict
  Settle <- MCSettle
  GlassPhase = TRUE
  CleanDLS = TRUE
  HullRescue = TRUE
  TimeLimited = FALSE
  Guarded = FALSE
  MidDLS = FALSE
PROPERTY
  BestSolutionKept
CHECK_DEADLOCK FALSE
