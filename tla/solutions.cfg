SPECIFICATION Spec
CONSTANTS
  a = a
  b = b
  h = h
  g = g
  c = c
  e = e
  None = None
  NoMerit = NoMerit
  Workers = {w1}
  Designs <- OutsideHull
  Dist <- Line
  Dt = 3
  FpDist <- Prints
  DtFp = 0
  Merits <- MCMerits
  MaxCycles = 2
  MaxFail = 2
  Merit <- MCMerit
  TooLarge = 7
  Verdict <- MCVerdict
  Settle <- MCSettle
  GlassPhase = FALSE
  CleanDLS = TRUE
  HullRescue = TRUE
  TimeLimited = FALSE
  Guarded = FALSE
  MidDLS = FALSE
INVARIANT
  SolutionsPassValidation
CHECK_DEADLOCK FALSE
