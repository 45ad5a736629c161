SPECIFICATION Spec
CONSTANTS
  a = a
  b = b
  h = h
  g = g
  c = c
  e = e
  None = None
  NoMerit = NoMerit
  Workers = {w1, w2}
  Designs <- Three
  Dist <- Line
  Dt = 3
  FpDist <- Prints
  DtFp = 5
  Merits <- MCMerits
  MaxCycles = 2
  MaxFail = 2
  Merit <- FromB
  TooLarge = 7
  Verdict <- MCVerdict
  Settle <- MCSettle
  GlassPhase = TRUE
  CleanDLS = TRUE
  HullRescue = TRUE
  TimeLimited = TRUE
  Guarded = TRUE
  MidDLS = FALSE
INVARIANTS
  TypeOK
  PatienceKept
  BestWorkKept
  BumpsAccountForWork
  OneCopyPerWorker
PROPERTIES
  StoreOnlyImproves
  ImplementsRegister
CHECK_DEADLOCK FALSE
SYMMETRY Symmetry
