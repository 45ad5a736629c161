SPECIFICATION GuardedFairSpec
CONSTANTS
  a = a
  h = h
  None = None
  NoMerit = NoMerit
  Never = Never
  N = 2
  Workers = {0, 1}
  Designs <- Two
  Dist <- Near
  Dt = 3
  FpDist <- Same
  DtFp = 0
  Merits <- MCMerits
  MaxCycles = 1
  MaxFail = 1
  Merit <- MCMerit
  TooLarge = 7
  Verdict <- MCVerdict
  Settle <- MCSettle
  GlassPhase = TRUE
  CleanDLS = FALSE
  HullRescue = TRUE
  TimeLimited = TRUE
  Guarded = TRUE
  MidDLS = FALSE
  MinWorkers = 1
  Need <- OneReason
  Cooldown = 1
  Fallback = 0
  OrigLimit = 100
  Heaps <- FullHeap
  Ceiling = 300
INVARIANTS
  TimedOutOnlyByBudget
  FloorWorksToTheEnd
PROPERTIES
  ImplementsSearch
  ImplementsGuard
  SearchReports
CHECK_DEADLOCK FALSE
