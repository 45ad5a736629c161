SPECIFICATION FairSpec
CONSTANTS
  N = 3
  MinWorkers = 1
  Need <- TwoReasons
  Cooldown = 2
  Fallback = 1
  OrigLimit = 180
  Heaps <- TwoHeaps
  Ceiling = 230
  Merits = {0, 1}
  MaxRecorded = 1
  Never = Never
  None = None
INVARIANTS
  TypeOK
  FloorKept
  LimitOnTheBooks
PROPERTIES
  PressureRelieved
  LimitRestored
CHECK_DEADLOCK FALSE
