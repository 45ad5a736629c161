SPECIFICATION Spec
CONSTANTS
  d = d
  None = None
  Designs <- OneDesign
  Dist <- NoDistance
  Dt = 1
  FpDist <- NoDistance
  DtFp = 0
  Merits <- ThreeMerits
  KeepInfeasible = FALSE
  MaxPoints = 3
INVARIANTS
  TypeOK
  DocumentIsTheStore
  CutDocumentIsReadable
  NewestIsCurrent
PROPERTIES
  NothingSavedIsLost
  ImplementsRegister
CHECK_DEADLOCK FALSE
