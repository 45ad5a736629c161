SPECIFICATION JobsSpec
CONSTANTS
  NoRun = NoRun
  r1 = r1
  r2 = r2
  c1 = c1
  c2 = c2
  Runs <- TwoRuns
  Calls <- TwoCalls
  Content <- SameContent
  MaxJobs = 1
  ToolRuns = {}
  MaxSignals = 0
INVARIANT WithinCapacity
CHECK_DEADLOCK FALSE
