SPECIFICATION FairSpec
CONSTANTS
  a1 = a1
  a2 = a2
  b1 = b1
  A = A
  B = B
  Jobs = {a1, b1}
  Slugs = {A, B}
  SlugOf <- SlugOfRow
  Registries <- AllDefined
  MaxAttempts <- TwoEach
  Concurrency <- TwoEach
  Scheduled = {}
  SkipIfRunning = {}
  MaxConcurrent = 1
  PurgeAge = 0
  Pollers = {p1}
  None = None
  Faults = FALSE
  Panics = FALSE
  Crashes = FALSE
  MaxClock = 0
PROPERTY PendingResolved
CHECK_DEADLOCK FALSE
