SPECIFICATION Spec
CONSTANTS
  a1 = a1
  a2 = a2
  b1 = b1
  A = A
  B = B
  Jobs = {a1, a2}
  Slugs = {A, B}
  SlugOf <- SlugOfRow
  Registries <- AllDefined
  MaxAttempts <- TwoEach
  Concurrency <- OneEach
  Scheduled = {}
  SkipIfRunning = {}
  MaxConcurrent = 2
  PurgeAge = 0
  Pollers = {p1}
  None = None
  Faults = FALSE
  Panics = FALSE
  Crashes = TRUE
  MaxClock = 1
INVARIANTS
  WithinAttempts
  WithinConcurrency
  NoneStranded
CHECK_DEADLOCK FALSE
