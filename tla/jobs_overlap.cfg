SPECIFICATION Spec
CONSTANTS
  a1 = a1
  a2 = a2
  b1 = b1
  A = A
  B = B
  Jobs = {a1}
  Slugs = {A, B}
  SlugOf <- SlugOfRow
  Registries <- MayLoseA
  MaxAttempts <- TwoEach
  Concurrency <- OneEach
  Scheduled = {A}
  SkipIfRunning = {A}
  MaxConcurrent = 2
  PurgeAge = 0
  Pollers = {p1, p2}
  None = None
  Faults = TRUE
  Panics = TRUE
  Crashes = TRUE
  MaxClock = 0
INVARIANTS
  RunsOwnRows
  EffectsOnce
PROPERTY RefinesLifecycle
CHECK_DEADLOCK FALSE
