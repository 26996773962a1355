SPECIFICATION Spec
CONSTANTS
  Docs = {d1}
  Files = {f1, f2}
  Requests = {r1, r2}
  Ticks = {t1, t2}
  BatchSize = 2
  None = None
  Drafts = FALSE
  Faults = FALSE
  Crashes = TRUE
SYMMETRY Symmetry
INVARIANTS
  MainServed
  ProcessingOwned
  CurrentConverts
CHECK_DEADLOCK FALSE
