SPECIFICATION Spec
CONSTANTS
  Docs = {d1, d2}
  Files = {f1, f2}
  Requests = {r1, r2}
  Ticks = {t1}
  BatchSize = 2
  None = None
  Drafts = TRUE
  Faults = TRUE
  Crashes = FALSE
SYMMETRY Symmetry
PROPERTIES
  OnlyOwnFiles
CHECK_DEADLOCK FALSE
