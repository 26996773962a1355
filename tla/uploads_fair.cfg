SPECIFICATION FairSpec
CONSTANTS
  Docs = {d1}
  Files = {f1, f2}
  Requests = {r1}
  Ticks = {t1}
  BatchSize = 2
  None = None
  Drafts = FALSE
  Faults = FALSE
  Crashes = FALSE
PROPERTY Settles
CHECK_DEADLOCK FALSE
