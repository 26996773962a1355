SPECIFICATION Spec
CONSTANTS
    Keys = {k1}
    Topics = {k1}
    Readers = {r1}
    Writers = {w1}
    Subs = {s1}
    MaxAge = TRUE
    MaxVer = 2
    Capacity = 1
    MaxEvents = 2
    NoKey = NoKey
    NoCopy = NoCopy
CHECK_DEADLOCK FALSE
INVARIANTS StaleExplained ReadsSettled ReadsAfterEvent LossesShow
