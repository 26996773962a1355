SPECIFICATION FairSpec
CONSTANTS
    r1 = r1 r2 = r2 r3 = r3
    a1 = a1 a2 = a2 v1 = v1
    Requests = {r1, r2, r3}
    Connections = {a1, a2}
    VMs = {v1}
    Mixes <- MCMixes
    LuaWriters <- MCWriters
    Nobody = Nobody
    MaxPanics = 1
INVARIANTS ContextIsOwn NoLostWakeup KnotsKnown
PROPERTIES Answered
