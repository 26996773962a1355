------------------------------- MODULE MCPools -------------------------------
EXTENDS Pools, TLC

CONSTANTS r1, r2, r3, a1, a2, v1

Mix(x, y, z) == r1 :> x @@ r2 :> y @@ r3 :> z
MCMixes == {Mix("create", "form", "job"), Mix("create", "find", "job")}
MCWriters == {r2, r3}
==============================================================================
