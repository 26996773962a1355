-------------------------------- MODULE MCAuth --------------------------------
EXTENDS Auth, TLC

CONSTANTS h1, h2, p1, p2, t1

Symmetric == Permutations({h1, h2}) \cup Permutations({p1, p2})

\* A login that is lost before its record and a reset are not followed in one
\* behaviour: the limiters and the reset's columns have no step in common.
Apart == mails = {} \/ \A i \in Interfaces : dropped[i] = 0

SpecApart == Init /\ [][Next /\ Apart']_vars
==============================================================================
