----------------------------- MODULE MCJobQueue -----------------------------
(* Small instances of JobQueue: a1 and a2 are rows of type A, b1 of type B. *)
EXTENDS JobQueue

CONSTANTS a1, a2, b1, A, B

SlugOfRow == [j \in Jobs |-> IF j = b1 THEN B ELSE A]

(* The Lua definitions are the same at every start, or one start lacks A. *)
AllDefined == {{A, B}}
MayLoseA   == {{A, B}, {B}}

OneEach == [s \in Slugs |-> 1]
TwoEach == [s \in Slugs |-> 2]
=============================================================================
