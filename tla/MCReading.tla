----------------------------- MODULE MCReading -----------------------------
(* What a read returns, in small: the pages of a query (Paging), the       *)
(* documents in its relationship fields (Population), and what was written *)
(* into a field (FieldStorage).  They are checked in one run, but not      *)
(* together: two stand still while the third moves.                        *)
EXTENDS Paging, Population, FieldStorage

CONSTANTS a, b, c

\* Timestamps of two days, which documents may share, and rows without a value.
SomeValues == {Null, 11, 21}

OrderOfQuery == <<a, b, c>>

A(cap)         == [deaf |-> FALSE, nested |-> FALSE, cap |-> cap]
Nested(cap)    == [A(cap) EXCEPT !.nested = TRUE]
PolyMany(cap)  == [A(cap) EXCEPT !.deaf = TRUE]

\* Two fields each: the second lower than the first, polymorphic, in a Group;
\* with a join field and without.
SomeSchemas ==
    {[fields |-> <<A(3), A(1)>>, join |-> FALSE], [fields |-> <<A(3), PolyMany(3)>>, join |-> TRUE],
     [fields |-> <<A(3), PolyMany(3)>>, join |-> FALSE], [fields |-> <<A(2), Nested(3)>>, join |-> FALSE]}

\* Cycles of one, two and three documents, a diamond, an id of no document.
SomeLinks ==
    {<< <<>>, <<c>> >>, << <<b>>, <<c>> >>, << <<c>>, <<a>> >>, << <<a>>, <<b, Missing>> >>}

\* Every kind of field, inside up to two Groups and wrappers, hidden or not.
SomePlaces ==
    [within : UNION {[1 .. n -> {"group", "wrapper"}] : n \in 0 .. 2},
     kind : {"column", "checkbox", "refs", "uploads", "rows", "groupedRows"}, hidden : BOOLEAN]

VARIABLE part

\* Two documents of a day, one of another, one without a value.
Mixed == \A v \in SomeValues : Cardinality({i \in Ids : value[i] = v}) = IF v = 11 THEN 2 ELSE 1

\* Writes that are followed: MaxWrites from those, one from any other table, none
\* where a cursor holds something else than the column, and nothing is promised.
Writes == IF query.carries = "other" THEN 0 ELSE IF part = "busy" THEN MaxWrites ELSE 1

PagesRest ==
    /\ value = [i \in Ids |-> Absent] /\ query = CHOOSE q \in Query : TRUE
    /\ writes = 0 /\ page = NoPage /\ hasNext = FALSE /\ hasPrev = FALSE
    /\ leg = "none" /\ due = {} /\ shown = {} /\ again = {} /\ days = {}

TreesRest ==
    /\ schema = CHOOSE s \in Schemas : TRUE
    /\ refs = [d \in Docs |-> << <<>>, <<c>> >>]
    /\ shared = FALSE /\ cache = Empty /\ reads = 0 /\ levels = <<>> /\ answer = Unread

FieldsRest ==
    FieldInit /\ place = [within |-> <<>>, kind |-> "column", hidden |-> FALSE]

Init ==
    \/ part = "pages" /\ PagingInit /\ TreesRest /\ FieldsRest
    \/ part = "busy" /\ PagingInit /\ Mixed /\ TreesRest /\ FieldsRest
    \/ part = "trees" /\ PagesRest /\ PopulationInit /\ FieldsRest
    \/ part = "fields" /\ PagesRest /\ TreesRest /\ FieldInit

Next ==
    \/ part \in {"pages", "busy"} /\ PagingNext /\ writes' <= Writes
       /\ UNCHANGED <<populationVars, fieldVars, part>>
    \/ part = "trees" /\ PopulationNext /\ UNCHANGED <<pagingVars, fieldVars, part>>
    \/ part = "fields" /\ FieldNext /\ UNCHANGED <<pagingVars, populationVars, part>>

Spec == Init /\ [][Next]_<<pagingVars, populationVars, fieldVars, part>>
=============================================================================
