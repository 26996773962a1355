------------------------------- MODULE Paging -------------------------------
(***************************************************************************)
(* Cursor pagination: query::find with a keyset condition, the cursors and *)
(* flags built from its result, and a client that walks the pages of one   *)
(* query, forward and back, while others create, change and delete         *)
(* documents.  Every page is one SELECT; nothing spans two pages but the   *)
(* cursor the client holds.                                                *)
(*                                                                         *)
(* The values of the sort column are numbers in its order.  Null comes     *)
(* first in SQLite, then the empty string, which coerce_value stores as    *)
(* NULL.  Timestamps of day d are 10 * d + 1 and more; 10 * d is the text  *)
(* denormalize_timestamp makes of them: "YYYY-MM-DD HH:MM:SS" sorts before *)
(* every "YYYY-MM-DDTHH:MM:SS.000Z" that create stores on its day, and     *)
(* after those of the day before.                                          *)
(***************************************************************************)
EXTENDS Integers, FiniteSets

CONSTANTS
    Ids,         \* document ids, ordered like the numbers they are
    Values,      \* values of the sort column that occur
    Limit,       \* documents per page
    MaxWrites    \* bound on the writes between the pages

Absent == -2
Null   == -1
EmptyText == 0
Beyond == 1000       \* the JSON text of an object, after every value that occurs

ASSUME PagingAssumption ==
    /\ Ids \subseteq Nat /\ IsFiniteSet(Ids) /\ Values \subseteq {Null} \cup (Nat \ {EmptyText})
    /\ Limit \in Nat \ {0} /\ MaxWrites \in Nat

Day(v) == v \div 10

(* What the client asks for, the same on every page.                       *)
(*   desc:    order_by starts with "-", or is the default                  *)
(*   carries: how the document carries the sort column when the cursor is  *)
(*     built: "exact", as it is stored; "stamp", a timestamp or a date;    *)
(*     "other", anything else: nothing, as the column was not selected or  *)
(*     lies in a Group, which is read nested; an object, the related       *)
(*     document populated in its place or one text per locale; or what an  *)
(*     after_read hook left there                                          *)
(*   fallback: the column is localized and asked for in another locale     *)
(*     than the default, whose text is shown where it has none             *)
(*   lone:    a search term and no filter at all                           *)
Query ==
    {q \in [desc : BOOLEAN, carries : {"exact", "stamp", "other"}, fallback : BOOLEAN,
            lone : BOOLEAN] : q.fallback => q.carries # "other"}

VARIABLES
    value,      \* the sort column of each document, Absent if there is none
    writes,
    query,
    page,       \* the last page: its documents, as they were, and the direction
                \* in which they are listed
    hasNext,    \* has_next_page of the last page
    hasPrev,    \* has_prev_page
    leg,        \* "none", "forward", "back": which way the client walks; "failed"
    due,        \* documents the leg has to show: those that lay ahead of it as it
                \* began and were neither changed nor deleted since
    shown,      \* documents the leg has shown
    again,      \* documents it has shown twice
    days        \* the days of the cursors the leg has used

pagingVars == <<value, writes, query, page, hasNext, hasPrev, leg, due, shown, again, days>>

Rows == {[id |-> i, value |-> value[i]] : i \in {j \in Ids : value[j] # Absent}}
IdsOf(docs) == {d.id : d \in docs}
NoPage == [docs |-> {}, desc |-> FALSE]

PagingInit ==
    /\ value \in [Ids -> Values \cup {Absent}]
    /\ writes = 0
    /\ query \in Query
    /\ page = NoPage /\ hasNext = FALSE /\ hasPrev = FALSE
    /\ leg = "none" /\ due = {} /\ shown = {} /\ again = {} /\ days = {}

-----------------------------------------------------------------------------
(* query::find *)

(* ORDER BY col dir, id dir. *)
Before(a, b, desc) ==
    LET less(x, y) == x.value < y.value \/ (x.value = y.value /\ x.id < y.id)
    IN  IF desc THEN less(b, a) ELSE less(a, b)

(* cursor_from_doc, and in find the text its sort_val becomes. *)
denormalize_timestamp(v) == IF v > 0 THEN 10 * Day(v) ELSE v

(* COALESCE(col__de, col__en) AS col: the SELECT's, not the ORDER BY's.    *)
Texts(d) ==
    IF query.fallback /\ d.value = Null THEN Values \cup {Null} ELSE {d.value}

SortVals(d) ==
    CASE query.carries = "exact" -> Texts(d)
      [] query.carries = "stamp" -> {denormalize_timestamp(v) : v \in Texts(d)}
      [] query.carries = "other" -> Values \cup {Null, Beyond}

Cursor(d, v) == [val |-> IF v = Null THEN EmptyText ELSE v, id |-> d.id]

(* Mutant: no tie break. *)
KeysetStrict(d, c, less) ==
    /\ d.value # Null
    /\ IF less THEN d.value < c.val ELSE d.value > c.val

(* (col OP val) OR (col = val AND id OP id): a NULL column fails it. *)
Keyset(d, c, less) ==
    /\ d.value # Null
    /\ IF less THEN d.value < c.val \/ (d.value = c.val /\ d.id < c.id)
               ELSE d.value > c.val \/ (d.value = c.val /\ d.id > c.id)

(* ORDER BY ... LIMIT: those with fewer than Limit before them. *)
TopOf(S, desc) ==
    [docs |-> {d \in S : Cardinality({x \in S : Before(x, d, desc)}) < Limit}, desc |-> desc]

(* docs.reverse(). *)
Turned(p) == [p EXCEPT !.desc = ~@]

Foremost(docs, desc) == CHOOSE d \in docs : \A x \in docs : x = d \/ Before(d, x, desc)
FirstOf(p) == Foremost(p.docs, p.desc)
LastOf(p)  == Foremost(p.docs, ~p.desc)

FirstPage     == TopOf(Rows, query.desc)
PageAfter(c)  == TopOf({d \in Rows : Keyset(d, c, query.desc)}, query.desc)
PageBefore(c) == Turned(TopOf({d \in Rows : Keyset(d, c, ~query.desc)}, ~query.desc))

-----------------------------------------------------------------------------
(* The client *)

AtLimit(p) == Cardinality(p.docs) >= Limit

(* The page and the flags of its PaginationInfo. *)
Show(p, cursor) ==
    /\ page' = p
    /\ IF cursor = "before" THEN hasNext' = TRUE /\ hasPrev' = AtLimit(p)
       ELSE hasNext' = AtLimit(p) /\ hasPrev' = (cursor = "after")

Begin ==
    /\ leg = "none" /\ leg' = "forward"
    /\ Show(FirstPage, "none")
    /\ due' = {d.id : d \in Rows}
    /\ shown' = IdsOf(FirstPage.docs) /\ again' = {} /\ days' = {}
    /\ UNCHANGED <<value, writes, query>>

(* What lies ahead of a client that turns around at document d. *)
Ahead(d, desc) == {x.id : x \in {y \in Rows : Before(d, y, desc)}}

(* The next page of a leg, or the first of a new one, from the cursor of d. *)
Walk(way, d, docs, desc) ==
    /\ leg' = way
    /\ IF leg = way
       THEN /\ shown' = shown \cup IdsOf(docs)
            /\ again' = again \cup (shown \cap IdsOf(docs))
            /\ days' = days \cup {Day(d.value)} /\ due' = due
       ELSE /\ shown' = IdsOf(docs) /\ again' = {}
            /\ days' = {Day(d.value)} /\ due' = Ahead(d, desc)
    /\ UNCHANGED <<value, writes, query>>

(* The search clause has written its own " WHERE ", and without filters    *)
(* the keyset condition writes a second one: SQL refuses the statement.    *)
Refused == query.lone

Walking == leg \in {"forward", "back"} /\ page.docs # {}

NextPage ==
    /\ Walking /\ hasNext /\ ~Refused
    /\ \E v \in SortVals(LastOf(page)) :
           LET after == PageAfter(Cursor(LastOf(page), v))
           IN  Show(after, "after") /\ Walk("forward", LastOf(page), after.docs, query.desc)

PrevPage ==
    /\ Walking /\ hasPrev /\ ~Refused
    /\ \E v \in SortVals(FirstOf(page)) :
           LET before == PageBefore(Cursor(FirstOf(page), v))
           IN  Show(before, "before") /\ Walk("back", FirstOf(page), before.docs, ~query.desc)

Refuse ==
    /\ Walking /\ (hasNext \/ hasPrev) /\ Refused
    /\ leg' = "failed"
    /\ UNCHANGED <<value, writes, query, page, hasNext, hasPrev, due, shown, again, days>>

(* Another writer, or a document that comes to match the filters or ceases *)
(* to.  What is written beside a client that gets no second page is left   *)
(* out.                                                                    *)
Write(i, v) ==
    /\ leg # "none" /\ ~Refused /\ writes < MaxWrites /\ v # value[i]
    /\ value' = [value EXCEPT ![i] = v]
    /\ writes' = writes + 1
    /\ due' = due \ {i}
    /\ UNCHANGED <<query, page, hasNext, hasPrev, leg, shown, again, days>>

PagingNext ==
    \/ Begin \/ NextPage \/ PrevPage \/ Refuse
    \/ \E i \in Ids, v \in Values \cup {Absent} : Write(i, v)

PagingSpec == PagingInit /\ [][PagingNext]_pagingVars

-----------------------------------------------------------------------------
(* Correctness *)

(* The leg has come to its end: no more pages are announced that way. *)
LegEnded == \/ leg = "forward" /\ ~hasNext
            \/ leg = "back" /\ ~hasPrev

(* A walk that ends has shown every document that lay ahead as it began    *)
(* and was left alone since, whatever was written around it, except the    *)
(* ones find itself cannot reach: documents without a value in the sort    *)
(* column, for timestamps those of the day of a page's end, all once a     *)
(* page ended at a document shown with the default locale's text for want  *)
(* of its own, and all where the cursor does not hold the sort column.     *)
NothingSkipped ==
    LegEnded => \A i \in due \ shown :
        \/ value[i] = Null
        \/ query.carries = "stamp" /\ Day(value[i]) \in days
        \/ query.fallback /\ Day(Null) \in days
        \/ query.carries = "other" /\ days # {}

(* And none of them was shown twice, but timestamps of the day of a page's *)
(* end, after a page that ended at a document in the default locale's      *)
(* text, and where the cursor does not hold the sort column.               *)
NothingRepeated ==
    \A i \in again \cap due :
        \/ query.carries = "stamp" /\ Day(value[i]) \in days
        \/ query.fallback /\ Day(Null) \in days
        \/ query.carries = "other"

(* So a walk shows every document exactly once, with those exceptions: no  *)
(* write beside it makes it skip or repeat one that was left alone.        *)
PagesExact == NothingSkipped /\ NothingRepeated
=============================================================================
