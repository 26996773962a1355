----------------------------- MODULE Population -----------------------------
(***************************************************************************)
(* How the ids in relationship fields are replaced by the documents they   *)
(* name, down to the depth a read asks for: populate_relationships_cached  *)
(* for a read by id, populate_relationships_batch_cached for a list.  The  *)
(* first carries one set of visited documents through the whole recursion, *)
(* the second starts every batch with a set of its own; both keep what     *)
(* they populate in a cache that lasts for the read, or, where             *)
(* populate_cache is set, from one read to the next.                       *)
(*                                                                         *)
(* The recursion is a stack, and a step is what the code does about one id *)
(* or, in a batch, about one field.  Documents do not change here          *)
(* (PopulateCache is about writes), and what matters of one is its id and  *)
(* the ids its fields hold.  What a read returns is flat: the documents at *)
(* their places, where a place is the document returned and, for each      *)
(* level below it, the field and the position in the field.                *)
(***************************************************************************)
EXTENDS Integers, SequencesExt

CONSTANTS
    Docs,        \* the documents
    Order,       \* the order in which a query returns them
    Missing,     \* an id that names none
    Schemas,     \* field lists of their collection
    Links,       \* what the fields of a document may hold
    Nothing,     \* no entry in the cache
    MaxDepth,    \* depth.max_depth
    MaxReads     \* bound on the reads that share a cache

(* A relationship field of the collection.                                 *)
(*   deaf:   polymorphic has-many, which never looks into the cache        *)
(*   nested: it lies in a Group, an Array or Blocks                        *)
(*   cap:    max_depth of the field                                        *)
(* Nested fields come last.  With join, a join field shows the documents   *)
(* that name this one in their first field.                                *)
Field  == [deaf : BOOLEAN, nested : BOOLEAN, cap : 1 .. MaxDepth]
Schema == [fields : Seq(Field), join : BOOLEAN]

\* A field names a document once: the primary key of a junction table.
ASSUME PopulationAssumption ==
    /\ Schemas \subseteq Schema /\ Missing \notin Docs /\ Nothing \notin Docs
    /\ Order \in Seq(Docs) /\ ToSet(Order) = Docs /\ Len(Order) = Cardinality(Docs)
    /\ \A links \in Links :
          /\ links \in Seq(Seq(Docs \cup {Missing}))
          /\ \A f \in DOMAIN links : IsInjective(links[f])
          /\ \A s \in Schemas : Len(links) = Len(s.fields)
    /\ MaxDepth \in Nat /\ MaxReads \in Nat

VARIABLES
    schema,      \* one of Schemas
    refs,        \* the ids in the fields of each document
    shared,      \* depth.populate_cache
    cache,       \* the cache of the read, or the one that reads share
    reads,
    levels,      \* the read under way: its batches, the innermost last
    answer       \* the last read: how it was made and what it returned

around         == <<schema, refs, shared, reads, answer>>
populationVars == <<cache, levels, around>>

-----------------------------------------------------------------------------
(***************************************************************************)
(* Documents, and what there is to do about them.                          *)
(***************************************************************************)
\* Mutant: max_depth of the field is forgotten.
LeftUncapped(f, depth) == depth

\* The depth left for a field; max_depth can only lower it.
Left(f, depth) == IF schema.fields[f].cap < depth THEN schema.fields[f].cap ELSE depth

FieldsThat(nested) == {f \in DOMAIN schema.fields : schema.fields[f].nested = nested}
JoinField == Len(schema.fields) + 1

\* find_by_id, find_by_ids
Bare(d, place) == {[at |-> place, id |-> d]}
Roots(docs)    == UNION {Bare(d, <<d>>) : d \in docs}

\* What lies at a place as a document of its own, and a document at a place.
Cut(tree, place, d) ==
    {[at |-> <<d>> \o SubSeq(e.at, Len(place) + 1, Len(e.at)), id |-> e.id] :
        e \in {e \in tree : IsPrefix(place, e.at)}}
Graft(tree, place) == {[at |-> place \o Tail(e.at), id |-> e.id] : e \in tree}

\* Fields and positions, one after the other.
IsFirst(step, todo) ==
    \A other \in todo \ {step} :
        step[1] < other[1] \/ (step[1] = other[1] /\ step[2] < other[2])

StepsIn(d, fields) == UNION {{f} \X DOMAIN refs[d][f] : f \in fields}

\* populate_join_fields: the documents that name this one.
JoinSteps(d) ==
    IF schema.join THEN {JoinField} \X {i \in DOMAIN Order : refs[Order[i]][1] = <<d>>} ELSE {}

Steps(d) == StepsIn(d, DOMAIN schema.fields) \cup JoinSteps(d)

\* populate_relationships_cached under way for one document.
Frame(place, d, depth, todo, keep) ==
    [at |-> place, id |-> d, depth |-> depth, todo |-> todo, keep |-> keep]

-----------------------------------------------------------------------------
(***************************************************************************)
(* The read by id: the steps of the innermost document, the last of        *)
(* `frames`.                                                               *)
(***************************************************************************)
Level == levels[Len(levels)]
Doc   == Level.frames[Len(Level.frames)]

Became(level) == levels' = [levels EXCEPT ![Len(levels)] = level]
Done(step) == [Level EXCEPT !.frames[Len(Level.frames)].todo = @ \ {step}]
Ref(step) == refs[Doc.id][step[1]][step[2]]

\* The id stays if its document is visited or not there.
StaysId(step) ==
    /\ step[1] # JoinField /\ Ref(step) \in Level.visited \cup {Missing}
    /\ Became(Done(step))
    /\ UNCHANGED <<cache, around>>

Wanting(step) == step[1] # JoinField /\ Ref(step) \in Docs \ Level.visited

\* A polymorphic has-many does not look.
InCache(ref, f) == ~ schema.fields[f].deaf /\ cache[ref] # Nothing

FromCache(step) ==
    /\ Wanting(step) /\ InCache(Ref(step), step[1])
    /\ Became([Done(step) EXCEPT !.tree = @ \cup Graft(cache[Ref(step)], Append(Doc.at, step))])
    /\ UNCHANGED <<cache, around>>

\* A document is shown and, if there is depth left, entered.
ShowAt(step, d, depth, keep) ==
    LET place == Append(Doc.at, step)
        bare  == [Done(step) EXCEPT !.tree = @ \cup Bare(d, place)]
    IN  Became(IF depth <= 0 \/ d \in Level.visited THEN bare
               ELSE [bare EXCEPT !.visited = @ \cup {d},
                                 !.frames = Append(@, Frame(place, d, depth, Steps(d), keep))])

\* It goes into the cache when it is populated: without depth, at once.
Fetch(step) ==
    LET left == Left(step[1], Doc.depth) - 1 IN
    /\ Wanting(step) /\ ~ InCache(Ref(step), step[1])
    /\ ShowAt(step, Ref(step), left, TRUE)
    /\ cache' = IF left <= 0 THEN [cache EXCEPT ![Ref(step)] = Bare(Ref(step), <<Ref(step)>>)]
                ELSE cache
    /\ UNCHANGED around

\* populate_join_fields: documents are shown whether visited or not, and do
\* not go into the cache.
Join(step) ==
    /\ step[1] = JoinField
    /\ ShowAt(step, Order[step[2]], Doc.depth - 1, FALSE)
    /\ UNCHANGED <<cache, around>>

Populated ==
    /\ Doc.todo = {}
    /\ Became([Level EXCEPT !.frames = Front(@)])
    /\ cache' = IF Doc.keep THEN [cache EXCEPT ![Doc.id] = Cut(Level.tree, Doc.at, Doc.id)]
                ELSE cache
    /\ UNCHANGED around

Populate ==
    /\ levels # <<>> /\ Level.frames # <<>>
    /\ \/ \E step \in Doc.todo : /\ IsFirst(step, Doc.todo)
                                 /\ StaysId(step) \/ FromCache(step) \/ Fetch(step) \/ Join(step)
       \/ Populated

-----------------------------------------------------------------------------
(***************************************************************************)
(* The list: one query per field for all documents of the batch.  Nested   *)
(* fields of all documents come after that, then join fields: these are    *)
(* left to the recursion of a read by id, one document after the other,    *)
(* each with the visited documents of the batch.                           *)
(***************************************************************************)
Queried  == 1
InNested == 2
InJoins  == 3

BatchSteps(docs, depth) ==
    LET members == {i \in DOMAIN Order : Order[i] \in docs} IN
    IF depth <= 0 \/ docs = {} THEN {}
    ELSE ({Queried} \X FieldsThat(FALSE))
         \cup (IF FieldsThat(TRUE) # {} THEN {InNested} \X members ELSE {})
         \cup (IF schema.join THEN {InJoins} \X members ELSE {})

(* A batch.                                                                *)
(*   docs, tree: the documents, and what is at which place under them      *)
(*   todo:       queries and documents left                                *)
(*   visited, frames: of the recursion of a read by id                     *)
(*   held:       the cache when it was fetched                             *)
Batch(how, docs, depth, todo, frames) ==
    [how |-> how, docs |-> docs, depth |-> depth, todo |-> todo, frames |-> frames,
     tree |-> Roots(docs), visited |-> docs, held |-> cache]

\* Mutant: documents of the batch are fetched again.
WantedAll(batch, f) == (UNION {ToSet(refs[d][f]) : d \in batch.docs}) \ {Missing}

Wanted(batch, f) == (UNION {ToSet(refs[d][f]) : d \in batch.docs}) \ (batch.docs \cup {Missing})

\* batch_fetch_single_collection, batch_fetch_with_cache: what the cache does
\* not have is a batch of its own.
QueryField(step) ==
    LET fetched == {d \in Wanted(Level, step[2]) : cache[d] = Nothing}
        left    == Left(step[2], Level.depth) - 1
    IN  /\ step[1] = Queried
        /\ levels' = Append(levels, Batch("list", fetched, left, BatchSteps(fetched, left), <<>>))
        /\ UNCHANGED <<cache, around>>

OneDocument(step) ==
    LET d    == Order[step[2]]
        todo == IF step[1] = InNested THEN StepsIn(d, FieldsThat(TRUE)) ELSE JoinSteps(d)
    IN  /\ step[1] # Queried
        /\ Became([Level EXCEPT !.todo = @ \ {step}, !.visited = Level.docs,
                                !.frames = <<Frame(<<d>>, d, Level.depth, todo, FALSE)>>])
        /\ UNCHANGED <<cache, around>>

Own(batch, d) == {e \in batch.tree : e.at[1] = d}

\* Mutant: what was in the cache is not returned.
GotUncached(batch, d) == Own(batch, d)

Got(batch, d) == IF d \in batch.docs THEN Own(batch, d) ELSE batch.held[d]

\* The documents of the batch, and those that were in the cache, go to every
\* place above that names them.
Distributed(above, f) ==
    UNION {UNION {Graft(Got(Level, refs[d][f][k]), <<d, <<f, k>>>>) :
                     k \in {k \in DOMAIN refs[d][f] : refs[d][f][k] \in Wanted(above, f)}} :
           d \in above.docs}

Return ==
    LET n     == Len(levels) - 1
        below == levels[n]
    IN \E step \in below.todo :
        /\ IsFirst(step, below.todo)
        /\ levels' = [Front(levels) EXCEPT
                         ![n].todo = @ \ {step}, ![n].tree = @ \cup Distributed(below, step[2])]
        /\ cache' = [d \in Docs |-> IF d \in Level.docs THEN Own(Level, d) ELSE cache[d]]
        /\ UNCHANGED around

PopulateBatch ==
    /\ levels # <<>> /\ Level.frames = <<>>
    /\ \/ \E step \in Level.todo : IsFirst(step, Level.todo) /\ (QueryField(step) \/ OneDocument(step))
       \/ Len(levels) > 1 /\ Level.todo = {} /\ Return

-----------------------------------------------------------------------------
(***************************************************************************)
(* Reads.                                                                  *)
(***************************************************************************)
Empty  == [d \in Docs |-> Nothing]
Unread == [how |-> "none", depth |-> 0, docs |-> {}, tree |-> {}]

PopulationInit ==
    /\ schema \in Schemas
    /\ refs \in [Docs -> Links]
    /\ shared \in BOOLEAN
    /\ cache = Empty /\ reads = 0 /\ levels = <<>> /\ answer = Unread

\* One read shows all there is to see where each has a cache of its own.
MayRead == levels = <<>> /\ reads < IF shared THEN MaxReads ELSE 1

Start(batch) ==
    /\ MayRead /\ reads' = reads + 1 /\ answer' = Unread
    /\ levels' = <<batch>>
    /\ UNCHANGED <<schema, refs, shared, cache>>

FindById(d, depth) ==
    Start(Batch("by_id", {d}, depth, {}, <<Frame(<<d>>, d, depth, Steps(d), FALSE)>>))

Find(ds, depth) == Start(Batch("list", ds, depth, BatchSteps(ds, depth), <<>>))

Answer ==
    /\ Len(levels) = 1 /\ Level.frames = <<>> /\ Level.todo = {}
    /\ answer' = [how |-> Level.how, depth |-> Level.depth, docs |-> Level.docs, tree |-> Level.tree]
    /\ levels' = <<>> /\ cache' = IF shared THEN cache ELSE Empty
    /\ UNCHANGED <<schema, refs, shared, reads>>

PopulationNext ==
    \/ \E depth \in 1 .. MaxDepth :
          \/ \E d \in Docs : FindById(d, depth)
          \/ \E ds \in (SUBSET Docs) \ {{}} : Find(ds, depth)
    \/ Populate \/ PopulateBatch
    \/ Answer

PopulationSpec == PopulationInit /\ [][PopulationNext]_populationVars

-----------------------------------------------------------------------------
(***************************************************************************)
(* What must hold.                                                         *)
(***************************************************************************)
\* As many levels as were asked for, and below a field as many as it allows.
DeepEnough(e, depth) ==
    /\ Len(e.at) - 1 <= depth
    /\ \A i \in 2 .. Len(e.at) :
          e.at[i][1] # JoinField => Len(e.at) - i < schema.fields[e.at[i][1]].cap

InItself(tree) ==
    \E e, g \in tree : e.id = g.id /\ e.at # g.at /\ IsPrefix(e.at, g.at)

(* A read by id with a cache of its own never shows more levels than it    *)
(* asked for or a field's max_depth allows, whatever order the fields, the *)
(* cycles of the documents and the entries of the cache come in; and       *)
(* unless there is a join field, no document lies in itself.  Lists go     *)
(* deeper, and so does every read with a shared cache: entries were        *)
(* populated at other depths.                                              *)
DepthKept ==
    (answer.how = "by_id" /\ ~ shared) =>
        /\ \A e \in answer.tree : DeepEnough(e, answer.depth)
        /\ ~ schema.join => ~ InItself(answer.tree)

(* Every document that a field of a returned document names is shown in    *)
(* full somewhere in the answer: an id stays an id only if its document    *)
(* has been visited, and what has been visited is shown, from the cache or *)
(* not, by either algorithm.                                               *)
NothingLeftOut ==
    \A d \in answer.docs : \A f \in DOMAIN schema.fields :
        \A ref \in ToSet(refs[d][f]) \ {Missing} : \E e \in answer.tree : e.id = ref

(* At depth 1 the two algorithms agree, whatever the cache of the read has *)
(* come to hold: a document is shown with the documents it names and those *)
(* that join it, but for those of the answer itself, which stay ids.       *)
OneLevel(d, listed) ==
    Bare(d, <<d>>)
    \cup (UNION {Bare(refs[d][s[1]][s[2]], <<d, s>>) :
                     s \in {s \in StepsIn(d, DOMAIN schema.fields) :
                               refs[d][s[1]][s[2]] \notin listed \cup {Missing}}})
    \cup (UNION {Bare(Order[s[2]], <<d, s>>) : s \in JoinSteps(d)})

ListsAgree ==
    (~ shared /\ answer.depth = 1) =>
        answer.tree = UNION {OneLevel(d, answer.docs) : d \in answer.docs}
=============================================================================
