----------------------------- MODULE Documents -----------------------------
(***************************************************************************)
(* Versioned documents: the row of a document, its entry in the search     *)
(* index and its list of versions, as the writers of service/ and db/query *)
(* change them.                                                            *)
(*                                                                         *)
(* Every writer but one runs in one transaction, so its handler is one     *)
(* action.  The exception is the gRPC RestoreVersion call, which runs its  *)
(* statements without a transaction: each is an action of its own, other   *)
(* writers come in between, and the call may stop at any of them.          *)
(*                                                                         *)
(* The data of a document is a text, which stands for the columns of its   *)
(* row, and a set of items, which stands for the rows of its join tables   *)
(* (arrays, blocks, has-many relationships).                               *)
(***************************************************************************)
EXTENDS Naturals, FiniteSets

CONSTANTS Docs,          \* document ids, each used for one document only
          DraftDocs,     \* those of collections with versions.drafts
          Texts, Items,  \* the values columns and join tables can hold
          MaxVersions,   \* versions.max_versions, 0 for no limit
          Restorers,     \* gRPC RestoreVersion calls that may be under way
          MaxIds,        \* bound: versions recorded in a behaviour
          None           \* no row, no entry, a field the input leaves out

VARIABLES row,       \* the main table and the join tables
          index,     \* the full-text index: the text it holds of a document
          versions,  \* the _versions_ tables, a set of rows
          nextId,    \* the next version id (nanoid: never used before)
          call,      \* the RestoreVersion calls under way
          deleted,   \* documents deleted: their ids never come back
          torn,      \* history: a restore overlapped a write, or stopped midway
          loose,     \* history: rows written since their last version
          unindexed  \* history: rows restored since they were last indexed

vars == <<row, index, versions, nextId, call, deleted, torn, loose, unindexed>>

Statuses == {"draft", "published"}
Content  == [text : Texts, items : SUBSET Items]
Row      == [text : Texts, items : SUBSET Items, status : Statuses]
Input    == [text : Texts \cup {None}, items : (SUBSET Items) \cup {None}]
Version  == [id : 1..MaxIds, parent : Docs, num : 1..MaxIds, status : Statuses,
             latest : BOOLEAN, text : Texts, items : SUBSET Items]

ASSUME DocumentsAssumption ==
    /\ DraftDocs \subseteq Docs
    /\ MaxVersions \in Nat
    /\ MaxIds \in Nat
    /\ None \notin Texts
    /\ \A S \in SUBSET Items : S # None
    /\ None \notin Docs \cup Row
    /\ IsFiniteSet(Restorers)

Steps == {"idle", "columns", "clear_items", "fill_items", "status",
          "number", "clear_latest", "insert"}
\* The steps of a call that has begun to write.
Writing == Steps \ {"idle", "columns"}

Idle == [step |-> "idle", doc |-> None, status |-> None, text |-> None,
         items |-> None, num |-> 0]
Call == {Idle} \cup
        [step : Steps \ {"idle"}, doc : Docs, status : Statuses, text : Texts,
         items : SUBSET Items, num : 0..MaxIds]

(***************************************************************************)
(* What the queries read.                                                  *)
(***************************************************************************)
Exists(d)  == row[d] # None
History(d) == {v \in versions : v.parent = d}
Midway(d)  == {r \in Restorers : call[r].doc = d /\ call[r].step \in Writing}

\* SELECT COALESCE(MAX(_version), 0) + 1.
IsNextNum(d, n) ==
    /\ \A v \in History(d) : v.num < n
    /\ n = 1 \/ \E v \in History(d) : v.num = n - 1

\* What a prune may leave of the versions S of one document: the newest by
\* number, MaxVersions of them, ties broken as the database likes.
Kept(S) ==
    IF MaxVersions = 0 THEN {S}
    ELSE {K \in SUBSET S :
            /\ Cardinality(K) = IF Cardinality(S) <= MaxVersions
                                THEN Cardinality(S) ELSE MaxVersions
            /\ \A k \in K, v \in S \ K : v.num <= k.num}

\* The row as it is after a write of the fields the input names.
Merge(c, in) ==
    [text   |-> IF in.text = None THEN c.text ELSE in.text,
     items  |-> IF in.items = None THEN c.items ELSE in.items,
     status |-> c.status]

\* The version create_version inserts.
Snapshot(d, n, status, c) ==
    [id |-> nextId, parent |-> d, num |-> n, status |-> status,
     latest |-> TRUE, text |-> c.text, items |-> c.items]

\* A create_version that leaves the flags of earlier versions alone.
KeepFlags(d) == versions

\* The versions once it has cleared the flag of d's latest.
Unflagged(d) ==
    {[v EXCEPT !.latest = IF v.parent = d THEN FALSE ELSE @] : v \in versions}

(***************************************************************************)
(* create_version in a transaction, with the history variables that every  *)
(* whole write keeps: it repairs what a broken restore left, unless a      *)
(* restore of the same document is midway.                                 *)
(***************************************************************************)
AddVersion(d, status, c, prune) ==
    /\ nextId <= MaxIds
    /\ \E n \in 1..MaxIds :
         /\ IsNextNum(d, n)
         /\ LET others == {v \in Unflagged(d) : v.parent # d}
                all    == (Unflagged(d) \ others) \cup {Snapshot(d, n, status, c)}
            IN  IF prune THEN \E K \in Kept(all) : versions' = others \cup K
                         ELSE versions' = others \cup all
    /\ nextId' = nextId + 1
    /\ torn' = IF Midway(d) = {} THEN torn \ {d} ELSE torn \cup {d}

-----------------------------------------------------------------------------
Init ==
    /\ row = [d \in Docs |-> None]
    /\ index = [d \in Docs |-> None]
    /\ versions = {}
    /\ nextId = 1
    /\ call = [r \in Restorers |-> Idle]
    /\ deleted = {}
    /\ torn = {}
    /\ loose = {}
    /\ unindexed = {}

\* create_document: the row, its join rows, the first version and the index
\* entry.  A draft is one only where the collection has drafts.
Create(d, c, draft) ==
    LET status == IF draft /\ d \in DraftDocs THEN "draft" ELSE "published"
    IN  /\ ~Exists(d) /\ d \notin deleted
        /\ row' = [row EXCEPT ![d] = [text |-> c.text, items |-> c.items,
                                      status |-> status]]
        /\ AddVersion(d, status, c, TRUE)
        /\ index' = [index EXCEPT ![d] = c.text]
        /\ UNCHANGED <<call, deleted, loose, unindexed>>

\* update_document, not a draft: the row takes the fields of the input and is
\* published, a version records the row, the index follows.
Publish(d, in) ==
    /\ Exists(d)
    /\ row' = [row EXCEPT ![d] = [Merge(@, in) EXCEPT !.status = "published"]]
    /\ AddVersion(d, "published", row'[d], TRUE)
    /\ index' = [index EXCEPT ![d] = row'[d].text]
    /\ loose' = loose \ {d}
    /\ unindexed' = unindexed \ {d}
    /\ UNCHANGED <<call, deleted>>

\* update_document, a draft: the input is merged onto the row as it is, and
\* only a version is written.
SaveDraft(d, in) ==
    /\ Exists(d) /\ d \in DraftDocs
    /\ AddVersion(d, "draft", Merge(row[d], in), TRUE)
    /\ UNCHANGED <<row, index, call, deleted, loose, unindexed>>

\* unpublish_document.  Without drafts there is no status column, and the
\* transaction is rolled back.
Unpublish(d) ==
    /\ Exists(d) /\ d \in DraftDocs
    /\ row' = [row EXCEPT ![d].status = "draft"]
    /\ AddVersion(d, "draft", row[d], TRUE)
    /\ UNCHANGED <<index, call, deleted, loose, unindexed>>

\* An UpdateMany that leaves the index alone.
UpdateRowsOnly(D, in) ==
    /\ D # {} /\ \A d \in D : Exists(d)
    /\ row' = [d \in Docs |-> IF d \in D THEN Merge(row[d], in) ELSE row[d]]
    /\ loose' = loose \cup D
    /\ torn' = torn \cup {d \in D : Midway(d) # {}}
    /\ UNCHANGED <<index, versions, nextId, call, deleted, unindexed>>

\* UpdateMany: the rows and the index, for every document the filter matches;
\* no version, no change of status.
UpdateMany(D, in) ==
    /\ D # {} /\ \A d \in D : Exists(d)
    /\ row' = [d \in Docs |-> IF d \in D THEN Merge(row[d], in) ELSE row[d]]
    /\ index' = [d \in Docs |-> IF d \in D THEN row'[d].text ELSE index[d]]
    /\ loose' = loose \cup D
    /\ unindexed' = unindexed \ D
    /\ torn' = torn \cup {d \in D : Midway(d) # {}}
    /\ UNCHANGED <<versions, nextId, call, deleted>>

\* delete_document: the versions and join rows go with the row (ON DELETE
\* CASCADE), the index entry by fts_delete.
Delete(d) ==
    /\ Exists(d)
    /\ row' = [row EXCEPT ![d] = None]
    /\ index' = [index EXCEPT ![d] = None]
    /\ versions' = {v \in versions : v.parent # d}
    /\ deleted' = deleted \cup {d}
    /\ UNCHANGED <<nextId, call, torn, loose, unindexed>>

\* A version is looked up by its id alone, in the table of the collection.
SameTable(d, v) == (d \in DraftDocs) <=> (v.parent \in DraftDocs)

\* A restore that forgets the join tables.
RestoreColumnsOnly(d, v) ==
    /\ Exists(d) /\ d \in DraftDocs /\ SameTable(d, v)
    /\ row' = [row EXCEPT ![d].text = v.text, ![d].status = "published"]
    /\ AddVersion(d, "published", v, FALSE)
    /\ loose' = loose \ {d}
    /\ unindexed' = unindexed \cup {d}
    /\ UNCHANGED <<index, call, deleted>>

\* The restore of the admin UI: one transaction, always to "published".
\* Without drafts there is no status column, and it is rolled back.  The
\* version list is not pruned and the index not told.
AdminRestore(d, v) ==
    /\ Exists(d) /\ d \in DraftDocs /\ SameTable(d, v)
    /\ row' = [row EXCEPT ![d] = [text |-> v.text, items |-> v.items,
                                  status |-> "published"]]
    /\ AddVersion(d, "published", v, FALSE)
    /\ loose' = loose \ {d}
    /\ unindexed' = unindexed \cup {d}
    /\ UNCHANGED <<index, call, deleted>>

-----------------------------------------------------------------------------
(***************************************************************************)
(* gRPC RestoreVersion, a statement at a time.                             *)
(***************************************************************************)
Goto(r, step) == call' = [call EXCEPT ![r].step = step]

\* What another call under way on the same document makes of a write.
TornBy(r, d) == IF Midway(d) \ {r} = {} THEN torn ELSE torn \cup {d}

FindVersion(r, d, v) ==
    /\ call[r] = Idle
    /\ SameTable(d, v)
    /\ call' = [call EXCEPT ![r] = [step |-> "columns", doc |-> d,
                 status |-> v.status, text |-> v.text, items |-> v.items, num |-> 0]]
    /\ UNCHANGED <<row, index, versions, nextId, deleted, torn, loose, unindexed>>

\* UPDATE of the columns; a row that is gone ends the call.
WriteColumns(r) ==
    LET d == call[r].doc
    IN  /\ call[r].step = "columns" /\ Exists(d)
        /\ row' = [row EXCEPT ![d].text = call[r].text]
        /\ unindexed' = unindexed \cup {d}
        /\ torn' = TornBy(r, d)
        /\ Goto(r, "clear_items")
        /\ UNCHANGED <<index, versions, nextId, deleted, loose>>

\* DELETE of the join rows.
ClearItems(r) ==
    LET d == call[r].doc
    IN  /\ call[r].step = "clear_items"
        /\ row' = IF Exists(d) THEN [row EXCEPT ![d].items = {}] ELSE row
        /\ torn' = TornBy(r, d)
        /\ Goto(r, "fill_items")
        /\ UNCHANGED <<index, versions, nextId, deleted, loose, unindexed>>

\* INSERT of the join rows, beside any that another writer put there; their
\* foreign key wants the row.
FillItems(r) ==
    LET d == call[r].doc
    IN  /\ call[r].step = "fill_items"
        /\ Exists(d) \/ call[r].items = {}
        /\ row' = IF Exists(d) THEN [row EXCEPT ![d].items = @ \cup call[r].items]
                               ELSE row
        /\ torn' = TornBy(r, d)
        /\ Goto(r, "status")
        /\ UNCHANGED <<index, versions, nextId, deleted, loose, unindexed>>

\* UPDATE of the status, to that of the version; without drafts there is no
\* such column and the call can only fail.
WriteStatus(r) ==
    LET d == call[r].doc
    IN  /\ call[r].step = "status" /\ d \in DraftDocs
        /\ row' = IF Exists(d) THEN [row EXCEPT ![d].status = call[r].status] ELSE row
        /\ torn' = TornBy(r, d)
        /\ Goto(r, "number")
        /\ UNCHANGED <<index, versions, nextId, deleted, loose, unindexed>>

ReadNumber(r) ==
    /\ call[r].step = "number"
    /\ \E n \in 1..MaxIds :
         /\ IsNextNum(call[r].doc, n)
         /\ call' = [call EXCEPT ![r].step = "clear_latest", ![r].num = n]
    /\ UNCHANGED <<row, index, versions, nextId, deleted, torn, loose, unindexed>>

ClearLatest(r) ==
    /\ call[r].step = "clear_latest"
    /\ versions' = Unflagged(call[r].doc)
    /\ torn' = TornBy(r, call[r].doc)
    /\ Goto(r, "insert")
    /\ UNCHANGED <<row, index, nextId, deleted, loose, unindexed>>

\* An INSERT that no foreign key holds back.
InsertOrphan(r) ==
    LET d == call[r].doc
    IN  /\ call[r].step = "insert" /\ nextId <= MaxIds
        /\ versions' = versions \cup {Snapshot(d, call[r].num, call[r].status, call[r])}
        /\ nextId' = nextId + 1
        /\ torn' = TornBy(r, d)
        /\ loose' = loose \ {d}
        /\ call' = [call EXCEPT ![r] = Idle]
        /\ UNCHANGED <<row, index, deleted, unindexed>>

\* INSERT of the version under the number read before, not pruned; its foreign
\* key wants the row.
InsertVersion(r) ==
    LET d == call[r].doc
    IN  /\ call[r].step = "insert" /\ Exists(d) /\ nextId <= MaxIds
        /\ versions' = versions \cup {Snapshot(d, call[r].num, call[r].status, call[r])}
        /\ nextId' = nextId + 1
        /\ torn' = TornBy(r, d)
        /\ loose' = loose \ {d}
        /\ call' = [call EXCEPT ![r] = Idle]
        /\ UNCHANGED <<row, index, deleted, unindexed>>

\* A statement fails (no row, no column, the database stayed busy): what the
\* earlier ones wrote remains.
RestoreFails(r) ==
    /\ call[r].step # "idle"
    /\ call' = [call EXCEPT ![r] = Idle]
    /\ torn' = IF call[r].step \in Writing THEN torn \cup {call[r].doc} ELSE torn
    /\ UNCHANGED <<row, index, versions, nextId, deleted, loose, unindexed>>

RestoreStep(r) ==
    \/ WriteColumns(r) \/ ClearItems(r) \/ FillItems(r) \/ WriteStatus(r)
    \/ ReadNumber(r) \/ ClearLatest(r) \/ InsertVersion(r) \/ RestoreFails(r)

\* The server stops and starts: calls under way are lost, the index is rebuilt
\* from the rows.
Restart ==
    /\ torn' = torn \cup {call[r].doc : r \in {q \in Restorers : call[q].step \in Writing}}
    /\ call' = [r \in Restorers |-> Idle]
    /\ index' = [d \in Docs |-> IF Exists(d) THEN row[d].text ELSE None]
    /\ unindexed' = {}
    /\ UNCHANGED <<row, versions, nextId, deleted, loose>>

Write(d) ==
    \/ \E c \in Content, draft \in BOOLEAN : Create(d, c, draft)
    \/ \E in \in Input : Publish(d, in) \/ SaveDraft(d, in)
    \/ Unpublish(d)
    \/ \E v \in versions : AdminRestore(d, v)
    \/ Delete(d)

Next ==
    \/ \E d \in Docs : Write(d)
    \/ \E D \in SUBSET Docs, in \in Input : UpdateMany(D, in)
    \/ \E r \in Restorers, d \in Docs : \E v \in versions : FindVersion(r, d, v)
    \/ \E r \in Restorers : RestoreStep(r)
    \/ Restart

Spec == Init /\ [][Next]_vars

-----------------------------------------------------------------------------
TypeOK ==
    /\ row \in [Docs -> Row \cup {None}]
    /\ index \in [Docs -> Texts \cup {None}]
    /\ versions \subseteq Version
    /\ nextId \in 1..(MaxIds + 1)
    /\ call \in [Restorers -> Call]
    /\ deleted \subseteq Docs
    /\ torn \subseteq Docs
    /\ loose \subseteq Docs
    /\ unindexed \subseteq Docs

\* One version carries the latest flag, and its number is above all others: the
\* edit form and FindByID with draft = true read "the" version with the flag.
OneLatestOf(d) ==
    \E v \in History(d) :
        v.latest /\ \A w \in History(d) \ {v} : ~w.latest /\ w.num < v.num

\* No gRPC restore is under way on the document or left it broken.
Calm(d) == Exists(d) /\ d \notin torn /\ Midway(d) = {}

(* A document that no RestoreVersion call has torn has exactly one latest  *)
(* version, the newest: create_version numbers, clears and inserts as one. *)
OneLatest == \A d \in Docs : Calm(d) => OneLatestOf(d)

(* When the latest version is a published one, the row holds what it       *)
(* records, and is published: draft saves stay out of the row, an          *)
(* unpublished row has a draft on top of its history, and restoring brings *)
(* back both parts of the version.  Only UpdateMany writes past the        *)
(* history (loose).                                                        *)
HistoryMatches ==
    \A d \in Docs : Calm(d) /\ d \notin loose =>
        \A v \in History(d) :
            v.latest /\ v.status = "published" =>
                row[d] = [text |-> v.text, items |-> v.items, status |-> "published"]

(* The search index holds the text of the row, except after a restore,     *)
(* which leaves it as it was until the next write or restart.              *)
SearchFresh ==
    \A d \in Docs \ unindexed :
        index[d] = IF Exists(d) THEN row[d].text ELSE None

(* Nothing of a deleted document comes back: no row, index entry or        *)
(* version, whatever calls were under way when it was deleted.             *)
DeletedForGood ==
    \A d \in deleted : ~Exists(d) /\ index[d] = None /\ History(d) = {}

\* What the step takes from d's versions, if anything, is the oldest of too many.
Trims(d) ==
    LET gone == {v \in History(d) : \A w \in History(d)' : w.id # v.id}
    IN  gone # {} =>
          /\ MaxVersions > 0 /\ Cardinality(History(d)') = MaxVersions
          /\ \A v \in gone, w \in History(d)' : v.num <= w.num

(* Versions go with their document or by pruning: then max_versions remain *)
(* and none of those is older than one that went.                          *)
KeepsNewest == [][\A d \in Docs : Exists(d)' => Trims(d)]_vars
=============================================================================
