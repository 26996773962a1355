---------------------------- MODULE FieldStorage ----------------------------
(***************************************************************************)
(* One field of one document, wherever the definition puts it: what of a   *)
(* value that a client sends reaches the tables, a version, a draft, a     *)
(* read, the admin's form, and the pages that warn before a delete and     *)
(* before a restore.                                                       *)
(*                                                                         *)
(* A Group is a prefix of the column's or table's name and an object in    *)
(* JSON; Row, Collapsible and Tabs ("wrapper") are neither.  The code      *)
(* walks the tree of definitions anew at each of these stations, and not   *)
(* always in the same way.  A JSON document is, as far as the field goes,  *)
(* the value under the prefixed name (flat) and the value inside the       *)
(* object of its Group (nested); outside Groups there is only the first.   *)
(*                                                                         *)
(* Every save, restore and delete is one step (but for the gRPC restore,   *)
(* one transaction; Documents has that one in its statements).  The        *)
(* admin's pages are requests of their own: what a page showed when it was *)
(* opened may be out of date when it is submitted, and the API deletes and *)
(* restores without one.  Locales are in the module Locales.  A restore    *)
(* may take any version; the module remembers one, freely chosen, besides  *)
(* the draft, and keeps it while a page asks whether to restore it.        *)
(***************************************************************************)
EXTENDS Integers, Sequences, FiniteSets

CONSTANTS
    Places,     \* where the field may be defined
    Targets,    \* documents of another collection it may name
    Unset,      \* a key that is not there, a version that is not there
    MaxPages    \* bound on the admin's pages open at a time

(*   within: what the field lies in, outermost first                       *)
(*   kind: a column naming at most one target, a checkbox (on if not       *)
(*     empty), a has-many Relationship or Upload, an Array or Blocks field *)
(*     whose rows name targets, themselves or in a Group of the row        *)
(*   hidden: admin.hidden, of the field or of the outermost that holds it  *)
Place == [within : UNION {[1 .. n -> {"group", "wrapper"}] : n \in 0 .. 3},
          kind : {"column", "checkbox", "refs", "uploads", "rows", "groupedRows"},
          hidden : BOOLEAN]

ASSUME FieldAssumption ==
    /\ Places \subseteq Place /\ IsFiniteSet(Targets) /\ \A v \in SUBSET Targets : v # Unset
    /\ MaxPages \in Nat

VARIABLES
    place,
    alive,      \* the targets not deleted
    stored,     \* the field in the main table or its join table
    draft,      \* the latest version if it is a draft, else Unset
    saved,      \* some version of the past, or Unset
    pages,      \* the admin's pages open
    \* what the properties compare with
    told,       \* the value last asked for, Unset if it met a loss named below
    known,      \* the deleted targets it names that somebody was told of, by a
                \* page, or named himself
    unwarned    \* those that came to be named where no page could have told

fieldVars == <<place, alive, stored, draft, saved, pages, told, known, unwarned>>

IsColumn    == place.kind \in {"column", "checkbox"}
InGroup     == \E i \in DOMAIN place.within : place.within[i] = "group"
TopGroup    == place.within # <<>> /\ place.within[1] = "group"
OnlyGroup   == place.within = <<"group">>
DirectGroup == \A i \in DOMAIN place.within : place.within[i] = "group" <=> i = Len(place.within)

FieldValue == {v \in SUBSET Targets : IsColumn => Cardinality(v) <= 1}
Json(flat, nested) == [flat |-> flat, nested |-> nested]
Silent == Json(Unset, Unset)
Version == [obj : [flat : {Unset} \cup FieldValue, nested : {Unset} \cup FieldValue],
            text : BOOLEAN, told : {Unset} \cup FieldValue]

(* What an open page remembers.                                            *)
(*   named:  its search ran, and the field named the target                *)
(*   gone:   the deleted targets that the version names                    *)
(*   listed: what it tells of them                                         *)
(*   shows:  what its inputs hold; told: what was asked for of that        *)
Pages ==
    [kind : {"delete"}, target : Targets, named : BOOLEAN, listed : BOOLEAN]
        \cup [kind : {"restore"}, gone : SUBSET Targets, listed : SUBSET Targets]
        \cup [kind : {"form"}, shows : FieldValue, told : {Unset} \cup FieldValue]

FieldTypeOK ==
    /\ place \in Places /\ alive \subseteq Targets
    /\ stored \in FieldValue /\ told \in {Unset} \cup FieldValue
    /\ draft = Unset \/ draft \in Version
    /\ saved = Unset \/ saved \in Version
    /\ pages \subseteq Pages
    /\ known \subseteq stored \ alive /\ unwarned \subseteq stored \ alive

-----------------------------------------------------------------------------
(***************************************************************************)
(* From a request to the tables.                                           *)
(***************************************************************************)
\* The hook data of an API request.  flatten_lua_groups adds the prefixed
\* name, for columns directly in a Group at the top.
Sent(entry, way, v) ==
    IF way = "flat" THEN Json(v, Unset)
    ELSE Json(IF entry = "lua" /\ OnlyGroup /\ IsColumn THEN v ELSE Unset, v)

\* HookContext::to_string_map opens Groups at the top, and what they hold;
\* bulk updates do not open any.
ColumnData(data, bulk) ==
    IF data.flat # Unset THEN data.flat
    ELSE IF TopGroup /\ ~ bulk THEN data.nested ELSE Unset

\* query::update; save_join_table_data
StoredFrom(data, bulk) ==
    LET given == IF IsColumn THEN ColumnData(data, bulk) ELSE data.flat
    IN  IF given # Unset THEN given
        ELSE IF place.kind = "checkbox" THEN {} ELSE stored

\* hydrate_document: what a read returns; build_snapshot keeps the columns'
\* own names beside it.
Hydrated(v) == IF InGroup THEN Json(Unset, v) ELSE Json(v, Unset)
Snapshot(v) == IF IsColumn /\ InGroup THEN Json(v, v) ELSE Hydrated(v)
Shows(obj)  == IF InGroup THEN obj.nested ELSE obj.flat

\* Mutant: what was sent for the join tables is not merged into the snapshot.
DraftSnapshotUnmerged(data) ==
    IF IsColumn THEN Snapshot(IF data.flat # Unset THEN data.flat ELSE stored)
    ELSE Snapshot(stored)

\* save_draft_version: over the stored document, not over an earlier draft.
\* Groups are built anew from the columns and join tables.
DraftSnapshot(data) ==
    IF IsColumn THEN Snapshot(IF data.flat # Unset THEN data.flat ELSE stored)
    ELSE IF InGroup THEN Json(data.flat, stored)
    ELSE Json(IF data.flat # Unset /\ place.kind # "uploads" THEN data.flat ELSE stored, Unset)

\* extract_snapshot_data and collect_join_data_from_snapshot
Extracted(obj) ==
    IF ~ InGroup THEN obj.flat
    ELSE IF IsColumn /\ DirectGroup THEN (IF obj.flat # Unset THEN obj.flat ELSE obj.nested)
    ELSE Unset

-----------------------------------------------------------------------------
(***************************************************************************)
(* The edit form.                                                          *)
(***************************************************************************)
\* It shows the draft if that is the latest version.
FormDocument == IF draft # Unset THEN draft.obj ELSE Hydrated(stored)

\* What its inputs hold: flatten_document_values opens Groups at the top;
\* inside a Group, enrich_nested_fields has no rows and no selected items to
\* show; a list a form saved into a draft is one string, which the next form
\* does not take for a list; documents that are gone cannot be selected.
FormShows ==
    LET doc == FormDocument
        held == IF IsColumn
                THEN IF doc.flat # Unset THEN doc.flat ELSE IF TopGroup THEN doc.nested ELSE {}
                ELSE IF InGroup \/ (draft # Unset /\ draft.text) THEN {} ELSE doc.flat
    IN  IF place.kind = "checkbox" THEN held ELSE held \cap alive

\* What it sends when it shows v.  extract_join_data_from_form gives what the
\* form has no input for as empty; a checkbox that is off is not sent.
FormData(v) ==
    IF place.hidden
    THEN Json(IF place.kind \in {"refs", "rows", "groupedRows"} THEN {} ELSE Unset, Unset)
    ELSE IF place.kind = "checkbox" /\ v = {} THEN Silent
    ELSE Json(v, Unset)

-----------------------------------------------------------------------------
(***************************************************************************)
(* The pages that warn.                                                    *)
(***************************************************************************)
\* Mutant: columns are looked up without the prefix of their Groups.
ReferringUnprefixed ==
    IF InGroup \/ place.kind \in {"checkbox", "groupedRows"} THEN {} ELSE stored

\* find_back_references looks for join tables without the prefix of Groups
\* and does not look into the Groups of a row.
Referring ==
    IF place.kind \in {"checkbox", "groupedRows"} \/ (InGroup /\ ~ IsColumn) THEN {} ELSE stored

\* find_missing_relations follows the nested objects of the snapshot.  (Of
\* some lists stored as text it reports more.)
Absentees(obj) ==
    IF place.kind \in {"checkbox", "groupedRows"} THEN {} ELSE Shows(obj) \ alive

-----------------------------------------------------------------------------
(***************************************************************************)
(* What gets lost on the way, and is excepted from KeptAsWritten.          *)
(***************************************************************************)
\* An API write: objects of Groups, but for columns in a Group at the top.
\* A bulk update: all of them.
LostInWrite(way, bulk) == way = "nested" /\ (bulk \/ ~ IsColumn \/ ~ TopGroup)

\* A draft save: objects, unless Lua flattened them; join fields in a Group;
\* lists of uploads.
LostInDraft(entry, way) ==
    IF IsColumn THEN way = "nested" /\ ~ (entry = "lua" /\ OnlyGroup)
    ELSE InGroup \/ place.kind = "uploads"

\* The form, on what is not touched: join fields that it hides, and what it
\* hides of a draft; columns in a Group in a wrapper; join fields in a Group; a
\* list that the draft has as one string.
LostInForm ==
    IF place.hidden THEN place.kind \in {"refs", "rows", "groupedRows"} \/ draft # Unset
    ELSE IF IsColumn THEN InGroup /\ ~ TopGroup /\ draft = Unset
    ELSE InGroup \/ (draft # Unset /\ draft.text)

\* A restore: whatever lies in a Group, but for columns directly in it.
LostInRestore == InGroup /\ ~ (IsColumn /\ DirectGroup)

-----------------------------------------------------------------------------
(***************************************************************************)
(* Requests.                                                               *)
(***************************************************************************)
FieldInit ==
    /\ place \in Places
    /\ alive = Targets /\ stored = {} /\ draft = Unset /\ saved = Unset
    /\ pages = {} /\ told = {} /\ known = {} /\ unwarned = {}

\* The deleted targets that a write brings along: of some the client knew, of
\* others no page could have told.
Brings(listed, unlisted) ==
    /\ known' = (known \cup (listed \ alive)) \cap stored'
    /\ unwarned' = (unwarned \cup (unlisted \ (alive \cup stored))) \cap stored'

Asked(v, lost) == IF lost THEN Unset ELSE v

\* The version remembered.
Keep(version) ==
    saved' \in IF \E p \in pages : p.kind = "restore" THEN {saved} ELSE {saved, version}

\* update_document: the row, and a published version of it
Publish(data, asked) ==
    /\ stored' = StoredFrom(data, FALSE)
    /\ told' = asked
    /\ draft' = Unset
    /\ Keep([obj |-> Snapshot(stored'), text |-> FALSE, told |-> asked])
    /\ UNCHANGED <<place, alive>>

\* update_document with draft; unpublish_document saves such a version of the row
SaveDraft(data, text, asked) ==
    /\ draft' = [obj |-> DraftSnapshot(data), text |-> text, told |-> asked]
    /\ Keep(draft')
    /\ UNCHANGED <<place, alive, stored, told, known, unwarned>>

\* Lua and gRPC differ for columns directly in a Group at the top only.
Entries == IF IsColumn /\ OnlyGroup THEN {"grpc", "lua"} ELSE {"grpc"}
Ways == IF InGroup THEN {"flat", "nested"} ELSE {"flat"}

ApiUpdate(entry, way, v) ==
    /\ Publish(Sent(entry, way, v), Asked(v, LostInWrite(way, FALSE)))
    /\ Brings(v, {}) /\ UNCHANGED pages

ApiDraft(entry, way, v) ==
    SaveDraft(Sent(entry, way, v), FALSE, Asked(v, LostInDraft(entry, way))) /\ UNCHANGED pages

\* An update of other fields turns the checkbox off.
ApiUpdateOfOthers ==
    /\ Publish(Silent, Asked(told, place.kind = "checkbox"))
    /\ Brings({}, {}) /\ UNCHANGED pages

ApiDraftOfOthers == SaveDraft(Silent, FALSE, told) /\ UNCHANGED pages

\* UpdateMany, crap.collections.update_many: no hooks and no version
BulkWrite(data, asked) ==
    /\ stored' = StoredFrom(data, TRUE)
    /\ told' = asked
    /\ UNCHANGED <<place, alive, draft, saved, pages>>

BulkUpdate(way, v) ==
    BulkWrite(Sent("bulk", way, v), Asked(v, LostInWrite(way, TRUE))) /\ Brings(v, {})

BulkUpdateOfOthers ==
    BulkWrite(Silent, Asked(told, place.kind = "checkbox")) /\ Brings({}, {})

-----------------------------------------------------------------------------
(***************************************************************************)
(* The admin's pages: opened by one request, submitted by another.         *)
(***************************************************************************)
Open(page) ==
    /\ Cardinality(pages) < MaxPages
    /\ pages' = pages \cup {page}
    /\ UNCHANGED <<place, alive, stored, draft, saved, told, known, unwarned>>

Submit(page) == page \in pages /\ pages' = pages \ {page}

\* The form of a document.  Fields that it hides it neither shows nor asks for.
OpenForm ==
    LET asked == IF place.hidden THEN {} ELSE IF draft # Unset THEN draft.told ELSE told
    IN  Open([kind |-> "form", shows |-> FormShows, told |-> Asked(asked, LostInForm)])

FormAsks(page) == IF page.told # Unset /\ place.hidden THEN told ELSE page.told

\* Somebody changes the field in a form, opened at any time: the target chosen
\* may be deleted before the form is saved.
FormUpdate(v) ==
    /\ ~ place.hidden /\ Publish(FormData(v), v)
    /\ Brings({}, v) /\ UNCHANGED pages

\* Or leaves it as it was shown.  A hidden checkbox is turned off.
FormUpdateUntouched(page) ==
    /\ page.kind = "form" /\ Submit(page)
    /\ Publish(FormData(page.shows),
               Asked(FormAsks(page), place.hidden /\ place.kind = "checkbox"))
    /\ Brings({}, page.shows)

\* A checkbox that was turned off stays on in the draft.
StaysOn(v) == place.kind = "checkbox" /\ v = {} /\ stored # {}

FormDraft(v) ==
    /\ ~ place.hidden
    /\ SaveDraft(FormData(v), place.kind = "refs",
                 Asked(v, LostInDraft("form", "flat") \/ StaysOn(v)))
    /\ UNCHANGED pages

FormDraftUntouched(page) ==
    /\ page.kind = "form" /\ Submit(page)
    /\ SaveDraft(FormData(page.shows), place.kind = "refs",
                 Asked(FormAsks(page), LostInDraft("form", "flat") \/ StaysOn(page.shows)))

\* restore_version.
RestoreVersion ==
    /\ saved # Unset
    /\ stored' = StoredFrom(Json(Extracted(saved.obj), Unset), TRUE)
    /\ told' = Asked(saved.told, LostInRestore)
    /\ UNCHANGED <<place, alive, saved>>

OpenRestore ==
    /\ saved # Unset
    /\ Open([kind |-> "restore", gone |-> Shows(saved.obj) \ alive, listed |-> Absentees(saved.obj)])

Restore(page) ==
    /\ page.kind = "restore" /\ Submit(page)
    /\ RestoreVersion /\ draft' = Unset
    /\ Brings(page.listed, Shows(saved.obj) \ page.gone)

\* gRPC has no page.  The version keeps its status, it may be a draft again; and
\* if the restore breaks off before it is recorded, the draft stays.
RestoreUnasked ==
    /\ RestoreVersion /\ draft' \in {draft, Unset, saved}
    /\ Brings({}, Shows(saved.obj)) /\ UNCHANGED pages

\* Without a connection the search finds nothing, and the page says nothing.
OpenDelete(t) ==
    /\ t \in alive /\ place.kind # "checkbox"
    /\ \E searched \in BOOLEAN :
           Open([kind |-> "delete", target |-> t, named |-> searched /\ t \in stored,
                 listed |-> searched /\ t \in Referring])

\* delete_document, told of by a page that named or listed the target or did not.
DeleteTarget(t, named, listed) ==
    /\ t \in alive /\ place.kind # "checkbox"
    /\ alive' = alive \ {t}
    /\ known' = known \cup (IF listed THEN {t} \cap stored ELSE {})
    /\ unwarned' = unwarned \cup (IF named THEN {} ELSE {t} \cap stored)
    /\ UNCHANGED <<place, stored, draft, saved, told>>

Delete(page) ==
    /\ page.kind = "delete" /\ Submit(page)
    /\ DeleteTarget(page.target, page.named, page.listed)

\* gRPC, DeleteMany, Lua, MCP, or a DELETE that nobody opened a page for.
DeleteUnasked(t) == DeleteTarget(t, FALSE, FALSE) /\ UNCHANGED pages

FieldNext ==
    \/ \E entry \in Entries, way \in Ways, v \in FieldValue :
           ApiUpdate(entry, way, v) \/ ApiDraft(entry, way, v)
    \/ ApiUpdateOfOthers \/ ApiDraftOfOthers
    \/ \E way \in Ways, v \in FieldValue : BulkUpdate(way, v)
    \/ BulkUpdateOfOthers
    \/ OpenForm \/ OpenRestore \/ RestoreUnasked
    \/ \E v \in FieldValue : FormUpdate(v) \/ FormDraft(v)
    \/ \E page \in pages :
           FormUpdateUntouched(page) \/ FormDraftUntouched(page) \/ Restore(page) \/ Delete(page)
    \/ \E t \in Targets : OpenDelete(t) \/ DeleteUnasked(t)

FieldSpec == FieldInit /\ [][FieldNext]_fieldVars

-----------------------------------------------------------------------------
(***************************************************************************)
(* What must hold.                                                         *)
(***************************************************************************)
Seen(v) == IF place.kind = "checkbox" THEN v ELSE v \cap alive

(* Wherever the definition puts a field and whichever way its value came,  *)
(* went through drafts, forms and versions and was restored, a read of the *)
(* document, and of its draft, shows the value last asked for: what a      *)
(* client sent or a form showed, however old the form was.  The losses     *)
(* that the code has at its stations are those named above and no others.  *)
KeptAsWritten ==
    /\ told # Unset => Seen(stored) = Seen(told)
    /\ (draft # Unset /\ draft.told # Unset) => Seen(Shows(draft.obj)) = Seen(draft.told)

(* A document names a deleted document only if somebody was told: the page *)
(* before the delete listed the reference, the page before a restore       *)
(* listed the missing document, or the client sent the id afterwards; or   *)
(* if no page could have told (unwarned): the delete or the restore had    *)
(* none, the reference was written or the target deleted after the page    *)
(* was opened, or the page had no connection to search with, or a form     *)
(* opened before the delete was saved after it.  There is no other gap.    *)
(* Drafts and versions may name what they like, they do not bring it back. *)
(* Not so for references in a Group's join tables and in the Groups of     *)
(* rows, which the page before the delete does not find.                   *)
ReferencesKnown ==
    (IsColumn \/ ~ InGroup) /\ place.kind \notin {"checkbox", "groupedRows"}
        => stored \ alive \subseteq known \cup unwarned
=============================================================================
