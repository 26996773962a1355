------------------------------- MODULE Locales -------------------------------
(***************************************************************************)
(* One collection whose definition changes from one start of the server to *)
(* the next: a text field, stored in one column or in one per locale, and  *)
(* a has-many relationship, stored in a junction table with or without a   *)
(* _locale column.  sync_all fits the tables to the definition, requests   *)
(* write and read one document in the locale they name, versions are       *)
(* restored, and `crap-cms db cleanup` drops the columns that the          *)
(* definition on disk no longer names.                                     *)
(*                                                                         *)
(* A column is named by its slot: Plain is the column `title`, a locale l  *)
(* is `title__l`.  A text carries the slot it was addressed to, so that    *)
(* one can see where it ended up.  Requests, restores and a sync are one   *)
(* transaction each, hence one step (Documents takes the gRPC restore      *)
(* apart); a cleanup drops one column at a time.                           *)
(***************************************************************************)
EXTENDS Integers, FiniteSets

CONSTANTS
    Locales,       \* locale codes that a configuration or a request may name
    Default,       \* default_locale
    Plain,         \* the slot without a locale
    None,          \* NULL, or a value that a request does not give
    Targets,       \* documents the relationship may name
    Definitions,   \* definitions that may be deployed
    MaxWrites,     \* bound on the writes
    MaxStarts      \* bound on the changes of the definition

Slots == Locales \cup {Plain}

(* What of a collection's definition and of [locale] matters here.         *)
(*   locales:  the locales of crap.toml, none if localisation is off       *)
(*   title:    the text field: not there, not localized, or localized,     *)
(*             by its own flag or, if it is in a Group, by the Group's     *)
(*   required: the text field is                                           *)
(*   drafts:   versions with drafts                                        *)
(*   tags:     the relationship is localized                               *)
Definition == [locales : SUBSET Locales, title : {"absent", "plain", "localized"},
               required : BOOLEAN, drafts : BOOLEAN, tags : BOOLEAN]

ASSUME LocalesAssumption ==
    /\ Default \in Locales /\ Plain \notin Locales /\ None \notin Slots
    /\ IsFiniteSet(Targets) /\ None \notin Targets
    /\ Definitions \subseteq {d \in Definition : d.locales = {} \/ Default \in d.locales}
    /\ MaxWrites \in Nat /\ MaxStarts \in Nat

VARIABLES
    grouped,    \* the text field lies in a Group (it never moves)
    files,      \* the definition on disk, which commands and the next start load
    served,     \* the definition the server works with
    cols,       \* the columns of the field that the table has
    notNull,    \* those declared NOT NULL
    exists,     \* the document does
    cell,       \* its text in each column
    rows,       \* its rows in the junction table
    byLocale,   \* the junction table has a _locale column
    keyed,      \* and its primary key includes it
    indexed,    \* the columns of the full text index
    text,       \* what the index holds of the document
    saved,      \* its latest version, None if there is none
    cleaning,   \* the columns a cleanup has listed, None if none runs
    writes, starts,
    \* what the properties compare with
    told,       \* the text last accepted for each address
    crossed,    \* slots a restore filled with the text of another
    strays,     \* rows a restore put into another locale
    replaced,   \* slots a restore emptied, or filled with another text than
                \* the version was saved with
    unindexed,  \* a restore changed the document since the index heard of it
    named,      \* the columns of the definition that a running cleanup loaded
    gone        \* columns dropped that it did not name, until written again

table   == <<cols, notNull, byLocale, keyed>>
content == <<exists, cell, rows, saved, told, crossed, strays, replaced>>
index   == <<indexed, text, unindexed>>
localesVars == <<grouped, files, served, table, content, index, cleaning, writes, starts,
                 named, gone>>

Text == [for : Slots, n : 1 .. MaxWrites] \cup {None}
Row  == [to : Targets, at : Slots, for : Slots]

\* The text as the document showed it, or an object with one for each locale.
\* As history the slot it was saved for, None if it is not what was accepted
\* for one, and what was accepted.
Version == [title : Text, each : BOOLEAN, rows : SUBSET Row, of : Slots \cup {None}, told : Text]

LocalesTypeOK ==
    /\ grouped \in BOOLEAN /\ files \in Definitions /\ served \in Definitions
    /\ cols \subseteq Slots /\ notNull \subseteq cols
    /\ exists \in BOOLEAN
    /\ cell \in [Slots -> Text] /\ \A s \in Slots \ cols : cell[s] = None
    /\ rows \subseteq Row /\ (rows # {} => exists)
    /\ byLocale \in BOOLEAN /\ keyed \in BOOLEAN /\ (keyed => byLocale)
    /\ indexed \subseteq Slots /\ text \in [Slots -> Text] /\ unindexed \in BOOLEAN
    /\ saved = None \/ saved \in Version
    /\ cleaning = None \/ cleaning \subseteq Slots
    /\ told \in [Slots -> Text] /\ crossed \subseteq Slots /\ strays \subseteq rows
    /\ replaced \subseteq Slots /\ named \subseteq Slots /\ gone \subseteq Slots
    /\ writes \in 0 .. MaxWrites /\ starts \in 0 .. MaxStarts

-----------------------------------------------------------------------------
(***************************************************************************)
(* Where a definition keeps what.                                          *)
(***************************************************************************)
Enabled(def)       == def.locales # {}
LocalizedText(def) == Enabled(def) /\ def.title = "localized"
LocalizedTags(def) == Enabled(def) /\ def.tags

\* Mutant: one column, that of the default locale.
DefaultColumns(def) ==
    IF def.title = "absent" THEN {} ELSE IF LocalizedText(def) THEN {Default} ELSE {Plain}

\* collect_column_specs
Columns(def) ==
    IF def.title = "absent" THEN {} ELSE IF LocalizedText(def) THEN def.locales ELSE {Plain}

\* Mutant: the suffixes of the other locales are forgotten.
ExpectedDefault(def) ==
    {s \in Slots : def.title # "absent" /\ s = IF LocalizedText(def) THEN Default ELSE Plain}

\* get_expected_column_names, which goes through the fields once more
Expected(def) ==
    {s \in Slots : def.title # "absent" /\ IF LocalizedText(def) THEN s \in def.locales
                                                              ELSE s = Plain}

\* "Content without an explicit locale uses" the default one; so does content
\* for a locale that is not configured.
Known(def, l) == IF l \in def.locales THEN l ELSE Default

\* add_locale_columns: the column a read in locale l shows, and what it holds
\* or falls back to
ReadSlot(def, l) == IF LocalizedText(def) THEN Known(def, l) ELSE Plain
Shown(def, l, held) ==
    LET own == held[ReadSlot(def, l)]
    IN  IF own = None /\ LocalizedText(def) THEN held[Default] ELSE own

\* Mutant: every locale is written to the default one's column.
WriteSlotDefault(def, l) == IF LocalizedText(def) /\ ~ grouped THEN Default ELSE Plain

\* locale_write_column looks at the flag of the field itself.
WriteSlot(def, l) ==
    IF LocalizedText(def) /\ ~ grouped THEN Known(def, l) ELSE Plain

\* resolve_join_locale takes the locale of the request as it is.
JoinLocale(def, l) ==
    IF ~ LocalizedTags(def) THEN Plain ELSE IF l \in Locales THEN l ELSE Default

\* get_fts_columns knows the fields at the top level.
SearchColumns(def) == IF grouped THEN {} ELSE Columns(def)

\* create_collection_table
RequiredColumns(def) ==
    IF def.required /\ ~ def.drafts THEN Columns(def) \cap {Plain, Default} ELSE {}

-----------------------------------------------------------------------------
(***************************************************************************)
(* Starts.                                                                 *)
(***************************************************************************)
\* The first start creates the tables.
LocalesInit ==
    /\ grouped \in BOOLEAN
    /\ served \in Definitions /\ files = served
    /\ cols = Columns(served) /\ notNull = RequiredColumns(served)
    /\ byLocale = LocalizedTags(served) /\ keyed = byLocale
    /\ indexed = SearchColumns(served) /\ unindexed = FALSE
    /\ text = [s \in Slots |-> None] /\ cell = text /\ told = text
    /\ exists = FALSE /\ rows = {} /\ saved = None
    /\ crossed = {} /\ strays = {} /\ replaced = {} /\ named = {} /\ gone = {}
    /\ cleaning = None /\ writes = 0 /\ starts = 0

\* alter_collection_table only adds columns, NOT NULL stays as it was; a
\* junction table that is there may get a _locale column, with the default
\* locale in every row, and keeps its key.
SyncTables(def) ==
    /\ cols' = cols \cup Columns(def)
    /\ byLocale' = (byLocale \/ LocalizedTags(def))
    /\ rows' = IF byLocale THEN rows
               ELSE {[r EXCEPT !.at = IF byLocale' THEN Default ELSE Plain] : r \in rows}
    /\ UNCHANGED <<notNull, keyed>>

\* Mutant: the index gets its new columns and is not filled.
SyncIndexColumns(def) ==
    /\ indexed' = SearchColumns(def)
    /\ text' = text
    /\ unindexed' = FALSE

\* sync_fts_table builds the index anew.
SyncIndex(def) ==
    /\ indexed' = SearchColumns(def)
    /\ text' = [s \in Slots |-> IF s \in indexed' THEN cell[s] ELSE None]
    /\ unindexed' = FALSE

SyncAll(def) ==
    SyncTables(def) /\ SyncIndex(def)
    /\ UNCHANGED <<exists, cell, saved, told, crossed, strays, replaced>>

\* Somebody edits crap.toml or the Lua definitions.
Edit(def) ==
    /\ starts < MaxStarts /\ def # files
    /\ files' = def /\ starts' = starts + 1
    /\ UNCHANGED <<grouped, served, table, content, index, cleaning, writes, named, gone>>

Start ==
    /\ served # files
    /\ served' = files
    /\ SyncAll(files)
    /\ UNCHANGED <<grouped, files, cleaning, writes, starts, named, gone>>

-----------------------------------------------------------------------------
(***************************************************************************)
(* Writes.  A request names a locale, none, or "all"; it may set the text, *)
(* clear it or leave it out, and give the relationship or leave it out.    *)
(***************************************************************************)
Requested == Locales \cup {None, "all"}
Changes   == {"set", "clear", "keep"}
Given     == (SUBSET Targets) \cup {None}

\* check_required
Valid(change) ==
    /\ served.title = "absent" => change = "keep"
    /\ change = "clear" => ~ served.required
    /\ (change = "keep" /\ ~ exists) => (~ served.required \/ served.drafts)

\* Why the database refuses it, whatever the definition says.
NoColumn(l, change) ==
    \/ change # "keep" /\ WriteSlot(served, l) \notin cols
    \/ ~ (Columns(served) \subseteq cols)             \* the document is read back
LeavesNull(l, change) ==
    \E c \in notNull : IF c = WriteSlot(served, l) /\ change # "keep" THEN change = "clear"
                       ELSE ~ exists
Duplicate(l, given) ==
    /\ given # None /\ JoinLocale(served, l) # Plain /\ ~ keyed
    /\ \E r \in rows : r.at # JoinLocale(served, l) /\ r.to \in given
Refused(l, change, given) ==
    NoColumn(l, change) \/ LeavesNull(l, change) \/ Duplicate(l, given)

\* Mutant: NULL counts as not given.
ChangedIfGiven(l, change) ==
    IF change = "set"
    THEN [cell EXCEPT ![WriteSlot(served, l)] = [for |-> ReadSlot(served, l), n |-> writes + 1]]
    ELSE cell

\* create / update
Changed(l, change) ==
    IF change = "keep" THEN cell
    ELSE [cell EXCEPT ![WriteSlot(served, l)] =
              IF change = "set" THEN [for |-> ReadSlot(served, l), n |-> writes + 1] ELSE None]

\* set_related_ids; a row inserted without a locale gets the column's default.
Related(l, given) ==
    LET at == JoinLocale(served, l)
    IN  IF given = None THEN rows
        ELSE IF at = Plain
        THEN {[to |-> t, at |-> IF byLocale THEN Default ELSE Plain, for |-> Plain] : t \in given}
        ELSE {r \in rows : r.at # at} \cup {[to |-> t, at |-> at, for |-> at] : t \in given}

\* The text in the document that create and update return, if it has the field:
\* "all" makes it an object, which neither the index nor a restore can use.
Object(l) == l = "all" /\ LocalizedText(served)
Returned(l) ==
    IF Object(l) \/ served.title = "absent" THEN None ELSE Shown(served, l, cell')

\* The slots a read in locale l depends on, and those it cannot be held to.
Consulted(def, l, held) ==
    {ReadSlot(def, l)}
    \cup (IF LocalizedText(def) /\ held[ReadSlot(def, l)] = None THEN {Default} ELSE {})
Lost == replaced \cup gone

\* build_snapshot takes the rows of all locales; a restore may pick any version.
Snapshot(l) ==
    LET known == ~ Object(l) /\ served.title # "absent"
                 /\ Consulted(served, l, told') \cap Lost' = {}
    IN  [title |-> Returned(l), each |-> Object(l), rows |-> rows',
         of    |-> IF known THEN ReadSlot(served, l) ELSE None,
         told  |-> IF known THEN Shown(served, l, told') ELSE None]
SaveVersion(version) ==
    IF served.drafts THEN saved' \in {version} \cup ({saved} \ {None})
    ELSE UNCHANGED saved

\* fts_upsert looks the columns of the index up in the returned document,
\* which has the text under the name of the field.
Upsert(l) ==
    /\ text' = [s \in Slots |-> IF s \in indexed \cap {Plain} THEN Returned(l) ELSE None]
    /\ unindexed' = FALSE
    /\ UNCHANGED indexed

Write(l, change, given) ==
    /\ writes < MaxWrites /\ Valid(change) /\ ~ Refused(l, change, given)
    /\ exists' = TRUE
    /\ cell' = Changed(l, change)
    /\ rows' = Related(l, given)
    /\ told' = IF change = "keep" THEN told
               ELSE [told EXCEPT ![ReadSlot(served, l)] = 
                         IF change = "set" THEN [for |-> ReadSlot(served, l), n |-> writes + 1]
                         ELSE None]
    /\ LET over(set) == IF change = "keep" THEN set ELSE set \ {WriteSlot(served, l)}
       IN  /\ crossed' = over(crossed) /\ replaced' = over(replaced) /\ gone' = over(gone)
    /\ strays' = strays \cap rows'
    /\ SaveVersion(Snapshot(l))
    /\ Upsert(l)
    /\ writes' = writes + 1
    /\ UNCHANGED <<grouped, files, served, table, cleaning, starts, named>>

(* restore_version: "clear ALL locale columns, set default from snapshot". *)
(* A version without the field clears a plain column as well, one with an  *)
(* object for it leaves that alone.                                        *)
Restored(version) ==
    [s \in Slots |-> IF s \notin Columns(served) \/ (s = Plain /\ version.each) THEN cell[s]
                     ELSE IF s \in {Plain, Default} THEN version.title ELSE None]

\* Its rows go in without a locale; the same target twice breaks the key.
Twice(version) == \E r, q \in version.rows : r # q /\ r.to = q.to

Restore ==
    /\ exists /\ served.drafts /\ saved # None
    /\ Columns(served) \subseteq cols /\ ~ Twice(saved)
    /\ cell' = Restored(saved)
    /\ \A c \in notNull \cap Columns(served) : cell'[c] # None
    /\ LET at == IF byLocale THEN Default ELSE Plain
       IN  rows' = {[r EXCEPT !.at = at] : r \in saved.rows}
    /\ strays' = {r \in rows' : r.for \notin {r.at, Plain}}
    /\ LET kept == {saved.of} \cap {Plain, Default} \cap Columns(served)
       IN  /\ told' = [s \in Slots |-> IF s \in kept THEN saved.told ELSE told[s]]
           /\ replaced' = (replaced \cup Columns(served)) \ kept
           /\ gone' = gone \ kept
    /\ crossed' = (crossed \ Columns(served))
                  \cup {s \in Columns(served) : cell'[s] # None /\ s # cell'[s].for}
    /\ unindexed' = TRUE
    /\ UNCHANGED <<grouped, files, served, table, exists, saved, indexed, text, cleaning,
                   writes, starts, named>>

-----------------------------------------------------------------------------
(***************************************************************************)
(* crap-cms db cleanup --confirm                                           *)
(***************************************************************************)
CleanupLists ==
    /\ cleaning = None
    /\ SyncAll(files)
    /\ LET orphans == cols' \ Expected(files)
       IN  /\ cleaning' = IF orphans = {} THEN None ELSE orphans
           /\ named' = IF orphans = {} THEN {} ELSE Columns(files)
    /\ UNCHANGED <<grouped, files, served, writes, starts, gone>>

CleanupDrops(c) ==
    /\ cleaning # None /\ c \in cleaning
    /\ cols' = cols \ {c} /\ notNull' = notNull \ {c}
    /\ cell' = [cell EXCEPT ![c] = None]
    /\ crossed' = crossed \ {c}
    /\ gone' = gone \cup ({c} \ named)
    /\ cleaning' = IF cleaning = {c} THEN None ELSE cleaning \ {c}
    /\ named' = IF cleaning = {c} THEN {} ELSE named
    /\ UNCHANGED <<grouped, files, served, byLocale, keyed, exists, rows, saved, told, strays,
                   replaced, index, writes, starts>>

CleanupKilled ==
    /\ cleaning # None /\ cleaning' = None /\ named' = {}
    /\ UNCHANGED <<grouped, files, served, table, content, index, writes, starts, gone>>

LocalesNext ==
    \/ \E def \in Definitions : Edit(def)
    \/ Start
    \/ \E l \in Requested, change \in Changes, given \in Given : Write(l, change, given)
    \/ Restore
    \/ CleanupLists
    \/ \E c \in Slots : CleanupDrops(c)
    \/ CleanupKilled

LocalesSpec == LocalesInit /\ [][LocalesNext]_localesVars

-----------------------------------------------------------------------------
(***************************************************************************)
(* What must hold.                                                         *)
(***************************************************************************)
(* What was written for one locale never stands in the place of another,   *)
(* whatever becomes of the definition in between: a text lies in the       *)
(* column of the locale it was addressed to and a row of the junction      *)
(* table carries the locale it was related in, unless it was written       *)
(* without one.  restore_version breaks this: it puts the text of the      *)
(* version's locale into the default column and all rows of the version    *)
(* into the default locale, which are excepted until written again.        *)
LanguagesApart ==
    /\ \A s \in Locales \ crossed : cell[s] # None => cell[s].for = s
    /\ \A r \in rows \ strays : r.for \in {r.at, Plain}

(* Whatever the definitions a document has been through, a read in any     *)
(* locale shows what was last accepted for it, or for the default locale   *)
(* where there is nothing: no start of the server, no cleanup and no write *)
(* of another locale takes it away, and a restore puts back what had been  *)
(* accepted when the version was saved.  A localized Group is excepted     *)
(* (its writes go to a column that no read looks at).  So are, until they  *)
(* are written again, columns a cleanup dropped that the definition it had *)
(* loaded did not name, and after a restore the locales other than the     *)
(* default one, which it clears, and the default one, or the column of a   *)
(* field that is not localized, if the version was saved in another        *)
(* locale, in all of them, without the field, or after such a loss.        *)
ReadsBack ==
    (exists /\ ~ grouped) =>
        \A l \in Requested :
            Consulted(served, l, told) \cap Lost = {} => Shown(served, l, cell) = Shown(served, l, told)

\* Columns dropped under a server whose definition names them and whose
\* statements therefore fail, by a cleanup whose own definition did not.
Undermined == gone \cap (Columns(served) \ cols)

(* A write that passes validation is not refused by the database: the      *)
(* tables that the starts have made of old and new definitions can hold    *)
(* it.  Not so: creating a document or clearing a field where a column is  *)
(* still NOT NULL; the relationship where a _locale column was added       *)
(* without the key; a localized Group; and after a cleanup under the       *)
(* running server.                                                         *)
WritesServed ==
    (exists /\ Undermined = {}) =>
        \A l \in Requested, change \in Changes, given \in Given :
            (Valid(change) /\ ~ (grouped /\ LocalizedText(served))
                /\ (change = "clear" => notNull = RequiredColumns(served))
                /\ (given # None => keyed = byLocale))
            => ~ Refused(l, change, given)

(* The full text index never finds a document by a text it no longer has:  *)
(* each column holds the present text.  Or none, as far as locales go:     *)
(* every write blanks their columns until the next start.  A restore does  *)
(* not tell the index at all.                                              *)
SearchCurrent ==
    (exists /\ ~ unindexed /\ indexed = SearchColumns(served)) =>
        \A s \in indexed \ Undermined : text[s] \in IF s = Plain THEN {cell[s]} ELSE {cell[s], None}
=============================================================================
