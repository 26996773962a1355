------------------------------- MODULE Rules -------------------------------
(***************************************************************************)
(* What `required` and `unique` on a field are worth: one field of one     *)
(* collection, and every way by which a value comes into its column.       *)
(*                                                                         *)
(* Create and update validate what they were sent, under the names that    *)
(* columns have, and write something that is made from it afterwards;      *)
(* other ways do not validate, and the table has constraints only where    *)
(* the column was created together with it.  Every write is one IMMEDIATE  *)
(* transaction (a gRPC restore is its first statement here), hence one     *)
(* step; a write that is refused changes nothing.                          *)
(*                                                                         *)
(* `export` and `import` belong here because an import is a way in, and    *)
(* because unique columns make it touch documents it does not name.        *)
(***************************************************************************)
EXTENDS Naturals, SequencesExt

CONSTANTS
    Docs,         \* ids
    Values,       \* values of the field, in the form the column holds
    NullText,     \* the text "null"
    Null,         \* NULL
    Absent,       \* no row, no version
    Unsent, Empty, JsonNull,  \* no key, an empty text, a null in a gRPC request
    Fields,       \* the fields and collections considered
    MaxEntries    \* bound on the writes, the addition of a column among them

(*   drafts: the collection has drafts; required: so is the field          *)
(*   first: the column was created with the table, not added to it         *)
(*   default: the DEFAULT of the column                                    *)
(*   date: a date, which clients may send in forms that storing normalises *)
(*   place: on top, in a Group, or in a wrapper inside a wrapper           *)
Field == [drafts : BOOLEAN, required : BOOLEAN, first : BOOLEAN, default : Values \cup {Null},
               date : BOOLEAN, place : {"top", "group", "deep"}]

Stored == Values \cup {NullText, Null}
TableRow == [value : Stored, published : BOOLEAN]
Record == [id : Docs, value : Stored, published : BOOLEAN]

ASSUME RulesAssumption ==
    /\ Fields \subseteq Field /\ IsFiniteSet(Docs) /\ MaxEntries \in Nat \ {0}
    /\ {NullText, Null} \cap Values = {} /\ {Unsent, Empty, JsonNull} \cap Values = {}
    /\ NullText # Null /\ Absent \notin TableRow
    /\ Unsent # Empty /\ Unsent # JsonNull /\ Empty # JsonNull

VARIABLES
    def,
    row,      \* the table
    version,  \* some version of some document
    file,     \* what an export wrote, in the order of its query; <<>> if there is none
    written,  \* writes so far
    waived    \* the rules that the value a document has was not held to

rulesVars == <<def, row, version, file, written, waived>>

RulesTypeOK ==
    /\ def \in Fields /\ row \in [Docs -> TableRow \cup {Absent}]
    /\ version \in Record \cup {Absent} /\ file \in Seq(Record)
    /\ written \in 0 .. MaxEntries /\ waived \in [Docs -> SUBSET {"required", "unique"}]

Present == {d \in Docs : row[d] # Absent}
As(d, value, published) == [id |-> d, value |-> value, published |-> published]

(* Adding a column to a table that is there gives the documents in it the  *)
(* DEFAULT of the column, NULL if it has none, and holds it to no rule;    *)
(* their versions know nothing of the field.                               *)
Brought == {new \in TableRow : /\ ~ def.first /\ new.value = def.default
                               /\ ~ def.drafts => new.published}
Earlier == IF def.drafts THEN {As(d, Null, p) : d \in Present, p \in BOOLEAN} ELSE {}

\* A start has created the table, or added the column to one.
RulesInit ==
    /\ def \in Fields
    /\ row \in [Docs -> Brought \cup {Absent}]
    /\ version \in {Absent} \cup Earlier
    /\ waived = [d \in Docs |-> IF d \in Present THEN {"required", "unique"} ELSE {}]
    /\ file = <<>> /\ written = IF Present = {} THEN 0 ELSE 1

-----------------------------------------------------------------------------
(* The table's own constraints *)

UniqueColumn  == def.first
NotNullColumn == def.first /\ def.required /\ ~ def.drafts

Sharing(rows, d, e) ==
    d # e /\ rows[d] # Absent /\ rows[e] # Absent /\ rows[d].value = rows[e].value
          /\ rows[d].value # Null

Accepts(rows) ==
    /\ UniqueColumn => \A d, e \in Docs : ~ Sharing(rows, d, e)
    /\ NotNullColumn => \A d \in Docs : rows[d] # Absent => rows[d].value # Null

(* A write that leaves out rules waives them for its documents, and        *)
(* uniqueness for those that now share the value with them as well.        *)
Waiving(rows, ds, rules) ==
    [x \in Docs |->
        IF rows[x] = Absent THEN {}
        ELSE IF x \in ds THEN rules
        ELSE IF "unique" \in rules /\ \E d \in ds : Sharing(rows, x, d) THEN waived[x] \cup {"unique"}
        ELSE waived[x]]

\* The rows that documents ds get, and the rules they have not been held to.
Put(rows, ds, rules) ==
    /\ written < MaxEntries /\ written' = written + 1
    /\ Accepts(rows)
    /\ row' = rows /\ waived' = Waiving(rows, ds, rules)
    /\ UNCHANGED <<def, file>>

\* Collections with drafts keep a version of each write.
Remember(v) == version' \in {version} \cup (IF def.drafts THEN {v} ELSE {})

-----------------------------------------------------------------------------
(* Validation *)

Ways  == IF def.place = "group" THEN {"flat", "object"} ELSE {"flat"}
Forms == IF def.date THEN {"stored", "other"} ELSE {"stored"}

\* value, in which form, under the column's name or inside the Group's
\* object, and whether the request is for a draft
Requests ==
    {r \in [value : Values \cup {Unsent, Empty, JsonNull}, form : Forms, way : Ways,
             draft : {FALSE, def.drafts}] :
        (r.form = "other" => r.value \in Values) /\ (r.way = "object" => r.value # Unsent)}

\* Validation looks under the column's name only.
Seen(r) == IF r.way = "flat" THEN r.value ELSE Unsent
IsEmpty(v) == v \in {Unsent, Empty, JsonNull}

RequiredOk(r, isUpdate) ==
    def.required /\ ~ r.draft /\ ~ (isUpdate /\ Seen(r) = Unsent) => ~ IsEmpty(Seen(r))

\* Mutant: the other documents are not looked at for a draft.
UniqueOkPublished(r, d) ==
    r.draft \/ IsEmpty(Seen(r))
        \/ \A e \in Present \ {d} : ~ (r.form = "stored" /\ row[e].value = Seen(r))

\* The raw text is compared with what the columns hold.
UniqueOk(r, d) ==
    ~ IsEmpty(Seen(r)) =>
        \A e \in Present \ {d} : ~ (r.form = "stored" /\ row[e].value = Seen(r))

Validated(r, d, isUpdate) == RequiredOk(r, isUpdate) /\ UniqueOk(r, d)

\* What is written of it: a null is the text "null" by then.
Coerced(v, old) == CASE v = Unsent   -> old
                     [] v = Empty    -> Null
                     [] v = JsonNull -> NullText
                     [] OTHER        -> v

(* What the validation of a request lets through: a text that is not in    *)
(* the form of the column, a null, whatever is inside an object; on an     *)
(* update a value that stays as it is, though the update publishes it; on  *)
(* a create the DEFAULT of the column.                                     *)
Unheld(r) ==
    (IF r.form = "other" \/ r.way = "object" \/ r.value \in {Unsent, JsonNull} THEN {"unique"} ELSE {})
        \cup (IF r.way = "object" \/ r.value = Unsent THEN {"required"} ELSE {})

-----------------------------------------------------------------------------
(* The ways in *)

Create(d, r) ==
    /\ row[d] = Absent /\ Validated(r, d, FALSE)
    /\ LET new == [value |-> Coerced(r.value, def.default), published |-> ~ r.draft]
       IN  /\ Put([row EXCEPT ![d] = new], {d}, Unheld(r))
           /\ Remember(As(d, new.value, new.published))

Update(d, r) ==
    /\ d \in Present /\ ~ r.draft /\ Validated(r, d, TRUE)
    /\ LET new == [value |-> Coerced(r.value, row[d].value), published |-> TRUE]
           rules == IF r.value = Unsent THEN {"required"} \cup (waived[d] \cap {"unique"}) ELSE Unheld(r)
       IN  /\ Put([row EXCEPT ![d] = new], {d}, rules)
           /\ Remember(As(d, new.value, TRUE))

(* A draft is a version and leaves the row alone.  (Of drafts sent inside  *)
(* an object FieldStorage says what is kept.)                              *)
UpdateDraft(d, r) ==
    /\ d \in Present /\ r.draft /\ r.way = "flat" /\ Validated(r, d, TRUE)
    /\ version' = As(d, IF r.value \in {Empty, JsonNull} THEN Null ELSE Coerced(r.value, row[d].value), FALSE)
    /\ UNCHANGED <<def, row, file, written, waived>>

(* Lua with hooks = false, and before_change hooks, which run after the    *)
(* validation: any value.                                                  *)
UncheckedCreate(d, v, draft) ==
    /\ row[d] = Absent /\ draft => def.drafts
    /\ Put([row EXCEPT ![d] = [value |-> v, published |-> ~ draft]], {d}, {"required", "unique"})
    /\ Remember(As(d, v, ~ draft))

UncheckedUpdate(d, v) ==
    /\ d \in Present
    /\ Put([row EXCEPT ![d] = [value |-> v, published |-> TRUE]], {d}, {"required", "unique"})
    /\ Remember(As(d, v, TRUE))

(* UpdateMany, crap.collections.update_many: one value for all that match, *)
(* no validation, no version, and published is what it was.                *)
UpdateMany(ds, v) ==
    /\ ds # {} /\ ds \subseteq Present
    /\ Put([d \in Docs |-> IF d \in ds THEN [row[d] EXCEPT !.value = v] ELSE row[d]],
           ds, {"required", "unique"})
    /\ UNCHANGED version

(* The admin UI publishes what it restores, gRPC keeps the version's       *)
(* status.                                                                 *)
RestoreVersion(published) ==
    /\ version # Absent
    /\ Put([row EXCEPT ![version.id] = [value |-> version.value, published |-> published]],
           {version.id}, {"required", "unique"})
    /\ UNCHANGED version

Unpublish(d) ==
    /\ def.drafts /\ d \in Present
    /\ row' = [row EXCEPT ![d].published = FALSE]
    /\ Remember(As(d, row[d].value, FALSE))
    /\ UNCHANGED <<def, file, written, waived>>

Forget(ds) == version' = IF version # Absent /\ version.id \in ds THEN Absent ELSE version

Delete(d) ==
    /\ d \in Present
    /\ row' = [row EXCEPT ![d] = Absent] /\ waived' = [waived EXCEPT ![d] = {}]
    /\ Forget({d})
    /\ UNCHANGED <<def, file, written>>

-----------------------------------------------------------------------------
(* `crap-cms export` and `import` *)

Export ==
    /\ file = <<>> /\ Present # {}
    /\ \E ds \in SetToSeqs(Present) :
           file' = [i \in DOMAIN ds |-> As(ds[i], row[ds[i]].value, row[ds[i]].published)]
    /\ UNCHANGED <<def, row, version, written, waived>>

\* NULL is left out of the INSERT, as is a field inside two wrappers.
Imported(record) ==
    IF record.value = Null \/ def.place = "deep" THEN def.default ELSE record.value

\* Mutant: INSERT OR IGNORE, which leaves alone what is there.
ReplaceOrIgnore(rows, record) ==
    LET new == [value |-> Imported(record), published |-> TRUE]
        others == [rows EXCEPT ![record.id] = new]
    IN  IF rows[record.id] # Absent \/ (UniqueColumn /\ \E d \in Docs : Sharing(others, d, record.id))
        THEN rows ELSE others

(* INSERT OR REPLACE deletes the row of the same id and, where the column  *)
(* is unique, the row of the same value; _status takes its DEFAULT.        *)
Replace(rows, record) ==
    LET new == [value |-> Imported(record), published |-> TRUE]
        others == [rows EXCEPT ![record.id] = new]
    IN  [d \in Docs |-> IF UniqueColumn /\ Sharing(others, d, record.id) THEN Absent ELSE others[d]]

ImportRefused == NotNullColumn /\ \E i \in DOMAIN file : Imported(file[i]) = Null

\* The table after the first n records of the file.
Replaced[n \in 0 .. Len(file)] ==
    IF n = 0 THEN row ELSE Replace(Replaced[n - 1], file[n])

Named == {file[i].id : i \in DOMAIN file}

Import ==
    /\ file # <<>> /\ file' = <<>>
    /\ IF ImportRefused
       THEN UNCHANGED <<row, version, waived>>
       ELSE /\ row' = Replaced[Len(file)]
            /\ waived' = Waiving(row', Named, {"required", "unique"})
            /\ Forget(Named \cup {d \in Present : row'[d] = Absent})
    /\ UNCHANGED <<def, written>>

RulesNext ==
    \/ \E d \in Docs, r \in Requests : Create(d, r) \/ Update(d, r) \/ UpdateDraft(d, r)
    \/ \E d \in Docs, v \in Values \cup {Null} :
           \/ \E draft \in BOOLEAN : UncheckedCreate(d, v, draft)
           \/ UncheckedUpdate(d, v)
    \/ \E ds \in SUBSET Docs, v \in Values \cup {Null} : UpdateMany(ds, v)
    \/ version # Absent /\ \E published \in {TRUE, version.published} : RestoreVersion(published)
    \/ \E d \in Docs : Unpublish(d) \/ Delete(d)
    \/ Export \/ Import

RulesSpec == RulesInit /\ [][RulesNext]_rulesVars

-----------------------------------------------------------------------------
(***************************************************************************)
(* What must hold.                                                         *)
(***************************************************************************)

(* Two documents never share a value of a unique field, whoever wrote      *)
(* first, last or between, drafts included, unless one of the ways above   *)
(* that leave the rule out brought the value in, or it came with the       *)
(* column, which gives all that are there the same DEFAULT; and then only  *)
(* if the column was added to a table that was there.                      *)
UniqueHolds ==
    \A d, e \in Docs : Sharing(row, d, e) =>
        ~ UniqueColumn /\ "unique" \in waived[d] /\ "unique" \in waived[e]

(* A published document has a value in its required field, unless the      *)
(* value came, or the document was published, by a way that leaves the     *)
(* rule out: an update that does not send the field publishes a draft      *)
(* without it; or unless it was there before the column, which left NULL   *)
(* in it.                                                                  *)
PublishedComplete ==
    \A d \in Present : def.required /\ row[d].published /\ row[d].value = Null =>
        ~ NotNullColumn /\ "required" \in waived[d]

\* Both rules at once.
RulesKept == UniqueHolds /\ PublishedComplete

(* After an import every document of the file is there as it was exported, *)
(* but published; and of the others only those are gone that a unique      *)
(* column makes way for.  Where the column has a DEFAULT, it replaces      *)
(* NULL, and may displace what the same import has just put in.            *)
Displaced(d) ==
    UniqueColumn /\ row'[d] = Absent /\ \E i \in DOMAIN file : Imported(file[i]) = row[d].value

Kept(record) ==
    LET new == row'[record.id]
    IN  IF new = Absent
        THEN UniqueColumn /\ def.default # Null /\ Imported(record) = def.default
        ELSE new.value = record.value \/ record.value = Null \/ def.place = "deep"

ImportKeeps ==
    [][Import /\ ~ ImportRefused =>
           /\ \A i \in DOMAIN file : Kept(file[i])
           /\ \A d \in Present \ Named : row'[d] = row[d] \/ Displaced(d)]_rulesVars
=============================================================================
