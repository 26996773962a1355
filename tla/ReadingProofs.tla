--------------------------- MODULE ReadingProofs ---------------------------
(***************************************************************************)
(* Proofs about what a read returns, for any places a field may be defined *)
(* at, any targets, documents, values and page sizes: about FieldStorage   *)
(* that a read shows what was last asked for, but for the losses named,    *)
(* and that nobody is left with a reference to a deleted document of which *)
(* a page could have told and did not; about Paging that a walk along the cursors shows what     *)
(* lies ahead and is left alone exactly once; about Population, for any    *)
(* documents, field lists and depths, that no reference is left out, that  *)
(* the two algorithms agree at depth 1, and that a read by id keeps its    *)
(* depth.                                                                  *)
(***************************************************************************)
EXTENDS FieldStorage, Paging, Population, FiniteSetTheorems, SequenceTheorems, TLAPS

\* A version holds the field under every name by which a read, a form or a
\* restore looks for it, and shows what was asked for.
Whole(version) ==
    /\ InGroup => version.obj.nested # Unset
    /\ ~ InGroup => version.obj.flat # Unset
    /\ InGroup /\ IsColumn => version.obj.flat = version.obj.nested
    /\ version.told # Unset => Seen(Shows(version.obj)) = Seen(version.told)

VersionsWhole == (draft # Unset => Whole(draft)) /\ (saved # Unset => Whole(saved))

\* Fields of which no page lists what they name.
Unlisted == place.kind \in {"checkbox", "groupedRows"}

\* An open page tells of what it should, and a form shows what was asked for,
\* unless it is known to lose it.
TellsTrue(p) ==
    /\ p.kind = "delete" /\ ~ Unlisted /\ (IsColumn \/ ~ InGroup) => (p.named => p.listed)
    /\ p.kind = "restore" /\ ~ Unlisted => p.gone \subseteq p.listed
    /\ p.kind = "form" /\ p.told # Unset =>
         IF place.hidden THEN place.kind \notin {"refs", "rows", "groupedRows"}
         ELSE Seen(p.shows) = Seen(p.told)

PagesTrue == \A p \in pages : TellsTrue(p)

FieldInv == FieldTypeOK /\ KeptAsWritten /\ ReferencesKnown /\ VersionsWhole /\ PagesTrue

\* What a request brings of the field.
Data == [flat : {Unset} \cup FieldValue, nested : {Unset} \cup FieldValue]

-----------------------------------------------------------------------------
LEMMA ValueFacts ==
    /\ {} \in FieldValue
    /\ \A v \in FieldValue : v # Unset /\ v \subseteq Targets
    /\ \A v \in FieldValue, s \in SUBSET Targets : v \cap s \in FieldValue
  <1>1. IsFiniteSet({}) /\ Cardinality({}) = 0
    BY FS_EmptySet
  <1>2. ASSUME NEW v \in FieldValue, NEW s \in SUBSET Targets
        PROVE  v \cap s \in FieldValue
    <2>1. v \in SUBSET Targets /\ IsFiniteSet(v)
      BY FieldAssumption, FS_Subset DEF FieldValue
    <2>2. IsFiniteSet(v \cap s) /\ Cardinality(v \cap s) <= Cardinality(v)
      BY <2>1, FS_Subset
    <2>3. Cardinality(v) \in Nat /\ Cardinality(v \cap s) \in Nat
      BY <2>1, <2>2, FS_CardinalityType
    <2> QED  BY <2>1, <2>2, <2>3 DEF FieldValue
  <1> QED  BY <1>1, <1>2, FieldAssumption DEF FieldValue

\* What the definition says of the field does not change.
LEMMA PlaceStays ==
    ASSUME place' = place
    PROVE  /\ (InGroup' <=> InGroup) /\ (IsColumn' <=> IsColumn) /\ FieldValue' = FieldValue
           /\ Version' = Version /\ Pages' = Pages /\ place.kind' = place.kind
           /\ \A obj : Shows(obj)' = Shows(obj)
  <1>1. (InGroup' <=> InGroup) /\ (IsColumn' <=> IsColumn)
    BY DEF InGroup, IsColumn
  <1>2. FieldValue' = FieldValue
    BY <1>1 DEF FieldValue
  <1> QED  BY <1>1, <1>2 DEF Version, Pages, Shows

\* Values that show alike go on doing so when targets are deleted.
LEMMA SeenStays ==
    ASSUME place' = place, alive' \subseteq alive, NEW v, NEW w, Seen(v) = Seen(w)
    PROVE  Seen(v)' = Seen(w)'
  <1>1. CASE place.kind = "checkbox"  BY <1>1 DEF Seen
  <1>2. CASE place.kind # "checkbox"
    <2>1. v \cap alive = w \cap alive
      BY <1>2 DEF Seen
    <2>2. v \cap alive' = w \cap alive'
      BY <2>1
    <2> QED  BY <1>2, <2>2 DEF Seen
  <1> QED  BY <1>1, <1>2

LEMMA WholeStays ==
    ASSUME place' = place, alive' \subseteq alive, NEW version, Whole(version)
    PROVE  Whole(version)'
  <1>1. Seen(Shows(version.obj)) = Seen(version.told) =>
           Seen(Shows(version.obj))' = Seen(version.told)'
    <2>1. Shows(version.obj)' = Shows(version.obj)
      BY PlaceStays
    <2> QED  BY SeenStays, <2>1 DEF Seen
  <1> QED  BY <1>1, PlaceStays DEF Whole

LEMMA TrueStays ==
    ASSUME place' = place, alive' \subseteq alive, NEW p, TellsTrue(p)
    PROVE  TellsTrue(p)'
  <1>1. Seen(p.shows) = Seen(p.told) => Seen(p.shows)' = Seen(p.told)'
    BY SeenStays
  <1> QED  BY <1>1, PlaceStays DEF TellsTrue, Unlisted

\* Pages that stay open, or are submitted.
LEMMA PagesStay ==
    ASSUME FieldTypeOK, PagesTrue, place' = place, alive' \subseteq alive, pages' \subseteq pages
    PROVE  PagesTrue' /\ pages' \subseteq Pages'
  <1>1. ASSUME NEW p \in pages'
        PROVE  TellsTrue(p)'
    BY <1>1, TrueStays DEF PagesTrue
  <1>2. PagesTrue'
    BY <1>1 DEF PagesTrue
  <1> QED  BY <1>2, PlaceStays DEF FieldTypeOK

LEMMA AskedType ==
    ASSUME NEW v \in {Unset} \cup FieldValue, NEW lost \in BOOLEAN
    PROVE  /\ Asked(v, lost) \in {Unset} \cup FieldValue
           /\ Asked(v, lost) # Unset => ~ lost /\ Asked(v, lost) = v
  BY DEF Asked

\* What the form has in its inputs and what the API sends.
LEMMA SentType ==
    ASSUME NEW v \in FieldValue, NEW entry, NEW way
    PROVE  Sent(entry, way, v) \in Data
  BY DEF Sent, Json, Data

LEMMA FormDataType ==
    ASSUME NEW v \in FieldValue
    PROVE  FormData(v) \in Data
  BY ValueFacts DEF FormData, Silent, Json, Data

LEMMA SilentType == Silent \in Data
  BY DEF Silent, Json, Data

\* The columns and join tables hold what was sent, what they held, or nothing.
LEMMA StoredType ==
    ASSUME FieldTypeOK, NEW data \in Data, NEW bulk \in BOOLEAN
    PROVE  StoredFrom(data, bulk) \in FieldValue
  BY ValueFacts DEF StoredFrom, ColumnData, Data, FieldTypeOK

LEMMA StoredWithin ==
    ASSUME FieldTypeOK, NEW data \in Data, NEW bulk \in BOOLEAN, NEW v \in FieldValue,
           data.flat \in {Unset, v}, data.nested \in {Unset, v}
    PROVE  StoredFrom(data, bulk) \in {v, stored, {}}
  BY DEF StoredFrom, ColumnData, Data, FieldTypeOK

\* A version of the row, and one that a draft made of it.
LEMMA SnapshotShows ==
    ASSUME NEW v \in FieldValue
    PROVE  /\ Snapshot(v) \in Data /\ Shows(Snapshot(v)) = v
           /\ InGroup => Snapshot(v).nested # Unset
           /\ ~ InGroup => Snapshot(v).flat # Unset
           /\ InGroup /\ IsColumn => Snapshot(v).flat = Snapshot(v).nested
  BY ValueFacts DEF Snapshot, Hydrated, Shows, Json, Data

LEMMA DraftSnapshotShows ==
    ASSUME FieldTypeOK, NEW data \in Data
    PROVE  /\ DraftSnapshot(data) \in Data
           /\ InGroup => DraftSnapshot(data).nested # Unset
           /\ ~ InGroup => DraftSnapshot(data).flat # Unset
           /\ InGroup /\ IsColumn => DraftSnapshot(data).flat = DraftSnapshot(data).nested
  <1>1. stored \in FieldValue
    BY DEF FieldTypeOK
  <1>2. CASE IsColumn
    <2>1. CASE data.flat # Unset
      <3>1. data.flat \in FieldValue
        BY <2>1 DEF Data
      <3> QED  BY <1>2, <2>1, <3>1, SnapshotShows DEF DraftSnapshot
    <2>2. CASE data.flat = Unset
      BY <1>1, <1>2, <2>2, SnapshotShows DEF DraftSnapshot
    <2> QED  BY <2>1, <2>2
  <1>3. CASE ~ IsColumn
    BY <1>1, <1>3, ValueFacts DEF DraftSnapshot, Json, Data
  <1> QED  BY <1>2, <1>3

LEMMA GroupAtTop ==
    ASSUME FieldTypeOK
    PROVE  TopGroup => InGroup
  <1>1. PICK n \in 0 .. 3 : place.within \in [1 .. n -> {"group", "wrapper"}]
    BY FieldAssumption DEF FieldTypeOK, Place
  <1>2. place.within # <<>> => 1 \in DOMAIN place.within
    BY <1>1
  <1> QED  BY <1>2 DEF TopGroup, InGroup

LEMMA FormShowsType ==
    ASSUME FieldTypeOK, VersionsWhole
    PROVE  FormShows \in FieldValue
  <1> DEFINE held == IF IsColumn
                THEN IF FormDocument.flat # Unset THEN FormDocument.flat
                     ELSE IF TopGroup THEN FormDocument.nested ELSE {}
                ELSE IF InGroup \/ (draft # Unset /\ draft.text) THEN {} ELSE FormDocument.flat
  <1>1. FormDocument \in Data
    BY DEF FieldTypeOK, FormDocument, Hydrated, Json, Version, Data
  <1>2. /\ InGroup => FormDocument.nested # Unset
        /\ ~ InGroup => FormDocument.flat # Unset
    BY ValueFacts DEF FieldTypeOK, FormDocument, Hydrated, Json, VersionsWhole, Whole
  <1>3. held \in FieldValue
    BY <1>1, <1>2, ValueFacts, GroupAtTop DEF Data
  <1>4. alive \in SUBSET Targets
    BY DEF FieldTypeOK
  <1>5. FormShows = IF place.kind = "checkbox" THEN held ELSE held \cap alive
    BY DEF FormShows
  <1> HIDE DEF held
  <1> QED  BY <1>3, <1>4, <1>5, ValueFacts

-----------------------------------------------------------------------------
(***************************************************************************)
(* Every station passes on what was asked for, or is named among the       *)
(* losses.                                                                 *)
(***************************************************************************)
LEMMA WriteTells ==
    ASSUME FieldTypeOK, NEW entry, NEW way \in Ways, NEW v \in FieldValue,
           NEW bulk \in BOOLEAN, ~ LostInWrite(way, bulk)
    PROVE  StoredFrom(Sent(entry, way, v), bulk) = v
  BY ValueFacts, GroupAtTop DEF StoredFrom, Sent, LostInWrite, Ways, ColumnData, Json

LEMMA WriteBrings ==
    ASSUME FieldTypeOK, NEW entry, NEW way, NEW v \in FieldValue, NEW bulk \in BOOLEAN
    PROVE  StoredFrom(Sent(entry, way, v), bulk) \in {v, stored, {}}
  <1>1. Sent(entry, way, v).flat \in {Unset, v} /\ Sent(entry, way, v).nested \in {Unset, v}
    BY DEF Sent, Json
  <1> QED  BY <1>1, SentType, StoredWithin

LEMMA SilenceTells ==
    ASSUME FieldTypeOK, NEW bulk \in BOOLEAN
    PROVE  /\ StoredFrom(Silent, bulk) \in {stored, {}}
           /\ place.kind # "checkbox" => StoredFrom(Silent, bulk) = stored
  BY DEF StoredFrom, Silent, ColumnData, Json

LEMMA DraftTells ==
    ASSUME FieldTypeOK, NEW entry, NEW way \in Ways, NEW v \in FieldValue,
           ~ LostInDraft(entry, way)
    PROVE  Shows(DraftSnapshot(Sent(entry, way, v))) = v
  <1>1. CASE IsColumn
    <2>1. Sent(entry, way, v).flat = v
      BY <1>1 DEF Sent, LostInDraft, Ways, Json
    <2> QED  BY <1>1, <2>1, ValueFacts, SnapshotShows DEF DraftSnapshot
  <1>2. CASE ~ IsColumn
    <2>1. ~ InGroup /\ place.kind # "uploads" /\ way = "flat"
      BY <1>2 DEF LostInDraft, Ways
    <2> QED  BY <1>2, <2>1, ValueFacts DEF DraftSnapshot, Sent, Shows, Json
  <1> QED  BY <1>1, <1>2

LEMMA SilentDraftTells ==
    ASSUME FieldTypeOK
    PROVE  Shows(DraftSnapshot(Silent)) = stored
  BY SnapshotShows DEF FieldTypeOK, DraftSnapshot, Silent, Shows, Json

\* The form: what somebody puts in.
LEMMA FormTells ==
    ASSUME FieldTypeOK, ~ place.hidden, NEW v \in FieldValue
    PROVE  StoredFrom(FormData(v), FALSE) = v
  BY ValueFacts DEF StoredFrom, FormData, Silent, ColumnData, Json, IsColumn

LEMMA FormDraftTells ==
    ASSUME FieldTypeOK, ~ place.hidden, NEW v \in FieldValue,
           ~ LostInDraft("form", "flat"), ~ StaysOn(v)
    PROVE  Shows(DraftSnapshot(FormData(v))) = v
  <1>1. CASE FormData(v) = Silent
    <2>1. v = {} /\ place.kind = "checkbox"
      BY <1>1, ValueFacts DEF FormData, Silent, Json
    <2> QED  BY <1>1, <2>1, SilentDraftTells DEF StaysOn
  <1>2. CASE FormData(v) # Silent
    <2>1. FormData(v) = Json(v, Unset)
      BY <1>2 DEF FormData
    <2> QED  BY <2>1, ValueFacts, SnapshotShows DEF DraftSnapshot, LostInDraft, Shows, Json
  <1> QED  BY <1>1, <1>2

\* What it shows of a field that nobody touches is what a read shows.
LEMMA FormShowsSeen ==
    ASSUME FieldTypeOK, VersionsWhole, ~ place.hidden,
           ~ LostInForm
    PROVE  FormShows = Seen(Shows(FormDocument))
  BY GroupAtTop, ValueFacts
     DEF FieldTypeOK, FormShows, FormDocument, Hydrated, Seen, Shows, LostInForm, VersionsWhole,
         Whole, Json

LEMMA SeenTwice == \A v : Seen(Seen(v)) = Seen(v)
  BY DEF Seen

\* A form opened on what a read shows.
LEMMA OpenedTrue ==
    ASSUME FieldTypeOK, KeptAsWritten, VersionsWhole, NEW asked,
           asked = IF place.hidden THEN {} ELSE IF draft # Unset THEN draft.told ELSE told
    PROVE  LET p == [kind |-> "form", shows |-> FormShows, told |-> Asked(asked, LostInForm)]
           IN  p \in Pages /\ TellsTrue(p)
  <1> DEFINE p == [kind |-> "form", shows |-> FormShows, told |-> Asked(asked, LostInForm)]
  <1>1. asked \in {Unset} \cup FieldValue /\ LostInForm \in BOOLEAN
    BY ValueFacts DEF FieldTypeOK, Version, LostInForm
  <1>2. p \in Pages
    BY <1>1, AskedType, FormShowsType DEF Pages
  <1>3. ASSUME p.told # Unset, place.hidden
        PROVE  place.kind \notin {"refs", "rows", "groupedRows"}
    BY <1>1, <1>3, AskedType DEF LostInForm
  <1>4. ASSUME p.told # Unset, ~ place.hidden
        PROVE  Seen(p.shows) = Seen(p.told)
    <2>1. ~ LostInForm /\ p.told = asked /\ asked # Unset
      BY <1>1, <1>4, AskedType
    <2>2. FormShows = Seen(Shows(FormDocument))
      BY <1>4, <2>1, FormShowsSeen
    <2>3. Seen(Shows(FormDocument)) = Seen(asked)
      BY <1>4, <2>1 DEF KeptAsWritten, FormDocument, Hydrated, Shows, Json
    <2> QED  BY <2>1, <2>2, <2>3, SeenTwice
  <1> QED  BY <1>2, <1>3, <1>4 DEF TellsTrue

\* What a form asks for that was left as it was shown.
LEMMA UntouchedType ==
    ASSUME FieldTypeOK, NEW p \in pages, p.kind = "form"
    PROVE  /\ p.shows \in FieldValue /\ FormData(p.shows) \in Data
           /\ FormAsks(p) \in {Unset} \cup FieldValue
  <1>1. p.shows \in FieldValue /\ p.told \in {Unset} \cup FieldValue
    BY DEF FieldTypeOK, Pages
  <1> QED  BY <1>1, FormDataType DEF FormAsks, FieldTypeOK

LEMMA UntouchedTells ==
    ASSUME FieldTypeOK, KeptAsWritten, PagesTrue, NEW p \in pages, p.kind = "form",
           FormAsks(p) # Unset, ~ (place.hidden /\ place.kind = "checkbox")
    PROVE  Seen(StoredFrom(FormData(p.shows), FALSE)) = Seen(FormAsks(p))
  <1>t. p.told # Unset /\ TellsTrue(p)
    BY DEF FormAsks, PagesTrue
  <1>1. CASE place.hidden
    <2>1. FormData(p.shows) = Silent /\ FormAsks(p) = told
      BY <1>1, <1>t DEF FormData, Silent, TellsTrue, FormAsks
    <2> QED  BY <1>1, <2>1, SilenceTells DEF KeptAsWritten
  <1>2. CASE ~ place.hidden
    BY <1>2, <1>t, UntouchedType, FormTells DEF TellsTrue, FormAsks
  <1> QED  BY <1>1, <1>2

LEMMA UntouchedDraftTells ==
    ASSUME FieldTypeOK, KeptAsWritten, PagesTrue, NEW p \in pages, p.kind = "form",
           FormAsks(p) # Unset, ~ (LostInDraft("form", "flat") \/ StaysOn(p.shows))
    PROVE  Seen(Shows(DraftSnapshot(FormData(p.shows)))) = Seen(FormAsks(p))
  <1>t. p.told # Unset /\ TellsTrue(p)
    BY DEF FormAsks, PagesTrue
  <1>1. CASE place.hidden
    <2>1. FormData(p.shows) = Silent /\ FormAsks(p) = told
      BY <1>1, <1>t DEF FormData, Silent, TellsTrue, FormAsks
    <2> QED  BY <2>1, SilentDraftTells DEF KeptAsWritten
  <1>2. CASE ~ place.hidden
    BY <1>2, <1>t, UntouchedType, FormDraftTells DEF TellsTrue, FormAsks
  <1> QED  BY <1>1, <1>2

\* What the form sends back is what it showed, or what is stored, or nothing.
LEMMA UntouchedBrings ==
    ASSUME FieldTypeOK, NEW v \in FieldValue
    PROVE  StoredFrom(FormData(v), FALSE) \in {v, stored, {}}
  <1>2. \/ FormData(v) = Json({}, Unset)
        \/ FormData(v) = Json(v, Unset) \/ FormData(v) = Silent
    BY DEF FormData, Silent
  <1> QED  BY <1>2, ValueFacts DEF StoredFrom, ColumnData, Json, Silent, FieldTypeOK

\* A restore brings back what the version shows, or the row keeps what it has.
LEMMA RestoreTells ==
    ASSUME FieldTypeOK, NEW version \in Version, Whole(version)
    PROVE  LET brought == StoredFrom(Json(Extracted(version.obj), Unset), TRUE)
           IN  /\ ~ LostInRestore => brought = Shows(version.obj)
               /\ brought \in {Shows(version.obj), stored, {}}
  <1>1. ~ LostInRestore => Extracted(version.obj) = Shows(version.obj) /\ Shows(version.obj) # Unset
    BY DEF Extracted, LostInRestore, Shows, Whole
  <1>2. LostInRestore => Extracted(version.obj) = Unset
    BY DEF Extracted, LostInRestore
  <1> QED  BY <1>1, <1>2 DEF StoredFrom, ColumnData, Json

-----------------------------------------------------------------------------
(***************************************************************************)
(* The steps.                                                              *)
(***************************************************************************)
\* Whoever names a deleted target in what is stored has been told of it, or
\* could not have been.
Accounted == known \subseteq stored \ alive /\ unwarned \subseteq stored \ alive

LEMMA StillReferencesKnown ==
    ASSUME FieldTypeOK, ReferencesKnown, place' = place, alive' = alive, NEW listed, NEW unlisted,
           Brings(listed, unlisted), stored' \in FieldValue,
           ~ Unlisted => stored' \subseteq stored \cup alive \cup listed \cup unlisted
    PROVE  ReferencesKnown' /\ Accounted'
  <1>1. Accounted'
    BY DEF Brings, FieldTypeOK, Accounted
  <1>2. ReferencesKnown'
    <2> SUFFICES ASSUME (IsColumn \/ ~ InGroup) /\ ~ Unlisted, NEW t \in stored' \ alive
                 PROVE  t \in known' \cup unwarned'
      BY PlaceStays DEF ReferencesKnown, Unlisted
    <2>1. t \in stored => t \in known \cup unwarned
      BY DEF ReferencesKnown, Unlisted
    <2> QED  BY <2>1 DEF Brings
  <1> QED  BY <1>1, <1>2

LEMMA KeepType ==
    ASSUME NEW version, Keep(version)
    PROVE  saved' = saved \/ saved' = version
  BY DEF Keep

LEMMA PublishStep ==
    ASSUME FieldInv, NEW data \in Data, NEW asked \in {Unset} \cup FieldValue,
           NEW listed, NEW unlisted,
           Publish(data, asked), Brings(listed, unlisted), pages' \subseteq pages,
           asked # Unset => Seen(StoredFrom(data, FALSE)) = Seen(asked),
           ~ Unlisted =>
               StoredFrom(data, FALSE) \subseteq stored \cup alive \cup listed \cup unlisted
    PROVE  FieldInv'
  <1> USE DEF FieldInv
  <1>0. /\ place' = place /\ alive' = alive /\ draft' = Unset /\ told' = asked
        /\ stored' = StoredFrom(data, FALSE)
        /\ saved' = saved \/ saved' = [obj |-> Snapshot(stored'), text |-> FALSE, told |-> asked]
    BY KeepType DEF Publish
  <1>1. stored' \in FieldValue
    BY <1>0, StoredType
  <1>2. ReferencesKnown' /\ Accounted' /\ PagesTrue' /\ pages' \subseteq Pages'
    BY <1>0, <1>1, StillReferencesKnown, PagesStay
  <1>3. \A v, w : Seen(v) = Seen(w) => Seen(v)' = Seen(w)'
    BY <1>0, SeenStays
  <1>4. \A version : Whole(version) => Whole(version)'
    BY <1>0, WholeStays
  <1>5. saved' = saved => (saved' # Unset => saved' \in Version /\ Whole(saved)')
    BY <1>4 DEF VersionsWhole, FieldTypeOK, Whole, Seen
  <1>6. ASSUME NEW version,
               version = [obj |-> Snapshot(stored'), text |-> FALSE, told |-> asked]
        PROVE  version \in Version /\ Whole(version)'
    <2>1. version \in Version
      BY <1>1, <1>6, SnapshotShows DEF Version, Data
    <2>2. Whole(version)
      BY <1>0, <1>1, <1>6, SnapshotShows DEF Whole
    <2> QED  BY <1>4, <2>1, <2>2
  <1>7. saved' # Unset => saved' \in Version /\ Whole(saved)'
    BY <1>0, <1>5, <1>6 DEF Whole, Seen
  <1>8. FieldTypeOK'
    BY <1>0, <1>1, <1>2, <1>7, PlaceStays DEF FieldTypeOK, Accounted
  <1>9. KeptAsWritten'
    BY <1>0, <1>3 DEF KeptAsWritten, Seen
  <1>10. VersionsWhole'
    BY <1>0, <1>7 DEF VersionsWhole
  <1> QED  BY <1>2, <1>8, <1>9, <1>10

LEMMA SaveDraftStep ==
    ASSUME FieldInv, NEW data \in Data, NEW text \in BOOLEAN, NEW asked \in {Unset} \cup FieldValue,
           SaveDraft(data, text, asked), pages' \subseteq pages,
           asked # Unset => Seen(Shows(DraftSnapshot(data))) = Seen(asked)
    PROVE  FieldInv'
  <1> USE DEF FieldInv
  <1>0. /\ UNCHANGED <<place, alive, stored, told, known, unwarned>>
        /\ draft' = [obj |-> DraftSnapshot(data), text |-> text, told |-> asked]
        /\ saved' = saved \/ saved' = draft'
    BY KeepType DEF SaveDraft
  <1>p. PagesTrue' /\ pages' \subseteq Pages'
    BY <1>0, PagesStay
  <1>1. \A v : Seen(v)' = Seen(v)
    BY <1>0 DEF Seen
  <1>2. \A version : Whole(version) => Whole(version)'
    BY <1>0, WholeStays
  <1>3. ASSUME NEW version,
               version = [obj |-> DraftSnapshot(data), text |-> text, told |-> asked]
        PROVE  version \in Version /\ Whole(version)'
    <2>1. version \in Version
      BY <1>3, DraftSnapshotShows DEF Version, Data
    <2>2. Whole(version)
      BY <1>3, DraftSnapshotShows DEF Whole
    <2> QED  BY <1>2, <2>1, <2>2
  <1>4. draft' \in Version /\ Whole(draft)'
    BY <1>0, <1>3 DEF Whole, Seen
  <1>5. saved' # Unset => saved' \in Version /\ Whole(saved)'
    BY <1>0, <1>2, <1>4 DEF Whole, Seen, VersionsWhole, FieldTypeOK
  <1>6. FieldTypeOK'
    BY <1>0, <1>p, <1>4, <1>5, PlaceStays DEF FieldTypeOK
  <1>7. KeptAsWritten'
    BY <1>0, <1>1, <1>4 DEF KeptAsWritten, Seen, Whole
  <1>8. ReferencesKnown' /\ VersionsWhole'
    BY <1>0, <1>4, <1>5, PlaceStays DEF ReferencesKnown, VersionsWhole
  <1> QED  BY <1>p, <1>6, <1>7, <1>8

\* A bulk update and a restore write the row and leave the versions alone, but
\* that a restore ends the draft, or makes one of a version that was one.
LEMMA RowStep ==
    ASSUME FieldInv, NEW asked \in {Unset} \cup FieldValue, NEW listed, NEW unlisted,
           UNCHANGED <<place, alive, saved>>, draft' \in {draft, Unset, saved}, pages' \subseteq pages,
           stored' \in FieldValue, told' = asked, Brings(listed, unlisted),
           asked # Unset => Seen(stored') = Seen(asked),
           ~ Unlisted => stored' \subseteq stored \cup alive \cup listed \cup unlisted
    PROVE  FieldInv'
  <1> USE DEF FieldInv
  <1>1. \A v : Seen(v)' = Seen(v)
    BY DEF Seen
  <1>2. \A version : Whole(version) => Whole(version)'
    BY WholeStays
  <1>3. ReferencesKnown' /\ Accounted' /\ PagesTrue' /\ pages' \subseteq Pages'
    BY StillReferencesKnown, PagesStay
  <1>4. VersionsWhole'
    BY <1>2 DEF VersionsWhole, Whole, Seen
  <1>5. FieldTypeOK'
    BY <1>3, PlaceStays DEF FieldTypeOK, Accounted
  <1>6. KeptAsWritten'
    BY <1>1, PlaceStays DEF KeptAsWritten, VersionsWhole, Whole, Seen
  <1> QED  BY <1>3, <1>4, <1>5, <1>6

\* With a page, or without.
LEMMA RestoreStep ==
    ASSUME FieldInv, RestoreVersion, draft' \in {draft, Unset, saved}, pages' \subseteq pages,
           NEW listed, NEW unlisted, Brings(listed, unlisted),
           ~ Unlisted => Shows(saved.obj) \subseteq listed \cup unlisted
    PROVE  FieldInv'
  <1> DEFINE brought == StoredFrom(Json(Extracted(saved.obj), Unset), TRUE)
  <1> USE DEF FieldInv
  <1>0. /\ saved \in Version /\ Whole(saved)
        /\ stored' = brought /\ told' = Asked(saved.told, LostInRestore)
    BY DEF RestoreVersion, FieldTypeOK, VersionsWhole
  <1>1. /\ ~ LostInRestore => brought = Shows(saved.obj)
        /\ brought \in {Shows(saved.obj), stored, {}}
    BY <1>0, RestoreTells
  <1>2. Shows(saved.obj) \in FieldValue
    BY <1>0 DEF Shows, Whole, Version
  <1>3. brought \in FieldValue
    BY <1>1, <1>2, ValueFacts DEF FieldTypeOK
  <1>a. LostInRestore \in BOOLEAN /\ saved.told \in {Unset} \cup FieldValue
    BY <1>0 DEF LostInRestore, Version
  <1>b. told' \in {Unset} \cup FieldValue /\ (told' # Unset => ~ LostInRestore /\ told' = saved.told)
    BY <1>0, <1>a, AskedType
  <1>4. told' # Unset => Seen(brought) = Seen(told')
    BY <1>0, <1>1, <1>b DEF Whole
  <1>5. ~ Unlisted => brought \subseteq stored \cup alive \cup listed \cup unlisted
    BY <1>1
  <1>6. UNCHANGED <<place, alive, saved>>
    BY DEF RestoreVersion
  <1> HIDE DEF brought
  <1> QED  BY <1>0, <1>b, <1>3, <1>4, <1>5, <1>6, RowStep

LEMMA RestorePageStep ==
    ASSUME FieldInv, NEW p \in pages, Restore(p)
    PROVE  FieldInv'
  <1>1. /\ RestoreVersion /\ draft' = Unset /\ pages' \subseteq pages /\ p.kind = "restore"
        /\ Brings(p.listed, Shows(saved.obj) \ p.gone)
    BY DEF Restore, Submit
  <1>2. ~ Unlisted => p.gone \subseteq p.listed
    BY <1>1 DEF FieldInv, PagesTrue, TellsTrue
  <1> QED  BY <1>1, <1>2, RestoreStep

\* A page is opened.
LEMMA OpenStep ==
    ASSUME FieldInv, NEW p \in Pages, TellsTrue(p), Open(p)
    PROVE  FieldInv'
  <1> USE DEF FieldInv
  <1>0. pages' = pages \cup {p} /\ UNCHANGED <<place, alive, stored, draft, saved, told, known, unwarned>>
    BY DEF Open
  <1>1. \A q : TellsTrue(q) => TellsTrue(q)'
    BY <1>0, TrueStays
  <1>2. PagesTrue'
    BY <1>0, <1>1 DEF PagesTrue
  <1>3. FieldTypeOK'
    BY <1>0, PlaceStays DEF FieldTypeOK
  <1>4. KeptAsWritten' /\ ReferencesKnown'
    BY <1>0, PlaceStays DEF KeptAsWritten, ReferencesKnown, Seen
  <1>5. \A version : Whole(version) => Whole(version)'
    BY <1>0, WholeStays
  <1>6. VersionsWhole'
    BY <1>0, <1>5 DEF VersionsWhole, Whole, Seen
  <1> QED  BY <1>2, <1>3, <1>4, <1>6

LEMMA OpenFormStep == FieldInv /\ OpenForm => FieldInv'
  <1> SUFFICES ASSUME FieldInv, OpenForm PROVE FieldInv'
    OBVIOUS
  <1> DEFINE asked == IF place.hidden THEN {} ELSE IF draft # Unset THEN draft.told ELSE told
             p == [kind |-> "form", shows |-> FormShows, told |-> Asked(asked, LostInForm)]
  <1>1. Open(p)
    BY DEF OpenForm
  <1>2. p \in Pages /\ TellsTrue(p)
    BY OpenedTrue DEF FieldInv
  <1> HIDE DEF p
  <1> QED  BY <1>1, <1>2, OpenStep

LEMMA OpenRestoreStep == FieldInv /\ OpenRestore => FieldInv'
  <1> SUFFICES ASSUME FieldInv, OpenRestore PROVE FieldInv'
    OBVIOUS
  <1> DEFINE p == [kind |-> "restore", gone |-> Shows(saved.obj) \ alive,
                      listed |-> Absentees(saved.obj)]
  <1>1. Open(p) /\ saved \in Version /\ Whole(saved)
    BY DEF OpenRestore, FieldInv, FieldTypeOK, VersionsWhole
  <1>2. Shows(saved.obj) \in SUBSET Targets
    BY <1>1, ValueFacts DEF Shows, Whole, Version
  <1>3. p \in Pages
    BY <1>2 DEF Pages, Absentees
  <1>4. TellsTrue(p)
    BY DEF TellsTrue, Absentees, Unlisted
  <1> HIDE DEF p
  <1> QED  BY <1>1, <1>3, <1>4, OpenStep

LEMMA OpenDeleteStep ==
    ASSUME FieldInv, NEW t \in Targets, OpenDelete(t)
    PROVE  FieldInv'
  <1>1. PICK searched \in BOOLEAN :
            Open([kind |-> "delete", target |-> t, named |-> searched /\ t \in stored,
                  listed |-> searched /\ t \in Referring])
    BY DEF OpenDelete
  <1> DEFINE p == [kind |-> "delete", target |-> t, named |-> searched /\ t \in stored,
                      listed |-> searched /\ t \in Referring]
  <1>2. p \in Pages
    BY DEF Pages
  <1>3. TellsTrue(p)
    BY DEF TellsTrue, Referring, Unlisted
  <1> HIDE DEF p
  <1> QED  BY <1>1, <1>2, <1>3, OpenStep DEF p

LEMMA DeleteStep ==
    ASSUME FieldInv, NEW t \in Targets, NEW named \in BOOLEAN, NEW listed \in BOOLEAN,
           DeleteTarget(t, named, listed), pages' \subseteq pages,
           ~ Unlisted /\ (IsColumn \/ ~ InGroup) => (named => listed)
    PROVE  FieldInv'
  <1> USE DEF FieldInv
  <1>0. /\ t \in alive /\ alive' = alive \ {t}
        /\ known' = known \cup (IF listed THEN {t} \cap stored ELSE {})
        /\ unwarned' = unwarned \cup (IF named THEN {} ELSE {t} \cap stored)
        /\ UNCHANGED <<place, stored, draft, saved, told>>
    BY DEF DeleteTarget
  <1>1. \A v, w : Seen(v) = Seen(w) => Seen(v)' = Seen(w)'
    BY <1>0, SeenStays
  <1>2. \A version : Whole(version) => Whole(version)'
    BY <1>0, WholeStays
  <1>3. ReferencesKnown'
    BY <1>0, PlaceStays DEF ReferencesKnown, Unlisted
  <1>4. PagesTrue' /\ pages' \subseteq Pages'
    BY <1>0, PagesStay
  <1>5. FieldTypeOK'
    BY <1>0, <1>4, PlaceStays DEF FieldTypeOK
  <1>6. KeptAsWritten'
    <2>1. told' # Unset => Seen(stored)' = Seen(told)'
      BY <1>0, <1>1 DEF KeptAsWritten, Seen
    <2>2. (draft # Unset /\ draft.told # Unset) => Seen(Shows(draft.obj))' = Seen(draft.told)'
      BY <1>0, <1>2, PlaceStays DEF VersionsWhole, Whole, Seen
    <2> QED  BY <1>0, <2>1, <2>2 DEF KeptAsWritten
  <1>7. VersionsWhole'
    BY <1>0, <1>2 DEF VersionsWhole, Whole, Seen
  <1> QED  BY <1>3, <1>4, <1>5, <1>6, <1>7

LEMMA DeletePageStep ==
    ASSUME FieldInv, NEW p \in pages, Delete(p)
    PROVE  FieldInv'
  <1>1. /\ DeleteTarget(p.target, p.named, p.listed) /\ pages' \subseteq pages
        /\ p.kind = "delete" /\ p \in Pages /\ TellsTrue(p)
    BY DEF Delete, Submit, FieldInv, FieldTypeOK, PagesTrue
  <1>2. p.target \in Targets /\ p.named \in BOOLEAN /\ p.listed \in BOOLEAN
    BY <1>1 DEF Pages
  <1> QED  BY <1>1, <1>2, DeleteStep DEF TellsTrue

LEMMA FieldInitInv == FieldInit => FieldInv
  BY ValueFacts DEF FieldInit, FieldInv, FieldTypeOK, KeptAsWritten, ReferencesKnown, VersionsWhole,
                    PagesTrue

LEMMA FieldStepInv == FieldInv /\ [FieldNext]_fieldVars => FieldInv'
  <1> SUFFICES ASSUME FieldInv, [FieldNext]_fieldVars PROVE FieldInv'
    OBVIOUS
  <1> USE DEF FieldInv
  <1>t. /\ stored \in FieldValue /\ told \in {Unset} \cup FieldValue /\ stored \subseteq Targets
        /\ (draft # Unset => draft \in Version)
    BY ValueFacts DEF FieldTypeOK
  <1>l. \A entry, way, bulk \in BOOLEAN :
            /\ LostInWrite(way, bulk) \in BOOLEAN /\ LostInDraft(entry, way) \in BOOLEAN
            /\ \A v : StaysOn(v) \in BOOLEAN
    BY DEF LostInWrite, LostInDraft, StaysOn
  <1>a. \A lost \in BOOLEAN, v \in {Unset} \cup FieldValue :
            /\ Asked(v, lost) \in {Unset} \cup FieldValue
            /\ Asked(v, lost) # Unset => ~ lost /\ Asked(v, lost) = v
    BY AskedType
  <1>1. ASSUME NEW entry \in Entries, NEW way \in Ways, NEW v \in FieldValue,
               ApiUpdate(entry, way, v)
        PROVE  FieldInv'
    <2>1. StoredFrom(Sent(entry, way, v), FALSE) \in {v, stored, {}}
      BY WriteBrings
    <2>2. ~ LostInWrite(way, FALSE) => StoredFrom(Sent(entry, way, v), FALSE) = v
      BY WriteTells
    <2>3. LostInWrite(way, FALSE) \in BOOLEAN /\ Sent(entry, way, v) \in Data
      BY SentType DEF LostInWrite
    <2>4. Asked(v, LostInWrite(way, FALSE)) \in {Unset} \cup FieldValue
      BY <1>a, <2>3
    <2>5. Asked(v, LostInWrite(way, FALSE)) # Unset =>
              Seen(StoredFrom(Sent(entry, way, v), FALSE)) = Seen(Asked(v, LostInWrite(way, FALSE)))
      BY <1>a, <2>2, <2>3
    <2> HIDE DEF FieldInv
    <2> QED  BY <1>1, <2>1, <2>3, <2>4, <2>5, PublishStep DEF ApiUpdate
  <1>2. ASSUME NEW entry \in Entries, NEW way \in Ways, NEW v \in FieldValue,
               ApiDraft(entry, way, v)
        PROVE  FieldInv'
    <2>1. ~ LostInDraft(entry, way) => Shows(DraftSnapshot(Sent(entry, way, v))) = v
      BY DraftTells
    <2>2. LostInDraft(entry, way) \in BOOLEAN /\ Sent(entry, way, v) \in Data
      BY SentType DEF LostInDraft
    <2>3. Asked(v, LostInDraft(entry, way)) \in {Unset} \cup FieldValue
      BY <1>a, <2>2
    <2>4. Asked(v, LostInDraft(entry, way)) # Unset =>
              Seen(Shows(DraftSnapshot(Sent(entry, way, v)))) = Seen(Asked(v, LostInDraft(entry, way)))
      BY <1>a, <2>1, <2>2
    <2> HIDE DEF FieldInv
    <2> QED  BY <1>2, <2>2, <2>3, <2>4, SaveDraftStep DEF ApiDraft
  <1>c. LET asked == Asked(told, place.kind = "checkbox")
        IN  /\ asked \in {Unset} \cup FieldValue
            /\ asked # Unset => place.kind # "checkbox" /\ asked = told
    BY <1>a, <1>t
  <1>3. CASE ApiUpdateOfOthers
    <2>1. Asked(told, place.kind = "checkbox") # Unset =>
              Seen(StoredFrom(Silent, FALSE)) = Seen(Asked(told, place.kind = "checkbox"))
      BY <1>c, SilenceTells DEF KeptAsWritten
    <2>2. StoredFrom(Silent, FALSE) \subseteq stored
      BY SilenceTells
    <2> HIDE DEF FieldInv
    <2> QED  BY <1>3, <1>c, <2>1, <2>2, SilentType, PublishStep DEF ApiUpdateOfOthers
  <1>4. CASE ApiDraftOfOthers
    BY <1>4, <1>t, SilentType, SilentDraftTells, SaveDraftStep DEF ApiDraftOfOthers, KeptAsWritten
  <1>5. ASSUME NEW way \in Ways, NEW v \in FieldValue, BulkUpdate(way, v)
        PROVE  FieldInv'
    <2>1. StoredFrom(Sent("bulk", way, v), TRUE) \in {v, stored, {}}
      BY WriteBrings
    <2>2. ~ LostInWrite(way, TRUE) => StoredFrom(Sent("bulk", way, v), TRUE) = v
      BY WriteTells
    <2>3. LostInWrite(way, TRUE) \in BOOLEAN /\ Sent("bulk", way, v) \in Data
      BY SentType DEF LostInWrite
    <2>4. StoredFrom(Sent("bulk", way, v), TRUE) \in FieldValue
      BY <2>3, StoredType
    <2>5. Asked(v, LostInWrite(way, TRUE)) \in {Unset} \cup FieldValue
      BY <1>a, <2>3
    <2>6. Asked(v, LostInWrite(way, TRUE)) # Unset =>
              Seen(StoredFrom(Sent("bulk", way, v), TRUE)) = Seen(Asked(v, LostInWrite(way, TRUE)))
      BY <1>a, <2>2, <2>3
    <2> HIDE DEF FieldInv
    <2> QED  BY <1>5, <2>1, <2>4, <2>5, <2>6, RowStep DEF BulkUpdate, BulkWrite
  <1>6. CASE BulkUpdateOfOthers
    <2>1. Asked(told, place.kind = "checkbox") # Unset =>
              Seen(StoredFrom(Silent, TRUE)) = Seen(Asked(told, place.kind = "checkbox"))
      BY <1>c, SilenceTells DEF KeptAsWritten
    <2>2. StoredFrom(Silent, TRUE) \subseteq stored /\ StoredFrom(Silent, TRUE) \in FieldValue
      BY SilenceTells, SilentType, StoredType
    <2> HIDE DEF FieldInv
    <2> QED  BY <1>6, <1>c, <2>1, <2>2, RowStep DEF BulkUpdateOfOthers, BulkWrite
  <1>7. ASSUME NEW v \in FieldValue, FormUpdate(v)
        PROVE  FieldInv'
    <2>1. ~ place.hidden /\ StoredFrom(FormData(v), FALSE) = v
      BY <1>7, FormTells DEF FormUpdate
    <2> HIDE DEF FieldInv
    <2> QED  BY <1>7, <2>1, FormDataType, PublishStep DEF FormUpdate
  <1>8. ASSUME NEW v \in FieldValue, FormDraft(v)
        PROVE  FieldInv'
    <2> DEFINE lost == LostInDraft("form", "flat") \/ StaysOn(v)
    <2>1. ~ lost => Shows(DraftSnapshot(FormData(v))) = v
      BY <1>8, FormDraftTells DEF FormDraft
    <2>2. Asked(v, lost) \in {Unset} \cup FieldValue
      BY <1>a, <1>l
    <2>3. Asked(v, lost) # Unset => Seen(Shows(DraftSnapshot(FormData(v)))) = Seen(Asked(v, lost))
      BY <1>a, <1>l, <2>1
    <2> HIDE DEF FieldInv
    <2> QED  BY <1>8, <2>2, <2>3, FormDataType, SaveDraftStep DEF FormDraft
  <1>9. ASSUME NEW p \in pages, FormUpdateUntouched(p)
        PROVE  FieldInv'
    <2> DEFINE lost == place.hidden /\ place.kind = "checkbox"
               asked == Asked(FormAsks(p), lost)
    <2>0. p.kind = "form" /\ pages' \subseteq pages /\ lost \in BOOLEAN
      BY <1>9, FieldAssumption DEF FormUpdateUntouched, Submit, FieldTypeOK, Place
    <2>1. /\ p.shows \in FieldValue /\ FormData(p.shows) \in Data
          /\ FormAsks(p) \in {Unset} \cup FieldValue
      BY <2>0, UntouchedType
    <2>2. /\ asked \in {Unset} \cup FieldValue
          /\ asked # Unset => ~ lost /\ asked = FormAsks(p)
      BY <1>a, <2>0, <2>1
    <2>3. asked # Unset => Seen(StoredFrom(FormData(p.shows), FALSE)) = Seen(asked)
      BY <2>0, <2>2, UntouchedTells
    <2>4. StoredFrom(FormData(p.shows), FALSE) \subseteq stored \cup p.shows
      BY <2>1, UntouchedBrings
    <2>5. Publish(FormData(p.shows), asked) /\ Brings({}, p.shows)
      BY <1>9 DEF FormUpdateUntouched
    <2> HIDE DEF FieldInv, asked
    <2> QED  BY <2>0, <2>1, <2>2, <2>3, <2>4, <2>5, PublishStep
  <1>10. ASSUME NEW p \in pages, FormDraftUntouched(p)
         PROVE  FieldInv'
    <2> DEFINE lost == LostInDraft("form", "flat") \/ StaysOn(p.shows)
               asked == Asked(FormAsks(p), lost)
    <2>0. p.kind = "form" /\ pages' \subseteq pages /\ lost \in BOOLEAN
      BY <1>10, <1>l DEF FormDraftUntouched, Submit
    <2>1. FormData(p.shows) \in Data /\ FormAsks(p) \in {Unset} \cup FieldValue
      BY <2>0, UntouchedType
    <2>2. /\ asked \in {Unset} \cup FieldValue
          /\ asked # Unset => ~ lost /\ asked = FormAsks(p)
      BY <1>a, <2>0, <2>1
    <2>3. asked # Unset => Seen(Shows(DraftSnapshot(FormData(p.shows)))) = Seen(asked)
      BY <2>0, <2>2, UntouchedDraftTells
    <2>4. SaveDraft(FormData(p.shows), place.kind = "refs", asked)
      BY <1>10 DEF FormDraftUntouched
    <2> HIDE DEF FieldInv, asked
    <2> QED  BY <2>0, <2>1, <2>2, <2>3, <2>4, SaveDraftStep
  <1> HIDE DEF FieldInv
  <1>11. ASSUME NEW p \in pages, Restore(p)
         PROVE  FieldInv'
    BY <1>11, RestorePageStep
  <1>12. CASE RestoreUnasked
    BY <1>12, RestoreStep DEF RestoreUnasked
  <1>13. CASE OpenForm
    BY <1>13, OpenFormStep
  <1>14. CASE OpenRestore
    BY <1>14, OpenRestoreStep
  <1>15. ASSUME NEW t \in Targets, OpenDelete(t)
         PROVE  FieldInv'
    BY <1>15, OpenDeleteStep
  <1>16. ASSUME NEW p \in pages, Delete(p)
         PROVE  FieldInv'
    BY <1>16, DeletePageStep
  <1>17. ASSUME NEW t \in Targets, DeleteUnasked(t)
         PROVE  FieldInv'
    BY <1>17, DeleteStep DEF DeleteUnasked
  <1>18. CASE UNCHANGED fieldVars
    BY <1>18, PlaceStays
       DEF fieldVars, FieldInv, FieldTypeOK, KeptAsWritten, ReferencesKnown, VersionsWhole, Whole,
           Seen, PagesTrue, TellsTrue, Unlisted
  <1> QED  BY <1>1, <1>2, <1>3, <1>4, <1>5, <1>6, <1>7, <1>8, <1>9, <1>10, <1>11, <1>12, <1>13,
              <1>14, <1>15, <1>16, <1>17, <1>18 DEF FieldNext

(* What holds of a field at all times.                                     *)
THEOREM FieldInvariance == FieldSpec => []FieldInv
  BY FieldInitInv, FieldStepInv, PTL DEF FieldSpec

(* A field holds values of its kind, and the versions too.                 *)
THEOREM FieldTypeCorrect == FieldSpec => []FieldTypeOK
  BY FieldInvariance, PTL DEF FieldInv

(* Wherever a definition puts a field, with any Groups and wrappers around *)
(* it, what a client asked for is what reads of the document and of its    *)
(* draft show, through any sequence of API and Lua writes, bulk updates,   *)
(* forms, drafts and restores (service/collections.rs, db/query/write,     *)
(* db/query/join, db/query/versions/restore.rs, admin/handlers), but for   *)
(* the losses named.                                                       *)
THEOREM FieldsKeepWhatIsWritten == FieldSpec => []KeptAsWritten
  BY FieldInvariance, PTL DEF FieldInv

(* No document is left naming a deleted one of which the page before the   *)
(* delete (db/query/read/back_references.rs) or the page before the        *)
(* restore (missing_relations.rs) could have told and did not, however     *)
(* late these pages and the forms are submitted, except from the fields    *)
(* those pages do not look into.  Where there was no page, or it was       *)
(* opened before there was anything to tell, the property says so.         *)
THEOREM NoReferenceUnknown == FieldSpec => []ReferencesKnown
  BY FieldInvariance, PTL DEF FieldInv

-----------------------------------------------------------------------------
(***************************************************************************)
(* The order of a query, and the page that ORDER BY and LIMIT give.        *)
(***************************************************************************)
Item == [id : Ids, value : Values]

LEMMA DocFacts ==
    /\ \A d \in Item : d.id \in Nat /\ d.value \in Int /\ (d.value = Null \/ d.value >= 1)
    /\ \A d, e \in Item : d.id = e.id /\ d.value = e.value => d = e
    /\ Limit \in Nat \ {0}
  <1>1. \A v \in Values : v \in Int /\ (v = Null \/ v >= 1)
    BY PagingAssumption DEF Null, EmptyText
  <1>2. \A d \in Item : d.id \in Nat /\ d.value \in Values
    BY PagingAssumption DEF Item
  <1>3. \A d, e \in Item : d.id = e.id /\ d.value = e.value => d = e
    BY DEF Item
  <1> QED  BY <1>1, <1>2, <1>3, PagingAssumption

LEMMA OrderTotal ==
    ASSUME NEW d \in Item, NEW e \in Item, NEW desc \in BOOLEAN
    PROVE  /\ d = e \/ Before(d, e, desc) \/ Before(e, d, desc)
           /\ ~ (Before(d, e, desc) /\ Before(e, d, desc)) /\ ~ Before(d, d, desc)
           /\ Before(d, e, desc) <=> Before(e, d, ~ desc)
  BY DocFacts DEF Before

LEMMA OrderTransitive ==
    ASSUME NEW d \in Item, NEW e \in Item, NEW f \in Item, NEW desc \in BOOLEAN,
           Before(d, e, desc), Before(e, f, desc)
    PROVE  Before(d, f, desc)
  BY DocFacts DEF Before

\* A set of numbers has a least one: else the numbers below all of it, as far
\* as one of it, would go into themselves without 0 by adding 1.
LEMMA Least ==
    ASSUME NEW N \in SUBSET Nat, NEW n \in N
    PROVE  \E m \in N : \A k \in N : m <= k
  <1> SUFFICES ASSUME \A m \in N : \E k \in N : k < m
               PROVE  FALSE
    OBVIOUS
  <1> DEFINE S == {k \in 0 .. n : \A j \in N : k <= j}
             next == [k \in S |-> k + 1]
  <1>0. n \in Nat /\ \A j \in N : j \in Nat
    OBVIOUS
  <1>1. IsFiniteSet(0 .. n) /\ S \subseteq 0 .. n /\ 0 \in S
    BY <1>0, FS_Interval
  <1>2. \A k \in S : k + 1 \in S \ {0}
    <2> TAKE k \in S
    <2>1. k \notin N
      OBVIOUS
    <2>2. \A j \in N : k + 1 <= j
      BY <2>1
    <2> QED  BY <2>2
  <1> HIDE DEF S
  <1>3. IsFiniteSet(S)
    BY <1>1, FS_Subset
  <1>4. IsFiniteSet(S \ {0}) /\ Cardinality(S \ {0}) = Cardinality(S) - 1 /\ Cardinality(S) \in Nat
    BY <1>1, <1>3, FS_RemoveElement, FS_CardinalityType
  <1>5. next \in [S -> S \ {0}] /\ \A j, k \in S : next[j] = next[k] => j = k
    BY <1>1, <1>2
  <1> HIDE DEF next
  <1>6. Cardinality(S \ {0}) < Cardinality(S)
    BY <1>4
  <1> QED  BY <1>3, <1>4, <1>5, <1>6, FS_PigeonHole

\* Who lies before one lies before all that follow it, so there are fewer.
LEMMA FewerBefore ==
    ASSUME NEW S \in SUBSET Item, IsFiniteSet(S), NEW desc \in BOOLEAN, NEW d \in S, NEW e \in S,
           Before(d, e, desc)
    PROVE  LET ahead(x) == {y \in S : Before(y, x, desc)}
           IN  /\ Cardinality(ahead(d)) \in Nat /\ Cardinality(ahead(e)) \in Nat
               /\ Cardinality(ahead(d)) < Cardinality(ahead(e))
  <1> DEFINE ahead(x) == {y \in S : Before(y, x, desc)}
  <1>1. ahead(d) \subseteq ahead(e)
    BY OrderTransitive
  <1>2. d \in ahead(e) /\ d \notin ahead(d)
    BY OrderTotal
  <1>3. IsFiniteSet(ahead(e)) /\ IsFiniteSet(ahead(d))
    BY FS_Subset
  <1> HIDE DEF ahead
  <1>4. Cardinality(ahead(d)) \in Nat /\ Cardinality(ahead(e)) \in Nat
    BY <1>3, FS_CardinalityType
  <1>5. Cardinality(ahead(d)) <= Cardinality(ahead(e)) /\ Cardinality(ahead(d)) # Cardinality(ahead(e))
    BY <1>1, <1>2, <1>3, FS_Subset
  <1>6. Cardinality(ahead(d)) < Cardinality(ahead(e))
    BY <1>4, <1>5
  <1> QED  BY <1>4, <1>6 DEF ahead

\* A set of documents has a first one in either direction.
LEMMA ForemostFirst ==
    ASSUME NEW S \in SUBSET Item, IsFiniteSet(S), S # {}, NEW desc \in BOOLEAN
    PROVE  /\ Foremost(S, desc) \in S
           /\ \A x \in S : x = Foremost(S, desc) \/ Before(Foremost(S, desc), x, desc)
  <1> DEFINE ahead(x) == {y \in S : Before(y, x, desc)}
             N == {Cardinality(ahead(x)) : x \in S}
  <1>1. \A x \in S : Cardinality(ahead(x)) \in Nat
    <2> TAKE x \in S
    <2>1. IsFiniteSet(ahead(x))
      BY FS_Subset
    <2> QED  BY <2>1, FS_CardinalityType
  <1>2. PICK d \in S : \A x \in S : Cardinality(ahead(d)) <= Cardinality(ahead(x))
    <2>1. PICK x \in S : TRUE
      OBVIOUS
    <2>2. N \in SUBSET Nat /\ Cardinality(ahead(x)) \in N
      BY <1>1, <2>1
    <2>3. PICK m \in N : \A k \in N : m <= k
      BY <2>2, Least
    <2> QED  BY <2>3
  <1>3. \A x \in S : x = d \/ Before(d, x, desc)
    <2> SUFFICES ASSUME NEW x \in S, Before(x, d, desc) PROVE FALSE
      BY OrderTotal
    <2>1. /\ Cardinality(ahead(x)) \in Nat /\ Cardinality(ahead(d)) \in Nat
          /\ Cardinality(ahead(x)) < Cardinality(ahead(d))
      BY FewerBefore
    <2> HIDE DEF ahead
    <2> QED  BY <1>2, <2>1
  <1> QED  BY <1>3 DEF Foremost

\* What LIMIT leaves out follows all that it keeps, and a page that is not
\* full has left nothing out.
LEMMA TopFacts ==
    ASSUME NEW S \in SUBSET Item, IsFiniteSet(S), NEW desc \in BOOLEAN
    PROVE  LET top == TopOf(S, desc).docs
           IN  /\ top \subseteq S /\ IsFiniteSet(top)
               /\ \A x \in S \ top, d \in top : Before(d, x, desc)
               /\ Cardinality(top) < Limit => top = S
  <1> DEFINE ahead(x) == {y \in S : Before(y, x, desc)}
             top == {d \in S : Cardinality(ahead(d)) < Limit}
  <1>1. top \subseteq S /\ IsFiniteSet(top)
    BY FS_Subset
  <1>2. ASSUME NEW x \in S \ top, NEW d \in top
        PROVE  Before(d, x, desc)
    <2> SUFFICES ASSUME Before(x, d, desc) PROVE FALSE
      BY OrderTotal
    <2>1. /\ Cardinality(ahead(x)) \in Nat /\ Cardinality(ahead(d)) \in Nat
          /\ Cardinality(ahead(x)) < Cardinality(ahead(d))
      BY FewerBefore
    <2>2. Cardinality(ahead(d)) < Limit /\ ~ (Cardinality(ahead(x)) < Limit)
      OBVIOUS
    <2> HIDE DEF ahead
    <2> QED  BY <2>1, <2>2, DocFacts
  <1>3. ASSUME Cardinality(top) < Limit, S \ top # {}
        PROVE  FALSE
    <2> DEFINE x == Foremost(S \ top, desc)
    <2>1. S \ top \in SUBSET Item /\ IsFiniteSet(S \ top)
      BY FS_Difference
    <2>2. x \in S \ top /\ \A y \in S \ top : y = x \/ Before(x, y, desc)
      BY <1>3, <2>1, ForemostFirst
    <2> HIDE DEF x
    <2>3. ahead(x) \subseteq top
      BY <2>2, OrderTotal
    <2>4. Cardinality(ahead(x)) <= Cardinality(top)
      BY <1>1, <2>3, FS_Subset
    <2>5. IsFiniteSet(ahead(x)) /\ Cardinality(ahead(x)) \in Nat /\ Cardinality(top) \in Nat
      BY <1>1, FS_Subset, FS_CardinalityType
    <2>6. ~ (Cardinality(ahead(x)) < Limit)
      BY <2>2
    <2> HIDE DEF ahead, top
    <2> QED  BY <1>3, <2>4, <2>5, <2>6, DocFacts
  <1>4. TopOf(S, desc).docs = top
    BY DEF TopOf
  <1> HIDE DEF top
  <1>5. Cardinality(top) < Limit => top = S
    BY <1>1, <1>3
  <1> QED  BY <1>1, <1>2, <1>4, <1>5

-----------------------------------------------------------------------------
(***************************************************************************)
(* A walk.                                                                 *)
(***************************************************************************)
Row(i) == [id |-> i, value |-> value[i]]

\* The direction in which the client walks, and the document of the page from
\* which it goes on.
Direction == IF leg = "forward" THEN query.desc ELSE ~ query.desc
End == Foremost(page.docs, ~ Direction)

\* What a cursor is known to lose or to repeat.
BlindTo(i, some) ==
    \/ query.carries = "stamp" /\ Day(value[i]) \in some
    \/ query.fallback /\ Day(Null) \in some
    \/ query.carries = "other" /\ some # {}
Blind(i) == BlindTo(i, days)

PagingTypes ==
    /\ value \in [Ids -> Values \cup {Absent}] /\ query \in Query
    /\ page.docs \subseteq Item /\ IsFiniteSet(page.docs)
    /\ leg \in {"none", "forward", "back", "failed"}
    /\ due \subseteq Ids /\ shown \subseteq Ids /\ again \subseteq Ids /\ days \subseteq Int

\* Ahead of the page lies what was not shown, up to its end what was shown, and
\* after a page that is not full there is nothing more.
Walked ==
    /\ page.desc = query.desc
    /\ leg = "forward" => hasNext = AtLimit(page)
    /\ leg = "back" => hasPrev = AtLimit(page)
    /\ \A i \in due : value[i] # Absent
    /\ page.docs # {} =>
         /\ \A i \in due \ shown : value[i] = Null \/ Blind(i) \/ Before(End, Row(i), Direction)
         /\ \A i \in due \cap shown : Blind(i) \/ Row(i) = End \/ Before(Row(i), End, Direction)
    /\ ~ AtLimit(page) => \A i \in due \ shown : value[i] = Null \/ Blind(i)

PagingInv ==
    /\ PagingTypes /\ NothingRepeated
    /\ leg \in {"forward", "back"} => Walked

LEMMA InvSkipsNothing == PagingInv => NothingSkipped
  BY DEF PagingInv, PagingTypes, Walked, LegEnded, NothingSkipped, Blind, BlindTo

LEMMA RowFacts ==
    ASSUME PagingTypes
    PROVE  /\ \A i \in Ids : value[i] # Absent => Row(i) \in Item
           /\ Rows \subseteq Item /\ IsFiniteSet(Rows)
           /\ \A i \in Ids : value[i] # Absent => Row(i) \in Rows
           /\ \A d \in Rows : d.id \in Ids /\ value[d.id] # Absent /\ d = Row(d.id)
  <1>1. \A i \in Ids : value[i] # Absent => Row(i) \in Item
    BY DEF PagingTypes, Row, Item
  <1>2. Rows = {Row(i) : i \in {j \in Ids : value[j] # Absent}}
    BY DEF Rows, Row
  <1>3. IsFiniteSet({j \in Ids : value[j] # Absent})
    BY PagingAssumption, FS_Subset
  <1>4. IsFiniteSet(Rows)
    <2> DEFINE S == {j \in Ids : value[j] # Absent}
               f == [j \in S |-> Row(j)]
    <2>1. f \in Surjection(S, Rows)
      BY <1>2 DEF Surjection
    <2> QED  BY <1>3, <2>1, FS_Surjection
  <1> QED  BY <1>1, <1>2, <1>4 DEF Row

\* A cursor finds what lies ahead of its document, and only that, but for what
\* it is blind to.
LEMMA CursorReaches ==
    ASSUME query \in Query, NEW d \in Item, NEW e \in Item, NEW desc \in BOOLEAN,
           NEW v \in SortVals(d), query.carries # "other", ~ (query.fallback /\ d.value = Null),
           query.carries = "stamp" => Day(e.value) # Day(d.value)
    PROVE  /\ Before(d, e, desc) => e.value = Null \/ Keyset(e, Cursor(d, v), desc)
           /\ Keyset(e, Cursor(d, v), desc) => Before(d, e, desc)
  <1>1. /\ d.id \in Nat /\ d.value \in Int /\ (d.value = Null \/ d.value >= 1)
        /\ e.id \in Nat /\ e.value \in Int /\ (e.value = Null \/ e.value >= 1)
    BY DocFacts
  <1>2. CASE query.carries = "exact"
    <2>1. Cursor(d, v) = [val |-> IF d.value = Null THEN EmptyText ELSE d.value, id |-> d.id]
      BY <1>2 DEF Cursor, SortVals, Texts
    <2> QED  BY <1>1, <2>1 DEF Before, Keyset, Null, EmptyText
  <1>3. CASE query.carries = "stamp"
    <2>1. v = denormalize_timestamp(d.value)
      BY <1>3 DEF SortVals, Texts
    <2>2. Cursor(d, v) = [val |-> IF d.value = Null THEN EmptyText ELSE 10 * Day(d.value), id |-> d.id]
      BY <1>1, <2>1 DEF Cursor, denormalize_timestamp, Null, Day
    <2> QED  BY <1>1, <1>3, <2>2 DEF Before, Keyset, Null, EmptyText, Day
  <1> QED  BY <1>2, <1>3 DEF Query

\* Between two of one day lies only what is of that day.
LEMMA SameDay ==
    ASSUME NEW d \in Item, NEW e \in Item, NEW f \in Item, NEW desc \in BOOLEAN,
           Before(d, e, desc), Before(e, f, desc), Day(d.value) = Day(f.value)
    PROVE  Day(e.value) = Day(d.value)
  BY DocFacts DEF Before, Day

\* The client stands at d with the documents ahead of it, of which it has shown
\* the past, and with the days that its cursors came from.
StandsAt(d, ahead, past, some, desc) ==
    /\ \A i \in ahead : value[i] # Absent
    /\ \A i \in ahead \ past : value[i] = Null \/ BlindTo(i, some) \/ Before(d, Row(i), desc)
    /\ \A i \in ahead \cap past : BlindTo(i, some) \/ Row(i) = d \/ Before(Row(i), d, desc)

\* What a page from the cursor of d does: it shows what lay ahead, or that lies
\* after it, and what it showed lies before its end.
PageFrom(d, v, desc) == TopOf({x \in Rows : Keyset(x, Cursor(d, v), desc)}, desc).docs

GoesOn(docs, ahead, past, some, desc) ==
    LET now  == past \cup IdsOf(docs)
        last == Foremost(docs, ~ desc)
    IN  /\ docs \subseteq Item /\ IsFiniteSet(docs) /\ IdsOf(docs) \subseteq Ids
        /\ docs # {} => \A i \in ahead \ now :
               value[i] = Null \/ BlindTo(i, some) \/ Before(last, Row(i), desc)
        /\ docs # {} => \A i \in ahead \cap now :
               BlindTo(i, some) \/ Row(i) = last \/ Before(Row(i), last, desc)
        /\ Cardinality(docs) < Limit => \A i \in ahead \ now : value[i] = Null \/ BlindTo(i, some)
        /\ \A i \in ahead \cap past \cap IdsOf(docs) : BlindTo(i, some)

LEMMA PageGoesOn ==
    ASSUME PagingTypes, NEW d \in Item, NEW v \in SortVals(d), NEW desc \in BOOLEAN,
           NEW ahead \in SUBSET Ids, NEW past \in SUBSET Ids, NEW some, Day(d.value) \in some,
           StandsAt(d, ahead, past, some, desc)
    PROVE  GoesOn(PageFrom(d, v, desc), ahead, past, some, desc)
  <1> DEFINE S == {x \in Rows : Keyset(x, Cursor(d, v), desc)}
             docs == TopOf(S, desc).docs
             now  == past \cup IdsOf(docs)
             last == Foremost(docs, ~ desc)
  <1>1. S \in SUBSET Item /\ IsFiniteSet(S) /\ S \subseteq Rows
    BY RowFacts, FS_Subset
  <1>2. /\ docs \subseteq S /\ IsFiniteSet(docs)
        /\ \A x \in S \ docs, e \in docs : Before(e, x, desc)
        /\ Cardinality(docs) < Limit => docs = S
    BY <1>1, TopFacts
  <1>s. \A x \in S : x \in Rows /\ Keyset(x, Cursor(d, v), desc)
    OBVIOUS
  <1>r. \A i \in Ids : value[i] # Absent /\ Keyset(Row(i), Cursor(d, v), desc) => Row(i) \in S
    BY RowFacts
  <1> HIDE DEF S, docs
  <1>3. docs # {} => /\ last \in docs
                     /\ \A x \in docs : x = last \/ Before(x, last, desc)
    <2> SUFFICES ASSUME docs # {} PROVE last \in docs /\ \A x \in docs : x = last \/ Before(x, last, desc)
      OBVIOUS
    <2>1. docs \in SUBSET Item
      BY <1>1, <1>2
    <2>2. last \in docs /\ \A x \in docs : x = last \/ Before(last, x, ~ desc)
      BY <1>2, <2>1, ForemostFirst
    <2> QED  BY <2>1, <2>2, OrderTotal
  <1> HIDE DEF last
  <1>4. IdsOf(docs) \subseteq Ids /\ \A i \in IdsOf(docs) : Row(i) \in docs /\ value[i] # Absent
    BY <1>1, <1>2, RowFacts DEF IdsOf
  <1>5. \A i \in Ids : Row(i) \in docs => i \in IdsOf(docs)
    BY DEF IdsOf, Row
  <1>6. CASE query.carries = "other" \/ (query.fallback /\ d.value = Null)
    <2>1. \A i : BlindTo(i, some)
      BY <1>6 DEF BlindTo
    <2> QED  BY <1>1, <1>2, <1>4, <2>1 DEF GoesOn, PageFrom, docs, S
  <1>7. CASE query.carries # "other" /\ ~ (query.fallback /\ d.value = Null)
    <2>q. query \in Query
      BY DEF PagingTypes
    <2>1. ASSUME NEW i \in ahead \ now
          PROVE  \/ value[i] = Null \/ BlindTo(i, some)
                 \/ Row(i) \in S \ docs
      <3> SUFFICES ASSUME value[i] # Null, ~ BlindTo(i, some) PROVE Row(i) \in S \ docs
        OBVIOUS
      <3>1. Row(i) \in Item /\ Before(d, Row(i), desc) /\ Row(i).value = value[i]
        BY RowFacts DEF Row, StandsAt
      <3>2. query.carries = "stamp" => Day(Row(i).value) # Day(d.value)
        BY <3>1 DEF BlindTo
      <3>3. Keyset(Row(i), Cursor(d, v), desc)
        BY <1>7, <2>q, <3>1, <3>2, CursorReaches
      <3> QED  BY <1>r, <1>5, <3>3 DEF StandsAt
    <2>2. ASSUME NEW e \in docs
          PROVE  /\ e \in Item
                 /\ \/ query.carries = "stamp" /\ Day(e.value) = Day(d.value)
                    \/ Before(d, e, desc)
      BY <1>1, <1>2, <1>7, <1>s, <2>q, CursorReaches
    <2>3. ASSUME NEW i \in ahead \cap past \cap IdsOf(docs)
          PROVE  BlindTo(i, some)
      <3>1. Row(i) \in docs /\ Row(i).value = value[i]
        BY <1>4 DEF Row
      <3> QED  BY <2>2, <3>1, OrderTotal DEF BlindTo, StandsAt
    <2>4. ASSUME docs # {}, NEW i \in ahead \cap now
          PROVE  BlindTo(i, some) \/ Row(i) = last \/ Before(Row(i), last, desc)
      <3> SUFFICES ASSUME ~ BlindTo(i, some), i \notin IdsOf(docs)
                   PROVE  Row(i) = last \/ Before(Row(i), last, desc)
        BY <1>3, <1>4, <2>4
      <3>1. Row(i) \in Item /\ Row(i).value = value[i]
        BY RowFacts DEF Row, StandsAt
      <3>2. last \in Item /\ last \in docs
        BY <1>3, <2>2, <2>4
      <3>3. Row(i) = d \/ Before(Row(i), d, desc)
        BY DEF StandsAt
      <3>4. CASE Before(d, last, desc)
        BY <3>1, <3>2, <3>3, <3>4, OrderTransitive
      <3>5. CASE query.carries = "stamp" /\ Day(last.value) = Day(d.value)
        <4>1. Day(Row(i).value) # Day(d.value)
          BY <3>1, <3>5 DEF BlindTo
        <4> QED  BY <3>1, <3>2, <3>3, <3>5, <4>1, OrderTotal, SameDay
      <3> QED  BY <2>2, <3>2, <3>4, <3>5
    <2>5. docs # {} => \A i \in ahead \ now :
              value[i] = Null \/ BlindTo(i, some) \/ Before(last, Row(i), desc)
      BY <1>2, <1>3, <2>1
    <2>6. Cardinality(docs) < Limit => \A i \in ahead \ now : value[i] = Null \/ BlindTo(i, some)
      BY <1>2, <2>1
    <2>7. docs \subseteq Item
      BY <2>2
    <2> QED  BY <1>2, <1>4, <2>3, <2>4, <2>5, <2>6, <2>7 DEF GoesOn, PageFrom, docs, S, last
  <1> QED
    <2>1. \/ query.carries = "other" \/ (query.fallback /\ d.value = Null)
          \/ query.carries # "other" /\ ~ (query.fallback /\ d.value = Null)
      OBVIOUS
    <2> QED  BY <1>6, <1>7, <2>1

LEMMA WalkStep ==
    ASSUME PagingInv, Walking, NEW way \in {"forward", "back"}, NEW d \in Item,
           NEW v \in SortVals(d), NEW desc \in BOOLEAN,
           desc = IF way = "forward" THEN query.desc ELSE ~ query.desc,
           leg = way => d = End, page'.desc = query.desc,
           page'.docs = TopOf({x \in Rows : Keyset(x, Cursor(d, v), desc)}, desc).docs,
           way = "forward" => hasNext' = AtLimit(page'),
           way = "back" => hasPrev' = AtLimit(page'),
           Walk(way, d, page'.docs, desc)
    PROVE  PagingInv'
  <1> DEFINE docs == TopOf({x \in Rows : Keyset(x, Cursor(d, v), desc)}, desc).docs
             past == IF leg = way THEN shown ELSE {}
             last == Foremost(docs, ~ desc)
  <1>0. PagingTypes /\ Walked /\ NothingRepeated /\ page.docs # {}
    BY DEF PagingInv, Walking
  <1>1. /\ leg' = way /\ UNCHANGED <<value, query>> /\ page'.docs = docs
        /\ shown' = past \cup IdsOf(docs) /\ Day(d.value) \in days'
        /\ leg = way => /\ again' = again \cup (shown \cap IdsOf(docs))
                        /\ due' = due /\ days' = days \cup {Day(d.value)}
        /\ leg # way => again' = {} /\ due' = Ahead(d, desc) /\ days' = {Day(d.value)}
    BY DEF Walk
  <1>d. leg = way => desc = Direction
    BY DEF Direction
  <1>2. /\ due' \subseteq Ids /\ past \subseteq Ids
        /\ \A i \in due' : value[i] # Absent
        /\ \A i \in due' \ past : value[i] = Null \/ BlindTo(i, days') \/ Before(d, Row(i), desc)
        /\ \A i \in due' \cap past : BlindTo(i, days') \/ Row(i) = d \/ Before(Row(i), d, desc)
    <2>1. CASE leg = way
      <3>1. \A i : Blind(i) => BlindTo(i, days')
        BY <1>1, <2>1 DEF Blind, BlindTo
      <3> QED  BY <1>0, <1>1, <1>d, <2>1, <3>1 DEF Walked, PagingTypes
    <2>2. CASE leg # way
      <3>1. \A i \in due' : i \in Ids /\ value[i] # Absent /\ Before(d, Row(i), desc)
        BY <1>0, <1>1, <2>2, RowFacts DEF Ahead
      <3> QED  BY <2>2, <3>1
    <2> QED  BY <2>1, <2>2
  <1>3. StandsAt(d, due', past, days', desc) /\ due' \in SUBSET Ids /\ past \in SUBSET Ids
    BY <1>2 DEF StandsAt
  <1>4. GoesOn(docs, due', past, days', desc)
    BY <1>0, <1>1, <1>3, PageGoesOn DEF PageFrom
  <1> HIDE DEF docs, last
  <1>5. PagingTypes'
    <2>1. Day(d.value) \in Int
      BY DocFacts DEF Day
    <2> QED  BY <1>0, <1>1, <1>2, <1>4, <2>1 DEF PagingTypes, Item, GoesOn
  <1>6. NothingRepeated'
    BY <1>0, <1>1, <1>4 DEF NothingRepeated, BlindTo, GoesOn
  <1>7. Walked'
    <2>1. Direction' = desc /\ End' = last
      BY <1>1 DEF Direction, End, last
    <2>2. \A i : (Blind(i)' <=> BlindTo(i, days')) /\ Row(i)' = Row(i)
      BY <1>1 DEF Blind, BlindTo, Row
    <2>3. ~ AtLimit(page)' => Cardinality(docs) < Limit
      BY <1>1, <1>4, FS_CardinalityType, DocFacts DEF AtLimit, GoesOn
    <2> QED  BY <1>1, <1>2, <1>4, <2>1, <2>2, <2>3 DEF Walked, Before, AtLimit, GoesOn, last
  <1> QED  BY <1>5, <1>6, <1>7 DEF PagingInv

LEMMA NextPageStep == PagingInv /\ NextPage => PagingInv'
  <1> SUFFICES ASSUME PagingInv, NextPage PROVE PagingInv'
    OBVIOUS
  <1> DEFINE d == LastOf(page)
  <1>0. PagingTypes /\ Walked /\ page.docs # {} /\ Walking
    BY DEF PagingInv, NextPage, Walking
  <1>1. query.desc \in BOOLEAN /\ page.desc = query.desc
    BY <1>0 DEF PagingTypes, Query, Walked
  <1>2. d \in Item
    BY <1>0, <1>1, ForemostFirst DEF PagingTypes, LastOf
  <1>3. leg = "forward" => d = End
    BY <1>1 DEF End, Direction, LastOf
  <1>v. PICK v \in SortVals(d) :
          /\ page' = PageAfter(Cursor(d, v)) /\ hasNext' = AtLimit(page')
          /\ Walk("forward", d, page'.docs, query.desc)
    BY DEF NextPage, Show
  <1>4. /\ page' = PageAfter(Cursor(d, v)) /\ hasNext' = AtLimit(page')
        /\ Walk("forward", d, page'.docs, query.desc)
    BY <1>v
  <1>5. /\ page'.docs = TopOf({x \in Rows : Keyset(x, Cursor(d, v), query.desc)}, query.desc).docs
        /\ page'.desc = query.desc
    BY <1>4 DEF PageAfter, TopOf
  <1> QED  BY <1>0, <1>1, <1>2, <1>3, <1>4, <1>5, WalkStep

LEMMA PrevPageStep == PagingInv /\ PrevPage => PagingInv'
  <1> SUFFICES ASSUME PagingInv, PrevPage PROVE PagingInv'
    OBVIOUS
  <1> DEFINE d == FirstOf(page)
  <1>0. PagingTypes /\ Walked /\ page.docs # {} /\ Walking
    BY DEF PagingInv, PrevPage, Walking
  <1>1. query.desc \in BOOLEAN /\ page.desc = query.desc
    BY <1>0 DEF PagingTypes, Query, Walked
  <1>2. d \in Item
    BY <1>0, <1>1, ForemostFirst DEF PagingTypes, FirstOf
  <1>3. leg = "back" => d = End
    BY <1>1 DEF End, Direction, FirstOf
  <1>v. PICK v \in SortVals(d) :
          /\ page' = PageBefore(Cursor(d, v)) /\ hasPrev' = AtLimit(page')
          /\ Walk("back", d, page'.docs, ~ query.desc)
    BY DEF PrevPage, Show
  <1>4. /\ page' = PageBefore(Cursor(d, v)) /\ hasPrev' = AtLimit(page')
        /\ Walk("back", d, page'.docs, ~ query.desc)
    BY <1>v
  <1>5. /\ page'.docs = TopOf({x \in Rows : Keyset(x, Cursor(d, v), ~ query.desc)}, ~ query.desc).docs
        /\ page'.desc = query.desc
    BY <1>1, <1>4 DEF PageBefore, Turned, TopOf
  <1> QED  BY <1>0, <1>1, <1>2, <1>3, <1>4, <1>5, WalkStep

LEMMA BeginStep == PagingInv /\ Begin => PagingInv'
  <1> SUFFICES ASSUME PagingInv, Begin PROVE PagingInv'
    OBVIOUS
  <1> DEFINE docs == FirstPage.docs
             last == Foremost(docs, ~ query.desc)
  <1>0. PagingTypes /\ query.desc \in BOOLEAN
    BY DEF PagingInv, PagingTypes, Query
  <1>1. /\ leg' = "forward" /\ UNCHANGED <<value, query>> /\ page'.docs = docs
        /\ page'.desc = query.desc /\ hasNext' = AtLimit(page')
        /\ due' = {d.id : d \in Rows} /\ shown' = IdsOf(docs) /\ again' = {} /\ days' = {}
    BY DEF Begin, Show, FirstPage, TopOf
  <1>2. Rows \in SUBSET Item /\ IsFiniteSet(Rows)
    BY <1>0, RowFacts
  <1>3. /\ docs \subseteq Rows /\ IsFiniteSet(docs)
        /\ \A x \in Rows \ docs, d \in docs : Before(d, x, query.desc)
        /\ Cardinality(docs) < Limit => docs = Rows
    BY <1>0, <1>2, TopFacts DEF FirstPage
  <1> HIDE DEF docs
  <1>4. docs # {} => /\ last \in docs
                     /\ \A x \in docs : x = last \/ Before(x, last, query.desc)
    <2> SUFFICES ASSUME docs # {}
                 PROVE  last \in docs /\ \A x \in docs : x = last \/ Before(x, last, query.desc)
      OBVIOUS
    <2>1. docs \in SUBSET Item
      BY <1>2, <1>3
    <2>2. last \in docs /\ \A x \in docs : x = last \/ Before(last, x, ~ query.desc)
      BY <1>0, <1>3, <2>1, ForemostFirst
    <2> QED  BY <1>0, <2>1, <2>2, OrderTotal
  <1> HIDE DEF last
  <1>5. \A i \in due' : i \in Ids /\ value[i] # Absent /\ Row(i) \in Rows
    BY <1>0, <1>1, RowFacts
  <1>6. \A i \in due' : i \in shown' <=> Row(i) \in docs
    <2> TAKE i \in due'
    <2>1. ASSUME NEW d \in docs, d.id = i
          PROVE  d = Row(i)
      BY <1>0, <1>3, <2>1, RowFacts
    <2> QED  BY <1>1, <2>1 DEF IdsOf, Row
  <1>7. PagingTypes'
    BY <1>0, <1>1, <1>2, <1>3, <1>5 DEF PagingTypes, IdsOf, Item
  <1>8. Walked'
    <2>1. Direction' = query.desc /\ End' = last /\ \A i : Row(i)' = Row(i)
      BY <1>1 DEF Direction, End, Row, last
    <2>2. ~ AtLimit(page)' => Cardinality(docs) < Limit
      BY <1>1, <1>3, FS_CardinalityType, DocFacts DEF AtLimit
    <2>3. docs # {} => /\ \A i \in due' \ shown' : Before(last, Row(i), query.desc)
                       /\ \A i \in due' \cap shown' : Row(i) = last \/ Before(Row(i), last, query.desc)
      BY <1>3, <1>4, <1>5, <1>6
    <2>4. Cardinality(docs) < Limit => due' \ shown' = {}
      BY <1>3, <1>5, <1>6
    <2> QED  BY <1>1, <1>5, <2>1, <2>2, <2>3, <2>4 DEF Walked, AtLimit, Before
  <1>9. NothingRepeated'
    BY <1>1 DEF NothingRepeated
  <1> QED  BY <1>1, <1>7, <1>8, <1>9 DEF PagingInv

LEMMA WriteStep ==
    ASSUME PagingInv, NEW i \in Ids, NEW v \in Values \cup {Absent}, Write(i, v)
    PROVE  PagingInv'
  <1>0. /\ PagingTypes /\ NothingRepeated
        /\ leg \in {"forward", "back"} => Walked
        /\ value' = [value EXCEPT ![i] = v] /\ due' = due \ {i}
        /\ UNCHANGED <<query, page, hasNext, hasPrev, leg, shown, again, days>>
    BY DEF PagingInv, Write
  <1>1. PagingTypes'
    BY <1>0 DEF PagingTypes
  <1>2. \A j \in due' : j \in due /\ value'[j] = value[j]
    BY <1>0 DEF PagingTypes
  <1>3. NothingRepeated'
    BY <1>0, <1>2 DEF NothingRepeated
  <1>4. leg' \in {"forward", "back"} => Walked'
    <2>1. Direction' = Direction /\ End' = End /\ (AtLimit(page)' <=> AtLimit(page))
      BY <1>0 DEF Direction, End, AtLimit
    <2>2. \A j \in due' : (Blind(j)' <=> Blind(j)) /\ Row(j)' = Row(j)
      BY <1>0, <1>2 DEF Blind, BlindTo, Row
    <2> QED  BY <1>0, <1>2, <2>1, <2>2 DEF Walked, Before, AtLimit
  <1> QED  BY <1>1, <1>3, <1>4 DEF PagingInv

LEMMA PagingInitInv == PagingInit => PagingInv
  BY FS_EmptySet DEF PagingInit, PagingInv, PagingTypes, NothingRepeated, NoPage

LEMMA PagingStepInv == PagingInv /\ [PagingNext]_pagingVars => PagingInv'
  <1> SUFFICES ASSUME PagingInv, [PagingNext]_pagingVars PROVE PagingInv'
    OBVIOUS
  <1>1. CASE Begin     BY <1>1, BeginStep
  <1>2. CASE NextPage  BY <1>2, NextPageStep
  <1>3. CASE PrevPage  BY <1>3, PrevPageStep
  <1>4. CASE Refuse
    BY <1>4 DEF Refuse, PagingInv, PagingTypes, NothingRepeated
  <1>5. ASSUME NEW i \in Ids, NEW v \in Values \cup {Absent}, Write(i, v)
        PROVE  PagingInv'
    BY <1>5, WriteStep
  <1>6. CASE UNCHANGED pagingVars
    BY <1>6 DEF pagingVars, PagingInv, PagingTypes, NothingRepeated, Walked, AtLimit, Blind, BlindTo,
                End, Direction, Row
  <1> QED  BY <1>1, <1>2, <1>3, <1>4, <1>5, <1>6 DEF PagingNext

(* A client that follows the cursors of any query, forward and back and    *)
(* with turns, while anybody creates, changes and deletes documents, is    *)
(* shown each document that lay ahead and was left alone exactly once      *)
(* (db/query/read/find.rs, db/query/cursor), except those a cursor is      *)
(* blind to: rows without a value, the day of a page's end, all after a    *)
(* page that ended at a document shown in the default locale's text, and   *)
(* all where the document carries something else in the sort column.       *)
THEOREM PagesAreExact == PagingSpec => []PagesExact
  <1>1. PagingInv => PagesExact
    BY InvSkipsNothing DEF PagingInv, PagesExact
  <1> QED  BY <1>1, PagingInitInv, PagingStepInv, PTL DEF PagingSpec

-----------------------------------------------------------------------------
(***************************************************************************)
(* Population: types, and what a batch waits for.                          *)
(***************************************************************************)
Spot == Seq(Docs \cup (Nat \X Nat)) \ {<<>>}
Entry == [at : Spot, id : Docs]
FrameType == [at : Spot, id : Docs, depth : Nat, todo : SUBSET (Nat \X Nat), keep : BOOLEAN]
CacheType == [Docs -> {Nothing} \cup SUBSET Entry]
LevelType ==
    [how : {"by_id", "list"}, docs : SUBSET Docs, depth : Nat, todo : SUBSET (Nat \X Nat),
     frames : Seq(FrameType), tree : SUBSET Entry, visited : SUBSET Docs, held : CacheType]

\* What is left to do for a document is among its steps, for a batch too.
Working(b) ==
    /\ b.depth > 0 \/ b.todo = {}
    /\ b.todo \subseteq BatchSteps(b.docs, b.depth)
    /\ \A i \in DOMAIN b.frames :
          /\ b.frames[i].todo \subseteq Steps(b.frames[i].id)
          /\ b.frames[i].depth > 0

\* A batch waits for the one above it on the stack, which is what its first
\* query asks for and the cache did not have.
Waits(b, above) ==
    /\ b.frames = <<>>
    /\ \E step \in b.todo :
          /\ IsFirst(step, b.todo) /\ step[1] = Queried
          /\ above.docs = {d \in Wanted(b, step[2]) : above.held[d] = Nothing}

PopTypes ==
    /\ schema \in Schemas /\ refs \in [Docs -> Links] /\ shared \in BOOLEAN
    /\ cache \in CacheType /\ levels \in Seq(LevelType)
    /\ \A n \in DOMAIN levels : Working(levels[n])
    /\ \A n \in DOMAIN levels : n + 1 \in DOMAIN levels => Waits(levels[n], levels[n + 1])

-----------------------------------------------------------------------------
LEMMA SchemaFacts ==
    ASSUME PopTypes
    PROVE  /\ schema.fields \in Seq(Field) /\ schema.join \in BOOLEAN
           /\ Len(schema.fields) \in Nat /\ DOMAIN schema.fields = 1 .. Len(schema.fields)
           /\ JoinField \in Nat /\ JoinField \notin DOMAIN schema.fields
           /\ \A f \in DOMAIN schema.fields :
                 /\ f \in Nat /\ f # JoinField
                 /\ schema.fields[f].cap \in Nat /\ schema.fields[f].cap > 0
                 /\ schema.fields[f].nested \in BOOLEAN
  <1>1. schema \in Schema
    BY PopulationAssumption DEF PopTypes
  <1>2. schema.fields \in Seq(Field) /\ schema.join \in BOOLEAN
    BY <1>1 DEF Schema
  <1>3. \A f \in DOMAIN schema.fields : schema.fields[f] \in Field
    BY <1>2
  <1> QED BY <1>2, <1>3, PopulationAssumption DEF Field, JoinField

LEMMA RefFacts ==
    ASSUME PopTypes, NEW d \in Docs, NEW f \in DOMAIN schema.fields
    PROVE  /\ f \in DOMAIN refs[d] /\ DOMAIN refs[d][f] \subseteq Nat
           /\ \A k \in DOMAIN refs[d][f] : refs[d][f][k] \in Docs \cup {Missing}
           /\ \A ref : ref \in ToSet(refs[d][f]) <=> \E k \in DOMAIN refs[d][f] : refs[d][f][k] = ref
  <1>1. refs[d] \in Links /\ schema \in Schemas
    BY DEF PopTypes
  <1>2. refs[d] \in Seq(Seq(Docs \cup {Missing})) /\ Len(refs[d]) = Len(schema.fields)
    BY <1>1, PopulationAssumption
  <1>3. f \in DOMAIN refs[d]
    BY <1>2, SchemaFacts
  <1>4. refs[d][f] \in Seq(Docs \cup {Missing})
    BY <1>2, <1>3
  <1> QED BY <1>3, <1>4 DEF ToSet

LEMMA OrderFacts ==
    /\ DOMAIN Order \subseteq Nat /\ \A i \in DOMAIN Order : Order[i] \in Docs
    /\ \A d \in Docs : \E i \in DOMAIN Order : Order[i] = d
  BY PopulationAssumption DEF ToSet

\* A step is a field and a position, or the join field and a document.
LEMMA StepFacts ==
    ASSUME PopTypes, NEW d \in Docs, NEW s \in Steps(d)
    PROVE  /\ s \in Nat \X Nat /\ s = <<s[1], s[2]>>
           /\ s[1] # JoinField => /\ s[1] \in DOMAIN schema.fields /\ s[2] \in DOMAIN refs[d][s[1]]
                                  /\ refs[d][s[1]][s[2]] \in Docs \cup {Missing}
           /\ s[1] = JoinField => s[2] \in DOMAIN Order /\ Order[s[2]] \in Docs /\ schema.join
  <1>1. CASE s \in StepsIn(d, DOMAIN schema.fields)
    <2>1. PICK f \in DOMAIN schema.fields : s \in {f} \X DOMAIN refs[d][f]
      BY <1>1 DEF StepsIn
    <2> QED BY <2>1, SchemaFacts, RefFacts
  <1>2. CASE s \in JoinSteps(d)
    BY <1>2, SchemaFacts, OrderFacts DEF JoinSteps
  <1> QED BY <1>1, <1>2 DEF Steps

LEMMA StepsType == ASSUME PopTypes, NEW d \in Docs PROVE Steps(d) \subseteq Nat \X Nat
  BY StepFacts

LEMMA BatchStepFacts ==
    ASSUME PopTypes, NEW docs \in SUBSET Docs, NEW depth, NEW s \in BatchSteps(docs, depth)
    PROVE  /\ s \in Nat \X Nat /\ s = <<s[1], s[2]>> /\ s[1] \in {Queried, InNested, InJoins}
           /\ s[1] = Queried => s[2] \in FieldsThat(FALSE) /\ s[2] \in DOMAIN schema.fields
           /\ s[1] # Queried => s[2] \in DOMAIN Order /\ Order[s[2]] \in docs
  BY SchemaFacts, OrderFacts DEF BatchSteps, FieldsThat, Queried, InNested, InJoins

\* The parts of a tree.
LEMMA BareType ==
    ASSUME NEW d \in Docs, NEW spot \in Spot
    PROVE  Bare(d, spot) \subseteq Entry
  BY DEF Bare, Entry

LEMMA SpotBelow ==
    ASSUME NEW spot \in Spot, NEW s \in Docs \cup (Nat \X Nat)
    PROVE  Append(spot, s) \in Spot
  BY DEF Spot

LEMMA RootSpot == \A d \in Docs : <<d>> \in Spot
  BY DEF Spot

LEMMA GraftType ==
    ASSUME NEW tree \in SUBSET Entry, NEW spot \in Spot
    PROVE  Graft(tree, spot) \subseteq Entry
  <1> SUFFICES ASSUME NEW e \in tree PROVE spot \o Tail(e.at) \in Spot /\ e.id \in Docs
    <2>1. ASSUME NEW x \in Graft(tree, spot) PROVE x \in Entry
      <3>1. PICK e \in tree : x = [at |-> spot \o Tail(e.at), id |-> e.id]
        BY <2>1 DEF Graft
      <3>2. spot \o Tail(e.at) \in Spot /\ e.id \in Docs
        OBVIOUS
      <3> QED BY <3>1, <3>2 DEF Entry
    <2> QED BY <2>1
  <1>1. e.at \in Spot /\ e.id \in Docs
    BY DEF Entry
  <1>2. Tail(e.at) \in Seq(Docs \cup (Nat \X Nat))
    BY <1>1 DEF Spot
  <1>3. spot \o Tail(e.at) \in Seq(Docs \cup (Nat \X Nat)) /\ Len(spot \o Tail(e.at)) = Len(spot) + Len(Tail(e.at))
    BY <1>2 DEF Spot
  <1>4. Len(spot) > 0 /\ Len(Tail(e.at)) \in Nat
    BY <1>2 DEF Spot
  <1> QED BY <1>1, <1>3, <1>4 DEF Spot

LEMMA CutType ==
    ASSUME NEW tree \in SUBSET Entry, NEW spot \in Spot, NEW d \in Docs
    PROVE  Cut(tree, spot, d) \subseteq Entry
  <1> SUFFICES ASSUME NEW e \in tree, IsPrefix(spot, e.at)
               PROVE  <<d>> \o SubSeq(e.at, Len(spot) + 1, Len(e.at)) \in Spot /\ e.id \in Docs
    <2>1. ASSUME NEW x \in Cut(tree, spot, d) PROVE x \in Entry
      <3>1. PICK e \in tree : /\ IsPrefix(spot, e.at)
                             /\ x = [at |-> <<d>> \o SubSeq(e.at, Len(spot) + 1, Len(e.at)), id |-> e.id]
        BY <2>1 DEF Cut
      <3>2. <<d>> \o SubSeq(e.at, Len(spot) + 1, Len(e.at)) \in Spot /\ e.id \in Docs
        BY <3>1
      <3> QED BY <3>1, <3>2 DEF Entry
    <2> QED BY <2>1
  <1> DEFINE rest == SubSeq(e.at, Len(spot) + 1, Len(e.at))
  <1>1. e.at \in Spot /\ e.id \in Docs
    BY DEF Entry
  <1>2. rest \in Seq(Docs \cup (Nat \X Nat))
    BY <1>1 DEF Spot
  <1>3. <<d>> \in Seq(Docs \cup (Nat \X Nat)) /\ Len(<<d>>) = 1
    OBVIOUS
  <1>4. <<d>> \o rest \in Seq(Docs \cup (Nat \X Nat)) /\ Len(<<d>> \o rest) = 1 + Len(rest)
    BY <1>2, <1>3
  <1>5. Len(rest) \in Nat
    BY <1>2
  <1> QED BY <1>1, <1>4, <1>5 DEF Spot

-----------------------------------------------------------------------------
(***************************************************************************)
(* What a step does to the stack.                                          *)
(***************************************************************************)
Underway  == levels # <<>>
Recursing == Underway /\ Level.frames # <<>>

LEMMA Innermost ==
    ASSUME PopTypes, Underway
    PROVE  /\ Len(levels) \in Nat /\ Len(levels) > 0 /\ DOMAIN levels = 1 .. Len(levels)
           /\ Level \in LevelType /\ Working(Level)
  BY DEF PopTypes, Level, Underway

LEMMA InnermostDoc ==
    ASSUME PopTypes, Recursing
    PROVE  /\ Underway /\ Level \in LevelType /\ Working(Level)
           /\ Len(Level.frames) \in Nat /\ Len(Level.frames) > 0
           /\ DOMAIN Level.frames = 1 .. Len(Level.frames)
           /\ Doc \in FrameType /\ Doc.todo \subseteq Steps(Doc.id) /\ Doc.depth > 0
  <1>1. Underway /\ Level \in LevelType /\ Working(Level)
    BY Innermost DEF Recursing
  <1>2. Level.frames \in Seq(FrameType)
    BY <1>1 DEF LevelType
  <1>3. Len(Level.frames) \in Nat /\ Len(Level.frames) > 0 /\ DOMAIN Level.frames = 1 .. Len(Level.frames)
    BY <1>2 DEF Recursing
  <1> QED BY <1>1, <1>2, <1>3 DEF Doc, Working

\* All but the innermost batch stay as they are.
LEMMA BecameFacts ==
    ASSUME PopTypes, Underway, NEW l \in LevelType, Became(l)
    PROVE  /\ levels' \in Seq(LevelType) /\ Len(levels') = Len(levels)
           /\ DOMAIN levels' = DOMAIN levels
           /\ levels'[Len(levels)] = l
           /\ \A n \in DOMAIN levels : n # Len(levels) => levels'[n] = levels[n]
  <1>1. levels \in Seq(LevelType) /\ Len(levels) \in 1 .. Len(levels)
    BY Innermost DEF PopTypes
  <1>2. levels' = [levels EXCEPT ![Len(levels)] = l]
    BY DEF Became
  <1> QED BY <1>1, <1>2, ExceptSeq

LEMMA DoneFacts ==
    ASSUME PopTypes, Recursing, NEW step
    PROVE  /\ Done(step) \in LevelType
           /\ Done(step) = [Level EXCEPT !.frames = Done(step).frames]
           /\ Len(Done(step).frames) = Len(Level.frames)
           /\ \A i \in 1 .. Len(Level.frames) - 1 : Done(step).frames[i] = Level.frames[i]
           /\ Done(step).frames[Len(Level.frames)] = [Doc EXCEPT !.todo = @ \ {step}]
  <1> DEFINE frame  == [Doc EXCEPT !.todo = Doc.todo \ {step}]
             frames == [Level.frames EXCEPT ![Len(Level.frames)] = frame]
  <1>1. Level \in LevelType /\ Level.frames \in Seq(FrameType)
    BY InnermostDoc DEF LevelType
  <1>2. Doc \in FrameType /\ Len(Level.frames) \in 1 .. Len(Level.frames)
    BY InnermostDoc
  <1>3. frame \in FrameType
    BY <1>2 DEF FrameType
  <1>4. Done(step) = [Level EXCEPT !.frames = frames]
    BY <1>1 DEF Done, Doc, LevelType
  <1>5. /\ frames \in Seq(FrameType) /\ Len(frames) = Len(Level.frames)
        /\ \A i \in 1 .. Len(Level.frames) : frames[i] = IF i = Len(Level.frames) THEN frame ELSE Level.frames[i]
    BY <1>1, <1>2, <1>3, ExceptSeq
  <1> HIDE DEF frames, frame
  <1>6. Done(step).frames = frames /\ Done(step) \in LevelType
    BY <1>1, <1>4, <1>5 DEF LevelType
  <1>7. Done(step) = [Level EXCEPT !.frames = Done(step).frames]
    BY <1>4, <1>6
  <1>8. /\ Len(Done(step).frames) = Len(Level.frames)
        /\ \A i \in 1 .. Len(Level.frames) - 1 : Done(step).frames[i] = Level.frames[i]
        /\ Done(step).frames[Len(Level.frames)] = frame
    BY <1>2, <1>5, <1>6
  <1> QED BY <1>6, <1>7, <1>8 DEF frame

\* What a step of the recursion can make of the innermost batch: `l`.
SameBatch(l) ==
    /\ l \in LevelType /\ Working(l)
    /\ l.how = Level.how /\ l.docs = Level.docs /\ l.depth = Level.depth
    /\ l.todo = Level.todo /\ l.held = Level.held
    /\ Level.tree \subseteq l.tree /\ Level.visited \subseteq l.visited

StepDone(l, step) ==
    /\ l.frames \in Seq(FrameType) /\ Len(l.frames) >= Len(Level.frames)
    /\ \A i \in 1 .. Len(Level.frames) - 1 : l.frames[i] = Level.frames[i]
    /\ l.frames[Len(Level.frames)] = [Doc EXCEPT !.todo = @ \ {step}]

\* No document is entered.
Stayed(l) == Len(l.frames) = Len(Level.frames) /\ l.visited = Level.visited

Entered(l, spot, d, depth, keep) ==
    /\ depth > 0 /\ d \notin Level.visited
    /\ l.visited = Level.visited \cup {d}
    /\ Len(l.frames) = Len(Level.frames) + 1
    /\ l.frames[Len(Level.frames) + 1] = Frame(spot, d, depth, Steps(d), keep)

Shown(l, step, d, depth, keep) ==
    LET spot == Append(Doc.at, step) IN
    /\ StepDone(l, step) /\ l.tree = Level.tree \cup Bare(d, spot)
    /\ Stayed(l) \/ Entered(l, spot, d, depth, keep)
    /\ depth <= 0 => Stayed(l)

DidStay(l, step) ==
    /\ step[1] # JoinField /\ Ref(step) \in Level.visited \cup {Missing}
    /\ StepDone(l, step) /\ Stayed(l) /\ l.tree = Level.tree
    /\ cache' = cache

DidTake(l, step) ==
    /\ Wanting(step) /\ InCache(Ref(step), step[1])
    /\ StepDone(l, step) /\ Stayed(l)
    /\ l.tree = Level.tree \cup Graft(cache[Ref(step)], Append(Doc.at, step))
    /\ cache' = cache

DidFetch(l, step) ==
    LET left == Left(step[1], Doc.depth) - 1 IN
    /\ Wanting(step)
    /\ Shown(l, step, Ref(step), left, TRUE)
    /\ cache' = IF left <= 0 THEN [cache EXCEPT ![Ref(step)] = Bare(Ref(step), <<Ref(step)>>)]
                ELSE cache

DidJoin(l, step) ==
    /\ step[1] = JoinField
    /\ Shown(l, step, Order[step[2]], Doc.depth - 1, FALSE)
    /\ cache' = cache

DidEnd(l) ==
    /\ Doc.todo = {} /\ Len(l.frames) = Len(Level.frames) - 1
    /\ \A i \in 1 .. Len(Level.frames) - 1 : l.frames[i] = Level.frames[i]
    /\ l.tree = Level.tree /\ l.visited = Level.visited
    /\ cache' = IF Doc.keep THEN [cache EXCEPT ![Doc.id] = Cut(Level.tree, Doc.at, Doc.id)]
                ELSE cache

Recursion(l) ==
    /\ Became(l) /\ SameBatch(l) /\ UNCHANGED around
    /\ \/ \E step \in Doc.todo : DidStay(l, step) \/ DidTake(l, step) \/ DidFetch(l, step) \/ DidJoin(l, step)
       \/ DidEnd(l)

LEMMA StepDoneWorking ==
    ASSUME PopTypes, Recursing, NEW l, NEW step,
           StepDone(l, step), l.depth = Level.depth, l.todo = Level.todo, l.docs = Level.docs,
           \/ Len(l.frames) = Len(Level.frames)
           \/ /\ Len(l.frames) = Len(Level.frames) + 1
              /\ l.frames[Len(l.frames)].todo \subseteq Steps(l.frames[Len(l.frames)].id)
              /\ l.frames[Len(l.frames)].depth > 0
    PROVE  Working(l)
  <1>1. Working(Level) /\ Doc \in FrameType /\ DOMAIN Level.frames = 1 .. Len(Level.frames)
        /\ Len(Level.frames) \in Nat /\ Len(Level.frames) > 0 /\ Doc.todo \subseteq Steps(Doc.id) /\ Doc.depth > 0
    BY Innermost, InnermostDoc
  <1>2. ASSUME NEW i \in DOMAIN l.frames
        PROVE  l.frames[i].todo \subseteq Steps(l.frames[i].id) /\ l.frames[i].depth > 0
    <2>1. i \in 1 .. Len(l.frames) /\ Len(l.frames) \in Nat
      BY <1>2 DEF StepDone
    <2>2. CASE i \in 1 .. Len(Level.frames) - 1
      BY <1>1, <2>2 DEF StepDone, Working
    <2>3. CASE i = Len(Level.frames)
      <3>1. l.frames[i].todo = Doc.todo \ {step} /\ l.frames[i].id = Doc.id /\ l.frames[i].depth = Doc.depth
        BY <1>1, <2>3 DEF StepDone, FrameType
      <3> QED BY <1>1, <3>1
    <2>4. CASE i = Len(Level.frames) + 1
      BY <1>1, <2>1, <2>4
    <2> QED BY <1>1, <2>1, <2>2, <2>3, <2>4
  <1> QED BY <1>1, <1>2 DEF Working

LEMMA ShowAtFacts ==
    ASSUME PopTypes, Recursing,
           NEW step \in Doc.todo, NEW d \in Docs, NEW depth \in Int, NEW keep \in BOOLEAN,
           ShowAt(step, d, depth, keep)
    PROVE  \E l : Became(l) /\ SameBatch(l) /\ Shown(l, step, d, depth, keep)
  <1> DEFINE spot  == Append(Doc.at, step)
             frame == Frame(spot, d, depth, Steps(d), keep)
             bare  == [Done(step) EXCEPT !.tree = @ \cup Bare(d, spot)]
             into  == [bare EXCEPT !.visited = @ \cup {d}, !.frames = Append(@, frame)]
  <1>1. /\ Level \in LevelType /\ Doc \in FrameType /\ Len(Level.frames) \in Nat /\ Len(Level.frames) > 0
        /\ Done(step) \in LevelType /\ Done(step) = [Level EXCEPT !.frames = Done(step).frames]
    BY Innermost, InnermostDoc, DoneFacts
  <1>2. step \in Nat \X Nat
    BY <1>1, InnermostDoc, StepsType DEF FrameType
  <1>3. spot \in Spot
    BY <1>1, <1>2, SpotBelow DEF FrameType
  <1>4. Bare(d, spot) \in SUBSET Entry
    BY <1>3, BareType
  <1>5. StepDone(Done(step), step) /\ Len(Done(step).frames) = Len(Level.frames)
    <2>1. /\ Len(Done(step).frames) = Len(Level.frames)
          /\ \A i \in 1 .. Len(Level.frames) - 1 : Done(step).frames[i] = Level.frames[i]
          /\ Done(step).frames[Len(Level.frames)] = [Doc EXCEPT !.todo = @ \ {step}]
      BY DoneFacts
    <2>2. Done(step).frames \in Seq(FrameType)
      BY <1>1 DEF LevelType
    <2> QED BY <1>1, <2>1, <2>2 DEF StepDone
  <1>6. /\ Done(step).docs = Level.docs /\ Done(step).depth = Level.depth /\ Done(step).todo = Level.todo
        /\ Done(step).how = Level.how /\ Done(step).held = Level.held
        /\ Done(step).tree = Level.tree /\ Done(step).visited = Level.visited
    BY <1>1 DEF LevelType
  <1> HIDE DEF spot
  <1>7. /\ bare \in LevelType /\ bare.tree = Level.tree \cup Bare(d, spot) /\ bare.frames = Done(step).frames
        /\ bare.docs = Level.docs /\ bare.depth = Level.depth /\ bare.todo = Level.todo
        /\ bare.how = Level.how /\ bare.held = Level.held /\ bare.visited = Level.visited
    BY <1>1, <1>4, <1>6 DEF LevelType
  <1> HIDE DEF bare
  <1>8. CASE depth <= 0 \/ d \in Level.visited
    <2>1. Became(bare)
      BY <1>8 DEF ShowAt, bare, spot
    <2>2. StepDone(bare, step) /\ Stayed(bare)
      BY <1>5, <1>7 DEF StepDone, Stayed
    <2>3. Working(bare)
      BY <2>2, <1>7, StepDoneWorking DEF Stayed
    <2>4. SameBatch(bare)
      BY <1>7, <2>3 DEF SameBatch
    <2>5. Shown(bare, step, d, depth, keep)
      BY <1>7, <2>2 DEF Shown, spot
    <2> QED BY <2>1, <2>4, <2>5
  <1>9. CASE ~ (depth <= 0 \/ d \in Level.visited)
    <2>1. Became(into)
      BY <1>9 DEF ShowAt, bare, spot
    <2>2. frame \in FrameType
      BY <1>3, <1>9, StepsType DEF Frame, FrameType
    <2> HIDE DEF frame
    <2>3. /\ Append(bare.frames, frame) \in Seq(FrameType)
          /\ Len(Append(bare.frames, frame)) = Len(Level.frames) + 1
          /\ \A i \in 1 .. Len(Level.frames) : Append(bare.frames, frame)[i] = Done(step).frames[i]
          /\ Append(bare.frames, frame)[Len(Level.frames) + 1] = frame
      <3>1. bare.frames \in Seq(FrameType) /\ Len(bare.frames) = Len(Level.frames)
        BY <1>5, <1>7 DEF LevelType
      <3>2. /\ Append(bare.frames, frame) \in Seq(FrameType)
            /\ Len(Append(bare.frames, frame)) = Len(bare.frames) + 1
            /\ \A i \in 1 .. Len(bare.frames) : Append(bare.frames, frame)[i] = bare.frames[i]
            /\ Append(bare.frames, frame)[Len(bare.frames) + 1] = frame
        BY <2>2, <3>1, AppendProperties
      <3> QED BY <1>7, <3>1, <3>2
    <2>4. /\ into \in LevelType /\ into.tree = bare.tree /\ into.frames = Append(bare.frames, frame)
          /\ into.docs = Level.docs /\ into.depth = Level.depth /\ into.todo = Level.todo
          /\ into.how = Level.how /\ into.held = Level.held /\ into.visited = Level.visited \cup {d}
      BY <1>7, <2>3 DEF LevelType
    <2> HIDE DEF into
    <2>5. StepDone(into, step)
      BY <1>1, <1>5, <2>3, <2>4 DEF StepDone
    <2>6. Entered(into, spot, d, depth, keep)
      BY <1>9, <2>3, <2>4 DEF Entered, frame
    <2>7. Working(into)
      <3>1. frame.todo = Steps(frame.id) /\ frame.depth > 0
        BY <1>9 DEF frame, Frame
      <3> QED BY <2>4, <2>5, <2>3, <3>1, StepDoneWorking
    <2>8. SameBatch(into)
      BY <1>7, <2>4, <2>7 DEF SameBatch
    <2>9. Shown(into, step, d, depth, keep)
      BY <1>7, <1>9, <2>4, <2>5, <2>6 DEF Shown, spot
    <2> QED BY <2>1, <2>8, <2>9
  <1> QED BY <1>8, <1>9

LEMMA SpotFacts ==
    ASSUME PopTypes, Recursing, NEW step \in Doc.todo
    PROVE  /\ step \in Nat \X Nat /\ step = <<step[1], step[2]>> /\ Append(Doc.at, step) \in Spot
           /\ Doc.at \in Spot /\ Doc.id \in Docs
           /\ step[1] # JoinField => /\ step[1] \in DOMAIN schema.fields
                                     /\ Ref(step) \in Docs \cup {Missing}
                                     /\ Left(step[1], Doc.depth) \in Nat \ {0}
                                     /\ Left(step[1], Doc.depth) <= Doc.depth
                                     /\ Left(step[1], Doc.depth) <= schema.fields[step[1]].cap
           /\ step[1] = JoinField => step[2] \in DOMAIN Order /\ Order[step[2]] \in Docs /\ schema.join
  <1>1. Doc \in FrameType /\ step \in Steps(Doc.id) /\ Doc.depth > 0
    BY InnermostDoc
  <1>2. Doc.id \in Docs /\ Doc.at \in Spot /\ Doc.depth \in Nat
    BY <1>1 DEF FrameType
  <1>3. step \in Nat \X Nat /\ step = <<step[1], step[2]>>
    BY <1>1, <1>2, StepFacts
  <1>4. Append(Doc.at, step) \in Spot
    BY <1>2, <1>3, SpotBelow
  <1>5. ASSUME step[1] # JoinField
        PROVE  step[1] \in DOMAIN schema.fields /\ Ref(step) \in Docs \cup {Missing}
    BY <1>1, <1>2, <1>5, StepFacts DEF Ref
  <1>6. step[1] = JoinField => step[2] \in DOMAIN Order /\ Order[step[2]] \in Docs /\ schema.join
    BY <1>1, <1>2, StepFacts
  <1>7. ASSUME step[1] # JoinField
        PROVE  /\ Left(step[1], Doc.depth) \in Nat \ {0} /\ Left(step[1], Doc.depth) <= Doc.depth
               /\ Left(step[1], Doc.depth) <= schema.fields[step[1]].cap
    <2>1. schema.fields[step[1]].cap \in Nat /\ schema.fields[step[1]].cap > 0
      BY <1>5, <1>7, SchemaFacts
    <2> QED BY <1>1, <1>2, <2>1 DEF Left
  <1> QED BY <1>2, <1>3, <1>4, <1>5, <1>6, <1>7

LEMMA StaysIdStep ==
    ASSUME PopTypes, Recursing, NEW step \in Doc.todo, StaysId(step)
    PROVE  \E l : Recursion(l)
  <1> DEFINE l == Done(step)
  <1>1. Level \in LevelType /\ l \in LevelType /\ l = [Level EXCEPT !.frames = l.frames]
    BY InnermostDoc, DoneFacts
  <1>2. /\ l.how = Level.how /\ l.docs = Level.docs /\ l.depth = Level.depth /\ l.todo = Level.todo
        /\ l.held = Level.held /\ l.tree = Level.tree /\ l.visited = Level.visited
    BY <1>1 DEF LevelType
  <1>3. l.frames \in Seq(FrameType) /\ Len(Level.frames) \in Nat
    BY <1>1, InnermostDoc DEF LevelType
  <1>4. StepDone(l, step) /\ Len(l.frames) = Len(Level.frames)
    BY <1>3, DoneFacts DEF StepDone
  <1>5. Working(l)
    BY <1>2, <1>4, StepDoneWorking
  <1>6. SameBatch(l)
    BY <1>1, <1>2, <1>5 DEF SameBatch
  <1>7. DidStay(l, step)
    BY <1>2, <1>4 DEF DidStay, Stayed, StaysId
  <1>8. Became(l) /\ UNCHANGED around
    BY DEF StaysId
  <1> QED BY <1>6, <1>7, <1>8 DEF Recursion

LEMMA FromCacheStep ==
    ASSUME PopTypes, Recursing, NEW step \in Doc.todo, FromCache(step)
    PROVE  \E l : Recursion(l)
  <1> DEFINE grafted == Graft(cache[Ref(step)], Append(Doc.at, step))
             l == [Done(step) EXCEPT !.tree = @ \cup grafted]
  <1>1. /\ Level \in LevelType /\ Done(step) \in LevelType
        /\ Done(step) = [Level EXCEPT !.frames = Done(step).frames]
    BY InnermostDoc, DoneFacts
  <1>2. grafted \in SUBSET Entry
    <2>1. Ref(step) \in Docs /\ cache[Ref(step)] # Nothing /\ cache \in CacheType
      BY DEF FromCache, Wanting, InCache, PopTypes
    <2>2. cache[Ref(step)] \in SUBSET Entry
      BY <2>1 DEF CacheType
    <2> QED BY <2>2, SpotFacts, GraftType
  <1> HIDE DEF grafted
  <1>3. /\ l.how = Level.how /\ l.docs = Level.docs /\ l.depth = Level.depth /\ l.todo = Level.todo
        /\ l.held = Level.held /\ l.tree = Level.tree \cup grafted /\ l.visited = Level.visited
        /\ l \in LevelType /\ l.frames = Done(step).frames
    BY <1>1, <1>2 DEF LevelType
  <1>a. Became(l)
    BY DEF FromCache, grafted
  <1> HIDE DEF l
  <1>4. l.frames \in Seq(FrameType) /\ Len(Level.frames) \in Nat
    BY <1>3, InnermostDoc DEF LevelType
  <1>5. StepDone(l, step) /\ Len(l.frames) = Len(Level.frames)
    BY <1>3, <1>4, DoneFacts DEF StepDone
  <1>6. Working(l)
    BY <1>3, <1>5, StepDoneWorking
  <1>7. SameBatch(l)
    BY <1>3, <1>6 DEF SameBatch
  <1>8. DidTake(l, step)
    BY <1>3, <1>5 DEF DidTake, Stayed, FromCache, grafted
  <1>9. UNCHANGED around
    BY DEF FromCache
  <1> QED BY <1>a, <1>7, <1>8, <1>9 DEF Recursion

LEMMA FetchStep ==
    ASSUME PopTypes, Recursing, NEW step \in Doc.todo, Fetch(step)
    PROVE  \E l : Recursion(l)
  <1>1. step[1] # JoinField /\ Ref(step) \in Docs /\ Left(step[1], Doc.depth) - 1 \in Int
    BY SpotFacts DEF Fetch, Wanting
  <1>2. ShowAt(step, Ref(step), Left(step[1], Doc.depth) - 1, TRUE)
    BY DEF Fetch
  <1>3. PICK l : Became(l) /\ SameBatch(l) /\ Shown(l, step, Ref(step), Left(step[1], Doc.depth) - 1, TRUE)
    BY <1>1, <1>2, ShowAtFacts
  <1>4. DidFetch(l, step) /\ UNCHANGED around
    BY <1>3 DEF DidFetch, Fetch
  <1> QED BY <1>3, <1>4 DEF Recursion

LEMMA JoinStep ==
    ASSUME PopTypes, Recursing, NEW step \in Doc.todo, Join(step)
    PROVE  \E l : Recursion(l)
  <1>1. Doc.depth - 1 \in Int
    BY InnermostDoc DEF FrameType
  <1>2. Order[step[2]] \in Docs /\ ShowAt(step, Order[step[2]], Doc.depth - 1, FALSE)
    BY SpotFacts DEF Join
  <1>3. PICK l : Became(l) /\ SameBatch(l) /\ Shown(l, step, Order[step[2]], Doc.depth - 1, FALSE)
    BY <1>1, <1>2, ShowAtFacts
  <1>4. DidJoin(l, step) /\ UNCHANGED around
    BY <1>3 DEF DidJoin, Join
  <1> QED BY <1>3, <1>4 DEF Recursion

LEMMA PopulatedStep ==
    ASSUME PopTypes, Recursing, Populated
    PROVE  \E l : Recursion(l)
  <1> DEFINE l == [Level EXCEPT !.frames = Front(@)]
  <1>1. Level \in LevelType /\ Level.frames \in Seq(FrameType) /\ Working(Level)
    BY InnermostDoc DEF LevelType
  <1>2. /\ Front(Level.frames) \in Seq(FrameType) /\ Len(Front(Level.frames)) = Len(Level.frames) - 1
        /\ \A i \in 1 .. Len(Level.frames) - 1 : Front(Level.frames)[i] = Level.frames[i]
    BY <1>1, InnermostDoc DEF Front
  <1>3. l \in LevelType /\ l = [Level EXCEPT !.frames = Front(Level.frames)] /\ l.frames = Front(Level.frames)
    BY <1>1, <1>2 DEF LevelType
  <1>4. /\ l.how = Level.how /\ l.docs = Level.docs /\ l.depth = Level.depth /\ l.todo = Level.todo
        /\ l.held = Level.held /\ l.tree = Level.tree /\ l.visited = Level.visited
    BY <1>1 DEF LevelType
  <1>a. Became(l)
    BY DEF Populated
  <1> HIDE DEF l
  <1>5. Working(l)
    <2>1. DOMAIN l.frames = 1 .. Len(Level.frames) - 1 /\ DOMAIN Level.frames = 1 .. Len(Level.frames)
      BY <1>2, <1>3, InnermostDoc
    <2>2. \A i \in DOMAIN l.frames : i \in DOMAIN Level.frames /\ l.frames[i] = Level.frames[i]
      BY <1>2, <1>3, <2>1, InnermostDoc
    <2> QED BY <1>1, <1>4, <2>2 DEF Working
  <1>6. SameBatch(l)
    BY <1>3, <1>4, <1>5 DEF SameBatch
  <1>7. DidEnd(l) /\ UNCHANGED around
    BY <1>2, <1>3, <1>4 DEF DidEnd, Populated
  <1> QED BY <1>a, <1>6, <1>7 DEF Recursion

\* What Populate does, as one formula.
LEMMA PopulateIsRecursion ==
    ASSUME PopTypes, Populate
    PROVE  Recursing /\ \E l : Recursion(l)
  <1>1. Recursing
    BY DEF Populate, Recursing, Underway
  <1> QED BY <1>1, StaysIdStep, FromCacheStep, FetchStep, JoinStep, PopulatedStep DEF Populate

-----------------------------------------------------------------------------
(***************************************************************************)
(* Batches.                                                                *)
(***************************************************************************)
LEMMA BatchStepsType ==
    ASSUME PopTypes, NEW docs \in SUBSET Docs, NEW depth
    PROVE  BatchSteps(docs, depth) \subseteq Nat \X Nat
  BY BatchStepFacts

LEMMA RootsFacts ==
    ASSUME NEW docs, NEW e
    PROVE  e \in Roots(docs) <=> \E d \in docs : e = [at |-> <<d>>, id |-> d]
  BY DEF Roots, Bare

LEMMA BatchType ==
    ASSUME PopTypes, NEW how \in {"by_id", "list"}, NEW docs \in SUBSET Docs, NEW depth, depth \in Nat,
           NEW todo \in SUBSET (Nat \X Nat), NEW frames \in Seq(FrameType),
           NEW b, b = Batch(how, docs, depth, todo, frames)
    PROVE  /\ b \in LevelType
           /\ b.how = how /\ b.docs = docs /\ b.depth = depth /\ b.todo = todo /\ b.frames = frames
           /\ b.visited = docs /\ b.held = cache
  <1> DEFINE tree == Roots(docs)
  <1>1. tree \in SUBSET Entry
    BY RootsFacts, RootSpot DEF Entry
  <1> HIDE DEF tree
  <1>2. cache \in CacheType
    BY DEF PopTypes
  <1>3. Batch(how, docs, depth, todo, frames) =
           [how |-> how, docs |-> docs, depth |-> depth, todo |-> todo, frames |-> frames,
            tree |-> tree, visited |-> docs, held |-> cache]
    BY DEF Batch, tree
  <1>4. Batch(how, docs, depth, todo, frames) \in LevelType
    BY <1>1, <1>2, <1>3 DEF LevelType
  <1> QED BY <1>3, <1>4 DEF tree

LEMMA ListType ==
    ASSUME PopTypes, NEW docs \in SUBSET Docs, NEW depth \in Nat
    PROVE  LET b == Batch("list", docs, depth, BatchSteps(docs, depth), <<>>) IN
           /\ b \in LevelType
           /\ b.docs = docs /\ b.depth = depth /\ b.todo = BatchSteps(docs, depth)
           /\ b.frames = <<>> /\ b.held = cache /\ b.tree = Roots(docs) /\ b.visited = docs
  <1> DEFINE steps == BatchSteps(docs, depth)
             none  == <<>>
  <1>1. none \in Seq(FrameType) /\ "list" \in {"by_id", "list"}
    OBVIOUS
  <1>2. steps \in SUBSET (Nat \X Nat)
    BY BatchStepsType
  <1> HIDE DEF steps, none
  <1>3. \A b : b = Batch("list", docs, depth, steps, none) =>
           /\ b \in LevelType
           /\ b.docs = docs /\ b.depth = depth /\ b.todo = steps
           /\ b.frames = none /\ b.held = cache /\ b.visited = docs
    BY <1>1, <1>2, BatchType
  <1>4. Batch("list", docs, depth, steps, none).tree = Roots(docs)
    BY DEF Batch
  <1> QED BY <1>3, <1>4, Zenon DEF steps, none

LEMMA ListWorking ==
    ASSUME PopTypes, NEW docs \in SUBSET Docs, NEW depth \in Nat, NEW b,
           b.docs = docs, b.depth = depth, b.todo = BatchSteps(docs, depth), b.frames = <<>>
    PROVE  Working(b)
  <1>1. ASSUME ~ depth > 0 PROVE BatchSteps(docs, depth) = {}
    <2>1. depth <= 0
      BY <1>1
    <2> QED BY <2>1 DEF BatchSteps
  <1>2. DOMAIN b.frames = {}
    OBVIOUS
  <1> QED BY <1>1, <1>2 DEF Working

\* Two steps cannot both be the first.
LEMMA OneFirst ==
    ASSUME NEW todo \in SUBSET (Nat \X Nat), NEW s \in todo, NEW t \in todo, IsFirst(s, todo), IsFirst(t, todo)
    PROVE  s = t
  <1> SUFFICES ASSUME s # t PROVE FALSE
    OBVIOUS
  <1>1. s[1] < t[1] \/ (s[1] = t[1] /\ s[2] < t[2])
    BY DEF IsFirst
  <1>2. t[1] < s[1] \/ (t[1] = s[1] /\ t[2] < s[2])
    BY DEF IsFirst
  <1>3. s[1] \in Nat /\ s[2] \in Nat /\ t[1] \in Nat /\ t[2] \in Nat
    OBVIOUS
  <1> QED BY <1>1, <1>2, <1>3

LEMMA OwnType == ASSUME NEW b \in LevelType, NEW d \in Docs PROVE Own(b, d) \in SUBSET Entry
  BY DEF Own, LevelType

LEMMA WantedFacts ==
    ASSUME PopTypes, NEW b, b.docs \subseteq Docs, NEW f \in DOMAIN schema.fields
    PROVE  /\ \A ref \in Wanted(b, f) :
                 /\ ref \in Docs \ b.docs
                 /\ \E d \in b.docs : \E k \in DOMAIN refs[d][f] : refs[d][f][k] = ref
           /\ \A d \in b.docs : \A k \in DOMAIN refs[d][f] :
                 refs[d][f][k] \notin b.docs \cup {Missing} => refs[d][f][k] \in Wanted(b, f)
  <1> DEFINE named == UNION {ToSet(refs[d][f]) : d \in b.docs}
  <1>1. Wanted(b, f) = named \ (b.docs \cup {Missing})
    BY DEF Wanted
  <1>4. \A ref \in named : \E d \in b.docs : ref \in ToSet(refs[d][f])
    OBVIOUS
  <1>5. \A d \in b.docs : ToSet(refs[d][f]) \subseteq named
    OBVIOUS
  <1> HIDE DEF named
  <1>2. ASSUME NEW ref \in named
        PROVE  /\ ref \in Docs \cup {Missing}
               /\ \E d \in b.docs : \E k \in DOMAIN refs[d][f] : refs[d][f][k] = ref
    <2>1. PICK d \in b.docs : ref \in ToSet(refs[d][f])
      BY <1>4
    <2>a. d \in Docs
      OBVIOUS
    <2>b. \A x : x \in ToSet(refs[d][f]) => \E k \in DOMAIN refs[d][f] : refs[d][f][k] = x
      BY DEF ToSet
    <2>2. PICK k \in DOMAIN refs[d][f] : refs[d][f][k] = ref
      BY <2>1, <2>b
    <2> QED BY <2>1, <2>2, RefFacts
  <1>3. ASSUME NEW d \in b.docs, NEW k \in DOMAIN refs[d][f] PROVE refs[d][f][k] \in named
    <2>a. d \in Docs
      OBVIOUS
    <2>1. refs[d][f][k] \in ToSet(refs[d][f])
      BY <2>a, RefFacts
    <2> QED BY <2>1, <1>5
  <1> QED BY <1>1, <1>2, <1>3

LEMMA QueryFieldFacts ==
    ASSUME PopTypes, Underway, Level.frames = <<>>, NEW step \in Level.todo,
           IsFirst(step, Level.todo), QueryField(step)
    PROVE  /\ step[1] = Queried /\ step[2] \in DOMAIN schema.fields
           /\ \E fetched \in SUBSET Docs, left \in Nat :
                 LET b == Batch("list", fetched, left, BatchSteps(fetched, left), <<>>) IN
                 /\ left = Left(step[2], Level.depth) - 1
                 /\ levels' = Append(levels, b) /\ b \in LevelType /\ Working(b) /\ Waits(Level, b)
           /\ cache' = cache /\ UNCHANGED around
  <1> DEFINE fetched == {d \in Wanted(Level, step[2]) : cache[d] = Nothing}
             left    == Left(step[2], Level.depth) - 1
             b       == Batch("list", fetched, left, BatchSteps(fetched, left), <<>>)
  <1>1. Level \in LevelType /\ Level.docs \in SUBSET Docs /\ Level.depth \in Nat /\ Working(Level)
    BY Innermost DEF LevelType
  <1>2. step \in BatchSteps(Level.docs, Level.depth) /\ Level.depth > 0
    BY <1>1 DEF Working
  <1>3. step[1] = Queried /\ step[2] \in DOMAIN schema.fields
    BY <1>1, <1>2, BatchStepFacts DEF QueryField
  <1>4. Wanted(Level, step[2]) \subseteq Docs
    BY <1>1, <1>3, WantedFacts
  <1>5. left \in Nat
    <2>1. schema.fields[step[2]].cap \in Nat /\ schema.fields[step[2]].cap > 0
      BY <1>3, SchemaFacts
    <2> QED BY <1>1, <1>2, <2>1 DEF Left
  <1>6. fetched \in SUBSET Docs
    BY <1>4
  <1>7. levels' = Append(levels, b) /\ cache' = cache /\ UNCHANGED around
    BY DEF QueryField
  <1> HIDE DEF fetched, left
  <1>9. /\ b \in LevelType /\ b.docs = fetched /\ b.depth = left /\ b.todo = BatchSteps(fetched, left)
        /\ b.frames = <<>> /\ b.held = cache /\ b.tree = Roots(fetched) /\ b.visited = fetched
    BY <1>5, <1>6, ListType
  <1> HIDE DEF b
  <1>10. Working(b)
    BY <1>5, <1>6, <1>9, ListWorking
  <1>11. Waits(Level, b)
    BY <1>3, <1>9 DEF Waits, fetched
  <1> QED BY <1>3, <1>5, <1>6, <1>7, <1>9, <1>10, <1>11 DEF b, left

LEMMA OneDocumentFacts ==
    ASSUME PopTypes, Underway, Level.frames = <<>>, NEW step \in Level.todo, OneDocument(step)
    PROVE  LET d    == Order[step[2]]
               todo == IF step[1] = InNested THEN StepsIn(d, FieldsThat(TRUE)) ELSE JoinSteps(d)
               l    == [Level EXCEPT !.todo = @ \ {step}, !.visited = Level.docs,
                                     !.frames = <<Frame(<<d>>, d, Level.depth, todo, FALSE)>>]
           IN  /\ step \in Nat \X Nat /\ step = <<step[1], step[2]>> /\ step[1] \in {InNested, InJoins}
               /\ step[2] \in DOMAIN Order /\ d \in Level.docs /\ Level.depth > 0 /\ todo \subseteq Steps(d)
               /\ l \in LevelType /\ Working(l) /\ Became(l)
               /\ l.how = Level.how /\ l.docs = Level.docs /\ l.depth = Level.depth
               /\ l.todo = Level.todo \ {step} /\ l.held = Level.held /\ l.tree = Level.tree
               /\ l.visited = Level.docs /\ l.frames = <<Frame(<<d>>, d, Level.depth, todo, FALSE)>>
               /\ cache' = cache /\ UNCHANGED around
  <1> DEFINE d     == Order[step[2]]
             todo  == IF step[1] = InNested THEN StepsIn(d, FieldsThat(TRUE)) ELSE JoinSteps(d)
             frame == Frame(<<d>>, d, Level.depth, todo, FALSE)
             l     == [Level EXCEPT !.todo = @ \ {step}, !.visited = Level.docs, !.frames = <<frame>>]
  <1>1. Level \in LevelType /\ Level.docs \in SUBSET Docs /\ Level.depth \in Nat /\ Working(Level)
    BY Innermost DEF LevelType
  <1>2. step \in BatchSteps(Level.docs, Level.depth) /\ Level.depth > 0 /\ step[1] # Queried
    BY <1>1 DEF Working, OneDocument
  <1>3. /\ step \in Nat \X Nat /\ step = <<step[1], step[2]>> /\ step[1] \in {InNested, InJoins}
        /\ step[2] \in DOMAIN Order /\ d \in Level.docs
    <2> DEFINE docs == Level.docs
               depth == Level.depth
    <2>1. docs \in SUBSET Docs /\ step \in BatchSteps(docs, depth) /\ step[1] # Queried
      BY <1>1, <1>2
    <2> HIDE DEF docs, depth
    <2>2. /\ step \in Nat \X Nat /\ step = <<step[1], step[2]>> /\ step[1] \in {InNested, InJoins}
          /\ step[2] \in DOMAIN Order /\ Order[step[2]] \in docs
      BY <2>1, BatchStepFacts
    <2> QED BY <2>2 DEF docs
  <1>4. todo \subseteq Steps(d)
    BY DEF Steps, StepsIn, FieldsThat
  <1>5. Became(l) /\ cache' = cache /\ UNCHANGED around
    BY DEF OneDocument
  <1> HIDE DEF d, todo
  <1>6. frame \in FrameType /\ frame.todo = todo /\ frame.id = d /\ frame.depth = Level.depth
    BY <1>1, <1>3, <1>4, StepsType, RootSpot DEF Frame, FrameType
  <1> HIDE DEF frame
  <1>7. <<frame>> \in Seq(FrameType)
    BY <1>6
  <1>8. /\ l \in LevelType /\ l.how = Level.how /\ l.docs = Level.docs /\ l.depth = Level.depth
        /\ l.todo = Level.todo \ {step} /\ l.held = Level.held /\ l.tree = Level.tree
        /\ l.visited = Level.docs /\ l.frames = <<frame>>
    BY <1>1, <1>7 DEF LevelType
  <1> HIDE DEF l
  <1>9. Working(l)
    BY <1>1, <1>2, <1>4, <1>6, <1>8 DEF Working
  <1> QED BY <1>2, <1>3, <1>4, <1>5, <1>8, <1>9 DEF l, frame, todo, d

LEMMA DistributedFacts ==
    ASSUME NEW below, NEW f, NEW e
    PROVE  e \in Distributed(below, f) <=>
              \E d \in below.docs : \E k \in DOMAIN refs[d][f] :
                 refs[d][f][k] \in Wanted(below, f) /\ e \in Graft(Got(Level, refs[d][f][k]), <<d, <<f, k>>>>)
  <1> DEFINE at(d, k) == Graft(Got(Level, refs[d][f][k]), <<d, <<f, k>>>>)
             ks(d)    == {k \in DOMAIN refs[d][f] : refs[d][f][k] \in Wanted(below, f)}
             part(d)  == UNION {at(d, k) : k \in ks(d)}
  <1>1. Distributed(below, f) = UNION {part(d) : d \in below.docs}
    BY DEF Distributed
  <1>2. \A d : e \in part(d) <=> \E k \in ks(d) : e \in at(d, k)
    <2> HIDE DEF at, ks
    <2> QED OBVIOUS
  <1>3. \A d, k : k \in ks(d) <=> k \in DOMAIN refs[d][f] /\ refs[d][f][k] \in Wanted(below, f)
    OBVIOUS
  <1> HIDE DEF ks, part
  <1>4. e \in Distributed(below, f) <=> \E d \in below.docs : e \in part(d)
    BY <1>1
  <1>5. e \in Distributed(below, f) <=> \E d \in below.docs : \E k \in ks(d) : e \in at(d, k)
    BY <1>2, <1>4
  <1> QED BY <1>3, <1>5

\* What the batch above has for an id that was asked of it.
LEMMA GotFacts ==
    ASSUME PopTypes, NEW b \in LevelType, NEW ref \in Docs, NEW wanted, ref \in wanted,
           b.docs = {d \in wanted : b.held[d] = Nothing}
    PROVE  /\ Got(b, ref) \in SUBSET Entry
           /\ ref \in b.docs => Got(b, ref) = Own(b, ref)
           /\ ref \notin b.docs => Got(b, ref) = b.held[ref] /\ b.held[ref] # Nothing
  <1>1. ref \notin b.docs => b.held[ref] # Nothing
    OBVIOUS
  <1>2. b.held[ref] \in {Nothing} \cup SUBSET Entry
    BY DEF LevelType, CacheType
  <1>3. Own(b, ref) \in SUBSET Entry
    BY OwnType
  <1> QED BY <1>1, <1>2, <1>3 DEF Got

LEMMA DistributedType ==
    ASSUME PopTypes, Underway, NEW below \in LevelType, NEW f \in DOMAIN schema.fields,
           Level.docs = {d \in Wanted(below, f) : Level.held[d] = Nothing}
    PROVE  Distributed(below, f) \in SUBSET Entry
  <1> SUFFICES ASSUME NEW e \in Distributed(below, f) PROVE e \in Entry
    OBVIOUS
  <1>0. Level \in LevelType /\ below.docs \subseteq Docs
    BY Innermost DEF LevelType
  <1>a. PICK d \in below.docs : \E k \in DOMAIN refs[d][f] :
           refs[d][f][k] \in Wanted(below, f) /\ e \in Graft(Got(Level, refs[d][f][k]), <<d, <<f, k>>>>)
    BY DistributedFacts
  <1>1. PICK k \in DOMAIN refs[d][f] :
           refs[d][f][k] \in Wanted(below, f) /\ e \in Graft(Got(Level, refs[d][f][k]), <<d, <<f, k>>>>)
    BY <1>a
  <1>2. d \in Docs /\ refs[d][f][k] \in Docs /\ f \in Nat /\ k \in Nat
    BY <1>0, <1>1, WantedFacts, RefFacts, SchemaFacts
  <1>3. Got(Level, refs[d][f][k]) \in SUBSET Entry
    BY <1>0, <1>1, <1>2, GotFacts
  <1>4. <<d, <<f, k>>>> \in Spot
    <2>1. <<d>> \in Spot /\ <<f, k>> \in Nat \X Nat /\ <<d, <<f, k>>>> = Append(<<d>>, <<f, k>>)
      BY <1>2, RootSpot
    <2> QED BY <2>1, SpotBelow
  <1> QED BY <1>1, <1>3, <1>4, GraftType

\* What a batch has become when the one above it returns.
Received(below, step, l) ==
    /\ l \in LevelType /\ Working(l) /\ l.frames = <<>>
    /\ l.how = below.how /\ l.docs = below.docs /\ l.depth = below.depth
    /\ l.held = below.held /\ l.visited = below.visited
    /\ l.todo = below.todo \ {step}
    /\ l.tree = below.tree \cup Distributed(below, step[2])

LEMMA ReturnFacts ==
    ASSUME PopTypes, NEW n \in Nat, n > 0, Len(levels) = n + 1, Return
    PROVE  LET below == levels[n] IN
           /\ below \in LevelType /\ Working(below) /\ below.frames = <<>>
           /\ \E step \in below.todo :
                 /\ step[1] = Queried /\ step[2] \in DOMAIN schema.fields /\ step = <<step[1], step[2]>>
                 /\ Level.docs = {d \in Wanted(below, step[2]) : Level.held[d] = Nothing}
                 /\ Received(below, step, levels'[n])
           /\ levels' \in Seq(LevelType) /\ Len(levels') = n /\ DOMAIN levels' = 1 .. n
           /\ \A m \in 1 .. n - 1 : levels'[m] = levels[m]
           /\ cache' = [d \in Docs |-> IF d \in Level.docs THEN Own(Level, d) ELSE cache[d]]
           /\ cache' \in CacheType /\ UNCHANGED around
  <1> DEFINE below == levels[n]
  <1>1. /\ Len(levels) \in Nat /\ DOMAIN levels = 1 .. Len(levels) /\ n + 1 = Len(levels) /\ n \in Nat /\ n > 0
        /\ Level \in LevelType
    <2>1. Underway
      BY DEF Underway
    <2> QED BY <2>1, Innermost
  <1>2. below \in LevelType /\ Working(below) /\ Waits(below, Level)
    <2>1. \A m \in DOMAIN levels : m + 1 \in DOMAIN levels => Waits(levels[m], levels[m + 1])
      BY DEF PopTypes
    <2>2. n + 1 \in DOMAIN levels
      BY <1>1
    <2>3. Waits(below, levels[n + 1])
      BY <2>1, <2>2
    <2>4. levels[n + 1] = Level
      BY <1>1 DEF Level
    <2> QED BY <2>3, <2>4 DEF PopTypes
  <1>6. PICK step \in below.todo :
           /\ IsFirst(step, below.todo)
           /\ levels' = [Front(levels) EXCEPT
                            ![n].todo = @ \ {step}, ![n].tree = @ \cup Distributed(below, step[2])]
    <2>1. Len(levels) - 1 = n
      OBVIOUS
    <2> QED BY <2>1 DEF Return
  <1> HIDE DEF below
  <1>3. PICK asked \in below.todo :
           /\ IsFirst(asked, below.todo) /\ asked[1] = Queried
           /\ Level.docs = {d \in Wanted(below, asked[2]) : Level.held[d] = Nothing}
    BY <1>2 DEF Waits
  <1>4. below.docs \in SUBSET Docs /\ below.todo \in SUBSET (Nat \X Nat) /\ below.todo \subseteq BatchSteps(below.docs, below.depth)
    BY <1>2 DEF LevelType, Working
  <1>5. asked = <<asked[1], asked[2]>> /\ asked[2] \in DOMAIN schema.fields
    <2>1. asked \in BatchSteps(below.docs, below.depth)
      BY <1>4
    <2>2. asked[1] = Queried => asked[2] \in DOMAIN schema.fields
      BY <1>4, <2>1, BatchStepFacts
    <2>3. asked \in Nat \X Nat
      BY <1>4
    <2> QED BY <1>3, <2>2, <2>3
  <1>7. step = asked
    BY <1>3, <1>4, <1>6, OneFirst
  <1> DEFINE gets == Distributed(below, asked[2])
             l    == [below EXCEPT !.todo = @ \ {asked}, !.tree = @ \cup gets]
             front == Front(levels)
  <1>8. gets \in SUBSET Entry
    <2>1. Underway
      BY DEF Underway
    <2> QED BY <1>2, <1>3, <1>5, <2>1, DistributedType
  <1>9. front \in Seq(LevelType) /\ Len(front) = n /\ (\A m \in 1 .. n : front[m] = levels[m]) /\ front[n] = below
    <2>1. levels \in Seq(LevelType)
      BY DEF PopTypes
    <2>2. SubSeq(levels, 1, n) \in Seq(LevelType) /\ Len(SubSeq(levels, 1, n)) = n
          /\ \A m \in 1 .. n : SubSeq(levels, 1, n)[m] = levels[m]
      BY <1>1, <2>1
    <2>3. front = SubSeq(levels, 1, n)
      BY <1>1 DEF Front
    <2> QED BY <1>1, <2>2, <2>3 DEF below
  <1>10. levels' = [front EXCEPT ![n] = l]
    <2>1. n \in DOMAIN front
      BY <1>1, <1>9
    <2> HIDE DEF front
    <2>2. levels' = [front EXCEPT ![n].todo = @ \ {asked}, ![n].tree = @ \cup gets]
      BY <1>6, <1>7 DEF front
    <2> HIDE DEF gets
    <2>3. l = [front[n] EXCEPT !.todo = @ \ {asked}, !.tree = @ \cup gets]
      BY <1>9
    <2> HIDE DEF l
    <2> QED BY <2>2, <2>3
  <1> HIDE DEF gets, front
  <1>11. /\ l \in LevelType /\ l.how = below.how /\ l.docs = below.docs /\ l.depth = below.depth
         /\ l.held = below.held /\ l.visited = below.visited /\ l.frames = below.frames
         /\ l.todo = below.todo \ {asked} /\ l.tree = below.tree \cup gets
    BY <1>2, <1>8 DEF LevelType
  <1> HIDE DEF l
  <1>12. /\ levels' \in Seq(LevelType) /\ Len(levels') = n /\ levels'[n] = l /\ DOMAIN levels' = 1 .. n
         /\ \A m \in 1 .. n - 1 : levels'[m] = levels[m]
    <2>1. n \in 1 .. Len(front)
      BY <1>1, <1>9
    <2>2. /\ [front EXCEPT ![n] = l] \in Seq(LevelType) /\ Len([front EXCEPT ![n] = l]) = Len(front)
          /\ \A m \in 1 .. Len(front) : [front EXCEPT ![n] = l][m] = IF m = n THEN l ELSE front[m]
      BY <1>9, <1>11, <2>1, ExceptSeq
    <2>3. levels' \in Seq(LevelType) /\ Len(levels') = n
      BY <1>9, <1>10, <2>2
    <2>4. \A m \in 1 .. n : levels'[m] = IF m = n THEN l ELSE front[m]
      BY <1>9, <1>10, <2>2
    <2>5. DOMAIN levels' = 1 .. n
      BY <1>1, <2>3
    <2>6. levels'[n] = l
      BY <1>1, <2>4
    <2>7. ASSUME NEW m \in 1 .. n - 1 PROVE levels'[m] = levels[m]
      <3>1. m \in 1 .. n /\ m # n
        BY <1>1
      <3> QED BY <1>9, <2>4, <3>1
    <2> QED BY <2>3, <2>5, <2>6, <2>7
  <1>13. Working(l) /\ below.frames = <<>>
    BY <1>2, <1>11 DEF Working, Waits
  <1>14. Received(below, asked, levels'[n])
    BY <1>11, <1>12, <1>13 DEF Received, gets
  <1>15. cache' = [d \in Docs |-> IF d \in Level.docs THEN Own(Level, d) ELSE cache[d]] /\ UNCHANGED around
    BY DEF Return
  <1>16. cache' \in CacheType
    <2>1. \A d \in Docs : Own(Level, d) \in SUBSET Entry
      BY <1>1, OwnType
    <2>2. \A d \in Docs : cache[d] \in {Nothing} \cup SUBSET Entry
      BY DEF PopTypes, CacheType
    <2> QED BY <1>15, <2>1, <2>2 DEF CacheType
  <1> QED BY <1>2, <1>3, <1>5, <1>12, <1>13, <1>14, <1>15, <1>16 DEF below

-----------------------------------------------------------------------------
(***************************************************************************)
(* Types are kept, and a batch waits only for what it asked for.           *)
(***************************************************************************)
\* What is said about a batch does not change while documents stay the same.
LEMMA Unmoved ==
    ASSUME schema' = schema, refs' = refs
    PROVE  /\ \A n : Working(levels[n])' <=> Working(levels'[n])
           /\ \A n : Waits(levels[n], levels[n + 1])' <=> Waits(levels'[n], levels'[n + 1])
  BY DEF Working, Waits, Wanted, BatchSteps, FieldsThat, Steps, StepsIn, JoinSteps, JoinField, IsFirst

LEMMA TypesNext ==
    ASSUME PopTypes, schema' = schema, refs' = refs, shared' = shared,
           cache' \in CacheType, levels' \in Seq(LevelType),
           \A n \in DOMAIN levels' : Working(levels'[n]),
           \A n \in DOMAIN levels' : n + 1 \in DOMAIN levels' => Waits(levels'[n], levels'[n + 1])
    PROVE  PopTypes'
  <1>1. (\A n \in DOMAIN levels : Working(levels[n]))'
    BY Unmoved
  <1>2. (\A n \in DOMAIN levels : n + 1 \in DOMAIN levels => Waits(levels[n], levels[n + 1]))'
    BY Unmoved
  <1> QED BY <1>1, <1>2 DEF PopTypes

LEMMA WaitsSame ==
    ASSUME NEW b, NEW above, NEW l, l.docs = above.docs, l.held = above.held, Waits(b, above)
    PROVE  Waits(b, l)
  BY DEF Waits

LEMMA TypesBecame ==
    ASSUME PopTypes, Underway, NEW l \in LevelType, Working(l), l.docs = Level.docs, l.held = Level.held,
           Became(l), cache' \in CacheType, UNCHANGED around
    PROVE  PopTypes'
  <1>1. /\ levels' \in Seq(LevelType) /\ Len(levels') = Len(levels) /\ DOMAIN levels' = DOMAIN levels
        /\ levels'[Len(levels)] = l
        /\ \A n \in DOMAIN levels : n # Len(levels) => levels'[n] = levels[n]
    BY BecameFacts
  <1>2. Len(levels) \in Nat /\ DOMAIN levels = 1 .. Len(levels) /\ Level = levels[Len(levels)]
    BY Innermost DEF Level
  <1>3. schema' = schema /\ refs' = refs /\ shared' = shared
    BY DEF around
  <1>4. \A n \in DOMAIN levels : Working(levels'[n])
    BY <1>1 DEF PopTypes
  <1>5. ASSUME NEW n \in DOMAIN levels, n + 1 \in DOMAIN levels
        PROVE  Waits(levels'[n], levels'[n + 1])
    <2>1. levels'[n] = levels[n] /\ Waits(levels[n], levels[n + 1])
      BY <1>1, <1>2, <1>5 DEF PopTypes
    <2>2. CASE n + 1 = Len(levels)
      BY <1>1, <1>2, <2>1, <2>2, WaitsSame
    <2>3. CASE n + 1 # Len(levels)
      BY <1>1, <1>5, <2>1, <2>3
    <2> QED BY <2>2, <2>3
  <1> QED BY <1>1, <1>3, <1>4, <1>5, TypesNext

LEMMA CachePut ==
    ASSUME PopTypes, NEW d \in Docs, NEW tree \in SUBSET Entry
    PROVE  /\ [cache EXCEPT ![d] = tree] \in CacheType
           /\ [cache EXCEPT ![d] = tree][d] = tree
           /\ \A x \in Docs : x # d => [cache EXCEPT ![d] = tree][x] = cache[x]
  BY DEF PopTypes, CacheType

LEMMA PopulateTypes ==
    ASSUME PopTypes, Populate
    PROVE  PopTypes'
  <1>1. Recursing /\ Underway
    BY PopulateIsRecursion DEF Recursing
  <1>2. PICK l : Recursion(l)
    BY PopulateIsRecursion
  <1>3. l \in LevelType /\ Working(l) /\ l.docs = Level.docs /\ l.held = Level.held /\ Became(l) /\ UNCHANGED around
    BY <1>2 DEF Recursion, SameBatch
  <1>4. cache' \in CacheType
    <2>1. cache \in CacheType
      BY DEF PopTypes
    <2>2. CASE \E step \in Doc.todo : DidStay(l, step) \/ DidTake(l, step) \/ DidJoin(l, step)
      BY <2>1, <2>2 DEF DidStay, DidTake, DidJoin
    <2>3. CASE \E step \in Doc.todo : DidFetch(l, step)
      <3>1. PICK step \in Doc.todo : DidFetch(l, step)
        BY <2>3
      <3>2. Ref(step) \in Docs
        BY <3>1 DEF DidFetch, Wanting
      <3>3. Bare(Ref(step), <<Ref(step)>>) \in SUBSET Entry
        BY <3>2, RootSpot, BareType
      <3>4. [cache EXCEPT ![Ref(step)] = Bare(Ref(step), <<Ref(step)>>)] \in CacheType
        BY <3>2, <3>3, CachePut
      <3> QED BY <2>1, <3>1, <3>4 DEF DidFetch
    <2>4. CASE DidEnd(l)
      <3>1. Doc.id \in Docs /\ Doc.at \in Spot /\ Level.tree \in SUBSET Entry
        BY <1>1, Innermost, InnermostDoc DEF FrameType, LevelType
      <3>2. Cut(Level.tree, Doc.at, Doc.id) \in SUBSET Entry
        BY <3>1, CutType
      <3>3. [cache EXCEPT ![Doc.id] = Cut(Level.tree, Doc.at, Doc.id)] \in CacheType
        BY <3>1, <3>2, CachePut
      <3> QED BY <2>1, <2>4, <3>3 DEF DidEnd
    <2> QED BY <1>2, <2>2, <2>3, <2>4 DEF Recursion
  <1> QED BY <1>1, <1>3, <1>4, TypesBecame

LEMMA QueryFieldTypes ==
    ASSUME PopTypes, Underway, Level.frames = <<>>, NEW step \in Level.todo,
           IsFirst(step, Level.todo), QueryField(step)
    PROVE  PopTypes'
  <1>1. PICK b \in LevelType : levels' = Append(levels, b) /\ Working(b) /\ Waits(Level, b)
    BY QueryFieldFacts
  <1>2. cache' \in CacheType /\ schema' = schema /\ refs' = refs /\ shared' = shared
    BY QueryFieldFacts DEF around, PopTypes
  <1>3. Len(levels) \in Nat /\ DOMAIN levels = 1 .. Len(levels) /\ levels \in Seq(LevelType) /\ Level = levels[Len(levels)]
    BY Innermost DEF PopTypes, Level
  <1>4. /\ levels' \in Seq(LevelType) /\ Len(levels') = Len(levels) + 1 /\ levels'[Len(levels) + 1] = b
        /\ \A n \in 1 .. Len(levels) : levels'[n] = levels[n]
    BY <1>1, <1>3, AppendProperties
  <1>5. DOMAIN levels' = 1 .. Len(levels) + 1
    BY <1>4
  <1>6. ASSUME NEW n \in DOMAIN levels' PROVE Working(levels'[n])
    <2>1. n \in 1 .. Len(levels) \/ n = Len(levels) + 1
      BY <1>3, <1>5
    <2> QED BY <1>1, <1>3, <1>4, <2>1 DEF PopTypes
  <1>7. ASSUME NEW n \in DOMAIN levels', n + 1 \in DOMAIN levels'
        PROVE  Waits(levels'[n], levels'[n + 1])
    <2>1. n \in 1 .. Len(levels) /\ levels'[n] = levels[n]
      BY <1>3, <1>4, <1>5, <1>7
    <2>2. CASE n = Len(levels)
      BY <1>1, <1>3, <1>4, <2>1, <2>2
    <2>3. CASE n # Len(levels)
      <3>1. n + 1 \in DOMAIN levels /\ n \in DOMAIN levels
        BY <1>3, <2>1, <2>3
      <3> QED BY <1>3, <1>4, <2>1, <3>1 DEF PopTypes
    <2> QED BY <2>2, <2>3
  <1> QED BY <1>2, <1>4, <1>6, <1>7, TypesNext

LEMMA OneDocumentTypes ==
    ASSUME PopTypes, Underway, Level.frames = <<>>, NEW step \in Level.todo, OneDocument(step)
    PROVE  PopTypes'
  <1>1. PICK l \in LevelType : Working(l) /\ Became(l) /\ l.docs = Level.docs /\ l.held = Level.held
    BY OneDocumentFacts
  <1>2. cache' \in CacheType /\ UNCHANGED around
    BY OneDocumentFacts DEF PopTypes
  <1> QED BY <1>1, <1>2, TypesBecame

LEMMA ReturnTypes ==
    ASSUME PopTypes, Underway, Len(levels) > 1, Return
    PROVE  PopTypes'
  <1>1. PICK n \in Nat : n > 0 /\ Len(levels) = n + 1
    <2>1. Len(levels) \in Nat
      BY Innermost
    <2>2. Len(levels) - 1 \in Nat /\ Len(levels) - 1 > 0 /\ Len(levels) = (Len(levels) - 1) + 1
      BY <2>1
    <2> QED BY <2>2
  <1>2. /\ levels' \in Seq(LevelType) /\ Len(levels') = n /\ DOMAIN levels' = 1 .. n
        /\ \A m \in 1 .. n - 1 : levels'[m] = levels[m]
        /\ cache' \in CacheType /\ UNCHANGED around
    BY <1>1, ReturnFacts
  <1>3. PICK step : Received(levels[n], step, levels'[n])
    BY <1>1, ReturnFacts
  <1>4. levels'[n].docs = levels[n].docs /\ levels'[n].held = levels[n].held /\ Working(levels'[n])
    BY <1>3 DEF Received
  <1>5. DOMAIN levels = 1 .. n + 1
    BY <1>1, Innermost
  <1>6. ASSUME NEW m \in DOMAIN levels' PROVE Working(levels'[m])
    <2>1. m = n \/ (m \in 1 .. n - 1 /\ m \in DOMAIN levels)
      BY <1>1, <1>2, <1>5
    <2> QED BY <1>2, <1>4, <2>1 DEF PopTypes
  <1>7. ASSUME NEW m \in DOMAIN levels', m + 1 \in DOMAIN levels'
        PROVE  Waits(levels'[m], levels'[m + 1])
    <2>1. m \in 1 .. n - 1 /\ m \in DOMAIN levels /\ m + 1 \in DOMAIN levels /\ levels'[m] = levels[m]
      BY <1>1, <1>2, <1>5, <1>7
    <2>2. Waits(levels[m], levels[m + 1])
      BY <2>1 DEF PopTypes
    <2>3. CASE m + 1 = n
      BY <1>4, <2>1, <2>2, <2>3, WaitsSame
    <2>4. CASE m + 1 # n
      <3>1. m + 1 \in 1 .. n - 1
        BY <1>1, <2>1, <2>4
      <3> QED BY <1>2, <2>1, <2>2, <3>1
    <2> QED BY <2>3, <2>4
  <1>8. schema' = schema /\ refs' = refs /\ shared' = shared
    BY <1>2 DEF around
  <1> QED BY <1>2, <1>6, <1>7, <1>8, TypesNext

LEMMA PopulateBatchTypes ==
    ASSUME PopTypes, PopulateBatch
    PROVE  PopTypes'
  <1>1. Underway /\ Level.frames = <<>>
    BY DEF PopulateBatch, Underway
  <1>2. CASE \E step \in Level.todo : IsFirst(step, Level.todo) /\ QueryField(step)
    BY <1>1, <1>2, QueryFieldTypes
  <1>3. CASE \E step \in Level.todo : OneDocument(step)
    BY <1>1, <1>3, OneDocumentTypes
  <1>4. CASE Len(levels) > 1 /\ Return
    BY <1>1, <1>4, ReturnTypes
  <1> QED BY <1>2, <1>3, <1>4 DEF PopulateBatch

\* The batch a read by id starts with.
LEMMA ByIdFacts ==
    ASSUME PopTypes, NEW d \in Docs, NEW depth \in Nat, depth > 0
    PROVE  LET frame == Frame(<<d>>, d, depth, Steps(d), FALSE)
               b     == Batch("by_id", {d}, depth, {}, <<frame>>)
           IN  /\ frame \in FrameType /\ b \in LevelType /\ Working(b)
               /\ b.how = "by_id" /\ b.docs = {d} /\ b.depth = depth /\ b.todo = {} /\ b.frames = <<frame>>
               /\ b.tree = Bare(d, <<d>>) /\ b.visited = {d} /\ b.held = cache
  <1> DEFINE frame  == Frame(<<d>>, d, depth, Steps(d), FALSE)
             frames == <<frame>>
             none   == {}
  <1>1. frame \in FrameType /\ frame.todo = Steps(frame.id) /\ frame.depth > 0
    BY RootSpot, StepsType DEF Frame, FrameType
  <1> HIDE DEF frame
  <1>2. frames \in Seq(FrameType) /\ DOMAIN frames = {1} /\ frames[1] = frame
    BY <1>1
  <1>3. "by_id" \in {"by_id", "list"} /\ {d} \in SUBSET Docs /\ none \in SUBSET (Nat \X Nat)
    OBVIOUS
  <1> HIDE DEF frames, none
  <1>4. \A b : b = Batch("by_id", {d}, depth, none, frames) =>
           /\ b \in LevelType
           /\ b.how = "by_id" /\ b.docs = {d} /\ b.depth = depth /\ b.todo = none
           /\ b.frames = frames /\ b.held = cache /\ b.visited = {d}
    BY <1>2, <1>3, BatchType
  <1>5. Batch("by_id", {d}, depth, none, frames).tree = Bare(d, <<d>>)
    <2>1. Roots({d}) = Bare(d, <<d>>)
      BY DEF Roots
    <2> QED BY <2>1 DEF Batch
  <1> DEFINE b == Batch("by_id", {d}, depth, none, frames)
  <1>6. /\ b \in LevelType /\ b.how = "by_id" /\ b.docs = {d} /\ b.depth = depth /\ b.todo = none
        /\ b.frames = frames /\ b.held = cache /\ b.visited = {d} /\ b.tree = Bare(d, <<d>>)
    BY <1>4, <1>5, Zenon
  <1> HIDE DEF b
  <1>7. Working(b)
    BY <1>1, <1>2, <1>6 DEF Working, none
  <1> QED BY <1>1, <1>6, <1>7 DEF b, frames, frame, none

LEMMA StartTypes ==
    ASSUME PopTypes, NEW b \in LevelType, Working(b), Start(b)
    PROVE  PopTypes'
  <1> DEFINE one == <<b>>
  <1>1. levels' = one /\ schema' = schema /\ refs' = refs /\ shared' = shared /\ cache' = cache
    BY DEF Start
  <1>2. one \in Seq(LevelType) /\ DOMAIN one = {1} /\ one[1] = b
    OBVIOUS
  <1> HIDE DEF one
  <1>3. cache' \in CacheType
    BY <1>1 DEF PopTypes
  <1> QED BY <1>1, <1>2, <1>3, TypesNext

LEMMA AnswerTypes ==
    ASSUME PopTypes, Answer
    PROVE  PopTypes'
  <1> DEFINE none == <<>>
  <1>1. levels' = none /\ schema' = schema /\ refs' = refs /\ shared' = shared
    BY DEF Answer
  <1>2. none \in Seq(LevelType) /\ DOMAIN none = {}
    OBVIOUS
  <1> HIDE DEF none
  <1>3. cache' \in CacheType
    <2>1. Empty \in CacheType
      BY DEF Empty, CacheType
    <2> QED BY <2>1 DEF Answer, PopTypes
  <1> QED BY <1>1, <1>2, <1>3, TypesNext

LEMMA PopulationInitTypes == PopulationInit => PopTypes
  <1> SUFFICES ASSUME PopulationInit PROVE PopTypes
    OBVIOUS
  <1> DEFINE none == <<>>
  <1>1. none \in Seq(LevelType) /\ DOMAIN none = {}
    OBVIOUS
  <1>2. Empty \in CacheType
    BY DEF Empty, CacheType
  <1>3. levels = none
    BY DEF PopulationInit
  <1> HIDE DEF none
  <1> QED BY <1>1, <1>2, <1>3 DEF PopulationInit, PopTypes

LEMMA PopulationStepTypes == PopTypes /\ [PopulationNext]_populationVars => PopTypes'
  <1> SUFFICES ASSUME PopTypes, [PopulationNext]_populationVars PROVE PopTypes'
    OBVIOUS
  <1>0. MaxDepth \in Nat
    BY PopulationAssumption
  <1>1. ASSUME NEW depth \in 1 .. MaxDepth, NEW d \in Docs, FindById(d, depth) PROVE PopTypes'
    <2>1. depth \in Nat /\ depth > 0
      BY <1>0
    <2> DEFINE b == Batch("by_id", {d}, depth, {}, <<Frame(<<d>>, d, depth, Steps(d), FALSE)>>)
    <2>2. Start(b)
      BY <1>1 DEF FindById
    <2>3. b \in LevelType /\ Working(b)
      BY <2>1, ByIdFacts
    <2> HIDE DEF b
    <2> QED BY <2>2, <2>3, StartTypes
  <1>2. ASSUME NEW depth \in 1 .. MaxDepth, NEW ds \in (SUBSET Docs) \ {{}}, Find(ds, depth) PROVE PopTypes'
    <2>1. depth \in Nat /\ depth > 0 /\ ds \in SUBSET Docs
      BY <1>0
    <2> DEFINE b == Batch("list", ds, depth, BatchSteps(ds, depth), <<>>)
    <2>2. Start(b)
      BY <1>2 DEF Find
    <2>3. /\ b \in LevelType /\ b.docs = ds /\ b.depth = depth /\ b.todo = BatchSteps(ds, depth)
          /\ b.frames = <<>>
      BY <2>1, ListType
    <2> HIDE DEF b
    <2>4. Working(b)
      BY <2>1, <2>3, ListWorking
    <2> QED BY <2>2, <2>3, <2>4, StartTypes
  <1>3. CASE UNCHANGED populationVars
    <2>1. /\ schema' = schema /\ refs' = refs /\ shared' = shared /\ cache' = cache /\ levels' = levels
      BY <1>3 DEF populationVars, around
    <2> QED BY <2>1, TypesNext DEF PopTypes
  <1> QED BY <1>1, <1>2, <1>3, PopulateTypes, PopulateBatchTypes, AnswerTypes DEF PopulationNext

-----------------------------------------------------------------------------
(***************************************************************************)
(* Nothing is left out.                                                    *)
(***************************************************************************)
Rooted(tree, d)  == [at |-> <<d>>, id |-> d] \in tree
Appears(tree, d) == \E e \in tree : e.id = d
AllRooted(held)  == \A d \in Docs : held[d] = Nothing \/ Rooted(held[d], d)

\* A query or the recursion has still to come to this id of a document.
Pending(l, d, f, k) ==
    \/ <<Queried, f>> \in l.todo
    \/ schema.fields[f].nested /\ \E i \in DOMAIN Order : Order[i] = d /\ <<InNested, i>> \in l.todo
    \/ 1 \in DOMAIN l.frames /\ l.frames[1].id = d /\ <<f, k>> \in l.frames[1].todo

Settled(l, d, f, k) ==
    \/ refs[d][f][k] = Missing \/ Appears(l.tree, refs[d][f][k])
    \/ Pending(l, d, f, k)

Sound(l) ==
    /\ \A d \in l.docs : Rooted(l.tree, d)
    /\ \A d \in l.visited : Appears(l.tree, d)
    /\ \A i \in DOMAIN l.frames : [at |-> l.frames[i].at, id |-> l.frames[i].id] \in l.tree
    /\ l.depth > 0 =>
          \A d \in l.docs : \A f \in DOMAIN schema.fields : \A k \in DOMAIN refs[d][f] : Settled(l, d, f, k)
    /\ AllRooted(l.held)

Complete ==
    /\ AllRooted(cache)
    /\ \A n \in DOMAIN levels : Sound(levels[n])
    /\ 1 \in DOMAIN levels => levels[1].depth > 0
    /\ NothingLeftOut

LEMMA GraftBare ==
    ASSUME NEW d \in Docs, NEW spot \in Spot
    PROVE  Graft(Bare(d, <<d>>), spot) = Bare(d, spot)
  <1> DEFINE none == <<>>
  <1>1. Tail(<<d>>) = none
    OBVIOUS
  <1>2. spot \o none = spot
    BY ConcatEmptySeq DEF Spot
  <1> HIDE DEF none
  <1>3. Graft(Bare(d, <<d>>), spot) = {[at |-> spot \o Tail(<<d>>), id |-> d]}
    <2> DEFINE e == [at |-> <<d>>, id |-> d]
    <2>1. e.at = <<d>> /\ e.id = d /\ Bare(d, <<d>>) = {e}
      BY DEF Bare
    <2> HIDE DEF e
    <2>2. Graft({e}, spot) = {[at |-> spot \o Tail(e.at), id |-> e.id]}
      BY DEF Graft
    <2> QED BY <2>1, <2>2
  <1> QED BY <1>1, <1>2, <1>3 DEF Bare

LEMMA GraftRooted ==
    ASSUME NEW d \in Docs, NEW spot \in Spot, NEW tree, Rooted(tree, d)
    PROVE  [at |-> spot, id |-> d] \in Graft(tree, spot)
  <1> DEFINE e == [at |-> <<d>>, id |-> d]
             none == <<>>
  <1>1. e \in tree /\ Tail(e.at) = none /\ e.id = d
    BY DEF Rooted
  <1>2. spot \o none = spot
    BY ConcatEmptySeq DEF Spot
  <1> HIDE DEF none, e
  <1>3. [at |-> spot \o Tail(e.at), id |-> e.id] \in Graft(tree, spot)
    BY <1>1 DEF Graft
  <1> QED BY <1>1, <1>2, <1>3

LEMMA CutRooted ==
    ASSUME NEW d \in Docs, NEW spot \in Spot, NEW tree, [at |-> spot, id |-> d] \in tree
    PROVE  Rooted(Cut(tree, spot, d), d)
  <1> DEFINE e == [at |-> spot, id |-> d]
             none == <<>>
             root == <<d>>
  <1>1. spot \in Seq(Docs \cup (Nat \X Nat)) /\ Len(spot) \in Nat
    BY DEF Spot
  <1>2. IsPrefix(spot, spot)
    BY <1>1 DEF IsPrefix
  <1>3. SubSeq(spot, Len(spot) + 1, Len(spot)) = none
    BY <1>1, SubSeqEmpty
  <1>4. root \o none = root
    OBVIOUS
  <1>5. e \in tree /\ e.at = spot /\ e.id = d
    OBVIOUS
  <1> HIDE DEF none, root, e
  <1>6. [at |-> root \o SubSeq(e.at, Len(spot) + 1, Len(e.at)), id |-> e.id] \in Cut(tree, spot, d)
    BY <1>2, <1>5 DEF Cut, root
  <1> QED BY <1>3, <1>4, <1>5, <1>6 DEF Rooted, root

LEMMA OwnRooted ==
    ASSUME NEW d \in Docs, NEW b, Rooted(b.tree, d)
    PROVE  Rooted(Own(b, d), d)
  BY DEF Rooted, Own

LEMMA StepDoneSame ==
    ASSUME PopTypes, Recursing, NEW l, NEW step, StepDone(l, step)
    PROVE  /\ 1 \in DOMAIN l.frames /\ Len(l.frames) \in Nat /\ DOMAIN l.frames = 1 .. Len(l.frames)
           /\ \A i \in DOMAIN Level.frames :
                 /\ i \in DOMAIN l.frames
                 /\ l.frames[i].at = Level.frames[i].at /\ l.frames[i].id = Level.frames[i].id
                 /\ l.frames[i].depth = Level.frames[i].depth /\ l.frames[i].keep = Level.frames[i].keep
                 /\ l.frames[i].todo = IF i = Len(Level.frames) THEN Doc.todo \ {step} ELSE Level.frames[i].todo
  <1>1. /\ Len(Level.frames) \in Nat /\ Len(Level.frames) > 0 /\ DOMAIN Level.frames = 1 .. Len(Level.frames)
        /\ Doc \in FrameType /\ Doc = Level.frames[Len(Level.frames)]
    BY InnermostDoc DEF Doc
  <1>2. Len(l.frames) \in Nat /\ DOMAIN l.frames = 1 .. Len(l.frames) /\ Len(l.frames) >= Len(Level.frames)
    BY DEF StepDone
  <1>3. 1 \in DOMAIN l.frames
    BY <1>1, <1>2
  <1>4. ASSUME NEW i \in DOMAIN Level.frames, i # Len(Level.frames)
        PROVE  l.frames[i] = Level.frames[i]
    BY <1>1, <1>4 DEF StepDone
  <1>5. LET x == l.frames[Len(Level.frames)] IN
        x.at = Doc.at /\ x.id = Doc.id /\ x.depth = Doc.depth /\ x.keep = Doc.keep /\ x.todo = Doc.todo \ {step}
    BY <1>1 DEF StepDone, FrameType
  <1>6. ASSUME NEW i \in DOMAIN Level.frames PROVE i \in DOMAIN l.frames
    BY <1>1, <1>2
  <1> QED BY <1>1, <1>2, <1>3, <1>4, <1>5, <1>6

\* What an id that a document asked for shows at its spot.
LEMMA RefShown ==
    ASSUME PopTypes, Recursing, AllRooted(cache), Sound(Level),
           NEW l, SameBatch(l), NEW step \in Doc.todo, step[1] # JoinField,
           DidStay(l, step) \/ DidTake(l, step) \/ DidFetch(l, step)
    PROVE  Ref(step) = Missing \/ Appears(l.tree, Ref(step))
  <1> DEFINE spot == Append(Doc.at, step)
  <1>1. spot \in Spot
    BY SpotFacts
  <1> HIDE DEF spot
  <1>2. CASE DidStay(l, step)
    BY <1>2 DEF DidStay, Sound
  <1>3. CASE DidTake(l, step)
    <2>1. Ref(step) \in Docs /\ cache[Ref(step)] # Nothing /\ l.tree = Level.tree \cup Graft(cache[Ref(step)], spot)
      BY <1>3 DEF DidTake, Wanting, InCache, spot
    <2>2. Rooted(cache[Ref(step)], Ref(step))
      BY <2>1 DEF AllRooted
    <2>3. [at |-> spot, id |-> Ref(step)] \in Graft(cache[Ref(step)], spot)
      BY <1>1, <2>1, <2>2, GraftRooted
    <2> QED BY <2>1, <2>3 DEF Appears
  <1>4. CASE DidFetch(l, step)
    <2>1. [at |-> spot, id |-> Ref(step)] \in l.tree
      BY <1>4 DEF DidFetch, Shown, Bare, spot
    <2> QED BY <2>1 DEF Appears
  <1> QED BY <1>2, <1>3, <1>4

\* A document that is shown and entered is in the tree.
LEMMA ShownSound ==
    ASSUME PopTypes, Recursing, Sound(Level),
           NEW l, SameBatch(l), NEW step \in Doc.todo, NEW d, NEW depth, NEW keep, Shown(l, step, d, depth, keep)
    PROVE  /\ \A x \in l.visited : Appears(l.tree, x)
           /\ \A i \in DOMAIN l.frames : [at |-> l.frames[i].at, id |-> l.frames[i].id] \in l.tree
  <1> DEFINE spot == Append(Doc.at, step)
  <1>1. [at |-> spot, id |-> d] \in l.tree /\ Level.tree \subseteq l.tree
    BY DEF Shown, Bare, SameBatch
  <1>2. /\ Len(Level.frames) \in Nat /\ Len(Level.frames) > 0 /\ DOMAIN Level.frames = 1 .. Len(Level.frames)
    BY InnermostDoc
  <1>3. StepDone(l, step) /\ (Stayed(l) \/ Entered(l, spot, d, depth, keep))
    BY DEF Shown
  <1> HIDE DEF spot
  <1>4. l.visited \subseteq Level.visited \cup {d}
    BY <1>3 DEF Stayed, Entered
  <1>5. \A x \in l.visited : Appears(l.tree, x)
    BY <1>1, <1>4 DEF Sound, Appears
  <1>6. ASSUME NEW i \in DOMAIN l.frames PROVE [at |-> l.frames[i].at, id |-> l.frames[i].id] \in l.tree
    <2>1. CASE i \in DOMAIN Level.frames
      <3>1. l.frames[i].at = Level.frames[i].at /\ l.frames[i].id = Level.frames[i].id
        BY <1>3, <2>1, StepDoneSame
      <3>2. [at |-> Level.frames[i].at, id |-> Level.frames[i].id] \in Level.tree
        BY <2>1 DEF Sound
      <3> QED BY <1>1, <3>1, <3>2
    <2>2. CASE i \notin DOMAIN Level.frames
      <3>1. i \in 1 .. Len(l.frames) /\ Len(l.frames) \in Nat
        BY <1>3, StepDoneSame
      <3>2. Entered(l, spot, d, depth, keep) /\ i = Len(Level.frames) + 1
        BY <1>2, <1>3, <2>2, <3>1 DEF Stayed, Entered
      <3>3. l.frames[i].at = spot /\ l.frames[i].id = d
        BY <3>2 DEF Entered, Frame
      <3> QED BY <1>1, <3>3
    <2> QED BY <2>1, <2>2
  <1> QED BY <1>5, <1>6

LEMMA StayedSound ==
    ASSUME PopTypes, Recursing, Sound(Level),
           NEW l, SameBatch(l), NEW step \in Doc.todo, StepDone(l, step), Stayed(l)
    PROVE  /\ \A x \in l.visited : Appears(l.tree, x)
           /\ \A i \in DOMAIN l.frames : [at |-> l.frames[i].at, id |-> l.frames[i].id] \in l.tree
  <1>1. l.visited = Level.visited /\ Level.tree \subseteq l.tree
    BY DEF Stayed, SameBatch
  <1>2. \A x \in l.visited : Appears(l.tree, x)
    BY <1>1 DEF Sound, Appears
  <1>3. DOMAIN l.frames = DOMAIN Level.frames
    BY InnermostDoc, StepDoneSame DEF Stayed
  <1>4. ASSUME NEW i \in DOMAIN l.frames PROVE [at |-> l.frames[i].at, id |-> l.frames[i].id] \in l.tree
    <2>0. i \in DOMAIN Level.frames
      BY <1>3
    <2>1. l.frames[i].at = Level.frames[i].at /\ l.frames[i].id = Level.frames[i].id
      BY <2>0, StepDoneSame
    <2>2. [at |-> Level.frames[i].at, id |-> Level.frames[i].id] \in Level.tree
      BY <2>0 DEF Sound
    <2> QED BY <1>1, <2>1, <2>2
  <1> QED BY <1>2, <1>4

LEMMA RecursionSound ==
    ASSUME PopTypes, Recursing, AllRooted(cache), Sound(Level), NEW l, Recursion(l)
    PROVE  Sound(l) /\ AllRooted(cache')
  <1>1. SameBatch(l) /\ Level \in LevelType
    BY InnermostDoc DEF Recursion
  <1>2. /\ Len(Level.frames) \in Nat /\ Len(Level.frames) > 0 /\ DOMAIN Level.frames = 1 .. Len(Level.frames)
        /\ Doc = Level.frames[Len(Level.frames)]
    BY InnermostDoc DEF Doc
  <1>3. /\ \A d \in l.docs : Rooted(l.tree, d)
        /\ AllRooted(l.held)
    BY <1>1 DEF SameBatch, Sound, Rooted
  <1>4. /\ \A x \in l.visited : Appears(l.tree, x)
        /\ \A i \in DOMAIN l.frames : [at |-> l.frames[i].at, id |-> l.frames[i].id] \in l.tree
    <2>1. ASSUME NEW step \in Doc.todo, DidStay(l, step) \/ DidTake(l, step)
          PROVE  StepDone(l, step) /\ Stayed(l)
      BY <2>1 DEF DidStay, DidTake
    <2>2. ASSUME NEW step \in Doc.todo, DidFetch(l, step) \/ DidJoin(l, step)
          PROVE  \E d, depth, keep : Shown(l, step, d, depth, keep)
      BY <2>2 DEF DidFetch, DidJoin
    <2>3. CASE DidEnd(l)
      <3>1. DOMAIN l.frames = 1 .. Len(Level.frames) - 1
        BY <1>1, <1>2, <2>3 DEF DidEnd, SameBatch, LevelType
      <3>2. \A i \in DOMAIN l.frames : i \in DOMAIN Level.frames /\ l.frames[i] = Level.frames[i]
        BY <1>2, <2>3, <3>1 DEF DidEnd
      <3> QED BY <2>3, <3>2 DEF DidEnd, Sound
    <2>4. CASE \E step \in Doc.todo : DidStay(l, step) \/ DidTake(l, step)
      BY <1>1, <2>1, <2>4, StayedSound
    <2>5. CASE \E step \in Doc.todo : DidFetch(l, step) \/ DidJoin(l, step)
      BY <1>1, <2>2, <2>5, ShownSound
    <2> QED BY <2>3, <2>4, <2>5 DEF Recursion
  <1>5. ASSUME l.depth > 0, NEW d \in l.docs, NEW f \in DOMAIN schema.fields, NEW k \in DOMAIN refs[d][f]
        PROVE  Settled(l, d, f, k)
    <2>1. Settled(Level, d, f, k) /\ l.todo = Level.todo /\ Level.tree \subseteq l.tree
      BY <1>1, <1>5 DEF SameBatch, Sound
    <2>2. CASE ~ Pending(Level, d, f, k)
      BY <2>1, <2>2 DEF Settled, Appears
    <2>3. CASE \/ <<Queried, f>> \in Level.todo
               \/ schema.fields[f].nested /\ \E i \in DOMAIN Order : Order[i] = d /\ <<InNested, i>> \in Level.todo
      BY <2>1, <2>3 DEF Settled, Pending
    <2>4. CASE 1 \in DOMAIN Level.frames /\ Level.frames[1].id = d /\ <<f, k>> \in Level.frames[1].todo
      <3>1. ASSUME NEW step \in Doc.todo, StepDone(l, step), l.frames[1].todo = Level.frames[1].todo \/ step # <<f, k>>
            PROVE  Settled(l, d, f, k)
        <4>1. /\ 1 \in DOMAIN l.frames /\ l.frames[1].id = Level.frames[1].id
              /\ l.frames[1].todo = IF 1 = Len(Level.frames) THEN Doc.todo \ {step} ELSE Level.frames[1].todo
          BY <2>4, <3>1, StepDoneSame
        <4>2. <<f, k>> \in l.frames[1].todo
          BY <1>2, <2>4, <3>1, <4>1
        <4> QED BY <2>4, <4>1, <4>2 DEF Settled, Pending
      <3>2. ASSUME NEW step \in Doc.todo, StepDone(l, step), step = <<f, k>>, Len(Level.frames) = 1,
                   DidStay(l, step) \/ DidTake(l, step) \/ DidFetch(l, step)
            PROVE  Settled(l, d, f, k)
        <4>1. step[1] # JoinField /\ Ref(step) = refs[d][f][k]
          BY <1>2, <2>4, <3>2, SchemaFacts DEF Ref
        <4> QED BY <1>1, <3>2, <4>1, RefShown DEF Settled
      <3>3. ASSUME NEW step \in Doc.todo, DidStay(l, step) \/ DidTake(l, step) \/ DidFetch(l, step) \/ DidJoin(l, step)
            PROVE  Settled(l, d, f, k)
        <4>1. StepDone(l, step) /\ (DidJoin(l, step) => step[1] = JoinField)
          BY <3>3 DEF DidStay, DidTake, DidFetch, DidJoin, Shown
        <4>2. CASE step # <<f, k>> \/ Len(Level.frames) # 1
          <5>1. l.frames[1].todo = IF 1 = Len(Level.frames) THEN Doc.todo \ {step} ELSE Level.frames[1].todo
            BY <2>4, <4>1, StepDoneSame
          <5>2. l.frames[1].todo = Level.frames[1].todo \/ step # <<f, k>>
            BY <4>2, <5>1
          <5> QED BY <3>1, <4>1, <5>2
        <4>3. CASE step = <<f, k>> /\ Len(Level.frames) = 1
          <5>1. ~ DidJoin(l, step)
            BY <4>1, <4>3, SchemaFacts
          <5> QED BY <3>2, <3>3, <4>1, <4>3, <5>1
        <4> QED BY <4>2, <4>3
      <3>4. CASE DidEnd(l)
        <4>1. Len(Level.frames) # 1
          BY <1>2, <2>4, <3>4 DEF DidEnd
        <4>2. 1 \in 1 .. Len(Level.frames) - 1 /\ 1 \in DOMAIN l.frames
          <5>1. DOMAIN l.frames = 1 .. Len(Level.frames) - 1
            BY <1>1, <1>2, <3>4 DEF DidEnd, SameBatch, LevelType
          <5> DEFINE len == Len(Level.frames)
          <5>2. len \in Nat /\ len > 0 /\ len # 1 /\ DOMAIN l.frames = 1 .. len - 1
            BY <1>2, <4>1, <5>1
          <5> HIDE DEF len
          <5>3. 1 \in 1 .. len - 1
            BY <5>2
          <5> QED BY <5>2, <5>3 DEF len
        <4>3. l.frames[1] = Level.frames[1]
          BY <3>4, <4>2 DEF DidEnd
        <4> QED BY <2>4, <4>2, <4>3 DEF Settled, Pending
      <3> QED BY <3>3, <3>4 DEF Recursion
    <2> QED BY <2>2, <2>3, <2>4 DEF Pending
  <1>6. AllRooted(cache')
    <2>1. CASE cache' = cache
      BY <2>1
    <2>2. ASSUME NEW d \in Docs, NEW tree \in SUBSET Entry, Rooted(tree, d), cache' = [cache EXCEPT ![d] = tree]
          PROVE  AllRooted(cache')
      BY <2>2, CachePut DEF AllRooted
    <2>3. ASSUME NEW step \in Doc.todo, DidFetch(l, step) PROVE AllRooted(cache')
      <3> DEFINE tree == Bare(Ref(step), <<Ref(step)>>)
      <3>1. Ref(step) \in Docs
        BY <2>3 DEF DidFetch, Wanting
      <3>2. tree \in SUBSET Entry /\ Rooted(tree, Ref(step))
        BY <3>1, RootSpot, BareType DEF Rooted, Bare
      <3>3. cache' = cache \/ cache' = [cache EXCEPT ![Ref(step)] = tree]
        BY <2>3 DEF DidFetch
      <3> HIDE DEF tree
      <3> QED BY <2>1, <2>2, <3>1, <3>2, <3>3
    <2>4. CASE DidEnd(l)
      <3> DEFINE tree == Cut(Level.tree, Doc.at, Doc.id)
      <3>1. Doc.id \in Docs /\ Doc.at \in Spot /\ Level.tree \in SUBSET Entry
        BY <1>1, InnermostDoc DEF FrameType, LevelType
      <3>2. [at |-> Doc.at, id |-> Doc.id] \in Level.tree
        <4>1. Len(Level.frames) \in DOMAIN Level.frames
          BY <1>2
        <4> QED BY <1>2, <4>1 DEF Sound
      <3>3. tree \in SUBSET Entry /\ Rooted(tree, Doc.id)
        BY <3>1, <3>2, CutType, CutRooted
      <3>4. cache' = cache \/ cache' = [cache EXCEPT ![Doc.id] = tree]
        BY <2>4 DEF DidEnd
      <3> HIDE DEF tree
      <3> QED BY <2>1, <2>2, <3>1, <3>3, <3>4
    <2> QED BY <2>1, <2>3, <2>4 DEF Recursion, DidStay, DidTake, DidJoin
  <1> QED BY <1>3, <1>4, <1>5, <1>6 DEF Sound

LEMMA RootedRoots ==
    ASSUME NEW docs
    PROVE  \A d \in docs : Rooted(Roots(docs), d) /\ Appears(Roots(docs), d)
  <1> SUFFICES ASSUME NEW d \in docs PROVE Rooted(Roots(docs), d) /\ Appears(Roots(docs), d)
    OBVIOUS
  <1>1. [at |-> <<d>>, id |-> d] \in Roots(docs)
    BY RootsFacts
  <1> QED BY <1>1 DEF Rooted, Appears

\* A batch begins with everything still to come.
LEMMA ListSound ==
    ASSUME PopTypes, AllRooted(cache), NEW docs \in SUBSET Docs, NEW depth \in Nat, NEW b,
           b.docs = docs, b.depth = depth, b.todo = BatchSteps(docs, depth), b.frames = <<>>,
           b.held = cache, b.tree = Roots(docs), b.visited = docs
    PROVE  Sound(b)
  <1>1. DOMAIN b.frames = {}
    OBVIOUS
  <1>2. ASSUME depth > 0, NEW d \in docs, NEW f \in DOMAIN schema.fields, NEW k \in DOMAIN refs[d][f]
        PROVE  Pending(b, d, f, k)
    <2>1. ~ (depth <= 0 \/ docs = {})
      BY <1>2
    <2>2. schema.fields[f].nested \in BOOLEAN
      BY <1>2, SchemaFacts
    <2>3. CASE schema.fields[f].nested
      <3>1. f \in FieldsThat(TRUE)
        BY <2>3 DEF FieldsThat
      <3>2. PICK i \in DOMAIN Order : Order[i] = d
        BY OrderFacts
      <3>3. <<InNested, i>> \in {InNested} \X {j \in DOMAIN Order : Order[j] \in docs}
        BY <3>2
      <3>4. <<InNested, i>> \in BatchSteps(docs, depth)
        BY <2>1, <3>1, <3>3 DEF BatchSteps
      <3> QED BY <2>3, <3>2, <3>4 DEF Pending
    <2>4. CASE ~ schema.fields[f].nested
      <3>1. f \in FieldsThat(FALSE)
        BY <2>2, <2>4 DEF FieldsThat
      <3>2. <<Queried, f>> \in {Queried} \X FieldsThat(FALSE)
        BY <3>1
      <3>3. <<Queried, f>> \in BatchSteps(docs, depth)
        BY <2>1, <3>2 DEF BatchSteps
      <3> QED BY <3>3 DEF Pending
    <2> QED BY <2>3, <2>4
  <1> QED BY <1>1, <1>2, RootedRoots DEF Sound, Settled

LEMMA ByIdSound ==
    ASSUME PopTypes, AllRooted(cache), NEW d \in Docs, NEW depth, NEW b, NEW frame,
           frame = Frame(<<d>>, d, depth, Steps(d), FALSE),
           b.docs = {d}, b.frames = <<frame>>, b.held = cache, b.tree = Bare(d, <<d>>), b.visited = {d}
    PROVE  Sound(b)
  <1>1. frame.at = <<d>> /\ frame.id = d /\ frame.todo = Steps(d)
    BY DEF Frame
  <1>2. DOMAIN b.frames = {1} /\ b.frames[1] = frame
    OBVIOUS
  <1>3. [at |-> <<d>>, id |-> d] \in b.tree
    BY DEF Bare
  <1>4. ASSUME NEW f \in DOMAIN schema.fields, NEW k \in DOMAIN refs[d][f]
        PROVE  Pending(b, d, f, k)
    <2>1. <<f, k>> \in {f} \X DOMAIN refs[d][f]
      OBVIOUS
    <2>2. <<f, k>> \in Steps(d)
      BY <2>1 DEF Steps, StepsIn
    <2> QED BY <1>1, <1>2, <2>2 DEF Pending
  <1> QED BY <1>1, <1>2, <1>3, <1>4 DEF Sound, Settled, Rooted, Appears

LEMMA OneDocumentSound ==
    ASSUME PopTypes, Underway, Level.frames = <<>>, Sound(Level), NEW step \in Level.todo, OneDocument(step)
    PROVE  \E l \in LevelType : Became(l) /\ l.depth = Level.depth /\ Sound(l)
  <1> DEFINE d     == Order[step[2]]
             todo  == IF step[1] = InNested THEN StepsIn(d, FieldsThat(TRUE)) ELSE JoinSteps(d)
             frame == Frame(<<d>>, d, Level.depth, todo, FALSE)
             l     == [Level EXCEPT !.todo = @ \ {step}, !.visited = Level.docs, !.frames = <<frame>>]
  <1>1. /\ step = <<step[1], step[2]>> /\ step[1] \in {InNested, InJoins} /\ d \in Level.docs
        /\ l \in LevelType /\ Became(l) /\ l.docs = Level.docs /\ l.depth = Level.depth
        /\ l.todo = Level.todo \ {step} /\ l.held = Level.held /\ l.tree = Level.tree
        /\ l.visited = Level.docs /\ l.frames = <<frame>>
    BY OneDocumentFacts
  <1>2. DOMAIN Level.frames = {}
    OBVIOUS
  <1> HIDE DEF l
  <1>3. frame.at = <<d>> /\ frame.id = d /\ frame.todo = todo
    BY DEF Frame
  <1>4. DOMAIN l.frames = {1} /\ l.frames[1] = frame
    BY <1>1
  <1> HIDE DEF frame, d
  <1>5. ASSUME l.depth > 0, NEW x \in l.docs, NEW f \in DOMAIN schema.fields, NEW k \in DOMAIN refs[x][f]
        PROVE  Settled(l, x, f, k)
    <2>1. Settled(Level, x, f, k)
      BY <1>1, <1>5 DEF Sound
    <2>2. CASE ~ Pending(Level, x, f, k)
      BY <1>1, <2>1, <2>2 DEF Settled
    <2>3. CASE <<Queried, f>> \in Level.todo
      <3>1. <<Queried, f>> # step
        BY <1>1 DEF Queried, InNested, InJoins
      <3> QED BY <1>1, <2>3, <3>1 DEF Settled, Pending
    <2>4. CASE schema.fields[f].nested /\ \E i \in DOMAIN Order : Order[i] = x /\ <<InNested, i>> \in Level.todo
      <3>1. PICK i \in DOMAIN Order : Order[i] = x /\ <<InNested, i>> \in Level.todo
        BY <2>4
      <3>2. CASE <<InNested, i>> # step
        BY <1>1, <2>4, <3>1, <3>2 DEF Settled, Pending
      <3>3. CASE <<InNested, i>> = step
        <4>1. step[1] = InNested /\ d = x
          BY <3>1, <3>3 DEF d
        <4>2. f \in FieldsThat(TRUE)
          BY <2>4 DEF FieldsThat
        <4>3. <<f, k>> \in {f} \X DOMAIN refs[x][f]
          OBVIOUS
        <4>4. <<f, k>> \in todo
          BY <4>1, <4>2, <4>3 DEF StepsIn
        <4> HIDE DEF todo
        <4> QED BY <1>3, <1>4, <4>1, <4>4 DEF Settled, Pending
      <3> QED BY <3>2, <3>3
    <2> QED BY <1>2, <2>2, <2>3, <2>4 DEF Pending
  <1>6. /\ \A x \in l.docs : Rooted(l.tree, x)
        /\ \A x \in l.visited : Appears(l.tree, x)
        /\ AllRooted(l.held)
    <2>1. \A x \in Level.docs : Rooted(Level.tree, x)
      BY DEF Sound
    <2>2. \A x \in Level.docs : Appears(Level.tree, x)
      BY <2>1 DEF Rooted, Appears
    <2> QED BY <1>1, <2>1, <2>2 DEF Sound
  <1>7. \A i \in DOMAIN l.frames : [at |-> l.frames[i].at, id |-> l.frames[i].id] \in l.tree
    BY <1>1, <1>3, <1>4 DEF Sound, Rooted
  <1> QED BY <1>1, <1>5, <1>6, <1>7 DEF Sound

\* What was asked for is at every place that asked.
LEMMA DistributedShows ==
    ASSUME PopTypes, Underway, Sound(Level), NEW below \in LevelType,
           NEW f \in DOMAIN schema.fields, Level.docs = {x \in Wanted(below, f) : Level.held[x] = Nothing},
           NEW d \in below.docs, NEW k \in DOMAIN refs[d][f], refs[d][f][k] \in Wanted(below, f)
    PROVE  Appears(Distributed(below, f), refs[d][f][k])
  <1> DEFINE ref  == refs[d][f][k]
             spot == <<d, <<f, k>>>>
  <1>1. Level \in LevelType /\ below.docs \subseteq Docs /\ d \in Docs
    BY Innermost DEF LevelType
  <1>2. ref \in Docs /\ f \in Nat /\ k \in Nat
    BY <1>1, WantedFacts, RefFacts, SchemaFacts
  <1>3. spot \in Spot
    <2>1. <<d>> \in Spot /\ <<f, k>> \in Nat \X Nat /\ spot = Append(<<d>>, <<f, k>>)
      BY <1>1, <1>2, RootSpot
    <2> QED BY <2>1, SpotBelow
  <1> HIDE DEF spot, ref
  <1>4. Rooted(Got(Level, ref), ref)
    <2>1. CASE ref \in Level.docs
      <3>1. Rooted(Own(Level, ref), ref)
        BY <1>2, <2>1, OwnRooted DEF Sound
      <3> QED BY <2>1, <3>1 DEF Got
    <2>2. CASE ref \notin Level.docs
      <3>1. Level.held[ref] # Nothing
        BY <2>2 DEF ref
      <3> QED BY <1>2, <2>2, <3>1 DEF Got, Sound, AllRooted
    <2> QED BY <2>1, <2>2
  <1>5. [at |-> spot, id |-> ref] \in Graft(Got(Level, ref), spot)
    BY <1>2, <1>3, <1>4, GraftRooted
  <1>6. [at |-> spot, id |-> ref] \in Distributed(below, f)
    BY <1>5, DistributedFacts DEF ref, spot
  <1> QED BY <1>6 DEF Appears, ref

LEMMA ReturnSound ==
    ASSUME PopTypes, Underway, NEW n \in Nat, n > 0, Len(levels) = n + 1, Return,
           AllRooted(cache), Sound(levels[n]), Sound(Level)
    PROVE  Sound(levels'[n]) /\ AllRooted(cache') /\ levels'[n].depth = levels[n].depth
  <1> DEFINE below == levels[n]
             l     == levels'[n]
  <1>1. /\ below \in LevelType /\ below.frames = <<>>
        /\ cache' = [d \in Docs |-> IF d \in Level.docs THEN Own(Level, d) ELSE cache[d]]
    BY ReturnFacts
  <1>2. PICK step \in below.todo :
           /\ step[1] = Queried /\ step[2] \in DOMAIN schema.fields /\ step = <<step[1], step[2]>>
           /\ Level.docs = {d \in Wanted(below, step[2]) : Level.held[d] = Nothing}
           /\ Received(below, step, l)
    BY ReturnFacts
  <1>3. /\ l.docs = below.docs /\ l.depth = below.depth /\ l.held = below.held /\ l.visited = below.visited
        /\ l.todo = below.todo \ {step} /\ l.tree = below.tree \cup Distributed(below, step[2])
        /\ l.frames = <<>>
    BY <1>2 DEF Received
  <1> HIDE DEF l
  <1>s. Sound(below) /\ below.docs \subseteq Docs
    BY <1>1 DEF LevelType
  <1> HIDE DEF below
  <1>4. DOMAIN l.frames = {} /\ DOMAIN below.frames = {}
    BY <1>1, <1>3
  <1>5. /\ \A x \in l.docs : Rooted(l.tree, x)
        /\ \A x \in l.visited : Appears(l.tree, x)
        /\ AllRooted(l.held)
    <2>1. below.tree \subseteq l.tree
      BY <1>3
    <2>2. /\ \A x \in below.docs : Rooted(below.tree, x)
          /\ \A x \in below.visited : Appears(below.tree, x)
          /\ AllRooted(below.held)
      BY <1>s DEF Sound
    <2>3. \A x \in below.docs : Rooted(l.tree, x)
      BY <2>1, <2>2 DEF Rooted
    <2>4. \A x \in below.visited : Appears(l.tree, x)
      BY <2>1, <2>2 DEF Appears
    <2> QED BY <1>3, <2>2, <2>3, <2>4
  <1>6. ASSUME l.depth > 0, NEW d \in l.docs, NEW f \in DOMAIN schema.fields, NEW k \in DOMAIN refs[d][f]
        PROVE  Settled(l, d, f, k)
    <2>1. Settled(below, d, f, k) /\ d \in below.docs /\ below.tree \subseteq l.tree
      BY <1>s, <1>3, <1>6 DEF Sound
    <2>2. CASE ~ Pending(below, d, f, k)
      BY <2>1, <2>2 DEF Settled, Appears
    <2>3. CASE <<Queried, f>> \in below.todo /\ <<Queried, f>> # step
      BY <1>3, <2>3 DEF Settled, Pending
    <2>4. CASE <<Queried, f>> = step
      <3>1. step[2] = f
        BY <2>4
      <3>2. CASE refs[d][f][k] = Missing
        BY <3>2 DEF Settled
      <3>3. CASE refs[d][f][k] \in below.docs
        BY <1>s, <2>1, <3>3 DEF Settled, Sound, Appears, Rooted
      <3>4. CASE refs[d][f][k] \notin below.docs \cup {Missing}
        <4>1. refs[d][f][k] \in Wanted(below, f)
          BY <1>s, <2>1, <3>4, WantedFacts
        <4>2. Appears(Distributed(below, f), refs[d][f][k])
          BY <1>1, <1>2, <2>1, <3>1, <4>1, DistributedShows DEF below
        <4> QED BY <1>3, <3>1, <4>2 DEF Settled, Appears
      <3> QED BY <3>2, <3>3, <3>4
    <2>5. CASE schema.fields[f].nested /\ \E i \in DOMAIN Order : Order[i] = d /\ <<InNested, i>> \in below.todo
      <3>1. \A i : <<InNested, i>> # step
        BY <1>2 DEF Queried, InNested
      <3> QED BY <1>3, <2>5, <3>1 DEF Settled, Pending
    <2> QED BY <1>4, <2>2, <2>3, <2>4, <2>5 DEF Pending
  <1>7. AllRooted(cache')
    <2>1. ASSUME NEW d \in Docs PROVE cache'[d] = Nothing \/ Rooted(cache'[d], d)
      <3>1. CASE d \in Level.docs
        <4>1. Rooted(Own(Level, d), d)
          BY <3>1, OwnRooted DEF Sound
        <4> QED BY <1>1, <3>1, <4>1
      <3>2. CASE d \notin Level.docs
        BY <1>1, <3>2 DEF AllRooted
      <3> QED BY <3>1, <3>2
    <2> QED BY <2>1 DEF AllRooted
  <1> QED BY <1>3, <1>4, <1>5, <1>6, <1>7 DEF Sound, l, below

LEMMA SoundMoved ==
    ASSUME schema' = schema, refs' = refs
    PROVE  /\ \A n : Sound(levels[n])' <=> Sound(levels'[n])
           /\ AllRooted(cache)' <=> AllRooted(cache')
  BY DEF Sound, Settled, Pending, Appears, Rooted, AllRooted

LEMMA CompleteNext ==
    ASSUME schema' = schema, refs' = refs, AllRooted(cache'),
           \A n \in DOMAIN levels' : Sound(levels'[n]),
           1 \in DOMAIN levels' => levels'[1].depth > 0,
           NothingLeftOut'
    PROVE  Complete'
  <1>1. (\A n \in DOMAIN levels : Sound(levels[n]))'
    BY SoundMoved
  <1>2. (AllRooted(cache))'
    BY SoundMoved
  <1> QED BY <1>1, <1>2 DEF Complete

LEMMA AnswerSame ==
    ASSUME NothingLeftOut, schema' = schema, refs' = refs, answer' = answer
    PROVE  NothingLeftOut'
  BY DEF NothingLeftOut

LEMMA CompleteBecame ==
    ASSUME PopTypes, Complete, Underway, NEW l \in LevelType, Became(l), l.depth = Level.depth,
           Sound(l), AllRooted(cache'), UNCHANGED around
    PROVE  Complete'
  <1>1. /\ DOMAIN levels' = DOMAIN levels /\ levels'[Len(levels)] = l
        /\ \A n \in DOMAIN levels : n # Len(levels) => levels'[n] = levels[n]
    BY BecameFacts
  <1>2. schema' = schema /\ refs' = refs /\ answer' = answer
    BY DEF around
  <1>3. \A n \in DOMAIN levels' : Sound(levels'[n])
    BY <1>1 DEF Complete
  <1>4. 1 \in DOMAIN levels' => levels'[1].depth > 0
    BY <1>1 DEF Complete, Level
  <1>5. NothingLeftOut'
    BY <1>2, AnswerSame DEF Complete
  <1> QED BY <1>2, <1>3, <1>4, <1>5, CompleteNext

LEMMA PopulateComplete ==
    ASSUME PopTypes, Complete, Populate
    PROVE  Complete'
  <1>1. Recursing /\ Underway
    BY PopulateIsRecursion DEF Recursing
  <1>2. PICK l : Recursion(l)
    BY PopulateIsRecursion
  <1>3. l \in LevelType /\ Became(l) /\ l.depth = Level.depth /\ UNCHANGED around
    BY <1>2 DEF Recursion, SameBatch
  <1>4. Sound(Level)
    BY <1>1, Innermost DEF Complete, Level
  <1>5. Sound(l) /\ AllRooted(cache')
    BY <1>1, <1>2, <1>4, RecursionSound DEF Complete
  <1> QED BY <1>1, <1>3, <1>5, CompleteBecame

LEMMA QueryFieldComplete ==
    ASSUME PopTypes, Complete, Underway, Level.frames = <<>>, NEW step \in Level.todo,
           IsFirst(step, Level.todo), QueryField(step)
    PROVE  Complete'
  <1>1. PICK fetched \in SUBSET Docs, left \in Nat :
           LET b == Batch("list", fetched, left, BatchSteps(fetched, left), <<>>) IN
           levels' = Append(levels, b) /\ b \in LevelType
    BY QueryFieldFacts
  <1> DEFINE b == Batch("list", fetched, left, BatchSteps(fetched, left), <<>>)
  <1>2. cache' = cache /\ schema' = schema /\ refs' = refs /\ answer' = answer
    BY QueryFieldFacts DEF around
  <1>3. /\ b.docs = fetched /\ b.depth = left /\ b.todo = BatchSteps(fetched, left)
        /\ b.frames = <<>> /\ b.held = cache /\ b.tree = Roots(fetched) /\ b.visited = fetched
    BY ListType
  <1> HIDE DEF b
  <1>4. Sound(b)
    BY <1>3, ListSound DEF Complete
  <1>5. levels' = Append(levels, b) /\ b \in LevelType
    BY <1>1 DEF b
  <1>6. Len(levels) \in Nat /\ Len(levels) > 0 /\ DOMAIN levels = 1 .. Len(levels) /\ levels \in Seq(LevelType)
    BY Innermost DEF PopTypes
  <1>7. /\ levels' \in Seq(LevelType) /\ Len(levels') = Len(levels) + 1 /\ levels'[Len(levels) + 1] = b
        /\ \A n \in 1 .. Len(levels) : levels'[n] = levels[n]
    BY <1>5, <1>6, AppendProperties
  <1>8. DOMAIN levels' = 1 .. Len(levels) + 1
    BY <1>7
  <1>9. ASSUME NEW n \in DOMAIN levels' PROVE Sound(levels'[n])
    <2>1. n \in 1 .. Len(levels) \/ n = Len(levels) + 1
      BY <1>6, <1>8
    <2> QED BY <1>4, <1>6, <1>7, <2>1 DEF Complete
  <1>10. levels'[1].depth > 0
    <2>1. 1 \in 1 .. Len(levels)
      BY <1>6
    <2> QED BY <1>6, <1>7, <2>1 DEF Complete
  <1>11. NothingLeftOut'
    BY <1>2, AnswerSame DEF Complete
  <1>12. AllRooted(cache')
    BY <1>2 DEF Complete
  <1> QED BY <1>2, <1>9, <1>10, <1>11, <1>12, CompleteNext

LEMMA OneDocumentComplete ==
    ASSUME PopTypes, Complete, Underway, Level.frames = <<>>, NEW step \in Level.todo, OneDocument(step)
    PROVE  Complete'
  <1>1. Sound(Level)
    BY Innermost DEF Complete, Level
  <1>2. PICK l \in LevelType : Became(l) /\ l.depth = Level.depth /\ Sound(l)
    BY <1>1, OneDocumentSound
  <1>3. cache' = cache /\ UNCHANGED around
    BY OneDocumentFacts
  <1>4. AllRooted(cache')
    BY <1>3 DEF Complete
  <1> QED BY <1>2, <1>3, <1>4, CompleteBecame

LEMMA ReturnComplete ==
    ASSUME PopTypes, Complete, Underway, Len(levels) > 1, Return
    PROVE  Complete'
  <1>1. PICK n \in Nat : n > 0 /\ Len(levels) = n + 1
    <2>1. Len(levels) \in Nat
      BY Innermost
    <2>2. Len(levels) - 1 \in Nat /\ Len(levels) - 1 > 0 /\ Len(levels) = (Len(levels) - 1) + 1
      BY <2>1
    <2> QED BY <2>2
  <1>2. /\ DOMAIN levels' = 1 .. n /\ UNCHANGED around
        /\ \A m \in 1 .. n - 1 : levels'[m] = levels[m]
    BY <1>1, ReturnFacts
  <1>3. DOMAIN levels = 1 .. n + 1 /\ Level = levels[n + 1]
    BY <1>1, Innermost DEF Level
  <1>4. AllRooted(cache) /\ Sound(levels[n]) /\ Sound(Level)
    BY <1>1, <1>3 DEF Complete
  <1>5. Sound(levels'[n]) /\ AllRooted(cache') /\ levels'[n].depth = levels[n].depth
    BY <1>1, <1>4, ReturnSound
  <1>6. ASSUME NEW m \in DOMAIN levels' PROVE Sound(levels'[m])
    <2>1. m = n \/ (m \in 1 .. n - 1 /\ m \in DOMAIN levels)
      BY <1>1, <1>2, <1>3
    <2> QED BY <1>2, <1>5, <2>1 DEF Complete
  <1>7. levels'[1].depth > 0
    <2>1. 1 \in DOMAIN levels /\ levels[1].depth > 0
      BY <1>1, <1>3 DEF Complete
    <2>2. CASE n = 1
      BY <1>5, <2>1, <2>2
    <2>3. CASE n # 1
      <3>1. 1 \in 1 .. n - 1
        BY <1>1, <2>3
      <3> QED BY <1>2, <2>1, <3>1
    <2> QED BY <2>2, <2>3
  <1>8. schema' = schema /\ refs' = refs /\ answer' = answer
    BY <1>2 DEF around
  <1>9. NothingLeftOut'
    BY <1>8, AnswerSame DEF Complete
  <1> QED BY <1>5, <1>6, <1>7, <1>8, <1>9, CompleteNext

LEMMA PopulateBatchComplete ==
    ASSUME PopTypes, Complete, PopulateBatch
    PROVE  Complete'
  <1>1. Underway /\ Level.frames = <<>>
    BY DEF PopulateBatch, Underway
  <1>2. CASE \E step \in Level.todo : IsFirst(step, Level.todo) /\ QueryField(step)
    BY <1>1, <1>2, QueryFieldComplete
  <1>3. CASE \E step \in Level.todo : OneDocument(step)
    BY <1>1, <1>3, OneDocumentComplete
  <1>4. CASE Len(levels) > 1 /\ Return
    BY <1>1, <1>4, ReturnComplete
  <1> QED BY <1>2, <1>3, <1>4 DEF PopulateBatch

LEMMA StartComplete ==
    ASSUME PopTypes, Complete, NEW b \in LevelType, Sound(b), b.depth > 0, Start(b)
    PROVE  Complete'
  <1> DEFINE one == <<b>>
  <1>1. levels' = one /\ schema' = schema /\ refs' = refs /\ cache' = cache /\ answer' = Unread
    BY DEF Start
  <1>2. DOMAIN one = {1} /\ one[1] = b
    OBVIOUS
  <1> HIDE DEF one
  <1>3. AllRooted(cache')
    BY <1>1 DEF Complete
  <1>4. NothingLeftOut'
    <2>1. answer'.docs = {}
      BY <1>1 DEF Unread
    <2> QED BY <2>1 DEF NothingLeftOut
  <1> QED BY <1>1, <1>2, <1>3, <1>4, CompleteNext

LEMMA AnswerComplete ==
    ASSUME PopTypes, Complete, Answer
    PROVE  Complete'
  <1> DEFINE none == <<>>
  <1>1. levels' = none /\ schema' = schema /\ refs' = refs
    BY DEF Answer
  <1>2. DOMAIN none = {}
    OBVIOUS
  <1> HIDE DEF none
  <1>3. AllRooted(cache')
    <2>1. AllRooted(Empty)
      BY DEF AllRooted, Empty
    <2> QED BY <2>1 DEF Answer, Complete
  <1>4. Underway
    BY DEF Answer, Underway
  <1>5. Level \in LevelType /\ Sound(Level) /\ Level.depth > 0 /\ Level.docs \subseteq Docs
    <2>1. Level = levels[1] /\ 1 \in DOMAIN levels
      BY <1>4, Innermost DEF Answer, Level
    <2> QED BY <1>4, <2>1, Innermost DEF Complete, LevelType
  <1>6. Level.todo = {} /\ DOMAIN Level.frames = {}
    BY DEF Answer
  <1>7. answer'.docs = Level.docs /\ answer'.tree = Level.tree
    BY DEF Answer
  <1>8. ASSUME NEW d \in Level.docs, NEW f \in DOMAIN schema.fields, NEW ref \in ToSet(refs[d][f]) \ {Missing}
        PROVE  Appears(Level.tree, ref)
    <2>1. PICK k \in DOMAIN refs[d][f] : refs[d][f][k] = ref
      BY <1>5, RefFacts
    <2>2. Settled(Level, d, f, k)
      BY <1>5, <2>1 DEF Sound
    <2>3. ~ Pending(Level, d, f, k)
      BY <1>6 DEF Pending
    <2> QED BY <2>1, <2>2, <2>3 DEF Settled
  <1>9. NothingLeftOut'
    BY <1>1, <1>7, <1>8 DEF NothingLeftOut, Appears
  <1> QED BY <1>1, <1>2, <1>3, <1>9, CompleteNext

LEMMA PopulationInitComplete == PopulationInit => Complete
  <1> SUFFICES ASSUME PopulationInit PROVE Complete
    OBVIOUS
  <1>1. DOMAIN levels = {} /\ answer.docs = {}
    BY DEF PopulationInit, Unread
  <1>2. AllRooted(cache)
    BY DEF PopulationInit, Empty, AllRooted
  <1> QED BY <1>1, <1>2 DEF Complete, NothingLeftOut

LEMMA CompleteStep == PopTypes /\ Complete /\ [PopulationNext]_populationVars => Complete'
  <1> SUFFICES ASSUME PopTypes, Complete, [PopulationNext]_populationVars PROVE Complete'
    OBVIOUS
  <1>0. MaxDepth \in Nat /\ AllRooted(cache)
    BY PopulationAssumption DEF Complete
  <1>1. ASSUME NEW depth \in 1 .. MaxDepth, NEW d \in Docs, FindById(d, depth) PROVE Complete'
    <2>1. depth \in Nat /\ depth > 0
      BY <1>0
    <2> DEFINE frame == Frame(<<d>>, d, depth, Steps(d), FALSE)
               b     == Batch("by_id", {d}, depth, {}, <<frame>>)
    <2>2. Start(b)
      BY <1>1 DEF FindById
    <2>3. /\ b \in LevelType /\ b.docs = {d} /\ b.depth = depth /\ b.frames = <<frame>>
          /\ b.tree = Bare(d, <<d>>) /\ b.visited = {d} /\ b.held = cache
      BY <2>1, ByIdFacts
    <2> HIDE DEF b
    <2>4. Sound(b)
      BY <1>0, <2>3, ByIdSound
    <2> QED BY <2>1, <2>2, <2>3, <2>4, StartComplete
  <1>2. ASSUME NEW depth \in 1 .. MaxDepth, NEW ds \in (SUBSET Docs) \ {{}}, Find(ds, depth) PROVE Complete'
    <2>1. depth \in Nat /\ depth > 0 /\ ds \in SUBSET Docs
      BY <1>0
    <2> DEFINE b == Batch("list", ds, depth, BatchSteps(ds, depth), <<>>)
    <2>2. Start(b)
      BY <1>2 DEF Find
    <2>3. /\ b \in LevelType /\ b.docs = ds /\ b.depth = depth /\ b.todo = BatchSteps(ds, depth)
          /\ b.frames = <<>> /\ b.held = cache /\ b.tree = Roots(ds) /\ b.visited = ds
      BY <2>1, ListType
    <2> HIDE DEF b
    <2>4. Sound(b)
      BY <1>0, <2>1, <2>3, ListSound
    <2> QED BY <2>1, <2>2, <2>3, <2>4, StartComplete
  <1>3. CASE UNCHANGED populationVars
    <2>1. /\ schema' = schema /\ refs' = refs /\ cache' = cache /\ levels' = levels /\ answer' = answer
      BY <1>3 DEF populationVars, around
    <2> QED BY <2>1, CompleteNext, AnswerSame DEF Complete
  <1> QED BY <1>1, <1>2, <1>3, PopulateComplete, PopulateBatchComplete, AnswerComplete DEF PopulationNext

LEMMA PopulationTypes == PopulationSpec => []PopTypes
  BY PopulationInitTypes, PopulationStepTypes, PTL DEF PopulationSpec

\* Every document that a field of a returned document names is somewhere in
\* the answer: what the recursion of populate_relationships_cached and the
\* queries of populate_relationships_batch_cached have still to come to is
\* all that may be missing, and at the end there is nothing of that.
THEOREM NothingIsLeftOut == PopulationSpec => []NothingLeftOut
  <1>1. Complete => NothingLeftOut
    BY DEF Complete
  <1> QED BY <1>1, PopulationInitComplete, CompleteStep, PopulationTypes, PTL DEF PopulationSpec

-----------------------------------------------------------------------------
(***************************************************************************)
(* At depth 1 the algorithms agree.                                        *)
(***************************************************************************)
\* Nothing in a cache has anything below it.
Little(held) == \A d \in Docs : held[d] = Nothing \/ held[d] = Bare(d, <<d>>)

\* What a step of a document of the answer shows.
Due(d, s, listed, x) ==
    \/ s[1] = JoinField /\ x = Order[s[2]]
    \/ s[1] # JoinField /\ x = refs[d][s[1]][s[2]] /\ x \notin listed \cup {Missing}

Under(d, s, x) == [at |-> <<d, s>>, id |-> x]

Belongs(e, listed) ==
    \E d \in listed :
        \/ e = [at |-> <<d>>, id |-> d]
        \/ \E s \in Steps(d) : \E x : Due(d, s, listed, x) /\ e = Under(d, s, x)

Coming(l, d, s) ==
    \/ s[1] # JoinField /\ <<Queried, s[1]>> \in l.todo
    \/ s[1] # JoinField /\ schema.fields[s[1]].nested
       /\ \E i \in DOMAIN Order : Order[i] = d /\ <<InNested, i>> \in l.todo
    \/ s[1] = JoinField /\ \E i \in DOMAIN Order : Order[i] = d /\ <<InJoins, i>> \in l.todo
    \/ 1 \in DOMAIN l.frames /\ l.frames[1].id = d /\ s \in l.frames[1].todo

\* The batch of a read at depth 1.
Plain(l) ==
    /\ l.depth = 1 /\ l.visited = l.docs
    /\ \A i \in DOMAIN l.frames :
          /\ i = 1 /\ l.frames[i].depth = 1 /\ l.frames[i].keep = FALSE
          /\ l.frames[i].at = <<l.frames[i].id>> /\ l.frames[i].id \in l.docs
    /\ \A e \in l.tree : Belongs(e, l.docs)
    /\ \A d \in l.docs : \A s \in Steps(d) : \A x :
          Due(d, s, l.docs, x) => Coming(l, d, s) \/ Under(d, s, x) \in l.tree

\* One that was fetched for a field of it.
Leaves(l) ==
    /\ l.depth = 0 /\ l.todo = {} /\ l.frames = <<>>
    /\ l.tree = Roots(l.docs) /\ Little(l.held)

Flat(stack, held) ==
    /\ Len(stack) <= 2 /\ Little(held) /\ Plain(stack[1])
    /\ Len(stack) = 2 => Leaves(stack[2])

Agree ==
    /\ answer.docs \subseteq Docs
    /\ ~ shared /\ answer.depth = 1 => \A e : e \in answer.tree <=> Belongs(e, answer.docs)

Shallow ==
    /\ ~ shared /\ ~ Underway => Little(cache)
    /\ ~ shared /\ Underway => (levels[1].depth = 1 => Flat(levels, cache))
    /\ Agree

LEMMA OneLevelFacts ==
    ASSUME PopTypes, NEW listed \in SUBSET Docs, NEW e
    PROVE  e \in UNION {OneLevel(d, listed) : d \in listed} <=> Belongs(e, listed)
  <1>1. ASSUME NEW d \in listed
        PROVE  e \in OneLevel(d, listed) <=>
                  \/ e = [at |-> <<d>>, id |-> d]
                  \/ \E s \in Steps(d) : \E x : Due(d, s, listed, x) /\ e = Under(d, s, x)
    <2> DEFINE some == {s \in StepsIn(d, DOMAIN schema.fields) :
                              refs[d][s[1]][s[2]] \notin listed \cup {Missing}}
               named == UNION {Bare(refs[d][s[1]][s[2]], <<d, s>>) : s \in some}
               joined == UNION {Bare(Order[s[2]], <<d, s>>) : s \in JoinSteps(d)}
    <2>0. OneLevel(d, listed) = Bare(d, <<d>>) \cup named \cup joined
      BY Zenon DEF OneLevel
    <2>2. e \in named <=> \E s \in some : e = [at |-> <<d, s>>, id |-> refs[d][s[1]][s[2]]]
      BY DEF Bare
    <2>3. e \in joined <=> \E s \in JoinSteps(d) : e = [at |-> <<d, s>>, id |-> Order[s[2]]]
      BY DEF Bare
    <2>4. \A s : s \in some <=> /\ s \in StepsIn(d, DOMAIN schema.fields)
                                /\ refs[d][s[1]][s[2]] \notin listed \cup {Missing}
      OBVIOUS
    <2> HIDE DEF named, joined, some
    <2>1. e \in OneLevel(d, listed) <=> e \in Bare(d, <<d>>) \/ e \in named \/ e \in joined
      BY <2>0
    <2>5. \A s \in StepsIn(d, DOMAIN schema.fields) : s[1] # JoinField /\ s \in Steps(d)
      <3> SUFFICES ASSUME NEW s \in StepsIn(d, DOMAIN schema.fields) PROVE s[1] # JoinField /\ s \in Steps(d)
        OBVIOUS
      <3>1. PICK f \in DOMAIN schema.fields : s \in {f} \X DOMAIN refs[d][f]
        BY DEF StepsIn
      <3> QED BY <3>1, SchemaFacts DEF Steps
    <2>6. \A s \in JoinSteps(d) : s[1] = JoinField /\ s \in Steps(d)
      BY DEF JoinSteps, Steps
    <2>7. \A s \in Steps(d) : s \in StepsIn(d, DOMAIN schema.fields) \/ s \in JoinSteps(d)
      BY DEF Steps
    <2>8. e \in Bare(d, <<d>>) <=> e = [at |-> <<d>>, id |-> d]
      BY DEF Bare
    <2>9. ASSUME e \in named \/ e \in joined
          PROVE  \E s \in Steps(d) : \E x : Due(d, s, listed, x) /\ e = Under(d, s, x)
      <3>1. CASE e \in named
        BY <2>2, <2>4, <2>5, <3>1 DEF Due, Under
      <3>2. CASE e \in joined
        BY <2>3, <2>6, <3>2 DEF Due, Under
      <3> QED BY <2>9, <3>1, <3>2
    <2>10. ASSUME NEW s \in Steps(d), NEW x, Due(d, s, listed, x), e = Under(d, s, x)
           PROVE  e \in named \/ e \in joined
      <3>1. CASE s[1] = JoinField
        <4>1. s \in JoinSteps(d) /\ x = Order[s[2]]
          BY <2>5, <2>7, <2>10, <3>1 DEF Due
        <4> QED BY <2>3, <2>10, <4>1 DEF Under
      <3>2. CASE s[1] # JoinField
        <4>1. /\ s \in StepsIn(d, DOMAIN schema.fields) /\ x = refs[d][s[1]][s[2]]
              /\ x \notin listed \cup {Missing}
          BY <2>6, <2>7, <2>10, <3>2 DEF Due
        <4>2. s \in some
          BY <2>4, <4>1
        <4> QED BY <2>2, <2>10, <4>1, <4>2 DEF Under
      <3> QED BY <3>1, <3>2
    <2> QED BY <2>1, <2>8, <2>9, <2>10
  <1> DEFINE at(d) == OneLevel(d, listed)
  <1>2. e \in UNION {at(d) : d \in listed} <=> \E d \in listed : e \in at(d)
    <2> HIDE DEF at
    <2> QED OBVIOUS
  <1> QED BY <1>1, <1>2 DEF Belongs

\* A step of the recursion that shows what there is to show, and enters nothing.
LEMMA PlainStep ==
    ASSUME PopTypes, Recursing, Plain(Level),
           NEW l, SameBatch(l), NEW step \in Doc.todo, StepDone(l, step), Stayed(l),
           \A e \in l.tree : e \in Level.tree \/
               \E x : Due(Doc.id, step, Level.docs, x) /\ e = Under(Doc.id, step, x),
           \A x : Due(Doc.id, step, Level.docs, x) => Under(Doc.id, step, x) \in l.tree
    PROVE  Plain(l)
  <1>1. /\ Len(Level.frames) \in Nat /\ Len(Level.frames) > 0 /\ DOMAIN Level.frames = 1 .. Len(Level.frames)
        /\ Doc = Level.frames[Len(Level.frames)] /\ step \in Steps(Doc.id)
    BY InnermostDoc DEF Doc
  <1>2. Len(Level.frames) = 1 /\ DOMAIN Level.frames = {1} /\ Doc = Level.frames[1]
    <2>1. Len(Level.frames) \in DOMAIN Level.frames
      BY <1>1
    <2>2. Len(Level.frames) = 1
      BY <2>1 DEF Plain
    <2> QED BY <1>1, <2>2
  <1>3. Doc.depth = 1 /\ Doc.keep = FALSE /\ Doc.at = <<Doc.id>> /\ Doc.id \in Level.docs
    BY <1>2 DEF Plain
  <1>4. /\ l.docs = Level.docs /\ l.depth = 1 /\ l.visited = l.docs /\ l.todo = Level.todo
        /\ Level.tree \subseteq l.tree
    BY DEF SameBatch, Stayed, Plain
  <1>5. /\ DOMAIN l.frames = {1}
        /\ l.frames[1].id = Doc.id /\ l.frames[1].at = Doc.at /\ l.frames[1].depth = Doc.depth
        /\ l.frames[1].keep = Doc.keep /\ l.frames[1].todo = Doc.todo \ {step}
    <2>1. DOMAIN l.frames = 1 .. Len(l.frames) /\ Len(l.frames) = 1
      BY <1>2, StepDoneSame DEF Stayed
    <2> QED BY <1>2, <2>1, StepDoneSame
  <1>6. \A e \in l.tree : Belongs(e, l.docs)
    <2> SUFFICES ASSUME NEW e \in l.tree, e \notin Level.tree PROVE Belongs(e, l.docs)
      BY <1>4 DEF Plain
    <2>1. \E x : Due(Doc.id, step, Level.docs, x) /\ e = Under(Doc.id, step, x)
      OBVIOUS
    <2> QED BY <1>1, <1>3, <1>4, <2>1 DEF Belongs
  <1>7. ASSUME NEW d \in l.docs, NEW s \in Steps(d), NEW x, Due(d, s, l.docs, x)
        PROVE  Coming(l, d, s) \/ Under(d, s, x) \in l.tree
    <2>1. Coming(Level, d, s) \/ Under(d, s, x) \in Level.tree
      BY <1>4, <1>7 DEF Plain
    <2>2. CASE d = Doc.id /\ s = step
      BY <1>4, <1>7, <2>2
    <2>3. CASE ~ (d = Doc.id /\ s = step)
      BY <1>2, <1>4, <1>5, <2>1, <2>3 DEF Coming
    <2> QED BY <2>2, <2>3
  <1> QED BY <1>3, <1>4, <1>5, <1>6, <1>7 DEF Plain

LEMMA OneBelow ==
    ASSUME NEW d, NEW s
    PROVE  Append(<<d>>, s) = <<d, s>>
  <1> DEFINE one == <<d>>
             two == <<d, s>>
  <1>1. one \in Seq({d, s}) /\ Len(one) = 1 /\ one[1] = d
    OBVIOUS
  <1>2. two \in Seq({d, s}) /\ Len(two) = 2 /\ two[1] = d /\ two[2] = s
    OBVIOUS
  <1> HIDE DEF one, two
  <1>3. /\ Append(one, s) \in Seq({d, s}) /\ Len(Append(one, s)) = 2
        /\ Append(one, s)[1] = d /\ Append(one, s)[2] = s
    <2> DEFINE S == {d, s}
    <2>1. s \in S /\ one \in Seq(S)
      BY <1>1
    <2> HIDE DEF S
    <2>2. /\ Append(one, s) \in Seq(S) /\ Len(Append(one, s)) = Len(one) + 1
          /\ \A i \in 1 .. Len(one) : Append(one, s)[i] = one[i]
          /\ Append(one, s)[Len(one) + 1] = s
      BY <2>1, AppendProperties
    <2> QED BY <1>1, <2>2 DEF S
  <1>4. Append(one, s) = two
    <2>1. \A i \in 1 .. Len(two) : Append(one, s)[i] = two[i]
      BY <1>2, <1>3
    <2> QED BY <1>2, <1>3, <2>1, SeqEqual
  <1> QED BY <1>4 DEF one, two

LEMMA LittleFacts ==
    ASSUME PopTypes, NEW held, Little(held), NEW d \in Docs, held[d] # Nothing, NEW spot \in Spot
    PROVE  Graft(held[d], spot) = Bare(d, spot)
  BY GraftBare DEF Little

LEMMA RecursionPlain ==
    ASSUME PopTypes, Recursing, Plain(Level), Little(cache), NEW l, Recursion(l)
    PROVE  Plain(l) /\ Little(cache')
  <1>1. /\ Len(Level.frames) \in Nat /\ Len(Level.frames) > 0 /\ DOMAIN Level.frames = 1 .. Len(Level.frames)
        /\ Doc = Level.frames[Len(Level.frames)]
    BY InnermostDoc DEF Doc
  <1>2. Len(Level.frames) = 1 /\ Doc = Level.frames[1]
    <2>1. Len(Level.frames) \in DOMAIN Level.frames
      BY <1>1
    <2>2. Len(Level.frames) = 1
      BY <2>1 DEF Plain
    <2> QED BY <1>1, <2>2
  <1>3. Doc.depth = 1 /\ Doc.keep = FALSE /\ Doc.at = <<Doc.id>> /\ Level.visited = Level.docs
    BY <1>1, <1>2 DEF Plain
  <1>4. SameBatch(l)
    BY DEF Recursion
  <1>5. ASSUME NEW step \in Doc.todo
        PROVE  /\ Append(Doc.at, step) = <<Doc.id, step>> /\ <<Doc.id, step>> \in Spot
               /\ \A x : Under(Doc.id, step, x) = [at |-> <<Doc.id, step>>, id |-> x]
               /\ step[1] # JoinField =>
                     \A x : Due(Doc.id, step, Level.docs, x) <=> x = Ref(step) /\ x \notin Level.visited \cup {Missing}
               /\ step[1] = JoinField => \A x : Due(Doc.id, step, Level.docs, x) <=> x = Order[step[2]]
    <2>1. Append(Doc.at, step) = <<Doc.id, step>>
      BY <1>3, OneBelow, Zenon
    <2>2. <<Doc.id, step>> \in Spot
      BY <2>1, SpotFacts
    <2> QED BY <1>3, <2>1, <2>2 DEF Under, Due, Ref
  <1>6. ASSUME NEW step \in Doc.todo, DidStay(l, step) PROVE Plain(l) /\ Little(cache')
    <2>1. StepDone(l, step) /\ Stayed(l) /\ l.tree = Level.tree /\ cache' = cache
      BY <1>6 DEF DidStay
    <2>2. \A x : ~ Due(Doc.id, step, Level.docs, x)
      BY <1>5, <1>6 DEF DidStay
    <2> QED BY <1>4, <2>1, <2>2, PlainStep
  <1>7. ASSUME NEW step \in Doc.todo, DidTake(l, step) PROVE Plain(l) /\ Little(cache')
    <2>1. /\ StepDone(l, step) /\ Stayed(l) /\ cache' = cache
          /\ l.tree = Level.tree \cup Graft(cache[Ref(step)], Append(Doc.at, step))
          /\ Ref(step) \in Docs \ Level.visited /\ cache[Ref(step)] # Nothing /\ step[1] # JoinField
      BY <1>7 DEF DidTake, Wanting, InCache
    <2>a. Append(Doc.at, step) \in Spot
      BY SpotFacts
    <2>b. Graft(cache[Ref(step)], Append(Doc.at, step)) = Bare(Ref(step), Append(Doc.at, step))
      BY <2>1, <2>a, LittleFacts
    <2>2. Graft(cache[Ref(step)], Append(Doc.at, step)) = {Under(Doc.id, step, Ref(step))}
      BY <1>5, <2>b DEF Bare
    <2>3. \A x : Due(Doc.id, step, Level.docs, x) <=> x = Ref(step)
      BY <1>5, <2>1, PopulationAssumption
    <2> QED BY <1>4, <2>1, <2>2, <2>3, PlainStep
  <1>8. ASSUME NEW step \in Doc.todo, DidFetch(l, step) PROVE Plain(l) /\ Little(cache')
    <2>1. step[1] # JoinField /\ Ref(step) \in Docs \ Level.visited
      BY <1>8 DEF DidFetch, Wanting
    <2>2. Left(step[1], Doc.depth) - 1 <= 0
      BY <1>3, <2>1, SpotFacts
    <2>3. /\ StepDone(l, step) /\ Stayed(l) /\ l.tree = Level.tree \cup Bare(Ref(step), Append(Doc.at, step))
          /\ cache' = [cache EXCEPT ![Ref(step)] = Bare(Ref(step), <<Ref(step)>>)]
      BY <1>8, <2>2 DEF DidFetch, Shown
    <2>4. Bare(Ref(step), Append(Doc.at, step)) = {Under(Doc.id, step, Ref(step))}
      BY <1>5 DEF Bare
    <2>5. \A x : Due(Doc.id, step, Level.docs, x) <=> x = Ref(step)
      BY <1>5, <2>1, PopulationAssumption
    <2>6. Plain(l)
      BY <1>4, <2>3, <2>4, <2>5, PlainStep
    <2>7. Little(cache')
      <3> DEFINE tree == Bare(Ref(step), <<Ref(step)>>)
      <3>1. tree \in SUBSET Entry
        BY <2>1, RootSpot, BareType
      <3>2. cache' = [cache EXCEPT ![Ref(step)] = tree]
        BY <2>3
      <3>3. cache'[Ref(step)] = tree /\ \A x \in Docs : x # Ref(step) => cache'[x] = cache[x]
        <4> HIDE DEF tree
        <4> QED BY <2>1, <3>1, <3>2, CachePut
      <3> QED BY <3>3 DEF Little
    <2> QED BY <2>6, <2>7
  <1>9. ASSUME NEW step \in Doc.todo, DidJoin(l, step) PROVE Plain(l) /\ Little(cache')
    <2>1. step[1] = JoinField /\ cache' = cache /\ Doc.depth - 1 <= 0
      BY <1>3, <1>9 DEF DidJoin
    <2>2. StepDone(l, step) /\ Stayed(l) /\ l.tree = Level.tree \cup Bare(Order[step[2]], Append(Doc.at, step))
      BY <1>9, <2>1 DEF DidJoin, Shown
    <2>3. Bare(Order[step[2]], Append(Doc.at, step)) = {Under(Doc.id, step, Order[step[2]])}
      BY <1>5 DEF Bare
    <2> QED BY <1>4, <1>5, <2>1, <2>2, <2>3, PlainStep
  <1>10. ASSUME DidEnd(l) PROVE Plain(l) /\ Little(cache')
    <2>1. cache' = cache /\ Doc.todo = {} /\ Len(l.frames) = 0
      BY <1>2, <1>3, <1>10 DEF DidEnd
    <2>2. DOMAIN l.frames = {}
      BY <1>4, <2>1 DEF SameBatch, LevelType
    <2>3. /\ l.docs = Level.docs /\ l.depth = Level.depth /\ l.todo = Level.todo
          /\ l.tree = Level.tree /\ l.visited = Level.visited
      BY <1>4, <1>10 DEF SameBatch, DidEnd
    <2>4. ASSUME NEW d \in l.docs, NEW s \in Steps(d), NEW x, Due(d, s, l.docs, x)
          PROVE  Coming(l, d, s) \/ Under(d, s, x) \in l.tree
      <3>1. Coming(Level, d, s) \/ Under(d, s, x) \in Level.tree
        BY <2>3, <2>4 DEF Plain
      <3> QED BY <1>2, <2>1, <2>3, <3>1 DEF Coming
    <2> QED BY <2>1, <2>2, <2>3, <2>4 DEF Plain
  <1> QED BY <1>6, <1>7, <1>8, <1>9, <1>10 DEF Recursion

\* What a document shows comes with the batch.
LEMMA ListPlain ==
    ASSUME PopTypes, NEW docs \in SUBSET Docs, NEW b,
           b.docs = docs, b.depth = 1, b.todo = BatchSteps(docs, 1), b.frames = <<>>,
           b.tree = Roots(docs), b.visited = docs
    PROVE  Plain(b)
  <1>1. DOMAIN b.frames = {}
    OBVIOUS
  <1>2. \A e \in b.tree : Belongs(e, docs)
    BY RootsFacts DEF Belongs
  <1>3. ASSUME NEW d \in docs, NEW s \in Steps(d) PROVE Coming(b, d, s)
    <2>1. ~ (1 <= 0 \/ docs = {})
      OBVIOUS
    <2>2. PICK i \in DOMAIN Order : Order[i] = d
      BY OrderFacts
    <2>3. CASE s[1] = JoinField
      <3>1. schema.join
        BY <2>3, StepFacts
      <3>2. <<InJoins, i>> \in {InJoins} \X {j \in DOMAIN Order : Order[j] \in docs}
        BY <2>2
      <3>3. <<InJoins, i>> \in BatchSteps(docs, 1)
        BY <2>1, <3>1, <3>2 DEF BatchSteps
      <3> QED BY <2>2, <2>3, <3>3 DEF Coming
    <2>4. CASE s[1] # JoinField
      <3>1. s[1] \in DOMAIN schema.fields /\ schema.fields[s[1]].nested \in BOOLEAN
        BY <2>4, StepFacts, SchemaFacts
      <3>2. CASE schema.fields[s[1]].nested
        <4>1. s[1] \in FieldsThat(TRUE)
          BY <3>1, <3>2 DEF FieldsThat
        <4>2. <<InNested, i>> \in {InNested} \X {j \in DOMAIN Order : Order[j] \in docs}
          BY <2>2
        <4>3. <<InNested, i>> \in BatchSteps(docs, 1)
          BY <2>1, <4>1, <4>2 DEF BatchSteps
        <4> QED BY <2>2, <2>4, <3>2, <4>3 DEF Coming
      <3>3. CASE ~ schema.fields[s[1]].nested
        <4>1. s[1] \in FieldsThat(FALSE)
          BY <3>1, <3>3 DEF FieldsThat
        <4>2. <<Queried, s[1]>> \in {Queried} \X FieldsThat(FALSE)
          BY <4>1
        <4>3. <<Queried, s[1]>> \in BatchSteps(docs, 1)
          BY <2>1, <4>2 DEF BatchSteps
        <4> QED BY <2>4, <4>3 DEF Coming
      <3> QED BY <3>1, <3>2, <3>3
    <2> QED BY <2>3, <2>4
  <1> QED BY <1>1, <1>2, <1>3 DEF Plain

LEMMA ByIdPlain ==
    ASSUME PopTypes, NEW d \in Docs, NEW b, NEW frame,
           frame = Frame(<<d>>, d, 1, Steps(d), FALSE),
           b.docs = {d}, b.depth = 1, b.frames = <<frame>>, b.tree = Bare(d, <<d>>), b.visited = {d}
    PROVE  Plain(b)
  <1>1. frame.at = <<d>> /\ frame.id = d /\ frame.todo = Steps(d) /\ frame.depth = 1 /\ frame.keep = FALSE
    BY DEF Frame
  <1>2. DOMAIN b.frames = {1} /\ b.frames[1] = frame
    OBVIOUS
  <1>3. \A e \in b.tree : Belongs(e, {d})
    BY DEF Bare, Belongs
  <1>4. \A s \in Steps(d) : Coming(b, d, s)
    BY <1>1, <1>2 DEF Coming
  <1> QED BY <1>1, <1>2, <1>3, <1>4 DEF Plain

LEMMA LeavesFacts ==
    ASSUME NEW b, Leaves(b), b.docs \subseteq Docs
    PROVE  /\ DOMAIN b.frames = {}
           /\ \A d \in b.docs : Own(b, d) = Bare(d, <<d>>)
  <1> SUFFICES ASSUME NEW d \in b.docs PROVE Own(b, d) = Bare(d, <<d>>)
    BY DEF Leaves
  <1>1. \A e : e \in Own(b, d) <=> e \in Roots(b.docs) /\ e.at[1] = d
    BY DEF Own, Leaves
  <1>2. \A e : e \in Own(b, d) <=> e = [at |-> <<d>>, id |-> d]
    <2> TAKE e
    <2>1. ASSUME e \in Own(b, d) PROVE e = [at |-> <<d>>, id |-> d]
      <3>1. PICK x \in b.docs : e = [at |-> <<x>>, id |-> x]
        BY <1>1, <2>1, RootsFacts
      <3>2. e.at[1] = x
        BY <3>1
      <3> QED BY <1>1, <2>1, <3>1, <3>2
    <2>2. ASSUME e = [at |-> <<d>>, id |-> d] PROVE e \in Own(b, d)
      <3>1. e \in Roots(b.docs)
        BY <2>2, RootsFacts
      <3>2. e.at[1] = d
        BY <2>2
      <3> QED BY <1>1, <3>1, <3>2
    <2> QED BY <2>1, <2>2
  <1> QED BY <1>2 DEF Bare

LEMMA OneDocumentPlain ==
    ASSUME PopTypes, Underway, Level.frames = <<>>, Plain(Level), NEW step \in Level.todo, OneDocument(step)
    PROVE  \E l \in LevelType : Became(l) /\ Plain(l)
  <1> DEFINE d     == Order[step[2]]
             todo  == IF step[1] = InNested THEN StepsIn(d, FieldsThat(TRUE)) ELSE JoinSteps(d)
             frame == Frame(<<d>>, d, Level.depth, todo, FALSE)
             l     == [Level EXCEPT !.todo = @ \ {step}, !.visited = Level.docs, !.frames = <<frame>>]
  <1>1. /\ step = <<step[1], step[2]>> /\ step[1] \in {InNested, InJoins} /\ d \in Level.docs
        /\ l \in LevelType /\ Became(l) /\ l.docs = Level.docs /\ l.depth = Level.depth
        /\ l.todo = Level.todo \ {step} /\ l.held = Level.held /\ l.tree = Level.tree
        /\ l.visited = Level.docs /\ l.frames = <<frame>>
    BY OneDocumentFacts
  <1>2. DOMAIN Level.frames = {} /\ Level.docs \subseteq Docs
    BY Innermost DEF LevelType
  <1> HIDE DEF l
  <1>3. frame.at = <<d>> /\ frame.id = d /\ frame.todo = todo /\ frame.depth = Level.depth /\ frame.keep = FALSE
    BY DEF Frame
  <1>4. DOMAIN l.frames = {1} /\ l.frames[1] = frame
    BY <1>1
  <1> HIDE DEF frame, d
  <1>5. ASSUME NEW x \in l.docs, NEW s \in Steps(x), NEW y, Due(x, s, l.docs, y)
        PROVE  Coming(l, x, s) \/ Under(x, s, y) \in l.tree
    <2>0. Coming(Level, x, s) \/ Under(x, s, y) \in l.tree
      BY <1>1, <1>5 DEF Plain
    <2>1. s[1] # JoinField => s[1] \in DOMAIN schema.fields /\ s[2] \in DOMAIN refs[x][s[1]]
      BY <1>1, <1>2, StepFacts
    <2>2. ASSUME s[1] # JoinField, <<Queried, s[1]>> \in Level.todo PROVE Coming(l, x, s)
      <3>1. <<Queried, s[1]>> # step
        BY <1>1 DEF Queried, InNested, InJoins
      <3> QED BY <1>1, <2>2, <3>1 DEF Coming
    <2>3. ASSUME s[1] # JoinField, schema.fields[s[1]].nested,
                 NEW i \in DOMAIN Order, Order[i] = x, <<InNested, i>> \in Level.todo
          PROVE  Coming(l, x, s)
      <3>1. CASE <<InNested, i>> # step
        BY <1>1, <2>3, <3>1 DEF Coming
      <3>2. CASE <<InNested, i>> = step
        <4>1. step[1] = InNested /\ d = x
          BY <2>3, <3>2 DEF d
        <4>2. s \in todo
          <5>1. s[1] \in FieldsThat(TRUE)
            BY <2>1, <2>3 DEF FieldsThat
          <5>2. s \in {s[1]} \X DOMAIN refs[x][s[1]]
            BY <1>1, <1>2, <2>1, <2>3, StepFacts
          <5> QED BY <4>1, <5>1, <5>2 DEF StepsIn
        <4> HIDE DEF todo
        <4> QED BY <1>3, <1>4, <4>1, <4>2 DEF Coming
      <3> QED BY <3>1, <3>2
    <2>4. ASSUME s[1] = JoinField, NEW i \in DOMAIN Order, Order[i] = x, <<InJoins, i>> \in Level.todo
          PROVE  Coming(l, x, s)
      <3>1. CASE <<InJoins, i>> # step
        BY <1>1, <2>4, <3>1 DEF Coming
      <3>2. CASE <<InJoins, i>> = step
        <4>1. step[1] # InNested /\ d = x
          BY <2>4, <3>2 DEF d, InNested, InJoins
        <4>2. s \in todo
          <5>1. s \notin StepsIn(x, DOMAIN schema.fields)
            <6>1. ASSUME NEW f \in DOMAIN schema.fields PROVE s \notin {f} \X DOMAIN refs[x][f]
              BY <2>4, SchemaFacts
            <6> QED BY <6>1 DEF StepsIn
          <5>2. s \in JoinSteps(x)
            BY <5>1 DEF Steps
          <5> QED BY <4>1, <5>2
        <4> HIDE DEF todo
        <4> QED BY <1>3, <1>4, <4>1, <4>2 DEF Coming
      <3> QED BY <3>1, <3>2
    <2> QED BY <1>2, <2>0, <2>2, <2>3, <2>4 DEF Coming
  <1>6. l.depth = 1 /\ l.visited = l.docs /\ \A e \in l.tree : Belongs(e, l.docs)
    BY <1>1 DEF Plain
  <1>7. Plain(l)
    BY <1>1, <1>3, <1>4, <1>5, <1>6 DEF Plain
  <1> QED BY <1>1, <1>7

LEMMA ReturnPlain ==
    ASSUME PopTypes, Underway, Len(levels) = 2, Return, Plain(levels[1]), Leaves(Level), Little(cache)
    PROVE  Plain(levels'[1]) /\ Little(cache')
  <1> DEFINE below == levels[1]
             l     == levels'[1]
  <1>1. /\ below \in LevelType /\ below.frames = <<>>
        /\ cache' = [d \in Docs |-> IF d \in Level.docs THEN Own(Level, d) ELSE cache[d]]
    BY ReturnFacts
  <1>2. PICK step \in below.todo :
           /\ step[1] = Queried /\ step[2] \in DOMAIN schema.fields /\ step = <<step[1], step[2]>>
           /\ Level.docs = {d \in Wanted(below, step[2]) : Level.held[d] = Nothing}
           /\ Received(below, step, l)
    BY ReturnFacts
  <1> DEFINE f == step[2]
  <1>3. /\ l.docs = below.docs /\ l.depth = below.depth /\ l.visited = below.visited
        /\ l.todo = below.todo \ {step} /\ l.tree = below.tree \cup Distributed(below, f)
        /\ l.frames = <<>>
    BY <1>2 DEF Received
  <1> HIDE DEF l
  <1>4. Plain(below) /\ below.docs \subseteq Docs /\ DOMAIN below.frames = {} /\ DOMAIN l.frames = {}
    BY <1>1, <1>3 DEF LevelType
  <1>5. Level \in LevelType /\ Level.docs \subseteq Docs
    BY Innermost DEF LevelType
  <1>6. f \in DOMAIN schema.fields /\ f \in Nat /\ f # JoinField
    BY <1>2, SchemaFacts
  <1> HIDE DEF below
  <1>7. ASSUME NEW d \in below.docs, NEW k \in DOMAIN refs[d][f], refs[d][f][k] \in Wanted(below, f)
        PROVE  Graft(Got(Level, refs[d][f][k]), <<d, <<f, k>>>>) = {Under(d, <<f, k>>, refs[d][f][k])}
    <2> DEFINE ref  == refs[d][f][k]
               spot == <<d, <<f, k>>>>
    <2>1. d \in Docs /\ ref \in Docs /\ f \in Nat /\ k \in Nat
      BY <1>4, <1>6, <1>7, WantedFacts, RefFacts
    <2>2. spot \in Spot
      <3>1. <<d>> \in Spot /\ <<f, k>> \in Nat \X Nat /\ spot = Append(<<d>>, <<f, k>>)
        BY <2>1, RootSpot, OneBelow
      <3> QED BY <3>1, SpotBelow
    <2>3. Got(Level, ref) = Bare(ref, <<ref>>)
      <3>1. CASE ref \in Level.docs
        BY <1>5, <3>1, LeavesFacts DEF Got
      <3>2. CASE ref \notin Level.docs
        <4>1. Level.held[ref] # Nothing
          BY <1>2, <1>7, <3>2
        <4> QED BY <2>1, <3>2, <4>1 DEF Got, Leaves, Little
      <3> QED BY <3>1, <3>2
    <2>4. Graft(Got(Level, ref), spot) = Bare(ref, spot)
      BY <2>1, <2>2, <2>3, GraftBare
    <2> QED BY <2>4 DEF Bare, Under
  <1>8. ASSUME NEW e \in Distributed(below, f) PROVE Belongs(e, below.docs)
    <2>0. PICK d \in below.docs : \E k \in DOMAIN refs[d][f] :
             refs[d][f][k] \in Wanted(below, f) /\ e \in Graft(Got(Level, refs[d][f][k]), <<d, <<f, k>>>>)
      BY <1>8, DistributedFacts
    <2>1. PICK k \in DOMAIN refs[d][f] :
             refs[d][f][k] \in Wanted(below, f) /\ e \in Graft(Got(Level, refs[d][f][k]), <<d, <<f, k>>>>)
      BY <2>0
    <2> DEFINE s == <<f, k>>
    <2>2. e = Under(d, s, refs[d][f][k])
      BY <1>7, <2>1
    <2>3. s \in {f} \X DOMAIN refs[d][f] /\ s[1] = f /\ s[2] = k
      OBVIOUS
    <2> HIDE DEF s
    <2>4. s \in Steps(d)
      BY <1>6, <2>3 DEF Steps, StepsIn
    <2>5. refs[d][f][k] \notin below.docs \cup {Missing}
      <3>1. refs[d][f][k] \in Docs \ below.docs
        BY <1>4, <1>6, <2>1, WantedFacts
      <3> QED BY <3>1, PopulationAssumption
    <2>6. Due(d, s, below.docs, refs[d][f][k])
      BY <1>6, <2>3, <2>5 DEF Due
    <2> QED BY <2>2, <2>4, <2>6 DEF Belongs
  <1>9. ASSUME NEW d \in below.docs, NEW s \in Steps(d), NEW x, Due(d, s, below.docs, x)
        PROVE  Coming(l, d, s) \/ Under(d, s, x) \in l.tree
    <2>1. Coming(below, d, s) \/ Under(d, s, x) \in l.tree
      BY <1>3, <1>4, <1>9 DEF Plain
    <2>2. ASSUME Coming(below, d, s), ~ (s[1] # JoinField /\ <<Queried, s[1]>> = step)
          PROVE  Coming(l, d, s)
      <3>1. \A i : <<InNested, i>> # step /\ <<InJoins, i>> # step
        BY <1>2 DEF Queried, InNested, InJoins
      <3> QED BY <1>3, <1>4, <2>2, <3>1 DEF Coming
    <2>3. ASSUME s[1] # JoinField, <<Queried, s[1]>> = step
          PROVE  Under(d, s, x) \in l.tree
      <3>1. s[1] = f
        BY <2>3
      <3>2. d \in Docs /\ s = <<s[1], s[2]>> /\ s[2] \in DOMAIN refs[d][f]
        BY <1>4, <2>3, <3>1, StepFacts
      <3>3. x = refs[d][f][s[2]] /\ x \notin below.docs \cup {Missing}
        BY <1>9, <2>3, <3>1 DEF Due
      <3>4. x \in Wanted(below, f)
        BY <1>4, <1>6, <3>2, <3>3, WantedFacts
      <3>5. Under(d, s, x) \in Graft(Got(Level, refs[d][f][s[2]]), <<d, <<f, s[2]>>>>)
        BY <1>7, <3>1, <3>2, <3>3, <3>4
      <3>6. Under(d, s, x) \in Distributed(below, f)
        BY <3>2, <3>3, <3>4, <3>5, DistributedFacts
      <3> QED BY <1>3, <3>6
    <2> QED BY <2>1, <2>2, <2>3
  <1>10. Plain(l)
    <2>1. l.depth = 1 /\ l.visited = l.docs
      BY <1>3, <1>4 DEF Plain
    <2>2. \A e \in l.tree : Belongs(e, l.docs)
      BY <1>3, <1>4, <1>8 DEF Plain
    <2> QED BY <1>3, <1>4, <1>9, <2>1, <2>2 DEF Plain
  <1>11. Little(cache')
    <2>1. ASSUME NEW d \in Docs PROVE cache'[d] = Nothing \/ cache'[d] = Bare(d, <<d>>)
      <3>1. CASE d \in Level.docs
        BY <1>1, <1>5, <3>1, LeavesFacts
      <3>2. CASE d \notin Level.docs
        BY <1>1, <3>2 DEF Little
      <3> QED BY <3>1, <3>2
    <2> QED BY <2>1 DEF Little
  <1> QED BY <1>10, <1>11 DEF l

LEMMA FlatMoved ==
    ASSUME schema' = schema, refs' = refs
    PROVE  /\ Flat(levels, cache)' <=> Flat(levels', cache')
           /\ Little(cache)' <=> Little(cache')
  BY DEF Flat, Little, Plain, Leaves, Belongs, Coming, Due, Steps, StepsIn, JoinSteps, JoinField

LEMMA AgreeSame ==
    ASSUME Agree, schema' = schema, refs' = refs, answer' = answer, shared' = shared
    PROVE  Agree'
  <1>1. \A e : Belongs(e, answer.docs)' <=> Belongs(e, answer'.docs)
    BY DEF Belongs, Due, Steps, StepsIn, JoinSteps, JoinField
  <1> QED BY <1>1 DEF Agree

\* A step of a read.
LEMMA ShallowOn ==
    ASSUME PopTypes, Shallow, Underway, Underway', UNCHANGED around, levels'[1].depth = levels[1].depth,
           ~ shared /\ levels[1].depth = 1 /\ Flat(levels, cache) => Flat(levels', cache')
    PROVE  Shallow'
  <1>1. schema' = schema /\ refs' = refs /\ answer' = answer /\ shared' = shared
    BY DEF around
  <1>2. Agree'
    BY <1>1, AgreeSame DEF Shallow
  <1>3. ASSUME ~ shared', (levels[1].depth)' = 1 PROVE Flat(levels, cache)'
    <2>1. ~ shared /\ levels[1].depth = 1
      BY <1>1, <1>3
    <2>2. Flat(levels', cache')
      BY <2>1 DEF Shallow
    <2> QED BY <1>1, <2>2, FlatMoved
  <1> QED BY <1>2, <1>3 DEF Shallow

LEMMA PopulateShallow ==
    ASSUME PopTypes, Shallow, Populate
    PROVE  Shallow'
  <1>1. Recursing /\ Underway
    BY PopulateIsRecursion DEF Recursing
  <1>2. PICK l : Recursion(l)
    BY PopulateIsRecursion
  <1>3. l \in LevelType /\ Became(l) /\ l.depth = Level.depth /\ UNCHANGED around
    BY <1>2 DEF Recursion, SameBatch
  <1>4. /\ DOMAIN levels' = DOMAIN levels /\ levels'[Len(levels)] = l /\ Len(levels') = Len(levels)
        /\ \A n \in DOMAIN levels : n # Len(levels) => levels'[n] = levels[n]
    BY <1>1, <1>3, BecameFacts
  <1>5. Len(levels) \in Nat /\ Len(levels) > 0 /\ DOMAIN levels = 1 .. Len(levels)
    BY <1>1, Innermost
  <1>6. levels'[1].depth = levels[1].depth
    BY <1>3, <1>4, <1>5 DEF Level
  <1>7. Underway'
    <2> DEFINE none == <<>>
    <2>1. Len(levels') # 0 /\ Len(none) = 0
      BY <1>4, <1>5
    <2> HIDE DEF none
    <2>2. levels' # none
      BY <2>1
    <2> QED BY <2>2 DEF Underway, none
  <1>8. ASSUME Flat(levels, cache) PROVE Flat(levels', cache')
    <2>1. Len(levels) = 1
      <3>1. ASSUME Len(levels) = 2 PROVE FALSE
        <4>1. Leaves(Level)
          BY <1>8, <3>1 DEF Flat, Level
        <4> QED BY <1>1, <4>1 DEF Leaves, Recursing
      <3> QED BY <1>5, <1>8, <3>1 DEF Flat
    <2>2. Plain(Level) /\ Little(cache)
      BY <1>8, <2>1 DEF Flat, Level
    <2>3. Plain(l) /\ Little(cache')
      BY <1>1, <1>2, <2>2, RecursionPlain
    <2> QED BY <1>4, <2>1, <2>3 DEF Flat
  <1> QED BY <1>1, <1>3, <1>6, <1>7, <1>8, ShallowOn

LEMMA UnderwayLen ==
    ASSUME PopTypes, NEW stack, NEW n \in Nat, Len(stack) = n, n > 0
    PROVE  stack # <<>>
  <1> DEFINE none == <<>>
  <1>1. Len(none) = 0
    OBVIOUS
  <1> HIDE DEF none
  <1>2. stack # none
    BY <1>1
  <1> QED BY <1>2 DEF none

LEMMA QueryFieldShallow ==
    ASSUME PopTypes, Shallow, Underway, Level.frames = <<>>, NEW step \in Level.todo,
           IsFirst(step, Level.todo), QueryField(step)
    PROVE  Shallow'
  <1>1. step[2] \in DOMAIN schema.fields
    BY QueryFieldFacts
  <1>2. PICK fetched \in SUBSET Docs, left \in Nat :
           LET b == Batch("list", fetched, left, BatchSteps(fetched, left), <<>>) IN
           left = Left(step[2], Level.depth) - 1 /\ levels' = Append(levels, b) /\ b \in LevelType
    BY QueryFieldFacts
  <1> DEFINE b == Batch("list", fetched, left, BatchSteps(fetched, left), <<>>)
  <1>3. cache' = cache /\ UNCHANGED around
    BY QueryFieldFacts
  <1>4. /\ b.docs = fetched /\ b.depth = left /\ b.todo = BatchSteps(fetched, left)
        /\ b.frames = <<>> /\ b.held = cache /\ b.tree = Roots(fetched)
    BY ListType
  <1> HIDE DEF b
  <1>5. levels' = Append(levels, b) /\ b \in LevelType
    BY <1>2 DEF b
  <1>6. Len(levels) \in Nat /\ Len(levels) > 0 /\ DOMAIN levels = 1 .. Len(levels) /\ levels \in Seq(LevelType)
    BY Innermost DEF PopTypes
  <1>7. /\ levels' \in Seq(LevelType) /\ Len(levels') = Len(levels) + 1 /\ levels'[Len(levels) + 1] = b
        /\ \A n \in 1 .. Len(levels) : levels'[n] = levels[n]
    BY <1>5, <1>6, AppendProperties
  <1>8. levels'[1] = levels[1]
    BY <1>6, <1>7
  <1>9. Underway'
    <2>1. levels' # <<>>
      BY <1>6, <1>7, UnderwayLen
    <2> QED BY <2>1 DEF Underway
  <1>10. ASSUME Flat(levels, cache), levels[1].depth = 1 PROVE Flat(levels', cache')
    <2>1. Len(levels) = 1
      <3>1. ASSUME Len(levels) = 2 PROVE FALSE
        <4>1. Leaves(Level)
          BY <1>10, <3>1 DEF Flat, Level
        <4> QED BY <4>1 DEF Leaves
      <3> QED BY <1>6, <1>10, <3>1 DEF Flat
    <2>2. left = 0
      <3>1. Level.depth = 1
        BY <1>10, <2>1 DEF Level
      <3>2. schema.fields[step[2]].cap \in Nat /\ schema.fields[step[2]].cap > 0
        BY <1>1, SchemaFacts
      <3> QED BY <1>2, <3>1, <3>2 DEF Left
    <2>3. BatchSteps(fetched, 0) = {}
      BY DEF BatchSteps
    <2>4. Leaves(b)
      BY <1>4, <1>10, <2>2, <2>3 DEF Leaves, Flat
    <2> QED BY <1>3, <1>7, <1>8, <1>10, <2>1, <2>4 DEF Flat
  <1> QED BY <1>3, <1>8, <1>9, <1>10, ShallowOn

LEMMA OneDocumentShallow ==
    ASSUME PopTypes, Shallow, Underway, Level.frames = <<>>, NEW step \in Level.todo, OneDocument(step)
    PROVE  Shallow'
  <1> DEFINE d     == Order[step[2]]
             todo  == IF step[1] = InNested THEN StepsIn(d, FieldsThat(TRUE)) ELSE JoinSteps(d)
             frame == Frame(<<d>>, d, Level.depth, todo, FALSE)
             l     == [Level EXCEPT !.todo = @ \ {step}, !.visited = Level.docs, !.frames = <<frame>>]
  <1>1. cache' = cache /\ UNCHANGED around /\ l \in LevelType /\ Became(l) /\ l.depth = Level.depth
    BY OneDocumentFacts
  <1> HIDE DEF l
  <1>2. /\ levels' \in Seq(LevelType) /\ levels'[Len(levels)] = l /\ Len(levels') = Len(levels)
        /\ \A n \in DOMAIN levels : n # Len(levels) => levels'[n] = levels[n]
    BY <1>1, BecameFacts
  <1>3. Len(levels) \in Nat /\ Len(levels) > 0 /\ DOMAIN levels = 1 .. Len(levels)
    BY Innermost
  <1>4. levels'[1].depth = levels[1].depth
    BY <1>1, <1>2, <1>3 DEF Level
  <1>5. Underway'
    <2>1. levels' # <<>>
      BY <1>2, <1>3, UnderwayLen
    <2> QED BY <2>1 DEF Underway
  <1>6. ASSUME Flat(levels, cache) PROVE Flat(levels', cache')
    <2>1. Len(levels) = 1
      <3>1. ASSUME Len(levels) = 2 PROVE FALSE
        <4>1. Leaves(Level)
          BY <1>6, <3>1 DEF Flat, Level
        <4> QED BY <4>1 DEF Leaves
      <3> QED BY <1>3, <1>6, <3>1 DEF Flat
    <2>2. Plain(Level)
      BY <1>6, <2>1 DEF Flat, Level
    <2>3. PICK m \in LevelType : Became(m) /\ Plain(m)
      BY <2>2, OneDocumentPlain
    <2>4. levels'[1] = m
      BY <2>1, <2>3, BecameFacts
    <2> QED BY <1>1, <1>2, <1>6, <2>1, <2>3, <2>4 DEF Flat
  <1> QED BY <1>1, <1>4, <1>5, <1>6, ShallowOn

LEMMA ReturnShallow ==
    ASSUME PopTypes, Shallow, Underway, Len(levels) > 1, Return
    PROVE  Shallow'
  <1>1. PICK n \in Nat : n > 0 /\ Len(levels) = n + 1
    <2>1. Len(levels) \in Nat
      BY Innermost
    <2>2. Len(levels) - 1 \in Nat /\ Len(levels) - 1 > 0 /\ Len(levels) = (Len(levels) - 1) + 1
      BY <2>1
    <2> QED BY <2>2
  <1>2. /\ Len(levels') = n /\ UNCHANGED around
        /\ \A m \in 1 .. n - 1 : levels'[m] = levels[m]
    BY <1>1, ReturnFacts
  <1>3. PICK step : Received(levels[n], step, levels'[n])
    BY <1>1, ReturnFacts
  <1>4. levels'[1].depth = levels[1].depth
    <2>1. CASE n = 1
      BY <1>3, <2>1 DEF Received
    <2>2. CASE n # 1
      <3>1. 1 \in 1 .. n - 1
        BY <1>1, <2>2
      <3> QED BY <1>2, <3>1
    <2> QED BY <2>1, <2>2
  <1>5. Underway'
    <2>1. levels' # <<>>
      BY <1>1, <1>2, UnderwayLen
    <2> QED BY <2>1 DEF Underway
  <1>6. ASSUME Flat(levels, cache) PROVE Flat(levels', cache')
    <2>1. Len(levels) = 2 /\ n = 1
      BY <1>1, <1>6 DEF Flat
    <2>2. Plain(levels[1]) /\ Leaves(Level) /\ Little(cache)
      BY <1>6, <2>1 DEF Flat, Level
    <2>3. Plain(levels'[1]) /\ Little(cache')
      BY <2>1, <2>2, ReturnPlain
    <2> QED BY <1>2, <2>1, <2>3 DEF Flat
  <1> QED BY <1>2, <1>4, <1>5, <1>6, ShallowOn

LEMMA PopulateBatchShallow ==
    ASSUME PopTypes, Shallow, PopulateBatch
    PROVE  Shallow'
  <1>1. Underway /\ Level.frames = <<>>
    BY DEF PopulateBatch, Underway
  <1>2. CASE \E step \in Level.todo : IsFirst(step, Level.todo) /\ QueryField(step)
    BY <1>1, <1>2, QueryFieldShallow
  <1>3. CASE \E step \in Level.todo : OneDocument(step)
    BY <1>1, <1>3, OneDocumentShallow
  <1>4. CASE Len(levels) > 1 /\ Return
    BY <1>1, <1>4, ReturnShallow
  <1> QED BY <1>2, <1>3, <1>4 DEF PopulateBatch

LEMMA StartShallow ==
    ASSUME PopTypes, Shallow, NEW b \in LevelType, b.depth = 1 => Plain(b), Start(b)
    PROVE  Shallow'
  <1> DEFINE one == <<b>>
  <1>1. /\ levels' = one /\ schema' = schema /\ refs' = refs /\ cache' = cache /\ shared' = shared
        /\ answer' = Unread /\ ~ Underway
    BY DEF Start, MayRead, Underway
  <1>2. Len(one) = 1 /\ one[1] = b
    OBVIOUS
  <1> HIDE DEF one
  <1>3. Underway'
    <2>1. levels' # <<>>
      BY <1>1, <1>2, UnderwayLen
    <2> QED BY <2>1 DEF Underway
  <1>4. Agree'
    <2>1. answer'.docs = {} /\ answer'.depth = 0
      BY <1>1 DEF Unread
    <2> QED BY <2>1 DEF Agree
  <1>5. ASSUME ~ shared', (levels[1].depth)' = 1 PROVE Flat(levels, cache)'
    <2>1. Plain(b)
      BY <1>1, <1>2, <1>5
    <2>2. Little(cache')
      BY <1>1, <1>5 DEF Shallow
    <2>3. Flat(levels', cache')
      BY <1>1, <1>2, <2>1, <2>2 DEF Flat
    <2> QED BY <1>1, <2>3, FlatMoved
  <1> QED BY <1>3, <1>4, <1>5 DEF Shallow

LEMMA LittleEmpty == Little(Empty)
  BY DEF Little, Empty

LEMMA AnswerShallow ==
    ASSUME PopTypes, Shallow, Answer, Complete
    PROVE  Shallow'
  <1> DEFINE none == <<>>
  <1>1. /\ levels' = none /\ schema' = schema /\ refs' = refs /\ shared' = shared
        /\ answer'.docs = Level.docs /\ answer'.tree = Level.tree /\ answer'.depth = Level.depth
        /\ cache' = IF shared THEN cache ELSE Empty
    BY DEF Answer
  <1>2. ~ Underway'
    BY <1>1 DEF Underway
  <1> HIDE DEF none
  <1>3. Underway
    BY DEF Answer, Underway
  <1>4. Len(levels) = 1 /\ Level = levels[1] /\ Level.todo = {} /\ DOMAIN Level.frames = {}
    BY DEF Answer, Level
  <1>5. Level.docs \subseteq Docs /\ Sound(Level)
    <2>1. 1 \in DOMAIN levels
      BY <1>3, <1>4, Innermost
    <2> QED BY <1>3, <1>4, <2>1, Innermost DEF LevelType, Complete
  <1>6. ASSUME ~ shared, Level.depth = 1, NEW e
        PROVE  e \in Level.tree <=> Belongs(e, Level.docs)
    <2>1. Plain(Level)
      BY <1>3, <1>4, <1>6 DEF Shallow, Flat
    <2>2. ASSUME Belongs(e, Level.docs) PROVE e \in Level.tree
      <3>1. PICK d \in Level.docs :
               \/ e = [at |-> <<d>>, id |-> d]
               \/ \E s \in Steps(d) : \E x : Due(d, s, Level.docs, x) /\ e = Under(d, s, x)
        BY <2>2 DEF Belongs
      <3>2. CASE e = [at |-> <<d>>, id |-> d]
        BY <1>5, <3>2 DEF Sound, Rooted
      <3>3. ASSUME NEW s \in Steps(d), NEW x, Due(d, s, Level.docs, x), e = Under(d, s, x)
            PROVE  e \in Level.tree
        <4>1. ~ Coming(Level, d, s)
          BY <1>4 DEF Coming
        <4> QED BY <2>1, <3>3, <4>1 DEF Plain
      <3> QED BY <3>1, <3>2, <3>3
    <2> QED BY <2>1, <2>2 DEF Plain
  <1>7. Agree'
    <2>1. \A e : Belongs(e, answer.docs)' <=> Belongs(e, answer'.docs)
      BY <1>1 DEF Belongs, Due, Steps, StepsIn, JoinSteps, JoinField
    <2> QED BY <1>1, <1>5, <1>6, <2>1 DEF Agree
  <1>8. ~ shared' => Little(cache)'
    BY <1>1, LittleEmpty, FlatMoved
  <1> QED BY <1>2, <1>7, <1>8 DEF Shallow

LEMMA PopulationInitShallow == PopulationInit => Shallow
  <1> SUFFICES ASSUME PopulationInit PROVE Shallow
    OBVIOUS
  <1>1. ~ Underway /\ answer.docs = {} /\ answer.depth = 0
    BY DEF PopulationInit, Unread, Underway
  <1>2. Little(cache)
    BY LittleEmpty DEF PopulationInit
  <1> QED BY <1>1, <1>2 DEF Shallow, Agree

LEMMA ShallowStep == PopTypes /\ Complete /\ Shallow /\ [PopulationNext]_populationVars => Shallow'
  <1> SUFFICES ASSUME PopTypes, Complete, Shallow, [PopulationNext]_populationVars PROVE Shallow'
    OBVIOUS
  <1>0. MaxDepth \in Nat
    BY PopulationAssumption
  <1>1. ASSUME NEW depth \in 1 .. MaxDepth, NEW d \in Docs, FindById(d, depth) PROVE Shallow'
    <2>1. depth \in Nat /\ depth > 0
      BY <1>0
    <2> DEFINE frame == Frame(<<d>>, d, depth, Steps(d), FALSE)
               b     == Batch("by_id", {d}, depth, {}, <<frame>>)
    <2>2. Start(b)
      BY <1>1 DEF FindById
    <2>3. /\ b \in LevelType /\ b.docs = {d} /\ b.depth = depth /\ b.frames = <<frame>>
          /\ b.tree = Bare(d, <<d>>) /\ b.visited = {d}
      BY <2>1, ByIdFacts
    <2> HIDE DEF b
    <2>4. b.depth = 1 => Plain(b)
      BY <2>3, ByIdPlain
    <2> QED BY <2>2, <2>3, <2>4, StartShallow
  <1>2. ASSUME NEW depth \in 1 .. MaxDepth, NEW ds \in (SUBSET Docs) \ {{}}, Find(ds, depth) PROVE Shallow'
    <2>1. depth \in Nat /\ depth > 0 /\ ds \in SUBSET Docs
      BY <1>0
    <2> DEFINE b == Batch("list", ds, depth, BatchSteps(ds, depth), <<>>)
    <2>2. Start(b)
      BY <1>2 DEF Find
    <2>3. /\ b \in LevelType /\ b.docs = ds /\ b.depth = depth /\ b.todo = BatchSteps(ds, depth)
          /\ b.frames = <<>> /\ b.tree = Roots(ds) /\ b.visited = ds
      BY <2>1, ListType
    <2> HIDE DEF b
    <2>4. b.depth = 1 => Plain(b)
      BY <2>1, <2>3, ListPlain
    <2> QED BY <2>2, <2>3, <2>4, StartShallow
  <1>3. CASE UNCHANGED populationVars
    <2>1. /\ schema' = schema /\ refs' = refs /\ cache' = cache /\ levels' = levels /\ answer' = answer
          /\ shared' = shared
      BY <1>3 DEF populationVars, around
    <2>2. Agree'
      BY <2>1, AgreeSame DEF Shallow
    <2>3. (Underway <=> Underway') /\ levels'[1].depth = levels[1].depth
      BY <2>1 DEF Underway
    <2>4. ASSUME ~ shared', Underway', (levels[1].depth)' = 1 PROVE Flat(levels, cache)'
      <3>1. Flat(levels', cache')
        BY <2>1, <2>3, <2>4 DEF Shallow
      <3> QED BY <2>1, <3>1, FlatMoved
    <2>5. ASSUME ~ shared', ~ Underway' PROVE Little(cache)'
      <3>1. Little(cache')
        BY <2>1, <2>3, <2>5 DEF Shallow
      <3> QED BY <2>1, <3>1, FlatMoved
    <2> QED BY <2>2, <2>4, <2>5 DEF Shallow
  <1> QED BY <1>1, <1>2, <1>3, PopulateShallow, PopulateBatchShallow, AnswerShallow DEF PopulationNext

\* At depth 1 populate_relationships_cached and
\* populate_relationships_batch_cached show the same: a cache of the read
\* holds no more than documents by themselves, so a document is shown with
\* what it names and what joins it, and nothing below.
THEOREM AlgorithmsAgree == PopulationSpec => []ListsAgree
  <1>1. ASSUME PopTypes, Shallow PROVE ListsAgree
    <2>1. SUFFICES ASSUME ~ shared, answer.depth = 1
                   PROVE  answer.tree = UNION {OneLevel(d, answer.docs) : d \in answer.docs}
      BY DEF ListsAgree
    <2> DEFINE all == UNION {OneLevel(d, answer.docs) : d \in answer.docs}
    <2>2. answer.docs \in SUBSET Docs /\ \A e : e \in answer.tree <=> Belongs(e, answer.docs)
      BY <1>1, <2>1 DEF Shallow, Agree
    <2>3. \A e : e \in all <=> Belongs(e, answer.docs)
      BY <1>1, <2>2, OneLevelFacts
    <2> HIDE DEF all
    <2>4. answer.tree = all
      BY <2>2, <2>3
    <2> QED BY <2>4 DEF all
  <1> QED BY <1>1, PopulationInitComplete, CompleteStep, PopulationInitShallow, ShallowStep, PopulationTypes, PTL
          DEF PopulationSpec

-----------------------------------------------------------------------------
(***************************************************************************)
(* The depth of a read by id is kept.                                      *)
(***************************************************************************)
\* There is as much depth left for a document as it may show levels.
Room(x, depth) ==
    /\ Len(x.at) - 1 + x.depth <= depth
    /\ \A j \in 2 .. Len(x.at) : x.at[j][1] # JoinField =>
          /\ x.at[j][1] \in DOMAIN schema.fields
          /\ Len(x.at) - j + x.depth < schema.fields[x.at[j][1]].cap

InBounds(l) ==
    /\ \A e \in l.tree : DeepEnough(e, l.depth)
    /\ \A i \in DOMAIN l.frames :
          /\ Room(l.frames[i], l.depth)
          /\ l.frames[i].keep = TRUE => l.frames[i].id \in l.visited

(* Nothing lies in itself; what a document lies in has been visited; what  *)
(* is still to do for it is not in the tree; and the documents that are    *)
(* being populated lie in one another at steps that are done.              *)
Apart(l) ==
    /\ \A e \in l.tree : \A g \in l.tree : e.at # g.at /\ IsPrefix(e.at, g.at) => e.id # g.id
    /\ \A i \in DOMAIN l.frames : \A e \in l.tree :
          IsPrefix(e.at, l.frames[i].at) => e.id \in l.visited
    /\ \A i \in DOMAIN l.frames : \A s \in l.frames[i].todo : \A e \in l.tree :
          ~ IsPrefix(Append(l.frames[i].at, s), e.at)
    /\ \A i \in DOMAIN l.frames : \A j \in DOMAIN l.frames : i < j =>
          /\ Len(l.frames[i].at) < Len(l.frames[j].at)
          /\ l.frames[j].at[Len(l.frames[i].at) + 1] \notin l.frames[i].todo

\* Only visited documents may have something below them in the cache.
Fresh(held, visited) == \A d \in Docs : d \notin visited => held[d] = Nothing \/ held[d] = Bare(d, <<d>>)

Single(l, held) ==
    /\ l.todo = {} /\ Fresh(held, l.visited)
    /\ InBounds(l)
    /\ schema.join = FALSE => Apart(l)

LEMMA PrefixFacts ==
    ASSUME NEW s \in Spot, NEW t \in Spot
    PROVE  IsPrefix(s, t) <=> Len(s) <= Len(t) /\ \A i \in 1 .. Len(s) : s[i] = t[i]
  <1> DEFINE S == Docs \cup (Nat \X Nat)
  <1>1. s \in Seq(S) /\ t \in Seq(S) /\ Len(s) \in Nat /\ Len(t) \in Nat
    BY DEF Spot
  <1> HIDE DEF S
  <1>2. ASSUME Len(s) <= Len(t)
        PROVE  SubSeq(s, 1, Len(s)) = SubSeq(t, 1, Len(s)) <=> \A i \in 1 .. Len(s) : s[i] = t[i]
    <2> DEFINE a == SubSeq(s, 1, Len(s))
               b == SubSeq(t, 1, Len(s))
    <2>1. a \in Seq(S) /\ Len(a) = Len(s) /\ \A i \in 1 .. Len(s) : a[i] = s[i]
      BY <1>1
    <2>2. b \in Seq(S) /\ Len(b) = Len(s) /\ \A i \in 1 .. Len(s) : b[i] = t[i]
      BY <1>1, <1>2
    <2> HIDE DEF a, b
    <2>3. (\A i \in 1 .. Len(s) : s[i] = t[i]) => a = b
      BY <2>1, <2>2, SeqEqual
    <2>4. a = b => \A i \in 1 .. Len(s) : s[i] = t[i]
      BY <2>1, <2>2
    <2> QED BY <2>3, <2>4 DEF a, b
  <1> QED BY <1>2 DEF IsPrefix

LEMMA BelowFacts ==
    ASSUME NEW at \in Spot, NEW s \in Nat \X Nat
    PROVE  /\ Append(at, s) \in Spot /\ Len(at) \in Nat /\ Len(at) > 0
           /\ Len(Append(at, s)) = Len(at) + 1
           /\ \A i \in 1 .. Len(at) : Append(at, s)[i] = at[i]
           /\ Append(at, s)[Len(at) + 1] = s
  <1> DEFINE S == Docs \cup (Nat \X Nat)
             none == <<>>
  <1>1. at \in Seq(S) /\ s \in S /\ at # none
    BY DEF Spot
  <1>2. Append(at, s) \in Spot
    BY SpotBelow
  <1> HIDE DEF S
  <1>3. Len(at) \in Nat /\ Len(at) > 0
    BY <1>1
  <1>4. /\ Len(Append(at, s)) = Len(at) + 1
        /\ \A i \in 1 .. Len(at) : Append(at, s)[i] = at[i]
        /\ Append(at, s)[Len(at) + 1] = s
    BY <1>1, AppendProperties
  <1> QED BY <1>2, <1>3, <1>4

\* What lies above a place and is not at it lies above the place it is below.
LEMMA AboveFacts ==
    ASSUME NEW at \in Spot, NEW s \in Nat \X Nat, NEW other \in Spot
    PROVE  /\ IsPrefix(other, Append(at, s)) => other = Append(at, s) \/ IsPrefix(other, at)
           /\ IsPrefix(Append(at, s), Append(at, s))
           /\ \A t \in Nat \X Nat : IsPrefix(Append(Append(at, s), t), other) => IsPrefix(Append(at, s), other)
           /\ \A t \in Nat \X Nat : ~ IsPrefix(Append(Append(at, s), t), Append(at, s))
           /\ \A t \in Nat \X Nat : IsPrefix(Append(other, t), at) => at[Len(other) + 1] = t
           /\ ~ IsPrefix(Append(at, s), at)
  <1> DEFINE spot == Append(at, s)
  <1>1. /\ spot \in Spot /\ Len(at) \in Nat /\ Len(at) > 0 /\ Len(spot) = Len(at) + 1
        /\ \A i \in 1 .. Len(at) : spot[i] = at[i]
    BY BelowFacts
  <1>2. Len(other) \in Nat /\ Len(other) > 0
    BY BelowFacts
  <1> HIDE DEF spot
  <1>3. ASSUME IsPrefix(other, spot), other # spot PROVE IsPrefix(other, at)
    <2>1. Len(other) <= Len(spot) /\ \A i \in 1 .. Len(other) : other[i] = spot[i]
      BY <1>1, <1>3, PrefixFacts
    <2>2. Len(other) # Len(spot)
      <3>1. ASSUME Len(other) = Len(spot) PROVE other = spot
        <4> DEFINE S == Docs \cup (Nat \X Nat)
        <4>1. other \in Seq(S) /\ spot \in Seq(S)
          BY <1>1 DEF Spot
        <4> HIDE DEF S
        <4> QED BY <2>1, <3>1, <4>1, SeqEqual
      <3> QED BY <1>3, <3>1
    <2>3. Len(other) <= Len(at) /\ \A i \in 1 .. Len(other) : other[i] = at[i]
      BY <1>1, <1>2, <2>1, <2>2
    <2> QED BY <2>3, PrefixFacts
  <1>4. IsPrefix(spot, spot)
    BY <1>1, PrefixFacts
  <1>5. ASSUME NEW t \in Nat \X Nat
        PROVE  /\ IsPrefix(Append(spot, t), other) => IsPrefix(spot, other)
               /\ ~ IsPrefix(Append(spot, t), spot)
    <2> DEFINE more == Append(spot, t)
    <2>1. more \in Spot /\ Len(more) = Len(spot) + 1 /\ \A i \in 1 .. Len(spot) : more[i] = spot[i]
      BY <1>1, BelowFacts
    <2> HIDE DEF more
    <2>2. ASSUME IsPrefix(more, other) PROVE IsPrefix(spot, other)
      <3>1. Len(more) <= Len(other) /\ \A i \in 1 .. Len(more) : more[i] = other[i]
        BY <2>1, <2>2, PrefixFacts
      <3>2. Len(spot) <= Len(other) /\ \A i \in 1 .. Len(spot) : spot[i] = other[i]
        BY <1>1, <1>2, <2>1, <3>1
      <3> QED BY <1>1, <3>2, PrefixFacts
    <2>3. ~ IsPrefix(more, spot)
      BY <1>1, <2>1, PrefixFacts
    <2> QED BY <2>2, <2>3 DEF more
  <1>6. ASSUME NEW t \in Nat \X Nat, IsPrefix(Append(other, t), at) PROVE at[Len(other) + 1] = t
    <2> DEFINE more == Append(other, t)
    <2>1. more \in Spot /\ Len(more) = Len(other) + 1 /\ more[Len(other) + 1] = t
      BY BelowFacts
    <2>2. IsPrefix(more, at)
      BY <1>6
    <2> HIDE DEF more
    <2>3. \A i \in 1 .. Len(more) : more[i] = at[i]
      BY <2>1, <2>2, PrefixFacts
    <2> QED BY <1>2, <2>1, <2>3
  <1>7. ~ IsPrefix(spot, at)
    BY <1>1, PrefixFacts
  <1> QED BY <1>3, <1>4, <1>5, <1>6, <1>7 DEF spot

LEMMA FrameFacts ==
    ASSUME PopTypes, Underway, NEW i \in DOMAIN Level.frames
    PROVE  /\ Level.frames[i] \in FrameType /\ Level.frames[i].at \in Spot /\ Level.frames[i].id \in Docs
           /\ Level.frames[i].depth \in Nat /\ Level.frames[i].depth > 0
           /\ Level.frames[i].todo \subseteq Nat \X Nat
  <1>1. Level \in LevelType /\ Working(Level)
    BY Innermost
  <1>2. Level.frames \in Seq(FrameType)
    BY <1>1 DEF LevelType
  <1>3. Level.frames[i] \in FrameType
    BY <1>2
  <1> QED BY <1>1, <1>3 DEF FrameType, Working

LEMMA ShownInBounds ==
    ASSUME PopTypes, Recursing, InBounds(Level), NEW l, SameBatch(l),
           NEW step \in Doc.todo, NEW d \in Docs, NEW depth \in Int, NEW keep \in BOOLEAN,
           Shown(l, step, d, depth, keep), depth <= Doc.depth - 1,
           step[1] # JoinField => depth < schema.fields[step[1]].cap
    PROVE  InBounds(l)
  <1> DEFINE spot == Append(Doc.at, step)
  <1>1. /\ Len(Level.frames) \in Nat /\ Len(Level.frames) > 0 /\ DOMAIN Level.frames = 1 .. Len(Level.frames)
        /\ Doc = Level.frames[Len(Level.frames)] /\ Doc.depth \in Nat /\ Doc.depth > 0
        /\ Doc.at \in Spot /\ step \in Nat \X Nat
    BY InnermostDoc, SpotFacts DEF Doc, FrameType
  <1>2. /\ spot \in Spot /\ Len(Doc.at) \in Nat /\ Len(Doc.at) > 0 /\ Len(spot) = Len(Doc.at) + 1
        /\ \A i \in 1 .. Len(Doc.at) : spot[i] = Doc.at[i]
        /\ spot[Len(Doc.at) + 1] = step
    BY <1>1, BelowFacts
  <1>3. Room(Doc, Level.depth)
    <2>1. Len(Level.frames) \in DOMAIN Level.frames
      BY <1>1
    <2> QED BY <1>1, <2>1 DEF InBounds
  <1>0. StepDone(l, step)
    BY DEF Shown
  <1>4. /\ l.tree = Level.tree \cup {[at |-> spot, id |-> d]}
        /\ Stayed(l) \/ Entered(l, spot, d, depth, keep)
    BY DEF Shown, Bare
  <1>5. l.depth = Level.depth /\ Level.visited \subseteq l.visited /\ l.depth \in Nat
    BY DEF SameBatch, LevelType
  <1> HIDE DEF spot
  <1> DEFINE n == Len(Doc.at)
             m == Doc.depth
             room == Level.depth
  <1>a. n \in Nat /\ n > 0 /\ m \in Nat /\ m > 0 /\ Len(spot) = n + 1 /\ room \in Nat /\ n - 1 + m <= room
    BY <1>1, <1>2, <1>3, <1>5 DEF Room
  <1>b. ASSUME NEW j \in 2 .. n, spot[j][1] # JoinField
        PROVE  /\ schema.fields[spot[j][1]].cap \in Nat
               /\ n - j + m < schema.fields[spot[j][1]].cap
    <2>1. spot[j] = Doc.at[j] /\ j \in 2 .. Len(Doc.at)
      BY <1>2, <1>b
    <2>2. spot[j][1] \in DOMAIN schema.fields /\ n - j + m < schema.fields[spot[j][1]].cap
      BY <1>3, <1>b, <2>1 DEF Room
    <2> QED BY <2>2, SchemaFacts
  <1> HIDE DEF n, m, room
  <1>6. step[1] # JoinField => schema.fields[step[1]].cap \in Nat /\ schema.fields[step[1]].cap > 0
    BY SpotFacts, SchemaFacts
  <1>7. DeepEnough([at |-> spot, id |-> d], l.depth)
    <2>1. Len(spot) - 1 <= l.depth
      BY <1>a, <1>5 DEF room
    <2>2. ASSUME NEW j \in 2 .. Len(spot), spot[j][1] # JoinField
          PROVE  Len(spot) - j < schema.fields[spot[j][1]].cap
      <3>1. CASE j = n + 1
        BY <1>2, <1>6, <1>a, <2>2, <3>1 DEF n
      <3>2. CASE j \in 2 .. n
        <4> DEFINE cap == schema.fields[spot[j][1]].cap
        <4>1. cap \in Nat /\ n - j + m < cap
          BY <1>b, <2>2, <3>2
        <4> HIDE DEF cap
        <4>2. Len(spot) - j < cap
          BY <1>a, <3>2, <4>1
        <4> QED BY <4>2 DEF cap
      <3> QED BY <1>a, <3>1, <3>2
    <2> QED BY <2>1, <2>2 DEF DeepEnough
  <1>8. \A e \in l.tree : DeepEnough(e, l.depth)
    BY <1>4, <1>5, <1>7 DEF InBounds
  <1>9. ASSUME Entered(l, spot, d, depth, keep)
        PROVE  Room(Frame(spot, d, depth, Steps(d), keep), l.depth)
    <2>1. depth \in Nat /\ depth > 0
      BY <1>9 DEF Entered
    <2>0. depth <= m - 1
      BY DEF m
    <2>2. Len(spot) - 1 + depth <= l.depth
      BY <1>a, <1>5, <2>0, <2>1 DEF room
    <2>3. ASSUME NEW j \in 2 .. Len(spot), spot[j][1] # JoinField
          PROVE  Len(spot) - j + depth < schema.fields[spot[j][1]].cap
      <3>1. CASE j = n + 1
        <4>1. Len(spot) - j + depth = depth
          BY <1>a, <2>1, <3>1
        <4> QED BY <1>2, <2>3, <3>1, <4>1 DEF n
      <3>2. CASE j \in 2 .. n
        <4> DEFINE cap == schema.fields[spot[j][1]].cap
        <4>1. cap \in Nat /\ n - j + m < cap
          BY <1>b, <2>3, <3>2
        <4> HIDE DEF cap
        <4>2. Len(spot) - j + depth < cap
          BY <1>a, <2>0, <2>1, <3>2, <4>1
        <4> QED BY <4>2 DEF cap
      <3> QED BY <1>a, <3>1, <3>2
    <2>4. ASSUME NEW j \in 2 .. Len(spot), spot[j][1] # JoinField PROVE spot[j][1] \in DOMAIN schema.fields
      <3>1. CASE j = n + 1
        <4>1. spot[j] = step
          BY <1>2, <3>1 DEF n
        <4> QED BY <2>4, <4>1, SpotFacts
      <3>2. CASE j \in 2 .. n
        <4>1. spot[j] = Doc.at[j] /\ j \in 2 .. Len(Doc.at)
          BY <1>2, <3>2 DEF n
        <4> QED BY <1>3, <2>4, <4>1 DEF Room
      <3> QED BY <1>a, <3>1, <3>2
    <2> DEFINE frame == Frame(spot, d, depth, Steps(d), keep)
    <2>5. frame.at = spot /\ frame.depth = depth
      BY DEF Frame
    <2> HIDE DEF frame
    <2>6. Room(frame, l.depth)
      BY <2>2, <2>3, <2>4, <2>5 DEF Room
    <2> QED BY <2>6 DEF frame
  <1>10. ASSUME NEW i \in DOMAIN l.frames
         PROVE  Room(l.frames[i], l.depth) /\ (l.frames[i].keep = TRUE => l.frames[i].id \in l.visited)
    <2>1. CASE i \in DOMAIN Level.frames
      <3>1. /\ l.frames[i].at = Level.frames[i].at /\ l.frames[i].id = Level.frames[i].id
            /\ l.frames[i].depth = Level.frames[i].depth /\ l.frames[i].keep = Level.frames[i].keep
        BY <1>0, <2>1, StepDoneSame
      <3>2. Room(Level.frames[i], Level.depth) /\ (Level.frames[i].keep = TRUE => Level.frames[i].id \in Level.visited)
        BY <2>1 DEF InBounds
      <3>3. Room(l.frames[i], Level.depth)
        BY <3>1, <3>2 DEF Room
      <3> QED BY <1>5, <3>1, <3>2, <3>3
    <2>2. CASE i \notin DOMAIN Level.frames
      <3>1. i \in 1 .. Len(l.frames) /\ Len(l.frames) \in Nat
        BY <1>0, StepDoneSame
      <3>2. Entered(l, spot, d, depth, keep) /\ i = Len(Level.frames) + 1
        BY <1>1, <1>4, <2>2, <3>1 DEF Stayed, Entered
      <3>3. l.frames[i] = Frame(spot, d, depth, Steps(d), keep) /\ d \in l.visited
        BY <3>2 DEF Entered
      <3>4. Frame(spot, d, depth, Steps(d), keep).id = d
        BY DEF Frame
      <3> QED BY <1>9, <3>2, <3>3, <3>4
    <2> QED BY <2>1, <2>2
  <1> QED BY <1>8, <1>10 DEF InBounds

LEMMA ShownApart ==
    ASSUME PopTypes, Recursing, Sound(Level), Apart(Level), NEW l, SameBatch(l),
           NEW step \in Doc.todo, NEW d \in Docs, d \notin Level.visited, NEW depth, NEW keep,
           Shown(l, step, d, depth, keep), l.tree \subseteq Entry
    PROVE  Apart(l)
  <1> DEFINE spot == Append(Doc.at, step)
             new  == [at |-> spot, id |-> d]
             last == Len(Level.frames)
  <1>1. /\ last \in Nat /\ last > 0 /\ DOMAIN Level.frames = 1 .. last /\ last \in DOMAIN Level.frames
        /\ Doc = Level.frames[last] /\ Doc.at \in Spot /\ step \in Nat \X Nat
        /\ Level.tree \subseteq Entry
    BY InnermostDoc, SpotFacts DEF Doc, FrameType, LevelType
  <1>2. /\ spot \in Spot /\ Len(Doc.at) \in Nat /\ Len(Doc.at) > 0 /\ Len(spot) = Len(Doc.at) + 1
        /\ \A i \in 1 .. Len(Doc.at) : spot[i] = Doc.at[i]
        /\ spot[Len(Doc.at) + 1] = step
    BY <1>1, BelowFacts
  <1>0. StepDone(l, step)
    BY DEF Shown
  <1>3. /\ l.tree = Level.tree \cup {new} /\ new.at = spot /\ new.id = d
        /\ Stayed(l) \/ Entered(l, spot, d, depth, keep)
    BY DEF Shown, Bare
  <1>4. Level.visited \subseteq l.visited
    BY DEF SameBatch
  <1>5. \A e \in Level.tree : e.at \in Spot /\ ~ IsPrefix(spot, e.at)
    BY <1>1 DEF Apart, Entry
  <1>a. IsPrefix(spot, spot)
    <2> HIDE DEF spot
    <2> QED BY <1>2, PrefixFacts
  <1>6. /\ \A e \in Level.tree : IsPrefix(e.at, spot) => e.id \in Level.visited
        /\ IsPrefix(spot, spot)
    <2>1. ASSUME NEW e \in Level.tree, IsPrefix(e.at, spot) PROVE e.id \in Level.visited
      <3>1. e.at # spot
        BY <1>5, <1>a
      <3>2. IsPrefix(e.at, Doc.at)
        BY <1>1, <1>5, <2>1, <3>1, AboveFacts
      <3> QED BY <1>1, <3>2 DEF Apart
    <2> QED BY <1>1, <2>1, AboveFacts
  <1>7. \A i \in DOMAIN Level.frames : Level.frames[i].at \in Spot /\ ~ IsPrefix(spot, Level.frames[i].at)
    <2>1. \A i \in DOMAIN Level.frames : [at |-> Level.frames[i].at, id |-> Level.frames[i].id] \in Level.tree
      BY DEF Sound
    <2> QED BY <1>5, <2>1
  <1>8. \A i \in DOMAIN Level.frames :
           /\ i \in DOMAIN l.frames
           /\ l.frames[i].at = Level.frames[i].at
           /\ l.frames[i].todo = IF i = last THEN Doc.todo \ {step} ELSE Level.frames[i].todo
    BY <1>0, StepDoneSame
  <1>9. ASSUME NEW i \in DOMAIN l.frames, i \notin DOMAIN Level.frames
        PROVE  /\ i = last + 1 /\ l.frames[i].at = spot /\ l.frames[i].todo = Steps(d)
               /\ l.visited = Level.visited \cup {d}
    <2>1. i \in 1 .. Len(l.frames) /\ Len(l.frames) \in Nat
      BY <1>0, StepDoneSame
    <2>2. Entered(l, spot, d, depth, keep) /\ i = last + 1
      BY <1>1, <1>3, <1>9, <2>1 DEF Stayed, Entered
    <2> QED BY <2>2 DEF Entered, Frame
  <1> HIDE DEF spot, new, last
  <1>10. ASSUME NEW e \in l.tree, NEW g \in l.tree, e.at # g.at, IsPrefix(e.at, g.at)
         PROVE  e.id # g.id
    <2>1. CASE e \in Level.tree /\ g \in Level.tree
      BY <1>10, <2>1 DEF Apart
    <2>2. CASE e \in Level.tree /\ g = new
      BY <1>3, <1>6, <1>10, <2>2
    <2>3. CASE e = new
      BY <1>3, <1>5, <1>10, <2>3
    <2> QED BY <1>3, <2>1, <2>2, <2>3
  <1>11. ASSUME NEW i \in DOMAIN l.frames, NEW e \in l.tree, IsPrefix(e.at, l.frames[i].at)
         PROVE  e.id \in l.visited
    <2>1. CASE i \in DOMAIN Level.frames
      <3>1. e \in Level.tree
        BY <1>3, <1>7, <1>8, <1>11, <2>1
      <3> QED BY <1>4, <1>8, <1>11, <2>1, <3>1 DEF Apart
    <2>2. CASE i \notin DOMAIN Level.frames
      BY <1>3, <1>4, <1>6, <1>9, <1>11, <2>2
    <2> QED BY <2>1, <2>2
  <1>12. ASSUME NEW i \in DOMAIN l.frames, NEW s \in l.frames[i].todo, NEW e \in l.tree,
                IsPrefix(Append(l.frames[i].at, s), e.at)
         PROVE  FALSE
    <2>1. CASE i \in DOMAIN Level.frames
      <3>1. s \in Level.frames[i].todo /\ (i = last => s # step) /\ l.frames[i].at = Level.frames[i].at
        BY <1>1, <1>8, <1>12, <2>1
      <3>2. e = new
        BY <1>3, <1>12, <2>1, <3>1 DEF Apart
      <3>3. Level.frames[i].at \in Spot /\ s \in Nat \X Nat
        <4>1. Underway
          BY DEF Recursing
        <4> QED BY <2>1, <3>1, <4>1, FrameFacts
      <3>4. IsPrefix(Append(Level.frames[i].at, s), spot)
        BY <1>3, <1>12, <3>1, <3>2
      <3>5. spot[Len(Level.frames[i].at) + 1] = s
        BY <1>2, <3>3, <3>4, AboveFacts
      <3>6. CASE i = last
        BY <1>1, <1>2, <3>1, <3>5, <3>6
      <3>7. CASE i # last
        <4>1. i < last
          BY <1>1, <2>1, <3>7
        <4>2. /\ Len(Level.frames[i].at) < Len(Doc.at)
              /\ Doc.at[Len(Level.frames[i].at) + 1] \notin Level.frames[i].todo
          BY <1>1, <2>1, <4>1 DEF Apart
        <4>3. Len(Level.frames[i].at) + 1 \in 1 .. Len(Doc.at)
          <5>1. Len(Level.frames[i].at) \in Nat
            BY <3>3 DEF Spot
          <5> QED BY <1>2, <4>2, <5>1
        <4> QED BY <1>2, <3>1, <3>5, <4>2, <4>3
      <3> QED BY <3>6, <3>7
    <2>2. CASE i \notin DOMAIN Level.frames
      <3>1. l.frames[i].at = spot /\ s \in Nat \X Nat
        BY <1>9, <2>2, StepsType
      <3>2. IsPrefix(Append(spot, s), e.at) /\ e.at \in Spot
        BY <1>2, <1>3, <1>5, <1>12, <3>1
      <3>a. IsPrefix(spot, e.at)
        BY <1>1, <3>1, <3>2, AboveFacts DEF spot
      <3>b. ~ IsPrefix(Append(spot, s), spot)
        BY <1>1, <3>1, AboveFacts DEF spot
      <3>3. IsPrefix(spot, e.at) /\ e.at # spot
        BY <3>2, <3>a, <3>b
      <3> QED BY <1>3, <1>5, <3>3
    <2> QED BY <2>1, <2>2
  <1>13. ASSUME NEW i \in DOMAIN l.frames, NEW j \in DOMAIN l.frames, i < j
         PROVE  /\ Len(l.frames[i].at) < Len(l.frames[j].at)
                /\ l.frames[j].at[Len(l.frames[i].at) + 1] \notin l.frames[i].todo
    <2>1. CASE i \in DOMAIN Level.frames /\ j \in DOMAIN Level.frames
      <3>1. l.frames[i].todo \subseteq Level.frames[i].todo
        BY <1>1, <1>8, <2>1
      <3> QED BY <1>8, <1>13, <2>1, <3>1 DEF Apart
    <2>2. CASE i \in DOMAIN Level.frames /\ j \notin DOMAIN Level.frames
      <3>1. l.frames[j].at = spot /\ l.frames[i].at = Level.frames[i].at
        BY <1>8, <1>9, <2>2
      <3>2. CASE i = last
        BY <1>1, <1>2, <1>8, <2>2, <3>1, <3>2
      <3>3. CASE i # last
        <4>1. i < last
          BY <1>1, <2>2, <3>3
        <4>2. /\ Len(Level.frames[i].at) < Len(Doc.at)
              /\ Doc.at[Len(Level.frames[i].at) + 1] \notin Level.frames[i].todo
          BY <1>1, <2>2, <4>1 DEF Apart
        <4>3. Len(Level.frames[i].at) \in Nat
          BY <1>7, <2>2 DEF Spot
        <4>4. Len(Level.frames[i].at) + 1 \in 1 .. Len(Doc.at)
          BY <1>2, <4>2, <4>3
        <4>5. l.frames[i].todo = Level.frames[i].todo
          BY <1>8, <2>2, <3>3
        <4> QED BY <1>2, <3>1, <4>2, <4>3, <4>4, <4>5
      <3> QED BY <3>2, <3>3
    <2>3. CASE i \notin DOMAIN Level.frames
      <3>1. i = last + 1
        BY <1>9, <2>3
      <3>2. j \in DOMAIN Level.frames \/ j = last + 1
        BY <1>9
      <3> QED BY <1>1, <1>13, <3>1, <3>2
    <2> QED BY <2>1, <2>2, <2>3
  <1> QED BY <1>10, <1>11, <1>12, <1>13 DEF Apart

\* Nothing is shown, or a document is populated.
LEMMA QuietSingle ==
    ASSUME PopTypes, Recursing, InBounds(Level), NEW l, SameBatch(l),
           l.tree = Level.tree, l.visited = Level.visited,
           \A i \in DOMAIN l.frames :
              /\ i \in DOMAIN Level.frames
              /\ l.frames[i].at = Level.frames[i].at /\ l.frames[i].id = Level.frames[i].id
              /\ l.frames[i].depth = Level.frames[i].depth /\ l.frames[i].keep = Level.frames[i].keep
              /\ l.frames[i].todo \subseteq Level.frames[i].todo
    PROVE  InBounds(l) /\ (Apart(Level) => Apart(l))
  <1>1. l.depth = Level.depth
    BY DEF SameBatch
  <1>2. InBounds(l)
    <2>1. \A e \in l.tree : DeepEnough(e, l.depth)
      BY <1>1 DEF InBounds
    <2>2. ASSUME NEW i \in DOMAIN l.frames
          PROVE  Room(l.frames[i], l.depth) /\ (l.frames[i].keep = TRUE => l.frames[i].id \in l.visited)
      <3>1. /\ i \in DOMAIN Level.frames
            /\ l.frames[i].at = Level.frames[i].at /\ l.frames[i].id = Level.frames[i].id
            /\ l.frames[i].depth = Level.frames[i].depth /\ l.frames[i].keep = Level.frames[i].keep
        OBVIOUS
      <3>2. Room(Level.frames[i], Level.depth) /\ (Level.frames[i].keep = TRUE => Level.frames[i].id \in Level.visited)
        BY <3>1 DEF InBounds
      <3>3. Room(l.frames[i], Level.depth)
        BY <3>1, <3>2 DEF Room
      <3> QED BY <1>1, <3>1, <3>2, <3>3
    <2> QED BY <2>1, <2>2 DEF InBounds
  <1>3. ASSUME Apart(Level) PROVE Apart(l)
    <2>1. \A e \in l.tree : \A g \in l.tree : e.at # g.at /\ IsPrefix(e.at, g.at) => e.id # g.id
      BY <1>3 DEF Apart
    <2>2. \A i \in DOMAIN l.frames : \A e \in l.tree : IsPrefix(e.at, l.frames[i].at) => e.id \in l.visited
      BY <1>3 DEF Apart
    <2>3. \A i \in DOMAIN l.frames : \A s \in l.frames[i].todo : \A e \in l.tree :
             ~ IsPrefix(Append(l.frames[i].at, s), e.at)
      BY <1>3 DEF Apart
    <2>4. ASSUME NEW i \in DOMAIN l.frames, NEW j \in DOMAIN l.frames, i < j
          PROVE  /\ Len(l.frames[i].at) < Len(l.frames[j].at)
                 /\ l.frames[j].at[Len(l.frames[i].at) + 1] \notin l.frames[i].todo
      <3>1. /\ Len(Level.frames[i].at) < Len(Level.frames[j].at)
            /\ Level.frames[j].at[Len(Level.frames[i].at) + 1] \notin Level.frames[i].todo
        BY <1>3, <2>4 DEF Apart
      <3> QED BY <3>1
    <2> QED BY <2>1, <2>2, <2>3, <2>4 DEF Apart
  <1> QED BY <1>2, <1>3

LEMMA ShownSingle ==
    ASSUME PopTypes, Recursing, Sound(Level), Single(Level, cache), NEW l, SameBatch(l),
           NEW step \in Doc.todo, NEW d \in Docs, step[1] # JoinField => d \notin Level.visited,
           NEW depth \in Int, NEW keep \in BOOLEAN,
           Shown(l, step, d, depth, keep), depth <= Doc.depth - 1,
           step[1] # JoinField => depth < schema.fields[step[1]].cap,
           NEW held, Fresh(held, l.visited)
    PROVE  Single(l, held)
  <1>1. InBounds(Level) /\ l.todo = {}
    BY DEF Single, SameBatch
  <1>2. InBounds(l)
    BY <1>1, ShownInBounds
  <1>3. ASSUME schema.join = FALSE PROVE Apart(l)
    <2>1. d \notin Level.visited
      BY <1>3, SpotFacts
    <2>2. Apart(Level)
      BY <1>3 DEF Single
    <2>3. l.tree \subseteq Entry
      BY DEF SameBatch, LevelType
    <2> QED BY <2>1, <2>2, <2>3, ShownApart
  <1> QED BY <1>1, <1>2, <1>3 DEF Single

LEMMA RecursionSingle ==
    ASSUME PopTypes, Recursing, Sound(Level), Single(Level, cache), NEW l, Recursion(l)
    PROVE  Single(l, cache')
  <1>1. SameBatch(l) /\ l.todo = {} /\ Level.visited \subseteq l.visited
    BY DEF Recursion, SameBatch, Single
  <1>2. /\ Len(Level.frames) \in Nat /\ Len(Level.frames) > 0 /\ DOMAIN Level.frames = 1 .. Len(Level.frames)
        /\ Doc = Level.frames[Len(Level.frames)] /\ Doc.depth \in Nat /\ Doc.depth > 0
    BY InnermostDoc DEF Doc, FrameType
  <1>3. Fresh(cache, l.visited) /\ InBounds(Level) /\ (schema.join = FALSE => Apart(Level))
    BY <1>1 DEF Single, Fresh
  <1>4. ASSUME NEW step \in Doc.todo, DidStay(l, step) PROVE Single(l, cache')
    <2>1. StepDone(l, step) /\ Stayed(l)
      BY <1>4 DEF DidStay
    <2>2. l.tree = Level.tree /\ l.visited = Level.visited /\ cache' = cache
      BY <1>4 DEF DidStay, Stayed
    <2>3. DOMAIN l.frames = DOMAIN Level.frames
      BY <1>2, <2>1, StepDoneSame DEF Stayed
    <2>4. \A i \in DOMAIN l.frames :
             /\ i \in DOMAIN Level.frames
             /\ l.frames[i].at = Level.frames[i].at /\ l.frames[i].id = Level.frames[i].id
             /\ l.frames[i].depth = Level.frames[i].depth /\ l.frames[i].keep = Level.frames[i].keep
             /\ l.frames[i].todo \subseteq Level.frames[i].todo
      <3> SUFFICES ASSUME NEW i \in DOMAIN Level.frames
                   PROVE  /\ l.frames[i].at = Level.frames[i].at /\ l.frames[i].id = Level.frames[i].id
                          /\ l.frames[i].depth = Level.frames[i].depth /\ l.frames[i].keep = Level.frames[i].keep
                          /\ l.frames[i].todo \subseteq Level.frames[i].todo
        BY <2>3
      <3>1. l.frames[i].todo = IF i = Len(Level.frames) THEN Doc.todo \ {step} ELSE Level.frames[i].todo
        BY <2>1, StepDoneSame
      <3>2. l.frames[i].todo \subseteq Level.frames[i].todo
        BY <1>2, <3>1
      <3> QED BY <2>1, <3>2, StepDoneSame
    <2>5. InBounds(l) /\ (Apart(Level) => Apart(l))
      BY <1>1, <1>3, <2>2, <2>4, QuietSingle
    <2> QED BY <1>1, <1>3, <2>2, <2>5 DEF Single
  <1>5. ASSUME NEW step \in Doc.todo, DidTake(l, step) PROVE Single(l, cache')
    <2>1. /\ StepDone(l, step) /\ Stayed(l) /\ cache' = cache
          /\ l.tree = Level.tree \cup Graft(cache[Ref(step)], Append(Doc.at, step))
          /\ Ref(step) \in Docs \ Level.visited /\ cache[Ref(step)] # Nothing /\ step[1] # JoinField
      BY <1>5 DEF DidTake, Wanting, InCache
    <2>2. cache[Ref(step)] = Bare(Ref(step), <<Ref(step)>>)
      BY <2>1 DEF Single, Fresh
    <2>3. Append(Doc.at, step) \in Spot
      BY SpotFacts
    <2>4. Graft(cache[Ref(step)], Append(Doc.at, step)) = Bare(Ref(step), Append(Doc.at, step))
      BY <2>1, <2>2, <2>3, GraftBare
    <2> DEFINE zero == 0
               no   == FALSE
    <2>5. Shown(l, step, Ref(step), zero, no)
      BY <2>1, <2>4 DEF Shown
    <2>6. zero <= Doc.depth - 1 /\ zero < schema.fields[step[1]].cap /\ zero \in Int /\ no \in BOOLEAN
      <3>1. step[1] \in DOMAIN schema.fields
        BY <2>1, SpotFacts
      <3> QED BY <1>2, <3>1, SchemaFacts
    <2>7. Fresh(cache', l.visited)
      BY <1>3, <2>1
    <2> HIDE DEF zero, no
    <2> QED BY <1>1, <2>1, <2>5, <2>6, <2>7, ShownSingle
  <1>6. ASSUME NEW step \in Doc.todo, DidFetch(l, step) PROVE Single(l, cache')
    <2> DEFINE left == Left(step[1], Doc.depth) - 1
    <2>1. step[1] # JoinField /\ Ref(step) \in Docs \ Level.visited
      BY <1>6 DEF DidFetch, Wanting
    <2>2. /\ step[1] \in DOMAIN schema.fields /\ left \in Int /\ left <= Doc.depth - 1
          /\ left < schema.fields[step[1]].cap
      <3>1. /\ step[1] \in DOMAIN schema.fields /\ Left(step[1], Doc.depth) \in Nat \ {0}
            /\ Left(step[1], Doc.depth) <= Doc.depth
            /\ Left(step[1], Doc.depth) <= schema.fields[step[1]].cap
        BY <2>1, SpotFacts
      <3>2. schema.fields[step[1]].cap \in Nat
        BY <3>1, SchemaFacts
      <3> QED BY <1>2, <3>1, <3>2
    <2>3. /\ Shown(l, step, Ref(step), left, TRUE)
          /\ cache' = cache \/ cache' = [cache EXCEPT ![Ref(step)] = Bare(Ref(step), <<Ref(step)>>)]
      BY <1>6 DEF DidFetch
    <2>4. Fresh(cache', l.visited)
      <3> DEFINE tree == Bare(Ref(step), <<Ref(step)>>)
      <3>1. tree \in SUBSET Entry
        BY <2>1, RootSpot, BareType
      <3>2. cache' = cache \/ cache' = [cache EXCEPT ![Ref(step)] = tree]
        BY <2>3
      <3>3. ASSUME cache' = [cache EXCEPT ![Ref(step)] = tree]
            PROVE  cache'[Ref(step)] = tree /\ \A x \in Docs : x # Ref(step) => cache'[x] = cache[x]
        <4> HIDE DEF tree
        <4> QED BY <2>1, <3>1, <3>3, CachePut
      <3> QED BY <1>3, <3>2, <3>3 DEF Fresh
    <2> HIDE DEF left
    <2> QED BY <1>1, <2>1, <2>2, <2>3, <2>4, ShownSingle
  <1>7. ASSUME NEW step \in Doc.todo, DidJoin(l, step) PROVE Single(l, cache')
    <2>1. /\ step[1] = JoinField /\ cache' = cache
          /\ Shown(l, step, Order[step[2]], Doc.depth - 1, FALSE)
      BY <1>7 DEF DidJoin
    <2>2. Order[step[2]] \in Docs
      BY <2>1, SpotFacts
    <2>3. Fresh(cache', l.visited) /\ Doc.depth - 1 \in Int /\ Doc.depth - 1 <= Doc.depth - 1
      BY <1>2, <1>3, <2>1
    <2> QED BY <1>1, <2>1, <2>2, <2>3, ShownSingle
  <1>8. ASSUME DidEnd(l) PROVE Single(l, cache')
    <2>1. DOMAIN l.frames = 1 .. Len(Level.frames) - 1 /\ l.tree = Level.tree /\ l.visited = Level.visited
      BY <1>1, <1>2, <1>8 DEF DidEnd, SameBatch, LevelType
    <2>2. \A i \in DOMAIN l.frames : i \in DOMAIN Level.frames /\ l.frames[i] = Level.frames[i]
      BY <1>2, <1>8, <2>1 DEF DidEnd
    <2>3. InBounds(l) /\ (Apart(Level) => Apart(l))
      BY <1>1, <1>3, <2>1, <2>2, QuietSingle
    <2>4. Fresh(cache', l.visited)
      <3> DEFINE tree == Cut(Level.tree, Doc.at, Doc.id)
      <3>1. Doc.id \in Docs /\ Doc.at \in Spot /\ Level.tree \in SUBSET Entry
        BY InnermostDoc DEF FrameType, LevelType
      <3>2. tree \in SUBSET Entry
        BY <3>1, CutType
      <3>3. IF Doc.keep THEN cache' = [cache EXCEPT ![Doc.id] = tree] ELSE cache' = cache
        BY <1>8 DEF DidEnd
      <3> HIDE DEF tree
      <3>4. CASE ~ Doc.keep
        BY <1>3, <3>3, <3>4
      <3>5. CASE Doc.keep
        <4>0. cache' = [cache EXCEPT ![Doc.id] = tree]
          BY <3>3, <3>5
        <4>1. \A x \in Docs : x # Doc.id => cache'[x] = cache[x]
          BY <3>1, <3>2, <4>0, CachePut
        <4>2. Doc.id \in l.visited
          <5>1. Len(Level.frames) \in DOMAIN Level.frames /\ Doc.keep = TRUE
            BY <1>2, <3>5, InnermostDoc DEF FrameType
          <5> QED BY <1>2, <1>3, <2>1, <5>1 DEF InBounds
        <4> QED BY <1>3, <4>1, <4>2 DEF Fresh
      <3> QED BY <3>4, <3>5
    <2> QED BY <1>1, <1>3, <2>3, <2>4 DEF Single
  <1> QED BY <1>4, <1>5, <1>6, <1>7, <1>8 DEF Recursion

\* A read by id with a cache of its own.
ById(stack) == stack[1].how = "by_id"

Bounded ==
    /\ ~ shared /\ ~ Underway => Little(cache)
    /\ ~ shared /\ Underway => (ById(levels) => Len(levels) = 1 /\ Single(levels[1], cache))
    /\ DepthKept

LEMMA SingleMoved ==
    ASSUME schema' = schema, refs' = refs
    PROVE  /\ Single(levels[1], cache)' <=> Single(levels'[1], cache')
           /\ Little(cache)' <=> Little(cache')
  BY DEF Single, Fresh, Little, InBounds, Apart, Room, DeepEnough, JoinField

LEMMA DepthSame ==
    ASSUME DepthKept, schema' = schema, answer' = answer, shared' = shared
    PROVE  DepthKept'
  BY DEF DepthKept, DeepEnough, InItself, JoinField

\* A step of a read.
LEMMA BoundedOn ==
    ASSUME PopTypes, Bounded, Underway, Underway', UNCHANGED around,
           ById(levels') => ById(levels),
           ById(levels) /\ Len(levels) = 1 /\ Single(levels[1], cache) =>
              Len(levels') = 1 /\ Single(levels'[1], cache')
    PROVE  Bounded'
  <1>1. schema' = schema /\ refs' = refs /\ answer' = answer /\ shared' = shared
    BY DEF around
  <1>2. DepthKept'
    BY <1>1, DepthSame DEF Bounded
  <1>3. ASSUME ~ shared', ById(levels)' PROVE (Len(levels) = 1 /\ Single(levels[1], cache))'
    <2>1. ~ shared /\ ById(levels)
      BY <1>1, <1>3 DEF ById
    <2>2. Len(levels') = 1 /\ Single(levels'[1], cache')
      BY <2>1 DEF Bounded
    <2> QED BY <1>1, <2>2, SingleMoved
  <1> QED BY <1>2, <1>3 DEF Bounded

LEMMA PopulateBounded ==
    ASSUME PopTypes, Complete, Bounded, Populate
    PROVE  Bounded'
  <1>1. Recursing /\ Underway
    BY PopulateIsRecursion DEF Recursing
  <1>2. PICK l : Recursion(l)
    BY PopulateIsRecursion
  <1>3. l \in LevelType /\ Became(l) /\ l.how = Level.how /\ UNCHANGED around
    BY <1>2 DEF Recursion, SameBatch
  <1>4. /\ levels' \in Seq(LevelType) /\ levels'[Len(levels)] = l /\ Len(levels') = Len(levels)
        /\ \A n \in DOMAIN levels : n # Len(levels) => levels'[n] = levels[n]
    BY <1>1, <1>3, BecameFacts
  <1>5. Len(levels) \in Nat /\ Len(levels) > 0 /\ DOMAIN levels = 1 .. Len(levels)
    BY <1>1, Innermost
  <1>6. ById(levels') => ById(levels)
    BY <1>3, <1>4, <1>5 DEF Level, ById
  <1>7. Underway'
    <2>1. levels' # <<>>
      BY <1>4, <1>5, UnderwayLen
    <2> QED BY <2>1 DEF Underway
  <1>8. ASSUME Len(levels) = 1, Single(levels[1], cache)
        PROVE  Len(levels') = 1 /\ Single(levels'[1], cache')
    <2>1. Single(Level, cache)
      BY <1>8 DEF Level
    <2>2. Sound(Level)
      BY <1>5 DEF Complete, Level
    <2>3. Single(l, cache')
      BY <1>1, <1>2, <2>1, <2>2, RecursionSingle
    <2> QED BY <1>4, <1>8, <2>3
  <1> QED BY <1>1, <1>3, <1>6, <1>7, <1>8, BoundedOn

LEMMA QueryFieldBounded ==
    ASSUME PopTypes, Bounded, Underway, Level.frames = <<>>, NEW step \in Level.todo,
           IsFirst(step, Level.todo), QueryField(step)
    PROVE  Bounded'
  <1>1. PICK b \in LevelType : levels' = Append(levels, b)
    BY QueryFieldFacts
  <1>2. UNCHANGED around
    BY QueryFieldFacts
  <1>3. Len(levels) \in Nat /\ Len(levels) > 0 /\ DOMAIN levels = 1 .. Len(levels) /\ levels \in Seq(LevelType)
    BY Innermost DEF PopTypes
  <1>4. /\ levels' \in Seq(LevelType) /\ Len(levels') = Len(levels) + 1
        /\ \A n \in 1 .. Len(levels) : levels'[n] = levels[n]
    BY <1>1, <1>3, AppendProperties
  <1>5. Underway'
    <2>1. levels' # <<>>
      BY <1>3, <1>4, UnderwayLen
    <2> QED BY <2>1 DEF Underway
  <1>6. ById(levels') => ById(levels)
    BY <1>3, <1>4 DEF ById
  <1>7. ~ (Len(levels) = 1 /\ Single(levels[1], cache))
    BY DEF Single, Level
  <1> QED BY <1>2, <1>5, <1>6, <1>7, BoundedOn

LEMMA OneDocumentBounded ==
    ASSUME PopTypes, Bounded, Underway, Level.frames = <<>>, NEW step \in Level.todo, OneDocument(step)
    PROVE  Bounded'
  <1>1. PICK l \in LevelType : Became(l) /\ l.how = Level.how
    BY OneDocumentFacts
  <1>2. UNCHANGED around
    BY OneDocumentFacts
  <1>3. /\ levels' \in Seq(LevelType) /\ levels'[Len(levels)] = l /\ Len(levels') = Len(levels)
        /\ \A n \in DOMAIN levels : n # Len(levels) => levels'[n] = levels[n]
    BY <1>1, BecameFacts
  <1>4. Len(levels) \in Nat /\ Len(levels) > 0 /\ DOMAIN levels = 1 .. Len(levels)
    BY Innermost
  <1>5. ById(levels') => ById(levels)
    BY <1>1, <1>3, <1>4 DEF Level, ById
  <1>6. Underway'
    <2>1. levels' # <<>>
      BY <1>3, <1>4, UnderwayLen
    <2> QED BY <2>1 DEF Underway
  <1>7. ~ (Len(levels) = 1 /\ Single(levels[1], cache))
    BY DEF Single, Level
  <1> QED BY <1>2, <1>5, <1>6, <1>7, BoundedOn

LEMMA ReturnBounded ==
    ASSUME PopTypes, Bounded, Underway, Len(levels) > 1, Return
    PROVE  Bounded'
  <1>1. PICK n \in Nat : n > 0 /\ Len(levels) = n + 1
    <2>1. Len(levels) \in Nat
      BY Innermost
    <2>2. Len(levels) - 1 \in Nat /\ Len(levels) - 1 > 0 /\ Len(levels) = (Len(levels) - 1) + 1
      BY <2>1
    <2> QED BY <2>2
  <1>2. /\ Len(levels') = n /\ UNCHANGED around
        /\ \A m \in 1 .. n - 1 : levels'[m] = levels[m]
    BY <1>1, ReturnFacts
  <1>3. PICK step : Received(levels[n], step, levels'[n])
    BY <1>1, ReturnFacts
  <1>4. ById(levels') => ById(levels)
    <2>1. CASE n = 1
      BY <1>3, <2>1 DEF Received, ById
    <2>2. CASE n # 1
      <3>1. 1 \in 1 .. n - 1
        BY <1>1, <2>2
      <3> QED BY <1>2, <3>1 DEF ById
    <2> QED BY <2>1, <2>2
  <1>5. Underway'
    <2>1. levels' # <<>>
      BY <1>1, <1>2, UnderwayLen
    <2> QED BY <2>1 DEF Underway
  <1>6. ~ (Len(levels) = 1)
    BY <1>1
  <1> QED BY <1>2, <1>4, <1>5, <1>6, BoundedOn

LEMMA PopulateBatchBounded ==
    ASSUME PopTypes, Bounded, PopulateBatch
    PROVE  Bounded'
  <1>1. Underway /\ Level.frames = <<>>
    BY DEF PopulateBatch, Underway
  <1>2. CASE \E step \in Level.todo : IsFirst(step, Level.todo) /\ QueryField(step)
    BY <1>1, <1>2, QueryFieldBounded
  <1>3. CASE \E step \in Level.todo : OneDocument(step)
    BY <1>1, <1>3, OneDocumentBounded
  <1>4. CASE Len(levels) > 1 /\ Return
    BY <1>1, <1>4, ReturnBounded
  <1> QED BY <1>2, <1>3, <1>4 DEF PopulateBatch

LEMMA RootInBounds ==
    ASSUME NEW depth \in Nat, NEW x, Len(x.at) = 1
    PROVE  DeepEnough(x, depth) /\ (x.depth = depth => Room(x, depth))
  BY DEF DeepEnough, Room

\* The batch a read by id starts with.
LEMMA ByIdSingle ==
    ASSUME PopTypes, Little(cache), NEW d \in Docs, NEW depth \in Nat, depth > 0, NEW b, NEW frame,
           frame = Frame(<<d>>, d, depth, Steps(d), FALSE),
           b.depth = depth, b.todo = {}, b.frames = <<frame>>, b.tree = Bare(d, <<d>>), b.visited = {d}
    PROVE  Single(b, cache)
  <1> DEFINE root == <<d>>
             e    == [at |-> root, id |-> d]
  <1>1. root \in Spot /\ Len(root) = 1
    BY RootSpot
  <1>2. /\ frame.at = root /\ frame.id = d /\ frame.todo = Steps(d) /\ frame.depth = depth
        /\ frame.keep = FALSE
    BY DEF Frame
  <1>3. DOMAIN b.frames = {1} /\ b.frames[1] = frame
    OBVIOUS
  <1>4. b.tree = {e} /\ e.at = root /\ e.id = d
    BY DEF Bare
  <1> HIDE DEF e, root
  <1>5. InBounds(b)
    <2>1. DeepEnough(e, depth)
      BY <1>1, <1>4, RootInBounds
    <2>2. Room(frame, depth)
      BY <1>1, <1>2, RootInBounds
    <2> QED BY <1>2, <1>3, <1>4, <2>1, <2>2 DEF InBounds
  <1>6. Apart(b)
    <2>1. \A s \in Steps(d) : ~ IsPrefix(Append(root, s), root)
      <3> SUFFICES ASSUME NEW s \in Steps(d) PROVE ~ IsPrefix(Append(root, s), root)
        OBVIOUS
      <3>1. s \in Nat \X Nat
        BY StepsType
      <3> QED BY <1>1, <3>1, AboveFacts
    <2>2. \A x \in b.tree : \A g \in b.tree : x.at = g.at
      BY <1>4
    <2>3. \A i \in DOMAIN b.frames : \A x \in b.tree : x.id \in b.visited
      BY <1>4
    <2>4. \A i \in DOMAIN b.frames : \A s \in b.frames[i].todo : \A x \in b.tree :
             ~ IsPrefix(Append(b.frames[i].at, s), x.at)
      BY <1>2, <1>3, <1>4, <2>1
    <2>5. \A i \in DOMAIN b.frames : \A j \in DOMAIN b.frames : ~ i < j
      BY <1>3
    <2> QED BY <2>2, <2>3, <2>4, <2>5 DEF Apart
  <1>7. Fresh(cache, b.visited)
    BY DEF Fresh, Little
  <1> QED BY <1>5, <1>6, <1>7 DEF Single

LEMMA StartBounded ==
    ASSUME PopTypes, Bounded, NEW b \in LevelType, Start(b),
           Little(cache) /\ b.how = "by_id" => Single(b, cache)
    PROVE  Bounded'
  <1> DEFINE one == <<b>>
  <1>1. /\ levels' = one /\ schema' = schema /\ refs' = refs /\ cache' = cache /\ shared' = shared
        /\ answer' = Unread /\ ~ Underway
    BY DEF Start, MayRead, Underway
  <1>2. Len(one) = 1 /\ one[1] = b
    OBVIOUS
  <1> HIDE DEF one
  <1>3. Underway'
    <2>1. levels' # <<>>
      BY <1>1, <1>2, UnderwayLen
    <2> QED BY <2>1 DEF Underway
  <1>4. DepthKept'
    <2>1. answer'.how = "none"
      BY <1>1 DEF Unread
    <2> QED BY <2>1 DEF DepthKept
  <1>5. ASSUME ~ shared', ById(levels)' PROVE (Len(levels) = 1 /\ Single(levels[1], cache))'
    <2>1. Little(cache)
      BY <1>1, <1>5 DEF Bounded
    <2>2. b.how = "by_id"
      BY <1>1, <1>2, <1>5 DEF ById
    <2>3. Single(b, cache)
      BY <2>1, <2>2
    <2>4. Len(levels') = 1 /\ Single(levels'[1], cache')
      BY <1>1, <1>2, <2>3
    <2> QED BY <1>1, <2>4, SingleMoved
  <1> QED BY <1>3, <1>4, <1>5 DEF Bounded

LEMMA AnswerBounded ==
    ASSUME PopTypes, Bounded, Answer
    PROVE  Bounded'
  <1> DEFINE none == <<>>
  <1>1. /\ levels' = none /\ schema' = schema /\ refs' = refs /\ shared' = shared
        /\ answer'.how = Level.how /\ answer'.tree = Level.tree /\ answer'.depth = Level.depth
        /\ cache' = IF shared THEN cache ELSE Empty
    BY DEF Answer
  <1>2. ~ Underway'
    BY <1>1 DEF Underway
  <1> HIDE DEF none
  <1>3. Underway
    BY DEF Answer, Underway
  <1>4. Level = levels[1]
    BY DEF Answer, Level
  <1>5. ASSUME Level.how = "by_id", ~ shared
        PROVE  /\ \A e \in Level.tree : DeepEnough(e, Level.depth)
               /\ ~ schema.join => ~ InItself(Level.tree)
    <2>1. Single(Level, cache)
      BY <1>3, <1>4, <1>5 DEF Bounded, ById
    <2>2. ASSUME ~ schema.join PROVE ~ InItself(Level.tree)
      <3>1. schema.join = FALSE
        BY <2>2, SchemaFacts
      <3> QED BY <2>1, <3>1 DEF Single, Apart, InItself
    <2> QED BY <2>1, <2>2 DEF Single, InBounds
  <1>6. DepthKept'
    <2>1. \A e : DeepEnough(e, answer.depth)' <=> DeepEnough(e, answer'.depth)
      BY <1>1 DEF DeepEnough, JoinField
    <2> QED BY <1>1, <1>5, <2>1 DEF DepthKept, InItself
  <1>7. ~ shared' => Little(cache)'
    BY <1>1, LittleEmpty, SingleMoved
  <1> QED BY <1>2, <1>6, <1>7 DEF Bounded

LEMMA PopulationInitBounded == PopulationInit => Bounded
  <1> SUFFICES ASSUME PopulationInit PROVE Bounded
    OBVIOUS
  <1>1. ~ Underway /\ answer.how = "none"
    BY DEF PopulationInit, Unread, Underway
  <1>2. Little(cache)
    BY LittleEmpty DEF PopulationInit
  <1> QED BY <1>1, <1>2 DEF Bounded, DepthKept

LEMMA BoundedStep == PopTypes /\ Complete /\ Bounded /\ [PopulationNext]_populationVars => Bounded'
  <1> SUFFICES ASSUME PopTypes, Complete, Bounded, [PopulationNext]_populationVars PROVE Bounded'
    OBVIOUS
  <1>0. MaxDepth \in Nat
    BY PopulationAssumption
  <1>1. ASSUME NEW depth \in 1 .. MaxDepth, NEW d \in Docs, FindById(d, depth) PROVE Bounded'
    <2>1. depth \in Nat /\ depth > 0
      BY <1>0
    <2> DEFINE frame == Frame(<<d>>, d, depth, Steps(d), FALSE)
               b     == Batch("by_id", {d}, depth, {}, <<frame>>)
    <2>2. Start(b)
      BY <1>1 DEF FindById
    <2>3. /\ b \in LevelType /\ b.depth = depth /\ b.todo = {} /\ b.frames = <<frame>>
          /\ b.tree = Bare(d, <<d>>) /\ b.visited = {d}
      BY <2>1, ByIdFacts
    <2> HIDE DEF b
    <2>4. Little(cache) => Single(b, cache)
      BY <2>1, <2>3, ByIdSingle
    <2> QED BY <2>2, <2>3, <2>4, StartBounded
  <1>2. ASSUME NEW depth \in 1 .. MaxDepth, NEW ds \in (SUBSET Docs) \ {{}}, Find(ds, depth) PROVE Bounded'
    <2>1. depth \in Nat /\ depth > 0 /\ ds \in SUBSET Docs
      BY <1>0
    <2> DEFINE b == Batch("list", ds, depth, BatchSteps(ds, depth), <<>>)
    <2>2. Start(b)
      BY <1>2 DEF Find
    <2>3. b \in LevelType
      BY <2>1, ListType
    <2>4. b.how = "list"
      BY DEF Batch
    <2> HIDE DEF b
    <2>5. b.how # "by_id"
      BY <2>4
    <2> QED BY <2>2, <2>3, <2>5, StartBounded
  <1>3. CASE UNCHANGED populationVars
    <2>1. /\ schema' = schema /\ refs' = refs /\ cache' = cache /\ levels' = levels /\ answer' = answer
          /\ shared' = shared
      BY <1>3 DEF populationVars, around
    <2>2. DepthKept'
      BY <2>1, DepthSame DEF Bounded
    <2>3. (Underway <=> Underway') /\ (ById(levels)' <=> ById(levels))
      BY <2>1 DEF Underway, ById
    <2>4. ASSUME ~ shared', Underway', ById(levels)' PROVE (Len(levels) = 1 /\ Single(levels[1], cache))'
      <3>1. Len(levels') = 1 /\ Single(levels'[1], cache')
        BY <2>1, <2>3, <2>4 DEF Bounded
      <3> QED BY <2>1, <3>1, SingleMoved
    <2>5. ASSUME ~ shared', ~ Underway' PROVE Little(cache)'
      <3>1. Little(cache')
        BY <2>1, <2>3, <2>5 DEF Bounded
      <3> QED BY <2>1, <3>1, SingleMoved
    <2> QED BY <2>2, <2>4, <2>5 DEF Bounded
  <1> QED BY <1>1, <1>2, <1>3, PopulateBounded, PopulateBatchBounded, AnswerBounded DEF PopulationNext

\* A read by id that has a cache of its own shows no more levels than it was
\* asked for or a max_depth allows, and no document in itself where there is
\* no join field: what the cache holds with something below it has been
\* visited, so what populate_relationships_cached takes from the cache is a
\* document by itself.
THEOREM DepthIsKept == PopulationSpec => []DepthKept
  <1>1. Bounded => DepthKept
    BY DEF Bounded
  <1> QED BY <1>1, PopulationInitComplete, CompleteStep, PopulationInitBounded, BoundedStep, PopulationTypes, PTL
          DEF PopulationSpec
=============================================================================
