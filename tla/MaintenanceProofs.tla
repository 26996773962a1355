------------------------- MODULE MaintenanceProofs -------------------------
(***************************************************************************)
(* Proofs about what deployments do to the database, for any locales,      *)
(* definitions, files, processes, documents and numbers of writes: about   *)
(* Locales that texts and rows stay with their locale, that what was       *)
(* written is read, that the tables take valid writes, and that the index  *)
(* has no text that is gone; about Migrations that the records tell what   *)
(* has run; about Rules that a rule holds but where it was left out.       *)
(***************************************************************************)
EXTENDS Locales, Migrations, Rules, FiniteSetTheorems, TLAPS

\* Before there is a _locale column nothing has a locale.
RowsWithoutLocale ==
    /\ LocalizedTags(served) => byLocale
    /\ ~byLocale =>
         /\ \A r \in rows : r.for = Plain
         /\ saved # None => \A r \in saved.rows : r.for = Plain
         /\ strays = {}

\* Where reads and writes agree on the column, it holds what was accepted,
\* unless a restore or a cleanup took that away; and so does a version.
Accepted == ~grouped => \A s \in Slots \ Lost : cell[s] = told[s]
VersionExact ==
    ~grouped /\ saved # None /\ saved.of # None => ~saved.each /\ saved.title = saved.told

\* A cleanup lists no column of the definition that it has loaded.
ListsUnnamed == cleaning # None => cleaning \cap named = {}

LocalesInv ==
    /\ LocalesTypeOK /\ RowsWithoutLocale /\ LanguagesApart
    /\ Accepted /\ VersionExact /\ ListsUnnamed

\* The parts of the type invariant that the actions touch separately.
ContentTypes ==
    /\ cell \in [Slots -> Text] /\ \A s \in Slots \ cols : cell[s] = None
    /\ rows \subseteq Row /\ (rows # {} => exists) /\ exists \in BOOLEAN
    /\ saved = None \/ saved \in Version
    /\ told \in [Slots -> Text] /\ crossed \subseteq Slots /\ strays \subseteq rows
    /\ replaced \subseteq Slots
TableTypes == cols \subseteq Slots /\ notNull \subseteq cols /\ byLocale \in BOOLEAN
              /\ keyed \in BOOLEAN /\ (keyed => byLocale)
IndexTypes == indexed \subseteq Slots /\ text \in [Slots -> Text] /\ unindexed \in BOOLEAN
RestTypes ==
    /\ grouped \in BOOLEAN /\ files \in Definitions /\ served \in Definitions
    /\ (cleaning = None \/ cleaning \subseteq Slots) 
    /\ named \subseteq Slots /\ gone \subseteq Slots
    /\ writes \in 0 .. MaxWrites /\ starts \in 0 .. MaxStarts

LEMMA Parts == LocalesTypeOK <=> ContentTypes /\ TableTypes /\ IndexTypes /\ RestTypes
  BY DEF LocalesTypeOK, ContentTypes, TableTypes, IndexTypes, RestTypes

LEMMA PartsAfter == (ContentTypes /\ TableTypes /\ IndexTypes /\ RestTypes)' => LocalesTypeOK'
  BY DEF LocalesTypeOK, ContentTypes, TableTypes, IndexTypes, RestTypes

-----------------------------------------------------------------------------
LEMMA SlotFacts ==
    /\ Default \in Slots /\ Plain \in Slots /\ Plain \notin Locales /\ Default \in Locales
    /\ None \notin Slots
  BY LocalesAssumption DEF Slots

\* Where a definition keeps a text.
LEMMA DefinitionFacts ==
    ASSUME NEW schema \in Definitions, NEW l
    PROVE  /\ Columns(schema) \subseteq Slots
           /\ SearchColumns(schema) \subseteq Slots
           /\ RequiredColumns(schema) \subseteq Columns(schema)
           /\ ReadSlot(schema, l) \in Slots /\ WriteSlot(schema, l) \in Slots
           /\ WriteSlot(schema, l) # Plain => WriteSlot(schema, l) = ReadSlot(schema, l)
           /\ ~grouped => WriteSlot(schema, l) = ReadSlot(schema, l)
           /\ JoinLocale(schema, l) \in Slots
           /\ ~LocalizedTags(schema) => JoinLocale(schema, l) = Plain
           /\ Columns(schema) = Expected(schema)
  <1>1. schema.locales \subseteq Locales
    BY LocalesAssumption DEF Definition
  <1>2. Known(schema, l) \in Locales
    BY <1>1, SlotFacts DEF Known
  <1>3. Columns(schema) \subseteq Slots /\ SearchColumns(schema) \subseteq Slots
        /\ RequiredColumns(schema) \subseteq Columns(schema)
    BY <1>1, SlotFacts DEF Columns, SearchColumns, RequiredColumns, Slots
  <1>4. ReadSlot(schema, l) \in Slots /\ WriteSlot(schema, l) \in Slots
    BY <1>2, SlotFacts DEF ReadSlot, WriteSlot, Slots
  <1>5. /\ WriteSlot(schema, l) # Plain => WriteSlot(schema, l) = ReadSlot(schema, l)
        /\ ~grouped => WriteSlot(schema, l) = ReadSlot(schema, l)
    BY DEF ReadSlot, WriteSlot
  <1>6. JoinLocale(schema, l) \in Slots /\ (~LocalizedTags(schema) => JoinLocale(schema, l) = Plain)
    BY SlotFacts DEF JoinLocale, Slots
  <1>7. Columns(schema) = Expected(schema)
    BY <1>1, SlotFacts DEF Columns, Expected, Slots
  <1> QED BY <1>3, <1>4, <1>5, <1>6, <1>7

LEMMA ShownFacts ==
    ASSUME NEW schema \in Definitions, NEW l, NEW held \in [Slots -> Text]
    PROVE  Shown(schema, l, held) \in Text
  BY DefinitionFacts, SlotFacts DEF Shown

\* A read depends on no more than the slots it consults.
LEMMA ShownAlike ==
    ASSUME NEW schema \in Definitions, NEW l, NEW held, NEW kept, NEW lost,
           \A s \in Slots \ lost : held[s] = kept[s], Consulted(schema, l, kept) \cap lost = {}
    PROVE  Shown(schema, l, held) = Shown(schema, l, kept)
  <1>1. ReadSlot(schema, l) \in Slots \ lost
    BY DefinitionFacts DEF Consulted
  <1>2. held[ReadSlot(schema, l)] = kept[ReadSlot(schema, l)]
    BY <1>1
  <1>3. CASE LocalizedText(schema) /\ kept[ReadSlot(schema, l)] = None
    <2>1. Default \in Slots \ lost
      BY <1>3, SlotFacts DEF Consulted
    <2> QED BY <1>2, <1>3, <2>1 DEF Shown
  <1>4. CASE ~(LocalizedText(schema) /\ kept[ReadSlot(schema, l)] = None)
    BY <1>2, <1>4 DEF Shown
  <1> QED BY <1>3, <1>4

LEMMA LocalesInitInv == LocalesInit => LocalesInv
  <1> SUFFICES ASSUME LocalesInit PROVE LocalesInv
    OBVIOUS
  <1>1. served \in Definitions
    BY DEF LocalesInit
  <1>2. ContentTypes
    BY DEF LocalesInit, ContentTypes, Text
  <1>3. TableTypes
    BY <1>1, DefinitionFacts DEF LocalesInit, TableTypes, LocalizedTags, Enabled
  <1>4. IndexTypes
    BY <1>1, DefinitionFacts DEF LocalesInit, IndexTypes, Text
  <1>5. RestTypes
    BY LocalesAssumption DEF LocalesInit, RestTypes
  <1>6. RowsWithoutLocale /\ Accepted /\ VersionExact /\ ListsUnnamed
    BY DEF LocalesInit, RowsWithoutLocale, Accepted, VersionExact, ListsUnnamed
  <1>7. LanguagesApart
    BY SlotFacts DEF LocalesInit, LanguagesApart, Slots
  <1> QED BY <1>2, <1>3, <1>4, <1>5, <1>6, <1>7, Parts DEF LocalesInv

-----------------------------------------------------------------------------
\* A sync, at a start or by a command.
LEMMA Syncs ==
    ASSUME LocalesInv, NEW schema \in Definitions, SyncAll(schema)
    PROVE  /\ (ContentTypes /\ TableTypes /\ IndexTypes)'
           /\ LanguagesApart'
           /\ LocalizedTags(schema) => byLocale'
           /\ byLocale => byLocale'
           /\ ~byLocale' => /\ \A r \in rows' : r.for = Plain
                            /\ strays' = {}
           /\ UNCHANGED <<cell, told, saved, replaced>>
  <1>1. ContentTypes /\ TableTypes /\ IndexTypes /\ RestTypes /\ RowsWithoutLocale /\ LanguagesApart
    BY Parts DEF LocalesInv
  <1>2. /\ cols' = cols \cup Columns(schema) /\ Columns(schema) \subseteq Slots
        /\ byLocale' = (byLocale \/ LocalizedTags(schema))
        /\ UNCHANGED <<exists, cell, saved, told, crossed, strays, replaced, notNull, keyed>>
    BY DefinitionFacts DEF SyncAll, SyncTables
  <1>3. ASSUME byLocale PROVE ContentTypes' /\ LanguagesApart' /\ byLocale'
    <2>1. rows' = rows /\ byLocale'
      BY <1>2, <1>3 DEF SyncAll, SyncTables
    <2>2. ContentTypes' /\ LanguagesApart'
      BY <1>1, <1>2, <2>1 DEF ContentTypes, LanguagesApart
    <2> QED BY <2>1, <2>2
  <1>4. ASSUME ~byLocale
        PROVE  ContentTypes' /\ LanguagesApart' /\ (\A r \in rows' : r.for = Plain) /\ strays' = {}
    <2> DEFINE to == IF byLocale' THEN Default ELSE Plain
    <2>1. rows' = {[r EXCEPT !.at = to] : r \in rows} /\ to \in Slots
      BY <1>4, SlotFacts DEF SyncAll, SyncTables
    <2>2. strays = {} /\ \A r \in rows : r.for = Plain /\ r \in Row
      BY <1>1, <1>4 DEF RowsWithoutLocale, ContentTypes
    <2> HIDE DEF to
    <2>3. \A r \in rows : [r EXCEPT !.at = to] \in Row /\ [r EXCEPT !.at = to].for = Plain
      BY <2>1, <2>2 DEF Row
    <2>4. rows' \subseteq Row /\ \A r \in rows' : r.for = Plain
      BY <2>1, <2>3
    <2>5. rows' # {} => exists
      BY <1>1, <2>1 DEF ContentTypes
    <2>6. ContentTypes' /\ LanguagesApart'
      BY <1>1, <1>2, <2>2, <2>4, <2>5 DEF ContentTypes, LanguagesApart
    <2> QED BY <1>2, <2>2, <2>4, <2>6
  <1>5. TableTypes'
    BY <1>1, <1>2 DEF TableTypes, LocalizedTags, Enabled
  <1>6. IndexTypes'
    <2>1. indexed' \subseteq Slots /\ unindexed' = FALSE
          /\ text' = [s \in Slots |-> IF s \in indexed' THEN cell[s] ELSE None]
      BY DefinitionFacts DEF SyncAll, SyncIndex
    <2> QED BY <1>1, <2>1 DEF IndexTypes, ContentTypes, Text
  <1> QED BY <1>2, <1>3, <1>4, <1>5, <1>6

LEMMA SyncSteps ==
    ASSUME LocalesInv, Start \/ CleanupLists
    PROVE  LocalesInv'
  <1>1. /\ ContentTypes /\ TableTypes /\ IndexTypes /\ RestTypes /\ RowsWithoutLocale
        /\ Accepted /\ VersionExact /\ ListsUnnamed
    BY Parts DEF LocalesInv
  <1>2. /\ files \in Definitions /\ SyncAll(files) /\ served' \in {served, files}
        /\ UNCHANGED <<grouped, files, writes, starts, gone>>
    BY <1>1 DEF Start, CleanupLists, RestTypes
  <1>3. /\ (ContentTypes /\ TableTypes /\ IndexTypes)' /\ LanguagesApart'
        /\ LocalizedTags(files) => byLocale'
        /\ byLocale => byLocale'
        /\ ~byLocale' => (\A r \in rows' : r.for = Plain) /\ strays' = {}
        /\ UNCHANGED <<cell, told, saved, replaced>>
    BY <1>2, Syncs
  <1>4. (cleaning' = None \/ cleaning' \subseteq Slots) /\ named' \subseteq Slots /\ ListsUnnamed'
    <2>1. CASE Start
      BY <1>1, <2>1 DEF Start, RestTypes, ListsUnnamed
    <2>2. CASE CleanupLists
      <3>1. cols' \subseteq Slots /\ Columns(files) = Expected(files) /\ Columns(files) \subseteq Slots
        BY <1>2, <1>3, DefinitionFacts DEF TableTypes
      <3> QED BY <2>2, <3>1 DEF CleanupLists, ListsUnnamed
    <2> QED BY <2>1, <2>2
  <1>5. RestTypes'
    BY <1>1, <1>2, <1>3, <1>4 DEF RestTypes
  <1>6. RowsWithoutLocale'
    <2>1. LocalizedTags(served)' => byLocale'
      BY <1>1, <1>2, <1>3 DEF RowsWithoutLocale, LocalizedTags, Enabled
    <2>2. ~byLocale' /\ saved # None => \A r \in saved.rows : r.for = Plain
      BY <1>1, <1>3 DEF RowsWithoutLocale
    <2> QED BY <1>3, <2>1, <2>2 DEF RowsWithoutLocale
  <1>7. Accepted' /\ VersionExact'
    BY <1>1, <1>2, <1>3 DEF Accepted, VersionExact, Lost
  <1> QED BY <1>3, <1>4, <1>5, <1>6, <1>7, PartsAfter DEF LocalesInv

-----------------------------------------------------------------------------
\* What a write puts into the text's column and into the junction table.
LEMMA WriteSteps ==
    ASSUME LocalesInv, NEW l, NEW change \in Changes, NEW given \in Given, Write(l, change, given)
    PROVE  LocalesInv'
  <1> DEFINE slot == WriteSlot(served, l)  to == ReadSlot(served, l)
             new  == IF change = "set" THEN [for |-> to, n |-> writes + 1] ELSE None
             join == JoinLocale(served, l)
  <1>1. /\ ContentTypes /\ TableTypes /\ IndexTypes /\ RestTypes /\ RowsWithoutLocale
        /\ LanguagesApart /\ Accepted /\ VersionExact /\ ListsUnnamed
    BY Parts DEF LocalesInv
  <1>2. served \in Definitions /\ writes \in 0 .. MaxWrites /\ writes + 1 \in 1 .. MaxWrites
    BY <1>1, LocalesAssumption DEF RestTypes, Write
  <1>3. /\ slot \in Slots /\ to \in Slots /\ join \in Slots
        /\ slot # Plain => slot = to
        /\ ~grouped => slot = to
        /\ ~LocalizedTags(served) => join = Plain
    BY <1>2, DefinitionFacts
  <1>4. new \in Text /\ None \in Text /\ (new # None => new.for = to)
    BY <1>2, <1>3 DEF Text
  <1>5. cell' = IF change = "keep" THEN cell ELSE [cell EXCEPT ![slot] = new]
    BY DEF Write, Changed
  <1>6. told' = IF change = "keep" THEN told ELSE [told EXCEPT ![to] = new]
    BY DEF Write
  <1>7. change # "keep" => /\ slot \in cols /\ crossed' = crossed \ {slot}
                            /\ replaced' = replaced \ {slot} /\ gone' = gone \ {slot}
    BY DEF Write, Refused, NoColumn
  <1>8. change = "keep" => crossed' = crossed /\ replaced' = replaced /\ gone' = gone
    BY DEF Write
  <1>9. UNCHANGED <<grouped, files, served, cols, notNull, byLocale, keyed, cleaning, starts, named>>
        /\ exists' = TRUE /\ writes' = writes + 1 /\ strays' = strays \cap rows'
        /\ rows' = Related(l, given)
    BY DEF Write, table
  <1> HIDE DEF slot, to, new, join
  <1>10. cell' \in [Slots -> Text] /\ told' \in [Slots -> Text]
    BY <1>1, <1>3, <1>4, <1>5, <1>6 DEF ContentTypes
  <1>11. \A s \in Slots \ cols : cell'[s] = None
    BY <1>1, <1>3, <1>5, <1>7 DEF ContentTypes
  <1>12. \A s \in Locales \ crossed' : cell'[s] # None => cell'[s].for = s
    <2> SUFFICES ASSUME NEW s \in Locales \ crossed', cell'[s] # None PROVE cell'[s].for = s
      OBVIOUS
    <2>1. s \in Slots /\ s # Plain
      BY SlotFacts DEF Slots
    <2>2. CASE change # "keep" /\ s = slot
      BY <1>1, <1>3, <1>4, <1>5, <2>1, <2>2 DEF ContentTypes
    <2>3. CASE ~(change # "keep" /\ s = slot)
      <3>1. cell'[s] = cell[s] /\ s \notin crossed
        BY <1>1, <1>3, <1>5, <1>7, <1>8, <2>1, <2>3 DEF ContentTypes
      <3> QED BY <1>1, <3>1 DEF LanguagesApart
    <2> QED BY <2>2, <2>3
  <1>13. /\ rows' \subseteq Row
         /\ \A r \in rows' : r \in rows \/ r.for \in {r.at, Plain}
         /\ ~byLocale => \A r \in rows' : r.for = Plain
    <2>1. CASE given = None
      BY <1>1, <1>9, <2>1 DEF Related, ContentTypes, RowsWithoutLocale
    <2>2. CASE given # None /\ join = Plain
      <3>1. rows' = {[to |-> t, at |-> IF byLocale THEN Default ELSE Plain, for |-> Plain] : t \in given}
        BY <1>9, <2>2 DEF Related, join
      <3>2. given \subseteq Targets
        BY <2>2 DEF Given
      <3> QED BY <3>1, <3>2, SlotFacts DEF Row
    <2>3. CASE given # None /\ join # Plain
      <3>1. rows' = {r \in rows : r.at # join} \cup {[to |-> t, at |-> join, for |-> join] : t \in given}
        BY <1>9, <2>3 DEF Related, join
      <3>2. given \subseteq Targets
        BY <2>3 DEF Given
      <3>3. byLocale
        BY <1>1, <1>3, <2>3 DEF RowsWithoutLocale
      <3> QED BY <1>1, <1>3, <3>1, <3>2, <3>3 DEF Row, ContentTypes
    <2> QED BY <2>1, <2>2, <2>3
  <1>14. Returned(l) \in Text
    <2>1. Shown(served, l, cell') \in Text
      BY <1>2, <1>10, ShownFacts
    <2> QED BY <1>4, <2>1 DEF Returned
  <1>15. /\ saved' = Snapshot(l) \/ saved' = saved
         /\ Snapshot(l) \in Version /\ Snapshot(l).rows = rows'
    <2>1. Shown(served, l, told') \in Text
      BY <1>2, <1>10, ShownFacts
    <2>2. Object(l) \in BOOLEAN
      BY DEF Object
    <2>3. Snapshot(l) \in Version /\ Snapshot(l).rows = rows'
      BY <1>3, <1>4, <1>13, <1>14, <2>1, <2>2 DEF Snapshot, Version, to
    <2>4. saved' = Snapshot(l) \/ saved' = saved
      BY DEF Write, SaveVersion
    <2> QED BY <2>3, <2>4
  <1>16. ContentTypes'
    BY <1>1, <1>7, <1>8, <1>9, <1>10, <1>11, <1>13, <1>15 DEF ContentTypes
  <1>17. TableTypes' /\ RestTypes' /\ ListsUnnamed'
    BY <1>1, <1>2, <1>7, <1>8, <1>9 DEF TableTypes, RestTypes, ListsUnnamed
  <1>18. IndexTypes'
    <2>1. indexed' = indexed /\ unindexed' = FALSE
          /\ text' = [s \in Slots |-> IF s \in indexed \cap {Plain} THEN Returned(l) ELSE None]
      BY DEF Write, Upsert
    <2>2. \A t \in Text : [s \in Slots |-> IF s \in indexed \cap {Plain} THEN t ELSE None]
                              \in [Slots -> Text]
      BY <1>4
    <2>3. text' \in [Slots -> Text]
      BY <1>14, <2>1, <2>2
    <2> QED BY <1>1, <2>1, <2>3 DEF IndexTypes
  <1>19. LanguagesApart'
    BY <1>1, <1>9, <1>12, <1>13 DEF LanguagesApart
  <1>20. RowsWithoutLocale'
    BY <1>1, <1>9, <1>13, <1>15 DEF RowsWithoutLocale, LocalizedTags, Enabled
  <1>21. Accepted'
    <2>1. CASE change = "keep"
      BY <1>1, <1>5, <1>6, <1>8, <1>9, <2>1 DEF Accepted, Lost
    <2>2. CASE change # "keep"
      BY <1>1, <1>3, <1>5, <1>6, <1>7, <1>9, <2>2 DEF Accepted, Lost, ContentTypes
    <2> QED BY <2>1, <2>2
  <1>22. VersionExact'
    <2> SUFFICES ASSUME ~grouped, saved' = Snapshot(l), Snapshot(l).of # None
                 PROVE  ~Snapshot(l).each /\ Snapshot(l).title = Snapshot(l).told
      BY <1>1, <1>9, <1>15 DEF VersionExact
    <2>1. /\ ~Object(l) /\ served.title # "absent"
          /\ Consulted(served, l, told') \cap Lost' = {}
      BY DEF Snapshot
    <2>2. Snapshot(l).title = Shown(served, l, cell') /\ Snapshot(l).told = Shown(served, l, told')
          /\ ~Snapshot(l).each
      BY <2>1 DEF Snapshot, Returned
    <2>3. \A s \in Slots \ Lost' : cell'[s] = told'[s]
      BY <1>9, <1>21 DEF Accepted
    <2>4. Shown(served, l, cell') = Shown(served, l, told')
      BY <1>2, <2>1, <2>3, ShownAlike
    <2> QED BY <2>2, <2>4
  <1> QED BY <1>16, <1>17, <1>18, <1>19, <1>20, <1>21, <1>22, PartsAfter DEF LocalesInv

-----------------------------------------------------------------------------
\* What a restore puts back, and how it names what went astray.
LEMMA RestoreSteps ==
    ASSUME LocalesInv, Restore
    PROVE  LocalesInv'
  <1> DEFINE at   == IF byLocale THEN Default ELSE Plain
             kept == {saved.of} \cap {Plain, Default} \cap Columns(served)
  <1>1. /\ ContentTypes /\ TableTypes /\ IndexTypes /\ RestTypes /\ RowsWithoutLocale
        /\ LanguagesApart /\ Accepted /\ VersionExact /\ ListsUnnamed
    BY Parts DEF LocalesInv
  <1>2. /\ exists /\ saved # None /\ Columns(served) \subseteq cols
        /\ UNCHANGED <<grouped, files, served, cols, notNull, byLocale, keyed, exists, saved,
                       indexed, text, cleaning, writes, starts, named>>
        /\ unindexed' = TRUE
    BY DEF Restore, table
  <1>3. saved \in Version /\ served \in Definitions
    BY <1>1, <1>2 DEF ContentTypes, RestTypes
  <1>4. cell' = [s \in Slots |-> IF s \notin Columns(served) \/ (s = Plain /\ saved.each)
                                 THEN cell[s]
                                 ELSE IF s \in {Plain, Default} THEN saved.title ELSE None]
    BY DEF Restore, Restored
  <1>5. /\ saved.title \in Text /\ saved.told \in Text /\ None \in Text
        /\ Columns(served) \subseteq Slots
    BY <1>3, DefinitionFacts DEF Text, Version
  <1>6. cell' \in [Slots -> Text]
    BY <1>1, <1>4, <1>5 DEF ContentTypes
  <1>7. /\ told' = [s \in Slots |-> IF s \in kept THEN saved.told ELSE told[s]]
        /\ replaced' = (replaced \cup Columns(served)) \ kept /\ gone' = gone \ kept
    BY DEF Restore
  <1>8. told' \in [Slots -> Text] /\ replaced' \subseteq Slots /\ gone' \subseteq Slots
    BY <1>1, <1>5, <1>7 DEF ContentTypes, RestTypes
  <1>9. crossed' = (crossed \ Columns(served))
                   \cup {s \in Columns(served) : cell'[s] # None /\ s # cell'[s].for}
    BY DEF Restore
  <1>10. /\ rows' = {[r EXCEPT !.at = at] : r \in saved.rows}
         /\ strays' = {r \in rows' : r.for \notin {r.at, Plain}}
    BY DEF Restore
  <1>11. at \in Slots
    BY SlotFacts
  <1> HIDE DEF at
  <1>12. \A r \in saved.rows : [r EXCEPT !.at = at] \in Row /\ [r EXCEPT !.at = at].for = r.for
    BY <1>3, <1>11 DEF Row, Version
  <1>13. rows' \subseteq Row
    BY <1>10, <1>12
  <1>14. \A s \in Slots \ cols : cell'[s] = None
    BY <1>1, <1>2, <1>4 DEF ContentTypes
  <1>15. crossed' \subseteq Slots
    BY <1>1, <1>5, <1>9 DEF ContentTypes
  <1>16. ContentTypes'
    <2>1. strays' \subseteq rows' /\ (rows' # {} => exists')
      BY <1>2, <1>10
    <2> QED BY <1>1, <1>2, <1>6, <1>8, <1>13, <1>14, <1>15, <2>1 DEF ContentTypes
  <1>17. TableTypes' /\ RestTypes' /\ ListsUnnamed' /\ VersionExact'
    BY <1>1, <1>2, <1>8 DEF TableTypes, RestTypes, ListsUnnamed, VersionExact
  <1>18. IndexTypes'
    BY <1>1, <1>2 DEF IndexTypes
  <1>19. RowsWithoutLocale'
    <2>1. ~byLocale => /\ \A r \in rows' : r.for = Plain
                       /\ strays' = {}
      BY <1>1, <1>2, <1>10, <1>12 DEF RowsWithoutLocale
    <2> QED BY <1>1, <1>2, <2>1 DEF RowsWithoutLocale, LocalizedTags, Enabled
  <1>20. LanguagesApart'
    <2>1. ASSUME NEW s \in Locales \ crossed', cell'[s] # None PROVE cell'[s].for = s
      <3>1. s \in Slots
        BY DEF Slots
      <3>2. CASE s \in Columns(served)
        BY <1>9, <2>1, <3>2
      <3>3. CASE s \notin Columns(served)
        <4>1. cell'[s] = cell[s] /\ s \notin crossed
          BY <1>4, <1>9, <2>1, <3>1, <3>3
        <4> QED BY <1>1, <2>1, <4>1 DEF LanguagesApart
      <3> QED BY <3>2, <3>3
    <2>2. \A r \in rows' \ strays' : r.for \in {r.at, Plain}
      BY <1>10
    <2> QED BY <2>1, <2>2 DEF LanguagesApart
  <1>21. Accepted'
    <2> SUFFICES ASSUME ~grouped, NEW s \in Slots, s \notin replaced', s \notin gone'
                 PROVE  cell'[s] = told'[s]
      BY <1>2 DEF Accepted, Lost
    <2>1. CASE s \in kept
      <3>1. saved.of # None /\ s \in {Plain, Default} /\ s \in Columns(served)
        BY <2>1, SlotFacts
      <3>2. ~saved.each /\ saved.title = saved.told
        BY <1>1, <1>2, <3>1 DEF VersionExact
      <3> QED BY <1>4, <1>7, <2>1, <3>1, <3>2
    <2>2. CASE s \notin kept
      <3>1. s \notin Columns(served) /\ s \notin replaced /\ s \notin gone
        BY <1>7, <2>2
      <3> QED BY <1>1, <1>4, <1>7, <2>2, <3>1 DEF Accepted, Lost
    <2> QED BY <2>1, <2>2
  <1> QED BY <1>16, <1>17, <1>18, <1>19, <1>20, <1>21, PartsAfter DEF LocalesInv

\* A dropped column takes its text, and what was said of it, along.
LEMMA CleanupSteps ==
    ASSUME LocalesInv, NEW c \in Slots, CleanupDrops(c)
    PROVE  LocalesInv'
  <1>1. /\ ContentTypes /\ TableTypes /\ IndexTypes /\ RestTypes /\ RowsWithoutLocale
        /\ LanguagesApart /\ Accepted /\ VersionExact /\ ListsUnnamed
    BY Parts DEF LocalesInv
  <1>2. /\ cols' = cols \ {c} /\ notNull' = notNull \ {c}
        /\ cell' = [cell EXCEPT ![c] = None] /\ crossed' = crossed \ {c}
        /\ gone' = gone \cup ({c} \ named) /\ named' \in {named, {}} /\ c \in cleaning /\ cleaning # None
        /\ UNCHANGED <<grouped, files, served, byLocale, keyed, exists, rows, saved, told, strays,
                       replaced, indexed, text, unindexed, writes, starts>>
    BY DEF CleanupDrops, index
  <1>3. None \in Text
    BY DEF Text
  <1>4. ContentTypes'
    BY <1>1, <1>2, <1>3 DEF ContentTypes
  <1>5. TableTypes' /\ IndexTypes'
    BY <1>1, <1>2 DEF TableTypes, IndexTypes
  <1>6. RestTypes' /\ ListsUnnamed'
    <2>1. /\ cleaning' = None \/ cleaning' \subseteq Slots
          /\ cleaning' # None => cleaning' \cap named' = {}
      BY <1>1 DEF CleanupDrops, RestTypes, ListsUnnamed
    <2> QED BY <1>1, <1>2, <2>1 DEF RestTypes, ListsUnnamed
  <1>7. LanguagesApart'
    <2>1. ASSUME NEW s \in Locales \ crossed', cell'[s] # None PROVE cell'[s].for = s
      <3>1. s \in Slots
        BY DEF Slots
      <3>2. s # c
        BY <1>1, <1>2, <2>1 DEF ContentTypes
      <3>3. cell'[s] = cell[s] /\ s \notin crossed
        BY <1>1, <1>2, <2>1, <3>1, <3>2 DEF ContentTypes
      <3> QED BY <1>1, <2>1, <3>3 DEF LanguagesApart
    <2> QED BY <1>1, <1>2, <2>1 DEF LanguagesApart
  <1>8. RowsWithoutLocale'
    BY <1>1, <1>2 DEF RowsWithoutLocale, LocalizedTags, Enabled
  <1>9. Accepted' /\ VersionExact'
    <2>1. c \in gone'
      BY <1>1, <1>2 DEF ListsUnnamed
    <2> QED BY <1>1, <1>2, <2>1 DEF Accepted, Lost, VersionExact, ContentTypes
  <1> QED BY <1>4, <1>5, <1>6, <1>7, <1>8, <1>9, PartsAfter DEF LocalesInv

\* An edit, the end of a cleanup and a step of something else leave the content alone.
LEMMA StillSteps ==
    ASSUME LocalesInv, (\E schema \in Definitions : Edit(schema)) \/ CleanupKilled \/ UNCHANGED localesVars
    PROVE  LocalesInv'
  <1>1. /\ ContentTypes /\ TableTypes /\ IndexTypes /\ RestTypes /\ RowsWithoutLocale
        /\ LanguagesApart /\ Accepted /\ VersionExact /\ ListsUnnamed
    BY Parts DEF LocalesInv
  <1>2. /\ UNCHANGED <<grouped, served, cols, notNull, byLocale, keyed, exists, cell, rows, saved,
                       told, crossed, strays, replaced, indexed, text, unindexed, writes, gone>>
        /\ files' \in {files} \cup Definitions
        /\ (cleaning' = None /\ named' = {}) \/ (cleaning' = cleaning /\ named' = named)
    BY DEF Edit, CleanupKilled, localesVars, table, content, index
  <1>3. starts' \in 0 .. MaxStarts
    BY <1>1, LocalesAssumption DEF Edit, CleanupKilled, localesVars, RestTypes
  <1>4. (ContentTypes /\ TableTypes /\ IndexTypes)'
    BY <1>1, <1>2 DEF ContentTypes, TableTypes, IndexTypes
  <1>5. RestTypes'
    BY <1>1, <1>2, <1>3 DEF RestTypes
  <1>6. /\ RowsWithoutLocale' /\ LanguagesApart' /\ Accepted' /\ VersionExact' /\ ListsUnnamed'
    BY <1>1, <1>2 DEF RowsWithoutLocale, LanguagesApart, Accepted, VersionExact, ListsUnnamed,
                      Lost, LocalizedTags, Enabled
  <1> QED BY <1>4, <1>5, <1>6, PartsAfter DEF LocalesInv

LEMMA LocalesStepInv == LocalesInv /\ [LocalesNext]_localesVars => LocalesInv'
  <1> SUFFICES ASSUME LocalesInv, [LocalesNext]_localesVars PROVE LocalesInv'
    OBVIOUS
  <1>1. CASE Start \/ CleanupLists
    BY <1>1, SyncSteps
  <1>2. ASSUME NEW l, NEW change \in Changes, NEW given \in Given, Write(l, change, given)
        PROVE  LocalesInv'
    BY <1>2, WriteSteps
  <1>3. CASE Restore
    BY <1>3, RestoreSteps
  <1>4. ASSUME NEW c \in Slots, CleanupDrops(c) PROVE LocalesInv'
    BY <1>4, CleanupSteps
  <1>5. CASE (\E schema \in Definitions : Edit(schema)) \/ CleanupKilled \/ UNCHANGED localesVars
    BY <1>5, StillSteps
  <1> QED BY <1>1, <1>2, <1>3, <1>4, <1>5 DEF LocalesNext

-----------------------------------------------------------------------------
(* The inductive invariant holds of every behaviour: of any sequence of    *)
(* deployments, writes, restores and cleanups (db/migrate, db/query).      *)
THEOREM LocalesInvariance == LocalesSpec => []LocalesInv
  BY LocalesInitInv, LocalesStepInv, PTL DEF LocalesSpec

(* Tables, columns, junction rows, versions and the index have their types *)
(* whatever definitions are deployed one after the other (db/migrate).     *)
THEOREM LocalesTypeCorrect == LocalesSpec => []LocalesTypeOK
  <1>1. LocalesInv => LocalesTypeOK
    BY DEF LocalesInv
  <1> QED BY <1>1, LocalesInvariance, PTL

(* No text and no row comes to stand for another locale than the one it    *)
(* was written in, but by a restore (query/locale.rs, migrate/helpers.rs). *)
THEOREM TextsStayApart == LocalesSpec => []LanguagesApart
  <1>1. LocalesInv => LanguagesApart
    BY DEF LocalesInv
  <1> QED BY <1>1, LocalesInvariance, PTL

(* A read in any locale shows what was last accepted for it, through every *)
(* sequence of definitions, writes, restores and cleanups, for fields that *)
(* lie in no Group: writes (locale_write_column) and reads                 *)
(* (add_locale_columns) agree on the column, cleanups                      *)
(* (get_expected_column_names) spare those of the definition, and a        *)
(* restore (restore_locale_columns) puts back what was accepted when the   *)
(* version was saved; what is lost to the others is named.                 *)
THEOREM TextsReadBack == LocalesSpec => []ReadsBack
  <1>1. LocalesInv => ReadsBack
    <2> SUFFICES ASSUME LocalesInv, ~grouped, NEW l, Consulted(served, l, told) \cap Lost = {}
                 PROVE  Shown(served, l, cell) = Shown(served, l, told)
      BY DEF ReadsBack
    <2>1. served \in Definitions
      BY Parts DEF LocalesInv, RestTypes
    <2>2. \A s \in Slots \ Lost : cell[s] = told[s]
      BY DEF LocalesInv, Accepted
    <2> HIDE DEF Lost
    <2> QED BY <2>1, <2>2, ShownAlike
  <1> QED BY <1>1, LocalesInvariance, PTL

-----------------------------------------------------------------------------
\* What the server works with is in the table, but for what a cleanup dropped.
Covered == Columns(served) \ cols \subseteq gone

LEMMA CoveredSteps == LocalesInv /\ Covered /\ [LocalesNext]_localesVars => Covered'
  <1> SUFFICES ASSUME LocalesInv, Covered, [LocalesNext]_localesVars PROVE Covered'
    OBVIOUS
  <1>1. served \in Definitions /\ files \in Definitions
    BY Parts DEF LocalesInv, RestTypes
  <1>2. CASE Start
    BY <1>2 DEF Covered, Start, SyncAll, SyncTables, Columns, LocalizedText, Enabled
  <1>3. CASE CleanupLists
    <2>1. served' = served /\ cols' = cols \cup Columns(files) /\ gone' = gone
      BY <1>3 DEF CleanupLists, SyncAll, SyncTables
    <2> QED BY <2>1 DEF Covered, Columns, LocalizedText, Enabled
  <1>4. ASSUME NEW c \in Slots, CleanupDrops(c) PROVE Covered'
    <2>1. served' = served /\ cols' = cols \ {c} /\ gone' = gone \cup {c}
      BY <1>4 DEF CleanupDrops, LocalesInv, ListsUnnamed
    <2> QED BY <2>1 DEF Covered, Columns, LocalizedText, Enabled
  <1>5. ASSUME UNCHANGED <<served, cols>>, gone \ cols \subseteq gone' PROVE Covered'
    BY <1>5 DEF Covered, Columns, LocalizedText, Enabled
  <1>6. ASSUME NEW l, NEW change, NEW given, Write(l, change, given) PROVE Covered'
    <2>1. change # "keep" => WriteSlot(served, l) \in cols
      BY <1>6 DEF Write, Refused, NoColumn
    <2> QED BY <1>5, <1>6, <2>1 DEF Write, table
  <1>7. CASE Restore
    BY <1>5, <1>7 DEF Restore, table
  <1>8. CASE CleanupKilled \/ (\E schema \in Definitions : Edit(schema)) \/ UNCHANGED localesVars
    BY <1>5, <1>8 DEF CleanupKilled, Edit, localesVars, table
  <1> QED BY <1>2, <1>3, <1>4, <1>6, <1>7, <1>8 DEF LocalesNext

LEMMA AllCovered == LocalesSpec => []Covered
  <1>1. LocalesInit => Covered
    BY DEF LocalesInit, Covered
  <1> QED BY <1>1, CoveredSteps, LocalesInvariance, PTL DEF LocalesSpec

\* A text that passes validation has a column among those the server works with.
LEMMA WriteSlotCovered ==
    ASSUME NEW schema \in Definitions, NEW l, schema.title # "absent",
           ~(grouped /\ LocalizedText(schema))
    PROVE  WriteSlot(schema, l) \in Columns(schema)
  <1>1. LocalizedText(schema) => Default \in schema.locales
    BY LocalesAssumption DEF LocalizedText, Enabled
  <1> QED BY <1>1 DEF WriteSlot, Known, Columns

LEMMA Serves == LocalesInv /\ Covered => WritesServed
  <1> SUFFICES ASSUME LocalesInv, Covered, exists, Undermined = {},
                      NEW l \in Requested, NEW change \in Changes, NEW given \in Given,
                      Valid(change), ~(grouped /\ LocalizedText(served)),
                      change = "clear" => notNull = RequiredColumns(served),
                      given # None => keyed = byLocale
               PROVE  ~Refused(l, change, given)
    BY DEF WritesServed
  <1>1. served \in Definitions /\ (LocalizedTags(served) => byLocale)
    BY Parts DEF LocalesInv, RestTypes, RowsWithoutLocale
  <1>2. Columns(served) \subseteq cols
    BY DEF Covered, Undermined
  <1>3. ~NoColumn(l, change)
    <2>1. change # "keep" => WriteSlot(served, l) \in Columns(served)
      BY <1>1, WriteSlotCovered DEF Valid
    <2> QED BY <1>2, <2>1 DEF NoColumn
  <1>4. ~LeavesNull(l, change)
    <2>1. change = "clear" => notNull = {}
      BY DEF Valid, RequiredColumns
    <2> QED BY <2>1 DEF LeavesNull
  <1>5. ~Duplicate(l, given)
    BY <1>1 DEF Duplicate, JoinLocale
  <1> QED BY <1>3, <1>4, <1>5 DEF Refused

(* The tables that the starts have made of old and new definitions take    *)
(* every write that passes validation (alter_collection_table, the         *)
(* junction tables, check_required).                                       *)
THEOREM ValidWritesServed == LocalesSpec => []WritesServed
  BY Serves, AllCovered, LocalesInvariance, PTL

-----------------------------------------------------------------------------
LEMMA SearchSteps == LocalesInv /\ SearchCurrent /\ [LocalesNext]_localesVars => SearchCurrent'
  <1> SUFFICES ASSUME LocalesInv, SearchCurrent, [LocalesNext]_localesVars PROVE SearchCurrent'
    OBVIOUS
  <1>1. ContentTypes /\ IndexTypes /\ served \in Definitions /\ files \in Definitions
    BY Parts DEF LocalesInv, RestTypes
  <1>2. CASE Start \/ CleanupLists
    <2>1. /\ text' = [s \in Slots |-> IF s \in indexed' THEN cell[s] ELSE None]
          /\ indexed' \subseteq Slots /\ cell' = cell
      BY <1>1, <1>2, DefinitionFacts DEF Start, CleanupLists, SyncAll, SyncIndex
    <2>2. \A s \in indexed' : text'[s] = cell'[s]
      BY <2>1
    <2> QED BY <2>2 DEF SearchCurrent
  <1>3. ASSUME NEW l, NEW change \in Changes, NEW given, Write(l, change, given)
        PROVE  SearchCurrent'
    <2>1. /\ text' = [s \in Slots |-> IF s \in indexed \cap {Plain} THEN Returned(l) ELSE None]
          /\ indexed' = indexed /\ served' = served /\ grouped' = grouped
      BY <1>3 DEF Write, Upsert
    <2>2. ASSUME Plain \in indexed, indexed = SearchColumns(served)
          PROVE  Returned(l) = cell'[Plain]
      <3>1. ~LocalizedText(served) /\ served.title # "absent"
        <4>1. served.locales \subseteq Locales
          BY <1>1, LocalesAssumption DEF Definition
        <4> QED BY <2>2, <4>1, SlotFacts DEF SearchColumns, Columns
      <3> QED BY <3>1 DEF Returned, Object, Shown, ReadSlot
    <2>3. indexed \subseteq Slots
      BY <1>1 DEF IndexTypes
    <2>4. ASSUME indexed = SearchColumns(served), NEW s \in indexed
          PROVE  text'[s] \in IF s = Plain THEN {cell'[s]} ELSE {cell'[s], None}
      BY <2>1, <2>2, <2>3, <2>4
    <2>5. SearchColumns(served)' = SearchColumns(served)
      BY <2>1 DEF SearchColumns, Columns, LocalizedText, Enabled
    <2> QED BY <2>1, <2>4, <2>5 DEF SearchCurrent
  <1>4. CASE Restore
    BY <1>4 DEF Restore, SearchCurrent
  <1>5. ASSUME NEW c \in Slots, CleanupDrops(c) PROVE SearchCurrent'
    <2>1. /\ cell' = [cell EXCEPT ![c] = None] /\ cols' = cols \ {c} /\ gone' = gone \cup {c}
          /\ UNCHANGED <<grouped, served, exists, indexed, text, unindexed>>
      BY <1>5 DEF CleanupDrops, index, LocalesInv, ListsUnnamed
    <2>2. /\ SearchColumns(served)' = SearchColumns(served) /\ SearchColumns(served) \subseteq Columns(served)
          /\ Undermined' = (gone \cup {c}) \cap (Columns(served) \ (cols \ {c}))
      BY <2>1 DEF SearchColumns, Columns, LocalizedText, Enabled, Undermined
    <2>3. ASSUME exists, ~unindexed, indexed = SearchColumns(served), NEW s \in indexed \ Undermined'
          PROVE  text'[s] \in IF s = Plain THEN {cell'[s]} ELSE {cell'[s], None}
      <3>1. s # c /\ s \in indexed \ Undermined
        BY <2>1, <2>2, <2>3 DEF Undermined
      <3>2. s \in Slots /\ cell'[s] = cell[s]
        BY <1>1, <2>1, <3>1 DEF ContentTypes, IndexTypes
      <3> QED BY <2>1, <2>3, <3>1, <3>2 DEF SearchCurrent
    <2> QED BY <2>1, <2>2, <2>3 DEF SearchCurrent
  <1>6. CASE CleanupKilled \/ (\E schema \in Definitions : Edit(schema)) \/ UNCHANGED localesVars
    <2>1. UNCHANGED <<grouped, served, cols, exists, indexed, text, unindexed, cell, gone>>
      BY <1>6 DEF CleanupKilled, Edit, localesVars, content, index, table
    <2>2. SearchColumns(served)' = SearchColumns(served) /\ Undermined' = Undermined
      BY <2>1 DEF SearchColumns, Columns, LocalizedText, Enabled, Undermined
    <2> QED BY <2>1, <2>2 DEF SearchCurrent
  <1> QED BY <1>2, <1>3, <1>4, <1>5, <1>6 DEF LocalesNext

(* The index never finds the document by a text it no longer has, through  *)
(* every sequence of definitions, writes and cleanups (sync_fts_table,     *)
(* fts_upsert).                                                            *)
THEOREM IndexCurrent == LocalesSpec => []SearchCurrent
  <1>1. LocalesInit => SearchCurrent
    BY DEF LocalesInit, SearchCurrent
  <1> QED BY <1>1, SearchSteps, LocalesInvariance, PTL DEF LocalesSpec

-----------------------------------------------------------------------------
(***************************************************************************)
(* Migrations.                                                             *)
(***************************************************************************)
RecordTypes ==
    /\ disk \subseteq Files /\ clock \in Nat \ {0}
    /\ applied \in [Files -> Nat] /\ effect \in [Files -> Int]

MigrationsInv == RecordTypes /\ RecordsTellEffects

\* The commands that list, start, end or edit leave records and data alone.
LEMMA ListingTells ==
    ASSUME MigrationsInv, UNCHANGED <<applied, effect, torn, undone>>,
           disk' \subseteq Files, clock' \in Nat \ {0}
    PROVE  MigrationsInv'
  BY DEF MigrationsInv, RecordTypes, RecordsTellEffects, Recorded

LEMMA AppliesTells ==
    ASSUME MigrationsInv, NEW c \in Commands, Applies(c)
    PROVE  MigrationsInv'
  <1>1. PICK f \in disk : /\ applied[f] = 0
                          /\ effect' = [effect EXCEPT ![f] = @ + 1]
                          /\ applied' = [applied EXCEPT ![f] = clock]
    BY DEF Applies, CanRecord
  <1>2. UNCHANGED <<disk, clock, torn, undone>> /\ f \in Files
    BY DEF Applies, MigrationsInv, RecordTypes
  <1>3. RecordTypes'
    BY <1>1, <1>2 DEF MigrationsInv, RecordTypes
  <1>4. ASSUME ~torn, NEW g \in Files \ undone
        PROVE  effect'[g] = IF applied'[g] # 0 THEN 1 ELSE 0
    <2>1. effect[g] = IF applied[g] # 0 THEN 1 ELSE 0
      BY <1>4 DEF MigrationsInv, RecordsTellEffects, Recorded
    <2> QED BY <1>1, <1>2, <2>1 DEF MigrationsInv, RecordTypes
  <1> QED BY <1>2, <1>3, <1>4 DEF MigrationsInv, RecordsTellEffects, Recorded

LEMMA RollsBackTells ==
    ASSUME MigrationsInv, NEW c \in Commands, RollsBack(c)
    PROVE  MigrationsInv'
  <1>1. PICK f \in disk : /\ effect' = [effect EXCEPT ![f] = @ - 1]
                          /\ applied' = [applied EXCEPT ![f] = 0]
                          /\ undone' = IF f \in Recorded THEN undone ELSE undone \cup {f}
    BY DEF RollsBack
  <1>2. UNCHANGED <<disk, clock, torn>> /\ f \in Files
    BY DEF RollsBack, MigrationsInv, RecordTypes
  <1>3. RecordTypes'
    BY <1>1, <1>2 DEF MigrationsInv, RecordTypes
  <1>4. ASSUME ~torn, NEW g \in Files \ undone'
        PROVE  effect'[g] = IF applied'[g] # 0 THEN 1 ELSE 0
    <2>1. g \notin undone /\ (g = f => f \in Recorded)
      BY <1>1, <1>4
    <2>2. effect[g] = IF applied[g] # 0 THEN 1 ELSE 0
      BY <1>4, <2>1 DEF MigrationsInv, RecordsTellEffects, Recorded
    <2> QED BY <1>1, <1>2, <2>1, <2>2 DEF MigrationsInv, RecordTypes, Recorded
  <1> QED BY <1>2, <1>3, <1>4 DEF MigrationsInv, RecordsTellEffects, Recorded

\* `fresh` says itself when it has dropped one table and not the other.
LEMMA DropsTells ==
    ASSUME MigrationsInv, NEW c \in Commands, Drops(c)
    PROVE  MigrationsInv'
  <1>1. /\ applied' \in {applied, [f \in Files |-> 0]}
        /\ effect' \in {effect, [f \in Files |-> 0]}
        /\ torn' = \E f \in Files \ undone' : effect'[f] # IF applied'[f] # 0 THEN 1 ELSE 0
        /\ UNCHANGED <<disk, clock>>
    BY DEF Drops
  <1>2. RecordTypes'
    BY <1>1 DEF MigrationsInv, RecordTypes
  <1>3. RecordsTellEffects'
    BY <1>1 DEF RecordsTellEffects, Recorded
  <1> QED BY <1>2, <1>3 DEF MigrationsInv

LEMMA MigrationsStep == MigrationsInv /\ [MigrationsNext]_migrationVars => MigrationsInv'
  <1> SUFFICES ASSUME MigrationsInv, [MigrationsNext]_migrationVars PROVE MigrationsInv'
    OBVIOUS
  <1>1. ASSUME NEW f \in Files, EditFile(f) PROVE MigrationsInv'
    BY <1>1, ListingTells DEF EditFile, MigrationsInv, RecordTypes
  <1>2. CASE Tick
    BY <1>2, ListingTells DEF Tick, MigrationsInv, RecordTypes
  <1>3. ASSUME NEW c \in Commands,
               UpStarts(c) \/ UpLists(c) \/ FreshStarts(c) \/ FreshSyncs(c) \/ Stops(c)
                 \/ \E steps \in 1 .. MaxSteps : DownStarts(c, steps)
        PROVE  MigrationsInv'
    <2>1. UNCHANGED <<disk, clock, applied, effect, torn, undone>>
      BY <1>3 DEF UpStarts, UpLists, FreshStarts, FreshSyncs, Stops, DownStarts
    <2> QED BY <2>1, ListingTells DEF MigrationsInv, RecordTypes
  <1>4. CASE UNCHANGED migrationVars
    BY <1>4, ListingTells DEF migrationVars, MigrationsInv, RecordTypes
  <1> QED BY <1>1, <1>2, <1>3, <1>4, AppliesTells, RollsBackTells, DropsTells DEF MigrationsNext

(* A recorded migration has run once and no other has, for any number of   *)
(* commands that apply and roll back at once and are stopped anywhere      *)
(* (commands/db.rs, db/migrate/tracking.rs): each file and its record are  *)
(* one transaction.                                                        *)
THEOREM RecordsTellTheTruth == MigrationsSpec => []RecordsTellEffects
  <1>1. MigrationsInit => MigrationsInv
    BY DEF MigrationsInit, MigrationsInv, RecordTypes, RecordsTellEffects, Recorded
  <1>2. MigrationsInv => RecordsTellEffects
    BY DEF MigrationsInv
  <1> QED BY <1>1, <1>2, MigrationsStep, PTL DEF MigrationsSpec


-----------------------------------------------------------------------------
(***************************************************************************)
(* Induction and recursion over the natural numbers, for sets and          *)
(* functions: the library's theorems take operators, which the provers do  *)
(* not instantiate.                                                        *)
(***************************************************************************)
(* Induction over the natural numbers, for a set instead of a predicate:   *)
(* n |-> n + 1 would otherwise map a finite set into a smaller one.        *)
LEMMA Induction ==
    ASSUME NEW T, 0 \in T, \A n \in Nat : n \in T => n + 1 \in T
    PROVE  \A n \in Nat : n \in T
  <1> SUFFICES ASSUME NEW m \in Nat, m \notin T PROVE FALSE
    OBVIOUS
  <1> DEFINE S == T \cap (0 .. m)
             next == [n \in S |-> n + 1]
  <1>1. IsFiniteSet(0 .. m) /\ S \subseteq 0 .. m /\ 0 \in S
    BY FS_Interval
  <1>2. \A n \in S : n + 1 \in S \ {0}
    OBVIOUS
  <1> HIDE DEF S
  <1>3. IsFiniteSet(S)
    BY <1>1, FS_Subset
  <1>4. IsFiniteSet(S \ {0}) /\ Cardinality(S \ {0}) = Cardinality(S) - 1 /\ Cardinality(S) \in Nat
    BY <1>1, <1>3, FS_RemoveElement, FS_CardinalityType
  <1>5. next \in [S -> S \ {0}] /\ \A x, y \in S : next[x] = next[y] => x = y
    BY <1>1, <1>2
  <1> HIDE DEF next
  <1>6. Cardinality(S \ {0}) < Cardinality(S)
    BY <1>4
  <1> QED BY <1>3, <1>4, <1>5, <1>6, FS_PigeonHole

\* The functions on 0 .. n that a first value and a step determine.
Upto(S, a, step, n) ==
    {g \in [0 .. n -> S] : g[0] = a /\ \A k \in 0 .. n : k # n => g[k + 1] = step[k][g[k]]}

\* Such a function, cut off one earlier.
LEMMA Shorter ==
    ASSUME NEW S, NEW a, NEW step, NEW n \in Nat, NEW p \in Upto(S, a, step, n + 1)
    PROVE  /\ [k \in 0 .. n |-> p[k]] \in Upto(S, a, step, n)
           /\ p[n + 1] = step[n][p[n]]
  <1> DEFINE q == [k \in 0 .. n |-> p[k]]
  <1>1. \A k \in 0 .. n : k \in 0 .. n + 1 /\ k # n + 1 /\ k + 1 \in 0 .. n + 1
    OBVIOUS
  <1>2. p \in [0 .. n + 1 -> S] /\ p[0] = a /\ \A k \in 0 .. n + 1 : k # n + 1 => p[k + 1] = step[k][p[k]]
    BY DEF Upto
  <1>3. q \in [0 .. n -> S] /\ q[0] = a
    BY <1>1, <1>2
  <1>4. ASSUME NEW k \in 0 .. n, k # n PROVE q[k + 1] = step[k][q[k]]
    <2>1. k + 1 \in 0 .. n
      BY <1>4
    <2> QED BY <1>1, <1>2, <2>1
  <1> HIDE DEF q
  <1>5. q \in Upto(S, a, step, n)
    BY <1>3, <1>4 DEF Upto
  <1>6. p[n + 1] = step[n][p[n]]
    BY <1>1, <1>2
  <1> QED BY <1>5, <1>6 DEF q

LEMMA Longer ==
    ASSUME NEW S, NEW a, NEW step \in [Nat -> [S -> S]], NEW n \in Nat, NEW g \in Upto(S, a, step, n)
    PROVE  Upto(S, a, step, n + 1) # {}
  <1> DEFINE last == step[n][g[n]]
             h == [k \in 0 .. n + 1 |-> IF k = n + 1 THEN last ELSE g[k]]
  <1>1. g \in [0 .. n -> S] /\ g[0] = a /\ \A k \in 0 .. n : k # n => g[k + 1] = step[k][g[k]]
    BY DEF Upto
  <1>2. g[n] \in S /\ last \in S
    BY <1>1
  <1> HIDE DEF last
  <1>3. h \in [0 .. n + 1 -> S] /\ h[0] = a
    BY <1>1, <1>2
  <1>4. ASSUME NEW k \in 0 .. n + 1, k # n + 1 PROVE h[k + 1] = step[k][h[k]]
    <2>1. k \in 0 .. n /\ k + 1 \in 0 .. n + 1
      BY <1>4
    <2>2. CASE k = n
      BY <2>1, <2>2 DEF last
    <2>3. CASE k # n
      BY <1>1, <2>1, <2>3
    <2> QED BY <2>2, <2>3
  <1> HIDE DEF h
  <1>5. h \in Upto(S, a, step, n + 1)
    BY <1>3, <1>4 DEF Upto
  <1> QED BY <1>5

LEMMA JustOne ==
    ASSUME NEW S, NEW a \in S, NEW step \in [Nat -> [S -> S]]
    PROVE  \A n \in Nat : Upto(S, a, step, n) # {} /\ \A g, h \in Upto(S, a, step, n) : g = h
  <1> DEFINE U(n) == Upto(S, a, step, n)
             T == {n \in Nat : U(n) # {} /\ \A g, h \in U(n) : g = h}
  <1>1. 0 \in T
    <2>1. \A k \in 0 .. 0 : k = 0
      OBVIOUS
    <2>2. [k \in 0 .. 0 |-> a] \in U(0)
      BY <2>1 DEF Upto
    <2>3. \A g, h \in U(0) : g = h
      BY <2>1 DEF Upto
    <2> QED BY <2>2, <2>3
  <1>2. ASSUME NEW n \in Nat, n \in T PROVE n + 1 \in T
    <2>1. U(n) # {} /\ \A g, h \in U(n) : g = h
      BY <1>2
    <2>2. U(n + 1) # {}
      BY <2>1, Longer
    <2>3. ASSUME NEW p \in U(n + 1), NEW q \in U(n + 1) PROVE p = q
      <3> DEFINE pp == [k \in 0 .. n |-> p[k]]  qq == [k \in 0 .. n |-> q[k]]
      <3>1. pp \in U(n) /\ qq \in U(n) /\ p[n + 1] = step[n][p[n]] /\ q[n + 1] = step[n][q[n]]
        BY Shorter
      <3>2. pp = qq
        BY <2>1, <3>1
      <3>3. \A k \in 0 .. n : p[k] = pp[k] /\ q[k] = qq[k]
        OBVIOUS
      <3> HIDE DEF pp, qq
      <3>4. \A k \in 0 .. n + 1 : k \in 0 .. n \/ k = n + 1
        OBVIOUS
      <3>5. n \in 0 .. n
        OBVIOUS
      <3>6. \A k \in 0 .. n + 1 : p[k] = q[k]
        BY <3>1, <3>2, <3>3, <3>4, <3>5
      <3>7. p \in [0 .. n + 1 -> S] /\ q \in [0 .. n + 1 -> S]
        BY DEF Upto
      <3> QED BY <3>6, <3>7
    <2> HIDE DEF U
    <2> QED BY <2>2, <2>3
  <1> HIDE DEF T
  <1>3. \A n \in Nat : n \in T
    BY <1>1, <1>2, Induction
  <1> QED BY <1>3 DEF T

(* A function given by its first value and by what makes the next one.     *)
Iterates(f, a, step) == f[0] = a /\ \A n \in Nat : f[n + 1] = step[n][f[n]]

LEMMA Recursion ==
    ASSUME NEW S, NEW a \in S, NEW step \in [Nat -> [S -> S]]
    PROVE  \E f \in [Nat -> S] : Iterates(f, a, step)
  <1> DEFINE U(n) == Upto(S, a, step, n)
             at(n) == CHOOSE g \in U(n) : TRUE
             f == [n \in Nat |-> at(n)[n]]
  <1>1. \A n \in Nat : at(n) \in U(n) /\ \A g \in U(n) : g = at(n)
    BY JustOne
  <1>2. \A n \in Nat : at(n) \in [0 .. n -> S] /\ at(n)[0] = a
    BY <1>1 DEF Upto
  <1>3. \A n \in Nat : at(n + 1)[n + 1] = step[n][at(n)[n]]
    <2> TAKE n \in Nat
    <2>1. n + 1 \in Nat /\ n \in 0 .. n
      OBVIOUS
    <2> DEFINE p == at(n + 1)
               q == [k \in 0 .. n |-> p[k]]
    <2>2. p \in U(n + 1)
      BY <1>1, <2>1
    <2> HIDE DEF at
    <2> HIDE DEF p
    <2>3. q \in U(n) /\ p[n + 1] = step[n][p[n]]
      BY <2>2, Shorter
    <2>4. q[n] = p[n]
      BY <2>1
    <2> HIDE DEF q
    <2>5. q = at(n)
      BY <1>1, <2>3
    <2> QED BY <2>3, <2>4, <2>5 DEF p
  <1> HIDE DEF at
  <1>4. \A n \in Nat : n \in 0 .. n /\ n + 1 \in Nat
    OBVIOUS
  <1>5. f \in [Nat -> S]
    BY <1>2, <1>4
  <1>6. f[0] = a /\ \A n \in Nat : f[n + 1] = step[n][f[n]]
    BY <1>2, <1>3, <1>4
  <1> HIDE DEF f
  <1> QED BY <1>5, <1>6 DEF Iterates

-----------------------------------------------------------------------------
(***************************************************************************)
(* Rules.                                                                  *)
(***************************************************************************)
Rows == [Docs -> TableRow \cup {Absent}]

\* Who shares a unique value, or is published without a required one, is one
\* that the rule was left out for.
UniqueWaived == \A d, e \in Docs : Sharing(row, d, e) => "unique" \in waived[d]
RequiredWaived ==
    \A d \in Present : def.required /\ row[d].published /\ row[d].value = Null => "required" \in waived[d]

\* An export names each document once, and unique values stay apart in it.
FileApart ==
    \A i, j \in DOMAIN file : i # j =>
        /\ file[i].id # file[j].id
        /\ UniqueColumn /\ file[i].value = file[j].value => file[i].value = Null

RulesInv == RulesTypeOK /\ Accepts(row) /\ UniqueWaived /\ RequiredWaived /\ FileApart

LEMMA FieldFacts ==
    ASSUME RulesTypeOK
    PROVE  /\ def.default \in Values \cup {Null} /\ def.default \in Stored
           /\ def.first \in BOOLEAN /\ def.required \in BOOLEAN /\ def.drafts \in BOOLEAN
           /\ Null \notin Values /\ NullText \notin Values
           /\ {Unsent, Empty, JsonNull} \cap Values = {}
  BY RulesAssumption DEF RulesTypeOK, Field, Stored

LEMMA RowFacts ==
    ASSUME NEW docs \in Rows, NEW d \in Docs, docs[d] # Absent
    PROVE  docs[d] \in TableRow /\ docs[d].value \in Stored /\ docs[d].published \in BOOLEAN
  BY DEF Rows, TableRow

LEMMA InvIsRules == RulesInv => RulesKept
  <1> SUFFICES ASSUME RulesInv PROVE RulesKept
    OBVIOUS
  <1>1. UniqueHolds
    <2> SUFFICES ASSUME NEW d \in Docs, NEW e \in Docs, Sharing(row, d, e)
                 PROVE  ~UniqueColumn /\ "unique" \in waived[d] /\ "unique" \in waived[e]
      BY DEF UniqueHolds
    <2>1. Sharing(row, e, d)
      BY DEF Sharing
    <2> QED BY <2>1 DEF RulesInv, Accepts, UniqueWaived
  <1>2. PublishedComplete
    BY DEF PublishedComplete, RulesInv, Accepts, RequiredWaived, Present
  <1> QED BY <1>1, <1>2 DEF RulesKept

(* A step that gives documents ds new values: where it leaves no rule out, *)
(* it must hold the values to it.                                          *)
LEMMA PutKeeps ==
    ASSUME RulesInv, NEW docs \in Rows, NEW ds \in SUBSET Docs,
           NEW rules \in SUBSET {"required", "unique"},
           Accepts(docs), row' = docs, waived' = Waiving(docs, ds, rules), def' = def,
           \A x \in Docs \ ds : docs[x] \in {row[x], Absent},
           "unique" \notin rules => \A x \in ds, y \in Docs : ~Sharing(docs, x, y),
           "required" \notin rules =>
               \A x \in ds : docs[x] # Absent /\ def.required /\ docs[x].published => docs[x].value # Null
    PROVE  /\ (Accepts(row) /\ UniqueWaived /\ RequiredWaived)'
           /\ waived' \in [Docs -> SUBSET {"required", "unique"}] /\ row' \in Rows
  <1>1. waived \in [Docs -> SUBSET {"required", "unique"}] /\ row \in Rows
    BY DEF RulesInv, RulesTypeOK, Rows
  <1>2. waived' = [x \in Docs |->
            IF docs[x] = Absent THEN {}
            ELSE IF x \in ds THEN rules
            ELSE IF "unique" \in rules /\ \E d \in ds : Sharing(docs, x, d) THEN waived[x] \cup {"unique"}
            ELSE waived[x]]
    BY DEF Waiving
  <1>3. waived' \in [Docs -> SUBSET {"required", "unique"}]
    BY <1>1, <1>2
  <1>4. Accepts(row)'
    BY DEF Accepts, UniqueColumn, NotNullColumn
  <1>5. ASSUME NEW d \in Docs, NEW e \in Docs, Sharing(docs, d, e) PROVE "unique" \in waived'[d]
    <2>1. docs[d] # Absent /\ docs[e] # Absent /\ Sharing(docs, e, d)
      BY <1>5 DEF Sharing
    <2>2. CASE d \in ds
      BY <1>2, <1>5, <2>1, <2>2
    <2>3. CASE d \notin ds /\ e \in ds
      BY <1>2, <1>5, <2>1, <2>3
    <2>4. CASE d \notin ds /\ e \notin ds
      <3>1. docs[d] = row[d] /\ docs[e] = row[e]
        BY <2>1, <2>4
      <3>2. Sharing(row, d, e)
        BY <1>5, <3>1 DEF Sharing
      <3>3. "unique" \in waived[d]
        BY <3>2 DEF RulesInv, UniqueWaived
      <3> QED BY <1>2, <2>1, <2>4, <3>3
    <2> QED BY <2>2, <2>3, <2>4
  <1>6. UniqueWaived'
    BY <1>5 DEF UniqueWaived, Sharing
  <1>7. ASSUME NEW d \in Docs, docs[d] # Absent, def.required, docs[d].published, docs[d].value = Null
        PROVE  "required" \in waived'[d]
    <2>1. CASE d \in ds
      BY <1>2, <1>7, <2>1
    <2>2. CASE d \notin ds
      <3>1. docs[d] = row[d]
        BY <1>7, <2>2
      <3>2. "required" \in waived[d]
        BY <1>7, <3>1 DEF RulesInv, RequiredWaived, Present
      <3> QED BY <1>2, <1>7, <2>2, <3>2
    <2> QED BY <2>1, <2>2
  <1>8. RequiredWaived'
    BY <1>7 DEF RequiredWaived, Present
  <1> QED BY <1>3, <1>4, <1>6, <1>8

\* A version is of a value that the row has had.
LEMMA RemembersRecord ==
    ASSUME version \in Record \cup {Absent}, NEW v \in Record, Remember(v)
    PROVE  version' \in Record \cup {Absent}
  BY DEF Remember

LEMMA AsRecord ==
    ASSUME NEW d \in Docs, NEW v \in Stored, NEW p \in BOOLEAN
    PROVE  As(d, v, p) \in Record
  BY DEF As, Record

(* Create and update, of one document. *)
LEMMA OneWritten ==
    ASSUME RulesInv, NEW d \in Docs, NEW v \in Stored, NEW p \in BOOLEAN, NEW published \in BOOLEAN,
           NEW rules \in SUBSET {"required", "unique"},
           Put([row EXCEPT ![d] = [value |-> v, published |-> published]], {d}, rules),
           version' \in Record \cup {Absent},
           "unique" \notin rules => v = Null \/ \A e \in Present \ {d} : row[e].value # v,
           "required" \notin rules => ~(def.required /\ published /\ v = Null)
    PROVE  RulesInv'
  <1> DEFINE new == [value |-> v, published |-> published]
             docs == [row EXCEPT ![d] = new]
  <1>1. RulesTypeOK /\ row \in Rows /\ FileApart
    BY DEF RulesInv, RulesTypeOK, Rows
  <1>2. new \in TableRow /\ new.value = v /\ new.published = published
    BY DEF TableRow
  <1>3. Accepts(docs) /\ row' = docs /\ waived' = Waiving(docs, {d}, rules) /\ UNCHANGED <<def, file>>
        /\ written' \in 0 .. MaxEntries
    BY <1>1, RulesAssumption DEF Put, RulesTypeOK
  <1> HIDE DEF new
  <1>4. docs \in Rows /\ docs[d] = new /\ \A x \in Docs \ {d} : docs[x] = row[x]
    BY <1>1, <1>2 DEF Rows
  <1> HIDE DEF docs
  <1>5. "unique" \notin rules => \A y \in Docs : ~Sharing(docs, d, y)
    <2> SUFFICES ASSUME "unique" \notin rules, NEW y \in Docs, Sharing(docs, d, y) PROVE FALSE
      OBVIOUS
    <2>1. y # d /\ docs[y] # Absent /\ docs[y] = row[y] /\ row[y].value = v /\ v # Null
      BY <1>2, <1>4 DEF Sharing
    <2> QED BY <2>1 DEF Present
  <1>6. /\ (Accepts(row) /\ UniqueWaived /\ RequiredWaived)'
        /\ waived' \in [Docs -> SUBSET {"required", "unique"}] /\ row' \in Rows
    <2>1. "required" \notin rules =>
              \A x \in {d} : docs[x] # Absent /\ def.required /\ docs[x].published => docs[x].value # Null
      BY <1>2, <1>4
    <2>2. {d} \in SUBSET Docs /\ \A x \in Docs \ {d} : docs[x] \in {row[x], Absent}
      BY <1>4
    <2>3. "unique" \notin rules => \A x \in {d}, y \in Docs : ~Sharing(docs, x, y)
      BY <1>5
    <2> QED BY <1>3, <1>4, <2>1, <2>2, <2>3, PutKeeps
  <1>7. RulesTypeOK'
    BY <1>1, <1>3, <1>6 DEF RulesTypeOK, Rows
  <1>8. FileApart'
    BY <1>1, <1>3 DEF FileApart, UniqueColumn
  <1> QED BY <1>6, <1>7, <1>8 DEF RulesInv

LEMMA CoercedFacts ==
    ASSUME RulesInv, NEW r \in Requests, NEW old \in Stored
    PROVE  /\ Coerced(r.value, old) \in Stored
           /\ r.value \in Values => Coerced(r.value, old) = r.value
           /\ r.value = Unsent => Coerced(r.value, old) = old
           /\ r.value = Empty => Coerced(r.value, old) = Null
           /\ r.value = JsonNull => Coerced(r.value, old) = NullText
           /\ r.value \in Values \cup {Unsent, Empty, JsonNull}
  <1>1. r.value \in Values \cup {Unsent, Empty, JsonNull}
    BY DEF Requests
  <1>2. /\ {Unsent, Empty, JsonNull} \cap Values = {}
        /\ Unsent # Empty /\ Unsent # JsonNull /\ Empty # JsonNull
    BY RulesAssumption
  <1> QED BY <1>1, <1>2 DEF Coerced, Stored

\* What a request's validation says of the value that is written for it.
LEMMA Validates ==
    ASSUME RulesInv, NEW d \in Docs, NEW r \in Requests, NEW isUpdate \in BOOLEAN,
           Validated(r, d, isUpdate), NEW old \in Stored, NEW v, v = Coerced(r.value, old)
    PROVE  /\ v \in Stored /\ Unheld(r) \in SUBSET {"required", "unique"}
           /\ "unique" \notin Unheld(r) => v = Null \/ \A e \in Present \ {d} : row[e].value # v
           /\ "required" \notin Unheld(r) => ~(def.required /\ ~r.draft /\ v = Null)
  <1>1. /\ Null \notin Values /\ {Unsent, Empty, JsonNull} \cap Values = {}
        /\ NullText # Null /\ Unsent # Empty /\ Unsent # JsonNull /\ Empty # JsonNull
    BY RulesAssumption
  <1>2. r.form \in {"stored", "other"} /\ r.way \in {"flat", "object"} /\ r.value \in Values \cup {Unsent, Empty, JsonNull}
    BY DEF Requests, Forms, Ways
  <1>3. v \in Stored /\ Unheld(r) \in SUBSET {"required", "unique"}
    BY CoercedFacts DEF Unheld
  <1>4. ASSUME "unique" \notin Unheld(r), v # Null PROVE \A e \in Present \ {d} : row[e].value # v
    <2>1. r.form = "stored" /\ r.way = "flat" /\ r.value \in Values
      BY <1>2, <1>4, CoercedFacts DEF Unheld
    <2>2. Seen(r) = r.value /\ ~IsEmpty(Seen(r)) /\ v = r.value
      BY <1>1, <2>1, CoercedFacts DEF Seen, IsEmpty
    <2> QED BY <2>1, <2>2 DEF Validated, UniqueOk
  <1>5. ASSUME "required" \notin Unheld(r), def.required, ~r.draft PROVE v # Null
    <2>1. r.way = "flat" /\ r.value # Unsent
      BY <1>2, <1>5 DEF Unheld
    <2>2. Seen(r) = r.value /\ ~IsEmpty(r.value)
      BY <1>5, <2>1 DEF Validated, RequiredOk, Seen
    <2>3. r.value \in Values
      BY <1>2, <2>2 DEF IsEmpty
    <2> QED BY <1>1, <2>3, CoercedFacts
  <1> QED BY <1>3, <1>4, <1>5

LEMMA CreateKeeps ==
    ASSUME RulesInv, NEW d \in Docs, NEW r \in Requests, Create(d, r)
    PROVE  RulesInv'
  <1> DEFINE v == Coerced(r.value, def.default)
  <1>1. def.default \in Stored /\ r.draft \in BOOLEAN
    BY FieldFacts DEF RulesInv, Requests
  <1>2. /\ Validated(r, d, FALSE)
        /\ Put([row EXCEPT ![d] = [value |-> v, published |-> ~r.draft]], {d}, Unheld(r))
        /\ Remember(As(d, v, ~r.draft))
    BY DEF Create
  <1>3. /\ v \in Stored /\ Unheld(r) \in SUBSET {"required", "unique"}
        /\ "unique" \notin Unheld(r) => v = Null \/ \A e \in Present \ {d} : row[e].value # v
        /\ "required" \notin Unheld(r) => ~(def.required /\ ~r.draft /\ v = Null)
    BY <1>1, <1>2, Validates
  <1> HIDE DEF v
  <1>4. version' \in Record \cup {Absent}
    BY <1>1, <1>2, <1>3, AsRecord, RemembersRecord DEF RulesInv, RulesTypeOK
  <1> QED BY <1>1, <1>2, <1>3, <1>4, OneWritten

LEMMA UpdateKeeps ==
    ASSUME RulesInv, NEW d \in Docs, NEW r \in Requests, Update(d, r)
    PROVE  RulesInv'
  <1> DEFINE v == Coerced(r.value, row[d].value)
             rules == IF r.value = Unsent THEN {"required"} \cup (waived[d] \cap {"unique"}) ELSE Unheld(r)
  <1>1. d \in Present /\ ~r.draft /\ row[d] # Absent
    BY DEF Update, Present
  <1>2. /\ Validated(r, d, TRUE)
        /\ Put([row EXCEPT ![d] = [value |-> v, published |-> TRUE]], {d}, rules)
        /\ Remember(As(d, v, TRUE))
    BY DEF Update
  <1>3. row[d].value \in Stored /\ row \in Rows
    BY <1>1, RowFacts DEF RulesInv, RulesTypeOK, Rows
  <1>4. /\ v \in Stored /\ Unheld(r) \in SUBSET {"required", "unique"}
        /\ "unique" \notin Unheld(r) => v = Null \/ \A e \in Present \ {d} : row[e].value # v
        /\ "required" \notin Unheld(r) => ~(def.required /\ ~r.draft /\ v = Null)
    BY <1>2, <1>3, Validates
  <1>5. r.value = Unsent => v = row[d].value
    BY <1>3, CoercedFacts
  <1> HIDE DEF v
  <1>6. rules \in SUBSET {"required", "unique"}
    BY <1>4
  <1>7. ASSUME "unique" \notin rules PROVE v = Null \/ \A e \in Present \ {d} : row[e].value # v
    <2>1. CASE r.value = Unsent
      <3>1. "unique" \notin waived[d]
        BY <1>7, <2>1
      <3>2. \A e \in Docs : ~Sharing(row, d, e)
        BY <3>1 DEF RulesInv, UniqueWaived
      <3> QED BY <1>1, <1>5, <2>1, <3>2 DEF Sharing, Present
    <2> QED BY <1>4, <1>7, <2>1
  <1>8. "required" \notin rules => ~(def.required /\ v = Null)
    BY <1>1, <1>4
  <1> HIDE DEF rules
  <1>9. version' \in Record \cup {Absent}
    BY <1>2, <1>4, AsRecord, RemembersRecord DEF RulesInv, RulesTypeOK
  <1> QED BY <1>2, <1>4, <1>6, <1>7, <1>8, <1>9, OneWritten

\* A write without rules, of one document.
LEMMA UncheckedKeeps ==
    ASSUME RulesInv, NEW d \in Docs, NEW v \in Stored, NEW published \in BOOLEAN,
           Put([row EXCEPT ![d] = [value |-> v, published |-> published]], {d}, {"required", "unique"}),
           version' \in Record \cup {Absent}
    PROVE  RulesInv'
  BY OneWritten

LEMMA UpdateManyKeeps ==
    ASSUME RulesInv, NEW ds \in SUBSET Docs, NEW v \in Values \cup {Null}, UpdateMany(ds, v)
    PROVE  RulesInv'
  <1> DEFINE docs == [d \in Docs |-> IF d \in ds THEN [row[d] EXCEPT !.value = v] ELSE row[d]]
  <1>1. RulesTypeOK /\ row \in Rows /\ FileApart
    BY DEF RulesInv, RulesTypeOK, Rows
  <1>2. /\ ds \subseteq Present /\ Accepts(docs) /\ row' = docs
        /\ waived' = Waiving(docs, ds, {"required", "unique"}) /\ UNCHANGED <<def, file, version>>
        /\ written' \in 0 .. MaxEntries
    BY <1>1, RulesAssumption DEF UpdateMany, Put, RulesTypeOK
  <1>3. \A d \in ds : [row[d] EXCEPT !.value = v] \in TableRow
    <2> TAKE d \in ds
    <2>1. row[d] \in TableRow
      BY <1>1, <1>2, RowFacts DEF Present
    <2>2. v \in Stored
      BY DEF Stored
    <2> QED BY <2>1, <2>2 DEF TableRow
  <1>4. docs \in Rows
    BY <1>1, <1>3 DEF Rows
  <1>5. \A x \in Docs \ ds : docs[x] \in {row[x], Absent}
    OBVIOUS
  <1> HIDE DEF docs
  <1>6. /\ (Accepts(row) /\ UniqueWaived /\ RequiredWaived)'
        /\ waived' \in [Docs -> SUBSET {"required", "unique"}] /\ row' \in Rows
    BY <1>2, <1>4, <1>5, PutKeeps
  <1>7. RulesTypeOK' /\ FileApart'
    BY <1>1, <1>2, <1>6 DEF RulesTypeOK, Rows, FileApart, UniqueColumn
  <1> QED BY <1>6, <1>7 DEF RulesInv

\* A step that leaves values and waivers alone.
LEMMA ValuesStill ==
    ASSUME RulesInv, RulesTypeOK', UNCHANGED <<def, file, waived>>,
           \A d \in Docs : row'[d] = row[d] \/ row'[d] = Absent
                             \/ (row[d] # Absent /\ row'[d].value = row[d].value /\ row'[d].published = FALSE)
    PROVE  RulesInv'
  <1>1. \A d, e \in Docs : Sharing(row', d, e) => Sharing(row, d, e)
    BY DEF Sharing
  <1>2. \A d \in Docs : row'[d] # Absent => row[d] # Absent /\ row'[d].value = row[d].value
    OBVIOUS
  <1>3. Accepts(row)' /\ UniqueWaived'
    BY <1>1, <1>2 DEF RulesInv, Accepts, UniqueWaived, UniqueColumn, NotNullColumn
  <1>4. RequiredWaived'
    BY <1>2 DEF RulesInv, RequiredWaived, Present
  <1>5. FileApart'
    BY DEF RulesInv, FileApart, UniqueColumn
  <1> QED BY <1>3, <1>4, <1>5 DEF RulesInv

LEMMA UnpublishKeeps ==
    ASSUME RulesInv, NEW d \in Docs, Unpublish(d)
    PROVE  RulesInv'
  <1>1. /\ row[d] # Absent /\ row' = [row EXCEPT ![d].published = FALSE]
        /\ Remember(As(d, row[d].value, FALSE)) /\ UNCHANGED <<def, file, written, waived>>
    BY DEF Unpublish, Present
  <1>2. RulesTypeOK /\ row \in Rows
    BY DEF RulesInv, RulesTypeOK, Rows
  <1>3. row[d] \in TableRow /\ row[d].value \in Stored
    BY <1>1, <1>2, RowFacts
  <1>4. row' \in Rows /\ row'[d].value = row[d].value /\ row'[d].published = FALSE
        /\ \A x \in Docs \ {d} : row'[x] = row[x]
    BY <1>1, <1>2, <1>3 DEF Rows, TableRow
  <1>5. version' \in Record \cup {Absent}
    BY <1>1, <1>2, <1>3, AsRecord, RemembersRecord DEF RulesTypeOK
  <1>6. RulesTypeOK'
    BY <1>1, <1>2, <1>4, <1>5 DEF RulesTypeOK, Rows
  <1> QED BY <1>1, <1>4, <1>6, ValuesStill

LEMMA ForgetsRecord ==
    ASSUME version \in Record \cup {Absent}, NEW ds, Forget(ds)
    PROVE  version' \in Record \cup {Absent}
  BY DEF Forget

LEMMA DeleteKeeps ==
    ASSUME RulesInv, NEW d \in Docs, Delete(d)
    PROVE  RulesInv'
  <1>1. /\ row' = [row EXCEPT ![d] = Absent] /\ waived' = [waived EXCEPT ![d] = {}]
        /\ UNCHANGED <<def, file, written>>
    BY DEF Delete
  <1>2. RulesTypeOK /\ row \in Rows
    BY DEF RulesInv, RulesTypeOK, Rows
  <1>3. version' \in Record \cup {Absent}
    BY <1>2, ForgetsRecord DEF Delete, RulesTypeOK
  <1>4. RulesTypeOK'
    BY <1>1, <1>2, <1>3 DEF RulesTypeOK, Rows
  <1>5. \A x \in Docs : row'[x] # Absent => row'[x] = row[x] /\ waived'[x] = waived[x]
    BY <1>1, <1>2 DEF RulesTypeOK, Rows
  <1>6. \A x, y \in Docs : Sharing(row', x, y) => Sharing(row, x, y)
    BY <1>5 DEF Sharing
  <1>7. Accepts(row)'
    BY <1>1, <1>5, <1>6 DEF RulesInv, Accepts, UniqueColumn, NotNullColumn
  <1>8. UniqueWaived' /\ RequiredWaived'
    BY <1>1, <1>5, <1>6 DEF RulesInv, UniqueWaived, RequiredWaived, Present, Sharing
  <1>9. FileApart'
    BY <1>1 DEF RulesInv, FileApart, UniqueColumn
  <1> QED BY <1>4, <1>7, <1>8, <1>9 DEF RulesInv

LEMMA RestoreKeeps ==
    ASSUME RulesInv, version # Absent, NEW published \in {TRUE, version.published},
           RestoreVersion(published)
    PROVE  RulesInv'
  <1>1. version \in Record
    BY DEF RulesInv, RulesTypeOK
  <1>2. version.id \in Docs /\ version.value \in Stored /\ published \in BOOLEAN
    BY <1>1 DEF Record
  <1> QED BY <1>1, <1>2, UncheckedKeeps DEF RestoreVersion

LEMMA UpdateDraftKeeps ==
    ASSUME RulesInv, NEW d \in Docs, NEW r \in Requests, UpdateDraft(d, r)
    PROVE  RulesInv'
  <1>1. RulesTypeOK /\ row \in Rows
    BY DEF RulesInv, RulesTypeOK, Rows
  <1>2. row[d].value \in Stored
    BY <1>1, RowFacts DEF UpdateDraft, Present
  <1> DEFINE v == IF r.value \in {Empty, JsonNull} THEN Null ELSE Coerced(r.value, row[d].value)
  <1>3. v \in Stored
    BY <1>2, CoercedFacts DEF Stored
  <1>4. version' = As(d, v, FALSE) /\ UNCHANGED <<def, row, file, written, waived>>
    BY DEF UpdateDraft
  <1> HIDE DEF v
  <1>5. RulesTypeOK'
    BY <1>1, <1>3, <1>4, AsRecord DEF RulesTypeOK
  <1> QED BY <1>4, <1>5, ValuesStill

LEMMA UncheckedSteps ==
    ASSUME RulesInv, NEW d \in Docs, NEW v \in Values \cup {Null},
           UncheckedUpdate(d, v) \/ \E draft \in BOOLEAN : UncheckedCreate(d, v, draft)
    PROVE  RulesInv'
  <1>1. v \in Stored /\ version \in Record \cup {Absent}
    BY DEF Stored, RulesInv, RulesTypeOK
  <1>2. CASE UncheckedUpdate(d, v)
    <2>1. version' \in Record \cup {Absent}
      BY <1>1, <1>2, AsRecord, RemembersRecord DEF UncheckedUpdate
    <2> QED BY <1>1, <1>2, <2>1, UncheckedKeeps DEF UncheckedUpdate
  <1>3. ASSUME NEW draft \in BOOLEAN, UncheckedCreate(d, v, draft) PROVE RulesInv'
    <2>1. (~draft) \in BOOLEAN
      OBVIOUS
    <2>2. As(d, v, ~draft) \in Record
      BY <1>1, <2>1, AsRecord
    <2>3. version' \in Record \cup {Absent}
      BY <1>1, <1>3, <2>2, RemembersRecord DEF UncheckedCreate
    <2> QED BY <1>1, <1>3, <2>1, <2>3, UncheckedKeeps DEF UncheckedCreate
  <1> QED BY <1>2, <1>3

LEMMA ExportKeeps ==
    ASSUME RulesInv, Export
    PROVE  RulesInv'
  <1>1. RulesTypeOK /\ row \in Rows /\ UNCHANGED <<def, row, version, written, waived>>
    BY DEF RulesInv, RulesTypeOK, Rows, Export
  <1> DEFINE N == Cardinality(Present)
  <1>2. N \in Nat
    BY RulesAssumption, FS_Subset, FS_CardinalityType DEF Present
  <1>3. PICK ds \in [1 .. N -> Present] :
            /\ \A i, j \in 1 .. N : i # j => ds[i] # ds[j]
            /\ file' = [i \in 1 .. N |-> As(ds[i], row[ds[i]].value, row[ds[i]].published)]
    BY DEF Export, SetToSeqs
  <1> HIDE DEF N
  <1>4. \A i \in 1 .. N : ds[i] \in Docs /\ row[ds[i]] # Absent
    BY <1>3 DEF Present
  <1>5. \A i \in 1 .. N : /\ file'[i] = As(ds[i], row[ds[i]].value, row[ds[i]].published)
                          /\ file'[i] \in Record /\ file'[i].id = ds[i] /\ file'[i].value = row[ds[i]].value
    <2> TAKE i \in 1 .. N
    <2>1. row[ds[i]].value \in Stored /\ row[ds[i]].published \in BOOLEAN
      BY <1>1, <1>4, RowFacts
    <2>2. file'[i] = As(ds[i], row[ds[i]].value, row[ds[i]].published)
      BY <1>3
    <2> QED BY <1>4, <2>1, <2>2, AsRecord DEF As
  <1>6. file' \in [1 .. N -> Record] /\ DOMAIN file' = 1 .. N
    BY <1>3, <1>5
  <1>7. file' \in Seq(Record)
    BY <1>2, <1>6
  <1>8. RulesTypeOK'
    BY <1>1, <1>7 DEF RulesTypeOK
  <1>9. FileApart'
    <2> SUFFICES ASSUME NEW i \in 1 .. N, NEW j \in 1 .. N, i # j
                 PROVE  /\ file'[i].id # file'[j].id
                        /\ UniqueColumn /\ file'[i].value = file'[j].value => file'[i].value = Null
      BY <1>1, <1>6 DEF FileApart, UniqueColumn
    <2>1. UniqueColumn => ~Sharing(row, ds[i], ds[j])
      BY <1>4 DEF RulesInv, Accepts
    <2> QED BY <1>3, <1>4, <1>5, <2>1 DEF Sharing
  <1>10. (Accepts(row) /\ UniqueWaived /\ RequiredWaived)'
    BY <1>1 DEF RulesInv, Accepts, UniqueWaived, RequiredWaived, Present, UniqueColumn, NotNullColumn
  <1> QED BY <1>8, <1>9, <1>10 DEF RulesInv

-----------------------------------------------------------------------------
(***************************************************************************)
(* An import, record by record.                                            *)
(***************************************************************************)
New(i)  == [value |-> Imported(file[i]), published |-> TRUE]
Sent(n) == {file[i].id : i \in 1 .. n}

\* What the table holds after n records: documents that are not among them as
\* they were, or displaced; those among them as imported, or displaced by a
\* later one of the same value; and no unique value twice.
OthersStay(n, docs) ==
    \A d \in Docs \ Sent(n) :
        \/ docs[d] = row[d]
        \/ /\ UniqueColumn /\ docs[d] = Absent /\ row[d] # Absent
           /\ \E i \in 1 .. n : Imported(file[i]) = row[d].value
SentArrive(n, docs) ==
    \A i \in 1 .. n :
        \/ docs[file[i].id] = New(i)
        \/ /\ UniqueColumn /\ docs[file[i].id] = Absent /\ Imported(file[i]) # Null
           /\ \E j \in i + 1 .. n : Imported(file[j]) = Imported(file[i])
Apart(docs) == UniqueColumn => \A d, e \in Docs : ~Sharing(docs, d, e)

ImportedSoFar(n, docs) == docs \in Rows /\ OthersStay(n, docs) /\ SentArrive(n, docs) /\ Apart(docs)

LEMMA FileFacts ==
    ASSUME RulesInv
    PROVE  /\ Len(file) \in Nat /\ DOMAIN file = 1 .. Len(file)
           /\ \A i \in 1 .. Len(file) :
                  /\ file[i] \in Record /\ file[i].id \in Docs /\ file[i].value \in Stored
                  /\ Imported(file[i]) \in Stored /\ New(i) \in TableRow
                  /\ New(i).value = Imported(file[i])
  <1>1. file \in Seq(Record)
    BY DEF RulesInv, RulesTypeOK
  <1>2. def.default \in Stored
    BY FieldFacts DEF RulesInv
  <1>3. \A i \in 1 .. Len(file) : file[i] \in Record
    BY <1>1
  <1>4. \A i \in 1 .. Len(file) : file[i].id \in Docs /\ file[i].value \in Stored
    BY <1>3 DEF Record
  <1>5. \A i \in 1 .. Len(file) : Imported(file[i]) \in Stored
    BY <1>2, <1>4 DEF Imported
  <1>6. \A i \in 1 .. Len(file) : New(i) \in TableRow /\ New(i).value = Imported(file[i])
    BY <1>5 DEF New, TableRow
  <1> QED BY <1>1, <1>3, <1>4, <1>5, <1>6

LEMMA ReplaceFacts ==
    ASSUME RulesInv, NEW docs \in Rows, NEW i \in 1 .. Len(file)
    PROVE  LET others == [docs EXCEPT ![file[i].id] = New(i)]
               after  == Replace(docs, file[i])
           IN  /\ after \in Rows /\ others \in Rows
               /\ after[file[i].id] = New(i)
               /\ \A d \in Docs : after[d] = IF UniqueColumn /\ Sharing(others, d, file[i].id)
                                             THEN Absent ELSE others[d]
               /\ \A d \in Docs \ {file[i].id} : others[d] = docs[d]
  <1> DEFINE id     == file[i].id
             others == [docs EXCEPT ![id] = New(i)]
             after  == Replace(docs, file[i])
  <1>1. id \in Docs /\ New(i) \in TableRow
    BY FileFacts
  <1>2. others \in Rows /\ others[id] = New(i) /\ \A d \in Docs \ {id} : others[d] = docs[d]
    BY <1>1 DEF Rows
  <1>3. after = [d \in Docs |-> IF UniqueColumn /\ Sharing(others, d, id) THEN Absent ELSE others[d]]
    BY DEF Replace, New
  <1> HIDE DEF others, after
  <1>4. ~Sharing(others, id, id)
    BY DEF Sharing
  <1>5. after \in Rows
    BY <1>2, <1>3 DEF Rows
  <1>6. after[id] = New(i)
    BY <1>1, <1>2, <1>3, <1>4
  <1>7. \A d \in Docs : after[d] = IF UniqueColumn /\ Sharing(others, d, id) THEN Absent ELSE others[d]
    BY <1>3
  <1> QED BY <1>2, <1>5, <1>6, <1>7 DEF others, after, id

\* One more record.
LEMMA OneMore ==
    ASSUME RulesInv, NEW n \in Nat, n + 1 \in 1 .. Len(file),
           NEW docs, ImportedSoFar(n, docs)
    PROVE  ImportedSoFar(n + 1, Replace(docs, file[n + 1]))
  <1> DEFINE m      == n + 1
             id     == file[m].id
             others == [docs EXCEPT ![id] = New(m)]
             after  == Replace(docs, file[m])
  <1>1. docs \in Rows /\ OthersStay(n, docs) /\ SentArrive(n, docs) /\ Apart(docs)
    BY DEF ImportedSoFar
  <1>2. /\ after \in Rows /\ after[id] = New(m) /\ others[id] = New(m)
        /\ \A d \in Docs : after[d] = IF UniqueColumn /\ Sharing(others, d, id) THEN Absent ELSE others[d]
        /\ \A d \in Docs \ {id} : others[d] = docs[d]
    <2>1. m \in 1 .. Len(file) /\ id \in Docs
      BY FileFacts
    <2>2. others[id] = New(m)
      BY <1>1, <2>1 DEF Rows
    <2> QED BY <1>1, <2>1, <2>2, ReplaceFacts
  <1>3. id \in Docs /\ New(m).value = Imported(file[m]) /\ m \in 1 .. Len(file)
        /\ \A i \in 1 .. Len(file) : file[i].id \in Docs
    BY FileFacts
  <1>4. \A i \in 1 .. n : i \in 1 .. Len(file) /\ i # m /\ file[i].id # id
    <2>1. Len(file) \in Nat /\ DOMAIN file = 1 .. Len(file)
      BY FileFacts
    <2>2. \A i \in 1 .. n : i \in 1 .. Len(file) /\ i # m
      BY <2>1
    <2> QED BY <1>3, <2>1, <2>2 DEF RulesInv, FileApart
  <1>5. 1 .. m = (1 .. n) \cup {m} /\ Sent(m) = Sent(n) \cup {id}
    <2>1. 1 .. m = (1 .. n) \cup {m}
      OBVIOUS
    <2> QED BY <2>1 DEF Sent
  <1> HIDE DEF others, after, id
  <1>6. \A d \in Docs \ {id} :
            \/ after[d] = docs[d]
            \/ /\ UniqueColumn /\ after[d] = Absent /\ docs[d] # Absent
               /\ docs[d].value = Imported(file[m]) /\ docs[d].value # Null
    BY <1>2, <1>3 DEF Sharing
  <1> HIDE DEF m
  <1>7. OthersStay(m, after)
    <2> SUFFICES ASSUME NEW d \in Docs \ Sent(m)
                 PROVE  \/ after[d] = row[d]
                        \/ /\ UniqueColumn /\ after[d] = Absent /\ row[d] # Absent
                           /\ \E i \in 1 .. m : Imported(file[i]) = row[d].value
      BY DEF OthersStay
    <2>1. d \in Docs \ Sent(n) /\ d # id
      BY <1>5
    <2>2. \/ docs[d] = row[d]
          \/ /\ UniqueColumn /\ docs[d] = Absent /\ row[d] # Absent
             /\ \E i \in 1 .. n : Imported(file[i]) = row[d].value
      BY <1>1, <2>1 DEF OthersStay
    <2> QED BY <1>5, <1>6, <2>1, <2>2
  <1>8. SentArrive(m, after)
    <2> SUFFICES ASSUME NEW i \in 1 .. m
                 PROVE  \/ after[file[i].id] = New(i)
                        \/ /\ UniqueColumn /\ after[file[i].id] = Absent /\ Imported(file[i]) # Null
                           /\ \E j \in i + 1 .. m : Imported(file[j]) = Imported(file[i])
      BY DEF SentArrive
    <2>1. CASE i = m
      BY <1>2, <2>1 DEF id
    <2>2. CASE i \in 1 .. n
      <3>1. file[i].id \in Docs \ {id} /\ New(i).value = Imported(file[i]) /\ i \in 1 .. Len(file)
        BY <1>3, <1>4, <2>2, FileFacts
      <3>2. i + 1 .. n \subseteq i + 1 .. m /\ m \in i + 1 .. m
        BY <2>2 DEF m
      <3>3. \/ docs[file[i].id] = New(i)
            \/ /\ UniqueColumn /\ docs[file[i].id] = Absent /\ Imported(file[i]) # Null
               /\ \E j \in i + 1 .. n : Imported(file[j]) = Imported(file[i])
        BY <1>1, <2>2 DEF SentArrive
      <3> QED BY <1>6, <3>1, <3>2, <3>3
    <2> QED BY <1>5, <2>1, <2>2
  <1>9. Apart(after)
    <2> SUFFICES ASSUME UniqueColumn, NEW d \in Docs, NEW e \in Docs, Sharing(after, d, e) PROVE FALSE
      BY DEF Apart
    <2>1. d # e /\ after[d] # Absent /\ after[e] # Absent /\ after[d].value = after[e].value
          /\ after[d].value # Null
      BY DEF Sharing
    <2>2. ~Sharing(others, d, id) /\ ~Sharing(others, e, id)
          /\ after[d] = others[d] /\ after[e] = others[e]
      BY <1>2, <2>1
    <2>3. d # id /\ e # id
      BY <1>2, <2>1, <2>2 DEF Sharing
    <2>4. Sharing(docs, d, e)
      BY <1>2, <2>1, <2>2, <2>3 DEF Sharing
    <2> QED BY <1>1, <2>4 DEF Apart
  <1> QED BY <1>2, <1>7, <1>8, <1>9 DEF ImportedSoFar, m, id, after

\* The recursive definition has the values it is meant to have.
LEMMA ReplacedIs ==
    ASSUME RulesInv
    PROVE  /\ Replaced[0] = row
           /\ \A n \in 0 .. Len(file) - 1 : Replaced[n + 1] = Replace(Replaced[n], file[n + 1])
  <1> DEFINE R(f, n) == IF n = 0 THEN row ELSE Replace(f[n - 1], file[n])
             step == [n \in Nat |-> [docs \in Rows |->
                         IF n + 1 \in 1 .. Len(file) THEN Replace(docs, file[n + 1]) ELSE docs]]
  <1>1. Len(file) \in Nat /\ row \in Rows
    BY FileFacts DEF RulesInv, RulesTypeOK, Rows
  <1>2. \A n \in Nat, docs \in Rows : n + 1 \in 1 .. Len(file) => Replace(docs, file[n + 1]) \in Rows
    BY ReplaceFacts
  <1>3. step \in [Nat -> [Rows -> Rows]]
    BY <1>2
  <1>4. \A n \in Nat, docs \in Rows : n + 1 \in 1 .. Len(file) => step[n][docs] = Replace(docs, file[n + 1])
    OBVIOUS
  <1> HIDE DEF step
  <1>5. PICK f \in [Nat -> Rows] : f[0] = row /\ \A n \in Nat : f[n + 1] = step[n][f[n]]
    <2>1. \E f \in [Nat -> Rows] : Iterates(f, row, step)
      BY <1>1, <1>3, Recursion
    <2> QED BY <2>1 DEF Iterates
  <1> DEFINE g == [n \in 0 .. Len(file) |-> f[n]]
  <1>6. \A n \in 0 .. Len(file) : g[n] = R(g, n)
    <2> TAKE n \in 0 .. Len(file)
    <2>1. CASE n = 0
      BY <1>1, <1>5, <2>1
    <2>2. CASE n # 0
      <3>1. n - 1 \in Nat /\ n - 1 \in 0 .. Len(file) /\ (n - 1) + 1 = n /\ n \in 1 .. Len(file)
        BY <1>1, <2>2
      <3>2. f[n] = step[n - 1][f[n - 1]]
        BY <1>5, <3>1
      <3>3. f[n] = Replace(f[n - 1], file[n])
        BY <1>4, <1>5, <3>1, <3>2
      <3> QED BY <2>2, <3>1, <3>3
    <2> QED BY <2>1, <2>2
  <1>7. g = [n \in 0 .. Len(file) |-> R(g, n)]
    <2> HIDE DEF R
    <2> QED BY <1>6
  <1>8. Replaced = [n \in 0 .. Len(file) |-> R(Replaced, n)]
    <2> HIDE DEF g
    <2> QED BY <1>7 DEF Replaced
  <1>9. \A n \in 0 .. Len(file) : Replaced[n] = R(Replaced, n)
    <2> HIDE DEF R
    <2> QED BY <1>8
  <1>10. Replaced[0] = row
    BY <1>1, <1>9
  <1>11. ASSUME NEW n \in 0 .. Len(file) - 1 PROVE Replaced[n + 1] = Replace(Replaced[n], file[n + 1])
    <2>1. n + 1 \in 0 .. Len(file) /\ n + 1 # 0 /\ (n + 1) - 1 = n
      BY <1>1
    <2>2. Replaced[n + 1] = R(Replaced, n + 1)
      BY <1>9, <2>1
    <2> QED BY <2>1, <2>2
  <1> QED BY <1>10, <1>11

LEMMA AllImported ==
    ASSUME RulesInv
    PROVE  ImportedSoFar(Len(file), Replaced[Len(file)])
  <1> DEFINE T == {n \in Nat : n =< Len(file) => ImportedSoFar(n, Replaced[n])}
  <1>1. Len(file) \in Nat
    BY FileFacts
  <1>2. 0 \in T
    <2>1. Replaced[0] = row
      BY ReplacedIs
    <2>2. ImportedSoFar(0, row)
      BY DEF ImportedSoFar, OthersStay, SentArrive, Apart, Rows, RulesInv, RulesTypeOK, Accepts
    <2> QED BY <2>1, <2>2
  <1>3. ASSUME NEW n \in Nat, n \in T PROVE n + 1 \in T
    <2> SUFFICES ASSUME n + 1 =< Len(file) PROVE ImportedSoFar(n + 1, Replaced[n + 1])
      OBVIOUS
    <2>1. n \in 0 .. Len(file) - 1 /\ n =< Len(file) /\ n + 1 \in 1 .. Len(file)
      BY <1>1
    <2>2. ImportedSoFar(n, Replaced[n])
      BY <1>3, <2>1
    <2>3. Replaced[n + 1] = Replace(Replaced[n], file[n + 1])
      BY <2>1, ReplacedIs
    <2> QED BY <2>1, <2>2, <2>3, OneMore
  <1> HIDE DEF T
  <1>4. Len(file) \in T
    BY <1>1, <1>2, <1>3, Induction
  <1> QED BY <1>1, <1>4 DEF T

LEMMA ImportSucceeds ==
    ASSUME RulesInv, Import, ~ImportRefused
    PROVE  /\ row' = Replaced[Len(file)] /\ ImportedSoFar(Len(file), row')
           /\ Named = Sent(Len(file)) /\ Accepts(row') /\ UNCHANGED def
  <1>1. row' = Replaced[Len(file)] /\ ImportedSoFar(Len(file), row') /\ UNCHANGED def
    BY AllImported DEF Import
  <1>2. Named = Sent(Len(file)) /\ DOMAIN file = 1 .. Len(file)
    BY FileFacts DEF Named, Sent
  <1>3. ASSUME NotNullColumn, NEW d \in Docs, row'[d] # Absent PROVE row'[d].value # Null
    <2>1. CASE d \in Sent(Len(file))
      <3>1. PICK i \in 1 .. Len(file) : d = file[i].id
        BY <2>1 DEF Sent
      <3>2. row'[d] = New(i) /\ New(i).value = Imported(file[i])
        BY <1>1, <1>3, <3>1, FileFacts DEF ImportedSoFar, SentArrive
      <3>3. Imported(file[i]) # Null
        BY <1>2, <1>3, <3>1 DEF ImportRefused
      <3> QED BY <3>2, <3>3
    <2>2. CASE d \notin Sent(Len(file))
      <3>1. row'[d] = row[d]
        BY <1>1, <1>3, <2>2 DEF ImportedSoFar, OthersStay
      <3> QED BY <1>3, <3>1 DEF RulesInv, Accepts
    <2> QED BY <2>1, <2>2
  <1>4. Accepts(row')
    BY <1>1, <1>3 DEF ImportedSoFar, Apart, Accepts
  <1> QED BY <1>1, <1>2, <1>4

LEMMA ImportKeepsRules ==
    ASSUME RulesInv, Import
    PROVE  RulesInv'
  <1>1. RulesTypeOK /\ file' = <<>> /\ UNCHANGED <<def, written>>
    BY DEF RulesInv, Import
  <1>2. FileApart' /\ file' \in Seq(Record)
    BY <1>1 DEF FileApart
  <1>3. CASE ImportRefused
    <2>1. UNCHANGED <<row, version, waived>>
      BY <1>3 DEF Import
    <2>2. RulesTypeOK'
      BY <1>1, <1>2, <2>1 DEF RulesTypeOK
    <2>3. (Accepts(row) /\ UniqueWaived /\ RequiredWaived)'
      BY <1>1, <2>1 DEF RulesInv, Accepts, UniqueWaived, RequiredWaived, Present, UniqueColumn, NotNullColumn
    <2> QED BY <1>2, <2>2, <2>3 DEF RulesInv
  <1>4. CASE ~ImportRefused
    <2>1. /\ ImportedSoFar(Len(file), row') /\ Named = Sent(Len(file)) /\ Accepts(row')
          /\ waived' = Waiving(row', Named, {"required", "unique"})
          /\ \E ds : Forget(ds)
      BY <1>4, ImportSucceeds DEF Import
    <2>2. Named \in SUBSET Docs /\ row' \in Rows
      BY <2>1, FileFacts DEF Named, ImportedSoFar
    <2>3. \A x \in Docs \ Named : row'[x] \in {row[x], Absent}
      BY <2>1 DEF ImportedSoFar, OthersStay
    <2>4. /\ (Accepts(row) /\ UniqueWaived /\ RequiredWaived)'
          /\ waived' \in [Docs -> SUBSET {"required", "unique"}] /\ row' \in Rows
      BY <1>1, <2>1, <2>2, <2>3, PutKeeps
    <2>5. version' \in Record \cup {Absent}
      BY <1>1, <2>1, ForgetsRecord DEF RulesTypeOK
    <2>6. RulesTypeOK'
      BY <1>1, <1>2, <2>4, <2>5 DEF RulesTypeOK, Rows
    <2> QED BY <1>2, <2>4, <2>6 DEF RulesInv
  <1> QED BY <1>3, <1>4

LEMMA ImportArrives ==
    ASSUME RulesInv, Import, ~ImportRefused
    PROVE  /\ \A i \in DOMAIN file : Kept(file[i])
           /\ \A d \in Present \ Named : row'[d] = row[d] \/ Displaced(d)
  <1>1. ImportedSoFar(Len(file), row') /\ Named = Sent(Len(file))
    BY ImportSucceeds
  <1>2. DOMAIN file = 1 .. Len(file) /\ Len(file) \in Nat
    BY FileFacts
  <1>3. ASSUME NEW i \in 1 .. Len(file) PROVE Kept(file[i])
    <2>1. New(i) # Absent /\ New(i).value = Imported(file[i]) /\ New(i).published = TRUE
      BY FileFacts, RulesAssumption DEF New
    <2>2. CASE row'[file[i].id] = New(i)
      BY <2>1, <2>2 DEF Kept, Imported
    <2>3. ASSUME UniqueColumn, row'[file[i].id] = Absent, Imported(file[i]) # Null,
                 NEW j \in i + 1 .. Len(file), Imported(file[j]) = Imported(file[i])
          PROVE  Kept(file[i])
      <3>1. j \in 1 .. Len(file) /\ i # j
        BY <1>2
      <3>2. file[i].value = file[j].value => file[i].value = Null
        BY <1>2, <2>3, <3>1 DEF RulesInv, FileApart
      <3>3. Imported(file[i]) = def.default
        BY <2>3, <3>2 DEF Imported
      <3> QED BY <2>3, <3>3 DEF Kept
    <2> QED BY <1>1, <2>2, <2>3 DEF ImportedSoFar, SentArrive
  <1>4. ASSUME NEW d \in Present \ Named PROVE row'[d] = row[d] \/ Displaced(d)
    BY <1>1, <1>2, <1>4 DEF ImportedSoFar, OthersStay, Displaced, Present
  <1> QED BY <1>2, <1>3, <1>4

LEMMA RulesStep == RulesInv /\ [RulesNext]_rulesVars => RulesInv'
  <1> SUFFICES ASSUME RulesInv, [RulesNext]_rulesVars PROVE RulesInv'
    OBVIOUS
  <1>1. ASSUME NEW d \in Docs, NEW r \in Requests, Create(d, r) \/ Update(d, r) \/ UpdateDraft(d, r)
        PROVE  RulesInv'
    BY <1>1, CreateKeeps, UpdateKeeps, UpdateDraftKeeps
  <1>2. ASSUME NEW d \in Docs, NEW v \in Values \cup {Null},
               UncheckedUpdate(d, v) \/ \E draft \in BOOLEAN : UncheckedCreate(d, v, draft)
        PROVE  RulesInv'
    BY <1>2, UncheckedSteps
  <1>3. ASSUME NEW ds \in SUBSET Docs, NEW v \in Values \cup {Null}, UpdateMany(ds, v) PROVE RulesInv'
    BY <1>3, UpdateManyKeeps
  <1>4. ASSUME version # Absent, NEW published \in {TRUE, version.published}, RestoreVersion(published)
        PROVE  RulesInv'
    BY <1>4, RestoreKeeps
  <1>5. ASSUME NEW d \in Docs, Unpublish(d) \/ Delete(d) PROVE RulesInv'
    BY <1>5, UnpublishKeeps, DeleteKeeps
  <1>6. CASE Export \/ Import
    BY <1>6, ExportKeeps, ImportKeepsRules
  <1>7. CASE UNCHANGED rulesVars
    <2>1. RulesTypeOK'
      BY <1>7 DEF rulesVars, RulesInv, RulesTypeOK
    <2> QED BY <1>7, <2>1, ValuesStill DEF rulesVars
  <1> QED BY <1>1, <1>2, <1>3, <1>4, <1>5, <1>6, <1>7 DEF RulesNext

LEMMA RulesInitInv == RulesInit => RulesInv
  <1> SUFFICES ASSUME RulesInit PROVE RulesInv
    OBVIOUS
  <1>1. RulesTypeOK
    <2>1. def \in Field /\ def.default \in Stored /\ Null \in Stored /\ def.drafts \in BOOLEAN
      BY RulesAssumption DEF RulesInit, Field, Stored
    <2>2. row \in Rows
      BY DEF RulesInit, Rows, Brought
    <2>3. version \in Record \cup {Absent}
      BY <2>1, AsRecord DEF RulesInit, Earlier, Present
    <2>4. waived \in [Docs -> SUBSET {"required", "unique"}]
      BY DEF RulesInit
    <2> QED BY <2>2, <2>3, <2>4, RulesAssumption DEF RulesInit, RulesTypeOK, Rows
  <1>2. \A d \in Docs : def.first => row[d] = Absent
    BY DEF RulesInit, Brought
  <1>3. /\ Accepts(row)
        /\ \A d \in Docs : row[d] # Absent => waived[d] = {"required", "unique"}
    BY <1>2 DEF RulesInit, Present, Accepts, UniqueColumn, NotNullColumn, Sharing
  <1>4. UniqueWaived /\ RequiredWaived
    BY <1>3 DEF UniqueWaived, RequiredWaived, Present, Sharing
  <1>5. FileApart
    BY DEF RulesInit, FileApart
  <1> QED BY <1>1, <1>3, <1>4, <1>5 DEF RulesInv

LEMMA RulesInvariance == RulesSpec => []RulesInv
  BY RulesInitInv, RulesStep, PTL DEF RulesSpec

(* Two documents share a unique value, and one is published without a      *)
(* required value, only where the rule was left out for them or they were  *)
(* there before the column, and never where it was created with the table: *)
(* for any documents, values and order of writes                           *)
(* (hooks/lifecycle/validation, db/query/write, commands/export.rs,        *)
(* add_field_columns).                                                     *)
THEOREM RulesAreKept == RulesSpec => []RulesKept
  BY RulesInvariance, InvIsRules, PTL

(* An import brings every document of a file of any length in as it was    *)
(* exported, and removes others only from the way of a unique value        *)
(* (commands/export.rs, build_upsert).                                     *)
THEOREM ImportsKeep == RulesSpec => ImportKeeps
  <1>1. RulesInv =>
          [Import /\ ~ImportRefused =>
              /\ \A i \in DOMAIN file : Kept(file[i])
              /\ \A d \in Present \ Named : row'[d] = row[d] \/ Displaced(d)]_rulesVars
    BY ImportArrives
  <1> QED BY <1>1, RulesInvariance, PTL DEF ImportKeeps
=============================================================================
