-------------------------- MODULE DocumentsProofs --------------------------
(***************************************************************************)
(* Proofs about Documents for every set of documents, texts, items and     *)
(* RestoreVersion calls and every max_versions: type correctness, one      *)
(* latest version, the row as its history says, a fresh search index,      *)
(* nothing left of a deleted document, and pruning from the oldest.        *)
(***************************************************************************)
EXTENDS Documents, FiniteSetTheorems, TLAPS

\* Version ids are not used twice, and only finitely many were.
Ids ==
    /\ IsFiniteSet(versions)
    /\ \A v \in versions : v.id < nextId
    /\ \A v, w \in versions : v.id = w.id => v = w

\* The steps of a call that has read the number of its version.
Numbered == {"clear_latest", "insert"}

\* What hangs on a row goes with it, and a call has written only to rows that
\* are there or were deleted since; a call numbers its version from 1.
Rooted ==
    /\ \A d \in Docs : ~Exists(d) => index[d] = None /\ History(d) = {}
    /\ \A d \in deleted : ~Exists(d)
    /\ \A r \in Restorers :
         call[r].step \in Writing => Exists(call[r].doc) \/ call[r].doc \in deleted
    /\ \A r \in Restorers : call[r].step \in Numbered => call[r].num # 0

\* The latest version of d, if published, is what the row holds.
Matches(d) ==
    \A v \in History(d) :
        v.latest /\ v.status = "published" =>
            row[d] = [text |-> v.text, items |-> v.items, status |-> "published"]

\* What a call that has the document to itself has written so far.
Progress(r) ==
    LET c == call[r]
        d == call[r].doc
    IN  /\ row[d].text = c.text
        /\ c.step = "fill_items" => row[d].items = {}
        /\ c.step \notin {"clear_items", "fill_items"} => row[d].items = c.items
        /\ c.step \in {"number", "clear_latest", "insert"} => row[d].status = c.status
        /\ c.step \in {"clear_latest", "insert"} => \A v \in History(d) : v.num < c.num
        /\ c.step = "insert" => \A v \in History(d) : ~v.latest

\* A document that is not torn: at most one call is midway on it; with none
\* its history is in order, with one the call's statements have their effect.
Sound(d) ==
    Exists(d) /\ d \notin torn =>
        /\ \A r, q \in Midway(d) : r = q
        /\ Midway(d) = {} => OneLatestOf(d) /\ (d \notin loose => Matches(d))
        /\ \A r \in Midway(d) : Progress(r)

Inv == TypeOK /\ Ids /\ Rooted /\ (\A d \in Docs : Sound(d))

-----------------------------------------------------------------------------
(* A prune leaves a part of what it is given, the newest version in it.    *)
LEMMA KeptFacts ==
    ASSUME NEW S, IsFiniteSet(S), NEW K \in Kept(S)
    PROVE  /\ K \subseteq S
           /\ \A v \in S : (\A w \in S \ {v} : w.num < v.num) /\ (\A w \in S : w.num \in Nat)
                             => v \in K
<1>1. K \subseteq S
  BY DEF Kept
<1>2. ASSUME NEW v \in S, v \notin K,
             \A w \in S \ {v} : w.num < v.num, \A w \in S : w.num \in Nat
      PROVE  FALSE
  <2>1. /\ MaxVersions # 0
        /\ Cardinality(K) = IF Cardinality(S) <= MaxVersions THEN Cardinality(S) ELSE MaxVersions
        /\ \A k \in K : v.num <= k.num
    BY <1>2 DEF Kept
  <2>2. K = {}
    BY <1>1, <1>2, <2>1
  <2>3. Cardinality(K) = 0
    BY <2>2, FS_EmptySet
  <2>4. Cardinality(S) \in Nat /\ Cardinality(S) # 0
    BY <1>2, FS_CardinalityType, FS_EmptySet
  <2> QED
    BY <2>1, <2>3, <2>4, DocumentsAssumption
<1> QED
  BY <1>1, <1>2

(* Clearing flags makes no more versions than there were.                  *)
LEMMA UnflaggedFinite ==
    ASSUME NEW d, IsFiniteSet(versions)
    PROVE  IsFiniteSet(Unflagged(d))
<1> DEFINE f == [v \in versions |->
                   [v EXCEPT !.latest = IF v.parent = d THEN FALSE ELSE v.latest]]
<1>1. f \in Surjection(versions, Unflagged(d))
  BY DEF Unflagged, Surjection
<1> HIDE DEF f
<1> QED
  BY <1>1, FS_Surjection

LEMMA UnflaggedVersions ==
    ASSUME TypeOK, NEW d
    PROVE  Unflagged(d) \subseteq Version
<1> SUFFICES ASSUME NEW v \in versions
             PROVE  [v EXCEPT !.latest = IF v.parent = d THEN FALSE ELSE @] \in Version
  BY DEF Unflagged
<1>1. v \in Version
  BY DEF TypeOK
<1>2. (IF v.parent = d THEN FALSE ELSE v.latest) \in BOOLEAN
  BY <1>1 DEF Version
<1> QED
  BY <1>1, <1>2 DEF Version

\* Clearing the flag changes nothing else, and nothing of other documents.
LEMMA UnflaggedFacts ==
    ASSUME TypeOK, NEW d
    PROVE  /\ \A v \in Unflagged(d) : \E u \in versions :
                /\ v.id = u.id /\ v.parent = u.parent /\ v.num = u.num
                /\ v.parent = d => ~v.latest
                /\ v.parent # d => v = u
           /\ \A u \in versions : u.parent # d => u \in Unflagged(d)
<1> DEFINE F(u) == [u EXCEPT !.latest = IF u.parent = d THEN FALSE ELSE @]
<1>1. Unflagged(d) = {F(u) : u \in versions}
  BY DEF Unflagged
<1>2. ASSUME NEW u \in versions
      PROVE  /\ F(u).id = u.id /\ F(u).parent = u.parent /\ F(u).num = u.num
             /\ u.parent = d => ~F(u).latest
             /\ u.parent # d => F(u) = u
  <2>1. u \in Version
    BY DEF TypeOK
  <2> QED
    BY <2>1 DEF Version
<1> HIDE DEF F
<1>3. ASSUME NEW v \in Unflagged(d)
      PROVE  \E u \in versions :
                /\ v.id = u.id /\ v.parent = u.parent /\ v.num = u.num
                /\ v.parent = d => ~v.latest
                /\ v.parent # d => v = u
  <2>1. PICK u \in versions : v = F(u)
    BY <1>1
  <2> QED
    BY <1>2, <2>1
<1>4. ASSUME NEW u \in versions, u.parent # d PROVE u \in Unflagged(d)
  BY <1>1, <1>2, <1>4
<1> QED
  BY <1>3, <1>4

LEMMA UnflaggedIds ==
    ASSUME TypeOK, Ids, NEW d
    PROVE  /\ \A v \in Unflagged(d) : v.id < nextId
           /\ \A v, w \in Unflagged(d) : v.id = w.id => v = w
<1> USE DEF TypeOK
<1>1. \A v \in Unflagged(d) : \E u \in versions :
        v = [u EXCEPT !.latest = IF u.parent = d THEN FALSE ELSE @] /\ v.id = u.id
  BY DEF Unflagged, Version
<1>2. \A v \in Unflagged(d) : v.id < nextId
  BY <1>1 DEF Ids
<1>3. ASSUME NEW v \in Unflagged(d), NEW w \in Unflagged(d), v.id = w.id PROVE v = w
  <2>1. PICK u \in versions :
          v = [u EXCEPT !.latest = IF u.parent = d THEN FALSE ELSE @] /\ v.id = u.id
    BY <1>1
  <2>2. PICK x \in versions :
          w = [x EXCEPT !.latest = IF x.parent = d THEN FALSE ELSE @] /\ w.id = x.id
    BY <1>1
  <2>3. u = x
    BY <1>3, <2>1, <2>2 DEF Ids
  <2> QED
    BY <2>1, <2>2, <2>3
<1> QED
  BY <1>2, <1>3

(* create_version writes only the versions of its document, and leaves its *)
(* new version as the one that is latest and newest.                       *)
LEMMA AddVersionFacts ==
    ASSUME TypeOK, Ids,
           NEW d \in Docs, NEW status \in Statuses, NEW prune \in BOOLEAN,
           NEW c, c.text \in Texts, c.items \in SUBSET Items,
           AddVersion(d, status, c, prune)
    PROVE  /\ versions' \subseteq Version /\ nextId' \in 1..(MaxIds + 1)
           /\ Ids'
           /\ torn' \subseteq Docs /\ torn \ {d} \subseteq torn' /\ torn' \subseteq torn \cup {d}
           /\ d \in torn' <=> Midway(d) # {}
           /\ \A e \in Docs \ {d} : History(e)' = History(e)
           /\ \E v \in History(d)' :
                /\ v.latest /\ v.status = status /\ v.text = c.text /\ v.items = c.items
                /\ \A w \in History(d)' \ {v} : ~w.latest /\ w.num < v.num
<1> USE DEF TypeOK
<1>1. PICK n \in 1..MaxIds :
        /\ IsNextNum(d, n)
        /\ LET others == {v \in Unflagged(d) : v.parent # d}
               all    == (Unflagged(d) \ others) \cup {Snapshot(d, n, status, c)}
           IN  IF prune THEN \E K \in Kept(all) : versions' = others \cup K
                        ELSE versions' = others \cup all
  BY DEF AddVersion
<1> DEFINE new    == Snapshot(d, n, status, c)
           others == {v \in Unflagged(d) : v.parent # d}
           all    == (Unflagged(d) \ others) \cup {new}
<1>2. nextId <= MaxIds /\ nextId' = nextId + 1
  BY DEF AddVersion
<1>3. new \in Version /\ new.parent = d /\ new.latest /\ new.num = n /\ new.id = nextId
  BY <1>2, DocumentsAssumption DEF Snapshot, Version
<1>4. \A v \in Unflagged(d) :
         /\ v \in Version
         /\ \E u \in versions : v.id = u.id /\ v.parent = u.parent /\ v.num = u.num
         /\ IF v.parent = d THEN ~v.latest ELSE v \in versions
  BY UnflaggedFacts, UnflaggedVersions
<1>5. \A u \in versions : u.parent # d => u \in Unflagged(d)
  BY UnflaggedFacts
<1>6. PICK K \in SUBSET all : versions' = others \cup K /\ new \in K
  <2>1. IsFiniteSet(all)
    <3>1. IsFiniteSet(Unflagged(d))
      BY UnflaggedFinite DEF Ids
    <3>2. IsFiniteSet(Unflagged(d) \ others)
      BY <3>1, FS_Difference
    <3> QED
      BY <3>2, FS_AddElement
  <2>2. new \in all /\ \A w \in all : w.num \in Nat
    BY <1>3, <1>4 DEF Version
  <2>3. \A w \in all \ {new} : w.num < new.num
    <3>1. SUFFICES ASSUME NEW w \in Unflagged(d), w.parent = d PROVE w.num < n
      BY <1>3
    <3>2. PICK u \in versions : u.parent = d /\ w.num = u.num
      BY <1>4, <3>1
    <3> QED
      BY <1>1, <3>2 DEF IsNextNum, History
  <2>4. ASSUME NEW L \in Kept(all) PROVE L \subseteq all /\ new \in L
    <3> HIDE DEF all, new
    <3> QED
      BY <2>1, <2>2, <2>3, KeptFacts
  <2> QED
    BY <1>1, <2>2, <2>4
<1>7. versions' \subseteq Version
  BY <1>3, <1>4, <1>6
<1>8. IsFiniteSet(versions')
  <2>1. IsFiniteSet(Unflagged(d))
    BY UnflaggedFinite DEF Ids
  <2>2. IsFiniteSet(Unflagged(d) \cup {new})
    BY <2>1, FS_AddElement
  <2>3. versions' \subseteq Unflagged(d) \cup {new}
    BY <1>6
  <2> QED
    BY <2>2, <2>3, FS_Subset
<1>9. \A v, w \in Unflagged(d) : v.id = w.id => v = w
  BY UnflaggedIds
<1>10. Ids'
  <2>1. \A v \in Unflagged(d) : v.id < nextId /\ v.id \in Nat
    BY <1>4 DEF Ids, Version
  <2>2. versions' \subseteq Unflagged(d) \cup {new}
    BY <1>6
  <2>3. \A v \in versions' : v.id < nextId'
    BY <2>1, <2>2, <1>2, <1>3, DocumentsAssumption
  <2>4. \A v, w \in versions' : v.id = w.id => v = w
    BY <2>1, <2>2, <1>3, <1>9, DocumentsAssumption
  <2> QED
    BY <1>8, <2>3, <2>4 DEF Ids
<1>11. \A e \in Docs \ {d} : History(e)' = History(e)
  BY <1>3, <1>4, <1>5, <1>6 DEF History
<1>12. \A w \in K \ {new} : w.parent = d /\ ~w.latest /\ w.num < n
  <2>1. SUFFICES ASSUME NEW w \in Unflagged(d), w.parent = d PROVE ~w.latest /\ w.num < n
    BY <1>6
  <2>2. PICK u \in versions : u.parent = d /\ w.num = u.num
    BY <1>4, <2>1
  <2> QED
    BY <1>1, <1>4, <2>1, <2>2 DEF IsNextNum, History
<1>13. History(d)' = K
  BY <1>3, <1>6, <1>12 DEF History
<1>14. /\ torn' \subseteq Docs /\ torn \ {d} \subseteq torn' /\ torn' \subseteq torn \cup {d}
       /\ d \in torn' <=> Midway(d) # {}
  BY DEF AddVersion
<1>15. new.latest /\ new.status = status /\ new.text = c.text /\ new.items = c.items
  BY DEF Snapshot
<1>16. new \in History(d)' /\ \A w \in History(d)' \ {new} : ~w.latest /\ w.num < new.num
  BY <1>3, <1>6, <1>12, <1>13
<1> HIDE DEF new
<1> QED
  BY <1>2, <1>7, <1>10, <1>11, <1>14, <1>15, <1>16, DocumentsAssumption

(* A row after a write of some of its fields is a row.                     *)
LEMMA MergeFacts ==
    ASSUME NEW c \in Row, NEW in \in Input
    PROVE  /\ Merge(c, in) \in Row
           /\ Merge(c, in).status = c.status
<1>1. /\ in.text \in Texts \/ in.text = None
      /\ in.items \in SUBSET Items \/ in.items = None
  BY DEF Input
<1>2. c.text \in Texts /\ c.items \in SUBSET Items /\ c.status \in Statuses
  BY DEF Row
<1>3. (IF in.text = None THEN c.text ELSE in.text) \in Texts
  BY <1>1, <1>2
<1>4. (IF in.items = None THEN c.items ELSE in.items) \in SUBSET Items
  BY <1>1, <1>2
<1> QED
  BY <1>2, <1>3, <1>4 DEF Merge, Row

-----------------------------------------------------------------------------
(***************************************************************************)
(* Types, version ids and what hangs on a row.                             *)
(***************************************************************************)
Basic == TypeOK /\ Ids /\ Rooted

LEMMA CallType ==
    ASSUME TypeOK, NEW r \in Restorers, call[r].step # "idle"
    PROVE  /\ call[r].step \in Steps \ {"idle"} /\ call[r].doc \in Docs
           /\ call[r].status \in Statuses /\ call[r].text \in Texts
           /\ call[r].items \in SUBSET Items /\ call[r].num \in 0..MaxIds
           /\ \A s \in Steps \ {"idle"} : [call[r] EXCEPT !.step = s] \in Call
  BY DEF TypeOK, Call, Idle

(* A write of d that records a version keeps these, whatever the version.  *)
LEMMA WriteBasic ==
    ASSUME Basic, NEW d \in Docs, NEW status \in Statuses, NEW prune \in BOOLEAN,
           NEW c, c.text \in Texts, c.items \in SUBSET Items,
           AddVersion(d, status, c, prune),
           NEW new \in Row, row' = [row EXCEPT ![d] = new],
           NEW t \in Texts \cup {None}, index' = [index EXCEPT ![d] = t],
           d \notin deleted, UNCHANGED <<call, deleted>>,
           loose' \subseteq Docs, unindexed' \subseteq Docs
    PROVE  Basic'
<1> USE DEF Basic
<1>1. /\ versions' \subseteq Version /\ nextId' \in 1..(MaxIds + 1) /\ Ids' /\ torn' \subseteq Docs
      /\ \A e \in Docs \ {d} : History(e)' = History(e)
  BY AddVersionFacts
<1>2. TypeOK'
  BY <1>1 DEF TypeOK
<1>3. Exists(d)' /\ \A e \in Docs \ {d} : Exists(e)' = Exists(e)
  BY DocumentsAssumption DEF TypeOK, Exists
<1>4. (\A e \in Docs : ~Exists(e) => index[e] = None /\ History(e) = {})'
  BY <1>1, <1>3 DEF TypeOK, Rooted
<1>5. (\A e \in deleted : ~Exists(e))'
  BY <1>3 DEF TypeOK, Rooted
<1>6. (\A r \in Restorers :
         call[r].step \in Writing => Exists(call[r].doc) \/ call[r].doc \in deleted)'
  <2>1. SUFFICES ASSUME NEW r \in Restorers, call[r].step \in Writing, call'[r] = call[r]
                 PROVE  Exists(call[r].doc)' \/ call[r].doc \in deleted
    OBVIOUS
  <2>2. call[r].doc \in Docs
    BY <2>1, CallType DEF Writing
  <2> QED
    BY <1>3, <2>1, <2>2 DEF Rooted
<1>7. (\A r \in Restorers : call[r].step \in Numbered => call[r].num # 0)'
  BY DEF Rooted
<1> QED
  BY <1>1, <1>2, <1>4, <1>5, <1>6, <1>7 DEF Rooted


LEMMA CreateBasic ==
    ASSUME Basic, NEW d \in Docs, NEW c \in Content, NEW draft \in BOOLEAN, Create(d, c, draft)
    PROVE  Basic'
<1> DEFINE status == IF draft /\ d \in DraftDocs THEN "draft" ELSE "published"
<1>1. status \in Statuses /\ c.text \in Texts /\ c.items \in SUBSET Items
  BY DEF Statuses, Content
<1>2. AddVersion(d, status, c, TRUE)
  BY DEF Create
<1>3. [text |-> c.text, items |-> c.items, status |-> status] \in Row
  BY <1>1 DEF Row
<1> QED
  BY <1>1, <1>2, <1>3, WriteBasic DEF Create, Basic, TypeOK

LEMMA PublishBasic ==
    ASSUME Basic, NEW d \in Docs, NEW in \in Input, Publish(d, in)
    PROVE  Basic'
<1> DEFINE new == [Merge(row[d], in) EXCEPT !.status = "published"]
<1>1. row[d] \in Row /\ d \notin deleted
  BY DEF Basic, TypeOK, Publish, Exists, Rooted
<1>2. new \in Row
  BY <1>1, MergeFacts DEF Row, Statuses
<1>3. row' = [row EXCEPT ![d] = new] /\ row'[d] = new
  BY DEF Publish, Basic, TypeOK
<1>4. new.text \in Texts /\ new.items \in SUBSET Items
  BY <1>2 DEF Row
<1> HIDE DEF new
<1> QED
  BY <1>1, <1>2, <1>3, <1>4, WriteBasic DEF Publish, Basic, TypeOK, Statuses

LEMMA SaveDraftBasic ==
    ASSUME Basic, NEW d \in Docs, NEW in \in Input, SaveDraft(d, in)
    PROVE  Basic'
<1>1. row[d] \in Row /\ d \notin deleted
  BY DEF Basic, TypeOK, SaveDraft, Exists, Rooted
<1>2. Merge(row[d], in) \in Row
  BY <1>1, MergeFacts
<1>3. Merge(row[d], in).text \in Texts /\ Merge(row[d], in).items \in SUBSET Items
  BY <1>2 DEF Row
<1>4. row' = [row EXCEPT ![d] = row[d]] /\ index' = [index EXCEPT ![d] = index[d]]
  BY DEF SaveDraft, Basic, TypeOK
<1> QED
  BY <1>1, <1>3, <1>4, WriteBasic DEF SaveDraft, Basic, TypeOK, Statuses

LEMMA UnpublishBasic ==
    ASSUME Basic, NEW d \in Docs, Unpublish(d)
    PROVE  Basic'
<1> DEFINE new == [row[d] EXCEPT !.status = "draft"]
<1>1. row[d] \in Row /\ d \notin deleted
  BY DEF Basic, TypeOK, Unpublish, Exists, Rooted
<1>2. new \in Row /\ row[d].text \in Texts /\ row[d].items \in SUBSET Items
  BY <1>1 DEF Row, Statuses
<1>3. row' = [row EXCEPT ![d] = new]
  BY DEF Unpublish, Basic, TypeOK
<1>4. index' = [index EXCEPT ![d] = index[d]]
  BY DEF Unpublish, Basic, TypeOK
<1> HIDE DEF new
<1> QED
  BY <1>1, <1>2, <1>3, <1>4, WriteBasic DEF Unpublish, Basic, TypeOK, Statuses

LEMMA AdminRestoreBasic ==
    ASSUME Basic, NEW d \in Docs, NEW v \in versions, AdminRestore(d, v)
    PROVE  Basic'
<1> DEFINE new == [text |-> v.text, items |-> v.items, status |-> "published"]
<1>1. d \notin deleted
  BY DEF Basic, AdminRestore, Rooted
<1>2. v.text \in Texts /\ v.items \in SUBSET Items
  BY DEF Basic, TypeOK, Version
<1>3. new \in Row
  BY <1>2 DEF Row, Statuses
<1>4. row' = [row EXCEPT ![d] = new]
  BY DEF AdminRestore
<1>5. index' = [index EXCEPT ![d] = index[d]] /\ index[d] \in Texts \cup {None}
  BY DEF AdminRestore, Basic, TypeOK
<1>6. AddVersion(d, "published", v, FALSE) /\ UNCHANGED <<call, deleted>>
  BY DEF AdminRestore
<1>7. loose' \subseteq Docs /\ unindexed' \subseteq Docs
  BY DEF AdminRestore, Basic, TypeOK
<1> HIDE DEF new
<1> QED
  BY <1>1, <1>2, <1>3, <1>4, <1>5, <1>6, <1>7, WriteBasic DEF Statuses

LEMMA UpdateManyBasic ==
    ASSUME Basic, NEW D \in SUBSET Docs, NEW in \in Input, UpdateMany(D, in)
    PROVE  Basic'
<1> USE DEF Basic, UpdateMany
<1>1. \A d \in D : Merge(row[d], in) \in Row
  BY MergeFacts DEF TypeOK, Exists
<1>2. row' \in [Docs -> Row \cup {None}] /\ \A d \in D : row'[d] \in Row
  BY <1>1 DEF TypeOK
<1>3. index' \in [Docs -> Texts \cup {None}]
  BY <1>2 DEF TypeOK, Row
<1>4. TypeOK' /\ Ids'
  BY <1>2, <1>3 DEF TypeOK, Ids
<1>5. \A d \in Docs : Exists(d)' = Exists(d) /\ History(d)' = History(d)
  BY <1>2, DocumentsAssumption DEF TypeOK, Exists, History
<1>6. \A d \in Docs : ~Exists(d) => index'[d] = index[d]
  BY DEF TypeOK
<1>7. \A r \in Restorers : call[r].step \in Writing => call[r].doc \in Docs
  BY CallType DEF Writing
<1> QED
  BY <1>4, <1>5, <1>6, <1>7 DEF Rooted, TypeOK

LEMMA DeleteBasic ==
    ASSUME Basic, NEW d \in Docs, Delete(d)
    PROVE  Basic'
<1> USE DEF Basic, Delete
<1>1. TypeOK'
  BY DEF TypeOK
<1>2. Ids'
  BY FS_Subset DEF Ids
<1>3. ~Exists(d)' /\ History(d)' = {} /\ index'[d] = None
  BY DEF TypeOK, Exists, History
<1>4. \A e \in Docs \ {d} : Exists(e)' = Exists(e) /\ History(e)' = History(e) /\ index'[e] = index[e]
  BY DEF TypeOK, Exists, History
<1>5. \A r \in Restorers : call[r].step \in Writing => call[r].doc \in Docs
  BY CallType DEF Writing
<1> QED
  BY <1>1, <1>2, <1>3, <1>4, <1>5 DEF Rooted, TypeOK

(* A statement of a RestoreVersion call that writes no version.            *)
LEMMA StatementBasic ==
    ASSUME Basic, NEW r \in Restorers, call[r].step # "idle",
           row' \in [Docs -> Row \cup {None}],
           \A d \in Docs : row'[d] = None <=> row[d] = None,
           call' \in [Restorers -> Call],
           \A q \in Restorers \ {r} : call'[q] = call[q],
           call'[r].step \in Writing =>
               /\ call'[r].doc = call[r].doc
               /\ call[r].step \in Writing \/ Exists(call[r].doc),
           call'[r].step \in Numbered => call'[r].num # 0,
           torn' \subseteq Docs, loose' \subseteq Docs, unindexed' \subseteq Docs,
           UNCHANGED <<index, versions, nextId, deleted>>
    PROVE  Basic'
<1> USE DEF Basic
<1>1. TypeOK' /\ Ids'
  BY DEF TypeOK, Ids
<1>2. \A d \in Docs : Exists(d)' = Exists(d) /\ History(d)' = History(d)
  BY DEF Exists, History
<1>3. \A q \in Restorers : call[q].step \in Writing => call[q].doc \in Docs
  BY CallType DEF Writing
<1>4. call[r].doc \in Docs
  BY CallType
<1>5. \A q \in Restorers : call'[q].step \in Writing =>
        /\ call'[q].doc \in Docs
        /\ Exists(call'[q].doc) \/ call'[q].doc \in deleted
  BY <1>3, <1>4 DEF Rooted
<1>6. (\A q \in Restorers :
         call[q].step \in Writing => Exists(call[q].doc) \/ call[q].doc \in deleted)'
  BY <1>2, <1>5
<1>7. (\A q \in Restorers : call[q].step \in Numbered => call[q].num # 0)'
  BY DEF Rooted
<1> QED
  BY <1>1, <1>2, <1>6, <1>7 DEF Rooted, TypeOK

LEMMA RestoreBasic ==
    ASSUME Basic, NEW r \in Restorers, RestoreStep(r)
    PROVE  Basic'
<1> USE DEF Basic
<1>0. call[r].step # "idle"
  BY DEF RestoreStep, WriteColumns, ClearItems, FillItems, WriteStatus, ReadNumber,
         ClearLatest, InsertVersion, RestoreFails
<1> DEFINE d == call[r].doc
<1>a. /\ call[r].step \in Steps \ {"idle"} /\ d \in Docs
      /\ call[r].status \in Statuses /\ call[r].text \in Texts
      /\ call[r].items \in SUBSET Items /\ call[r].num \in 0..MaxIds
      /\ \A s \in Steps \ {"idle"} : [call[r] EXCEPT !.step = s] \in Call
  BY <1>0, CallType
<1>b. TornBy(r, d) \subseteq Docs /\ torn \cup {d} \subseteq Docs
  BY <1>a DEF TornBy, TypeOK
<1>c. \A s \in Steps \ {"idle"} : Goto(r, s) =>
        /\ call' \in [Restorers -> Call]
        /\ \A q \in Restorers \ {r} : call'[q] = call[q]
        /\ call'[r].doc = d /\ call'[r].step = s /\ call'[r].num = call[r].num
  BY <1>a DEF Goto, TypeOK, Call, Idle
<1>d. row[d] # None => row[d] \in Row
  BY <1>a DEF TypeOK
<1>e. ASSUME NEW s \in Steps \ {"idle"}, s \notin Numbered, Goto(r, s), torn' = TornBy(r, d),
             row' \in [Docs -> Row \cup {None}],
             \A e \in Docs : row'[e] = None <=> row[e] = None,
             call[r].step \in Writing \/ Exists(d), unindexed' \subseteq Docs,
             UNCHANGED <<index, versions, nextId, deleted, loose>>
      PROVE  Basic'
  <2>1. loose' \subseteq Docs
    BY <1>e DEF TypeOK
  <2>2. /\ call' \in [Restorers -> Call]
        /\ \A q \in Restorers \ {r} : call'[q] = call[q]
        /\ call'[r].doc = call[r].doc /\ call'[r].step \notin Numbered
    BY <1>e, <1>c
  <2> QED
    BY <1>0, <1>b, <1>e, <2>1, <2>2, StatementBasic
<1> HIDE DEF d
<1>1. CASE WriteColumns(r)
  <2>1. row' = [row EXCEPT ![d].text = call[r].text] /\ row[d] \in Row /\ Exists(d)
    BY <1>1, <1>d DEF WriteColumns, d, Exists
  <2>2. row' \in [Docs -> Row \cup {None}] /\ row'[d] \in Row
    BY <2>1, <1>a DEF TypeOK, Row
  <2>3. \A e \in Docs : row'[e] = None <=> row[e] = None
    BY <2>1, <2>2, <1>a, DocumentsAssumption DEF TypeOK
  <2>5. /\ Goto(r, "clear_items") /\ torn' = TornBy(r, d) /\ Exists(d)
        /\ unindexed' = unindexed \cup {d} /\ UNCHANGED <<index, versions, nextId, deleted, loose>>
    BY <1>1 DEF WriteColumns, d, Steps, Writing
  <2>6. unindexed' \subseteq Docs /\ "clear_items" \in Steps \ {"idle"} /\ "clear_items" \notin Numbered
    BY <2>5, <1>a DEF TypeOK, Steps, Numbered
  <2> QED
    BY <1>e, <2>2, <2>3, <2>5, <2>6
<1>2. CASE ClearItems(r)
  <2>1. Exists(d) => row' = [row EXCEPT ![d].items = {}] /\ row[d] \in Row
    BY <1>2, <1>d DEF ClearItems, d, Exists
  <2>2. ~Exists(d) => row' = row
    BY <1>2 DEF ClearItems, d
  <2>3. row' \in [Docs -> Row \cup {None}] /\ (Exists(d) => row'[d] \in Row)
    BY <2>1, <2>2, <1>a DEF TypeOK, Row
  <2>4. \A e \in Docs : row'[e] = None <=> row[e] = None
    BY <2>1, <2>2, <2>3, <1>a, DocumentsAssumption DEF TypeOK, Exists
  <2>5. /\ Goto(r, "fill_items") /\ torn' = TornBy(r, d) /\ call[r].step \in Writing
        /\ unindexed' = unindexed /\ UNCHANGED <<index, versions, nextId, deleted, loose>>
    BY <1>2 DEF ClearItems, d, Steps, Writing
  <2>6. unindexed' \subseteq Docs /\ "fill_items" \in Steps \ {"idle"} /\ "fill_items" \notin Numbered
    BY <2>5, <1>a DEF TypeOK, Steps, Numbered
  <2> QED
    BY <1>e, <2>3, <2>4, <2>5, <2>6
<1>3. CASE FillItems(r)
  <2>1. Exists(d) => row' = [row EXCEPT ![d].items = @ \cup call[r].items] /\ row[d] \in Row
    BY <1>3, <1>d DEF FillItems, d, Exists
  <2>2. ~Exists(d) => row' = row
    BY <1>3 DEF FillItems, d
  <2>3. row' \in [Docs -> Row \cup {None}] /\ (Exists(d) => row'[d] \in Row)
    BY <2>1, <2>2, <1>a DEF TypeOK, Row
  <2>4. \A e \in Docs : row'[e] = None <=> row[e] = None
    BY <2>1, <2>2, <2>3, <1>a, DocumentsAssumption DEF TypeOK, Exists
  <2>5. /\ Goto(r, "status") /\ torn' = TornBy(r, d) /\ call[r].step \in Writing
        /\ unindexed' = unindexed /\ UNCHANGED <<index, versions, nextId, deleted, loose>>
    BY <1>3 DEF FillItems, d, Steps, Writing
  <2>6. unindexed' \subseteq Docs /\ "status" \in Steps \ {"idle"} /\ "status" \notin Numbered
    BY <2>5, <1>a DEF TypeOK, Steps, Numbered
  <2> QED
    BY <1>e, <2>3, <2>4, <2>5, <2>6
<1>4. CASE WriteStatus(r)
  <2>1. Exists(d) => row' = [row EXCEPT ![d].status = call[r].status] /\ row[d] \in Row
    BY <1>4, <1>d DEF WriteStatus, d, Exists
  <2>2. ~Exists(d) => row' = row
    BY <1>4 DEF WriteStatus, d
  <2>3. row' \in [Docs -> Row \cup {None}] /\ (Exists(d) => row'[d] \in Row)
    BY <2>1, <2>2, <1>a DEF TypeOK, Row
  <2>4. \A e \in Docs : row'[e] = None <=> row[e] = None
    BY <2>1, <2>2, <2>3, <1>a, DocumentsAssumption DEF TypeOK, Exists
  <2>5. /\ Goto(r, "number") /\ torn' = TornBy(r, d) /\ call[r].step \in Writing
        /\ unindexed' = unindexed /\ UNCHANGED <<index, versions, nextId, deleted, loose>>
    BY <1>4 DEF WriteStatus, d, Steps, Writing
  <2>6. unindexed' \subseteq Docs /\ "number" \in Steps \ {"idle"} /\ "number" \notin Numbered
    BY <2>5, <1>a DEF TypeOK, Steps, Numbered
  <2> QED
    BY <1>e, <2>3, <2>4, <2>5, <2>6
<1>5. CASE ReadNumber(r)
  <2>1. PICK n \in 1..MaxIds : call' = [call EXCEPT ![r].step = "clear_latest", ![r].num = n]
    BY <1>5 DEF ReadNumber
  <2> DEFINE new == [call[r] EXCEPT !.step = "clear_latest", !.num = n]
  <2>2. call' = [call EXCEPT ![r] = new]
    BY <2>1 DEF TypeOK
  <2>3. call[r] \in [step : Steps \ {"idle"}, doc : Docs, status : Statuses, text : Texts,
                     items : SUBSET Items, num : 0..MaxIds]
    BY <1>0 DEF TypeOK, Call, Idle
  <2>4. n \in 0..MaxIds /\ n # 0 /\ "clear_latest" \in Steps \ {"idle"}
    BY DocumentsAssumption DEF Steps
  <2>5. new \in Call /\ new.doc = d /\ new.num = n
    BY <2>3, <2>4 DEF Call, d
  <2>6. call' \in [Restorers -> Call] /\ call'[r] = new
    BY <2>2, <2>5 DEF TypeOK
  <2>7. \A q \in Restorers \ {r} : call'[q] = call[q]
    BY <2>2 DEF TypeOK
  <2> HIDE DEF new
  <2> QED
    BY <1>0, <1>5, <2>4, <2>5, <2>6, <2>7, StatementBasic DEF ReadNumber, d, Writing, Steps, TypeOK
<1>6. CASE ClearLatest(r)
  <2>1. versions' = Unflagged(d) /\ Goto(r, "insert") /\ torn' = TornBy(r, d)
        /\ UNCHANGED <<row, index, nextId, deleted, loose, unindexed>>
    BY <1>6 DEF ClearLatest, d
  <2>2. versions' \subseteq Version
    BY <2>1, UnflaggedVersions
  <2>3. TypeOK'
    BY <2>1, <2>2, <1>b, <1>c DEF TypeOK, Steps
  <2>4. Ids'
    BY <2>1, UnflaggedFinite, UnflaggedIds DEF Ids, TypeOK
  <2>5. \A e \in Docs : Exists(e)' = Exists(e) /\ (History(e) = {} => History(e)' = {})
    <3>1. \A w \in versions' : \E v \in versions : w.parent = v.parent
      BY <2>1, UnflaggedFacts
    <3>2. row' = row
      BY <2>1
    <3> QED
      BY <3>1, <3>2 DEF Exists, History
  <2>6. \A q \in Restorers : call'[q].step \in Writing =>
          /\ call'[q].doc = call[q].doc /\ call[q].step \in Writing /\ call[q].doc \in Docs
    BY <2>1, <1>6, <1>a, <1>c, CallType DEF ClearLatest, Writing, Steps, d
  <2>7. (\A q \in Restorers : call[q].step \in Numbered => call[q].num # 0)'
    BY <2>1, <1>6, <1>a, <1>c DEF ClearLatest, Numbered, Steps, d, Rooted
  <2> QED
    BY <2>1, <2>3, <2>4, <2>5, <2>6, <2>7 DEF Rooted, TypeOK
<1>7. CASE InsertVersion(r)
  <2> DEFINE new == Snapshot(d, call[r].num, call[r].status, call[r])
  <2>1. /\ versions' = versions \cup {new} /\ nextId' = nextId + 1 /\ nextId <= MaxIds
        /\ torn' = TornBy(r, d) /\ loose' = loose \ {d} /\ Exists(d)
        /\ call' = [call EXCEPT ![r] = Idle]
        /\ UNCHANGED <<row, index, deleted, unindexed>>
    BY <1>7 DEF InsertVersion, d
  <2>2. new \in Version /\ new.id = nextId /\ new.parent = d
    <3>1. call[r].num \in 1..MaxIds
      BY <1>7, <1>a, DocumentsAssumption DEF InsertVersion, Rooted, Numbered
    <3>2. nextId \in 1..MaxIds
      BY <2>1, DocumentsAssumption DEF TypeOK
    <3> QED
      BY <3>1, <3>2, <1>a DEF Snapshot, Version
  <2>3. TypeOK'
    BY <2>1, <2>2, <1>b, DocumentsAssumption DEF TypeOK, Call
  <2>4. Ids'
    <3> HIDE DEF new
    <3>1. IsFiniteSet(versions')
      BY <2>1, FS_AddElement DEF Ids
    <3>2. \A v \in versions : v.id \in Nat /\ v.id < nextId
      BY DocumentsAssumption DEF TypeOK, Version, Ids
    <3>3. nextId \in Nat
      BY DocumentsAssumption DEF TypeOK
    <3> QED
      BY <2>1, <2>2, <3>1, <3>2, <3>3 DEF Ids
  <2>5. \A e \in Docs : Exists(e)' = Exists(e) /\ (e # d => History(e)' = History(e))
    BY <2>1, <2>2 DEF Exists, History
  <2>6. \A q \in Restorers : call'[q].step \in Writing =>
          call'[q] = call[q] /\ call[q].doc \in Docs
    BY <2>1, CallType DEF Idle, Writing, TypeOK
  <2>7. (\A q \in Restorers : call[q].step \in Numbered => call[q].num # 0)'
    BY <2>1 DEF Idle, Numbered, TypeOK, Rooted
  <2> QED
    BY <2>1, <2>3, <2>4, <2>5, <2>6, <2>7 DEF Rooted, TypeOK
<1>8. CASE RestoreFails(r)
  <2>1. call' = [call EXCEPT ![r] = Idle] /\ torn' \subseteq Docs
    BY <1>8, <1>b DEF RestoreFails, d, TypeOK
  <2> QED
    BY <1>0, <1>8, <2>1, StatementBasic DEF RestoreFails, Idle, Writing, Numbered, TypeOK, Call
<1> QED
  BY <1>1, <1>2, <1>3, <1>4, <1>5, <1>6, <1>7, <1>8 DEF RestoreStep

LEMMA FindVersionBasic ==
    ASSUME Basic, NEW r \in Restorers, NEW d \in Docs, NEW v \in versions, FindVersion(r, d, v)
    PROVE  Basic'
<1> USE DEF Basic
<1> DEFINE new == [step |-> "columns", doc |-> d, status |-> v.status, text |-> v.text,
                   items |-> v.items, num |-> 0]
<1>1. call' = [call EXCEPT ![r] = new]
      /\ UNCHANGED <<row, index, versions, nextId, deleted, torn, loose, unindexed>>
  BY DEF FindVersion
<1>2. new \in Call /\ new.step \notin Writing /\ new.step \notin Numbered
  BY DocumentsAssumption DEF TypeOK, Version, Call, Steps, Writing, Numbered
<1> HIDE DEF new
<1>3. call' \in [Restorers -> Call] /\ call'[r] = new
      /\ \A q \in Restorers \ {r} : call'[q] = call[q]
  BY <1>1, <1>2 DEF TypeOK
<1>4. TypeOK' /\ Ids'
  BY <1>1, <1>3 DEF TypeOK, Ids
<1>5. \A e \in Docs : Exists(e)' = Exists(e) /\ History(e)' = History(e)
  BY <1>1 DEF Exists, History
<1>6. \A q \in Restorers : call[q].step \in Writing => call[q].doc \in Docs
  BY CallType DEF Writing
<1> QED
  BY <1>1, <1>2, <1>3, <1>4, <1>5, <1>6 DEF Rooted, TypeOK

LEMMA RestartBasic ==
    ASSUME Basic, Restart
    PROVE  Basic'
<1> USE DEF Basic, Restart
<1>1. \A q \in Restorers : call[q].step \in Writing => call[q].doc \in Docs
  BY CallType DEF Writing
<1>2. torn' \subseteq Docs
  BY <1>1 DEF TypeOK
<1>3. index' \in [Docs -> Texts \cup {None}]
  BY DEF TypeOK, Exists, Row
<1>4. TypeOK' /\ Ids'
  BY <1>2, <1>3 DEF TypeOK, Ids, Call
<1>5. \A e \in Docs : Exists(e)' = Exists(e) /\ History(e)' = History(e)
  BY DEF Exists, History
<1>6. \A q \in Restorers : call'[q].step = "idle"
  BY DEF Idle
<1>7. \A e \in Docs : ~Exists(e) => index'[e] = None
  OBVIOUS
<1> QED
  BY <1>4, <1>5, <1>6, <1>7 DEF Rooted, TypeOK, Writing, Numbered

LEMMA BasicNext ==
    ASSUME Basic, [Next]_vars
    PROVE  Basic'
<1>1. CASE UNCHANGED vars
  BY <1>1 DEF vars, Basic, TypeOK, Ids, Rooted, Exists, History
<1>2. ASSUME NEW d \in Docs, Write(d) PROVE Basic'
  BY <1>2, CreateBasic, PublishBasic, SaveDraftBasic, UnpublishBasic, AdminRestoreBasic,
     DeleteBasic DEF Write
<1> QED
  BY <1>1, <1>2, UpdateManyBasic, FindVersionBasic, RestoreBasic, RestartBasic DEF Next

LEMMA BasicInit == Init => Basic
<1> SUFFICES ASSUME Init PROVE Basic
  OBVIOUS
<1> USE DEF Init
<1>1. TypeOK
  BY DocumentsAssumption DEF TypeOK, Call
<1>2. Ids
  BY FS_EmptySet DEF Ids
<1>3. Rooted
  BY DEF Rooted, Exists, History, Idle, Writing, Numbered
<1> QED
  BY <1>1, <1>2, <1>3 DEF Basic

(* TypeOK for every value of the constants: every row, index entry,        *)
(* version and call of service/ and db/query is one of its type.           *)
THEOREM TypeCorrect == Spec => []TypeOK
<1>1. Basic => TypeOK
  BY DEF Basic
<1> QED
  BY <1>1, BasicInit, BasicNext, PTL DEF Spec

(* DeletedForGood: a deleted document's row, index entry and versions stay *)
(* gone, whichever calls were under way when it was deleted.               *)
THEOREM DeletedStaysDeleted == Spec => []DeletedForGood
<1>1. Basic => DeletedForGood
  BY DEF Basic, Rooted, DeletedForGood, TypeOK
<1> QED
  BY <1>1, BasicInit, BasicNext, PTL DEF Spec

-----------------------------------------------------------------------------
(***************************************************************************)
(* The history of a document that no RestoreVersion call has torn.         *)
(***************************************************************************)
(* What a step leaves alone stays sound.                                   *)
LEMMA Frame ==
    ASSUME NEW d \in Docs, Sound(d),
           row'[d] = row[d], History(d)' = History(d),
           d \in torn => d \in torn', d \in loose => d \in loose',
           Midway(d)' = Midway(d), \A r \in Midway(d) : call'[r] = call[r]
    PROVE  Sound(d)'
<1>1. Exists(d)' = Exists(d) /\ OneLatestOf(d)' = OneLatestOf(d) /\ Matches(d)' = Matches(d)
  BY DEF Exists, OneLatestOf, Matches
<1>2. \A r \in Midway(d) : Progress(r)' = Progress(r)
  BY DEF Progress, Midway
<1> QED
  BY <1>1, <1>2 DEF Sound

(* A write that records a version leaves its document torn or in order,    *)
(* and others as they were.                                                *)
LEMMA WriteSound ==
    ASSUME Basic, \A e \in Docs : Sound(e),
           NEW d \in Docs, NEW status \in Statuses, NEW prune \in BOOLEAN,
           NEW c, c.text \in Texts, c.items \in SUBSET Items,
           AddVersion(d, status, c, prune),
           \A e \in Docs \ {d} : row'[e] = row[e] /\ (e \in loose => e \in loose'),
           status = "published" =>
               row'[d] = [text |-> c.text, items |-> c.items, status |-> "published"],
           UNCHANGED call
    PROVE  \A e \in Docs : Sound(e)'
<1>1. /\ torn \ {d} \subseteq torn' /\ (d \in torn' <=> Midway(d) # {})
      /\ \A e \in Docs \ {d} : History(e)' = History(e)
      /\ \E v \in History(d)' :
           /\ v.latest /\ v.status = status /\ v.text = c.text /\ v.items = c.items
           /\ \A w \in History(d)' \ {v} : ~w.latest /\ w.num < v.num
  BY AddVersionFacts DEF Basic
<1>2. \A e \in Docs : Midway(e)' = Midway(e)
  BY DEF Midway
<1>3. ASSUME NEW e \in Docs \ {d} PROVE Sound(e)'
  BY <1>1, <1>2, <1>3, Frame
<1>4. Sound(d)'
  <2>1. OneLatestOf(d)'
    BY <1>1 DEF OneLatestOf
  <2>2. Matches(d)'
    BY <1>1 DEF Matches
  <2> QED
    BY <1>1, <1>2, <2>1, <2>2 DEF Sound
<1> QED
  BY <1>3, <1>4

LEMMA WritesSound ==
    ASSUME Basic, \A e \in Docs : Sound(e), NEW d \in Docs, Write(d)
    PROVE  \A e \in Docs : Sound(e)'
<1>0. row \in [Docs -> Row \cup {None}] /\ (Exists(d) => row[d] \in Row)
  BY DEF Basic, TypeOK, Exists
<1>1. ASSUME NEW c \in Content, NEW draft \in BOOLEAN, Create(d, c, draft)
      PROVE  \A e \in Docs : Sound(e)'
  <2> DEFINE status == IF draft /\ d \in DraftDocs THEN "draft" ELSE "published"
  <2>1. status \in Statuses /\ c.text \in Texts /\ c.items \in SUBSET Items
    BY DEF Statuses, Content
  <2>2. /\ AddVersion(d, status, c, TRUE) /\ UNCHANGED <<call, loose>>
        /\ row' = [row EXCEPT ![d] = [text |-> c.text, items |-> c.items, status |-> status]]
    BY <1>1 DEF Create
  <2> HIDE DEF status
  <2> QED
    BY <1>0, <2>1, <2>2, WriteSound
<1>2. ASSUME NEW in \in Input, Publish(d, in) PROVE \A e \in Docs : Sound(e)'
  <2> DEFINE new == [Merge(row[d], in) EXCEPT !.status = "published"]
  <2>1. new \in Row /\ new.status = "published"
    BY <1>0, <1>2, MergeFacts DEF Row, Statuses, Publish
  <2>2. row' = [row EXCEPT ![d] = new] /\ row'[d] = new
    BY <1>0, <1>2 DEF Publish
  <2> HIDE DEF new
  <2>3. /\ new.text \in Texts /\ new.items \in SUBSET Items
        /\ new = [text |-> new.text, items |-> new.items, status |-> "published"]
    BY <2>1 DEF Row
  <2>4. AddVersion(d, "published", new, TRUE) /\ call' = call /\ loose' = loose \ {d}
    BY <1>2, <2>2 DEF Publish
  <2> QED
    BY <1>0, <2>2, <2>3, <2>4, WriteSound DEF Statuses
<1>3. ASSUME NEW in \in Input, SaveDraft(d, in) PROVE \A e \in Docs : Sound(e)'
  <2>1. Merge(row[d], in) \in Row
    BY <1>0, <1>3, MergeFacts DEF SaveDraft
  <2>2. Merge(row[d], in).text \in Texts /\ Merge(row[d], in).items \in SUBSET Items
    BY <2>1 DEF Row
  <2>3. AddVersion(d, "draft", Merge(row[d], in), TRUE) /\ UNCHANGED <<row, call, loose>>
    BY <1>3 DEF SaveDraft
  <2> QED
    BY <2>2, <2>3, WriteSound DEF Statuses
<1>4. CASE Unpublish(d)
  <2>1. row[d].text \in Texts /\ row[d].items \in SUBSET Items
    BY <1>0, <1>4 DEF Unpublish, Row
  <2>2. /\ AddVersion(d, "draft", row[d], TRUE) /\ UNCHANGED <<call, loose>>
        /\ \A e \in Docs \ {d} : row'[e] = row[e]
    BY <1>0, <1>4 DEF Unpublish
  <2> QED
    BY <2>1, <2>2, WriteSound DEF Statuses
<1>5. ASSUME NEW v \in versions, AdminRestore(d, v) PROVE \A e \in Docs : Sound(e)'
  <2>1. v.text \in Texts /\ v.items \in SUBSET Items
    BY DEF Basic, TypeOK, Version
  <2>2. /\ AddVersion(d, "published", v, FALSE) /\ call' = call /\ loose' = loose \ {d}
        /\ row' = [row EXCEPT ![d] = [text |-> v.text, items |-> v.items,
                                      status |-> "published"]]
    BY <1>5 DEF AdminRestore
  <2> QED
    BY <1>0, <2>1, <2>2, WriteSound DEF Statuses
<1>6. CASE Delete(d)
  <2>1. ~Exists(d)'
    BY <1>0, <1>6 DEF Delete, Exists
  <2>2. ASSUME NEW e \in Docs \ {d} PROVE Sound(e)'
    <3>1. /\ row'[e] = row[e] /\ History(e)' = History(e) /\ UNCHANGED <<call, torn, loose>>
      BY <1>0, <1>6 DEF Delete, History
    <3>2. Midway(e)' = Midway(e)
      BY <3>1 DEF Midway
    <3> QED
      BY <3>1, <3>2, Frame
  <2> QED
    BY <2>1, <2>2 DEF Sound
<1> QED
  BY <1>1, <1>2, <1>3, <1>4, <1>5, <1>6 DEF Write

LEMMA UpdateManySound ==
    ASSUME Basic, \A e \in Docs : Sound(e), NEW D \in SUBSET Docs, NEW in \in Input,
           UpdateMany(D, in)
    PROVE  \A e \in Docs : Sound(e)'
<1> SUFFICES ASSUME NEW e \in Docs PROVE Sound(e)'
  OBVIOUS
<1>1. History(e)' = History(e) /\ Midway(e)' = Midway(e) /\ call' = call
  BY DEF UpdateMany, History, Midway
<1>2. CASE e \in D
  <2>1. e \in loose' /\ (Midway(e) # {} => e \in torn') /\ (e \in torn => e \in torn') /\ Exists(e)
    BY <1>2 DEF UpdateMany
  <2>2. OneLatestOf(e)' = OneLatestOf(e)
    BY <1>1 DEF OneLatestOf
  <2> QED
    BY <1>1, <2>1, <2>2 DEF Sound
<1>3. CASE e \notin D
  <2>1. row'[e] = row[e] /\ (e \in torn => e \in torn') /\ (e \in loose => e \in loose')
    BY <1>3 DEF UpdateMany
  <2> QED
    BY <1>1, <2>1, Frame
<1> QED
  BY <1>2, <1>3

(* A statement of a RestoreVersion call leaves its document torn, or the   *)
(* call has it to itself and the statement's effect is there.              *)
LEMMA RestoreSound ==
    ASSUME Basic, \A e \in Docs : Sound(e), NEW r \in Restorers, RestoreStep(r)
    PROVE  \A e \in Docs : Sound(e)'
<1>0. call[r].step # "idle"
  BY DEF RestoreStep, WriteColumns, ClearItems, FillItems, WriteStatus, ReadNumber,
         ClearLatest, InsertVersion, RestoreFails
<1>a. PICK d \in Docs : call[r].doc = d
  BY <1>0, CallType DEF Basic
<1> DEFINE alone == Midway(d) \ {r} = {}
<1>1. /\ call[r].step \in Steps \ {"idle"} /\ call[r].text \in Texts
      /\ call \in [Restorers -> Call] /\ row \in [Docs -> Row \cup {None}]
      /\ Exists(d) => row[d] \in Row
      /\ call[r] \in [step : Steps \ {"idle"}, doc : Docs, status : Statuses, text : Texts,
                     items : SUBSET Items, num : 0..MaxIds]
  BY <1>0, CallType DEF Basic, TypeOK, Exists, Call, Idle
<1>2. r \in Midway(d) <=> call[r].step \in Writing
  BY <1>a DEF Midway
<1>3. \A s \in Steps : Goto(r, s) =>
        /\ call'[r] = [call[r] EXCEPT !.step = s]
        /\ \A q \in Restorers \ {r} : call'[q] = call[q]
  BY <1>1 DEF Goto
<1>4. \A s \in Steps : call[r].step # "idle" /\ call'[r] = [call[r] EXCEPT !.step = s] =>
        /\ call'[r].doc = d /\ call'[r].step = s /\ call'[r].text = call[r].text
        /\ call'[r].items = call[r].items /\ call'[r].status = call[r].status
        /\ call'[r].num = call[r].num
  BY <1>1, <1>a
\* Documents the call is not about.
<1>5. ASSUME NEW e \in Docs \ {d}, row'[e] = row[e], History(e)' = History(e),
             e \in torn => e \in torn', loose \ {d} \subseteq loose',
             \A q \in Restorers \ {r} : call'[q] = call[q],
             call'[r].doc = d \/ call'[r] = Idle
      PROVE  Sound(e)'
  <2>1. Midway(e)' = Midway(e) /\ r \notin Midway(e)
    BY <1>a, <1>5 DEF Midway, Idle, Writing
  <2>2. \A q \in Midway(e) : call'[q] = call[q]
    BY <1>5, <2>1 DEF Midway
  <2> QED
    BY <1>5, <2>1, <2>2, Frame
\* The document of the call, when no other call is midway on it.
<1>6. ASSUME alone => Sound(d)', torn' = TornBy(r, d) PROVE Sound(d)'
  BY <1>6 DEF TornBy, Sound
<1>7. ASSUME NEW s \in Writing, alone, Goto(r, s) PROVE Midway(d)' = {r}
  <2>1. s \in Steps
    BY DEF Writing
  <2>2. call'[r].doc = d /\ call'[r].step \in Writing
    BY <1>0, <1>3, <1>4, <1>7, <2>1
  <2>3. \A q \in Restorers \ {r} : call'[q] = call[q]
    BY <1>3, <1>7, <2>1
  <2>4. \A q \in Restorers \ {r} : ~(call[q].doc = d /\ call[q].step \in Writing)
    BY <1>7 DEF Midway
  <2> QED
    BY <2>2, <2>3, <2>4 DEF Midway
<1>10. CASE WriteColumns(r)
  <2>1. /\ Goto(r, "clear_items") /\ torn' = TornBy(r, d) /\ Exists(d)
        /\ row' = [row EXCEPT ![d].text = call[r].text] /\ UNCHANGED <<versions, loose>>
    BY <1>a, <1>10 DEF WriteColumns
  <2>2. ASSUME alone PROVE Sound(d)'
    <3>1. Midway(d)' = {r}
      BY <1>7, <2>1, <2>2 DEF Writing, Steps
    <3>2. call'[r].step = "clear_items" /\ call'[r].doc = d /\ row'[d].text = call'[r].text
      BY <1>0, <1>1, <1>3, <1>4, <2>1 DEF Steps, Row
    <3>3. Progress(r)'
      BY <3>2 DEF Progress
    <3> QED
      BY <3>1, <3>3 DEF Sound
  <2>3. ASSUME NEW e \in Docs \ {d} PROVE Sound(e)'
    BY <1>0, <1>1, <1>3, <1>4, <1>5, <2>1 DEF TornBy, History, Steps
  <2> QED
    BY <1>6, <2>1, <2>2, <2>3
<1>11. CASE ClearItems(r)
  <2>1. /\ Goto(r, "fill_items") /\ torn' = TornBy(r, d) /\ r \in Midway(d)
        /\ call[r].step = "clear_items"
        /\ row' = IF Exists(d) THEN [row EXCEPT ![d].items = {}] ELSE row
        /\ UNCHANGED <<versions, loose>>
    BY <1>2, <1>a, <1>11 DEF ClearItems, Writing, Steps
  <2>2. ASSUME alone, Exists(d), d \notin torn PROVE Sound(d)'
    <3>1. Midway(d)' = {r}
      BY <1>7, <2>1, <2>2 DEF Writing, Steps
    <3>2. row[d].text = call[r].text
      BY <1>a, <2>1, <2>2 DEF Sound, Progress
    <3>3. /\ call'[r].step = "fill_items" /\ call'[r].doc = d
          /\ row'[d].text = call'[r].text /\ row'[d].items = {}
      BY <1>0, <1>1, <1>3, <1>4, <2>1, <2>2, <3>2 DEF Steps, Row
    <3>4. Progress(r)'
      BY <3>3 DEF Progress
    <3> QED
      BY <3>1, <3>4 DEF Sound
  <2>3. Exists(d)' => Exists(d)
    BY <1>1, <2>1 DEF Exists
  <2>4. ASSUME NEW e \in Docs \ {d} PROVE Sound(e)'
    BY <1>0, <1>1, <1>3, <1>4, <1>5, <2>1 DEF TornBy, History, Steps
  <2> QED
    BY <1>6, <2>1, <2>2, <2>3, <2>4 DEF Sound, TornBy
<1>12. CASE FillItems(r)
  <2>1. /\ Goto(r, "status") /\ torn' = TornBy(r, d) /\ r \in Midway(d)
        /\ call[r].step = "fill_items"
        /\ row' = IF Exists(d) THEN [row EXCEPT ![d].items = @ \cup call[r].items] ELSE row
        /\ UNCHANGED <<versions, loose>>
    BY <1>2, <1>a, <1>12 DEF FillItems, Writing, Steps
  <2>2. ASSUME alone, Exists(d), d \notin torn PROVE Sound(d)'
    <3>1. Midway(d)' = {r}
      BY <1>7, <2>1, <2>2 DEF Writing, Steps
    <3>2. row[d].text = call[r].text /\ row[d].items = {}
      BY <1>a, <2>1, <2>2 DEF Sound, Progress
    <3>3. /\ call'[r].step = "status" /\ call'[r].doc = d
          /\ row'[d].text = call'[r].text /\ row'[d].items = call'[r].items
      BY <1>0, <1>1, <1>3, <1>4, <2>1, <2>2, <3>2 DEF Steps, Row
    <3>4. Progress(r)'
      BY <3>3 DEF Progress
    <3> QED
      BY <3>1, <3>4 DEF Sound
  <2>3. Exists(d)' => Exists(d)
    BY <1>1, <2>1 DEF Exists
  <2>4. ASSUME NEW e \in Docs \ {d} PROVE Sound(e)'
    BY <1>0, <1>1, <1>3, <1>4, <1>5, <2>1 DEF TornBy, History, Steps
  <2> QED
    BY <1>6, <2>1, <2>2, <2>3, <2>4 DEF Sound, TornBy
<1>13. CASE WriteStatus(r)
  <2>1. /\ Goto(r, "number") /\ torn' = TornBy(r, d) /\ r \in Midway(d)
        /\ call[r].step = "status"
        /\ row' = IF Exists(d) THEN [row EXCEPT ![d].status = call[r].status] ELSE row
        /\ UNCHANGED <<versions, loose>>
    BY <1>2, <1>a, <1>13 DEF WriteStatus, Writing, Steps
  <2>2. ASSUME alone, Exists(d), d \notin torn PROVE Sound(d)'
    <3>1. Midway(d)' = {r}
      BY <1>7, <2>1, <2>2 DEF Writing, Steps
    <3>2. row[d].text = call[r].text /\ row[d].items = call[r].items
      BY <1>a, <2>1, <2>2 DEF Sound, Progress
    <3>3. /\ call'[r].step = "number" /\ call'[r].doc = d
          /\ row'[d].text = call'[r].text /\ row'[d].items = call'[r].items
          /\ row'[d].status = call'[r].status
      BY <1>0, <1>1, <1>3, <1>4, <2>1, <2>2, <3>2 DEF Steps, Row
    <3>4. Progress(r)'
      BY <3>3 DEF Progress
    <3> QED
      BY <3>1, <3>4 DEF Sound
  <2>3. Exists(d)' => Exists(d)
    BY <1>1, <2>1 DEF Exists
  <2>4. ASSUME NEW e \in Docs \ {d} PROVE Sound(e)'
    BY <1>0, <1>1, <1>3, <1>4, <1>5, <2>1 DEF TornBy, History, Steps
  <2> QED
    BY <1>6, <2>1, <2>2, <2>3, <2>4 DEF Sound, TornBy
<1>14. CASE ReadNumber(r)
  <2>1. PICK n \in 1..MaxIds :
          /\ IsNextNum(d, n)
          /\ call' = [call EXCEPT ![r].step = "clear_latest", ![r].num = n]
    BY <1>a, <1>14 DEF ReadNumber
  <2>2. /\ call[r].step = "number" /\ r \in Midway(d)
        /\ UNCHANGED <<row, versions, torn, loose>>
    BY <1>2, <1>a, <1>14 DEF ReadNumber, Writing, Steps
  <2>3. /\ call'[r].doc = d /\ call'[r].step = "clear_latest" /\ call'[r].num = n
        /\ call'[r].text = call[r].text /\ call'[r].items = call[r].items
        /\ call'[r].status = call[r].status
        /\ \A q \in Restorers \ {r} : call'[q] = call[q]
    BY <1>a, <1>1, <2>1
  <2>4. ASSUME Exists(d), d \notin torn PROVE Sound(d)'
    <3>1. alone /\ Midway(d)' = {r}
      BY <1>1, <2>2, <2>3, <2>4 DEF Sound, Midway, Writing, Steps
    <3>2. row[d].text = call[r].text /\ row[d].items = call[r].items
          /\ row[d].status = call[r].status
      BY <1>a, <2>2, <2>4 DEF Sound, Progress
    <3>3. \A v \in History(d)' : v.num < n
      BY <2>1, <2>2 DEF IsNextNum, History
    <3>4. Progress(r)'
      BY <2>2, <2>3, <3>2, <3>3 DEF Progress
    <3> QED
      BY <3>1, <3>4 DEF Sound
  <2>5. Exists(d)' => Exists(d)
    BY <2>2 DEF Exists
  <2>6. ASSUME NEW e \in Docs \ {d} PROVE Sound(e)'
    BY <1>5, <2>2, <2>3 DEF History
  <2> QED
    BY <2>2, <2>4, <2>5, <2>6 DEF Sound
<1>15. CASE ClearLatest(r)
  <2>1. /\ Goto(r, "insert") /\ torn' = TornBy(r, d) /\ r \in Midway(d)
        /\ call[r].step = "clear_latest" /\ versions' = Unflagged(d)
        /\ UNCHANGED <<row, loose>>
    BY <1>2, <1>a, <1>15 DEF ClearLatest, Writing, Steps
  <2>2. /\ \A v \in History(d)' : ~v.latest /\ \E u \in History(d) : v.num = u.num
        /\ \A e \in Docs \ {d} : History(e)' = History(e)
    <3>1. \A v \in Unflagged(d) : \E u \in versions :
            v.num = u.num /\ v.parent = u.parent /\ (v.parent = d => ~v.latest)
      BY UnflaggedFacts DEF Basic
    <3>2. \A v \in Unflagged(d) : v.parent # d => v \in versions
      BY UnflaggedFacts DEF Basic
    <3>3. \A u \in versions : u.parent # d => u \in Unflagged(d)
      BY UnflaggedFacts DEF Basic
    <3>4. ASSUME NEW e \in Docs \ {d} PROVE History(e)' = History(e)
      BY <2>1, <3>2, <3>3 DEF History
    <3> QED
      BY <2>1, <3>1, <3>4 DEF History
  <2>3. ASSUME alone, Exists(d), d \notin torn PROVE Sound(d)'
    <3>1. Midway(d)' = {r}
      BY <1>7, <2>1, <2>3 DEF Writing, Steps
    <3>2. /\ row[d].text = call[r].text /\ row[d].items = call[r].items
          /\ row[d].status = call[r].status /\ \A v \in History(d) : v.num < call[r].num
      BY <1>a, <2>1, <2>3 DEF Sound, Progress
    <3>3. /\ call'[r].step = "insert" /\ call'[r].doc = d
          /\ row'[d].text = call'[r].text /\ row'[d].items = call'[r].items
          /\ row'[d].status = call'[r].status /\ call'[r].num = call[r].num
      BY <1>0, <1>3, <1>4, <2>1, <3>2 DEF Steps
    <3>4. Progress(r)'
      BY <2>2, <3>2, <3>3 DEF Progress
    <3> QED
      BY <3>1, <3>4 DEF Sound
  <2>4. ASSUME NEW e \in Docs \ {d} PROVE Sound(e)'
    BY <1>0, <1>3, <1>4, <1>5, <2>1, <2>2 DEF TornBy, Steps
  <2> QED
    BY <1>6, <2>1, <2>3, <2>4 DEF Sound, TornBy, Exists
<1>16. CASE InsertVersion(r)
  <2> DEFINE new == Snapshot(d, call[r].num, call[r].status, call[r])
  <2>1. /\ torn' = TornBy(r, d) /\ r \in Midway(d) /\ call[r].step = "insert"
        /\ versions' = versions \cup {new} /\ loose' = loose \ {d}
        /\ call' = [call EXCEPT ![r] = Idle] /\ row' = row
    BY <1>2, <1>a, <1>16 DEF InsertVersion, Writing, Steps
  <2>2. /\ new.latest /\ new.num = call[r].num /\ new.status = call[r].status
        /\ new.text = call[r].text /\ new.items = call[r].items /\ new.parent = d
    BY DEF Snapshot
  <2> HIDE DEF new
  <2>3. History(d)' = History(d) \cup {new} /\ \A e \in Docs \ {d} : History(e)' = History(e)
    BY <2>1, <2>2 DEF History
  <2>4. ASSUME alone, Exists(d), d \notin torn PROVE Sound(d)'
    <3>1. Midway(d)' = {}
      BY <1>1, <2>1, <2>4 DEF Midway, Idle, Writing
    <3>2. /\ row[d].text = call[r].text /\ row[d].items = call[r].items
          /\ row[d].status = call[r].status
          /\ \A v \in History(d) : v.num < call[r].num /\ ~v.latest
      BY <1>a, <2>1, <2>4 DEF Sound, Progress
    <3>3. OneLatestOf(d)'
      BY <2>2, <2>3, <3>2 DEF OneLatestOf
    <3>4. Matches(d)'
      <4>1. row'[d] = row[d] /\ row[d] \in Row
        BY <1>1, <2>1, <2>4
      <4>2. \A v \in History(d)' : v.latest => v = new
        BY <2>3, <3>2
      <4>3. row[d] = [text |-> new.text, items |-> new.items, status |-> new.status]
        BY <2>2, <3>2, <4>1 DEF Row
      <4> QED
        BY <4>1, <4>2, <4>3 DEF Matches
    <3> QED
      BY <3>1, <3>3, <3>4 DEF Sound
  <2>5. ASSUME NEW e \in Docs \ {d} PROVE Sound(e)'
    BY <1>1, <1>5, <2>1, <2>3 DEF TornBy
  <2> QED
    BY <1>6, <2>1, <2>4, <2>5 DEF Sound, TornBy, Exists
<1>17. CASE RestoreFails(r)
  <2>1. /\ call' = [call EXCEPT ![r] = Idle] /\ UNCHANGED <<row, versions, loose>>
        /\ torn' = IF call[r].step \in Writing THEN torn \cup {d} ELSE torn
    BY <1>a, <1>17 DEF RestoreFails
  <2>2. ASSUME NEW e \in Docs \ {d} PROVE Sound(e)'
    BY <1>1, <1>5, <2>1, <2>2 DEF History
  <2>3. ASSUME call[r].step \notin Writing PROVE Sound(d)'
    <3>1. Midway(d)' = Midway(d) /\ r \notin Midway(d)
      BY <1>1, <2>1, <2>3 DEF Midway, Idle, Writing
    <3>2. \A q \in Midway(d) : call'[q] = call[q]
      BY <1>1, <2>1, <3>1 DEF Midway
    <3> QED
      BY <1>1, <2>1, <2>3, <3>1, <3>2, Frame DEF History
  <2> QED
    BY <2>1, <2>2, <2>3 DEF Sound
<1> QED
  BY <1>10, <1>11, <1>12, <1>13, <1>14, <1>15, <1>16, <1>17 DEF RestoreStep

LEMMA FindVersionSound ==
    ASSUME Basic, \A e \in Docs : Sound(e),
           NEW r \in Restorers, NEW d \in Docs, NEW v \in versions, FindVersion(r, d, v)
    PROVE  \A e \in Docs : Sound(e)'
<1> SUFFICES ASSUME NEW e \in Docs PROVE Sound(e)'
  OBVIOUS
<1>1. /\ call'[r].step = "columns" /\ call[r].step = "idle"
      /\ \A q \in Restorers \ {r} : call'[q] = call[q]
      /\ UNCHANGED <<row, versions, torn, loose>>
  BY DEF FindVersion, Basic, TypeOK, Idle
<1>2. Midway(e)' = Midway(e) /\ r \notin Midway(e)
  BY <1>1 DEF Midway, Writing
<1>3. \A q \in Midway(e) : call'[q] = call[q]
  BY <1>1, <1>2 DEF Midway
<1> QED
  BY <1>1, <1>2, <1>3, Frame DEF History

LEMMA RestartSound ==
    ASSUME Basic, \A e \in Docs : Sound(e), Restart
    PROVE  \A e \in Docs : Sound(e)'
<1> SUFFICES ASSUME NEW e \in Docs PROVE Sound(e)'
  OBVIOUS
<1>1. UNCHANGED <<row, versions, loose>> /\ torn \subseteq torn' /\ Midway(e)' = {}
  BY DEF Restart, Midway, Idle, Writing
<1>2. Midway(e) # {} => e \in torn'
  BY DEF Restart, Midway
<1>3. CASE Midway(e) = {}
  BY <1>1, <1>3, Frame DEF History
<1> QED
  BY <1>2, <1>3 DEF Sound

LEMMA InvInit == Init => Inv
<1> SUFFICES ASSUME Init PROVE Inv
  OBVIOUS
<1>1. \A d \in Docs : ~Exists(d)
  BY DEF Init, Exists
<1> QED
  BY <1>1, BasicInit DEF Inv, Basic, Sound

LEMMA InvNext == Inv /\ [Next]_vars => Inv'
<1> SUFFICES ASSUME Basic, \A e \in Docs : Sound(e), [Next]_vars PROVE Inv'
  BY DEF Inv, Basic
<1>1. Basic'
  BY BasicNext
<1>2. \A e \in Docs : Sound(e)'
  <2>1. CASE UNCHANGED vars
    BY <2>1 DEF vars, Sound, Exists, Midway, OneLatestOf, Matches, Progress, History
  <2> QED
    BY <2>1, WritesSound, UpdateManySound, FindVersionSound, RestoreSound, RestartSound DEF Next
<1> QED
  BY <1>1, <1>2 DEF Inv, Basic

(* OneLatest: create_version's numbering, clearing and inserting in one    *)
(* transaction leave a document that no RestoreVersion call has torn with  *)
(* one latest version, the newest by number.                               *)
THEOREM OneLatestHolds == Spec => []OneLatest
<1>1. Inv => OneLatest
  BY DEF Inv, Sound, OneLatest, Calm
<1> QED
  BY <1>1, InvInit, InvNext, PTL DEF Spec

(* HistoryMatches: when the latest version is published, the row is what   *)
(* it records, whatever publishing, drafting, unpublishing and restoring   *)
(* came before.                                                            *)
THEOREM RowMatchesHistory == Spec => []HistoryMatches
<1>1. Inv => HistoryMatches
  BY DEF Inv, Sound, HistoryMatches, Calm, Matches
<1> QED
  BY <1>1, InvInit, InvNext, PTL DEF Spec

-----------------------------------------------------------------------------
(***************************************************************************)
(* The search index.                                                       *)
(***************************************************************************)
LEMMA SearchNext ==
    ASSUME Basic, SearchFresh, [Next]_vars
    PROVE  SearchFresh'
<1> USE DEF SearchFresh
<1>0. /\ row \in [Docs -> Row \cup {None}] /\ index \in [Docs -> Texts \cup {None}]
      /\ \A d \in Docs : Exists(d) => row[d] \in Row
  BY DEF Basic, TypeOK, Exists
<1>1. CASE UNCHANGED vars
  BY <1>1 DEF vars, Exists
<1>2. ASSUME NEW d \in Docs, NEW new \in Row, row' = [row EXCEPT ![d] = new],
             unindexed \ {d} \subseteq unindexed',
             \/ index' = [index EXCEPT ![d] = new.text]
             \/ index' = index /\ d \in unindexed'
             \/ index' = index /\ Exists(d) /\ new.text = row[d].text /\ unindexed \subseteq unindexed'
      PROVE  SearchFresh'
  BY <1>0, <1>2, DocumentsAssumption DEF Exists
<1>3. ASSUME NEW d \in Docs, Write(d) PROVE SearchFresh'
  <2>1. ASSUME NEW c \in Content, NEW draft \in BOOLEAN, Create(d, c, draft)
        PROVE  SearchFresh'
    <3> DEFINE status == IF draft /\ d \in DraftDocs THEN "draft" ELSE "published"
    <3> DEFINE new == [text |-> c.text, items |-> c.items, status |-> status]
    <3>1. new \in Row /\ new.text = c.text
      BY DEF Content, Row, Statuses
    <3>2. row' = [row EXCEPT ![d] = new] /\ index' = [index EXCEPT ![d] = c.text]
          /\ unindexed' = unindexed
      BY <2>1 DEF Create
    <3> HIDE DEF new
    <3> QED
      BY <1>2, <3>1, <3>2
  <2>2. ASSUME NEW in \in Input, Publish(d, in) PROVE SearchFresh'
    <3> DEFINE new == [Merge(row[d], in) EXCEPT !.status = "published"]
    <3>1. new \in Row
      BY <1>0, <2>2, MergeFacts DEF Row, Statuses, Publish
    <3>2. row' = [row EXCEPT ![d] = new] /\ row'[d] = new
      BY <1>0, <2>2 DEF Publish
    <3> HIDE DEF new
    <3>3. index' = [index EXCEPT ![d] = new.text] /\ unindexed' = unindexed \ {d}
      BY <2>2, <3>2 DEF Publish
    <3> QED
      BY <1>2, <3>1, <3>2, <3>3
  <2>3. ASSUME NEW in \in Input, SaveDraft(d, in) PROVE SearchFresh'
    BY <2>3 DEF SaveDraft, Exists
  <2>4. CASE Unpublish(d)
    <3>1. /\ row' = [row EXCEPT ![d].status = "draft"] /\ index' = index
          /\ unindexed' = unindexed /\ Exists(d)
      BY <2>4 DEF Unpublish
    <3> DEFINE new == [row[d] EXCEPT !.status = "draft"]
    <3>2. new \in Row /\ new.text = row[d].text
      BY <1>0, <3>1 DEF Row, Statuses
    <3>3. row' = [row EXCEPT ![d] = new]
      BY <1>0, <3>1
    <3> HIDE DEF new
    <3> QED
      BY <1>2, <3>1, <3>2, <3>3
  <2>5. ASSUME NEW v \in versions, AdminRestore(d, v) PROVE SearchFresh'
    <3> DEFINE new == [text |-> v.text, items |-> v.items, status |-> "published"]
    <3>1. new \in Row
      BY DEF Basic, TypeOK, Version, Row, Statuses
    <3>2. row' = [row EXCEPT ![d] = new] /\ index' = index /\ unindexed' = unindexed \cup {d}
      BY <2>5 DEF AdminRestore
    <3> HIDE DEF new
    <3> QED
      BY <1>2, <3>1, <3>2
  <2>6. CASE Delete(d)
    BY <1>0, <2>6 DEF Delete, Exists
  <2> QED
    BY <1>3, <2>1, <2>2, <2>3, <2>4, <2>5, <2>6 DEF Write
<1>4. ASSUME NEW D \in SUBSET Docs, NEW in \in Input, UpdateMany(D, in) PROVE SearchFresh'
  <2>1. \A d \in D : row'[d] \in Row /\ index'[d] = row'[d].text
    BY <1>0, <1>4, MergeFacts DEF UpdateMany, Exists
  <2>2. \A d \in Docs \ D : row'[d] = row[d] /\ index'[d] = index[d]
    BY <1>4 DEF UpdateMany
  <2>3. unindexed' = unindexed \ D
    BY <1>4 DEF UpdateMany
  <2> QED
    BY <2>1, <2>2, <2>3, DocumentsAssumption DEF Exists
<1>5. ASSUME NEW r \in Restorers, RestoreStep(r) PROVE SearchFresh'
  <2>0. call[r].step # "idle"
    BY <1>5 DEF RestoreStep, WriteColumns, ClearItems, FillItems, WriteStatus, ReadNumber,
           ClearLatest, InsertVersion, RestoreFails
  <2>1. PICK d \in Docs : call[r].doc = d
    BY <2>0, CallType DEF Basic
  <2>2. call[r].text \in Texts /\ call[r].items \in SUBSET Items /\ call[r].status \in Statuses
    BY <2>0, CallType DEF Basic
  <2>3. CASE WriteColumns(r)
    <3>1. /\ row' = [row EXCEPT ![d].text = call[r].text] /\ index' = index /\ Exists(d)
          /\ unindexed' = unindexed \cup {d}
      BY <2>1, <2>3 DEF WriteColumns
    <3> DEFINE new == [row[d] EXCEPT !.text = call[r].text]
    <3>2. new \in Row /\ row' = [row EXCEPT ![d] = new]
      BY <1>0, <2>2, <3>1 DEF Row
    <3> HIDE DEF new
    <3> QED
      BY <1>2, <3>1, <3>2
  <2>4. ASSUME Exists(d), UNCHANGED <<index, unindexed>>,
               \/ row' = [row EXCEPT ![d].items = {}]
               \/ row' = [row EXCEPT ![d].items = @ \cup call[r].items]
               \/ row' = [row EXCEPT ![d].status = call[r].status]
        PROVE  SearchFresh'
    <3>1. PICK new \in Row : row' = [row EXCEPT ![d] = new] /\ new.text = row[d].text
      <4>1. row[d] \in Row
        BY <1>0, <2>4
      <4>2. /\ [row[d] EXCEPT !.items = {}] \in Row
            /\ [row[d] EXCEPT !.items = row[d].items \cup call[r].items] \in Row
            /\ [row[d] EXCEPT !.status = call[r].status] \in Row
        BY <2>2, <4>1 DEF Row
      <4>3. /\ [row[d] EXCEPT !.items = {}].text = row[d].text
            /\ [row[d] EXCEPT !.items = row[d].items \cup call[r].items].text = row[d].text
            /\ [row[d] EXCEPT !.status = call[r].status].text = row[d].text
        BY <4>1 DEF Row
      <4> QED
        BY <2>4, <4>2, <4>3
    <3> QED
      BY <1>2, <2>4, <3>1
  <2>5. CASE ClearItems(r) \/ FillItems(r) \/ WriteStatus(r)
    <3>1. UNCHANGED <<index, unindexed>>
      BY <2>5 DEF ClearItems, FillItems, WriteStatus
    <3>2. CASE Exists(d)
      BY <2>1, <2>4, <2>5, <3>1, <3>2 DEF ClearItems, FillItems, WriteStatus
    <3>3. CASE ~Exists(d)
      BY <2>1, <2>5, <3>1, <3>3 DEF ClearItems, FillItems, WriteStatus, Exists
    <3> QED
      BY <3>2, <3>3
  <2>6. CASE ReadNumber(r) \/ ClearLatest(r) \/ InsertVersion(r) \/ RestoreFails(r)
    BY <2>6 DEF ReadNumber, ClearLatest, InsertVersion, RestoreFails, Exists
  <2> QED
    BY <1>5, <2>3, <2>5, <2>6 DEF RestoreStep
<1>6. ASSUME NEW r \in Restorers, NEW d \in Docs, NEW v \in versions, FindVersion(r, d, v)
      PROVE  SearchFresh'
  BY <1>6 DEF FindVersion, Exists
<1>7. CASE Restart
  BY <1>7 DEF Restart, Exists
<1> QED
  BY <1>1, <1>3, <1>4, <1>5, <1>6, <1>7 DEF Next

(* SearchFresh: only a restore leaves the index behind the row.            *)
THEOREM SearchIsFresh == Spec => []SearchFresh
<1>1. Init => SearchFresh
  BY DEF Init, SearchFresh, Exists
<1> QED
  BY <1>1, BasicInit, BasicNext, SearchNext, PTL DEF Spec

-----------------------------------------------------------------------------
(***************************************************************************)
(* Pruning.                                                                *)
(***************************************************************************)
\* Every version of d is still there, whatever became of its flag.
Keeps(d) == \A v \in History(d) : \E w \in History(d)' : w.id = v.id

LEMMA KeepsTrims ==
    ASSUME NEW d, Keeps(d)
    PROVE  Trims(d)
  BY DEF Keeps, Trims

LEMMA AddVersionTrims ==
    ASSUME TypeOK, Ids,
           NEW d \in Docs, NEW status \in Statuses, NEW prune \in BOOLEAN,
           NEW c, c.text \in Texts, c.items \in SUBSET Items,
           AddVersion(d, status, c, prune)
    PROVE  \A e \in Docs : Trims(e)
<1> USE DEF TypeOK
<1>1. ASSUME NEW e \in Docs \ {d} PROVE Trims(e)
  <2>1. History(e)' = History(e)
    BY AddVersionFacts
  <2> QED
    BY <2>1, KeepsTrims DEF Keeps
<1>2. PICK n \in 1..MaxIds :
        /\ IsNextNum(d, n)
        /\ LET others == {v \in Unflagged(d) : v.parent # d}
               all    == (Unflagged(d) \ others) \cup {Snapshot(d, n, status, c)}
           IN  IF prune THEN \E K \in Kept(all) : versions' = others \cup K
                        ELSE versions' = others \cup all
  BY DEF AddVersion
<1> DEFINE new    == Snapshot(d, n, status, c)
           others == {v \in Unflagged(d) : v.parent # d}
           all    == (Unflagged(d) \ others) \cup {new}
<1>3. new.parent = d
  BY DEF Snapshot
<1>4. \A v \in History(d) : \E u \in all : u.id = v.id /\ u.num = v.num
  <2>1. SUFFICES ASSUME NEW v \in versions, v.parent = d
                 PROVE  \E u \in Unflagged(d) : u.id = v.id /\ u.num = v.num /\ u.parent = d
    BY DEF History
  <2> DEFINE u == [v EXCEPT !.latest = IF v.parent = d THEN FALSE ELSE @]
  <2>2. u \in Unflagged(d)
    BY DEF Unflagged
  <2>3. u.id = v.id /\ u.num = v.num /\ u.parent = d
    BY <2>1 DEF Version
  <2> QED
    BY <2>2, <2>3
<1>5. IsFiniteSet(all)
  <2>1. IsFiniteSet(Unflagged(d))
    BY UnflaggedFinite DEF Ids
  <2>2. IsFiniteSet(Unflagged(d) \ others)
    BY <2>1, FS_Difference
  <2> QED
    BY <2>2, FS_AddElement
<1>6. PICK K \in SUBSET all : versions' = others \cup K /\ (K = all \/ K \in Kept(all))
  BY <1>2 DEF Kept
<1>7. History(d)' = K
  BY <1>3, <1>6 DEF History
<1> HIDE DEF new, all
<1>8. ASSUME K = all PROVE Trims(d)
  <2>1. Keeps(d)
    BY <1>4, <1>7, <1>8 DEF Keeps
  <2> QED
    BY <2>1, KeepsTrims
<1>9. ASSUME K # all PROVE Trims(d)
  <2>1. /\ MaxVersions # 0
        /\ Cardinality(K) = IF Cardinality(all) <= MaxVersions
                            THEN Cardinality(all) ELSE MaxVersions
        /\ \A k \in K, v \in all \ K : v.num <= k.num
    BY <1>6, <1>9 DEF Kept
  <2>2. Cardinality(K) < Cardinality(all)
    BY <1>5, <1>6, <1>9, FS_Subset, FS_CardinalityType
  <2>3. Cardinality(K) = MaxVersions /\ MaxVersions > 0
    BY <2>1, <2>2, <1>5, <1>6, FS_Subset, FS_CardinalityType, DocumentsAssumption
  <2>4. \A v \in History(d) : (\A w \in K : w.id # v.id) => \A w \in K : v.num <= w.num
    BY <1>4, <2>1
  <2> QED
    <3> HIDE DEF others
    <3> QED
      BY <1>7, <2>3, <2>4 DEF Trims
<1>10. Trims(d)
  BY <1>8, <1>9
<1> QED
  BY <1>1, <1>10

LEMMA TrimsNext ==
    ASSUME Basic, Next, NEW d \in Docs, Exists(d)'
    PROVE  Trims(d)
<1>0. /\ row \in [Docs -> Row \cup {None}] /\ TypeOK /\ Ids
      /\ \A e \in Docs : Exists(e) => row[e] \in Row
  BY DEF Basic, TypeOK, Exists
<1>1. ASSUME versions \subseteq versions' PROVE Trims(d)
  BY <1>1, KeepsTrims DEF Keeps, History
<1>2. ASSUME NEW e \in Docs, Write(e) PROVE Trims(d)
  <2>1. ASSUME NEW c \in Content, NEW draft \in BOOLEAN, Create(e, c, draft) PROVE Trims(d)
    BY <1>0, <2>1, AddVersionTrims DEF Create, Content, Statuses
  <2>2. ASSUME NEW in \in Input, Publish(e, in) PROVE Trims(d)
    <3> DEFINE new == [Merge(row[e], in) EXCEPT !.status = "published"]
    <3>1. new.text \in Texts /\ new.items \in SUBSET Items
      BY <1>0, <2>2, MergeFacts DEF Row, Publish
    <3>2. row' = [row EXCEPT ![e] = new] /\ row'[e] = new
      BY <1>0, <2>2 DEF Publish
    <3> HIDE DEF new
    <3>3. AddVersion(e, "published", new, TRUE)
      BY <2>2, <3>2 DEF Publish
    <3> QED
      BY <1>0, <3>1, <3>3, AddVersionTrims DEF Statuses
  <2>3. ASSUME NEW in \in Input, SaveDraft(e, in) PROVE Trims(d)
    <3>1. Merge(row[e], in).text \in Texts /\ Merge(row[e], in).items \in SUBSET Items
      BY <1>0, <2>3, MergeFacts DEF Row, SaveDraft
    <3> QED
      BY <1>0, <2>3, <3>1, AddVersionTrims DEF SaveDraft, Statuses
  <2>4. CASE Unpublish(e)
    BY <1>0, <2>4, AddVersionTrims DEF Unpublish, Statuses, Row
  <2>5. ASSUME NEW v \in versions, AdminRestore(e, v) PROVE Trims(d)
    <3>1. v.text \in Texts /\ v.items \in SUBSET Items
      BY <1>0 DEF TypeOK, Version
    <3> QED
      BY <1>0, <2>5, <3>1, AddVersionTrims DEF AdminRestore, Statuses
  <2>6. CASE Delete(e)
    <3>1. d # e
      BY <1>0, <2>6 DEF Delete, Exists
    <3>2. History(d)' = History(d)
      BY <2>6, <3>1 DEF Delete, History
    <3> QED
      BY <3>2, KeepsTrims DEF Keeps
  <2> QED
    BY <1>2, <2>1, <2>2, <2>3, <2>4, <2>5, <2>6 DEF Write
<1>3. ASSUME NEW r \in Restorers, RestoreStep(r) PROVE Trims(d)
  <2>1. CASE ClearLatest(r)
    <3>1. \A v \in versions : \E w \in versions' : w.id = v.id /\ w.parent = v.parent
      <4>1. SUFFICES ASSUME NEW v \in versions
                     PROVE  \E w \in Unflagged(call[r].doc) : w.id = v.id /\ w.parent = v.parent
        BY <2>1 DEF ClearLatest
      <4> DEFINE w == [v EXCEPT !.latest = IF v.parent = call[r].doc THEN FALSE ELSE @]
      <4>2. w \in Unflagged(call[r].doc)
        BY DEF Unflagged
      <4>3. w.id = v.id /\ w.parent = v.parent
        BY <1>0 DEF TypeOK, Version
      <4> QED
        BY <4>2, <4>3
    <3>2. Keeps(d)
      BY <3>1 DEF Keeps, History
    <3> QED
      BY <3>2, KeepsTrims
  <2>2. ~ClearLatest(r) => versions \subseteq versions'
    BY <1>3 DEF RestoreStep, WriteColumns, ClearItems, FillItems, WriteStatus, ReadNumber,
           InsertVersion, RestoreFails
  <2> QED
    BY <1>1, <2>1, <2>2
<1>4. ASSUME NEW D \in SUBSET Docs, NEW in \in Input, UpdateMany(D, in) PROVE Trims(d)
  BY <1>1, <1>4 DEF UpdateMany
<1>5. ASSUME NEW r \in Restorers, NEW e \in Docs, NEW v \in versions, FindVersion(r, e, v)
      PROVE  Trims(d)
  BY <1>1, <1>5 DEF FindVersion
<1>6. CASE Restart
  BY <1>1, <1>6 DEF Restart
<1> QED
  BY <1>2, <1>3, <1>4, <1>5, <1>6 DEF Next

(* KeepsNewest: what prune_versions deletes is never newer than what it    *)
(* keeps, it keeps max_versions, and nothing else deletes a version of a   *)
(* document that stays.                                                    *)
THEOREM NewestAreKept == Spec => KeepsNewest
<1>1. Basic /\ [Next]_vars => [\A d \in Docs : Exists(d)' => Trims(d)]_vars
  BY TrimsNext
<1> QED
  BY <1>1, BasicInit, BasicNext, PTL DEF Spec, KeepsNewest
=============================================================================
