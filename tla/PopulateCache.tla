--------------------------- MODULE PopulateCache ---------------------------
(***************************************************************************)
(* The populate cache shared by gRPC reads, the writers that clear it and  *)
(* the writers that do not.                                                *)
(*                                                                         *)
(* A read that populates a relationship looks the related document up in   *)
(* the cache, fetches it from the database and puts it into the cache      *)
(* later, once what it refers to is populated too: three steps, with no    *)
(* transaction or lock around them.  A gRPC write commits on a blocking    *)
(* thread; its handler, which may be gone by then, clears the whole cache  *)
(* when it hears of the commit.  A row is a version number, which every    *)
(* commit raises, and whether the document exists.                         *)
(***************************************************************************)
EXTENDS Naturals

CONSTANTS Keys,      \* related documents: (collection, id)
          Readers,   \* population of one reference by one read
          Writers,   \* gRPC write requests
          MaxAge,    \* populate_cache_max_age_secs > 0
          MaxVer,    \* bound: commits of one document
          NoKey, NoCopy

VARIABLES rows,      \* the documents in the database
          cache,     \* ContentService.populate_cache
          reader,    \* the reads under way
          writer,    \* the write handlers and their blocking tasks
          settled,   \* history: versions at the last clear
          unclean    \* history: written since the last clear by one that never clears

cacheVars == <<rows, cache, reader, writer, settled, unclean>>

ASSUME CacheAssumption ==
    /\ MaxVer \in Nat
    /\ MaxAge \in BOOLEAN
    /\ NoKey \notin Keys
    /\ NoCopy \notin 0..MaxVer
    /\ NoCopy \notin [ver : 0..MaxVer, late : BOOLEAN]

\* How a reference is populated: a has-one field (and every batch) looks into
\* the cache first, a has-many field fetches first, and a polymorphic
\* has-many field never looks.
Kinds == {"one", "many", "poly_many"}

Row    == [ver : 0..MaxVer, live : BOOLEAN]
\* A cached copy; late if it was put there after a clear that it missed.
Copy   == [ver : 0..MaxVer, late : BOOLEAN]
Reader == [phase : {"idle", "lookup", "fetch", "nested", "done"},
           key : Keys \cup {NoKey}, kind : Kinds,
           held : (0..MaxVer) \cup {NoCopy},   \* what it fetched
           late : BOOLEAN,                     \* a clear came after the fetch
           floor : 0..MaxVer,                  \* settled when it began
           result : {NoCopy} \cup Copy]
Writer == [phase : {"idle", "running", "committed", "cleared"},
           keys : SUBSET Keys, gone : BOOLEAN,
           vers : [Keys -> 0..MaxVer]]         \* the rows as it committed

Asleep == [phase |-> "idle", key |-> NoKey, kind |-> "one", held |-> NoCopy,
           late |-> FALSE, floor |-> 0, result |-> NoCopy]
Resting == [phase |-> "idle", keys |-> {}, gone |-> FALSE, vers |-> [k \in Keys |-> 0]]

CacheTypeOK ==
    /\ rows \in [Keys -> Row]
    /\ cache \in [Keys -> {NoCopy} \cup Copy]
    /\ reader \in [Readers -> Reader]
    /\ writer \in [Writers -> Writer]
    /\ settled \in [Keys -> 0..MaxVer]
    /\ unclean \subseteq Keys

\* A write of k whose handler has still to clear the cache.
Pending(k) == \E w \in Writers :
    writer[w].phase = "committed" /\ ~writer[w].gone /\ k \in writer[w].keys

CacheInit ==
    /\ rows \in [Keys -> [ver : {0}, live : BOOLEAN]]
    /\ cache = [k \in Keys |-> NoCopy]
    /\ reader = [r \in Readers |-> Asleep]
    /\ writer = [w \in Writers |-> Resting]
    /\ settled = [k \in Keys |-> 0]
    /\ unclean = {}

-----------------------------------------------------------------------------
(***************************************************************************)
(* Reads.                                                                  *)
(***************************************************************************)
StartRead(r, k, kind) ==
    /\ reader[r].phase = "idle"
    /\ reader' = [reader EXCEPT ![r] =
         [Asleep EXCEPT !.phase = IF kind = "one" THEN "lookup" ELSE "fetch",
                        !.key = k, !.kind = kind, !.floor = settled[k]]]
    /\ UNCHANGED <<rows, cache, writer, settled, unclean>>

Answer(r, copy) ==
    reader' = [reader EXCEPT ![r].phase = "done", ![r].result = copy,
                             ![r].held = NoCopy, ![r].late = FALSE]

\* A hit, whether or not the document was also fetched.
LookupHit(r) ==
    LET k == reader[r].key IN
    /\ reader[r].phase = "lookup"
    /\ cache[k] # NoCopy
    /\ Answer(r, cache[k])
    /\ UNCHANGED <<rows, cache, writer, settled, unclean>>

LookupMiss(r) ==
    /\ reader[r].phase = "lookup"
    /\ cache[reader[r].key] = NoCopy
    /\ \/ reader[r].kind = "one" /\ reader' = [reader EXCEPT ![r].phase = "fetch"]
       \/ /\ reader[r].kind # "one" /\ reader[r].held # NoCopy
          /\ reader' = [reader EXCEPT ![r].phase = "nested"]
       \/ reader[r].kind # "one" /\ reader[r].held = NoCopy /\ Answer(r, NoCopy)
    /\ UNCHANGED <<rows, cache, writer, settled, unclean>>

\* find_by_id or find_by_ids; a document that is not there stays an id.
Fetch(r) ==
    LET k     == reader[r].key
        found == IF rows[k].live THEN rows[k].ver ELSE NoCopy
    IN
    /\ reader[r].phase = "fetch"
    /\ \/ /\ reader[r].kind = "many"
          /\ reader' = [reader EXCEPT ![r].phase = "lookup", ![r].held = found]
       \/ /\ reader[r].kind # "many" /\ found # NoCopy
          /\ reader' = [reader EXCEPT ![r].phase = "nested", ![r].held = found]
       \/ reader[r].kind # "many" /\ found = NoCopy /\ Answer(r, NoCopy)
    /\ UNCHANGED <<rows, cache, writer, settled, unclean>>

\* cache.insert, once the references of the document are populated.
Insert(r) ==
    LET copy == [ver |-> reader[r].held, late |-> reader[r].late] IN
    /\ reader[r].phase = "nested"
    /\ cache' = [cache EXCEPT ![reader[r].key] = copy]
    /\ Answer(r, [copy EXCEPT !.late = FALSE])
    /\ UNCHANGED <<rows, writer, settled, unclean>>

EndRead(r) ==
    /\ reader[r].phase = "done"
    /\ reader' = [reader EXCEPT ![r] = Asleep]
    /\ UNCHANGED <<rows, cache, writer, settled, unclean>>

-----------------------------------------------------------------------------
(***************************************************************************)
(* Writes.                                                                 *)
(***************************************************************************)
\* The rows after a commit that writes or deletes the documents ks.
Written(ks, live) ==
    [k \in Keys |-> IF k \in ks THEN [ver |-> rows[k].ver + 1, live |-> live]
                    ELSE rows[k]]

\* Mutant: a clear of a copy of the map.
ClearCopy ==
    /\ cache' = cache
    /\ settled' = [k \in Keys |-> rows[k].ver]
    /\ unclean' = {}
    /\ reader' = [r \in Readers |->
                    [reader[r] EXCEPT !.late = @ \/ reader[r].held # NoCopy]]

\* A clear that a reader midway does not notice is late for it.
ClearAll ==
    /\ cache' = [k \in Keys |-> NoCopy]
    /\ settled' = [k \in Keys |-> rows[k].ver]
    /\ unclean' = {}
    /\ reader' = [r \in Readers |->
                    [reader[r] EXCEPT !.late = @ \/ reader[r].held # NoCopy]]

BeginWrite(w, ks) ==
    /\ writer[w].phase = "idle"
    /\ writer' = [writer EXCEPT ![w] = [Resting EXCEPT !.phase = "running", !.keys = ks]]
    /\ UNCHANGED <<rows, cache, reader, settled, unclean>>

\* The transaction of the blocking task commits.  If the handler is gone,
\* nobody waits for the task.
Commit(w, live) ==
    /\ writer[w].phase = "running"
    /\ \A k \in writer[w].keys : rows[k].ver < MaxVer
    /\ rows' = Written(writer[w].keys, live)
    /\ IF writer[w].gone
       THEN /\ writer' = [writer EXCEPT ![w] = Resting]
            /\ unclean' = unclean \cup writer[w].keys
       ELSE /\ writer' = [writer EXCEPT ![w].phase = "committed",
                                       ![w].vers = [k \in Keys |-> rows'[k].ver]]
            /\ UNCHANGED unclean
    /\ UNCHANGED <<cache, reader, settled>>

\* Access, validation or a hook refuses the write.
Refuse(w) ==
    /\ writer[w].phase = "running"
    /\ writer' = [writer EXCEPT ![w] = Resting]
    /\ UNCHANGED <<rows, cache, reader, settled, unclean>>

\* The transaction for the field access check fails after the commit: the
\* handler returns the error and never comes to the clear.
FailAfterCommit(w) ==
    /\ writer[w].phase = "committed"
    /\ writer' = [writer EXCEPT ![w] = Resting]
    /\ unclean' = unclean \cup writer[w].keys
    /\ UNCHANGED <<rows, cache, reader, settled>>

\* The client goes away and the handler's future is dropped; the blocking
\* task runs on.
Drop(w) ==
    /\ ~writer[w].gone
    /\ \/ /\ writer[w].phase = "running"
          /\ writer' = [writer EXCEPT ![w].gone = TRUE]
          /\ UNCHANGED unclean
       \/ /\ writer[w].phase = "committed"
          /\ writer' = [writer EXCEPT ![w] = Resting]
          /\ unclean' = unclean \cup writer[w].keys
    /\ UNCHANGED <<rows, cache, reader, settled>>

\* Mutant: a handler that leaves the clear to the others.
ClearSkipped(w) ==
    /\ writer[w].phase = "committed"
    /\ writer' = [writer EXCEPT ![w].phase = "cleared"]
    /\ UNCHANGED <<rows, cache, reader, settled, unclean>>

\* The handler hears of the commit and clears the cache.
Clear(w) ==
    /\ writer[w].phase = "committed"
    /\ ClearAll
    /\ writer' = [writer EXCEPT ![w].phase = "cleared"]
    /\ UNCHANGED rows

\* Mutant: an answer that does not wait for the clear.
RespondEarly(w) ==
    /\ writer[w].phase \in {"committed", "cleared"}
    /\ writer' = [writer EXCEPT ![w] = Resting]
    /\ UNCHANGED <<rows, cache, reader, settled, unclean>>

\* The response.
Respond(w) ==
    /\ writer[w].phase = "cleared"
    /\ writer' = [writer EXCEPT ![w] = Resting]
    /\ UNCHANGED <<rows, cache, reader, settled, unclean>>

\* A write by the admin interface, the upload API, MCP, Lua or a job.
OtherCommit(k, live) ==
    /\ rows[k].ver < MaxVer
    /\ rows' = Written({k}, live)
    /\ unclean' = unclean \cup {k}
    /\ UNCHANGED <<cache, reader, writer, settled>>

\* A tick of the clearing interval.
PeriodicClear ==
    /\ MaxAge
    /\ ClearAll
    /\ UNCHANGED <<rows, writer>>

ReadNext ==
    \E r \in Readers :
       \/ \E k \in Keys, kind \in Kinds : StartRead(r, k, kind)
       \/ LookupHit(r) \/ LookupMiss(r) \/ Fetch(r) \/ Insert(r) \/ EndRead(r)

-----------------------------------------------------------------------------
(***************************************************************************)
(* Properties.                                                             *)
(***************************************************************************)
\* A copy in the cache that is older than its row is there for one of three
\* reasons: a write has still to clear, a write that never clears came since
\* the last clear, or a read carried the copy across a clear.
StaleExplained ==
    \A k \in Keys :
       cache[k] # NoCopy /\ cache[k].ver < rows[k].ver
         => Pending(k) \/ k \in unclean \/ cache[k].late

\* A read that begins after the cache was cleared for a write answers with
\* that write's version or a newer one, unless it met a copy that another
\* read had carried across the clear.
ReadsSettled ==
    \A r \in Readers :
       LET out == reader[r].result IN
       out # NoCopy /\ ~out.late => out.ver >= reader[r].floor
=============================================================================
