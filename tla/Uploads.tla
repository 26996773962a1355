------------------------------- MODULE Uploads -------------------------------
(***************************************************************************)
(* Documents of an upload collection, their files on disk, and the queue   *)
(* of image conversions: the upload API and the admin forms create,        *)
(* replace and delete; the scheduler's image ticks convert.                *)
(*                                                                         *)
(* A file of one upload stands for everything process_upload writes for it *)
(* under one nanoid (original, sizes, synchronous formats); its variant is *)
(* the one format the collection converts in the background.  One action   *)
(* is one transaction, one statement outside a transaction, or one access  *)
(* to the disk; requests and image ticks run side by side.                 *)
(***************************************************************************)
EXTENDS Naturals, FiniteSets

CONSTANTS
    Docs,        \* documents that may be created
    Files,       \* uploads that may be stored (a nanoid is used once)
    Requests,    \* requests that may be under way at once
    Ticks,       \* image ticks that may be under way at once
    BatchSize,   \* [jobs] image_queue_batch_size
    None,        \* no file, no document
    Drafts,      \* TRUE: the collection has drafts and editors save them
    Faults,      \* TRUE: pool, database and encoder may return errors
    Crashes      \* TRUE: the server may stop at any step

ASSUME UploadsAssumption ==
    /\ IsFiniteSet(Files)
    /\ BatchSize \in Nat \ {0}
    /\ None \notin Docs \cup Files
    /\ {Drafts, Faults, Crashes} \subseteq BOOLEAN

VARIABLES
    row,         \* rows of the collection: state, and the files its URLs name
    disk,        \* files in uploads/
    unused,      \* uploads not stored yet
    entry,       \* rows of _crap_image_queue, one per stored upload
    kept,        \* uploads an admin form carries after a validation error
    req,         \* the requests
    tick,        \* the image ticks
    up           \* the server is running

vars == <<row, disk, unused, entry, kept, req, tick, up>>

Disk   == Files \X {"source", "variant"}
Row    == [state : {"new", "live", "deleted"}, url : Files \cup {None},
           variant : Files \cup {None}]
Entry  == [status : {"none", "pending", "processing", "completed", "failed", "purged"},
           doc : Docs \cup {None}]
Kept   == [doc : Docs \cup {None}, file : Files]
Request == [pc : {"idle", "loaded", "stored", "rejected", "committed", "cleaned",
                  "read", "deleted"},
            doc : Docs \cup {None}, old : SUBSET Disk, new : Files \cup {None}]
Tick   == [pc : {"idle", "marking", "working", "converting", "written", "done", "failing"},
           todo : SUBSET Files, work : SUBSET Files, cur : Files \cup {None}]

IdleRequest == [pc |-> "idle", doc |-> None, old |-> {}, new |-> None]
IdleTick    == [pc |-> "idle", todo |-> {}, work |-> {}, cur |-> None]

TypeOK ==
    /\ row \in [Docs -> Row]
    /\ disk \in SUBSET Disk
    /\ unused \in SUBSET Files
    /\ entry \in [Files -> Entry]
    /\ kept \in SUBSET Kept
    /\ req \in [Requests -> Request]
    /\ tick \in [Ticks -> Tick]
    /\ up \in BOOLEAN

Init ==
    /\ row = [d \in Docs |-> [state |-> "new", url |-> None, variant |-> None]]
    /\ disk = {} /\ unused = Files /\ kept = {}
    /\ entry = [f \in Files |-> [status |-> "none", doc |-> None]]
    /\ req = [r \in Requests |-> IdleRequest]
    /\ tick = [t \in Ticks |-> IdleTick]
    /\ up = TRUE

Live(d) == row[d].state = "live"

(* The files the URL columns of a row name: delete_upload_files. *)
FilesOf(d) == {<<row[d].url, "source">>}
              \cup (IF row[d].variant = None THEN {} ELSE {<<row[d].variant, "variant">>})

SetReq(r, v) == req' = [req EXCEPT ![r] = v]
Goto(r, pc)  == SetReq(r, [req[r] EXCEPT !.pc = pc])

-----------------------------------------------------------------------------
(* Create and replace: store the file, commit the row, remove what it      *)
(* replaces, queue the conversion.                                         *)

(* Mutant: the file keeps the client's name, without a nanoid. *)
StoreByName(r, v) ==
    \E f \in Files :
        /\ disk' = disk \cup {<<f, "source">>}
        /\ SetReq(r, [v EXCEPT !.pc = "stored", !.new = f])
        /\ UNCHANGED <<unused, row, entry, kept, tick, up>>

Store(r, v) ==
    \E f \in unused :
        /\ unused' = unused \ {f}
        /\ disk' = disk \cup {<<f, "source">>}
        /\ SetReq(r, [v EXCEPT !.pc = "stored", !.new = f])
        /\ UNCHANGED <<row, entry, kept, tick, up>>

CreateUpload(r) == up /\ req[r].pc = "idle" /\ Store(r, IdleRequest)

(* The old files are read before the transaction; a row that cannot be     *)
(* read leaves none to clean up.                                           *)
ReadFiles(r, d, pc) ==
    /\ \E old \in {IF Live(d) THEN FilesOf(d) ELSE {}} \cup (IF Faults THEN {{}} ELSE {}) :
          SetReq(r, [IdleRequest EXCEPT !.pc = pc, !.doc = d, !.old = old])
    /\ UNCHANGED <<row, disk, unused, entry, kept, tick, up>>

LoadOld(r, d) ==
    up /\ req[r].pc = "idle" /\ row[d].state # "new" /\ ReadFiles(r, d, "loaded")

StoreNew(r) == req[r].pc = "loaded" /\ Store(r, req[r])

Create(d, f) == row' = [row EXCEPT ![d] = [state |-> "live", url |-> f, variant |-> None]]

(* Only the columns the form sends are set: the URL of a queued format is  *)
(* not among them and keeps its value.  A draft save writes a version and  *)
(* leaves the row alone.                                                   *)
Replace(d, f) ==
    /\ Live(d)
    /\ \/ row' = [row EXCEPT ![d].url = f]
       \/ Drafts /\ UNCHANGED row

CommitCreate(r) ==
    /\ req[r].pc = "stored" /\ req[r].doc = None
    /\ \E d \in Docs :
          /\ row[d].state = "new"
          /\ Create(d, req[r].new)
          /\ SetReq(r, [req[r] EXCEPT !.pc = "cleaned", !.doc = d])
    /\ UNCHANGED <<disk, unused, entry, kept, tick, up>>

CommitReplace(r) ==
    /\ req[r].pc = "stored" /\ req[r].doc # None
    /\ Replace(req[r].doc, req[r].new)
    /\ Goto(r, "committed")
    /\ UNCHANGED <<disk, unused, entry, kept, tick, up>>

(* A hook, validation or the database refuses the write, or the row is     *)
(* gone.  The admin form keeps the file after a validation error.          *)
Reject(r) ==
    /\ req[r].pc = "stored"
    /\ \/ Goto(r, "rejected") /\ UNCHANGED kept
       \/ /\ kept' = kept \cup {[doc |-> req[r].doc, file |-> req[r].new]}
          /\ SetReq(r, IdleRequest)
    /\ UNCHANGED <<row, disk, unused, entry, tick, up>>

(* Mutant: the error path cleans up the files it read, not those it wrote. *)
CleanupOld(r) ==
    /\ req[r].pc = "rejected"
    /\ disk' = disk \ req[r].old
    /\ SetReq(r, IdleRequest)
    /\ UNCHANGED <<row, unused, entry, kept, tick, up>>

Cleanup(r) ==
    /\ req[r].pc = "rejected"
    /\ disk' = disk \ {<<req[r].new, "source">>}
    /\ SetReq(r, IdleRequest)
    /\ UNCHANGED <<row, unused, entry, kept, tick, up>>

(* The form comes again with the kept file in hidden fields and no upload: *)
(* nothing is cleaned up and nothing queued.                               *)
Resubmit(k) ==
    /\ up
    /\ IF k.doc = None
       THEN \E d \in Docs : row[d].state = "new" /\ Create(d, k.file)
       ELSE Replace(k.doc, k.file)
    /\ kept' = kept \ {k}
    /\ UNCHANGED <<disk, unused, entry, req, tick, up>>

(* Mutant: the row is read again after the commit. *)
RemoveCurrent(r) ==
    /\ req[r].pc = "committed"
    /\ disk' = disk \ FilesOf(req[r].doc)
    /\ Goto(r, "cleaned")
    /\ UNCHANGED <<row, unused, entry, kept, tick, up>>

RemoveOld(r) ==
    /\ req[r].pc = "committed"
    /\ disk' = disk \ req[r].old
    /\ Goto(r, "cleaned")
    /\ UNCHANGED <<row, unused, entry, kept, tick, up>>

(* An error of the INSERT is logged and the conversion never queued. *)
Enqueue(r) ==
    /\ req[r].pc = "cleaned"
    /\ \/ entry' = [entry EXCEPT ![req[r].new] = [status |-> "pending", doc |-> req[r].doc]]
       \/ Faults /\ UNCHANGED entry
    /\ SetReq(r, IdleRequest)
    /\ UNCHANGED <<row, disk, unused, kept, tick, up>>

-----------------------------------------------------------------------------
(* Delete: delete_document, and the paths that delete only the row (bulk   *)
(* delete, MCP, Lua, CLI).                                                 *)

ReadForDelete(r, d) ==
    up /\ req[r].pc = "idle" /\ Live(d) /\ ReadFiles(r, d, "read")

DropRow(d) == row' = [row EXCEPT ![d].state = "deleted"]

DeleteRow(r) ==
    /\ req[r].pc = "read"
    /\ \/ DropRow(req[r].doc) /\ Goto(r, "deleted")
       \/ UNCHANGED row /\ SetReq(r, IdleRequest)
    /\ UNCHANGED <<disk, unused, entry, kept, tick, up>>

RemoveDeleted(r) ==
    /\ req[r].pc = "deleted"
    /\ disk' = disk \ req[r].old
    /\ SetReq(r, IdleRequest)
    /\ UNCHANGED <<row, unused, entry, kept, tick, up>>

DeleteRowOnly(d) ==
    /\ up /\ Live(d)
    /\ DropRow(d)
    /\ UNCHANGED <<disk, unused, entry, kept, req, tick, up>>

-----------------------------------------------------------------------------
(* An image tick: process_image_queue *)

rest == <<unused, kept, req, up>>

SetTick(t, v) == tick' = [tick EXCEPT ![t] = v]
SetStatus(e, s) ==
    entry' = [entry EXCEPT ![e].status = IF @ = "purged" THEN @ ELSE s]
Pending == {e \in Files : entry[e].status = "pending"}

(* SELECT ... LIMIT: the order by created_at, whole seconds, is left open. *)
Select(t) ==
    /\ up /\ tick[t].pc = "idle" /\ Pending # {}
    /\ \E batch \in SUBSET Pending :
          /\ Cardinality(batch) =< BatchSize
          /\ Cardinality(batch) = BatchSize \/ batch = Pending
          /\ SetTick(t, [IdleTick EXCEPT !.pc = "marking", !.todo = batch])
    /\ UNCHANGED <<row, disk, entry, rest>>

(* UPDATE ... WHERE id: whatever the status has become since the SELECT. *)
MarkProcessing(t, e) ==
    /\ tick[t].pc = "marking" /\ e \in tick[t].todo
    /\ SetStatus(e, "processing")
    /\ SetTick(t, [tick[t] EXCEPT !.todo = @ \ {e}, !.work = @ \cup {e}])
    /\ UNCHANGED <<row, disk, rest>>

Marked(t) ==
    /\ tick[t].pc = "marking" /\ tick[t].todo = {}
    /\ SetTick(t, [tick[t] EXCEPT !.pc = "working"])
    /\ UNCHANGED <<row, disk, entry, rest>>

OpenSource(t, e) ==
    /\ tick[t].pc = "working" /\ e \in tick[t].work
    /\ SetTick(t, [tick[t] EXCEPT !.cur = e, !.work = @ \ {e},
                     !.pc = IF <<e, "source">> \in disk THEN "converting" ELSE "failing"])
    /\ UNCHANGED <<row, disk, entry, rest>>

WriteVariant(t) ==
    /\ tick[t].pc = "converting"
    /\ disk' = disk \cup {<<tick[t].cur, "variant">>}
    /\ SetTick(t, [tick[t] EXCEPT !.pc = "written"])
    /\ UNCHANGED <<row, entry, rest>>

SetColumn(t) ==
    /\ tick[t].pc = "written"
    /\ LET d == entry[tick[t].cur].doc
       IN  IF Live(d) THEN row' = [row EXCEPT ![d].variant = tick[t].cur] ELSE UNCHANGED row
    /\ SetTick(t, [tick[t] EXCEPT !.pc = "done"])
    /\ UNCHANGED <<disk, entry, rest>>

ConversionFails(t) ==
    /\ Faults
    /\ tick[t].pc \in {"converting", "written"}
    /\ SetTick(t, [tick[t] EXCEPT !.pc = "failing"])
    /\ UNCHANGED <<row, disk, entry, rest>>

(* Mutant: an error return before the entry is failed. *)
EndEntryLost(t) ==
    /\ tick[t].pc \in {"done", "failing"}
    /\ IF tick[t].pc = "done" THEN SetStatus(tick[t].cur, "completed") ELSE UNCHANGED entry
    /\ SetTick(t, [tick[t] EXCEPT !.pc = "working", !.cur = None])
    /\ UNCHANGED <<row, disk, rest>>

(* complete_image_entry, fail_image_entry *)
EndEntry(t) ==
    /\ tick[t].pc \in {"done", "failing"}
    /\ SetStatus(tick[t].cur, IF tick[t].pc = "done" THEN "completed" ELSE "failed")
    /\ SetTick(t, [tick[t] EXCEPT !.pc = "working", !.cur = None])
    /\ UNCHANGED <<row, disk, rest>>

TickEnds(t) ==
    /\ tick[t].pc = "working" /\ tick[t].work = {}
    /\ SetTick(t, IdleTick)
    /\ UNCHANGED <<row, disk, entry, rest>>

(* An error of the pool or of a statement ends the tick where it is. *)
TickFails(t) ==
    /\ Faults
    /\ tick[t].pc \in {"marking", "done", "failing"}
    /\ SetTick(t, IdleTick)
    /\ UNCHANGED <<row, disk, entry, rest>>

-----------------------------------------------------------------------------
(* The queue's CLI, and the life of the server *)

(* retry --id; --all repeats it *)
Retry(e) ==
    /\ entry[e].status = "failed"
    /\ entry' = [entry EXCEPT ![e].status = "pending"]
    /\ UNCHANGED <<row, disk, tick, rest>>

Purge(e) ==
    /\ entry[e].status \in {"completed", "failed"}
    /\ entry' = [entry EXCEPT ![e].status = "purged"]
    /\ UNCHANGED <<row, disk, tick, rest>>

Crash ==
    /\ Crashes /\ up
    /\ up' = FALSE
    /\ req' = [r \in Requests |-> IdleRequest]
    /\ tick' = [t \in Ticks |-> IdleTick]
    /\ UNCHANGED <<row, disk, unused, entry, kept>>

(* Mutant: the server starts without recover_stale_images. *)
StartUnrecovered ==
    /\ ~up /\ up' = TRUE
    /\ UNCHANGED <<row, disk, unused, entry, kept, req, tick>>

(* recover_stale_images *)
Start ==
    /\ ~up /\ up' = TRUE
    /\ entry' = [e \in Files |-> IF entry[e].status = "processing"
                                 THEN [entry[e] EXCEPT !.status = "pending"] ELSE entry[e]]
    /\ UNCHANGED <<row, disk, unused, kept, req, tick>>

-----------------------------------------------------------------------------
ReqStep(r) ==
    \/ StoreNew(r) \/ CommitCreate(r) \/ CommitReplace(r) \/ Reject(r) \/ Cleanup(r)
    \/ RemoveOld(r) \/ Enqueue(r) \/ DeleteRow(r) \/ RemoveDeleted(r)

TickStep(t) ==
    \/ Select(t) \/ Marked(t) \/ WriteVariant(t) \/ SetColumn(t) \/ EndEntry(t) \/ TickEnds(t)
    \/ \E e \in Files : MarkProcessing(t, e) \/ OpenSource(t, e)

Next ==
    \/ \E r \in Requests :
          \/ CreateUpload(r) \/ ReqStep(r)
          \/ \E d \in Docs : LoadOld(r, d) \/ ReadForDelete(r, d)
    \/ \E k \in kept : Resubmit(k)
    \/ \E d \in Docs : DeleteRowOnly(d)
    \/ \E t \in Ticks : TickStep(t) \/ ConversionFails(t) \/ TickFails(t)
    \/ \E e \in Files : Retry(e) \/ Purge(e)
    \/ Crash \/ Start

Spec == Init /\ [][Next]_vars

(* The poll interval brings a tick again and again, and a tick that runs   *)
(* goes on; nobody has to send requests or to retry.                       *)
FairSpec == Spec /\ \A t \in Ticks : WF_vars(TickStep(t))

-----------------------------------------------------------------------------
(* Correctness *)

(* Whatever requests overlap on one document, are refused halfway or lost  *)
(* in a crash, the URL of a live document names a file on disk.  A draft   *)
(* save is to leave the published version alone as well.                   *)
MainServed == \A d \in Docs : Live(d) => <<row[d].url, "source">> \in disk

(* A request that removes files takes none from another document: what it  *)
(* read, replaced or kept on the way to its removal may be stale, but it   *)
(* is its own document's.  (A draft save may remove what its document's    *)
(* published row still shows: Drafts breaks MainServed, not this.)         *)
OnlyOwnFiles ==
    [][\A d \in Docs : Live(d) /\ <<row[d].url, "source">> \in disk \ disk' =>
           \E r \in Requests : req'[r] # req[r] /\ req[r].doc = d]_vars

(* An entry marked processing is in the hands of an image tick that will   *)
(* end it: without a restart nothing else would take it up again.          *)
ProcessingOwned ==
    up => \A e \in Files : entry[e].status = "processing" =>
              \E t \in Ticks : e \in tick[t].work \cup {tick[t].cur}

(* Without errors of the encoder or the database, the conversion of the    *)
(* file a live document shows does not fail: it fails only for files that  *)
(* were replaced or deleted while it waited.                               *)
CurrentConverts ==
    \A d \in Docs : Live(d) => entry[row[d].url].status # "failed"

(* A queued conversion ends, whether or not its document still exists. *)
Settles ==
    \A e \in Files :
        entry[e].status = "pending" ~> entry[e].status \in {"completed", "failed", "purged"}
=============================================================================
