---------------------------- MODULE UploadsProofs ----------------------------
(***************************************************************************)
(* Proofs about Uploads, for any documents, files, requests and ticks.     *)
(*                                                                         *)
(* TypeOK is inductive.  The rest is an argument about who may name a      *)
(* file: a stored file is held by one request, one kept form or one row    *)
(* (OneHolder), and what a request is going to remove was read from its    *)
(* own document and is held by nobody else (OldOwn).  With that and no     *)
(* draft saves, every removal spares the files of live rows (Served).      *)
(***************************************************************************)
EXTENDS Uploads, TLAPS

Holding(r)  == req[r].pc \in {"stored", "rejected"}
Removing(r) == req[r].pc \notin {"idle", "cleaned"}
Made(d)     == row[d].state # "new"

HeldOnce ==
    \A r \in Requests : Holding(r) =>
        /\ req[r].new \in Files \ unused
        /\ \A s \in Requests : Holding(s) /\ req[s].new = req[r].new => s = r
        /\ \A k \in kept : k.file # req[r].new
        /\ \A d \in Docs : Made(d) => row[d].url # req[r].new

KeptOnce ==
    \A k \in kept :
        /\ k.file \notin unused
        /\ \A j \in kept : j.file = k.file => j = k
        /\ \A d \in Docs : Made(d) => row[d].url # k.file

OneRow ==
    \A d \in Docs : Made(d) =>
        /\ row[d].url \in Files \ unused
        /\ \A e \in Docs : Made(e) /\ row[e].url = row[d].url => e = d

OneHolder == HeldOnce /\ KeptOnce /\ OneRow

WriteDone ==
    \A r \in Requests :
        /\ req[r].pc \in {"committed", "cleaned"} => req[r].new \in Files \ unused
        /\ req[r].pc \in {"committed", "read", "deleted"}
               => req[r].doc \in Docs /\ Made(req[r].doc)

OldOwn ==
    \A r \in Requests, f \in Files : Removing(r) /\ <<f, "source">> \in req[r].old =>
        /\ f \notin unused
        /\ \A s \in Requests : Holding(s) => req[s].new # f
        /\ \A k \in kept : k.file # f
        /\ \A d \in Docs : Made(d) /\ row[d].url = f => d = req[r].doc

Own == OneHolder /\ WriteDone /\ OldOwn

Served ==
    /\ MainServed
    /\ \A r \in Requests : req[r].pc = "stored" => <<req[r].new, "source">> \in disk
    /\ \A k \in kept : <<k.file, "source">> \in disk
    /\ \A r \in Requests : req[r].pc = "committed" /\ Live(req[r].doc)
           => <<row[req[r].doc].url, "source">> \notin req[r].old
    /\ \A r \in Requests : req[r].pc = "deleted" => ~Live(req[r].doc) /\ Made(req[r].doc)

(* Entries and the ticks that hold them *)
Queued ==
    /\ \A e \in Files : entry[e].status # "none" => e \notin unused
    /\ \A t \in Ticks : tick[t].todo \cup tick[t].work \cup {tick[t].cur} \subseteq (Files \ unused) \cup {None}
    /\ \A t \in Ticks : tick[t].pc \in {"idle", "marking", "working"} => tick[t].cur = None
    /\ \A t \in Ticks : tick[t].pc = "idle" => tick[t].work = {}
    /\ \A t \in Ticks : tick[t].pc \in {"converting", "written", "done", "failing"} => tick[t].cur \in Files

FailedGone ==
    /\ \A e \in Files : entry[e].status = "failed" => <<e, "source">> \notin disk
    /\ \A t \in Ticks : tick[t].pc = "failing" => <<tick[t].cur, "source">> \notin disk
-----------------------------------------------------------------------------
LEMMA IdleTypes == IdleRequest \in Request /\ IdleTick \in Tick
BY DEF IdleRequest, Request, IdleTick, Tick

(* Every step of a request writes one record of req. *)
LEMMA RequestType ==
    ASSUME TypeOK, NEW r \in Requests, NEW v \in Request, SetReq(r, v)
    PROVE  req' \in [Requests -> Request]
BY DEF TypeOK, SetReq

LEMMA GotoType ==
    ASSUME TypeOK, NEW r \in Requests,
           NEW pc \in {"rejected", "committed", "cleaned", "deleted"}, Goto(r, pc)
    PROVE  req' \in [Requests -> Request]
BY DEF TypeOK, Goto, SetReq, Request

LEMMA TickType ==
    ASSUME TypeOK, NEW t \in Ticks, NEW v \in Tick, SetTick(t, v)
    PROVE  tick' \in [Ticks -> Tick]
BY DEF TypeOK, SetTick

LEMMA StatusType ==
    ASSUME TypeOK, NEW e, NEW s \in {"processing", "completed", "failed"}, SetStatus(e, s)
    PROVE  entry' \in [Files -> Entry]
BY DEF TypeOK, SetStatus, Entry

LEMMA FilesOfType ==
    ASSUME TypeOK, OneRow, NEW d \in Docs, Live(d)
    PROVE  FilesOf(d) \in SUBSET Disk
BY DEF TypeOK, OneRow, Made, Live, FilesOf, Row, Disk

LEMMA StoreType ==
    ASSUME TypeOK, NEW r \in Requests, NEW v \in Request, Store(r, v)
    PROVE  TypeOK'
<1>1. PICK f \in unused : SetReq(r, [v EXCEPT !.pc = "stored", !.new = f])
  BY DEF Store
<1>2. f \in Files
  BY DEF TypeOK
<1>3. [v EXCEPT !.pc = "stored", !.new = f] \in Request
  BY <1>2 DEF Request
<1>4. req' \in [Requests -> Request]
  BY <1>1, <1>3, RequestType
<1> QED
  BY <1>4 DEF TypeOK, Store, Disk

LEMMA ReadType ==
    ASSUME TypeOK, OneRow, NEW r \in Requests, NEW d \in Docs,
           NEW pc \in {"loaded", "read"}, ReadFiles(r, d, pc)
    PROVE  TypeOK'
<1>1. PICK old \in {IF Live(d) THEN FilesOf(d) ELSE {}} \cup (IF Faults THEN {{}} ELSE {}) :
          SetReq(r, [IdleRequest EXCEPT !.pc = pc, !.doc = d, !.old = old])
  BY Zenon DEF ReadFiles
<1>2. old \in SUBSET Disk
  <2>1. old = {} \/ (Live(d) /\ old = FilesOf(d))
    <3>1. CASE old \in {IF Live(d) THEN FilesOf(d) ELSE {}}
      BY <3>1, Zenon
    <3>2. CASE old \in (IF Faults THEN {{}} ELSE {})
      <4>1. Faults \/ ~Faults
        OBVIOUS
      <4> QED
        BY <3>2, <4>1, Zenon
    <3> QED
      BY <3>1, <3>2
  <2> QED
    BY <2>1, FilesOfType
<1>3. [IdleRequest EXCEPT !.pc = pc, !.doc = d, !.old = old] \in Request
  BY <1>2 DEF Request, IdleRequest
<1>4. req' \in [Requests -> Request]
  BY <1>1, <1>3, RequestType
<1> QED
  BY <1>4 DEF TypeOK, ReadFiles

LEMMA CreateType ==
    ASSUME TypeOK, NEW d \in Docs, NEW f \in Files, Create(d, f)
    PROVE  row' \in [Docs -> Row]
BY DEF TypeOK, Create, Row

LEMMA ReplaceType ==
    ASSUME TypeOK, NEW d, NEW f \in Files, Replace(d, f)
    PROVE  row' \in [Docs -> Row]
BY DEF TypeOK, Replace, Row

LEMMA DropType ==
    ASSUME TypeOK, NEW d, DropRow(d)
    PROVE  row' \in [Docs -> Row]
BY DEF TypeOK, DropRow, Row

LEMMA TypeRequest ==
    ASSUME TypeOK, Own, NEW r \in Requests, ReqStep(r)
    PROVE  TypeOK'
<1> USE DEF TypeOK
<1>h. Holding(r) => req[r].new \in Files
  BY DEF Own, OneHolder, HeldOnce
<1>i. SetReq(r, IdleRequest) => req' \in [Requests -> Request]
  BY IdleTypes, RequestType
<1>1. CASE StoreNew(r)
  BY <1>1, StoreType DEF StoreNew
<1>2. CASE CommitCreate(r)
  <2>1. PICK d \in Docs : /\ Create(d, req[r].new)
                          /\ SetReq(r, [req[r] EXCEPT !.pc = "cleaned", !.doc = d])
    BY <1>2 DEF CommitCreate
  <2>2. [req[r] EXCEPT !.pc = "cleaned", !.doc = d] \in Request
    BY DEF Request
  <2>3. req' \in [Requests -> Request]
    BY <2>1, <2>2, RequestType
  <2>4. row' \in [Docs -> Row]
    BY <1>2, <1>h, <2>1, CreateType DEF CommitCreate, Holding
  <2> QED
    BY <1>2, <2>3, <2>4 DEF CommitCreate
<1>3. CASE CommitReplace(r)
  BY <1>3, <1>h, GotoType, ReplaceType DEF CommitReplace, Holding
<1>4. CASE Reject(r)
  <2>1. kept' \in SUBSET Kept
    BY <1>4, <1>h DEF Reject, Holding, Kept, Request
  <2>2. req' \in [Requests -> Request]
    BY <1>4, <1>i, GotoType DEF Reject
  <2> QED
    BY <1>4, <2>1, <2>2 DEF Reject
<1>5. CASE Cleanup(r)
  BY <1>5, <1>i DEF Cleanup
<1>6. CASE RemoveOld(r)
  BY <1>6, GotoType DEF RemoveOld
<1>7. CASE Enqueue(r)
  <2>1. entry' \in [Files -> Entry]
    BY <1>7 DEF Enqueue, Entry, Request
  <2> QED
    BY <1>7, <1>i, <2>1 DEF Enqueue
<1>8. CASE DeleteRow(r)
  BY <1>8, <1>i, GotoType, DropType DEF DeleteRow
<1>9. CASE RemoveDeleted(r)
  BY <1>9, <1>i DEF RemoveDeleted
<1> QED
  BY <1>1, <1>2, <1>3, <1>4, <1>5, <1>6, <1>7, <1>8, <1>9 DEF ReqStep

LEMMA TypeTick ==
    ASSUME TypeOK, Queued, NEW t \in Ticks,
           TickStep(t) \/ ConversionFails(t) \/ TickFails(t)
    PROVE  TypeOK'
<1> USE DEF TypeOK
<1> USE DEF rest
<1>1. CASE Select(t)
  <2>1. PICK b \in SUBSET Pending : SetTick(t, [IdleTick EXCEPT !.pc = "marking", !.todo = b])
    BY <1>1 DEF Select
  <2>2. [IdleTick EXCEPT !.pc = "marking", !.todo = b] \in Tick
    BY DEF Tick, IdleTick, Pending
  <2>3. tick' \in [Ticks -> Tick]
    BY <2>1, <2>2, TickType
  <2> QED
    BY <1>1, <2>3 DEF Select
<1>2. CASE Marked(t)
  BY <1>2 DEF Marked, SetTick, Tick
<1>3. CASE WriteVariant(t)
  <2>1. tick' \in [Ticks -> Tick]
    BY <1>3 DEF WriteVariant, SetTick, Tick
  <2>2. disk' \in SUBSET Disk
    BY <1>3 DEF WriteVariant, Queued, Disk
  <2> QED
    BY <1>3, <2>1, <2>2 DEF WriteVariant
<1>4. CASE SetColumn(t)
  <2>1. tick' \in [Ticks -> Tick]
    BY <1>4 DEF SetColumn, SetTick, Tick
  <2>2. tick[t].cur \in Files \cup {None}
    BY DEF Tick
  <2>3. row' \in [Docs -> Row]
    BY <1>4, <2>2 DEF SetColumn, Row
  <2> QED
    BY <1>4, <2>1, <2>3 DEF SetColumn
<1>5. CASE EndEntry(t)
  <2>0. [tick[t] EXCEPT !.pc = "working", !.cur = None] \in Tick
    BY DEF Tick
  <2>1. tick' \in [Ticks -> Tick]
    BY <1>5, <2>0, TickType DEF EndEntry
  <2>2. entry' \in [Files -> Entry]
    BY <1>5, StatusType DEF EndEntry
  <2> QED
    BY <1>5, <2>1, <2>2 DEF EndEntry
<1>6. CASE TickEnds(t)
  BY <1>6, IdleTypes, TickType DEF TickEnds
<1>7. ASSUME NEW e \in Files, MarkProcessing(t, e) PROVE TypeOK'
  <2>0. [tick[t] EXCEPT !.todo = @ \ {e}, !.work = @ \cup {e}] \in Tick
    BY DEF Tick
  <2>1. tick' \in [Ticks -> Tick]
    BY <1>7, <2>0, TickType DEF MarkProcessing
  <2>2. entry' \in [Files -> Entry]
    BY <1>7, StatusType DEF MarkProcessing
  <2> QED
    BY <1>7, <2>1, <2>2 DEF MarkProcessing
<1>8. ASSUME NEW e \in Files, OpenSource(t, e) PROVE TypeOK'
  <2>1. PICK pc \in {"converting", "failing"} :
          SetTick(t, [tick[t] EXCEPT !.cur = e, !.work = @ \ {e}, !.pc = pc])
    BY <1>8, Zenon DEF OpenSource
  <2>2. [tick[t] EXCEPT !.cur = e, !.work = @ \ {e}, !.pc = pc] \in Tick
    BY DEF Tick
  <2>3. tick' \in [Ticks -> Tick]
    BY <2>1, <2>2, TickType
  <2> QED
    BY <1>8, <2>3 DEF OpenSource
<1>9. CASE ConversionFails(t)
  BY <1>9 DEF ConversionFails, SetTick, Tick
<1>10. CASE TickFails(t)
  BY <1>10, IdleTypes, TickType DEF TickFails
<1> QED
  BY <1>1, <1>2, <1>3, <1>4, <1>5, <1>6, <1>7, <1>8, <1>9, <1>10 DEF TickStep

LEMMA TypeNext == TypeOK /\ Own /\ Queued /\ [Next]_vars => TypeOK'
<1> SUFFICES ASSUME TypeOK, Own, Queued, [Next]_vars PROVE TypeOK'
  OBVIOUS
<1> USE DEF TypeOK
<1>1. ASSUME NEW r \in Requests, CreateUpload(r) PROVE TypeOK'
  BY <1>1, IdleTypes, StoreType DEF CreateUpload
<1>2. ASSUME NEW r \in Requests, ReqStep(r) PROVE TypeOK'
  BY <1>2, TypeRequest
<1>3. ASSUME NEW r \in Requests, NEW d \in Docs, LoadOld(r, d) \/ ReadForDelete(r, d)
      PROVE  TypeOK'
  BY <1>3, ReadType DEF LoadOld, ReadForDelete, Own, OneHolder
<1>4. ASSUME NEW k \in kept, Resubmit(k) PROVE TypeOK'
  <2>1. k.file \in Files
    BY DEF Kept
  <2>2. row' \in [Docs -> Row]
    BY <1>4, <2>1, CreateType, ReplaceType DEF Resubmit
  <2> QED
    BY <1>4, <2>2 DEF Resubmit
<1>5. ASSUME NEW d \in Docs, DeleteRowOnly(d) PROVE TypeOK'
  BY <1>5, DropType DEF DeleteRowOnly
<1>6. ASSUME NEW t \in Ticks, TickStep(t) \/ ConversionFails(t) \/ TickFails(t) PROVE TypeOK'
  BY <1>6, TypeTick
<1>7. ASSUME NEW e \in Files, Retry(e) \/ Purge(e) PROVE TypeOK'
  <2>1. entry' \in [Files -> Entry]
    BY <1>7 DEF Retry, Purge, Entry
  <2> QED
    BY <1>7, <2>1 DEF Retry, Purge, rest
<1>8. CASE Crash
  BY <1>8, IdleTypes DEF Crash
<1>9. CASE Start
  <2>1. entry' \in [Files -> Entry]
    BY <1>9 DEF Start, Entry
  <2> QED
    BY <1>9, <2>1 DEF Start
<1>10. CASE UNCHANGED vars
  BY <1>10 DEF vars
<1> QED
  BY <1>1, <1>2, <1>3, <1>4, <1>5, <1>6, <1>7, <1>8, <1>9, <1>10 DEF Next
-----------------------------------------------------------------------------
(* Who names a file: one lemma per kind of step. *)

LEMMA OwnStore ==
    ASSUME TypeOK, Own, NEW r \in Requests, NEW v \in Request, Store(r, v),
           v = IdleRequest \/ (v = req[r] /\ req[r].pc = "loaded")
    PROVE  Own'
<1> USE DEF TypeOK, Own, OneHolder, HeldOnce, KeptOnce, OneRow, WriteDone, OldOwn,
            Holding, Removing, Made
<1>1. PICK f \in unused : /\ unused' = unused \ {f}
                          /\ SetReq(r, [v EXCEPT !.pc = "stored", !.new = f])
  BY DEF Store
<1>2. /\ req'[r] \in Request /\ req'[r].pc = "stored" /\ req'[r].new = f
      /\ req'[r].old = v.old /\ req'[r].doc = v.doc
      /\ \A s \in Requests : s # r => req'[s] = req[s]
  BY <1>1 DEF SetReq, Request
<1>3. \A g \in Files : <<g, "source">> \in v.old => Removing(r) /\ <<g, "source">> \in req[r].old
                                                   /\ v.doc = req[r].doc
  BY DEF IdleRequest
<1>4. UNCHANGED <<row, kept>>
  BY DEF Store
<1>5. HeldOnce'
  BY <1>1, <1>2, <1>4
<1>6. KeptOnce'
  BY <1>1, <1>4
<1>7. OneRow'
  BY <1>1, <1>4, Zenon
<1>8. WriteDone'
  BY <1>1, <1>2, <1>4
<1>9. OldOwn'
  BY <1>1, <1>2, <1>3, <1>4
<1> QED
  BY <1>5, <1>6, <1>7, <1>8, <1>9

SameNames == \A d \in Docs : row'[d].url = row[d].url /\ (Made(d)' <=> Made(d))

(* A request that ends or goes on without a new file, over the same names. *)
LEMMA OwnRelease ==
    ASSUME TypeOK, Own, NEW r \in Requests, SameNames, UNCHANGED <<unused, kept>>,
           \A s \in Requests : s # r => req'[s] = req[s],
           Holding(r)' => Holding(r), Removing(r)' => Removing(r),
           req'[r].pc = "idle" \/ (req'[r].new = req[r].new /\ req'[r].old = req[r].old
                                    /\ req'[r].doc = req[r].doc),
           req'[r].pc \in {"committed", "cleaned"} => req[r].pc \in {"committed", "cleaned"},
           req'[r].pc \in {"committed", "read", "deleted"}
               => req[r].pc \in {"committed", "read", "deleted"}
    PROVE  Own'
<1> USE DEF TypeOK, Own, OneHolder, HeldOnce, KeptOnce, OneRow, WriteDone, OldOwn,
            Holding, Removing, Made, SameNames
<1>1. HeldOnce'
  OBVIOUS
<1>2. KeptOnce' /\ OneRow'
  OBVIOUS
<1>3. WriteDone'
  OBVIOUS
<1>4. OldOwn'
  OBVIOUS
<1> QED
  BY <1>1, <1>2, <1>3, <1>4
(* Steps that leave the requests alone *)
LEMMA OwnFrame ==
    ASSUME TypeOK, Own, SameNames, UNCHANGED <<unused, kept, req>>
    PROVE  Own'
<1> USE DEF TypeOK, Own, OneHolder, HeldOnce, KeptOnce, OneRow, WriteDone, OldOwn,
            Holding, Removing, Made, SameNames
<1>1. HeldOnce' /\ KeptOnce' /\ OneRow'
  OBVIOUS
<1>2. WriteDone' /\ OldOwn'
  OBVIOUS
<1> QED
  BY <1>1, <1>2

LEMMA OwnRead ==
    ASSUME TypeOK, Own, NEW r \in Requests, NEW d \in Docs,
           NEW pc \in {"loaded", "read"}, pc = "loaded" \/ Live(d), ReadFiles(r, d, pc)
    PROVE  Own'
<1> USE DEF TypeOK, Own, OneHolder, HeldOnce, KeptOnce, OneRow, WriteDone, OldOwn,
            Holding, Removing, Made
<1>1. PICK old \in {IF Live(d) THEN FilesOf(d) ELSE {}} \cup (IF Faults THEN {{}} ELSE {}) :
          SetReq(r, [IdleRequest EXCEPT !.pc = pc, !.doc = d, !.old = old])
  BY Zenon DEF ReadFiles
<1>2. old = {} \/ (Live(d) /\ old = FilesOf(d))
  <2>1. CASE old \in {IF Live(d) THEN FilesOf(d) ELSE {}}
    BY <2>1, Zenon
  <2>2. CASE old \in (IF Faults THEN {{}} ELSE {})
    <3>1. Faults \/ ~Faults
      OBVIOUS
    <3> QED
      BY <2>2, <3>1, Zenon
  <2> QED
    BY <2>1, <2>2
<1>3. /\ req'[r].pc = pc /\ req'[r].old = old /\ req'[r].doc = d
      /\ \A s \in Requests : s # r => req'[s] = req[s]
  BY <1>1 DEF SetReq, IdleRequest
<1>4. UNCHANGED <<row, unused, kept>>
  BY DEF ReadFiles
<1>5. \A f \in Files : <<f, "source">> \in old => Live(d) /\ f = row[d].url
  BY <1>2 DEF FilesOf
<1>6. HeldOnce' /\ KeptOnce' /\ OneRow'
  BY <1>3, <1>4
<1>7. WriteDone'
  BY <1>3, <1>4 DEF Live
<1>8. OldOwn'
  BY <1>3, <1>4, <1>5 DEF Live
<1> QED
  BY <1>6, <1>7, <1>8

LEMMA ReplaceNames ==
    ASSUME TypeOK, NEW d \in Docs, NEW f, Replace(d, f)
    PROVE  /\ \A e \in Docs : e # d => row'[e] = row[e]
           /\ row'[d] = row[d] \/ (Made(d)' /\ row'[d].url = f)
<1>1. CASE row' = [row EXCEPT ![d].url = f]
  <2>1. row'[d] = [row[d] EXCEPT !.url = f] /\ row[d] \in Row
    BY <1>1 DEF TypeOK
  <2>2. row'[d].url = f /\ row'[d].state = row[d].state
    BY <2>1 DEF Row
  <2> QED
    BY <1>1, <2>2 DEF TypeOK, Replace, Live, Made
<1>2. CASE UNCHANGED row
  BY <1>2
<1> QED
  BY <1>1, <1>2 DEF Replace

(* A file no request and no form holds any more becomes a row's. *)
LEMMA OwnCommit ==
    ASSUME TypeOK, Own, NEW r \in Requests, CommitCreate(r) \/ CommitReplace(r)
    PROVE  Own'
<1> USE DEF TypeOK, Own, OneHolder, HeldOnce, KeptOnce, OneRow, WriteDone, OldOwn,
            Holding, Removing, Made
<1>1. PICK d \in Docs :
          /\ req[r].pc = "stored" /\ req'[r].new = req[r].new /\ req'[r].old = req[r].old
          /\ \/ req'[r].pc = "cleaned"
             \/ req'[r].pc = "committed" /\ req'[r].doc = d /\ req[r].doc = d /\ Made(d)
          /\ \A s \in Requests : s # r => req'[s] = req[s]
          /\ \A e \in Docs : e # d => row'[e] = row[e]
          /\ \/ row'[d] = row[d]
             \/ Made(d)' /\ row'[d].url = req[r].new
  <2>1. CASE CommitCreate(r)
    <3>1. PICK d \in Docs : /\ Create(d, req[r].new)
                            /\ SetReq(r, [req[r] EXCEPT !.pc = "cleaned", !.doc = d])
      BY <2>1 DEF CommitCreate
    <3>2. /\ req'[r].pc = "cleaned" /\ req'[r].new = req[r].new /\ req'[r].old = req[r].old
          /\ \A s \in Requests : s # r => req'[s] = req[s]
      BY <3>1 DEF SetReq, Request
    <3>3. /\ \A e \in Docs : e # d => row'[e] = row[e]
          /\ Made(d)' /\ row'[d].url = req[r].new
      BY <3>1 DEF Create
    <3> QED
      BY <2>1, <3>2, <3>3 DEF CommitCreate
  <2>2. CASE CommitReplace(r)
    <3>1. PICK d \in Docs : d = req[r].doc
      BY <2>2 DEF CommitReplace, Request
    <3>2. /\ req'[r].pc = "committed" /\ req'[r].new = req[r].new /\ req'[r].old = req[r].old
          /\ req'[r].doc = d
          /\ \A s \in Requests : s # r => req'[s] = req[s]
      BY <2>2, <3>1 DEF CommitReplace, Goto, SetReq, Request
    <3>3. Replace(d, req[r].new)
      BY <2>2, <3>1 DEF CommitReplace
    <3>4. /\ \A e \in Docs : e # d => row'[e] = row[e]
          /\ row'[d] = row[d] \/ (Made(d)' /\ row'[d].url = req[r].new)
      BY <3>3, ReplaceNames
    <3>5. Made(d)
      BY <3>3 DEF Replace, Live
    <3> QED
      BY <2>2, <3>1, <3>2, <3>4, <3>5 DEF CommitReplace
  <2> QED
    BY <2>1, <2>2
<1>2. UNCHANGED <<unused, kept>>
  BY DEF CommitCreate, CommitReplace
<1>3. HeldOnce'
  BY <1>1, <1>2
<1>4. KeptOnce'
  BY <1>1, <1>2
<1>5. OneRow'
  BY <1>1, <1>2
<1>6. WriteDone'
  BY <1>1, <1>2
<1>7. OldOwn'
  BY <1>1, <1>2
<1> QED
  BY <1>3, <1>4, <1>5, <1>6, <1>7

(* The file goes from the request to the form, and from the form to a row. *)
LEMMA OwnKeep ==
    ASSUME TypeOK, Own, NEW r \in Requests, Reject(r), SetReq(r, IdleRequest),
           kept' = kept \cup {[doc |-> req[r].doc, file |-> req[r].new]}
    PROVE  Own'
<1> USE DEF TypeOK, Own, OneHolder, HeldOnce, KeptOnce, OneRow, WriteDone, OldOwn,
            Holding, Removing, Made
<1>1. /\ req[r].pc = "stored" /\ req'[r].pc = "idle"
      /\ \A s \in Requests : s # r => req'[s] = req[s]
      /\ UNCHANGED <<row, unused>>
  BY DEF Reject, SetReq, IdleRequest
<1>2. HeldOnce'
  BY <1>1
<1>3. KeptOnce'
  BY <1>1
<1>4. OneRow' /\ WriteDone'
  BY <1>1
<1>5. OldOwn'
  BY <1>1
<1> QED
  BY <1>2, <1>3, <1>4, <1>5

LEMMA OwnResubmit ==
    ASSUME TypeOK, Own, NEW k \in kept, Resubmit(k)
    PROVE  Own'
<1> USE DEF TypeOK, Own, OneHolder, HeldOnce, KeptOnce, OneRow, WriteDone, OldOwn,
            Holding, Removing, Made
<1>1. k.file \in Files /\ k.doc \in Docs \cup {None}
  BY DEF Kept
<1>2. PICK d \in Docs : /\ \A e \in Docs : e # d => row'[e] = row[e]
                        /\ \/ row'[d] = row[d]
                           \/ Made(d)' /\ row'[d].url = k.file
  <2>1. CASE k.doc = None
    BY <2>1 DEF Resubmit, Create
  <2>2. CASE k.doc # None
    BY <1>1, <2>2, ReplaceNames DEF Resubmit
  <2> QED
    BY <2>1, <2>2
<1>3. kept' = kept \ {k} /\ UNCHANGED <<unused, req>>
  BY DEF Resubmit
<1>4. HeldOnce'
  BY <1>1, <1>2, <1>3
<1>5. KeptOnce'
  BY <1>1, <1>2, <1>3
<1>6. OneRow'
  BY <1>1, <1>2, <1>3
<1>7. WriteDone' /\ OldOwn'
  BY <1>1, <1>2, <1>3
<1> QED
  BY <1>4, <1>5, <1>6, <1>7
LEMMA OwnRequest ==
    ASSUME TypeOK, Own, NEW r \in Requests, ReqStep(r)
    PROVE  Own'
<1>i. SetReq(r, IdleRequest) => /\ req'[r].pc = "idle"
                               /\ \A s \in Requests : s # r => req'[s] = req[s]
  BY DEF TypeOK, SetReq, IdleRequest
<1>g. \A pc : Goto(r, pc) =>
          /\ req'[r].pc = pc /\ req'[r].new = req[r].new /\ req'[r].old = req[r].old
          /\ req'[r].doc = req[r].doc
          /\ \A s \in Requests : s # r => req'[s] = req[s]
  BY DEF TypeOK, Goto, SetReq, Request
<1> USE DEF SameNames, Made, Holding, Removing
<1>1. CASE StoreNew(r)
  BY <1>1, OwnStore DEF StoreNew, TypeOK
<1>2. CASE CommitCreate(r) \/ CommitReplace(r)
  BY <1>2, OwnCommit
<1>3. CASE Reject(r)
  <2>1. CASE Goto(r, "rejected") /\ UNCHANGED kept
    BY <1>3, <1>g, <2>1, OwnRelease DEF Reject
  <2>2. CASE SetReq(r, IdleRequest) /\ kept' = kept \cup {[doc |-> req[r].doc, file |-> req[r].new]}
    BY <1>3, <2>2, OwnKeep
  <2> QED
    BY <1>3, <2>1, <2>2 DEF Reject
<1>4. CASE Cleanup(r)
  BY <1>4, <1>i, OwnRelease DEF Cleanup
<1>5. CASE RemoveOld(r)
  BY <1>5, <1>g, OwnRelease DEF RemoveOld
<1>6. CASE Enqueue(r)
  BY <1>6, <1>i, OwnRelease DEF Enqueue
<1>7. CASE DeleteRow(r)
  <2>1. SameNames
    <3>1. PICK d \in Docs : Made(d) /\ (UNCHANGED row \/ DropRow(d))
      BY <1>7 DEF DeleteRow, Own, WriteDone
    <3> QED
      BY <3>1 DEF DropRow, TypeOK, Row
  <2> QED
    BY <1>7, <1>g, <1>i, <2>1, OwnRelease DEF DeleteRow
<1>8. CASE RemoveDeleted(r)
  BY <1>8, <1>i, OwnRelease DEF RemoveDeleted
<1> QED
  BY <1>1, <1>2, <1>3, <1>4, <1>5, <1>6, <1>7, <1>8 DEF ReqStep

LEMMA OwnNext == TypeOK /\ Own /\ [Next]_vars => Own'
<1> SUFFICES ASSUME TypeOK, Own, [Next]_vars PROVE Own'
  OBVIOUS
<1> USE DEF SameNames, Made
<1>1. ASSUME NEW r \in Requests, CreateUpload(r) PROVE Own'
  BY <1>1, IdleTypes, OwnStore DEF CreateUpload
<1>2. ASSUME NEW r \in Requests, ReqStep(r) PROVE Own'
  BY <1>2, OwnRequest
<1>3. ASSUME NEW r \in Requests, NEW d \in Docs, LoadOld(r, d) \/ ReadForDelete(r, d)
      PROVE  Own'
  BY <1>3, OwnRead DEF LoadOld, ReadForDelete
<1>4. ASSUME NEW k \in kept, Resubmit(k) PROVE Own'
  BY <1>4, OwnResubmit
<1>5. ASSUME NEW d \in Docs, DeleteRowOnly(d) PROVE Own'
  <2>1. SameNames
    BY <1>5 DEF DeleteRowOnly, DropRow, Live, TypeOK, Row
  <2> QED
    BY <1>5, <2>1, OwnFrame DEF DeleteRowOnly
<1>6. ASSUME NEW t \in Ticks, TickStep(t) \/ ConversionFails(t) \/ TickFails(t) PROVE Own'
  <2>1. CASE SetColumn(t)
    <3>1. SameNames
      BY <2>1 DEF SetColumn, TypeOK, Row
    <3> QED
      BY <2>1, <3>1, OwnFrame DEF SetColumn, rest
  <2>2. CASE ~SetColumn(t)
    <3>1. UNCHANGED <<row, unused, kept, req>>
      BY <1>6, <2>2 DEF TickStep, ConversionFails, TickFails, Select, Marked, WriteVariant,
                       EndEntry, TickEnds, MarkProcessing, OpenSource, rest
    <3> QED
      BY <3>1, OwnFrame
  <2> QED
    BY <2>1, <2>2
<1>7. ASSUME NEW e \in Files, Retry(e) \/ Purge(e) PROVE Own'
  BY <1>7, OwnFrame DEF Retry, Purge, rest
<1>8. CASE Crash
  <2>1. /\ \A r \in Requests : req'[r].pc = "idle"
        /\ UNCHANGED <<row, unused, kept>>
    BY <1>8 DEF Crash, IdleRequest
  <2> QED
    BY <2>1 DEF Own, OneHolder, HeldOnce, KeptOnce, OneRow, WriteDone, OldOwn, Holding, Removing
<1>9. CASE Start \/ UNCHANGED vars
  BY <1>9, OwnFrame DEF Start, vars
<1> QED
  BY <1>1, <1>2, <1>3, <1>4, <1>5, <1>6, <1>7, <1>8, <1>9 DEF Next
-----------------------------------------------------------------------------
LEMMA QueuedNext == TypeOK /\ Own /\ Queued /\ [Next]_vars => Queued'
<1> SUFFICES ASSUME TypeOK, Own, Queued, [Next]_vars PROVE Queued'
  OBVIOUS
<1>f. unused' \subseteq unused /\ UNCHANGED <<entry, tick>> => Queued'
  BY DEF Queued, TypeOK
<1>1. ASSUME NEW r \in Requests, NEW v, Store(r, v) PROVE Queued'
  BY <1>1, <1>f DEF Store
<1>2. ASSUME NEW r \in Requests, ReqStep(r) PROVE Queued'
  <2>1. CASE StoreNew(r)
    BY <1>1, <2>1 DEF StoreNew
  <2>2. CASE Enqueue(r)
    BY <2>2 DEF Enqueue, Queued, Own, WriteDone, TypeOK
  <2>3. CASE ~StoreNew(r) /\ ~Enqueue(r)
    BY <1>2, <1>f, <2>3 DEF ReqStep, CommitCreate, CommitReplace, Reject, Cleanup, RemoveOld,
                            DeleteRow, RemoveDeleted
  <2> QED
    BY <2>1, <2>2, <2>3
<1>3. ASSUME NEW r \in Requests,
             CreateUpload(r) \/ \E d \in Docs : LoadOld(r, d) \/ ReadForDelete(r, d)
      PROVE  Queued'
  BY <1>1, <1>3, <1>f DEF CreateUpload, LoadOld, ReadForDelete, ReadFiles
<1>4. ASSUME NEW k \in kept, Resubmit(k) PROVE Queued'
  BY <1>4, <1>f DEF Resubmit
<1>5. ASSUME NEW d \in Docs, DeleteRowOnly(d) PROVE Queued'
  BY <1>5, <1>f DEF DeleteRowOnly
<1>6. ASSUME NEW t \in Ticks, TickStep(t) \/ ConversionFails(t) \/ TickFails(t) PROVE Queued'
  <2> USE DEF Queued, TypeOK, SetTick, Tick, rest
  <2>1. CASE Select(t)
    BY <2>1 DEF Select, IdleTick, Pending
  <2>2. CASE Marked(t)
    BY <2>2 DEF Marked
  <2>7. CASE TickEnds(t)
    BY <2>7 DEF TickEnds, IdleTick
  <2>8. CASE TickFails(t)
    BY <2>8 DEF TickFails, IdleTick
  <2>3. CASE WriteVariant(t)
    BY <2>3 DEF WriteVariant
  <2>9. CASE SetColumn(t)
    BY <2>9 DEF SetColumn
  <2>10. CASE ConversionFails(t)
    BY <2>10 DEF ConversionFails
  <2>4. CASE EndEntry(t)
    BY <2>4, UploadsAssumption DEF EndEntry, SetStatus, Entry
  <2>5. ASSUME NEW e \in Files, MarkProcessing(t, e) PROVE Queued'
    BY <2>5, UploadsAssumption DEF MarkProcessing, SetStatus, Entry
  <2>6. ASSUME NEW e \in Files, OpenSource(t, e) PROVE Queued'
    BY <2>6 DEF OpenSource
  <2> QED
    BY <1>6, <2>1, <2>2, <2>3, <2>4, <2>5, <2>6, <2>7, <2>8, <2>9, <2>10 DEF TickStep
<1>7. ASSUME NEW e \in Files, Retry(e) \/ Purge(e) PROVE Queued'
  BY <1>7 DEF Retry, Purge, rest, Queued, TypeOK, Entry
<1>8. CASE Crash
  BY <1>8 DEF Crash, IdleTick, Queued
<1>9. CASE Start
  BY <1>9 DEF Start, Queued, TypeOK, Entry
<1>10. CASE UNCHANGED vars
  BY <1>10, <1>f DEF vars
<1> QED
  BY <1>2, <1>3, <1>4, <1>5, <1>6, <1>7, <1>8, <1>9, <1>10 DEF Next

Inv == TypeOK /\ Own /\ Queued

LEMMA InvInit == Init => Inv
<1> SUFFICES ASSUME Init PROVE Inv
  OBVIOUS
<1>1. TypeOK
  BY IdleTypes DEF Init, TypeOK, Row, Entry, Kept
<1>2. Own
  BY DEF Init, Own, OneHolder, HeldOnce, KeptOnce, OneRow, WriteDone, OldOwn, Holding, Removing,
         Made, IdleRequest
<1>3. Queued
  BY DEF Init, Queued, IdleTick
<1> QED
  BY <1>1, <1>2, <1>3 DEF Inv

(* Every file has one holder, and what a request is about to remove was    *)
(* read from its own document and is held by no one else.                  *)
THEOREM Ownership == Spec => []Inv
<1>1. Inv /\ [Next]_vars => Inv'
  BY TypeNext, OwnNext, QueuedNext DEF Inv
<1> QED
  BY <1>1, InvInit, PTL DEF Spec

(* Every variable keeps its type. *)
THEOREM TypeCorrect == Spec => []TypeOK
<1>1. Inv => TypeOK
  BY DEF Inv
<1> QED
  BY <1>1, Ownership, PTL
-----------------------------------------------------------------------------
(* The files of live documents.  Draft saves are left out from here on.    *)

LEMMA ServedStore ==
    ASSUME Inv, Served, NEW r \in Requests, NEW v \in Request, Store(r, v)
    PROVE  Served'
<1> USE DEF Inv, TypeOK, Own, WriteDone, Served, MainServed, Live, Made
<1>1. PICK f \in unused : /\ disk' = disk \cup {<<f, "source">>}
                          /\ SetReq(r, [v EXCEPT !.pc = "stored", !.new = f])
  BY DEF Store
<1>2. /\ req'[r].pc = "stored" /\ req'[r].new = f
      /\ \A s \in Requests : s # r => req'[s] = req[s]
  BY <1>1 DEF SetReq, Request
<1> QED
  BY <1>1, <1>2 DEF Store

(* A request that goes on or ends while the disk keeps what is named *)
LEMMA ServedRelease ==
    ASSUME Inv, Served, NEW r \in Requests, UNCHANGED <<row, kept>>,
           \A s \in Requests : s # r => req'[s] = req[s],
           req'[r].pc \notin {"stored", "committed", "deleted"},
           MainServed',
           \A s \in Requests : s # r /\ req[s].pc = "stored" => <<req[s].new, "source">> \in disk',
           \A k \in kept : <<k.file, "source">> \in disk'
    PROVE  Served'
BY DEF Inv, TypeOK, Own, WriteDone, Served, MainServed, Live, Made

LEMMA ServedCommit ==
    ASSUME Inv, Served, ~Drafts, NEW r \in Requests, CommitCreate(r) \/ CommitReplace(r)
    PROVE  Served'
<1> USE DEF Inv, TypeOK, Own, OneHolder, HeldOnce, WriteDone, OldOwn, Served, MainServed, Live,
            Made, Holding, Removing
<1>1. CASE CommitCreate(r)
  <2>1. PICK d \in Docs : /\ row[d].state = "new" /\ Create(d, req[r].new)
                          /\ SetReq(r, [req[r] EXCEPT !.pc = "cleaned", !.doc = d])
    BY <1>1 DEF CommitCreate
  <2>2. /\ req'[r].pc = "cleaned"
        /\ \A s \in Requests : s # r => req'[s] = req[s]
        /\ \A e \in Docs : e # d => row'[e] = row[e]
        /\ row'[d].url = req[r].new
    BY <2>1 DEF SetReq, Request, Create
  <2>3. <<req[r].new, "source">> \in disk /\ UNCHANGED <<disk, kept>>
    BY <1>1 DEF CommitCreate
  <2> QED
    BY <2>1, <2>2, <2>3
<1>2. CASE CommitReplace(r)
  <2>1. PICK d \in Docs : d = req[r].doc
    BY <1>2 DEF CommitReplace, Request
  <2>2. /\ req[r].pc = "stored" /\ req'[r].pc = "committed" /\ req'[r].old = req[r].old
        /\ req'[r].doc = d
        /\ \A s \in Requests : s # r => req'[s] = req[s]
    BY <1>2, <2>1 DEF CommitReplace, Goto, SetReq, Request
  <2>3. /\ row[d].state = "live" /\ row'[d].url = req[r].new
        /\ \A e \in Docs : e # d => row'[e] = row[e]
        /\ row'[d].state = "live"
    BY <1>2, <2>1 DEF CommitReplace, Replace, Row
  <2>4. <<req[r].new, "source">> \in disk /\ UNCHANGED <<disk, kept>>
    BY <1>2 DEF CommitReplace
  <2>5. \A s \in Requests : Removing(s) => <<req[r].new, "source">> \notin req[s].old
    BY <2>2
  <2>6. MainServed'
    BY <2>3, <2>4
  <2>7. \A s \in Requests : req'[s].pc = "committed" /\ Live(req[s].doc)'
            => <<row'[req'[s].doc].url, "source">> \notin req'[s].old
    <3> SUFFICES ASSUME NEW s \in Requests, req'[s].pc = "committed", Live(req[s].doc)'
                 PROVE  <<row'[req'[s].doc].url, "source">> \notin req'[s].old
      OBVIOUS
    <3>1. CASE s = r
      BY <2>2, <2>3, <2>5, <3>1
    <3>2. CASE s # r /\ req[s].doc = d
      BY <2>2, <2>3, <2>5, <3>2
    <3>3. CASE s # r /\ req[s].doc # d
      BY <2>2, <2>3, <3>3
    <3> QED
      BY <3>1, <3>2, <3>3
  <2>8. \A s \in Requests : req'[s].pc = "deleted" => s # r /\ req[s].doc # d
    BY <2>2, <2>3
  <2> QED
    BY <2>2, <2>3, <2>4, <2>6, <2>7, <2>8
<1> QED
  BY <1>1, <1>2
LEMMA ServedReject ==
    ASSUME Inv, Served, NEW r \in Requests, Reject(r)
    PROVE  Served'
<1> USE DEF Inv, TypeOK, Own, WriteDone, Served, MainServed, Live, Made
<1>1. /\ req[r].pc = "stored" /\ req'[r].pc \in {"idle", "rejected"}
      /\ \A s \in Requests : s # r => req'[s] = req[s]
  BY DEF Reject, Goto, SetReq, IdleRequest, Request
<1>2. \A k \in kept' : k \in kept \/ k.file = req[r].new
  BY DEF Reject
<1>3. UNCHANGED <<row, disk>>
  BY DEF Reject
<1> QED
  BY <1>1, <1>2, <1>3

(* A row goes: by itself, or as the transaction of delete_document. *)
LEMMA ServedDrop ==
    ASSUME Inv, Served, NEW d \in Docs, DropRow(d), Made(d), UNCHANGED <<disk, kept>>,
           UNCHANGED req \/ \E r \in Requests : req[r].pc = "read" /\ req[r].doc = d /\ Goto(r, "deleted")
    PROVE  Served'
<1> USE DEF Inv, TypeOK, Own, WriteDone, Served, MainServed, Live, Made
<1>1. /\ row'[d].state = "deleted" /\ \A e \in Docs : e # d => row'[e] = row[e]
  BY DEF DropRow, Row
<1>2. \A e \in Docs : row'[e].url = row[e].url
  BY DEF DropRow, Row
<1>3. CASE UNCHANGED req
  BY <1>1, <1>2, <1>3
<1>4. ASSUME NEW r \in Requests, req[r].pc = "read", req[r].doc = d, Goto(r, "deleted")
      PROVE  Served'
  <2>1. /\ req'[r].pc = "deleted" /\ req'[r].doc = d
        /\ \A s \in Requests : s # r => req'[s] = req[s]
    BY <1>4 DEF Goto, SetReq, Request
  <2> QED
    BY <1>1, <1>2, <2>1
<1> QED
  BY <1>3, <1>4

LEMMA ServedRequest ==
    ASSUME Inv, Served, ~Drafts, NEW r \in Requests, ReqStep(r)
    PROVE  Served'
<1>i. SetReq(r, IdleRequest) => /\ req'[r].pc = "idle"
                               /\ \A s \in Requests : s # r => req'[s] = req[s]
  BY DEF Inv, TypeOK, SetReq, IdleRequest
<1>g. Goto(r, "cleaned") => /\ req'[r].pc = "cleaned"
                           /\ \A s \in Requests : s # r => req'[s] = req[s]
  BY DEF Inv, TypeOK, Goto, SetReq, Request
<1> USE DEF Inv, TypeOK, Own, OneHolder, HeldOnce, OldOwn, WriteDone, OneRow, KeptOnce,
            Served, MainServed, Live, Made, Holding, Removing, Kept
<1>1. CASE StoreNew(r)
  BY <1>1, ServedStore DEF StoreNew
<1>2. CASE CommitCreate(r) \/ CommitReplace(r)
  BY <1>2, ServedCommit
<1>3. CASE Reject(r)
  BY <1>3, ServedReject
<1>4. CASE Cleanup(r)
  <2>1. /\ req[r].pc = "rejected" /\ disk' = disk \ {<<req[r].new, "source">>}
        /\ UNCHANGED <<row, kept>>
    BY <1>4 DEF Cleanup
  <2> QED
    BY <1>4, <1>i, <2>1, ServedRelease DEF Cleanup
<1>5. CASE RemoveOld(r)
  <2>1. /\ req[r].pc = "committed" /\ disk' = disk \ req[r].old /\ UNCHANGED <<row, kept>>
    BY <1>5 DEF RemoveOld
  <2>2. MainServed'
    BY <2>1
  <2>3. \A s \in Requests : s # r /\ req[s].pc = "stored" => <<req[s].new, "source">> \in disk'
    BY <2>1
  <2>4. \A k \in kept : <<k.file, "source">> \in disk'
    BY <2>1
  <2> QED
    BY <1>5, <1>g, <2>1, <2>2, <2>3, <2>4, ServedRelease DEF RemoveOld
<1>6. CASE Enqueue(r)
  BY <1>6, <1>i, ServedRelease DEF Enqueue
<1>7. CASE DeleteRow(r)
  <2>1. CASE UNCHANGED row /\ SetReq(r, IdleRequest)
    BY <1>7, <1>i, <2>1, ServedRelease DEF DeleteRow
  <2>2. CASE DropRow(req[r].doc) /\ Goto(r, "deleted")
    <3>1. PICK d \in Docs : d = req[r].doc /\ Made(d)
      BY <1>7 DEF DeleteRow
    <3> QED
      BY <1>7, <2>2, <3>1, ServedDrop DEF DeleteRow
  <2> QED
    BY <1>7, <2>1, <2>2 DEF DeleteRow
<1>8. CASE RemoveDeleted(r)
  <2>1. /\ req[r].pc = "deleted" /\ disk' = disk \ req[r].old /\ UNCHANGED <<row, kept>>
    BY <1>8 DEF RemoveDeleted
  <2>2. MainServed'
    BY <2>1
  <2>3. \A s \in Requests : s # r /\ req[s].pc = "stored" => <<req[s].new, "source">> \in disk'
    BY <2>1
  <2>4. \A k \in kept : <<k.file, "source">> \in disk'
    BY <2>1
  <2> QED
    BY <1>8, <1>i, <2>1, <2>2, <2>3, <2>4, ServedRelease DEF RemoveDeleted
<1> QED
  BY <1>1, <1>2, <1>3, <1>4, <1>5, <1>6, <1>7, <1>8 DEF ReqStep

LEMMA ServedNext == Inv /\ Served /\ ~Drafts /\ [Next]_vars => Served'
<1> SUFFICES ASSUME Inv, Served, ~Drafts, [Next]_vars PROVE Served'
  OBVIOUS
<1>f. /\ disk \subseteq disk' /\ UNCHANGED <<kept, req>>
      /\ \A d \in Docs : row'[d].state = row[d].state /\ row'[d].url = row[d].url
      => Served'
  BY DEF Inv, TypeOK, Own, WriteDone, Served, MainServed, Live, Made
<1>1. ASSUME NEW r \in Requests, CreateUpload(r) PROVE Served'
  BY <1>1, IdleTypes, ServedStore DEF CreateUpload
<1>2. ASSUME NEW r \in Requests, ReqStep(r) PROVE Served'
  BY <1>2, ServedRequest
<1>3. ASSUME NEW r \in Requests, NEW d \in Docs, LoadOld(r, d) \/ ReadForDelete(r, d)
      PROVE  Served'
  <2>1. PICK pc \in {"loaded", "read"} : \E old :
            SetReq(r, [IdleRequest EXCEPT !.pc = pc, !.doc = d, !.old = old])
    BY <1>3, Zenon DEF LoadOld, ReadForDelete, ReadFiles
  <2>2. /\ req'[r].pc \in {"loaded", "read"}
        /\ \A s \in Requests : s # r => req'[s] = req[s]
    BY <2>1 DEF SetReq, IdleRequest, Inv, TypeOK
  <2> QED
    BY <1>3, <2>2, ServedRelease
       DEF LoadOld, ReadForDelete, ReadFiles, Served, MainServed, Live
<1>4. ASSUME NEW k \in kept, Resubmit(k) PROVE Served'
  <2> USE DEF Inv, TypeOK, Own, OneHolder, KeptOnce, OldOwn, WriteDone, Served, MainServed,
              Live, Made, Removing
  <2>1. k.file \in Files /\ k.doc \in Docs \cup {None}
    BY DEF Kept
  <2>2. PICK d \in Docs : /\ \A e \in Docs : e # d => row'[e] = row[e]
                          /\ row'[d].url = k.file /\ row[d].state # "deleted"
                          /\ row'[d].state = "live"
    <3>1. CASE k.doc = None
      BY <1>4, <3>1 DEF Resubmit, Create
    <3>2. CASE k.doc # None
      BY <1>4, <2>1, <3>2 DEF Resubmit, Replace, Row
    <3> QED
      BY <3>1, <3>2
  <2>3. kept' = kept \ {k} /\ UNCHANGED <<disk, req>>
    BY <1>4 DEF Resubmit
  <2>4. MainServed'
    BY <2>2, <2>3
  <2>5. \A s \in Requests : req[s].pc = "committed" /\ row'[req[s].doc].state = "live"
            => <<row'[req[s].doc].url, "source">> \notin req[s].old
    BY <2>1, <2>2
  <2>6. \A s \in Requests : req[s].pc = "deleted"
            => row'[req[s].doc].state \notin {"live", "new"}
    BY <2>2 DEF Row
  <2> QED
    BY <2>2, <2>3, <2>4, <2>5, <2>6
<1>5. ASSUME NEW d \in Docs, DeleteRowOnly(d) PROVE Served'
  BY <1>5, ServedDrop DEF DeleteRowOnly, Live, Made
<1>6. ASSUME NEW t \in Ticks, TickStep(t) \/ ConversionFails(t) \/ TickFails(t) PROVE Served'
  <2>1. CASE SetColumn(t)
    <3>1. \A d \in Docs : row'[d].state = row[d].state /\ row'[d].url = row[d].url
      BY <2>1 DEF SetColumn, Inv, TypeOK, Row
    <3> QED
      BY <1>f, <2>1, <3>1 DEF SetColumn, rest
  <2>2. CASE ~SetColumn(t)
    <3>1. disk \subseteq disk' /\ UNCHANGED <<row, kept, req>>
      BY <1>6, <2>2 DEF TickStep, ConversionFails, TickFails, Select, Marked, WriteVariant,
                       EndEntry, TickEnds, MarkProcessing, OpenSource, rest
    <3> QED
      BY <1>f, <3>1
  <2> QED
    BY <2>1, <2>2
<1>7. ASSUME NEW e \in Files, Retry(e) \/ Purge(e) PROVE Served'
  BY <1>7, <1>f DEF Retry, Purge, rest
<1>8. CASE Crash
  BY <1>8 DEF Crash, IdleRequest, Served, MainServed, Live
<1>9. CASE Start \/ UNCHANGED vars
  BY <1>9, <1>f DEF Start, vars
<1> QED
  BY <1>1, <1>2, <1>3, <1>4, <1>5, <1>6, <1>7, <1>8, <1>9 DEF Next

(* Without draft saves, the file a live document names is always on disk.  *)
THEOREM FilesServed ==
    ASSUME ~Drafts
    PROVE  Spec => []MainServed
<1>1. Init => Served
  BY DEF Init, Served, MainServed, Live, IdleRequest
<1>2. Inv /\ Served /\ [Next]_vars => Served'
  BY ServedNext
<1>3. Served => MainServed
  BY DEF Served
<1> QED
  BY <1>1, <1>2, <1>3, Ownership, PTL DEF Spec
-----------------------------------------------------------------------------
(* With drafts and errors too, a request removes only what its own         *)
(* document showed.                                                        *)
THEOREM RemovesOwn == Spec => OnlyOwnFiles
<1> DEFINE Safe == \A d \in Docs : Live(d) /\ <<row[d].url, "source">> \in disk \ disk' =>
                     \E r \in Requests : req'[r] # req[r] /\ req[r].doc = d
<1>1. Inv /\ [Next]_vars => [Safe]_vars
  <2> SUFFICES ASSUME Inv, [Next]_vars, ~(disk \subseteq disk') PROVE Safe
    OBVIOUS
  <2>1. PICK r \in Requests : Cleanup(r) \/ RemoveOld(r) \/ RemoveDeleted(r)
    BY DEF Next, vars, ReqStep, TickStep, CreateUpload, LoadOld, ReadForDelete, ReadFiles, Store,
           StoreNew, CommitCreate, CommitReplace, Reject, Enqueue, DeleteRow, Resubmit,
           DeleteRowOnly, Select, MarkProcessing, Marked, OpenSource, WriteVariant, SetColumn,
           ConversionFails, EndEntry, TickEnds, TickFails, Retry, Purge, Crash, Start, rest
  <2> USE DEF Inv, TypeOK, Own, OneHolder, OneRow, HeldOnce, OldOwn, Holding, Removing, Live, Made
  <2>2. CASE Cleanup(r)
    BY <2>2 DEF Cleanup
  <2>3. CASE RemoveOld(r)
    <3>1. req'[r] # req[r]
      BY <2>3 DEF RemoveOld, Goto, SetReq, Request
    <3>2. req[r].pc = "committed" /\ disk' = disk \ req[r].old
      BY <2>3 DEF RemoveOld
    <3> QED
      BY <3>1, <3>2
  <2>4. CASE RemoveDeleted(r)
    <3>1. req'[r] # req[r]
      BY <2>4 DEF RemoveDeleted, SetReq, IdleRequest
    <3>2. req[r].pc = "deleted" /\ disk' = disk \ req[r].old
      BY <2>4 DEF RemoveDeleted
    <3> QED
      BY <3>1, <3>2
  <2> QED
    BY <2>1, <2>2, <2>3, <2>4
<1> QED
  BY <1>1, Ownership, PTL DEF Spec, OnlyOwnFiles

-----------------------------------------------------------------------------
(* The queue without errors of the pool, the database or the encoder *)

LEMMA OwnedNext == Inv /\ ~Faults /\ ProcessingOwned /\ [Next]_vars => ProcessingOwned'
<1> SUFFICES ASSUME Inv, ~Faults, ProcessingOwned, [Next]_vars PROVE ProcessingOwned'
  OBVIOUS
<1> USE DEF ProcessingOwned
<1>f. UNCHANGED <<entry, tick, up>> => ProcessingOwned'
  OBVIOUS
<1>1. ASSUME NEW r \in Requests,
             CreateUpload(r) \/ ReqStep(r) \/ \E d \in Docs : LoadOld(r, d) \/ ReadForDelete(r, d)
      PROVE  ProcessingOwned'
  <2>1. CASE Enqueue(r)
    BY <2>1 DEF Enqueue, Inv, TypeOK, Entry
  <2>2. CASE ~Enqueue(r)
    BY <1>1, <1>f, <2>2 DEF ReqStep, CreateUpload, StoreNew, Store, LoadOld, ReadForDelete,
         ReadFiles, CommitCreate, CommitReplace, Reject, Cleanup, RemoveOld, DeleteRow, RemoveDeleted
  <2> QED
    BY <2>1, <2>2
<1>2. ASSUME NEW t \in Ticks, TickStep(t) PROVE ProcessingOwned'
  <2> USE DEF Inv, TypeOK, Queued, Tick, SetTick, rest
  <2>1. CASE Select(t)
    BY <2>1 DEF Select, IdleTick
  <2>2. CASE Marked(t)
    BY <2>2 DEF Marked
  <2>3. CASE WriteVariant(t)
    BY <2>3 DEF WriteVariant
  <2>4. CASE SetColumn(t)
    BY <2>4 DEF SetColumn
  <2>5. CASE EndEntry(t)
    BY <2>5 DEF EndEntry, SetStatus, Entry
  <2>6. CASE TickEnds(t)
    BY <2>6, UploadsAssumption DEF TickEnds, IdleTick
  <2>7. ASSUME NEW e \in Files, MarkProcessing(t, e) PROVE ProcessingOwned'
    BY <2>7 DEF MarkProcessing, SetStatus, Entry
  <2>8. ASSUME NEW e \in Files, OpenSource(t, e) PROVE ProcessingOwned'
    BY <2>8, UploadsAssumption DEF OpenSource
  <2> QED
    BY <1>2, <2>1, <2>2, <2>3, <2>4, <2>5, <2>6, <2>7, <2>8 DEF TickStep
<1>3. ASSUME NEW e \in Files, Retry(e) \/ Purge(e) PROVE ProcessingOwned'
  <2>1. \A f \in Files : entry'[f].status = "processing" => entry[f].status = "processing"
    BY <1>3 DEF Retry, Purge, Inv, TypeOK, Entry
  <2>2. UNCHANGED <<tick, up>>
    BY <1>3 DEF Retry, Purge, rest
  <2> QED
    BY <2>1, <2>2
<1>4. CASE Crash
  BY <1>4 DEF Crash
<1>5. CASE Start
  BY <1>5 DEF Start, Inv, TypeOK, Entry
<1>6. ASSUME NEW k \in kept, Resubmit(k) PROVE ProcessingOwned'
  BY <1>6, <1>f DEF Resubmit
<1>7. ASSUME NEW d \in Docs, DeleteRowOnly(d) PROVE ProcessingOwned'
  BY <1>7, <1>f DEF DeleteRowOnly
<1>8. CASE UNCHANGED vars
  BY <1>8, <1>f DEF vars
<1>9. ASSUME NEW t \in Ticks, ConversionFails(t) \/ TickFails(t) PROVE FALSE
  BY <1>9 DEF ConversionFails, TickFails
<1> QED
  BY <1>1, <1>2, <1>3, <1>4, <1>5, <1>6, <1>7, <1>8, <1>9 DEF Next

(* Without errors, an entry marked processing is in the hands of a tick.   *)
THEOREM OwnedByTicks ==
    ASSUME ~Faults
    PROVE  Spec => []ProcessingOwned
<1>1. Init => ProcessingOwned
  BY DEF Init, ProcessingOwned
<1>2. Inv /\ ProcessingOwned /\ [Next]_vars => ProcessingOwned'
  BY OwnedNext
<1> QED
  BY <1>1, <1>2, Ownership, PTL DEF Spec

LEMMA GoneNext == Inv /\ ~Faults /\ FailedGone /\ [Next]_vars => FailedGone'
<1> SUFFICES ASSUME Inv, ~Faults, FailedGone, [Next]_vars PROVE FailedGone'
  OBVIOUS
<1> USE DEF FailedGone, Inv, TypeOK, Queued
<1>f. disk' \subseteq disk /\ UNCHANGED <<entry, tick>> => FailedGone'
  OBVIOUS
<1>1. ASSUME NEW r \in Requests, NEW v, Store(r, v) PROVE FailedGone'
  BY <1>1, UploadsAssumption DEF Store
<1>2. ASSUME NEW r \in Requests,
             CreateUpload(r) \/ ReqStep(r) \/ \E d \in Docs : LoadOld(r, d) \/ ReadForDelete(r, d)
      PROVE  FailedGone'
  <2>1. CASE Enqueue(r)
    BY <2>1 DEF Enqueue, Entry
  <2>2. CASE CreateUpload(r) \/ StoreNew(r)
    BY <1>1, <2>2 DEF CreateUpload, StoreNew
  <2>3. CASE ~Enqueue(r) /\ ~CreateUpload(r) /\ ~StoreNew(r)
    BY <1>2, <1>f, <2>3 DEF ReqStep, LoadOld, ReadForDelete, ReadFiles, CommitCreate,
         CommitReplace, Reject, Cleanup, RemoveOld, DeleteRow, RemoveDeleted
  <2> QED
    BY <2>1, <2>2, <2>3
<1>3. ASSUME NEW t \in Ticks, TickStep(t) PROVE FailedGone'
  <2> USE DEF Tick, SetTick, rest
  <2>1. CASE Select(t)
    BY <2>1 DEF Select, IdleTick
  <2>2. CASE Marked(t)
    BY <2>2 DEF Marked
  <2>3. CASE WriteVariant(t)
    BY <2>3 DEF WriteVariant
  <2>4. CASE SetColumn(t)
    BY <2>4 DEF SetColumn
  <2>5. CASE EndEntry(t)
    BY <2>5 DEF EndEntry, SetStatus, Entry
  <2>6. CASE TickEnds(t)
    BY <2>6 DEF TickEnds, IdleTick
  <2>7. ASSUME NEW e \in Files, MarkProcessing(t, e) PROVE FailedGone'
    BY <2>7 DEF MarkProcessing, SetStatus, Entry
  <2>8. ASSUME NEW e \in Files, OpenSource(t, e) PROVE FailedGone'
    BY <2>8 DEF OpenSource
  <2> QED
    BY <1>3, <2>1, <2>2, <2>3, <2>4, <2>5, <2>6, <2>7, <2>8 DEF TickStep
<1>4. ASSUME NEW e \in Files, Retry(e) \/ Purge(e) PROVE FailedGone'
  BY <1>4 DEF Retry, Purge, rest, Entry
<1>5. CASE Crash
  BY <1>5 DEF Crash, IdleTick
<1>6. CASE Start
  BY <1>6 DEF Start, Entry
<1>7. ASSUME NEW k \in kept, Resubmit(k) PROVE FailedGone'
  BY <1>7, <1>f DEF Resubmit
<1>8. ASSUME NEW d \in Docs, DeleteRowOnly(d) PROVE FailedGone'
  BY <1>8, <1>f DEF DeleteRowOnly
<1>9. CASE UNCHANGED vars
  BY <1>9, <1>f DEF vars
<1>10. ASSUME NEW t \in Ticks, ConversionFails(t) \/ TickFails(t) PROVE FALSE
  BY <1>10 DEF ConversionFails, TickFails
<1> QED
  BY <1>2, <1>3, <1>4, <1>5, <1>6, <1>7, <1>8, <1>9, <1>10 DEF Next

(* Without errors and draft saves, the file a live document shows has no   *)
(* failed conversion: a conversion only fails for a file that is gone.     *)
THEOREM ShownConverts ==
    ASSUME ~Faults, ~Drafts
    PROVE  Spec => []CurrentConverts
<1>1. Init => FailedGone
  BY DEF Init, FailedGone, IdleTick
<1>2. Inv /\ FailedGone /\ [Next]_vars => FailedGone'
  BY GoneNext
<1>3. Inv /\ FailedGone /\ MainServed => CurrentConverts
  BY DEF Inv, Own, OneHolder, OneRow, Made, FailedGone, MainServed, CurrentConverts, Live
<1> QED
  BY <1>1, <1>2, <1>3, Ownership, FilesServed, PTL DEF Spec
=============================================================================
