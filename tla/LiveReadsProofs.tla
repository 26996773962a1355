-------------------------- MODULE LiveReadsProofs --------------------------
(***************************************************************************)
(* Proofs about LiveReads: types, what the populate cache may hold and     *)
(* serve, and what a stream of events misses, for any of each.             *)
(***************************************************************************)
EXTENDS LiveReads, TLAPS

\* A read under way is about a document, and has what it is to insert.
Busy(r) ==
    /\ reader[r].phase # "idle" => reader[r].key \in Keys
    /\ reader[r].held # NoCopy => reader[r].phase # "idle"
    /\ reader[r].phase = "nested" => reader[r].held # NoCopy

\* What a read holds is no older than its beginning, and unless a clear
\* overtook it no older than the last clear; what is older than its row is
\* so for a reason.
Held(r) ==
    LET k == reader[r].key IN
    reader[r].phase # "idle" =>
       /\ reader[r].floor <= settled[k]
       /\ reader[r].held # NoCopy =>
            /\ reader[r].floor <= reader[r].held
            /\ ~reader[r].late => settled[k] <= reader[r].held
            /\ ~reader[r].late /\ reader[r].held < rows[k].ver
                 => Pending(k) \/ k \in unclean

\* A copy that is not late was fetched after the last clear.
Kept(k) ==
    /\ settled[k] <= rows[k].ver
    /\ cache[k] # NoCopy /\ ~cache[k].late => settled[k] <= cache[k].ver

\* A writer that cleared the cache cleared it after its commit.
Told(w) ==
    \A k \in Keys :
       /\ writer[w].phase = "committed" => writer[w].vers[k] <= rows[k].ver
       /\ writer[w].phase = "cleared" => writer[w].vers[k] <= settled[k]

Heard(e) == e.cleared => e.ver <= settled[e.topic]

CacheInv ==
    /\ \A r \in Readers : Busy(r)
    /\ \A r \in Readers : Held(r)
    /\ \A k \in Keys : Kept(k)
    /\ \A w \in Writers : Told(w)
    /\ StaleExplained
    /\ ReadsSettled

BusInv ==
    /\ \A e \in tasks : Heard(e)
    /\ \A i \in DOMAIN log : Heard(log[i])

Inv == TypeOK /\ CacheInv /\ BusInv

-----------------------------------------------------------------------------
LEMMA InitInv == Init => Inv
  <1> SUFFICES ASSUME Init PROVE Inv
    OBVIOUS
  <1> USE CacheAssumption, BusAssumption, TopicsAssumption
  <1>1. TypeOK
    BY DEF Init, CacheInit, BusInit, TypeOK, CacheTypeOK, BusTypeOK, Row, Copy,
           Reader, Writer, Asleep, Resting, Kinds, Event, Sub, Off
  <1>2. CacheInv
    BY DEF Init, CacheInit, CacheInv, Busy, Held, Kept, Told, StaleExplained,
           ReadsSettled, Asleep, Resting
  <1>3. BusInv
    BY DEF Init, BusInit, BusInv
  <1> QED BY <1>1, <1>2, <1>3 DEF Inv

-----------------------------------------------------------------------------
(***************************************************************************)
(* Types, an action at a time.                                             *)
(***************************************************************************)
LEMMA ReadTypes ==
  ASSUME CacheTypeOK, \A r \in Readers : Busy(r), ReadNext
  PROVE  CacheTypeOK'
  <1> USE CacheAssumption
  <1>1. PICK r \in Readers :
          \/ \E k \in Keys, kind \in Kinds : StartRead(r, k, kind)
          \/ LookupHit(r) \/ LookupMiss(r) \/ Fetch(r) \/ Insert(r) \/ EndRead(r)
    BY DEF ReadNext
  <1>2. /\ reader[r] \in Reader
        /\ Busy(r)
    BY DEF CacheTypeOK
  <1>3. CASE \E k \in Keys, kind \in Kinds : StartRead(r, k, kind)
    <2> PICK k \in Keys, kind \in Kinds : StartRead(r, k, kind)
      BY <1>3
    <2>1. [Asleep EXCEPT !.phase = IF kind = "one" THEN "lookup" ELSE "fetch",
                        !.key = k, !.kind = kind, !.floor = settled[k]] \in Reader
      BY DEF CacheTypeOK, Reader, Asleep
    <2> QED BY <2>1 DEF StartRead, CacheTypeOK
  <1>4. CASE LookupHit(r)
    <2>1. cache[reader[r].key] \in Copy
      BY <1>2, <1>4 DEF LookupHit, CacheTypeOK, Busy
    <2>2. [reader[r] EXCEPT !.phase = "done", !.result = cache[reader[r].key],
                            !.held = NoCopy, !.late = FALSE] \in Reader
      BY <1>2, <2>1 DEF Reader
    <2> QED BY <1>2, <1>4, <2>2 DEF LookupHit, Answer, CacheTypeOK, Reader
  <1>5. CASE LookupMiss(r)
    BY <1>2, <1>5 DEF LookupMiss, Answer, CacheTypeOK, Reader
  <1>6. CASE Fetch(r)
    <2>1. rows[reader[r].key].ver \in 0..MaxVer
      BY <1>2, <1>6 DEF Fetch, CacheTypeOK, Busy, Row
    <2> QED BY <1>2, <1>6, <2>1 DEF Fetch, Answer, CacheTypeOK, Reader
  <1>7. CASE Insert(r)
    <2> DEFINE copy == [ver |-> reader[r].held, late |-> reader[r].late]
    <2>1. copy \in Copy /\ [copy EXCEPT !.late = FALSE] \in Copy
      BY <1>2, <1>7 DEF Insert, Busy, Reader, Copy
    <2>2. cache' \in [Keys -> {NoCopy} \cup Copy]
      BY <1>7, <2>1 DEF Insert, CacheTypeOK
    <2>3. reader' \in [Readers -> Reader]
      BY <1>2, <1>7, <2>1 DEF Insert, Answer, CacheTypeOK, Reader
    <2> QED BY <1>7, <2>2, <2>3 DEF Insert, CacheTypeOK
  <1>8. CASE EndRead(r)
    <2>1. Asleep \in Reader
      BY DEF Reader, Asleep, Kinds
    <2> QED BY <1>8, <2>1 DEF EndRead, CacheTypeOK
  <1> QED BY <1>1, <1>3, <1>4, <1>5, <1>6, <1>7, <1>8

LEMMA RestingType == Resting \in Writer
  BY CacheAssumption DEF Resting, Writer

\* The rows after a commit have versions one higher at most.
LEMMA WrittenType ==
  ASSUME CacheTypeOK, NEW ks \in SUBSET Keys, NEW live \in BOOLEAN,
         \A k \in ks : rows[k].ver < MaxVer
  PROVE  Written(ks, live) \in [Keys -> Row]
  BY CacheAssumption DEF Written, CacheTypeOK, Row

LEMMA ClearTypes ==
  ASSUME CacheTypeOK, ClearAll
  PROVE  /\ cache' \in [Keys -> {NoCopy} \cup Copy]
         /\ settled' \in [Keys -> 0..MaxVer]
         /\ unclean' \subseteq Keys
         /\ reader' \in [Readers -> Reader]
  <1>1. \A r \in Readers :
          [reader[r] EXCEPT !.late = @ \/ reader[r].held # NoCopy] \in Reader
    BY DEF CacheTypeOK, Reader
  <1>2. reader' \in [Readers -> Reader]
    BY <1>1 DEF ClearAll
  <1>3. settled' \in [Keys -> 0..MaxVer]
    BY DEF ClearAll, CacheTypeOK, Row
  <1> QED BY <1>2, <1>3 DEF ClearAll

LEMMA SpawnedType ==
  ASSUME BusTypeOK, NEW k \in Keys, NEW v \in Nat, NEW b \in BOOLEAN
  PROVE  Spawned(k, v, b) \subseteq Event
  <1>1. [topic |-> k, ver |-> v, cleared |-> b, seq |-> 0] \in Event
    BY TopicsAssumption DEF Event
  <1> QED BY <1>1 DEF Spawned, BusTypeOK

LEMMA WriteTypes ==
  ASSUME TypeOK, WriteNext
  PROVE  TypeOK'
  <1> USE CacheAssumption, BusAssumption, TopicsAssumption
  <1>1. CASE \E w \in Writers, ks \in SUBSET Keys : BeginWrite(w, ks) /\ UNCHANGED busVars
    <2> PICK w \in Writers, ks \in SUBSET Keys : BeginWrite(w, ks) /\ UNCHANGED busVars
      BY <1>1
    <2>1. [Resting EXCEPT !.phase = "running", !.keys = ks] \in Writer
      BY RestingType DEF Writer
    <2> QED BY <2>1 DEF BeginWrite, TypeOK, CacheTypeOK, BusTypeOK, busVars
  <1>2. CASE \E w \in Writers, live \in BOOLEAN : Commit(w, live) /\ UNCHANGED busVars
    <2> PICK w \in Writers, live \in BOOLEAN : Commit(w, live) /\ UNCHANGED busVars
      BY <1>2
    <2>1. writer[w] \in Writer /\ writer[w].keys \in SUBSET Keys
      BY DEF TypeOK, CacheTypeOK, Writer
    <2>2. rows' \in [Keys -> Row]
      BY <2>1, WrittenType DEF Commit, TypeOK
    <2>3. [k \in Keys |-> rows'[k].ver] \in [Keys -> 0..MaxVer]
      BY <2>2 DEF Row
    <2>4. writer' \in [Writers -> Writer]
      BY <2>1, <2>3, RestingType DEF Commit, TypeOK, CacheTypeOK, Writer
    <2>5. unclean' \subseteq Keys
      BY <2>1 DEF Commit, TypeOK, CacheTypeOK
    <2> QED BY <2>2, <2>4, <2>5 DEF Commit, TypeOK, CacheTypeOK, BusTypeOK, busVars
  <1>3. CASE \E w \in Writers :
               (Refuse(w) \/ FailAfterCommit(w) \/ Drop(w)) /\ UNCHANGED busVars
    <2> PICK w \in Writers : (Refuse(w) \/ FailAfterCommit(w) \/ Drop(w)) /\ UNCHANGED busVars
      BY <1>3
    <2>1. writer[w] \in Writer /\ writer[w].keys \subseteq Keys
      BY DEF TypeOK, CacheTypeOK, Writer
    <2>2. [writer[w] EXCEPT !.gone = TRUE] \in Writer
      BY <2>1 DEF Writer
    <2>3. writer' \in [Writers -> Writer]
      BY <2>1, <2>2, RestingType
         DEF Refuse, FailAfterCommit, Drop, TypeOK, CacheTypeOK
    <2>4. unclean' \subseteq Keys
      BY <2>1 DEF Refuse, FailAfterCommit, Drop, TypeOK, CacheTypeOK
    <2> QED BY <2>3, <2>4
         DEF Refuse, FailAfterCommit, Drop, TypeOK, CacheTypeOK, BusTypeOK, busVars
  <1>4. CASE \E w \in Writers : Clear(w) /\ UNCHANGED busVars
    <2> PICK w \in Writers : Clear(w) /\ UNCHANGED busVars
      BY <1>4
    <2>1. writer' \in [Writers -> Writer]
      BY DEF Clear, TypeOK, CacheTypeOK, Writer
    <2> QED BY <2>1, ClearTypes DEF Clear, TypeOK, CacheTypeOK, BusTypeOK, busVars
  <1>5. CASE \E w \in Writers : Answered(w)
    <2> PICK w \in Writers : Answered(w)
      BY <1>5
    <2>1. writer[w] \in Writer
      BY DEF TypeOK, CacheTypeOK
    <2>2. CacheTypeOK'
      BY RestingType DEF Answered, Respond, TypeOK, CacheTypeOK
    <2>3. \A k \in Keys : writer[w].vers[k] \in Nat
      BY <2>1 DEF Writer
    <2>4. \A k \in writer[w].keys : Spawned(k, writer[w].vers[k], TRUE) \subseteq Event
      BY <2>1, <2>3, SpawnedType DEF TypeOK, Writer
    <2>5. tasks' \subseteq Event
      BY <2>4 DEF Answered, TypeOK, BusTypeOK
    <2> QED BY <2>2, <2>5 DEF Answered, TypeOK, BusTypeOK
  <1>6. CASE \E k \in Keys, live \in BOOLEAN : OtherWrite(k, live)
    <2> PICK k \in Keys, live \in BOOLEAN : OtherWrite(k, live)
      BY <1>6
    <2>1. rows' \in [Keys -> Row]
      BY WrittenType DEF OtherWrite, OtherCommit, TypeOK
    <2>2. rows[k].ver + 1 \in Nat
      BY DEF TypeOK, CacheTypeOK, Row
    <2>3. Spawned(k, rows[k].ver + 1, FALSE) \subseteq Event
      BY <2>2, SpawnedType DEF TypeOK
    <2>4. tasks' \subseteq Event
      BY <2>3 DEF OtherWrite, TypeOK, BusTypeOK
    <2>5. CacheTypeOK'
      BY <2>1 DEF OtherWrite, OtherCommit, TypeOK, CacheTypeOK
    <2> QED BY <2>4, <2>5 DEF OtherWrite, TypeOK, BusTypeOK
  <1>7. CASE PeriodicClear /\ UNCHANGED busVars
    BY <1>7, ClearTypes DEF PeriodicClear, TypeOK, CacheTypeOK, BusTypeOK, busVars
  <1> QED BY <1>1, <1>2, <1>3, <1>4, <1>5, <1>6, <1>7 DEF WriteNext

LEMMA BusTypes ==
  ASSUME BusTypeOK, BusNext
  PROVE  BusTypeOK'
  <1> USE BusAssumption
  <1>1. ASSUME NEW e \in tasks, Suppress(e) PROVE BusTypeOK'
    BY <1>1 DEF Suppress, BusTypeOK
  <1>2. ASSUME NEW e \in tasks, TakeNumber(e) PROVE BusTypeOK'
    <2>1. [e EXCEPT !.seq = nextSeq] \in Event
      BY DEF BusTypeOK, Event
    <2> QED BY <1>2, <2>1 DEF TakeNumber, BusTypeOK
  <1>3. ASSUME NEW e \in tasks, Send(e) PROVE BusTypeOK'
    BY <1>3 DEF Send, BusTypeOK
  <1>4. ASSUME NEW s \in Subs, Unsubscribe(s) PROVE BusTypeOK'
    <2>1. Off \in Sub
      BY DEF Off, Sub
    <2> QED BY <1>4, <2>1 DEF Unsubscribe, BusTypeOK
  <1>5. ASSUME NEW s \in Subs, Receive(s) PROVE BusTypeOK'
    <2>1. sub[s] \in Sub /\ Len(log) \in Nat /\ sub[s].next \in Nat /\ Oldest \in Nat
      BY DEF BusTypeOK, Sub, Oldest
    <2>2. CASE sub[s].next < Oldest
      <3>1. [sub[s] EXCEPT !.next = Oldest, !.lagged = TRUE] \in Sub
        BY <2>1 DEF Sub
      <3> QED BY <1>5, <2>2, <3>1 DEF Receive, BusTypeOK
    <2>3. CASE ~(sub[s].next < Oldest)
      <3>1. sub[s].next \in 1..Len(log)
        BY <1>5, <2>1, <2>3 DEF Receive, Oldest
      <3>2. log[sub[s].next] \in Event
        BY <3>1 DEF BusTypeOK
      <3>3. sub[s].seen \in Seq(Event)
        BY <2>1 DEF Sub
      <3>4. Append(sub[s].seen, log[sub[s].next]) \in Seq(Event)
        BY <3>2, <3>3
      <3> DEFINE seen == IF log[sub[s].next].topic \in sub[s].wants
                         THEN Append(sub[s].seen, log[sub[s].next]) ELSE sub[s].seen
      <3>5. seen \in Seq(Event)
        BY <3>3, <3>4
      <3>6. [sub[s] EXCEPT !.next = @ + 1, !.seen = seen] \in Sub
        <4> DEFINE after == sub[s].next + 1
        <4>1. after \in Nat
          BY <2>1
        <4>2. [sub[s] EXCEPT !.next = after, !.seen = seen] \in Sub
          <5> HIDE DEF seen, after
          <5> QED BY <2>1, <3>5, <4>1 DEF Sub
        <4> QED BY <4>2
      <3>7. sub' = [sub EXCEPT ![s] = [sub[s] EXCEPT !.next = @ + 1, !.seen = seen]]
        BY <1>5, <2>1, <2>3 DEF Receive
      <3>8. sub' \in [Subs -> Sub]
        <4> HIDE DEF seen
        <4> QED BY <3>6, <3>7 DEF BusTypeOK
      <3> QED BY <1>5, <3>8 DEF Receive, BusTypeOK
    <2> QED BY <2>2, <2>3
  <1>6. ASSUME NEW s \in Subs, NEW wants \in SUBSET Topics, Subscribe(s, wants)
        PROVE  BusTypeOK'
    <2> DEFINE here == Len(log) + 1
    <2>0. Off \in Sub /\ here \in Nat
      BY DEF Off, Sub, BusTypeOK
    <2>1. [Off EXCEPT !.on = TRUE, !.wants = wants, !.start = here, !.next = here] \in Sub
      <3> HIDE DEF here
      <3> QED BY <2>0 DEF Sub
    <2> QED BY <1>6, <2>1 DEF Subscribe, BusTypeOK
  <1> QED BY <1>1, <1>2, <1>3, <1>4, <1>5, <1>6 DEF BusNext

LEMMA TypeStep == Inv /\ [Next]_vars => TypeOK'
  <1> SUFFICES ASSUME Inv, [Next]_vars PROVE TypeOK'
    OBVIOUS
  <1>1. CASE ReadNext /\ UNCHANGED busVars
    <2>1. CacheTypeOK'
      BY <1>1, ReadTypes DEF Inv, TypeOK, CacheInv
    <2> QED BY <1>1, <2>1 DEF Inv, TypeOK, BusTypeOK, busVars
  <1>2. CASE WriteNext
    BY <1>2, WriteTypes DEF Inv
  <1>3. CASE BusNext /\ UNCHANGED cacheVars
    BY <1>3, BusTypes DEF Inv, TypeOK, CacheTypeOK, cacheVars
  <1>4. CASE UNCHANGED vars
    BY <1>4 DEF vars, Inv, TypeOK, CacheTypeOK, BusTypeOK
  <1> QED BY <1>1, <1>2, <1>3, <1>4 DEF Next

-----------------------------------------------------------------------------
(***************************************************************************)
(* The cache, an action at a time.                                         *)
(***************************************************************************)
\* What a read holds and what a copy is, as numbers.
LEMMA Numbers ==
  ASSUME CacheTypeOK
  PROVE  /\ \A k \in Keys : rows[k].ver \in Nat /\ settled[k] \in Nat
         /\ \A k \in Keys : cache[k] # NoCopy =>
              cache[k] \in Copy /\ cache[k].ver \in Nat /\ cache[k].late \in BOOLEAN
         /\ \A r \in Readers :
              /\ reader[r] \in Reader
              /\ reader[r].floor \in Nat /\ reader[r].late \in BOOLEAN
              /\ reader[r].held # NoCopy => reader[r].held \in Nat
              /\ reader[r].result # NoCopy =>
                   reader[r].result \in Copy /\ reader[r].result.ver \in Nat
                   /\ reader[r].result.late \in BOOLEAN
         /\ \A w \in Writers : /\ writer[w] \in Writer
                               /\ \A k \in Keys : writer[w].vers[k] \in Nat
  BY CacheAssumption DEF CacheTypeOK, Row, Copy, Reader, Writer

LEMMA ReadStep ==
  ASSUME CacheTypeOK, CacheInv, ReadNext
  PROVE  CacheInv'
  <1> USE CacheAssumption
  <1>1. PICK r \in Readers :
          \/ \E k \in Keys, kind \in Kinds : StartRead(r, k, kind)
          \/ LookupHit(r) \/ LookupMiss(r) \/ Fetch(r) \/ Insert(r) \/ EndRead(r)
    BY DEF ReadNext
  <1>2. /\ UNCHANGED <<rows, writer, settled, unclean>>
        /\ \A q \in Readers \ {r} : reader'[q] = reader[q]
        /\ reader' \in [Readers -> Reader]
    <2>1. UNCHANGED <<rows, writer, settled, unclean>>
      BY <1>1 DEF StartRead, LookupHit, LookupMiss, Fetch, Insert, EndRead
    <2>2. \A q \in Readers \ {r} : reader'[q] = reader[q]
      BY <1>1 DEF StartRead, LookupHit, LookupMiss, Fetch, Insert, EndRead, Answer, CacheTypeOK
    <2>3. CacheTypeOK'
      BY ReadTypes DEF CacheInv
    <2> QED BY <2>1, <2>2, <2>3 DEF CacheTypeOK
  <1>3. \A k \in Keys : Pending(k)' = Pending(k)
    BY <1>2 DEF Pending
  <1>4. Busy(r) /\ Held(r) /\ reader[r] \in Reader /\ r \in DOMAIN reader
    BY DEF CacheInv, CacheTypeOK
  <1>5. Busy(r)' /\ Held(r)'
    <2>1. CASE \E k \in Keys, kind \in Kinds : StartRead(r, k, kind)
      <3> PICK k \in Keys, kind \in Kinds : StartRead(r, k, kind)
        BY <2>1
      <3>1. /\ reader'[r].phase \in {"lookup", "fetch"} /\ reader'[r].key = k
            /\ reader'[r].held = NoCopy /\ reader'[r].floor = settled[k]
        BY <1>4 DEF StartRead, Asleep
      <3>2. settled[k] <= settled[k]
        BY Numbers
      <3> QED BY <1>2, <3>1, <3>2 DEF Busy, Held
    <2>2. CASE LookupHit(r)
      BY <1>2, <1>4, <2>2 DEF LookupHit, Answer, Busy, Held
    <2>3. CASE LookupMiss(r)
      BY <1>2, <1>3, <1>4, <2>3 DEF LookupMiss, Answer, Busy, Held, Reader
    <2>4. CASE Fetch(r)
      <3> DEFINE found == IF rows[reader[r].key].live THEN rows[reader[r].key].ver
                          ELSE NoCopy
      <3>0. PICK f : f = found
        OBVIOUS
      <3>a. \/ reader' = [reader EXCEPT ![r].phase = "lookup", ![r].held = f]
            \/ reader' = [reader EXCEPT ![r].phase = "nested", ![r].held = f] /\ f # NoCopy
            \/ reader' = [reader EXCEPT ![r].phase = "done", ![r].result = NoCopy,
                                       ![r].held = NoCopy, ![r].late = FALSE]
        BY <2>4, <3>0 DEF Fetch, Answer
      <3>b. f # NoCopy => f = rows[reader[r].key].ver
        BY <3>0
      <3> HIDE DEF found
      <3>1. /\ reader'[r].key = reader[r].key /\ reader[r].key \in Keys
            /\ reader'[r].floor = reader[r].floor
            /\ reader'[r].phase # "idle"
        <4>1. reader[r].key \in Keys
          BY <1>4, <2>4 DEF Fetch, Busy
        <4> QED BY <1>4, <3>a, <4>1 DEF Reader
      <3>2. /\ reader'[r].held # NoCopy => reader'[r].held = rows[reader[r].key].ver
            /\ reader'[r].phase = "nested" => reader'[r].held # NoCopy
        <4>1. \/ reader'[r].phase = "lookup" /\ reader'[r].held = f
              \/ reader'[r].phase = "nested" /\ reader'[r].held = f /\ f # NoCopy
              \/ reader'[r].phase = "done" /\ reader'[r].held = NoCopy
          <5>1. CASE reader' = [reader EXCEPT ![r].phase = "lookup", ![r].held = f]
            BY <1>4, <5>1 DEF Reader
          <5>2. CASE reader' = [reader EXCEPT ![r].phase = "nested", ![r].held = f]
                     /\ f # NoCopy
            BY <1>4, <5>2 DEF Reader
          <5>3. CASE reader' = [reader EXCEPT ![r].phase = "done", ![r].result = NoCopy,
                                              ![r].held = NoCopy, ![r].late = FALSE]
            BY <1>4, <5>3 DEF Reader
          <5> QED BY <3>a, <5>1, <5>2, <5>3
        <4> QED BY <3>b, <4>1
      <3>3. reader[r].floor <= settled[reader[r].key]
        BY <1>4, <2>4 DEF Held, Fetch
      <3>4. settled[reader[r].key] <= rows[reader[r].key].ver
        BY <3>1 DEF CacheInv, Kept
      <3>5. Busy(r)'
        BY <3>1, <3>2 DEF Busy
      <3>6. Held(r)'
        BY <1>2, <3>1, <3>2, <3>3, <3>4, Numbers DEF Held
      <3> QED BY <3>5, <3>6
    <2>5. CASE Insert(r)
      BY <1>2, <1>4, <2>5 DEF Insert, Answer, Busy, Held
    <2>6. CASE EndRead(r)
      BY <1>2, <1>4, <2>6 DEF EndRead, Asleep, Busy, Held
    <2> QED BY <1>1, <2>1, <2>2, <2>3, <2>4, <2>5, <2>6
  <1>6. \A q \in Readers : Busy(q)' /\ Held(q)'
    BY <1>2, <1>3, <1>5 DEF CacheInv, Busy, Held
  <1>7. \A w \in Writers : Told(w)'
    BY <1>2 DEF CacheInv, Told
  <1>8. CASE ~Insert(r)
    <2>1. cache' = cache
      BY <1>1, <1>8 DEF StartRead, LookupHit, LookupMiss, Fetch, EndRead
    <2>2. \A k \in Keys : Kept(k)'
      BY <1>2, <2>1 DEF CacheInv, Kept
    <2>3. StaleExplained'
      BY <1>2, <1>3, <2>1 DEF CacheInv, StaleExplained
    <2>4. reader'[r].result # NoCopy /\ ~reader'[r].result.late
            => reader'[r].floor <= reader'[r].result.ver
      <3>1. CASE LookupHit(r)
        <4>1. /\ reader'[r].result = cache[reader[r].key] /\ reader[r].key \in Keys
              /\ reader'[r].floor = reader[r].floor /\ cache[reader[r].key] # NoCopy
          BY <1>4, <3>1 DEF LookupHit, Answer, Busy
        <4>2. reader[r].floor <= settled[reader[r].key]
          BY <1>4, <3>1 DEF LookupHit, Held
        <4>3. ~cache[reader[r].key].late => settled[reader[r].key] <= cache[reader[r].key].ver
          BY <4>1 DEF CacheInv, Kept
        <4> QED BY <4>1, <4>2, <4>3, Numbers
      <3>2. CASE ~LookupHit(r)
        <4>1. reader'[r].result = NoCopy
              \/ (reader'[r].result = reader[r].result /\ reader'[r].floor = reader[r].floor)
          <5>1. CASE Fetch(r)
            BY <1>4, <5>1 DEF Fetch, Answer, Reader
          <5>2. CASE LookupMiss(r)
            BY <1>4, <5>2 DEF LookupMiss, Answer, Reader
          <5>3. CASE EndRead(r)
            BY <1>4, <5>3 DEF EndRead, Asleep
          <5>4. ASSUME NEW k \in Keys, NEW kind \in Kinds, StartRead(r, k, kind)
                PROVE  reader'[r].result = NoCopy
            BY <1>4, <5>4 DEF StartRead, Asleep
          <5> QED BY <1>1, <1>8, <3>2, <5>1, <5>2, <5>3, <5>4
        <4> QED BY <4>1, Numbers DEF CacheInv, ReadsSettled
      <3> QED BY <3>1, <3>2
    <2>5. ReadsSettled'
      BY <1>2, <2>4, Numbers DEF CacheInv, ReadsSettled, Reader, Copy
    <2> QED BY <1>6, <1>7, <2>2, <2>3, <2>5 DEF CacheInv
  <1>9. CASE Insert(r)
    <2>0. PICK k \in Keys : k = reader[r].key
      BY <1>4, <1>9 DEF Insert, Busy
    <2>1. /\ reader[r].held # NoCopy /\ reader[r].phase = "nested"
          /\ reader[r].held \in Nat
      BY <1>4, <1>9, Numbers DEF Insert, Busy
    <2>2. cache' = [cache EXCEPT ![k] = [ver |-> reader[r].held, late |-> reader[r].late]]
      BY <1>9, <2>0 DEF Insert
    <2>3. Kept(k)' /\ \A j \in Keys \ {k} : Kept(j)'
      <3>1. cache'[k] = [ver |-> reader[r].held, late |-> reader[r].late]
            /\ \A j \in Keys \ {k} : cache'[j] = cache[j]
        BY <2>2 DEF CacheTypeOK
      <3>2. ~reader[r].late => settled[k] <= reader[r].held
        BY <1>4, <2>0, <2>1 DEF Held
      <3>3. Kept(k)'
        BY <1>2, <2>1, <3>1, <3>2 DEF CacheInv, Kept
      <3>4. \A j \in Keys \ {k} : Kept(j)'
        BY <1>2, <3>1 DEF CacheInv, Kept
      <3> QED BY <3>3, <3>4
    <2>4. StaleExplained'
      <3> SUFFICES ASSUME NEW j \in Keys, cache'[j] # NoCopy, cache'[j].ver < rows[j].ver
                   PROVE  Pending(j) \/ j \in unclean \/ cache'[j].late
        BY <1>2, <1>3 DEF StaleExplained
      <3>1. CASE j = k
        BY <1>4, <2>0, <2>1, <2>2, <3>1 DEF Held, CacheTypeOK
      <3>2. CASE j # k
        BY <2>2, <3>2 DEF CacheInv, StaleExplained, CacheTypeOK
      <3> QED BY <3>1, <3>2
    <2>5. reader'[r].result = [ver |-> reader[r].held, late |-> FALSE]
          /\ reader'[r].floor = reader[r].floor
      BY <1>4, <1>9 DEF Insert, Answer, Reader
    <2>6. reader[r].floor <= reader[r].held
      BY <1>4, <2>0, <2>1 DEF Held
    <2>7. ReadsSettled'
      <3>1. \A q \in Readers \ {r} : reader'[q] = reader[q]
        BY <1>2
      <3>2. reader'[r].result.ver >= reader'[r].floor
        BY <2>1, <2>5, <2>6, Numbers
      <3>3. ASSUME NEW q \in Readers, reader'[q].result # NoCopy, ~reader'[q].result.late
            PROVE  reader'[q].result.ver >= reader'[q].floor
        <4>1. CASE q = r
          BY <3>2, <4>1
        <4>2. CASE q # r
          BY <3>1, <3>3, <4>2 DEF CacheInv, ReadsSettled
        <4> QED BY <4>1, <4>2
      <3> QED BY <3>3 DEF ReadsSettled
    <2> QED BY <1>6, <1>7, <2>1, <2>3, <2>4, <2>7 DEF CacheInv
  <1> QED BY <1>8, <1>9

\* A clear: nothing is cached, and what is held is late.
LEMMA ClearStep ==
  ASSUME CacheTypeOK, CacheInv, ClearAll, UNCHANGED rows
  PROVE  /\ \A r \in Readers : Busy(r)' /\ Held(r)'
         /\ \A k \in Keys : Kept(k)' /\ settled[k] <= settled'[k]
         /\ StaleExplained' /\ ReadsSettled'
  <1> USE CacheAssumption
  <1>1. \A k \in Keys : cache'[k] = NoCopy /\ settled'[k] = rows[k].ver
    BY DEF ClearAll
  <1>2. \A k \in Keys : settled[k] <= settled'[k]
    BY <1>1 DEF CacheInv, Kept
  <1>3. \A r \in Readers :
          /\ reader'[r] = [reader[r] EXCEPT !.late = @ \/ reader[r].held # NoCopy]
          /\ reader[r] \in Reader /\ Busy(r) /\ Held(r)
    BY DEF ClearAll, CacheInv, CacheTypeOK
  <1>4. \A r \in Readers :
          /\ reader'[r].phase = reader[r].phase /\ reader'[r].key = reader[r].key
          /\ reader'[r].held = reader[r].held /\ reader'[r].floor = reader[r].floor
          /\ reader'[r].result = reader[r].result
          /\ reader[r].held # NoCopy => reader'[r].late
    <2> TAKE r \in Readers
    <2> QED BY <1>3 DEF Reader
  <1>5. \A r \in Readers : Busy(r)'
    <2> TAKE r \in Readers
    <2> QED BY <1>3, <1>4 DEF Busy
  <1>6. \A r \in Readers : Held(r)'
    <2> SUFFICES ASSUME NEW r \in Readers, reader[r].phase # "idle"
                 PROVE  /\ reader[r].floor <= settled'[reader[r].key]
                        /\ reader[r].held # NoCopy =>
                             reader[r].floor <= reader[r].held /\ reader'[r].late
      BY <1>4 DEF Held
    <2>1. reader[r].key \in Keys /\ settled'[reader[r].key] \in Nat
      BY <1>1, <1>3, Numbers DEF Busy
    <2>2. reader[r].floor <= settled[reader[r].key]
      BY <1>3 DEF Held
    <2>3. settled[reader[r].key] <= settled'[reader[r].key]
      BY <1>2, <2>1
    <2>4. reader[r].floor <= settled'[reader[r].key]
      BY <2>1, <2>2, <2>3, Numbers
    <2>5. reader[r].held # NoCopy => reader[r].floor <= reader[r].held /\ reader'[r].late
      BY <1>3, <1>4 DEF Held
    <2> QED BY <2>4, <2>5
  <1>7. \A k \in Keys : Kept(k)'
    BY <1>1, Numbers DEF Kept
  <1>8. StaleExplained'
    BY <1>1 DEF StaleExplained
  <1>9. ReadsSettled'
    BY <1>4 DEF CacheInv, ReadsSettled
  <1> QED BY <1>2, <1>5, <1>6, <1>7, <1>8, <1>9

\* Rows that rise are pending or unclean.
LEMMA RiseStep ==
  ASSUME CacheTypeOK, CacheInv, UNCHANGED <<cache, reader, settled>>,
         \A k \in Keys : rows[k].ver <= rows'[k].ver /\ rows'[k].ver \in Nat,
         \A k \in Keys : rows'[k] # rows[k] => Pending(k)' \/ k \in unclean',
         \A k \in Keys : Pending(k) \/ k \in unclean => Pending(k)' \/ k \in unclean'
  PROVE  /\ \A r \in Readers : Busy(r)' /\ Held(r)'
         /\ \A k \in Keys : Kept(k)'
         /\ StaleExplained' /\ ReadsSettled'
  <1> USE CacheAssumption
  <1>1. \A r \in Readers : Busy(r)'
    BY DEF CacheInv, Busy
  <1>2. \A r \in Readers : Held(r)'
    <2> SUFFICES ASSUME NEW r \in Readers, reader[r].phase # "idle"
                 PROVE  Held(r)'
      BY DEF Held
    <2>1. reader[r].key \in Keys /\ Held(r)
      BY DEF CacheInv, Busy
    <2>2. CASE rows'[reader[r].key] = rows[reader[r].key]
      BY <2>1, <2>2 DEF Held
    <2>3. CASE rows'[reader[r].key] # rows[reader[r].key]
      BY <2>1, <2>3 DEF Held
    <2> QED BY <2>2, <2>3
  <1>3. \A k \in Keys : Kept(k)'
    BY Numbers DEF CacheInv, Kept
  <1>4. StaleExplained'
    <2> SUFFICES ASSUME NEW k \in Keys, cache[k] # NoCopy, cache[k].ver < rows'[k].ver,
                        ~cache[k].late
                 PROVE  Pending(k)' \/ k \in unclean'
      BY DEF StaleExplained
    <2>1. CASE rows'[k] = rows[k]
      BY <2>1 DEF CacheInv, StaleExplained
    <2>2. CASE rows'[k] # rows[k]
      BY <2>2
    <2> QED BY <2>1, <2>2
  <1>5. ReadsSettled'
    BY DEF CacheInv, ReadsSettled
  <1> QED BY <1>1, <1>2, <1>3, <1>4, <1>5

LEMMA WrittenRises ==
  ASSUME CacheTypeOK, NEW ks \in SUBSET Keys, NEW live \in BOOLEAN
  PROVE  \A k \in Keys : /\ rows[k].ver <= Written(ks, live)[k].ver
                         /\ Written(ks, live)[k].ver \in Nat
                         /\ Written(ks, live)[k] # rows[k] => k \in ks
  <1> SUFFICES ASSUME NEW k \in Keys
               PROVE  /\ rows[k].ver <= Written(ks, live)[k].ver
                      /\ Written(ks, live)[k].ver \in Nat
                      /\ Written(ks, live)[k] # rows[k] => k \in ks
    OBVIOUS
  <1>1. rows[k].ver \in Nat
    BY Numbers
  <1>2. k \in ks => Written(ks, live)[k].ver = rows[k].ver + 1
    BY DEF Written
  <1>3. k \notin ks => Written(ks, live)[k] = rows[k]
    BY DEF Written
  <1> QED BY <1>1, <1>2, <1>3

-----------------------------------------------------------------------------
\* A write leaves a reason for every row it changes, and only a clear takes
\* the reasons away.
LEMMA WriteStep ==
  ASSUME Inv, WriteNext
  PROVE  CacheInv'
  <1> USE CacheAssumption
  <1>0. CacheTypeOK /\ CacheInv
    BY DEF Inv, TypeOK
  <1>1. ASSUME NEW w \in Writers, NEW ks \in SUBSET Keys, BeginWrite(w, ks)
        PROVE  CacheInv'
    <2>1. \A k \in Keys : Pending(k) => Pending(k)'
      BY <1>0, <1>1 DEF BeginWrite, Pending, CacheTypeOK
    <2>2. \A u \in Writers : Told(u)'
      BY <1>0, <1>1 DEF BeginWrite, Told, CacheInv, CacheTypeOK, Resting
    <2> QED BY <1>0, <1>1, <2>1, <2>2, RiseStep, Numbers DEF BeginWrite, CacheInv
  <1>2. ASSUME NEW w \in Writers, NEW live \in BOOLEAN, Commit(w, live)
        PROVE  CacheInv'
    <2>0. /\ writer[w] \in Writer /\ writer[w].keys \in SUBSET Keys
          /\ UNCHANGED <<cache, reader, settled>>
          /\ rows' = Written(writer[w].keys, live)
      BY <1>0, <1>2 DEF CacheTypeOK, Writer, Commit
    <2>1. \A k \in Keys : /\ rows[k].ver <= rows'[k].ver /\ rows'[k].ver \in Nat
                          /\ rows'[k] # rows[k] => k \in writer[w].keys
      BY <1>0, <2>0, WrittenRises
    <2>2. \A k \in Keys : k \in writer[w].keys => Pending(k)' \/ k \in unclean'
      BY <1>0, <1>2, <2>0 DEF Commit, Pending, CacheTypeOK, Writer
    <2>3. \A k \in Keys : Pending(k) \/ k \in unclean => Pending(k)' \/ k \in unclean'
      <3>1. ASSUME NEW k \in Keys, Pending(k) PROVE Pending(k)'
        <4> PICK u \in Writers : /\ writer[u].phase = "committed" /\ ~writer[u].gone
                                 /\ k \in writer[u].keys
          BY <3>1 DEF Pending
        <4>1. u # w /\ writer'[u] = writer[u]
          BY <1>0, <1>2 DEF Commit, CacheTypeOK
        <4> QED BY <4>1 DEF Pending
      <3>2. unclean \subseteq unclean'
        BY <1>2 DEF Commit
      <3> QED BY <3>1, <3>2
    <2>4. \A u \in Writers : Told(u)'
      <3> SUFFICES ASSUME NEW u \in Writers, NEW k \in Keys
                   PROVE  /\ writer'[u].phase = "committed" => writer'[u].vers[k] <= rows'[k].ver
                          /\ writer'[u].phase = "cleared" => writer'[u].vers[k] <= settled'[k]
        BY DEF Told
      <3>1. CASE u # w
        <4>1. writer'[u] = writer[u] /\ settled' = settled
          BY <1>0, <1>2, <3>1 DEF Commit, CacheTypeOK
        <4>2. writer[u].vers[k] \in Nat /\ rows[k].ver \in Nat
          BY <1>0, Numbers
        <4> QED BY <1>0, <2>1, <4>1, <4>2 DEF CacheInv, Told
      <3>2. CASE u = w
        <4>1. \/ writer'[w].phase = "idle"
              \/ writer'[w].phase = "committed" /\ writer'[w].vers[k] = rows'[k].ver
          BY <1>0, <1>2, <2>0 DEF Commit, CacheTypeOK, Writer, Resting
        <4> QED BY <2>1, <3>2, <4>1
      <3> QED BY <3>1, <3>2
    <2> QED BY <1>0, <2>0, <2>1, <2>2, <2>3, <2>4, RiseStep DEF CacheInv
  <1>3. ASSUME NEW w \in Writers, Refuse(w) \/ FailAfterCommit(w) \/ Drop(w)
        PROVE  CacheInv'
    <2>0. /\ writer[w] \in Writer /\ writer[w].keys \in SUBSET Keys
          /\ UNCHANGED <<rows, cache, reader, settled>>
          /\ \A u \in Writers \ {w} : writer'[u] = writer[u]
          /\ unclean \subseteq unclean'
      BY <1>0, <1>3 DEF CacheTypeOK, Writer, Refuse, FailAfterCommit, Drop
    <2>1. writer[w].phase = "committed" /\ ~writer[w].gone => writer[w].keys \subseteq unclean'
      BY <1>3 DEF Refuse, FailAfterCommit, Drop
    <2>2. \A k \in Keys : Pending(k) \/ k \in unclean => Pending(k)' \/ k \in unclean'
      BY <2>0, <2>1 DEF Pending
    <2>3. writer'[w].phase \in {"idle", "running"}
      BY <1>0, <1>3, <2>0 DEF Refuse, FailAfterCommit, Drop, CacheTypeOK, Resting, Writer
    <2>4. \A u \in Writers : Told(u)'
      BY <1>0, <2>0, <2>3 DEF CacheInv, Told
    <2> QED BY <1>0, <2>0, <2>2, <2>4, RiseStep, Numbers DEF CacheInv
  <1>4. ASSUME NEW w \in Writers, Clear(w) PROVE CacheInv'
    <2>1. UNCHANGED rows /\ ClearAll
      BY <1>4 DEF Clear
    <2>2. \A k \in Keys : settled'[k] = rows[k].ver /\ settled[k] <= settled'[k]
      BY <1>0, <2>1, ClearStep DEF ClearAll
    <2>3. writer' = [writer EXCEPT ![w].phase = "cleared"] /\ writer[w].phase = "committed"
      BY <1>4 DEF Clear
    <2>4. \A u \in Writers : Told(u)'
      <3> SUFFICES ASSUME NEW u \in Writers PROVE Told(u)'
        OBVIOUS
      <3>0. \A k \in Keys : writer[u].vers[k] \in Nat /\ settled[k] \in Nat /\ rows[k].ver \in Nat
        BY <1>0, Numbers
      <3>1. CASE u = w
        <4>1. writer'[u].phase = "cleared" /\ writer'[u].vers = writer[u].vers
          BY <1>0, <2>3, <3>1 DEF CacheTypeOK, Writer
        <4>2. \A k \in Keys : writer[u].vers[k] <= rows[k].ver
          BY <1>0, <2>3, <3>1 DEF CacheInv, Told
        <4> QED BY <2>2, <4>1, <4>2 DEF Told
      <3>2. CASE u # w
        <4>1. writer'[u] = writer[u]
          BY <1>0, <2>3, <3>2 DEF CacheTypeOK
        <4>2. \A k \in Keys : settled'[k] \in Nat
          BY <2>2, <3>0
        <4> QED BY <1>0, <2>1, <2>2, <3>0, <4>1, <4>2 DEF CacheInv, Told
      <3> QED BY <3>1, <3>2
    <2> QED BY <1>0, <2>1, <2>4, ClearStep DEF CacheInv
  <1>5. ASSUME NEW w \in Writers, Answered(w) PROVE CacheInv'
    <2>0. /\ writer[w].phase = "cleared" /\ writer' = [writer EXCEPT ![w] = Resting]
          /\ UNCHANGED <<rows, cache, reader, settled, unclean>>
      BY <1>5 DEF Answered, Respond
    <2>1. \A k \in Keys : Pending(k) => Pending(k)'
      BY <1>0, <2>0 DEF Pending, CacheTypeOK
    <2>2. \A u \in Writers : Told(u)'
      BY <1>0, <2>0 DEF CacheInv, Told, CacheTypeOK, Resting
    <2> QED BY <1>0, <2>0, <2>1, <2>2, RiseStep, Numbers DEF CacheInv
  <1>6. ASSUME NEW k \in Keys, NEW live \in BOOLEAN, OtherWrite(k, live) PROVE CacheInv'
    <2>0. /\ rows' = Written({k}, live) /\ unclean' = unclean \cup {k}
          /\ UNCHANGED <<cache, reader, writer, settled>>
      BY <1>6 DEF OtherWrite, OtherCommit
    <2>1. \A j \in Keys : /\ rows[j].ver <= rows'[j].ver /\ rows'[j].ver \in Nat
                          /\ rows'[j] # rows[j] => j \in unclean'
      BY <1>0, <2>0, WrittenRises
    <2>2. \A j \in Keys : Pending(j)' = Pending(j)
      BY <2>0 DEF Pending
    <2>3. \A u \in Writers : Told(u)'
      <3>1. \A u \in Writers : \A j \in Keys : writer[u].vers[j] \in Nat /\ rows[j].ver \in Nat
        BY <1>0, Numbers
      <3> QED BY <1>0, <2>0, <2>1, <3>1 DEF CacheInv, Told
    <2> QED BY <1>0, <2>0, <2>1, <2>2, <2>3, RiseStep DEF CacheInv
  <1>7. ASSUME PeriodicClear PROVE CacheInv'
    <2>1. ClearAll /\ UNCHANGED <<rows, writer>>
      BY <1>7 DEF PeriodicClear
    <2>2. \A k \in Keys : settled[k] <= settled'[k] /\ settled'[k] = rows[k].ver
      BY <1>0, <2>1, ClearStep DEF ClearAll
    <2>3. \A u \in Writers : Told(u)'
      <3>1. \A u \in Writers : \A k \in Keys :
               writer[u].vers[k] \in Nat /\ settled[k] \in Nat /\ rows[k].ver \in Nat
        BY <1>0, Numbers
      <3> QED BY <1>0, <2>1, <2>2, <3>1 DEF CacheInv, Told
    <2> QED BY <1>0, <2>1, <2>3, ClearStep DEF CacheInv
  <1> QED BY <1>1, <1>2, <1>3, <1>4, <1>5, <1>6, <1>7 DEF WriteNext

-----------------------------------------------------------------------------
(***************************************************************************)
(* Events.                                                                 *)
(***************************************************************************)
\* The last clear only moves on.
LEMMA SettledRises ==
  ASSUME Inv, ReadNext \/ WriteNext
  PROVE  \A k \in Keys : settled[k] <= settled'[k] /\ settled[k] \in Nat /\ settled'[k] \in Nat
  <1>0. CacheTypeOK /\ CacheInv
    BY DEF Inv, TypeOK
  <1>1. \A k \in Keys : settled[k] \in Nat /\ rows[k].ver \in Nat /\ settled[k] <= rows[k].ver
    BY <1>0, Numbers DEF CacheInv, Kept
  <1>2. settled' = settled \/ settled' = [k \in Keys |-> rows[k].ver]
    BY DEF ReadNext, WriteNext, StartRead, LookupHit, LookupMiss, Fetch, Insert, EndRead,
           BeginWrite, Commit, Refuse, FailAfterCommit, Drop, Clear, Answered, Respond,
           OtherWrite, OtherCommit, PeriodicClear, ClearAll
  <1> QED BY <1>1, <1>2

LEMMA HeardStays ==
  ASSUME Inv, ReadNext \/ WriteNext, NEW e \in Event, Heard(e)
  PROVE  Heard(e)'
  <1>1. e.topic \in Keys /\ e.ver \in Nat
    BY TopicsAssumption DEF Event
  <1> QED BY <1>1, SettledRises DEF Heard

LEMMA BusStep ==
  ASSUME Inv, [Next]_vars
  PROVE  BusInv'
  <1>0. tasks \subseteq Event /\ log \in Seq(Event)
    BY DEF Inv, TypeOK, BusTypeOK
  <1>1. CASE ReadNext /\ UNCHANGED busVars
    BY <1>0, <1>1, HeardStays DEF Inv, BusInv, busVars
  <1>2. CASE WriteNext
    <2>1. log' = log
      BY <1>2 DEF WriteNext, Answered, OtherWrite, busVars
    <2>2. \A e \in tasks' \ tasks : Heard(e)'
      <3>1. ASSUME NEW w \in Writers, Answered(w), NEW e \in tasks' \ tasks
            PROVE  Heard(e)'
        <4>1. PICK k \in writer[w].keys :
                 e = [topic |-> k, ver |-> writer[w].vers[k], cleared |-> TRUE, seq |-> 0]
          BY <3>1 DEF Answered, Spawned
        <4>2. k \in Keys
          BY <4>1 DEF Inv, TypeOK, CacheTypeOK, Writer
        <4>3. writer[w].vers[k] <= settled[k] /\ settled' = settled
          BY <3>1, <4>2 DEF Inv, CacheInv, Told, Answered, Respond
        <4> QED BY <4>1, <4>3 DEF Heard
      <3>2. ASSUME NEW k \in Keys, NEW live \in BOOLEAN, OtherWrite(k, live),
                   NEW e \in tasks' \ tasks
            PROVE  Heard(e)'
        BY <3>2 DEF OtherWrite, Spawned, Heard
      <3>3. CASE UNCHANGED busVars
        BY <3>3 DEF busVars
      <3> QED BY <1>2, <3>1, <3>2, <3>3 DEF WriteNext
    <2> QED BY <1>0, <1>2, <2>1, <2>2, HeardStays DEF Inv, BusInv
  <1>3. CASE BusNext /\ UNCHANGED cacheVars
    <2>1. \A e : Heard(e)' = Heard(e)
      BY <1>3 DEF Heard, cacheVars
    <2>2. ASSUME NEW e \in tasks, Suppress(e) PROVE BusInv'
      BY <2>1, <2>2 DEF Suppress, Inv, BusInv
    <2>3. ASSUME NEW e \in tasks, TakeNumber(e) PROVE BusInv'
      <3>1. Heard([e EXCEPT !.seq = nextSeq])
        BY <1>0 DEF Inv, BusInv, Heard, Event
      <3> QED BY <2>1, <2>3, <3>1 DEF TakeNumber, Inv, BusInv
    <2>4. ASSUME NEW e \in tasks, Send(e) PROVE BusInv'
      <3>1. \A i \in DOMAIN log' : log'[i] = e \/ (i \in DOMAIN log /\ log'[i] = log[i])
        BY <1>0, <2>4 DEF Send
      <3> QED BY <2>1, <2>4, <3>1 DEF Send, Inv, BusInv
    <2>5. ASSUME tasks' = tasks, log' = log PROVE BusInv'
      BY <2>1, <2>5 DEF Inv, BusInv
    <2> QED BY <1>3, <2>2, <2>3, <2>4, <2>5 DEF BusNext, Unsubscribe, Receive, Subscribe
  <1>4. CASE UNCHANGED vars
    BY <1>4 DEF vars, Inv, BusInv, Heard
  <1> QED BY <1>1, <1>2, <1>3, <1>4 DEF Next

LEMMA InvStep == Inv /\ [Next]_vars => Inv'
  <1> SUFFICES ASSUME Inv, [Next]_vars PROVE Inv'
    OBVIOUS
  <1>1. TypeOK'
    BY TypeStep
  <1>2. CacheInv'
    <2>1. CASE ReadNext
      BY <2>1, ReadStep DEF Inv, TypeOK
    <2>2. CASE WriteNext
      BY <2>2, WriteStep
    <2>3. CASE UNCHANGED cacheVars
      BY <2>3 DEF Inv, CacheInv, cacheVars, Busy, Held, Kept, Told, StaleExplained,
                  ReadsSettled, Pending
    <2> QED BY <2>1, <2>2, <2>3 DEF Next, vars, cacheVars
  <1>3. BusInv'
    BY BusStep
  <1> QED BY <1>1, <1>2, <1>3 DEF Inv

\* The cache and the bus keep the invariant, for any number of each.
THEOREM Invariance == Spec => []Inv
  BY InitInv, InvStep, PTL DEF Spec

\* Every variable keeps its type: an entry of the cache is always a version
\* some commit made, never the absence a fetch found.
THEOREM TypeCorrect == Spec => []TypeOK
  <1>1. Inv => TypeOK
    BY DEF Inv
  <1> QED BY Invariance, <1>1, PTL

\* A cached document older than its row is waiting for a clear, was written
\* by one that never clears, or was carried across a clear by a read.
THEOREM StaleHasReason == Spec => []StaleExplained
  <1>1. Inv => StaleExplained
    BY DEF Inv, CacheInv
  <1> QED BY Invariance, <1>1, PTL

\* A read serves no version older than the last clear before it began, but
\* for copies that were carried across a clear.
THEOREM ReadsAreSettled == Spec => []ReadsSettled
  <1>1. Inv => ReadsSettled
    BY DEF Inv, CacheInv
  <1> QED BY Invariance, <1>1, PTL

\* Who hears of a write by one that clears the cache finds that write or a
\* later one there.
THEOREM EventsFollowClears == Spec => []ReadsAfterEvent
  <1>1. Inv => ReadsAfterEvent
    <2> SUFFICES ASSUME Inv, NEW i \in DOMAIN log, log[i].cleared,
                        cache[log[i].topic] # NoCopy, ~cache[log[i].topic].late
                 PROVE  cache[log[i].topic].ver >= log[i].ver
      BY DEF ReadsAfterEvent
    <2>1. log[i] \in Event
      BY DEF Inv, TypeOK, BusTypeOK
    <2>2. log[i].topic \in Keys /\ log[i].ver \in Nat
      BY <2>1, TopicsAssumption DEF Event
    <2>3. log[i].ver <= settled[log[i].topic]
      BY DEF Inv, BusInv, Heard
    <2>4. settled[log[i].topic] <= cache[log[i].topic].ver
      BY <2>2 DEF Inv, CacheInv, Kept
    <2> QED BY <2>2, <2>3, <2>4, Numbers DEF Inv, TypeOK
  <1> QED BY Invariance, <1>1, PTL

-----------------------------------------------------------------------------
(***************************************************************************)
(* Losses.                                                                 *)
(***************************************************************************)
\* No number is given twice, to a task or to an event that was sent.
GivenOnce ==
    /\ nextSeq > 0
    /\ \A e \in tasks : e.seq < nextSeq
    /\ \A i \in DOMAIN log : 0 < log[i].seq /\ log[i].seq < nextSeq
    /\ \A i \in DOMAIN log : \A e \in tasks : log[i].seq # e.seq
    /\ \A e, f \in tasks : e.seq = f.seq /\ e.seq # 0 => e = f
    /\ \A i, j \in DOMAIN log : log[i].seq = log[j].seq => i = j

\* A subscriber is at a place of the log, and has seen what it was to see.
Placed(s) == sub[s].start > 0 /\ sub[s].start <= sub[s].next /\ sub[s].next <= Len(log) + 1

InOrder(s) ==
    LET seen == sub[s].seen IN
    /\ \A m \in DOMAIN seen : \E i \in Due(s) : seen[m] = log[i]
    /\ \A m, n \in DOMAIN seen : m < n =>
         \E i, j \in Due(s) : i < j /\ seen[m] = log[i] /\ seen[n] = log[j]

AllSeen(s) == ~sub[s].lagged =>
    \A i \in Due(s) : \E m \in DOMAIN sub[s].seen : sub[s].seen[m] = log[i]

Follows(s) == sub[s].on => Placed(s) /\ InOrder(s) /\ AllSeen(s)

LossInv == GivenOnce /\ \A s \in Subs : Follows(s)

LEMMA LogNumbers ==
    ASSUME BusTypeOK
    PROVE  \A i \in DOMAIN log : log[i].seq \in Nat
  <1>1. log \in Seq(Event)
    BY DEF BusTypeOK
  <1>2. \A i \in DOMAIN log : log[i] \in Event
    BY <1>1
  <1> QED BY <1>2 DEF Event

\* Tasks that have no number yet disturb nothing, nor do those that go.
LEMMA TasksCome ==
    ASSUME BusTypeOK, LossInv, UNCHANGED <<nextSeq, log, sub>>,
           \A e \in tasks' : e \in tasks \/ e.seq = 0
    PROVE  LossInv'
  <1>1. GivenOnce'
    BY DEF LossInv, GivenOnce, BusTypeOK, Event
  <1>2. \A s \in Subs : Follows(s)'
    BY DEF LossInv, Follows, Placed, InOrder, AllSeen, Due
  <1> QED BY <1>1, <1>2 DEF LossInv

\* The number is new, and taken.
LEMMA NumberTaken ==
    ASSUME BusTypeOK, LossInv, NEW e \in tasks, TakeNumber(e)
    PROVE  LossInv'
  <1> DEFINE new == [e EXCEPT !.seq = nextSeq]
  <1>1. /\ nextSeq' = nextSeq + 1 /\ tasks' = (tasks \ {e}) \cup {new} /\ log' = log /\ sub' = sub
        /\ nextSeq \in Nat /\ new.seq = nextSeq
        /\ \A f \in tasks : f.seq \in Nat
        /\ \A i \in DOMAIN log : log[i].seq \in Nat
    <2>1. nextSeq \in Nat /\ e \in Event /\ \A f \in tasks : f.seq \in Nat
      BY DEF BusTypeOK, Event
    <2>2. \A i \in DOMAIN log : log[i].seq \in Nat
      BY LogNumbers
    <2>3. new.seq = nextSeq
      BY <2>1 DEF Event
    <2> QED BY <2>1, <2>2, <2>3 DEF TakeNumber
  <1> HIDE DEF new
  <1>2. GivenOnce'
    BY <1>1 DEF LossInv, GivenOnce
  <1>3. \A s \in Subs : Follows(s)'
    BY <1>1 DEF LossInv, Follows, Placed, InOrder, AllSeen, Due
  <1> QED BY <1>2, <1>3 DEF LossInv

\* An event that is sent goes behind all places.
LEMMA EventSent ==
    ASSUME BusTypeOK, LossInv, NEW e \in tasks, Send(e)
    PROVE  LossInv'
  <1>0. /\ log \in Seq(Event) /\ e \in Event /\ tasks' = tasks \ {e} /\ e.seq # 0
        /\ nextSeq' = nextSeq /\ sub' = sub
        /\ \A s \in Subs : sub[s] \in Sub
    BY DEF Send, BusTypeOK
  <1>1. CASE log' = log
    BY <1>0, <1>1, TasksCome
  <1>2. CASE log' = Append(log, e)
    <2>1. /\ Len(log) \in Nat /\ DOMAIN log = 1..Len(log) /\ DOMAIN log' = 1..Len(log) + 1
          /\ \A i \in DOMAIN log : log'[i] = log[i]
          /\ log'[Len(log) + 1] = e /\ Len(log') = Len(log) + 1
      BY <1>0, <1>2
    <2>2. GivenOnce'
      <3>1. /\ nextSeq \in Nat /\ \A f \in tasks : f.seq \in Nat
            /\ \A i \in DOMAIN log : log[i].seq \in Nat
        BY LogNumbers DEF BusTypeOK, Event
      <3>2. /\ GivenOnce /\ \A f \in tasks' : f \in tasks /\ f # e
            /\ \A i \in DOMAIN log' : i \in DOMAIN log \/ i = Len(log) + 1
        BY <1>0, <2>1 DEF LossInv
      <3> QED BY <1>0, <2>1, <3>1, <3>2 DEF GivenOnce
    <2>3. ASSUME NEW s \in Subs, sub[s].on
          PROVE  /\ Placed(s)' /\ Due(s)' = Due(s)
                 /\ \A i \in Due(s) : i \in DOMAIN log
      <3>1. /\ sub[s].start \in Nat /\ sub[s].next \in Nat /\ Placed(s)
        BY <1>0, <2>3 DEF Sub, LossInv, Follows
      <3>2. \A i \in sub[s].start .. sub[s].next - 1 : i \in DOMAIN log
        BY <2>1, <3>1 DEF Placed
      <3> QED BY <1>0, <2>1, <3>1, <3>2 DEF Placed, Due
    <2>4. ASSUME NEW s \in Subs, sub[s].on PROVE InOrder(s)' /\ AllSeen(s)'
      BY <1>0, <2>1, <2>3, <2>4 DEF LossInv, Follows, InOrder, AllSeen
    <2> QED BY <1>0, <2>2, <2>3, <2>4 DEF LossInv, Follows
  <1> QED BY <1>1, <1>2 DEF Send

LEMMA OthersFollow ==
    ASSUME LossInv, log' = log, NEW q \in Subs, sub'[q] = sub[q]
    PROVE  Follows(q)'
  <1>1. Due(q)' = Due(q) /\ Follows(q)
    BY DEF Due, LossInv
  <1> QED BY <1>1 DEF Follows, Placed, InOrder, AllSeen

\* A subscriber takes the event at its place, or skips to a later one.
LEMMA EventReceived ==
    ASSUME BusTypeOK, LossInv, NEW s \in Subs, Receive(s)
    PROVE  LossInv'
  <1> DEFINE here == sub[s].next  e == log[here]  old == sub[s]  new == sub'[s]
  <1>0. /\ UNCHANGED <<nextSeq, tasks, log>> /\ old.on /\ here <= Len(log)
        /\ old \in Sub /\ here \in Nat /\ old.start \in Nat /\ old.seen \in Seq(Event)
        /\ old.lagged \in BOOLEAN
        /\ log \in Seq(Event) /\ Len(log) \in Nat /\ DOMAIN log = 1..Len(log)
        /\ Placed(s) /\ InOrder(s) /\ AllSeen(s)
    BY DEF Receive, BusTypeOK, Sub, LossInv, Follows
  <1>1. \A q \in Subs : q # s => sub'[q] = sub[q]
    BY DEF Receive, BusTypeOK
  <1>2. GivenOnce'
    BY <1>0 DEF LossInv, GivenOnce
  <1>3. \A q \in Subs : q # s => Follows(q)'
    BY <1>0, <1>1, OthersFollow
  <1>4. CASE here < Oldest
    <2>1. /\ new.next = Oldest /\ new.lagged /\ new.start = old.start
          /\ new.seen = old.seen /\ new.wants = old.wants
      BY <1>4 DEF Receive, BusTypeOK, Sub
    <2>2. Oldest \in Nat /\ Oldest <= Len(log) + 1
      BY <1>0, BusAssumption DEF Oldest
    <2>3. Placed(s)'
      BY <1>0, <1>4, <2>1, <2>2 DEF Placed
    <2>4. Due(s) \subseteq Due(s)'
      BY <1>0, <1>4, <2>1, <2>2 DEF Due
    <2>5. InOrder(s)'
      BY <1>0, <2>1, <2>4 DEF InOrder
    <2>6. AllSeen(s)'
      BY <2>1 DEF AllSeen
    <2> QED BY <1>2, <1>3, <2>3, <2>5, <2>6 DEF LossInv, Follows
  <1>5. CASE ~(here < Oldest)
    <2> DEFINE wanted == e.topic \in old.wants
               seen == IF wanted THEN Append(old.seen, e) ELSE old.seen
    <2>1. sub' = [sub EXCEPT ![s].next = here + 1, ![s].seen = seen]
      BY <1>5 DEF Receive
    <2> HIDE DEF seen
    <2>2. /\ new.next = here + 1 /\ new.seen = seen /\ new.lagged = old.lagged
          /\ new.start = old.start /\ new.wants = old.wants
      BY <2>1 DEF BusTypeOK, Sub
    <2>3. here \in DOMAIN log /\ here \in Nat \ {0}
      BY <1>0 DEF Placed
    <2>4. Placed(s)'
      BY <1>0, <2>2 DEF Placed
    <2>5. Due(s)' = IF wanted THEN Due(s) \cup {here} ELSE Due(s)
      BY <1>0, <2>2, <2>3 DEF Due, Placed
    <2>6. \A i \in Due(s) : i < here /\ i \in Nat
      BY <1>0 DEF Due, Placed
    <2>7. CASE ~wanted
      <3>1. seen = old.seen
        BY <2>7 DEF seen
      <3>2. InOrder(s)' /\ AllSeen(s)'
        BY <1>0, <2>2, <2>5, <2>7, <3>1 DEF InOrder, AllSeen
      <3> QED BY <1>2, <1>3, <2>4, <3>2 DEF LossInv, Follows
    <2>8. CASE wanted
      <3>1. /\ seen = Append(old.seen, e) /\ Len(old.seen) \in Nat
            /\ DOMAIN old.seen = 1..Len(old.seen) /\ DOMAIN seen = 1..Len(old.seen) + 1
            /\ \A m \in DOMAIN old.seen : seen[m] = old.seen[m]
            /\ seen[Len(old.seen) + 1] = e
        BY <1>0, <2>3, <2>8 DEF seen
      <3>2. Due(s)' = Due(s) \cup {here} /\ log' = log
        BY <1>0, <2>5, <2>8
      <3>3. \A m \in DOMAIN seen : \E i \in Due(s)' : seen[m] = log[i]
        BY <1>0, <3>1, <3>2 DEF InOrder
      <3>4. ASSUME NEW m \in DOMAIN seen, NEW n \in DOMAIN seen, m < n
            PROVE  \E i, j \in Due(s)' : i < j /\ seen[m] = log[i] /\ seen[n] = log[j]
        <4>1. m \in DOMAIN old.seen
          BY <3>1, <3>4
        <4>2. CASE n \in DOMAIN old.seen
          BY <1>0, <3>1, <3>2, <3>4, <4>1, <4>2 DEF InOrder
        <4>3. CASE n = Len(old.seen) + 1
          BY <1>0, <2>6, <3>1, <3>2, <4>1, <4>3 DEF InOrder
        <4> QED BY <3>1, <4>2, <4>3
      <3>5. InOrder(s)'
        BY <2>2, <3>2, <3>3, <3>4 DEF InOrder
      <3>6. AllSeen(s)'
        <4>1. ASSUME ~old.lagged, NEW i \in Due(s)'
              PROVE  \E m \in DOMAIN seen : seen[m] = log[i]
          <5>1. CASE i = here
            BY <1>0, <3>1, <5>1
          <5>2. CASE i \in Due(s)
            <6>1. PICK m \in DOMAIN old.seen : old.seen[m] = log[i]
              BY <1>0, <4>1, <5>2 DEF AllSeen
            <6> QED BY <3>1, <6>1
          <5> QED BY <3>2, <5>1, <5>2
        <4> QED BY <2>2, <3>2, <4>1 DEF AllSeen
      <3> QED BY <1>2, <1>3, <2>4, <3>5, <3>6 DEF LossInv, Follows
    <2> QED BY <2>7, <2>8
  <1> QED BY <1>4, <1>5

\* A stream that begins is to see nothing yet; one that is off neither.
LEMMA StreamSet ==
    ASSUME BusTypeOK, LossInv, NEW s \in Subs,
           Unsubscribe(s) \/ \E wants \in SUBSET Topics : Subscribe(s, wants)
    PROVE  LossInv'
  <1> DEFINE new == sub'[s]  here == Len(log) + 1
  <1>0. /\ UNCHANGED <<nextSeq, tasks, log>> /\ Len(log) \in Nat
        /\ \A q \in Subs : q # s => sub'[q] = sub[q]
        /\ new.seen = <<>>
        /\ new.on => new.start = Len(log) + 1 /\ new.next = Len(log) + 1
    <2>1. Len(log) \in Nat /\ sub \in [Subs -> Sub]
      BY DEF BusTypeOK
    <2>2. CASE Unsubscribe(s)
      BY <2>1, <2>2 DEF Unsubscribe, Off
    <2>3. ASSUME NEW wants, Subscribe(s, wants)
          PROVE  /\ UNCHANGED <<nextSeq, tasks, log>>
                 /\ \A q \in Subs : q # s => sub'[q] = sub[q]
                 /\ new.seen = <<>> /\ new.start = here /\ new.next = here
      <3>1. /\ UNCHANGED <<nextSeq, tasks, log>>
            /\ sub' = [sub EXCEPT ![s] = [Off EXCEPT !.on = TRUE, !.wants = wants,
                                                     !.start = here, !.next = here]]
        BY <2>3 DEF Subscribe
      <3> HIDE DEF here
      <3> QED BY <2>1, <3>1 DEF Off
    <2> QED BY <2>1, <2>2, <2>3
  <1>1. GivenOnce'
    BY <1>0 DEF LossInv, GivenOnce
  <1>2. \A q \in Subs : q # s => Follows(q)'
    BY <1>0, OthersFollow
  <1>4. new.on => Due(s)' = {} /\ DOMAIN new.seen = {}
    BY <1>0 DEF Due
  <1>5. Follows(s)'
    BY <1>0, <1>4 DEF Follows, Placed, InOrder, AllSeen
  <1> QED BY <1>1, <1>2, <1>5 DEF LossInv

LEMMA LossInit == Init => LossInv
  <1> SUFFICES ASSUME Init PROVE LossInv
    OBVIOUS
  <1>1. nextSeq = 1 /\ tasks = {} /\ log = <<>> /\ \A s \in Subs : ~sub[s].on
    BY DEF Init, BusInit, Off
  <1> QED BY <1>1 DEF LossInv, GivenOnce, Follows

LEMMA LossStep == Inv /\ LossInv /\ [Next]_vars => LossInv'
  <1> SUFFICES ASSUME Inv, LossInv, [Next]_vars PROVE LossInv'
    OBVIOUS
  <1>0. BusTypeOK
    BY DEF Inv, TypeOK
  <1>1. CASE UNCHANGED busVars
    BY <1>0, <1>1, TasksCome DEF busVars
  <1>2. ASSUME NEW w \in Writers, Answered(w) PROVE LossInv'
    BY <1>0, <1>2, TasksCome DEF Answered, Spawned
  <1>3. ASSUME NEW k \in Keys, NEW live \in BOOLEAN, OtherWrite(k, live) PROVE LossInv'
    BY <1>0, <1>3, TasksCome DEF OtherWrite, Spawned
  <1>4. CASE BusNext
    <2>1. ASSUME NEW e \in tasks, Suppress(e) PROVE LossInv'
      BY <1>0, <2>1, TasksCome DEF Suppress
    <2> QED BY <1>0, <1>4, <2>1, NumberTaken, EventSent, EventReceived, StreamSet DEF BusNext
  <1> QED BY <1>1, <1>2, <1>3, <1>4 DEF Next, WriteNext, vars, busVars

\* What a stream is sent it wanted, once and in the order of sending, and
\* nothing is missing unless it lagged or the numbers have a gap, however the
\* publications interleave (EventBus::publish, the gRPC and SSE streams).
THEOREM LossesAreShown == Spec => []LossesShow
  <1>1. LossInv => LossesShow
    BY DEF LossInv, GivenOnce, Follows, InOrder, AllSeen, LossesShow
  <1> QED BY InitInv, InvStep, LossInit, LossStep, <1>1, PTL DEF Spec
=============================================================================
