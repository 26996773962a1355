----------------------------- MODULE LiveReads -----------------------------
(***************************************************************************)
(* The populate cache and the event bus together: a gRPC write commits,    *)
(* its handler clears the cache and only then asks for the event, so that  *)
(* whoever hears of the write and reads the document again is served it.   *)
(* The writers that never clear publish as well.                           *)
(***************************************************************************)
EXTENDS PopulateCache, EventBus

\* Events are about the documents that reads populate.
ASSUME TopicsAssumption == Topics = Keys

vars == <<rows, cache, reader, writer, settled, unclean, nextSeq, tasks, log, sub>>

TypeOK == CacheTypeOK /\ BusTypeOK

Init == CacheInit /\ BusInit

\* The writes that publish are those of one document: UpdateMany and
\* DeleteMany do not.  The response does not wait for the task.
Answered(w) ==
    /\ Respond(w)
    /\ \/ \E k \in writer[w].keys :
            /\ writer[w].keys = {k}
            /\ tasks' = Spawned(k, writer[w].vers[k], TRUE)
       \/ /\ \A k \in writer[w].keys : writer[w].keys # {k}
          /\ UNCHANGED tasks
    /\ UNCHANGED <<nextSeq, log, sub>>

\* The admin interface and the upload API publish, MCP, Lua and jobs do not.
OtherWrite(k, live) ==
    /\ OtherCommit(k, live)
    /\ \/ tasks' = Spawned(k, rows[k].ver + 1, FALSE)
       \/ UNCHANGED tasks
    /\ UNCHANGED <<nextSeq, log, sub>>

WriteNext ==
    \/ \E w \in Writers :
         \/ \E ks \in SUBSET Keys : BeginWrite(w, ks) /\ UNCHANGED busVars
         \/ \E live \in BOOLEAN : Commit(w, live) /\ UNCHANGED busVars
         \/ (Refuse(w) \/ FailAfterCommit(w) \/ Drop(w) \/ Clear(w)) /\ UNCHANGED busVars
         \/ Answered(w)
    \/ \E k \in Keys, live \in BOOLEAN : OtherWrite(k, live)
    \/ PeriodicClear /\ UNCHANGED busVars

Next ==
    \/ ReadNext /\ UNCHANGED busVars
    \/ WriteNext
    \/ BusNext /\ UNCHANGED cacheVars

Spec == Init /\ [][Next]_vars

\* A subscriber that reads a document when it hears of a write is served that
\* write or a later one, if the writer was one that clears the cache and no
\* read carried an older copy across the clear.
ReadsAfterEvent ==
    \A i \in DOMAIN log :
       LET e == log[i] IN
       e.cleared /\ cache[e.topic] # NoCopy /\ ~cache[e.topic].late
         => cache[e.topic].ver >= e.ver
=============================================================================
