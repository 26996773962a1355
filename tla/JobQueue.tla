------------------------------ MODULE JobQueue ------------------------------
(***************************************************************************)
(* The background job system: the _crap_jobs table, the scheduler loop,    *)
(* the poll tasks it spawns, the workers they spawn, startup recovery, and *)
(* the CLI, gRPC and Lua entry points that insert and delete rows.         *)
(*                                                                         *)
(* One action is one SQL statement or one step of one thread between two   *)
(* statements.  The scheduler loop is one thread; every poll tick spawns a *)
(* task, so several polls can be under way at once (Pollers bounds how     *)
(* many); every claimed run gets a thread of its own.  A crash loses all   *)
(* of them and keeps the table.                                            *)
(***************************************************************************)
EXTENDS Integers, Sequences, FiniteSets

CONSTANTS
    Jobs,            \* rows that may ever be inserted (nanoid: an id is used once)
    Slugs,           \* job types
    SlugOf,          \* the job type of each row
    Registries,      \* the sets of types the Lua config may define at a start
    MaxAttempts,     \* retries + 1 of each type, copied into its rows at INSERT
    Concurrency,     \* concurrency of each type
    Scheduled,       \* types with a cron schedule
    SkipIfRunning,   \* types with skip_if_running
    MaxConcurrent,   \* [jobs] max_concurrent
    PurgeAge,        \* [jobs] auto_purge and --older-than, in seconds
    Pollers,         \* poll tasks that may be under way at once
    None,            \* no poll task, no type
    Faults,          \* TRUE: the pool and the database may return errors
    Panics,          \* TRUE: a handler may panic
    Crashes,         \* TRUE: the server may crash or be shut down
    MaxClock         \* bound of the clock, in seconds

ASSUME JobsAssumption ==
    /\ IsFiniteSet(Jobs)
    /\ SlugOf \in [Jobs -> Slugs]
    /\ Registries \subseteq SUBSET Slugs
    /\ MaxAttempts \in [Slugs -> Nat \ {0}]
    /\ Concurrency \in [Slugs -> Nat \ {0}]
    /\ Scheduled \subseteq Slugs /\ SkipIfRunning \subseteq Slugs
    /\ MaxConcurrent \in Nat \ {0}
    /\ PurgeAge \in Nat /\ MaxClock \in Nat
    /\ {Faults, Panics, Crashes} \subseteq BOOLEAN
    /\ None \notin Pollers \cup Slugs

VARIABLES
    (* The database. *)
    status,      \* status of each row: "absent" before INSERT, "gone" after DELETE
    attempt,     \* column attempt: claims so far
    created,     \* column created_at
    heartbeat,   \* column heartbeat_at (0 while it is NULL: only running rows are
                 \* asked for it, and every claim sets it)
    commits,     \* commits of the transaction a row's handler ran in
    now,         \* datetime('now'), in whole seconds
    (* The server process. *)
    mode,        \* "down", "recovering", "up", or "stopping" (loop left, process alive)
    defined,     \* types in the Lua registry
    stale,       \* rows find_stale_jobs returned and mark_stale has not reached
    booted,      \* datetime('now') of find_stale_jobs at the last start
    loop,        \* the scheduler loop: where it is and what it still has to do
    poll,        \* the poll tasks
    runs,        \* claimed runs (JobRun): in a poll task's Vec, or in a worker
    tracked      \* the ids in running_jobs (a Vec, but retain drops every copy)

table == <<status, attempt, created, heartbeat, commits>>
vars  == <<status, attempt, created, heartbeat, commits, now, mode, defined,
           stale, booted, loop, poll, runs, tracked>>

Statuses == {"absent", "pending", "running", "completed", "failed", "stale", "gone"}
Terminal == {"completed", "failed", "stale"}
Clock    == 0 .. MaxClock

(* "claimed": in the Vec of a poll task.  "spawned": the worker exists.    *)
(* "handling": its transaction is open.  "erred": the transaction is       *)
(* rolled back.  "committed": it is committed.  "ending": execute_job has  *)
(* returned and the id is not yet out of running_jobs.                     *)
Owning == {"claimed", "spawned", "handling", "erred", "committed"}
Phases == Owning \cup {"ending"}

Run    == [job : Jobs, seq : Nat, attempt : Nat, phase : Phases,
           by : Pollers \cup {None}]
Row    == [job : Jobs, attempt : Nat]
PollTask == [pc : {"idle", "spawned", "counted", "ready", "claiming", "dispatching"},
             avail : Nat, counts : [Slugs -> Nat], rows : Seq(Row)]
IdlePoll == [pc |-> "idle", avail |-> 0, counts |-> [s \in Slugs |-> 0], rows |-> <<>>]
IdleLoop == [at |-> "select", todo |-> {}, slug |-> None]

TypeOK ==
    /\ status \in [Jobs -> Statuses]
    /\ attempt \in [Jobs -> Nat]
    /\ created \in [Jobs -> Clock] /\ heartbeat \in [Jobs -> Clock]
    /\ commits \in [Jobs -> Nat]
    /\ now \in Clock /\ booted \in Clock
    /\ mode \in {"down", "recovering", "up", "stopping"}
    /\ defined \in SUBSET Slugs
    /\ stale \in SUBSET Jobs /\ tracked \in SUBSET Jobs
    /\ loop \in [at : {"select", "cron", "insert", "heartbeat"},
                 todo : SUBSET (Jobs \cup Slugs), slug : Slugs \cup {None}]
    /\ poll \in [Pollers -> PollTask]
    /\ runs \in SUBSET Run

Init ==
    /\ status = [j \in Jobs |-> "absent"] /\ attempt = [j \in Jobs |-> 0]
    /\ created = [j \in Jobs |-> 0] /\ heartbeat = [j \in Jobs |-> 0]
    /\ commits = [j \in Jobs |-> 0]
    /\ now = 0 /\ booted = 0
    /\ mode = "down" /\ defined \in Registries
    /\ stale = {} /\ tracked = {} /\ runs = {}
    /\ loop = IdleLoop
    /\ poll = [p \in Pollers |-> IdlePoll]

-----------------------------------------------------------------------------
(* The statements of db/query/jobs.rs *)

Running    == {j \in Jobs : status[j] = "running"}
RunningOf(s) == {j \in Running : SlugOf[j] = s}
Pending    == {j \in Jobs : status[j] = "pending"}

(* UPDATE ... WHERE id: no status guard, and a deleted row stays deleted. *)
SetStatus(j, s) == status' = [status EXCEPT ![j] = IF @ = "gone" THEN @ ELSE s]

insert_job(j) ==
    /\ status[j] = "absent"
    /\ status' = [status EXCEPT ![j] = "pending"]
    /\ created' = [created EXCEPT ![j] = now]
    /\ UNCHANGED <<attempt, heartbeat, commits>>

(* SELECT pending ORDER BY created_at LIMIT 2 * limit: equal seconds come  *)
(* in any order.                                                           *)
Batches(limit) ==
    LET n == IF Cardinality(Pending) < 2 * limit THEN Cardinality(Pending) ELSE 2 * limit
    IN  {b \in [1 .. n -> Pending] :
            /\ \A i, k \in 1 .. n : i < k => b[i] # b[k] /\ created[b[i]] =< created[b[k]]
            /\ \A j \in Pending \ {b[i] : i \in 1 .. n}, i \in 1 .. n : created[b[i]] =< created[j]}

DeleteRows(S) ==
    /\ status' = [j \in Jobs |-> IF j \in S THEN "gone" ELSE status[j]]
    /\ UNCHANGED <<attempt, created, heartbeat, commits>>

purge_old_jobs ==
    DeleteRows({j \in Jobs : status[j] \in Terminal /\ created[j] < now - PurgeAge})

(* Mutant: a threshold of one heartbeat interval, as a reader may expect. *)
find_stale_after_interval == {j \in Running : heartbeat[j] < now - 10}

find_stale_jobs == {j \in Running : heartbeat[j] < now}

-----------------------------------------------------------------------------
(* Requests: CLI trigger, TriggerJob, crap.jobs.queue; CLI cancel, purge *)

server == <<mode, defined, stale, booted, loop, poll, runs, tracked>>

(* The CLI evaluates the Lua config itself, which the server may not have. *)
Enqueue(j) ==
    /\ SlugOf[j] \in UNION Registries
    /\ insert_job(j)
    /\ UNCHANGED <<now, server>>

(* Mutant: DELETE without AND status = 'pending'. *)
cancel_live_jobs(S) == DeleteRows({j \in Pending \cup Running : SlugOf[j] \in S})

cancel_pending_jobs(S) == DeleteRows({j \in Pending : SlugOf[j] \in S})

Cancel(S) ==
    /\ cancel_pending_jobs(S)
    /\ UNCHANGED <<now, server>>

Purge == purge_old_jobs /\ UNCHANGED <<now, server>>

Tick ==
    /\ now < MaxClock
    /\ now' = now + 1
    /\ UNCHANGED <<table, server>>

-----------------------------------------------------------------------------
(* The server process: startup recovery, shutdown, crash *)

Start ==
    /\ mode = "down"
    /\ mode' = "recovering"
    /\ defined' \in Registries
    /\ stale' = find_stale_jobs
    /\ booted' = now
    /\ UNCHANGED <<table, now, loop, poll, runs, tracked>>

MarkStale(j) ==
    /\ mode = "recovering" /\ j \in stale
    /\ SetStatus(j, "stale")
    /\ stale' = stale \ {j}
    /\ UNCHANGED <<attempt, created, heartbeat, commits, now, mode, defined, booted,
                   loop, poll, runs, tracked>>

Recovered ==
    /\ mode = "recovering" /\ stale = {}
    /\ mode' = "up"
    /\ UNCHANGED <<table, now, defined, stale, booted, loop, poll, runs, tracked>>

(* The loop breaks on the cancellation token; polls and workers go on. *)
Shutdown ==
    /\ Crashes
    /\ mode = "up" /\ loop.at = "select"
    /\ mode' = "stopping"
    /\ UNCHANGED <<table, now, defined, stale, booted, loop, poll, runs, tracked>>

ProcessEnds ==
    /\ mode' = "down"
    /\ stale' = {} /\ tracked' = {} /\ runs' = {}
    /\ loop' = IdleLoop
    /\ poll' = [p \in Pollers |-> IdlePoll]
    /\ UNCHANGED <<table, now, defined, booted>>

(* process::exit(0) once the servers and the loop are done. *)
Exit == mode = "stopping" /\ ProcessEnds

Crash == Crashes /\ mode \in {"recovering", "up"} /\ ProcessEnds

-----------------------------------------------------------------------------
(* A poll task: poll_and_execute with claim_pending_jobs *)

SetPoll(p, r) == poll' = [poll EXCEPT ![p] = r]
ClaimedBy(p)  == {r \in runs : r.phase = "claimed" /\ r.by = p}
Limit(s)      == IF s \in defined THEN Concurrency[s] ELSE 1

process == <<now, mode, defined, stale, booted, loop>>

PollTick(p) ==
    /\ mode = "up" /\ loop.at = "select"
    /\ poll[p].pc = "idle"
    /\ SetPoll(p, [poll[p] EXCEPT !.pc = "spawned"])
    /\ UNCHANGED <<table, process, runs, tracked>>

(* Mutant: the last of the max_concurrent places is never used. *)
AtCapacityEarly(n) == n + 1 >= MaxConcurrent

AtCapacity(n) == n >= MaxConcurrent

PollCount(p) ==
    /\ poll[p].pc = "spawned"
    /\ LET n == Cardinality(Running)
       IN  SetPoll(p, IF AtCapacity(n) THEN IdlePoll
                      ELSE [poll[p] EXCEPT !.pc = "counted", !.avail = MaxConcurrent - n])
    /\ UNCHANGED <<table, process, runs, tracked>>

PollCountSlugs(p) ==
    /\ poll[p].pc = "counted"
    /\ SetPoll(p, [poll[p] EXCEPT !.pc = "ready",
                                  !.counts = [s \in Slugs |-> Cardinality(RunningOf(s))]])
    /\ UNCHANGED <<table, process, runs, tracked>>

PollSelect(p) ==
    /\ poll[p].pc = "ready"
    /\ \E b \in Batches(poll[p].avail) :
          SetPoll(p, [poll[p] EXCEPT !.pc = "claiming",
                                     !.rows = [i \in DOMAIN b |-> [job |-> b[i], attempt |-> attempt[b[i]]]]])
    /\ UNCHANGED <<table, process, runs, tracked>>

(* Mutants: the UPDATE without AND status = 'pending'; the slug's count    *)
(* not carried to the next row.                                            *)
ClaimableAnyway(j) == status[j] # "gone"
CountOnce(t, s)    == [t EXCEPT !.avail = @ - 1]

MayClaim(p)      == poll[p].avail > 0 /\ poll[p].rows # <<>>
Claimable(j)     == status[j] = "pending"
CountClaim(t, s) == [t EXCEPT !.avail = @ - 1, !.counts[s] = @ + 1]

(* The next selected row: skipped while its type is saturated, lost if it  *)
(* is no longer pending, claimed otherwise.  The JobRun carries the        *)
(* attempt of the SELECT plus one, whatever the column has become since.   *)
ClaimRow(p) ==
    /\ poll[p].pc = "claiming" /\ MayClaim(p)
    /\ LET row  == Head(poll[p].rows)
           s    == SlugOf[row.job]
           rest == [poll[p] EXCEPT !.rows = Tail(@)]
       IN  \/ /\ poll[p].counts[s] >= Limit(s) \/ ~Claimable(row.job)
              /\ SetPoll(p, rest)
              /\ UNCHANGED <<table, runs>>
           \/ /\ poll[p].counts[s] < Limit(s) /\ Claimable(row.job)
              /\ status' = [status EXCEPT ![row.job] = "running"]
              /\ heartbeat' = [heartbeat EXCEPT ![row.job] = now]
              /\ attempt' = [attempt EXCEPT ![row.job] = @ + 1]
              /\ runs' = runs \cup {[job |-> row.job, seq |-> attempt[row.job] + 1,
                                     attempt |-> row.attempt + 1, phase |-> "claimed",
                                     by |-> p]}
              /\ SetPoll(p, CountClaim(rest, s))
              /\ UNCHANGED <<created, commits>>
    /\ UNCHANGED <<process, tracked>>

PollClaimed(p) ==
    /\ poll[p].pc = "claiming" /\ ~MayClaim(p)
    /\ SetPoll(p, [IdlePoll EXCEPT !.pc = "dispatching"])
    /\ UNCHANGED <<table, process, runs, tracked>>

(* One claimed run: failed without retry if its type is not defined (an    *)
(* error of that statement is ignored), else tracked and given a worker.   *)
Dispatch(p) ==
    /\ poll[p].pc = "dispatching"
    /\ \E r \in ClaimedBy(p) :
          IF SlugOf[r.job] \in defined
          THEN /\ tracked' = tracked \cup {r.job}
               /\ runs' = (runs \ {r}) \cup {[r EXCEPT !.phase = "spawned", !.by = None]}
               /\ UNCHANGED table
          ELSE /\ \/ SetStatus(r.job, "failed")
                  \/ Faults /\ UNCHANGED status
               /\ runs' = runs \ {r}
               /\ UNCHANGED <<attempt, created, heartbeat, commits, tracked>>
    /\ UNCHANGED <<process, poll>>

PollDone(p) ==
    /\ poll[p].pc = "dispatching" /\ ClaimedBy(p) = {}
    /\ SetPoll(p, IdlePoll)
    /\ UNCHANGED <<table, process, runs, tracked>>

(* An error of the pool or of a statement: the rows claimed so far go with *)
(* the Vec of claim_pending_jobs.                                          *)
PollFails(p) ==
    /\ Faults
    /\ poll[p].pc \in {"spawned", "counted", "ready", "claiming"}
    /\ SetPoll(p, IdlePoll)
    /\ runs' = runs \ ClaimedBy(p)
    /\ UNCHANGED <<table, process, tracked>>

-----------------------------------------------------------------------------
(* A worker: execute_job, then retain *)

Step(r, from, to) ==
    /\ r.phase = from
    /\ runs' = (runs \ {r}) \cup {[r EXCEPT !.phase = to]}

WorkerBegin(r) ==
    /\ Step(r, "spawned", "handling")
    /\ UNCHANGED <<table, process, poll, tracked>>

(* The handler returns Ok and its transaction commits; nothing looks at    *)
(* the time it took.                                                       *)
HandlerOk(r) ==
    /\ Step(r, "handling", "committed")
    /\ commits' = [commits EXCEPT ![r.job] = @ + 1]
    /\ UNCHANGED <<status, attempt, created, heartbeat, process, poll, tracked>>

(* Mutant: no rollback, the error path commits what the handler did. *)
HandlerErrKeeps(r) ==
    /\ Step(r, "handling", "erred")
    /\ commits' = [commits EXCEPT ![r.job] = @ + 1]
    /\ UNCHANGED <<status, attempt, created, heartbeat, process, poll, tracked>>

HandlerErr(r) ==
    /\ Step(r, "handling", "erred")
    /\ UNCHANGED <<table, process, poll, tracked>>

complete_job(r) ==
    /\ Step(r, "committed", "ending")
    /\ SetStatus(r.job, "completed")
    /\ UNCHANGED <<attempt, created, heartbeat, commits, process, poll, tracked>>

(* Mutant: one retry too many. *)
should_retry_once_more(r) == r.attempt =< MaxAttempts[SlugOf[r.job]]

should_retry(r) == r.attempt < MaxAttempts[SlugOf[r.job]]

fail_job(r) ==
    /\ Step(r, "erred", "ending")
    /\ SetStatus(r.job, IF should_retry(r) THEN "pending" ELSE "failed")
    /\ UNCHANGED <<attempt, created, heartbeat, commits, process, poll, tracked>>

(* An error of the pool, of BEGIN, COMMIT or the final UPDATE: execute_job *)
(* returns early and the row keeps the status it has.                      *)
WorkerFails(r) ==
    /\ Faults
    /\ r.phase \in Owning \ {"claimed"}
    /\ Step(r, r.phase, "ending")
    /\ UNCHANGED <<table, process, poll, tracked>>

Untrack(r) ==
    /\ r.phase = "ending"
    /\ runs' = runs \ {r}
    /\ tracked' = tracked \ {r.job}
    /\ UNCHANGED <<table, process, poll>>

(* The thread unwinds: its transaction rolls back, the id stays tracked.   *)
Panic(r) ==
    /\ Panics
    /\ r.phase = "handling"
    /\ runs' = runs \ {r}
    /\ UNCHANGED <<table, process, poll, tracked>>

-----------------------------------------------------------------------------
(* The cron, purge and heartbeat arms of the scheduler loop *)

AtSelect == mode = "up" /\ loop.at = "select"
others == <<now, mode, defined, stale, booted, poll, runs, tracked>>

CronTick ==
    /\ AtSelect
    /\ \E due \in SUBSET (Scheduled \cap defined) :
          loop' = [at |-> "cron", todo |-> due, slug |-> None]
    /\ UNCHANGED <<table, others>>

CronCheck(s) ==
    /\ loop.at = "cron" /\ s \in loop.todo
    /\ loop' = IF s \in SkipIfRunning /\ RunningOf(s) # {}
               THEN [loop EXCEPT !.todo = @ \ {s}]
               ELSE [at |-> "insert", todo |-> loop.todo \ {s}, slug |-> s]
    /\ UNCHANGED <<table, others>>

(* Without a fresh row left (the bound on Jobs) the firing is dropped. *)
CronInsert ==
    /\ loop.at = "insert"
    /\ LET fresh == {j \in Jobs : status[j] = "absent" /\ SlugOf[j] = loop.slug}
       IN  IF fresh = {} THEN UNCHANGED table ELSE \E j \in fresh : insert_job(j)
    /\ loop' = [loop EXCEPT !.at = "cron", !.slug = None]
    /\ UNCHANGED others

(* The first error ends check_cron_schedules; last_cron_check moves on all *)
(* the same, so the firings it had not reached are lost.                   *)
CronFails ==
    /\ Faults
    /\ loop.at \in {"cron", "insert"}
    /\ loop' = IdleLoop
    /\ UNCHANGED <<table, others>>

(* Every tenth tick purges. *)
CronEnd ==
    /\ loop.at = "cron" /\ loop.todo = {}
    /\ loop' = IdleLoop
    /\ purge_old_jobs \/ UNCHANGED table
    /\ UNCHANGED others

HeartbeatTick ==
    /\ AtSelect
    /\ tracked # {}
    /\ loop' = [at |-> "heartbeat", todo |-> tracked, slug |-> None]
    /\ UNCHANGED <<table, others>>

(* An error is logged and the next id has its turn. *)
update_heartbeat(j) ==
    /\ loop.at = "heartbeat" /\ j \in loop.todo
    /\ \/ heartbeat' = [heartbeat EXCEPT ![j] = IF status[j] = "gone" THEN @ ELSE now]
       \/ Faults /\ UNCHANGED heartbeat
    /\ loop' = [loop EXCEPT !.todo = @ \ {j}]
    /\ UNCHANGED <<status, attempt, created, commits, others>>

HeartbeatEnd ==
    /\ loop.at = "heartbeat" /\ loop.todo = {}
    /\ loop' = IdleLoop
    /\ UNCHANGED <<table, others>>

-----------------------------------------------------------------------------
Request ==
    \/ \E j \in Jobs : Enqueue(j)
    \/ \E s \in Slugs : Cancel({s})
    \/ Cancel(Slugs)
    \/ Purge

Process == Start \/ (\E j \in Jobs : MarkStale(j)) \/ Recovered \/ Shutdown \/ Exit \/ Crash

PollStep(p) == PollTick(p) \/ PollCount(p) \/ PollCountSlugs(p) \/ PollSelect(p)
               \/ ClaimRow(p) \/ PollClaimed(p) \/ Dispatch(p) \/ PollDone(p)

WorkerStep(r) == WorkerBegin(r) \/ HandlerOk(r) \/ HandlerErr(r) \/ complete_job(r)
                 \/ fail_job(r) \/ Untrack(r)

LoopStep == CronTick \/ (\E s \in Slugs : CronCheck(s)) \/ CronInsert \/ CronEnd
            \/ HeartbeatTick \/ (\E j \in Jobs : update_heartbeat(j)) \/ HeartbeatEnd

Next ==
    \/ Request
    \/ Process
    \/ \E p \in Pollers : PollStep(p) \/ PollFails(p)
    \/ \E r \in runs : WorkerStep(r) \/ WorkerFails(r) \/ Panic(r)
    \/ LoopStep \/ CronFails
    \/ Tick

Spec == Init /\ [][Next]_vars

(* Fairness the code justifies: select! chooses among the ready arms at    *)
(* random, so the poll arm has its turn however often the cron and         *)
(* heartbeat arms are ready (strong fairness of PollTick); the spawned     *)
(* tasks and threads run; a handler returns (the timeout is not enforced,  *)
(* so nothing else ends one); a server that is down is started, and its    *)
(* recovery, a straight run of statements, ends.  Nothing is fair about    *)
(* requests, crashes, errors or the clock.                                 *)
RunOf(j) == \E r \in runs : r.job = j /\ WorkerStep(r)

Fairness ==
    /\ WF_vars(Start) /\ WF_vars(Recovered) /\ WF_vars(\E j \in Jobs : MarkStale(j))
    /\ \A p \in Pollers : SF_vars(PollTick(p)) /\ WF_vars(PollStep(p))
    /\ \A j \in Jobs : WF_vars(RunOf(j))
    /\ WF_vars(CronInsert) /\ WF_vars(CronEnd) /\ WF_vars(HeartbeatEnd)
    /\ \A s \in Slugs : WF_vars(CronCheck(s))
    /\ \A j \in Jobs : WF_vars(update_heartbeat(j))

FairSpec == Spec /\ Fairness

-----------------------------------------------------------------------------
(* Correctness *)

Owners(j) == {r \in runs : r.job = j /\ r.phase \in Owning}

(* A run that is in hand, from its claim to its last write, is the only    *)
(* one of its row, the row is running, and no claim came after it: two     *)
(* poll tasks or a retry never put one row into two threads.               *)
RunsOwnRows ==
    /\ \A r \in runs : r.phase \in Owning =>
          status[r.job] = "running" /\ attempt[r.job] = r.seq
    /\ \A q, r \in runs : q.phase \in Owning /\ r.phase \in Owning /\ q.job = r.job => q = r

(* The effects of a handler are committed at most once per row, whatever   *)
(* is retried, cancelled, crashed or claimed twice; a completed row has    *)
(* them, a pending or failed row (one a retry may run again) has not.      *)
EffectsOnce ==
    \A j \in Jobs :
        /\ commits[j] =< 1
        /\ status[j] = "completed" => commits[j] = 1
        /\ status[j] \in {"absent", "pending", "failed"} => commits[j] = 0

(* A row is claimed at most retries + 1 times. *)
WithinAttempts == \A j \in Jobs : attempt[j] =< MaxAttempts[SlugOf[j]]

(* The rows marked running never exceed max_concurrent, nor the rows of a  *)
(* type its concurrency.                                                   *)
WithinConcurrency ==
    /\ Cardinality(Running) =< MaxConcurrent
    /\ \A s \in Slugs : Cardinality(RunningOf(s)) =< Concurrency[s]

(* Once recovery is over a row marked running has a thread that will end   *)
(* it, or it was touched in the very second of the start: find_stale_jobs  *)
(* compares whole seconds with <.                                          *)
NoneStranded ==
    mode \in {"up", "stopping"} =>
        \A j \in Running : Owners(j) # {} \/ heartbeat[j] = booted

(* The strengthening that makes RunsOwnRows and EffectsOnce inductive: no  *)
(* thread is left of a dead process, recovery only meets rows nobody owns, *)
(* and the phase of a run tells whether its effects are committed.         *)
Offline ==
    mode \in {"down", "recovering"} =>
        runs = {} /\ \A p \in Pollers : poll[p].pc = "idle"

StaleUnowned == \A j \in stale : mode = "recovering" /\ status[j] = "running"

PhaseTellsEffects ==
    \A r \in runs :
        /\ r.phase \in Owning \ {"committed"} => commits[r.job] = 0
        /\ r.phase = "committed" => commits[r.job] = 1

OwnershipInv ==
    TypeOK /\ RunsOwnRows /\ EffectsOnce /\ Offline /\ StaleUnowned /\ PhaseTellsEffects

(* What keeps attempts and concurrency within their limits while no two    *)
(* polls overlap: a selected row is claimed before it can change, but for  *)
(* a deletion, and what a poll counted is an upper bound until it is done. *)
SelectionFresh ==
    \A p \in Pollers : LET rows == poll[p].rows IN
        \A i \in DOMAIN rows :
            /\ \/ status[rows[i].job] = "gone"
               \/ status[rows[i].job] = "pending" /\ attempt[rows[i].job] = rows[i].attempt
            /\ \A k \in DOMAIN rows : i # k => rows[i].job # rows[k].job

AttemptsLeft ==
    /\ \A r \in runs : r.phase \in Owning => r.attempt = r.seq
    /\ \A j \in Jobs : status[j] \in {"absent", "pending"} => attempt[j] < MaxAttempts[SlugOf[j]]

AttemptsInv == OwnershipInv /\ SelectionFresh /\ AttemptsLeft /\ WithinAttempts

CountsBound ==
    \A p \in Pollers :
        /\ poll[p].pc \in {"counted", "ready", "claiming"}
              => Cardinality(Running) + poll[p].avail =< MaxConcurrent
        /\ poll[p].pc \in {"ready", "claiming"}
              => \A s \in Slugs : Cardinality(RunningOf(s)) =< poll[p].counts[s]

CapacityInv == TypeOK /\ CountsBound /\ WithinConcurrency

Lifecycle == INSTANCE JobLifecycle WITH status <- status, commits <- commits

(* Every row of the table lives as JobLifecycle promises. *)
RefinesLifecycle == Lifecycle!Spec

(* A pending row is not left behind: it ends, or it is deleted. *)
PendingResolved ==
    \A j \in Jobs : status[j] = "pending" ~> status[j] \in Terminal \cup {"gone"}
=============================================================================
