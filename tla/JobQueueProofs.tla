--------------------------- MODULE JobQueueProofs ---------------------------
(***************************************************************************)
(* Proofs about JobQueue, for any number of rows, types and poll tasks,    *)
(* with errors, panics and crashes allowed.                                *)
(***************************************************************************)
EXTENDS JobQueue, FiniteSetTheorems, TLAPS

LEMMA CountsAreNat ==
    \A S \in SUBSET Jobs : IsFiniteSet(S) /\ Cardinality(S) \in Nat
BY JobsAssumption, FS_Subset, FS_CardinalityType

LEMMA IdlePollType == IdlePoll \in PollTask
BY DEF IdlePoll, PollTask

(* What every step of a poll task has in common. *)
LEMMA PollStepType ==
    ASSUME TypeOK, NEW p \in Pollers, NEW r \in PollTask,
           SetPoll(p, r), UNCHANGED <<table, process>>,
           runs' \in SUBSET Run, tracked' \in SUBSET Jobs
    PROVE  TypeOK'
BY DEF TypeOK, SetPoll, table, process

LEMMA RunsType ==
    ASSUME TypeOK, NEW r \in runs, NEW q \in Run, runs' = (runs \ {r}) \cup {q}
    PROVE  runs' \in SUBSET Run
BY DEF TypeOK

LEMMA StepType ==
    ASSUME TypeOK, NEW r \in runs, NEW from, NEW to \in Phases, Step(r, from, to)
    PROVE  runs' \in SUBSET Run
<1>1. r \in Run
  BY DEF TypeOK
<1>2. [r EXCEPT !.phase = to] \in Run
  BY <1>1 DEF Run
<1> QED
  BY <1>2, RunsType DEF Step

LEMMA HeadAndTail ==
    ASSUME NEW S, NEW q \in Seq(S), q # <<>>
    PROVE  Head(q) \in S /\ Tail(q) \in Seq(S)
OBVIOUS

LEMMA NextRowType ==
    ASSUME NEW t \in PollTask, t.rows # <<>>
    PROVE  Head(t.rows) \in Row /\ Tail(t.rows) \in Seq(Row)
<1>1. t.rows \in Seq(Row)
  BY DEF PollTask
<1> QED
  BY <1>1, HeadAndTail

LEMMA TypeInit == Init => TypeOK
<1> SUFFICES ASSUME Init PROVE TypeOK
  OBVIOUS
<1>1. IdleLoop \in [at : {"select", "cron", "insert", "heartbeat"},
                    todo : SUBSET (Jobs \cup Slugs), slug : Slugs \cup {None}]
  BY DEF IdleLoop
<1> QED
  BY <1>1, IdlePollType, JobsAssumption DEF Init, TypeOK, Statuses, Clock

LEMMA TypeNext == TypeOK /\ [Next]_vars => TypeOK'
<1> SUFFICES ASSUME TypeOK, [Next]_vars PROVE TypeOK'
  OBVIOUS
<1> USE JobsAssumption DEF TypeOK, Statuses, Clock
<1>1. CASE Request
  <2>1. ASSUME NEW j \in Jobs, Enqueue(j) PROVE TypeOK'
    BY <2>1 DEF Enqueue, insert_job, server
  <2>2. ASSUME NEW S, Cancel(S) PROVE TypeOK'
    BY <2>2 DEF Cancel, cancel_pending_jobs, DeleteRows, Pending, server
  <2>3. CASE Purge
    BY <2>3 DEF Purge, purge_old_jobs, DeleteRows, server, Terminal
  <2> QED
    BY <1>1, <2>1, <2>2, <2>3 DEF Request
<1>2. CASE Process
  <2>1. CASE Start
    BY <2>1 DEF Start, table, find_stale_jobs, Running
  <2>2. ASSUME NEW j \in Jobs, MarkStale(j) PROVE TypeOK'
    BY <2>2 DEF MarkStale, SetStatus
  <2>3. CASE Recovered
    BY <2>3 DEF Recovered, table
  <2>4. CASE Shutdown
    BY <2>4 DEF Shutdown, table
  <2>5. CASE ProcessEnds
    BY <2>5, IdlePollType DEF ProcessEnds, table, IdleLoop
  <2> QED
    BY <1>2, <2>1, <2>2, <2>3, <2>4, <2>5 DEF Process, Exit, Crash
<1>3. ASSUME NEW p \in Pollers, PollStep(p) \/ PollFails(p) PROVE TypeOK'
  <2>a. poll[p] \in PollTask /\ runs \in SUBSET Run /\ tracked \in SUBSET Jobs
    OBVIOUS
  <2>1. CASE PollTick(p)
    <3>1. [poll[p] EXCEPT !.pc = "spawned"] \in PollTask
      BY <2>a DEF PollTask
    <3> QED
      BY <2>1, <2>a, <3>1, PollStepType DEF PollTick
  <2>2. CASE PollCount(p)
    <3> DEFINE n == Cardinality(Running)
               r == IF n >= MaxConcurrent THEN IdlePoll
                    ELSE [poll[p] EXCEPT !.pc = "counted", !.avail = MaxConcurrent - n]
    <3>1. n \in Nat
      BY CountsAreNat DEF Running
    <3>2. r \in PollTask
      <4>1. CASE n >= MaxConcurrent
        BY <4>1, IdlePollType
      <4>2. CASE ~(n >= MaxConcurrent)
        <5>1. MaxConcurrent - n \in Nat
          BY <3>1, <4>2
        <5> HIDE DEF n
        <5> QED
          BY <2>a, <4>2, <5>1 DEF PollTask
      <4> QED
        BY <4>1, <4>2
    <3>3. SetPoll(p, r)
      BY <2>2 DEF PollCount, AtCapacity
    <3> HIDE DEF r
    <3> QED
      BY <2>2, <2>a, <3>2, <3>3, PollStepType DEF PollCount, AtCapacity
  <2>3. CASE PollCountSlugs(p)
    <3> DEFINE c == [s \in Slugs |-> Cardinality(RunningOf(s))]
    <3>1. c \in [Slugs -> Nat]
      BY CountsAreNat DEF RunningOf, Running
    <3>2. SetPoll(p, [poll[p] EXCEPT !.pc = "ready", !.counts = c])
      BY <2>3 DEF PollCountSlugs
    <3> HIDE DEF c
    <3>3. [poll[p] EXCEPT !.pc = "ready", !.counts = c] \in PollTask
      BY <2>a, <3>1 DEF PollTask
    <3> QED
      BY <2>3, <2>a, <3>2, <3>3, PollStepType DEF PollCountSlugs
  <2>4. CASE PollSelect(p)
    <3>1. PICK b \in Batches(poll[p].avail) :
             SetPoll(p, [poll[p] EXCEPT !.pc = "claiming",
                            !.rows = [i \in DOMAIN b |-> [job |-> b[i], attempt |-> attempt[b[i]]]]])
      BY <2>4 DEF PollSelect
    <3> DEFINE rows == [i \in DOMAIN b |-> [job |-> b[i], attempt |-> attempt[b[i]]]]
    <3>2. PICK n \in Nat : b \in [1 .. n -> Jobs]
      <4>1. poll[p].avail \in Nat /\ Cardinality(Pending) \in Nat /\ Pending \subseteq Jobs
        BY <2>a, CountsAreNat DEF PollTask, Pending
      <4> QED
        BY <4>1 DEF Batches
    <3>3. rows \in Seq(Row)
      BY <3>2 DEF Row
    <3> HIDE DEF rows
    <3>4. [poll[p] EXCEPT !.pc = "claiming", !.rows = rows] \in PollTask
      BY <2>a, <3>3 DEF PollTask
    <3>5. SetPoll(p, [poll[p] EXCEPT !.pc = "claiming", !.rows = rows])
      BY <3>1 DEF rows
    <3> QED
      BY <2>4, <2>a, <3>4, <3>5, PollStepType DEF PollSelect
  <2>5. CASE ClaimRow(p)
    <3> DEFINE row  == Head(poll[p].rows)
               s    == SlugOf[row.job]
               rest == [poll[p] EXCEPT !.rows = Tail(@)]
    <3>0. MayClaim(p)
      BY <2>5, Zenon DEF ClaimRow
    <3>1. poll[p].rows \in Seq(Row) /\ poll[p].rows # <<>> /\ poll[p].avail \in Nat \ {0}
      BY <3>0, <2>a DEF MayClaim, PollTask
    <3>2. row \in Row /\ Tail(poll[p].rows) \in Seq(Row)
      BY <2>a, <3>1, NextRowType
    <3> HIDE DEF row
    <3>3. row.job \in Jobs /\ row.attempt \in Nat
      BY <3>2 DEF Row
    <3>4. s \in Slugs
      BY <3>3
    <3> DEFINE claimed == [rest EXCEPT !.avail = @ - 1, !.counts[s] = @ + 1]
               run     == [job |-> row.job, seq |-> attempt[row.job] + 1,
                           attempt |-> row.attempt + 1, phase |-> "claimed",
                           by |-> p]
    <3> HIDE DEF s
    <3>5. rest \in PollTask
      BY <2>a, <3>2 DEF PollTask
    <3>6. claimed \in PollTask
      <4>1. poll[p].avail - 1 \in Nat
        BY <3>1
      <4>2. [poll[p].counts EXCEPT ![s] = @ + 1] \in [Slugs -> Nat]
        <5>1. poll[p].counts \in [Slugs -> Nat]
          BY <2>a DEF PollTask
        <5> QED
          BY <3>4, <5>1
      <4> QED
        BY <2>a, <3>2, <4>1, <4>2 DEF PollTask
    <3>7. run \in Run
      BY <3>3 DEF Run, Phases, Owning
    <3>8. UNCHANGED <<process, tracked>>
          /\ \/ SetPoll(p, rest) /\ UNCHANGED <<table, runs>>
             \/ /\ status' = [status EXCEPT ![row.job] = "running"]
                /\ heartbeat' = [heartbeat EXCEPT ![row.job] = now]
                /\ attempt' = [attempt EXCEPT ![row.job] = @ + 1]
                /\ runs' = runs \cup {run}
                /\ SetPoll(p, claimed)
                /\ UNCHANGED <<created, commits>>
      BY <2>5 DEF ClaimRow, MayClaim, Claimable, CountClaim, row, s
    <3> HIDE DEF rest, claimed, run
    <3>9. CASE SetPoll(p, rest) /\ UNCHANGED <<table, runs>>
      BY <2>a, <3>5, <3>8, <3>9, PollStepType
    <3>10. CASE /\ status' = [status EXCEPT ![row.job] = "running"]
                /\ heartbeat' = [heartbeat EXCEPT ![row.job] = now]
                /\ attempt' = [attempt EXCEPT ![row.job] = @ + 1]
                /\ runs' = runs \cup {run}
                /\ SetPoll(p, claimed)
                /\ UNCHANGED <<created, commits>>
      <4>1. poll' \in [Pollers -> PollTask]
        BY <3>6, <3>10 DEF SetPoll
      <4>2. status' \in [Jobs -> Statuses]
        BY <3>10
      <4>3. attempt' \in [Jobs -> Nat]
        BY <3>3, <3>10
      <4>5. heartbeat' \in [Jobs -> Clock]
        BY <3>10
      <4>4. runs' \in SUBSET Run
        BY <2>a, <3>7, <3>10
      <4> QED
        BY <3>8, <3>10, <4>1, <4>2, <4>3, <4>4, <4>5 DEF process
    <3> QED
      BY <3>8, <3>9, <3>10
  <2>6. CASE PollClaimed(p)
    <3>1. [IdlePoll EXCEPT !.pc = "dispatching"] \in PollTask
      BY IdlePollType DEF PollTask
    <3> QED
      BY <2>6, <2>a, <3>1, PollStepType DEF PollClaimed
  <2>7. CASE Dispatch(p)
    <3>1. PICK r \in ClaimedBy(p) :
             IF SlugOf[r.job] \in defined
             THEN /\ tracked' = tracked \cup {r.job}
                  /\ runs' = (runs \ {r}) \cup {[r EXCEPT !.phase = "spawned", !.by = None]}
                  /\ UNCHANGED table
             ELSE /\ \/ SetStatus(r.job, "failed")
                     \/ Faults /\ UNCHANGED status
                  /\ runs' = runs \ {r}
                  /\ UNCHANGED <<attempt, created, heartbeat, commits, tracked>>
      BY <2>7 DEF Dispatch
    <3>2. r \in runs /\ r \in Run /\ r.job \in Jobs
      BY DEF ClaimedBy, Run
    <3>3. CASE SlugOf[r.job] \in defined
      <4>1. [r EXCEPT !.phase = "spawned", !.by = None] \in Run
        BY <3>2 DEF Run, Phases, Owning
      <4>2. runs' \in SUBSET Run
        BY <3>1, <3>2, <3>3, <4>1, RunsType
      <4> QED
        BY <2>7, <3>1, <3>2, <3>3, <4>2 DEF Dispatch, table, process
    <3>4. CASE SlugOf[r.job] \notin defined
      <4>1. status' \in [Jobs -> Statuses] /\ runs' \in SUBSET Run
        BY <3>1, <3>4 DEF SetStatus
      <4> QED
        BY <2>7, <3>1, <3>4, <4>1 DEF Dispatch, process
    <3> QED
      BY <3>3, <3>4
  <2>8. CASE PollDone(p)
    BY <2>8, <2>a, IdlePollType, PollStepType DEF PollDone
  <2>9. CASE PollFails(p)
    <3>1. runs' \in SUBSET Run
      BY <2>9 DEF PollFails
    <3> QED
      BY <2>9, <2>a, <3>1, IdlePollType, PollStepType DEF PollFails
  <2> QED
    BY <1>3, <2>1, <2>2, <2>3, <2>4, <2>5, <2>6, <2>7, <2>8, <2>9 DEF PollStep
<1>4. ASSUME NEW r \in runs, WorkerStep(r) \/ WorkerFails(r) \/ Panic(r) PROVE TypeOK'
  <2>1. r \in Run /\ r.job \in Jobs
    BY DEF Run
  <2>2. {"handling", "committed", "erred", "ending"} \subseteq Phases
    BY DEF Phases, Owning
  <2>3. CASE WorkerBegin(r)
    <3>1. runs' \in SUBSET Run
      BY <2>2, <2>3, StepType DEF WorkerBegin
    <3> QED
      BY <2>3, <3>1 DEF WorkerBegin, table, process
  <2>4. CASE HandlerOk(r)
    <3>1. runs' \in SUBSET Run
      BY <2>2, <2>4, StepType DEF HandlerOk
    <3>2. commits' \in [Jobs -> Nat]
      BY <2>1, <2>4 DEF HandlerOk
    <3> QED
      BY <2>4, <3>1, <3>2 DEF HandlerOk, process
  <2>5. CASE HandlerErr(r)
    <3>1. runs' \in SUBSET Run
      BY <2>2, <2>5, StepType DEF HandlerErr
    <3> QED
      BY <2>5, <3>1 DEF HandlerErr, table, process
  <2>6. CASE complete_job(r)
    <3>1. runs' \in SUBSET Run
      BY <2>2, <2>6, StepType DEF complete_job
    <3>2. status' \in [Jobs -> Statuses]
      BY <2>1, <2>6 DEF complete_job, SetStatus
    <3> QED
      BY <2>6, <3>1, <3>2 DEF complete_job, process
  <2>7. CASE fail_job(r)
    <3>1. runs' \in SUBSET Run
      BY <2>2, <2>7, StepType DEF fail_job
    <3>2. status' \in [Jobs -> Statuses]
      BY <2>1, <2>7 DEF fail_job, should_retry, SetStatus
    <3> QED
      BY <2>7, <3>1, <3>2 DEF fail_job, should_retry, process
  <2>8. CASE WorkerFails(r)
    <3>1. runs' \in SUBSET Run
      BY <2>2, <2>8, StepType DEF WorkerFails
    <3> QED
      BY <2>8, <3>1 DEF WorkerFails, table, process
  <2>9. CASE Untrack(r)
    BY <2>9 DEF Untrack, table, process
  <2>10. CASE Panic(r)
    BY <2>10 DEF Panic, table, process
  <2> QED
    BY <1>4, <2>3, <2>4, <2>5, <2>6, <2>7, <2>8, <2>9, <2>10 DEF WorkerStep
<1>5. CASE LoopStep \/ CronFails
  <2> DEFINE Loops == [at : {"select", "cron", "insert", "heartbeat"},
                       todo : SUBSET (Jobs \cup Slugs), slug : Slugs \cup {None}]
  <2>1. IdleLoop \in Loops
    BY DEF IdleLoop
  <2>2. CASE CronTick
    <3>1. loop' \in Loops
      BY <2>2 DEF CronTick
    <3> QED
      BY <2>2, <3>1 DEF CronTick, table, others
  <2>3. ASSUME NEW s \in Slugs, CronCheck(s) PROVE TypeOK'
    <3>1. loop' \in Loops
      BY <2>3 DEF CronCheck
    <3> QED
      BY <2>3, <3>1 DEF CronCheck, table, others
  <2>4. CASE CronInsert
    <3>1. UNCHANGED table \/ \E j \in Jobs : insert_job(j)
      BY <2>4 DEF CronInsert
    <3>2. loop' \in Loops
      BY <2>4 DEF CronInsert
    <3> QED
      BY <2>4, <3>1, <3>2 DEF CronInsert, insert_job, table, others
  <2>5. CASE CronFails
    BY <2>1, <2>5 DEF CronFails, table, others
  <2>6. CASE CronEnd
    BY <2>1, <2>6 DEF CronEnd, purge_old_jobs, DeleteRows, table, others
  <2>7. CASE HeartbeatTick
    <3>1. loop' \in Loops
      BY <2>7 DEF HeartbeatTick
    <3> QED
      BY <2>7, <3>1 DEF HeartbeatTick, table, others
  <2>8. ASSUME NEW j \in Jobs, update_heartbeat(j) PROVE TypeOK'
    BY <2>8 DEF update_heartbeat, others
  <2>9. CASE HeartbeatEnd
    BY <2>1, <2>9 DEF HeartbeatEnd, table, others
  <2> QED
    BY <1>5, <2>2, <2>3, <2>4, <2>5, <2>6, <2>7, <2>8, <2>9 DEF LoopStep
<1>6. CASE Tick
  BY <1>6 DEF Tick, table, server
<1>7. CASE UNCHANGED vars
  BY <1>7 DEF vars
<1> QED
  BY <1>1, <1>2, <1>3, <1>4, <1>5, <1>6, <1>7 DEF Next

(* The table, the scheduler and its threads stay within their types. *)
THEOREM TypeCorrect == Spec => []TypeOK
<1> QED
  BY TypeInit, TypeNext, PTL DEF Spec

-----------------------------------------------------------------------------
(* Ownership of rows *)

LEMMA OwnershipInit == Init => OwnershipInv
BY TypeInit DEF Init, OwnershipInv, RunsOwnRows, EffectsOnce, Offline, StaleUnowned,
                PhaseTellsEffects, IdlePoll

(* The phase of a run moves on and its row stays as it is. *)
LEMMA RunMoves ==
    ASSUME OwnershipInv, NEW r \in runs, NEW q \in Run,
           q.job = r.job, q.seq = r.seq, q.phase \in Owning => r.phase \in Owning,
           runs' = (runs \ {r}) \cup {q}, UNCHANGED <<status, attempt>>
    PROVE  RunsOwnRows'
BY DEF OwnershipInv, TypeOK, RunsOwnRows, Run

(* A run that is in hand gives up its row. *)
LEMMA RunEnds ==
    ASSUME OwnershipInv, NEW r \in runs, r.phase \in Owning,
           \A q \in runs' : q \in runs \ {r} \/ q.phase = "ending",
           \A j \in Jobs \ {r.job} : status'[j] = status[j],
           UNCHANGED attempt
    PROVE  RunsOwnRows'
BY DEF OwnershipInv, TypeOK, RunsOwnRows, Run, Owning

LEMMA OwnershipNext == OwnershipInv /\ [Next]_vars => OwnershipInv'
<1> SUFFICES ASSUME OwnershipInv, [Next]_vars PROVE OwnershipInv'
  OBVIOUS
<1>t. TypeOK /\ TypeOK'
  BY TypeNext DEF OwnershipInv
<1>r. \A r \in runs : r \in Run /\ r.job \in Jobs
  BY <1>t DEF TypeOK, Run
<1> DEFINE Rest == RunsOwnRows /\ EffectsOnce /\ Offline /\ StaleUnowned /\ PhaseTellsEffects
<1> SUFFICES Rest'
  BY <1>t DEF OwnershipInv
<1> USE DEF OwnershipInv, EffectsOnce, Offline, StaleUnowned, PhaseTellsEffects
<1>1. CASE Request
  <2>1. ASSUME NEW j \in Jobs, Enqueue(j) PROVE Rest'
    BY <2>1, <1>t, <1>r DEF Enqueue, insert_job, server, RunsOwnRows, TypeOK
  <2>2. ASSUME NEW S, Cancel(S) PROVE Rest'
    BY <2>2, <1>t, <1>r DEF Cancel, cancel_pending_jobs, DeleteRows, Pending, server, RunsOwnRows, TypeOK
  <2>3. CASE Purge
    BY <2>3, <1>t, <1>r DEF Purge, purge_old_jobs, DeleteRows, server, Terminal, RunsOwnRows, TypeOK
  <2> QED
    BY <1>1, <2>1, <2>2, <2>3 DEF Request
<1>2. CASE Process
  <2>1. CASE Start
    BY <2>1, <1>t, <1>r DEF Start, table, find_stale_jobs, Running, RunsOwnRows, TypeOK
  <2>2. ASSUME NEW j \in Jobs, MarkStale(j) PROVE Rest'
    BY <2>2, <1>t, <1>r DEF MarkStale, SetStatus, RunsOwnRows, TypeOK
  <2>3. CASE Recovered
    BY <2>3, <1>t, <1>r DEF Recovered, table, RunsOwnRows, TypeOK
  <2>4. CASE Shutdown
    BY <2>4, <1>t, <1>r DEF Shutdown, table, RunsOwnRows, TypeOK
  <2>5. CASE ProcessEnds
    BY <2>5, <1>t, <1>r DEF ProcessEnds, table, IdlePoll, RunsOwnRows, TypeOK
  <2> QED
    BY <1>2, <2>1, <2>2, <2>3, <2>4, <2>5 DEF Process, Exit, Crash
<1>3. ASSUME NEW p \in Pollers, PollStep(p) \/ PollFails(p) PROVE Rest'
  <2>a. poll[p] \in PollTask
    BY <1>t DEF TypeOK
  <2>b. mode \in {"up", "stopping"}
    BY <1>3, <1>t DEF PollStep, PollFails, PollTick, PollCount, AtCapacity, PollCountSlugs, PollSelect,
       ClaimRow, MayClaim, Claimable, CountClaim, PollClaimed, Dispatch, PollDone, TypeOK
  <2>1. CASE UNCHANGED <<table, process, runs, tracked>>
    BY <2>1, <2>b, <1>t, <1>r DEF table, process, RunsOwnRows
  <2>2. CASE ClaimRow(p)
    <3> DEFINE row == Head(poll[p].rows)
               run == [job |-> row.job, seq |-> attempt[row.job] + 1,
                       attempt |-> row.attempt + 1, phase |-> "claimed",
                       by |-> p]
    <3>1. row.job \in Jobs
      <4>1. poll[p].rows \in Seq(Row) /\ poll[p].rows # <<>>
        BY <2>a, <2>2 DEF ClaimRow, MayClaim, Claimable, CountClaim, PollTask
      <4>2. row \in Row
        BY <4>1
      <4> QED
        BY <4>2 DEF Row
    <3>2. UNCHANGED process
          /\ \/ UNCHANGED <<table, runs>>
             \/ /\ status[row.job] = "pending"
                /\ status' = [status EXCEPT ![row.job] = "running"]
                /\ attempt' = [attempt EXCEPT ![row.job] = @ + 1]
                /\ runs' = runs \cup {run}
                /\ UNCHANGED commits
      BY <2>2 DEF ClaimRow, MayClaim, Claimable, CountClaim
    <3>3. run.job = row.job /\ run.phase = "claimed" /\ run.seq = attempt[row.job] + 1
      OBVIOUS
    <3> HIDE DEF row, run
    <3>4. RunsOwnRows'
      BY <3>1, <3>2, <3>3, <1>t, <1>r DEF RunsOwnRows, TypeOK, table
    <3> QED
      BY <3>1, <3>2, <3>3, <3>4, <2>b, <1>t, <1>r DEF TypeOK, table, process, Owning
  <2>3. CASE Dispatch(p)
    <3>1. PICK r \in ClaimedBy(p) :
             IF SlugOf[r.job] \in defined
             THEN /\ tracked' = tracked \cup {r.job}
                  /\ runs' = (runs \ {r}) \cup {[r EXCEPT !.phase = "spawned", !.by = None]}
                  /\ UNCHANGED table
             ELSE /\ \/ SetStatus(r.job, "failed")
                     \/ Faults /\ UNCHANGED status
                  /\ runs' = runs \ {r}
                  /\ UNCHANGED <<attempt, created, heartbeat, commits, tracked>>
      BY <2>3 DEF Dispatch
    <3>2. r \in runs /\ r \in Run /\ r.job \in Jobs /\ r.phase = "claimed"
      BY <1>r DEF ClaimedBy
    <3>3. UNCHANGED process
      BY <2>3 DEF Dispatch
    <3>4. CASE SlugOf[r.job] \in defined
      <4> DEFINE q == [r EXCEPT !.phase = "spawned", !.by = None]
      <4>1. q \in Run /\ q.job = r.job /\ q.seq = r.seq /\ q.phase = "spawned"
        BY <3>2 DEF Run, Phases, Owning
      <4>2. runs' = (runs \ {r}) \cup {q} /\ UNCHANGED table
        BY <3>1, <3>4
      <4> HIDE DEF q
      <4>3. RunsOwnRows'
        BY <4>1, <4>2, <3>2, RunMoves DEF Owning, table
      <4> QED
        BY <4>1, <4>2, <4>3, <3>2, <3>3, <2>b DEF table, process, Owning
    <3>5. CASE SlugOf[r.job] \notin defined
      <4>1. runs' = runs \ {r} /\ UNCHANGED <<attempt, commits>>
            /\ (SetStatus(r.job, "failed") \/ UNCHANGED status)
        BY <3>1, <3>5
      <4>2. RunsOwnRows'
        BY <4>1, <3>2, <1>t, RunEnds DEF SetStatus, TypeOK, Owning
      <4> QED
        BY <4>1, <4>2, <3>2, <3>3, <2>b, <1>t DEF process, SetStatus, TypeOK, Owning
    <3> QED
      BY <3>4, <3>5
  <2>4. CASE PollFails(p)
    BY <2>4, <2>b, <1>t, <1>r DEF PollFails, table, process, RunsOwnRows
  <2> QED
    BY <1>3, <2>1, <2>2, <2>3, <2>4 DEF PollStep, PollTick, PollCount, AtCapacity, PollCountSlugs,
       PollSelect, PollClaimed, PollDone
<1>4. ASSUME NEW r \in runs, WorkerStep(r) \/ WorkerFails(r) \/ Panic(r) PROVE Rest'
  <2>a. mode \in {"up", "stopping"}
    BY <1>t DEF TypeOK
  <2>b. r \in Run /\ r.job \in Jobs
    BY <1>r
  <2>c. \A ph \in Phases : LET q == [r EXCEPT !.phase = ph]
                           IN  q \in Run /\ q.job = r.job /\ q.seq = r.seq /\ q.phase = ph
    BY <2>b DEF Run
  <2>1. CASE WorkerBegin(r)
    <3> DEFINE q == [r EXCEPT !.phase = "handling"]
    <3>1. q \in Run /\ q.job = r.job /\ q.seq = r.seq /\ q.phase = "handling"
      BY <2>b, <1>t DEF Run, Phases, Owning, TypeOK
    <3>2. r.phase = "spawned" /\ runs' = (runs \ {r}) \cup {q} /\ UNCHANGED <<table, process>>
      BY <2>1 DEF WorkerBegin, Step
    <3> HIDE DEF q
    <3>3. RunsOwnRows'
      BY <3>1, <3>2, RunMoves DEF Owning, table
    <3> QED
      BY <3>1, <3>2, <3>3, <2>a DEF table, process, Owning
  <2>2. CASE HandlerOk(r)
    <3> DEFINE q == [r EXCEPT !.phase = "committed"]
    <3>1. q \in Run /\ q.job = r.job /\ q.seq = r.seq /\ q.phase = "committed"
      BY <2>c DEF Phases, Owning
    <3>2. /\ r.phase = "handling" /\ runs' = (runs \ {r}) \cup {q}
          /\ commits' = [commits EXCEPT ![r.job] = @ + 1]
          /\ UNCHANGED <<status, attempt, process>>
      BY <2>2 DEF HandlerOk, Step
    <3> HIDE DEF q
    <3>3. RunsOwnRows'
      BY <3>1, <3>2, RunMoves DEF Owning
    <3>4. commits[r.job] = 0 /\ status[r.job] = "running"
      BY <3>2 DEF RunsOwnRows, Owning
    <3>5. \A x \in runs \ {r} : x.phase \in Owning => x.job # r.job
      BY <3>2 DEF RunsOwnRows, Owning
    <3> QED
      BY <3>1, <3>2, <3>3, <3>4, <3>5, <2>a, <2>b, <1>t, <1>r DEF process, Owning, TypeOK
  <2>3. CASE HandlerErr(r)
    <3> DEFINE q == [r EXCEPT !.phase = "erred"]
    <3>1. q \in Run /\ q.job = r.job /\ q.seq = r.seq /\ q.phase = "erred"
      BY <2>c DEF Phases, Owning
    <3>2. r.phase = "handling" /\ runs' = (runs \ {r}) \cup {q} /\ UNCHANGED <<table, process>>
      BY <2>3 DEF HandlerErr, Step
    <3> HIDE DEF q
    <3>3. RunsOwnRows'
      BY <3>1, <3>2, RunMoves DEF Owning, table
    <3> QED
      BY <3>1, <3>2, <3>3, <2>a DEF table, process, Owning
  <2>4. CASE complete_job(r) \/ fail_job(r) \/ WorkerFails(r)
    <3> DEFINE q == [r EXCEPT !.phase = "ending"]
    <3>1. q \in Run /\ q.job = r.job /\ q.seq = r.seq /\ q.phase = "ending"
      BY <2>c DEF Phases, Owning
    <3>2. /\ runs' = (runs \ {r}) \cup {q} /\ UNCHANGED <<commits, attempt, process>>
          /\ r.phase \in Owning
          /\ \/ r.phase = "committed" /\ SetStatus(r.job, "completed")
             \/ r.phase = "erred" /\ \E s \in {"pending", "failed"} : SetStatus(r.job, s)
             \/ UNCHANGED status
      BY <2>4 DEF complete_job, fail_job, should_retry, WorkerFails, Step, table, Owning
    <3> HIDE DEF q
    <3>3. RunsOwnRows'
      BY <3>1, <3>2, <1>t, RunEnds DEF SetStatus, TypeOK
    <3>4. r.phase \in {"committed", "erred"} => status[r.job] = "running"
      BY DEF RunsOwnRows, Owning
    <3> QED
      BY <3>1, <3>2, <3>3, <3>4, <2>a, <2>b, <1>t DEF process, Owning, SetStatus, TypeOK
  <2>5. CASE Untrack(r) \/ Panic(r)
    BY <2>5, <2>a, <1>t, <1>r DEF Untrack, Panic, table, process, RunsOwnRows
  <2> QED
    BY <1>4, <2>1, <2>2, <2>3, <2>4, <2>5 DEF WorkerStep
<1>5. CASE LoopStep \/ CronFails
  <2>1. UNCHANGED others
    BY <1>5 DEF LoopStep, CronFails, CronTick, CronCheck, CronInsert, CronEnd, HeartbeatTick,
       update_heartbeat, HeartbeatEnd
  <2>2. CASE UNCHANGED <<status, attempt, commits>>
    BY <2>1, <2>2 DEF others, RunsOwnRows
  <2>3. CASE \E j \in Jobs : insert_job(j)
    BY <2>1, <2>3, <1>t, <1>r DEF others, insert_job, RunsOwnRows, TypeOK
  <2>4. CASE purge_old_jobs
    BY <2>1, <2>4, <1>t, <1>r DEF others, purge_old_jobs, DeleteRows, Terminal, RunsOwnRows, TypeOK
  <2> QED
    BY <1>5, <2>2, <2>3, <2>4 DEF LoopStep, CronFails, CronTick, CronCheck, CronInsert, CronEnd,
       HeartbeatTick, update_heartbeat, HeartbeatEnd, table
<1>6. CASE Tick
  BY <1>6 DEF Tick, table, server, RunsOwnRows
<1>7. CASE UNCHANGED vars
  BY <1>7 DEF vars, RunsOwnRows
<1> QED
  BY <1>1, <1>2, <1>3, <1>4, <1>5, <1>6, <1>7 DEF Next

LEMMA OwnershipCorrect == Spec => []OwnershipInv
<1> QED
  BY OwnershipInit, OwnershipNext, PTL DEF Spec

(* One row is never in two threads, with any number of overlapping poll    *)
(* tasks, retries, errors, panics and crashes.                             *)
THEOREM SingleOwner == Spec => []RunsOwnRows
<1>1. OwnershipInv => RunsOwnRows
  BY DEF OwnershipInv
<1> QED
  BY <1>1, OwnershipCorrect, PTL

(* The effects of a handler are committed at most once, and exactly for    *)
(* the rows reported completed.                                            *)
THEOREM AtMostOnce == Spec => []EffectsOnce
<1>1. OwnershipInv => EffectsOnce
  BY DEF OwnershipInv
<1> QED
  BY <1>1, OwnershipCorrect, PTL

-----------------------------------------------------------------------------
(* Refinement *)

LEMMA RefineInit == Init => Lifecycle!Init
BY DEF Init, Lifecycle!Init

LEMMA RefineNext ==
    OwnershipInv /\ [Next]_vars => [Lifecycle!Next]_Lifecycle!lcVars
<1> SUFFICES ASSUME OwnershipInv, [Next]_vars, ~UNCHANGED <<status, commits>>
             PROVE  Lifecycle!Next
  BY DEF Lifecycle!lcVars
<1>t. TypeOK /\ RunsOwnRows /\ EffectsOnce /\ PhaseTellsEffects /\ StaleUnowned
  BY DEF OwnershipInv
<1>r. \A r \in runs : r \in Run /\ r.job \in Jobs
  BY <1>t DEF TypeOK, Run
<1> USE DEF Lifecycle!Become
<1>i. ASSUME NEW j \in Jobs, insert_job(j) PROVE Lifecycle!Next
  <2>1. Lifecycle!Submit(j)
    BY <1>i DEF insert_job, Lifecycle!Submit
  <2> QED
    BY <2>1 DEF Lifecycle!Next
<1>d. ASSUME NEW S \in SUBSET Jobs, DeleteRows(S),
             \A j \in S : status[j] \in {"pending"} \cup Terminal
      PROVE  Lifecycle!Next
  <2>1. Lifecycle!Delete(S)
    BY <1>d DEF DeleteRows, Lifecycle!Delete, Lifecycle!Terminal, Terminal
  <2> QED
    BY <2>1 DEF Lifecycle!Next
<1>1. CASE Request
  <2>1. ASSUME NEW S, Cancel(S) PROVE Lifecycle!Next
    BY <2>1, <1>d DEF Cancel, cancel_pending_jobs, Pending
  <2>2. CASE Purge
    BY <2>2, <1>d DEF Purge, purge_old_jobs
  <2> QED
    BY <1>1, <1>i, <2>1, <2>2 DEF Request, Enqueue
<1>2. CASE Process
  <2>1. ASSUME NEW j \in Jobs, MarkStale(j) PROVE Lifecycle!Next
    <3>1. Lifecycle!Abandon(j)
      BY <2>1, <1>t DEF MarkStale, SetStatus, StaleUnowned, TypeOK, Lifecycle!Abandon
    <3> QED
      BY <3>1 DEF Lifecycle!Next
  <2> QED
    BY <1>2, <2>1 DEF Process, Start, Recovered, Shutdown, Exit, Crash, ProcessEnds, table
<1>3. ASSUME NEW p \in Pollers, PollStep(p) \/ PollFails(p) PROVE Lifecycle!Next
  <2>1. CASE ClaimRow(p)
    <3> DEFINE j == Head(poll[p].rows).job
    <3>1. status[j] = "pending" /\ status' = [status EXCEPT ![j] = "running"] /\ UNCHANGED commits
      BY <2>1 DEF ClaimRow, MayClaim, Claimable, CountClaim, table
    <3> HIDE DEF j
    <3>2. j \in Jobs
      BY <3>1, <1>t DEF TypeOK
    <3>3. Lifecycle!Claim(j)
      BY <3>1 DEF Lifecycle!Claim
    <3> QED
      BY <3>2, <3>3 DEF Lifecycle!Next
  <2>2. CASE Dispatch(p)
    <3>1. PICK r \in ClaimedBy(p) : SetStatus(r.job, "failed") /\ UNCHANGED commits
      BY <2>2 DEF Dispatch, table
    <3>2. r \in runs /\ r.job \in Jobs /\ r.phase = "claimed"
      BY <1>r DEF ClaimedBy
    <3>3. Lifecycle!Fail(r.job)
      BY <3>1, <3>2, <1>t DEF SetStatus, RunsOwnRows, PhaseTellsEffects, Owning, TypeOK, Lifecycle!Fail
    <3> QED
      BY <3>2, <3>3 DEF Lifecycle!Next
  <2> QED
    BY <1>3, <2>1, <2>2 DEF PollStep, PollFails, PollTick, PollCount, AtCapacity, PollCountSlugs, PollSelect,
       PollClaimed, PollDone, table
<1>4. ASSUME NEW r \in runs, WorkerStep(r) \/ WorkerFails(r) \/ Panic(r) PROVE Lifecycle!Next
  <2>a. /\ r.job \in Jobs
        /\ r.phase \in Owning => status[r.job] = "running"
        /\ r.phase \in Owning \ {"committed"} => commits[r.job] = 0
        /\ r.phase = "committed" => commits[r.job] = 1
    BY <1>r, <1>t DEF RunsOwnRows, PhaseTellsEffects
  <2>1. CASE HandlerOk(r)
    <3>a. commits[r.job] = 0 /\ status[r.job] = "running"
      BY <2>1, <2>a DEF HandlerOk, Step, Owning
    <3>b. commits' = [commits EXCEPT ![r.job] = @ + 1] /\ UNCHANGED status
      BY <2>1 DEF HandlerOk
    <3>1. Lifecycle!Apply(r.job)
      BY <3>a, <3>b DEF Lifecycle!Apply
    <3> QED
      BY <2>a, <3>1 DEF Lifecycle!Next
  <2>2. CASE complete_job(r)
    <3>1. Lifecycle!Complete(r.job)
      BY <2>2, <2>a, <1>t DEF complete_job, Step, SetStatus, Owning, TypeOK, Lifecycle!Complete
    <3> QED
      BY <2>a, <3>1 DEF Lifecycle!Next
  <2>3. CASE fail_job(r)
    <3>1. \/ Lifecycle!Retry(r.job)
          \/ Lifecycle!Fail(r.job)
      BY <2>3, <2>a, <1>t DEF fail_job, should_retry, Step, SetStatus, Owning, TypeOK,
         Lifecycle!Retry, Lifecycle!Fail
    <3> QED
      BY <2>a, <3>1 DEF Lifecycle!Next
  <2> QED
    BY <1>4, <2>1, <2>2, <2>3 DEF WorkerStep, WorkerBegin, Step, HandlerErr, Untrack, WorkerFails, Panic, table
<1>5. CASE LoopStep \/ CronFails
  <2>1. CASE CronInsert
    BY <2>1, <1>i DEF CronInsert, table
  <2>2. CASE CronEnd
    BY <2>2, <1>d DEF CronEnd, purge_old_jobs, table
  <2> QED
    BY <1>5, <2>1, <2>2 DEF LoopStep, CronFails, CronTick, CronCheck, HeartbeatTick,
       update_heartbeat, HeartbeatEnd, table
<1>6. CASE Tick
  BY <1>6 DEF Tick, table
<1>7. CASE UNCHANGED vars
  BY <1>7 DEF vars
<1> QED
  BY <1>1, <1>2, <1>3, <1>4, <1>5, <1>6, <1>7 DEF Next

(* The job system implements the life of a row that JobLifecycle promises. *)
THEOREM Refinement == Spec => RefinesLifecycle
<1>1. Init => Lifecycle!Init
  BY RefineInit
<1>2. OwnershipInv /\ [Next]_vars => [Lifecycle!Next]_Lifecycle!lcVars
  BY RefineNext
<1> QED
  BY <1>1, <1>2, OwnershipCorrect, PTL DEF Spec, RefinesLifecycle, Lifecycle!Spec

-----------------------------------------------------------------------------
(***************************************************************************)
(* While polls do not overlap, attempts and concurrency stay within their  *)
(* limits, again with errors, panics and crashes allowed.  (With two polls *)
(* neither holds: both count the same free places.)                        *)
(***************************************************************************)
OnePoll == \A p, q \in Pollers : p = q

-----------------------------------------------------------------------------
(* Attempts *)

LEMMA AttemptsInit == Init => AttemptsInv
<1> SUFFICES ASSUME Init PROVE AttemptsInv
  OBVIOUS
<1>1. OwnershipInv
  BY OwnershipInit
<1>2. SelectionFresh /\ AttemptsLeft /\ WithinAttempts
  BY JobsAssumption DEF Init, IdlePoll, SelectionFresh, AttemptsLeft, WithinAttempts
<1> QED
  BY <1>1, <1>2 DEF AttemptsInv

(* A step that claims nothing, selects nothing and reopens no row keeps    *)
(* what the poll tasks selected fresh.                                     *)
LEMMA FreshKept ==
    ASSUME SelectionFresh, TypeOK, TypeOK',
           \A p \in Pollers : poll'[p].rows = poll[p].rows \/ poll'[p].rows = <<>>,
           UNCHANGED attempt,
           \A j \in Jobs : status[j] \in {"pending", "gone"}
                              => status'[j] = status[j] \/ status'[j] = "gone"
    PROVE  SelectionFresh'
<1> SUFFICES ASSUME NEW p \in Pollers, NEW i \in DOMAIN poll'[p].rows,
                    poll'[p].rows = poll[p].rows
             PROVE  LET rows == poll'[p].rows IN
                    /\ \/ status'[rows[i].job] = "gone"
                       \/ status'[rows[i].job] = "pending" /\ attempt'[rows[i].job] = rows[i].attempt
                    /\ \A k \in DOMAIN rows : i # k => rows[i].job # rows[k].job
  BY DEF SelectionFresh
<1>1. poll[p].rows \in Seq(Row)
  BY DEF TypeOK, PollTask
<1>2. poll[p].rows[i].job \in Jobs
  <2>1. i \in DOMAIN poll[p].rows
    OBVIOUS
  <2>2. poll[p].rows[i] \in Row
    BY <1>1, <2>1
  <2> QED
    BY <2>2 DEF Row
<1>3. /\ \/ status[poll[p].rows[i].job] = "gone"
         \/ /\ status[poll[p].rows[i].job] = "pending"
            /\ attempt[poll[p].rows[i].job] = poll[p].rows[i].attempt
      /\ \A k \in DOMAIN poll[p].rows : i # k => poll[p].rows[i].job # poll[p].rows[k].job
  BY DEF SelectionFresh
<1> QED
  BY <1>2, <1>3

LEMMA AttemptsNext ==
    ASSUME OnePoll, AttemptsInv, [Next]_vars
    PROVE  AttemptsInv'
<1>o. OwnershipInv /\ OwnershipInv'
  BY OwnershipNext DEF AttemptsInv
<1>t. TypeOK /\ TypeOK' /\ RunsOwnRows /\ RunsOwnRows'
  BY <1>o DEF OwnershipInv
<1>r. \A r \in runs : r \in Run /\ r.job \in Jobs
  BY <1>t DEF TypeOK, Run
<1>m. \A j \in Jobs : SlugOf[j] \in Slugs /\ MaxAttempts[SlugOf[j]] \in Nat /\ attempt[j] \in Nat
  BY <1>t, JobsAssumption DEF TypeOK
<1>a. SelectionFresh /\ AttemptsLeft /\ WithinAttempts
  BY DEF AttemptsInv
<1>k. ASSUME UNCHANGED attempt, \A r \in runs' : r.phase \in Owning => r \in runs \/ r.attempt = r.seq,
             \A p \in Pollers : poll'[p].rows = poll[p].rows \/ poll'[p].rows = <<>>,
             \A j \in Jobs : \/ status'[j] = status[j]
                             \/ status'[j] = "pending" /\ status[j] = "absent"
                             \/ status'[j] \notin {"absent", "pending"} /\ status[j] \notin {"pending", "gone"}
                             \/ status'[j] = "gone"
                             \/ status[j] = "running" /\ attempt[j] < MaxAttempts[SlugOf[j]]
      PROVE  AttemptsInv'
  <2>1. SelectionFresh'
    BY <1>k, <1>a, <1>t, FreshKept
  <2>2. AttemptsLeft'
    BY <1>k, <1>a, <1>t DEF AttemptsLeft, TypeOK
  <2>3. WithinAttempts'
    BY <1>k, <1>a DEF WithinAttempts
  <2> QED
    BY <2>1, <2>2, <2>3, <1>o DEF AttemptsInv
<1>1. CASE Request
  BY <1>1, <1>k, <1>t DEF Request, Enqueue, insert_job, Cancel, cancel_pending_jobs, Purge, purge_old_jobs, DeleteRows,
     server, TypeOK
<1>2. CASE Process
  <2>1. ASSUME NEW j \in Jobs, MarkStale(j) PROVE AttemptsInv'
    <3>1. status[j] = "running"
      BY <2>1, <1>o DEF MarkStale, OwnershipInv, StaleUnowned
    <3> QED
      BY <2>1, <3>1, <1>k, <1>t DEF MarkStale, SetStatus, TypeOK
  <2>2. CASE ProcessEnds
    BY <2>2, <1>k DEF ProcessEnds, table, IdlePoll
  <2>3. CASE Start \/ Recovered \/ Shutdown
    BY <2>3, <1>k DEF Start, Recovered, Shutdown, table
  <2> QED
    BY <1>2, <2>1, <2>2, <2>3 DEF Process, Exit, Crash
<1>3. ASSUME NEW p \in Pollers, PollStep(p) \/ PollFails(p) PROVE AttemptsInv'
  <2>a. poll[p] \in PollTask /\ \A q \in Pollers : q = p
    BY <1>t DEF TypeOK, OnePoll
  <2>k. ASSUME NEW r, r.rows = poll[p].rows \/ r.rows = <<>>, SetPoll(p, r)
        PROVE  \A q \in Pollers : poll'[q].rows = poll[q].rows \/ poll'[q].rows = <<>>
    BY <2>k, <2>a, <1>t DEF SetPoll, TypeOK
  <2>i. IdlePoll.rows = <<>> /\ [IdlePoll EXCEPT !.pc = "dispatching"].rows = <<>>
    BY DEF IdlePoll
  <2>1. CASE PollTick(p) \/ PollCount(p) \/ PollCountSlugs(p) \/ PollClaimed(p) \/ PollDone(p)
    <3>1. UNCHANGED <<table, runs>>
      BY <2>1 DEF PollTick, PollCount, AtCapacity, PollCountSlugs, PollClaimed, PollDone
    <3>2. \E r : (r.rows = poll[p].rows \/ r.rows = <<>>) /\ SetPoll(p, r)
      <4>1. ASSUME NEW v, NEW w, NEW pc
            PROVE  /\ [poll[p] EXCEPT !.pc = pc].rows = poll[p].rows
                   /\ [poll[p] EXCEPT !.pc = pc, !.avail = v].rows = poll[p].rows
                   /\ [poll[p] EXCEPT !.pc = pc, !.counts = w].rows = poll[p].rows
        BY <2>a DEF PollTask
      <4>2. CASE PollTick(p)
        BY <4>1, <4>2 DEF PollTick
      <4>3. CASE PollCount(p)
        BY <2>i, <4>1, <4>3 DEF PollCount, AtCapacity
      <4>4. CASE PollCountSlugs(p)
        BY <4>1, <4>4 DEF PollCountSlugs
      <4>5. CASE PollClaimed(p) \/ PollDone(p)
        BY <2>i, <4>5 DEF PollClaimed, PollDone
      <4> QED
        BY <2>1, <4>2, <4>3, <4>4, <4>5
    <3>3. \A q \in Pollers : poll'[q].rows = poll[q].rows \/ poll'[q].rows = <<>>
      BY <2>k, <3>2
    <3> QED
      BY <1>k, <3>1, <3>3 DEF table
  <2>2. CASE PollFails(p)
    <3>1. \A q \in Pollers : poll'[q].rows = poll[q].rows \/ poll'[q].rows = <<>>
      BY <2>2, <2>i, <2>k DEF PollFails
    <3> QED
      BY <2>2, <3>1, <1>k DEF PollFails, table
  <2>3. CASE PollSelect(p)
    <3>1. PICK b \in Batches(poll[p].avail) :
             SetPoll(p, [poll[p] EXCEPT !.pc = "claiming",
                            !.rows = [i \in DOMAIN b |-> [job |-> b[i], attempt |-> attempt[b[i]]]]])
      BY <2>3 DEF PollSelect
    <3> DEFINE rows == [i \in DOMAIN b |-> [job |-> b[i], attempt |-> attempt[b[i]]]]
    <3>2. PICK n \in Nat : /\ b \in [1 .. n -> Pending]
                           /\ \A i, k \in 1 .. n : i < k => b[i] # b[k]
      <4>1. poll[p].avail \in Nat /\ Cardinality(Pending) \in Nat
        BY <2>a, CountsAreNat DEF PollTask, Pending
      <4> QED
        BY <4>1 DEF Batches
    <3>3. poll'[p].rows = rows
      <4> HIDE DEF rows
      <4>1. SetPoll(p, [poll[p] EXCEPT !.pc = "claiming", !.rows = rows])
        BY <3>1 DEF rows
      <4> QED
        BY <4>1, <1>t, <2>a DEF SetPoll, TypeOK, PollTask
    <3>4. UNCHANGED <<table, runs>>
      BY <2>3 DEF PollSelect
    <3>5. \A i, k \in 1 .. n : i # k => b[i] # b[k]
      BY <3>2
    <3>6. SelectionFresh'
      <4>1. DOMAIN rows = 1 .. n /\ \A i \in 1 .. n : /\ rows[i].job = b[i]
                                                       /\ rows[i].attempt = attempt[b[i]]
                                                       /\ status[b[i]] = "pending"
        BY <3>2 DEF Pending
      <4> HIDE DEF rows
      <4> QED
        BY <3>3, <3>4, <3>5, <4>1, <2>a DEF SelectionFresh, table
    <3>7. AttemptsLeft' /\ WithinAttempts'
      BY <3>4, <1>a DEF AttemptsLeft, WithinAttempts, table
    <3> QED
      BY <3>6, <3>7, <1>o DEF AttemptsInv
  <2>4. CASE ClaimRow(p)
    <3> DEFINE rows == poll[p].rows
               row  == Head(rows)
               run  == [job |-> row.job, seq |-> attempt[row.job] + 1,
                        attempt |-> row.attempt + 1, phase |-> "claimed",
                        by |-> p]
    <3>1. rows \in Seq(Row) /\ rows # <<>>
      BY <2>a, <2>4 DEF ClaimRow, MayClaim, Claimable, CountClaim, PollTask
    <3>2. row = rows[1] /\ row \in Row /\ 1 \in DOMAIN rows
      BY <3>1
    <3>3. /\ DOMAIN Tail(rows) = {i \in Nat : i + 1 \in DOMAIN rows /\ i >= 1}
          /\ \A i \in DOMAIN Tail(rows) : Tail(rows)[i] = rows[i + 1] /\ i + 1 \in DOMAIN rows
                                          /\ i + 1 # 1 /\ i \in Nat
      BY <3>1
    <3>4. poll'[p].rows = Tail(rows)
      <4> DEFINE rest == [poll[p] EXCEPT !.rows = Tail(@)]
                 s    == SlugOf[row.job]
      <4>1. \/ SetPoll(p, rest)
            \/ SetPoll(p, [rest EXCEPT !.avail = @ - 1, !.counts[s] = @ + 1])
        BY <2>4 DEF ClaimRow, MayClaim, Claimable, CountClaim
      <4>2. rest.rows = Tail(rows)
        BY <2>a DEF PollTask
      <4>3. [rest EXCEPT !.avail = @ - 1, !.counts[s] = @ + 1].rows = Tail(rows)
        BY <2>a DEF PollTask
      <4> HIDE DEF rest, rows, s
      <4> QED
        BY <4>1, <4>2, <4>3, <1>t DEF SetPoll, TypeOK
    <3>5. row.job \in Jobs
      BY <3>2 DEF Row
    <3>6. \/ UNCHANGED <<table, runs>>
          \/ /\ status[row.job] = "pending"
             /\ status' = [status EXCEPT ![row.job] = "running"]
             /\ attempt' = [attempt EXCEPT ![row.job] = @ + 1]
             /\ runs' = runs \cup {run}
      BY <2>4 DEF ClaimRow, MayClaim, Claimable, CountClaim
    <3>7. run.phase = "claimed" /\ run.attempt = row.attempt + 1 /\ run.seq = attempt[row.job] + 1
      OBVIOUS
    <3>8. status[row.job] = "pending" => attempt[row.job] = row.attempt
      BY <3>2, <1>a DEF SelectionFresh
    <3>9. \A i \in DOMAIN Tail(rows) : Tail(rows)[i].job # row.job
      BY <3>2, <3>3, <1>a DEF SelectionFresh
    <3>10. \A i, k \in DOMAIN Tail(rows) :
              /\ i # k => Tail(rows)[i].job # Tail(rows)[k].job
              /\ Tail(rows)[i].job \in Jobs
              /\ \/ status[Tail(rows)[i].job] = "gone"
                 \/ /\ status[Tail(rows)[i].job] = "pending"
                    /\ attempt[Tail(rows)[i].job] = Tail(rows)[i].attempt
      <4> TAKE i, k \in DOMAIN Tail(rows)
      <4>1. /\ Tail(rows)[i] = rows[i + 1] /\ Tail(rows)[k] = rows[k + 1]
            /\ i + 1 \in DOMAIN rows /\ k + 1 \in DOMAIN rows /\ (i # k => i + 1 # k + 1)
        BY <3>3
      <4>2. rows[i + 1] \in Row
        BY <3>1, <4>1
      <4> HIDE DEF rows
      <4> QED
        BY <4>1, <4>2, <1>a DEF SelectionFresh, Row, rows
    <3> HIDE DEF rows, row, run
    <3>11. SelectionFresh'
      <4>1. \A i \in DOMAIN Tail(rows) : /\ status'[Tail(rows)[i].job] = status[Tail(rows)[i].job]
                                          /\ attempt'[Tail(rows)[i].job] = attempt[Tail(rows)[i].job]
        BY <3>6, <3>9, <3>10, <1>t DEF TypeOK, table
      <4>2. \A q \in Pollers : poll'[q].rows = Tail(rows)
        BY <3>4, <2>a
      <4> DEFINE rest == Tail(rows)
      <4>3. \A i, k \in DOMAIN rest :
              /\ i # k => rest[i].job # rest[k].job
              /\ \/ status'[rest[i].job] = "gone"
                 \/ /\ status'[rest[i].job] = "pending"
                    /\ attempt'[rest[i].job] = rest[i].attempt
        BY <3>10, <4>1
      <4>4. \A q \in Pollers : poll'[q].rows = rest
        BY <4>2
      <4> HIDE DEF rest
      <4> QED
        BY <4>3, <4>4 DEF SelectionFresh
    <3>12. AttemptsLeft'
      BY <3>5, <3>6, <3>7, <3>8, <1>a, <1>t DEF AttemptsLeft, TypeOK, table
    <3>13. WithinAttempts'
      BY <3>5, <3>6, <1>a, <1>m, <1>t DEF AttemptsLeft, WithinAttempts, TypeOK, table
    <3> QED
      BY <3>11, <3>12, <3>13, <1>o DEF AttemptsInv
  <2>5. CASE Dispatch(p)
    <3>1. PICK r \in ClaimedBy(p) :
             IF SlugOf[r.job] \in defined
             THEN /\ tracked' = tracked \cup {r.job}
                  /\ runs' = (runs \ {r}) \cup {[r EXCEPT !.phase = "spawned", !.by = None]}
                  /\ UNCHANGED table
             ELSE /\ \/ SetStatus(r.job, "failed")
                     \/ Faults /\ UNCHANGED status
                  /\ runs' = runs \ {r}
                  /\ UNCHANGED <<attempt, created, heartbeat, commits, tracked>>
      BY <2>5 DEF Dispatch
    <3>2. /\ r \in runs /\ r \in Run /\ r.job \in Jobs /\ r.phase = "claimed"
          /\ status[r.job] = "running" /\ r.attempt = r.seq
      BY <1>r, <1>a, <1>t DEF ClaimedBy, RunsOwnRows, AttemptsLeft, Owning
    <3>3. /\ [r EXCEPT !.phase = "spawned", !.by = None].attempt = r.attempt
          /\ [r EXCEPT !.phase = "spawned", !.by = None].seq = r.seq
      BY <3>2 DEF Run
    <3>4. UNCHANGED poll
      BY <2>5 DEF Dispatch
    <3> QED
      BY <3>1, <3>2, <3>3, <3>4, <1>k, <1>t DEF table, SetStatus, TypeOK
  <2> QED
    BY <1>3, <2>1, <2>2, <2>3, <2>4, <2>5 DEF PollStep
<1>4. ASSUME NEW r \in runs, WorkerStep(r) \/ WorkerFails(r) \/ Panic(r) PROVE AttemptsInv'
  <2>1. /\ r \in Run /\ r.job \in Jobs
        /\ r.phase \in Owning => /\ r.attempt = r.seq /\ status[r.job] = "running"
                                 /\ attempt[r.job] = r.seq
    BY <1>r, <1>a, <1>t DEF RunsOwnRows, AttemptsLeft
  <2>2. \A ph : [r EXCEPT !.phase = ph].attempt = r.attempt /\ [r EXCEPT !.phase = ph].seq = r.seq
                /\ [r EXCEPT !.phase = ph].phase = ph
    BY <2>1 DEF Run
  <2>k. ASSUME NEW from, NEW to, Step(r, from, to), from \in Owning
        PROVE  \A q \in runs' : q.phase \in Owning => q \in runs \/ q.attempt = q.seq
    <3>1. r.attempt = r.seq
      BY <2>k, <2>1 DEF Step
    <3> DEFINE q == [r EXCEPT !.phase = to]
    <3>2. q.attempt = q.seq
      BY <2>2, <3>1
    <3>3. runs' = (runs \ {r}) \cup {q}
      BY <2>k DEF Step
    <3> HIDE DEF q
    <3> QED
      BY <3>2, <3>3
  <2>3. CASE fail_job(r)
    <3>1. /\ status[r.job] = "running" /\ r.attempt = attempt[r.job]
          /\ Step(r, "erred", "ending") /\ UNCHANGED <<attempt, poll>>
          /\ SetStatus(r.job, IF r.attempt < MaxAttempts[SlugOf[r.job]] THEN "pending" ELSE "failed")
      BY <2>3, <2>1 DEF fail_job, should_retry, Step, Owning
    <3>2. \A q \in runs' : q.phase \in Owning => q \in runs \/ q.attempt = q.seq
      BY <3>1, <2>k DEF Owning
    <3> QED
      BY <3>1, <3>2, <2>1, <1>k, <1>t DEF SetStatus, TypeOK
  <2>4. CASE complete_job(r)
    <3>1. /\ status[r.job] = "running" /\ UNCHANGED <<attempt, poll>>
          /\ Step(r, "committed", "ending") /\ SetStatus(r.job, "completed")
      BY <2>4, <2>1 DEF complete_job, Step, Owning
    <3>2. \A q \in runs' : q.phase \in Owning => q \in runs \/ q.attempt = q.seq
      BY <3>1, <2>k DEF Owning
    <3> QED
      BY <3>1, <3>2, <2>1, <1>k, <1>t DEF SetStatus, TypeOK
  <2>5. CASE HandlerOk(r)
    <3>1. UNCHANGED <<attempt, poll, status>> /\ Step(r, "handling", "committed")
      BY <2>5 DEF HandlerOk
    <3> QED
      BY <3>1, <2>k, <1>k DEF Owning
  <2>6. CASE WorkerBegin(r)
    <3>1. /\ [r EXCEPT !.phase = "handling"].attempt = r.attempt
          /\ [r EXCEPT !.phase = "handling"].seq = r.seq
      BY <2>1 DEF Run
    <3> QED
      BY <2>6, <3>1, <2>1, <1>k DEF WorkerBegin, Step, table, Owning
  <2>7. CASE HandlerErr(r) \/ WorkerFails(r)
    <3>1. UNCHANGED <<attempt, poll, status>>
          /\ \E from \in Owning, to \in Phases : Step(r, from, to)
      BY <2>7 DEF HandlerErr, WorkerFails, table, Owning, Phases
    <3> QED
      BY <3>1, <2>k, <1>k
  <2>8. CASE Untrack(r) \/ Panic(r)
    BY <2>8, <1>k DEF Untrack, Panic, table
  <2> QED
    BY <1>4, <2>3, <2>4, <2>5, <2>6, <2>7, <2>8 DEF WorkerStep
<1>5. CASE LoopStep \/ CronFails
  <2>1. UNCHANGED <<attempt, poll, runs>>
    BY <1>5 DEF LoopStep, CronFails, CronTick, CronCheck, CronInsert, CronEnd, HeartbeatTick,
       update_heartbeat, HeartbeatEnd, others, table, insert_job, purge_old_jobs, DeleteRows
  <2>2. UNCHANGED status \/ (\E j \in Jobs : insert_job(j)) \/ purge_old_jobs
    BY <1>5 DEF LoopStep, CronFails, CronTick, CronCheck, CronInsert, CronEnd, HeartbeatTick,
       update_heartbeat, HeartbeatEnd, table
  <2> QED
    BY <2>1, <2>2, <1>k, <1>t DEF insert_job, purge_old_jobs, DeleteRows, TypeOK
<1>6. CASE Tick
  BY <1>6, <1>k DEF Tick, table, server
<1>7. CASE UNCHANGED vars
  BY <1>7, <1>k DEF vars
<1> QED
  BY <1>1, <1>2, <1>3, <1>4, <1>5, <1>6, <1>7 DEF Next

(* While polls do not overlap, no row is claimed more than retries + 1     *)
(* times.                                                                  *)
THEOREM AttemptsBounded ==
    ASSUME OnePoll
    PROVE  Spec => []WithinAttempts
<1>1. AttemptsInv /\ [Next]_vars => AttemptsInv'
  BY AttemptsNext
<1>2. AttemptsInv => WithinAttempts
  BY DEF AttemptsInv
<1> QED
  BY AttemptsInit, <1>1, <1>2, PTL DEF Spec
-----------------------------------------------------------------------------
(* Concurrency *)

LEMMA CapacityInit == Init => CapacityInv
<1> SUFFICES ASSUME Init PROVE CapacityInv
  OBVIOUS
<1>1. Running = {} /\ \A s \in Slugs : RunningOf(s) = {}
  BY DEF Init, Running, RunningOf
<1>2. Cardinality(Running) = 0 /\ \A s \in Slugs : Cardinality(RunningOf(s)) = 0
  BY <1>1, FS_EmptySet
<1>3. WithinConcurrency
  BY <1>2, JobsAssumption DEF WithinConcurrency
<1>4. CountsBound
  BY DEF Init, CountsBound, IdlePoll
<1> QED
  BY <1>3, <1>4, TypeInit DEF CapacityInv

(* A step that claims nothing, whatever else it does to the rows, keeps    *)
(* every bound: the rows running become fewer.                             *)
LEMMA CapacityKept ==
    ASSUME CapacityInv, TypeOK', \A j \in Jobs : status'[j] = "running" => status[j] = "running",
           \A p \in Pollers : \/ poll'[p] = poll[p]
                              \/ poll'[p].pc \notin {"counted", "ready", "claiming"}
    PROVE  CapacityInv'
<1>1. Running' \subseteq Running /\ \A s \in Slugs : RunningOf(s)' \subseteq RunningOf(s)
  BY DEF Running, RunningOf
<1>2. /\ Running \subseteq Jobs /\ Running' \subseteq Jobs
      /\ \A s \in Slugs : RunningOf(s) \subseteq Jobs /\ RunningOf(s)' \subseteq Jobs
  BY DEF Running, RunningOf
<1> DEFINE n == Cardinality(Running)
           m == [s \in Slugs |-> Cardinality(RunningOf(s))]
<1>3. n' =< n /\ n \in Nat /\ n' \in Nat
  BY <1>1, <1>2, CountsAreNat, FS_Subset
<1>4. \A s \in Slugs : m'[s] =< m[s] /\ m[s] \in Nat /\ m'[s] \in Nat
  BY <1>1, <1>2, CountsAreNat, FS_Subset
<1>5. /\ n =< MaxConcurrent /\ \A s \in Slugs : m[s] =< Concurrency[s]
      /\ \A p \in Pollers :
            /\ poll[p].pc \in {"counted", "ready", "claiming"} => n + poll[p].avail =< MaxConcurrent
            /\ poll[p].pc \in {"ready", "claiming"} => \A s \in Slugs : m[s] =< poll[p].counts[s]
  BY DEF CapacityInv, CountsBound, WithinConcurrency
<1>6. /\ \A p \in Pollers : poll[p].avail \in Nat /\ \A s \in Slugs : poll[p].counts[s] \in Nat
      /\ MaxConcurrent \in Nat /\ \A s \in Slugs : Concurrency[s] \in Nat
  BY JobsAssumption DEF CapacityInv, TypeOK, PollTask
<1>7. /\ n' =< MaxConcurrent /\ \A s \in Slugs : m'[s] =< Concurrency[s]
      /\ \A p \in Pollers :
            /\ poll'[p].pc \in {"counted", "ready", "claiming"} => n' + poll'[p].avail =< MaxConcurrent
            /\ poll'[p].pc \in {"ready", "claiming"} => \A s \in Slugs : m'[s] =< poll'[p].counts[s]
  <2> HIDE DEF n, m
  <2> QED
    BY <1>3, <1>4, <1>5, <1>6
<1> QED
  BY <1>7 DEF CapacityInv, CountsBound, WithinConcurrency

LEMMA CapacityNext ==
    ASSUME OnePoll, CapacityInv, [Next]_vars
    PROVE  CapacityInv'
<1>t. TypeOK /\ TypeOK'
  BY TypeNext DEF CapacityInv
<1>1. CASE Request
  BY <1>1, <1>t, CapacityKept DEF Request, Enqueue, insert_job, Cancel, cancel_pending_jobs, Purge, purge_old_jobs, DeleteRows,
     server, TypeOK
<1>2. CASE Process
  <2>1. ASSUME NEW j \in Jobs, MarkStale(j) PROVE CapacityInv'
    BY <2>1, <1>t, CapacityKept DEF MarkStale, SetStatus, TypeOK
  <2>2. CASE ProcessEnds
    BY <2>2, <1>t, CapacityKept DEF ProcessEnds, table, IdlePoll
  <2>3. CASE Start \/ Recovered \/ Shutdown
    BY <2>3, <1>t, CapacityKept DEF Start, Recovered, Shutdown, table
  <2> QED
    BY <1>2, <2>1, <2>2, <2>3 DEF Process, Exit, Crash
<1>3. ASSUME NEW p \in Pollers, PollStep(p) \/ PollFails(p) PROVE CapacityInv'
  <2>a. /\ poll[p] \in PollTask /\ \A q \in Pollers : q = p
        /\ poll[p].avail \in Nat /\ \A s \in Slugs : poll[p].counts[s] \in Nat
    BY <1>t DEF TypeOK, OnePoll, PollTask
  <2>b. ASSUME NEW r, SetPoll(p, r) PROVE poll'[p] = r
    BY <2>b, <1>t DEF SetPoll, TypeOK
  <2>n. /\ Cardinality(Running) \in Nat
        /\ \A s \in Slugs : Cardinality(RunningOf(s)) \in Nat
    BY CountsAreNat DEF Running, RunningOf
  <2>c. /\ WithinConcurrency
        /\ poll[p].pc \in {"counted", "ready", "claiming"}
              => Cardinality(Running) + poll[p].avail =< MaxConcurrent
        /\ poll[p].pc \in {"ready", "claiming"}
              => \A s \in Slugs : Cardinality(RunningOf(s)) =< poll[p].counts[s]
    BY DEF CapacityInv, CountsBound
  <2>s. ASSUME UNCHANGED status
        PROVE  /\ Running' = Running /\ \A s \in Slugs : RunningOf(s)' = RunningOf(s)
               /\ WithinConcurrency'
    <3>1. Running' = Running /\ \A s \in Slugs : RunningOf(s)' = RunningOf(s)
      BY <2>s DEF Running, RunningOf
    <3> QED
      BY <3>1, <2>c DEF WithinConcurrency
  <2>1. CASE PollTick(p) \/ PollClaimed(p) \/ PollDone(p) \/ PollFails(p)
    <3>1. UNCHANGED status /\ \E r : SetPoll(p, r) /\ r.pc \in {"idle", "spawned", "dispatching"}
      <4>1. [poll[p] EXCEPT !.pc = "spawned"].pc = "spawned"
        BY <2>a DEF PollTask
      <4>2. IdlePoll.pc = "idle" /\ [IdlePoll EXCEPT !.pc = "dispatching"].pc = "dispatching"
        BY DEF IdlePoll
      <4> QED
        BY <2>1, <4>1, <4>2 DEF PollTick, PollClaimed, PollDone, PollFails, table
    <3>2. poll'[p].pc \in {"idle", "spawned", "dispatching"}
      BY <3>1, <2>b
    <3> QED
      BY <3>1, <3>2, <2>a, <1>t, CapacityKept
  <2>2. CASE PollCount(p)
    <3> DEFINE n == Cardinality(Running)
               r == [poll[p] EXCEPT !.pc = "counted", !.avail = MaxConcurrent - n]
    <3>1. UNCHANGED status /\ (SetPoll(p, IdlePoll) \/ SetPoll(p, r))
      BY <2>2 DEF PollCount, AtCapacity, table
    <3>2. r.pc = "counted" /\ r.avail = MaxConcurrent - n
      BY <2>a DEF PollTask
    <3>3. n + (MaxConcurrent - n) = MaxConcurrent
      BY <2>n, JobsAssumption
    <3>4. CASE SetPoll(p, IdlePoll)
      <4>1. poll'[p].pc = "idle"
        BY <3>4, <2>b DEF IdlePoll
      <4> QED
        BY <3>1, <4>1, <2>a, <1>t, CapacityKept
    <3>5. CASE SetPoll(p, r)
      <4>1. poll'[p] = r
        BY <3>5, <2>b
      <4>2. Cardinality(Running') = n
        BY <3>1, <2>s
      <4> HIDE DEF r
      <4>3. poll'[p].pc = "counted" /\ poll'[p].avail = MaxConcurrent - n
        BY <4>1, <3>2
      <4>4. Cardinality(Running)' + poll'[p].avail =< MaxConcurrent
        BY <4>2, <4>3, <3>3, JobsAssumption
      <4>5. CountsBound'
        BY <4>3, <4>4, <2>a DEF CountsBound
      <4> QED
        BY <4>5, <3>1, <2>s, <1>t DEF CapacityInv
    <3> QED
      BY <3>1, <3>4, <3>5
  <2>3. CASE PollCountSlugs(p)
    <3> DEFINE c == [s \in Slugs |-> Cardinality(RunningOf(s))]
               r == [poll[p] EXCEPT !.pc = "ready", !.counts = c]
    <3>1. UNCHANGED status /\ SetPoll(p, r) /\ poll[p].pc = "counted"
      BY <2>3 DEF PollCountSlugs, table
    <3>2. r.pc = "ready" /\ r.avail = poll[p].avail /\ r.counts = c
      BY <2>a DEF PollTask
    <3>3. poll'[p] = r
      BY <3>1, <2>b
    <3> HIDE DEF r
    <3>4. /\ Cardinality(Running)' + poll'[p].avail =< MaxConcurrent
          /\ \A s \in Slugs : Cardinality(RunningOf(s))' =< poll'[p].counts[s]
      <4>1. \A s \in Slugs : poll'[p].counts[s] = Cardinality(RunningOf(s))
        BY <3>2, <3>3
      <4>2. Cardinality(Running)' = Cardinality(Running)
            /\ \A s \in Slugs : Cardinality(RunningOf(s))' = Cardinality(RunningOf(s))
        BY <3>1, <2>s
      <4> QED
        BY <4>1, <4>2, <3>1, <3>2, <3>3, <2>c, <2>n
    <3>5. CountsBound'
      BY <3>4, <2>a DEF CountsBound
    <3> QED
      BY <3>5, <3>1, <2>s, <1>t DEF CapacityInv
  <2>4. CASE PollSelect(p)
    <3>1. UNCHANGED status /\ poll[p].pc = "ready"
          /\ \E w : SetPoll(p, [poll[p] EXCEPT !.pc = "claiming", !.rows = w])
      BY <2>4 DEF PollSelect, table
    <3>2. PICK w : SetPoll(p, [poll[p] EXCEPT !.pc = "claiming", !.rows = w])
      BY <3>1
    <3>3. poll'[p].avail = poll[p].avail /\ poll'[p].counts = poll[p].counts
      BY <3>2, <2>a, <2>b DEF PollTask
    <3>4. /\ Cardinality(Running)' + poll'[p].avail =< MaxConcurrent
          /\ \A s \in Slugs : Cardinality(RunningOf(s))' =< poll'[p].counts[s]
      <4>1. Cardinality(Running)' = Cardinality(Running)
            /\ \A s \in Slugs : Cardinality(RunningOf(s))' = Cardinality(RunningOf(s))
        BY <3>1, <2>s
      <4> QED
        BY <4>1, <3>1, <3>3, <2>c
    <3>5. CountsBound'
      BY <3>4, <2>a DEF CountsBound
    <3> QED
      BY <3>5, <3>1, <2>s, <1>t DEF CapacityInv
  <2>5. CASE ClaimRow(p)
    <3>j. PICK j \in Jobs, t \in Slugs : j = Head(poll[p].rows).job /\ t = SlugOf[j]
      <4>1. poll[p].rows \in Seq(Row) /\ poll[p].rows # <<>>
        BY <2>5, <2>a DEF ClaimRow, MayClaim, Claimable, CountClaim, PollTask
      <4>2. Head(poll[p].rows) \in Row
        BY <4>1
      <4>3. Head(poll[p].rows).job \in Jobs
        BY <4>2 DEF Row
      <4> QED
        BY <4>3, JobsAssumption
    <3> DEFINE rest == [poll[p] EXCEPT !.rows = Tail(@)]
               next == [rest EXCEPT !.avail = @ - 1, !.counts[t] = @ + 1]
    <3>1. /\ poll[p].pc = "claiming" /\ poll[p].avail > 0
          /\ \/ SetPoll(p, rest) /\ UNCHANGED status
             \/ /\ poll[p].counts[t] < Limit(t) /\ status[j] = "pending"
                /\ status' = [status EXCEPT ![j] = "running"]
                /\ SetPoll(p, next)
      BY <2>5, <3>j DEF ClaimRow, MayClaim, Claimable, CountClaim, table
    <3>2. /\ rest.pc = poll[p].pc /\ rest.avail = poll[p].avail /\ rest.counts = poll[p].counts
          /\ next.pc = poll[p].pc /\ next.avail = poll[p].avail - 1
          /\ next.counts = [poll[p].counts EXCEPT ![t] = @ + 1]
      BY <2>a DEF PollTask
    <3> HIDE DEF rest, next
    <3>3. CASE SetPoll(p, rest) /\ UNCHANGED status
      <4>1. poll'[p] = rest
        BY <3>3, <2>b
      <4>2. Cardinality(Running)' = Cardinality(Running)
            /\ \A s \in Slugs : Cardinality(RunningOf(s))' = Cardinality(RunningOf(s))
        BY <3>3, <2>s
      <4>3. CountsBound'
        BY <4>1, <4>2, <3>1, <3>2, <2>a, <2>c DEF CountsBound
      <4> QED
        BY <4>3, <3>3, <2>s, <1>t DEF CapacityInv
    <3>4. CASE /\ poll[p].counts[t] < Limit(t) /\ status[j] = "pending"
               /\ status' = [status EXCEPT ![j] = "running"]
               /\ SetPoll(p, next)
      <4>1. /\ Running' = Running \cup {j} /\ j \notin Running
            /\ RunningOf(t)' = RunningOf(t) \cup {j} /\ j \notin RunningOf(t)
            /\ \A s \in Slugs \ {t} : RunningOf(s)' = RunningOf(s)
        <5>1. \A k \in Jobs : status'[k] = IF k = j THEN "running" ELSE status[k]
          BY <3>4, <3>j, <1>t DEF TypeOK
        <5>2. status[j] = "pending"
          BY <3>4
        <5>3. Running' = Running \cup {j} /\ j \notin Running
          BY <5>1, <5>2, <3>j DEF Running
        <5>4. \A s \in Slugs : RunningOf(s)' = {k \in Running' : SlugOf[k] = s}
          BY DEF RunningOf
        <5>5. RunningOf(t)' = RunningOf(t) \cup {j} /\ j \notin RunningOf(t)
          BY <5>3, <5>4, <3>j DEF RunningOf
        <5>6. \A s \in Slugs \ {t} : RunningOf(s)' = RunningOf(s)
          BY <5>3, <5>4, <3>j DEF RunningOf
        <5> QED
          BY <5>3, <5>5, <5>6
      <4>2. IsFiniteSet(Running) /\ \A s \in Slugs : IsFiniteSet(RunningOf(s))
        BY CountsAreNat DEF Running, RunningOf
      <4>3. Cardinality(Running)' = Cardinality(Running) + 1
        BY <4>1, <4>2, FS_AddElement
      <4>4. /\ Cardinality(RunningOf(t))' = Cardinality(RunningOf(t)) + 1
            /\ \A s \in Slugs \ {t} : Cardinality(RunningOf(s))' = Cardinality(RunningOf(s))
        <5>1. Cardinality(RunningOf(t))' = Cardinality(RunningOf(t)) + 1
          <6>1. IsFiniteSet(RunningOf(t))
            BY <4>2, <3>j
          <6>2. RunningOf(t)' = RunningOf(t) \cup {j} /\ j \notin RunningOf(t)
            BY <4>1
          <6> QED
            BY <6>1, <6>2, FS_AddElement
        <5>2. \A s \in Slugs \ {t} : Cardinality(RunningOf(s))' = Cardinality(RunningOf(s))
          BY <4>1
        <5> QED
          BY <5>1, <5>2
      <4>5. Limit(t) =< Concurrency[t] /\ Limit(t) \in Nat /\ Concurrency[t] \in Nat
        <5>1. Concurrency[t] \in Nat \ {0}
          BY <3>j, JobsAssumption
        <5> QED
          BY <5>1 DEF Limit
      <4>6. poll'[p] = next
        BY <3>4, <2>b
      <4>7. /\ poll'[p].avail = poll[p].avail - 1
            /\ poll'[p].counts[t] = poll[p].counts[t] + 1
            /\ \A s \in Slugs \ {t} : poll'[p].counts[s] = poll[p].counts[s]
        BY <4>6, <3>2, <3>j, <2>a DEF PollTask
      <4>8. /\ Cardinality(Running) + poll[p].avail =< MaxConcurrent
            /\ \A s \in Slugs : Cardinality(RunningOf(s)) =< poll[p].counts[s]
            /\ \A s \in Slugs : Cardinality(RunningOf(s)) =< Concurrency[s]
        BY <3>1, <2>c DEF WithinConcurrency
      <4>9. /\ Cardinality(Running)' =< MaxConcurrent
            /\ Cardinality(Running)' + poll'[p].avail =< MaxConcurrent
        BY <4>3, <4>7, <4>8, <3>1, <2>a, <2>n, JobsAssumption
      <4>10. \A s \in Slugs : /\ Cardinality(RunningOf(s))' =< poll'[p].counts[s]
                              /\ Cardinality(RunningOf(s))' =< Concurrency[s]
        <5> TAKE s \in Slugs
        <5>1. CASE s = t
          <6>1. RunningOf(s)' = RunningOf(t)'
            BY <5>1 DEF RunningOf
          <6>2. Cardinality(RunningOf(s))' = Cardinality(RunningOf(t)) + 1
            BY <6>1, <4>4
          <6>3. Cardinality(RunningOf(t)) \in Nat /\ Cardinality(RunningOf(t)) =< poll[p].counts[t]
                /\ poll[p].counts[t] \in Nat /\ poll[p].counts[t] < Limit(t)
            BY <4>8, <3>4, <3>j, <2>a, <2>n
          <6>4. poll'[p].counts[s] = poll[p].counts[t] + 1
            BY <5>1, <4>7
          <6> QED
            BY <5>1, <6>2, <6>3, <6>4, <4>5
        <5>2. CASE s # t
          BY <5>2, <4>4, <4>7, <4>8
        <5> QED
          BY <5>1, <5>2
      <4>11. CountsBound' /\ WithinConcurrency'
        BY <4>9, <4>10, <2>a DEF CountsBound, WithinConcurrency
      <4> QED
        BY <4>11, <1>t DEF CapacityInv
    <3> QED
      BY <3>1, <3>3, <3>4
  <2>6. CASE Dispatch(p)
    <3>1. UNCHANGED poll /\ \/ UNCHANGED status
                            \/ \E r \in ClaimedBy(p) : SetStatus(r.job, "failed")
      BY <2>6 DEF Dispatch, table
    <3> QED
      BY <3>1, <1>t, CapacityKept DEF SetStatus, TypeOK
  <2> QED
    BY <1>3, <2>1, <2>2, <2>3, <2>4, <2>5, <2>6 DEF PollStep
<1>4. ASSUME NEW r \in runs, WorkerStep(r) \/ WorkerFails(r) \/ Panic(r) PROVE CapacityInv'
  <2>1. UNCHANGED poll /\ \/ UNCHANGED status
                          \/ \E s \in {"completed", "pending", "failed"} : SetStatus(r.job, s)
    BY <1>4 DEF WorkerStep, WorkerFails, Panic, WorkerBegin, Step, HandlerOk, HandlerErr, complete_job,
       fail_job, should_retry, Untrack, table
  <2> QED
    BY <2>1, <1>t, CapacityKept DEF SetStatus, TypeOK
<1>5. CASE LoopStep \/ CronFails
  <2>1. UNCHANGED poll
    BY <1>5 DEF LoopStep, CronFails, CronTick, CronCheck, CronInsert, CronEnd, HeartbeatTick,
       update_heartbeat, HeartbeatEnd, others
  <2>2. UNCHANGED status \/ (\E j \in Jobs : insert_job(j)) \/ purge_old_jobs
    BY <1>5 DEF LoopStep, CronFails, CronTick, CronCheck, CronInsert, CronEnd, HeartbeatTick,
       update_heartbeat, HeartbeatEnd, table
  <2> QED
    BY <2>1, <2>2, <1>t, CapacityKept DEF insert_job, purge_old_jobs, DeleteRows, TypeOK
<1>6. CASE Tick
  BY <1>6, <1>t, CapacityKept DEF Tick, table, server
<1>7. CASE UNCHANGED vars
  BY <1>7, <1>t, CapacityKept DEF vars
<1> QED
  BY <1>1, <1>2, <1>3, <1>4, <1>5, <1>6, <1>7 DEF Next

(* While polls do not overlap, the rows running stay within max_concurrent *)
(* and within the concurrency of their type.                               *)
THEOREM ConcurrencyBounded ==
    ASSUME OnePoll
    PROVE  Spec => []WithinConcurrency
<1>1. CapacityInv /\ [Next]_vars => CapacityInv'
  BY CapacityNext
<1>2. CapacityInv => WithinConcurrency
  BY DEF CapacityInv
<1> QED
  BY CapacityInit, <1>1, <1>2, PTL DEF Spec

-----------------------------------------------------------------------------
(***************************************************************************)
(* Without errors and panics, which do strand rows, a row marked running   *)
(* is in hand, however many crashes and restarts there were and however    *)
(* many polls overlap.                                                     *)
(***************************************************************************)
Stray(j) == status[j] = "running" /\ Owners(j) = {}

(* No heartbeat is in the future; recovery has on its list all that a dead *)
(* process left but what it touched in the second of the start; and a row  *)
(* nobody owns is not one that the heartbeats of this process renew.       *)
Served ==
    /\ \A j \in Jobs : heartbeat[j] =< now
    /\ mode \in {"down", "recovering"} => loop.at = "select" /\ tracked = {}
    /\ mode = "recovering" => \A j \in Running : j \in stale \/ heartbeat[j] = booted
    /\ mode \in {"up", "stopping"} =>
          \A j \in Jobs : Stray(j) => /\ heartbeat[j] = booted /\ j \notin tracked
                                      /\ loop.at = "heartbeat" => j \notin loop.todo

LEMMA StrayIs ==
    ASSUME NEW j PROVE Stray(j) <=> /\ status[j] = "running"
                                    /\ \A r \in runs : r.phase \in Owning => r.job # j
BY DEF Stray, Owners

LEMMA StrayIsAfter ==
    ASSUME NEW j PROVE Stray(j)' <=> /\ status'[j] = "running"
                                     /\ \A r \in runs' : r.phase \in Owning => r.job # j
BY DEF Stray, Owners

(* A step of a poll task or of a worker. *)
LEMMA ServedKept ==
    ASSUME Served, mode \in {"up", "stopping"}, UNCHANGED <<now, mode, booted, loop>>, now \in Clock,
           \A j \in Jobs : heartbeat'[j] = heartbeat[j] \/ (heartbeat'[j] = now /\ ~Stray(j)'),
           \A j \in Jobs : Stray(j)' => Stray(j) /\ (j \in tracked' => j \in tracked)
    PROVE  Served'
<1>1. \A j \in Jobs : heartbeat'[j] =< now'
  BY DEF Served, Clock
<1>2. \A j \in Jobs : Stray(j)' => /\ heartbeat'[j] = booted' /\ j \notin tracked'
                                   /\ loop'.at = "heartbeat" => j \notin loop'.todo
  BY DEF Served
<1> QED
  BY <1>1, <1>2 DEF Served

LEMMA PollServes ==
    ASSUME ~Faults, OwnershipInv, Served, NEW p \in Pollers, PollStep(p)
    PROVE  Served'
<1>t. TypeOK /\ poll[p] \in PollTask /\ now \in Clock
  BY DEF OwnershipInv, TypeOK
<1>m. mode \in {"up", "stopping"}
  BY <1>t DEF OwnershipInv, Offline, PollStep, PollTick, PollCount, AtCapacity, PollCountSlugs,
     PollSelect, ClaimRow, MayClaim, PollClaimed, Dispatch, PollDone, TypeOK
<1>p. UNCHANGED <<now, mode, booted, loop>>
  BY DEF PollStep, PollTick, PollCount, AtCapacity, PollCountSlugs, PollSelect, ClaimRow,
     PollClaimed, Dispatch, PollDone, process
<1>1. CASE UNCHANGED <<table, runs, tracked>>
  <2>1. \A j \in Jobs : heartbeat'[j] = heartbeat[j] /\ (Stray(j)' <=> Stray(j))
    BY <1>1, StrayIs, StrayIsAfter DEF table
  <2> QED
    BY <1>1, <1>t, <1>m, <1>p, <2>1, ServedKept
<1>2. CASE ClaimRow(p)
  <2> DEFINE row == Head(poll[p].rows)
             run == [job |-> row.job, seq |-> attempt[row.job] + 1,
                     attempt |-> row.attempt + 1, phase |-> "claimed", by |-> p]
  <2>1. row.job \in Jobs
    <3>1. poll[p].rows \in Seq(Row) /\ poll[p].rows # <<>>
      BY <1>t, <1>2 DEF ClaimRow, MayClaim, PollTask
    <3>2. row \in Row
      BY <3>1
    <3> QED
      BY <3>2 DEF Row
  <2>2. tracked' = tracked
        /\ \/ UNCHANGED <<table, runs>>
           \/ /\ status' = [status EXCEPT ![row.job] = "running"]
              /\ heartbeat' = [heartbeat EXCEPT ![row.job] = now]
              /\ runs' = runs \cup {run}
    BY <1>2 DEF ClaimRow
  <2>3. run.job = row.job /\ run.phase \in Owning
    BY DEF Owning
  <2> HIDE DEF row, run
  <2>4. \A j \in Jobs : /\ Stray(j)' => Stray(j)
                        /\ heartbeat'[j] = heartbeat[j] \/ (heartbeat'[j] = now /\ ~Stray(j)')
    BY <1>t, <2>1, <2>2, <2>3, StrayIs, StrayIsAfter DEF table, TypeOK
  <2> QED
    BY <1>t, <1>m, <1>p, <2>2, <2>4, ServedKept
<1>3. CASE Dispatch(p)
  <2>1. PICK r \in ClaimedBy(p) :
           IF SlugOf[r.job] \in defined
           THEN /\ tracked' = tracked \cup {r.job}
                /\ runs' = (runs \ {r}) \cup {[r EXCEPT !.phase = "spawned", !.by = None]}
                /\ UNCHANGED table
           ELSE /\ SetStatus(r.job, "failed")
                /\ runs' = runs \ {r}
                /\ UNCHANGED <<attempt, created, heartbeat, commits, tracked>>
    BY <1>3 DEF Dispatch
  <2>2. r \in runs /\ r \in Run /\ r.job \in Jobs /\ r.phase = "claimed"
    BY <1>t DEF ClaimedBy, TypeOK, Run
  <2>3. CASE SlugOf[r.job] \in defined
    <3> DEFINE q == [r EXCEPT !.phase = "spawned", !.by = None]
    <3>1. q.job = r.job /\ q.phase \in Owning
      BY <2>2 DEF Run, Owning
    <3>2. runs' = (runs \ {r}) \cup {q} /\ tracked' = tracked \cup {r.job} /\ UNCHANGED table
      BY <2>1, <2>3
    <3> HIDE DEF q
    <3>3. \A j \in Jobs : /\ Stray(j)' => Stray(j) /\ j # r.job
                          /\ heartbeat'[j] = heartbeat[j]
      BY <2>2, <3>1, <3>2, StrayIs, StrayIsAfter DEF table, Owning
    <3> QED
      BY <1>t, <1>m, <1>p, <3>2, <3>3, ServedKept
  <2>4. CASE SlugOf[r.job] \notin defined
    <3>1. SetStatus(r.job, "failed") /\ runs' = runs \ {r} /\ UNCHANGED <<heartbeat, tracked>>
      BY <2>1, <2>4
    <3>2. \A j \in Jobs : /\ Stray(j)' => Stray(j)
                          /\ heartbeat'[j] = heartbeat[j]
      BY <1>t, <2>2, <3>1, StrayIs, StrayIsAfter DEF SetStatus, TypeOK
    <3> QED
      BY <1>t, <1>m, <1>p, <3>1, <3>2, ServedKept
  <2> QED
    BY <2>3, <2>4
<1> QED
  BY <1>1, <1>2, <1>3 DEF PollStep, PollTick, PollCount, AtCapacity, PollCountSlugs, PollSelect,
     PollClaimed, PollDone, process

LEMMA WorkerServes ==
    ASSUME OwnershipInv, Served, NEW r \in runs, WorkerStep(r)
    PROVE  Served'
<1>t. TypeOK /\ r \in Run /\ r.job \in Jobs /\ now \in Clock
  BY DEF OwnershipInv, TypeOK, Run
<1>m. mode \in {"up", "stopping"}
  BY <1>t DEF OwnershipInv, Offline, TypeOK
<1>p. UNCHANGED <<now, mode, booted, loop, heartbeat>>
  BY DEF WorkerStep, WorkerBegin, HandlerOk, HandlerErr, complete_job, fail_job, Untrack, process, table
<1>c. \A ph \in Phases : LET q == [r EXCEPT !.phase = ph] IN q.job = r.job /\ q.phase = ph
  BY <1>t DEF Run
<1>1. ASSUME NEW ph \in Owning, runs' = (runs \ {r}) \cup {[r EXCEPT !.phase = ph]},
             UNCHANGED <<status, tracked>>
      PROVE  Served'
  <2> DEFINE q == [r EXCEPT !.phase = ph]
  <2>1. q.job = r.job /\ q.phase \in Owning
    BY <1>1, <1>c DEF Phases
  <2> HIDE DEF q
  <2>2. runs' = (runs \ {r}) \cup {q}
    BY <1>1 DEF q
  <2>3. \A j \in Jobs : Stray(j)' => Stray(j)
    BY <1>1, <2>1, <2>2, StrayIs, StrayIsAfter
  <2> QED
    BY <1>1, <1>t, <1>m, <1>p, <2>3, ServedKept
<1>2. CASE WorkerBegin(r) \/ HandlerOk(r) \/ HandlerErr(r)
  <2>1. UNCHANGED <<status, tracked>>
    BY <1>2 DEF WorkerBegin, HandlerOk, HandlerErr, table
  <2>2. \E ph \in Owning : runs' = (runs \ {r}) \cup {[r EXCEPT !.phase = ph]}
    BY <1>2 DEF WorkerBegin, HandlerOk, HandlerErr, Step, Owning
  <2> QED
    BY <1>1, <2>1, <2>2
<1>3. CASE complete_job(r) \/ fail_job(r)
  <2> DEFINE q == [r EXCEPT !.phase = "ending"]
  <2>1. runs' = (runs \ {r}) \cup {q} /\ tracked' = tracked
        /\ \E s \in {"completed", "pending", "failed"} : SetStatus(r.job, s)
    BY <1>3 DEF complete_job, fail_job, Step
  <2> HIDE DEF q
  <2>2. \A j \in Jobs : Stray(j)' => Stray(j)
    BY <1>t, <2>1, StrayIs, StrayIsAfter DEF SetStatus, TypeOK
  <2> QED
    BY <1>t, <1>m, <1>p, <2>1, <2>2, ServedKept
<1>4. CASE Untrack(r)
  <2>1. r.phase \notin Owning /\ runs' = runs \ {r} /\ tracked' \subseteq tracked /\ status' = status
    BY <1>4 DEF Untrack, table, Owning
  <2>2. \A j \in Jobs : Stray(j)' => Stray(j)
    BY <2>1, StrayIs, StrayIsAfter
  <2> QED
    BY <1>t, <1>m, <1>p, <2>1, <2>2, ServedKept
<1> QED
  BY <1>2, <1>3, <1>4 DEF WorkerStep

(* What changes no running row and leaves the server alone. *)
LEMMA TableServes ==
    ASSUME Served, UNCHANGED <<now, mode, booted, loop, stale, tracked, runs, heartbeat>>,
           \A j \in Jobs : status'[j] = "running" <=> status[j] = "running"
    PROVE  Served'
<1>1. \A j \in Jobs : Stray(j)' <=> Stray(j)
  BY StrayIs, StrayIsAfter
<1> QED
  BY <1>1 DEF Served, Running

LEMMA LoopServes ==
    ASSUME OwnershipInv, Served, LoopStep
    PROVE  Served'
<1>t. TypeOK /\ now \in Clock
  BY DEF OwnershipInv, TypeOK
<1>o. UNCHANGED <<now, mode, booted, stale, tracked, runs>>
  BY DEF LoopStep, CronTick, CronCheck, CronInsert, CronEnd, HeartbeatTick, update_heartbeat,
     HeartbeatEnd, others
<1>m. mode \in {"up", "stopping"}
  BY <1>t DEF LoopStep, CronTick, CronCheck, CronInsert, CronEnd, HeartbeatTick, update_heartbeat,
     HeartbeatEnd, AtSelect, Served, TypeOK
<1>1. ASSUME UNCHANGED heartbeat, \A j \in Jobs : status'[j] = "running" => status[j] = "running",
             loop'.at = "heartbeat" => loop'.todo = tracked
      PROVE  Served'
  <2>1. \A j \in Jobs : Stray(j)' => Stray(j)
    BY <1>o, <1>1, StrayIs, StrayIsAfter
  <2> QED
    BY <1>o, <1>m, <1>1, <2>1 DEF Served
<1>2. CASE CronTick \/ HeartbeatTick \/ HeartbeatEnd
  BY <1>1, <1>2 DEF CronTick, HeartbeatTick, HeartbeatEnd, IdleLoop, table
<1>3. ASSUME NEW s \in Slugs, CronCheck(s) PROVE Served'
  BY <1>1, <1>3, <1>t DEF CronCheck, table, TypeOK
<1>4. CASE CronInsert
  <2>1. \A j \in Jobs : status'[j] = "running" => status[j] = "running"
    BY <1>4, <1>t DEF CronInsert, insert_job, table, TypeOK
  <2> QED
    BY <1>1, <1>4, <1>t, <2>1 DEF CronInsert, insert_job, table, TypeOK
<1>5. CASE CronEnd
  <2>1. \A j \in Jobs : status'[j] = "running" => status[j] = "running"
    BY <1>5, <1>t DEF CronEnd, purge_old_jobs, DeleteRows, table, TypeOK
  <2> QED
    BY <1>1, <1>5, <2>1 DEF CronEnd, purge_old_jobs, DeleteRows, table, IdleLoop
<1>6. ASSUME NEW k \in Jobs, update_heartbeat(k) PROVE Served'
  <2>1. /\ loop.at = "heartbeat" /\ k \in loop.todo /\ status' = status
        /\ heartbeat' \in {heartbeat, [heartbeat EXCEPT ![k] = now]}
        /\ loop' = [loop EXCEPT !.todo = @ \ {k}]
    BY <1>6, <1>t DEF update_heartbeat, TypeOK
  <2>2. loop'.at = loop.at /\ loop'.todo = loop.todo \ {k}
    BY <2>1, <1>t DEF TypeOK
  <2>3. \A j \in Jobs : Stray(j)' <=> Stray(j)
    BY <1>o, <2>1, StrayIs, StrayIsAfter
  <2>4. ~Stray(k)
    BY <1>m, <2>1 DEF Served
  <2>5. \A j \in Jobs : heartbeat'[j] = heartbeat[j] \/ (j = k /\ heartbeat'[j] = now)
    BY <2>1, <1>t DEF TypeOK
  <2>6. \A j \in Jobs : heartbeat'[j] =< now'
    BY <1>o, <1>t, <2>5 DEF Served, Clock
  <2> QED
    BY <1>o, <1>m, <2>2, <2>3, <2>4, <2>5, <2>6 DEF Served
<1> QED
  BY <1>2, <1>3, <1>4, <1>5, <1>6 DEF LoopStep

LEMMA ProcessServes ==
    ASSUME OwnershipInv, Served, Process
    PROVE  Served'
<1>t. TypeOK
  BY DEF OwnershipInv
<1>1. CASE Start
  <2>1. mode' = "recovering" /\ booted' = now /\ stale' = find_stale_jobs
        /\ UNCHANGED <<status, heartbeat, now, loop, tracked>> /\ mode = "down"
    BY <1>1 DEF Start, table
  <2>2. \A j \in Jobs : heartbeat[j] \in Nat /\ now \in Nat /\ heartbeat[j] =< now
    BY <1>t DEF TypeOK, Served, Clock
  <2>3. \A j \in Running : heartbeat[j] < now \/ heartbeat[j] = now
    BY <2>2 DEF Running
  <2> QED
    BY <2>1, <2>3 DEF Served, find_stale_jobs, Running
<1>2. ASSUME NEW j \in Jobs, MarkStale(j) PROVE Served'
  <2>1. /\ mode = "recovering" /\ status' = [status EXCEPT ![j] = IF @ = "gone" THEN @ ELSE "stale"]
        /\ stale' = stale \ {j}
        /\ UNCHANGED <<heartbeat, now, mode, booted, loop, tracked>>
    BY <1>2 DEF MarkStale, SetStatus
  <2>2. Running' \subseteq Running \ {j}
    BY <1>t, <2>1 DEF Running, TypeOK
  <2> QED
    BY <2>1, <2>2 DEF Served
<1>3. CASE Recovered
  <2>1. mode = "recovering" /\ stale = {} /\ mode' = "up"
        /\ UNCHANGED <<status, heartbeat, now, booted, loop, tracked, runs>>
    BY <1>3 DEF Recovered, table
  <2>2. \A j \in Jobs : Stray(j)' => j \in Running
    BY <2>1, StrayIsAfter DEF Running
  <2> QED
    BY <2>1, <2>2 DEF Served
<1>4. CASE Shutdown
  <2>1. mode = "up" /\ mode' = "stopping"
        /\ UNCHANGED <<status, heartbeat, now, booted, loop, tracked, runs>>
    BY <1>4 DEF Shutdown, table
  <2>2. \A j \in Jobs : Stray(j)' <=> Stray(j)
    BY <2>1, StrayIs, StrayIsAfter
  <2> QED
    BY <2>1, <2>2 DEF Served
<1>5. CASE ProcessEnds
  BY <1>5 DEF ProcessEnds, Served, IdleLoop, table
<1> QED
  BY <1>1, <1>2, <1>3, <1>4, <1>5 DEF Process, Exit, Crash

LEMMA ServedNext ==
    ASSUME ~Faults, ~Panics
    PROVE  OwnershipInv /\ Served /\ [Next]_vars => Served'
<1> SUFFICES ASSUME OwnershipInv, Served, [Next]_vars PROVE Served'
  OBVIOUS
<1>t. TypeOK
  BY DEF OwnershipInv
<1>1. CASE Request
  <2>1. UNCHANGED <<now, mode, booted, loop, stale, tracked, runs, heartbeat>>
    BY <1>1 DEF Request, Enqueue, Cancel, Purge, insert_job, cancel_pending_jobs, purge_old_jobs,
       DeleteRows, server
  <2>2. \A j \in Jobs : status'[j] = "running" <=> status[j] = "running"
    BY <1>1, <1>t DEF Request, Enqueue, Cancel, Purge, insert_job, cancel_pending_jobs,
       purge_old_jobs, DeleteRows, Pending, Terminal, TypeOK
  <2> QED
    BY <2>1, <2>2, TableServes
<1>2. CASE Tick
  <2>1. UNCHANGED <<status, heartbeat, mode, booted, loop, stale, tracked, runs>> /\ now' = now + 1
    BY <1>2 DEF Tick, table, server
  <2>2. \A j \in Jobs : heartbeat[j] =< now'
    BY <1>t, <2>1 DEF Served, TypeOK, Clock
  <2>3. \A j \in Jobs : Stray(j)' <=> Stray(j)
    BY <2>1, StrayIs, StrayIsAfter
  <2> QED
    BY <2>1, <2>2, <2>3 DEF Served, Running
<1>3. CASE UNCHANGED vars
  BY <1>3, TableServes DEF vars
<1>4. ASSUME NEW p \in Pollers, PollStep(p) \/ PollFails(p) PROVE Served'
  BY <1>4, PollServes DEF PollFails
<1>5. ASSUME NEW r \in runs, WorkerStep(r) \/ WorkerFails(r) \/ Panic(r) PROVE Served'
  BY <1>5, WorkerServes DEF WorkerFails, Panic
<1>6. CASE LoopStep \/ CronFails
  BY <1>6, LoopServes DEF CronFails
<1>7. CASE Process
  BY <1>7, ProcessServes
<1> QED
  BY <1>1, <1>2, <1>3, <1>4, <1>5, <1>6, <1>7 DEF Next

(* While neither the database fails nor a handler panics, recovery and the *)
(* workers leave no row running that nobody will end, whatever crashes and *)
(* restarts there are (scheduler/mod.rs, recover_stale_jobs).              *)
THEOREM NothingStranded ==
    ASSUME ~Faults, ~Panics
    PROVE  Spec => []NoneStranded
<1>1. Init => Served
  BY JobsAssumption DEF Init, Served, IdleLoop, Running
<1>2. Served => NoneStranded
  BY DEF Served, NoneStranded, Stray, Running
<1> QED
  BY <1>1, <1>2, OwnershipCorrect, ServedNext, PTL DEF Spec
=============================================================================
