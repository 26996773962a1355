----------------------------- MODULE Migrations -----------------------------
(***************************************************************************)
(* The data migrations of `crap-cms migrate up`, `down` and `fresh`, run   *)
(* by processes that know nothing of each other: two people, or two hosts  *)
(* that deploy at the same time.  A command lists what it will do and then *)
(* runs one file after the other, each in a transaction that also writes   *)
(* or removes the file's record; nothing holds the list together with what *)
(* becomes of it.  A command may fail or be killed between any two steps.  *)
(*                                                                         *)
(* The database is two tables here: the records (_crap_migrations), and    *)
(* the data that migrations change.                                        *)
(***************************************************************************)
EXTENDS Integers, SequencesExt

CONSTANTS
    Files,        \* migration files, ordered like their names
    Commands,     \* processes
    MaxCommands,  \* bound on the commands started
    MaxSteps,     \* `down --steps`
    MaxEdits,     \* bound on the files created and removed
    MaxClock      \* bound on the seconds that pass

ASSUME MigrationsAssumption ==
    /\ IsFiniteSet(Files) /\ Files \subseteq Nat
    /\ MaxCommands \in Nat /\ MaxSteps \in Nat /\ MaxEdits \in Nat /\ MaxClock \in Nat

VARIABLES
    disk,        \* the files in migrations/
    edits, clock, started,
    tables,      \* the tables there are
    applied,     \* applied_at of each file, 0 if it is not recorded
    effect,      \* how often the data has seen its up(), less its down()
    command,     \* what each process is doing
    \* what the property excepts
    torn,        \* `fresh` has dropped the records and not the data, or the reverse
    undone       \* files rolled back that were not recorded any more

migrationVars == <<disk, edits, clock, started, tables, applied, effect, command, torn, undone>>

Recorded == {f \in Files : applied[f] # 0}

\* todo: the files, or the tables, that are left
Command == [phase : {"idle", "up", "dropping", "dropped", "applying", "down"},
            todo : Seq(Files \cup {"records", "data"})]
Idle == [phase |-> "idle", todo |-> <<>>]

-----------------------------------------------------------------------------
MigrationsInit ==
    /\ disk \in SUBSET Files
    /\ edits = 0 /\ clock = 1 /\ started = 0
    /\ tables = {"records", "data"}
    /\ applied = [f \in Files |-> 0] /\ effect = [f \in Files |-> 0]
    /\ command = [c \in Commands |-> Idle]
    /\ torn = FALSE /\ undone = {}

\* `migrate create`, a checkout, a file removed
EditFile(f) ==
    /\ edits < MaxEdits /\ edits' = edits + 1
    /\ disk' = IF f \in disk THEN disk \ {f} ELSE disk \cup {f}
    /\ UNCHANGED <<clock, started, tables, applied, effect, command, torn, undone>>

Tick ==
    /\ clock < MaxClock /\ clock' = clock + 1
    /\ UNCHANGED <<disk, edits, started, tables, applied, effect, command, torn, undone>>

\* list_migration_files, sorted by name; get_pending_migrations leaves out the
\* recorded ones.
Sorted(files) == SetToSortSeq(files, LAMBDA f, g : f < g)

\* get_applied_migrations_desc
LaterFirst(f, g) == applied[f] > applied[g] \/ (applied[f] = applied[g] /\ f > g)

Set(c, phase, todo) ==
    command' = [command EXCEPT ![c] =
                   IF phase \in {"applying", "down"} /\ todo = <<>> THEN Idle
                   ELSE [phase |-> phase, todo |-> todo]]

Starting(c) ==
    /\ command[c] = Idle /\ started < MaxCommands /\ started' = started + 1

\* sync_all creates what is not there.
UpStarts(c) ==
    /\ Starting(c)
    /\ tables' = {"records", "data"}
    /\ Set(c, "up", <<>>)
    /\ UNCHANGED <<disk, edits, clock, applied, effect, torn, undone>>

UpLists(c) ==
    /\ command[c].phase = "up"
    /\ Set(c, "applying", Sorted(disk \ Recorded))
    /\ UNCHANGED <<disk, edits, clock, started, tables, applied, effect, torn, undone>>

\* Mutant: INSERT OR IGNORE.
CanRecordAny(f) == "records" \in tables

\* record_migration: the file name is the primary key.
CanRecord(f) == "records" \in tables /\ applied[f] = 0

\* One transaction: up(), the record, the commit.
Applies(c) ==
    /\ command[c].phase = "applying"
    /\ LET f == Head(command[c].todo)
       IN  /\ f \in disk /\ "data" \in tables /\ CanRecord(f)
           /\ effect' = [effect EXCEPT ![f] = @ + 1]
           /\ applied' = [applied EXCEPT ![f] = clock]
    /\ Set(c, "applying", Tail(command[c].todo))
    /\ UNCHANGED <<disk, edits, clock, started, tables, torn, undone>>

DownStarts(c, steps) ==
    /\ Starting(c)
    /\ LET latest == SetToSortSeq(Recorded, LaterFirst)
       IN  Set(c, "down", SubSeq(latest, 1, IF steps < Len(latest) THEN steps ELSE Len(latest)))
    /\ UNCHANGED <<disk, edits, clock, tables, applied, effect, torn, undone>>

\* One transaction: down(), the removal of the record, which need not be
\* there, and the commit.
RollsBack(c) ==
    /\ command[c].phase = "down"
    /\ LET f == Head(command[c].todo)
       IN  /\ f \in disk /\ tables = {"records", "data"}
           /\ effect' = [effect EXCEPT ![f] = @ - 1]
           /\ applied' = [applied EXCEPT ![f] = 0]
           /\ undone' = IF f \in Recorded THEN undone ELSE undone \cup {f}
    /\ Set(c, "down", Tail(command[c].todo))
    /\ UNCHANGED <<disk, edits, clock, started, tables, torn>>

\* drop_all_tables lists the tables, the oldest first, ...
FreshStarts(c) ==
    /\ Starting(c)
    /\ LET listed == SelectSeq(<<"records", "data">>, LAMBDA t : t \in tables)
       IN  Set(c, IF listed = <<>> THEN "dropped" ELSE "dropping", listed)
    /\ UNCHANGED <<disk, edits, clock, tables, applied, effect, torn, undone>>

\* ... and drops them without a transaction.
Drops(c) ==
    /\ command[c].phase = "dropping"
    /\ LET t == Head(command[c].todo)
       IN  /\ tables' = tables \ {t}
           /\ applied' = IF t = "records" THEN [f \in Files |-> 0] ELSE applied
           /\ effect' = IF t = "data" THEN [f \in Files |-> 0] ELSE effect
           /\ undone' = IF t = "data" THEN {} ELSE undone
    /\ torn' = \E f \in Files \ undone' : effect'[f] # IF applied'[f] # 0 THEN 1 ELSE 0
    /\ LET rest == Tail(command[c].todo)
       IN  Set(c, IF rest = <<>> THEN "dropped" ELSE "dropping", rest)
    /\ UNCHANGED <<disk, edits, clock, started>>

FreshSyncs(c) ==
    /\ command[c].phase = "dropped"
    /\ tables' = {"records", "data"}
    /\ Set(c, "applying", Sorted(disk))
    /\ UNCHANGED <<disk, edits, clock, started, applied, effect, torn, undone>>

\* The file is gone or its Lua code fails, a table is missing, the record is
\* there already, the process is killed: the transaction, if any, is rolled
\* back and the command ends.
Stops(c) ==
    /\ command[c] # Idle
    /\ command' = [command EXCEPT ![c] = Idle]
    /\ UNCHANGED <<disk, edits, clock, started, tables, applied, effect, torn, undone>>

MigrationsNext ==
    \/ \E f \in Files : EditFile(f)
    \/ Tick
    \/ \E c \in Commands :
          \/ UpStarts(c) \/ UpLists(c) \/ Applies(c)
          \/ \E steps \in 1 .. MaxSteps : DownStarts(c, steps)
          \/ RollsBack(c)
          \/ FreshStarts(c) \/ Drops(c) \/ FreshSyncs(c)
          \/ Stops(c)

MigrationsSpec == MigrationsInit /\ [][MigrationsNext]_migrationVars

-----------------------------------------------------------------------------
(* The records tell what the data has seen: a recorded file has run once   *)
(* and no other has, however many commands apply and roll back the same    *)
(* files at once and wherever they are stopped.  The exceptions are two    *)
(* things nothing prevents: a `fresh` that does not come to its end, and   *)
(* two `down` with the same file on their lists, of which the second runs  *)
(* down() without a record.                                                *)
RecordsTellEffects ==
    torn \/ \A f \in Files \ undone : effect[f] = IF f \in Recorded THEN 1 ELSE 0
=============================================================================
