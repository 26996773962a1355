-------------------------------- MODULE Pools --------------------------------
(***************************************************************************)
(* What requests and jobs wait for: a database connection, a Lua VM and    *)
(* the write lock of SQLite.  Each request follows the script of its       *)
(* handler; a VM is taken for one Lua call and given back when it returns, *)
(* and every wait ends in the resource or in a timeout.  The scripts are   *)
(* those of collections that configure every function, and of a server     *)
(* with admin.access: a call with nothing to run takes no VM.              *)
(***************************************************************************)
EXTENDS Integers, Sequences, FiniteSets

CONSTANTS
    Requests,      \* requests and jobs, each served once
    Connections,   \* database.pool_max_size of them
    VMs,           \* hooks.vm_pool_size of them
    Mixes,         \* which requests meet: functions from Requests to kinds
    LuaWriters,    \* the requests whose Lua functions write documents
    Nobody,
    MaxPanics      \* bound on the Rust panics below a Lua call

\* gRPC Create, Update, Delete: the first connection is kept throughout.
CreateScript == <<"connect", "access", "fields", "connect", "begin", "before_write",
                  "after_write", "commit", "return", "fields", "return">>

\* Mutant: the connection of the access check is kept.
FormKeeping == <<"user", "return", "gate", "enter", "return", "connect", "access", "connect",
                 "fields", "connect", "begin", "before_write", "after_write", "commit",
                 "return", "return", "return">>

\* The admin form: each step gives its connection back.  In front of the
\* handler the middleware loads the user and asks admin.access ("enter").
FormScript == <<"user", "return", "gate", "enter", "return", "connect", "access", "return",
                "connect", "fields", "return", "connect", "begin", "before_write",
                "after_write", "commit", "return">>
Handler == 6

\* gRPC Find, on one connection.
FindScript == <<"connect", "access", "before_read", "after_read", "fields", "return">>

\* A job records its end on a second connection, the first not yet dropped.
JobScript == <<"connect", "handler", "commit", "connect", "record", "return", "return">>

Script == [create |-> CreateScript, form |-> FormScript, find |-> FindScript, job |-> JobScript]

ASSUME MixesAssumption == Mixes \subseteq [Requests -> DOMAIN Script]
ASSUME NobodyAssumption == Nobody \notin Requests
ASSUME WritersAssumption == LuaWriters \subseteq Requests
ASSUME PanicsAssumption == MaxPanics \in Nat
ASSUME FiniteAssumption == IsFiniteSet(Requests) /\ IsFiniteSet(VMs)
\* The config is refused with a pool of none (config/types.rs).
ASSUME PoolsAssumption == Connections # {} /\ VMs # {}

VARIABLES
    kind,      \* the handler of each request
    at,        \* the step of its script a request is in; 0 before it arrives
    phase,     \* where in a Lua call: "ready", "asleep", "woken", "running", "writing"
    outcome,   \* "none", "ok", "error"
    ran,       \* the steps whose Lua functions ran
    missed,    \* the steps that found no VM in time, and those at the gate without
               \* a connection or ended by a panic
    owner,     \* the request that holds a connection
    user,      \* the request that holds a VM
    context,   \* the request whose transaction a VM's TxContext points to
    lock,      \* the request that holds SQLite's write lock
    panics

vars == <<kind, at, phase, outcome, ran, missed, owner, user, context, lock, panics>>

Steps == 0..17
Connecting == {"connect", "user", "gate"}
Refusing == {"enter", "access", "before_read", "before_write", "after_write", "handler"}
Tolerant == {"fields", "after_read"}
WithContext == (Refusing \cup Tolerant) \ {"before_read", "after_read"}

Step(r) == IF at[r] \in 1..Len(Script[kind[r]]) THEN Script[kind[r]][at[r]] ELSE "none"
Arrived(r) == at[r] # 0
Ended(r) == outcome[r] # "none"
Idle == {v \in VMs : user[v] = Nobody}
Free == {c \in Connections : owner[c] = Nobody}
In(ph) == {r \in Requests : phase[r] = ph}

TypeOK ==
    /\ kind \in Mixes
    /\ at \in [Requests -> Steps]
    /\ phase \in [Requests -> {"ready", "asleep", "woken", "running", "writing"}]
    /\ outcome \in [Requests -> {"none", "ok", "error"}]
    /\ ran \in [Requests -> SUBSET Steps] /\ missed \in [Requests -> SUBSET Steps]
    /\ owner \in [Connections -> Requests \cup {Nobody}]
    /\ user \in [VMs -> Requests \cup {Nobody}]
    /\ context \in [VMs -> Requests \cup {Nobody}]
    /\ lock \in Requests \cup {Nobody}
    /\ panics \in 0..MaxPanics

Init ==
    /\ kind \in Mixes
    /\ at = [r \in Requests |-> 0] /\ phase = [r \in Requests |-> "ready"]
    /\ outcome = [r \in Requests |-> "none"]
    /\ ran = [r \in Requests |-> {}] /\ missed = [r \in Requests |-> {}]
    /\ owner = [c \in Connections |-> Nobody]
    /\ user = [v \in VMs |-> Nobody] /\ context = [v \in VMs |-> Nobody]
    /\ lock = Nobody /\ panics = 0

------------------------------------------------------------------------------
(* How a request goes on.                                                   *)

Go(r) == at' = [at EXCEPT ![r] = @ + 1] /\ outcome' = outcome

Finish(r, how) == outcome' = [outcome EXCEPT ![r] = how] /\ at' = at

\* The connections, the transaction and its lock go as the handler returns.
GiveUp(r) ==
    /\ Finish(r, "error")
    /\ owner' = [c \in Connections |-> IF owner[c] = r THEN Nobody ELSE owner[c]]
    /\ lock' = IF lock = r THEN Nobody ELSE lock

\* A failed job goes on to record the failure, its transaction rolled back.
Recording(r) ==
    /\ kind[r] = "job" /\ at[r] < 4
    /\ at' = [at EXCEPT ![r] = 4] /\ outcome' = outcome /\ owner' = owner
    /\ lock' = IF lock = r THEN Nobody ELSE lock

\* Without the user, or without an answer of the gate, the middleware hands
\* the request on to its handler.
PassOver(r) ==
    /\ missed' = [missed EXCEPT ![r] = @ \cup {at[r]}]
    /\ at' = [at EXCEPT ![r] = Handler] /\ outcome' = outcome
    /\ owner' = [c \in Connections |-> IF owner[c] = r THEN Nobody ELSE owner[c]]
    /\ lock' = IF lock = r THEN Nobody ELSE lock

Fail(r) ==
    \/ Step(r) = "handler" /\ Recording(r)
    \/ Step(r) # "handler" /\ GiveUp(r)

Arrive(r) ==
    /\ at[r] = 0 /\ Go(r)
    /\ UNCHANGED <<kind, phase, ran, missed, owner, user, context, lock, panics>>

------------------------------------------------------------------------------
(* Connections and the write lock.                                          *)

Active(r, step) == Step(r) = step /\ ~Ended(r)

Connect(r) ==
    /\ \E step \in Connecting : Active(r, step)
    /\ \E c \in Free : owner' = [owner EXCEPT ![c] = r]
    /\ Go(r)
    /\ UNCHANGED <<kind, phase, ran, missed, user, context, lock, panics>>

\* Mutant: a second connection that is waited for without a limit.
ConnectTimeoutOnce(r) ==
    /\ Active(r, "connect") /\ Free = {} /\ at[r] = 1
    /\ GiveUp(r)
    /\ UNCHANGED <<kind, phase, ran, missed, user, context, panics>>

\* connection_timeout passes with every connection taken.
ConnectTimeout(r) ==
    /\ Active(r, "connect") /\ Free = {}
    /\ GiveUp(r)
    /\ UNCHANGED <<kind, phase, ran, missed, user, context, panics>>

\* The same in front of the handler.
GateTimeout(r) ==
    /\ Active(r, "user") \/ Active(r, "gate")
    /\ Free = {}
    /\ PassOver(r)
    /\ UNCHANGED <<kind, phase, ran, user, context, panics>>

Return(r) ==
    /\ Active(r, "return")
    /\ \E c \in {d \in Connections : owner[d] = r} : owner' = [owner EXCEPT ![c] = Nobody]
    /\ IF at[r] = Len(Script[kind[r]]) THEN Finish(r, "ok") ELSE Go(r)
    /\ UNCHANGED <<kind, phase, ran, missed, user, context, lock, panics>>

\* BEGIN IMMEDIATE takes the lock or waits for it up to busy_timeout.
Begin(r) ==
    /\ Active(r, "begin") /\ lock = Nobody
    /\ lock' = r /\ Go(r)
    /\ UNCHANGED <<kind, phase, ran, missed, owner, user, context, panics>>

\* The autocommit UPDATE that completes or fails a run.
Record(r) ==
    /\ Active(r, "record") /\ lock = Nobody
    /\ Go(r)
    /\ UNCHANGED <<kind, phase, ran, missed, owner, user, context, lock, panics>>

BusyTimeout(r) ==
    /\ Active(r, "begin") \/ Active(r, "record")
    /\ lock \notin {Nobody, r}
    /\ GiveUp(r)
    /\ UNCHANGED <<kind, phase, ran, missed, user, context, panics>>

Commit(r) ==
    /\ Active(r, "commit")
    /\ lock' = IF lock = r THEN Nobody ELSE lock
    /\ Go(r)
    /\ UNCHANGED <<kind, phase, ran, missed, owner, user, context, panics>>

------------------------------------------------------------------------------
(* Lua calls.                                                               *)

Calling(r) == Step(r) \in Refusing \cup Tolerant /\ ~Ended(r)

\* pop, and then the functions that take a connection set TxContext.
TakeVM(r) ==
    /\ \E v \in Idle :
         /\ user' = [user EXCEPT ![v] = r]
         /\ context' = [context EXCEPT ![v] = IF Step(r) \in WithContext THEN r ELSE @]
    /\ phase' = [phase EXCEPT ![r] = "running"]
    /\ UNCHANGED <<kind, at, outcome, ran, missed, owner, lock, panics>>

\* The newcomer and the woken waiter find a VM or (again) go to sleep, for
\* another five seconds.
Acquire(r) == Calling(r) /\ phase[r] \in {"ready", "woken"} /\ TakeVM(r)

Sleep(r) ==
    /\ Calling(r) /\ phase[r] \in {"ready", "woken"} /\ Idle = {}
    /\ phase' = [phase EXCEPT ![r] = "asleep"]
    /\ UNCHANGED <<kind, at, outcome, ran, missed, owner, user, context, lock, panics>>

\* What a caller does when acquire gives up.
WithoutVM(r) ==
    /\ missed' = [missed EXCEPT ![r] = @ \cup {at[r]}]
    /\ \/ Step(r) \in Refusing /\ Fail(r)
       \/ Step(r) \in Tolerant /\ Go(r) /\ UNCHANGED <<owner, lock>>

\* Five seconds pass; a VM that has come back meanwhile is still taken.
AcquireTimeout(r) ==
    /\ Calling(r) /\ phase[r] = "asleep"
    /\ \/ TakeVM(r)
       \/ /\ Idle = {}
          /\ WithoutVM(r)
          /\ phase' = [phase EXCEPT ![r] = "ready"]
          /\ UNCHANGED <<kind, ran, user, context, panics>>

\* Mutant: the VM pushed back and nobody told.
DropGuardSilently(r) ==
    /\ user' = [v \in VMs |-> IF user[v] = r THEN Nobody ELSE user[v]]
    /\ phase' = [phase EXCEPT ![r] = "ready"]

\* VmGuard::drop pushes the VM back and wakes one sleeper, if there is one.
DropGuard(r) ==
    /\ user' = [v \in VMs |-> IF user[v] = r THEN Nobody ELSE user[v]]
    /\ LET back == [phase EXCEPT ![r] = "ready"] IN
       \/ \E s \in In("asleep") : phase' = [back EXCEPT ![s] = "woken"]
       \/ In("asleep") = {} /\ phase' = back

\* Mutant: an early return before TxContext is removed.
KeepContext(r) == context' = context

ClearContext(r) ==
    context' = [v \in VMs |-> IF user[v] = r /\ Step(r) \in WithContext THEN Nobody ELSE context[v]]

\* A function writes a document: its transaction needs the lock.
WantLock(r) ==
    /\ phase[r] = "running" /\ r \in LuaWriters /\ Step(r) \in WithContext /\ lock # r
    /\ phase' = [phase EXCEPT ![r] = "writing"]
    /\ UNCHANGED <<kind, at, outcome, ran, missed, owner, user, context, lock, panics>>

GetLock(r) ==
    /\ phase[r] = "writing" /\ lock = Nobody
    /\ lock' = r /\ phase' = [phase EXCEPT ![r] = "running"]
    /\ UNCHANGED <<kind, at, outcome, ran, missed, owner, user, context, panics>>

\* The functions return.  The transaction around an access function ends with
\* it, the one around hooks or a job handler does not.
CallReturns(r) ==
    /\ phase[r] = "running"
    /\ ClearContext(r) /\ DropGuard(r)
    /\ ran' = [ran EXCEPT ![r] = @ \cup {at[r]}]
    /\ Go(r)
    /\ lock' = IF lock = r /\ Step(r) \in {"enter", "access", "fields"} THEN Nobody ELSE lock
    /\ UNCHANGED <<kind, missed, owner, panics>>

\* A Lua error, a denial, the instruction limit, or SQLITE_BUSY in a write.
CallFails(r) ==
    /\ \/ phase[r] = "running"
       \/ phase[r] = "writing" /\ lock # Nobody
    /\ Step(r) \in Refusing
    /\ ClearContext(r) /\ DropGuard(r)
    /\ Fail(r)
    /\ UNCHANGED <<kind, ran, missed, panics>>

\* A field access function that fails denies its field, an after_read hook
\* that fails leaves the document as it was: the handler goes on.
CallFailsTolerated(r) ==
    /\ phase[r] = "writing" /\ lock # Nobody /\ Step(r) \in Tolerant
    /\ ClearContext(r) /\ DropGuard(r)
    /\ ran' = [ran EXCEPT ![r] = @ \cup {at[r]}]
    /\ Go(r)
    /\ UNCHANGED <<kind, missed, owner, lock, panics>>

\* A Rust panic unwinds through the runner: the guards are dropped, the lines
\* that remove TxContext are not reached.  The gate takes the JoinError of its
\* task for consent.
Panic(r) ==
    /\ phase[r] = "running" /\ panics < MaxPanics
    /\ panics' = panics + 1
    /\ DropGuard(r)
    /\ \/ Step(r) = "enter" /\ PassOver(r)
       \/ Step(r) # "enter" /\ GiveUp(r) /\ missed' = missed
    /\ UNCHANGED <<kind, ran, context>>

Done == \A r \in Requests : Ended(r)

Progress(r) ==
    \/ Connect(r) \/ ConnectTimeout(r) \/ GateTimeout(r) \/ Return(r)
    \/ Begin(r) \/ Record(r) \/ BusyTimeout(r) \/ Commit(r)
    \/ Acquire(r) \/ Sleep(r) \/ AcquireTimeout(r)
    \/ GetLock(r) \/ CallReturns(r) \/ CallFails(r) \/ CallFailsTolerated(r)

Next ==
    \/ \E r \in Requests : Arrive(r) \/ Progress(r) \/ WantLock(r) \/ Panic(r)
    \/ Done /\ UNCHANGED vars

\* Threads run, Lua calls end (hooks.max_instructions), waits time out.
Fairness == \A r \in Requests : WF_vars(Progress(r))

Spec == Init /\ [][Next]_vars

FairSpec == Spec /\ Fairness

------------------------------------------------------------------------------
(* Properties.                                                              *)

\* The raw connection pointer in a VM is the one of the call that runs in it:
\* what an earlier request left there was left by a panic, and then only
\* calls that set no pointer of their own can meet it.
ContextIsOwn ==
    \A v \in VMs :
       /\ user[v] # Nobody /\ Step(user[v]) \in WithContext => context[v] = user[v]
       /\ context[v] \notin {Nobody, user[v]} => panics > 0

\* Nobody sleeps while a VM lies idle, unless enough waiters have been woken to
\* take all that are idle.
NoLostWakeup ==
    In("asleep") = {} \/ Cardinality(Idle) <= Cardinality(In("woken"))

\* Whether a request waits for what members of S hold, all of it.
ForConnection(r) == \E step \in Connecting : Active(r, step)
ForVM(r) == Calling(r) /\ phase[r] \in {"ready", "asleep", "woken"}
ForLock(r) == Active(r, "begin") \/ Active(r, "record") \/ phase[r] = "writing"
WaitsIn(r, S) ==
    \/ ForConnection(r) /\ \A c \in Connections : owner[c] \in S
    \/ ForVM(r) /\ \A v \in VMs : user[v] \in S
    \/ ForLock(r) /\ lock \in S

\* Requests that wait for each other in a circle, which only a timeout breaks,
\* are always of two kinds: handlers that keep a connection while they take a
\* second one, or a Lua function that wants the write lock outside the
\* transaction of its request.
KnotsKnown ==
    LET Known(r) == \/ ForConnection(r) /\ kind[r] \in {"create", "job"} /\ at[r] > 1
                    \/ phase[r] = "writing"
    IN \A S \in (SUBSET {r \in Requests : ~Known(r)}) \ {{}} : \E r \in S : ~WaitsIn(r, S)

\* No write commits and no read answers around a function that should have run:
\* access checks and write hooks that find no VM refuse the request, and only
\* field access and after_read are passed over, after a wait that timed out.
\* The gate is the exception: it is passed over when the user or the check finds
\* no connection in time or the check panics, and refuses when it finds no VM.
NothingPassedOver ==
    \A r \in Requests : outcome[r] = "ok" /\ kind[r] # "job" =>
       \A i \in 1..Len(Script[kind[r]]) :
          /\ Script[kind[r]][i] \in Refusing =>
                \/ i \in ran[r]
                \/ Script[kind[r]][i] = "enter" /\ missed[r] \cap 1..i # {}
          /\ Script[kind[r]][i] \in Tolerant => i \in ran[r] \cup missed[r]

\* Every request that arrives is answered, knots included.
Answered == \A r \in Requests : Arrived(r) ~> Ended(r)
==============================================================================
