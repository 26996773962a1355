------------------------------ MODULE EventBus ------------------------------
(***************************************************************************)
(* The event bus: what publish_event, EventBus::publish and the streams of *)
(* gRPC Subscribe and the admin interface's SSE endpoint do to an event.   *)
(*                                                                         *)
(* A write that wants an event spawns a task and goes on.  The task asks   *)
(* the live setting and the hooks, takes the next number and then sends,   *)
(* with nothing between these steps that would order two tasks.  The       *)
(* channel is tokio's broadcast: it keeps the last Capacity events, and a  *)
(* subscriber that is further behind skips to the oldest it still has.     *)
(***************************************************************************)
EXTENDS Naturals, Sequences

CONSTANTS Topics,    \* the documents events are about
          Subs,      \* subscribers
          Capacity,  \* live.channel_capacity
          MaxEvents  \* bound: numbers taken

VARIABLES nextSeq,   \* EventBus.sequence
          tasks,     \* publications under way
          log,       \* history: what was sent to the channel, in order
          sub        \* the subscribers

busVars == <<nextSeq, tasks, log, sub>>

ASSUME BusAssumption ==
    /\ Capacity \in Nat \ {0}
    /\ MaxEvents \in Nat

\* What was written, and whether its writer had cleared the populate cache.
\* The number is 0 until the task takes one.
Event == [topic : Topics, ver : Nat, cleared : BOOLEAN, seq : Nat]
\* wants is the filter computed when the stream was opened; start and next
\* are positions in the log.
Sub   == [on : BOOLEAN, wants : SUBSET Topics, start : Nat, next : Nat,
          lagged : BOOLEAN, seen : Seq(Event)]

Off == [on |-> FALSE, wants |-> {}, start |-> 0, next |-> 0,
        lagged |-> FALSE, seen |-> <<>>]

BusTypeOK ==
    /\ nextSeq \in Nat
    /\ tasks \subseteq Event
    /\ log \in Seq(Event)
    /\ sub \in [Subs -> Sub]

BusInit ==
    /\ nextSeq = 1
    /\ tasks = {}
    /\ log = <<>>
    /\ sub = [s \in Subs |-> Off]

\* publish_event hands the event to a background task.
Spawned(topic, ver, cleared) ==
    tasks \cup {[topic |-> topic, ver |-> ver, cleared |-> cleared, seq |-> 0]}

\* The live setting or a before_broadcast hook suppresses the event or fails.
Suppress(e) ==
    /\ e \in tasks /\ e.seq = 0
    /\ tasks' = tasks \ {e}
    /\ UNCHANGED <<nextSeq, log, sub>>

\* Mutant: a publish that reads the counter without advancing it.
ReadNumber(e) ==
    /\ e \in tasks /\ e.seq = 0
    /\ nextSeq <= MaxEvents
    /\ tasks' = (tasks \ {e}) \cup {[e EXCEPT !.seq = nextSeq]}
    /\ UNCHANGED <<nextSeq, log, sub>>

\* fetch_add.
TakeNumber(e) ==
    /\ e \in tasks /\ e.seq = 0
    /\ nextSeq <= MaxEvents
    /\ nextSeq' = nextSeq + 1
    /\ tasks' = (tasks \ {e}) \cup {[e EXCEPT !.seq = nextSeq]}
    /\ UNCHANGED <<log, sub>>

\* sender.send: lost when nobody listens.
Send(e) ==
    /\ e \in tasks /\ e.seq # 0
    /\ tasks' = tasks \ {e}
    /\ log' = IF \E s \in Subs : sub[s].on THEN Append(log, e) ELSE log
    /\ UNCHANGED <<nextSeq, sub>>

\* A stream begins with the events to come, filtered by what its user may
\* read now and asked for.
Subscribe(s, wants) ==
    /\ ~sub[s].on
    /\ sub' = [sub EXCEPT ![s] = [Off EXCEPT !.on = TRUE, !.wants = wants,
                                   !.start = Len(log) + 1, !.next = Len(log) + 1]]
    /\ UNCHANGED <<nextSeq, tasks, log>>

Unsubscribe(s) ==
    /\ sub[s].on
    /\ sub' = [sub EXCEPT ![s] = Off]
    /\ UNCHANGED <<nextSeq, tasks, log>>

\* The position of the oldest event the channel still has.
Oldest == IF Len(log) > Capacity THEN Len(log) - Capacity + 1 ELSE 1

\* The stream takes the next event, or learns that it lagged: both streams
\* pass over that and go on from the oldest event there is.
Receive(s) ==
    LET e == log[sub[s].next] IN
    /\ sub[s].on /\ sub[s].next <= Len(log)
    /\ sub' = IF sub[s].next < Oldest
              THEN [sub EXCEPT ![s].next = Oldest, ![s].lagged = TRUE]
              ELSE [sub EXCEPT ![s].next = @ + 1,
                               ![s].seen = IF e.topic \in sub[s].wants
                                           THEN Append(@, e) ELSE @]
    /\ UNCHANGED <<nextSeq, tasks, log>>

BusNext ==
    \/ \E e \in tasks : Suppress(e) \/ TakeNumber(e) \/ Send(e)
    \/ \E s \in Subs : Unsubscribe(s) \/ Receive(s)
    \/ \E s \in Subs, wants \in SUBSET Topics : Subscribe(s, wants)

-----------------------------------------------------------------------------
(***************************************************************************)
(* Properties.                                                             *)
(***************************************************************************)
\* The positions of the events a subscriber was to see so far.
Due(s) == {i \in sub[s].start .. sub[s].next - 1 : log[i].topic \in sub[s].wants}

\* A gap in the numbers is the only sign of a lost event (grpc-streaming.md):
\* no number is given twice, so an event a subscriber has not seen leaves its
\* number out of those it saw.  What it has seen it wanted, each event once
\* and in the order of sending, and one that never lagged has seen them all.
LossesShow ==
    /\ \A i, j \in DOMAIN log : log[i].seq = log[j].seq => i = j
    /\ \A s \in Subs : sub[s].on =>
         LET seen == sub[s].seen IN
         /\ \A m \in DOMAIN seen : \E i \in Due(s) : seen[m] = log[i]
         /\ \A m, n \in DOMAIN seen : m < n =>
              \E i, j \in Due(s) : i < j /\ seen[m] = log[i] /\ seen[n] = log[j]
         /\ ~sub[s].lagged => \A i \in Due(s) : \E m \in DOMAIN seen : seen[m] = log[i]
=============================================================================
