---------------------------- MODULE PoolsProofs ----------------------------
(***************************************************************************)
(* Proofs about Pools, for any number of requests, connections and VMs and *)
(* any mix of handlers: whose connection a VM writes through, that no      *)
(* wakeup is lost, that nothing is passed over, and who can wait in a      *)
(* circle.  That circles come to an end is left to the run.                *)
(***************************************************************************)
EXTENDS Pools, FiniteSetTheorems, TLAPS

LuaSteps == Refusing \cup Tolerant

\* A request that is not "ready" is in a Lua call, ...
Busy(r) == phase[r] # "ready" => Calling(r)

\* ... a VM is held by one that runs in it, no two by the same, ...
Held(v) == user[v] # Nobody => phase[user[v]] \in {"running", "writing"}
Single  == \A v, w \in VMs : user[v] # Nobody /\ user[v] = user[w] => v = w

\* ... and points to its user's connection or, short of a panic, to none.
Pointer(v) ==
    /\ user[v] # Nobody /\ Step(user[v]) \in WithContext => context[v] = user[v]
    /\ user[v] = Nobody \/ Step(user[v]) \notin WithContext
         => context[v] = Nobody \/ panics > 0

\* What lies behind a request has run or timed out, or is the gate.
Past(r, i) ==
    /\ Script[kind[r]][i] \in Refusing =>
          \/ i \in ran[r]
          \/ Script[kind[r]][i] = "enter" /\ missed[r] \cap 1..i # {}
    /\ Script[kind[r]][i] \in Tolerant => i \in ran[r] \cup missed[r]
Behind(r) == kind[r] # "job" => \A i \in 1 .. Len(Script[kind[r]]) : i < at[r] => Past(r, i)

Place(r) ==
    /\ at[r] <= Len(Script[kind[r]])
    /\ outcome[r] = "ok" => at[r] = Len(Script[kind[r]])

CallInv ==
    /\ \A r \in Requests : Busy(r)
    /\ \A v \in VMs : Held(v)
    /\ \A v \in VMs : Pointer(v)
    /\ Single

ScriptInv == \A r \in Requests : Place(r) /\ Behind(r)

Inv == TypeOK /\ CallInv /\ ScriptInv /\ NoLostWakeup

-----------------------------------------------------------------------------
LEMMA ScriptFacts ==
    ASSUME NEW k \in DOMAIN Script
    PROVE  /\ Len(Script[k]) \in 1 .. 17
           /\ Script[k][Len(Script[k])] = "return"
           /\ k # "job" => \A i \in 1 .. Len(Script[k]) : Script[k][i] # "handler"
           /\ k = "job" => Len(Script[k]) >= 4
           /\ \A i \in 1 .. Len(Script[k]) :
                 Script[k][i] \in {"user", "gate", "enter"} => k = "form" /\ i \in {1, 3, 4}
           /\ k = "form" => /\ Len(Script[k]) = 17 /\ Script[k][4] = "enter"
                            /\ \A i \in {1, 2, 3, 5} : Script[k][i] \notin LuaSteps
  <1>1. CASE k = "create"
    BY <1>1 DEF Script, CreateScript
  <1>2. CASE k = "form"
    BY <1>2 DEF Script, FormScript, LuaSteps, Refusing, Tolerant
  <1>3. CASE k = "find"
    BY <1>3 DEF Script, FindScript
  <1>4. CASE k = "job"
    BY <1>4 DEF Script, JobScript
  <1> QED BY <1>1, <1>2, <1>3, <1>4 DEF Script

LEMMA KindIsScript ==
    ASSUME TypeOK, NEW r \in Requests
    PROVE  kind[r] \in DOMAIN Script
  BY MixesAssumption DEF TypeOK

\* A step that is not the last has one after it.
LEMMA StepFacts ==
    ASSUME TypeOK, NEW r \in Requests
    PROVE  /\ Step(r) \notin {"none", "return"} =>
                /\ at[r] \in 1 .. 16 /\ at[r] + 1 <= Len(Script[kind[r]])
           /\ Step(r) = "handler" => kind[r] = "job"
           /\ Step(r) # "none" => at[r] >= 1 /\ Step(r) = Script[kind[r]][at[r]]
           /\ Script[kind[r]][Len(Script[kind[r]])] = "return"
           /\ Len(Script[kind[r]]) \in 1 .. 17
           /\ kind[r] = "job" => Len(Script[kind[r]]) >= 4
  <1> DEFINE script == Script[kind[r]]
  <1>1. /\ Len(script) \in 1 .. 17 /\ script[Len(script)] = "return"
        /\ kind[r] # "job" => \A i \in 1 .. Len(script) : script[i] # "handler"
        /\ kind[r] = "job" => Len(script) >= 4
    BY KindIsScript, ScriptFacts
  <1>2. at[r] \in Nat
    BY DEF TypeOK, Steps
  <1>3. Step(r) = IF at[r] \in 1 .. Len(script) THEN script[at[r]] ELSE "none"
    BY DEF Step
  <1> HIDE DEF script
  <1>4. CASE at[r] \notin 1 .. Len(script)
    BY <1>1, <1>3, <1>4 DEF script
  <1>5. CASE at[r] \in 1 .. Len(script)
    <2>1. Step(r) = script[at[r]]
      BY <1>3, <1>5
    <2>2. Step(r) # "return" => at[r] # Len(script)
      BY <1>1, <2>1
    <2>3. Step(r) = "handler" => kind[r] = "job"
      BY <1>1, <1>5, <2>1
    <2>4. \A n \in 1 .. 17 : at[r] \in 1 .. n =>
              at[r] >= 1 /\ (at[r] # n => at[r] \in 1 .. 16 /\ at[r] + 1 <= n)
      BY <1>2
    <2> QED BY <1>1, <1>5, <2>1, <2>2, <2>3, <2>4 DEF script
  <1> QED BY <1>4, <1>5

-----------------------------------------------------------------------------
(***************************************************************************)
(* Scripts: how a request goes on, and what that leaves behind it.         *)
(***************************************************************************)
Positions == at' \in [Requests -> Steps] /\ outcome' \in [Requests -> {"none", "ok", "error"}]

\* What ran and what timed out is not forgotten.
Remembers ==
    /\ kind' = kind
    /\ \A q \in Requests : ran[q] \subseteq ran'[q] /\ missed[q] \subseteq missed'[q]

LEMMA StillPast ==
    ASSUME Remembers, NEW q \in Requests, NEW i, Past(q, i)
    PROVE  Past(q, i)'
  BY DEF Past, Remembers

LEMMA GoesOn ==
    ASSUME TypeOK, ScriptInv, Remembers, NEW r \in Requests, Go(r),
           at[r] < Len(Script[kind[r]]),
           Step(r) \in Refusing => at[r] \in ran'[r],
           Step(r) \in Tolerant => at[r] \in ran'[r] \cup missed'[r]
    PROVE  ScriptInv' /\ Positions
  <1>1. Len(Script[kind[r]]) \in 1 .. 17
    BY StepFacts
  <1>2. at[r] \in 0 .. 17 /\ at[r] + 1 \in 0 .. 17 /\ at[r] + 1 <= Len(Script[kind[r]])
    <2>1. at[r] \in 0 .. 17
      BY DEF TypeOK, Steps
    <2>2. \A n \in 1 .. 17, a \in 0 .. 17 : a < n => a + 1 \in 0 .. 17 /\ a + 1 <= n
      OBVIOUS
    <2> QED BY <1>1, <2>1, <2>2
  <1>3. at' = [at EXCEPT ![r] = at[r] + 1] /\ outcome' = outcome /\ kind' = kind
    BY DEF Go, Remembers
  <1>4. Positions
    BY <1>2, <1>3 DEF Positions, TypeOK, Steps
  <1>5. at'[r] = at[r] + 1 /\ \A q \in Requests : q # r => at'[q] = at[q]
    BY <1>3 DEF TypeOK
  <1>6. Place(r)'
    BY <1>1, <1>2, <1>3, <1>5 DEF ScriptInv, Place
  <1>7. ASSUME kind[r] # "job", NEW i \in 1 .. Len(Script[kind[r]]), i < at[r] + 1
        PROVE  Past(r, i)'
    <2>1. CASE i = at[r]
      BY <1>3, <2>1 DEF Step, Past
    <2>2. CASE i < at[r]
      <3>1. Past(r, i)
        BY <1>7, <2>2 DEF ScriptInv, Behind
      <3> QED BY <3>1 DEF Past, Remembers
    <2> QED BY <1>1, <1>2, <1>7, <2>1, <2>2
  <1>8. Behind(r)'
    BY <1>3, <1>5, <1>7 DEF Behind
  <1>9. \A q \in Requests : q # r => Place(q)' /\ Behind(q)'
    BY <1>3, <1>5, StillPast DEF ScriptInv, Place, Behind
  <1> QED BY <1>4, <1>6, <1>8, <1>9 DEF ScriptInv

LEMMA Finishes ==
    ASSUME TypeOK, ScriptInv, Remembers, NEW r \in Requests, NEW how \in {"ok", "error"},
           Finish(r, how), how = "ok" => at[r] = Len(Script[kind[r]])
    PROVE  ScriptInv' /\ Positions
  <1>1. outcome' = [outcome EXCEPT ![r] = how] /\ at' = at /\ kind' = kind
    BY DEF Finish, Remembers
  <1>2. \A q \in Requests : Place(q)'
    BY <1>1 DEF ScriptInv, Place, TypeOK
  <1>3. \A q \in Requests : Behind(q)'
    BY <1>1, StillPast DEF ScriptInv, Behind
  <1> QED BY <1>1, <1>2, <1>3 DEF ScriptInv, Positions, TypeOK

LEMMA Stays ==
    ASSUME TypeOK, ScriptInv, Remembers, at' = at, outcome' = outcome
    PROVE  ScriptInv' /\ Positions
  <1>1. kind' = kind
    BY DEF Remembers
  <1>2. \A q \in Requests : Place(q)' /\ Behind(q)'
    BY <1>1, StillPast DEF ScriptInv, Place, Behind
  <1> QED BY <1>2 DEF ScriptInv, Positions, TypeOK

\* What is released, and that the failure concerns one request only.
Releases ==
    /\ owner' \in [Connections -> Requests \cup {Nobody}]
    /\ lock' \in Requests \cup {Nobody}
Only(r) == \A q \in Requests \ {r} : at'[q] = at[q] /\ outcome'[q] = outcome[q]

LEMMA GivesUp ==
    ASSUME TypeOK, ScriptInv, Remembers, NEW r \in Requests, GiveUp(r)
    PROVE  ScriptInv' /\ Positions /\ Releases /\ Only(r)
  <1>1. ScriptInv' /\ Positions
    BY Finishes DEF GiveUp
  <1>2. Releases
    BY DEF GiveUp, Releases, TypeOK
  <1>3. Only(r)
    BY DEF GiveUp, Finish, Only, TypeOK
  <1> QED BY <1>1, <1>2, <1>3

LEMMA Fails ==
    ASSUME TypeOK, ScriptInv, Remembers, NEW r \in Requests, Fail(r)
    PROVE  ScriptInv' /\ Positions /\ Releases /\ Only(r)
  <1>1. CASE GiveUp(r)
    BY <1>1, GivesUp
  <1>2. CASE Recording(r)
    <2>1. /\ kind[r] = "job" /\ at[r] < 4 /\ kind' = kind
          /\ at' = [at EXCEPT ![r] = 4] /\ outcome' = outcome
          /\ owner' = owner /\ lock' \in {lock, Nobody}
      BY <1>2 DEF Recording, Remembers
    <2>2. Len(Script[kind[r]]) \in 4 .. 17
      BY <2>1, StepFacts
    <2>3. at'[r] = 4 /\ \A q \in Requests : q # r => at'[q] = at[q]
      BY <2>1 DEF TypeOK
    <2>4. outcome[r] # "ok"
      <3>1. outcome[r] = "ok" => at[r] = Len(Script[kind[r]])
        BY DEF ScriptInv, Place
      <3>2. \A n \in 4 .. 17 : n < 4 => FALSE
        OBVIOUS
      <3> QED BY <2>1, <2>2, <3>1, <3>2
    <2>5. Place(r)'
      <3>1. \A n \in 4 .. 17 : 4 <= n
        OBVIOUS
      <3> QED BY <2>1, <2>2, <2>3, <2>4, <3>1 DEF Place
    <2>8. Behind(r)'
      BY <2>1 DEF Behind
    <2>6. \A q \in Requests : q # r => Place(q)' /\ Behind(q)'
      BY <2>1, <2>3, StillPast DEF ScriptInv, Place, Behind
    <2>7. Positions /\ Releases /\ Only(r)
      BY <2>1, <2>3 DEF Positions, Releases, Only, TypeOK, Steps
    <2> QED BY <2>5, <2>6, <2>7, <2>8 DEF ScriptInv
  <1> QED BY <1>1, <1>2 DEF Fail

\* The gate passed over: all that lies between a form and its handler.
LEMMA PassesOver ==
    ASSUME TypeOK, ScriptInv, kind' = kind, ran' = ran, NEW r \in Requests,
           Step(r) \in {"user", "gate", "enter"}, outcome[r] = "none", PassOver(r)
    PROVE  /\ ScriptInv' /\ Positions /\ Releases /\ Only(r)
           /\ missed' \in [Requests -> SUBSET Steps]
  <1>1. /\ missed' = [missed EXCEPT ![r] = @ \cup {at[r]}]
        /\ at' = [at EXCEPT ![r] = 6] /\ outcome' = outcome
        /\ owner' = [c \in Connections |-> IF owner[c] = r THEN Nobody ELSE owner[c]]
        /\ lock' = IF lock = r THEN Nobody ELSE lock
    BY DEF PassOver, Handler
  <1>2. /\ at'[r] = 6 /\ \A q \in Requests : q # r => at'[q] = at[q]
        /\ missed'[r] = missed[r] \cup {at[r]} /\ at[r] \in Steps
    BY <1>1 DEF TypeOK
  <1>3. missed' \in [Requests -> SUBSET Steps] /\ Remembers
    BY <1>1, <1>2 DEF Remembers, TypeOK
  <1>4. Positions /\ Releases /\ Only(r)
    BY <1>1, <1>2 DEF Positions, Releases, Only, TypeOK, Steps
  <1>5. kind[r] = "form" /\ at[r] \in {1, 3, 4}
    <2>1. Step(r) = Script[kind[r]][at[r]] /\ at[r] \in 1 .. Len(Script[kind[r]])
      BY DEF Step
    <2> QED BY <2>1, KindIsScript, ScriptFacts
  <1>6. /\ Len(Script[kind[r]]) = 17 /\ Script[kind[r]][4] = "enter"
        /\ \A i \in {1, 2, 3, 5} : Script[kind[r]][i] \notin LuaSteps
    BY <1>5, KindIsScript, ScriptFacts
  <1>7. ASSUME NEW i \in 1 .. 17, i < 6 PROVE Past(r, i)'
    <2>1. CASE i = 4
      <3>1. at[r] \in missed'[r] \cap 1..i
        BY <1>2, <1>5, <2>1
      <3> QED BY <1>6, <2>1, <3>1 DEF Past, Tolerant
    <2>2. CASE i # 4
      <3>1. i \in {1, 2, 3, 5}
        BY <1>7, <2>2
      <3> QED BY <1>6, <3>1 DEF Past, LuaSteps
    <2> QED BY <2>1, <2>2
  <1>8. Place(r)' /\ Behind(r)'
    BY <1>1, <1>2, <1>6, <1>7 DEF Place, Behind
  <1>9. \A q \in Requests : q # r => Place(q)' /\ Behind(q)'
    BY <1>1, <1>2, <1>3, StillPast DEF ScriptInv, Place, Behind
  <1> QED BY <1>3, <1>4, <1>8, <1>9 DEF ScriptInv

-----------------------------------------------------------------------------
(***************************************************************************)
(* VMs: who holds which, what it points to, and who sleeps.                *)
(***************************************************************************)
Calls ==
    /\ phase' \in [Requests -> {"ready", "asleep", "woken", "running", "writing"}]
    /\ user' \in [VMs -> Requests \cup {Nobody}]
    /\ context' \in [VMs -> Requests \cup {Nobody}]

Sleepers == In("asleep")
Woken    == In("woken")

LEMMA Numbers ==
    ASSUME TypeOK
    PROVE  /\ IsFiniteSet(Idle) /\ IsFiniteSet(Woken)
           /\ Cardinality(Idle) \in Nat /\ Cardinality(Woken) \in Nat
           /\ Idle = {} => Cardinality(Idle) = 0
  <1>1. Idle \subseteq VMs /\ Woken \subseteq Requests
    BY DEF Idle, Woken, In
  <1>2. IsFiniteSet(Idle) /\ IsFiniteSet(Woken)
    BY <1>1, FiniteAssumption, FS_Subset
  <1> QED BY <1>2, FS_CardinalityType, FS_EmptySet

\* The step of a request that another one does not touch.
LEMMA StepKept ==
    ASSUME kind' = kind, NEW r, Only(r), NEW q \in Requests \ {r}
    PROVE  Step(q)' = Step(q) /\ Calling(q)' = Calling(q)
  <1>1. at'[q] = at[q] /\ outcome'[q] = outcome[q]
    BY DEF Only
  <1>2. Step(q)' = Step(q)
    BY <1>1 DEF Step
  <1> QED BY <1>1, <1>2 DEF Calling, Ended

\* A request outside Lua goes on.
LEMMA Outside ==
    ASSUME TypeOK, CallInv, NoLostWakeup, NEW r \in Requests, ~Calling(r), Only(r),
           UNCHANGED <<kind, phase, user, context, panics>>
    PROVE  CallInv' /\ NoLostWakeup' /\ Calls
  <1>1. phase[r] = "ready" /\ \A v \in VMs : user[v] # r
    BY NobodyAssumption DEF CallInv, Busy, Held
  <1>2. \A q \in Requests : Busy(q)'
    BY <1>1, StepKept DEF CallInv, Busy
  <1>3. \A v \in VMs : Held(v)'
    BY DEF CallInv, Held
  <1>4. ASSUME NEW v \in VMs PROVE Pointer(v)'
    <2>1. CASE user[v] = Nobody
      BY <2>1 DEF CallInv, Pointer
    <2>2. CASE user[v] # Nobody
      <3>1. user[v] \in Requests \ {r}
        BY <1>1, <2>2 DEF TypeOK
      <3>2. Step(user[v])' = Step(user[v])
        BY <3>1, StepKept
      <3> QED BY <2>2, <3>2 DEF CallInv, Pointer
    <2> QED BY <2>1, <2>2
  <1>5. Single'
    BY DEF CallInv, Single
  <1>6. NoLostWakeup'
    BY DEF NoLostWakeup, In, Idle
  <1> QED BY <1>2, <1>3, <1>4, <1>5, <1>6 DEF CallInv, Calls, TypeOK

\* A request in a Lua call changes its phase and keeps its VM, if it has one.
LEMMA PhaseChanges ==
    ASSUME TypeOK, CallInv, NoLostWakeup, NEW r \in Requests, Calling(r),
           NEW to \in {"asleep", "running", "writing"},
           phase' = [phase EXCEPT ![r] = to],
           \/ to = "asleep" /\ Idle = {} /\ phase[r] \in {"ready", "woken"}
           \/ to # "asleep" /\ phase[r] \in {"running", "writing"},
           UNCHANGED <<kind, at, outcome, user, context, panics>>
    PROVE  CallInv' /\ NoLostWakeup' /\ Calls
  <1>1. phase'[r] = to /\ \A q \in Requests : q # r => phase'[q] = phase[q]
    BY DEF TypeOK
  <1>2. Calls
    BY DEF TypeOK, Calls
  <1>3. \A q \in Requests : Calling(q)' = Calling(q) /\ Step(q)' = Step(q)
    BY DEF Calling, Step, Ended
  <1>4. \A q \in Requests : Busy(q)'
    BY <1>1, <1>3 DEF CallInv, Busy
  <1>5. \A v \in VMs : Held(v)'
    BY <1>1 DEF CallInv, Held, TypeOK
  <1>6. \A v \in VMs : Pointer(v)' /\ Single'
    BY <1>3 DEF CallInv, Pointer, Single, TypeOK
  <1>7. Single'
    BY DEF CallInv, Single
  <1>8. NoLostWakeup'
    <2>1. Idle' = Idle
      BY DEF Idle
    <2>2. CASE to = "asleep"
      <3>1. Idle = {} /\ Cardinality(Idle) = 0
        BY <2>2, Numbers
      <3>2. IsFiniteSet(In("woken")') /\ Cardinality(In("woken")') \in Nat
        BY FiniteAssumption, FS_Subset, FS_CardinalityType DEF In
      <3> QED BY <2>1, <3>1, <3>2 DEF NoLostWakeup
    <2>3. CASE to # "asleep"
      <3>1. In("asleep")' = In("asleep") /\ In("woken")' = In("woken")
        BY <1>1, <2>3 DEF In
      <3> QED BY <2>1, <3>1 DEF NoLostWakeup
    <2> QED BY <2>2, <2>3
  <1> QED BY <1>2, <1>4, <1>5, <1>6, <1>7, <1>8 DEF CallInv

\* A sleeper that finds no VM when its time is up goes on without.
LEMMA TimesOut ==
    ASSUME TypeOK, CallInv, NoLostWakeup, NEW r \in Requests,
           phase[r] = "asleep", Idle = {}, Only(r),
           phase' = [phase EXCEPT ![r] = "ready"], UNCHANGED <<kind, user, context, panics>>
    PROVE  CallInv' /\ NoLostWakeup' /\ Calls
  <1>1. phase'[r] = "ready" /\ \A q \in Requests : q # r => phase'[q] = phase[q]
    BY DEF TypeOK
  <1>2. Calls
    BY DEF TypeOK, Calls
  <1>3. \A v \in VMs : user[v] # r
    BY NobodyAssumption DEF CallInv, Held
  <1>4. \A q \in Requests : Busy(q)'
    BY <1>1, StepKept DEF CallInv, Busy
  <1>5. \A v \in VMs : Held(v)'
    BY <1>1, <1>3 DEF CallInv, Held, TypeOK
  <1>6. ASSUME NEW v \in VMs PROVE Pointer(v)'
    <2>1. CASE user[v] = Nobody
      BY <2>1 DEF CallInv, Pointer
    <2>2. CASE user[v] # Nobody
      <3>1. user[v] \in Requests \ {r}
        BY <1>3, <2>2 DEF TypeOK
      <3>2. Step(user[v])' = Step(user[v])
        BY <3>1, StepKept
      <3> QED BY <2>2, <3>2 DEF CallInv, Pointer
    <2> QED BY <2>1, <2>2
  <1>7. Single'
    BY DEF CallInv, Single
  <1>8. NoLostWakeup'
    <2>1. Idle' = {} /\ Cardinality(Idle') = 0
      BY Numbers DEF Idle
    <2>2. Cardinality(In("woken")') \in Nat
      BY FiniteAssumption, FS_Subset, FS_CardinalityType DEF In
    <2> QED BY <2>1, <2>2 DEF NoLostWakeup
  <1> QED BY <1>2, <1>4, <1>5, <1>6, <1>7, <1>8 DEF CallInv

\* A VM is taken.
LEMMA VMTaken ==
    ASSUME TypeOK, CallInv, NoLostWakeup, NEW r \in Requests, Calling(r),
           phase[r] \in {"ready", "asleep", "woken"}, TakeVM(r)
    PROVE  CallInv' /\ NoLostWakeup' /\ Calls
  <1>1. PICK v \in Idle :
            /\ user' = [user EXCEPT ![v] = r]
            /\ context' = [context EXCEPT ![v] = IF Step(r) \in WithContext THEN r ELSE @]
    BY DEF TakeVM
  <1>2. /\ phase' = [phase EXCEPT ![r] = "running"]
        /\ UNCHANGED <<kind, at, outcome, panics>>
    BY DEF TakeVM
  <1>3. v \in VMs /\ user[v] = Nobody
    BY DEF Idle
  <1>4. phase'[r] = "running" /\ \A q \in Requests : q # r => phase'[q] = phase[q]
    BY <1>2 DEF TypeOK
  <1>5. user'[v] = r /\ \A w \in VMs : w # v => user'[w] = user[w] /\ context'[w] = context[w]
    BY <1>1, <1>3 DEF TypeOK
  <1>6. \A w \in VMs : user[w] # r
    BY NobodyAssumption DEF CallInv, Held
  <1>7. \A q \in Requests : Calling(q)' = Calling(q) /\ Step(q)' = Step(q)
    BY <1>2 DEF Calling, Step, Ended
  <1>8. \A q \in Requests : Busy(q)'
    BY <1>4, <1>7 DEF CallInv, Busy
  <1>9. \A w \in VMs : Held(w)'
    BY <1>4, <1>5 DEF CallInv, Held, TypeOK
  <1>10. Single'
    BY <1>5, <1>6 DEF CallInv, Single
  <1>11. context'[v] = IF Step(r) \in WithContext THEN r ELSE context[v]
    BY <1>1, <1>3 DEF TypeOK
  <1>12. Pointer(v)'
    BY <1>2, <1>3, <1>5, <1>7, <1>11, NobodyAssumption DEF CallInv, Pointer
  <1>13. ASSUME NEW w \in VMs, w # v PROVE Pointer(w)'
    <2>1. user[w] = Nobody \/ user[w] \in Requests
      BY DEF TypeOK
    <2> QED BY <1>2, <1>5, <1>7, <1>13, <2>1 DEF CallInv, Pointer
  <1>14. Calls
    BY <1>1, <1>2, <1>3 DEF TypeOK, Calls
  <1>15. NoLostWakeup'
    <2>1. Idle' = Idle \ {v}
      BY <1>3, <1>5, NobodyAssumption DEF Idle
    <2>2. Cardinality(Idle') = Cardinality(Idle) - 1
      BY <2>1, Numbers, FS_RemoveElement
    <2>3. In("asleep")' \subseteq In("asleep") /\ In("woken")' = In("woken") \ {r}
      BY <1>4 DEF In
    <2>4. Cardinality(In("woken")') >= Cardinality(In("woken")) - 1
      BY <2>3, Numbers, FS_RemoveElement DEF Woken
    <2>5. CASE In("asleep") = {}
      BY <2>3, <2>5 DEF NoLostWakeup
    <2>6. CASE In("asleep") # {}
      <3>1. Cardinality(In("woken")') \in Nat
        BY FiniteAssumption, FS_Subset, FS_CardinalityType DEF In
      <3> QED BY <2>2, <2>4, <2>6, <3>1, Numbers DEF NoLostWakeup, Woken
    <2> QED BY <2>5, <2>6
  <1> QED BY <1>8, <1>9, <1>10, <1>12, <1>13, <1>14, <1>15 DEF CallInv

\* A call ends: its VM is given back, without its pointer unless the call
\* panicked, and a sleeper is woken.
LEMMA VMGiven ==
    ASSUME TypeOK, CallInv, NoLostWakeup, NEW r \in Requests,
           phase[r] \in {"running", "writing"}, DropGuard(r), Only(r), kind' = kind,
           \/ ClearContext(r) /\ panics' = panics
           \/ context' = context /\ panics' > 0
    PROVE  CallInv' /\ NoLostWakeup' /\ Calls
  <1> DEFINE back == [phase EXCEPT ![r] = "ready"]
             wakes(s) == s \in In("asleep") /\ phase' = [back EXCEPT ![s] = "woken"]
             wakesNone == In("asleep") = {} /\ phase' = back
  <1>1. (\E s \in Requests : wakes(s)) \/ wakesNone
    BY DEF DropGuard, In
  <1>2. user' = [v \in VMs |-> IF user[v] = r THEN Nobody ELSE user[v]]
    BY DEF DropGuard
  <1>3. /\ phase'[r] = "ready"
        /\ \A q \in Requests : \/ q = r \/ phase'[q] = phase[q]
                               \/ phase[q] = "asleep" /\ phase'[q] = "woken"
    BY <1>1 DEF TypeOK, In
  <1>11. \A q \in Requests \ {r} : Step(q)' = Step(q) /\ Calling(q)' = Calling(q)
    BY StepKept
  <1>4. \A q \in Requests : Busy(q)'
    BY <1>3, <1>11 DEF CallInv, Busy
  <1>5. \A v \in VMs : Held(v)'
    <2> SUFFICES ASSUME NEW v \in VMs, user'[v] # Nobody
                 PROVE  phase'[user'[v]] \in {"running", "writing"}
      BY DEF Held
    <2>1. user'[v] = user[v] /\ user[v] # r /\ user[v] \in Requests
      BY <1>2 DEF TypeOK
    <2>2. phase[user[v]] \in {"running", "writing"}
      BY <2>1 DEF CallInv, Held
    <2> QED BY <1>3, <2>1, <2>2
  <1>6. Single'
    BY <1>2 DEF CallInv, Single
  <1>7. ASSUME NEW v \in VMs PROVE Pointer(v)'
    <2>1. CASE user[v] = r
      <3>1. user'[v] = Nobody
        BY <1>2, <2>1
      <3>2. r # Nobody
        BY NobodyAssumption
      <3>3. CASE ClearContext(r) /\ panics' = panics
        BY <2>1, <3>1, <3>2, <3>3 DEF CallInv, Pointer, ClearContext
      <3>4. CASE context' = context /\ panics' > 0
        BY <3>1, <3>4 DEF Pointer
      <3> QED BY <3>3, <3>4
    <2>2. CASE user[v] # r
      <3>1. user'[v] = user[v] /\ context'[v] = context[v]
        BY <1>2, <2>2 DEF ClearContext
      <3>2. panics > 0 => panics' > 0
        OBVIOUS
      <3>3. CASE user[v] = Nobody
        BY <3>1, <3>2, <3>3 DEF CallInv, Pointer
      <3>4. CASE user[v] # Nobody
        <4>1. PICK q \in Requests \ {r} : q = user[v] /\ q = user'[v]
          BY <2>2, <3>1, <3>4 DEF TypeOK
        <4>2. Step(q)' = Step(q)
          BY <1>11
        <4>3. /\ Step(q) \in WithContext => context[v] = q
              /\ Step(q) \notin WithContext => context[v] = Nobody \/ panics > 0
          BY <3>4, <4>1 DEF CallInv, Pointer
        <4> QED BY <3>1, <3>2, <3>4, <4>1, <4>2, <4>3 DEF Pointer
      <3> QED BY <3>3, <3>4
    <2> QED BY <2>1, <2>2
  <1>8. Calls
    <2>1. phase' \in [Requests -> {"ready", "asleep", "woken", "running", "writing"}]
      BY <1>1 DEF TypeOK
    <2>2. user' \in [VMs -> Requests \cup {Nobody}]
      BY <1>2 DEF TypeOK
    <2>3. context' \in [VMs -> Requests \cup {Nobody}]
      BY DEF ClearContext, TypeOK
    <2> QED BY <2>1, <2>2, <2>3 DEF Calls
  <1>9. CASE wakesNone
    <2>1. In("asleep")' = {}
      BY <1>9 DEF In, TypeOK
    <2>2. NoLostWakeup'
      BY <2>1 DEF NoLostWakeup
    <2> QED BY <1>4, <1>5, <1>6, <1>7, <1>8, <2>2 DEF CallInv
  <1>10. ASSUME NEW s \in Requests, wakes(s) PROVE NoLostWakeup'
    <2>1. In("woken")' = In("woken") \cup {s} /\ s \notin In("woken")
      BY <1>10 DEF In, TypeOK
    <2>2. Cardinality(In("woken")') = Cardinality(In("woken")) + 1
      BY <2>1, Numbers, FS_AddElement DEF Woken
    <2>3. Cardinality(Idle') <= Cardinality(Idle) + 1
      <3>1. CASE \A v \in VMs : user[v] # r
        <4>1. Idle' = Idle
          BY <1>2, <3>1 DEF Idle
        <4>2. Cardinality(Idle') = Cardinality(Idle)
          BY <4>1
        <4>3. \A n \in Nat : n <= n + 1
          OBVIOUS
        <4> QED BY <4>2, <4>3, Numbers
      <3>2. ASSUME NEW v \in VMs, user[v] = r
            PROVE  Cardinality(Idle') <= Cardinality(Idle) + 1
        <4>1. \A w \in VMs : user[w] = r => w = v
          BY <3>2, NobodyAssumption DEF CallInv, Single
        <4>2. Idle' = Idle \cup {v} /\ v \notin Idle
          BY <1>2, <3>2, <4>1, NobodyAssumption DEF Idle
        <4>3. Cardinality(Idle \cup {v}) = Cardinality(Idle) + 1
          BY <4>2, Numbers, FS_AddElement
        <4>4. \A n \in Nat : n + 1 <= n + 1
          OBVIOUS
        <4> QED BY <4>2, <4>3, <4>4, Numbers
      <3> QED BY <3>1, <3>2
    <2>4. In("asleep") # {}
      BY <1>10
    <2>5. Cardinality(Idle') \in Nat
      <3>1. IsFiniteSet(Idle')
        BY FiniteAssumption, FS_Subset DEF Idle
      <3> QED BY <3>1, FS_CardinalityType
    <2> QED BY <2>2, <2>3, <2>4, <2>5, Numbers DEF NoLostWakeup, Woken
  <1> QED BY <1>1, <1>4, <1>5, <1>6, <1>7, <1>8, <1>9, <1>10 DEF CallInv

-----------------------------------------------------------------------------
(***************************************************************************)
(* Every step.                                                             *)
(***************************************************************************)
LEMMA InitInv == Init => Inv
  <1> SUFFICES ASSUME Init PROVE Inv
    OBVIOUS
  <1>1. TypeOK
    BY PanicsAssumption DEF Init, TypeOK, Steps
  <1>2. CallInv
    BY NobodyAssumption DEF Init, CallInv, Busy, Held, Pointer, Single
  <1>3. ASSUME NEW r \in Requests PROVE Place(r) /\ Behind(r)
    <2>1. Len(Script[kind[r]]) \in 1 .. 17 /\ at[r] = 0 /\ outcome[r] = "none"
      BY <1>1, StepFacts DEF Init
    <2>2. \A n \in 1 .. 17 : 0 <= n /\ \A i \in 1 .. n : ~(i < 0)
      OBVIOUS
    <2> QED BY <2>1, <2>2 DEF Place, Behind
  <1>4. NoLostWakeup
    BY DEF Init, NoLostWakeup, In
  <1> QED BY <1>1, <1>2, <1>3, <1>4 DEF Inv, ScriptInv

\* The types, from what the groups of lemmas say.
LEMMA Typed ==
    ASSUME TypeOK, kind' = kind, Positions, Calls, Releases,
           ran' \in [Requests -> SUBSET Steps], missed' \in [Requests -> SUBSET Steps],
           panics' \in 0 .. MaxPanics
    PROVE  TypeOK'
  BY DEF TypeOK, Positions, Calls, Releases

\* A step outside Lua that goes on or ends.
LEMMA OutsideStep ==
    ASSUME Inv, NEW r \in Requests, Step(r) \notin LuaSteps, Releases,
           UNCHANGED <<kind, phase, ran, missed, user, context, panics>>,
           \/ Go(r) /\ at[r] < Len(Script[kind[r]])
           \/ Finish(r, "error")
           \/ Finish(r, "ok") /\ at[r] = Len(Script[kind[r]])
    PROVE  Inv'
  <1>1. TypeOK /\ CallInv /\ ScriptInv /\ NoLostWakeup /\ Remembers
    BY DEF Inv, Remembers
  <1>2. ScriptInv' /\ Positions
    BY <1>1, GoesOn, Finishes DEF LuaSteps
  <1>3. Only(r)
    BY <1>1 DEF Go, Finish, Only, TypeOK
  <1>4. CallInv' /\ NoLostWakeup' /\ Calls
    BY <1>1, <1>3, Outside DEF Calling, LuaSteps
  <1>5. TypeOK'
    BY <1>1, <1>2, <1>4, Typed DEF TypeOK
  <1> QED BY <1>2, <1>4, <1>5 DEF Inv

NotLast(r) ==
    \/ at[r] = 0
    \/ Step(r) \notin {"none", "return"}
    \/ Step(r) = "return" /\ at[r] # Len(Script[kind[r]])

LEMMA Room ==
    ASSUME Inv, NEW r \in Requests, NotLast(r)
    PROVE  at[r] < Len(Script[kind[r]])
  <1>1. TypeOK /\ Place(r)
    BY DEF Inv, ScriptInv
  <1>2. at[r] \in 0 .. 17 /\ Len(Script[kind[r]]) \in 1 .. 17 /\ at[r] <= Len(Script[kind[r]])
    BY <1>1, StepFacts DEF TypeOK, Steps, Place
  <1>3. \A a \in 0 .. 17, n \in 1 .. 17 : /\ a <= n /\ a # n => a < n
                                          /\ a = 0 => a < n
                                          /\ a + 1 <= n => a < n
    OBVIOUS
  <1>4. at[r] = Len(Script[kind[r]]) => at[r] = 0 \/ Step(r) = "return"
    BY <1>1, <1>2, StepFacts DEF Step
  <1> QED BY <1>2, <1>3, <1>4 DEF NotLast

\* The gate left out for want of a connection.
LEMMA GateLeftOut ==
    ASSUME Inv, NEW r \in Requests, GateTimeout(r)
    PROVE  Inv'
  <1>1. TypeOK /\ CallInv /\ ScriptInv /\ NoLostWakeup
    BY DEF Inv
  <1>2. /\ Step(r) \in {"user", "gate"} /\ outcome[r] = "none" /\ PassOver(r)
        /\ UNCHANGED <<kind, phase, ran, user, context, panics>>
    BY DEF GateTimeout, Active, Ended
  <1>3. /\ ScriptInv' /\ Positions /\ Releases /\ Only(r)
        /\ missed' \in [Requests -> SUBSET Steps]
    BY <1>1, <1>2, PassesOver
  <1>4. ~Calling(r)
    BY <1>2 DEF Calling, Refusing, Tolerant
  <1>5. CallInv' /\ NoLostWakeup' /\ Calls
    BY <1>1, <1>2, <1>3, <1>4, Outside
  <1>6. TypeOK'
    BY <1>1, <1>2, <1>3, <1>5, Typed DEF TypeOK
  <1> QED BY <1>3, <1>5, <1>6 DEF Inv

LEMMA OutsideSteps ==
    ASSUME Inv, NEW r \in Requests,
           \/ Arrive(r) \/ Connect(r) \/ ConnectTimeout(r) \/ Return(r)
           \/ Begin(r) \/ Record(r) \/ BusyTimeout(r) \/ Commit(r)
    PROVE  Inv'
  <1>1. TypeOK
    BY DEF Inv
  <1>2. \A step \in {"none", "return", "begin", "record", "commit"} \cup Connecting :
           step \notin LuaSteps
    BY DEF Connecting, LuaSteps, Refusing, Tolerant
  <1>3. CASE Arrive(r)
    <2>3. Step(r) = "none"
      <3>1. \A n \in 1 .. 17 : 0 \notin 1 .. n
        OBVIOUS
      <3> QED BY <1>1, <1>3, <3>1, StepFacts DEF Arrive, Step
    <2>1. at[r] < Len(Script[kind[r]])
      BY <1>3, Room DEF Arrive, NotLast
    <2>2. Releases
      BY <1>1, <1>3 DEF Arrive, Releases, TypeOK
    <2> QED BY <1>2, <1>3, <2>1, <2>2, <2>3, OutsideStep DEF Arrive
  <1>4. CASE Connect(r)
    <2>3. Step(r) \in Connecting
      BY <1>4 DEF Connect, Active
    <2>1. at[r] < Len(Script[kind[r]])
      BY <2>3, Room DEF NotLast, Connecting
    <2>2. Releases
      BY <1>1, <1>4 DEF Connect, Releases, TypeOK
    <2> QED BY <1>2, <1>4, <2>1, <2>2, <2>3, OutsideStep DEF Connect
  <1>5. CASE ConnectTimeout(r)
    <2>1. Releases
      BY <1>1, <1>5 DEF ConnectTimeout, GiveUp, Releases, TypeOK
    <2>2. Step(r) \in Connecting
      BY <1>5 DEF ConnectTimeout, Active, Connecting
    <2> QED BY <1>2, <1>5, <2>1, <2>2, OutsideStep DEF ConnectTimeout, GiveUp
  <1>6. CASE Return(r)
    <2>1. Releases
      BY <1>1, <1>6 DEF Return, Releases, TypeOK
    <2>2. Step(r) = "return"
      BY <1>6 DEF Return, Active
    <2>3. CASE at[r] = Len(Script[kind[r]])
      BY <1>2, <1>6, <2>1, <2>2, <2>3, OutsideStep DEF Return
    <2>4. CASE at[r] # Len(Script[kind[r]])
      <3>1. at[r] < Len(Script[kind[r]])
        BY <2>2, <2>4, Room DEF NotLast
      <3> QED BY <1>2, <1>6, <2>1, <2>2, <2>4, <3>1, OutsideStep DEF Return
    <2> QED BY <2>3, <2>4
  <1>7. CASE Begin(r)
    <2>3. Step(r) = "begin"
      BY <1>7 DEF Begin, Active
    <2>1. at[r] < Len(Script[kind[r]])
      BY <2>3, Room DEF NotLast
    <2>2. Releases
      BY <1>1, <1>7 DEF Begin, Releases, TypeOK
    <2> QED BY <1>2, <1>7, <2>1, <2>2, <2>3, OutsideStep DEF Begin
  <1>8. CASE Record(r)
    <2>3. Step(r) = "record"
      BY <1>8 DEF Record, Active
    <2>1. at[r] < Len(Script[kind[r]])
      BY <2>3, Room DEF NotLast
    <2>2. Releases
      BY <1>1, <1>8 DEF Record, Releases, TypeOK
    <2> QED BY <1>2, <1>8, <2>1, <2>2, <2>3, OutsideStep DEF Record
  <1>9. CASE BusyTimeout(r)
    <2>1. Releases
      BY <1>1, <1>9 DEF BusyTimeout, GiveUp, Releases, TypeOK
    <2> QED BY <1>2, <1>9, <2>1, OutsideStep DEF BusyTimeout, Active, GiveUp
  <1>10. CASE Commit(r)
    <2>3. Step(r) = "commit"
      BY <1>10 DEF Commit, Active
    <2>1. at[r] < Len(Script[kind[r]])
      BY <2>3, Room DEF NotLast
    <2>2. Releases
      BY <1>1, <1>10 DEF Commit, Releases, TypeOK
    <2> QED BY <1>2, <1>10, <2>1, <2>2, <2>3, OutsideStep DEF Commit
  <1> QED BY <1>3, <1>4, <1>5, <1>6, <1>7, <1>8, <1>9, <1>10

\* A request in a Lua call has a step after this one.
LEMMA InCall ==
    ASSUME Inv, NEW r \in Requests, Calling(r)
    PROVE  at[r] < Len(Script[kind[r]]) /\ at[r] \in Steps
  <1>1. Step(r) \notin {"none", "return"}
    BY DEF Calling, Refusing, Tolerant
  <1> QED BY <1>1, Room DEF NotLast, Inv, TypeOK

LEMMA InCallBusy ==
    ASSUME Inv, NEW r \in Requests, phase[r] # "ready"
    PROVE  Calling(r)
  BY DEF Inv, CallInv, Busy

\* A call that takes its VM, waits or writes stays where it is.
LEMMA CallStays ==
    ASSUME Inv, NEW r \in Requests,
           \/ Acquire(r) \/ Sleep(r) \/ WantLock(r) \/ GetLock(r)
           \/ AcquireTimeout(r) /\ TakeVM(r)
    PROVE  Inv'
  <1>1. TypeOK /\ CallInv /\ ScriptInv /\ NoLostWakeup /\ Remembers
    BY DEF Inv, Remembers, Acquire, Sleep, WantLock, GetLock, TakeVM
  <1>2. CASE Acquire(r) \/ (AcquireTimeout(r) /\ TakeVM(r))
    <2>1. CallInv' /\ NoLostWakeup' /\ Calls
      BY <1>1, <1>2, VMTaken DEF Acquire, AcquireTimeout
    <2>2. UNCHANGED <<kind, at, outcome, ran, missed, owner, lock, panics>>
      BY <1>2 DEF Acquire, TakeVM
    <2>3. ScriptInv' /\ Positions
      BY <1>1, <2>2, Stays
    <2>4. TypeOK'
      BY <1>1, <2>1, <2>2, <2>3, Typed DEF TypeOK, Releases
    <2> QED BY <2>1, <2>3, <2>4 DEF Inv
  <1>3. CASE Sleep(r)
    <2>1. CallInv' /\ NoLostWakeup' /\ Calls
      BY <1>1, <1>3, PhaseChanges DEF Sleep
    <2>2. UNCHANGED <<kind, at, outcome, ran, missed, owner, lock, panics>>
      BY <1>3 DEF Sleep
    <2>3. ScriptInv' /\ Positions
      BY <1>1, <2>2, Stays
    <2>4. TypeOK'
      BY <1>1, <2>1, <2>2, <2>3, Typed DEF TypeOK, Releases
    <2> QED BY <2>1, <2>3, <2>4 DEF Inv
  <1>4. CASE WantLock(r)
    <2>1. CallInv' /\ NoLostWakeup' /\ Calls
      BY <1>1, <1>4, InCallBusy, PhaseChanges DEF WantLock
    <2>2. UNCHANGED <<kind, at, outcome, ran, missed, owner, lock, panics>>
      BY <1>4 DEF WantLock
    <2>3. ScriptInv' /\ Positions
      BY <1>1, <2>2, Stays
    <2>4. TypeOK'
      BY <1>1, <2>1, <2>2, <2>3, Typed DEF TypeOK, Releases
    <2> QED BY <2>1, <2>3, <2>4 DEF Inv
  <1>5. CASE GetLock(r)
    <2>1. CallInv' /\ NoLostWakeup' /\ Calls
      BY <1>1, <1>5, InCallBusy, PhaseChanges DEF GetLock
    <2>2. UNCHANGED <<kind, at, outcome, ran, missed, owner, panics>> /\ lock' = r
      BY <1>5 DEF GetLock
    <2>3. ScriptInv' /\ Positions
      BY <1>1, <2>2, Stays
    <2>4. TypeOK'
      BY <1>1, <2>1, <2>2, <2>3, Typed DEF TypeOK, Releases
    <2> QED BY <2>1, <2>3, <2>4 DEF Inv
  <1> QED BY <1>2, <1>3, <1>4, <1>5

\* A wait for a VM that times out without one.
LEMMA WaitTimesOut ==
    ASSUME Inv, NEW r \in Requests, phase[r] = "asleep", Idle = {}, WithoutVM(r),
           phase' = [phase EXCEPT ![r] = "ready"], UNCHANGED <<kind, ran, user, context, panics>>
    PROVE  Inv'
  <1>1. TypeOK /\ CallInv /\ ScriptInv /\ NoLostWakeup /\ Calling(r) /\ at[r] \in Steps
    BY InCallBusy, InCall DEF Inv
  <1>2. missed' = [missed EXCEPT ![r] = @ \cup {at[r]}]
    BY DEF WithoutVM
  <1>3. missed' \in [Requests -> SUBSET Steps] /\ Remembers /\ at[r] \in missed'[r]
    BY <1>1, <1>2 DEF Remembers, TypeOK
  <1>4. ScriptInv' /\ Positions /\ Releases /\ Only(r)
    <2>1. CASE Step(r) \in Refusing /\ Fail(r)
      BY <1>1, <1>3, <2>1, Fails
    <2>2. CASE Step(r) \in Tolerant /\ Go(r) /\ UNCHANGED <<owner, lock>>
      <3>1. Step(r) \notin Refusing
        BY <2>2 DEF Refusing, Tolerant
      <3>2. ScriptInv' /\ Positions
        BY <1>1, <1>3, <2>2, <3>1, InCall, GoesOn
      <3>3. Releases /\ Only(r)
        BY <1>1, <2>2 DEF Releases, Only, Go, TypeOK
      <3> QED BY <3>2, <3>3
    <2> QED BY <2>1, <2>2 DEF WithoutVM
  <1>5. CallInv' /\ NoLostWakeup' /\ Calls
    BY <1>1, <1>4, TimesOut
  <1>6. TypeOK'
    BY <1>1, <1>3, <1>4, <1>5, Typed DEF TypeOK
  <1> QED BY <1>4, <1>5, <1>6 DEF Inv

\* A call that ends, in one way or another.
LEMMA CallEnds ==
    ASSUME Inv, NEW r \in Requests,
           CallReturns(r) \/ CallFails(r) \/ CallFailsTolerated(r) \/ Panic(r)
    PROVE  Inv'
  <1>1. phase[r] \in {"running", "writing"} /\ DropGuard(r) /\ kind' = kind
    BY DEF CallReturns, CallFails, CallFailsTolerated, Panic
  <1>2. TypeOK /\ CallInv /\ ScriptInv /\ NoLostWakeup /\ Calling(r)
    BY <1>1, InCallBusy DEF Inv
  <1>3. at[r] < Len(Script[kind[r]]) /\ at[r] \in Steps
    BY <1>2, InCall
  <1>4. ran' = ran \/ ran' = [ran EXCEPT ![r] = @ \cup {at[r]}]
    BY DEF CallReturns, CallFails, CallFailsTolerated, Panic
  <1>10. missed' = missed \/ missed' = [missed EXCEPT ![r] = @ \cup {at[r]}]
    BY DEF CallReturns, CallFails, CallFailsTolerated, Panic, PassOver
  <1>5. /\ ran' \in [Requests -> SUBSET Steps] /\ missed' \in [Requests -> SUBSET Steps]
        /\ Remembers
    BY <1>1, <1>2, <1>3, <1>4, <1>10 DEF Remembers, TypeOK
  <1>6. /\ panics' \in 0 .. MaxPanics
        /\ \/ ClearContext(r) /\ panics' = panics
           \/ context' = context /\ panics' > 0
    <2>1. CASE Panic(r)
      BY <1>2, <2>1, PanicsAssumption DEF Panic, TypeOK
    <2>2. CASE ~Panic(r)
      BY <1>2, <2>2 DEF CallReturns, CallFails, CallFailsTolerated, TypeOK
    <2> QED BY <2>1, <2>2
  <1>7. ScriptInv' /\ Positions /\ Releases /\ Only(r)
    <2>1. CASE CallReturns(r) \/ CallFailsTolerated(r)
      <3>1. /\ ran' = [ran EXCEPT ![r] = @ \cup {at[r]}] /\ Go(r)
            /\ owner' = owner /\ lock' \in {lock, Nobody}
        BY <2>1 DEF CallReturns, CallFailsTolerated
      <3>2. at[r] \in ran'[r]
        BY <1>2, <3>1 DEF TypeOK
      <3>3. ScriptInv' /\ Positions
        BY <1>2, <1>3, <1>5, <3>1, <3>2, GoesOn
      <3>4. Releases /\ Only(r)
        BY <1>2, <3>1 DEF Releases, Only, Go, TypeOK
      <3> QED BY <3>3, <3>4
    <2>2. CASE CallFails(r)
      BY <1>2, <1>5, <2>2, Fails DEF CallFails
    <2>3. CASE Panic(r)
      <3>1. CASE Step(r) = "enter" /\ PassOver(r)
        <4>1. ran' = ran /\ outcome[r] = "none"
          BY <1>2, <2>3 DEF Panic, Calling, Ended
        <4> QED BY <1>1, <1>2, <3>1, <4>1, PassesOver
      <3>2. CASE GiveUp(r)
        BY <1>2, <1>5, <3>2, GivesUp
      <3> QED BY <2>3, <3>1, <3>2 DEF Panic
    <2> QED BY <2>1, <2>2, <2>3
  <1>8. CallInv' /\ NoLostWakeup' /\ Calls
    BY <1>1, <1>2, <1>6, <1>7, VMGiven
  <1>9. TypeOK'
    BY <1>1, <1>2, <1>5, <1>6, <1>7, <1>8, Typed DEF TypeOK
  <1> QED BY <1>7, <1>8, <1>9 DEF Inv

LEMMA StepInv == Inv /\ [Next]_vars => Inv'
  <1> SUFFICES ASSUME Inv, [Next]_vars PROVE Inv'
    OBVIOUS
  <1>1. CASE \E r \in Requests : \/ Arrive(r) \/ Connect(r) \/ ConnectTimeout(r) \/ Return(r)
                                 \/ Begin(r) \/ Record(r) \/ BusyTimeout(r) \/ Commit(r)
    BY <1>1, OutsideSteps
  <1>6. CASE \E r \in Requests : GateTimeout(r)
    BY <1>6, GateLeftOut
  <1>2. ASSUME NEW r \in Requests, Acquire(r) \/ Sleep(r) \/ WantLock(r) \/ GetLock(r)
        PROVE  Inv'
    BY <1>2, CallStays
  <1>3. ASSUME NEW r \in Requests, AcquireTimeout(r) PROVE Inv'
    <2>1. CASE TakeVM(r)
      BY <1>3, <2>1, CallStays
    <2>2. CASE ~TakeVM(r)
      <3>1. /\ phase[r] = "asleep" /\ Idle = {} /\ WithoutVM(r)
            /\ phase' = [phase EXCEPT ![r] = "ready"]
            /\ UNCHANGED <<kind, ran, user, context, panics>>
        BY <1>3, <2>2 DEF AcquireTimeout
      <3> QED BY <3>1, WaitTimesOut
    <2> QED BY <2>1, <2>2
  <1>4. CASE \E r \in Requests : CallReturns(r) \/ CallFails(r) \/ CallFailsTolerated(r) \/ Panic(r)
    BY <1>4, CallEnds
  <1>5. CASE UNCHANGED vars
    <2>1. TypeOK'
      BY <1>5 DEF vars, Inv, TypeOK
    <2>2. CallInv'
      BY <1>5 DEF vars, Inv, CallInv, Busy, Held, Pointer, Single, Calling, Step, Ended
    <2>3. ScriptInv'
      BY <1>5 DEF vars, Inv, ScriptInv, Place, Behind, Past
    <2>4. NoLostWakeup'
      BY <1>5 DEF vars, Inv, NoLostWakeup, In, Idle
    <2> QED BY <2>1, <2>2, <2>3, <2>4 DEF Inv
  <1> QED BY <1>1, <1>2, <1>3, <1>4, <1>5, <1>6 DEF Next, Progress

\* The inductive invariant.
THEOREM Invariance == Spec => []Inv
  BY InitInv, StepInv, PTL DEF Spec

\* Every variable keeps its type: no request runs past the end of its script.
THEOREM TypeCorrect == Spec => []TypeOK
  <1>1. Inv => TypeOK
    BY DEF Inv
  <1> QED BY Invariance, <1>1, PTL

\* A Lua call never writes through the connection of another request: run_hooks
\* and the rest clear TxContext before the VM goes back.
THEOREM ContextsAreOwn == Spec => []ContextIsOwn
  <1>1. Inv => ContextIsOwn
    BY DEF Inv, CallInv, Pointer, ContextIsOwn
  <1> QED BY Invariance, <1>1, PTL

\* VmGuard::drop and VmPool::acquire lose no wakeup, for any number of VMs and
\* of threads that wait: none sleeps while more VMs lie idle than were offered.
THEOREM NoWakeupIsLost == Spec => []NoLostWakeup
  <1>1. Inv => NoLostWakeup
    BY DEF Inv
  <1> QED BY Invariance, <1>1, PTL

\* A request that is answered well has run every function that may refuse it
\* but admin.access, which it leaves out when it finds no connection for it in
\* time or the check panics, and the others unless they timed out.
THEOREM NothingIsPassedOver == Spec => []NothingPassedOver
  <1>1. Inv => NothingPassedOver
    <2> SUFFICES ASSUME Inv, NEW r \in Requests, outcome[r] = "ok", kind[r] # "job",
                        NEW i \in 1 .. Len(Script[kind[r]])
                 PROVE  Past(r, i)
      BY DEF NothingPassedOver, Past
    <2>1. TypeOK /\ at[r] = Len(Script[kind[r]]) /\ Behind(r)
      BY DEF Inv, ScriptInv, Place
    <2>2. Len(Script[kind[r]]) \in 1 .. 17 /\ Script[kind[r]][Len(Script[kind[r]])] = "return"
      BY <2>1, StepFacts
    <2>3. CASE i = Len(Script[kind[r]])
      BY <2>2, <2>3 DEF Past, Refusing, Tolerant
    <2>4. CASE i # Len(Script[kind[r]])
      <3>1. \A n \in 1 .. 17 : \A j \in 1 .. n : j # n => j < n
        OBVIOUS
      <3>2. i < Len(Script[kind[r]])
        BY <2>2, <2>4, <3>1
      <3> QED BY <2>1, <3>2 DEF Behind
    <2> QED BY <2>3, <2>4
  <1> QED BY Invariance, <1>1, PTL

-----------------------------------------------------------------------------
(***************************************************************************)
(* Knots: who may hold a connection, a VM and the write lock where.        *)
(***************************************************************************)
\* The write lock is held between the beginning of a transaction and its end,
\* or by a Lua function that runs.
LockHeld(r) == lock = r =>
    \/ Step(r) \in {"before_write", "after_write", "commit"}
    \/ phase[r] = "running" /\ Step(r) \in WithContext

Writes(r) == phase[r] = "writing" => Step(r) \in WithContext

\* The steps at which a request may hold a connection: a form or a find holds
\* none when it asks for one.
Connected(r) ==
    \/ kind[r] = "form" /\ at[r] \in {2, 4, 5, 7, 8, 10, 11, 13, 14, 15, 16, 17}
    \/ kind[r] = "find" /\ at[r] \in {2, 3, 4, 5, 6}
    \/ kind[r] \in {"create", "job"} /\ at[r] > 1

Owns(c) == owner[c] # Nobody => Connected(owner[c])
Alone(c, d) ==
    owner[c] # Nobody /\ owner[c] = owner[d] /\ kind[owner[c]] \in {"form", "find"} => c = d

HolderInv ==
    /\ \A r \in Requests : LockHeld(r) /\ Writes(r)
    /\ \A c \in Connections : Owns(c)
    /\ \A c, d \in Connections : Alone(c, d)

\* Where the steps stand in the scripts.
LEMMA ScriptOrder ==
    ASSUME NEW k \in DOMAIN Script, NEW i \in 1 .. Len(Script[k])
    PROVE  /\ Script[k][i] \in Connecting =>
                 \/ k = "form" /\ i \in {1, 3, 6, 9, 12}
                 \/ k = "find" /\ i = 1
                 \/ k \in {"create", "job"}
           /\ Script[k][i] = "return" <=>
                 \/ k = "form" /\ i \in {2, 5, 8, 11, 17}
                 \/ k = "find" /\ i = 6
                 \/ k = "create" /\ i \in {9, 11}
                 \/ k = "job" /\ i \in {6, 7}
           /\ Script[k][i] = "begin" => Script[k][i + 1] = "before_write"
           /\ Script[k][i] = "before_write" => Script[k][i + 1] = "after_write"
           /\ Script[k][i] \in {"after_write", "handler"} => Script[k][i + 1] = "commit"
  <1>1. CASE k = "create"
    BY <1>1 DEF Script, Connecting, CreateScript
  <1>2. CASE k = "form"
    BY <1>2 DEF Script, Connecting, FormScript
  <1>3. CASE k = "find"
    BY <1>3 DEF Script, Connecting, FindScript
  <1>4. CASE k = "job"
    BY <1>4 DEF Script, Connecting, JobScript
  <1> QED BY <1>1, <1>2, <1>3, <1>4 DEF Script

\* The same of a request, and of the step it comes to.
LEMMA StepOrder ==
    ASSUME Inv, NEW r \in Requests
    PROVE  /\ Step(r) \in Connecting =>
                 \/ kind[r] = "form" /\ at[r] \in {1, 3, 6, 9, 12}
                 \/ kind[r] = "find" /\ at[r] = 1
                 \/ kind[r] \in {"create", "job"}
           /\ Connected(r) /\ Step(r) \notin Connecting \cup {"return"} =>
                 \/ kind[r] = "form" /\ at[r] \in {4, 7, 10, 13, 14, 15, 16}
                 \/ kind[r] = "find" /\ at[r] \in {2, 3, 4, 5}
                 \/ kind[r] \in {"create", "job"} /\ at[r] > 1
           /\ at[r] = 0 => Step(r) = "none"
           /\ kind[r] \in {"form", "find", "create", "job"}
           /\ at[r] \in Nat
  <1>1. TypeOK /\ kind[r] \in DOMAIN Script /\ at[r] \in 0 .. 17
    BY KindIsScript DEF Inv, TypeOK, Steps
  <1>2. kind[r] \in {"form", "find", "create", "job"}
    BY <1>1 DEF Script
  <1>3. Len(Script[kind[r]]) \in 1 .. 17 /\ at[r] <= Len(Script[kind[r]])
    BY <1>1, StepFacts DEF Inv, ScriptInv, Place
  <1>4. Step(r) # "none" => at[r] \in 1 .. Len(Script[kind[r]]) /\ Step(r) = Script[kind[r]][at[r]]
    BY <1>1, ScriptOrder, StepFacts, <1>3
  <1>5. at[r] # 0 => at[r] \in 1 .. Len(Script[kind[r]]) /\ Step(r) = Script[kind[r]][at[r]]
    BY <1>1, <1>3 DEF Step
  <1>6. at[r] = 0 => Step(r) = "none"
    BY <1>1, <1>3 DEF Step
  <1>7. Step(r) \in Connecting => \/ kind[r] = "form" /\ at[r] \in {1, 3, 6, 9, 12}
                                  \/ kind[r] = "find" /\ at[r] = 1
                                  \/ kind[r] \in {"create", "job"}
    <2>1. CASE Step(r) \in Connecting
      <3>1. Step(r) # "none"
        BY <2>1 DEF Connecting
      <3>2. /\ at[r] \in 1 .. Len(Script[kind[r]])
            /\ Script[kind[r]][at[r]] \in Connecting
        BY <1>4, <2>1, <3>1
      <3>3. \/ kind[r] = "form" /\ at[r] \in {1, 3, 6, 9, 12}
            \/ kind[r] = "find" /\ at[r] = 1
            \/ kind[r] \in {"create", "job"}
        BY ONLY <1>1, <3>2, ScriptOrder
      <3> QED BY <3>3
    <2> QED BY <2>1
  <1>8. /\ kind[r] = "form" /\ at[r] \in {2, 5, 8, 11, 17} => Step(r) = "return"
        /\ kind[r] = "find" /\ at[r] = 6 => Step(r) = "return"
    BY <1>1, <1>5, ScriptOrder
  <1> QED BY <1>1, <1>2, <1>6, <1>7, <1>8 DEF Connected

LEMMA StepGone ==
    ASSUME Inv, NEW r \in Requests, Go(r), kind' = kind
    PROVE  /\ Step(r) \in {"begin", "before_write"} => Step(r)' \in {"before_write", "after_write"}
           /\ Step(r) \in {"after_write", "handler"} => Step(r)' = "commit"
  <1>1. TypeOK /\ kind[r] \in DOMAIN Script
    BY KindIsScript DEF Inv
  <1>2. ASSUME Step(r) \in {"begin", "before_write", "after_write", "handler"}
        PROVE  /\ at[r] \in 1 .. Len(Script[kind[r]]) /\ Step(r) = Script[kind[r]][at[r]]
               /\ at[r] + 1 \in 1 .. Len(Script[kind[r]])
    <2>1. /\ at[r] \in 1 .. 16 /\ at[r] + 1 <= Len(Script[kind[r]])
          /\ Step(r) = Script[kind[r]][at[r]] /\ Len(Script[kind[r]]) \in 1 .. 17
      BY <1>1, <1>2, StepFacts
    <2>2. \A a \in 1 .. 16, n \in 1 .. 17 : a + 1 <= n => a \in 1 .. n /\ a + 1 \in 1 .. n
      OBVIOUS
    <2> QED BY <2>1, <2>2
  <1>3. at'[r] = at[r] + 1 /\ kind'[r] = kind[r]
    BY <1>1 DEF Go, TypeOK
  <1>4. at'[r] \in 1 .. Len(Script[kind[r]]) => Step(r)' = Script[kind[r]][at[r] + 1]
    BY <1>3 DEF Step
  <1> QED BY <1>1, <1>2, <1>3, <1>4, ScriptOrder

\* A step of r that takes no connection: what it may hold at its step it may
\* hold at the next, and those who give up hold none.
LEMMA OwnersKept ==
    ASSUME Inv, HolderInv, NEW r \in Requests, Only(r), kind' = kind,
           \/ owner' = owner /\ (Connected(r) => Connected(r)')
           \/ owner' = [c \in Connections |-> IF owner[c] = r THEN Nobody ELSE owner[c]]
    PROVE  (\A c \in Connections : Owns(c))' /\ (\A c, d \in Connections : Alone(c, d))'
  <1>1. \A q \in Requests \ {r} : Connected(q)' = Connected(q)
    BY DEF Only, Connected
  <1>2. \A c \in Connections : owner[c] \in Requests \cup {Nobody}
    BY DEF Inv, TypeOK
  <1>3. \A c \in Connections : \/ owner'[c] = Nobody
                               \/ owner'[c] = owner[c] /\ (owner[c] = r /\ Connected(r) => Connected(r)')
    BY <1>2
  <1>4. ASSUME NEW c \in Connections PROVE Owns(c)'
    BY <1>1, <1>2, <1>3 DEF HolderInv, Owns
  <1>5. ASSUME NEW c \in Connections, NEW d \in Connections PROVE Alone(c, d)'
    BY <1>3 DEF HolderInv, Alone
  <1> QED BY <1>4, <1>5

\* A request that goes on from a step in between keeps what it holds.
LEMMA StaysConnected ==
    ASSUME Inv, NEW r \in Requests, kind' = kind,
           \/ at' = at
           \/ Go(r) /\ Step(r) \notin Connecting \cup {"return"}
           \/ at' = [at EXCEPT ![r] = 4] /\ kind[r] = "job"
    PROVE  Connected(r) => Connected(r)'
  <1>1. CASE at' = at
    BY <1>1 DEF Connected
  <1>2. CASE Go(r) /\ Step(r) \notin Connecting \cup {"return"}
    <2>1. at'[r] = at[r] + 1
      BY <1>2 DEF Go, Inv, TypeOK
    <2> QED BY <1>2, <2>1, StepOrder DEF Connected
  <1>3. CASE at' = [at EXCEPT ![r] = 4] /\ kind[r] = "job"
    BY <1>3 DEF Connected, Inv, TypeOK
  <1> QED BY <1>1, <1>2, <1>3

LEMMA ConnectionTaken ==
    ASSUME Inv, HolderInv, NEW r \in Requests, Connect(r)
    PROVE  (\A c \in Connections : Owns(c))' /\ (\A c, d \in Connections : Alone(c, d))'
  <1>1. PICK c \in Connections : owner[c] = Nobody /\ owner' = [owner EXCEPT ![c] = r]
    BY DEF Connect, Free
  <1>2. /\ Step(r) \in Connecting /\ at' = [at EXCEPT ![r] = @ + 1] /\ outcome' = outcome
        /\ kind' = kind
    BY DEF Connect, Active, Go
  <1>3. /\ owner'[c] = r /\ \A d \in Connections : d # c => owner'[d] = owner[d]
        /\ at'[r] = at[r] + 1 /\ \A q \in Requests : q # r => at'[q] = at[q]
        /\ \A d \in Connections : owner[d] \in Requests \cup {Nobody}
    BY <1>1, <1>2 DEF Inv, TypeOK
  <1>4. \A q \in Requests \ {r} : Connected(q)' = Connected(q)
    BY <1>2, <1>3 DEF Connected
  <1>5. at[r] >= 1
    <2>1. at[r] # 0 /\ at[r] \in Nat
      BY <1>2, StepOrder DEF Connecting
    <2> QED BY <2>1
  <1>6. Connected(r)'
    BY <1>2, <1>3, <1>5, StepOrder DEF Connected
  <1>7. kind[r] \in {"form", "find"} => \A d \in Connections : owner[d] # r
    BY <1>2, NobodyAssumption, StepOrder DEF HolderInv, Owns, Connected
  <1>8. ASSUME NEW d \in Connections PROVE Owns(d)'
    BY <1>3, <1>4, <1>6, <1>8 DEF HolderInv, Owns
  <1>9. ASSUME NEW d \in Connections, NEW e \in Connections PROVE Alone(d, e)'
    BY <1>2, <1>3, <1>7, <1>9 DEF HolderInv, Alone
  <1> QED BY <1>8, <1>9

LEMMA ConnectionGiven ==
    ASSUME Inv, HolderInv, NEW r \in Requests, Return(r)
    PROVE  (\A c \in Connections : Owns(c))' /\ (\A c, d \in Connections : Alone(c, d))'
  <1>1. PICK c \in Connections : owner[c] = r /\ owner' = [owner EXCEPT ![c] = Nobody]
    BY DEF Return
  <1>2. /\ kind' = kind
        /\ at' = at \/ at' = [at EXCEPT ![r] = @ + 1]
    BY DEF Return, Finish, Go
  <1>3. /\ owner'[c] = Nobody /\ \A d \in Connections : d # c => owner'[d] = owner[d]
        /\ \A q \in Requests : q # r => at'[q] = at[q]
        /\ at'[r] = at[r] \/ at'[r] = at[r] + 1
        /\ \A d \in Connections : owner[d] \in Requests \cup {Nobody}
    BY <1>1, <1>2 DEF Inv, TypeOK
  <1>4. \A q \in Requests \ {r} : Connected(q)' = Connected(q)
    BY <1>2, <1>3 DEF Connected
  <1>5. ASSUME NEW d \in Connections, owner'[d] = r PROVE Connected(r)'
    <2>1. d # c /\ owner[d] = r /\ r # Nobody
      BY <1>3, <1>5, NobodyAssumption
    <2>2. kind[r] \notin {"form", "find"} /\ Connected(r)
      BY <1>1, <2>1 DEF HolderInv, Alone, Owns
    <2> QED BY <1>2, <1>3, <2>2, StepOrder DEF Connected
  <1>6. ASSUME NEW d \in Connections PROVE Owns(d)'
    BY <1>3, <1>4, <1>5, <1>6 DEF HolderInv, Owns
  <1>7. ASSUME NEW d \in Connections, NEW e \in Connections PROVE Alone(d, e)'
    BY <1>2, <1>3, <1>7 DEF HolderInv, Alone
  <1> QED BY <1>6, <1>7

\* The lock, if only r moves and the others' calls run on.
LEMMA LockKept ==
    ASSUME HolderInv, NEW r \in Requests, Only(r), kind' = kind,
           \A q \in Requests \ {r} : /\ phase[q] = "running" => phase'[q] = "running"
                                     /\ phase'[q] = "writing" => phase[q] = "writing",
           lock' \in {lock, Nobody, r}, LockHeld(r)' /\ Writes(r)'
    PROVE  (\A q \in Requests : LockHeld(q) /\ Writes(q))'
  <1>1. ASSUME NEW q \in Requests, q # r PROVE LockHeld(q)' /\ Writes(q)'
    <2>1. Step(q)' = Step(q)
      BY <1>1, StepKept
    <2> QED BY <1>1, <2>1, NobodyAssumption DEF HolderInv, LockHeld, Writes
  <1> QED BY <1>1

\* What the end of a call does to the calls of the others.
LEMMA GuardDropped ==
    ASSUME Inv, NEW r \in Requests, DropGuard(r)
    PROVE  /\ phase'[r] \in {"ready", "woken"}
           /\ \A q \in Requests \ {r} : /\ phase[q] = "running" => phase'[q] = "running"
                                        /\ phase'[q] = "writing" => phase[q] = "writing"
  BY DEF DropGuard, In, Inv, TypeOK

\* A request that fails holds neither connection nor lock, but for a job that
\* goes on to record its failure, with its connection, and so does one whose
\* gate is passed over.
LEMMA FailedHolds ==
    ASSUME Inv, HolderInv, NEW r \in Requests, kind' = kind, Fail(r) \/ GiveUp(r) \/ PassOver(r)
    PROVE  /\ lock' \in {lock, Nobody} /\ lock' # r /\ Only(r)
           /\ (\A c \in Connections : Owns(c))' /\ (\A c, d \in Connections : Alone(c, d))'
  <1>1. CASE GiveUp(r)
    <2>1. /\ lock' \in {lock, Nobody} /\ lock' # r
          /\ owner' = [c \in Connections |-> IF owner[c] = r THEN Nobody ELSE owner[c]]
      BY <1>1, NobodyAssumption DEF GiveUp
    <2>2. Only(r)
      BY <1>1 DEF GiveUp, Finish, Only, Inv, TypeOK
    <2> QED BY <2>1, <2>2, OwnersKept
  <1>2. CASE Recording(r)
    <2>1. /\ lock' \in {lock, Nobody} /\ lock' # r /\ owner' = owner
          /\ kind[r] = "job" /\ at' = [at EXCEPT ![r] = 4] /\ outcome' = outcome
      BY <1>2, NobodyAssumption DEF Recording
    <2>2. Only(r)
      BY <2>1 DEF Only, Inv, TypeOK
    <2> QED BY <2>1, <2>2, StaysConnected, OwnersKept
  <1>3. CASE PassOver(r)
    <2>1. /\ lock' \in {lock, Nobody} /\ lock' # r
          /\ owner' = [c \in Connections |-> IF owner[c] = r THEN Nobody ELSE owner[c]]
      BY <1>3, NobodyAssumption DEF PassOver
    <2>2. Only(r)
      BY <1>3 DEF PassOver, Only, Inv, TypeOK
    <2> QED BY <2>1, <2>2, OwnersKept
  <1> QED BY <1>1, <1>2, <1>3 DEF Fail

\* A step outside Lua.
LEMMA OutsideHolds ==
    ASSUME Inv, HolderInv, NEW r \in Requests,
           \/ Arrive(r) \/ Connect(r) \/ ConnectTimeout(r) \/ GateTimeout(r) \/ Return(r)
           \/ Begin(r) \/ Record(r) \/ BusyTimeout(r) \/ Commit(r)
    PROVE  HolderInv'
  <1> DEFINE Owning == (\A c \in Connections : Owns(c)) /\ (\A c, d \in Connections : Alone(c, d))
             Locking == \A q \in Requests : LockHeld(q) /\ Writes(q)
  <1>1. /\ kind' = kind /\ phase' = phase
        /\ Step(r) \in {"none", "return", "begin", "record", "commit"} \cup Connecting
    BY StepOrder DEF Connecting, Arrive, Connect, ConnectTimeout, GateTimeout, Return, Begin, Record,
                     BusyTimeout, Commit, Active
  <1>2. phase[r] = "ready"
    BY <1>1 DEF Inv, CallInv, Busy, Calling, Refusing, Tolerant, Connecting
  <1>3. Writes(r)' /\ (lock = r => Step(r) = "commit")
    BY <1>1, <1>2 DEF HolderInv, Writes, LockHeld, Connecting
  <1>4. CASE ConnectTimeout(r) \/ GateTimeout(r) \/ BusyTimeout(r)
    <2>1. GiveUp(r) \/ PassOver(r)
      BY <1>4 DEF ConnectTimeout, GateTimeout, BusyTimeout
    <2>2. Owning' /\ lock' \in {lock, Nobody} /\ lock' # r /\ Only(r)
      BY <1>1, <2>1, FailedHolds
    <2>3. Locking'
      BY <1>1, <1>3, <2>2, LockKept DEF LockHeld
    <2> QED BY <2>2, <2>3 DEF HolderInv
  <1>5. CASE ~(ConnectTimeout(r) \/ GateTimeout(r) \/ BusyTimeout(r))
    <2>1. Only(r) /\ (Go(r) \/ at' = at)
      BY <1>5 DEF Arrive, Connect, Return, Begin, Record, Commit, Go, Finish, Only, Inv, TypeOK
    <2>2. Owning'
      <3>1. CASE Connect(r)
        BY <3>1, ConnectionTaken
      <3>2. CASE Return(r)
        BY <3>2, ConnectionGiven
      <3>3. CASE Arrive(r) \/ Begin(r) \/ Record(r) \/ Commit(r)
        <4>1. owner' = owner /\ Go(r) /\ Step(r) \notin Connecting \cup {"return"}
          BY <3>3, StepOrder DEF Connecting, Arrive, Begin, Record, Commit, Active
        <4> QED BY <1>1, <2>1, <4>1, StaysConnected, OwnersKept
      <3> QED BY <1>5, <3>1, <3>2, <3>3
    <2>3. CASE Begin(r)
      <3>1. Step(r) = "begin" /\ Go(r) /\ lock' = r
        BY <2>3 DEF Begin, Active
      <3>2. Step(r)' \in {"before_write", "after_write"}
        BY <1>1, <3>1, StepGone
      <3>3. LockHeld(r)'
        BY <3>2 DEF LockHeld
      <3> QED BY <1>1, <1>3, <2>1, <2>2, <3>1, <3>3, LockKept DEF HolderInv
    <2>4. CASE ~Begin(r)
      <3>1. lock' \in {lock, Nobody} /\ lock' # r
        BY <1>3, <1>5, <2>4, NobodyAssumption, StepOrder
           DEF Connecting, Arrive, Connect, Return, Record, Commit, Active
      <3> QED BY <1>1, <1>3, <2>1, <2>2, <3>1, LockKept DEF HolderInv, LockHeld
    <2> QED BY <2>3, <2>4
  <1> QED BY <1>4, <1>5

\* A call that takes its VM, waits or writes.
LEMMA CallHolds ==
    ASSUME Inv, HolderInv, NEW r \in Requests,
           \/ Acquire(r) \/ Sleep(r) \/ WantLock(r) \/ GetLock(r)
           \/ AcquireTimeout(r) /\ TakeVM(r)
    PROVE  HolderInv'
  <1>1. /\ UNCHANGED <<kind, at, outcome, owner>> /\ lock' \in {lock, r}
        /\ \E to \in {"running", "asleep", "writing"} : phase' = [phase EXCEPT ![r] = to]
    BY DEF Acquire, Sleep, WantLock, GetLock, TakeVM
  <1>2. Only(r) /\ Step(r)' = Step(r)
    BY <1>1 DEF Only, Step
  <1>3. /\ \A q \in Requests \ {r} : phase'[q] = phase[q]
        /\ \A to : phase' = [phase EXCEPT ![r] = to] => phase'[r] = to
    BY <1>1 DEF Inv, TypeOK
  <1>4. Writes(r)'
    <2>1. phase'[r] = "writing" => WantLock(r)
      BY <1>3 DEF Acquire, Sleep, GetLock, TakeVM
    <2> QED BY <1>2, <2>1 DEF Writes, WantLock
  <1>5. LockHeld(r)'
    <2>1. CASE GetLock(r)
      <3>1. Step(r) \in WithContext /\ phase'[r] = "running"
        BY <1>3, <2>1 DEF GetLock, HolderInv, Writes
      <3> QED BY <1>2, <3>1 DEF LockHeld
    <2>2. CASE WantLock(r)
      BY <2>2 DEF WantLock, LockHeld
    <2>3. CASE Acquire(r) \/ Sleep(r) \/ (AcquireTimeout(r) /\ TakeVM(r))
      <3>1. lock' = lock /\ phase[r] # "running"
        BY <2>3 DEF Acquire, Sleep, AcquireTimeout, TakeVM
      <3> QED BY <1>2, <3>1 DEF HolderInv, LockHeld
    <2> QED BY <2>1, <2>2, <2>3
  <1>6. (\A c \in Connections : Owns(c))' /\ (\A c, d \in Connections : Alone(c, d))'
    BY <1>1, <1>2, StaysConnected, OwnersKept
  <1>7. (\A q \in Requests : LockHeld(q) /\ Writes(q))'
    BY <1>1, <1>2, <1>3, <1>4, <1>5, LockKept
  <1> QED BY <1>6, <1>7 DEF HolderInv

\* A wait for a VM that times out, and a call that ends.
LEMMA CallEndHolds ==
    ASSUME Inv, HolderInv, NEW r \in Requests,
           \/ /\ phase[r] = "asleep" /\ WithoutVM(r)
              /\ phase' = [phase EXCEPT ![r] = "ready"] /\ UNCHANGED kind
           \/ CallReturns(r) \/ CallFails(r) \/ CallFailsTolerated(r) \/ Panic(r)
    PROVE  HolderInv'
  <1>1. /\ kind' = kind /\ phase'[r] \in {"ready", "woken"}
        /\ \A q \in Requests \ {r} : /\ phase[q] = "running" => phase'[q] = "running"
                                     /\ phase'[q] = "writing" => phase[q] = "writing"
    BY GuardDropped DEF CallReturns, CallFails, CallFailsTolerated, Panic, Inv, TypeOK
  <1>2. Writes(r)' /\ phase[r] # "ready"
    BY <1>1 DEF Writes, CallReturns, CallFails, CallFailsTolerated, Panic
  <1>3. CASE Fail(r) \/ GiveUp(r) \/ PassOver(r)
    <2>1. /\ lock' \in {lock, Nobody} /\ lock' # r /\ Only(r)
          /\ (\A c \in Connections : Owns(c))' /\ (\A c, d \in Connections : Alone(c, d))'
      BY <1>1, <1>3, FailedHolds
    <2> QED BY <1>1, <1>2, <2>1, LockKept DEF HolderInv, LockHeld
  <1>4. CASE ~(Fail(r) \/ GiveUp(r) \/ PassOver(r))
    <2>1. Go(r) /\ owner' = owner /\ lock' \in {lock, Nobody}
      BY <1>4 DEF WithoutVM, CallReturns, CallFails, CallFailsTolerated, Panic
    <2>2. Only(r) /\ Step(r) \notin Connecting \cup {"return"}
      <3>1. Calling(r)
        BY <1>2, InCallBusy
      <3> QED BY <2>1, <3>1 DEF Only, Go, Inv, TypeOK, Calling, Refusing, Tolerant, Connecting
    <2>3. (\A c \in Connections : Owns(c))' /\ (\A c, d \in Connections : Alone(c, d))'
      BY <1>1, <2>1, <2>2, StaysConnected, OwnersKept
    <2>4. LockHeld(r)'
      <3>1. SUFFICES ASSUME lock' = r PROVE Step(r)' \in {"before_write", "after_write", "commit"}
        BY DEF LockHeld
      <3>2. lock = r
        BY <2>1, <3>1, NobodyAssumption
      <3>3. CASE CallReturns(r)
        <4>1. Step(r) \notin {"enter", "access", "fields"}
          BY <3>1, <3>2, <3>3, NobodyAssumption DEF CallReturns
        <4>2. Step(r) \in {"before_write", "after_write", "handler"}
          BY <1>2, <3>2, <4>1, InCallBusy
             DEF HolderInv, LockHeld, WithContext, Refusing, Tolerant, Calling
        <4> QED BY <1>1, <2>1, <4>2, StepGone
      <3>4. CASE ~CallReturns(r)
        <4>1. Step(r) \in Tolerant /\ phase[r] # "running"
          BY <1>4, <3>4 DEF WithoutVM, CallFails, CallFailsTolerated, Panic
        <4> QED BY <3>2, <4>1 DEF HolderInv, LockHeld, Tolerant
      <3> QED BY <3>3, <3>4
    <2> QED BY <1>1, <1>2, <2>1, <2>2, <2>3, <2>4, LockKept DEF HolderInv
  <1> QED BY <1>3, <1>4

LEMMA HolderInit == Init => HolderInv
  BY NobodyAssumption DEF Init, HolderInv, LockHeld, Writes, Owns, Alone

LEMMA HolderStep == Inv /\ HolderInv /\ [Next]_vars => HolderInv'
  <1> SUFFICES ASSUME Inv, HolderInv, [Next]_vars PROVE HolderInv'
    OBVIOUS
  <1>1. CASE \E r \in Requests : \/ Arrive(r) \/ Connect(r) \/ ConnectTimeout(r) \/ GateTimeout(r) \/ Return(r)
                                 \/ Begin(r) \/ Record(r) \/ BusyTimeout(r) \/ Commit(r)
    BY <1>1, OutsideHolds
  <1>2. ASSUME NEW r \in Requests, Acquire(r) \/ Sleep(r) \/ WantLock(r) \/ GetLock(r)
        PROVE  HolderInv'
    BY <1>2, CallHolds
  <1>3. ASSUME NEW r \in Requests, AcquireTimeout(r) PROVE HolderInv'
    <2>1. CASE TakeVM(r)
      BY <1>3, <2>1, CallHolds
    <2>2. CASE ~TakeVM(r)
      <3>1. /\ phase[r] = "asleep" /\ WithoutVM(r)
            /\ phase' = [phase EXCEPT ![r] = "ready"] /\ UNCHANGED kind
        BY <1>3, <2>2 DEF AcquireTimeout
      <3> QED BY <3>1, CallEndHolds
    <2> QED BY <2>1, <2>2
  <1>4. CASE \E r \in Requests : CallReturns(r) \/ CallFails(r) \/ CallFailsTolerated(r) \/ Panic(r)
    BY <1>4, CallEndHolds
  <1>5. CASE UNCHANGED vars
    BY <1>5 DEF vars, HolderInv, LockHeld, Writes, Owns, Alone, Connected, Step
  <1> QED BY <1>1, <1>2, <1>3, <1>4, <1>5 DEF Next, Progress

\* Without a second connection and without a Lua function that writes outside
\* its transaction no circle closes, for any number of requests, connections
\* and VMs: who holds the lock waits at most for a VM, who holds a VM for
\* nothing, and who waits for its first connection holds none.
THEOREM KnotsAreKnown == Spec => []KnotsKnown
  <1> DEFINE Known(r) == \/ ForConnection(r) /\ kind[r] \in {"create", "job"} /\ at[r] > 1
                         \/ phase[r] = "writing"
  <1>1. Inv /\ HolderInv => KnotsKnown
    <2> SUFFICES ASSUME Inv, HolderInv, NEW S \in (SUBSET {r \in Requests : ~Known(r)}) \ {{}},
                        \A r \in S : WaitsIn(r, S)
                 PROVE  FALSE
      BY DEF KnotsKnown
    <2>1. S # {} /\ \A r \in S : r \in Requests /\ ~Known(r) /\ WaitsIn(r, S)
      OBVIOUS
    <2>2. ASSUME NEW v \in VMs, user[v] \in S PROVE FALSE
      <3>1. user[v] # Nobody /\ phase[user[v]] = "running"
        BY <2>1, <2>2, NobodyAssumption DEF Inv, CallInv, Held
      <3>2. Calling(user[v])
        BY <2>1, <2>2, <3>1, InCallBusy
      <3>3. WaitsIn(user[v], S)
        BY <2>1, <2>2
      <3> QED BY <3>1, <3>2, <3>3 DEF WaitsIn, ForConnection, ForVM, ForLock, Connecting, Active, Calling,
                                     Refusing, Tolerant
    <2>3. ASSUME NEW r \in S PROVE ~ForVM(r)
      <3>1. ASSUME ForVM(r) PROVE FALSE
        <4>1. ~ForConnection(r) /\ ~ForLock(r)
          BY <3>1 DEF ForVM, ForConnection, ForLock, Connecting, Active, Calling, Refusing, Tolerant
        <4>2. \A v \in VMs : user[v] \in S
          BY <2>1, <2>3, <4>1 DEF WaitsIn
        <4> QED BY <2>2, <4>2, PoolsAssumption
      <3> QED BY <3>1
    <2>4. ASSUME NEW r \in S PROVE ~ForLock(r) \/ ForConnection(r)
      <3>1. ASSUME ForLock(r), ~ForConnection(r) PROVE FALSE
        <4>1. lock \in S /\ lock \in Requests
          BY <2>1, <2>3, <3>1 DEF WaitsIn
        <4>2. \/ Step(lock) \in {"before_write", "after_write", "commit"}
              \/ phase[lock] = "running" /\ Step(lock) \in WithContext
          BY <4>1 DEF HolderInv, LockHeld
        <4>3. ~ForConnection(lock) /\ ~ForLock(lock)
          BY <2>1, <4>1, <4>2 DEF ForConnection, ForLock, Connecting, Active, WithContext, Refusing, Tolerant
        <4> QED BY <2>1, <2>3, <4>1, <4>3 DEF WaitsIn
      <3> QED BY <3>1
    <2>5. \A r \in S : ForConnection(r) /\ \A c \in Connections : owner[c] \in S
      BY <2>1, <2>3, <2>4 DEF WaitsIn, ForConnection, ForLock, Connecting, Active
    <2>6. PICK c \in Connections : owner[c] \in S
      BY <2>1, <2>5, PoolsAssumption
    <2>7. owner[c] \in Requests /\ Step(owner[c]) \in Connecting /\ Connected(owner[c])
      BY <2>1, <2>5, <2>6, NobodyAssumption DEF ForConnection, Active, HolderInv, Owns
    <2>8. kind[owner[c]] \in {"create", "job"} /\ at[owner[c]] > 1
      BY <2>7, StepOrder DEF Connected
    <2> QED BY <2>1, <2>5, <2>6, <2>8
  <1> QED BY InitInv, StepInv, HolderInit, HolderStep, <1>1, PTL DEF Spec
=============================================================================
