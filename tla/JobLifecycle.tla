---------------------------- MODULE JobLifecycle ----------------------------
(***************************************************************************)
(* What the job system promises of one row of _crap_jobs, whoever runs it: *)
(* the life of a row, and when the effects of its handler (the commit of   *)
(* the transaction the handler ran in) may happen.  JobQueue implements it.*)
(***************************************************************************)
EXTENDS Naturals

CONSTANT Jobs          \* the ids of all rows that may ever be inserted

VARIABLES
    status,            \* status of each row; "absent" before INSERT, "gone" after DELETE
    commits            \* how often the effects of the row's handler were committed

lcVars == <<status, commits>>

Statuses == {"absent", "pending", "running", "completed", "failed", "stale", "gone"}
Terminal == {"completed", "failed", "stale"}

Init ==
    /\ status = [j \in Jobs |-> "absent"]
    /\ commits = [j \in Jobs |-> 0]

Become(j, s) == status' = [status EXCEPT ![j] = s] /\ UNCHANGED commits

Submit(j) == status[j] = "absent" /\ Become(j, "pending")

(* Deleting rows: pending ones are withdrawn before they run, terminal     *)
(* ones are forgotten; a running row is never deleted.                     *)
Delete(S) ==
    /\ \A j \in S : status[j] \in {"pending"} \cup Terminal
    /\ status' = [j \in Jobs |-> IF j \in S THEN "gone" ELSE status[j]]
    /\ UNCHANGED commits

Claim(j) == status[j] = "pending" /\ Become(j, "running")

(* The handler's transaction commits, once, while the row is running. *)
Apply(j) ==
    /\ status[j] = "running" /\ commits[j] = 0
    /\ commits' = [commits EXCEPT ![j] = 1]
    /\ UNCHANGED status

(* A run is completed exactly when its effects are committed, and failed   *)
(* or retried only when they are not.                                      *)
Complete(j) == status[j] = "running" /\ commits[j] = 1 /\ Become(j, "completed")
Fail(j)     == status[j] = "running" /\ commits[j] = 0 /\ Become(j, "failed")
Retry(j)    == status[j] = "running" /\ commits[j] = 0 /\ Become(j, "pending")

(* A run whose server died is given up; nobody knows if it took effect. *)
Abandon(j)  == status[j] = "running" /\ Become(j, "stale")

Next ==
    \/ \E j \in Jobs : \/ Submit(j) \/ Claim(j) \/ Apply(j) \/ Complete(j)
                       \/ Fail(j) \/ Retry(j) \/ Abandon(j)
    \/ \E S \in SUBSET Jobs : Delete(S)

Spec == Init /\ [][Next]_lcVars
=============================================================================
