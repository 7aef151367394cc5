------------------------------ MODULE Delivery ------------------------------
(***************************************************************************)
(* What a delivery queue of WMS-B promises: a job is open until it is done *)
(* (delivered or skipped) or dropped, it is dropped only when MaxRetries   *)
(* attempts have failed, and what is done or dropped stays so.             *)
(* Notifications.tla and EmailQueue.tla implement it while no two runs of  *)
(* their processQueue() overlap; one step of theirs may settle many jobs.  *)
(***************************************************************************)
EXTENDS Naturals

CONSTANTS Jobs, MaxRetries

VARIABLES state,    \* state[j]: "none", "open", "done" or "dropped"
          failures  \* failures[j]: how many attempts at j have failed

vars == <<state, failures>>

Init ==
    /\ state = [j \in Jobs |-> "none"]
    /\ failures = [j \in Jobs |-> 0]

Stay(j) == state'[j] = state[j] /\ failures'[j] = failures[j]

Accept(j) ==
    /\ state[j] = "none"
    /\ state'[j] \in {"open", "done"}
    /\ failures'[j] = 0

Settle(j) ==
    /\ state[j] = "open"
    /\ state'[j] = "done"
    /\ failures'[j] = failures[j]

Fail(j) ==
    /\ state[j] = "open"
    /\ failures'[j] = failures[j] + 1
    /\ state'[j] = IF failures'[j] < MaxRetries THEN "open" ELSE "dropped"

Next == \A j \in Jobs : Stay(j) \/ Accept(j) \/ Settle(j) \/ Fail(j)

Spec == Init /\ [][Next]_vars
=============================================================================
