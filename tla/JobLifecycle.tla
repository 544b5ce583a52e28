---------------------------- MODULE JobLifecycle ----------------------------
(***************************************************************************)
(* What the ML job queue promises its users, whatever happens to workers,  *)
(* processes and leases: one active job per type; a job is started at most *)
(* once and never again after an unknown crash point; it publishes at most *)
(* once; it is completed only after it published; its final status stays.  *)
(***************************************************************************)
EXTENDS Naturals

CONSTANTS Jobs, JobTypes, TypeOf

VARIABLES
    status,         \* background_task_history.status, "none" before the row
    published       \* times the outcome of each job was committed

lifecycleVars == <<status, published>>

Active == {"scheduled", "running"}
Final == {"completed", "failed", "cancelled"}

LifecycleInit ==
    /\ status = [j \in Jobs |-> "none"]
    /\ published = [j \in Jobs |-> 0]

Accept(j) ==
    /\ status[j] = "none"
    /\ \A k \in Jobs : TypeOf[k] = TypeOf[j] => status[k] \notin Active
    /\ status' = [status EXCEPT ![j] = "scheduled"]
    /\ UNCHANGED published

Start(j) ==
    /\ status[j] = "scheduled"
    /\ status' = [status EXCEPT ![j] = "running"]
    /\ UNCHANGED published

Withdraw(j) ==
    /\ status[j] = "scheduled"
    /\ status' = [status EXCEPT ![j] = "cancelled"]
    /\ UNCHANGED published

\* A job that was started may publish even after it was given up: whoever gave
\* it up cannot know.
Produce(j) ==
    /\ status[j] \in {"running"} \cup Final
    /\ published[j] = 0
    /\ published' = [published EXCEPT ![j] = 1]
    /\ UNCHANGED status

Succeed(j) ==
    /\ status[j] = "running"
    /\ published[j] = 1
    /\ status' = [status EXCEPT ![j] = "completed"]
    /\ UNCHANGED published

\* Any number of abandoned jobs are failed by one statement.
GiveUp(lost, final) ==
    /\ \A j \in lost : status[j] = "running"
    /\ status' = [j \in Jobs |-> IF j \in lost THEN final ELSE status[j]]
    /\ UNCHANGED published

LifecycleNext ==
    \/ \E j \in Jobs :
          Accept(j) \/ Start(j) \/ Withdraw(j) \/ Produce(j) \/ Succeed(j)
    \/ \E lost \in SUBSET Jobs, final \in {"failed", "cancelled"} :
          GiveUp(lost, final)

LifecycleSpec == LifecycleInit /\ [][LifecycleNext]_lifecycleVars
=============================================================================
