------------------------------- MODULE MlJobs -------------------------------
(***************************************************************************)
(* The durable queue of ML jobs (backend/core/task_history.py,             *)
(* backend/ml/job_service.py, backend/ml/worker.py).  The API inserts job  *)
(* rows and records cancellations; a worker leases a row, runs the job in  *)
(* a child process, renews the lease while it watches the child, and       *)
(* reports; workers fail the rows whose lease passed.  A job commits its   *)
(* outcome (a model, a dataset, thresholds) before it reports.             *)
(*                                                                         *)
(* Workers, children and the API share only the table.  Each statement on  *)
(* it re-checks the status it relies on, so each is a step; what a process *)
(* read in an earlier statement may be stale.                              *)
(***************************************************************************)
EXTENDS Naturals, Sequences, FiniteSets

CONSTANTS
    Jobs,           \* job ids, each submitted at most once
    JobTypes,       \* task types
    TypeOf,         \* the type of each job
    TimedTypes,     \* types with a deadline (threshold_learning)
    Workers,        \* worker processes (one in production)
    MaxDeaths,      \* bound: worker processes that die
    None            \* no value

ASSUME JobAssumption ==
    /\ IsFiniteSet(Jobs)
    /\ TypeOf \in [Jobs -> JobTypes]
    /\ TimedTypes \subseteq JobTypes
    /\ MaxDeaths \in Nat
    /\ None \notin Jobs \cup Workers

VARIABLES
    \* --- rows of background_task_history
    status,
    line,               \* the rows by scheduled_time
    leaseOwner,         \* lease_owner
    lapsed,             \* jobs whose lease_expires_at has passed
    cancelRequested,    \* jobs with a cancel_requested_at
    \* --- API requests
    asked,              \* submissions between the lookup and the insert
    cancelling,         \* the status a cancel request read
    \* --- workers
    worker, held, verdict,
    \* --- child processes, and what they committed
    child,
    published,
    deaths

rowVars == <<status, line, leaseOwner, lapsed, cancelRequested>>
apiVars == <<asked, cancelling>>
workerVars == <<worker, held, verdict>>
childVars == <<child, published>>
vars == <<rowVars, apiVars, workerVars, childVars, deaths>>

Active == {"scheduled", "running"}
Final == {"completed", "failed", "cancelled"}
Alive == {"starting", "working", "published", "reported"}

TypeOK ==
    /\ status \in [Jobs -> {"none"} \cup Active \cup Final]
    /\ line \in Seq(Jobs)
    /\ leaseOwner \in [Jobs -> Workers \cup {None}]
    /\ lapsed \subseteq Jobs
    /\ cancelRequested \subseteq Jobs
    /\ asked \subseteq Jobs
    /\ cancelling \in [Jobs -> {"no"} \cup Active]
    /\ worker \in [Workers -> {"idle", "claimed", "watching", "renewing",
                               "terminating", "reporting", "dead"}]
    /\ held \in [Workers -> Jobs \cup {None}]
    /\ verdict \in [Workers -> {"exited", "ended", "cancelled", "lost", "timedOut"}]
    /\ child \in [Jobs -> {"none", "exited"} \cup Alive]
    /\ published \in [Jobs -> Nat]
    /\ deaths \in 0 .. MaxDeaths

Init ==
    /\ status = [j \in Jobs |-> "none"]
    /\ line = <<>>
    /\ leaseOwner = [j \in Jobs |-> None]
    /\ lapsed = {}
    /\ cancelRequested = {}
    /\ asked = {}
    /\ cancelling = [j \in Jobs |-> "no"]
    /\ worker = [w \in Workers |-> "idle"]
    /\ held = [w \in Workers |-> None]
    /\ verdict = [w \in Workers |-> "exited"]
    /\ child = [j \in Jobs |-> "none"]
    /\ published = [j \in Jobs |-> 0]
    /\ deaths = 0

-----------------------------------------------------------------------------
(* The API.                                                                 *)

TypeActive(type) == \E k \in Jobs : TypeOf[k] = type /\ status[k] \in Active

\* enqueue_ml_job: the early lookup finds no active job of the type.
Ask(j) ==
    /\ status[j] = "none" /\ j \notin asked
    /\ ~TypeActive(TypeOf[j])
    /\ asked' = asked \cup {j}
    /\ UNCHANGED <<rowVars, cancelling, workerVars, childVars, deaths>>

\* The insert, under the partial unique index on active task types.
Insert(j) ==
    /\ j \in asked
    /\ asked' = asked \ {j}
    /\ IF TypeActive(TypeOf[j])
       THEN UNCHANGED <<status, line>>          \* IntegrityError: conflict
       ELSE /\ status' = [status EXCEPT ![j] = "scheduled"]
            /\ line' = Append(line, j)
    /\ UNCHANGED <<leaseOwner, lapsed, cancelRequested, cancelling, workerVars,
                   childVars, deaths>>

\* request_cancel reads the row ...
AskCancel(j) ==
    /\ status[j] \in Active /\ cancelling[j] = "no"
    /\ cancelling' = [cancelling EXCEPT ![j] = status[j]]
    /\ UNCHANGED <<rowVars, asked, workerVars, childVars, deaths>>

\* ... and acts on what it read: a scheduled job is cancelled if it still is
\* scheduled, a running one gets a flag, whatever became of it meanwhile.
Cancel(j) ==
    /\ cancelling[j] # "no"
    /\ cancelling' = [cancelling EXCEPT ![j] = "no"]
    /\ IF cancelling[j] = "running"
       THEN /\ cancelRequested' = cancelRequested \cup {j}
            /\ UNCHANGED status
       ELSE /\ status' = IF status[j] = "scheduled"
                         THEN [status EXCEPT ![j] = "cancelled"] ELSE status
            /\ UNCHANGED cancelRequested
    /\ UNCHANGED <<line, leaseOwner, lapsed, asked, workerVars, childVars, deaths>>

-----------------------------------------------------------------------------
(* finish_job and fail_expired_queue_leases.                                *)

\* Seeded fault: finish_job does not ask whether the job is still active.
FinishUnchecked(j, final) ==
    /\ status' = [status EXCEPT ![j] = final]
    /\ leaseOwner' = [leaseOwner EXCEPT ![j] = None]
    /\ lapsed' = lapsed \ {j}
    /\ UNCHANGED <<line, cancelRequested>>

\* An update of an active row, and nothing else.
FinishJob(j, final) ==
    /\ IF status[j] \in Active
       THEN /\ status' = [status EXCEPT ![j] = final]
            /\ leaseOwner' = [leaseOwner EXCEPT ![j] = None]
            /\ lapsed' = lapsed \ {j}
       ELSE UNCHANGED <<status, leaseOwner, lapsed>>
    /\ UNCHANGED <<line, cancelRequested>>

\* Running jobs whose lease passed.
Expired == {j \in lapsed : status[j] = "running" /\ leaseOwner[j] # None}

\* run_worker, between jobs.
Expire(w) ==
    /\ worker[w] = "idle"
    /\ Expired # {}
    /\ status' = [j \in Jobs |-> IF j \in Expired THEN "failed" ELSE status[j]]
    /\ leaseOwner' = [j \in Jobs |-> IF j \in Expired THEN None ELSE leaseOwner[j]]
    /\ lapsed' = lapsed \ Expired
    /\ UNCHANGED <<line, cancelRequested, apiVars, workerVars, childVars, deaths>>

\* The lease passes: its worker is gone, or cannot reach the database.
LeaseLapses(j) ==
    /\ status[j] = "running" /\ leaseOwner[j] # None /\ j \notin lapsed
    /\ lapsed' = lapsed \cup {j}
    /\ UNCHANGED <<status, line, leaseOwner, cancelRequested, apiVars,
                   workerVars, childVars, deaths>>

-----------------------------------------------------------------------------
(* The worker.                                                              *)

\* The scheduled job that comes first, if there is one.
NextInLine ==
    LET waiting == {i \in DOMAIN line : status[line[i]] = "scheduled"}
    IN  {line[i] : i \in {k \in waiting : \A m \in waiting : k <= m}}

\* Seeded fault: the claim takes no lease.
ClaimUnleased(w, heard) ==
    /\ worker[w] = "idle"
    /\ \E j \in NextInLine :
          /\ status' = [status EXCEPT ![j] = "running"]
          /\ leaseOwner' = [leaseOwner EXCEPT ![j] = None]
          /\ IF heard
             THEN /\ worker' = [worker EXCEPT ![w] = "claimed"]
                  /\ held' = [held EXCEPT ![w] = j]
             ELSE UNCHANGED <<worker, held>>
    /\ UNCHANGED <<line, lapsed, cancelRequested, apiVars, verdict, childVars,
                   deaths>>

\* claim_next_queued_job.  `heard` is FALSE when the commit took effect and its
\* acknowledgement was lost: nobody runs the job.
Claim(w, heard) ==
    /\ worker[w] = "idle"
    /\ \E j \in NextInLine :
          /\ status' = [status EXCEPT ![j] = "running"]
          /\ leaseOwner' = [leaseOwner EXCEPT ![j] = w]
          /\ IF heard
             THEN /\ worker' = [worker EXCEPT ![w] = "claimed"]
                  /\ held' = [held EXCEPT ![w] = j]
             ELSE UNCHANGED <<worker, held>>
    /\ UNCHANGED <<line, lapsed, cancelRequested, apiVars, verdict, childVars,
                   deaths>>

\* _supervise starts the child.
Spawn(w) ==
    /\ worker[w] = "claimed"
    /\ child' = [child EXCEPT ![held[w]] = "starting"]
    /\ worker' = [worker EXCEPT ![w] = "watching"]
    /\ UNCHANGED <<rowVars, apiVars, held, verdict, published, deaths>>

Decide(w, why, next) ==
    /\ verdict' = [verdict EXCEPT ![w] = why]
    /\ worker' = [worker EXCEPT ![w] = next]
    /\ UNCHANGED <<rowVars, apiVars, held, childVars, deaths>>

SeeExit(w) ==
    /\ worker[w] = "watching" /\ child[held[w]] = "exited"
    /\ Decide(w, "exited", "reporting")

\* The deadline of a threshold job.
TimeOut(w) ==
    /\ worker[w] = "watching" /\ child[held[w]] # "exited"
    /\ TypeOf[held[w]] \in TimedTypes
    /\ Decide(w, "timedOut", "terminating")

\* Seeded fault: the cancel flag is not read.
LookOnlyAtStatus(w) ==
    /\ worker[w] = "watching" /\ child[held[w]] # "exited"
    /\ IF status[held[w]] \in Final
       THEN Decide(w, "ended", "terminating")
       ELSE Decide(w, "exited", "renewing")

\* Seeded fault: a terminal status is left to the child.
LookOnlyAtCancel(w) ==
    /\ worker[w] = "watching" /\ child[held[w]] # "exited"
    /\ IF status[held[w]] \in Final
       THEN Decide(w, "exited", "watching")
       ELSE IF held[w] \in cancelRequested
       THEN Decide(w, "cancelled", "terminating")
       ELSE Decide(w, "exited", "renewing")

\* _job_control after each heartbeat: the child that outlives its job's final
\* status by the grace period is terminated too.
Look(w) ==
    /\ worker[w] = "watching" /\ child[held[w]] # "exited"
    /\ IF status[held[w]] \in Final
       THEN Decide(w, "ended", "terminating")
       ELSE IF held[w] \in cancelRequested
       THEN Decide(w, "cancelled", "terminating")
       ELSE Decide(w, "exited", "renewing")

\* renew_job_lease: only a running job this worker still owns; an error counts
\* as a lost lease.
Renew(w) ==
    /\ worker[w] = "renewing"
    /\ \/ /\ status[held[w]] = "running" /\ leaseOwner[held[w]] = w
          /\ lapsed' = lapsed \ {held[w]}
          /\ worker' = [worker EXCEPT ![w] = "watching"]
          /\ UNCHANGED verdict
       \/ /\ verdict' = [verdict EXCEPT ![w] = "lost"]
          /\ worker' = [worker EXCEPT ![w] = "terminating"]
          /\ UNCHANGED lapsed
    /\ UNCHANGED <<status, line, leaseOwner, cancelRequested, apiVars, held,
                   childVars, deaths>>

\* Seeded fault: the worker goes on without waiting for the process to die.
TerminateAndForget(w) ==
    /\ worker[w] = "terminating"
    /\ worker' = [worker EXCEPT ![w] = "reporting"]
    /\ UNCHANGED <<rowVars, apiVars, held, verdict, childVars, deaths>>

\* _terminate: SIGTERM, then SIGKILL, then wait.
Terminate(w) ==
    /\ worker[w] = "terminating"
    /\ child' = [child EXCEPT ![held[w]] = "exited"]
    /\ worker' = [worker EXCEPT ![w] = "reporting"]
    /\ UNCHANGED <<rowVars, apiVars, held, verdict, published, deaths>>

\* The locals of _supervise end with it.
Leave(w, next) ==
    /\ worker' = [worker EXCEPT ![w] = next]
    /\ held' = [held EXCEPT ![w] = None]
    /\ verdict' = [verdict EXCEPT ![w] = "exited"]

\* Seeded fault: the reason becomes the status.
ReportVerdict(w) ==
    /\ worker[w] = "reporting"
    /\ FinishJob(held[w], verdict[w])
    /\ Leave(w, "idle")
    /\ UNCHANGED <<apiVars, childVars, deaths>>

\* The job is reported if its row still says running.  Errors are swallowed:
\* the row then waits for its lease to pass.
Report(w) ==
    /\ worker[w] = "reporting"
    /\ \/ FinishJob(held[w], IF verdict[w] = "cancelled" THEN "cancelled" ELSE "failed")
       \/ UNCHANGED rowVars
    /\ Leave(w, "idle")
    /\ UNCHANGED <<apiVars, childVars, deaths>>

\* An unhandled error, a kill or a redeployment ends the container, and the
\* child with it.
Die(w) ==
    /\ worker[w] # "dead"
    /\ deaths < MaxDeaths
    /\ deaths' = deaths + 1
    /\ child' = [j \in Jobs |-> IF j = held[w] /\ child[j] \in Alive
                                THEN "exited" ELSE child[j]]
    /\ Leave(w, "dead")
    /\ UNCHANGED <<rowVars, apiVars, published>>

\* restart: unless-stopped.
Restart(w) ==
    /\ worker[w] = "dead"
    /\ worker' = [worker EXCEPT ![w] = "idle"]
    /\ UNCHANGED <<rowVars, apiVars, held, verdict, childVars, deaths>>

-----------------------------------------------------------------------------
(* The child process, execute_job.                                          *)

\* Only a running job is executed.
Begin(j) ==
    /\ child[j] = "starting"
    /\ child' = [child EXCEPT ![j] = IF status[j] = "running"
                                     THEN "working" ELSE "exited"]
    /\ UNCHANGED <<rowVars, apiVars, workerVars, published, deaths>>

\* The outcome is committed, whatever the row says by now.
Publish(j) ==
    /\ child[j] = "working"
    /\ published' = [published EXCEPT ![j] = @ + 1]
    /\ child' = [child EXCEPT ![j] = "published"]
    /\ UNCHANGED <<rowVars, apiVars, workerVars, deaths>>

\* finish_job: success after the outcome, failure at any point; its own
\* errors are swallowed.
ChildReports(j) ==
    /\ \/ child[j] = "published" /\ FinishJob(j, "completed")
       \/ child[j] \in {"working", "published"} /\ FinishJob(j, "failed")
       \/ child[j] \in {"working", "published"} /\ UNCHANGED rowVars
    /\ child' = [child EXCEPT ![j] = "reported"]
    /\ UNCHANGED <<apiVars, workerVars, published, deaths>>

\* The process ends: normally once it reported, or killed by the system.
ChildEnds(j) ==
    /\ child[j] \in Alive
    /\ child' = [child EXCEPT ![j] = "exited"]
    /\ UNCHANGED <<rowVars, apiVars, workerVars, published, deaths>>

-----------------------------------------------------------------------------
ApiStep(j) == Ask(j) \/ Insert(j) \/ AskCancel(j) \/ Cancel(j)

Supervise(w) ==
    \/ Spawn(w) \/ SeeExit(w) \/ TimeOut(w) \/ Look(w) \/ Renew(w)
    \/ Terminate(w) \/ Report(w)

WorkerStep(w) ==
    \/ \E heard \in BOOLEAN : Claim(w, heard)
    \/ Supervise(w) \/ Expire(w) \/ Die(w) \/ Restart(w)

ChildStep(j) == Begin(j) \/ Publish(j) \/ ChildReports(j) \/ ChildEnds(j)

Next ==
    \/ \E j \in Jobs : ApiStep(j) \/ LeaseLapses(j) \/ ChildStep(j)
    \/ \E w \in Workers : WorkerStep(w)

Spec == Init /\ [][Next]_vars

\* A worker that lives takes its next step: every call has a timeout or a
\* bounded grace, the loop of run_worker comes back to maintenance before it
\* claims, and a container that died is restarted.  An unattended lease passes.
\* The clock of a watched job reaches its deadline.  Nothing is assumed of the
\* child processes.
Unattended(j) == \A w \in Workers : held[w] # j

Fairness ==
    /\ \A w \in Workers :
          /\ WF_vars(Supervise(w))
          /\ WF_vars(\E heard \in BOOLEAN : Claim(w, heard))
          /\ SF_vars(Expire(w))
          /\ SF_vars(TimeOut(w))
          /\ WF_vars(Restart(w))
    /\ \A j \in Jobs :
          /\ WF_vars(Cancel(j))
          /\ WF_vars(LeaseLapses(j) /\ Unattended(j))

FairSpec == Spec /\ Fairness

-----------------------------------------------------------------------------
(* Properties.                                                              *)

Lifecycle == INSTANCE JobLifecycle

\* The queue keeps the promises of JobLifecycle across workers, whose leases
\* may pass while their child still runs: one active job per type, no job
\* started or published twice, no final status overwritten.
LifecycleSpec == Lifecycle!LifecycleSpec

\* "Jobs are serialized" (worker.py:8): with one worker no two job processes
\* run at the same time, through lost leases, cancellations and restarts.
OneProcessAtATime ==
    \A j, k \in Jobs : child[j] \in Alive /\ child[k] \in Alive => j = k

\* A process of j that has no deadline never ends.
HangsForEver(j) == TypeOf[j] \notin TimedTypes /\ [](child[j] \in Alive)

\* A job that was claimed ends, whoever dies or fails to report, unless a
\* process without a deadline hangs for ever.
ClaimedJobsEnd ==
    \A j \in Jobs :
        status[j] = "running" ~>
            \/ status[j] \in Final
            \/ \E k \in Jobs : HangsForEver(k)

\* A cancelled job ends even if its own process hangs or its worker dies: only
\* the process of another job can hold it up.
CancelledJobsEnd ==
    \A j \in Jobs :
        j \in cancelRequested ~>
            \/ status[j] \in Final
            \/ \E k \in Jobs \ {j} : HangsForEver(k)

\* A process that outlives the final status of its job does not occupy the
\* worker for ever (worker.py:151).
WorkersAreFreed ==
    \A w \in Workers, j \in Jobs :
        held[w] = j /\ status[j] \in Final ~> held[w] # j
=============================================================================
