--------------------------- MODULE MlJobs_proofs ---------------------------
(***************************************************************************)
(* MlJobs implements JobLifecycle, for any number of jobs, types, workers, *)
(* deaths and lost leases.  The invariant says who may still act on a job  *)
(* given its status, and what its process has committed so far.            *)
(***************************************************************************)
EXTENDS MlJobs, TLAPS

Busy == {"claimed", "watching", "renewing", "terminating", "reporting"}
Started == {"running"} \cup Final

JobTypesOK ==
    /\ status \in [Jobs -> {"none"} \cup Active \cup Final]
    /\ line \in Seq(Jobs)
    /\ asked \subseteq Jobs
    /\ lapsed \subseteq Jobs
    /\ cancelling \in [Jobs -> {"no"} \cup Active]
    /\ worker \in [Workers -> Busy \cup {"idle", "dead"}]
    /\ held \in [Workers -> Jobs \cup {None}]
    /\ child \in [Jobs -> {"none", "exited"} \cup Alive]
    /\ published \in [Jobs -> Nat]

\* A submission that is still asked for has no row.
AskedHaveNoRow == \A j \in asked : status[j] = "none"

\* A worker that is busy holds a job that was started, and no other worker
\* holds it; one that has yet to spawn finds no process of that job.
Holding ==
    /\ \A w \in Workers : worker[w] \in Busy => held[w] \in Jobs
    /\ \A w \in Workers : held[w] # None => status[held[w]] \in Started
    /\ \A w, v \in Workers : held[w] = held[v] /\ held[w] # None => w = v
    /\ \A w \in Workers : worker[w] = "claimed" => child[held[w]] = "none"

\* A job that was never started has no process; one whose process has not
\* committed an outcome has published nothing, and then exactly once.
Processes ==
    \A j \in Jobs :
        /\ child[j] # "none" => status[j] \in Started
        /\ child[j] \in {"none", "starting", "working"} => published[j] = 0
        /\ child[j] = "published" => published[j] = 1

JobInv == JobTypesOK /\ AskedHaveNoRow /\ Holding /\ Processes

USE DEF Active, Final, Alive, Busy, Started

LEMMA InitJobs == Init => JobInv
BY JobAssumption
   DEF Init, JobInv, JobTypesOK, AskedHaveNoRow, Holding, Processes

\* What comes next in line is a scheduled job.
LEMMA NextIsScheduled ==
    ASSUME JobTypesOK, NEW j \in NextInLine
    PROVE  j \in Jobs /\ status[j] = "scheduled"
BY DEF NextInLine, JobTypesOK

\* Submissions and cancellations.
LEMMA ApiSteps ==
    ASSUME JobInv, NEW j \in Jobs, ApiStep(j)
    PROVE  JobInv' /\ [Lifecycle!LifecycleNext]_(Lifecycle!lifecycleVars)
<1> USE DEF Lifecycle!lifecycleVars, workerVars, childVars
<1>1. CASE Ask(j)
  BY <1>1 DEF Ask, rowVars, JobInv, JobTypesOK, AskedHaveNoRow, Holding, Processes
<1>2. CASE Insert(j)
  <2>1. CASE TypeActive(TypeOf[j])
    BY <1>2, <2>1 DEF Insert, JobInv, JobTypesOK, AskedHaveNoRow, Holding, Processes
  <2>2. CASE ~TypeActive(TypeOf[j])
    <3>1. status[j] = "none" /\ status' = [status EXCEPT ![j] = "scheduled"]
      BY <1>2, <2>2 DEF Insert, JobInv, AskedHaveNoRow
    <3>2. JobInv'
      <4>1. JobTypesOK'
        <5>0. line' = Append(line, j)
          BY <1>2, <2>2 DEF Insert
        <5>1. line' \in Seq(Jobs)
          BY <5>0 DEF JobInv, JobTypesOK
        <5>3. status' \in [Jobs -> {"none"} \cup Active \cup Final]
          BY <3>1 DEF JobInv, JobTypesOK
        <5>2. UNCHANGED <<lapsed, cancelling, worker, held, child, published>>
              /\ asked' \subseteq asked
          BY <1>2 DEF Insert
        <5> QED
          BY <5>1, <5>2, <5>3 DEF JobInv, JobTypesOK
      <4>2. AskedHaveNoRow'
        BY <1>2, <2>2, <3>1 DEF Insert, JobInv, JobTypesOK, AskedHaveNoRow
      <4>3. Holding'
        BY <1>2, <2>2, <3>1 DEF Insert, JobInv, JobTypesOK, Holding
      <4>4. Processes'
        BY <1>2, <2>2, <3>1 DEF Insert, JobInv, JobTypesOK, Processes
      <4> QED
        BY <4>1, <4>2, <4>3, <4>4 DEF JobInv
    <3>3. Lifecycle!Accept(j)
      BY <1>2, <2>2, <3>1 DEF Insert, Lifecycle!Accept, Lifecycle!Active, TypeActive
    <3> QED
      BY <3>2, <3>3 DEF Lifecycle!LifecycleNext
  <2> QED
    BY <2>1, <2>2
<1>3. CASE AskCancel(j)
  BY <1>3 DEF AskCancel, rowVars, JobInv, JobTypesOK, AskedHaveNoRow, Holding, Processes
<1>4. CASE Cancel(j)
  <2>1. CASE UNCHANGED status
    BY <1>4, <2>1
       DEF Cancel, JobInv, JobTypesOK, AskedHaveNoRow, Holding, Processes
  <2>2. CASE status[j] = "scheduled" /\ status' = [status EXCEPT ![j] = "cancelled"]
    <3>1. JobInv'
      BY <1>4, <2>2
         DEF Cancel, JobInv, JobTypesOK, AskedHaveNoRow, Holding, Processes
    <3>2. Lifecycle!Withdraw(j)
      BY <1>4, <2>2 DEF Cancel, Lifecycle!Withdraw
    <3> QED
      BY <3>1, <3>2 DEF Lifecycle!LifecycleNext
  <2> QED
    BY <1>4, <2>1, <2>2 DEF Cancel
<1> QED
  BY <1>1, <1>2, <1>3, <1>4 DEF ApiStep

\* A final status is written only over a running one.
LEMMA GivenUp ==
    ASSUME JobInv, NEW lost \in SUBSET Jobs, NEW final \in {"failed", "cancelled"},
           \A j \in lost : status[j] = "running",
           status' = [j \in Jobs |-> IF j \in lost THEN final ELSE status[j]],
           UNCHANGED published
    PROVE  /\ Lifecycle!LifecycleNext
           /\ \A j \in Jobs : status[j] \in Started => status'[j] \in Started
           /\ \A j \in Jobs : status[j] = "none" => status'[j] = "none"
           /\ status' \in [Jobs -> {"none"} \cup Active \cup Final]
<1>1. Lifecycle!GiveUp(lost, final)
  BY DEF Lifecycle!GiveUp
<1> QED
  BY <1>1 DEF Lifecycle!LifecycleNext, JobInv, JobTypesOK

\* finish_job reporting a failure or a cancellation, or nothing at all.
LEMMA FinishGivesUp ==
    ASSUME JobInv, NEW j \in Jobs, NEW final \in {"failed", "cancelled"},
           FinishJob(j, final) \/ UNCHANGED rowVars, UNCHANGED published,
           status[j] \in Started
    PROVE  /\ [Lifecycle!LifecycleNext]_(Lifecycle!lifecycleVars)
           /\ \A k \in Jobs : status[k] \in Started => status'[k] \in Started
           /\ \A k \in Jobs : status[k] = "none" => status'[k] = "none"
           /\ status' \in [Jobs -> {"none"} \cup Active \cup Final]
           /\ line' = line /\ lapsed' \subseteq Jobs
<1>1. CASE FinishJob(j, final) /\ status[j] = "running"
  <2>1. status' = [k \in Jobs |-> IF k \in {j} THEN final ELSE status[k]]
    BY <1>1 DEF FinishJob, JobInv, JobTypesOK
  <2>2. \A k \in {j} : status[k] = "running"
    BY <1>1
  <2> QED
    BY <1>1, <2>1, <2>2, GivenUp DEF FinishJob, JobInv, JobTypesOK
<1>2. CASE UNCHANGED <<status, line, lapsed>>
  BY <1>2 DEF Lifecycle!lifecycleVars, JobInv, JobTypesOK
<1> QED
  BY <1>1, <1>2 DEF FinishJob, rowVars

\* Claims, supervision, maintenance, deaths and restarts.
LEMMA WorkerSteps ==
    ASSUME JobInv, NEW w \in Workers, WorkerStep(w)
    PROVE  JobInv' /\ [Lifecycle!LifecycleNext]_(Lifecycle!lifecycleVars)
<1> USE JobAssumption DEF Lifecycle!lifecycleVars, apiVars, rowVars, childVars
<1>1. ASSUME NEW heard \in BOOLEAN, Claim(w, heard)
      PROVE  JobInv' /\ Lifecycle!LifecycleNext
  <2>1. PICK j \in NextInLine :
           /\ status' = [status EXCEPT ![j] = "running"]
           /\ IF heard
              THEN /\ worker' = [worker EXCEPT ![w] = "claimed"]
                   /\ held' = [held EXCEPT ![w] = j]
              ELSE UNCHANGED <<worker, held>>
    BY <1>1 DEF Claim
  <2>2. j \in Jobs /\ status[j] = "scheduled"
    BY NextIsScheduled DEF JobInv
  <2>3. child[j] = "none" /\ \A v \in Workers : held[v] # j
    <3>1. j # None /\ status[j] \notin Started
      BY <2>2
    <3>2. child[j] = "none"
      BY <2>2, <3>1 DEF JobInv, Processes
    <3>3. \A v \in Workers : held[v] # j
      BY <3>1 DEF JobInv, Holding
    <3> QED
      BY <3>2, <3>3
  <2> DEFINE unclaimed == <<line, lapsed, asked, cancelling, child, published>>
  <2>u. UNCHANGED unclaimed
    BY <1>1 DEF Claim
  <2>4. JobTypesOK'
    <3>1. /\ status' \in [Jobs -> {"none"} \cup Active \cup Final]
          /\ worker' \in [Workers -> Busy \cup {"idle", "dead"}]
          /\ held' \in [Workers -> Jobs \cup {None}]
      BY <2>1, <2>2 DEF JobInv, JobTypesOK
    <3> QED
      BY <3>1, <2>u DEF JobInv, JobTypesOK
  <2>5. AskedHaveNoRow'
    BY <2>u, <2>1, <2>2 DEF JobInv, JobTypesOK, AskedHaveNoRow
  <2>6. Processes'
    BY <2>u, <2>1, <2>2 DEF JobInv, JobTypesOK, Processes
  <2>7. Holding'
    <3>1. CASE heard
      <4>1. status' = [status EXCEPT ![j] = "running"]
            /\ worker' = [worker EXCEPT ![w] = "claimed"]
            /\ held' = [held EXCEPT ![w] = j] /\ child' = child
        BY <2>u, <2>1, <3>1
      <4>2. \A v \in Workers : /\ worker'[v] = IF v = w THEN "claimed" ELSE worker[v]
                               /\ held'[v] = IF v = w THEN j ELSE held[v]
        BY <4>1 DEF JobInv, JobTypesOK
      <4>3. \A k \in Jobs : status'[k] = IF k = j THEN "running" ELSE status[k]
        BY <4>1 DEF JobInv, JobTypesOK
      <4>4. \A v \in Workers : held[v] # None => held[v] \in Jobs /\ held[v] # j
        BY <2>3 DEF JobInv, JobTypesOK
      <4> QED
        BY <4>1, <4>2, <4>3, <4>4, <2>2, <2>3 DEF JobInv, Holding
    <3>2. CASE ~heard
      BY <2>u, <2>1, <2>2, <3>2 DEF JobInv, JobTypesOK, Holding
    <3> QED
      BY <3>1, <3>2
  <2>8. Lifecycle!Start(j)
    BY <1>1, <2>1, <2>2 DEF Claim, Lifecycle!Start
  <2> QED
    BY <2>2, <2>4, <2>5, <2>6, <2>7, <2>8 DEF JobInv, Lifecycle!LifecycleNext
<1>2. CASE Spawn(w)
  <2>1. /\ held[w] \in Jobs /\ child[held[w]] = "none"
        /\ status[held[w]] \in Started
    BY <1>2 DEF Spawn, JobInv, Holding
  <2> QED
    BY <1>2, <2>1 DEF Spawn, JobInv, JobTypesOK, AskedHaveNoRow, Holding, Processes
<1>3. CASE SeeExit(w) \/ TimeOut(w) \/ Look(w)
  <2>1. /\ worker[w] = "watching"
        /\ \E next \in {"renewing", "terminating", "reporting"} :
              worker' = [worker EXCEPT ![w] = next]
        /\ UNCHANGED <<rowVars, apiVars, held, childVars>>
    BY <1>3 DEF SeeExit, TimeOut, Look, Decide
  <2> QED
    BY <2>1 DEF JobInv, JobTypesOK, AskedHaveNoRow, Holding, Processes
<1>4. CASE Renew(w)
  <2>1. JobTypesOK'
    BY <1>4 DEF Renew, JobInv, JobTypesOK
  <2>2. AskedHaveNoRow'
    BY <1>4 DEF Renew, JobInv, JobTypesOK, AskedHaveNoRow
  <2>3. Holding'
    BY <1>4 DEF Renew, JobInv, JobTypesOK, Holding
  <2>4. Processes'
    BY <1>4 DEF Renew, JobInv, JobTypesOK, Processes
  <2> QED
    BY <1>4, <2>1, <2>2, <2>3, <2>4 DEF JobInv, Renew
<1>5. CASE Terminate(w)
  <2>1. held[w] \in Jobs /\ status[held[w]] \in Started
    BY <1>5 DEF Terminate, JobInv, Holding
  <2> QED
    BY <1>5, <2>1
       DEF Terminate, JobInv, JobTypesOK, AskedHaveNoRow, Holding, Processes
<1>6. CASE Report(w)
  <2>1. held[w] \in Jobs /\ status[held[w]] \in Started
    BY <1>6 DEF Report, JobInv, Holding
  <2>2. \E final \in {"failed", "cancelled"} :
           FinishJob(held[w], final) \/ UNCHANGED rowVars
    BY <1>6 DEF Report
  <2>3. /\ [Lifecycle!LifecycleNext]_(Lifecycle!lifecycleVars)
        /\ \A k \in Jobs : status[k] \in Started => status'[k] \in Started
        /\ \A k \in Jobs : status[k] = "none" => status'[k] = "none"
        /\ status' \in [Jobs -> {"none"} \cup Active \cup Final]
        /\ line' = line /\ lapsed' \subseteq Jobs
    BY <1>6, <2>1, <2>2, FinishGivesUp DEF Report
  <2>4. JobInv'
    BY <1>6, <2>3
       DEF Report, Leave, JobInv, JobTypesOK, AskedHaveNoRow, Holding, Processes
  <2> QED
    BY <2>3, <2>4
<1>7. CASE Expire(w)
  <2>1. Expired \in SUBSET Jobs /\ \A j \in Expired : status[j] = "running"
    BY DEF Expired, JobInv, JobTypesOK
  <2>2. status' = [j \in Jobs |-> IF j \in Expired THEN "failed" ELSE status[j]]
    BY <1>7 DEF Expire
  <2>3. /\ Lifecycle!LifecycleNext
        /\ \A j \in Jobs : status[j] \in Started => status'[j] \in Started
        /\ \A j \in Jobs : status[j] = "none" => status'[j] = "none"
        /\ status' \in [Jobs -> {"none"} \cup Active \cup Final]
    BY <1>7, <2>1, <2>2, GivenUp DEF Expire
  <2>4. JobInv'
    BY <1>7, <2>3
       DEF Expire, workerVars, JobInv, JobTypesOK, AskedHaveNoRow, Holding, Processes
  <2> QED
    BY <2>3, <2>4
<1>8. CASE Die(w)
  BY <1>8
     DEF Die, Leave, JobInv, JobTypesOK, AskedHaveNoRow, Holding, Processes
<1>9. CASE Restart(w)
  BY <1>9 DEF Restart, JobInv, JobTypesOK, AskedHaveNoRow, Holding, Processes
<1> QED
  BY <1>1, <1>2, <1>3, <1>4, <1>5, <1>6, <1>7, <1>8, <1>9 DEF WorkerStep, Supervise

\* The process of a job, and the passing of its lease.
LEMMA ChildSteps ==
    ASSUME JobInv, NEW j \in Jobs, ChildStep(j) \/ LeaseLapses(j)
    PROVE  JobInv' /\ [Lifecycle!LifecycleNext]_(Lifecycle!lifecycleVars)
<1> USE DEF Lifecycle!lifecycleVars, apiVars, rowVars, workerVars
<1>1. CASE Begin(j) \/ ChildEnds(j)
  <2>1. JobTypesOK'
    BY <1>1 DEF Begin, ChildEnds, JobInv, JobTypesOK
  <2>2. AskedHaveNoRow'
    BY <1>1 DEF Begin, ChildEnds, JobInv, JobTypesOK, AskedHaveNoRow
  <2>3. Holding'
    BY <1>1 DEF Begin, ChildEnds, JobInv, JobTypesOK, Holding
  <2>4. Processes'
    BY <1>1 DEF Begin, ChildEnds, JobInv, JobTypesOK, Processes
  <2> QED
    BY <1>1, <2>1, <2>2, <2>3, <2>4 DEF JobInv, Begin, ChildEnds
<1>2. CASE Publish(j)
  <2>1. status[j] \in Started /\ published[j] = 0
    BY <1>2 DEF Publish, JobInv, Processes
  <2>2. published' = [published EXCEPT ![j] = 1]
    BY <1>2, <2>1 DEF Publish
  <2>3. Lifecycle!Produce(j)
    BY <1>2, <2>1, <2>2 DEF Publish, Lifecycle!Produce, Lifecycle!Final
  <2>4. JobInv'
    BY <1>2, <2>1, <2>2
       DEF Publish, JobInv, JobTypesOK, AskedHaveNoRow, Holding, Processes
  <2> QED
    BY <2>3, <2>4 DEF Lifecycle!LifecycleNext
<1>3. CASE ChildReports(j) /\ child[j] = "published" /\ FinishJob(j, "completed")
            /\ status[j] = "running"
  <2>1. published[j] = 1 /\ status' = [status EXCEPT ![j] = "completed"]
    BY <1>3 DEF FinishJob, JobInv, Processes
  <2>2. Lifecycle!Succeed(j)
    BY <1>3, <2>1 DEF ChildReports, Lifecycle!Succeed
  <2>3. JobInv'
    BY <1>3, <2>1
       DEF ChildReports, FinishJob, JobInv, JobTypesOK, AskedHaveNoRow, Holding, Processes
  <2> QED
    BY <2>2, <2>3 DEF Lifecycle!LifecycleNext
<1>4. CASE /\ ChildReports(j)
           /\ FinishJob(j, "failed") \/ UNCHANGED rowVars
  <2>0. status[j] \in Started
    BY <1>4 DEF ChildReports, JobInv, Processes
  <2>1. /\ [Lifecycle!LifecycleNext]_(Lifecycle!lifecycleVars)
        /\ \A k \in Jobs : status[k] \in Started => status'[k] \in Started
        /\ \A k \in Jobs : status[k] = "none" => status'[k] = "none"
        /\ status' \in [Jobs -> {"none"} \cup Active \cup Final]
        /\ line' = line /\ lapsed' \subseteq Jobs
    BY <1>4, <2>0, FinishGivesUp DEF ChildReports
  <2>2. JobInv'
    <3>1. JobTypesOK'
      BY <1>4, <2>1 DEF ChildReports, JobInv, JobTypesOK
    <3>2. AskedHaveNoRow'
      BY <1>4, <2>1 DEF ChildReports, JobInv, JobTypesOK, AskedHaveNoRow
    <3>3. Holding'
      BY <1>4, <2>1 DEF ChildReports, JobInv, JobTypesOK, Holding
    <3>4. Processes'
      BY <1>4, <2>1 DEF ChildReports, JobInv, JobTypesOK, Processes
    <3> QED
      BY <3>1, <3>2, <3>3, <3>4 DEF JobInv
  <2> QED
    BY <2>1, <2>2
<1>5. CASE ChildReports(j) /\ FinishJob(j, "completed") /\ status[j] # "running"
  <2>1. status[j] \notin Active
    BY <1>5 DEF ChildReports, JobInv, Processes
  <2> QED
    BY <1>5, <2>1
     DEF ChildReports, FinishJob, JobInv, JobTypesOK, AskedHaveNoRow, Holding, Processes
<1>6. CASE LeaseLapses(j)
  BY <1>6
     DEF LeaseLapses, childVars, JobInv, JobTypesOK, AskedHaveNoRow, Holding, Processes
<1> QED
  BY <1>1, <1>2, <1>3, <1>4, <1>5, <1>6 DEF ChildStep, ChildReports

LEMMA JobStepSimulates ==
    ASSUME JobInv, [Next]_vars
    PROVE  JobInv' /\ [Lifecycle!LifecycleNext]_(Lifecycle!lifecycleVars)
<1>1. CASE UNCHANGED vars
  BY <1>1
     DEF vars, rowVars, apiVars, workerVars, childVars, Lifecycle!lifecycleVars,
         JobInv, JobTypesOK, AskedHaveNoRow, Holding, Processes
<1> QED
  BY <1>1, ApiSteps, WorkerSteps, ChildSteps DEF Next

\* Who holds a job, what its process committed and what its row says stay
\* consistent, for every set of jobs and workers.
THEOREM JobsConsistent == Spec => []JobInv
<1>1. JobInv /\ [Next]_vars => JobInv'
  BY JobStepSimulates
<1> QED
  BY <1>1, InitJobs, PTL DEF Spec

\* The queue implements the life cycle: one active job per type, no job started
\* or published twice, no final status overwritten, nothing completed that did
\* not publish.
THEOREM JobsKeepLifecycle == Spec => LifecycleSpec
<1>1. Init => Lifecycle!LifecycleInit
  BY DEF Init, Lifecycle!LifecycleInit
<1>2. JobInv /\ [Next]_vars => [Lifecycle!LifecycleNext]_(Lifecycle!lifecycleVars)
  BY JobStepSimulates
<1> QED
  BY <1>1, <1>2, JobsConsistent, PTL DEF Spec, LifecycleSpec, Lifecycle!LifecycleSpec

-----------------------------------------------------------------------------
\* A job process that lives is watched by a worker that holds its job.
Attended ==
    \A j \in Jobs :
        child[j] \in Alive =>
            \E w \in Workers :
                held[w] = j /\ worker[w] \in {"watching", "renewing", "terminating"}

\* Steps of the table and of processes already running start no process and
\* leave the workers alone.
LEMMA AttendedUnlessWorkerMoves ==
    ASSUME JobInv, Attended, NEW j \in Jobs,
           ApiStep(j) \/ LeaseLapses(j) \/ ChildStep(j)
    PROVE  Attended'
<1>1. UNCHANGED <<worker, held>>
  BY DEF ApiStep, Ask, Insert, AskCancel, Cancel, LeaseLapses, ChildStep, Begin,
         Publish, ChildReports, ChildEnds, workerVars
<1>2. \A k \in Jobs : child'[k] \in Alive => child[k] \in Alive
  BY DEF ApiStep, Ask, Insert, AskCancel, Cancel, LeaseLapses, ChildStep, Begin,
         Publish, ChildReports, ChildEnds, childVars, JobInv, JobTypesOK
<1> QED
  BY <1>1, <1>2 DEF Attended

\* A worker that attends no living process may do as it likes.
LEMMA OthersAttend ==
    ASSUME Attended, NEW w \in Workers,
           \A k \in Jobs : child'[k] \in Alive =>
               /\ child[k] \in Alive
               /\ held[w] = k =>
                     worker[w] \notin {"watching", "renewing", "terminating"},
           \A v \in Workers \ {w} : worker'[v] = worker[v] /\ held'[v] = held[v]
    PROVE  Attended'
<1> SUFFICES ASSUME NEW k \in Jobs, child'[k] \in Alive
             PROVE  \E v \in Workers :
                       /\ held'[v] = k
                       /\ worker'[v] \in {"watching", "renewing", "terminating"}
  BY DEF Attended
<1>1. PICK v \in Workers :
         held[v] = k /\ worker[v] \in {"watching", "renewing", "terminating"}
  BY DEF Attended
<1>2. v # w
  BY <1>1
<1> QED
  BY <1>1, <1>2

\* A worker leaves a job only when its process has ended.
LEMMA AttendedByWorkers ==
    ASSUME JobInv, Attended, NEW w \in Workers, WorkerStep(w)
    PROVE  Attended'
<1> USE JobAssumption DEF apiVars, rowVars, childVars, JobInv, JobTypesOK
<1>1. ASSUME NEW heard \in BOOLEAN, Claim(w, heard) PROVE Attended'
  <2>1. child' = child /\ worker[w] = "idle"
    BY <1>1 DEF Claim
  <2>2. \A v \in Workers \ {w} : worker'[v] = worker[v] /\ held'[v] = held[v]
    <3>1. CASE heard
      BY <1>1, <3>1 DEF Claim
    <3>2. CASE ~heard
      BY <1>1, <3>2 DEF Claim
    <3> QED
      BY <3>1, <3>2
  <2> QED
    BY <2>1, <2>2, OthersAttend
<1>2. CASE Spawn(w)
  BY <1>2 DEF Spawn, Attended, Holding
<1>3. CASE SeeExit(w)
  BY <1>3 DEF SeeExit, Decide, Attended
<1>4. CASE TimeOut(w) \/ Look(w)
  <2>1. /\ UNCHANGED <<held, child>> /\ worker[w] = "watching"
        /\ \E next \in {"renewing", "terminating"} :
              worker' = [worker EXCEPT ![w] = next]
    BY <1>4 DEF TimeOut, Look, Decide
  <2> QED
    BY <2>1 DEF Attended
<1>5. CASE Renew(w)
  <2>1. /\ UNCHANGED <<held, child>>
        /\ \E next \in {"watching", "terminating"} :
              worker' = [worker EXCEPT ![w] = next]
    BY <1>5 DEF Renew
  <2> QED
    BY <2>1 DEF Attended
<1>6. CASE Terminate(w)
  BY <1>6 DEF Terminate, Attended, Holding
<1>7. CASE Report(w)
  <2>1. child' = child /\ worker[w] = "reporting"
    BY <1>7 DEF Report
  <2>2. \A v \in Workers \ {w} : worker'[v] = worker[v] /\ held'[v] = held[v]
    BY <1>7 DEF Report, Leave
  <2> QED
    BY <2>1, <2>2, OthersAttend
<1>8. CASE Expire(w)
  BY <1>8 DEF Expire, workerVars, Attended
<1>9. CASE Die(w)
  <2>1. \A k \in Jobs : child'[k] \in Alive => child[k] \in Alive /\ held[w] # k
    BY <1>9 DEF Die
  <2>2. \A v \in Workers \ {w} : worker'[v] = worker[v] /\ held'[v] = held[v]
    BY <1>9 DEF Die, Leave
  <2> QED
    BY <2>1, <2>2, OthersAttend
<1>10. CASE Restart(w)
  BY <1>10 DEF Restart, Attended
<1> QED
  BY <1>1, <1>2, <1>3, <1>4, <1>5, <1>6, <1>7, <1>8, <1>9, <1>10
     DEF WorkerStep, Supervise

\* With one worker, as deployed, jobs are serialized: no two job processes run
\* at the same time.
THEOREM OneWorkerSerializes ==
    ASSUME \A w, v \in Workers : w = v
    PROVE  Spec => []OneProcessAtATime
<1>1. Init => Attended
  BY DEF Init, Attended
<1>2. JobInv /\ Attended /\ [Next]_vars => Attended'
  <2> SUFFICES ASSUME JobInv, Attended, [Next]_vars PROVE Attended'
    OBVIOUS
  <2>1. CASE UNCHANGED vars
    BY <2>1 DEF vars, workerVars, childVars, Attended
  <2> QED
    BY <2>1, AttendedUnlessWorkerMoves, AttendedByWorkers DEF Next
<1>3. Attended => OneProcessAtATime
  BY DEF Attended, OneProcessAtATime
<1> QED
  BY <1>1, <1>2, <1>3, JobsConsistent, PTL DEF Spec

-----------------------------------------------------------------------------
(* What the life cycle means for the users of the queue.                    *)

\* One active job per type, one outcome per job, none completed without one.
OneActivePerType ==
    \A j, k \in Jobs :
        (status[j] \in Active /\ status[k] \in Active /\ TypeOf[j] = TypeOf[k]) => j = k
PublishedAtMostOnce == \A j \in Jobs : published[j] <= 1
CompletedHasPublished == \A j \in Jobs : status[j] = "completed" => published[j] = 1
JobPromises == OneActivePerType /\ PublishedAtMostOnce /\ CompletedHasPublished

FinalStays == [][\A j \in Jobs : status[j] \in Final => status'[j] = status[j]]_status

LEMMA PromisesKept ==
    ASSUME JobTypesOK, JobPromises, [Lifecycle!LifecycleNext]_(Lifecycle!lifecycleVars)
    PROVE  JobPromises' /\ \A j \in Jobs : status[j] \in Final => status'[j] = status[j]
<1> USE DEF Lifecycle!Active, Lifecycle!Final
<1>1. CASE UNCHANGED Lifecycle!lifecycleVars
  BY <1>1 DEF Lifecycle!lifecycleVars, JobPromises, OneActivePerType, PublishedAtMostOnce,
     CompletedHasPublished
<1>2. ASSUME NEW j \in Jobs, Lifecycle!Accept(j)
      PROVE  JobPromises' /\ \A k \in Jobs : status[k] \in Final => status'[k] = status[k]
  BY <1>2 DEF Lifecycle!Accept, JobTypesOK, JobPromises, OneActivePerType, PublishedAtMostOnce,
     CompletedHasPublished
<1>3. ASSUME NEW j \in Jobs, Lifecycle!Start(j) \/ Lifecycle!Withdraw(j) \/ Lifecycle!Succeed(j)
      PROVE  JobPromises' /\ \A k \in Jobs : status[k] \in Final => status'[k] = status[k]
  <2>1. /\ published' = published /\ status[j] \in Active
        /\ status' \in {[status EXCEPT ![j] = s] : s \in {"running", "cancelled", "completed"}}
        /\ status'[j] = "completed" => published[j] = 1
    BY <1>3 DEF Lifecycle!Start, Lifecycle!Withdraw, Lifecycle!Succeed, JobTypesOK
  <2> QED
    BY <2>1 DEF JobTypesOK, JobPromises, OneActivePerType, PublishedAtMostOnce,
       CompletedHasPublished
<1>4. ASSUME NEW j \in Jobs, Lifecycle!Produce(j)
      PROVE  JobPromises' /\ \A k \in Jobs : status[k] \in Final => status'[k] = status[k]
  BY <1>4 DEF Lifecycle!Produce, JobTypesOK, JobPromises, OneActivePerType, PublishedAtMostOnce,
     CompletedHasPublished
<1>5. ASSUME NEW lost \in SUBSET Jobs, NEW final \in {"failed", "cancelled"},
             Lifecycle!GiveUp(lost, final)
      PROVE  JobPromises' /\ \A k \in Jobs : status[k] \in Final => status'[k] = status[k]
  <2>1. /\ published' = published
        /\ \A k \in lost : status[k] = "running" /\ status'[k] = final
        /\ \A k \in Jobs \ lost : status'[k] = status[k]
    BY <1>5 DEF Lifecycle!GiveUp
  <2> QED
    BY <2>1 DEF JobPromises, OneActivePerType, PublishedAtMostOnce, CompletedHasPublished
<1> QED
  BY <1>1, <1>2, <1>3, <1>4, <1>5 DEF Lifecycle!LifecycleNext

\* Whatever happens to workers, processes and leases: at most one active job
\* per type, each job publishes at most once, and what is completed published
\* (the partial unique index, claim_next_queued_job and finish_job).
THEOREM JobsKeepPromises == Spec => []JobPromises
<1>1. Init => JobPromises
  BY DEF Init, JobPromises, OneActivePerType, PublishedAtMostOnce, CompletedHasPublished
<1>2. JobInv /\ JobPromises /\ [Next]_vars => JobPromises'
  BY JobStepSimulates, PromisesKept DEF JobInv
<1> QED
  BY <1>1, <1>2, JobsConsistent, PTL DEF Spec

\* No late report, expiry or cancellation overwrites a final status (finish_job
\* updates active rows only).
THEOREM FinalStatusStays == Spec => FinalStays
<1>1. JobInv /\ JobPromises /\ [Next]_vars =>
          [\A j \in Jobs : status[j] \in Final => status'[j] = status[j]]_status
  BY JobStepSimulates, PromisesKept DEF JobInv
<1> QED
  BY <1>1, JobsConsistent, JobsKeepPromises, PTL DEF Spec, FinalStays

-----------------------------------------------------------------------------
(* Types.                                                                   *)

\* What the invariant leaves out of TypeOK.
OtherTypes ==
    /\ leaseOwner \in [Jobs -> Workers \cup {None}]
    /\ cancelRequested \subseteq Jobs
    /\ verdict \in [Workers -> {"exited", "ended", "cancelled", "lost", "timedOut"}]
    /\ deaths \in 0 .. MaxDeaths

LEMMA OtherTypesKept ==
    ASSUME JobTypesOK, OtherTypes, [Next]_vars
    PROVE  OtherTypes'
<1> USE DEF OtherTypes
<1>1. CASE UNCHANGED vars
  BY <1>1 DEF vars, rowVars, workerVars
<1>2. ASSUME NEW j \in Jobs, ApiStep(j) \/ LeaseLapses(j) PROVE OtherTypes'
  BY <1>2 DEF ApiStep, Ask, Insert, AskCancel, Cancel, LeaseLapses, rowVars, workerVars
<1>3. ASSUME NEW j \in Jobs, NEW final, FinishJob(j, final)
      PROVE  leaseOwner' \in [Jobs -> Workers \cup {None}] /\ cancelRequested' \subseteq Jobs
  BY <1>3 DEF FinishJob
<1>4. ASSUME NEW j \in Jobs, ChildStep(j) PROVE OtherTypes'
  <2>1. UNCHANGED <<verdict, deaths>>
    BY <1>4 DEF ChildStep, Begin, Publish, ChildReports, ChildEnds, workerVars
  <2>2. leaseOwner' \in [Jobs -> Workers \cup {None}] /\ cancelRequested' \subseteq Jobs
    BY <1>3, <1>4 DEF ChildStep, Begin, Publish, ChildReports, ChildEnds, rowVars
  <2> QED
    BY <2>1, <2>2
<1>5. ASSUME NEW w \in Workers, WorkerStep(w) PROVE OtherTypes'
  <2>1. CASE \E heard \in BOOLEAN : Claim(w, heard)
    <3>1. PICK j \in NextInLine : leaseOwner' = [leaseOwner EXCEPT ![j] = w]
      BY <2>1 DEF Claim
    <3>2. leaseOwner' \in [Jobs -> Workers \cup {None}]
      BY <3>1
    <3>3. UNCHANGED <<cancelRequested, verdict, deaths>>
      BY <2>1 DEF Claim
    <3> QED
      BY <3>2, <3>3
  <2>2. CASE Spawn(w) \/ SeeExit(w) \/ TimeOut(w) \/ Look(w) \/ Terminate(w) \/ Restart(w)
    BY <2>2 DEF Spawn, SeeExit, TimeOut, Look, Terminate, Restart, Decide, rowVars
  <2>3. CASE Renew(w)
    BY <2>3 DEF Renew
  <2>4. CASE Report(w)
    <3>1. verdict' \in [Workers -> {"exited", "ended", "cancelled", "lost", "timedOut"}]
          /\ deaths' = deaths
      BY <2>4 DEF Report, Leave
    <3>2. leaseOwner' \in [Jobs -> Workers \cup {None}] /\ cancelRequested' \subseteq Jobs
      <4>1. CASE UNCHANGED rowVars
        BY <4>1 DEF rowVars
      <4>2. CASE \E final : FinishJob(held[w], final)
        BY <4>2 DEF FinishJob
      <4> QED
        BY <2>4, <4>1, <4>2 DEF Report
    <3> QED
      BY <3>1, <3>2
  <2>5. CASE Expire(w)
    BY <2>5 DEF Expire, workerVars
  <2>6. CASE Die(w)
    BY <2>6, JobAssumption DEF Die, Leave, rowVars
  <2> QED
    BY <1>5, <2>1, <2>2, <2>3, <2>4, <2>5, <2>6 DEF WorkerStep, Supervise
<1> QED
  BY <1>1, <1>2, <1>4, <1>5 DEF Next

\* The rows, the requests, the workers and their processes keep their types.
THEOREM JobQueueTypes == Spec => []TypeOK
<1>1. Init => OtherTypes
  BY JobAssumption DEF Init, OtherTypes
<1>2. JobInv /\ OtherTypes /\ [Next]_vars => OtherTypes'
  BY OtherTypesKept DEF JobInv
<1>3. JobInv /\ OtherTypes => TypeOK
  BY DEF JobInv, JobTypesOK, OtherTypes, TypeOK
<1> QED
  BY <1>1, <1>2, <1>3, JobsConsistent, PTL DEF Spec
=============================================================================
