---------------------------- MODULE VehicleQueue ----------------------------
(***************************************************************************)
(* Vehicle sightings: accepted from the webhook once per event, analysed   *)
(* by leased workers, reviewed by people (backend/vehicles/ingest.py,      *)
(* processing.py, routes/vehicles.py).  A sighting is one detection of one *)
(* event; its row is both the record and the job.                          *)
(***************************************************************************)
EXTENDS Naturals, FiniteSets

CONSTANTS
    Deliveries,     \* webhook requests; a camera repeats an event it believes lost
    EventOf,        \* the event_id of each
    Sightings,      \* (pipeline, event, detection) keys
    Rows,           \* the sightings each delivery describes
    Workers,        \* processing loops, one per process
    Reviewers,
    Plates,
    MaxAttempts,    \* 5 in the code
    MaxRetries,     \* bound: retries of a failed sighting
    MaxReviews,     \* bound: decisions
    None

ASSUME VehicleAssumption ==
    /\ Rows \in [Deliveries -> SUBSET Sightings \ {{}}]
    /\ \A d, o \in Deliveries :
           EventOf[d] # EventOf[o] => Rows[d] \cap Rows[o] = {}
    /\ None \notin Deliveries \cup Sightings
    /\ None \notin Plates
    /\ MaxAttempts \in Nat \ {0}
    /\ MaxRetries \in Nat /\ MaxReviews \in Nat

VARIABLES
    delivery,   \* of each delivery: its progress, then its answer
    source,     \* the delivery that inserted the row, None without a row
    state,      \* processing_state
    due,        \* next_attempt_at has passed
    attempts,
    lease,      \* lease_until: the claim it was granted to, 0 for none
    lapsed,     \* lease_until has passed
    review,     \* review_state
    plate,
    version,
    job,        \* what each worker remembers of its claim
    shown,      \* the row each reviewer has on the screen
    claims, retries, results,   \* history of each row
    verdict,    \* the last decision of a person about each row
    reviews

intake  == <<delivery, source>>
work    == <<state, due, attempts, lease, lapsed>>
record  == <<review, plate, version>>
past    == <<claims, retries, results, verdict, reviews>>
vars    == <<intake, work, record, job, shown, past>>

Present == {s \in Sightings : source[s] # None}
Reading == Plates \cup {None}
NoJob == [row |-> None, lease |-> 0, attempts |-> 0]

TypeOK ==
    /\ delivery \in [Deliveries -> {"unsent", "preparing", "queued", "duplicate", "failed"}]
    /\ source \in [Sightings -> Deliveries \cup {None}]
    /\ state \in [Sightings -> {"pending", "processing", "done", "failed"}]
    /\ due \in [Sightings -> BOOLEAN] /\ lapsed \in [Sightings -> BOOLEAN]
    /\ attempts \in [Sightings -> 0 .. MaxAttempts]
    /\ lease \in [Sightings -> Nat]
    /\ review \in [Sightings -> {"pending", "confirmed", "rejected", "unreadable"}]
    /\ plate \in [Sightings -> Reading]
    /\ version \in [Sightings -> Nat \ {0}]
    /\ job \in [Workers -> [row : Sightings \cup {None}, lease : Nat,
                            attempts : 0 .. MaxAttempts]]
    /\ shown \in [Reviewers -> [row : Sightings \cup {None}, version : Nat,
                                review : {"none", "pending", "confirmed", "rejected", "unreadable"},
                                plate : Reading]]
    /\ claims \in [Sightings -> Nat] /\ retries \in [Sightings -> Nat]
    /\ results \in [Sightings -> Nat]
    /\ verdict \in [Sightings -> [review : {"none", "confirmed", "rejected", "unreadable"},
                                  plate : Reading]]
    /\ reviews \in Nat

NothingShown == [row |-> None, version |-> 0, review |-> "none", plate |-> None]
NoVerdict == [review |-> "none", plate |-> None]

Init ==
    /\ delivery = [d \in Deliveries |-> "unsent"]
    /\ source = [s \in Sightings |-> None]
    /\ state = [s \in Sightings |-> "pending"]
    /\ due = [s \in Sightings |-> TRUE]
    /\ attempts = [s \in Sightings |-> 0]
    /\ lease = [s \in Sightings |-> 0]
    /\ lapsed = [s \in Sightings |-> FALSE]
    /\ review = [s \in Sightings |-> "pending"]
    /\ plate = [s \in Sightings |-> None]
    /\ version = [s \in Sightings |-> 1]
    /\ job = [w \in Workers |-> NoJob]
    /\ shown = [r \in Reviewers |-> NothingShown]
    /\ claims = [s \in Sightings |-> 0]
    /\ retries = [s \in Sightings |-> 0]
    /\ results = [s \in Sightings |-> 0]
    /\ verdict = [s \in Sightings |-> NoVerdict]
    /\ reviews = 0

-----------------------------------------------------------------------------
(* accept_vehicle_event: one transaction, under an advisory lock per event. *)

SameEvent(d, other) == EventOf[d] = EventOf[other]
EventRows(d) == UNION {Rows[o] : o \in {o \in Deliveries : SameEvent(d, o)}}

\* Seeded fault: no advisory lock.
LookUnlocked(d) ==
    /\ delivery[d] = "unsent"
    /\ delivery' = [delivery EXCEPT ![d] =
           IF EventRows(d) \cap Present = {} THEN "preparing" ELSE "duplicate"]
    /\ UNCHANGED <<source, work, record, job, shown, past>>

\* The lock is had once no other delivery of the event is between its lookup
\* and its commit; a row of the event makes this one a duplicate.
Look(d) ==
    /\ delivery[d] = "unsent"
    /\ \A o \in Deliveries : SameEvent(d, o) => delivery[o] # "preparing"
    /\ delivery' = [delivery EXCEPT ![d] =
           IF EventRows(d) \cap Present = {} THEN "preparing" ELSE "duplicate"]
    /\ UNCHANGED <<source, work, record, job, shown, past>>

\* Vehicles are disabled, the payload is invalid (422), the storage fails
\* (503), or the process dies: nothing is committed.
Refuse(d) ==
    /\ delivery[d] \in {"unsent", "preparing"}
    /\ delivery' = [delivery EXCEPT ![d] = "failed"]
    /\ UNCHANGED <<source, work, record, job, shown, past>>

\* Seeded fault: 202 is answered before the commit, which then fails.
InsertLater(d) ==
    /\ delivery[d] = "preparing"
    /\ source' \in {source, [s \in Sightings |->
           IF s \in Rows[d] /\ source[s] = None THEN d ELSE source[s]]}
    /\ delivery' = [delivery EXCEPT ![d] = "queued"]
    /\ UNCHANGED <<work, record, job, shown, past>>

\* INSERT ... ON CONFLICT DO NOTHING of every row, and the commit.  The answer
\* follows the commit, or is lost with the connection.
Insert(d) ==
    /\ delivery[d] = "preparing"
    /\ source' = [s \in Sightings |->
           IF s \in Rows[d] /\ source[s] = None THEN d ELSE source[s]]
    /\ \E answer \in {"queued", "failed"} :
           delivery' = [delivery EXCEPT ![d] = answer]
    /\ UNCHANGED <<work, record, job, shown, past>>

-----------------------------------------------------------------------------
(* process_one.                                                             *)

Time ==
    /\ \/ \E s \in Present : /\ ~due[s] /\ due' = [due EXCEPT ![s] = TRUE]
                             /\ UNCHANGED lapsed
       \/ \E s \in Present : /\ lease[s] # 0 /\ ~lapsed[s]
                             /\ lapsed' = [lapsed EXCEPT ![s] = TRUE]
                             /\ UNCHANGED due
    /\ UNCHANGED <<intake, state, attempts, lease, record, job, shown, past>>

\* Seeded fault: one attempt too many is expected.
SpentLate == {s \in Present : /\ state[s] = "processing" /\ lapsed[s]
                              /\ attempts[s] > MaxAttempts}

\* Rows whose last attempt died with its worker.
Spent == {s \in Present : /\ state[s] = "processing" /\ lapsed[s]
                          /\ attempts[s] >= MaxAttempts}

\* Seeded fault: expired leases are claimed without counting.
ClaimableAlways == {s \in Present : \/ state[s] = "pending" /\ due[s]
                                    \/ state[s] = "processing" /\ lapsed[s]}

Claimable == {s \in Present : /\ attempts[s] < MaxAttempts
                              /\ \/ state[s] = "pending" /\ due[s]
                                 \/ state[s] = "processing" /\ lapsed[s]}

Without(f, rows, v) == [s \in Sightings |-> IF s \in rows THEN v ELSE f[s]]

\* A cycle that finds nothing to claim only fails the spent rows.
FailSpent ==
    /\ Claimable = {} /\ Spent # {}
    /\ state' = Without(state, Spent, "failed")
    /\ lease' = Without(lease, Spent, 0)
    /\ lapsed' = Without(lapsed, Spent, FALSE)
    /\ UNCHANGED <<intake, due, attempts, record, job, shown, past>>

\* Seeded fault: an expired lease is claimed however often it was tried.
ClaimAgain(w, s) ==
    /\ job[w].row = None
    /\ s \in Claimable \/ (s \in Present /\ state[s] = "processing" /\ lapsed[s])
    /\ state' = [state EXCEPT ![s] = "processing"]
    /\ attempts' = [attempts EXCEPT ![s] = IF @ < MaxAttempts THEN @ + 1 ELSE @]
    /\ claims' = [claims EXCEPT ![s] = @ + 1]
    /\ lease' = [lease EXCEPT ![s] = claims[s] + 1]
    /\ lapsed' = [lapsed EXCEPT ![s] = FALSE]
    /\ job' = [job EXCEPT ![w] = [row |-> s, lease |-> claims[s] + 1,
                                  attempts |-> attempts'[s]]]
    /\ UNCHANGED <<intake, due, record, shown, retries, results, verdict, reviews>>

\* Spent rows fail and one row that nobody has locked is leased, in one
\* commit; a commit that was not heard of leaves a lease nobody works under.
Claim(w, s) ==
    /\ job[w].row = None /\ s \in Claimable
    /\ state' = [Without(state, Spent, "failed") EXCEPT ![s] = "processing"]
    /\ attempts' = [attempts EXCEPT ![s] = @ + 1]
    /\ claims' = [claims EXCEPT ![s] = @ + 1]
    /\ lease' = [Without(lease, Spent, 0) EXCEPT ![s] = claims[s] + 1]
    /\ lapsed' = [Without(lapsed, Spent, FALSE) EXCEPT ![s] = FALSE]
    /\ \/ job' = [job EXCEPT ![w] = [row |-> s, lease |-> claims[s] + 1,
                                     attempts |-> attempts[s] + 1]]
       \/ UNCHANGED job
    /\ UNCHANGED <<intake, due, record, shown, retries, results, verdict, reviews>>

\* The process dies, the task is cancelled, or the failure cannot be written:
\* the lease stays and expires.
Abandon(w) ==
    /\ job[w].row # None
    /\ job' = [job EXCEPT ![w] = NoJob]
    /\ UNCHANGED <<intake, work, record, shown, past>>

Holds(w, s) == job[w].row = s /\ lease[s] = job[w].lease

\* The lease was lost meanwhile: the outcome is dropped.
TooLate(w) ==
    /\ \E s \in Sightings : job[w].row = s /\ lease[s] # job[w].lease
    /\ job' = [job EXCEPT ![w] = NoJob]
    /\ UNCHANGED <<intake, work, record, shown, past>>

\* What the analysis wrote into a record that a person has not decided: the
\* plate it read, or that it read none.
Analysed(s, reading) ==
    IF review[s] # "pending" THEN UNCHANGED <<review, plate>>
    ELSE IF reading = None
         THEN /\ review' = [review EXCEPT ![s] = "unreadable"]
              /\ plate' \in {plate, [plate EXCEPT ![s] = None]}
         ELSE /\ plate' = [plate EXCEPT ![s] = reading]
              /\ UNCHANGED review

Settle(w, s, outcome) ==
    /\ state' = [state EXCEPT ![s] = outcome]
    /\ lease' = [lease EXCEPT ![s] = 0]
    /\ lapsed' = [lapsed EXCEPT ![s] = FALSE]
    /\ job' = [job EXCEPT ![w] = NoJob]
    /\ UNCHANGED <<intake, attempts, shown, claims, retries, verdict, reviews>>

\* Seeded fault: the lease is not compared.
FinishAnyway(w, s, reading) ==
    /\ job[w].row = s
    /\ Analysed(s, reading)
    /\ version' = [version EXCEPT ![s] = @ + 1]
    /\ results' = [results EXCEPT ![s] = @ + 1]
    /\ UNCHANGED due
    /\ Settle(w, s, "done")

\* Seeded fault: the analysis writes its reading whatever was decided.
FinishOver(w, s, reading) ==
    /\ Holds(w, s)
    /\ review' = [review EXCEPT ![s] = IF reading = None THEN "unreadable" ELSE @]
    /\ plate' = [plate EXCEPT ![s] = reading]
    /\ version' = [version EXCEPT ![s] = @ + 1]
    /\ results' = [results EXCEPT ![s] = @ + 1]
    /\ UNCHANGED due
    /\ Settle(w, s, "done")

\* Seeded fault: the result does not change the version.
FinishSilently(w, s, reading) ==
    /\ Holds(w, s)
    /\ Analysed(s, reading)
    /\ results' = [results EXCEPT ![s] = @ + 1]
    /\ UNCHANGED <<due, version>>
    /\ Settle(w, s, "done")

Finish(w, s, reading) ==
    /\ Holds(w, s)
    /\ Analysed(s, reading)
    /\ version' = [version EXCEPT ![s] = @ + 1]
    /\ results' = [results EXCEPT ![s] = @ + 1]
    /\ UNCHANGED due
    /\ Settle(w, s, "done")

\* The image cannot be read or the vision worker fails.
Fail(w, s) ==
    /\ Holds(w, s)
    /\ due' = [due EXCEPT ![s] = FALSE]
    /\ UNCHANGED <<record, results>>
    /\ Settle(w, s, IF job[w].attempts >= MaxAttempts THEN "failed" ELSE "pending")

-----------------------------------------------------------------------------
(* People.                                                                  *)

Open(r, s) ==
    /\ s \in Present /\ reviews < MaxReviews
    /\ shown' = [shown EXCEPT ![r] = [row |-> s, version |-> version[s],
                                      review |-> review[s], plate |-> plate[s]]]
    /\ UNCHANGED <<intake, work, record, job, past>>

\* confirm with the plate that was verified, reject, or mark as unreadable.
Verdicts(s) == {[review |-> "confirmed", plate |-> p] : p \in Plates}
               \cup {[review |-> "rejected", plate |-> plate[s]],
                     [review |-> "unreadable", plate |-> None]}

\* review_sighting: applied to the version that was shown, else 409.
Decide(r, s, v) ==
    /\ shown[r].row = s /\ reviews < MaxReviews
    /\ version[s] = shown[r].version
    /\ review' = [review EXCEPT ![s] = v.review]
    /\ plate' = [plate EXCEPT ![s] = v.plate]
    /\ version' = [version EXCEPT ![s] = @ + 1]
    /\ verdict' = [verdict EXCEPT ![s] = v]
    /\ reviews' = reviews + 1
    /\ shown' = [shown EXCEPT ![r] = NothingShown]
    /\ UNCHANGED <<intake, work, job, claims, retries, results>>

Conflict(r) ==
    /\ \E s \in Sightings : shown[r].row = s /\ version[s] # shown[r].version
    /\ shown' = [shown EXCEPT ![r] = NothingShown]
    /\ UNCHANGED <<intake, work, record, job, past>>

\* retry_sighting, for failed rows only.
Retry(s) ==
    /\ s \in Present /\ state[s] = "failed" /\ retries[s] < MaxRetries
    /\ state' = [state EXCEPT ![s] = "pending"]
    /\ attempts' = [attempts EXCEPT ![s] = 0]
    /\ due' = [due EXCEPT ![s] = TRUE]
    /\ retries' = [retries EXCEPT ![s] = @ + 1]
    /\ UNCHANGED <<intake, lease, lapsed, record, job, shown, claims, results,
                   verdict, reviews>>

-----------------------------------------------------------------------------
WorkerStep(w) ==
    \/ Abandon(w) \/ TooLate(w)
    \/ \E s \in Sightings : \/ Claim(w, s) \/ Fail(w, s)
                            \/ \E reading \in Reading : Finish(w, s, reading)

ReviewStep(r) ==
    \/ Conflict(r)
    \/ \E s \in Sightings : Open(r, s) \/ \E v \in Verdicts(s) : Decide(r, s, v)

Next ==
    \/ \E d \in Deliveries : Look(d) \/ Refuse(d) \/ Insert(d)
    \/ Time \/ FailSpent
    \/ \E w \in Workers : WorkerStep(w)
    \/ \E r \in Reviewers : ReviewStep(r)
    \/ \E s \in Sightings : Retry(s)

Spec == Init /\ [][Next]_vars

\* Time passes, the loop runs every second in some process, and the vision
\* request has a timeout: a job ends one way or another, perhaps always by a
\* crash.
Fairness ==
    /\ WF_vars(Time)
    /\ WF_vars(FailSpent \/ \E w \in Workers, s \in Sightings : Claim(w, s))
    /\ \A w \in Workers : WF_vars(
           \/ Abandon(w) \/ TooLate(w)
           \/ \E s \in Sightings : \/ Fail(w, s)
                                   \/ \E reading \in Reading : Finish(w, s, reading))

FairSpec == Spec /\ Fairness

-----------------------------------------------------------------------------
\* The rows of an event come from one delivery, however its repetitions
\* overlap and whatever they contain.
EventsAreWhole ==
    \A d, o \in Deliveries : SameEvent(d, o) =>
        \A s \in Rows[d], t \in Rows[o] :
            source[s] # None /\ source[t] # None => source[s] = source[t]

\* Docs/vehicle-workspace.md:38, "committed before HTTP acceptance": a camera
\* that was answered may forget the event, its own or its first rows are kept.
AnsweredIsStored ==
    \A d \in Deliveries :
        /\ delivery[d] = "queued" => Rows[d] \subseteq Present
        /\ delivery[d] = "duplicate" => EventRows(d) \cap Present # {}

\* Each sighting is analysed to the end at most once, whatever leases expire
\* under slow workers, and it is done when it has a result.
OneResult ==
    \A s \in Sightings : results[s] = IF state[s] = "done" THEN 1 ELSE 0

\* "five attempts": an image that kills its worker each time does so
\* MaxAttempts times, then waits for a person.
AttemptsAreBounded ==
    \A s \in Sightings : claims[s] <= MaxAttempts * (1 + retries[s])

\* What a person decided stands until a person decides again: an analysis
\* that ends later, or is repeated, changes neither verdict nor plate.
VerdictStands ==
    \A s \in Sightings : verdict[s] # NoVerdict =>
        verdict[s] = [review |-> review[s], plate |-> plate[s]]

\* A decision applies to what its author saw.
DecidedAsShown ==
    [][\A r \in Reviewers, s \in Sightings :
          (\E v \in Verdicts(s) : Decide(r, s, v)) =>
              shown[r].review = review[s] /\ shown[r].plate = plate[s]]_vars

\* Every accepted sighting is analysed or visibly failed, even when every
\* worker dies in the middle of every attempt.
AcceptedAreSettled ==
    \A s \in Sightings :
        source[s] # None /\ state[s] \in {"pending", "processing"}
            ~> state[s] \in {"done", "failed"}
=============================================================================
