------------------------ MODULE VehicleQueue_proofs ------------------------
(***************************************************************************)
(* Proofs about VehicleQueue, for any number of deliveries, sightings,     *)
(* workers, reviewers and attempts.  The invariant has four parts that do  *)
(* not depend on each other but all on the types: the leases, the intake,  *)
(* the screens and the verdicts.                                           *)
(***************************************************************************)
EXTENDS VehicleQueue, TLAPS

USE VehicleAssumption

Jobs == [row : Sightings \cup {None}, lease : Nat, attempts : 0 .. MaxAttempts]

\* A lease is that of the latest claim; who remembers it knows the attempts.
Leases ==
    \A s \in Sightings :
        /\ lease[s] # 0 <=> state[s] = "processing"
        /\ lease[s] # 0 => lease[s] = claims[s]
        /\ \A w \in Workers : job[w].row = s =>
               /\ job[w].lease \in 1 .. claims[s]
               /\ lease[s] = job[w].lease => job[w].attempts = attempts[s]

\* Results and claims, counted.
Counts ==
    \A s \in Sightings :
        /\ results[s] = IF state[s] = "done" THEN 1 ELSE 0
        /\ claims[s] <= MaxAttempts * retries[s] + attempts[s]

\* One delivery of an event prepares, and no row of the event exists then.
Intake ==
    /\ \A d, o \in Deliveries :
           SameEvent(d, o) /\ delivery[d] = "preparing" /\ delivery[o] = "preparing" => d = o
    /\ \A d, o \in Deliveries :
           SameEvent(d, o) /\ delivery[d] = "preparing" =>
               \A s \in Rows[o] : source[s] = None

\* A screen of the current version shows the row as it is.
Screens ==
    \A r \in Reviewers, s \in Sightings :
        shown[r].row = s =>
            /\ shown[r].version <= version[s]
            /\ shown[r].version = version[s] =>
                   shown[r].review = review[s] /\ shown[r].plate = plate[s]

-----------------------------------------------------------------------------
(* Types. *)

LEMMA TypeInit == Init => TypeOK
  BY DEF Init, TypeOK, NoJob, NothingShown, NoVerdict, Reading

LEMMA TypeStep == TypeOK /\ [Next]_vars => TypeOK'
<1> SUFFICES ASSUME TypeOK, [Next]_vars PROVE TypeOK'
  OBVIOUS
<1> USE DEF TypeOK, intake, work, record, past, Reading
<1>1. ASSUME NEW d \in Deliveries, Look(d) \/ Refuse(d) \/ Insert(d) PROVE TypeOK'
  <2>1. CASE Look(d)
    BY <2>1 DEF Look
  <2>2. CASE Refuse(d)
    BY <2>2 DEF Refuse
  <2>3. CASE Insert(d)
    BY <2>3 DEF Insert
  <2> QED
    BY <1>1, <2>1, <2>2, <2>3
<1>2. CASE Time
  BY <1>2 DEF Time, Present
<1>3. CASE FailSpent
  BY <1>3 DEF FailSpent, Without
<1>4. ASSUME NEW w \in Workers, NEW s \in Sightings, Claim(w, s) PROVE TypeOK'
  <2>1. attempts[s] + 1 \in 0 .. MaxAttempts /\ claims[s] + 1 \in Nat
    BY <1>4 DEF Claim, Claimable
  <2> DEFINE mine == [row |-> s, lease |-> claims[s] + 1, attempts |-> attempts[s] + 1]
  <2>2. mine \in Jobs
    BY <2>1 DEF Jobs
  <2>3. job' \in [Workers -> Jobs]
    <3>1. job' = [job EXCEPT ![w] = mine] \/ job' = job
      BY <1>4 DEF Claim
    <3> HIDE DEF mine
    <3> QED
      BY <2>2, <3>1 DEF Jobs
  <2>4. /\ lease' \in [Sightings -> Nat] /\ claims' \in [Sightings -> Nat]
        /\ attempts' \in [Sightings -> 0 .. MaxAttempts]
    BY <1>4, <2>1 DEF Claim, Without
  <2>5. /\ state' \in [Sightings -> {"pending", "processing", "done", "failed"}]
        /\ lapsed' \in [Sightings -> BOOLEAN]
    BY <1>4 DEF Claim, Without
  <2> QED
    BY <1>4, <2>3, <2>4, <2>5 DEF Claim, Jobs
<1>5. ASSUME NEW w \in Workers, Abandon(w) \/ TooLate(w) PROVE TypeOK'
  <2>1. job' = [job EXCEPT ![w] = NoJob] /\ UNCHANGED <<intake, work, record, shown, past>>
    BY <1>5 DEF Abandon, TooLate
  <2>2. job' \in [Workers -> Jobs]
    BY <2>1 DEF NoJob, Jobs
  <2> QED
    BY <2>1, <2>2 DEF Jobs
<1>6. ASSUME NEW w \in Workers, NEW s \in Sightings, Fail(w, s) PROVE TypeOK'
  BY <1>6 DEF Fail, Settle, NoJob
<1>7. ASSUME NEW w \in Workers, NEW s \in Sightings, NEW x \in Reading, Finish(w, s, x)
      PROVE  TypeOK'
  <2>1. /\ plate' \in [Sightings -> Reading]
        /\ review' \in [Sightings -> {"pending", "confirmed", "rejected", "unreadable"}]
    <3>1. CASE review[s] # "pending"
      BY <1>7, <3>1 DEF Finish, Analysed
    <3>2. CASE review[s] = "pending" /\ x = None
      BY <1>7, <3>2 DEF Finish, Analysed
    <3>3. CASE review[s] = "pending" /\ x # None
      <4>1. plate' = [plate EXCEPT ![s] = x] /\ review' = review
        BY <1>7, <3>3 DEF Finish, Analysed
      <4> QED
        BY <4>1
    <3> QED
      BY <3>1, <3>2, <3>3
  <2>2. /\ state' = [state EXCEPT ![s] = "done"]
        /\ lease' = [lease EXCEPT ![s] = 0]
        /\ lapsed' = [lapsed EXCEPT ![s] = FALSE]
        /\ job' = [job EXCEPT ![w] = NoJob]
        /\ version' = [version EXCEPT ![s] = @ + 1]
        /\ results' = [results EXCEPT ![s] = @ + 1]
        /\ UNCHANGED <<intake, due, attempts, shown, claims, retries, verdict, reviews>>
    BY <1>7 DEF Finish, Settle
  <2>3. job' \in [Workers -> Jobs]
    BY <2>2 DEF NoJob, Jobs
  <2>4. /\ version' \in [Sightings -> Nat \ {0}] /\ results' \in [Sightings -> Nat]
        /\ lease' \in [Sightings -> Nat] /\ lapsed' \in [Sightings -> BOOLEAN]
        /\ state' \in [Sightings -> {"pending", "processing", "done", "failed"}]
    BY <2>2
  <2> QED
    BY <2>1, <2>2, <2>3, <2>4 DEF Jobs
<1>8. ASSUME NEW r \in Reviewers, Conflict(r) PROVE TypeOK'
  BY <1>8 DEF Conflict, NothingShown
<1>9. ASSUME NEW r \in Reviewers, NEW s \in Sightings, Open(r, s) PROVE TypeOK'
  BY <1>9 DEF Open
<1>10. ASSUME NEW r \in Reviewers, NEW s \in Sightings, NEW v \in Verdicts(s), Decide(r, s, v)
       PROVE  TypeOK'
  <2>1. /\ v \in [review : {"confirmed", "rejected", "unreadable"}, plate : Reading]
        /\ v.review \in {"confirmed", "rejected", "unreadable"} /\ v.plate \in Reading
    BY <1>10 DEF Verdicts
  <2> QED
    BY <1>10, <2>1 DEF Decide, NothingShown
<1>11. ASSUME NEW s \in Sightings, Retry(s) PROVE TypeOK'
  BY <1>11 DEF Retry
<1>12. CASE UNCHANGED vars
  BY <1>12 DEF vars
<1> QED
  BY <1>1, <1>2, <1>3, <1>4, <1>5, <1>6, <1>7, <1>8, <1>9, <1>10, <1>11, <1>12
     DEF Next, WorkerStep, ReviewStep

\* Every variable has its type, for every value of the constants.
THEOREM VehicleTypes == Spec => []TypeOK
  BY TypeInit, TypeStep, PTL DEF Spec

-----------------------------------------------------------------------------
(* Leases and counts. *)

LEMMA LeasesInit == Init => Leases /\ Counts
  BY DEF Init, Leases, Counts, NoJob

LEMMA LeasesStep == TypeOK /\ Leases /\ Counts /\ [Next]_vars => Leases' /\ Counts'
<1> SUFFICES ASSUME TypeOK, Leases, Counts, [Next]_vars PROVE Leases' /\ Counts'
  OBVIOUS
<1> USE DEF TypeOK, Leases, Counts, intake, work, record, past
<1>1. ASSUME NEW d \in Deliveries, Look(d) \/ Refuse(d) \/ Insert(d)
      PROVE  Leases' /\ Counts'
  BY <1>1 DEF Look, Refuse, Insert
<1>2. CASE Time
  BY <1>2 DEF Time
<1>3. CASE FailSpent
  BY <1>3 DEF FailSpent, Without, Spent, Present
<1>4. ASSUME NEW w \in Workers, NEW s \in Sightings, Claim(w, s)
      PROVE  Leases' /\ Counts'
  <2>1. attempts[s] < MaxAttempts /\ state[s] \in {"pending", "processing"}
    BY <1>4 DEF Claim, Claimable
  <2>2. Leases'
    <3> SUFFICES ASSUME NEW t \in Sightings
                 PROVE  /\ lease'[t] # 0 <=> state'[t] = "processing"
                        /\ lease'[t] # 0 => lease'[t] = claims'[t]
                        /\ \A u \in Workers : job'[u].row = t =>
                               /\ job'[u].lease \in 1 .. claims'[t]
                               /\ lease'[t] = job'[u].lease => job'[u].attempts = attempts'[t]
      BY DEF Leases
    <3>1. CASE t = s
      <4>1. /\ state'[s] = "processing" /\ lease'[s] = claims[s] + 1
            /\ claims'[s] = claims[s] + 1 /\ attempts'[s] = attempts[s] + 1
        BY <1>4 DEF Claim, Without
      <4>2. ASSUME NEW u \in Workers, job'[u].row = s
            PROVE  /\ job'[u].lease \in 1 .. claims'[s]
                   /\ lease'[s] = job'[u].lease => job'[u].attempts = attempts'[s]
        <5>1. CASE job'[u] = job[u]
          BY <4>1, <4>2, <5>1
        <5>2. CASE job'[u] # job[u]
          <6>1. job'[u] = [row |-> s, lease |-> claims[s] + 1, attempts |-> attempts[s] + 1]
            BY <1>4, <5>2 DEF Claim
          <6> QED
            BY <4>1, <6>1
        <5> QED
          BY <5>1, <5>2
      <4> QED
        BY <3>1, <4>1, <4>2
    <3>2. CASE t # s
      <4>1. /\ claims'[t] = claims[t] /\ attempts'[t] = attempts[t]
            /\ \/ t \notin Spent /\ lease'[t] = lease[t] /\ state'[t] = state[t]
               \/ t \in Spent /\ lease'[t] = 0 /\ state'[t] = "failed"
        BY <1>4, <3>2 DEF Claim, Without
      <4>2. ASSUME NEW u \in Workers, job'[u].row = t PROVE job'[u] = job[u]
        BY <1>4, <3>2, <4>2 DEF Claim
      <4>3. ASSUME NEW u \in Workers, job'[u].row = t
            PROVE  /\ job'[u].lease \in 1 .. claims[t]
                   /\ lease[t] = job'[u].lease => job'[u].attempts = attempts[t]
        BY <4>2, <4>3
      <4>4. ASSUME NEW u \in Workers, job'[u].row = t
            PROVE  /\ job'[u].lease # 0
                   /\ lease'[t] = job'[u].lease => lease[t] = job'[u].lease
        BY <4>1, <4>3, <4>4
      <4> QED
        BY <4>1, <4>3, <4>4
    <3> QED
      BY <3>1, <3>2
  <2>3. Counts'
    BY <1>4, <2>1 DEF Claim, Without, Spent, Present
  <2> QED
    BY <2>2, <2>3
<1>5. ASSUME NEW w \in Workers, Abandon(w) \/ TooLate(w) PROVE Leases' /\ Counts'
  <2>1. job' = [job EXCEPT ![w] = NoJob] /\ UNCHANGED <<work, past>>
    BY <1>5 DEF Abandon, TooLate
  <2>2. \A u \in Workers, s \in Sightings : job'[u].row = s => job'[u] = job[u]
    BY <2>1 DEF NoJob
  <2> QED
    BY <2>1, <2>2
<1>6. ASSUME NEW w \in Workers, NEW s \in Sightings, Fail(w, s)
      PROVE  Leases' /\ Counts'
  BY <1>6 DEF Fail, Holds, Settle, NoJob
<1>7. ASSUME NEW w \in Workers, NEW s \in Sightings, NEW x \in Reading, Finish(w, s, x)
      PROVE  Leases' /\ Counts'
  BY <1>7 DEF Finish, Holds, Settle, NoJob
<1>8. ASSUME NEW r \in Reviewers,
             Conflict(r) \/ \E s \in Sightings : \/ Open(r, s)
                                                 \/ \E v \in Verdicts(s) : Decide(r, s, v)
      PROVE  Leases' /\ Counts'
  BY <1>8 DEF Conflict, Open, Decide
<1>9. ASSUME NEW s \in Sightings, Retry(s) PROVE Leases' /\ Counts'
  <2>1. MaxAttempts * (retries[s] + 1) = MaxAttempts * retries[s] + MaxAttempts
    OBVIOUS
  <2>2. Leases'
    BY <1>9 DEF Retry
  <2>3. ASSUME NEW t \in Sightings, t # s
        PROVE  /\ results'[t] = IF state'[t] = "done" THEN 1 ELSE 0
               /\ claims'[t] <= MaxAttempts * retries'[t] + attempts'[t]
    BY <1>9, <2>3 DEF Retry
  <2>4. /\ results'[s] = IF state'[s] = "done" THEN 1 ELSE 0
        /\ retries'[s] = retries[s] + 1 /\ claims'[s] = claims[s] /\ attempts'[s] = 0
    BY <1>9 DEF Retry
  <2>5. claims[s] <= MaxAttempts * (retries[s] + 1)
    BY <2>1
  <2> QED
    BY <2>2, <2>3, <2>4, <2>5
<1>10. CASE UNCHANGED vars
  BY <1>10 DEF vars
<1> QED
  BY <1>1, <1>2, <1>3, <1>4, <1>5, <1>6, <1>7, <1>8, <1>9, <1>10
     DEF Next, WorkerStep, ReviewStep

LEMMA LeasesInvariant == Spec => [](TypeOK /\ Leases /\ Counts)
  BY TypeInit, TypeStep, LeasesInit, LeasesStep, PTL DEF Spec

\* A sighting is analysed to the end at most once, however many workers had
\* leased it, and exactly then is it done.
THEOREM AnalysedOnce == Spec => []OneResult
<1>1. Counts => OneResult
  BY DEF Counts, OneResult
<1> QED
  BY <1>1, LeasesInvariant, PTL

\* An image that kills every worker is claimed MaxAttempts times, and as often
\* again for each retry a person asks for.
THEOREM PoisonIsBounded == Spec => []AttemptsAreBounded
<1>1. TypeOK /\ Counts => AttemptsAreBounded
  <2> SUFFICES ASSUME TypeOK, Counts, NEW s \in Sightings
               PROVE  claims[s] <= MaxAttempts * (1 + retries[s])
    BY DEF AttemptsAreBounded
  <2>1. MaxAttempts * (1 + retries[s]) = MaxAttempts * retries[s] + MaxAttempts
    BY DEF TypeOK
  <2> QED
    BY <2>1 DEF TypeOK, Counts
<1> QED
  BY <1>1, LeasesInvariant, PTL
-----------------------------------------------------------------------------
(* Intake. *)

LEMMA IntakeInit == Init => Intake /\ EventsAreWhole /\ AnsweredIsStored
  BY DEF Init, Intake, EventsAreWhole, AnsweredIsStored

LEMMA IntakeStep ==
    TypeOK /\ Intake /\ EventsAreWhole /\ AnsweredIsStored /\ [Next]_vars
    => Intake' /\ EventsAreWhole' /\ AnsweredIsStored'
<1> SUFFICES ASSUME TypeOK, Intake, EventsAreWhole, AnsweredIsStored, [Next]_vars
             PROVE  Intake' /\ EventsAreWhole' /\ AnsweredIsStored'
  OBVIOUS
<1> USE DEF SameEvent
<1>1. ASSUME NEW d \in Deliveries, Look(d) PROVE Intake' /\ EventsAreWhole' /\ AnsweredIsStored'
  <2>1. /\ source' = source
        /\ \A o \in Deliveries : o # d => delivery'[o] = delivery[o]
        /\ delivery'[d] \in {"preparing", "duplicate"}
        /\ delivery'[d] = "preparing" <=> EventRows(d) \cap Present = {}
    BY <1>1 DEF Look, TypeOK
  <2>2. Present' = Present
    BY <2>1 DEF Present
  <2>3. \A o \in Deliveries : SameEvent(d, o) => delivery[o] # "preparing"
    BY <1>1 DEF Look
  <2>4. EventRows(d) \cap Present = {} =>
            \A o \in Deliveries : SameEvent(d, o) => \A s \in Rows[o] : source[s] = None
    BY DEF EventRows, Present
  <2>5. Intake'
    BY <2>1, <2>3, <2>4 DEF Intake
  <2>6. AnsweredIsStored'
    BY <2>1, <2>2 DEF AnsweredIsStored, EventRows
  <2> QED
    BY <2>1, <2>5, <2>6 DEF EventsAreWhole
<1>2. ASSUME NEW d \in Deliveries, Refuse(d) PROVE Intake' /\ EventsAreWhole' /\ AnsweredIsStored'
  <2>1. /\ source' = source
        /\ \A o \in Deliveries : o # d => delivery'[o] = delivery[o]
        /\ delivery'[d] = "failed"
    BY <1>2 DEF Refuse, TypeOK
  <2> QED
    BY <2>1 DEF Intake, EventsAreWhole, AnsweredIsStored, Present, EventRows
<1>3. ASSUME NEW d \in Deliveries, Insert(d) PROVE Intake' /\ EventsAreWhole' /\ AnsweredIsStored'
  <2>1. /\ delivery[d] = "preparing" /\ delivery'[d] \in {"queued", "failed"}
        /\ \A o \in Deliveries : o # d => delivery'[o] = delivery[o]
    BY <1>3 DEF Insert, TypeOK
  <2>2. \A o \in Deliveries : SameEvent(d, o) => \A s \in Rows[o] : source[s] = None
    BY <2>1 DEF Intake
  <2>3. \A s \in Sightings : source'[s] = IF s \in Rows[d] THEN d ELSE source[s]
    BY <1>3, <2>2 DEF Insert
  <2>4. \A o \in Deliveries : ~SameEvent(d, o) =>
            \A s \in Rows[o] : source'[s] = source[s]
    BY <2>3
  <2>5. Present \subseteq Present' /\ Rows[d] \subseteq Present'
    BY <2>3 DEF Present
  <2>6. Intake'
    BY <2>1, <2>4 DEF Intake
  <2>7. EventsAreWhole'
    BY <2>2, <2>3, <2>4 DEF EventsAreWhole
  <2>8. AnsweredIsStored'
    BY <2>1, <2>5 DEF AnsweredIsStored, EventRows
  <2> QED
    BY <2>6, <2>7, <2>8
<1>4. CASE UNCHANGED intake
  BY <1>4 DEF intake, Intake, EventsAreWhole, AnsweredIsStored, Present, EventRows
<1>5. ASSUME NEW w \in Workers, WorkerStep(w) PROVE UNCHANGED intake
  BY <1>5 DEF WorkerStep, Abandon, TooLate, Claim, Fail, Finish, Settle, intake
<1>6. ASSUME NEW r \in Reviewers, ReviewStep(r) PROVE UNCHANGED intake
  BY <1>6 DEF ReviewStep, Conflict, Open, Decide, intake
<1>7. (Time \/ FailSpent \/ \E s \in Sightings : Retry(s)) => UNCHANGED intake
  BY DEF Time, FailSpent, Retry, intake
<1> QED
  BY <1>1, <1>2, <1>3, <1>4, <1>5, <1>6, <1>7 DEF Next, vars, intake

LEMMA IntakeInvariant == Spec => [](Intake /\ EventsAreWhole /\ AnsweredIsStored)
  BY TypeInit, TypeStep, IntakeInit, IntakeStep, PTL DEF Spec

\* However the repetitions of an event overlap and whatever each contains,
\* its rows are those of one of them.
THEOREM EventsStayWhole == Spec => []EventsAreWhole
  BY IntakeInvariant, PTL

\* What a camera was told is accepted, or a duplicate, is in the database.
THEOREM AnswersAreDurable == Spec => []AnsweredIsStored
  BY IntakeInvariant, PTL

-----------------------------------------------------------------------------
(* Screens and verdicts. *)

LEMMA ScreensInit == Init => Screens /\ VerdictStands
  BY DEF Init, Screens, VerdictStands, NothingShown, NoVerdict

LEMMA ScreensStep ==
    TypeOK /\ Screens /\ VerdictStands /\ [Next]_vars => Screens' /\ VerdictStands'
<1> SUFFICES ASSUME TypeOK, Screens, VerdictStands, [Next]_vars
             PROVE  Screens' /\ VerdictStands'
  OBVIOUS
<1>1. ASSUME NEW w \in Workers, NEW s \in Sightings, NEW x \in Reading, Finish(w, s, x)
      PROVE  Screens' /\ VerdictStands'
  <2>1. /\ version' = [version EXCEPT ![s] = @ + 1] /\ UNCHANGED <<shown, verdict>>
        /\ \A t \in Sightings : t # s => review'[t] = review[t] /\ plate'[t] = plate[t]
        /\ review[s] # "pending" => UNCHANGED <<review, plate>>
    BY <1>1 DEF Finish, Settle, Analysed, TypeOK
  <2>2. verdict[s] # NoVerdict => review[s] # "pending"
    <3>1. verdict[s] \in [review : {"none", "confirmed", "rejected", "unreadable"},
                          plate : Reading]
      BY DEF TypeOK
    <3>2. verdict[s].review # "pending"
      BY <3>1
    <3>3. verdict[s] # NoVerdict =>
              verdict[s] = [review |-> review[s], plate |-> plate[s]]
      BY Zenon DEF VerdictStands
    <3> QED
      BY <3>2, <3>3
  <2>3. VerdictStands'
    BY <2>1, <2>2 DEF VerdictStands
  <2>4. Screens'
    BY <2>1 DEF Screens, TypeOK
  <2> QED
    BY <2>3, <2>4
<1>2. ASSUME NEW r \in Reviewers, Conflict(r) PROVE Screens' /\ VerdictStands'
  <2>1. shown' = [shown EXCEPT ![r] = NothingShown] /\ UNCHANGED <<record, verdict>>
    BY <1>2 DEF Conflict, past
  <2> QED
    BY <2>1 DEF Screens, VerdictStands, TypeOK, NothingShown, record
<1>3. ASSUME NEW r \in Reviewers, NEW s \in Sightings, Open(r, s)
      PROVE  Screens' /\ VerdictStands'
  BY <1>3 DEF Open, Screens, VerdictStands, TypeOK, record, past
<1>4. ASSUME NEW r \in Reviewers, NEW s \in Sightings, NEW v \in Verdicts(s), Decide(r, s, v)
      PROVE  Screens' /\ VerdictStands'
  <2>1. v = [review |-> v.review, plate |-> v.plate]
    BY DEF Verdicts
  <2>2. /\ verdict' = [verdict EXCEPT ![s] = v]
        /\ review' = [review EXCEPT ![s] = v.review]
        /\ plate' = [plate EXCEPT ![s] = v.plate]
    BY <1>4 DEF Decide
  <2>3. VerdictStands'
    <3> SUFFICES ASSUME NEW t \in Sightings, verdict'[t] # NoVerdict
                 PROVE  verdict'[t] = [review |-> review'[t], plate |-> plate'[t]]
      BY DEF VerdictStands
    <3>1. CASE t = s
      <4>1. verdict'[s] = v /\ review'[s] = v.review /\ plate'[s] = v.plate
        BY <2>2 DEF TypeOK
      <4> QED
        BY <2>1, <3>1, <4>1
    <3>2. CASE t # s
      BY <2>2, <3>2 DEF VerdictStands, TypeOK
    <3> QED
      BY <3>1, <3>2
  <2>4. Screens'
    <3> SUFFICES ASSUME NEW q \in Reviewers, NEW t \in Sightings, shown'[q].row = t
                 PROVE  /\ shown'[q].version <= version'[t]
                        /\ shown'[q].version = version'[t] =>
                               shown'[q].review = review'[t] /\ shown'[q].plate = plate'[t]
      BY DEF Screens
    <3>1. q # r /\ shown'[q] = shown[q]
      BY <1>4 DEF Decide, TypeOK, NothingShown
    <3>2. shown[q].version <= version[t] /\ shown[q].version \in Nat /\ version[t] \in Nat
      BY <3>1 DEF Screens, TypeOK
    <3>3. version' = [version EXCEPT ![s] = @ + 1]
      BY <1>4 DEF Decide
    <3>4. CASE t = s
      <4>1. version'[t] = version[t] + 1
        BY <3>3, <3>4 DEF TypeOK
      <4>2. shown'[q].version < version'[t]
        BY <3>1, <3>2, <4>1
      <4> QED
        BY <3>1, <3>2, <4>1, <4>2
    <3>5. CASE t # s
      <4>1. version'[t] = version[t]
        BY <3>3, <3>5 DEF TypeOK
      <4>2. review'[t] = review[t] /\ plate'[t] = plate[t]
        BY <2>2, <3>5
      <4>3. /\ shown[q].row = t
            /\ shown[q].version = version[t] =>
                   shown[q].review = review[t] /\ shown[q].plate = plate[t]
        BY <3>1 DEF Screens
      <4> QED
        BY <3>1, <3>2, <4>1, <4>2, <4>3
    <3> QED
      BY <3>4, <3>5
  <2> QED
    BY <2>3, <2>4
<1>5. CASE UNCHANGED <<record, shown, verdict>>
  BY <1>5 DEF record, Screens, VerdictStands
<1>6. ASSUME NEW w \in Workers,
             \/ Abandon(w) \/ TooLate(w)
             \/ \E s \in Sightings : Claim(w, s) \/ Fail(w, s)
      PROVE  UNCHANGED <<record, shown, verdict>>
  BY <1>6 DEF Abandon, TooLate, Claim, Fail, Settle, past
<1>7. \/ Time \/ FailSpent
      \/ \E s \in Sightings : Retry(s)
      \/ \E d \in Deliveries : Look(d) \/ Refuse(d) \/ Insert(d)
      => UNCHANGED <<record, shown, verdict>>
  BY DEF Time, FailSpent, Retry, Look, Refuse, Insert, past
<1> QED
  BY <1>1, <1>2, <1>3, <1>4, <1>5, <1>6, <1>7
     DEF Next, WorkerStep, ReviewStep, vars, past

LEMMA ScreensInvariant == Spec => [](TypeOK /\ Screens /\ VerdictStands)
  BY TypeInit, TypeStep, ScreensInit, ScreensStep, PTL DEF Spec

\* An analysis never changes what a person decided.
THEOREM PeopleDecide == Spec => []VerdictStands
  BY ScreensInvariant, PTL

\* A decision is applied only to what its author saw.
THEOREM DecisionsAreInformed == Spec => DecidedAsShown
<1> DEFINE Informed ==
        \A r \in Reviewers, s \in Sightings :
            (\E v \in Verdicts(s) : Decide(r, s, v)) =>
                shown[r].review = review[s] /\ shown[r].plate = plate[s]
<1>1. TypeOK /\ Screens /\ [Next]_vars => [Informed]_vars
  BY DEF Decide, Screens
<1> QED
  BY <1>1, ScreensInvariant, PTL DEF Spec, DecidedAsShown
=============================================================================
