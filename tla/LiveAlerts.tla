----------------------------- MODULE LiveAlerts -----------------------------
(***************************************************************************)
(* Live alerts: a user watches a person, and a frame that shows her fires  *)
(* the alert (backend/core/live_alert_service.py), inside the transaction  *)
(* that stores the frame (core/detection_evidence.py).  The service reads  *)
(* an alert, decides, and writes a count and a time it computed from what  *)
(* it read, without a lock of its own.  It leans on the locks of the frame *)
(* transaction: the rows of its people, and the advisory lock that merges  *)
(* take exclusively (core/identity_merge_lock.py).  Users and the expiry   *)
(* sweep take neither.                                                     *)
(*                                                                         *)
(* READ COMMITTED: a read sees what is committed, a write of a row waits   *)
(* for the transaction that wrote it.  What a frame wrote and has not      *)
(* committed is its `fired'.                                               *)
(***************************************************************************)
EXTENDS Naturals, Sequences, FiniteSets

CONSTANTS
    Persons, Alerts, Frames, Users,
    Watching,       \* the person each alert was made for
    Faces,          \* the identities of each frame's faces, in order
    MergePairs,     \* <<loser, winner>>: merges that may happen, once each
    Limit,          \* expiration_detections of each alert, 0 for none
    Cooling,        \* alerts with a cooldown
    Dated,          \* alerts with an expiration date
    MaxAborts,      \* bound: transactions rolled back
    MaxResumes,     \* bound: resumes after the limit, of each alert
    None

ASSUME AlertAssumption ==
    /\ Watching \in [Alerts -> Persons]
    /\ Faces \in [Frames -> Seq(Persons)]
    /\ MergePairs \subseteq Persons \X Persons
    /\ Limit \in [Alerts -> Nat]
    /\ Cooling \subseteq Alerts /\ Dated \subseteq Alerts
    /\ MaxAborts \in Nat /\ MaxResumes \in Nat
    /\ None \notin Alerts

VARIABLES
    into,       \* merged_into_id, oneself while not merged
    merge,      \* of each pair: "none", "done", "undone"
    moved,      \* alerts each merge moved, by its provenance
    owner, status, count, triggers,         \* rows of the alerts and their triggers
    recent,     \* alerts triggered less than their cooldown ago
    overdue,    \* alerts whose date has passed
    late,       \* resumes of an alert that had reached its limit
    pc,         \* of each frame: "queued", "begun", "holding", "stored"
    people,     \* the identities a frame resolved its faces to, in order
    face,       \* the face being checked
    found,      \* alerts it read and found due
    saw,        \* the counts it read
    fired,      \* alerts it has fired, not yet committed
    aborts,
    edit        \* of each user: None or [alert, to, from], a change being made

personVars == <<into, merge, moved>>
alertVars == <<owner, status, count, triggers, recent, overdue, late>>
frameVars == <<pc, people, face, found, saw, fired, aborts>>
vars == <<personVars, alertVars, frameVars, edit>>

Kept == {"active", "paused", "expired"}
Statuses == Kept \cup {"deleted"}

Edits == [alert : Alerts, to : {"active", "paused"}, from : Kept]

TypeOK ==
    /\ into \in [Persons -> Persons]
    /\ merge \in [MergePairs -> {"none", "done", "undone"}]
    /\ moved \in [MergePairs -> SUBSET Alerts]
    /\ owner \in [Alerts -> Persons] /\ status \in [Alerts -> Statuses]
    /\ count \in [Alerts -> Nat] /\ triggers \in [Alerts -> SUBSET Frames]
    /\ recent \subseteq Alerts /\ overdue \subseteq Alerts
    /\ late \in [Alerts -> Nat]
    /\ pc \in [Frames -> {"queued", "begun", "holding", "stored"}]
    /\ people \in [Frames -> Seq(Persons)] /\ face \in [Frames -> Nat]
    /\ found \in [Frames -> SUBSET Alerts]
    /\ saw \in [Frames -> [Alerts -> Nat]]
    /\ fired \in [Frames -> SUBSET Alerts]
    /\ aborts \in Nat
    /\ edit \in [Users -> Edits \cup {None}]

Init ==
    /\ into = [p \in Persons |-> p]
    /\ merge = [m \in MergePairs |-> "none"] /\ moved = [m \in MergePairs |-> {}]
    /\ owner = Watching
    /\ status = [a \in Alerts |-> "active"]
    /\ count = [a \in Alerts |-> 0] /\ triggers = [a \in Alerts |-> {}]
    /\ recent = {} /\ overdue = {}
    /\ late = [a \in Alerts |-> 0]
    /\ pc = [f \in Frames |-> "queued"]
    /\ people = [f \in Frames |-> <<>>] /\ face = [f \in Frames |-> 0]
    /\ found = [f \in Frames |-> {}]
    /\ saw = [f \in Frames |-> [a \in Alerts |-> 0]]
    /\ fired = [f \in Frames |-> {}]
    /\ aborts = 0
    /\ edit = [u \in Users |-> None]

-----------------------------------------------------------------------------
(* The frame's transaction. *)

\* The session and what it read are gone.
Over(f) ==
    /\ people' = [people EXCEPT ![f] = <<>>] /\ face' = [face EXCEPT ![f] = 0]
    /\ found' = [found EXCEPT ![f] = {}]
    /\ saw' = [saw EXCEPT ![f] = [a \in Alerts |-> 0]]
    /\ fired' = [fired EXCEPT ![f] = {}]

InSight(f) == {people[f][i] : i \in DOMAIN people[f]}

\* resolve_survivor: q is not merged, and the pointers lead from p to q.
Leads(p, q) ==
    /\ into[q] = q
    /\ \A closed \in SUBSET Persons :
           p \in closed /\ (\A r \in closed : into[r] \in closed) => q \in closed

\* persist_detection: the shared lock, then each face's surviving identity.  A
\* frame that is stored is not stored again.
Begin(f) ==
    /\ pc[f] = "queued"
    /\ pc' = [pc EXCEPT ![f] = "begun"]
    /\ \E survivors \in [DOMAIN Faces[f] -> Persons] :
           /\ \A i \in DOMAIN Faces[f] : Leads(Faces[f][i], survivors[i])
           /\ people' = [people EXCEPT ![f] = survivors]
    /\ UNCHANGED <<personVars, alertVars, face, found, saw, fired, aborts, edit>>

\* Seeded fault: the people are read without a lock.
LockNobody(f) ==
    /\ pc[f] = "begun"
    /\ pc' = [pc EXCEPT ![f] = "holding"] /\ face' = [face EXCEPT ![f] = 1]
    /\ UNCHANGED <<personVars, alertVars, people, found, saw, fired, aborts, edit>>

\* SELECT ... ORDER BY id FOR NO KEY UPDATE: the one order makes waiting for all the
\* rows the same as taking them at once.
LockPeople(f) ==
    /\ pc[f] = "begun"
    /\ \A g \in Frames : pc[g] = "holding" => InSight(f) \cap InSight(g) = {}
    /\ pc' = [pc EXCEPT ![f] = "holding"] /\ face' = [face EXCEPT ![f] = 1]
    /\ UNCHANGED <<personVars, alertVars, people, found, saw, fired, aborts, edit>>

\* Active, out of its cooldown, before its date, not fired by this frame.
Due(f, a) ==
    /\ owner[a] = people[f][face[f]]
    /\ status[a] = "active" /\ a \notin fired[f]
    /\ a \notin recent \cap Cooling /\ a \notin overdue \cap Dated

AtFace(f) == pc[f] = "holding" /\ face[f] \in DOMAIN people[f] /\ found[f] = {}

\* The alerts of the face's person; similarity, camera and hours pick any of
\* them.
ReadAlerts(f) ==
    /\ AtFace(f)
    /\ found' \in {[found EXCEPT ![f] = s] : s \in SUBSET {a \in Alerts : Due(f, a)}}
    /\ found'[f] # {}
    /\ saw' = [saw EXCEPT ![f] = [a \in Alerts |->
                   IF a \in found'[f] THEN count[a] ELSE @[a]]]
    /\ UNCHANGED <<personVars, alertVars, pc, people, face, fired, aborts, edit>>

NextFace(f) ==
    /\ AtFace(f)
    /\ face' = [face EXCEPT ![f] = @ + 1]
    /\ UNCHANGED <<personVars, alertVars, pc, people, found, saw, fired, aborts, edit>>

\* The trigger rows and the updates of the alerts, flushed.  An alert deleted
\* meanwhile fails the savepoint, as anything else may.
Fire(f) ==
    /\ pc[f] = "holding" /\ found[f] # {}
    /\ \A a \in found[f] : status[a] # "deleted"
    /\ fired' = [fired EXCEPT ![f] = @ \cup found[f]]
    /\ found' = [found EXCEPT ![f] = {}] /\ face' = [face EXCEPT ![f] = @ + 1]
    /\ UNCHANGED <<personVars, alertVars, pc, people, saw, aborts, edit>>

SavepointFails(f) ==
    /\ pc[f] = "holding" /\ found[f] # {}
    /\ found' = [found EXCEPT ![f] = {}] /\ face' = [face EXCEPT ![f] = @ + 1]
    /\ UNCHANGED <<personVars, alertVars, pc, people, saw, fired, aborts, edit>>

\* Seeded fault: the alert that has just reached its limit fires once more.
ReachedLate(f, a) == Limit[a] # 0 /\ saw[f][a] >= Limit[a]

\* _check_alert_expiration, on the count just written.
Reached(f, a) == Limit[a] # 0 /\ saw[f][a] + 1 >= Limit[a]

Commit(f) ==
    /\ pc[f] = "holding" /\ face[f] = Len(people[f]) + 1
    /\ pc' = [pc EXCEPT ![f] = "stored"]
    /\ count' = [a \in Alerts |-> IF a \in fired[f] THEN saw[f][a] + 1 ELSE count[a]]
    /\ triggers' = [a \in Alerts |->
                       IF a \in fired[f] THEN triggers[a] \cup {f} ELSE triggers[a]]
    /\ recent' = recent \cup fired[f]
    /\ status' = [a \in Alerts |->
                     IF a \in fired[f] /\ Reached(f, a) THEN "expired" ELSE status[a]]
    /\ Over(f)
    /\ UNCHANGED <<personVars, owner, overdue, late, aborts, edit>>

\* The frame stays queued and is tried again.
Abort(f) ==
    /\ pc[f] \in {"begun", "holding"} /\ aborts < MaxAborts
    /\ aborts' = aborts + 1
    /\ pc' = [pc EXCEPT ![f] = "queued"]
    /\ Over(f)
    /\ UNCHANGED <<personVars, alertVars, edit>>

-----------------------------------------------------------------------------
(* Merges, users and time. *)

InTransaction(f) == pc[f] \in {"begun", "holding"}

\* What a merge does; alone, a seeded fault: it waits for no frame.
Joined(l, w) ==
    /\ <<l, w>> \in MergePairs /\ merge[<<l, w>>] = "none"
    /\ into[l] = l /\ into[w] = w /\ l # w
    /\ into' = [into EXCEPT ![l] = w]
    /\ merge' = [merge EXCEPT ![<<l, w>>] = "done"]
    /\ moved' = [moved EXCEPT ![<<l, w>>] = {a \in Alerts : owner[a] = l}]
    /\ owner' = [a \in Alerts |-> IF owner[a] = l THEN w ELSE owner[a]]
    /\ UNCHANGED <<status, count, triggers, recent, overdue, late, frameVars, edit>>

\* merge_identities under the exclusive lock: the alerts follow the person.
Merge(l, w) ==
    /\ \A f \in Frames : ~InTransaction(f)
    /\ Joined(l, w)

\* unmerge_identity: the alerts the winner still holds go back.
Unmerge(l, w) ==
    /\ \A f \in Frames : ~InTransaction(f)
    /\ <<l, w>> \in MergePairs /\ merge[<<l, w>>] = "done" /\ into[l] = w
    /\ into' = [into EXCEPT ![l] = l]
    /\ merge' = [merge EXCEPT ![<<l, w>>] = "undone"]
    /\ owner' = [a \in Alerts |->
                    IF a \in moved[<<l, w>>] /\ owner[a] = w THEN l ELSE owner[a]]
    /\ UNCHANGED <<moved, status, count, triggers, recent, overdue, late, frameVars,
                   edit>>

\* The row of an alert a frame has fired stays locked until it commits.
Free(a) == \A f \in Frames : a \notin fired[f]

\* Seeded fault: an alert that is gone is edited too.
EditGone(u, a, to) ==
    /\ edit[u] = None
    /\ edit' = [edit EXCEPT ![u] = [alert |-> a, to |-> to, from |-> status[a]]]
    /\ UNCHANGED <<personVars, alertVars, frameVars>>

\* _set_alert_status reads the alert ...
EditBegins(u, a, to) ==
    /\ edit[u] = None /\ status[a] # "deleted"
    /\ edit' = [edit EXCEPT ![u] = [alert |-> a, to |-> to, from |-> status[a]]]
    /\ UNCHANGED <<personVars, alertVars, frameVars>>

\* ... and writes the status, if it differs from what was read.
EditEnds(u) ==
    /\ edit[u] # None
    /\ LET a == edit[u].alert
           written == edit[u].to # edit[u].from /\ status[a] # "deleted"
       IN  /\ written => Free(a)
           /\ status' = IF written THEN [status EXCEPT ![a] = edit[u].to] ELSE status
           /\ IF written /\ edit[u].to = "active" /\ Limit[a] # 0 /\ count[a] >= Limit[a]
              THEN late[a] < MaxResumes /\ late' = [late EXCEPT ![a] = @ + 1]
              ELSE UNCHANGED late
    /\ edit' = [edit EXCEPT ![u] = None]
    /\ UNCHANGED <<personVars, owner, count, triggers, recent, overdue, frameVars>>

\* delete_alert; the trigger rows go with it.
Delete(a) ==
    /\ status[a] # "deleted" /\ Free(a)
    /\ status' = [status EXCEPT ![a] = "deleted"]
    /\ count' = [count EXCEPT ![a] = 0] /\ triggers' = [triggers EXCEPT ![a] = {}]
    /\ UNCHANGED <<personVars, owner, recent, overdue, late, frameVars, edit>>

\* update_alert with a later date.
Renew(a) ==
    /\ a \in overdue /\ status[a] # "deleted" /\ Free(a)
    /\ overdue' = overdue \ {a}
    /\ UNCHANGED <<personVars, owner, status, count, triggers, recent, late, frameVars,
                   edit>>

DatePasses(a) ==
    /\ a \in Dated \ overdue
    /\ overdue' = overdue \cup {a}
    /\ UNCHANGED <<personVars, owner, status, count, triggers, recent, late, frameVars,
                   edit>>

CooldownEnds(a) ==
    /\ a \in recent
    /\ recent' = recent \ {a}
    /\ UNCHANGED <<personVars, owner, status, count, triggers, overdue, late, frameVars,
                   edit>>

\* cleanup_expired_alerts, one UPDATE.
Sweep ==
    LET expiring == {a \in overdue : status[a] = "active"}
    IN  /\ expiring # {} /\ \A a \in expiring : Free(a)
        /\ status' = [a \in Alerts |-> IF a \in expiring THEN "expired" ELSE status[a]]
        /\ UNCHANGED <<personVars, owner, count, triggers, recent, overdue, late,
                       frameVars, edit>>

FrameStep(f) ==
    \/ Begin(f) \/ LockPeople(f)
    \/ ReadAlerts(f) \/ NextFace(f) \/ Fire(f) \/ SavepointFails(f)
    \/ Commit(f) \/ Abort(f)

UserStep(u) ==
    \/ EditEnds(u)
    \/ \E a \in Alerts, to \in {"active", "paused"} : EditBegins(u, a, to)

AlertStep(a) == Delete(a) \/ Renew(a) \/ DatePasses(a) \/ CooldownEnds(a)

Next ==
    \/ \E f \in Frames : FrameStep(f)
    \/ \E l, w \in Persons : Merge(l, w) \/ Unmerge(l, w)
    \/ \E u \in Users : UserStep(u)
    \/ \E a \in Alerts : AlertStep(a)
    \/ Sweep

Spec == Init /\ [][Next]_vars

-----------------------------------------------------------------------------
\* triggers_count is computed in Python from what a transaction read, yet no
\* update of another frame is lost: it is the number of the alert's rows.
CountsAreExact ==
    \A a \in Alerts : IsFiniteSet(triggers[a]) /\ count[a] = Cardinality(triggers[a])

\* An alert with a cooldown is not fired by two frames within it, whatever
\* frames, merges and users do between the test and the commit.
CooldownHolds ==
    [][\A a \in Cooling : triggers'[a] \ triggers[a] # {} => a \notin recent]_vars

\* An alert fires as often as expiration_detections says, and once more each
\* time somebody resumes it after that.
FiresToItsLimit ==
    \A a \in Alerts : Limit[a] # 0 => Cardinality(triggers[a]) <= Limit[a] + late[a]
=============================================================================
