------------------------- MODULE LiveAlerts_proofs -------------------------
(***************************************************************************)
(* Proofs about LiveAlerts, for any number of persons, alerts, frames,     *)
(* users and merges.  What a frame read of an alert stays true until it    *)
(* commits (Sure): the alert belongs to a person whose row the frame       *)
(* holds, no other frame holds her (Apart), and nobody merges her while a  *)
(* frame is in its transaction.                                            *)
(***************************************************************************)
EXTENDS LiveAlerts, FiniteSetTheorems, SequenceTheorems, TLAPS

USE AlertAssumption

\* Two frames hold no person in common.
Apart ==
    \A f, g \in Frames :
        f # g /\ pc[f] = "holding" /\ pc[g] = "holding" => InSight(f) \cap InSight(g) = {}

\* Only a frame that holds its people has found or fired anything.
Idle == \A f \in Frames : pc[f] # "holding" => found[f] = {} /\ fired[f] = {}

\* A trigger is of a stored frame.
Stored == \A f \in Frames, a \in Alerts : f \in triggers[a] => pc[f] = "stored"

\* One trigger more is within the limit.
Room(a) == Limit[a] # 0 => count[a] < Limit[a] + late[a]

SureOf(f, a) ==
    /\ owner[a] \in InSight(f)
    /\ a \in fired[f] => status[a] # "deleted"
    /\ status[a] # "deleted" =>
           saw[f][a] = count[a] /\ a \notin recent \cap Cooling /\ Room(a)

Sure == \A f \in Frames : \A a \in found[f] \cup fired[f] : SureOf(f, a)

Limited ==
    \A a \in Alerts : /\ Limit[a] # 0 => count[a] <= Limit[a] + late[a]
                      /\ status[a] = "active" => Room(a)

IInv == TypeOK /\ CountsAreExact /\ Apart /\ Idle /\ Stored /\ Sure /\ Limited

-----------------------------------------------------------------------------
(* Types. *)

LEMMA TypeInit == Init => TypeOK
  BY DEF Init, TypeOK, Statuses, Kept

LEMMA OverTypes ==
  ASSUME TypeOK, NEW f \in Frames, Over(f)
  PROVE  /\ people' \in [Frames -> Seq(Persons)] /\ face' \in [Frames -> Nat]
         /\ found' \in [Frames -> SUBSET Alerts] /\ fired' \in [Frames -> SUBSET Alerts]
         /\ saw' \in [Frames -> [Alerts -> Nat]]
<1>1. <<>> \in Seq(Persons) /\ [a \in Alerts |-> 0] \in [Alerts -> Nat]
  OBVIOUS
<1> QED
  BY <1>1 DEF Over, TypeOK

LEMMA FrameTypes == ASSUME TypeOK, NEW f \in Frames, FrameStep(f) PROVE TypeOK'
<1> USE DEF TypeOK, personVars, alertVars
<1>1. CASE Begin(f)
  <2>1. PICK survivors \in [DOMAIN Faces[f] -> Persons] :
            people' = [people EXCEPT ![f] = survivors]
    BY <1>1 DEF Begin
  <2>2. DOMAIN Faces[f] = 1 .. Len(Faces[f]) /\ Len(Faces[f]) \in Nat
    OBVIOUS
  <2>3. survivors \in [1 .. Len(Faces[f]) -> Persons]
    BY <2>2, Zenon
  <2>4. survivors \in Seq(Persons)
    <3> DEFINE n == Len(Faces[f])
    <3>1. n \in Nat /\ survivors \in [1 .. n -> Persons]
      BY <2>2, <2>3
    <3> HIDE DEF n
    <3>2. [1 .. n -> Persons] \in {[1 .. k -> Persons] : k \in Nat}
      BY <3>1, Zenon
    <3> QED
      <4> DEFINE lists == {[1 .. k -> Persons] : k \in Nat}
      <4>1. Seq(Persons) = UNION lists
        BY SeqDef
      <4> HIDE DEF lists
      <4>2. [1 .. n -> Persons] \subseteq UNION lists
        BY <3>2, Zenon DEF lists
      <4> QED
        BY <3>1, <4>1, <4>2, Zenon
  <2>5. people' \in [Frames -> Seq(Persons)]
    BY <2>1, <2>4
  <2> QED
    BY <1>1, <2>5 DEF Begin
<1>2. CASE LockPeople(f)
  BY <1>2 DEF LockPeople
<1>3. CASE ReadAlerts(f)
  <2>1. found' \in [Frames -> SUBSET Alerts]
    <3>1. PICK s \in SUBSET {a \in Alerts : Due(f, a)} : found' = [found EXCEPT ![f] = s]
      BY <1>3 DEF ReadAlerts
    <3>2. s \in SUBSET Alerts
      OBVIOUS
    <3> QED
      BY <3>1, <3>2
  <2>2. saw' \in [Frames -> [Alerts -> Nat]]
    <3> DEFINE now == [a \in Alerts |-> IF a \in found'[f] THEN count[a] ELSE saw[f][a]]
    <3>1. now \in [Alerts -> Nat]
      OBVIOUS
    <3>2. saw' = [saw EXCEPT ![f] = now]
      BY <1>3 DEF ReadAlerts
    <3> QED
      BY <3>1, <3>2
  <2> QED
    BY <1>3, <2>1, <2>2 DEF ReadAlerts
<1>4. CASE NextFace(f)
  BY <1>4 DEF NextFace
<1>5. CASE Fire(f)
  BY <1>5 DEF Fire
<1>6. CASE SavepointFails(f)
  BY <1>6 DEF SavepointFails
<1>7. CASE Commit(f)
  <2>1. /\ count' \in [Alerts -> Nat] /\ triggers' \in [Alerts -> SUBSET Frames]
        /\ status' \in [Alerts -> Statuses] /\ recent' \subseteq Alerts
    BY <1>7 DEF Commit, Statuses, Kept
  <2> QED
    BY <1>7, <2>1, OverTypes DEF Commit
<1>8. CASE Abort(f)
  BY <1>8, OverTypes DEF Abort
<1> QED
  BY <1>1, <1>2, <1>3, <1>4, <1>5, <1>6, <1>7, <1>8 DEF FrameStep

LEMMA TypeStep == TypeOK /\ [Next]_vars => TypeOK'
<1> SUFFICES ASSUME TypeOK, [Next]_vars PROVE TypeOK'
  OBVIOUS
<1> USE DEF TypeOK, personVars, alertVars, frameVars
<1>1. ASSUME NEW f \in Frames, FrameStep(f) PROVE TypeOK'
  BY <1>1, FrameTypes
<1>2. ASSUME NEW l \in Persons, NEW w \in Persons, Merge(l, w) \/ Unmerge(l, w) PROVE TypeOK'
  <2>1. CASE Merge(l, w)
    BY <2>1 DEF Merge, Joined
  <2>2. CASE Unmerge(l, w)
    BY <2>2 DEF Unmerge
  <2> QED
    BY <1>2, <2>1, <2>2
<1>3. ASSUME NEW u \in Users, EditEnds(u) PROVE TypeOK'
  <2> DEFINE a == edit[u].alert
  <2>1. edit[u] \in Edits
    BY <1>3 DEF EditEnds
  <2>2. a \in Alerts /\ edit[u].to \in Statuses
    BY <2>1 DEF Edits, Statuses, Kept
  <2>3. status' \in [Alerts -> Statuses]
    BY <1>3, <2>2 DEF EditEnds
  <2>4. late' \in [Alerts -> Nat]
    <3>1. late' = late \/ late' = [late EXCEPT ![a] = @ + 1]
      BY <1>3, Zenon DEF EditEnds
    <3> HIDE DEF a
    <3> QED
      BY <2>2, <3>1
  <2>5. edit' \in [Users -> Edits \cup {None}]
    BY <1>3 DEF EditEnds
  <2> QED
    BY <1>3, <2>3, <2>4, <2>5 DEF EditEnds
<1>4. ASSUME NEW u \in Users, NEW a \in Alerts, NEW to \in {"active", "paused"},
             EditBegins(u, a, to)
      PROVE  TypeOK'
  <2> DEFINE mine == [alert |-> a, to |-> to, from |-> status[a]]
  <2>1. mine \in Edits
    BY <1>4 DEF EditBegins, Edits, Statuses
  <2>2. edit' = [edit EXCEPT ![u] = mine]
    BY <1>4 DEF EditBegins
  <2> HIDE DEF mine
  <2>3. edit' \in [Users -> Edits \cup {None}]
    BY <2>1, <2>2
  <2> QED
    BY <1>4, <2>3 DEF EditBegins
<1>5. ASSUME NEW a \in Alerts, AlertStep(a) PROVE TypeOK'
  <2>1. CASE Delete(a)
    BY <2>1 DEF Delete, Statuses
  <2>2. CASE Renew(a) \/ DatePasses(a) \/ CooldownEnds(a)
    BY <2>2 DEF Renew, DatePasses, CooldownEnds
  <2> QED
    BY <1>5, <2>1, <2>2 DEF AlertStep
<1>6. CASE Sweep
  BY <1>6 DEF Sweep, Statuses, Kept
<1>7. CASE UNCHANGED vars
  BY <1>7 DEF vars
<1> QED
  BY <1>1, <1>2, <1>3, <1>4, <1>5, <1>6, <1>7 DEF Next, UserStep

\* Every variable keeps its type.
THEOREM LiveAlertTypes == Spec => []TypeOK
  BY TypeInit, TypeStep, PTL DEF Spec

-----------------------------------------------------------------------------
(* The inductive invariant. *)

LEMMA IInvInit == Init => IInv
<1> SUFFICES ASSUME Init PROVE IInv
  OBVIOUS
<1>1. TypeOK
  BY TypeInit
<1>2. CountsAreExact
  BY FS_EmptySet DEF Init, CountsAreExact
<1>3. Apart /\ Idle /\ Stored /\ Sure
  BY DEF Init, Apart, Idle, Stored, Sure
<1>4. Limited
  BY DEF Init, Limited, Room
<1> QED
  BY <1>1, <1>2, <1>3, <1>4 DEF IInv

\* Steps of a frame that leave the rows of the alerts alone.
LEMMA RowsKept ==
  ASSUME IInv, UNCHANGED alertVars, pc' = pc \/ (\A f \in Frames : pc'[f] = "stored" <=> pc[f] = "stored")
  PROVE  CountsAreExact' /\ Stored' /\ Limited'
  BY DEF IInv, alertVars, CountsAreExact, Stored, Limited, Room

LEMMA SightKept == ASSUME NEW f, people'[f] = people[f] PROVE InSight(f)' = InSight(f)
  BY DEF InSight

LEMMA StartInv ==
  ASSUME IInv, NEW f \in Frames, Begin(f) \/ LockPeople(f) \/ Abort(f) PROVE IInv'
<1> USE DEF IInv
<1>1. TypeOK'
  BY FrameTypes DEF FrameStep
<1>2. /\ UNCHANGED alertVars
      /\ pc[f] # "stored"
      /\ pc'[f] # "stored" /\ \A g \in Frames : g # f => pc'[g] = pc[g]
  BY DEF Begin, LockPeople, Abort, TypeOK
<1>3. CountsAreExact' /\ Stored' /\ Limited'
  BY <1>2, RowsKept
<1>4. \A g \in Frames : g # f => people'[g] = people[g] /\ saw'[g] = saw[g]
                               /\ found'[g] = found[g] /\ fired'[g] = fired[g]
  BY DEF Begin, LockPeople, Abort, Over, TypeOK
<1>5. found'[f] = {} /\ fired'[f] = {}
  BY DEF Begin, LockPeople, Abort, Over, Idle, TypeOK
<1>6. \A g \in Frames : g # f => InSight(g)' = InSight(g)
  BY <1>4, SightKept
<1>7. Idle'
  BY <1>2, <1>4, <1>5 DEF Idle
<1>8. Sure'
  <2> SUFFICES ASSUME NEW g \in Frames, g # f, NEW a \in found[g] \cup fired[g]
               PROVE  SureOf(g, a)'
    BY <1>4, <1>5 DEF Sure
  <2>1. SureOf(g, a)
    BY DEF Sure
  <2> QED
    BY <1>2, <1>4, <1>6, <2>1 DEF SureOf, Room, alertVars
<1>9. Apart'
  <2>1. CASE LockPeople(f)
    <3>1. people' = people /\ \A g \in Frames : pc[g] = "holding" => InSight(f) \cap InSight(g) = {}
      BY <2>1 DEF LockPeople
    <3>2. \A g \in Frames : InSight(g)' = InSight(g)
      BY <3>1, SightKept
    <3> QED
      BY <1>2, <3>1, <3>2 DEF Apart
  <2>2. CASE Begin(f) \/ Abort(f)
    <3>1. pc'[f] # "holding"
      BY <2>2 DEF Begin, Abort, TypeOK
    <3> QED
      BY <1>2, <1>6, <3>1 DEF Apart
  <2> QED
    BY <2>1, <2>2
<1> QED
  BY <1>1, <1>3, <1>7, <1>8, <1>9

LEMMA LookInv ==
  ASSUME IInv, NEW f \in Frames,
         ReadAlerts(f) \/ NextFace(f) \/ Fire(f) \/ SavepointFails(f)
  PROVE  IInv'
<1> USE DEF IInv
<1>1. TypeOK'
  BY FrameTypes DEF FrameStep
<1>2. UNCHANGED <<alertVars, pc, people>> /\ pc[f] = "holding"
  BY DEF ReadAlerts, NextFace, Fire, SavepointFails, AtFace
<1>3. CountsAreExact' /\ Stored' /\ Limited'
  BY <1>2, RowsKept
<1>4. \A g \in Frames : g # f => saw'[g] = saw[g]
                               /\ found'[g] = found[g] /\ fired'[g] = fired[g]
  BY DEF ReadAlerts, NextFace, Fire, SavepointFails, TypeOK
<1>5. Idle' /\ Apart'
  <2>1. \A g \in Frames : InSight(g)' = InSight(g)
    BY <1>2, SightKept
  <2> QED
    BY <1>2, <1>4, <2>1 DEF Idle, Apart
<1>6. ASSUME NEW a \in found'[f] \cup fired'[f] PROVE SureOf(f, a)'
  <2>1. CASE ReadAlerts(f)
    <3>1. PICK s \in SUBSET {b \in Alerts : Due(f, b)} : found' = [found EXCEPT ![f] = s]
      BY <2>1 DEF ReadAlerts
    <3>2. found'[f] = s /\ fired' = fired
      BY <2>1, <3>1 DEF ReadAlerts, TypeOK
    <3>3. \A b \in Alerts : saw'[f][b] = IF b \in s THEN count[b] ELSE saw[f][b]
      BY <2>1, <3>2 DEF ReadAlerts, TypeOK
    <3>4. CASE a \in s
      <4>1. a \in Alerts /\ Due(f, a)
        BY <3>4
      <4>2. owner[a] \in InSight(f)
        BY <2>1, <4>1 DEF Due, ReadAlerts, AtFace, InSight
      <4>3. status[a] = "active" /\ a \notin fired[f] /\ a \notin recent \cap Cooling
        BY <4>1 DEF Due
      <4>4. Room(a)
        BY <4>1, <4>3 DEF Limited
      <4>5. saw'[f][a] = count[a]
        BY <3>3, <3>4, <4>1
      <4> QED
        BY <1>2, <3>2, <4>2, <4>3, <4>4, <4>5 DEF SureOf, InSight, Room, alertVars
    <3>5. CASE a \notin s
      <4>1. a \in fired[f] /\ a \in Alerts
        BY <3>2, <3>5 DEF TypeOK
      <4>2. SureOf(f, a) /\ saw'[f][a] = saw[f][a]
        BY <3>3, <3>5, <4>1 DEF Sure
      <4> QED
        BY <1>2, <3>2, <4>2 DEF SureOf, InSight, Room, alertVars
    <3> QED
      BY <3>4, <3>5
  <2>2. CASE NextFace(f) \/ SavepointFails(f)
    <3>1. a \in found[f] \cup fired[f] /\ saw' = saw /\ fired' = fired
      BY <2>2 DEF NextFace, SavepointFails, TypeOK
    <3> QED
      BY <1>2, <3>1 DEF Sure, SureOf, InSight, Room, alertVars
  <2>3. CASE Fire(f)
    <3>1. a \in found[f] \cup fired[f] /\ saw' = saw
      BY <2>3 DEF Fire, TypeOK
    <3>2. SureOf(f, a) /\ status[a] # "deleted"
      BY <2>3, <3>1 DEF Fire, Sure, SureOf
    <3> QED
      BY <1>2, <3>1, <3>2 DEF SureOf, InSight, Room, alertVars
  <2> QED
    BY <2>1, <2>2, <2>3
<1>7. Sure'
  BY <1>2, <1>4, <1>6 DEF Sure, SureOf, InSight, Room, alertVars
<1> QED
  BY <1>1, <1>3, <1>5, <1>7

\* What a frame fired is as it read it; no other frame has found or fired it.
LEMMA FiredIsOwn ==
  ASSUME IInv, NEW f \in Frames, pc[f] = "holding", NEW a \in fired[f]
  PROVE  /\ a \in Alerts /\ status[a] # "deleted" /\ saw[f][a] = count[a]
         /\ a \notin recent \cap Cooling /\ Room(a) /\ f \notin triggers[a]
         /\ \A g \in Frames : g # f => a \notin found[g] \cup fired[g]
<1>1. a \in Alerts /\ SureOf(f, a)
  BY DEF IInv, Sure, TypeOK
<1>2. f \notin triggers[a]
  BY <1>1 DEF IInv, Stored
<1>3. ASSUME NEW g \in Frames, g # f, a \in found[g] \cup fired[g] PROVE FALSE
  <2>1. pc[g] = "holding" /\ SureOf(g, a)
    BY <1>3 DEF IInv, Idle, Sure
  <2> QED
    BY <1>1, <1>3, <2>1 DEF IInv, Apart, SureOf
<1> QED
  BY <1>1, <1>2, <1>3 DEF SureOf

LEMMA CommitInv == ASSUME IInv, NEW f \in Frames, Commit(f) PROVE IInv'
<1> USE DEF IInv
<1>1. TypeOK'
  BY FrameTypes DEF FrameStep
<1>2. pc[f] = "holding" /\ pc'[f] = "stored" /\ owner' = owner /\ late' = late
  BY DEF Commit, TypeOK
<1>3. ASSUME NEW a \in Alerts, a \notin fired[f]
      PROVE  /\ count'[a] = count[a] /\ triggers'[a] = triggers[a] /\ status'[a] = status[a]
             /\ a \in recent' <=> a \in recent
  BY <1>3 DEF Commit
<1>4. ASSUME NEW a \in fired[f]
      PROVE  /\ count'[a] = count[a] + 1 /\ triggers'[a] = triggers[a] \cup {f}
             /\ status'[a] = IF Limit[a] # 0 /\ count[a] + 1 >= Limit[a]
                             THEN "expired" ELSE status[a]
  <2>1. a \in Alerts /\ saw[f][a] = count[a]
    BY <1>2, FiredIsOwn
  <2> QED
    BY <2>1 DEF Commit, Reached
<1>5. CountsAreExact'
  <2> SUFFICES ASSUME NEW a \in Alerts
               PROVE  IsFiniteSet(triggers'[a]) /\ count'[a] = Cardinality(triggers'[a])
    BY DEF CountsAreExact
  <2>1. IsFiniteSet(triggers[a]) /\ count[a] = Cardinality(triggers[a])
    BY DEF CountsAreExact
  <2>2. CASE a \in fired[f]
    <3>1. f \notin triggers[a]
      BY <1>2, <2>2, FiredIsOwn
    <3>2. /\ IsFiniteSet(triggers[a] \cup {f})
          /\ Cardinality(triggers[a] \cup {f}) = Cardinality(triggers[a]) + 1
      BY <2>1, <3>1, FS_AddElement
    <3> QED
      BY <1>4, <2>1, <2>2, <3>2
  <2>3. CASE a \notin fired[f]
    BY <1>3, <2>1, <2>3
  <2> QED
    BY <2>2, <2>3
<1>6. \A g \in Frames : g # f => /\ pc'[g] = pc[g] /\ people'[g] = people[g]
                                 /\ saw'[g] = saw[g] /\ found'[g] = found[g]
                                 /\ fired'[g] = fired[g]
  BY DEF Commit, Over, TypeOK
<1>7. found'[f] = {} /\ fired'[f] = {}
  BY DEF Commit, Over, TypeOK
<1>8. Apart' /\ Idle'
  <2>1. \A g \in Frames : g # f => InSight(g)' = InSight(g)
    BY <1>6, SightKept
  <2>2. \A g \in Frames : pc'[g] = "holding" => g # f /\ pc[g] = "holding"
    BY <1>2, <1>6
  <2>3. Apart'
    BY <2>1, <2>2 DEF Apart
  <2>4. Idle'
    BY <1>6, <1>7 DEF Idle
  <2> QED
    BY <2>3, <2>4
<1>9. Stored'
  <2> SUFFICES ASSUME NEW g \in Frames, NEW a \in Alerts, g \in triggers'[a]
               PROVE  pc'[g] = "stored"
    BY DEF Stored
  <2>1. g = f \/ g \in triggers[a]
    BY <1>3, <1>4
  <2> QED
    BY <1>2, <1>6, <2>1 DEF Stored
<1>10. Sure'
  <2> SUFFICES ASSUME NEW g \in Frames, g # f, NEW a \in found[g] \cup fired[g]
               PROVE  SureOf(g, a)'
    BY <1>6, <1>7 DEF Sure
  <2>1. SureOf(g, a) /\ a \in Alerts
    BY DEF Sure, TypeOK
  <2>2. a \notin fired[f]
    BY <1>2, FiredIsOwn
  <2> QED
    BY <1>2, <1>3, <1>6, <2>1, <2>2 DEF SureOf, InSight, Room
<1>11. Limited'
  <2> SUFFICES ASSUME NEW a \in Alerts
               PROVE  /\ Limit[a] # 0 => count'[a] <= Limit[a] + late[a]
                      /\ status'[a] = "active" /\ Limit[a] # 0 =>
                             count'[a] < Limit[a] + late[a]
    BY <1>2 DEF Limited, Room
  <2>1. count[a] \in Nat /\ late[a] \in Nat /\ Limit[a] \in Nat
    BY DEF TypeOK
  <2>2. CASE a \in fired[f]
    <3>1. Room(a)
      BY <1>2, <2>2, FiredIsOwn
    <3> QED
      BY <1>4, <2>1, <2>2, <3>1 DEF Room
  <2>3. CASE a \notin fired[f]
    BY <1>3, <2>3 DEF Limited, Room
  <2> QED
    BY <2>2, <2>3
<1> QED
  BY <1>1, <1>5, <1>8, <1>9, <1>10, <1>11

\* What merges, users and time may change: rows of alerts, of no frame's business.
LEMMA RowInv ==
  ASSUME IInv, TypeOK', UNCHANGED <<frameVars, owner>>,
         \A a \in Alerts :
             /\ \/ count'[a] = count[a] /\ triggers'[a] = triggers[a]
                \/ count'[a] = 0 /\ triggers'[a] = {} /\ Free(a) /\ status'[a] = "deleted"
             /\ status[a] # "deleted" /\ status'[a] = "deleted" => Free(a)
             /\ status[a] = "deleted" => status'[a] = "deleted"
             /\ a \in recent' => a \in recent
             /\ late'[a] >= late[a]
             /\ status'[a] = "active" /\ Limit[a] # 0 => count'[a] < Limit[a] + late'[a]
  PROVE  IInv'
<1> USE DEF IInv, frameVars
<1>1. CountsAreExact' /\ Stored'
  BY FS_EmptySet DEF CountsAreExact, Stored
<1>2. Apart' /\ Idle'
  <2>1. \A g \in Frames : InSight(g)' = InSight(g)
    BY SightKept
  <2> QED
    BY <2>1 DEF Apart, Idle
<1>3. \A a \in Alerts : count[a] \in Nat /\ late[a] \in Nat /\ late'[a] \in Nat /\ Limit[a] \in Nat
  BY DEF TypeOK
<1>4. Limited'
  BY <1>3 DEF Limited, Room
<1>5. Sure'
  <2> SUFFICES ASSUME NEW f \in Frames, NEW a \in found[f] \cup fired[f]
               PROVE  SureOf(f, a)'
    BY DEF Sure
  <2>1. SureOf(f, a) /\ a \in Alerts
    BY DEF Sure, TypeOK
  <2>2. a \in fired[f] => status'[a] # "deleted"
    BY <2>1 DEF SureOf, Free
  <2>3. status'[a] # "deleted" =>
            /\ saw[f][a] = count'[a] /\ a \notin recent' \cap Cooling
            /\ Limit[a] # 0 => count'[a] < Limit[a] + late'[a]
    BY <1>3, <2>1 DEF SureOf, Room
  <2> QED
    BY <2>1, <2>2, <2>3 DEF SureOf, InSight, Room
<1> QED
  BY <1>1, <1>2, <1>4, <1>5

\* Nobody merges while a frame is in its transaction.
LEMMA MergeInv ==
  ASSUME IInv, NEW l \in Persons, NEW w \in Persons, Merge(l, w) \/ Unmerge(l, w)
  PROVE  IInv'
<1> USE DEF IInv
<1>1. TypeOK'
  BY TypeStep DEF Next
<1>2. UNCHANGED <<status, count, triggers, recent, late, frameVars>>
  BY DEF Merge, Joined, Unmerge
<1>3. CountsAreExact' /\ Stored' /\ Limited'
  BY <1>2 DEF CountsAreExact, Stored, Limited, Room, frameVars
<1>4. \A f \in Frames : pc[f] # "holding"
  BY DEF Merge, Unmerge, InTransaction
<1>5. Apart' /\ Idle'
  BY <1>2, <1>4 DEF Apart, Idle, frameVars
<1>6. Sure'
  BY <1>2, <1>4 DEF Idle, Sure, frameVars
<1> QED
  BY <1>1, <1>3, <1>5, <1>6

LEMMA EditInv ==
  ASSUME IInv, NEW u \in Users, UserStep(u) PROVE IInv'
<1> USE DEF IInv
<1>1. TypeOK'
  BY TypeStep DEF Next
<1>2. CASE EditEnds(u)
  <2> DEFINE a == edit[u].alert
  <2> DEFINE written == edit[u].to # edit[u].from /\ status[a] # "deleted"
  <2>1. a \in Alerts /\ edit[u].to \in {"active", "paused"}
    BY <1>2 DEF EditEnds, TypeOK, Edits
  <2>2. UNCHANGED <<frameVars, owner, count, triggers, recent>>
    BY <1>2 DEF EditEnds
  <2>3. \A b \in Alerts : /\ late[b] \in Nat /\ count[b] \in Nat /\ Limit[b] \in Nat
                          /\ Limit[b] # 0 => count[b] <= Limit[b] + late[b]
                          /\ status[b] = "active" /\ Limit[b] # 0 =>
                                 count[b] < Limit[b] + late[b]
    BY DEF TypeOK, Limited, Room
  <2>4. CASE ~written
    <3>1. status' = status /\ late' = late
      BY <1>2, <2>4 DEF EditEnds
    <3> QED
      BY <1>1, <2>2, <2>3, <3>1, RowInv
  <2>5. CASE written
    <3>1. status' = [status EXCEPT ![a] = edit[u].to] /\ status[a] # "deleted"
      BY <1>2, <2>5 DEF EditEnds
    <3>2. \/ /\ edit[u].to = "active" /\ Limit[a] # 0 /\ count[a] >= Limit[a]
             /\ late' = [late EXCEPT ![a] = @ + 1]
          \/ /\ ~(edit[u].to = "active" /\ Limit[a] # 0 /\ count[a] >= Limit[a])
             /\ late' = late
      BY <1>2, <2>5, Zenon DEF EditEnds
    <3> HIDE DEF a
    <3>3. /\ status'[a] = edit[u].to /\ late'[a] >= late[a]
          /\ status'[a] = "active" /\ Limit[a] # 0 => count[a] < Limit[a] + late'[a]
      BY <2>1, <2>3, <3>1, <3>2 DEF TypeOK
    <3>4. \A b \in Alerts : b # a => status'[b] = status[b] /\ late'[b] = late[b]
      BY <2>1, <3>1, <3>2 DEF TypeOK
    <3> QED
      BY <1>1, <2>1, <2>2, <2>3, <3>1, <3>3, <3>4, RowInv
  <2> QED
    BY <2>4, <2>5
<1>3. CASE \E a \in Alerts, to \in {"active", "paused"} : EditBegins(u, a, to)
  <2>1. UNCHANGED <<alertVars, frameVars>>
    BY <1>3 DEF EditBegins
  <2> QED
    BY <1>1, <2>1, RowInv DEF alertVars, TypeOK, Limited, Room
<1> QED
  BY <1>2, <1>3 DEF UserStep

LEMMA TimeInv ==
  ASSUME IInv, (\E a \in Alerts : AlertStep(a)) \/ Sweep PROVE IInv'
<1> USE DEF IInv
<1>1. TypeOK'
  BY TypeStep DEF Next
<1>2. \A b \in Alerts : /\ late[b] \in Nat /\ count[b] \in Nat /\ Limit[b] \in Nat
                        /\ status[b] = "active" /\ Limit[b] # 0 =>
                               count[b] < Limit[b] + late[b]
  BY DEF TypeOK, Limited, Room
<1>3. ASSUME NEW a \in Alerts, Delete(a) PROVE IInv'
  <2>1. /\ UNCHANGED <<frameVars, owner, recent, late>> /\ Free(a)
        /\ status'[a] = "deleted" /\ count'[a] = 0 /\ triggers'[a] = {}
    BY <1>3 DEF Delete, TypeOK
  <2>2. \A b \in Alerts : b # a => /\ status'[b] = status[b] /\ count'[b] = count[b]
                                   /\ triggers'[b] = triggers[b]
    BY <1>3 DEF Delete, TypeOK
  <2> QED
    BY <1>1, <1>2, <2>1, <2>2, RowInv
<1>4. ASSUME NEW a \in Alerts, Renew(a) \/ DatePasses(a) \/ CooldownEnds(a) PROVE IInv'
  <2>1. /\ UNCHANGED <<frameVars, owner, status, count, triggers, late>>
        /\ recent' \subseteq recent
    BY <1>4 DEF Renew, DatePasses, CooldownEnds
  <2> QED
    BY <1>1, <1>2, <2>1, RowInv
<1>5. CASE Sweep
  <2>1. UNCHANGED <<frameVars, owner, count, triggers, recent, late>>
    BY <1>5 DEF Sweep
  <2>2. \A b \in Alerts : \/ status'[b] = status[b]
                          \/ status[b] = "active" /\ status'[b] = "expired"
    BY <1>5 DEF Sweep
  <2> QED
    BY <1>1, <1>2, <2>1, <2>2, RowInv
<1> QED
  BY <1>3, <1>4, <1>5 DEF AlertStep

LEMMA IInvStep == IInv /\ [Next]_vars => IInv'
<1> SUFFICES ASSUME IInv, [Next]_vars PROVE IInv'
  OBVIOUS
<1>1. ASSUME NEW f \in Frames, FrameStep(f) PROVE IInv'
  BY <1>1, StartInv, LookInv, CommitInv DEF FrameStep
<1>2. ASSUME NEW l \in Persons, NEW w \in Persons, Merge(l, w) \/ Unmerge(l, w) PROVE IInv'
  BY <1>2, MergeInv
<1>3. ASSUME NEW u \in Users, UserStep(u) PROVE IInv'
  BY <1>3, EditInv
<1>4. CASE (\E a \in Alerts : AlertStep(a)) \/ Sweep
  BY <1>4, TimeInv
<1>5. CASE UNCHANGED vars
  <2>1. TypeOK'
    BY <1>5, TypeStep DEF IInv
  <2> QED
    BY <1>5, <2>1, RowInv DEF IInv, vars, alertVars, TypeOK, Limited, Room
<1> QED
  BY <1>1, <1>2, <1>3, <1>4, <1>5 DEF Next

LEMMA Invariance == Spec => []IInv
  BY IInvInit, IInvStep, PTL DEF Spec

-----------------------------------------------------------------------------
\* A count computed from a value read earlier loses no update: it is the number
\* of the alert's triggers.
THEOREM CountsStayExact == Spec => []CountsAreExact
<1>1. IInv => CountsAreExact
  BY DEF IInv
<1> QED
  BY <1>1, Invariance, PTL

\* An alert fires as often as its limit says, and once more for each resume
\* after that.
THEOREM LimitsHold == Spec => []FiresToItsLimit
<1>1. IInv => FiresToItsLimit
  BY DEF IInv, Limited, CountsAreExact, FiresToItsLimit
<1> QED
  BY <1>1, Invariance, PTL

\* No two frames fire an alert within its cooldown.
THEOREM CooldownsHold == Spec => CooldownHolds
<1> DEFINE Held == \A a \in Cooling : triggers'[a] \ triggers[a] # {} => a \notin recent
<1>1. ASSUME IInv, [Next]_vars PROVE Held
  <2> SUFFICES ASSUME NEW a \in Cooling, triggers'[a] \ triggers[a] # {}
               PROVE  a \notin recent
    OBVIOUS
  <2>1. a \in Alerts
    OBVIOUS
  <2>2. ASSUME NEW f \in Frames, Commit(f) PROVE a \notin recent
    <3>1. pc[f] = "holding" /\ a \in fired[f]
      BY <2>1, <2>2 DEF Commit
    <3> QED
      BY <1>1, <3>1, FiredIsOwn
  <2>3. ASSUME NEW b \in Alerts, Delete(b) PROVE FALSE
    BY <2>1, <2>3 DEF Delete, IInv, TypeOK
  <2>4. \/ \E f \in Frames : Commit(f)
        \/ \E b \in Alerts : Delete(b)
        \/ UNCHANGED triggers
    <3>1. ASSUME NEW f \in Frames, FrameStep(f), ~Commit(f) PROVE UNCHANGED triggers
      BY <3>1 DEF FrameStep, Begin, LockPeople, ReadAlerts, NextFace, Fire,
                  SavepointFails, Abort, alertVars
    <3>2. ASSUME NEW l \in Persons, NEW w \in Persons, Merge(l, w) \/ Unmerge(l, w)
          PROVE  UNCHANGED triggers
      BY <3>2 DEF Merge, Joined, Unmerge
    <3>3. ASSUME NEW u \in Users, UserStep(u) PROVE UNCHANGED triggers
      BY <3>3 DEF UserStep, EditEnds, EditBegins, alertVars
    <3>4. ASSUME NEW b \in Alerts, AlertStep(b), ~Delete(b) PROVE UNCHANGED triggers
      BY <3>4 DEF AlertStep, Renew, DatePasses, CooldownEnds
    <3>5. Sweep \/ UNCHANGED vars => UNCHANGED triggers
      BY DEF Sweep, vars, alertVars
    <3> QED
      BY <1>1, <3>1, <3>2, <3>3, <3>4, <3>5 DEF Next
  <2> QED
    BY <2>2, <2>3, <2>4
<1>2. IInv /\ [Next]_vars => Held
  BY <1>1
<1> QED
  BY <1>2, Invariance, PTL DEF Spec, CooldownHolds
=============================================================================
