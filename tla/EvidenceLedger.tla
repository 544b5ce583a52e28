--------------------------- MODULE EvidenceLedger ---------------------------
(***************************************************************************)
(* What the detection evidence path promises for each processed frame,     *)
(* whatever restarts, retries and failures happen underneath:              *)
(*   - a frame that was accepted for durable writing stays pending until   *)
(*     its evidence is recorded or it is set aside as invalid;             *)
(*   - evidence is recorded at most once, never for a frame set aside, and *)
(*     a recorded frame is never set aside;                                *)
(*   - subscribers hear of a frame only after it is recorded, and at most  *)
(*     once on each channel.                                               *)
(***************************************************************************)
EXTENDS Naturals

CONSTANT Frames

VARIABLES
    pending,        \* frames accepted, not settled
    recorded,       \* frames with a detection row
    quarantined,    \* frames set aside for diagnosis
    published,      \* times the appearance of each frame was published
    alerted         \* times the alerts of each frame were broadcast

ledgerVars == <<pending, recorded, quarantined, published, alerted>>

LedgerInit ==
    /\ pending = {}
    /\ recorded = {}
    /\ quarantined = {}
    /\ published = [f \in Frames |-> 0]
    /\ alerted = [f \in Frames |-> 0]

\* A frame becomes durable work.
Accept(f) ==
    /\ f \notin pending \cup recorded \cup quarantined
    /\ pending' = pending \cup {f}
    /\ UNCHANGED <<recorded, quarantined, published, alerted>>

\* The one transaction that records the evidence of f.
RecordEvidence(f) ==
    /\ f \notin recorded \cup quarantined
    /\ recorded' = recorded \cup {f}
    /\ UNCHANGED <<pending, quarantined, published, alerted>>

\* Accepted work is dropped only when its evidence is recorded ...
Settle(f) ==
    /\ f \in pending \cap recorded
    /\ pending' = pending \ {f}
    /\ UNCHANGED <<recorded, quarantined, published, alerted>>

\* ... or when it is set aside as invalid, never having been recorded.
SetAside(f) ==
    /\ f \in pending \ recorded
    /\ pending' = pending \ {f}
    /\ quarantined' = quarantined \cup {f}
    /\ UNCHANGED <<recorded, published, alerted>>

Announce(f) ==
    /\ f \in recorded
    /\ published[f] = 0
    /\ published' = [published EXCEPT ![f] = 1]
    /\ UNCHANGED <<pending, recorded, quarantined, alerted>>

Alert(f) ==
    /\ f \in recorded
    /\ alerted[f] = 0
    /\ alerted' = [alerted EXCEPT ![f] = 1]
    /\ UNCHANGED <<pending, recorded, quarantined, published>>

LedgerNext ==
    \E f \in Frames :
        \/ Accept(f) \/ RecordEvidence(f) \/ Settle(f)
        \/ SetAside(f) \/ Announce(f) \/ Alert(f)

LedgerSpec == LedgerInit /\ [][LedgerNext]_ledgerVars
=============================================================================
