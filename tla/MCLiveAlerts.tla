---------------------------- MODULE MCLiveAlerts ----------------------------
(* Small instances of LiveAlerts for TLC. *)
EXTENDS LiveAlerts, TLC

CONSTANTS known, unknown, once, often, f1, f2, f3, ann

\* Both alerts watch the known person; the unknown one is merged into her.
Watched == (once :> known) @@ (often :> unknown)
Seen == (f1 :> <<known>>) @@ (f2 :> <<unknown>>) @@ (f3 :> <<known, unknown>>)
Limits == (once :> 1) @@ (often :> 0)
Pairs == {<<unknown, known>>}
=============================================================================
