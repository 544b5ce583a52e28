-------------------------- MODULE MCWebhookIntake --------------------------
(* Small instances of WebhookIntake for TLC. *)
EXTENDS WebhookIntake, TLC

CONSTANTS a1, a2, b, c, d, ea, eb, m1, m2, m3, m4, m5, p1

\* Event ea is sent twice with feedback and once without images, event eb
\* with two images and, with feedback, with one.
Event == (a1 :> ea) @@ (a2 :> ea) @@ (b :> eb) @@ (d :> ea) @@ (c :> eb)
Payload == (a1 :> <<m1>>) @@ (a2 :> <<m2>>) @@ (b :> <<m3, m4>>) @@ (d :> <<>>)
           @@ (c :> <<m5>>)
Camera == (a1 :> p1) @@ (a2 :> p1) @@ (b :> p1) @@ (d :> p1) @@ (c :> p1)
=============================================================================
