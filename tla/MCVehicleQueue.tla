--------------------------- MODULE MCVehicleQueue ---------------------------
(* Small instances of VehicleQueue for TLC. *)
EXTENDS VehicleQueue, TLC

CONSTANTS first, again, car, truck, ann, w1, w2, p1

\* The repeated delivery sees one more vehicle in the frame.
Repeated == (first :> {car}) @@ (again :> {car, truck})
OneEvent == (first :> 1) @@ (again :> 1)
=============================================================================
