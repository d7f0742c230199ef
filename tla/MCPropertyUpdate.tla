--------------------------- MODULE MCPropertyUpdate ---------------------------
(* Bodies for the run of PropertyUpdate: everything, a unit alone, tags alone. *)
EXTENDS PropertyUpdate

CONSTANTS a, b, n1, n2

MCBodies ==
  {[units |-> {n1, n2}, images |-> TRUE, tags |-> TRUE, address |-> TRUE],
   [units |-> {n1}, images |-> FALSE, tags |-> FALSE, address |-> FALSE],
   [units |-> {}, images |-> FALSE, tags |-> TRUE, address |-> TRUE]}
=============================================================================
