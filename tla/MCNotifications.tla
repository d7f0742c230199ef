--------------------------- MODULE MCNotifications ---------------------------
(* An administrator and a manager of properties. *)
EXTENDS Notifications

CONSTANTS e1, ada, max
=============================================================================
