--------------------------- MODULE MCNotifications ---------------------------
(* Model values for Notifications. *)
EXTENDS Notifications

CONSTANTS u1, admin, n1
=============================================================================
