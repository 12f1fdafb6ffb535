----------------------------- MODULE MCTemplates -----------------------------
(* Model values for Templates. *)
EXTENDS Templates

CONSTANTS t1, u1, admin, n1, n2, k1

\* One body that leaves the visibility out, and one each that makes public and
\* private, the latter without a name; the empty body cannot be mapped.
MCBodies ==
  {[name |-> n2, channels |-> k1, public |-> None],
   [name |-> None, channels |-> k1, public |-> FALSE],
   [name |-> n1, channels |-> k1, public |-> TRUE]}
=============================================================================
