--------------------------- MODULE MCAdministration ---------------------------
(* Model values for Administration. *)
EXTENDS Administration, TLC

CONSTANTS u1, p1, p2, r1, r2, r3, h1, h2

Symmetry == Permutations(Handlers) \cup Permutations(Rows) \cup Permutations(Passwords)
=============================================================================
