------------------------------- MODULE MCAuth -------------------------------
(***************************************************************************)
(* Instances of Auth for model checking.                                   *)
(***************************************************************************)
EXTENDS Auth, TLC

\* Nothing tells the elements of these sets apart.
Symmetry ==
  Permutations(Users) \cup Permutations(Emails) \cup Permutations(Passwords)
    \cup Permutations(Sessions) \cup Permutations(Hashes) \cup Permutations(Handlers)

=============================================================================
