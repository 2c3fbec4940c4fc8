------------------------------ MODULE MCProfiles ------------------------------
(***************************************************************************)
(* Small instances of Profiles.                                            *)
(***************************************************************************)
EXTENDS Profiles, TLC

Symmetry == Permutations(Files) \cup Permutations(CallIds) \cup Permutations(Emails)

=============================================================================
