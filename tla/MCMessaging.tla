----------------------------- MODULE MCMessaging -----------------------------
(***************************************************************************)
(* Small instances of Messaging.                                           *)
(***************************************************************************)
EXTENDS Messaging, TLC

Symmetry == Permutations(Parties) \cup Permutations(CallIds)

=============================================================================
