---------------------------- MODULE MCLifecycle ----------------------------
(***************************************************************************)
(* Small instances of Lifecycle, and of the reports about it: one sender,  *)
(* one traveler, a bystander.                                              *)
(***************************************************************************)
EXTENDS Reports, TLC

CONSTANTS sender, carrier, bystander

MCUsers == {sender, carrier, bystander}
MCRequester == [r \in Requests |-> sender]
MCTraveler == [t \in Trips |-> carrier]
\* 12.5 cents: charged as 13, commission 1.25.
MCFees == {1250, 2000}
MCSingleFee == {1250}
\* -5 cents is refused, 8.5 cents is refunded as 9.
MCRefundAmounts == {-500, 850}

Symmetry == Permutations(Requests) \cup Permutations(Trips)
              \cup Permutations(BookingIds) \cup Permutations(IntentIds)

=============================================================================
