----------------------------- MODULE MCHandlers -----------------------------
(***************************************************************************)
(* Small instances of Handlers: one sender, one traveler.                  *)
(***************************************************************************)
EXTENDS Handlers, TLC

CONSTANTS sender, carrier

MCUsers == {sender, carrier}
MCRequester == [r \in Requests |-> sender]
MCTraveler == [t \in Trips |-> carrier]
\* 12.5 cents: charged as 13, commission 1.25.
MCFees == {1250, 2000}
MCSingleFee == {1250}

Symmetry == Permutations(Trips) \cup Permutations(BookingIds)
              \cup Permutations(IntentIds) \cup Permutations(CallIds)

=============================================================================
