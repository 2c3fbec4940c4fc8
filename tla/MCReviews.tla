------------------------------ MODULE MCReviews ------------------------------
(***************************************************************************)
(* Small instances of Reviews: senders who all booked one carrier.         *)
(***************************************************************************)
EXTENDS Reviews, TLC

CONSTANTS sender, carrier

MCUsers == {sender, carrier}
MCRequester == [b \in Bookings |-> sender]
MCTraveler == [b \in Bookings |-> carrier]
\* Three of them have an average that must be rounded.
MCRatings == {1, 5}

Symmetry == Permutations(Bookings) \cup Permutations(CallIds)

=============================================================================
