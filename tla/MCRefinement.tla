---------------------------- MODULE MCRefinement ----------------------------
(***************************************************************************)
(* A small instance of HandlersRefinement: one call in flight at a time.   *)
(***************************************************************************)
EXTENDS HandlersRefinement, TLC

CONSTANTS sender, carrier

MCUsers == {sender, carrier}
MCRequester == [r \in Requests |-> sender]
MCTraveler == [t \in Trips |-> carrier]
\* 12.5 cents: charged as 13, commission 1.25.
MCFees == {1250, 2000}
MCRefundAmounts == {850}

=============================================================================
