-------------------------- MODULE HandlersRefinement --------------------------
(***************************************************************************)
(* With no two calls in flight together and none failing, the step-by-step *)
(* handlers of Handlers do exactly what the one-step handlers of Lifecycle *)
(* do.  A call takes effect at its first write; the collections that       *)
(* Lifecycle sees are those of Handlers with the writes the call still     *)
(* owes already made.                                                      *)
(***************************************************************************)
EXTENDS Handlers

\* The one call that can be in flight.
Call1 == calls[CHOOSE c \in CallIds : TRUE]

RequestsSettled ==
  IF Call1.pc = "request"
  THEN [requests EXCEPT ![Call1.r] = RequestAfter(@, Call1)]
  ELSE requests

TripsSettled ==
  CASE Call1.op = "match" /\ Call1.pc \in {"request", "incTrip"} ->
         [trips EXCEPT ![Call1.t].matchedRequestsCount = @ + 1]
    [] Call1.op \in RevertingOps /\ Call1.pc \in {"request", "findTrip", "saveTrip"} ->
         [trips EXCEPT ![Call1.t].matchedRequestsCount = Decremented(@)]
    [] Call1.op = "complete" /\ Call1.pc \in {"request", "findBookings", "closeTrip"} ->
         IF TripDone(bookings, Call1.t)
         THEN [trips EXCEPT ![Call1.t].status = "completed"]
         ELSE trips
    [] OTHER -> trips

\* A refund is the first write of the resolution it belongs to.
BookingsSettled ==
  IF /\ Call1.op = "resolve"
     /\ Call1.pc = "save"
     /\ Call1.new.status = "cancelled"
  THEN [bookings EXCEPT ![Call1.b] = Merge(@, Call1.old, Call1.new)]
  ELSE bookings

L == INSTANCE Lifecycle
       WITH requests <- RequestsSettled, trips <- TripsSettled,
            bookings <- BookingsSettled

\* Every handler, run alone and to its end, is the handler of Lifecycle.
ImplementsLifecycle == L!Spec

=============================================================================
