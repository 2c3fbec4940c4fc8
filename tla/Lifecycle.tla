------------------------------ MODULE Lifecycle ------------------------------
(***************************************************************************)
(* The life of requests, trips, bookings and their payments when every     *)
(* HTTP handler runs alone from its first read to its last write: one      *)
(* action per handler, with all the documents the handler writes.          *)
(* Handlers.tla splits the same handlers at their awaits and is shown to   *)
(* implement this specification as long as calls do not overlap.           *)
(***************************************************************************)
EXTENDS BookingDocs

VARIABLES
  requests,  \* the requests collection
  trips,     \* the trips collection
  bookings,  \* the bookings collection
  intents    \* PaymentIntents, kept by Stripe

vars == <<requests, trips, bookings, intents>>

TypeOK ==
  /\ requests \in [Requests -> Request]
  /\ trips \in [Trips -> Trip]
  /\ bookings \in [BookingIds -> Booking]
  /\ intents \in [IntentIds -> Intent]

Init ==
  /\ requests = [r \in Requests |-> AbsentRequest]
  /\ trips = [t \in Trips |-> AbsentTrip]
  /\ bookings = [b \in BookingIds |-> AbsentBooking]
  /\ intents = [i \in IntentIds |-> AbsentIntent]

-----------------------------------------------------------------------------
(* Requests and trips *)

CreateRequest(r, type) ==
  /\ requests[r].status = "absent"
  /\ requests' = [requests EXCEPT ![r] = NewRequest(type)]
  /\ UNCHANGED <<trips, bookings, intents>>

UpdateRequest(u, r, type) ==
  /\ CanUpdateRequest(r, u, requests[r])
  /\ requests' = [requests EXCEPT ![r].type = type]
  /\ UNCHANGED <<trips, bookings, intents>>

CancelRequest(u, r) ==
  /\ CanCancelRequest(r, u, requests[r])
  /\ requests' = [requests EXCEPT ![r].status = "cancelled"]
  /\ UNCHANGED <<trips, bookings, intents>>

ApproveSupportRequest(r) ==
  /\ CanModerate(requests[r])
  /\ requests' = [requests EXCEPT ![r].adminApprovalStatus = "approved"]
  /\ UNCHANGED <<trips, bookings, intents>>

\* Whatever the request's status was; its bookings are left alone.
RejectSupportRequest(r) ==
  /\ CanModerate(requests[r])
  /\ requests' = [requests EXCEPT ![r] = RejectedRequest(@)]
  /\ UNCHANGED <<trips, bookings, intents>>

CreateTrip(t) ==
  /\ trips[t].status = "absent"
  /\ trips' = [trips EXCEPT ![t].status = "active"]
  /\ UNCHANGED <<requests, bookings, intents>>

\* The bookings on the trip are left alone.
CancelTrip(u, t) ==
  /\ CanCancelTrip(t, u, trips[t])
  /\ trips' = [trips EXCEPT ![t].status = "cancelled"]
  /\ UNCHANGED <<requests, bookings, intents>>

-----------------------------------------------------------------------------
(* Bookings *)

CreateMatch(u, b, r, t, fee) ==
  /\ bookings[b].status = "absent"
  /\ RequestMatchable(r, u, requests[r])
  /\ TripMatchable(trips[t])
  /\ ~ExistingLink(bookings, r, t)
  /\ bookings' = [bookings EXCEPT ![b] = NewBooking(r, t, fee)]
  /\ requests' = [requests EXCEPT ![r] = MatchedRequest(@, t)]
  /\ trips' = [trips EXCEPT ![t].matchedRequestsCount = @ + 1]
  /\ UNCHANGED intents

\* Mutant: the request is not written.
SaveAndSetRequest_BookingOnly(b, doc, status) ==
  /\ bookings' = [bookings EXCEPT ![b] = doc]
  /\ UNCHANGED requests

\* The tail shared by most handlers: booking.save() and a status written to
\* the request of the booking.
SaveAndSetRequest(b, doc, status) ==
  /\ bookings' = [bookings EXCEPT ![b] = doc]
  /\ requests' = [requests EXCEPT ![doc.requestId].status = status]

\* Mutant: the trip keeps counting the match.
RevertMatch_NoDecrement(r, t) ==
  /\ requests' = [requests EXCEPT ![r] = RevertedRequest(@)]
  /\ UNCHANGED trips

RevertMatch(r, t) ==
  /\ requests' = [requests EXCEPT ![r] = RevertedRequest(@)]
  /\ trips' = [trips EXCEPT ![t].matchedRequestsCount = Decremented(@)]

AcceptBooking(u, b) ==
  /\ CanAccept(bookings[b], u)
  /\ SaveAndSetRequest(b, Accepted(bookings[b]), "confirmed")
  /\ UNCHANGED <<trips, intents>>

CounterOffer(u, b, fee) ==
  /\ CanCounter(bookings[b], u)
  /\ bookings' = [bookings EXCEPT ![b] = Countered(@, fee)]
  /\ UNCHANGED <<requests, trips, intents>>

DeclineBooking(u, b) ==
  /\ CanDecline(bookings[b], u)
  /\ bookings' = [bookings EXCEPT ![b] = Declined(@)]
  /\ RevertMatch(bookings[b].requestId, bookings[b].tripId)
  /\ UNCHANGED intents

AcceptCounter(u, b) ==
  /\ CanAcceptCounter(bookings[b], u)
  /\ SaveAndSetRequest(b, CounterAccepted(bookings[b]), "confirmed")
  /\ UNCHANGED <<trips, intents>>

MarkInTransit(u, b) ==
  /\ CanMarkInTransit(bookings[b], u)
  /\ SaveAndSetRequest(b, InTransit(bookings[b]), "in_transit")
  /\ UNCHANGED <<trips, intents>>

SubmitProofOfDelivery(u, b) ==
  /\ CanSubmitProof(bookings[b], u)
  /\ SaveAndSetRequest(b, Delivered(bookings[b]), "delivered")
  /\ UNCHANGED <<trips, intents>>

\* maybeCompleteTrip completes the trip whatever status the trip has.
MaybeCompleteTrip(t) ==
  trips' = IF TripDone(bookings', t)
           THEN [trips EXCEPT ![t].status = "completed"]
           ELSE trips

CompleteBooking(u, b) ==
  /\ CanComplete(bookings[b], u)
  /\ SaveAndSetRequest(b, Completed(bookings[b]), "completed")
  /\ MaybeCompleteTrip(bookings[b].tripId)
  /\ UNCHANGED intents

RaiseDispute(u, b) ==
  /\ CanDispute(bookings[b], u)
  /\ bookings' = [bookings EXCEPT ![b] = Disputed(@, u)]
  /\ UNCHANGED <<requests, trips, intents>>

CancelBooking(u, b) ==
  /\ CanCancel(bookings[b], u)
  /\ bookings' = [bookings EXCEPT ![b] = Cancelled(@, u)]
  /\ RevertMatch(bookings[b].requestId, bookings[b].tripId)
  /\ UNCHANGED intents

\* A refund Stripe refuses fails the call before anything is saved.  Neither
\* the request nor the trip is written.
ResolveDispute(b, resolution, amount) ==
  /\ CanResolve(bookings[b])
  /\ IF CallsStripe(bookings[b], resolution)
     THEN LET i == bookings[b].paymentIntentId
          IN /\ StripeAccepts(intents[i], amount)
             /\ intents' = [intents EXCEPT ![i] = Refunded(@, amount)]
     ELSE UNCHANGED intents
  /\ bookings' = [bookings EXCEPT ![b] = Resolved(@, resolution, amount)]
  /\ UNCHANGED <<requests, trips>>

-----------------------------------------------------------------------------
(* Payments *)

\* Mutant: the intent is made for the fee first offered.
CreateIntent_OfferedFee(u, b, i) ==
  /\ intents[i].status = "absent"
  /\ CanCreateIntent(bookings[b], u)
  /\ intents' = [intents EXCEPT ![i] = NewIntent(b, bookings[b].offeredFee)]
  /\ UNCHANGED <<requests, trips, bookings>>

\* Each call makes a new PaymentIntent at Stripe; the booking is not written.
CreateIntent(u, b, i) ==
  /\ intents[i].status = "absent"
  /\ CanCreateIntent(bookings[b], u)
  /\ intents' = [intents EXCEPT ![i] = NewIntent(b, bookings[b].agreedFee)]
  /\ UNCHANGED <<requests, trips, bookings>>

\* The requester pays an open PaymentIntent in the browser, at any later time.
CapturePayment(i) ==
  /\ intents[i].status = "open"
  /\ intents' = [intents EXCEPT ![i] = Succeeded(@)]
  /\ UNCHANGED <<requests, trips, bookings>>

MarkAsPaid(b, i) ==
  /\ CanMarkPaid(bookings[b])
  /\ bookings' = [bookings EXCEPT ![b] = Paid(@, i)]
  /\ UNCHANGED <<requests, trips, intents>>

\* Stripe delivers payment_intent.succeeded, as often as it likes.
HandleWebhook(i) ==
  /\ intents[i].status = "succeeded"
  /\ MarkAsPaid(intents[i].bookingId, i)

\* The client reports the success itself; only the requester may.
ConfirmPayment(u, i) ==
  /\ intents[i].status = "succeeded"
  /\ u = RequesterOf(bookings[intents[i].bookingId])
  /\ MarkAsPaid(intents[i].bookingId, i)

-----------------------------------------------------------------------------

RequestNext ==
  \E r \in Requests :
    \/ \E type \in OfferedTypes : CreateRequest(r, type)
    \/ ApproveSupportRequest(r)
    \/ RejectSupportRequest(r)
    \/ \E u \in Users :
         \/ \E type \in OfferedTypes : UpdateRequest(u, r, type)
         \/ CancelRequest(u, r)

TripNext ==
  \E t \in Trips :
    \/ CreateTrip(t)
    \/ \E u \in Users : CancelTrip(u, t)

BookingNext ==
  \E b \in BookingIds, u \in Users :
    \/ \E r \in Requests, t \in Trips, fee \in Fees : CreateMatch(u, b, r, t, fee)
    \/ AcceptBooking(u, b)
    \/ \E fee \in Fees : CounterOffer(u, b, fee)
    \/ DeclineBooking(u, b)
    \/ AcceptCounter(u, b)
    \/ MarkInTransit(u, b)
    \/ SubmitProofOfDelivery(u, b)
    \/ CompleteBooking(u, b)
    \/ RaiseDispute(u, b)
    \/ CancelBooking(u, b)

ResolveNext ==
  \E b \in BookingIds, a \in ResolutionArgs : ResolveDispute(b, a[1], a[2])

PaymentNext ==
  \E i \in IntentIds :
    \/ \E u \in Users, b \in BookingIds : CreateIntent(u, b, i)
    \/ CapturePayment(i)
    \/ HandleWebhook(i)
    \/ \E u \in Users : ConfirmPayment(u, i)

Next == RequestNext \/ TripNext \/ BookingNext \/ ResolveNext \/ PaymentNext

Spec == Init /\ [][Next]_vars

-----------------------------------------------------------------------------
(* What one-at-a-time handlers guarantee.                                   *)

\* A booking stands as long as it exists and is not cancelled.
Live(b) == bookings[b].status \notin {"absent", "cancelled"}

LiveOf(r) == {b \in BookingIds : Live(b) /\ bookings[b].requestId = r}

\* A request has at most one standing booking, although createMatch only looks
\* for an earlier booking of the same request on the same trip: it relies on the
\* request's status having followed every booking of it.
OneLiveBooking ==
  \A r \in Requests : \A b1, b2 \in LiveOf(r) : b1 = b2

\* The request statuses that go with a standing booking's status.  A dispute and
\* its resolution leave the request where it was.
Tracked(status) ==
  CASE status \in {"pending_acceptance", "countered"} -> {"matched"}
    [] status \in {"confirmed", "paid"} -> {"confirmed"}
    [] status = "in_transit" -> {"in_transit"}
    [] status = "delivered" -> {"delivered"}
    [] status = "disputed" -> {"confirmed", "in_transit", "delivered"}
    [] OTHER -> {"confirmed", "in_transit", "delivered", "completed"}

\* The request of a standing booking names the booking's trip as its match and
\* has the status of the booking, or was cancelled over its head (cancelRequest
\* and rejectSupportRequest do not look at bookings).
RequestTracksBooking ==
  \A b \in BookingIds : Live(b) =>
    LET request == requests[bookings[b].requestId]
    IN /\ request.matchedTripId = bookings[b].tripId
       /\ request.status \in Tracked(bookings[b].status) \cup {"cancelled"}

\* matchedRequestsCount counts the bookings of the trip that nobody declined or
\* cancelled; a booking cancelled by a dispute's refund is still counted.
TripCountsItsMatches ==
  \A t \in Trips :
    trips[t].matchedRequestsCount =
      Cardinality({b \in BookingIds : /\ bookings[b].tripId = t
                                      /\ bookings[b].cancelledBy = NoId})

\* Nothing is under way on a trip that maybeCompleteTrip has completed, also
\* after later matches, cancellations and disputes.
CompletedTripIsDone ==
  \A b \in BookingIds :
    Live(b) /\ trips[bookings[b].tripId].status = "completed"
      => bookings[b].status = "completed"

FundedStatuses == {"paid", "in_transit", "delivered", "disputed", "completed"}

\* No step of a delivery, and no dispute, is reached without a captured payment
\* made for this very booking, of the fee the two sides agreed on to the cent,
\* and commission and payout share that fee out.
DeliveryIsFunded ==
  \A b \in BookingIds : bookings[b].status \in FundedStatuses =>
    LET d == bookings[b]
    IN /\ d.paymentIntentId # NoId
       /\ intents[d.paymentIntentId].status = "succeeded"
       /\ intents[d.paymentIntentId].bookingId = b
       /\ intents[d.paymentIntentId].amount = Cents(d.agreedFee)
       /\ d.platformCommission + d.travelerPayout = d.agreedFee

\* What the booking says was refunded is what Stripe gave back, to the cent and at
\* most what was captured; nothing is given back on a booking that completes.
RefundsAgreeWithStripe ==
  \A b \in BookingIds :
    LET d == bookings[b]
    IN d.paymentIntentId # NoId =>
         /\ intents[d.paymentIntentId].refunded = Cents(d.refundAmount)
         /\ Cents(d.refundAmount) \in 0 .. intents[d.paymentIntentId].amount
         /\ d.status # "cancelled" => d.refundAmount = 0

\* A cancelled or completed booking never changes again, whatever is called,
\* delivered or retried afterwards.
ClosedBookingsFrozen ==
  [][\A b \in BookingIds :
       bookings[b].status \in {"cancelled", "completed"}
         => bookings'[b] = bookings[b]]_vars

\* What has become of a captured payment.  One that its booking does not record,
\* because another payment came first or the booking was cancelled, stays collected.
EscrowState(i) ==
  LET d == bookings[intents[i].bookingId]
  IN IF d.paymentIntentId # i THEN "collected"
     ELSE CASE d.status = "completed" -> "released"
            [] d.status = "cancelled" -> "returned"
            [] OTHER -> "held"

EscrowAccount(i) ==
  IF intents[i].status = "succeeded"
  THEN [state |-> EscrowState(i), item |-> intents[i].bookingId,
        amount |-> intents[i].amount, returned |-> intents[i].refunded]
  ELSE [state |-> "none", item |-> NoId, amount |-> 0, returned |-> 0]

escrow == [i \in IntentIds |-> EscrowAccount(i)]

E == INSTANCE Escrow WITH Payments <- IntentIds, Items <- BookingIds, NoItem <- NoId

\* Every payment that Stripe captures goes through Escrow: one at most is credited to
\* its booking and then released in full or given back; a second one of the booking,
\* or one that comes too late, is kept by Stripe, neither released nor given back.
ImplementsEscrow == E!Spec

=============================================================================
