----------------------------- MODULE BookingDocs -----------------------------
(***************************************************************************)
(* The documents that bookings.service.ts, admin.service.ts,               *)
(* payments.controller.ts, requests.service.ts and trips.service.ts share, *)
(* and, for every handler on a booking, the test it makes on the document  *)
(* it has read (Can...) and the edit it makes on that document before it   *)
(* saves it (Accepted, Countered, ...).  Lifecycle applies guard and edit  *)
(* in one step, Handlers applies them in the separate steps of the code.   *)
(***************************************************************************)
EXTENDS Integers, FiniteSets

CONSTANTS
  Users,          \* user accounts
  Requests,       \* ids of delivery requests that may be created
  OfferedTypes,   \* the types users choose from: bounds RequestTypes
  Trips,          \* ids of trips that may be created
  BookingIds,     \* ids of bookings that may be created: bounds the matches
  IntentIds,      \* Stripe PaymentIntents that may be created: bounds checkouts
  Requester,      \* requesterId of each request, never rewritten
  Traveler,       \* travelerId of each trip, never rewritten
  Fees,           \* fees a user may offer or counter, in hundredths of a cent
  RefundAmounts,  \* refund amounts an administrator may type: any number
  NoId            \* an unset optional reference or number

RequestTypes == {"standard", "support"}

ASSUME IdsAssumption ==
  /\ OfferedTypes \subseteq RequestTypes
  /\ Requester \in [Requests -> Users]
  /\ Traveler \in [Trips -> Users]
  /\ NoId \notin Users \cup Trips \cup IntentIds \cup RefundAmounts

\* The DTOs ask for a fee of at least one cent (0.01); ten percent of a fee is
\* a whole number of hundredths.  A refund may be any number.
ASSUME MoneyAssumption ==
  /\ \A fee \in Fees : fee \in Nat /\ fee >= 100 /\ fee % 10 = 0
  /\ RefundAmounts \subseteq Int

ASSUME BookingIdsAssumption == IsFiniteSet(BookingIds)

ASSUME IntentIdsAssumption == IsFiniteSet(IntentIds)

BookingStatuses ==
  {"pending_acceptance", "countered", "confirmed", "paid", "in_transit",
   "delivered", "completed", "cancelled", "disputed"}

RequestStatuses ==
  {"pending", "matched", "confirmed", "in_transit", "delivered", "completed",
   "cancelled"}

ApprovalStatuses == {"none", "approved", "rejected"}

TripStatuses == {"active", "completed", "cancelled"}

\* "absent" stands for an id under which no document has been created yet.
\* A fee of 0 stands for an unset fee.
Booking ==
  [status : BookingStatuses \cup {"absent"},
   requestId : Requests \cup {NoId},
   tripId : Trips \cup {NoId},
   offeredFee : Nat, counterFee : Nat, agreedFee : Nat,
   platformCommission : Nat, travelerPayout : Nat,
   paymentIntentId : IntentIds \cup {NoId},
   podSubmitted : BOOLEAN,
   cancelledBy : Users \cup {NoId},
   disputeRaisedBy : Users \cup {NoId},
   disputeResolved : BOOLEAN,
   refundAmount : Int]

Request ==
  [status : RequestStatuses \cup {"absent"},
   type : RequestTypes,
   matchedTripId : Trips \cup {NoId},
   adminApprovalStatus : ApprovalStatuses]

Trip ==
  [status : TripStatuses \cup {"absent"}, matchedRequestsCount : Nat]

\* A PaymentIntent at Stripe, in cents; metadata.bookingId is bookingId.
Intent ==
  [status : {"absent", "open", "succeeded"},
   bookingId : BookingIds \cup {NoId}, amount : Nat, refunded : Nat]

AbsentBooking ==
  [status |-> "absent", requestId |-> NoId, tripId |-> NoId,
   offeredFee |-> 0, counterFee |-> 0, agreedFee |-> 0,
   platformCommission |-> 0, travelerPayout |-> 0,
   paymentIntentId |-> NoId, podSubmitted |-> FALSE, cancelledBy |-> NoId,
   disputeRaisedBy |-> NoId, disputeResolved |-> FALSE, refundAmount |-> 0]

AbsentRequest ==
  [status |-> "absent", type |-> "standard", matchedTripId |-> NoId,
   adminApprovalStatus |-> "none"]

AbsentTrip == [status |-> "absent", matchedRequestsCount |-> 0]

AbsentIntent ==
  [status |-> "absent", bookingId |-> NoId, amount |-> 0, refunded |-> 0]

-----------------------------------------------------------------------------
(* Who is who on a booking: createMatch copies requesterId and travelerId   *)
(* from the request and the trip, and nothing rewrites them.                *)

RequesterOf(d) == Requester[d.requestId]

TravelerOf(d) == Traveler[d.tripId]

Parties(d) == {RequesterOf(d), TravelerOf(d)}

-----------------------------------------------------------------------------
(* createMatch *)

\* Mutant: the request's status is not tested.
RequestMatchable_AnyStatus(r, u, doc) ==
  u = Requester[r] /\ doc.status # "absent"

RequestMatchable(r, u, doc) == u = Requester[r] /\ doc.status = "pending"

TripMatchable(doc) == doc.status = "active"

\* Mutant: the query looks for accepted bookings only.
ExistingLink_AcceptedOnly(bookings, r, t) ==
  \E b \in BookingIds :
    /\ bookings[b].requestId = r
    /\ bookings[b].tripId = t
    /\ bookings[b].status \notin {"absent", "cancelled", "pending_acceptance", "countered"}

\* The query for a booking that already links the request and the trip.
ExistingLink(bookings, r, t) ==
  \E b \in BookingIds :
    /\ bookings[b].requestId = r
    /\ bookings[b].tripId = t
    /\ bookings[b].status \notin {"absent", "cancelled"}

NewBooking(r, t, fee) ==
  [AbsentBooking EXCEPT !.status = "pending_acceptance", !.requestId = r,
                        !.tripId = t, !.offeredFee = fee]

MatchedRequest(doc, t) ==
  [doc EXCEPT !.status = "matched", !.matchedTripId = t]

\* Mutant: the match is reverted to a status of trips.
RevertedRequest_Active(doc) ==
  [doc EXCEPT !.status = "active", !.matchedTripId = NoId]

\* revertMatch: $set status pending, $unset the match fields.
RevertedRequest(doc) ==
  [doc EXCEPT !.status = "pending", !.matchedTripId = NoId]

\* Mutant: no floor at 0.
Decremented_NoFloor(n) == n - 1

\* revertMatch: Math.max(0, count - 1).
Decremented(n) == IF n = 0 THEN 0 ELSE n - 1

-----------------------------------------------------------------------------
(* Guards and edits of the handlers that change an existing booking.  A      *)
(* booking that does not exist is in no status that a guard accepts.         *)

CommissionPct == 10

\* Mutant: the commission is taken of the fee first offered.
ApplyCommission_OnOffer(d, fee) ==
  [d EXCEPT !.agreedFee = fee,
            !.platformCommission = (d.offeredFee * CommissionPct) \div 100,
            !.travelerPayout = fee - ((d.offeredFee * CommissionPct) \div 100)]

ApplyCommission(d, fee) ==
  [d EXCEPT !.agreedFee = fee,
            !.platformCommission = (fee * CommissionPct) \div 100,
            !.travelerPayout = fee - ((fee * CommissionPct) \div 100)]

AcceptableStatuses == {"pending_acceptance", "countered"}

FeeOnAccept(d) == IF d.status = "countered" THEN d.counterFee ELSE d.offeredFee

CanAccept(d, u) ==
  /\ d.status \in AcceptableStatuses
  /\ u = TravelerOf(d)
  /\ FeeOnAccept(d) > 0

Accepted(d) ==
  [ApplyCommission(d, FeeOnAccept(d)) EXCEPT !.status = "confirmed"]

CanCounter(d, u) == d.status = "pending_acceptance" /\ u = TravelerOf(d)

Countered(d, fee) == [d EXCEPT !.counterFee = fee, !.status = "countered"]

CanDecline(d, u) == d.status \in AcceptableStatuses /\ u = TravelerOf(d)

Declined(d) == [d EXCEPT !.status = "cancelled", !.cancelledBy = TravelerOf(d)]

CanAcceptCounter(d, u) ==
  /\ d.status = "countered"
  /\ u = RequesterOf(d)
  /\ d.counterFee > 0

CounterAccepted(d) ==
  [ApplyCommission(d, d.counterFee) EXCEPT !.status = "confirmed"]

\* Mutant: a payment is recorded only over an earlier one.
CanMarkPaid_SecondOnly(d) == d.status = "confirmed" /\ d.paymentIntentId # NoId

\* Mutant: of two payments of a booking, the later is recorded over the earlier.
CanMarkPaid_Again(d) == d.status \in {"confirmed", "paid"}

\* markAsPaidFromWebhook returns silently in every other status: the second payment
\* captured for a booking is never recorded.
CanMarkPaid(d) == d.status = "confirmed"

Paid(d, i) == [d EXCEPT !.paymentIntentId = i, !.status = "paid"]

\* Mutant: an agreed booking may leave before it is paid.
CanMarkInTransit_Unpaid(d, u) ==
  d.status \in {"confirmed", "paid"} /\ u = TravelerOf(d)

CanMarkInTransit(d, u) == d.status = "paid" /\ u = TravelerOf(d)

InTransit(d) == [d EXCEPT !.status = "in_transit"]

\* The confirmation code is a secret of the booking: presenting the right one
\* is a choice of the caller, a wrong one changes nothing.
CanSubmitProof(d, u) == d.status = "in_transit" /\ u = TravelerOf(d)

Delivered(d) == [d EXCEPT !.podSubmitted = TRUE, !.status = "delivered"]

\* Mutant: the requester may complete before the proof of delivery.
CanComplete_Early(d, u) ==
  d.status \in {"in_transit", "delivered"} /\ u = RequesterOf(d)

CanComplete(d, u) == d.status = "delivered" /\ u = RequesterOf(d)

Completed(d) == [d EXCEPT !.status = "completed"]

DisputableStatuses == {"paid", "in_transit", "delivered"}

CanDispute(d, u) == d.status \in DisputableStatuses /\ u \in Parties(d)

Disputed(d, u) == [d EXCEPT !.status = "disputed", !.disputeRaisedBy = u]

\* Mutant: completed bookings may be cancelled.
CancellableStatuses_Completed ==
  {"pending_acceptance", "countered", "confirmed", "completed"}

CancellableStatuses == {"pending_acceptance", "countered", "confirmed"}

CanCancel(d, u) == d.status \in CancellableStatuses /\ u \in Parties(d)

Cancelled(d, u) == [d EXCEPT !.status = "cancelled", !.cancelledBy = u]

-----------------------------------------------------------------------------
(* resolveDispute *)

RefundResolutions == {"refund_requester", "partial_refund"}

Resolutions == RefundResolutions \cup {"release_traveler", "no_action"}

\* partial_refund must name an amount; in the others it is optional.
ResolutionArgs ==
  {a \in Resolutions \X (RefundAmounts \cup {NoId}) :
     a[1] = "partial_refund" => a[2] # NoId}

CanResolve(d) == d.status = "disputed"

\* Mutant: the refund on record is always the whole fee.
Resolved_WholeFee(d, resolution, amount) ==
  IF resolution \in RefundResolutions
  THEN [d EXCEPT !.disputeResolved = TRUE, !.status = "cancelled",
                 !.refundAmount = d.agreedFee]
  ELSE [d EXCEPT !.disputeResolved = TRUE, !.status = "completed"]

\* The booking edit.  amount is dto.refundAmount; agreedFee is set on every
\* booking that can be disputed, so the fallbacks end there.
Resolved(d, resolution, amount) ==
  IF resolution \in RefundResolutions
  THEN [d EXCEPT !.disputeResolved = TRUE, !.status = "cancelled",
                 !.refundAmount = IF amount = NoId THEN d.agreedFee ELSE amount]
  ELSE [d EXCEPT !.disputeResolved = TRUE, !.status = "completed"]

\* Stripe is called only for a refund of a booking that has a PaymentIntent.
CallsStripe(d, resolution) ==
  resolution \in RefundResolutions /\ d.paymentIntentId # NoId

\* Math.round(amount * 100): hundredths of a cent to the nearest cent, half up.
Cents(amount) == (amount + 50) \div 100

\* What Stripe refunds: the amount given, or all that is left.
RefundDue(pi, amount) ==
  IF amount = NoId THEN pi.amount - pi.refunded ELSE Cents(amount)

\* Stripe refuses a refund that is not positive or exceeds what is left.
StripeAccepts(pi, amount) ==
  RefundDue(pi, amount) \in 1 .. (pi.amount - pi.refunded)

Refunded(pi, amount) == [pi EXCEPT !.refunded = @ + RefundDue(pi, amount)]

-----------------------------------------------------------------------------
(* Payments *)

CanCreateIntent(d, u) == d.status = "confirmed" /\ u = RequesterOf(d)

NewIntent(b, fee) ==
  [status |-> "open", bookingId |-> b, amount |-> Cents(fee), refunded |-> 0]

Succeeded(pi) == [pi EXCEPT !.status = "succeeded"]

-----------------------------------------------------------------------------
(* Requests and trips *)

NewRequest(type) ==
  [AbsentRequest EXCEPT !.status = "pending", !.type = type]

\* Of all that an edit may change, the type is what other handlers look at.
CanUpdateRequest(r, u, doc) == u = Requester[r] /\ doc.status = "pending"

CanModerate(doc) == doc.status # "absent" /\ doc.type = "support"

CanCancelRequest(r, u, doc) ==
  u = Requester[r] /\ doc.status \in {"pending", "matched"}

RejectedRequest(doc) ==
  [doc EXCEPT !.status = "cancelled", !.adminApprovalStatus = "rejected"]

CanCancelTrip(t, u, doc) ==
  u = Traveler[t] /\ doc.status = "active"

\* Mutant: one completed booking is enough.
TripDone_Some(bookings, t) ==
  \E b \in BookingIds : bookings[b].tripId = t /\ bookings[b].status = "completed"

\* maybeCompleteTrip: the bookings found for the trip, cancelled ones left out,
\* are some and all completed.
TripDone(bookings, t) ==
  LET relevant == {b \in BookingIds : /\ bookings[b].tripId = t
                                      /\ bookings[b].status \notin {"absent", "cancelled"}}
  IN /\ relevant # {}
     /\ \A b \in relevant : bookings[b].status = "completed"

=============================================================================
