--------------------------- MODULE LifecycleProofs ---------------------------
(***************************************************************************)
(* Theorems about Lifecycle and Reports, for any users, requests, trips,   *)
(* bookings, PaymentIntents, fees and thresholds: first the bookings,      *)
(* requests and trips, then the money (what a booking says, what Stripe    *)
(* holds, and what Escrow promises), then what users and administrators    *)
(* are shown of it all.                                                    *)
(***************************************************************************)
EXTENDS Reports, FiniteSums, FiniteSetTheorems, TLAPS

-----------------------------------------------------------------------------
(* What the guards and edits of BookingDocs return.                         *)

\* A booking that exists refers to a request and a trip.
WellFormed(d) ==
  /\ d \in Booking
  /\ d.status # "absent" => d.requestId \in Requests /\ d.tripId \in Trips
  /\ d.status = "absent" => d = AbsentBooking

\* An edit keeps what createMatch fixed.
SameLink(d, e) == e.requestId = d.requestId /\ e.tripId = d.tripId

LEMMA AbsentTypes ==
  /\ AbsentBooking \in Booking
  /\ AbsentRequest \in Request
  /\ AbsentTrip \in Trip
  /\ AbsentIntent \in Intent
  BY DEF AbsentBooking, AbsentRequest, AbsentTrip, AbsentIntent, Booking,
         Request, RequestTypes, Trip, Intent, ApprovalStatuses

\* Math.round(amount * 100) of a fee is a positive number of cents.
LEMMA CentsType ==
  /\ Cents(0) = 0
  /\ \A n \in Nat : Cents(n) \in Nat
  /\ \A n \in Nat : n >= 100 => Cents(n) > 0
  BY DEF Cents

LEMMA NewRequestType ==
  ASSUME NEW type \in OfferedTypes
  PROVE  /\ NewRequest(type) \in Request
         /\ NewRequest(type).status = "pending"
  <1>1. type \in RequestTypes
    BY IdsAssumption
  <1> QED
    BY <1>1, AbsentTypes DEF NewRequest, Request, RequestStatuses

LEMMA NewBookingType ==
  ASSUME NEW r \in Requests, NEW t \in Trips, NEW fee \in Fees
  PROVE  /\ WellFormed(NewBooking(r, t, fee))
         /\ NewBooking(r, t, fee).status = "pending_acceptance"
         /\ NewBooking(r, t, fee).requestId = r
         /\ NewBooking(r, t, fee).tripId = t
  BY AbsentTypes, MoneyAssumption DEF NewBooking, WellFormed, Booking, BookingStatuses

LEMMA CommissionType ==
  ASSUME NEW d \in Booking, NEW fee \in Nat
  PROVE  /\ ApplyCommission(d, fee) \in Booking
         /\ SameLink(d, ApplyCommission(d, fee))
         /\ ApplyCommission(d, fee).agreedFee = fee
         /\ ApplyCommission(d, fee).platformCommission
              + ApplyCommission(d, fee).travelerPayout = fee
  <1> DEFINE c == (fee * CommissionPct) \div 100
             p == fee - c
  <1>1. c \in Nat /\ p \in Nat /\ c + p = fee
    BY DEF CommissionPct
  <1>2. ApplyCommission(d, fee) = [d EXCEPT !.agreedFee = fee,
                                            !.platformCommission = c,
                                            !.travelerPayout = p]
    BY DEF ApplyCommission
  <1> HIDE DEF c, p
  <1> QED
    BY <1>1, <1>2 DEF SameLink, Booking

LEMMA AcceptedType ==
  ASSUME NEW d, WellFormed(d), d.status # "absent"
  PROVE  /\ WellFormed(Accepted(d))
         /\ SameLink(d, Accepted(d))
         /\ Accepted(d).status = "confirmed"
         /\ Accepted(d).agreedFee = FeeOnAccept(d)
  <1>1. FeeOnAccept(d) \in Nat
    BY DEF WellFormed, Booking, FeeOnAccept
  <1> DEFINE e == ApplyCommission(d, FeeOnAccept(d))
  <1>2. e \in Booking /\ SameLink(d, e) /\ e.agreedFee = FeeOnAccept(d)
    BY <1>1, CommissionType DEF WellFormed
  <1>3. Accepted(d) = [e EXCEPT !.status = "confirmed"]
    BY DEF Accepted
  <1> HIDE DEF e
  <1> QED
    BY <1>2, <1>3 DEF WellFormed, SameLink, Booking, BookingStatuses

LEMMA CounterAcceptedType ==
  ASSUME NEW d, WellFormed(d), d.status # "absent"
  PROVE  /\ WellFormed(CounterAccepted(d))
         /\ SameLink(d, CounterAccepted(d))
         /\ CounterAccepted(d).status = "confirmed"
         /\ CounterAccepted(d).agreedFee = d.counterFee
  <1> DEFINE e == ApplyCommission(d, d.counterFee)
  <1>1. d \in Booking /\ d.counterFee \in Nat
    BY DEF WellFormed, Booking
  <1>2. e \in Booking /\ SameLink(d, e) /\ e.agreedFee = d.counterFee
    BY <1>1, CommissionType
  <1>3. CounterAccepted(d) = [e EXCEPT !.status = "confirmed"]
    BY DEF CounterAccepted
  <1> HIDE DEF e
  <1> QED
    BY <1>1, <1>2, <1>3 DEF WellFormed, SameLink, Booking, BookingStatuses

LEMMA CounteredType ==
  ASSUME NEW d, WellFormed(d), d.status # "absent", NEW fee \in Fees
  PROVE  /\ WellFormed(Countered(d, fee))
         /\ SameLink(d, Countered(d, fee))
         /\ Countered(d, fee).status = "countered"
  BY MoneyAssumption DEF WellFormed, Countered, SameLink, Booking, BookingStatuses

LEMMA CancelledType ==
  ASSUME NEW d, WellFormed(d), d.status # "absent", NEW u \in Users
  PROVE  /\ WellFormed(Cancelled(d, u))
         /\ SameLink(d, Cancelled(d, u))
         /\ Cancelled(d, u).status = "cancelled"
  BY DEF WellFormed, Cancelled, SameLink, Booking, BookingStatuses

LEMMA DeclinedIsCancelled ==
  ASSUME NEW d, WellFormed(d), d.status # "absent"
  PROVE  TravelerOf(d) \in Users /\ Declined(d) = Cancelled(d, TravelerOf(d))
  BY IdsAssumption DEF WellFormed, Declined, Cancelled, TravelerOf

LEMMA PaidType ==
  ASSUME NEW d, WellFormed(d), d.status # "absent", NEW i \in IntentIds
  PROVE  /\ WellFormed(Paid(d, i))
         /\ SameLink(d, Paid(d, i))
         /\ Paid(d, i).status = "paid"
         /\ Paid(d, i).paymentIntentId = i
  BY DEF WellFormed, Paid, SameLink, Booking, BookingStatuses

LEMMA InTransitType ==
  ASSUME NEW d, WellFormed(d), d.status # "absent"
  PROVE  /\ WellFormed(InTransit(d))
         /\ SameLink(d, InTransit(d))
         /\ InTransit(d).status = "in_transit"
  BY DEF WellFormed, InTransit, SameLink, Booking, BookingStatuses

LEMMA DeliveredType ==
  ASSUME NEW d, WellFormed(d), d.status # "absent"
  PROVE  /\ WellFormed(Delivered(d))
         /\ SameLink(d, Delivered(d))
         /\ Delivered(d).status = "delivered"
  BY DEF WellFormed, Delivered, SameLink, Booking, BookingStatuses

LEMMA CompletedType ==
  ASSUME NEW d, WellFormed(d), d.status # "absent"
  PROVE  /\ WellFormed(Completed(d))
         /\ SameLink(d, Completed(d))
         /\ Completed(d).status = "completed"
  BY DEF WellFormed, Completed, SameLink, Booking, BookingStatuses

LEMMA DisputedType ==
  ASSUME NEW d, WellFormed(d), d.status # "absent", NEW u \in Users
  PROVE  /\ WellFormed(Disputed(d, u))
         /\ SameLink(d, Disputed(d, u))
         /\ Disputed(d, u).status = "disputed"
  BY DEF WellFormed, Disputed, SameLink, Booking, BookingStatuses

LEMMA ResolutionArgTypes ==
  ASSUME NEW a \in ResolutionArgs
  PROVE  a[1] \in Resolutions /\ a[2] \in RefundAmounts \cup {NoId}
  BY DEF ResolutionArgs

LEMMA ResolvedType ==
  ASSUME NEW d, WellFormed(d), d.status # "absent",
         NEW resolution, NEW amount \in RefundAmounts \cup {NoId}
  PROVE  LET e == Resolved(d, resolution, amount)
         IN /\ WellFormed(e)
            /\ SameLink(d, e)
            /\ e.status \in {"cancelled", "completed"}
  <1> DEFINE n == IF amount = NoId THEN d.agreedFee ELSE amount
  <1>1. n \in Int
    BY MoneyAssumption DEF WellFormed, Booking
  <1>2. CASE resolution \in RefundResolutions
    <2>1. Resolved(d, resolution, amount) =
            [d EXCEPT !.disputeResolved = TRUE, !.status = "cancelled",
                      !.refundAmount = n]
      BY <1>2 DEF Resolved
    <2> HIDE DEF n
    <2> QED
      BY <1>1, <2>1 DEF WellFormed, SameLink, Booking, BookingStatuses
  <1>3. CASE resolution \notin RefundResolutions
    BY <1>3 DEF Resolved, WellFormed, SameLink, Booking, BookingStatuses
  <1> QED
    BY <1>2, <1>3

-----------------------------------------------------------------------------
(* Types.  The type invariant is inductive together with the references:    *)
(* existing bookings refer to requests and trips, existing PaymentIntents   *)
(* to bookings.                                                             *)

Typed ==
  /\ TypeOK
  /\ \A b \in BookingIds : WellFormed(bookings[b])
  /\ \A i \in IntentIds :
       intents[i].status # "absent" => intents[i].bookingId \in BookingIds

BookingsTyped ==
  bookings \in [BookingIds -> Booking] /\ \A b \in BookingIds : WellFormed(bookings[b])

IntentsTyped ==
  /\ intents \in [IntentIds -> Intent]
  /\ \A i \in IntentIds :
       intents[i].status # "absent" => intents[i].bookingId \in BookingIds

LEMMA SetBooking ==
  ASSUME Typed, NEW b \in BookingIds, NEW e, WellFormed(e),
         bookings' = [bookings EXCEPT ![b] = e]
  PROVE  BookingsTyped'
  BY DEF Typed, TypeOK, WellFormed, BookingsTyped

LEMMA SetRequestStatus ==
  ASSUME Typed, NEW r \in Requests, NEW s \in RequestStatuses,
         requests' = [requests EXCEPT ![r].status = s]
  PROVE  requests' \in [Requests -> Request]
  BY DEF Typed, TypeOK, Request

LEMMA SetTripStatus ==
  ASSUME Typed, NEW t \in Trips, NEW s \in TripStatuses,
         trips' = [trips EXCEPT ![t].status = s]
  PROVE  trips' \in [Trips -> Trip]
  BY DEF Typed, TypeOK, Trip

LEMMA RevertMatchTypes ==
  ASSUME Typed, NEW r \in Requests, NEW t \in Trips, RevertMatch(r, t)
  PROVE  requests' \in [Requests -> Request] /\ trips' \in [Trips -> Trip]
  <1>1. requests' \in [Requests -> Request]
    BY DEF Typed, TypeOK, RevertMatch, RevertedRequest, Request, RequestStatuses
  <1>2. \A n \in Nat : Decremented(n) \in Nat
    BY DEF Decremented
  <1>3. trips' \in [Trips -> Trip]
    BY <1>2 DEF Typed, TypeOK, RevertMatch, Trip
  <1> QED
    BY <1>1, <1>3

\* A booking on which a guard holds exists.
LEMMA Exists ==
  ASSUME Typed, NEW b \in BookingIds, bookings[b].status # "absent"
  PROVE  /\ WellFormed(bookings[b])
         /\ bookings[b].requestId \in Requests
         /\ bookings[b].tripId \in Trips
  BY DEF Typed, WellFormed

LEMMA TypedInit == Init => Typed
  <1> SUFFICES ASSUME Init PROVE Typed
    OBVIOUS
  <1>1. AbsentBooking.status = "absent" /\ AbsentIntent.status = "absent"
    BY DEF AbsentBooking, AbsentIntent
  <1>2. WellFormed(AbsentBooking)
    BY <1>1, AbsentTypes DEF WellFormed
  <1> QED
    BY <1>1, <1>2, AbsentTypes DEF Init, Typed, TypeOK

LEMMA TypedRequestNext == Typed /\ RequestNext => Typed'
  <1> SUFFICES ASSUME Typed, NEW r \in Requests,
                      \/ \E type \in OfferedTypes : CreateRequest(r, type)
                      \/ ApproveSupportRequest(r)
                      \/ RejectSupportRequest(r)
                      \/ \E u \in Users :
                           \/ \E type \in OfferedTypes : UpdateRequest(u, r, type)
                           \/ CancelRequest(u, r)
               PROVE  Typed'
    BY DEF RequestNext
  <1>1. UNCHANGED <<trips, bookings, intents>>
    BY DEF CreateRequest, UpdateRequest, ApproveSupportRequest, RejectSupportRequest,
           CancelRequest
  <1>2. \E doc \in Request : requests' = [requests EXCEPT ![r] = doc]
    <2> DEFINE old == requests[r]
    <2>0. old \in Request
      BY DEF Typed, TypeOK
    <2>1. ASSUME NEW type \in OfferedTypes, CreateRequest(r, type)
          PROVE  requests' = [requests EXCEPT ![r] = NewRequest(type)]
      BY <2>1 DEF CreateRequest
    <2>2. ASSUME NEW u \in Users, NEW type \in OfferedTypes, UpdateRequest(u, r, type)
          PROVE  /\ requests' = [requests EXCEPT ![r] = [old EXCEPT !.type = type]]
                 /\ [old EXCEPT !.type = type] \in Request
      BY <2>0, <2>2, IdsAssumption DEF UpdateRequest, Request
    <2>3. ASSUME ApproveSupportRequest(r)
          PROVE  /\ requests' = [requests EXCEPT
                                   ![r] = [old EXCEPT !.adminApprovalStatus = "approved"]]
                 /\ [old EXCEPT !.adminApprovalStatus = "approved"] \in Request
      BY <2>0, <2>3 DEF ApproveSupportRequest, Request, ApprovalStatuses
    <2>4. ASSUME RejectSupportRequest(r)
          PROVE  /\ requests' = [requests EXCEPT ![r] = RejectedRequest(old)]
                 /\ RejectedRequest(old) \in Request
      BY <2>0, <2>4
      DEF RejectSupportRequest, RejectedRequest, Request, RequestStatuses, ApprovalStatuses
    <2>5. ASSUME NEW u \in Users, CancelRequest(u, r)
          PROVE  /\ requests' = [requests EXCEPT ![r] = [old EXCEPT !.status = "cancelled"]]
                 /\ [old EXCEPT !.status = "cancelled"] \in Request
      BY <2>0, <2>5 DEF CancelRequest, Request, RequestStatuses
    <2> QED
      BY <2>1, <2>2, <2>3, <2>4, <2>5, NewRequestType
  <1> QED
    BY <1>1, <1>2 DEF Typed, TypeOK

LEMMA TypedTripNext == Typed /\ TripNext => Typed'
  <1> SUFFICES ASSUME Typed, NEW t \in Trips,
                      CreateTrip(t) \/ \E u \in Users : CancelTrip(u, t)
               PROVE  Typed'
    BY DEF TripNext
  <1>1. trips' \in [Trips -> Trip] /\ UNCHANGED <<requests, bookings, intents>>
    BY SetTripStatus DEF CreateTrip, CancelTrip, TripStatuses
  <1> QED
    BY <1>1 DEF Typed, TypeOK

\* The handlers that edit a booking and write a status to its request.
LEMMA TypedSaveAndSet ==
  ASSUME Typed, NEW b \in BookingIds, NEW e, WellFormed(e),
         SameLink(bookings[b], e), bookings[b].status # "absent",
         NEW s \in RequestStatuses, SaveAndSetRequest(b, e, s)
  PROVE  BookingsTyped' /\ requests' \in [Requests -> Request]
  <1>1. BookingsTyped'
    BY SetBooking DEF SaveAndSetRequest
  <1>2. e.requestId \in Requests
    BY Exists DEF SameLink
  <1>3. requests' \in [Requests -> Request]
    BY <1>2, SetRequestStatus DEF SaveAndSetRequest
  <1> QED
    BY <1>1, <1>3

LEMMA TypedBookingNext == Typed /\ BookingNext => Typed'
  <1> SUFFICES ASSUME Typed, BookingNext
               PROVE  /\ BookingsTyped'
                      /\ requests' \in [Requests -> Request]
                      /\ trips' \in [Trips -> Trip]
                      /\ UNCHANGED intents
    BY DEF Typed, TypeOK, BookingsTyped
  <1> USE DEF RequestStatuses
  <1>t. trips \in [Trips -> Trip] /\ requests \in [Requests -> Request]
    BY DEF Typed, TypeOK
  <1>w. \A b \in BookingIds : WellFormed(bookings[b])
    BY DEF Typed
  <1>1. ASSUME NEW u \in Users, NEW b \in BookingIds, NEW r \in Requests,
               NEW t \in Trips, NEW fee \in Fees, CreateMatch(u, b, r, t, fee)
        PROVE  /\ BookingsTyped'
               /\ requests' \in [Requests -> Request]
               /\ trips' \in [Trips -> Trip]
               /\ UNCHANGED intents
    <2>1. BookingsTyped'
      BY <1>1, NewBookingType, SetBooking DEF CreateMatch
    <2>2. requests' \in [Requests -> Request]
      BY <1>1, <1>t DEF CreateMatch, MatchedRequest, Request
    <2>3. trips' \in [Trips -> Trip]
      BY <1>1, <1>t DEF CreateMatch, Trip
    <2> QED
      BY <1>1, <2>1, <2>2, <2>3 DEF CreateMatch
  <1>2. ASSUME NEW u \in Users, NEW b \in BookingIds,
               AcceptBooking(u, b)
        PROVE  /\ BookingsTyped'
               /\ requests' \in [Requests -> Request]
               /\ trips' \in [Trips -> Trip]
               /\ UNCHANGED intents
    <2>1. bookings[b].status # "absent"
      BY <1>2 DEF AcceptBooking, CanAccept, AcceptableStatuses
    <2>2. BookingsTyped' /\ requests' \in [Requests -> Request]
      BY <1>2, <1>w, <2>1, AcceptedType, TypedSaveAndSet DEF AcceptBooking
    <2> QED
      BY <1>2, <1>t, <2>2 DEF AcceptBooking
  <1>3. ASSUME NEW u \in Users, NEW b \in BookingIds, NEW fee \in Fees,
               CounterOffer(u, b, fee)
        PROVE  /\ BookingsTyped'
               /\ requests' \in [Requests -> Request]
               /\ trips' \in [Trips -> Trip]
               /\ UNCHANGED intents
    <2>1. bookings[b].status # "absent"
      BY <1>3 DEF CounterOffer, CanCounter
    <2>2. BookingsTyped'
      BY <1>3, <1>w, <2>1, CounteredType, SetBooking DEF CounterOffer
    <2> QED
      BY <1>3, <1>t, <2>2 DEF CounterOffer
  <1>4. ASSUME NEW u \in Users, NEW b \in BookingIds,
               DeclineBooking(u, b)
        PROVE  /\ BookingsTyped'
               /\ requests' \in [Requests -> Request]
               /\ trips' \in [Trips -> Trip]
               /\ UNCHANGED intents
    <2>1. bookings[b].status # "absent"
      BY <1>4 DEF DeclineBooking, CanDecline, AcceptableStatuses
    <2>2. BookingsTyped'
      BY <1>4, <1>w, <2>1, DeclinedIsCancelled, CancelledType, SetBooking DEF DeclineBooking
    <2>3. requests' \in [Requests -> Request] /\ trips' \in [Trips -> Trip]
      BY <1>4, <2>1, Exists, RevertMatchTypes DEF DeclineBooking
    <2> QED
      BY <1>4, <2>2, <2>3 DEF DeclineBooking
  <1>5. ASSUME NEW u \in Users, NEW b \in BookingIds,
               AcceptCounter(u, b)
        PROVE  /\ BookingsTyped'
               /\ requests' \in [Requests -> Request]
               /\ trips' \in [Trips -> Trip]
               /\ UNCHANGED intents
    <2>1. bookings[b].status # "absent"
      BY <1>5 DEF AcceptCounter, CanAcceptCounter
    <2>2. BookingsTyped' /\ requests' \in [Requests -> Request]
      BY <1>5, <1>w, <2>1, CounterAcceptedType, TypedSaveAndSet DEF AcceptCounter
    <2> QED
      BY <1>5, <1>t, <2>2 DEF AcceptCounter
  <1>6. ASSUME NEW u \in Users, NEW b \in BookingIds,
               MarkInTransit(u, b)
        PROVE  /\ BookingsTyped'
               /\ requests' \in [Requests -> Request]
               /\ trips' \in [Trips -> Trip]
               /\ UNCHANGED intents
    <2>1. bookings[b].status # "absent"
      BY <1>6 DEF MarkInTransit, CanMarkInTransit
    <2>2. BookingsTyped' /\ requests' \in [Requests -> Request]
      BY <1>6, <1>w, <2>1, InTransitType, TypedSaveAndSet DEF MarkInTransit
    <2> QED
      BY <1>6, <1>t, <2>2 DEF MarkInTransit
  <1>7. ASSUME NEW u \in Users, NEW b \in BookingIds,
               SubmitProofOfDelivery(u, b)
        PROVE  /\ BookingsTyped'
               /\ requests' \in [Requests -> Request]
               /\ trips' \in [Trips -> Trip]
               /\ UNCHANGED intents
    <2>1. bookings[b].status # "absent"
      BY <1>7 DEF SubmitProofOfDelivery, CanSubmitProof
    <2>2. BookingsTyped' /\ requests' \in [Requests -> Request]
      BY <1>7, <1>w, <2>1, DeliveredType, TypedSaveAndSet DEF SubmitProofOfDelivery
    <2> QED
      BY <1>7, <1>t, <2>2 DEF SubmitProofOfDelivery
  <1>8. ASSUME NEW u \in Users, NEW b \in BookingIds,
               CompleteBooking(u, b)
        PROVE  /\ BookingsTyped'
               /\ requests' \in [Requests -> Request]
               /\ trips' \in [Trips -> Trip]
               /\ UNCHANGED intents
    <2>1. bookings[b].status # "absent"
      BY <1>8 DEF CompleteBooking, CanComplete
    <2>2. BookingsTyped' /\ requests' \in [Requests -> Request]
      BY <1>8, <1>w, <2>1, CompletedType, TypedSaveAndSet DEF CompleteBooking
    <2>3. trips' \in [Trips -> Trip]
      BY <1>8, <1>t, <2>1, Exists, SetTripStatus
      DEF CompleteBooking, MaybeCompleteTrip, TripStatuses
    <2> QED
      BY <1>8, <2>2, <2>3 DEF CompleteBooking
  <1>9. ASSUME NEW u \in Users, NEW b \in BookingIds,
               RaiseDispute(u, b)
        PROVE  /\ BookingsTyped'
               /\ requests' \in [Requests -> Request]
               /\ trips' \in [Trips -> Trip]
               /\ UNCHANGED intents
    <2>1. bookings[b].status # "absent"
      BY <1>9 DEF RaiseDispute, CanDispute, DisputableStatuses
    <2>2. BookingsTyped'
      BY <1>9, <1>w, <2>1, DisputedType, SetBooking DEF RaiseDispute
    <2> QED
      BY <1>9, <1>t, <2>2 DEF RaiseDispute
  <1>10. ASSUME NEW u \in Users, NEW b \in BookingIds,
               CancelBooking(u, b)
        PROVE  /\ BookingsTyped'
               /\ requests' \in [Requests -> Request]
               /\ trips' \in [Trips -> Trip]
               /\ UNCHANGED intents
    <2>1. bookings[b].status # "absent"
      BY <1>10 DEF CancelBooking, CanCancel, CancellableStatuses
    <2>2. BookingsTyped'
      BY <1>10, <1>w, <2>1, CancelledType, SetBooking DEF CancelBooking
    <2>3. requests' \in [Requests -> Request] /\ trips' \in [Trips -> Trip]
      BY <1>10, <2>1, Exists, RevertMatchTypes DEF CancelBooking
    <2> QED
      BY <1>10, <2>2, <2>3 DEF CancelBooking
  <1> QED
    BY <1>1, <1>2, <1>3, <1>4, <1>5, <1>6, <1>7, <1>8, <1>9, <1>10 DEF BookingNext

LEMMA RefundedType ==
  ASSUME NEW pi \in Intent, NEW amount \in RefundAmounts \cup {NoId},
         StripeAccepts(pi, amount)
  PROVE  /\ Refunded(pi, amount) \in Intent
         /\ Refunded(pi, amount).status = pi.status
         /\ Refunded(pi, amount).bookingId = pi.bookingId
         /\ Refunded(pi, amount).amount = pi.amount
         /\ Refunded(pi, amount).refunded = pi.refunded + RefundDue(pi, amount)
         /\ RefundDue(pi, amount) \in 1 .. (pi.amount - pi.refunded)
  <1> DEFINE n == RefundDue(pi, amount)
  <1>1. n \in 1 .. (pi.amount - pi.refunded)
    BY DEF StripeAccepts
  <1>2. pi.amount \in Nat /\ pi.refunded \in Nat
    BY DEF Intent
  <1>3. n \in Nat
    BY <1>1, <1>2
  <1>4. Refunded(pi, amount) = [pi EXCEPT !.refunded = @ + n]
    BY DEF Refunded
  <1> HIDE DEF n
  <1>5. Refunded(pi, amount) \in Intent
    BY <1>2, <1>3, <1>4 DEF Intent
  <1>6. /\ Refunded(pi, amount).status = pi.status
        /\ Refunded(pi, amount).bookingId = pi.bookingId
        /\ Refunded(pi, amount).amount = pi.amount
        /\ Refunded(pi, amount).refunded = pi.refunded + n
    BY <1>2, <1>3, <1>4 DEF Intent
  <1> QED
    BY <1>1, <1>5, <1>6 DEF n

LEMMA TypedResolveNext == Typed /\ ResolveNext => Typed'
  <1> SUFFICES ASSUME Typed, NEW b \in BookingIds, NEW a \in ResolutionArgs,
                      ResolveDispute(b, a[1], a[2])
               PROVE  Typed'
    BY DEF ResolveNext
  <1>1. a[2] \in RefundAmounts \cup {NoId}
    BY ResolutionArgTypes
  <1>2. bookings[b].status # "absent" /\ WellFormed(bookings[b])
    BY DEF ResolveDispute, CanResolve, Typed
  <1>3. BookingsTyped'
    BY <1>1, <1>2, ResolvedType, SetBooking DEF ResolveDispute
  <1>4. IntentsTyped'
    <2> DEFINE i == bookings[b].paymentIntentId
    <2>1. CASE CallsStripe(bookings[b], a[1])
      <3>1. i \in IntentIds /\ intents[i] \in Intent
        BY <1>2, <2>1 DEF CallsStripe, WellFormed, Booking, Typed, TypeOK
      <3>2. /\ StripeAccepts(intents[i], a[2])
            /\ intents' = [intents EXCEPT ![i] = Refunded(intents[i], a[2])]
        BY <2>1 DEF ResolveDispute
      <3>3. /\ Refunded(intents[i], a[2]) \in Intent
            /\ Refunded(intents[i], a[2]).status = intents[i].status
            /\ Refunded(intents[i], a[2]).bookingId = intents[i].bookingId
        BY <1>1, <3>1, <3>2, RefundedType
      <3> HIDE DEF i
      <3> QED
        BY <3>1, <3>2, <3>3 DEF IntentsTyped, Typed, TypeOK
    <2>2. CASE ~CallsStripe(bookings[b], a[1])
      BY <2>2 DEF ResolveDispute, IntentsTyped, Typed, TypeOK
    <2> QED
      BY <2>1, <2>2
  <1> QED
    BY <1>3, <1>4 DEF ResolveDispute, Typed, TypeOK, BookingsTyped, IntentsTyped

\* Paying a booking, by webhook or client confirmation.
LEMMA TypedMarkAsPaid ==
  ASSUME Typed, NEW i \in IntentIds, intents[i].status = "succeeded",
         MarkAsPaid(intents[i].bookingId, i)
  PROVE  Typed'
  <1> DEFINE b == intents[i].bookingId
  <1>1. b \in BookingIds
    BY DEF Typed
  <1>2. bookings[b].status # "absent" /\ WellFormed(bookings[b])
    BY <1>1 DEF MarkAsPaid, CanMarkPaid, Typed
  <1>3. BookingsTyped'
    BY <1>1, <1>2, PaidType, SetBooking DEF MarkAsPaid
  <1> QED
    BY <1>3 DEF MarkAsPaid, Typed, TypeOK, BookingsTyped

LEMMA TypedPaymentNext == Typed /\ PaymentNext => Typed'
  <1> SUFFICES ASSUME Typed, NEW i \in IntentIds,
                      \/ \E u \in Users, b \in BookingIds : CreateIntent(u, b, i)
                      \/ CapturePayment(i)
                      \/ HandleWebhook(i)
                      \/ \E u \in Users : ConfirmPayment(u, i)
               PROVE  Typed'
    BY DEF PaymentNext
  <1>1. ASSUME NEW u \in Users, NEW b \in BookingIds, CreateIntent(u, b, i)
        PROVE  Typed'
    <2>1. bookings[b].agreedFee \in Nat
      BY DEF Typed, TypeOK, Booking
    <2>2. IntentsTyped'
      BY <1>1, <2>1, CentsType
      DEF CreateIntent, NewIntent, IntentsTyped, Typed, TypeOK, Intent
    <2> QED
      BY <1>1, <2>2 DEF CreateIntent, Typed, TypeOK, IntentsTyped
  <1>2. ASSUME CapturePayment(i) PROVE Typed'
    <2>1. IntentsTyped'
      BY <1>2 DEF CapturePayment, Succeeded, IntentsTyped, Typed, TypeOK, Intent
    <2> QED
      BY <1>2, <2>1 DEF CapturePayment, Typed, TypeOK, IntentsTyped
  <1>3. CASE HandleWebhook(i)
    BY <1>3, TypedMarkAsPaid DEF HandleWebhook
  <1>4. CASE \E u \in Users : ConfirmPayment(u, i)
    BY <1>4, TypedMarkAsPaid DEF ConfirmPayment
  <1> QED
    BY <1>1, <1>2, <1>3, <1>4

LEMMA TypedNext == Typed /\ [Next]_vars => Typed'
  <1> SUFFICES ASSUME Typed, [Next]_vars PROVE Typed'
    OBVIOUS
  <1>1. CASE UNCHANGED vars
    BY <1>1 DEF vars, Typed, TypeOK
  <1> QED
    BY <1>1, TypedRequestNext, TypedTripNext, TypedBookingNext, TypedResolveNext,
       TypedPaymentNext DEF Next

LEMMA TypedAlways == Spec => []Typed
  BY TypedInit, TypedNext, PTL DEF Spec

\* Every reachable state has the types of the schemas.
THEOREM TypeCorrect == Spec => []TypeOK
  <1>1. Typed => TypeOK
    BY DEF Typed
  <1> QED
    BY <1>1, TypedAlways, PTL

-----------------------------------------------------------------------------
(* One standing booking per request.  Nothing in createMatch says so: it    *)
(* follows because the request of a standing booking is never pending,      *)
(* which in turn needs that the booking being cancelled is the only one.    *)

MatchInv == OneLiveBooking /\ RequestTracksBooking

\* A handler that moves a standing booking on and its request with it.
LEMMA MatchMoves ==
  ASSUME Typed, MatchInv, NEW b \in BookingIds, Live(b),
         NEW e, WellFormed(e), SameLink(bookings[b], e),
         e.status \notin {"absent", "cancelled"},
         NEW s \in Tracked(e.status), SaveAndSetRequest(b, e, s)
  PROVE  MatchInv'
  <1> DEFINE r == bookings[b].requestId
  <1>1. r \in Requests /\ e.requestId = r /\ e.tripId = bookings[b].tripId
    BY Exists DEF Live, SameLink
  <1>2. /\ bookings' = [bookings EXCEPT ![b] = e]
        /\ requests' = [requests EXCEPT ![r].status = s]
    BY <1>1 DEF SaveAndSetRequest
  <1>3. \A x \in BookingIds : /\ Live(x)' <=> Live(x)
                              /\ bookings'[x].requestId = bookings[x].requestId
                              /\ bookings'[x].tripId = bookings[x].tripId
    BY <1>1, <1>2 DEF Live, Typed, TypeOK
  <1>4. OneLiveBooking'
    BY <1>3 DEF MatchInv, OneLiveBooking, LiveOf
  <1>5. ASSUME NEW x \in BookingIds, Live(x)'
        PROVE  /\ requests'[bookings'[x].requestId].matchedTripId = bookings'[x].tripId
               /\ requests'[bookings'[x].requestId].status
                    \in Tracked(bookings'[x].status) \cup {"cancelled"}
    <2>0. Live(x) /\ bookings[x].requestId \in Requests
      BY <1>3, <1>5, Exists DEF Live
    <2>1. /\ requests[bookings[x].requestId].matchedTripId = bookings[x].tripId
          /\ requests[bookings[x].requestId].status
               \in Tracked(bookings[x].status) \cup {"cancelled"}
      BY <2>0 DEF MatchInv, RequestTracksBooking
    <2>2. CASE x = b
      BY <1>1, <1>2, <2>1, <2>2 DEF Typed, TypeOK, Request
    <2>3. CASE x # b
      <3>1. bookings[x].requestId # r
        BY <1>1, <2>0, <2>3 DEF MatchInv, OneLiveBooking, LiveOf
      <3> QED
        BY <1>1, <1>2, <2>0, <2>1, <2>3, <3>1 DEF Typed, TypeOK
    <2> QED
      BY <2>2, <2>3
  <1> QED
    BY <1>4, <1>5 DEF MatchInv, RequestTracksBooking

\* A handler that edits a standing booking and leaves its request alone.
LEMMA MatchStays ==
  ASSUME Typed, MatchInv, NEW b \in BookingIds, Live(b),
         NEW e, WellFormed(e), SameLink(bookings[b], e), e.status # "absent",
         e.status = "cancelled" \/ Tracked(bookings[b].status) \subseteq Tracked(e.status),
         bookings' = [bookings EXCEPT ![b] = e], UNCHANGED requests
  PROVE  MatchInv'
  <1>1. \A x \in BookingIds : /\ Live(x)' => Live(x)
                              /\ bookings'[x].requestId = bookings[x].requestId
                              /\ bookings'[x].tripId = bookings[x].tripId
                              /\ Live(x)' => Tracked(bookings[x].status)
                                               \subseteq Tracked(bookings'[x].status)
    BY DEF Live, Typed, TypeOK, SameLink
  <1>2. OneLiveBooking'
    BY <1>1 DEF MatchInv, OneLiveBooking, LiveOf
  <1> QED
    BY <1>1, <1>2 DEF MatchInv, RequestTracksBooking

\* A handler that cancels a standing booking and reverts the match.
LEMMA MatchReverts ==
  ASSUME Typed, MatchInv, NEW b \in BookingIds, Live(b),
         NEW e, WellFormed(e), SameLink(bookings[b], e), e.status = "cancelled",
         bookings' = [bookings EXCEPT ![b] = e],
         RevertMatch(bookings[b].requestId, bookings[b].tripId)
  PROVE  MatchInv'
  <1> DEFINE r == bookings[b].requestId
  <1>1. \A x \in BookingIds : /\ Live(x)' <=> (Live(x) /\ x # b)
                              /\ x # b => bookings'[x] = bookings[x]
    BY DEF Live, Typed, TypeOK
  <1>2. OneLiveBooking'
    BY <1>1 DEF MatchInv, OneLiveBooking, LiveOf
  <1>3. ASSUME NEW x \in BookingIds, Live(x)'
        PROVE  requests'[bookings'[x].requestId] = requests[bookings[x].requestId]
    <2>1. Live(x) /\ x # b /\ bookings'[x] = bookings[x]
      BY <1>1, <1>3
    <2>2. bookings[x].requestId \in Requests /\ bookings[b].requestId \in Requests
      BY <2>1, Exists DEF Live
    <2>3. bookings[x].requestId # r
      BY <2>1, <2>2 DEF MatchInv, OneLiveBooking, LiveOf
    <2> QED
      BY <2>1, <2>2, <2>3 DEF RevertMatch, Typed, TypeOK
  <1> QED
    BY <1>1, <1>2, <1>3 DEF MatchInv, RequestTracksBooking

LEMMA MatchCreate ==
  ASSUME Typed, MatchInv, NEW u \in Users, NEW b \in BookingIds, NEW r \in Requests,
         NEW t \in Trips, NEW fee \in Fees, CreateMatch(u, b, r, t, fee)
  PROVE  MatchInv'
  <1> DEFINE e == NewBooking(r, t, fee)
  <1>1. e.status = "pending_acceptance" /\ e.requestId = r /\ e.tripId = t
    BY NewBookingType
  <1>2. /\ bookings[b].status = "absent"
        /\ requests[r].status = "pending"
        /\ bookings' = [bookings EXCEPT ![b] = e]
        /\ requests' = [requests EXCEPT ![r] = MatchedRequest(requests[r], t)]
    BY DEF CreateMatch, RequestMatchable
  <1> HIDE DEF e
  <1>3. \A x \in BookingIds : x # b => (Live(x)' <=> Live(x)) /\ bookings'[x] = bookings[x]
    BY <1>2 DEF Live, Typed, TypeOK
  <1>4. bookings'[b] = e
    BY <1>2 DEF Typed, TypeOK
  <1>5. \A x \in BookingIds : Live(x) => bookings[x].requestId # r
    BY <1>2 DEF MatchInv, RequestTracksBooking, Tracked
  <1>6. OneLiveBooking'
    BY <1>1, <1>3, <1>4, <1>5 DEF MatchInv, OneLiveBooking, LiveOf
  <1>7. ASSUME NEW x \in BookingIds, Live(x)'
        PROVE  /\ requests'[bookings'[x].requestId].matchedTripId = bookings'[x].tripId
               /\ requests'[bookings'[x].requestId].status
                    \in Tracked(bookings'[x].status) \cup {"cancelled"}
    <2>1. CASE x = b
      <3>1. requests'[r].matchedTripId = t /\ requests'[r].status = "matched"
        BY <1>2 DEF MatchedRequest, Typed, TypeOK, Request
      <3> QED
        BY <1>1, <1>4, <2>1, <3>1 DEF Tracked
    <2>2. CASE x # b
      <3>1. Live(x) /\ bookings'[x] = bookings[x] /\ bookings[x].requestId # r
        BY <1>3, <1>5, <1>7, <2>2
      <3>2. requests'[bookings[x].requestId] = requests[bookings[x].requestId]
        BY <1>2, <3>1, Exists DEF Live, Typed, TypeOK
      <3> QED
        BY <3>1, <3>2 DEF MatchInv, RequestTracksBooking
    <2> QED
      BY <2>1, <2>2
  <1> QED
    BY <1>6, <1>7 DEF MatchInv, RequestTracksBooking

\* The handlers on requests only ever cancel the request of a standing booking.
LEMMA MatchRequestNext == Typed /\ MatchInv /\ RequestNext => MatchInv'
  <1> SUFFICES ASSUME Typed, MatchInv, NEW r \in Requests,
                      \/ \E type \in OfferedTypes : CreateRequest(r, type)
                      \/ ApproveSupportRequest(r)
                      \/ RejectSupportRequest(r)
                      \/ \E u \in Users :
                           \/ \E type \in OfferedTypes : UpdateRequest(u, r, type)
                           \/ CancelRequest(u, r)
               PROVE  MatchInv'
    BY DEF RequestNext
  <1>1. /\ UNCHANGED bookings
        /\ \/ requests[r].status = "absent"
           \/ /\ requests'[r].matchedTripId = requests[r].matchedTripId
              /\ requests'[r].status \in {requests[r].status, "cancelled"}
        /\ \A q \in Requests : q # r => requests'[q] = requests[q]
    BY DEF CreateRequest, UpdateRequest, ApproveSupportRequest, RejectSupportRequest,
           CancelRequest, RejectedRequest, Typed, TypeOK, Request
  <1>2. OneLiveBooking'
    BY <1>1 DEF MatchInv, OneLiveBooking, LiveOf, Live
  <1>3. ASSUME NEW x \in BookingIds, Live(x)
        PROVE  /\ requests'[bookings[x].requestId].matchedTripId = bookings[x].tripId
               /\ requests'[bookings[x].requestId].status
                    \in Tracked(bookings[x].status) \cup {"cancelled"}
    <2>1. /\ bookings[x].requestId \in Requests
          /\ requests[bookings[x].requestId].matchedTripId = bookings[x].tripId
          /\ requests[bookings[x].requestId].status
               \in Tracked(bookings[x].status) \cup {"cancelled"}
      BY <1>3, Exists DEF Live, MatchInv, RequestTracksBooking
    <2>2. requests[bookings[x].requestId].status # "absent"
      BY <2>1 DEF Tracked
    <2> QED
      BY <1>1, <2>1, <2>2
  <1> QED
    BY <1>1, <1>2, <1>3 DEF MatchInv, RequestTracksBooking, Live

LEMMA MatchBookingNext == Typed /\ MatchInv /\ BookingNext => MatchInv'
  <1> SUFFICES ASSUME Typed, MatchInv, BookingNext PROVE MatchInv'
    OBVIOUS
  <1>w. \A b \in BookingIds : WellFormed(bookings[b])
    BY DEF Typed
  <1>1. ASSUME NEW u \in Users, NEW b \in BookingIds, NEW r \in Requests,
               NEW t \in Trips, NEW fee \in Fees, CreateMatch(u, b, r, t, fee)
        PROVE  MatchInv'
    BY <1>1, MatchCreate
  <1>2. ASSUME NEW u \in Users, NEW b \in BookingIds, AcceptBooking(u, b)
        PROVE  MatchInv'
    <2>1. Live(b) /\ bookings[b].status # "absent"
      BY <1>2 DEF AcceptBooking, CanAccept, AcceptableStatuses, Live
    <2>2. "confirmed" \in Tracked(Accepted(bookings[b]).status)
      BY <1>w, <2>1, AcceptedType DEF Tracked
    <2> QED
      BY <1>2, <1>w, <2>1, <2>2, AcceptedType, MatchMoves DEF AcceptBooking
  <1>3. ASSUME NEW u \in Users, NEW b \in BookingIds, NEW fee \in Fees, CounterOffer(u, b, fee)
        PROVE  MatchInv'
    <2>1. Live(b) /\ bookings[b].status # "absent"
      BY <1>3 DEF CounterOffer, CanCounter, Live
    <2>2. Tracked(bookings[b].status) \subseteq Tracked(Countered(bookings[b], fee).status)
      BY <1>3, <1>w, <2>1, CounteredType DEF CounterOffer, CanCounter, Tracked
    <2> QED
      BY <1>3, <1>w, <2>1, <2>2, CounteredType, MatchStays DEF CounterOffer
  <1>4. ASSUME NEW u \in Users, NEW b \in BookingIds, DeclineBooking(u, b)
        PROVE  MatchInv'
    <2>1. Live(b) /\ bookings[b].status # "absent"
      BY <1>4 DEF DeclineBooking, CanDecline, AcceptableStatuses, Live
    <2> QED
      BY <1>4, <1>w, <2>1, DeclinedIsCancelled, CancelledType, MatchReverts DEF DeclineBooking
  <1>5. ASSUME NEW u \in Users, NEW b \in BookingIds, AcceptCounter(u, b)
        PROVE  MatchInv'
    <2>1. Live(b) /\ bookings[b].status # "absent"
      BY <1>5 DEF AcceptCounter, CanAcceptCounter, Live
    <2>2. "confirmed" \in Tracked(CounterAccepted(bookings[b]).status)
      BY <1>w, <2>1, CounterAcceptedType DEF Tracked
    <2> QED
      BY <1>5, <1>w, <2>1, <2>2, CounterAcceptedType, MatchMoves DEF AcceptCounter
  <1>6. ASSUME NEW u \in Users, NEW b \in BookingIds, MarkInTransit(u, b)
        PROVE  MatchInv'
    <2>1. Live(b) /\ bookings[b].status # "absent"
      BY <1>6 DEF MarkInTransit, CanMarkInTransit, Live
    <2>2. "in_transit" \in Tracked(InTransit(bookings[b]).status)
      BY <1>w, <2>1, InTransitType DEF Tracked
    <2> QED
      BY <1>6, <1>w, <2>1, <2>2, InTransitType, MatchMoves DEF MarkInTransit
  <1>7. ASSUME NEW u \in Users, NEW b \in BookingIds, SubmitProofOfDelivery(u, b)
        PROVE  MatchInv'
    <2>1. Live(b) /\ bookings[b].status # "absent"
      BY <1>7 DEF SubmitProofOfDelivery, CanSubmitProof, Live
    <2>2. "delivered" \in Tracked(Delivered(bookings[b]).status)
      BY <1>w, <2>1, DeliveredType DEF Tracked
    <2> QED
      BY <1>7, <1>w, <2>1, <2>2, DeliveredType, MatchMoves DEF SubmitProofOfDelivery
  <1>8. ASSUME NEW u \in Users, NEW b \in BookingIds, CompleteBooking(u, b)
        PROVE  MatchInv'
    <2>1. Live(b) /\ bookings[b].status # "absent"
      BY <1>8 DEF CompleteBooking, CanComplete, Live
    <2>2. "completed" \in Tracked(Completed(bookings[b]).status)
      BY <1>w, <2>1, CompletedType DEF Tracked
    <2> QED
      BY <1>8, <1>w, <2>1, <2>2, CompletedType, MatchMoves DEF CompleteBooking
  <1>9. ASSUME NEW u \in Users, NEW b \in BookingIds, RaiseDispute(u, b)
        PROVE  MatchInv'
    <2>1. Live(b) /\ bookings[b].status # "absent"
      BY <1>9 DEF RaiseDispute, CanDispute, DisputableStatuses, Live
    <2>2. Tracked(bookings[b].status) \subseteq Tracked(Disputed(bookings[b], u).status)
      BY <1>9, <1>w, <2>1, DisputedType DEF RaiseDispute, CanDispute, DisputableStatuses, Tracked
    <2> QED
      BY <1>9, <1>w, <2>1, <2>2, DisputedType, MatchStays DEF RaiseDispute
  <1>10. ASSUME NEW u \in Users, NEW b \in BookingIds, CancelBooking(u, b)
        PROVE  MatchInv'
    <2>1. Live(b) /\ bookings[b].status # "absent"
      BY <1>10 DEF CancelBooking, CanCancel, CancellableStatuses, Live
    <2> QED
      BY <1>10, <1>w, <2>1, CancelledType, MatchReverts DEF CancelBooking
  <1> QED
    BY <1>1, <1>2, <1>3, <1>4, <1>5, <1>6, <1>7, <1>8, <1>9, <1>10 DEF BookingNext

LEMMA MatchResolveNext == Typed /\ MatchInv /\ ResolveNext => MatchInv'
  <1> SUFFICES ASSUME Typed, MatchInv, NEW b \in BookingIds, NEW a \in ResolutionArgs,
                      ResolveDispute(b, a[1], a[2])
               PROVE  MatchInv'
    BY DEF ResolveNext
  <1> DEFINE e == Resolved(bookings[b], a[1], a[2])
  <1>1. bookings[b].status = "disputed" /\ WellFormed(bookings[b]) /\ Live(b)
    BY DEF ResolveDispute, CanResolve, Typed, Live
  <1>2. /\ WellFormed(e)
        /\ SameLink(bookings[b], e)
        /\ e.status \in {"cancelled", "completed"}
    BY <1>1, ResolutionArgTypes, ResolvedType
  <1>3. bookings' = [bookings EXCEPT ![b] = e] /\ UNCHANGED requests
    BY DEF ResolveDispute
  <1> HIDE DEF e
  <1>4. e.status = "cancelled" \/ Tracked(bookings[b].status) \subseteq Tracked(e.status)
    BY <1>1, <1>2 DEF Tracked
  <1> QED
    BY <1>1, <1>2, <1>3, <1>4, MatchStays

LEMMA MatchPaymentNext == Typed /\ MatchInv /\ PaymentNext => MatchInv'
  <1> SUFFICES ASSUME Typed, MatchInv, NEW i \in IntentIds,
                      \/ \E u \in Users, b \in BookingIds : CreateIntent(u, b, i)
                      \/ CapturePayment(i)
                      \/ HandleWebhook(i)
                      \/ \E u \in Users : ConfirmPayment(u, i)
               PROVE  MatchInv'
    BY DEF PaymentNext
  <1>1. CASE UNCHANGED <<requests, bookings>>
    BY <1>1 DEF MatchInv, OneLiveBooking, RequestTracksBooking, LiveOf, Live
  <1>2. CASE /\ intents[i].status = "succeeded"
             /\ MarkAsPaid(intents[i].bookingId, i)
    <2> DEFINE b == intents[i].bookingId
    <2>1. b \in BookingIds
      BY <1>2 DEF Typed
    <2> HIDE DEF b
    <2>2. bookings[b].status = "confirmed" /\ WellFormed(bookings[b]) /\ Live(b)
      BY <1>2, <2>1 DEF b, MarkAsPaid, CanMarkPaid, Typed, Live
    <2>3. /\ WellFormed(Paid(bookings[b], i))
          /\ SameLink(bookings[b], Paid(bookings[b], i))
          /\ Paid(bookings[b], i).status = "paid"
      BY <2>2, PaidType
    <2>4. Tracked(bookings[b].status) \subseteq Tracked(Paid(bookings[b], i).status)
      BY <2>2, <2>3 DEF Tracked
    <2>5. bookings' = [bookings EXCEPT ![b] = Paid(bookings[b], i)] /\ UNCHANGED requests
      BY <1>2 DEF b, MarkAsPaid
    <2> QED
      BY <2>1, <2>2, <2>3, <2>4, <2>5, MatchStays
  <1> QED
    BY <1>1, <1>2 DEF CreateIntent, CapturePayment, HandleWebhook, ConfirmPayment

LEMMA MatchNext == Typed /\ MatchInv /\ [Next]_vars => MatchInv'
  <1> SUFFICES ASSUME Typed, MatchInv, [Next]_vars PROVE MatchInv'
    OBVIOUS
  <1>1. CASE UNCHANGED vars \/ TripNext
    BY <1>1 DEF vars, TripNext, CreateTrip, CancelTrip, MatchInv, OneLiveBooking,
                RequestTracksBooking, LiveOf, Live
  <1> QED
    BY <1>1, MatchRequestNext, MatchBookingNext, MatchResolveNext, MatchPaymentNext
    DEF Next

LEMMA MatchAlways == Spec => []MatchInv
  <1>1. Init => MatchInv
    BY DEF Init, AbsentBooking, MatchInv, OneLiveBooking, RequestTracksBooking, LiveOf, Live
  <1> QED
    BY <1>1, MatchNext, TypedAlways, PTL DEF Spec

\* A request never has two standing bookings, on one trip or on two.
THEOREM AtMostOneStandingBooking == Spec => []OneLiveBooking
  BY MatchAlways, PTL DEF MatchInv

\* The request of a standing booking carries its trip and its status.
THEOREM RequestsTrackBookings == Spec => []RequestTracksBooking
  BY MatchAlways, PTL DEF MatchInv

-----------------------------------------------------------------------------
(* A completed trip stays done: no booking joins it, because createMatch    *)
(* wants an active trip, and none of its bookings can be edited any more.   *)

\* A step that edits one standing booking that is not completed, on a trip that
\* no step completes.
LEMMA DoneEdit ==
  ASSUME Typed, CompletedTripIsDone, NEW b \in BookingIds, NEW e,
         SameLink(bookings[b], e), Live(b), bookings[b].status # "completed",
         bookings' = [bookings EXCEPT ![b] = e],
         \A t \in Trips : trips'[t].status = "completed" => trips[t].status = "completed"
  PROVE  CompletedTripIsDone'
  <1>1. /\ bookings[b].tripId \in Trips
        /\ trips[bookings[b].tripId].status # "completed"
    BY Exists DEF CompletedTripIsDone, Live
  <1>2. ASSUME NEW x \in BookingIds, Live(x)',
               trips'[bookings'[x].tripId].status = "completed"
        PROVE  bookings'[x].status = "completed"
    <2>1. CASE x = b
      <3>1. bookings'[x].tripId = bookings[b].tripId
        BY <2>1 DEF SameLink, Typed, TypeOK
      <3> QED
        BY <1>1, <1>2, <3>1
    <2>2. CASE x # b
      <3>1. bookings'[x] = bookings[x] /\ Live(x)
        BY <1>2, <2>2 DEF Typed, TypeOK, Live
      <3>2. bookings[x].tripId \in Trips
        BY <3>1, Exists DEF Live
      <3> QED
        BY <1>2, <3>1, <3>2 DEF CompletedTripIsDone
    <2> QED
      BY <2>1, <2>2
  <1> QED
    BY <1>2 DEF CompletedTripIsDone

LEMMA DoneComplete ==
  ASSUME Typed, CompletedTripIsDone, NEW u \in Users, NEW b \in BookingIds,
         CompleteBooking(u, b)
  PROVE  CompletedTripIsDone'
  <1> DEFINE t == bookings[b].tripId
             e == Completed(bookings[b])
  <1>1. Live(b) /\ bookings[b].status = "delivered" /\ WellFormed(bookings[b])
    BY DEF CompleteBooking, CanComplete, Live, Typed
  <1>2. t \in Trips
    BY <1>1 DEF WellFormed
  <1>3. SameLink(bookings[b], e)
    BY <1>1, CompletedType
  <1>4. bookings' = [bookings EXCEPT ![b] = e]
    BY DEF CompleteBooking, SaveAndSetRequest
  <1> HIDE DEF e
  <1>5. CASE TripDone(bookings', t)
    <2>1. trips' = [trips EXCEPT ![t].status = "completed"]
      BY <1>5 DEF CompleteBooking, MaybeCompleteTrip
    <2>2. ASSUME NEW x \in BookingIds, Live(x)',
                 trips'[bookings'[x].tripId].status = "completed"
          PROVE  bookings'[x].status = "completed"
      <3>1. CASE bookings'[x].tripId = t
        BY <1>5, <2>2, <3>1 DEF TripDone, Live
      <3>2. CASE bookings'[x].tripId # t
        <4>1. x # b
          BY <1>3, <1>4, <3>2 DEF SameLink, Typed, TypeOK
        <4>2. bookings'[x] = bookings[x] /\ Live(x)
          BY <1>4, <2>2, <4>1 DEF Typed, TypeOK, Live
        <4>3. bookings[x].tripId \in Trips
          BY <4>2, Exists DEF Live
        <4>4. trips[bookings[x].tripId].status = "completed"
          BY <2>1, <2>2, <3>2, <4>2, <4>3 DEF Typed, TypeOK
        <4> QED
          BY <4>2, <4>4 DEF CompletedTripIsDone
      <3> QED
        BY <3>1, <3>2
    <2> QED
      BY <2>2 DEF CompletedTripIsDone
  <1>6. CASE ~TripDone(bookings', t)
    <2>1. UNCHANGED trips
      BY <1>6 DEF CompleteBooking, MaybeCompleteTrip
    <2> QED
      BY <1>1, <1>3, <1>4, <2>1, DoneEdit
  <1> QED
    BY <1>5, <1>6

LEMMA DoneCreate ==
  ASSUME Typed, CompletedTripIsDone, NEW u \in Users, NEW b \in BookingIds,
         NEW r \in Requests, NEW t \in Trips, NEW fee \in Fees,
         CreateMatch(u, b, r, t, fee)
  PROVE  CompletedTripIsDone'
  <1> DEFINE e == NewBooking(r, t, fee)
  <1>1. e.tripId = t
    BY NewBookingType
  <1>2. /\ trips[t].status = "active"
        /\ bookings' = [bookings EXCEPT ![b] = e]
        /\ trips' = [trips EXCEPT ![t].matchedRequestsCount = @ + 1]
    BY DEF CreateMatch, TripMatchable
  <1> HIDE DEF e
  <1>3. \A x \in Trips : trips'[x].status = trips[x].status
    BY <1>2 DEF Typed, TypeOK, Trip
  <1>4. ASSUME NEW x \in BookingIds, Live(x)',
               trips'[bookings'[x].tripId].status = "completed"
        PROVE  bookings'[x].status = "completed"
    <2>1. CASE x = b
      BY <1>1, <1>2, <1>3, <1>4, <2>1 DEF Typed, TypeOK
    <2>2. CASE x # b
      <3>1. bookings'[x] = bookings[x] /\ Live(x)
        BY <1>2, <1>4, <2>2 DEF Typed, TypeOK, Live
      <3>2. bookings[x].tripId \in Trips
        BY <3>1, Exists DEF Live
      <3> QED
        BY <1>3, <1>4, <3>1, <3>2 DEF CompletedTripIsDone
    <2> QED
      BY <2>1, <2>2
  <1> QED
    BY <1>4 DEF CompletedTripIsDone

LEMMA DoneBookingNext == Typed /\ CompletedTripIsDone /\ BookingNext => CompletedTripIsDone'
  <1> SUFFICES ASSUME Typed, CompletedTripIsDone, NEW b \in BookingIds, NEW u \in Users,
                      \/ \E r \in Requests, t \in Trips, fee \in Fees :
                           CreateMatch(u, b, r, t, fee)
                      \/ AcceptBooking(u, b)
                      \/ \E fee \in Fees : CounterOffer(u, b, fee)
                      \/ DeclineBooking(u, b)
                      \/ AcceptCounter(u, b)
                      \/ MarkInTransit(u, b)
                      \/ SubmitProofOfDelivery(u, b)
                      \/ CompleteBooking(u, b)
                      \/ RaiseDispute(u, b)
                      \/ CancelBooking(u, b)
               PROVE  CompletedTripIsDone'
    BY DEF BookingNext
  <1>w. WellFormed(bookings[b])
    BY DEF Typed
  <1>1. ASSUME AcceptBooking(u, b)
        PROVE  CompletedTripIsDone'
    <2>1. /\ Live(b) /\ bookings[b].status \notin {"absent", "completed"}
      BY <1>1 DEF AcceptBooking, CanAccept, AcceptableStatuses, Live
    <2>2. /\ SameLink(bookings[b], Accepted(bookings[b]))
          /\ bookings' = [bookings EXCEPT ![b] = Accepted(bookings[b])]
      BY <1>1, <1>w, <2>1, AcceptedType DEF AcceptBooking, SaveAndSetRequest
    <2>3. \A t \in Trips : trips'[t].status = trips[t].status
      BY <1>1 DEF AcceptBooking
    <2> QED
      BY <2>1, <2>2, <2>3, DoneEdit
  <1>2. ASSUME NEW fee \in Fees, CounterOffer(u, b, fee)
        PROVE  CompletedTripIsDone'
    <2>1. /\ Live(b) /\ bookings[b].status \notin {"absent", "completed"}
      BY <1>2 DEF CounterOffer, CanCounter, Live
    <2>2. /\ SameLink(bookings[b], Countered(bookings[b], fee))
          /\ bookings' = [bookings EXCEPT ![b] = Countered(bookings[b], fee)]
      BY <1>2, <1>w, <2>1, CounteredType DEF CounterOffer, SaveAndSetRequest
    <2>3. \A t \in Trips : trips'[t].status = trips[t].status
      BY <1>2 DEF CounterOffer
    <2> QED
      BY <2>1, <2>2, <2>3, DoneEdit
  <1>3. ASSUME DeclineBooking(u, b)
        PROVE  CompletedTripIsDone'
    <2>1. /\ Live(b) /\ bookings[b].status \notin {"absent", "completed"}
      BY <1>3 DEF DeclineBooking, CanDecline, AcceptableStatuses, Live
    <2>2. /\ SameLink(bookings[b], Declined(bookings[b]))
          /\ bookings' = [bookings EXCEPT ![b] = Declined(bookings[b])]
      BY <1>3, <1>w, <2>1, DeclinedIsCancelled, CancelledType DEF DeclineBooking, SaveAndSetRequest
    <2>3. \A t \in Trips : trips'[t].status = trips[t].status
      BY <1>3, <2>1, Exists DEF DeclineBooking, RevertMatch, Typed, TypeOK, Trip
    <2> QED
      BY <2>1, <2>2, <2>3, DoneEdit
  <1>4. ASSUME AcceptCounter(u, b)
        PROVE  CompletedTripIsDone'
    <2>1. /\ Live(b) /\ bookings[b].status \notin {"absent", "completed"}
      BY <1>4 DEF AcceptCounter, CanAcceptCounter, Live
    <2>2. /\ SameLink(bookings[b], CounterAccepted(bookings[b]))
          /\ bookings' = [bookings EXCEPT ![b] = CounterAccepted(bookings[b])]
      BY <1>4, <1>w, <2>1, CounterAcceptedType DEF AcceptCounter, SaveAndSetRequest
    <2>3. \A t \in Trips : trips'[t].status = trips[t].status
      BY <1>4 DEF AcceptCounter
    <2> QED
      BY <2>1, <2>2, <2>3, DoneEdit
  <1>5. ASSUME MarkInTransit(u, b)
        PROVE  CompletedTripIsDone'
    <2>1. /\ Live(b) /\ bookings[b].status \notin {"absent", "completed"}
      BY <1>5 DEF MarkInTransit, CanMarkInTransit, Live
    <2>2. /\ SameLink(bookings[b], InTransit(bookings[b]))
          /\ bookings' = [bookings EXCEPT ![b] = InTransit(bookings[b])]
      BY <1>5, <1>w, <2>1, InTransitType DEF MarkInTransit, SaveAndSetRequest
    <2>3. \A t \in Trips : trips'[t].status = trips[t].status
      BY <1>5 DEF MarkInTransit
    <2> QED
      BY <2>1, <2>2, <2>3, DoneEdit
  <1>6. ASSUME SubmitProofOfDelivery(u, b)
        PROVE  CompletedTripIsDone'
    <2>1. /\ Live(b) /\ bookings[b].status \notin {"absent", "completed"}
      BY <1>6 DEF SubmitProofOfDelivery, CanSubmitProof, Live
    <2>2. /\ SameLink(bookings[b], Delivered(bookings[b]))
          /\ bookings' = [bookings EXCEPT ![b] = Delivered(bookings[b])]
      BY <1>6, <1>w, <2>1, DeliveredType DEF SubmitProofOfDelivery, SaveAndSetRequest
    <2>3. \A t \in Trips : trips'[t].status = trips[t].status
      BY <1>6 DEF SubmitProofOfDelivery
    <2> QED
      BY <2>1, <2>2, <2>3, DoneEdit
  <1>7. ASSUME RaiseDispute(u, b)
        PROVE  CompletedTripIsDone'
    <2>1. /\ Live(b) /\ bookings[b].status \notin {"absent", "completed"}
      BY <1>7 DEF RaiseDispute, CanDispute, DisputableStatuses, Live
    <2>2. /\ SameLink(bookings[b], Disputed(bookings[b], u))
          /\ bookings' = [bookings EXCEPT ![b] = Disputed(bookings[b], u)]
      BY <1>7, <1>w, <2>1, DisputedType DEF RaiseDispute, SaveAndSetRequest
    <2>3. \A t \in Trips : trips'[t].status = trips[t].status
      BY <1>7 DEF RaiseDispute
    <2> QED
      BY <2>1, <2>2, <2>3, DoneEdit
  <1>8. ASSUME CancelBooking(u, b)
        PROVE  CompletedTripIsDone'
    <2>1. /\ Live(b) /\ bookings[b].status \notin {"absent", "completed"}
      BY <1>8 DEF CancelBooking, CanCancel, CancellableStatuses, Live
    <2>2. /\ SameLink(bookings[b], Cancelled(bookings[b], u))
          /\ bookings' = [bookings EXCEPT ![b] = Cancelled(bookings[b], u)]
      BY <1>8, <1>w, <2>1, CancelledType DEF CancelBooking, SaveAndSetRequest
    <2>3. \A t \in Trips : trips'[t].status = trips[t].status
      BY <1>8, <2>1, Exists DEF CancelBooking, RevertMatch, Typed, TypeOK, Trip
    <2> QED
      BY <2>1, <2>2, <2>3, DoneEdit
  <1> QED
    BY <1>1, <1>2, <1>3, <1>4, <1>5, <1>6, <1>7, <1>8, DoneComplete, DoneCreate

LEMMA DoneNext == Typed /\ CompletedTripIsDone /\ [Next]_vars => CompletedTripIsDone'
  <1> SUFFICES ASSUME Typed, CompletedTripIsDone, [Next]_vars PROVE CompletedTripIsDone'
    OBVIOUS
  <1>1. CASE UNCHANGED <<trips, bookings>>
    BY <1>1 DEF CompletedTripIsDone, Live
  <1>2. CASE TripNext
    <2>1. PICK t \in Trips : CreateTrip(t) \/ \E u \in Users : CancelTrip(u, t)
      BY <1>2 DEF TripNext
    <2>2. /\ UNCHANGED bookings
          /\ \A x \in Trips : trips'[x].status = "completed" => trips[x].status = "completed"
      BY <2>1 DEF CreateTrip, CancelTrip, Typed, TypeOK, Trip
    <2>3. \A x \in BookingIds : Live(x) => bookings[x].tripId \in Trips
      BY Exists DEF Live
    <2> QED
      BY <2>2, <2>3 DEF CompletedTripIsDone, Live
  <1>3. CASE ResolveNext
    <2>1. PICK b \in BookingIds, a \in ResolutionArgs : ResolveDispute(b, a[1], a[2])
      BY <1>3 DEF ResolveNext
    <2> DEFINE e == Resolved(bookings[b], a[1], a[2])
    <2>2. bookings[b].status = "disputed" /\ WellFormed(bookings[b]) /\ Live(b)
      BY <2>1 DEF ResolveDispute, CanResolve, Typed, Live
    <2>3. SameLink(bookings[b], e)
      BY <2>2, ResolutionArgTypes, ResolvedType
    <2>4. bookings' = [bookings EXCEPT ![b] = e] /\ UNCHANGED trips
      BY <2>1 DEF ResolveDispute
    <2> HIDE DEF e
    <2> QED
      BY <2>2, <2>3, <2>4, DoneEdit
  <1>4. CASE PaymentNext
    <2>1. \/ UNCHANGED <<trips, bookings>>
          \/ \E i \in IntentIds : /\ intents[i].status = "succeeded"
                                 /\ MarkAsPaid(intents[i].bookingId, i)
      BY <1>4 DEF PaymentNext, CreateIntent, CapturePayment, HandleWebhook, ConfirmPayment
    <2>2. ASSUME NEW i \in IntentIds, intents[i].status = "succeeded",
                 MarkAsPaid(intents[i].bookingId, i)
          PROVE  CompletedTripIsDone'
      <3> DEFINE b == intents[i].bookingId
      <3>1. b \in BookingIds
        BY <2>2 DEF Typed
      <3>2. bookings[b].status = "confirmed" /\ WellFormed(bookings[b]) /\ Live(b)
        BY <2>2, <3>1 DEF MarkAsPaid, CanMarkPaid, Typed, Live
      <3>3. SameLink(bookings[b], Paid(bookings[b], i))
        BY <3>2, PaidType
      <3>4. bookings' = [bookings EXCEPT ![b] = Paid(bookings[b], i)] /\ UNCHANGED trips
        BY <2>2 DEF MarkAsPaid
      <3> HIDE DEF b
      <3> QED
        BY <3>1, <3>2, <3>3, <3>4, DoneEdit
    <2> QED
      BY <1>1, <2>1, <2>2
  <1> QED
    BY <1>1, <1>2, <1>3, <1>4, DoneBookingNext
    DEF Next, vars, RequestNext, CreateRequest, UpdateRequest, ApproveSupportRequest,
        RejectSupportRequest, CancelRequest

\* Once maybeCompleteTrip has completed a trip, every standing booking on it is
\* completed and stays so.
THEOREM CompletedTripsAreDone == Spec => []CompletedTripIsDone
  <1>1. Init => CompletedTripIsDone
    BY DEF Init, AbsentBooking, CompletedTripIsDone, Live
  <1> QED
    BY <1>1, DoneNext, TypedAlways, PTL DEF Spec

-----------------------------------------------------------------------------
(* The count a trip keeps of its matches is the number of its matches.      *)

Matches(t) ==
  {b \in BookingIds : bookings[b].tripId = t /\ bookings[b].cancelledBy = NoId}

\* Inductive with Typed: only a cancelled booking says who cancelled it, so a
\* cancellation takes a booking out of Matches that was in it.
CountInv ==
  /\ \A b \in BookingIds :
       bookings[b].status # "cancelled" => bookings[b].cancelledBy = NoId
  /\ \A t \in Trips : trips[t].matchedRequestsCount = Cardinality(Matches(t))

LEMMA MatchesFinite ==
  ASSUME NEW t
  PROVE  IsFiniteSet(Matches(t)) /\ Cardinality(Matches(t)) \in Nat
  <1>1. Matches(t) \subseteq BookingIds
    BY DEF Matches
  <1> QED
    BY <1>1, BookingIdsAssumption, FS_Subset, FS_CardinalityType

\* An edit that keeps who cancelled, next to trips that keep their counts.
LEMMA CountKept ==
  ASSUME Typed, CountInv, NEW b \in BookingIds, NEW e,
         bookings' = [bookings EXCEPT ![b] = e],
         SameLink(bookings[b], e), e.cancelledBy = bookings[b].cancelledBy,
         e.status # "cancelled" => bookings[b].status # "cancelled",
         \A t \in Trips : trips'[t].matchedRequestsCount = trips[t].matchedRequestsCount
  PROVE  CountInv'
  <1>1. \A x \in BookingIds : bookings'[x] = IF x = b THEN e ELSE bookings[x]
    BY DEF Typed, TypeOK
  <1>2. ASSUME NEW t \in Trips
        PROVE  Matches(t)' = Matches(t)
    BY <1>1 DEF Matches, SameLink
  <1>3. \A t \in Trips : trips'[t].matchedRequestsCount = Cardinality(Matches(t)')
    BY <1>2 DEF CountInv
  <1> QED
    BY <1>1, <1>3 DEF CountInv

LEMMA CountCreate ==
  ASSUME Typed, CountInv, NEW u \in Users, NEW b \in BookingIds, NEW r \in Requests,
         NEW t \in Trips, NEW fee \in Fees, CreateMatch(u, b, r, t, fee)
  PROVE  CountInv'
  <1> DEFINE e == NewBooking(r, t, fee)
  <1>1. e.tripId = t /\ e.status = "pending_acceptance"
    BY NewBookingType
  <1>2. e.cancelledBy = NoId
    BY DEF NewBooking, AbsentBooking
  <1> HIDE DEF e
  <1>3. \A x \in BookingIds : bookings'[x] = IF x = b THEN e ELSE bookings[x]
    BY DEF CreateMatch, e, Typed, TypeOK
  <1>4. bookings[b].tripId = NoId
    BY DEF CreateMatch, Typed, WellFormed, AbsentBooking
  <1>5. Matches(t)' = Matches(t) \cup {b} /\ b \notin Matches(t)
    BY <1>1, <1>2, <1>3, <1>4, IdsAssumption DEF Matches
  <1>6. Cardinality(Matches(t)') = Cardinality(Matches(t)) + 1
    BY <1>5, MatchesFinite, FS_AddElement
  <1>7. ASSUME NEW x \in Trips, x # t
        PROVE  Matches(x)' = Matches(x)
    BY <1>1, <1>3, <1>4, <1>7, IdsAssumption DEF Matches
  <1>8. \A x \in Trips : trips'[x].matchedRequestsCount =
          IF x = t THEN trips[t].matchedRequestsCount + 1 ELSE trips[x].matchedRequestsCount
    BY DEF CreateMatch, Typed, TypeOK, Trip
  <1>9. \A x \in Trips : trips'[x].matchedRequestsCount = Cardinality(Matches(x)')
    BY <1>6, <1>7, <1>8 DEF CountInv
  <1> QED
    BY <1>1, <1>2, <1>3, <1>9 DEF CountInv

\* Declined or cancelled: the match is taken back from the trip's count.
LEMMA CountCancel ==
  ASSUME Typed, CountInv, NEW b \in BookingIds, NEW u \in Users,
         bookings[b].status \notin {"absent", "cancelled"},
         bookings' = [bookings EXCEPT ![b] = Cancelled(bookings[b], u)],
         RevertMatch(bookings[b].requestId, bookings[b].tripId)
  PROVE  CountInv'
  <1> DEFINE t == bookings[b].tripId
             e == Cancelled(bookings[b], u)
  <1>1. bookings[b] \in Booking /\ t \in Trips
    BY DEF Typed, WellFormed
  <1>2. e.tripId = t /\ e.status = "cancelled" /\ e.cancelledBy = u /\ u # NoId
    BY <1>1, IdsAssumption DEF Cancelled, Booking
  <1> HIDE DEF e
  <1>3. \A x \in BookingIds : bookings'[x] = IF x = b THEN e ELSE bookings[x]
    BY DEF e, Typed, TypeOK
  <1>4. PICK trip \in Trips : trip = t
    BY <1>1
  <1>5. Matches(trip)' = Matches(trip) \ {b} /\ b \in Matches(trip)
    BY <1>2, <1>3, <1>4 DEF Matches, CountInv
  <1>6. Cardinality(Matches(trip)') = Cardinality(Matches(trip)) - 1
    BY <1>5, MatchesFinite, FS_RemoveElement
  <1>7. ASSUME NEW x \in Trips, x # trip
        PROVE  Matches(x)' = Matches(x)
    BY <1>2, <1>3, <1>4, <1>7 DEF Matches
  <1>8. \A x \in Trips : trips'[x].matchedRequestsCount =
          IF x = trip THEN Decremented(trips[trip].matchedRequestsCount)
          ELSE trips[x].matchedRequestsCount
    BY <1>4 DEF RevertMatch, Typed, TypeOK, Trip
  <1>9. trips[trip].matchedRequestsCount # 0
    BY <1>5, MatchesFinite, FS_EmptySet DEF CountInv
  <1>10. \A x \in Trips : trips'[x].matchedRequestsCount = Cardinality(Matches(x)')
    BY <1>6, <1>7, <1>8, <1>9 DEF CountInv, Decremented
  <1> QED
    BY <1>2, <1>3, <1>10 DEF CountInv

\* The other edits leave alone who cancelled, and cancel only to refund.
LEMMA OthersKeepCanceller ==
  ASSUME NEW d \in Booking, NEW u, NEW fee, NEW i, NEW resolution, NEW amount
  PROVE  /\ Accepted(d).cancelledBy = d.cancelledBy
         /\ CounterAccepted(d).cancelledBy = d.cancelledBy
         /\ Countered(d, fee).cancelledBy = d.cancelledBy
         /\ Paid(d, i).cancelledBy = d.cancelledBy
         /\ InTransit(d).cancelledBy = d.cancelledBy
         /\ Delivered(d).cancelledBy = d.cancelledBy
         /\ Completed(d).cancelledBy = d.cancelledBy
         /\ Disputed(d, u).cancelledBy = d.cancelledBy
         /\ Resolved(d, resolution, amount).cancelledBy = d.cancelledBy
  BY DEF Accepted, CounterAccepted, ApplyCommission, Countered, Paid, InTransit,
         Delivered, Completed, Disputed, Resolved, Booking

LEMMA CountBookingNext == Typed /\ CountInv /\ BookingNext => CountInv'
  <1> SUFFICES ASSUME Typed, CountInv, NEW b \in BookingIds, NEW u \in Users,
                      \/ \E r \in Requests, t \in Trips, fee \in Fees :
                           CreateMatch(u, b, r, t, fee)
                      \/ AcceptBooking(u, b)
                      \/ \E fee \in Fees : CounterOffer(u, b, fee)
                      \/ DeclineBooking(u, b)
                      \/ AcceptCounter(u, b)
                      \/ MarkInTransit(u, b)
                      \/ SubmitProofOfDelivery(u, b)
                      \/ CompleteBooking(u, b)
                      \/ RaiseDispute(u, b)
                      \/ CancelBooking(u, b)
               PROVE  CountInv'
    BY DEF BookingNext
  <1> DEFINE d == bookings[b]
  <1>w. WellFormed(d) /\ d \in Booking
    BY DEF Typed, TypeOK
  <1>1. CASE AcceptBooking(u, b)
    <2>1. /\ d.status \in AcceptableStatuses /\ UNCHANGED trips
          /\ bookings' = [bookings EXCEPT ![b] = Accepted(d)]
      BY <1>1 DEF AcceptBooking, CanAccept, SaveAndSetRequest
    <2> QED
      BY <1>w, <2>1, AcceptedType, OthersKeepCanceller, CountKept DEF AcceptableStatuses
  <1>2. CASE AcceptCounter(u, b)
    <2>1. /\ d.status = "countered" /\ UNCHANGED trips
          /\ bookings' = [bookings EXCEPT ![b] = CounterAccepted(d)]
      BY <1>2 DEF AcceptCounter, CanAcceptCounter, SaveAndSetRequest
    <2> QED
      BY <1>w, <2>1, CounterAcceptedType, OthersKeepCanceller, CountKept
  <1>3. ASSUME NEW fee \in Fees, CounterOffer(u, b, fee)
        PROVE  CountInv'
    <2>1. /\ d.status = "pending_acceptance" /\ UNCHANGED trips
          /\ bookings' = [bookings EXCEPT ![b] = Countered(d, fee)]
      BY <1>3 DEF CounterOffer, CanCounter
    <2> QED
      BY <1>w, <2>1, CounteredType, OthersKeepCanceller, CountKept
  <1>4. CASE DeclineBooking(u, b)
    <2>1. /\ d.status \in AcceptableStatuses /\ RevertMatch(d.requestId, d.tripId)
          /\ bookings' = [bookings EXCEPT ![b] = Declined(d)]
      BY <1>4 DEF DeclineBooking, CanDecline
    <2> QED
      BY <1>w, <2>1, DeclinedIsCancelled, CountCancel DEF AcceptableStatuses
  <1>5. CASE CancelBooking(u, b)
    <2>1. /\ d.status \in CancellableStatuses /\ RevertMatch(d.requestId, d.tripId)
          /\ bookings' = [bookings EXCEPT ![b] = Cancelled(d, u)]
      BY <1>5 DEF CancelBooking, CanCancel
    <2> QED
      BY <2>1, CountCancel DEF CancellableStatuses
  <1>6. CASE MarkInTransit(u, b)
    <2>1. /\ d.status = "paid" /\ UNCHANGED trips
          /\ bookings' = [bookings EXCEPT ![b] = InTransit(d)]
      BY <1>6 DEF MarkInTransit, CanMarkInTransit, SaveAndSetRequest
    <2> QED
      BY <1>w, <2>1, InTransitType, OthersKeepCanceller, CountKept
  <1>7. CASE SubmitProofOfDelivery(u, b)
    <2>1. /\ d.status = "in_transit" /\ UNCHANGED trips
          /\ bookings' = [bookings EXCEPT ![b] = Delivered(d)]
      BY <1>7 DEF SubmitProofOfDelivery, CanSubmitProof, SaveAndSetRequest
    <2> QED
      BY <1>w, <2>1, DeliveredType, OthersKeepCanceller, CountKept
  <1>8. CASE CompleteBooking(u, b)
    <2>1. /\ d.status = "delivered" /\ MaybeCompleteTrip(d.tripId)
          /\ bookings' = [bookings EXCEPT ![b] = Completed(d)]
      BY <1>8 DEF CompleteBooking, CanComplete, SaveAndSetRequest
    <2>2. \A t \in Trips : trips'[t].matchedRequestsCount = trips[t].matchedRequestsCount
      BY <2>1 DEF MaybeCompleteTrip, Typed, TypeOK, Trip
    <2> QED
      BY <1>w, <2>1, <2>2, CompletedType, OthersKeepCanceller, CountKept
  <1>9. CASE RaiseDispute(u, b)
    <2>1. /\ d.status \in DisputableStatuses /\ UNCHANGED trips
          /\ bookings' = [bookings EXCEPT ![b] = Disputed(d, u)]
      BY <1>9 DEF RaiseDispute, CanDispute
    <2> QED
      BY <1>w, <2>1, DisputedType, OthersKeepCanceller, CountKept DEF DisputableStatuses
  <1> QED
    BY <1>1, <1>2, <1>3, <1>4, <1>5, <1>6, <1>7, <1>8, <1>9, CountCreate

LEMMA CountNext == Typed /\ CountInv /\ [Next]_vars => CountInv'
  <1> SUFFICES ASSUME Typed, CountInv, [Next]_vars PROVE CountInv'
    OBVIOUS
  <1>1. CASE UNCHANGED <<trips, bookings>>
    BY <1>1 DEF CountInv, Matches
  <1>2. RequestNext \/ UNCHANGED vars => UNCHANGED <<trips, bookings>>
    BY DEF RequestNext, vars, CreateRequest, UpdateRequest, ApproveSupportRequest,
           RejectSupportRequest, CancelRequest
  <1>3. CASE TripNext
    <2>1. PICK t \in Trips : CreateTrip(t) \/ \E u \in Users : CancelTrip(u, t)
      BY <1>3 DEF TripNext
    <2>2. /\ UNCHANGED bookings
          /\ \A x \in Trips : trips'[x].matchedRequestsCount = trips[x].matchedRequestsCount
      BY <2>1 DEF CreateTrip, CancelTrip, Typed, TypeOK, Trip
    <2> QED
      BY <2>2 DEF CountInv, Matches
  <1>4. CASE ResolveNext
    <2>1. PICK b \in BookingIds, a \in ResolutionArgs : ResolveDispute(b, a[1], a[2])
      BY <1>4 DEF ResolveNext
    <2> DEFINE e == Resolved(bookings[b], a[1], a[2])
    <2>2. /\ bookings[b].status = "disputed" /\ WellFormed(bookings[b])
          /\ bookings[b] \in Booking
          /\ bookings' = [bookings EXCEPT ![b] = e] /\ UNCHANGED trips
      BY <2>1 DEF ResolveDispute, CanResolve, Typed, TypeOK
    <2>3. SameLink(bookings[b], e) /\ e.cancelledBy = bookings[b].cancelledBy
      BY <2>2, ResolutionArgTypes, ResolvedType, OthersKeepCanceller
    <2> HIDE DEF e
    <2> QED
      BY <2>2, <2>3, CountKept
  <1>5. CASE PaymentNext
    <2>1. \/ UNCHANGED <<trips, bookings>>
          \/ \E i \in IntentIds : /\ intents[i].status = "succeeded"
                                 /\ MarkAsPaid(intents[i].bookingId, i)
      BY <1>5 DEF PaymentNext, CreateIntent, CapturePayment, HandleWebhook, ConfirmPayment
    <2>2. ASSUME NEW i \in IntentIds, intents[i].status = "succeeded",
                 MarkAsPaid(intents[i].bookingId, i)
          PROVE  CountInv'
      <3>1. PICK b \in BookingIds : b = intents[i].bookingId
        BY <2>2 DEF Typed
      <3>2. /\ bookings[b].status = "confirmed" /\ WellFormed(bookings[b])
            /\ bookings[b] \in Booking
            /\ bookings' = [bookings EXCEPT ![b] = Paid(bookings[b], i)] /\ UNCHANGED trips
        BY <2>2, <3>1 DEF MarkAsPaid, CanMarkPaid, Typed, TypeOK
      <3>3. /\ SameLink(bookings[b], Paid(bookings[b], i))
            /\ Paid(bookings[b], i).cancelledBy = bookings[b].cancelledBy
        BY <3>2, PaidType, OthersKeepCanceller
      <3> QED
        BY <3>2, <3>3, CountKept
    <2> QED
      BY <1>1, <2>1, <2>2
  <1> QED
    BY <1>1, <1>2, <1>3, <1>4, <1>5, CountBookingNext DEF Next

\* matchedRequestsCount counts the matches nobody declined or cancelled.
THEOREM TripCountsAreRight == Spec => []TripCountsItsMatches
  <1>1. Init => CountInv
    <2> SUFFICES ASSUME Init PROVE CountInv
      OBVIOUS
    <2>1. \A t \in Trips : Matches(t) = {}
      BY IdsAssumption DEF Init, AbsentBooking, Matches
    <2> QED
      BY <2>1, FS_EmptySet DEF Init, AbsentBooking, AbsentTrip, CountInv
  <1>2. CountInv => TripCountsItsMatches
    BY DEF CountInv, Matches, TripCountsItsMatches
  <1> QED
    BY <1>1, <1>2, CountNext, TypedAlways, PTL DEF Spec

-----------------------------------------------------------------------------
(* The inductive invariant of the money.                                    *)

\* A payment may be asked for from here on.
AgreedStatuses == FundedStatuses \cup {"confirmed"}

\* The fees that a handler may still agree on are fees a user typed.
FeesOffered(d) ==
  /\ d.status \in AcceptableStatuses => d.offeredFee >= 100
  /\ d.status = "countered" => d.counterFee >= 100

\* The agreed fee is a fee a user typed, and is shared out.
FeeAgreed(d) ==
  /\ d.agreedFee >= 100
  /\ d.platformCommission + d.travelerPayout = d.agreedFee

\* A booking d under the id b, next to the PaymentIntents pis.
BookingFunded(b, d, pis) ==
  /\ FeesOffered(d)
  /\ d.status \in AgreedStatuses => FeeAgreed(d)
  /\ d.status \in FundedStatuses => d.paymentIntentId # NoId
  /\ d.status # "cancelled" => d.refundAmount = 0
  /\ d.paymentIntentId # NoId =>
       /\ d.status \in FundedStatuses \cup {"cancelled"}
       /\ pis[d.paymentIntentId].status = "succeeded"
       /\ pis[d.paymentIntentId].bookingId = b
       /\ Cents(d.refundAmount) \in 0 .. pis[d.paymentIntentId].amount

\* The PaymentIntent pi under the id i, next to the booking d it names: made for
\* the agreed fee, and refunded by what the booking it pays says was refunded.
IntentBacked(i, pi, d) ==
  /\ d.status \in AgreedStatuses \cup {"cancelled"}
  /\ FeeAgreed(d)
  /\ pi.amount = Cents(d.agreedFee)
  /\ pi.refunded = IF d.paymentIntentId = i THEN Cents(d.refundAmount) ELSE 0

FundInv ==
  /\ \A b \in BookingIds : BookingFunded(b, bookings[b], intents)
  /\ \A i \in IntentIds : intents[i].status # "absent" =>
       IntentBacked(i, intents[i], bookings[intents[i].bookingId])

-----------------------------------------------------------------------------
(* What the edits do to money.                                              *)

SameMoney(d, e) ==
  /\ e.agreedFee = d.agreedFee
  /\ e.platformCommission = d.platformCommission
  /\ e.travelerPayout = d.travelerPayout
  /\ e.paymentIntentId = d.paymentIntentId
  /\ e.refundAmount = d.refundAmount

\* The edits that only move the booking on, or only name another fee.
LEMMA MovesKeepMoney ==
  ASSUME NEW d \in Booking, NEW u, NEW fee
  PROVE  /\ SameMoney(d, Countered(d, fee))
         /\ Countered(d, fee).offeredFee = d.offeredFee
         /\ Countered(d, fee).counterFee = fee
         /\ SameMoney(d, Cancelled(d, u))
         /\ SameMoney(d, InTransit(d))
         /\ SameMoney(d, Delivered(d))
         /\ SameMoney(d, Completed(d))
         /\ SameMoney(d, Disputed(d, u))
  BY DEF SameMoney, Countered, Cancelled, InTransit, Delivered, Completed, Disputed,
         Booking

\* Both ways to agree set the fee and share it out; nothing is paid yet.
LEMMA AgreementMoney ==
  ASSUME NEW d, WellFormed(d), FeesOffered(d), d.status \in AcceptableStatuses
  PROVE  /\ FeeAgreed(Accepted(d))
         /\ Accepted(d).paymentIntentId = d.paymentIntentId
         /\ Accepted(d).refundAmount = d.refundAmount
         /\ d.status = "countered" =>
              /\ FeeAgreed(CounterAccepted(d))
              /\ CounterAccepted(d).paymentIntentId = d.paymentIntentId
              /\ CounterAccepted(d).refundAmount = d.refundAmount
  <1>1. ASSUME NEW fee \in Nat, fee >= 100
        PROVE  LET e == [ApplyCommission(d, fee) EXCEPT !.status = "confirmed"]
               IN /\ FeeAgreed(e)
                  /\ e.paymentIntentId = d.paymentIntentId
                  /\ e.refundAmount = d.refundAmount
    <2> DEFINE c == (fee * CommissionPct) \div 100
               a == ApplyCommission(d, fee)
    <2>1. d \in Booking
      BY DEF WellFormed
    <2>2. a \in Booking /\ a.agreedFee = fee
                        /\ a.platformCommission + a.travelerPayout = fee
      BY <1>1, <2>1, CommissionType
    <2>3. a.paymentIntentId = d.paymentIntentId /\ a.refundAmount = d.refundAmount
      <3>1. a = [d EXCEPT !.agreedFee = fee, !.platformCommission = c,
                          !.travelerPayout = fee - c]
        BY DEF ApplyCommission
      <3> HIDE DEF a, c
      <3> QED
        BY <2>1, <3>1 DEF Booking
    <2> HIDE DEF a
    <2>4. LET e == [a EXCEPT !.status = "confirmed"]
          IN /\ FeeAgreed(e)
             /\ e.paymentIntentId = d.paymentIntentId
             /\ e.refundAmount = d.refundAmount
      BY <1>1, <2>2, <2>3 DEF FeeAgreed, Booking
    <2> QED
      BY <2>4 DEF a
  <1>2. FeeOnAccept(d) \in Nat /\ FeeOnAccept(d) >= 100
    BY DEF FeeOnAccept, FeesOffered, AcceptableStatuses, WellFormed, Booking
  <1>3. d.status = "countered" => d.counterFee \in Nat /\ d.counterFee >= 100
    BY DEF FeesOffered, WellFormed, Booking
  <1>4. d.status = "countered" => FeeOnAccept(d) = d.counterFee
    BY DEF FeeOnAccept
  <1> QED
    BY <1>1, <1>2, <1>3, <1>4 DEF Accepted, CounterAccepted

-----------------------------------------------------------------------------
(* Steps on one booking.                                                    *)

LEMMA FundEdit ==
  ASSUME Typed, FundInv, NEW b \in BookingIds, NEW e,
         bookings' = [bookings EXCEPT ![b] = e], UNCHANGED intents,
         BookingFunded(b, e, intents),
         \A i \in IntentIds :
           intents[i].status # "absent" /\ intents[i].bookingId = b
             => IntentBacked(i, intents[i], e)
  PROVE  FundInv'
  <1>1. \A x \in BookingIds : bookings'[x] = IF x = b THEN e ELSE bookings[x]
    BY DEF Typed, TypeOK
  <1>2. \A x \in BookingIds : BookingFunded(x, bookings'[x], intents')
    BY <1>1 DEF FundInv
  <1>3. ASSUME NEW i \in IntentIds, intents'[i].status # "absent"
        PROVE  IntentBacked(i, intents'[i], bookings'[intents'[i].bookingId])
    <2>1. intents'[i] = intents[i] /\ intents[i].bookingId \in BookingIds
      BY <1>3 DEF Typed
    <2> QED
      BY <1>1, <1>3, <2>1 DEF FundInv
  <1> QED
    BY <1>2, <1>3 DEF FundInv

\* A handler that moves a booking on and leaves its money alone.
LEMMA FundMoves ==
  ASSUME Typed, FundInv, NEW b \in BookingIds, NEW e,
         bookings' = [bookings EXCEPT ![b] = e], UNCHANGED intents,
         SameMoney(bookings[b], e), FeesOffered(e),
         bookings[b].status # "cancelled",
         e.status \in FundedStatuses <=> bookings[b].status \in FundedStatuses,
         e.status \in AgreedStatuses => bookings[b].status \in AgreedStatuses,
         bookings[b].status \in AgreedStatuses => e.status \in AgreedStatuses \cup {"cancelled"}
  PROVE  FundInv'
  <1> DEFINE d == bookings[b]
  <1>1. BookingFunded(b, d, intents)
    BY DEF FundInv
  <1>2. BookingFunded(b, e, intents)
    BY <1>1 DEF BookingFunded, SameMoney, FeeAgreed
  <1>3. ASSUME NEW i \in IntentIds, intents[i].status # "absent", intents[i].bookingId = b
        PROVE  IntentBacked(i, intents[i], e)
    <2>1. IntentBacked(i, intents[i], d)
      BY <1>3 DEF FundInv
    <2> QED
      BY <2>1 DEF IntentBacked, SameMoney, FeeAgreed
  <1> QED
    BY <1>2, <1>3, FundEdit

\* A handler that agrees on a fee: no payment has been asked for before.
LEMMA FundAgrees ==
  ASSUME Typed, FundInv, NEW b \in BookingIds, NEW e,
         bookings' = [bookings EXCEPT ![b] = e], UNCHANGED intents,
         bookings[b].status \in AcceptableStatuses,
         e.status = "confirmed", FeeAgreed(e),
         e.paymentIntentId = bookings[b].paymentIntentId,
         e.refundAmount = bookings[b].refundAmount
  PROVE  FundInv'
  <1> DEFINE d == bookings[b]
  <1>1. BookingFunded(b, d, intents)
    BY DEF FundInv
  <1>2. BookingFunded(b, e, intents)
    BY <1>1 DEF BookingFunded, FeesOffered, AcceptableStatuses, AgreedStatuses, FundedStatuses
  <1>3. ASSUME NEW i \in IntentIds, intents[i].status # "absent", intents[i].bookingId = b
        PROVE  FALSE
    <2>1. IntentBacked(i, intents[i], d)
      BY <1>3 DEF FundInv
    <2> QED
      BY <2>1 DEF IntentBacked, AcceptableStatuses, AgreedStatuses, FundedStatuses
  <1> QED
    BY <1>2, <1>3, FundEdit

LEMMA FundCreateMatch ==
  ASSUME Typed, FundInv, NEW u \in Users, NEW b \in BookingIds, NEW r \in Requests,
         NEW t \in Trips, NEW fee \in Fees, CreateMatch(u, b, r, t, fee)
  PROVE  FundInv'
  <1> DEFINE e == NewBooking(r, t, fee)
  <1>1. bookings' = [bookings EXCEPT ![b] = e] /\ UNCHANGED intents
    BY DEF CreateMatch
  <1>2. /\ e.status = "pending_acceptance" /\ e.offeredFee = fee
        /\ e.paymentIntentId = NoId /\ e.refundAmount = 0
    BY DEF NewBooking, AbsentBooking
  <1>3. BookingFunded(b, e, intents)
    BY <1>2, MoneyAssumption DEF BookingFunded, FeesOffered, AgreedStatuses, FundedStatuses
  <1>4. \A i \in IntentIds : intents[i].status # "absent" => intents[i].bookingId # b
    BY DEF CreateMatch, FundInv, IntentBacked, AgreedStatuses, FundedStatuses
  <1> HIDE DEF e
  <1> QED
    BY <1>1, <1>3, <1>4, FundEdit

\* A captured payment is recorded on a booking that has none yet.
LEMMA FundMarkAsPaid ==
  ASSUME Typed, FundInv, NEW i \in IntentIds, intents[i].status = "succeeded",
         MarkAsPaid(intents[i].bookingId, i)
  PROVE  FundInv'
  <1> DEFINE b == intents[i].bookingId
             d == bookings[b]
             e == Paid(d, i)
  <1>1. b \in BookingIds
    BY DEF Typed
  <1>2. /\ d.status = "confirmed" /\ d \in Booking
        /\ bookings' = [bookings EXCEPT ![b] = e] /\ UNCHANGED intents
    BY <1>1 DEF MarkAsPaid, CanMarkPaid, Typed, TypeOK
  <1>3. /\ e.status = "paid" /\ e.paymentIntentId = i /\ i # NoId
        /\ e.agreedFee = d.agreedFee /\ e.refundAmount = d.refundAmount
        /\ e.platformCommission = d.platformCommission
        /\ e.travelerPayout = d.travelerPayout
    BY <1>2, IdsAssumption DEF Paid, Booking
  <1>4. /\ BookingFunded(b, d, intents) /\ IntentBacked(i, intents[i], d)
        /\ intents[i] \in Intent
    BY <1>1 DEF FundInv, Typed, TypeOK
  <1>5. d.paymentIntentId = NoId /\ d.refundAmount = 0 /\ FeeAgreed(d)
    BY <1>2, <1>4 DEF BookingFunded, AgreedStatuses, FundedStatuses
  <1>6. FeeAgreed(e)
    BY <1>3, <1>5 DEF FeeAgreed
  <1>7. BookingFunded(b, e, intents)
    BY <1>3, <1>4, <1>5, <1>6, CentsType
    DEF BookingFunded, FeesOffered, AcceptableStatuses, AgreedStatuses, FundedStatuses, Intent
  <1>8. ASSUME NEW j \in IntentIds, intents[j].status # "absent", intents[j].bookingId = b
        PROVE  IntentBacked(j, intents[j], e)
    <2>1. IntentBacked(j, intents[j], d)
      BY <1>8 DEF FundInv
    <2> QED
      BY <1>3, <1>5, <1>6, <2>1, CentsType DEF IntentBacked, AgreedStatuses, FundedStatuses
  <1> HIDE DEF b, d, e
  <1> QED
    BY <1>1, <1>2, <1>7, <1>8, FundEdit

\* A refund given back by Stripe is the refund on record.
LEMMA FundRefund ==
  ASSUME Typed, FundInv, NEW b \in BookingIds, NEW resolution \in RefundResolutions,
         NEW amount \in RefundAmounts \cup {NoId}, ResolveDispute(b, resolution, amount)
  PROVE  FundInv'
  <1> DEFINE d == bookings[b]
             n == IF amount = NoId THEN d.agreedFee ELSE amount
             e == Resolved(d, resolution, amount)
             i == d.paymentIntentId
             pi == intents[i]
             due == RefundDue(pi, amount)
  <1>1. d.status = "disputed" /\ d \in Booking
    BY DEF ResolveDispute, CanResolve, Typed, TypeOK
  <1>2. BookingFunded(b, d, intents) /\ i \in IntentIds /\ i # NoId /\ d.refundAmount = 0
    BY <1>1 DEF FundInv, BookingFunded, FundedStatuses, Booking
  <1>3. pi \in Intent /\ pi.status = "succeeded" /\ pi.bookingId = b
    BY <1>2 DEF BookingFunded, Typed, TypeOK
  <1>4. IntentBacked(i, pi, d)
    BY <1>2, <1>3 DEF FundInv
  <1>5. pi.refunded = 0 /\ pi.amount = Cents(d.agreedFee) /\ FeeAgreed(d)
    BY <1>2, <1>4, CentsType DEF IntentBacked
  <1>6. /\ StripeAccepts(pi, amount)
        /\ intents' = [intents EXCEPT ![i] = Refunded(pi, amount)]
        /\ bookings' = [bookings EXCEPT ![b] = e]
    BY <1>2 DEF ResolveDispute, CallsStripe
  <1>7. due \in 1 .. pi.amount /\ due = Cents(n)
    BY <1>5, <1>6, <1>3 DEF StripeAccepts, RefundDue, Intent
  <1>8. /\ Refunded(pi, amount).refunded = due
        /\ Refunded(pi, amount).amount = pi.amount
        /\ Refunded(pi, amount).status = pi.status
        /\ Refunded(pi, amount).bookingId = b
    BY <1>3, <1>5, <1>7 DEF Refunded, Intent
  <1>9. /\ e.status = "cancelled" /\ e.refundAmount = n /\ e.paymentIntentId = i
        /\ e.agreedFee = d.agreedFee
        /\ e.platformCommission = d.platformCommission
        /\ e.travelerPayout = d.travelerPayout
    BY <1>1 DEF Resolved, Booking
  <1>10. FeeAgreed(e)
    BY <1>5, <1>9 DEF FeeAgreed
  <1> HIDE DEF d, n, e, i, pi, due
  <1>11. /\ \A x \in BookingIds : bookings'[x] = IF x = b THEN e ELSE bookings[x]
         /\ \A j \in IntentIds : intents'[j] = IF j = i THEN Refunded(pi, amount) ELSE intents[j]
    BY <1>6 DEF Typed, TypeOK
  <1>12. ASSUME NEW x \in BookingIds
         PROVE  BookingFunded(x, bookings'[x], intents')
    <2>1. CASE x = b
      BY <1>2, <1>3, <1>7, <1>8, <1>9, <1>10, <1>11, <2>1
      DEF BookingFunded, FeesOffered, AcceptableStatuses, AgreedStatuses, FundedStatuses, Intent
    <2>2. CASE x # b
      <3>1. BookingFunded(x, bookings[x], intents) /\ bookings[x] \in Booking
        BY DEF FundInv, Typed, TypeOK
      <3>2. bookings[x].paymentIntentId # i
        BY <1>2, <1>3, <2>2, <3>1 DEF BookingFunded, pi
      <3> QED
        BY <1>11, <2>2, <3>1, <3>2 DEF BookingFunded, Booking
    <2> QED
      BY <2>1, <2>2
  <1>13. ASSUME NEW j \in IntentIds, intents'[j].status # "absent"
         PROVE  IntentBacked(j, intents'[j], bookings'[intents'[j].bookingId])
    <2>1. CASE j = i
      BY <1>5, <1>7, <1>8, <1>9, <1>10, <1>11, <2>1
      DEF IntentBacked, AgreedStatuses, FundedStatuses
    <2>2. CASE j # i
      <3>1. /\ intents'[j] = intents[j] /\ intents[j].bookingId \in BookingIds
            /\ IntentBacked(j, intents[j], bookings[intents[j].bookingId])
        BY <1>11, <1>13, <2>2 DEF FundInv, Typed
      <3>2. CASE intents[j].bookingId = b
        BY <1>2, <1>9, <1>10, <1>11, <2>2, <3>1, <3>2
        DEF IntentBacked, AgreedStatuses, FundedStatuses, d, i
      <3>3. CASE intents[j].bookingId # b
        BY <1>11, <3>1, <3>3
      <3> QED
        BY <3>2, <3>3
    <2> QED
      BY <2>1, <2>2
  <1> QED
    BY <1>12, <1>13 DEF FundInv

LEMMA FundRelease ==
  ASSUME Typed, FundInv, NEW b \in BookingIds, NEW resolution \in Resolutions,
         resolution \notin RefundResolutions, NEW amount,
         ResolveDispute(b, resolution, amount)
  PROVE  FundInv'
  <1> DEFINE d == bookings[b]
             e == Resolved(d, resolution, amount)
  <1>1. d.status = "disputed" /\ d \in Booking
    BY DEF ResolveDispute, CanResolve, Typed, TypeOK
  <1>2. bookings' = [bookings EXCEPT ![b] = e] /\ UNCHANGED intents
    BY DEF ResolveDispute, CallsStripe
  <1>3. e.status = "completed" /\ SameMoney(d, e)
    BY <1>1 DEF Resolved, SameMoney, Booking
  <1> HIDE DEF e
  <1> QED
    BY <1>1, <1>2, <1>3, FundMoves
    DEF FeesOffered, AcceptableStatuses, AgreedStatuses, FundedStatuses

LEMMA FundResolveNext == Typed /\ FundInv /\ ResolveNext => FundInv'
  <1> SUFFICES ASSUME Typed, FundInv, NEW b \in BookingIds, NEW a \in ResolutionArgs,
                      ResolveDispute(b, a[1], a[2])
               PROVE  FundInv'
    BY DEF ResolveNext
  <1> QED
    BY ResolutionArgTypes, FundRefund, FundRelease

LEMMA FundBookingNext == Typed /\ FundInv /\ BookingNext => FundInv'
  <1> SUFFICES ASSUME Typed, FundInv, NEW b \in BookingIds, NEW u \in Users,
                      \/ \E r \in Requests, t \in Trips, fee \in Fees :
                           CreateMatch(u, b, r, t, fee)
                      \/ AcceptBooking(u, b)
                      \/ \E fee \in Fees : CounterOffer(u, b, fee)
                      \/ DeclineBooking(u, b)
                      \/ AcceptCounter(u, b)
                      \/ MarkInTransit(u, b)
                      \/ SubmitProofOfDelivery(u, b)
                      \/ CompleteBooking(u, b)
                      \/ RaiseDispute(u, b)
                      \/ CancelBooking(u, b)
               PROVE  FundInv'
    BY DEF BookingNext
  <1> DEFINE d == bookings[b]
  <1>w. WellFormed(d) /\ d \in Booking /\ FeesOffered(d)
    BY DEF Typed, TypeOK, FundInv, BookingFunded
  <1> USE DEF FeesOffered, AcceptableStatuses, AgreedStatuses, FundedStatuses
  <1>1. ASSUME AcceptBooking(u, b)
        PROVE  FundInv'
    <2>1. d.status \in AcceptableStatuses /\ UNCHANGED intents
          /\ bookings' = [bookings EXCEPT ![b] = Accepted(d)]
      BY <1>1 DEF AcceptBooking, CanAccept, SaveAndSetRequest
    <2>2. Accepted(d).status = "confirmed"
      BY <1>w, <2>1, AcceptedType
    <2> QED
      BY <1>w, <2>1, <2>2, AgreementMoney, FundAgrees
  <1>2. ASSUME AcceptCounter(u, b)
        PROVE  FundInv'
    <2>1. d.status = "countered" /\ UNCHANGED intents
          /\ bookings' = [bookings EXCEPT ![b] = CounterAccepted(d)]
      BY <1>2 DEF AcceptCounter, CanAcceptCounter, SaveAndSetRequest
    <2>2. CounterAccepted(d).status = "confirmed"
      BY <1>w, <2>1, CounterAcceptedType
    <2> QED
      BY <1>w, <2>1, <2>2, AgreementMoney, FundAgrees
  <1>3. ASSUME NEW fee \in Fees, CounterOffer(u, b, fee)
        PROVE  FundInv'
    <2>1. d.status = "pending_acceptance" /\ UNCHANGED intents
          /\ bookings' = [bookings EXCEPT ![b] = Countered(d, fee)]
      BY <1>3 DEF CounterOffer, CanCounter
    <2>2. Countered(d, fee).status = "countered"
      BY <1>w, <2>1, CounteredType
    <2>3. SameMoney(d, Countered(d, fee)) /\ FeesOffered(Countered(d, fee))
      BY <1>w, <2>1, <2>2, MovesKeepMoney, MoneyAssumption
    <2> QED
      BY <2>1, <2>2, <2>3, FundMoves
  <1>4. ASSUME DeclineBooking(u, b) \/ CancelBooking(u, b)
        PROVE  FundInv'
    <2>1. PICK v \in Users :
            /\ d.status \in CancellableStatuses /\ UNCHANGED intents
            /\ bookings' = [bookings EXCEPT ![b] = Cancelled(d, v)]
      BY <1>4, <1>w, DeclinedIsCancelled
      DEF DeclineBooking, CanDecline, CancelBooking, CanCancel, CancellableStatuses
    <2>2. Cancelled(d, v).status = "cancelled"
      BY <1>w, <2>1, CancelledType DEF CancellableStatuses
    <2> QED
      BY <1>w, <2>1, <2>2, MovesKeepMoney, FundMoves DEF CancellableStatuses
  <1>5. ASSUME MarkInTransit(u, b)
        PROVE  FundInv'
    <2>1. d.status = "paid" /\ UNCHANGED intents
          /\ bookings' = [bookings EXCEPT ![b] = InTransit(d)]
      BY <1>5 DEF MarkInTransit, CanMarkInTransit, SaveAndSetRequest
    <2>2. InTransit(d).status = "in_transit"
      BY <1>w, <2>1, InTransitType
    <2> QED
      BY <1>w, <2>1, <2>2, MovesKeepMoney, FundMoves
  <1>6. ASSUME SubmitProofOfDelivery(u, b)
        PROVE  FundInv'
    <2>1. d.status = "in_transit" /\ UNCHANGED intents
          /\ bookings' = [bookings EXCEPT ![b] = Delivered(d)]
      BY <1>6 DEF SubmitProofOfDelivery, CanSubmitProof, SaveAndSetRequest
    <2>2. Delivered(d).status = "delivered"
      BY <1>w, <2>1, DeliveredType
    <2> QED
      BY <1>w, <2>1, <2>2, MovesKeepMoney, FundMoves
  <1>7. ASSUME CompleteBooking(u, b)
        PROVE  FundInv'
    <2>1. d.status = "delivered" /\ UNCHANGED intents
          /\ bookings' = [bookings EXCEPT ![b] = Completed(d)]
      BY <1>7 DEF CompleteBooking, CanComplete, SaveAndSetRequest
    <2>2. Completed(d).status = "completed"
      BY <1>w, <2>1, CompletedType
    <2> QED
      BY <1>w, <2>1, <2>2, MovesKeepMoney, FundMoves
  <1>8. ASSUME RaiseDispute(u, b)
        PROVE  FundInv'
    <2>1. d.status \in DisputableStatuses /\ UNCHANGED intents
          /\ bookings' = [bookings EXCEPT ![b] = Disputed(d, u)]
      BY <1>8 DEF RaiseDispute, CanDispute
    <2>2. Disputed(d, u).status = "disputed"
      BY <1>w, <2>1, DisputedType DEF DisputableStatuses
    <2> QED
      BY <1>w, <2>1, <2>2, MovesKeepMoney, FundMoves DEF DisputableStatuses
  <1> QED
    BY <1>1, <1>2, <1>3, <1>4, <1>5, <1>6, <1>7, <1>8, FundCreateMatch

\* A PaymentIntent asked for, or captured: the bookings stay.
LEMMA FundPaymentNext == Typed /\ FundInv /\ PaymentNext => FundInv'
  <1> SUFFICES ASSUME Typed, FundInv, NEW i \in IntentIds,
                      \/ \E u \in Users, b \in BookingIds : CreateIntent(u, b, i)
                      \/ CapturePayment(i)
                      \/ HandleWebhook(i)
                      \/ \E u \in Users : ConfirmPayment(u, i)
               PROVE  FundInv'
    BY DEF PaymentNext
  <1>1. ASSUME NEW pi, intents' = [intents EXCEPT ![i] = pi], UNCHANGED bookings,
               intents[i].status # "succeeded",
               IntentBacked(i, pi, bookings[pi.bookingId])
        PROVE  FundInv'
    <2>1. \A j \in IntentIds : intents'[j] = IF j = i THEN pi ELSE intents[j]
      BY <1>1 DEF Typed, TypeOK
    <2>2. ASSUME NEW b \in BookingIds
          PROVE  BookingFunded(b, bookings'[b], intents')
      <3>1. BookingFunded(b, bookings[b], intents) /\ bookings[b] \in Booking
        BY DEF FundInv, Typed, TypeOK
      <3>2. bookings[b].paymentIntentId # i
        BY <1>1, <3>1, IdsAssumption DEF BookingFunded
      <3> QED
        BY <1>1, <2>1, <3>1, <3>2 DEF BookingFunded, Booking
    <2>3. ASSUME NEW j \in IntentIds, intents'[j].status # "absent"
          PROVE  IntentBacked(j, intents'[j], bookings'[intents'[j].bookingId])
      BY <1>1, <2>1, <2>3 DEF FundInv
    <2> QED
      BY <2>2, <2>3 DEF FundInv
  <1>2. ASSUME NEW u \in Users, NEW b \in BookingIds, CreateIntent(u, b, i)
        PROVE  FundInv'
    <2> DEFINE pi == NewIntent(b, bookings[b].agreedFee)
    <2>1. /\ pi.bookingId = b /\ pi.amount = Cents(bookings[b].agreedFee)
          /\ pi.refunded = 0
      BY DEF NewIntent
    <2>2. /\ bookings[b].status = "confirmed" /\ UNCHANGED bookings
          /\ intents[i].status # "succeeded"
          /\ intents' = [intents EXCEPT ![i] = pi]
      BY <1>2 DEF CreateIntent, CanCreateIntent
    <2>3. BookingFunded(b, bookings[b], intents)
      BY DEF FundInv
    <2>4. bookings[b].paymentIntentId # i
      BY <2>2, <2>3, IdsAssumption DEF BookingFunded, FundedStatuses
    <2>5. IntentBacked(i, pi, bookings[b])
      BY <2>1, <2>2, <2>3, <2>4 DEF IntentBacked, BookingFunded, AgreedStatuses
    <2> HIDE DEF pi
    <2> QED
      BY <1>1, <2>1, <2>2, <2>5
  <1>3. ASSUME CapturePayment(i)
        PROVE  FundInv'
    <2> DEFINE pi == Succeeded(intents[i])
    <2>1. /\ intents[i].status = "open" /\ UNCHANGED bookings
          /\ intents' = [intents EXCEPT ![i] = pi]
      BY <1>3 DEF CapturePayment
    <2>2. /\ pi.bookingId = intents[i].bookingId /\ pi.amount = intents[i].amount
          /\ pi.refunded = intents[i].refunded
      BY DEF Succeeded, Typed, TypeOK, Intent
    <2>3. IntentBacked(i, intents[i], bookings[intents[i].bookingId])
      BY <2>1 DEF FundInv
    <2>4. IntentBacked(i, pi, bookings[pi.bookingId])
      BY <2>2, <2>3 DEF IntentBacked
    <2> HIDE DEF pi
    <2> QED
      BY <1>1, <2>1, <2>4
  <1> QED
    BY <1>2, <1>3, FundMarkAsPaid DEF HandleWebhook, ConfirmPayment

LEMMA FundNext == Typed /\ FundInv /\ [Next]_vars => FundInv'
  <1> SUFFICES ASSUME Typed, FundInv, [Next]_vars PROVE FundInv'
    OBVIOUS
  <1>1. CASE UNCHANGED <<bookings, intents>>
    BY <1>1 DEF FundInv
  <1>2. RequestNext \/ TripNext \/ UNCHANGED vars => UNCHANGED <<bookings, intents>>
    BY DEF RequestNext, TripNext, vars, CreateRequest, UpdateRequest,
           ApproveSupportRequest, RejectSupportRequest, CancelRequest, CreateTrip,
           CancelTrip
  <1> QED
    BY <1>1, <1>2, FundBookingNext, FundResolveNext, FundPaymentNext DEF Next

LEMMA FundAlways == Spec => []FundInv
  <1>1. Init => FundInv
    BY CentsType
    DEF Init, AbsentBooking, AbsentIntent, FundInv, BookingFunded, FeesOffered,
        AcceptableStatuses, AgreedStatuses, FundedStatuses
  <1> QED
    BY <1>1, FundNext, TypedAlways, PTL DEF Spec

-----------------------------------------------------------------------------
(* The theorems about money.                                                *)

\* Nothing travels, completes or is disputed without a captured payment, made for
\* this booking, of the agreed fee to the cent, that commission and payout share.
THEOREM DeliveriesAreFunded == Spec => []DeliveryIsFunded
  <1>1. Typed /\ FundInv => DeliveryIsFunded
    <2> SUFFICES ASSUME Typed, FundInv, NEW b \in BookingIds,
                        bookings[b].status \in FundedStatuses
                 PROVE  LET d == bookings[b]
                        IN /\ d.paymentIntentId # NoId
                           /\ intents[d.paymentIntentId].status = "succeeded"
                           /\ intents[d.paymentIntentId].bookingId = b
                           /\ intents[d.paymentIntentId].amount = Cents(d.agreedFee)
                           /\ d.platformCommission + d.travelerPayout = d.agreedFee
      BY DEF DeliveryIsFunded
    <2> DEFINE d == bookings[b]
               i == d.paymentIntentId
    <2>1. /\ i \in IntentIds /\ i # NoId /\ FeeAgreed(d)
          /\ intents[i].status = "succeeded" /\ intents[i].bookingId = b
      BY DEF FundInv, BookingFunded, AgreedStatuses, Typed, TypeOK, Booking
    <2>2. IntentBacked(i, intents[i], d)
      BY <2>1 DEF FundInv
    <2> QED
      BY <2>1, <2>2 DEF IntentBacked, FeeAgreed
  <1> QED
    BY <1>1, FundAlways, TypedAlways, PTL

\* The refund on a booking is what Stripe gave back of its payment.
THEOREM RefundsMatchStripe == Spec => []RefundsAgreeWithStripe
  <1>1. Typed /\ FundInv => RefundsAgreeWithStripe
    <2> SUFFICES ASSUME Typed, FundInv, NEW b \in BookingIds,
                        bookings[b].paymentIntentId # NoId
                 PROVE  LET d == bookings[b]
                        IN /\ intents[d.paymentIntentId].refunded = Cents(d.refundAmount)
                           /\ Cents(d.refundAmount)
                                \in 0 .. intents[d.paymentIntentId].amount
                           /\ d.status # "cancelled" => d.refundAmount = 0
      BY DEF RefundsAgreeWithStripe
    <2> DEFINE d == bookings[b]
               i == d.paymentIntentId
    <2>1. i \in IntentIds /\ BookingFunded(b, d, intents)
      BY DEF FundInv, Typed, TypeOK, Booking
    <2>2. IntentBacked(i, intents[i], d)
      BY <2>1 DEF FundInv, BookingFunded
    <2> QED
      BY <2>1, <2>2 DEF IntentBacked, BookingFunded
  <1> QED
    BY <1>1, FundAlways, TypedAlways, PTL

-----------------------------------------------------------------------------
(* Closed bookings.  Every handler edits one booking, and its guard wants   *)
(* a status that is not closed.                                             *)

ClosedStatuses == {"cancelled", "completed"}

\* The step leaves the bookings alone, or edits one that is not closed.
EditsOpenBooking ==
  \/ UNCHANGED bookings
  \/ \E b \in BookingIds :
       /\ bookings[b].status \notin ClosedStatuses
       /\ \E e : bookings' = [bookings EXCEPT ![b] = e]

LEMMA HandlersEditOpenBookings == Typed /\ [Next]_vars => EditsOpenBooking
  <1> SUFFICES ASSUME Typed, [Next]_vars PROVE EditsOpenBooking
    OBVIOUS
  <1>1. CASE RequestNext \/ TripNext \/ UNCHANGED vars
    BY <1>1 DEF EditsOpenBooking, RequestNext, TripNext, vars, CreateRequest,
                UpdateRequest, ApproveSupportRequest, RejectSupportRequest,
                CancelRequest, CreateTrip, CancelTrip
  <1>2. CASE BookingNext
    <2>1. PICK b \in BookingIds, u \in Users :
            \/ \E r \in Requests, t \in Trips, fee \in Fees :
                 CreateMatch(u, b, r, t, fee)
            \/ AcceptBooking(u, b)
            \/ \E fee \in Fees : CounterOffer(u, b, fee)
            \/ DeclineBooking(u, b)
            \/ AcceptCounter(u, b)
            \/ MarkInTransit(u, b)
            \/ SubmitProofOfDelivery(u, b)
            \/ CompleteBooking(u, b)
            \/ RaiseDispute(u, b)
            \/ CancelBooking(u, b)
      BY <1>2 DEF BookingNext
    <2>2. bookings[b].status \notin ClosedStatuses
      BY <2>1
      DEF ClosedStatuses, CreateMatch, AcceptBooking, CanAccept, AcceptableStatuses,
          CounterOffer, CanCounter, DeclineBooking, CanDecline, AcceptCounter,
          CanAcceptCounter, MarkInTransit, CanMarkInTransit, SubmitProofOfDelivery,
          CanSubmitProof, CompleteBooking, CanComplete, RaiseDispute, CanDispute,
          DisputableStatuses, CancelBooking, CanCancel, CancellableStatuses
    <2>3. \E e : bookings' = [bookings EXCEPT ![b] = e]
      BY <2>1
      DEF CreateMatch, AcceptBooking, CounterOffer, DeclineBooking, AcceptCounter,
          MarkInTransit, SubmitProofOfDelivery, CompleteBooking, RaiseDispute,
          CancelBooking, SaveAndSetRequest
    <2> QED
      BY <2>2, <2>3 DEF EditsOpenBooking
  <1>3. CASE ResolveNext
    BY <1>3 DEF EditsOpenBooking, ClosedStatuses, ResolveNext, ResolveDispute, CanResolve
  <1>4. CASE PaymentNext
    BY <1>4
    DEF EditsOpenBooking, ClosedStatuses, PaymentNext, CreateIntent, CapturePayment,
        HandleWebhook, ConfirmPayment, MarkAsPaid, CanMarkPaid, Typed
  <1> QED
    BY <1>1, <1>2, <1>3, <1>4 DEF Next

\* Nothing rewrites a cancelled or completed booking.
THEOREM ClosedBookingsStay == Spec => ClosedBookingsFrozen
  <1>1. Typed /\ [Next]_vars
          => [\A b \in BookingIds :
                bookings[b].status \in {"cancelled", "completed"}
                  => bookings'[b] = bookings[b]]_vars
    BY HandlersEditOpenBookings DEF EditsOpenBooking, ClosedStatuses, Typed, TypeOK
  <1> QED
    BY <1>1, TypedAlways, PTL DEF Spec, ClosedBookingsFrozen

-----------------------------------------------------------------------------
(* Escrow.  A step changes what escrow says of at most one payment: a        *)
(* capture collects, its record credits, a completion releases, a refund    *)
(* gives back, and everything else is a stutter.                            *)

LEMMA EscrowIs ==
  /\ escrow = [i \in IntentIds |-> EscrowAccount(i)]
  /\ escrow' = [i \in IntentIds |-> EscrowAccount(i)']
  BY DEF escrow

LEMMA EscrowStutters ==
  ASSUME \A i \in IntentIds : EscrowAccount(i)' = EscrowAccount(i)
  PROVE  UNCHANGED escrow
  BY EscrowIs

LEMMA EscrowSteps ==
  ASSUME NEW i \in IntentIds,
         \A j \in IntentIds : j # i => EscrowAccount(j)' = EscrowAccount(j)
  PROVE  /\ escrow' = [escrow EXCEPT ![i] = EscrowAccount(i)']
         /\ escrow[i] = EscrowAccount(i)
         /\ escrow'[i] = EscrowAccount(i)'
  BY EscrowIs

\* A payment that a step leaves alone, and the booking it is for.
LEMMA EscrowKept ==
  ASSUME NEW i \in IntentIds, intents'[i] = intents[i],
         intents[i].status = "succeeded" =>
           bookings'[intents[i].bookingId] = bookings[intents[i].bookingId]
  PROVE  EscrowAccount(i)' = EscrowAccount(i)
  <1>1. intents[i].status = "succeeded" => EscrowState(i)' = EscrowState(i)
    BY DEF EscrowState
  <1> QED
    BY <1>1 DEF EscrowAccount

\* A payment that its booking does not record, neither before the step nor after it.
LEMMA EscrowUnrecorded ==
  ASSUME NEW i \in IntentIds, intents'[i] = intents[i],
         bookings[intents[i].bookingId].paymentIntentId # i,
         bookings'[intents[i].bookingId].paymentIntentId # i
  PROVE  EscrowAccount(i)' = EscrowAccount(i)
  <1>1. EscrowState(i)' = EscrowState(i)
    BY DEF EscrowState
  <1> QED
    BY <1>1 DEF EscrowAccount

\* An edit that leaves the money alone and does not close a paid booking.
LEMMA EscrowMoves ==
  ASSUME Typed, NEW b \in BookingIds, NEW e,
         bookings' = [bookings EXCEPT ![b] = e], UNCHANGED intents,
         e.paymentIntentId = bookings[b].paymentIntentId,
         \/ bookings[b].paymentIntentId = NoId
         \/ /\ bookings[b].status \notin ClosedStatuses
            /\ e.status \notin ClosedStatuses
  PROVE  UNCHANGED escrow
  <1>1. \A x \in BookingIds : bookings'[x] = IF x = b THEN e ELSE bookings[x]
    BY DEF Typed, TypeOK
  <1>2. ASSUME NEW i \in IntentIds
        PROVE  EscrowAccount(i)' = EscrowAccount(i)
    <2>1. CASE intents[i].status # "succeeded"
      BY <2>1, EscrowKept
    <2>2. CASE intents[i].status = "succeeded"
      <3>1. intents[i].bookingId \in BookingIds
        BY <2>2 DEF Typed
      <3>2. CASE intents[i].bookingId # b
        BY <1>1, <3>1, <3>2, EscrowKept
      <3>3. CASE intents[i].bookingId = b /\ bookings[b].paymentIntentId # i
        BY <1>1, <3>3, EscrowUnrecorded
      <3>4. CASE intents[i].bookingId = b /\ bookings[b].paymentIntentId = i
        <4>1. i # NoId
          BY IdsAssumption
        <4>2. EscrowState(i) = "held" /\ EscrowState(i)' = "held"
          BY <1>1, <3>4, <4>1 DEF EscrowState, ClosedStatuses
        <4> QED
          BY <4>2 DEF EscrowAccount
      <3> QED
        BY <3>2, <3>3, <3>4
    <2> QED
      BY <2>1, <2>2
  <1> QED
    BY <1>2, EscrowStutters

\* The account of a payment on record, and the others of its booking.
LEMMA EscrowOfRecorded ==
  ASSUME Typed, FundInv, NEW b \in BookingIds, NEW i, i = bookings[b].paymentIntentId,
         bookings[b].status \in {"delivered", "disputed"}
  PROVE  /\ i \in IntentIds
         /\ EscrowAccount(i) = [state |-> "held", item |-> b, amount |-> intents[i].amount,
                                returned |-> 0]
         /\ intents[i].status = "succeeded" /\ intents[i].bookingId = b
         /\ intents[i].refunded = 0 /\ bookings[b].refundAmount = 0
  <1>1. BookingFunded(b, bookings[b], intents) /\ bookings[b] \in Booking
    BY DEF FundInv, Typed, TypeOK
  <1>2. i \in IntentIds
    BY <1>1 DEF BookingFunded, FundedStatuses, Booking
  <1>3. /\ intents[i].status = "succeeded" /\ intents[i].bookingId = b
        /\ bookings[b].refundAmount = 0
    BY <1>1 DEF BookingFunded, FundedStatuses
  <1>4. intents[i].refunded = 0
    BY <1>2, <1>3, CentsType DEF FundInv, IntentBacked
  <1>5. EscrowState(i) = "held"
    BY <1>3 DEF EscrowState
  <1> QED
    BY <1>2, <1>3, <1>4, <1>5 DEF EscrowAccount

\* What a booking's last edit does to the accounts of other payments.
LEMMA EscrowOthers ==
  ASSUME Typed, NEW b \in BookingIds, NEW e, bookings' = [bookings EXCEPT ![b] = e],
         NEW j \in IntentIds, j # e.paymentIntentId, intents'[j] = intents[j],
         bookings[b].paymentIntentId \in {e.paymentIntentId, NoId}
  PROVE  EscrowAccount(j)' = EscrowAccount(j)
  <1>1. \A x \in BookingIds : bookings'[x] = IF x = b THEN e ELSE bookings[x]
    BY DEF Typed, TypeOK
  <1>2. CASE intents[j].status # "succeeded"
    BY <1>2, EscrowKept
  <1>3. CASE intents[j].status = "succeeded"
    <2>1. intents[j].bookingId \in BookingIds /\ j # NoId
      BY <1>3, IdsAssumption DEF Typed
    <2>2. CASE intents[j].bookingId # b
      BY <1>1, <2>1, <2>2, EscrowKept
    <2>3. CASE intents[j].bookingId = b
      BY <1>1, <2>1, <2>3, EscrowUnrecorded
    <2> QED
      BY <2>2, <2>3
  <1> QED
    BY <1>2, <1>3

LEMMA EscrowRelease ==
  ASSUME Typed, FundInv, NEW b \in BookingIds, NEW e,
         bookings' = [bookings EXCEPT ![b] = e], UNCHANGED intents,
         bookings[b].status \in {"delivered", "disputed"},
         e.status = "completed", SameMoney(bookings[b], e)
  PROVE  E!Next
  <1>2. PICK i \in IntentIds :
          /\ i = bookings[b].paymentIntentId
          /\ EscrowAccount(i) = [state |-> "held", item |-> b, amount |-> intents[i].amount,
                                 returned |-> 0]
          /\ intents[i].status = "succeeded" /\ intents[i].bookingId = b
          /\ intents[i].refunded = 0
    BY EscrowOfRecorded
  <1>1. bookings'[b] = e /\ e.paymentIntentId = i
    BY <1>2 DEF Typed, TypeOK, SameMoney
  <1>3. EscrowState(i)' = "released"
    BY <1>1, <1>2 DEF EscrowState
  <1>4. EscrowAccount(i)' = [state |-> "released", item |-> b, amount |-> intents[i].amount,
                             returned |-> 0]
    BY <1>2, <1>3 DEF EscrowAccount
  <1>5. /\ EscrowAccount(i).state = "held"
        /\ EscrowAccount(i)' = [EscrowAccount(i) EXCEPT !.state = "released"]
    BY <1>2, <1>4
  <1>6. \A j \in IntentIds : j # i => EscrowAccount(j)' = EscrowAccount(j)
    BY <1>1, <1>2, EscrowOthers
  <1>7. /\ escrow' = [escrow EXCEPT ![i] = EscrowAccount(i)']
        /\ escrow[i] = EscrowAccount(i)
    BY <1>2, <1>6, EscrowSteps
  <1>8. E!Release(i)
    BY <1>5, <1>7 DEF E!Release
  <1> QED
    BY <1>2, <1>8 DEF E!Next

\* A payment captured: no booking records it yet.
LEMMA EscrowCollect ==
  ASSUME Typed, FundInv, NEW i \in IntentIds, CapturePayment(i)
  PROVE  E!Next
  <1> DEFINE b == intents[i].bookingId
  <1>1. /\ intents[i].status = "open" /\ intents[i] \in Intent /\ b \in BookingIds
        /\ UNCHANGED bookings
    BY DEF CapturePayment, Typed, TypeOK
  <1>2. /\ \A j \in IntentIds : j # i => intents'[j] = intents[j]
        /\ intents'[i].status = "succeeded" /\ intents'[i].bookingId = b
        /\ intents'[i].amount = intents[i].amount /\ intents'[i].refunded = intents[i].refunded
    BY <1>1 DEF CapturePayment, Succeeded, Typed, TypeOK, Intent
  <1>3. IntentBacked(i, intents[i], bookings[b]) /\ bookings[b] \in Booking
    BY <1>1 DEF FundInv, Typed, TypeOK
  <1>4. bookings[b].paymentIntentId # i
    <2>1. BookingFunded(b, bookings[b], intents) /\ i # NoId
      BY <1>1, IdsAssumption DEF FundInv
    <2> QED
      BY <1>1, <2>1 DEF BookingFunded
  <1>5. intents[i].refunded = 0 /\ intents[i].amount > 0
    <2>1. bookings[b].agreedFee \in Nat /\ bookings[b].agreedFee >= 100
      BY <1>3 DEF IntentBacked, FeeAgreed, Booking
    <2> QED
      BY <1>3, <1>4, <2>1, CentsType DEF IntentBacked
  <1> HIDE DEF b
  <1>6. EscrowAccount(i) = [state |-> "none", item |-> NoId, amount |-> 0, returned |-> 0]
    BY <1>1 DEF EscrowAccount
  <1>7. EscrowState(i)' = "collected"
    BY <1>1, <1>2, <1>4 DEF EscrowState
  <1>8. EscrowAccount(i)' = [state |-> "collected", item |-> b, amount |-> intents[i].amount,
                             returned |-> 0]
    BY <1>2, <1>5, <1>7 DEF EscrowAccount
  <1>9. \A j \in IntentIds : j # i => EscrowAccount(j)' = EscrowAccount(j)
    BY <1>1, <1>2, EscrowKept
  <1>10. /\ escrow' = [escrow EXCEPT ![i] = EscrowAccount(i)']
         /\ escrow[i] = EscrowAccount(i)
         /\ escrow'[i] = EscrowAccount(i)'
    BY <1>9, EscrowSteps
  <1>11. /\ escrow[i].state = "none" /\ escrow'[i].item = b
         /\ escrow'[i].amount = intents[i].amount
    BY <1>6, <1>8, <1>10
  <1>12. escrow' = [escrow EXCEPT ![i] = [state |-> "collected", item |-> escrow'[i].item,
                                          amount |-> escrow'[i].amount, returned |-> 0]]
    BY <1>8, <1>10, <1>11, Zenon
  <1>13. E!Collect(i)
    BY <1>1, <1>5, <1>11, <1>12 DEF E!Collect
  <1> QED
    BY <1>13 DEF E!Next

\* A payment recorded: no other payment of the booking was, as it was confirmed.
LEMMA EscrowCredit ==
  ASSUME Typed, FundInv, NEW i \in IntentIds, intents[i].status = "succeeded",
         NEW b \in BookingIds, b = intents[i].bookingId, MarkAsPaid(b, i)
  PROVE  E!Next
  <1> DEFINE d == bookings[b]
             e == Paid(d, i)
  <1>1. /\ d.status = "confirmed" /\ d \in Booking
        /\ bookings' = [bookings EXCEPT ![b] = e] /\ UNCHANGED intents
    BY DEF MarkAsPaid, CanMarkPaid, Typed, TypeOK
  <1>2. e.status = "paid" /\ e.paymentIntentId = i /\ i # NoId
    BY <1>1, IdsAssumption DEF Paid, Booking
  <1>3. d.paymentIntentId = NoId
    BY <1>1 DEF FundInv, BookingFunded, FundedStatuses
  <1> HIDE DEF e
  <1>4. bookings'[b] = e
    BY <1>1 DEF Typed, TypeOK
  <1>5. EscrowState(i) = "collected" /\ EscrowState(i)' = "held"
    BY <1>1, <1>2, <1>3, <1>4 DEF EscrowState
  <1>6. /\ EscrowAccount(i).state = "collected" /\ EscrowAccount(i).item = b
        /\ EscrowAccount(i)' = [EscrowAccount(i) EXCEPT !.state = "held"]
    BY <1>1, <1>5 DEF EscrowAccount
  <1>7. \A j \in IntentIds : j # i => EscrowAccount(j)' = EscrowAccount(j)
    BY <1>1, <1>2, <1>3, EscrowOthers
  <1>8. /\ escrow' = [escrow EXCEPT ![i] = EscrowAccount(i)']
        /\ escrow[i] = EscrowAccount(i)
    BY <1>7, EscrowSteps
  <1>9. ASSUME NEW q \in IntentIds, E!Credited(q)
        PROVE  escrow[q].item # b
    <2>1. escrow[q] = EscrowAccount(q)
      BY EscrowIs
    <2>2. /\ EscrowAccount(q).state \in {"held", "released", "returned"}
      BY <1>9, <2>1 DEF E!Credited
    <2>3. /\ intents[q].status = "succeeded"
          /\ EscrowAccount(q).item = intents[q].bookingId
          /\ EscrowState(q) # "collected"
      BY <2>2 DEF EscrowAccount
    <2>4. bookings[intents[q].bookingId].paymentIntentId = q /\ q # NoId
      BY <2>3, IdsAssumption DEF EscrowState
    <2> QED
      BY <1>3, <2>1, <2>3, <2>4
  <1>10. escrow' = [escrow EXCEPT ![i].state = "held"]
    BY <1>6, <1>8
  <1>11. E!Credit(i)
    BY <1>6, <1>8, <1>9, <1>10 DEF E!Credit
  <1> QED
    BY <1>11 DEF E!Next

LEMMA EscrowGiveBack ==
  ASSUME Typed, FundInv, NEW b \in BookingIds, NEW resolution \in RefundResolutions,
         NEW amount \in RefundAmounts \cup {NoId}, ResolveDispute(b, resolution, amount)
  PROVE  E!Next
  <1> DEFINE d == bookings[b]
  <1>e. PICK e : e = Resolved(d, resolution, amount)
    OBVIOUS
  <1>1. d.status = "disputed" /\ d \in Booking
    BY DEF ResolveDispute, CanResolve, Typed, TypeOK
  <1>2. PICK i \in IntentIds :
          /\ i = d.paymentIntentId /\ i # NoId
          /\ intents[i].status = "succeeded" /\ intents[i].bookingId = b
          /\ intents[i].refunded = 0
          /\ EscrowAccount(i) = [state |-> "held", item |-> b, amount |-> intents[i].amount,
                                 returned |-> 0]
    BY <1>1, EscrowOfRecorded, IdsAssumption
  <1>3. PICK pi \in Intent : pi = intents[i]
    BY <1>2 DEF Typed, TypeOK
  <1>d. PICK due : due = RefundDue(pi, amount)
    OBVIOUS
  <1>4. /\ StripeAccepts(pi, amount)
        /\ intents' = [intents EXCEPT ![i] = Refunded(pi, amount)]
        /\ bookings' = [bookings EXCEPT ![b] = e]
    BY <1>e, <1>2, <1>3 DEF ResolveDispute, CallsStripe
  <1>5. /\ due \in 1 .. pi.amount /\ pi.amount \in Nat
        /\ Refunded(pi, amount).refunded = due
        /\ Refunded(pi, amount).amount = pi.amount
        /\ Refunded(pi, amount).status = "succeeded"
        /\ Refunded(pi, amount).bookingId = b
    BY <1>d, <1>2, <1>3, <1>4 DEF StripeAccepts, Refunded, Intent
  <1>6. e.status = "cancelled" /\ e.paymentIntentId = i
    BY <1>e, <1>1, <1>2 DEF Resolved, Booking
  <1>7. /\ bookings'[b] = e
        /\ \A j \in IntentIds : intents'[j] = IF j = i THEN Refunded(pi, amount) ELSE intents[j]
    BY <1>2, <1>3, <1>4 DEF Typed, TypeOK
  <1>8. ASSUME NEW j \in IntentIds, j # i
        PROVE  EscrowAccount(j)' = EscrowAccount(j)
    <2>1. j # e.paymentIntentId /\ bookings[b].paymentIntentId \in {e.paymentIntentId, NoId}
      BY <1>2, <1>6, <1>8
    <2>2. intents'[j] = intents[j]
      BY <1>7, <1>8
    <2> QED
      BY <1>4, <2>1, <2>2, EscrowOthers
  <1>9. EscrowState(i)' = "returned"
    BY <1>2, <1>5, <1>6, <1>7 DEF EscrowState
  <1>10. EscrowAccount(i)' = [state |-> "returned", item |-> b, amount |-> pi.amount,
                              returned |-> due]
    BY <1>2, <1>5, <1>7, <1>9 DEF EscrowAccount
  <1>11. EscrowAccount(i)' = [EscrowAccount(i) EXCEPT !.state = "returned", !.returned = due]
    <2>1. PICK x : x = EscrowAccount(i)
      OBVIOUS
    <2>2. x = [state |-> "held", item |-> b, amount |-> pi.amount, returned |-> 0]
      BY <1>2, <1>3, <2>1
    <2>3. [x EXCEPT !.state = "returned", !.returned = due]
            = [state |-> "returned", item |-> b, amount |-> pi.amount, returned |-> due]
      <3>1. PICK y : y = [x EXCEPT !.state = "returned"]
        OBVIOUS
      <3>2. y = [state |-> "returned", item |-> b, amount |-> pi.amount, returned |-> 0]
        BY <2>2, <3>1
      <3>3. [y EXCEPT !.returned = due]
              = [state |-> "returned", item |-> b, amount |-> pi.amount, returned |-> due]
        BY <3>2
      <3> QED
        BY <3>1, <3>3, Zenon
    <2> QED
      BY <1>10, <2>1, <2>3, Zenon
  <1>12. /\ escrow' = [escrow EXCEPT ![i] = EscrowAccount(i)']
         /\ escrow[i] = EscrowAccount(i)
    BY <1>2, <1>8, EscrowSteps
  <1>13. escrow' = [escrow EXCEPT ![i] = [@ EXCEPT !.state = "returned", !.returned = due]]
    BY <1>11, <1>12
  <1>14. escrow[i].state = "held" /\ due \in 1 .. escrow[i].amount
    BY <1>2, <1>3, <1>5, <1>12
  <1>15. E!GiveBack(i)
    BY <1>13, <1>14, Zenon DEF E!GiveBack
  <1> QED
    BY <1>2, <1>15 DEF E!Next

LEMMA EscrowBookingNext == Typed /\ FundInv /\ BookingNext => [E!Next]_escrow
  <1> SUFFICES ASSUME Typed, FundInv, NEW b \in BookingIds, NEW u \in Users,
                      \/ \E r \in Requests, t \in Trips, fee \in Fees :
                           CreateMatch(u, b, r, t, fee)
                      \/ AcceptBooking(u, b)
                      \/ \E fee \in Fees : CounterOffer(u, b, fee)
                      \/ DeclineBooking(u, b)
                      \/ AcceptCounter(u, b)
                      \/ MarkInTransit(u, b)
                      \/ SubmitProofOfDelivery(u, b)
                      \/ CompleteBooking(u, b)
                      \/ RaiseDispute(u, b)
                      \/ CancelBooking(u, b)
               PROVE  [E!Next]_escrow
    BY DEF BookingNext
  <1> DEFINE d == bookings[b]
  <1>w. WellFormed(d) /\ d \in Booking /\ FeesOffered(d) /\ BookingFunded(b, d, intents)
    BY DEF Typed, TypeOK, FundInv, BookingFunded
  \* Before the payment: whatever happens to the booking, nothing is held.
  <1>1. ASSUME NEW r \in Requests, NEW t \in Trips, NEW fee \in Fees,
               CreateMatch(u, b, r, t, fee)
        PROVE  UNCHANGED escrow
    <2>1. d.paymentIntentId = NoId
      BY <1>1, <1>w DEF CreateMatch, BookingFunded, FundedStatuses
    <2>2. NewBooking(r, t, fee).paymentIntentId = NoId
      BY DEF AbsentBooking, NewBooking
    <2> QED
      BY <1>1, <2>1, <2>2, EscrowMoves DEF CreateMatch
  <1>2. ASSUME AcceptBooking(u, b) \/ AcceptCounter(u, b)
        PROVE  UNCHANGED escrow
    <2>1. d.status \in AcceptableStatuses /\ UNCHANGED intents /\ d.paymentIntentId = NoId
      BY <1>2, <1>w
      DEF AcceptBooking, CanAccept, AcceptCounter, CanAcceptCounter, AcceptableStatuses,
          BookingFunded, FundedStatuses
    <2>2. /\ Accepted(d).paymentIntentId = d.paymentIntentId
          /\ d.status = "countered" => CounterAccepted(d).paymentIntentId = d.paymentIntentId
      BY <1>w, <2>1, AgreementMoney
    <2>3. \/ bookings' = [bookings EXCEPT ![b] = Accepted(d)]
          \/ /\ bookings' = [bookings EXCEPT ![b] = CounterAccepted(d)]
             /\ d.status = "countered"
      BY <1>2 DEF AcceptBooking, AcceptCounter, CanAcceptCounter, SaveAndSetRequest
    <2> QED
      BY <2>1, <2>2, <2>3, EscrowMoves
  <1>3. ASSUME NEW fee \in Fees, CounterOffer(u, b, fee)
        PROVE  UNCHANGED escrow
    <2>1. d.paymentIntentId = NoId
      BY <1>3, <1>w DEF CounterOffer, CanCounter, BookingFunded, FundedStatuses
    <2> QED
      BY <1>3, <1>w, <2>1, MovesKeepMoney, EscrowMoves DEF CounterOffer, SameMoney
  <1>4. ASSUME DeclineBooking(u, b) \/ CancelBooking(u, b)
        PROVE  UNCHANGED escrow
    <2>1. PICK v \in Users :
            /\ d.status \in CancellableStatuses /\ UNCHANGED intents
            /\ bookings' = [bookings EXCEPT ![b] = Cancelled(d, v)]
      BY <1>4, <1>w, DeclinedIsCancelled
      DEF DeclineBooking, CanDecline, CancelBooking, CanCancel, CancellableStatuses,
          AcceptableStatuses
    <2>2. d.paymentIntentId = NoId
      BY <1>w, <2>1 DEF CancellableStatuses, BookingFunded, FundedStatuses
    <2> QED
      BY <1>w, <2>1, <2>2, MovesKeepMoney, EscrowMoves DEF SameMoney
  \* Under way: the money stays held.
  <1>5. ASSUME MarkInTransit(u, b)
        PROVE  UNCHANGED escrow
    <2>1. d.status = "paid" /\ InTransit(d).status = "in_transit"
      BY <1>5, <1>w, InTransitType DEF MarkInTransit, CanMarkInTransit
    <2> QED
      BY <1>5, <1>w, <2>1, MovesKeepMoney, EscrowMoves
      DEF MarkInTransit, SaveAndSetRequest, SameMoney, ClosedStatuses
  <1>6. ASSUME SubmitProofOfDelivery(u, b)
        PROVE  UNCHANGED escrow
    <2>1. d.status = "in_transit" /\ Delivered(d).status = "delivered"
      BY <1>6, <1>w, DeliveredType DEF SubmitProofOfDelivery, CanSubmitProof
    <2> QED
      BY <1>6, <1>w, <2>1, MovesKeepMoney, EscrowMoves
      DEF SubmitProofOfDelivery, SaveAndSetRequest, SameMoney, ClosedStatuses
  <1>7. ASSUME RaiseDispute(u, b)
        PROVE  UNCHANGED escrow
    <2>1. d.status \in DisputableStatuses /\ Disputed(d, u).status = "disputed"
      BY <1>7, <1>w, DisputedType DEF RaiseDispute, CanDispute, DisputableStatuses
    <2> QED
      BY <1>7, <1>w, <2>1, MovesKeepMoney, EscrowMoves
      DEF RaiseDispute, DisputableStatuses, SameMoney, ClosedStatuses
  \* The end.
  <1>8. ASSUME CompleteBooking(u, b)
        PROVE  E!Next
    <2>1. d.status = "delivered" /\ Completed(d).status = "completed"
      BY <1>8, <1>w, CompletedType DEF CompleteBooking, CanComplete
    <2> QED
      BY <1>8, <1>w, <2>1, MovesKeepMoney, EscrowRelease
      DEF CompleteBooking, SaveAndSetRequest
  <1> QED
    BY <1>1, <1>2, <1>3, <1>4, <1>5, <1>6, <1>7, <1>8

LEMMA EscrowResolveNext == Typed /\ FundInv /\ ResolveNext => E!Next
  <1> SUFFICES ASSUME Typed, FundInv, NEW b \in BookingIds, NEW a \in ResolutionArgs,
                      ResolveDispute(b, a[1], a[2])
               PROVE  E!Next
    BY DEF ResolveNext
  <1>1. a[1] \in Resolutions /\ a[2] \in RefundAmounts \cup {NoId}
    BY ResolutionArgTypes
  <1>2. CASE a[1] \in RefundResolutions
    BY <1>1, <1>2, EscrowGiveBack
  <1>3. CASE a[1] \notin RefundResolutions
    <2> DEFINE d == bookings[b]
               e == Resolved(d, a[1], a[2])
    <2>1. d.status = "disputed" /\ d \in Booking
      BY DEF ResolveDispute, CanResolve, Typed, TypeOK
    <2>2. bookings' = [bookings EXCEPT ![b] = e] /\ UNCHANGED intents
      BY <1>3 DEF ResolveDispute, CallsStripe
    <2>3. e.status = "completed" /\ SameMoney(d, e)
      BY <1>3, <2>1 DEF Resolved, SameMoney, Booking
    <2> HIDE DEF e
    <2> QED
      BY <2>1, <2>2, <2>3, EscrowRelease
  <1> QED
    BY <1>2, <1>3

LEMMA EscrowPaymentNext == Typed /\ FundInv /\ PaymentNext => [E!Next]_escrow
  <1> SUFFICES ASSUME Typed, FundInv, NEW i \in IntentIds,
                      \/ \E u \in Users, b \in BookingIds : CreateIntent(u, b, i)
                      \/ CapturePayment(i)
                      \/ HandleWebhook(i)
                      \/ \E u \in Users : ConfirmPayment(u, i)
               PROVE  [E!Next]_escrow
    BY DEF PaymentNext
  \* A PaymentIntent that is open is not collected.
  <1>1. ASSUME NEW u \in Users, NEW b \in BookingIds, CreateIntent(u, b, i)
        PROVE  UNCHANGED escrow
    <2>1. /\ intents[i].status = "absent" /\ UNCHANGED bookings
          /\ intents'[i].status = "open"
          /\ \A j \in IntentIds : j # i => intents'[j] = intents[j]
      BY <1>1 DEF CreateIntent, NewIntent, Typed, TypeOK
    <2>2. EscrowAccount(i)' = EscrowAccount(i)
      BY <2>1 DEF EscrowAccount
    <2> QED
      BY <2>1, <2>2, EscrowKept, EscrowStutters
  <1>2. CASE CapturePayment(i)
    BY <1>2, EscrowCollect
  <1>3. CASE /\ intents[i].status = "succeeded"
             /\ MarkAsPaid(intents[i].bookingId, i)
    <2>1. intents[i].bookingId \in BookingIds
      BY <1>3 DEF Typed
    <2> QED
      BY <1>3, <2>1, EscrowCredit
  <1> QED
    BY <1>1, <1>2, <1>3 DEF HandleWebhook, ConfirmPayment

LEMMA EscrowNext == Typed /\ FundInv /\ [Next]_vars => [E!Next]_escrow
  <1> SUFFICES ASSUME Typed, FundInv, [Next]_vars PROVE [E!Next]_escrow
    OBVIOUS
  <1>1. CASE UNCHANGED <<bookings, intents>>
    BY <1>1, EscrowKept, EscrowStutters
  <1>2. RequestNext \/ TripNext \/ UNCHANGED vars => UNCHANGED <<bookings, intents>>
    BY DEF RequestNext, TripNext, vars, CreateRequest, UpdateRequest,
           ApproveSupportRequest, RejectSupportRequest, CancelRequest, CreateTrip,
           CancelTrip
  <1> QED
    BY <1>1, <1>2, EscrowBookingNext, EscrowResolveNext, EscrowPaymentNext DEF Next

\* The service implements Escrow: of the payments captured for a booking one at most
\* is credited to it, and that one is released in full or given back, never both;
\* every other one stays with Stripe.
THEOREM LifecycleImplementsEscrow == Spec => ImplementsEscrow
  <1>1. Init => E!Init
    BY DEF Init, E!Init, E!NoPayment, escrow, EscrowAccount, AbsentIntent
  <1> QED
    BY <1>1, EscrowNext, FundAlways, TypedAlways, PTL DEF Spec, ImplementsEscrow, E!Spec

-----------------------------------------------------------------------------
(* What the reports rest on.  There are finitely many requests, because     *)
(* each step creates at most one; a request is completed with a booking.    *)

Existing == {r \in Requests : requests[r].status # "absent"}

RequestsInv ==
  /\ IsFiniteSet(Existing)
  /\ \A r \in Having(requests, "completed") :
       \E b \in CompletedBookings : bookings[b].requestId = r

\* The step writes the request r: it completes it only together with a booking of
\* it, and changes its type only on the market.
EditsRequest(r, old, new) ==
  /\ new.status = "completed" =>
       \/ old.status = "completed"
       \/ \E b \in BookingIds : bookings'[b].status = "completed" /\ bookings'[b].requestId = r
  /\ new.type # old.type => old.status \in {"absent", "pending"}

EditsOneRequest ==
  \/ UNCHANGED requests
  \/ \E r \in Requests :
       /\ requests' = [requests EXCEPT ![r] = requests'[r]]
       /\ EditsRequest(r, requests[r], requests'[r])

LEMMA StatusEdit ==
  ASSUME Typed, NEW r \in Requests, NEW s, s # "completed",
         requests' = [requests EXCEPT ![r].status = s]
  PROVE  EditsOneRequest
<1>1. /\ requests' = [requests EXCEPT ![r] = requests'[r]]
      /\ requests'[r].status = s /\ requests'[r].type = requests[r].type
  BY DEF Typed, TypeOK, Request
<1>2. QED
  BY <1>1 DEF EditsOneRequest, EditsRequest

LEMMA RevertEdit ==
  ASSUME Typed, NEW r \in Requests, NEW t, RevertMatch(r, t)
  PROVE  EditsOneRequest
<1>1. /\ requests' = [requests EXCEPT ![r] = requests'[r]]
      /\ requests'[r].status = "pending" /\ requests'[r].type = requests[r].type
  BY DEF Typed, TypeOK, Request, RevertMatch, RevertedRequest
<1>2. QED
  BY <1>1 DEF EditsOneRequest, EditsRequest

LEMMA SaveEdit ==
  ASSUME Typed, NEW b \in BookingIds, bookings[b].status # "absent",
         NEW e, WellFormed(e), e.requestId = bookings[b].requestId,
         NEW s, s = "completed" => e.status = "completed", SaveAndSetRequest(b, e, s)
  PROVE  EditsOneRequest
<1>1. PICK r \in Requests : r = e.requestId
  BY Exists
<1>2. /\ requests' = [requests EXCEPT ![r] = requests'[r]]
      /\ requests'[r].status = s /\ requests'[r].type = requests[r].type
  BY <1>1 DEF Typed, TypeOK, Request, SaveAndSetRequest
<1>3. bookings'[b] = e
  BY DEF SaveAndSetRequest, Typed, TypeOK
<1>4. QED
  BY <1>1, <1>2, <1>3 DEF EditsOneRequest, EditsRequest

LEMMA RequestsEdited == Typed /\ [Next]_vars => EditsOneRequest
<1> SUFFICES ASSUME Typed, [Next]_vars PROVE EditsOneRequest
  OBVIOUS
<1>1. CASE RequestNext
  <2>1. PICK r \in Requests :
          \/ \E type \in OfferedTypes : CreateRequest(r, type)
          \/ ApproveSupportRequest(r)
          \/ RejectSupportRequest(r)
          \/ \E u \in Users :
               \/ \E type \in OfferedTypes : UpdateRequest(u, r, type)
               \/ CancelRequest(u, r)
    BY <1>1 DEF RequestNext
  <2>2. ASSUME NEW type \in OfferedTypes, CreateRequest(r, type)
        PROVE  EditsOneRequest
    <3>1. requests' = [requests EXCEPT ![r] = NewRequest(type)] /\ requests[r].status = "absent"
      BY <2>2 DEF CreateRequest
    <3>2. NewRequest(type).status = "pending"
      BY DEF NewRequest, AbsentRequest
    <3>3. requests' = [requests EXCEPT ![r] = requests'[r]] /\ requests'[r].status = "pending"
      BY <3>1, <3>2 DEF Typed, TypeOK
    <3>4. QED
      BY <3>1, <3>3 DEF EditsOneRequest, EditsRequest
  <2>3. ASSUME \/ ApproveSupportRequest(r)
               \/ RejectSupportRequest(r)
               \/ \E u \in Users :
                    \/ \E type \in OfferedTypes : UpdateRequest(u, r, type)
                    \/ CancelRequest(u, r)
        PROVE  EditsOneRequest
    <3>1. /\ requests' = [requests EXCEPT ![r] = requests'[r]]
          /\ requests'[r].status \in {requests[r].status, "cancelled"}
          /\ \/ requests'[r].type = requests[r].type
             \/ requests[r].status = "pending"
      BY <2>3 DEF UpdateRequest, ApproveSupportRequest, RejectSupportRequest, CancelRequest,
                  RejectedRequest, CanUpdateRequest, Typed, TypeOK, Request
    <3>2. QED
      BY <3>1 DEF EditsOneRequest, EditsRequest
  <2>4. QED
    BY <2>1, <2>2, <2>3
<1>2. CASE BookingNext
  <2>1. PICK b \in BookingIds, u \in Users :
          \/ \E r \in Requests, t \in Trips, fee \in Fees : CreateMatch(u, b, r, t, fee)
          \/ AcceptBooking(u, b)
          \/ \E fee \in Fees : CounterOffer(u, b, fee)
          \/ DeclineBooking(u, b)
          \/ AcceptCounter(u, b)
          \/ MarkInTransit(u, b)
          \/ SubmitProofOfDelivery(u, b)
          \/ CompleteBooking(u, b)
          \/ RaiseDispute(u, b)
          \/ CancelBooking(u, b)
    BY <1>2 DEF BookingNext
  <2>2. bookings[b].status # "absent" =>
          WellFormed(bookings[b]) /\ bookings[b].requestId \in Requests
    BY Exists
  <2>3. ASSUME NEW r \in Requests, NEW t \in Trips, NEW fee \in Fees, CreateMatch(u, b, r, t, fee)
        PROVE  EditsOneRequest
    <3>1. /\ requests' = [requests EXCEPT ![r] = requests'[r]]
          /\ requests'[r].status = "matched" /\ requests'[r].type = requests[r].type
      BY <2>3 DEF CreateMatch, MatchedRequest, Typed, TypeOK, Request
    <3>2. QED
      BY <3>1 DEF EditsOneRequest, EditsRequest
  <2>4. CASE AcceptBooking(u, b)
    <3>1. bookings[b].status # "absent"
      BY <2>4 DEF AcceptBooking, CanAccept, AcceptableStatuses
    <3>2. QED
      BY <2>2, <2>4, <3>1, AcceptedType, SaveEdit DEF AcceptBooking, SameLink
  <2>5. CASE AcceptCounter(u, b)
    <3>1. bookings[b].status # "absent"
      BY <2>5 DEF AcceptCounter, CanAcceptCounter
    <3>2. QED
      BY <2>2, <2>5, <3>1, CounterAcceptedType, SaveEdit DEF AcceptCounter, SameLink
  <2>6. CASE MarkInTransit(u, b)
    <3>1. bookings[b].status # "absent"
      BY <2>6 DEF MarkInTransit, CanMarkInTransit
    <3>2. QED
      BY <2>2, <2>6, <3>1, InTransitType, SaveEdit DEF MarkInTransit, SameLink
  <2>7. CASE SubmitProofOfDelivery(u, b)
    <3>1. bookings[b].status # "absent"
      BY <2>7 DEF SubmitProofOfDelivery, CanSubmitProof
    <3>2. QED
      BY <2>2, <2>7, <3>1, DeliveredType, SaveEdit DEF SubmitProofOfDelivery, SameLink
  <2>8. CASE CompleteBooking(u, b)
    <3>1. bookings[b].status # "absent"
      BY <2>8 DEF CompleteBooking, CanComplete
    <3>2. QED
      BY <2>2, <2>8, <3>1, CompletedType, SaveEdit DEF CompleteBooking, SameLink
  <2>9. CASE DeclineBooking(u, b) \/ CancelBooking(u, b)
    <3>1. bookings[b].status # "absent" /\ RevertMatch(bookings[b].requestId, bookings[b].tripId)
      BY <2>9 DEF DeclineBooking, CanDecline, AcceptableStatuses,
                  CancelBooking, CanCancel, CancellableStatuses
    <3>2. QED
      BY <2>2, <3>1, RevertEdit
  <2>10. CASE RaiseDispute(u, b) \/ \E fee \in Fees : CounterOffer(u, b, fee)
    BY <2>10 DEF RaiseDispute, CounterOffer, EditsOneRequest
  <2>11. QED
    BY <2>1, <2>3, <2>4, <2>5, <2>6, <2>7, <2>8, <2>9, <2>10
<1>3. CASE TripNext \/ ResolveNext \/ PaymentNext \/ UNCHANGED vars
  BY <1>3 DEF TripNext, CreateTrip, CancelTrip, ResolveNext, ResolveDispute, PaymentNext,
              CreateIntent, CapturePayment, HandleWebhook, ConfirmPayment, MarkAsPaid, vars,
              EditsOneRequest
<1>4. QED
  BY <1>1, <1>2, <1>3 DEF Next

\* Completed bookings stay, as they are.
LEMMA CompletedStay ==
  ASSUME Typed, [Next]_vars, NEW b \in CompletedBookings
  PROVE  b \in CompletedBookings' /\ bookings'[b] = bookings[b]
<1>1. b \in BookingIds /\ bookings[b].status = "completed"
  BY DEF CompletedBookings, Having, Typed, TypeOK
<1>2. bookings'[b] = bookings[b] /\ DOMAIN bookings' = DOMAIN bookings /\ b \in DOMAIN bookings
  BY <1>1, HandlersEditOpenBookings DEF EditsOpenBooking, ClosedStatuses, Typed, TypeOK
<1>3. QED
  BY <1>1, <1>2 DEF CompletedBookings, Having

LEMMA RequestsInvNext == Typed /\ RequestsInv /\ [Next]_vars => RequestsInv'
<1> SUFFICES ASSUME Typed, RequestsInv, [Next]_vars PROVE RequestsInv'
  OBVIOUS
<1>1. Typed'
  BY TypedNext
<1>2. EditsOneRequest
  BY RequestsEdited
<1>3. IsFiniteSet(Existing')
  <2>1. CASE UNCHANGED requests
    BY <2>1 DEF RequestsInv, Existing
  <2>2. ASSUME NEW r \in Requests, requests' = [requests EXCEPT ![r] = requests'[r]]
        PROVE  IsFiniteSet(Existing')
    <3>1. PICK before : before = Existing
      OBVIOUS
    <3>2. PICK after : after = Existing'
      OBVIOUS
    <3>3. after \subseteq before \cup {r}
      BY <2>2, <3>1, <3>2 DEF Existing, Typed, TypeOK
    <3>4. IsFiniteSet(before \cup {r})
      BY <3>1, FS_AddElement DEF RequestsInv
    <3>5. IsFiniteSet(after)
      BY <3>3, <3>4, FS_Subset
    <3>6. QED
      BY <3>2, <3>5
  <2>3. QED
    BY <1>2, <2>1, <2>2 DEF EditsOneRequest
<1>4. ASSUME NEW r \in Having(requests, "completed")'
      PROVE  \E b \in CompletedBookings' : bookings'[b].requestId = r
  <2>1. r \in Requests /\ requests'[r].status = "completed"
    BY <1>1, <1>4 DEF Having, Typed, TypeOK
  <2>2. CASE requests[r].status = "completed"
    <3>1. r \in Having(requests, "completed")
      BY <2>1, <2>2 DEF Having, Typed, TypeOK
    <3>2. PICK b \in CompletedBookings : bookings[b].requestId = r
      BY <3>1 DEF RequestsInv
    <3>3. QED
      BY <3>2, CompletedStay
  <2>3. CASE requests[r].status # "completed"
    <3>1. \E b \in BookingIds : bookings'[b].status = "completed" /\ bookings'[b].requestId = r
      BY <1>2, <2>1, <2>3 DEF EditsOneRequest, EditsRequest, Typed, TypeOK
    <3>2. QED
      BY <1>1, <3>1 DEF CompletedBookings, Having, Typed, TypeOK
  <2>4. QED
    BY <2>2, <2>3
<1>5. QED
  BY <1>3, <1>4 DEF RequestsInv

LEMMA RequestsAlways == Spec => []RequestsInv
<1>1. Init => RequestsInv
  <2>1. SUFFICES ASSUME Init PROVE RequestsInv
    OBVIOUS
  <2>2. \A r \in Requests : requests[r].status = "absent"
    BY <2>1 DEF Init, AbsentRequest
  <2>3. Existing = {} /\ Having(requests, "completed") = {}
    BY <2>1, <2>2 DEF Existing, Having, Init
  <2>4. QED
    BY <2>3, FS_EmptySet DEF RequestsInv
<1>2. QED
  BY <1>1, RequestsInvNext, TypedAlways, PTL DEF Spec

-----------------------------------------------------------------------------
(* The figures of the users add up to those of the platform: each completed *)
(* booking has one requester and one traveler, and both are active.         *)

LEMMA CompletedIsFunded ==
  ASSUME Typed, FundInv, NEW b \in CompletedBookings
  PROVE  /\ b \in BookingIds /\ bookings[b].status = "completed"
         /\ bookings[b].agreedFee \in Nat /\ bookings[b].travelerPayout \in Nat
         /\ bookings[b].platformCommission \in Nat
         /\ bookings[b].agreedFee = bookings[b].travelerPayout + bookings[b].platformCommission
         /\ bookings[b].refundAmount = 0
         /\ bookings[b].paymentIntentId \in IntentIds
         /\ intents[bookings[b].paymentIntentId].status = "succeeded"
         /\ intents[bookings[b].paymentIntentId].bookingId = b
<1>1. b \in BookingIds /\ bookings[b].status = "completed"
  BY DEF CompletedBookings, Having, Typed, TypeOK
<1>2. PICK d \in Booking : d = bookings[b]
  BY <1>1 DEF Typed, TypeOK
<1>3. d.agreedFee \in Nat /\ d.travelerPayout \in Nat /\ d.platformCommission \in Nat
  BY <1>2 DEF Booking
<1>4. /\ FeeAgreed(d) /\ d.refundAmount = 0 /\ d.paymentIntentId # NoId
      /\ intents[d.paymentIntentId].status = "succeeded"
      /\ intents[d.paymentIntentId].bookingId = b
  BY <1>1, <1>2 DEF FundInv, BookingFunded, AgreedStatuses, FundedStatuses
<1>5. d.paymentIntentId \in IntentIds
  BY <1>4 DEF Booking
<1>6. QED
  BY <1>1, <1>2, <1>3, <1>4, <1>5 DEF FeeAgreed

\* Each payment captured for a completed booking is kept: its fee, in whole cents.
LEMMA CapturedIsKept ==
  ASSUME Typed, FundInv, NEW T \in SUBSET CompletedBookings, NEW i \in CapturedFor(T)
  PROVE  /\ i \in IntentIds /\ intents[i].bookingId \in T
         /\ bookings[intents[i].bookingId].agreedFee \in Int
         /\ LET kept == 100 * (intents[i].amount - intents[i].refunded)
            IN kept \in Int /\ kept - bookings[intents[i].bookingId].agreedFee \in (-50) .. 50
<1>1. i \in IntentIds /\ intents[i].bookingId \in T /\ intents[i].status = "succeeded"
  BY DEF CapturedFor
<1>2. PICK b \in T : b = intents[i].bookingId
  BY <1>1
<1>3. PICK fee \in Nat : fee = bookings[b].agreedFee
  BY CompletedIsFunded
<1>4. bookings[b].refundAmount = 0
  BY CompletedIsFunded
<1>5. IntentBacked(i, intents[i], bookings[b])
  BY <1>1, <1>2 DEF FundInv
<1>6. intents[i].amount = Cents(fee) /\ intents[i].refunded = 0
  BY <1>3, <1>4, <1>5, CentsType DEF IntentBacked
<1>7. 100 * Cents(fee) - fee \in (-50) .. 50 /\ Cents(fee) \in Int
  BY <1>3 DEF Cents
<1>8. QED
  BY <1>1, <1>2, <1>3, <1>6, <1>7

LEMMA PartiesAreActive ==
  ASSUME Typed, NEW b \in CompletedBookings
  PROVE  /\ RequesterOf(bookings[b]) \in Active /\ TravelerOf(bookings[b]) \in Active
         /\ TravelerOf(bookings[b]) \in Users
<1>1. b \in BookingIds /\ bookings[b].status = "completed"
  BY DEF CompletedBookings, Having, Typed, TypeOK
<1>2. bookings[b].tripId \in Trips
  BY <1>1, Exists
<1>3. QED
  BY <1>2, IdsAssumption DEF Active, Parties, TravelerOf

LEMMA CompletedFinite ==
  ASSUME Typed
  PROVE  IsFiniteSet(CompletedBookings) /\ CompletedBookings \subseteq BookingIds
<1>1. CompletedBookings \subseteq BookingIds
  BY DEF CompletedBookings, Having, Typed, TypeOK
<1>2. QED
  BY <1>1, BookingIdsAssumption, FS_Subset

LEMMA ActiveFinite ==
  ASSUME Typed
  PROVE  IsFiniteSet(Active)
<1>1. PICK done : done = CompletedBookings
  OBVIOUS
<1>2. PICK k : k = [b \in done |-> RequesterOf(bookings[b])]
  OBVIOUS
<1>3. PICK l : l = [b \in done |-> TravelerOf(bookings[b])]
  OBVIOUS
<1>4. PICK K : K = {k[b] : b \in done}
  OBVIOUS
<1>5. PICK M : M = {l[b] : b \in done}
  OBVIOUS
<1>6. k \in Surjection(done, K) /\ l \in Surjection(done, M)
  BY <1>2, <1>3, <1>4, <1>5 DEF Surjection
<1>7. IsFiniteSet(K) /\ IsFiniteSet(M)
  <2>1. IsFiniteSet(done)
    BY <1>1, CompletedFinite
  <2>2. QED
    BY <1>6, <2>1, FS_Surjection
<1>8. Active \subseteq K \cup M
  BY <1>1, <1>2, <1>3, <1>4, <1>5 DEF Active, Parties
<1>9. IsFiniteSet(K \cup M)
  BY <1>7, FS_Union
<1>10. QED
  BY <1>8, <1>9, FS_Subset

\* A sum over bookings is the sum over users of those that k gives to the user.
LEMMA SumByParty ==
  ASSUME Typed, NEW T \in SUBSET CompletedBookings, NEW f, Ints(f, T),
         NEW k, \A b \in T : k[b] \in Active,
         NEW g, \A u \in Active : g[u] = SumFunctionOnSet(f, Fiber(T, k, u))
  PROVE  SumFunctionOnSet(g, Active) = SumFunctionOnSet(f, T)
<1>1. PICK A : A = Active
  OBVIOUS
<1>2. PICK h : h = [u \in A |-> SumFunctionOnSet(f, Fiber(T, k, u))]
  OBVIOUS
<1>3. IsFiniteSet(T) /\ IsFiniteSet(A)
  BY <1>1, ActiveFinite, CompletedFinite, FS_Subset
<1>4. SumFunctionOnSet(h, A) = SumFunctionOnSet(f, T)
  BY <1>1, <1>2, <1>3, SumOfParts
<1>5. \A u \in A : h[u] = g[u]
  BY <1>1, <1>2
<1>6. Ints(h, A)
  <2>1. ASSUME NEW u \in A
        PROVE  h[u] \in Int
    <3>1. PICK F : F = Fiber(T, k, u)
      OBVIOUS
    <3>2. F \in SUBSET T /\ Ints(f, F)
      BY <3>1 DEF Fiber, Ints
    <3>3. IsFiniteSet(F)
      BY <1>3, <3>2, FS_Subset
    <3>4. SumFunctionOnSet(f, F) \in Int
      BY <3>2, <3>3, SumTakesOut
    <3>5. QED
      BY <1>2, <3>1, <3>4, Zenon
  <2>2. QED
    BY <2>1 DEF Ints
<1>7. SumFunctionOnSet(h, A) = SumFunctionOnSet(g, A)
  BY <1>3, <1>5, <1>6, SumSame
<1>8. QED
  BY <1>1, <1>4, <1>7, Zenon

LEMMA SumByTravelers ==
  ASSUME Typed, NEW T \in SUBSET CompletedBookings, NEW f, Ints(f, T),
         NEW g, \A u \in Active :
                  g[u] = SumFunctionOnSet(f, {b \in T : TravelerOf(bookings[b]) = u})
  PROVE  SumFunctionOnSet(g, Active) = SumFunctionOnSet(f, T)
<1>1. PICK k : k = [b \in T |-> TravelerOf(bookings[b])]
  OBVIOUS
<1>2. \A u : Fiber(T, k, u) = {b \in T : TravelerOf(bookings[b]) = u}
  BY <1>1 DEF Fiber
<1>3. \A u \in Active : g[u] = SumFunctionOnSet(f, Fiber(T, k, u))
  BY <1>2, Zenon
<1>4. \A b \in T : k[b] \in Active
  BY <1>1, PartiesAreActive
<1>5. QED
  BY <1>3, <1>4, SumByParty

LEMMA SumByRequesters ==
  ASSUME Typed, NEW T \in SUBSET CompletedBookings, NEW f, Ints(f, T),
         NEW g, \A u \in Active :
                  g[u] = SumFunctionOnSet(f, {b \in T : RequesterOf(bookings[b]) = u})
  PROVE  SumFunctionOnSet(g, Active) = SumFunctionOnSet(f, T)
<1>1. PICK k : k = [b \in T |-> RequesterOf(bookings[b])]
  OBVIOUS
<1>2. \A u : Fiber(T, k, u) = {b \in T : RequesterOf(bookings[b]) = u}
  BY <1>1 DEF Fiber
<1>3. \A u \in Active : g[u] = SumFunctionOnSet(f, Fiber(T, k, u))
  BY <1>2, Zenon
<1>4. \A b \in T : k[b] \in Active
  BY <1>1, PartiesAreActive
<1>5. QED
  BY <1>3, <1>4, SumByParty

\* What a query sums up, given the field as a function f on the bookings.
LEMMA AggregateIs ==
  ASSUME Typed, FundInv, NEW T \in SUBSET CompletedBookings,
         NEW field \in {"agreedFee", "travelerPayout", "platformCommission"},
         NEW f, \A b \in T : f[b] = bookings[b][field]
  PROVE  /\ AggregateSum(T, field) = SumFunctionOnSet(f, T)
         /\ AggregateSum(T, field) \in Nat
         /\ Ints(f, T)
<1>1. PICK g : g = [b \in T |-> bookings[b][field]]
  OBVIOUS
<1>2. IsFiniteSet(T)
  BY CompletedFinite, FS_Subset
<1>3. \A b \in T : g[b] \in Nat /\ g[b] = f[b]
  BY <1>1, CompletedIsFunded
<1>4. Ints(g, T) /\ Ints(f, T)
  BY <1>3 DEF Ints
<1>5. SumFunctionOnSet(g, T) = SumFunctionOnSet(f, T)
  BY <1>2, <1>3, <1>4, SumSame
<1>6. SumFunctionOnSet(g, T) \in Nat
  <2>1. PICK z : z = [b \in T |-> 0]
    OBVIOUS
  <2>2. Ints(z, T) /\ \A b \in T : z[b] = 0 /\ z[b] <= g[b]
    BY <1>3, <2>1 DEF Ints
  <2>3. SumFunctionOnSet(z, T) <= SumFunctionOnSet(g, T)
    BY <1>2, <1>4, <2>2, SumMonotone
  <2>4. SumFunctionOnSet(z, T) = 0 * Cardinality(T)
    BY <1>2, <2>2, SumConstant
  <2>5. SumFunctionOnSet(g, T) \in Int
    BY <1>2, <1>4, SumTakesOut
  <2>6. Cardinality(T) \in Nat
    BY <1>2, FS_CardinalityType
  <2>7. QED
    BY <2>3, <2>4, <2>5, <2>6
<1>7. AggregateSum(T, field) = SumFunctionOnSet(g, T)
  BY <1>1, Zenon DEF AggregateSum
<1>8. QED
  BY <1>4, <1>5, <1>6, <1>7

LEMMA StatsAre ==
  \A u : /\ UserStats(u).totalSpent = AggregateSum(CompletedFor(u), "agreedFee")
         /\ UserStats(u).totalEarnings = AggregateSum(CompletedBy(u), "travelerPayout")
         /\ UserStats(u).completedDeliveries = Cardinality(CompletedBy(u))
         /\ UserStats(u).supportDeliveries = SupportDeliveriesCount(u)
BY DEF UserStats

\* What is spent is what travelers and the platform get.
LEMMA SpentIsEarned ==
  ASSUME Typed, FundInv
  PROVE  SumOverUsers("totalSpent") = SumOverUsers("totalEarnings") + TotalCommission
<1>1. PICK done : done = CompletedBookings
  OBVIOUS
<1>2. PICK fee : fee = [b \in done |-> bookings[b].agreedFee]
  OBVIOUS
<1>3. PICK payout : payout = [b \in done |-> bookings[b].travelerPayout]
  OBVIOUS
<1>4. PICK part : part = [b \in done |-> bookings[b].platformCommission]
  OBVIOUS
<1>5. PICK spent : spent = [u \in Active |-> UserStats(u).totalSpent]
  OBVIOUS
<1>6. PICK earned : earned = [u \in Active |-> UserStats(u).totalEarnings]
  OBVIOUS
<1>7. Ints(fee, done) /\ Ints(payout, done) /\ Ints(part, done) /\ IsFiniteSet(done)
  BY <1>1, <1>2, <1>3, <1>4, CompletedIsFunded, CompletedFinite DEF Ints
<1>8. SumFunctionOnSet(spent, Active) = SumFunctionOnSet(fee, done)
  <2>1. ASSUME NEW u \in Active
        PROVE  spent[u] = SumFunctionOnSet(fee, {b \in done : RequesterOf(bookings[b]) = u})
    <3>1. {b \in done : RequesterOf(bookings[b]) = u} = CompletedFor(u)
      BY <1>1 DEF CompletedFor
    <3>2. PICK mine : mine = CompletedFor(u)
      OBVIOUS
    <3>3. mine \in SUBSET CompletedBookings /\ \A b \in mine : fee[b] = bookings[b].agreedFee
      BY <1>1, <1>2, <3>2 DEF CompletedFor
    <3>4. AggregateSum(mine, "agreedFee") = SumFunctionOnSet(fee, mine)
      BY <3>3, AggregateIs
    <3>5. spent[u] = AggregateSum(CompletedFor(u), "agreedFee")
      BY <1>5, StatsAre
    <3>6. QED
      BY <3>1, <3>2, <3>4, <3>5, Zenon
  <2>2. QED
    BY <1>1, <1>7, <2>1, SumByRequesters
<1>9. SumFunctionOnSet(earned, Active) = SumFunctionOnSet(payout, done)
  <2>1. ASSUME NEW u \in Active
        PROVE  earned[u] = SumFunctionOnSet(payout, {b \in done : TravelerOf(bookings[b]) = u})
    <3>1. {b \in done : TravelerOf(bookings[b]) = u} = CompletedBy(u)
      BY <1>1 DEF CompletedBy
    <3>2. PICK mine : mine = CompletedBy(u)
      OBVIOUS
    <3>3. mine \in SUBSET CompletedBookings /\ \A b \in mine : payout[b] = bookings[b].travelerPayout
      BY <1>1, <1>3, <3>2 DEF CompletedBy
    <3>4. AggregateSum(mine, "travelerPayout") = SumFunctionOnSet(payout, mine)
      BY <3>3, AggregateIs
    <3>5. earned[u] = AggregateSum(CompletedBy(u), "travelerPayout")
      BY <1>6, StatsAre
    <3>6. QED
      BY <3>1, <3>2, <3>4, <3>5, Zenon
  <2>2. QED
    BY <1>1, <1>7, <2>1, SumByTravelers
<1>10. TotalCommission = SumFunctionOnSet(part, done)
  <2>1. AggregateSum(done, "platformCommission") = SumFunctionOnSet(part, done)
    BY <1>1, <1>4, AggregateIs
  <2>2. QED
    BY <1>1, <2>1, Zenon DEF TotalCommission
<1>11. SumFunctionOnSet(fee, done) = SumFunctionOnSet(payout, done) + SumFunctionOnSet(part, done)
  <2>1. \A b \in done : fee[b] = payout[b] + part[b]
    BY <1>1, <1>2, <1>3, <1>4, CompletedIsFunded
  <2>2. QED
    BY <1>7, <2>1, SumPlus
<1>12. /\ SumOverUsers("totalSpent") = SumFunctionOnSet(spent, Active)
       /\ SumOverUsers("totalEarnings") = SumFunctionOnSet(earned, Active)
  BY <1>5, <1>6, Zenon DEF SumOverUsers
<1>13. QED
  BY <1>8, <1>9, <1>10, <1>11, <1>12

\* The deliveries of the travelers, all or of one kind, are those of the platform.
LEMMA DeliveriesAddUp ==
  ASSUME Typed, NEW T \in SUBSET CompletedBookings,
         NEW g, \A u \in Active :
                  g[u] = Cardinality({b \in T : TravelerOf(bookings[b]) = u})
  PROVE  SumFunctionOnSet(g, Active) = Cardinality(T)
<1>1. PICK one : one = [b \in T |-> 1]
  OBVIOUS
<1>2. IsFiniteSet(T) /\ Ints(one, T)
  BY <1>1, CompletedFinite, FS_Subset DEF Ints
<1>3. ASSUME NEW u \in Active
      PROVE  g[u] = SumFunctionOnSet(one, {b \in T : TravelerOf(bookings[b]) = u})
  <2>1. PICK mine : mine = {b \in T : TravelerOf(bookings[b]) = u}
    OBVIOUS
  <2>2. mine \in SUBSET T /\ \A b \in mine : one[b] = 1
    BY <1>1, <2>1
  <2>3. IsFiniteSet(mine)
    BY <1>2, <2>2, FS_Subset
  <2>4. SumFunctionOnSet(one, mine) = 1 * Cardinality(mine)
    BY <2>2, <2>3, SumConstant
  <2>5. Cardinality(mine) \in Nat
    BY <2>3, FS_CardinalityType
  <2>6. SumFunctionOnSet(one, mine) = Cardinality(mine)
    BY <2>4, <2>5
  <2>7. QED
    BY <2>1, <2>6, Zenon
<1>4. SumFunctionOnSet(g, Active) = SumFunctionOnSet(one, T)
  BY <1>2, <1>3, SumByTravelers
<1>5. SumFunctionOnSet(one, T) = 1 * Cardinality(T)
  BY <1>1, <1>2, SumConstant
<1>6. Cardinality(T) \in Nat
  BY <1>2, FS_CardinalityType
<1>7. QED
  BY <1>4, <1>5, <1>6

LEMMA DeliveriesAreCounted ==
  ASSUME Typed
  PROVE  SumOverUsers("completedDeliveries") = BookingFigures.completed
<1>1. PICK g : g = [u \in Active |-> UserStats(u).completedDeliveries]
  OBVIOUS
<1>2. PICK done : done = CompletedBookings
  OBVIOUS
<1>3. ASSUME NEW u \in Active
      PROVE  g[u] = Cardinality({b \in done : TravelerOf(bookings[b]) = u})
  <2>1. {b \in done : TravelerOf(bookings[b]) = u} = CompletedBy(u)
    BY <1>2 DEF CompletedBy
  <2>2. g[u] = Cardinality(CompletedBy(u))
    BY <1>1, StatsAre
  <2>3. QED
    BY <2>1, <2>2, Zenon
<1>4. SumFunctionOnSet(g, Active) = Cardinality(done)
  BY <1>2, <1>3, DeliveriesAddUp
<1>5. SumOverUsers("completedDeliveries") = SumFunctionOnSet(g, Active)
  BY <1>1, Zenon DEF SumOverUsers
<1>6. BookingFigures.completed = Cardinality(CompletedBookings)
  BY DEF BookingFigures
<1>7. QED
  BY <1>2, <1>4, <1>5, <1>6, Zenon

\* What Stripe kept for bookings is the fees of the payments, but for half a cent each.
LEMMA KeptIsFees ==
  ASSUME Typed, FundInv, NEW T \in SUBSET CompletedBookings,
         NEW paid, paid = CapturedFor(T)
  PROVE  LET excess == StripeKept(paid) - FeesOf(paid)
             slack == 50 * Cardinality(paid)
         IN excess \in (-slack) .. slack
<1>1. PICK kept : kept = [i \in paid |-> 100 * (intents[i].amount - intents[i].refunded)]
  OBVIOUS
<1>2. PICK fee : fee = [i \in paid |-> bookings[intents[i].bookingId].agreedFee]
  OBVIOUS
<1>3. PICK more : more = [i \in paid |-> 50]
  OBVIOUS
<1>4. PICK less : less = [i \in paid |-> -50]
  OBVIOUS
<1>5. PICK high : high = [i \in paid |-> fee[i] + more[i]]
  OBVIOUS
<1>6. PICK low : low = [i \in paid |-> fee[i] + less[i]]
  OBVIOUS
<1>7. ASSUME NEW i \in paid
      PROVE  /\ fee[i] \in Int /\ kept[i] \in Int /\ more[i] = 50 /\ less[i] = -50
             /\ high[i] = fee[i] + more[i] /\ low[i] = fee[i] + less[i]
             /\ low[i] <= kept[i] /\ kept[i] <= high[i]
  <2>1. i \in CapturedFor(T)
    BY <1>7
  <2>2. fee[i] = bookings[intents[i].bookingId].agreedFee /\ fee[i] \in Int
    BY <1>2, <2>1, CapturedIsKept
  <2>3. kept[i] \in Int /\ kept[i] - fee[i] \in (-50) .. 50
    BY <1>1, <2>1, <2>2, CapturedIsKept
  <2>4. high[i] = fee[i] + 50 /\ low[i] = fee[i] + (-50) /\ more[i] = 50 /\ less[i] = -50
    BY <1>3, <1>4, <1>5, <1>6
  <2>5. QED
    BY <2>2, <2>3, <2>4
<1>8. Ints(fee, paid) /\ Ints(kept, paid) /\ Ints(more, paid) /\ Ints(less, paid)
      /\ Ints(high, paid) /\ Ints(low, paid)
  BY <1>7 DEF Ints
<1>9. IsFiniteSet(paid)
  BY IntentIdsAssumption, FS_Subset DEF CapturedFor
<1>10. SumFunctionOnSet(high, paid) = SumFunctionOnSet(fee, paid) + SumFunctionOnSet(more, paid)
  BY <1>7, <1>8, <1>9, SumPlus
<1>11. SumFunctionOnSet(low, paid) = SumFunctionOnSet(fee, paid) + SumFunctionOnSet(less, paid)
  BY <1>7, <1>8, <1>9, SumPlus
<1>12. SumFunctionOnSet(more, paid) = 50 * Cardinality(paid)
  <2>1. \A i \in paid : more[i] = 50
    BY <1>7
  <2>2. QED
    BY <1>9, <2>1, SumConstant
<1>13. SumFunctionOnSet(less, paid) = (-50) * Cardinality(paid)
  <2>1. \A i \in paid : less[i] = -50
    BY <1>7
  <2>2. QED
    BY <1>9, <2>1, SumConstant
<1>14. SumFunctionOnSet(kept, paid) <= SumFunctionOnSet(high, paid)
  BY <1>7, <1>8, <1>9, SumMonotone
<1>15. SumFunctionOnSet(low, paid) <= SumFunctionOnSet(kept, paid)
  BY <1>7, <1>8, <1>9, SumMonotone
<1>16. SumFunctionOnSet(kept, paid) \in Int /\ SumFunctionOnSet(fee, paid) \in Int
  BY <1>8, <1>9, SumTakesOut
<1>17. Cardinality(paid) \in Nat
  BY <1>9, FS_CardinalityType
<1>18. StripeKept(paid) = SumFunctionOnSet(kept, paid)
  BY <1>1, Zenon DEF StripeKept
<1>19. FeesOf(paid) = SumFunctionOnSet(fee, paid)
  BY <1>2, Zenon DEF FeesOf
<1>20. QED
  BY <1>10, <1>11, <1>12, <1>13, <1>14, <1>15, <1>16, <1>17, <1>18, <1>19

\* Of the payments captured for bookings, each booking records one: the fees of all
\* of them are the fees of the bookings and those of the payments not recorded.
LEMMA FeesAreTold ==
  ASSUME Typed, FundInv, NEW T \in SUBSET CompletedBookings,
         NEW paid, paid = CapturedFor(T), NEW rest, rest = UnrecordedFor(T)
  PROVE  /\ FeesOf(paid) = AggregateSum(T, "agreedFee") + FeesOf(rest)
         /\ FeesOf(rest) \in Int
<1>1. PICK fee : fee = [i \in paid |-> bookings[intents[i].bookingId].agreedFee]
  OBVIOUS
<1>2. PICK told : told = [i \in paid |-> IF i \in rest THEN 0 ELSE fee[i]]
  OBVIOUS
<1>3. PICK untold : untold = [i \in paid |-> IF i \in rest THEN fee[i] ELSE 0]
  OBVIOUS
<1>4. rest \in SUBSET paid /\ IsFiniteSet(paid) /\ IsFiniteSet(rest) /\ IsFiniteSet(T)
  <2>1. rest \in SUBSET paid
    BY DEF UnrecordedFor
  <2>2. IsFiniteSet(paid)
    BY IntentIdsAssumption, FS_Subset DEF CapturedFor
  <2>3. IsFiniteSet(T)
    BY CompletedFinite, FS_Subset
  <2>4. QED
    BY <2>1, <2>2, <2>3, FS_Subset
<1>5. \A i \in paid : fee[i] \in Int /\ intents[i].bookingId \in T
  BY <1>1, CapturedIsKept
<1>6. Ints(fee, paid) /\ Ints(told, paid) /\ Ints(untold, paid) /\ Ints(untold, rest)
  BY <1>2, <1>3, <1>4, <1>5 DEF Ints
<1>7. SumFunctionOnSet(fee, paid)
        = SumFunctionOnSet(told, paid) + SumFunctionOnSet(untold, paid)
  <2>1. \A i \in paid : fee[i] = told[i] + untold[i]
    BY <1>2, <1>3, <1>5
  <2>2. QED
    BY <1>4, <1>6, <2>1, SumPlus
<1>8. SumFunctionOnSet(untold, paid) = FeesOf(rest) /\ FeesOf(rest) \in Int
  <2>1. \A i \in paid \ rest : untold[i] = 0
    BY <1>3
  <2>2. SumFunctionOnSet(untold, paid) = SumFunctionOnSet(untold, rest)
    BY <1>4, <1>6, <2>1, SumOfNonzero
  <2>3. PICK left : left = [i \in rest |-> bookings[intents[i].bookingId].agreedFee]
    OBVIOUS
  <2>4. \A i \in rest : untold[i] = left[i]
    BY <1>1, <1>3, <1>4, <2>3
  <2>5. SumFunctionOnSet(untold, rest) = SumFunctionOnSet(left, rest)
    BY <1>4, <1>6, <2>4, SumSame
  <2>6. FeesOf(rest) = SumFunctionOnSet(left, rest)
    BY <2>3, Zenon DEF FeesOf
  <2>7. SumFunctionOnSet(untold, rest) \in Int
    BY <1>4, <1>6, SumTakesOut
  <2>8. QED
    BY <2>2, <2>5, <2>6, <2>7
<1>9. SumFunctionOnSet(told, paid) = AggregateSum(T, "agreedFee")
  <2>1. PICK k : k = [i \in paid |-> intents[i].bookingId]
    OBVIOUS
  <2>2. PICK part : part = [b \in T |-> SumFunctionOnSet(told, Fiber(paid, k, b))]
    OBVIOUS
  <2>3. \A i \in paid : k[i] \in T
    BY <1>5, <2>1
  <2>4. SumFunctionOnSet(part, T) = SumFunctionOnSet(told, paid)
    BY <1>4, <1>6, <2>2, <2>3, SumOfParts
  <2>5. ASSUME NEW b \in T
        PROVE  part[b] = bookings[b].agreedFee
    <3>1. PICK i : i = bookings[b].paymentIntentId
      OBVIOUS
    <3>2. /\ i \in IntentIds /\ intents[i].status = "succeeded" /\ intents[i].bookingId = b
          /\ bookings[b].agreedFee \in Int
      BY <3>1, CompletedIsFunded
    <3>3. i \in paid /\ i \notin rest /\ k[i] = b
      BY <2>1, <3>1, <3>2 DEF CapturedFor, UnrecordedFor
    <3>4. PICK mine : mine = Fiber(paid, k, b)
      OBVIOUS
    <3>5. mine \in SUBSET paid /\ i \in mine /\ IsFiniteSet(mine) /\ Ints(told, mine)
      <4>1. mine \in SUBSET paid /\ i \in mine
        BY <3>3, <3>4 DEF Fiber
      <4>2. QED
        BY <1>4, <1>6, <4>1, FS_Subset DEF Ints
    <3>6. ASSUME NEW j \in mine \ {i}
          PROVE  told[j] = 0
      <4>1. j \in paid /\ intents[j].bookingId = b
        BY <2>1, <3>4 DEF Fiber
      <4>2. j \in rest
        BY <3>1, <3>6, <4>1 DEF UnrecordedFor
      <4>3. QED
        BY <1>2, <4>1, <4>2
    <3>7. SumFunctionOnSet(told, mine) = told[i] + SumFunctionOnSet(told, mine \ {i})
      BY <3>5, SumTakesOut
    <3>8. SumFunctionOnSet(told, mine \ {i}) = 0
      <4>1. PICK others : others = mine \ {i}
        OBVIOUS
      <4>2. IsFiniteSet(others) /\ \A j \in others : told[j] = 0
        BY <3>5, <3>6, <4>1, FS_Subset
      <4>3. SumFunctionOnSet(told, others) = 0 * Cardinality(others)
        BY <4>2, SumConstant
      <4>4. SumFunctionOnSet(told, others) = 0
        <5>1. Cardinality(others) \in Nat
          BY <4>2, FS_CardinalityType
        <5>2. QED
          BY <4>3, <5>1
      <4>5. QED
        BY <4>1, <4>4, Zenon
    <3>9. told[i] = bookings[b].agreedFee
      BY <1>1, <1>2, <3>2, <3>3
    <3>10. SumFunctionOnSet(told, mine) = bookings[b].agreedFee
      BY <3>2, <3>7, <3>8, <3>9
    <3>11. part[b] = SumFunctionOnSet(told, mine)
      BY <2>2, <3>4, Zenon
    <3>12. QED
      BY <3>10, <3>11
  <2>6. AggregateSum(T, "agreedFee") = SumFunctionOnSet(part, T)
    BY <2>5, AggregateIs
  <2>7. QED
    BY <2>4, <2>6
<1>10. FeesOf(paid) = SumFunctionOnSet(fee, paid)
  BY <1>1, Zenon DEF FeesOf
<1>11. QED
  BY <1>7, <1>8, <1>9, <1>10

\* Spendings, earnings and commission agree with each other and, but for one fee for
\* each payment that no booking records, with what Stripe kept.
THEOREM MoneyAlwaysBalances == Spec => []MoneyBalances
<1>1. ASSUME Typed, FundInv
      PROVE  MoneyBalances
  <2>1. ASSUME NEW u \in Active
        PROVE  LET paid == CapturedFor(CompletedFor(u))
                   told == UserStats(u).totalSpent + FeesOf(UnrecordedFor(CompletedFor(u)))
                   slack == 50 * Cardinality(paid)
               IN StripeKept(paid) - told \in (-slack) .. slack
    <3>1. PICK mine : mine = CompletedFor(u)
      OBVIOUS
    <3>2. mine \in SUBSET CompletedBookings
      BY <3>1 DEF CompletedFor
    <3>3. PICK paid : paid = CapturedFor(mine)
      OBVIOUS
    <3>4. PICK rest : rest = UnrecordedFor(mine)
      OBVIOUS
    <3>5. PICK spent : spent = AggregateSum(mine, "agreedFee")
      OBVIOUS
    <3>6. PICK kept : kept = StripeKept(paid)
      OBVIOUS
    <3>7. PICK fees : fees = FeesOf(paid)
      OBVIOUS
    <3>8. PICK unsaid : unsaid = FeesOf(rest)
      OBVIOUS
    <3>9. PICK n : n = Cardinality(paid)
      OBVIOUS
    <3>10. kept - fees \in (-(50 * n)) .. (50 * n)
      BY <1>1, <3>2, <3>3, <3>6, <3>7, <3>9, KeptIsFees
    <3>11. fees = spent + unsaid
      BY <1>1, <3>2, <3>3, <3>4, <3>5, <3>7, <3>8, FeesAreTold
    <3>12. kept - (spent + unsaid) \in (-(50 * n)) .. (50 * n)
      BY <3>10, <3>11
    <3>13. spent = UserStats(u).totalSpent
      BY <3>1, <3>5, StatsAre, Zenon
    <3>14. kept = StripeKept(CapturedFor(CompletedFor(u)))
           /\ n = Cardinality(CapturedFor(CompletedFor(u)))
           /\ unsaid = FeesOf(UnrecordedFor(CompletedFor(u)))
      BY <3>1, <3>3, <3>4, <3>6, <3>8, <3>9, Zenon
    <3>15. QED
      BY <3>12, <3>13, <3>14
  <2>2. QED
    BY <1>1, <2>1, SpentIsEarned, DeliveriesAreCounted DEF MoneyBalances
<1>2. QED
  BY <1>1, TypedAlways, FundAlways, PTL

-----------------------------------------------------------------------------
(* Fulfilled requests and deliveries: each fulfilled request has a completed *)
(* booking, and no two bookings of a request are completed.                  *)

LEMMA CompletedIsOnly ==
  ASSUME Typed, MatchInv, NEW b \in CompletedBookings, NEW c \in CompletedBookings,
         bookings[b].requestId = bookings[c].requestId
  PROVE  b = c
<1>1. /\ b \in BookingIds /\ bookings[b].status = "completed"
      /\ c \in BookingIds /\ bookings[c].status = "completed"
  BY DEF CompletedBookings, Having, Typed, TypeOK
<1>2. bookings[b].requestId \in Requests
  BY <1>1, Exists
<1>3. QED
  BY <1>1, <1>2 DEF MatchInv, OneLiveBooking, LiveOf, Live

LEMMA FulfilledHaveDeliveries ==
  ASSUME Typed, RequestsInv, NEW F \in SUBSET FulfilledRequests
  PROVE  LET made == {b \in CompletedBookings : bookings[b].requestId \in F}
         IN IsFiniteSet(made) /\ IsFiniteSet(F) /\ Cardinality(F) <= Cardinality(made)
<1>1. PICK made : made = {b \in CompletedBookings : bookings[b].requestId \in F}
  OBVIOUS
<1>2. IsFiniteSet(made)
  BY <1>1, CompletedFinite, FS_Subset
<1>3. PICK f : f = [r \in F |-> CHOOSE b \in made : bookings[b].requestId = r]
  OBVIOUS
<1>4. ASSUME NEW r \in F
      PROVE  f[r] \in made /\ bookings[f[r]].requestId = r
  <2>1. \E b \in made : bookings[b].requestId = r
    BY <1>1 DEF FulfilledRequests, RequestsInv
  <2>2. QED
    BY <1>3, <2>1
<1>5. f \in Injection(F, made)
  BY <1>3, <1>4 DEF Injection, IsInjective
<1>6. IsFiniteSet(F) /\ Cardinality(F) <= Cardinality(made)
  BY <1>2, <1>5, FS_Injection
<1>7. QED
  BY <1>1, <1>2, <1>6, Zenon

LEMMA DeliveriesHaveRequests ==
  ASSUME Typed, MatchInv, NEW F, IsFiniteSet(F)
  PROVE  Cardinality({b \in CompletedBookings : bookings[b].requestId \in F}) <= Cardinality(F)
<1>1. PICK made : made = {b \in CompletedBookings : bookings[b].requestId \in F}
  OBVIOUS
<1>2. PICK f : f = [b \in made |-> bookings[b].requestId]
  OBVIOUS
<1>3. f \in Injection(made, F)
  BY <1>1, <1>2, CompletedIsOnly DEF Injection, IsInjective
<1>4. Cardinality(made) <= Cardinality(F)
  BY <1>3, FS_Injection
<1>5. QED
  BY <1>1, <1>4, Zenon

\* Whoever the volunteers and the elderly are.
LEMMA OverviewAddsUp ==
  ASSUME Typed, MatchInv, RequestsInv, NEW chosen \in SUBSET Requests
  PROVE  LET overview == ImpactOverview(chosen, chosen)
             deliveries == overview.volunteerDeliveries
         IN /\ Cardinality(FulfilledRequests \cap chosen) <= deliveries
            /\ deliveries <= Cardinality(SupportRequests \cap chosen)
            /\ overview.elderlyAssisted <= deliveries
<1>1. PICK F : F = FulfilledRequests \cap chosen
  OBVIOUS
<1>2. PICK wanted : wanted = SupportRequests \cap chosen
  OBVIOUS
<1>3. PICK made : made = {b \in CompletedBookings : bookings[b].requestId \in F}
  OBVIOUS
<1>4. PICK all : all = {b \in CompletedBookings : bookings[b].requestId \in wanted}
  OBVIOUS
<1>5. IsFiniteSet(all) /\ made \in SUBSET all
  BY <1>1, <1>2, <1>3, <1>4, CompletedFinite, FS_Subset DEF FulfilledRequests
<1>6. Cardinality(F) <= Cardinality(all)
  <2>1. F \in SUBSET FulfilledRequests
    BY <1>1
  <2>2. Cardinality(F) <= Cardinality(made) /\ IsFiniteSet(F) /\ IsFiniteSet(made)
    BY <1>3, <2>1, FulfilledHaveDeliveries
  <2>3. Cardinality(made) <= Cardinality(all)
    BY <1>5, FS_Subset
  <2>4. Cardinality(F) \in Nat /\ Cardinality(made) \in Nat /\ Cardinality(all) \in Nat
    BY <1>5, <2>2, FS_CardinalityType
  <2>5. QED
    BY <2>2, <2>3, <2>4
<1>7. Cardinality(all) <= Cardinality(wanted)
  <2>1. wanted \subseteq Existing
    BY <1>2 DEF SupportRequests, Existing
  <2>2. IsFiniteSet(wanted)
    BY <2>1, FS_Subset DEF RequestsInv
  <2>3. QED
    BY <1>4, <2>2, DeliveriesHaveRequests
<1>8. /\ ImpactOverview(chosen, chosen).elderlyAssisted = Cardinality(FulfilledRequests \cap chosen)
      /\ ImpactOverview(chosen, chosen).volunteerDeliveries =
           Cardinality({b \in CompletedBookings :
                          bookings[b].requestId \in chosen \cap SupportRequests})
  BY DEF ImpactOverview, ImpactFigures
<1>9. {b \in CompletedBookings : bookings[b].requestId \in chosen \cap SupportRequests} = all
  BY <1>2, <1>4
<1>10. ImpactOverview(chosen, chosen).volunteerDeliveries = Cardinality(all)
  BY <1>8, <1>9, Zenon
<1>11. /\ Cardinality(FulfilledRequests \cap chosen) = Cardinality(F)
       /\ Cardinality(SupportRequests \cap chosen) = Cardinality(wanted)
  BY <1>1, <1>2, Zenon
<1>12. QED
  BY <1>6, <1>7, <1>8, <1>10, <1>11

\* Travelers are credited with at least the fulfilled requests.
LEMMA FulfilledAreCredited ==
  ASSUME Typed, RequestsInv
  PROVE  Cardinality(FulfilledRequests) <= SumOverUsers("supportDeliveries")
<1>1. PICK F : F = FulfilledRequests
  OBVIOUS
<1>2. PICK made : made = {b \in CompletedBookings : bookings[b].requestId \in F}
  OBVIOUS
<1>3. PICK all : all = {b \in CompletedBookings : RequestOf(b).type = "support"}
  OBVIOUS
<1>4. made \in SUBSET all /\ all \in SUBSET CompletedBookings
  BY <1>1, <1>2, <1>3 DEF FulfilledRequests, SupportRequests, RequestOf
<1>5. IsFiniteSet(all)
  BY <1>4, CompletedFinite, FS_Subset
<1>6. PICK g : g = [u \in Active |-> UserStats(u).supportDeliveries]
  OBVIOUS
<1>7. ASSUME NEW u \in Active
      PROVE  g[u] = Cardinality({b \in all : TravelerOf(bookings[b]) = u})
  <2>1. {b \in all : TravelerOf(bookings[b]) = u} =
          {b \in CompletedBy(u) : RequestOf(b).type = "support"}
    BY <1>3 DEF CompletedBy
  <2>2. g[u] = SupportDeliveriesCount(u)
    BY <1>6, StatsAre
  <2>3. SupportDeliveriesCount(u) = Cardinality({b \in CompletedBy(u) : RequestOf(b).type = "support"})
    BY Zenon DEF SupportDeliveriesCount
  <2>4. QED
    BY <2>1, <2>2, <2>3, Zenon
<1>8. SumFunctionOnSet(g, Active) = Cardinality(all)
  BY <1>4, <1>7, DeliveriesAddUp
<1>9. Cardinality(F) <= Cardinality(made) /\ IsFiniteSet(F) /\ IsFiniteSet(made)
  BY <1>1, <1>2, FulfilledHaveDeliveries
<1>10. Cardinality(made) <= Cardinality(all)
  BY <1>4, <1>5, FS_Subset
<1>11. Cardinality(F) \in Nat /\ Cardinality(made) \in Nat /\ Cardinality(all) \in Nat
  BY <1>5, <1>9, FS_CardinalityType
<1>12. SumOverUsers("supportDeliveries") = SumFunctionOnSet(g, Active)
  BY <1>6, Zenon DEF SumOverUsers
<1>13. Cardinality(F) <= SumOverUsers("supportDeliveries")
  BY <1>8, <1>9, <1>10, <1>11, <1>12
<1>14. QED
  BY <1>1, <1>13, Zenon

\* The impact report counts deliveries that were made, and each of them once.
THEOREM FulfilledWereDelivered == Spec => []FulfilledWasDelivered
<1>1. Typed /\ MatchInv /\ RequestsInv => FulfilledWasDelivered
  BY FulfilledAreCredited, OverviewAddsUp DEF FulfilledWasDelivered
<1>2. QED
  BY <1>1, TypedAlways, MatchAlways, RequestsAlways, PTL

-----------------------------------------------------------------------------
(* Credit.  A completed booking stays as it is, and its request is off the  *)
(* market and keeps its type.                                               *)

LEMMA TypeIsKept ==
  ASSUME Typed, MatchInv, [Next]_vars, NEW b \in CompletedBookings
  PROVE  RequestOf(b)'.type = RequestOf(b).type
<1>1. b \in BookingIds /\ bookings[b].status = "completed"
  BY DEF CompletedBookings, Having, Typed, TypeOK
<1>2. PICK r \in Requests : r = bookings[b].requestId
  BY <1>1, Exists
<1>3. requests[r].status \in Tracked("completed") \cup {"cancelled"}
  BY <1>1, <1>2 DEF MatchInv, RequestTracksBooking, Live
<1>4. requests[r].status \notin {"absent", "pending"}
  BY <1>3 DEF Tracked
<1>5. requests'[r].type = requests[r].type
  BY <1>4, RequestsEdited DEF EditsOneRequest, EditsRequest, Typed, TypeOK
<1>6. bookings'[b].requestId = r
  BY <1>2, CompletedStay
<1>7. QED
  BY <1>2, <1>5, <1>6 DEF RequestOf

\* The completed bookings of the user, those for support among them, only grow.
LEMMA CompletedGrow ==
  ASSUME Typed, MatchInv, [Next]_vars, NEW u
  PROVE  /\ CompletedBookings \subseteq CompletedBookings'
         /\ CompletedBy(u) \subseteq CompletedBy(u)'
         /\ CompletedFor(u) \subseteq CompletedFor(u)'
         /\ {b \in CompletedBy(u) : RequestOf(b).type = "support"}
              \subseteq {b \in CompletedBy(u) : RequestOf(b).type = "support"}'
         /\ CompletedBookings' \subseteq BookingIds
<1>1. CompletedBookings \subseteq CompletedBookings'
  BY CompletedStay
<1>2. CompletedBy(u) \subseteq CompletedBy(u)'
  BY CompletedStay DEF CompletedBy
<1>3. CompletedFor(u) \subseteq CompletedFor(u)'
  BY CompletedStay DEF CompletedFor
<1>4. {b \in CompletedBy(u) : RequestOf(b).type = "support"}
        \subseteq {b \in CompletedBy(u) : RequestOf(b).type = "support"}'
  BY <1>2, TypeIsKept DEF CompletedBy
<1>5. CompletedBookings' \subseteq BookingIds
  <2>1. Typed'
    BY TypedNext
  <2>2. QED
    BY <2>1 DEF CompletedBookings, Having, Typed, TypeOK
<1>6. QED
  BY <1>1, <1>2, <1>3, <1>4, <1>5

LEMMA CountGrows ==
  ASSUME NEW S, NEW T, S \subseteq T, T \subseteq BookingIds
  PROVE  Cardinality(S) \in Nat /\ Cardinality(T) \in Nat /\ Cardinality(S) <= Cardinality(T)
<1>1. IsFiniteSet(T)
  BY BookingIdsAssumption, FS_Subset
<1>2. IsFiniteSet(S) /\ Cardinality(S) <= Cardinality(T)
  BY <1>1, FS_Subset
<1>3. QED
  BY <1>1, <1>2, FS_CardinalityType

LEMMA AggregateGrows ==
  ASSUME Typed, [Next]_vars, NEW S \in SUBSET CompletedBookings,
         NEW T, S \subseteq T, T \subseteq BookingIds,
         NEW field \in {"travelerPayout", "platformCommission"}
  PROVE  AggregateSum(S, field) <= AggregateSum(T, field)'
<1>1. PICK f : f = [b \in S |-> bookings[b][field]]
  OBVIOUS
<1>2. PICK g : g = [b \in T |-> bookings'[b][field]]
  OBVIOUS
<1>3. bookings' \in [BookingIds -> Booking] /\ bookings \in [BookingIds -> Booking]
  BY TypedNext DEF Typed, TypeOK
<1>4. \A b \in T : g[b] \in Nat
  BY <1>2, <1>3 DEF Booking
<1>5. \A b \in S : f[b] = g[b]
  BY <1>1, <1>2, CompletedStay
<1>6. Ints(f, S)
  BY <1>4, <1>5 DEF Ints
<1>7. IsFiniteSet(T)
  BY BookingIdsAssumption, FS_Subset
<1>8. IsFiniteSet(S)
  BY <1>7, FS_Subset
<1>9. SumFunctionOnSet(f, S) = SumFunctionOnSet(g, S)
  BY <1>5, <1>6, <1>8, SumSame
<1>10. SumFunctionOnSet(g, S) <= SumFunctionOnSet(g, T)
  BY <1>4, <1>7, SumSubset
<1>11. AggregateSum(S, field) = SumFunctionOnSet(f, S)
  BY <1>1, Zenon DEF AggregateSum
<1>12. AggregateSum(T, field)' = SumFunctionOnSet(g, T)
  BY <1>2, Zenon DEF AggregateSum
<1>13. QED
  BY <1>9, <1>10, <1>11, <1>12

LEMMA AtMost100 ==
  ASSUME NEW n \in Int
  PROVE  Min({100, n}) = IF n <= 100 THEN n ELSE 100
BY DEF Min

\* More deliveries never lower a score or take off a badge.
LEMMA ScoreGrows ==
  ASSUME NEW p \in {Newcomer, Veteran}, NEW m \in Nat, NEW n \in Nat, m <= n,
         NEW s \in Nat, NEW t \in Nat, s <= t
  PROVE  CalculateTrustScore(p, m, s) <= CalculateTrustScore(p, n, t)
<1>1. PICK base : base = Points(p.email, 15) + Points(p.phone, 15) + Points(p.id, 25)
                           + Points(p.selfie, 10) + Points(p.photo, 5) + Points(p.bio, 5)
                           + RatingPoints(p)
  OBVIOUS
<1>2. base \in Int
  BY <1>1 DEF Points, RatingPoints, Newcomer, Veteran
<1>3. /\ Points(m >= TrustedAt, 10) \in Int /\ Points(n >= TrustedAt, 10) \in Int
      /\ Points(m >= TrustedAt, 10) <= Points(n >= TrustedAt, 10)
      /\ Points(s >= 1, 5) \in Int /\ Points(t >= 1, 5) \in Int
      /\ Points(s >= 1, 5) <= Points(t >= 1, 5)
  BY ThresholdsAssumption DEF Points
<1>4. PICK low \in Int : low = base + Points(m >= TrustedAt, 10) + Points(s >= 1, 5)
  BY <1>2, <1>3
<1>5. PICK high \in Int : high = base + Points(n >= TrustedAt, 10) + Points(t >= 1, 5)
  BY <1>2, <1>3
<1>6. low <= high
  BY <1>2, <1>3, <1>4, <1>5
<1>7. CalculateTrustScore(p, m, s) = Min({100, low}) /\ CalculateTrustScore(p, n, t) = Min({100, high})
  BY <1>1, <1>4, <1>5, Zenon DEF CalculateTrustScore
<1>8. QED
  BY <1>6, <1>7, AtMost100

LEMMA BadgesGrow ==
  ASSUME NEW m \in Nat, NEW n \in Nat, m <= n, NEW s \in Nat, NEW t \in Nat, s <= t
  PROVE  Cardinality(Badges(Newcomer, m, s)) <= Cardinality(Badges(Newcomer, n, t))
<1>1. Badges(Newcomer, m, s) \subseteq Badges(Newcomer, n, t)
  BY ThresholdsAssumption DEF Badges, Newcomer
<1>2. PICK K : K = {"top_rated", "experienced", "community_champion"} \cup {"email", "phone", "id", "selfie"}
  OBVIOUS
<1>3. IsFiniteSet(K)
  <2>1. \A S, x : IsFiniteSet(S) => IsFiniteSet(S \cup {x})
    BY FS_AddElement
  <2>2. IsFiniteSet({})
    BY FS_EmptySet
  <2>3. IsFiniteSet((((((({} \cup {"top_rated"}) \cup {"experienced"}) \cup {"community_champion"})
                        \cup {"email"}) \cup {"phone"}) \cup {"id"}) \cup {"selfie"})
    BY <2>1, <2>2, Zenon
  <2>4. K = (((((({} \cup {"top_rated"}) \cup {"experienced"}) \cup {"community_champion"})
                \cup {"email"}) \cup {"phone"}) \cup {"id"}) \cup {"selfie"}
    BY <1>2
  <2>5. QED
    BY <2>3, <2>4, Zenon
<1>4. Badges(Newcomer, n, t) \subseteq K
  BY <1>2 DEF Badges
<1>5. IsFiniteSet(Badges(Newcomer, n, t))
  BY <1>3, <1>4, FS_Subset
<1>6. QED
  BY <1>1, <1>5, FS_Subset

LEMMA CreditGrows ==
  ASSUME Typed, MatchInv, [Next]_vars, NEW u
  PROVE  \A k \in DOMAIN Credit(u) : Credit(u)[k] <= Credit(u)'[k]
<1>1. PICK m : m = CompletedBookingsCount(u)
  OBVIOUS
<1>2. PICK n : n = CompletedBookingsCount(u)'
  OBVIOUS
<1>3. PICK s : s = SupportDeliveriesCount(u)
  OBVIOUS
<1>4. PICK t : t = SupportDeliveriesCount(u)'
  OBVIOUS
<1>5. m \in Nat /\ n \in Nat /\ m <= n
  BY <1>1, <1>2, CompletedGrow, CountGrows DEF CompletedBookingsCount, CompletedBy, CompletedFor
<1>6. s \in Nat /\ t \in Nat /\ s <= t
  BY <1>3, <1>4, CompletedGrow, CountGrows DEF SupportDeliveriesCount, CompletedBy
<1>7. Cardinality(CompletedBy(u)) <= Cardinality(CompletedBy(u)')
  BY CompletedGrow, CountGrows DEF CompletedBy
<1>8. AggregateSum(CompletedBy(u), "travelerPayout") <= AggregateSum(CompletedBy(u), "travelerPayout")'
  BY CompletedGrow, AggregateGrows DEF CompletedBy
<1>9. QED
  BY <1>1, <1>2, <1>3, <1>4, <1>5, <1>6, <1>7, <1>8, ScoreGrows, BadgesGrow DEF Credit

\* Nobody loses what a completed booking has earned.
THEOREM CreditStays == Spec => CreditIsKept
<1>1. ASSUME Typed, MatchInv, [Next]_vars
      PROVE  TotalCommission <= TotalCommission'
  BY <1>1, CompletedGrow, AggregateGrows DEF TotalCommission
<1>2. Typed /\ MatchInv /\ [Next]_vars =>
        [/\ \A u \in {TravelerOf(bookings[b]) : b \in CompletedBookings} :
              LET before == Credit(u)
                  after == Credit(u)'
              IN \A k \in DOMAIN before : before[k] <= after[k]
         /\ TotalCommission <= TotalCommission']_vars
  BY <1>1, CreditGrows
<1>3. QED
  BY <1>2, TypedAlways, MatchAlways, PTL DEF Spec, CreditIsKept

=============================================================================
