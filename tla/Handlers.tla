------------------------------- MODULE Handlers -------------------------------
(***************************************************************************)
(* The handlers of Lifecycle as Node runs them: every await gives way to   *)
(* the other calls in flight.  A call keeps the copy of the document it    *)
(* read; its guards were tested on that copy, and document.save() writes   *)
(* the fields the handler changed, on top of whatever the document has     *)
(* become.  Nothing locks a document and nothing checks a version, so two  *)
(* calls on one booking may both pass guards that exclude each other.      *)
(* A call may also end early: a write that fails, or the process stopping, *)
(* leaves the writes made so far.                                          *)
(***************************************************************************)
EXTENDS BookingDocs

CONSTANT CallIds   \* calls that may be in flight together: bounds the overlap

VARIABLES
  requests, trips, bookings,  \* the collections
  intents,                    \* PaymentIntents, kept by Stripe
  calls                       \* the calls in flight

docs == <<requests, trips, bookings, intents>>
vars == <<requests, trips, bookings, intents, calls>>

\* Handlers whose booking.save() is followed by a status written to the request.
RequestStatusAfter ==
  [accept |-> "confirmed", acceptCounter |-> "confirmed",
   inTransit |-> "in_transit", proof |-> "delivered", complete |-> "completed"]

\* Handlers followed by revertMatch.
RevertingOps == {"decline", "cancel"}

Ops ==
  DOMAIN RequestStatusAfter \cup RevertingOps \cup
  {"none", "match", "counter", "pay", "dispute", "resolve", "intent",
   "updateRequest", "cancelRequest", "approve", "reject", "cancelTrip"}

PCs ==
  {"idle",
   "readTrip", "checkLink", "insert",      \* createMatch before the insert
   "refund", "stripe",                     \* calls to Stripe
   "save",                                 \* booking.save()
   "request",                              \* the write of the request
   "incTrip", "findTrip", "saveTrip",      \* matchedRequestsCount
   "findBookings", "closeTrip",            \* maybeCompleteTrip
   "saveRequest", "saveTripStatus"}        \* requests and trips services

Documents == Booking \cup Request \cup Trip \cup {NoId}

\* op: the handler; pc: what it awaits; user: the caller; b, r, t: the ids of the
\* documents it works on; old, new: the document as read and as edited; arg: the
\* fee, PaymentIntent or refund amount of the call.
Call ==
  [op : Ops, pc : PCs, user : Users \cup {NoId},
   b : BookingIds \cup {NoId}, r : Requests \cup {NoId}, t : Trips \cup {NoId},
   old : Documents, new : Documents,
   arg : Fees \cup IntentIds \cup RefundAmounts \cup {NoId}]

NoCall ==
  [op |-> "none", pc |-> "idle", user |-> NoId, b |-> NoId, r |-> NoId,
   t |-> NoId, old |-> NoId, new |-> NoId, arg |-> NoId]

TypeOK ==
  /\ requests \in [Requests -> Request]
  /\ trips \in [Trips -> Trip]
  /\ bookings \in [BookingIds -> Booking]
  /\ intents \in [IntentIds -> Intent]
  /\ calls \in [CallIds -> Call]

Init ==
  /\ requests = [r \in Requests |-> AbsentRequest]
  /\ trips = [t \in Trips |-> AbsentTrip]
  /\ bookings = [b \in BookingIds |-> AbsentBooking]
  /\ intents = [i \in IntentIds |-> AbsentIntent]
  /\ calls = [c \in CallIds |-> NoCall]

-----------------------------------------------------------------------------
(* document.save(): the changed fields only. *)

Merge(cur, old, new) ==
  [f \in DOMAIN cur |-> IF new[f] = old[f] THEN cur[f] ELSE new[f]]

At(c, pc) == calls[c].pc = pc

Goto(c, pc) == calls' = [calls EXCEPT ![c].pc = pc]

\* Past a write, the handler needs only the ids it works on.
Proceed(c, pc) ==
  calls' = [calls EXCEPT ![c] = [NoCall EXCEPT
    !.op = calls[c].op, !.pc = pc, !.r = calls[c].r, !.t = calls[c].t]]

Return(c) == calls' = [calls EXCEPT ![c] = NoCall]

\* Bounds: a call that will create a document starts only while an id is left.
BookingIdLeft ==
  Cardinality({c \in CallIds : calls[c].pc \in {"readTrip", "checkLink", "insert"}})
    < Cardinality({b \in BookingIds : bookings[b].status = "absent"})

IntentIdLeft ==
  Cardinality({c \in CallIds : At(c, "stripe")})
    < Cardinality({i \in IntentIds : intents[i].status = "absent"})

-----------------------------------------------------------------------------
(* Documents that come to be in one write. *)

CreateRequest(r, type) ==
  /\ requests[r].status = "absent"
  /\ requests' = [requests EXCEPT ![r] = NewRequest(type)]
  /\ UNCHANGED <<trips, bookings, intents, calls>>

CreateTrip(t) ==
  /\ trips[t].status = "absent"
  /\ trips' = [trips EXCEPT ![t].status = "active"]
  /\ UNCHANGED <<requests, bookings, intents, calls>>

\* The requester pays an open PaymentIntent in the browser.
CapturePayment(i) ==
  /\ intents[i].status = "open"
  /\ intents' = [intents EXCEPT ![i] = Succeeded(@)]
  /\ UNCHANGED <<requests, trips, bookings, calls>>

-----------------------------------------------------------------------------
(* createMatch: five reads and writes after the first. *)

StartMatch(c, u, r, t, fee) ==
  /\ At(c, "idle")
  /\ BookingIdLeft
  /\ RequestMatchable(r, u, requests[r])
  /\ calls' = [calls EXCEPT ![c] = [NoCall EXCEPT
       !.op = "match", !.pc = "readTrip", !.user = u, !.r = r, !.t = t, !.arg = fee]]
  /\ UNCHANGED docs

ReadTrip(c) ==
  /\ At(c, "readTrip")
  /\ IF TripMatchable(trips[calls[c].t])
     THEN Goto(c, "checkLink")
     ELSE Return(c)
  /\ UNCHANGED docs

CheckLink(c) ==
  /\ At(c, "checkLink")
  /\ IF ExistingLink(bookings, calls[c].r, calls[c].t)
     THEN Return(c)
     ELSE Goto(c, "insert")
  /\ UNCHANGED docs

InsertBooking(c, b) ==
  /\ At(c, "insert")
  /\ bookings[b].status = "absent"
  /\ bookings' = [bookings EXCEPT
                    ![b] = NewBooking(calls[c].r, calls[c].t, calls[c].arg)]
  /\ Proceed(c, "request")
  /\ UNCHANGED <<requests, trips, intents>>

IncTrip(c) ==
  /\ At(c, "incTrip")
  /\ trips' = [trips EXCEPT ![calls[c].t].matchedRequestsCount = @ + 1]
  /\ Return(c)
  /\ UNCHANGED <<requests, bookings, intents>>

-----------------------------------------------------------------------------
(* The first half of the handlers on a booking: read it, test the guards,    *)
(* edit the copy.  Each then stands before the await of its first write.     *)

StartEdit(c, op, pc, u, b, edited, arg) ==
  /\ At(c, "idle")
  /\ calls' = [calls EXCEPT ![c] =
       [op |-> op, pc |-> pc, user |-> u, b |-> b,
        r |-> bookings[b].requestId, t |-> bookings[b].tripId,
        old |-> bookings[b], new |-> edited, arg |-> arg]]
  /\ UNCHANGED docs

StartAccept(c, u, b) ==
  /\ CanAccept(bookings[b], u)
  /\ StartEdit(c, "accept", "save", u, b, Accepted(bookings[b]), NoId)

StartCounter(c, u, b, fee) ==
  /\ CanCounter(bookings[b], u)
  /\ StartEdit(c, "counter", "save", u, b, Countered(bookings[b], fee), NoId)

StartDecline(c, u, b) ==
  /\ CanDecline(bookings[b], u)
  /\ StartEdit(c, "decline", "save", u, b, Declined(bookings[b]), NoId)

StartAcceptCounter(c, u, b) ==
  /\ CanAcceptCounter(bookings[b], u)
  /\ StartEdit(c, "acceptCounter", "save", u, b, CounterAccepted(bookings[b]), NoId)

StartInTransit(c, u, b) ==
  /\ CanMarkInTransit(bookings[b], u)
  /\ StartEdit(c, "inTransit", "save", u, b, InTransit(bookings[b]), NoId)

StartProof(c, u, b) ==
  /\ CanSubmitProof(bookings[b], u)
  /\ StartEdit(c, "proof", "save", u, b, Delivered(bookings[b]), NoId)

StartComplete(c, u, b) ==
  /\ CanComplete(bookings[b], u)
  /\ StartEdit(c, "complete", "save", u, b, Completed(bookings[b]), NoId)

StartDispute(c, u, b) ==
  /\ CanDispute(bookings[b], u)
  /\ StartEdit(c, "dispute", "save", u, b, Disputed(bookings[b], u), NoId)

StartCancel(c, u, b) ==
  /\ CanCancel(bookings[b], u)
  /\ StartEdit(c, "cancel", "save", u, b, Cancelled(bookings[b], u), NoId)

\* The refund, if there is one, goes out before the booking is saved.
StartResolve(c, b, resolution, amount) ==
  /\ CanResolve(bookings[b])
  /\ StartEdit(c, "resolve",
               IF CallsStripe(bookings[b], resolution) THEN "refund" ELSE "save",
               NoId, b, Resolved(bookings[b], resolution, amount), amount)

\* Webhook or client confirmation of a captured payment, as often as they come.
StartPay(c, i) ==
  /\ intents[i].status = "succeeded"
  /\ CanMarkPaid(bookings[intents[i].bookingId])
  /\ StartEdit(c, "pay", "save", NoId, intents[i].bookingId,
               Paid(bookings[intents[i].bookingId], i), i)

StartIntent(c, u, b) ==
  /\ IntentIdLeft
  /\ CanCreateIntent(bookings[b], u)
  /\ StartEdit(c, "intent", "stripe", u, b, bookings[b], NoId)

-----------------------------------------------------------------------------
(* Calls to Stripe. *)

\* Mutant: the intent is made for the fee first offered.
CreateIntent_OfferedFee(c, i) ==
  /\ At(c, "stripe")
  /\ intents[i].status = "absent"
  /\ intents' = [intents EXCEPT ![i] = NewIntent(calls[c].b, calls[c].old.offeredFee)]
  /\ Return(c)
  /\ UNCHANGED <<requests, trips, bookings>>

CreateIntent(c, i) ==
  /\ At(c, "stripe")
  /\ intents[i].status = "absent"
  /\ intents' = [intents EXCEPT ![i] = NewIntent(calls[c].b, calls[c].old.agreedFee)]
  /\ Return(c)
  /\ UNCHANGED <<requests, trips, bookings>>

\* A refused refund ends the call, with nothing saved.
CallStripe(c) ==
  /\ At(c, "refund")
  /\ LET i == calls[c].old.paymentIntentId
     IN IF StripeAccepts(intents[i], calls[c].arg)
        THEN /\ intents' = [intents EXCEPT ![i] = Refunded(@, calls[c].arg)]
             /\ Goto(c, "save")
        ELSE Return(c) /\ UNCHANGED intents
  /\ UNCHANGED <<requests, trips, bookings>>

-----------------------------------------------------------------------------
(* The second half: the writes, one await each. *)

SaveBooking(c) ==
  /\ At(c, "save")
  /\ bookings' = [bookings EXCEPT ![calls[c].b] = Merge(@, calls[c].old, calls[c].new)]
  /\ IF calls[c].op \in DOMAIN RequestStatusAfter \cup RevertingOps
     THEN Proceed(c, "request")
     ELSE Return(c)
  /\ UNCHANGED <<requests, trips, intents>>

\* Mutant: a cancelled booking leaves its request matched.
RequestAfter_KeepsMatch(doc, call) ==
  CASE call.op = "match" -> MatchedRequest(doc, call.t)
    [] call.op \in RevertingOps -> [doc EXCEPT !.status = "pending"]
    [] OTHER -> [doc EXCEPT !.status = RequestStatusAfter[call.op]]

\* The write each handler makes on the request of its booking.
RequestAfter(doc, call) ==
  CASE call.op = "match" -> MatchedRequest(doc, call.t)
    [] call.op \in RevertingOps -> RevertedRequest(doc)
    [] OTHER -> [doc EXCEPT !.status = RequestStatusAfter[call.op]]

WriteRequest(c) ==
  /\ At(c, "request")
  /\ requests' = [requests EXCEPT ![calls[c].r] = RequestAfter(@, calls[c])]
  /\ CASE calls[c].op = "match" -> Goto(c, "incTrip")
       [] calls[c].op \in RevertingOps -> Goto(c, "findTrip")
       [] calls[c].op = "complete" -> Goto(c, "findBookings")
       [] OTHER -> Return(c)
  /\ UNCHANGED <<trips, bookings, intents>>

\* revertMatch reads the trip and writes the count it computed from the copy.
FindTrip(c) ==
  /\ At(c, "findTrip")
  /\ LET trip == trips[calls[c].t]
     IN calls' = [calls EXCEPT
          ![c].pc = "saveTrip", ![c].old = trip,
          ![c].new = [trip EXCEPT !.matchedRequestsCount = Decremented(@)]]
  /\ UNCHANGED docs

SaveTrip(c) ==
  /\ At(c, "saveTrip")
  /\ trips' = [trips EXCEPT ![calls[c].t] = Merge(@, calls[c].old, calls[c].new)]
  /\ Return(c)
  /\ UNCHANGED <<requests, bookings, intents>>

FindBookings(c) ==
  /\ At(c, "findBookings")
  /\ IF TripDone(bookings, calls[c].t)
     THEN Goto(c, "closeTrip")
     ELSE Return(c)
  /\ UNCHANGED docs

CloseTrip(c) ==
  /\ At(c, "closeTrip")
  /\ trips' = [trips EXCEPT ![calls[c].t].status = "completed"]
  /\ Return(c)
  /\ UNCHANGED <<requests, bookings, intents>>

-----------------------------------------------------------------------------
(* requests.service.ts, trips.service.ts and the support moderation. *)

StartRequestEdit(c, op, u, r, edited) ==
  /\ At(c, "idle")
  /\ calls' = [calls EXCEPT ![c] = [NoCall EXCEPT
       !.op = op, !.pc = "saveRequest", !.user = u, !.r = r,
       !.old = requests[r], !.new = edited]]
  /\ UNCHANGED docs

StartUpdateRequest(c, u, r, type) ==
  /\ CanUpdateRequest(r, u, requests[r])
  /\ StartRequestEdit(c, "updateRequest", u, r, [requests[r] EXCEPT !.type = type])

StartCancelRequest(c, u, r) ==
  /\ CanCancelRequest(r, u, requests[r])
  /\ StartRequestEdit(c, "cancelRequest", u, r,
                      [requests[r] EXCEPT !.status = "cancelled"])

StartApprove(c, r) ==
  /\ CanModerate(requests[r])
  /\ StartRequestEdit(c, "approve", NoId, r,
                      [requests[r] EXCEPT !.adminApprovalStatus = "approved"])

StartReject(c, r) ==
  /\ CanModerate(requests[r])
  /\ StartRequestEdit(c, "reject", NoId, r, RejectedRequest(requests[r]))

SaveRequest(c) ==
  /\ At(c, "saveRequest")
  /\ requests' = [requests EXCEPT ![calls[c].r] = Merge(@, calls[c].old, calls[c].new)]
  /\ Return(c)
  /\ UNCHANGED <<trips, bookings, intents>>

StartCancelTrip(c, u, t) ==
  /\ At(c, "idle")
  /\ CanCancelTrip(t, u, trips[t])
  /\ calls' = [calls EXCEPT ![c] = [NoCall EXCEPT
       !.op = "cancelTrip", !.pc = "saveTripStatus", !.user = u, !.t = t,
       !.old = trips[t], !.new = [trips[t] EXCEPT !.status = "cancelled"]]]
  /\ UNCHANGED docs

SaveTripStatus(c) ==
  /\ At(c, "saveTripStatus")
  /\ trips' = [trips EXCEPT ![calls[c].t] = Merge(@, calls[c].old, calls[c].new)]
  /\ Return(c)
  /\ UNCHANGED <<requests, bookings, intents>>

-----------------------------------------------------------------------------
(* A read or write that fails, or the end of the process, ends the call.     *)

Fail(c) ==
  /\ ~At(c, "idle")
  /\ Return(c)
  /\ UNCHANGED docs

-----------------------------------------------------------------------------

Start(c) ==
  \/ \E u \in Users :
       \/ \E r \in Requests, t \in Trips, fee \in Fees : StartMatch(c, u, r, t, fee)
       \/ \E r \in Requests :
            \/ \E type \in OfferedTypes : StartUpdateRequest(c, u, r, type)
            \/ StartCancelRequest(c, u, r)
       \/ \E t \in Trips : StartCancelTrip(c, u, t)
       \/ \E b \in BookingIds :
            \/ StartAccept(c, u, b)
            \/ \E fee \in Fees : StartCounter(c, u, b, fee)
            \/ StartDecline(c, u, b)
            \/ StartAcceptCounter(c, u, b)
            \/ StartInTransit(c, u, b)
            \/ StartProof(c, u, b)
            \/ StartComplete(c, u, b)
            \/ StartDispute(c, u, b)
            \/ StartCancel(c, u, b)
            \/ StartIntent(c, u, b)
  \/ \E b \in BookingIds, a \in ResolutionArgs : StartResolve(c, b, a[1], a[2])
  \/ \E i \in IntentIds : StartPay(c, i)
  \/ \E r \in Requests : StartApprove(c, r) \/ StartReject(c, r)

Step(c) ==
  \/ ReadTrip(c)
  \/ CheckLink(c)
  \/ \E b \in BookingIds : InsertBooking(c, b)
  \/ IncTrip(c)
  \/ \E i \in IntentIds : CreateIntent(c, i)
  \/ CallStripe(c)
  \/ SaveBooking(c)
  \/ WriteRequest(c)
  \/ FindTrip(c)
  \/ SaveTrip(c)
  \/ FindBookings(c)
  \/ CloseTrip(c)
  \/ SaveRequest(c)
  \/ SaveTripStatus(c)

Environment ==
  \/ \E r \in Requests, type \in OfferedTypes : CreateRequest(r, type)
  \/ \E t \in Trips : CreateTrip(t)
  \/ \E i \in IntentIds : CapturePayment(i)

Next == Environment \/ \E c \in CallIds : Start(c) \/ Step(c)

\* No call fails.
Spec == Init /\ [][Next]_vars

\* Any call may fail at any await.
FailingNext == Next \/ \E c \in CallIds : Fail(c)

FailingSpec == Init /\ [][FailingNext]_vars

\* Stripe repeats the delivery of a succeeded payment until it is answered, and
\* the database does not refuse the save of a payment for ever.
RecordPayment(i) ==
  \E c \in CallIds :
    calls[c].op = "pay" /\ calls[c].arg = i /\ SaveBooking(c)

RetryingSpec ==
  /\ FailingSpec
  /\ \A c \in CallIds : WF_vars(Step(c))
  /\ \A i \in IntentIds :
       /\ SF_vars(\E c \in CallIds : StartPay(c, i))
       /\ SF_vars(RecordPayment(i))

-----------------------------------------------------------------------------
(* What holds however calls overlap and fail.                                *)

FundedStatuses == {"paid", "in_transit", "delivered", "disputed", "completed"}

\* However stale the copies are that overlapping calls save, a booking never
\* reaches payment, transport, dispute or completion without an agreed fee and a
\* captured payment made for this very booking.
FundedHoweverStale ==
  \A b \in BookingIds :
    LET d == bookings[b]
    IN d.status \in FundedStatuses =>
         /\ d.agreedFee > 0
         /\ d.paymentIntentId # NoId
         /\ intents[d.paymentIntentId].status = "succeeded"
         /\ intents[d.paymentIntentId].bookingId = b

\* Commission and payout are always those of the agreed fee beside them, never a
\* mix of two agreements that were saved field by field over one another.
SplitMatchesFee ==
  \A b \in BookingIds :
    LET d == bookings[b]
    IN /\ d.platformCommission * 10 = d.agreedFee
       /\ d.platformCommission + d.travelerPayout = d.agreedFee

\* A booking is completed only after its proof of delivery, or by an
\* administrator who resolved a dispute on it.
CompletionIsEarned ==
  \A b \in BookingIds :
    LET d == bookings[b]
    IN /\ d.status = "delivered" => d.podSubmitted
       /\ d.status = "completed" =>
            \/ d.podSubmitted
            \/ d.disputeResolved /\ d.disputeRaisedBy \in Parties(d)

-----------------------------------------------------------------------------
(* What holds when calls fail half-way but do not overlap.                   *)

LinkedBookings(r, t) ==
  {b \in BookingIds : /\ bookings[b].requestId = r
                      /\ bookings[b].tripId = t
                      /\ bookings[b].status \notin {"absent", "cancelled"}}

\* A request has at most one standing booking on a trip.  A createMatch that dies
\* after its insert leaves the request pending; it is the query for an earlier
\* link that stops the retry.  bookings.service.ts answers "A booking already
\* exists for this request and trip".
OneLinkPerTrip ==
  \A r \in Requests, t \in Trips :
    \A b1, b2 \in LinkedBookings(r, t) : b1 = b2

\* Calls cut off between two writes do not reopen a cancelled or completed
\* booking when they, or Stripe, are tried again.
ClosedStayClosed ==
  [][\A b \in BookingIds :
       bookings[b].status \in {"cancelled", "completed"}
         => bookings'[b] = bookings[b]]_bookings

\* A captured payment that a booking carries has the amount agreed on there, to
\* the cent.
ChargedAsAgreed ==
  \A b \in BookingIds :
    bookings[b].paymentIntentId # NoId
      => intents[bookings[b].paymentIntentId].amount = Cents(bookings[b].agreedFee)

CapturedFor(i, b) == intents[i].status = "succeeded" /\ intents[i].bookingId = b

\* However many deliveries fail half-way, every captured payment ends on record at
\* its booking, unless the booking is cancelled or has another payment that was
\* captured for it on record: a booking paid twice records one, the other is dropped.
CheckoutEnds ==
  []<>(\A i \in IntentIds, b \in BookingIds :
         CapturedFor(i, b) =>
           \/ bookings[b].status = "cancelled"
           \/ \E j \in IntentIds : bookings[b].paymentIntentId = j /\ CapturedFor(j, b))

-----------------------------------------------------------------------------
(* What messages and tests say, and overlapping or failing calls break.      *)

\* API_INTEGRATION.md: on payment_intent.succeeded the webhook marks the booking
\* of the payment paid, storing paymentIntentId.
WebhookMarksPaid ==
  \A i \in IntentIds, b \in BookingIds :
    CapturedFor(i, b) ~> bookings[b].paymentIntentId = i

=============================================================================
