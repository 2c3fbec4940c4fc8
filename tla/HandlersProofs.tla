---------------------------- MODULE HandlersProofs ----------------------------
(***************************************************************************)
(* Proofs about Handlers.  First, what holds of a booking for any number   *)
(* of calls in flight, whatever stale copies they save over one another,   *)
(* and wherever they fail.  Then, what holds when calls never overlap.  If *)
(* they may fail half-way, what a call cut off between two writes leaves   *)
(* behind misleads none of the calls that follow.  If none fails, each     *)
(* call does what its handler in Lifecycle does in one step.               *)
(***************************************************************************)
EXTENDS Handlers, HandlersRefinement, TLAPS

\* What is true of every booking, and of every copy that a handler holds.
Sound(d) ==
  /\ d \in Booking
  /\ d.status # "absent" => d.requestId \in Requests /\ d.tripId \in Trips
  /\ d.offeredFee \in Fees \cup {0} /\ d.counterFee \in Fees \cup {0}
  /\ d.platformCommission * 10 = d.agreedFee
  /\ d.platformCommission + d.travelerPayout = d.agreedFee
  /\ d.status \in FundedStatuses \cup {"confirmed"} => d.agreedFee > 0
  /\ d.status \in FundedStatuses => d.paymentIntentId # NoId
  /\ d.disputeRaisedBy # NoId => d.status # "absent" /\ d.disputeRaisedBy \in Parties(d)
  /\ d.status = "delivered" => d.podSubmitted = TRUE
  /\ d.status = "disputed" => d.disputeRaisedBy # NoId
  /\ d.status = "completed" =>
       d.podSubmitted = TRUE \/ (d.disputeResolved = TRUE /\ d.disputeRaisedBy # NoId)

\* What d has, e has too: handlers set these fields and never unset them.
Kept(d, e) ==
  /\ e.requestId = d.requestId /\ e.tripId = d.tripId /\ e.offeredFee = d.offeredFee
  /\ e.status # "absent"
  /\ d.agreedFee > 0 => e.agreedFee > 0
  /\ d.paymentIntentId # NoId => e.paymentIntentId # NoId
  /\ d.podSubmitted = TRUE => e.podSubmitted = TRUE
  /\ d.disputeRaisedBy # NoId => e.disputeRaisedBy # NoId
  /\ d.disputeResolved = TRUE => e.disputeResolved = TRUE

\* Payment i was made for booking b, and captured.
Backed(b, i) ==
  /\ i \in IntentIds
  /\ intents[i].status = "succeeded"
  /\ intents[i].bookingId = b

BookingOK(b) ==
  /\ Sound(bookings[b])
  /\ bookings[b].paymentIntentId # NoId => Backed(b, bookings[b].paymentIntentId)

IntentOK(i) ==
  /\ DOMAIN intents[i] = {"status", "bookingId", "amount", "refunded"}
  /\ intents[i].status # "absent" => intents[i].bookingId \in BookingIds

\* A call about to save a booking: the copy it read, and the edit of it.
Holds(d) ==
  /\ d.b \in BookingIds
  /\ Sound(d.old) /\ d.old.status # "absent"
  /\ Sound(d.new) /\ Kept(d.old, d.new)
  /\ d.new.paymentIntentId # d.old.paymentIntentId => Backed(d.b, d.new.paymentIntentId)

CallOK(d) ==
  /\ DOMAIN d = {"op", "pc", "user", "b", "r", "t", "old", "new", "arg"}
  /\ d.pc \in {"save", "refund"} => Holds(d) /\ Kept(d.old, bookings[d.b])
  /\ d.pc = "stripe" => d.b \in BookingIds
  /\ d.pc \in {"readTrip", "checkLink", "insert"} =>
       d.r \in Requests /\ d.t \in Trips /\ d.arg \in Fees

BookingsOK == DOMAIN bookings = BookingIds /\ \A b \in BookingIds : BookingOK(b)

IntentsOK == DOMAIN intents = IntentIds /\ \A i \in IntentIds : IntentOK(i)

CallsOK == DOMAIN calls = CallIds /\ \A c \in CallIds : CallOK(calls[c])

HandlersInv == BookingsOK /\ IntentsOK /\ CallsOK

-----------------------------------------------------------------------------

(* The edits: each leaves a sound booking, and keeps what there was. *)

\* Ten percent of a fee, and the rest.
LEMMA CommissionFacts ==
  ASSUME NEW fee \in Fees
  PROVE  LET c == (fee * CommissionPct) \div 100
         IN /\ fee \in Nat /\ fee > 0
            /\ c \in Nat /\ fee - c \in Nat
            /\ c * 10 = fee /\ c + (fee - c) = fee
<1>1. fee \in Nat /\ fee >= 100 /\ fee % 10 = 0
  BY MoneyAssumption
<1>2. PICK c : c = (fee * CommissionPct) \div 100
  OBVIOUS
<1>3. c * 10 = fee
  BY <1>1, <1>2 DEF CommissionPct
<1>4. c \in Nat
  BY <1>1, <1>2 DEF CommissionPct
<1>5. QED
  BY <1>1, <1>2, <1>3, <1>4

\* acceptBooking and acceptCounter agree on a fee.
LEMMA AgreeEdit ==
  ASSUME NEW d, Sound(d), d.status # "absent", NEW fee \in Fees,
         NEW e, e = [ApplyCommission(d, fee) EXCEPT !.status = "confirmed"]
  PROVE  Sound(e) /\ Kept(d, e) /\ e.paymentIntentId = d.paymentIntentId
<1>1. PICK c : c = (fee * CommissionPct) \div 100
  OBVIOUS
<1>2. PICK p : p = fee - c
  OBVIOUS
<1>3. /\ fee \in Nat /\ fee > 0 /\ c \in Nat /\ p \in Nat
      /\ c * 10 = fee /\ c + p = fee
  BY <1>1, <1>2, CommissionFacts
<1>4. d \in Booking
  BY DEF Sound
<1>5. PICK a : a = [d EXCEPT !.agreedFee = fee, !.platformCommission = c,
                             !.travelerPayout = p]
  OBVIOUS
<1>6. a = ApplyCommission(d, fee)
  BY <1>1, <1>2, <1>5 DEF ApplyCommission
<1>7. a \in Booking
  BY <1>3, <1>4, <1>5 DEF Booking
<1>8. /\ a.agreedFee = fee /\ a.platformCommission = c /\ a.travelerPayout = p
      /\ a.requestId = d.requestId /\ a.tripId = d.tripId /\ a.offeredFee = d.offeredFee
      /\ a.counterFee = d.counterFee
  BY <1>4, <1>5 DEF Booking
<1>9. /\ a.paymentIntentId = d.paymentIntentId /\ a.podSubmitted = d.podSubmitted
      /\ a.disputeRaisedBy = d.disputeRaisedBy /\ a.disputeResolved = d.disputeResolved
  BY <1>4, <1>5 DEF Booking
<1>10. e = [a EXCEPT !.status = "confirmed"]
  BY <1>6
<1>11. e \in Booking
  BY <1>7, <1>10 DEF Booking, BookingStatuses
<1>12. /\ e.status = "confirmed"
       /\ e.agreedFee = fee /\ e.platformCommission = c /\ e.travelerPayout = p
       /\ e.requestId = d.requestId /\ e.tripId = d.tripId /\ e.offeredFee = d.offeredFee
       /\ e.counterFee = d.counterFee
  BY <1>7, <1>8, <1>10 DEF Booking
<1>13. /\ e.paymentIntentId = d.paymentIntentId /\ e.podSubmitted = d.podSubmitted
       /\ e.disputeRaisedBy = d.disputeRaisedBy /\ e.disputeResolved = d.disputeResolved
  BY <1>7, <1>9, <1>10 DEF Booking
<1>14. Sound(e)
  BY <1>3, <1>11, <1>12, <1>13 DEF Sound, FundedStatuses, Parties, RequesterOf, TravelerOf
<1>15. QED
  BY <1>3, <1>12, <1>13, <1>14 DEF Kept

\* The other edits leave the agreement alone.
SameMoney(d, e) ==
  /\ e.offeredFee = d.offeredFee /\ e.agreedFee = d.agreedFee
  /\ e.platformCommission = d.platformCommission /\ e.travelerPayout = d.travelerPayout

SameRest(d, e) ==
  /\ e.requestId = d.requestId /\ e.tripId = d.tripId
  /\ e.paymentIntentId = d.paymentIntentId /\ e.podSubmitted = d.podSubmitted
  /\ e.disputeRaisedBy = d.disputeRaisedBy /\ e.disputeResolved = d.disputeResolved

LEMMA CounterEdit ==
  ASSUME NEW d, Sound(d), d.status # "absent", NEW fee \in Fees,
         NEW e, e = Countered(d, fee)
  PROVE  Sound(e) /\ Kept(d, e) /\ e.paymentIntentId = d.paymentIntentId
<1>1. d \in Booking /\ fee \in Nat
  BY MoneyAssumption DEF Sound
<1>2. e = [d EXCEPT !.counterFee = fee, !.status = "countered"]
  BY DEF Countered
<1>3. e \in Booking /\ e.counterFee = fee /\ e.status = "countered"
  BY <1>1, <1>2 DEF Booking, BookingStatuses
<1>4. SameMoney(d, e) /\ SameRest(d, e)
  BY <1>1, <1>2 DEF Booking, SameMoney, SameRest
<1>5. Sound(e)
  BY <1>3, <1>4
     DEF Sound, SameMoney, SameRest, FundedStatuses, Parties, RequesterOf, TravelerOf
<1>6. QED
  BY <1>3, <1>4, <1>5 DEF Kept, SameMoney, SameRest

LEMMA CancelEdit ==
  ASSUME NEW d, Sound(d), d.status # "absent", NEW u \in Users,
         NEW e, e = Cancelled(d, u)
  PROVE  Sound(e) /\ Kept(d, e) /\ e.paymentIntentId = d.paymentIntentId
<1>1. d \in Booking
  BY DEF Sound
<1>2. e = [d EXCEPT !.status = "cancelled", !.cancelledBy = u]
  BY DEF Cancelled
<1>3. e \in Booking /\ e.counterFee = d.counterFee /\ e.status = "cancelled"
  BY <1>1, <1>2 DEF Booking, BookingStatuses
<1>4. SameMoney(d, e) /\ SameRest(d, e)
  BY <1>1, <1>2 DEF Booking, SameMoney, SameRest
<1>5. Sound(e)
  BY <1>3, <1>4
     DEF Sound, SameMoney, SameRest, FundedStatuses, Parties, RequesterOf, TravelerOf
<1>6. QED
  BY <1>3, <1>4, <1>5 DEF Kept, SameMoney, SameRest

\* markInTransit, complete: a status that follows from the one before.
LEMMA StatusEdit ==
  ASSUME NEW d, Sound(d), NEW s,
         \/ d.status = "paid" /\ s = "in_transit"
         \/ d.status = "delivered" /\ s = "completed",
         NEW e, e = [d EXCEPT !.status = s]
  PROVE  Sound(e) /\ Kept(d, e) /\ e.paymentIntentId = d.paymentIntentId
<1>1. d \in Booking /\ s \in BookingStatuses /\ s # "absent"
  BY DEF Sound, BookingStatuses
<1>2. e \in Booking /\ e.counterFee = d.counterFee /\ e.status = s
  BY <1>1 DEF Booking
<1>3. SameMoney(d, e) /\ SameRest(d, e)
  BY <1>1 DEF Booking, SameMoney, SameRest
<1>4. Sound(e)
  BY <1>2, <1>3
     DEF Sound, SameMoney, SameRest, FundedStatuses, Parties, RequesterOf, TravelerOf
<1>5. QED
  BY <1>1, <1>2, <1>3, <1>4 DEF Kept, SameMoney, SameRest

LEMMA DeliverEdit ==
  ASSUME NEW d, Sound(d), d.status = "in_transit", NEW e, e = Delivered(d)
  PROVE  Sound(e) /\ Kept(d, e) /\ e.paymentIntentId = d.paymentIntentId
<1>1. d \in Booking
  BY DEF Sound
<1>2. e = [d EXCEPT !.podSubmitted = TRUE, !.status = "delivered"]
  BY DEF Delivered
<1>3. e \in Booking /\ e.counterFee = d.counterFee
  BY <1>1, <1>2 DEF Booking, BookingStatuses
<1>4. e.status = "delivered" /\ e.podSubmitted = TRUE
  BY <1>1, <1>2 DEF Booking
<1>5. /\ SameMoney(d, e)
      /\ e.requestId = d.requestId /\ e.tripId = d.tripId
      /\ e.paymentIntentId = d.paymentIntentId
      /\ e.disputeRaisedBy = d.disputeRaisedBy /\ e.disputeResolved = d.disputeResolved
  BY <1>1, <1>2 DEF Booking, SameMoney
<1>6. Sound(e)
  BY <1>3, <1>4, <1>5 DEF Sound, SameMoney, FundedStatuses, Parties, RequesterOf, TravelerOf
<1>7. QED
  BY <1>4, <1>5, <1>6 DEF Kept, SameMoney

LEMMA DisputeEdit ==
  ASSUME NEW d, Sound(d), NEW u, CanDispute(d, u), NEW e, e = Disputed(d, u)
  PROVE  Sound(e) /\ Kept(d, e) /\ e.paymentIntentId = d.paymentIntentId
<1>1. d \in Booking /\ d.status \in DisputableStatuses /\ u \in Parties(d)
  BY DEF Sound, CanDispute
<1>2. d.requestId \in Requests /\ d.tripId \in Trips
  BY <1>1 DEF Sound, DisputableStatuses
<1>3. u \in Users /\ u # NoId
  BY <1>1, <1>2, IdsAssumption DEF Parties, RequesterOf, TravelerOf
<1>4. e = [d EXCEPT !.status = "disputed", !.disputeRaisedBy = u]
  BY DEF Disputed
<1>5. e \in Booking /\ e.counterFee = d.counterFee
  BY <1>1, <1>3, <1>4 DEF Booking, BookingStatuses
<1>6. e.status = "disputed" /\ e.disputeRaisedBy = u
  BY <1>1, <1>4 DEF Booking
<1>7. /\ SameMoney(d, e)
      /\ e.requestId = d.requestId /\ e.tripId = d.tripId
      /\ e.paymentIntentId = d.paymentIntentId
      /\ e.podSubmitted = d.podSubmitted /\ e.disputeResolved = d.disputeResolved
  BY <1>1, <1>4 DEF Booking, SameMoney
<1>8. Parties(e) = Parties(d)
  BY <1>7 DEF Parties, RequesterOf, TravelerOf
<1>9. Sound(e)
  BY <1>1, <1>2, <1>3, <1>5, <1>6, <1>7, <1>8
     DEF Sound, SameMoney, FundedStatuses, DisputableStatuses
<1>10. QED
  BY <1>3, <1>6, <1>7, <1>9 DEF Kept, SameMoney

LEMMA ResolveEdit ==
  ASSUME NEW d, Sound(d), d.status = "disputed",
         NEW resolution, NEW amount \in RefundAmounts \cup {NoId},
         NEW e, e = Resolved(d, resolution, amount)
  PROVE  Sound(e) /\ Kept(d, e) /\ e.paymentIntentId = d.paymentIntentId
<1>1. d \in Booking
  BY DEF Sound
<1>2. PICK refund : refund = IF amount = NoId THEN d.agreedFee ELSE amount
  OBVIOUS
<1>3. refund \in Int
  BY <1>1, <1>2, MoneyAssumption DEF Booking
<1>4. \/ e = [d EXCEPT !.disputeResolved = TRUE, !.status = "cancelled", !.refundAmount = refund]
      \/ e = [d EXCEPT !.disputeResolved = TRUE, !.status = "completed"]
  BY <1>2 DEF Resolved
<1>5. e \in Booking /\ e.counterFee = d.counterFee
  BY <1>1, <1>3, <1>4 DEF Booking, BookingStatuses
<1>6. e.status \in {"cancelled", "completed"} /\ e.disputeResolved = TRUE
  BY <1>1, <1>4 DEF Booking
<1>7. /\ SameMoney(d, e)
      /\ e.requestId = d.requestId /\ e.tripId = d.tripId
      /\ e.paymentIntentId = d.paymentIntentId
      /\ e.podSubmitted = d.podSubmitted /\ e.disputeRaisedBy = d.disputeRaisedBy
  BY <1>1, <1>4 DEF Booking, SameMoney
<1>8. Sound(e)
  BY <1>5, <1>6, <1>7 DEF Sound, SameMoney, FundedStatuses, Parties, RequesterOf, TravelerOf
<1>9. QED
  BY <1>6, <1>7, <1>8 DEF Kept, SameMoney

LEMMA PayEdit ==
  ASSUME NEW d, Sound(d), d.status = "confirmed", NEW i \in IntentIds, NEW e, e = Paid(d, i)
  PROVE  Sound(e) /\ Kept(d, e) /\ e.paymentIntentId = i
<1>1. d \in Booking /\ i # NoId
  BY IdsAssumption DEF Sound
<1>2. e = [d EXCEPT !.paymentIntentId = i, !.status = "paid"]
  BY DEF Paid
<1>3. e \in Booking /\ e.counterFee = d.counterFee
  BY <1>1, <1>2 DEF Booking, BookingStatuses
<1>4. e.status = "paid" /\ e.paymentIntentId = i
  BY <1>1, <1>2 DEF Booking
<1>5. /\ SameMoney(d, e)
      /\ e.requestId = d.requestId /\ e.tripId = d.tripId
      /\ e.podSubmitted = d.podSubmitted
      /\ e.disputeRaisedBy = d.disputeRaisedBy /\ e.disputeResolved = d.disputeResolved
  BY <1>1, <1>2 DEF Booking, SameMoney
<1>6. Sound(e)
  BY <1>1, <1>3, <1>4, <1>5
     DEF Sound, SameMoney, FundedStatuses, Parties, RequesterOf, TravelerOf
<1>7. QED
  BY <1>1, <1>4, <1>5, <1>6 DEF Kept, SameMoney

LEMMA NewEdit ==
  ASSUME NEW r \in Requests, NEW t \in Trips, NEW fee \in Fees
  PROVE  /\ Sound(NewBooking(r, t, fee))
         /\ NewBooking(r, t, fee).paymentIntentId = NoId
<1>1. PICK e : e = NewBooking(r, t, fee)
  OBVIOUS
<1>2. PICK a : a = AbsentBooking
  OBVIOUS
<1>3. a \in Booking
  BY <1>2 DEF AbsentBooking, Booking
<1>4. /\ a.counterFee = 0 /\ a.agreedFee = 0
      /\ a.platformCommission = 0 /\ a.travelerPayout = 0
      /\ a.paymentIntentId = NoId /\ a.disputeRaisedBy = NoId
  BY <1>2 DEF AbsentBooking
<1>5. e = [a EXCEPT !.status = "pending_acceptance", !.requestId = r,
                    !.tripId = t, !.offeredFee = fee]
  BY <1>1, <1>2 DEF NewBooking
<1>6. fee \in Nat
  BY MoneyAssumption
<1>7. e \in Booking
  BY <1>3, <1>5, <1>6 DEF Booking, BookingStatuses
<1>8. /\ e.status = "pending_acceptance" /\ e.requestId = r /\ e.tripId = t
      /\ e.offeredFee = fee /\ e.counterFee = 0 /\ e.agreedFee = 0
  BY <1>3, <1>4, <1>5 DEF Booking
<1>9. /\ e.platformCommission = 0 /\ e.travelerPayout = 0
      /\ e.paymentIntentId = NoId /\ e.disputeRaisedBy = NoId
  BY <1>3, <1>4, <1>5 DEF Booking
<1>10. QED
  BY <1>1, <1>7, <1>8, <1>9 DEF Sound, FundedStatuses

-----------------------------------------------------------------------------

(* document.save() of a copy that may be stale. *)

LEMMA KeptTrans ==
  ASSUME NEW d, NEW e, NEW g, Kept(d, e), Kept(e, g)
  PROVE  Kept(d, g)
  BY DEF Kept

LEMMA KeptSelf ==
  ASSUME NEW d, d.status # "absent"
  PROVE  Kept(d, d)
  BY DEF Kept

\* A fee has one split.
LEMMA OneSplit ==
  ASSUME NEW a \in Nat, NEW b \in Nat, NEW c1 \in Nat, NEW c2 \in Nat,
         NEW p1 \in Nat, NEW p2 \in Nat,
         c1 * 10 = a, c1 + p1 = a, c2 * 10 = b, c2 + p2 = b
  PROVE  (a = b <=> c1 = c2) /\ (a = b <=> p1 = p2)
  OBVIOUS

\* An edit of a sound copy, written over a sound document that has kept what the
\* copy had: the fields of the fee change together or not at all, and a status is
\* never written without what it needs, here or on the copy.
LEMMA MergeSound ==
  ASSUME NEW cur, NEW old, NEW new, Sound(cur), Sound(old), Sound(new),
         old.status # "absent", Kept(old, cur), Kept(old, new),
         NEW m, m = Merge(cur, old, new)
  PROVE  /\ Sound(m) /\ Kept(cur, m)
         /\ \/ m.paymentIntentId = cur.paymentIntentId
            \/ /\ m.paymentIntentId = new.paymentIntentId
               /\ new.paymentIntentId # old.paymentIntentId
<1>1. cur \in Booking /\ old \in Booking /\ new \in Booking
  BY DEF Sound
<1>2. /\ m.status = IF new.status = old.status THEN cur.status ELSE new.status
      /\ m.requestId = IF new.requestId = old.requestId THEN cur.requestId ELSE new.requestId
      /\ m.tripId = IF new.tripId = old.tripId THEN cur.tripId ELSE new.tripId
      /\ m.offeredFee = IF new.offeredFee = old.offeredFee THEN cur.offeredFee ELSE new.offeredFee
      /\ m.counterFee = IF new.counterFee = old.counterFee THEN cur.counterFee ELSE new.counterFee
      /\ m.agreedFee = IF new.agreedFee = old.agreedFee THEN cur.agreedFee ELSE new.agreedFee
      /\ m.platformCommission = IF new.platformCommission = old.platformCommission
                                THEN cur.platformCommission ELSE new.platformCommission
  BY <1>1 DEF Merge, Booking
<1>3. /\ m.travelerPayout = IF new.travelerPayout = old.travelerPayout
                            THEN cur.travelerPayout ELSE new.travelerPayout
      /\ m.paymentIntentId = IF new.paymentIntentId = old.paymentIntentId
                             THEN cur.paymentIntentId ELSE new.paymentIntentId
      /\ m.podSubmitted = IF new.podSubmitted = old.podSubmitted
                          THEN cur.podSubmitted ELSE new.podSubmitted
      /\ m.disputeRaisedBy = IF new.disputeRaisedBy = old.disputeRaisedBy
                             THEN cur.disputeRaisedBy ELSE new.disputeRaisedBy
      /\ m.disputeResolved = IF new.disputeResolved = old.disputeResolved
                             THEN cur.disputeResolved ELSE new.disputeResolved
  BY <1>1 DEF Merge, Booking
<1>4. m \in Booking
  BY <1>1 DEF Merge, Booking
<1>5. m.requestId = cur.requestId /\ m.tripId = cur.tripId /\ m.offeredFee = cur.offeredFee
  BY <1>2 DEF Kept
<1>6. m.counterFee \in Fees \cup {0}
  BY <1>2 DEF Sound
<1>7. m.platformCommission * 10 = m.agreedFee
      /\ m.platformCommission + m.travelerPayout = m.agreedFee
  <2>1. /\ cur.agreedFee \in Nat /\ old.agreedFee \in Nat /\ new.agreedFee \in Nat
        /\ cur.platformCommission \in Nat /\ old.platformCommission \in Nat
        /\ new.platformCommission \in Nat
        /\ cur.travelerPayout \in Nat /\ old.travelerPayout \in Nat
        /\ new.travelerPayout \in Nat
    BY <1>1 DEF Booking
  <2>2. /\ cur.platformCommission * 10 = cur.agreedFee
        /\ cur.platformCommission + cur.travelerPayout = cur.agreedFee
        /\ old.platformCommission * 10 = old.agreedFee
        /\ old.platformCommission + old.travelerPayout = old.agreedFee
        /\ new.platformCommission * 10 = new.agreedFee
        /\ new.platformCommission + new.travelerPayout = new.agreedFee
    BY DEF Sound
  <2>3. PICK a, b, c1, c2, p1, p2 :
          /\ a = new.agreedFee /\ b = old.agreedFee
          /\ c1 = new.platformCommission /\ c2 = old.platformCommission
          /\ p1 = new.travelerPayout /\ p2 = old.travelerPayout
    OBVIOUS
  <2>4. /\ a \in Nat /\ b \in Nat /\ c1 \in Nat /\ c2 \in Nat /\ p1 \in Nat /\ p2 \in Nat
        /\ c1 * 10 = a /\ c1 + p1 = a /\ c2 * 10 = b /\ c2 + p2 = b
    BY <2>1, <2>2, <2>3
  <2>5. (a = b <=> c1 = c2) /\ (a = b <=> p1 = p2)
    BY <2>4, OneSplit
  <2>6. \/ /\ m.agreedFee = cur.agreedFee
           /\ m.platformCommission = cur.platformCommission
           /\ m.travelerPayout = cur.travelerPayout
        \/ /\ m.agreedFee = new.agreedFee
           /\ m.platformCommission = new.platformCommission
           /\ m.travelerPayout = new.travelerPayout
    BY <1>2, <1>3, <2>3, <2>5
  <2>7. QED
    BY <2>2, <2>6
<1>8. /\ cur.agreedFee > 0 => m.agreedFee > 0
      /\ new.agreedFee > 0 => m.agreedFee > 0
  <2>1. cur.agreedFee \in Nat /\ old.agreedFee \in Nat /\ new.agreedFee \in Nat
    BY <1>1 DEF Booking
  <2>2. QED
    BY <1>2, <2>1 DEF Kept
<1>9. /\ cur.paymentIntentId # NoId => m.paymentIntentId # NoId
      /\ new.paymentIntentId # NoId => m.paymentIntentId # NoId
  BY <1>3 DEF Kept
<1>10. /\ cur.podSubmitted = TRUE => m.podSubmitted = TRUE
       /\ new.podSubmitted = TRUE => m.podSubmitted = TRUE
  <2>1. cur.podSubmitted \in BOOLEAN /\ old.podSubmitted \in BOOLEAN
        /\ new.podSubmitted \in BOOLEAN
    BY <1>1 DEF Booking
  <2>2. QED
    BY <1>3, <2>1 DEF Kept
<1>11. /\ cur.disputeResolved = TRUE => m.disputeResolved = TRUE
       /\ new.disputeResolved = TRUE => m.disputeResolved = TRUE
  <2>1. cur.disputeResolved \in BOOLEAN /\ old.disputeResolved \in BOOLEAN
        /\ new.disputeResolved \in BOOLEAN
    BY <1>1 DEF Booking
  <2>2. QED
    BY <1>3, <2>1 DEF Kept
<1>12. /\ cur.disputeRaisedBy # NoId => m.disputeRaisedBy # NoId
       /\ new.disputeRaisedBy # NoId => m.disputeRaisedBy # NoId
       /\ m.disputeRaisedBy \in {cur.disputeRaisedBy, new.disputeRaisedBy}
  BY <1>3 DEF Kept
<1>13. m.status # "absent" /\ m.status \in {cur.status, new.status}
  BY <1>2 DEF Kept
<1>14. Parties(m) = Parties(cur) /\ Parties(new) = Parties(cur)
  BY <1>5 DEF Parties, RequesterOf, TravelerOf, Kept
<1>15. m.requestId \in Requests /\ m.tripId \in Trips
  BY <1>5 DEF Sound, Kept
<1>16. m.disputeRaisedBy # NoId => m.disputeRaisedBy \in Parties(m)
  BY <1>12, <1>14 DEF Sound
<1>17. /\ m.status \in FundedStatuses \cup {"confirmed"} => m.agreedFee > 0
       /\ m.status \in FundedStatuses => m.paymentIntentId # NoId
  BY <1>8, <1>9, <1>13 DEF Sound
<1>18. /\ m.status = "delivered" => m.podSubmitted = TRUE
       /\ m.status = "disputed" => m.disputeRaisedBy # NoId
       /\ m.status = "completed" =>
            m.podSubmitted = TRUE \/ (m.disputeResolved = TRUE /\ m.disputeRaisedBy # NoId)
  BY <1>10, <1>11, <1>12, <1>13 DEF Sound
<1>19. Sound(m)
  BY <1>4, <1>5, <1>6, <1>7, <1>13, <1>15, <1>16, <1>17, <1>18 DEF Sound
<1>20. Kept(cur, m)
  BY <1>5, <1>8, <1>9, <1>10, <1>11, <1>12, <1>13 DEF Kept
<1>21. QED
  BY <1>3, <1>19, <1>20

-----------------------------------------------------------------------------

(* Calls and documents across a step. *)

\* What a step of one call leaves to the others: payments made stay made, and
\* bookings keep what they had.
Stable ==
  /\ \A b \in BookingIds, i \in IntentIds : Backed(b, i) => Backed(b, i)'
  /\ \A b \in BookingIds :
       bookings[b].status # "absent" => Kept(bookings[b], bookings'[b])

LEMMA SameIsStable ==
  ASSUME UNCHANGED <<bookings, intents>>
  PROVE  Stable
  BY KeptSelf DEF Stable, Backed

\* A call that did not move still has all it needs.
LEMMA OtherCalls ==
  ASSUME HandlersInv, Stable, NEW e \in CallIds, calls'[e] = calls[e]
  PROVE  CallOK(calls[e])'
<1>1. PICK d : d = calls[e]
  OBVIOUS
<1>2. calls'[e] = d /\ CallOK(d)
  BY <1>1 DEF HandlersInv, CallsOK
<1>3. ASSUME d.pc \in {"save", "refund"}
      PROVE  Holds(d)' /\ Kept(d.old, bookings'[d.b])
  <2>1. Holds(d) /\ Kept(d.old, bookings[d.b])
    BY <1>2, <1>3 DEF CallOK
  <2>2. d.b \in BookingIds /\ bookings[d.b].status # "absent"
    BY <2>1 DEF Holds, Kept
  <2>3. Kept(d.old, bookings'[d.b])
    BY <2>1, <2>2, KeptTrans DEF Stable
  <2>4. Backed(d.b, d.new.paymentIntentId) => Backed(d.b, d.new.paymentIntentId)'
    BY <2>2 DEF Stable, Backed
  <2>5. QED
    BY <2>1, <2>3, <2>4 DEF Holds
<1>4. CallOK(d)'
  BY <1>2, <1>3 DEF CallOK
<1>5. QED
  BY <1>2, <1>4

\* One call moves; the documents have stayed as they should.
LEMMA CallMoves ==
  ASSUME HandlersInv, Stable, BookingsOK', IntentsOK', NEW c \in CallIds, NEW d,
         calls' = [calls EXCEPT ![c] = d], CallOK(d)'
  PROVE  HandlersInv'
<1>1. DOMAIN calls = CallIds
  BY DEF HandlersInv, CallsOK
<1>2. DOMAIN calls' = CallIds
  BY <1>1
<1>3. ASSUME NEW e \in CallIds
      PROVE  CallOK(calls[e])'
  <2>1. CASE e = c
    <3>1. calls'[e] = d
      BY <1>1, <2>1
    <3>2. QED
      BY <3>1
  <2>2. CASE e # c
    <3>1. calls'[e] = calls[e]
      BY <1>1, <2>2
    <3>2. QED
      BY <3>1, OtherCalls
  <2>3. QED
    BY <2>1, <2>2
<1>4. QED
  BY <1>2, <1>3 DEF HandlersInv, CallsOK

LEMMA OnlyCallMoves ==
  ASSUME HandlersInv, UNCHANGED <<bookings, intents>>, NEW c \in CallIds, NEW d,
         calls' = [calls EXCEPT ![c] = d], CallOK(d)
  PROVE  HandlersInv'
<1>1. BookingsOK' /\ IntentsOK'
  BY DEF HandlersInv, BookingsOK, BookingOK, IntentsOK, IntentOK, Backed
<1>2. CallOK(d)'
  BY DEF CallOK, Holds, Backed
<1>3. QED
  BY <1>1, <1>2, CallMoves, SameIsStable

\* The points at which a call holds nothing of a booking.
FreePCs ==
  {"idle", "request", "incTrip", "findTrip", "saveTrip", "findBookings",
   "closeTrip", "saveRequest", "saveTripStatus"}

CallFields == {"op", "pc", "user", "b", "r", "t", "old", "new", "arg"}

LEMMA FreeCall ==
  ASSUME NEW d, DOMAIN d = CallFields, d.pc \in FreePCs
  PROVE  CallOK(d)
  BY DEF CallOK, FreePCs, CallFields

LEMMA NoCallFree == DOMAIN NoCall = CallFields /\ NoCall.pc \in FreePCs
  BY DEF NoCall, CallFields, FreePCs

\* Whatever it did, a call that returns, or goes on without the booking, holds
\* nothing.
LEMMA ReturnFree ==
  ASSUME NEW c \in CallIds, Return(c)
  PROVE  \E d : calls' = [calls EXCEPT ![c] = d] /\ CallOK(d)' /\ d.pc \in FreePCs
<1>1. calls' = [calls EXCEPT ![c] = NoCall]
  BY DEF Return
<1>2. PICK d : d = NoCall
  OBVIOUS
<1>3. CallOK(d)' /\ d.pc \in FreePCs
  BY <1>2, NoCallFree DEF CallOK, FreePCs, CallFields
<1>4. QED
  BY <1>1, <1>2, <1>3

LEMMA ProceedFree ==
  ASSUME NEW c \in CallIds, NEW pc \in FreePCs, Proceed(c, pc)
  PROVE  \E d : calls' = [calls EXCEPT ![c] = d] /\ CallOK(d)' /\ d.pc \in FreePCs
<1>1. PICK d : d = [NoCall EXCEPT !.op = calls[c].op, !.pc = pc,
                                  !.r = calls[c].r, !.t = calls[c].t]
  OBVIOUS
<1>2. calls' = [calls EXCEPT ![c] = d]
  BY <1>1 DEF Proceed
<1>3. DOMAIN d = CallFields /\ d.pc = pc
  BY <1>1, NoCallFree DEF CallFields
<1>4. CallOK(d)'
  BY <1>3 DEF CallOK, FreePCs, CallFields
<1>5. QED
  BY <1>2, <1>3, <1>4

LEMMA GotoFree ==
  ASSUME HandlersInv, NEW c \in CallIds, NEW pc \in FreePCs, Goto(c, pc)
  PROVE  \E d : calls' = [calls EXCEPT ![c] = d] /\ CallOK(d)' /\ d.pc \in FreePCs
<1>1. PICK d : d = [calls[c] EXCEPT !.pc = pc]
  OBVIOUS
<1>2. calls' = [calls EXCEPT ![c] = d]
  BY <1>1 DEF Goto
<1>3. DOMAIN calls[c] = CallFields
  BY DEF HandlersInv, CallsOK, CallOK, CallFields
<1>4. DOMAIN d = CallFields /\ d.pc = pc
  BY <1>1, <1>3 DEF CallFields
<1>5. CallOK(d)'
  BY <1>4 DEF CallOK, FreePCs, CallFields
<1>6. QED
  BY <1>2, <1>4, <1>5

\* The calls that end or go on without touching bookings and payments.
LEMMA OnlyReturns ==
  ASSUME HandlersInv, UNCHANGED <<bookings, intents>>, NEW c \in CallIds,
         Return(c) \/ \E pc \in FreePCs : Goto(c, pc)
  PROVE  HandlersInv'
<1>1. PICK d : calls' = [calls EXCEPT ![c] = d] /\ CallOK(d)'
  BY ReturnFree, GotoFree
<1>2. BookingsOK' /\ IntentsOK'
  BY DEF HandlersInv, BookingsOK, BookingOK, IntentsOK, IntentOK, Backed
<1>3. QED
  BY <1>1, <1>2, CallMoves, SameIsStable

-----------------------------------------------------------------------------

(* The first halves of the handlers. *)

\* A handler has read a booking, edited its copy, and stands before its first write.
LEMMA EditStarts ==
  ASSUME HandlersInv, NEW c \in CallIds, NEW b \in BookingIds,
         bookings[b].status # "absent",
         NEW op, NEW pc \in {"save", "refund"}, NEW u, NEW arg, NEW e,
         Sound(e), Kept(bookings[b], e),
         e.paymentIntentId # bookings[b].paymentIntentId => Backed(b, e.paymentIntentId),
         StartEdit(c, op, pc, u, b, e, arg)
  PROVE  HandlersInv'
<1>1. PICK d : d = [op |-> op, pc |-> pc, user |-> u, b |-> b,
                    r |-> bookings[b].requestId, t |-> bookings[b].tripId,
                    old |-> bookings[b], new |-> e, arg |-> arg]
  OBVIOUS
<1>2. calls' = [calls EXCEPT ![c] = d] /\ UNCHANGED <<bookings, intents>>
  BY <1>1 DEF StartEdit, docs
<1>3. /\ DOMAIN d = CallFields
      /\ d.pc = pc /\ d.b = b /\ d.old = bookings[b] /\ d.new = e
  BY <1>1 DEF CallFields
<1>4. Sound(bookings[b])
  BY DEF HandlersInv, BookingsOK, BookingOK
<1>5. Holds(d) /\ Kept(d.old, bookings[d.b])
  BY <1>3, <1>4, KeptSelf DEF Holds
<1>6. CallOK(d)
  BY <1>3, <1>5 DEF CallOK, CallFields
<1>7. QED
  BY <1>2, <1>6, OnlyCallMoves

\* Every handler on a booking that ends in booking.save(), but the one that records
\* a payment, carries the payment over.
LEMMA PlainEditStarts ==
  ASSUME HandlersInv, NEW c \in CallIds, NEW b \in BookingIds,
         bookings[b].status # "absent",
         NEW op, NEW pc \in {"save", "refund"}, NEW u, NEW arg, NEW e,
         Sound(e) /\ Kept(bookings[b], e)
           /\ e.paymentIntentId = bookings[b].paymentIntentId,
         StartEdit(c, op, pc, u, b, e, arg)
  PROVE  HandlersInv'
  BY EditStarts

LEMMA AgreementStarts ==
  ASSUME HandlersInv, NEW c \in CallIds, NEW u \in Users, NEW b \in BookingIds,
         \/ StartAccept(c, u, b)
         \/ \E fee \in Fees : StartCounter(c, u, b, fee)
         \/ StartDecline(c, u, b)
         \/ StartAcceptCounter(c, u, b)
         \/ StartCancel(c, u, b)
  PROVE  HandlersInv'
<1>1. PICK d : d = bookings[b]
  OBVIOUS
<1>2. Sound(d)
  BY <1>1 DEF HandlersInv, BookingsOK, BookingOK
<1>3. CASE StartAccept(c, u, b)
  <2>1. d.status \in AcceptableStatuses /\ FeeOnAccept(d) > 0
        /\ StartEdit(c, "accept", "save", u, b, Accepted(d), NoId)
    BY <1>1, <1>3 DEF StartAccept, CanAccept
  <2>2. d.status # "absent"
    BY <2>1 DEF AcceptableStatuses
  <2>3. FeeOnAccept(d) \in Fees
    BY <1>2, <2>1 DEF FeeOnAccept, Sound
  <2>4. PICK e : e = Accepted(d)
    OBVIOUS
  <2>5. Sound(e) /\ Kept(d, e) /\ e.paymentIntentId = d.paymentIntentId
    BY <1>2, <2>2, <2>3, <2>4, AgreeEdit DEF Accepted
  <2>6. QED
    BY <1>1, <2>1, <2>2, <2>4, <2>5, PlainEditStarts
<1>4. ASSUME NEW fee \in Fees, StartCounter(c, u, b, fee)
      PROVE  HandlersInv'
  <2>1. d.status = "pending_acceptance"
        /\ StartEdit(c, "counter", "save", u, b, Countered(d, fee), NoId)
    BY <1>1, <1>4 DEF StartCounter, CanCounter
  <2>2. PICK e : e = Countered(d, fee)
    OBVIOUS
  <2>3. Sound(e) /\ Kept(d, e) /\ e.paymentIntentId = d.paymentIntentId
    BY <1>2, <2>1, <2>2, CounterEdit
  <2>4. QED
    BY <1>1, <2>1, <2>2, <2>3, PlainEditStarts
<1>5. CASE StartDecline(c, u, b)
  <2>1. d.status \in AcceptableStatuses
        /\ StartEdit(c, "decline", "save", u, b, Declined(d), NoId)
    BY <1>1, <1>5 DEF StartDecline, CanDecline
  <2>2. d.status # "absent"
    BY <2>1 DEF AcceptableStatuses
  <2>3. PICK e : e = Declined(d)
    OBVIOUS
  <2>4. TravelerOf(d) \in Users
    BY <1>2, <2>2, IdsAssumption DEF Sound, TravelerOf
  <2>5. e = Cancelled(d, TravelerOf(d))
    BY <2>3 DEF Declined, Cancelled
  <2>6. Sound(e) /\ Kept(d, e) /\ e.paymentIntentId = d.paymentIntentId
    BY <1>2, <2>2, <2>4, <2>5, CancelEdit
  <2>7. QED
    BY <1>1, <2>1, <2>2, <2>3, <2>6, PlainEditStarts
<1>6. CASE StartAcceptCounter(c, u, b)
  <2>1. d.status = "countered" /\ d.counterFee > 0
        /\ StartEdit(c, "acceptCounter", "save", u, b, CounterAccepted(d), NoId)
    BY <1>1, <1>6 DEF StartAcceptCounter, CanAcceptCounter
  <2>2. d.counterFee \in Fees
    BY <1>2, <2>1 DEF Sound
  <2>3. PICK e : e = CounterAccepted(d)
    OBVIOUS
  <2>4. Sound(e) /\ Kept(d, e) /\ e.paymentIntentId = d.paymentIntentId
    BY <1>2, <2>1, <2>2, <2>3, AgreeEdit DEF CounterAccepted
  <2>5. QED
    BY <1>1, <2>1, <2>3, <2>4, PlainEditStarts
<1>7. CASE StartCancel(c, u, b)
  <2>1. d.status \in CancellableStatuses
        /\ StartEdit(c, "cancel", "save", u, b, Cancelled(d, u), NoId)
    BY <1>1, <1>7 DEF StartCancel, CanCancel
  <2>2. d.status # "absent"
    BY <2>1 DEF CancellableStatuses
  <2>3. PICK e : e = Cancelled(d, u)
    OBVIOUS
  <2>4. Sound(e) /\ Kept(d, e) /\ e.paymentIntentId = d.paymentIntentId
    BY <1>2, <2>2, <2>3, CancelEdit
  <2>5. QED
    BY <1>1, <2>1, <2>2, <2>3, <2>4, PlainEditStarts
<1>8. QED
  BY <1>3, <1>4, <1>5, <1>6, <1>7

LEMMA TransportStarts ==
  ASSUME HandlersInv, NEW c \in CallIds, NEW u \in Users, NEW b \in BookingIds,
         \/ StartInTransit(c, u, b)
         \/ StartProof(c, u, b)
         \/ StartComplete(c, u, b)
         \/ StartDispute(c, u, b)
  PROVE  HandlersInv'
<1>1. PICK d : d = bookings[b]
  OBVIOUS
<1>2. Sound(d)
  BY <1>1 DEF HandlersInv, BookingsOK, BookingOK
<1>3. CASE StartInTransit(c, u, b)
  <2>1. d.status = "paid"
        /\ StartEdit(c, "inTransit", "save", u, b, InTransit(d), NoId)
    BY <1>1, <1>3 DEF StartInTransit, CanMarkInTransit
  <2>2. PICK e : e = InTransit(d)
    OBVIOUS
  <2>3. Sound(e) /\ Kept(d, e) /\ e.paymentIntentId = d.paymentIntentId
    BY <1>2, <2>1, <2>2, StatusEdit DEF InTransit
  <2>4. QED
    BY <1>1, <2>1, <2>2, <2>3, PlainEditStarts
<1>4. CASE StartProof(c, u, b)
  <2>1. d.status = "in_transit"
        /\ StartEdit(c, "proof", "save", u, b, Delivered(d), NoId)
    BY <1>1, <1>4 DEF StartProof, CanSubmitProof
  <2>2. PICK e : e = Delivered(d)
    OBVIOUS
  <2>3. Sound(e) /\ Kept(d, e) /\ e.paymentIntentId = d.paymentIntentId
    BY <1>2, <2>1, <2>2, DeliverEdit
  <2>4. QED
    BY <1>1, <2>1, <2>2, <2>3, PlainEditStarts
<1>5. CASE StartComplete(c, u, b)
  <2>1. d.status = "delivered"
        /\ StartEdit(c, "complete", "save", u, b, Completed(d), NoId)
    BY <1>1, <1>5 DEF StartComplete, CanComplete
  <2>2. PICK e : e = Completed(d)
    OBVIOUS
  <2>3. Sound(e) /\ Kept(d, e) /\ e.paymentIntentId = d.paymentIntentId
    BY <1>2, <2>1, <2>2, StatusEdit DEF Completed
  <2>4. QED
    BY <1>1, <2>1, <2>2, <2>3, PlainEditStarts
<1>6. CASE StartDispute(c, u, b)
  <2>1. CanDispute(d, u) /\ StartEdit(c, "dispute", "save", u, b, Disputed(d, u), NoId)
    BY <1>1, <1>6 DEF StartDispute
  <2>2. d.status # "absent"
    BY <2>1 DEF CanDispute, DisputableStatuses
  <2>3. PICK e : e = Disputed(d, u)
    OBVIOUS
  <2>4. Sound(e) /\ Kept(d, e) /\ e.paymentIntentId = d.paymentIntentId
    BY <1>2, <2>1, <2>3, DisputeEdit
  <2>5. QED
    BY <1>1, <2>1, <2>2, <2>3, <2>4, PlainEditStarts
<1>7. QED
  BY <1>3, <1>4, <1>5, <1>6

LEMMA ResolveStarts ==
  ASSUME HandlersInv, NEW c \in CallIds, NEW b \in BookingIds,
         NEW a \in ResolutionArgs, StartResolve(c, b, a[1], a[2])
  PROVE  HandlersInv'
<1>1. PICK d : d = bookings[b]
  OBVIOUS
<1>2. PICK pc : pc = IF CallsStripe(d, a[1]) THEN "refund" ELSE "save"
  OBVIOUS
<1>3. PICK e : e = Resolved(d, a[1], a[2])
  OBVIOUS
<1>4. Sound(d)
  BY <1>1 DEF HandlersInv, BookingsOK, BookingOK
<1>5. d.status = "disputed" /\ StartEdit(c, "resolve", pc, NoId, b, e, a[2])
  BY <1>1, <1>2, <1>3 DEF StartResolve, CanResolve
<1>6. a[2] \in RefundAmounts \cup {NoId}
  BY DEF ResolutionArgs
<1>7. Sound(e) /\ Kept(d, e) /\ e.paymentIntentId = d.paymentIntentId
  BY <1>3, <1>4, <1>5, <1>6, ResolveEdit
<1>8. pc \in {"save", "refund"}
  BY <1>2
<1>9. QED
  BY <1>1, <1>5, <1>7, <1>8, PlainEditStarts

\* The payment about to be recorded was captured, and made for this booking.
LEMMA PayStarts ==
  ASSUME HandlersInv, NEW c \in CallIds, NEW i \in IntentIds, StartPay(c, i)
  PROVE  HandlersInv'
<1>1. PICK b : b = intents[i].bookingId
  OBVIOUS
<1>2. PICK e : e = Paid(bookings[b], i)
  OBVIOUS
<1>3. /\ intents[i].status = "succeeded" /\ bookings[b].status = "confirmed"
      /\ StartEdit(c, "pay", "save", NoId, b, e, i)
  BY <1>1, <1>2 DEF StartPay, CanMarkPaid
<1>4. b \in BookingIds
  BY <1>1, <1>3 DEF HandlersInv, IntentsOK, IntentOK
<1>5. Sound(bookings[b])
  BY <1>4 DEF HandlersInv, BookingsOK, BookingOK
<1>6. Sound(e) /\ Kept(bookings[b], e) /\ e.paymentIntentId = i
  BY <1>2, <1>3, <1>5, PayEdit
<1>7. Backed(b, e.paymentIntentId)
  BY <1>1, <1>3, <1>6 DEF Backed
<1>8. QED
  BY <1>3, <1>4, <1>6, <1>7, EditStarts

LEMMA IntentStarts ==
  ASSUME HandlersInv, NEW c \in CallIds, NEW u \in Users, NEW b \in BookingIds,
         StartIntent(c, u, b)
  PROVE  HandlersInv'
<1>1. PICK d : d = [op |-> "intent", pc |-> "stripe", user |-> u, b |-> b,
                    r |-> bookings[b].requestId, t |-> bookings[b].tripId,
                    old |-> bookings[b], new |-> bookings[b], arg |-> NoId]
  OBVIOUS
<1>2. calls' = [calls EXCEPT ![c] = d] /\ UNCHANGED <<bookings, intents>>
  BY <1>1 DEF StartIntent, StartEdit, docs
<1>3. CallOK(d)
  BY <1>1 DEF CallOK
<1>4. QED
  BY <1>2, <1>3, OnlyCallMoves

LEMMA MatchStarts ==
  ASSUME HandlersInv, NEW c \in CallIds, NEW u \in Users,
         NEW r \in Requests, NEW t \in Trips, NEW fee \in Fees, StartMatch(c, u, r, t, fee)
  PROVE  HandlersInv'
<1>1. PICK d : d = [NoCall EXCEPT !.op = "match", !.pc = "readTrip", !.user = u,
                                  !.r = r, !.t = t, !.arg = fee]
  OBVIOUS
<1>2. calls' = [calls EXCEPT ![c] = d] /\ UNCHANGED <<bookings, intents>>
  BY <1>1 DEF StartMatch, docs
<1>3. /\ DOMAIN d = CallFields
      /\ d.pc = "readTrip" /\ d.r = r /\ d.t = t /\ d.arg = fee
  BY <1>1, NoCallFree DEF CallFields
<1>4. CallOK(d)
  BY <1>3 DEF CallOK, CallFields
<1>5. QED
  BY <1>2, <1>4, OnlyCallMoves

LEMMA RequestEditStarts ==
  ASSUME HandlersInv, NEW c \in CallIds, NEW op, NEW u, NEW r, NEW edited,
         StartRequestEdit(c, op, u, r, edited)
  PROVE  HandlersInv'
<1>1. PICK d : d = [NoCall EXCEPT !.op = op, !.pc = "saveRequest", !.user = u, !.r = r,
                                  !.old = requests[r], !.new = edited]
  OBVIOUS
<1>2. calls' = [calls EXCEPT ![c] = d] /\ UNCHANGED <<bookings, intents>>
  BY <1>1 DEF StartRequestEdit, docs
<1>3. DOMAIN d = CallFields /\ d.pc = "saveRequest"
  BY <1>1, NoCallFree DEF CallFields
<1>4. CallOK(d)
  BY <1>3, FreeCall DEF FreePCs
<1>5. QED
  BY <1>2, <1>4, OnlyCallMoves

LEMMA CancelTripStarts ==
  ASSUME HandlersInv, NEW c \in CallIds, NEW u \in Users, NEW t \in Trips,
         StartCancelTrip(c, u, t)
  PROVE  HandlersInv'
<1>1. PICK edited : edited = [trips[t] EXCEPT !.status = "cancelled"]
  OBVIOUS
<1>2. PICK d : d = [NoCall EXCEPT !.op = "cancelTrip", !.pc = "saveTripStatus",
                                  !.user = u, !.t = t, !.old = trips[t], !.new = edited]
  OBVIOUS
<1>3. calls' = [calls EXCEPT ![c] = d] /\ UNCHANGED <<bookings, intents>>
  BY <1>1, <1>2 DEF StartCancelTrip, docs
<1>4. DOMAIN d = CallFields /\ d.pc = "saveTripStatus"
  BY <1>2, NoCallFree DEF CallFields
<1>5. CallOK(d)
  BY <1>4, FreeCall DEF FreePCs
<1>6. QED
  BY <1>3, <1>5, OnlyCallMoves

LEMMA StartKeeps ==
  ASSUME HandlersInv, NEW c \in CallIds, Start(c)
  PROVE  HandlersInv'
<1>1. ASSUME NEW u \in Users, NEW r \in Requests,
             \/ \E type \in OfferedTypes : StartUpdateRequest(c, u, r, type)
             \/ StartCancelRequest(c, u, r)
      PROVE  HandlersInv'
  BY <1>1, RequestEditStarts DEF StartUpdateRequest, StartCancelRequest
<1>2. ASSUME NEW r \in Requests, StartApprove(c, r) \/ StartReject(c, r)
      PROVE  HandlersInv'
  BY <1>2, RequestEditStarts DEF StartApprove, StartReject
<1>3. ASSUME NEW u \in Users, NEW b \in BookingIds,
             \/ StartAccept(c, u, b)
             \/ \E fee \in Fees : StartCounter(c, u, b, fee)
             \/ StartDecline(c, u, b)
             \/ StartAcceptCounter(c, u, b)
             \/ StartInTransit(c, u, b)
             \/ StartProof(c, u, b)
             \/ StartComplete(c, u, b)
             \/ StartDispute(c, u, b)
             \/ StartCancel(c, u, b)
             \/ StartIntent(c, u, b)
      PROVE  HandlersInv'
  BY <1>3, AgreementStarts, TransportStarts, IntentStarts
<1>4. QED
  BY <1>1, <1>2, <1>3, MatchStarts, CancelTripStarts, ResolveStarts, PayStarts DEF Start

-----------------------------------------------------------------------------

(* The writes. *)

\* createMatch inserts under a fresh id: no call holds that booking.
LEMMA InsertKeeps ==
  ASSUME HandlersInv, NEW c \in CallIds, NEW b \in BookingIds, InsertBooking(c, b)
  PROVE  HandlersInv'
<1>1. PICK n : n = NewBooking(calls[c].r, calls[c].t, calls[c].arg)
  OBVIOUS
<1>2. /\ bookings' = [bookings EXCEPT ![b] = n] /\ bookings[b].status = "absent"
      /\ Proceed(c, "request") /\ UNCHANGED intents
  BY <1>1 DEF InsertBooking
<1>3. calls[c].r \in Requests /\ calls[c].t \in Trips /\ calls[c].arg \in Fees
  BY DEF HandlersInv, CallsOK, CallOK, InsertBooking, At
<1>4. Sound(n) /\ n.paymentIntentId = NoId
  BY <1>1, <1>3, NewEdit
<1>5. DOMAIN bookings = BookingIds
  BY DEF HandlersInv, BookingsOK
<1>6. bookings'[b] = n /\ \A e \in BookingIds \ {b} : bookings'[e] = bookings[e]
  BY <1>2, <1>5
<1>7. BookingsOK'
  <2>1. DOMAIN bookings' = BookingIds
    BY <1>2, <1>5
  <2>2. ASSUME NEW e \in BookingIds
        PROVE  BookingOK(e)'
    <3>1. CASE e = b
      BY <1>4, <1>6, <3>1 DEF BookingOK
    <3>2. CASE e # b
      BY <1>2, <1>6, <3>2 DEF HandlersInv, BookingsOK, BookingOK, Backed
    <3>3. QED
      BY <3>1, <3>2
  <2>3. QED
    BY <2>1, <2>2 DEF BookingsOK
<1>8. IntentsOK'
  BY <1>2 DEF HandlersInv, IntentsOK, IntentOK
<1>9. Stable
  BY <1>2, <1>6, KeptSelf DEF Stable, Backed
<1>10. PICK d : calls' = [calls EXCEPT ![c] = d] /\ CallOK(d)'
  BY <1>2, ProceedFree DEF FreePCs
<1>11. QED
  BY <1>7, <1>8, <1>9, <1>10, CallMoves

\* booking.save(), over whatever the booking has become since it was read.
LEMMA SaveKeeps ==
  ASSUME HandlersInv, NEW c \in CallIds, SaveBooking(c)
  PROVE  HandlersInv'
<1>1. PICK b, old, new : b = calls[c].b /\ old = calls[c].old /\ new = calls[c].new
  OBVIOUS
<1>2. PICK m : m = Merge(bookings[b], old, new)
  OBVIOUS
<1>3. bookings' = [bookings EXCEPT ![b] = m] /\ UNCHANGED intents
  BY <1>1, <1>2 DEF SaveBooking
<1>4. /\ b \in BookingIds /\ Sound(old) /\ old.status # "absent" /\ Sound(new)
      /\ Kept(old, new) /\ Kept(old, bookings[b])
      /\ new.paymentIntentId # old.paymentIntentId => Backed(b, new.paymentIntentId)
  BY <1>1 DEF HandlersInv, CallsOK, CallOK, Holds, SaveBooking, At
<1>5. /\ DOMAIN bookings = BookingIds /\ Sound(bookings[b])
      /\ bookings[b].paymentIntentId # NoId => Backed(b, bookings[b].paymentIntentId)
  BY <1>4 DEF HandlersInv, BookingsOK, BookingOK
<1>6. /\ Sound(m) /\ Kept(bookings[b], m)
      /\ \/ m.paymentIntentId = bookings[b].paymentIntentId
         \/ /\ m.paymentIntentId = new.paymentIntentId
            /\ new.paymentIntentId # old.paymentIntentId
  BY <1>2, <1>4, <1>5, MergeSound
<1>7. m.paymentIntentId # NoId => Backed(b, m.paymentIntentId)
  BY <1>4, <1>5, <1>6
<1>8. bookings'[b] = m /\ \A e \in BookingIds \ {b} : bookings'[e] = bookings[e]
  BY <1>3, <1>4, <1>5
<1>9. BookingsOK'
  <2>1. DOMAIN bookings' = BookingIds
    BY <1>3, <1>5
  <2>2. ASSUME NEW e \in BookingIds
        PROVE  BookingOK(e)'
    <3>1. CASE e = b
      BY <1>3, <1>6, <1>7, <1>8, <3>1 DEF BookingOK, Backed
    <3>2. CASE e # b
      BY <1>3, <1>8, <3>2 DEF HandlersInv, BookingsOK, BookingOK, Backed
    <3>3. QED
      BY <3>1, <3>2
  <2>3. QED
    BY <2>1, <2>2 DEF BookingsOK
<1>10. IntentsOK'
  BY <1>3 DEF HandlersInv, IntentsOK, IntentOK
<1>11. Stable
  BY <1>3, <1>6, <1>8, KeptSelf DEF Stable, Backed
<1>12. PICK d : calls' = [calls EXCEPT ![c] = d] /\ CallOK(d)'
  BY ProceedFree, ReturnFree DEF SaveBooking, FreePCs
<1>13. QED
  BY <1>9, <1>10, <1>11, <1>12, CallMoves

\* What Stripe does to a payment never takes a booking's payment away.
LEMMA IntentChange ==
  ASSUME HandlersInv, UNCHANGED bookings, NEW i, NEW p,
         intents' = [intents EXCEPT ![i] = p],
         i \in IntentIds => DOMAIN p = {"status", "bookingId", "amount", "refunded"},
         i \in IntentIds => p.bookingId \in BookingIds \/ p.status = "absent",
         i \in IntentIds /\ intents[i].status = "succeeded" =>
           p.status = "succeeded" /\ p.bookingId = intents[i].bookingId
  PROVE  BookingsOK' /\ IntentsOK' /\ Stable
<1>1. DOMAIN intents = IntentIds /\ DOMAIN intents' = IntentIds
  BY DEF HandlersInv, IntentsOK
<1>2. \A j \in IntentIds : intents'[j] = IF j = i THEN p ELSE intents[j]
  BY <1>1
<1>3. \A b \in BookingIds, j \in IntentIds : Backed(b, j) => Backed(b, j)'
  BY <1>2 DEF Backed
<1>4. \A b \in BookingIds : \A j : Backed(b, j) => Backed(b, j)'
  BY <1>3 DEF Backed
<1>5. BookingsOK'
  BY <1>4 DEF HandlersInv, BookingsOK, BookingOK
<1>6. IntentsOK'
  BY <1>1, <1>2 DEF HandlersInv, IntentsOK, IntentOK
<1>7. Stable
  BY <1>3, KeptSelf DEF Stable
<1>8. QED
  BY <1>5, <1>6, <1>7

LEMMA CreateIntentKeeps ==
  ASSUME HandlersInv, NEW c \in CallIds, NEW i \in IntentIds, CreateIntent(c, i)
  PROVE  HandlersInv'
<1>1. PICK p : p = NewIntent(calls[c].b, calls[c].old.agreedFee)
  OBVIOUS
<1>2. /\ intents' = [intents EXCEPT ![i] = p] /\ intents[i].status = "absent"
      /\ UNCHANGED bookings /\ Return(c)
  BY <1>1 DEF CreateIntent
<1>3. calls[c].b \in BookingIds
  BY DEF HandlersInv, CallsOK, CallOK, CreateIntent, At
<1>4. DOMAIN p = {"status", "bookingId", "amount", "refunded"} /\ p.bookingId \in BookingIds
  BY <1>1, <1>3 DEF NewIntent
<1>5. BookingsOK' /\ IntentsOK' /\ Stable
  BY <1>2, <1>4, IntentChange
<1>6. QED
  BY <1>2, <1>5, ReturnFree, CallMoves

LEMMA CaptureKeeps ==
  ASSUME HandlersInv, NEW i \in IntentIds, CapturePayment(i)
  PROVE  HandlersInv'
<1>1. PICK p : p = Succeeded(intents[i])
  OBVIOUS
<1>2. /\ intents' = [intents EXCEPT ![i] = p] /\ intents[i].status = "open"
      /\ UNCHANGED bookings /\ UNCHANGED calls
  BY <1>1 DEF CapturePayment
<1>3. /\ DOMAIN intents[i] = {"status", "bookingId", "amount", "refunded"}
      /\ intents[i].bookingId \in BookingIds
  BY <1>2 DEF HandlersInv, IntentsOK, IntentOK
<1>4. /\ DOMAIN p = {"status", "bookingId", "amount", "refunded"}
      /\ p.bookingId \in BookingIds
  BY <1>1, <1>3 DEF Succeeded
<1>5. BookingsOK' /\ IntentsOK' /\ Stable
  BY <1>2, <1>4, IntentChange
<1>6. CallsOK'
  BY <1>2, <1>5, OtherCalls DEF HandlersInv, CallsOK
<1>7. QED
  BY <1>5, <1>6 DEF HandlersInv

\* The refund of a dispute, before the booking is saved.
LEMMA CallStripeKeeps ==
  ASSUME HandlersInv, NEW c \in CallIds, CallStripe(c)
  PROVE  HandlersInv'
<1>1. PICK i : i = calls[c].old.paymentIntentId
  OBVIOUS
<1>2. UNCHANGED bookings /\ calls[c].pc = "refund"
  BY DEF CallStripe, At
<1>3. CASE StripeAccepts(intents[i], calls[c].arg)
  <2>1. PICK p : p = Refunded(intents[i], calls[c].arg)
    OBVIOUS
  <2>2. intents' = [intents EXCEPT ![i] = p] /\ Goto(c, "save")
    BY <1>1, <1>3, <2>1 DEF CallStripe
  <2>3. ASSUME i \in IntentIds
        PROVE  /\ DOMAIN p = {"status", "bookingId", "amount", "refunded"}
               /\ p.status = intents[i].status /\ p.bookingId = intents[i].bookingId
    <3>1. DOMAIN intents[i] = {"status", "bookingId", "amount", "refunded"}
      BY <2>3 DEF HandlersInv, IntentsOK, IntentOK
    <3>2. QED
      BY <2>1, <3>1 DEF Refunded
  <2>4. i \in IntentIds => p.bookingId \in BookingIds \/ p.status = "absent"
    BY <2>3 DEF HandlersInv, IntentsOK, IntentOK
  <2>5. BookingsOK' /\ IntentsOK' /\ Stable
    BY <1>2, <2>2, <2>3, <2>4, IntentChange
  <2>6. PICK d0 : d0 = calls[c]
    OBVIOUS
  <2>7. PICK d : d = [d0 EXCEPT !.pc = "save"]
    OBVIOUS
  <2>8. calls' = [calls EXCEPT ![c] = d]
    BY <2>2, <2>6, <2>7 DEF Goto
  <2>9. DOMAIN d0 = CallFields /\ Holds(d0) /\ Kept(d0.old, bookings[d0.b])
    BY <1>2, <2>6 DEF HandlersInv, CallsOK, CallOK, CallFields
  <2>10. /\ DOMAIN d = CallFields
         /\ d.pc = "save" /\ d.b = d0.b /\ d.old = d0.old /\ d.new = d0.new
    BY <2>7, <2>9 DEF CallFields
  <2>11. Backed(d.b, d.new.paymentIntentId) => Backed(d.b, d.new.paymentIntentId)'
    BY <2>5, <2>9, <2>10 DEF Stable, Backed, Holds
  <2>12. Holds(d)' /\ Kept(d.old, bookings[d.b])'
    BY <1>2, <2>9, <2>10, <2>11 DEF Holds
  <2>13. CallOK(d)'
    BY <2>10, <2>12 DEF CallOK, CallFields
  <2>14. QED
    BY <2>5, <2>8, <2>13, CallMoves
<1>4. CASE ~StripeAccepts(intents[i], calls[c].arg)
  <2>1. UNCHANGED <<bookings, intents>> /\ Return(c)
    BY <1>1, <1>2, <1>4 DEF CallStripe
  <2>2. QED
    BY <2>1, OnlyReturns
<1>5. QED
  BY <1>3, <1>4

-----------------------------------------------------------------------------

(* The steps that touch neither bookings nor payments. *)

\* createMatch before its insert keeps the request, the trip and the fee.
LEMMA MatchGoesOn ==
  ASSUME HandlersInv, UNCHANGED <<bookings, intents>>, NEW c \in CallIds,
         calls[c].pc \in {"readTrip", "checkLink"},
         NEW pc \in {"checkLink", "insert"}, Goto(c, pc)
  PROVE  HandlersInv'
<1>1. PICK d0 : d0 = calls[c]
  OBVIOUS
<1>2. PICK d : d = [d0 EXCEPT !.pc = pc]
  OBVIOUS
<1>3. calls' = [calls EXCEPT ![c] = d]
  BY <1>1, <1>2 DEF Goto
<1>4. /\ DOMAIN d0 = CallFields
      /\ d0.r \in Requests /\ d0.t \in Trips /\ d0.arg \in Fees
  BY <1>1 DEF HandlersInv, CallsOK, CallOK, CallFields
<1>5. DOMAIN d = CallFields /\ d.pc = pc /\ d.r = d0.r /\ d.t = d0.t /\ d.arg = d0.arg
  BY <1>2, <1>4 DEF CallFields
<1>6. CallOK(d)
  BY <1>4, <1>5 DEF CallOK, CallFields
<1>7. QED
  BY <1>3, <1>6, OnlyCallMoves

LEMMA FreeStepKeeps ==
  ASSUME HandlersInv, NEW c \in CallIds,
         \/ ReadTrip(c) \/ CheckLink(c) \/ IncTrip(c) \/ WriteRequest(c) \/ FindTrip(c)
         \/ SaveTrip(c) \/ FindBookings(c) \/ CloseTrip(c) \/ SaveRequest(c)
         \/ SaveTripStatus(c) \/ Fail(c)
  PROVE  HandlersInv'
<1>1. UNCHANGED <<bookings, intents>>
  BY DEF ReadTrip, CheckLink, IncTrip, WriteRequest, FindTrip, SaveTrip, FindBookings,
         CloseTrip, SaveRequest, SaveTripStatus, Fail, docs
<1>2. CASE ReadTrip(c) \/ CheckLink(c)
  <2>1. \/ /\ calls[c].pc \in {"readTrip", "checkLink"}
           /\ Goto(c, "checkLink") \/ Goto(c, "insert")
        \/ Return(c)
    BY <1>2 DEF ReadTrip, CheckLink, At
  <2>2. QED
    BY <1>1, <2>1, MatchGoesOn, OnlyReturns
<1>3. CASE \/ IncTrip(c) \/ SaveTrip(c) \/ CloseTrip(c) \/ SaveRequest(c)
           \/ SaveTripStatus(c) \/ Fail(c)
  <2>1. Return(c)
    BY <1>3 DEF IncTrip, SaveTrip, CloseTrip, SaveRequest, SaveTripStatus, Fail
  <2>2. QED
    BY <1>1, <2>1, OnlyReturns
<1>4. CASE WriteRequest(c) \/ FindBookings(c)
  <2>1. \/ Return(c) \/ Goto(c, "incTrip") \/ Goto(c, "findTrip")
        \/ Goto(c, "findBookings") \/ Goto(c, "closeTrip")
    BY <1>4 DEF WriteRequest, FindBookings
  <2>2. Return(c) \/ \E pc \in FreePCs : Goto(c, pc)
    BY <2>1 DEF FreePCs
  <2>3. QED
    BY <1>1, <2>2, OnlyReturns
<1>5. CASE FindTrip(c)
  <2>1. PICK d0, trip, edited :
          /\ d0 = calls[c] /\ trip = trips[calls[c].t]
          /\ edited = [trips[calls[c].t] EXCEPT !.matchedRequestsCount = Decremented(@)]
    OBVIOUS
  <2>2. PICK d : d = [d0 EXCEPT !.pc = "saveTrip", !.old = trip, !.new = edited]
    OBVIOUS
  <2>3. calls' = [calls EXCEPT ![c].pc = "saveTrip", ![c].old = trip, ![c].new = edited]
    BY <1>5, <2>1 DEF FindTrip
  <2>4. DOMAIN calls = CallIds /\ DOMAIN d0 = CallFields
    BY <2>1 DEF HandlersInv, CallsOK, CallOK, CallFields
  <2>5. calls' = [calls EXCEPT ![c] = d]
    BY <2>1, <2>2, <2>3, <2>4 DEF CallFields
  <2>6. DOMAIN d = CallFields /\ d.pc = "saveTrip"
    BY <2>2, <2>4 DEF CallFields
  <2>7. CallOK(d)
    BY <2>6, FreeCall DEF FreePCs
  <2>8. QED
    BY <1>1, <2>5, <2>7, OnlyCallMoves
<1>6. QED
  BY <1>2, <1>3, <1>4, <1>5

LEMMA StepKeeps ==
  ASSUME HandlersInv, NEW c \in CallIds, Step(c)
  PROVE  HandlersInv'
  BY FreeStepKeeps, InsertKeeps, CreateIntentKeeps, CallStripeKeeps, SaveKeeps DEF Step

LEMMA EnvironmentKeeps ==
  ASSUME HandlersInv, Environment
  PROVE  HandlersInv'
<1>1. CASE UNCHANGED <<bookings, intents, calls>>
  BY <1>1 DEF HandlersInv, BookingsOK, BookingOK, IntentsOK, IntentOK, CallsOK, CallOK,
              Holds, Backed
<1>2. QED
  BY <1>1, CaptureKeeps DEF Environment, CreateRequest, CreateTrip

LEMMA InitHandlers == Init => HandlersInv
<1> SUFFICES ASSUME Init PROVE HandlersInv
  OBVIOUS
<1>1. PICK a : a = AbsentBooking
  OBVIOUS
<1>2. a \in Booking
  BY <1>1 DEF AbsentBooking, Booking
<1>3. /\ a.status = "absent" /\ a.offeredFee = 0 /\ a.counterFee = 0 /\ a.agreedFee = 0
      /\ a.platformCommission = 0 /\ a.travelerPayout = 0
      /\ a.paymentIntentId = NoId /\ a.disputeRaisedBy = NoId
  BY <1>1 DEF AbsentBooking
<1>4. Sound(a)
  BY <1>2, <1>3 DEF Sound, FundedStatuses
<1>5. BookingsOK
  BY <1>1, <1>3, <1>4 DEF Init, BookingsOK, BookingOK
<1>6. IntentsOK
  BY DEF Init, IntentsOK, IntentOK, AbsentIntent
<1>7. CallOK(NoCall)
  BY NoCallFree, FreeCall
<1>8. CallsOK
  BY <1>7 DEF Init, CallsOK
<1>9. QED
  BY <1>5, <1>6, <1>8 DEF HandlersInv

LEMMA NextHandlers == HandlersInv /\ [FailingNext]_vars => HandlersInv'
<1> SUFFICES ASSUME HandlersInv, [FailingNext]_vars PROVE HandlersInv'
  OBVIOUS
<1>1. CASE FailingNext
  BY <1>1, StartKeeps, StepKeeps, EnvironmentKeeps, FreeStepKeeps DEF FailingNext, Next
<1>2. CASE UNCHANGED vars
  BY <1>2 DEF vars, HandlersInv, BookingsOK, BookingOK, IntentsOK, IntentOK, CallsOK,
              CallOK, Holds, Backed
<1>3. QED
  BY <1>1, <1>2

-----------------------------------------------------------------------------

\* However many calls are in flight and wherever they fail, every booking is
\* sound and so is every copy about to be saved over one.
THEOREM HandlersInvariance == FailingSpec => []HandlersInv
<1>1. QED
  BY InitHandlers, NextHandlers, PTL DEF FailingSpec

LEMMA FundedFollows == HandlersInv => FundedHoweverStale
  BY DEF HandlersInv, BookingsOK, BookingOK, Sound, Backed, FundedStatuses,
         FundedHoweverStale

LEMMA SplitFollows == HandlersInv => SplitMatchesFee
  BY DEF HandlersInv, BookingsOK, BookingOK, Sound, SplitMatchesFee

LEMMA EarnedFollows == HandlersInv => CompletionIsEarned
<1> SUFFICES ASSUME HandlersInv, NEW b \in BookingIds
             PROVE  /\ bookings[b].status = "delivered" => bookings[b].podSubmitted
                    /\ bookings[b].status = "completed" =>
                         \/ bookings[b].podSubmitted
                         \/ /\ bookings[b].disputeResolved
                            /\ bookings[b].disputeRaisedBy \in Parties(bookings[b])
  BY DEF CompletionIsEarned
<1>1. PICK d : d = bookings[b]
  OBVIOUS
<1>2. Sound(d)
  BY <1>1 DEF HandlersInv, BookingsOK, BookingOK
<1>3. /\ d.status = "delivered" => d.podSubmitted = TRUE
      /\ d.status = "completed" =>
           \/ d.podSubmitted = TRUE
           \/ d.disputeResolved = TRUE /\ d.disputeRaisedBy \in Parties(d)
  BY <1>2 DEF Sound
<1>4. QED
  BY <1>1, <1>3, Zenon

\* Stale copies saved over one another, by any number of calls that may fail
\* half-way, never fund a booking without an agreed fee and a captured payment
\* made for it: bookings.service.ts with payments.controller.ts.
THEOREM FundedHoweverStaleAlways == FailingSpec => []FundedHoweverStale
  BY HandlersInvariance, FundedFollows, PTL

\* Nor do they mix the commission of one agreement with the fee of another.
THEOREM SplitMatchesFeeAlways == FailingSpec => []SplitMatchesFee
  BY HandlersInvariance, SplitFollows, PTL

\* Nor complete a booking without its proof of delivery or a resolved dispute.
THEOREM CompletionIsEarnedAlways == FailingSpec => []CompletionIsEarned
  BY HandlersInvariance, EarnedFollows, PTL

\* A run of calls none of which fails is one of those runs.
THEOREM SpecMayFail == Spec => FailingSpec
<1>1. [Next]_vars => [FailingNext]_vars
  BY DEF FailingNext
<1>2. QED
  BY <1>1, PTL DEF Spec, FailingSpec

-----------------------------------------------------------------------------
(* Calls that do not overlap.                                               *)

OneCall == \A c1, c2 \in CallIds : c1 = c2

Closed == {"cancelled", "completed"}

\* The statuses before an agreement.
Open == {"absent", "pending_acceptance", "countered"}

\* What an edit of d may become: no closed booking is edited, and none that has
\* been agreed on is negotiated again.
Moves(d, e) ==
  /\ d.status \notin Closed
  /\ d.status \notin Open => e.status \notin Open /\ e.agreedFee = d.agreedFee

\* A call in flight works on the booking as it is.
CurrentCall(d) ==
  /\ d.pc \in {"save", "refund", "stripe"} => d.old = bookings[d.b]
  /\ d.pc \in {"save", "refund"} => Moves(d.old, d.new)
  /\ d.pc = "stripe" => d.old.status \notin Open
  /\ d.pc = "insert" => ~ExistingLink(bookings, d.r, d.t)

CallsCurrent == \A c \in CallIds : CurrentCall(calls[c])

\* A PaymentIntent has the amount agreed on for its booking, captured or not.
IntentCurrent(i) ==
  LET d == bookings[intents[i].bookingId]
  IN intents[i].status # "absent" =>
       d.status \notin Open /\ intents[i].amount = Cents(d.agreedFee)

IntentsCurrent == \A i \in IntentIds : IntentCurrent(i)

OneCallInv == HandlersInv /\ CallsCurrent /\ IntentsCurrent /\ OneLinkPerTrip

-----------------------------------------------------------------------------

(* Calls across a step. *)

\* What the invariant adds to HandlersInv, and what a step may not undo.
Rest == CallsCurrent /\ IntentsCurrent /\ OneLinkPerTrip

ClosedStay ==
  \A b \in BookingIds : bookings[b].status \in Closed => bookings'[b] = bookings[b]

\* The one call moves: no other can have become stale.
LEMMA TheCallMoves ==
  ASSUME OneCall, HandlersInv, NEW c \in CallIds, NEW d,
         calls' = [calls EXCEPT ![c] = d], CurrentCall(d)'
  PROVE  CallsCurrent'
<1>1. DOMAIN calls = CallIds
  BY DEF HandlersInv, CallsOK
<1>2. calls'[c] = d
  BY <1>1
<1>3. \A e \in CallIds : e = c
  BY DEF OneCall
<1>4. QED
  BY <1>2, <1>3 DEF CallsCurrent

\* Bookings and payments stay as they are.
LEMMA DocsStay ==
  ASSUME OneCallInv, UNCHANGED <<bookings, intents>>
  PROVE  IntentsCurrent' /\ OneLinkPerTrip' /\ ClosedStay
  BY DEF OneCallInv, IntentsCurrent, IntentCurrent, OneLinkPerTrip, LinkedBookings,
         ClosedStay

LEMMA OnlyTheCallMoves ==
  ASSUME OneCall, OneCallInv, UNCHANGED <<bookings, intents>>, NEW c \in CallIds, NEW d,
         calls' = [calls EXCEPT ![c] = d], CurrentCall(d)
  PROVE  Rest' /\ ClosedStay
<1>1. CurrentCall(d)'
  BY DEF CurrentCall, ExistingLink
<1>2. QED
  BY <1>1, TheCallMoves, DocsStay DEF Rest, OneCallInv

LEMMA FreeIsCurrent ==
  ASSUME NEW d, d.pc \in FreePCs
  PROVE  CurrentCall(d) /\ CurrentCall(d)'
  BY DEF CurrentCall, FreePCs

LEMMA TheCallReturns ==
  ASSUME OneCall, OneCallInv, UNCHANGED <<bookings, intents>>, NEW c \in CallIds,
         Return(c) \/ \E pc \in FreePCs : Goto(c, pc)
  PROVE  Rest' /\ ClosedStay
<1>1. PICK d : calls' = [calls EXCEPT ![c] = d] /\ d.pc \in FreePCs
  BY ReturnFree, GotoFree DEF OneCallInv
<1>2. QED
  BY <1>1, FreeIsCurrent, OnlyTheCallMoves

-----------------------------------------------------------------------------
(* The first halves of the handlers. *)

LEMMA EditIsCurrent ==
  ASSUME OneCall, OneCallInv, NEW c \in CallIds, NEW b \in BookingIds,
         NEW op, NEW pc \in {"save", "refund"}, NEW u, NEW arg, NEW e,
         Moves(bookings[b], e), StartEdit(c, op, pc, u, b, e, arg)
  PROVE  Rest' /\ ClosedStay
<1>1. PICK d : d = [op |-> op, pc |-> pc, user |-> u, b |-> b,
                    r |-> bookings[b].requestId, t |-> bookings[b].tripId,
                    old |-> bookings[b], new |-> e, arg |-> arg]
  OBVIOUS
<1>2. calls' = [calls EXCEPT ![c] = d] /\ UNCHANGED <<bookings, intents>>
  BY <1>1 DEF StartEdit, docs
<1>3. CurrentCall(d)
  BY <1>1 DEF CurrentCall
<1>4. QED
  BY <1>2, <1>3, OnlyTheCallMoves

\* Before the agreement, an edit may do anything.
LEMMA NegotiationMoves ==
  ASSUME NEW d, d.status \in AcceptableStatuses, NEW e
  PROVE  Moves(d, e)
  BY DEF AcceptableStatuses, Moves, Open, Closed

LEMMA AgreementIsCurrent ==
  ASSUME OneCall, OneCallInv, NEW c \in CallIds, NEW u \in Users, NEW b \in BookingIds,
         \/ StartAccept(c, u, b)
         \/ \E fee \in Fees : StartCounter(c, u, b, fee)
         \/ StartDecline(c, u, b)
         \/ StartAcceptCounter(c, u, b)
  PROVE  Rest' /\ ClosedStay
<1>1. bookings[b].status \in AcceptableStatuses
  BY DEF StartAccept, CanAccept, StartCounter, CanCounter, StartDecline, CanDecline,
         StartAcceptCounter, CanAcceptCounter, AcceptableStatuses
<1>2. \A e : Moves(bookings[b], e)
  BY <1>1, NegotiationMoves
<1>3. \E op, e : StartEdit(c, op, "save", u, b, e, NoId)
  BY DEF StartAccept, StartCounter, StartDecline, StartAcceptCounter
<1>4. QED
  BY <1>2, <1>3, EditIsCurrent

LEMMA TransportIsCurrent ==
  ASSUME OneCall, OneCallInv, NEW c \in CallIds, NEW u \in Users, NEW b \in BookingIds,
         \/ StartInTransit(c, u, b)
         \/ StartProof(c, u, b)
         \/ StartComplete(c, u, b)
         \/ StartDispute(c, u, b)
         \/ StartCancel(c, u, b)
  PROVE  Rest' /\ ClosedStay
<1>1. PICK d : d = bookings[b]
  OBVIOUS
<1>2. d \in Booking
  BY <1>1 DEF OneCallInv, HandlersInv, BookingsOK, BookingOK, Sound
<1>3. CASE StartInTransit(c, u, b)
  <2>1. d.status = "paid"
        /\ StartEdit(c, "inTransit", "save", u, b, InTransit(d), NoId)
    BY <1>1, <1>3 DEF StartInTransit, CanMarkInTransit
  <2>2. Moves(d, InTransit(d))
    BY <1>2, <2>1 DEF InTransit, Moves, Open, Closed, Booking
  <2>3. QED
    BY <1>1, <2>1, <2>2, EditIsCurrent
<1>4. CASE StartProof(c, u, b)
  <2>1. d.status = "in_transit"
        /\ StartEdit(c, "proof", "save", u, b, Delivered(d), NoId)
    BY <1>1, <1>4 DEF StartProof, CanSubmitProof
  <2>2. Moves(d, Delivered(d))
    BY <1>2, <2>1 DEF Delivered, Moves, Open, Closed, Booking
  <2>3. QED
    BY <1>1, <2>1, <2>2, EditIsCurrent
<1>5. CASE StartComplete(c, u, b)
  <2>1. d.status = "delivered"
        /\ StartEdit(c, "complete", "save", u, b, Completed(d), NoId)
    BY <1>1, <1>5 DEF StartComplete, CanComplete
  <2>2. Moves(d, Completed(d))
    BY <1>2, <2>1 DEF Completed, Moves, Open, Closed, Booking
  <2>3. QED
    BY <1>1, <2>1, <2>2, EditIsCurrent
<1>6. CASE StartDispute(c, u, b)
  <2>1. d.status \in DisputableStatuses
        /\ StartEdit(c, "dispute", "save", u, b, Disputed(d, u), NoId)
    BY <1>1, <1>6 DEF StartDispute, CanDispute
  <2>2. Moves(d, Disputed(d, u))
    BY <1>2, <2>1 DEF Disputed, DisputableStatuses, Moves, Open, Closed, Booking
  <2>3. QED
    BY <1>1, <2>1, <2>2, EditIsCurrent
<1>7. CASE StartCancel(c, u, b)
  <2>1. d.status \in CancellableStatuses
        /\ StartEdit(c, "cancel", "save", u, b, Cancelled(d, u), NoId)
    BY <1>1, <1>7 DEF StartCancel, CanCancel
  <2>2. Moves(d, Cancelled(d, u))
    BY <1>2, <2>1 DEF Cancelled, CancellableStatuses, Moves, Open, Closed, Booking
  <2>3. QED
    BY <1>1, <2>1, <2>2, EditIsCurrent
<1>8. QED
  BY <1>3, <1>4, <1>5, <1>6, <1>7

LEMMA ResolveIsCurrent ==
  ASSUME OneCall, OneCallInv, NEW c \in CallIds, NEW b \in BookingIds,
         NEW resolution, NEW amount, StartResolve(c, b, resolution, amount)
  PROVE  Rest' /\ ClosedStay
<1>1. PICK d : d = bookings[b]
  OBVIOUS
<1>2. PICK pc : pc = IF CallsStripe(d, resolution) THEN "refund" ELSE "save"
  OBVIOUS
<1>3. PICK e : e = Resolved(d, resolution, amount)
  OBVIOUS
<1>4. d.status = "disputed" /\ StartEdit(c, "resolve", pc, NoId, b, e, amount)
  BY <1>1, <1>2, <1>3 DEF StartResolve, CanResolve
<1>5. d \in Booking
  BY <1>1 DEF OneCallInv, HandlersInv, BookingsOK, BookingOK, Sound
<1>6. PICK refund : refund = IF amount = NoId THEN d.agreedFee ELSE amount
  OBVIOUS
<1>7. \/ e = [d EXCEPT !.disputeResolved = TRUE, !.status = "cancelled", !.refundAmount = refund]
      \/ e = [d EXCEPT !.disputeResolved = TRUE, !.status = "completed"]
  BY <1>3, <1>6 DEF Resolved
<1>8. Moves(d, e)
  BY <1>4, <1>5, <1>7 DEF Moves, Open, Closed, Booking
<1>9. pc \in {"save", "refund"}
  BY <1>2
<1>10. QED
  BY <1>1, <1>4, <1>8, <1>9, EditIsCurrent

LEMMA PayIsCurrent ==
  ASSUME OneCall, OneCallInv, NEW c \in CallIds, NEW i \in IntentIds, StartPay(c, i)
  PROVE  Rest' /\ ClosedStay
<1>1. PICK b : b = intents[i].bookingId
  OBVIOUS
<1>2. PICK d : d = bookings[b]
  OBVIOUS
<1>3. /\ intents[i].status = "succeeded" /\ d.status = "confirmed"
      /\ StartEdit(c, "pay", "save", NoId, b, Paid(d, i), i)
  BY <1>1, <1>2 DEF StartPay, CanMarkPaid
<1>4. b \in BookingIds
  BY <1>1, <1>3 DEF OneCallInv, HandlersInv, IntentsOK, IntentOK
<1>5. d \in Booking
  BY <1>2, <1>4 DEF OneCallInv, HandlersInv, BookingsOK, BookingOK, Sound
<1>6. Moves(d, Paid(d, i))
  BY <1>3, <1>5 DEF Paid, Moves, Open, Closed, Booking
<1>7. QED
  BY <1>2, <1>3, <1>4, <1>6, EditIsCurrent

LEMMA IntentIsCurrent ==
  ASSUME OneCall, OneCallInv, NEW c \in CallIds, NEW u \in Users, NEW b \in BookingIds,
         StartIntent(c, u, b)
  PROVE  Rest' /\ ClosedStay
<1>1. PICK d : d = [op |-> "intent", pc |-> "stripe", user |-> u, b |-> b,
                    r |-> bookings[b].requestId, t |-> bookings[b].tripId,
                    old |-> bookings[b], new |-> bookings[b], arg |-> NoId]
  OBVIOUS
<1>2. calls' = [calls EXCEPT ![c] = d] /\ UNCHANGED <<bookings, intents>>
  BY <1>1 DEF StartIntent, StartEdit, docs
<1>3. bookings[b].status = "confirmed"
  BY DEF StartIntent, CanCreateIntent
<1>4. CurrentCall(d)
  BY <1>1, <1>3 DEF CurrentCall, Open
<1>5. QED
  BY <1>2, <1>4, OnlyTheCallMoves

\* createMatch, and the handlers on requests and trips, hold no booking.
LEMMA OtherStartsAreCurrent ==
  ASSUME OneCall, OneCallInv, NEW c \in CallIds,
         \/ \E u \in Users, r \in Requests, t \in Trips, fee \in Fees :
              StartMatch(c, u, r, t, fee)
         \/ \E op, u, r, edited : StartRequestEdit(c, op, u, r, edited)
         \/ \E u \in Users, t \in Trips : StartCancelTrip(c, u, t)
  PROVE  Rest' /\ ClosedStay
<1>1. ASSUME NEW u, NEW r, NEW t, NEW fee, StartMatch(c, u, r, t, fee)
      PROVE  Rest' /\ ClosedStay
  <2>1. PICK d : d = [NoCall EXCEPT !.op = "match", !.pc = "readTrip", !.user = u,
                                    !.r = r, !.t = t, !.arg = fee]
    OBVIOUS
  <2>2. calls' = [calls EXCEPT ![c] = d] /\ UNCHANGED <<bookings, intents>>
    BY <1>1, <2>1 DEF StartMatch, docs
  <2>3. d.pc = "readTrip"
    BY <2>1, NoCallFree DEF CallFields
  <2>4. CurrentCall(d)
    BY <2>3 DEF CurrentCall
  <2>5. QED
    BY <2>2, <2>4, OnlyTheCallMoves
<1>2. ASSUME NEW op, NEW u, NEW r, NEW edited, StartRequestEdit(c, op, u, r, edited)
      PROVE  Rest' /\ ClosedStay
  <2>1. PICK d : d = [NoCall EXCEPT !.op = op, !.pc = "saveRequest", !.user = u, !.r = r,
                                    !.old = requests[r], !.new = edited]
    OBVIOUS
  <2>2. calls' = [calls EXCEPT ![c] = d] /\ UNCHANGED <<bookings, intents>>
    BY <1>2, <2>1 DEF StartRequestEdit, docs
  <2>3. d.pc \in FreePCs
    BY <2>1, NoCallFree DEF CallFields, FreePCs
  <2>4. CurrentCall(d)
    BY <2>3, FreeIsCurrent
  <2>5. QED
    BY <2>2, <2>4, OnlyTheCallMoves
<1>3. ASSUME NEW u, NEW t, StartCancelTrip(c, u, t)
      PROVE  Rest' /\ ClosedStay
  <2>1. PICK edited : edited = [trips[t] EXCEPT !.status = "cancelled"]
    OBVIOUS
  <2>2. PICK d : d = [NoCall EXCEPT !.op = "cancelTrip", !.pc = "saveTripStatus",
                                    !.user = u, !.t = t, !.old = trips[t], !.new = edited]
    OBVIOUS
  <2>3. calls' = [calls EXCEPT ![c] = d] /\ UNCHANGED <<bookings, intents>>
    BY <1>3, <2>1, <2>2 DEF StartCancelTrip, docs
  <2>4. d.pc \in FreePCs
    BY <2>2, NoCallFree DEF CallFields, FreePCs
  <2>5. CurrentCall(d)
    BY <2>4, FreeIsCurrent
  <2>6. QED
    BY <2>3, <2>5, OnlyTheCallMoves
<1>4. QED
  BY <1>1, <1>2, <1>3

LEMMA StartIsCurrent ==
  ASSUME OneCall, OneCallInv, NEW c \in CallIds, Start(c)
  PROVE  Rest' /\ ClosedStay
<1>1. ASSUME NEW u \in Users, NEW r \in Requests,
             \/ \E type \in OfferedTypes : StartUpdateRequest(c, u, r, type)
             \/ StartCancelRequest(c, u, r)
      PROVE  Rest' /\ ClosedStay
  <2>1. \E op, edited : StartRequestEdit(c, op, u, r, edited)
    BY <1>1 DEF StartUpdateRequest, StartCancelRequest
  <2>2. QED
    BY <2>1, OtherStartsAreCurrent
<1>2. ASSUME NEW r \in Requests, StartApprove(c, r) \/ StartReject(c, r)
      PROVE  Rest' /\ ClosedStay
  <2>1. \E op, edited : StartRequestEdit(c, op, NoId, r, edited)
    BY <1>2 DEF StartApprove, StartReject
  <2>2. QED
    BY <2>1, OtherStartsAreCurrent
<1>3. ASSUME NEW u \in Users, NEW b \in BookingIds,
             \/ StartAccept(c, u, b)
             \/ \E fee \in Fees : StartCounter(c, u, b, fee)
             \/ StartDecline(c, u, b)
             \/ StartAcceptCounter(c, u, b)
             \/ StartInTransit(c, u, b)
             \/ StartProof(c, u, b)
             \/ StartComplete(c, u, b)
             \/ StartDispute(c, u, b)
             \/ StartCancel(c, u, b)
             \/ StartIntent(c, u, b)
      PROVE  Rest' /\ ClosedStay
  BY <1>3, AgreementIsCurrent, TransportIsCurrent, IntentIsCurrent
<1>4. ASSUME NEW u \in Users, NEW r \in Requests, NEW t \in Trips, NEW fee \in Fees,
             StartMatch(c, u, r, t, fee) \/ StartCancelTrip(c, u, t)
      PROVE  Rest' /\ ClosedStay
  BY <1>4, OtherStartsAreCurrent
<1>5. ASSUME NEW u \in Users, NEW t \in Trips, StartCancelTrip(c, u, t)
      PROVE  Rest' /\ ClosedStay
  BY <1>5, OtherStartsAreCurrent
<1>6. QED
  BY <1>1, <1>2, <1>3, <1>4, <1>5, ResolveIsCurrent, PayIsCurrent DEF Start

-----------------------------------------------------------------------------

(* The writes. *)

\* The booking that createMatch inserts is the first that stands for its request
\* and trip: nothing has written since the query for an earlier link.
LEMMA InsertIsCurrent ==
  ASSUME OneCall, OneCallInv, NEW c \in CallIds, NEW b \in BookingIds, InsertBooking(c, b)
  PROVE  Rest' /\ ClosedStay
<1>1. PICK r, t, fee : r = calls[c].r /\ t = calls[c].t /\ fee = calls[c].arg
  OBVIOUS
<1>2. PICK n : n = NewBooking(r, t, fee)
  OBVIOUS
<1>3. /\ bookings' = [bookings EXCEPT ![b] = n] /\ bookings[b].status = "absent"
      /\ Proceed(c, "request") /\ UNCHANGED intents /\ calls[c].pc = "insert"
  BY <1>1, <1>2 DEF InsertBooking, At
<1>4. ~ExistingLink(bookings, r, t)
  BY <1>1, <1>3 DEF OneCallInv, CallsCurrent, CurrentCall
<1>5. DOMAIN bookings = BookingIds
  BY DEF OneCallInv, HandlersInv, BookingsOK
<1>6. bookings'[b] = n /\ \A e \in BookingIds \ {b} : bookings'[e] = bookings[e]
  BY <1>3, <1>5
<1>7. n.requestId = r /\ n.tripId = t
  BY <1>2 DEF NewBooking, AbsentBooking
<1>8. CallsCurrent'
  <2>1. PICK d : calls' = [calls EXCEPT ![c] = d] /\ d.pc \in FreePCs
    BY <1>3, ProceedFree DEF FreePCs
  <2>2. QED
    BY <2>1, FreeIsCurrent, TheCallMoves DEF OneCallInv
<1>9. IntentsCurrent'
  <2>1. ASSUME NEW i \in IntentIds, intents[i].status # "absent"
        PROVE  intents[i].bookingId \in BookingIds \ {b}
    BY <1>3, <2>1 DEF OneCallInv, IntentsCurrent, IntentCurrent, Open, HandlersInv,
                      IntentsOK, IntentOK
  <2>2. QED
    BY <1>3, <1>6, <2>1 DEF OneCallInv, IntentsCurrent, IntentCurrent
<1>10. OneLinkPerTrip'
  <2>1. ASSUME NEW r2 \in Requests, NEW t2 \in Trips,
               NEW b1 \in LinkedBookings(r2, t2)', NEW b2 \in LinkedBookings(r2, t2)'
        PROVE  b1 = b2
    <3>1. ASSUME NEW e \in LinkedBookings(r2, t2)', e # b
          PROVE  e \in LinkedBookings(r2, t2)
      BY <1>6, <3>1 DEF LinkedBookings
    <3>2. ASSUME NEW e \in LinkedBookings(r2, t2)', e # b, b \in LinkedBookings(r2, t2)'
          PROVE  FALSE
      <4>1. r2 = r /\ t2 = t
        BY <1>6, <1>7, <3>2 DEF LinkedBookings
      <4>2. e \in LinkedBookings(r, t)
        BY <3>1, <3>2, <4>1
      <4>3. QED
        BY <1>4, <4>2 DEF LinkedBookings, ExistingLink
    <3>3. CASE b1 = b \/ b2 = b
      BY <2>1, <3>2, <3>3
    <3>4. CASE b1 # b /\ b2 # b
      BY <2>1, <3>1, <3>4 DEF OneCallInv, OneLinkPerTrip
    <3>5. QED
      BY <3>3, <3>4
  <2>2. QED
    BY <2>1 DEF OneLinkPerTrip
<1>11. ClosedStay
  BY <1>3, <1>6 DEF ClosedStay, Closed
<1>12. QED
  BY <1>8, <1>9, <1>10, <1>11 DEF Rest

\* booking.save() writes the edit of the booking as it is.
LEMMA SaveIsCurrent ==
  ASSUME OneCall, OneCallInv, NEW c \in CallIds, SaveBooking(c)
  PROVE  Rest' /\ ClosedStay
<1>1. PICK b, old, new : b = calls[c].b /\ old = calls[c].old /\ new = calls[c].new
  OBVIOUS
<1>2. PICK m : m = Merge(bookings[b], old, new)
  OBVIOUS
<1>3. /\ bookings' = [bookings EXCEPT ![b] = m] /\ UNCHANGED intents
      /\ calls[c].pc = "save"
  BY <1>1, <1>2 DEF SaveBooking, At
<1>4. b \in BookingIds /\ Sound(old) /\ old.status # "absent" /\ Kept(old, new)
  BY <1>1, <1>3 DEF OneCallInv, HandlersInv, CallsOK, CallOK, Holds
<1>5. bookings[b] = old /\ Moves(old, new)
  BY <1>1, <1>3 DEF OneCallInv, CallsCurrent, CurrentCall
<1>6. old \in Booking
  BY <1>4 DEF Sound
<1>7. /\ m.status = new.status /\ m.agreedFee = new.agreedFee
      /\ m.requestId = old.requestId /\ m.tripId = old.tripId
  BY <1>2, <1>4, <1>5, <1>6 DEF Merge, Booking, Kept
<1>8. DOMAIN bookings = BookingIds
  BY DEF OneCallInv, HandlersInv, BookingsOK
<1>9. bookings'[b] = m /\ \A e \in BookingIds \ {b} : bookings'[e] = bookings[e]
  BY <1>3, <1>4, <1>8
<1>10. CallsCurrent'
  <2>1. PICK d : calls' = [calls EXCEPT ![c] = d] /\ d.pc \in FreePCs
    BY ProceedFree, ReturnFree DEF SaveBooking, FreePCs
  <2>2. QED
    BY <2>1, FreeIsCurrent, TheCallMoves DEF OneCallInv
<1>11. IntentsCurrent'
  <2>1. ASSUME NEW i \in IntentIds, intents[i].status # "absent"
        PROVE  /\ bookings'[intents[i].bookingId].status \notin Open
               /\ bookings'[intents[i].bookingId].agreedFee
                    = bookings[intents[i].bookingId].agreedFee
    <3>1. /\ intents[i].bookingId \in BookingIds
          /\ bookings[intents[i].bookingId].status \notin Open
      BY <2>1 DEF OneCallInv, IntentsCurrent, IntentCurrent, HandlersInv, IntentsOK, IntentOK
    <3>2. QED
      BY <1>5, <1>7, <1>9, <3>1 DEF Moves
  <2>2. QED
    BY <1>3, <2>1 DEF OneCallInv, IntentsCurrent, IntentCurrent
<1>12. OneLinkPerTrip'
  <2>1. ASSUME NEW r \in Requests, NEW t \in Trips
        PROVE  LinkedBookings(r, t)' \subseteq LinkedBookings(r, t)
    BY <1>4, <1>5, <1>7, <1>9 DEF LinkedBookings, Moves, Closed
  <2>2. QED
    BY <2>1 DEF OneCallInv, OneLinkPerTrip
<1>13. ClosedStay
  BY <1>5, <1>9 DEF ClosedStay, Moves
<1>14. QED
  BY <1>10, <1>11, <1>12, <1>13 DEF Rest

\* Payments change at Stripe; what was agreed on does not.
LEMMA PaymentChange ==
  ASSUME OneCallInv, UNCHANGED bookings, NEW i, NEW p,
         intents' = [intents EXCEPT ![i] = p],
         i \in IntentIds =>
           /\ bookings[p.bookingId].status \notin Open
           /\ p.amount = Cents(bookings[p.bookingId].agreedFee)
  PROVE  IntentsCurrent' /\ OneLinkPerTrip' /\ ClosedStay
<1>1. DOMAIN intents = IntentIds
  BY DEF OneCallInv, HandlersInv, IntentsOK
<1>2. \A j \in IntentIds : intents'[j] = IF j = i THEN p ELSE intents[j]
  BY <1>1
<1>3. IntentsCurrent'
  BY <1>2 DEF OneCallInv, IntentsCurrent, IntentCurrent
<1>4. OneLinkPerTrip' /\ ClosedStay
  BY DEF OneCallInv, OneLinkPerTrip, LinkedBookings, ClosedStay
<1>5. QED
  BY <1>3, <1>4

LEMMA CreateIntentIsCurrent ==
  ASSUME OneCall, OneCallInv, NEW c \in CallIds, NEW i \in IntentIds, CreateIntent(c, i)
  PROVE  Rest' /\ ClosedStay
<1>1. PICK p : p = NewIntent(calls[c].b, calls[c].old.agreedFee)
  OBVIOUS
<1>2. /\ intents' = [intents EXCEPT ![i] = p] /\ UNCHANGED bookings
      /\ Return(c) /\ calls[c].pc = "stripe"
  BY <1>1 DEF CreateIntent, At
<1>3. calls[c].old = bookings[calls[c].b] /\ calls[c].old.status \notin Open
  BY <1>2 DEF OneCallInv, CallsCurrent, CurrentCall
<1>4. /\ bookings[p.bookingId].status \notin Open
      /\ p.amount = Cents(bookings[p.bookingId].agreedFee)
  BY <1>1, <1>3 DEF NewIntent
<1>5. IntentsCurrent' /\ OneLinkPerTrip' /\ ClosedStay
  BY <1>2, <1>4, PaymentChange
<1>6. PICK d : calls' = [calls EXCEPT ![c] = d] /\ d.pc \in FreePCs
  BY <1>2, ReturnFree
<1>7. QED
  BY <1>5, <1>6, FreeIsCurrent, TheCallMoves DEF OneCallInv, Rest

LEMMA CaptureIsCurrent ==
  ASSUME OneCall, OneCallInv, NEW i \in IntentIds, CapturePayment(i)
  PROVE  Rest' /\ ClosedStay
<1>1. PICK p : p = Succeeded(intents[i])
  OBVIOUS
<1>2. /\ intents' = [intents EXCEPT ![i] = p] /\ intents[i].status = "open"
      /\ UNCHANGED bookings /\ UNCHANGED calls
  BY <1>1 DEF CapturePayment
<1>3. DOMAIN intents[i] = {"status", "bookingId", "amount", "refunded"}
  BY DEF OneCallInv, HandlersInv, IntentsOK, IntentOK
<1>4. p.bookingId = intents[i].bookingId /\ p.amount = intents[i].amount
  BY <1>1, <1>3 DEF Succeeded
<1>5. /\ bookings[p.bookingId].status \notin Open
      /\ p.amount = Cents(bookings[p.bookingId].agreedFee)
  BY <1>2, <1>4 DEF OneCallInv, IntentsCurrent, IntentCurrent
<1>6. IntentsCurrent' /\ OneLinkPerTrip' /\ ClosedStay
  BY <1>2, <1>5, PaymentChange
<1>7. CallsCurrent'
  BY <1>2 DEF OneCallInv, CallsCurrent, CurrentCall, ExistingLink
<1>8. QED
  BY <1>6, <1>7 DEF Rest

LEMMA CallStripeIsCurrent ==
  ASSUME OneCall, OneCallInv, NEW c \in CallIds, CallStripe(c)
  PROVE  Rest' /\ ClosedStay
<1>1. PICK d0 : d0 = calls[c]
  OBVIOUS
<1>2. PICK i : i = d0.old.paymentIntentId
  OBVIOUS
<1>3. UNCHANGED bookings /\ d0.pc = "refund"
  BY <1>1 DEF CallStripe, At
<1>4. CASE StripeAccepts(intents[i], d0.arg)
  <2>1. PICK p : p = Refunded(intents[i], d0.arg)
    OBVIOUS
  <2>2. intents' = [intents EXCEPT ![i] = p] /\ Goto(c, "save")
    BY <1>1, <1>2, <1>4, <2>1 DEF CallStripe
  <2>3. ASSUME i \in IntentIds
        PROVE  /\ bookings[p.bookingId].status \notin Open
               /\ p.amount = Cents(bookings[p.bookingId].agreedFee)
    <3>1. /\ DOMAIN intents[i] = {"status", "bookingId", "amount", "refunded"}
          /\ d0.b \in BookingIds /\ d0.old = bookings[d0.b]
      BY <1>1, <1>3, <2>3 DEF OneCallInv, HandlersInv, IntentsOK, IntentOK, CallsOK,
                               CallOK, Holds, CallsCurrent, CurrentCall
    <3>2. p.bookingId = intents[i].bookingId /\ p.amount = intents[i].amount
      BY <2>1, <3>1 DEF Refunded
    <3>3. Backed(d0.b, i)
      BY <1>2, <2>3, <3>1, IdsAssumption DEF OneCallInv, HandlersInv, BookingsOK, BookingOK
    <3>4. QED
      BY <2>3, <3>2, <3>3 DEF Backed, OneCallInv, IntentsCurrent, IntentCurrent
  <2>4. IntentsCurrent' /\ OneLinkPerTrip' /\ ClosedStay
    BY <1>3, <2>2, <2>3, PaymentChange
  <2>5. PICK d : d = [d0 EXCEPT !.pc = "save"]
    OBVIOUS
  <2>6. calls' = [calls EXCEPT ![c] = d]
    BY <1>1, <2>2, <2>5 DEF Goto
  <2>7. /\ DOMAIN d0 = CallFields
        /\ d0.old = bookings[d0.b] /\ Moves(d0.old, d0.new)
    BY <1>1, <1>3 DEF OneCallInv, HandlersInv, CallsOK, CallOK, CallFields, CallsCurrent,
                      CurrentCall
  <2>8. d.pc = "save" /\ d.b = d0.b /\ d.old = d0.old /\ d.new = d0.new
    BY <2>5, <2>7 DEF CallFields
  <2>9. CurrentCall(d)'
    BY <1>3, <2>7, <2>8 DEF CurrentCall
  <2>10. QED
    BY <2>4, <2>6, <2>9, TheCallMoves DEF OneCallInv, Rest
<1>5. CASE ~StripeAccepts(intents[i], d0.arg)
  <2>1. UNCHANGED <<bookings, intents>> /\ Return(c)
    BY <1>1, <1>2, <1>3, <1>5 DEF CallStripe
  <2>2. QED
    BY <2>1, TheCallReturns
<1>6. QED
  BY <1>4, <1>5

\* The query for an earlier link, and what stands between the others' writes.
LEMMA CheckLinkIsCurrent ==
  ASSUME OneCall, OneCallInv, NEW c \in CallIds, ReadTrip(c) \/ CheckLink(c)
  PROVE  Rest' /\ ClosedStay
<1>1. UNCHANGED <<bookings, intents>>
  BY DEF ReadTrip, CheckLink, docs
<1>2. CASE Return(c)
  BY <1>1, <1>2, TheCallReturns
<1>3. ASSUME NEW pc, Goto(c, pc),
             \/ pc = "checkLink"
             \/ pc = "insert" /\ ~ExistingLink(bookings, calls[c].r, calls[c].t)
      PROVE  Rest' /\ ClosedStay
  <2>1. PICK d : d = [calls[c] EXCEPT !.pc = pc]
    OBVIOUS
  <2>2. calls' = [calls EXCEPT ![c] = d]
    BY <1>3, <2>1 DEF Goto
  <2>3. DOMAIN calls[c] = CallFields
    BY DEF OneCallInv, HandlersInv, CallsOK, CallOK, CallFields
  <2>4. d.pc = pc /\ d.r = calls[c].r /\ d.t = calls[c].t
    BY <2>1, <2>3 DEF CallFields
  <2>5. CurrentCall(d)
    BY <1>3, <2>4 DEF CurrentCall
  <2>6. QED
    BY <1>1, <2>2, <2>5, OnlyTheCallMoves
<1>4. QED
  BY <1>2, <1>3 DEF ReadTrip, CheckLink

LEMMA FreeStepIsCurrent ==
  ASSUME OneCall, OneCallInv, NEW c \in CallIds,
         \/ IncTrip(c) \/ WriteRequest(c) \/ FindTrip(c) \/ SaveTrip(c) \/ FindBookings(c)
         \/ CloseTrip(c) \/ SaveRequest(c) \/ SaveTripStatus(c) \/ Fail(c)
  PROVE  Rest' /\ ClosedStay
<1>1. UNCHANGED <<bookings, intents>>
  BY DEF IncTrip, WriteRequest, FindTrip, SaveTrip, FindBookings, CloseTrip, SaveRequest,
         SaveTripStatus, Fail, docs
<1>2. CASE FindTrip(c)
  <2>1. DOMAIN calls = CallIds /\ DOMAIN calls[c] = CallFields
    BY DEF OneCallInv, HandlersInv, CallsOK, CallOK, CallFields
  <2>2. PICK d : d = calls'[c]
    OBVIOUS
  <2>3. d.pc = "saveTrip"
    BY <1>2, <2>1, <2>2 DEF FindTrip, CallFields
  <2>4. CurrentCall(calls[c])'
    BY <2>2, <2>3 DEF CurrentCall
  <2>5. CallsCurrent'
    BY <2>4 DEF OneCall, CallsCurrent
  <2>6. QED
    BY <1>1, <2>5, DocsStay DEF Rest
<1>3. CASE \/ IncTrip(c) \/ WriteRequest(c) \/ SaveTrip(c) \/ FindBookings(c)
           \/ CloseTrip(c) \/ SaveRequest(c) \/ SaveTripStatus(c) \/ Fail(c)
  <2>1. \/ Return(c) \/ Goto(c, "incTrip") \/ Goto(c, "findTrip")
        \/ Goto(c, "findBookings") \/ Goto(c, "closeTrip")
    BY <1>3 DEF IncTrip, WriteRequest, SaveTrip, FindBookings, CloseTrip, SaveRequest,
                SaveTripStatus, Fail
  <2>2. Return(c) \/ \E pc \in FreePCs : Goto(c, pc)
    BY <2>1 DEF FreePCs
  <2>3. QED
    BY <1>1, <2>2, TheCallReturns
<1>4. QED
  BY <1>2, <1>3

LEMMA EnvironmentIsCurrent ==
  ASSUME OneCall, OneCallInv, Environment
  PROVE  Rest' /\ ClosedStay
<1>1. CASE UNCHANGED <<bookings, intents, calls>>
  <2>1. CallsCurrent'
    BY <1>1 DEF OneCallInv, CallsCurrent, CurrentCall, ExistingLink
  <2>2. QED
    BY <1>1, <2>1, DocsStay DEF Rest
<1>2. QED
  BY <1>1, CaptureIsCurrent DEF Environment, CreateRequest, CreateTrip

-----------------------------------------------------------------------------

LEMMA InitOneCall == Init => OneCallInv
<1> SUFFICES ASSUME Init PROVE OneCallInv
  OBVIOUS
<1>1. CallsCurrent
  BY DEF Init, CallsCurrent, CurrentCall, NoCall
<1>2. IntentsCurrent
  BY DEF Init, IntentsCurrent, IntentCurrent, AbsentIntent
<1>3. OneLinkPerTrip
  BY DEF Init, OneLinkPerTrip, LinkedBookings, AbsentBooking
<1>4. QED
  BY <1>1, <1>2, <1>3, InitHandlers DEF OneCallInv

LEMMA NextOneCall ==
  ASSUME OneCall, OneCallInv, [FailingNext]_vars
  PROVE  OneCallInv' /\ ClosedStay
<1>1. HandlersInv'
  BY NextHandlers DEF OneCallInv
<1>2. CASE FailingNext
  <2>1. ASSUME NEW c \in CallIds, Step(c)
        PROVE  Rest' /\ ClosedStay
    BY <2>1, CheckLinkIsCurrent, InsertIsCurrent, CreateIntentIsCurrent,
       CallStripeIsCurrent, SaveIsCurrent, FreeStepIsCurrent DEF Step
  <2>2. Rest' /\ ClosedStay
    BY <1>2, <2>1, StartIsCurrent, EnvironmentIsCurrent, FreeStepIsCurrent
       DEF FailingNext, Next
  <2>3. QED
    BY <1>1, <2>2 DEF Rest, OneCallInv
<1>3. CASE UNCHANGED vars
  <2>1. UNCHANGED <<bookings, intents, calls>>
    BY <1>3 DEF vars
  <2>2. CallsCurrent'
    BY <2>1 DEF OneCallInv, CallsCurrent, CurrentCall, ExistingLink
  <2>3. QED
    BY <1>1, <2>1, <2>2, DocsStay DEF OneCallInv
<1>4. QED
  BY <1>2, <1>3

LEMMA ChargedFollows == OneCallInv => ChargedAsAgreed
  BY DEF OneCallInv, HandlersInv, BookingsOK, BookingOK, Backed, IntentsCurrent,
         IntentCurrent, ChargedAsAgreed

LEMMA ClosedFollows == ClosedStay =>
  [\A b \in BookingIds :
     bookings[b].status \in {"cancelled", "completed"} => bookings'[b] = bookings[b]]_bookings
  BY DEF ClosedStay, Closed

-----------------------------------------------------------------------------

\* While calls fail half-way but do not overlap, each works on the booking as it is.
THEOREM OneCallInvariance ==
  ASSUME OneCall
  PROVE  FailingSpec => []OneCallInv
<1>1. OneCallInv /\ [FailingNext]_vars => OneCallInv'
  BY NextOneCall
<1>2. QED
  BY <1>1, InitOneCall, PTL DEF FailingSpec

\* createMatch tried again after it died half-way never links a request to a trip
\* twice: bookings.service.ts answers "A booking already exists for this request
\* and trip".
THEOREM OneLinkPerTripAlways ==
  ASSUME OneCall
  PROVE  FailingSpec => []OneLinkPerTrip
<1>1. OneCallInv => OneLinkPerTrip
  BY DEF OneCallInv
<1>2. QED
  BY <1>1, OneCallInvariance, PTL

\* The payment a booking carries has the amount agreed on there, to the cent,
\* although the intent was created calls before the webhook recorded it.
THEOREM ChargedAsAgreedAlways ==
  ASSUME OneCall
  PROVE  FailingSpec => []ChargedAsAgreed
  BY ChargedFollows, OneCallInvariance, PTL

\* Calls cut off between two writes, and calls made again, never reopen or change a
\* cancelled or completed booking.
THEOREM ClosedStayClosedAlways ==
  ASSUME OneCall
  PROVE  FailingSpec => ClosedStayClosed
<1>1. OneCallInv /\ [FailingNext]_vars =>
        [\A b \in BookingIds :
           bookings[b].status \in {"cancelled", "completed"}
             => bookings'[b] = bookings[b]]_bookings
  BY NextOneCall, ClosedFollows
<1>2. QED
  BY <1>1, OneCallInvariance, PTL DEF FailingSpec, ClosedStayClosed

-----------------------------------------------------------------------------
(* Calls that neither overlap nor fail: the refinement of Lifecycle.         *)

\* The edit a handler holds before booking.save(): its guard was passed on the copy.
EditOf(d) ==
  LET o == d.old  e == d.new  u == d.user
  IN \/ d.op = "accept" /\ CanAccept(o, u) /\ e = Accepted(o)
     \/ d.op = "counter" /\ CanCounter(o, u) /\ \E fee \in Fees : e = Countered(o, fee)
     \/ d.op = "decline" /\ CanDecline(o, u) /\ e = Declined(o)
     \/ d.op = "acceptCounter" /\ CanAcceptCounter(o, u) /\ e = CounterAccepted(o)
     \/ d.op = "inTransit" /\ CanMarkInTransit(o, u) /\ e = InTransit(o)
     \/ d.op = "proof" /\ CanSubmitProof(o, u) /\ e = Delivered(o)
     \/ d.op = "complete" /\ CanComplete(o, u) /\ e = Completed(o)
     \/ d.op = "dispute" /\ CanDispute(o, u) /\ e = Disputed(o, u)
     \/ d.op = "cancel" /\ CanCancel(o, u) /\ e = Cancelled(o, u)

RefundOf(d) ==
  \E a \in ResolutionArgs :
    /\ CanResolve(d.old) /\ CallsStripe(d.old, a[1]) /\ d.arg = a[2]
    /\ d.new = Resolved(d.old, a[1], a[2])

ReleaseOf(d) ==
  \E a \in ResolutionArgs :
    /\ CanResolve(d.old) /\ ~CallsStripe(d.old, a[1])
    /\ d.new = Resolved(d.old, a[1], a[2]) /\ d.new.status # "cancelled"

PaymentOf(d) == CanMarkPaid(d.old) /\ Backed(d.b, d.arg) /\ d.new = Paid(d.old, d.arg)

RequestEditOf(d) ==
  LET o == d.old  e == d.new  u == d.user
  IN \/ u \in Users /\ CanUpdateRequest(d.r, u, o)
        /\ \E type \in OfferedTypes : e = [o EXCEPT !.type = type]
     \/ u \in Users /\ CanCancelRequest(d.r, u, o) /\ e = [o EXCEPT !.status = "cancelled"]
     \/ CanModerate(o) /\ e = [o EXCEPT !.adminApprovalStatus = "approved"]
     \/ CanModerate(o) /\ e = RejectedRequest(o)

Exists(r, t) ==
  /\ r \in Requests /\ requests[r].status # "absent"
  /\ t \in Trips /\ trips[t].status # "absent"

\* What the next steps of a call in flight rest on, while no other call moves.
CallRuns(d) ==
  /\ d.pc \in {"readTrip", "checkLink", "insert"} =>
       /\ d.op = "match" /\ d.user \in Users /\ d.r \in Requests /\ d.t \in Trips
       /\ d.arg \in Fees /\ RequestMatchable(d.r, d.user, requests[d.r])
  /\ d.pc \in {"checkLink", "insert"} => TripMatchable(trips[d.t])
  /\ d.pc = "stripe" => d.user \in Users /\ CanCreateIntent(d.old, d.user)
  /\ d.pc \in {"refund", "save"} => d.r = d.old.requestId /\ d.t = d.old.tripId
  /\ d.pc = "refund" => d.op = "resolve" /\ RefundOf(d)
  /\ d.pc = "save" =>
       /\ \/ d.user \in Users /\ EditOf(d)
          \/ d.op = "pay" /\ PaymentOf(d)
          \/ d.op = "resolve" /\ (RefundOf(d) \/ ReleaseOf(d))
  /\ d.pc \in {"request", "incTrip", "findTrip", "saveTrip", "findBookings", "closeTrip"} =>
       Exists(d.r, d.t)
  /\ d.pc = "request" =>
       d.op \in {"match"} \cup RevertingOps \cup DOMAIN RequestStatusAfter
  /\ d.pc = "incTrip" => d.op = "match"
  /\ d.pc \in {"findTrip", "saveTrip"} => d.op \in RevertingOps
  /\ d.pc = "saveTrip" =>
       d.old = trips[d.t]
       /\ d.new = [d.old EXCEPT !.matchedRequestsCount = Decremented(@)]
  /\ d.pc \in {"findBookings", "closeTrip"} => d.op = "complete"
  /\ d.pc = "closeTrip" => TripDone(bookings, d.t)
  /\ d.pc = "saveRequest" =>
       d.r \in Requests /\ d.old = requests[d.r] /\ d.old.status # "absent" /\ RequestEditOf(d)
  /\ d.pc = "saveTripStatus" =>
       /\ d.user \in Users /\ d.t \in Trips /\ d.old = trips[d.t]
       /\ CanCancelTrip(d.t, d.user, d.old) /\ d.new = [d.old EXCEPT !.status = "cancelled"]

CollectionsOK == requests \in [Requests -> Request] /\ trips \in [Trips -> Trip]

BookingsNamed ==
  \A b \in BookingIds :
    bookings[b].status # "absent" => Exists(bookings[b].requestId, bookings[b].tripId)

CallsRun == \A c \in CallIds : CallRuns(calls[c])

AloneInv == OneCallInv /\ CollectionsOK /\ BookingsNamed /\ CallsRun

-----------------------------------------------------------------------------
(* A handler that runs alone: what its later steps rest on. *)

LEMMA OnlyCallRuns ==
  ASSUME OneCall, NEW c \in CallIds, NEW d, calls'[c] = d, CallRuns(d)'
  PROVE  CallsRun'
<1>1. \A e \in CallIds : e = c
  BY DEF OneCall
<1>2. QED
  BY <1>1 DEF CallsRun

LEMMA DocsAlone ==
  ASSUME AloneInv, UNCHANGED docs
  PROVE  CollectionsOK' /\ BookingsNamed'
  BY DEF AloneInv, CollectionsOK, BookingsNamed, Exists, docs

\* What the one call becomes.
LEMMA ReturnsTo ==
  ASSUME AloneInv, NEW c \in CallIds, Return(c)
  PROVE  calls'[c] = NoCall /\ NoCall.pc = "idle" /\ NoCall.op = "none"
  BY DEF Return, NoCall, AloneInv, OneCallInv, HandlersInv, CallsOK

LEMMA GoesTo ==
  ASSUME AloneInv, NEW c \in CallIds, NEW pc, Goto(c, pc),
         NEW d, d = calls'[c], NEW g, g = calls[c]
  PROVE  /\ d.pc = pc /\ d.op = g.op /\ d.user = g.user /\ d.b = g.b /\ d.r = g.r
         /\ d.t = g.t /\ d.old = g.old /\ d.new = g.new /\ d.arg = g.arg
<1>1. DOMAIN calls = CallIds /\ DOMAIN g = CallFields
  BY DEF AloneInv, OneCallInv, HandlersInv, CallsOK, CallOK, CallFields
<1>2. d = [g EXCEPT !.pc = pc]
  BY <1>1 DEF Goto
<1>3. QED
  BY <1>1, <1>2 DEF CallFields

LEMMA ProceedsTo ==
  ASSUME AloneInv, NEW c \in CallIds, NEW pc, Proceed(c, pc),
         NEW d, d = calls'[c], NEW g, g = calls[c]
  PROVE  d.pc = pc /\ d.op = g.op /\ d.r = g.r /\ d.t = g.t
<1>1. DOMAIN calls = CallIds
  BY DEF AloneInv, OneCallInv, HandlersInv, CallsOK
<1>2. PICK n : n = NoCall
  OBVIOUS
<1>3. DOMAIN n = CallFields
  BY <1>2, NoCallFree
<1>4. d = [n EXCEPT !.op = g.op, !.pc = pc, !.r = g.r, !.t = g.t]
  BY <1>1, <1>2 DEF Proceed
<1>5. QED
  BY <1>3, <1>4 DEF CallFields

LEMMA NoCallRuns == CallRuns(NoCall) /\ CallRuns(NoCall)'
  BY DEF CallRuns, NoCall

LEMMA ReturnAlone ==
  ASSUME OneCall, AloneInv, NEW c \in CallIds, Return(c)
  PROVE  CallsRun'
  BY ReturnsTo, NoCallRuns, OnlyCallRuns

-----------------------------------------------------------------------------
(* The first halves. *)

LEMMA EditAlone ==
  ASSUME OneCall, AloneInv, NEW c \in CallIds, NEW op, NEW pc, NEW u, NEW b \in BookingIds,
         NEW e, NEW arg, StartEdit(c, op, pc, u, b, e, arg),
         NEW d, d = [op |-> op, pc |-> pc, user |-> u, b |-> b,
                     r |-> bookings[b].requestId, t |-> bookings[b].tripId,
                     old |-> bookings[b], new |-> e, arg |-> arg],
         CallRuns(d)
  PROVE  CollectionsOK' /\ BookingsNamed' /\ CallsRun'
<1>1. UNCHANGED docs /\ calls'[c] = d
  BY DEF StartEdit, AloneInv, OneCallInv, HandlersInv, CallsOK
<1>2. CallRuns(d)'
  BY <1>1 DEF CallRuns, PaymentOf, Backed, Exists, TripDone, docs
<1>3. QED
  BY <1>1, <1>2, OnlyCallRuns, DocsAlone

LEMMA SaveEditAlone ==
  ASSUME OneCall, AloneInv, NEW c \in CallIds, NEW op, NEW u \in Users, NEW b \in BookingIds,
         NEW e, StartEdit(c, op, "save", u, b, e, NoId),
         NEW d, d = [op |-> op, pc |-> "save", user |-> u, b |-> b,
                     r |-> bookings[b].requestId, t |-> bookings[b].tripId,
                     old |-> bookings[b], new |-> e, arg |-> NoId],
         EditOf(d)
  PROVE  CollectionsOK' /\ BookingsNamed' /\ CallsRun'
<1>1. CallRuns(d)
  BY DEF CallRuns
<1>2. QED
  BY <1>1, EditAlone

LEMMA EditsAlone ==
  ASSUME OneCall, AloneInv, NEW c \in CallIds, NEW u \in Users, NEW b \in BookingIds,
         \/ StartAccept(c, u, b)
         \/ \E fee \in Fees : StartCounter(c, u, b, fee)
         \/ StartDecline(c, u, b)
         \/ StartAcceptCounter(c, u, b)
         \/ StartInTransit(c, u, b)
         \/ StartProof(c, u, b)
         \/ StartComplete(c, u, b)
         \/ StartDispute(c, u, b)
         \/ StartCancel(c, u, b)
  PROVE  CollectionsOK' /\ BookingsNamed' /\ CallsRun'
<1>1. PICK o : o = bookings[b]
  OBVIOUS
<1> DEFINE Held(op, e) == [op |-> op, pc |-> "save", user |-> u, b |-> b,
                           r |-> bookings[b].requestId, t |-> bookings[b].tripId,
                           old |-> bookings[b], new |-> e, arg |-> NoId]
<1>2. \E op, e : StartEdit(c, op, "save", u, b, e, NoId) /\ EditOf(Held(op, e))
  <2>1. CASE StartAccept(c, u, b)
    BY <2>1 DEF StartAccept, EditOf
  <2>2. CASE \E fee \in Fees : StartCounter(c, u, b, fee)
    BY <2>2 DEF StartCounter, EditOf
  <2>3. CASE StartDecline(c, u, b)
    BY <2>3 DEF StartDecline, EditOf
  <2>4. CASE StartAcceptCounter(c, u, b)
    BY <2>4 DEF StartAcceptCounter, EditOf
  <2>5. CASE StartInTransit(c, u, b)
    BY <2>5 DEF StartInTransit, EditOf
  <2>6. CASE StartProof(c, u, b)
    BY <2>6 DEF StartProof, EditOf
  <2>7. CASE StartComplete(c, u, b)
    BY <2>7 DEF StartComplete, EditOf
  <2>8. CASE StartDispute(c, u, b)
    BY <2>8 DEF StartDispute, EditOf
  <2>9. CASE StartCancel(c, u, b)
    BY <2>9 DEF StartCancel, EditOf
  <2>10. QED
    BY <2>1, <2>2, <2>3, <2>4, <2>5, <2>6, <2>7, <2>8, <2>9
<1>3. QED
  BY <1>2, SaveEditAlone

\* A dispute is about a paid booking: every refund goes to Stripe.
LEMMA ResolveAlone ==
  ASSUME OneCall, AloneInv, NEW c \in CallIds, NEW b \in BookingIds,
         NEW a \in ResolutionArgs, StartResolve(c, b, a[1], a[2])
  PROVE  CollectionsOK' /\ BookingsNamed' /\ CallsRun'
<1>1. PICK o : o = bookings[b]
  OBVIOUS
<1>2. PICK pc : pc = IF CallsStripe(o, a[1]) THEN "refund" ELSE "save"
  OBVIOUS
<1>3. PICK e : e = Resolved(o, a[1], a[2])
  OBVIOUS
<1>4. CanResolve(o) /\ StartEdit(c, "resolve", pc, NoId, b, e, a[2])
  BY <1>1, <1>2, <1>3 DEF StartResolve
<1>5. Sound(o)
  BY <1>1 DEF AloneInv, OneCallInv, HandlersInv, BookingsOK, BookingOK
<1>6. o \in Booking /\ o.paymentIntentId # NoId
  BY <1>4, <1>5 DEF Sound, CanResolve, FundedStatuses
<1>7. ~CallsStripe(o, a[1]) => e.status # "cancelled"
  BY <1>3, <1>6 DEF CallsStripe, Resolved, Booking
<1>8. PICK d : d = [op |-> "resolve", pc |-> pc, user |-> NoId, b |-> b,
                    r |-> bookings[b].requestId, t |-> bookings[b].tripId,
                    old |-> bookings[b], new |-> e, arg |-> a[2]]
  OBVIOUS
<1>9. CallRuns(d)
  <2>1. CASE CallsStripe(o, a[1])
    BY <1>1, <1>2, <1>3, <1>4, <1>8, <2>1 DEF CallRuns, RefundOf
  <2>2. CASE ~CallsStripe(o, a[1])
    BY <1>1, <1>2, <1>3, <1>4, <1>7, <1>8, <2>2 DEF CallRuns, ReleaseOf
  <2>3. QED
    BY <2>1, <2>2
<1>10. QED
  BY <1>4, <1>8, <1>9, EditAlone

LEMMA PayAlone ==
  ASSUME OneCall, AloneInv, NEW c \in CallIds, NEW i \in IntentIds, StartPay(c, i)
  PROVE  CollectionsOK' /\ BookingsNamed' /\ CallsRun'
<1>1. PICK b : b = intents[i].bookingId
  OBVIOUS
<1>2. PICK e : e = Paid(bookings[b], i)
  OBVIOUS
<1>3. /\ intents[i].status = "succeeded" /\ CanMarkPaid(bookings[b])
      /\ StartEdit(c, "pay", "save", NoId, b, e, i)
  BY <1>1, <1>2 DEF StartPay
<1>4. b \in BookingIds /\ Backed(b, i)
  BY <1>1, <1>3 DEF AloneInv, OneCallInv, HandlersInv, IntentsOK, IntentOK, Backed
<1>5. PICK d : d = [op |-> "pay", pc |-> "save", user |-> NoId, b |-> b,
                    r |-> bookings[b].requestId, t |-> bookings[b].tripId,
                    old |-> bookings[b], new |-> e, arg |-> i]
  OBVIOUS
<1>6. CallRuns(d)
  BY <1>2, <1>3, <1>4, <1>5 DEF CallRuns, PaymentOf
<1>7. QED
  BY <1>3, <1>4, <1>5, <1>6, EditAlone

LEMMA IntentAlone ==
  ASSUME OneCall, AloneInv, NEW c \in CallIds, NEW u \in Users, NEW b \in BookingIds,
         StartIntent(c, u, b)
  PROVE  CollectionsOK' /\ BookingsNamed' /\ CallsRun'
<1>1. CanCreateIntent(bookings[b], u)
      /\ StartEdit(c, "intent", "stripe", u, b, bookings[b], NoId)
  BY DEF StartIntent
<1>2. PICK d : d = [op |-> "intent", pc |-> "stripe", user |-> u, b |-> b,
                    r |-> bookings[b].requestId, t |-> bookings[b].tripId,
                    old |-> bookings[b], new |-> bookings[b], arg |-> NoId]
  OBVIOUS
<1>3. CallRuns(d)
  BY <1>1, <1>2 DEF CallRuns
<1>4. QED
  BY <1>1, <1>2, <1>3, EditAlone

LEMMA OtherStartsAlone ==
  ASSUME OneCall, AloneInv, NEW c \in CallIds, UNCHANGED docs,
         NEW d, calls' = [calls EXCEPT ![c] = d], CallRuns(d)
  PROVE  CollectionsOK' /\ BookingsNamed' /\ CallsRun'
<1>1. calls'[c] = d
  BY DEF AloneInv, OneCallInv, HandlersInv, CallsOK
<1>2. CallRuns(d)'
  BY DEF CallRuns, PaymentOf, Backed, Exists, TripDone, docs
<1>3. QED
  BY <1>1, <1>2, OnlyCallRuns, DocsAlone

LEMMA MatchAlone ==
  ASSUME OneCall, AloneInv, NEW c \in CallIds, NEW u \in Users, NEW r \in Requests,
         NEW t \in Trips, NEW fee \in Fees, StartMatch(c, u, r, t, fee)
  PROVE  CollectionsOK' /\ BookingsNamed' /\ CallsRun'
<1>1. PICK n : n = NoCall
  OBVIOUS
<1>2. PICK d : d = [n EXCEPT !.op = "match", !.pc = "readTrip", !.user = u, !.r = r,
                             !.t = t, !.arg = fee]
  OBVIOUS
<1>3. d.op = "match" /\ d.pc = "readTrip" /\ d.user = u /\ d.r = r /\ d.t = t /\ d.arg = fee
  BY <1>1, <1>2, NoCallFree DEF CallFields
<1>4. UNCHANGED docs /\ calls' = [calls EXCEPT ![c] = d] /\ RequestMatchable(r, u, requests[r])
  BY <1>1, <1>2 DEF StartMatch
<1>5. CallRuns(d)
  BY <1>3, <1>4 DEF CallRuns
<1>6. QED
  BY <1>4, <1>5, OtherStartsAlone

LEMMA RequestEditAlone ==
  ASSUME OneCall, AloneInv, NEW c \in CallIds, NEW op, NEW u, NEW r \in Requests, NEW e,
         StartRequestEdit(c, op, u, r, e), requests[r].status # "absent",
         \/ u \in Users /\ CanUpdateRequest(r, u, requests[r])
            /\ \E type \in OfferedTypes : e = [requests[r] EXCEPT !.type = type]
         \/ u \in Users /\ CanCancelRequest(r, u, requests[r])
            /\ e = [requests[r] EXCEPT !.status = "cancelled"]
         \/ CanModerate(requests[r]) /\ e = [requests[r] EXCEPT !.adminApprovalStatus = "approved"]
         \/ CanModerate(requests[r]) /\ e = RejectedRequest(requests[r])
  PROVE  CollectionsOK' /\ BookingsNamed' /\ CallsRun'
<1>1. PICK n : n = NoCall
  OBVIOUS
<1>2. PICK d : d = [n EXCEPT !.op = op, !.pc = "saveRequest", !.user = u, !.r = r,
                             !.old = requests[r], !.new = e]
  OBVIOUS
<1>3. d.pc = "saveRequest" /\ d.user = u /\ d.r = r /\ d.old = requests[r] /\ d.new = e
  BY <1>1, <1>2, NoCallFree DEF CallFields
<1>4. UNCHANGED docs /\ calls' = [calls EXCEPT ![c] = d]
  BY <1>1, <1>2 DEF StartRequestEdit
<1>5. RequestEditOf(d)
  BY <1>3 DEF RequestEditOf
<1>6. CallRuns(d)
  BY <1>3, <1>5 DEF CallRuns
<1>7. QED
  BY <1>4, <1>6, OtherStartsAlone

LEMMA CancelTripAlone ==
  ASSUME OneCall, AloneInv, NEW c \in CallIds, NEW u \in Users, NEW t \in Trips,
         StartCancelTrip(c, u, t)
  PROVE  CollectionsOK' /\ BookingsNamed' /\ CallsRun'
<1>1. PICK n : n = NoCall
  OBVIOUS
<1>2. PICK e : e = [trips[t] EXCEPT !.status = "cancelled"]
  OBVIOUS
<1>3. PICK d : d = [n EXCEPT !.op = "cancelTrip", !.pc = "saveTripStatus", !.user = u,
                             !.t = t, !.old = trips[t], !.new = e]
  OBVIOUS
<1>4. d.pc = "saveTripStatus" /\ d.user = u /\ d.t = t /\ d.old = trips[t] /\ d.new = e
  BY <1>1, <1>3, NoCallFree DEF CallFields
<1>5. UNCHANGED docs /\ calls' = [calls EXCEPT ![c] = d] /\ CanCancelTrip(t, u, trips[t])
  BY <1>1, <1>2, <1>3 DEF StartCancelTrip
<1>6. CallRuns(d)
  BY <1>2, <1>4, <1>5 DEF CallRuns
<1>7. QED
  BY <1>5, <1>6, OtherStartsAlone

LEMMA StartAlone ==
  ASSUME OneCall, AloneInv, NEW c \in CallIds, Start(c)
  PROVE  CollectionsOK' /\ BookingsNamed' /\ CallsRun'
<1>1. ASSUME NEW u \in Users, NEW r \in Requests,
             \/ \E type \in OfferedTypes : StartUpdateRequest(c, u, r, type)
             \/ StartCancelRequest(c, u, r)
      PROVE  CollectionsOK' /\ BookingsNamed' /\ CallsRun'
  <2>1. CASE \E type \in OfferedTypes : StartUpdateRequest(c, u, r, type)
    BY <2>1, RequestEditAlone DEF StartUpdateRequest, CanUpdateRequest
  <2>2. CASE StartCancelRequest(c, u, r)
    BY <2>2, RequestEditAlone DEF StartCancelRequest, CanCancelRequest
  <2>3. QED
    BY <1>1, <2>1, <2>2
<1>2. ASSUME NEW r \in Requests, StartApprove(c, r) \/ StartReject(c, r)
      PROVE  CollectionsOK' /\ BookingsNamed' /\ CallsRun'
  BY <1>2, RequestEditAlone DEF StartApprove, StartReject, CanModerate
<1>3. ASSUME NEW u \in Users, NEW b \in BookingIds,
             \/ StartAccept(c, u, b)
             \/ \E fee \in Fees : StartCounter(c, u, b, fee)
             \/ StartDecline(c, u, b)
             \/ StartAcceptCounter(c, u, b)
             \/ StartInTransit(c, u, b)
             \/ StartProof(c, u, b)
             \/ StartComplete(c, u, b)
             \/ StartDispute(c, u, b)
             \/ StartCancel(c, u, b)
             \/ StartIntent(c, u, b)
      PROVE  CollectionsOK' /\ BookingsNamed' /\ CallsRun'
  BY <1>3, EditsAlone, IntentAlone
<1>4. ASSUME NEW u \in Users, NEW r \in Requests, NEW t \in Trips, NEW fee \in Fees,
             StartMatch(c, u, r, t, fee)
      PROVE  CollectionsOK' /\ BookingsNamed' /\ CallsRun'
  BY <1>4, MatchAlone
<1>5. ASSUME NEW u \in Users, NEW t \in Trips, StartCancelTrip(c, u, t)
      PROVE  CollectionsOK' /\ BookingsNamed' /\ CallsRun'
  BY <1>5, CancelTripAlone
<1>6. QED
  BY <1>1, <1>2, <1>3, <1>4, <1>5, ResolveAlone, PayAlone DEF Start

-----------------------------------------------------------------------------
(* The writes. *)

LEMMA RequestEdits ==
  ASSUME NEW o \in Request, NEW t \in Trips
  PROVE  /\ MatchedRequest(o, t) \in Request /\ MatchedRequest(o, t).status = "matched"
         /\ RevertedRequest(o) \in Request /\ RevertedRequest(o).status = "pending"
         /\ RejectedRequest(o) \in Request /\ RejectedRequest(o).status = "cancelled"
         /\ \A s \in RequestStatuses :
              [o EXCEPT !.status = s] \in Request /\ [o EXCEPT !.status = s].status = s
<1>1. ASSUME NEW s \in RequestStatuses
      PROVE  [o EXCEPT !.status = s] \in Request /\ [o EXCEPT !.status = s].status = s
  BY DEF Request
<1>2. MatchedRequest(o, t) \in Request /\ MatchedRequest(o, t).status = "matched"
  BY DEF MatchedRequest, Request, RequestStatuses
<1>3. RevertedRequest(o) \in Request /\ RevertedRequest(o).status = "pending"
  BY DEF RevertedRequest, Request, RequestStatuses
<1>4. RejectedRequest(o) \in Request /\ RejectedRequest(o).status = "cancelled"
  BY DEF RejectedRequest, Request, RequestStatuses, ApprovalStatuses
<1>5. QED
  BY <1>1, <1>2, <1>3, <1>4

\* A request is written that was there before.
LEMMA RequestWritten ==
  ASSUME AloneInv, NEW r \in Requests, NEW e \in Request, e.status # "absent",
         requests' = [requests EXCEPT ![r] = e], UNCHANGED <<trips, bookings>>
  PROVE  CollectionsOK' /\ BookingsNamed' /\ (\A t : Exists(r, t) => Exists(r, t)')
<1>1. requests \in [Requests -> Request]
  BY DEF AloneInv, CollectionsOK
<1>2. /\ requests' \in [Requests -> Request]
      /\ \A q \in Requests : requests'[q] = IF q = r THEN e ELSE requests[q]
  BY <1>1
<1>3. QED
  BY <1>2 DEF AloneInv, CollectionsOK, BookingsNamed, Exists

LEMMA TripWritten ==
  ASSUME AloneInv, NEW t \in Trips, NEW e \in Trip, e.status # "absent",
         trips' = [trips EXCEPT ![t] = e], UNCHANGED <<requests, bookings>>
  PROVE  CollectionsOK' /\ BookingsNamed' /\ (\A r : Exists(r, t) => Exists(r, t)')
<1>1. trips \in [Trips -> Trip]
  BY DEF AloneInv, CollectionsOK
<1>2. /\ trips' \in [Trips -> Trip]
      /\ \A q \in Trips : trips'[q] = IF q = t THEN e ELSE trips[q]
  BY <1>1
<1>3. QED
  BY <1>2 DEF AloneInv, CollectionsOK, BookingsNamed, Exists

LEMMA TheCallRuns ==
  ASSUME AloneInv, NEW c \in CallIds
  PROVE  CallRuns(calls[c])
  BY DEF AloneInv, CallsRun

\* createMatch before its insert, and the query of maybeCompleteTrip.
LEMMA QueriesAlone ==
  ASSUME OneCall, AloneInv, NEW c \in CallIds,
         ReadTrip(c) \/ CheckLink(c) \/ FindBookings(c)
  PROVE  CollectionsOK' /\ BookingsNamed' /\ CallsRun'
<1>1. UNCHANGED docs
  BY DEF ReadTrip, CheckLink, FindBookings
<1>2. CollectionsOK' /\ BookingsNamed'
  BY <1>1, DocsAlone
<1>3. CASE Return(c)
  BY <1>2, <1>3, ReturnAlone
<1>4. CASE ~Return(c)
  <2>1. PICK g, d : g = calls[c] /\ d = calls'[c]
    OBVIOUS
  <2>2. CallRuns(g)
    BY <2>1, TheCallRuns
  <2>3. \/ /\ g.pc = "readTrip" /\ TripMatchable(trips[g.t]) /\ Goto(c, "checkLink")
        \/ g.pc = "checkLink" /\ Goto(c, "insert")
        \/ g.pc = "findBookings" /\ TripDone(bookings, g.t) /\ Goto(c, "closeTrip")
    BY <1>4, <2>1 DEF ReadTrip, CheckLink, FindBookings, At
  <2>4. /\ d.op = g.op /\ d.user = g.user /\ d.r = g.r /\ d.t = g.t /\ d.arg = g.arg
        /\ \/ /\ g.pc = "readTrip" /\ TripMatchable(trips[g.t]) /\ d.pc = "checkLink"
           \/ g.pc = "checkLink" /\ d.pc = "insert"
           \/ g.pc = "findBookings" /\ TripDone(bookings, g.t) /\ d.pc = "closeTrip"
    BY <2>1, <2>3, GoesTo
  <2>5. CallRuns(d)
    BY <2>2, <2>4 DEF CallRuns
  <2>6. CallRuns(d)'
    BY <1>1, <2>5 DEF CallRuns, PaymentOf, Backed, Exists, TripDone, docs
  <2>7. QED
    BY <1>2, <2>1, <2>6, OnlyCallRuns
<1>5. QED
  BY <1>3, <1>4

LEMMA InsertAlone ==
  ASSUME OneCall, AloneInv, NEW c \in CallIds, NEW b \in BookingIds, InsertBooking(c, b)
  PROVE  CollectionsOK' /\ BookingsNamed' /\ CallsRun'
<1>1. PICK g, d : g = calls[c] /\ d = calls'[c]
  OBVIOUS
<1>2. PICK n : n = NewBooking(g.r, g.t, g.arg)
  OBVIOUS
<1>3. /\ g.pc = "insert" /\ bookings' = [bookings EXCEPT ![b] = n]
      /\ Proceed(c, "request") /\ UNCHANGED <<requests, trips>>
  BY <1>1, <1>2 DEF InsertBooking, At
<1>4. CallRuns(g)
  BY <1>1, TheCallRuns
<1>5. g.op = "match" /\ Exists(g.r, g.t)
  BY <1>3, <1>4 DEF CallRuns, Exists, RequestMatchable, TripMatchable
<1>6. n.requestId = g.r /\ n.tripId = g.t
  BY <1>2 DEF NewBooking, AbsentBooking
<1>7. \A e \in BookingIds : bookings'[e] = IF e = b THEN n ELSE bookings[e]
  BY <1>3 DEF AloneInv, OneCallInv, HandlersInv, BookingsOK
<1>8. BookingsNamed'
  BY <1>3, <1>5, <1>6, <1>7 DEF AloneInv, BookingsNamed, Exists
<1>9. d.pc = "request" /\ d.op = "match" /\ d.r = g.r /\ d.t = g.t
  BY <1>1, <1>3, <1>5, ProceedsTo
<1>10. CallRuns(d)'
  BY <1>3, <1>5, <1>9 DEF CallRuns, Exists
<1>11. CollectionsOK'
  BY <1>3 DEF AloneInv, CollectionsOK
<1>12. QED
  BY <1>1, <1>8, <1>10, <1>11, OnlyCallRuns

LEMMA StripeAlone ==
  ASSUME OneCall, AloneInv, NEW c \in CallIds,
         CallStripe(c) \/ \E i \in IntentIds : CreateIntent(c, i)
  PROVE  CollectionsOK' /\ BookingsNamed' /\ CallsRun'
<1>1. UNCHANGED <<requests, trips, bookings>>
  BY DEF CallStripe, CreateIntent
<1>2. CollectionsOK' /\ BookingsNamed'
  BY <1>1 DEF AloneInv, CollectionsOK, BookingsNamed, Exists
<1>3. CASE Return(c)
  BY <1>2, <1>3, ReturnAlone
<1>4. CASE ~Return(c)
  <2>1. PICK g, d : g = calls[c] /\ d = calls'[c]
    OBVIOUS
  <2>2. g.pc = "refund" /\ Goto(c, "save")
    BY <1>4, <2>1 DEF CallStripe, CreateIntent, At
  <2>3. CallRuns(g)
    BY <2>1, TheCallRuns
  <2>4. /\ d.pc = "save" /\ d.op = "resolve" /\ RefundOf(d)
        /\ d.b = g.b /\ d.old = g.old /\ d.r = g.r /\ d.t = g.t
    <3>1. /\ d.pc = "save" /\ d.op = g.op /\ d.b = g.b /\ d.old = g.old /\ d.new = g.new
          /\ d.arg = g.arg /\ d.r = g.r /\ d.t = g.t
      BY <2>1, <2>2, GoesTo
    <3>2. QED
      BY <2>2, <2>3, <3>1 DEF CallRuns, RefundOf
  <2>5. d.r = d.old.requestId /\ d.t = d.old.tripId
    BY <2>2, <2>3, <2>4 DEF CallRuns
  <2>6. CallRuns(d)'
    BY <2>4, <2>5 DEF CallRuns
  <2>7. QED
    BY <1>2, <2>1, <2>6, OnlyCallRuns
<1>5. QED
  BY <1>3, <1>4

\* What booking.save() writes is the edit itself.
LEMMA MergeCurrent ==
  ASSUME NEW o, NEW n, \/ o \in Booking /\ n \in Booking
                       \/ o \in Request /\ n \in Request
                       \/ o \in Trip /\ n \in Trip
  PROVE  Merge(o, o, n) = n
<1>1. CASE o \in Booking /\ n \in Booking
  BY <1>1 DEF Merge, Booking
<1>2. CASE o \in Request /\ n \in Request
  BY <1>2 DEF Merge, Request
<1>3. CASE o \in Trip /\ n \in Trip
  BY <1>3 DEF Merge, Trip
<1>4. QED
  BY <1>1, <1>2, <1>3

LEMMA SavedAsEdited ==
  ASSUME AloneInv, NEW c \in CallIds, SaveBooking(c), NEW g, g = calls[c]
  PROVE  /\ g.b \in BookingIds /\ g.old = bookings[g.b] /\ g.old.status # "absent"
         /\ g.old \in Booking /\ g.new \in Booking /\ g.new.status # "absent"
         /\ g.new.requestId = g.old.requestId /\ g.new.tripId = g.old.tripId
         /\ Merge(g.old, g.old, g.new) = g.new
         /\ bookings' = [bookings EXCEPT ![g.b] = g.new]
<1>1. g.pc = "save"
  BY DEF SaveBooking, At
<1>2. g.b \in BookingIds /\ Sound(g.old) /\ g.old.status # "absent" /\ Sound(g.new)
      /\ Kept(g.old, g.new)
  BY <1>1 DEF AloneInv, OneCallInv, HandlersInv, CallsOK, CallOK, Holds
<1>3. g.old = bookings[g.b]
  BY <1>1 DEF AloneInv, OneCallInv, CallsCurrent, CurrentCall
<1>4. g.old \in Booking /\ g.new \in Booking
  BY <1>2 DEF Sound
<1>5. Merge(g.old, g.old, g.new) = g.new
  BY <1>4, MergeCurrent
<1>6. bookings' = [bookings EXCEPT ![g.b] = g.new]
  BY <1>3, <1>5 DEF SaveBooking
<1>7. QED
  BY <1>2, <1>3, <1>4, <1>5, <1>6 DEF Kept

LEMMA SaveAlone ==
  ASSUME OneCall, AloneInv, NEW c \in CallIds, SaveBooking(c)
  PROVE  CollectionsOK' /\ BookingsNamed' /\ CallsRun'
<1>1. PICK g, d : g = calls[c] /\ d = calls'[c]
  OBVIOUS
<1>2. /\ g.b \in BookingIds /\ g.old = bookings[g.b] /\ g.old.status # "absent"
      /\ g.new.requestId = g.old.requestId /\ g.new.tripId = g.old.tripId
      /\ bookings' = [bookings EXCEPT ![g.b] = g.new]
  BY <1>1, SavedAsEdited
<1>3. g.pc = "save" /\ UNCHANGED <<requests, trips>>
  BY <1>1 DEF SaveBooking, At
<1>4. g.r = g.old.requestId /\ g.t = g.old.tripId
  BY <1>1, <1>3, TheCallRuns DEF CallRuns
<1>5. Exists(g.r, g.t)
  BY <1>2, <1>4 DEF AloneInv, BookingsNamed
<1>6. \A e \in BookingIds : bookings'[e] = IF e = g.b THEN g.new ELSE bookings[e]
  BY <1>2 DEF AloneInv, OneCallInv, HandlersInv, BookingsOK
<1>7. CollectionsOK' /\ BookingsNamed'
  BY <1>2, <1>3, <1>4, <1>5, <1>6 DEF AloneInv, CollectionsOK, BookingsNamed, Exists
<1>8. CASE Return(c)
  BY <1>7, <1>8, ReturnAlone
<1>9. CASE ~Return(c)
  <2>1. g.op \in DOMAIN RequestStatusAfter \cup RevertingOps /\ Proceed(c, "request")
    BY <1>1, <1>9 DEF SaveBooking
  <2>2. d.pc = "request" /\ d.op = g.op /\ d.r = g.r /\ d.t = g.t
    BY <1>1, <2>1, ProceedsTo
  <2>3. CallRuns(d)'
    BY <1>3, <1>5, <2>1, <2>2 DEF CallRuns, Exists
  <2>4. QED
    BY <1>1, <1>7, <2>3, OnlyCallRuns
<1>10. QED
  BY <1>8, <1>9

LEMMA RequestAfterTypes ==
  ASSUME NEW o \in Request, NEW g, g.t \in Trips,
         g.op \in {"match"} \cup RevertingOps \cup DOMAIN RequestStatusAfter
  PROVE  RequestAfter(o, g) \in Request /\ RequestAfter(o, g).status # "absent"
<1>1. CASE g.op = "match"
  BY <1>1, RequestEdits, IdsAssumption DEF RequestAfter
<1>2. CASE g.op \in RevertingOps
  BY <1>2, RequestEdits, IdsAssumption DEF RequestAfter, RevertingOps
<1>3. CASE g.op \in DOMAIN RequestStatusAfter
  <2>1. PICK s : s = RequestStatusAfter[g.op]
    OBVIOUS
  <2>2. s \in RequestStatuses /\ s # "absent"
    BY <1>3, <2>1 DEF RequestStatusAfter, RequestStatuses
  <2>3. RequestAfter(o, g) = [o EXCEPT !.status = s]
    BY <1>3, <2>1 DEF RequestAfter, RequestStatusAfter, RevertingOps
  <2>4. QED
    BY <2>2, <2>3 DEF Request
<1>4. QED
  BY <1>1, <1>2, <1>3

LEMMA WriteRequestAlone ==
  ASSUME OneCall, AloneInv, NEW c \in CallIds, WriteRequest(c)
  PROVE  CollectionsOK' /\ BookingsNamed' /\ CallsRun'
<1>1. PICK g, d : g = calls[c] /\ d = calls'[c]
  OBVIOUS
<1>2. PICK e : e = RequestAfter(requests[g.r], g)
  OBVIOUS
<1>3. /\ g.pc = "request" /\ requests' = [requests EXCEPT ![g.r] = e]
      /\ UNCHANGED <<trips, bookings>>
  BY <1>1, <1>2 DEF WriteRequest, At
<1>4. /\ Exists(g.r, g.t)
      /\ g.op \in {"match"} \cup RevertingOps \cup DOMAIN RequestStatusAfter
  BY <1>1, <1>3, TheCallRuns DEF CallRuns
<1>5. g.r \in Requests /\ g.t \in Trips /\ requests[g.r] \in Request
  BY <1>4 DEF Exists, AloneInv, CollectionsOK
<1>6. e \in Request /\ e.status # "absent"
  BY <1>2, <1>4, <1>5, RequestAfterTypes
<1>7. CollectionsOK' /\ BookingsNamed' /\ Exists(g.r, g.t)'
  BY <1>3, <1>4, <1>5, <1>6, RequestWritten
<1>8. CASE Return(c)
  BY <1>7, <1>8, ReturnAlone
<1>9. CASE ~Return(c)
  <2>1. \/ g.op = "match" /\ Goto(c, "incTrip")
        \/ g.op \in RevertingOps /\ Goto(c, "findTrip")
        \/ g.op = "complete" /\ Goto(c, "findBookings")
    BY <1>1, <1>9 DEF WriteRequest
  <2>2. /\ d.op = g.op /\ d.r = g.r /\ d.t = g.t
        /\ \/ g.op = "match" /\ d.pc = "incTrip"
           \/ g.op \in RevertingOps /\ d.pc = "findTrip"
           \/ g.op = "complete" /\ d.pc = "findBookings"
    BY <1>1, <2>1, GoesTo
  <2>3. CallRuns(d)'
    BY <1>7, <2>2 DEF CallRuns
  <2>4. QED
    BY <1>1, <1>7, <2>3, OnlyCallRuns
<1>10. QED
  BY <1>8, <1>9

LEMMA TripTypes ==
  ASSUME NEW o \in Trip
  PROVE  /\ \A n \in Nat : /\ [o EXCEPT !.matchedRequestsCount = n] \in Trip
                           /\ [o EXCEPT !.matchedRequestsCount = n].status = o.status
         /\ \A s \in TripStatuses : /\ [o EXCEPT !.status = s] \in Trip
                                    /\ [o EXCEPT !.status = s].status = s
         /\ o.matchedRequestsCount + 1 \in Nat /\ Decremented(o.matchedRequestsCount) \in Nat
  BY DEF Trip, TripStatuses, Decremented

\* The writes of a trip that end a call.
LEMMA TripWritesAlone ==
  ASSUME OneCall, AloneInv, NEW c \in CallIds,
         IncTrip(c) \/ SaveTrip(c) \/ CloseTrip(c) \/ SaveTripStatus(c)
  PROVE  CollectionsOK' /\ BookingsNamed' /\ CallsRun'
<1>1. PICK g : g = calls[c]
  OBVIOUS
<1>2. PICK o : o = trips[g.t]
  OBVIOUS
<1>3. CallRuns(g)
  BY <1>1, TheCallRuns
<1>4. Return(c) /\ UNCHANGED <<requests, bookings>>
  BY DEF IncTrip, SaveTrip, CloseTrip, SaveTripStatus
<1>5. g.t \in Trips /\ o \in Trip /\ o.status # "absent"
  BY <1>1, <1>2, <1>3 DEF IncTrip, SaveTrip, CloseTrip, SaveTripStatus, At, CallRuns, Exists,
     CanCancelTrip, AloneInv, CollectionsOK
<1>6. \E e \in Trip : e.status # "absent" /\ trips' = [trips EXCEPT ![g.t] = e]
  <2>1. CASE IncTrip(c)
    <3>1. PICK e : e = [o EXCEPT !.matchedRequestsCount = o.matchedRequestsCount + 1]
      OBVIOUS
    <3>2. trips' = [trips EXCEPT ![g.t] = e]
      BY <1>1, <1>2, <2>1, <3>1 DEF IncTrip
    <3>3. QED
      BY <1>5, <3>1, <3>2, TripTypes
  <2>2. CASE SaveTrip(c)
    <3>1. g.old = o /\ g.new = [o EXCEPT !.matchedRequestsCount = Decremented(o.matchedRequestsCount)]
      BY <1>1, <1>2, <1>3, <2>2 DEF SaveTrip, At, CallRuns
    <3>2. g.new \in Trip /\ g.new.status # "absent"
      BY <1>5, <3>1, TripTypes
    <3>3. trips' = [trips EXCEPT ![g.t] = g.new]
      BY <1>1, <1>2, <1>5, <2>2, <3>1, <3>2, MergeCurrent DEF SaveTrip
    <3>4. QED
      BY <3>2, <3>3
  <2>3. CASE CloseTrip(c)
    <3>1. PICK e : e = [o EXCEPT !.status = "completed"]
      OBVIOUS
    <3>2. trips' = [trips EXCEPT ![g.t] = e]
      BY <1>1, <1>2, <2>3, <3>1 DEF CloseTrip
    <3>3. e \in Trip /\ e.status = "completed"
      BY <1>5, <3>1, TripTypes DEF TripStatuses
    <3>4. QED
      BY <3>2, <3>3
  <2>4. CASE SaveTripStatus(c)
    <3>1. g.old = o /\ g.new = [o EXCEPT !.status = "cancelled"]
      BY <1>1, <1>2, <1>3, <2>4 DEF SaveTripStatus, At, CallRuns
    <3>2. g.new \in Trip /\ g.new.status = "cancelled"
      BY <1>5, <3>1, TripTypes DEF TripStatuses
    <3>3. trips' = [trips EXCEPT ![g.t] = g.new]
      BY <1>1, <1>2, <1>5, <2>4, <3>1, <3>2, MergeCurrent DEF SaveTripStatus
    <3>4. QED
      BY <3>2, <3>3
  <2>5. QED
    BY <2>1, <2>2, <2>3, <2>4
<1>7. QED
  BY <1>4, <1>5, <1>6, TripWritten, ReturnAlone

LEMMA FindTripAlone ==
  ASSUME OneCall, AloneInv, NEW c \in CallIds, FindTrip(c)
  PROVE  CollectionsOK' /\ BookingsNamed' /\ CallsRun'
<1>1. PICK g, d : g = calls[c] /\ d = calls'[c]
  OBVIOUS
<1>2. PICK o, n : o = trips[g.t] /\ n = [o EXCEPT !.matchedRequestsCount = Decremented(@)]
  OBVIOUS
<1>3. g.pc = "findTrip" /\ UNCHANGED docs
  BY <1>1 DEF FindTrip, At
<1>4. d = [g EXCEPT !.pc = "saveTrip", !.old = o, !.new = n]
  BY <1>1, <1>2 DEF FindTrip, AloneInv, OneCallInv, HandlersInv, CallsOK
<1>5. DOMAIN g = CallFields
  BY <1>1 DEF AloneInv, OneCallInv, HandlersInv, CallsOK, CallOK, CallFields
<1>6. d.pc = "saveTrip" /\ d.op = g.op /\ d.r = g.r /\ d.t = g.t /\ d.old = o /\ d.new = n
  BY <1>4, <1>5 DEF CallFields
<1>7. CallRuns(d)
  BY <1>1, <1>2, <1>3, <1>6, TheCallRuns DEF CallRuns
<1>8. CallRuns(d)'
  BY <1>3, <1>7 DEF CallRuns, PaymentOf, Backed, Exists, TripDone, docs
<1>9. QED
  BY <1>1, <1>3, <1>8, OnlyCallRuns, DocsAlone

\* What the services of requests write is the edit itself.
LEMMA SavedRequest ==
  ASSUME AloneInv, NEW c \in CallIds, SaveRequest(c), NEW g, g = calls[c]
  PROVE  /\ g.r \in Requests /\ g.old = requests[g.r] /\ g.old.status # "absent"
         /\ g.new \in Request /\ g.new.status # "absent" /\ RequestEditOf(g)
         /\ requests' = [requests EXCEPT ![g.r] = g.new]
<1>1. /\ g.r \in Requests /\ g.old = requests[g.r] /\ g.old.status # "absent"
      /\ RequestEditOf(g)
  BY TheCallRuns DEF SaveRequest, At, CallRuns
<1>2. g.old \in Request
  BY <1>1 DEF AloneInv, CollectionsOK
<1>3. g.new \in Request /\ g.new.status # "absent"
  <2>1. CASE \E type \in OfferedTypes : g.new = [g.old EXCEPT !.type = type]
    <3>1. PICK type \in OfferedTypes : g.new = [g.old EXCEPT !.type = type]
      BY <2>1
    <3>2. g.new.status = g.old.status
      BY <1>2, <3>1 DEF Request
    <3>3. QED
      BY <1>1, <1>2, <3>1, <3>2, IdsAssumption DEF Request
  <2>2. CASE g.new = [g.old EXCEPT !.status = "cancelled"]
    BY <1>2, <2>2 DEF Request, RequestStatuses
  <2>3. CASE g.new = [g.old EXCEPT !.adminApprovalStatus = "approved"]
    BY <1>1, <1>2, <2>3 DEF Request, ApprovalStatuses
  <2>4. CASE g.new = RejectedRequest(g.old)
    BY <1>2, <2>4 DEF Request, RejectedRequest, RequestStatuses, ApprovalStatuses
  <2>5. QED
    BY <1>1, <2>1, <2>2, <2>3, <2>4 DEF RequestEditOf
<1>4. Merge(g.old, g.old, g.new) = g.new
  BY <1>2, <1>3, MergeCurrent
<1>5. requests' = [requests EXCEPT ![g.r] = g.new]
  BY <1>1, <1>4 DEF SaveRequest
<1>6. QED
  BY <1>1, <1>3, <1>5

LEMMA SaveRequestAlone ==
  ASSUME OneCall, AloneInv, NEW c \in CallIds, SaveRequest(c)
  PROVE  CollectionsOK' /\ BookingsNamed' /\ CallsRun'
<1>1. Return(c) /\ UNCHANGED <<trips, bookings>>
  BY DEF SaveRequest
<1>2. QED
  BY <1>1, SavedRequest, RequestWritten, ReturnAlone

\* Documents come to be beside the call, and payments are captured.
LEMMA EnvironmentAlone ==
  ASSUME OneCall, AloneInv, Environment
  PROVE  CollectionsOK' /\ BookingsNamed' /\ CallsRun'
<1>1. ASSUME NEW r \in Requests, NEW type \in OfferedTypes, CreateRequest(r, type)
      PROVE  CollectionsOK' /\ BookingsNamed' /\ CallsRun'
  <2>1. PICK e : e = NewRequest(type)
    OBVIOUS
  <2>2. e \in Request /\ e.status = "pending"
    BY <2>1, IdsAssumption
       DEF NewRequest, AbsentRequest, Request, RequestStatuses, ApprovalStatuses, RequestTypes
  <2>3. /\ requests[r].status = "absent" /\ requests' = [requests EXCEPT ![r] = e]
        /\ UNCHANGED <<trips, bookings, intents, calls>>
    BY <1>1, <2>1 DEF CreateRequest
  <2>4. CollectionsOK' /\ BookingsNamed'
    BY <2>2, <2>3, RequestWritten
  <2>5. \A q \in Requests : requests[q].status # "absent" => requests'[q] = requests[q]
    BY <2>3 DEF AloneInv, CollectionsOK
  <2>6. ASSUME NEW c \in CallIds PROVE CallRuns(calls[c])'
    <3>1. PICK g : g = calls[c]
      OBVIOUS
    <3>2. CallRuns(g)
      BY <3>1, TheCallRuns
    <3>3. CallRuns(g)'
      BY <2>3, <2>5, <3>2
         DEF CallRuns, RequestMatchable, PaymentOf, Backed, Exists, TripDone
    <3>4. QED
      BY <2>3, <3>1, <3>3
  <2>7. QED
    BY <2>4, <2>6 DEF CallsRun
<1>2. ASSUME NEW t \in Trips, CreateTrip(t)
      PROVE  CollectionsOK' /\ BookingsNamed' /\ CallsRun'
  <2>1. PICK e : e = [trips[t] EXCEPT !.status = "active"]
    OBVIOUS
  <2>2. trips[t] \in Trip
    BY DEF AloneInv, CollectionsOK
  <2>3. e \in Trip /\ e.status = "active"
    BY <2>1, <2>2, TripTypes DEF TripStatuses
  <2>4. /\ trips[t].status = "absent" /\ trips' = [trips EXCEPT ![t] = e]
        /\ UNCHANGED <<requests, bookings, intents, calls>>
    BY <1>2, <2>1 DEF CreateTrip
  <2>5. CollectionsOK' /\ BookingsNamed'
    BY <2>3, <2>4, TripWritten
  <2>6. \A q \in Trips : trips[q].status # "absent" => trips'[q] = trips[q]
    BY <2>4 DEF AloneInv, CollectionsOK
  <2>7. ASSUME NEW c \in CallIds PROVE CallRuns(calls[c])'
    <3>1. PICK g : g = calls[c]
      OBVIOUS
    <3>2. CallRuns(g)
      BY <3>1, TheCallRuns
    <3>3. g.pc \in {"readTrip", "checkLink", "insert"} => g.t \in Trips
      BY <3>2 DEF CallRuns
    <3>4. CallRuns(g)'
      BY <2>4, <2>6, <3>2, <3>3
         DEF CallRuns, TripMatchable, CanCancelTrip, PaymentOf, Backed, Exists, TripDone
    <3>5. QED
      BY <2>4, <3>1, <3>4
  <2>8. QED
    BY <2>5, <2>7 DEF CallsRun
<1>3. ASSUME NEW i \in IntentIds, CapturePayment(i)
      PROVE  CollectionsOK' /\ BookingsNamed' /\ CallsRun'
  <2>1. /\ intents[i].status = "open" /\ intents' = [intents EXCEPT ![i] = Succeeded(intents[i])]
        /\ UNCHANGED <<requests, trips, bookings, calls>>
    BY <1>3 DEF CapturePayment
  <2>2. \A j \in IntentIds : intents[j].status = "succeeded" => intents'[j] = intents[j]
    BY <2>1 DEF AloneInv, OneCallInv, HandlersInv, IntentsOK
  <2>3. CollectionsOK' /\ BookingsNamed'
    BY <2>1 DEF AloneInv, CollectionsOK, BookingsNamed, Exists
  <2>4. ASSUME NEW c \in CallIds PROVE CallRuns(calls[c])'
    <3>1. PICK g : g = calls[c]
      OBVIOUS
    <3>2. CallRuns(g)
      BY <3>1, TheCallRuns
    <3>3. CallRuns(g)'
      BY <2>1, <2>2, <3>2 DEF CallRuns, PaymentOf, Backed, Exists, TripDone
    <3>4. QED
      BY <2>1, <3>1, <3>3
  <2>5. QED
    BY <2>3, <2>4 DEF CallsRun
<1>4. QED
  BY <1>1, <1>2, <1>3 DEF Environment

LEMMA InitAlone == Init => AloneInv
<1> SUFFICES ASSUME Init PROVE AloneInv
  OBVIOUS
<1>1. CallsRun
  BY NoCallRuns DEF Init, CallsRun
<1>2. CollectionsOK
  BY DEF Init, CollectionsOK, AbsentRequest, AbsentTrip, Request, Trip, RequestTypes,
         ApprovalStatuses
<1>3. BookingsNamed
  BY DEF Init, BookingsNamed, AbsentBooking
<1>4. QED
  BY <1>1, <1>2, <1>3, InitOneCall DEF AloneInv

LEMMA NextAlone ==
  ASSUME OneCall, AloneInv, [Next]_vars
  PROVE  AloneInv'
<1>1. OneCallInv'
  BY NextOneCall DEF AloneInv, FailingNext
<1>2. CASE Next
  <2>1. ASSUME NEW c \in CallIds, Step(c)
        PROVE  CollectionsOK' /\ BookingsNamed' /\ CallsRun'
    BY <2>1, QueriesAlone, InsertAlone, StripeAlone, SaveAlone, WriteRequestAlone,
       TripWritesAlone, FindTripAlone, SaveRequestAlone DEF Step
  <2>2. QED
    BY <1>1, <1>2, <2>1, StartAlone, EnvironmentAlone DEF Next, AloneInv
<1>3. CASE UNCHANGED vars
  <2>1. UNCHANGED docs /\ UNCHANGED calls
    BY <1>3 DEF vars, docs
  <2>2. CallsRun'
    BY <2>1 DEF AloneInv, CallsRun, CallRuns, PaymentOf, Backed, Exists, TripDone, docs
  <2>3. QED
    BY <1>1, <2>1, <2>2, DocsAlone DEF AloneInv
<1>4. QED
  BY <1>2, <1>3

-----------------------------------------------------------------------------
(* The collections with what the one call still owes already written.        *)

RequestsDue(reqs, g) ==
  IF g.pc = "request" THEN [reqs EXCEPT ![g.r] = RequestAfter(@, g)] ELSE reqs

TripsDue(ts, bs, g) ==
  CASE g.op = "match" /\ g.pc \in {"request", "incTrip"} ->
         [ts EXCEPT ![g.t].matchedRequestsCount = @ + 1]
    [] g.op \in RevertingOps /\ g.pc \in {"request", "findTrip", "saveTrip"} ->
         [ts EXCEPT ![g.t].matchedRequestsCount = Decremented(@)]
    [] g.op = "complete" /\ g.pc \in {"request", "findBookings", "closeTrip"} ->
         IF TripDone(bs, g.t) THEN [ts EXCEPT ![g.t].status = "completed"] ELSE ts
    [] OTHER -> ts

BookingsDue(bs, g) ==
  IF g.op = "resolve" /\ g.pc = "save" /\ g.new.status = "cancelled"
  THEN [bs EXCEPT ![g.b] = Merge(@, g.old, g.new)]
  ELSE bs

LEMMA TheCall ==
  ASSUME OneCall, NEW c \in CallIds
  PROVE  Call1 = calls[c] /\ Call1' = calls'[c]
<1>1. (CHOOSE e \in CallIds : TRUE) \in CallIds
  OBVIOUS
<1>2. (CHOOSE e \in CallIds : TRUE) = c
  BY <1>1 DEF OneCall
<1>3. QED
  BY <1>2 DEF Call1

LEMMA SettledIsDue ==
  ASSUME OneCall, NEW c \in CallIds, NEW g, g = calls[c], NEW d, d = calls'[c]
  PROVE  /\ RequestsSettled = RequestsDue(requests, g)
         /\ TripsSettled = TripsDue(trips, bookings, g)
         /\ BookingsSettled = BookingsDue(bookings, g)
         /\ RequestsSettled' = RequestsDue(requests', d)
         /\ TripsSettled' = TripsDue(trips', bookings', d)
         /\ BookingsSettled' = BookingsDue(bookings', d)
<1>1. g = Call1 /\ d = Call1'
  BY TheCall
<1>2. /\ RequestsSettled = RequestsDue(requests, g)
      /\ RequestsSettled' = RequestsDue(requests', d)
  BY <1>1 DEF RequestsSettled, RequestsDue, RequestAfter
<1>3. /\ TripsSettled = TripsDue(trips, bookings, g)
      /\ TripsSettled' = TripsDue(trips', bookings', d)
  BY <1>1 DEF TripsSettled, TripsDue, TripDone
<1>4. /\ BookingsSettled = BookingsDue(bookings, g)
      /\ BookingsSettled' = BookingsDue(bookings', d)
  BY <1>1 DEF BookingsSettled, BookingsDue, Merge
<1>5. QED
  BY <1>2, <1>3, <1>4

\* A call owes nothing before its first write and after its last.
OwingPCs == {"request", "incTrip", "findTrip", "saveTrip", "findBookings", "closeTrip"}

Owes(g) ==
  \/ g.pc \in OwingPCs
  \/ g.op = "resolve" /\ g.pc = "save" /\ g.new.status = "cancelled"

LEMMA NothingDue ==
  ASSUME NEW g, ~Owes(g), NEW reqs, NEW ts, NEW bs
  PROVE  RequestsDue(reqs, g) = reqs /\ TripsDue(ts, bs, g) = ts /\ BookingsDue(bs, g) = bs
  BY DEF Owes, OwingPCs, RequestsDue, TripsDue, BookingsDue

LEMMA NoCallOwesNothing == ~Owes(NoCall)
  BY DEF Owes, OwingPCs, NoCall

\* A step that changes nothing that Lifecycle sees.
LEMMA Stutters ==
  ASSUME RequestsSettled' = RequestsSettled, TripsSettled' = TripsSettled,
         BookingsSettled' = BookingsSettled, intents' = intents
  PROVE  UNCHANGED L!vars
  BY DEF L!vars

LEMMA QuietStep ==
  ASSUME OneCall, NEW c \in CallIds, ~Owes(calls[c]), ~Owes(calls'[c]), UNCHANGED docs
  PROVE  UNCHANGED L!vars
  BY SettledIsDue, NothingDue, Stutters DEF docs

\* A handler that has only read and edited its copy has changed nothing.
LEMMA FreshIsQuiet ==
  ASSUME OneCall, AloneInv, NEW c \in CallIds, At(c, "idle"), UNCHANGED docs,
         NEW d, calls' = [calls EXCEPT ![c] = d], ~Owes(d)
  PROVE  UNCHANGED L!vars
<1>1. calls'[c] = d
  BY DEF AloneInv, OneCallInv, HandlersInv, CallsOK
<1>2. ~Owes(calls[c])
  BY DEF At, Owes, OwingPCs
<1>3. QED
  BY <1>1, <1>2, QuietStep

LEMMA EditIsQuiet ==
  ASSUME OneCall, AloneInv, NEW c \in CallIds, NEW op, NEW pc \in {"save", "refund", "stripe"},
         NEW u, NEW b, NEW e, NEW arg, StartEdit(c, op, pc, u, b, e, arg),
         op = "resolve" /\ pc = "save" => e.status # "cancelled"
  PROVE  UNCHANGED L!vars
<1>1. PICK d : d = [op |-> op, pc |-> pc, user |-> u, b |-> b,
                    r |-> bookings[b].requestId, t |-> bookings[b].tripId,
                    old |-> bookings[b], new |-> e, arg |-> arg]
  OBVIOUS
<1>2. At(c, "idle") /\ UNCHANGED docs /\ calls' = [calls EXCEPT ![c] = d]
  BY <1>1 DEF StartEdit
<1>3. ~Owes(d)
  BY <1>1 DEF Owes, OwingPCs
<1>4. QED
  BY <1>2, <1>3, FreshIsQuiet

LEMMA EditsAreQuiet ==
  ASSUME OneCall, AloneInv, NEW c \in CallIds, NEW u \in Users, NEW b \in BookingIds,
         \/ StartAccept(c, u, b)
         \/ \E fee \in Fees : StartCounter(c, u, b, fee)
         \/ StartDecline(c, u, b)
         \/ StartAcceptCounter(c, u, b)
         \/ StartInTransit(c, u, b)
         \/ StartProof(c, u, b)
         \/ StartComplete(c, u, b)
         \/ StartDispute(c, u, b)
         \/ StartCancel(c, u, b)
         \/ StartIntent(c, u, b)
  PROVE  UNCHANGED L!vars
<1>1. \E op, pc, e : /\ pc \in {"save", "refund", "stripe"} /\ op # "resolve"
                     /\ StartEdit(c, op, pc, u, b, e, NoId)
  <2>1. CASE StartAccept(c, u, b)
    BY <2>1 DEF StartAccept
  <2>2. CASE \E fee \in Fees : StartCounter(c, u, b, fee)
    BY <2>2 DEF StartCounter
  <2>3. CASE StartDecline(c, u, b)
    BY <2>3 DEF StartDecline
  <2>4. CASE StartAcceptCounter(c, u, b)
    BY <2>4 DEF StartAcceptCounter
  <2>5. CASE StartInTransit(c, u, b)
    BY <2>5 DEF StartInTransit
  <2>6. CASE StartProof(c, u, b)
    BY <2>6 DEF StartProof
  <2>7. CASE StartComplete(c, u, b)
    BY <2>7 DEF StartComplete
  <2>8. CASE StartDispute(c, u, b)
    BY <2>8 DEF StartDispute
  <2>9. CASE StartCancel(c, u, b)
    BY <2>9 DEF StartCancel
  <2>10. CASE StartIntent(c, u, b)
    BY <2>10 DEF StartIntent
  <2>11. QED
    BY <2>1, <2>2, <2>3, <2>4, <2>5, <2>6, <2>7, <2>8, <2>9, <2>10
<1>2. QED
  BY <1>1, EditIsQuiet

\* A dispute is about a paid booking: every refund goes to Stripe.
LEMMA OnlyStripeCancels ==
  ASSUME AloneInv, NEW b \in BookingIds, CanResolve(bookings[b]), NEW a \in ResolutionArgs,
         ~CallsStripe(bookings[b], a[1])
  PROVE  Resolved(bookings[b], a[1], a[2]).status # "cancelled"
<1>1. PICK o : o = bookings[b]
  OBVIOUS
<1>2. Sound(o)
  BY <1>1 DEF AloneInv, OneCallInv, HandlersInv, BookingsOK, BookingOK
<1>3. o \in Booking /\ o.paymentIntentId # NoId
  BY <1>1, <1>2 DEF Sound, CanResolve, FundedStatuses
<1>4. QED
  BY <1>1, <1>3 DEF CallsStripe, Resolved, Booking

LEMMA OtherStartsAreQuiet ==
  ASSUME OneCall, AloneInv, NEW c \in CallIds,
         \/ \E u \in Users, r \in Requests, t \in Trips, fee \in Fees :
              StartMatch(c, u, r, t, fee)
         \/ \E op, u, r, e : StartRequestEdit(c, op, u, r, e)
         \/ \E u \in Users, t \in Trips : StartCancelTrip(c, u, t)
  PROVE  UNCHANGED L!vars
<1>1. PICK n : n = NoCall
  OBVIOUS
<1>2. DOMAIN n = CallFields
  BY <1>1, NoCallFree
<1>3. \E d : calls' = [calls EXCEPT ![c] = d] /\ ~Owes(d)
  <2>1. ASSUME NEW u \in Users, NEW r \in Requests, NEW t \in Trips, NEW fee \in Fees,
               StartMatch(c, u, r, t, fee)
        PROVE  \E d : calls' = [calls EXCEPT ![c] = d] /\ ~Owes(d)
    <3>1. PICK d : d = [n EXCEPT !.op = "match", !.pc = "readTrip", !.user = u, !.r = r,
                                 !.t = t, !.arg = fee]
      OBVIOUS
    <3>2. calls' = [calls EXCEPT ![c] = d]
      BY <1>1, <2>1, <3>1 DEF StartMatch
    <3>3. d.pc = "readTrip"
      BY <1>2, <3>1 DEF CallFields
    <3>4. QED
      BY <3>2, <3>3 DEF Owes, OwingPCs
  <2>2. ASSUME NEW op, NEW u, NEW r, NEW e, StartRequestEdit(c, op, u, r, e)
        PROVE  \E d : calls' = [calls EXCEPT ![c] = d] /\ ~Owes(d)
    <3>1. PICK d : d = [n EXCEPT !.op = op, !.pc = "saveRequest", !.user = u, !.r = r,
                                 !.old = requests[r], !.new = e]
      OBVIOUS
    <3>2. calls' = [calls EXCEPT ![c] = d]
      BY <1>1, <2>2, <3>1 DEF StartRequestEdit
    <3>3. d.pc = "saveRequest"
      BY <1>2, <3>1 DEF CallFields
    <3>4. QED
      BY <3>2, <3>3 DEF Owes, OwingPCs
  <2>3. ASSUME NEW u \in Users, NEW t \in Trips, StartCancelTrip(c, u, t)
        PROVE  \E d : calls' = [calls EXCEPT ![c] = d] /\ ~Owes(d)
    <3>1. PICK e : e = [trips[t] EXCEPT !.status = "cancelled"]
      OBVIOUS
    <3>2. PICK d : d = [n EXCEPT !.op = "cancelTrip", !.pc = "saveTripStatus", !.user = u,
                                 !.t = t, !.old = trips[t], !.new = e]
      OBVIOUS
    <3>3. calls' = [calls EXCEPT ![c] = d]
      BY <1>1, <2>3, <3>1, <3>2 DEF StartCancelTrip
    <3>4. d.pc = "saveTripStatus"
      BY <1>2, <3>2 DEF CallFields
    <3>5. QED
      BY <3>3, <3>4 DEF Owes, OwingPCs
  <2>4. QED
    BY <2>1, <2>2, <2>3
<1>4. At(c, "idle") /\ UNCHANGED docs
  BY DEF StartMatch, StartRequestEdit, StartCancelTrip
<1>5. QED
  BY <1>3, <1>4, FreshIsQuiet

LEMMA StartIsQuiet ==
  ASSUME OneCall, AloneInv, NEW c \in CallIds, Start(c)
  PROVE  UNCHANGED L!vars
<1>1. ASSUME NEW b \in BookingIds, NEW a \in ResolutionArgs, StartResolve(c, b, a[1], a[2])
      PROVE  UNCHANGED L!vars
  BY <1>1, OnlyStripeCancels, EditIsQuiet DEF StartResolve
<1>2. ASSUME NEW i \in IntentIds, StartPay(c, i)
      PROVE  UNCHANGED L!vars
  BY <1>2, EditIsQuiet DEF StartPay
<1>3. ASSUME NEW u \in Users, NEW r \in Requests,
             \/ \E type \in OfferedTypes : StartUpdateRequest(c, u, r, type)
             \/ StartCancelRequest(c, u, r)
      PROVE  UNCHANGED L!vars
  BY <1>3, OtherStartsAreQuiet DEF StartUpdateRequest, StartCancelRequest
<1>4. ASSUME NEW r \in Requests, StartApprove(c, r) \/ StartReject(c, r)
      PROVE  UNCHANGED L!vars
  BY <1>4, OtherStartsAreQuiet DEF StartApprove, StartReject
<1>5. QED
  BY <1>1, <1>2, <1>3, <1>4, EditsAreQuiet, OtherStartsAreQuiet DEF Start

-----------------------------------------------------------------------------
(* Guards and edits are the same in both: both extend BookingDocs.           *)

LEMMA SameAgreement ==
  \A d, u, fee :
    /\ L!CanAccept(d, u) <=> CanAccept(d, u)
    /\ L!Accepted(d) = Accepted(d)
    /\ L!CanCounter(d, u) <=> CanCounter(d, u)
    /\ L!Countered(d, fee) = Countered(d, fee)
    /\ L!CanDecline(d, u) <=> CanDecline(d, u)
    /\ L!Declined(d) = Declined(d)
    /\ L!CanAcceptCounter(d, u) <=> CanAcceptCounter(d, u)
    /\ L!CounterAccepted(d) = CounterAccepted(d)
    /\ L!CanCancel(d, u) <=> CanCancel(d, u)
    /\ L!Cancelled(d, u) = Cancelled(d, u)
  BY DEF L!CanAccept, CanAccept, L!Accepted, Accepted, L!CanCounter, CanCounter,
     L!Countered, Countered, L!CanDecline, CanDecline, L!Declined, Declined,
     L!CanAcceptCounter, CanAcceptCounter, L!CounterAccepted, CounterAccepted,
     L!CanCancel, CanCancel, L!Cancelled, Cancelled, L!CancellableStatuses, CancellableStatuses,
     L!Parties, Parties, L!TravelerOf, TravelerOf, L!RequesterOf, RequesterOf,
     L!FeeOnAccept, FeeOnAccept, L!AcceptableStatuses, AcceptableStatuses,
     L!ApplyCommission, ApplyCommission, L!CommissionPct, CommissionPct

LEMMA SameTransport ==
  \A d, u :
    /\ L!CanMarkInTransit(d, u) <=> CanMarkInTransit(d, u)
    /\ L!InTransit(d) = InTransit(d)
    /\ L!CanSubmitProof(d, u) <=> CanSubmitProof(d, u)
    /\ L!Delivered(d) = Delivered(d)
    /\ L!CanComplete(d, u) <=> CanComplete(d, u)
    /\ L!Completed(d) = Completed(d)
    /\ L!CanDispute(d, u) <=> CanDispute(d, u)
    /\ L!Disputed(d, u) = Disputed(d, u)
  BY DEF L!CanMarkInTransit, CanMarkInTransit, L!InTransit, InTransit,
     L!CanSubmitProof, CanSubmitProof, L!Delivered, Delivered, L!CanComplete, CanComplete,
     L!Completed, Completed, L!CanDispute, CanDispute, L!Disputed, Disputed,
     L!DisputableStatuses, DisputableStatuses,
     L!Parties, Parties, L!TravelerOf, TravelerOf, L!RequesterOf, RequesterOf

LEMMA SamePaymentEdits ==
  /\ L!ResolutionArgs = ResolutionArgs
  /\ \A d, u, resolution, amount, pi, b, i, fee :
       /\ L!CanResolve(d) <=> CanResolve(d)
       /\ L!CallsStripe(d, resolution) <=> CallsStripe(d, resolution)
       /\ L!Resolved(d, resolution, amount) = Resolved(d, resolution, amount)
       /\ L!StripeAccepts(pi, amount) <=> StripeAccepts(pi, amount)
       /\ L!Refunded(pi, amount) = Refunded(pi, amount)
       /\ L!CanCreateIntent(d, u) <=> CanCreateIntent(d, u)
       /\ L!NewIntent(b, fee) = NewIntent(b, fee)
       /\ L!Succeeded(pi) = Succeeded(pi)
       /\ L!CanMarkPaid(d) <=> CanMarkPaid(d)
       /\ L!Paid(d, i) = Paid(d, i)
<1>1. L!RefundResolutions = RefundResolutions
  BY DEF L!RefundResolutions, RefundResolutions
<1>2. L!ResolutionArgs = ResolutionArgs
  BY <1>1 DEF L!ResolutionArgs, ResolutionArgs, L!Resolutions, Resolutions
<1>3. \A n : L!Cents(n) = Cents(n)
  BY DEF L!Cents, Cents
<1>4. \A pi, amount : L!RefundDue(pi, amount) = RefundDue(pi, amount)
  BY <1>3 DEF L!RefundDue, RefundDue
<1>5. \A pi, amount : /\ L!StripeAccepts(pi, amount) <=> StripeAccepts(pi, amount)
                      /\ L!Refunded(pi, amount) = Refunded(pi, amount)
  BY <1>4 DEF L!StripeAccepts, StripeAccepts, L!Refunded, Refunded
<1>6. \A d, resolution, amount :
        /\ L!CanResolve(d) <=> CanResolve(d)
        /\ L!CallsStripe(d, resolution) <=> CallsStripe(d, resolution)
        /\ L!Resolved(d, resolution, amount) = Resolved(d, resolution, amount)
  BY <1>1 DEF L!CanResolve, CanResolve, L!CallsStripe, CallsStripe, L!Resolved, Resolved
<1>7. \A d, u, b, fee, pi, i :
        /\ L!CanCreateIntent(d, u) <=> CanCreateIntent(d, u)
        /\ L!NewIntent(b, fee) = NewIntent(b, fee)
        /\ L!Succeeded(pi) = Succeeded(pi)
        /\ L!CanMarkPaid(d) <=> CanMarkPaid(d)
        /\ L!Paid(d, i) = Paid(d, i)
  BY <1>3 DEF L!CanCreateIntent, CanCreateIntent, L!RequesterOf, RequesterOf, L!NewIntent,
     NewIntent, L!Succeeded, Succeeded, L!CanMarkPaid, CanMarkPaid, L!Paid, Paid
<1>8. QED
  BY <1>2, <1>5, <1>6, <1>7

LEMMA SameRequestsAndTrips ==
  \A r, t, u, type, doc, n, fee, bs :
    /\ L!NewRequest(type) = NewRequest(type)
    /\ L!CanUpdateRequest(r, u, doc) <=> CanUpdateRequest(r, u, doc)
    /\ L!CanCancelRequest(r, u, doc) <=> CanCancelRequest(r, u, doc)
    /\ L!CanModerate(doc) <=> CanModerate(doc)
    /\ L!RejectedRequest(doc) = RejectedRequest(doc)
    /\ L!CanCancelTrip(t, u, doc) <=> CanCancelTrip(t, u, doc)
    /\ L!RequestMatchable(r, u, doc) <=> RequestMatchable(r, u, doc)
    /\ L!TripMatchable(doc) <=> TripMatchable(doc)
    /\ L!ExistingLink(bs, r, t) <=> ExistingLink(bs, r, t)
    /\ L!NewBooking(r, t, fee) = NewBooking(r, t, fee)
    /\ L!MatchedRequest(doc, t) = MatchedRequest(doc, t)
    /\ L!RevertedRequest(doc) = RevertedRequest(doc)
    /\ L!Decremented(n) = Decremented(n)
    /\ L!TripDone(bs, t) <=> TripDone(bs, t)
  BY DEF L!NewRequest, NewRequest, L!AbsentRequest, AbsentRequest,
     L!CanUpdateRequest, CanUpdateRequest, L!CanCancelRequest, CanCancelRequest,
     L!CanModerate, CanModerate, L!RejectedRequest, RejectedRequest,
     L!CanCancelTrip, CanCancelTrip, L!RequestMatchable, RequestMatchable,
     L!TripMatchable, TripMatchable, L!ExistingLink, ExistingLink,
     L!NewBooking, NewBooking, L!AbsentBooking, AbsentBooking,
     L!MatchedRequest, MatchedRequest, L!RevertedRequest, RevertedRequest,
     L!Decremented, Decremented, L!TripDone, TripDone

-----------------------------------------------------------------------------
(* booking.save(): the step of Lifecycle, seen with the writes it leaves due. *)

\* The save of o edited to e in the call g, with the writes it leaves due.
Saves(g, o, e) ==
  /\ g.b \in BookingIds /\ BookingsSettled[g.b] = o
  /\ BookingsSettled' = [BookingsSettled EXCEPT ![g.b] = e]
  /\ BookingsSettled' = bookings' /\ intents' = intents
  /\ e.requestId = o.requestId /\ e.tripId = o.tripId
  /\ g.op \notin DOMAIN RequestStatusAfter \cup RevertingOps =>
       RequestsSettled' = RequestsSettled
  /\ g.op \in DOMAIN RequestStatusAfter =>
       RequestsSettled' =
         [RequestsSettled EXCEPT ![o.requestId].status = RequestStatusAfter[g.op]]
  /\ g.op \notin {"complete"} \cup RevertingOps => TripsSettled' = TripsSettled
  /\ g.op = "complete" =>
       TripsSettled' = IF TripDone(bookings', o.tripId)
                       THEN [TripsSettled EXCEPT ![o.tripId].status = "completed"]
                       ELSE TripsSettled
  /\ g.op \in RevertingOps =>
       /\ RequestsSettled' = [RequestsSettled EXCEPT ![o.requestId] = RevertedRequest(@)]
       /\ TripsSettled' =
            [TripsSettled EXCEPT ![o.tripId].matchedRequestsCount = Decremented(@)]

LEMMA SaveSettles ==
  ASSUME OneCall, AloneInv, NEW c \in CallIds, SaveBooking(c), NEW g, g = calls[c],
         ~Owes(g), NEW o, o = g.old, NEW e, e = g.new
  PROVE  Saves(g, o, e)
<1>1. PICK d : d = calls'[c]
  OBVIOUS
<1>2. /\ g.b \in BookingIds /\ o = bookings[g.b] /\ bookings' = [bookings EXCEPT ![g.b] = e]
      /\ e.requestId = o.requestId /\ e.tripId = o.tripId
  BY SavedAsEdited
<1>3. g.pc = "save" /\ UNCHANGED <<requests, trips, intents>>
  BY DEF SaveBooking, At
<1>4. g.r = o.requestId /\ g.t = o.tripId
  BY <1>3, TheCallRuns DEF CallRuns
<1>5. RequestsSettled = requests /\ TripsSettled = trips /\ BookingsSettled = bookings
  BY SettledIsDue, NothingDue
<1>6. /\ RequestsSettled' = RequestsDue(requests, d)
      /\ TripsSettled' = TripsDue(trips, bookings', d)
      /\ BookingsSettled' = BookingsDue(bookings', d)
  BY <1>1, <1>3, SettledIsDue
<1>7. CASE g.op \notin DOMAIN RequestStatusAfter \cup RevertingOps
  <2>1. d = NoCall
    BY <1>1, <1>7, ReturnsTo DEF SaveBooking
  <2>2. RequestsSettled' = requests /\ TripsSettled' = trips /\ BookingsSettled' = bookings'
    BY <1>6, <2>1, NothingDue, NoCallOwesNothing
  <2>3. g.op # "complete"
    BY <1>7 DEF RequestStatusAfter
  <2>4. QED
    BY <1>2, <1>3, <1>5, <1>7, <2>2, <2>3 DEF Saves
<1>8. CASE g.op \in DOMAIN RequestStatusAfter \cup RevertingOps
  <2>1. d.pc = "request" /\ d.op = g.op /\ d.r = o.requestId /\ d.t = o.tripId
    BY <1>1, <1>4, <1>8, ProceedsTo DEF SaveBooking
  <2>2. BookingsSettled' = bookings'
    BY <1>6, <2>1 DEF BookingsDue
  <2>3. RequestsSettled' = [requests EXCEPT ![o.requestId] = RequestAfter(@, d)]
    BY <1>6, <2>1 DEF RequestsDue
  <2>4. CASE g.op \in DOMAIN RequestStatusAfter
    <3>1. g.op \notin RevertingOps /\ g.op # "match"
      BY <2>4 DEF RequestStatusAfter, RevertingOps
    <3>2. \A doc : RequestAfter(doc, d) = [doc EXCEPT !.status = RequestStatusAfter[g.op]]
      BY <2>1, <3>1 DEF RequestAfter
    <3>3. RequestsSettled' =
            [requests EXCEPT ![o.requestId].status = RequestStatusAfter[g.op]]
      BY <2>3, <3>2
    <3>4. CASE g.op = "complete"
      BY <1>2, <1>3, <1>5, <1>6, <2>1, <2>2, <2>4, <3>1, <3>3, <3>4 DEF TripsDue, Saves
    <3>5. CASE g.op # "complete"
      <4>1. TripsSettled' = trips
        BY <1>6, <2>1, <3>1, <3>5 DEF TripsDue
      <4>2. QED
        BY <1>2, <1>3, <1>5, <2>2, <2>4, <3>1, <3>3, <3>5, <4>1 DEF Saves
    <3>6. QED
      BY <3>4, <3>5
  <2>5. CASE g.op \in RevertingOps
    <3>1. g.op \notin DOMAIN RequestStatusAfter /\ g.op # "match" /\ g.op # "complete"
      BY <2>5 DEF RequestStatusAfter, RevertingOps
    <3>2. \A doc : RequestAfter(doc, d) = RevertedRequest(doc)
      BY <2>1, <2>5, <3>1 DEF RequestAfter
    <3>3. RequestsSettled' = [requests EXCEPT ![o.requestId] = RevertedRequest(@)]
      BY <2>3, <3>2
    <3>4. TripsSettled' = [trips EXCEPT ![o.tripId].matchedRequestsCount = Decremented(@)]
      BY <1>6, <2>1, <2>5, <3>1 DEF TripsDue
    <3>5. QED
      BY <1>2, <1>3, <1>5, <2>2, <2>5, <3>1, <3>3, <3>4 DEF Saves
  <2>6. QED
    BY <1>8, <2>4, <2>5
<1>9. QED
  BY <1>7, <1>8

-----------------------------------------------------------------------------
(* Each first write is the handler of Lifecycle.                             *)

\* The handlers on a booking, but payment and resolution.
LEMMA EditMaps ==
  ASSUME OneCall, AloneInv, NEW c \in CallIds, SaveBooking(c), NEW g, g = calls[c],
         g.user \in Users, EditOf(g)
  PROVE  L!Next
<1>1. PICK o, e, b, u : o = g.old /\ e = g.new /\ b = g.b /\ u = g.user
  OBVIOUS
<1>2. g.op # "resolve"
  BY DEF EditOf
<1>3. ~Owes(g)
  BY <1>2 DEF Owes, OwingPCs, SaveBooking, At
<1>saves. Saves(g, o, e)
  BY <1>1, <1>3, SaveSettles
<1>4. /\ b \in BookingIds /\ u \in Users /\ BookingsSettled[b] = o
      /\ BookingsSettled' = [BookingsSettled EXCEPT ![b] = e]
      /\ intents' = intents /\ e.requestId = o.requestId /\ e.tripId = o.tripId
  BY <1>saves, <1>1 DEF Saves
<1>5. CASE g.op \in {"accept", "acceptCounter", "inTransit", "proof"}
  <2>1. /\ RequestsSettled' =
             [RequestsSettled EXCEPT ![e.requestId].status = RequestStatusAfter[g.op]]
        /\ TripsSettled' = TripsSettled
    BY <1>saves, <1>4, <1>5 DEF Saves, RequestStatusAfter, RevertingOps
  <2>2. CASE g.op = "accept"
    <3>1. CanAccept(o, u) /\ e = Accepted(o)
      BY <1>1, <2>2 DEF EditOf
    <3>2. RequestsSettled' = [RequestsSettled EXCEPT ![e.requestId].status = "confirmed"]
      BY <2>1, <2>2 DEF RequestStatusAfter
    <3>3. L!AcceptBooking(u, b)
      BY <1>4, <2>1, <3>1, <3>2, SameAgreement DEF L!AcceptBooking, L!SaveAndSetRequest
    <3>4. QED
      BY <1>4, <3>3 DEF L!Next, L!BookingNext
  <2>3. CASE g.op = "acceptCounter"
    <3>1. CanAcceptCounter(o, u) /\ e = CounterAccepted(o)
      BY <1>1, <2>3 DEF EditOf
    <3>2. RequestsSettled' = [RequestsSettled EXCEPT ![e.requestId].status = "confirmed"]
      BY <2>1, <2>3 DEF RequestStatusAfter
    <3>3. L!AcceptCounter(u, b)
      BY <1>4, <2>1, <3>1, <3>2, SameAgreement DEF L!AcceptCounter, L!SaveAndSetRequest
    <3>4. QED
      BY <1>4, <3>3 DEF L!Next, L!BookingNext
  <2>4. CASE g.op = "inTransit"
    <3>1. CanMarkInTransit(o, u) /\ e = InTransit(o)
      BY <1>1, <2>4 DEF EditOf
    <3>2. RequestsSettled' = [RequestsSettled EXCEPT ![e.requestId].status = "in_transit"]
      BY <2>1, <2>4 DEF RequestStatusAfter
    <3>3. L!MarkInTransit(u, b)
      BY <1>4, <2>1, <3>1, <3>2, SameTransport DEF L!MarkInTransit, L!SaveAndSetRequest
    <3>4. QED
      BY <1>4, <3>3 DEF L!Next, L!BookingNext
  <2>5. CASE g.op = "proof"
    <3>1. CanSubmitProof(o, u) /\ e = Delivered(o)
      BY <1>1, <2>5 DEF EditOf
    <3>2. RequestsSettled' = [RequestsSettled EXCEPT ![e.requestId].status = "delivered"]
      BY <2>1, <2>5 DEF RequestStatusAfter
    <3>3. L!SubmitProofOfDelivery(u, b)
      BY <1>4, <2>1, <3>1, <3>2, SameTransport
         DEF L!SubmitProofOfDelivery, L!SaveAndSetRequest
    <3>4. QED
      BY <1>4, <3>3 DEF L!Next, L!BookingNext
  <2>6. QED
    BY <1>5, <2>2, <2>3, <2>4, <2>5
<1>6. CASE g.op = "complete"
  <2>1. /\ RequestsSettled' = [RequestsSettled EXCEPT ![e.requestId].status = "completed"]
        /\ BookingsSettled' = bookings'
        /\ TripsSettled' = IF TripDone(bookings', o.tripId)
                           THEN [TripsSettled EXCEPT ![o.tripId].status = "completed"]
                           ELSE TripsSettled
    <3>1. g.op \in DOMAIN RequestStatusAfter /\ RequestStatusAfter[g.op] = "completed"
      BY <1>6 DEF RequestStatusAfter
    <3>2. RequestsSettled' = [RequestsSettled EXCEPT ![e.requestId].status = "completed"]
      BY <1>saves, <1>4, <3>1 DEF Saves
    <3>3. QED
      BY <1>saves, <1>6, <3>2 DEF Saves
  <2>2. CanComplete(o, u) /\ e = Completed(o)
    BY <1>1, <1>6 DEF EditOf
  <2>3. TripDone(BookingsSettled', o.tripId) <=> L!TripDone(BookingsSettled', o.tripId)
    BY SameRequestsAndTrips
  <2>4. L!MaybeCompleteTrip(o.tripId)
    BY <2>1, <2>3 DEF L!MaybeCompleteTrip
  <2>5. L!CompleteBooking(u, b)
    BY <1>4, <2>1, <2>2, <2>4, SameTransport DEF L!CompleteBooking, L!SaveAndSetRequest
  <2>6. QED
    BY <1>4, <2>5 DEF L!Next, L!BookingNext
<1>7. CASE g.op \in {"counter", "dispute"}
  <2>1. RequestsSettled' = RequestsSettled /\ TripsSettled' = TripsSettled
    BY <1>saves, <1>7 DEF Saves, RequestStatusAfter, RevertingOps
  <2>2. CASE g.op = "counter"
    <3>1. PICK fee \in Fees : CanCounter(o, u) /\ e = Countered(o, fee)
      BY <1>1, <2>2 DEF EditOf
    <3>2. L!CounterOffer(u, b, fee)
      BY <1>4, <2>1, <3>1, SameAgreement DEF L!CounterOffer
    <3>3. QED
      BY <1>4, <3>2 DEF L!Next, L!BookingNext
  <2>3. CASE g.op = "dispute"
    <3>1. CanDispute(o, u) /\ e = Disputed(o, u)
      BY <1>1, <2>3 DEF EditOf
    <3>2. L!RaiseDispute(u, b)
      BY <1>4, <2>1, <3>1, SameTransport DEF L!RaiseDispute
    <3>3. QED
      BY <1>4, <3>2 DEF L!Next, L!BookingNext
  <2>4. QED
    BY <1>7, <2>2, <2>3
<1>8. CASE g.op \in {"decline", "cancel"}
  <2>1. /\ RequestsSettled' = [RequestsSettled EXCEPT ![o.requestId] = RevertedRequest(@)]
        /\ TripsSettled' =
             [TripsSettled EXCEPT ![o.tripId].matchedRequestsCount = Decremented(@)]
    BY <1>saves, <1>8 DEF Saves, RevertingOps
  <2>2. L!RevertMatch(o.requestId, o.tripId)
    BY <2>1, SameRequestsAndTrips DEF L!RevertMatch
  <2>3. CASE g.op = "decline"
    <3>1. CanDecline(o, u) /\ e = Declined(o)
      BY <1>1, <2>3 DEF EditOf
    <3>2. L!DeclineBooking(u, b)
      BY <1>4, <2>2, <3>1, SameAgreement DEF L!DeclineBooking
    <3>3. QED
      BY <1>4, <3>2 DEF L!Next, L!BookingNext
  <2>4. CASE g.op = "cancel"
    <3>1. CanCancel(o, u) /\ e = Cancelled(o, u)
      BY <1>1, <2>4 DEF EditOf
    <3>2. L!CancelBooking(u, b)
      BY <1>4, <2>2, <3>1, SameAgreement DEF L!CancelBooking
    <3>3. QED
      BY <1>4, <3>2 DEF L!Next, L!BookingNext
  <2>5. QED
    BY <1>8, <2>3, <2>4
<1>9. QED
  BY <1>5, <1>6, <1>7, <1>8 DEF EditOf

\* The payment a webhook or the client reports.
LEMMA PaymentMaps ==
  ASSUME OneCall, AloneInv, NEW c \in CallIds, SaveBooking(c), NEW g, g = calls[c],
         g.op = "pay", PaymentOf(g)
  PROVE  L!Next
<1>1. PICK o, e, b, i : o = g.old /\ e = g.new /\ b = g.b /\ i = g.arg
  OBVIOUS
<1>2. ~Owes(g)
  BY DEF Owes, OwingPCs, SaveBooking, At
<1>saves. Saves(g, o, e)
  BY <1>1, <1>2, SaveSettles
<1>3. /\ BookingsSettled[b] = o /\ BookingsSettled' = [BookingsSettled EXCEPT ![b] = e]
      /\ intents' = intents
      /\ RequestsSettled' = RequestsSettled /\ TripsSettled' = TripsSettled
  BY <1>saves, <1>1 DEF Saves, RequestStatusAfter, RevertingOps
<1>4. CanMarkPaid(o) /\ Backed(b, i) /\ e = Paid(o, i)
  BY <1>1 DEF PaymentOf
<1>5. i \in IntentIds /\ intents[i].status = "succeeded" /\ intents[i].bookingId = b
  BY <1>4 DEF Backed
<1>6. L!HandleWebhook(i)
  BY <1>3, <1>4, <1>5, SamePaymentEdits DEF L!HandleWebhook, L!MarkAsPaid
<1>7. QED
  BY <1>5, <1>6 DEF L!Next, L!PaymentNext

\* A resolution that does not refund takes effect when it is saved.
LEMMA ReleaseMaps ==
  ASSUME OneCall, AloneInv, NEW c \in CallIds, SaveBooking(c), NEW g, g = calls[c],
         g.op = "resolve", ReleaseOf(g)
  PROVE  L!Next
<1>1. PICK o, e, b : o = g.old /\ e = g.new /\ b = g.b
  OBVIOUS
<1>2. PICK a \in ResolutionArgs :
        /\ CanResolve(o) /\ ~CallsStripe(o, a[1])
        /\ e = Resolved(o, a[1], a[2]) /\ e.status # "cancelled"
  BY <1>1 DEF ReleaseOf
<1>3. ~Owes(g)
  BY <1>1, <1>2 DEF Owes, OwingPCs, SaveBooking, At
<1>saves. Saves(g, o, e)
  BY <1>1, <1>3, SaveSettles
<1>4. /\ b \in BookingIds /\ BookingsSettled[b] = o
      /\ BookingsSettled' = [BookingsSettled EXCEPT ![b] = e]
      /\ intents' = intents
      /\ RequestsSettled' = RequestsSettled /\ TripsSettled' = TripsSettled
  BY <1>saves, <1>1 DEF Saves, RequestStatusAfter, RevertingOps
<1>5. L!ResolveDispute(b, a[1], a[2])
  BY <1>2, <1>4, SamePaymentEdits DEF L!ResolveDispute
<1>6. QED
  BY <1>4, <1>5, SamePaymentEdits DEF L!Next, L!ResolveNext

\* The save of a refund was seen when Stripe refunded.
LEMMA RefundIsSaved ==
  ASSUME OneCall, AloneInv, NEW c \in CallIds, SaveBooking(c), NEW g, g = calls[c],
         g.op = "resolve", RefundOf(g)
  PROVE  UNCHANGED L!vars
<1>1. PICK d : d = calls'[c]
  OBVIOUS
<1>2. g.new.status = "cancelled"
  <2>1. PICK o, e : o = g.old /\ e = g.new
    OBVIOUS
  <2>2. PICK a \in ResolutionArgs : CallsStripe(o, a[1]) /\ e = Resolved(o, a[1], a[2])
    BY <2>1 DEF RefundOf
  <2>3. o \in Booking
    BY <2>1, SavedAsEdited
  <2>4. QED
    BY <2>1, <2>2, <2>3 DEF CallsStripe, Resolved, Booking
<1>3. g.pc = "save" /\ UNCHANGED <<requests, trips, intents>>
  BY DEF SaveBooking, At
<1>4. bookings' = [bookings EXCEPT ![g.b] = Merge(@, g.old, g.new)]
  BY DEF SaveBooking
<1>5. d = NoCall
  BY <1>1, ReturnsTo DEF SaveBooking, RequestStatusAfter, RevertingOps
<1>6. /\ RequestsDue(requests, g) = requests /\ TripsDue(trips, bookings, g) = trips
      /\ BookingsDue(bookings, g) = bookings'
  BY <1>2, <1>3, <1>4 DEF RequestsDue, TripsDue, BookingsDue, RevertingOps
<1>7. QED
  <2>1. /\ RequestsSettled = requests /\ TripsSettled = trips /\ BookingsSettled = bookings'
    BY <1>6, SettledIsDue
  <2>2. /\ RequestsSettled' = RequestsDue(requests', d)
        /\ TripsSettled' = TripsDue(trips', bookings', d)
        /\ BookingsSettled' = BookingsDue(bookings', d)
    BY <1>1, SettledIsDue
  <2>3. RequestsSettled' = requests' /\ TripsSettled' = trips' /\ BookingsSettled' = bookings'
    BY <1>5, <2>2, NothingDue, NoCallOwesNothing
  <2>4. QED
    BY <1>3, <2>1, <2>3, Stutters

LEMMA SaveMaps ==
  ASSUME OneCall, AloneInv, NEW c \in CallIds, SaveBooking(c)
  PROVE  L!Next \/ UNCHANGED L!vars
<1>1. calls[c].pc = "save"
  BY DEF SaveBooking, At
<1>2. QED
  BY <1>1, TheCallRuns, EditMaps, PaymentMaps, ReleaseMaps, RefundIsSaved DEF CallRuns

-----------------------------------------------------------------------------
(* The other steps of a call.                                                *)

\* createMatch is seen at its insert.
LEMMA InsertMaps ==
  ASSUME OneCall, AloneInv, NEW c \in CallIds, NEW b \in BookingIds, InsertBooking(c, b)
  PROVE  L!Next
<1>1. PICK g, d : g = calls[c] /\ d = calls'[c]
  OBVIOUS
<1>2. PICK r, t, u, fee : r = g.r /\ t = g.t /\ u = g.user /\ fee = g.arg
  OBVIOUS
<1>3. /\ g.pc = "insert" /\ bookings[b].status = "absent"
      /\ bookings' = [bookings EXCEPT ![b] = NewBooking(r, t, fee)]
      /\ UNCHANGED <<requests, trips, intents>>
  BY <1>1, <1>2 DEF InsertBooking, At
<1>4. /\ g.op = "match" /\ u \in Users /\ r \in Requests /\ t \in Trips /\ fee \in Fees
      /\ RequestMatchable(r, u, requests[r]) /\ TripMatchable(trips[t])
  BY <1>1, <1>2, <1>3, TheCallRuns DEF CallRuns
<1>5. ~ExistingLink(bookings, r, t)
  BY <1>1, <1>2, <1>3 DEF AloneInv, OneCallInv, CallsCurrent, CurrentCall
<1>6. d.pc = "request" /\ d.op = "match" /\ d.r = r /\ d.t = t
  BY <1>1, <1>2, <1>4, ProceedsTo DEF InsertBooking
<1>7. ~Owes(g)
  BY <1>3 DEF Owes, OwingPCs
<1>8. RequestsSettled = requests /\ TripsSettled = trips /\ BookingsSettled = bookings
  BY <1>1, <1>7, SettledIsDue, NothingDue
<1>9. /\ RequestsSettled' = RequestsDue(requests', d)
      /\ TripsSettled' = TripsDue(trips', bookings', d)
      /\ BookingsSettled' = BookingsDue(bookings', d)
  BY <1>1, SettledIsDue
<1>10. \A doc : RequestAfter(doc, d) = MatchedRequest(doc, t)
  BY <1>6 DEF RequestAfter, RevertingOps
<1>11. RequestsSettled' = [RequestsSettled EXCEPT ![r] = MatchedRequest(@, t)]
  BY <1>3, <1>6, <1>8, <1>9, <1>10 DEF RequestsDue
<1>12. TripsSettled' = [TripsSettled EXCEPT ![t].matchedRequestsCount = @ + 1]
  BY <1>3, <1>6, <1>8, <1>9 DEF TripsDue, RevertingOps
<1>13. BookingsSettled' = [BookingsSettled EXCEPT ![b] = NewBooking(r, t, fee)]
  BY <1>3, <1>6, <1>8, <1>9 DEF BookingsDue
<1>14. L!CreateMatch(u, b, r, t, fee)
  BY <1>3, <1>4, <1>5, <1>8, <1>11, <1>12, <1>13, SameRequestsAndTrips DEF L!CreateMatch
<1>15. QED
  BY <1>4, <1>14 DEF L!Next, L!BookingNext

LEMMA QueriesAreQuiet ==
  ASSUME OneCall, AloneInv, NEW c \in CallIds, ReadTrip(c) \/ CheckLink(c)
  PROVE  UNCHANGED L!vars
<1>1. PICK g, d : g = calls[c] /\ d = calls'[c]
  OBVIOUS
<1>2. g.pc \in {"readTrip", "checkLink"} /\ UNCHANGED docs
  BY <1>1 DEF ReadTrip, CheckLink, At
<1>3. d = NoCall \/ d.pc \in {"checkLink", "insert"}
  BY <1>1, ReturnsTo, GoesTo DEF ReadTrip, CheckLink
<1>4. ~Owes(g) /\ ~Owes(d)
  BY <1>2, <1>3, NoCallOwesNothing DEF Owes, OwingPCs
<1>5. QED
  BY <1>1, <1>2, <1>4, QuietStep

LEMMA IntentMaps ==
  ASSUME OneCall, AloneInv, NEW c \in CallIds, NEW i \in IntentIds, CreateIntent(c, i)
  PROVE  L!Next
<1>1. PICK g, d : g = calls[c] /\ d = calls'[c]
  OBVIOUS
<1>2. PICK b, u : b = g.b /\ u = g.user
  OBVIOUS
<1>3. /\ g.pc = "stripe" /\ intents[i].status = "absent"
      /\ intents' = [intents EXCEPT ![i] = NewIntent(b, g.old.agreedFee)]
      /\ UNCHANGED <<requests, trips, bookings>>
  BY <1>1, <1>2 DEF CreateIntent, At
<1>4. u \in Users /\ CanCreateIntent(g.old, u)
  BY <1>1, <1>2, <1>3, TheCallRuns DEF CallRuns
<1>5. b \in BookingIds /\ g.old = bookings[b]
  BY <1>1, <1>2, <1>3 DEF AloneInv, OneCallInv, HandlersInv, CallsOK, CallOK, Holds,
     CallsCurrent, CurrentCall
<1>6. d = NoCall
  BY <1>1, ReturnsTo DEF CreateIntent
<1>7. ~Owes(g) /\ ~Owes(d)
  BY <1>3, <1>6, NoCallOwesNothing DEF Owes, OwingPCs
<1>8. RequestsSettled = requests /\ TripsSettled = trips /\ BookingsSettled = bookings
  BY <1>1, <1>7, SettledIsDue, NothingDue
<1>9. /\ RequestsSettled' = requests' /\ TripsSettled' = trips'
      /\ BookingsSettled' = bookings'
  BY <1>1, <1>7, SettledIsDue, NothingDue
<1>10. L!CreateIntent(u, b, i)
  BY <1>3, <1>4, <1>5, <1>8, <1>9, SamePaymentEdits DEF L!CreateIntent
<1>11. QED
  BY <1>4, <1>5, <1>10 DEF L!Next, L!PaymentNext

\* A resolution that refunds is seen when Stripe accepts the refund.
LEMMA StripeMaps ==
  ASSUME OneCall, AloneInv, NEW c \in CallIds, CallStripe(c)
  PROVE  L!Next \/ UNCHANGED L!vars
<1>1. PICK g, d : g = calls[c] /\ d = calls'[c]
  OBVIOUS
<1>2. PICK o, e, b, i : o = g.old /\ e = g.new /\ b = g.b /\ i = o.paymentIntentId
  OBVIOUS
<1>3. g.pc = "refund" /\ UNCHANGED <<requests, trips, bookings>>
  BY <1>1 DEF CallStripe, At
<1>4. ~Owes(g)
  BY <1>3 DEF Owes, OwingPCs
<1>5. RequestsSettled = requests /\ TripsSettled = trips /\ BookingsSettled = bookings
  BY <1>1, <1>4, SettledIsDue, NothingDue
<1>6. /\ RequestsSettled' = RequestsDue(requests', d)
      /\ TripsSettled' = TripsDue(trips', bookings', d)
      /\ BookingsSettled' = BookingsDue(bookings', d)
  BY <1>1, SettledIsDue
<1>7. CASE StripeAccepts(intents[i], g.arg)
  <2>1. g.op = "resolve" /\ RefundOf(g)
    BY <1>1, <1>3, TheCallRuns DEF CallRuns
  <2>2. PICK a \in ResolutionArgs :
          /\ CanResolve(o) /\ CallsStripe(o, a[1]) /\ g.arg = a[2]
          /\ e = Resolved(o, a[1], a[2])
    BY <1>2, <2>1 DEF RefundOf
  <2>3. b \in BookingIds /\ o = bookings[b] /\ o \in Booking /\ e \in Booking
    BY <1>1, <1>2, <1>3 DEF AloneInv, OneCallInv, HandlersInv, CallsOK, CallOK, Holds, Sound,
       CallsCurrent, CurrentCall
  <2>4. e.status = "cancelled"
    BY <2>2, <2>3 DEF CallsStripe, Resolved, Booking
  <2>5. intents' = [intents EXCEPT ![i] = Refunded(@, a[2])] /\ Goto(c, "save")
    BY <1>1, <1>2, <1>7, <2>2 DEF CallStripe
  <2>6. d.pc = "save" /\ d.op = "resolve" /\ d.b = b /\ d.old = o /\ d.new = e
    BY <1>1, <1>2, <2>1, <2>5, GoesTo
  <2>7. Merge(o, o, e) = e
    BY <2>3, MergeCurrent
  <2>8. BookingsSettled' = [BookingsSettled EXCEPT ![b] = e]
    BY <1>3, <1>5, <1>6, <2>3, <2>4, <2>6, <2>7 DEF BookingsDue
  <2>9. RequestsSettled' = RequestsSettled /\ TripsSettled' = TripsSettled
    BY <1>3, <1>5, <1>6, <2>6 DEF RequestsDue, TripsDue, RevertingOps
  <2>10. BookingsSettled[b] = o /\ StripeAccepts(intents[o.paymentIntentId], a[2])
    BY <1>2, <1>5, <1>7, <2>2, <2>3
  <2>11. intents' = [intents EXCEPT ![o.paymentIntentId] =
                       Refunded(intents[o.paymentIntentId], a[2])]
    BY <1>2, <2>5
  <2>12. L!ResolveDispute(b, a[1], a[2])
    BY <2>2, <2>8, <2>9, <2>10, <2>11, SamePaymentEdits DEF L!ResolveDispute
  <2>13. QED
    BY <2>3, <2>12, SamePaymentEdits DEF L!Next, L!ResolveNext
<1>8. CASE ~StripeAccepts(intents[i], g.arg)
  <2>1. Return(c) /\ UNCHANGED intents
    BY <1>1, <1>2, <1>8 DEF CallStripe
  <2>2. d = NoCall
    BY <1>1, <2>1, ReturnsTo
  <2>3. QED
    BY <1>1, <1>3, <1>4, <2>1, <2>2, NoCallOwesNothing, QuietStep DEF docs
<1>9. QED
  BY <1>7, <1>8

-----------------------------------------------------------------------------
(* Later writes of a call were seen at its first. *)

LEMMA LaterWritesAreQuiet ==
  ASSUME OneCall, AloneInv, NEW c \in CallIds, NEW g, g = calls[c], NEW d, d = calls'[c],
         RequestsDue(requests', d) = RequestsDue(requests, g),
         TripsDue(trips', bookings', d) = TripsDue(trips, bookings, g),
         BookingsDue(bookings', d) = BookingsDue(bookings, g),
         intents' = intents
  PROVE  UNCHANGED L!vars
  BY SettledIsDue, Stutters

LEMMA WriteRequestIsQuiet ==
  ASSUME OneCall, AloneInv, NEW c \in CallIds, WriteRequest(c)
  PROVE  UNCHANGED L!vars
<1>1. PICK g, d : g = calls[c] /\ d = calls'[c]
  OBVIOUS
<1>2. /\ g.pc = "request" /\ UNCHANGED <<trips, bookings, intents>>
      /\ requests' = [requests EXCEPT ![g.r] = RequestAfter(@, g)]
  BY <1>1 DEF WriteRequest, At
<1>3. /\ g.op \in {"match"} \cup RevertingOps \cup DOMAIN RequestStatusAfter
      /\ \/ g.op = "match" /\ d.op = g.op /\ d.t = g.t /\ d.pc = "incTrip"
         \/ g.op \in RevertingOps /\ d.op = g.op /\ d.t = g.t /\ d.pc = "findTrip"
         \/ g.op = "complete" /\ d.op = g.op /\ d.t = g.t /\ d.pc = "findBookings"
         \/ g.op \notin {"match", "complete"} \cup RevertingOps /\ d = NoCall
  <2>1. \/ g.op = "match" /\ Goto(c, "incTrip")
        \/ g.op \in RevertingOps /\ Goto(c, "findTrip")
        \/ g.op = "complete" /\ Goto(c, "findBookings")
        \/ g.op \notin {"match", "complete"} \cup RevertingOps /\ Return(c)
    BY <1>1 DEF WriteRequest
  <2>2. g.op \in {"match"} \cup RevertingOps \cup DOMAIN RequestStatusAfter
    BY <1>1, <1>2, TheCallRuns DEF CallRuns
  <2>3. QED
    BY <1>1, <2>1, <2>2, GoesTo, ReturnsTo
<1>4. d.pc # "request" /\ d.pc # "save" /\ g.pc # "save"
  BY <1>2, <1>3 DEF NoCall
<1>5. /\ RequestsDue(requests', d) = RequestsDue(requests, g)
      /\ BookingsDue(bookings', d) = BookingsDue(bookings, g)
  BY <1>2, <1>4 DEF RequestsDue, BookingsDue
<1>6. TripsDue(trips', bookings', d) = TripsDue(trips, bookings, g)
  <2>1. CASE g.op = "match"
    BY <1>2, <1>3, <2>1 DEF TripsDue, RevertingOps
  <2>2. CASE g.op \in RevertingOps
    BY <1>2, <1>3, <2>2 DEF TripsDue, RevertingOps
  <2>3. CASE g.op = "complete"
    BY <1>2, <1>3, <2>3 DEF TripsDue, RevertingOps
  <2>4. CASE g.op \notin {"match", "complete"} \cup RevertingOps
    <3>1. TripsDue(trips', bookings', d) = trips'
      BY <1>3, <2>4, NoCallOwesNothing, NothingDue
    <3>2. TripsDue(trips, bookings, g) = trips
      BY <2>4 DEF TripsDue
    <3>3. QED
      BY <1>2, <3>1, <3>2
  <2>5. QED
    BY <2>1, <2>2, <2>3, <2>4
<1>7. QED
  BY <1>1, <1>2, <1>5, <1>6, LaterWritesAreQuiet

LEMMA TripTailIsQuiet ==
  ASSUME OneCall, AloneInv, NEW c \in CallIds,
         IncTrip(c) \/ FindTrip(c) \/ SaveTrip(c) \/ FindBookings(c) \/ CloseTrip(c)
  PROVE  UNCHANGED L!vars
<1>1. PICK g, d : g = calls[c] /\ d = calls'[c]
  OBVIOUS
<1>2. CallRuns(g)
  BY <1>1, TheCallRuns
<1>3. /\ UNCHANGED <<requests, bookings, intents>>
      /\ g.pc \in {"incTrip", "findTrip", "saveTrip", "findBookings", "closeTrip"}
  BY <1>1 DEF IncTrip, FindTrip, SaveTrip, FindBookings, CloseTrip, At, docs
<1>4. g.t \in Trips /\ trips \in [Trips -> Trip]
  BY <1>2, <1>3 DEF CallRuns, Exists, AloneInv, CollectionsOK
<1>5. /\ d.pc # "request" /\ d.pc # "save"
      /\ TripsDue(trips', bookings', d) = TripsDue(trips, bookings, g)
  <2>1. ASSUME d = NoCall, trips' = TripsDue(trips, bookings, g)
        PROVE  /\ d.pc # "request" /\ d.pc # "save"
               /\ TripsDue(trips', bookings', d) = TripsDue(trips, bookings, g)
    BY <2>1, NoCallOwesNothing, NothingDue DEF NoCall
  <2>2. CASE IncTrip(c)
    <3>1. d = NoCall
      BY <1>1, <2>2, ReturnsTo DEF IncTrip
    <3>2. g.op = "match" /\ g.pc = "incTrip"
      BY <1>1, <1>2, <2>2 DEF IncTrip, At, CallRuns
    <3>3. trips' = TripsDue(trips, bookings, g)
      BY <1>1, <2>2, <3>2 DEF IncTrip, TripsDue, RevertingOps
    <3>4. QED
      BY <2>1, <3>1, <3>3
  <2>3. CASE FindTrip(c)
    <3>1. g.op \in RevertingOps /\ g.pc = "findTrip" /\ trips' = trips
      BY <1>1, <1>2, <2>3 DEF FindTrip, At, CallRuns, docs
    <3>2. d.pc = "saveTrip" /\ d.op = g.op /\ d.t = g.t
      <4>1. PICK o, n : o = trips[g.t]
                        /\ n = [o EXCEPT !.matchedRequestsCount = Decremented(@)]
        OBVIOUS
      <4>2. d = [g EXCEPT !.pc = "saveTrip", !.old = o, !.new = n]
        BY <1>1, <2>3, <4>1 DEF FindTrip, AloneInv, OneCallInv, HandlersInv, CallsOK
      <4>3. DOMAIN g = CallFields
        BY <1>1 DEF AloneInv, OneCallInv, HandlersInv, CallsOK, CallOK, CallFields
      <4>4. QED
        BY <4>2, <4>3 DEF CallFields
    <3>3. QED
      BY <3>1, <3>2 DEF TripsDue, RevertingOps
  <2>4. CASE SaveTrip(c)
    <3>1. d = NoCall
      BY <1>1, <2>4, ReturnsTo DEF SaveTrip
    <3>2. PICK o, n : o = g.old /\ n = g.new
      OBVIOUS
    <3>3. /\ g.op \in RevertingOps /\ g.pc = "saveTrip" /\ o = trips[g.t]
          /\ n = [o EXCEPT !.matchedRequestsCount = Decremented(@)]
      BY <1>1, <1>2, <2>4, <3>2 DEF SaveTrip, At, CallRuns
    <3>4. o \in Trip /\ n \in Trip
      BY <1>4, <3>3, TripTypes
    <3>5. trips' = [trips EXCEPT ![g.t] = n]
      BY <1>1, <2>4, <3>2, <3>3, <3>4, MergeCurrent DEF SaveTrip
    <3>6. trips' = TripsDue(trips, bookings, g)
      BY <3>3, <3>5 DEF TripsDue, RevertingOps
    <3>7. QED
      BY <2>1, <3>1, <3>6
  <2>5. CASE FindBookings(c)
    <3>1. g.op = "complete" /\ g.pc = "findBookings" /\ trips' = trips
      BY <1>1, <1>2, <2>5 DEF FindBookings, At, CallRuns, docs
    <3>2. CASE TripDone(bookings, g.t)
      <4>1. d.pc = "closeTrip" /\ d.op = g.op /\ d.t = g.t
        BY <1>1, <2>5, <3>2, GoesTo DEF FindBookings
      <4>2. QED
        BY <1>3, <3>1, <4>1 DEF TripsDue, RevertingOps
    <3>3. CASE ~TripDone(bookings, g.t)
      <4>1. d = NoCall
        BY <1>1, <2>5, <3>3, ReturnsTo DEF FindBookings
      <4>2. trips' = TripsDue(trips, bookings, g)
        BY <3>1, <3>3 DEF TripsDue, RevertingOps
      <4>3. QED
        BY <2>1, <4>1, <4>2
    <3>4. QED
      BY <3>2, <3>3
  <2>6. CASE CloseTrip(c)
    <3>1. d = NoCall
      BY <1>1, <2>6, ReturnsTo DEF CloseTrip
    <3>2. g.op = "complete" /\ g.pc = "closeTrip" /\ TripDone(bookings, g.t)
      BY <1>1, <1>2, <2>6 DEF CloseTrip, At, CallRuns
    <3>3. trips' = TripsDue(trips, bookings, g)
      BY <1>1, <2>6, <3>2 DEF CloseTrip, TripsDue, RevertingOps
    <3>4. QED
      BY <2>1, <3>1, <3>3
  <2>7. QED
    BY <2>2, <2>3, <2>4, <2>5, <2>6
<1>6. /\ RequestsDue(requests', d) = RequestsDue(requests, g)
      /\ BookingsDue(bookings', d) = BookingsDue(bookings, g)
  BY <1>3, <1>5 DEF RequestsDue, BookingsDue
<1>7. QED
  BY <1>1, <1>3, <1>5, <1>6, LaterWritesAreQuiet

\* requests.service.ts and the moderation write once.
LEMMA SaveRequestMaps ==
  ASSUME OneCall, AloneInv, NEW c \in CallIds, SaveRequest(c)
  PROVE  L!Next
<1>1. PICK g, d : g = calls[c] /\ d = calls'[c]
  OBVIOUS
<1>2. PICK r, u, o, e : r = g.r /\ u = g.user /\ o = g.old /\ e = g.new
  OBVIOUS
<1>3. /\ r \in Requests /\ o = requests[r] /\ requests' = [requests EXCEPT ![r] = e]
      /\ RequestEditOf(g)
  BY <1>1, <1>2, SavedRequest
<1>4. d = NoCall
  BY <1>1, ReturnsTo DEF SaveRequest
<1>5. ~Owes(g) /\ ~Owes(d)
  BY <1>1, <1>4, NoCallOwesNothing DEF SaveRequest, At, Owes, OwingPCs
<1>6. /\ RequestsSettled = requests /\ TripsSettled = trips /\ BookingsSettled = bookings
      /\ RequestsSettled' = requests' /\ TripsSettled' = trips'
      /\ BookingsSettled' = bookings'
  BY <1>1, <1>5, SettledIsDue, NothingDue
<1>7. /\ RequestsSettled[r] = o /\ RequestsSettled' = [RequestsSettled EXCEPT ![r] = e]
      /\ TripsSettled' = TripsSettled /\ BookingsSettled' = BookingsSettled
      /\ intents' = intents
  BY <1>3, <1>6 DEF SaveRequest
<1>8. CASE u \in Users /\ CanUpdateRequest(r, u, o)
           /\ \E type \in OfferedTypes : e = [o EXCEPT !.type = type]
  <2>1. PICK type \in OfferedTypes : e = [o EXCEPT !.type = type]
    BY <1>8
  <2>2. L!UpdateRequest(u, r, type)
    BY <1>7, <1>8, <2>1, SameRequestsAndTrips DEF L!UpdateRequest
  <2>3. QED
    BY <1>3, <1>8, <2>2 DEF L!Next, L!RequestNext
<1>9. CASE u \in Users /\ CanCancelRequest(r, u, o) /\ e = [o EXCEPT !.status = "cancelled"]
  <2>1. L!CancelRequest(u, r)
    BY <1>7, <1>9, SameRequestsAndTrips DEF L!CancelRequest
  <2>2. QED
    BY <1>3, <1>9, <2>1 DEF L!Next, L!RequestNext
<1>10. CASE CanModerate(o) /\ e = [o EXCEPT !.adminApprovalStatus = "approved"]
  <2>1. L!ApproveSupportRequest(r)
    BY <1>7, <1>10, SameRequestsAndTrips DEF L!ApproveSupportRequest
  <2>2. QED
    BY <1>3, <2>1 DEF L!Next, L!RequestNext
<1>11. CASE CanModerate(o) /\ e = RejectedRequest(o)
  <2>1. L!RejectSupportRequest(r)
    BY <1>7, <1>11, SameRequestsAndTrips DEF L!RejectSupportRequest
  <2>2. QED
    BY <1>3, <2>1 DEF L!Next, L!RequestNext
<1>12. QED
  BY <1>2, <1>3, <1>8, <1>9, <1>10, <1>11 DEF RequestEditOf

LEMMA SaveTripStatusMaps ==
  ASSUME OneCall, AloneInv, NEW c \in CallIds, SaveTripStatus(c)
  PROVE  L!Next
<1>1. PICK g, d : g = calls[c] /\ d = calls'[c]
  OBVIOUS
<1>2. PICK t, u, o, e : t = g.t /\ u = g.user /\ o = g.old /\ e = g.new
  OBVIOUS
<1>3. /\ u \in Users /\ t \in Trips /\ o = trips[t] /\ CanCancelTrip(t, u, o)
      /\ e = [o EXCEPT !.status = "cancelled"]
  BY <1>1, <1>2, TheCallRuns DEF SaveTripStatus, At, CallRuns
<1>4. o \in Trip /\ e \in Trip
  BY <1>3, TripTypes DEF AloneInv, CollectionsOK, TripStatuses
<1>5. trips' = [trips EXCEPT ![t] = e]
  BY <1>1, <1>2, <1>3, <1>4, MergeCurrent DEF SaveTripStatus
<1>6. d = NoCall
  BY <1>1, ReturnsTo DEF SaveTripStatus
<1>7. ~Owes(g) /\ ~Owes(d)
  BY <1>1, <1>6, NoCallOwesNothing DEF SaveTripStatus, At, Owes, OwingPCs
<1>8. /\ RequestsSettled = requests /\ TripsSettled = trips /\ BookingsSettled = bookings
      /\ RequestsSettled' = requests' /\ TripsSettled' = trips'
      /\ BookingsSettled' = bookings'
  BY <1>1, <1>7, SettledIsDue, NothingDue
<1>9. /\ TripsSettled[t] = o /\ TripsSettled' = [TripsSettled EXCEPT ![t] = e]
      /\ RequestsSettled' = RequestsSettled /\ BookingsSettled' = BookingsSettled
      /\ intents' = intents
  BY <1>3, <1>5, <1>8 DEF SaveTripStatus
<1>10. L!CancelTrip(u, t)
  BY <1>3, <1>9, SameRequestsAndTrips DEF L!CancelTrip
<1>11. QED
  BY <1>3, <1>10 DEF L!Next, L!TripNext

-----------------------------------------------------------------------------
(* What comes to be beside the call.                                         *)

LEMMA CreateRequestMaps ==
  ASSUME OneCall, AloneInv, NEW c \in CallIds, NEW r \in Requests, NEW type \in OfferedTypes,
         CreateRequest(r, type)
  PROVE  L!Next
<1>1. PICK g, e : g = calls[c] /\ e = NewRequest(type)
  OBVIOUS
<1>2. /\ requests[r].status = "absent" /\ requests' = [requests EXCEPT ![r] = e]
      /\ UNCHANGED <<trips, bookings, intents, calls>>
  BY <1>1 DEF CreateRequest
<1>3. g = calls'[c]
  BY <1>1, <1>2
<1>4. /\ RequestsSettled = RequestsDue(requests, g)
      /\ RequestsSettled' = RequestsDue(requests', g)
      /\ TripsSettled' = TripsSettled /\ BookingsSettled' = BookingsSettled
  BY <1>1, <1>2, <1>3, SettledIsDue
<1>5. /\ RequestsDue(requests, g)[r] = requests[r]
      /\ RequestsDue(requests', g) = [RequestsDue(requests, g) EXCEPT ![r] = e]
  <2>1. CASE g.pc = "request"
    <3>1. g.r \in Requests /\ g.r # r
      BY <1>1, <1>2, <2>1, TheCallRuns DEF CallRuns, Exists
    <3>2. requests \in [Requests -> Request]
      BY DEF AloneInv, CollectionsOK
    <3>3. PICK v : v = RequestAfter(requests[g.r], g)
      OBVIOUS
    <3>4. RequestsDue(requests, g) = [requests EXCEPT ![g.r] = v]
      BY <2>1, <3>3 DEF RequestsDue
    <3>5. requests'[g.r] = requests[g.r]
      BY <1>2, <3>1, <3>2
    <3>6. RequestsDue(requests', g) = [requests' EXCEPT ![g.r] = v]
      BY <2>1, <3>3, <3>5 DEF RequestsDue
    <3>7. QED
      BY <1>2, <3>1, <3>2, <3>4, <3>6
  <2>2. CASE g.pc # "request"
    BY <1>2, <2>2 DEF RequestsDue
  <2>3. QED
    BY <2>1, <2>2
<1>6. L!CreateRequest(r, type)
  BY <1>1, <1>2, <1>4, <1>5, SameRequestsAndTrips DEF L!CreateRequest
<1>7. QED
  BY <1>6 DEF L!Next, L!RequestNext

LEMMA CreateTripMaps ==
  ASSUME OneCall, AloneInv, NEW c \in CallIds, NEW t \in Trips, CreateTrip(t)
  PROVE  L!Next
<1>1. PICK g, e : g = calls[c] /\ e = [trips[t] EXCEPT !.status = "active"]
  OBVIOUS
<1>2. /\ trips[t].status = "absent" /\ trips' = [trips EXCEPT ![t] = e]
      /\ UNCHANGED <<requests, bookings, intents, calls>>
  BY <1>1 DEF CreateTrip
<1>3. g = calls'[c]
  BY <1>1, <1>2
<1>4. /\ TripsSettled = TripsDue(trips, bookings, g)
      /\ TripsSettled' = TripsDue(trips', bookings, g)
      /\ RequestsSettled' = RequestsSettled /\ BookingsSettled' = BookingsSettled
  BY <1>1, <1>2, <1>3, SettledIsDue
<1>5. trips \in [Trips -> Trip]
  BY DEF AloneInv, CollectionsOK
<1>6. /\ TripsDue(trips, bookings, g)[t] = trips[t]
      /\ TripsDue(trips', bookings, g) = [TripsDue(trips, bookings, g) EXCEPT ![t] = e]
  <2>1. CASE g.pc \in OwingPCs
    <3>1. g.t \in Trips /\ g.t # t
      BY <1>1, <1>2, <2>1, TheCallRuns DEF CallRuns, Exists, OwingPCs
    <3>2. trips'[g.t] = trips[g.t]
      BY <1>2, <1>5, <3>1
    <3>3. \E v : /\ TripsDue(trips, bookings, g) = [trips EXCEPT ![g.t] = v]
                 /\ TripsDue(trips', bookings, g) = [trips' EXCEPT ![g.t] = v]
      <4>1. PICK o : o = trips[g.t]
        OBVIOUS
      <4>2. CASE g.op = "match" /\ g.pc \in {"request", "incTrip"}
        <5>1. PICK v : v = [o EXCEPT !.matchedRequestsCount = @ + 1]
          OBVIOUS
        <5>2. /\ TripsDue(trips, bookings, g) = [trips EXCEPT ![g.t] = v]
              /\ TripsDue(trips', bookings, g) = [trips' EXCEPT ![g.t] = v]
          BY <3>2, <4>1, <4>2, <5>1 DEF TripsDue, RevertingOps
        <5>3. QED
          BY <5>2
      <4>3. CASE g.op \in RevertingOps /\ g.pc \in {"request", "findTrip", "saveTrip"}
        <5>1. PICK v : v = [o EXCEPT !.matchedRequestsCount = Decremented(@)]
          OBVIOUS
        <5>2. /\ TripsDue(trips, bookings, g) = [trips EXCEPT ![g.t] = v]
              /\ TripsDue(trips', bookings, g) = [trips' EXCEPT ![g.t] = v]
          BY <3>2, <4>1, <4>3, <5>1 DEF TripsDue, RevertingOps
        <5>3. QED
          BY <5>2
      <4>4. CASE /\ g.op = "complete" /\ g.pc \in {"request", "findBookings", "closeTrip"}
                 /\ TripDone(bookings, g.t)
        <5>1. PICK v : v = [o EXCEPT !.status = "completed"]
          OBVIOUS
        <5>2. /\ TripsDue(trips, bookings, g) = [trips EXCEPT ![g.t] = v]
              /\ TripsDue(trips', bookings, g) = [trips' EXCEPT ![g.t] = v]
          BY <3>2, <4>1, <4>4, <5>1 DEF TripsDue, RevertingOps
        <5>3. QED
          BY <5>2
      <4>5. CASE TripsDue(trips, bookings, g) = trips /\ TripsDue(trips', bookings, g) = trips'
        <5>1. trips = [trips EXCEPT ![g.t] = o]
          BY <1>5, <3>1, <4>1
        <5>2. trips' = [trips' EXCEPT ![g.t] = o]
          BY <1>2, <1>5, <3>1, <3>2, <4>1
        <5>3. QED
          BY <4>5, <5>1, <5>2
      <4>6. QED
        BY <4>2, <4>3, <4>4, <4>5 DEF TripsDue, RevertingOps
    <3>4. QED
      BY <1>2, <1>5, <3>1, <3>3
  <2>2. CASE g.pc \notin OwingPCs
    BY <1>2, <2>2 DEF TripsDue, OwingPCs
  <2>3. QED
    BY <2>1, <2>2
<1>7. TripsSettled[t] = trips[t] /\ TripsSettled' = [TripsSettled EXCEPT ![t] = e]
  BY <1>4, <1>6
<1>8. L!CreateTrip(t)
  BY <1>1, <1>2, <1>4, <1>7 DEF L!CreateTrip
<1>9. QED
  BY <1>8 DEF L!Next, L!TripNext

LEMMA CapturePaymentMaps ==
  ASSUME OneCall, AloneInv, NEW c \in CallIds, NEW i \in IntentIds, CapturePayment(i)
  PROVE  L!Next
<1>1. PICK g : g = calls[c] /\ g = calls'[c]
  BY DEF CapturePayment
<1>2. /\ RequestsSettled' = RequestsSettled /\ TripsSettled' = TripsSettled
      /\ BookingsSettled' = BookingsSettled
  BY <1>1, SettledIsDue DEF CapturePayment
<1>3. L!CapturePayment(i)
  BY <1>2, SamePaymentEdits DEF CapturePayment, L!CapturePayment
<1>4. QED
  BY <1>3 DEF L!Next, L!PaymentNext

-----------------------------------------------------------------------------

LEMMA InitMaps ==
  ASSUME OneCall, CallIds # {}, Init
  PROVE  L!Init
<1>1. PICK c \in CallIds : TRUE
  OBVIOUS
<1>2. Call1 = NoCall
  BY <1>1, TheCall DEF Init
<1>3. RequestsSettled = requests /\ TripsSettled = trips /\ BookingsSettled = bookings
  BY <1>2 DEF RequestsSettled, TripsSettled, BookingsSettled, NoCall, RevertingOps
<1>4. QED
  BY <1>3 DEF Init, L!Init, L!AbsentRequest, AbsentRequest, L!AbsentTrip, AbsentTrip,
     L!AbsentBooking, AbsentBooking, L!AbsentIntent, AbsentIntent

LEMMA NextMaps ==
  ASSUME OneCall, CallIds # {}, AloneInv, [Next]_vars
  PROVE  L!Next \/ UNCHANGED L!vars
<1>1. PICK c0 \in CallIds : TRUE
  OBVIOUS
<1>2. CASE Environment
  BY <1>1, <1>2, CreateRequestMaps, CreateTripMaps, CapturePaymentMaps DEF Environment
<1>3. ASSUME NEW c \in CallIds, Start(c)
      PROVE  UNCHANGED L!vars
  BY <1>3, StartIsQuiet
<1>4. ASSUME NEW c \in CallIds, Step(c)
      PROVE  L!Next \/ UNCHANGED L!vars
  BY <1>4, QueriesAreQuiet, InsertMaps, IntentMaps, StripeMaps, SaveMaps,
     WriteRequestIsQuiet, TripTailIsQuiet, SaveRequestMaps, SaveTripStatusMaps DEF Step
<1>5. CASE UNCHANGED vars
  <2>1. UNCHANGED Call1 /\ UNCHANGED <<requests, trips, bookings, intents>>
    BY <1>5 DEF vars, Call1
  <2>2. UNCHANGED <<RequestsSettled, TripsSettled, BookingsSettled>>
    BY <2>1 DEF RequestsSettled, TripsSettled, BookingsSettled, RequestAfter, TripDone, Merge
  <2>3. QED
    BY <2>1, <2>2, Stutters
<1>6. QED
  BY <1>2, <1>3, <1>4, <1>5 DEF Next

\* A handler that runs alone and to its end finds at each await what it left, and
\* the documents its later writes name.
THEOREM AloneInvariance ==
  ASSUME OneCall
  PROVE  Spec => []AloneInv
<1>1. AloneInv /\ [Next]_vars => AloneInv'
  BY NextAlone
<1>2. QED
  BY <1>1, InitAlone, PTL DEF Spec

\* Every handler, run alone and to its end, is the one-step handler of Lifecycle:
\* what is proved of Lifecycle holds of the code as long as calls do not overlap.
THEOREM RefinesLifecycle ==
  ASSUME OneCall, CallIds # {}
  PROVE  Spec => ImplementsLifecycle
<1>1. Init => L!Init
  BY InitMaps
<1>2. AloneInv /\ [Next]_vars => [L!Next]_(L!vars)
  BY NextMaps
<1>3. QED
  BY <1>1, <1>2, AloneInvariance, PTL DEF Spec, ImplementsLifecycle, L!Spec

=============================================================================
