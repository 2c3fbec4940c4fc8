------------------------------- MODULE Reports -------------------------------
(***************************************************************************)
(* What users and administrators are shown about the documents of          *)
(* Lifecycle: the statistics of a profile, the trust score and the badges, *)
(* the figures of the platform and the impact report.  Each is a set of    *)
(* queries over the collections, here taken of one state.                  *)
(*                                                                         *)
(* Two fields of a request that no handler tests are arguments: volunteer  *)
(* holds the requests with paymentType "volunteer", elderly those with     *)
(* beneficiaryType "elderly".  Money is in hundredths of a cent.           *)
(***************************************************************************)
EXTENDS Lifecycle, FiniteSetsExt

\* Thresholds, scaled down with the number of bookings.
CONSTANTS
  TrustedAt,      \* completed bookings that earn trust points: 5
  ExperiencedAt,  \* completed bookings of the badge "experienced": 10
  ChampionAt      \* support deliveries of a "community champion": 5

ASSUME ThresholdsAssumption == {TrustedAt, ExperiencedAt, ChampionAt} \subseteq Nat

Having(collection, status) == {x \in DOMAIN collection : collection[x].status = status}

\* Mutant: deliveries count as soon as the traveler proves them.
CompletedBookings_Delivered == Having(bookings, "completed") \cup Having(bookings, "delivered")

CompletedBookings == Having(bookings, "completed")

RequestOf(b) == requests[bookings[b].requestId]

CompletedBy(u) == {b \in CompletedBookings : TravelerOf(bookings[b]) = u}

\* Mutant: only what the requester confirmed counts as spent.
CompletedFor_Confirmed(u) ==
  {b \in CompletedBookings : RequesterOf(bookings[b]) = u /\ RequestOf(b).status = "completed"}

CompletedFor(u) == {b \in CompletedBookings : RequesterOf(bookings[b]) = u}

-----------------------------------------------------------------------------
(* users.service.ts *)

\* Requester and traveler of a booking may be the same user.
CompletedBookingsCount(u) == Cardinality(CompletedBy(u) \cup CompletedFor(u))

\* The type is that of the request now, not when the booking was made.
SupportDeliveriesCount(u) ==
  Cardinality({b \in CompletedBy(u) : RequestOf(b).type = "support"})

AggregateSum(matched, field) ==
  SumFunctionOnSet([b \in matched |-> bookings[b][field]], matched)

UserStats(u) ==
  [totalTrips |-> Cardinality({t \in Trips : trips[t].status # "absent" /\ Traveler[t] = u}),
   activeTrips |-> Cardinality({t \in Having(trips, "active") : Traveler[t] = u}),
   totalRequests |->
     Cardinality({r \in Requests : requests[r].status # "absent" /\ Requester[r] = u}),
   completedDeliveries |-> Cardinality(CompletedBy(u)),
   supportDeliveries |-> SupportDeliveriesCount(u),
   totalEarnings |-> AggregateSum(CompletedBy(u), "travelerPayout"),
   totalSpent |-> AggregateSum(CompletedFor(u), "agreedFee")]

-----------------------------------------------------------------------------
(* trust.service.ts *)

\* What a score depends on besides bookings: verified and filled-in fields, the
\* rating in hundredths and the number of reviews.
Newcomer ==
  [email |-> FALSE, phone |-> FALSE, id |-> FALSE, selfie |-> FALSE,
   photo |-> FALSE, bio |-> FALSE, rating |-> 0, reviewCount |-> 0]

Veteran ==
  [email |-> TRUE, phone |-> TRUE, id |-> TRUE, selfie |-> TRUE,
   photo |-> TRUE, bio |-> TRUE, rating |-> 400, reviewCount |-> 3]

Points(earned, pts) == IF earned THEN pts ELSE 0

RatingPoints(p) ==
  IF p.rating >= 400 /\ p.reviewCount >= 3 THEN 15
  ELSE Points(p.rating >= 300 /\ p.reviewCount >= 1, 10)

\* All lines together earn 105 points, the score ends at 100.
CalculateTrustScore(p, completed, support) ==
  Min({100, Points(p.email, 15) + Points(p.phone, 15) + Points(p.id, 25)
              + Points(p.selfie, 10) + Points(p.photo, 5) + Points(p.bio, 5)
              + RatingPoints(p) + Points(completed >= TrustedAt, 10)
              + Points(support >= 1, 5)})

Badges(p, completed, support) ==
  {b \in {"top_rated", "experienced", "community_champion"} :
     CASE b = "top_rated" -> p.rating >= 450
       [] b = "experienced" -> completed >= ExperiencedAt
       [] OTHER -> support >= ChampionAt}
  \cup {f \in {"email", "phone", "id", "selfie"} : p[f]}

-----------------------------------------------------------------------------
(* admin.service.ts *)

BookingFigures ==
  [active |-> Cardinality(UNION {Having(bookings, s) : s \in {"confirmed", "paid", "in_transit"}}),
   completed |-> Cardinality(CompletedBookings),
   disputed |-> Cardinality(Having(bookings, "disputed")),
   cancelled |-> Cardinality(Having(bookings, "cancelled"))]

TotalCommission == AggregateSum(CompletedBookings, "platformCommission")

SupportRequests == {r \in Requests : requests[r].status # "absent" /\ requests[r].type = "support"}

\* Mutant: matched requests count as fulfilled.
FulfilledRequests_Matched == SupportRequests \cap (Having(requests, "completed") \cup Having(requests, "matched"))

FulfilledRequests == SupportRequests \cap Having(requests, "completed")

Champions == {u \in Users : SupportDeliveriesCount(u) >= ChampionAt}

\* The part "impact" of the platform's figures: volunteer deliveries of any type.
ImpactFigures(volunteer, elderly) ==
  [supportRequestsTotal |-> Cardinality(SupportRequests),
   supportRequestsFulfilled |-> Cardinality(FulfilledRequests),
   volunteerDeliveries |->
     Cardinality({b \in CompletedBookings : bookings[b].requestId \in volunteer}),
   elderlyAssisted |-> Cardinality(FulfilledRequests \cap elderly),
   communityChampions |-> Cardinality(Champions)]

\* The overview of the impact report: volunteer deliveries of support requests.
ImpactOverview(volunteer, elderly) ==
  [ImpactFigures(volunteer, elderly) EXCEPT !.volunteerDeliveries =
     Cardinality({b \in CompletedBookings : bookings[b].requestId \in volunteer \cap SupportRequests})]

-----------------------------------------------------------------------------

\* The users with a completed booking; the others have neither earned nor spent.
Active == UNION {Parties(bookings[b]) : b \in CompletedBookings}

SumOverUsers(field) == SumFunctionOnSet([u \in Active |-> UserStats(u)[field]], Active)

\* The payments that Stripe captured for bookings, and those of them that no
\* booking records: of a booking paid twice, the second.
CapturedFor(matched) ==
  {i \in IntentIds : intents[i].status = "succeeded" /\ intents[i].bookingId \in matched}

UnrecordedFor(matched) ==
  {i \in CapturedFor(matched) : bookings[intents[i].bookingId].paymentIntentId # i}

\* What Stripe captured and did not give back, and what was agreed for it.
StripeKept(paid) ==
  SumFunctionOnSet([i \in paid |-> 100 * (intents[i].amount - intents[i].refunded)], paid)

FeesOf(paid) ==
  SumFunctionOnSet([i \in paid |-> bookings[intents[i].bookingId].agreedFee], paid)

\* What requesters are told they spent is what travelers are told they earned and
\* the platform reports as commission.  Of all the money that Stripe captured and
\* kept for the completed bookings of a requester, the report leaves out one fee for
\* each payment that no booking records and nothing else, but for the rounding of
\* each payment to cents.
MoneyBalances ==
  /\ SumOverUsers("totalSpent") = SumOverUsers("totalEarnings") + TotalCommission
  /\ SumOverUsers("completedDeliveries") = BookingFigures.completed
  /\ \A u \in Active :
       LET paid == CapturedFor(CompletedFor(u))
           told == UserStats(u).totalSpent + FeesOf(UnrecordedFor(CompletedFor(u)))
           slack == 50 * Cardinality(paid)
       IN StripeKept(paid) - told \in (-slack) .. slack

\* Whichever requests are for volunteers and the elderly: every fulfilled support
\* request was delivered, none is counted as two deliveries, no more elderly were
\* assisted than deliveries made, and travelers were credited with all of them.  A
\* delivery that a dispute completed is counted although its request never is.
FulfilledWasDelivered ==
  /\ Cardinality(FulfilledRequests) <= SumOverUsers("supportDeliveries")
  /\ \A chosen \in SUBSET Requests :
       LET overview == ImpactOverview(chosen, chosen)
           deliveries == overview.volunteerDeliveries
       IN /\ Cardinality(FulfilledRequests \cap chosen) <= deliveries
          /\ deliveries <= Cardinality(SupportRequests \cap chosen)
          /\ overview.elderlyAssisted <= deliveries

\* What a user has earned by deliveries, whatever else the profile shows.
Credit(u) ==
  LET n == CompletedBookingsCount(u)
      support == SupportDeliveriesCount(u)
  IN <<Cardinality(CompletedBy(u)), AggregateSum(CompletedBy(u), "travelerPayout"),
       CalculateTrustScore(Newcomer, n, support), CalculateTrustScore(Veteran, n, support),
       Cardinality(Badges(Newcomer, n, support))>>

\* Nothing takes a delivery back: neither an edit or rejection of its request, nor a
\* dispute, a repeated payment or the end of the trip lowers a traveler's counts,
\* earnings, trust score or badges, or the platform's commission.
CreditIsKept ==
  [][/\ \A u \in {TravelerOf(bookings[b]) : b \in CompletedBookings} :
          LET before == Credit(u)
              after == Credit(u)'
          IN \A k \in DOMAIN before : before[k] <= after[k]
     /\ TotalCommission <= TotalCommission']_vars

=============================================================================
