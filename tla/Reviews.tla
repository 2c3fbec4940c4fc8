------------------------------- MODULE Reviews -------------------------------
(***************************************************************************)
(* Reviews and the average rating kept on the reviewed user.  A review is  *)
(* created in four awaits: the booking is read, an earlier review looked   *)
(* for, the review inserted behind a unique index, and the average of all  *)
(* reviews read and then written to the user.  Calls overlap at each of    *)
(* them, and may end there.                                                *)
(***************************************************************************)
EXTENDS Integers, FiniteSets, Sequences, Functions

CONSTANTS
  Users,
  Bookings,    \* ids of bookings
  Requester,   \* requesterId of each booking
  Traveler,    \* travelerId of each booking
  Ratings,     \* the ratings users give: bounds 1 .. 5
  MaxReviews,  \* reviews that may be inserted: bounds the collection
  CallIds,     \* calls that may be in flight together
  Nobody       \* no user, no booking

ASSUME PartiesAssumption ==
  /\ Requester \in [Bookings -> Users]
  /\ Traveler \in [Bookings -> Users]
  /\ Nobody \notin Users \cup Bookings

ASSUME RatingsAssumption == Ratings \subseteq 1 .. 5 /\ MaxReviews \in Nat

VARIABLES
  completed,  \* the bookings that have been completed
  reviews,    \* the reviews collection, in the order of insertion
  profiles,   \* rating and reviewCount of each user
  calls       \* the calls of create in flight

vars == <<completed, reviews, profiles, calls>>

Review ==
  [bookingId : Bookings, reviewerId : Users, revieweeId : Users,
   overallRating : Ratings]

\* rating is in hundredths of a star.
Profile == [rating : 0 .. 500, reviewCount : Nat]

Unrated == [rating |-> 0, reviewCount |-> 0]

\* Math.round(avg * 100), half up.
RoundedAverage(sum, count) == (200 * sum + count) \div (2 * count)

About(seq, user) == {n \in DOMAIN seq : seq[n].revieweeId = user}

\* Mutant: the match on the reviewee is dropped.
Summary_Everyone(seq, user) ==
  LET sum == SumFunction([n \in DOMAIN seq |-> seq[n].overallRating])
  IN IF seq = <<>> THEN Unrated
     ELSE [rating |-> RoundedAverage(sum, Len(seq)), reviewCount |-> Len(seq)]

\* Mutant: the stars are summed and not averaged.
Summary_Sum(seq, user) ==
  LET about == About(seq, user)
  IN [rating |-> 100 * SumFunctionOnSet([n \in about |-> seq[n].overallRating], about),
      reviewCount |-> Cardinality(about)]

\* The aggregate over the reviews of the user; no row means 0.
Summary(seq, user) ==
  LET about == About(seq, user)
      count == Cardinality(about)
      sum   == SumFunctionOnSet([n \in about |-> seq[n].overallRating], about)
  IN IF count = 0 THEN Unrated
     ELSE [rating |-> RoundedAverage(sum, count), reviewCount |-> count]

Call ==
  [pc : {"idle", "exists", "insert", "aggregate", "update"},
   review : Review \cup {Nobody}, summary : Profile]

NoCall == [pc |-> "idle", review |-> Nobody, summary |-> Unrated]

TypeOK ==
  /\ completed \subseteq Bookings
  /\ reviews \in Seq(Review)
  /\ profiles \in [Users -> Profile]
  /\ calls \in [CallIds -> Call]

Init ==
  /\ completed = {}
  /\ reviews = <<>>
  /\ profiles = [u \in Users |-> Unrated]
  /\ calls = [c \in CallIds |-> NoCall]

-----------------------------------------------------------------------------

\* The bookings service completes a booking.
CompleteBooking(b) ==
  /\ b \notin completed
  /\ completed' = completed \cup {b}
  /\ UNCHANGED <<reviews, profiles, calls>>

\* Mutant: the reviewee is taken from the body as it is.
OtherParty_Anyone(b, user, other) == user \in {Requester[b], Traveler[b]}

\* The reviewee the body names must be the other party of the booking.
OtherParty(b, user, other) ==
  \/ user = Requester[b] /\ other = Traveler[b]
  \/ user # Requester[b] /\ user = Traveler[b] /\ other = Requester[b]

\* findOneForParty and the tests on the booking it returns.
Start(c, b, user, other, stars) ==
  /\ calls[c].pc = "idle"
  /\ b \in completed
  /\ OtherParty(b, user, other)
  /\ calls' = [calls EXCEPT ![c] =
       [pc |-> "exists", summary |-> Unrated,
        review |-> [bookingId |-> b, reviewerId |-> user, revieweeId |-> other,
                    overallRating |-> stars]]]
  /\ UNCHANGED <<completed, reviews, profiles>>

SameAuthor(x, y) == x.bookingId = y.bookingId /\ x.reviewerId = y.reviewerId

Reviewed(review) == \E n \in DOMAIN reviews : SameAuthor(reviews[n], review)

\* The search for an earlier review; a call that finds one is refused.
CheckExists(c) ==
  /\ calls[c].pc = "exists"
  /\ calls' = [calls EXCEPT ![c] =
       IF Reviewed(calls[c].review) THEN NoCall ELSE [@ EXCEPT !.pc = "insert"]]
  /\ UNCHANGED <<completed, reviews, profiles>>

\* Mutant: no unique index.
Insert_NoIndex(c) ==
  /\ calls[c].pc = "insert"
  /\ Len(reviews) < MaxReviews
  /\ reviews' = Append(reviews, calls[c].review)
  /\ calls' = [calls EXCEPT ![c].pc = "aggregate"]
  /\ UNCHANGED <<completed, profiles>>

\* Mutant: the average is read before the insert.
Insert_SummaryFirst(c) ==
  /\ calls[c].pc = "insert"
  /\ ~Reviewed(calls[c].review)
  /\ Len(reviews) < MaxReviews
  /\ reviews' = Append(reviews, calls[c].review)
  /\ calls' = [calls EXCEPT ![c].pc = "update",
                            ![c].summary = Summary(reviews, calls[c].review.revieweeId)]
  /\ UNCHANGED <<completed, profiles>>

\* The insert; the unique index on bookingId and reviewerId refuses a second one.
Insert(c) ==
  /\ calls[c].pc = "insert"
  /\ IF Reviewed(calls[c].review)
     THEN /\ calls' = [calls EXCEPT ![c] = NoCall]
          /\ UNCHANGED reviews
     ELSE /\ Len(reviews) < MaxReviews
          /\ reviews' = Append(reviews, calls[c].review)
          /\ calls' = [calls EXCEPT ![c].pc = "aggregate"]
  /\ UNCHANGED <<completed, profiles>>

Aggregate(c) ==
  /\ calls[c].pc = "aggregate"
  /\ calls' = [calls EXCEPT ![c].pc = "update",
                            ![c].summary = Summary(reviews, calls[c].review.revieweeId)]
  /\ UNCHANGED <<completed, reviews, profiles>>

\* updateRatingSummary: whatever has been inserted since the aggregate was read.
UpdateRating(c) ==
  /\ calls[c].pc = "update"
  /\ profiles' = [profiles EXCEPT ![calls[c].review.revieweeId] = calls[c].summary]
  /\ calls' = [calls EXCEPT ![c] = NoCall]
  /\ UNCHANGED <<completed, reviews>>

\* The database fails the call, or the process stops.
Fail(c) ==
  /\ calls[c].pc # "idle"
  /\ calls' = [calls EXCEPT ![c] = NoCall]
  /\ UNCHANGED <<completed, reviews, profiles>>

Next ==
  \/ \E b \in Bookings : CompleteBooking(b)
  \/ \E c \in CallIds :
       \/ \E b \in Bookings, user, other \in Users, stars \in Ratings :
            Start(c, b, user, other, stars)
       \/ CheckExists(c)
       \/ Insert(c)
       \/ Aggregate(c)
       \/ UpdateRating(c)
       \/ Fail(c)

Spec == Init /\ [][Next]_vars

-----------------------------------------------------------------------------

\* A party reviews a booking once, however many calls race past the search for an
\* earlier review.
OneReviewPerAuthor ==
  \A m, n \in DOMAIN reviews : SameAuthor(reviews[m], reviews[n]) => m = n

\* A review is by one party of a completed booking about the other one.
ReviewsAreMutual ==
  \A n \in DOMAIN reviews :
    LET d == reviews[n]
    IN /\ d.bookingId \in completed
       /\ {d.reviewerId, d.revieweeId} = {Requester[d.bookingId], Traveler[d.bookingId]}

\* The profile shows the number of the reviews of the user in seq, and their
\* average to the nearest hundredth.
Shows(profile, seq, user) ==
  LET mine  == About(seq, user)
      count == Cardinality(mine)
      total == SumFunctionOnSet([n \in mine |-> seq[n].overallRating], mine)
      error == profile.rating * count - 100 * total
  IN /\ profile.reviewCount = count
     /\ 2 * error \in -count .. count
     /\ mine = {} => profile.rating = 0

\* The rating and the count a profile shows belong together, and were those of
\* the user's reviews at some moment: stale after a crash or a race, never mixed.
RatingWasTrue ==
  \A user \in Users :
    \E n \in 0 .. Len(reviews) : Shows(profiles[user], SubSeq(reviews, 1, n), user)

\* A create that comes to its end has counted the author's own review: the profile
\* it leaves is a summary of the reviews up to that one or a later one, although
\* other calls may have written newer ones in between.
AuthorIsCounted ==
  [][\A c \in CallIds :
       UpdateRating(c) =>
         LET mine == calls[c].review
         IN \E n \in DOMAIN reviews :
              /\ \E k \in 1 .. n : SameAuthor(reviews[k], mine)
              /\ profiles'[mine.revieweeId] = Summary(SubSeq(reviews, 1, n), mine.revieweeId)]_vars

=============================================================================
