---------------------------- MODULE ReviewsProofs ----------------------------
(***************************************************************************)
(* Proofs about Reviews, for any users, bookings, calls and any number of  *)
(* reviews, and however calls overlap and fail.                            *)
(***************************************************************************)
EXTENDS Reviews, FiniteSums, TLAPS

\* What is written to a profile.  Up to the section on averages, Summary is not
\* opened: the proofs are about when it is computed and stored.
SummariesOf(user) == {Summary(seq, user) : seq \in Seq(Review)}

Summaries == {Unrated} \cup UNION {SummariesOf(user) : user \in Users}

AnyCall ==
  [pc : {"idle", "exists", "insert", "aggregate", "update"},
   review : Review \cup {Nobody}, summary : Summaries]

Typed ==
  /\ completed \subseteq Bookings
  /\ reviews \in Seq(Review)
  /\ profiles \in [Users -> Summaries]
  /\ calls \in [CallIds -> AnyCall]

\* The review is by one party of a completed booking about the other one.
Mutual(d) ==
  /\ d.bookingId \in completed
  /\ {d.reviewerId, d.revieweeId} = {Requester[d.bookingId], Traveler[d.bookingId]}

\* A call under way carries a review of a completed booking.
CallsAreMutual ==
  \A c \in CallIds :
    calls[c].pc # "idle" => calls[c].review \in Review /\ Mutual(calls[c].review)

\* A call past its insert finds its own review in the collection.
InsertedIsThere ==
  \A c \in CallIds : calls[c].pc = "aggregate" => Reviewed(calls[c].review)

\* The summary is that of the first reviews, this one among them.
Counts(seq, review, summary) ==
  \E n \in DOMAIN seq :
    /\ \E k \in 1 .. n : SameAuthor(seq[k], review)
    /\ summary = Summary(SubSeq(seq, 1, n), review.revieweeId)

\* What a call is about to write counts its own review.
SummaryCountsOwn ==
  \A c \in CallIds :
    calls[c].pc = "update" => Counts(reviews, calls[c].review, calls[c].summary)

ReviewInv ==
  /\ Typed
  /\ OneReviewPerAuthor
  /\ ReviewsAreMutual
  /\ CallsAreMutual
  /\ InsertedIsThere
  /\ SummaryCountsOwn

-----------------------------------------------------------------------------

\* Appending a review keeps the ones already there, and adds one.
LEMMA Appended ==
  ASSUME NEW seq \in Seq(Review), NEW d \in Review
  PROVE  /\ Append(seq, d) \in Seq(Review)
         /\ DOMAIN Append(seq, d) = DOMAIN seq \cup {Len(seq) + 1}
         /\ Len(seq) + 1 \notin DOMAIN seq
         /\ \A n \in DOMAIN seq : Append(seq, d)[n] = seq[n]
         /\ Append(seq, d)[Len(seq) + 1] = d
  OBVIOUS

\* A prefix of the collection is a prefix of the longer collection.
LEMMA SamePrefix ==
  ASSUME NEW seq \in Seq(Review), NEW d \in Review, NEW n \in DOMAIN seq
  PROVE  SubSeq(Append(seq, d), 1, n) = SubSeq(seq, 1, n)
<1>1. n \in Nat /\ n <= Len(seq)
  OBVIOUS
<1>2. \A k \in 1 .. n : Append(seq, d)[k] = seq[k]
  BY <1>1
<1>3. QED
  BY <1>1, <1>2

\* A whole collection is its own longest prefix.
LEMMA WholePrefix ==
  ASSUME NEW seq \in Seq(Review)
  PROVE  SubSeq(seq, 1, Len(seq)) = seq
  OBVIOUS

\* What counts a review still counts it when others have been inserted.
LEMMA StillCounts ==
  ASSUME NEW seq \in Seq(Review), NEW d \in Review, NEW mine, NEW summary,
         Counts(seq, mine, summary)
  PROVE  Counts(Append(seq, d), mine, summary)
<1>1. PICK n \in DOMAIN seq :
        /\ \E k \in 1 .. n : SameAuthor(seq[k], mine)
        /\ summary = Summary(SubSeq(seq, 1, n), mine.revieweeId)
  BY DEF Counts
<1>2. PICK k \in 1 .. n : SameAuthor(seq[k], mine)
  BY <1>1
<1>3. k \in DOMAIN seq /\ n \in DOMAIN Append(seq, d)
  BY <1>1, Appended
<1>4. Append(seq, d)[k] = seq[k]
  BY <1>3, Appended
<1>5. SameAuthor(Append(seq, d)[k], mine)
  BY <1>2, <1>4
<1>6. SubSeq(Append(seq, d), 1, n) = SubSeq(seq, 1, n)
  BY SamePrefix
<1>7. QED
  BY <1>1, <1>3, <1>5, <1>6 DEF Counts

\* The summary of the whole collection counts every review in it.
LEMMA WholeCounts ==
  ASSUME NEW seq \in Seq(Review), NEW mine, NEW k \in DOMAIN seq,
         SameAuthor(seq[k], mine)
  PROVE  Counts(seq, mine, Summary(seq, mine.revieweeId))
<1>1. Len(seq) \in DOMAIN seq /\ k \in 1 .. Len(seq)
  OBVIOUS
<1>2. SubSeq(seq, 1, Len(seq)) = seq
  BY WholePrefix
<1>3. QED
  BY <1>1, <1>2 DEF Counts

\* An idle call is well typed.
LEMMA UnratedIsSummary == Unrated \in Summaries /\ NoCall \in AnyCall /\ NoCall.pc = "idle"
<1>1. Unrated \in Summaries
  BY DEF Summaries
<1>2. QED
  BY <1>1 DEF NoCall, AnyCall

\* The initial states satisfy the invariant.
LEMMA InitInv == Init => ReviewInv
<1>1. SUFFICES ASSUME Init PROVE ReviewInv
  OBVIOUS
<1>2. Typed
  <2>1. completed \subseteq Bookings /\ reviews \in Seq(Review)
    BY <1>1 DEF Init
  <2>2. profiles \in [Users -> Summaries]
    BY <1>1, UnratedIsSummary DEF Init
  <2>3. calls \in [CallIds -> AnyCall]
    BY <1>1, UnratedIsSummary DEF Init
  <2>4. QED
    BY <2>1, <2>2, <2>3 DEF Typed
<1>3. OneReviewPerAuthor /\ ReviewsAreMutual
  BY <1>1 DEF Init, OneReviewPerAuthor, ReviewsAreMutual
<1>4. CallsAreMutual /\ InsertedIsThere /\ SummaryCountsOwn
  BY <1>1, UnratedIsSummary DEF Init, CallsAreMutual, InsertedIsThere, SummaryCountsOwn
<1>5. QED
  BY <1>2, <1>3, <1>4 DEF ReviewInv

\* A step that leaves the collection and the completed bookings alone and changes
\* one call: what remains to show of the call.
LEMMA OneCallMoves ==
  ASSUME ReviewInv,
         UNCHANGED <<completed, reviews>>,
         profiles' \in [Users -> Summaries],
         NEW c \in CallIds, NEW call \in AnyCall,
         calls' = [calls EXCEPT ![c] = call],
         call.pc # "idle" => call.review \in Review /\ Mutual(call.review),
         call.pc = "aggregate" => Reviewed(call.review),
         call.pc = "update" => Counts(reviews, call.review, call.summary)
  PROVE  ReviewInv'
<1>1. calls \in [CallIds -> AnyCall] /\ calls'[c] = call
  BY DEF ReviewInv, Typed
<1>2. \A k \in CallIds : k # c => calls'[k] = calls[k]
  BY DEF ReviewInv, Typed
<1>3. Typed'
  BY <1>1 DEF ReviewInv, Typed
<1>4. OneReviewPerAuthor'
  BY DEF ReviewInv, OneReviewPerAuthor
<1>5. ReviewsAreMutual'
  BY DEF ReviewInv, ReviewsAreMutual
<1>6. CallsAreMutual'
  BY <1>1, <1>2 DEF ReviewInv, CallsAreMutual, Mutual
<1>7. InsertedIsThere'
  BY <1>1, <1>2 DEF ReviewInv, InsertedIsThere, Reviewed
<1>8. SummaryCountsOwn'
  BY <1>1, <1>2 DEF ReviewInv, SummaryCountsOwn
<1>9. QED
  BY <1>3, <1>4, <1>5, <1>6, <1>7, <1>8 DEF ReviewInv

\* A call that ends leaves nothing to show.
LEMMA CallEnds ==
  ASSUME ReviewInv, UNCHANGED <<completed, reviews>>,
         profiles' \in [Users -> Summaries],
         NEW c \in CallIds, calls' = [calls EXCEPT ![c] = NoCall]
  PROVE  ReviewInv'
  BY UnratedIsSummary, OneCallMoves

\* Completing a booking takes nothing from the reviews.
LEMMA CompleteKeeps ==
  ASSUME ReviewInv, NEW b \in Bookings, CompleteBooking(b)
  PROVE  ReviewInv'
<1>1. completed \subseteq completed' /\ UNCHANGED <<reviews, profiles, calls>>
  BY DEF CompleteBooking
<1>2. Typed'
  BY DEF ReviewInv, Typed, CompleteBooking
<1>3. OneReviewPerAuthor'
  BY <1>1 DEF ReviewInv, OneReviewPerAuthor
<1>4. ReviewsAreMutual'
  BY <1>1 DEF ReviewInv, ReviewsAreMutual
<1>5. CallsAreMutual'
  BY <1>1 DEF ReviewInv, CallsAreMutual, Mutual
<1>6. InsertedIsThere' /\ SummaryCountsOwn'
  BY <1>1 DEF ReviewInv, InsertedIsThere, SummaryCountsOwn, Reviewed
<1>7. QED
  BY <1>2, <1>3, <1>4, <1>5, <1>6 DEF ReviewInv

\* The tests on the booking make the review one between its parties.
LEMMA StartKeeps ==
  ASSUME ReviewInv, NEW c \in CallIds, NEW b \in Bookings,
         NEW user \in Users, NEW other \in Users, NEW stars \in Ratings,
         Start(c, b, user, other, stars)
  PROVE  ReviewInv'
<1>1. PICK d \in Review :
        d = [bookingId |-> b, reviewerId |-> user, revieweeId |-> other,
             overallRating |-> stars]
  BY DEF Review
<1>2. PICK call \in AnyCall :
        call = [pc |-> "exists", summary |-> Unrated, review |-> d]
  BY UnratedIsSummary DEF AnyCall
<1>3. calls' = [calls EXCEPT ![c] = call]
  BY <1>1, <1>2 DEF Start
<1>4. Mutual(d)
  BY <1>1 DEF Start, OtherParty, Mutual
<1>5. UNCHANGED <<completed, reviews, profiles>>
  BY DEF Start
<1>6. profiles' \in [Users -> Summaries]
  BY <1>5 DEF ReviewInv, Typed
<1>7. call.pc = "exists" /\ call.review = d
  BY <1>2
<1>8. QED
  BY <1>3, <1>4, <1>5, <1>6, <1>7, OneCallMoves

\* The search for an earlier review only moves the call.
LEMMA CheckKeeps ==
  ASSUME ReviewInv, NEW c \in CallIds, CheckExists(c)
  PROVE  ReviewInv'
<1>1. UNCHANGED <<completed, reviews, profiles>> /\ profiles' \in [Users -> Summaries]
  BY DEF CheckExists, ReviewInv, Typed
<1>2. CASE Reviewed(calls[c].review)
  BY <1>1, <1>2, CallEnds DEF CheckExists
<1>3. CASE ~Reviewed(calls[c].review)
  <2>1. PICK call : call = [calls[c] EXCEPT !.pc = "insert"]
    OBVIOUS
  <2>2. calls[c] \in AnyCall
    BY DEF ReviewInv, Typed
  <2>3. call \in AnyCall /\ call.pc = "insert" /\ call.review = calls[c].review
    BY <2>1, <2>2 DEF AnyCall
  <2>4. calls' = [calls EXCEPT ![c] = call]
    BY <1>3, <2>1 DEF CheckExists
  <2>5. call.review \in Review /\ Mutual(call.review)
    BY <2>3 DEF CheckExists, ReviewInv, CallsAreMutual
  <2>6. QED
    BY <1>1, <2>3, <2>4, <2>5, OneCallMoves
<1>4. QED
  BY <1>2, <1>3

\* The insert adds a review whose author has none on this booking.
LEMMA InsertKeeps ==
  ASSUME ReviewInv, NEW c \in CallIds, Insert(c)
  PROVE  ReviewInv'
<1>1. UNCHANGED <<completed, profiles>> /\ profiles' \in [Users -> Summaries]
  BY DEF Insert, ReviewInv, Typed
<1>2. CASE Reviewed(calls[c].review)
  BY <1>1, <1>2, CallEnds DEF Insert
<1>3. CASE ~Reviewed(calls[c].review)
  <2>1. PICK mine : mine = calls[c].review
    OBVIOUS
  <2>2. mine \in Review /\ Mutual(mine) /\ ~Reviewed(mine)
    BY <1>3, <2>1 DEF Insert, ReviewInv, CallsAreMutual
  <2>3. reviews \in Seq(Review) /\ reviews' = Append(reviews, mine)
    BY <1>3, <2>1 DEF Insert, ReviewInv, Typed
  <2>4. /\ reviews' \in Seq(Review)
        /\ DOMAIN reviews' = DOMAIN reviews \cup {Len(reviews) + 1}
        /\ Len(reviews) + 1 \notin DOMAIN reviews
        /\ \A n \in DOMAIN reviews : reviews'[n] = reviews[n]
        /\ reviews'[Len(reviews) + 1] = mine
    BY <2>2, <2>3, Appended
  <2>5. calls \in [CallIds -> AnyCall] /\ calls' = [calls EXCEPT ![c].pc = "aggregate"]
    BY <1>3 DEF Insert, ReviewInv, Typed
  <2>6. calls' \in [CallIds -> AnyCall]
    BY <2>5 DEF AnyCall
  <2>7. /\ calls'[c].pc = "aggregate" /\ calls'[c].review = mine
        /\ \A k \in CallIds : k # c => calls'[k] = calls[k]
    BY <2>1, <2>5 DEF AnyCall
  <2>8. Typed'
    BY <1>1, <2>4, <2>6 DEF ReviewInv, Typed
  <2>9. OneReviewPerAuthor'
    <3>1. \A n \in DOMAIN reviews : ~SameAuthor(reviews[n], mine) /\ ~SameAuthor(mine, reviews[n])
      BY <2>2 DEF Reviewed, SameAuthor
    <3>2. QED
      BY <2>4, <3>1 DEF ReviewInv, OneReviewPerAuthor
  <2>10. ReviewsAreMutual'
    BY <1>1, <2>2, <2>4 DEF ReviewInv, ReviewsAreMutual, Mutual
  <2>11. CallsAreMutual'
    BY <1>1, <2>2, <2>7 DEF ReviewInv, CallsAreMutual, Mutual
  <2>12. InsertedIsThere'
    <3>1. SUFFICES ASSUME NEW k \in CallIds, calls'[k].pc = "aggregate"
                   PROVE  \E n \in DOMAIN reviews' :
                            SameAuthor(reviews'[n], calls'[k].review)
      BY DEF InsertedIsThere, Reviewed
    <3>2. CASE k = c
      BY <2>4, <2>7, <3>2 DEF SameAuthor
    <3>3. CASE k # c
      <4>1. PICK n \in DOMAIN reviews : SameAuthor(reviews[n], calls[k].review)
        BY <2>7, <3>1, <3>3 DEF ReviewInv, InsertedIsThere, Reviewed
      <4>2. n \in DOMAIN reviews' /\ reviews'[n] = reviews[n] /\ calls'[k] = calls[k]
        BY <2>4, <2>7, <3>3
      <4>3. QED
        BY <4>1, <4>2
    <3>4. QED
      BY <3>2, <3>3
  <2>13. SummaryCountsOwn'
    <3>1. SUFFICES ASSUME NEW k \in CallIds, calls'[k].pc = "update"
                   PROVE  Counts(reviews', calls'[k].review, calls'[k].summary)
      BY DEF SummaryCountsOwn
    <3>2. k # c /\ calls'[k] = calls[k]
      BY <2>7, <3>1
    <3>3. Counts(reviews, calls[k].review, calls[k].summary)
      BY <3>1, <3>2 DEF ReviewInv, SummaryCountsOwn
    <3>4. QED
      BY <2>2, <2>3, <3>2, <3>3, StillCounts
  <2>14. QED
    BY <2>8, <2>9, <2>10, <2>11, <2>12, <2>13 DEF ReviewInv
<1>4. QED
  BY <1>2, <1>3

\* The aggregate is read when the author's review is in the collection.
LEMMA AggregateKeeps ==
  ASSUME ReviewInv, NEW c \in CallIds, Aggregate(c)
  PROVE  ReviewInv'
<1>1. PICK mine : mine = calls[c].review
  OBVIOUS
<1>2. PICK summary : summary = Summary(reviews, mine.revieweeId)
  OBVIOUS
<1>3. mine \in Review /\ Mutual(mine) /\ Reviewed(mine)
  BY <1>1 DEF Aggregate, ReviewInv, CallsAreMutual, InsertedIsThere
<1>4. mine.revieweeId \in Users
  BY <1>3 DEF Review
<1>5. reviews \in Seq(Review)
  BY DEF ReviewInv, Typed
<1>6. summary \in Summaries
  <2>1. summary \in SummariesOf(mine.revieweeId)
    BY <1>2, <1>5 DEF SummariesOf
  <2>2. QED
    BY <1>4, <2>1 DEF Summaries
<1>7. Counts(reviews, mine, summary)
  BY <1>2, <1>3, <1>5, WholeCounts DEF Reviewed
<1>8. PICK call \in AnyCall :
        call = [pc |-> "update", review |-> mine, summary |-> summary]
  BY <1>3, <1>6 DEF AnyCall
<1>9. calls' = [calls EXCEPT ![c] = call]
  <2>1. calls \in [CallIds -> AnyCall]
    BY DEF ReviewInv, Typed
  <2>2. PICK edited : edited = [calls[c] EXCEPT !.pc = "update", !.summary = summary]
    OBVIOUS
  <2>3. edited \in AnyCall
    BY <1>6, <2>1, <2>2 DEF AnyCall
  <2>4. edited.pc = "update" /\ edited.summary = summary /\ edited.review = mine
    BY <1>1, <2>1, <2>2 DEF AnyCall
  <2>5. edited = call
    BY <1>8, <2>3, <2>4 DEF AnyCall
  <2>6. calls' = [calls EXCEPT ![c] = edited]
    BY <1>1, <1>2, <2>1, <2>2 DEF Aggregate
  <2>7. QED
    BY <2>5, <2>6
<1>10. UNCHANGED <<completed, reviews, profiles>> /\ profiles' \in [Users -> Summaries]
  BY DEF Aggregate, ReviewInv, Typed
<1>11. call.pc = "update" /\ call.review = mine /\ call.summary = summary
  BY <1>8
<1>12. QED
  BY <1>3, <1>7, <1>9, <1>10, <1>11, OneCallMoves

\* What is written to the profile is a summary.
LEMMA UpdateKeeps ==
  ASSUME ReviewInv, NEW c \in CallIds, UpdateRating(c)
  PROVE  ReviewInv'
<1>1. calls[c].summary \in Summaries /\ profiles \in [Users -> Summaries]
  BY DEF ReviewInv, Typed, AnyCall
<1>2. profiles' \in [Users -> Summaries]
  BY <1>1 DEF UpdateRating
<1>3. QED
  BY <1>2, CallEnds DEF UpdateRating

\* A call that fails changes nothing else.
LEMMA FailKeeps ==
  ASSUME ReviewInv, NEW c \in CallIds, Fail(c)
  PROVE  ReviewInv'
<1>1. profiles' \in [Users -> Summaries]
  BY DEF Fail, ReviewInv, Typed
<1>2. QED
  BY <1>1, CallEnds DEF Fail

\* Every step keeps the invariant.
LEMMA NextInv == ReviewInv /\ [Next]_vars => ReviewInv'
<1>1. SUFFICES ASSUME ReviewInv, [Next]_vars PROVE ReviewInv'
  OBVIOUS
<1>2. CASE UNCHANGED vars
  BY <1>1, <1>2 DEF vars, ReviewInv, Typed, OneReviewPerAuthor, ReviewsAreMutual, Mutual,
       CallsAreMutual, InsertedIsThere, Reviewed, SummaryCountsOwn
<1>3. CASE Next
  BY <1>1, <1>3, CompleteKeeps, StartKeeps, CheckKeeps, InsertKeeps, AggregateKeeps,
     UpdateKeeps, FailKeeps DEF Next
<1>4. QED
  BY <1>1, <1>2, <1>3

\* The invariant holds in every reachable state.
LEMMA Invariance == Spec => []ReviewInv
  BY InitInv, NextInv, PTL DEF Spec

-----------------------------------------------------------------------------

\* A party reviews a booking once, with any number of overlapping calls that all
\* passed the search for an earlier review.
THEOREM OneReviewEach == Spec => []OneReviewPerAuthor
<1>1. ReviewInv => OneReviewPerAuthor
  BY DEF ReviewInv
<1>2. QED
  BY <1>1, Invariance, PTL

\* Reviews are between the two parties of a completed booking.
THEOREM ReviewsBetweenParties == Spec => []ReviewsAreMutual
<1>1. ReviewInv => ReviewsAreMutual
  BY DEF ReviewInv
<1>2. QED
  BY <1>1, Invariance, PTL

\* The profile a create leaves counts the author's own review.
THEOREM AuthorsAreCounted == Spec => AuthorIsCounted
<1>1. ASSUME ReviewInv, NEW c \in CallIds, UpdateRating(c)
      PROVE  LET mine == calls[c].review
             IN \E n \in DOMAIN reviews :
                  /\ \E k \in 1 .. n : SameAuthor(reviews[k], mine)
                  /\ profiles'[mine.revieweeId]
                       = Summary(SubSeq(reviews, 1, n), mine.revieweeId)
  <2>1. Counts(reviews, calls[c].review, calls[c].summary)
    BY <1>1 DEF UpdateRating, ReviewInv, SummaryCountsOwn
  <2>2. calls[c].review \in Review
    BY <1>1 DEF UpdateRating, ReviewInv, CallsAreMutual
  <2>3. calls[c].review.revieweeId \in Users
    BY <2>2 DEF Review
  <2>4. profiles'[calls[c].review.revieweeId] = calls[c].summary
    BY <1>1, <2>3 DEF UpdateRating, ReviewInv, Typed
  <2>5. QED
    BY <2>1, <2>4 DEF Counts
<1>2. ReviewInv => [\A c \in CallIds :
        UpdateRating(c) =>
          LET mine == calls[c].review
          IN \E n \in DOMAIN reviews :
               /\ \E k \in 1 .. n : SameAuthor(reviews[k], mine)
               /\ profiles'[mine.revieweeId]
                    = Summary(SubSeq(reviews, 1, n), mine.revieweeId)]_vars
  BY <1>1
<1>3. QED
  BY <1>2, Invariance, PTL DEF AuthorIsCounted

-----------------------------------------------------------------------------
(* What an average is. *)

LEMMA Division ==
  ASSUME NEW a \in Nat, NEW d \in Nat \ {0}
  PROVE  /\ a \div d \in Nat
         /\ d * (a \div d) <= a /\ a < d * (a \div d) + d
  OBVIOUS

\* Math.round(avg * 100) of one to five stars is at most 500, and half a hundredth
\* from the average at most.
LEMMA AverageIsNear ==
  ASSUME NEW count \in Nat \ {0}, NEW sum \in count .. 5 * count,
         NEW r, r = RoundedAverage(sum, count)
  PROVE  /\ r \in 0 .. 500
         /\ 2 * (r * count - 100 * sum) \in -count .. count
<1>1. 200 * sum + count \in Nat /\ 2 * count \in Nat \ {0}
  OBVIOUS
<1>2. /\ r \in Nat
      /\ (2 * count) * r <= 200 * sum + count
      /\ 200 * sum + count < (2 * count) * r + 2 * count
  BY <1>1, Division DEF RoundedAverage
<1>3. PICK p : p = r * count
  OBVIOUS
<1>4. p \in Nat /\ (2 * count) * r = 2 * p
  BY <1>2, <1>3
<1>5. 2 * p <= 200 * sum + count /\ 200 * sum + count < 2 * p + 2 * count
  BY <1>2, <1>4
<1>6. ASSUME r >= 501 PROVE FALSE
  <2>1. (r - 501) * count >= 0
    BY <1>2, <1>6
  <2>2. p >= 501 * count
    BY <1>2, <1>3, <2>1
  <2>3. QED
    BY <1>4, <1>5, <2>2
<1>7. r \in 0 .. 500
  BY <1>2, <1>6
<1>8. 2 * (p - 100 * sum) \in -count .. count
  BY <1>4, <1>5
<1>9. QED
  BY <1>3, <1>7, <1>8

Stars(seq, user) == [n \in About(seq, user) |-> seq[n].overallRating]

\* The reviews of a user are finitely many, of one to five stars each.
LEMMA StarsAddUp ==
  ASSUME NEW seq \in Seq(Review), NEW user,
         NEW count, count = Cardinality(About(seq, user)),
         NEW sum, sum = SumFunctionOnSet(Stars(seq, user), About(seq, user))
  PROVE  count \in Nat /\ sum \in count .. 5 * count /\ (About(seq, user) = {} <=> count = 0)
<1>1. PICK about : about = About(seq, user)
  OBVIOUS
<1>2. PICK stars : stars = Stars(seq, user)
  OBVIOUS
<1>3. IsFiniteSet(about) /\ \A n \in about : n \in DOMAIN seq
  <2>1. IsFiniteSet(1 .. Len(seq))
    BY FS_Interval
  <2>2. About(seq, user) \subseteq 1 .. Len(seq)
    BY DEF About
  <2>3. IsFiniteSet(About(seq, user))
    BY <2>1, <2>2, FS_Subset
  <2>4. \A n \in About(seq, user) : n \in DOMAIN seq
    BY DEF About
  <2>5. QED
    BY <1>1, <2>3, <2>4, Zenon
<1>4. Cardinality(about) \in Nat /\ (about = {} <=> Cardinality(about) = 0)
  <2>1. Cardinality(about) \in Nat
    BY <1>3, FS_CardinalityType
  <2>2. about = {} <=> Cardinality(about) = 0
    BY <1>3, FS_EmptySet
  <2>3. QED
    BY <2>1, <2>2
<1>5. \A n \in about : stars[n] \in 1 .. 5
  <2>1. ASSUME NEW n \in about
        PROVE  stars[n] \in 1 .. 5
    <3>1. n \in DOMAIN seq /\ n \in About(seq, user)
      BY <1>1, <1>3, <2>1, Zenon
    <3>2. stars[n] = seq[n].overallRating
      BY <1>2, <3>1 DEF Stars
    <3>3. seq[n] \in Review
      BY <3>1
    <3>4. QED
      BY <3>2, <3>3, RatingsAssumption DEF Review
  <2>2. QED
    BY <2>1
<1>6. PICK ones : ones = [n \in about |-> 1]
  OBVIOUS
<1>7. PICK fives : fives = [n \in about |-> 5]
  OBVIOUS
<1>8. /\ Ints(stars, about) /\ Ints(ones, about) /\ Ints(fives, about)
      /\ \A n \in about : ones[n] <= stars[n] /\ stars[n] <= fives[n]
  BY <1>5, <1>6, <1>7 DEF Ints
<1>9. SumFunctionOnSet(ones, about) = 1 * Cardinality(about)
  BY <1>3, <1>6, SumConstant
<1>10. SumFunctionOnSet(fives, about) = 5 * Cardinality(about)
  BY <1>3, <1>7, SumConstant
<1>11. /\ SumFunctionOnSet(ones, about) <= SumFunctionOnSet(stars, about)
       /\ SumFunctionOnSet(stars, about) <= SumFunctionOnSet(fives, about)
  BY <1>3, <1>8, SumMonotone
<1>12. SumFunctionOnSet(stars, about) \in Int
  BY <1>3, <1>8, SumTakesOut
<1>13. count = Cardinality(about) /\ sum = SumFunctionOnSet(stars, about)
  BY <1>1, <1>2, Zenon
<1>14. QED
  BY <1>1, <1>4, <1>9, <1>10, <1>11, <1>12, <1>13

\* A summary is the average to the nearest hundredth, and the number, of the reviews.
LEMMA SummaryShows ==
  ASSUME NEW seq \in Seq(Review), NEW user
  PROVE  Summary(seq, user) \in Profile /\ Shows(Summary(seq, user), seq, user)
<1>1. PICK count : count = Cardinality(About(seq, user))
  OBVIOUS
<1>2. PICK sum : sum = SumFunctionOnSet(Stars(seq, user), About(seq, user))
  OBVIOUS
<1>3. count \in Nat /\ sum \in count .. 5 * count /\ (About(seq, user) = {} <=> count = 0)
  BY <1>1, <1>2, StarsAddUp
<1>4. PICK p : p = Summary(seq, user)
  OBVIOUS
<1>5. p = IF count = 0 THEN Unrated
          ELSE [rating |-> RoundedAverage(sum, count), reviewCount |-> count]
  BY <1>1, <1>2, <1>4 DEF Summary, Stars
<1>6. /\ p \in Profile /\ p.reviewCount = count
      /\ 2 * (p.rating * count - 100 * sum) \in -count .. count
      /\ count = 0 => p.rating = 0
  <2>1. CASE count = 0
    BY <1>3, <1>5, <2>1 DEF Unrated, Profile
  <2>2. CASE count # 0
    <3>1. PICK r : r = RoundedAverage(sum, count)
      OBVIOUS
    <3>2. r \in 0 .. 500 /\ 2 * (r * count - 100 * sum) \in -count .. count
      BY <1>3, <2>2, <3>1, AverageIsNear
    <3>3. p = [rating |-> r, reviewCount |-> count]
      BY <1>5, <2>2, <3>1
    <3>4. QED
      BY <1>3, <2>2, <3>2, <3>3 DEF Profile
  <2>3. QED
    BY <2>1, <2>2
<1>7. Shows(p, seq, user)
  BY <1>1, <1>2, <1>3, <1>6 DEF Shows, Stars
<1>8. QED
  BY <1>4, <1>6, <1>7

\* Each profile is the summary of the reviews there were at some moment.
ProfilesWereTrue ==
  \A user \in Users :
    profiles[user] = Unrated
      \/ \E n \in DOMAIN reviews : profiles[user] = Summary(SubSeq(reviews, 1, n), user)

LEMMA ProfilesStayTrue ==
  ASSUME ReviewInv, ProfilesWereTrue, [Next]_vars
  PROVE  ProfilesWereTrue'
<1>1. CASE UNCHANGED <<reviews, profiles>>
  BY <1>1 DEF ProfilesWereTrue
<1>2. ASSUME NEW c \in CallIds, Insert(c), ~Reviewed(calls[c].review)
      PROVE  ProfilesWereTrue'
  <2>1. PICK d \in Review : d = calls[c].review
    BY <1>2 DEF Insert, ReviewInv, CallsAreMutual
  <2>2. reviews' = Append(reviews, d) /\ profiles' = profiles /\ reviews \in Seq(Review)
    BY <1>2, <2>1 DEF Insert, ReviewInv, Typed
  <2>3. ASSUME NEW user \in Users, NEW n \in DOMAIN reviews,
               profiles[user] = Summary(SubSeq(reviews, 1, n), user)
        PROVE  n \in DOMAIN reviews' /\ profiles'[user] = Summary(SubSeq(reviews', 1, n), user)
    <3>1. SubSeq(reviews', 1, n) = SubSeq(reviews, 1, n)
      BY <2>2, SamePrefix
    <3>2. n \in DOMAIN reviews'
      BY <2>2, Appended
    <3>3. QED
      BY <2>2, <2>3, <3>1, <3>2, Zenon
  <2>4. QED
    BY <2>2, <2>3 DEF ProfilesWereTrue
<1>3. ASSUME NEW c \in CallIds, UpdateRating(c)
      PROVE  ProfilesWereTrue'
  <2>1. PICK u \in Users : u = calls[c].review.revieweeId
    BY <1>3 DEF UpdateRating, ReviewInv, CallsAreMutual, Review
  <2>2. PICK n \in DOMAIN reviews : calls[c].summary = Summary(SubSeq(reviews, 1, n), u)
    BY <1>3, <2>1 DEF UpdateRating, ReviewInv, SummaryCountsOwn, Counts
  <2>3. profiles' = [profiles EXCEPT ![u] = calls[c].summary] /\ reviews' = reviews
        /\ DOMAIN profiles = Users
    BY <1>3, <2>1 DEF UpdateRating, ReviewInv, Typed
  <2>4. QED
    BY <2>2, <2>3 DEF ProfilesWereTrue
<1>4. QED
  <2>1. CASE UNCHANGED vars
    BY <1>1, <2>1 DEF vars
  <2>2. CASE Next
    BY <1>1, <1>2, <1>3, <2>2 DEF Next, CompleteBooking, Start, CheckExists, Insert,
                                  Aggregate, Fail
  <2>3. QED
    BY <2>1, <2>2

LEMMA WereTrueInvariance == Spec => [](ReviewInv /\ ProfilesWereTrue)
<1>1. Init => ProfilesWereTrue
  BY DEF Init, ProfilesWereTrue
<1>2. ReviewInv /\ ProfilesWereTrue /\ [Next]_vars => ProfilesWereTrue'
  BY ProfilesStayTrue
<1>3. QED
  BY <1>1, <1>2, InitInv, NextInv, PTL DEF Spec

\* Ratings stay within five stars, and counts are counts.
THEOREM TypeCorrect == Spec => []TypeOK
<1>1. ReviewInv => TypeOK
  <2>1. Summaries \subseteq Profile
    <3>1. Unrated \in Profile
      BY DEF Unrated, Profile
    <3>2. ASSUME NEW user, NEW x \in SummariesOf(user)
          PROVE  x \in Profile
      <4>1. PICK seq \in Seq(Review) : x = Summary(seq, user)
        BY <3>2 DEF SummariesOf
      <4>2. QED
        BY <4>1, SummaryShows
    <3>3. QED
      BY <3>1, <3>2 DEF Summaries
  <2>2. QED
    BY <2>1 DEF ReviewInv, Typed, TypeOK, AnyCall, Call
<1>2. QED
  BY <1>1, Invariance, PTL

\* The rating and the count on a profile belong together, however calls overlap.
THEOREM RatingsWereTrue == Spec => []RatingWasTrue
<1>1. ASSUME ReviewInv, ProfilesWereTrue, NEW user \in Users
      PROVE  \E n \in 0 .. Len(reviews) : Shows(profiles[user], SubSeq(reviews, 1, n), user)
  <2>1. reviews \in Seq(Review)
    BY <1>1 DEF ReviewInv, Typed
  <2>2. CASE profiles[user] = Unrated
    <3>1. SubSeq(reviews, 1, 0) = <<>> /\ About(<<>>, user) = {}
      BY <2>1 DEF About
    <3>2. Summary(<<>>, user) = Unrated
      BY <3>1, FS_EmptySet DEF Summary
    <3>3. Shows(Unrated, <<>>, user)
      <4>1. <<>> \in Seq(Review)
        OBVIOUS
      <4>2. QED
        BY <3>2, <4>1, SummaryShows
    <3>4. Shows(profiles[user], SubSeq(reviews, 1, 0), user)
      BY <2>2, <3>1, <3>3, Zenon
    <3>5. QED
      BY <2>1, <3>4
  <2>3. ASSUME NEW n \in DOMAIN reviews, profiles[user] = Summary(SubSeq(reviews, 1, n), user)
        PROVE  Shows(profiles[user], SubSeq(reviews, 1, n), user)
    <3>1. SubSeq(reviews, 1, n) \in Seq(Review)
      BY <2>1
    <3>2. QED
      BY <2>3, <3>1, SummaryShows, Zenon
  <2>4. QED
    BY <1>1, <2>1, <2>2, <2>3 DEF ProfilesWereTrue
<1>2. ReviewInv /\ ProfilesWereTrue => RatingWasTrue
  BY <1>1 DEF RatingWasTrue
<1>3. QED
  BY <1>2, WereTrueInvariance, PTL

=============================================================================
