SPECIFICATION Spec
CONSTANTS
  sender = sender
  carrier = carrier
  Users <- MCUsers
  Bookings = {b1, b2, b3}
  Requester <- MCRequester
  Traveler <- MCTraveler
  Ratings <- MCRatings
  MaxReviews = 3
  CallIds = {c1, c2}
  Nobody = Nobody
SYMMETRY Symmetry
INVARIANTS
  TypeOK
  OneReviewPerAuthor
  ReviewsAreMutual
  RatingWasTrue
PROPERTY AuthorIsCounted
