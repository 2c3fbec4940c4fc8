SPECIFICATION Spec
CONSTANTS
  sender = sender
  carrier = carrier
  Users <- MCUsers
  Requests = {r1}
  OfferedTypes = {"standard"}
  Trips = {t1}
  BookingIds = {b1}
  IntentIds = {i1}
  Requester <- MCRequester
  Traveler <- MCTraveler
  Fees <- MCFees
  RefundAmounts = {}
  NoId = NoId
  CallIds = {c1, c2}
SYMMETRY Symmetry
INVARIANTS
  FundedHoweverStale
  CompletionIsEarned
  SplitMatchesFee
CHECK_DEADLOCK FALSE
