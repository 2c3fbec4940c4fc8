SPECIFICATION RetryingSpec
CONSTANTS
  sender = sender
  carrier = carrier
  Users <- MCUsers
  Requests = {r1}
  OfferedTypes = {"standard"}
  Trips = {t1}
  BookingIds = {b1, b2}
  IntentIds = {i1, i2}
  Requester <- MCRequester
  Traveler <- MCTraveler
  Fees <- MCSingleFee
  RefundAmounts = {}
  NoId = NoId
  CallIds = {c1}
INVARIANTS
  OneLinkPerTrip
PROPERTIES
  ClosedStayClosed
  CheckoutEnds
CHECK_DEADLOCK FALSE
