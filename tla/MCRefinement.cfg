SPECIFICATION Spec
CONSTANTS
  sender = sender
  carrier = carrier
  Users <- MCUsers
  Requests = {r1}
  OfferedTypes = {"standard", "support"}
  Trips = {t1}
  BookingIds = {b1, b2}
  IntentIds = {i1}
  Requester <- MCRequester
  Traveler <- MCTraveler
  Fees <- MCFees
  RefundAmounts <- MCRefundAmounts
  NoId = NoId
  CallIds = {c1}
INVARIANT ChargedAsAgreed
PROPERTY ImplementsLifecycle
CHECK_DEADLOCK FALSE
