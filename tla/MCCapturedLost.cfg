SPECIFICATION RetryingSpec
CONSTANTS
  sender = sender
  carrier = carrier
  Users <- MCUsers
  Requests = {r1}
  OfferedTypes = {"standard"}
  Trips = {t1}
  BookingIds = {b1}
  IntentIds = {i1}
  Requester <- MCRequester
  Traveler <- MCTraveler
  Fees <- MCSingleFee
  RefundAmounts = {}
  NoId = NoId
  CallIds = {c1}
PROPERTY WebhookMarksPaid
CHECK_DEADLOCK FALSE
