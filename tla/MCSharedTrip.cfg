SPECIFICATION Spec
CONSTANTS
  sender = sender
  carrier = carrier
  bystander = bystander
  Users <- MCUsers
  Requests = {r1, r2}
  OfferedTypes = {"standard", "support"}
  Trips = {t1}
  BookingIds = {b1, b2}
  IntentIds = {i1, i2}
  Requester <- MCRequester
  Traveler <- MCTraveler
  Fees <- MCSingleFee
  RefundAmounts = {}
  NoId = NoId
  TrustedAt = 1
  ExperiencedAt = 2
  ChampionAt = 2
SYMMETRY Symmetry
INVARIANTS
  TripCountsItsMatches
  CompletedTripIsDone
  MoneyBalances
  FulfilledWasDelivered
PROPERTY CreditIsKept
CHECK_DEADLOCK FALSE
