SPECIFICATION Spec
CONSTANTS
  sender = sender
  carrier = carrier
  bystander = bystander
  Users <- MCUsers
  Requests = {r1}
  OfferedTypes = {"support"}
  Trips = {t1, t2}
  BookingIds = {b1, b2}
  IntentIds = {i1, i2}
  Requester <- MCRequester
  Traveler <- MCTraveler
  Fees <- MCFees
  RefundAmounts <- MCRefundAmounts
  NoId = NoId
  TrustedAt = 1
  ExperiencedAt = 2
  ChampionAt = 2
SYMMETRY Symmetry
INVARIANTS
  TypeOK
  OneLiveBooking
  RequestTracksBooking
  DeliveryIsFunded
  RefundsAgreeWithStripe
PROPERTIES
  ClosedBookingsFrozen
  ImplementsEscrow
