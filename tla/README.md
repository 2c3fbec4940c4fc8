# Verification of the Tohdah backend

Tohdah is a NestJS service over MongoDB, Redis and Stripe. A *requester* asks for
an item to be delivered, a *traveler* offers a trip, a *booking* links the two:
they agree on a fee, the requester pays through Stripe, the traveler carries the
item and proves the delivery, the requester completes the booking, and either may
dispute it before an administrator. This directory holds TLA+ models of that
service, the TLC runs that check them on small instances, and TLAPS proofs of
theorems about them for instances of every size. Source paths below are relative
to `src/src/`.

## 1. The system

| component | state it keeps | operations | correct when |
|---|---|---|---|
| **Bookings** `bookings/` | `bookings` collection: status, parties, fees, payment, proof, dispute, cancellation | createMatch, accept, counter, decline, acceptCounter, markInTransit, proof of delivery, complete, dispute, cancel, markAsPaidFromWebhook | one standing booking per request; fee, commission and payout belong together; nothing travels unpaid; completion is earned; closed bookings stay closed |
| **Requests** `requests/` | `requests`: status, type, match, approval | create, update, cancelRequest, browse | the status of a request is that of its standing booking |
| **Trips** `trips/` | `trips`: status, matchedRequestsCount | create, update, cancelTrip, browse | the count is that of its matches; a completed trip has nothing under way |
| **Payments** `payments/` | nothing; PaymentIntents live at Stripe | createIntent, webhook, confirmPayment, refundPayment | charge, refund and booking agree to the cent; a captured payment is recorded, one per booking |
| **Disputes, moderation** `admin/` | writes bookings and requests | resolveDispute, approve and reject support requests | a dispute ends once; the refund on record is the refund made |
| **Sessions** `auth/`, `common/redis/` | refresh-token hashes and one-time codes in Redis | register, login, refresh, logout, reset password | a refresh token works once; revoking ends every session |
| **Users** `users/`, `admin/` | `users`: profile, credentials, status, devices, blocked users | profile, e-mail, phone and password changes, block, suspend, ban | unique e-mail and phone; a changed password ends sessions |
| **Reviews** `reviews/` | `reviews`, average on the user | create, list | one review per booking and author; the average is that of the reviews |
| **Chat** `chat/` | `messages` | send, page through, mark read | an open thread shows every message, from the history or the socket |
| **Notifications** `notifications/`, `common/fcm/`, `gateway/` | `notifications`, device tokens, socket rooms | create, mark read, dismiss, push, emit | what is dismissed stays so; dead tokens leave; a user is online while a socket is |
| **Onboarding** `onboarding/` | step, completion and account type on the user | completeStep, getStatus | it ends with an account type, and the step it offers is never refused |
| **Trust** `trust/` | verification flags on the user | score, badges, verifyFieldStub | what was earned is not lost again |
| **Uploads** `upload/` | files in cloud storage, the avatar's address on the user | uploadAvatar, uploads for deliveries and items | an avatar that is shown is stored |
| **Lists** `requests/`, `trips/`, `admin/`, `notifications/` | nothing | two browse queries, seven lists for administrators, the notifications of a user, page by page | whoever walks through the pages sees what stays in the list, once |
| **Statistics, impact** `users/`, `admin/` | nothing | statistics of a user, figures of the platform, impact report | earnings, spendings, commission and Stripe agree; what is reported as fulfilled was delivered |
| **Infrastructure** `main.ts`, `app.module.ts`, filters, pipes, `common/email/` | none | wiring | not modelled |

**Interaction.** Every operation is an HTTP handler (the webhook too). A handler
reads documents, tests guards on the copies it read, edits a copy and saves it,
then writes the other documents, one `await` each. There is no transaction, no
lock, no version check: `booking.save()` writes the changed fields over whatever
the document has become. Bookings write requests and trips directly through their
models; the payments controller calls `BookingsService.markAsPaidFromWebhook`; the
admin service edits bookings and calls `PaymentsService.refundPayment`.
Notifications and socket events are sent after the last write and never awaited.

**What is hard.** (1) Handlers overlap at every await, so two handlers with guards
that exclude each other may both pass. (2) A handler writes up to three documents;
the process, or the database, may stop it between two of them. (3) Stripe delivers
a webhook any number of times and at any time, also after the booking has moved
on. (4) No single guard protects the rule of one standing booking per request: it
rests on all handlers together. (5) One user document is written by the wizard, the
profile form, an upload, a change of address and a push at the same time. (6) A list
is read in pages, with the page and the total in two queries, while it changes.
`PROJECT.json` lists each hazard at its line.

## 2. Modules

| module | models |
|---|---|
| `BookingDocs` | the documents; for every handler its guard on the copy read (`Can...`) and its edit (`Accepted`, `Resolved`, ...); the rounding to cents; the two queries on bookings |
| `Lifecycle` | one action per handler, from first read to last write: what the service does when handlers run one at a time |
| `Escrow` | abstract: every payment has an account; it is collected once; one payment of an item at most is credited to it, held, then released in full or given back in part or in full |
| `Handlers` | the same handlers split at their awaits, any number in flight (`calls`), stale copies, field-wise saves (`Merge`), calls that fail at any await, repeated webhooks |
| `HandlersRefinement` | the refinement mapping from `Handlers` to `Lifecycle` |
| `Reviews` | the creation of a review, split at its awaits: the search for an earlier one, the insert behind the unique index, the average read and then written to the user |
| `Sessions` | refresh sessions in Redis: login, refresh, logout, and the calls that end all sessions of a user, split at their awaits, with the status of the account |
| `Messaging` | the chat of a booking, the notifications of its messages, the sockets and rooms of the gateway, and a client that opens a thread as `API_INTEGRATION.md` 336 says |
| `Reports` | the statistics, trust scores, badges, platform figures and impact overview that are computed from the documents of `Lifecycle` |
| `Profiles` | the document of one user as its owner edits it: onboarding, profile, avatar upload, e-mail address, device tokens and their pruning by a push, each split at its awaits |
| `Listings` | what each of the ten lists shows, its order and its pages, and a client that walks through them while documents come, change and go |
| `FiniteSums` | lemmas with proofs about sums over finite sets, for the averages and totals |
| `LifecycleProofs` | TLAPS proofs about `Lifecycle`: what each edit of a booking does, types, the standing booking of a request, completed trips, the count of matches kept on a trip; its payments: funding, refunds, closed bookings, the refinement of `Escrow`; and about `Reports` |
| `HandlersProofs` | about `Handlers` with any number of calls that overlap and fail; with calls that do not overlap: those that may fail, and those that do not, which refine `Lifecycle` |
| `ReviewsProofs` | TLAPS proofs about `Reviews` |
| `SessionsProofs` | TLAPS proofs about `Sessions` |
| `ProfilesProofs` | TLAPS proofs about `Profiles` |
| `MessagingProofs` | TLAPS proofs about `Messaging` |
| `ListingsProofs` | TLAPS proofs about `Listings` |
| `MCLifecycle` (with `Reports`), `MCHandlers`, `MCRefinement`, `MCReviews`, `MCSessions`, `MCMessaging`, `MCProfiles`, `MCListings` | instances for TLC |

`Lifecycle` and `Handlers` share every guard and edit of `BookingDocs`: a property
checked of one is about the same code as a property of the other. Definitions
named `X_Something` next to `X` are the deliberate faults of the mutation check;
nothing else uses them.

**State and code.** `requests`, `trips`, `bookings` are the collections, from ids
to documents; a document with status `"absent"` has not been created. `intents`
are the PaymentIntents at Stripe. In `Handlers`, `calls[c]` is one handler in
flight: `op` the handler, `pc` the await it stands before, `old` the document it
read, `new` the copy it edited. Each `Start...` action is the code up to the first
write, each later action one await. In `Reviews`, `reviews` is the collection in
the order of insertion, `profiles` the two rating fields of each user, `completed`
the bookings the bookings service has completed. In `Sessions`, `sessions` are the
keys `tohdah:refresh:<user>:<jti>` with what became of each, `parent` the session a
refresh presented; `shared` and the field `before` of a call are history, written
and never read by an action. In `Messaging`, `messages` is the thread in the order
of `createdAt`, taken to be that of insertion; `notices[n]` is the notification of
message `n`; `rooms` and `userSockets` are the memory of the gateway; `clients[s]` is
what the tab behind socket `s` shows, which is external: it joins the room, then asks
for page after page until it has as many as the total says. `emitted` and the field
`before` of a client are history.

In `Profiles`, `user` is the document and `calls[c].writes` the fields that a call has
changed on the copy it read (`Changes`), which is all that `save()` writes; `files` is
the storage of avatars, `forgotten` the devices that Firebase no longer knows. History:
`confirmed` is the address for which the user was verified last, `across` and `misled`
say that a change of address was read before and saved after a verification, `cut` are
the avatars that an upload deleted before it failed; `cleared` says that the account type
was unset by the profile form, `outdated` that the photo came from a form and had been
deleted from the storage by then. In `Listings`, `docs` is one
collection, a document the fields that some list filters or sorts by; `client` is the
page that the client asks for and what it was answered of it; `walk` is history: of the
documents in the list when the walk began, those not edited since and told apart from
all others by the sort (`steady`), those of them ahead of which another left (`up`) or
came (`down`), those shown once (`seen`) or again (`twice`), and whether a change fell
between the two answers for a page (`raced`). `Reports` has no state of its own.

**Abstractions.** Descriptive fields, references, dates and notifications are left
out. Money is an integer of hundredths of a cent, so that the rounding
`Math.round(amount * 100)` is a real step (`Cents`) and ten percent is exact;
binary floating point is not modelled. `NoId` is an unset reference. The
confirmation code of a delivery is a choice of the caller: a wrong code changes
nothing. `adminApprovalStatus` has the values the code writes, and `none` while
unset. Parties of a booking are found through its request and trip, as createMatch
copies them and nothing rewrites them. Ids are bounded by the sets given: a match
or a checkout starts only while an id is left.

`Reports` computes every figure of one state, while the code runs its queries in
parallel; its thresholds are scaled down with the number of bookings (5, 10 and 5
deliveries become 1, 2 and 2), and the two fields of a request that no handler looks
at, `paymentType` and `beneficiaryType`, are arguments of the impact figures. In
`Profiles`, a photo given in a form is `External`, an address that the storage does not
keep, or that of any avatar whose upload has ended, shown, older or deleted; `Nothing` is
the null of a form, `Omitted` a field that it does not mention; the account is a
registered one or one of Google's, which is verified from the start; names of uploads are
unique. In `Listings`, times are a few instants: documents may be created, raised as
disputes, or due at the same one, and then the order of a query among them is open;
equality with a value of the query stands for the regular expressions and references the
code compares. What becomes of a listed request, booking, dispute or user is not followed
through the handlers: any document may come to look like any other, so that what holds
here holds whatever the handlers do. Only what they never do is left out: a trip that is
closed does not become active again, a notification that was read does not become unread,
`createdAt` stays, nothing writes `referredBy`. The date of a dispute does not stay: a
stale `raiseDispute` sets it again. The client is external and asks until it has reached
the total.

## 3. Runs

| run | instance | shows |
|---|---|---|
| `lifecycle` | 1 support request, 2 trips, 2 bookings, 2 payments, 3 users, fees 12.5 and 20 cents, refunds of -5 and 8.5 cents or unset | `TypeOK`; `OneLiveBooking`; `RequestTracksBooking`; `DeliveryIsFunded`; `RefundsAgreeWithStripe`; `ClosedBookingsFrozen`; the refinement `ImplementsEscrow` |
| `shared_trip` | 2 requests of either type, 1 trip, 2 bookings, 2 payments, 1 fee | `TripCountsItsMatches`; `CompletedTripIsDone`; of `Reports`: `MoneyBalances`; `FulfilledWasDelivered`; `CreditIsKept` |
| `overlap` | 1 booking, 1 payment, 2 fees, any 2 calls in flight | `FundedHoweverStale`; `CompletionIsEarned`; `SplitMatchesFee` |
| `crash` | 2 bookings on one request and trip, 2 payments, 1 fee, refunds in full, calls one at a time that may stop at any await, fair retries | `OneLinkPerTrip`; `ClosedStayClosed`; liveness `CheckoutEnds` |
| `refinement` | 1 request of either type, 1 trip, 2 bookings, 1 payment, 2 fees, 1 call at a time | `ImplementsLifecycle`; `ChargedAsAgreed` |
| `reviews` | 3 bookings of one sender and one carrier, 1 or 5 stars, 3 reviews, 2 calls in flight that may fail | `TypeOK`; `OneReviewPerAuthor`; `ReviewsAreMutual`; `RatingWasTrue`; `AuthorIsCounted` |
| `sessions` | 1 user, 3 sessions, 2 calls in flight that may fail | `TypeOK`; `RefreshedIsGone`; `OneSuccessor`; `EarlierSessionsEnd` |
| `messaging` | 2 tabs, one of which opens the thread, 2 messages, pages of 1, 2 calls in flight that may fail, restarts | `TypeOK`; `OpenThreadShowsAll`; `OpenThreadIsRead`; `DismissedStays` |
| `profiles` | 1 account type, 2 addresses, 2 avatars, 1 device, a registered or a Google account, 2 calls in flight that may fail | `CompletedHasType`; `WizardNeverStuck`; `PhotoIsStored`; `VerifiedIsCurrent`; `OnlyFailedTokensGo` |
| `listings` | each of the ten lists, 3 documents of 2 to 5 looks, 3 instants, 1 or 2 queries, pages of 1 | `MissedOnlyIfSomethingLeft`; `TwiceOnlyIfSomethingCame` |
| `duplicate_match` | two overlapping createMatch | violates `OneLinkPerTrip` |
| `captured_lost` | capture after cancellation, fair retries | violates `WebhookMarksPaid` |

**Why the bounds are enough to be interesting.** Two bookings on one request reach
the rematch after a decline or a cancellation on the same and on another trip, with
a payment left over from the first booking. Two requests on a trip reach a trip
with one booking completed and one under way. Two calls in flight are what a race
needs: each race of this code is between one stale copy and one other write. The
fees are chosen so that rounding happens (12.5 cents are charged as 13) and so that
offer and counter differ; the refunds so that Stripe refuses one and rounds one.
Three reviews of 1 or 5 stars have averages that must be rounded, and two of them
may be about one user while a third is about the other. Three sessions are a login,
its refresh, and one more that a second refresh or a login stores while the first
two are being ended; keys carry the user's id, so one user is enough. Two messages
on pages of one put a message between two pages of a history; a second tab, of either
party, comes and goes meanwhile (`ChatTabs` keeps it from opening the thread too).
Two payments of one booking may both be captured, in either order and around a crash of
either webhook. Two avatars are two that uploads bring at the same time over each other,
or one shown and one that replaces it while a form gives the first again; account types
differ in nothing but being set. Three documents on pages of one
put a change before, on and behind the page that is asked for, and with three instants
they stand in an order, or two of them tie; the looks of a list
differ in what takes a document into it, out of it, or to another place.

**Deadlock.** The runs `lifecycle`, `reviews`, `sessions`, `messaging` and `profiles`
check it; the others say `CHECK_DEADLOCK FALSE`, because with every id used and every
document closed, or with the last page shown, the instance rightly stops.

**Fairness.** Only `RetryingSpec`, of the runs `crash` and `captured_lost`, assumes any: weak fairness of each step of a
call, since Node runs every continuation that is ready; strong fairness of a
payment's webhook starting and of its save succeeding, since Stripe repeats a
webhook until it is answered and the database is not down for ever. Nothing is
assumed of users.

**Symmetry** is used where ids are interchangeable and only for safety; the runs
with liveness have none.

## 4. Disagreements

The two violation runs are listed under `findings` in `PROJECT.json`. More
behaviours were met while modelling and have no run of their own:

- `cancelBooking` tests a copy of the booking and saves `cancelled` over whatever it
  has become (`bookings/bookings.service.ts` 619-632): a payment recorded in between
  is cancelled with it, although the list of cancellable statuses (619-623) holds
  only pending, countered and confirmed bookings. `FundedHoweverStale` says what remains true.
- `createIntent` makes a new PaymentIntent at every call
  (`payments/payments.controller.ts` 57), so that a booking may be paid twice. The second
  payment finds the booking no longer `confirmed` and `markAsPaidFromWebhook` returns
  without a word (`bookings/bookings.service.ts` 406-408): Stripe keeps the money, no
  document names the payment, nothing refunds it, also when the booking is refunded, and
  statistics and reports do not show it. `ImplementsEscrow` gives such a payment an
  account of its own, on which it stays collected; `MoneyBalances` says that it is all
  that the reports leave out; `CheckoutEnds` that one of the two is recorded.
- `acceptBooking` lets the traveler who countered accept the own counter offer
  (`bookings/bookings.service.ts` 219-229), while acceptCounter says "Only the
  requester can accept the counter offer" (348): the requester is then charged a fee
  nobody asked the requester about.
- `sendToDevice` answers false to an outage of the push service as to a dead token
  (`common/fcm/fcm.service.ts` 107-117), so that `sendPush` unregisters the devices of
  the user in both cases (`notifications/notifications.service.ts` 92-94).
- A crash, or a failing save, between `refundPayment` and `booking.save()` in
  `admin/admin.service.ts` 747-766 leaves a refunded booking `disputed`; a later
  resolution may complete it. `RefundsAgreeWithStripe` holds of `Lifecycle` only.
- `rejectSupportRequest` cancels a request but not its booking; declining that
  booking afterwards sets the rejected request back to `pending`
  (`bookings/bookings.service.ts` 99).
- `maybeCompleteTrip` completes a trip that was cancelled
  (`bookings/bookings.service.ts` 118).
- The rating of a profile is "Average visible review rating"
  (`users/schemas/user.schema.ts` 95), but two overlapping reviews may leave the
  older of two averages on it, and a call that stops after its insert leaves the
  average of before, until the next review. `RatingWasTrue` says what remains.
- `deleteAllRefreshTokens` misses a session that a login or a refresh under way
  stores between KEYS and DEL (`common/redis/redis.service.ts` 87-89).
  `EarlierSessionsEnd` says what it reaches.
- `changeEmail` answers "Email updated. Please verify your new email."
  (`users/users.service.ts` 514), but a verification between its read and its save
  stays on the new address when the copy was not verified: only changed fields are
  saved (511-513). `VerifiedIsCurrent` says when the flag can be wrong.
- `onboardingStep` is 4 when onboarding is "finished" (`users/schemas/user.schema.ts`
  105), but a repeated third step that saves after the fourth leaves 3 beside
  `onboardingCompleted`. Nothing reads the step of a completed wizard.
- `uploadAvatar` deletes the old avatar before it saves the new address
  (`upload/upload.controller.ts` 110-113): if it fails in between, the profile shows an
  address without a file until the next upload (`cut` in `PhotoIsStored`).
- The profile form unsets the account type of a user whose onboarding is completed:
  `@IsOptional` lets null pass (`users/dto/update-profile.dto.ts` 43), the handler tests
  only for undefined (`users/users.service.ts` 245-247), and Mongoose takes null for an
  enum that is not required, while the wizard answers "accountType is required for step 3"
  (`onboarding/onboarding.service.ts` 27).
  `CompletedHasType` names the exception (`cleared`).
- The profile form and the last step of the wizard store any address as photo
  (`users/users.service.ts` 242-244, `onboarding/onboarding.service.ts` 44-46), also that
  of an avatar which a later upload has replaced and deleted: no failure and no overlap is
  needed for a photo without a file (`outdated` in `PhotoIsStored`).
- The queue of disputes is ordered oldest first and entries leave it while it is read:
  the entry behind the one resolved is skipped (`admin/admin.service.ts` 663-668);
  in every list but browse of requests, a document created between the two queries of a
  page ends a walk early.
- `raiseDispute` tests a copy of the booking and saves it (`bookings/bookings.service.ts`
  568-585): two parties that raise a dispute at once leave the later date and reason, and
  one that overlaps the resolution opens the dispute again. It then moves to the end of
  the queue, which may show it twice.
- Trips that depart at the same time (`trips/trips.service.ts` 240), and requests of the
  same level and deadline, which browse sorts after a query without a sort
  (`requests/requests.service.ts` 162-168), have no order of their own: two pages may
  show one twice and another never.
- An edit of a request may unset its level with null (`requests/requests.service.ts`
  244). Browse takes it for `low` (32), the list of support requests puts it behind
  `low` (`admin/admin.service.ts` 795).
- `listSupportRequests` filters by `adminApprovalStatus`
  (`admin/admin.service.ts` 782), but nothing writes `pending_review`
  (`requests/schemas/request.schema.ts` 49): that filter finds nothing. An approved
  request is announced as "now visible to travelers" (851); browse never looked at
  the approval, so it was visible before.
- A booking that a dispute completed leaves its request where it was
  (`admin/admin.service.ts` 766), so that a delivered support request is not among the
  fulfilled ones; `FulfilledWasDelivered` holds in this direction only.
- `volunteerDeliveries` of the platform's figures counts deliveries of any request,
  that of the impact report those of support requests.

## 5. Proofs

Every safety property and action property of a passing run is proved, and both
refinements: of `Escrow` by `Lifecycle`, of `Lifecycle` by `Handlers`. The theorems hold
from the named assumptions of the modules - `BookingDocs`: owners and parties are users,
fees are at least a cent and divide by ten, `NoId` is no id, the ids of bookings and of payments
are finitely many; `Reports`: thresholds are counts; `Reviews`, `Sessions`: `Nobody`, `Nothing` are no
ids; `Reviews`: a review gives one to five stars; `Profiles`: `External`, `Nothing` and
`Omitted` are no avatars and no account types, `Omitted` is neither of the others, and
there is an account type; `Messaging`: the two
parties of the booking differ, `Nobody` is neither of them nor a socket, a page holds a
message at least; `Listings`: there are finitely many documents, and a page holds a
document at least -
for any sets of users, requests, trips, bookings, payments, sessions, avatars, devices,
sockets, calls, lists of documents and amounts. That requests and users are finitely many
is not assumed. The refinement of `Lifecycle` also needs a call id (`CallIds # {}`):
without one nothing runs, and an action of `Lifecycle` has no call to be mapped from.

| module | theorem | property |
|---|---|---|
| `LifecycleProofs` | `TypeCorrect` | `TypeOK` |
| | `AtMostOneStandingBooking` | `OneLiveBooking` |
| | `RequestsTrackBookings` | `RequestTracksBooking` |
| | `CompletedTripsAreDone` | `CompletedTripIsDone` |
| | `TripCountsAreRight` | `TripCountsItsMatches` |
| | `DeliveriesAreFunded` | `DeliveryIsFunded` |
| | `RefundsMatchStripe` | `RefundsAgreeWithStripe` |
| | `ClosedBookingsStay` | `ClosedBookingsFrozen` |
| | `LifecycleImplementsEscrow` | `ImplementsEscrow` |
| | `MoneyAlwaysBalances` | `MoneyBalances` |
| | `FulfilledWereDelivered` | `FulfilledWasDelivered` |
| | `CreditStays` | `CreditIsKept` |
| `HandlersProofs` | `FundedHoweverStaleAlways` | `FundedHoweverStale` |
| | `CompletionIsEarnedAlways` | `CompletionIsEarned` |
| | `SplitMatchesFeeAlways` | `SplitMatchesFee` |
| | `OneLinkPerTripAlways` | `OneLinkPerTrip` |
| | `ChargedAsAgreedAlways` | `ChargedAsAgreed` |
| | `ClosedStayClosedAlways` | `ClosedStayClosed` |
| | `RefinesLifecycle` | `ImplementsLifecycle` |
| `ReviewsProofs` | `OneReviewEach` | `OneReviewPerAuthor` |
| | `ReviewsBetweenParties` | `ReviewsAreMutual` |
| | `AuthorsAreCounted` | `AuthorIsCounted` |
| | `TypeCorrect` | `TypeOK` |
| | `RatingsWereTrue` | `RatingWasTrue` |
| `SessionsProofs` | `TypeCorrect` | `TypeOK` |
| | `RefreshedSessionsAreGone` | `RefreshedIsGone` |
| | `RefreshTokensWorkOnce` | `OneSuccessor` |
| | `EndingsReachEarlierSessions` | `EarlierSessionsEnd` |
| `ProfilesProofs` | `CompletedHasTypeAlways` | `CompletedHasType` |
| | `WizardNeverStuckAlways` | `WizardNeverStuck` |
| | `VerifiedIsCurrentAlways` | `VerifiedIsCurrent` |
| | `PhotoIsStoredAlways` | `PhotoIsStored` |
| | `OnlyFailedTokensGoAlways` | `OnlyFailedTokensGo` |
| `MessagingProofs` | `TypeCorrect` | `TypeOK` |
| | `LoadedThreadShowsAll` | `OpenThreadShowsAll` |
| | `LoadedThreadIsRead` | `OpenThreadIsRead` |
| | `DismissedStaysDismissed` | `DismissedStays` |
| `ListingsProofs` | `NothingElseIsMissed` | `MissedOnlyIfSomethingLeft` |
| | `NothingElseIsTwice` | `TwiceOnlyIfSomethingCame` |
| `FiniteSums` | `SumTakesOut`, `SumOfParts` and what follows | - |

**The argument.** In `LifecycleProofs` a first section proves, for each edit of `BookingDocs`, what it
returns: a well-formed booking, on the same request and trip (`SameLink`), in which
status. The steps of all later proofs cite these lemmas and never open an edit.

*Types.* `TypeOK` is not inductive: an action that writes "the request of the
booking" keeps the type only when the booking refers to a request. `Typed` adds
that every existing booking is `WellFormed` (its request and trip are ids, an id
not yet used carries no data) and that every PaymentIntent names a booking.

*One standing booking.* `createMatch` looks only for a booking of the same request
on the same trip, so `OneLiveBooking` does not follow from its guard: the request
must be `pending`, and a pending request must have no standing booking. That is
what `RequestTracksBooking` says, and `RequestTracksBooking` in turn survives a
write to a request only if no second booking stands on it. Neither is inductive
alone; `MatchInv`, their conjunction, is inductive relative to `Typed`.

*Completed trips.* `CompletedTripIsDone` is inductive relative to `Typed`: a step
either edits one standing booking that is not completed, whose trip is therefore
not completed (`DoneEdit`), or adds a booking to an active trip, or is the
completion that completes the trip, after which the query of `maybeCompleteTrip`
has found nothing else standing.

*Money.* That a booking under way is paid does not follow from the guard of
`markInTransit`, which only sees a status. `FundInv` ties the two sides together.
`BookingFunded`: a booking from `paid` on names a captured PaymentIntent made for
it, and what it says was refunded is at most what was captured. `IntentBacked`: a
PaymentIntent was made for the agreed fee of its booking, which has not changed
since, and what Stripe gave back is what the booking it paid says. That the shares
add up to a fee of at least a cent goes back to the fee a user typed: `FeesOffered`
before the agreement, `FeeAgreed` after it. All of it is
inductive relative to `Typed`. That closed bookings stay is then a matter of the
guards: every edit starts from an open booking (`HandlersEditOpenBookings`).

*Escrow.* `EscrowAccount` maps each PaymentIntent to an account, whether a booking records
it or not. A step captures one payment, or edits one booking, or refunds the payment that
this booking records; so the step of the accounts is one step of one account or a
stutter. The lemmas show which, by the status the edit leaves, and `FundInv` gives the
amounts. `Credit` needs that no other payment is credited to the booking: only a
`confirmed` booking takes a payment, and one that is confirmed records none. The other
payments of a booking are not touched by any edit of it, which is why they stay collected.

*Counts.* `TripCountsItsMatches` compares a number with the size of a set. The step
lemmas say which set the standing matches become - the same, one more, one less -
and the facts of `FiniteSetTheorems` give its size, as `BookingIds` is finite.
`CountInv` adds that only a cancelled booking says who cancelled it, so that a
cancellation takes a booking out of the set that was in it.

*Overlapping calls.* `HandlersProofs` is about `FailingSpec`: any number of calls, each
failing where it likes. A status saved over a document that has moved on can only be
harmful through what the status promises. `Sound` is what every booking, and every copy
that a call is about to save, owes to its own status: an agreed fee, a payment, a proof,
someone who raised the dispute, and the one split of its fee. `Kept` is what handlers
never take away: those same facts, once there, stay. So whatever a booking had when a
call read it, it still has when the call saves, and `MergeSound` concludes that the
merge of a sound edit into a sound booking is sound, whichever fields each has changed:
the three fields of a fee differ together or not at all (`OneSplit`). A PaymentIntent
once captured for a booking stays so (`Backed`). `HandlersInv` puts these together and
is inductive.

*Calls that fail but do not overlap.* With `OneCall` - at most one call in flight -
`OneCallInv` adds that the copy of the call is the booking as it is (`CurrentCall`).
Then no closed booking is edited and no agreed fee changes again (`Moves`), so that a
PaymentIntent keeps the amount agreed on from its creation to its record
(`IntentCurrent`); and the query for an earlier link still holds at the insert, so that
a `createMatch` that died after its insert is not repeated.

*Calls that neither overlap nor fail.* `RefinesLifecycle` maps a state of `Handlers` to
one of `Lifecycle` in which the writes the call in flight still owes are made. `AloneInv`
adds to `OneCallInv` that bookings name existing requests and trips (`BookingsNamed`)
and, in `CallRuns`, what the call stands on at each await: which edit its copy is, that a
refund about to be saved is at Stripe, that a trip about to be completed has every booking
done. What is owed is spelled out per await in `RequestsDue`, `TripsDue` and
`BookingsDue`. The first half of a handler is a read and a stutter; the step that makes
its first write is the action of `Lifecycle`, since the copy is still the document
(`CurrentCall`); every later write pays what was owed, and stutters. New requests, trips
and payments are steps of both, also next to a call: they touch no document that a call
owes a write to, because a call names documents that exist.

*Reviews.* The unique index decides at the insert; the rest is what calls carry
between their awaits: a review of a completed booking (`CallsAreMutual`), a review
that is in the collection (`InsertedIsThere`), a summary of a prefix that holds it
(`SummaryCountsOwn`). Reviews are only appended, so a prefix stays one: each profile is
the summary of one (`ProfilesWereTrue`). Up to here `Summary` is never opened. That it
is a rating between one and five stars, within half a hundredth of the average, is
arithmetic on a sum that `FiniteSums` bounds (`StarsAddUp`, `AverageIsNear`).

*Sums.* The library defines a sum over a set by choosing one element after another.
`FiniteSums` shows that the choice does not matter: a function that gives a sum to every
subset, from which any element may be taken first, exists (`AddsExist`), and the
library's sum agrees with it (`SumIsAdded`). The induction these proofs need is over a
set of good subsets, since the library's induction theorem takes an operator
(`SubsetInduction`, from the well-foundedness of strict inclusion). Sums then grow with
their summands and their sets, add up, and split by any function on their elements
(`SumOfParts`).

*Reports.* Each completed booking has one requester and one traveler, so a sum over users
of sums over their bookings is the sum over the bookings (`SumByParty`), and the fee of a
booking is its payout and commission (`FundInv`). Every payment captured for a completed
booking, recorded or not, is of the agreed fee to half a cent, and nothing of it was given
back; the recorded ones are one for each booking. So what Stripe kept is the fees of the
bookings, and once more that of every payment which none of them records. Such a sum
needs finitely many payments (`IntentIdsAssumption`).
A fulfilled request has a completed booking, and only one (`RequestsInv`,
`OneLiveBooking`): two injections give the inequalities of the impact report. That the
requests in existence are finitely many, which the size of a set needs, is an invariant,
as each step creates at most one. Credit grows because completed bookings stay as they
are (`HandlersEditOpenBookings`), because an edit of a request's type needs the request
on the market (`EditsOneRequest`) where that of a completed booking never is again
(`RequestTracksBooking`), and because counts, sums, scores and badges grow with the sets
they are taken of.

*Sessions.* `SessionInv` says what a call holds at each await. A refresh past its
drop holds a session that is over (`RefreshHolds`), so a successor never stands
next to its parent. A session that is not shared is held by one call at most, and
by none past the test once it has a successor (`HeldOnce`): the test finds the
session gone. A call that ends sessions keeps, from the save on, that each session
stored then is still the user's, and after KEYS that it is among the keys or gone
(`EndingHolds`).

*Profiles.* `ProfileInv` says for each part of the document what a call about to save
it knows. `WizardInv`: a save of the third or the fourth step brings an account type or found
one, which is still there or was unset by the profile form (`TypeKept`). `MailInv`: a save of another address takes the
verification with it, unless there was none to take when the call read the user and
none came since. `PhotoInv`: until an upload saves it, its avatar is known to nobody else
(`Fresh`, `Unknown`: no form gives it and no other call deletes it); what an upload deletes
is the photo it found (`Upload`); a form's address that is not stored by the time it is
saved is `outdated`, and one that is stored then is deleted by an upload only, which is
still there to replace it or was `cut`. `PushInv`: a push takes off only tokens it failed
for, and no save writes the tokens (`WritesTyped`).

*Chat.* `MessagingInv` says of a tab in the room that it shows what was emitted since it
joined and, of the messages from before, those on the pages it has (`ThreadOK`); a call
that fetches the next page carries in `found` at least the messages from before that
belong to that page (`FetchOK`). Messages are appended only, so a page counted from the
beginning stays. The messages are marked as read before the page is queried, and a
message that arrives later is not one from before the tab joined. A message on its way
is sent by one call (`SentIsNew`), so no notification is written over another, and a call
that marks a notification as read saves only over one it has found (`NoticesAreFound`).

*Lists.* A query returns the list in some order that respects its sort: an unknown one
where documents tie. `Place` is the number of documents that may stand ahead of one; a
document that ties with none (`Untied`) stands in every such order just behind as many
(`PlaceInOrder`), however the others tie. `WalkInv` says where documents stand while
the client walks: one that must still be shown (`MustSee`: nothing ahead of it left)
stands behind the pages read, one that has been shown and must not be shown again
(`NeverTwice`: nothing came ahead of it) stands on them. Between the two queries of a
page, `FoundOK` keeps what the page found true while documents change, `TotalOK` that
the total reaches beyond every document still due, unless the two raced. A change of
the collection moves a document only the way that `walk` records (`FollowedPlace`). None
of it looks at what a handler may write (`HandlerChanges`): the theorems hold for any
change of the other documents.

**Only model-checked.** Liveness (`CheckoutEnds`) and whatever needs fairness or ENABLED.

## 6. Not modelled

- *Accounts*: registration, the one-time codes of a forgotten password, changes of the
  phone number and of roles. Each is one query and one write behind a unique index or a
  key that expires by itself. Blocked users and reports of users are lists that nothing
  else reads.
- *Trips and requests*: the rules that `update` applies to dates and prices. They look
  at the copy that was read merged with the form, so that two overlapping edits may
  together leave what each would refuse; no text says more about them.
- *Uploads* for deliveries and items: they store a file and return its address, to which
  nothing refers until a later call sends it back as text.
- *Statistics*: revenue by week, month and type, the top travelers, the loyalty
  overview: sums of the same queries over other periods.
- *Typing events, `booking:updated`, the handshake of a socket*: no state changes.
- *E-mail, wiring, validation, error formatting, the seed script*: no state, or run by
  hand before the service starts.
