------------------------------ MODULE Listings ------------------------------
(***************************************************************************)
(* The paged lists of the service: what each shows, in which order, and    *)
(* what a client sees that walks through the pages of one list while its   *)
(* documents come, change and go.                                          *)
(*                                                                         *)
(* The fields of a document are those that some list filters or sorts by:  *)
(*   status    status of a request, trip, booking or account; isRead       *)
(*   approval  adminApprovalStatus                                         *)
(*   kind      type of a request or notification, pricingType of a trip,   *)
(*             role of a user                                              *)
(*   urgency   urgencyLevel of a request                                   *)
(*   detail    origin, destination, category, owner: all that is compared  *)
(*             with a value of the query                                   *)
(*   amount    budget of a request, pricePerKg of a trip                   *)
(*   date      deliveryDeadline, departureDate                             *)
(*   at        createdAt; disputeRaisedAt in the list of disputes          *)
(* A query has the same fields, Nothing where it does not ask; of amount,  *)
(* date and at it has the set of those that it accepts.                    *)
(***************************************************************************)
EXTENDS Integers, FiniteSets, SequencesExt

CONSTANTS
  Docs,     \* ids of documents: bounds those created
  Lists,    \* the lists walked through
  Forms,    \* for each list, what its documents may look like
  Queries,  \* for each list, what clients may ask for
  Times,    \* the instants at which documents are created
  Limit,    \* documents on a page: 10 or 20, at most 100
  Nothing   \* not asked, not set, not answered

ASSUME LimitAssumption == Limit \in Nat \ {0}

ASSUME DocsAssumption == IsFiniteSet(Docs)

VARIABLES
  docs,    \* the collection: what each document looks like, Nothing if it is not there
  list,    \* the list the client walks through
  query,   \* what it asks for
  client,  \* the page it wants, and what it was answered so far
  walk     \* history: what became of the documents that the walk found in the list

vars == <<docs, list, query, client, walk>>

-----------------------------------------------------------------------------
(* What is in a list. *)

Wanted(asked, value) == asked = Nothing \/ asked = value

InRange(asked, value) == asked = Nothing \/ value \in asked

\* requests.service.ts browse: supportOnly is asked as kind.  A budget is asked of
\* standard requests only.
BrowsableRequest(q, x) ==
  /\ x.status = "pending"
  /\ Wanted(q.detail, x.detail)
  /\ Wanted(q.kind, x.kind)
  /\ Wanted(q.urgency, x.urgency)
  /\ InRange(q.date, x.date)
  /\ x.kind = "support" \/ InRange(q.amount, x.amount)

\* trips.service.ts browse
BrowsableTrip(q, x) ==
  /\ x.status = "active"
  /\ Wanted(q.detail, x.detail)
  /\ InRange(q.date, x.date)
  /\ x.kind = "negotiable" \/ InRange(q.amount, x.amount)

\* admin.service.ts
ListedUser(q, x) ==
  /\ Wanted(q.status, x.status)
  /\ Wanted(q.detail, x.detail)
  /\ q.kind = "admin" => x.kind \in {"admin", "superadmin"}
  /\ q.kind = "user" => x.kind = "user"
  /\ InRange(q.at, x.at)

ListedTrip(q, x) ==
  /\ Wanted(q.status, x.status)
  /\ Wanted(q.detail, x.detail)
  /\ InRange(q.at, x.at)

\* detail is one of the parties.
ListedBooking(q, x) ==
  /\ Wanted(q.status, x.status)
  /\ Wanted(q.detail, x.detail)
  /\ InRange(q.at, x.at)

ListedRequest(q, x) ==
  /\ Wanted(q.status, x.status)
  /\ Wanted(q.kind, x.kind)
  /\ Wanted(q.urgency, x.urgency)
  /\ Wanted(q.detail, x.detail)

ListedDispute(q, x) == x.status = "disputed" /\ InRange(q.at, x.at)

ListedSupportRequest(q, x) ==
  /\ x.kind = "support"
  /\ Wanted(q.approval, x.approval)
  /\ Wanted(q.urgency, x.urgency)
  /\ Wanted(q.status, x.status)

\* detail is the referrer, which no handler writes.
ListedReferral(x) == x.detail # Nothing

\* notifications.service.ts: those of one user
ListedNotification(q, x) == Wanted(q.status, x.status) /\ Wanted(q.kind, x.kind)

Matches(x) ==
  CASE list = "browseRequests" -> BrowsableRequest(query, x)
    [] list = "browseTrips" -> BrowsableTrip(query, x)
    [] list = "listUsers" -> ListedUser(query, x)
    [] list = "listTrips" -> ListedTrip(query, x)
    [] list = "listBookings" -> ListedBooking(query, x)
    [] list = "listRequests" -> ListedRequest(query, x)
    [] list = "listDisputes" -> ListedDispute(query, x)
    [] list = "listSupportRequests" -> ListedSupportRequest(query, x)
    [] list = "listReferrals" -> ListedReferral(x)
    [] list = "getNotifications" -> ListedNotification(query, x)

InList(ds) == {d \in Docs : ds[d] # Nothing /\ Matches(ds[d])}

-----------------------------------------------------------------------------
(* In which order. *)

Levels == <<"critical", "high", "medium", "low">>

\* An edit with null leaves a request without a level.
Rank(level, unset) ==
  IF level = Nothing THEN unset ELSE CHOOSE n \in DOMAIN Levels : Levels[n] = level

Lower(m, n) == m[1] < n[1] \/ (m[1] = n[1] /\ m[2] < n[2])

\* The service sorts what an unsorted query found: the order of requests that agree
\* in level and deadline is open.  One without a level counts as low.
RequestAhead(x, y) ==
  Lower(<<Rank(x.urgency, 4), x.date>>, <<Rank(y.urgency, 4), y.date>>)

\* MongoDB promises no order of documents that the sort does not tell apart.
TripAhead(x, y) == x.date < y.date

\* Here, one without a level comes after all others.
SupportAhead(x, y) ==
  Lower(<<Rank(x.urgency, 5), x.at>>, <<Rank(y.urgency, 5), y.at>>)

OldestFirst(x, y) == x.at < y.at

NewestFirst(x, y) == y.at < x.at

Ahead(x, y) ==
  CASE list = "browseRequests" -> RequestAhead(x, y)
    [] list = "browseTrips" -> TripAhead(x, y)
    [] list = "listSupportRequests" -> SupportAhead(x, y)
    [] list = "listDisputes" -> OldestFirst(x, y)
    [] OTHER -> NewestFirst(x, y)

\* The orders in which a query may return the list.
Orders ==
  {s \in SetToSeqs(InList(docs)) :
     \A i, j \in DOMAIN s : i < j => ~Ahead(docs[s[j]], docs[s[i]])}

\* Mutant: pages are counted from zero.
Skip_FromZero(page) == page * Limit

Skip(page) == (page - 1) * Limit

\* Mutant: the end of a page is counted in.
Slice_Inclusive(s, page) ==
  {s[i] : i \in DOMAIN s \cap (Skip(page) + 1 .. Skip(page) + Limit + 1)}

Slice(s, page) == {s[i] : i \in DOMAIN s \cap (Skip(page) + 1 .. Skip(page) + Limit)}

-----------------------------------------------------------------------------

\* steady: the documents that are followed; up, down: those of them ahead of which
\* one left or came; seen, twice: those the client has seen, or seen again; raced:
\* a change came between the two answers for a page.
NoWalk ==
  [steady |-> {}, up |-> {}, down |-> {}, seen |-> {}, twice |-> {}, raced |-> FALSE]

NewClient == [pc |-> "idle", page |-> 1, found |-> Nothing, total |-> Nothing]

Init ==
  /\ docs = [d \in Docs |-> Nothing]
  /\ list \in Lists
  /\ query \in Queries[list]
  /\ client = NewClient
  /\ walk = NoWalk

-----------------------------------------------------------------------------
(* The collection changes. *)

\* d stands ahead of e, or may: the order of ties is open.
MayPrecede(ds, d, e) == d \in InList(ds) /\ ~Ahead(ds[e], ds[d])

\* Those of the list that the sort tells apart from all others.
Untied(ds) ==
  {d \in InList(ds) : \A e \in InList(ds) \ {d} : Ahead(ds[d], ds[e]) \/ Ahead(ds[e], ds[d])}

\* What a change means to the documents found when the walk began: those that it
\* takes off the list, edits or ties are not followed any longer.
Followed(ds) ==
  LET steady == {d \in walk.steady \cap Untied(ds) : ds[d] = docs[d]}
      others(d) == Docs \ {d}
  IN [steady |-> steady,
      up |-> {d \in steady : \/ d \in walk.up
                             \/ \E e \in others(d) : MayPrecede(docs, e, d) /\ ~MayPrecede(ds, e, d)},
      down |-> {d \in steady : \/ d \in walk.down
                               \/ \E e \in others(d) : ~MayPrecede(docs, e, d) /\ MayPrecede(ds, e, d)},
      seen |-> walk.seen \cap steady,
      twice |-> walk.twice \cap steady,
      raced |-> walk.raced \/ client.found # Nothing \/ client.total # Nothing]

Become(ds) ==
  /\ client.pc # "done"
  /\ docs' = ds
  /\ walk' = IF client.pc = "walking" THEN Followed(ds) ELSE walk
  /\ UNCHANGED <<list, query, client>>

\* A request, a trip, a user, ... is created, a dispute raised.  The handler reads the
\* time before its write arrives: others may have got there first.
Create(d, form, t) ==
  /\ docs[d] = Nothing
  /\ form.status \in {"pending", "active", "pending_acceptance", "disputed", "unread"}
  /\ Become([docs EXCEPT ![d] = [form EXCEPT !.at = t]])

\* No handler makes a trip active again.
TripMayBecome(x, y) == y.status = "active" => x.status = "active"

\* A notification is read, and never unread again.
NotificationMayBecome(x, y) == y.kind = x.kind /\ y.status = "read"

\* Nothing in the service edits who referred a user.
ReferralMayBecome(x, y) == y.detail = x.detail

\* A handler edits a document, or changes its status; of requests, bookings and users
\* any change is taken into account.  createdAt stays; a dispute that is raised while
\* the other party raises it, or an administrator resolves it, is dated anew.
Change(d, form, t) ==
  /\ docs[d] # Nothing
  /\ list \in {"browseTrips", "listTrips"} => TripMayBecome(docs[d], form)
  /\ list = "getNotifications" => NotificationMayBecome(docs[d], form)
  /\ list = "listReferrals" => ReferralMayBecome(docs[d], form)
  /\ t = docs[d].at \/ (list = "listDisputes" /\ form.status = "disputed")
  /\ Become([docs EXCEPT ![d] = [form EXCEPT !.at = t]])

\* Of all that is listed, only notifications are deleted.
DeleteNotification(d) ==
  /\ list = "getNotifications"
  /\ docs[d] # Nothing
  /\ Become([docs EXCEPT ![d] = Nothing])

-----------------------------------------------------------------------------
(* The client, and the queries of the page that it asks for. *)

Open ==
  /\ client.pc = "idle"
  /\ client' = [client EXCEPT !.pc = "walking"]
  /\ walk' = [NoWalk EXCEPT !.steady = Untied(docs)]
  /\ UNCHANGED <<docs, list, query>>

\* With both answers the client shows the page; it asks for the next one until the
\* total is reached.
Answer(found, total) ==
  /\ IF found = Nothing \/ total = Nothing
     THEN /\ client' = [client EXCEPT !.found = found, !.total = total]
          /\ UNCHANGED walk
     ELSE /\ client' = [client EXCEPT !.found = Nothing, !.total = Nothing,
                          !.pc = IF client.page * Limit < total THEN @ ELSE "done",
                          !.page = @ + 1]
          /\ walk' = [walk EXCEPT !.seen = @ \cup (found \cap walk.steady),
                                  !.twice = @ \cup (found \cap walk.seen)]
  /\ UNCHANGED <<docs, list, query>>

\* browse of requests finds all, and counts what it found.
BrowseRequests ==
  /\ client.pc = "walking"
  /\ list = "browseRequests"
  /\ \E s \in Orders : Answer(Slice(s, client.page), Len(s))

\* The others run find() and countDocuments() in parallel.
FindPage ==
  /\ client.pc = "walking"
  /\ list # "browseRequests"
  /\ client.found = Nothing
  /\ \E s \in Orders : Answer(Slice(s, client.page), client.total)

CountDocuments ==
  /\ client.pc = "walking"
  /\ list # "browseRequests"
  /\ client.total = Nothing
  /\ Answer(client.found, Cardinality(InList(docs)))

Next ==
  \/ \E d \in Docs :
       \/ \E form \in Forms[list], t \in Times : Create(d, form, t) \/ Change(d, form, t)
       \/ DeleteNotification(d)
  \/ Open \/ BrowseRequests \/ FindPage \/ CountDocuments

Spec == Init /\ [][Next]_vars

-----------------------------------------------------------------------------

\* A client that has walked through a list has seen every document that stayed in
\* it as it was, told apart from the others by the sort, unless another ahead of it
\* left, or the total was counted before another came and the page found after.
MissedOnlyIfSomethingLeft ==
  client.pc = "done" =>
    \A d \in walk.steady \ walk.seen : d \in walk.up \/ (walk.raced /\ d \in walk.down)

\* It has seen such a document twice only if another came ahead of it meanwhile.
TwiceOnlyIfSomethingCame == walk.twice \subseteq walk.down

=============================================================================
