---------------------------- MODULE ListingsProofs ----------------------------
(***************************************************************************)
(* Proofs about Listings, for lists with any documents, queries and orders *)
(* and pages of any size.                                                  *)
(***************************************************************************)
EXTENDS Listings, FiniteSetTheorems, TLAPS

\* The documents that may stand ahead of d, and how many they are.
Preceding(ds, d) == {e \in Docs \ {d} : MayPrecede(ds, e, d)}

Place(d) == Cardinality(Preceding(docs, d))

ClientType ==
  [pc : {"idle", "walking", "done"}, page : Nat \ {0}, found : (SUBSET Docs) \cup {Nothing},
   total : Nat \cup {Nothing}]

WalkType ==
  [steady : SUBSET Docs, up : SUBSET Docs, down : SUBSET Docs, seen : SUBSET Docs,
   twice : SUBSET Docs, raced : BOOLEAN]

Typed ==
  /\ docs = [d \in Docs |-> docs[d]]
  /\ list \in Lists
  /\ client \in ClientType
  /\ walk \in WalkType

\* What the walk says of the documents it follows.
FollowInv ==
  /\ client.pc = "idle" => client = NewClient
  /\ client.pc # "idle" => walk.steady \subseteq Untied(docs)
  /\ walk.seen \subseteq walk.steady /\ walk.twice \subseteq walk.steady

\* Those that are not excused from being shown, and those not from being repeated.
MustSee == walk.steady \ (walk.up \cup walk.seen)

NeverTwice == walk.steady \ walk.down

FoundOK(found) ==
  /\ \A d \in MustSee \ found : client.page * Limit <= Place(d)
  /\ \A d \in NeverTwice \cap found : Place(d) < client.page * Limit /\ d \notin walk.seen

TotalOK(total) == \A d \in MustSee : (walk.raced /\ d \in walk.down) \/ Place(d) < total

\* Where the documents stand that the client has not seen, and those it has.
WalkInv ==
  client.pc = "walking" =>
    /\ \A d \in MustSee : (client.page - 1) * Limit <= Place(d)
    /\ \A d \in NeverTwice \cap walk.seen : Place(d) < (client.page - 1) * Limit
    /\ client.found # Nothing => FoundOK(client.found)
    /\ client.total # Nothing => TotalOK(client.total)

ListingsInv ==
  /\ Typed /\ FollowInv /\ WalkInv
  /\ MissedOnlyIfSomethingLeft /\ TwiceOnlyIfSomethingCame

-----------------------------------------------------------------------------
(* Where a document stands. *)

LEMMA PrecedingFinite ==
  ASSUME NEW d
  PROVE  /\ IsFiniteSet(Preceding(docs, d))
         /\ Place(d) \in Nat
         /\ IsFiniteSet(InList(docs))
         /\ Cardinality(InList(docs)) \in Nat
         /\ d \in InList(docs) => Place(d) < Cardinality(InList(docs))
<1>1. Preceding(docs, d) \subseteq InList(docs) \ {d}
  BY DEF Preceding, MayPrecede
<1>2. InList(docs) \subseteq Docs
  BY DEF InList
<1>3. IsFiniteSet(InList(docs)) /\ Cardinality(InList(docs)) \in Nat
  BY <1>2, DocsAssumption, FS_Subset, FS_CardinalityType
<1>4. /\ IsFiniteSet(InList(docs) \ {d})
      /\ d \in InList(docs) =>
           Cardinality(InList(docs) \ {d}) = Cardinality(InList(docs)) - 1
  BY <1>3, FS_RemoveElement
<1>5. /\ IsFiniteSet(Preceding(docs, d))
      /\ Cardinality(Preceding(docs, d)) <= Cardinality(InList(docs) \ {d})
  BY <1>1, <1>4, FS_Subset
<1>6. Cardinality(Preceding(docs, d)) \in Nat /\ Cardinality(InList(docs) \ {d}) \in Nat
  BY <1>4, <1>5, FS_CardinalityType
<1>7. QED
  BY <1>3, <1>4, <1>5, <1>6 DEF Place

LEMMA PlacesFinite == \A d : IsFiniteSet(Preceding(docs, d)) /\ Place(d) \in Nat
  BY PrecedingFinite

LEMMA PlacesStayFinite == (\A d : IsFiniteSet(Preceding(docs, d)) /\ Place(d) \in Nat)'
  BY PlacesFinite, PTL

\* A query returns every document of the list, each once.
LEMMA OrderIsBijection ==
  ASSUME NEW s \in Orders
  PROVE  /\ s \in Bijection(1 .. Cardinality(InList(docs)), InList(docs))
         /\ DOMAIN s = 1 .. Cardinality(InList(docs))
         /\ Len(s) = Cardinality(InList(docs))
<1> DEFINE N == Cardinality(InList(docs))
<1>1. IsFiniteSet(InList(docs)) /\ N \in Nat
  BY PrecedingFinite
<1>2. s \in [1 .. N -> InList(docs)] /\ \A i, j \in 1 .. N : i # j => s[i] # s[j]
  BY DEF Orders, SetToSeqs
<1>3. s \in Injection(1 .. N, InList(docs))
  BY <1>2 DEF Injection, IsInjective
<1>4. Cardinality(1 .. N) = N
  BY <1>1, FS_Interval
<1>5. s \in Surjection(1 .. N, InList(docs))
  BY <1>1, <1>3, <1>4, FS_Injection
<1>6. Len(s) = N
  BY <1>1, <1>2
<1>7. QED
  BY <1>2, <1>3, <1>5, <1>6 DEF Bijection

\* In a query's answer, a document that is tied with none stands behind as many as
\* may precede it.
LEMMA PlaceInOrder ==
  ASSUME NEW s \in Orders, NEW k \in DOMAIN s, s[k] \in Untied(docs)
  PROVE  k = Place(s[k]) + 1
<1> DEFINE N == Cardinality(InList(docs))
           d == s[k]
           before == 1 .. k - 1
           f == [i \in before |-> s[i]]
<1>1. /\ N \in Nat /\ DOMAIN s = 1 .. N
      /\ s \in [1 .. N -> InList(docs)]
      /\ \A i, j \in 1 .. N : i # j => s[i] # s[j]
      /\ \A e \in InList(docs) : \E i \in 1 .. N : s[i] = e
  BY OrderIsBijection, PrecedingFinite DEF Bijection, Injection, IsInjective, Surjection
<1>2. \A i, j \in 1 .. N : i < j => ~Ahead(docs[s[j]], docs[s[i]])
  BY <1>1 DEF Orders
<1>3. \A e \in InList(docs) \ {d} : Ahead(docs[d], docs[e]) \/ Ahead(docs[e], docs[d])
  BY DEF Untied
<1>4. ASSUME NEW i \in before PROVE s[i] \in Preceding(docs, d)
  BY <1>1, <1>2, <1>4 DEF Preceding, MayPrecede, InList
<1>5. ASSUME NEW e \in Preceding(docs, d) PROVE \E i \in before : s[i] = e
  <2>1. e \in InList(docs) /\ e # d /\ ~Ahead(docs[d], docs[e])
    BY DEF Preceding, MayPrecede
  <2>2. PICK i \in 1 .. N : s[i] = e
    BY <1>1, <2>1
  <2>3. ~(k < i)
    BY <1>1, <1>2, <1>3, <2>1, <2>2
  <2>4. i # k
    BY <2>1, <2>2
  <2>5. QED
    BY <1>1, <2>2, <2>3, <2>4
<1>6. f \in Bijection(before, Preceding(docs, d))
  <2>1. f \in [before -> Preceding(docs, d)]
    BY <1>4
  <2>2. \A i, j \in before : f[i] = f[j] => i = j
    BY <1>1
  <2>3. \A e \in Preceding(docs, d) : \E i \in before : f[i] = e
    BY <1>5
  <2> HIDE DEF f, before, d
  <2>4. QED
    BY <2>1, <2>2, <2>3 DEF Bijection, Injection, IsInjective, Surjection
<1>7. IsFiniteSet(before) /\ Cardinality(before) = k - 1
  <2>1. k \in Int /\ k >= 1 /\ k - 1 \in Int
    BY <1>1
  <2>2. QED
    BY <2>1, FS_Interval
<1>8. Cardinality(Preceding(docs, d)) = k - 1
  <2> HIDE DEF f, before, d
  <2>1. QED
    BY <1>6, <1>7, FS_Bijection DEF ExistsBijection
<1>9. QED
  BY <1>1, <1>8 DEF Place

LEMMA PageLimits ==
  ASSUME NEW p \in Nat \ {0}
  PROVE  /\ Skip(p) = (p - 1) * Limit
         /\ Skip(p) + Limit = p * Limit
         /\ (p - 1) * Limit \in Nat /\ p * Limit \in Nat
  BY LimitAssumption DEF Skip

\* A page shows, of the documents tied with none, those whose place is on it.
LEMMA OnPage ==
  ASSUME NEW s \in Orders, NEW d \in Untied(docs), NEW p \in Nat \ {0}
  PROVE  d \in Slice(s, p) <=> (p - 1) * Limit <= Place(d) /\ Place(d) < p * Limit
<1>1. PICK k \in DOMAIN s : s[k] = d
  BY OrderIsBijection DEF Untied, Bijection, Surjection
<1>2. k = Place(d) + 1 /\ k \in Int
  BY <1>1, PlaceInOrder, OrderIsBijection
<1>3. \A i \in DOMAIN s : s[i] = d => i = k
  BY <1>1, OrderIsBijection DEF Bijection, Injection, IsInjective
<1>4. d \in Slice(s, p) <=> k \in Skip(p) + 1 .. Skip(p) + Limit
  BY <1>1, <1>3 DEF Slice
<1>5. QED
  BY <1>2, <1>4, PageLimits, PrecedingFinite, LimitAssumption

LEMMA SliceInList ==
  ASSUME NEW s \in Orders, NEW p
  PROVE  Slice(s, p) \subseteq InList(docs)
  BY OrderIsBijection DEF Slice, Bijection, Injection

-----------------------------------------------------------------------------
(* Steps. *)

LEMMA SameList ==
  ASSUME UNCHANGED <<list, query>>
  PROVE  /\ InList(docs)' = InList(docs')
         /\ \A x, y : Ahead(x, y)' = Ahead(x, y)
         /\ \A d, e : MayPrecede(docs, d, e)' = MayPrecede(docs', d, e)
         /\ \A d : Preceding(docs, d)' = Preceding(docs', d)
         /\ Untied(docs)' = Untied(docs')
<1>1. \A x : Matches(x)' = Matches(x)
  BY DEF Matches, BrowsableRequest, BrowsableTrip, ListedUser, ListedTrip, ListedBooking,
         ListedRequest, ListedDispute, ListedSupportRequest, ListedReferral,
         ListedNotification
<1>2. InList(docs)' = InList(docs')
  BY <1>1 DEF InList
<1>3. \A x, y : Ahead(x, y)' = Ahead(x, y)
  BY DEF Ahead
<1>4. \A d, e : MayPrecede(docs, d, e)' = MayPrecede(docs', d, e)
  BY <1>2, <1>3 DEF MayPrecede
<1>5. Untied(docs)' = Untied(docs')
  BY <1>2, <1>3 DEF Untied
<1>6. QED
  BY <1>2, <1>3, <1>4, <1>5 DEF Preceding

\* Nothing moves while the client asks.
LEMMA SamePlaces ==
  ASSUME UNCHANGED <<docs, list, query>>
  PROVE  /\ InList(docs)' = InList(docs)
         /\ \A d : Place(d)' = Place(d)
         /\ Untied(docs)' = Untied(docs)
  BY SameList DEF Place

\* What becomes of a document that a walk still follows after a change.
LEMMA FollowedDocument ==
  ASSUME Typed, Become(docs'), client.pc = "walking", NEW d \in walk'.steady
  PROVE  /\ d \in walk.steady /\ d \in Untied(docs')
         /\ d \in walk.up => d \in walk'.up
         /\ d \in walk.down => d \in walk'.down
         /\ d \in walk.seen <=> d \in walk'.seen
         /\ d \in walk.twice <=> d \in walk'.twice
         /\ d \notin walk'.up => Preceding(docs, d) \subseteq Preceding(docs', d)
         /\ d \notin walk'.down => Preceding(docs', d) \subseteq Preceding(docs, d)
         /\ walk'.raced = (walk.raced \/ client.found # Nothing \/ client.total # Nothing)
<1>1. walk' = Followed(docs')
  BY DEF Become
<1>2. d \in walk.steady /\ d \in Untied(docs')
  BY <1>1 DEF Followed
<1>3. d \notin walk'.up => \A e \in Docs \ {d} : MayPrecede(docs, e, d) => MayPrecede(docs', e, d)
  BY <1>1 DEF Followed
<1>4. d \notin walk'.down => \A e \in Docs \ {d} : MayPrecede(docs', e, d) => MayPrecede(docs, e, d)
  BY <1>1 DEF Followed
<1>5. QED
  BY <1>1, <1>2, <1>3, <1>4 DEF Followed, Preceding

\* Its place, accordingly.
LEMMA FollowedPlace ==
  ASSUME Typed, Become(docs'), client.pc = "walking", NEW d \in walk'.steady
  PROVE  /\ d \notin walk'.up => Place(d) <= Place(d)'
         /\ d \notin walk'.down => Place(d)' <= Place(d)
         /\ Place(d) \in Nat /\ Place(d)' \in Nat
<1>1. UNCHANGED <<list, query>>
  BY DEF Become
<1>2. Preceding(docs, d)' = Preceding(docs', d)
  BY <1>1, SameList
<1>3. IsFiniteSet(Preceding(docs, d)) /\ Place(d) \in Nat
  BY PrecedingFinite
<1>4. (\A e : IsFiniteSet(Preceding(docs, e)) /\ Place(e) \in Nat)'
  BY PlacesStayFinite
<1>5. QED
  BY <1>2, <1>3, <1>4, FollowedDocument, FS_Subset DEF Place

\* The documents change, and the walk with them.
LEMMA ChangeFollowed ==
  ASSUME Typed, FollowInv, Become(docs'), docs' = [d \in Docs |-> docs'[d]]
  PROVE  Typed' /\ FollowInv'
<1>1. client' = client /\ UNCHANGED <<list, query>>
  BY DEF Become
<1>2. CASE client.pc # "walking"
  <2>1. client.pc = "idle" /\ walk' = walk
    BY <1>2 DEF Become, Typed, ClientType
  <2>2. QED
    BY <1>1, <2>1 DEF Typed, FollowInv
<1>3. CASE client.pc = "walking"
  <2>1. walk' = Followed(docs')
    BY <1>3 DEF Become
  <2>2. walk' \in WalkType
    BY <2>1 DEF Followed, Typed, WalkType
  <2>3. walk'.steady \subseteq Untied(docs)'
    BY <1>1, <1>3, FollowedDocument, SameList
  <2>4. walk'.seen \subseteq walk'.steady /\ walk'.twice \subseteq walk'.steady
    BY <2>1 DEF Followed
  <2>5. QED
    BY <1>1, <1>3, <2>2, <2>3, <2>4 DEF Typed, FollowInv
<1>4. QED
  BY <1>2, <1>3

LEMMA ChangeKeepsWalk ==
  ASSUME Typed, FollowInv, WalkInv, Become(docs')
  PROVE  WalkInv'
<1>1. client' = client /\ UNCHANGED <<list, query>>
  BY DEF Become
<1>2. SUFFICES ASSUME client.pc = "walking" PROVE WalkInv'
  BY <1>1 DEF WalkInv
<1>3. client.page \in Nat \ {0}
  BY DEF Typed, ClientType
<1>4. /\ client.page * Limit \in Nat
      /\ (client.page - 1) * Limit \in Nat
  BY <1>3, PageLimits
<1>5. \A d \in MustSee' : d \in MustSee /\ Place(d) <= Place(d)'
  BY <1>2, FollowedDocument, FollowedPlace DEF MustSee
<1>6. \A d \in NeverTwice' :
         d \in NeverTwice /\ Place(d)' <= Place(d) /\ (d \in walk.seen <=> d \in walk'.seen)
  BY <1>2, FollowedDocument, FollowedPlace DEF NeverTwice
<1>7. \A d \in walk'.steady : Place(d) \in Nat /\ Place(d)' \in Nat
  BY <1>2, FollowedPlace
<1>8. MustSee' \subseteq walk'.steady /\ NeverTwice' \subseteq walk'.steady
  BY DEF MustSee, NeverTwice
<1>9. \A d \in MustSee' : (client.page - 1) * Limit <= Place(d)'
  BY <1>2, <1>4, <1>5, <1>7, <1>8 DEF WalkInv
<1>10. \A d \in NeverTwice' \cap walk'.seen : Place(d)' < (client.page - 1) * Limit
  BY <1>2, <1>4, <1>6, <1>7, <1>8 DEF WalkInv
<1>11. ASSUME client.found # Nothing PROVE FoundOK(client.found)'
  <2>1. FoundOK(client.found)
    BY <1>2, <1>11 DEF WalkInv
  <2>2. \A d \in MustSee' \ client.found : client.page * Limit <= Place(d)'
    BY <1>4, <1>5, <1>7, <1>8, <2>1 DEF FoundOK
  <2>3. \A d \in NeverTwice' \cap client.found :
           Place(d)' < client.page * Limit /\ d \notin walk'.seen
    BY <1>4, <1>6, <1>7, <1>8, <2>1 DEF FoundOK
  <2>4. QED
    BY <1>1, <2>2, <2>3 DEF FoundOK
<1>12. ASSUME client.total # Nothing PROVE TotalOK(client.total)'
  <2>1. TotalOK(client.total)
    BY <1>2, <1>12 DEF WalkInv
  <2>2. ASSUME NEW d \in MustSee' PROVE (walk'.raced /\ d \in walk'.down) \/ Place(d)' < client.total
    <3>1. CASE d \in walk'.down
      BY <1>2, <1>8, <1>12, <3>1, FollowedDocument
    <3>2. CASE d \notin walk'.down
      <4>1. Place(d)' <= Place(d) /\ d \notin walk.down
        BY <1>2, <1>8, <3>2, FollowedPlace, FollowedDocument
      <4>2. Place(d) < client.total
        BY <1>5, <2>1, <2>2, <4>1 DEF TotalOK
      <4>3. client.total \in Nat
        BY <1>12 DEF Typed, ClientType
      <4>4. QED
        BY <1>7, <1>8, <4>1, <4>2, <4>3
    <3>3. QED
      BY <3>1, <3>2
  <2>3. QED
    BY <1>1, <2>2 DEF TotalOK
<1>13. QED
  BY <1>1, <1>9, <1>10, <1>11, <1>12 DEF WalkInv

LEMMA ChangeKeepsResult ==
  ASSUME Typed, FollowInv, FollowInv', MissedOnlyIfSomethingLeft,
         TwiceOnlyIfSomethingCame, Become(docs')
  PROVE  MissedOnlyIfSomethingLeft' /\ TwiceOnlyIfSomethingCame'
<1>1. client' = client /\ client.pc # "done"
  BY DEF Become
<1>2. CASE client.pc = "walking"
  <2>1. \A d \in walk'.twice : d \in walk.twice /\ (d \in walk.down => d \in walk'.down)
    BY <1>2, FollowedDocument DEF FollowInv
  <2>2. QED
    BY <1>1, <2>1 DEF MissedOnlyIfSomethingLeft, TwiceOnlyIfSomethingCame
<1>3. CASE client.pc # "walking"
  BY <1>1, <1>3 DEF Become, MissedOnlyIfSomethingLeft, TwiceOnlyIfSomethingCame
<1>4. QED
  BY <1>2, <1>3

\* Every step of a handler is such a change.
LEMMA HandlerChanges ==
  ASSUME Typed, NEW d \in Docs,
         \/ \E form \in Forms[list], t \in Times : Create(d, form, t) \/ Change(d, form, t)
         \/ DeleteNotification(d)
  PROVE  Become(docs') /\ docs' = [e \in Docs |-> docs'[e]]
<1>1. PICK x : docs' = [docs EXCEPT ![d] = x] /\ Become([docs EXCEPT ![d] = x])
  BY DEF Create, Change, DeleteNotification, Become
<1>2. QED
  BY <1>1 DEF Typed

-----------------------------------------------------------------------------
(* The client. *)

LEMMA PageIsOK ==
  ASSUME Typed, FollowInv, WalkInv, client.pc = "walking", NEW s \in Orders
  PROVE  FoundOK(Slice(s, client.page)) /\ Slice(s, client.page) \subseteq Docs
<1> DEFINE p == client.page
           F == Slice(s, p)
<1>1. p \in Nat \ {0} /\ p * Limit \in Nat /\ (p - 1) * Limit \in Nat
  BY PageLimits DEF Typed, ClientType
<1>2. F \subseteq Docs
  BY SliceInList DEF InList
<1>3. \A d \in walk.steady : d \in Untied(docs)
  BY DEF FollowInv
<1>4. \A d \in Untied(docs) :
         d \in F <=> (p - 1) * Limit <= Place(d) /\ Place(d) < p * Limit
  BY <1>1, OnPage
<1>5. \A d : Place(d) \in Nat
  BY PlacesFinite
<1>6. \A d \in MustSee \ F : p * Limit <= Place(d)
  <2>1. \A d \in MustSee : d \in walk.steady /\ (p - 1) * Limit <= Place(d)
    BY DEF MustSee, WalkInv
  <2>2. QED
    BY <1>1, <1>3, <1>4, <1>5, <2>1
<1>7. \A d \in NeverTwice \cap F : Place(d) < p * Limit /\ d \notin walk.seen
  <2>1. \A d \in NeverTwice :
          d \in walk.steady /\ (d \in walk.seen => Place(d) < (p - 1) * Limit)
    BY DEF NeverTwice, WalkInv
  <2>2. QED
    BY <1>1, <1>3, <1>4, <1>5, <2>1
<1>8. QED
  BY <1>2, <1>6, <1>7 DEF FoundOK

LEMMA CountIsOK ==
  ASSUME Typed, FollowInv, client.pc = "walking"
  PROVE  TotalOK(Cardinality(InList(docs))) /\ Cardinality(InList(docs)) \in Nat
<1>1. \A d \in MustSee : d \in InList(docs)
  BY DEF MustSee, FollowInv, Untied
<1>2. QED
  BY <1>1, PrecedingFinite DEF TotalOK

\* The page is shown once both answers are there.
LEMMA AnswerKeeps ==
  ASSUME ListingsInv, client.pc = "walking",
         NEW found \in (SUBSET Docs) \cup {Nothing}, NEW total \in Nat \cup {Nothing},
         Answer(found, total), UNCHANGED docs,
         found # Nothing => FoundOK(found), total # Nothing => TotalOK(total)
  PROVE  ListingsInv'
<1> DEFINE p == client.page
<1>1. /\ Typed /\ FollowInv /\ client \in ClientType /\ p \in Nat \ {0}
      /\ p * Limit \in Nat /\ (p - 1) * Limit \in Nat
  BY PageLimits DEF ListingsInv, Typed, ClientType
<1>2. UNCHANGED <<docs, list, query>>
  BY DEF Answer
<1>3. /\ \A d : Place(d)' = Place(d)
      /\ Untied(docs)' = Untied(docs)
  BY <1>2, SamePlaces
<1>4. CASE found = Nothing \/ total = Nothing
  <2>1. client' = [client EXCEPT !.found = found, !.total = total] /\ walk' = walk
    BY <1>4 DEF Answer
  <2>2. /\ client' \in ClientType
        /\ client'.pc = "walking" /\ client'.page = p
        /\ client'.found = found /\ client'.total = total
    BY <1>1, <2>1 DEF ClientType
  <2>3. MustSee' = MustSee /\ NeverTwice' = NeverTwice
    BY <2>1 DEF MustSee, NeverTwice
  <2>4. Typed' /\ FollowInv'
    BY <1>1, <1>2, <1>3, <2>1, <2>2 DEF Typed, FollowInv
  <2>5. found # Nothing => FoundOK(client.found)'
    BY <1>3, <2>1, <2>2, <2>3 DEF FoundOK
  <2>6. total # Nothing => TotalOK(client.total)'
    BY <1>3, <2>1, <2>2, <2>3 DEF TotalOK
  <2>7. WalkInv'
    BY <1>3, <2>1, <2>2, <2>3, <2>5, <2>6 DEF ListingsInv, WalkInv
  <2>8. MissedOnlyIfSomethingLeft' /\ TwiceOnlyIfSomethingCame'
    BY <2>1, <2>2 DEF ListingsInv, MissedOnlyIfSomethingLeft, TwiceOnlyIfSomethingCame
  <2>9. QED
    BY <2>4, <2>7, <2>8 DEF ListingsInv
<1>5. CASE found # Nothing /\ total # Nothing
  <2>1. PICK pc : pc = IF p * Limit < total THEN "walking" ELSE "done"
    OBVIOUS
  <2>2. client' = [client EXCEPT !.found = Nothing, !.total = Nothing, !.pc = pc,
                                 !.page = p + 1]
    BY <1>1, <1>5, <2>1 DEF Answer, ClientType
  <2>3. /\ client' \in ClientType
        /\ client'.pc = pc /\ client'.page = p + 1
        /\ client'.found = Nothing /\ client'.total = Nothing
    <3>1. p + 1 \in Nat \ {0} /\ pc \in {"idle", "walking", "done"}
      BY <1>1, <2>1
    <3>2. QED
      BY <1>1, <2>2, <3>1 DEF ClientType
  <2>4. /\ walk' \in WalkType
        /\ walk'.steady = walk.steady /\ walk'.up = walk.up /\ walk'.down = walk.down
        /\ walk'.raced = walk.raced
        /\ walk'.seen = walk.seen \cup (found \cap walk.steady)
        /\ walk'.twice = walk.twice \cup (found \cap walk.seen)
    <3>1. PICK seen : seen = walk.seen \cup (found \cap walk.steady)
      OBVIOUS
    <3>2. PICK twice : twice = walk.twice \cup (found \cap walk.seen)
      OBVIOUS
    <3>3. walk' = [walk EXCEPT !.seen = seen, !.twice = twice]
      BY <1>5, <3>1, <3>2 DEF Answer
    <3>4. walk \in WalkType
      BY <1>1 DEF Typed
    <3>5. seen \in SUBSET Docs /\ twice \in SUBSET Docs
      BY <1>5, <3>1, <3>2, <3>4 DEF WalkType
    <3>6. QED
      BY <3>1, <3>2, <3>3, <3>4, <3>5 DEF WalkType
  <2>5. FoundOK(found) /\ TotalOK(total)
    BY <1>5
  <2>6. MustSee' = MustSee \ found /\ NeverTwice' = NeverTwice
    BY <2>4 DEF MustSee, NeverTwice
  <2>7. Typed' /\ FollowInv'
    BY <1>1, <1>2, <1>3, <2>1, <2>3, <2>4 DEF Typed, FollowInv
  <2>8. \A d \in NeverTwice \cap walk'.seen : Place(d) < p * Limit
    <3>1. p * Limit = (p - 1) * Limit + Limit
      BY <1>1, LimitAssumption
    <3>2. \A d \in NeverTwice \cap walk.seen : Place(d) < (p - 1) * Limit
      BY DEF ListingsInv, WalkInv
    <3>3. QED
      BY <1>1, <2>4, <2>5, <3>1, <3>2, LimitAssumption, PlacesFinite DEF FoundOK
  <2>9. \A d \in MustSee \ found : p * Limit <= Place(d)
    BY <2>5 DEF FoundOK
  <2>10. WalkInv'
    <3>1. client'.page - 1 = p
      BY <1>1, <2>3
    <3>2. QED
      BY <1>3, <2>3, <2>6, <2>8, <2>9, <3>1 DEF WalkInv
  <2>11. MissedOnlyIfSomethingLeft'
    <3>1. SUFFICES ASSUME pc = "done", NEW d \in MustSee \ found
                   PROVE  walk.raced /\ d \in walk.down
      BY <2>3, <2>4 DEF MissedOnlyIfSomethingLeft, MustSee
    <3>2. p * Limit <= Place(d) /\ Place(d) \in Nat
      BY <2>9, PlacesFinite
    <3>3. ~(p * Limit < total) /\ total \in Nat
      BY <1>5, <2>1, <3>1
    <3>4. ~(Place(d) < total)
      BY <1>1, <3>2, <3>3
    <3>5. QED
      BY <2>5, <3>4 DEF TotalOK
  <2>12. TwiceOnlyIfSomethingCame'
    <3>1. \A d \in found \cap walk.seen : d \in walk.down
      BY <1>1, <2>5 DEF FollowInv, FoundOK, NeverTwice
    <3>2. QED
      BY <2>4, <3>1 DEF ListingsInv, TwiceOnlyIfSomethingCame
  <2>13. QED
    BY <2>7, <2>10, <2>11, <2>12 DEF ListingsInv
<1>6. QED
  BY <1>4, <1>5

LEMMA OpenKeeps ==
  ASSUME ListingsInv, Open
  PROVE  ListingsInv'
<1>1. client = NewClient /\ UNCHANGED <<docs, list, query>>
  BY DEF ListingsInv, FollowInv, Open
<1>2. client' = [NewClient EXCEPT !.pc = "walking"]
  BY <1>1 DEF Open
<1>3. /\ client' \in ClientType
      /\ client'.pc = "walking" /\ client'.page = 1
      /\ client'.found = Nothing /\ client'.total = Nothing
  BY <1>2 DEF ClientType, NewClient
<1>4. /\ walk'.steady = Untied(docs) /\ walk'.seen = {} /\ walk'.twice = {}
      /\ walk' \in WalkType
  BY DEF Open, NoWalk, WalkType, Untied, InList
<1>5. /\ \A d : Place(d)' = Place(d)
      /\ Untied(docs)' = Untied(docs)
  BY <1>1, SamePlaces
<1>6. Typed' /\ FollowInv'
  BY <1>1, <1>3, <1>4, <1>5 DEF ListingsInv, Typed, FollowInv
<1>7. (client'.page - 1) * Limit = 0
  BY <1>3, LimitAssumption
<1>8. WalkInv'
  BY <1>3, <1>4, <1>5, <1>7, PlacesFinite DEF WalkInv
<1>9. MissedOnlyIfSomethingLeft' /\ TwiceOnlyIfSomethingCame'
  BY <1>3, <1>4 DEF MissedOnlyIfSomethingLeft, TwiceOnlyIfSomethingCame
<1>10. QED
  BY <1>6, <1>8, <1>9 DEF ListingsInv

-----------------------------------------------------------------------------

LEMMA ListingsInit == Init => ListingsInv
<1>1. SUFFICES ASSUME Init PROVE ListingsInv
  OBVIOUS
<1>2. client \in ClientType /\ walk \in WalkType
  BY <1>1 DEF Init, NewClient, NoWalk, ClientType, WalkType
<1>3. /\ client.pc = "idle"
      /\ walk.seen = {} /\ walk.twice = {}
  BY <1>1 DEF Init, NewClient, NoWalk
<1>4. Typed /\ FollowInv
  BY <1>1, <1>2, <1>3 DEF Init, Typed, FollowInv
<1>5. QED
  BY <1>3, <1>4 DEF ListingsInv, WalkInv, MissedOnlyIfSomethingLeft,
                    TwiceOnlyIfSomethingCame

LEMMA ListingsNext == ListingsInv /\ [Next]_vars => ListingsInv'
<1>1. SUFFICES ASSUME ListingsInv, [Next]_vars PROVE ListingsInv'
  OBVIOUS
<1>2. /\ Typed /\ FollowInv /\ WalkInv
      /\ MissedOnlyIfSomethingLeft /\ TwiceOnlyIfSomethingCame
  BY <1>1 DEF ListingsInv
<1>3. ASSUME NEW d \in Docs,
             \/ \E form \in Forms[list], t \in Times : Create(d, form, t) \/ Change(d, form, t)
             \/ DeleteNotification(d)
      PROVE  ListingsInv'
  <2>1. Become(docs') /\ docs' = [e \in Docs |-> docs'[e]]
    BY <1>2, <1>3, HandlerChanges
  <2>2. Typed' /\ FollowInv'
    BY <1>2, <2>1, ChangeFollowed
  <2>3. WalkInv'
    BY <1>2, <2>1, ChangeKeepsWalk
  <2>4. QED
    BY <1>2, <2>1, <2>2, <2>3, ChangeKeepsResult DEF ListingsInv
<1>4. CASE Open
  BY <1>1, <1>4, OpenKeeps
<1>5. CASE BrowseRequests
  <2>1. PICK s \in Orders : Answer(Slice(s, client.page), Len(s))
    BY <1>5 DEF BrowseRequests
  <2>2. client.pc = "walking" /\ UNCHANGED docs
    BY <1>5, <2>1 DEF BrowseRequests, Answer
  <2>3. FoundOK(Slice(s, client.page)) /\ Slice(s, client.page) \subseteq Docs
    BY <1>2, <2>2, PageIsOK
  <2>4. TotalOK(Len(s)) /\ Len(s) \in Nat
    BY <1>2, <2>2, CountIsOK, OrderIsBijection
  <2>5. QED
    BY <1>1, <2>1, <2>2, <2>3, <2>4, AnswerKeeps
<1>6. CASE FindPage
  <2>1. PICK s \in Orders : Answer(Slice(s, client.page), client.total)
    BY <1>6 DEF FindPage
  <2>2. client.pc = "walking" /\ UNCHANGED docs
    BY <1>6, <2>1 DEF FindPage, Answer
  <2>3. FoundOK(Slice(s, client.page)) /\ Slice(s, client.page) \subseteq Docs
    BY <1>2, <2>2, PageIsOK
  <2>4. client.total \in Nat \cup {Nothing} /\ (client.total # Nothing => TotalOK(client.total))
    BY <1>2, <2>2 DEF WalkInv, Typed, ClientType
  <2>5. QED
    BY <1>1, <2>1, <2>2, <2>3, <2>4, AnswerKeeps
<1>7. CASE CountDocuments
  <2>1. /\ Answer(client.found, Cardinality(InList(docs)))
        /\ client.pc = "walking" /\ UNCHANGED docs
    BY <1>7 DEF CountDocuments, Answer
  <2>2. TotalOK(Cardinality(InList(docs))) /\ Cardinality(InList(docs)) \in Nat
    BY <1>2, <2>1, CountIsOK
  <2>3. /\ client.found \in (SUBSET Docs) \cup {Nothing}
        /\ client.found # Nothing => FoundOK(client.found)
    BY <1>2, <2>1 DEF WalkInv, Typed, ClientType
  <2>4. QED
    BY <1>1, <2>1, <2>2, <2>3, AnswerKeeps
<1>8. CASE UNCHANGED vars
  <2>1. /\ \A d : Place(d)' = Place(d)
        /\ Untied(docs)' = Untied(docs)
    BY <1>8, SamePlaces DEF vars
  <2>2. Typed' /\ FollowInv'
    BY <1>2, <1>8, <2>1 DEF vars, Typed, FollowInv
  <2>3. WalkInv'
    BY <1>2, <1>8, <2>1 DEF vars, WalkInv, FoundOK, TotalOK, MustSee, NeverTwice
  <2>4. MissedOnlyIfSomethingLeft' /\ TwiceOnlyIfSomethingCame'
    BY <1>2, <1>8 DEF vars, MissedOnlyIfSomethingLeft, TwiceOnlyIfSomethingCame
  <2>5. QED
    BY <2>2, <2>3, <2>4 DEF ListingsInv
<1>9. QED
  BY <1>1, <1>3, <1>4, <1>5, <1>6, <1>7, <1>8 DEF Next

\* The invariant is inductive.
THEOREM ListingsInvariance == Spec => []ListingsInv
  BY ListingsInit, ListingsNext, PTL DEF Spec

\* A client that walks through the pages of a list sees every document that stays in
\* it and that the sort tells apart, unless one ahead of it leaves meanwhile, or the
\* total is older than the page.
THEOREM NothingElseIsMissed == Spec => []MissedOnlyIfSomethingLeft
<1>1. ListingsInv => MissedOnlyIfSomethingLeft
  BY DEF ListingsInv
<1>2. QED
  BY <1>1, ListingsInvariance, PTL

\* It sees such a document again only if another comes ahead of it meanwhile.
THEOREM NothingElseIsTwice == Spec => []TwiceOnlyIfSomethingCame
<1>1. ListingsInv => TwiceOnlyIfSomethingCame
  BY DEF ListingsInv
<1>2. QED
  BY <1>1, ListingsInvariance, PTL

=============================================================================
