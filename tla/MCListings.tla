----------------------------- MODULE MCListings -----------------------------
(***************************************************************************)
(* A small instance of Listings: for each list two or three looks that     *)
(* differ in what it filters and sorts by.                                 *)
(***************************************************************************)
EXTENDS Listings, TLC

MCLists ==
  {"browseRequests", "browseTrips", "listUsers", "listTrips", "listRequests",
   "listBookings", "listDisputes", "listSupportRequests", "listReferrals",
   "getNotifications"}

Plain ==
  [status |-> "pending", approval |-> Nothing, kind |-> "standard", urgency |-> "low",
   detail |-> "here", amount |-> 2, date |-> 1, at |-> 1]

Look(status, kind) == [Plain EXCEPT !.status = status, !.kind = kind]

MCForms ==
  [l \in MCLists |->
     CASE l = "browseRequests" ->
            {[Plain EXCEPT !.urgency = "high", !.date = 2], [Plain EXCEPT !.date = 2],
             Plain, [Look("pending", "support") EXCEPT !.urgency = Nothing],
             Look("matched", "support")}
       [] l = "browseTrips" ->
            {Look("active", "negotiable"), [Look("active", "fixed") EXCEPT !.date = 2],
             Look("completed", "fixed")}
       [] l = "listUsers" ->
            {Look("active", "admin"), Look("active", "user"), Look("banned", "user")}
       [] l = "listTrips" -> {Look("active", "fixed"), Look("cancelled", "fixed")}
       [] l = "listRequests" ->
            {Look("pending", "support"), Look("pending", "standard"), Look("matched", "support")}
       [] l = "listBookings" -> {Look("pending_acceptance", Nothing), Look("confirmed", Nothing)}
       [] l = "listDisputes" -> {Look("disputed", Nothing), Look("completed", Nothing)}
       [] l = "listSupportRequests" ->
            {[Look("pending", "support") EXCEPT !.urgency = u] : u \in {"critical", "low", Nothing}}
              \cup {[Look("pending", "support") EXCEPT !.approval = "approved"]}
       [] l = "listReferrals" -> {Plain, [Plain EXCEPT !.detail = Nothing]}
       [] l = "getNotifications" -> {Look("unread", "message"), Look("read", "message")}]

Everything ==
  [status |-> Nothing, approval |-> Nothing, kind |-> Nothing, urgency |-> Nothing,
   detail |-> Nothing, amount |-> Nothing, date |-> Nothing, at |-> Nothing]

MCQueries ==
  [l \in MCLists |->
     CASE l = "browseRequests" -> {Everything, [Everything EXCEPT !.amount = 0 .. 2, !.date = 0 .. 2]}
       [] l = "browseTrips" -> {Everything, [Everything EXCEPT !.amount = 0 .. 1, !.detail = "here"]}
       [] l = "listUsers" -> {[Everything EXCEPT !.kind = "admin"], [Everything EXCEPT !.at = 2 .. 3]}
       [] l \in {"listTrips", "listBookings"} ->
            {Everything, [Everything EXCEPT !.status = IF l = "listTrips" THEN "active" ELSE "confirmed"]}
       [] l = "listRequests" -> {[Everything EXCEPT !.kind = "support", !.status = "pending"]}
       [] l = "listSupportRequests" -> {Everything, [Everything EXCEPT !.approval = "approved"]}
       [] l = "getNotifications" -> {Everything, [Everything EXCEPT !.status = "unread"]}
       [] l = "listDisputes" -> {Everything, [Everything EXCEPT !.at = 1 .. 2]}
       [] l = "listReferrals" -> {Everything}]

Symmetry == Permutations(Docs)

=============================================================================
