---------------------------- MODULE SessionsProofs ----------------------------
(***************************************************************************)
(* Proofs about Sessions, for any users, sessions and calls, however calls *)
(* overlap and fail.                                                       *)
(***************************************************************************)
EXTENDS Sessions, FiniteSetTheorems, TLAPS

\* A session not yet opened belongs to nobody and comes from none; any other one
\* has an owner.
UnusedIsBlank ==
  \A j \in Jtis :
    IF sessions[j].state = "unused"
    THEN sessions[j] = UnusedSession
    ELSE sessions[j].user # Nothing

\* What a session was refreshed from is over.
ParentsAreGone ==
  \A k \in Jtis : sessions[k].parent # Nothing => sessions[sessions[k].parent].state = "gone"

\* A refresh holds a session that was opened, and once past its drop one that is
\* over; a call that may end sessions holds none.
RefreshHolds(c) ==
  /\ calls[c].pc \in {"find", "drop"} =>
       calls[c].jti # Nothing /\ sessions[calls[c].jti].state # "unused"
  /\ calls[c].pc = "store" /\ calls[c].jti # Nothing =>
       sessions[calls[c].jti].state = "gone"
  /\ calls[c].pc \in {"idle", "save", "keys", "del"} => calls[c].jti = Nothing

\* The sessions stored at the save are the user's, and once KEYS has answered each
\* is among its keys or over.
EndingHolds(c) ==
  /\ calls[c].pc # "idle" => calls[c].user # Nothing
  /\ calls[c].pc \in {"keys", "del"} =>
       \A j \in calls[c].before :
         sessions[j].state # "unused" /\ sessions[j].user = calls[c].user
  /\ calls[c].pc = "del" =>
       /\ \A j \in calls[c].before : j \in calls[c].keys \/ sessions[j].state = "gone"
       /\ \A j \in calls[c].keys : sessions[j].state # "unused"

\* A session that no two refreshes held together is held by one call at most, has
\* one successor at most, and has none while a call is past its test.
HeldOnce(j) ==
  /\ \A c, d \in CallIds : calls[c].jti = j /\ calls[d].jti = j => c = d
  /\ \A k, l \in Jtis : sessions[k].parent = j /\ sessions[l].parent = j => k = l
  /\ \A c \in CallIds, k \in Jtis :
       calls[c].jti = j /\ calls[c].pc \in {"drop", "store"} => sessions[k].parent # j

SessionInv ==
  /\ TypeOK
  /\ UnusedIsBlank
  /\ ParentsAreGone
  /\ \A c \in CallIds : RefreshHolds(c)
  /\ \A c \in CallIds : EndingHolds(c)
  /\ \A j \in Jtis \ shared : HeldOnce(j)

-----------------------------------------------------------------------------

\* The initial states satisfy the invariant.
LEMMA InitInv == Init => SessionInv
<1>1. SUFFICES ASSUME Init PROVE SessionInv
  OBVIOUS
<1>2. TypeOK
  BY <1>1 DEF Init, TypeOK, AccountStatuses, UnusedSession, Session, NoCall, Call, Ops
<1>3. UnusedIsBlank /\ ParentsAreGone
  BY <1>1 DEF Init, UnusedIsBlank, ParentsAreGone, UnusedSession
<1>4. \A c \in CallIds : RefreshHolds(c) /\ EndingHolds(c)
  BY <1>1 DEF Init, RefreshHolds, EndingHolds, NoCall
<1>5. \A j \in Jtis : HeldOnce(j)
  BY <1>1, NothingAssumption DEF Init, HeldOnce, NoCall, UnusedSession
<1>6. QED
  BY <1>2, <1>3, <1>4, <1>5 DEF SessionInv

\* Removing keys leaves owners and parents, opens nothing, and revives nothing.
LEMMA RemoveKeeps ==
  ASSUME SessionInv, NEW keys, Remove(keys),
         \A j \in keys : j \in Jtis => sessions[j].state # "unused"
  PROVE  /\ sessions' \in [Jtis -> Session]
         /\ UnusedIsBlank'
         /\ ParentsAreGone'
         /\ \A j \in Jtis :
              /\ sessions'[j].user = sessions[j].user
              /\ sessions'[j].parent = sessions[j].parent
              /\ sessions'[j].state = "unused" <=> sessions[j].state = "unused"
              /\ sessions[j].state = "gone" => sessions'[j].state = "gone"
              /\ j \in keys => sessions'[j].state = "gone"
<1>1. sessions \in [Jtis -> Session]
  BY DEF SessionInv, TypeOK
<1>2. \A j \in Jtis :
        sessions'[j] = IF j \in keys THEN [sessions[j] EXCEPT !.state = "gone"] ELSE sessions[j]
  BY DEF Remove
<1>3. \A j \in Jtis : sessions'[j] \in Session
  BY <1>1, <1>2 DEF Session
<1>4. sessions' \in [Jtis -> Session]
  BY <1>3 DEF Remove
<1>5. \A j \in Jtis :
        /\ sessions'[j].user = sessions[j].user
        /\ sessions'[j].parent = sessions[j].parent
        /\ j \in keys => sessions'[j].state = "gone"
        /\ j \notin keys => sessions'[j] = sessions[j]
  BY <1>1, <1>2 DEF Session
<1>6. UnusedIsBlank'
  BY <1>5 DEF SessionInv, UnusedIsBlank
<1>7. \A j \in Jtis : sessions[j].parent \in Jtis \cup {Nothing}
  BY <1>1 DEF Session
<1>8. ParentsAreGone'
  BY <1>5, <1>7 DEF SessionInv, ParentsAreGone
<1>9. QED
  BY <1>4, <1>5, <1>6, <1>8

\* Sessions keep their owners and parents, and a call takes the value given.
LEMMA OneCallMoves ==
  ASSUME SessionInv,
         accountStatus' \in [Users -> AccountStatuses], shared' = shared,
         sessions' \in [Jtis -> Session], UnusedIsBlank', ParentsAreGone',
         \A j \in Jtis :
           /\ sessions'[j].user = sessions[j].user
           /\ sessions'[j].parent = sessions[j].parent
           /\ sessions'[j].state = "unused" <=> sessions[j].state = "unused"
           /\ sessions[j].state = "gone" => sessions'[j].state = "gone",
         NEW c \in CallIds, NEW call \in Call,
         calls' = [calls EXCEPT ![c] = call],
         call.jti \in {calls[c].jti, Nothing},
         calls[c].pc = "find" /\ call.pc \in {"drop", "store"} /\ call.jti # Nothing =>
           sessions[call.jti].state # "gone",
         call.pc \in {"drop", "store"} /\ call.jti # Nothing =>
           calls[c].pc \in {"find", "drop", "store"},
         RefreshHolds(c)', EndingHolds(c)'
  PROVE  SessionInv'
<1>1. calls \in [CallIds -> Call] /\ calls' \in [CallIds -> Call] /\ calls'[c] = call
  BY DEF SessionInv, TypeOK
<1>2. \A d \in CallIds : d # c => calls'[d] = calls[d]
  BY <1>1
<1>3. TypeOK'
  BY <1>1 DEF SessionInv, TypeOK
<1>4. \A d \in CallIds :
        /\ calls[d].jti \in Jtis \cup {Nothing}
        /\ calls[d].before \subseteq Jtis
        /\ calls[d].keys \subseteq Jtis
  BY <1>1 DEF Call
<1>5. \A d \in CallIds : RefreshHolds(d)'
  <2>1. ASSUME NEW d \in CallIds, d # c PROVE RefreshHolds(d)'
    BY <1>2, <1>4, <2>1 DEF SessionInv, RefreshHolds
  <2>2. QED
    BY <2>1
<1>6. \A d \in CallIds : EndingHolds(d)'
  <2>1. ASSUME NEW d \in CallIds, d # c PROVE EndingHolds(d)'
    BY <1>2, <1>4, <2>1 DEF SessionInv, EndingHolds
  <2>2. QED
    BY <2>1
<1>7. ASSUME NEW j \in Jtis \ shared PROVE HeldOnce(j)'
  <2>1. HeldOnce(j) /\ j # Nothing
    BY NothingAssumption DEF SessionInv
  <2>2. \A d \in CallIds : calls'[d].jti = j => calls[d].jti = j
    BY <1>1, <1>2, <2>1
  <2>3. \A k \in Jtis : sessions'[k].parent = sessions[k].parent
    OBVIOUS
  <2>4. ASSUME NEW d \in CallIds, NEW k \in Jtis,
               calls'[d].jti = j, calls'[d].pc \in {"drop", "store"}
        PROVE  sessions'[k].parent # j
    <3>1. CASE d # c
      BY <1>2, <2>1, <2>3, <2>4, <3>1 DEF HeldOnce
    <3>2. CASE d = c /\ calls[c].pc \in {"drop", "store"}
      BY <2>1, <2>2, <2>3, <2>4, <3>2 DEF HeldOnce
    <3>3. CASE d = c /\ calls[c].pc = "find"
      BY <1>1, <2>1, <2>3, <2>4, <3>3 DEF SessionInv, ParentsAreGone
    <3>4. QED
      BY <1>1, <2>1, <2>4, <3>1, <3>2, <3>3
  <2>5. QED
    BY <2>1, <2>2, <2>3, <2>4 DEF HeldOnce
<1>8. QED
  BY <1>3, <1>5, <1>6, <1>7 DEF SessionInv

\* A call that ends next to sessions that only lost keys.
LEMMA CallEnds ==
  ASSUME SessionInv,
         accountStatus' \in [Users -> AccountStatuses], shared' = shared,
         NEW keys, Remove(keys), \A j \in keys : j \in Jtis => sessions[j].state # "unused",
         NEW c \in CallIds, End(c)
  PROVE  SessionInv'
<1>1. NoCall \in Call /\ NoCall.pc = "idle" /\ NoCall.jti = Nothing
  BY DEF NoCall, Call, Ops, AccountStatuses
<1>2. calls' = [calls EXCEPT ![c] = NoCall] /\ calls'[c] = NoCall
  BY DEF End, SessionInv, TypeOK
<1>3. RefreshHolds(c)' /\ EndingHolds(c)'
  BY <1>1, <1>2 DEF RefreshHolds, EndingHolds
<1>4. QED
  BY <1>1, <1>2, <1>3, RemoveKeeps, OneCallMoves

\* Leaving the sessions alone is removing no key.
LEMMA RemoveNothing ==
  ASSUME SessionInv, sessions' = sessions
  PROVE  Remove({})
  BY DEF SessionInv, TypeOK, Remove

\* A call that is begun and holds no session.
LEMMA CallBegins ==
  ASSUME SessionInv, UNCHANGED <<accountStatus, sessions, shared>>,
         NEW c \in CallIds, NEW u \in Users, calls[c].pc = "idle",
         NEW call \in Call, calls' = [calls EXCEPT ![c] = call],
         call.user = u, call.jti = Nothing, call.pc \in {"store", "save", "keys"},
         call.before \subseteq Stored(u)
  PROVE  SessionInv'
<1>1. calls'[c] = call
  BY DEF SessionInv, TypeOK
<1>2. RefreshHolds(c)' /\ EndingHolds(c)'
  BY <1>1, NothingAssumption DEF RefreshHolds, EndingHolds, Stored
<1>3. accountStatus' \in [Users -> AccountStatuses]
  BY DEF SessionInv, TypeOK
<1>4. QED
  BY <1>1, <1>2, <1>3, RemoveNothing, RemoveKeeps, OneCallMoves

\* login, changePassword and the calls of administrators begin.
LEMMA BeginKeeps ==
  ASSUME SessionInv, NEW c \in CallIds, NEW u \in Users,
         NEW op \in Ops, NEW pc \in {"store", "save"},
         Begin(c, op, u, pc, Nothing), UNCHANGED <<accountStatus, sessions, shared>>
  PROVE  SessionInv'
<1>1. PICK call : call = [NoCall EXCEPT !.op = op, !.pc = pc, !.user = u, !.jti = Nothing,
                                        !.status = accountStatus[u]]
  OBVIOUS
<1>2. accountStatus[u] \in AccountStatuses
  BY DEF SessionInv, TypeOK
<1>3. call \in Call /\ call.user = u /\ call.jti = Nothing /\ call.pc = pc /\ call.before = {}
  BY <1>1, <1>2 DEF NoCall, Call
<1>4. calls[c].pc = "idle" /\ calls' = [calls EXCEPT ![c] = call]
  BY <1>1 DEF Begin
<1>5. QED
  BY <1>3, <1>4, CallBegins

\* The user asks to end all sessions.
LEMMA RevokeKeeps ==
  ASSUME SessionInv, NEW c \in CallIds, NEW u \in Users, RevokeAllSessions(c, u)
  PROVE  SessionInv'
<1>1. PICK call : call = [NoCall EXCEPT !.op = "revoke", !.pc = "keys", !.user = u,
                                        !.before = Stored(u)]
  OBVIOUS
<1>2. Stored(u) \subseteq Jtis
  BY DEF Stored
<1>3. call \in Call /\ call.user = u /\ call.jti = Nothing /\ call.pc = "keys"
      /\ call.before = Stored(u)
  BY <1>1, <1>2 DEF NoCall, Call, Ops, AccountStatuses
<1>4. calls' = [calls EXCEPT ![c] = call] /\ calls[c].pc = "idle"
      /\ UNCHANGED <<accountStatus, sessions, shared>>
  BY <1>1 DEF RevokeAllSessions
<1>5. QED
  BY <1>3, <1>4, CallBegins

\* A refresh begins: the session it presents is shared if another call holds it.
LEMMA RefreshKeeps ==
  ASSUME SessionInv, NEW c \in CallIds, NEW j \in Jtis, Refresh(c, j)
  PROVE  SessionInv'
<1>1. PICK u : u = sessions[j].user
  OBVIOUS
<1>2. PICK status : status = accountStatus[u]
  OBVIOUS
<1>3. PICK call : call = [NoCall EXCEPT !.op = "refresh", !.pc = "find", !.user = u, !.jti = j,
                                        !.status = status]
  OBVIOUS
<1>4. u \in Users \cup {Nothing} /\ status = "active"
  BY <1>1, <1>2 DEF Refresh, SessionInv, TypeOK, Session
<1>5. call \in Call /\ call.pc = "find" /\ call.jti = j /\ call.user = u
  BY <1>3, <1>4 DEF NoCall, Call, Ops, AccountStatuses
<1>6. /\ calls[c].pc = "idle" /\ calls' = [calls EXCEPT ![c] = call]
      /\ sessions[j].state # "unused" /\ sessions' = sessions
      /\ accountStatus' = accountStatus
      /\ shared' = IF \E k \in CallIds : calls[k].jti = j THEN shared \cup {j} ELSE shared
  BY <1>1, <1>2, <1>3 DEF Refresh, Begin
<1>7. /\ calls'[c] = call
      /\ \A d \in CallIds : d # c => calls'[d] = calls[d]
  BY <1>6 DEF SessionInv, TypeOK
<1>8. TypeOK'
  BY <1>5, <1>6 DEF SessionInv, TypeOK
<1>9. UnusedIsBlank' /\ ParentsAreGone'
  BY <1>6 DEF SessionInv, UnusedIsBlank, ParentsAreGone
<1>10. \A d \in CallIds : RefreshHolds(d)'
  BY <1>5, <1>6, <1>7, NothingAssumption DEF SessionInv, RefreshHolds
<1>11. u # Nothing
  BY <1>1, <1>6 DEF SessionInv, UnusedIsBlank
<1>12. \A d \in CallIds : EndingHolds(d)'
  BY <1>5, <1>6, <1>7, <1>11 DEF SessionInv, EndingHolds
<1>13. ASSUME NEW i \in Jtis \ shared' PROVE HeldOnce(i)'
  <2>1. HeldOnce(i) /\ i # Nothing
    BY <1>6, <1>13, NothingAssumption DEF SessionInv
  <2>2. i = j => \A d \in CallIds : calls[d].jti # i
    BY <1>6, <1>13
  <2>3. QED
    BY <1>5, <1>6, <1>7, <2>1, <2>2 DEF HeldOnce
<1>14. QED
  BY <1>8, <1>9, <1>10, <1>12, <1>13 DEF SessionInv

\* A session that a logout or its time to live ends.
LEMMA KeyGoes ==
  ASSUME SessionInv, NEW j \in Jtis, sessions[j].state # "unused", Remove({j}),
         UNCHANGED <<accountStatus, calls, shared>>
  PROVE  SessionInv'
<1>1. /\ sessions' \in [Jtis -> Session] /\ UnusedIsBlank' /\ ParentsAreGone'
      /\ \A k \in Jtis :
           /\ sessions'[k].user = sessions[k].user
           /\ sessions'[k].parent = sessions[k].parent
           /\ sessions'[k].state = "unused" <=> sessions[k].state = "unused"
           /\ sessions[k].state = "gone" => sessions'[k].state = "gone"
  BY RemoveKeeps
<1>2. TypeOK'
  BY <1>1 DEF SessionInv, TypeOK
<1>3. \A c \in CallIds :
        /\ calls[c].jti \in Jtis \cup {Nothing}
        /\ calls[c].before \subseteq Jtis
        /\ calls[c].keys \subseteq Jtis
  BY DEF SessionInv, TypeOK, Call
<1>4. \A c \in CallIds : RefreshHolds(c)'
  BY <1>1, <1>3 DEF SessionInv, RefreshHolds
<1>5. \A c \in CallIds : EndingHolds(c)'
  BY <1>1, <1>3 DEF SessionInv, EndingHolds
<1>6. \A i \in Jtis \ shared' : HeldOnce(i)'
  BY <1>1 DEF SessionInv, HeldOnce
<1>7. QED
  BY <1>1, <1>2, <1>4, <1>5, <1>6 DEF SessionInv

\* The test of a refresh: only a stored session lets it go on.
LEMMA FindTokenKeeps ==
  ASSUME SessionInv, NEW c \in CallIds, FindToken(c)
  PROVE  SessionInv'
<1>1. UNCHANGED <<accountStatus, sessions, shared>> /\ calls[c].pc = "find"
  BY DEF FindToken
<1>2. accountStatus' \in [Users -> AccountStatuses] /\ Remove({})
  BY <1>1, RemoveNothing DEF SessionInv, TypeOK
<1>3. CASE sessions[calls[c].jti].state = "stored"
  <2>1. PICK call : call = [calls[c] EXCEPT !.pc = "drop"]
    OBVIOUS
  <2>2. calls[c] \in Call
    BY DEF SessionInv, TypeOK
  <2>3. call \in Call /\ call.pc = "drop" /\ call.jti = calls[c].jti /\ call.user = calls[c].user
    BY <2>1, <2>2 DEF Call
  <2>4. calls' = [calls EXCEPT ![c] = call] /\ calls'[c] = call
    BY <1>3, <2>1 DEF FindToken, GoTo, SessionInv, TypeOK
  <2>5. RefreshHolds(c) /\ EndingHolds(c)
    BY DEF SessionInv
  <2>6. RefreshHolds(c)' /\ EndingHolds(c)'
    BY <1>1, <1>3, <2>3, <2>4, <2>5 DEF RefreshHolds, EndingHolds
  <2>7. QED
    BY <1>1, <1>2, <1>3, <2>3, <2>4, <2>6, RemoveKeeps, OneCallMoves
<1>4. CASE sessions[calls[c].jti].state # "stored"
  BY <1>1, <1>2, <1>4, CallEnds DEF FindToken
<1>5. QED
  BY <1>3, <1>4

\* The session a refresh presented goes before its successor is stored.
LEMMA DropTokenKeeps ==
  ASSUME SessionInv, NEW c \in CallIds, DropToken(c)
  PROVE  SessionInv'
<1>1. UNCHANGED <<accountStatus, shared>> /\ calls[c].pc = "drop" /\ Remove({calls[c].jti})
  BY DEF DropToken
<1>2. RefreshHolds(c) /\ EndingHolds(c) /\ calls[c] \in Call
  BY DEF SessionInv, TypeOK
<1>3. calls[c].jti \in Jtis /\ sessions[calls[c].jti].state # "unused"
  BY <1>1, <1>2 DEF RefreshHolds, Call
<1>4. PICK call : call = [calls[c] EXCEPT !.pc = "store"]
  OBVIOUS
<1>5. call \in Call /\ call.pc = "store" /\ call.jti = calls[c].jti /\ call.user = calls[c].user
  BY <1>2, <1>4 DEF Call
<1>6. calls' = [calls EXCEPT ![c] = call] /\ calls'[c] = call
  BY <1>4 DEF DropToken, GoTo, SessionInv, TypeOK
<1>7. sessions'[calls[c].jti].state = "gone"
  BY <1>1, <1>3, RemoveKeeps
<1>8. RefreshHolds(c)' /\ EndingHolds(c)'
  BY <1>1, <1>2, <1>5, <1>6, <1>7 DEF RefreshHolds, EndingHolds
<1>9. accountStatus' \in [Users -> AccountStatuses]
  BY <1>1 DEF SessionInv, TypeOK
<1>10. QED
  BY <1>1, <1>3, <1>5, <1>6, <1>8, <1>9, RemoveKeeps, OneCallMoves

\* The new session is the successor of one that is over, and of one that no other
\* call holds unless it is shared.
LEMMA StoreTokenKeeps ==
  ASSUME SessionInv, NEW c \in CallIds, NEW j \in Jtis, StoreToken(c, j)
  PROVE  SessionInv'
<1>1. PICK u : u = calls[c].user
  OBVIOUS
<1>2. PICK p : p = calls[c].jti
  OBVIOUS
<1>3. PICK new : new = [state |-> "stored", user |-> u, parent |-> p]
  OBVIOUS
<1>4. RefreshHolds(c) /\ EndingHolds(c) /\ calls[c] \in Call /\ calls[c].pc = "store"
  BY DEF SessionInv, TypeOK, StoreToken
<1>5. /\ u \in Users /\ p \in Jtis \cup {Nothing} /\ new \in Session
      /\ new.state = "stored" /\ new.user = u /\ new.parent = p /\ u # Nothing
      /\ p # Nothing => sessions[p].state = "gone"
  BY <1>1, <1>2, <1>3, <1>4, NothingAssumption DEF RefreshHolds, EndingHolds, Call, Session
<1>6. /\ sessions' = [sessions EXCEPT ![j] = new] /\ sessions[j].state = "unused"
      /\ calls' = [calls EXCEPT ![c] = NoCall] /\ UNCHANGED <<accountStatus, shared>>
  BY <1>1, <1>2, <1>3 DEF StoreToken, End
<1>7. sessions \in [Jtis -> Session] /\ calls \in [CallIds -> Call]
  BY DEF SessionInv, TypeOK
<1>8. /\ sessions'[j] = new
      /\ \A k \in Jtis : k # j => sessions'[k] = sessions[k]
      /\ sessions[j].parent = Nothing
  BY <1>6, <1>7 DEF SessionInv, UnusedIsBlank, UnusedSession
<1>9. /\ calls'[c] = NoCall /\ NoCall.pc = "idle" /\ NoCall.jti = Nothing /\ NoCall \in Call
      /\ \A d \in CallIds : d # c => calls'[d] = calls[d]
  BY <1>6, <1>7 DEF NoCall, Call, Ops, AccountStatuses
<1>10. TypeOK'
  BY <1>5, <1>6, <1>7, <1>9 DEF SessionInv, TypeOK
<1>11. UnusedIsBlank'
  BY <1>5, <1>8 DEF SessionInv, UnusedIsBlank
<1>12. ParentsAreGone'
  <2>1. ASSUME NEW k \in Jtis, sessions'[k].parent # Nothing
        PROVE  sessions'[sessions'[k].parent].state = "gone"
    <3>1. sessions'[k].parent \in Jtis /\ sessions[sessions'[k].parent].state = "gone"
      BY <1>5, <1>7, <1>8, <2>1 DEF SessionInv, ParentsAreGone, Session
    <3>2. sessions'[k].parent # j
      BY <1>6, <3>1
    <3>3. QED
      BY <1>8, <3>1, <3>2
  <2>2. QED
    BY <2>1 DEF ParentsAreGone
<1>13. \A d \in CallIds :
        /\ calls[d].jti \in Jtis \cup {Nothing}
        /\ calls[d].before \subseteq Jtis
        /\ calls[d].keys \subseteq Jtis
  BY <1>7 DEF Call
<1>14. ASSUME NEW d \in CallIds PROVE RefreshHolds(d)' /\ EndingHolds(d)'
  <2>1. RefreshHolds(d) /\ EndingHolds(d)
    BY DEF SessionInv
  <2>2. CASE d = c
    BY <1>9, <2>2 DEF RefreshHolds, EndingHolds
  <2>3. CASE d # c
    <3>1. calls'[d] = calls[d]
      BY <1>9, <2>3
    <3>2. RefreshHolds(d)'
      BY <1>5, <1>6, <1>8, <1>13, <2>1, <3>1 DEF RefreshHolds
    <3>3. EndingHolds(d)'
      BY <1>5, <1>6, <1>8, <1>13, <2>1, <3>1 DEF EndingHolds
    <3>4. QED
      BY <3>2, <3>3
  <2>4. QED
    BY <2>2, <2>3
<1>15. ASSUME NEW i \in Jtis \ shared' PROVE HeldOnce(i)'
  <2>1. HeldOnce(i) /\ i # Nothing
    BY <1>6, NothingAssumption DEF SessionInv
  <2>2. \A d \in CallIds : calls'[d].jti = i => d # c /\ calls'[d] = calls[d]
    BY <1>9, <2>1
  <2>3. p = i => \A k \in Jtis : sessions[k].parent # i
    BY <1>2, <1>4, <2>1 DEF HeldOnce
  <2>4. p = i => \A d \in CallIds : calls'[d].jti # i
    BY <1>2, <2>1, <2>2 DEF HeldOnce
  <2>5. \A k, l \in Jtis : sessions'[k].parent = i /\ sessions'[l].parent = i => k = l
    BY <1>5, <1>8, <2>1, <2>3 DEF HeldOnce
  <2>6. \A d \in CallIds, k \in Jtis :
          calls'[d].jti = i /\ calls'[d].pc \in {"drop", "store"} => sessions'[k].parent # i
    BY <1>5, <1>8, <2>1, <2>2, <2>4 DEF HeldOnce
  <2>7. QED
    BY <2>1, <2>2, <2>5, <2>6 DEF HeldOnce
<1>16. QED
  BY <1>10, <1>11, <1>12, <1>14, <1>15 DEF SessionInv

\* A save gives the account a status.
LEMMA StatusSaved ==
  ASSUME SessionInv, NEW c \in CallIds, SaveAccount(c)
  PROVE  accountStatus' \in [Users -> AccountStatuses]
<1>1. calls[c].status \in AccountStatuses /\ accountStatus \in [Users -> AccountStatuses]
  BY DEF SessionInv, TypeOK, Call
<1>2. \A now \in AccountStatuses :
        SavedStatus(calls[c].op, calls[c].status, now) \in AccountStatuses
  BY <1>1 DEF SavedStatus, EditedStatus, AccountStatuses
<1>3. QED
  BY <1>1, <1>2 DEF SaveAccount

\* The save of a password or a ban, or of another status.
LEMMA SaveKeeps ==
  ASSUME SessionInv, NEW c \in CallIds, SaveAccount(c)
  PROVE  SessionInv'
<1>1. accountStatus' \in [Users -> AccountStatuses]
  BY StatusSaved
<1>2. sessions' = sessions /\ shared' = shared /\ calls[c].pc = "save"
  BY DEF SaveAccount
<1>3. CASE calls[c].op \in EndsSessions
  <2>1. PICK before : before = Stored(calls[c].user)
    OBVIOUS
  <2>2. PICK call : call = [calls[c] EXCEPT !.pc = "keys", !.before = before]
    OBVIOUS
  <2>3. before \subseteq Jtis
    BY <2>1 DEF Stored
  <2>4. calls \in [CallIds -> Call] /\ calls[c] \in Call
    BY DEF SessionInv, TypeOK
  <2>5. /\ call \in Call /\ call.pc = "keys" /\ call.jti = calls[c].jti
        /\ call.user = calls[c].user /\ call.before = before
    BY <2>2, <2>3, <2>4 DEF Call
  <2>6. calls' = [calls EXCEPT ![c] = call] /\ calls'[c] = call
    BY <1>3, <2>1, <2>2, <2>4 DEF SaveAccount
  <2>7. RefreshHolds(c) /\ EndingHolds(c)
    BY DEF SessionInv
  <2>8. RefreshHolds(c)'
    BY <1>2, <2>5, <2>6, <2>7 DEF RefreshHolds
  <2>9. EndingHolds(c)'
    BY <1>2, <2>1, <2>5, <2>6, <2>7 DEF EndingHolds, Stored
  <2>10. QED
    BY <1>1, <1>2, <2>5, <2>6, <2>8, <2>9, RemoveNothing, RemoveKeeps, OneCallMoves
<1>4. CASE calls[c].op \notin EndsSessions
  BY <1>1, <1>2, <1>4, RemoveNothing, CallEnds DEF SaveAccount
<1>5. QED
  BY <1>3, <1>4

\* KEYS finds every session stored at the save that is not over yet.
LEMMA FoundCovers ==
  ASSUME SessionInv, NEW c \in CallIds, FindKeys(c)
  PROVE  \A j \in calls[c].before : j \in Stored(calls[c].user) \/ sessions[j].state = "gone"
<1>1. EndingHolds(c) /\ calls[c].pc = "keys"
  BY DEF SessionInv, FindKeys
<1>2. calls[c].before \subseteq Jtis /\ sessions \in [Jtis -> Session]
  BY DEF SessionInv, TypeOK, Call
<1>3. ASSUME NEW j \in calls[c].before
      PROVE  j \in Stored(calls[c].user) \/ sessions[j].state = "gone"
  <2>1. sessions[j].state # "unused" /\ sessions[j].user = calls[c].user /\ j \in Jtis
    BY <1>1, <1>2 DEF EndingHolds
  <2>2. sessions[j].state \in {"unused", "stored", "gone"}
    BY <1>2, <2>1 DEF Session
  <2>3. QED
    BY <2>1, <2>2 DEF Stored
<1>4. QED
  BY <1>3

\* KEYS answers.
LEMMA FindKeysKeeps ==
  ASSUME SessionInv, NEW c \in CallIds, FindKeys(c)
  PROVE  SessionInv'
<1>1. UNCHANGED <<accountStatus, sessions, shared>> /\ calls[c].pc = "keys"
  BY DEF FindKeys
<1>2. accountStatus' \in [Users -> AccountStatuses]
  BY <1>1 DEF SessionInv, TypeOK
<1>3. PICK found : found = Stored(calls[c].user)
  OBVIOUS
<1>4. CASE found = {}
  BY <1>1, <1>2, <1>3, <1>4, RemoveNothing, CallEnds DEF FindKeys
<1>5. CASE found # {}
  <2>1. PICK call : call = [calls[c] EXCEPT !.pc = "del", !.keys = found]
    OBVIOUS
  <2>2. found \subseteq Jtis
    BY <1>3 DEF Stored
  <2>3. calls \in [CallIds -> Call] /\ calls[c] \in Call
    BY DEF SessionInv, TypeOK
  <2>4. /\ call \in Call /\ call.pc = "del" /\ call.jti = calls[c].jti
        /\ call.user = calls[c].user /\ call.before = calls[c].before /\ call.keys = found
    BY <2>1, <2>2, <2>3 DEF Call
  <2>5. calls' = [calls EXCEPT ![c] = call] /\ calls'[c] = call
    BY <1>3, <1>5, <2>1, <2>3 DEF FindKeys
  <2>6. RefreshHolds(c) /\ EndingHolds(c)
    BY DEF SessionInv
  <2>7. RefreshHolds(c)'
    BY <1>1, <2>4, <2>5, <2>6 DEF RefreshHolds
  <2>8. EndingHolds(c)'
    <3>1. \A j \in found : sessions[j].state # "unused"
      BY <1>3 DEF Stored
    <3>2. QED
      BY <1>1, <1>3, <2>4, <2>5, <2>6, <3>1, FoundCovers DEF EndingHolds
  <2>9. QED
    BY <1>1, <1>2, <2>4, <2>5, <2>7, <2>8, RemoveNothing, RemoveKeeps, OneCallMoves
<1>6. QED
  BY <1>4, <1>5

\* DEL deletes sessions that were opened.
LEMMA KeysWereOpened ==
  ASSUME SessionInv, NEW c \in CallIds, calls[c].pc = "del"
  PROVE  \A j \in calls[c].keys : j \in Jtis => sessions[j].state # "unused"
  BY DEF SessionInv, EndingHolds

\* DEL, the last step.
LEMMA DeleteKeysKeeps ==
  ASSUME SessionInv, NEW c \in CallIds, DeleteKeys(c)
  PROVE  SessionInv'
<1>1. UNCHANGED <<accountStatus, shared>> /\ calls[c].pc = "del" /\ Remove(calls[c].keys) /\ End(c)
  BY DEF DeleteKeys
<1>2. accountStatus' \in [Users -> AccountStatuses]
  BY <1>1 DEF SessionInv, TypeOK
<1>3. QED
  BY <1>1, <1>2, KeysWereOpened, CallEnds

\* A call that fails.
LEMMA FailKeeps ==
  ASSUME SessionInv, NEW c \in CallIds, Fail(c)
  PROVE  SessionInv'
<1>1. UNCHANGED <<accountStatus, sessions, shared>> /\ End(c)
  BY DEF Fail
<1>2. accountStatus' \in [Users -> AccountStatuses]
  BY <1>1 DEF SessionInv, TypeOK
<1>3. QED
  BY <1>1, <1>2, RemoveNothing, CallEnds

\* Every step keeps the invariant.
LEMMA NextInv == SessionInv /\ [Next]_vars => SessionInv'
<1>1. SUFFICES ASSUME SessionInv, [Next]_vars PROVE SessionInv'
  OBVIOUS
<1>2. CASE UNCHANGED vars
  BY <1>1, <1>2 DEF vars, SessionInv, TypeOK, UnusedIsBlank, ParentsAreGone, RefreshHolds,
       EndingHolds, HeldOnce
<1>3. CASE \E j \in Jtis : Logout(j) \/ Expire(j)
  BY <1>1, <1>3, KeyGoes DEF Logout, Expire
<1>4. ASSUME NEW c \in CallIds, NEW u \in Users, Login(c, u) PROVE SessionInv'
  BY <1>1, <1>4, BeginKeeps DEF Login, Ops
<1>5. ASSUME NEW c \in CallIds, NEW u \in Users, ChangePassword(c, u) PROVE SessionInv'
  BY <1>1, <1>5, BeginKeeps DEF ChangePassword, Ops
<1>6. ASSUME NEW c \in CallIds, NEW u \in Users, NEW op \in {"ban", "suspend", "reinstate"},
             Moderate(c, u, op)
      PROVE  SessionInv'
  BY <1>1, <1>6, BeginKeeps DEF Moderate, Ops
<1>7. CASE Next
  BY <1>1, <1>3, <1>4, <1>5, <1>6, <1>7, RevokeKeeps, RefreshKeeps, StoreTokenKeeps,
     FindTokenKeeps, DropTokenKeeps, SaveKeeps, FindKeysKeeps, DeleteKeysKeeps, FailKeeps
     DEF Next
<1>8. QED
  BY <1>1, <1>2, <1>7

\* The invariant holds in every reachable state.
LEMMA Invariance == Spec => []SessionInv
  BY InitInv, NextInv, PTL DEF Spec

-----------------------------------------------------------------------------

\* Accounts, sessions and calls are well typed.
THEOREM TypeCorrect == Spec => []TypeOK
<1>1. SessionInv => TypeOK
  BY DEF SessionInv
<1>2. QED
  BY <1>1, Invariance, PTL

\* A session that was refreshed is over, whatever calls are under way with it.
THEOREM RefreshedSessionsAreGone == Spec => []RefreshedIsGone
<1>1. SessionInv => RefreshedIsGone
  BY NothingAssumption DEF SessionInv, ParentsAreGone, RefreshedIsGone, Successors
<1>2. QED
  BY <1>1, Invariance, PTL

\* A refresh token is used once, but by refreshes that held it together.
THEOREM RefreshTokensWorkOnce == Spec => []OneSuccessor
<1>1. SessionInv => OneSuccessor
  <2>1. SUFFICES ASSUME SessionInv, NEW j \in Jtis \ shared
                 PROVE  Cardinality(Successors(j)) <= 1
    BY DEF OneSuccessor
  <2>2. \A k, l \in Successors(j) : k = l
    BY <2>1 DEF SessionInv, HeldOnce, Successors
  <2>3. CASE Successors(j) = {}
    BY <2>3, FS_EmptySet
  <2>4. CASE Successors(j) # {}
    <3>1. PICK k : Successors(j) = {k}
      BY <2>2, <2>4
    <3>2. QED
      BY <3>1, FS_Singleton
  <2>5. QED
    BY <2>3, <2>4
<1>2. QED
  BY <1>1, Invariance, PTL

\* A call that ends sessions leaves none of those stored when it saved.
THEOREM EndingsReachEarlierSessions == Spec => EarlierSessionsEnd
<1>1. ASSUME SessionInv, NEW c \in CallIds,
             (FindKeys(c) /\ calls'[c].pc = "idle") \/ DeleteKeys(c)
      PROVE  \A j \in calls[c].before : sessions'[j].state = "gone"
  <2>1. CASE FindKeys(c) /\ calls'[c].pc = "idle"
    <3>1. calls \in [CallIds -> Call]
      BY <1>1 DEF SessionInv, TypeOK
    <3>2. Stored(calls[c].user) = {}
      BY <2>1, <3>1 DEF FindKeys, Call
    <3>3. QED
      BY <1>1, <2>1, <3>2, FoundCovers DEF FindKeys
  <2>2. CASE DeleteKeys(c)
    <3>1. calls[c].pc = "del" /\ Remove(calls[c].keys)
      BY <2>2 DEF DeleteKeys
    <3>2. \A j \in calls[c].before : j \in calls[c].keys \/ sessions[j].state = "gone"
      BY <1>1, <3>1 DEF SessionInv, EndingHolds
    <3>3. calls[c].before \subseteq Jtis
      BY <1>1 DEF SessionInv, TypeOK, Call
    <3>4. QED
      BY <1>1, <3>1, <3>2, <3>3, KeysWereOpened, RemoveKeeps
  <2>3. QED
    BY <1>1, <2>1, <2>2
<1>2. SessionInv => [\A c \in CallIds :
        (FindKeys(c) /\ calls'[c].pc = "idle") \/ DeleteKeys(c)
          => \A j \in calls[c].before : sessions'[j].state = "gone"]_vars
  BY <1>1
<1>3. QED
  BY <1>2, Invariance, PTL DEF EarlierSessionsEnd

=============================================================================
