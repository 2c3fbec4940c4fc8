------------------------------- MODULE Sessions -------------------------------
(***************************************************************************)
(* Refresh sessions in Redis and the status of accounts in MongoDB.  A     *)
(* session is opened by a login, replaced by a refresh, and ended by a     *)
(* logout, by its time to live, or together with all others of the user    *)
(* when a password is changed, an account banned or the user asks for it.  *)
(* Calls are split at their awaits, overlap, and may fail at each of them. *)
(*                                                                         *)
(* That a password, a code or a signature is right is a choice of the      *)
(* caller: a wrong one changes nothing.                                    *)
(***************************************************************************)
EXTENDS Integers, FiniteSets

CONSTANTS
  Users,
  Jtis,     \* session ids: bounds the sessions that may be opened
  CallIds,  \* calls that may be in flight together
  Nothing   \* no session, no user

ASSUME NothingAssumption == Nothing \notin Jtis \cup Users

VARIABLES
  accountStatus,  \* of each user
  sessions,       \* the keys tohdah:refresh:<user>:<jti>, and what became of them
  calls,          \* the calls in flight
  shared          \* history: sessions that two refreshes held at a time

vars == <<accountStatus, sessions, calls, shared>>

AccountStatuses == {"active", "suspended", "banned"}

\* "stored" is a key in Redis; parent is the session it was refreshed from.
Session ==
  [state : {"unused", "stored", "gone"}, user : Users \cup {Nothing},
   parent : Jtis \cup {Nothing}]

UnusedSession == [state |-> "unused", user |-> Nothing, parent |-> Nothing]

Ops ==
  {"idle", "login", "refresh", "password", "revoke", "ban", "suspend", "reinstate"}

\* jti is the session a refresh presents, status the account status as read, keys
\* what KEYS returned; before is history: the sessions stored at the save.
Call ==
  [op : Ops, pc : {"idle", "find", "drop", "store", "save", "keys", "del"},
   user : Users \cup {Nothing}, jti : Jtis \cup {Nothing}, status : AccountStatuses,
   keys : SUBSET Jtis, before : SUBSET Jtis]

NoCall ==
  [op |-> "idle", pc |-> "idle", user |-> Nothing, jti |-> Nothing,
   status |-> "active", keys |-> {}, before |-> {}]

Stored(u) == {j \in Jtis : sessions[j].state = "stored" /\ sessions[j].user = u}

TypeOK ==
  /\ accountStatus \in [Users -> AccountStatuses]
  /\ sessions \in [Jtis -> Session]
  /\ calls \in [CallIds -> Call]
  /\ shared \subseteq Jtis

Init ==
  /\ accountStatus = [u \in Users |-> "active"]
  /\ sessions = [j \in Jtis |-> UnusedSession]
  /\ calls = [c \in CallIds |-> NoCall]
  /\ shared = {}

-----------------------------------------------------------------------------

\* A call of op by or about user u, which has read the account.
Begin(c, op, u, pc, jti) ==
  /\ calls[c].pc = "idle"
  /\ calls' = [calls EXCEPT ![c] =
       [NoCall EXCEPT !.op = op, !.pc = pc, !.user = u, !.jti = jti,
                      !.status = accountStatus[u]]]

GoTo(c, pc) == calls' = [calls EXCEPT ![c].pc = pc]

End(c) == calls' = [calls EXCEPT ![c] = NoCall]

Remove(keys) ==
  sessions' = [j \in Jtis |->
    IF j \in keys THEN [sessions[j] EXCEPT !.state = "gone"] ELSE sessions[j]]

-----------------------------------------------------------------------------
(* Opening and replacing sessions.                                          *)

\* login, and the Google callback of a user that exists: the account is read, the
\* password compared, the status tested on the copy.
Login(c, u) ==
  /\ accountStatus[u] = "active"
  /\ Begin(c, "login", u, "store", Nothing)
  /\ UNCHANGED <<accountStatus, sessions, shared>>

\* refresh of a session the client was once given.
Refresh(c, j) ==
  /\ sessions[j].state # "unused"
  /\ accountStatus[sessions[j].user] = "active"
  /\ Begin(c, "refresh", sessions[j].user, "find", j)
  /\ shared' = IF \E k \in CallIds : calls[k].jti = j THEN shared \cup {j} ELSE shared
  /\ UNCHANGED <<accountStatus, sessions>>

\* Mutant: whatever Redis says, the signature is enough.
FindToken_AnyToken(c) ==
  /\ calls[c].pc = "find"
  /\ GoTo(c, "drop")
  /\ UNCHANGED <<accountStatus, sessions, shared>>

\* The stored hash is read; without one the call is refused.  One that does not
\* match is not modelled: the key is named by the id in the signed token.
FindToken(c) ==
  /\ calls[c].pc = "find"
  /\ IF sessions[calls[c].jti].state = "stored" THEN GoTo(c, "drop") ELSE End(c)
  /\ UNCHANGED <<accountStatus, sessions, shared>>

\* Mutant: the old session is left to its time to live.
DropToken_Keep(c) ==
  /\ calls[c].pc = "drop"
  /\ GoTo(c, "store")
  /\ UNCHANGED <<accountStatus, sessions, shared>>

DropToken(c) ==
  /\ calls[c].pc = "drop"
  /\ Remove({calls[c].jti})
  /\ GoTo(c, "store")
  /\ UNCHANGED <<accountStatus, shared>>

\* The new session, under a fresh id, is the last step of login and refresh.
StoreToken(c, j) ==
  /\ calls[c].pc = "store"
  /\ sessions[j].state = "unused"
  /\ sessions' = [sessions EXCEPT ![j] =
       [state |-> "stored", user |-> calls[c].user, parent |-> calls[c].jti]]
  /\ End(c)
  /\ UNCHANGED <<accountStatus, shared>>

\* logout with a token the client was once given.
Logout(j) ==
  /\ sessions[j].state # "unused"
  /\ Remove({j})
  /\ UNCHANGED <<accountStatus, calls, shared>>

\* Redis drops a key at the end of its time to live.
Expire(j) ==
  /\ sessions[j].state = "stored"
  /\ Remove({j})
  /\ UNCHANGED <<accountStatus, calls, shared>>

-----------------------------------------------------------------------------
(* Ending all sessions of a user.                                           *)

\* changePassword and resetPassword: the account is read, then the hash written.
ChangePassword(c, u) ==
  /\ Begin(c, "password", u, "save", Nothing)
  /\ UNCHANGED <<accountStatus, sessions, shared>>

\* DELETE users/sessions.
RevokeAllSessions(c, u) ==
  /\ calls[c].pc = "idle"
  /\ calls' = [calls EXCEPT ![c] =
       [NoCall EXCEPT !.op = "revoke", !.pc = "keys", !.user = u, !.before = Stored(u)]]
  /\ UNCHANGED <<accountStatus, sessions, shared>>

\* banUser, suspendUser, reinstateUser: the account is read, edited and saved.
Moderate(c, u, op) ==
  /\ Begin(c, op, u, "save", Nothing)
  /\ UNCHANGED <<accountStatus, sessions, shared>>

\* Mutant: the name of the operation is written.
EditedStatus_Verb(op, read) ==
  IF op \in {"ban", "suspend", "reinstate"} THEN op ELSE read

EditedStatus(op, read) ==
  CASE op = "ban" -> "banned"
    [] op = "suspend" -> "suspended"
    [] op = "reinstate" -> "active"
    [] OTHER -> read

\* save() writes the status only if the edit changed the copy.
SavedStatus(op, read, now) ==
  IF EditedStatus(op, read) = read THEN now ELSE EditedStatus(op, read)

EndsSessions == {"password", "ban"}

SaveAccount(c) ==
  LET u == calls[c].user
  IN /\ calls[c].pc = "save"
     /\ accountStatus' = [accountStatus EXCEPT ![u] =
          SavedStatus(calls[c].op, calls[c].status, @)]
     /\ IF calls[c].op \in EndsSessions
        THEN calls' = [calls EXCEPT ![c].pc = "keys", ![c].before = Stored(u)]
        ELSE End(c)
     /\ UNCHANGED <<sessions, shared>>

\* KEYS tohdah:refresh:<user>:*
FindKeys(c) ==
  LET found == Stored(calls[c].user)
  IN /\ calls[c].pc = "keys"
     /\ IF found = {}
        THEN End(c)
        ELSE calls' = [calls EXCEPT ![c].pc = "del", ![c].keys = found]
     /\ UNCHANGED <<accountStatus, sessions, shared>>

\* Mutant: only one of the keys is deleted.
DeleteKeys_One(c) ==
  /\ calls[c].pc = "del"
  /\ \E j \in calls[c].keys : Remove({j})
  /\ End(c)
  /\ UNCHANGED <<accountStatus, shared>>

DeleteKeys(c) ==
  /\ calls[c].pc = "del"
  /\ Remove(calls[c].keys)
  /\ End(c)
  /\ UNCHANGED <<accountStatus, shared>>

\* MongoDB or Redis fails the call, or the process stops.
Fail(c) ==
  /\ calls[c].pc # "idle"
  /\ End(c)
  /\ UNCHANGED <<accountStatus, sessions, shared>>

Next ==
  \/ \E j \in Jtis : Logout(j) \/ Expire(j)
  \/ \E c \in CallIds :
       \/ \E u \in Users :
            \/ Login(c, u) \/ ChangePassword(c, u) \/ RevokeAllSessions(c, u)
            \/ \E op \in {"ban", "suspend", "reinstate"} : Moderate(c, u, op)
       \/ \E j \in Jtis : Refresh(c, j) \/ StoreToken(c, j)
       \/ FindToken(c) \/ DropToken(c)
       \/ SaveAccount(c) \/ FindKeys(c) \/ DeleteKeys(c)
       \/ Fail(c)

Spec == Init /\ [][Next]_vars

-----------------------------------------------------------------------------

Successors(j) == {k \in Jtis : sessions[k].parent = j}

\* A session that was refreshed is over: it is never stored next to a successor,
\* also when the refresh failed half-way or another one of it is under way.
RefreshedIsGone ==
  \A j \in Jtis : Successors(j) # {} => sessions[j].state = "gone"

\* A refresh token works once, unless two refreshes held it at the same time.
OneSuccessor ==
  \A j \in Jtis \ shared : Cardinality(Successors(j)) <= 1

\* What a call that ends sessions has promised when it comes to its end: every
\* session stored when it saved the password or the ban, or was asked, is gone.  A
\* session stored later, by a login or refresh under way, may be left.
EarlierSessionsEnd ==
  [][\A c \in CallIds :
       (FindKeys(c) /\ calls'[c].pc = "idle") \/ DeleteKeys(c)
         => \A j \in calls[c].before : sessions'[j].state = "gone"]_vars

=============================================================================
