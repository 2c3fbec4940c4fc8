------------------------------ MODULE Messaging ------------------------------
(***************************************************************************)
(* The chat of a booking, the notifications it causes, and the sockets     *)
(* that carry both.  A message is inserted, then emitted to the sockets in *)
(* the chat room, then turned into a notification; a client that opens the *)
(* thread joins the room and pages through the history meanwhile.  Calls   *)
(* are split at their awaits, overlap, and may fail; the process may stop, *)
(* which empties its rooms.                                                *)
(***************************************************************************)
EXTENDS Integers, Sequences, FiniteSets

CONSTANTS
  Parties,      \* the requester and the traveler of the booking
  Sockets,      \* socket ids: bounds the tabs
  ChatTabs,     \* the tabs that may open the thread: a bound
  CallIds,      \* calls that may be in flight together
  MaxMessages,  \* bounds the thread
  PageSize,     \* the limit of a page
  Nobody        \* no user, no socket

ASSUME PartiesAssumption ==
  /\ Cardinality(Parties) = 2
  /\ Nobody \notin Parties \cup Sockets
  /\ ChatTabs \subseteq Sockets

ASSUME PagesAssumption == MaxMessages \in Nat /\ PageSize \in Nat \ {0}

VARIABLES
  cancelled,    \* the booking is cancelled
  messages,     \* the messages of the booking, by createdAt
  notices,      \* the notification of each message
  rooms,        \* of each socket: its user, and whether it joined the chat room
  userSockets,  \* the gateway's map from users to their sockets
  clients,      \* what the client behind each socket has loaded and shows
  calls,        \* the calls in flight
  emitted       \* history: the messages that were emitted

vars ==
  <<cancelled, messages, notices, rooms, userSockets, clients, calls, emitted>>

Positions == 1 .. MaxMessages

Message == [senderId : Parties, isRead : BOOLEAN]

ReceiverOf(d) == CHOOSE u \in Parties : u # d.senderId

NoticeStates == {"absent", "unread", "read", "deleted"}

Room == [userId : Parties \cup {Nobody}, joined : BOOLEAN]

NoRoom == [userId |-> Nobody, joined |-> FALSE]

\* page is the last page answered; before is history: the messages at the join.
Client ==
  [page : Nat, loaded : BOOLEAN, seen : SUBSET Positions, before : 0 .. MaxMessages]

ClosedThread == [page |-> 0, loaded |-> FALSE, seen |-> {}, before |-> 0]

\* n is the message or notification the call is about, socket the tab that fetches;
\* found and total are -1 or {0} until their query has answered.
Call ==
  [pc : {"idle", "insert", "emit", "notify", "mark", "query", "saveNotice", "deleteNotice"},
   userId : Parties \cup {Nobody}, n : 0 .. MaxMessages, socket : Sockets \cup {Nobody},
   found : SUBSET (0 .. MaxMessages), total : -1 .. MaxMessages]

NoCall ==
  [pc |-> "idle", userId |-> Nobody, n |-> 0, socket |-> Nobody, found |-> {0},
   total |-> -1]

TypeOK ==
  /\ cancelled \in BOOLEAN
  /\ messages \in Seq(Message) /\ Len(messages) <= MaxMessages
  /\ notices \in [Positions -> NoticeStates]
  /\ rooms \in [Sockets -> Room]
  /\ \A s \in Sockets : rooms[s].joined => rooms[s].userId # Nobody
  /\ userSockets \in [Parties -> SUBSET Sockets]
  /\ clients \in [Sockets -> Client]
  /\ calls \in [CallIds -> Call]
  /\ emitted \subseteq Positions

Init ==
  /\ cancelled = FALSE
  /\ messages = <<>>
  /\ notices = [n \in Positions |-> "absent"]
  /\ rooms = [s \in Sockets |-> NoRoom]
  /\ userSockets = [u \in Parties |-> {}]
  /\ clients = [s \in Sockets |-> ClosedThread]
  /\ calls = [c \in CallIds |-> NoCall]
  /\ emitted = {}

gateway == <<rooms, userSockets>>
documents == <<cancelled, messages, notices>>

Begin(c, call) == calls[c].pc = "idle" /\ calls' = [calls EXCEPT ![c] = call]

End(c) == calls' = [calls EXCEPT ![c] = NoCall]

-----------------------------------------------------------------------------
(* Sending.                                                                 *)

CancelBooking ==
  /\ ~cancelled
  /\ cancelled' = TRUE
  /\ UNCHANGED <<messages, notices, gateway, clients, calls, emitted>>

\* sendMessage: the booking is read and must not be cancelled.
SendMessage(c, u) ==
  /\ ~cancelled
  /\ Begin(c, [NoCall EXCEPT !.pc = "insert", !.userId = u])
  /\ UNCHANGED <<documents, gateway, clients, emitted>>

InsertMessage(c) ==
  /\ calls[c].pc = "insert"
  /\ Len(messages) < MaxMessages
  /\ messages' = Append(messages, [senderId |-> calls[c].userId, isRead |-> FALSE])
  /\ calls' = [calls EXCEPT ![c].pc = "emit", ![c].n = Len(messages) + 1]
  /\ UNCHANGED <<cancelled, notices, gateway, clients, emitted>>

\* The sender is populated, and the message emitted to every socket in the room.
EmitMessage(c) ==
  /\ calls[c].pc = "emit"
  /\ clients' = [s \in Sockets |->
       IF rooms[s].joined
       THEN [clients[s] EXCEPT !.seen = @ \cup {calls[c].n}]
       ELSE clients[s]]
  /\ emitted' = emitted \cup {calls[c].n}
  /\ calls' = [calls EXCEPT ![c].pc = "notify"]
  /\ UNCHANGED <<documents, gateway>>

\* createNotification for the receiver, which sendMessage does not await.
CreateNotification(c) ==
  /\ calls[c].pc = "notify"
  /\ notices' = [notices EXCEPT ![calls[c].n] = "unread"]
  /\ End(c)
  /\ UNCHANGED <<cancelled, messages, gateway, clients, emitted>>

-----------------------------------------------------------------------------
(* Opening a thread.                                                        *)

HandleConnection(s, u) ==
  /\ rooms[s] = NoRoom
  /\ rooms' = [rooms EXCEPT ![s].userId = u]
  /\ userSockets' = [userSockets EXCEPT ![u] = @ \cup {s}]
  /\ UNCHANGED <<documents, clients, calls, emitted>>

WithoutSocket(s) == [userSockets EXCEPT ![rooms[s].userId] = @ \ {s}]

\* Mutant: the socket stays in the chat room.
Disconnected_StillJoined(s) == [rooms EXCEPT ![s].userId = Nobody]

Disconnected(s) == [rooms EXCEPT ![s] = NoRoom]

\* The socket leaves its rooms; answers to its fetch find no thread.
HandleDisconnect(s) ==
  /\ rooms[s].userId # Nobody
  /\ userSockets' = WithoutSocket(s)
  /\ rooms' = Disconnected(s)
  /\ clients' = [clients EXCEPT ![s] = ClosedThread]
  /\ calls' = [c \in CallIds |-> IF calls[c].socket = s THEN NoCall ELSE calls[c]]
  /\ UNCHANGED <<documents, emitted>>

\* chat:join, before the history is asked for.
HandleJoinChat(s) ==
  /\ s \in ChatTabs /\ rooms[s].userId # Nobody /\ ~rooms[s].joined
  /\ rooms' = [rooms EXCEPT ![s].joined = TRUE]
  /\ clients' = [clients EXCEPT ![s].before = Len(messages)]
  /\ UNCHANGED <<documents, userSockets, calls, emitted>>

\* chat:leave: the thread is closed.
HandleLeaveChat(s) ==
  /\ rooms[s].joined
  /\ rooms' = [rooms EXCEPT ![s].joined = FALSE]
  /\ clients' = [clients EXCEPT ![s] = ClosedThread]
  /\ calls' = [c \in CallIds |-> IF calls[c].socket = s THEN NoCall ELSE calls[c]]
  /\ UNCHANGED <<documents, userSockets, emitted>>

\* getMessages for the next page of an open thread.
GetMessages(c, s) ==
  /\ rooms[s].joined /\ ~clients[s].loaded
  /\ \A d \in CallIds : calls[d].socket # s
  /\ Begin(c, [NoCall EXCEPT !.pc = "mark", !.userId = rooms[s].userId, !.socket = s])
  /\ UNCHANGED <<documents, gateway, clients, emitted>>

\* Mutant: the filter names the sender.
MarkedRead_Own(seq, u) ==
  [n \in DOMAIN seq |-> IF seq[n].senderId = u THEN [seq[n] EXCEPT !.isRead = TRUE] ELSE seq[n]]

\* The update of all unread messages to user u, on whatever page they are.
MarkedRead(seq, u) ==
  [n \in DOMAIN seq |->
     IF ReceiverOf(seq[n]) = u THEN [seq[n] EXCEPT !.isRead = TRUE] ELSE seq[n]]

MarkMessages(c) ==
  /\ calls[c].pc = "mark"
  /\ messages' = MarkedRead(messages, calls[c].userId)
  /\ calls' = [calls EXCEPT ![c].pc = "query"]
  /\ UNCHANGED <<cancelled, notices, gateway, clients, emitted>>

\* Mutant: pages are counted from zero.
Page_FromZero(p, seq) == {n \in DOMAIN seq : n > p * PageSize /\ n <= (p + 1) * PageSize}

Page(p, seq) == {n \in DOMAIN seq : n > (p - 1) * PageSize /\ n <= p * PageSize}

PageOf(c) == clients[calls[c].socket].page + 1

\* The page and the total are queried together and answered in any order.
FindMessages(c) ==
  /\ calls[c].pc = "query" /\ calls[c].found = {0}
  /\ calls' = [calls EXCEPT ![c].found = Page(PageOf(c), messages)]
  /\ UNCHANGED <<documents, gateway, clients, emitted>>

CountMessages(c) ==
  /\ calls[c].pc = "query" /\ calls[c].total = -1
  /\ calls' = [calls EXCEPT ![c].total = Len(messages)]
  /\ UNCHANGED <<documents, gateway, clients, emitted>>

\* The client shows the page and asks for the next one until it has the total.
ShowPage(c) ==
  LET s == calls[c].socket
      k == clients[s]
  IN /\ calls[c].pc = "query" /\ calls[c].found # {0} /\ calls[c].total # -1
     /\ clients' = [clients EXCEPT ![s] =
          [k EXCEPT !.page = PageOf(c), !.seen = k.seen \cup calls[c].found,
                    !.loaded = PageOf(c) * PageSize >= calls[c].total]]
     /\ End(c)
     /\ UNCHANGED <<documents, gateway, emitted>>

-----------------------------------------------------------------------------
(* Notifications.                                                           *)

\* markMessageRead and markAllRead, each one update of what is there.
MarkMessageRead(n) ==
  /\ n \in DOMAIN messages /\ ~messages[n].isRead
  /\ messages' = [messages EXCEPT ![n].isRead = TRUE]
  /\ UNCHANGED <<cancelled, notices, gateway, clients, calls, emitted>>

MarkAllRead(u) ==
  /\ notices' = [n \in Positions |->
       IF notices[n] = "unread" /\ ReceiverOf(messages[n]) = u THEN "read" ELSE notices[n]]
  /\ UNCHANGED <<cancelled, messages, gateway, clients, calls, emitted>>

\* markRead and deleteNotification find the document, then write it.
FindNotice(c, n, pc) ==
  /\ notices[n] \in {"unread", "read"}
  /\ Begin(c, [NoCall EXCEPT !.pc = pc, !.n = n])
  /\ UNCHANGED <<documents, gateway, clients, emitted>>

\* Mutant: the document is written back whether or not it is still there.
SaveNotice_Upsert(c) ==
  /\ calls[c].pc = "saveNotice"
  /\ notices' = [notices EXCEPT ![calls[c].n] = "read"]
  /\ End(c)
  /\ UNCHANGED <<cancelled, messages, gateway, clients, emitted>>

\* save() of a document that was deleted meanwhile fails.
SaveNotice(c) ==
  /\ calls[c].pc = "saveNotice"
  /\ notices' = [notices EXCEPT ![calls[c].n] = IF @ = "deleted" THEN @ ELSE "read"]
  /\ End(c)
  /\ UNCHANGED <<cancelled, messages, gateway, clients, emitted>>

DeleteNotice(c) ==
  /\ calls[c].pc = "deleteNotice"
  /\ notices' = [notices EXCEPT ![calls[c].n] = "deleted"]
  /\ End(c)
  /\ UNCHANGED <<cancelled, messages, gateway, clients, emitted>>

-----------------------------------------------------------------------------

\* The database fails a call; the client asks for the page again.
Fail(c) ==
  /\ calls[c].pc # "idle"
  /\ End(c)
  /\ UNCHANGED <<documents, gateway, clients, emitted>>

\* The process stops: calls, rooms and the map of the gateway are gone.
Restart ==
  /\ rooms' = [s \in Sockets |-> NoRoom]
  /\ userSockets' = [u \in Parties |-> {}]
  /\ clients' = [s \in Sockets |-> ClosedThread]
  /\ calls' = [c \in CallIds |-> NoCall]
  /\ UNCHANGED <<documents, emitted>>

Next ==
  \/ CancelBooking
  \/ Restart
  \/ \E u \in Parties : MarkAllRead(u)
  \/ \E n \in Positions : MarkMessageRead(n)
  \/ \E s \in Sockets :
       \/ \E u \in Parties : HandleConnection(s, u)
       \/ HandleDisconnect(s) \/ HandleJoinChat(s) \/ HandleLeaveChat(s)
       \/ \E c \in CallIds : GetMessages(c, s)
  \/ \E c \in CallIds :
       \/ \E u \in Parties : SendMessage(c, u)
       \/ InsertMessage(c) \/ EmitMessage(c) \/ CreateNotification(c)
       \/ MarkMessages(c) \/ FindMessages(c) \/ CountMessages(c) \/ ShowPage(c)
       \/ \E n \in Positions, pc \in {"saveNotice", "deleteNotice"} : FindNotice(c, n, pc)
       \/ SaveNotice(c) \/ DeleteNotice(c)
       \/ Fail(c)

Spec == Init /\ [][Next]_vars

-----------------------------------------------------------------------------

\* A thread that has loaded shows every message that was there when it was opened,
\* and every message emitted since: nothing falls between the pages of the history
\* and the socket, whatever is sent while the pages are fetched.
OpenThreadShowsAll ==
  \A s \in Sockets :
    clients[s].loaded => (1 .. clients[s].before) \cup emitted \subseteq clients[s].seen

\* A thread that has loaded leaves none of the messages unread that its user had
\* when it was opened.
OpenThreadIsRead ==
  \A s \in Sockets :
    clients[s].loaded =>
      \A n \in 1 .. clients[s].before :
        ReceiverOf(messages[n]) = rooms[s].userId => messages[n].isRead

\* A notification that was dismissed stays dismissed, although a call that found it
\* before may still write it.
DismissedStays ==
  [][\A n \in Positions : notices[n] = "deleted" => notices'[n] = "deleted"]_vars

=============================================================================
