---------------------------- MODULE MessagingProofs ----------------------------
(***************************************************************************)
(* Proofs about Messaging, for any number of tabs, calls and messages and  *)
(* pages of any size, however calls overlap and fail, and wherever the     *)
(* process stops.                                                          *)
(***************************************************************************)
EXTENDS Messaging, SequenceTheorems, TLAPS

Sending(d) == d.pc \in {"emit", "notify"}

Noticing(d) == d.pc \in {"saveNotice", "deleteNotice"}

Fetching(d) == d.pc \in {"mark", "query"}

\* A message on its way has been inserted and has no notification yet; one call
\* sends it.
SentIsNew ==
  /\ \A c \in CallIds :
       Sending(calls[c]) => calls[c].n \in DOMAIN messages /\ notices[calls[c].n] = "absent"
  /\ \A c, d \in CallIds :
       Sending(calls[c]) /\ Sending(calls[d]) /\ calls[c].n = calls[d].n => c = d

\* Only messages have notifications, and a call edits one it has found.
NoticesAreFound ==
  /\ \A n \in Positions : notices[n] # "absent" => n \in DOMAIN messages
  /\ \A c \in CallIds :
       Noticing(calls[c]) => calls[c].n \in Positions /\ notices[calls[c].n] # "absent"

\* Of the first k messages, those to user u are read.
ReadUpTo(k, u) ==
  \A n \in 1 .. k : ReceiverOf(messages[n]) = u => messages[n].isRead

\* A tab in the chat room shows what was emitted since it joined, and of what was
\* there before, the pages it has; a loaded thread has all of them, read.
ThreadOK(s) ==
  LET k == clients[s]
  IN /\ ~rooms[s].joined => k = ClosedThread
     /\ k.before <= Len(messages)
     /\ rooms[s].joined => emitted \subseteq (1 .. k.before) \cup k.seen
     /\ \A n \in 1 .. k.before : n <= k.page * PageSize => n \in k.seen
     /\ k.loaded => k.before <= k.page * PageSize /\ ReadUpTo(k.before, rooms[s].userId)

\* A call that fetches the next page for a tab: the tab is still in the room, the
\* messages are marked before the page is queried, and the page and the total hold
\* what was there when the tab joined.
FetchOK(d) ==
  /\ d.socket # Nobody <=> Fetching(d)
  /\ Fetching(d) =>
       LET k == clients[d.socket]
       IN /\ rooms[d.socket].joined /\ ~k.loaded /\ d.userId = rooms[d.socket].userId
          /\ d.pc = "query" => ReadUpTo(k.before, d.userId)
          /\ d.found # {0} =>
               /\ d.found \subseteq Positions
               /\ \A n \in 1 .. k.before :
                    n > k.page * PageSize /\ n <= (k.page + 1) * PageSize => n \in d.found
          /\ d.total # -1 => k.before <= d.total

OneFetch ==
  \A c, d \in CallIds : calls[c].socket = calls[d].socket /\ calls[c].socket # Nobody => c = d

ThreadInv ==
  /\ emitted \subseteq DOMAIN messages
  /\ \A s \in Sockets : ThreadOK(s)
  /\ \A c \in CallIds : FetchOK(calls[c])
  /\ OneFetch

\* A call about to insert a message knows its sender.
SendersKnown == \A c \in CallIds : calls[c].pc = "insert" => calls[c].userId \in Parties

MessagingInv == TypeOK /\ SendersKnown /\ SentIsNew /\ NoticesAreFound /\ ThreadInv

-----------------------------------------------------------------------------

LEMMA SameReceiver ==
  ASSUME NEW d, NEW e, d.senderId = e.senderId
  PROVE  ReceiverOf(d) = ReceiverOf(e)
  BY DEF ReceiverOf

\* The page behind page k starts where that page ends.
LEMMA NextPage ==
  ASSUME NEW k \in Nat
  PROVE  /\ k * PageSize \in Nat /\ (k + 1) * PageSize \in Nat
         /\ ((k + 1) - 1) * PageSize = k * PageSize
         /\ k * PageSize <= (k + 1) * PageSize
  BY PagesAssumption

LEMMA CallTypes ==
  ASSUME TypeOK
  PROVE  /\ NoCall \in Call /\ calls \in [CallIds -> Call]
         /\ NoCall.pc = "idle" /\ NoCall.socket = Nobody
  BY PagesAssumption DEF TypeOK, NoCall, Call

LEMMA InitInv == Init => MessagingInv
<1> SUFFICES ASSUME Init PROVE MessagingInv
  OBVIOUS
<1>1. TypeOK
  <2>1. calls \in [CallIds -> Call]
    BY PagesAssumption DEF Init, NoCall, Call
  <2>2. clients \in [Sockets -> Client]
    BY PagesAssumption DEF Init, ClosedThread, Client
  <2>3. rooms \in [Sockets -> Room] /\ \A s \in Sockets : ~rooms[s].joined
    BY DEF Init, NoRoom, Room
  <2>4. notices \in [Positions -> NoticeStates]
    BY DEF Init, NoticeStates
  <2>5. messages \in Seq(Message) /\ Len(messages) <= MaxMessages
    BY PagesAssumption DEF Init
  <2>6. QED
    BY <2>1, <2>2, <2>3, <2>4, <2>5 DEF Init, TypeOK
<1>2. \A c \in CallIds : calls[c] = NoCall
  BY DEF Init
<1>3. SendersKnown /\ SentIsNew /\ NoticesAreFound
  BY <1>2 DEF Init, SendersKnown, SentIsNew, NoticesAreFound, NoCall, Sending, Noticing
<1>4. ThreadInv
  <2>1. \A s \in Sockets : ThreadOK(s)
    BY PagesAssumption DEF Init, ThreadOK, ClosedThread, NoRoom
  <2>2. (\A c \in CallIds : FetchOK(calls[c])) /\ OneFetch
    BY <1>2 DEF FetchOK, Fetching, OneFetch, NoCall
  <2>3. QED
    BY <2>1, <2>2 DEF Init, ThreadInv
<1>5. QED
  BY <1>1, <1>3, <1>4 DEF MessagingInv

-----------------------------------------------------------------------------
(* What a step leaves alone. *)

\* Calls go on or end, and no notification is made of a message on its way.
LEMMA SendsStay ==
  ASSUME SentIsNew, DOMAIN messages \subseteq DOMAIN messages',
         \A c \in CallIds :
           Sending(calls'[c]) =>
             /\ Sending(calls[c]) /\ calls'[c].n = calls[c].n
             /\ notices'[calls[c].n] = notices[calls[c].n]
  PROVE  SentIsNew'
  BY DEF SentIsNew, Sending

LEMMA NoticesStay ==
  ASSUME NoticesAreFound, DOMAIN messages \subseteq DOMAIN messages',
         \A n \in Positions : notices'[n] = "absent" <=> notices[n] = "absent",
         \A c \in CallIds :
           Noticing(calls'[c]) => Noticing(calls[c]) /\ calls'[c].n = calls[c].n
  PROVE  NoticesAreFound'
  BY DEF NoticesAreFound, Noticing

\* Messages stay, and stay read once they are.
MessagesStay ==
  /\ messages \in Seq(Message) /\ messages' \in Seq(Message)
  /\ Len(messages) <= Len(messages')
  /\ \A n \in DOMAIN messages :
       /\ ReceiverOf(messages'[n]) = ReceiverOf(messages[n])
       /\ messages[n].isRead => messages'[n].isRead

LEMMA ReadStays ==
  ASSUME MessagesStay, NEW k \in Nat, k <= Len(messages), NEW u, ReadUpTo(k, u)
  PROVE  ReadUpTo(k, u)'
<1>1. 1 .. k \subseteq DOMAIN messages
  BY DEF MessagesStay
<1>2. QED
  BY <1>1 DEF MessagesStay, ReadUpTo

\* No tab is told anything.
LEMMA TabsStay ==
  ASSUME TypeOK, ThreadInv, MessagesStay, UNCHANGED <<rooms, clients, emitted>>
  PROVE  /\ \A s \in Sockets : ThreadOK(s)'
         /\ \A s \in Sockets : clients[s].before \in Nat /\ clients[s].before <= Len(messages)
         /\ (emitted \subseteq DOMAIN messages)'
<1>1. \A s \in Sockets : clients[s].before \in Nat /\ clients[s].before <= Len(messages)
  BY DEF ThreadInv, ThreadOK, TypeOK, Client
<1>2. ASSUME NEW s \in Sockets PROVE ThreadOK(s)'
  <2>1. ThreadOK(s)
    BY DEF ThreadInv
  <2>2. clients[s].loaded => ReadUpTo(clients[s].before, rooms[s].userId)'
    BY <1>1, <2>1, ReadStays DEF ThreadOK
  <2>3. Len(messages) \in Nat /\ Len(messages') \in Nat /\ Len(messages) <= Len(messages')
    BY DEF MessagesStay
  <2>4. QED
    BY <1>1, <2>1, <2>2, <2>3 DEF ThreadOK, ReadUpTo
<1>3. (emitted \subseteq DOMAIN messages)'
  BY DEF ThreadInv, MessagesStay
<1>4. QED
  BY <1>1, <1>2, <1>3

\* No tab is told anything, and this call goes on with what it has.
LEMMA FetchStays ==
  ASSUME TypeOK, ThreadInv, MessagesStay, UNCHANGED <<rooms, clients, emitted>>,
         NEW c \in CallIds, calls'[c] = calls[c]
  PROVE  FetchOK(calls[c])'
<1>1. CASE Fetching(calls[c])
  <2>1. FetchOK(calls[c]) /\ calls[c].socket \in Sockets
    BY <1>1 DEF ThreadInv, FetchOK, TypeOK, Call
  <2>2. calls[c].pc = "query" =>
          ReadUpTo(clients[calls[c].socket].before, calls[c].userId)'
    BY <1>1, <2>1, ReadStays, TabsStay DEF FetchOK
  <2>3. QED
    BY <1>1, <2>1, <2>2 DEF FetchOK, Fetching, ReadUpTo
<1>2. CASE ~Fetching(calls[c])
  BY <1>2 DEF ThreadInv, FetchOK, Fetching
<1>3. QED
  BY <1>1, <1>2

\* No tab is told anything, and calls go on with what they have.
LEMMA ThreadsStay ==
  ASSUME TypeOK, ThreadInv, MessagesStay, UNCHANGED <<rooms, clients, emitted>>,
         \A c \in CallIds :
           \/ calls'[c].socket = Nobody /\ ~Fetching(calls'[c])
           \/ calls'[c] = calls[c]
  PROVE  ThreadInv'
<1>1. ASSUME NEW c \in CallIds PROVE FetchOK(calls[c])'
  <2>1. CASE calls'[c].socket = Nobody /\ ~Fetching(calls'[c])
    BY <2>1 DEF FetchOK, Fetching
  <2>2. CASE calls'[c] = calls[c]
    BY <2>2, FetchStays
  <2>3. QED
    BY <2>1, <2>2
<1>2. OneFetch'
  BY DEF ThreadInv, OneFetch
<1>3. QED
  BY <1>1, <1>2, TabsStay DEF ThreadInv

\* Calls go on as they are, or end.
CallsGoOn ==
  /\ calls' \in [CallIds -> Call]
  /\ \A e \in CallIds : calls'[e] = calls[e] \/ calls'[e] = NoCall

LEMMA GoingOn ==
  ASSUME TypeOK, SendersKnown, CallsGoOn
  PROVE  /\ SendersKnown'
         /\ \A e \in CallIds :
              /\ Sending(calls'[e]) => Sending(calls[e]) /\ calls'[e] = calls[e]
              /\ Noticing(calls'[e]) => Noticing(calls[e]) /\ calls'[e] = calls[e]
              /\ \/ calls'[e].socket = Nobody /\ ~Fetching(calls'[e])
                 \/ calls'[e] = calls[e]
  BY CallTypes DEF CallsGoOn, SendersKnown, Sending, Noticing, Fetching

LEMMA CallEnds ==
  ASSUME TypeOK, NEW c \in CallIds, End(c)
  PROVE  CallsGoOn /\ calls'[c] = NoCall /\ \A e \in CallIds \ {c} : calls'[e] = calls[e]
  BY CallTypes DEF End, CallsGoOn

LEMMA SameCalls == ASSUME TypeOK, UNCHANGED calls PROVE CallsGoOn
  BY DEF TypeOK, CallsGoOn

LEMMA SameMessages ==
  ASSUME TypeOK, UNCHANGED messages
  PROVE  MessagesStay
  BY DEF TypeOK, MessagesStay

\* Nothing but the booking and calls that end: what CancelBooking and Fail do.
LEMMA QuietStep ==
  ASSUME MessagingInv, CallsGoOn, cancelled' \in BOOLEAN,
         UNCHANGED <<messages, notices, gateway, clients, emitted>>
  PROVE  MessagingInv'
<1>1. TypeOK'
  BY DEF MessagingInv, TypeOK, CallsGoOn, gateway
<1>2. SendersKnown'
  BY GoingOn DEF MessagingInv
<1>3. SentIsNew'
  BY GoingOn, SendsStay DEF MessagingInv
<1>4. NoticesAreFound'
  BY GoingOn, NoticesStay DEF MessagingInv
<1>5. ThreadInv'
  BY GoingOn, ThreadsStay, SameMessages DEF MessagingInv, gateway
<1>6. QED
  BY <1>1, <1>2, <1>3, <1>4, <1>5 DEF MessagingInv

LEMMA CancelBookingInv == ASSUME MessagingInv, CancelBooking PROVE MessagingInv'
  BY QuietStep, SameCalls DEF CancelBooking, MessagingInv

LEMMA FailInv ==
  ASSUME MessagingInv, NEW c \in CallIds, Fail(c) PROVE MessagingInv'
  BY QuietStep, CallEnds DEF Fail, MessagingInv, documents, TypeOK

-----------------------------------------------------------------------------
(* Messages and notifications that change under way. *)

LEMMA MarkMessageReadInv ==
  ASSUME MessagingInv, NEW n \in Positions, MarkMessageRead(n) PROVE MessagingInv'
<1>1. /\ n \in DOMAIN messages /\ messages' = [messages EXCEPT ![n].isRead = TRUE]
      /\ UNCHANGED <<cancelled, notices, rooms, userSockets, clients, calls, emitted>>
  BY DEF MarkMessageRead, gateway
<1>2. messages \in Seq(Message) /\ messages[n] \in Message
  BY <1>1 DEF MessagingInv, TypeOK
<1>3. PICK d : d = [messages[n] EXCEPT !.isRead = TRUE]
  OBVIOUS
<1>4. d \in Message /\ d.senderId = messages[n].senderId /\ d.isRead
  BY <1>2, <1>3 DEF Message
<1>5. messages' = [messages EXCEPT ![n] = d]
  BY <1>1, <1>3
<1>6. /\ messages' \in Seq(Message) /\ Len(messages') = Len(messages)
      /\ \A i \in DOMAIN messages : messages'[i] = IF i = n THEN d ELSE messages[i]
  <2>1. DOMAIN messages = 1 .. Len(messages)
    BY <1>2, LenProperties
  <2>2. /\ [messages EXCEPT ![n] = d] \in Seq(Message)
        /\ Len([messages EXCEPT ![n] = d]) = Len(messages)
        /\ \A i \in 1 .. Len(messages) :
             [messages EXCEPT ![n] = d][i] = IF i = n THEN d ELSE messages[i]
    BY <1>1, <1>2, <1>4, <2>1, ExceptSeq
  <2>3. QED
    BY <1>5, <2>1, <2>2
<1>7. MessagesStay
  BY <1>2, <1>4, <1>6, SameReceiver DEF MessagesStay
<1>8. TypeOK'
  BY <1>1, <1>6 DEF MessagingInv, TypeOK
<1>9. DOMAIN messages' = DOMAIN messages
  BY <1>2, <1>6
<1>10. CallsGoOn
  BY <1>1, SameCalls DEF MessagingInv
<1>11. SendersKnown' /\ SentIsNew'
  BY <1>1, <1>9, <1>10, GoingOn, SendsStay DEF MessagingInv
<1>12. NoticesAreFound'
  BY <1>1, <1>9, <1>10, GoingOn, NoticesStay DEF MessagingInv
<1>13. ThreadInv'
  BY <1>1, <1>7, ThreadsStay DEF MessagingInv
<1>14. QED
  BY <1>8, <1>11, <1>12, <1>13 DEF MessagingInv

\* Notifications change, and calls end: no message is touched, and the notification
\* of a message on its way stays absent.
LEMMA NoticeStep ==
  ASSUME MessagingInv, CallsGoOn, notices' \in [Positions -> NoticeStates],
         UNCHANGED <<cancelled, messages, gateway, clients, emitted>>,
         \A n \in Positions : notices'[n] = "absent" <=> notices[n] = "absent"
  PROVE  MessagingInv'
<1>1. TypeOK'
  BY DEF MessagingInv, TypeOK, CallsGoOn, gateway
<1>2. SendersKnown'
  BY GoingOn DEF MessagingInv
<1>3. SentIsNew'
  <2>1. DOMAIN messages \subseteq Positions
    BY PagesAssumption DEF MessagingInv, TypeOK, Positions
  <2>2. \A e \in CallIds : Sending(calls[e]) => notices'[calls[e].n] = "absent"
    BY <2>1 DEF MessagingInv, SentIsNew
  <2>3. QED
    BY <2>2, GoingOn DEF MessagingInv, SentIsNew
<1>4. NoticesAreFound'
  BY GoingOn, NoticesStay DEF MessagingInv
<1>5. ThreadInv'
  BY GoingOn, ThreadsStay, SameMessages DEF MessagingInv, gateway
<1>6. QED
  BY <1>1, <1>2, <1>3, <1>4, <1>5 DEF MessagingInv

LEMMA MarkAllReadInv ==
  ASSUME MessagingInv, NEW u \in Parties, MarkAllRead(u) PROVE MessagingInv'
<1>1. /\ notices' \in [Positions -> NoticeStates]
      /\ \A n \in Positions : notices'[n] = "absent" <=> notices[n] = "absent"
  BY DEF MarkAllRead, MessagingInv, TypeOK, NoticeStates
<1>2. QED
  BY <1>1, NoticeStep, SameCalls DEF MarkAllRead, MessagingInv

\* A call about a notification writes the one it found.
LEMMA NoticeCallInv ==
  ASSUME MessagingInv, NEW c \in CallIds, SaveNotice(c) \/ DeleteNotice(c)
  PROVE  MessagingInv'
<1>1. calls[c].n \in Positions /\ notices[calls[c].n] # "absent"
  BY DEF MessagingInv, NoticesAreFound, Noticing, SaveNotice, DeleteNotice
<1>2. notices \in [Positions -> NoticeStates]
  BY DEF MessagingInv, TypeOK
<1>3. PICK x \in NoticeStates \ {"absent"} : notices' = [notices EXCEPT ![calls[c].n] = x]
  <2>1. CASE SaveNotice(c)
    BY <1>1, <1>2, <2>1 DEF SaveNotice, NoticeStates
  <2>2. CASE DeleteNotice(c)
    BY <2>2 DEF DeleteNotice, NoticeStates
  <2>3. QED
    BY <2>1, <2>2
<1>4. /\ notices' \in [Positions -> NoticeStates]
      /\ \A n \in Positions : notices'[n] = "absent" <=> notices[n] = "absent"
  BY <1>1, <1>2, <1>3
<1>5. QED
  BY <1>4, NoticeStep, CallEnds DEF SaveNotice, DeleteNotice, MessagingInv

-----------------------------------------------------------------------------
(* Sending. *)

\* A step that begins a call and changes nothing else keeps the types.
LEMMA CallBegins ==
  ASSUME TypeOK, NEW c \in CallIds, NEW d \in Call, Begin(c, d)
  PROVE  /\ calls' \in [CallIds -> Call]
         /\ \A e \in CallIds : calls'[e] = IF e = c THEN d ELSE calls[e]
         /\ calls[c].pc = "idle"
  BY DEF Begin, TypeOK

LEMMA SendMessageInv ==
  ASSUME MessagingInv, NEW c \in CallIds, NEW u \in Parties, SendMessage(c, u)
  PROVE  MessagingInv'
<1>1. PICK d : d = [NoCall EXCEPT !.pc = "insert", !.userId = u]
  OBVIOUS
<1>2. d \in Call /\ d.pc = "insert" /\ d.userId = u /\ d.socket = Nobody
  BY <1>1, CallTypes DEF Call, MessagingInv
<1>3. Begin(c, d) /\ UNCHANGED <<cancelled, messages, notices, rooms, userSockets, clients, emitted>>
  BY <1>1 DEF SendMessage, documents, gateway
<1>4. /\ calls' \in [CallIds -> Call]
      /\ \A e \in CallIds : calls'[e] = IF e = c THEN d ELSE calls[e]
  BY <1>2, <1>3, CallBegins DEF MessagingInv
<1>5. TypeOK'
  BY <1>3, <1>4 DEF MessagingInv, TypeOK
<1>6. SendersKnown'
  BY <1>2, <1>4 DEF MessagingInv, SendersKnown
<1>7. SentIsNew' /\ NoticesAreFound'
  BY <1>2, <1>3, <1>4, SendsStay, NoticesStay DEF MessagingInv, Sending, Noticing
<1>8. ThreadInv'
  BY <1>2, <1>3, <1>4, ThreadsStay, SameMessages DEF MessagingInv, Fetching
<1>9. QED
  BY <1>5, <1>6, <1>7, <1>8 DEF MessagingInv

LEMMA FindNoticeInv ==
  ASSUME MessagingInv, NEW c \in CallIds, NEW n \in Positions,
         NEW pc \in {"saveNotice", "deleteNotice"}, FindNotice(c, n, pc)
  PROVE  MessagingInv'
<1>1. PICK d : d = [NoCall EXCEPT !.pc = pc, !.n = n]
  OBVIOUS
<1>2. d \in Call /\ d.pc = pc /\ d.n = n /\ d.socket = Nobody
  <2>1. n \in 0 .. MaxMessages
    BY PagesAssumption DEF Positions
  <2>2. QED
    BY <1>1, <2>1, CallTypes DEF Call, MessagingInv
<1>3. Begin(c, d) /\ UNCHANGED <<cancelled, messages, notices, rooms, userSockets, clients, emitted>>
  BY <1>1 DEF FindNotice, documents, gateway
<1>4. /\ calls' \in [CallIds -> Call]
      /\ \A e \in CallIds : calls'[e] = IF e = c THEN d ELSE calls[e]
  BY <1>2, <1>3, CallBegins DEF MessagingInv
<1>5. TypeOK'
  BY <1>3, <1>4 DEF MessagingInv, TypeOK
<1>6. SendersKnown' /\ SentIsNew'
  BY <1>2, <1>3, <1>4, SendsStay DEF MessagingInv, SendersKnown, Sending
<1>7. NoticesAreFound'
  BY <1>2, <1>3, <1>4 DEF MessagingInv, NoticesAreFound, Noticing, FindNotice
<1>8. ThreadInv'
  BY <1>2, <1>3, <1>4, ThreadsStay, SameMessages DEF MessagingInv, Fetching
<1>9. QED
  BY <1>5, <1>6, <1>7, <1>8 DEF MessagingInv

\* The new message takes the next place of the thread, behind what any tab opened with.
LEMMA InsertMessageInv ==
  ASSUME MessagingInv, NEW c \in CallIds, InsertMessage(c) PROVE MessagingInv'
<1>0. PICK k : k = Len(messages) + 1
  OBVIOUS
<1>1. /\ calls[c].pc = "insert" /\ Len(messages) < MaxMessages
      /\ UNCHANGED <<cancelled, notices, rooms, userSockets, clients, emitted>>
  BY DEF InsertMessage, gateway
<1>2. /\ messages \in Seq(Message) /\ Len(messages) \in Nat /\ DOMAIN messages = 1 .. Len(messages)
      /\ k \in Positions /\ k \in 0 .. MaxMessages /\ k \notin DOMAIN messages
  BY <1>0, <1>1, LenProperties, PagesAssumption DEF MessagingInv, TypeOK, Positions
<1>3. PICK m \in Message : messages' = Append(messages, m)
  BY <1>1 DEF InsertMessage, MessagingInv, SendersKnown, Message
<1>4. /\ messages' \in Seq(Message) /\ Len(messages') = k /\ DOMAIN messages' = 1 .. k
      /\ \A n \in DOMAIN messages : messages'[n] = messages[n]
  BY <1>0, <1>2, <1>3, AppendProperties, LenProperties
<1>5. MessagesStay /\ DOMAIN messages \subseteq DOMAIN messages' /\ k \in DOMAIN messages'
  BY <1>0, <1>2, <1>4, SameReceiver DEF MessagesStay
<1>6. PICK d : d = [calls[c] EXCEPT !.pc = "emit", !.n = k]
  OBVIOUS
<1>7. calls[c] \in Call
  BY DEF MessagingInv, TypeOK
<1>8. /\ d \in Call /\ d.pc = "emit" /\ d.n = k /\ d.socket = calls[c].socket
  BY <1>2, <1>6, <1>7 DEF Call
<1>9. calls' = [calls EXCEPT ![c] = d]
  BY <1>0, <1>6 DEF InsertMessage
<1>10. /\ calls' \in [CallIds -> Call]
       /\ \A e \in CallIds : calls'[e] = IF e = c THEN d ELSE calls[e]
  BY <1>8, <1>9 DEF MessagingInv, TypeOK
<1>11. TypeOK'
  BY <1>0, <1>1, <1>2, <1>4, <1>10, PagesAssumption DEF MessagingInv, TypeOK
<1>12. SendersKnown'
  BY <1>8, <1>10 DEF MessagingInv, SendersKnown
<1>13. SentIsNew'
  <2>1. notices[k] = "absent"
    BY <1>2 DEF MessagingInv, NoticesAreFound
  <2>2. \A e \in CallIds \ {c} : Sending(calls[e]) => calls[e].n # k
    BY <1>2 DEF MessagingInv, SentIsNew
  <2>3. QED
    BY <1>1, <1>5, <1>8, <1>10, <2>1, <2>2 DEF MessagingInv, SentIsNew, Sending
<1>14. NoticesAreFound'
  BY <1>1, <1>5, <1>8, <1>10, NoticesStay DEF MessagingInv, Noticing
<1>15. d.socket = Nobody /\ ~Fetching(d)
  BY <1>1, <1>8 DEF MessagingInv, ThreadInv, FetchOK, Fetching
<1>16. ThreadInv'
  BY <1>1, <1>5, <1>10, <1>15, ThreadsStay DEF MessagingInv
<1>17. QED
  BY <1>11, <1>12, <1>13, <1>14, <1>16 DEF MessagingInv

LEMMA CreateNotificationInv ==
  ASSUME MessagingInv, NEW c \in CallIds, CreateNotification(c) PROVE MessagingInv'
<1> DEFINE k == calls[c].n
<1>1. /\ calls[c].pc = "notify" /\ notices' = [notices EXCEPT ![k] = "unread"] /\ End(c)
      /\ UNCHANGED <<cancelled, messages, rooms, userSockets, clients, emitted>>
  BY DEF CreateNotification, gateway
<1>2. CallsGoOn /\ calls'[c] = NoCall /\ \A e \in CallIds \ {c} : calls'[e] = calls[e]
  BY <1>1, CallEnds DEF MessagingInv
<1>3. k \in DOMAIN messages /\ \A e \in CallIds \ {c} : Sending(calls[e]) => calls[e].n # k
  BY <1>1 DEF MessagingInv, SentIsNew, Sending
<1>4. DOMAIN messages \subseteq Positions
  BY PagesAssumption DEF MessagingInv, TypeOK, Positions
<1>5. /\ notices' \in [Positions -> NoticeStates]
      /\ \A n \in Positions : notices'[n] = IF n = k THEN "unread" ELSE notices[n]
  BY <1>1, <1>3, <1>4 DEF MessagingInv, TypeOK, NoticeStates
<1>6. TypeOK'
  BY <1>1, <1>2, <1>5 DEF MessagingInv, TypeOK, CallsGoOn
<1>7. SendersKnown'
  BY <1>2, GoingOn DEF MessagingInv
<1>8. SentIsNew'
  <2>1. \A e \in CallIds : Sending(calls'[e]) => e # c /\ Sending(calls[e]) /\ calls'[e] = calls[e]
    BY <1>2, CallTypes DEF MessagingInv, Sending
  <2>2. \A e \in CallIds : Sending(calls'[e]) =>
          calls[e].n \in DOMAIN messages /\ notices'[calls[e].n] = notices[calls[e].n]
    BY <1>3, <1>4, <1>5, <2>1 DEF MessagingInv, SentIsNew
  <2>3. QED
    BY <1>1, <2>1, <2>2, SendsStay DEF MessagingInv
<1>9. NoticesAreFound'
  <2>1. \A n \in Positions : notices'[n] # "absent" => n \in DOMAIN messages'
    BY <1>1, <1>3, <1>5 DEF MessagingInv, NoticesAreFound
  <2>2. \A e \in CallIds : Noticing(calls'[e]) => Noticing(calls[e]) /\ calls'[e] = calls[e]
    BY <1>2, GoingOn DEF MessagingInv
  <2>3. QED
    BY <1>5, <2>1, <2>2 DEF MessagingInv, NoticesAreFound
<1>10. ThreadInv'
  BY <1>1, <1>2, GoingOn, ThreadsStay, SameMessages DEF MessagingInv
<1>11. QED
  BY <1>6, <1>7, <1>8, <1>9, <1>10 DEF MessagingInv

-----------------------------------------------------------------------------
(* Fetching a thread. *)

\* A call begins to fetch for a tab that no other call fetches for, or goes on to
\* the next step of its fetch; messages may be marked.
LEMMA FetchStep ==
  ASSUME MessagingInv, MessagesStay, Len(messages') = Len(messages),
         UNCHANGED <<cancelled, notices, rooms, userSockets, clients, emitted>>,
         NEW c \in CallIds, NEW d \in Call, calls' = [calls EXCEPT ![c] = d],
         Fetching(d), FetchOK(d)',
         \A e \in CallIds \ {c} : calls[e].socket # d.socket
  PROVE  MessagingInv'
<1>1. /\ calls' \in [CallIds -> Call]
      /\ \A e \in CallIds : calls'[e] = IF e = c THEN d ELSE calls[e]
  BY DEF MessagingInv, TypeOK
<1>2. TypeOK'
  BY <1>1 DEF MessagingInv, TypeOK, MessagesStay
<1>3. DOMAIN messages = DOMAIN messages'
  BY LenProperties DEF MessagesStay
<1>4. SendersKnown' /\ SentIsNew' /\ NoticesAreFound'
  BY <1>1, <1>3, SendsStay, NoticesStay
     DEF MessagingInv, SendersKnown, Sending, Noticing, Fetching
<1>5. ThreadInv'
  <2>1. ASSUME NEW e \in CallIds PROVE FetchOK(calls[e])'
    <3>1. CASE e = c
      BY <1>1, <3>1 DEF FetchOK, ReadUpTo
    <3>2. CASE e # c
      BY <1>1, <3>2, FetchStays DEF MessagingInv
    <3>3. QED
      BY <3>1, <3>2
  <2>2. OneFetch'
    BY <1>1 DEF MessagingInv, ThreadInv, OneFetch
  <2>3. QED
    BY <2>1, <2>2, TabsStay DEF MessagingInv, ThreadInv
<1>6. QED
  BY <1>2, <1>4, <1>5 DEF MessagingInv

LEMMA GetMessagesInv ==
  ASSUME MessagingInv, NEW c \in CallIds, NEW s \in Sockets, GetMessages(c, s)
  PROVE  MessagingInv'
<1>1. /\ rooms[s].joined /\ ~clients[s].loaded
      /\ \A e \in CallIds : calls[e].socket # s
      /\ UNCHANGED <<cancelled, messages, notices, rooms, userSockets, clients, emitted>>
  BY DEF GetMessages, documents, gateway
<1>2. PICK d : d = [NoCall EXCEPT !.pc = "mark", !.userId = rooms[s].userId, !.socket = s]
  OBVIOUS
<1>3. /\ d \in Call /\ d.pc = "mark" /\ d.userId = rooms[s].userId /\ d.socket = s
      /\ d.found = {0} /\ d.total = -1
  <2>1. NoCall \in Call /\ NoCall.found = {0} /\ NoCall.total = -1
    BY CallTypes DEF MessagingInv, NoCall
  <2>2. rooms[s].userId \in Parties \cup {Nobody}
    BY DEF MessagingInv, TypeOK, Room
  <2>3. QED
    BY <1>2, <2>1, <2>2 DEF Call
<1>4. calls' = [calls EXCEPT ![c] = d]
  BY <1>2 DEF GetMessages, Begin
<1>5. FetchOK(d)'
  BY <1>1, <1>3, PartiesAssumption DEF FetchOK, Fetching
<1>6. QED
  BY <1>1, <1>3, <1>4, <1>5, FetchStep, SameMessages DEF MessagingInv, Fetching

\* What a call in the middle of a fetch knows.
LEMMA FetchKnows ==
  ASSUME MessagingInv, NEW c \in CallIds, Fetching(calls[c])
  PROVE  /\ calls[c] \in Call /\ FetchOK(calls[c])
         /\ calls[c].socket \in Sockets /\ calls[c].socket # Nobody
         /\ clients[calls[c].socket] \in Client /\ ThreadOK(calls[c].socket)
         /\ \A e \in CallIds \ {c} : calls[e].socket # calls[c].socket
  BY DEF MessagingInv, TypeOK, ThreadInv, FetchOK, OneFetch, Call

\* The update reads every message to the user, whatever page it is on.
LEMMA MarkedReadIsRead ==
  ASSUME messages \in Seq(Message), NEW u, messages' = MarkedRead(messages, u)
  PROVE  /\ MessagesStay /\ Len(messages') = Len(messages)
         /\ \A k \in Nat : k <= Len(messages) => ReadUpTo(k, u)'
<1>1. Len(messages) \in Nat /\ DOMAIN messages = 1 .. Len(messages)
  BY LenProperties
<1>2. ASSUME NEW n \in DOMAIN messages
      PROVE  /\ messages'[n] \in Message
             /\ messages'[n].senderId = messages[n].senderId
             /\ messages[n].isRead => messages'[n].isRead
             /\ ReceiverOf(messages[n]) = u => messages'[n].isRead
  <2>1. messages[n] \in Message
    BY <1>1, ElementOfSeq
  <2>2. messages'[n] = IF ReceiverOf(messages[n]) = u
                       THEN [messages[n] EXCEPT !.isRead = TRUE] ELSE messages[n]
    BY DEF MarkedRead
  <2>3. QED
    BY <2>1, <2>2 DEF Message
<1>3. DOMAIN messages' = 1 .. Len(messages)
  BY <1>1 DEF MarkedRead
<1>4. messages' \in [1 .. Len(messages) -> Message]
  <2>1. messages' = [n \in 1 .. Len(messages) |-> messages'[n]]
    BY <1>1 DEF MarkedRead
  <2>2. QED
    BY <1>1, <1>2, <2>1
<1>5. messages' \in Seq(Message)
  BY <1>1, <1>4, SeqDef
<1>6. Len(messages') = Len(messages)
  BY <1>1, <1>3, <1>5, LenProperties
<1>7. \A n \in DOMAIN messages : ReceiverOf(messages'[n]) = ReceiverOf(messages[n])
  BY <1>2 DEF ReceiverOf
<1>8. MessagesStay
  BY <1>1, <1>2, <1>5, <1>6, <1>7 DEF MessagesStay
<1>9. \A k \in Nat : k <= Len(messages) => ReadUpTo(k, u)'
  BY <1>1, <1>2, <1>7 DEF ReadUpTo
<1>10. QED
  BY <1>6, <1>8, <1>9

LEMMA MarkMessagesInv ==
  ASSUME MessagingInv, NEW c \in CallIds, MarkMessages(c) PROVE MessagingInv'
<1>1. /\ calls[c].pc = "mark" /\ messages' = MarkedRead(messages, calls[c].userId)
      /\ UNCHANGED <<cancelled, notices, rooms, userSockets, clients, emitted>>
  BY DEF MarkMessages, gateway
<1>2. /\ calls[c] \in Call /\ FetchOK(calls[c])
      /\ calls[c].socket \in Sockets /\ calls[c].socket # Nobody
      /\ clients[calls[c].socket] \in Client /\ ThreadOK(calls[c].socket)
      /\ \A e \in CallIds \ {c} : calls[e].socket # calls[c].socket
  BY <1>1, FetchKnows DEF Fetching
<1>3. PICK d : d = [calls[c] EXCEPT !.pc = "query"]
  OBVIOUS
<1>4. /\ d \in Call /\ d.pc = "query" /\ d.userId = calls[c].userId
      /\ d.socket = calls[c].socket /\ d.found = calls[c].found /\ d.total = calls[c].total
  BY <1>2, <1>3 DEF Call
<1>5. calls' = [calls EXCEPT ![c] = d]
  BY <1>3 DEF MarkMessages
<1>6. /\ MessagesStay /\ Len(messages') = Len(messages)
      /\ \A k \in Nat : k <= Len(messages) => ReadUpTo(k, d.userId)'
  BY <1>1, <1>4, MarkedReadIsRead DEF MessagingInv, TypeOK
<1>7. ReadUpTo(clients[d.socket].before, d.userId)'
  <2>1. clients[d.socket].before \in Nat /\ clients[d.socket].before <= Len(messages)
    BY <1>2, <1>4 DEF Client, ThreadOK
  <2>2. QED
    BY <1>1, <1>6, <2>1 DEF ReadUpTo
<1>8. FetchOK(d)'
  BY <1>1, <1>2, <1>4, <1>7 DEF FetchOK, Fetching
<1>9. QED
  BY <1>1, <1>2, <1>4, <1>5, <1>6, <1>8, FetchStep DEF Fetching

LEMMA CountMessagesInv ==
  ASSUME MessagingInv, NEW c \in CallIds, CountMessages(c) PROVE MessagingInv'
<1>1. /\ calls[c].pc = "query"
      /\ UNCHANGED <<cancelled, messages, notices, rooms, userSockets, clients, emitted>>
  BY DEF CountMessages, documents, gateway
<1>2. /\ calls[c] \in Call /\ FetchOK(calls[c])
      /\ calls[c].socket \in Sockets /\ calls[c].socket # Nobody
      /\ clients[calls[c].socket] \in Client /\ ThreadOK(calls[c].socket)
      /\ \A e \in CallIds \ {c} : calls[e].socket # calls[c].socket
  BY <1>1, FetchKnows DEF Fetching
<1>3. PICK total : total = Len(messages)
  OBVIOUS
<1>4. total \in -1 .. MaxMessages
  BY <1>3, LenProperties, PagesAssumption DEF MessagingInv, TypeOK
<1>5. PICK d : d = [calls[c] EXCEPT !.total = total]
  OBVIOUS
<1>6. /\ d \in Call /\ d.pc = "query" /\ d.userId = calls[c].userId
      /\ d.socket = calls[c].socket /\ d.found = calls[c].found /\ d.total = total
  BY <1>1, <1>2, <1>4, <1>5 DEF Call
<1>7. calls' = [calls EXCEPT ![c] = d]
  BY <1>3, <1>5 DEF CountMessages
<1>8. FetchOK(d)'
  BY <1>1, <1>2, <1>3, <1>6 DEF FetchOK, Fetching, ThreadOK, ReadUpTo
<1>9. QED
  BY <1>1, <1>2, <1>6, <1>7, <1>8, FetchStep, SameMessages DEF MessagingInv, Fetching

LEMMA FindMessagesInv ==
  ASSUME MessagingInv, NEW c \in CallIds, FindMessages(c) PROVE MessagingInv'
<1>1. /\ calls[c].pc = "query"
      /\ UNCHANGED <<cancelled, messages, notices, rooms, userSockets, clients, emitted>>
  BY DEF FindMessages, documents, gateway
<1>2. /\ calls[c] \in Call /\ FetchOK(calls[c])
      /\ calls[c].socket \in Sockets /\ calls[c].socket # Nobody
      /\ clients[calls[c].socket] \in Client /\ ThreadOK(calls[c].socket)
      /\ \A e \in CallIds \ {c} : calls[e].socket # calls[c].socket
  BY <1>1, FetchKnows DEF Fetching
<1>3. PICK k : k = clients[calls[c].socket]
  OBVIOUS
<1>4. PICK found : found = Page(PageOf(c), messages)
  OBVIOUS
<1>5. DOMAIN messages = 1 .. Len(messages) /\ Len(messages) \in Nat /\ DOMAIN messages \subseteq Positions
  BY LenProperties, PagesAssumption DEF MessagingInv, TypeOK, Positions
<1>6. /\ found \subseteq Positions
      /\ \A n \in 1 .. k.before :
           n > k.page * PageSize /\ n <= (k.page + 1) * PageSize => n \in found
  <2>1. k.page \in Nat /\ k.before \in Nat /\ k.before <= Len(messages)
    BY <1>2, <1>3 DEF Client, ThreadOK
  <2>2. found = {n \in DOMAIN messages :
                   n > ((k.page + 1) - 1) * PageSize /\ n <= (k.page + 1) * PageSize}
    <3>1. PageOf(c) = k.page + 1
      BY <1>3 DEF PageOf
    <3>2. found = Page(k.page + 1, messages)
      BY <1>4, <3>1
    <3>3. QED
      BY <3>2 DEF Page
  <2>3. ((k.page + 1) - 1) * PageSize = k.page * PageSize
    BY <2>1, NextPage
  <2>4. QED
    BY <1>5, <2>1, <2>2, <2>3
<1>7. PICK d : d = [calls[c] EXCEPT !.found = found]
  OBVIOUS
<1>8. Positions \subseteq 0 .. MaxMessages
  BY PagesAssumption DEF Positions
<1>9. /\ d \in Call /\ d.pc = "query" /\ d.userId = calls[c].userId
      /\ d.socket = calls[c].socket /\ d.found = found /\ d.total = calls[c].total
  BY <1>1, <1>2, <1>6, <1>7, <1>8 DEF Call
<1>10. calls' = [calls EXCEPT ![c] = d]
  BY <1>4, <1>7 DEF FindMessages
<1>11. FetchOK(d)'
  BY <1>1, <1>2, <1>3, <1>6, <1>9 DEF FetchOK, Fetching, ReadUpTo
<1>12. QED
  BY <1>1, <1>2, <1>9, <1>10, <1>11, FetchStep, SameMessages DEF MessagingInv, Fetching

-----------------------------------------------------------------------------
(* Tabs and rooms. *)

\* One tab comes, goes or shows a page; no call fetches for it afterwards.
LEMMA TabStep ==
  ASSUME MessagingInv, CallsGoOn, TypeOK', NEW s \in Sockets,
         UNCHANGED <<documents, emitted>>,
         \A t \in Sockets \ {s} : rooms'[t] = rooms[t] /\ clients'[t] = clients[t],
         \A e \in CallIds : calls'[e].socket # s,
         ThreadOK(s)'
  PROVE  MessagingInv'
<1>1. UNCHANGED <<messages, notices, emitted>>
  BY DEF documents
<1>2. SendersKnown' /\ SentIsNew' /\ NoticesAreFound'
  BY <1>1, GoingOn, SendsStay, NoticesStay DEF MessagingInv
<1>3. ASSUME NEW t \in Sockets PROVE ThreadOK(t)'
  <2>1. CASE t = s
    BY <2>1
  <2>2. CASE t # s
    BY <1>1, <2>2 DEF MessagingInv, ThreadInv, ThreadOK, ReadUpTo
  <2>3. QED
    BY <2>1, <2>2
<1>4. ASSUME NEW e \in CallIds PROVE FetchOK(calls[e])'
  <2>1. CASE calls'[e].socket = Nobody /\ ~Fetching(calls'[e])
    BY <2>1 DEF FetchOK, Fetching
  <2>2. CASE calls'[e] = calls[e] /\ ~Fetching(calls[e])
    BY <2>2 DEF MessagingInv, ThreadInv, FetchOK, Fetching
  <2>3. CASE calls'[e] = calls[e] /\ Fetching(calls[e])
    <3>1. FetchOK(calls[e]) /\ calls[e].socket \in Sockets \ {s}
      BY <2>3, FetchKnows
    <3>2. rooms'[calls[e].socket] = rooms[calls[e].socket]
          /\ clients'[calls[e].socket] = clients[calls[e].socket]
      BY <3>1
    <3>3. QED
      BY <1>1, <2>3, <3>1, <3>2 DEF FetchOK, Fetching, ReadUpTo
  <2>4. QED
    BY <2>1, <2>2, <2>3, GoingOn DEF MessagingInv
<1>5. OneFetch'
  BY GoingOn DEF MessagingInv, ThreadInv, OneFetch
<1>6. (emitted \subseteq DOMAIN messages)'
  BY <1>1 DEF MessagingInv, ThreadInv
<1>7. QED
  BY <1>2, <1>3, <1>4, <1>5, <1>6 DEF MessagingInv, ThreadInv

\* No call fetches for a tab outside the chat room.
LEMMA NoFetchOutside ==
  ASSUME MessagingInv, NEW s \in Sockets, ~rooms[s].joined, NEW e \in CallIds
  PROVE  calls[e].socket # s
  BY PartiesAssumption DEF MessagingInv, ThreadInv, FetchOK

LEMMA ThreadTypes ==
  ASSUME TypeOK
  PROVE  /\ NoRoom \in Room /\ ~NoRoom.joined /\ ClosedThread \in Client
         /\ Len(messages) \in 0 .. MaxMessages /\ DOMAIN messages = 1 .. Len(messages)
  BY LenProperties, PagesAssumption DEF TypeOK, NoRoom, Room, ClosedThread, Client

\* A closed thread outside the chat room shows nothing and promises nothing.
LEMMA ClosedOK ==
  ASSUME TypeOK, UNCHANGED messages, NEW s \in Sockets,
         rooms'[s].joined = FALSE, clients'[s] = ClosedThread
  PROVE  ThreadOK(s)'
<1>1. Len(messages') \in Nat
  BY ThreadTypes, PagesAssumption
<1>2. ClosedThread.before = 0 /\ ~ClosedThread.loaded
  BY DEF ClosedThread
<1>3. QED
  BY <1>1, <1>2 DEF ThreadOK

LEMMA HandleConnectionInv ==
  ASSUME MessagingInv, NEW s \in Sockets, NEW u \in Parties, HandleConnection(s, u)
  PROVE  MessagingInv'
<1>1. /\ rooms[s] = NoRoom /\ rooms' = [rooms EXCEPT ![s].userId = u]
      /\ userSockets' = [userSockets EXCEPT ![u] = @ \cup {s}]
      /\ UNCHANGED <<documents, clients, calls, emitted>>
  BY DEF HandleConnection
<1>2. /\ rooms \in [Sockets -> Room] /\ ~rooms[s].joined
      /\ userSockets \in [Parties -> SUBSET Sockets]
  BY <1>1, ThreadTypes DEF MessagingInv, TypeOK
<1>3. PICK r : r = [rooms[s] EXCEPT !.userId = u]
  OBVIOUS
<1>4. r \in Room /\ r.joined = FALSE
  BY <1>2, <1>3 DEF Room
<1>5. rooms' = [rooms EXCEPT ![s] = r]
  BY <1>1, <1>3
<1>6. /\ rooms' \in [Sockets -> Room] /\ rooms'[s] = r
      /\ \A t \in Sockets \ {s} : rooms'[t] = rooms[t]
  BY <1>2, <1>4, <1>5
<1>7. TypeOK'
  <2>1. userSockets' \in [Parties -> SUBSET Sockets]
    BY <1>1, <1>2
  <2>2. \A t \in Sockets : rooms'[t].joined => rooms'[t].userId # Nobody
    BY <1>4, <1>6 DEF MessagingInv, TypeOK
  <2>3. QED
    BY <1>1, <1>6, <2>1, <2>2 DEF MessagingInv, TypeOK, documents
<1>8. clients'[s] = ClosedThread
  BY <1>1, <1>2 DEF MessagingInv, ThreadInv, ThreadOK
<1>9. ThreadOK(s)'
  BY <1>1, <1>4, <1>6, <1>8, ClosedOK DEF MessagingInv, documents
<1>10. CallsGoOn /\ \A e \in CallIds : calls'[e].socket # s
  BY <1>1, <1>2, SameCalls, NoFetchOutside DEF MessagingInv
<1>11. QED
  BY <1>1, <1>6, <1>7, <1>9, <1>10, TabStep

\* The calls that fetch for a closed thread end.
LEMMA CallsOfTabEnd ==
  ASSUME TypeOK, NEW s \in Sockets,
         calls' = [c \in CallIds |-> IF calls[c].socket = s THEN NoCall ELSE calls[c]]
  PROVE  CallsGoOn /\ \A e \in CallIds : calls'[e].socket # s
  BY CallTypes, PartiesAssumption DEF CallsGoOn, TypeOK

\* A tab leaves the chat room.
LEMMA TabCloses ==
  ASSUME MessagingInv, NEW s \in Sockets, NEW r \in Room, ~r.joined,
         rooms' = [rooms EXCEPT ![s] = r],
         userSockets' \in [Parties -> SUBSET Sockets],
         clients' = [clients EXCEPT ![s] = ClosedThread],
         calls' = [c \in CallIds |-> IF calls[c].socket = s THEN NoCall ELSE calls[c]],
         UNCHANGED <<documents, emitted>>
  PROVE  MessagingInv'
<1>1. TypeOK
  BY DEF MessagingInv
<1>2. /\ rooms' \in [Sockets -> Room] /\ rooms'[s] = r
      /\ \A t \in Sockets \ {s} : rooms'[t] = rooms[t]
  BY <1>1 DEF TypeOK
<1>3. /\ clients' \in [Sockets -> Client] /\ clients'[s] = ClosedThread
      /\ \A t \in Sockets \ {s} : clients'[t] = clients[t]
  BY <1>1, ThreadTypes DEF TypeOK
<1>4. CallsGoOn /\ \A e \in CallIds : calls'[e].socket # s
  BY <1>1, CallsOfTabEnd
<1>5. TypeOK'
  <2>1. \A t \in Sockets : rooms'[t].joined => rooms'[t].userId # Nobody
    BY <1>1, <1>2 DEF TypeOK
  <2>2. QED
    BY <1>1, <1>2, <1>3, <1>4, <2>1 DEF TypeOK, documents, CallsGoOn
<1>6. rooms'[s].joined = FALSE
  BY <1>2 DEF Room
<1>7. ThreadOK(s)'
  BY <1>1, <1>3, <1>6, ClosedOK DEF documents
<1>8. QED
  BY <1>2, <1>3, <1>4, <1>5, <1>7, TabStep

LEMMA HandleDisconnectInv ==
  ASSUME MessagingInv, NEW s \in Sockets, HandleDisconnect(s) PROVE MessagingInv'
<1>1. NoRoom \in Room /\ ~NoRoom.joined
  BY ThreadTypes DEF MessagingInv
<1>2. userSockets' \in [Parties -> SUBSET Sockets]
  BY DEF HandleDisconnect, WithoutSocket, MessagingInv, TypeOK
<1>3. QED
  BY <1>1, <1>2, TabCloses DEF HandleDisconnect, Disconnected

LEMMA HandleLeaveChatInv ==
  ASSUME MessagingInv, NEW s \in Sockets, HandleLeaveChat(s) PROVE MessagingInv'
<1>1. PICK r : r = [rooms[s] EXCEPT !.joined = FALSE]
  OBVIOUS
<1>2. r \in Room /\ ~r.joined
  BY <1>1 DEF MessagingInv, TypeOK, Room
<1>3. rooms' = [rooms EXCEPT ![s] = r]
  BY <1>1 DEF HandleLeaveChat
<1>4. userSockets' \in [Parties -> SUBSET Sockets]
  BY DEF HandleLeaveChat, MessagingInv, TypeOK
<1>5. QED
  BY <1>2, <1>3, <1>4, TabCloses DEF HandleLeaveChat, documents

\* All messages were there when the tab joins: none was emitted since.
LEMMA HandleJoinChatInv ==
  ASSUME MessagingInv, NEW s \in Sockets, HandleJoinChat(s) PROVE MessagingInv'
<1>1. /\ rooms[s].userId # Nobody /\ ~rooms[s].joined
      /\ rooms' = [rooms EXCEPT ![s].joined = TRUE]
      /\ clients' = [clients EXCEPT ![s].before = Len(messages)]
      /\ UNCHANGED <<documents, userSockets, calls, emitted>>
  BY DEF HandleJoinChat
<1>2. /\ rooms \in [Sockets -> Room] /\ clients \in [Sockets -> Client]
      /\ clients[s] = ClosedThread
  BY <1>1 DEF MessagingInv, TypeOK, ThreadInv, ThreadOK
<1>3. PICK r : r = [rooms[s] EXCEPT !.joined = TRUE]
  OBVIOUS
<1>4. r \in Room /\ r.joined /\ r.userId = rooms[s].userId
  BY <1>2, <1>3 DEF Room
<1>5. rooms' = [rooms EXCEPT ![s] = r]
  BY <1>1, <1>3
<1>6. /\ rooms' \in [Sockets -> Room] /\ rooms'[s] = r
      /\ \A t \in Sockets \ {s} : rooms'[t] = rooms[t]
  BY <1>2, <1>4, <1>5
<1>7. PICK k : k = [clients[s] EXCEPT !.before = Len(messages)]
  OBVIOUS
<1>8. Len(messages) \in 0 .. MaxMessages /\ DOMAIN messages = 1 .. Len(messages)
  BY ThreadTypes DEF MessagingInv
<1>9. /\ k \in Client /\ k.before = Len(messages) /\ k.page = clients[s].page
      /\ k.seen = clients[s].seen /\ k.loaded = clients[s].loaded
  BY <1>2, <1>7, <1>8 DEF Client
<1>10. k.page = 0 /\ k.loaded = FALSE
  BY <1>2, <1>9 DEF ClosedThread
<1>11. clients' = [clients EXCEPT ![s] = k]
  BY <1>1, <1>7
<1>12. /\ clients' \in [Sockets -> Client] /\ clients'[s] = k
       /\ \A t \in Sockets \ {s} : clients'[t] = clients[t]
  BY <1>2, <1>9, <1>11
<1>13. TypeOK'
  <2>1. \A t \in Sockets : rooms'[t].joined => rooms'[t].userId # Nobody
    BY <1>1, <1>4, <1>6 DEF MessagingInv, TypeOK
  <2>2. QED
    BY <1>1, <1>6, <1>12, <2>1 DEF MessagingInv, TypeOK, documents
<1>14. ThreadOK(s)'
  <2>1. emitted' \subseteq 1 .. k.before
    BY <1>1, <1>8, <1>9 DEF MessagingInv, ThreadInv
  <2>2. k.before <= Len(messages')
    BY <1>1, <1>8, <1>9, PagesAssumption DEF documents
  <2>3. \A n \in 1 .. k.before : ~(n <= k.page * PageSize)
    BY <1>8, <1>9, <1>10, PagesAssumption
  <2>4. QED
    BY <1>4, <1>6, <1>10, <1>12, <2>1, <2>2, <2>3 DEF ThreadOK
<1>15. CallsGoOn /\ \A e \in CallIds : calls'[e].socket # s
  BY <1>1, SameCalls, NoFetchOutside DEF MessagingInv
<1>16. QED
  BY <1>1, <1>6, <1>12, <1>13, <1>14, <1>15, TabStep

LEMMA RestartInv == ASSUME MessagingInv, Restart PROVE MessagingInv'
<1>1. /\ \A s \in Sockets : rooms'[s] = NoRoom /\ clients'[s] = ClosedThread
      /\ \A c \in CallIds : calls'[c] = NoCall
      /\ UNCHANGED <<cancelled, messages, notices, emitted>>
  BY DEF Restart, documents
<1>2. TypeOK /\ NoRoom \in Room /\ NoRoom.joined = FALSE /\ ClosedThread \in Client
  BY ThreadTypes DEF MessagingInv, Room
<1>3. CallsGoOn
  BY <1>2, CallTypes DEF Restart, CallsGoOn
<1>4. TypeOK'
  <2>1. rooms' \in [Sockets -> Room] /\ clients' \in [Sockets -> Client]
    BY <1>2 DEF Restart
  <2>2. userSockets' \in [Parties -> SUBSET Sockets]
    BY DEF Restart
  <2>3. QED
    BY <1>1, <1>2, <1>3, <2>1, <2>2 DEF TypeOK, CallsGoOn
<1>5. SendersKnown' /\ SentIsNew' /\ NoticesAreFound'
  BY <1>1, <1>3, GoingOn, SendsStay, NoticesStay DEF MessagingInv
<1>6. \A s \in Sockets : ThreadOK(s)'
  BY <1>1, <1>2, ClosedOK
<1>7. (\A c \in CallIds : FetchOK(calls[c])') /\ OneFetch'
  BY <1>1, <1>2, CallTypes DEF FetchOK, Fetching, OneFetch
<1>8. ThreadInv'
  BY <1>1, <1>6, <1>7 DEF MessagingInv, ThreadInv
<1>9. QED
  BY <1>4, <1>5, <1>8 DEF MessagingInv

\* The page that is shown starts where the pages before it end.
LEMMA ShowPageInv ==
  ASSUME MessagingInv, NEW c \in CallIds, ShowPage(c) PROVE MessagingInv'
<1>1. PICK d : d = calls[c]
  OBVIOUS
<1>2. PICK k : k = clients[d.socket]
  OBVIOUS
<1>3. /\ d.pc = "query" /\ d.found # {0} /\ d.total # -1
      /\ End(c) /\ UNCHANGED <<cancelled, messages, notices, rooms, userSockets, emitted>>
  BY <1>1 DEF ShowPage, documents, gateway
<1>4. /\ d \in Call /\ FetchOK(d) /\ d.socket \in Sockets /\ d.socket # Nobody
      /\ k \in Client /\ ThreadOK(d.socket)
      /\ \A e \in CallIds \ {c} : calls[e].socket # d.socket
  BY <1>1, <1>2, <1>3, FetchKnows DEF Fetching
<1>5. PICK l : l = [k EXCEPT !.page = PageOf(c), !.seen = k.seen \cup d.found,
                             !.loaded = PageOf(c) * PageSize >= d.total]
  OBVIOUS
<1>6. /\ d.found \subseteq Positions
      /\ \A n \in 1 .. k.before :
           n > k.page * PageSize /\ n <= (k.page + 1) * PageSize => n \in d.found
      /\ k.before <= d.total /\ ReadUpTo(k.before, rooms[d.socket].userId)
      /\ rooms[d.socket].joined
  BY <1>2, <1>3, <1>4 DEF FetchOK, Fetching
<1>7. /\ l \in Client /\ l.page = k.page + 1 /\ l.seen = k.seen \cup d.found
      /\ l.before = k.before /\ (l.loaded => (k.page + 1) * PageSize >= d.total)
  <2>1. PICK p : p = PageOf(c)
    OBVIOUS
  <2>2. k.page \in Nat /\ p = k.page + 1 /\ p \in Nat /\ p * PageSize \in Nat /\ d.total \in Int
    <3>1. k.page \in Nat /\ p = k.page + 1 /\ d.total \in Int
      BY <1>1, <1>2, <1>4, <2>1 DEF PageOf, Client, Call
    <3>2. QED
      BY <3>1, NextPage
  <2>3. PICK x : x = (p * PageSize >= d.total)
    OBVIOUS
  <2>4. x \in BOOLEAN
    BY <2>2, <2>3
  <2>5. l = [k EXCEPT !.page = p, !.seen = k.seen \cup d.found, !.loaded = x]
    BY <1>5, <2>1, <2>3
  <2>6. k.seen \cup d.found \in SUBSET Positions
    BY <1>4, <1>6 DEF Client
  <2>7. /\ l \in Client /\ l.page = p /\ l.seen = k.seen \cup d.found
        /\ l.before = k.before /\ l.loaded = x
    BY <1>4, <2>2, <2>4, <2>5, <2>6 DEF Client
  <2>8. QED
    BY <2>2, <2>3, <2>7
<1>8. clients' = [clients EXCEPT ![d.socket] = l]
  BY <1>1, <1>2, <1>5 DEF ShowPage
<1>9. /\ clients' \in [Sockets -> Client] /\ clients'[d.socket] = l
      /\ \A t \in Sockets \ {d.socket} : clients'[t] = clients[t]
  BY <1>4, <1>7, <1>8 DEF MessagingInv, TypeOK
<1>10. CallsGoOn /\ calls'[c] = NoCall /\ \A e \in CallIds \ {c} : calls'[e] = calls[e]
  BY <1>3, CallEnds DEF MessagingInv
<1>11. \A e \in CallIds : calls'[e].socket # d.socket
  BY <1>4, <1>10, CallTypes DEF MessagingInv
<1>12. TypeOK'
  BY <1>3, <1>9, <1>10 DEF MessagingInv, TypeOK, CallsGoOn
<1>13. ThreadOK(d.socket)'
  <2>1. k.page \in Nat /\ k.before \in Nat /\ d.total \in Int
    BY <1>4 DEF Client, Call
  <2>2. k.page * PageSize \in Nat /\ (k.page + 1) * PageSize \in Nat
    BY <2>1, NextPage
  <2>3. /\ k.before <= Len(messages)
        /\ emitted \subseteq (1 .. k.before) \cup k.seen
        /\ \A n \in 1 .. k.before : n <= k.page * PageSize => n \in k.seen
    BY <1>2, <1>4, <1>6 DEF ThreadOK
  <2>4. \A n \in 1 .. l.before : n <= l.page * PageSize => n \in l.seen
    BY <1>6, <1>7, <2>1, <2>2, <2>3
  <2>5. l.loaded => l.before <= l.page * PageSize
    BY <1>6, <1>7, <2>1, <2>2
  <2>6. l.loaded => ReadUpTo(l.before, rooms[d.socket].userId)'
    BY <1>3, <1>6, <1>7 DEF ReadUpTo
  <2>7. emitted' \subseteq (1 .. l.before) \cup l.seen
    BY <1>3, <1>7, <2>3
  <2>8. rooms'[d.socket].joined /\ l.before <= Len(messages')
    BY <1>3, <1>6, <1>7, <2>3
  <2>9. QED
    BY <1>9, <2>4, <2>5, <2>6, <2>7, <2>8 DEF ThreadOK, ReadUpTo
<1>14. QED
  BY <1>3, <1>4, <1>9, <1>10, <1>11, <1>12, <1>13, TabStep DEF documents

\* Every tab in the chat room is told, and stays at the page it has.
LEMMA EmitMessageInv ==
  ASSUME MessagingInv, NEW c \in CallIds, EmitMessage(c) PROVE MessagingInv'
<1>1. PICK m : m = calls[c].n
  OBVIOUS
<1>2. /\ calls[c].pc = "emit" /\ emitted' = emitted \cup {m}
      /\ UNCHANGED <<cancelled, messages, notices, rooms, userSockets>>
  BY <1>1 DEF EmitMessage, documents, gateway
<1>3. m \in DOMAIN messages /\ calls[c] \in Call
  BY <1>1, <1>2 DEF MessagingInv, TypeOK, SentIsNew, Sending
<1>4. PICK d : d = [calls[c] EXCEPT !.pc = "notify"]
  OBVIOUS
<1>5. d \in Call /\ d.pc = "notify" /\ d.n = m /\ d.socket = calls[c].socket
  BY <1>1, <1>3, <1>4 DEF Call
<1>6. calls' = [calls EXCEPT ![c] = d]
  BY <1>4 DEF EmitMessage
<1>7. /\ calls' \in [CallIds -> Call]
      /\ \A e \in CallIds : calls'[e] = IF e = c THEN d ELSE calls[e]
  BY <1>5, <1>6 DEF MessagingInv, TypeOK
<1>8. DOMAIN messages \subseteq Positions
  BY PagesAssumption DEF MessagingInv, TypeOK, Positions
<1>9. ASSUME NEW s \in Sockets
      PROVE  /\ clients'[s] \in Client
             /\ clients'[s].page = clients[s].page /\ clients'[s].loaded = clients[s].loaded
             /\ clients'[s].before = clients[s].before
             /\ clients[s].seen \subseteq clients'[s].seen
             /\ rooms[s].joined => m \in clients'[s].seen
             /\ ~rooms[s].joined => clients'[s] = clients[s]
  <2>1. clients[s] \in Client
    BY DEF MessagingInv, TypeOK
  <2>2. CASE rooms[s].joined
    <3>1. clients'[s] = [clients[s] EXCEPT !.seen = @ \cup {m}]
      BY <1>1, <2>2 DEF EmitMessage
    <3>2. QED
      BY <1>3, <1>8, <2>1, <2>2, <3>1 DEF Client
  <2>3. CASE ~rooms[s].joined
    BY <2>1, <2>3 DEF EmitMessage
  <2>4. QED
    BY <2>2, <2>3
<1>10. TypeOK'
  <2>1. clients' \in [Sockets -> Client]
    <3>1. clients' = [s \in Sockets |-> clients'[s]]
      BY DEF EmitMessage
    <3>2. QED
      BY <1>9, <3>1
  <2>2. QED
    BY <1>2, <1>3, <1>7, <1>8, <2>1 DEF MessagingInv, TypeOK
<1>11. SendersKnown' /\ NoticesAreFound'
  BY <1>2, <1>5, <1>7, NoticesStay DEF MessagingInv, SendersKnown, Noticing
<1>12. SentIsNew'
  BY <1>1, <1>2, <1>5, <1>7, SendsStay DEF MessagingInv, Sending
<1>13. ThreadInv'
  <2>1. ASSUME NEW s \in Sockets PROVE ThreadOK(s)'
    BY <1>2, <1>9 DEF MessagingInv, ThreadInv, ThreadOK, ReadUpTo
  <2>2. ASSUME NEW e \in CallIds PROVE FetchOK(calls[e])'
    <3>1. CASE e = c
      BY <1>2, <1>5, <1>7, <3>1 DEF MessagingInv, ThreadInv, FetchOK, Fetching
    <3>2. CASE e # c /\ ~Fetching(calls[e])
      BY <1>7, <3>2 DEF MessagingInv, ThreadInv, FetchOK, Fetching
    <3>3. CASE e # c /\ Fetching(calls[e])
      <4>1. FetchOK(calls[e]) /\ calls[e].socket \in Sockets /\ calls'[e] = calls[e]
        BY <1>7, <3>3, FetchKnows
      <4>2. QED
        BY <1>2, <1>9, <3>3, <4>1 DEF FetchOK, Fetching, ReadUpTo
    <3>4. QED
      BY <3>1, <3>2, <3>3
  <2>3. OneFetch'
    BY <1>5, <1>7 DEF MessagingInv, ThreadInv, OneFetch
  <2>4. (emitted \subseteq DOMAIN messages)'
    BY <1>2, <1>3 DEF MessagingInv, ThreadInv
  <2>5. QED
    BY <2>1, <2>2, <2>3, <2>4 DEF ThreadInv
<1>14. QED
  BY <1>10, <1>11, <1>12, <1>13 DEF MessagingInv

-----------------------------------------------------------------------------

LEMMA NextInv == MessagingInv /\ [Next]_vars => MessagingInv'
<1> SUFFICES ASSUME MessagingInv, [Next]_vars PROVE MessagingInv'
  OBVIOUS
<1>1. CASE CancelBooking \/ Restart
  BY <1>1, CancelBookingInv, RestartInv
<1>2. CASE \E u \in Parties : MarkAllRead(u)
  BY <1>2, MarkAllReadInv
<1>3. CASE \E n \in Positions : MarkMessageRead(n)
  BY <1>3, MarkMessageReadInv
<1>4. ASSUME NEW s \in Sockets,
             \/ \E u \in Parties : HandleConnection(s, u)
             \/ HandleDisconnect(s) \/ HandleJoinChat(s) \/ HandleLeaveChat(s)
             \/ \E c \in CallIds : GetMessages(c, s)
      PROVE  MessagingInv'
  BY <1>4, HandleConnectionInv, HandleDisconnectInv, HandleJoinChatInv,
     HandleLeaveChatInv, GetMessagesInv
<1>5. ASSUME NEW c \in CallIds,
             \/ \E u \in Parties : SendMessage(c, u)
             \/ InsertMessage(c) \/ EmitMessage(c) \/ CreateNotification(c)
      PROVE  MessagingInv'
  BY <1>5, SendMessageInv, InsertMessageInv, EmitMessageInv, CreateNotificationInv
<1>6. ASSUME NEW c \in CallIds,
             \/ MarkMessages(c) \/ FindMessages(c) \/ CountMessages(c) \/ ShowPage(c)
             \/ \E n \in Positions, pc \in {"saveNotice", "deleteNotice"} : FindNotice(c, n, pc)
             \/ SaveNotice(c) \/ DeleteNotice(c)
             \/ Fail(c)
      PROVE  MessagingInv'
  BY <1>6, MarkMessagesInv, FindMessagesInv, CountMessagesInv, ShowPageInv,
     FindNoticeInv, NoticeCallInv, FailInv
<1>7. CASE UNCHANGED vars
  BY <1>7, QuietStep, SameCalls DEF vars, MessagingInv, TypeOK, gateway
<1>8. QED
  BY <1>1, <1>2, <1>3, <1>4, <1>5, <1>6, <1>7 DEF Next

LEMMA SpecInv == Spec => []MessagingInv
  BY InitInv, NextInv, PTL DEF Spec

\* Every variable keeps its type.
THEOREM TypeCorrect == Spec => []TypeOK
<1>1. MessagingInv => TypeOK
  BY DEF MessagingInv
<1>2. QED
  BY <1>1, SpecInv, PTL

\* A thread that has loaded shows every message that was there when the tab joined
\* the room and every message emitted since, for pages of any size and however the
\* pages, the count and new messages interleave.
THEOREM LoadedThreadShowsAll == Spec => []OpenThreadShowsAll
<1>1. MessagingInv => OpenThreadShowsAll
  <2>1. SUFFICES ASSUME MessagingInv, NEW s \in Sockets, clients[s].loaded
                 PROVE  (1 .. clients[s].before) \cup emitted \subseteq clients[s].seen
    BY DEF OpenThreadShowsAll
  <2>2. PICK k : k = clients[s]
    OBVIOUS
  <2>3. rooms[s].joined
    BY <2>1 DEF MessagingInv, ThreadInv, ThreadOK, ClosedThread
  <2>4. /\ emitted \subseteq (1 .. k.before) \cup k.seen
        /\ \A n \in 1 .. k.before : n <= k.page * PageSize => n \in k.seen
        /\ k.before <= k.page * PageSize
    BY <2>1, <2>2, <2>3 DEF MessagingInv, ThreadInv, ThreadOK
  <2>5. k.before \in Nat /\ k.page * PageSize \in Nat
    <3>1. k \in Client
      BY <2>1, <2>2 DEF MessagingInv, TypeOK
    <3>2. QED
      BY <3>1, NextPage DEF Client
  <2>6. 1 .. k.before \subseteq k.seen
    BY <2>4, <2>5
  <2>7. QED
    BY <2>2, <2>4, <2>6
<1>2. QED
  BY <1>1, SpecInv, PTL

\* A thread that has loaded has no unread message to its user among those that were
\* there when the tab joined.
THEOREM LoadedThreadIsRead == Spec => []OpenThreadIsRead
<1>1. MessagingInv => OpenThreadIsRead
  BY DEF MessagingInv, ThreadInv, ThreadOK, ReadUpTo, OpenThreadIsRead
<1>2. QED
  BY <1>1, SpecInv, PTL

\* The steps that write a notification: its creation, which finds none, and three
\* updates, none of which brings a deleted one back.
LEMMA DeletedStays ==
  ASSUME MessagingInv, [Next]_vars, NEW n \in Positions, notices[n] = "deleted"
  PROVE  notices'[n] = "deleted"
<1>1. CASE \E c \in CallIds : CreateNotification(c)
  <2>1. PICK c \in CallIds : CreateNotification(c)
    BY <1>1
  <2>2. notices[calls[c].n] = "absent"
    BY <2>1 DEF MessagingInv, SentIsNew, Sending, CreateNotification
  <2>3. QED
    BY <2>1, <2>2 DEF CreateNotification, MessagingInv, TypeOK
<1>2. CASE \E c \in CallIds : SaveNotice(c) \/ DeleteNotice(c)
  BY <1>2 DEF SaveNotice, DeleteNotice, MessagingInv, TypeOK
<1>3. CASE \E u \in Parties : MarkAllRead(u)
  BY <1>3 DEF MarkAllRead
<1>4. CASE UNCHANGED notices
  BY <1>4
<1>5. QED
  BY <1>1, <1>2, <1>3, <1>4
     DEF Next, vars, documents, CancelBooking, Restart, MarkMessageRead, HandleConnection,
         HandleDisconnect, HandleJoinChat, HandleLeaveChat, GetMessages, SendMessage,
         InsertMessage, EmitMessage, MarkMessages, FindMessages, CountMessages, ShowPage,
         FindNotice, Fail

\* A notification that was dismissed stays dismissed: the one write that could bring
\* it back, the creation, is of a message that has none yet.
THEOREM DismissedStaysDismissed == Spec => DismissedStays
<1>1. MessagingInv /\ [Next]_vars =>
        [\A n \in Positions : notices[n] = "deleted" => notices'[n] = "deleted"]_vars
  BY DeletedStays
<1>2. QED
  BY <1>1, SpecInv, PTL DEF Spec, DismissedStays

====
