------------------------------- MODULE Chats -------------------------------
(***************************************************************************)
(* The chat of each customer with the administrators: chats.service.ts,    *)
(* the upload of files.service.ts it uses and the sockets of               *)
(* websocket.gateway.ts over which new messages are pushed.                *)
(*                                                                         *)
(* A message is written in a transaction of Prisma: its time is taken when *)
(* the call is made, the transaction's first read fixes what it sees of    *)
(* other messages, and its last read, of the newest message of the room,   *)
(* sees that and its own message.  What it read is pushed and answered.    *)
(***************************************************************************)
EXTENDS Serving

CONSTANTS
    Customers,
    Admins,        \* users who may be administrators
    Chatters,      \* handlers of requests
    MaxMessages,   \* messages written
    MaxChatDeaths  \* requests that die at an await

ASSUME ChatsAssumption ==
    /\ Admins \cap Customers = {} /\ IsFiniteSet(Chatters)
    /\ {MaxMessages, MaxChatDeaths} \subseteq Nat

VARIABLES
    admins,       \* users with the role Admin: no code gives it or takes it away
    rooms,        \* customers who have a chat room
    messages,     \* the messages of all rooms
    sent, lastTime, \* messages so far, and the time of the newest
    chatting,     \* where each handler stands
    shown,        \* the messages that reached each user's screen
    unseen,       \* messages whose receiver was away or whose request died
    objects,      \* files uploaded
    chatDeaths

chatVars == <<width, admins, rooms, messages, sent, lastTime, chatting, shown, unseen, objects,
              chatDeaths>>

Users == Customers \cup admins
Message == [id : 1..MaxMessages, time : 1..MaxMessages, room : Customers,
            by : {"Customer", "Admin"}, file : BOOLEAN]

Chatting ==
    {Idle}
    \cup [at : {"CreateRoom", "Upload", "FileRow"}, room : Customers, by : {"Customer", "Admin"}]
    \cup [at : {"Snapshot"}, message : Message]
    \cup [at : {"Write"}, message : Message, existed : BOOLEAN, snapshot : SUBSET Message]
    \cup [at : {"Push"}, message : Message, newest : Message]

ChatsTypeOK ==
    /\ width \in 1..MaxWidth
    /\ admins \subseteq Admins
    /\ rooms \subseteq Customers
    /\ messages \subseteq Message
    /\ sent \in 0..MaxMessages /\ lastTime \in 0..sent
    /\ chatting \in [Chatters -> Chatting]
    /\ shown \in [Users -> SUBSET messages]
    /\ unseen \subseteq messages
    /\ objects \in Nat /\ chatDeaths \in 0..MaxChatDeaths

ChatsInit ==
    /\ ServingInit
    /\ admins \in SUBSET Admins             \* there may be none
    /\ rooms = {} /\ messages = {}
    /\ sent = 0 /\ lastTime = 0
    /\ chatting = [r \in Chatters |-> Idle]
    /\ shown = [u \in Users |-> {}]
    /\ unseen = {}
    /\ objects = 0 /\ chatDeaths = 0

MayChat(r) == chatting[r] = Idle /\ MayServe(chatting)
ChatGoto(r, point) == chatting' = [chatting EXCEPT ![r] = point]

\* Two calls made in the same millisecond have the same time; only calls that
\* overlap are.
SameTime(r) == \E q \in Chatters \ {r} :
    chatting[q].at \in {"Snapshot", "Write", "Push"} /\ chatting[q].message.time = lastTime

\* prisma.user.update or prisma.chatroom.update is called.
CallUpdate(r, c, by, file) ==
    /\ sent < MaxMessages                  \* bound: messages
    /\ \E time \in {lastTime + 1} \cup (IF SameTime(r) THEN {lastTime} ELSE {}) :
          /\ sent' = sent + 1 /\ lastTime' = time
          /\ ChatGoto(r, [at |-> "Snapshot",
                 message |-> [id |-> sent', time |-> time, room |-> c, by |-> by, file |-> file]])
    /\ UNCHANGED <<rooms, messages, shown, unseen, chatDeaths>>

-----------------------------------------------------------------------------
(* Beginnings *)

CustomerSendTextMessage(r, c) ==
    MayChat(r) /\ CallUpdate(r, c, "Customer", FALSE) /\ UNCHANGED objects

AdminSendTextMessage(r, c) ==
    /\ MayChat(r) /\ admins # {} /\ c \in rooms
    /\ CallUpdate(r, c, "Admin", FALSE)
    /\ UNCHANGED objects

\* customerSendFileMessage looks for the room, adminSendFileMessage needs it.
SendFileMessage(r, c, by) ==
    /\ MayChat(r)
    /\ by = "Admin" => admins # {} /\ c \in rooms
    /\ ChatGoto(r, [at |-> IF c \in rooms THEN "Upload" ELSE "CreateRoom", room |-> c, by |-> by])
    /\ UNCHANGED <<rooms, messages, sent, lastTime, shown, unseen, objects, chatDeaths>>

\* A second room of the customer is refused by the unique index.
AdminCreateConversation(r, c) ==
    /\ MayChat(r) /\ admins # {} /\ c \notin rooms
    /\ rooms' = rooms \cup {c}
    /\ UNCHANGED <<messages, sent, lastTime, chatting, shown, unseen, objects, chatDeaths>>

-----------------------------------------------------------------------------
(* Files *)

CreateRoomUploaded(r) ==
    /\ chatting[r].at = "CreateRoom"
    /\ objects' = objects + 1
    /\ IF chatting[r].room \in rooms
       THEN ChatGoto(r, Idle) /\ UNCHANGED rooms
       ELSE ChatGoto(r, [chatting[r] EXCEPT !.at = "FileRow"]) /\ rooms' = rooms \cup {chatting[r].room}
    /\ UNCHANGED <<messages, sent, lastTime, shown, unseen, chatDeaths>>
CreateRoom(r) ==
    /\ chatting[r].at = "CreateRoom"
    /\ IF chatting[r].room \in rooms
       THEN ChatGoto(r, Idle) /\ UNCHANGED rooms
       ELSE ChatGoto(r, [chatting[r] EXCEPT !.at = "Upload"]) /\ rooms' = rooms \cup {chatting[r].room}
    /\ UNCHANGED <<messages, sent, lastTime, shown, unseen, objects, chatDeaths>>

UploadChatFile(r) ==
    /\ chatting[r].at = "Upload"
    /\ objects' = objects + 1
    /\ ChatGoto(r, [chatting[r] EXCEPT !.at = "FileRow"])
    /\ UNCHANGED <<rooms, messages, sent, lastTime, shown, unseen, chatDeaths>>

\* The row of the uploaded file is created, and the message's update called.
CreateFileRow(r) ==
    /\ chatting[r].at = "FileRow"
    /\ CallUpdate(r, chatting[r].room, chatting[r].by, TRUE)
    /\ UNCHANGED objects

-----------------------------------------------------------------------------
(* The transaction *)

InRoom(c, set) == {m \in set : m.room = c}

Newest(set) == {m \in set : \A n \in set : n.time <= m.time}

TakeSnapshot(r) ==
    LET m == chatting[r].message IN
    /\ chatting[r].at = "Snapshot"
    /\ ChatGoto(r, [at |-> "Write", message |-> m, existed |-> m.room \in rooms,
                    snapshot |-> InRoom(m.room, messages)])
    /\ UNCHANGED <<rooms, messages, sent, lastTime, shown, unseen, objects, chatDeaths>>

\* The upsert of a customer's text creates the room it did not find.
RoomRefused(r) == ~chatting[r].existed /\ chatting[r].message.room \in rooms

WriteMessage(r) ==
    LET m == chatting[r].message IN
    /\ chatting[r].at = "Write"
    /\ IF RoomRefused(r)
       THEN ChatGoto(r, Idle) /\ UNCHANGED <<rooms, messages>>
       ELSE /\ rooms' = rooms \cup {m.room}
            /\ messages' = messages \cup {m}
            /\ \E newest \in Newest(chatting[r].snapshot \cup {m}) :
                  ChatGoto(r, [at |-> "Push", message |-> m, newest |-> newest])
    /\ UNCHANGED <<sent, lastTime, shown, unseen, objects, chatDeaths>>

-----------------------------------------------------------------------------
(* Sockets *)

\* The users in whose channels a message of a request is put.
ChannelsOfSender(m) == IF m.by = "Admin" THEN admins ELSE {m.room}
Channels(m) == IF m.by = "Customer" THEN admins ELSE {m.room}

\* server.to(rooms).emit: to([]) restricts nothing, so that a customer's message
\* reaches every socket when there is no administrator.
Addressed(channels) == IF channels = {} THEN Users ELSE channels

\* online: the users whose socket handleConnection has joined to their channel
\* and who are still there.
Push(r) ==
    LET m == chatting[r].message
        newest == chatting[r].newest
        addressed == Addressed(Channels(m))
    IN
    /\ chatting[r].at = "Push"
    /\ \E online \in SUBSET addressed :
          /\ shown' = [u \in Users |-> IF u \in online THEN shown[u] \cup {newest} ELSE shown[u]]
          /\ unseen' = IF online = addressed THEN unseen ELSE unseen \cup {newest}
    /\ ChatGoto(r, Idle)
    /\ UNCHANGED <<rooms, messages, sent, lastTime, objects, chatDeaths>>

-----------------------------------------------------------------------------
ChatDies(r) ==
    /\ chatting[r] # Idle
    /\ chatDeaths < MaxChatDeaths          \* bound: requests that die
    /\ chatDeaths' = chatDeaths + 1
    /\ unseen' = IF chatting[r].at = "Push" THEN unseen \cup {chatting[r].message} ELSE unseen
    /\ ChatGoto(r, Idle)
    /\ UNCHANGED <<rooms, messages, sent, lastTime, shown, objects>>

ChatsNext ==
    /\ \/ \E r \in Chatters, c \in Customers :
             \/ CustomerSendTextMessage(r, c) \/ AdminSendTextMessage(r, c)
             \/ SendFileMessage(r, c, "Customer") \/ SendFileMessage(r, c, "Admin")
             \/ AdminCreateConversation(r, c)
       \/ \E r \in Chatters :
             \/ CreateRoom(r) \/ UploadChatFile(r) \/ CreateFileRow(r)
             \/ TakeSnapshot(r) \/ WriteMessage(r) \/ Push(r) \/ ChatDies(r)
    /\ UNCHANGED <<width, admins>>

ChatsSpec == ChatsInit /\ [][ChatsNext]_chatVars

-----------------------------------------------------------------------------
(* What must hold *)

\* Nothing of another customer's room ever reaches a customer's screen, if there
\* is an administrator.  Without one the list of channels of a customer's message
\* is empty, and the message is broadcast.
PrivateMessages == admins # {} => \A c \in Customers : \A m \in shown[c] : m.room = c

Readers(m) == IF m.by = "Customer" THEN admins ELSE {m.room}
Seen(m) == m \in unseen \/ \A u \in Readers(m) : m \in shown[u]

\* When no message of a room is under way, its newest message has reached the
\* side it is for, unless a socket was away or a request died; every message
\* has, and its sender been answered with it, when requests are served one
\* after the other.  (Interleaved requests push and answer the newest message
\* twice and an older one never.)
NewestReachesItsReader ==
    \A c \in Customers :
        LET talk == InRoom(c, messages)
            quiet == \A r \in Chatters :
                        chatting[r].at \in {"Write", "Push"} => chatting[r].message.room # c
        IN quiet /\ talk # {} =>
              /\ \E m \in Newest(talk) : Seen(m)
              /\ Alone => \A m \in talk : Seen(m)

\* Messages reach their readers and, where there is an administrator to read
\* them, nobody else.
MessagesReachTheirReaders == PrivateMessages /\ NewestReachesItsReader

\* An uploaded file belongs to a message, to one under way, or to a request
\* that died.
ChatFilesAccounted ==
    objects <= Cardinality({m \in messages : m.file}) + chatDeaths
               + Cardinality({r \in Chatters : \/ chatting[r].at = "FileRow"
                                               \/ /\ chatting[r].at \in {"Snapshot", "Write"}
                                                  /\ chatting[r].message.file})
=============================================================================
