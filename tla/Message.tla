------------------------------- MODULE Message -------------------------------
(***************************************************************************)
(* server/Message.cpp: channels and mailboxes.  A PUT copies the message   *)
(* into a mailbox of every member but the sender; a GET takes the oldest   *)
(* message out of one mailbox of the caller.  Nothing here is written to a *)
(* file.  The content of a message is abstracted to the number of the PUT  *)
(* that brought it, so two equal texts are still two messages.             *)
(***************************************************************************)
EXTENDS Session, Sequences

CONSTANTS
    GroupNames, \* group names a client can choose
    EmptyName,  \* the empty group name
    MaxPrivate, \* bound: how many private channels the processes may create
    NoMessage,  \* an empty msg_list, or no list at all
    MaxPuts     \* bound: how many messages may be put

\* A channel id is a group name or the uuid of a private channel, again the number
\* of its draw; tokens and channel ids never meet, so they are numbered apart.
Channels == GroupNames \cup 1 .. MaxPrivate

Message == [sender : Users, id : 1 .. MaxPuts]

ASSUME MessageAssumption ==
    /\ MaxPuts \in Nat /\ MaxPrivate \in Nat
    /\ NoMessage \notin Message
    /\ EmptyName \notin Channels
    /\ GroupNames \cap 1 .. MaxPrivate = {}   \* nobody names a group as a uuid to come

VARIABLES
    ChannelIds,         \* the keys of ChannelMemberMap
    ChannelMemberMap,   \* channel -> set of members, empty outside ChannelIds
    ChannelTypeMap,     \* channel -> "PRIVATE", "GROUP", or "none"
    UserMailBoxes,      \* user -> channel -> sequence of messages
    privates,           \* how many uuids were drawn for private channels
    puts,               \* how many messages were put since the process started
    log,                \* history: channel -> the PUTs to it, with the members then
    read,               \* history: user -> channel -> the message of his last GET, 0 for none
    response            \* the last response, and the request it answers

messageVars == <<ChannelIds, ChannelMemberMap, ChannelTypeMap, UserMailBoxes,
                 privates, puts, log, read>>
vars == <<sessionVars, messageVars, response>>

ChannelExists(c) == c \in ChannelIds

MessageTypeOK ==
    /\ SessionTypeOK
    /\ ChannelIds \subseteq Channels
    /\ ChannelMemberMap \in [Channels -> SUBSET Users]
    /\ ChannelTypeMap \in [Channels -> {"PRIVATE", "GROUP", "none"}]
    /\ UserMailBoxes \in [Users -> [Channels -> Seq(Message)]]
    /\ privates \in 0 .. MaxPrivate
    /\ puts \in 0 .. MaxPuts
    /\ log \in [Channels -> SUBSET [sender : Users, members : SUBSET Users, id : 1 .. MaxPuts]]
    /\ read \in [Users -> [Channels -> 0 .. MaxPuts]]

\* The session counts in the answer only where the request got through.
Respond(status, t, message) ==
    response' = [status |-> status, session |-> t, message |-> message]

AnswerOnly(status, t) ==
    Respond(status, t, NoMessage) /\ UNCHANGED <<sessionVars, messageVars>>

Refuse(status) == AnswerOnly(status, NoUuid)

AuthError(t) == ~IsSessionExist(t) /\ Refuse("AUTH_ERROR")

\* Any handler, when the flatbuffers verifier refuses the payload.
PayloadInvalid == Refuse("PAYLOAD_FORMAT_INVALID")

NoMembers == [c \in Channels |-> {}]
NoTypes == [c \in Channels |-> "none"]
NoMail == [u \in Users |-> [c \in Channels |-> <<>>]]
NoLog == [c \in Channels |-> {}]
NothingRead == [u \in Users |-> [c \in Channels |-> 0]]

InitMessageState ==
    /\ ChannelIds = {}
    /\ ChannelMemberMap = NoMembers
    /\ ChannelTypeMap = NoTypes
    /\ UserMailBoxes = NoMail
    /\ privates = 0
    /\ puts = 0
    /\ log = NoLog
    /\ read = NothingRead
    /\ response = [status |-> "OK", session |-> NoUuid, message |-> NoMessage]

InitMessage == InitSession /\ InitMessageState

-----------------------------------------------------------------------------
(* Channels.                                                               *)

\* Uuids are unguessable: a client can name a group, or a uuid drawn before.
Nameable == GroupNames \cup 1 .. privates

\* What both branches of handleCreateChannel do once they have an id.
Create(c, type, members, me) ==
    /\ ChannelTypeMap' = [ChannelTypeMap EXCEPT ![c] = type]
    /\ ChannelIds' = ChannelIds \cup {c}
    /\ ChannelMemberMap' = [ChannelMemberMap EXCEPT ![c] = @ \cup members \cup {me}]
    /\ UNCHANGED <<sessionVars, UserMailBoxes, puts, log, read>>

\* A private channel gets a new uuid for a name. Members are names of the
\* client's choice: nothing checks that they have an account.
handleCreatePrivate(t, members) ==
    \/ AuthError(t)
    \/ /\ IsSessionExist(t)
       /\ privates < MaxPrivate
       /\ privates' = privates + 1
       /\ Create(privates + 1, "PRIVATE", members, SessionUser(t))
       /\ Respond("OK", t, NoMessage)

\* Mutant NameUnchecked: a second group of the same name is accepted.
NameUnchecked(g) == FALSE

\* Group names are unique among all keys of ChannelMemberMap.
NameInUse(g) == ChannelExists(g)

\* The refusal comes as a GeneralResponse, not as a CreateChannelResponse.
handleCreateGroup(t, g, members) ==
    \/ AuthError(t)
    \/ /\ IsSessionExist(t)
       /\ g = EmptyName \/ NameInUse(g)
       /\ Refuse("INVALID_REQUEST_ARGUMENT")
    \/ /\ IsSessionExist(t)
       /\ g # EmptyName /\ ~NameInUse(g)
       /\ Create(g, "GROUP", members, SessionUser(t))
       /\ Respond("OK", t, NoMessage)
       /\ UNCHANGED privates

\* Looking up the type of one of the caller's channels that has none inserts the
\* default, PRIVATE. The list itself is not modelled.
\* Mutant TypesSeenAfresh: every type looked up is reset to the default.
TypesSeenAfresh(me) ==
    [c \in Channels |-> IF ChannelExists(c) /\ me \in ChannelMemberMap[c]
                        THEN "PRIVATE" ELSE ChannelTypeMap[c]]

TypesSeen(me) ==
    [c \in Channels |-> IF /\ ChannelExists(c) /\ me \in ChannelMemberMap[c]
                           /\ ChannelTypeMap[c] = "none"
                        THEN "PRIVATE" ELSE ChannelTypeMap[c]]

handleViewChannels(t) ==
    \/ AuthError(t)
    \/ /\ IsSessionExist(t)
       /\ ChannelTypeMap' = TypesSeen(SessionUser(t))
       /\ Respond("OK", t, NoMessage)
       /\ UNCHANGED <<sessionVars, ChannelIds, ChannelMemberMap, UserMailBoxes, privates, puts, log, read>>

\* Any channel id that exists will do, a private one too.
handleJoinGroup(t, c) ==
    \/ AuthError(t)
    \/ /\ IsSessionExist(t)
       /\ ~ChannelExists(c)
       /\ Refuse("INVALID_REQUEST_ARGUMENT")
    \/ /\ IsSessionExist(t)
       /\ ChannelExists(c)
       /\ ChannelMemberMap' = [ChannelMemberMap EXCEPT ![c] = @ \cup {SessionUser(t)}]
       /\ Respond("OK", t, NoMessage)
       /\ UNCHANGED <<sessionVars, ChannelIds, ChannelTypeMap, UserMailBoxes, privates, puts, log, read>>

\* The channel stays when its last member leaves, and so do the mailboxes.
handleLeaveGroup(t, c) ==
    \/ AuthError(t)
    \/ /\ IsSessionExist(t)
       /\ ~ChannelExists(c)
       /\ Refuse("INVALID_REQUEST_ARGUMENT")
    \/ /\ IsSessionExist(t)
       /\ ChannelExists(c)
       /\ ChannelMemberMap' = [ChannelMemberMap EXCEPT ![c] = @ \ {SessionUser(t)}]
       /\ Respond("OK", t, NoMessage)
       /\ UNCHANGED <<sessionVars, ChannelIds, ChannelTypeMap, UserMailBoxes, privates, puts, log, read>>

-----------------------------------------------------------------------------
(* Messages.                                                               *)

\* What the answer to a GET carries. Mutant NewestOf: the last of the queue.
NewestOf(queue) == queue[Len(queue)]

OldestOf(queue) == Head(queue)

\* The mailbox loses the message whether or not the answer arrives, and no one
\* asks whether the caller is still, or ever was, a member.
handleGetMessage(t, c) ==
    \/ AuthError(t)
    \/ /\ IsSessionExist(t)
       /\ LET me == SessionUser(t)
              queue == UserMailBoxes[me][c]
          IN \/ /\ queue = <<>>
                /\ AnswerOnly("OK", t)
             \/ /\ queue # <<>>
                /\ UserMailBoxes' = [UserMailBoxes EXCEPT ![me][c] = Tail(@)]
                /\ read' = [read EXCEPT ![me][c] = OldestOf(queue).id]
                /\ Respond("OK", t, OldestOf(queue))
                /\ UNCHANGED <<sessionVars, ChannelIds, ChannelMemberMap, ChannelTypeMap, privates, puts, log>>

Entity(me, c) == [sender |-> me, id |-> puts + 1]

\* Mutant RecipientsAll: the sender is not skipped.
RecipientsAll(me, c) == ChannelMemberMap[c]

Recipients(me, c) == ChannelMemberMap[c] \ {me}

\* No one asks whether the sender is a member, nor whether the channel exists:
\* operator[] on a channel nobody created leaves an empty one behind.
handlePutMessage(t, c) ==
    \/ AuthError(t)
    \/ /\ IsSessionExist(t)
       /\ puts < MaxPuts
       /\ LET me == SessionUser(t) IN
          /\ UserMailBoxes' = [u \in Users |->
                IF u \in Recipients(me, c)
                THEN [UserMailBoxes[u] EXCEPT ![c] = Append(@, Entity(me, c))]
                ELSE UserMailBoxes[u]]
          /\ ChannelIds' = ChannelIds \cup {c}
          /\ puts' = puts + 1
          /\ log' = [log EXCEPT ![c] =
                @ \cup {[sender |-> me, members |-> ChannelMemberMap[c], id |-> puts + 1]}]
       /\ Respond("OK", t, NoMessage)
       /\ UNCHANGED <<sessionVars, ChannelMemberMap, ChannelTypeMap, privates, read>>

-----------------------------------------------------------------------------
(* The other ways the state changes: clients come and go, processes too.   *)

LoginOrRegister(u, a) ==
    /\ NewSession(u, a)
    /\ Respond("OK", Draw(1), NoMessage)
    /\ UNCHANGED messageVars

Logout(t) ==
    /\ RemoveSession(t)
    /\ Respond("OK", t, NoMessage)
    /\ UNCHANGED messageVars

\* Nothing of Message.cpp survives the process.
Restart ==
    /\ ForgetSessions
    /\ ChannelIds' = {}
    /\ ChannelMemberMap' = NoMembers
    /\ ChannelTypeMap' = NoTypes
    /\ UserMailBoxes' = NoMail
    /\ puts' = 0
    /\ log' = NoLog
    /\ read' = NothingRead
    /\ UNCHANGED privates
    /\ Respond("RESTART", NoUuid, NoMessage)

\* A dead token is refused before the rest of the payload is looked at, so one
\* payload of each kind stands for all of them.
Inputs(t, S) == IF IsSessionExist(t) \/ S = {} THEN S ELSE {CHOOSE x \in S : TRUE}

Request(t) ==
    \/ \E members \in Inputs(t, SUBSET Users) :
          \/ handleCreatePrivate(t, members)
          \/ \E g \in Inputs(t, GroupNames \cup {EmptyName}) : handleCreateGroup(t, g, members)
    \/ handleViewChannels(t)
    \/ \E c \in Inputs(t, Nameable) :
          \/ handleJoinGroup(t, c)
          \/ handleLeaveGroup(t, c)
          \/ handleGetMessage(t, c)
          \/ handlePutMessage(t, c)

MessageNext ==
    \/ \E u \in Users, a \in Addrs : LoginOrRegister(u, a)
    \/ \E t \in Uuids : Logout(t)
    \/ \E t \in Uuids : Request(t)
    \/ PayloadInvalid
    \/ Restart

MessageSpec == InitMessage /\ [][MessageNext]_vars

-----------------------------------------------------------------------------
(* Properties.                                                             *)

\* The service seen as one log per channel and one cursor per reader.
Service == INSTANCE ChannelLog WITH
    Ids <- 1 .. MaxPuts,
    handed <- IF response.message = NoMessage
              THEN [to |-> NoMessage, message |-> NoMessage]
              ELSE [to |-> SessionUser(response.session), message |-> response.message]

\* The mailboxes implement the log: every GET hands out the next message that
\* was put for the caller while he was a member, in the order of the PUTs, none
\* skipped and none twice, however members join, leave, log out and come back
\* (handlePutMessage, handleGetMessage).
ImplementsChannelLog == Service!LogSpec

\* A mailbox is what its owner has still to read of the log, oldest first
\* (UserMailBoxes against ChannelMemberMap at the time of each PUT).
MailboxIsUnread ==
    \A u \in Users, c \in Channels :
        LET box == UserMailBoxes[u][c] IN
        /\ {box[i] : i \in DOMAIN box} =
              {[sender |-> e.sender, id |-> e.id] : e \in Service!Unread(u, c)}
        /\ \A i, j \in DOMAIN box : i < j => box[i].id < box[j].id

\* Once a channel exists, nobody but u himself puts u into it or takes him out,
\* and the one who creates it chooses its members once: neither a second
\* creation nor a ghost of a PUT reaches an existing channel (Message.cpp:96-110).
MembershipIsOwn ==
    [][response'.status # "RESTART" =>
         \A c \in Channels, u \in Users :
            (ChannelExists(c) /\ (u \in ChannelMemberMap[c]) # (u \in ChannelMemberMap'[c])) =>
               SessionValueMap'[response'.session].username = u]_vars

\* A channel is private or a group for good.
TypeIsForGood ==
    [][response'.status # "RESTART" =>
         \A c \in Channels : ChannelTypeMap[c] # "none" =>
            ChannelTypeMap'[c] = ChannelTypeMap[c]]_vars
=============================================================================
