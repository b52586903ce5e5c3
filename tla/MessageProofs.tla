---------------------------- MODULE MessageProofs ----------------------------
(***************************************************************************)
(* Proofs about Message, for any users, groups, private channels, numbers  *)
(* of messages and sessions: the mailboxes implement the log of            *)
(* ChannelLog, and nobody but a user himself moves him into or out of an   *)
(* existing channel.                                                       *)
(***************************************************************************)
EXTENDS Message, SessionProofs

\* The log and the cursors are no further than the PUTs, so a new message is after all.
LogIsPast ==
    /\ \A c \in Channels : \A e \in log[c] : e.id <= puts
    /\ \A u \in Users, c \in Channels : read[u][c] <= puts

\* A uuid that was not drawn names no channel yet, and only channels have a type.
ChannelsAreNamed ==
    /\ \A i \in 1 .. MaxPrivate : privates < i => i \notin ChannelIds
    /\ \A c \in Channels : ChannelTypeMap[c] # "none" => c \in ChannelIds

MessageIInv ==
    /\ SessionIInv
    /\ MessageTypeOK
    /\ LogIsPast
    /\ ChannelsAreNamed
    /\ MailboxIsUnread

\* The two halves of MailboxIsUnread: what a mailbox holds, and its order.
Shortened(e) == [sender |-> e.sender, id |-> e.id]
Holds(box, unread) ==
    /\ \A i \in DOMAIN box : \E e \in unread : box[i] = Shortened(e)
    /\ \A e \in unread : \E i \in DOMAIN box : box[i] = Shortened(e)
Increasing(box) == \A i, j \in DOMAIN box : i < j => box[i].id < box[j].id

LEMMA MailboxHalves ==
    /\ MailboxIsUnread <=>
          \A u \in Users, c \in Channels :
              /\ Holds(UserMailBoxes[u][c], Service!Unread(u, c))
              /\ Increasing(UserMailBoxes[u][c])
    /\ MailboxIsUnread' <=>
          \A u \in Users, c \in Channels :
              /\ Holds(UserMailBoxes'[u][c], Service!Unread(u, c)')
              /\ Increasing(UserMailBoxes'[u][c])
<1>1. ASSUME NEW box, NEW unread
      PROVE  {box[i] : i \in DOMAIN box} = {Shortened(e) : e \in unread} <=> Holds(box, unread)
  BY DEF Holds
<1> QED BY <1>1 DEF MailboxIsUnread, Increasing, Shortened

LEMMA MessageInitIInv == InitMessage => MessageIInv
<1> SUFFICES ASSUME InitMessage PROVE MessageIInv
  OBVIOUS
<1>1. SessionIInv /\ SessionTypeOK
  BY SessionInit DEF InitMessage, SessionIInv
<1>2. MessageTypeOK /\ LogIsPast /\ ChannelsAreNamed
  BY <1>1, MessageAssumption DEF InitMessage, InitMessageState, NoMembers, NoTypes, NoMail, NoLog,
     NothingRead, MessageTypeOK, LogIsPast, ChannelsAreNamed
<1>3. MailboxIsUnread
  BY DEF InitMessage, InitMessageState, NoMail, NoLog, MailboxIsUnread, Service!Unread
<1> QED BY <1>1, <1>2, <1>3 DEF MessageIInv

\* One payload of each kind is still a payload of that kind.
LEMMA InputsAmong == ASSUME NEW t, NEW S PROVE Inputs(t, S) \subseteq S
BY DEF Inputs

\* A request names a group or a uuid that was drawn.
LEMMA NameableFacts ==
    ASSUME privates \in 0 .. MaxPrivate, NEW c \in Nameable
    PROVE  c \in Channels /\ \A i \in 1 .. MaxPrivate : c = i => i <= privates
<1>1. CASE c \in GroupNames
  <2>1. \A i \in 1 .. MaxPrivate : c # i
    BY <1>1, MessageAssumption
  <2> QED BY <1>1, <2>1 DEF Channels
<1>2. CASE c \in 1 .. privates
  <2>1. c \in 1 .. MaxPrivate /\ c <= privates
    BY <1>2, MessageAssumption
  <2> QED BY <2>1 DEF Channels
<1> QED BY <1>1, <1>2 DEF Nameable

LEMMA UserOfSession ==
    ASSUME SessionIInv, NEW t \in Uuids, IsSessionExist(t)
    PROVE  SessionUser(t) \in Users
BY DEF SessionIInv, SessionTypeOK, IsSessionExist, SessionUser, SessionValue

\* Message touches the three maps of the sessions only through their operations.
LEMMA MessageStepIsSessionStep == [MessageNext]_vars => [SessionNext]_sessionVars
<1> SUFFICES ASSUME [MessageNext]_vars PROVE [SessionNext]_sessionVars
  OBVIOUS
<1>1. ASSUME NEW u \in Users, NEW a \in Addrs, LoginOrRegister(u, a)
      PROVE  [SessionNext]_sessionVars
  BY <1>1 DEF LoginOrRegister, SessionNext
<1>2. ASSUME NEW t \in Uuids, Logout(t) PROVE [SessionNext]_sessionVars
  BY <1>2 DEF Logout, SessionNext
<1>3. ASSUME NEW t \in Uuids, Request(t) PROVE UNCHANGED sessionVars
  BY <1>3 DEF Request, handleCreatePrivate, handleCreateGroup, handleViewChannels,
     handleJoinGroup, handleLeaveGroup, handleGetMessage, handlePutMessage, Create,
     AuthError, Refuse, AnswerOnly
<1>4. CASE PayloadInvalid
  BY <1>4 DEF PayloadInvalid, Refuse, AnswerOnly
<1>5. CASE Restart
  BY <1>5 DEF Restart, SessionNext
<1>6. CASE UNCHANGED vars
  BY <1>6 DEF vars
<1> QED BY <1>1, <1>2, <1>3, <1>4, <1>5, <1>6 DEF MessageNext
-----------------------------------------------------------------------------
(* One lemma per kind of change.                                           *)

\* A step that leaves the log, the cursors and the mailboxes alone.
LEMMA ChannelsChangeKeeps ==
    ASSUME MessageIInv, SessionIInv', UNCHANGED <<UserMailBoxes, puts, log, read>>,
           ChannelIds' \subseteq Channels,
           ChannelMemberMap' \in [Channels -> SUBSET Users],
           ChannelTypeMap' \in [Channels -> {"PRIVATE", "GROUP", "none"}],
           privates' \in 0 .. MaxPrivate,
           ChannelsAreNamed'
    PROVE  MessageIInv'
<1>1. MessageTypeOK'
  BY DEF MessageIInv, MessageTypeOK, SessionIInv
<1>2. LogIsPast'
  BY DEF MessageIInv, LogIsPast
<1>3. MailboxIsUnread'
  BY DEF MessageIInv, MailboxIsUnread, Service!Unread
<1> QED BY <1>1, <1>2, <1>3 DEF MessageIInv

\* The head of a mailbox is the next message of the log for its owner.
LEMMA HeadIsNext ==
    ASSUME MessageIInv, NEW u \in Users, NEW c \in Channels, UserMailBoxes[u][c] # <<>>
    PROVE  \E e \in Service!Unread(u, c) :
              /\ Shortened(e) = Head(UserMailBoxes[u][c])
              /\ \A d \in Service!Unread(u, c) : e.id <= d.id
<1> DEFINE box == UserMailBoxes[u][c]
<1>1. /\ box \in Seq(Message) /\ 1 \in DOMAIN box /\ Head(box) = box[1]
      /\ DOMAIN box = 1 .. Len(box) /\ \A i \in DOMAIN box : box[i] \in Message
  BY DEF MessageIInv, MessageTypeOK
<1>2. Holds(box, Service!Unread(u, c)) /\ Increasing(box)
  BY MailboxHalves DEF MessageIInv
<1>3. PICK e \in Service!Unread(u, c) : Shortened(e) = box[1]
  BY <1>1, <1>2 DEF Holds
<1>4. ASSUME NEW d \in Service!Unread(u, c) PROVE e.id <= d.id
  <2>1. PICK i \in DOMAIN box : box[i] = Shortened(d)
    BY <1>2 DEF Holds
  <2>2. box[1].id <= box[i].id
    <3> HIDE DEF box
    <3>1. i \in Nat /\ 1 <= i /\ box[1].id \in Nat
      BY <1>1, <2>1 DEF Message
    <3>2. CASE i = 1
      BY <3>1, <3>2
    <3>3. CASE 1 < i
      <4>1. box[1].id < box[i].id /\ box[i].id \in Nat
        BY <1>1, <1>2, <2>1, <3>3 DEF Increasing, Message
      <4> QED BY <3>1, <4>1
    <3> QED BY <3>1, <3>2, <3>3
  <2> QED BY <1>3, <2>1, <2>2 DEF Shortened
<1> QED BY <1>1, <1>3, <1>4

\* A GET that finds a message.
LEMMA GetKeeps ==
    ASSUME MessageIInv, SessionIInv', NEW me \in Users, NEW c \in Channels,
           UserMailBoxes[me][c] # <<>>,
           UserMailBoxes' = [UserMailBoxes EXCEPT ![me][c] = Tail(@)],
           read' = [read EXCEPT ![me][c] = Head(UserMailBoxes[me][c]).id],
           UNCHANGED <<ChannelIds, ChannelMemberMap, ChannelTypeMap, privates, puts, log>>
    PROVE  MessageIInv'
<1> DEFINE box == UserMailBoxes[me][c]
<1>1. MessageTypeOK /\ LogIsPast /\ ChannelsAreNamed /\ MailboxIsUnread
  BY DEF MessageIInv
<1>2. /\ box \in Seq(Message) /\ box # <<>>
      /\ Head(box) = box[1] /\ 1 \in DOMAIN box /\ box[1] \in Message
  BY <1>1 DEF MessageTypeOK
<1>3. PICK e \in Service!Unread(me, c) : Shortened(e) = box[1]
  BY <1>2, HeadIsNext
<1>4. /\ e \in log[c] /\ e.id = box[1].id
      /\ e.id \in 1 .. MaxPuts /\ e.id <= puts /\ read[me][c] < e.id
  BY <1>1, <1>2, <1>3 DEF Shortened, Service!Unread, LogIsPast, Message
<1>5. /\ UserMailBoxes'[me][c] = Tail(box) /\ read'[me][c] = e.id
      /\ \A u \in Users, d \in Channels : u # me \/ d # c =>
            UserMailBoxes'[u][d] = UserMailBoxes[u][d] /\ read'[u][d] = read[u][d]
  BY <1>1, <1>2, <1>4 DEF MessageTypeOK
<1>6. MessageTypeOK'
  <2>1. UserMailBoxes' \in [Users -> [Channels -> Seq(Message)]]
    BY <1>1, <1>2 DEF MessageTypeOK
  <2>2. read' \in [Users -> [Channels -> 0 .. MaxPuts]]
    BY <1>1, <1>2, <1>4 DEF MessageTypeOK
  <2> QED BY <1>1, <2>1, <2>2 DEF MessageTypeOK, SessionIInv
<1>7. LogIsPast'
  BY <1>1, <1>4, <1>5 DEF LogIsPast
<1>8. ChannelsAreNamed'
  BY <1>1 DEF ChannelsAreNamed
<1>9. Holds(Tail(box), Service!Unread(me, c)') /\ Increasing(Tail(box))
  <2>1. Holds(box, Service!Unread(me, c)) /\ Increasing(box)
    BY <1>1, MailboxHalves
  <2>2. /\ Len(Tail(box)) = Len(box) - 1 /\ Len(box) \in Nat
        /\ DOMAIN box = 1 .. Len(box) /\ DOMAIN Tail(box) = 1 .. Len(box) - 1
        /\ \A i \in DOMAIN Tail(box) : Tail(box)[i] = box[i + 1]
        /\ \A i \in DOMAIN box : box[i] \in Message
    BY <1>2
  <2>3. Increasing(Tail(box))
    <3> SUFFICES ASSUME NEW i \in DOMAIN Tail(box), NEW j \in DOMAIN Tail(box), i < j
                 PROVE  Tail(box)[i].id < Tail(box)[j].id
      BY DEF Increasing
    <3>1. i + 1 \in DOMAIN box /\ j + 1 \in DOMAIN box /\ i + 1 < j + 1
      BY <2>2
    <3> QED BY <2>1, <2>2, <3>1 DEF Increasing
  <2>4. \A d : d \in Service!Unread(me, c)' <=> d \in Service!Unread(me, c) /\ e.id < d.id
    BY <1>1, <1>4, <1>5 DEF Service!Unread, MessageTypeOK
  <2>5. Holds(Tail(box), Service!Unread(me, c)')
    <3>1. ASSUME NEW i \in DOMAIN Tail(box)
          PROVE  \E d \in Service!Unread(me, c)' : Shortened(d) = Tail(box)[i]
      <4>1. i + 1 \in DOMAIN box /\ Tail(box)[i] = box[i + 1] /\ 1 < i + 1
        BY <2>2
      <4>2. PICK d \in Service!Unread(me, c) : Shortened(d) = box[i + 1]
        BY <2>1, <4>1 DEF Holds
      <4>3. e.id < d.id
        BY <1>2, <1>4, <2>1, <4>1, <4>2 DEF Increasing, Shortened
      <4> QED BY <2>4, <4>1, <4>2, <4>3
    <3>2. ASSUME NEW d \in Service!Unread(me, c)'
          PROVE  \E i \in DOMAIN Tail(box) : Shortened(d) = Tail(box)[i]
      <4>1. PICK k \in DOMAIN box : Shortened(d) = box[k]
        BY <2>1, <2>4 DEF Holds
      <4>2. k # 1
        BY <1>3, <1>4, <2>4, <4>1 DEF Shortened, MessageTypeOK
      <4>3. k - 1 \in DOMAIN Tail(box) /\ Tail(box)[k - 1] = box[k]
        BY <2>2, <4>1, <4>2
      <4> QED BY <4>1, <4>3
    <3> QED BY <3>1, <3>2 DEF Holds
  <2> QED BY <2>3, <2>5
<1>10. ASSUME NEW u \in Users, NEW d \in Channels, u # me \/ d # c
       PROVE  Holds(UserMailBoxes'[u][d], Service!Unread(u, d)') /\ Increasing(UserMailBoxes'[u][d])
  <2>1. Service!Unread(u, d)' = Service!Unread(u, d)
    BY <1>5, <1>10 DEF Service!Unread
  <2> QED BY <1>1, <1>5, <1>10, <2>1, MailboxHalves
<1>11. MailboxIsUnread'
  BY <1>5, <1>9, <1>10, MailboxHalves
<1> QED BY <1>6, <1>7, <1>8, <1>11 DEF MessageIInv

\* A PUT: a message numbered after all others, for the members but the sender.
LEMMA PutKeeps ==
    ASSUME MessageIInv, SessionIInv', NEW me \in Users, NEW c \in Channels,
           puts < MaxPuts, puts' = puts + 1,
           ChannelIds' = ChannelIds \cup {c},
           \A i \in 1 .. MaxPrivate : c = i => i <= privates,
           UserMailBoxes' = [u \in Users |->
              IF u \in Recipients(me, c)
              THEN [UserMailBoxes[u] EXCEPT ![c] = Append(@, Entity(me, c))]
              ELSE UserMailBoxes[u]],
           log' = [log EXCEPT ![c] =
              @ \cup {[sender |-> me, members |-> ChannelMemberMap[c], id |-> puts + 1]}],
           UNCHANGED <<ChannelMemberMap, ChannelTypeMap, privates, read>>
    PROVE  MessageIInv'
<1> DEFINE new == [sender |-> me, members |-> ChannelMemberMap[c], id |-> puts + 1]
<1>1. MessageTypeOK /\ LogIsPast /\ ChannelsAreNamed /\ MailboxIsUnread
  BY DEF MessageIInv
<1>2. /\ puts \in Nat /\ puts + 1 \in 1 .. MaxPuts
      /\ ChannelMemberMap[c] \subseteq Users
      /\ Entity(me, c) = Shortened(new) /\ Entity(me, c) \in Message
      /\ new.id = puts + 1 /\ new.sender = me /\ new.members = ChannelMemberMap[c]
  BY <1>1, MessageAssumption DEF MessageTypeOK, Entity, Message, Shortened
<1>3. /\ log'[c] = log[c] \cup {new}
      /\ \A d \in Channels \ {c} : log'[d] = log[d]
  BY <1>1 DEF MessageTypeOK
<1>4. /\ \A u \in Recipients(me, c) : UserMailBoxes'[u][c] = Append(UserMailBoxes[u][c], Entity(me, c))
      /\ \A u \in Users, d \in Channels : u \notin Recipients(me, c) \/ d # c =>
            UserMailBoxes'[u][d] = UserMailBoxes[u][d]
  BY <1>1, <1>2 DEF MessageTypeOK, Recipients
<1>5. MessageTypeOK'
  <2>1. UserMailBoxes' \in [Users -> [Channels -> Seq(Message)]]
    BY <1>1, <1>2 DEF MessageTypeOK
  <2>2. log' \in [Channels -> SUBSET [sender : Users, members : SUBSET Users, id : 1 .. MaxPuts]]
    BY <1>1, <1>2 DEF MessageTypeOK
  <2>3. puts' \in 0 .. MaxPuts
    BY <1>2
  <2> QED BY <1>1, <2>1, <2>2, <2>3 DEF MessageTypeOK, SessionIInv
<1>6. \A d \in Channels, u \in Users :
         /\ read[u][d] \in Nat /\ read[u][d] <= puts
         /\ \A e \in log[d] : e.id \in Nat /\ e.id <= puts
  <2>1. \A d \in Channels, u \in Users : read[u][d] \in Nat /\ read[u][d] <= puts
    BY <1>1 DEF MessageTypeOK, LogIsPast
  <2>2. \A d \in Channels : \A e \in log[d] : e.id \in Nat /\ e.id <= puts
    BY <1>1 DEF MessageTypeOK, LogIsPast
  <2> QED BY <2>1, <2>2
<1> HIDE DEF new
<1>7. LogIsPast'
  BY <1>2, <1>3, <1>6 DEF LogIsPast
<1>8. ChannelsAreNamed'
  BY <1>1 DEF ChannelsAreNamed, MessageTypeOK
<1>9. ASSUME NEW u \in Users, NEW d \in Channels, u \notin Recipients(me, c) \/ d # c
      PROVE  Holds(UserMailBoxes'[u][d], Service!Unread(u, d)') /\ Increasing(UserMailBoxes'[u][d])
  <2>1. Service!Unread(u, d)' = Service!Unread(u, d)
    BY <1>2, <1>3, <1>9 DEF Service!Unread, Recipients
  <2> QED BY <1>1, <1>4, <1>9, <2>1, MailboxHalves
<1>10. ASSUME NEW u \in Recipients(me, c)
       PROVE  Holds(UserMailBoxes'[u][c], Service!Unread(u, c)') /\ Increasing(UserMailBoxes'[u][c])
  <2> DEFINE box == UserMailBoxes[u][c]
             longer == Append(box, Entity(me, c))
  <2>1. u \in Users /\ u # me /\ u \in ChannelMemberMap[c]
    BY <1>2 DEF Recipients
  <2>2. /\ box \in Seq(Message) /\ Len(box) \in Nat
        /\ DOMAIN box = 1 .. Len(box) /\ DOMAIN longer = 1 .. Len(box) + 1
        /\ \A i \in DOMAIN box : longer[i] = box[i]
        /\ longer[Len(box) + 1] = Entity(me, c)
    BY <1>1, <1>2, <2>1 DEF MessageTypeOK
  <2>3. Holds(box, Service!Unread(u, c)) /\ Increasing(box)
    BY <1>1, <2>1, MailboxHalves
  <2>4. Service!Unread(u, c)' = Service!Unread(u, c) \cup {new}
    BY <1>2, <1>3, <1>6, <2>1 DEF Service!Unread
  <2>5. \A i \in DOMAIN box : box[i].id \in Nat /\ box[i].id < Entity(me, c).id
    <3> SUFFICES ASSUME NEW i \in DOMAIN box
                 PROVE  box[i].id \in Nat /\ box[i].id < Entity(me, c).id
      OBVIOUS
    <3>1. PICK e \in Service!Unread(u, c) : box[i] = Shortened(e)
      BY <2>3 DEF Holds
    <3>2. e \in log[c] /\ box[i].id = e.id /\ Entity(me, c).id = puts + 1
      BY <3>1 DEF Shortened, Entity, Service!Unread
    <3> QED BY <1>2, <1>6, <2>1, <3>2
  <2> HIDE DEF box, longer
  <2>6. Holds(longer, Service!Unread(u, c)')
    <3>1. \A i \in DOMAIN longer : \E e \in Service!Unread(u, c)' : longer[i] = Shortened(e)
      BY <1>2, <2>2, <2>3, <2>4 DEF Holds
    <3>2. \A e \in Service!Unread(u, c)' : \E i \in DOMAIN longer : longer[i] = Shortened(e)
      BY <1>2, <2>2, <2>3, <2>4 DEF Holds
    <3> QED BY <3>1, <3>2 DEF Holds
  <2>7. Increasing(longer)
    BY <2>2, <2>3, <2>5 DEF Increasing
  <2> QED BY <1>4, <2>6, <2>7 DEF box, longer
<1>11. MailboxIsUnread'
  BY <1>9, <1>10, MailboxHalves
<1> QED BY <1>5, <1>7, <1>8, <1>11 DEF MessageIInv

\* A new process knows nothing, but no uuid comes back.
LEMMA RestartKeeps == ASSUME MessageIInv, SessionIInv', Restart PROVE MessageIInv'
<1>1. MessageTypeOK' /\ LogIsPast' /\ ChannelsAreNamed'
  BY MessageAssumption DEF MessageIInv, SessionIInv, Restart, NoMembers, NoTypes, NoMail, NoLog,
     NothingRead, MessageTypeOK, LogIsPast, ChannelsAreNamed
<1>2. MailboxIsUnread'
  BY DEF Restart, NoMail, NoLog, MailboxIsUnread, Service!Unread
<1> QED BY <1>1, <1>2 DEF MessageIInv

-----------------------------------------------------------------------------
(* The step, one case per handler.                                         *)

\* Both branches of handleCreateChannel.
LEMMA CreateKeeps ==
    ASSUME MessageIInv, SessionIInv', NEW c \in Channels, NEW type \in {"PRIVATE", "GROUP"},
           NEW members \in SUBSET Users, NEW me \in Users, Create(c, type, members, me),
           privates' \in privates .. MaxPrivate,
           \A i \in 1 .. MaxPrivate : c = i => i <= privates'
    PROVE  MessageIInv'
<1>1. MessageTypeOK /\ ChannelsAreNamed
  BY DEF MessageIInv
<1>2. /\ UNCHANGED <<UserMailBoxes, puts, log, read>>
      /\ ChannelIds' \subseteq Channels
      /\ ChannelMemberMap' \in [Channels -> SUBSET Users]
      /\ ChannelTypeMap' \in [Channels -> {"PRIVATE", "GROUP", "none"}]
      /\ privates' \in 0 .. MaxPrivate
  BY <1>1 DEF Create, MessageTypeOK
<1>3. ChannelsAreNamed'
  BY <1>1 DEF Create, ChannelsAreNamed, MessageTypeOK
<1> QED BY <1>2, <1>3, ChannelsChangeKeeps

LEMMA RequestKeeps ==
    ASSUME MessageIInv, SessionIInv', NEW t \in Uuids, Request(t) PROVE MessageIInv'
<1>1. MessageTypeOK /\ ChannelsAreNamed /\ SessionIInv
  BY DEF MessageIInv
<1>2. ASSUME UNCHANGED messageVars PROVE MessageIInv'
  BY <1>1, <1>2, ChannelsChangeKeeps DEF messageVars, MessageTypeOK, ChannelsAreNamed
<1>3. ASSUME AuthError(t) \/ \E s : Refuse(s) \/ AnswerOnly(s, t) PROVE MessageIInv'
  BY <1>2, <1>3 DEF AuthError, Refuse, AnswerOnly
<1>4. ASSUME NEW members \in SUBSET Users, handleCreatePrivate(t, members) PROVE MessageIInv'
  <2>1. CASE AuthError(t)
    BY <1>3, <2>1
  <2>2. CASE ~AuthError(t)
    <3>1. /\ IsSessionExist(t) /\ privates < MaxPrivate /\ privates' = privates + 1
          /\ Create(privates + 1, "PRIVATE", members, SessionUser(t))
      BY <1>4, <2>2 DEF handleCreatePrivate
    <3>2. SessionUser(t) \in Users
      BY <1>1, <3>1, UserOfSession
    <3>3. privates + 1 \in Channels /\ privates' \in privates .. MaxPrivate
      BY <1>1, <3>1, MessageAssumption DEF MessageTypeOK, Channels
    <3> QED BY <3>1, <3>2, <3>3, CreateKeeps
  <2> QED BY <2>1, <2>2
<1>5. ASSUME NEW g \in GroupNames \cup {EmptyName}, NEW members \in SUBSET Users,
             handleCreateGroup(t, g, members)
      PROVE  MessageIInv'
  <2>1. CASE AuthError(t) \/ Refuse("INVALID_REQUEST_ARGUMENT")
    BY <1>3, <2>1
  <2>2. CASE ~(AuthError(t) \/ Refuse("INVALID_REQUEST_ARGUMENT"))
    <3>1. /\ IsSessionExist(t) /\ g # EmptyName /\ UNCHANGED privates
          /\ Create(g, "GROUP", members, SessionUser(t))
      BY <1>5, <2>2 DEF handleCreateGroup
    <3>2. SessionUser(t) \in Users
      BY <1>1, <3>1, UserOfSession
    <3>3. g \in Channels /\ \A i \in 1 .. MaxPrivate : g # i
      BY <1>5, <3>1, MessageAssumption DEF Channels
    <3>4. privates' \in privates .. MaxPrivate
      BY <1>1, <3>1, MessageAssumption DEF MessageTypeOK
    <3> QED BY <3>1, <3>2, <3>3, <3>4, CreateKeeps
  <2> QED BY <2>1, <2>2
<1>6. ASSUME handleViewChannels(t) PROVE MessageIInv'
  <2>1. CASE AuthError(t)
    BY <1>3, <2>1
  <2>2. CASE ~AuthError(t)
    <3>1. /\ ChannelTypeMap' = TypesSeen(SessionUser(t))
          /\ UNCHANGED <<ChannelIds, ChannelMemberMap, UserMailBoxes, privates, puts, log, read>>
      BY <1>6, <2>2 DEF handleViewChannels
    <3>2. ChannelTypeMap' \in [Channels -> {"PRIVATE", "GROUP", "none"}] /\ ChannelsAreNamed'
      BY <1>1, <3>1 DEF MessageTypeOK, ChannelsAreNamed, TypesSeen, ChannelExists
    <3> QED BY <1>1, <3>1, <3>2, ChannelsChangeKeeps DEF MessageTypeOK
  <2> QED BY <2>1, <2>2
<1>7. ASSUME NEW c \in Channels, handleJoinGroup(t, c) \/ handleLeaveGroup(t, c)
      PROVE  MessageIInv'
  <2>1. CASE AuthError(t) \/ Refuse("INVALID_REQUEST_ARGUMENT")
    BY <1>3, <2>1
  <2>2. CASE ~(AuthError(t) \/ Refuse("INVALID_REQUEST_ARGUMENT"))
    <3>1. /\ IsSessionExist(t)
          /\ \/ ChannelMemberMap' = [ChannelMemberMap EXCEPT ![c] = @ \cup {SessionUser(t)}]
             \/ ChannelMemberMap' = [ChannelMemberMap EXCEPT ![c] = @ \ {SessionUser(t)}]
          /\ UNCHANGED <<ChannelIds, ChannelTypeMap, UserMailBoxes, privates, puts, log, read>>
      BY <1>7, <2>2 DEF handleJoinGroup, handleLeaveGroup
    <3>2. SessionUser(t) \in Users
      BY <1>1, <3>1, UserOfSession
    <3>3. ChannelMemberMap' \in [Channels -> SUBSET Users]
      <4>1. ChannelMemberMap \in [Channels -> SUBSET Users]
        BY <1>1 DEF MessageTypeOK
      <4> QED BY <3>1, <3>2, <4>1
    <3>4. ChannelsAreNamed'
      BY <1>1, <3>1 DEF ChannelsAreNamed
    <3> QED BY <1>1, <3>1, <3>3, <3>4, ChannelsChangeKeeps DEF MessageTypeOK
  <2> QED BY <2>1, <2>2
<1>8. ASSUME NEW c \in Channels, handleGetMessage(t, c) PROVE MessageIInv'
  <2>1. CASE AuthError(t) \/ AnswerOnly("OK", t)
    BY <1>3, <2>1
  <2>2. CASE ~(AuthError(t) \/ AnswerOnly("OK", t))
    <3> DEFINE me == SessionUser(t)
    <3>1. /\ IsSessionExist(t) /\ UserMailBoxes[me][c] # <<>>
          /\ UserMailBoxes' = [UserMailBoxes EXCEPT ![me][c] = Tail(@)]
          /\ read' = [read EXCEPT ![me][c] = Head(UserMailBoxes[me][c]).id]
          /\ UNCHANGED <<ChannelIds, ChannelMemberMap, ChannelTypeMap, privates, puts, log>>
      BY <1>8, <2>2 DEF handleGetMessage, OldestOf
    <3>2. me \in Users
      BY <1>1, <3>1, UserOfSession
    <3> QED BY <3>1, <3>2, GetKeeps
  <2> QED BY <2>1, <2>2
<1>9. ASSUME NEW c \in Nameable, handlePutMessage(t, c) PROVE MessageIInv'
  <2>1. CASE AuthError(t)
    BY <1>3, <2>1
  <2>2. CASE ~AuthError(t)
    <3> DEFINE me == SessionUser(t)
    <3>1. /\ IsSessionExist(t) /\ puts < MaxPuts /\ puts' = puts + 1
          /\ ChannelIds' = ChannelIds \cup {c}
          /\ UserMailBoxes' = [u \in Users |->
                IF u \in Recipients(me, c)
                THEN [UserMailBoxes[u] EXCEPT ![c] = Append(@, Entity(me, c))]
                ELSE UserMailBoxes[u]]
          /\ log' = [log EXCEPT ![c] =
                @ \cup {[sender |-> me, members |-> ChannelMemberMap[c], id |-> puts + 1]}]
          /\ UNCHANGED <<ChannelMemberMap, ChannelTypeMap, privates, read>>
      BY <1>9, <2>2 DEF handlePutMessage
    <3>2. me \in Users
      BY <1>1, <3>1, UserOfSession
    <3>3. c \in Channels /\ \A i \in 1 .. MaxPrivate : c = i => i <= privates
      BY <1>1, NameableFacts DEF MessageTypeOK
    <3> QED BY <3>1, <3>2, <3>3, PutKeeps
  <2> QED BY <2>1, <2>2
<1>10. Nameable \subseteq Channels
  BY <1>1, NameableFacts DEF MessageTypeOK
<1> QED BY <1>4, <1>5, <1>6, <1>7, <1>8, <1>9, <1>10, InputsAmong DEF Request

LEMMA MessageIInvStep == MessageIInv /\ [MessageNext]_vars => MessageIInv'
<1> SUFFICES ASSUME MessageIInv, [MessageNext]_vars PROVE MessageIInv'
  OBVIOUS
<1>1. SessionIInv'
  BY MessageStepIsSessionStep, SessionStep DEF MessageIInv
<1>2. CASE UNCHANGED messageVars
  BY <1>1, <1>2, ChannelsChangeKeeps DEF messageVars, MessageIInv, MessageTypeOK, ChannelsAreNamed
<1>3. CASE \E t \in Uuids : Request(t)
  BY <1>1, <1>3, RequestKeeps
<1>4. CASE Restart
  BY <1>1, <1>4, RestartKeeps
<1> QED
  BY <1>2, <1>3, <1>4 DEF MessageNext, LoginOrRegister, Logout, PayloadInvalid, Refuse,
     AnswerOnly, vars, messageVars

LEMMA MessageIInvAlways == MessageSpec => []MessageIInv
BY MessageInitIInv, MessageIInvStep, PTL DEF MessageSpec

-----------------------------------------------------------------------------
(* Theorems.                                                               *)

\* The channels, mailboxes and counters keep their types.
THEOREM MessageTypesAlways == MessageSpec => []MessageTypeOK
<1>1. MessageIInv => MessageTypeOK
  BY DEF MessageIInv
<1> QED BY MessageIInvAlways, <1>1, PTL

\* A mailbox always holds what its owner has still to read, oldest first
\* (handlePutMessage, handleGetMessage).
THEOREM MailboxIsAlwaysUnread == MessageSpec => []MailboxIsUnread
<1>1. MessageIInv => MailboxIsUnread
  BY DEF MessageIInv
<1> QED BY MessageIInvAlways, <1>1, PTL

\* The sessions under the message service are those of Session.
THEOREM MessageImplementsSession == MessageSpec => SessionSpec
<1>1. InitMessage => InitSession
  BY DEF InitMessage
<1> QED BY <1>1, MessageStepIsSessionStep, PTL DEF MessageSpec, SessionSpec

\* What a request does to the channels that were there before it.
LEMMA RequestOnChannels ==
    ASSUME MessageIInv, NEW t \in Uuids, Request(t), NEW c \in Channels, ChannelExists(c)
    PROVE  /\ ChannelTypeMap[c] # "none" => ChannelTypeMap'[c] = ChannelTypeMap[c]
           /\ \A u \in Users : (u \in ChannelMemberMap[c]) # (u \in ChannelMemberMap'[c]) =>
                 SessionValueMap'[response'.session].username = u
<1> DEFINE Goal ==
      /\ ChannelTypeMap[c] # "none" => ChannelTypeMap'[c] = ChannelTypeMap[c]
      /\ \A u \in Users : (u \in ChannelMemberMap[c]) # (u \in ChannelMemberMap'[c]) =>
            SessionValueMap'[response'.session].username = u
<1>1. /\ ChannelMemberMap \in [Channels -> SUBSET Users]
      /\ ChannelTypeMap \in [Channels -> {"PRIVATE", "GROUP", "none"}]
      /\ privates \in Nat /\ MaxPrivate \in Nat
  BY MessageAssumption DEF MessageIInv, MessageTypeOK
<1>2. ASSUME UNCHANGED <<ChannelMemberMap, ChannelTypeMap>> PROVE Goal
  BY <1>2
<1>3. ASSUME NEW d \in Channels, NEW type, NEW members, NEW me,
             Create(d, type, members, me), d \notin ChannelIds
      PROVE  Goal
  BY <1>1, <1>3 DEF Create, ChannelExists
<1>4. ASSUME NEW members \in SUBSET Users, handleCreatePrivate(t, members) PROVE Goal
  <2>1. \/ UNCHANGED <<ChannelMemberMap, ChannelTypeMap>>
        \/ privates < MaxPrivate /\ Create(privates + 1, "PRIVATE", members, SessionUser(t))
    BY <1>4 DEF handleCreatePrivate, AuthError, Refuse, AnswerOnly, messageVars
  <2>2. privates < MaxPrivate => privates + 1 \in Channels /\ privates + 1 \notin ChannelIds
    BY <1>1 DEF MessageIInv, ChannelsAreNamed, Channels
  <2> HIDE DEF Goal
  <2> QED BY <1>2, <1>3, <2>1, <2>2
<1>5. ASSUME NEW g \in GroupNames \cup {EmptyName}, NEW members \in SUBSET Users,
             handleCreateGroup(t, g, members)
      PROVE  Goal
  <2>1. \/ UNCHANGED <<ChannelMemberMap, ChannelTypeMap>>
        \/ g \in Channels /\ g \notin ChannelIds /\ Create(g, "GROUP", members, SessionUser(t))
    BY <1>5 DEF handleCreateGroup, AuthError, Refuse, AnswerOnly, messageVars, NameInUse,
       ChannelExists, Channels
  <2> HIDE DEF Goal
  <2> QED BY <1>2, <1>3, <2>1
<1>6. ASSUME handleViewChannels(t) PROVE Goal
  BY <1>6 DEF handleViewChannels, AuthError, Refuse, AnswerOnly, messageVars, TypesSeen
<1>7. ASSUME NEW d \in Channels, handleJoinGroup(t, d) \/ handleLeaveGroup(t, d) PROVE Goal
  <2>1. CASE UNCHANGED <<ChannelMemberMap, ChannelTypeMap>>
    BY <1>2, <2>1
  <2>2. CASE ~UNCHANGED <<ChannelMemberMap, ChannelTypeMap>>
    <3>1. /\ \/ ChannelMemberMap' = [ChannelMemberMap EXCEPT ![d] = @ \cup {SessionUser(t)}]
             \/ ChannelMemberMap' = [ChannelMemberMap EXCEPT ![d] = @ \ {SessionUser(t)}]
          /\ UNCHANGED <<sessionVars, ChannelTypeMap>>
          /\ response'.session = t
      BY <1>7, <2>2 DEF handleJoinGroup, handleLeaveGroup, AuthError, Refuse, AnswerOnly,
         messageVars, Respond
    <3>2. \A u \in Users : (u \in ChannelMemberMap[c]) # (u \in ChannelMemberMap'[c]) =>
             u = SessionUser(t)
      BY <1>1, <3>1
    <3>3. SessionValueMap'[response'.session].username = SessionUser(t)
      BY <3>1 DEF sessionVars, SessionUser
    <3> QED BY <3>1, <3>2, <3>3
  <2> QED BY <2>1, <2>2
<1>8. ASSUME NEW d, handleGetMessage(t, d) \/ handlePutMessage(t, d) PROVE Goal
  BY <1>8 DEF handleGetMessage, handlePutMessage, AuthError, Refuse, AnswerOnly, messageVars
<1>9. Nameable \subseteq Channels
  BY MessageAssumption DEF MessageIInv, MessageTypeOK, Nameable, Channels
<1> HIDE DEF Goal
<1>10. Goal
  BY <1>4, <1>5, <1>6, <1>7, <1>8, <1>9, InputsAmong DEF Request
<1> QED BY <1>10 DEF Goal

\* The other steps leave the channels alone, but for the one that forgets them.
LEMMA OthersOnChannels ==
    ASSUME [MessageNext]_vars, ~\E t \in Uuids : Request(t), response'.status # "RESTART"
    PROVE  UNCHANGED <<ChannelMemberMap, ChannelTypeMap>>
BY DEF MessageNext, LoginOrRegister, Logout, PayloadInvalid, Refuse, AnswerOnly, Restart,
   Respond, messageVars, vars

\* Nobody but a user himself moves him into or out of a channel that exists
\* (handleCreateChannel, handleJoinGroup, handleLeaveGroup).
THEOREM MembershipIsAlwaysOwn == MessageSpec => MembershipIsOwn
<1>1. MessageIInv /\ [MessageNext]_vars =>
        [response'.status # "RESTART" =>
           \A c \in Channels, u \in Users :
              (ChannelExists(c) /\ (u \in ChannelMemberMap[c]) # (u \in ChannelMemberMap'[c])) =>
                 SessionValueMap'[response'.session].username = u]_vars
  BY RequestOnChannels, OthersOnChannels
<1> QED BY MessageIInvAlways, <1>1, PTL DEF MessageSpec, MembershipIsOwn

\* A private channel never becomes a group, nor a group private: a ghost that a PUT
\* left behind has no type to change (handleCreateChannel, handleViewChannels).
THEOREM TypesAreForGood == MessageSpec => TypeIsForGood
<1>1. MessageIInv /\ [MessageNext]_vars =>
        [response'.status # "RESTART" =>
           \A c \in Channels : ChannelTypeMap[c] # "none" =>
              ChannelTypeMap'[c] = ChannelTypeMap[c]]_vars
  BY RequestOnChannels, OthersOnChannels DEF MessageIInv, ChannelsAreNamed, ChannelExists
<1> QED BY MessageIInvAlways, <1>1, PTL DEF MessageSpec, TypeIsForGood

-----------------------------------------------------------------------------
(* The mailboxes implement the log of ChannelLog.                          *)

\* An answer without a message hands out nothing.
LEMMA NothingHanded ==
    ASSUME response'.message = NoMessage, UNCHANGED <<log, read>>
    PROVE  Service!Idle
BY DEF Service!Idle, Service!Nothing

LEMMA GetIsGet ==
    ASSUME MessageIInv, NEW t \in Uuids, NEW c \in Channels, handleGetMessage(t, c)
    PROVE  Service!LogNext
<1>1. CASE AuthError(t) \/ AnswerOnly("OK", t)
  <2>1. response'.message = NoMessage /\ UNCHANGED <<log, read>>
    BY <1>1 DEF AuthError, Refuse, AnswerOnly, Respond, messageVars
  <2> QED BY <2>1, NothingHanded DEF Service!LogNext
<1>2. CASE ~(AuthError(t) \/ AnswerOnly("OK", t))
  <2> DEFINE me == SessionUser(t)
             box == UserMailBoxes[me][c]
  <2>1. /\ IsSessionExist(t) /\ box # <<>>
        /\ read' = [read EXCEPT ![me][c] = Head(box).id]
        /\ response' = [status |-> "OK", session |-> t, message |-> Head(box)]
        /\ UNCHANGED <<log, sessionVars>>
    BY <1>2 DEF handleGetMessage, OldestOf, Respond
  <2>2. me \in Users
    BY <2>1, UserOfSession DEF MessageIInv
  <2>3. Head(box) \in Message
    BY <2>1, <2>2 DEF MessageIInv, MessageTypeOK
  <2>4. response'.message # NoMessage /\ response'.message = Head(box)
    BY <2>1, <2>3, MessageAssumption
  <2>5. SessionUser(response.session)' = me
    BY <2>1 DEF SessionUser, sessionVars
  <2>6. PICK e \in Service!Unread(me, c) :
           /\ Shortened(e) = Head(box)
           /\ \A d \in Service!Unread(me, c) : e.id <= d.id
    BY <2>1, <2>2, HeadIsNext
  <2>7. Head(box).id = e.id /\ Head(box) = [sender |-> e.sender, id |-> e.id]
    BY <2>6 DEF Shortened
  <2> HIDE DEF me, box
  <2>8. Service!Get(me, c)
    BY <2>1, <2>4, <2>5, <2>6, <2>7 DEF Service!Get
  <2> QED BY <2>2, <2>8 DEF Service!LogNext
<1> QED BY <1>1, <1>2

LEMMA PutIsPut ==
    ASSUME MessageIInv, NEW t \in Uuids, NEW c \in Channels, handlePutMessage(t, c)
    PROVE  Service!LogNext
<1>1. CASE AuthError(t)
  <2>1. response'.message = NoMessage /\ UNCHANGED <<log, read>>
    BY <1>1 DEF AuthError, Refuse, AnswerOnly, Respond, messageVars
  <2> QED BY <2>1, NothingHanded DEF Service!LogNext
<1>2. CASE ~AuthError(t)
  <2> DEFINE me == SessionUser(t)
             members == ChannelMemberMap[c]
  <2>1. /\ IsSessionExist(t) /\ puts < MaxPuts
        /\ log' = [log EXCEPT ![c] =
              @ \cup {[sender |-> me, members |-> members, id |-> puts + 1]}]
        /\ response'.message = NoMessage
        /\ UNCHANGED read
    BY <1>2 DEF handlePutMessage, Respond
  <2>2. me \in Users
    BY <2>1, UserOfSession DEF MessageIInv
  <2>3. members \in SUBSET Users /\ puts + 1 \in 1 .. MaxPuts /\ puts \in Nat
    BY <2>1, MessageAssumption DEF MessageIInv, MessageTypeOK
  <2>4. \A d \in Channels : \A e \in log[d] : e.id < puts + 1
    BY <2>3 DEF MessageIInv, MessageTypeOK, LogIsPast
  <2> HIDE DEF me, members
  <2>5. Service!Put(me, c, members, puts + 1)
    BY <2>1, <2>4 DEF Service!Put, Service!Nothing
  <2> QED BY <2>2, <2>3, <2>5 DEF Service!LogNext
<1> QED BY <1>1, <1>2

LEMMA RequestIsLogStep ==
    ASSUME MessageIInv, NEW t \in Uuids, Request(t) PROVE Service!LogNext
<1>1. CASE /\ ~\E c \in Nameable : handleGetMessage(t, c) \/ handlePutMessage(t, c)
           /\ Request(t)
  <2>1. response'.message = NoMessage /\ UNCHANGED <<log, read>>
    BY <1>1, InputsAmong DEF Request, handleCreatePrivate, handleCreateGroup, handleViewChannels,
       handleJoinGroup, handleLeaveGroup, Create, AuthError, Refuse, AnswerOnly, Respond, messageVars
  <2> QED BY <2>1, NothingHanded DEF Service!LogNext
<1>2. Nameable \subseteq Channels
  BY MessageAssumption DEF MessageIInv, MessageTypeOK, Nameable, Channels
<1> QED BY <1>1, <1>2, GetIsGet, PutIsPut

\* Every step of the message service is a step of the log or leaves it alone.
LEMMA MessageStepIsLogStep ==
    MessageIInv /\ [MessageNext]_vars => [Service!LogNext]_(Service!logVars)
<1> SUFFICES ASSUME MessageIInv, [MessageNext]_vars PROVE [Service!LogNext]_(Service!logVars)
  OBVIOUS
<1>1. CASE \E t \in Uuids : Request(t)
  BY <1>1, RequestIsLogStep
<1>2. CASE Restart
  <2>1. Service!Forget
    BY <1>2 DEF Restart, Respond, NoLog, NothingRead, Service!Forget, Service!Nothing
  <2> QED BY <2>1 DEF Service!LogNext
<1>3. CASE \/ \E u \in Users, a \in Addrs : LoginOrRegister(u, a)
           \/ \E t \in Uuids : Logout(t)
           \/ PayloadInvalid
  <2>1. response'.message = NoMessage /\ UNCHANGED <<log, read>>
    BY <1>3 DEF LoginOrRegister, Logout, PayloadInvalid, Refuse, AnswerOnly, Respond, messageVars
  <2> QED BY <2>1, NothingHanded DEF Service!LogNext
<1>4. CASE UNCHANGED vars
  BY <1>4 DEF vars, messageVars, sessionVars, SessionUser, Service!logVars
<1> QED BY <1>1, <1>2, <1>3, <1>4 DEF MessageNext

\* The mailboxes implement the log: whatever members join, leave, log out and come
\* back, a GET hands its caller the next message that was put for him while he was a
\* member, none skipped and none twice (handleGetMessage, handlePutMessage).
THEOREM MailboxesImplementLog == MessageSpec => ImplementsChannelLog
<1>1. InitMessage => Service!InitLog
  BY DEF InitMessage, InitMessageState, NoLog, NothingRead, Service!InitLog, Service!Nothing
<1> QED BY MessageIInvAlways, <1>1, MessageStepIsLogStep, PTL
        DEF MessageSpec, ImplementsChannelLog, Service!LogSpec
=============================================================================
