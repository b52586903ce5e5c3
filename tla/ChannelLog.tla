------------------------------ MODULE ChannelLog ------------------------------
(***************************************************************************)
(* What the message service promises, without mailboxes: each channel is a *)
(* log of messages, each stamped with the members it had when the message  *)
(* was put and numbered in the order of the PUTs, and each user has a      *)
(* cursor in it.  A message is handed out by moving the cursor to the next *)
(* message that is for him: in order, none skipped, none twice.            *)
(***************************************************************************)
EXTENDS Naturals

CONSTANTS Users, Channels, Ids, NoMessage

VARIABLES
    log,    \* channel -> the set of its messages, [sender, members, id]
    read,   \* user -> channel -> the id of the message last handed out, 0 for none
    handed  \* what the last step handed out, and to whom

logVars == <<log, read, handed>>

\* The messages of channel c that user r has still to get.
Unread(r, c) == {e \in log[c] : r # e.sender /\ r \in e.members /\ read[r][c] < e.id}

Nothing == [to |-> NoMessage, message |-> NoMessage]

InitLog ==
    /\ log = [c \in Channels |-> {}]
    /\ read = [r \in Users |-> [c \in Channels |-> 0]]
    /\ handed = Nothing

Put(s, c, members, id) ==
    /\ \A d \in Channels : \A e \in log[d] : e.id < id
    /\ log' = [log EXCEPT ![c] = @ \cup {[sender |-> s, members |-> members, id |-> id]}]
    /\ handed' = Nothing
    /\ UNCHANGED read

Get(r, c) ==
    \E e \in Unread(r, c) :
        /\ \A d \in Unread(r, c) : e.id <= d.id
        /\ read' = [read EXCEPT ![r][c] = e.id]
        /\ handed' = [to |-> r, message |-> [sender |-> e.sender, id |-> e.id]]
        /\ UNCHANGED log

\* Any other request, or a GET that finds nothing.
Idle == handed' = Nothing /\ UNCHANGED <<log, read>>

\* The process ends and another one starts.
Forget ==
    /\ log' = [c \in Channels |-> {}]
    /\ read' = [r \in Users |-> [c \in Channels |-> 0]]
    /\ handed' = Nothing

LogNext ==
    \/ Idle
    \/ \E s \in Users, c \in Channels, members \in SUBSET Users, id \in Ids :
          Put(s, c, members, id)
    \/ \E r \in Users, c \in Channels : Get(r, c)
    \/ Forget

LogSpec == InitLog /\ [][LogNext]_logVars
=============================================================================
