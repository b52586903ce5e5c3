---------------------------- MODULE MessageWindow ----------------------------
(***************************************************************************)
(* The message window of a client, handleMsgMainWindow in                  *)
(* client/Message.cpp, with the network and what handleGetMessage and      *)
(* handlePutMessage of server/Message.cpp do for it.  The window writes a  *)
(* GET whenever its select times out, without waiting, and a PUT through   *)
(* ClientSendAndRead, which takes the next datagram of the same socket for *)
(* its answer.  Nothing in an answer says which request it belongs to, and *)
(* the GeneralResponse of a PUT passes VerifyGetMsgResponseBuffer: as a    *)
(* GetMsgResponse it has a status and no list.                             *)
(***************************************************************************)
EXTENDS Naturals, Sequences, SequencesExt

CONSTANTS
    Channels,
    NoList,                \* msg_list of an answer that has none
    RESEND_THRESHOLD_NUM,
    MaxMessages,           \* bound: messages other members put
    MaxPuts,               \* bound: lines the user enters
    MaxOutstanding,        \* bound: datagrams on the way when the window polls
    MaxFaults              \* bound: datagrams lost, datagrams reordered, and restarts of the server

ASSUME WindowAssumption ==
    /\ Channels # {}
    /\ RESEND_THRESHOLD_NUM \in Nat \ {0}
    /\ {MaxMessages, MaxPuts, MaxOutstanding, MaxFaults} \subseteq Nat
    /\ NoList # <<>> /\ \A m \in 1 .. MaxMessages : NoList # <<m>>

Messages == 1 .. MaxMessages
Puts == 1 .. MaxPuts

\* `of' is history: the PUT a datagram belongs to, 0 for a GET.
Request == [of : 0 .. MaxPuts, channel : Channels]
Answer == [of : 0 .. MaxPuts, ok : BOOLEAN,
           list : {NoList, <<>>} \union {<<m>> : m \in Messages}]

VARIABLES
    screen,    \* where the client is
    channel,   \* CurrentChannelId
    socketSet, \* FD_ISSET of the socket after the last select of the window
    counter,   \* rounds of ClientSendAndRead
    typed,     \* PUTs made so far
    session,   \* the server knows the token, and who is in the channels
    mailbox,   \* the user's mailbox: channel -> messages
    posted,    \* history: message -> its channel, in the order of their PUTs
    requests, answers,  \* datagrams on the way, in order
    lost, swaps, restarts, \* how many faults there have been of each kind
    shown,     \* history: messages shown, in order, each with the channel of the window
    dropped,   \* history: messages in a datagram that was lost, or forgotten by a restart
    swallowed, \* history: messages in a datagram that was taken for another answer
    ran,       \* history: PUTs executed
    outcome,   \* history: PUT -> what the user was told
    clean,     \* history: PUTs made when nothing was on the way
    leftEarly  \* history: the window was left while something was on the way

clientVars == <<screen, channel, socketSet, counter, typed>>
serverVars == <<session, mailbox, posted, ran>>
networkVars == <<requests, answers>>
faultVars == <<lost, swaps, restarts>>
historyVars == <<shown, dropped, swallowed, outcome, clean, leftEarly>>
vars == <<clientVars, serverVars, networkVars, faultVars, historyVars>>

WindowTypeOK ==
    /\ screen \in {"window", "again", "putting", "reading", "elsewhere", "crashed"}
    /\ channel \in Channels
    /\ socketSet \in BOOLEAN /\ session \in BOOLEAN /\ leftEarly \in BOOLEAN
    /\ counter \in 0 .. RESEND_THRESHOLD_NUM
    /\ typed \in 0 .. MaxPuts
    /\ lost \in Nat /\ swaps \in Nat /\ restarts \in Nat
    /\ mailbox \in [Channels -> Seq(Messages)]
    /\ posted \in Seq(Channels)
    /\ requests \in Seq(Request) /\ answers \in Seq(Answer)
    /\ shown \in Seq([msg : Messages, in : Channels])
    /\ dropped \subseteq Messages /\ swallowed \subseteq Messages
    /\ ran \subseteq Puts /\ clean \subseteq Puts
    /\ outcome \in [Puts -> {"none", "silent", "failed"}]

InitWindow ==
    /\ screen = "window" /\ channel \in Channels
    /\ socketSet = FALSE /\ counter = 0 /\ typed = 0
    /\ session = TRUE
    /\ mailbox = [c \in Channels |-> <<>>]
    /\ posted = <<>>
    /\ requests = <<>> /\ answers = <<>>
    /\ lost = 0 /\ swaps = 0 /\ restarts = 0
    /\ shown = <<>> /\ dropped = {} /\ swallowed = {}
    /\ ran = {} /\ clean = {}
    /\ outcome = [n \in Puts |-> "none"]
    /\ leftEarly = FALSE

NothingOnTheWay == requests = <<>> /\ answers = <<>>
Content(a) == IF a.list = NoList THEN {} ELSE Range(a.list)

-----------------------------------------------------------------------------
(* The window. *)

\* select times out.
\* Mutant PollMeanwhile: a timer polls, even while a PUT waits.
PollMeanwhile ==
    /\ screen \in {"window", "putting"}
    /\ Len(requests) + Len(answers) < MaxOutstanding
    /\ requests' = Append(requests, [of |-> 0, channel |-> channel])
    /\ UNCHANGED <<clientVars, serverVars, answers, faultVars, historyVars>>

Poll ==
    /\ screen = "window"
    /\ Len(requests) + Len(answers) < MaxOutstanding
    /\ requests' = Append(requests, [of |-> 0, channel |-> channel])
    /\ UNCHANGED <<clientVars, serverVars, answers, faultVars, historyVars>>

\* A line is entered. select may have found the socket readable as well.
SocketSetAfterSelect == IF answers = <<>> THEN {FALSE} ELSE BOOLEAN

CounterAtStart == 0

\* The line is empty: the window reads another one and does nothing else until it
\* comes, neither polls nor receives. What select has found is used afterwards.
EnterEmptyLine ==
    /\ screen = "window"
    /\ screen' = "again"
    /\ socketSet' \in SocketSetAfterSelect
    /\ UNCHANGED <<channel, counter, typed, serverVars, networkVars, faultVars, historyVars>>

EnterLine ==
    /\ typed < MaxPuts
    /\ \/ screen = "window" /\ socketSet' \in SocketSetAfterSelect
       \/ screen = "again" /\ UNCHANGED socketSet
    /\ typed' = typed + 1
    /\ counter' = CounterAtStart
    /\ screen' = "putting"
    /\ requests' = Append(requests, [of |-> typed + 1, channel |-> channel])
    /\ clean' = IF NothingOnTheWay THEN clean \union {typed + 1} ELSE clean
    /\ UNCHANGED <<channel, serverVars, answers, faultVars,
                   shown, dropped, swallowed, outcome, leftEarly>>

Quit ==
    /\ screen \in {"window", "again"}
    /\ screen' = "elsewhere"
    /\ leftEarly' = (leftEarly \/ ~NothingOnTheWay)
    /\ UNCHANGED <<channel, socketSet, counter, typed, serverVars, networkVars, faultVars,
                   shown, dropped, swallowed, outcome, clean>>

\* ClientSendAndRead returns; the socket is read if its bit was set before.
PutEnds(told) ==
    /\ outcome' = [outcome EXCEPT ![typed] = told]
    /\ screen' = IF socketSet THEN "reading" ELSE "window"

PutTimeout ==
    /\ screen = "putting"
    /\ counter' = counter + 1
    /\ IF counter' = RESEND_THRESHOLD_NUM
       THEN PutEnds("failed")
       ELSE UNCHANGED <<outcome, screen>>
    /\ UNCHANGED <<channel, socketSet, typed, serverVars, networkVars, faultVars,
                   shown, dropped, swallowed, clean, leftEarly>>

\* The callback of a PUT looks at n_bytes only.
PutRead ==
    /\ screen = "putting" /\ answers # <<>>
    /\ PutEnds("silent")
    /\ answers' = Tail(answers)
    /\ swallowed' = swallowed \union Content(Head(answers))
    /\ UNCHANGED <<channel, socketSet, counter, typed, serverVars, requests, faultVars,
                   shown, dropped, clean, leftEarly>>

\* msg_resp_callback: an answer whose status is OK is expected to have a list.
\* Mutant ShowInReverse: new messages are written above the old ones.
ShowInReverse(a) == [i \in DOMAIN a.list |-> [msg |-> a.list[i], in |-> channel]] \o shown
ShowList(a) == shown \o [i \in DOMAIN a.list |-> [msg |-> a.list[i], in |-> channel]]

Receive ==
    /\ screen \in {"window", "reading"} /\ answers # <<>>
    /\ answers' = Tail(answers)
    /\ LET a == Head(answers) IN
        IF a.ok /\ a.list = NoList
        THEN screen' = "crashed" /\ UNCHANGED shown
        ELSE /\ screen' = "window"
             /\ shown' = IF a.ok THEN ShowList(a) ELSE shown
    /\ UNCHANGED <<channel, socketSet, counter, typed, serverVars, requests, faultVars,
                   dropped, swallowed, outcome, clean, leftEarly>>

WindowStep == Poll \/ PutTimeout \/ PutRead \/ Receive

\* Other screens read the datagrams that are left, as answers to calls of their own.
ReadElsewhere ==
    /\ screen = "elsewhere" /\ answers # <<>>
    /\ answers' = Tail(answers)
    /\ swallowed' = swallowed \union Content(Head(answers))
    /\ UNCHANGED <<clientVars, serverVars, requests, faultVars,
                   shown, dropped, outcome, clean, leftEarly>>

EnterWindow ==
    /\ screen = "elsewhere"
    /\ screen' = "window"
    /\ channel' \in Channels
    /\ UNCHANGED <<socketSet, counter, typed, serverVars, networkVars, faultVars, historyVars>>

-----------------------------------------------------------------------------
(* The server: one request, one answer. *)

\* Mutant GetKeeps: the message stays in the mailbox.
\* Mutant GetButLast: off by one in the test for an empty mailbox.
\* Mutant GetOther: one mailbox for all channels of the user.
GetKeeps(c) ==
    /\ mailbox' = mailbox
    /\ answers' = Append(answers, [of |-> 0, ok |-> TRUE,
            list |-> IF mailbox[c] = <<>> THEN <<>> ELSE <<Head(mailbox[c])>>])

GetButLast(c) ==
    LET some == Len(mailbox[c]) > 1 IN
    /\ mailbox' = [mailbox EXCEPT ![c] = IF some THEN Tail(@) ELSE @]
    /\ answers' = Append(answers, [of |-> 0, ok |-> TRUE,
            list |-> IF some THEN <<Head(mailbox[c])>> ELSE <<>>])

GetOther(c) ==
    \E d \in Channels :
        /\ mailbox' = [mailbox EXCEPT ![d] = IF @ = <<>> THEN <<>> ELSE Tail(@)]
        /\ answers' = Append(answers, [of |-> 0, ok |-> TRUE,
                list |-> IF mailbox[d] = <<>> THEN <<>> ELSE <<Head(mailbox[d])>>])

GetMessage(c) ==
    /\ mailbox' = [mailbox EXCEPT ![c] = IF @ = <<>> THEN <<>> ELSE Tail(@)]
    /\ answers' = Append(answers, [of |-> 0, ok |-> TRUE,
            list |-> IF mailbox[c] = <<>> THEN <<>> ELSE <<Head(mailbox[c])>>])

\* Mutant PutAnswers: the answer is sent, the message is not stored.
PutAnswers(n) ==
    /\ ran' = ran
    /\ answers' = Append(answers, [of |-> n, ok |-> TRUE, list |-> NoList])

PutMessage(n) ==
    /\ ran' = ran \union {n}
    /\ answers' = Append(answers, [of |-> n, ok |-> TRUE, list |-> NoList])

Serve ==
    /\ requests # <<>>
    /\ requests' = Tail(requests)
    /\ LET r == Head(requests) IN
        \/ session /\ r.of = 0 /\ GetMessage(r.channel) /\ UNCHANGED ran
        \/ session /\ r.of # 0 /\ PutMessage(r.of) /\ UNCHANGED mailbox
        \/ /\ ~session
           /\ answers' = Append(answers, [of |-> r.of, ok |-> FALSE, list |-> NoList])
           /\ UNCHANGED <<mailbox, ran>>
    /\ UNCHANGED <<clientVars, session, posted, faultVars, historyVars>>

\* Another member of a channel puts a message.
OtherPuts ==
    /\ session /\ Len(posted) < MaxMessages
    /\ \E c \in Channels :
        /\ posted' = Append(posted, c)
        /\ mailbox' = [mailbox EXCEPT ![c] = Append(@, Len(posted'))]
    /\ UNCHANGED <<clientVars, session, ran, networkVars, faultVars, historyVars>>

MoreFaults == lost + swaps + restarts < MaxFaults

\* Sessions, channels and mailboxes are in memory only.
Restart ==
    /\ MoreFaults
    /\ restarts' = restarts + 1
    /\ session' = FALSE
    /\ mailbox' = [c \in Channels |-> <<>>]
    /\ dropped' = dropped \union UNION {Range(mailbox[c]) : c \in Channels}
    /\ UNCHANGED <<clientVars, posted, ran, networkVars, lost, swaps,
                   shown, swallowed, outcome, clean, leftEarly>>

-----------------------------------------------------------------------------
(* The network. *)

Lose ==
    /\ MoreFaults
    /\ lost' = lost + 1
    /\ \/ /\ \E i \in DOMAIN requests : requests' = RemoveAt(requests, i)
          /\ UNCHANGED <<answers, dropped>>
       \/ \E i \in DOMAIN answers :
            /\ answers' = RemoveAt(answers, i)
            /\ dropped' = dropped \union Content(answers[i])
            /\ UNCHANGED requests
    /\ UNCHANGED <<clientVars, serverVars, swaps, restarts,
                   shown, swallowed, outcome, clean, leftEarly>>

Swapped(s, i) == [s EXCEPT ![i] = s[i + 1], ![i + 1] = s[i]]

Reorder ==
    /\ MoreFaults
    /\ swaps' = swaps + 1
    /\ \/ /\ \E i \in 1 .. Len(requests) - 1 : requests' = Swapped(requests, i)
          /\ UNCHANGED answers
       \/ /\ \E i \in 1 .. Len(answers) - 1 : answers' = Swapped(answers, i)
          /\ UNCHANGED requests
    /\ UNCHANGED <<clientVars, serverVars, lost, restarts, historyVars>>

WindowNext ==
    \/ WindowStep \/ EnterEmptyLine \/ EnterLine \/ Quit \/ ReadElsewhere \/ EnterWindow
    \/ Serve \/ OtherPuts \/ Restart \/ Lose \/ Reorder

\* The loops of the window and of the server run on; select and ClientSendAndRead have
\* timeouts. Users, faults and other members may do nothing, and a window that waits for
\* the line after an empty one waits for its user.
WindowSpec == InitWindow /\ [][WindowNext]_vars /\ WF_vars(WindowStep) /\ WF_vars(Serve)

-----------------------------------------------------------------------------
(* Properties. *)

InMailbox == UNION {Range(mailbox[c]) : c \in Channels}
InAnswers == UNION {Content(a) : a \in Range(answers)}
Shown == {s.msg : s \in Range(shown)}

\* Every message put to the user's channels is at one place: in the mailbox, on the way,
\* on the screen, lost by the network or a restart, or read by a call that took it for its
\* own answer. Nothing else loses a message, none is shown twice (client/Message.cpp:360-419,
\* 588-613, server/Message.cpp:310-356).
EachMessageOnce ==
    /\ DOMAIN posted = InMailbox \union InAnswers \union Shown \union dropped \union swallowed
    /\ \A i, j \in DOMAIN shown : shown[i].msg = shown[j].msg => i = j
    /\ \A m \in DOMAIN posted :
        \A i, j \in {1, 2, 3, 4, 5} :
            LET places == <<InMailbox, InAnswers, Shown, dropped, swallowed>>
            IN m \in places[i] \intersect places[j] => i = j

\* Messages of a channel are shown in the order of their PUTs, however many GETs are on
\* the way at a time, as long as the network keeps the order (client/Message.cpp:528).
ShownInOrder ==
    swaps = 0 => \A i, j \in DOMAIN shown :
        /\ i < j
        /\ posted[shown[i].msg] = posted[shown[j].msg]
        => shown[i].msg < shown[j].msg

\* A message is shown in the window of its own channel, though answers do not name one,
\* unless the window was left before its last GET was answered (client/Message.cpp:552-557).
ShownInItsChannel ==
    ~leftEarly => \A s \in Range(shown) : s.in = posted[s.msg]

\* A line the client did not report as failed was executed, when nothing else was on the way
\* as it was entered and the server is still the one of the login (client/Message.cpp:588-594).
SilentMeansRan ==
    restarts = 0 => \A n \in clean : outcome[n] = "silent" => n \in ran

\* The window crashes on the answer of a PUT, or a call eats a message, only if a line was
\* entered while something was on the way, or timed out, or the window was left too early.
\* The read after a PUT (client/Message.cpp:597-601) blocks for good only when a datagram
\* was lost.
Overlap == leftEarly \/ \E n \in 1 .. typed : n \notin clean \/ outcome[n] = "failed"
TroubleHasCause ==
    /\ screen = "crashed" \/ swallowed # {} => Overlap
    /\ screen = "reading" /\ NothingOnTheWay => lost > 0

\* A message does not stay in the mailbox for ever while the window of its channel is open:
\* polling goes on after lost GETs and refused answers, as long as the window is not left,
\* does not crash, does not hang in its second read and does not wait for the line after
\* an empty one, which its user may never type (client/Message.cpp:514-544).
MessagesLeaveMailbox ==
    \A m \in Messages :
        m \in InMailbox ~>
            \/ m \notin InMailbox
            \/ screen \in {"again", "elsewhere", "crashed"}
            \/ screen = "reading" /\ NothingOnTheWay
            \/ channel # posted[m]

\* What the schema promises, flatbuffers/message/get_msg_resp.fbs:7-8: status_code is put
\* where it is "To avoid getting confused with GeneralResponse".
WindowSurvives == screen # "crashed"
=============================================================================
