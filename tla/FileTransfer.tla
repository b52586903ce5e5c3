---------------------------- MODULE FileTransfer ----------------------------
(***************************************************************************)
(* @sendfile of the client's message window (client/Message.cpp): the      *)
(* sender puts a file into the channel chunk by chunk and ends with one of *)
(* a negative sequence number; the reader appends what arrives to the file *)
(* of that name it has open, or opens one.  In between is the reader's     *)
(* mailbox at the server, first in first out.                              *)
(*                                                                         *)
(* A PUT waits for an answer, so that the chunks of one send are executed  *)
(* in order, unless the transport fails it, executes it twice, or leaves a *)
(* copy on the way that is executed later.  GETs do not wait: their        *)
(* answers can be lost, can overtake each other, and can be read by a call *)
(* of the reader that waits for an answer of its own and drops them, with  *)
(* no fault of the transport.                                              *)
(***************************************************************************)
EXTENDS Naturals, Integers, Sequences, SequencesExt

CONSTANTS
    Senders,        \* the other members of the channel
    Names,          \* file names
    NotOpen,        \* "key not found" in TransferFdMap
    Chunks,         \* bound: chunks of a file
    MaxSends,       \* bound: files a sender sends
    MaxOutstanding, \* bound: answers to GETs on the way
    MaxFaults       \* bound: faults of the transport

EOF == -1
Send == [from : Senders, nth : 1 .. MaxSends]
FileChunk == [send : Send, name : Names, seq : 1 .. Chunks \cup {EOF}]

ASSUME FileTransferAssumption ==
    /\ Chunks \in Nat \ {0} /\ MaxSends \in Nat \ {0}
    /\ MaxOutstanding \in Nat \ {0} /\ MaxFaults \in Nat
    /\ NotOpen \notin Seq(FileChunk)

VARIABLES
    seq_counter,    \* sender -> the chunk it puts next, Chunks + 1 for the end, 0 when idle
    file_name,      \* sender -> the name of its current or last file
    nth,            \* sender -> how many files it has begun to send
    copies,         \* resent chunks that are still on the way to the server
    mailbox,        \* the reader's mailbox for the channel
    onWay,          \* answers to its GETs
    TransferFdMap,  \* name -> what has been written to the open file, or NotOpen
    received,       \* history: what was in the files closed so far, and the send whose end closed it
    overlapped,     \* history: sends of a name that another sender was sending
    taken,          \* history: sends of which the reader dropped a chunk or the end himself
    endLost,        \* history: sends whose end was given up, lost or dropped
    misplaced,      \* history: a copy was executed late, or an answer overtook another
    faults          \* how many faults there have been

senderVars == <<seq_counter, file_name, nth, overlapped>>
readerVars == <<TransferFdMap, received, taken>>
faultVars == <<endLost, misplaced, faults>>
fileVars == <<senderVars, copies, mailbox, onWay, readerVars, faultVars>>

FileTypeOK ==
    /\ seq_counter \in [Senders -> 0 .. Chunks + 1]
    /\ file_name \in [Senders -> Names]
    /\ nth \in [Senders -> 0 .. MaxSends]
    /\ copies \subseteq FileChunk
    /\ mailbox \in Seq(FileChunk) /\ onWay \in Seq(FileChunk)
    /\ TransferFdMap \in [Names -> Seq(FileChunk) \cup {NotOpen}]
    /\ received \subseteq [end : Send, content : Seq(FileChunk)]
    /\ overlapped \subseteq Send /\ taken \subseteq Send /\ endLost \subseteq Send
    /\ misplaced \in BOOLEAN
    /\ faults \in 0 .. MaxFaults

InitFileTransfer ==
    /\ seq_counter = [s \in Senders |-> 0]
    /\ file_name \in [Senders -> Names]
    /\ nth = [s \in Senders |-> 0]
    /\ copies = {} /\ mailbox = <<>> /\ onWay = <<>>
    /\ TransferFdMap = [f \in Names |-> NotOpen]
    /\ received = {} /\ overlapped = {} /\ taken = {} /\ endLost = {}
    /\ misplaced = FALSE /\ faults = 0

Delivered == UNCHANGED faultVars
Fault == faults < MaxFaults /\ faults' = faults + 1
NeverShown(m) == endLost' = IF m.seq = EOF THEN endLost \cup {m.send} ELSE endLost
Lost(m) == Fault /\ NeverShown(m) /\ UNCHANGED misplaced
Doubled == Fault /\ UNCHANGED <<endLost, misplaced>>
Misplaced == Fault /\ misplaced' = TRUE /\ UNCHANGED endLost

-----------------------------------------------------------------------------
(* The sender.                                                               *)

Sending(s) == seq_counter[s] > 0
ThisSend(s) == [from |-> s, nth |-> nth[s]]

StartSend(s, f) ==
    /\ ~Sending(s) /\ nth[s] < MaxSends
    /\ nth' = [nth EXCEPT ![s] = @ + 1]
    /\ file_name' = [file_name EXCEPT ![s] = f]
    /\ seq_counter' = [seq_counter EXCEPT ![s] = 1]
    /\ LET others == {o \in Senders : Sending(o) /\ file_name[o] = f} IN
       overlapped' = IF others = {} THEN overlapped
                     ELSE overlapped \cup {ThisSend(o) : o \in others}
                                     \cup {[from |-> s, nth |-> nth[s] + 1]}
    /\ UNCHANGED <<copies, mailbox, onWay, readerVars, faultVars>>

ChunkOf(s) == [send |-> ThisSend(s), name |-> file_name[s],
               seq |-> IF seq_counter[s] <= Chunks THEN seq_counter[s] ELSE EOF]

\* The server's part. Mutant PutInFront: the newest message is read first.
PutInFront(m) == <<m>> \o mailbox
PutMessage(m) == Append(mailbox, m)

\* The loop goes on whatever the callback was told. The answer may be that of an earlier
\* GET of the sender; a chunk that is late is then not sent again.
AfterChunk(s) == IF seq_counter[s] > Chunks THEN 0 ELSE seq_counter[s] + 1

SendChunk(s) ==
    /\ Sending(s)
    /\ LET m == ChunkOf(s) IN
       \/ Delivered /\ mailbox' = PutMessage(m) /\ UNCHANGED copies
       \/ Lost(m) /\ UNCHANGED <<mailbox, copies>>
       \/ Doubled /\ mailbox' = mailbox \o <<m, m>> /\ UNCHANGED copies
       \/ Misplaced /\ mailbox' \in {mailbox, PutMessage(m)} /\ copies' = copies \cup {m}
    /\ seq_counter' = [seq_counter EXCEPT ![s] = AfterChunk(s)]
    /\ UNCHANGED <<file_name, nth, overlapped, onWay, readerVars>>

-----------------------------------------------------------------------------
(* The network and the reader.                                               *)

LateCopy ==
    /\ \E m \in copies : copies' = copies \ {m} /\ mailbox' = PutMessage(m)
    /\ UNCHANGED <<senderVars, onWay, readerVars, faultVars>>

\* The server takes the message out of the mailbox before it answers.
GetMessage ==
    /\ mailbox # <<>> /\ Len(onWay) < MaxOutstanding
    /\ mailbox' = Tail(mailbox)
    /\ \/ Delivered /\ onWay' = Append(onWay, Head(mailbox))
       \/ Lost(Head(mailbox)) /\ UNCHANGED onWay
    /\ UNCHANGED <<senderVars, copies, readerVars>>

\* fopen of a name that is not in the map leaves an empty file.
Opened(f) == IF TransferFdMap[f] = NotOpen THEN <<>> ELSE TransferFdMap[f]

\* Mutant: the chunk goes to whichever file is open.
WriteToOpen(m) ==
    LET open == {f \in Names : TransferFdMap[f] # NotOpen} IN
    LET f == IF open = {} THEN m.name ELSE CHOOSE g \in open : TRUE IN
    TransferFdMap' = [TransferFdMap EXCEPT ![f] = Append(Opened(f), m)]
WriteChunk(m) ==
    TransferFdMap' = [TransferFdMap EXCEPT ![m.name] = Append(Opened(m.name), m)]

Show(m) ==
    /\ IF m.seq = EOF
       THEN /\ received' = received \cup {[end |-> m.send, content |-> Opened(m.name)]}
            /\ TransferFdMap' = [TransferFdMap EXCEPT ![m.name] = NotOpen]
       ELSE WriteChunk(m) /\ UNCHANGED received
    /\ UNCHANGED taken

Receive ==
    /\ \/ onWay # <<>> /\ Delivered /\ Show(Head(onWay)) /\ onWay' = Tail(onWay)
       \/ /\ Len(onWay) > 1 /\ Misplaced
          /\ Show(onWay[2]) /\ onWay' = RemoveAt(onWay, 2)
    /\ UNCHANGED <<senderVars, copies, mailbox>>

\* The PUT of a line of the reader's own, or the calls of the screens he goes to with
\* @quit, read the first answer there is and look at no chunk in it. (One that overtakes
\* another and is read there leaves what a lost one leaves.)
Swallow ==
    /\ onWay # <<>> /\ onWay' = Tail(onWay)
    /\ taken' = taken \cup {Head(onWay).send}
    /\ NeverShown(Head(onWay))
    /\ UNCHANGED <<senderVars, copies, mailbox, TransferFdMap, received, misplaced, faults>>

\* The window crashes, or the user ends the client, and starts it again: what is in open
\* files is truncated when they are opened the next time. Answers on the way are gone, as
\* with Swallow.
InOpenFiles == UNION {{TransferFdMap[f][k].send : k \in DOMAIN TransferFdMap[f]} :
                          f \in {g \in Names : TransferFdMap[g] # NotOpen}}
Restart ==
    /\ onWay = <<>>
    /\ TransferFdMap' = [f \in Names |-> NotOpen]
    /\ taken' = taken \cup InOpenFiles
    /\ UNCHANGED <<senderVars, copies, mailbox, onWay, received, faultVars>>

FileTransferNext ==
    \/ \E s \in Senders : (\E f \in Names : StartSend(s, f)) \/ SendChunk(s)
    \/ LateCopy
    \/ GetMessage
    \/ Receive
    \/ Swallow
    \/ Restart

FileTransferSpec == InitFileTransfer /\ [][FileTransferNext]_fileVars

-----------------------------------------------------------------------------
(* Properties.                                                               *)

\* All chunks of one send, in order, and nothing else.
Whole(content) ==
    /\ Len(content) = Chunks
    /\ \A k \in 1 .. Chunks : content[k].seq = k /\ content[k].send = content[1].send

\* The sends that have a part in a file that was closed.
Sends(r) == {r.end} \cup {r.content[k].send : k \in DOMAIN r.content}

\* Files are told apart by their name only (client/Message.cpp:384): while the
\* transport does not fail, a file that is closed is one whole send, however the
\* sends of several names are mixed in the mailbox. Two exceptions: the send that closed
\* it overlapped with another one of that name; or the reader himself dropped a chunk
\* of a send that is in it, by a line of his own, by leaving the window or by a restart.
\* The next send of the name that he leaves alone is whole again.
ReceivedIsWhole ==
    faults = 0 => \A r \in received :
        Whole(r.content) \/ r.end \in overlapped \/ Sends(r) \cap taken # {}

\* What losses, dropped answers, and requests executed twice in a row, can do: chunks may
\* be missing or there twice, but those of one send are in order, and a closed file has
\* chunks of an earlier send only if that send's end was lost, or it overlapped.
OnlyLostEndsMix ==
    ~misplaced =>
        \A r \in received : \A j \in 1 .. Len(r.content) :
            LET m == r.content[j] IN
            /\ m.send \in {r.end} \cup endLost \cup overlapped
            /\ \A k \in 1 .. j : r.content[k].send = m.send => r.content[k].seq <= m.seq
=============================================================================
