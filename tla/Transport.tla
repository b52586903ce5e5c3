------------------------------ MODULE Transport ------------------------------
(***************************************************************************)
(* One client and the server over UDP: utils::ClientSendAndRead in         *)
(* Utils.cpp, called by every screen of the client, and the receive loop   *)
(* of server/Main.cpp.  A call writes one datagram, waits in select at     *)
(* most RESEND_THRESHOLD_NUM times and runs the callback.  Datagrams can   *)
(* be lost, duplicated, reordered and late; what is in the socket buffer   *)
(* and what is still on its way are not told apart, as select may time out *)
(* just before a datagram arrives.  Payloads are abstracted to the number  *)
(* of the call they belong to, which the datagrams themselves do not carry.*)
(***************************************************************************)
EXTENDS Naturals, Sequences

CONSTANTS
    RESEND_THRESHOLD_NUM,
    MaxCalls,       \* bound: calls of ClientSendAndRead
    MaxCopies       \* bound: copies of one datagram on the way at a time

ASSUME TransportAssumption ==
    /\ RESEND_THRESHOLD_NUM \in Nat \ {0}
    /\ MaxCalls \in Nat /\ MaxCopies \in Nat \ {0}

Calls == 1 .. MaxCalls

\* What a callback is called with: an answer, -ETIMEDOUT, or another error.
Result == [kind : {"answer", "timeout", "error"}, of : 0 .. MaxCalls]

VARIABLES
    call,       \* number of the current or last call
    waiting,    \* ClientSendAndRead has not returned
    counter,    \* selects that found nothing in the current call
    requests,   \* call -> copies of its request on the way
    answers,    \* call -> copies of answers to its request on the way
    executed,   \* history: call -> how often a handler ran for it
    duplicated, \* history: the calls of which the network copied a datagram
    results     \* history: call -> what its callback was called with, in order

clientVars == <<call, waiting, counter, results>>
networkVars == <<requests, answers, duplicated>>
vars == <<clientVars, networkVars, executed>>

TransportTypeOK ==
    /\ call \in 0 .. MaxCalls
    /\ waiting \in BOOLEAN
    /\ counter \in 0 .. RESEND_THRESHOLD_NUM
    /\ requests \in [Calls -> 0 .. MaxCopies]
    /\ answers \in [Calls -> Nat]
    /\ executed \in [Calls -> Nat]
    /\ duplicated \subseteq Calls
    /\ results \in [Calls -> Seq(Result)]

InitTransport ==
    /\ call = 0 /\ waiting = FALSE /\ counter = 0
    /\ requests = [n \in Calls |-> 0]
    /\ answers = [n \in Calls |-> 0]
    /\ executed = [n \in Calls |-> 0]
    /\ duplicated = {}
    /\ results = [n \in Calls |-> <<>>]

Put(bag, n) == [bag EXCEPT ![n] = @ + 1]
Take(bag, n) == [bag EXCEPT ![n] = @ - 1]

-----------------------------------------------------------------------------
(* ClientSendAndRead. The client is one thread: it does nothing else while   *)
(* it waits, and the screens decide when the next call is made.              *)

Write ==
    /\ ~waiting /\ call < MaxCalls
    /\ call' = call + 1
    /\ waiting' = TRUE
    /\ counter' = 0
    /\ requests' = Put(requests, call + 1)
    /\ UNCHANGED <<answers, duplicated, executed, results>>

WriteFails ==
    /\ ~waiting /\ call < MaxCalls
    /\ call' = call + 1
    /\ results' = [results EXCEPT ![call + 1] = Append(@, [kind |-> "error", of |-> 0])]
    /\ UNCHANGED <<waiting, counter, networkVars, executed>>

\* The callback runs and the function returns.
\* Mutant CallbackAndGoOn: the return is missing.
CallbackAndGoOn(kind, n) ==
    /\ results' = [results EXCEPT ![call] = Append(@, [kind |-> kind, of |-> n])]
    /\ UNCHANGED <<call, waiting, counter>>

Callback(kind, n) ==
    /\ results' = [results EXCEPT ![call] = Append(@, [kind |-> kind, of |-> n])]
    /\ waiting' = FALSE
    /\ UNCHANGED <<call, counter>>

InLoop == waiting /\ counter < RESEND_THRESHOLD_NUM

\* select finds nothing within RESEND_TIMEOUT_US, or is interrupted: the loop goes
\* on either way, and the request is not written again.
\* Mutant TimeoutUncounted: the counter is not increased.
\* Mutant TimeoutResends: the request is written again.
TimeoutUncounted == InLoop /\ UNCHANGED vars

TimeoutResends ==
    /\ InLoop
    /\ counter' = counter + 1
    /\ requests[call] < MaxCopies
    /\ requests' = Put(requests, call)
    /\ UNCHANGED <<call, waiting, answers, duplicated, executed, results>>

Timeout ==
    /\ InLoop
    /\ counter' = counter + 1
    /\ UNCHANGED <<call, waiting, results, networkVars, executed>>

\* Mutant TakeNothing: the datagram read stays in the socket.
TakeNothing(bag, n) == bag

TakeRead(bag, n) == Take(bag, n)

\* Whatever datagram comes first is the answer.
Read(n) ==
    /\ InLoop
    /\ answers[n] > 0
    /\ answers' = TakeRead(answers, n)
    /\ Callback("answer", n)
    /\ UNCHANGED <<requests, duplicated, executed>>

\* select fails with anything but EINTR, or read does.
Abort == InLoop /\ Callback("error", 0) /\ UNCHANGED <<networkVars, executed>>

GiveUp ==
    /\ waiting /\ counter = RESEND_THRESHOLD_NUM
    /\ Callback("timeout", 0)
    /\ UNCHANGED <<networkVars, executed>>

\* What the loop does as long as no system call fails.
Loop == Timeout \/ (\E n \in Calls : Read(n)) \/ GiveUp

-----------------------------------------------------------------------------
(* The server: one datagram at a time, and at most one answer to each.       *)

Serve(n) ==
    /\ requests[n] > 0
    /\ requests' = Take(requests, n)
    /\ executed' = Put(executed, n)
    /\ answers' = Put(answers, n)
    /\ UNCHANGED <<clientVars, duplicated>>

\* A packet that the verifier refuses, or a path without a handler: no answer.
\* To the client this looks the same as a lost request.
Ignore(n) ==
    /\ requests[n] > 0
    /\ requests' = Take(requests, n)
    /\ UNCHANGED <<clientVars, answers, duplicated, executed>>

-----------------------------------------------------------------------------
(* The network.                                                            *)

LoseAnswer(n) ==
    /\ answers[n] > 0
    /\ answers' = Take(answers, n)
    /\ UNCHANGED <<clientVars, requests, duplicated, executed>>

DuplicateRequest(n) ==
    /\ requests[n] \in 1 .. MaxCopies - 1
    /\ n \notin duplicated
    /\ requests' = Put(requests, n)
    /\ duplicated' = duplicated \cup {n}
    /\ UNCHANGED <<clientVars, answers, executed>>

DuplicateAnswer(n) ==
    /\ answers[n] \in 1 .. MaxCopies - 1
    /\ n \notin duplicated
    /\ answers' = Put(answers, n)
    /\ duplicated' = duplicated \cup {n}
    /\ UNCHANGED <<clientVars, requests, executed>>

Network(n) == LoseAnswer(n) \/ DuplicateRequest(n) \/ DuplicateAnswer(n)

TransportNext ==
    \/ Write
    \/ WriteFails
    \/ Loop
    \/ Abort
    \/ \E n \in Calls : Serve(n) \/ Ignore(n) \/ Network(n)

\* The client process is scheduled, and each select ends within its timeout, with
\* a datagram or without. Nothing is promised of the server, the network or the
\* user, nor that a system call ever fails.
TransportSpec == InitTransport /\ [][TransportNext]_vars /\ WF_vars(Loop)

-----------------------------------------------------------------------------
(* Properties.                                                             *)

\* A screen's callback runs exactly once per call of ClientSendAndRead, on
\* whichever of its five ways out, and never after the function has returned:
\* the callbacks capture the caller's locals by reference.
CallbackOnce ==
    \A n \in Calls :
        Len(results[n]) = IF n < call \/ (n = call /\ ~waiting) THEN 1 ELSE 0

\* Neither timeouts nor failures make a handler run twice for one call: only the
\* network can. Putting a message, liking a post and asking a friend depend on it,
\* as no handler recognizes a repeated request.
RunsAtMostOnce ==
    \A n \in Calls : executed[n] > 1 => n \in duplicated

\* The answer of an older call reaches a callback only if an older call has gone
\* wrong before: it ended without an answer, or a datagram of it was copied. As
\* long as nothing goes wrong every answer belongs to its call, though nothing in
\* the packet says so.
Confused(n) == results[n] # <<>> /\ results[n][1].kind = "answer" /\ results[n][1].of # n

OwnAnswerUntilFailure ==
    \A n \in Calls : Confused(n) =>
        /\ results[n][1].of < n
        /\ \E m \in 1 .. n - 1 : m \in duplicated \/ results[m][1].kind # "answer"

\* Every call returns, whatever the server and the network do (Utils.cpp:91-135).
CallEnds == waiting ~> ~waiting
=============================================================================
