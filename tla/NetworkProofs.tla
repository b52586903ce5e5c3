---------------------------- MODULE NetworkProofs ----------------------------
(***************************************************************************)
(* What holds of the client whatever the network does.                     *)
(*                                                                         *)
(* Transport, for every number of calls, every threshold and every number  *)
(* of copies: the callback runs once per call, a handler runs twice for a  *)
(* call only if the network copied its datagram, and a callback gets its   *)
(* own answer until something fails.                                       *)
(*                                                                         *)
(* FileTransfer, for every number of senders, names, chunks and faults: a  *)
(* file is whole when nothing fails, and holds no more than it should when *)
(* chunks are lost or put twice.                                           *)
(***************************************************************************)
EXTENDS Transport, FileTransfer, SequenceTheorems, TLAPS

\* A call that has not been made has left no trace, and the copies of a request
\* on the way and the runs of its handler are together one, unless the network
\* made more.
OneRequestPerCall ==
    \A n \in Calls :
        /\ n > call => requests[n] = 0 /\ executed[n] = 0
        /\ n \notin duplicated => requests[n] + executed[n] <= 1

TransportIInv == TransportTypeOK /\ CallbackOnce /\ OneRequestPerCall

LEMMA TransportInitIInv == InitTransport => TransportIInv
<1> SUFFICES ASSUME InitTransport PROVE TransportIInv
  OBVIOUS
<1> USE DEF InitTransport, Calls
<1>0. <<>> \in Seq(Result) /\ Len(<<>>) = 0
  OBVIOUS
<1>1. TransportTypeOK
  <2>1. results \in [Calls -> Seq(Result)]
    BY <1>0
  <2>2. waiting \in BOOLEAN
    OBVIOUS
  <2>3. QED
    BY <2>1, <2>2, TransportAssumption DEF TransportTypeOK
<1>2. CallbackOnce
  BY <1>0 DEF CallbackOnce
<1>3. OneRequestPerCall
  BY DEF OneRequestPerCall
<1>4. QED
  BY <1>1, <1>2, <1>3 DEF TransportIInv

\* What appending one result to the callback results of the current call does.
LEMMA CallbackKeeps ==
    ASSUME TransportIInv, waiting,
           NEW kind \in {"answer", "timeout", "error"}, NEW m \in 0 .. MaxCalls,
           Callback(kind, m)
    PROVE  /\ call' \in 0 .. MaxCalls /\ waiting' \in BOOLEAN
           /\ counter' \in 0 .. RESEND_THRESHOLD_NUM
           /\ results' \in [Calls -> Seq(Result)]
           /\ CallbackOnce'
<1> DEFINE r == [kind |-> kind, of |-> m]
<1>1. r \in Result
  BY DEF Result
<1>2. /\ results' = [results EXCEPT ![call] = Append(@, r)]
      /\ waiting' = FALSE
      /\ UNCHANGED <<call, counter>>
  BY DEF Callback
<1> HIDE DEF r
<1>3. TransportTypeOK /\ CallbackOnce
  BY DEF TransportIInv
<1>4. \A n \in Calls : Append(results[n], r) \in Seq(Result)
                       /\ Len(Append(results[n], r)) = Len(results[n]) + 1
  BY <1>1, <1>3 DEF TransportTypeOK
<1>5. results' \in [Calls -> Seq(Result)]
  BY <1>2, <1>3, <1>4 DEF TransportTypeOK
<1>6. ASSUME NEW n \in Calls
      PROVE  Len(results'[n]) = IF n < call' \/ (n = call' /\ ~waiting') THEN 1 ELSE 0
  <2>0. n \in Nat /\ call \in Nat
    BY <1>3, TransportAssumption DEF TransportTypeOK, Calls
  <2>1. CASE n = call
    <3>1. Len(results[n]) = 0
      BY <1>3, <2>0, <2>1 DEF CallbackOnce
    <3>2. results'[n] = Append(results[n], r)
      BY <1>2, <1>3, <2>1 DEF TransportTypeOK
    <3>3. Len(results'[n]) = 1
      BY <1>4, <3>1, <3>2
    <3>4. QED
      BY <1>2, <2>1, <3>3
  <2>2. CASE n # call
    <3>1. results'[n] = results[n]
      BY <1>2, <1>3, <2>2 DEF TransportTypeOK
    <3>2. QED
      BY <1>2, <1>3, <2>2, <3>1 DEF CallbackOnce
  <2>3. QED
    BY <2>1, <2>2
<1>7. QED
  BY <1>2, <1>3, <1>5, <1>6 DEF TransportTypeOK, CallbackOnce

LEMMA WriteKeeps == TransportIInv /\ Write => TransportIInv'
<1> SUFFICES ASSUME TransportIInv, Write PROVE TransportIInv'
  OBVIOUS
<1> USE TransportAssumption DEF Write, Put, Calls
<1>0. TransportTypeOK /\ CallbackOnce /\ OneRequestPerCall
  BY DEF TransportIInv
<1>1. /\ TransportTypeOK /\ CallbackOnce /\ OneRequestPerCall
      /\ requests[call + 1] = 0 /\ executed[call + 1] = 0
  <2>1. call \in Nat /\ call + 1 \in 1 .. MaxCalls /\ call + 1 > call
    BY <1>0 DEF TransportTypeOK
  <2>2. QED
    BY <1>0, <2>1 DEF OneRequestPerCall
<1>2. TransportTypeOK'
  <2>1. requests' \in [Calls -> 0 .. MaxCopies]
    BY <1>1 DEF TransportTypeOK
  <2>2. call' \in 0 .. MaxCalls /\ waiting' \in BOOLEAN /\ counter' \in 0 .. RESEND_THRESHOLD_NUM
    BY <1>1 DEF TransportTypeOK
  <2>3. QED
    BY <1>1, <2>1, <2>2 DEF TransportTypeOK
<1>3. CallbackOnce'
  <2>0. ~waiting /\ call \in Nat /\ (\A n \in 1 .. MaxCalls : n \in Nat)
    BY <1>1 DEF TransportTypeOK
  <2>1. \A n \in Calls : Len(results[n]) = IF n < call + 1 THEN 1 ELSE 0
    <3>1. \A n \in 1 .. MaxCalls : n < call + 1 <=> n < call \/ n = call
      BY <2>0
    <3>2. QED
      BY <1>1, <2>0, <3>1 DEF CallbackOnce
  <2>2. call' = call + 1 /\ waiting' /\ results' = results
    OBVIOUS
  <2>3. QED
    BY <2>1, <2>2 DEF CallbackOnce
<1>4. OneRequestPerCall'
  BY <1>1 DEF OneRequestPerCall, TransportTypeOK
<1>5. QED
  BY <1>2, <1>3, <1>4 DEF TransportIInv

LEMMA WriteFailsKeeps == TransportIInv /\ WriteFails => TransportIInv'
<1> SUFFICES ASSUME TransportIInv, WriteFails PROVE TransportIInv'
  OBVIOUS
<1> DEFINE r == [kind |-> "error", of |-> 0]
<1>1. r \in Result
  BY TransportAssumption DEF Result
<1>2. /\ ~waiting /\ call < MaxCalls
      /\ call' = call + 1
      /\ results' = [results EXCEPT ![call + 1] = Append(@, r)]
      /\ UNCHANGED <<waiting, counter, networkVars, executed>>
  BY DEF WriteFails
<1> HIDE DEF r
<1>3. TransportTypeOK /\ CallbackOnce /\ OneRequestPerCall
  BY DEF TransportIInv
<1>4. \A n \in Calls : Append(results[n], r) \in Seq(Result)
                       /\ Len(Append(results[n], r)) = Len(results[n]) + 1
  BY <1>1, <1>3 DEF TransportTypeOK
<1>5. TransportTypeOK'
  <2>1. results' \in [Calls -> Seq(Result)]
    BY <1>2, <1>3, <1>4 DEF TransportTypeOK
  <2>2. call' \in 0 .. MaxCalls
    BY <1>2, <1>3, TransportAssumption DEF TransportTypeOK
  <2>3. QED
    BY <1>2, <1>3, <2>1, <2>2 DEF TransportTypeOK, networkVars
<1>6. ASSUME NEW n \in Calls
      PROVE  Len(results'[n]) = IF n < call' \/ (n = call' /\ ~waiting') THEN 1 ELSE 0
  <2>0. n \in Nat /\ call \in Nat
    BY <1>3, TransportAssumption DEF TransportTypeOK, Calls
  <2>1. CASE n = call + 1
    <3>1. Len(results[n]) = 0
      BY <1>3, <2>0, <2>1 DEF CallbackOnce
    <3>2. results'[n] = Append(results[n], r)
      BY <1>2, <1>3, <2>1 DEF TransportTypeOK
    <3>3. Len(results'[n]) = 1
      BY <1>4, <3>1, <3>2
    <3>4. QED
      BY <1>2, <2>1, <3>3
  <2>2. CASE n # call + 1
    <3>1. results'[n] = results[n]
      BY <1>2, <1>3, <2>2 DEF TransportTypeOK
    <3>2. n < call' <=> n < call \/ n = call
      BY <1>2, <2>0
    <3>3. Len(results[n]) = IF n < call \/ n = call THEN 1 ELSE 0
      BY <1>2, <1>3 DEF CallbackOnce
    <3>4. QED
      BY <1>2, <2>2, <3>1, <3>2, <3>3
  <2>3. QED
    BY <2>1, <2>2
<1>7. OneRequestPerCall'
  BY SMTT(30), <1>2, <1>3, TransportAssumption DEF OneRequestPerCall, TransportTypeOK, networkVars, Calls
<1>8. QED
  BY <1>5, <1>6, <1>7 DEF TransportIInv, CallbackOnce

\* The three ways out of the loop that run the callback.
LEMMA ReturnKeeps ==
    TransportIInv /\ ((\E n \in Calls : Read(n)) \/ Abort \/ GiveUp) => TransportIInv'
<1> SUFFICES ASSUME TransportIInv,
                    (\E n \in Calls : Read(n)) \/ Abort \/ GiveUp
             PROVE  TransportIInv'
  OBVIOUS
<1>1. \E kind \in {"answer", "timeout", "error"}, m \in 0 .. MaxCalls :
         waiting /\ Callback(kind, m)
  <2>1. CASE \E n \in Calls : Read(n)
    <3>1. PICK n \in Calls : Read(n)
      BY <2>1
    <3>2. n \in 0 .. MaxCalls
      BY TransportAssumption DEF Calls
    <3>3. QED
      BY <3>1, <3>2 DEF Read, InLoop
  <2>2. CASE Abort
    BY <2>2, TransportAssumption DEF Abort, InLoop
  <2>3. CASE GiveUp
    BY <2>3, TransportAssumption DEF GiveUp
  <2>4. QED
    BY <2>1, <2>2, <2>3
<1>2. /\ answers' \in [Calls -> Nat]
      /\ UNCHANGED <<requests, duplicated, executed>>
  BY DEF Read, Abort, GiveUp, TakeRead, Take, TransportIInv, TransportTypeOK, networkVars
<1>3. UNCHANGED call
  BY DEF Read, Abort, GiveUp, Callback
<1>4. TransportTypeOK' /\ CallbackOnce'
  BY <1>1, <1>2, CallbackKeeps DEF TransportIInv, TransportTypeOK
<1>5. OneRequestPerCall'
  BY <1>2, <1>3 DEF TransportIInv, OneRequestPerCall
<1>6. QED
  BY <1>4, <1>5 DEF TransportIInv

LEMMA TimeoutKeeps == TransportIInv /\ Timeout => TransportIInv'
BY TransportAssumption DEF TransportIInv, Timeout, InLoop, networkVars,
   TransportTypeOK, CallbackOnce, OneRequestPerCall

\* The server's and the network's steps leave the client alone.
LEMMA ServerOrNetworkKeeps ==
    ASSUME TransportIInv, NEW n \in Calls, Serve(n) \/ Ignore(n) \/ Network(n)
    PROVE  TransportIInv'
<1>1. TransportTypeOK /\ CallbackOnce /\ OneRequestPerCall
  BY DEF TransportIInv
<1>2. UNCHANGED clientVars
  BY DEF Serve, Ignore, Network, LoseAnswer, DuplicateRequest, DuplicateAnswer
<1>3. CallbackOnce'
  BY <1>1, <1>2 DEF CallbackOnce, clientVars
<1> USE <1>1, <1>2, TransportAssumption
    DEF TransportIInv, TransportTypeOK, OneRequestPerCall, Put, Take, clientVars
<1>4. CASE Serve(n)
  BY SMTT(30), <1>3, <1>4 DEF Serve
<1>5. CASE Ignore(n)
  BY <1>3, <1>5 DEF Ignore
<1>6. CASE LoseAnswer(n)
  BY <1>3, <1>6 DEF LoseAnswer
<1>7. CASE DuplicateRequest(n)
  BY <1>3, <1>7 DEF DuplicateRequest
<1>8. CASE DuplicateAnswer(n)
  BY <1>3, <1>8 DEF DuplicateAnswer
<1>9. QED
  BY <1>4, <1>5, <1>6, <1>7, <1>8 DEF Network

LEMMA TransportStepIInv == TransportIInv /\ [TransportNext]_vars => TransportIInv'
<1> SUFFICES ASSUME TransportIInv, [TransportNext]_vars PROVE TransportIInv'
  OBVIOUS
<1>1. CASE Write
  BY <1>1, WriteKeeps
<1>2. CASE WriteFails
  BY <1>2, WriteFailsKeeps
<1>3. CASE Loop \/ Abort
  BY <1>3, TimeoutKeeps, ReturnKeeps DEF Loop
<1>4. CASE \E n \in Calls : Serve(n) \/ Ignore(n) \/ Network(n)
  BY <1>4, ServerOrNetworkKeeps
<1>5. CASE UNCHANGED vars
  BY <1>5 DEF vars, clientVars, networkVars, TransportIInv, TransportTypeOK,
     CallbackOnce, OneRequestPerCall
<1>6. QED
  BY <1>1, <1>2, <1>3, <1>4, <1>5 DEF TransportNext

LEMMA TransportIInvAlways == TransportSpec => []TransportIInv
<1>1. QED
  BY TransportInitIInv, TransportStepIInv, PTL DEF TransportSpec

\* ClientSendAndRead (Utils.cpp:72) runs its callback exactly once per call, for
\* any number of calls and any threshold, whatever the network does.
THEOREM CallbackOnceAlways == TransportSpec => []CallbackOnce
<1>1. TransportIInv => CallbackOnce
  BY DEF TransportIInv
<1>2. QED
  BY <1>1, TransportIInvAlways, PTL

\* A call of the client makes its handler run more than once only if the network
\* copied a datagram of that call: timeouts and errors alone never do.
THEOREM RunsAtMostOnceAlways == TransportSpec => []RunsAtMostOnce
<1>1. TransportIInv => RunsAtMostOnce
  BY DEF TransportIInv, OneRequestPerCall, RunsAtMostOnce, TransportTypeOK
<1>2. QED
  BY <1>1, TransportIInvAlways, PTL

\* The variables of the call keep their types (Utils.cpp:72-136).
THEOREM TransportTypesAlways == TransportSpec => []TransportTypeOK
<1>1. TransportIInv => TransportTypeOK
  BY DEF TransportIInv
<1>2. QED
  BY <1>1, TransportIInvAlways, PTL

-----------------------------------------------------------------------------
(* Whose answer a callback gets.                                           *)

Answered(n) == results[n] # <<>> /\ results[n][1].kind = "answer" /\ n \notin duplicated

\* Of a call that was not made nothing is on the way, and of one of which nothing
\* was copied at most one datagram is, the request or the answer.
OneOnTheWay ==
    \A n \in Calls :
        /\ n > call => requests[n] = 0 /\ answers[n] = 0
        /\ n \notin duplicated => requests[n] + answers[n] <= 1

\* As long as every call was answered and nothing was copied nothing is left over.
NothingLeftOver ==
    \A n \in Calls : (\A m \in 1 .. n : Answered(m)) => requests[n] = 0 /\ answers[n] = 0

AnswerIInv == TransportIInv /\ OneOnTheWay /\ NothingLeftOver /\ OwnAnswerUntilFailure

LEMMA AnswerInit == InitTransport => AnswerIInv
<1> SUFFICES ASSUME InitTransport PROVE AnswerIInv
  OBVIOUS
<1>1. TransportIInv
  BY TransportInitIInv
<1>2. \A n \in Calls : requests[n] = 0 /\ answers[n] = 0 /\ results[n] = <<>>
  BY DEF InitTransport
<1>3. QED
  BY <1>1, <1>2 DEF AnswerIInv, OneOnTheWay, NothingLeftOver, OwnAnswerUntilFailure, Confused

\* A call that has not returned has no result.
LEMMA NoResultYet ==
    ASSUME TransportIInv, NEW n \in Calls, n > call \/ (n = call /\ waiting)
    PROVE  results[n] = <<>>
<1>1. call \in Nat /\ n \in Nat /\ results[n] \in Seq(Result)
  BY TransportAssumption DEF TransportIInv, TransportTypeOK, Calls
<1>2. Len(results[n]) = 0
  BY <1>1 DEF TransportIInv, CallbackOnce
<1>3. QED
  BY <1>1, <1>2

\* The first result of the current call, when it returns; the others stay.
LEMMA FirstResult ==
    ASSUME TransportIInv, NEW c \in Calls, results[c] = <<>>, NEW r \in Result,
           results' = [results EXCEPT ![c] = Append(@, r)]
    PROVE  /\ results'[c] # <<>> /\ results'[c][1] = r
           /\ \A n \in Calls \ {c} : results'[n] = results[n]
BY DEF TransportIInv, TransportTypeOK

\* A step that gives no call a result and puts nothing on the way by itself.
LEMMA NoResultKeeps ==
    ASSUME AnswerIInv, TransportIInv', UNCHANGED results, OneOnTheWay',
           duplicated \subseteq duplicated',
           \A n \in Calls : requests'[n] > 0 \/ answers'[n] > 0 =>
               requests[n] > 0 \/ answers[n] > 0 \/ results[n] = <<>>
    PROVE  AnswerIInv'
<1>0. /\ requests \in [Calls -> Nat] /\ answers \in [Calls -> Nat]
      /\ requests' \in [Calls -> Nat] /\ answers' \in [Calls -> Nat]
  BY TransportAssumption DEF AnswerIInv, TransportIInv, TransportTypeOK
<1>1. \A m : Answered(m)' => Answered(m)
  BY DEF Answered
<1>2. NothingLeftOver'
  <2> SUFFICES ASSUME NEW n \in Calls, \A m \in 1 .. n : Answered(m)'
               PROVE  requests'[n] = 0 /\ answers'[n] = 0
    BY DEF NothingLeftOver
  <2>1. \A m \in 1 .. n : Answered(m)
    BY <1>1
  <2>2. requests[n] = 0 /\ answers[n] = 0
    BY <2>1 DEF AnswerIInv, NothingLeftOver
  <2>3. results[n] # <<>>
    BY <2>1 DEF Answered, Calls
  <2>4. ~ (requests'[n] > 0) /\ ~ (answers'[n] > 0)
    BY <2>2, <2>3
  <2>5. requests'[n] \in Nat /\ answers'[n] \in Nat
    BY <1>0
  <2>6. QED
    BY <2>4, <2>5
<1>3. OwnAnswerUntilFailure'
  BY DEF AnswerIInv, OwnAnswerUntilFailure, Confused
<1>4. QED
  BY <1>2, <1>3 DEF AnswerIInv

\* The current call reads the datagram of call k.
LEMMA ReadOwns ==
    ASSUME AnswerIInv, TransportIInv', NEW k \in Calls, Read(k)
    PROVE  AnswerIInv'
<1> DEFINE r == [kind |-> "answer", of |-> k]
<1>0. /\ TransportIInv /\ OneOnTheWay /\ NothingLeftOver /\ OwnAnswerUntilFailure
      /\ TransportTypeOK /\ CallbackOnce
  BY DEF AnswerIInv, TransportIInv
<1>1. /\ waiting /\ answers[k] > 0
      /\ answers' = [answers EXCEPT ![k] = @ - 1]
      /\ results' = [results EXCEPT ![call] = Append(@, r)]
      /\ UNCHANGED <<requests, duplicated, executed, call>>
  BY DEF Read, InLoop, TakeRead, Take, Callback
<1>2. k \in Nat /\ call \in Nat /\ k <= call /\ call \in Calls
  BY <1>0, <1>1, TransportAssumption DEF TransportTypeOK, OneOnTheWay, Calls
<1>3. /\ requests \in [Calls -> Nat] /\ answers \in [Calls -> Nat]
  BY <1>0, TransportAssumption DEF TransportTypeOK
<1>4. results[call] = <<>>
  BY <1>0, <1>1, <1>2, NoResultYet
<1>5. r \in Result /\ r.kind = "answer" /\ r.of = k
  BY DEF Result, Calls
<1> HIDE DEF r
<1>6. /\ results'[call] # <<>> /\ results'[call][1] = r
      /\ \A n \in Calls \ {call} : results'[n] = results[n]
  BY <1>0, <1>1, <1>2, <1>4, <1>5, FirstResult
<1>7. answers'[k] = answers[k] - 1 /\ \A n \in Calls \ {k} : answers'[n] = answers[n]
  BY <1>1, <1>3
<1>8. OneOnTheWay'
  BY <1>0, <1>1, <1>2, <1>3, <1>7 DEF OneOnTheWay
<1>9. ASSUME \A m \in 1 .. call - 1 : Answered(m) PROVE k = call
  <2> SUFFICES ASSUME k < call PROVE FALSE
    BY <1>2
  <2>1. \A m \in 1 .. k : Answered(m)
    BY <1>2, <1>9
  <2>2. QED
    BY <1>0, <1>1, <2>1 DEF NothingLeftOver
<1>10. NothingLeftOver'
  <2> SUFFICES ASSUME NEW n \in Calls, \A m \in 1 .. n : Answered(m)'
               PROVE  requests'[n] = 0 /\ answers'[n] = 0
    BY DEF NothingLeftOver
  <2>0. n \in Nat /\ n >= 1 /\ n \in 1 .. n /\ \A m \in 1 .. n : m \in Calls
    BY TransportAssumption DEF Calls
  <2>1. n <= call
    <3> SUFFICES ASSUME n > call PROVE FALSE
      BY <1>2, <2>0
    <3>1. results'[n] = results[n] /\ results[n] = <<>>
      BY <1>0, <1>2, <1>6, <2>0, NoResultYet
    <3>2. QED
      BY <2>0, <3>1 DEF Answered
  <2>2. CASE n < call
    <3>1. \A m \in 1 .. n : results'[m] = results[m] /\ Answered(m)
      BY <1>1, <1>2, <1>6, <2>0, <2>2 DEF Answered
    <3>2. requests[n] = 0 /\ answers[n] = 0
      BY <1>0, <3>1 DEF NothingLeftOver
    <3>3. QED
      BY <1>1, <1>7, <3>2
  <2>3. CASE n = call
    <3>1. \A m \in 1 .. call - 1 : Answered(m)
      BY <1>1, <1>2, <1>6, <2>0, <2>3 DEF Answered
    <3>2. k = call /\ call \notin duplicated
      BY <1>1, <1>9, <2>0, <2>3, <3>1 DEF Answered
    <3>3. QED
      BY <1>0, <1>1, <1>2, <1>3, <1>7, <2>3, <3>2 DEF OneOnTheWay
  <2>4. QED
    BY <1>2, <2>0, <2>1, <2>2, <2>3
<1>11. OwnAnswerUntilFailure'
  <2> SUFFICES ASSUME NEW n \in Calls, Confused(n)'
               PROVE  /\ results'[n][1].of < n
                      /\ \E m \in 1 .. n - 1 : m \in duplicated' \/ results'[m][1].kind # "answer"
    BY DEF OwnAnswerUntilFailure
  <2>0. n \in Nat /\ \A m \in 1 .. n - 1 : m \in Calls /\ m < n
    BY TransportAssumption DEF Calls
  <2>1. CASE n = call
    <3>1. k < call
      BY <1>2, <1>5, <1>6, <2>1 DEF Confused
    <3>2. PICK m \in 1 .. call - 1 : ~ Answered(m)
      BY <1>2, <1>9, <3>1
    <3>3. m \in Calls /\ m # call /\ results'[m] = results[m] /\ m < call
      BY <1>2, <1>6, <2>0, <2>1
    <3>4. results[m] # <<>>
      BY <1>0, <1>2, <3>3 DEF CallbackOnce
    <3>5. QED
      BY <1>1, <1>5, <1>6, <2>1, <3>1, <3>2, <3>3, <3>4 DEF Answered
  <2>2. CASE n # call
    <3>1. n < call
      BY <1>0, <1>2, <1>6, <2>0, <2>2, NoResultYet DEF Confused
    <3>2. Confused(n) /\ results'[n] = results[n]
      BY <1>6, <2>2 DEF Confused
    <3>3. \A m \in 1 .. n - 1 : results'[m] = results[m]
      BY <1>2, <1>6, <2>0, <3>1
    <3>4. QED
      BY <1>0, <1>1, <3>2, <3>3 DEF OwnAnswerUntilFailure
  <2>3. QED
    BY <2>1, <2>2
<1>12. QED
  BY <1>8, <1>10, <1>11 DEF AnswerIInv

\* Call c, the current or the next one, ends without an answer.
LEMMA FailureOwns ==
    ASSUME AnswerIInv, TransportIInv', NEW c \in Calls, results[c] = <<>>,
           NEW r \in Result, r.kind # "answer",
           results' = [results EXCEPT ![c] = Append(@, r)],
           call <= call', call' \in Nat,
           \A n \in Calls : n > c => results[n] = <<>>,
           UNCHANGED <<requests, answers, duplicated>>
    PROVE  AnswerIInv'
<1>0. /\ TransportIInv /\ OneOnTheWay /\ NothingLeftOver /\ OwnAnswerUntilFailure
      /\ call \in Nat
  BY TransportAssumption DEF AnswerIInv, TransportIInv, TransportTypeOK
<1>1. /\ results'[c] # <<>> /\ results'[c][1] = r
      /\ \A n \in Calls \ {c} : results'[n] = results[n]
  BY <1>0, FirstResult
<1>2. OneOnTheWay'
  BY <1>0, TransportAssumption DEF OneOnTheWay, Calls
<1>3. \A m \in Calls : Answered(m)' => Answered(m)
  BY <1>1 DEF Answered
<1>4. NothingLeftOver'
  <2> SUFFICES ASSUME NEW n \in Calls, \A m \in 1 .. n : Answered(m)'
               PROVE  requests[n] = 0 /\ answers[n] = 0
    BY DEF NothingLeftOver
  <2>1. \A m \in 1 .. n : Answered(m)
    BY <1>3, TransportAssumption DEF Calls
  <2>2. QED
    BY <1>0, <2>1 DEF NothingLeftOver
<1>5. OwnAnswerUntilFailure'
  <2> SUFFICES ASSUME NEW n \in Calls, Confused(n)'
               PROVE  /\ results'[n][1].of < n
                      /\ \E m \in 1 .. n - 1 : m \in duplicated' \/ results'[m][1].kind # "answer"
    BY DEF OwnAnswerUntilFailure
  <2>1. n # c /\ results'[n] = results[n] /\ Confused(n)
    BY <1>1 DEF Confused
  <2>2. n <= c /\ \A m \in 1 .. n - 1 : m \in Calls /\ m # c /\ results'[m] = results[m]
    BY <1>1, <2>1, TransportAssumption DEF Confused, Calls
  <2>3. QED
    BY <1>0, <2>1, <2>2 DEF OwnAnswerUntilFailure
<1>6. QED
  BY <1>2, <1>4, <1>5 DEF AnswerIInv

LEMMA AnswerStep == AnswerIInv /\ [TransportNext]_vars => AnswerIInv'
<1> SUFFICES ASSUME AnswerIInv, [TransportNext]_vars PROVE AnswerIInv'
  OBVIOUS
<1>0. TransportIInv /\ OneOnTheWay
  BY DEF AnswerIInv
<1>1. TransportIInv'
  BY <1>0, TransportStepIInv
<1>2. /\ requests \in [Calls -> Nat] /\ answers \in [Calls -> Nat]
      /\ call \in 0 .. MaxCalls /\ call \in Nat /\ duplicated \subseteq Calls
  BY <1>0, TransportAssumption DEF TransportIInv, TransportTypeOK
<1>3. CASE Write
  <2>1. /\ call + 1 \in Calls /\ call' = call + 1
        /\ requests' = [requests EXCEPT ![call + 1] = @ + 1]
        /\ UNCHANGED <<answers, duplicated, results>>
    BY <1>2, <1>3, TransportAssumption DEF Write, Put, Calls
  <2>2. results[call + 1] = <<>> /\ requests[call + 1] = 0 /\ answers[call + 1] = 0
    BY <1>0, <1>2, <2>1, NoResultYet DEF OneOnTheWay
  <2>3. OneOnTheWay'
    BY <1>0, <1>2, <2>1, <2>2, TransportAssumption DEF OneOnTheWay, Calls
  <2>4. QED
    BY <1>1, <1>2, <2>1, <2>2, <2>3, NoResultKeeps
<1>4. CASE WriteFails
  <2> DEFINE r == [kind |-> "error", of |-> 0]
  <2>1. /\ ~waiting /\ call + 1 \in Calls /\ call' = call + 1
        /\ results' = [results EXCEPT ![call + 1] = Append(@, r)]
        /\ UNCHANGED <<requests, answers, duplicated>>
    BY <1>2, <1>4, TransportAssumption DEF WriteFails, networkVars, Calls
  <2>2. r \in Result /\ r.kind # "answer"
    BY TransportAssumption DEF Result
  <2> HIDE DEF r
  <2>3. \A n \in Calls : n > call => results[n] = <<>>
    BY <1>0, NoResultYet
  <2>4. results[call + 1] = <<>> /\ \A n \in Calls : n > call + 1 => results[n] = <<>>
    BY <1>2, <2>1, <2>3, TransportAssumption DEF Calls
  <2>5. call <= call' /\ call' \in Nat
    BY <1>2, <2>1
  <2>6. QED
    BY <1>1, <2>1, <2>2, <2>4, <2>5, FailureOwns
<1>5. CASE Timeout \/ UNCHANGED vars
  <2>1. UNCHANGED <<call, requests, answers, duplicated, results>>
    BY <1>5 DEF Timeout, vars, clientVars, networkVars
  <2>2. OneOnTheWay'
    BY <1>0, <2>1 DEF OneOnTheWay
  <2>3. QED
    BY <1>1, <2>1, <2>2, NoResultKeeps
<1>6. CASE \E k \in Calls : Read(k)
  BY <1>1, <1>6, ReadOwns
<1>7. CASE Abort \/ GiveUp
  <2>1. PICK r \in Result : /\ r.kind # "answer" /\ waiting
                            /\ results' = [results EXCEPT ![call] = Append(@, r)]
                            /\ UNCHANGED <<call, requests, answers, duplicated>>
    <3>1. [kind |-> "error", of |-> 0] \in Result /\ [kind |-> "timeout", of |-> 0] \in Result
      BY TransportAssumption DEF Result
    <3>2. QED
      BY <1>7, <3>1 DEF Abort, GiveUp, InLoop, Callback, networkVars
  <2>2. CASE call \in Calls
    <3>1. results[call] = <<>>
      BY <1>0, <2>1, <2>2, NoResultYet
    <3>2. \A n \in Calls : n > call => results[n] = <<>>
      BY <1>0, NoResultYet
    <3>3. call <= call' /\ call' \in Nat
      BY <1>2, <2>1
    <3>4. QED
      BY <1>1, <2>1, <2>2, <3>1, <3>2, <3>3, FailureOwns
  <2>3. CASE call \notin Calls
    <3>1. results' = results
      BY <1>0, <2>1, <2>3 DEF TransportIInv, TransportTypeOK
    <3>2. OneOnTheWay'
      BY <1>0, <2>1 DEF OneOnTheWay
    <3>3. QED
      BY <1>1, <2>1, <3>1, <3>2, NoResultKeeps
  <2>4. QED
    BY <2>2, <2>3
<1>8. ASSUME NEW n \in Calls, Serve(n) \/ Ignore(n) \/ Network(n) PROVE AnswerIInv'
  <2>1. UNCHANGED <<call, results>> /\ duplicated \subseteq duplicated'
    BY <1>8 DEF Serve, Ignore, Network, LoseAnswer, DuplicateRequest, DuplicateAnswer, clientVars
  <2>2. \A m \in Calls \ {n} : requests'[m] = requests[m] /\ answers'[m] = answers[m]
                               /\ (m \in duplicated' <=> m \in duplicated)
    BY <1>2, <1>8 DEF Serve, Ignore, Network, LoseAnswer, DuplicateRequest, DuplicateAnswer,
       Put, Take
  <2>3. /\ requests[n] > 0 \/ answers[n] > 0
        /\ n \notin duplicated' => requests'[n] + answers'[n] <= requests[n] + answers[n]
    BY <1>2, <1>8 DEF Serve, Ignore, Network, LoseAnswer, DuplicateRequest, DuplicateAnswer,
       Put, Take
  <2>4. requests'[n] \in Nat /\ answers'[n] \in Nat
    BY <1>1, TransportAssumption DEF TransportIInv, TransportTypeOK
  <2>5. OneOnTheWay'
    BY <1>0, <1>2, <2>1, <2>2, <2>3, <2>4 DEF OneOnTheWay
  <2>6. QED
    BY <1>1, <1>2, <2>1, <2>2, <2>3, <2>5, NoResultKeeps
<1>9. QED
  BY <1>3, <1>4, <1>5, <1>6, <1>7, <1>8 DEF TransportNext, Loop

\* A callback gets another call's answer only after a call before it has failed
\* or a datagram of one was copied (Utils.cpp:113-127).
THEOREM OwnAnswerAlways == TransportSpec => []OwnAnswerUntilFailure
<1>1. AnswerIInv => OwnAnswerUntilFailure
  BY DEF AnswerIInv
<1>2. QED
  BY <1>1, AnswerInit, AnswerStep, PTL DEF TransportSpec

-----------------------------------------------------------------------------
(* The file transfer.                                                      *)

\* What is on the way to the reader, the oldest first: the answers to his GETs, then
\* what his mailbox holds.
Pipe == onWay \o mailbox

\* The place of a chunk in its send.
Num(m) == IF m.seq = EOF THEN Chunks + 1 ELSE m.seq

\* A chunk that is on the way, as the transport's copy or in the channel, or in a file.
IsKnown(x) ==
    \/ \E i \in 1 .. Len(Pipe) : x = Pipe[i]
    \/ x \in copies
    \/ \E f \in Names : \E k \in 1 .. Len(Opened(f)) : x = Opened(f)[k]

\* Faults leave their mark, and a send knows its number.
Counted ==
    /\ copies # {} => misplaced
    /\ misplaced => faults > 0
    /\ \A s \in Senders : Sending(s) => nth[s] > 0

\* Whoever sends a name that another is sending has been counted among the overlapped.
NoSharing ==
    \A s, o \in Senders :
        s # o /\ Sending(s) /\ Sending(o) /\ file_name[s] = file_name[o] =>
            ThisSend(s) \in overlapped

\* A chunk is of a send that has begun, of the name that was sent, and has been put before.
ChunksAreSent ==
    /\ \A x \in FileChunk : IsKnown(x) =>
          /\ x.send.nth <= nth[x.send.from]
          /\ x.send = ThisSend(x.send.from) =>
                /\ x.name = file_name[x.send.from]
                /\ Sending(x.send.from) => Num(x) < seq_counter[x.send.from]
    /\ \A x, y \in FileChunk : IsKnown(x) /\ IsKnown(y) /\ x.send = y.send => x.name = y.name

\* The reader has in a file only what belongs there, and an end closes it.
FilesHoldTheirs ==
    \A f \in Names : \A k \in 1 .. Len(Opened(f)) :
        Opened(f)[k].name = f /\ Opened(f)[k].seq # EOF

FileBase == FileTypeOK /\ Counted /\ NoSharing /\ ChunksAreSent /\ FilesHoldTheirs

-----------------------------------------------------------------------------
(* What the steps do to the pipe.                                          *)

\* Chunk m is put behind it n times, or the chunk at place p leaves it.
GrownBy(m, n) ==
    /\ Len(Pipe') = Len(Pipe) + n
    /\ \A i \in 1 .. Len(Pipe) : Pipe'[i] = Pipe[i]
    /\ \A i \in Len(Pipe) + 1 .. Len(Pipe) + n : Pipe'[i] = m

Removed(p) ==
    /\ p \in 1 .. Len(Pipe)
    /\ Len(Pipe') = Len(Pipe) - 1
    /\ \A i \in 1 .. p - 1 : Pipe'[i] = Pipe[i]
    /\ \A i \in p .. Len(Pipe) - 1 : Pipe'[i] = Pipe[i + 1]

\* Its type and that of the open files.
LEMMA PipeType ==
    ASSUME FileTypeOK
    PROVE  /\ Pipe \in Seq(FileChunk) /\ Len(Pipe) \in Nat
           /\ \A i \in 1 .. Len(Pipe) : Pipe[i] \in FileChunk
BY DEF FileTypeOK, Pipe

LEMMA ContentType ==
    ASSUME FileTypeOK, NEW f \in Names
    PROVE  /\ Opened(f) \in Seq(FileChunk) /\ Len(Opened(f)) \in Nat
           /\ \A k \in 1 .. Len(Opened(f)) : Opened(f)[k] \in FileChunk
BY DEF FileTypeOK, Opened

\* A PUT that is executed once or twice, a GET whose answer is sent or lost, an answer
\* that is read first or second.
LEMMA PutGrows ==
    ASSUME FileTypeOK, NEW m \in FileChunk, UNCHANGED onWay, mailbox' = PutMessage(m)
    PROVE  GrownBy(m, 1)
BY DEF FileTypeOK, GrownBy, Pipe, PutMessage

LEMMA PutTwiceGrows ==
    ASSUME FileTypeOK, NEW m \in FileChunk, UNCHANGED onWay, mailbox' = mailbox \o <<m, m>>
    PROVE  GrownBy(m, 2)
<1>1. onWay \in Seq(FileChunk) /\ mailbox \in Seq(FileChunk)
  BY DEF FileTypeOK
<1>2. Pipe' = Pipe \o <<m, m>> /\ Pipe \in Seq(FileChunk)
  BY <1>1 DEF Pipe
<1> QED BY <1>2 DEF GrownBy

LEMMA SamePipe ==
    ASSUME FileTypeOK, Pipe' = Pipe, NEW m PROVE GrownBy(m, 0)
BY PipeType DEF GrownBy

LEMMA GetMoves ==
    ASSUME FileTypeOK, mailbox # <<>>, mailbox' = Tail(mailbox), onWay' = Append(onWay, Head(mailbox))
    PROVE  Pipe' = Pipe
BY DEF FileTypeOK, Pipe

LEMMA GetLoses ==
    ASSUME FileTypeOK, mailbox # <<>>, mailbox' = Tail(mailbox), UNCHANGED onWay
    PROVE  Removed(Len(onWay) + 1) /\ Pipe[Len(onWay) + 1] = Head(mailbox)
BY DEF FileTypeOK, Pipe, Removed

LEMMA ReceiveFirst ==
    ASSUME FileTypeOK, onWay # <<>>, onWay' = Tail(onWay), UNCHANGED mailbox
    PROVE  Removed(1) /\ Pipe[1] = Head(onWay)
BY DEF FileTypeOK, Pipe, Removed

LEMMA ReceiveSecond ==
    ASSUME FileTypeOK, Len(onWay) > 1, onWay' = RemoveAt(onWay, 2), UNCHANGED mailbox
    PROVE  Removed(2) /\ Pipe[2] = onWay[2]
BY DEF FileTypeOK, Pipe, Removed, RemoveAt

-----------------------------------------------------------------------------
\* What is assumed of the constants.
LEMMA Markers == NotOpen \notin Seq(FileChunk) /\ Chunks \in Nat \ {0} /\ EOF \notin 1 .. Chunks
BY FileTransferAssumption DEF EOF

\* The chunk that is put next.
LEMMA NextChunk ==
    ASSUME FileTypeOK, Counted, NEW s \in Senders, Sending(s)
    PROVE  /\ ThisSend(s) \in Send
           /\ ChunkOf(s) \in FileChunk
           /\ ChunkOf(s).send = ThisSend(s) /\ ChunkOf(s).name = file_name[s]
           /\ Num(ChunkOf(s)) = seq_counter[s]
           /\ seq_counter[s] \in 1 .. Chunks + 1
           /\ ChunkOf(s).seq = EOF <=> seq_counter[s] = Chunks + 1
           /\ AfterChunk(s) = IF seq_counter[s] = Chunks + 1 THEN 0 ELSE seq_counter[s] + 1
<1>1. ThisSend(s) \in Send
  BY FileTransferAssumption DEF FileTypeOK, Counted, ThisSend, Send
<1>2. seq_counter[s] \in 1 .. Chunks + 1 /\ file_name[s] \in Names
  BY Markers DEF FileTypeOK, Sending
<1>3. seq_counter[s] <= Chunks => seq_counter[s] # EOF
  BY <1>2 DEF EOF
<1>4. (IF seq_counter[s] <= Chunks THEN seq_counter[s] ELSE EOF) \in 1 .. Chunks \cup {EOF}
  BY <1>2, Markers
<1>5. ChunkOf(s) \in FileChunk
  BY <1>1, <1>2, <1>4 DEF ChunkOf, FileChunk
<1> QED BY <1>1, <1>2, <1>3, <1>5, Markers DEF ChunkOf, Num, AfterChunk

\* What showing a chunk does to the files.
LEMMA ShowTypes ==
    ASSUME FileTypeOK, NEW m \in FileChunk, Show(m)
    PROVE  /\ TransferFdMap' \in [Names -> Seq(FileChunk) \cup {NotOpen}]
           /\ received' \subseteq [end : Send, content : Seq(FileChunk)]
           /\ UNCHANGED taken
           /\ \A f \in Names \ {m.name} : TransferFdMap'[f] = TransferFdMap[f]
           /\ m.seq = EOF => TransferFdMap'[m.name] = NotOpen
           /\ m.seq # EOF => TransferFdMap'[m.name] = Append(Opened(m.name), m)
<1>1. m.name \in Names /\ m.send \in Send
  BY DEF FileChunk
<1>2. Opened(m.name) \in Seq(FileChunk)
  BY <1>1, ContentType
<1>3. TransferFdMap \in [Names -> Seq(FileChunk) \cup {NotOpen}]
      /\ received \subseteq [end : Send, content : Seq(FileChunk)]
  BY DEF FileTypeOK
<1>4. Append(Opened(m.name), m) \in Seq(FileChunk)
  BY <1>2
<1>5. CASE m.seq = EOF
  BY <1>1, <1>2, <1>3, <1>5 DEF Show
<1>6. CASE m.seq # EOF
  BY <1>1, <1>3, <1>4, <1>6 DEF Show, WriteChunk
<1> QED BY <1>5, <1>6

LEMMA ShowContents ==
    ASSUME FileTypeOK, NEW m \in FileChunk, Show(m)
    PROVE  /\ \A f \in Names \ {m.name} : Opened(f)' = Opened(f)
           /\ m.seq = EOF => Opened(m.name)' = <<>>
           /\ m.seq # EOF =>
                 /\ Len(Opened(m.name)') = Len(Opened(m.name)) + 1
                 /\ \A k \in 1 .. Len(Opened(m.name)) : Opened(m.name)'[k] = Opened(m.name)[k]
                 /\ Opened(m.name)'[Len(Opened(m.name)) + 1] = m
<1>1. m.name \in Names /\ Opened(m.name) \in Seq(FileChunk)
  BY ContentType DEF FileChunk
<1>2. CASE m.seq # EOF
  <2>1. TransferFdMap'[m.name] = Append(Opened(m.name), m)
    BY <1>2, ShowTypes
  <2>2. Append(Opened(m.name), m) # NotOpen
    BY <1>1, Markers
  <2>3. Opened(m.name)' = Append(Opened(m.name), m)
    BY <2>1, <2>2 DEF Opened
  <2>4. \A f \in Names \ {m.name} : Opened(f)' = Opened(f)
    BY ShowTypes DEF Opened
  <2>5. /\ Len(Append(Opened(m.name), m)) = Len(Opened(m.name)) + 1
        /\ \A k \in 1 .. Len(Opened(m.name)) : Append(Opened(m.name), m)[k] = Opened(m.name)[k]
        /\ Append(Opened(m.name), m)[Len(Opened(m.name)) + 1] = m
    BY <1>1
  <2> QED BY <1>2, <2>3, <2>4, <2>5
<1>3. CASE m.seq = EOF
  BY <1>3, ShowTypes DEF Opened
<1> QED BY <1>2, <1>3

\* What the reader receives next, in order or not.
Received(p) ==
    /\ p \in {1, 2} /\ Removed(p) /\ Show(Pipe[p])
    /\ IF p = 1 THEN Delivered ELSE Misplaced

LEMMA ReceiveRemoves ==
    ASSUME FileTypeOK, Receive
    PROVE  \E p \in {1, 2} : Received(p)
<1>1. CASE onWay # <<>> /\ Delivered /\ Show(Head(onWay)) /\ onWay' = Tail(onWay)
  BY <1>1, ReceiveFirst DEF Receive, Received
<1>2. CASE Len(onWay) > 1 /\ Misplaced /\ Show(onWay[2]) /\ onWay' = RemoveAt(onWay, 2)
  BY <1>2, ReceiveSecond DEF Receive, Received
<1> QED BY <1>1, <1>2 DEF Receive

-----------------------------------------------------------------------------
(* The bookkeeping.                                                        *)

LEMMA FileBaseInit == InitFileTransfer => FileBase
<1> SUFFICES ASSUME InitFileTransfer PROVE FileBase
  OBVIOUS
<1> USE FileTransferAssumption DEF InitFileTransfer
<1>1. FileTypeOK
  <2>1. /\ seq_counter \in [Senders -> 0 .. Chunks + 1]
        /\ nth \in [Senders -> 0 .. MaxSends]
        /\ faults \in 0 .. MaxFaults
    OBVIOUS
  <2>2. mailbox \in Seq(FileChunk) /\ onWay \in Seq(FileChunk)
    OBVIOUS
  <2>3. TransferFdMap \in [Names -> Seq(FileChunk) \cup {NotOpen}]
    OBVIOUS
  <2> QED BY <2>1, <2>2, <2>3 DEF FileTypeOK
<1>2. Counted /\ NoSharing
  BY DEF Counted, NoSharing, Sending
<1>3. Pipe = <<>> /\ \A f \in Names : Opened(f) = <<>>
  BY DEF Pipe, Opened
<1>4. ChunksAreSent /\ FilesHoldTheirs
  BY <1>3 DEF ChunksAreSent, FilesHoldTheirs, IsKnown
<1> QED BY <1>1, <1>2, <1>4 DEF FileBase

\* Steps that put no chunk into the world and leave the senders alone.
LEMMA NoNewChunks ==
    ASSUME FileBase, UNCHANGED senderVars,
           \A x \in FileChunk : IsKnown(x)' => IsKnown(x)
    PROVE  ChunksAreSent' /\ NoSharing'
BY DEF FileBase, ChunksAreSent, NoSharing, senderVars, ThisSend, Sending

\* Where the chunks that are known after a step come from.
LEMMA KnownAfterGrowth ==
    ASSUME FileTypeOK, NEW m \in FileChunk, NEW n \in Nat, GrownBy(m, n), UNCHANGED TransferFdMap,
           copies' \subseteq copies \cup {m}, NEW x \in FileChunk, IsKnown(x)'
    PROVE  IsKnown(x) \/ x = m
<1>1. ASSUME NEW i \in 1 .. Len(Pipe'), x = Pipe'[i] PROVE IsKnown(x) \/ x = m
  <2>1. i \in 1 .. Len(Pipe) \/ i \in Len(Pipe) + 1 .. Len(Pipe) + n
    BY <1>1, PipeType DEF GrownBy
  <2> QED BY <1>1, <2>1 DEF GrownBy, IsKnown
<1>2. \A f \in Names : Opened(f)' = Opened(f)
  BY DEF Opened
<1> QED BY <1>1, <1>2 DEF IsKnown

LEMMA KnownAfterRemoval ==
    ASSUME FileTypeOK, NEW p, Removed(p), UNCHANGED copies,
           UNCHANGED TransferFdMap \/ Show(Pipe[p]), NEW x \in FileChunk, IsKnown(x)'
    PROVE  IsKnown(x)
<1>0. Len(Pipe) \in Nat /\ p \in 1 .. Len(Pipe) /\ Pipe[p] \in FileChunk
  BY PipeType DEF Removed
<1>1. ASSUME NEW i \in 1 .. Len(Pipe'), x = Pipe'[i] PROVE IsKnown(x)
  <2>1. \/ i \in 1 .. Len(Pipe) /\ x = Pipe[i]
        \/ i + 1 \in 1 .. Len(Pipe) /\ x = Pipe[i + 1]
    BY <1>0, <1>1 DEF Removed
  <2> QED BY <2>1 DEF IsKnown
<1>2. ASSUME NEW f \in Names, NEW k \in 1 .. Len(Opened(f)'), x = Opened(f)'[k] PROVE IsKnown(x)
  <2>1. CASE Opened(f)' = Opened(f)
    BY <1>2, <2>1 DEF IsKnown
  <2>2. CASE Show(Pipe[p])
    <3>1. \/ Opened(f)' = Opened(f)
          \/ Opened(f)' = <<>>
          \/ /\ Len(Opened(f)') = Len(Opened(f)) + 1
             /\ \A j \in 1 .. Len(Opened(f)) : Opened(f)'[j] = Opened(f)[j]
             /\ Opened(f)'[Len(Opened(f)) + 1] = Pipe[p]
      BY <1>0, <2>2, ShowContents
    <3>2. Len(Opened(f)) \in Nat
      BY ContentType
    <3>3. Opened(f)' # <<>>
      BY <1>2
    <3>4. k \in 1 .. Len(Opened(f)) \/ k = Len(Opened(f)) + 1 \/ Opened(f)' = Opened(f)
      BY <1>2, <3>1, <3>2, <3>3
    <3> QED BY <1>0, <1>2, <3>1, <3>3, <3>4 DEF IsKnown
  <2>3. UNCHANGED TransferFdMap => Opened(f)' = Opened(f)
    BY DEF Opened
  <2> QED BY <2>1, <2>2, <2>3
<1> QED BY <1>1, <1>2 DEF IsKnown

\* Each step keeps the books.
LEMMA StartSendBase ==
    ASSUME FileBase, NEW s \in Senders, NEW f \in Names, StartSend(s, f) PROVE FileBase'
<1>0. FileTypeOK /\ Counted /\ NoSharing /\ ChunksAreSent /\ FilesHoldTheirs
  BY DEF FileBase
<1>1. /\ nth[s] \in Nat /\ nth[s] + 1 \in 1 .. MaxSends /\ nth'[s] = nth[s] + 1
      /\ \A o \in Senders \ {s} : nth'[o] = nth[o]
      /\ file_name'[s] = f /\ \A o \in Senders \ {s} : file_name'[o] = file_name[o]
      /\ seq_counter'[s] = 1 /\ \A o \in Senders \ {s} : seq_counter'[o] = seq_counter[o]
  BY <1>0, FileTransferAssumption DEF StartSend, FileTypeOK
<1>2. /\ UNCHANGED <<copies, mailbox, onWay, readerVars, faultVars>>
      /\ ~Sending(s)
  BY DEF StartSend
<1>3. \A o \in Senders : Sending(o) => ThisSend(o) \in Send
  BY <1>0, NextChunk
<1>4. [from |-> s, nth |-> nth[s] + 1] \in Send
  BY <1>1 DEF Send
<1>5. FileTypeOK'
  <2>1. /\ seq_counter' \in [Senders -> 0 .. Chunks + 1]
        /\ nth' \in [Senders -> 0 .. MaxSends]
        /\ file_name' \in [Senders -> Names]
    BY <1>0, <1>1, FileTransferAssumption DEF StartSend, FileTypeOK
  <2>2. overlapped' \subseteq Send
    BY <1>0, <1>3, <1>4 DEF StartSend, FileTypeOK
  <2> QED BY <1>0, <1>2, <2>1, <2>2 DEF FileTypeOK, readerVars, faultVars
<1>6. Counted'
  BY <1>0, <1>1, <1>2 DEF Counted, faultVars, Sending
<1>7. \A x \in FileChunk : IsKnown(x)' => IsKnown(x)
  BY <1>2 DEF IsKnown, Pipe, Opened, readerVars
<1>8. \A x \in FileChunk : x.send \in Send /\ x.send.from \in Senders
  BY DEF FileChunk, Send
<1>9. \A o \in Senders \ {s} : ThisSend(o)' = ThisSend(o) /\ (Sending(o)' <=> Sending(o))
  BY <1>1 DEF ThisSend, Sending
<1>10. ChunksAreSent'
  <2>1. ASSUME NEW x \in FileChunk, IsKnown(x)'
        PROVE  /\ x.send.nth <= nth'[x.send.from]
               /\ x.send = ThisSend(x.send.from)' =>
                     /\ x.name = file_name'[x.send.from]
                     /\ Sending(x.send.from)' => Num(x) < seq_counter'[x.send.from]
    <3>1. /\ x.send.nth <= nth[x.send.from] /\ x.send.nth \in Nat
          /\ x.send = ThisSend(x.send.from) =>
                /\ x.name = file_name[x.send.from]
                /\ Sending(x.send.from) => Num(x) < seq_counter[x.send.from]
      BY <1>0, <1>7, <2>1 DEF ChunksAreSent, FileChunk, Send
    <3>2. CASE x.send.from = s
      BY <1>1, <3>1, <3>2 DEF ThisSend
    <3>3. CASE x.send.from # s
      BY <1>1, <1>8, <1>9, <3>1, <3>3
    <3> QED BY <3>2, <3>3
  <2> QED BY <1>0, <1>7, <2>1 DEF ChunksAreSent, Num
<1>11. NoSharing'
  <2> SUFFICES ASSUME NEW t \in Senders, NEW o \in Senders, t # o, Sending(t)', Sending(o)',
                      file_name'[t] = file_name'[o]
               PROVE  ThisSend(t)' \in overlapped'
    BY DEF NoSharing
  <2> DEFINE others == {p \in Senders : Sending(p) /\ file_name[p] = f}
  <2>1. /\ overlapped \subseteq overlapped'
        /\ others # {} => /\ \A p \in others : ThisSend(p) \in overlapped'
                          /\ [from |-> s, nth |-> nth[s] + 1] \in overlapped'
    BY DEF StartSend
  <2>2. CASE t = s
    <3>1. o \in others
      BY <1>1, <1>9, <2>2
    <3> QED BY <1>1, <2>1, <2>2, <3>1 DEF ThisSend
  <2>3. CASE t # s /\ o = s
    <3>1. t \in others
      BY <1>1, <1>9, <2>3
    <3> QED BY <1>9, <2>1, <2>3, <3>1
  <2>4. CASE t # s /\ o # s
    BY <1>0, <1>1, <1>9, <2>1, <2>4 DEF NoSharing
  <2> QED BY <2>2, <2>3, <2>4
<1>12. FilesHoldTheirs'
  BY <1>0, <1>2 DEF FilesHoldTheirs, Opened, readerVars
<1> QED BY <1>5, <1>6, <1>10, <1>11, <1>12 DEF FileBase

\* What putting a chunk does to the pipe: nothing, or it gets there once or twice.
LEMMA SendEffect ==
    ASSUME FileBase, NEW s \in Senders, SendChunk(s)
    PROVE  LET m == ChunkOf(s) IN
           /\ Sending(s) /\ m \in FileChunk
           /\ seq_counter' = [seq_counter EXCEPT ![s] = AfterChunk(s)]
           /\ UNCHANGED <<file_name, nth, overlapped, onWay, readerVars>>
           /\ mailbox' \in Seq(FileChunk)
           /\ \/ Delivered /\ GrownBy(m, 1) /\ UNCHANGED copies
              \/ Lost(m) /\ GrownBy(m, 0) /\ UNCHANGED copies
              \/ Doubled /\ GrownBy(m, 2) /\ UNCHANGED copies
              \/ Misplaced /\ (GrownBy(m, 1) \/ GrownBy(m, 0)) /\ copies' = copies \cup {m}
<1> DEFINE m == ChunkOf(s)
<1>0. FileTypeOK /\ Counted
  BY DEF FileBase
<1>1. Sending(s) /\ m \in FileChunk
  BY <1>0, NextChunk DEF SendChunk
<1> HIDE DEF m
<1>2. /\ seq_counter' = [seq_counter EXCEPT ![s] = AfterChunk(s)]
      /\ UNCHANGED <<file_name, nth, overlapped, onWay, readerVars>>
  BY DEF SendChunk
<1>3. CASE Delivered /\ mailbox' = PutMessage(m) /\ UNCHANGED copies
  <2>1. GrownBy(m, 1) /\ mailbox' \in Seq(FileChunk)
    BY <1>0, <1>1, <1>2, <1>3, PutGrows DEF FileTypeOK, PutMessage
  <2> QED BY <1>1, <1>2, <1>3, <2>1 DEF m
<1>4. CASE Lost(m) /\ UNCHANGED <<mailbox, copies>>
  <2>1. Pipe' = Pipe
    BY <1>2, <1>4 DEF Pipe
  <2>2. GrownBy(m, 0) /\ mailbox' \in Seq(FileChunk)
    BY <1>0, <1>4, <2>1, SamePipe DEF FileTypeOK
  <2> QED BY <1>1, <1>2, <1>4, <2>2 DEF m
<1>5. CASE Doubled /\ mailbox' = mailbox \o <<m, m>> /\ UNCHANGED copies
  <2>1. GrownBy(m, 2)
    BY <1>0, <1>1, <1>2, <1>5, PutTwiceGrows
  <2>2. mailbox \in Seq(FileChunk) /\ <<m, m>> \in Seq(FileChunk)
    BY <1>0, <1>1 DEF FileTypeOK
  <2>3. mailbox' \in Seq(FileChunk)
    BY <1>5, <2>2
  <2> QED BY <1>1, <1>2, <1>5, <2>1, <2>3 DEF m
<1>6. CASE Misplaced /\ mailbox' = PutMessage(m) /\ copies' = copies \cup {m}
  <2>1. GrownBy(m, 1) /\ mailbox' \in Seq(FileChunk)
    BY <1>0, <1>1, <1>2, <1>6, PutGrows DEF FileTypeOK, PutMessage
  <2> QED BY <1>1, <1>2, <1>6, <2>1 DEF m
<1>7. CASE Misplaced /\ mailbox' = mailbox /\ copies' = copies \cup {m}
  <2>1. Pipe' = Pipe
    BY <1>2, <1>7 DEF Pipe
  <2>2. GrownBy(m, 0) /\ mailbox' \in Seq(FileChunk)
    BY <1>0, <1>7, <2>1, SamePipe DEF FileTypeOK
  <2> QED BY <1>1, <1>2, <1>7, <2>2 DEF m
<1> QED BY <1>3, <1>4, <1>5, <1>6, <1>7 DEF SendChunk, m

LEMMA SendBase ==
    ASSUME FileBase, NEW s \in Senders, SendChunk(s) PROVE FileBase'
<1> DEFINE m == ChunkOf(s)
<1>0. FileTypeOK /\ Counted /\ NoSharing /\ ChunksAreSent /\ FilesHoldTheirs
  BY DEF FileBase
<1>1. /\ Sending(s) /\ m \in FileChunk
      /\ seq_counter' = [seq_counter EXCEPT ![s] = AfterChunk(s)]
      /\ UNCHANGED <<file_name, nth, overlapped, onWay, readerVars>>
      /\ mailbox' \in Seq(FileChunk)
      /\ copies' \subseteq copies \cup {m}
      /\ \E n \in Nat : GrownBy(m, n)
  BY SendEffect
<1>2. /\ m.send = ThisSend(s) /\ m.name = file_name[s] /\ Num(m) = seq_counter[s]
      /\ m.send \in Send
      /\ seq_counter[s] \in 1 .. Chunks + 1
      /\ AfterChunk(s) = IF seq_counter[s] = Chunks + 1 THEN 0 ELSE seq_counter[s] + 1
  BY <1>0, <1>1, NextChunk
<1>3. /\ misplaced \/ copies' # {} => misplaced'
      /\ misplaced' \in BOOLEAN /\ (misplaced' => faults' > 0)
      /\ faults' \in 0 .. MaxFaults
      /\ endLost' \subseteq Send
  <2>1. /\ misplaced \in BOOLEAN /\ faults \in 0 .. MaxFaults /\ endLost \subseteq Send
        /\ copies # {} => misplaced
        /\ misplaced => faults > 0
    BY <1>0 DEF FileTypeOK, Counted
  <2>2. CASE Delivered /\ UNCHANGED copies
    BY <2>1, <2>2 DEF Delivered, faultVars
  <2>3. CASE Lost(m) /\ UNCHANGED copies
    BY <1>2, <2>1, <2>3, FileTransferAssumption DEF Lost, NeverShown, Fault
  <2>4. CASE Doubled /\ UNCHANGED copies
    BY <2>1, <2>4, FileTransferAssumption DEF Doubled, Fault
  <2>5. CASE Misplaced
    BY <2>1, <2>5, FileTransferAssumption DEF Misplaced, Fault
  <2> QED BY <2>2, <2>3, <2>4, <2>5, SendEffect
<1> HIDE DEF m
<1>4. /\ seq_counter'[s] = AfterChunk(s) /\ AfterChunk(s) \in 0 .. Chunks + 1
      /\ \A o \in Senders \ {s} : seq_counter'[o] = seq_counter[o]
      /\ seq_counter' \in [Senders -> 0 .. Chunks + 1]
  BY <1>0, <1>1, <1>2, FileTransferAssumption DEF FileTypeOK
<1>5. FileTypeOK'
  <2>1. copies' \subseteq FileChunk
    BY <1>0, <1>1 DEF FileTypeOK
  <2> QED BY <1>0, <1>1, <1>3, <1>4, <2>1 DEF FileTypeOK, readerVars
<1>6. \A o \in Senders : (Sending(o)' => Sending(o)) /\ ThisSend(o)' = ThisSend(o)
  BY <1>1, <1>4 DEF Sending, ThisSend
<1>7. Counted'
  BY <1>0, <1>1, <1>3, <1>6 DEF Counted
<1>8. NoSharing'
  BY <1>0, <1>1, <1>6 DEF NoSharing
<1>9. \A x \in FileChunk : IsKnown(x)' => IsKnown(x) \/ x = m
  BY <1>0, <1>1, KnownAfterGrowth DEF readerVars
<1>10. ChunksAreSent'
  <2>1. \A x \in FileChunk : IsKnown(x) /\ x.send = m.send =>
           x.name = m.name /\ Num(x) < seq_counter[s]
    BY <1>0, <1>1, <1>2 DEF ChunksAreSent, ThisSend
  <2>2. ASSUME NEW x \in FileChunk, IsKnown(x)'
        PROVE  /\ x.send.nth <= nth'[x.send.from]
               /\ x.send = ThisSend(x.send.from)' =>
                     /\ x.name = file_name'[x.send.from]
                     /\ Sending(x.send.from)' => Num(x) < seq_counter'[x.send.from]
    <3>1. x.send \in Send /\ x.send.from \in Senders
      BY DEF FileChunk, Send
    <3>2. CASE x.send = m.send
      <4>1. x.send = ThisSend(s) /\ x.send.from = s /\ x.send.nth = nth[s] /\ nth[s] \in Nat
        BY <1>0, <1>2, <3>2 DEF ThisSend, FileTypeOK
      <4>2. x.name = file_name[s] /\ Num(x) <= seq_counter[s]
        <5>1. CASE x = m
          BY <1>2, <5>1
        <5>2. CASE x # m
          <6>1. Num(x) < seq_counter[s] /\ x.name = m.name
            BY <1>9, <2>1, <2>2, <3>2, <5>2
          <6>2. Num(x) \in Int
            BY Markers DEF Num, FileChunk
          <6> QED BY <1>2, <6>1, <6>2
        <5> QED BY <5>1, <5>2
      <4>3. Sending(s)' => seq_counter'[s] = seq_counter[s] + 1
        BY <1>2, <1>4 DEF Sending
      <4>4. Num(x) \in Int
        BY Markers DEF Num, FileChunk
      <4> QED BY <1>1, <1>2, <4>1, <4>2, <4>3, <4>4
    <3>3. CASE x.send # m.send
      <4>1. IsKnown(x)
        BY <1>9, <2>2, <3>3
      <4>2. /\ x.send.nth <= nth[x.send.from]
            /\ x.send = ThisSend(x.send.from) =>
                  /\ x.name = file_name[x.send.from]
                  /\ Sending(x.send.from) => Num(x) < seq_counter[x.send.from]
        BY <1>0, <4>1 DEF ChunksAreSent
      <4>3. x.send = ThisSend(x.send.from) => x.send.from # s
        BY <1>2, <3>3
      <4> QED BY <1>1, <1>4, <1>6, <3>1, <4>2, <4>3
    <3> QED BY <3>2, <3>3
  <2>3. \A x, y \in FileChunk : IsKnown(x)' /\ IsKnown(y)' /\ x.send = y.send => x.name = y.name
    BY <1>0, <1>9, <2>1 DEF ChunksAreSent
  <2> QED BY <2>2, <2>3 DEF ChunksAreSent, Num
<1>11. FilesHoldTheirs'
  BY <1>0, <1>1 DEF FilesHoldTheirs, Opened, readerVars
<1> QED BY <1>5, <1>7, <1>8, <1>10, <1>11 DEF FileBase

LEMMA LateCopyBase == ASSUME FileBase, LateCopy PROVE FileBase'
<1>0. FileTypeOK /\ Counted /\ NoSharing /\ ChunksAreSent /\ FilesHoldTheirs
  BY DEF FileBase
<1>1. PICK m \in copies : copies' = copies \ {m} /\ mailbox' = PutMessage(m)
  BY DEF LateCopy
<1>2. m \in FileChunk /\ mailbox' \in Seq(FileChunk) /\ IsKnown(m)
  BY <1>0, <1>1 DEF FileTypeOK, PutMessage, IsKnown
<1>3. UNCHANGED <<senderVars, onWay, readerVars, faultVars>>
  BY DEF LateCopy
<1>4. FileTypeOK' /\ Counted' /\ FilesHoldTheirs'
  BY <1>0, <1>1, <1>2, <1>3 DEF FileTypeOK, Counted, FilesHoldTheirs, senderVars, readerVars,
     faultVars, Sending, Opened
<1>5. \A x \in FileChunk : IsKnown(x)' => IsKnown(x)
  <2>1. GrownBy(m, 1)
    BY <1>0, <1>1, <1>2, <1>3, PutGrows
  <2> QED BY <1>0, <1>1, <1>2, <1>3, <2>1, KnownAfterGrowth DEF readerVars
<1> QED BY <1>3, <1>4, <1>5, NoNewChunks DEF FileBase

\* What a GET does to the pipe: nothing, or its answer is lost.
LEMMA GetEffect ==
    ASSUME FileTypeOK, GetMessage
    PROVE  \/ Delivered /\ Pipe' = Pipe
           \/ \E p \in 1 .. Len(Pipe) : Lost(Pipe[p]) /\ Removed(p)
<1>1. CASE Delivered /\ onWay' = Append(onWay, Head(mailbox))
  BY <1>1, GetMoves DEF GetMessage
<1>2. CASE Lost(Head(mailbox)) /\ UNCHANGED onWay
  <2>1. Removed(Len(onWay) + 1) /\ Pipe[Len(onWay) + 1] = Head(mailbox)
    BY <1>2, GetLoses DEF GetMessage
  <2> QED BY <1>2, <2>1 DEF Removed
<1> QED BY <1>1, <1>2 DEF GetMessage

LEMMA GetBase == ASSUME FileBase, GetMessage PROVE FileBase'
<1>0. FileTypeOK /\ Counted /\ NoSharing /\ ChunksAreSent /\ FilesHoldTheirs
  BY DEF FileBase
<1>1. UNCHANGED <<senderVars, copies, readerVars>>
  BY DEF GetMessage
<1>2. Head(mailbox) \in FileChunk /\ mailbox' \in Seq(FileChunk) /\ onWay' \in Seq(FileChunk)
  <2>1. mailbox \in Seq(FileChunk) /\ mailbox # <<>> /\ onWay \in Seq(FileChunk)
    BY <1>0 DEF FileTypeOK, GetMessage
  <2>2. Head(mailbox) \in FileChunk /\ Tail(mailbox) \in Seq(FileChunk)
    BY <2>1
  <2>3. Append(onWay, Head(mailbox)) \in Seq(FileChunk)
    BY <2>1, <2>2
  <2> QED BY <2>1, <2>2, <2>3 DEF GetMessage
<1>3. /\ misplaced' = misplaced /\ faults' >= faults /\ faults' \in 0 .. MaxFaults
      /\ endLost' \subseteq Send
  <2>1. faults \in 0 .. MaxFaults /\ endLost \subseteq Send /\ Head(mailbox).send \in Send
    BY <1>0, <1>2 DEF FileTypeOK, FileChunk
  <2>2. CASE Delivered
    BY <2>1, <2>2 DEF Delivered, faultVars
  <2>3. CASE Lost(Head(mailbox))
    BY <2>1, <2>3, FileTransferAssumption DEF Lost, NeverShown, Fault
  <2> QED BY <2>2, <2>3 DEF GetMessage
<1>4. FileTypeOK'
  BY <1>0, <1>1, <1>2, <1>3 DEF FileTypeOK, senderVars, readerVars
<1>5. Counted'
  BY <1>0, <1>1, <1>3, <1>4 DEF Counted, senderVars, Sending, FileTypeOK
<1>6. FilesHoldTheirs'
  BY <1>0, <1>1 DEF FilesHoldTheirs, Opened, readerVars
<1>7. \A x \in FileChunk : IsKnown(x)' => IsKnown(x)
  <2>1. CASE Pipe' = Pipe
    BY <1>1, <2>1 DEF IsKnown, Opened, readerVars
  <2>2. ASSUME NEW p, Removed(p) PROVE \A x \in FileChunk : IsKnown(x)' => IsKnown(x)
    BY <1>0, <1>1, <2>2, KnownAfterRemoval DEF readerVars
  <2> QED BY <1>0, <2>1, <2>2, GetEffect
<1> QED BY <1>1, <1>4, <1>5, <1>6, <1>7, NoNewChunks DEF FileBase

LEMMA ReceiveBase == ASSUME FileBase, Receive PROVE FileBase'
<1>0. FileTypeOK /\ Counted /\ NoSharing /\ ChunksAreSent /\ FilesHoldTheirs
  BY DEF FileBase
<1>1. PICK p \in {1, 2} : Received(p)
  BY <1>0, ReceiveRemoves
<1>2. UNCHANGED <<senderVars, copies, mailbox>> /\ onWay' \in Seq(FileChunk)
  <2>1. UNCHANGED <<senderVars, copies, mailbox>>
    BY DEF Receive
  <2>2. onWay \in Seq(FileChunk)
    BY <1>0 DEF FileTypeOK
  <2>3. CASE onWay # <<>> /\ onWay' = Tail(onWay)
    BY <2>1, <2>2, <2>3
  <2>4. CASE Len(onWay) > 1 /\ onWay' = RemoveAt(onWay, 2)
    <3>1. SubSeq(onWay, 1, 1) \in Seq(FileChunk) /\ SubSeq(onWay, 3, Len(onWay)) \in Seq(FileChunk)
      BY <2>2, <2>4
    <3>2. RemoveAt(onWay, 2) = SubSeq(onWay, 1, 1) \o SubSeq(onWay, 3, Len(onWay))
      BY DEF RemoveAt
    <3>3. \A u, v \in Seq(FileChunk) : u \o v \in Seq(FileChunk)
      OBVIOUS
    <3>4. RemoveAt(onWay, 2) \in Seq(FileChunk)
      BY <3>1, <3>2, <3>3, Zenon
    <3> QED BY <2>1, <2>4, <3>4
  <2> QED BY <2>3, <2>4 DEF Receive
<1> DEFINE m == Pipe[p]
<1>3. m \in FileChunk /\ Show(m) /\ m.name \in Names
  BY <1>0, <1>1, PipeType DEF Received, Removed, FileChunk
<1> HIDE DEF m
<1>4. /\ misplaced => misplaced'
      /\ misplaced' \in BOOLEAN /\ (misplaced' => faults' > 0)
      /\ faults' \in 0 .. MaxFaults
      /\ endLost' = endLost
  <2>1. misplaced \in BOOLEAN /\ faults \in 0 .. MaxFaults /\ (misplaced => faults > 0)
    BY <1>0 DEF FileTypeOK, Counted
  <2>2. CASE Delivered
    BY <2>1, <2>2 DEF Delivered, faultVars
  <2>3. CASE Misplaced
    BY <2>1, <2>3, FileTransferAssumption DEF Misplaced, Fault
  <2> QED BY <1>1, <2>2, <2>3 DEF Received
<1>5. FileTypeOK'
  BY <1>0, <1>2, <1>3, <1>4, ShowTypes DEF FileTypeOK, senderVars
<1>6. Counted'
  BY <1>0, <1>2, <1>4 DEF Counted, senderVars, Sending
<1>7. FilesHoldTheirs'
  <2> SUFFICES ASSUME NEW f \in Names, NEW k \in 1 .. Len(Opened(f)')
               PROVE  Opened(f)'[k].name = f /\ Opened(f)'[k].seq # EOF
    BY DEF FilesHoldTheirs
  <2>1. CASE Opened(f)' = Opened(f)
    BY <1>0, <2>1 DEF FilesHoldTheirs
  <2>2. CASE Opened(f)' # Opened(f)
    <3>1. f = m.name
      BY <1>0, <1>3, <2>2, ShowContents
    <3>2. m.seq # EOF
      BY <1>0, <1>3, <3>1, ShowContents
    <3>3. /\ Len(Opened(f)') = Len(Opened(f)) + 1 /\ Len(Opened(f)) \in Nat
          /\ \A j \in 1 .. Len(Opened(f)) : Opened(f)'[j] = Opened(f)[j]
          /\ Opened(f)'[Len(Opened(f)) + 1] = m
      BY <1>0, <1>3, <3>1, <3>2, ShowContents, ContentType
    <3>4. CASE k \in 1 .. Len(Opened(f))
      BY <1>0, <3>3, <3>4 DEF FilesHoldTheirs
    <3>5. CASE k = Len(Opened(f)) + 1
      BY <3>1, <3>2, <3>3, <3>5
    <3> QED BY <3>3, <3>4, <3>5
  <2> QED BY <2>1, <2>2
<1>8. \A x \in FileChunk : IsKnown(x)' => IsKnown(x)
  BY <1>0, <1>1, <1>2, KnownAfterRemoval DEF Received
<1> QED BY <1>2, <1>5, <1>6, <1>7, <1>8, NoNewChunks DEF FileBase

LEMMA SwallowBase == ASSUME FileBase, Swallow PROVE FileBase'
<1>0. FileTypeOK /\ Counted /\ NoSharing /\ ChunksAreSent /\ FilesHoldTheirs
  BY DEF FileBase
<1>1. UNCHANGED <<senderVars, copies, mailbox, TransferFdMap, received, misplaced, faults>>
  BY DEF Swallow
<1>2. Head(onWay) \in FileChunk /\ onWay' \in Seq(FileChunk)
  <2>1. onWay \in Seq(FileChunk) /\ onWay # <<>> /\ onWay' = Tail(onWay)
    BY <1>0 DEF FileTypeOK, Swallow
  <2> QED BY <2>1
<1>3. taken' \subseteq Send /\ endLost' \subseteq Send
  BY <1>0, <1>2 DEF FileTypeOK, Swallow, NeverShown, FileChunk
<1>4. FileTypeOK' /\ Counted' /\ FilesHoldTheirs'
  BY <1>0, <1>1, <1>2, <1>3 DEF FileTypeOK, Counted, FilesHoldTheirs, senderVars, Sending, Opened
<1>5. \A x \in FileChunk : IsKnown(x)' => IsKnown(x)
  BY <1>0, <1>1, ReceiveFirst, KnownAfterRemoval DEF Swallow
<1> QED BY <1>1, <1>4, <1>5, NoNewChunks DEF FileBase

\* After a restart no file is open, and the sends in those that were are taken.
LEMMA RestartCloses ==
    ASSUME FileTypeOK, Restart
    PROVE  /\ UNCHANGED <<senderVars, copies, mailbox, onWay, Pipe, received, faultVars>>
           /\ \A f \in Names : Opened(f)' = <<>>
           /\ taken \subseteq taken' /\ taken' \subseteq Send
           /\ \A f \in Names : \A k \in 1 .. Len(Opened(f)) : Opened(f)[k].send \in taken'
<1>1. /\ UNCHANGED <<senderVars, copies, mailbox, onWay, received, faultVars>>
      /\ TransferFdMap' = [f \in Names |-> NotOpen]
      /\ taken' = taken \cup InOpenFiles
  BY DEF Restart
<1>2. \A f \in Names : Opened(f)' = <<>>
  BY <1>1 DEF Opened
<1>3. ASSUME NEW f \in Names, TransferFdMap[f] # NotOpen
      PROVE  /\ TransferFdMap[f] \in Seq(FileChunk) /\ Opened(f) = TransferFdMap[f]
             /\ DOMAIN TransferFdMap[f] = 1 .. Len(TransferFdMap[f])
             /\ \A k \in 1 .. Len(TransferFdMap[f]) : TransferFdMap[f][k].send \in Send
  <2>1. TransferFdMap[f] \in Seq(FileChunk)
    BY <1>3 DEF FileTypeOK
  <2>2. \A k \in 1 .. Len(TransferFdMap[f]) : TransferFdMap[f][k] \in FileChunk
    BY <2>1
  <2> QED BY <1>3, <2>1, <2>2 DEF Opened, FileChunk
<1>4. InOpenFiles \subseteq Send
  BY <1>3 DEF InOpenFiles
<1>5. ASSUME NEW f \in Names, NEW k \in 1 .. Len(Opened(f)) PROVE Opened(f)[k].send \in InOpenFiles
  <2>1. TransferFdMap[f] # NotOpen
    BY <1>5 DEF Opened
  <2> QED BY <1>3, <1>5, <2>1 DEF InOpenFiles
<1> QED BY <1>1, <1>2, <1>4, <1>5 DEF FileTypeOK, Pipe

LEMMA RestartBase == ASSUME FileBase, Restart PROVE FileBase'
<1>0. FileTypeOK /\ Counted /\ NoSharing /\ ChunksAreSent /\ FilesHoldTheirs
  BY DEF FileBase
<1>1. /\ UNCHANGED <<senderVars, copies, mailbox, onWay, Pipe, received, faultVars>>
      /\ \A f \in Names : Opened(f)' = <<>>
      /\ taken' \subseteq Send
  BY <1>0, RestartCloses
<1>2. TransferFdMap' \in [Names -> Seq(FileChunk) \cup {NotOpen}]
  BY DEF Restart
<1>3. FileTypeOK'
  BY <1>0, <1>1, <1>2 DEF FileTypeOK, senderVars, faultVars
<1>4. Counted'
  BY <1>0, <1>1 DEF Counted, senderVars, faultVars, Sending
<1>5. FilesHoldTheirs'
  BY <1>1 DEF FilesHoldTheirs
<1>6. \A x \in FileChunk : IsKnown(x)' => IsKnown(x)
  BY <1>1 DEF IsKnown
<1> QED BY <1>1, <1>3, <1>4, <1>5, <1>6, NoNewChunks DEF FileBase

LEMMA FileBaseStep == FileBase /\ [FileTransferNext]_fileVars => FileBase'
<1> SUFFICES ASSUME FileBase, [FileTransferNext]_fileVars PROVE FileBase'
  OBVIOUS
<1>1. CASE UNCHANGED fileVars
  <2>1. FileTypeOK /\ Counted /\ NoSharing /\ ChunksAreSent /\ FilesHoldTheirs
    BY DEF FileBase
  <2>2. UNCHANGED <<senderVars, copies, mailbox, onWay, readerVars, faultVars>>
    BY <1>1 DEF fileVars
  <2>3. FileTypeOK'
    BY <2>1, <2>2 DEF FileTypeOK, senderVars, readerVars, faultVars
  <2>4. Counted'
    BY <2>1, <2>2 DEF Counted, senderVars, faultVars, Sending
  <2>5. \A x \in FileChunk : IsKnown(x)' => IsKnown(x)
    BY <2>2 DEF IsKnown, Pipe, Opened, readerVars
  <2>6. ChunksAreSent' /\ NoSharing'
    BY <2>2, <2>5, NoNewChunks
  <2>7. FilesHoldTheirs'
    BY <2>1, <2>2 DEF FilesHoldTheirs, Opened, readerVars
  <2> QED BY <2>3, <2>4, <2>6, <2>7 DEF FileBase
<1> QED BY <1>1, StartSendBase, SendBase, LateCopyBase, GetBase, ReceiveBase, SwallowBase, RestartBase
     DEF FileTransferNext

-----------------------------------------------------------------------------
(* The ends of sends.                                                      *)

\* Send S is not complete, and S ends in one of the places a .. b of the pipe.
BeingSent(S) == Sending(S.from) /\ ThisSend(S.from) = S

EndsAt(S, e) == Pipe[e].send = S /\ Pipe[e].seq = EOF

Ends(S, a, b) == \E e \in a .. b : EndsAt(S, e)

\* The end of a send stays where it is when chunks are put behind it.
LEMMA EndsGrow ==
    ASSUME FileTypeOK, NEW m, NEW n \in Nat, GrownBy(m, n),
           NEW S, NEW a \in Nat \ {0}, NEW b \in Int, b <= Len(Pipe), NEW c \in Int, b <= c, Ends(S, a, b)
    PROVE  Ends(S, a, c)'
<1>1. PICK e \in a .. b : EndsAt(S, e)
  BY DEF Ends
<1>2. e \in 1 .. Len(Pipe) /\ e \in a .. c
  BY PipeType
<1>3. EndsAt(S, e)'
  BY <1>1, <1>2 DEF GrownBy, EndsAt
<1> QED BY <1>2, <1>3 DEF Ends

\* It moves up when a chunk before it is removed.
LEMMA EndsRemove ==
    ASSUME FileTypeOK, NEW p, Removed(p), NEW S, NEW a \in Nat \ {0}, a > p \/ ~EndsAt(S, p),
           NEW b \in Int, b <= Len(Pipe), Ends(S, a, b)
    PROVE  /\ a <= p /\ b < p => Ends(S, a, b)'
           /\ a <= p /\ b >= p => Ends(S, a, b - 1)'
           /\ a > p => Ends(S, a - 1, b - 1)'
<1>0. Len(Pipe) \in Nat /\ p \in 1 .. Len(Pipe)
  BY PipeType DEF Removed
<1>1. PICK e \in a .. b : EndsAt(S, e)
  BY DEF Ends
<1>2. e # p /\ e \in 1 .. Len(Pipe)
  BY <1>0, <1>1
<1>3. CASE e < p
  <2>1. EndsAt(S, e)'
    <3>1. e \in 1 .. p - 1
      BY <1>0, <1>2, <1>3
    <3>2. Pipe'[e] = Pipe[e]
      BY <3>1 DEF Removed
    <3> QED BY <1>1, <3>2 DEF EndsAt
  <2>2. /\ a <= p /\ b < p => e \in a .. b
        /\ a <= p /\ b >= p => e \in a .. b - 1
        /\ ~(a > p)
    BY <1>0, <1>2, <1>3
  <2> QED BY <2>1, <2>2 DEF Ends
<1>4. CASE e > p
  <2>1. EndsAt(S, e - 1)'
    <3>1. e - 1 \in p .. Len(Pipe) - 1 /\ (e - 1) + 1 = e
      BY <1>0, <1>2, <1>4
    <3> QED BY <1>1, <3>1 DEF Removed, EndsAt
  <2>2. /\ ~(b < p)
        /\ a <= p /\ b >= p => e - 1 \in a .. b - 1
        /\ a > p => e - 1 \in a - 1 .. b - 1
    BY <1>0, <1>2, <1>4
  <2> QED BY <2>1, <2>2 DEF Ends
<1> QED BY <1>0, <1>2, <1>3, <1>4

\* The chunks on the way and in the files are known.
LEMMA AreKnown ==
    ASSUME FileTypeOK
    PROVE  /\ \A i \in 1 .. Len(Pipe) : Pipe[i] \in FileChunk /\ IsKnown(Pipe[i])
           /\ \A f \in Names : \A k \in 1 .. Len(Opened(f)) :
                 Opened(f)[k] \in FileChunk /\ IsKnown(Opened(f)[k])
BY PipeType, ContentType DEF IsKnown

-----------------------------------------------------------------------------
(* Blocks: what ReceivedIsWhole needs.                                     *)

\* Sends that did not overlap another of their name and of which the reader dropped nothing.
Undisturbed(S) == S \notin overlapped /\ S \notin taken

\* Whatever is in file f or among the first n chunks on the way of that name, its send ends
\* there, if the reader dropped nothing of it.
Ended(f, n) ==
    /\ \A k \in 1 .. Len(Opened(f)) : Opened(f)[k].send \notin taken => Ends(Opened(f)[k].send, 1, n)
    /\ \A l \in 1 .. n : Pipe[l].name = f /\ Pipe[l].send \notin taken => Ends(Pipe[l].send, l, n)

NoneOf(f, a, b) == \A j \in a .. b : Pipe[j].name # f

\* The last chunk in file f is chunk k of send S.
LastIs(f, S, k) ==
    /\ Len(Opened(f)) # 0
    /\ Opened(f)[Len(Opened(f))].send = S /\ Opened(f)[Len(Opened(f))].seq = k

\* What the reader last saw of name f, when the first n chunks on the way have reached
\* him, is what comes before chunk k of send S: its chunk k - 1, or, before its first, nothing
\* that has not ended.
Before(f, n, S, k) ==
    \/ NoneOf(f, 1, n) /\ LastIs(f, S, k - 1)
    \/ \E i \in 1 .. n : Pipe[i].name = f /\ Pipe[i].send = S /\ Pipe[i].seq = k - 1 /\ NoneOf(f, i + 1, n)

Precedes(f, n, S, k) == IF k = 1 THEN Ended(f, n) ELSE Before(f, n, S, k)

\* Without a fault, each chunk that is on the way will find its predecessor, so will the
\* one each sender puts next; a send that has begun is still sent or has its end; and a
\* file begins with the first chunk of the send its last one is of.
ChunksFollow ==
    \A i \in 1 .. Len(Pipe) : Undisturbed(Pipe[i].send) =>
        Precedes(Pipe[i].name, i - 1, Pipe[i].send, Num(Pipe[i]))

SendersFollow ==
    \A s \in Senders : Sending(s) /\ seq_counter[s] # 1 /\ Undisturbed(ThisSend(s)) =>
        Before(file_name[s], Len(Pipe), ThisSend(s), seq_counter[s])

EndsCome ==
    /\ \A f \in Names : \A k \in 1 .. Len(Opened(f)) : Opened(f)[k].send \notin taken =>
          BeingSent(Opened(f)[k].send) \/ Ends(Opened(f)[k].send, 1, Len(Pipe))
    /\ \A l \in 1 .. Len(Pipe) : Pipe[l].send \notin taken =>
          BeingSent(Pipe[l].send) \/ Ends(Pipe[l].send, l, Len(Pipe))

Exact(c) == \A j \in 1 .. Len(c) : c[j].seq = j /\ c[j].send = c[Len(c)].send

FileBegins(f) ==
    \/ Opened(f) = <<>>
    \/ \E k \in 1 .. Len(Opened(f)) : Opened(f)[k].send \in taken
    \/ Opened(f)[Len(Opened(f))].send \in overlapped
    \/ Exact(Opened(f))

FilesBegin == \A f \in Names : FileBegins(f)

Blocks == faults = 0 => ChunksFollow /\ SendersFollow /\ EndsCome /\ FilesBegin

BlocksIInv == FileBase /\ Blocks /\ ReceivedIsWhole

\* As long as there is no fault a step delivers what it moves.
LEMMA NoFaultYet ==
    ASSUME FileBase
    PROVE  /\ Fault => faults' # 0
           /\ \A m : Lost(m) \/ Doubled \/ Misplaced => faults' # 0
           /\ copies # {} => faults # 0
BY DEF FileBase, FileTypeOK, Counted, Lost, Doubled, Misplaced, Fault

LEMMA BlocksInit == InitFileTransfer => Blocks
<1> SUFFICES ASSUME InitFileTransfer PROVE ChunksFollow /\ SendersFollow /\ EndsCome /\ FilesBegin
  BY DEF Blocks
<1>1. Pipe = <<>> /\ Len(Pipe) = 0 /\ \A f \in Names : Opened(f) = <<>>
  BY DEF InitFileTransfer, Pipe, Opened
<1>2. ChunksFollow /\ SendersFollow
  BY <1>1 DEF InitFileTransfer, ChunksFollow, SendersFollow, Sending
<1>3. EndsCome /\ FilesBegin
  BY <1>1 DEF EndsCome, FilesBegin, FileBegins
<1> QED BY <1>2, <1>3

\* What is known of the first n chunks is not changed by those that are put after them.
LEMMA PrecedesGrows ==
    ASSUME FileTypeOK, NEW m, NEW d \in Nat, GrownBy(m, d), UNCHANGED <<TransferFdMap, taken>>,
           NEW f \in Names, NEW S, NEW k, NEW n \in Nat, n <= Len(Pipe)
    PROVE  /\ Ended(f, n) => Ended(f, n)'
           /\ Before(f, n, S, k) => Before(f, n, S, k)'
           /\ Precedes(f, n, S, k) => Precedes(f, n, S, k)'
<1>1. \A i \in 1 .. n : Pipe'[i] = Pipe[i]
  BY PipeType DEF GrownBy
<1>2. Opened(f)' = Opened(f)
  BY DEF Opened
<1>3. \A U : \A a \in 1 .. n : Ends(U, a, n) => Ends(U, a, n)'
  BY <1>1 DEF Ends, EndsAt
<1>4. Ended(f, n) => Ended(f, n)'
  <2> SUFFICES ASSUME Ended(f, n) PROVE Ended(f, n)'
    OBVIOUS
  <2>1. ASSUME NEW j \in 1 .. Len(Opened(f)), Opened(f)[j].send \notin taken
        PROVE  Ends(Opened(f)[j].send, 1, n)'
    <3>1. PICK U : U = Opened(f)[j].send
      OBVIOUS
    <3>2. Ends(U, 1, n)
      BY <2>1, <3>1 DEF Ended
    <3>3. 1 \in 1 .. n
      BY <3>2 DEF Ends
    <3>4. Ends(U, 1, n)'
      BY <1>3, <3>2, <3>3
    <3> QED BY <1>2, <3>1, <3>4
  <2>2. ASSUME NEW l \in 1 .. n, Pipe[l].name = f, Pipe[l].send \notin taken PROVE Ends(Pipe[l].send, l, n)'
    <3>1. PICK U : U = Pipe[l].send
      OBVIOUS
    <3>2. Ends(U, l, n)'
      BY <1>3, <2>2, <3>1 DEF Ended
    <3> QED BY <1>1, <3>1, <3>2
  <2> QED BY <1>1, <1>2, <2>1, <2>2 DEF Ended
<1>5. Before(f, n, S, k) => Before(f, n, S, k)'
  <2>1. LastIs(f, S, k - 1) => LastIs(f, S, k - 1)'
    BY <1>2 DEF LastIs
  <2>2. NoneOf(f, 1, n) => NoneOf(f, 1, n)'
    BY <1>1 DEF NoneOf
  <2>3. ASSUME NEW i \in 1 .. n, NoneOf(f, i + 1, n) PROVE NoneOf(f, i + 1, n)'
    BY <1>1, <2>3 DEF NoneOf
  <2> QED BY <1>1, <2>1, <2>2, <2>3 DEF Before
<1> QED BY <1>4, <1>5 DEF Precedes

\* A chunk of another name changes nothing, one that follows is followed by the next.
LEMMA BeforeSkips ==
    ASSUME FileTypeOK, NEW m, GrownBy(m, 1), UNCHANGED <<TransferFdMap, taken>>,
           NEW f \in Names, NEW S, NEW k, NEW n, n = Len(Pipe), Before(f, n, S, k), m.name # f
    PROVE  Before(f, n + 1, S, k)'
<1>1. n \in Nat /\ Pipe'[n + 1] = m /\ \A i \in 1 .. n : Pipe'[i] = Pipe[i]
  BY PipeType DEF GrownBy
<1>2. Before(f, n, S, k)'
  BY <1>1, PrecedesGrows
<1>3. \A i \in 1 .. n + 1 : NoneOf(f, i, n)' => NoneOf(f, i, n + 1)'
  BY <1>1 DEF NoneOf
<1>4. CASE NoneOf(f, 1, n)' /\ LastIs(f, S, k - 1)'
  BY <1>1, <1>3, <1>4 DEF Before
<1>5. ASSUME NEW i \in 1 .. n, Pipe'[i].name = f /\ Pipe'[i].send = S /\ Pipe'[i].seq = k - 1,
             NoneOf(f, i + 1, n)'
      PROVE  Before(f, n + 1, S, k)'
  <2>1. i \in 1 .. n + 1 /\ i + 1 \in 1 .. n + 1
    BY <1>1
  <2> QED BY <1>3, <1>5, <2>1 DEF Before
<1> QED BY <1>2, <1>4, <1>5 DEF Before

LEMMA BeforeFollows ==
    ASSUME FileTypeOK, NEW m, GrownBy(m, 1), NEW S, NEW k, NEW n, n = Len(Pipe),
           m.send = S, m.seq = k - 1
    PROVE  Before(m.name, n + 1, S, k)'
<1>1. n \in Nat /\ Pipe'[n + 1] = m
  BY PipeType DEF GrownBy
<1>2. NoneOf(m.name, (n + 1) + 1, n + 1)'
  BY <1>1 DEF NoneOf
<1> QED BY <1>1, <1>2 DEF Before

\* When nobody is sending a name, or only one who has not put a chunk, all sends of it
\* have ended.
LEMMA EndedNow ==
    ASSUME FileBase, EndsCome, NEW f \in Names,
           \A x \in FileChunk : IsKnown(x) /\ x.name = f => ~BeingSent(x.send)
    PROVE  Ended(f, Len(Pipe))
<1>0. FileTypeOK /\ FilesHoldTheirs
  BY DEF FileBase
<1>1. ASSUME NEW k \in 1 .. Len(Opened(f)), Opened(f)[k].send \notin taken
      PROVE  Ends(Opened(f)[k].send, 1, Len(Pipe))
  <2>1. Opened(f)[k] \in FileChunk /\ IsKnown(Opened(f)[k]) /\ Opened(f)[k].name = f
    BY <1>0, AreKnown DEF FilesHoldTheirs
  <2> QED BY <1>1, <2>1 DEF EndsCome
<1>2. ASSUME NEW l \in 1 .. Len(Pipe), Pipe[l].name = f, Pipe[l].send \notin taken
      PROVE  Ends(Pipe[l].send, l, Len(Pipe))
  <2>1. Pipe[l] \in FileChunk /\ IsKnown(Pipe[l])
    BY <1>0, AreKnown
  <2> QED BY <1>2, <2>1 DEF EndsCome
<1> QED BY <1>1, <1>2 DEF Ended

LEMMA EndedFirst ==
    ASSUME FileBase, EndsCome, NEW s \in Senders, Sending(s), seq_counter[s] = 1,
           ThisSend(s) \notin overlapped
    PROVE  Ended(file_name[s], Len(Pipe))
<1>0. FileTypeOK /\ NoSharing /\ ChunksAreSent
  BY DEF FileBase
<1>1. ASSUME NEW x \in FileChunk, IsKnown(x), x.name = file_name[s], BeingSent(x.send) PROVE FALSE
  <2>1. PICK o \in Senders : o = x.send.from
    BY DEF FileChunk, Send
  <2>2. Sending(o) /\ ThisSend(o) = x.send /\ x.name = file_name[o] /\ Num(x) < seq_counter[o]
    BY <1>0, <1>1, <2>1 DEF BeingSent, ChunksAreSent
  <2>3. Num(x) \in Nat \ {0}
    BY Markers DEF Num, FileChunk
  <2>4. CASE o = s
    BY <2>2, <2>3, <2>4
  <2>5. CASE o # s
    BY <1>0, <1>1, <2>2, <2>5 DEF NoSharing
  <2> QED BY <2>4, <2>5
<1>2. file_name[s] \in Names
  BY <1>0 DEF FileTypeOK
<1> QED BY <1>1, <1>2, EndedNow

\* Each step keeps the blocks; a chunk is put where its predecessor is, and the reader
\* closes a file that is whole.
LEMMA StartSendBlocks ==
    ASSUME FileBase, Blocks, NEW s \in Senders, NEW f \in Names, StartSend(s, f) PROVE Blocks'
<1> SUFFICES ASSUME faults' = 0 PROVE (ChunksFollow /\ SendersFollow /\ EndsCome /\ FilesBegin)'
  BY DEF Blocks
<1>0. FileTypeOK /\ Counted
  BY DEF FileBase
<1>1. /\ UNCHANGED <<copies, mailbox, onWay, readerVars, faultVars>>
      /\ UNCHANGED <<TransferFdMap, taken>>
      /\ Pipe' = Pipe /\ \A g : Opened(g)' = Opened(g)
  BY DEF StartSend, Pipe, Opened, readerVars
<1>2. ChunksFollow /\ SendersFollow /\ EndsCome /\ FilesBegin
  BY <1>1 DEF Blocks, faultVars
<1>3. /\ \A o \in Senders \ {s} : nth'[o] = nth[o]
      /\ \A o \in Senders \ {s} : file_name'[o] = file_name[o]
      /\ seq_counter'[s] = 1 /\ \A o \in Senders \ {s} : seq_counter'[o] = seq_counter[o]
      /\ overlapped \subseteq overlapped'
      /\ ~Sending(s)
  BY <1>0 DEF StartSend, FileTypeOK, Sending
<1>4. \A S : Undisturbed(S)' => Undisturbed(S)
  BY <1>1, <1>3 DEF Undisturbed
<1>5. \A S, a, b : Ends(S, a, b)' <=> Ends(S, a, b)
  BY <1>1 DEF Ends, EndsAt
<1>6. \A g, n : Ended(g, n) => Ended(g, n)'
  <2> SUFFICES ASSUME NEW g, NEW n, Ended(g, n) PROVE Ended(g, n)'
    OBVIOUS
  <2>1. ASSUME NEW k \in 1 .. Len(Opened(g)), Opened(g)[k].send \notin taken
        PROVE  Ends(Opened(g)[k].send, 1, n)'
    <3>1. PICK U : U = Opened(g)[k].send
      OBVIOUS
    <3>2. Ends(U, 1, n)'
      BY <1>5, <2>1, <3>1 DEF Ended
    <3> QED BY <1>1, <3>1, <3>2
  <2>2. ASSUME NEW l \in 1 .. n, Pipe[l].name = g, Pipe[l].send \notin taken PROVE Ends(Pipe[l].send, l, n)'
    <3>1. PICK U : U = Pipe[l].send
      OBVIOUS
    <3>2. Ends(U, l, n)'
      BY <1>5, <2>2, <3>1 DEF Ended
    <3> QED BY <1>1, <3>1, <3>2
  <2> QED BY <1>1, <2>1, <2>2 DEF Ended
<1>7. \A g, n, S, k : Before(g, n, S, k) => Before(g, n, S, k)'
  BY <1>1 DEF Before, NoneOf, LastIs
<1>8. ChunksFollow'
  <2> SUFFICES ASSUME NEW i \in 1 .. Len(Pipe), Undisturbed(Pipe[i].send)'
               PROVE  Precedes(Pipe[i].name, i - 1, Pipe[i].send, Num(Pipe[i]))'
    BY <1>1 DEF ChunksFollow
  <2>1. PICK g, S, k : g = Pipe[i].name /\ S = Pipe[i].send /\ k = Num(Pipe[i])
    OBVIOUS
  <2>2. Undisturbed(S)
    BY <1>1, <1>4, <2>1 DEF Undisturbed
  <2>3. Precedes(g, i - 1, S, k)
    BY <1>2, <2>1, <2>2 DEF ChunksFollow
  <2>4. Precedes(g, i - 1, S, k)'
    BY <1>6, <1>7, <2>3 DEF Precedes
  <2> QED BY <1>1, <2>1, <2>4 DEF Num
<1>9. SendersFollow'
  <2> SUFFICES ASSUME NEW o \in Senders, Sending(o)', seq_counter'[o] # 1, Undisturbed(ThisSend(o))'
               PROVE  Before(file_name[o], Len(Pipe), ThisSend(o), seq_counter[o])'
    BY DEF SendersFollow
  <2>1. o # s
    BY <1>3
  <2>2. /\ Sending(o) /\ seq_counter[o] # 1 /\ ThisSend(o)' = ThisSend(o)
        /\ file_name'[o] = file_name[o] /\ seq_counter'[o] = seq_counter[o]
    BY <1>3, <2>1 DEF Sending, ThisSend
  <2>3. Undisturbed(ThisSend(o))
    BY <1>1, <1>3, <2>2 DEF Undisturbed
  <2>4. PICK g, S, k : g = file_name[o] /\ S = ThisSend(o) /\ k = seq_counter[o]
    OBVIOUS
  <2>5. Before(g, Len(Pipe), S, k)'
    BY <1>1, <1>2, <1>7, <2>2, <2>3, <2>4 DEF SendersFollow
  <2> QED BY <2>2, <2>4, <2>5
<1>10. \A S \in Send : BeingSent(S) => BeingSent(S)'
  <2> SUFFICES ASSUME NEW S \in Send, BeingSent(S) PROVE BeingSent(S)'
    OBVIOUS
  <2>1. S.from \in Senders /\ S.from # s
    BY DEF BeingSent, StartSend, Send
  <2> QED BY <1>3, <2>1 DEF BeingSent, Sending, ThisSend
<1>11. EndsCome'
  <2>1. ASSUME NEW g \in Names, NEW k \in 1 .. Len(Opened(g)), Opened(g)[k].send \notin taken
        PROVE  BeingSent(Opened(g)[k].send)' \/ Ends(Opened(g)[k].send, 1, Len(Pipe))'
    <3>1. PICK U \in Send : U = Opened(g)[k].send
      BY <1>0, AreKnown DEF FileChunk
    <3>2. BeingSent(U)' \/ Ends(U, 1, Len(Pipe))'
      BY <1>1, <1>2, <1>5, <1>10, <2>1, <3>1 DEF EndsCome
    <3> QED BY <1>1, <3>1, <3>2
  <2>2. ASSUME NEW l \in 1 .. Len(Pipe), Pipe[l].send \notin taken
        PROVE  BeingSent(Pipe[l].send)' \/ Ends(Pipe[l].send, l, Len(Pipe))'
    <3>1. PICK U \in Send : U = Pipe[l].send
      BY <1>0, AreKnown DEF FileChunk
    <3>2. BeingSent(U)' \/ Ends(U, l, Len(Pipe))'
      BY <1>1, <1>2, <1>5, <1>10, <2>2, <3>1 DEF EndsCome
    <3> QED BY <1>1, <3>1, <3>2
  <2> QED BY <1>1, <2>1, <2>2 DEF EndsCome
<1>12. FilesBegin'
  <2>1. \A g : FileBegins(g) => FileBegins(g)'
    BY <1>1, <1>3 DEF FileBegins, Exact
  <2> QED BY <1>2, <2>1 DEF FilesBegin
<1> QED BY <1>8, <1>9, <1>11, <1>12

LEMMA SendBlocks ==
    ASSUME FileBase, Blocks, NEW s \in Senders, SendChunk(s) PROVE Blocks'
<1> SUFFICES ASSUME faults' = 0 PROVE (ChunksFollow /\ SendersFollow /\ EndsCome /\ FilesBegin)'
  BY DEF Blocks
<1>0. FileTypeOK /\ Counted /\ NoSharing
  BY DEF FileBase
<1>m. PICK m, L, T, k : m = ChunkOf(s) /\ L = Len(Pipe) /\ T = ThisSend(s) /\ k = seq_counter[s]
  OBVIOUS
<1>1. /\ Sending(s) /\ m \in FileChunk
      /\ seq_counter' = [seq_counter EXCEPT ![s] = AfterChunk(s)]
      /\ UNCHANGED <<file_name, nth, overlapped, readerVars>>
      /\ Delivered /\ GrownBy(m, 1)
  BY <1>m, SendEffect, NoFaultYet
<1>2. ChunksFollow /\ SendersFollow /\ EndsCome /\ FilesBegin
  BY <1>1 DEF Blocks, Delivered, faultVars
<1>3. /\ m.send = T /\ m.name = file_name[s] /\ Num(m) = k /\ T.from = s
      /\ file_name[s] \in Names /\ m.send \in Send
      /\ k \in 1 .. Chunks + 1
      /\ m.seq = EOF <=> k = Chunks + 1
      /\ AfterChunk(s) = IF k = Chunks + 1 THEN 0 ELSE k + 1
  BY <1>m, <1>0, <1>1, NextChunk DEF FileTypeOK, ThisSend
<1>4. /\ L \in Nat /\ Len(Pipe') = L + 1 /\ Pipe'[L + 1] = m
      /\ \A i \in 1 .. L : Pipe'[i] = Pipe[i]
  BY <1>m, <1>0, <1>1, PipeType DEF GrownBy
<1>5. UNCHANGED <<TransferFdMap, taken>> /\ \A g : Opened(g)' = Opened(g)
  BY <1>1 DEF readerVars, Opened
<1>6. \A g \in Names : \A S, c, n : n \in 0 .. L /\ Precedes(g, n, S, c) => Precedes(g, n, S, c)'
  BY <1>m, <1>0, <1>1, <1>4, <1>5, PrecedesGrows
<1>7. \A g \in Names : \A S, c : g # m.name /\ Before(g, L, S, c) => Before(g, L + 1, S, c)'
  BY <1>m, <1>0, <1>1, <1>5, BeforeSkips
<1>8. /\ seq_counter'[s] = AfterChunk(s)
      /\ \A o \in Senders \ {s} : seq_counter'[o] = seq_counter[o]
  BY <1>0, <1>1 DEF FileTypeOK
<1>9. \A o \in Senders : (Sending(o)' => Sending(o)) /\ ThisSend(o)' = ThisSend(o)
  BY <1>1, <1>8 DEF Sending, ThisSend
<1>10. \A S : Undisturbed(S)' <=> Undisturbed(S)
  BY <1>1, <1>5 DEF Undisturbed
<1>11. ChunksFollow'
  <2> SUFFICES ASSUME NEW i \in 1 .. L + 1, Undisturbed(Pipe[i].send)'
               PROVE  Precedes(Pipe[i].name, i - 1, Pipe[i].send, Num(Pipe[i]))'
    BY <1>4 DEF ChunksFollow
  <2>0. PICK g, S, c : g = Pipe'[i].name /\ S = Pipe'[i].send /\ c = Num(Pipe'[i])
    OBVIOUS
  <2>1. Undisturbed(S) /\ g \in Names /\ i - 1 \in 0 .. L
    <3>1. Undisturbed(S)
      BY <1>10, <2>0 DEF Undisturbed
    <3>2. Pipe'[i] \in FileChunk
      BY <1>m, <1>0, <1>1, <1>4, PipeType
    <3> QED BY <1>4, <2>0, <3>1, <3>2 DEF FileChunk
  <2>2. CASE i = L + 1
    <3>1. g = file_name[s] /\ S = T /\ c = k
      BY <1>3, <1>4, <2>0, <2>2
    <3>2. k = 1 => Ended(g, L)
      BY <1>m, <1>1, <1>2, <2>1, <3>1, EndedFirst DEF Undisturbed
    <3>3. k # 1 => Before(g, L, S, c)
      BY <1>m, <1>1, <1>2, <2>1, <3>1 DEF SendersFollow
    <3>4. Precedes(g, L, S, c) /\ L \in 0 .. L
      BY <1>4, <3>1, <3>2, <3>3 DEF Precedes
    <3>5. Precedes(g, L, S, c)'
      BY <1>6, <2>1, <3>4
    <3> QED BY <1>4, <2>0, <2>2, <3>5 DEF Num
  <2>3. CASE i # L + 1
    <3>1. i \in 1 .. L /\ Pipe'[i] = Pipe[i]
      BY <1>4, <2>3
    <3>2. Precedes(g, i - 1, S, c)
      BY <1>m, <1>2, <2>0, <2>1, <3>1 DEF ChunksFollow
    <3>3. Precedes(g, i - 1, S, c)'
      BY <1>6, <2>1, <3>2
    <3> QED BY <2>0, <3>3 DEF Num
  <2> QED BY <2>2, <2>3
<1>12. SendersFollow'
  <2> SUFFICES ASSUME NEW o \in Senders, Sending(o)', seq_counter'[o] # 1, Undisturbed(ThisSend(o))'
               PROVE  Before(file_name[o], Len(Pipe), ThisSend(o), seq_counter[o])'
    BY DEF SendersFollow
  <2>1. CASE o = s
    <3>1. seq_counter'[s] = k + 1 /\ k # Chunks + 1 /\ m.seq # EOF
      BY <1>3, <1>8, <2>1 DEF Sending
    <3>2. m.seq = (k + 1) - 1
      BY <1>3, <3>1 DEF Num
    <3>3. Before(m.name, L + 1, T, k + 1)'
      BY <1>m, <1>0, <1>1, <1>3, <3>2, BeforeFollows
    <3> QED BY <1>m, <1>1, <1>3, <1>4, <1>9, <2>1, <3>1, <3>3
  <2>2. CASE o # s
    <3>1. Sending(o) /\ ThisSend(o)' = ThisSend(o) /\ seq_counter'[o] = seq_counter[o]
          /\ Undisturbed(ThisSend(o)) /\ file_name[o] \in Names
      BY <1>0, <1>1, <1>5, <1>8, <1>9, <2>2 DEF FileTypeOK, Undisturbed
    <3>2. file_name[o] # m.name
      BY <1>0, <1>1, <1>3, <2>2, <3>1 DEF NoSharing, Undisturbed
    <3>3. PICK g, S, c : g = file_name[o] /\ S = ThisSend(o) /\ c = seq_counter[o]
      OBVIOUS
    <3>4. Before(g, L, S, c)
      BY <1>m, <1>2, <3>1, <3>3 DEF SendersFollow
    <3>5. Before(g, L + 1, S, c)'
      BY <1>7, <3>1, <3>2, <3>3, <3>4
    <3> QED BY <1>1, <1>4, <3>1, <3>3, <3>5
  <2> QED BY <2>1, <2>2
<1>13. ASSUME NEW U \in Send, NEW a \in 1 .. L + 1, BeingSent(U) \/ Ends(U, a, L)
       PROVE  BeingSent(U)' \/ Ends(U, a, L + 1)'
  <2>1. CASE Ends(U, a, L)
    <3>1. a \in Nat \ {0} /\ L <= L + 1 /\ L \in Int /\ L + 1 \in Int
      BY <1>4
    <3> QED BY <1>m, <1>0, <1>1, <2>1, <3>1, EndsGrow
  <2>2. CASE BeingSent(U) /\ U # T
    <3>1. U.from \in Senders /\ U.from # s
      BY <1>m, <2>2 DEF BeingSent, Send
    <3> QED BY <1>1, <1>8, <2>2, <3>1 DEF BeingSent, Sending, ThisSend
  <2>3. CASE U = T /\ m.seq = EOF
    <3>1. EndsAt(U, L + 1)' /\ L + 1 \in a .. L + 1
      BY <1>3, <1>4, <2>3 DEF EndsAt
    <3> QED BY <3>1 DEF Ends
  <2>4. CASE U = T /\ m.seq # EOF
    <3>1. seq_counter'[s] > 0 /\ nth'[s] = nth[s]
      BY <1>1, <1>3, <1>8, <2>4
    <3> QED BY <1>m, <1>3, <2>4, <3>1 DEF BeingSent, Sending, ThisSend
  <2> QED BY <1>13, <2>1, <2>2, <2>3, <2>4
<1>14. EndsCome'
  <2>1. ASSUME NEW g \in Names, NEW j \in 1 .. Len(Opened(g)), Opened(g)[j].send \notin taken
        PROVE  BeingSent(Opened(g)[j].send)' \/ Ends(Opened(g)[j].send, 1, L + 1)'
    <3>1. PICK U \in Send : U = Opened(g)[j].send
      BY <1>0, AreKnown DEF FileChunk
    <3>2. 1 \in 1 .. L + 1
      BY <1>4
    <3>3. BeingSent(U)' \/ Ends(U, 1, L + 1)'
      BY <1>m, <1>2, <1>13, <2>1, <3>1, <3>2 DEF EndsCome
    <3> QED BY <1>5, <3>1, <3>3
  <2>2. ASSUME NEW l \in 1 .. L + 1, Pipe'[l].send \notin taken
        PROVE  BeingSent(Pipe[l].send)' \/ Ends(Pipe[l].send, l, L + 1)'
    <3>1. PICK U \in Send : U = Pipe'[l].send
      BY <1>m, <1>0, <1>1, <1>4, PipeType DEF FileChunk
    <3>2. BeingSent(U) \/ Ends(U, l, L)
      <4>1. CASE l = L + 1
        BY <1>m, <1>1, <1>3, <1>4, <3>1, <4>1 DEF BeingSent
      <4>2. CASE l # L + 1
        <5>1. l \in 1 .. L /\ Pipe'[l] = Pipe[l]
          BY <1>4, <4>2
        <5> QED BY <1>m, <1>2, <2>2, <3>1, <5>1 DEF EndsCome
      <4> QED BY <4>1, <4>2
    <3>3. BeingSent(U)' \/ Ends(U, l, L + 1)'
      BY <1>13, <3>2
    <3> QED BY <3>1, <3>3
  <2> QED BY <1>4, <1>5, <2>1, <2>2 DEF EndsCome
<1>15. FilesBegin'
  <2>1. \A g : FileBegins(g) => FileBegins(g)'
    BY <1>1, <1>5 DEF FileBegins, Exact
  <2> QED BY <1>2, <2>1 DEF FilesBegin
<1> QED BY <1>11, <1>12, <1>14, <1>15

\* The first chunk on the way leaves it: the reader shows it, or drops it.
FirstLeaves ==
    /\ Removed(1)
    /\ UNCHANGED senderVars
    /\ \/ Show(Pipe[1])
       \/ UNCHANGED TransferFdMap /\ taken' = taken \cup {Pipe[1].send}

\* What is in a file then, of a send of which nothing was dropped.
LEMMA FirstInFile ==
    ASSUME FileBase, FirstLeaves
    PROVE  /\ taken \subseteq taken'
           /\ \A f \in Names : \A k \in 1 .. Len(Opened(f)') : Opened(f)'[k].send \notin taken' =>
                 /\ ~EndsAt(Opened(f)'[k].send, 1)
                 /\ \/ \E j \in 1 .. Len(Opened(f)) : Opened(f)'[k] = Opened(f)[j]
                    \/ Opened(f)'[k] = Pipe[1] /\ Pipe[1].name = f
<1>0. FileTypeOK /\ FilesHoldTheirs /\ ChunksAreSent
  BY DEF FileBase
<1>m. PICK m : m = Pipe[1]
  OBVIOUS
<1>1. m \in FileChunk /\ IsKnown(m) /\ Removed(1)
  BY <1>m, <1>0, AreKnown DEF FirstLeaves, Removed
<1>2. CASE Show(m)
  <2>1. taken' = taken
    BY <1>0, <1>1, <1>2, ShowTypes
  <2> SUFFICES ASSUME NEW f \in Names, NEW k \in 1 .. Len(Opened(f)')
               PROVE  /\ ~EndsAt(Opened(f)'[k].send, 1)
                      /\ \/ \E j \in 1 .. Len(Opened(f)) : Opened(f)'[k] = Opened(f)[j]
                         \/ Opened(f)'[k] = m /\ m.name = f
    BY <1>m, <2>1
  <2>2. Len(Opened(f)) \in Nat
    BY <1>0, ContentType
  <2>3. f = m.name => m.seq # EOF
    BY <1>0, <1>1, <1>2, ShowContents
  <2>4. \/ k \in 1 .. Len(Opened(f)) /\ Opened(f)'[k] = Opened(f)[k]
        \/ Opened(f)'[k] = m /\ m.name = f
    <3>1. CASE f # m.name
      BY <1>0, <1>1, <1>2, <3>1, ShowContents
    <3>2. CASE f = m.name
      <4>1. /\ Len(Opened(f)') = Len(Opened(f)) + 1
            /\ \A j \in 1 .. Len(Opened(f)) : Opened(f)'[j] = Opened(f)[j]
            /\ Opened(f)'[Len(Opened(f)) + 1] = m
        BY <1>0, <1>1, <1>2, <2>3, <3>2, ShowContents
      <4>2. k \in 1 .. Len(Opened(f)) \/ k = Len(Opened(f)) + 1
        BY <2>2, <4>1
      <4> QED BY <3>2, <4>1, <4>2
    <3> QED BY <3>1, <3>2
  <2>5. ~EndsAt(Opened(f)'[k].send, 1)
    <3>1. CASE k \in 1 .. Len(Opened(f)) /\ Opened(f)'[k] = Opened(f)[k]
      <4>1. PICK x \in FileChunk : x = Opened(f)[k] /\ IsKnown(x) /\ x.name = f
        BY <1>0, <3>1, AreKnown DEF FilesHoldTheirs
      <4>2. x.send = m.send => f = m.name
        BY <1>0, <1>1, <4>1 DEF ChunksAreSent
      <4> QED BY <1>m, <2>3, <3>1, <4>1, <4>2 DEF EndsAt
    <3>2. CASE Opened(f)'[k] = m /\ m.name = f
      BY <1>m, <2>3, <3>2 DEF EndsAt
    <3> QED BY <2>4, <3>1, <3>2
  <2> QED BY <2>4, <2>5
<1>3. CASE UNCHANGED TransferFdMap /\ taken' = taken \cup {m.send}
  <2>1. \A f \in Names : Opened(f)' = Opened(f)
    BY <1>3 DEF Opened
  <2>2. \A S : S \notin taken' => ~EndsAt(S, 1)
    BY <1>m, <1>3 DEF EndsAt
  <2> QED BY <1>3, <2>1, <2>2
<1> QED BY <1>m, <1>2, <1>3 DEF FirstLeaves

\* What has ended and what comes before a chunk moves up.
LEMMA EndedShifts ==
    ASSUME FileBase, FirstLeaves, NEW f \in Names, NEW n \in 1 .. Len(Pipe), Ended(f, n)
    PROVE  Ended(f, n - 1)'
<1>0. FileTypeOK /\ Removed(1)
  BY DEF FileBase, FirstLeaves
<1>1. /\ Len(Pipe) \in Nat /\ 1 \in 1 .. n /\ n \in Int /\ n <= Len(Pipe) /\ n >= 1
      /\ \A i \in 1 .. n - 1 : Pipe'[i] = Pipe[i + 1]
  BY <1>0, PipeType DEF Removed
<1>2. ASSUME NEW k \in 1 .. Len(Opened(f)'), Opened(f)'[k].send \notin taken'
      PROVE  Ends(Opened(f)[k].send, 1, n - 1)'
  <2>1. PICK S : S = Opened(f)'[k].send
    OBVIOUS
  <2>2. S \notin taken /\ ~EndsAt(S, 1)
    BY <1>2, <2>1, FirstInFile
  <2>3. Ends(S, 1, n)
    <3>1. CASE \E j \in 1 .. Len(Opened(f)) : Opened(f)'[k] = Opened(f)[j]
      BY <2>1, <2>2, <3>1 DEF Ended
    <3>2. CASE Opened(f)'[k] = Pipe[1] /\ Pipe[1].name = f
      BY <1>1, <2>1, <2>2, <3>2 DEF Ended
    <3> QED BY <1>2, <3>1, <3>2, FirstInFile
  <2>4. 1 \in Nat \ {0} /\ 1 <= 1
    OBVIOUS
  <2>5. Ends(S, 1, n - 1)'
    BY <1>0, <1>1, <2>2, <2>3, <2>4, EndsRemove
  <2> QED BY <2>1, <2>5
<1>3. ASSUME NEW l \in 1 .. n - 1, Pipe'[l].name = f, Pipe'[l].send \notin taken'
      PROVE  Ends(Pipe[l].send, l, n - 1)'
  <2>1. PICK S : S = Pipe'[l].send
    OBVIOUS
  <2>2. l + 1 \in 1 .. n /\ l + 1 \in Nat \ {0} /\ l + 1 > 1 /\ (l + 1) - 1 = l
    BY <1>1
  <2>3. Ends(S, l + 1, n)
    BY <1>1, <1>3, <2>1, <2>2, FirstInFile DEF Ended
  <2>4. Ends(S, (l + 1) - 1, n - 1)'
    BY <1>0, <1>1, <2>2, <2>3, EndsRemove
  <2> QED BY <2>1, <2>2, <2>4
<1> QED BY <1>2, <1>3 DEF Ended

LEMMA BeforeShifts ==
    ASSUME FileBase, FirstLeaves, NEW f \in Names, NEW S, S \notin taken', NEW k \in Nat \ {0, 1},
           NEW n \in 1 .. Len(Pipe), Before(f, n, S, k)
    PROVE  Before(f, n - 1, S, k)'
<1>0. FileTypeOK /\ Removed(1) /\ Len(Pipe) \in Nat /\ Pipe[1] \in FileChunk
  BY PipeType DEF FileBase, FirstLeaves, Removed
<1>1. \A i \in 1 .. n - 1 : Pipe'[i] = Pipe[i + 1]
  BY <1>0 DEF Removed
<1>2. ASSUME NEW i \in 1 .. n, NoneOf(f, i + 1, n) PROVE NoneOf(f, i, n - 1)'
  <2> SUFFICES ASSUME NEW j \in i .. n - 1 PROVE Pipe'[j].name # f
    BY DEF NoneOf
  <2>1. j + 1 \in i + 1 .. n /\ j \in 1 .. n - 1
    BY <1>0
  <2> QED BY <1>1, <1>2, <2>1 DEF NoneOf
<1>3. CASE NoneOf(f, 1, n) /\ LastIs(f, S, k - 1)
  <2>1. Pipe[1].name # f
    BY <1>0, <1>3 DEF NoneOf
  <2>2. Opened(f)' = Opened(f)
    BY <1>0, <2>1, ShowContents DEF FirstLeaves, Opened
  <2>3. NoneOf(f, 1, n - 1)'
    BY <1>0, <1>2, <1>3 DEF NoneOf
  <2> QED BY <1>3, <2>2, <2>3 DEF Before, LastIs
<1>4. ASSUME NEW i \in 1 .. n, Pipe[i].name = f, Pipe[i].send = S, Pipe[i].seq = k - 1, NoneOf(f, i + 1, n)
      PROVE  Before(f, n - 1, S, k)'
  <2>1. CASE i = 1
    <3>1. NoneOf(f, 1, n - 1)'
      BY <1>0, <1>2, <1>4, <2>1
    <3>2. LastIs(f, S, k - 1)'
      <4>1. Show(Pipe[1]) /\ Pipe[1].seq # EOF
        BY <1>4, <2>1 DEF FirstLeaves, EOF
      <4>2. Len(Opened(f)') = Len(Opened(f)) + 1 /\ Opened(f)'[Len(Opened(f)) + 1] = Pipe[1]
        BY <1>0, <1>4, <2>1, <4>1, ShowContents
      <4>3. Len(Opened(f)) \in Nat
        BY <1>0, ContentType
      <4> QED BY <1>4, <2>1, <4>2, <4>3 DEF LastIs
    <3> QED BY <3>1, <3>2 DEF Before
  <2>2. CASE i # 1
    <3>1. i - 1 \in 1 .. n - 1 /\ Pipe'[i - 1] = Pipe[i]
      BY <1>0, <1>1, <2>2
    <3>2. NoneOf(f, (i - 1) + 1, n - 1)'
      BY <1>0, <1>2, <1>4
    <3> QED BY <1>4, <3>1, <3>2 DEF Before
  <2> QED BY <2>1, <2>2
<1> QED BY <1>3, <1>4 DEF Before

LEMMA EndsComeShifts ==
    ASSUME FileBase, FirstLeaves, EndsCome PROVE EndsCome'
<1>0. FileTypeOK /\ Removed(1)
  BY DEF FileBase, FirstLeaves
<1>m. PICK L : L = Len(Pipe)
  OBVIOUS
<1>1. L \in Nat \ {0} /\ L \in Int /\ L <= Len(Pipe) /\ Len(Pipe') = L - 1
      /\ \A i \in 1 .. L - 1 : Pipe'[i] = Pipe[i + 1]
  BY <1>m, <1>0, PipeType DEF Removed
<1>2. \A S : BeingSent(S)' <=> BeingSent(S)
  BY DEF FirstLeaves, BeingSent, senderVars, Sending, ThisSend
<1>3. ASSUME NEW f \in Names, NEW k \in 1 .. Len(Opened(f)'), Opened(f)'[k].send \notin taken'
      PROVE  BeingSent(Opened(f)[k].send)' \/ Ends(Opened(f)[k].send, 1, L - 1)'
  <2>1. PICK S : S = Opened(f)'[k].send
    OBVIOUS
  <2>2. S \notin taken /\ ~EndsAt(S, 1)
    BY <1>3, <2>1, FirstInFile
  <2>3. BeingSent(S) \/ Ends(S, 1, L)
    <3>1. CASE \E j \in 1 .. Len(Opened(f)) : Opened(f)'[k] = Opened(f)[j]
      BY <1>m, <2>1, <2>2, <3>1 DEF EndsCome
    <3>2. CASE Opened(f)'[k] = Pipe[1]
      <4>1. 1 \in 1 .. Len(Pipe)
        BY <1>m, <1>1
      <4> QED BY <1>m, <2>1, <2>2, <3>2, <4>1 DEF EndsCome
    <3> QED BY <1>3, <3>1, <3>2, FirstInFile
  <2>4. Ends(S, 1, L) => Ends(S, 1, L - 1)'
    BY <1>0, <1>1, <2>2, EndsRemove
  <2>5. BeingSent(S)' \/ Ends(S, 1, L - 1)'
    BY <1>2, <2>3, <2>4
  <2> QED BY <2>1, <2>5
<1>4. ASSUME NEW l \in 1 .. L - 1, Pipe'[l].send \notin taken'
      PROVE  BeingSent(Pipe[l].send)' \/ Ends(Pipe[l].send, l, L - 1)'
  <2>1. PICK S : S = Pipe'[l].send
    OBVIOUS
  <2>2. l + 1 \in 1 .. L /\ l + 1 \in Nat \ {0} /\ l + 1 > 1 /\ (l + 1) - 1 = l
    BY <1>1
  <2>3. BeingSent(S) \/ Ends(S, l + 1, L)
    BY <1>m, <1>1, <1>4, <2>1, <2>2, FirstInFile DEF EndsCome
  <2>4. Ends(S, l + 1, L) => Ends(S, (l + 1) - 1, L - 1)'
    BY <1>0, <1>1, <2>2, EndsRemove
  <2>5. BeingSent(S)' \/ Ends(S, l, L - 1)'
    BY <1>2, <2>2, <2>3, <2>4
  <2> QED BY <2>1, <2>5
<1> QED BY <1>1, <1>3, <1>4 DEF EndsCome

\* Together, when the first leaves.
LEMMA FollowShifts ==
    ASSUME FileBase, FirstLeaves, ChunksFollow, SendersFollow PROVE ChunksFollow' /\ SendersFollow'
<1>0. FileTypeOK /\ Removed(1)
  BY DEF FileBase, FirstLeaves
<1>m. PICK L : L = Len(Pipe)
  OBVIOUS
<1>1. L \in Nat \ {0} /\ Len(Pipe') = L - 1 /\ \A i \in 1 .. L - 1 : Pipe'[i] = Pipe[i + 1]
  BY <1>m, <1>0, PipeType DEF Removed
<1>2. UNCHANGED <<seq_counter, file_name, nth, overlapped>> /\ taken \subseteq taken'
  BY FirstInFile DEF FirstLeaves, senderVars
<1>3. \A S : Undisturbed(S)' => Undisturbed(S) /\ S \notin taken'
  BY <1>2 DEF Undisturbed
<1>4. ChunksFollow'
  <2> SUFFICES ASSUME NEW i \in 1 .. L - 1, Undisturbed(Pipe[i].send)'
               PROVE  Precedes(Pipe[i].name, i - 1, Pipe[i].send, Num(Pipe[i]))'
    BY <1>1 DEF ChunksFollow
  <2>1. i + 1 \in 1 .. L /\ i \in 1 .. L /\ Pipe'[i] = Pipe[i + 1] /\ (i + 1) - 1 = i
    BY <1>1
  <2>2. PICK x \in FileChunk : x = Pipe'[i] /\ x = Pipe[i + 1]
    BY <1>m, <1>0, <2>1, PipeType
  <2>3. PICK f, S, k : f = x.name /\ S = x.send /\ k = Num(x)
    OBVIOUS
  <2>4. f \in Names /\ k \in Nat \ {0}
    BY <2>3, Markers DEF FileChunk, Num
  <2>5. Undisturbed(S) /\ S \notin taken'
    BY <1>3, <2>2, <2>3 DEF Undisturbed
  <2>6. Precedes(f, i, S, k)
    BY <1>m, <2>1, <2>2, <2>3, <2>5 DEF ChunksFollow
  <2>7. Precedes(f, i - 1, S, k)'
    BY <1>m, <2>1, <2>4, <2>5, <2>6, EndedShifts, BeforeShifts DEF Precedes
  <2> QED BY <2>2, <2>3, <2>7 DEF Num
<1>5. SendersFollow'
  <2> SUFFICES ASSUME NEW o \in Senders, Sending(o)', seq_counter'[o] # 1, Undisturbed(ThisSend(o))'
               PROVE  Before(file_name[o], Len(Pipe), ThisSend(o), seq_counter[o])'
    BY DEF SendersFollow
  <2>1. PICK f, S, k : f = file_name[o] /\ S = ThisSend(o) /\ k = seq_counter[o]
    OBVIOUS
  <2>2. Sending(o) /\ k # 1 /\ ThisSend(o)' = S
    BY <1>2, <2>1 DEF Sending, ThisSend
  <2>3. f \in Names /\ k \in Nat \ {0, 1}
    BY <1>0, <2>1, <2>2, Markers DEF FileTypeOK, Sending
  <2>4. Undisturbed(S) /\ S \notin taken'
    BY <1>2, <2>2 DEF Undisturbed
  <2>5. Before(f, L, S, k) /\ L \in 1 .. Len(Pipe)
    BY <1>m, <1>1, <2>1, <2>2, <2>4 DEF SendersFollow
  <2>6. Before(f, L - 1, S, k)'
    BY <2>3, <2>4, <2>5, BeforeShifts
  <2> QED BY <1>1, <1>2, <2>1, <2>2, <2>6
<1> QED BY <1>4, <1>5

\* A chunk that is written continues its file, an end closes one that is whole.
LEMMA ShowFollows ==
    ASSUME FileBase, FilesBegin, NEW m \in FileChunk, Show(m), UNCHANGED overlapped,
           Undisturbed(m.send) => Precedes(m.name, 0, m.send, Num(m))
    PROVE  /\ FilesBegin'
           /\ m.seq = EOF => LET r == [end |-> m.send, content |-> Opened(m.name)] IN
                 Whole(r.content) \/ r.end \in overlapped \/ Sends(r) \cap taken # {}
<1>0. FileTypeOK /\ FilesHoldTheirs
  BY DEF FileBase
<1>m. PICK f, c, S : f = m.name /\ c = Opened(f) /\ S = m.send
  OBVIOUS
<1>1. f \in Names /\ c \in Seq(FileChunk) /\ Len(c) \in Nat /\ UNCHANGED taken
  BY <1>m, <1>0, ContentType, ShowTypes DEF FileChunk
<1>2. FileBegins(f) /\ \A g \in Names : FileBegins(g)
  BY <1>1 DEF FilesBegin
<1>3. Undisturbed(S) =>
        \/ \A k \in 1 .. Len(c) : c[k].send \in taken
        \/ Num(m) # 1 /\ Len(c) # 0 /\ c[Len(c)].send = S /\ c[Len(c)].seq = Num(m) - 1
  <2>1. CASE Num(m) = 1
    BY <1>m, <2>1 DEF Precedes, Ended, Ends
  <2>2. CASE Num(m) # 1
    BY <1>m, <2>2 DEF Precedes, Before, LastIs
  <2> QED BY <2>1, <2>2
<1>4. Num(m) # 1 /\ Undisturbed(S) =>
        Len(c) # 0 /\ c[Len(c)].send = S /\ c[Len(c)].seq = Num(m) - 1
  BY <1>m DEF Precedes, Before, LastIs
<1>5. c = <<>> <=> Len(c) = 0
  BY <1>1
<1>6. Undisturbed(S) /\ Num(m) # 1 =>
        \/ \E k \in 1 .. Len(c) : c[k].send \in taken
        \/ /\ Len(c) = Num(m) - 1
           /\ \A k \in 1 .. Len(c) : c[k].seq = k /\ c[k].send = S
  <2> SUFFICES ASSUME Undisturbed(S), Num(m) # 1, ~ \E k \in 1 .. Len(c) : c[k].send \in taken
               PROVE  Len(c) = Num(m) - 1 /\ \A k \in 1 .. Len(c) : c[k].seq = k /\ c[k].send = S
    OBVIOUS
  <2>1. Len(c) # 0 /\ c[Len(c)].send = S /\ c[Len(c)].seq = Num(m) - 1
    BY <1>4
  <2>2. Exact(c)
    BY <1>m, <1>2, <1>5, <2>1 DEF FileBegins, Undisturbed
  <2>3. Len(c) \in 1 .. Len(c)
    BY <1>1, <2>1
  <2> QED BY <2>1, <2>2, <2>3 DEF Exact
<1>7. CASE m.seq = EOF
  <2>1. FilesBegin'
    <3>1. ASSUME NEW g \in Names PROVE FileBegins(g)'
      <4>1. CASE g = f
        BY <1>m, <1>0, <1>7, <4>1, ShowContents DEF FileBegins
      <4>2. CASE g # f
        <5>1. Opened(g)' = Opened(g)
          BY <1>m, <1>0, <4>2, ShowContents
        <5> QED BY <1>1, <1>2, <5>1 DEF FileBegins, Exact
      <4> QED BY <4>1, <4>2
    <3> QED BY <3>1 DEF FilesBegin
  <2>2. Num(m) = Chunks + 1 /\ Num(m) # 1 /\ Chunks \in Nat \ {0}
    BY <1>7, Markers DEF Num
  <2>3. PICK r : r = [end |-> m.send, content |-> Opened(m.name)]
    OBVIOUS
  <2>4. r.end = S /\ r.content = c /\ DOMAIN c = 1 .. Len(c)
    BY <1>m, <1>1, <2>3
  <2>5. S \in taken => Sends(r) \cap taken # {}
    BY <2>4 DEF Sends
  <2>6. (\E k \in 1 .. Len(c) : c[k].send \in taken) => Sends(r) \cap taken # {}
    BY <2>4 DEF Sends
  <2>7. Len(c) = Num(m) - 1 /\ (\A k \in 1 .. Len(c) : c[k].seq = k /\ c[k].send = S) => Whole(r.content)
    BY <2>2, <2>4 DEF Whole
  <2>8. Whole(r.content) \/ r.end \in overlapped \/ Sends(r) \cap taken # {}
    BY <1>6, <2>2, <2>4, <2>5, <2>6, <2>7, Zenon DEF Undisturbed
  <2> QED BY <2>1, <2>3, <2>8
<1>8. CASE m.seq # EOF
  <2>1. Num(m) = m.seq /\ m.seq \in Nat \ {0}
    BY <1>8, Markers DEF Num, FileChunk
  <2>2. /\ Len(Opened(f)') = Len(c) + 1
        /\ \A k \in 1 .. Len(c) : Opened(f)'[k] = c[k]
        /\ Opened(f)'[Len(c) + 1] = m
    BY <1>m, <1>0, <1>8, ShowContents
  <2>3. FileBegins(f)'
    <3>1. CASE S \in overlapped
      BY <1>m, <2>2, <3>1 DEF FileBegins
    <3>2. CASE S \in taken
      <4>1. Len(c) + 1 \in 1 .. Len(Opened(f)')
        BY <1>1, <2>2
      <4> QED BY <1>m, <1>1, <2>2, <3>2, <4>1 DEF FileBegins
    <3>3. ASSUME NEW k \in 1 .. Len(c), c[k].send \in taken PROVE FileBegins(f)'
      <4>1. k \in 1 .. Len(Opened(f)') /\ Opened(f)'[k] = c[k]
        BY <1>1, <2>2
      <4> QED BY <1>1, <3>3, <4>1 DEF FileBegins
    <3>4. CASE Undisturbed(S) /\ Len(c) = m.seq - 1 /\ \A k \in 1 .. Len(c) : c[k].seq = k /\ c[k].send = S
      <4>1. \A k \in 1 .. Len(Opened(f)') : k \in 1 .. Len(c) \/ k = Len(c) + 1
        BY <1>1, <2>2
      <4>2. \A k \in 1 .. Len(Opened(f)') : Opened(f)'[k].seq = k /\ Opened(f)'[k].send = S
        <5>1. ASSUME NEW k \in 1 .. Len(c) PROVE Opened(f)'[k].seq = k /\ Opened(f)'[k].send = S
          BY <2>2, <3>4
        <5>2. Opened(f)'[Len(c) + 1].seq = Len(c) + 1 /\ Opened(f)'[Len(c) + 1].send = S
          BY <1>m, <1>1, <2>1, <2>2, <3>4
        <5> QED BY <4>1, <5>1, <5>2
      <4>3. Opened(f)'[Len(Opened(f)')].send = S
        BY <1>m, <2>2
      <4>4. Exact(Opened(f)')
        BY <4>2, <4>3 DEF Exact
      <4> QED BY <4>4 DEF FileBegins, Exact
    <3>5. CASE Undisturbed(S) /\ Num(m) = 1
      <4>1. CASE Len(c) = 0
        BY <2>1, <3>4, <3>5, <4>1
      <4>2. CASE Len(c) # 0
        <5>1. 1 \in 1 .. Len(c) /\ c[1].send \in taken
          BY <1>1, <1>3, <3>5, <4>2
        <5> QED BY <3>3, <5>1
      <4> QED BY <4>1, <4>2
    <3> QED BY <1>6, <2>1, <3>1, <3>2, <3>3, <3>4, <3>5 DEF Undisturbed
  <2>4. ASSUME NEW g \in Names, g # f PROVE FileBegins(g)'
    <3>1. Opened(g)' = Opened(g)
      BY <1>m, <1>0, <2>4, ShowContents
    <3> QED BY <1>1, <1>2, <3>1 DEF FileBegins, Exact
  <2> QED BY <1>8, <2>3, <2>4 DEF FilesBegin
<1> QED BY <1>7, <1>8

LEMMA ReceiveBlocks ==
    ASSUME FileBase, Blocks, ReceivedIsWhole, Receive PROVE Blocks' /\ ReceivedIsWhole'
<1> SUFFICES ASSUME faults' = 0
             PROVE  (ChunksFollow /\ SendersFollow /\ EndsCome /\ FilesBegin)' /\ ReceivedIsWhole'
  BY DEF Blocks, ReceivedIsWhole
<1>0. FileTypeOK
  BY DEF FileBase
<1>1. Removed(1) /\ Show(Pipe[1]) /\ Delivered /\ UNCHANGED <<senderVars, copies, mailbox>>
  <2>1. PICK p \in {1, 2} : Received(p)
    BY <1>0, ReceiveRemoves
  <2>2. p = 1
    BY <2>1, NoFaultYet DEF Received
  <2> QED BY <2>1, <2>2 DEF Received, Receive
<1>2. ChunksFollow /\ SendersFollow /\ EndsCome /\ FilesBegin /\ faults = 0
  BY <1>1 DEF Blocks, Delivered, faultVars
<1>3. FirstLeaves
  BY <1>1 DEF FirstLeaves
<1>4. PICK m : m = Pipe[1]
  OBVIOUS
<1>5. m \in FileChunk /\ Show(m) /\ 1 \in 1 .. Len(Pipe) /\ UNCHANGED <<overlapped, taken>>
  BY <1>0, <1>1, <1>4, PipeType, ShowTypes DEF Removed, senderVars
<1>6. Undisturbed(m.send) => Precedes(m.name, 0, m.send, Num(m))
  BY <1>2, <1>4, <1>5 DEF ChunksFollow
<1>7. /\ FilesBegin'
      /\ m.seq = EOF => LET r == [end |-> m.send, content |-> Opened(m.name)] IN
            Whole(r.content) \/ r.end \in overlapped \/ Sends(r) \cap taken # {}
  BY <1>2, <1>5, <1>6, ShowFollows
<1>8. ReceivedIsWhole'
  <2> SUFFICES ASSUME NEW r \in received'
               PROVE  Whole(r.content) \/ r.end \in overlapped \/ Sends(r) \cap taken # {}
    BY <1>5 DEF ReceivedIsWhole, Whole, Sends
  <2>1. r \in received \/ (m.seq = EOF /\ r = [end |-> m.send, content |-> Opened(m.name)])
    BY <1>5 DEF Show
  <2> QED BY <1>2, <1>7, <2>1 DEF ReceivedIsWhole
<1> QED BY <1>2, <1>3, <1>7, <1>8, FollowShifts, EndsComeShifts

LEMMA SwallowBlocks == ASSUME FileBase, Blocks, Swallow PROVE Blocks'
<1> SUFFICES ASSUME faults' = 0 PROVE (ChunksFollow /\ SendersFollow /\ EndsCome /\ FilesBegin)'
  BY DEF Blocks
<1>0. FileTypeOK
  BY DEF FileBase
<1>1. /\ UNCHANGED <<senderVars, mailbox, TransferFdMap, faults>>
      /\ Removed(1) /\ taken' = taken \cup {Pipe[1].send}
  BY <1>0, ReceiveFirst DEF Swallow
<1>2. ChunksFollow /\ SendersFollow /\ EndsCome /\ FilesBegin
  BY <1>1 DEF Blocks
<1>3. FirstLeaves
  BY <1>1 DEF FirstLeaves
<1>4. FilesBegin'
  <2>1. \A f \in Names : FileBegins(f) => FileBegins(f)'
    BY <1>1 DEF FileBegins, Exact, Opened, senderVars
  <2> QED BY <1>2, <2>1 DEF FilesBegin
<1> QED BY <1>2, <1>3, <1>4, FollowShifts, EndsComeShifts

LEMMA RestartBlocks == ASSUME FileBase, Blocks, Restart PROVE Blocks'
<1> SUFFICES ASSUME faults' = 0 PROVE (ChunksFollow /\ SendersFollow /\ EndsCome /\ FilesBegin)'
  BY DEF Blocks
<1>0. FileTypeOK
  BY DEF FileBase
<1>1. /\ UNCHANGED <<senderVars, Pipe, faults>>
      /\ \A f \in Names : Opened(f)' = <<>>
      /\ taken \subseteq taken'
      /\ \A f \in Names : \A k \in 1 .. Len(Opened(f)) : Opened(f)[k].send \in taken'
  BY <1>0, RestartCloses DEF faultVars
<1>2. ChunksFollow /\ SendersFollow /\ EndsCome
  BY <1>1 DEF Blocks
<1>3. \A S, a, b : (Ends(S, a, b)' <=> Ends(S, a, b)) /\ (BeingSent(S)' <=> BeingSent(S))
  BY <1>1 DEF Ends, EndsAt, BeingSent, senderVars, Sending, ThisSend
<1>4. \A f \in Names : \A n : Ended(f, n) => Ended(f, n)'
  <2> SUFFICES ASSUME NEW f \in Names, NEW n, Ended(f, n) PROVE Ended(f, n)'
    OBVIOUS
  <2>1. ASSUME NEW l \in 1 .. n, Pipe[l].name = f, Pipe[l].send \notin taken' PROVE Ends(Pipe[l].send, l, n)'
    <3>1. PICK U : U = Pipe[l].send
      OBVIOUS
    <3>2. Ends(U, l, n)'
      BY <1>1, <1>3, <2>1, <3>1 DEF Ended
    <3> QED BY <1>1, <3>1, <3>2
  <2> QED BY <1>1, <2>1 DEF Ended
<1>5. ASSUME NEW f \in Names, NEW n, NEW S, NEW k, S \notin taken', Before(f, n, S, k)
      PROVE  Before(f, n, S, k)'
  <2>1. ~LastIs(f, S, k - 1)
    <3> SUFFICES ASSUME LastIs(f, S, k - 1) PROVE FALSE
      OBVIOUS
    <3>1. Len(Opened(f)) \in 1 .. Len(Opened(f))
      BY <1>0, ContentType DEF LastIs
    <3> QED BY <1>1, <1>5, <3>1 DEF LastIs
  <2> QED BY <1>1, <1>5, <2>1 DEF Before, NoneOf
<1>6. ChunksFollow'
  <2> SUFFICES ASSUME NEW i \in 1 .. Len(Pipe), Undisturbed(Pipe[i].send)'
               PROVE  Precedes(Pipe[i].name, i - 1, Pipe[i].send, Num(Pipe[i]))'
    BY <1>1 DEF ChunksFollow
  <2>1. PICK f, S, k : f = Pipe[i].name /\ S = Pipe[i].send /\ k = Num(Pipe[i])
    OBVIOUS
  <2>2. Undisturbed(S) /\ S \notin taken' /\ f \in Names
    BY <1>0, <1>1, <2>1, PipeType DEF Undisturbed, senderVars, FileChunk
  <2>3. Precedes(f, i - 1, S, k)
    BY <1>2, <2>1, <2>2 DEF ChunksFollow
  <2>4. Precedes(f, i - 1, S, k)'
    BY <1>4, <1>5, <2>2, <2>3 DEF Precedes
  <2> QED BY <1>1, <2>1, <2>4 DEF Num
<1>7. SendersFollow'
  <2> SUFFICES ASSUME NEW o \in Senders, Sending(o)', seq_counter'[o] # 1, Undisturbed(ThisSend(o))'
               PROVE  Before(file_name[o], Len(Pipe), ThisSend(o), seq_counter[o])'
    BY DEF SendersFollow
  <2>1. PICK f, S, k : f = file_name[o] /\ S = ThisSend(o) /\ k = seq_counter[o]
    OBVIOUS
  <2>2. /\ f \in Names /\ ThisSend(o)' = S /\ Sending(o) /\ k # 1
        /\ file_name'[o] = f /\ seq_counter'[o] = k
    BY <1>0, <1>1, <2>1 DEF FileTypeOK, senderVars, ThisSend, Sending
  <2>3. Undisturbed(S) /\ S \notin taken'
    BY <1>1, <2>2 DEF Undisturbed, senderVars
  <2>4. Before(f, Len(Pipe), S, k)'
    BY <1>1, <1>2, <1>5, <2>1, <2>2, <2>3 DEF SendersFollow
  <2> QED BY <2>2, <2>4
<1>8. EndsCome'
  <2>1. ASSUME NEW l \in 1 .. Len(Pipe), Pipe[l].send \notin taken'
        PROVE  BeingSent(Pipe[l].send)' \/ Ends(Pipe[l].send, l, Len(Pipe))'
    <3>1. PICK U : U = Pipe[l].send
      OBVIOUS
    <3>2. BeingSent(U)' \/ Ends(U, l, Len(Pipe))'
      BY <1>1, <1>2, <1>3, <2>1, <3>1 DEF EndsCome
    <3> QED BY <1>1, <3>1, <3>2
  <2> QED BY <1>1, <2>1 DEF EndsCome
<1>9. FilesBegin'
  BY <1>1 DEF FilesBegin, FileBegins
<1> QED BY <1>6, <1>7, <1>8, <1>9

LEMMA BlocksStep ==
    ASSUME FileBase, Blocks, ReceivedIsWhole, [FileTransferNext]_fileVars
    PROVE  Blocks' /\ ReceivedIsWhole'
<1>0. FileTypeOK
  BY DEF FileBase
<1>1. ASSUME UNCHANGED received, overlapped \subseteq overlapped', taken \subseteq taken',
             faults' = 0 => faults = 0
      PROVE  ReceivedIsWhole'
  BY <1>1 DEF ReceivedIsWhole, Whole, Sends
<1>2. ASSUME UNCHANGED <<senderVars, Pipe, readerVars, faultVars>> PROVE Blocks'
  <2>1. /\ UNCHANGED <<Pipe, seq_counter, file_name, nth, overlapped, taken, faults>>
        /\ \A f : Opened(f)' = Opened(f)
        /\ \A s : (Sending(s)' <=> Sending(s)) /\ ThisSend(s)' = ThisSend(s)
    BY <1>2 DEF senderVars, readerVars, faultVars, Opened, Sending, ThisSend
  <2>2. ChunksFollow => ChunksFollow'
    BY <2>1 DEF ChunksFollow, Undisturbed, Precedes, Ended, Ends, EndsAt, Before, LastIs, NoneOf, Num
  <2>3. SendersFollow => SendersFollow'
    BY <2>1 DEF SendersFollow, Undisturbed, Before, LastIs, NoneOf
  <2>4. EndsCome => EndsCome'
    BY <2>1 DEF EndsCome, Ends, EndsAt, BeingSent
  <2>5. FilesBegin => FilesBegin'
    BY <2>1 DEF FilesBegin, FileBegins, Exact
  <2> QED BY <2>1, <2>2, <2>3, <2>4, <2>5 DEF Blocks
<1>3. CASE UNCHANGED fileVars
  <2>1. UNCHANGED <<senderVars, Pipe, readerVars, faultVars>>
    BY <1>3 DEF fileVars, Pipe
  <2> QED BY <1>1, <1>2, <2>1 DEF senderVars, readerVars, faultVars
<1>4. ASSUME NEW s \in Senders, NEW f \in Names, StartSend(s, f) PROVE Blocks' /\ ReceivedIsWhole'
  BY <1>1, <1>4, StartSendBlocks DEF StartSend, readerVars, faultVars
<1>5. ASSUME NEW s \in Senders, SendChunk(s) PROVE Blocks' /\ ReceivedIsWhole'
  <2>1. faults' = 0 => faults = 0
    BY <1>5, SendEffect, NoFaultYet DEF Delivered, faultVars
  <2>2. UNCHANGED <<received, overlapped, taken>>
    BY <1>5 DEF SendChunk, readerVars
  <2> QED BY <1>1, <1>5, <2>1, <2>2, SendBlocks
<1>6. CASE LateCopy
  <2>1. faults' # 0 /\ faults # 0
    BY <1>6, NoFaultYet DEF LateCopy, faultVars
  <2> QED BY <2>1 DEF Blocks, ReceivedIsWhole
<1>7. CASE GetMessage
  <2>1. UNCHANGED <<senderVars, readerVars>>
    BY <1>7 DEF GetMessage
  <2>2. CASE faults' = 0
    <3>1. Delivered /\ Pipe' = Pipe
      BY <1>0, <1>7, <2>2, GetEffect, NoFaultYet
    <3> QED BY <1>1, <1>2, <2>1, <3>1 DEF Delivered, faultVars, senderVars, readerVars
  <2>3. CASE faults' # 0
    BY <2>3 DEF Blocks, ReceivedIsWhole
  <2> QED BY <2>2, <2>3
<1>8. CASE Receive
  BY <1>8, ReceiveBlocks
<1>9. CASE Swallow
  BY <1>1, <1>9, SwallowBlocks DEF Swallow, senderVars
<1>10. CASE Restart
  BY <1>0, <1>1, <1>10, RestartBlocks, RestartCloses DEF senderVars, faultVars
<1> QED BY <1>3, <1>4, <1>5, <1>6, <1>7, <1>8, <1>9, <1>10 DEF FileTransferNext

LEMMA FileBaseAlways == FileTransferSpec => []FileBase
BY FileBaseInit, FileBaseStep, PTL DEF FileTransferSpec

\* The state of the file transfer keeps its type: what is written are chunks, what is in
\* TransferFdMap is open (client/Message.cpp:378-412).
THEOREM FileTypesAlways == FileTransferSpec => []FileTypeOK
<1>1. FileBase => FileTypeOK
  BY DEF FileBase
<1> QED BY FileBaseAlways, <1>1, PTL

\* While the transport does not fail, a file that is closed holds one whole send in order,
\* for any number of senders, names and chunks, unless the send that closed it overlapped
\* another one of its name (client/Message.cpp:384), or a chunk or the end of a send that is in
\* it was dropped by the reader: a PUT of his own read the answer (588-594), calls of other
\* screens after @quit did (552-557), or he started the client again.
THEOREM ReceivedIsAlwaysWhole == FileTransferSpec => []ReceivedIsWhole
<1>1. InitFileTransfer => BlocksIInv
  BY FileBaseInit, BlocksInit DEF BlocksIInv, ReceivedIsWhole, InitFileTransfer
<1>2. BlocksIInv /\ [FileTransferNext]_fileVars => BlocksIInv'
  BY FileBaseStep, BlocksStep DEF BlocksIInv
<1>3. BlocksIInv => ReceivedIsWhole
  BY DEF BlocksIInv
<1> QED BY <1>1, <1>2, <1>3, PTL DEF FileTransferSpec

-----------------------------------------------------------------------------
(* Mixing: what OnlyLostEndsMix needs.                                     *)

\* The chunks of one send are in order: on the way, in a file and behind it, in a file.
InOrder ==
    ~misplaced =>
        /\ \A i, j \in 1 .. Len(Pipe) : i <= j /\ Pipe[i].send = Pipe[j].send => Num(Pipe[i]) <= Num(Pipe[j])
        /\ \A f \in Names : \A k \in 1 .. Len(Opened(f)), i \in 1 .. Len(Pipe) :
              Opened(f)[k].send = Pipe[i].send => Opened(f)[k].seq <= Num(Pipe[i])
        /\ \A f \in Names : \A j, k \in 1 .. Len(Opened(f)) :
              j <= k /\ Opened(f)[j].send = Opened(f)[k].send => Opened(f)[j].seq <= Opened(f)[k].seq

\* Of a send that has a chunk at place l, 0 for the file: the end is still to come, and
\* no other send of the name comes before the end.
Settled(S, f, l) ==
    /\ BeingSent(S) \/ Ends(S, l + 1, Len(Pipe))
    /\ \A i \in l + 1 .. Len(Pipe) :
          Pipe[i].name = f /\ Pipe[i].send # S => Ends(S, l + 1, i - 1)

\* Sends whose end is missing, or that another send of the name overlapped: all others
\* are settled wherever they have a chunk.
Excused == endLost \cup overlapped

Apart ==
    ~misplaced =>
        /\ \A f \in Names : \A k \in 1 .. Len(Opened(f)) :
              Opened(f)[k].send \notin Excused => Settled(Opened(f)[k].send, f, 0)
        /\ \A l \in 1 .. Len(Pipe) : Pipe[l].seq # EOF /\ Pipe[l].send \notin Excused =>
              Settled(Pipe[l].send, Pipe[l].name, l)

MixIInv == FileBase /\ InOrder /\ Apart /\ OnlyLostEndsMix

\* A send keeps apart from those behind it when its end is not removed.
LEMMA SettledRemove ==
    ASSUME FileTypeOK, NEW p, Removed(p), UNCHANGED senderVars,
           NEW S, NEW f, NEW l \in 0 .. Len(Pipe), Settled(S, f, l)
    PROVE  /\ l < p /\ ~EndsAt(S, p) => Settled(S, f, l)'
           /\ l >= p => Settled(S, f, l - 1)'
<1>m. PICK L \in Nat : L = Len(Pipe)
  BY PipeType
<1>0. p \in 1 .. L /\ Len(Pipe') = L - 1 /\ l \in 0 .. L
  BY <1>m DEF Removed
<1>1. BeingSent(S) => BeingSent(S)'
  BY DEF BeingSent, senderVars, Sending, ThisSend
<1>2. /\ BeingSent(S) \/ Ends(S, l + 1, L)
      /\ \A i \in l + 1 .. L : Pipe[i].name = f /\ Pipe[i].send # S => Ends(S, l + 1, i - 1)
  BY <1>m DEF Settled
<1>3. CASE l < p /\ ~EndsAt(S, p)
  <2>1. l + 1 \in Nat \ {0} /\ l + 1 <= p
    BY <1>0, <1>3
  <2>2. Ends(S, l + 1, L) => Ends(S, l + 1, L - 1)'
    BY <1>m, <1>0, <1>3, <2>1, EndsRemove
  <2>3. ASSUME NEW i \in l + 1 .. L - 1, Pipe'[i].name = f, Pipe'[i].send # S
        PROVE  Ends(S, l + 1, i - 1)'
    <3>1. CASE i < p
      <4>1. Pipe[i].name = f /\ Pipe[i].send # S
        BY <1>0, <2>3, <3>1 DEF Removed
      <4>2. Ends(S, l + 1, i - 1)
        BY <1>2, <4>1
      <4>3. i - 1 \in Int /\ i - 1 <= L /\ i - 1 < p
        BY <1>0, <3>1
      <4> QED BY <1>m, <1>3, <2>1, <4>2, <4>3, EndsRemove
    <3>2. CASE i >= p
      <4>1. i \in p .. Len(Pipe) - 1 /\ i + 1 \in l + 1 .. L /\ (i + 1) - 1 = i
        BY <1>m, <1>0, <3>2
      <4>2. Pipe[i + 1].name = f /\ Pipe[i + 1].send # S
        BY <2>3, <4>1 DEF Removed
      <4>3. Ends(S, l + 1, i)
        BY <1>2, <4>1, <4>2
      <4>4. i \in Int /\ i <= L /\ i >= p
        BY <1>0, <3>2
      <4> QED BY <1>m, <1>3, <2>1, <4>3, <4>4, EndsRemove
    <3> QED BY <1>0, <3>1, <3>2
  <2> QED BY <1>0, <1>1, <1>2, <1>3, <2>2, <2>3 DEF Settled
<1>4. CASE l >= p
  <2>1. l + 1 \in Nat \ {0} /\ l + 1 > p /\ (l + 1) - 1 = l /\ (l - 1) + 1 = l
    BY <1>0, <1>4
  <2>2. ASSUME NEW b \in Int, b <= L, Ends(S, l + 1, b) PROVE Ends(S, l, b - 1)'
    <3>1. PICK e \in l + 1 .. b : EndsAt(S, e)
      BY <2>2 DEF Ends
    <3>2. e - 1 \in p .. Len(Pipe) - 1 /\ (e - 1) + 1 = e /\ e - 1 \in l .. b - 1
      BY <1>m, <1>0, <1>4, <2>2
    <3>3. EndsAt(S, e - 1)'
      BY <3>1, <3>2 DEF Removed, EndsAt
    <3> QED BY <3>2, <3>3 DEF Ends
  <2>3. Ends(S, l + 1, L) => Ends(S, l, L - 1)'
    BY <2>2
  <2>4. ASSUME NEW i \in l .. L - 1, Pipe'[i].name = f, Pipe'[i].send # S
        PROVE  Ends(S, l, i - 1)'
    <3>1. i \in p .. Len(Pipe) - 1 /\ i + 1 \in l + 1 .. L /\ (i + 1) - 1 = i
      BY <1>m, <1>0, <1>4
    <3>2. Pipe[i + 1].name = f /\ Pipe[i + 1].send # S
      BY <2>4, <3>1 DEF Removed
    <3>3. Ends(S, l + 1, i)
      BY <1>2, <3>1, <3>2
    <3> QED BY <2>2, <3>1, <3>3
  <2> QED BY <1>0, <1>1, <1>2, <1>4, <2>1, <2>3, <2>4 DEF Settled
<1> QED BY <1>3, <1>4

\* Putting the next chunk of a send does not come between another send of the name
\* and its end, unless the two overlap.
LEMMA SettledSend ==
    ASSUME FileBase, NEW t \in Senders, SendChunk(t), ~misplaced',
           NEW x \in FileChunk, IsKnown(x), x.send \notin Excused',
           NEW l \in 0 .. Len(Pipe), Settled(x.send, x.name, l)
    PROVE  Settled(x.send, x.name, l)'
<1>0. FileTypeOK /\ Counted /\ NoSharing /\ ChunksAreSent
  BY DEF FileBase
<1>m. PICK m, T, L, S, o : m = ChunkOf(t) /\ T = ThisSend(t) /\ L = Len(Pipe) /\ S = x.send /\ o = S.from
  OBVIOUS
<1>1. /\ Sending(t) /\ m \in FileChunk
      /\ seq_counter' = [seq_counter EXCEPT ![t] = AfterChunk(t)]
      /\ UNCHANGED <<file_name, nth, overlapped>>
      /\ GrownBy(m, 1) \/ GrownBy(m, 2) \/ (GrownBy(m, 0) /\ Lost(m))
  BY <1>m, SendEffect DEF Misplaced
<1>2. PICK n \in Nat : GrownBy(m, n) /\ (n = 0 => Lost(m))
  BY <1>1
<1>3. /\ m.send = T /\ m.name = file_name[t]
      /\ seq_counter[t] \in 1 .. Chunks + 1
      /\ m.seq = EOF <=> seq_counter[t] = Chunks + 1
      /\ AfterChunk(t) = IF seq_counter[t] = Chunks + 1 THEN 0 ELSE seq_counter[t] + 1
  BY <1>m, <1>0, <1>1, NextChunk
<1>4. L \in Nat /\ Len(Pipe') = L + n /\ l \in 0 .. L /\ l + 1 \in Nat \ {0}
  BY <1>m, <1>0, <1>2, PipeType DEF GrownBy
<1>5. o \in Senders /\ S \notin Excused'
  BY <1>m DEF FileChunk, Send
<1>6. /\ BeingSent(S) \/ Ends(S, l + 1, L)
      /\ \A i \in l + 1 .. L : Pipe[i].name = x.name /\ Pipe[i].send # S => Ends(S, l + 1, i - 1)
  BY <1>m DEF Settled
<1>7. \A b, c \in Int : b <= L /\ b <= c /\ Ends(S, l + 1, b) => Ends(S, l + 1, c)'
  BY <1>m, <1>0, <1>2, <1>4, EndsGrow
<1>8. BeingSent(S)' \/ Ends(S, l + 1, L + n)'
  <2>1. CASE Ends(S, l + 1, L)
    BY <1>4, <1>7, <2>1
  <2>2. CASE BeingSent(S) /\ S # T
    <3>1. o # t
      BY <1>m, <2>2 DEF BeingSent
    <3>2. seq_counter'[o] = seq_counter[o] /\ nth'[o] = nth[o]
      BY <1>0, <1>1, <1>5, <3>1 DEF FileTypeOK
    <3> QED BY <1>m, <2>2, <3>2 DEF BeingSent, Sending, ThisSend
  <2>3. CASE S = T /\ m.seq # EOF
    <3>1. seq_counter'[t] > 0 /\ nth'[t] = nth[t]
      BY <1>0, <1>1, <1>3, <2>3 DEF FileTypeOK
    <3>2. o = t
      BY <1>m, <2>3 DEF ThisSend
    <3> QED BY <1>m, <2>3, <3>1, <3>2 DEF BeingSent, Sending, ThisSend
  <2>4. CASE S = T /\ m.seq = EOF
    <3>1. n # 0
      BY <1>2, <1>3, <1>5, <2>4 DEF Lost, NeverShown, Excused
    <3>2. L + 1 \in l + 1 .. L + n /\ L + 1 \in L + 1 .. L + n
      BY <1>4, <3>1
    <3>3. EndsAt(S, L + 1)'
      BY <1>m, <1>2, <1>3, <2>4, <3>2 DEF GrownBy, EndsAt
    <3> QED BY <3>2, <3>3 DEF Ends
  <2> QED BY <1>6, <2>1, <2>2, <2>3, <2>4
<1>9. ASSUME NEW i \in l + 1 .. L + n, Pipe'[i].name = x.name, Pipe'[i].send # S
      PROVE  Ends(S, l + 1, i - 1)'
  <2>1. CASE i <= L
    <3>1. Pipe'[i] = Pipe[i] /\ i \in l + 1 .. L
      BY <1>m, <1>2, <1>4, <2>1 DEF GrownBy
    <3>2. Ends(S, l + 1, i - 1)
      BY <1>6, <1>9, <3>1
    <3> QED BY <1>4, <1>7, <2>1, <3>2
  <2>2. CASE i > L
    <3>1. Pipe'[i] = m
      BY <1>m, <1>2, <1>4, <2>2 DEF GrownBy
    <3>2. m.name = x.name /\ T # S
      BY <1>3, <1>9, <3>1
    <3>3. ~BeingSent(S)
      <4> SUFFICES ASSUME BeingSent(S) PROVE FALSE
        OBVIOUS
      <4>1. Sending(o) /\ ThisSend(o) = S /\ o # t
        BY <1>m, <3>2 DEF BeingSent
      <4>2. x.name = file_name[o]
        BY <1>m, <1>0, <4>1 DEF ChunksAreSent
      <4>3. ThisSend(o) \in overlapped
        BY <1>0, <1>1, <1>3, <1>5, <3>2, <4>1, <4>2 DEF NoSharing
      <4> QED BY <1>1, <1>5, <4>1, <4>3 DEF Excused
    <3> QED BY <1>4, <1>6, <1>7, <2>2, <3>3
  <2> QED BY <1>4, <2>1, <2>2
<1> QED BY <1>m, <1>4, <1>8, <1>9 DEF Settled

LEMMA MixInit == InitFileTransfer => InOrder /\ Apart /\ OnlyLostEndsMix
<1> SUFFICES ASSUME InitFileTransfer PROVE InOrder /\ Apart /\ OnlyLostEndsMix
  OBVIOUS
<1>1. Pipe = <<>> /\ Len(Pipe) = 0 /\ \A f \in Names : Opened(f) = <<>>
  BY DEF InitFileTransfer, Pipe, Opened
<1>2. InOrder /\ Apart
  BY <1>1 DEF InOrder, Apart
<1> QED BY <1>2 DEF InitFileTransfer, OnlyLostEndsMix

\* Steps that close no file.
LEMMA NothingClosed ==
    ASSUME OnlyLostEndsMix, UNCHANGED received, misplaced => misplaced', Excused \subseteq Excused'
    PROVE  OnlyLostEndsMix'
BY DEF OnlyLostEndsMix, Excused

\* A step that moves no chunk disturbs no order.
LEMMA SameOrder ==
    ASSUME InOrder, Pipe' = Pipe, misplaced' = misplaced, \A f \in Names : Opened(f)' = Opened(f)
    PROVE  InOrder'
BY SMTT(30) DEF InOrder, Num

LEMMA SameApart ==
    ASSUME Apart, Pipe' = Pipe, \A f \in Names : Opened(f)' = Opened(f),
           UNCHANGED <<misplaced, senderVars, Excused>>
    PROVE  Apart'
<1>1. \A S, a, b : Ends(S, a, b)' <=> Ends(S, a, b)
  BY DEF Ends, EndsAt
<1>2. \A S : BeingSent(S)' <=> BeingSent(S)
  BY DEF BeingSent, senderVars, Sending, ThisSend
<1>3. \A S, g, l : Settled(S, g, l)' <=> Settled(S, g, l)
  BY <1>1, <1>2 DEF Settled
<1>4. ASSUME NEW g \in Names, NEW k \in 1 .. Len(Opened(g)'), ~misplaced', Opened(g)'[k].send \notin Excused'
      PROVE  Settled(Opened(g)[k].send, g, 0)'
  <2>1. PICK S : S = Opened(g)[k].send
    OBVIOUS
  <2>2. Settled(S, g, 0)'
    BY <1>3, <1>4, <2>1 DEF Apart
  <2> QED BY <2>1, <2>2
<1>5. ASSUME NEW l \in 1 .. Len(Pipe'), ~misplaced', Pipe'[l].seq # EOF, Pipe'[l].send \notin Excused'
      PROVE  Settled(Pipe[l].send, Pipe[l].name, l)'
  <2>1. PICK S, g : S = Pipe[l].send /\ g = Pipe[l].name
    OBVIOUS
  <2>2. Settled(S, g, l)'
    BY <1>3, <1>5, <2>1 DEF Apart
  <2> QED BY <2>1, <2>2
<1> QED BY <1>4, <1>5 DEF Apart

\* Each step that misplaces nothing keeps sends in order and apart.
LEMMA StartSendMix ==
    ASSUME MixIInv, NEW s \in Senders, NEW f \in Names, StartSend(s, f), ~misplaced'
    PROVE  InOrder' /\ Apart'
<1>0. FileTypeOK
  BY DEF MixIInv, FileBase
<1>1. /\ UNCHANGED <<copies, mailbox, onWay, readerVars, faultVars>>
      /\ Pipe' = Pipe /\ UNCHANGED TransferFdMap
      /\ Excused \subseteq Excused'
  BY DEF StartSend, Pipe, readerVars, faultVars, Excused
<1>2. \A g \in Names : Opened(g)' = Opened(g)
  BY <1>1 DEF Opened
<1>3. InOrder'
  BY <1>1, <1>2, SameOrder DEF MixIInv, faultVars
<1>4. \A S \in Send : BeingSent(S) => BeingSent(S)'
  <2> SUFFICES ASSUME NEW S \in Send, BeingSent(S) PROVE BeingSent(S)'
    OBVIOUS
  <2>1. S.from \in Senders /\ S.from # s
    BY DEF BeingSent, StartSend, Send
  <2>2. seq_counter'[S.from] = seq_counter[S.from] /\ nth'[S.from] = nth[S.from]
    BY <1>0, <2>1 DEF StartSend, FileTypeOK
  <2> QED BY <2>2 DEF BeingSent, Sending, ThisSend
<1>5. \A S, a, b : Ends(S, a, b)' <=> Ends(S, a, b)
  BY <1>1 DEF Ends, EndsAt
<1>6. \A S \in Send : \A g, l : Settled(S, g, l) => Settled(S, g, l)'
  BY <1>1, <1>4, <1>5 DEF Settled
<1>7. \A x \in FileChunk : \A g, l : Settled(x.send, g, l) => Settled(x.send, g, l)'
  BY <1>6 DEF FileChunk
<1>8. ASSUME NEW g \in Names, NEW k \in 1 .. Len(Opened(g)'), Opened(g)'[k].send \notin Excused'
      PROVE  Settled(Opened(g)[k].send, g, 0)'
  <2>1. PICK x \in FileChunk : x = Opened(g)[k]
    BY <1>0, <1>2, AreKnown
  <2>2. Settled(x.send, g, 0)
    BY <1>1, <1>2, <1>8, <2>1 DEF MixIInv, Apart, faultVars
  <2>3. Settled(x.send, g, 0)'
    BY <1>7, <2>2
  <2> QED BY <1>2, <2>1, <2>3
<1>9. ASSUME NEW l \in 1 .. Len(Pipe'), Pipe'[l].seq # EOF, Pipe'[l].send \notin Excused'
      PROVE  Settled(Pipe[l].send, Pipe[l].name, l)'
  <2>1. PICK x \in FileChunk : x = Pipe[l]
    BY <1>0, <1>1, PipeType
  <2>2. Settled(x.send, x.name, l)
    BY <1>1, <1>9, <2>1 DEF MixIInv, Apart, faultVars
  <2>3. Settled(x.send, x.name, l)'
    BY <1>7, <2>2
  <2> QED BY <1>1, <2>1, <2>3
<1> QED BY <1>3, <1>8, <1>9 DEF Apart

LEMMA SendMix ==
    ASSUME MixIInv, NEW t \in Senders, SendChunk(t), ~misplaced'
    PROVE  InOrder' /\ Apart' /\ (misplaced => misplaced') /\ Excused \subseteq Excused'
<1>0. FileBase /\ FileTypeOK /\ Counted /\ ChunksAreSent /\ FilesHoldTheirs
  BY DEF MixIInv, FileBase
<1>m. PICK m, T, L : m = ChunkOf(t) /\ T = ThisSend(t) /\ L = Len(Pipe)
  OBVIOUS
<1>1. /\ Sending(t) /\ m \in FileChunk
      /\ seq_counter' = [seq_counter EXCEPT ![t] = AfterChunk(t)]
      /\ UNCHANGED <<file_name, nth, overlapped, readerVars>>
      /\ \E n \in Nat : GrownBy(m, n)
      /\ (misplaced => misplaced') /\ endLost \subseteq endLost'
  BY <1>m, <1>0, SendEffect DEF Delivered, Lost, NeverShown, Doubled, Misplaced, faultVars
<1>2. PICK n \in Nat : GrownBy(m, n)
  BY <1>1
<1>3. /\ m.send = T /\ m.name = file_name[t] /\ m.send.from = t /\ T \in Send
      /\ seq_counter[t] \in 1 .. Chunks + 1 /\ Num(m) = seq_counter[t]
      /\ m.seq = EOF <=> seq_counter[t] = Chunks + 1
      /\ AfterChunk(t) = IF seq_counter[t] = Chunks + 1 THEN 0 ELSE seq_counter[t] + 1
  BY <1>m, <1>0, <1>1, NextChunk DEF ThisSend
<1>4. /\ L \in Nat /\ Len(Pipe') = L + n
      /\ \A i \in 1 .. L : Pipe'[i] = Pipe[i]
      /\ \A i \in L + 1 .. L + n : Pipe'[i] = m
  BY <1>m, <1>0, <1>2, PipeType DEF GrownBy
<1>5. Excused \subseteq Excused' /\ ~misplaced
  BY <1>1 DEF Excused
<1>6. \A g \in Names : Opened(g)' = Opened(g)
  BY <1>1 DEF Opened, readerVars
<1>7. \A x \in FileChunk : IsKnown(x) /\ x.send = T => Num(x) < Num(m)
  BY <1>m, <1>0, <1>1, <1>3 DEF ChunksAreSent
<1>8. InOrder'
  <2>1. ASSUME NEW i \in 1 .. L + n, NEW j \in 1 .. L + n, i <= j, Pipe'[i].send = Pipe'[j].send
        PROVE  Num(Pipe'[i]) <= Num(Pipe'[j])
    <3>1. CASE j <= L
      <4>1. i \in 1 .. L /\ j \in 1 .. L
        BY <1>4, <2>1, <3>1
      <4> QED BY <1>m, <1>4, <1>5, <2>1, <4>1 DEF MixIInv, InOrder
    <3>2. CASE j > L /\ i <= L
      <4>1. i \in 1 .. L /\ j \in L + 1 .. L + n
        BY <1>4, <2>1, <3>2
      <4>2. Pipe'[i] = Pipe[i] /\ Pipe'[j] = m /\ Pipe[i] \in FileChunk /\ IsKnown(Pipe[i])
        BY <1>m, <1>0, <1>4, <4>1, AreKnown
      <4>3. Num(Pipe[i]) < Num(m) /\ Num(Pipe[i]) \in Int /\ Num(m) \in Int
        BY <1>1, <1>3, <1>7, <2>1, <4>2, Markers DEF Num, FileChunk
      <4> QED BY <4>2, <4>3
    <3>3. CASE j > L /\ i > L
      <4>1. i \in L + 1 .. L + n /\ j \in L + 1 .. L + n
        BY <1>4, <2>1, <3>3
      <4> QED BY <1>3, <1>4, <4>1
    <3> QED BY <1>4, <3>1, <3>2, <3>3
  <2>2. ASSUME NEW f \in Names, NEW k \in 1 .. Len(Opened(f)), NEW i \in 1 .. L + n,
               Opened(f)[k].send = Pipe'[i].send
        PROVE  Opened(f)[k].seq <= Num(Pipe'[i])
    <3>1. CASE i <= L
      BY <1>m, <1>4, <1>5, <2>2, <3>1 DEF MixIInv, InOrder
    <3>2. CASE i > L
      <4>1. Pipe'[i] = m
        BY <1>4, <3>2
      <4>2. Opened(f)[k] \in FileChunk /\ IsKnown(Opened(f)[k]) /\ Opened(f)[k].seq # EOF
        BY <1>0, AreKnown DEF FilesHoldTheirs
      <4>3. Num(Opened(f)[k]) = Opened(f)[k].seq /\ Opened(f)[k].seq \in Int
        BY <4>2, Markers DEF Num, FileChunk
      <4> QED BY <1>3, <1>7, <2>2, <4>1, <4>2, <4>3
    <3> QED BY <1>4, <3>1, <3>2
  <2>3. \A f \in Names : \A j, k \in 1 .. Len(Opened(f)) :
              j <= k /\ Opened(f)[j].send = Opened(f)[k].send => Opened(f)[j].seq <= Opened(f)[k].seq
    BY <1>5 DEF MixIInv, InOrder
  <2> QED BY <1>4, <1>6, <2>1, <2>2, <2>3 DEF InOrder, Num
<1>9. ASSUME NEW x \in FileChunk, IsKnown(x), x.send \notin Excused',
             NEW l \in 0 .. L, Settled(x.send, x.name, l)
      PROVE  Settled(x.send, x.name, l)'
  BY <1>m, <1>0, <1>9, SettledSend
<1>10. ASSUME NEW f \in Names, NEW k \in 1 .. Len(Opened(f)'), Opened(f)'[k].send \notin Excused'
       PROVE  Settled(Opened(f)[k].send, f, 0)'
  <2>1. PICK x \in FileChunk : x = Opened(f)[k] /\ IsKnown(x) /\ x.name = f
    BY <1>0, <1>6, AreKnown DEF FilesHoldTheirs
  <2>2. Settled(x.send, x.name, 0)
    BY <1>5, <1>6, <1>10, <2>1 DEF MixIInv, Apart
  <2>3. 0 \in 0 .. L /\ x.send \notin Excused'
    BY <1>4, <1>6, <1>10, <2>1
  <2>4. Settled(x.send, x.name, 0)'
    BY <1>9, <2>1, <2>2, <2>3
  <2> QED BY <1>6, <2>1, <2>4
<1>11. ASSUME NEW l \in 1 .. L + n, Pipe'[l].seq # EOF, Pipe'[l].send \notin Excused'
       PROVE  Settled(Pipe[l].send, Pipe[l].name, l)'
  <2>1. CASE l <= L
    <3>1. l \in 1 .. L /\ l \in 0 .. L /\ Pipe'[l] = Pipe[l]
      BY <1>4, <2>1
    <3>2. PICK x \in FileChunk : x = Pipe[l] /\ IsKnown(x)
      BY <1>m, <1>0, <3>1, AreKnown
    <3>3. Settled(x.send, x.name, l)
      BY <1>m, <1>5, <1>11, <3>1, <3>2 DEF MixIInv, Apart
    <3>4. Settled(x.send, x.name, l)'
      BY <1>9, <1>11, <3>1, <3>2, <3>3
    <3> QED BY <3>1, <3>2, <3>4
  <2>2. CASE l > L
    <3>1. Pipe'[l] = m /\ l \in Nat
      BY <1>4, <2>2
    <3>2. BeingSent(T)'
      <4>1. seq_counter'[t] > 0 /\ nth'[t] = nth[t]
        BY <1>0, <1>1, <1>3, <1>11, <3>1 DEF FileTypeOK
      <4> QED BY <1>m, <1>3, <4>1 DEF BeingSent, Sending, ThisSend
    <3>3. \A i \in l + 1 .. L + n : Pipe'[i].send = T
      BY <1>3, <1>4, <2>2
    <3>4. PICK f : f = m.name
      OBVIOUS
    <3>5. Settled(T, f, l)'
      BY <1>4, <3>2, <3>3 DEF Settled
    <3> QED BY <1>3, <3>1, <3>4, <3>5
  <2> QED BY <1>4, <2>1, <2>2
<1>12. Apart'
  BY <1>4, <1>10, <1>11 DEF Apart
<1> QED BY <1>1, <1>5, <1>8, <1>12

\* Where a chunk was before another was removed.
LEMMA WasAt ==
    ASSUME FileTypeOK, NEW p, Removed(p), NEW i \in 1 .. Len(Pipe')
    PROVE  LET h == IF i < p THEN i ELSE i + 1 IN
           h \in 1 .. Len(Pipe) /\ h # p /\ Pipe'[i] = Pipe[h]
BY PipeType DEF Removed

\* The chunks that stay in the pipe stay in order.
LEMMA OrderRemains ==
    ASSUME FileTypeOK, InOrder, ~misplaced, NEW p, Removed(p)
    PROVE  \A i, j \in 1 .. Len(Pipe') :
               i <= j /\ Pipe'[i].send = Pipe'[j].send => Num(Pipe'[i]) <= Num(Pipe'[j])
<1> SUFFICES ASSUME NEW i \in 1 .. Len(Pipe'), NEW j \in 1 .. Len(Pipe'),
                    i <= j, Pipe'[i].send = Pipe'[j].send
             PROVE  Num(Pipe'[i]) <= Num(Pipe'[j])
  OBVIOUS
<1>1. PICK g, h \in 1 .. Len(Pipe) :
          /\ g = (IF i < p THEN i ELSE i + 1) /\ h = (IF j < p THEN j ELSE j + 1)
          /\ Pipe'[i] = Pipe[g] /\ Pipe'[j] = Pipe[h]
  BY WasAt
<1>2. g <= h
  BY <1>1, PipeType DEF Removed
<1> QED BY <1>1, <1>2 DEF InOrder

\* The chunks that stay in the pipe keep apart.
LEMMA ApartRemains ==
    ASSUME FileTypeOK, Apart, ~misplaced, NEW p, Removed(p), UNCHANGED senderVars,
           Excused \subseteq Excused', Pipe[p].seq = EOF => Pipe[p].send \in Excused' \/ p = 1
    PROVE  \A l \in 1 .. Len(Pipe') : Pipe'[l].seq # EOF /\ Pipe'[l].send \notin Excused' =>
               Settled(Pipe[l].send, Pipe[l].name, l)'
<1> SUFFICES ASSUME NEW l \in 1 .. Len(Pipe'), Pipe'[l].seq # EOF, Pipe'[l].send \notin Excused'
             PROVE  Settled(Pipe[l].send, Pipe[l].name, l)'
  OBVIOUS
<1>1. PICK h \in 1 .. Len(Pipe) : h = (IF l < p THEN l ELSE l + 1) /\ Pipe'[l] = Pipe[h]
  BY WasAt
<1>2. PICK x \in FileChunk : x = Pipe[h]
  BY PipeType
<1>3. Settled(x.send, x.name, h) /\ h \in 0 .. Len(Pipe)
  BY <1>1, <1>2 DEF Apart
<1>4. Len(Pipe) \in Nat /\ p \in 1 .. Len(Pipe)
  BY PipeType DEF Removed
<1>5. CASE l < p
  <2>1. ~EndsAt(x.send, p)
    BY <1>1, <1>2, <1>4, <1>5 DEF EndsAt
  <2>2. Settled(x.send, x.name, l)'
    BY <1>1, <1>3, <1>5, <2>1, SettledRemove
  <2> QED BY <1>1, <1>2, <2>2
<1>6. CASE l >= p
  <2>1. h >= p /\ h - 1 = l
    BY <1>1, <1>4, <1>6
  <2>2. Settled(x.send, x.name, h - 1)'
    BY <1>3, <2>1, SettledRemove
  <2> QED BY <1>1, <1>2, <2>1, <2>2
<1> QED BY <1>4, <1>5, <1>6

\* A chunk that is dropped leaves the others in order and apart.
LEMMA DropMix ==
    ASSUME MixIInv, NEW p, Removed(p), NeverShown(Pipe[p]), ~misplaced',
           UNCHANGED <<senderVars, misplaced, TransferFdMap>>
    PROVE  InOrder' /\ Apart' /\ Excused \subseteq Excused'
<1>0. FileTypeOK /\ \A g \in Names : Opened(g)' = Opened(g)
  BY DEF MixIInv, FileBase, Opened
<1>1. /\ ~misplaced /\ Excused \subseteq Excused'
      /\ Pipe[p].seq = EOF => Pipe[p].send \in Excused'
  BY DEF NeverShown, Excused, senderVars
<1>2. InOrder'
  <2>1. \A i, j \in 1 .. Len(Pipe') :
             i <= j /\ Pipe'[i].send = Pipe'[j].send => Num(Pipe'[i]) <= Num(Pipe'[j])
    BY <1>0, <1>1, OrderRemains DEF MixIInv
  <2>2. ASSUME NEW f \in Names, NEW k \in 1 .. Len(Opened(f)), NEW i \in 1 .. Len(Pipe'),
               Opened(f)[k].send = Pipe'[i].send
        PROVE  Opened(f)[k].seq <= Num(Pipe'[i])
    <3>1. PICK h \in 1 .. Len(Pipe) : Pipe'[i] = Pipe[h]
      BY <1>0, WasAt
    <3> QED BY <1>1, <2>2, <3>1 DEF MixIInv, InOrder
  <2>3. \A f \in Names : \A j, k \in 1 .. Len(Opened(f)) :
            j <= k /\ Opened(f)[j].send = Opened(f)[k].send => Opened(f)[j].seq <= Opened(f)[k].seq
    BY <1>1 DEF MixIInv, InOrder
  <2> QED BY <1>0, <2>1, <2>2, <2>3 DEF InOrder, Num
<1>3. \A l \in 1 .. Len(Pipe') : Pipe'[l].seq # EOF /\ Pipe'[l].send \notin Excused' =>
          Settled(Pipe[l].send, Pipe[l].name, l)'
  BY <1>0, <1>1, ApartRemains DEF MixIInv
<1>4. ASSUME NEW f \in Names, NEW k \in 1 .. Len(Opened(f)'), Opened(f)'[k].send \notin Excused'
      PROVE  Settled(Opened(f)[k].send, f, 0)'
  <2>1. PICK S : S = Opened(f)[k].send
    OBVIOUS
  <2>2. Settled(S, f, 0)
    BY <1>0, <1>1, <1>4, <2>1 DEF MixIInv, Apart
  <2>3. ~EndsAt(S, p) /\ 0 \in 0 .. Len(Pipe) /\ 0 < p
    BY <1>0, <1>1, <1>4, <2>1, PipeType DEF EndsAt, Removed
  <2>4. Settled(S, f, 0)'
    BY <1>0, <2>2, <2>3, SettledRemove
  <2> QED BY <1>0, <2>1, <2>4
<1>5. Apart'
  BY <1>3, <1>4 DEF Apart
<1> QED BY <1>1, <1>2, <1>5

LEMMA GetMix ==
    ASSUME MixIInv, GetMessage, ~misplaced'
    PROVE  InOrder' /\ Apart' /\ (misplaced => misplaced') /\ Excused \subseteq Excused'
<1>0. FileTypeOK
  BY DEF MixIInv, FileBase
<1>1. UNCHANGED senderVars /\ UNCHANGED <<TransferFdMap, overlapped>>
      /\ \A g \in Names : Opened(g)' = Opened(g)
  BY DEF GetMessage, readerVars, senderVars, Opened
<1>2. CASE Delivered /\ Pipe' = Pipe
  <2>1. UNCHANGED <<endLost, misplaced>> /\ Excused' = Excused
    BY <1>1, <1>2 DEF Delivered, faultVars, Excused
  <2>2. InOrder'
    BY <1>1, <1>2, <2>1, SameOrder DEF MixIInv
  <2>3. Apart'
    BY <1>1, <1>2, <2>1, SameApart DEF MixIInv
  <2> QED BY <2>1, <2>2, <2>3
<1>3. ASSUME NEW p \in 1 .. Len(Pipe), Lost(Pipe[p]), Removed(p)
      PROVE  InOrder' /\ Apart' /\ (misplaced => misplaced') /\ Excused \subseteq Excused'
  BY <1>1, <1>3, DropMix DEF Lost
<1> QED BY <1>0, <1>2, <1>3, GetEffect

LEMMA RestartMix ==
    ASSUME MixIInv, Restart
    PROVE  InOrder' /\ Apart'
<1>1. /\ UNCHANGED <<senderVars, Pipe, faultVars>>
      /\ \A f \in Names : Opened(f)' = <<>>
  BY RestartCloses DEF MixIInv, FileBase
<1>2. InOrder'
  BY <1>1 DEF MixIInv, InOrder, Num, faultVars
<1>3. \A S, f, l : Settled(S, f, l)' <=> Settled(S, f, l)
  BY <1>1 DEF Settled, Ends, EndsAt, BeingSent, senderVars, Sending, ThisSend
<1>4. ASSUME NEW l \in 1 .. Len(Pipe'), ~misplaced', Pipe'[l].seq # EOF, Pipe'[l].send \notin Excused'
      PROVE  Settled(Pipe[l].send, Pipe[l].name, l)'
  <2>1. PICK S, g : S = Pipe[l].send /\ g = Pipe[l].name
    OBVIOUS
  <2>2. Settled(S, g, l)'
    BY <1>1, <1>3, <1>4, <2>1 DEF MixIInv, Apart, Excused, senderVars, faultVars
  <2> QED BY <1>1, <2>1, <2>2
<1> QED BY <1>1, <1>2, <1>4 DEF Apart

\* The reader shows what is first.
LEMMA ReceiveMix ==
    ASSUME MixIInv, Receive, ~misplaced'
    PROVE  InOrder' /\ Apart' /\ OnlyLostEndsMix'
<1>0. FileBase /\ FileTypeOK /\ FilesHoldTheirs /\ ChunksAreSent
  BY DEF MixIInv, FileBase
<1>1. /\ Removed(1) /\ Show(Pipe[1]) /\ Delivered
      /\ UNCHANGED senderVars
  <2>1. PICK p \in {1, 2} : Received(p)
    BY <1>0, ReceiveRemoves
  <2>2. p = 1
    BY <2>1 DEF Received, Misplaced
  <2> QED BY <2>1, <2>2 DEF Received, Receive
<1>2. UNCHANGED <<misplaced, endLost, overlapped>> /\ Excused' = Excused /\ ~misplaced
  BY <1>1 DEF Delivered, faultVars, senderVars, Excused
<1>m. PICK m, L, h : m = Pipe[1] /\ L = Len(Pipe) /\ h = m.name
  OBVIOUS
<1>3. /\ L \in Nat \ {0} /\ Len(Pipe') = L - 1 /\ m \in FileChunk /\ IsKnown(m) /\ h \in Names
      /\ \A i \in 1 .. L - 1 : Pipe'[i] = Pipe[i + 1]
  BY <1>m, <1>0, <1>1, AreKnown, PipeType DEF Removed, FileChunk
<1>4. /\ \A f \in Names \ {h} : Opened(f)' = Opened(f)
      /\ m.seq = EOF => Opened(h)' = <<>>
      /\ m.seq # EOF =>
            /\ Len(Opened(h)') = Len(Opened(h)) + 1
            /\ \A k \in 1 .. Len(Opened(h)) : Opened(h)'[k] = Opened(h)[k]
            /\ Opened(h)'[Len(Opened(h)) + 1] = m
  BY <1>m, <1>0, <1>1, <1>3, ShowContents
<1>5. \A f \in Names : Len(Opened(f)) \in Nat
  BY <1>0, ContentType
<1>6. ASSUME NEW f \in Names, NEW k \in 1 .. Len(Opened(f)')
      PROVE  \/ k \in 1 .. Len(Opened(f)) /\ Opened(f)'[k] = Opened(f)[k] /\ (f = h => m.seq # EOF)
             \/ f = h /\ m.seq # EOF /\ Opened(f)'[k] = m /\ k = Len(Opened(f)) + 1
  <2>1. CASE f # h
    BY <1>4, <2>1
  <2>2. CASE f = h
    <3>1. m.seq # EOF
      BY <1>4, <1>6, <2>2
    <3>2. k \in 1 .. Len(Opened(f)) \/ k = Len(Opened(f)) + 1
      BY <1>4, <1>5, <1>6, <2>2, <3>1
    <3> QED BY <1>4, <2>2, <3>1, <3>2
  <2> QED BY <2>1, <2>2
<1>7. InOrder'
  <2>1. \A i, j \in 1 .. Len(Pipe') :
             i <= j /\ Pipe'[i].send = Pipe'[j].send => Num(Pipe'[i]) <= Num(Pipe'[j])
    BY <1>0, <1>1, <1>2, OrderRemains DEF MixIInv
  <2>2. ASSUME NEW f \in Names, NEW k \in 1 .. Len(Opened(f)'), NEW i \in 1 .. Len(Pipe'),
               Opened(f)'[k].send = Pipe'[i].send
        PROVE  Opened(f)'[k].seq <= Num(Pipe'[i])
    <3>1. i + 1 \in 1 .. L /\ Pipe'[i] = Pipe[i + 1] /\ 1 <= i + 1 /\ 1 \in 1 .. L
      BY <1>3
    <3>2. CASE k \in 1 .. Len(Opened(f)) /\ Opened(f)'[k] = Opened(f)[k]
      BY <1>m, <1>2, <2>2, <3>1, <3>2 DEF MixIInv, InOrder
    <3>3. CASE Opened(f)'[k] = m /\ m.seq # EOF
      <4>1. Num(m) <= Num(Pipe[i + 1])
        BY <1>m, <1>2, <2>2, <3>1, <3>3 DEF MixIInv, InOrder
      <4> QED BY <3>1, <3>3, <4>1 DEF Num
    <3> QED BY <1>6, <3>2, <3>3
  <2>3. ASSUME NEW f \in Names, NEW j \in 1 .. Len(Opened(f)'), NEW k \in 1 .. Len(Opened(f)'),
               j <= k, Opened(f)'[j].send = Opened(f)'[k].send
        PROVE  Opened(f)'[j].seq <= Opened(f)'[k].seq
    <3>1. CASE k \in 1 .. Len(Opened(f)) /\ Opened(f)'[k] = Opened(f)[k]
      <4>1. j \in 1 .. Len(Opened(f)) /\ Opened(f)'[j] = Opened(f)[j]
        BY <1>5, <1>6, <2>3, <3>1
      <4> QED BY <1>2, <2>3, <3>1, <4>1 DEF MixIInv, InOrder
    <3>2. CASE f = h /\ m.seq # EOF /\ Opened(f)'[k] = m
      <4>1. CASE j \in 1 .. Len(Opened(f)) /\ Opened(f)'[j] = Opened(f)[j]
        <5>1. Opened(f)[j].seq <= Num(m) /\ Num(m) = m.seq
          BY <1>m, <1>2, <1>3, <2>3, <3>2, <4>1 DEF MixIInv, InOrder, Num
        <5> QED BY <3>2, <4>1, <5>1
      <4>2. CASE Opened(f)'[j] = m
        <5>1. m.seq \in Int
          BY <1>3, Markers DEF FileChunk, EOF
        <5> QED BY <3>2, <4>2, <5>1
      <4> QED BY <1>6, <4>1, <4>2
    <3> QED BY <1>6, <3>1, <3>2
  <2> QED BY <2>1, <2>2, <2>3 DEF InOrder, Num
<1>8. \A l \in 1 .. Len(Pipe') : Pipe'[l].seq # EOF /\ Pipe'[l].send \notin Excused' =>
          Settled(Pipe[l].send, Pipe[l].name, l)'
  BY <1>0, <1>1, <1>2, ApartRemains DEF MixIInv
<1>9. ASSUME NEW f \in Names, NEW k \in 1 .. Len(Opened(f)'), Opened(f)'[k].send \notin Excused'
      PROVE  Settled(Opened(f)[k].send, f, 0)'
  <2>1. CASE k \in 1 .. Len(Opened(f)) /\ Opened(f)'[k] = Opened(f)[k] /\ (f = h => m.seq # EOF)
    <3>1. PICK x \in FileChunk : x = Opened(f)[k] /\ IsKnown(x) /\ x.name = f
      BY <1>0, <2>1, AreKnown DEF FilesHoldTheirs
    <3>2. Settled(x.send, f, 0)
      BY <1>2, <1>9, <2>1, <3>1 DEF MixIInv, Apart
    <3>3. ~EndsAt(x.send, 1)
      <4>1. m.seq = EOF => m.send # x.send
        BY <1>m, <1>0, <1>3, <2>1, <3>1 DEF ChunksAreSent
      <4> QED BY <1>m, <4>1 DEF EndsAt
    <3>4. 0 \in 0 .. Len(Pipe) /\ 0 < 1
      BY <1>m, <1>3
    <3>5. Settled(x.send, f, 0)'
      BY <1>0, <1>1, <3>2, <3>3, <3>4, SettledRemove
    <3> QED BY <2>1, <3>1, <3>5
  <2>2. CASE f = h /\ m.seq # EOF /\ Opened(f)'[k] = m
    <3>1. Settled(m.send, m.name, 1)
      BY <1>m, <1>2, <1>3, <1>9, <2>2 DEF MixIInv, Apart
    <3>2. 1 \in 0 .. Len(Pipe) /\ 1 >= 1 /\ 1 - 1 = 0
      BY <1>m, <1>3
    <3>3. PICK S : S = m.send
      OBVIOUS
    <3>4. Settled(S, h, 1 - 1)'
      BY <1>m, <1>0, <1>1, <3>1, <3>2, <3>3, SettledRemove
    <3> QED BY <2>2, <3>2, <3>3, <3>4
  <2> QED BY <1>6, <2>1, <2>2
<1>10. Apart'
  BY <1>8, <1>9 DEF Apart
<1>11. OnlyLostEndsMix'
  <2> SUFFICES ASSUME NEW r \in received', NEW j \in 1 .. Len(r.content)
               PROVE  /\ r.content[j].send \in {r.end} \cup Excused
                      /\ \A k \in 1 .. j : r.content[k].send = r.content[j].send =>
                            r.content[k].seq <= r.content[j].seq
    BY <1>2 DEF OnlyLostEndsMix, Excused
  <2>1. CASE r \in received
    BY <1>2, <2>1 DEF MixIInv, OnlyLostEndsMix, Excused
  <2>2. CASE r \notin received
    <3>1. m.seq = EOF /\ r = [end |-> m.send, content |-> Opened(h)]
      BY <1>m, <1>1, <2>2 DEF Show
    <3>2. PICK x : x = Opened(h)[j]
      OBVIOUS
    <3>3. x.send \in {m.send} \cup Excused
      <4> SUFFICES ASSUME x.send \notin Excused PROVE x.send = m.send
        OBVIOUS
      <4>1. Settled(x.send, h, 0)
        BY <1>2, <1>3, <3>1, <3>2 DEF MixIInv, Apart
      <4>2. 1 \in 0 + 1 .. Len(Pipe) /\ 1 - 1 = 0
        BY <1>m, <1>3
      <4>3. ~Ends(x.send, 0 + 1, 1 - 1)
        BY DEF Ends
      <4> QED BY <1>m, <4>1, <4>2, <4>3 DEF Settled
    <3>4. \A k \in 1 .. j : Opened(h)[k].send = Opened(h)[j].send => Opened(h)[k].seq <= Opened(h)[j].seq
      BY <1>2, <1>3, <1>5, <3>1 DEF MixIInv, InOrder
    <3> QED BY <3>1, <3>2, <3>3, <3>4
  <2> QED BY <2>1, <2>2
<1> QED BY <1>7, <1>10, <1>11

LEMMA MixStep ==
    ASSUME MixIInv, [FileTransferNext]_fileVars
    PROVE  InOrder' /\ Apart' /\ OnlyLostEndsMix'
<1>0. FileBase /\ InOrder /\ Apart /\ OnlyLostEndsMix
  BY DEF MixIInv
<1>1. CASE UNCHANGED fileVars
  <2>1. UNCHANGED <<Pipe, misplaced, received, senderVars, Excused>>
        /\ \A f \in Names : Opened(f)' = Opened(f)
    BY <1>1 DEF fileVars, senderVars, readerVars, faultVars, Pipe, Opened, Excused
  <2>2. InOrder'
    BY <1>0, <2>1, SameOrder
  <2>3. Apart'
    BY <1>0, <2>1, SameApart
  <2> QED BY <1>0, <2>1, <2>2, <2>3, NothingClosed
<1>2. CASE misplaced'
  BY <1>2 DEF InOrder, Apart, OnlyLostEndsMix
<1>3. ASSUME NEW s \in Senders, NEW f \in Names, StartSend(s, f), ~misplaced'
      PROVE  InOrder' /\ Apart' /\ OnlyLostEndsMix'
  <2>1. UNCHANGED <<received, misplaced>> /\ Excused \subseteq Excused'
    BY <1>3 DEF StartSend, readerVars, faultVars, Excused
  <2> QED BY <1>0, <1>3, <2>1, StartSendMix, NothingClosed
<1>4. ASSUME NEW s \in Senders, SendChunk(s), ~misplaced'
      PROVE  InOrder' /\ Apart' /\ OnlyLostEndsMix'
  BY <1>0, <1>4, SendMix, NothingClosed DEF SendChunk, readerVars
<1>5. CASE LateCopy
  BY <1>0, <1>2, <1>5 DEF LateCopy, FileBase, Counted, faultVars
<1>6. CASE GetMessage /\ ~misplaced'
  BY <1>0, <1>6, GetMix, NothingClosed DEF GetMessage, readerVars
<1>7. CASE Receive /\ ~misplaced'
  BY <1>7, ReceiveMix
<1>8. CASE Swallow /\ ~misplaced'
  <2>1. Removed(1) /\ NeverShown(Pipe[1]) /\ UNCHANGED <<senderVars, misplaced, TransferFdMap, received>>
    BY <1>0, <1>8, ReceiveFirst DEF Swallow, FileBase
  <2> QED BY <1>0, <1>8, <2>1, DropMix, NothingClosed
<1>9. CASE Restart
  <2>1. UNCHANGED <<received, misplaced, endLost, overlapped>>
    BY <1>9 DEF Restart, senderVars, faultVars
  <2> QED BY <1>0, <1>9, <2>1, RestartMix, NothingClosed DEF Excused
<1> QED BY <1>1, <1>2, <1>3, <1>4, <1>5, <1>6, <1>7, <1>8, <1>9 DEF FileTransferNext

\* Whatever is lost or dropped and whatever is executed twice in a row, the chunks of a send are in
\* order in the file, and a file holds chunks of an earlier send only if that send's end was
\* lost or it overlapped another one of its name (client/Message.cpp:384-409).
THEOREM OnlyLostEndsEverMix == FileTransferSpec => []OnlyLostEndsMix
<1>1. InitFileTransfer => MixIInv
  BY FileBaseInit, MixInit DEF MixIInv
<1>2. MixIInv /\ [FileTransferNext]_fileVars => MixIInv'
  BY FileBaseStep, MixStep DEF MixIInv
<1>3. MixIInv => OnlyLostEndsMix
  BY DEF MixIInv
<1> QED BY <1>1, <1>2, <1>3, PTL DEF FileTransferSpec
=============================================================================
