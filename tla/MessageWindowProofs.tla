-------------------------- MODULE MessageWindowProofs --------------------------
(***************************************************************************)
(* Proofs about MessageWindow, for any channels, numbers of messages,      *)
(* lines, datagrams and faults.                                            *)
(***************************************************************************)
EXTENDS MessageWindow, SequenceTheorems, TLAPS

\* The server answers a GET with a list, and all else without one; an OK to a PUT is sent
\* after the PUT.
AnswersFit ==
    /\ \A i \in DOMAIN answers :
          /\ answers[i].list = NoList <=> ~(answers[i].ok /\ answers[i].of = 0)
          /\ answers[i].ok /\ answers[i].of # 0 => answers[i].of \in ran
          /\ restarts = 0 => answers[i].ok
    /\ restarts = 0 => session

\* The five places of a message, and that it is never at two of them.
Partition(all, a, b, c, d, e) ==
    /\ all = a \cup b \cup c \cup d \cup e
    /\ a \cap b = {} /\ a \cap c = {} /\ a \cap d = {} /\ a \cap e = {}
    /\ b \cap c = {} /\ b \cap d = {} /\ b \cap e = {}
    /\ c \cap d = {} /\ c \cap e = {} /\ d \cap e = {}

EachAtOnePlace ==
    /\ Partition(DOMAIN posted, InMailbox, InAnswers, Shown, dropped, swallowed)
    /\ \A i, j \in DOMAIN answers : i # j => Content(answers[i]) \cap Content(answers[j]) = {}
    /\ \A i, j \in DOMAIN shown : shown[i].msg = shown[j].msg => i = j

\* A mailbox holds messages of its own channel, in the order of their PUTs, all of them
\* later than those of the channel that have left it for the window.
MailboxIsTail ==
    \A c \in Channels : \A k \in DOMAIN mailbox[c] :
        /\ posted[mailbox[c][k]] = c
        /\ \A j \in DOMAIN mailbox[c] : j < k => mailbox[c][j] < mailbox[c][k]
        /\ \A m \in Shown \cup InAnswers : posted[m] = c => m < mailbox[c][k]

\* As long as the network keeps the order, the screen comes before what is on the way.
WayIsInOrder ==
    swaps = 0 =>
        \A i \in DOMAIN answers : \A m \in Content(answers[i]) :
            /\ \A j \in DOMAIN answers : \A n \in Content(answers[j]) :
                  i < j /\ posted[m] = posted[n] => m < n
            /\ \A k \in Shown : posted[k] = posted[m] => k < m

\* Until the window is left too early, what is on the way belongs to its channel.
WayIsOfChannel ==
    ~leftEarly =>
        /\ screen = "elsewhere" => NothingOnTheWay
        /\ \A i \in DOMAIN requests : requests[i].channel = channel
        /\ \A m \in InAnswers : posted[m] = channel

OnTheWayOnly(n) ==
    /\ \A i \in DOMAIN requests : requests[i].of = n
    /\ \A i \in DOMAIN answers : answers[i].of = n

Datagrams == Len(requests) + Len(answers)

\* A PUT that was made when nothing was on the way is alone on the way while it waits.
PutIsAlone == screen = "putting" /\ typed \in clean => OnTheWayOnly(typed) /\ Datagrams <= 1

PutsAreCounted ==
    /\ screen = "putting" =>
          typed \in Puts /\ counter < RESEND_THRESHOLD_NUM /\ outcome[typed] = "none"
    /\ \A n \in Puts : n > typed => n \notin clean /\ outcome[n] = "none"

OnlyPolls == ~Overlap /\ screen # "putting" => OnTheWayOnly(0)

\* The second read after a PUT finds something, as long as nothing is lost.
ReadIsFed ==
    lost = 0 =>
        /\ screen = "putting" /\ socketSet => Datagrams >= 2
        /\ screen = "reading" \/ (screen = "again" /\ socketSet) => Datagrams >= 1

WindowIInv ==
    /\ WindowTypeOK
    /\ AnswersFit
    /\ EachAtOnePlace
    /\ MailboxIsTail
    /\ WayIsInOrder
    /\ WayIsOfChannel
    /\ PutIsAlone
    /\ PutsAreCounted
    /\ OnlyPolls
    /\ ReadIsFed
    /\ ShownInOrder
    /\ ShownInItsChannel
    /\ SilentMeansRan
    /\ TroubleHasCause

-----------------------------------------------------------------------------
(* Sequences that lose an element, and what is in an answer.               *)

\* The k-th element of what is left was the At(k, i)-th before the i-th was taken.
At(k, i) == IF k < i THEN k ELSE k + 1

Without(s, i, t) ==
    /\ i \in DOMAIN s /\ Len(t) = Len(s) - 1
    /\ \A k \in DOMAIN t : At(k, i) \in DOMAIN s /\ At(k, i) # i /\ t[k] = s[At(k, i)]
    /\ \A j \in DOMAIN s : j # i => \E k \in DOMAIN t : At(k, i) = j

LEMMA TailIsWithout ==
    ASSUME NEW S, NEW s \in Seq(S), s # <<>>
    PROVE  Tail(s) \in Seq(S) /\ Head(s) = s[1] /\ s[1] \in S /\ Without(s, 1, Tail(s))
<1>1. /\ Len(s) \in Nat \ {0} /\ DOMAIN s = 1 .. Len(s)
      /\ Tail(s) \in Seq(S) /\ Len(Tail(s)) = Len(s) - 1 /\ DOMAIN Tail(s) = 1 .. Len(s) - 1
      /\ \A k \in 1 .. Len(s) - 1 : Tail(s)[k] = s[k + 1]
      /\ Head(s) = s[1] /\ s[1] \in S
  OBVIOUS
<1>2. \A j \in DOMAIN s : j # 1 => j - 1 \in DOMAIN Tail(s) /\ At(j - 1, 1) = j
  BY <1>1 DEF At
<1> QED BY <1>1, <1>2 DEF Without, At

LEMMA RemoveIsWithout ==
    ASSUME NEW S, NEW s \in Seq(S), NEW i \in DOMAIN s
    PROVE  RemoveAt(s, i) \in Seq(S) /\ Without(s, i, RemoveAt(s, i))
<1> DEFINE a == SubSeq(s, 1, i - 1)
           b == SubSeq(s, i + 1, Len(s))
           t == RemoveAt(s, i)
<1>1. Len(s) \in Nat /\ DOMAIN s = 1 .. Len(s) /\ i \in 1 .. Len(s) /\ \A k \in 1 .. Len(s) : s[k] \in S
  OBVIOUS
<1>2. a \in Seq(S) /\ Len(a) = i - 1 /\ \A k \in 1 .. i - 1 : a[k] = s[k]
  <2>1. \A k \in 1 .. i - 1 : s[k] \in S
    BY <1>1
  <2> QED BY <1>1, <2>1, SubSeqProperties
<1>3. b \in Seq(S) /\ Len(b) = Len(s) - i /\ \A k \in 1 .. Len(s) - i : b[k] = s[k + i]
  <2>1. \A k \in i + 1 .. Len(s) : s[k] \in S
    BY <1>1
  <2>2. /\ b \in Seq(S) /\ Len(b) = IF i + 1 <= Len(s) THEN Len(s) - (i + 1) + 1 ELSE 0
        /\ \A k \in 1 .. Len(s) - (i + 1) + 1 : b[k] = s[(i + 1) + k - 1]
    BY <1>1, <2>1, SubSeqProperties
  <2>3. ASSUME NEW k \in 1 .. Len(s) - i PROVE b[k] = s[k + i]
    <3>1. k \in 1 .. Len(s) - (i + 1) + 1 /\ (i + 1) + k - 1 = k + i
      BY <1>1
    <3>2. b[k] = s[(i + 1) + k - 1]
      BY <2>2, <3>1
    <3> QED BY <3>1, <3>2
  <2> QED BY <1>1, <2>2, <2>3
<1>4. t = a \o b
  BY DEF RemoveAt
<1> HIDE DEF a, b, t
<1>5. /\ t \in Seq(S) /\ Len(t) = Len(s) - 1 /\ DOMAIN t = 1 .. Len(s) - 1
      /\ \A k \in 1 .. Len(s) - 1 : t[k] = IF k <= i - 1 THEN a[k] ELSE b[k - (i - 1)]
  <2>1. /\ t \in Seq(S) /\ Len(t) = Len(a) + Len(b)
        /\ \A k \in 1 .. Len(a) + Len(b) : t[k] = IF k <= Len(a) THEN a[k] ELSE b[k - Len(a)]
    BY <1>2, <1>3, <1>4, ConcatProperties
  <2>2. Len(a) = i - 1 /\ Len(a) + Len(b) = Len(s) - 1
    BY <1>1, <1>2, <1>3
  <2>3. DOMAIN t = 1 .. Len(t)
    BY <2>1
  <2> QED BY <2>1, <2>2, <2>3
<1>6. \A k \in DOMAIN t : At(k, i) \in DOMAIN s /\ At(k, i) # i /\ t[k] = s[At(k, i)]
  <2> SUFFICES ASSUME NEW k \in 1 .. Len(s) - 1
               PROVE  At(k, i) \in DOMAIN s /\ At(k, i) # i /\ t[k] = s[At(k, i)]
    BY <1>5
  <2>1. CASE k < i
    BY <1>1, <1>2, <1>5, <2>1 DEF At
  <2>2. CASE k >= i
    <3>1. k - (i - 1) \in 1 .. Len(s) - i /\ k - (i - 1) + i = k + 1 /\ ~(k <= i - 1)
      BY <1>1, <2>2
    <3>2. t[k] = s[k + 1]
      BY <1>3, <1>5, <3>1
    <3> QED BY <1>1, <2>2, <3>2 DEF At
  <2> QED BY <1>1, <2>1, <2>2
<1>7. ASSUME NEW j \in DOMAIN s, j # i PROVE \E k \in DOMAIN t : At(k, i) = j
  <2>1. CASE j < i
    BY <1>1, <1>5, <2>1 DEF At
  <2>2. CASE j > i
    <3>1. j - 1 \in DOMAIN t /\ At(j - 1, i) = j
      BY <1>1, <1>5, <2>2 DEF At
    <3> QED BY <3>1
  <2> QED BY <1>1, <1>7, <2>1, <2>2
<1>8. t \in Seq(S) /\ Without(s, i, t)
  BY <1>5, <1>6, <1>7 DEF Without
<1> QED BY <1>8 DEF t

LEMMA AtKeepsOrder ==
    ASSUME NEW i \in Int, NEW j \in Int, NEW k \in Int
    PROVE  /\ j < k => At(j, i) < At(k, i)
           /\ j # k => At(j, i) # At(k, i)
BY DEF At

\* Two neighbours that change their places.
LEMMA SwappedHas ==
    ASSUME NEW S, NEW s \in Seq(S), NEW i \in 1 .. Len(s) - 1
    PROVE  /\ Swapped(s, i) \in Seq(S) /\ Len(Swapped(s, i)) = Len(s)
           /\ DOMAIN Swapped(s, i) = DOMAIN s
           /\ \A k \in DOMAIN s :
                 Swapped(s, i)[k] = s[IF k = i THEN i + 1 ELSE IF k = i + 1 THEN i ELSE k]
BY DEF Swapped

LEMMA ContentFacts ==
    ASSUME NEW a \in Answer
    PROVE  /\ Content(a) \subseteq Messages
           /\ a.list = NoList \/ a.list = <<>> => Content(a) = {}
           /\ \A m \in Messages : a.list = <<m>> => Content(a) = {m}
           /\ a.list = NoList \/ a.list = <<>> \/ \E m \in Messages : a.list = <<m>>
           /\ a.of \in 0 .. MaxPuts
<1>1. /\ a.of \in 0 .. MaxPuts
      /\ a.list \in {NoList, <<>>} \union {<<m>> : m \in Messages}
  BY DEF Answer
<1>2. a.list = NoList \/ a.list = <<>> \/ \E m \in Messages : a.list = <<m>>
  BY <1>1
<1>3. a.list = NoList \/ a.list = <<>> => Content(a) = {}
  BY DEF Content, Range
<1>4. ASSUME NEW m \in Messages, a.list = <<m>> PROVE Content(a) = {m}
  <2>1. a.list # NoList
    BY <1>4, WindowAssumption DEF Messages
  <2>2. DOMAIN <<m>> = {1} /\ <<m>>[1] = m
    OBVIOUS
  <2>3. Content(a) = {<<m>>[i] : i \in DOMAIN <<m>>}
    BY <1>4, <2>1 DEF Content, Range
  <2> QED BY <2>2, <2>3
<1> QED BY <1>1, <1>2, <1>3, <1>4

\* Membership in the three places that are sequences.
LEMMA InPlaces ==
    /\ \A m : m \in InAnswers <=> \E i \in DOMAIN answers : m \in Content(answers[i])
    /\ \A m : m \in Shown <=> \E i \in DOMAIN shown : shown[i].msg = m
    /\ \A m : m \in InMailbox <=> \E c \in Channels : \E k \in DOMAIN mailbox[c] : mailbox[c][k] = m
BY DEF InAnswers, Shown, InMailbox, Range

LEMMA WindowTypes ==
    ASSUME WindowTypeOK
    PROVE  /\ answers \in Seq(Answer) /\ requests \in Seq(Request) /\ posted \in Seq(Channels)
           /\ shown \in Seq([msg : Messages, in : Channels])
           /\ Len(answers) \in Nat /\ Len(requests) \in Nat /\ Len(posted) \in Nat
           /\ DOMAIN answers = 1 .. Len(answers) /\ DOMAIN requests = 1 .. Len(requests)
           /\ DOMAIN posted = 1 .. Len(posted) /\ DOMAIN shown = 1 .. Len(shown)
           /\ \A i \in DOMAIN answers : answers[i] \in Answer
           /\ \A i \in DOMAIN requests : requests[i] \in Request
           /\ Len(shown) \in Nat
           /\ Messages \subseteq Nat /\ Puts \subseteq Nat /\ typed \in Nat
           /\ MaxPuts \in Nat /\ MaxMessages \in Nat
BY SMTT(30), WindowAssumption DEF WindowTypeOK, Messages, Puts

LEMMA InPlacesAgain ==
    /\ \A m : m \in InAnswers' <=> \E i \in DOMAIN answers' : m \in Content(answers'[i])
    /\ \A m : m \in Shown' <=> \E i \in DOMAIN shown' : shown'[i].msg = m
    /\ \A m : m \in InMailbox' <=> \E c \in Channels : \E k \in DOMAIN mailbox'[c] : mailbox'[c][k] = m
BY DEF InAnswers, Shown, InMailbox, Range, Content

LEMMA WindowTypesAgain ==
    ASSUME WindowTypeOK'
    PROVE  /\ answers' \in Seq(Answer) /\ requests' \in Seq(Request) /\ posted' \in Seq(Channels)
           /\ shown' \in Seq([msg : Messages, in : Channels])
           /\ Len(answers') \in Nat /\ Len(requests') \in Nat /\ Len(posted') \in Nat
           /\ DOMAIN answers' = 1 .. Len(answers') /\ DOMAIN requests' = 1 .. Len(requests')
           /\ DOMAIN posted' = 1 .. Len(posted') /\ DOMAIN shown' = 1 .. Len(shown')
           /\ \A i \in DOMAIN answers' : answers'[i] \in Answer
           /\ \A i \in DOMAIN requests' : requests'[i] \in Request
           /\ Len(shown') \in Nat
BY SMTT(30) DEF WindowTypeOK

-----------------------------------------------------------------------------
(* Where the messages are, and in which order.                             *)

Placed == EachAtOnePlace /\ MailboxIsTail /\ WayIsInOrder /\ ShownInOrder

LEMMA PlacedInit ==
    ASSUME InitWindow
    PROVE  Placed
<1>1. /\ mailbox = [c \in Channels |-> <<>>] /\ posted = <<>> /\ answers = <<>> /\ shown = <<>>
      /\ dropped = {} /\ swallowed = {}
  BY DEF InitWindow
<1>2. InMailbox = {} /\ InAnswers = {} /\ Shown = {}
  BY <1>1, InPlaces
<1>3. Partition(DOMAIN posted, InMailbox, InAnswers, Shown, dropped, swallowed)
  BY <1>1, <1>2 DEF Partition
<1> QED BY <1>1, <1>3 DEF Placed, EachAtOnePlace, MailboxIsTail, WayIsInOrder, ShownInOrder

LEMMA PlacedSame ==
    ASSUME Placed, UNCHANGED <<posted, mailbox, answers, shown, dropped, swallowed, swaps>>
    PROVE  Placed'
<1>1. InMailbox' = InMailbox /\ Shown' = Shown /\ InAnswers' = InAnswers
  BY DEF InMailbox, Shown, InAnswers, Content
<1>2. EachAtOnePlace'
  BY <1>1 DEF Placed, EachAtOnePlace, Content
<1>3. MailboxIsTail'
  BY <1>1 DEF Placed, MailboxIsTail
<1>4. WayIsInOrder'
  BY <1>1 DEF Placed, WayIsInOrder, Content
<1> QED BY <1>2, <1>3, <1>4 DEF Placed, ShownInOrder

\* Answers go, come without messages, or change their places: f says where one was.
LEMMA AnswersMove ==
    ASSUME WindowTypeOK, WindowTypeOK', Placed, UNCHANGED <<posted, mailbox, shown>>,
           NEW f, \A k \in DOMAIN answers' : f[k] \in Nat,
           \A k \in DOMAIN answers' : Content(answers'[k]) # {} =>
               f[k] \in DOMAIN answers /\ Content(answers'[k]) = Content(answers[f[k]]),
           \A j, k \in DOMAIN answers' : j # k => f[j] # f[k],
           swaps' = 0 => swaps = 0 /\ \A j, k \in DOMAIN answers' : j < k => f[j] < f[k],
           Partition(DOMAIN posted, InMailbox, InAnswers', Shown, dropped', swallowed')
    PROVE  Placed'
<1>1. InMailbox' = InMailbox /\ Shown' = Shown
  BY DEF InMailbox, Shown
<1>2. InAnswers' \subseteq InAnswers
  BY InPlaces, InPlacesAgain
<1>3. EachAtOnePlace'
  <2>1. Partition(DOMAIN posted', InMailbox', InAnswers', Shown', dropped', swallowed')
    BY <1>1
  <2>2. ASSUME NEW i \in DOMAIN answers', NEW j \in DOMAIN answers', i # j
        PROVE  Content(answers'[i]) \cap Content(answers'[j]) = {}
    <3>1. CASE Content(answers'[i]) = {} \/ Content(answers'[j]) = {}
      BY <3>1
    <3>2. CASE Content(answers'[i]) # {} /\ Content(answers'[j]) # {}
      BY <2>2, <3>2 DEF Placed, EachAtOnePlace
    <3> QED BY <3>1, <3>2
  <2> QED BY <2>1, <2>2 DEF Placed, EachAtOnePlace, Content
<1>4. MailboxIsTail'
  BY <1>1, <1>2 DEF Placed, MailboxIsTail
<1>5. WayIsInOrder'
  <2> SUFFICES ASSUME swaps' = 0, NEW i \in DOMAIN answers', NEW m \in Content(answers'[i])
               PROVE  /\ \A j \in DOMAIN answers' : \A n \in Content(answers'[j]) :
                            i < j /\ posted'[m] = posted'[n] => m < n
                      /\ \A k \in Shown' : posted'[k] = posted'[m] => k < m
    BY DEF WayIsInOrder, Content
  <2>1. swaps = 0 /\ f[i] \in DOMAIN answers /\ m \in Content(answers[f[i]])
    OBVIOUS
  <2>2. ASSUME NEW j \in DOMAIN answers', NEW n \in Content(answers'[j]), i < j, posted[m] = posted[n]
        PROVE  m < n
    BY <2>1, <2>2 DEF Placed, WayIsInOrder
  <2>3. \A k \in Shown : posted[k] = posted[m] => k < m
    BY <2>1 DEF Placed, WayIsInOrder
  <2> QED BY <1>1, <2>2, <2>3
<1>6. ShownInOrder'
  BY DEF Placed, ShownInOrder
<1> QED BY <1>3, <1>4, <1>5, <1>6 DEF Placed

\* An answer without a message is sent.
LEMMA PlacedSent ==
    ASSUME WindowTypeOK, WindowTypeOK', Placed,
           UNCHANGED <<posted, mailbox, shown, dropped, swallowed, swaps>>,
           NEW a \in Answer, answers' = Append(answers, a), Content(a) = {}
    PROVE  Placed'
<1>1. /\ DOMAIN answers' = 1 .. Len(answers) + 1 /\ Len(answers) \in Nat
      /\ DOMAIN answers = 1 .. Len(answers)
      /\ \A i \in 1 .. Len(answers) : answers'[i] = answers[i]
      /\ answers'[Len(answers) + 1] = a
  BY WindowTypes
<1>2. InAnswers' = InAnswers
  <2>1. ASSUME NEW m \in InAnswers' PROVE m \in InAnswers
    <3>1. PICK i \in DOMAIN answers' : m \in Content(answers'[i])
      BY <2>1, InPlacesAgain
    <3>2. i \in DOMAIN answers /\ answers'[i] = answers[i]
      BY <1>1, <3>1
    <3> QED BY <3>1, <3>2, InPlaces
  <2>2. ASSUME NEW m \in InAnswers PROVE m \in InAnswers'
    <3>1. PICK i \in DOMAIN answers : m \in Content(answers[i])
      BY <2>2, InPlaces
    <3>2. i \in DOMAIN answers' /\ answers'[i] = answers[i]
      BY <1>1
    <3> QED BY <3>1, <3>2, InPlacesAgain
  <2> QED BY <2>1, <2>2
<1>3. Partition(DOMAIN posted, InMailbox, InAnswers', Shown, dropped', swallowed')
  BY <1>2 DEF Placed, EachAtOnePlace
<1>4. PICK f : f = [k \in DOMAIN answers' |-> k]
  OBVIOUS
<1>5. \A k \in DOMAIN answers' : f[k] \in Nat /\ f[k] = k
  BY <1>1, <1>4
<1>6. \A k \in DOMAIN answers' : Content(answers'[k]) # {} =>
          f[k] \in DOMAIN answers /\ Content(answers'[k]) = Content(answers[f[k]])
  BY <1>1, <1>5
<1> QED BY <1>3, <1>5, <1>6, AnswersMove


\* The i-th answer leaves the way; what was in it is lost, or swallowed.
LEMMA PlacedGone ==
    ASSUME WindowTypeOK, WindowTypeOK', Placed, UNCHANGED <<posted, mailbox, shown, swaps>>,
           NEW i \in DOMAIN answers, Without(answers, i, answers'),
           dropped' \cup swallowed' = dropped \cup swallowed \cup Content(answers[i]),
           dropped' \cap swallowed' = {}
    PROVE  Placed'
<1>1. /\ DOMAIN answers' = 1 .. Len(answers') /\ DOMAIN answers = 1 .. Len(answers)
      /\ Len(answers) \in Nat /\ Len(answers') \in Nat /\ i \in Nat
  BY WindowTypes, WindowTypesAgain
<1>2. \A k \in DOMAIN answers' :
          At(k, i) \in DOMAIN answers /\ At(k, i) # i /\ answers'[k] = answers[At(k, i)]
  BY DEF Without
<1>3. InAnswers' = InAnswers \ Content(answers[i])
  <2>1. ASSUME NEW m \in InAnswers' PROVE m \in InAnswers \ Content(answers[i])
    <3>1. PICK k \in DOMAIN answers' : m \in Content(answers'[k])
      BY <2>1, InPlacesAgain
    <3>2. m \in Content(answers[At(k, i)]) /\ At(k, i) \in DOMAIN answers /\ At(k, i) # i
      BY <1>2, <3>1
    <3> QED BY <3>2, InPlaces DEF Placed, EachAtOnePlace
  <2>2. ASSUME NEW m \in InAnswers, m \notin Content(answers[i]) PROVE m \in InAnswers'
    <3>1. PICK j \in DOMAIN answers : m \in Content(answers[j])
      BY <2>2, InPlaces
    <3>2. PICK k \in DOMAIN answers' : At(k, i) = j
      BY <2>2, <3>1 DEF Without
    <3>3. m \in Content(answers'[k])
      BY <1>2, <3>1, <3>2
    <3> QED BY <3>3, InPlacesAgain
  <2> QED BY <2>1, <2>2
<1>4. Content(answers[i]) \subseteq InAnswers
  BY InPlaces
<1>5. Partition(DOMAIN posted, InMailbox, InAnswers', Shown, dropped', swallowed')
  <2>1. Partition(DOMAIN posted, InMailbox, InAnswers, Shown, dropped, swallowed)
    BY DEF Placed, EachAtOnePlace
  <2> QED BY <1>3, <1>4, <2>1 DEF Partition
<1>6. PICK f : f = [k \in DOMAIN answers' |-> At(k, i)]
  OBVIOUS
<1>7. \A k \in DOMAIN answers' : f[k] = At(k, i) /\ f[k] \in Nat
  BY <1>1, <1>2, <1>6
<1>8. \A j, k \in DOMAIN answers' : (j < k => f[j] < f[k]) /\ (j # k => f[j] # f[k])
  BY <1>1, <1>7, AtKeepsOrder
<1>9. \A k \in DOMAIN answers' : Content(answers'[k]) # {} =>
          f[k] \in DOMAIN answers /\ Content(answers'[k]) = Content(answers[f[k]])
  BY <1>2, <1>7
<1> QED BY <1>5, <1>7, <1>8, <1>9, AnswersMove

\* Two answers change their places.
LEMMA PlacedReordered ==
    ASSUME WindowTypeOK, WindowTypeOK', Placed,
           UNCHANGED <<posted, mailbox, shown, dropped, swallowed>>, swaps' = swaps + 1,
           NEW i \in 1 .. Len(answers) - 1, answers' = Swapped(answers, i)
    PROVE  Placed'
<1> DEFINE T(k) == IF k = i THEN i + 1 ELSE IF k = i + 1 THEN i ELSE k
<1>0. answers \in Seq(Answer) /\ DOMAIN answers = 1 .. Len(answers) /\ Len(answers) \in Nat
  BY WindowTypes
<1>1. /\ DOMAIN answers = 1 .. Len(answers) /\ Len(answers) \in Nat /\ i \in Nat
      /\ DOMAIN answers' = DOMAIN answers
      /\ \A k \in DOMAIN answers : answers'[k] = answers[T(k)]
  <2>1. /\ DOMAIN Swapped(answers, i) = DOMAIN answers
        /\ \A k \in DOMAIN answers : Swapped(answers, i)[k] = answers[T(k)]
    BY <1>0, SwappedHas
  <2>2. i \in Nat
    BY <1>0
  <2> QED BY <1>0, <2>1, <2>2
<1>2. \A k \in DOMAIN answers : T(k) \in DOMAIN answers /\ T(T(k)) = k /\ T(k) \in Nat
  <2>1. ASSUME NEW n \in Nat, NEW k \in 1 .. n, i \in 1 .. n - 1
        PROVE  T(k) \in 1 .. n /\ T(T(k)) = k /\ T(k) \in Nat
    <3>1. CASE k = i
      BY <2>1, <3>1
    <3>2. CASE k = i + 1
      BY <2>1, <3>2
    <3>3. CASE k # i /\ k # i + 1
      BY <2>1, <3>3
    <3> QED BY <3>1, <3>2, <3>3
  <2> QED BY <1>0, <2>1
<1>3. \A j, k \in DOMAIN answers : j # k => T(j) # T(k)
  BY <1>2
<1>4. swaps' # 0
  BY DEF WindowTypeOK
<1> HIDE DEF T
<1>5. InAnswers' = InAnswers
  <2>1. ASSUME NEW m \in InAnswers' PROVE m \in InAnswers
    <3>1. PICK k \in DOMAIN answers' : m \in Content(answers'[k])
      BY <2>1, InPlacesAgain
    <3> QED BY <1>1, <1>2, <3>1, InPlaces
  <2>2. ASSUME NEW m \in InAnswers PROVE m \in InAnswers'
    <3>1. PICK k \in DOMAIN answers : m \in Content(answers[k])
      BY <2>2, InPlaces
    <3>2. T(k) \in DOMAIN answers' /\ answers'[T(k)] = answers[k]
      BY <1>1, <1>2
    <3> QED BY <3>1, <3>2, InPlacesAgain
  <2> QED BY <2>1, <2>2
<1>6. Partition(DOMAIN posted, InMailbox, InAnswers', Shown, dropped', swallowed')
  BY <1>5 DEF Placed, EachAtOnePlace
<1>7. PICK f : f = [k \in DOMAIN answers' |-> T(k)]
  OBVIOUS
<1>8. \A k \in DOMAIN answers' : f[k] = T(k) /\ f[k] \in Nat
  BY <1>1, <1>2, <1>7
<1>9. \A k \in DOMAIN answers' : Content(answers'[k]) # {} =>
          f[k] \in DOMAIN answers /\ Content(answers'[k]) = Content(answers[f[k]])
  BY <1>1, <1>2, <1>8
<1>10. \A k \in DOMAIN answers' : f[k] \in Nat
  BY <1>8
<1>11. \A j, k \in DOMAIN answers' : j # k => f[j] # f[k]
  BY <1>1, <1>3, <1>8
<1>12. swaps' = 0 => swaps = 0 /\ \A j, k \in DOMAIN answers' : j < k => f[j] < f[k]
  BY <1>4
<1>13. UNCHANGED <<posted, mailbox, shown>>
  OBVIOUS
<1> QED BY <1>6, <1>9, <1>10, <1>11, <1>12, <1>13, AnswersMove


\* A GET takes the first message of a mailbox into an answer.
LEMMA PlacedGet ==
    ASSUME WindowTypeOK, WindowTypeOK', Placed,
           UNCHANGED <<posted, shown, dropped, swallowed, swaps>>,
           NEW c \in Channels, mailbox[c] # <<>>,
           mailbox' = [mailbox EXCEPT ![c] = Tail(@)],
           NEW a \in Answer, a.list = <<Head(mailbox[c])>>, answers' = Append(answers, a)
    PROVE  Placed'
<1> DEFINE m == Head(mailbox[c])
<1>1. /\ m = mailbox[c][1] /\ m \in Messages /\ m \in Nat /\ 1 \in DOMAIN mailbox[c]
      /\ Without(mailbox[c], 1, Tail(mailbox[c])) /\ Tail(mailbox[c]) \in Seq(Messages)
  <2>1. mailbox[c] \in Seq(Messages)
    BY DEF WindowTypeOK
  <2>2. /\ Head(mailbox[c]) = mailbox[c][1] /\ mailbox[c][1] \in Messages
        /\ Without(mailbox[c], 1, Tail(mailbox[c])) /\ Tail(mailbox[c]) \in Seq(Messages)
    BY <2>1, TailIsWithout
  <2>3. 1 \in DOMAIN mailbox[c]
    BY <2>2 DEF Without
  <2>4. Messages \subseteq Nat
    BY WindowTypes
  <2> QED BY <2>2, <2>3, <2>4
<1>2. /\ mailbox'[c] = Tail(mailbox[c])
      /\ \A d \in Channels : d # c => mailbox'[d] = mailbox[d]
  BY DEF WindowTypeOK
<1>3. \A k \in DOMAIN mailbox'[c] :
          k + 1 \in DOMAIN mailbox[c] /\ k \in Nat /\ k >= 1 /\ mailbox'[c][k] = mailbox[c][k + 1]
  <2>1. DOMAIN Tail(mailbox[c]) = 1 .. Len(Tail(mailbox[c])) /\ Len(Tail(mailbox[c])) \in Nat
    BY <1>1
  <2>2. \A k \in DOMAIN Tail(mailbox[c]) : k \in Nat /\ k >= 1 /\ At(k, 1) = k + 1
    BY <2>1 DEF At
  <2>3. \A k \in DOMAIN Tail(mailbox[c]) :
            At(k, 1) \in DOMAIN mailbox[c] /\ Tail(mailbox[c])[k] = mailbox[c][At(k, 1)]
    BY <1>1 DEF Without
  <2> SUFFICES ASSUME NEW k \in DOMAIN Tail(mailbox[c])
               PROVE  /\ k + 1 \in DOMAIN mailbox[c] /\ k \in Nat /\ k >= 1
                      /\ Tail(mailbox[c])[k] = mailbox[c][k + 1]
    BY <1>2
  <2>4. At(k, 1) = k + 1 /\ k \in Nat /\ k >= 1
    BY <2>2
  <2>5. k + 1 \in DOMAIN mailbox[c] /\ Tail(mailbox[c])[k] = mailbox[c][k + 1]
    BY <2>3, <2>4
  <2> QED BY <2>4, <2>5
<1>4. /\ DOMAIN answers' = 1 .. Len(answers) + 1 /\ Len(answers) \in Nat
      /\ DOMAIN answers = 1 .. Len(answers)
      /\ \A i \in 1 .. Len(answers) : answers'[i] = answers[i]
      /\ answers'[Len(answers) + 1] = a
  BY WindowTypes
<1>5. Content(a) = {m}
  BY <1>1, ContentFacts
<1> HIDE DEF m
<1>6. /\ posted[m] = c
      /\ \A k \in DOMAIN mailbox[c] : k > 1 => m < mailbox[c][k]
      /\ \A n \in Shown \cup InAnswers : posted[n] = c => n < m
  BY <1>1 DEF Placed, MailboxIsTail
<1>7. InMailbox' = InMailbox \ {m}
  <2>1. ASSUME NEW n \in InMailbox' PROVE n \in InMailbox \ {m}
    <3>1. PICK d \in Channels : \E k \in DOMAIN mailbox'[d] : mailbox'[d][k] = n
      BY <2>1, InPlacesAgain
    <3>2. PICK k \in DOMAIN mailbox'[d] : mailbox'[d][k] = n
      BY <3>1
    <3>3. CASE d = c
      <4>1. k + 1 \in DOMAIN mailbox[c] /\ n = mailbox[c][k + 1] /\ k + 1 > 1
        BY <1>3, <3>2, <3>3
      <4>2. m < n
        BY <1>6, <4>1
      <4>3. n \in InMailbox
        BY <4>1, InPlaces
      <4> QED BY <1>1, <4>2, <4>3
    <3>4. CASE d # c
      <4>1. k \in DOMAIN mailbox[d] /\ n = mailbox[d][k]
        BY <1>2, <3>2, <3>4
      <4>2. posted[n] = d
        BY <4>1 DEF Placed, MailboxIsTail
      <4> QED BY <1>6, <3>4, <4>1, <4>2, InPlaces
    <3> QED BY <3>3, <3>4
  <2>2. ASSUME NEW n \in InMailbox, n # m PROVE n \in InMailbox'
    <3>1. PICK d \in Channels : \E k \in DOMAIN mailbox[d] : mailbox[d][k] = n
      BY <2>2, InPlaces
    <3>2. PICK k \in DOMAIN mailbox[d] : mailbox[d][k] = n
      BY <3>1
    <3>3. \E j \in DOMAIN mailbox'[d] : mailbox'[d][j] = n
      <4>1. CASE d = c
        <5>1. k # 1
          BY <1>1, <2>2, <3>2, <4>1
        <5>2. PICK j \in DOMAIN Tail(mailbox[c]) : At(j, 1) = k
          BY <1>1, <3>2, <4>1, <5>1 DEF Without
        <5> QED BY <1>1, <1>2, <3>2, <4>1, <5>2 DEF Without
      <4>2. CASE d # c
        BY <1>2, <3>2, <4>2
      <4> QED BY <4>1, <4>2
    <3> QED BY <3>3, InPlacesAgain
  <2> QED BY <2>1, <2>2
<1>8. m \in InMailbox
  BY <1>1, InPlaces
<1>9. InAnswers' = InAnswers \cup {m}
  <2>1. ASSUME NEW n \in InAnswers' PROVE n \in InAnswers \cup {m}
    <3>1. PICK i \in DOMAIN answers' : n \in Content(answers'[i])
      BY <2>1, InPlacesAgain
    <3>2. CASE i = Len(answers) + 1
      BY <1>4, <1>5, <3>1, <3>2
    <3>3. CASE i # Len(answers) + 1
      <4>1. i \in DOMAIN answers /\ n \in Content(answers[i])
        BY <1>4, <3>1, <3>3
      <4> QED BY <4>1, InPlaces
    <3> QED BY <3>2, <3>3
  <2>2. ASSUME NEW n \in InAnswers PROVE n \in InAnswers'
    <3>1. PICK i \in DOMAIN answers : n \in Content(answers[i])
      BY <2>2, InPlaces
    <3>2. i \in DOMAIN answers' /\ answers'[i] = answers[i]
      BY <1>4
    <3> QED BY <3>1, <3>2, InPlacesAgain
  <2>3. m \in InAnswers'
    <3>1. Len(answers) + 1 \in DOMAIN answers'
      BY <1>4
    <3>2. m \in Content(answers'[Len(answers) + 1])
      BY <1>4, <1>5
    <3> QED BY <3>1, <3>2, InPlacesAgain
  <2> QED BY <2>1, <2>2, <2>3
<1>10. Shown' = Shown
  BY DEF Shown
<1>11. Partition(DOMAIN posted, InMailbox, InAnswers, Shown, dropped, swallowed)
  BY DEF Placed, EachAtOnePlace
<1>12. EachAtOnePlace'
  <2>1. Partition(DOMAIN posted', InMailbox', InAnswers', Shown', dropped', swallowed')
    BY <1>7, <1>8, <1>9, <1>10, <1>11 DEF Partition
  <2>2. ASSUME NEW i \in DOMAIN answers', NEW j \in DOMAIN answers', i # j
        PROVE  Content(answers'[i]) \cap Content(answers'[j]) = {}
    <3>1. \A k \in DOMAIN answers : m \notin Content(answers[k])
      BY <1>8, <1>11, InPlaces DEF Partition
    <3>2. CASE i \in DOMAIN answers /\ j \in DOMAIN answers
      BY <1>4, <2>2, <3>2 DEF Placed, EachAtOnePlace
    <3>3. CASE i \notin DOMAIN answers
      <4>1. i = Len(answers) + 1 /\ j \in DOMAIN answers
        BY <1>4, <2>2, <3>3
      <4> QED BY <1>4, <1>5, <3>1, <4>1
    <3>4. CASE j \notin DOMAIN answers
      <4>1. j = Len(answers) + 1 /\ i \in DOMAIN answers
        BY <1>4, <2>2, <3>4
      <4> QED BY <1>4, <1>5, <3>1, <4>1
    <3> QED BY <3>2, <3>3, <3>4
  <2>3. \A i, j \in DOMAIN shown' : shown'[i].msg = shown'[j].msg => i = j
    BY DEF Placed, EachAtOnePlace
  <2> QED BY <2>1, <2>2, <2>3 DEF EachAtOnePlace, Content
<1>13. MailboxIsTail'
  <2> SUFFICES ASSUME NEW d \in Channels, NEW k \in DOMAIN mailbox'[d]
               PROVE  /\ posted[mailbox'[d][k]] = d
                      /\ \A j \in DOMAIN mailbox'[d] : j < k => mailbox'[d][j] < mailbox'[d][k]
                      /\ \A n \in Shown \cup InAnswers \cup {m} :
                            posted[n] = d => n < mailbox'[d][k]
    BY <1>9, <1>10 DEF MailboxIsTail
  <2>1. CASE d = c
    <3>1. k + 1 \in DOMAIN mailbox[c] /\ mailbox'[d][k] = mailbox[c][k + 1] /\ k + 1 > 1
      BY <1>3, <2>1
    <3>2. \A j \in DOMAIN mailbox'[d] : j < k =>
              j + 1 \in DOMAIN mailbox[c] /\ mailbox'[d][j] = mailbox[c][j + 1] /\ j + 1 < k + 1
      BY <1>3, <2>1
    <3> QED BY <1>6, <2>1, <3>1, <3>2 DEF Placed, MailboxIsTail
  <2>2. CASE d # c
    BY <1>2, <1>6, <2>2 DEF Placed, MailboxIsTail
  <2> QED BY <2>1, <2>2
<1>14. WayIsInOrder'
  <2> SUFFICES ASSUME swaps = 0, NEW i \in DOMAIN answers', NEW n \in Content(answers'[i])
               PROVE  /\ \A j \in DOMAIN answers' : \A o \in Content(answers'[j]) :
                            i < j /\ posted[n] = posted[o] => n < o
                      /\ \A k \in Shown : posted[k] = posted[n] => k < n
    BY <1>10 DEF WayIsInOrder, Content
  <2>1. CASE i \in DOMAIN answers
    <3>1. n \in Content(answers[i]) /\ n \in InAnswers
      BY <1>4, <2>1, InPlaces
    <3>2. ASSUME NEW j \in DOMAIN answers', NEW o \in Content(answers'[j]), i < j, posted[n] = posted[o]
          PROVE  n < o
      <4>1. CASE j \in DOMAIN answers
        BY <1>4, <2>1, <3>1, <3>2, <4>1 DEF Placed, WayIsInOrder
      <4>2. CASE j \notin DOMAIN answers
        BY <1>4, <1>5, <1>6, <3>1, <3>2, <4>2
      <4> QED BY <4>1, <4>2
    <3>3. \A k \in Shown : posted[k] = posted[n] => k < n
      BY <2>1, <3>1 DEF Placed, WayIsInOrder
    <3> QED BY <3>2, <3>3
  <2>2. CASE i \notin DOMAIN answers
    <3>1. i = Len(answers) + 1 /\ n = m /\ \A j \in DOMAIN answers' : ~(i < j)
      BY <1>4, <1>5, <2>2
    <3> QED BY <1>6, <3>1
  <2> QED BY <2>1, <2>2
<1>15. ShownInOrder'
  BY DEF Placed, ShownInOrder
<1> QED BY <1>12, <1>13, <1>14, <1>15 DEF Placed


\* The window shows the message of the first answer.
LEMMA PlacedShown ==
    ASSUME WindowTypeOK, WindowTypeOK', Placed,
           UNCHANGED <<posted, mailbox, dropped, swallowed, swaps>>,
           answers # <<>>, answers' = Tail(answers),
           NEW m, Content(answers[1]) = {m},
           NEW r, r.msg = m, shown' = Append(shown, r)
    PROVE  Placed'
<1>1. /\ Without(answers, 1, answers') /\ 1 \in DOMAIN answers
      /\ DOMAIN answers' = 1 .. Len(answers') /\ Len(answers') \in Nat
  <2>1. Without(answers, 1, answers')
    BY WindowTypes, TailIsWithout
  <2> QED BY <2>1, WindowTypesAgain DEF Without
<1>2. \A k \in DOMAIN answers' :
          k \in Nat /\ k >= 1 /\ k + 1 \in DOMAIN answers /\ answers'[k] = answers[k + 1]
  <2>1. \A k \in DOMAIN answers' : k \in Nat /\ k >= 1 /\ At(k, 1) = k + 1
    BY <1>1 DEF At
  <2> QED BY <1>1, <2>1 DEF Without
<1>3. /\ DOMAIN shown = 1 .. Len(shown) /\ Len(shown) \in Nat
      /\ DOMAIN shown' = 1 .. Len(shown) + 1
      /\ \A i \in DOMAIN shown : shown'[i] = shown[i]
      /\ shown'[Len(shown) + 1] = r
  BY WindowTypes
<1>4. InMailbox' = InMailbox
  BY DEF InMailbox
<1>5. InAnswers' = InAnswers \ {m}
  <2>1. ASSUME NEW n \in InAnswers' PROVE n \in InAnswers \ {m}
    <3>1. PICK k \in DOMAIN answers' : n \in Content(answers'[k])
      BY <2>1, InPlacesAgain
    <3>2. k + 1 \in DOMAIN answers /\ k + 1 # 1 /\ n \in Content(answers[k + 1])
      BY <1>2, <3>1
    <3> QED BY <1>1, <3>2, InPlaces DEF Placed, EachAtOnePlace
  <2>2. ASSUME NEW n \in InAnswers, n # m PROVE n \in InAnswers'
    <3>1. PICK j \in DOMAIN answers : n \in Content(answers[j])
      BY <2>2, InPlaces
    <3>2. PICK k \in DOMAIN answers' : At(k, 1) = j
      BY <1>1, <2>2, <3>1 DEF Without
    <3>3. n \in Content(answers'[k])
      BY <1>1, <3>1, <3>2 DEF Without
    <3> QED BY <3>3, InPlacesAgain
  <2> QED BY <2>1, <2>2
<1>6. Shown' = Shown \cup {m}
  <2>1. ASSUME NEW n \in Shown' PROVE n \in Shown \cup {m}
    <3>1. PICK i \in DOMAIN shown' : shown'[i].msg = n
      BY <2>1, InPlacesAgain
    <3>2. CASE i = Len(shown) + 1
      BY <1>3, <3>1, <3>2
    <3>3. CASE i # Len(shown) + 1
      <4>1. i \in DOMAIN shown /\ shown[i].msg = n
        BY <1>3, <3>1, <3>3
      <4> QED BY <4>1, InPlaces
    <3> QED BY <3>2, <3>3
  <2>2. ASSUME NEW n \in Shown PROVE n \in Shown'
    <3>1. PICK i \in DOMAIN shown : shown[i].msg = n
      BY <2>2, InPlaces
    <3>2. i \in DOMAIN shown' /\ shown'[i].msg = n
      BY <1>3, <3>1
    <3> QED BY <3>2, InPlacesAgain
  <2>3. m \in Shown'
    <3>1. Len(shown) + 1 \in DOMAIN shown' /\ shown'[Len(shown) + 1].msg = m
      BY <1>3
    <3> QED BY <3>1, InPlacesAgain
  <2> QED BY <2>1, <2>2, <2>3
<1>7. m \in InAnswers /\ Partition(DOMAIN posted, InMailbox, InAnswers, Shown, dropped, swallowed)
  BY <1>1, InPlaces DEF Placed, EachAtOnePlace
<1>8. m \notin Shown
  BY <1>7 DEF Partition
<1>9. EachAtOnePlace'
  <2>1. Partition(DOMAIN posted', InMailbox', InAnswers', Shown', dropped', swallowed')
    BY <1>4, <1>5, <1>6, <1>7 DEF Partition
  <2>2. ASSUME NEW i \in DOMAIN answers', NEW j \in DOMAIN answers', i # j
        PROVE  Content(answers'[i]) \cap Content(answers'[j]) = {}
    <3>1. i + 1 \in DOMAIN answers /\ j + 1 \in DOMAIN answers /\ i + 1 # j + 1
      BY <1>2, <2>2
    <3>2. answers'[i] = answers[i + 1] /\ answers'[j] = answers[j + 1]
      BY <1>2
    <3> QED BY <3>1, <3>2 DEF Placed, EachAtOnePlace
  <2>3. ASSUME NEW i \in DOMAIN shown', NEW j \in DOMAIN shown', shown'[i].msg = shown'[j].msg
        PROVE  i = j
    <3>1. \A k \in DOMAIN shown : shown'[k].msg # m
      BY <1>3, <1>8, InPlaces
    <3>2. CASE i \in DOMAIN shown /\ j \in DOMAIN shown
      BY <1>3, <2>3, <3>2 DEF Placed, EachAtOnePlace
    <3>3. CASE i \notin DOMAIN shown \/ j \notin DOMAIN shown
      BY <1>3, <2>3, <3>1, <3>3
    <3> QED BY <3>2, <3>3
  <2> QED BY <2>1, <2>2, <2>3 DEF EachAtOnePlace, Content
<1>10. MailboxIsTail'
  <2>1. Shown' \cup InAnswers' = Shown \cup InAnswers
    BY <1>5, <1>6, <1>7
  <2> QED BY <2>1 DEF Placed, MailboxIsTail
<1>11. WayIsInOrder'
  <2> SUFFICES ASSUME swaps = 0, NEW i \in DOMAIN answers', NEW n \in Content(answers'[i])
               PROVE  /\ \A j \in DOMAIN answers' : \A o \in Content(answers'[j]) :
                            i < j /\ posted[n] = posted[o] => n < o
                      /\ \A k \in Shown \cup {m} : posted[k] = posted[n] => k < n
    BY <1>6 DEF WayIsInOrder, Content
  <2>1. /\ i + 1 \in DOMAIN answers /\ n \in Content(answers[i + 1])
        /\ 1 \in DOMAIN answers /\ m \in Content(answers[1]) /\ 1 < i + 1
    BY <1>1, <1>2
  <2>2. ASSUME NEW j \in DOMAIN answers', NEW o \in Content(answers'[j]), i < j, posted[n] = posted[o]
        PROVE  n < o
    <3>1. j + 1 \in DOMAIN answers /\ o \in Content(answers[j + 1]) /\ i + 1 < j + 1
      BY <1>2, <2>2
    <3> QED BY <2>1, <2>2, <3>1 DEF Placed, WayIsInOrder
  <2>3. \A k \in Shown : posted[k] = posted[n] => k < n
    BY <2>1 DEF Placed, WayIsInOrder
  <2>4. posted[m] = posted[n] => m < n
    BY <2>1 DEF Placed, WayIsInOrder
  <2> QED BY <2>2, <2>3, <2>4
<1>12. ShownInOrder'
  <2> SUFFICES ASSUME swaps = 0, NEW i \in DOMAIN shown', NEW j \in DOMAIN shown', i < j,
                      posted[shown'[i].msg] = posted[shown'[j].msg]
               PROVE  shown'[i].msg < shown'[j].msg
    BY DEF ShownInOrder
  <2>1. i \in DOMAIN shown /\ shown'[i] = shown[i]
    BY <1>3
  <2>2. CASE j \in DOMAIN shown
    BY <1>3, <2>1, <2>2 DEF Placed, ShownInOrder
  <2>3. CASE j \notin DOMAIN shown
    <3>1. shown'[j].msg = m /\ shown[i].msg \in Shown /\ m \in Content(answers[1])
      BY <1>3, <2>1, <2>3, InPlaces
    <3> QED BY <1>1, <2>1, <3>1 DEF Placed, WayIsInOrder
  <2> QED BY <2>2, <2>3
<1> QED BY <1>9, <1>10, <1>11, <1>12 DEF Placed

\* Another member puts a message.
LEMMA PlacedPut ==
    ASSUME WindowTypeOK, WindowTypeOK', Placed,
           UNCHANGED <<answers, shown, dropped, swallowed, swaps>>,
           NEW c \in Channels, posted' = Append(posted, c),
           mailbox' = [mailbox EXCEPT ![c] = Append(@, Len(posted'))]
    PROVE  Placed'
<1> DEFINE n == Len(posted) + 1
<1>1. /\ Len(posted') = n /\ Len(posted) \in Nat
      /\ DOMAIN posted = 1 .. Len(posted) /\ DOMAIN posted' = DOMAIN posted \cup {n}
      /\ \A m \in DOMAIN posted : posted'[m] = posted[m] /\ m < n
      /\ posted'[n] = c
  BY WindowTypes
<1>2. /\ mailbox'[c] = Append(mailbox[c], n)
      /\ \A d \in Channels : d # c => mailbox'[d] = mailbox[d]
  BY <1>1 DEF WindowTypeOK
<1> HIDE DEF n
<1>3. /\ Len(mailbox[c]) \in Nat /\ DOMAIN mailbox[c] = 1 .. Len(mailbox[c])
      /\ DOMAIN mailbox'[c] = 1 .. Len(mailbox[c]) + 1
      /\ \A k \in DOMAIN mailbox[c] : mailbox'[c][k] = mailbox[c][k]
      /\ mailbox'[c][Len(mailbox[c]) + 1] = n
  <2>1. mailbox[c] \in Seq(Messages)
    BY DEF WindowTypeOK
  <2> QED BY <1>2, <2>1
<1>4. Shown' = Shown /\ InAnswers' = InAnswers
  BY DEF Shown, InAnswers, Content
<1>5. InMailbox' = InMailbox \cup {n}
  <2>1. ASSUME NEW m \in InMailbox' PROVE m \in InMailbox \cup {n}
    <3>1. PICK d \in Channels : \E k \in DOMAIN mailbox'[d] : mailbox'[d][k] = m
      BY <2>1, InPlacesAgain
    <3>2. PICK k \in DOMAIN mailbox'[d] : mailbox'[d][k] = m
      BY <3>1
    <3>3. m = n \/ (k \in DOMAIN mailbox[d] /\ mailbox[d][k] = m)
      BY <1>2, <1>3, <3>2
    <3> QED BY <3>3, InPlaces
  <2>2. ASSUME NEW m \in InMailbox PROVE m \in InMailbox'
    <3>1. PICK d \in Channels : \E k \in DOMAIN mailbox[d] : mailbox[d][k] = m
      BY <2>2, InPlaces
    <3>2. \E k \in DOMAIN mailbox'[d] : mailbox'[d][k] = m
      BY <1>2, <1>3, <3>1
    <3> QED BY <3>2, InPlacesAgain
  <2>3. n \in InMailbox'
    <3>1. Len(mailbox[c]) + 1 \in DOMAIN mailbox'[c]
      BY <1>3
    <3> QED BY <1>3, <3>1, InPlacesAgain
  <2> QED BY <2>1, <2>2, <2>3
<1>6. Partition(DOMAIN posted, InMailbox, InAnswers, Shown, dropped, swallowed)
  BY DEF Placed, EachAtOnePlace
<1>7. n \notin DOMAIN posted
  BY <1>1 DEF n
<1>8. EachAtOnePlace'
  <2>1. Partition(DOMAIN posted', InMailbox', InAnswers', Shown', dropped', swallowed')
    <3>1. InMailbox \subseteq DOMAIN posted /\ DOMAIN posted' = DOMAIN posted \cup {n}
      BY <1>1, <1>6 DEF Partition
    <3>2. Partition(DOMAIN posted', InMailbox', InAnswers, Shown, dropped, swallowed)
      BY <1>5, <1>6, <1>7, <3>1 DEF Partition
    <3> QED BY <1>4, <3>2
  <2> QED BY <2>1 DEF Placed, EachAtOnePlace, Content
<1>9. /\ \A m \in InMailbox \cup InAnswers \cup Shown : posted'[m] = posted[m] /\ m < n
  BY <1>1, <1>6 DEF Partition
<1>10. MailboxIsTail'
  <2> SUFFICES ASSUME NEW d \in Channels, NEW k \in DOMAIN mailbox'[d]
               PROVE  /\ posted'[mailbox'[d][k]] = d
                      /\ \A j \in DOMAIN mailbox'[d] : j < k => mailbox'[d][j] < mailbox'[d][k]
                      /\ \A m \in Shown \cup InAnswers : posted'[m] = d => m < mailbox'[d][k]
    BY <1>4 DEF MailboxIsTail
  <2>1. CASE k \in DOMAIN mailbox[d]
    <3>1. mailbox'[d][k] = mailbox[d][k] /\ mailbox[d][k] \in InMailbox
      BY <1>2, <1>3, <2>1, InPlaces
    <3>2. \A j \in DOMAIN mailbox'[d] : j < k =>
              j \in DOMAIN mailbox[d] /\ mailbox'[d][j] = mailbox[d][j]
      BY <1>2, <1>3, <2>1
    <3>3. /\ posted[mailbox[d][k]] = d
          /\ \A j \in DOMAIN mailbox[d] : j < k => mailbox[d][j] < mailbox[d][k]
          /\ \A m \in Shown \cup InAnswers : posted[m] = d => m < mailbox[d][k]
      BY <2>1 DEF Placed, MailboxIsTail
    <3>4. \A j \in DOMAIN mailbox'[d] : j < k => mailbox'[d][j] < mailbox'[d][k]
      BY <3>1, <3>2, <3>3
    <3> QED BY <1>9, <3>1, <3>3, <3>4
  <2>2. CASE k \notin DOMAIN mailbox[d]
    <3>1. d = c /\ k = Len(mailbox[c]) + 1 /\ mailbox'[d][k] = n
      BY <1>2, <1>3, <2>2
    <3>2. \A j \in DOMAIN mailbox'[d] : j < k =>
              mailbox'[d][j] = mailbox[d][j] /\ mailbox[d][j] \in InMailbox
      BY <1>3, <3>1, InPlaces
    <3> QED BY <1>1, <1>9, <3>1, <3>2
  <2> QED BY <2>1, <2>2
<1>11. WayIsInOrder'
  <2> SUFFICES ASSUME swaps = 0, NEW i \in DOMAIN answers, NEW m \in Content(answers[i])
               PROVE  /\ \A j \in DOMAIN answers : \A o \in Content(answers[j]) :
                            i < j /\ posted'[m] = posted'[o] => m < o
                      /\ \A k \in Shown : posted'[k] = posted'[m] => k < m
    <3>1. answers' = answers /\ swaps' = swaps
      OBVIOUS
    <3> QED BY <1>4, <3>1 DEF WayIsInOrder, Content
  <2>1. \A j \in DOMAIN answers : Content(answers[j]) \subseteq InAnswers
    BY InPlaces
  <2> QED BY <1>9, <2>1 DEF Placed, WayIsInOrder
<1>12. ShownInOrder'
  <2>1. \A i \in DOMAIN shown : posted'[shown[i].msg] = posted[shown[i].msg]
    BY <1>9, InPlaces
  <2>2. shown' = shown /\ swaps' = swaps
    OBVIOUS
  <2> QED BY <2>1, <2>2 DEF Placed, ShownInOrder
<1> QED BY <1>8, <1>10, <1>11, <1>12 DEF Placed

\* A restart forgets the mailboxes.
LEMMA PlacedForgotten ==
    ASSUME WindowTypeOK, WindowTypeOK', Placed,
           UNCHANGED <<posted, answers, shown, swallowed, swaps>>,
           mailbox' = [c \in Channels |-> <<>>], dropped' = dropped \cup InMailbox
    PROVE  Placed'
<1>1. Shown' = Shown /\ InAnswers' = InAnswers
  BY DEF Shown, InAnswers, Content
<1>2. \A c \in Channels : DOMAIN mailbox'[c] = {}
  OBVIOUS
<1>3. InMailbox' = {}
  BY <1>2, InPlacesAgain
<1>4. Partition(DOMAIN posted', InMailbox', InAnswers', Shown', dropped', swallowed')
  BY <1>1, <1>3 DEF Placed, EachAtOnePlace, Partition
<1>5. EachAtOnePlace'
  BY <1>4 DEF Placed, EachAtOnePlace, Content
<1>6. MailboxIsTail'
  BY <1>2 DEF MailboxIsTail
<1>7. WayIsInOrder'
  BY <1>1 DEF Placed, WayIsInOrder, Content
<1> QED BY <1>5, <1>6, <1>7 DEF Placed, ShownInOrder


-----------------------------------------------------------------------------
(* What the two ends of the way do to it.                                  *)

LEMMA ShowsOne ==
    ASSUME WindowTypeOK, NEW a \in Answer, a.list # NoList
    PROVE  \/ a.list = <<>> /\ ShowList(a) = shown
           \/ \E m \in Messages :
                 a.list = <<m>> /\ ShowList(a) = Append(shown, [msg |-> m, in |-> channel])
<1> DEFINE R == [msg : Messages, in : Channels]
           q == [i \in DOMAIN a.list |-> [msg |-> a.list[i], in |-> channel]]
<1>1. shown \in Seq(R) /\ channel \in Channels
  BY DEF WindowTypeOK
<1>2. CASE a.list = <<>>
  <2>1. q = <<>>
    BY <1>2
  <2> QED BY <1>1, <1>2, <2>1 DEF ShowList
<1>3. ASSUME NEW m \in Messages, a.list = <<m>>
      PROVE  ShowList(a) = Append(shown, [msg |-> m, in |-> channel])
  <2> DEFINE r == [msg |-> m, in |-> channel]
  <2>1. DOMAIN a.list = 1 .. 1 /\ a.list[1] = m
    BY <1>3
  <2>2. q = [i \in 1 .. 1 |-> r]
    BY <2>1
  <2>3. r \in R
    BY <1>1
  <2> HIDE DEF r, R
  <2>4. q = <<r>>
    BY <2>2
  <2>5. shown \o <<r>> = Append(shown, r)
    BY <1>1, <2>3
  <2> QED BY <2>4, <2>5 DEF ShowList, r
<1> QED BY <1>2, <1>3, ContentFacts

LEMMA ReceiveShows ==
    ASSUME WindowTypeOK, AnswersFit, Receive
    PROVE  /\ 1 \in DOMAIN answers /\ answers[1] \in Answer
           /\ Without(answers, 1, answers') /\ answers' \in Seq(Answer)
           /\ \/ shown' = shown /\ Content(answers[1]) = {}
              \/ \E m \in Messages :
                    /\ Content(answers[1]) = {m}
                    /\ shown' = Append(shown, [msg |-> m, in |-> channel])
<1> DEFINE a == answers[1]
<1>1. /\ answers \in Seq(Answer) /\ answers # <<>> /\ answers' = Tail(answers)
  BY DEF WindowTypeOK, Receive
<1>2. /\ Head(answers) = a /\ a \in Answer /\ 1 \in DOMAIN answers
      /\ Without(answers, 1, answers') /\ answers' \in Seq(Answer)
  BY <1>1, TailIsWithout DEF Without
<1>3. a.list = NoList <=> ~(a.ok /\ a.of = 0)
  BY <1>2 DEF AnswersFit
<1>4. \/ a.ok /\ a.list = NoList /\ UNCHANGED shown
      \/ ~(a.ok /\ a.list = NoList) /\ shown' = IF a.ok THEN ShowList(a) ELSE shown
  BY <1>2 DEF Receive
<1> HIDE DEF a
<1>5. CASE a.list = NoList
  BY <1>2, <1>3, <1>4, <1>5, ContentFacts DEF a
<1>6. CASE a.list # NoList
  <2>1. shown' = ShowList(a)
    BY <1>3, <1>4, <1>6
  <2>2. CASE a.list = <<>>
    BY <1>2, <1>6, <2>1, <2>2, ShowsOne, ContentFacts DEF a
  <2>3. CASE a.list # <<>>
    <3>1. PICK m \in Messages :
              a.list = <<m>> /\ ShowList(a) = Append(shown, [msg |-> m, in |-> channel])
      BY <1>2, <1>6, <2>3, ShowsOne
    <3>2. Content(a) = {m}
      BY <1>2, <3>1, ContentFacts
    <3> QED BY <1>2, <2>1, <3>1, <3>2 DEF a
  <2> QED BY <2>2, <2>3
<1> QED BY <1>2, <1>5, <1>6 DEF a

\* One answer for one request, and what is done for it.
Answered(a) ==
    LET c == requests[1].channel IN
    /\ answers' = Append(answers, a)
    /\ a.of = requests[1].of
    /\ a.list = NoList <=> ~(a.ok /\ a.of = 0)
    /\ a.ok = session
    /\ ran' = IF a.ok /\ a.of # 0 THEN ran \cup {a.of} ELSE ran
    /\ \/ mailbox' = mailbox /\ a.list \in {NoList, <<>>}
       \/ /\ a.ok /\ a.of = 0
          /\ mailbox[c] # <<>> /\ mailbox' = [mailbox EXCEPT ![c] = Tail(@)]
          /\ a.list = <<Head(mailbox[c])>>

LEMMA ServeAnswers ==
    ASSUME WindowTypeOK, Serve
    PROVE  /\ 1 \in DOMAIN requests /\ requests[1] \in Request
           /\ Without(requests, 1, requests') /\ requests' \in Seq(Request)
           /\ \E a \in Answer : Answered(a)
<1> DEFINE r == requests[1]
           c == r.channel
<1>1. requests \in Seq(Request) /\ requests # <<>> /\ requests' = Tail(requests)
  BY DEF WindowTypeOK, Serve
<1>2. /\ Head(requests) = r /\ r \in Request /\ 1 \in DOMAIN requests
      /\ Without(requests, 1, requests') /\ requests' \in Seq(Request)
  BY <1>1, TailIsWithout DEF Without
<1>3. c \in Channels /\ r.of \in 0 .. MaxPuts
  BY <1>2 DEF Request
<1>4. mailbox \in [Channels -> Seq(Messages)] /\ mailbox[c] \in Seq(Messages) /\ session \in BOOLEAN
  BY <1>3 DEF WindowTypeOK
<1>5. \/ session /\ r.of = 0 /\ GetMessage(c) /\ UNCHANGED ran
      \/ session /\ r.of # 0 /\ PutMessage(r.of) /\ UNCHANGED mailbox
      \/ /\ ~session
         /\ answers' = Append(answers, [of |-> r.of, ok |-> FALSE, list |-> NoList])
         /\ UNCHANGED <<mailbox, ran>>
  BY <1>2 DEF Serve
<1> HIDE DEF r, c
<1>6. CASE session /\ r.of = 0 /\ GetMessage(c) /\ UNCHANGED ran
  <2> DEFINE l == IF mailbox[c] = <<>> THEN <<>> ELSE <<Head(mailbox[c])>>
             a == [of |-> 0, ok |-> TRUE, list |-> l]
  <2>1. mailbox[c] # <<>> => Head(mailbox[c]) \in Messages
    BY <1>4, TailIsWithout
  <2>2. a \in Answer /\ l # NoList
    BY <2>1, WindowAssumption DEF Answer, Messages
  <2>3. answers' = Append(answers, a)
    BY <1>6 DEF GetMessage
  <2>4. mailbox' = [mailbox EXCEPT ![c] = IF @ = <<>> THEN <<>> ELSE Tail(@)]
    BY <1>6 DEF GetMessage
  <2>5. CASE mailbox[c] = <<>>
    <3>1. mailbox' = mailbox /\ l = <<>>
      BY <1>4, <2>4, <2>5
    <3> QED BY <1>6, <2>2, <2>3, <3>1, <1>2 DEF Answered, r
  <2>6. CASE mailbox[c] # <<>>
    <3>1. mailbox' = [mailbox EXCEPT ![c] = Tail(@)] /\ l = <<Head(mailbox[c])>>
      BY <1>4, <2>4, <2>6
    <3> QED BY <1>6, <2>2, <2>3, <2>6, <3>1, <1>2 DEF Answered, r, c
  <2> QED BY <2>5, <2>6
<1>7. CASE session /\ r.of # 0 /\ PutMessage(r.of) /\ UNCHANGED mailbox
  <2> DEFINE a == [of |-> r.of, ok |-> TRUE, list |-> NoList]
  <2>1. a \in Answer
    BY <1>3 DEF Answer
  <2> QED BY <1>2, <1>7, <2>1 DEF PutMessage, Answered, r
<1>8. CASE /\ ~session
           /\ answers' = Append(answers, [of |-> r.of, ok |-> FALSE, list |-> NoList])
           /\ UNCHANGED <<mailbox, ran>>
  <2> DEFINE a == [of |-> r.of, ok |-> FALSE, list |-> NoList]
  <2>1. a \in Answer
    BY <1>3 DEF Answer
  <2> QED BY <1>2, <1>4, <1>8, <2>1 DEF Answered, r
<1> QED BY <1>2, <1>5, <1>6, <1>7, <1>8 DEF r


-----------------------------------------------------------------------------
(* Types.                                                                  *)

LEMMA TypesInit ==
    ASSUME InitWindow
    PROVE  WindowTypeOK
<1>1. mailbox \in [Channels -> Seq(Messages)] /\ outcome \in [Puts -> {"none", "silent", "failed"}]
  <2>1. \A c \in Channels : <<>> \in Seq(Messages)
    OBVIOUS
  <2>2. [c \in Channels |-> <<>>] \in [Channels -> Seq(Messages)]
    BY <2>1
  <2> QED BY <2>2 DEF InitWindow
<1>2. counter \in 0 .. RESEND_THRESHOLD_NUM /\ typed \in 0 .. MaxPuts
  BY WindowAssumption DEF InitWindow
<1>3. /\ posted \in Seq(Channels) /\ requests \in Seq(Request) /\ answers \in Seq(Answer)
      /\ shown \in Seq([msg : Messages, in : Channels])
  BY DEF InitWindow
<1> QED BY <1>1, <1>2, <1>3 DEF InitWindow, WindowTypeOK

LEMMA PutEndsTypes ==
    ASSUME WindowTypeOK, PutsAreCounted, screen = "putting",
           NEW told \in {"silent", "failed"}, PutEnds(told)
    PROVE  /\ screen' \in {"window", "reading"} /\ typed \in Puts
           /\ outcome' \in [Puts -> {"none", "silent", "failed"}]
           /\ outcome'[typed] = told /\ \A n \in Puts : n # typed => outcome'[n] = outcome[n]
           /\ screen' = "reading" <=> socketSet
BY DEF WindowTypeOK, PutsAreCounted, PutEnds

\* A request is sent: a datagram of the window's channel.
LEMMA RequestTypes ==
    ASSUME WindowTypeOK, NEW n \in 0 .. MaxPuts,
           requests' = Append(requests, [of |-> n, channel |-> channel])
    PROVE  requests' \in Seq(Request)
<1>1. [of |-> n, channel |-> channel] \in Request
  BY DEF WindowTypeOK, Request
<1> QED BY <1>1 DEF WindowTypeOK

LEMMA TypesStep ==
    ASSUME WindowIInv, [WindowNext]_vars
    PROVE  WindowTypeOK'
<1> USE DEF clientVars, serverVars, networkVars, faultVars, historyVars
<1>1. WindowTypeOK /\ AnswersFit /\ PutsAreCounted
  BY DEF WindowIInv
<1>2. CASE Poll
  <2>1. requests' \in Seq(Request)
    <3>1. 0 \in 0 .. MaxPuts /\ requests' = Append(requests, [of |-> 0, channel |-> channel])
      BY <1>2, WindowAssumption DEF Poll
    <3> QED BY <1>1, <3>1, RequestTypes
  <2> QED BY <1>1, <1>2, <2>1 DEF Poll, WindowTypeOK
<1>3. CASE PutTimeout
  <2>1. screen = "putting" /\ counter < RESEND_THRESHOLD_NUM
    BY <1>1, <1>3 DEF PutTimeout, PutsAreCounted
  <2>2. counter' \in 0 .. RESEND_THRESHOLD_NUM
    BY <1>1, <1>3, <2>1, WindowAssumption DEF PutTimeout, WindowTypeOK
  <2>3. CASE PutEnds("failed")
    BY <1>1, <1>3, <2>1, <2>2, <2>3, PutEndsTypes DEF PutTimeout, WindowTypeOK
  <2>4. CASE UNCHANGED <<outcome, screen>>
    BY <1>1, <1>3, <2>2, <2>4 DEF PutTimeout, WindowTypeOK
  <2> QED BY <1>3, <2>3, <2>4 DEF PutTimeout
<1>4. CASE PutRead
  <2>1. /\ screen = "putting" /\ PutEnds("silent")
        /\ Head(answers) \in Answer /\ answers' \in Seq(Answer)
    BY <1>1, <1>4, TailIsWithout DEF PutRead, WindowTypeOK
  <2>2. Content(Head(answers)) \subseteq Messages
    BY <2>1, ContentFacts
  <2> QED BY <1>1, <1>4, <2>1, <2>2, PutEndsTypes DEF PutRead, WindowTypeOK
<1>5. CASE Receive
  <2>1. answers' \in Seq(Answer)
    BY <1>1, <1>5, ReceiveShows
  <2>2. shown' \in Seq([msg : Messages, in : Channels])
    <3>1. CASE shown' = shown
      BY <1>1, <3>1 DEF WindowTypeOK
    <3>2. CASE shown' # shown
      <4>1. PICK m \in Messages : shown' = Append(shown, [msg |-> m, in |-> channel])
        BY <1>1, <1>5, <3>2, ReceiveShows
      <4>2. [msg |-> m, in |-> channel] \in [msg : Messages, in : Channels]
        BY <1>1 DEF WindowTypeOK
      <4> QED BY <1>1, <4>1, <4>2 DEF WindowTypeOK
    <3> QED BY <3>1, <3>2
  <2>3. screen' \in {"window", "crashed"}
    BY <1>5 DEF Receive
  <2> QED BY <1>1, <1>5, <2>1, <2>2, <2>3 DEF Receive, WindowTypeOK
<1>6. CASE EnterLine
  <2>1. typed + 1 \in Puts /\ typed + 1 \in 0 .. MaxPuts
    BY <1>1, <1>6, WindowAssumption DEF EnterLine, WindowTypeOK, Puts
  <2>2. requests' \in Seq(Request)
    BY <1>1, <1>6, <2>1, RequestTypes DEF EnterLine
  <2>3. counter' \in 0 .. RESEND_THRESHOLD_NUM
    BY <1>6, WindowAssumption DEF EnterLine, CounterAtStart
  <2>4. clean' \subseteq Puts
    BY <1>1, <1>6, <2>1 DEF EnterLine, WindowTypeOK
  <2>5. socketSet' \in BOOLEAN
    BY <1>1, <1>6 DEF EnterLine, SocketSetAfterSelect, WindowTypeOK
  <2> QED BY <1>1, <1>6, <2>1, <2>2, <2>3, <2>4, <2>5 DEF EnterLine, WindowTypeOK
<1>7. CASE Quit \/ EnterEmptyLine
  BY <1>1, <1>7 DEF Quit, EnterEmptyLine, SocketSetAfterSelect, WindowTypeOK
<1>8. CASE ReadElsewhere
  <2>1. Head(answers) \in Answer /\ answers' \in Seq(Answer)
    BY <1>1, <1>8, TailIsWithout DEF ReadElsewhere, WindowTypeOK
  <2>2. Content(Head(answers)) \subseteq Messages
    BY <2>1, ContentFacts
  <2> QED BY <1>1, <1>8, <2>1, <2>2 DEF ReadElsewhere, WindowTypeOK
<1>9. CASE EnterWindow
  BY <1>1, <1>9 DEF EnterWindow, WindowTypeOK
<1>10. CASE Serve
  <2>1. PICK a \in Answer : Answered(a)
    BY <1>1, <1>10, ServeAnswers
  <2>2. requests' \in Seq(Request) /\ requests[1] \in Request
    BY <1>1, <1>10, ServeAnswers
  <2>3. answers' \in Seq(Answer)
    BY <1>1, <2>1 DEF Answered, WindowTypeOK
  <2>4. ran' \subseteq Puts
    <3>1. a.of \in 0 .. MaxPuts /\ MaxPuts \in Nat
      BY ContentFacts, WindowAssumption
    <3>2. a.of # 0 => a.of \in Puts
      BY <3>1 DEF Puts
    <3>3. ran' = IF a.ok /\ a.of # 0 THEN ran \cup {a.of} ELSE ran
      BY <2>1 DEF Answered
    <3> QED BY <1>1, <3>2, <3>3 DEF WindowTypeOK
  <2>5. mailbox' \in [Channels -> Seq(Messages)]
    <3>1. CASE mailbox' = mailbox
      BY <1>1, <3>1 DEF WindowTypeOK
    <3>2. CASE mailbox' # mailbox
      <4>1. requests[1].channel \in Channels
        BY <2>2 DEF Request
      <4>2. /\ mailbox[requests[1].channel] # <<>>
            /\ mailbox' = [mailbox EXCEPT ![requests[1].channel] = Tail(@)]
        BY <2>1, <3>2 DEF Answered
      <4>3. mailbox[requests[1].channel] \in Seq(Messages)
        BY <1>1, <4>1 DEF WindowTypeOK
      <4>4. Tail(mailbox[requests[1].channel]) \in Seq(Messages)
        BY <4>2, <4>3, TailIsWithout
      <4> QED BY <1>1, <4>2, <4>4 DEF WindowTypeOK
    <3> QED BY <3>1, <3>2
  <2> QED BY <1>1, <1>10, <2>2, <2>3, <2>4, <2>5 DEF Serve, WindowTypeOK
<1>11. CASE OtherPuts
  <2>1. PICK c \in Channels : /\ posted' = Append(posted, c)
                              /\ mailbox' = [mailbox EXCEPT ![c] = Append(@, Len(posted'))]
    BY <1>11 DEF OtherPuts
  <2>2. posted' \in Seq(Channels) /\ Len(posted') \in Messages
    BY <1>1, <1>11, <2>1, WindowTypes DEF OtherPuts, Messages
  <2>3. mailbox' \in [Channels -> Seq(Messages)]
    BY <1>1, <2>1, <2>2 DEF WindowTypeOK
  <2> QED BY <1>1, <1>11, <2>2, <2>3 DEF OtherPuts, WindowTypeOK
<1>12. CASE Restart
  <2>1. InMailbox \subseteq Messages
    <3>1. \A c \in Channels : \A k \in DOMAIN mailbox[c] : mailbox[c][k] \in Messages
      <4>1. \A c \in Channels : mailbox[c] \in Seq(Messages)
        BY <1>1 DEF WindowTypeOK
      <4> QED BY <4>1
    <3> QED BY <3>1, InPlaces
  <2>2. dropped' \subseteq Messages
    BY <1>1, <1>12, <2>1 DEF Restart, WindowTypeOK, InMailbox
  <2>3. mailbox' \in [Channels -> Seq(Messages)] /\ session' \in BOOLEAN
    <3>1. \A c \in Channels : <<>> \in Seq(Messages)
      OBVIOUS
    <3>2. [c \in Channels |-> <<>>] \in [Channels -> Seq(Messages)]
      BY <3>1
    <3> QED BY <1>12, <3>2 DEF Restart
  <2>4. restarts' \in Nat
    BY <1>1, <1>12 DEF Restart, WindowTypeOK
  <2> QED BY <1>1, <1>12, <2>2, <2>3, <2>4 DEF Restart, WindowTypeOK
<1>13. CASE Lose
  <2>1. requests' \in Seq(Request)
    BY <1>1, <1>13, RemoveIsWithout DEF Lose, WindowTypeOK
  <2>2. answers' \in Seq(Answer)
    BY <1>1, <1>13, RemoveIsWithout DEF Lose, WindowTypeOK
  <2>3. dropped' \subseteq Messages
    BY <1>1, <1>13, ContentFacts, WindowTypes DEF Lose, WindowTypeOK
  <2> QED BY <1>1, <1>13, <2>1, <2>2, <2>3 DEF Lose, WindowTypeOK
<1>14. CASE Reorder
  <2>1. requests' \in Seq(Request)
    BY <1>1, <1>14, SwappedHas DEF Reorder, WindowTypeOK
  <2>2. answers' \in Seq(Answer)
    BY <1>1, <1>14, SwappedHas DEF Reorder, WindowTypeOK
  <2> QED BY <1>1, <1>14, <2>1, <2>2 DEF Reorder, WindowTypeOK
<1>15. CASE UNCHANGED vars
  BY <1>1, <1>15 DEF vars, WindowTypeOK
<1> QED BY <1>2, <1>3, <1>4, <1>5, <1>6, <1>7, <1>8, <1>9, <1>10, <1>11, <1>12, <1>13, <1>14,
           <1>15 DEF WindowNext, WindowStep


-----------------------------------------------------------------------------
(* Every action keeps the messages placed.                                 *)

\* A call takes the first answer for its own.
LEMMA PlacedSwallowed ==
    ASSUME WindowTypeOK, WindowTypeOK', Placed,
           UNCHANGED <<posted, mailbox, shown, swaps, dropped>>,
           answers # <<>>, answers' = Tail(answers),
           swallowed' = swallowed \cup Content(Head(answers))
    PROVE  Placed'
<1>1. 1 \in DOMAIN answers /\ Without(answers, 1, answers') /\ Head(answers) = answers[1]
  BY WindowTypes, TailIsWithout DEF Without
<1>2. Content(answers[1]) \subseteq InAnswers
  BY <1>1, InPlaces
<1>3. Partition(DOMAIN posted, InMailbox, InAnswers, Shown, dropped, swallowed)
  BY DEF Placed, EachAtOnePlace
<1>4. dropped' \cap swallowed' = {}
  BY <1>1, <1>2, <1>3 DEF Partition
<1>5. dropped' \cup swallowed' = dropped \cup swallowed \cup Content(answers[1])
  BY <1>1
<1> QED BY <1>1, <1>4, <1>5, PlacedGone

LEMMA PlacedStep ==
    ASSUME WindowIInv, [WindowNext]_vars, WindowTypeOK'
    PROVE  Placed'
<1> USE DEF clientVars, serverVars, networkVars, faultVars, historyVars
<1>1. WindowTypeOK /\ AnswersFit /\ PutsAreCounted /\ Placed
  BY DEF WindowIInv, Placed
<1>2. CASE Poll \/ PutTimeout \/ EnterEmptyLine \/ EnterLine \/ Quit \/ EnterWindow \/ UNCHANGED vars
  <2>1. UNCHANGED <<posted, mailbox, answers, shown, dropped, swallowed, swaps>>
    BY <1>2 DEF Poll, PutTimeout, EnterEmptyLine, EnterLine, Quit, EnterWindow, vars
  <2> QED BY <1>1, <2>1, PlacedSame
<1>3. CASE PutRead \/ ReadElsewhere
  <2>1. /\ UNCHANGED <<posted, mailbox, shown, swaps, dropped>>
        /\ answers # <<>> /\ answers' = Tail(answers)
        /\ swallowed' = swallowed \cup Content(Head(answers))
    BY <1>3 DEF PutRead, ReadElsewhere
  <2> QED BY <1>1, <2>1, PlacedSwallowed
<1>4. CASE Receive
  <2>1. /\ UNCHANGED <<posted, mailbox, swaps, dropped, swallowed>>
        /\ answers # <<>> /\ answers' = Tail(answers)
    BY <1>4 DEF Receive
  <2>2. CASE shown' = shown /\ Content(answers[1]) = {}
    <3>1. 1 \in DOMAIN answers /\ Without(answers, 1, answers')
      BY <1>1, <1>4, ReceiveShows
    <3>2. dropped \cap swallowed = {}
      BY <1>1 DEF Placed, EachAtOnePlace, Partition
    <3>3. dropped' \cup swallowed' = dropped \cup swallowed \cup Content(answers[1])
      BY <2>1, <2>2
    <3> QED BY <1>1, <2>1, <2>2, <3>1, <3>2, <3>3, PlacedGone
  <2>3. ASSUME NEW m \in Messages, Content(answers[1]) = {m},
               shown' = Append(shown, [msg |-> m, in |-> channel])
        PROVE  Placed'
    <3>1. PICK r : r = [msg |-> m, in |-> channel]
      OBVIOUS
    <3>2. r.msg = m /\ shown' = Append(shown, r)
      BY <2>3, <3>1
    <3> QED BY <1>1, <2>1, <2>3, <3>2, PlacedShown
  <2> QED BY <1>1, <1>4, <2>2, <2>3, ReceiveShows
<1>5. CASE Serve
  <2>1. UNCHANGED <<posted, shown, dropped, swallowed, swaps>>
    BY <1>5 DEF Serve
  <2>2. PICK a \in Answer : Answered(a)
    BY <1>1, <1>5, ServeAnswers
  <2>3. CASE mailbox' = mailbox /\ a.list \in {NoList, <<>>}
    <3>1. Content(a) = {} /\ answers' = Append(answers, a)
      BY <2>2, <2>3, ContentFacts DEF Answered
    <3> QED BY <1>1, <2>1, <2>3, <3>1, PlacedSent
  <2>4. CASE ~(mailbox' = mailbox /\ a.list \in {NoList, <<>>})
    <3>1. PICK c : c = requests[1].channel
      OBVIOUS
    <3>2. c \in Channels
      BY <1>1, <1>5, <3>1, ServeAnswers DEF Request
    <3>3. /\ mailbox[c] # <<>> /\ mailbox' = [mailbox EXCEPT ![c] = Tail(@)]
          /\ a.list = <<Head(mailbox[c])>> /\ answers' = Append(answers, a)
      BY <2>2, <2>4, <3>1 DEF Answered
    <3> QED BY <1>1, <2>1, <3>2, <3>3, PlacedGet
  <2> QED BY <2>3, <2>4
<1>6. CASE OtherPuts
  BY <1>1, <1>6, PlacedPut DEF OtherPuts
<1>7. CASE Restart
  BY <1>1, <1>7, PlacedForgotten DEF Restart, InMailbox
<1>8. CASE Lose
  <2>1. UNCHANGED <<posted, mailbox, shown, swaps, swallowed>>
    BY <1>8 DEF Lose
  <2>2. CASE UNCHANGED <<answers, dropped>>
    BY <1>1, <2>1, <2>2, PlacedSame
  <2>3. ASSUME NEW i \in DOMAIN answers, answers' = RemoveAt(answers, i),
               dropped' = dropped \cup Content(answers[i])
        PROVE  Placed'
    <3>1. Without(answers, i, answers')
      BY <1>1, <2>3, WindowTypes, RemoveIsWithout
    <3>2. Content(answers[i]) \subseteq InAnswers
      BY InPlaces
    <3>3. Partition(DOMAIN posted, InMailbox, InAnswers, Shown, dropped, swallowed)
      BY <1>1 DEF Placed, EachAtOnePlace
    <3>4. /\ dropped' \cap swallowed' = {}
          /\ dropped' \cup swallowed' = dropped \cup swallowed \cup Content(answers[i])
      BY <2>1, <2>3, <3>2, <3>3 DEF Partition
    <3> QED BY <1>1, <2>1, <3>1, <3>4, PlacedGone
  <2> QED BY <1>8, <2>2, <2>3 DEF Lose
<1>9. CASE Reorder
  <2>1. UNCHANGED <<posted, mailbox, shown, dropped, swallowed>> /\ swaps' = swaps + 1
    BY <1>9 DEF Reorder
  <2>2. CASE UNCHANGED answers
    <3>1. \A k \in DOMAIN answers' : k \in Nat
      BY <1>1, <2>2, WindowTypes
    <3>2. PICK f : f = [k \in DOMAIN answers' |-> k]
      OBVIOUS
    <3>3. \A k \in DOMAIN answers' : f[k] = k /\ k \in DOMAIN answers /\ answers'[k] = answers[k]
      BY <2>2, <3>2
    <3>4. swaps' # 0
      BY <1>1, <2>1 DEF WindowTypeOK
    <3>5. InAnswers' = InAnswers
      BY <2>2 DEF InAnswers, Content
    <3>6. Partition(DOMAIN posted, InMailbox, InAnswers', Shown, dropped', swallowed')
      BY <1>1, <2>1, <3>5 DEF Placed, EachAtOnePlace
    <3> QED BY <1>1, <2>1, <3>1, <3>3, <3>4, <3>6, AnswersMove
  <2>3. CASE \E i \in 1 .. Len(answers) - 1 : answers' = Swapped(answers, i)
    BY <1>1, <2>1, <2>3, PlacedReordered
  <2> QED BY <1>9, <2>2, <2>3 DEF Reorder
<1> QED BY <1>2, <1>3, <1>4, <1>5, <1>6, <1>7, <1>8, <1>9 DEF WindowNext, WindowStep


-----------------------------------------------------------------------------
(* What is in the answers on the way, and whose channel they are of.       *)

AllFrom(t, s) == \A k \in DOMAIN t : \E j \in DOMAIN s : t[k] = s[j]

LEMMA AllFromFacts ==
    ASSUME NEW S, NEW s \in Seq(S), NEW t
    PROVE  /\ t = s => AllFrom(t, s)
           /\ \A i : Without(s, i, t) => AllFrom(t, s)
           /\ \A i \in 1 .. Len(s) - 1 : t = Swapped(s, i) => AllFrom(t, s)
<1>1. t = s => AllFrom(t, s)
  BY DEF AllFrom
<1>2. \A i : Without(s, i, t) => AllFrom(t, s)
  BY DEF AllFrom, Without
<1>3. ASSUME NEW i \in 1 .. Len(s) - 1, t = Swapped(s, i) PROVE AllFrom(t, s)
  <2>1. /\ DOMAIN t = DOMAIN s /\ DOMAIN s = 1 .. Len(s) /\ Len(s) \in Nat
        /\ \A k \in DOMAIN s : t[k] = s[IF k = i THEN i + 1 ELSE IF k = i + 1 THEN i ELSE k]
    BY <1>3, SwappedHas
  <2> SUFFICES ASSUME NEW k \in DOMAIN t PROVE \E j \in DOMAIN s : t[k] = s[j]
    BY DEF AllFrom
  <2> QED BY <2>1
<1> QED BY <1>1, <1>2, <1>3

\* Only the server sends answers, and only the window requests.
LEMMA WayOnlyLeaves ==
    ASSUME WindowTypeOK, [WindowNext]_vars
    PROVE  /\ Serve \/ AllFrom(answers', answers)
           /\ Poll \/ EnterLine \/ AllFrom(requests', requests)
<1> USE DEF clientVars, serverVars, networkVars, faultVars, historyVars
<1>1. answers \in Seq(Answer) /\ requests \in Seq(Request)
  BY DEF WindowTypeOK
<1>2. CASE Poll \/ EnterEmptyLine \/ EnterLine \/ PutTimeout \/ Quit \/ EnterWindow \/ OtherPuts \/ Restart
           \/ UNCHANGED vars
  <2>1. answers' = answers /\ (Poll \/ EnterLine \/ requests' = requests)
    BY <1>2 DEF Poll, EnterEmptyLine, EnterLine, PutTimeout, Quit, EnterWindow, OtherPuts, Restart, vars
  <2> QED BY <1>1, <2>1, AllFromFacts
<1>3. CASE PutRead \/ Receive \/ ReadElsewhere
  <2>1. answers # <<>> /\ answers' = Tail(answers) /\ requests' = requests
    BY <1>3 DEF PutRead, Receive, ReadElsewhere
  <2>2. Without(answers, 1, answers')
    BY <1>1, <2>1, TailIsWithout
  <2> QED BY <1>1, <2>1, <2>2, AllFromFacts
<1>4. CASE Serve
  <2>1. Without(requests, 1, requests')
    BY <1>4, ServeAnswers
  <2> QED BY <1>1, <1>4, <2>1, AllFromFacts
<1>5. CASE Lose
  <2>1. CASE UNCHANGED answers /\ \E i \in DOMAIN requests : requests' = RemoveAt(requests, i)
    BY <1>1, <2>1, RemoveIsWithout, AllFromFacts
  <2>2. CASE UNCHANGED requests /\ \E i \in DOMAIN answers : answers' = RemoveAt(answers, i)
    BY <1>1, <2>2, RemoveIsWithout, AllFromFacts
  <2> QED BY <1>5, <2>1, <2>2 DEF Lose
<1>6. CASE Reorder
  BY <1>1, <1>6, AllFromFacts DEF Reorder
<1> QED BY <1>2, <1>3, <1>4, <1>5, <1>6 DEF WindowNext, WindowStep

LEMMA AnswersFitStep ==
    ASSUME WindowIInv, [WindowNext]_vars
    PROVE  AnswersFit'
<1> USE DEF clientVars, serverVars, networkVars, faultVars, historyVars
<1>1. WindowTypeOK /\ AnswersFit
  BY DEF WindowIInv
<1>2. CASE Serve
  <2>1. PICK a \in Answer : Answered(a)
    BY <1>1, <1>2, ServeAnswers
  <2>2. session' = session /\ restarts' = restarts
    BY <1>2 DEF Serve
  <2>3. /\ DOMAIN answers' = 1 .. Len(answers) + 1 /\ Len(answers) \in Nat
        /\ DOMAIN answers = 1 .. Len(answers)
        /\ \A i \in DOMAIN answers : answers'[i] = answers[i]
        /\ answers'[Len(answers) + 1] = a
    BY <1>1, <2>1, WindowTypes DEF Answered
  <2>4. /\ a.list = NoList <=> ~(a.ok /\ a.of = 0)
        /\ a.ok /\ a.of # 0 => a.of \in ran'
        /\ restarts' = 0 => a.ok
        /\ ran \subseteq ran'
    BY <1>1, <2>1, <2>2 DEF Answered, AnswersFit
  <2> SUFFICES ASSUME NEW i \in DOMAIN answers'
               PROVE  /\ answers'[i].list = NoList <=> ~(answers'[i].ok /\ answers'[i].of = 0)
                      /\ answers'[i].ok /\ answers'[i].of # 0 => answers'[i].of \in ran'
                      /\ restarts' = 0 => answers'[i].ok
    BY <1>1, <2>2 DEF AnswersFit
  <2>5. CASE i = Len(answers) + 1
    BY <2>3, <2>4, <2>5
  <2>6. CASE i # Len(answers) + 1
    <3>1. i \in DOMAIN answers /\ answers'[i] = answers[i]
      BY <2>3, <2>6
    <3> QED BY <1>1, <2>2, <2>4, <3>1 DEF AnswersFit
  <2> QED BY <2>5, <2>6
<1>3. CASE ~Serve
  <2>1. AllFrom(answers', answers)
    BY <1>1, <1>3, WayOnlyLeaves
  <2>2. ran' = ran /\ (restarts' = 0 => restarts = 0 /\ session' = session)
    BY <1>1, <1>3 DEF WindowTypeOK, WindowNext, WindowStep, Poll, PutTimeout, PutRead, Receive,
       EnterEmptyLine, EnterLine, Quit, ReadElsewhere, EnterWindow, OtherPuts, Restart, Lose, Reorder, vars
  <2> QED BY <1>1, <2>1, <2>2 DEF AnswersFit, AllFrom
<1> QED BY <1>2, <1>3

\* Messages on the way and on the screen keep their channel.
LEMMA PostedStays ==
    ASSUME WindowTypeOK, Placed, [WindowNext]_vars
    PROVE  \A m \in InAnswers \cup Shown \cup InMailbox : posted'[m] = posted[m]
<1> USE DEF clientVars, serverVars, networkVars, faultVars, historyVars
<1>1. CASE OtherPuts
  <2>1. \A m \in DOMAIN posted : posted'[m] = posted[m]
    BY <1>1, WindowTypes DEF OtherPuts
  <2> QED BY <2>1 DEF Placed, EachAtOnePlace, Partition
<1>2. CASE ~OtherPuts
  <2>1. posted' = posted
    BY <1>2 DEF WindowNext, WindowStep, Poll, PutTimeout, PutRead, Receive, Serve,
       EnterEmptyLine, EnterLine, Quit, ReadElsewhere, EnterWindow, Restart, Lose, Reorder, vars
  <2> QED BY <2>1
<1> QED BY <1>1, <1>2

LEMMA LeftEarlyStays ==
    ASSUME [WindowNext]_vars, leftEarly
    PROVE  leftEarly'
BY DEF clientVars, serverVars, networkVars, faultVars, historyVars,
       WindowNext, WindowStep, Poll, PutTimeout, PutRead, Receive, Serve, OtherPuts,
       EnterEmptyLine, EnterLine, Quit, ReadElsewhere, EnterWindow, Restart, Lose, Reorder, vars


LEMMA WayIsOfChannelStep ==
    ASSUME WindowIInv, [WindowNext]_vars, WindowTypeOK'
    PROVE  WayIsOfChannel'
<1> USE DEF clientVars, serverVars, networkVars, faultVars, historyVars
<1>1. WindowTypeOK /\ AnswersFit /\ Placed /\ WayIsOfChannel
  BY DEF WindowIInv, Placed
<1> SUFFICES ASSUME ~leftEarly'
             PROVE  /\ screen' = "elsewhere" => requests' = <<>> /\ answers' = <<>>
                    /\ \A i \in DOMAIN requests' : requests'[i].channel = channel'
                    /\ \A m \in InAnswers' : posted'[m] = channel'
  BY DEF WayIsOfChannel, NothingOnTheWay
<1>2. /\ ~leftEarly
      /\ screen = "elsewhere" => requests = <<>> /\ answers = <<>>
      /\ \A i \in DOMAIN requests : requests[i].channel = channel
      /\ \A m \in InAnswers : posted[m] = channel
  BY <1>1, LeftEarlyStays DEF WayIsOfChannel, NothingOnTheWay
<1>3. \A m \in InAnswers : posted'[m] = channel
  BY <1>1, <1>2, PostedStays
<1>4. ASSUME AllFrom(answers', answers) PROVE InAnswers' \subseteq InAnswers
  BY <1>4, InPlaces, InPlacesAgain DEF AllFrom
<1>5. ASSUME NEW s, NEW t, NEW S, t \in Seq(S), s = <<>>, AllFrom(t, s) PROVE t = <<>>
  <2>1. DOMAIN s = {}
    BY <1>5
  <2>2. \A k \in DOMAIN t : FALSE
    BY <1>5, <2>1 DEF AllFrom
  <2>3. Len(t) \in Nat /\ DOMAIN t = 1 .. Len(t)
    BY <1>5
  <2>4. Len(t) = 0
    BY <2>2, <2>3
  <2> QED BY <1>5, <2>4, EmptySeq
<1>6. CASE Poll \/ EnterLine
  <2>1. /\ answers' = answers /\ channel' = channel /\ screen' # "elsewhere"
        /\ \E n : requests' = Append(requests, [of |-> n, channel |-> channel])
    BY <1>6 DEF Poll, EnterLine
  <2>2. PICK n : requests' = Append(requests, [of |-> n, channel |-> channel])
    BY <2>1
  <2>3. \A i \in DOMAIN requests' : requests'[i].channel = channel
    <3>1. PICK r : r = [of |-> n, channel |-> channel]
      OBVIOUS
    <3>2. /\ DOMAIN requests' = 1 .. Len(requests) + 1 /\ DOMAIN requests = 1 .. Len(requests)
          /\ Len(requests) \in Nat
          /\ \A i \in 1 .. Len(requests) : requests'[i] = requests[i]
          /\ requests'[Len(requests) + 1] = r
      <4>1. requests \in Seq(Request) /\ requests' = Append(requests, r)
        BY <1>1, <2>2, <3>1 DEF WindowTypeOK
      <4> QED BY <4>1
    <3>3. r.channel = channel
      BY <3>1
    <3> QED BY <1>2, <3>2, <3>3
  <2>4. InAnswers' \subseteq InAnswers
    BY <1>1, <1>4, <2>1, AllFromFacts, WindowTypes
  <2> QED BY <1>3, <2>1, <2>3, <2>4
<1>7. CASE Quit
  <2>1. requests' = <<>> /\ answers' = <<>> /\ requests = requests' /\ answers = answers'
        /\ channel' = channel
    BY <1>7 DEF Quit, NothingOnTheWay
  <2>2. InAnswers' = {}
    BY <2>1, InPlacesAgain
  <2> QED BY <2>1, <2>2
<1>8. CASE EnterWindow
  <2>1. requests' = <<>> /\ answers' = <<>>
    BY <1>2, <1>8 DEF EnterWindow
  <2>2. InAnswers' = {}
    BY <2>1, InPlacesAgain
  <2> QED BY <2>1, <2>2
<1>9. CASE Serve
  <2>1. PICK a \in Answer : Answered(a)
    BY <1>1, <1>9, ServeAnswers
  <2>2. /\ 1 \in DOMAIN requests /\ AllFrom(requests', requests)
        /\ screen' = screen /\ channel' = channel /\ requests[1] \in Request
    <3>1. Without(requests, 1, requests') /\ 1 \in DOMAIN requests /\ requests[1] \in Request
      BY <1>1, <1>9, ServeAnswers
    <3>2. AllFrom(requests', requests)
      BY <1>1, <3>1, AllFromFacts, WindowTypes
    <3> QED BY <1>9, <3>1, <3>2 DEF Serve
  <2>3. screen' # "elsewhere"
    BY <1>2, <2>2
  <2>4. \A m \in Content(a) : posted'[m] = channel
    <3>1. CASE a.list \in {NoList, <<>>}
      BY <3>1, ContentFacts
    <3>2. CASE a.list \notin {NoList, <<>>}
      <4>1. requests[1].channel = channel /\ channel \in Channels
        BY <1>1, <1>2, <2>2 DEF WindowTypeOK
      <4>2. mailbox[channel] # <<>> /\ a.list = <<Head(mailbox[channel])>>
        BY <2>1, <3>2, <4>1 DEF Answered
      <4>3. mailbox[channel] \in Seq(Messages)
        BY <1>1, <4>1 DEF WindowTypeOK
      <4>4. /\ Head(mailbox[channel]) \in Messages /\ Head(mailbox[channel]) = mailbox[channel][1]
            /\ 1 \in DOMAIN mailbox[channel]
        BY <4>2, <4>3, TailIsWithout DEF Without
      <4>5. Content(a) = {mailbox[channel][1]}
        BY <4>2, <4>4, ContentFacts
      <4>6. posted[mailbox[channel][1]] = channel /\ mailbox[channel][1] \in InMailbox
        BY <1>1, <4>1, <4>4, InPlaces DEF Placed, MailboxIsTail
      <4> QED BY <1>1, <4>5, <4>6, PostedStays
    <3> QED BY <3>1, <3>2
  <2>5. InAnswers' \subseteq InAnswers \cup Content(a)
    <3>1. /\ DOMAIN answers' = 1 .. Len(answers) + 1 /\ Len(answers) \in Nat
          /\ DOMAIN answers = 1 .. Len(answers)
          /\ \A i \in DOMAIN answers : answers'[i] = answers[i]
          /\ answers'[Len(answers) + 1] = a
      BY <1>1, <2>1, WindowTypes DEF Answered
    <3> SUFFICES ASSUME NEW k \in DOMAIN answers', NEW m \in Content(answers'[k])
                 PROVE  m \in InAnswers \cup Content(a)
      BY InPlacesAgain
    <3>2. CASE k = Len(answers) + 1
      BY <3>1, <3>2
    <3>3. CASE k # Len(answers) + 1
      <4>1. k \in DOMAIN answers /\ m \in Content(answers[k])
        BY <3>1, <3>3
      <4> QED BY <4>1, InPlaces
    <3> QED BY <3>2, <3>3
  <2>6. \A i \in DOMAIN requests' : requests'[i].channel = channel
    BY <1>2, <2>2 DEF AllFrom
  <2> QED BY <1>3, <2>2, <2>3, <2>4, <2>5, <2>6
<1>10. CASE ~(Poll \/ EnterLine \/ Quit \/ EnterWindow \/ Serve)
  <2>1. AllFrom(answers', answers) /\ AllFrom(requests', requests)
    BY <1>1, <1>10, WayOnlyLeaves
  <2>2. channel' = channel /\ (screen' = "elsewhere" => screen = "elsewhere")
    BY <1>10 DEF WindowNext, WindowStep, PutTimeout, PutEnds, PutRead, Receive, OtherPuts,
       EnterEmptyLine, ReadElsewhere, Restart, Lose, Reorder, vars
  <2>3. InAnswers' \subseteq InAnswers
    BY <1>4, <2>1
  <2>4. screen' = "elsewhere" => requests' = <<>> /\ answers' = <<>>
    BY <1>2, <1>5, <2>1, <2>2, WindowTypesAgain
  <2>5. \A i \in DOMAIN requests' : requests'[i].channel = channel
    BY <1>2, <2>1 DEF AllFrom
  <2> QED BY <1>3, <2>2, <2>3, <2>4, <2>5
<1> QED BY <1>6, <1>7, <1>8, <1>9, <1>10

LEMMA ShownInItsChannelStep ==
    ASSUME WindowIInv, [WindowNext]_vars, WindowTypeOK'
    PROVE  ShownInItsChannel'
<1> USE DEF clientVars, serverVars, networkVars, faultVars, historyVars
<1>1. WindowTypeOK /\ AnswersFit /\ Placed /\ WayIsOfChannel /\ ShownInItsChannel
  BY DEF WindowIInv, Placed
<1> SUFFICES ASSUME ~leftEarly', NEW i \in DOMAIN shown'
             PROVE  shown'[i].in = posted'[shown'[i].msg]
  BY DEF ShownInItsChannel, Range
<1>2. ~leftEarly
  BY LeftEarlyStays
<1>3. \A j \in DOMAIN shown : shown[j].in = posted'[shown[j].msg]
  <2>1. \A j \in DOMAIN shown : shown[j].in = posted[shown[j].msg] /\ shown[j].msg \in Shown
    BY <1>1, <1>2, InPlaces DEF ShownInItsChannel, Range
  <2> QED BY <1>1, <2>1, PostedStays
<1>4. CASE shown' = shown
  BY <1>3, <1>4
<1>5. CASE shown' # shown
  <2>1. Receive
    BY <1>5 DEF WindowNext, WindowStep, Poll, PutTimeout, PutRead, EnterEmptyLine, EnterLine, Quit, EnterWindow,
       Serve, OtherPuts, ReadElsewhere, Restart, Lose, Reorder, vars
  <2>2. PICK m \in Messages : /\ Content(answers[1]) = {m}
                              /\ shown' = Append(shown, [msg |-> m, in |-> channel])
    BY <1>1, <1>5, <2>1, ReceiveShows
  <2>3. 1 \in DOMAIN answers /\ m \in InAnswers
    BY <1>1, <2>1, <2>2, ReceiveShows, InPlaces
  <2>4. posted'[m] = channel
    BY <1>1, <1>2, <2>3, PostedStays DEF WayIsOfChannel
  <2>5. PICK r : r = [msg |-> m, in |-> channel]
    OBVIOUS
  <2>6. r.msg = m /\ r.in = channel
    BY <2>5
  <2>7. /\ DOMAIN shown' = 1 .. Len(shown) + 1 /\ DOMAIN shown = 1 .. Len(shown)
        /\ \A j \in DOMAIN shown : shown'[j] = shown[j]
        /\ shown'[Len(shown) + 1] = r /\ Len(shown) \in Nat
    BY <1>1, <2>2, <2>5, WindowTypes
  <2>8. CASE i \in DOMAIN shown
    BY <1>3, <2>7, <2>8
  <2>9. CASE i \notin DOMAIN shown
    BY <2>4, <2>6, <2>7, <2>9
  <2> QED BY <2>8, <2>9
<1> QED BY <1>4, <1>5


-----------------------------------------------------------------------------
(* The lines of the user: what is on the way while one waits.              *)

Protocol ==
    /\ PutIsAlone
    /\ PutsAreCounted
    /\ OnlyPolls
    /\ ReadIsFed
    /\ SilentMeansRan
    /\ TroubleHasCause

LEMMA ProtocolInit ==
    ASSUME InitWindow
    PROVE  Protocol
<1>1. /\ screen = "window" /\ typed = 0 /\ requests = <<>> /\ answers = <<>>
      /\ clean = {} /\ swallowed = {} /\ outcome = [n \in Puts |-> "none"]
  BY DEF InitWindow
<1> QED BY <1>1 DEF Protocol, PutIsAlone, PutsAreCounted, OnlyPolls, OnTheWayOnly, ReadIsFed,
       SilentMeansRan, TroubleHasCause

\* Trouble stays possible once it is.
LEMMA OverlapStays ==
    ASSUME WindowTypeOK, PutsAreCounted, [WindowNext]_vars, Overlap
    PROVE  Overlap'
<1> USE DEF clientVars, serverVars, networkVars, faultVars, historyVars
<1>1. CASE leftEarly
  BY <1>1, LeftEarlyStays DEF Overlap
<1>2. ASSUME NEW n \in 1 .. typed, n \notin clean \/ outcome[n] = "failed" PROVE Overlap'
  <2>1. typed \in Nat /\ n \in Puts
    BY <1>2, WindowTypes DEF WindowTypeOK, Puts
  <2>2. CASE EnterLine
    <3>1. n \in 1 .. typed' /\ (n \notin clean' \/ outcome'[n] = "failed")
      BY <1>2, <2>1, <2>2 DEF EnterLine
    <3> QED BY <3>1 DEF Overlap
  <2>3. CASE PutTimeout \/ PutRead
    <3>1. /\ screen = "putting" /\ typed' = typed /\ clean' = clean
          /\ outcome' = outcome \/ \E told \in {"silent", "failed"} : PutEnds(told)
      BY <2>3 DEF PutTimeout, PutRead
    <3>2. outcome[n] = "failed" => outcome'[n] = "failed"
      <4>1. CASE outcome' = outcome
        BY <4>1
      <4>2. ASSUME NEW told \in {"silent", "failed"}, PutEnds(told), outcome[n] = "failed"
            PROVE  outcome'[n] = "failed"
        <5>1. n # typed
          BY <3>1, <4>2 DEF PutsAreCounted
        <5> QED BY <2>1, <3>1, <4>2, <5>1, PutEndsTypes
      <4> QED BY <3>1, <4>1, <4>2
    <3> QED BY <1>2, <3>1, <3>2 DEF Overlap
  <2>4. CASE ~(EnterLine \/ PutTimeout \/ PutRead)
    <3>1. typed' = typed /\ clean' = clean /\ outcome' = outcome
      BY <2>4 DEF WindowNext, WindowStep, Poll, Receive, Serve, OtherPuts,
         EnterEmptyLine, Quit, ReadElsewhere, EnterWindow, Restart, Lose, Reorder, vars
    <3> QED BY <1>2, <3>1 DEF Overlap
  <2> QED BY <2>2, <2>3, <2>4
<1> QED BY <1>1, <1>2 DEF Overlap

\* A read that waits for nothing waits for a datagram that was lost.
LEMMA NothingIsNone ==
    ASSUME WindowTypeOK
    PROVE  /\ Datagrams \in Nat
           /\ NothingOnTheWay <=> Datagrams = 0
           /\ Datagrams = 0 => OnTheWayOnly(0)
<1>1. requests \in Seq(Request) /\ answers \in Seq(Answer)
  BY DEF WindowTypeOK
<1>2. /\ Len(requests) \in Nat /\ Len(answers) \in Nat
      /\ requests = <<>> <=> Len(requests) = 0
      /\ answers = <<>> <=> Len(answers) = 0
  BY <1>1
<1>3. Datagrams \in Nat /\ (NothingOnTheWay <=> Datagrams = 0)
  BY <1>2 DEF Datagrams, NothingOnTheWay
<1>4. Datagrams = 0 => OnTheWayOnly(0)
  <2>1. Datagrams = 0 => requests = <<>> /\ answers = <<>>
    BY <1>3 DEF NothingOnTheWay
  <2> QED BY <2>1 DEF OnTheWayOnly
<1> QED BY <1>3, <1>4

LEMMA NothingIsNoneAgain ==
    ASSUME WindowTypeOK'
    PROVE  /\ Datagrams' \in Nat
           /\ NothingOnTheWay' <=> Datagrams' = 0
           /\ Datagrams' = 0 => OnTheWayOnly(0)'
<1>1. requests' \in Seq(Request) /\ answers' \in Seq(Answer)
  BY DEF WindowTypeOK
<1>2. /\ Len(requests') \in Nat /\ Len(answers') \in Nat
      /\ requests' = <<>> <=> Len(requests') = 0
      /\ answers' = <<>> <=> Len(answers') = 0
  BY <1>1
<1>3. Datagrams' \in Nat /\ (NothingOnTheWay' <=> Datagrams' = 0)
  BY <1>2 DEF Datagrams, NothingOnTheWay
<1>4. Datagrams' = 0 => OnTheWayOnly(0)'
  <2>1. Datagrams' = 0 => requests' = <<>> /\ answers' = <<>>
    BY <1>3 DEF NothingOnTheWay
  <2> QED BY <2>1 DEF OnTheWayOnly
<1> QED BY <1>3, <1>4

\* TroubleHasCause, from what it is about.
LEMMA TroubleFromCauses ==
    ASSUME WindowTypeOK', ReadIsFed', screen' = "crashed" => Overlap', swallowed' # {} => Overlap'
    PROVE  TroubleHasCause'
<1>1. screen' = "reading" /\ NothingOnTheWay' => lost' # 0
  BY NothingIsNoneAgain DEF ReadIsFed
<1>2. lost' \in Nat
  BY DEF WindowTypeOK
<1> QED BY <1>1, <1>2 DEF TroubleHasCause

\* The server, the network and the other members: the client waits.
LEMMA ProtocolWaits ==
    ASSUME WindowIInv, [WindowNext]_vars, WindowTypeOK',
           UNCHANGED <<clientVars, outcome, clean, leftEarly, swallowed>>,
           \A n \in 0 .. MaxPuts : OnTheWayOnly(n) => OnTheWayOnly(n)',
           Datagrams' <= Datagrams, lost' = 0 => lost = 0 /\ Datagrams' = Datagrams,
           ran \subseteq ran', restarts' = 0 => restarts = 0
    PROVE  Protocol'
<1> USE DEF clientVars
<1>1. WindowTypeOK /\ Protocol
  BY DEF WindowIInv, Protocol
<1>2. Datagrams \in Nat /\ Datagrams' \in Nat /\ typed \in 0 .. MaxPuts /\ 0 \in 0 .. MaxPuts
  <2>1. typed \in 0 .. MaxPuts /\ 0 \in 0 .. MaxPuts
    BY <1>1, WindowAssumption DEF WindowTypeOK
  <2> QED BY <1>1, <2>1, NothingIsNone, NothingIsNoneAgain
<1>3. Overlap' <=> Overlap
  BY DEF Overlap
<1>4. PutIsAlone'
  <2> SUFFICES ASSUME screen' = "putting", typed' \in clean'
               PROVE  OnTheWayOnly(typed)' /\ Datagrams' <= 1
    BY DEF PutIsAlone
  <2>1. OnTheWayOnly(typed) /\ Datagrams <= 1
    BY <1>1 DEF Protocol, PutIsAlone
  <2>2. PICK t \in 0 .. MaxPuts : t = typed
    BY <1>2
  <2>3. OnTheWayOnly(t)'
    BY <2>1, <2>2
  <2>4. OnTheWayOnly(typed)'
    BY <2>2, <2>3 DEF OnTheWayOnly
  <2> QED BY <1>2, <2>1, <2>4
<1>5. PutsAreCounted'
  BY <1>1 DEF Protocol, PutsAreCounted
<1>6. OnlyPolls'
  BY <1>1, <1>2, <1>3 DEF Protocol, OnlyPolls
<1>7. ReadIsFed'
  BY <1>1 DEF Protocol, ReadIsFed
<1>8. SilentMeansRan'
  BY <1>1 DEF Protocol, SilentMeansRan
<1>9. TroubleHasCause'
  BY <1>1, <1>3, <1>7, TroubleFromCauses DEF Protocol, TroubleHasCause
<1> QED BY <1>4, <1>5, <1>6, <1>7, <1>8, <1>9 DEF Protocol


LEMMA OnlyFromOnly ==
    ASSUME AllFrom(answers', answers), AllFrom(requests', requests), NEW n, OnTheWayOnly(n)
    PROVE  OnTheWayOnly(n)'
BY DEF AllFrom, OnTheWayOnly

LEMMA WithoutIsShorter ==
    ASSUME NEW S, NEW s \in Seq(S), NEW t \in Seq(S), NEW i, Without(s, i, t)
    PROVE  Len(s) \in Nat /\ Len(t) \in Nat /\ Len(s) = Len(t) + 1
BY DEF Without

LEMMA ProtocolServe ==
    ASSUME WindowIInv, Serve, WindowTypeOK'
    PROVE  Protocol'
<1> USE DEF clientVars, serverVars, networkVars, faultVars, historyVars
<1>1. WindowTypeOK /\ [WindowNext]_vars /\ requests \in Seq(Request) /\ answers \in Seq(Answer)
  BY DEF WindowIInv, WindowTypeOK, WindowNext
<1>2. /\ UNCHANGED <<clientVars, outcome, clean, leftEarly, swallowed>>
      /\ lost' = lost /\ restarts' = restarts
  BY DEF Serve
<1>3. PICK a \in Answer : Answered(a)
  BY <1>1, ServeAnswers
<1>4. /\ 1 \in DOMAIN requests /\ Without(requests, 1, requests') /\ AllFrom(requests', requests)
      /\ requests' \in Seq(Request)
  BY <1>1, ServeAnswers, AllFromFacts
<1>5. /\ DOMAIN answers' = 1 .. Len(answers) + 1 /\ Len(answers) \in Nat
      /\ DOMAIN answers = 1 .. Len(answers)
      /\ \A i \in DOMAIN answers : answers'[i] = answers[i]
      /\ answers'[Len(answers) + 1] = a
      /\ Len(answers') = Len(answers) + 1 /\ a.of = requests[1].of
      /\ ran \subseteq ran'
  BY <1>1, <1>3, WindowTypes DEF Answered
<1>6. ASSUME NEW n \in 0 .. MaxPuts, OnTheWayOnly(n) PROVE OnTheWayOnly(n)'
  <2>1. \A i \in DOMAIN requests' : requests'[i].of = n
    BY <1>4, <1>6 DEF AllFrom, OnTheWayOnly
  <2>2. \A i \in DOMAIN answers' : answers'[i].of = n
    <3>1. a.of = n
      BY <1>4, <1>5, <1>6 DEF OnTheWayOnly
    <3> QED BY <1>5, <1>6, <3>1 DEF OnTheWayOnly
  <2> QED BY <2>1, <2>2 DEF OnTheWayOnly
<1>7. Datagrams' = Datagrams /\ Datagrams \in Nat
  <2>1. Len(requests) \in Nat /\ Len(requests') \in Nat /\ Len(requests) = Len(requests') + 1
    BY <1>1, <1>4, WithoutIsShorter
  <2> QED BY <1>5, <2>1 DEF Datagrams
<1> QED BY <1>1, <1>2, <1>5, <1>6, <1>7, ProtocolWaits

LEMMA ProtocolEnvironment ==
    ASSUME WindowIInv, OtherPuts \/ Restart \/ Lose \/ Reorder \/ UNCHANGED vars, WindowTypeOK'
    PROVE  Protocol'
<1> USE DEF clientVars, serverVars, networkVars, faultVars, historyVars
<1>1. /\ WindowTypeOK /\ [WindowNext]_vars /\ requests \in Seq(Request) /\ answers \in Seq(Answer)
      /\ Len(requests) \in Nat /\ Len(answers) \in Nat
      /\ lost \in Nat /\ restarts \in Nat
  BY WindowTypes DEF WindowIInv, WindowTypeOK, WindowNext
<1>2. /\ UNCHANGED <<clientVars, outcome, clean, leftEarly, swallowed>>
      /\ ran \subseteq ran'
      /\ restarts' = 0 => restarts = 0
  BY <1>1 DEF OtherPuts, Restart, Lose, Reorder, vars
<1>3. AllFrom(answers', answers) /\ AllFrom(requests', requests)
  <2>1. CASE Lose
    <3>1. CASE UNCHANGED answers /\ \E i \in DOMAIN requests : requests' = RemoveAt(requests, i)
      BY <1>1, <3>1, RemoveIsWithout, AllFromFacts
    <3>2. CASE UNCHANGED requests /\ \E i \in DOMAIN answers : answers' = RemoveAt(answers, i)
      BY <1>1, <3>2, RemoveIsWithout, AllFromFacts
    <3> QED BY <2>1, <3>1, <3>2 DEF Lose
  <2>2. CASE Reorder
    BY <1>1, <2>2, AllFromFacts DEF Reorder
  <2>3. CASE OtherPuts \/ Restart \/ UNCHANGED vars
    <3>1. answers' = answers /\ requests' = requests
      BY <2>3 DEF OtherPuts, Restart, vars
    <3> QED BY <1>1, <3>1, AllFromFacts
  <2> QED BY <2>1, <2>2, <2>3
<1>4. \A n \in 0 .. MaxPuts : OnTheWayOnly(n) => OnTheWayOnly(n)'
  BY <1>3, OnlyFromOnly
<1>5. Datagrams' <= Datagrams /\ (lost' = 0 => lost = 0 /\ Datagrams' = Datagrams)
  <2>1. CASE OtherPuts \/ Restart \/ UNCHANGED vars
    <3>1. answers' = answers /\ requests' = requests /\ lost' = lost
      BY <2>1 DEF OtherPuts, Restart, vars
    <3> QED BY <1>1, <3>1 DEF Datagrams
  <2>2. CASE Lose
    <3>1. lost' # 0
      BY <1>1, <2>2 DEF Lose
    <3>2. CASE UNCHANGED answers /\ \E i \in DOMAIN requests : requests' = RemoveAt(requests, i)
      <4>1. Len(requests') \in Nat /\ Len(requests) = Len(requests') + 1
        BY <1>1, <3>2, RemoveIsWithout, WithoutIsShorter
      <4> QED BY <1>1, <3>1, <3>2, <4>1 DEF Datagrams
    <3>3. CASE UNCHANGED requests /\ \E i \in DOMAIN answers : answers' = RemoveAt(answers, i)
      <4>1. Len(answers') \in Nat /\ Len(answers) = Len(answers') + 1
        BY <1>1, <3>3, RemoveIsWithout, WithoutIsShorter
      <4> QED BY <1>1, <3>1, <3>3, <4>1 DEF Datagrams
    <3> QED BY <2>2, <3>2, <3>3 DEF Lose
  <2>3. CASE Reorder
    <3>1. Len(requests') = Len(requests) /\ Len(answers') = Len(answers) /\ lost' = lost
      BY <1>1, <2>3, SwappedHas DEF Reorder
    <3> QED BY <1>1, <3>1 DEF Datagrams
  <2> QED BY <2>1, <2>2, <2>3
<1> QED BY <1>1, <1>2, <1>4, <1>5, ProtocolWaits


LEMMA ProtocolPoll ==
    ASSUME WindowIInv, Poll, WindowTypeOK'
    PROVE  Protocol'
<1> USE DEF clientVars, serverVars, networkVars, faultVars, historyVars
<1>1. WindowTypeOK /\ Protocol
  BY DEF WindowIInv, Protocol
<1>2. /\ screen = "window" /\ screen' = "window" /\ answers' = answers
      /\ requests' = Append(requests, [of |-> 0, channel |-> channel])
      /\ UNCHANGED <<typed, outcome, clean, leftEarly, swallowed, ran, restarts>>
  BY DEF Poll
<1>3. Overlap' <=> Overlap
  BY <1>2 DEF Overlap
<1>4. OnTheWayOnly(0) => OnTheWayOnly(0)'
  <2>1. PICK r : r = [of |-> 0, channel |-> channel]
    OBVIOUS
  <2>2. /\ DOMAIN requests' = 1 .. Len(requests) + 1 /\ DOMAIN requests = 1 .. Len(requests)
        /\ Len(requests) \in Nat
        /\ \A i \in 1 .. Len(requests) : requests'[i] = requests[i]
        /\ requests'[Len(requests) + 1] = r /\ r.of = 0
    <3>1. requests \in Seq(Request) /\ requests' = Append(requests, r) /\ r.of = 0
      BY <1>1, <1>2, <2>1 DEF WindowTypeOK
    <3> QED BY <3>1
  <2> QED BY <1>2, <2>2 DEF OnTheWayOnly
<1>5. PutIsAlone' /\ PutsAreCounted' /\ SilentMeansRan'
  BY <1>1, <1>2 DEF Protocol, PutIsAlone, PutsAreCounted, SilentMeansRan
<1>6. OnlyPolls'
  BY <1>1, <1>2, <1>3, <1>4 DEF Protocol, OnlyPolls
<1>7. ReadIsFed'
  BY <1>2 DEF ReadIsFed
<1>8. TroubleHasCause'
  BY <1>1, <1>2, <1>3, <1>7, TroubleFromCauses DEF Protocol, TroubleHasCause
<1> QED BY <1>5, <1>6, <1>7, <1>8 DEF Protocol

LEMMA ProtocolEnterLine ==
    ASSUME WindowIInv, EnterLine, WindowTypeOK'
    PROVE  Protocol'
<1> USE DEF clientVars, serverVars, networkVars, faultVars, historyVars
<1>1. WindowTypeOK /\ Protocol /\ [WindowNext]_vars
  BY DEF WindowIInv, Protocol, WindowNext
<1>2. /\ screen \in {"window", "again"} /\ typed < MaxPuts /\ typed' = typed + 1
      /\ screen' = "putting" /\ counter' = 0 /\ answers' = answers
      /\ requests' = Append(requests, [of |-> typed + 1, channel |-> channel])
      /\ clean' = IF NothingOnTheWay THEN clean \union {typed + 1} ELSE clean
      /\ UNCHANGED <<outcome, leftEarly, swallowed, ran, restarts, lost>>
  BY DEF EnterLine, CounterAtStart
<1>3. typed \in Nat /\ typed + 1 \in Puts /\ MaxPuts \in Nat /\ Puts \subseteq Nat
  BY <1>1, <1>2, WindowTypes DEF Puts
<1>4. typed + 1 \notin clean /\ outcome[typed + 1] = "none"
  BY <1>1, <1>3 DEF Protocol, PutsAreCounted
<1>5. Overlap => Overlap'
  BY <1>1, OverlapStays DEF Protocol
<1>6. PICK r : r = [of |-> typed + 1, channel |-> channel]
  OBVIOUS
<1>7. /\ DOMAIN requests' = 1 .. Len(requests) + 1 /\ DOMAIN requests = 1 .. Len(requests)
      /\ Len(requests) \in Nat /\ Len(answers) \in Nat
      /\ Len(requests') = Len(requests) + 1
      /\ \A i \in 1 .. Len(requests) : requests'[i] = requests[i]
      /\ requests'[Len(requests) + 1] = r /\ r.of = typed + 1
      /\ answers = <<>> <=> Len(answers) = 0
  <2>1. requests \in Seq(Request) /\ answers \in Seq(Answer) /\ requests' = Append(requests, r)
    BY <1>1, <1>2, <1>6 DEF WindowTypeOK
  <2>2. r.of = typed + 1
    BY <1>6
  <2>3. answers = <<>> <=> Len(answers) = 0
    BY <2>1
  <2> QED BY <2>1, <2>2, <2>3
<1>8. PutIsAlone'
  <2> SUFFICES ASSUME typed' \in clean'
               PROVE  /\ \A i \in DOMAIN requests' : requests'[i].of = typed'
                      /\ \A i \in DOMAIN answers' : answers'[i].of = typed'
                      /\ Len(requests') + Len(answers') <= 1
    BY DEF PutIsAlone, OnTheWayOnly, Datagrams
  <2>1. NothingOnTheWay
    BY <1>2, <1>4
  <2>2. requests = <<>> /\ answers = <<>> /\ Len(requests) = 0 /\ Len(answers) = 0
    BY <2>1 DEF NothingOnTheWay
  <2> QED BY <1>2, <1>7, <2>2
<1>9. PutsAreCounted'
  <2>1. counter' < RESEND_THRESHOLD_NUM
    BY <1>2, WindowAssumption
  <2>2. ASSUME NEW n \in Puts, n > typed' PROVE n \notin clean' /\ outcome'[n] = "none"
    <3>1. n > typed /\ n # typed + 1
      BY <1>2, <1>3, <2>2
    <3> QED BY <1>1, <1>2, <3>1 DEF Protocol, PutsAreCounted
  <2> QED BY <1>2, <1>3, <1>4, <2>1, <2>2 DEF PutsAreCounted
<1>10. OnlyPolls'
  BY <1>2 DEF OnlyPolls
<1>11. ReadIsFed'
  <2> SUFFICES ASSUME lost = 0, socketSet' PROVE Datagrams' >= 2
    BY <1>2 DEF ReadIsFed
  <2>1. Datagrams >= 1
    <3>1. CASE screen = "again"
      BY <1>1, <1>2, <3>1 DEF EnterLine, Protocol, ReadIsFed
    <3>2. CASE screen = "window"
      <4>1. socketSet' \in SocketSetAfterSelect
        BY <3>2 DEF EnterLine
      <4>2. answers # <<>>
        BY <4>1 DEF SocketSetAfterSelect
      <4> QED BY <1>7, <4>2 DEF Datagrams
    <3> QED BY <1>2, <3>1, <3>2
  <2> QED BY <1>2, <1>7, <2>1 DEF Datagrams
<1>12. SilentMeansRan'
  BY <1>1, <1>2, <1>4 DEF Protocol, SilentMeansRan
<1>13. TroubleHasCause'
  BY <1>1, <1>2, <1>5, <1>11, TroubleFromCauses DEF Protocol, TroubleHasCause
<1> QED BY <1>8, <1>9, <1>10, <1>11, <1>12, <1>13 DEF Protocol

\* The window that waits for the line after an empty one has, when its socket was
\* ready, something to read afterwards.
LEMMA ProtocolEnterEmptyLine ==
    ASSUME WindowIInv, EnterEmptyLine, WindowTypeOK'
    PROVE  Protocol'
<1> USE DEF clientVars, serverVars, networkVars, faultVars, historyVars
<1>1. WindowTypeOK /\ Protocol
  BY DEF WindowIInv, Protocol
<1>2. /\ screen = "window" /\ screen' = "again"
      /\ UNCHANGED <<requests, answers, typed, outcome, clean, leftEarly, swallowed, ran, restarts, lost>>
  BY DEF EnterEmptyLine
<1>3. Overlap => Overlap'
  BY <1>2 DEF Overlap
<1>4. PutIsAlone' /\ PutsAreCounted' /\ SilentMeansRan'
  BY <1>1, <1>2 DEF Protocol, PutIsAlone, PutsAreCounted, SilentMeansRan
<1>5. OnlyPolls'
  BY <1>1, <1>2, <1>3 DEF Protocol, OnlyPolls, OnTheWayOnly
<1>6. ReadIsFed'
  <2>1. socketSet' => answers # <<>>
    BY DEF EnterEmptyLine, SocketSetAfterSelect
  <2>2. Len(answers) \in Nat /\ Len(requests) \in Nat /\ (answers # <<>> => Len(answers) >= 1)
    <3>1. answers \in Seq(Answer) /\ requests \in Seq(Request)
      BY <1>1 DEF WindowTypeOK
    <3> QED BY <3>1
  <2> QED BY <1>2, <2>1, <2>2 DEF ReadIsFed, Datagrams
<1>7. TroubleHasCause'
  BY <1>1, <1>2, <1>3, <1>6, TroubleFromCauses DEF Protocol, TroubleHasCause
<1> QED BY <1>4, <1>5, <1>6, <1>7 DEF Protocol

LEMMA ProtocolQuit ==
    ASSUME WindowIInv, Quit \/ EnterWindow, WindowTypeOK'
    PROVE  Protocol'
<1> USE DEF clientVars, serverVars, networkVars, faultVars, historyVars
<1>1. WindowTypeOK /\ Protocol /\ [WindowNext]_vars
  BY DEF WindowIInv, Protocol, WindowNext
<1>2. /\ screen \in {"window", "again", "elsewhere"} /\ screen' \in {"window", "elsewhere"}
      /\ UNCHANGED <<requests, answers, typed, outcome, clean, swallowed, ran, restarts>>
  BY DEF Quit, EnterWindow
<1>3. Overlap => Overlap'
  BY <1>1, OverlapStays DEF Protocol
<1>4. PutIsAlone' /\ PutsAreCounted' /\ SilentMeansRan'
  BY <1>1, <1>2 DEF Protocol, PutIsAlone, PutsAreCounted, SilentMeansRan
<1>5. OnlyPolls'
  BY <1>1, <1>2, <1>3 DEF Protocol, OnlyPolls, OnTheWayOnly
<1>6. ReadIsFed'
  BY <1>2 DEF ReadIsFed
<1>7. TroubleHasCause'
  BY <1>1, <1>2, <1>3, <1>6, TroubleFromCauses DEF Protocol, TroubleHasCause
<1> QED BY <1>4, <1>5, <1>6, <1>7 DEF Protocol

LEMMA ProtocolPutTimeout ==
    ASSUME WindowIInv, PutTimeout, WindowTypeOK'
    PROVE  Protocol'
<1> USE DEF clientVars, serverVars, networkVars, faultVars, historyVars
<1>1. WindowTypeOK /\ Protocol /\ [WindowNext]_vars /\ socketSet \in BOOLEAN
  <2>1. WindowTypeOK /\ Protocol
    BY DEF WindowIInv, Protocol
  <2>2. WindowNext
    BY DEF WindowNext, WindowStep
  <2>3. socketSet \in BOOLEAN
    BY <2>1 DEF WindowTypeOK
  <2> QED BY <2>1, <2>2, <2>3
<1>2. /\ screen = "putting" /\ counter' = counter + 1 /\ requests' = requests /\ answers' = answers
      /\ UNCHANGED <<typed, socketSet, clean, leftEarly, swallowed, ran, restarts, lost>>
  BY DEF PutTimeout
<1>3. typed \in Puts /\ counter < RESEND_THRESHOLD_NUM /\ Puts \subseteq Nat /\ typed \in 1 .. typed
  BY <1>1, <1>2, WindowTypes DEF Protocol, PutsAreCounted, Puts
<1>4. Datagrams' = Datagrams /\ (OnTheWayOnly(typed) => OnTheWayOnly(typed)')
  BY <1>2 DEF Datagrams, OnTheWayOnly
<1>5. Overlap => Overlap'
  BY <1>1, OverlapStays DEF Protocol
<1>6. CASE counter' # RESEND_THRESHOLD_NUM
  <2>1. screen' = "putting" /\ outcome' = outcome
    BY <1>2, <1>6 DEF PutTimeout
  <2>2. counter' < RESEND_THRESHOLD_NUM
    BY <1>1, <1>2, <1>3, <1>6, WindowAssumption DEF WindowTypeOK
  <2>3. PutIsAlone'
    BY <1>1, <1>2, <1>4, <2>1 DEF Protocol, PutIsAlone
  <2>4. PutsAreCounted' /\ SilentMeansRan'
    BY <1>1, <1>2, <2>1, <2>2 DEF Protocol, PutsAreCounted, SilentMeansRan
  <2>5. OnlyPolls' /\ ReadIsFed'
    BY <1>1, <1>2, <1>4, <2>1 DEF Protocol, OnlyPolls, ReadIsFed
  <2>6. TroubleHasCause'
    BY <1>1, <1>2, <1>5, <2>1, <2>5, TroubleFromCauses DEF Protocol, TroubleHasCause
  <2> QED BY <2>3, <2>4, <2>5, <2>6 DEF Protocol
<1>7. CASE counter' = RESEND_THRESHOLD_NUM
  <2>1. /\ screen' \in {"window", "reading"} /\ outcome'[typed] = "failed"
        /\ \A n \in Puts : n # typed => outcome'[n] = outcome[n]
        /\ screen' = "reading" => socketSet
    BY <1>1, <1>2, <1>7, PutEndsTypes DEF PutTimeout, Protocol
  <2>2. Overlap'
    BY <1>2, <1>3, <2>1 DEF Overlap
  <2>3. PutIsAlone' /\ OnlyPolls'
    BY <2>1, <2>2 DEF PutIsAlone, OnlyPolls
  <2>4. PutsAreCounted'
    BY <1>1, <1>2, <1>3, <2>1 DEF Protocol, PutsAreCounted
  <2>5. ReadIsFed'
    <3>1. lost' = 0 /\ screen' = "reading" => Datagrams >= 2
      BY <1>1, <1>2, <2>1 DEF Protocol, ReadIsFed
    <3>2. Datagrams \in Nat
      BY <1>1, NothingIsNone
    <3> QED BY <1>4, <2>1, <3>1, <3>2 DEF ReadIsFed
  <2>6. SilentMeansRan'
    <3>1. clean \subseteq Puts
      BY <1>1 DEF WindowTypeOK
    <3> QED BY <1>1, <1>2, <2>1, <3>1 DEF Protocol, SilentMeansRan
  <2>7. TroubleHasCause'
    BY <2>2, <2>5, TroubleFromCauses
  <2> QED BY <2>3, <2>4, <2>5, <2>6, <2>7 DEF Protocol
<1> QED BY <1>6, <1>7


\* A call takes the first answer for its own: nothing of it is lost unless there was an overlap.
LEMMA ProtocolPutRead ==
    ASSUME WindowIInv, PutRead, WindowTypeOK'
    PROVE  Protocol'
<1> USE DEF clientVars, serverVars, networkVars, faultVars, historyVars
<1>1. /\ WindowTypeOK /\ AnswersFit /\ Protocol /\ [WindowNext]_vars
      /\ requests \in Seq(Request) /\ answers \in Seq(Answer)
  <2>1. WindowTypeOK /\ AnswersFit /\ Protocol
    BY DEF WindowIInv, Protocol
  <2>2. WindowNext
    BY DEF WindowNext, WindowStep
  <2>3. requests \in Seq(Request) /\ answers \in Seq(Answer)
    BY <2>1 DEF WindowTypeOK
  <2> QED BY <2>1, <2>2, <2>3
<1>2. /\ screen = "putting" /\ answers # <<>> /\ answers' = Tail(answers) /\ requests' = requests
      /\ swallowed' = swallowed \union Content(Head(answers)) /\ PutEnds("silent")
      /\ UNCHANGED <<typed, socketSet, clean, leftEarly, ran, restarts, lost>>
  BY DEF PutRead
<1>3. /\ screen' \in {"window", "reading"} /\ typed \in Puts /\ outcome'[typed] = "silent"
      /\ \A n \in Puts : n # typed => outcome'[n] = outcome[n]
      /\ screen' = "reading" => socketSet
  BY <1>1, <1>2, PutEndsTypes DEF Protocol
<1>4. /\ Head(answers) = answers[1] /\ 1 \in DOMAIN answers /\ answers[1] \in Answer
      /\ Len(answers) \in Nat /\ Len(answers') \in Nat /\ Len(answers) = Len(answers') + 1
      /\ Len(requests) \in Nat
  <2>1. Without(answers, 1, answers') /\ answers' \in Seq(Answer) /\ Head(answers) = answers[1]
    BY <1>1, <1>2, TailIsWithout
  <2>2. Len(answers) \in Nat /\ Len(answers') \in Nat /\ Len(answers) = Len(answers') + 1
    BY <1>1, <2>1, WithoutIsShorter
  <2> QED BY <1>1, <2>1, <2>2 DEF Without
<1>5. Datagrams \in Nat /\ Datagrams' = Datagrams - 1 /\ Datagrams' \in Nat
  BY <1>2, <1>4 DEF Datagrams
<1>6. Overlap => Overlap'
  BY <1>1, OverlapStays DEF Protocol
<1>7. typed \in clean => Datagrams' = 0 /\ answers[1].of = typed
  BY <1>1, <1>2, <1>4, <1>5 DEF Protocol, PutIsAlone, OnTheWayOnly
<1>8. typed \notin clean => Overlap'
  <2>1. typed' \in 1 .. typed' /\ typed' = typed /\ clean' = clean
    BY <1>2, <1>3, WindowAssumption DEF Puts
  <2> QED BY <2>1 DEF Overlap
<1>9. PutIsAlone'
  BY <1>3 DEF PutIsAlone
<1>10. PutsAreCounted'
  <2>1. typed \in Nat /\ Puts \subseteq Nat
    BY <1>1, WindowTypes
  <2> QED BY <1>1, <1>2, <1>3, <2>1 DEF Protocol, PutsAreCounted
<1>11. OnlyPolls'
  BY <1>7, <1>8, NothingIsNoneAgain DEF OnlyPolls
<1>12. ReadIsFed'
  <2>1. lost' = 0 /\ screen' = "reading" => Datagrams >= 2
    BY <1>1, <1>2, <1>3 DEF Protocol, ReadIsFed
  <2> QED BY <1>3, <1>5, <2>1 DEF ReadIsFed
<1>13. SilentMeansRan'
  <2> SUFFICES ASSUME restarts' = 0, NEW n \in clean', outcome'[n] = "silent"
               PROVE  n \in ran'
    BY DEF SilentMeansRan
  <2>1. restarts = 0 /\ n \in clean /\ n \in Puts /\ ran' = ran
    BY <1>1, <1>2 DEF WindowTypeOK
  <2>2. CASE n = typed
    <3>1. answers[1].of = n /\ answers[1].ok /\ n # 0
      BY <1>1, <1>4, <1>7, <2>1, <2>2 DEF AnswersFit, Puts
    <3> QED BY <1>1, <1>4, <2>1, <3>1 DEF AnswersFit
  <2>3. CASE n # typed
    BY <1>1, <1>3, <2>1, <2>3 DEF Protocol, SilentMeansRan
  <2> QED BY <2>2, <2>3
<1>14. swallowed' # {} => Overlap'
  <2> SUFFICES ASSUME typed \in clean, swallowed = {}
               PROVE  swallowed' = {}
    BY <1>1, <1>6, <1>8 DEF Protocol, TroubleHasCause
  <2>1. answers[1].of # 0
    BY <1>3, <1>7 DEF Puts
  <2>2. Content(answers[1]) = {}
    BY <1>1, <1>4, <2>1, ContentFacts DEF AnswersFit
  <2> QED BY <1>2, <1>4, <2>2
<1>15. TroubleHasCause'
  BY <1>3, <1>12, <1>14, TroubleFromCauses
<1> QED BY <1>9, <1>10, <1>11, <1>12, <1>13, <1>15 DEF Protocol

LEMMA ProtocolReceive ==
    ASSUME WindowIInv, Receive, WindowTypeOK'
    PROVE  Protocol'
<1> USE DEF clientVars, serverVars, networkVars, faultVars, historyVars
<1>1. /\ WindowTypeOK /\ AnswersFit /\ Protocol /\ answers \in Seq(Answer)
      /\ requests \in Seq(Request)
  BY DEF WindowIInv, Protocol, WindowTypeOK
<1>2. /\ screen \in {"window", "reading"} /\ screen' \in {"window", "crashed"}
      /\ answers # <<>> /\ requests' = requests
      /\ screen' = "crashed" => Head(answers).ok /\ Head(answers).list = NoList
      /\ UNCHANGED <<typed, clean, outcome, leftEarly, swallowed, ran, restarts>>
  BY DEF Receive
<1>3. Overlap' <=> Overlap
  BY <1>2 DEF Overlap
<1>4. /\ Head(answers) = answers[1] /\ 1 \in DOMAIN answers
      /\ AllFrom(answers', answers) /\ AllFrom(requests', requests)
  <2>1. Without(answers, 1, answers') /\ 1 \in DOMAIN answers
    BY <1>1, ReceiveShows
  <2>2. Head(answers) = answers[1]
    BY <1>1, <1>2, TailIsWithout
  <2> QED BY <1>1, <1>2, <2>1, <2>2, AllFromFacts
<1>5. PutIsAlone' /\ PutsAreCounted' /\ SilentMeansRan'
  BY <1>1, <1>2 DEF Protocol, PutIsAlone, PutsAreCounted, SilentMeansRan
<1>6. OnlyPolls'
  BY <1>1, <1>2, <1>3, <1>4, OnlyFromOnly DEF Protocol, OnlyPolls
<1>7. ReadIsFed'
  BY <1>2 DEF ReadIsFed
<1>8. screen' = "crashed" => Overlap
  <2>1. screen' = "crashed" => answers[1].of # 0
    BY <1>1, <1>2, <1>4 DEF AnswersFit
  <2>2. screen' = "crashed" => ~OnTheWayOnly(0)
    BY <1>4, <2>1 DEF OnTheWayOnly
  <2> QED BY <1>1, <1>2, <2>2 DEF Protocol, OnlyPolls
<1>9. TroubleHasCause'
  BY <1>1, <1>2, <1>3, <1>7, <1>8, TroubleFromCauses DEF Protocol, TroubleHasCause
<1> QED BY <1>5, <1>6, <1>7, <1>9 DEF Protocol

LEMMA ProtocolReadElsewhere ==
    ASSUME WindowIInv, ReadElsewhere, WindowTypeOK'
    PROVE  Protocol'
<1> USE DEF clientVars, serverVars, networkVars, faultVars, historyVars
<1>1. WindowTypeOK /\ Protocol /\ WayIsOfChannel
  BY DEF WindowIInv, Protocol
<1>2. /\ screen = "elsewhere" /\ screen' = "elsewhere" /\ answers # <<>>
      /\ UNCHANGED <<typed, clean, outcome, leftEarly, ran, restarts>>
  BY DEF ReadElsewhere
<1>3. Overlap' <=> Overlap
  BY <1>2 DEF Overlap
<1>4. Overlap
  BY <1>1, <1>2 DEF WayIsOfChannel, NothingOnTheWay, Overlap
<1>5. PutIsAlone' /\ PutsAreCounted' /\ SilentMeansRan'
  BY <1>1, <1>2 DEF Protocol, PutIsAlone, PutsAreCounted, SilentMeansRan
<1>6. OnlyPolls' /\ ReadIsFed'
  BY <1>2, <1>3, <1>4 DEF OnlyPolls, ReadIsFed
<1>7. TroubleHasCause'
  BY <1>3, <1>4, <1>6, TroubleFromCauses
<1> QED BY <1>5, <1>6, <1>7 DEF Protocol

-----------------------------------------------------------------------------
(* The inductive invariant, and what follows from it.                      *)

LEMMA WindowIInvInit ==
    ASSUME InitWindow
    PROVE  WindowIInv
<1>1. /\ answers = <<>> /\ requests = <<>> /\ shown = <<>> /\ session = TRUE
      /\ screen = "window"
  BY DEF InitWindow
<1>2. AnswersFit
  BY <1>1 DEF AnswersFit
<1>3. InAnswers = {}
  BY <1>1, InPlaces
<1>4. WayIsOfChannel /\ ShownInItsChannel
  BY <1>1, <1>3 DEF WayIsOfChannel, ShownInItsChannel, Range
<1> QED BY <1>2, <1>4, TypesInit, PlacedInit, ProtocolInit DEF WindowIInv, Placed, Protocol

LEMMA WindowIInvStep ==
    ASSUME WindowIInv, [WindowNext]_vars
    PROVE  WindowIInv'
<1>1. WindowTypeOK'
  BY TypesStep
<1>2. Placed' /\ AnswersFit' /\ WayIsOfChannel' /\ ShownInItsChannel'
  BY <1>1, PlacedStep, AnswersFitStep, WayIsOfChannelStep, ShownInItsChannelStep
<1>3. Protocol'
  BY <1>1, ProtocolPoll, ProtocolEnterEmptyLine, ProtocolEnterLine, ProtocolQuit, ProtocolPutTimeout, ProtocolPutRead,
     ProtocolReceive, ProtocolReadElsewhere, ProtocolServe, ProtocolEnvironment
     DEF WindowNext, WindowStep
<1> QED BY <1>1, <1>2, <1>3 DEF WindowIInv, Placed, Protocol

\* What is true of the client, the server and the datagrams between them at any time; the
\* theorems below are parts of it (client/Message.cpp:360-613, server/Message.cpp:310-356).
THEOREM WindowInvariant == WindowSpec => []WindowIInv
BY WindowIInvInit, WindowIInvStep, PTL DEF WindowSpec

\* The variables of the window, the server and the network have their types in all runs.
THEOREM WindowTypesAlways == WindowSpec => []WindowTypeOK
<1>1. WindowIInv => WindowTypeOK
  BY DEF WindowIInv
<1> QED BY <1>1, WindowInvariant, PTL

\* Every message is at one place in all runs, however the network and the server fail: nothing
\* but a fault or a call that reads another's answer loses one, and none is shown twice
\* (client/Message.cpp:360-419, 588-613, server/Message.cpp:310-356).
THEOREM EachMessageAlwaysOnce == WindowSpec => []EachMessageOnce
<1>1. ASSUME WindowIInv PROVE EachMessageOnce
  <2>1. Partition(DOMAIN posted, InMailbox, InAnswers, Shown, dropped, swallowed)
    BY <1>1 DEF WindowIInv, EachAtOnePlace
  <2>2. \A i, j \in DOMAIN shown : shown[i].msg = shown[j].msg => i = j
    BY <1>1 DEF WindowIInv, EachAtOnePlace
  <2>3. ASSUME NEW m, NEW i \in {1, 2, 3, 4, 5}, NEW j \in {1, 2, 3, 4, 5},
               m \in <<InMailbox, InAnswers, Shown, dropped, swallowed>>[i],
               m \in <<InMailbox, InAnswers, Shown, dropped, swallowed>>[j]
        PROVE  i = j
    <3> DEFINE places == <<InMailbox, InAnswers, Shown, dropped, swallowed>>
    <3>1. /\ places[1] = InMailbox /\ places[2] = InAnswers /\ places[3] = Shown
          /\ places[4] = dropped /\ places[5] = swallowed
      OBVIOUS
    <3>2. m \in places[i] /\ m \in places[j]
      BY <2>3
    <3> HIDE DEF places
    <3> QED BY <2>1, <3>1, <3>2 DEF Partition
  <2> QED BY <2>1, <2>2, <2>3 DEF EachMessageOnce, Partition
<1> QED BY <1>1, WindowInvariant, PTL

\* In all runs in which the network keeps the order, the messages of a channel are shown in
\* the order of their PUTs (client/Message.cpp:528).
THEOREM AlwaysShownInOrder == WindowSpec => []ShownInOrder
<1>1. WindowIInv => ShownInOrder
  BY DEF WindowIInv
<1> QED BY <1>1, WindowInvariant, PTL

\* Until the window is left with a GET on the way, what it shows is of its own channel
\* (client/Message.cpp:552-557).
THEOREM AlwaysShownInItsChannel == WindowSpec => []ShownInItsChannel
<1>1. WindowIInv => ShownInItsChannel
  BY DEF WindowIInv
<1> QED BY <1>1, WindowInvariant, PTL

\* Without a restart, a line that was entered when nothing was on the way and not reported as
\* failed has been executed (client/Message.cpp:588-594).
THEOREM SilentAlwaysMeansRan == WindowSpec => []SilentMeansRan
<1>1. WindowIInv => SilentMeansRan
  BY DEF WindowIInv
<1> QED BY <1>1, WindowInvariant, PTL

\* A crash of the window and a swallowed message need a line that overlapped with something
\* on the way, and a read that hangs needs a lost datagram (client/Message.cpp:588-601).
THEOREM TroubleAlwaysHasCause == WindowSpec => []TroubleHasCause
<1>1. WindowIInv => TroubleHasCause
  BY DEF WindowIInv
<1> QED BY <1>1, WindowInvariant, PTL
=============================================================================
