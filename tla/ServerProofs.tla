----------------------------- MODULE ServerProofs -----------------------------
(***************************************************************************)
(* Proofs about the server process.  First Lifecycle, its steps from start *)
(* to end, for any set of signals, any nesting of their handlers, and any  *)
(* numbers of requests, runs and kills; then Social, the two services that *)
(* have files on the sessions they share, for any users, posts and texts;  *)
(* and Router, for any paths and any number of routers.                    *)
(***************************************************************************)
EXTENDS Lifecycle, Social, Router, SequenceTheorems, WellFoundedInduction, TLAPS

-----------------------------------------------------------------------------
(* Lifecycle.                                                              *)

\* What FinalizeCallbacks holds where main is.
ListAt(at) ==
    CASE at = "open" -> <<>>
      [] at \in {"loadAccount", "addAccount"} -> <<"close">>
      [] at \in {"loadPost", "addPost"} -> <<"account", "close">>
      [] at = "routes" -> <<"post", "account", "close">>
      [] OTHER -> <<"post", "account", "close", "stop">>

ListIsBuilt == pc # "killed" => finalizers = ListAt(pc)

\* Some handler is between the truncation of the file and its write.
OpenAt(s) ==
    \E i \in DOMAIN frames :
        frames[i].open /\ frames[i].at <= Len(finalizers) /\ finalizers[frames[i].at] = s

\* What has come of a callback that a handler has left behind it: another handler, that
\* interrupted this one, may have begun it again.
Done(callback) ==
    /\ callback = "close" => socketClosed
    /\ callback \in Services => files[callback] = memory[callback] \/ OpenAt(callback)

FramesFinalize ==
    Alive => \A i \in DOMAIN frames :
        /\ frames[i].at <= Len(finalizers) + 1
        /\ frames[i].open => frames[i].at <= Len(finalizers) /\ finalizers[frames[i].at] \in Services
        /\ \A k \in 1 .. frames[i].at - 1 : Done(finalizers[k])

\* The tree of the service has been read from its file.
Loaded(s) ==
    pc \notin {"open", "loadAccount", "killed"}
      \cup (IF s = "post" THEN {"addAccount", "loadPost"} ELSE {})

WritesArePast ==
    /\ \A s \in Services :
          /\ \A w \in memory[s] : w[1] <= request.id
          /\ files[s] # Torn => \A w \in files[s] : w[1] <= request.id
    /\ \A r \in answered : r <= request.id

ServingIsUnanswered ==
    /\ pc \in Serving => request.id \in Requests /\ request.id \notin answered
    /\ pc = "second" => <<request.id, 1>> \in memory[request.service]
    /\ pc = "send" => Whole(request.id, memory[request.service])

\* Every answer is kept: in the tree, or, before the tree is read, in the file.
KeptIn(r, s) ==
    IF Loaded(s) THEN Whole(r, memory[s]) ELSE files[s] # Torn /\ Whole(r, files[s])

AnsweredIsKept == \A r \in answered : \E s \in Services : KeptIn(r, s)

\* All that a file lacks of its tree is the request in the making, which gets no answer.
Saved(s) ==
    /\ files[s] # Torn /\ files[s] \subseteq memory[s]
    /\ \A w \in memory[s] \ files[s] : w[1] = request.id /\ w[1] \notin answered

TerminatedIsSaved ==
    terminated /\ pc # "killed" =>
        pc \notin Startup /\ socketClosed /\ \A s \in Services : Saved(s) \/ OpenAt(s)

EndIsQuiet ==
    /\ pc = "exited" => terminated /\ frames = <<>>
    /\ pc = "killed" => cut \/ frames = <<>>

\* A file is torn only while a handler writes it, as long as no handler is killed.
TornIsOpen == ~cut => \A s \in Services : files[s] = Torn => OpenAt(s)

\* The accounts that the writes of posts rest on are among those of another tree or file.
Rest(posts, accounts) == \A w \in posts : \A a \in needs[w[1]] : Whole(a, accounts)

FilesRest ==
    ~cut /\ (frames = <<>> \/ pc \in {"open", "loadAccount", "addAccount"}) =>
        Rest(files["post"], files["account"])

FileRestsOnTree ==
    ~cut /\ Alive /\ Loaded("account") /\ files["post"] # Torn =>
        Rest(files["post"], memory["account"])

TreesRest ==
    /\ ~cut /\ Alive /\ Loaded("post") => Rest(memory["post"], memory["account"])
    /\ pc \in {"first", "second"} /\ request.service = "post" =>
          \A a \in needs[request.id] : Whole(a, memory["account"])

LifecycleIInv ==
    /\ LifecycleTypeOK
    /\ ListIsBuilt
    /\ FramesFinalize
    /\ WritesArePast
    /\ ServingIsUnanswered
    /\ AnsweredIsKept
    /\ TerminatedIsSaved
    /\ EndIsQuiet
    /\ TornIsOpen
    /\ FilesRest
    /\ FileRestsOnTree
    /\ TreesRest

-----------------------------------------------------------------------------
(* The list and the stack.                                                 *)

Callbacks == {"close", "account", "post", "stop"}

LEMMA ListFacts ==
    ASSUME NEW at
    PROVE  /\ ListAt(at) \in Seq(Callbacks) /\ Len(ListAt(at)) \in 0 .. 4
           /\ \A k \in 1 .. Len(ListAt(at)) :
                 /\ ListAt(at)[k] \in Callbacks
                 /\ ListAt(at)[k] = "stop" =>
                       at \notin Startup /\ ListAt(at) = <<"post", "account", "close", "stop">> /\ k = 4
                 /\ ListAt(at)[k] = "account" => at \notin {"open", "loadAccount", "addAccount"}
                 /\ ListAt(at)[k] = "post" =>
                       at \notin {"open", "loadAccount", "addAccount", "loadPost", "addPost"}
           /\ at \in Loop \cup {"exited"} => ListAt(at) = <<"post", "account", "close", "stop">>
<1>1. CASE at = "open"
  BY <1>1 DEF ListAt, Callbacks, Loop, Serving
<1>2. CASE at \in {"loadAccount", "addAccount"}
  BY <1>2 DEF ListAt, Callbacks, Loop, Serving
<1>3. CASE at \in {"loadPost", "addPost"}
  <2>1. ListAt(at) = <<"account", "close">>
    BY <1>3 DEF ListAt
  <2> QED BY <1>3, <2>1 DEF Callbacks, Loop, Serving
<1>4. CASE at = "routes"
  <2>1. ListAt(at) = <<"post", "account", "close">>
    BY <1>4 DEF ListAt
  <2>2. ListAt(at) \in Seq(Callbacks) /\ Len(ListAt(at)) = 3
    BY <2>1 DEF Callbacks
  <2>3. ListAt(at)[1] = "post" /\ ListAt(at)[2] = "account" /\ ListAt(at)[3] = "close"
    BY <2>1
  <2>4. at \notin Loop \cup {"exited"} /\ "post" \in Callbacks /\ "account" \in Callbacks
        /\ "close" \in Callbacks
    BY <1>4 DEF Loop, Serving, Callbacks
  <2>5. \A k \in 1 .. 3 : k = 1 \/ k = 2 \/ k = 3
    OBVIOUS
  <2> QED BY <1>4, <2>2, <2>3, <2>4, <2>5
<1>5. CASE at \notin Startup
  <2>1. ListAt(at) = <<"post", "account", "close", "stop">>
    BY <1>5 DEF ListAt, Startup
  <2> QED BY <1>5, <2>1 DEF Callbacks, Startup
<1> QED BY <1>1, <1>2, <1>3, <1>4, <1>5 DEF Startup

LEMMA SameList ==
    ASSUME NEW l \in Seq(Callbacks), NEW k \in Seq(Callbacks), Len(l) = Len(k), Len(l) \in 0 .. 4,
           Len(l) >= 1 => l[1] = k[1], Len(l) >= 2 => l[2] = k[2],
           Len(l) >= 3 => l[3] = k[3], Len(l) >= 4 => l[4] = k[4]
    PROVE  l = k
<1>1. \A i \in 1 .. Len(l) : l[i] = k[i]
  BY SMTT(30)
<1> QED BY <1>1, SeqEqual

\* The lists of two places that are one callback apart.
LEMMA ListsGrow ==
    /\ <<"close">> \o <<>> = <<"close">>
    /\ <<"account">> \o <<"close">> = <<"account", "close">>
    /\ <<"post">> \o <<"account", "close">> = <<"post", "account", "close">>
    /\ Append(<<"post", "account", "close">>, "stop") = <<"post", "account", "close", "stop">>
<1>1. <<"close">> \o <<>> = <<"close">>
  OBVIOUS
<1>2. <<"account">> \o <<"close">> = <<"account", "close">>
  <2> DEFINE l == <<"account">> \o <<"close">>
             k == <<"account", "close">>
  <2>1. /\ l \in Seq(Callbacks) /\ Len(l) = 2
        /\ l[1] = "account" /\ l[2] = "close"
    BY DEF Callbacks
  <2>2. /\ k \in Seq(Callbacks) /\ Len(k) = 2
        /\ k[1] = "account" /\ k[2] = "close"
    BY DEF Callbacks
  <2> HIDE DEF l, k
  <2>3. l = k
    BY <2>1, <2>2, SameList
  <2> QED BY <2>3 DEF l, k
<1>3. <<"post">> \o <<"account", "close">> = <<"post", "account", "close">>
  <2> DEFINE l == <<"post">> \o <<"account", "close">>
             k == <<"post", "account", "close">>
  <2>1. /\ l \in Seq(Callbacks) /\ Len(l) = 3
        /\ l[1] = "post" /\ l[2] = "account" /\ l[3] = "close"
    BY DEF Callbacks
  <2>2. /\ k \in Seq(Callbacks) /\ Len(k) = 3
        /\ k[1] = "post" /\ k[2] = "account" /\ k[3] = "close"
    BY DEF Callbacks
  <2> HIDE DEF l, k
  <2>3. l = k
    BY <2>1, <2>2, SameList
  <2> QED BY <2>3 DEF l, k
<1>4. Append(<<"post", "account", "close">>, "stop") = <<"post", "account", "close", "stop">>
  <2> DEFINE l == Append(<<"post", "account", "close">>, "stop")
             k == <<"post", "account", "close", "stop">>
  <2>1. /\ l \in Seq(Callbacks) /\ Len(l) = 4
        /\ l[1] = "post" /\ l[2] = "account" /\ l[3] = "close" /\ l[4] = "stop"
    BY DEF Callbacks
  <2>2. /\ k \in Seq(Callbacks) /\ Len(k) = 4
        /\ k[1] = "post" /\ k[2] = "account" /\ k[3] = "close" /\ k[4] = "stop"
    BY DEF Callbacks
  <2> HIDE DEF l, k
  <2>3. l = k
    BY <2>1, <2>2, SameList
  <2> QED BY <2>3 DEF l, k
<1> QED BY <1>1, <1>2, <1>3, <1>4

\* The stack after its innermost frame has changed, and after it has gone.
LEMMA TopChanges ==
    ASSUME frames \in Seq(Frame), frames # <<>>, NEW f \in Frame, SetTop(f)
    PROVE  /\ frames' \in Seq(Frame) /\ DOMAIN frames' = DOMAIN frames /\ frames' # <<>>
           /\ Len(frames) \in DOMAIN frames /\ Top = frames[Len(frames)] /\ Top \in Frame
           /\ frames'[Len(frames)] = f
           /\ \A i \in DOMAIN frames : i # Len(frames) => frames'[i] = frames[i]
BY DEF SetTop, Top, Last

LEMMA TopGoes ==
    ASSUME frames \in Seq(Frame), frames # <<>>, frames' = Front(frames)
    PROVE  /\ frames' \in Seq(Frame) /\ DOMAIN frames' = 1 .. Len(frames) - 1
           /\ Len(frames) \in DOMAIN frames /\ Top = frames[Len(frames)] /\ Top \in Frame
           /\ DOMAIN frames = 1 .. Len(frames)
           /\ \A i \in DOMAIN frames' : i \in DOMAIN frames /\ frames'[i] = frames[i]
           /\ frames' = <<>> => Len(frames) = 1
<1>1. Len(frames) \in Nat \ {0} /\ DOMAIN frames = 1 .. Len(frames)
      /\ Top = frames[Len(frames)] /\ \A i \in DOMAIN frames : frames[i] \in Frame
  BY DEF Top, Last
<1>2. frames' = SubSeq(frames, 1, Len(frames) - 1)
  BY DEF Front
<1>3. /\ frames' \in Seq(Frame) /\ Len(frames') = Len(frames) - 1
      /\ \A i \in 1 .. Len(frames) - 1 : frames'[i] = frames[i]
  <2>1. \A i \in 1 .. Len(frames) - 1 : frames[i] \in Frame
    BY <1>1
  <2> QED BY <1>1, <1>2, <2>1, SubSeqProperties
<1> QED BY <1>1, <1>3

-----------------------------------------------------------------------------
(* The type invariant in parts, and what the actions leave alone.          *)

FlagsOK == {inSet, watched, socketClosed, terminated, told, cut} \subseteq BOOLEAN
StackOK ==
    /\ frames \in Seq(Frame)
    /\ \A i, j \in DOMAIN frames : frames[i].signal = frames[j].signal => i = j
DataOK ==
    /\ memory \in [Services -> SUBSET Writes]
    /\ files \in [Services -> (SUBSET Writes) \union {Torn}]
    /\ request \in [id : 0 .. MaxRequests, service : Services]
    /\ answered \subseteq Requests
    /\ needs \in [Requests -> SUBSET Requests]
CountsOK == runs \in 1 .. MaxRuns /\ kills \in 0 .. MaxKills /\ signals \in 0 .. MaxSignals

LEMMA TypeParts ==
    LifecycleTypeOK <=>
        /\ pc \in Startup \union Loop \union Ended /\ finalizers \in Seq(Callbacks)
        /\ FlagsOK /\ StackOK /\ DataOK /\ CountsOK
BY DEF LifecycleTypeOK, FlagsOK, StackOK, DataOK, CountsOK, Callbacks

LEMMA TypesAgain ==
    ASSUME pc' \in Startup \union Loop \union Ended, (finalizers \in Seq(Callbacks))',
           FlagsOK', StackOK', DataOK', CountsOK'
    PROVE  LifecycleTypeOK'
BY DEF LifecycleTypeOK, FlagsOK, StackOK, DataOK, CountsOK, Callbacks

LEMMA Kinds ==
    /\ Startup \cap Loop = {} /\ Startup \cap Ended = {} /\ Loop \cap Ended = {}
    /\ Serving \subseteq Loop /\ {"first", "second", "send"} = Serving
    /\ Ended = {"exited", "killed"}
    /\ Services = {"account", "post"}
BY DEF Startup, Loop, Ended, Serving, Services

LEMMA WriteFacts ==
    ASSUME DataOK
    PROVE  /\ MaxRequests \in Nat /\ request.id \in 0 .. MaxRequests /\ request.service \in Services
           /\ \A s \in Services : memory[s] \subseteq Writes /\ memory[s] # Torn
           /\ \A s \in Services : files[s] # Torn => files[s] \subseteq Writes
           /\ \A w \in Writes : w[1] \in Requests /\ w[1] \in Nat
           /\ \A r \in Requests : <<r, 1>> \in Writes /\ <<r, 2>> \in Writes /\ r \in Nat
                /\ <<r, 1>>[1] = r /\ <<r, 2>>[1] = r
BY LifecycleAssumption DEF DataOK, Writes, Requests

LEMMA RestGrows ==
    ASSUME NEW posts, NEW accounts, NEW more, accounts \subseteq more, Rest(posts, accounts)
    PROVE  Rest(posts, more)
BY DEF Rest, Whole

LEMMA LifecycleInitIInv == InitLifecycle => LifecycleIInv
<1> SUFFICES ASSUME InitLifecycle PROVE LifecycleIInv
  OBVIOUS
<1>1. frames = <<>> /\ DOMAIN frames = {} /\ finalizers = <<>> /\ pc = "open" /\ frames \in Seq(Frame)
  BY DEF InitLifecycle
<1>2. LifecycleTypeOK
  <2>1. FlagsOK
    BY DEF InitLifecycle, FlagsOK
  <2>2. DataOK
    BY LifecycleAssumption DEF InitLifecycle, DataOK, Services
  <2>3. CountsOK
    BY LifecycleAssumption DEF InitLifecycle, CountsOK
  <2> QED BY <1>1, <2>1, <2>2, <2>3, TypeParts DEF StackOK, Startup
<1>3. ListIsBuilt /\ FramesFinalize
  BY <1>1 DEF ListIsBuilt, ListAt, FramesFinalize
<1>4. WritesArePast /\ AnsweredIsKept
  BY DEF InitLifecycle, WritesArePast, AnsweredIsKept
<1>5. ServingIsUnanswered /\ TerminatedIsSaved /\ EndIsQuiet
  BY DEF InitLifecycle, ServingIsUnanswered, TerminatedIsSaved, EndIsQuiet, Serving
<1>6. TornIsOpen
  BY LifecycleAssumption DEF InitLifecycle, TornIsOpen
<1>7. FilesRest /\ FileRestsOnTree /\ TreesRest
  BY DEF InitLifecycle, FilesRest, FileRestsOnTree, TreesRest, Rest, Services
<1> QED BY <1>2, <1>3, <1>4, <1>5, <1>6, <1>7 DEF LifecycleIInv

-----------------------------------------------------------------------------
(* The steps of main, between two signals.                                 *)

\* main goes on and touches neither tree nor request.
LEMMA MainMoves ==
    ASSUME LifecycleIInv, frames = <<>>, Alive, pc' \in (Startup \cup Loop) \ Serving,
           finalizers' = ListAt(pc'), \A s \in Services : Loaded(s)' <=> Loaded(s),
           pc' \in Startup => pc \in Startup,
           inSet' \in BOOLEAN, watched' \in BOOLEAN,
           UNCHANGED <<memory, request, answered, needs, signalVars, historyVars>>
    PROVE  LifecycleIInv'
<1>1. /\ UNCHANGED <<memory, request, answered, needs, frames, socketClosed, terminated, files,
                     runs, kills, signals, told, cut>>
      /\ frames' = <<>> /\ DOMAIN frames' = {} /\ DOMAIN frames = {}
  BY DEF signalVars, historyVars
<1>2. pc' \notin Ended /\ pc' # "exited" /\ pc' # "killed" /\ pc # "killed"
  BY Kinds DEF Alive
<1>3. LifecycleTypeOK'
  <2>1. FlagsOK'
    BY <1>1, TypeParts DEF LifecycleIInv, FlagsOK
  <2>2. StackOK' /\ DataOK' /\ CountsOK'
    BY <1>1, TypeParts DEF LifecycleIInv, StackOK, DataOK, CountsOK
  <2>3. pc' \in Startup \union Loop \union Ended /\ (finalizers \in Seq(Callbacks))'
    BY ListFacts
  <2> QED BY <2>1, <2>2, <2>3, TypesAgain
<1>4. ListIsBuilt' /\ FramesFinalize' /\ WritesArePast' /\ EndIsQuiet'
  BY <1>1, <1>2 DEF LifecycleIInv, ListIsBuilt, FramesFinalize, WritesArePast, EndIsQuiet
<1>5. ServingIsUnanswered' /\ TreesRest'
  BY <1>1, Kinds DEF LifecycleIInv, ServingIsUnanswered, TreesRest, Rest, Alive
<1>6. AnsweredIsKept'
  BY <1>1 DEF LifecycleIInv, AnsweredIsKept, KeptIn
<1>7. TerminatedIsSaved'
  BY <1>1, <1>2 DEF LifecycleIInv, TerminatedIsSaved, Saved, OpenAt
<1>8. TornIsOpen'
  BY <1>1 DEF LifecycleIInv, TornIsOpen, OpenAt
<1>9. FilesRest' /\ FileRestsOnTree'
  BY <1>1, Kinds DEF LifecycleIInv, FilesRest, FileRestsOnTree, Rest, Alive
<1> QED BY <1>3, <1>4, <1>5, <1>6, <1>7, <1>8, <1>9 DEF LifecycleIInv

LEMMA MainFacts ==
    ASSUME LifecycleIInv, frames = <<>>
    PROVE  /\ inSet \in BOOLEAN /\ watched \in BOOLEAN
           /\ pc # "killed" => finalizers = ListAt(pc)
           /\ \A s \in Services : ~OpenAt(s)
           /\ DOMAIN frames = {}
BY TypeParts DEF LifecycleIInv, FlagsOK, ListIsBuilt, OpenAt

LEMMA AddKeeps ==
    ASSUME LifecycleIInv, frames = <<>>,
           \/ Add("open", "loadAccount", "close")
           \/ Add("addAccount", "loadPost", "account")
           \/ Add("addPost", "routes", "post")
    PROVE  LifecycleIInv'
<1>1. /\ UNCHANGED <<inSet, watched, memory, request, answered, needs, signalVars, historyVars>>
      /\ pc \in Startup /\ pc' \in Startup
  BY DEF Add, Goto, Startup
<1>2. finalizers' = ListAt(pc')
  <2>1. finalizers = ListAt(pc)
    BY <1>1, MainFacts, Kinds
  <2>2. /\ ListAt("open") = <<>> /\ ListAt("loadAccount") = <<"close">>
        /\ ListAt("addAccount") = <<"close">> /\ ListAt("loadPost") = <<"account", "close">>
        /\ ListAt("addPost") = <<"account", "close">>
        /\ ListAt("routes") = <<"post", "account", "close">>
    BY DEF ListAt
  <2> QED BY <2>1, <2>2, ListsGrow DEF Add, Goto, AddFinalizeCallback
<1>3. \A s \in Services : Loaded(s)' <=> Loaded(s)
  BY DEF Add, Goto, Loaded, Services
<1> QED BY <1>1, <1>2, <1>3, MainMoves, MainFacts, Kinds DEF Alive

LEMMA ReadyKeeps == ASSUME LifecycleIInv, frames = <<>>, Ready PROVE LifecycleIInv'
<1>1. /\ UNCHANGED <<inSet, watched, memory, request, answered, needs, signalVars, historyVars>>
      /\ pc = "routes" /\ pc' = "check"
  BY DEF Ready, Goto
<1>2. finalizers' = ListAt(pc')
  <2>1. finalizers = <<"post", "account", "close">>
    BY <1>1, MainFacts DEF ListAt
  <2>2. ListAt("check") = <<"post", "account", "close", "stop">>
    BY DEF ListAt
  <2> QED BY <1>1, <2>1, <2>2, ListsGrow DEF Ready, PushBackFinalizeCallback
<1>3. \A s \in Services : Loaded(s)' <=> Loaded(s)
  BY <1>1 DEF Loaded
<1>4. Alive /\ pc' \in Loop \ Serving
  BY <1>1 DEF Alive, Ended, Loop, Serving
<1> QED BY <1>1, <1>2, <1>3, <1>4, MainMoves, MainFacts, Kinds

\* A step of the loop that only moves.
LEMMA LoopMoves ==
    ASSUME LifecycleIInv, frames = <<>>, pc \in Loop, pc' \in Loop \ Serving,
           inSet' \in BOOLEAN, watched' \in BOOLEAN,
           UNCHANGED <<finalizers, memory, request, answered, needs, signalVars, historyVars>>
    PROVE  LifecycleIInv'
<1>1. finalizers' = ListAt(pc')
  BY MainFacts, ListFacts, Kinds
<1>2. \A s \in Services : Loaded(s)' <=> Loaded(s)
  BY DEF Loaded, Loop, Serving
<1> QED BY <1>1, <1>2, MainMoves, Kinds DEF Alive

LEMMA CheckKeeps == ASSUME LifecycleIInv, frames = <<>>, Check PROVE LifecycleIInv'
<1>1. /\ UNCHANGED <<finalizers, inSet, watched, memory, request, answered, needs, signalVars, historyVars>>
      /\ pc = "check" /\ pc' = IF terminated THEN "exited" ELSE "set"
  BY DEF Check
<1>2. CASE ~terminated
  BY <1>1, <1>2, LoopMoves, MainFacts DEF Loop, Serving
<1>3. CASE terminated
  <2>1. /\ UNCHANGED <<memory, request, answered, needs, frames, socketClosed, terminated, files,
                       runs, kills, signals, told, cut, finalizers, inSet, watched>>
        /\ frames' = <<>> /\ DOMAIN frames' = {} /\ DOMAIN frames = {} /\ pc' = "exited"
    BY <1>1, <1>3 DEF signalVars, historyVars
  <2>2. LifecycleTypeOK'
    <3>1. FlagsOK' /\ StackOK' /\ DataOK' /\ CountsOK'
      BY <2>1, TypeParts DEF LifecycleIInv, FlagsOK, StackOK, DataOK, CountsOK
    <3> QED BY <2>1, <3>1, TypeParts, TypesAgain, Kinds DEF LifecycleIInv
  <2>3. ListIsBuilt' /\ FramesFinalize' /\ WritesArePast' /\ EndIsQuiet'
    BY <1>1, <1>3, <2>1, Kinds
       DEF LifecycleIInv, ListIsBuilt, ListAt, FramesFinalize, WritesArePast, EndIsQuiet
  <2>4. ServingIsUnanswered' /\ TreesRest' /\ FileRestsOnTree'
    BY <2>1, Kinds DEF ServingIsUnanswered, TreesRest, FileRestsOnTree, Alive
  <2>5. AnsweredIsKept'
    BY <1>1, <2>1 DEF LifecycleIInv, AnsweredIsKept, KeptIn, Loaded
  <2>6. TerminatedIsSaved' /\ TornIsOpen'
    BY <1>1, <2>1, Kinds DEF LifecycleIInv, TerminatedIsSaved, TornIsOpen, Saved, OpenAt
  <2>7. FilesRest'
    BY <2>1 DEF LifecycleIInv, FilesRest, Rest
  <2> QED BY <2>2, <2>3, <2>4, <2>5, <2>6, <2>7 DEF LifecycleIInv
<1> QED BY <1>2, <1>3

LEMMA WaitingKeeps ==
    ASSUME LifecycleIInv, frames = <<>>, FdSet \/ Select \/ IsSet \/ RecvNothing \/ Datagram
    PROVE  LifecycleIInv'
<1>1. /\ pc \in Loop /\ pc' \in Loop \ Serving
      /\ UNCHANGED <<finalizers, memory, request, answered, needs, signalVars, historyVars>>
  BY DEF FdSet, Select, IsSet, RecvNothing, Datagram, Goto, Loop, Serving
<1>2. inSet' \in BOOLEAN /\ watched' \in BOOLEAN
  <2>1. inSet \in BOOLEAN /\ watched \in BOOLEAN
    BY MainFacts
  <2> QED BY <2>1 DEF FdSet, Select, IsSet, RecvNothing, Datagram
<1> QED BY <1>1, <1>2, LoopMoves

LEMMA LoadKeeps ==
    ASSUME LifecycleIInv, frames = <<>>,
           NEW s \in Services, NEW from, NEW to, Load(from, to, s),
           \/ s = "account" /\ from = "loadAccount" /\ to = "addAccount"
           \/ s = "post" /\ from = "loadPost" /\ to = "addPost"
    PROVE  LifecycleIInv'
<1> DEFINE read == IF files[s] = Torn THEN {} ELSE files[s]
<1>1. /\ pc = from /\ pc' = to /\ memory' = [memory EXCEPT ![s] = read]
      /\ UNCHANGED <<finalizers, inSet, watched, request, answered, needs, frames, socketClosed,
                     terminated, files, runs, kills, signals, told, cut>>
      /\ frames' = <<>> /\ DOMAIN frames' = {}
  BY DEF Load, Goto, signalVars, historyVars
<1>2. pc' \in Startup /\ pc \in Startup /\ pc' \notin Ended /\ pc' \notin Serving /\ pc # "killed"
  BY <1>1 DEF Startup, Ended, Serving
<1>3. DataOK
  BY TypeParts DEF LifecycleIInv
<1>4. read \in SUBSET Writes
  BY <1>3, WriteFacts
<1> HIDE DEF read
<1>5. /\ memory' \in [Services -> SUBSET Writes] /\ memory'[s] = read
      /\ \A t \in Services : t # s => memory'[t] = memory[t]
  BY <1>1, <1>3, <1>4 DEF DataOK
<1>6. LifecycleTypeOK'
  <2>1. FlagsOK' /\ StackOK' /\ CountsOK'
    BY <1>1, TypeParts DEF LifecycleIInv, FlagsOK, StackOK, CountsOK
  <2>2. DataOK'
    BY <1>1, <1>3, <1>5 DEF DataOK
  <2>3. (finalizers \in Seq(Callbacks))'
    BY <1>1, TypeParts DEF LifecycleIInv
  <2> QED BY <1>2, <2>1, <2>2, <2>3, TypesAgain
<1>7. ListIsBuilt' /\ FramesFinalize' /\ EndIsQuiet'
  BY <1>1, <1>2 DEF LifecycleIInv, ListIsBuilt, ListAt, FramesFinalize, EndIsQuiet, Ended
<1>8. WritesArePast'
  BY <1>1, <1>5 DEF LifecycleIInv, WritesArePast, read
<1>9. ServingIsUnanswered'
  BY <1>2 DEF ServingIsUnanswered, Serving
<1>10. AnsweredIsKept'
  <2> SUFFICES ASSUME NEW r \in answered' PROVE \E t \in Services : KeptIn(r, t)'
    BY DEF AnsweredIsKept
  <2>1. PICK t \in Services : KeptIn(r, t)
    BY <1>1 DEF LifecycleIInv, AnsweredIsKept
  <2>2. CASE t = s
    <3>1. ~Loaded(s) /\ Loaded(s)'
      BY <1>1 DEF Loaded
    <3>2. memory'[s] = files[s] /\ Whole(r, files[s])
      BY <1>5, <2>1, <2>2, <3>1 DEF KeptIn, read
    <3> QED BY <3>1, <3>2 DEF KeptIn
  <2>3. CASE t # s
    <3>1. (Loaded(t)' <=> Loaded(t)) /\ memory'[t] = memory[t] /\ files'[t] = files[t]
      BY <1>1, <1>5, <2>3 DEF Loaded, Services
    <3> QED BY <2>1, <3>1 DEF KeptIn
  <2> QED BY <2>2, <2>3
<1>11. TerminatedIsSaved'
  BY <1>1, <1>2 DEF LifecycleIInv, TerminatedIsSaved
<1>12. TornIsOpen' /\ FilesRest'
  BY <1>1 DEF LifecycleIInv, TornIsOpen, OpenAt, FilesRest, Rest
<1>13. FileRestsOnTree' /\ TreesRest'
  <2> SUFFICES ASSUME ~cut
               PROVE  /\ files["post"] # Torn => Rest(files["post"], memory["account"])'
                      /\ Loaded("post")' => Rest(memory["post"], memory["account"])'
    BY <1>1, <1>2 DEF FileRestsOnTree, TreesRest, Serving
  <2>1. \A t \in Services : files[t] # Torn
    BY MainFacts DEF LifecycleIInv, TornIsOpen
  <2>2. CASE s = "account"
    <3>1. memory'["account"] = files["account"] /\ ~Loaded("post")'
      BY <1>1, <1>5, <2>1, <2>2 DEF read, Loaded
    <3>2. Rest(files["post"], files["account"])
      BY DEF LifecycleIInv, FilesRest
    <3> QED BY <1>1, <3>1, <3>2 DEF Rest
  <2>3. CASE s = "post"
    <3>1. /\ memory'["account"] = memory["account"] /\ memory'["post"] = files["post"]
          /\ Loaded("account") /\ Alive
      BY <1>1, <1>5, <2>1, <2>3 DEF read, Loaded, Services, Alive, Ended
    <3>2. Rest(files["post"], memory["account"])
      BY <2>1, <3>1, Kinds DEF LifecycleIInv, FileRestsOnTree
    <3> QED BY <1>1, <3>1, <3>2 DEF Rest
  <2> QED BY <2>2, <2>3, Kinds
<1> QED BY <1>6, <1>7, <1>8, <1>9, <1>10, <1>11, <1>12, <1>13 DEF LifecycleIInv

\* A request comes: its number is new to the trees, the files and the answers.
LEMMA RecvKeeps == ASSUME LifecycleIInv, frames = <<>>, Recv PROVE LifecycleIInv'
<1>1. /\ pc = "recv" /\ pc' = "first" /\ ~socketClosed /\ request.id < MaxRequests
      /\ UNCHANGED <<finalizers, inSet, watched, memory, answered, frames, socketClosed,
                     terminated, files, runs, kills, signals, told, cut>>
      /\ frames' = <<>> /\ DOMAIN frames' = {}
  BY DEF Recv, Goto, signalVars, historyVars
<1>2. PICK s \in Services :
        /\ request' = [id |-> request.id + 1, service |-> s]
        /\ needs' = IF s = "account" THEN needs ELSE
            [needs EXCEPT ![request'.id] = {r \in Requests : Whole(r, memory["account"])}]
  BY DEF Recv
<1>3. DataOK /\ WritesArePast
  BY TypeParts DEF LifecycleIInv
<1>4. /\ request'.id = request.id + 1 /\ request'.service = s
      /\ request'.id \in Requests /\ request.id \in Nat
  BY <1>1, <1>2, <1>3, WriteFacts DEF Requests
<1>5. /\ needs' \in [Requests -> SUBSET Requests]
      /\ \A r \in Requests : r <= request.id => needs'[r] = needs[r]
  BY <1>2, <1>3, <1>4, WriteFacts DEF DataOK
<1>6. LifecycleTypeOK'
  <2>1. FlagsOK' /\ StackOK' /\ CountsOK'
    BY <1>1, TypeParts DEF LifecycleIInv, FlagsOK, StackOK, CountsOK
  <2>2. request' \in [id : 0 .. MaxRequests, service : Services]
    BY <1>1, <1>2, <1>3, WriteFacts
  <2>3. DataOK'
    BY <1>1, <1>3, <1>5, <2>2 DEF DataOK
  <2>4. (finalizers \in Seq(Callbacks))' /\ pc' \in Startup \union Loop \union Ended
    BY <1>1, TypeParts DEF LifecycleIInv, Loop, Serving
  <2> QED BY <2>1, <2>3, <2>4, TypesAgain
<1>7. ListIsBuilt' /\ FramesFinalize' /\ EndIsQuiet'
  BY <1>1 DEF LifecycleIInv, ListIsBuilt, ListAt, FramesFinalize, EndIsQuiet
<1>8. WritesArePast'
  <2>1. /\ \A t \in Services, w \in Writes :
              /\ w \in memory[t] => w[1] <= request.id
              /\ files[t] # Torn /\ w \in files[t] => w[1] <= request.id
        /\ \A w \in Writes : w[1] <= request.id => w[1] <= request'.id
    BY <1>3, <1>4, WriteFacts DEF WritesArePast
  <2>2. \A r \in answered : r <= request'.id
    <3> SUFFICES ASSUME NEW r \in answered PROVE r <= request'.id
      OBVIOUS
    <3>1. r <= request.id /\ r \in Requests
      BY <1>3 DEF WritesArePast, DataOK
    <3>2. r \in Nat
      BY <3>1, LifecycleAssumption DEF Requests
    <3> QED BY <1>4, <3>1, <3>2
  <2> QED BY <1>1, <1>3, <2>1, <2>2, WriteFacts DEF WritesArePast
<1>9. ServingIsUnanswered'
  <2>1. request'.id \notin answered
    BY <1>3, <1>4 DEF WritesArePast
  <2> QED BY <1>1, <1>4, <2>1 DEF ServingIsUnanswered
<1>10. AnsweredIsKept'
  <2>1. \A t \in Services : Loaded(t)' <=> Loaded(t)
    BY <1>1 DEF Loaded
  <2> QED BY <1>1, <2>1 DEF LifecycleIInv, AnsweredIsKept, KeptIn
<1>11. ~terminated
  BY <1>1 DEF LifecycleIInv, TerminatedIsSaved
<1>12. TerminatedIsSaved' /\ TornIsOpen'
  BY <1>1, <1>11 DEF LifecycleIInv, TerminatedIsSaved, TornIsOpen, OpenAt
<1>13. ASSUME NEW posts \in SUBSET Writes, NEW accounts, Rest(posts, accounts),
              \A w \in posts : w[1] <= request.id
       PROVE  Rest(posts, accounts)'
  BY <1>3, <1>5, <1>13, WriteFacts DEF Rest
<1>14. FilesRest' /\ FileRestsOnTree'
  <2> SUFFICES ASSUME ~cut PROVE FilesRest' /\ FileRestsOnTree'
    BY <1>1 DEF FilesRest, FileRestsOnTree
  <2>1. files["post"] # Torn /\ Alive /\ Loaded("account")
    BY <1>1, MainFacts, Kinds DEF LifecycleIInv, TornIsOpen, Alive, Ended, Loaded
  <2>2. Rest(files["post"], files["account"]) /\ Rest(files["post"], memory["account"])
    BY <2>1 DEF LifecycleIInv, FilesRest, FileRestsOnTree
  <2>3. files["post"] \in SUBSET Writes /\ \A w \in files["post"] : w[1] <= request.id
    BY <1>3, <2>1, WriteFacts, Kinds DEF WritesArePast
  <2>4. Rest(files["post"], files["account"])' /\ Rest(files["post"], memory["account"])'
    BY <1>1, <1>13, <2>2, <2>3 DEF Rest
  <2> QED BY <2>4 DEF FilesRest, FileRestsOnTree
<1>15. TreesRest'
  <2>1. memory["post"] \in SUBSET Writes /\ \A w \in memory["post"] : w[1] <= request.id
    BY <1>3, WriteFacts, Kinds DEF WritesArePast
  <2>2. ASSUME ~cut PROVE Rest(memory["post"], memory["account"])'
    <3>1. Rest(memory["post"], memory["account"])
      BY <1>1, <2>2 DEF LifecycleIInv, TreesRest, Alive, Ended, Loaded
    <3> QED BY <1>1, <1>13, <2>1, <3>1 DEF Rest
  <2>3. s = "post" => \A a \in needs'[request'.id] : Whole(a, memory["account"])
    <3>1. s = "post" => needs'[request'.id] = {r \in Requests : Whole(r, memory["account"])}
      BY <1>2, <1>3, <1>4 DEF DataOK
    <3> QED BY <3>1
  <2> QED BY <1>1, <1>4, <2>2, <2>3 DEF TreesRest
<1> QED BY <1>6, <1>7, <1>8, <1>9, <1>10, <1>12, <1>14, <1>15 DEF LifecycleIInv

\* A half of the request is written into its tree.
LEMMA HandleKeeps ==
    ASSUME LifecycleIInv, frames = <<>>, NEW half \in {1, 2}, NEW from, NEW to,
           Handle(from, to, half),
           \/ from = "first" /\ to = "second" /\ half = 1
           \/ from = "second" /\ to = "send" /\ half = 2
    PROVE  LifecycleIInv'
<1> DEFINE s == request.service
           w == <<request.id, half>>
<1>1. /\ pc = from /\ pc' = to /\ memory' = [memory EXCEPT ![s] = memory[s] \union {w}]
      /\ UNCHANGED <<finalizers, inSet, watched, request, answered, needs, frames, socketClosed,
                     terminated, files, runs, kills, signals, told, cut>>
      /\ frames' = <<>> /\ DOMAIN frames' = {}
  BY DEF Handle, Goto, signalVars, historyVars
<1>2. /\ pc \in {"first", "second"} /\ pc' \in {"second", "send"} /\ pc \in Serving
      /\ pc' \in Serving /\ pc' \in Loop /\ pc \notin Startup /\ pc' \notin Ended /\ Alive
      /\ pc # "killed"
  BY <1>1 DEF Serving, Loop, Startup, Ended, Alive
<1>3. DataOK /\ WritesArePast /\ ServingIsUnanswered
  BY TypeParts DEF LifecycleIInv
<1>4. s \in Services /\ request.id \in Requests /\ request.id \notin answered
      /\ request.id \in Nat /\ w \in Writes /\ w[1] = request.id
  BY <1>2, <1>3, WriteFacts DEF ServingIsUnanswered
<1>5. /\ memory' \in [Services -> SUBSET Writes] /\ memory'[s] = memory[s] \union {w}
      /\ \A t \in Services : t # s => memory'[t] = memory[t]
      /\ \A t \in Services : memory[t] \subseteq memory'[t] /\ memory'[t] \subseteq memory[t] \union {w}
  BY <1>1, <1>3, <1>4 DEF DataOK
<1> HIDE DEF w
<1>6. LifecycleTypeOK'
  <2>1. FlagsOK' /\ StackOK' /\ CountsOK'
    BY <1>1, TypeParts DEF LifecycleIInv, FlagsOK, StackOK, CountsOK
  <2>2. DataOK'
    BY <1>1, <1>3, <1>5 DEF DataOK
  <2>3. (finalizers \in Seq(Callbacks))'
    BY <1>1, TypeParts DEF LifecycleIInv
  <2> QED BY <1>2, <2>1, <2>2, <2>3, TypesAgain
<1>7. ListIsBuilt' /\ FramesFinalize' /\ EndIsQuiet'
  <2>1. ListAt(pc') = ListAt(pc)
    BY <1>2 DEF ListAt
  <2> QED BY <1>1, <1>2, <2>1 DEF LifecycleIInv, ListIsBuilt, FramesFinalize, EndIsQuiet, Ended
<1>8. WritesArePast'
  BY <1>1, <1>3, <1>4, <1>5 DEF WritesArePast
<1>9. ServingIsUnanswered'
  <2>1. half = 2 => <<request.id, 1>> \in memory[s]
    BY <1>1, <1>3 DEF ServingIsUnanswered
  <2>2. <<request.id, half>> \in memory'[s]
    BY <1>5 DEF w
  <2>3. pc' = "second" => half = 1
    BY <1>1
  <2>4. pc' = "send" => half = 2
    BY <1>1
  <2> QED BY <1>1, <1>4, <1>5, <2>1, <2>2, <2>3, <2>4 DEF ServingIsUnanswered, Whole
<1>10. AnsweredIsKept'
  <2>1. \A t \in Services : Loaded(t)
    BY <1>2 DEF Loaded
  <2>2. \A t \in Services : Loaded(t)'
    BY <1>2 DEF Loaded
  <2> QED BY <1>1, <1>5, <2>1, <2>2 DEF LifecycleIInv, AnsweredIsKept, KeptIn, Whole
<1>11. TerminatedIsSaved'
  <2> SUFFICES ASSUME terminated PROVE TerminatedIsSaved'
    BY <1>1 DEF TerminatedIsSaved
  <2>1. socketClosed /\ \A t \in Services : Saved(t)
    BY <1>2, MainFacts DEF LifecycleIInv, TerminatedIsSaved
  <2>2. ASSUME NEW t \in Services PROVE Saved(t)'
    BY <1>1, <1>4, <1>5, <2>1 DEF Saved
  <2> QED BY <1>1, <1>2, <2>1, <2>2, Kinds DEF TerminatedIsSaved
<1>12. TornIsOpen' /\ FilesRest'
  BY <1>1 DEF LifecycleIInv, TornIsOpen, OpenAt, FilesRest, Rest
<1>13. memory["account"] \subseteq memory'["account"]
  BY <1>5, Kinds
<1>14. Loaded("account") /\ Loaded("post")
  BY <1>2 DEF Loaded
<1>15. FileRestsOnTree'
  <2> SUFFICES ASSUME ~cut, files["post"] # Torn PROVE FileRestsOnTree'
    BY <1>1 DEF FileRestsOnTree
  <2>1. Rest(files["post"], memory["account"])
    BY <1>2, <1>14 DEF LifecycleIInv, FileRestsOnTree
  <2>2. Rest(files["post"], memory'["account"])
    BY <1>13, <2>1, RestGrows
  <2> QED BY <1>1, <2>2 DEF FileRestsOnTree, Rest
<1>16. TreesRest'
  <2>1. s = "post" => \A a \in needs[w[1]] : Whole(a, memory["account"])
    BY <1>2, <1>4 DEF LifecycleIInv, TreesRest
  <2>2. s = "post" => \A a \in needs[w[1]] : Whole(a, memory'["account"])
    BY ZenonT(40), <1>5, <2>1, Kinds DEF Whole
  <2>3. ASSUME ~cut PROVE Rest(memory["post"], memory["account"])'
    <3>1. Rest(memory["post"], memory["account"])
      BY <1>2, <1>14, <2>3 DEF LifecycleIInv, TreesRest
    <3>2. Rest(memory["post"], memory'["account"])
      BY <1>13, <3>1, RestGrows
    <3>3. CASE s = "post"
      BY <1>1, <1>5, <2>2, <3>2, <3>3 DEF Rest
    <3>4. CASE s # "post"
      BY <1>1, <1>5, <3>2, <3>4, Kinds DEF Rest
    <3> QED BY <3>3, <3>4
  <2> QED BY <1>1, <1>4, <2>2, <2>3 DEF TreesRest
<1> QED BY <1>6, <1>7, <1>8, <1>9, <1>10, <1>11, <1>12, <1>15, <1>16 DEF LifecycleIInv

LEMMA SendKeeps == ASSUME LifecycleIInv, frames = <<>>, Send PROVE LifecycleIInv'
<1>1. /\ pc = "send" /\ pc' = "check"
      /\ answered' = IF socketClosed THEN answered ELSE answered \union {request.id}
      /\ UNCHANGED <<finalizers, inSet, watched, memory, request, needs, frames, socketClosed,
                     terminated, files, runs, kills, signals, told, cut>>
      /\ frames' = <<>> /\ DOMAIN frames' = {}
  BY DEF Send, Goto, signalVars, historyVars
<1>2. /\ pc' \in Loop /\ pc' \notin Serving /\ pc \in Serving /\ Alive /\ pc \notin Startup
      /\ pc' \notin Startup
  BY <1>1 DEF Serving, Loop, Startup, Ended, Alive
<1>3. DataOK /\ WritesArePast /\ ServingIsUnanswered
  BY TypeParts DEF LifecycleIInv
<1>4. request.service \in Services /\ request.id \in Requests /\ request.id \in Nat
      /\ Whole(request.id, memory[request.service])
  BY <1>1, <1>2, <1>3, WriteFacts DEF ServingIsUnanswered
<1>5. LifecycleTypeOK'
  <2>1. FlagsOK' /\ StackOK' /\ CountsOK'
    BY <1>1, TypeParts DEF LifecycleIInv, FlagsOK, StackOK, CountsOK
  <2>2. DataOK'
    BY <1>1, <1>3, <1>4 DEF DataOK
  <2>3. (finalizers \in Seq(Callbacks))'
    BY <1>1, TypeParts DEF LifecycleIInv
  <2> QED BY <1>2, <2>1, <2>2, <2>3, TypesAgain
<1>6. ListIsBuilt' /\ FramesFinalize' /\ EndIsQuiet'
  BY <1>1 DEF LifecycleIInv, ListIsBuilt, ListAt, FramesFinalize, EndIsQuiet
<1>7. WritesArePast'
  <2>1. \A r \in answered' : r <= request.id
    BY <1>1, <1>3, <1>4 DEF WritesArePast
  <2> QED BY <1>1, <1>3, <2>1 DEF WritesArePast
<1>8. ServingIsUnanswered' /\ TreesRest' /\ FileRestsOnTree'
  BY <1>1, <1>2, Kinds
     DEF LifecycleIInv, ServingIsUnanswered, TreesRest, FileRestsOnTree, Rest, Loaded
<1>9. AnsweredIsKept'
  <2>1. \A t \in Services : Loaded(t)
    BY <1>1 DEF Loaded
  <2>2. \A t \in Services : Loaded(t)'
    BY <1>1 DEF Loaded
  <2> QED BY <1>1, <1>4, <2>1, <2>2 DEF LifecycleIInv, AnsweredIsKept, KeptIn
<1>10. TerminatedIsSaved'
  <2> SUFFICES ASSUME terminated PROVE TerminatedIsSaved'
    BY <1>1 DEF TerminatedIsSaved
  <2>1. socketClosed /\ \A t \in Services : Saved(t)
    BY <1>1, MainFacts DEF LifecycleIInv, TerminatedIsSaved
  <2> QED BY <1>1, <1>2, <2>1 DEF TerminatedIsSaved, Saved
<1>11. TornIsOpen' /\ FilesRest'
  BY <1>1 DEF LifecycleIInv, TornIsOpen, OpenAt, FilesRest, Rest
<1> QED BY <1>5, <1>6, <1>7, <1>8, <1>9, <1>10, <1>11 DEF LifecycleIInv

-----------------------------------------------------------------------------
(* The steps of the handlers.                                              *)

\* What is known where the innermost handler is about to run a callback.
LEMMA RunningFacts ==
    ASSUME LifecycleIInv, NEW c \in Callbacks, Running(c)
    PROVE  /\ frames \in Seq(Frame) /\ frames # <<>> /\ Alive /\ pc # "killed" /\ pc \notin Ended
           /\ finalizers = ListAt(pc) /\ Len(finalizers) \in 0 .. 4
           /\ Top = frames[Len(frames)] /\ Len(frames) \in DOMAIN frames /\ Top \in Frame
           /\ Top.at \in 1 .. Len(finalizers) /\ finalizers[Top.at] = c
           /\ Top.open => c \in Services
           /\ \A k \in 1 .. Len(finalizers) : finalizers[k] \in Callbacks
           /\ \A k \in 1 .. Top.at - 1 : Done(finalizers[k])
           /\ c \in Services => Loaded(c) /\ pc \notin {"open", "loadAccount", "addAccount"}
           /\ c = "stop" => pc \notin Startup /\ Top.at = 4
                 /\ finalizers[1] = "post" /\ finalizers[2] = "account" /\ finalizers[3] = "close"
<1>1. frames \in Seq(Frame) /\ frames # <<>> /\ Alive /\ pc # "killed" /\ pc \notin Ended
  BY TypeParts, Kinds DEF LifecycleIInv, StackOK, Running, Alive
<1>2. Top = frames[Len(frames)] /\ Len(frames) \in DOMAIN frames /\ Top \in Frame
  BY <1>1 DEF Top, Last
<1>3. finalizers = ListAt(pc)
  BY <1>1 DEF LifecycleIInv, ListIsBuilt
<1>4. /\ Len(finalizers) \in 0 .. 4 /\ \A k \in 1 .. Len(finalizers) : finalizers[k] \in Callbacks
      /\ \A k \in 1 .. Len(finalizers) :
            /\ finalizers[k] = "stop" =>
                  pc \notin Startup /\ finalizers = <<"post", "account", "close", "stop">> /\ k = 4
            /\ finalizers[k] = "account" => pc \notin {"open", "loadAccount", "addAccount"}
            /\ finalizers[k] = "post" =>
                  pc \notin {"open", "loadAccount", "addAccount", "loadPost", "addPost"}
  BY <1>3, ListFacts
<1>5. Top.at \in 1 .. Len(finalizers) /\ finalizers[Top.at] = c
  BY <1>2, <1>4 DEF Running, Frame
<1>6. /\ Top.open => c \in Services
      /\ \A k \in 1 .. Top.at - 1 : Done(finalizers[k])
  BY <1>1, <1>2, <1>5 DEF LifecycleIInv, FramesFinalize
<1>7. c \in Services => Loaded(c) /\ pc \notin {"open", "loadAccount", "addAccount"}
  BY <1>1, <1>4, <1>5 DEF Loaded, Services
<1>8. c = "stop" => pc \notin Startup /\ Top.at = 4
                 /\ finalizers[1] = "post" /\ finalizers[2] = "account" /\ finalizers[3] = "close"
  BY <1>4, <1>5
<1> QED BY <1>1, <1>2, <1>3, <1>4, <1>5, <1>6, <1>7, <1>8

\* The innermost handler has finished a callback.
LEMMA GoOnKeeps ==
    ASSUME LifecycleIInv, NEW c \in Callbacks, Running(c), GoOn,
           UNCHANGED <<pc, finalizers, watched, memory, request, answered, needs, historyVars>>,
           inSet' \in BOOLEAN, socketClosed' \in BOOLEAN, terminated' \in BOOLEAN,
           socketClosed => socketClosed', c = "close" => socketClosed',
           terminated' => terminated \/ c = "stop",
           c \in Services => files' = [files EXCEPT ![c] = memory[c]],
           c \notin Services => files' = files
    PROVE  LifecycleIInv'
<1> DEFINE f == [Top EXCEPT !.at = @ + 1, !.open = FALSE]
           n == Len(frames)
<1>1. /\ frames \in Seq(Frame) /\ frames # <<>> /\ Alive /\ pc # "killed" /\ pc \notin Ended
      /\ finalizers = ListAt(pc) /\ Len(finalizers) \in 0 .. 4
      /\ Top = frames[n] /\ n \in DOMAIN frames /\ Top \in Frame
      /\ Top.at \in 1 .. Len(finalizers) /\ finalizers[Top.at] = c
      /\ \A k \in 1 .. Len(finalizers) : finalizers[k] \in Callbacks
      /\ \A k \in 1 .. Top.at - 1 : Done(finalizers[k])
      /\ c \in Services => Loaded(c) /\ pc \notin {"open", "loadAccount", "addAccount"}
  BY RunningFacts
<1>2. f \in Frame /\ f.at = Top.at + 1 /\ f.open = FALSE /\ f.signal = Top.signal
  <2>1. Top.at + 1 \in 1 .. 5
    <3>1. \A m \in 0 .. 4 : \A k \in 1 .. m : k + 1 \in 1 .. 5
      OBVIOUS
    <3>2. Top.at \in 1 .. Len(finalizers) /\ Len(finalizers) \in 0 .. 4
      BY <1>1
    <3> QED BY ZenonT(20), <3>1, <3>2
  <2>2. Top \in [signal : Signals, at : 1 .. 5, open : BOOLEAN]
    BY <1>1 DEF Frame
  <2> QED BY <2>1, <2>2 DEF Frame
<1>3. SetTop(f)
  BY DEF GoOn
<1> HIDE DEF f
<1>4. /\ frames' \in Seq(Frame) /\ DOMAIN frames' = DOMAIN frames /\ frames' # <<>>
      /\ frames'[n] = f
      /\ \A i \in DOMAIN frames : i # n => frames'[i] = frames[i]
  BY <1>1, <1>2, <1>3, TopChanges
<1>5. DataOK /\ \A s \in Services : memory[s] # Torn
  BY TypeParts, WriteFacts DEF LifecycleIInv
<1>6. /\ UNCHANGED <<pc, finalizers, memory, request, answered, needs, runs, kills, signals, told, cut>>
      /\ c \in Services => files'[c] = memory[c]
      /\ \A s \in Services : s # c => files'[s] = files[s]
      /\ files' \in [Services -> (SUBSET Writes) \union {Torn}]
  BY <1>5 DEF historyVars, DataOK
<1>7. ASSUME NEW s \in Services, s # c, OpenAt(s) PROVE OpenAt(s)'
  <2>1. PICK i \in DOMAIN frames :
           frames[i].open /\ frames[i].at <= Len(finalizers) /\ finalizers[frames[i].at] = s
    BY <1>7 DEF OpenAt
  <2>2. i # n
    BY <1>1, <1>7, <2>1
  <2> QED BY <1>4, <1>6, <2>1, <2>2 DEF OpenAt
<1>8. Done(c)' /\ \A x \in Callbacks : Done(x) => Done(x)'
  <2>1. Done(c)'
    BY <1>6 DEF Done
  <2>2. ASSUME NEW x \in Callbacks, Done(x), x # c PROVE Done(x)'
    BY <1>6, <1>7, <2>2 DEF Done
  <2> QED BY <2>1, <2>2
<1>9. LifecycleTypeOK'
  <2>1. FlagsOK' /\ CountsOK'
    BY <1>6, TypeParts DEF LifecycleIInv, FlagsOK, CountsOK
  <2>2. StackOK'
    <3>1. \A i \in DOMAIN frames : frames'[i].signal = frames[i].signal
      BY <1>1, <1>2, <1>4
    <3> QED BY <1>4, <3>1, TypeParts DEF LifecycleIInv, StackOK
  <2>3. DataOK'
    BY <1>5, <1>6 DEF DataOK
  <2>4. pc' \in Startup \union Loop \union Ended /\ (finalizers \in Seq(Callbacks))'
    BY <1>6, TypeParts DEF LifecycleIInv
  <2> QED BY <2>1, <2>2, <2>3, <2>4, TypesAgain
<1>10. ListIsBuilt' /\ ServingIsUnanswered' /\ EndIsQuiet'
  BY <1>1, <1>6, Kinds DEF LifecycleIInv, ListIsBuilt, ServingIsUnanswered, EndIsQuiet
<1>11. FramesFinalize'
  <2> SUFFICES ASSUME NEW i \in DOMAIN frames
               PROVE  /\ frames'[i].at <= Len(finalizers) + 1
                      /\ frames'[i].open => /\ frames'[i].at <= Len(finalizers)
                                            /\ finalizers[frames'[i].at] \in Services
                      /\ \A k \in 1 .. frames'[i].at - 1 : Done(finalizers[k])'
    BY <1>4, <1>6 DEF FramesFinalize
  <2>1. CASE i = n
    <3>1. \A k \in 1 .. Top.at : Done(finalizers[k])'
      <4>1. \A k \in 1 .. Top.at - 1 : Done(finalizers[k])'
        BY <1>1, <1>6, <1>8
      <4>2. \A k \in {Top.at} : Done(finalizers[k])'
        BY <1>1, <1>6, <1>8
      <4>3. Top.at \in Nat /\ \A k \in 1 .. Top.at : k \in 1 .. Top.at - 1 \/ k \in {Top.at}
        BY <1>1
      <4> QED BY <4>1, <4>2, <4>3
    <3>2. frames'[i].at = Top.at + 1 /\ ~frames'[i].open
      BY <1>2, <1>4, <2>1
    <3> QED BY <1>1, <3>1, <3>2
  <2>2. CASE i # n
    <3>1. frames'[i] = frames[i] /\ frames[i].at \in 1 .. 5
      <4>1. frames[i] \in [signal : Signals, at : 1 .. 5, open : BOOLEAN]
        <5>1. frames[i] \in Frame
          BY <1>1
        <5> QED BY <5>1 DEF Frame
      <4> QED BY <1>4, <2>2, <4>1
    <3>2. /\ frames[i].at <= Len(finalizers) + 1
          /\ frames[i].open => frames[i].at <= Len(finalizers) /\ finalizers[frames[i].at] \in Services
          /\ \A k \in 1 .. frames[i].at - 1 : Done(finalizers[k])
      BY <1>1 DEF LifecycleIInv, FramesFinalize
    <3>3. \A k \in 1 .. frames[i].at - 1 : finalizers[k] \in Callbacks
      BY <1>1, <3>1, <3>2
    <3> QED BY <1>6, <1>8, <3>1, <3>2, <3>3
  <2> QED BY <2>1, <2>2
<1>12. WritesArePast'
  BY <1>6 DEF LifecycleIInv, WritesArePast
<1>13. AnsweredIsKept'
  <2>1. \A s \in Services : Loaded(s)' <=> Loaded(s)
    BY <1>6 DEF Loaded
  <2>2. \A s \in Services : ~Loaded(s) => files'[s] = files[s]
    BY <1>1, <1>6
  <2> QED BY <1>6, <2>1, <2>2 DEF LifecycleIInv, AnsweredIsKept, KeptIn
<1>14. TerminatedIsSaved'
  <2> SUFFICES ASSUME terminated' PROVE TerminatedIsSaved'
    BY DEF TerminatedIsSaved
  <2>1. ASSUME NEW s \in Services, files[s] = memory[s] PROVE Saved(s)'
    BY <1>5, <1>6, <2>1 DEF Saved
  <2>2. c \in Services => Saved(c)'
    BY <1>5, <1>6 DEF Saved
  <2>3. CASE terminated
    <3>1. pc \notin Startup /\ socketClosed /\ \A s \in Services : Saved(s) \/ OpenAt(s)
      BY <1>1, <2>3 DEF LifecycleIInv, TerminatedIsSaved
    <3>2. \A s \in Services : s # c /\ Saved(s) => Saved(s)'
      BY <1>6 DEF Saved
    <3> QED BY <1>6, <1>7, <2>2, <3>1, <3>2 DEF TerminatedIsSaved
  <2>4. CASE c = "stop"
    <3>1. pc \notin Startup /\ Done("post") /\ Done("account") /\ Done("close")
      <4>1. pc \notin Startup /\ Top.at = 4
            /\ finalizers[1] = "post" /\ finalizers[2] = "account" /\ finalizers[3] = "close"
        BY <2>4, RunningFacts
      <4>2. Done(finalizers[1]) /\ Done(finalizers[2]) /\ Done(finalizers[3])
        BY <1>1, <4>1
      <4> QED BY <4>1, <4>2
    <3>2. socketClosed /\ \A s \in Services : files[s] = memory[s] \/ OpenAt(s)
      BY <3>1, Kinds DEF Done
    <3>3. \A s \in Services : s # c
      BY <2>4 DEF Services
    <3> QED BY <1>6, <1>7, <2>1, <3>1, <3>2, <3>3 DEF TerminatedIsSaved
  <2> QED BY <2>3, <2>4
<1>15. TornIsOpen'
  BY <1>5, <1>6, <1>7 DEF LifecycleIInv, TornIsOpen
<1>16. FilesRest'
  <2> SUFFICES ASSUME ~cut, pc \in {"open", "loadAccount", "addAccount"} PROVE FilesRest'
    BY <1>4, <1>6 DEF FilesRest
  <2>1. files' = files
    BY <1>1
  <2> QED BY <1>6, <2>1 DEF LifecycleIInv, FilesRest, Rest
<1>17. FileRestsOnTree'
  <2> SUFFICES ASSUME ~cut, Loaded("account"), files'["post"] # Torn
               PROVE  Rest(files["post"], memory["account"])'
    BY <1>1, <1>6 DEF FileRestsOnTree, Loaded
  <2>1. CASE c = "post"
    <3>1. Rest(memory["post"], memory["account"])
      BY <1>1, <2>1, Kinds DEF LifecycleIInv, TreesRest
    <3> QED BY <1>6, <2>1, <3>1, Kinds DEF Rest
  <2>2. CASE c # "post"
    <3>1. files'["post"] = files["post"]
      BY <1>6, <2>2, Kinds
    <3> QED BY <1>1, <1>6, <3>1 DEF LifecycleIInv, FileRestsOnTree, Rest
  <2> QED BY <2>1, <2>2
<1>18. TreesRest'
  BY <1>1, <1>6 DEF LifecycleIInv, TreesRest, Rest, Loaded
<1> QED BY <1>9, <1>10, <1>11, <1>12, <1>13, <1>14, <1>15, <1>16, <1>17, <1>18 DEF LifecycleIInv

LEMMA CallbackKeeps ==
    ASSUME LifecycleIInv, Close \/ Stop \/ \E s \in Services : WriteFile(s) PROVE LifecycleIInv'
<1>1. FlagsOK
  BY TypeParts DEF LifecycleIInv
<1>2. inSet \in BOOLEAN /\ socketClosed \in BOOLEAN /\ terminated \in BOOLEAN
  BY <1>1 DEF FlagsOK
<1>3. CASE Close
  BY <1>2, <1>3, GoOnKeeps DEF Close, Callbacks, Services
<1>4. CASE Stop
  BY <1>2, <1>4, GoOnKeeps DEF Stop, Callbacks, Services, mainVars
<1>5. ASSUME NEW s \in Services, WriteFile(s) PROVE LifecycleIInv'
  <2>1. s \in Callbacks /\ s # "close" /\ s # "stop"
    BY DEF Services, Callbacks
  <2> QED BY <1>2, <1>5, <2>1, GoOnKeeps DEF WriteFile, mainVars
<1> QED BY <1>3, <1>4, <1>5

LEMMA OpenFileKeeps ==
    ASSUME LifecycleIInv, NEW s \in Services, OpenFile(s) PROVE LifecycleIInv'
<1> DEFINE f == [Top EXCEPT !.open = TRUE]
           n == Len(frames)
<1>1. /\ frames \in Seq(Frame) /\ frames # <<>> /\ Alive /\ pc # "killed" /\ pc \notin Ended
      /\ finalizers = ListAt(pc) /\ Len(finalizers) \in 0 .. 4
      /\ Top = frames[n] /\ n \in DOMAIN frames /\ Top \in Frame
      /\ Top.at \in 1 .. Len(finalizers) /\ finalizers[Top.at] = s
      /\ \A k \in 1 .. Len(finalizers) : finalizers[k] \in Callbacks
      /\ \A k \in 1 .. Top.at - 1 : Done(finalizers[k])
      /\ Loaded(s) /\ pc \notin {"open", "loadAccount", "addAccount"}
  <2>1. s \in Callbacks /\ Running(s)
    BY DEF OpenFile, Services, Callbacks
  <2> QED BY <2>1, RunningFacts
<1>2. f \in Frame /\ f.at = Top.at /\ f.open = TRUE /\ f.signal = Top.signal
  <2>1. Top \in [signal : Signals, at : 1 .. 5, open : BOOLEAN]
    BY <1>1 DEF Frame
  <2> QED BY <2>1 DEF Frame
<1>3. SetTop(f)
  BY DEF OpenFile
<1> HIDE DEF f
<1>4. /\ frames' \in Seq(Frame) /\ DOMAIN frames' = DOMAIN frames /\ frames' # <<>>
      /\ frames'[n] = f
      /\ \A i \in DOMAIN frames : i # n => frames'[i] = frames[i]
  BY <1>1, <1>2, <1>3, TopChanges
<1>5. DataOK /\ \A t \in Services : memory[t] # Torn
  BY TypeParts, WriteFacts DEF LifecycleIInv
<1>6. /\ UNCHANGED <<pc, finalizers, inSet, watched, memory, request, answered, needs, socketClosed,
                     terminated, runs, kills, signals, told, cut>>
      /\ files'[s] = Torn
      /\ \A t \in Services : t # s => files'[t] = files[t]
      /\ files' \in [Services -> (SUBSET Writes) \union {Torn}]
  BY <1>5 DEF OpenFile, mainVars, historyVars, DataOK
<1>7. OpenAt(s)' /\ \A t \in Services : OpenAt(t) => OpenAt(t)'
  <2>1. OpenAt(s)'
    <3>1. /\ n \in DOMAIN frames' /\ frames'[n].open
          /\ frames'[n].at <= Len(finalizers) /\ finalizers[frames'[n].at] = s
      BY <1>1, <1>2, <1>4
    <3> QED BY <1>6, <3>1 DEF OpenAt
  <2>2. ASSUME NEW t \in Services, OpenAt(t), t # s PROVE OpenAt(t)'
    <3>1. PICK i \in DOMAIN frames :
             frames[i].open /\ frames[i].at <= Len(finalizers) /\ finalizers[frames[i].at] = t
      BY <2>2 DEF OpenAt
    <3>2. i # n
      BY <1>1, <2>2, <3>1
    <3> QED BY <1>4, <1>6, <3>1, <3>2 DEF OpenAt
  <2> QED BY <2>1, <2>2
<1>8. \A x \in Callbacks : Done(x) => Done(x)'
  BY <1>6, <1>7 DEF Done
<1>9. LifecycleTypeOK'
  <2>1. FlagsOK' /\ CountsOK'
    BY <1>6, TypeParts DEF LifecycleIInv, FlagsOK, CountsOK
  <2>2. StackOK'
    <3>1. \A i \in DOMAIN frames : frames'[i].signal = frames[i].signal
      BY <1>1, <1>2, <1>4
    <3> QED BY <1>4, <3>1, TypeParts DEF LifecycleIInv, StackOK
  <2>3. DataOK'
    BY <1>5, <1>6 DEF DataOK
  <2>4. pc' \in Startup \union Loop \union Ended /\ (finalizers \in Seq(Callbacks))'
    BY <1>6, TypeParts DEF LifecycleIInv
  <2> QED BY <2>1, <2>2, <2>3, <2>4, TypesAgain
<1>10. ListIsBuilt' /\ ServingIsUnanswered' /\ EndIsQuiet'
  BY <1>1, <1>6, Kinds DEF LifecycleIInv, ListIsBuilt, ServingIsUnanswered, EndIsQuiet
<1>11. FramesFinalize'
  <2> SUFFICES ASSUME NEW i \in DOMAIN frames
               PROVE  /\ frames'[i].at <= Len(finalizers) + 1
                      /\ frames'[i].open => /\ frames'[i].at <= Len(finalizers)
                                            /\ finalizers[frames'[i].at] \in Services
                      /\ \A k \in 1 .. frames'[i].at - 1 : Done(finalizers[k])'
    BY <1>4, <1>6 DEF FramesFinalize
  <2>1. /\ frames[i].at <= Len(finalizers) + 1
        /\ frames[i].open => frames[i].at <= Len(finalizers) /\ finalizers[frames[i].at] \in Services
        /\ \A k \in 1 .. frames[i].at - 1 : Done(finalizers[k])
    BY <1>1 DEF LifecycleIInv, FramesFinalize
  <2>2. frames'[i].at = frames[i].at /\ (i # n => frames'[i] = frames[i])
    BY <1>1, <1>2, <1>4
  <2>3. frames[i].at \in 1 .. 5
    <3>1. frames[i] \in Frame
      BY <1>1
    <3> QED BY <3>1 DEF Frame
  <2>4. \A k \in 1 .. frames[i].at - 1 : finalizers[k] \in Callbacks
    <3>1. Len(finalizers) \in Nat /\ \A k \in 1 .. Len(finalizers) : finalizers[k] \in Callbacks
      BY <1>1
    <3>2. frames[i].at - 1 <= Len(finalizers)
      BY <2>1, <2>3, <3>1
    <3> QED BY <2>3, <3>1, <3>2
  <2>5. \A k \in 1 .. frames[i].at - 1 : Done(finalizers[k])'
    BY <1>6, <1>8, <2>1, <2>4
  <2>6. frames'[i].open => frames'[i].at <= Len(finalizers) /\ finalizers[frames'[i].at] \in Services
    BY <1>1, <2>1, <2>2
  <2> QED BY <2>1, <2>2, <2>5, <2>6
<1>12. WritesArePast'
  <2>1. \A t \in Services : files'[t] # Torn => files'[t] = files[t]
    BY <1>6
  <2> QED BY <1>6, <2>1 DEF LifecycleIInv, WritesArePast
<1>13. AnsweredIsKept'
  <2>1. \A t \in Services : Loaded(t)' <=> Loaded(t)
    BY <1>6 DEF Loaded
  <2>2. \A t \in Services : ~Loaded(t) => files'[t] = files[t]
    BY <1>1, <1>6
  <2> QED BY <1>6, <2>1, <2>2 DEF LifecycleIInv, AnsweredIsKept, KeptIn
<1>14. TerminatedIsSaved'
  <2> SUFFICES ASSUME terminated PROVE TerminatedIsSaved'
    BY <1>6 DEF TerminatedIsSaved
  <2>1. pc \notin Startup /\ socketClosed /\ \A t \in Services : Saved(t) \/ OpenAt(t)
    BY <1>1 DEF LifecycleIInv, TerminatedIsSaved
  <2>2. \A t \in Services : t # s /\ Saved(t) => Saved(t)'
    BY <1>6 DEF Saved
  <2> QED BY <1>6, <1>7, <2>1, <2>2 DEF TerminatedIsSaved
<1>15. TornIsOpen'
  BY <1>6, <1>7 DEF LifecycleIInv, TornIsOpen
<1>16. FilesRest'
  BY <1>1, <1>4, <1>6 DEF FilesRest
<1>17. FileRestsOnTree'
  <2>1. files'["post"] # Torn => files'["post"] = files["post"]
    BY <1>6, Kinds
  <2> QED BY <1>1, <1>6, <2>1 DEF LifecycleIInv, FileRestsOnTree, Rest, Loaded
<1>18. TreesRest'
  BY <1>1, <1>6 DEF LifecycleIInv, TreesRest, Rest, Loaded
<1> QED BY <1>9, <1>10, <1>11, <1>12, <1>13, <1>14, <1>15, <1>16, <1>17, <1>18 DEF LifecycleIInv

\* The innermost handler returns. If it was the last one, every file in the list is what
\* its tree is.
LEMMA ReturnKeeps == ASSUME LifecycleIInv, Return PROVE LifecycleIInv'
<1> DEFINE n == Len(frames)
<1>1. /\ frames # <<>> /\ Alive /\ Top.at > Len(finalizers) /\ frames' = Front(frames)
      /\ pc' = IF frames' = <<>> /\ pc = "waiting" THEN "check" ELSE pc
      /\ UNCHANGED <<finalizers, inSet, watched, memory, request, answered, needs,
                     socketClosed, terminated, files, runs, kills, signals, told, cut>>
  BY DEF Return, historyVars
<1>2. /\ pc # "killed" /\ pc \notin Ended /\ pc' \notin Ended /\ finalizers = ListAt(pc)
      /\ frames \in Seq(Frame) /\ Len(finalizers) \in 0 .. 4
      /\ \A k \in 1 .. Len(finalizers) : finalizers[k] \in Callbacks
  BY <1>1, TypeParts, ListFacts, Kinds DEF LifecycleIInv, Alive, ListIsBuilt, StackOK, Ended
<1>3. /\ pc' \in {pc, "check"} /\ (pc' # pc => pc = "waiting") /\ ListAt(pc') = ListAt(pc)
      /\ pc' \in Startup \union Loop \union Ended /\ (pc' \in Startup <=> pc \in Startup)
      /\ pc' \in Serving => pc' = pc
      /\ \A s \in Services : Loaded(s)' <=> Loaded(s)
  <2>1. pc' = pc \/ (pc = "waiting" /\ pc' = "check")
    BY <1>1
  <2>2. CASE pc' = pc
    BY <2>2, TypeParts DEF LifecycleIInv, Loaded
  <2>3. CASE pc = "waiting" /\ pc' = "check"
    BY <2>3 DEF ListAt, Startup, Loop, Serving, Loaded
  <2> QED BY <2>1, <2>2, <2>3
<1>4. /\ frames' \in Seq(Frame) /\ DOMAIN frames' = 1 .. n - 1
      /\ n \in DOMAIN frames /\ Top = frames[n] /\ Top \in Frame /\ DOMAIN frames = 1 .. n
      /\ \A i \in DOMAIN frames' : i \in DOMAIN frames /\ frames'[i] = frames[i]
      /\ frames' = <<>> => n = 1
  BY <1>1, <1>2, TopGoes
<1>5. ASSUME NEW s, OpenAt(s) PROVE OpenAt(s)'
  <2>1. PICK i \in DOMAIN frames :
           frames[i].open /\ frames[i].at <= Len(finalizers) /\ finalizers[frames[i].at] = s
    BY <1>5 DEF OpenAt
  <2>2. i # n
    <3>1. Top.at \in Nat
      BY <1>4 DEF Frame
    <3> QED BY <1>1, <1>2, <1>4, <2>1, <3>1
  <2>3. i \in DOMAIN frames'
    BY <1>4, <2>2
  <2> QED BY <1>1, <1>4, <2>1, <2>3 DEF OpenAt
<1>6. LifecycleTypeOK'
  <2>1. FlagsOK' /\ CountsOK' /\ DataOK'
    BY <1>1, TypeParts DEF LifecycleIInv, FlagsOK, CountsOK, DataOK
  <2>2. StackOK'
    BY <1>4, TypeParts DEF LifecycleIInv, StackOK
  <2>3. (finalizers \in Seq(Callbacks))'
    BY <1>1, TypeParts DEF LifecycleIInv
  <2> QED BY <1>3, <2>1, <2>2, <2>3, TypesAgain
<1>7. ListIsBuilt' /\ WritesArePast' /\ EndIsQuiet'
  BY <1>1, <1>2, <1>3, Kinds DEF LifecycleIInv, ListIsBuilt, WritesArePast, EndIsQuiet
<1>8. FramesFinalize'
  <2>1. \A x : Done(x) => Done(x)'
    BY <1>1, <1>5 DEF Done
  <2>2. \A i \in DOMAIN frames :
           /\ frames[i].at <= Len(finalizers) + 1
           /\ frames[i].open => frames[i].at <= Len(finalizers) /\ finalizers[frames[i].at] \in Services
           /\ \A k \in 1 .. frames[i].at - 1 : Done(finalizers[k])
    BY <1>1 DEF LifecycleIInv, FramesFinalize
  <2> QED BY <1>1, <1>4, <2>1, <2>2 DEF FramesFinalize
<1>9. ServingIsUnanswered'
  BY <1>1, <1>3, Kinds DEF LifecycleIInv, ServingIsUnanswered
<1>10. AnsweredIsKept'
  BY <1>1, <1>3 DEF LifecycleIInv, AnsweredIsKept, KeptIn
<1>11. TerminatedIsSaved'
  <2>1. \A s \in Services : Saved(s) => Saved(s)'
    BY <1>1 DEF Saved
  <2> QED BY <1>1, <1>2, <1>3, <1>5, <2>1 DEF LifecycleIInv, TerminatedIsSaved
<1>12. TornIsOpen'
  BY <1>1, <1>5 DEF LifecycleIInv, TornIsOpen
<1>13. FileRestsOnTree'
  BY <1>1, <1>3, Kinds DEF LifecycleIInv, FileRestsOnTree, Rest
<1>14. TreesRest'
  BY <1>1, <1>3, Kinds DEF LifecycleIInv, TreesRest, Rest
<1>15. FilesRest'
  <2> SUFFICES ASSUME ~cut, frames' = <<>> \/ pc \in {"open", "loadAccount", "addAccount"}
               PROVE  Rest(files["post"], files["account"])
    BY <1>1, <1>3 DEF FilesRest, Rest
  <2>1. CASE pc \in {"open", "loadAccount", "addAccount"}
    BY <2>1 DEF LifecycleIInv, FilesRest
  <2>2. CASE frames' = <<>> /\ pc \notin {"open", "loadAccount", "addAccount"}
    <3>1. \A t \in Services : ~OpenAt(t)
      <4>1. DOMAIN frames' = {}
        BY <1>4, <2>2
      <4> QED BY <1>5, <4>1 DEF OpenAt
    <3>2. \A t \in Services : files[t] # Torn
      BY <3>1 DEF LifecycleIInv, TornIsOpen
    <3>3. \A k \in 1 .. Len(finalizers) : Done(finalizers[k])
      <4>1. n = 1 /\ Top.at \in Nat /\ \A k \in 1 .. Top.at - 1 : Done(finalizers[k])
        BY <1>1, <1>4, <2>2 DEF LifecycleIInv, FramesFinalize, Frame
      <4> QED BY <1>1, <1>2, <4>1
    <3>4. files["account"] = memory["account"] /\ Loaded("account")
      <4>1. \E k \in 1 .. Len(finalizers) : finalizers[k] = "account"
        <5>1. CASE pc \in {"loadPost", "addPost"}
          <6>1. finalizers = <<"account", "close">>
            BY <1>2, <5>1 DEF ListAt
          <6> QED BY <6>1
        <5>2. CASE pc = "routes"
          <6>1. finalizers = <<"post", "account", "close">>
            BY <1>2, <5>2 DEF ListAt
          <6>2. finalizers[2] = "account" /\ 2 \in 1 .. Len(finalizers)
            BY <6>1
          <6> QED BY <6>2
        <5>3. CASE pc \notin Startup
          <6>1. finalizers = <<"post", "account", "close", "stop">>
            BY <1>2, <5>3 DEF ListAt, Startup
          <6>2. finalizers[2] = "account" /\ 2 \in 1 .. Len(finalizers)
            BY <6>1
          <6> QED BY <6>2
        <5> QED BY <2>2, <5>1, <5>2, <5>3 DEF Startup
      <4>2. Done("account")
        BY <3>3, <4>1
      <4> QED BY <1>2, <2>2, <3>1, <4>2, Kinds DEF Done, Loaded
    <3>5. Rest(files["post"], memory["account"])
      BY <1>1, <3>2, <3>4, Kinds DEF LifecycleIInv, FileRestsOnTree
    <3> QED BY <3>4, <3>5
  <2> QED BY <2>1, <2>2
<1> QED BY <1>6, <1>7, <1>8, <1>9, <1>10, <1>11, <1>12, <1>13, <1>14, <1>15 DEF LifecycleIInv

-----------------------------------------------------------------------------
(* Signals, kills and restarts.                                            *)

LEMMA SignalKeeps == ASSUME LifecycleIInv, Signal PROVE LifecycleIInv'
<1> DEFINE n == Len(frames)
<1>1. PICK g \in Signals \ {frames[i].signal : i \in DOMAIN frames} :
         frames' = Append(frames, [signal |-> g, at |-> 1, open |-> FALSE])
  BY DEF Signal
<1>2. /\ Alive /\ pc # "killed" /\ pc \notin Ended /\ signals < MaxSignals
      /\ signals' = signals + 1 /\ told' = (told \/ pc \notin Startup)
      /\ UNCHANGED <<pc, finalizers, inSet, watched, memory, request, answered, needs,
                     socketClosed, terminated, files, runs, kills, cut>>
  BY Kinds DEF Signal, mainVars, Alive
<1>3. frames \in Seq(Frame) /\ [signal |-> g, at |-> 1, open |-> FALSE] \in Frame
  BY TypeParts DEF LifecycleIInv, StackOK, Frame
<1>4. /\ frames' \in Seq(Frame) /\ frames' # <<>> /\ DOMAIN frames' = 1 .. n + 1
      /\ frames'[n + 1] = [signal |-> g, at |-> 1, open |-> FALSE]
      /\ DOMAIN frames = 1 .. n /\ n \in Nat
      /\ \A i \in DOMAIN frames : i \in DOMAIN frames' /\ frames'[i] = frames[i]
      /\ \A i \in DOMAIN frames' : i \in DOMAIN frames \/ i = n + 1
  BY <1>1, <1>3
<1>5. ASSUME NEW s, OpenAt(s) PROVE OpenAt(s)'
  BY <1>2, <1>4, <1>5 DEF OpenAt
<1>6. LifecycleTypeOK'
  <2>1. FlagsOK' /\ DataOK'
    BY <1>2, TypeParts DEF LifecycleIInv, FlagsOK, DataOK
  <2>2. CountsOK'
    BY <1>2, TypeParts, LifecycleAssumption DEF LifecycleIInv, CountsOK
  <2>3. StackOK'
    <3>1. \A i \in DOMAIN frames : frames[i].signal # g
      BY <1>1
    <3> QED BY <1>4, <3>1, TypeParts DEF LifecycleIInv, StackOK
  <2>4. pc' \in Startup \union Loop \union Ended /\ (finalizers \in Seq(Callbacks))'
    BY <1>2, TypeParts DEF LifecycleIInv
  <2> QED BY <2>1, <2>2, <2>3, <2>4, TypesAgain
<1>7. ListIsBuilt' /\ WritesArePast' /\ ServingIsUnanswered' /\ EndIsQuiet'
  BY <1>2, Kinds DEF LifecycleIInv, ListIsBuilt, WritesArePast, ServingIsUnanswered, EndIsQuiet
<1>8. FramesFinalize'
  <2>1. \A x : Done(x) => Done(x)'
    BY <1>2, <1>5 DEF Done
  <2>2. \A i \in DOMAIN frames :
           /\ frames[i].at <= Len(finalizers) + 1
           /\ frames[i].open => frames[i].at <= Len(finalizers) /\ finalizers[frames[i].at] \in Services
           /\ \A k \in 1 .. frames[i].at - 1 : Done(finalizers[k])
    BY <1>2 DEF LifecycleIInv, FramesFinalize
  <2>3. 1 <= Len(finalizers) + 1 /\ 1 .. 1 - 1 = {}
    BY <1>2, ListFacts DEF LifecycleIInv, ListIsBuilt
  <2> QED BY <1>2, <1>4, <2>1, <2>2, <2>3 DEF FramesFinalize
<1>9. AnsweredIsKept'
  <2>1. \A s \in Services : Loaded(s)' <=> Loaded(s)
    BY <1>2 DEF Loaded
  <2> QED BY <1>2, <2>1 DEF LifecycleIInv, AnsweredIsKept, KeptIn
<1>10. TerminatedIsSaved' /\ TornIsOpen'
  BY <1>2, <1>5 DEF LifecycleIInv, TerminatedIsSaved, TornIsOpen, Saved
<1>11. FilesRest' /\ FileRestsOnTree' /\ TreesRest'
  BY <1>2, <1>4 DEF LifecycleIInv, FilesRest, FileRestsOnTree, TreesRest, Rest, Alive, Loaded
<1> QED BY <1>6, <1>7, <1>8, <1>9, <1>10, <1>11 DEF LifecycleIInv

LEMMA KillKeeps == ASSUME LifecycleIInv, Kill PROVE LifecycleIInv'
<1>1. /\ pc' = "killed" /\ pc' \in Ended /\ pc' \notin Serving /\ pc' \notin Loop
      /\ kills < MaxKills /\ kills' = kills + 1
      /\ answered' = {r \in answered : Durable(r)}
      /\ cut' = (cut \/ frames # <<>>)
      /\ UNCHANGED <<finalizers, inSet, watched, memory, request, needs, frames, socketClosed,
                     terminated, files, runs, signals, told>>
  BY DEF Kill, signalVars, Ended, Serving, Loop
<1>2. ~cut' => ~cut /\ frames = <<>>
  BY <1>1
<1>3. LifecycleTypeOK'
  <2>1. FlagsOK' /\ StackOK' /\ DataOK'
    BY <1>1, TypeParts DEF LifecycleIInv, FlagsOK, StackOK, DataOK
  <2>2. CountsOK'
    BY <1>1, TypeParts, LifecycleAssumption DEF LifecycleIInv, CountsOK
  <2>3. (finalizers \in Seq(Callbacks))'
    BY <1>1, TypeParts DEF LifecycleIInv
  <2> QED BY <1>1, <2>1, <2>2, <2>3, TypesAgain
<1>4. ListIsBuilt' /\ FramesFinalize' /\ WritesArePast' /\ ServingIsUnanswered' /\ EndIsQuiet'
  BY <1>1 DEF LifecycleIInv, ListIsBuilt, FramesFinalize, WritesArePast, ServingIsUnanswered,
     EndIsQuiet, Alive
<1>5. AnsweredIsKept'
  <2>1. \A s \in Services : ~Loaded(s)'
    BY <1>1 DEF Loaded
  <2> QED BY <1>1, <2>1 DEF AnsweredIsKept, KeptIn, Durable
<1>6. TerminatedIsSaved' /\ FileRestsOnTree' /\ TreesRest'
  BY <1>1 DEF TerminatedIsSaved, FileRestsOnTree, TreesRest, Alive, Serving
<1>7. TornIsOpen' /\ FilesRest'
  BY <1>1, <1>2 DEF LifecycleIInv, TornIsOpen, OpenAt, FilesRest, Rest
<1> QED BY <1>3, <1>4, <1>5, <1>6, <1>7 DEF LifecycleIInv

\* Whatever was answered is in the files when the process is gone.
LEMMA EndedIsDurable ==
    ASSUME LifecycleIInv, pc \in Ended PROVE \A r \in answered : Durable(r)
<1> SUFFICES ASSUME NEW r \in answered PROVE Durable(r)
  OBVIOUS
<1>1. PICK s \in Services : KeptIn(r, s)
  BY DEF LifecycleIInv, AnsweredIsKept
<1>2. CASE pc = "killed"
  BY <1>1, <1>2 DEF KeptIn, Loaded, Durable
<1>3. CASE pc = "exited"
  <2>1. Whole(r, memory[s])
    BY <1>1, <1>3 DEF KeptIn, Loaded
  <2>2. Saved(s)
    BY <1>3, MainFacts DEF LifecycleIInv, EndIsQuiet, TerminatedIsSaved
  <2>3. <<r, 1>> \in files[s] /\ <<r, 2>> \in files[s]
    BY <2>1, <2>2 DEF Saved, Whole
  <2> QED BY <2>2, <2>3 DEF Saved, Durable, Whole
<1> QED BY <1>2, <1>3 DEF Ended

LEMMA RestartKeeps == ASSUME LifecycleIInv, Restart PROVE LifecycleIInv'
<1>1. /\ pc \in Ended /\ runs < MaxRuns /\ runs' = runs + 1
      /\ pc' = "open" /\ pc' \in Startup /\ pc' \notin Ended /\ pc' \notin Serving
      /\ finalizers' = <<>> /\ frames' = <<>> /\ DOMAIN frames' = {}
      /\ inSet' = FALSE /\ watched' = FALSE /\ socketClosed' = FALSE /\ terminated' = FALSE
      /\ memory' = [s \in Services |-> {}] /\ signals' = 0 /\ told' = FALSE
      /\ UNCHANGED <<files, request, kills, answered, needs, cut>>
  BY DEF Restart, Alive, Startup, Ended, Serving
<1>2. LifecycleTypeOK'
  <2>1. FlagsOK'
    <3>1. cut \in BOOLEAN
      BY TypeParts DEF LifecycleIInv, FlagsOK
    <3> QED BY <1>1, <3>1 DEF FlagsOK
  <2>2. StackOK' /\ (finalizers \in Seq(Callbacks))'
    BY <1>1 DEF StackOK
  <2>3. DataOK'
    BY <1>1, TypeParts DEF LifecycleIInv, DataOK
  <2>4. CountsOK'
    BY <1>1, TypeParts, LifecycleAssumption DEF LifecycleIInv, CountsOK
  <2> QED BY <1>1, <2>1, <2>2, <2>3, <2>4, TypesAgain
<1>3. ListIsBuilt' /\ FramesFinalize' /\ ServingIsUnanswered' /\ EndIsQuiet' /\ TerminatedIsSaved'
  BY <1>1 DEF ListIsBuilt, ListAt, FramesFinalize, ServingIsUnanswered, EndIsQuiet,
     TerminatedIsSaved
<1>4. WritesArePast'
  BY <1>1 DEF LifecycleIInv, WritesArePast
<1>5. AnsweredIsKept'
  <2>1. \A s \in Services : ~Loaded(s)'
    BY <1>1 DEF Loaded
  <2>2. \A r \in answered : \E s \in Services : files[s] # Torn /\ Whole(r, files[s])
    BY <1>1, EndedIsDurable DEF Durable
  <2> QED BY <1>1, <2>1, <2>2 DEF AnsweredIsKept, KeptIn
<1>6. ~cut => frames = <<>>
  BY <1>1 DEF LifecycleIInv, EndIsQuiet, Ended
<1>7. TornIsOpen'
  <2>1. ~cut => \A s \in Services : files[s] # Torn
    BY <1>6, MainFacts DEF LifecycleIInv, TornIsOpen
  <2> QED BY <1>1, <2>1 DEF TornIsOpen
<1>8. FilesRest'
  BY <1>1, <1>6 DEF LifecycleIInv, FilesRest, Rest
<1>9. FileRestsOnTree' /\ TreesRest'
  BY <1>1, Kinds DEF FileRestsOnTree, TreesRest, Loaded
<1> QED BY <1>2, <1>3, <1>4, <1>5, <1>7, <1>8, <1>9 DEF LifecycleIInv

-----------------------------------------------------------------------------
LEMMA LifecycleIInvStep == LifecycleIInv /\ [LifecycleNext]_vars => LifecycleIInv'
<1> SUFFICES ASSUME LifecycleIInv, [LifecycleNext]_vars PROVE LifecycleIInv'
  OBVIOUS
<1>1. CASE MainStep
  <2>1. CASE frames = <<>> /\ StartupStep
    BY <2>1, AddKeeps, ReadyKeeps, LoadKeeps DEF StartupStep, Services
  <2>2. CASE frames = <<>> /\ LoopStep
    BY <2>2, CheckKeeps, WaitingKeeps, RecvKeeps, HandleKeeps, SendKeeps DEF LoopStep
  <2> QED BY <1>1, <2>1, <2>2 DEF MainStep
<1>2. CASE Datagram
  BY <1>2, WaitingKeeps DEF Datagram
<1>3. CASE Signal
  BY <1>3, SignalKeeps
<1>4. CASE HandlerStep
  BY <1>4, CallbackKeeps, OpenFileKeeps, ReturnKeeps DEF HandlerStep
<1>5. CASE Kill
  BY <1>5, KillKeeps
<1>6. CASE Restart
  BY <1>6, RestartKeeps
<1>7. CASE UNCHANGED vars
  <2>1. UNCHANGED <<pc, finalizers, frames, inSet, watched, socketClosed, terminated, memory, files,
                    request, runs, kills, signals, answered, needs, told, cut>>
    BY <1>7 DEF vars, mainVars, signalVars, historyVars
  <2>2. LifecycleTypeOK'
    BY <2>1 DEF LifecycleIInv, LifecycleTypeOK
  <2>3. ListIsBuilt' /\ WritesArePast' /\ ServingIsUnanswered' /\ EndIsQuiet'
    BY <2>1 DEF LifecycleIInv, ListIsBuilt, WritesArePast, ServingIsUnanswered, EndIsQuiet
  <2>4. FramesFinalize' /\ TerminatedIsSaved' /\ TornIsOpen'
    BY <2>1 DEF LifecycleIInv, FramesFinalize, Done, TerminatedIsSaved, Saved, TornIsOpen, OpenAt,
       Alive
  <2>5. AnsweredIsKept'
    BY <2>1 DEF LifecycleIInv, AnsweredIsKept, KeptIn, Loaded
  <2>6. FilesRest' /\ FileRestsOnTree' /\ TreesRest'
    BY <2>1 DEF LifecycleIInv, FilesRest, FileRestsOnTree, TreesRest, Rest, Alive, Loaded
  <2> QED BY <2>2, <2>3, <2>4, <2>5, <2>6 DEF LifecycleIInv
<1> QED BY <1>1, <1>2, <1>3, <1>4, <1>5, <1>6, <1>7 DEF LifecycleNext

\* The inductive invariant, for every nesting of signal handlers at every step of main.
THEOREM LifecycleInvariant == LifecycleSpec => []LifecycleIInv
<1>1. InitLifecycle => LifecycleIInv
  BY LifecycleInitIInv
<1>2. LifecycleIInv /\ [LifecycleNext]_vars => LifecycleIInv'
  BY LifecycleIInvStep
<1> QED BY <1>1, <1>2, PTL DEF LifecycleSpec

\* The stack of handlers never holds a signal twice, and no DoFinalize runs off the list
\* that main was still building when it began (Utils.cpp:16-20).
THEOREM LifecycleTypesAlways == LifecycleSpec => []LifecycleTypeOK
<1>1. LifecycleIInv => LifecycleTypeOK
  BY DEF LifecycleIInv
<1> QED BY <1>1, LifecycleInvariant, PTL

\* Every answered request is whole in its file once the process has ended by itself
\* (server/Main.cpp:33-36, 98-142), over any number of runs, kills and signals.
THEOREM AnsweredIsAlwaysSaved == LifecycleSpec => []AnsweredIsSaved
<1>1. LifecycleIInv => AnsweredIsSaved
  BY EndedIsDurable DEF AnsweredIsSaved, Ended
<1> QED BY <1>1, LifecycleInvariant, PTL

\* A stop leaves both files whole, and all they lack of the trees is the one request the
\* signal interrupted, which was not answered (server/Main.cpp:98-142).
THEOREM StopAlwaysLosesOnlyInterrupted == LifecycleSpec => []StopLosesOnlyInterrupted
<1>1. LifecycleIInv => StopLosesOnlyInterrupted
  <2> SUFFICES ASSUME LifecycleIInv, pc = "exited", NEW s \in Services PROVE Saved(s)
    BY DEF StopLosesOnlyInterrupted, Saved
  <2> QED BY MainFacts DEF LifecycleIInv, EndIsQuiet, TerminatedIsSaved
<1> QED BY <1>1, LifecycleInvariant, PTL

\* The two files agree on who exists whenever no handler runs, though they are written one
\* after the other, posts first (server/Main.cpp:82-83, Utils.cpp:18-20).
THEOREM PostsAlwaysHavePosters == LifecycleSpec => []PostsHavePosters
<1>1. LifecycleIInv => PostsHavePosters
  BY DEF LifecycleIInv, FilesRest, Rest, PostsHavePosters
<1> QED BY <1>1, LifecycleInvariant, PTL

-----------------------------------------------------------------------------
(* Social. What is proved of Account and of Post is about their own Next;  *)
(* AP and PP bring it in, and the lemmas named Same... say that a step of  *)
(* the services inside Social, which instantiates the modules without      *)
(* their proofs, is a step those proofs speak of.                          *)

AP == INSTANCE AccountProofs WITH response <- accountResponse
PP == INSTANCE PostProofs WITH response <- postResponse

\* The account service of Social starts, is asked, and ends, as the one of its proofs.
LEMMA SameInit == A!InitAccount => AP!InitAccount
BY ZenonT(40) DEF A!InitAccount, AP!InitAccount, A!InitSession, AP!InitSession, A!NoProfiles, AP!NoProfiles,
   A!NobodysFriends, AP!NobodysFriends, A!EmptyFile, AP!EmptyFile, A!NoUuid, AP!NoUuid,
   A!Uuids, AP!Uuids, A!Addressees, AP!Addressees

LEMMA SameRequest == ASSUME NEW t, A!Request(t) PROVE AP!Request(t)
BY ZenonT(40) DEF A!Request, AP!Request,
   A!handleLogout, AP!handleLogout, A!handleGetProfile, AP!handleGetProfile, 
   A!handleEditProfile, AP!handleEditProfile, A!handleSearchAccount, AP!handleSearchAccount,
   A!handleAddFriends, AP!handleAddFriends, A!handleShowFriends, AP!handleShowFriends,
   A!handleShowFriendRequests, AP!handleShowFriendRequests,
   A!AuthError, AP!AuthError, A!AnswerOnly, AP!AnswerOnly, A!Respond, AP!Respond,
   A!Authenticated, AP!Authenticated, A!IsSessionExist, AP!IsSessionExist,
   A!SessionUser, AP!SessionUser, A!RemoveSession, AP!RemoveSession, A!HasAccount, AP!HasAccount,
   A!OwnAccountStatus, AP!OwnAccountStatus, A!Edited, AP!Edited, A!Found, AP!Found,
   A!Befriend, AP!Befriend, A!Asked, AP!Asked, A!HasAsked, AP!HasAsked,
   A!EraseRequest, AP!EraseRequest, A!InsertRequest, AP!InsertRequest,
   A!Addressees, AP!Addressees, A!AddresseeExists, AP!AddresseeExists,
   A!sessionVars, AP!sessionVars, A!accountVars, AP!accountVars

LEMMA SameCredential == A!Credential => AP!Credential
BY ZenonT(40) DEF A!Credential, AP!Credential, A!handleRegister, AP!handleRegister,
   A!handleLogin, AP!handleLogin, A!PasswordCorrect, AP!PasswordCorrect, A!NameTaken, AP!NameTaken,
   A!HasAccount, AP!HasAccount, A!NewSession, AP!NewSession, A!NewProfile, AP!NewProfile,
   A!Draw, AP!Draw, A!AnswerOnly, AP!AnswerOnly, A!Respond, AP!Respond, A!NoUuid, AP!NoUuid,
   A!sessionVars, AP!sessionVars, A!accountVars, AP!accountVars

LEMMA SameRestarts ==
    /\ A!StopAndRestart => AP!StopAndRestart
    /\ A!CrashAndRestart => AP!CrashAndRestart
    /\ A!CrashInWriteAndRestart => AP!CrashInWriteAndRestart
BY ZenonT(40) DEF A!StopAndRestart, AP!StopAndRestart, A!CrashAndRestart, AP!CrashAndRestart,
   A!CrashInWriteAndRestart, AP!CrashInWriteAndRestart, A!StartFrom, AP!StartFrom,
   A!Saved, AP!Saved, A!ForgetSessions, AP!ForgetSessions, A!EmptyFile, AP!EmptyFile,
   A!NoProfiles, AP!NoProfiles, A!NobodysFriends, AP!NobodysFriends, A!NoUuid, AP!NoUuid,
   A!Uuids, AP!Uuids, A!Addressees, AP!Addressees

\* The post service likewise.
LEMMA SamePostInit == P!InitPost => PP!InitPost
BY ZenonT(40) DEF P!InitPost, PP!InitPost, P!InitSession, PP!InitSession, P!NoPosts, PP!NoPosts,
   P!NoNames, PP!NoNames, P!EmptyPostFile, PP!EmptyPostFile, P!NoUuid, PP!NoUuid,
   P!Uuids, PP!Uuids, P!PostIds, PP!PostIds

LEMMA SamePostRequest == ASSUME NEW t, P!Request(t) PROVE PP!Request(t)
BY ZenonT(40) DEF P!Request, PP!Request,
   P!handleNewPost, PP!handleNewPost, P!handleEditPostPerm, PP!handleEditPostPerm,
   P!handleGetMaxPid, PP!handleGetMaxPid, P!handleViewPost, PP!handleViewPost,
   P!handleLike, PP!handleLike, P!handleEditPost, PP!handleEditPost,
   P!handleAddComment, PP!handleAddComment, P!handleRemovePost, PP!handleRemovePost,
   P!handleViewComment, PP!handleViewComment, P!Inputs, PP!Inputs, P!UserLists, PP!UserLists,
   P!Permission, PP!Permission, P!AuthError, PP!AuthError, P!Refuse, PP!Refuse,
   P!Answer, PP!Answer, P!Respond, PP!Respond, P!NotFound, PP!NotFound, P!Denied, PP!Denied,
   P!PostExists, PP!PostExists, P!canViewPost, PP!canViewPost, P!Members, PP!Members,
   P!GrantedAfter, PP!GrantedAfter, P!NextPostId, PP!NextPostId, P!NewPost, PP!NewPost,
   P!IsPoster, PP!IsPoster, P!NextCommentId, PP!NextCommentId, P!CommentIds, PP!CommentIds,
   P!PostIds, PP!PostIds, P!NoUuid, PP!NoUuid, P!IsSessionExist, PP!IsSessionExist,
   P!SessionUser, PP!SessionUser, P!sessionVars, PP!sessionVars, P!postVars, PP!postVars

LEMMA SamePostRestarts ==
    /\ P!StopAndRestart => PP!StopAndRestart
    /\ P!CrashAndRestart => PP!CrashAndRestart
    /\ P!CrashInWriteAndRestart => PP!CrashInWriteAndRestart
BY ZenonT(40) DEF P!StopAndRestart, PP!StopAndRestart, P!CrashAndRestart, PP!CrashAndRestart,
   P!CrashInWriteAndRestart, PP!CrashInWriteAndRestart, P!StartFrom, PP!StartFrom,
   P!LastPostIdOf, PP!LastPostIdOf, P!ForgetSessions, PP!ForgetSessions, P!EmptyPostFile,
   PP!EmptyPostFile, P!NoPosts, PP!NoPosts, P!PostIds, PP!PostIds, P!NoUuid, PP!NoUuid,
   P!Uuids, PP!Uuids, P!Respond, PP!Respond

-----------------------------------------------------------------------------
\* What the two services assume of the constants, in the names their proofs use.
LEMMA ServicesAssume ==
    /\ MaxUuids \in Nat
    /\ NoSession \notin AP!SessionValue /\ NoSession \notin PP!SessionValue
    /\ NoAddr \notin Addrs
    /\ MaxAsks \in Nat /\ NoAccount \notin AP!Profile /\ EmptyString \notin Users
    /\ MaxPosts \in Nat /\ MaxComments \in Nat /\ MaxGranted \in Nat
    /\ LikeCounts \subseteq Int
    /\ \A m \in Masks : m \subseteq PP!PermissionTypes
    /\ NoComment \notin PP!Comment /\ NoPost \notin PP!PostTree
BY SessionAssumption, SocialAssumption
   DEF SessionValue, AP!SessionValue, PP!SessionValue, Uuids, AP!Uuids, PP!Uuids, A!Profile, AP!Profile,
       P!PermissionTypes, PP!PermissionTypes, P!Comment, PP!Comment, P!PostTree, PP!PostTree,
       P!CommentIds, PP!CommentIds

\* The sessions that one service knows are those the other knows.
LEMMA SessionsAreShared == AP!SessionIInv <=> PP!SessionIInv
BY DEF AP!SessionIInv, PP!SessionIInv, AP!SessionTypeOK, PP!SessionTypeOK, AP!DrawnOnly, PP!DrawnOnly,
   AP!LiveSessionsHaveAddress, PP!LiveSessionsHaveAddress, AP!IndexIsNewest, PP!IndexIsNewest,
   AP!IsSessionExist, PP!IsSessionExist, AP!GetClientAddr, PP!GetClientAddr,
   AP!GetHashByUsername, PP!GetHashByUsername, AP!SessionUser, PP!SessionUser,
   AP!SessionValue, PP!SessionValue, AP!Uuids, PP!Uuids, AP!NoUuid, PP!NoUuid

\* Each service keeps its own invariant; what ties the trees together is the property
\* itself, which speaks of memory and of the files.
ServicesIInv == AP!AccountIInv /\ PP!PostIInv

SocialIInv == ServicesIInv /\ PostersHaveAccounts

\* A server that finds neither file starts in the invariant.
LEMMA SocialInitIInv == InitSocial => SocialIInv
<1> SUFFICES ASSUME InitSocial PROVE SocialIInv
  OBVIOUS
<1>1. AP!AccountIInv
  BY SameInit, ServicesAssume, AP!AccountInitIInv DEF InitSocial
<1>2. PP!PostIInv
  BY SamePostInit, ServicesAssume, PP!PostInitIInv DEF InitSocial
<1>3. PostersHaveAccounts
  BY DEF InitSocial, PostersHaveAccounts, P!InitPost, P!NoPosts, P!EmptyPostFile, P!PostIds, P!PostExists
<1> QED BY <1>1, <1>2, <1>3 DEF SocialIInv, ServicesIInv

\* A request to one of the services is a request of its proofs; one to the post service
\* leaves the sessions and the file alone.
LEMMA AccountRequestIsOne ==
    ASSUME AccountRequest
    PROVE  AP!Credential \/ \E t \in AP!Uuids : AP!Request(t)
BY SameCredential, SameRequest DEF AccountRequest, AP!Uuids, Uuids

LEMMA PostRequestIsOne ==
    ASSUME PostRequest
    PROVE  /\ \E t \in PP!Tokens : PP!Request(t)
           /\ \E t \in PP!Uuids : PP!Request(t)
           /\ UNCHANGED <<sessionVars, postFile>>
<1>0. P!Tokens = PP!Tokens
  BY ZenonT(40) DEF P!Tokens, PP!Tokens, P!DeadTokens, PP!DeadTokens, P!IsSessionExist,
     PP!IsSessionExist, P!Uuids, PP!Uuids
<1>1. PICK t \in PP!Tokens : P!Request(t) /\ PP!Request(t)
  BY <1>0, SamePostRequest DEF PostRequest
<1>3. t \in PP!Uuids
  BY DEF PP!Tokens, PP!DeadTokens
<1>2. UNCHANGED <<sessionVars, postFile>>
  BY ZenonT(40), <1>1 DEF P!Request, P!handleNewPost, P!handleGetMaxPid, P!handleViewPost,
     P!handleLike, P!handleEditPost, P!handleEditPostPerm, P!handleRemovePost, P!handleAddComment,
     P!handleViewComment, P!AuthError, P!NotFound, P!Denied, P!Refuse, P!Answer, P!sessionVars,
     P!postVars, sessionVars
<1> QED BY <1>1, <1>2, <1>3

\* A request to one service leaves the other in its invariant.
LEMMA AccountRequestKeeps ==
    ASSUME SocialIInv, AccountRequest PROVE SocialIInv'
<1>1. AP!AccountIInv /\ PP!PostIInv /\ PostersHaveAccounts
  BY DEF SocialIInv, ServicesIInv
<1>2. AP!AccountIInv'
  BY <1>1, AccountRequestIsOne, ServicesAssume, AP!AccountStepIInv DEF AP!AccountNext
<1>3. PP!PostIInv'
  <2>1. PP!SessionIInv'
    <3>1. (AP!SessionIInv <=> PP!SessionIInv)'
      BY SessionsAreShared, PTL
    <3> QED BY <1>2, <3>1 DEF AP!AccountIInv
  <2>2. UNCHANGED PP!postVars
    BY DEF AccountRequest, postVars, PP!postVars
  <2> QED BY <1>1, <2>1, <2>2, ServicesAssume, PP!NothingChangedKeeps
<1>4. UNCHANGED accountFile /\ \A u \in Users : AP!HasAccount(u) => AP!HasAccount(u)'
  BY <1>1, AccountRequestIsOne, ServicesAssume, AP!RequestsKeepAccounts
<1>5. \A i \in P!PostIds : P!PostExists(i) => Posts[i].poster \in Users
  BY <1>1 DEF PP!PostIInv, PP!PostTypes, PP!Tree, P!PostIds, PP!PostIds, P!PostExists, PP!PostTree
<1>6. PostersHaveAccounts'
  BY <1>1, <1>4, <1>5 DEF PostersHaveAccounts, AccountRequest, postVars, P!PostExists,
     A!HasAccount, AP!HasAccount
<1> QED BY <1>2, <1>3, <1>6 DEF SocialIInv, ServicesIInv

\* A new post has the user of a live session for a poster, and he has an account.
LEMMA PostRequestKeeps ==
    ASSUME SocialIInv, PostRequest PROVE SocialIInv'
<1>1. AP!AccountIInv /\ PP!PostIInv /\ PostersHaveAccounts
  BY DEF SocialIInv, ServicesIInv
<1>2. PP!PostIInv'
  BY <1>1, PostRequestIsOne, ServicesAssume, PP!PostStepIInv DEF PP!PostNext
<1>3. AP!AccountIInv'
  <2>1. UNCHANGED <<AP!sessionVars, AP!accountVars>>
    BY PostRequestIsOne DEF PostRequest, sessionVars, accountVars, AP!sessionVars, AP!accountVars
  <2> QED BY <1>1, <2>1, ServicesAssume, AP!AnswerKeeps
<1>4. PP!Orderly
  BY <1>1, PostRequestIsOne, ServicesAssume, PP!RequestIsOrderly
<1>5. UNCHANGED <<AccountProfiles, accountFile, postFile, halfSaved>>
  BY PostRequestIsOne DEF PostRequest, accountVars
<1>6. ASSUME ~halfSaved, NEW i \in P!PostIds, P!PostExists(i)' PROVE A!HasAccount(Posts'[i].poster)
  <2>1. CASE P!PostExists(i)
    BY <1>1, <1>4, <1>6, <2>1 DEF PP!Orderly, PP!StaysHis, PostersHaveAccounts, P!PostExists,
       PP!PostExists, P!PostIds, PP!PostIds
  <2>2. CASE ~P!PostExists(i)
    <3>1. PP!PostedBySession(i)
      BY <1>4, <1>6, <2>2 DEF PP!Orderly, P!PostExists, PP!PostExists, P!PostIds, PP!PostIds
    <3>2. PICK t \in AP!Uuids : AP!IsSessionExist(t) /\ Posts'[i].poster = AP!SessionUser(t)
      BY <3>1 DEF PP!PostedBySession, PP!Uuids, AP!Uuids, PP!IsSessionExist, AP!IsSessionExist,
         PP!SessionUser, AP!SessionUser
    <3>3. AP!SessionUser(t) \in Users
      BY <1>1, <3>2, ServicesAssume, AP!SessionUserInUsers DEF AP!AccountIInv, AP!SessionIInv
    <3>4. AP!HasAccount(AP!SessionUser(t))
      BY <1>1, <3>2, <3>3 DEF AP!AccountIInv, AP!NoDanglingUsers
    <3> QED BY <3>2, <3>4 DEF A!HasAccount, AP!HasAccount
  <2> QED BY <2>1, <2>2
<1>7. PostersHaveAccounts'
  BY <1>1, <1>5, <1>6 DEF PostersHaveAccounts, A!HasAccount
<1> QED BY <1>2, <1>3, <1>7 DEF SocialIInv, ServicesIInv

\* The end of the process: both services start from what is in their files.
LEMMA EndKeeps ==
    ASSUME SocialIInv, StopServices \/ KillServices \/ KillInStop PROVE SocialIInv'
<1>1. AP!AccountIInv /\ PP!PostIInv /\ PostersHaveAccounts
  BY DEF SocialIInv, ServicesIInv
<1>2. /\ A!StopAndRestart \/ A!CrashAndRestart \/ A!CrashInWriteAndRestart
      /\ P!StopAndRestart \/ P!CrashAndRestart \/ P!CrashInWriteAndRestart
  BY DEF StopServices, SaveBoth, KillServices, KillInStop
<1>3. AP!AccountIInv'
  BY <1>1, <1>2, SameRestarts, ServicesAssume, AP!AccountStepIInv DEF AP!AccountNext
<1>4. PP!PostIInv'
  BY <1>1, <1>2, SamePostRestarts, ServicesAssume, PP!PostStepIInv DEF PP!PostNext
<1> USE DEF P!StartFrom, A!StartFrom, P!PostExists, A!HasAccount, PostersHaveAccounts
<1>5. CASE StopServices
  BY <1>1, <1>3, <1>4, <1>5 DEF SocialIInv, ServicesIInv, StopServices, SaveBoth,
     P!StopAndRestart, A!StopAndRestart, A!Saved
<1>6. CASE KillServices
  BY <1>1, <1>3, <1>4, <1>6 DEF SocialIInv, ServicesIInv, KillServices,
     P!CrashAndRestart, A!CrashAndRestart
<1>7. CASE KillInStop
  <2>1. CASE halfSaved' = TRUE
    BY <1>3, <1>4, <2>1 DEF SocialIInv, ServicesIInv
  <2>2. CASE P!CrashInWriteAndRestart
    BY <1>3, <1>4, <2>2 DEF SocialIInv, ServicesIInv, P!CrashInWriteAndRestart, P!EmptyPostFile,
       P!NoPosts, P!PostIds
  <2> QED BY <1>7, <2>1, <2>2 DEF KillInStop
<1> QED BY <1>5, <1>6, <1>7

\* Every step of the server keeps the invariant.
LEMMA SocialStepIInv == SocialIInv /\ [SocialNext]_socialVars => SocialIInv'
<1> SUFFICES ASSUME SocialIInv, [SocialNext]_socialVars PROVE SocialIInv'
  OBVIOUS
<1>1. CASE UNCHANGED socialVars
  <2>1. AP!AccountIInv /\ PP!PostIInv /\ PostersHaveAccounts
    BY DEF SocialIInv, ServicesIInv
  <2>2. AP!AccountIInv'
    <3>1. UNCHANGED AP!vars
      BY <1>1 DEF socialVars, sessionVars, accountVars, AP!vars, AP!sessionVars, AP!accountVars
    <3> QED BY <2>1, <3>1, ServicesAssume, AP!AccountStepIInv
  <2>3. PP!PostIInv'
    <3>1. UNCHANGED PP!vars
      BY <1>1 DEF socialVars, sessionVars, postVars, PP!vars, PP!sessionVars, PP!postVars
    <3> QED BY <2>1, <3>1, ServicesAssume, PP!PostStepIInv
  <2>4. PostersHaveAccounts'
    BY <1>1, <2>1 DEF socialVars, accountVars, postVars, PostersHaveAccounts, P!PostExists, A!HasAccount
  <2> QED BY <2>2, <2>3, <2>4 DEF SocialIInv, ServicesIInv
<1> QED BY <1>1, AccountRequestKeeps, PostRequestKeeps, EndKeeps DEF SocialNext

\* The inductive invariant, over any requests, stops, kills and stops cut short.
LEMMA SocialIInvAlways == SocialSpec => []SocialIInv
BY SocialInitIInv, SocialStepIInv, PTL DEF SocialSpec

\* Nobody can register the name of a poster and take his posts over, through any number of
\* restarts, unless a stop was cut short between the two files (Post.cpp:101,
\* server/Main.cpp:82-83, Utils.cpp:18-20).
THEOREM PostersAlwaysHaveAccounts == SocialSpec => []PostersHaveAccounts
<1>1. SocialIInv => PostersHaveAccounts
  BY DEF SocialIInv
<1> QED BY SocialIInvAlways, <1>1, PTL

\* Requests of the post service and the end of the process.
LEMMA SocialStepIsOrderly ==
    ASSUME SocialIInv, [SocialNext]_socialVars, postResponse'.op # "restart"
    PROVE  PP!Orderly
<1>1. CASE UNCHANGED Posts
  BY <1>1, ServicesAssume, PP!UnchangedIsOrderly
<1>2. CASE PostRequest
  BY <1>2, PostRequestIsOne, ServicesAssume, PP!RequestIsOrderly DEF SocialIInv, ServicesIInv
<1>3. ASSUME StopServices \/ KillServices \/ KillInStop PROVE FALSE
  <2>1. P!StopAndRestart \/ P!CrashAndRestart \/ P!CrashInWriteAndRestart
    BY <1>3 DEF StopServices, SaveBoth, KillServices, KillInStop
  <2> QED BY <2>1 DEF P!StopAndRestart, P!CrashAndRestart, P!CrashInWriteAndRestart, P!StartFrom,
          P!Respond
<1> QED BY <1>1, <1>2, <1>3 DEF SocialNext, AccountRequest, postVars, socialVars

\* A comment keeps its number and its text while the process runs, whatever is asked of the
\* account service in between (Post.cpp:431-481).
THEOREM CommentsStayInServer == SocialSpec => CommentsStay
<1>1. SocialIInv /\ [SocialNext]_socialVars =>
        [postResponse'.op # "restart" =>
           \A i \in P!PostIds, k \in P!CommentIds :
              (P!PostExists(i) /\ P!PostExists(i)' /\ Posts[i].comments[k] # NoComment) =>
                 Posts'[i].comments[k] = Posts[i].comments[k]]_(P!vars)
  BY SocialStepIsOrderly DEF PP!Orderly, PP!KeepsComments, P!PostIds, PP!PostIds,
     P!CommentIds, PP!CommentIds, P!PostExists, PP!PostExists
<1> QED BY SocialIInvAlways, <1>1, PTL DEF SocialSpec, CommentsStay, P!CommentsStay

\* Seen from the accounts, the whole server is an account service: a request for a post is a
\* stuttering step, and the end of the process is one of the ways Account knows. So all that
\* holds of every behaviour of Account holds of the server.
THEOREM SocialImplementsAccount == SocialSpec => A!AccountSpec
<1>1. [SocialNext]_socialVars => [A!AccountNext]_(A!vars)
  <2> SUFFICES ASSUME [SocialNext]_socialVars PROVE [A!AccountNext]_(A!vars)
    OBVIOUS
  <2>1. CASE PostRequest \/ UNCHANGED socialVars
    BY <2>1, PostRequestIsOne DEF PostRequest, socialVars, sessionVars, accountVars,
       A!vars, A!sessionVars, A!accountVars
  <2>2. CASE AccountRequest
    BY <2>2 DEF AccountRequest, A!AccountNext, A!Uuids, Uuids
  <2>3. CASE StopServices \/ KillServices \/ KillInStop
    BY <2>3 DEF StopServices, SaveBoth, KillServices, KillInStop, A!AccountNext
  <2> QED BY <2>1, <2>2, <2>3 DEF SocialNext
<1> QED BY <1>1, PTL DEF SocialSpec, InitSocial, A!AccountSpec

\* The account service of Social behaves as the one of its proofs.
LEMMA SameAccount == A!AccountSpec => AP!AccountSpec
<1>1. [A!AccountNext]_(A!vars) => [AP!AccountNext]_(AP!vars)
  <2> SUFFICES ASSUME [A!AccountNext]_(A!vars) PROVE [AP!AccountNext]_(AP!vars)
    OBVIOUS
  <2>1. CASE UNCHANGED A!vars
    BY <2>1 DEF A!vars, A!sessionVars, A!accountVars, AP!vars, AP!sessionVars, AP!accountVars
  <2>2. CASE \E t \in A!Uuids : A!Request(t)
    BY <2>2, SameRequest DEF A!Uuids, AP!Uuids, AP!AccountNext
  <2>3. CASE \E op \in A!Ops : A!PayloadInvalid(op)
    BY <2>3 DEF A!Ops, AP!Ops, A!PayloadInvalid, AP!PayloadInvalid, A!AnswerOnly, AP!AnswerOnly,
       A!Respond, AP!Respond, A!NoUuid, AP!NoUuid, A!sessionVars, AP!sessionVars,
       A!accountVars, AP!accountVars, AP!AccountNext
  <2>4. CASE A!Credential \/ A!StopAndRestart \/ A!CrashAndRestart \/ A!CrashInWriteAndRestart
    BY <2>4, SameCredential, SameRestarts DEF AP!AccountNext
  <2> QED BY <2>1, <2>2, <2>3, <2>4 DEF A!AccountNext
<1> QED BY <1>1, SameInit, PTL DEF A!AccountSpec, AP!AccountSpec

\* A dead token stays dead, and a live one never changes hands, in the server as a whole:
\* no post route and no end of the process brings a session back (Session.cpp:30-44, 58-68).
THEOREM DeadStaysDeadInServer == SocialSpec => DeadStaysDead
<1>1. AP!DeadStaysDead => DeadStaysDead
  <2>1. [\A t \in AP!Uuids :
           /\ (t <= drawn /\ ~AP!IsSessionExist(t)) => ~AP!IsSessionExist(t)'
           /\ (AP!IsSessionExist(t) /\ AP!IsSessionExist(t)') =>
                 SessionValueMap'[t] = SessionValueMap[t]]_(AP!sessionVars)
        => [\A t \in Uuids :
              /\ (t <= drawn /\ ~IsSessionExist(t)) => ~IsSessionExist(t)'
              /\ (IsSessionExist(t) /\ IsSessionExist(t)') =>
                    SessionValueMap'[t] = SessionValueMap[t]]_sessionVars
    BY DEF AP!Uuids, Uuids, AP!IsSessionExist, IsSessionExist, AP!sessionVars, sessionVars
  <2> QED BY <2>1, PTL DEF AP!DeadStaysDead, DeadStaysDead
<1> QED BY <1>1, SocialImplementsAccount, SameAccount, ServicesAssume, AP!AccountDeadStaysDead, PTL

\* No request, of either service, changes the password of an account or opens a session
\* without it (Account.cpp:59-88, 106-127, 257-273).
THEOREM PasswordsInServer ==
    SocialSpec => A!NameKeepsPassword /\ A!SessionNeedsPassword
<1>1. AP!NameKeepsPassword => A!NameKeepsPassword
  <2>1. [\A u \in Users : AP!HasAccount(u) /\ AP!HasAccount(u)' =>
           AccountProfiles'[u].password = AccountProfiles[u].password]_(AP!vars)
        => [\A u \in Users : A!HasAccount(u) /\ A!HasAccount(u)' =>
              AccountProfiles'[u].password = AccountProfiles[u].password]_(A!vars)
    BY DEF AP!HasAccount, A!HasAccount, AP!vars, A!vars, AP!sessionVars, A!sessionVars,
       AP!accountVars, A!accountVars
  <2> QED BY <2>1, PTL DEF AP!NameKeepsPassword, A!NameKeepsPassword
<1>2. AP!SessionNeedsPassword => A!SessionNeedsPassword
  <2>1. [\A t \in AP!Uuids : (~AP!IsSessionExist(t) /\ AP!IsSessionExist(t)') =>
           /\ accountResponse'.arg # EmptyString
           /\ accountResponse'.arg =
                AccountProfiles'[SessionValueMap'[t].username].password]_(AP!vars)
        => [\A t \in A!Uuids : (~A!IsSessionExist(t) /\ A!IsSessionExist(t)') =>
              /\ accountResponse'.arg # EmptyString
              /\ accountResponse'.arg =
                   AccountProfiles'[SessionValueMap'[t].username].password]_(A!vars)
    BY DEF AP!Uuids, A!Uuids, AP!IsSessionExist, A!IsSessionExist, AP!vars, A!vars,
       AP!sessionVars, A!sessionVars, AP!accountVars, A!accountVars
  <2> QED BY <2>1, PTL DEF AP!SessionNeedsPassword, A!SessionNeedsPassword
<1>3. AP!AccountSpec => AP!NameKeepsPassword
  BY ServicesAssume, AP!NamesKeepPasswords
<1>4. AP!AccountSpec => AP!SessionNeedsPassword
  BY ServicesAssume, AP!SessionsNeedPasswords
<1> QED BY <1>1, <1>2, <1>3, <1>4, SocialImplementsAccount, SameAccount, PTL

\* What the account service keeps by itself it keeps beside the post service: no
\* friendship with one side, nobody named without an account, no file that memory
\* contradicts (Account.cpp:382-399, 544-553).
THEOREM AccountsInServer ==
    SocialSpec => [](A!FriendshipSymmetric /\ A!NoDanglingUsers /\ A!FileIsPast)
<1>1. SocialIInv => A!FriendshipSymmetric /\ A!NoDanglingUsers /\ A!FileIsPast
  BY DEF SocialIInv, ServicesIInv, AP!AccountIInv, A!FriendshipSymmetric, AP!FriendshipSymmetric,
     A!NoDanglingUsers, AP!NoDanglingUsers, A!FileIsPast, AP!FileIsPast, A!HasAccount, AP!HasAccount,
     A!IsSessionExist, AP!IsSessionExist, A!SessionUser, AP!SessionUser, A!Uuids, AP!Uuids
<1> QED BY SocialIInvAlways, <1>1, PTL

\* The post service likewise: a number names one post of one poster, and while the
\* process runs only a session of the poster takes it away or changes its text
\* (Post.cpp:107-109, 316-321, 405-413).
THEOREM PostsInServer == SocialSpec => []P!IdNamesOnePost /\ P!OnlyPosterChanges
<1>1. SocialIInv => P!IdNamesOnePost
  BY DEF SocialIInv, ServicesIInv, PP!PostIInv, P!IdNamesOnePost, PP!IdNamesOnePost,
     P!PostExists, PP!PostExists, P!PostIds, PP!PostIds
<1>2. SocialIInv /\ [SocialNext]_socialVars =>
        [postResponse'.op # "restart" =>
           \A i \in P!PostIds : P!PostExists(i) =>
              \/ /\ P!PostExists(i)'
                 /\ Posts'[i].poster = Posts[i].poster
                 /\ Posts'[i].content = Posts[i].content
              \/ /\ P!SessionUser(postResponse'.session) = Posts[i].poster
                 /\ P!PostExists(i)' => Posts'[i].poster = Posts[i].poster]_(P!vars)
  BY SocialStepIsOrderly DEF PP!Orderly, PP!StaysHis, P!PostIds, PP!PostIds,
     P!PostExists, PP!PostExists, P!SessionUser, PP!SessionUser
<1> QED BY SocialIInvAlways, <1>1, <1>2, PTL DEF SocialSpec, P!OnlyPosterChanges

-----------------------------------------------------------------------------
(* Router.                                                                 *)

\* What a path is written with.
Chars == Names \cup {"/"}
Routes == Seq(Names) \ {<<>>}

\* What is registered is in the tree, and only that.
Registered ==
    \A r \in Routers : \A segs \in DOMAIN routes[r] :
        /\ JoinPath(segs) \in DOMAIN callback_tree[r]
        /\ callback_tree[r][JoinPath(segs)] = routes[r][segs]

HandlersRegistered ==
    \A r \in Routers : \A p \in DOMAIN callback_tree[r] :
        callback_tree[r][p] \in Handlers => \E segs \in DOMAIN routes[r] : p = JoinPath(segs)

\* A node is the root or that of some segments.
Joined(tree) == \A p \in DOMAIN tree : p = <<>> \/ \E t \in Routes : p = JoinPath(t)

RouterIInv ==
    /\ RouterTypeOK /\ Registered /\ HandlersRegistered
    /\ \A r \in Routers : Joined(callback_tree[r])

-----------------------------------------------------------------------------
(* Paths.                                                                  *)

\* A set of numbers has a least one, and a largest one if it is bounded.
LEMMA LeastOf == ASSUME NEW T \in SUBSET Nat, T # {} PROVE \E x \in T : \A y \in T : x <= y
<1>1. \E x \in T : \A y \in T : ~ (<<y, x>> \in OpToRel(<, Nat))
  BY WFMin, NatLessThanWellFounded
<1>2. \A x, y \in Nat : ~ (<<y, x>> \in OpToRel(<, Nat)) => x <= y
  BY DEF OpToRel
<1> QED BY <1>1, <1>2

LEMMA LargestOf ==
    ASSUME NEW n \in Nat, NEW T \in SUBSET (0 .. n), T # {} PROVE \E x \in T : \A y \in T : y <= x
<1> DEFINE U == {n - x : x \in T}
<1>0. \A x \in T : n - x \in Nat
  OBVIOUS
<1>1. U \in SUBSET Nat /\ U # {}
  <2>1. U \subseteq Nat
    BY <1>0, Zenon
  <2>2. PICK x \in T : TRUE
    OBVIOUS
  <2>3. n - x \in U
    BY <2>2, Zenon
  <2> QED BY <2>1, <2>3
<1>2. PICK u \in U : \A v \in U : u <= v
  BY <1>1, LeastOf
<1>3. PICK x \in T : u = n - x
  BY <1>2
<1>4. \A y \in T : n - x <= n - y
  BY <1>2, <1>3
<1> QED BY <1>3, <1>4

\* Segments stand at the odd places of a path, slashes at the even ones.
LEMMA JoinAt ==
    ASSUME NEW s \in Routes
    PROVE  /\ JoinPath(s) \in Seq(Chars) /\ Len(s) \in Nat \ {0}
           /\ Len(JoinPath(s)) = 2 * Len(s) - 1 /\ DOMAIN JoinPath(s) = 1 .. 2 * Len(s) - 1
           /\ \A k \in 1 .. Len(s) : JoinPath(s)[2 * k - 1] = s[k] /\ s[k] \in Names /\ s[k] # "/"
           /\ \A k \in 1 .. Len(s) - 1 : JoinPath(s)[2 * k] = "/"
<1>1. s \in Seq(Names) /\ Len(s) \in Nat \ {0} /\ \A k \in 1 .. Len(s) : s[k] \in Names
  BY DEF Routes
<1>2. \A i \in 1 .. 2 * Len(s) - 1 : i % 2 = 1 => (i + 1) \div 2 \in 1 .. Len(s)
  BY <1>1
<1>3. \A i \in 1 .. 2 * Len(s) - 1 : (IF i % 2 = 1 THEN s[(i + 1) \div 2] ELSE "/") \in Chars
  BY <1>1, <1>2 DEF Chars
<1>4. 2 * Len(s) - 1 \in Nat
  BY <1>1
<1>5. JoinPath(s) \in [1 .. 2 * Len(s) - 1 -> Chars]
  BY <1>3 DEF JoinPath
<1>6. JoinPath(s) \in Seq(Chars) /\ Len(JoinPath(s)) = 2 * Len(s) - 1
      /\ DOMAIN JoinPath(s) = 1 .. 2 * Len(s) - 1
  BY <1>4, <1>5
<1>7. ASSUME NEW k \in 1 .. Len(s) PROVE JoinPath(s)[2 * k - 1] = s[k] /\ s[k] \in Names /\ s[k] # "/"
  <2>1. 2 * k - 1 \in 1 .. 2 * Len(s) - 1 /\ (2 * k - 1) % 2 = 1 /\ ((2 * k - 1) + 1) \div 2 = k
    BY <1>1
  <2>2. JoinPath(s)[2 * k - 1] = s[k]
    BY <2>1 DEF JoinPath
  <2> QED BY <1>1, <2>2, RouterAssumption
<1>8. ASSUME NEW k \in 1 .. Len(s) - 1 PROVE JoinPath(s)[2 * k] = "/"
  <2>1. 2 * k \in 1 .. 2 * Len(s) - 1 /\ (2 * k) % 2 # 1
    BY <1>1
  <2> QED BY <2>1 DEF JoinPath
<1> QED BY <1>1, <1>6, <1>7, <1>8

\* Different segments make different paths.
LEMMA JoinInjective ==
    ASSUME NEW s \in Routes, NEW t \in Routes, JoinPath(s) = JoinPath(t) PROVE s = t
<1>1. Len(s) = Len(t)
  BY JoinAt
<1>2. ASSUME NEW k \in 1 .. Len(s) PROVE s[k] = t[k]
  <2>1. JoinPath(s)[2 * k - 1] = s[k]
    BY JoinAt
  <2>2. JoinPath(t)[2 * k - 1] = t[k]
    BY <1>1, JoinAt
  <2> QED BY <2>1, <2>2
<1>3. s \in Seq(Names) /\ t \in Seq(Names)
  BY DEF Routes
<1> QED BY <1>1, <1>2, <1>3, SeqEqual

\* A place is that of a segment or of a slash.
LEMMA OddOrEven ==
    ASSUME NEW n \in Nat, NEW i \in 1 .. 2 * n - 1
    PROVE  (\E k \in 1 .. n : i = 2 * k - 1) \/ (\E k \in 1 .. n - 1 : i = 2 * k)
<1>1. CASE i % 2 = 1
  <2>1. (i + 1) \div 2 \in 1 .. n /\ i = 2 * ((i + 1) \div 2) - 1
    BY <1>1
  <2> QED BY <2>1
<1>2. CASE i % 2 # 1
  <2>1. i \div 2 \in 1 .. n - 1 /\ i = 2 * (i \div 2)
    BY <1>2
  <2> QED BY <2>1
<1> QED BY <1>1, <1>2

\* The places in two and in three sequences that are put together.
LEMMA TwoParts ==
    ASSUME NEW C, NEW x \in Seq(C), NEW y \in Seq(C), NEW u, u = x \o y
    PROVE  /\ u \in Seq(C) /\ Len(u) = Len(x) + Len(y)
           /\ \A i \in 1 .. Len(x) : u[i] = x[i]
           /\ \A i \in 1 .. Len(y) : u[Len(x) + i] = y[i]
OBVIOUS

LEMMA ThreeParts ==
    ASSUME NEW C, NEW x \in Seq(C), NEW y \in Seq(C), NEW z \in Seq(C), NEW u, u = x \o y \o z
    PROVE  /\ u \in Seq(C) /\ Len(u) = Len(x) + Len(y) + Len(z)
           /\ \A i \in 1 .. Len(x) : u[i] = x[i]
           /\ \A i \in 1 .. Len(y) : u[Len(x) + i] = y[i]
           /\ \A i \in 1 .. Len(z) : u[Len(x) + Len(y) + i] = z[i]
<1>1. PICK v : v = x \o y
  OBVIOUS
<1>2. /\ v \in Seq(C) /\ Len(v) = Len(x) + Len(y)
      /\ \A i \in 1 .. Len(x) : v[i] = x[i]
      /\ \A i \in 1 .. Len(y) : v[Len(x) + i] = y[i]
  BY <1>1, TwoParts
<1>3. u = v \o z
  BY <1>1
<1>4. /\ u \in Seq(C) /\ Len(u) = Len(v) + Len(z)
      /\ \A i \in 1 .. Len(v) : u[i] = v[i]
      /\ \A i \in 1 .. Len(z) : u[Len(v) + i] = z[i]
  <2>1. PICK w \in Seq(C) : w = v
    BY <1>2
  <2>2. u = w \o z
    BY <1>3, <2>1
  <2>3. /\ u \in Seq(C) /\ Len(u) = Len(w) + Len(z)
        /\ \A i \in 1 .. Len(w) : u[i] = w[i]
        /\ \A i \in 1 .. Len(z) : u[Len(w) + i] = z[i]
    BY <2>2, TwoParts
  <2> QED BY <2>1, <2>3
<1>5. Len(x) \in Nat /\ Len(y) \in Nat
  OBVIOUS
<1>6. \A i \in 1 .. Len(x) : i \in 1 .. Len(v)
  BY <1>2, <1>5
<1>7. \A i \in 1 .. Len(y) : Len(x) + i \in 1 .. Len(v)
  BY <1>2, <1>5
<1>8. \A i \in 1 .. Len(x) : u[i] = x[i]
  BY <1>2, <1>4, <1>6
<1>9. \A i \in 1 .. Len(y) : u[Len(x) + i] = y[i]
  BY <1>2, <1>4, <1>7
<1> QED BY <1>2, <1>4, <1>8, <1>9

\* Appending segments puts their path below.
LEMMA JoinUnder ==
    ASSUME NEW s \in Routes, NEW q \in Routes
    PROVE  s \o q \in Routes /\ JoinPath(s \o q) = Under(JoinPath(s), JoinPath(q))
<1>0. PICK u : u = JoinPath(s) \o <<"/">> \o JoinPath(q)
  OBVIOUS
<1>1. s \in Seq(Names) /\ q \in Seq(Names) /\ Len(s) \in Nat \ {0} /\ Len(q) \in Nat \ {0}
  BY DEF Routes
<1>2. /\ s \o q \in Seq(Names) /\ Len(s \o q) = Len(s) + Len(q)
      /\ \A k \in 1 .. Len(s) : (s \o q)[k] = s[k]
      /\ \A k \in 1 .. Len(q) : (s \o q)[Len(s) + k] = q[k]
  BY <1>1
<1>3. s \o q \in Routes
  BY <1>1, <1>2 DEF Routes
<1>4. /\ JoinPath(s) \in Seq(Chars) /\ Len(JoinPath(s)) = 2 * Len(s) - 1
      /\ JoinPath(q) \in Seq(Chars) /\ Len(JoinPath(q)) = 2 * Len(q) - 1
  BY JoinAt
<1>6. /\ u \in Seq(Chars) /\ Len(u) = 2 * (Len(s) + Len(q)) - 1
      /\ \A i \in 1 .. 2 * Len(s) - 1 : u[i] = JoinPath(s)[i]
      /\ u[2 * Len(s)] = "/"
      /\ \A i \in 1 .. 2 * Len(q) - 1 : u[2 * Len(s) + i] = JoinPath(q)[i]
  <2>1. <<"/">> \in Seq(Chars) /\ Len(<<"/">>) = 1 /\ <<"/">>[1] = "/"
    BY DEF Chars
  <2>2. /\ u \in Seq(Chars) /\ Len(u) = Len(JoinPath(s)) + 1 + Len(JoinPath(q))
        /\ \A i \in 1 .. Len(JoinPath(s)) : u[i] = JoinPath(s)[i]
        /\ u[Len(JoinPath(s)) + 1] = "/"
        /\ \A i \in 1 .. Len(JoinPath(q)) : u[Len(JoinPath(s)) + 1 + i] = JoinPath(q)[i]
    <3>1. PICK a, c, h \in Seq(Chars) : a = JoinPath(s) /\ c = JoinPath(q) /\ h = <<"/">>
      BY <1>4, <2>1
    <3>2. u = a \o h \o c
      BY <1>0, <3>1
    <3>3. /\ u \in Seq(Chars) /\ Len(u) = Len(a) + Len(h) + Len(c)
          /\ \A i \in 1 .. Len(a) : u[i] = a[i]
          /\ \A i \in 1 .. Len(h) : u[Len(a) + i] = h[i]
          /\ \A i \in 1 .. Len(c) : u[Len(a) + Len(h) + i] = c[i]
      BY <3>2, ThreeParts
    <3> QED BY <2>1, <3>1, <3>3
  <2>3. (2 * Len(s) - 1) + 1 = 2 * Len(s) /\ 2 * Len(s) + (2 * Len(q) - 1) = 2 * (Len(s) + Len(q)) - 1
    BY <1>1
  <2> QED BY <1>4, <2>2, <2>3
<1>7. ASSUME NEW k \in 1 .. Len(s \o q) PROVE JoinPath(s \o q)[2 * k - 1] = u[2 * k - 1]
  <2>1. JoinPath(s \o q)[2 * k - 1] = (s \o q)[k]
    BY <1>3, JoinAt
  <2>2. CASE k <= Len(s)
    <3>1. 2 * k - 1 \in 1 .. 2 * Len(s) - 1 /\ k \in 1 .. Len(s)
      BY <1>1, <2>2
    <3> QED BY <1>2, <1>6, <2>1, <3>1, JoinAt
  <2>3. CASE k > Len(s)
    <3>1. PICK j \in 1 .. Len(q) : k = Len(s) + j
      <4>1. k - Len(s) \in 1 .. Len(q) /\ k = Len(s) + (k - Len(s))
        BY <1>1, <1>2, <2>3
      <4> QED BY <4>1
    <3>2. 2 * j - 1 \in 1 .. 2 * Len(q) - 1 /\ 2 * k - 1 = 2 * Len(s) + (2 * j - 1)
      BY <1>1, <3>1
    <3>3. u[2 * k - 1] = q[j]
      <4>1. JoinPath(q)[2 * j - 1] = q[j]
        BY JoinAt
      <4> QED BY <1>6, <3>2, <4>1
    <3> QED BY <1>2, <2>1, <3>1, <3>3
  <2> QED BY <1>1, <2>2, <2>3
<1>8. ASSUME NEW k \in 1 .. Len(s \o q) - 1 PROVE JoinPath(s \o q)[2 * k] = u[2 * k]
  <2>1. JoinPath(s \o q)[2 * k] = "/"
    BY <1>3, JoinAt
  <2>2. CASE k < Len(s)
    <3>1. 2 * k \in 1 .. 2 * Len(s) - 1 /\ k \in 1 .. Len(s) - 1
      BY <1>1, <2>2
    <3> QED BY <1>6, <2>1, <3>1, JoinAt
  <2>3. CASE k = Len(s)
    BY <1>6, <2>1, <2>3
  <2>4. CASE k > Len(s)
    <3>1. PICK j \in 1 .. Len(q) - 1 : k = Len(s) + j
      <4>1. k - Len(s) \in 1 .. Len(q) - 1 /\ k = Len(s) + (k - Len(s))
        BY <1>1, <1>2, <2>4
      <4> QED BY <4>1
    <3>2. 2 * j \in 1 .. 2 * Len(q) - 1 /\ 2 * k = 2 * Len(s) + 2 * j
      BY <1>1, <3>1
    <3>3. JoinPath(q)[2 * j] = "/"
      BY JoinAt
    <3> QED BY <1>6, <2>1, <3>2, <3>3
  <2> QED BY <1>1, <2>2, <2>3, <2>4
<1>9. JoinPath(s \o q) \in Seq(Chars) /\ Len(JoinPath(s \o q)) = 2 * Len(s \o q) - 1
  BY <1>3, JoinAt
<1>10. \A i \in 1 .. Len(u) : JoinPath(s \o q)[i] = u[i]
  <2> SUFFICES ASSUME NEW i \in 1 .. Len(u) PROVE JoinPath(s \o q)[i] = u[i]
    OBVIOUS
  <2>1. i \in 1 .. 2 * Len(s \o q) - 1 /\ Len(s \o q) \in Nat
    BY <1>1, <1>2, <1>6
  <2> QED BY <1>7, <1>8, <2>1, OddOrEven
<1>11. JoinPath(s \o q) = u
  BY <1>2, <1>6, <1>9, <1>10, SeqEqual
<1>12. JoinPath(q) # <<>>
  BY <1>1, <1>4
<1> QED BY <1>0, <1>3, <1>11, <1>12 DEF Under

\* A prefix, place by place.
LEMMA PrefixAt ==
    ASSUME NEW C, NEW s \in Seq(C), NEW t \in Seq(C)
    PROVE  IsPrefix(s, t) <=> Len(s) <= Len(t) /\ \A k \in 1 .. Len(s) : s[k] = t[k]
<1>1. Len(s) \in Nat /\ Len(t) \in Nat
  OBVIOUS
<1>2. ASSUME Len(s) <= Len(t)
      PROVE  SubSeq(s, 1, Len(s)) = SubSeq(t, 1, Len(s)) <=> \A k \in 1 .. Len(s) : s[k] = t[k]
  <2>1. PICK x, y : x = SubSeq(s, 1, Len(s)) /\ y = SubSeq(t, 1, Len(s))
    OBVIOUS
  <2>2. x \in Seq(C) /\ Len(x) = Len(s) /\ \A k \in 1 .. Len(s) : x[k] = s[k]
    BY <1>1, <2>1
  <2>3. y \in Seq(C) /\ Len(y) = Len(s) /\ \A k \in 1 .. Len(s) : y[k] = t[k]
    BY <1>1, <1>2, <2>1
  <2>4. (\A k \in 1 .. Len(s) : s[k] = t[k]) => x = y
    BY <2>2, <2>3, SeqEqual
  <2> QED BY <2>1, <2>2, <2>3, <2>4
<1> QED BY <1>2 DEF IsPrefix

\* What is below a path in the tree are the paths with more segments.
LEMMA BelowIsPrefix ==
    ASSUME NEW s \in Routes, NEW t \in Routes
    PROVE  Below(JoinPath(s), JoinPath(t)) <=> IsPrefix(s, t)
<1>1. s \in Seq(Names) /\ t \in Seq(Names) /\ Len(s) \in Nat \ {0} /\ Len(t) \in Nat \ {0}
  BY DEF Routes
<1>2. PICK a, b \in Seq(Chars) : a = JoinPath(s) /\ b = JoinPath(t)
  BY JoinAt
<1>3. PICK c : c = Append(a, "/")
  OBVIOUS
<1>4. "/" \in Chars
  BY DEF Chars
<1>5. Len(a) = 2 * Len(s) - 1 /\ Len(b) = 2 * Len(t) - 1
  BY <1>2, JoinAt
<1>6. /\ c \in Seq(Chars) /\ Len(c) = 2 * Len(s) /\ c[2 * Len(s)] = "/"
      /\ \A i \in 1 .. 2 * Len(s) - 1 : c[i] = a[i]
  BY <1>1, <1>3, <1>4, <1>5
<1>7. IsPrefix(s, t) <=> Len(s) <= Len(t) /\ \A k \in 1 .. Len(s) : s[k] = t[k]
  BY <1>1, PrefixAt
<1>8. IsPrefix(c, b) <=> Len(c) <= Len(b) /\ \A k \in 1 .. Len(c) : c[k] = b[k]
  <2>1. c \in Seq(Chars)
    BY <1>6
  <2> QED BY <2>1, PrefixAt
<1>9. Below(a, b) <=> b = a \/ IsPrefix(c, b)
  BY <1>3 DEF Below
<1>10. b = a => s = t
  BY <1>2, JoinInjective
<1>11. ASSUME IsPrefix(c, b) PROVE IsPrefix(s, t)
  <2>1. 2 * Len(s) <= 2 * Len(t) - 1 /\ \A i \in 1 .. 2 * Len(s) - 1 : a[i] = b[i]
    BY <1>1, <1>5, <1>6, <1>8, <1>11
  <2>2. ASSUME NEW k \in 1 .. Len(s) PROVE s[k] = t[k]
    <3>1. 2 * k - 1 \in 1 .. 2 * Len(s) - 1 /\ k \in 1 .. Len(t)
      BY <1>1, <2>1
    <3> QED BY <1>2, <2>1, <3>1, JoinAt
  <2> QED BY <1>1, <1>7, <2>1, <2>2
<1>12. ASSUME IsPrefix(s, t), s # t PROVE IsPrefix(c, b)
  <2>1. Len(s) < Len(t)
    BY <1>1, <1>7, <1>12, SeqEqual
  <2>2. ASSUME NEW k \in 1 .. Len(s) PROVE c[2 * k - 1] = b[2 * k - 1]
    <3>1. 2 * k - 1 \in 1 .. 2 * Len(s) - 1 /\ k \in 1 .. Len(t)
      BY <1>1, <2>1
    <3>2. a[2 * k - 1] = s[k]
      BY <1>2, JoinAt
    <3>3. b[2 * k - 1] = t[k]
      BY <1>2, <3>1, JoinAt
    <3>4. s[k] = t[k] /\ c[2 * k - 1] = a[2 * k - 1]
      BY <1>6, <1>7, <1>12, <3>1
    <3> QED BY <3>2, <3>3, <3>4
  <2>3. ASSUME NEW k \in 1 .. Len(s) PROVE c[2 * k] = b[2 * k]
    <3>1. k \in 1 .. Len(t) - 1 /\ (k \in 1 .. Len(s) - 1 \/ k = Len(s))
      BY <1>1, <2>1
    <3>2. b[2 * k] = "/"
      BY <1>2, <3>1, JoinAt
    <3>3. k \in 1 .. Len(s) - 1 => 2 * k \in 1 .. 2 * Len(s) - 1
      BY <1>1
    <3>4. k \in 1 .. Len(s) - 1 => a[2 * k] = "/"
      BY <1>2, JoinAt
    <3> QED BY <1>6, <3>1, <3>2, <3>3, <3>4
  <2>4. ASSUME NEW i \in 1 .. Len(c) PROVE c[i] = b[i]
    <3>1. i \in 1 .. 2 * (Len(s) + 1) - 1 /\ Len(s) + 1 \in Nat
      BY <1>1, <1>6
    <3>2. (\E k \in 1 .. Len(s) + 1 : i = 2 * k - 1) \/ (\E k \in 1 .. (Len(s) + 1) - 1 : i = 2 * k)
      BY <3>1, OddOrEven
    <3>3. (\E k \in 1 .. Len(s) : i = 2 * k - 1) \/ (\E k \in 1 .. Len(s) : i = 2 * k)
      BY <1>1, <1>6, <3>2
    <3> QED BY <2>2, <2>3, <3>3
  <2> QED BY <1>1, <1>5, <1>6, <1>8, <2>1, <2>4
<1>13. IsPrefix(s, s)
  BY <1>1, PrefixAt
<1> QED BY <1>2, <1>9, <1>10, <1>11, <1>12, <1>13

LEMMA SlashesAt ==
    ASSUME NEW n \in Nat
    PROVE  /\ Slashes(n) \in Seq(Chars) /\ Len(Slashes(n)) = n
           /\ \A i \in 1 .. n : Slashes(n)[i] = "/"
BY DEF Slashes, Chars

\* The ends of what is left of a path.
LEMMA TrimAt ==
    ASSUME NEW str \in Seq(Chars), NEW lo \in 1 .. Len(str), NEW hi \in 1 .. Len(str),
           str[lo] # "/", str[hi] # "/", \A i \in 1 .. Len(str) : str[i] # "/" => i \in lo .. hi
    PROVE  TrimString(str) = SubSeq(str, lo, hi)
<1> DEFINE kept == {i \in DOMAIN str : str[i] # "/"}
<1>1. DOMAIN str = 1 .. Len(str) /\ Len(str) \in Nat
  OBVIOUS
<1>2. lo \in kept /\ hi \in kept /\ \A i \in kept : i \in Nat /\ lo <= i /\ i <= hi
  BY <1>1
<1>3. (CHOOSE i \in kept : \A j \in kept : i <= j) = lo
  <2>1. \A i \in kept : (\A j \in kept : i <= j) => i = lo
    BY <1>2
  <2> QED BY <1>2, <2>1
<1>4. (CHOOSE i \in kept : \A j \in kept : j <= i) = hi
  <2>1. \A i \in kept : (\A j \in kept : j <= i) => i = hi
    BY <1>2
  <2> QED BY <1>2, <2>1
<1> QED BY <1>2, <1>3, <1>4 DEF TrimString

\* However a path is written, trimming leaves its segments.
LEMMA TrimWritten ==
    ASSUME NEW s \in Routes, NEW before \in Nat, NEW after \in Nat
    PROVE  Written(before, s, after) \in Seq(Chars) /\ TrimString(Written(before, s, after)) = JoinPath(s)
<1>1. PICK x, y, z \in Seq(Chars) : x = Slashes(before) /\ y = JoinPath(s) /\ z = Slashes(after)
  BY SlashesAt, JoinAt
<1>2. PICK u : u = x \o y \o z
  OBVIOUS
<1>3. /\ Len(x) = before /\ Len(z) = after
      /\ \A i \in 1 .. before : x[i] = "/"
      /\ \A i \in 1 .. after : z[i] = "/"
  BY <1>1, SlashesAt
<1>4. PICK n \in Nat \ {0} : Len(y) = n /\ y[1] # "/" /\ y[n] # "/"
  <2>1. Len(s) \in Nat \ {0} /\ Len(y) = 2 * Len(s) - 1
    BY <1>1, JoinAt
  <2>2. 1 \in 1 .. Len(s) /\ Len(s) \in 1 .. Len(s) /\ 2 * 1 - 1 = 1 /\ Len(y) \in Nat \ {0}
    BY <2>1
  <2>3. ASSUME NEW k \in 1 .. Len(s) PROVE y[2 * k - 1] # "/"
    BY <1>1, JoinAt
  <2>4. y[2 * 1 - 1] # "/" /\ y[2 * Len(s) - 1] # "/"
    BY <2>2, <2>3
  <2> QED BY <2>1, <2>2, <2>4
<1>5. /\ u \in Seq(Chars) /\ Len(u) = before + n + after
      /\ \A i \in 1 .. before : u[i] = "/"
      /\ \A i \in 1 .. n : u[before + i] = y[i]
      /\ \A i \in 1 .. after : u[before + n + i] = "/"
  <2>1. /\ u \in Seq(Chars) /\ Len(u) = Len(x) + Len(y) + Len(z)
        /\ \A i \in 1 .. Len(x) : u[i] = x[i]
        /\ \A i \in 1 .. Len(y) : u[Len(x) + i] = y[i]
        /\ \A i \in 1 .. Len(z) : u[Len(x) + Len(y) + i] = z[i]
    BY <1>2, ThreeParts
  <2>2. \A i \in 1 .. before : u[i] = "/"
    BY <1>3, <2>1
  <2>3. \A i \in 1 .. n : u[before + i] = y[i]
    BY <1>3, <1>4, <2>1
  <2>4. ASSUME NEW i \in 1 .. after PROVE u[before + n + i] = "/"
    <3>1. u[Len(x) + Len(y) + i] = z[i] /\ z[i] = "/"
      BY <1>3, <2>1
    <3> QED BY <1>3, <1>4, <3>1
  <2> QED BY <1>3, <1>4, <2>1, <2>2, <2>3, <2>4
<1>6. before + 1 \in 1 .. Len(u) /\ before + n \in 1 .. Len(u) /\ 1 \in 1 .. n /\ n \in 1 .. n
  BY <1>4, <1>5
<1>7. u[before + 1] # "/" /\ u[before + n] # "/"
  BY <1>4, <1>5, <1>6
<1>8. ASSUME NEW i \in 1 .. Len(u), i \notin before + 1 .. before + n PROVE u[i] = "/"
  <2>1. CASE i <= before
    BY <1>5, <2>1
  <2>2. CASE i > before + n
    <3>1. PICK j \in 1 .. after : i = before + n + j
      <4>1. i - (before + n) \in 1 .. after /\ i = before + n + (i - (before + n))
        BY <1>4, <1>5, <2>2
      <4> QED BY <4>1
    <3> QED BY <1>5, <3>1
  <2> QED BY <1>4, <1>8, <2>1, <2>2
<1>9. TrimString(u) = SubSeq(u, before + 1, before + n)
  BY <1>5, <1>6, <1>7, <1>8, TrimAt
<1>10. SubSeq(u, before + 1, before + n) = y
  <2>1. PICK v : v = SubSeq(u, before + 1, before + n)
    OBVIOUS
  <2>2. v \in Seq(Chars) /\ Len(v) = n /\ \A i \in 1 .. n : v[i] = u[before + i]
    <3>1. v \in Seq(Chars) /\ Len(v) = n /\ \A i \in 1 .. n : v[i] = u[(before + 1) + i - 1]
      BY <1>4, <1>5, <2>1
    <3>2. \A i \in 1 .. n : (before + 1) + i - 1 = before + i
      OBVIOUS
    <3> QED BY <3>1, <3>2
  <2>3. \A i \in 1 .. n : v[i] = y[i]
    BY <1>5, <2>2
  <2> QED BY <1>4, <2>1, <2>2, <2>3, SeqEqual
<1> QED BY <1>1, <1>2, <1>5, <1>9, <1>10 DEF Written

\* And trimming takes nothing but slashes.
LEMMA TrimTakesSlashes ==
    ASSUME NEW str \in Seq(Chars), TrimString(str) # <<>>
    PROVE  \E before, after \in 0 .. Len(str) :
               str = Slashes(before) \o TrimString(str) \o Slashes(after)
<1> DEFINE kept == {i \in DOMAIN str : str[i] # "/"}
<1>0. DOMAIN str = 1 .. Len(str) /\ Len(str) \in Nat
  OBVIOUS
<1>1. kept # {} /\ kept \in SUBSET Nat /\ kept \in SUBSET (0 .. Len(str))
  <2>1. kept # {}
    BY DEF TrimString
  <2> QED BY <1>0, <2>1
<1>2. PICK lo \in kept : \A j \in kept : lo <= j
  BY <1>1, LeastOf
<1>3. PICK hi \in kept : \A j \in kept : j <= hi
  BY <1>0, <1>1, LargestOf
<1>4. lo \in 1 .. Len(str) /\ hi \in 1 .. Len(str) /\ lo <= hi
  BY <1>0, <1>2, <1>3
<1>5. \A i \in 1 .. Len(str) : str[i] # "/" => i \in lo .. hi
  BY <1>0, <1>2, <1>3
<1>6. PICK y : y = SubSeq(str, lo, hi)
  OBVIOUS
<1>7. TrimString(str) = y
  BY <1>2, <1>3, <1>4, <1>5, <1>6, TrimAt
<1>8. PICK before, after, n \in 0 .. Len(str) :
        lo = before + 1 /\ hi = before + n /\ Len(str) = before + n + after
  <2>0. PICK len \in Nat : len = Len(str) /\ lo \in 1 .. len /\ hi \in 1 .. len
    BY <1>0, <1>4
  <2>1. /\ lo - 1 \in 0 .. Len(str) /\ Len(str) - hi \in 0 .. Len(str) /\ hi - lo + 1 \in 0 .. Len(str)
        /\ lo = (lo - 1) + 1 /\ hi = (lo - 1) + (hi - lo + 1)
        /\ Len(str) = (lo - 1) + (hi - lo + 1) + (Len(str) - hi)
    BY <1>4, <2>0
  <2>2. PICK before, after, n \in 0 .. Len(str) :
          before = lo - 1 /\ after = Len(str) - hi /\ n = hi - lo + 1
    BY <2>1
  <2> QED BY <2>1, <2>2
<1>9. y \in Seq(Chars) /\ Len(y) = n /\ \A i \in 1 .. n : y[i] = str[before + i]
  <2>1. y \in Seq(Chars) /\ Len(y) = hi - lo + 1 /\ \A i \in 1 .. hi - lo + 1 : y[i] = str[lo + i - 1]
    <3>1. y \in Seq(Chars) /\ Len(y) = hi - lo + 1
      BY <1>0, <1>4, <1>6
    <3>2. \A i \in 1 .. hi - lo + 1 : y[i] = str[lo + i - 1]
      BY <1>0, <1>4, <1>6
    <3> QED BY <3>1, <3>2
  <2>2. hi - lo + 1 = n /\ \A i \in 1 .. n : lo + i - 1 = before + i
    BY <1>0, <1>8
  <2> QED BY <2>1, <2>2
<1>10. PICK x, z \in Seq(Chars) : x = Slashes(before) /\ z = Slashes(after)
  BY SlashesAt
<1>11. /\ Len(x) = before /\ Len(z) = after
       /\ \A i \in 1 .. before : x[i] = "/"
       /\ \A i \in 1 .. after : z[i] = "/"
  BY <1>10, SlashesAt
<1>12. PICK u : u = x \o y \o z
  OBVIOUS
<1>13. /\ u \in Seq(Chars) /\ Len(u) = before + n + after
       /\ \A i \in 1 .. before : u[i] = "/"
       /\ \A i \in 1 .. n : u[before + i] = y[i]
       /\ \A i \in 1 .. after : u[before + n + i] = "/"
  <2>1. PICK m \in Seq(Chars) : m = y
    BY <1>9
  <2>2. /\ u \in Seq(Chars) /\ Len(u) = Len(x) + Len(m) + Len(z)
        /\ \A i \in 1 .. Len(x) : u[i] = x[i]
        /\ \A i \in 1 .. Len(m) : u[Len(x) + i] = m[i]
        /\ \A i \in 1 .. Len(z) : u[Len(x) + Len(m) + i] = z[i]
    BY <1>12, <2>1, ThreeParts
  <2>3. \A i \in 1 .. before : u[i] = "/"
    BY <1>11, <2>2
  <2>4. \A i \in 1 .. n : u[before + i] = y[i]
    BY <1>9, <1>11, <2>1, <2>2
  <2>5. ASSUME NEW i \in 1 .. after PROVE u[before + n + i] = "/"
    <3>1. u[Len(x) + Len(m) + i] = z[i] /\ z[i] = "/"
      BY <1>11, <2>2
    <3> QED BY <1>9, <1>11, <2>1, <3>1
  <2> QED BY <1>9, <1>11, <2>1, <2>2, <2>3, <2>4, <2>5
<1>14. Len(u) = Len(str)
  BY <1>8, <1>13
<1>15. ASSUME NEW i \in 1 .. Len(str) PROVE u[i] = str[i]
  <2>1. CASE i <= before
    <3>1. i \in 1 .. before /\ i \notin lo .. hi
      BY <1>0, <1>8, <2>1
    <3> QED BY <1>5, <1>13, <3>1
  <2>2. CASE i > before /\ i <= before + n
    <3>1. PICK j \in 1 .. n : i = before + j
      <4>1. i - before \in 1 .. n /\ i = before + (i - before)
        BY <1>0, <1>8, <2>2
      <4> QED BY <4>1
    <3> QED BY <1>9, <1>13, <3>1
  <2>3. CASE i > before + n
    <3>1. PICK j \in 1 .. after : i = before + n + j
      <4>1. i - (before + n) \in 1 .. after /\ i = before + n + (i - (before + n))
        BY <1>0, <1>8, <2>3
      <4> QED BY <4>1
    <3>2. i \notin lo .. hi
      BY <1>0, <1>8, <2>3
    <3> QED BY <1>5, <1>13, <3>1, <3>2
  <2> QED BY <1>0, <1>8, <2>1, <2>2, <2>3
<1>16. u = str
  BY <1>13, <1>14, <1>15, SeqEqual
<1> QED BY <1>7, <1>10, <1>12, <1>16

LEMMA PrefixTrans ==
    ASSUME NEW C, NEW s \in Seq(C), NEW t \in Seq(C), NEW v \in Seq(C), IsPrefix(s, t), IsPrefix(t, v)
    PROVE  IsPrefix(s, v)
<1>1. Len(s) \in Nat /\ Len(t) \in Nat /\ Len(v) \in Nat
  OBVIOUS
<1>2. Len(s) <= Len(t) /\ \A k \in 1 .. Len(s) : s[k] = t[k]
  BY PrefixAt
<1>3. Len(t) <= Len(v) /\ \A k \in 1 .. Len(t) : t[k] = v[k]
  BY PrefixAt
<1>4. Len(s) <= Len(v) /\ \A k \in 1 .. Len(s) : s[k] = v[k]
  BY <1>1, <1>2, <1>3
<1> QED BY <1>4, PrefixAt

\* The first segments of a route.
LEMMA JoinPrefix ==
    ASSUME NEW s \in Routes, NEW k \in 1 .. Len(s)
    PROVE  /\ SubSeq(s, 1, k) \in Routes /\ IsPrefix(SubSeq(s, 1, k), s)
           /\ JoinPath(SubSeq(s, 1, k)) = SubSeq(JoinPath(s), 1, 2 * k - 1)
<1>1. s \in Seq(Names) /\ Len(s) \in Nat \ {0}
  BY DEF Routes
<1>2. PICK t : t = SubSeq(s, 1, k)
  OBVIOUS
<1>3. t \in Seq(Names) /\ Len(t) = k /\ \A i \in 1 .. k : t[i] = s[i]
  BY <1>1, <1>2
<1>4. t \in Routes /\ IsPrefix(t, s)
  <2>1. t # <<>>
    BY <1>3
  <2>2. IsPrefix(t, s)
    BY <1>1, <1>3, PrefixAt
  <2> QED BY <1>3, <2>1, <2>2 DEF Routes
<1>5. PICK a, b \in Seq(Chars) : a = JoinPath(s) /\ b = JoinPath(t)
  BY <1>4, JoinAt
<1>6. Len(a) = 2 * Len(s) - 1 /\ Len(b) = 2 * k - 1
  BY <1>3, <1>4, <1>5, JoinAt
<1>7. PICK c : c = SubSeq(a, 1, 2 * k - 1)
  OBVIOUS
<1>8. c \in Seq(Chars) /\ Len(c) = 2 * k - 1 /\ \A i \in 1 .. 2 * k - 1 : c[i] = a[i]
  BY <1>1, <1>6, <1>7
<1>9. ASSUME NEW i \in 1 .. 2 * k - 1 PROVE b[i] = a[i]
  <2>1. (\E j \in 1 .. k : i = 2 * j - 1) \/ (\E j \in 1 .. k - 1 : i = 2 * j)
    <3>1. k \in Nat
      BY <1>1
    <3> QED BY <3>1, OddOrEven
  <2>2. ASSUME NEW j \in 1 .. k, i = 2 * j - 1 PROVE b[i] = a[i]
    <3>1. j \in 1 .. Len(s) /\ j \in 1 .. Len(t)
      BY <1>1, <1>3
    <3> QED BY <1>3, <1>4, <1>5, <2>2, <3>1, JoinAt
  <2>3. ASSUME NEW j \in 1 .. k - 1, i = 2 * j PROVE b[i] = a[i]
    <3>1. j \in 1 .. Len(s) - 1 /\ j \in 1 .. Len(t) - 1
      BY <1>1, <1>3
    <3> QED BY <1>4, <1>5, <2>3, <3>1, JoinAt
  <2> QED BY <2>1, <2>2, <2>3
<1>10. b = c
  BY <1>6, <1>8, <1>9, SeqEqual
<1> QED BY <1>2, <1>4, <1>5, <1>7, <1>10

\* A path leads through the root and through the paths of its first segments.
LEMMA ThroughJoin ==
    ASSUME NEW s \in Routes, NEW p
    PROVE  p \in Through(JoinPath(s)) <=> p = <<>> \/ \E t \in Routes : IsPrefix(t, s) /\ p = JoinPath(t)
<1>1. s \in Seq(Names) /\ Len(s) \in Nat \ {0}
  BY DEF Routes
<1>2. PICK a \in Seq(Chars) : a = JoinPath(s)
  BY JoinAt
<1>3. DOMAIN a = 1 .. 2 * Len(s) - 1
  BY <1>2, JoinAt
<1>4. IsPrefix(s, s)
  BY <1>1, PrefixAt
<1>5. ASSUME NEW i \in DOMAIN a, a[i] = "/", p = SubSeq(a, 1, i - 1)
      PROVE  \E t \in Routes : IsPrefix(t, s) /\ p = JoinPath(t)
  <2>1. (\E k \in 1 .. Len(s) : i = 2 * k - 1) \/ (\E k \in 1 .. Len(s) - 1 : i = 2 * k)
    BY <1>1, <1>3, OddOrEven
  <2>2. ASSUME NEW k \in 1 .. Len(s) PROVE i # 2 * k - 1
    <3>1. a[2 * k - 1] # "/"
      BY <1>2, JoinAt
    <3> QED BY <1>5, <3>1
  <2>3. PICK k \in 1 .. Len(s) - 1 : i = 2 * k
    BY <2>1, <2>2
  <2>4. k \in 1 .. Len(s)
    <3>1. PICK len \in Nat : len = Len(s) /\ k \in 1 .. len - 1
      BY <1>1
    <3> QED BY <3>1
  <2>5. p = SubSeq(a, 1, 2 * k - 1)
    BY <1>5, <2>3
  <2> QED BY <1>2, <2>4, <2>5, JoinPrefix
<1>6. ASSUME NEW t \in Routes, IsPrefix(t, s), p = JoinPath(t), t # s
      PROVE  \E i \in DOMAIN a : a[i] = "/" /\ p = SubSeq(a, 1, i - 1)
  <2>1. t \in Seq(Names) /\ Len(t) \in Nat \ {0}
    BY DEF Routes
  <2>2. Len(t) <= Len(s) /\ \A k \in 1 .. Len(t) : t[k] = s[k]
    BY <1>1, <1>6, <2>1, PrefixAt
  <2>3. PICK k \in Nat \ {0} : k = Len(t) /\ k < Len(s)
    BY <1>1, <1>6, <2>1, <2>2, SeqEqual
  <2>4. k \in 1 .. Len(s) /\ k \in 1 .. Len(s) - 1 /\ 2 * k \in DOMAIN a
    BY <1>1, <1>3, <2>3
  <2>5. t = SubSeq(s, 1, k)
    <3>1. PICK v : v = SubSeq(s, 1, k)
      OBVIOUS
    <3>2. v \in Seq(Names) /\ Len(v) = k /\ \A i \in 1 .. k : v[i] = s[i]
      BY <1>1, <2>4, <3>1
    <3> QED BY <2>1, <2>2, <2>3, <3>1, <3>2, SeqEqual
  <2>6. p = SubSeq(a, 1, 2 * k - 1)
    BY <1>2, <1>6, <2>4, <2>5, JoinPrefix
  <2>7. a[2 * k] = "/"
    BY <1>2, <2>4, JoinAt
  <2> QED BY <2>4, <2>6, <2>7
<1>7. p \in Through(a) <=> p = <<>> \/ p = a \/ \E i \in DOMAIN a : a[i] = "/" /\ p = SubSeq(a, 1, i - 1)
  BY DEF Through
<1> QED BY <1>2, <1>4, <1>5, <1>6, <1>7

LEMMA ThroughRoot == Through(<<>>) = {<<>>}
BY DEF Through

\* The first segments of two routes that are put together.
LEMMA PrefixOfBoth ==
    ASSUME NEW s \in Routes, NEW q \in Routes, NEW t \in Routes, IsPrefix(t, s \o q), ~ IsPrefix(t, s)
    PROVE  \E v \in Routes : IsPrefix(v, q) /\ t = s \o v
<1>1. /\ s \in Seq(Names) /\ Len(s) \in Nat \ {0}
      /\ q \in Seq(Names) /\ Len(q) \in Nat \ {0}
      /\ t \in Seq(Names) /\ Len(t) \in Nat \ {0}
  BY DEF Routes
<1>2. PICK w \in Seq(Names) : w = s \o q
  <2>1. PICK w : w = s \o q
    OBVIOUS
  <2>2. w \in Seq(Names)
    BY <1>1, <2>1, TwoParts
  <2> QED BY <2>1, <2>2
<1>3. /\ Len(w) = Len(s) + Len(q)
      /\ \A i \in 1 .. Len(s) : w[i] = s[i]
      /\ \A i \in 1 .. Len(q) : w[Len(s) + i] = q[i]
  BY <1>1, <1>2, TwoParts
<1>4. Len(t) <= Len(w) /\ \A k \in 1 .. Len(t) : t[k] = w[k]
  <2>1. t \in Seq(Names) /\ IsPrefix(t, w)
    BY <1>1, <1>2
  <2> QED BY <2>1, PrefixAt
<1>5. Len(t) > Len(s)
  <2> SUFFICES ASSUME Len(t) <= Len(s) PROVE FALSE
    BY <1>1
  <2>1. ASSUME NEW k \in 1 .. Len(t) PROVE t[k] = s[k]
    <3>1. k \in 1 .. Len(s)
      BY <1>1
    <3> QED BY <1>3, <1>4, <3>1
  <2>2. s \in Seq(Names) /\ t \in Seq(Names)
    BY <1>1
  <2>3. IsPrefix(t, s) <=> Len(t) <= Len(s) /\ \A k \in 1 .. Len(t) : t[k] = s[k]
    BY <2>2, PrefixAt
  <2> QED BY <2>1, <2>3
<1>6. PICK k \in 1 .. Len(q) : Len(t) = Len(s) + k
  <2>1. Len(t) - Len(s) \in 1 .. Len(q) /\ Len(t) = Len(s) + (Len(t) - Len(s))
    BY <1>1, <1>3, <1>4, <1>5
  <2> QED BY <2>1, Zenon
<1>7. PICK v : v = SubSeq(q, 1, k)
  OBVIOUS
<1>8. v \in Seq(Names) /\ Len(v) = k /\ \A i \in 1 .. k : v[i] = q[i]
  BY <1>1, <1>7
<1>9. v \in Routes /\ IsPrefix(v, q)
  BY <1>7, JoinPrefix
<1>10. PICK c : c = s \o v
  OBVIOUS
<1>11. /\ c \in Seq(Names) /\ Len(c) = Len(s) + k
       /\ \A i \in 1 .. Len(s) : c[i] = s[i]
       /\ \A i \in 1 .. k : c[Len(s) + i] = v[i]
  <2>1. PICK d \in Seq(Names) : d = v
    BY <1>8
  <2>2. c = s \o d
    BY <1>10, <2>1
  <2>3. /\ c \in Seq(Names) /\ Len(c) = Len(s) + Len(d)
        /\ \A i \in 1 .. Len(s) : c[i] = s[i]
        /\ \A i \in 1 .. Len(d) : c[Len(s) + i] = d[i]
    BY <1>1, <2>2, TwoParts
  <2> QED BY <1>8, <2>1, <2>3
<1>12. ASSUME NEW i \in 1 .. Len(t) PROVE t[i] = c[i]
  <2>1. CASE i <= Len(s)
    BY <1>1, <1>3, <1>4, <1>11, <2>1
  <2>2. CASE i > Len(s)
    <3>1. PICK j \in 1 .. k : i = Len(s) + j
      <4>1. i - Len(s) \in 1 .. k /\ i = Len(s) + (i - Len(s))
        BY <1>1, <1>6, <2>2
      <4> QED BY <4>1
    <3>2. j \in 1 .. Len(q)
      BY <1>1, <3>1
    <3>3. w[i] = q[j] /\ c[i] = v[j] /\ v[j] = q[j]
      BY <1>3, <1>8, <1>11, <3>1, <3>2
    <3> QED BY <1>4, <3>3
  <2> QED BY <1>1, <2>1, <2>2
<1>13. t = c
  BY <1>1, <1>6, <1>11, <1>12, SeqEqual
<1> QED BY <1>9, <1>10, <1>13

\* What was put under a path can be read back.
LEMMA UnderRest ==
    ASSUME NEW a \in Seq(Chars), NEW q \in Seq(Chars)
    PROVE  SubSeq(Under(a, q), Len(a) + 2, Len(Under(a, q))) = q
<1>1. CASE q = <<>>
  <2>1. SubSeq(a, Len(a) + 2, Len(a)) = <<>>
    OBVIOUS
  <2> QED BY <1>1, <2>1 DEF Under
<1>2. CASE q # <<>>
  <2>1. PICK h \in Seq(Chars) : h = <<"/">> /\ Len(h) = 1
    <3>1. <<"/">> \in Seq(Chars) /\ Len(<<"/">>) = 1
      BY DEF Chars
    <3> QED BY <3>1
  <2>2. PICK u : u = a \o h \o q
    OBVIOUS
  <2>3. /\ u \in Seq(Chars) /\ Len(u) = Len(a) + 1 + Len(q)
        /\ \A i \in 1 .. Len(q) : u[Len(a) + 1 + i] = q[i]
    <3>1. /\ u \in Seq(Chars) /\ Len(u) = Len(a) + Len(h) + Len(q)
          /\ \A i \in 1 .. Len(q) : u[Len(a) + Len(h) + i] = q[i]
      BY <2>2, ThreeParts
    <3> QED BY <2>1, <3>1
  <2>4. Len(a) \in Nat /\ Len(q) \in Nat
    OBVIOUS
  <2>5. PICK c : c = SubSeq(u, Len(a) + 2, Len(u))
    OBVIOUS
  <2>6. c \in Seq(Chars) /\ Len(c) = Len(q) /\ \A i \in 1 .. Len(q) : c[i] = u[Len(a) + 1 + i]
    <3>1. c \in Seq(Chars) /\ Len(c) = Len(u) - (Len(a) + 2) + 1
          /\ \A i \in 1 .. Len(c) : c[i] = u[(Len(a) + 2) + i - 1]
      BY <2>3, <2>4, <2>5
    <3>2. Len(c) = Len(q) /\ \A i \in 1 .. Len(q) : (Len(a) + 2) + i - 1 = Len(a) + 1 + i
      BY <2>3, <2>4, <3>1
    <3> QED BY <3>1, <3>2
  <2>7. c = q
    BY <2>3, <2>6, SeqEqual
  <2> QED BY <1>2, <2>1, <2>2, <2>5, <2>7 DEF Under
<1> QED BY <1>1, <1>2

-----------------------------------------------------------------------------
(* Trees.                                                                  *)

\* What a tree is, by the segments of its nodes.
LEMMA TreeBySegments ==
    ASSUME NEW tree, Joined(tree), <<>> \in DOMAIN tree,
           \A p \in DOMAIN tree : tree[p] \in Handlers \cup {NoHandler},
           \A s, t \in Routes : JoinPath(s) \in DOMAIN tree /\ IsPrefix(t, s) => JoinPath(t) \in DOMAIN tree
    PROVE  IsTree(tree)
<1> SUFFICES ASSUME NEW p \in DOMAIN tree
             PROVE  p \in Seq(Names \cup {"/"}) /\ Through(p) \subseteq DOMAIN tree
  BY Zenon DEF IsTree
<1>1. CASE p = <<>>
  <2>1. <<>> \in Seq(Names \cup {"/"})
    OBVIOUS
  <2> QED BY <1>1, <2>1, ThroughRoot
<1>2. ASSUME NEW s \in Routes, p = JoinPath(s)
      PROVE  p \in Seq(Names \cup {"/"}) /\ Through(p) \subseteq DOMAIN tree
  <2>1. ASSUME NEW q \in Through(p) PROVE q \in DOMAIN tree
    <3>1. q = <<>> \/ \E t \in Routes : IsPrefix(t, s) /\ q = JoinPath(t)
      BY <1>2, ThroughJoin
    <3>2. JoinPath(s) \in DOMAIN tree
      BY <1>2
    <3> QED BY <3>1, <3>2
  <2>2. p \in Seq(Names \cup {"/"})
    BY <1>2, JoinAt DEF Chars
  <2> QED BY <2>1, <2>2
<1> QED BY <1>1, <1>2 DEF Joined

LEMMA TreeHasPrefixes ==
    ASSUME NEW tree, IsTree(tree), NEW s \in Routes, NEW t \in Routes,
           JoinPath(s) \in DOMAIN tree, IsPrefix(t, s)
    PROVE  JoinPath(t) \in DOMAIN tree
<1>1. JoinPath(t) \in Through(JoinPath(s))
  BY ThroughJoin
<1> QED BY <1>1 DEF IsTree

\* The nodes a path leads through are made, and what there was stays.
LEMMA ForcedTree ==
    ASSUME NEW tree, IsTree(tree), Joined(tree), NEW s \in Routes
    PROVE  /\ IsTree(Forced(tree, JoinPath(s))) /\ Joined(Forced(tree, JoinPath(s)))
           /\ JoinPath(s) \in DOMAIN Forced(tree, JoinPath(s))
           /\ DOMAIN tree \subseteq DOMAIN Forced(tree, JoinPath(s))
           /\ \A p \in DOMAIN tree : Forced(tree, JoinPath(s))[p] = tree[p]
           /\ \A p \in DOMAIN Forced(tree, JoinPath(s)) :
                  Forced(tree, JoinPath(s))[p] \in Handlers => p \in DOMAIN tree
<1> DEFINE F == Forced(tree, JoinPath(s))
<1>1. DOMAIN F = DOMAIN tree \cup Through(JoinPath(s))
  BY DEF Forced
<1>2. \A p \in DOMAIN F : F[p] = IF p \in DOMAIN tree THEN tree[p] ELSE NoHandler
  BY DEF Forced
<1>3. s \in Seq(Names)
  BY DEF Routes
<1>4. Joined(F)
  <2>1. \A p \in Through(JoinPath(s)) : p = <<>> \/ \E t \in Routes : p = JoinPath(t)
    BY ThroughJoin, Zenon
  <2> QED BY <1>1, <2>1, Zenon DEF Joined
<1>5. IsTree(F)
  <2>1. <<>> \in DOMAIN F
    BY <1>1 DEF IsTree
  <2>2. \A p \in DOMAIN F : F[p] \in Handlers \cup {NoHandler}
    BY <1>2 DEF IsTree
  <2>3. ASSUME NEW v \in Routes, NEW t \in Routes, JoinPath(v) \in DOMAIN F, IsPrefix(t, v)
        PROVE  JoinPath(t) \in DOMAIN F
    <3>1. CASE JoinPath(v) \in DOMAIN tree
      BY <1>1, <2>3, <3>1, TreeHasPrefixes
    <3>2. CASE JoinPath(v) \in Through(JoinPath(s))
      <4>1. JoinPath(v) # <<>>
        BY JoinAt
      <4>2. PICK w \in Routes : IsPrefix(w, s) /\ JoinPath(v) = JoinPath(w)
        BY <3>2, <4>1, ThroughJoin, Zenon
      <4>3. v = w
        BY <4>2, JoinInjective
      <4>4. v \in Seq(Names) /\ t \in Seq(Names)
        BY DEF Routes
      <4>5. IsPrefix(t, s)
        BY <1>3, <2>3, <4>2, <4>3, <4>4, PrefixTrans
      <4>6. JoinPath(t) \in Through(JoinPath(s))
        BY <4>5, ThroughJoin
      <4> QED BY <1>1, <4>6
    <3> QED BY <1>1, <2>3, <3>1, <3>2
  <2> QED BY <1>4, <2>1, <2>2, <2>3, TreeBySegments
<1>6. JoinPath(s) \in DOMAIN F
  BY <1>1 DEF Through
<1>7. DOMAIN tree \subseteq DOMAIN F /\ \A p \in DOMAIN tree : F[p] = tree[p]
  BY <1>1, <1>2
<1>8. \A p \in DOMAIN F : F[p] \in Handlers => p \in DOMAIN tree
  BY <1>2, RouterAssumption
<1> QED BY <1>4, <1>5, <1>6, <1>7, <1>8

\* A handler at a path.
LEMMA PutTree ==
    ASSUME NEW tree, IsTree(tree), Joined(tree), NEW s \in Routes, NEW func \in Handlers
    PROVE  LET new == put(tree, JoinPath(s), func) IN
           /\ IsTree(new) /\ Joined(new)
           /\ JoinPath(s) \in DOMAIN new /\ new[JoinPath(s)] = func
           /\ \A p \in DOMAIN tree : p \in DOMAIN new /\ (p # JoinPath(s) => new[p] = tree[p])
           /\ \A p \in DOMAIN new :
                  new[p] \in Handlers => p = JoinPath(s) \/ (p \in DOMAIN tree /\ new[p] = tree[p])
<1> DEFINE F == Forced(tree, JoinPath(s))
           grown == put(tree, JoinPath(s), func)
<1>1. /\ IsTree(F) /\ Joined(F) /\ JoinPath(s) \in DOMAIN F
      /\ DOMAIN tree \subseteq DOMAIN F /\ \A p \in DOMAIN tree : F[p] = tree[p]
      /\ \A p \in DOMAIN F : F[p] \in Handlers => p \in DOMAIN tree
  BY ForcedTree, Zenon
<1>2. /\ DOMAIN grown = DOMAIN F
      /\ \A p \in DOMAIN F : grown[p] = IF p = JoinPath(s) THEN func ELSE F[p]
  <2>1. grown = [F EXCEPT ![JoinPath(s)] = func]
    BY DEF put
  <2> HIDE DEF F, grown
  <2> QED BY <2>1
<1> HIDE DEF F, grown
<1>3. Joined(grown)
  BY <1>1, <1>2 DEF Joined
<1>4. IsTree(grown)
  <2>1. <<>> \in DOMAIN grown
    BY <1>1, <1>2 DEF IsTree
  <2>2. ASSUME NEW p \in DOMAIN grown
        PROVE  /\ p \in Seq(Names \cup {"/"}) /\ grown[p] \in Handlers \cup {NoHandler}
               /\ Through(p) \subseteq DOMAIN grown
    <3>1. /\ p \in DOMAIN F /\ p \in Seq(Names \cup {"/"}) /\ F[p] \in Handlers \cup {NoHandler}
          /\ Through(p) \subseteq DOMAIN F
      BY <1>1, <1>2 DEF IsTree
    <3>2. grown[p] \in Handlers \cup {NoHandler}
      BY <1>2, <3>1
    <3> QED BY <1>2, <3>1, <3>2
  <2> QED BY <2>1, <2>2 DEF IsTree
<1>5. JoinPath(s) \in DOMAIN grown /\ grown[JoinPath(s)] = func
  BY <1>1, <1>2
<1>6. \A p \in DOMAIN tree : p \in DOMAIN grown /\ (p # JoinPath(s) => grown[p] = tree[p])
  BY <1>1, <1>2
<1>7. \A p \in DOMAIN grown : grown[p] \in Handlers => p = JoinPath(s) \/ (p \in DOMAIN tree /\ grown[p] = tree[p])
  BY <1>1, <1>2
<1> QED BY <1>3, <1>4, <1>5, <1>6, <1>7 DEF grown

\* The root is below no path.
LEMMA RootNotBelow == ASSUME NEW s \in Routes PROVE ~ Below(JoinPath(s), <<>>)
<1>1. PICK a \in Seq(Chars) : a = JoinPath(s) /\ Len(a) \in Nat \ {0}
  <2>1. JoinPath(s) \in Seq(Chars) /\ Len(JoinPath(s)) \in Nat \ {0}
    BY JoinAt
  <2> QED BY <2>1
<1>2. PICK c \in Seq(Chars) : c = Append(a, "/") /\ Len(c) = Len(a) + 1
  <2>1. "/" \in Chars
    BY DEF Chars
  <2>2. Append(a, "/") \in Seq(Chars) /\ Len(Append(a, "/")) = Len(a) + 1
    BY <2>1
  <2> QED BY <2>2
<1>3. PICK e \in Seq(Chars) : e = <<>> /\ Len(e) = 0
  <2>1. <<>> \in Seq(Chars) /\ Len(<<>>) = 0
    OBVIOUS
  <2> QED BY <2>1
<1>4. ~ IsPrefix(c, <<>>)
  <2>1. IsPrefix(c, e) => Len(c) <= Len(e)
    BY PrefixAt
  <2> QED BY <1>1, <1>2, <1>3, <2>1
<1>5. a # <<>>
  BY <1>1
<1> QED BY <1>1, <1>2, <1>4, <1>5 DEF Below

LEMMA PrefixOfSum ==
    ASSUME NEW s \in Routes, NEW q \in Routes PROVE IsPrefix(s, s \o q)
<1>1. s \in Seq(Names) /\ q \in Seq(Names)
  BY DEF Routes
<1>2. PICK u : u = s \o q
  OBVIOUS
<1>3. u \in Seq(Names) /\ Len(u) = Len(s) + Len(q) /\ \A i \in 1 .. Len(s) : u[i] = s[i]
  BY <1>1, <1>2, TwoParts
<1>4. Len(s) \in Nat /\ Len(q) \in Nat
  BY <1>1
<1>5. IsPrefix(s, u)
  BY <1>1, <1>3, <1>4, PrefixAt
<1> QED BY <1>2, <1>5

\* A tree with another under a path: its nodes are there, and nothing else is below.
Replaced(tree, child, s, new) ==
    /\ IsTree(new) /\ Joined(new)
    /\ \A q \in Routes : JoinPath(q) \in DOMAIN child =>
           JoinPath(s \o q) \in DOMAIN new /\ new[JoinPath(s \o q)] = child[JoinPath(q)]
    /\ \A t \in Routes : JoinPath(t) \in DOMAIN tree /\ ~ IsPrefix(s, t) =>
           JoinPath(t) \in DOMAIN new /\ new[JoinPath(t)] = tree[JoinPath(t)]
    /\ \A p \in DOMAIN new : new[p] \in Handlers =>
           \/ child[<<>>] \in Handlers
           \/ \E q \in Routes : /\ p = JoinPath(s \o q) /\ JoinPath(q) \in DOMAIN child
                                /\ child[JoinPath(q)] \in Handlers
           \/ ~ Below(JoinPath(s), p) /\ p \in DOMAIN tree /\ new[p] = tree[p]

LEMMA PutChildTree ==
    ASSUME NEW tree, IsTree(tree), Joined(tree), NEW child, IsTree(child), Joined(child), NEW s \in Routes
    PROVE  Replaced(tree, child, s, put_child(tree, JoinPath(s), child))
<1> DEFINE a == JoinPath(s)
           F == Forced(tree, a)
           grown == put_child(tree, a, child)
           grafted == {Under(a, q) : q \in DOMAIN child}
           kept == {p \in DOMAIN F : ~ Below(a, p)}
<1>1. /\ IsTree(F) /\ Joined(F) /\ a \in DOMAIN F
      /\ DOMAIN tree \subseteq DOMAIN F /\ \A p \in DOMAIN tree : F[p] = tree[p]
      /\ \A p \in DOMAIN F : F[p] \in Handlers => p \in DOMAIN tree
  BY ForcedTree, Zenon
<1>2. /\ DOMAIN grown = grafted \cup kept
      /\ \A p \in DOMAIN grown :
             grown[p] = IF p \in grafted THEN child[SubSeq(p, Len(a) + 2, Len(p))] ELSE F[p]
  BY DEF put_child, Grafted
<1>3. s \in Seq(Names) /\ a \in Seq(Chars)
  BY JoinAt DEF Routes
<1>4. \A q \in DOMAIN child : q \in Seq(Chars) /\ child[q] \in Handlers \cup {NoHandler}
  BY DEF IsTree, Chars
<1>5. ASSUME NEW q \in DOMAIN child PROVE Under(a, q) \in DOMAIN grown /\ grown[Under(a, q)] = child[q]
  <2>1. Under(a, q) \in grafted
    OBVIOUS
  <2>2. SubSeq(Under(a, q), Len(a) + 2, Len(Under(a, q))) = q
    BY <1>3, <1>4, UnderRest
  <2> HIDE DEF grafted, kept, grown, a, F
  <2> QED BY <1>2, <2>1, <2>2
<1>6. Under(a, <<>>) = a /\ \A q \in Routes : s \o q \in Routes /\ Under(a, JoinPath(q)) = JoinPath(s \o q)
  <2>1. Under(a, <<>>) = a
    BY DEF Under
  <2> QED BY <2>1, JoinUnder
<1>7. \A q \in DOMAIN child : q = <<>> \/ \E t \in Routes : q = JoinPath(t)
  BY DEF Joined
<1>8. \A p \in grafted : p = a \/ \E q \in Routes : p = JoinPath(s \o q) /\ JoinPath(q) \in DOMAIN child
  <2> HIDE DEF a
  <2> QED BY <1>6, <1>7
<1>9. \A t \in Routes : Below(a, JoinPath(t)) <=> IsPrefix(s, t)
  BY BelowIsPrefix
<1>10. IsPrefix(s, s) /\ \A q \in Routes : IsPrefix(s, s \o q)
  BY <1>3, PrefixAt, PrefixOfSum
<1>11. \A p \in grafted : Below(a, p)
  BY <1>6, <1>8, <1>9, <1>10, Zenon
<1>12. \A p \in kept : p \in DOMAIN grown /\ grown[p] = F[p]
  <2> SUFFICES ASSUME NEW p \in kept PROVE p \in DOMAIN grown /\ grown[p] = F[p]
    OBVIOUS
  <2>1. p \notin grafted /\ p \in DOMAIN grown
    BY <1>2, <1>11
  <2> HIDE DEF grafted, kept, grown, F, a
  <2> QED BY <1>2, <2>1
<1>13. a \in DOMAIN grown
  <2>1. <<>> \in DOMAIN child
    BY DEF IsTree
  <2> QED BY <1>5, <1>6, <2>1
<1> HIDE DEF grown, F, grafted
<1>14. Joined(grown)
  <2>1. \A p \in grafted : p = <<>> \/ \E t \in Routes : p = JoinPath(t)
    BY <1>6, <1>8
  <2>2. \A p \in kept : p = <<>> \/ \E t \in Routes : p = JoinPath(t)
    BY <1>1 DEF Joined
  <2> QED BY <1>2, <2>1, <2>2 DEF Joined
<1>15. ASSUME NEW v \in Routes, NEW t \in Routes, JoinPath(v) \in DOMAIN grown, IsPrefix(t, v)
       PROVE  JoinPath(t) \in DOMAIN grown
  <2>0. v \in Seq(Names) /\ t \in Seq(Names)
    BY DEF Routes
  <2>1. ASSUME IsPrefix(t, s) PROVE JoinPath(t) \in DOMAIN grown
    <3>1. JoinPath(t) \in DOMAIN F
      BY <1>1, <2>1, TreeHasPrefixes
    <3>2. CASE IsPrefix(s, t)
      <4>1. s = t
        <5>1. Len(s) = Len(t) /\ \A k \in 1 .. Len(s) : s[k] = t[k]
          BY <1>3, <2>0, <2>1, <3>2, PrefixAt
        <5> QED BY <1>3, <2>0, <5>1, SeqEqual
      <4> QED BY <1>13, <4>1
    <3>3. CASE ~ IsPrefix(s, t)
      <4>1. JoinPath(t) \in kept
        BY <1>9, <3>1, <3>3
      <4> QED BY <1>12, <4>1
    <3> QED BY <3>2, <3>3
  <2>2. CASE JoinPath(v) \in grafted
    <3>1. CASE v = s
      BY <1>15, <2>1, <3>1
    <3>2. CASE v # s
      <4>1. JoinPath(v) # a
        BY <3>2, JoinInjective
      <4>2. PICK q \in Routes : JoinPath(v) = JoinPath(s \o q) /\ JoinPath(q) \in DOMAIN child
        BY <1>8, <2>2, <4>1
      <4>3. v = s \o q
        BY <1>6, <4>2, JoinInjective
      <4>4. CASE ~ IsPrefix(t, s)
        <5>1. PICK w \in Routes : IsPrefix(w, q) /\ t = s \o w
          <6>1. IsPrefix(t, s \o q)
            BY <1>15, <4>3
          <6> QED BY <4>4, <6>1, PrefixOfBoth
        <5>2. JoinPath(w) \in DOMAIN child
          BY <4>2, <5>1, TreeHasPrefixes
        <5> QED BY <1>5, <1>6, <5>1, <5>2
      <4> QED BY <2>1, <4>4
    <3> QED BY <3>1, <3>2
  <2>3. CASE JoinPath(v) \in kept
    <3>1. JoinPath(v) \in DOMAIN F /\ ~ IsPrefix(s, v)
      BY <1>9, <2>3
    <3>2. JoinPath(t) \in DOMAIN F
      BY <1>1, <1>15, <3>1, TreeHasPrefixes
    <3>3. ~ IsPrefix(s, t)
      BY <1>3, <1>15, <2>0, <3>1, PrefixTrans
    <3>4. JoinPath(t) \in kept
      BY <1>9, <3>2, <3>3
    <3> QED BY <1>12, <3>4
  <2> QED BY <1>2, <1>15, <2>2, <2>3
<1>16. IsTree(grown)
  <2>1. <<>> \in DOMAIN grown
    <3>1. <<>> \in kept
      BY <1>1, RootNotBelow DEF IsTree
    <3> QED BY <1>12, <3>1
  <2>2. \A p \in DOMAIN grown : grown[p] \in Handlers \cup {NoHandler}
    <3>1. \A p \in grafted : grown[p] \in Handlers \cup {NoHandler}
      BY <1>4, <1>5 DEF grafted
    <3>2. \A p \in kept : grown[p] \in Handlers \cup {NoHandler}
      BY <1>1, <1>12 DEF IsTree
    <3> QED BY <1>2, <3>1, <3>2
  <2> QED BY <1>14, <1>15, <2>1, <2>2, TreeBySegments
<1>17. \A q \in Routes : JoinPath(q) \in DOMAIN child =>
           JoinPath(s \o q) \in DOMAIN grown /\ grown[JoinPath(s \o q)] = child[JoinPath(q)]
  BY <1>5, <1>6
<1>18. \A t \in Routes : JoinPath(t) \in DOMAIN tree /\ ~ IsPrefix(s, t) =>
           JoinPath(t) \in DOMAIN grown /\ grown[JoinPath(t)] = tree[JoinPath(t)]
  BY <1>1, <1>9, <1>12
<1>19. ASSUME NEW p \in DOMAIN grown, grown[p] \in Handlers
       PROVE  \/ child[<<>>] \in Handlers
              \/ \E q \in Routes : p = JoinPath(s \o q) /\ JoinPath(q) \in DOMAIN child
                                   /\ child[JoinPath(q)] \in Handlers
              \/ ~ Below(a, p) /\ p \in DOMAIN tree /\ grown[p] = tree[p]
  <2>1. CASE p \in grafted
    <3>1. PICK q \in DOMAIN child : p = Under(a, q)
      BY <2>1 DEF grafted
    <3>2. child[q] \in Handlers
      BY <1>5, <1>19, <3>1
    <3> QED BY <1>6, <1>7, <3>1, <3>2
  <2>2. CASE p \in kept
    <3>1. p \in DOMAIN F /\ ~ Below(a, p) /\ grown[p] = F[p]
      BY <1>12, <2>2
    <3> QED BY <1>1, <1>19, <3>1
  <2> QED BY <1>2, <2>1, <2>2
<1> QED BY <1>14, <1>16, <1>17, <1>18, <1>19 DEF grown, Replaced

-----------------------------------------------------------------------------
(* The invariant.                                                          *)

LEMMA RouterInit == ASSUME InitRouter PROVE RouterIInv
<1>1. IsTree(EmptyTree) /\ Joined(EmptyTree)
  <2>1. DOMAIN EmptyTree = {<<>>} /\ EmptyTree[<<>>] = NoHandler
    BY DEF EmptyTree
  <2>2. Joined(EmptyTree)
    BY <2>1 DEF Joined
  <2>3. \A s \in Routes : JoinPath(s) # <<>>
    BY JoinAt
  <2> QED BY <2>1, <2>2, <2>3, TreeBySegments
<1>2. \A r \in Routers : callback_tree[r] = EmptyTree /\ DOMAIN routes[r] = {}
  BY DEF InitRouter
<1>3. RouterTypeOK
  <2>1. ran \in Handlers \cup {NoHandler, NotFound, Idle} /\ paths \in 0 .. MaxPaths
    BY RouterAssumption DEF InitRouter
  <2>2. DOMAIN callback_tree = Routers /\ DOMAIN routes = Routers
    BY DEF InitRouter
  <2> QED BY <1>1, <1>2, <2>1, <2>2 DEF RouterTypeOK
<1>4. Registered
  BY <1>2 DEF Registered
<1>5. HandlersRegistered
  <2>1. \A p \in DOMAIN EmptyTree : EmptyTree[p] \notin Handlers
    BY RouterAssumption DEF EmptyTree
  <2> QED BY <1>2, <2>1 DEF HandlersRegistered
<1> QED BY <1>1, <1>2, <1>3, <1>4, <1>5 DEF RouterIInv

\* The segments that main registers are a route, and their path is what trimming leaves.
LEMMA WrittenRoute ==
    ASSUME NEW segs \in SegmentLists, NEW before \in 0 .. MaxSlashes, NEW after \in 0 .. MaxSlashes
    PROVE  segs \in Routes /\ TrimString(Written(before, segs, after)) = JoinPath(segs)
<1>1. segs \in Routes
  <2>1. segs # <<>> /\ \E n \in 0 .. MaxSegments : segs \in [1 .. n -> Names]
    BY DEF SegmentLists, SeqOf
  <2> QED BY <2>1, RouterAssumption DEF Routes
<1>2. before \in Nat /\ after \in Nat
  BY RouterAssumption
<1> QED BY <1>1, <1>2, TrimWritten

\* What an action does to the router it is called on is all there is to see.
LEMMA OneRouter ==
    ASSUME RouterIInv, NEW r \in Routers, NEW tree, NEW table,
           callback_tree' = [callback_tree EXCEPT ![r] = tree], routes' = [routes EXCEPT ![r] = table],
           Register, IsTree(tree), Joined(tree),
           \A segs \in DOMAIN table :
               /\ segs \in Routes /\ table[segs] \in Handlers
               /\ JoinPath(segs) \in DOMAIN tree /\ tree[JoinPath(segs)] = table[segs],
           \A p \in DOMAIN tree : tree[p] \in Handlers => \E segs \in DOMAIN table : p = JoinPath(segs)
    PROVE  RouterIInv'
<1>0. RouterTypeOK
  BY DEF RouterIInv
<1>1. /\ DOMAIN callback_tree' = Routers /\ callback_tree'[r] = tree
      /\ \A q \in Routers \ {r} : callback_tree'[q] = callback_tree[q]
  BY <1>0 DEF RouterTypeOK
<1>2. /\ DOMAIN routes' = Routers /\ routes'[r] = table
      /\ \A q \in Routers \ {r} : routes'[q] = routes[q]
  BY <1>0 DEF RouterTypeOK
<1>3. RouterTypeOK'
  <2>1. \A q \in Routers : IsTree(callback_tree'[q])
    BY <1>0, <1>1 DEF RouterTypeOK
  <2>2. ASSUME NEW q \in Routers, NEW segs \in DOMAIN routes'[q]
        PROVE  segs \in Seq(Names) \ {<<>>} /\ routes'[q][segs] \in Handlers
    BY <1>0, <1>2 DEF RouterTypeOK, Routes
  <2>3. ran' = ran /\ paths' \in 0 .. MaxPaths
    BY <1>0, RouterAssumption DEF RouterTypeOK, Register
  <2>4. ran' \in Handlers \cup {NoHandler, NotFound, Idle}
    BY <1>0, <2>3 DEF RouterTypeOK
  <2> QED BY <1>1, <1>2, <2>1, <2>2, <2>3, <2>4 DEF RouterTypeOK, IsTree
<1>4. Registered'
  <2> SUFFICES ASSUME NEW q \in Routers, NEW segs \in DOMAIN routes'[q]
               PROVE  JoinPath(segs) \in DOMAIN callback_tree'[q]
                      /\ callback_tree'[q][JoinPath(segs)] = routes'[q][segs]
    BY DEF Registered
  <2>1. CASE q = r
    BY <1>1, <1>2, <2>1
  <2>2. CASE q # r
    BY <1>1, <1>2, <2>2 DEF RouterIInv, Registered
  <2> QED BY <2>1, <2>2
<1>5. HandlersRegistered'
  <2> SUFFICES ASSUME NEW q \in Routers, NEW p \in DOMAIN callback_tree'[q],
                      callback_tree'[q][p] \in Handlers
               PROVE  \E segs \in DOMAIN routes'[q] : p = JoinPath(segs)
    BY DEF HandlersRegistered
  <2>1. CASE q = r
    BY <1>1, <1>2, <2>1
  <2>2. CASE q # r
    BY <1>1, <1>2, <2>2 DEF RouterIInv, HandlersRegistered
  <2> QED BY <2>1, <2>2
<1>6. \A q \in Routers : Joined(callback_tree'[q])
  BY <1>1 DEF RouterIInv
<1> QED BY <1>3, <1>4, <1>5, <1>6 DEF RouterIInv, Joined

LEMMA RouterPathHandler ==
    ASSUME RouterIInv, NEW r \in Routers, NEW before \in 0 .. MaxSlashes, NEW after \in 0 .. MaxSlashes,
           NEW segs \in SegmentLists, NEW func \in Handlers, PathHandler(r, before, segs, after, func)
    PROVE  RouterIInv'
<1> DEFINE tree == callback_tree[r]
           table == routes[r]
           newtree == put(tree, JoinPath(segs), func)
           newtable == [s \in DOMAIN table \cup {segs} |-> IF s = segs THEN func ELSE table[s]]
<1>1. segs \in Routes /\ TrimString(Written(before, segs, after)) = JoinPath(segs)
  BY WrittenRoute
<1>2. /\ Register /\ callback_tree' = [callback_tree EXCEPT ![r] = newtree]
      /\ routes' = [routes EXCEPT ![r] = newtable]
  <2>1. r \in DOMAIN callback_tree /\ r \in DOMAIN routes
    BY DEF RouterIInv, RouterTypeOK
  <2> QED BY <1>1, <2>1 DEF PathHandler
<1>3. /\ IsTree(tree) /\ Joined(tree)
      /\ \A s \in DOMAIN table : /\ s \in Routes /\ table[s] \in Handlers
                                 /\ JoinPath(s) \in DOMAIN tree /\ tree[JoinPath(s)] = table[s]
      /\ \A p \in DOMAIN tree : tree[p] \in Handlers => \E s \in DOMAIN table : p = JoinPath(s)
  BY DEF RouterIInv, RouterTypeOK, Registered, HandlersRegistered, Routes
<1>4. /\ IsTree(newtree) /\ Joined(newtree)
      /\ JoinPath(segs) \in DOMAIN newtree /\ newtree[JoinPath(segs)] = func
      /\ \A p \in DOMAIN tree : p \in DOMAIN newtree /\ (p # JoinPath(segs) => newtree[p] = tree[p])
      /\ \A p \in DOMAIN newtree :
             newtree[p] \in Handlers => p = JoinPath(segs) \/ (p \in DOMAIN tree /\ newtree[p] = tree[p])
  BY <1>1, <1>3, PutTree
<1>5. /\ DOMAIN newtable = DOMAIN table \cup {segs} /\ newtable[segs] = func
      /\ \A s \in DOMAIN table \ {segs} : newtable[s] = table[s]
  OBVIOUS
<1> HIDE DEF tree, table, newtree, newtable
<1>6. ASSUME NEW s \in DOMAIN newtable
      PROVE  /\ s \in Routes /\ newtable[s] \in Handlers
             /\ JoinPath(s) \in DOMAIN newtree /\ newtree[JoinPath(s)] = newtable[s]
  <2>1. CASE s = segs
    BY <1>1, <1>4, <1>5, <2>1
  <2>2. CASE s # segs
    <3>1. s \in DOMAIN table /\ newtable[s] = table[s]
      BY <1>5, <2>2
    <3>2. JoinPath(s) # JoinPath(segs)
      BY <1>1, <1>3, <2>2, <3>1, JoinInjective
    <3> QED BY <1>3, <1>4, <3>1, <3>2
  <2> QED BY <2>1, <2>2
<1>7. \A p \in DOMAIN newtree : newtree[p] \in Handlers => \E s \in DOMAIN newtable : p = JoinPath(s)
  BY <1>3, <1>4, <1>5
<1> QED BY <1>2, <1>4, <1>6, <1>7, OneRouter

LEMMA RouterPathRouter ==
    ASSUME RouterIInv, NEW r \in Routers, NEW before \in 0 .. MaxSlashes, NEW after \in 0 .. MaxSlashes,
           NEW segs \in SegmentLists, NEW sub \in Routers, PathRouter(r, before, segs, after, sub)
    PROVE  RouterIInv'
<1> DEFINE tree == callback_tree[r]
           child == callback_tree[sub]
           table == routes[r]
           added == routes[sub]
           moved == {segs \o q : q \in DOMAIN added}
           kept == {s \in DOMAIN table : ~ IsPrefix(segs, s)}
           newtree == put_child(tree, JoinPath(segs), child)
           newtable == [s \in moved \cup kept |->
                IF s \in moved THEN added[SubSeq(s, Len(segs) + 1, Len(s))] ELSE table[s]]
<1>1. segs \in Routes /\ TrimString(Written(before, segs, after)) = JoinPath(segs)
  BY WrittenRoute
<1>2. /\ Register /\ callback_tree' = [callback_tree EXCEPT ![r] = newtree]
      /\ routes' = [routes EXCEPT ![r] = newtable]
  <2>1. r \in DOMAIN callback_tree /\ r \in DOMAIN routes
    BY DEF RouterIInv, RouterTypeOK
  <2> QED BY <1>1, <2>1 DEF PathRouter
<1>3. /\ IsTree(tree) /\ Joined(tree)
      /\ \A s \in DOMAIN table : /\ s \in Routes /\ table[s] \in Handlers
                                 /\ JoinPath(s) \in DOMAIN tree /\ tree[JoinPath(s)] = table[s]
      /\ \A p \in DOMAIN tree : tree[p] \in Handlers => \E s \in DOMAIN table : p = JoinPath(s)
  BY DEF RouterIInv, RouterTypeOK, Registered, HandlersRegistered, Routes
<1>4. /\ IsTree(child) /\ Joined(child)
      /\ \A s \in DOMAIN added : /\ s \in Routes /\ added[s] \in Handlers
                                 /\ JoinPath(s) \in DOMAIN child /\ child[JoinPath(s)] = added[s]
      /\ \A p \in DOMAIN child : child[p] \in Handlers => \E s \in DOMAIN added : p = JoinPath(s)
  BY DEF RouterIInv, RouterTypeOK, Registered, HandlersRegistered, Routes
<1>5. /\ IsTree(newtree) /\ Joined(newtree)
      /\ \A q \in Routes : JoinPath(q) \in DOMAIN child =>
             JoinPath(segs \o q) \in DOMAIN newtree /\ newtree[JoinPath(segs \o q)] = child[JoinPath(q)]
      /\ \A t \in Routes : JoinPath(t) \in DOMAIN tree /\ ~ IsPrefix(segs, t) =>
             JoinPath(t) \in DOMAIN newtree /\ newtree[JoinPath(t)] = tree[JoinPath(t)]
      /\ \A p \in DOMAIN newtree : newtree[p] \in Handlers =>
             \/ child[<<>>] \in Handlers
             \/ \E q \in Routes : p = JoinPath(segs \o q) /\ JoinPath(q) \in DOMAIN child
                                  /\ child[JoinPath(q)] \in Handlers
             \/ ~ Below(JoinPath(segs), p) /\ p \in DOMAIN tree /\ newtree[p] = tree[p]
  <2>1. IsTree(tree) /\ Joined(tree) /\ IsTree(child) /\ Joined(child)
    BY <1>3, <1>4
  <2>2. segs \in Routes
    BY <1>1
  <2> HIDE DEF tree, child
  <2>3. Replaced(tree, child, segs, newtree)
    BY <2>1, <2>2, PutChildTree
  <2> HIDE DEF newtree
  <2> QED BY <2>3 DEF Replaced
<1>6. child[<<>>] \notin Handlers
  <2>1. <<>> \in DOMAIN child
    BY <1>4 DEF IsTree
  <2>2. \A s \in DOMAIN added : JoinPath(s) # <<>>
    BY <1>4, JoinAt
  <2> QED BY <1>4, <2>1, <2>2
<1>7. ASSUME NEW q \in DOMAIN added
      PROVE  segs \o q \in DOMAIN newtable /\ newtable[segs \o q] = added[q]
  <2>1. q \in Routes
    BY <1>4
  <2>2. SubSeq(segs \o q, Len(segs) + 1, Len(segs \o q)) = q
    <3>1. segs \in Seq(Names) /\ q \in Seq(Names)
      BY <1>1, <2>1 DEF Routes
    <3>2. PICK u : u = segs \o q
      OBVIOUS
    <3>3. /\ u \in Seq(Names) /\ Len(u) = Len(segs) + Len(q) /\ Len(segs) \in Nat /\ Len(q) \in Nat
          /\ \A i \in 1 .. Len(q) : u[Len(segs) + i] = q[i]
      BY <3>1, <3>2, TwoParts
    <3>4. PICK c : c = SubSeq(u, Len(segs) + 1, Len(u))
      OBVIOUS
    <3>5. c \in Seq(Names) /\ Len(c) = Len(q) /\ \A i \in 1 .. Len(q) : c[i] = u[Len(segs) + i]
      <4>1. c \in Seq(Names) /\ Len(c) = Len(u) - (Len(segs) + 1) + 1
            /\ \A i \in 1 .. Len(c) : c[i] = u[(Len(segs) + 1) + i - 1]
        BY <3>3, <3>4
      <4>2. Len(c) = Len(q) /\ \A i \in 1 .. Len(q) : (Len(segs) + 1) + i - 1 = Len(segs) + i
        BY <3>3, <4>1
      <4> QED BY <4>1, <4>2
    <3>6. c = q
      BY <3>1, <3>3, <3>5, SeqEqual
    <3> QED BY <3>2, <3>4, <3>6
  <2>3. segs \o q \in moved
    OBVIOUS
  <2> HIDE DEF moved, kept, added, table, tree, child
  <2> QED BY <2>2, <2>3
<1>8. DOMAIN newtable = moved \cup kept /\ \A s \in kept \ moved : newtable[s] = table[s]
  <2> HIDE DEF moved, kept, added, table, tree, child
  <2> QED OBVIOUS
<1> HIDE DEF tree, child, table, added, newtree, newtable
<1>9. ASSUME NEW s \in DOMAIN newtable
      PROVE  /\ s \in Routes /\ newtable[s] \in Handlers
             /\ JoinPath(s) \in DOMAIN newtree /\ newtree[JoinPath(s)] = newtable[s]
  <2>1. CASE s \in moved
    <3>1. PICK q \in DOMAIN added : s = segs \o q
      BY <2>1
    <3>2. q \in Routes /\ added[q] \in Handlers /\ JoinPath(q) \in DOMAIN child /\ child[JoinPath(q)] = added[q]
      BY <1>4
    <3>3. s \in Routes
      BY <1>1, <3>1, <3>2, JoinUnder
    <3>4. newtable[s] = added[q]
      BY <1>7, <3>1
    <3>5. JoinPath(s) \in DOMAIN newtree /\ newtree[JoinPath(s)] = child[JoinPath(q)]
      BY <1>5, <3>1, <3>2
    <3> QED BY <3>2, <3>3, <3>4, <3>5
  <2>2. CASE s \notin moved
    <3>1. s \in kept /\ newtable[s] = table[s]
      BY <1>8, <2>2
    <3>2. s \in DOMAIN table /\ ~ IsPrefix(segs, s)
      BY <3>1
    <3> QED BY <1>3, <1>5, <3>1, <3>2
  <2> QED BY <2>1, <2>2
<1>10. ASSUME NEW p \in DOMAIN newtree, newtree[p] \in Handlers
       PROVE  \E s \in DOMAIN newtable : p = JoinPath(s)
  <2>1. ASSUME NEW q \in Routes, p = JoinPath(segs \o q), JoinPath(q) \in DOMAIN child,
               child[JoinPath(q)] \in Handlers
        PROVE  \E s \in DOMAIN newtable : p = JoinPath(s)
    <3>1. PICK v \in DOMAIN added : JoinPath(q) = JoinPath(v)
      BY <1>4, <2>1
    <3>2. q = v
      BY <1>4, <3>1, JoinInjective
    <3> QED BY <1>7, <2>1, <3>2
  <2>2. ASSUME ~ Below(JoinPath(segs), p), p \in DOMAIN tree, newtree[p] = tree[p]
        PROVE  \E s \in DOMAIN newtable : p = JoinPath(s)
    <3>1. PICK s \in DOMAIN table : p = JoinPath(s)
      BY <1>3, <1>10, <2>2
    <3>2. ~ IsPrefix(segs, s)
      BY <1>1, <1>3, <2>2, <3>1, BelowIsPrefix
    <3> QED BY <1>8, <3>1, <3>2
  <2> QED BY <1>5, <1>6, <1>10, <2>1, <2>2
<1> QED BY <1>2, <1>5, <1>9, <1>10, OneRouter

LEMMA RouterProcess ==
    ASSUME RouterIInv, NEW r \in Routers, NEW str \in RequestPaths, Process(r, str)
    PROVE  RouterIInv'
<1>1. UNCHANGED <<callback_tree, routes, paths>> /\ ran' = Callback(r, str)
  BY DEF Process
<1>2. Callback(r, str) \in Handlers \cup {NoHandler, NotFound}
  BY DEF RouterIInv, RouterTypeOK, IsTree, Callback, get
<1>3. RouterTypeOK'
  BY <1>1, <1>2 DEF RouterIInv, RouterTypeOK, IsTree
<1>4. Registered' /\ HandlersRegistered' /\ \A q \in Routers : Joined(callback_tree'[q])
  BY <1>1 DEF RouterIInv, Registered, HandlersRegistered
<1> QED BY <1>3, <1>4 DEF RouterIInv, Joined

LEMMA RouterStep == ASSUME RouterIInv, [RouterNext]_routerVars PROVE RouterIInv'
<1>1. CASE UNCHANGED routerVars
  BY <1>1 DEF routerVars, RouterIInv, RouterTypeOK, IsTree, Registered, HandlersRegistered, Joined
<1>2. CASE RouterNext
  <2>1. ASSUME NEW r \in Routers, NEW before \in 0 .. MaxSlashes, NEW after \in 0 .. MaxSlashes,
               NEW segs \in SegmentLists, NEW func \in Handlers, PathHandler(r, before, segs, after, func)
        PROVE  RouterIInv'
    BY <2>1, RouterPathHandler
  <2>2. ASSUME NEW r \in Routers, NEW before \in 0 .. MaxSlashes, NEW after \in 0 .. MaxSlashes,
               NEW segs \in SegmentLists, NEW sub \in Routers, PathRouter(r, before, segs, after, sub)
        PROVE  RouterIInv'
    BY <2>2, RouterPathRouter
  <2>3. ASSUME NEW r \in Routers, NEW str \in RequestPaths, Process(r, str) PROVE RouterIInv'
    BY <2>3, RouterProcess
  <2> QED BY <1>2, <2>1, <2>2, <2>3 DEF RouterNext
<1> QED BY <1>1, <1>2

\* What was registered is found.
LEMMA RouterFound == ASSUME RouterIInv PROVE RegisteredIsFound
<1> SUFFICES ASSUME NEW r \in Routers, NEW segs \in DOMAIN routes[r],
                    NEW before \in 0 .. MaxSlashes, NEW after \in 0 .. MaxSlashes
             PROVE  Callback(r, Written(before, segs, after)) = routes[r][segs]
  BY DEF RegisteredIsFound
<1>1. segs \in Routes /\ before \in Nat /\ after \in Nat
  BY RouterAssumption DEF RouterIInv, RouterTypeOK, Routes
<1>2. TrimString(Written(before, segs, after)) = JoinPath(segs)
  BY <1>1, TrimWritten
<1>3. JoinPath(segs) \in DOMAIN callback_tree[r] /\ callback_tree[r][JoinPath(segs)] = routes[r][segs]
  BY DEF RouterIInv, Registered
<1> QED BY <1>2, <1>3 DEF Callback, get

\* What is found was registered.
LEMMA RouterOnly == ASSUME RouterIInv PROVE OnlyRegisteredRuns
<1> SUFFICES ASSUME NEW r \in Routers, NEW str \in RequestPaths, Callback(r, str) \in Handlers
             PROVE  \E segs \in DOMAIN routes[r], before, after \in 0 .. MaxRequest :
                        /\ Callback(r, str) = routes[r][segs]
                        /\ str = Written(before, segs, after)
  BY DEF OnlyRegisteredRuns
<1>1. TrimString(str) \in DOMAIN callback_tree[r] /\ Callback(r, str) = callback_tree[r][TrimString(str)]
  BY RouterAssumption DEF Callback, get
<1>2. PICK segs \in DOMAIN routes[r] : TrimString(str) = JoinPath(segs)
  BY <1>1 DEF RouterIInv, HandlersRegistered
<1>3. Callback(r, str) = routes[r][segs]
  BY <1>1, <1>2 DEF RouterIInv, Registered
<1>4. segs \in Routes /\ JoinPath(segs) # <<>>
  <2>1. segs \in Routes
    BY DEF RouterIInv, RouterTypeOK, Routes
  <2> QED BY <2>1, JoinAt
<1>5. str \in Seq(Chars) /\ Len(str) \in 0 .. MaxRequest
  <2>1. PICK n \in 0 .. MaxRequest : str \in [1 .. n -> Chars]
    BY DEF RequestPaths, SeqOf, Chars
  <2> QED BY <2>1, RouterAssumption
<1>6. PICK before, after \in 0 .. Len(str) : str = Slashes(before) \o TrimString(str) \o Slashes(after)
  BY <1>2, <1>4, <1>5, TrimTakesSlashes
<1>7. before \in 0 .. MaxRequest /\ after \in 0 .. MaxRequest
  BY <1>5, RouterAssumption
<1>8. str = Written(before, segs, after)
  BY <1>2, <1>6 DEF Written
<1> QED BY <1>3, <1>7, <1>8

-----------------------------------------------------------------------------
\* A tree holds the paths of its nodes with everything that leads to them, and
\* a handler or none at each (server/Router.cpp:13-32).
THEOREM RouterTypesAlways == RouterSpec => []RouterTypeOK
<1>1. RouterIInv => RouterTypeOK
  BY DEF RouterIInv
<1> QED BY RouterInit, RouterStep, <1>1, PTL DEF RouterSpec

\* However many slashes are written before or after a path, when it is
\* registered with Path or when a request asks for it, Process finds its handler;
\* and so with the paths of a router that was put under another
\* (server/Router.cpp:14-39).
THEOREM RegisteredIsAlwaysFound == RouterSpec => []RegisteredIsFound
BY RouterInit, RouterStep, RouterFound, PTL DEF RouterSpec

\* A handler runs for no other path: neither for one that a later router
\* replaced (put_child, server/Router.cpp:30) nor for one with empty segments.
THEOREM OnlyRegisteredEverRuns == RouterSpec => []OnlyRegisteredRuns
BY RouterInit, RouterStep, RouterOnly, PTL DEF RouterSpec
=============================================================================
