------------------------------ MODULE Lifecycle ------------------------------
(***************************************************************************)
(* The server process from its start to its end: main and the signal       *)
(* handler of server/Main.cpp, the list of finalize callbacks in Utils.cpp *)
(* and the load and save of the two files in InitAccountHandlers and       *)
(* InitPostHandlers.  A signal runs DoFinalize inside the signal handler,  *)
(* between any two steps of main, and another signal may interrupt it.     *)
(* A request that changes what is saved is two writes to one tree, as are  *)
(* the two `add' of a confirmed friendship (Account.cpp:395) and           *)
(* `lastPostId' and the post itself (Post.cpp:109, 130).                   *)
(***************************************************************************)
EXTENDS Naturals, Sequences, SequencesExt

CONSTANTS
    Signals,     \* the signals with a handler: SIGTERM and SIGINT
    Torn,        \* what a file holds after its truncation and before its write
    MaxRequests, \* bound: requests that change a tree, in all runs
    MaxSignals,  \* bound: signals in one run of the process
    MaxRuns,     \* bound: starts of the process
    MaxKills     \* bound: kills (a kill, a crash, a power failure)

Services == {"account", "post"}
Requests == 1 .. MaxRequests
Writes == Requests \X {1, 2}

Startup == {"open", "loadAccount", "addAccount", "loadPost", "addPost", "routes"}
Serving == {"first", "second", "send"}
Loop == {"check", "set", "select", "waiting", "isset", "recv"} \union Serving
Ended == {"exited", "killed"}

ASSUME LifecycleAssumption ==
    /\ MaxRequests \in Nat /\ MaxSignals \in Nat /\ MaxKills \in Nat /\ MaxRuns \in Nat \ {0}
    /\ \A writes \in SUBSET Writes : Torn # writes

VARIABLES
    pc,           \* where main is
    finalizers,   \* FinalizeCallbacks
    frames,       \* running signal handlers, the innermost one last
    inSet,        \* serverFd is in fds
    watched,      \* serverFd is in the set the kernel was given by select
    socketClosed,
    terminated,   \* the flag of the loop
    memory,       \* service -> the writes its tree has seen
    files,        \* service -> the writes in its file, or Torn
    request,      \* the last request that came: its number and its service
    runs, kills, signals, \* counters for the bounds
    answered,     \* history: requests answered, less those a kill has lost
    needs,        \* history: post request -> accounts that were there when it came
    told,         \* history: a signal came after main had pushed its last callback
    cut           \* history: a kill has hit a running DoFinalize

mainVars == <<pc, finalizers, inSet, watched, memory, request, answered, needs>>
signalVars == <<frames, socketClosed, terminated, files>>
historyVars == <<runs, kills, signals, told, cut>>
vars == <<mainVars, signalVars, historyVars>>

Alive == pc \notin Ended
Whole(r, writes) == {<<r, 1>>, <<r, 2>>} \subseteq writes
Durable(r) == \E s \in Services : files[s] # Torn /\ Whole(r, files[s])

Frame == [signal : Signals, at : 1 .. 5, open : BOOLEAN]

LifecycleTypeOK ==
    /\ pc \in Startup \union Loop \union Ended
    /\ finalizers \in Seq({"close", "account", "post", "stop"})
    /\ frames \in Seq(Frame)
    /\ \A i, j \in DOMAIN frames : frames[i].signal = frames[j].signal => i = j
    /\ {inSet, watched, socketClosed, terminated, told, cut} \subseteq BOOLEAN
    /\ memory \in [Services -> SUBSET Writes]
    /\ files \in [Services -> (SUBSET Writes) \union {Torn}]
    /\ request \in [id : 0 .. MaxRequests, service : Services]
    /\ runs \in 1 .. MaxRuns /\ kills \in 0 .. MaxKills /\ signals \in 0 .. MaxSignals
    /\ answered \subseteq Requests
    /\ needs \in [Requests -> SUBSET Requests]

\* main at Main.cpp:65: the handlers are installed, nothing else is done.
InitLifecycle ==
    /\ pc = "open"
    /\ finalizers = <<>> /\ frames = <<>>
    /\ inSet = FALSE /\ watched = FALSE /\ socketClosed = FALSE /\ terminated = FALSE
    /\ memory = [s \in Services |-> {}]
    /\ signals = 0 /\ told = FALSE
    /\ files = [s \in Services |-> {}]
    /\ request = [id |-> 0, service |-> "account"]
    /\ runs = 1 /\ kills = 0
    /\ answered = {} /\ needs = [r \in Requests |-> {}] /\ cut = FALSE

-----------------------------------------------------------------------------
(* Startup. *)

Goto(from, to) == pc = from /\ pc' = to

\* Mutant AddReplaces: the list is assigned.
AddReplaces(callback) == finalizers' = <<callback>>

AddFinalizeCallback(callback) == finalizers' = <<callback>> \o finalizers
PushBackFinalizeCallback(callback) == finalizers' = Append(finalizers, callback)

Add(from, to, callback) ==
    /\ Goto(from, to)
    /\ AddFinalizeCallback(callback)
    /\ UNCHANGED <<inSet, watched, memory, request, answered, needs, signalVars, historyVars>>

\* A file that was cut off is refused by read_json and loads as an empty tree.
\* Mutant LoadNothing: the file is not read.
LoadNothing(from, to, s) ==
    /\ Goto(from, to)
    /\ UNCHANGED <<finalizers, inSet, watched, memory, request, answered, needs,
                   signalVars, historyVars>>

Load(from, to, s) ==
    /\ Goto(from, to)
    /\ memory' = [memory EXCEPT ![s] = IF files[s] = Torn THEN {} ELSE files[s]]
    /\ UNCHANGED <<finalizers, inSet, watched, request, answered, needs,
                   signalVars, historyVars>>

Ready ==
    /\ Goto("routes", "check")
    /\ PushBackFinalizeCallback("stop")
    /\ UNCHANGED <<inSet, watched, memory, request, answered, needs, signalVars, historyVars>>

StartupStep ==
    \/ Add("open", "loadAccount", "close")
    \/ Load("loadAccount", "addAccount", "account")
    \/ Add("addAccount", "loadPost", "account")
    \/ Load("loadPost", "addPost", "post")
    \/ Add("addPost", "routes", "post")
    \/ Ready

-----------------------------------------------------------------------------
(* The listener loop. *)

Check ==
    /\ pc = "check"
    /\ pc' = IF terminated THEN "exited" ELSE "set"
    /\ UNCHANGED <<finalizers, inSet, watched, memory, request, answered, needs,
                   signalVars, historyVars>>

\* FD_SET, then the call of select, which fails at once on a closed descriptor.
FdSet ==
    /\ Goto("set", "select")
    /\ inSet' = TRUE
    /\ UNCHANGED <<finalizers, watched, memory, request, answered, needs,
                   signalVars, historyVars>>

Select ==
    /\ pc = "select"
    /\ pc' = IF inSet /\ socketClosed THEN "check" ELSE "waiting"
    /\ watched' = inSet
    /\ UNCHANGED <<finalizers, inSet, memory, request, answered, needs,
                   signalVars, historyVars>>

IsSet ==
    /\ pc = "isset"
    /\ pc' = IF inSet THEN "recv" ELSE "check"
    /\ UNCHANGED <<finalizers, inSet, watched, memory, request, answered, needs,
                   signalVars, historyVars>>

\* recvfrom fails, the packet is refused or has no handler, or its handler saves nothing.
RecvNothing ==
    /\ Goto("recv", "check")
    /\ UNCHANGED <<finalizers, inSet, watched, memory, request, answered, needs,
                   signalVars, historyVars>>

Recv ==
    /\ Goto("recv", "first")
    /\ ~socketClosed
    /\ request.id < MaxRequests
    /\ \E s \in Services :
        /\ request' = [id |-> request.id + 1, service |-> s]
        /\ needs' = IF s = "account" THEN needs ELSE
            [needs EXCEPT ![request'.id] = {r \in Requests : Whole(r, memory["account"])}]
    /\ UNCHANGED <<finalizers, inSet, watched, memory, answered, signalVars, historyVars>>

Handle(from, to, half) ==
    /\ Goto(from, to)
    /\ memory' = [memory EXCEPT ![request.service] = @ \union {<<request.id, half>>}]
    /\ UNCHANGED <<finalizers, inSet, watched, request, answered, needs,
                   signalVars, historyVars>>

\* Mutant SendAnyway: the answer is sent from a socket that is still open.
SendAnyway ==
    /\ Goto("send", "check")
    /\ answered' = answered \union {request.id}
    /\ UNCHANGED <<finalizers, inSet, watched, memory, request, needs,
                   signalVars, historyVars>>

\* sendto fails on a closed socket; its result is not looked at.
Send ==
    /\ Goto("send", "check")
    /\ answered' = IF socketClosed THEN answered ELSE answered \union {request.id}
    /\ UNCHANGED <<finalizers, inSet, watched, memory, request, needs,
                   signalVars, historyVars>>

LoopStep ==
    \/ Check \/ FdSet \/ Select \/ IsSet \/ RecvNothing \/ Recv
    \/ Handle("first", "second", 1) \/ Handle("second", "send", 2)
    \/ Send

MainStep == frames = <<>> /\ (StartupStep \/ LoopStep)

\* A datagram comes while main is in select.
Datagram ==
    /\ frames = <<>>
    /\ watched /\ ~socketClosed
    /\ Goto("waiting", "isset")
    /\ UNCHANGED <<finalizers, inSet, watched, memory, request, answered, needs,
                   signalVars, historyVars>>

-----------------------------------------------------------------------------
(* Signals: sigKillHandle runs DoFinalize.  A signal is blocked while its own *)
(* handler runs, the other one is not.                                        *)

Signal ==
    /\ Alive /\ signals < MaxSignals
    /\ \E g \in Signals \ {frames[i].signal : i \in DOMAIN frames} :
        frames' = Append(frames, [signal |-> g, at |-> 1, open |-> FALSE])
    /\ signals' = signals + 1
    /\ told' = (told \/ pc \notin Startup)
    /\ UNCHANGED <<mainVars, socketClosed, terminated, files, runs, kills, cut>>

Top == Last(frames)
Running(callback) ==
    frames # <<>> /\ Alive /\ Top.at <= Len(finalizers) /\ finalizers[Top.at] = callback
SetTop(frame) == frames' = [frames EXCEPT ![Len(frames)] = frame]

\* The innermost DoFinalize goes on to its next callback.
GoOn == SetTop([Top EXCEPT !.at = @ + 1, !.open = FALSE])

Close ==
    /\ Running("close")
    /\ inSet' = FALSE /\ socketClosed' = TRUE
    /\ GoOn
    /\ UNCHANGED <<pc, finalizers, watched, memory, request, answered, needs,
                   terminated, files, historyVars>>

\* write_json truncates the file, then fills it.
OpenFile(s) ==
    /\ Running(s) /\ ~Top.open
    /\ files' = [files EXCEPT ![s] = Torn]
    /\ SetTop([Top EXCEPT !.open = TRUE])
    /\ UNCHANGED <<mainVars, socketClosed, terminated, historyVars>>

WriteFile(s) ==
    /\ Running(s) /\ Top.open
    /\ files' = [files EXCEPT ![s] = memory[s]]
    /\ GoOn
    /\ UNCHANGED <<mainVars, socketClosed, terminated, historyVars>>

Stop ==
    /\ Running("stop")
    /\ terminated' = TRUE
    /\ GoOn
    /\ UNCHANGED <<mainVars, socketClosed, files, historyVars>>

\* The end of the list. select, if main was in it, returns with EINTR; recvfrom and
\* the writes of a handler go on where they were.
\* Mutant Resume: select is restarted like the other calls.
Resume ==
    /\ frames # <<>> /\ Alive /\ Top.at > Len(finalizers)
    /\ frames' = Front(frames)
    /\ UNCHANGED <<mainVars, socketClosed, terminated, files, historyVars>>

Return ==
    /\ frames # <<>> /\ Alive /\ Top.at > Len(finalizers)
    /\ frames' = Front(frames)
    /\ pc' = IF frames' = <<>> /\ pc = "waiting" THEN "check" ELSE pc
    /\ UNCHANGED <<finalizers, inSet, watched, memory, request, answered, needs,
                   socketClosed, terminated, files, historyVars>>

HandlerStep ==
    \/ Close \/ Stop \/ Return
    \/ \E s \in Services : OpenFile(s) \/ WriteFile(s)

-----------------------------------------------------------------------------
(* A kill leaves what is in the files, and nobody is promised more. *)

Kill ==
    /\ Alive /\ kills < MaxKills
    /\ pc' = "killed"
    /\ kills' = kills + 1
    /\ answered' = {r \in answered : Durable(r)}
    /\ cut' = (cut \/ frames # <<>>)
    /\ UNCHANGED <<finalizers, inSet, watched, memory, request, needs, signalVars,
                   runs, signals, told>>

Restart ==
    /\ ~Alive /\ runs < MaxRuns
    /\ pc' = "open"
    /\ finalizers' = <<>> /\ frames' = <<>>
    /\ inSet' = FALSE /\ watched' = FALSE /\ socketClosed' = FALSE /\ terminated' = FALSE
    /\ memory' = [s \in Services |-> {}]
    /\ signals' = 0 /\ told' = FALSE
    /\ runs' = runs + 1
    /\ UNCHANGED <<files, request, kills, answered, needs, cut>>

LifecycleNext == MainStep \/ Datagram \/ Signal \/ HandlerStep \/ Kill \/ Restart

\* The operating system runs the thread: main when no handler runs, else the handler.
\* Nothing is assumed of datagrams, signals, kills and restarts.
LifecycleSpec ==
    InitLifecycle /\ [][LifecycleNext]_vars /\ WF_vars(MainStep) /\ WF_vars(HandlerStep)

-----------------------------------------------------------------------------
(* Properties. *)

\* When the process has ended by itself, every request that was ever answered is whole in
\* its file: no signal, at whatever step of a handler, of the startup or of another save,
\* makes a stop forget what a client was told is done (server/Main.cpp:33-36, 98-142).
AnsweredIsSaved == pc = "exited" => \A r \in answered : Durable(r)

\* A stop loses at most the one request that a signal interrupted, and that one was not
\* answered: everything else in memory is in the files, half changes included.
StopLosesOnlyInterrupted ==
    pc = "exited" => \A s \in Services :
        /\ files[s] # Torn /\ files[s] \subseteq memory[s]
        /\ \A w \in memory[s] \ files[s] : w[1] = request.id /\ w[1] \notin answered

\* The post file names no poster whose account is not in the account file, although the
\* two are written one after the other, posts first: unless DoFinalize itself was cut off
\* (server/Main.cpp:82-83, Utils.cpp:18-20).
PostsHavePosters ==
    ~cut /\ frames = <<>> => \A w \in files["post"] :
        \A a \in needs[w[1]] : Whole(a, files["account"])

\* main waits in select for nothing, without a timeout.
Asleep == pc = "waiting" /\ ~watched /\ frames = <<>>

\* A signal that finds the list complete ends the process, unless it came between FD_SET and
\* select (Main.cpp:99-101): then main sleeps, with everything saved.
EndsUnlessAsleep == told ~> (~Alive \/ Asleep)
=============================================================================
