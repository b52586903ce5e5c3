------------------------------- MODULE Router -------------------------------
(***************************************************************************)
(* server/Router.cpp: a tree of handlers, filled by Path with handlers and *)
(* with other routers, and looked up by Process.  A path is a string, here *)
(* a sequence over "/" and the names, each a single character; the tree is *)
(* a boost property tree, here a function on the paths of its nodes.  A    *)
(* property tree splits a path at each separator, so that different paths  *)
(* without one at the ends lead to different nodes, and the path itself    *)
(* can stand for its node.                                                 *)
(***************************************************************************)
EXTENDS Naturals, Sequences, SequencesExt

CONSTANTS
    Routers,        \* router objects
    Handlers,       \* the functions that are registered
    NoHandler,      \* an empty HandleFunc: the data of a node that Path only passed through
    NotFound,       \* NotFoundHandler
    Idle,           \* no request so far
    Names,          \* the segments of the paths that are registered, one character each
    MaxSegments,    \* bound: segments of a path that is registered
    MaxSlashes,     \* bound: slashes before or after it
    MaxRequest,     \* bound: length of the path of a request
    MaxPaths        \* bound: calls of Path

ASSUME RouterAssumption ==
    /\ NoHandler \notin Handlers /\ NotFound \notin Handlers /\ NoHandler # NotFound
    /\ Idle \notin Handlers \cup {NoHandler, NotFound}
    /\ "/" \notin Names
    /\ MaxSegments \in Nat \ {0} /\ MaxSlashes \in Nat
    /\ MaxRequest \in Nat /\ MaxPaths \in Nat

VARIABLES
    callback_tree,  \* router -> its tree: path of a node -> its handler
    ran,            \* what the last request called, Idle before the first
    routes,         \* history: router -> the routes that were registered, by their segments
    paths           \* how many calls of Path there have been

routerVars == <<callback_tree, ran, routes, paths>>

SegmentLists == SeqOf(Names, MaxSegments) \ {<<>>}
RequestPaths == SeqOf(Names \cup {"/"}, MaxRequest)
Slashes(n) == [i \in 1 .. n |-> "/"]

\* Mutant: the slashes at the end stay.
TrimFront(str) ==
    IF \A i \in DOMAIN str : str[i] = "/" THEN <<>>
    ELSE SubSeq(str, CHOOSE i \in DOMAIN str :
                         str[i] # "/" /\ \A j \in 1 .. i - 1 : str[j] = "/", Len(str))

TrimString(str) ==
    LET kept == {i \in DOMAIN str : str[i] # "/"} IN
    IF kept = {} THEN <<>>
    ELSE SubSeq(str, CHOOSE i \in kept : \A j \in kept : i <= j,
                     CHOOSE i \in kept : \A j \in kept : j <= i)

\* A slash between one segment and the next.
JoinPath(segs) ==
    [i \in 1 .. 2 * Len(segs) - 1 |-> IF i % 2 = 1 THEN segs[(i + 1) \div 2] ELSE "/"]

\* A path of these segments as a caller may write it.
Written(before, segs, after) == Slashes(before) \o JoinPath(segs) \o Slashes(after)

\* A Router as it is constructed: the root, without a handler.
EmptyTree == [p \in {<<>>} |-> NoHandler]

\* The nodes that a path leads through: the root, those before its separators, its own.
Through(path) ==
    {<<>>, path} \cup {SubSeq(path, 1, i - 1) : i \in {j \in DOMAIN path : path[j] = "/"}}

\* These nodes, made without a handler where there are none.
Forced(tree, path) ==
    [p \in DOMAIN tree \cup Through(path) |-> IF p \in DOMAIN tree THEN tree[p] ELSE NoHandler]

put(tree, path, func) == [Forced(tree, path) EXCEPT ![path] = func]

\* Node q of a tree that is put under a path, and what was there before.
Under(path, q) == IF q = <<>> THEN path ELSE path \o <<"/">> \o q
Below(path, p) == p = path \/ IsPrefix(Append(path, "/"), p)

Grafted(tree, path, child, kept) ==
    LET grafted == {Under(path, q) : q \in DOMAIN child} IN
    [p \in grafted \cup kept |->
        IF p \in grafted THEN child[SubSeq(p, Len(path) + 2, Len(p))] ELSE Forced(tree, path)[p]]

\* Mutant: what was under the path stays there.
put_child_merged(tree, path, child) ==
    Grafted(tree, path, child, DOMAIN Forced(tree, path))

put_child(tree, path, child) ==
    Grafted(tree, path, child, {p \in DOMAIN Forced(tree, path) : ~Below(path, p)})

get(tree, path) == IF path \in DOMAIN tree THEN tree[path] ELSE NotFound

\* A node has those before it, and a handler or none.
IsTree(tree) ==
    /\ <<>> \in DOMAIN tree
    /\ \A p \in DOMAIN tree :
           /\ p \in Seq(Names \cup {"/"}) /\ tree[p] \in Handlers \cup {NoHandler}
           /\ Through(p) \subseteq DOMAIN tree

RouterTypeOK ==
    /\ DOMAIN callback_tree = Routers /\ \A r \in Routers : IsTree(callback_tree[r])
    /\ DOMAIN routes = Routers
    /\ \A r \in Routers : \A segs \in DOMAIN routes[r] :
           segs \in Seq(Names) \ {<<>>} /\ routes[r][segs] \in Handlers
    /\ ran \in Handlers \cup {NoHandler, NotFound, Idle}
    /\ paths \in 0 .. MaxPaths

InitRouter ==
    /\ callback_tree = [r \in Routers |-> EmptyTree]
    /\ routes = [r \in Routers |-> [s \in {} |-> NoHandler]]
    /\ ran = Idle /\ paths = 0

\* Path is called by main, before the first request.
Register == ran = Idle /\ paths < MaxPaths /\ paths' = paths + 1 /\ UNCHANGED ran

PathHandler(r, before, segs, after, func) ==
    LET path == TrimString(Written(before, segs, after)) IN
    /\ Register
    /\ callback_tree' = [callback_tree EXCEPT ![r] = put(@, path, func)]
    /\ routes' = [routes EXCEPT ![r] =
           [s \in DOMAIN @ \cup {segs} |-> IF s = segs THEN func ELSE @[s]]]

\* The tree of the sub-router is copied: what it is given later is not seen here.
PathRouter(r, before, segs, after, sub) ==
    LET path == TrimString(Written(before, segs, after))
        moved == {segs \o q : q \in DOMAIN routes[sub]}
        kept == {s \in DOMAIN routes[r] : ~IsPrefix(segs, s)}
    IN
    /\ Register
    /\ callback_tree' = [callback_tree EXCEPT ![r] = put_child(@, path, callback_tree[sub])]
    /\ routes' = [routes EXCEPT ![r] =
           [s \in moved \cup kept |->
                IF s \in moved THEN routes[sub][SubSeq(s, Len(segs) + 1, Len(s))] ELSE @[s]]]

Callback(r, str) == get(callback_tree[r], TrimString(str))

\* To call an empty function throws; nothing catches it.
Process(r, str) ==
    /\ ran # NoHandler
    /\ ran' = Callback(r, str)
    /\ UNCHANGED <<callback_tree, routes, paths>>

RouterNext ==
    \/ \E r \in Routers, before, after \in 0 .. MaxSlashes, segs \in SegmentLists :
           \/ \E func \in Handlers : PathHandler(r, before, segs, after, func)
           \/ \E sub \in Routers \ {r} : PathRouter(r, before, segs, after, sub)
    \/ \E r \in Routers, str \in RequestPaths : Process(r, str)

RouterSpec == InitRouter /\ [][RouterNext]_routerVars

-----------------------------------------------------------------------------
\* Whatever slashes stand before and after a path when it is registered, when a
\* router is put under it, and when it is asked for, the handler is found: the
\* purpose of the trimming explained at Router.cpp:14-22.
RegisteredIsFound ==
    \A r \in Routers : \A segs \in DOMAIN routes[r], before, after \in 0 .. MaxSlashes :
        Callback(r, Written(before, segs, after)) = routes[r][segs]

\* A handler runs only for a path it was registered for, and not for one a later
\* router took the place of (put_child, Router.cpp:30), nor for one with empty
\* segments inside.
OnlyRegisteredRuns ==
    \A r \in Routers, str \in RequestPaths :
        Callback(r, str) \in Handlers =>
            \E segs \in DOMAIN routes[r], before, after \in 0 .. MaxRequest :
                /\ Callback(r, str) = routes[r][segs]
                /\ str = Written(before, segs, after)
=============================================================================
