------------------------------ MODULE Screens ------------------------------
(***************************************************************************)
(* The client: client/Main.cpp calls the handler of the screen it is on    *)
(* and goes to the screen the handler returns, until that is QUIT.  The    *)
(* handlers share the globals of client/Context.cpp: who is logged in, the *)
(* post and the comment looked at, and the lists the last answers showed.  *)
(*                                                                         *)
(* The server is as much of it as these handlers can tell: whether the     *)
(* token is alive, and the board of posts, which other clients change      *)
(* between any two requests.  Every request is an OK answer, an error, or  *)
(* a fault of the transport: no answer (n_bytes < 0), or a resent request  *)
(* that was executed twice.  An answer is the answer to its own request,   *)
(* which Transport shows up to the first failure; what a screen makes of   *)
(* a stray answer after one is not modelled.  The message window is        *)
(* MessageWindow's matter.                                                 *)
(***************************************************************************)
EXTENDS Naturals, Integers, Sequences, SequencesExt

CONSTANTS
    Users,
    NoUser,         \* the empty Username of a client that never logged in
    NoPost,         \* "bad path" in the server's ptree
    MaxPosts,       \* bound: post ids
    MaxComments,    \* bound: comments of a post
    MaxList,        \* bound: names in a list of friends or of requests
    MaxChannels,    \* bound: channels in an answer
    MaxFaults,      \* bound: requests the transport fails or doubles
    MaxRestarts,    \* bound: restarts of the server
    MainKeys        \* bound: the keys the user ever presses at MAIN

ASSUME ScreensAssumption ==
    /\ MaxPosts \in Nat /\ MaxComments \in Nat /\ MaxList \in Nat /\ MaxChannels \in Nat
    /\ MaxFaults \in Nat /\ MaxRestarts \in Nat
    /\ NoUser \notin Users
    /\ "l" \in MainKeys

PostIds == 1 .. MaxPosts
PostInfo == [poster : Users, open : BOOLEAN, comments : 0 .. MaxComments]
ASSUME NoPostAssumption == NoPost \notin PostInfo

VARIABLES
    screen,         \* main's variable of that name
    Username,       \* who logged in last; logging out does not clear it
    CurrentPid, MaxPid, CurrentCid, MaxCid,
    PendingFriends, \* [from, of, count]: which answer filled it, for whom, and its size
    Channels,       \* [of, types]: for whom, and GROUP or PRIVATE of each channel
    cinFailed,      \* std::cin has failed once, and nobody clears it
    live,           \* the server knows CurrentTokenStr
    orphans,        \* sessions of this client the server has and the client lost
    board, LastPostId,  \* the server's posts: id -> PostInfo or NoPost
    faults, restarts,   \* how many there have been
    leaving         \* the user has decided to leave

posVars == <<CurrentPid, MaxPid, CurrentCid, MaxCid>>
listVars == <<PendingFriends, Channels>>
sessionVars == <<Username, live, orphans>>
boardVars == <<board, LastPostId>>
vars == <<screen, posVars, listVars, sessionVars, boardVars, cinFailed, faults, restarts, leaving>>

-----------------------------------------------------------------------------
(* Where a key leads from the screens that only ask for one.  "other" is any  *)
(* unrecognized key.                                                          *)

Menu == [ENTRY |-> [r |-> "REGISTER", l |-> "LOGIN", q |-> "QUIT", other |-> "STAY"],
         MAIN |-> [a |-> "ADD_POST", v |-> "VIEW_NEXT_POST", l |-> "LOGOUT",
                   s |-> "SEARCH_ACCOUNT", f |-> "FRIEND_ENTRY", p |-> "GET_PROFILE",
                   m |-> "MSG_ENTRY", other |-> "STAY"],
         FRIEND_ENTRY |-> [a |-> "ADD_FRIEND", v |-> "VIEW_FRIENDS",
                           r |-> "VIEW_PENDING_FRIENDS", b |-> "MAIN", other |-> "MAIN"],
         MSG_ENTRY |-> [g |-> "MSG_CREATE_GROUP_CHANNEL", p |-> "MSG_CREATE_PRIVATE_CHANNEL",
                        c |-> "MSG_VIEW_CHANNELS", j |-> "MSG_JOIN_GROUP", b |-> "MAIN",
                        other |-> "STAY"]]

\* Where the answer leads from the screens that ask for text, send it and print
\* the status. "lost" is n_bytes < 0.
Form == [ADD_POST |-> [OK |-> "MAIN", error |-> "MAIN", lost |-> "STAY"],
         EDIT_PROFILE |-> [OK |-> "GET_PROFILE", error |-> "GET_PROFILE", lost |-> "GET_PROFILE"],
         SEARCH_ACCOUNT |-> [OK |-> "MAIN", error |-> "MAIN", lost |-> "MAIN"],
         ADD_FRIEND |-> [OK |-> "FRIEND_ENTRY", error |-> "FRIEND_ENTRY", lost |-> "FRIEND_ENTRY"],
         MSG_CREATE_PRIVATE_CHANNEL |->
            [OK |-> "MSG_MAIN_WINDOW", error |-> "MSG_ENTRY", lost |-> "MSG_ENTRY"],
         MSG_CREATE_GROUP_CHANNEL |->
            [OK |-> "MSG_MAIN_WINDOW", error |-> "MSG_ENTRY", lost |-> "MSG_ENTRY"],
         MSG_JOIN_GROUP |-> [OK |-> "MSG_VIEW_CHANNELS", error |-> "MSG_ENTRY", lost |-> "MSG_ENTRY"]]

PostScreens == {"VIEW_NEXT_POST", "VIEW_PREV_POST"}
CommentScreens == {"VIEW_NEXT_COMMENTS", "VIEW_PREV_COMMENTS"}
OnPostScreens == CommentScreens
    \cup {"EDIT_POST", "REMOVE_POST", "ADD_COMMENT", "LIKE_POST", "UNLIKE_POST"}
AllScreens == DOMAIN Menu \cup DOMAIN Form \cup PostScreens \cup OnPostScreens
    \cup {"REGISTER", "LOGIN", "LOGOUT", "QUIT", "GET_PROFILE", "VIEW_FRIENDS",
          "VIEW_PENDING_FRIENDS", "CONFIRM_PENDING_FRIEND", "MSG_VIEW_CHANNELS",
          "MSG_JOIN_CHANNEL", "MSG_LEAVE_GROUP", "MSG_MAIN_WINDOW", "CRASHED"}

\* The client is gone: main has returned, or a handler has used a null pointer.
Ended == {"QUIT", "CRASHED"}

NoFriends == [from |-> "none", of |-> NoUser, count |-> 0]
NoChannels == [of |-> NoUser, types |-> <<>>]

ScreensTypeOK ==
    /\ screen \in AllScreens
    /\ Username \in Users \cup {NoUser}
    /\ CurrentPid \in {-1} \cup 0 .. MaxPosts /\ MaxPid \in {-1} \cup 0 .. MaxPosts
    /\ CurrentCid \in {-1} \cup 0 .. MaxComments /\ MaxCid \in {-1} \cup 0 .. MaxComments
    /\ PendingFriends \in [from : {"none", "friends", "requests"}, of : Users \cup {NoUser},
                           count : 0 .. MaxList]
    /\ Channels.of \in Users \cup {NoUser}
    /\ Channels.types \in Seq({"GROUP", "PRIVATE"})
    /\ live \in BOOLEAN /\ cinFailed \in BOOLEAN /\ leaving \in BOOLEAN
    /\ orphans \in Nat /\ faults \in 0 .. MaxFaults /\ restarts \in 0 .. MaxRestarts
    /\ LastPostId \in 0 .. MaxPosts
    /\ board \in [PostIds -> PostInfo \cup {NoPost}]

InitScreens ==
    /\ screen = "ENTRY"
    /\ Username = NoUser
    /\ CurrentPid = -1 /\ MaxPid = -1 /\ CurrentCid = -1 /\ MaxCid = -1
    /\ PendingFriends = NoFriends
    /\ Channels = NoChannels
    /\ live = FALSE /\ orphans = 0
    /\ board = [i \in PostIds |-> NoPost] /\ LastPostId = 0
    /\ cinFailed = FALSE /\ faults = 0 /\ restarts = 0 /\ leaving = FALSE

-----------------------------------------------------------------------------
(* main's loop, the user and the transport.                                  *)

\* A handler's return value.
Goto(next) == screen' = IF next = "STAY" THEN screen ELSE next

\* Once std::cin has failed a prompt reads whatever the variable held. Otherwise
\* a user who wants to leave presses the key that leads out.
Pressed(key, exit) == leaving /\ ~cinFailed => key = exit

\* Free text never fails; a number does where letters are typed.
CinStays == UNCHANGED cinFailed
CinFails == ~leaving /\ cinFailed' = TRUE

Delivered == UNCHANGED faults
Fault == faults < MaxFaults /\ faults' = faults + 1

PressKey ==
    /\ screen \in DOMAIN Menu
    /\ \E key \in DOMAIN Menu[screen] :
          /\ Pressed(key, IF screen = "ENTRY" THEN "q" ELSE IF screen = "MAIN" THEN "l" ELSE "b")
          /\ screen = "MAIN" => key \in MainKeys
          /\ Goto(Menu[screen][key])
    /\ UNCHANGED <<posVars, listVars, sessionVars, boardVars, cinFailed, faults, restarts, leaving>>

\* The server has put a post of u on the board.
Posted(u, open) ==
    /\ LastPostId < MaxPosts
    /\ LastPostId' = LastPostId + 1
    /\ board' = [board EXCEPT ![LastPostId + 1] = [poster |-> u, open |-> open, comments |-> 0]]

\* The answers that are read as an error. One about a group's name is read as OK,
\* see GroupNameTaken.
ErrorIsRead == screen = "MSG_CREATE_GROUP_CHANNEL" => ~live

\* A new post is open to all. A fault is a request without an answer, executed
\* or not; whatever else a form changes at the server is not modelled here.
FillIn ==
    /\ screen \in DOMAIN Form
    /\ screen = "MSG_CREATE_GROUP_CHANNEL" => ~cinFailed
    /\ \/ /\ live /\ Delivered /\ Goto(Form[screen].OK)
          /\ IF screen = "ADD_POST" THEN Posted(Username, TRUE) ELSE UNCHANGED boardVars
       \/ ErrorIsRead /\ Delivered /\ Goto(Form[screen].error) /\ UNCHANGED boardVars
       \/ /\ Fault /\ Goto(Form[screen].lost)
          /\ \/ UNCHANGED boardVars
             \/ live /\ screen = "ADD_POST" /\ Posted(Username, TRUE)
    /\ \/ CinStays
       \/ screen = "EDIT_PROFILE" /\ CinFails
    /\ UNCHANGED <<posVars, listVars, sessionVars, restarts, leaving>>

\* A group of that name is there, perhaps since the first execution of a doubled
\* request. The server answers with a GeneralResponse; read as a
\* CreateChannelResponse, whose status has another slot, it is OK and names no
\* channel, and the handler uses the missing name.
GroupNameTaken ==
    /\ screen = "MSG_CREATE_GROUP_CHANNEL"
    /\ live /\ ~cinFailed
    /\ Delivered \/ Fault
    /\ Goto("CRASHED")
    /\ UNCHANGED <<posVars, listVars, sessionVars, boardVars, cinFailed, restarts, leaving>>

\* An empty group name sends nothing.
NoGroupName ==
    /\ screen = "MSG_CREATE_GROUP_CHANNEL"
    /\ cinFailed
    /\ Goto("STAY")
    /\ UNCHANGED <<posVars, listVars, sessionVars, boardVars, cinFailed, faults, restarts, leaving>>

-----------------------------------------------------------------------------
(* client/Account.cpp.                                                       *)

Welcome(u) == live' = TRUE /\ Username' = u

\* A doubled login makes a second session; so does one whose answer is lost,
\* and the client knows the token of neither.
handleLogin ==
    /\ screen = "LOGIN"
    /\ \E u \in Users :
          \/ Delivered /\ Goto("MAIN") /\ Welcome(u) /\ UNCHANGED orphans
          \/ Delivered /\ Goto("ENTRY") /\ UNCHANGED sessionVars
          \/ Fault /\ Goto("MAIN") /\ Welcome(u) /\ orphans' = orphans + 1
          \/ Fault /\ Goto("STAY") /\ orphans' \in {orphans, orphans + 1} /\ UNCHANGED <<live, Username>>
    /\ UNCHANGED <<posVars, listVars, boardVars, cinFailed, restarts, leaving>>

\* The second execution of a doubled registration finds the user there.
handleRegister ==
    /\ screen = "REGISTER"
    /\ \E u \in Users :
          \/ Delivered /\ Goto("MAIN") /\ Welcome(u) /\ UNCHANGED orphans
          \/ Delivered /\ Goto("ENTRY") /\ UNCHANGED sessionVars
          \/ Fault /\ Goto("ENTRY") /\ orphans' = orphans + 1 /\ UNCHANGED <<live, Username>>
          \/ Fault /\ Goto("STAY") /\ orphans' \in {orphans, orphans + 1} /\ UNCHANGED <<live, Username>>
    /\ UNCHANGED <<posVars, listVars, boardVars, cinFailed, restarts, leaving>>

\* The server answers with a GeneralResponse; read as a LogoutResponse, whose
\* status has another slot, every answer is OK. The token, the name and the
\* position on the board stay. Mutant StatusRead: the status that was sent is
\* the one that is read.
StatusRead(status) == IF status = "OK" THEN "ENTRY" ELSE "STAY"

AfterLogout(status) == "ENTRY"

\* Mutant LeaveAnyway: a logout without an answer counts.
LeaveAnyway == "ENTRY"
LogoutUnanswered == "STAY"

handleLogout ==
    /\ screen = "LOGOUT"
    /\ \/ Delivered /\ live' = FALSE /\ Goto(AfterLogout(IF live THEN "OK" ELSE "UNKNOWN_ERROR"))
       \/ Fault /\ Goto(LogoutUnanswered) /\ live' \in {live, FALSE}
    /\ UNCHANGED <<posVars, listVars, Username, orphans, boardVars, cinFailed, restarts, leaving>>

handleGetProfile ==
    /\ screen = "GET_PROFILE"
    /\ \/ /\ live /\ Delivered
          /\ \E key \in {"y", "other"} :
                Pressed(key, "other") /\ Goto(IF key = "y" THEN "EDIT_PROFILE" ELSE "MAIN")
       \/ Delivered /\ Goto("MAIN")
       \/ Fault /\ Goto("MAIN")
    /\ UNCHANGED <<posVars, listVars, sessionVars, boardVars, cinFailed, restarts, leaving>>

\* An answer other than OK, or none. The lists keep what they held.
NoList(next) == (Delivered \/ Fault) /\ Goto(next) /\ UNCHANGED listVars

Listed(from, n) ==
    PendingFriends' = [from |-> from, of |-> Username, count |-> n] /\ UNCHANGED Channels

handleViewFriends ==
    /\ screen = "VIEW_FRIENDS"
    /\ \/ /\ live /\ Delivered
          /\ \E n \in 0 .. MaxList : Listed("friends", n)
          /\ Goto("FRIEND_ENTRY")
       \/ NoList("FRIEND_ENTRY")
    /\ UNCHANGED <<posVars, sessionVars, boardVars, cinFailed, restarts, leaving>>

\* Mutant ConfirmAny: the key is taken whether or not the menu showed it.
ConfirmAny(n) == TRUE
ConfirmOffered(n) == n > 0

handleViewPendingFriendReq ==
    /\ screen = "VIEW_PENDING_FRIENDS"
    /\ \/ /\ live /\ Delivered
          /\ \E n \in 0 .. MaxList, key \in {"c", "b"} :
                /\ Pressed(key, "b")
                /\ Listed("requests", n)
                /\ Goto(IF key = "c" /\ ConfirmOffered(n) THEN "CONFIRM_PENDING_FRIEND"
                                                          ELSE "FRIEND_ENTRY")
       \/ NoList("FRIEND_ENTRY")
    /\ UNCHANGED <<posVars, sessionVars, boardVars, cinFailed, restarts, leaving>>

\* index is 0 where the number could not be read.
handleConfirmFriendRequest ==
    /\ screen = "CONFIRM_PENDING_FRIEND"
    /\ \E index \in IF cinFailed THEN {0} ELSE 0 .. PendingFriends.count :
          IF index = 0
          THEN /\ (leaving => cinFailed) /\ Goto("STAY") /\ Delivered
               /\ (CinStays \/ CinFails)
          ELSE /\ CinStays
               /\ \/ live /\ Delivered /\ Goto("VIEW_PENDING_FRIENDS")
                  \/ (Delivered \/ Fault) /\ Goto("FRIEND_ENTRY")
    /\ UNCHANGED <<posVars, listVars, sessionVars, boardVars, restarts, leaving>>

-----------------------------------------------------------------------------
(* client/Post.cpp.                                                          *)

Exists(i) == i \in PostIds /\ board[i] # NoPost

Shown(i) == live /\ Exists(i) /\ (board[i].open \/ board[i].poster = Username)

\* Without a position the server is asked for its last post id, which is 0 as
\* long as nobody has posted; then the handler returns STAY, or MAIN where the
\* server would not say.
GetMaxPid ==
    /\ screen \in PostScreens /\ CurrentPid <= 0
    /\ \/ /\ live /\ Delivered /\ Goto("STAY")
          /\ CurrentPid' = LastPostId /\ MaxPid' = LastPostId /\ UNCHANGED <<CurrentCid, MaxCid>>
       \/ ~live /\ Delivered /\ Goto("MAIN") /\ UNCHANGED posVars
       \/ Fault /\ Goto("MAIN") /\ UNCHANGED posVars
    /\ UNCHANGED <<listVars, sessionVars, boardVars, cinFailed, restarts, leaving>>

\* Mutant SkipInPlace: the number is the same the next time. Mutant SkipPast: it
\* goes one past the last.
SkipInPlace(forward, at, max) ==
    IF (forward /\ at < max) \/ (~forward /\ at > 1) THEN at ELSE 0
SkipPast(forward, at, max) ==
    IF forward THEN (IF at <= max THEN at + 1 ELSE 0)
               ELSE (IF at > 1 THEN at - 1 ELSE 0)

\* A refused post or comment: the number to ask for next, in the direction of the
\* screen, or 0 at the end.
Skip(forward, at, max) ==
    IF forward THEN (IF at < max THEN at + 1 ELSE 0)
               ELSE (IF at > 1 THEN at - 1 ELSE 0)

\* Mutant EditAnybody: the two keys are taken for any post.
EditAnybody(mine) == TRUE
can_edit(mine) == mine

\* The keys under a post; otherwise is where an unrecognized one leads.
PostPrompt(mine, otherwise) ==
    \E key \in {"n", "p", "e", "r", "l", "u", "a", "v", "b", "other"} :
        /\ Pressed(key, "b")
        /\ CASE key = "n" /\ CurrentPid < MaxPid ->
                  CurrentPid' = CurrentPid + 1 /\ Goto("VIEW_NEXT_POST")
             [] key = "p" /\ CurrentPid > 1 ->
                  CurrentPid' = CurrentPid - 1 /\ Goto("VIEW_PREV_POST")
             [] key = "b" -> CurrentPid' = -1 /\ Goto("MAIN")
             [] OTHER ->
                  /\ UNCHANGED CurrentPid
                  /\ Goto(CASE key = "e" /\ can_edit(mine) -> "EDIT_POST"
                            [] key = "r" /\ can_edit(mine) -> "REMOVE_POST"
                            [] key = "l" -> "LIKE_POST"
                            [] key = "u" -> "UNLIKE_POST"
                            [] key = "a" -> "ADD_COMMENT"
                            [] key = "v" -> "VIEW_NEXT_COMMENTS"
                            [] OTHER -> otherwise)
        /\ UNCHANGED MaxPid

\* Mutant MaxCidOnce: the maximum is taken once and kept for the next post.
MaxCidOnce(i) == IF MaxCid > 0 THEN MaxCid ELSE board[i].comments
MaxCidOf(i) == board[i].comments

handleViewPost ==
    /\ screen \in PostScreens /\ CurrentPid > 0
    /\ \/ /\ Shown(CurrentPid) /\ Delivered
          /\ MaxCid' = MaxCidOf(CurrentPid) /\ CurrentCid' = MaxCid'
          /\ PostPrompt(board[CurrentPid].poster = Username, "STAY")
       \/ /\ ~Shown(CurrentPid) /\ Delivered
          /\ LET next == Skip(screen = "VIEW_NEXT_POST", CurrentPid, MaxPid) IN
             IF next = 0 THEN Goto("MAIN") /\ UNCHANGED posVars
             ELSE /\ Goto("STAY") /\ CurrentPid' = next
                  /\ UNCHANGED <<MaxPid, CurrentCid, MaxCid>>
       \/ /\ Fault /\ PostPrompt(FALSE, "MAIN") /\ UNCHANGED <<CurrentCid, MaxCid>>
    /\ UNCHANGED <<listVars, sessionVars, boardVars, cinFailed, restarts, leaving>>

\* What the server does with a request about the current post: the post it leaves,
\* if it takes the request at all. The status is only printed.
PostRequest(taken, post) ==
    /\ LastPostId' = LastPostId
    /\ \/ taken /\ board' = [board EXCEPT ![CurrentPid] = post] /\ (Delivered \/ Fault)
       \/ board' = board /\ (Fault \/ (~taken /\ Delivered))

\* The text is not on this board; any session may change the permission. An
\* unrecognized key is asked for again.
handleEditPost ==
    /\ screen = "EDIT_POST"
    /\ \/ (leaving => cinFailed) /\ Goto("STAY") /\ UNCHANGED <<boardVars, faults>>
       \/ /\ Goto("VIEW_NEXT_POST")
          /\ \E open \in BOOLEAN :
                PostRequest(live /\ Exists(CurrentPid), [board[CurrentPid] EXCEPT !.open = open])
    /\ UNCHANGED <<posVars, listVars, sessionVars, cinFailed, restarts, leaving>>

\* The position is forgotten at an OK. A doubled removal is answered with an
\* error by its second execution, and a lost answer is none.
handleRemovePost ==
    /\ screen = "REMOVE_POST"
    /\ Goto("VIEW_NEXT_POST")
    /\ \/ UNCHANGED <<posVars, boardVars, faults>>       \* not sure after all
       \/ LET mine == live /\ Exists(CurrentPid) /\ board[CurrentPid].poster = Username IN
          /\ PostRequest(mine, NoPost)
          /\ \/ board' # board /\ Delivered /\ CurrentPid' = -1 /\ MaxPid' = -1
                /\ UNCHANGED <<CurrentCid, MaxCid>>
             \/ (board' # board => Fault) /\ UNCHANGED posVars
    /\ UNCHANGED <<listVars, sessionVars, cinFailed, restarts, leaving>>

handleAddComment ==
    /\ screen = "ADD_COMMENT"
    /\ Goto("VIEW_NEXT_POST")
    /\ LET taken == Shown(CurrentPid)
                      /\ board[CurrentPid].comments < MaxComments
       IN PostRequest(taken, [board[CurrentPid] EXCEPT !.comments = @ + 1])
    /\ UNCHANGED <<posVars, listVars, sessionVars, cinFailed, restarts, leaving>>

\* Likes are not on this board.
handleLike ==
    /\ screen \in {"LIKE_POST", "UNLIKE_POST"}
    /\ Goto("VIEW_NEXT_POST")
    /\ Delivered \/ Fault
    /\ UNCHANGED <<posVars, listVars, sessionVars, boardVars, cinFailed, restarts, leaving>>

\* The keys under a comment; otherwise is where n and p lead at the ends.
CommentPrompt(otherwise) ==
    \E key \in {"n", "p", "b", "other"} :
        /\ Pressed(key, "b")
        /\ CASE key = "n" /\ CurrentCid < MaxCid ->
                  CurrentCid' = CurrentCid + 1 /\ Goto("VIEW_NEXT_COMMENTS")
             [] key = "p" /\ CurrentCid > 1 ->
                  CurrentCid' = CurrentCid - 1 /\ Goto("VIEW_PREV_COMMENTS")
             [] OTHER ->
                  /\ UNCHANGED CurrentCid
                  /\ Goto(CASE key \in {"n", "p"} -> otherwise
                            [] key = "b" -> "VIEW_NEXT_POST"
                            [] OTHER -> "STAY")

handleViewComment ==
    /\ screen \in CommentScreens
    /\ LET shown == Shown(CurrentPid)
                      /\ CurrentCid \in 1 .. board[CurrentPid].comments
           next == Skip(screen = "VIEW_NEXT_COMMENTS", CurrentCid, MaxCid)
       IN \/ shown /\ Delivered /\ CommentPrompt("VIEW_NEXT_POST")
          \/ /\ ~shown /\ Delivered
             /\ IF next = 0 THEN Goto("MAIN") /\ UNCHANGED CurrentCid
                            ELSE Goto("STAY") /\ CurrentCid' = next
          \/ Fault /\ CommentPrompt("MAIN")
    /\ UNCHANGED <<CurrentPid, MaxPid, MaxCid>>
    /\ UNCHANGED <<listVars, sessionVars, boardVars, cinFailed, restarts, leaving>>

-----------------------------------------------------------------------------
(* client/Message.cpp.                                                       *)

ChannelLists == UNION {[1 .. n -> {"GROUP", "PRIVATE"}] : n \in 0 .. MaxChannels}

\* Neither key asks whether the list has a channel, or a group, to choose.
handleViewChannels ==
    /\ screen = "MSG_VIEW_CHANNELS"
    /\ \/ /\ live /\ Delivered
          /\ \E types \in ChannelLists : Channels' = [of |-> Username, types |-> types]
          /\ \E key \in {"b", "j", "l", "other"} :
                /\ Pressed(key, "b")
                /\ Goto(CASE key = "j" -> "MSG_JOIN_CHANNEL"
                          [] key = "l" -> "MSG_LEAVE_GROUP"
                          [] OTHER -> "MSG_ENTRY")
          /\ UNCHANGED PendingFriends
       \/ NoList("MSG_ENTRY")
    /\ UNCHANGED <<posVars, sessionVars, boardVars, cinFailed, restarts, leaving>>

Indices == 1 .. Len(Channels.types)
GroupChannelIndex == {k \in Indices : Channels.types[k] = "GROUP"}

\* A number out of range is asked for again. A user who wants to leave, and can
\* type, gives one that is in range.
OutOfRange(choices) ==
    /\ leaving /\ ~cinFailed => choices = {}
    /\ Goto("STAY")
    /\ Delivered
    /\ UNCHANGED boardVars
    /\ CinStays \/ CinFails

\* index is not initialized: with a failed std::cin it can be any number.
handleJoinChannel ==
    /\ screen = "MSG_JOIN_CHANNEL"
    /\ \/ OutOfRange(Indices)
       \/ Indices # {} /\ Goto("MSG_MAIN_WINDOW") /\ CinStays /\ Delivered /\ UNCHANGED boardVars
    /\ UNCHANGED <<posVars, listVars, sessionVars, restarts, leaving>>

\* index is 0 with a failed std::cin.
handleLeaveGroup ==
    /\ screen = "MSG_LEAVE_GROUP"
    /\ \/ OutOfRange(GroupChannelIndex)
       \/ /\ GroupChannelIndex # {} /\ ~cinFailed
          /\ \/ live /\ Delivered /\ Goto("MSG_VIEW_CHANNELS")
             \/ (Delivered \/ Fault) /\ Goto("MSG_ENTRY")
          /\ CinStays /\ UNCHANGED boardVars
    /\ UNCHANGED <<posVars, listVars, sessionVars, restarts, leaving>>

\* All of MessageWindow, up to @quit, which cannot be read once std::cin has failed.
\* A line may crash the window (MessageWindow's WindowSurvives).
handleMsgMainWindow ==
    /\ screen = "MSG_MAIN_WINDOW"
    /\ \/ ~cinFailed /\ Goto("MSG_ENTRY")
       \/ cinFailed /\ Goto("STAY")
       \/ (leaving => cinFailed) /\ Goto("CRASHED")
    /\ UNCHANGED <<posVars, listVars, sessionVars, boardVars, cinFailed, faults, restarts, leaving>>

ClientStep ==
    \/ PressKey \/ FillIn \/ GroupNameTaken \/ NoGroupName
    \/ handleRegister \/ handleLogin \/ handleLogout
    \/ handleGetProfile
    \/ handleViewFriends \/ handleViewPendingFriendReq \/ handleConfirmFriendRequest
    \/ GetMaxPid \/ handleViewPost
    \/ handleEditPost \/ handleRemovePost \/ handleAddComment \/ handleLike
    \/ handleViewComment
    \/ handleViewChannels \/ handleJoinChannel \/ handleLeaveGroup \/ handleMsgMainWindow

-----------------------------------------------------------------------------
(* Everybody else.                                                           *)

OtherPosts == \E u \in Users, open \in BOOLEAN : Posted(u, open)

OtherChanges ==
    /\ LastPostId' = LastPostId
    /\ \E i \in PostIds :
          /\ board[i] # NoPost
          /\ \/ board' = [board EXCEPT ![i] = NoPost]
             \/ \E open \in BOOLEAN \ {board[i].open} : board' = [board EXCEPT ![i].open = open]
             \/ /\ board[i].comments < MaxComments
                /\ board' = [board EXCEPT ![i].comments = @ + 1]

OtherClients ==
    /\ screen \notin Ended
    /\ OtherPosts \/ OtherChanges
    /\ UNCHANGED <<screen, posVars, listVars, sessionVars, cinFailed, faults, restarts, leaving>>

\* Sessions are in memory only. The board is as it was, or, after a crash of the
\* first process, empty (Post has every way a restart can go).
ServerRestarts ==
    /\ screen \notin Ended /\ restarts < MaxRestarts
    /\ restarts' = restarts + 1
    /\ live' = FALSE /\ orphans' = 0
    /\ \/ UNCHANGED boardVars
       \/ board' = [i \in PostIds |-> NoPost] /\ LastPostId' = 0
    /\ UNCHANGED <<screen, posVars, listVars, Username, cinFailed, faults, leaving>>

DecideToLeave ==
    /\ screen \notin Ended /\ ~leaving
    /\ leaving' = TRUE
    /\ UNCHANGED <<screen, posVars, listVars, sessionVars, boardVars, cinFailed, faults, restarts>>

ScreensNext == ClientStep \/ OtherClients \/ ServerRestarts

ScreensSpec == InitScreens /\ [][ScreensNext]_vars

LeaveNext == ScreensNext \/ DecideToLeave

LeaveSpec == InitScreens /\ [][LeaveNext]_vars /\ WF_vars(ClientStep)

-----------------------------------------------------------------------------
(* Properties.                                                               *)

\* A request about a post or a comment carries a number the client was given:
\* however posts are walked, removed, refused and the client logged out and in
\* again, the position (client/Post.cpp:62) is within the last maximum where a
\* screen sends it.
PositionInRange ==
    screen \in OnPostScreens => 1 <= CurrentPid /\ CurrentPid <= MaxPid

\* can_edit is worked out on one screen and used on the next (client/Post.cpp:147,
\* 231, 240). Whatever others do in between, and through restarts that give the
\* number to another post, who still has a session is about to edit or remove a
\* post of his own, or one that is gone.
EditIsOwn ==
    (screen \in {"EDIT_POST", "REMOVE_POST"} /\ live /\ Exists(CurrentPid)) =>
        board[CurrentPid].poster = Username

\* MaxCid is global and set by another screen (client/Post.cpp:156): where comments
\* are walked, it is not the maximum of a post seen before. Only a post whose
\* answer was lost is shown with the comment numbers of the one before it.
CommentsOfThisPost ==
    (screen \in CommentScreens /\ faults = 0 /\ live /\ Exists(CurrentPid)) =>
        MaxCid <= board[CurrentPid].comments

\* The number typed at CONFIRM, JOIN and LEAVE indexes a global list that two
\* screens fill and logging out leaves alone (client/Account.cpp:428, 553;
\* client/Message.cpp:183): it is the list of that kind, read by the user who is
\* logged in now, and CONFIRM has something to choose from.
ListIsOwn ==
    /\ screen = "CONFIRM_PENDING_FRIEND" =>
          PendingFriends.from = "requests" /\ PendingFriends.of = Username /\ PendingFriends.count > 0
    /\ screen \in {"MSG_JOIN_CHANNEL", "MSG_LEAVE_GROUP"} => Channels.of = Username

\* A client that is back at ENTRY, or has quit, has no session left at the server,
\* unless the transport failed or doubled one of its logins or registrations
\* (client/Account.cpp:58, 108). A client that crashes leaves its session behind.
SessionLeftNeedsFault ==
    screen \in {"ENTRY", "QUIT"} => ~live /\ (faults = 0 => orphans = 0)

\* The places without a way out, however the user tries; an empty board is one
\* until somebody posts, and a crash one for good.
NoWayOut ==
    \/ screen = "MSG_JOIN_CHANNEL" /\ Indices = {}
    \/ screen = "MSG_LEAVE_GROUP" /\ GroupChannelIndex = {}
    \/ screen \in PostScreens /\ LastPostId = 0
    \/ cinFailed
    \/ screen = "CRASHED"

\* A user who has decided to leave gets to QUIT from every screen, through walks
\* over refused posts, dead sessions and failing requests, if the server answers
\* in the end: the only exceptions are an empty list of channels or groups after
\* J or L, an empty board after V, an std::cin that has failed, and a client that
\* crashed, in the message window or on the name of a group that is taken.
LeaverGetsOut == <>[]NoWayOut \/ (leaving ~> screen = "QUIT")
=============================================================================
