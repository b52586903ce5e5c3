---------------------------- MODULE ScreensProofs ----------------------------
(***************************************************************************)
(* Proofs about Screens, for any users, sizes of the board and the lists,  *)
(* and numbers of faults and restarts.                                     *)
(***************************************************************************)
EXTENDS Screens, TLAPS

\* Where nobody is logged in, and where a number of a global list is asked for.
Outside == {"ENTRY", "REGISTER", "LOGIN", "QUIT"}
Choosing == {"CONFIRM_PENDING_FRIEND", "MSG_JOIN_CHANNEL", "MSG_LEAVE_GROUP"}
Editing == {"EDIT_POST", "REMOVE_POST"}

\* The server has given out the numbers of its posts, and none twice while it runs.
BoardIsPast == \A i \in PostIds : board[i] # NoPost => i <= LastPostId

\* The position never passes the maximum it was taken from.
PositionBelowMax == CurrentPid <= MaxPid

OnPostHasPosition == screen \in OnPostScreens => 0 < CurrentPid

\* The number of a post that was shown to a living session is not given to another one.
EditedIsOwn ==
    screen \in Editing /\ live =>
        CurrentPid <= LastPostId /\ (Exists(CurrentPid) => board[CurrentPid].poster = Username)

CommentsAreOfPost ==
    screen \in CommentScreens /\ faults = 0 /\ live =>
        CurrentPid <= LastPostId /\ (Exists(CurrentPid) => MaxCid <= board[CurrentPid].comments)

OutsideIsDead == screen \in Outside => ~live

OrphansNeedFault == faults = 0 => orphans = 0

LiveIsSomebody == live => Username \in Users

ScreensIInv ==
    /\ ScreensTypeOK
    /\ LiveIsSomebody
    /\ BoardIsPast
    /\ PositionBelowMax
    /\ OnPostHasPosition
    /\ EditedIsOwn
    /\ CommentsAreOfPost
    /\ OutsideIsDead
    /\ OrphansNeedFault
    /\ ListIsOwn

-----------------------------------------------------------------------------
(* The two tables.                                                         *)

MenuScreens == {"ENTRY", "MAIN", "FRIEND_ENTRY", "MSG_ENTRY"}
FormScreens == {"ADD_POST", "EDIT_PROFILE", "SEARCH_ACCOUNT", "ADD_FRIEND",
                "MSG_CREATE_PRIVATE_CHANNEL", "MSG_CREATE_GROUP_CHANNEL", "MSG_JOIN_GROUP"}

\* The screens that nothing is said about.
Plain == {"MAIN", "FRIEND_ENTRY", "MSG_ENTRY", "VIEW_NEXT_POST", "VIEW_PREV_POST", "LOGOUT",
          "GET_PROFILE", "VIEW_FRIENDS", "VIEW_PENDING_FRIENDS", "MSG_VIEW_CHANNELS",
          "MSG_MAIN_WINDOW", "CRASHED"} \cup FormScreens

LEMMA ScreenKinds ==
    /\ AllScreens = Plain \cup OnPostScreens \cup Outside \cup Choosing
    /\ Plain \cap (OnPostScreens \cup Outside \cup Choosing) = {}
    /\ OnPostScreens \cap (Outside \cup Choosing) = {}
    /\ Outside \cap Choosing = {}
    /\ CommentScreens \subseteq OnPostScreens /\ Editing \subseteq OnPostScreens
    /\ PostScreens \subseteq Plain /\ FormScreens \subseteq Plain
    /\ CommentScreens \cap Editing = {}
BY DEF AllScreens, Plain, OnPostScreens, CommentScreens, PostScreens, Outside, Choosing, Editing,
   FormScreens, Menu, Form

LEMMA MenuLeads ==
    /\ DOMAIN Menu = MenuScreens
    /\ \A s \in MenuScreens : \A key \in DOMAIN Menu[s] :
          \/ Menu[s][key] = "STAY"
          \/ Menu[s][key] \in Plain
          \/ s = "ENTRY" /\ Menu[s][key] \in Outside
BY DEF Menu, MenuScreens, Plain, Outside, FormScreens

LEMMA FormLeads ==
    /\ DOMAIN Form = FormScreens
    /\ \A s \in FormScreens :
          /\ Form[s].OK \in Plain \cup {"STAY"}
          /\ Form[s].error \in Plain \cup {"STAY"}
          /\ Form[s].lost \in Plain \cup {"STAY"}
BY DEF Form, Plain, FormScreens

-----------------------------------------------------------------------------
LEMMA ScreensInitIInv == InitScreens => ScreensIInv
<1> SUFFICES ASSUME InitScreens PROVE ScreensIInv
  OBVIOUS
<1>1. screen = "ENTRY" /\ "ENTRY" \in AllScreens /\ "ENTRY" \in Outside
  BY DEF InitScreens, AllScreens, Menu, Outside
<1>2. ScreensTypeOK
  <2>1. PendingFriends \in [from : {"none", "friends", "requests"}, of : Users \cup {NoUser},
                            count : 0 .. MaxList]
    BY ScreensAssumption DEF InitScreens, NoFriends
  <2>2. Channels.of \in Users \cup {NoUser} /\ Channels.types \in Seq({"GROUP", "PRIVATE"})
    BY DEF InitScreens, NoChannels
  <2>3. board \in [PostIds -> PostInfo \cup {NoPost}]
    BY DEF InitScreens
  <2>4. LastPostId \in 0 .. MaxPosts /\ CurrentPid \in {-1} /\ MaxPid \in {-1}
        /\ CurrentCid \in {-1} /\ MaxCid \in {-1} /\ orphans \in Nat
    BY ScreensAssumption DEF InitScreens
  <2>5. faults \in 0 .. MaxFaults /\ restarts \in 0 .. MaxRestarts
    BY ScreensAssumption DEF InitScreens
  <2>6. /\ live \in BOOLEAN /\ cinFailed \in BOOLEAN /\ leaving \in BOOLEAN
        /\ Username \in Users \cup {NoUser}
    BY DEF InitScreens
  <2> QED BY <1>1, <2>1, <2>2, <2>3, <2>4, <2>5, <2>6 DEF ScreensTypeOK
<1> QED BY <1>1, <1>2, ScreenKinds
        DEF InitScreens, ScreensIInv, BoardIsPast, PositionBelowMax, OnPostHasPosition,
            EditedIsOwn, CommentsAreOfPost, OutsideIsDead, OrphansNeedFault, ListIsOwn, Choosing,
            LiveIsSomebody

\* A step to a plain screen or out: little is left to show.
LEMMA PlainKeeps ==
    ASSUME ScreensTypeOK', BoardIsPast', PositionBelowMax', OrphansNeedFault', LiveIsSomebody',
           screen' \in Plain \/ (screen' \in Outside /\ ~live')
    PROVE  ScreensIInv'
BY ScreenKinds DEF ScreensIInv, OnPostHasPosition, EditedIsOwn, CommentsAreOfPost, OutsideIsDead,
   ListIsOwn, Choosing

\* What may happen to the board while the server runs.
BoardMoves ==
    /\ LastPostId' \in LastPostId .. MaxPosts
    /\ board' \in [PostIds -> PostInfo \cup {NoPost}]
    /\ \A i \in PostIds : board'[i] # NoPost =>
          /\ i <= LastPostId'
          /\ i <= LastPostId =>
                /\ board[i] # NoPost
                /\ board'[i].poster = board[i].poster
                /\ board[i].comments <= board'[i].comments

\* A step that leaves the client where it is.
LEMMA StayKeeps ==
    ASSUME ScreensIInv, ScreensTypeOK', OrphansNeedFault', faults <= faults',
           BoardMoves \/ (~live' /\ BoardIsPast'), live' => live,
           UNCHANGED <<screen, posVars, listVars, Username>>
    PROVE  ScreensIInv'
<1>1. ScreensTypeOK /\ LastPostId \in Nat /\ CurrentPid \in Int /\ faults \in Nat
  BY SMTT(30), ScreensAssumption DEF ScreensIInv, ScreensTypeOK
<1>2. /\ BoardIsPast' /\ PositionBelowMax' /\ OnPostHasPosition' /\ ListIsOwn' /\ OutsideIsDead'
      /\ LiveIsSomebody'
  BY DEF ScreensIInv, BoardMoves, BoardIsPast, PositionBelowMax, OnPostHasPosition, ListIsOwn,
     OutsideIsDead, LiveIsSomebody, posVars, listVars
<1>3. CASE ~live'
  BY <1>2, <1>3 DEF ScreensIInv, EditedIsOwn, CommentsAreOfPost
<1>4. CASE live'
  <2>1. live /\ BoardMoves /\ UNCHANGED <<screen, CurrentPid, MaxCid, Username>>
    BY <1>4 DEF posVars
  <2>2. LastPostId' \in Nat /\ LastPostId <= LastPostId'
    BY <1>1, <2>1 DEF BoardMoves
  <2>3. EditedIsOwn'
    BY <1>1, <2>1, <2>2 DEF ScreensIInv, EditedIsOwn, BoardMoves, Exists
  <2>4. CommentsAreOfPost'
    <3> SUFFICES ASSUME screen \in CommentScreens, faults' = 0
                 PROVE  /\ CurrentPid <= LastPostId'
                        /\ Exists(CurrentPid)' => MaxCid <= board'[CurrentPid].comments
      BY <2>1 DEF CommentsAreOfPost
    <3>1. faults = 0 /\ faults' \in Nat
      BY <1>1 DEF ScreensTypeOK
    <3>2. CurrentPid <= LastPostId /\ (Exists(CurrentPid) => MaxCid <= board[CurrentPid].comments)
      BY <2>1, <3>1 DEF ScreensIInv, CommentsAreOfPost
    <3>3. ASSUME Exists(CurrentPid)'
          PROVE  /\ CurrentPid \in PostIds /\ Exists(CurrentPid)
                 /\ board[CurrentPid].comments <= board'[CurrentPid].comments
                 /\ board[CurrentPid] \in PostInfo /\ board'[CurrentPid] \in PostInfo
      BY <2>1, <3>2, <3>3 DEF Exists, BoardMoves, ScreensTypeOK, ScreensIInv
    <3>4. MaxCid \in Int /\ \A p \in PostInfo : p.comments \in Int
      BY <1>1, ScreensAssumption DEF ScreensTypeOK, PostInfo
    <3> QED BY <1>1, <2>2, <3>2, <3>3, <3>4
  <2> QED BY <1>2, <2>3, <2>4 DEF ScreensIInv
<1> QED BY <1>3, <1>4

-----------------------------------------------------------------------------
(* The board, the transport and the screen a handler returns.              *)

LEMMA BoardFacts ==
    ASSUME ScreensIInv
    PROVE  /\ LastPostId \in Nat /\ LastPostId <= MaxPosts /\ PostIds = 1 .. MaxPosts
           /\ MaxPosts \in Nat /\ MaxComments \in Nat
           /\ board \in [PostIds -> PostInfo \cup {NoPost}]
           /\ \A i \in PostIds : board[i] # NoPost => board[i] \in PostInfo /\ i <= LastPostId
           /\ \A p \in PostInfo : p.comments \in Nat /\ p # NoPost
BY ScreensAssumption, NoPostAssumption
   DEF ScreensIInv, ScreensTypeOK, PostIds, BoardIsPast, PostInfo

LEMMA BoardSame == ASSUME ScreensIInv, UNCHANGED boardVars PROVE BoardMoves
BY BoardFacts DEF boardVars, BoardMoves

\* One post of the board is changed, or taken away.
LEMMA PostChanges ==
    ASSUME ScreensIInv, NEW i \in PostIds, board[i] # NoPost, NEW p,
           p = NoPost \/ (p \in PostInfo /\ p.poster = board[i].poster
                            /\ board[i].comments <= p.comments),
           LastPostId' = LastPostId, board' = [board EXCEPT ![i] = p]
    PROVE  BoardMoves
<1>1. board' \in [PostIds -> PostInfo \cup {NoPost}] /\ LastPostId' \in LastPostId .. MaxPosts
  BY BoardFacts
<1>2. board'[i] = p /\ \A j \in PostIds \ {i} : board'[j] = board[j]
  BY BoardFacts
<1>3. ASSUME NEW j \in PostIds, board'[j] # NoPost
      PROVE  /\ board[j] # NoPost /\ j <= LastPostId /\ board'[j].poster = board[j].poster
             /\ board[j].comments <= board'[j].comments
  BY <1>2, <1>3, BoardFacts
<1> QED BY <1>1, <1>3 DEF BoardMoves

LEMMA PostedMoves ==
    ASSUME ScreensIInv, NEW u \in Users, NEW open \in BOOLEAN, Posted(u, open) PROVE BoardMoves
<1> DEFINE p == [poster |-> u, open |-> open, comments |-> 0]
<1>1. p \in PostInfo
  BY BoardFacts DEF PostInfo
<1>2. /\ LastPostId + 1 \in PostIds /\ LastPostId' = LastPostId + 1
      /\ board' = [board EXCEPT ![LastPostId + 1] = p]
  BY BoardFacts DEF Posted
<1> HIDE DEF p
<1>3. \A j \in PostIds : j <= LastPostId => board'[j] = board[j]
  BY <1>2, BoardFacts
<1>4. \A j \in PostIds : board'[j] # NoPost => j <= LastPostId'
  BY <1>2, BoardFacts
<1>5. board' \in [PostIds -> PostInfo \cup {NoPost}] /\ LastPostId' \in LastPostId .. MaxPosts
  BY <1>1, <1>2, BoardFacts
<1> QED BY <1>3, <1>4, <1>5, BoardFacts DEF BoardMoves

\* What the server makes of a request about the current post.
LEMMA PostRequestMoves ==
    ASSUME ScreensIInv, NEW taken, NEW p, PostRequest(taken, p),
           taken => Exists(CurrentPid)
             /\ (p = NoPost \/ (p \in PostInfo /\ p.poster = board[CurrentPid].poster
                                  /\ board[CurrentPid].comments <= p.comments))
    PROVE  BoardMoves /\ (Delivered \/ Fault)
<1>1. CASE taken /\ board' = [board EXCEPT ![CurrentPid] = p] /\ (Delivered \/ Fault)
  BY <1>1, PostChanges DEF PostRequest, Exists
<1>2. CASE board' = board /\ (Delivered \/ Fault)
  BY <1>2, BoardSame DEF PostRequest, boardVars
<1> QED BY <1>1, <1>2 DEF PostRequest

LEMMA FaultTypes ==
    ASSUME ScreensIInv, Delivered \/ Fault
    PROVE  /\ faults' \in 0 .. MaxFaults /\ faults <= faults'
           /\ Fault => faults' # 0
           /\ OrphansNeedFault /\ (orphans' = orphans => OrphansNeedFault')
BY ScreensAssumption DEF ScreensIInv, ScreensTypeOK, Delivered, Fault, OrphansNeedFault

LEMMA GotoLeads ==
    ASSUME NEW S, NEW next \in S \cup {"STAY"}, Goto(next)
    PROVE  screen' = screen \/ screen' \in S
BY DEF Goto

\* A step that leaves the position, the lists and the name alone, and neither logs in
\* nor enters a screen something is said about.
LEMMA MoveKeeps ==
    ASSUME ScreensIInv, UNCHANGED <<posVars, listVars, Username, orphans, restarts>>,
           cinFailed' \in BOOLEAN, leaving' \in BOOLEAN, live' \in BOOLEAN, live' => live,
           Delivered \/ Fault, BoardMoves,
           screen' = screen \/ screen' \in Plain \/ (screen' \in Outside /\ ~live')
    PROVE  ScreensIInv'
<1>1. LastPostId' \in 0 .. MaxPosts
  BY BoardFacts DEF BoardMoves
<1>2. screen' \in AllScreens
  BY ScreenKinds DEF ScreensIInv, ScreensTypeOK
<1>3. faults' \in 0 .. MaxFaults /\ faults <= faults' /\ OrphansNeedFault'
  BY FaultTypes
<1>4. ScreensTypeOK'
  BY <1>1, <1>2, <1>3 DEF ScreensIInv, ScreensTypeOK, posVars, listVars, BoardMoves
<1>5. CASE screen' = screen
  BY <1>3, <1>4, <1>5, StayKeeps
<1>6. CASE screen' # screen
  <2>1. BoardIsPast' /\ PositionBelowMax' /\ LiveIsSomebody'
    BY DEF ScreensIInv, BoardIsPast, BoardMoves, PositionBelowMax, LiveIsSomebody, posVars
  <2> QED BY <1>3, <1>4, <1>6, <2>1, PlainKeeps
<1> QED BY <1>5, <1>6

-----------------------------------------------------------------------------
(* The step, one lemma per action of the client.                           *)

LEMMA FlagTypes ==
    ASSUME ScreensIInv
    PROVE  /\ cinFailed \in BOOLEAN /\ leaving \in BOOLEAN /\ live \in BOOLEAN
           /\ CinStays \/ CinFails => cinFailed' \in BOOLEAN
           /\ restarts \in 0 .. MaxRestarts /\ orphans \in Nat
BY DEF ScreensIInv, ScreensTypeOK, CinStays, CinFails

LEMMA PressKeyKeeps == ASSUME ScreensIInv, PressKey PROVE ScreensIInv'
<1>1. PICK key \in DOMAIN Menu[screen] : Goto(Menu[screen][key])
  BY DEF PressKey
<1>2. screen \in MenuScreens
  BY MenuLeads DEF PressKey
<1>3. UNCHANGED <<posVars, listVars, sessionVars, boardVars, cinFailed, faults, restarts, leaving>>
  BY DEF PressKey
<1>4. screen' = screen \/ screen' \in Plain \/ (screen' \in Outside /\ ~live')
  <2>1. screen = "ENTRY" => ~live'
    BY <1>3 DEF ScreensIInv, OutsideIsDead, Outside, sessionVars
  <2> QED BY <1>1, <1>2, <2>1, MenuLeads DEF Goto
<1> QED BY <1>3, <1>4, MoveKeeps, BoardSame, FlagTypes DEF sessionVars, Delivered

LEMMA FillInKeeps == ASSUME ScreensIInv, FillIn PROVE ScreensIInv'
<1>1. /\ Delivered \/ Fault
      /\ \E next \in {Form[screen].OK, Form[screen].error, Form[screen].lost} : Goto(next)
      /\ UNCHANGED boardVars \/ (live /\ Posted(Username, TRUE))
  BY DEF FillIn
<1>2. screen' = screen \/ screen' \in Plain
  BY <1>1, FormLeads, GotoLeads DEF FillIn
<1>3. BoardMoves
  BY <1>1, BoardSame, PostedMoves DEF ScreensIInv, LiveIsSomebody
<1>4. cinFailed' \in BOOLEAN
  BY FlagTypes DEF FillIn
<1>5. UNCHANGED <<posVars, listVars, sessionVars, restarts, leaving>>
  BY DEF FillIn
<1> QED BY <1>1, <1>2, <1>3, <1>4, <1>5, MoveKeeps, FlagTypes DEF sessionVars

LEMMA GroupNameTakenKeeps == ASSUME ScreensIInv, GroupNameTaken PROVE ScreensIInv'
BY MoveKeeps, BoardSame, FlagTypes DEF GroupNameTaken, Goto, sessionVars, Plain, Delivered, Fault

LEMMA NoGroupNameKeeps == ASSUME ScreensIInv, NoGroupName PROVE ScreensIInv'
BY MoveKeeps, BoardSame, FlagTypes DEF NoGroupName, Goto, sessionVars, Delivered

\* A login or a registration: whoever gets in is on the main screen, with a session.
LEMMA WelcomeKeeps ==
    ASSUME ScreensIInv, screen \in {"LOGIN", "REGISTER"}, Delivered \/ Fault,
           orphans' = orphans \/ (Fault /\ orphans' = orphans + 1),
           \/ \E u \in Users : Welcome(u) /\ Goto("MAIN")
           \/ Goto("ENTRY") /\ UNCHANGED <<live, Username>>
           \/ Goto("STAY") /\ UNCHANGED <<live, Username>>,
           UNCHANGED <<posVars, listVars, boardVars, cinFailed, restarts, leaving>>
    PROVE  ScreensIInv'
<1>1. ~live
  BY DEF ScreensIInv, OutsideIsDead, Outside
<1>2. screen' \in Plain \/ (screen' \in Outside /\ ~live')
  BY <1>1 DEF Goto, Plain, Outside
<1>3. live' \in BOOLEAN /\ Username' \in Users \cup {NoUser} /\ LiveIsSomebody'
  <2>1. CASE \E u \in Users : Welcome(u)
    BY <2>1 DEF Welcome, LiveIsSomebody
  <2>2. CASE UNCHANGED <<live, Username>>
    BY <1>1, <2>2 DEF ScreensIInv, ScreensTypeOK, LiveIsSomebody
  <2> QED BY <2>1, <2>2
<1>4. /\ faults' \in 0 .. MaxFaults /\ orphans' \in Nat /\ OrphansNeedFault'
  BY FaultTypes, FlagTypes DEF OrphansNeedFault
<1>5. ScreensTypeOK'
  BY <1>2, <1>3, <1>4, ScreenKinds DEF ScreensIInv, ScreensTypeOK, posVars, listVars, boardVars
<1>6. BoardIsPast' /\ PositionBelowMax'
  BY DEF ScreensIInv, BoardIsPast, PositionBelowMax, posVars, boardVars
<1> QED BY <1>2, <1>3, <1>4, <1>5, <1>6, PlainKeeps

LEMMA LoginKeeps == ASSUME ScreensIInv, handleLogin PROVE ScreensIInv'
BY WelcomeKeeps DEF handleLogin, sessionVars

LEMMA RegisterKeeps == ASSUME ScreensIInv, handleRegister PROVE ScreensIInv'
BY WelcomeKeeps DEF handleRegister, sessionVars

LEMMA LogoutKeeps == ASSUME ScreensIInv, handleLogout PROVE ScreensIInv'
<1>1. /\ Delivered \/ Fault
      /\ live' = live \/ live' = FALSE
      /\ screen' = screen \/ (screen' = "ENTRY" /\ ~live')
  BY DEF handleLogout, AfterLogout, LogoutUnanswered, Goto
<1>2. live' \in BOOLEAN /\ (live' => live)
  <2>1. CASE live' = live
    BY <2>1, FlagTypes
  <2>2. CASE live' = FALSE
    BY <2>2
  <2> QED BY <1>1, <2>1, <2>2
<1> QED BY <1>1, <1>2, MoveKeeps, BoardSame, FlagTypes DEF handleLogout, Outside

LEMMA GetProfileKeeps == ASSUME ScreensIInv, handleGetProfile PROVE ScreensIInv'
<1>1. (Delivered \/ Fault) /\ screen' \in {"MAIN", "EDIT_PROFILE"}
  BY DEF handleGetProfile, Goto
<1> QED BY <1>1, MoveKeeps, BoardSame, FlagTypes
        DEF handleGetProfile, sessionVars, Plain, FormScreens

\* An answer that fills one of the lists: what is entered with it is its reader's.
LEMMA ListKeeps ==
    ASSUME ScreensIInv, Delivered \/ Fault,
           PendingFriends' \in [from : {"none", "friends", "requests"},
                                of : Users \cup {NoUser}, count : 0 .. MaxList],
           Channels'.of \in Users \cup {NoUser}, Channels'.types \in Seq({"GROUP", "PRIVATE"}),
           screen' \in Plain \cup Choosing, ListIsOwn',
           UNCHANGED <<posVars, sessionVars, boardVars, cinFailed, restarts, leaving>>
    PROVE  ScreensIInv'
<1>1. faults' \in 0 .. MaxFaults /\ OrphansNeedFault'
  BY FaultTypes DEF sessionVars
<1>2. ScreensTypeOK'
  BY <1>1, ScreenKinds DEF ScreensIInv, ScreensTypeOK, posVars, sessionVars, boardVars
<1>3. BoardIsPast' /\ PositionBelowMax' /\ LiveIsSomebody'
  BY DEF ScreensIInv, BoardIsPast, PositionBelowMax, LiveIsSomebody, posVars, boardVars, sessionVars
<1>4. OnPostHasPosition' /\ EditedIsOwn' /\ CommentsAreOfPost' /\ OutsideIsDead'
  BY ScreenKinds DEF OnPostHasPosition, EditedIsOwn, CommentsAreOfPost, OutsideIsDead
<1> QED BY <1>1, <1>2, <1>3, <1>4 DEF ScreensIInv

LEMMA NoListKeeps ==
    ASSUME ScreensIInv, NEW next \in Plain, next # "STAY", NoList(next),
           UNCHANGED <<posVars, sessionVars, boardVars, cinFailed, restarts, leaving>>
    PROVE  ScreensIInv'
BY MoveKeeps, BoardSame, FlagTypes DEF NoList, Goto, sessionVars

LEMMA ListTypes ==
    ASSUME ScreensIInv
    PROVE  /\ PendingFriends \in [from : {"none", "friends", "requests"},
                                  of : Users \cup {NoUser}, count : 0 .. MaxList]
           /\ Channels.of \in Users \cup {NoUser} /\ Channels.types \in Seq({"GROUP", "PRIVATE"})
           /\ Username \in Users \cup {NoUser}
BY DEF ScreensIInv, ScreensTypeOK

LEMMA ViewFriendsKeeps == ASSUME ScreensIInv, handleViewFriends PROVE ScreensIInv'
<1>1. CASE NoList("FRIEND_ENTRY")
  BY <1>1, NoListKeeps DEF handleViewFriends, Plain
<1>2. CASE ~NoList("FRIEND_ENTRY")
  <2>1. PICK n \in 0 .. MaxList : Listed("friends", n)
    BY <1>2 DEF handleViewFriends
  <2>2. Delivered /\ screen' = "FRIEND_ENTRY"
    BY <1>2 DEF handleViewFriends, Goto
  <2> QED BY <2>1, <2>2, ListKeeps, ListTypes DEF handleViewFriends, Listed, Plain, ListIsOwn
<1> QED BY <1>1, <1>2

LEMMA ViewPendingKeeps == ASSUME ScreensIInv, handleViewPendingFriendReq PROVE ScreensIInv'
<1>1. CASE NoList("FRIEND_ENTRY")
  BY <1>1, NoListKeeps DEF handleViewPendingFriendReq, Plain
<1>2. CASE ~NoList("FRIEND_ENTRY")
  <2>1. PICK n \in 0 .. MaxList :
           /\ Listed("requests", n)
           /\ screen' = "FRIEND_ENTRY" \/ (n > 0 /\ screen' = "CONFIRM_PENDING_FRIEND")
    BY <1>2 DEF handleViewPendingFriendReq, ConfirmOffered, Goto
  <2>2. Delivered /\ UNCHANGED <<posVars, sessionVars, boardVars, cinFailed, restarts, leaving>>
    BY <1>2 DEF handleViewPendingFriendReq
  <2> QED BY <2>1, <2>2, ListKeeps, ListTypes
          DEF Listed, Plain, Choosing, ListIsOwn, sessionVars
<1> QED BY <1>1, <1>2

LEMMA ConfirmKeeps == ASSUME ScreensIInv, handleConfirmFriendRequest PROVE ScreensIInv'
<1>1. /\ Delivered \/ Fault
      /\ cinFailed' \in BOOLEAN
      /\ screen' = screen \/ screen' \in {"VIEW_PENDING_FRIENDS", "FRIEND_ENTRY"}
  BY FlagTypes DEF handleConfirmFriendRequest, Goto
<1> QED BY <1>1, MoveKeeps, BoardSame, FlagTypes
        DEF handleConfirmFriendRequest, sessionVars, Plain

-----------------------------------------------------------------------------
(* The posts.                                                              *)

PosTypes ==
    /\ CurrentPid \in {-1} \cup 0 .. MaxPosts /\ MaxPid \in {-1} \cup 0 .. MaxPosts
    /\ CurrentCid \in {-1} \cup 0 .. MaxComments /\ MaxCid \in {-1} \cup 0 .. MaxComments

\* A step between the post screens: everything but the position stays.
LEMMA PostStep ==
    ASSUME ScreensIInv, Delivered \/ Fault, PosTypes', screen' \in Plain \cup OnPostScreens,
           PositionBelowMax', OnPostHasPosition', EditedIsOwn', CommentsAreOfPost',
           UNCHANGED <<listVars, sessionVars, boardVars, cinFailed, restarts, leaving>>
    PROVE  ScreensIInv'
<1>1. faults' \in 0 .. MaxFaults /\ OrphansNeedFault'
  BY FaultTypes DEF sessionVars
<1>2. ScreensTypeOK'
  BY <1>1, ScreenKinds DEF ScreensIInv, ScreensTypeOK, PosTypes, listVars, sessionVars, boardVars
<1>3. BoardIsPast' /\ LiveIsSomebody'
  BY DEF ScreensIInv, BoardIsPast, LiveIsSomebody, boardVars, sessionVars
<1>4. OutsideIsDead' /\ ListIsOwn'
  BY ScreenKinds DEF OutsideIsDead, ListIsOwn, Choosing
<1> QED BY <1>1, <1>2, <1>3, <1>4 DEF ScreensIInv

LEMMA PosFacts ==
    ASSUME ScreensIInv
    PROVE  PosTypes /\ CurrentPid <= MaxPid /\ MaxPosts \in Nat /\ MaxComments \in Nat
BY ScreensAssumption DEF ScreensIInv, ScreensTypeOK, PosTypes, PositionBelowMax

LEMMA GetMaxPidKeeps == ASSUME ScreensIInv, GetMaxPid PROVE ScreensIInv'
<1>1. screen \in Plain /\ (Delivered \/ Fault)
  BY ScreenKinds DEF GetMaxPid
<1>2. screen' \in Plain
  BY <1>1 DEF GetMaxPid, Goto, Plain
<1>3. PosTypes' /\ PositionBelowMax'
  <2>1. CASE UNCHANGED posVars
    BY <2>1, PosFacts DEF posVars, PosTypes, PositionBelowMax
  <2>2. CASE /\ CurrentPid' = LastPostId /\ MaxPid' = LastPostId
             /\ UNCHANGED <<CurrentCid, MaxCid>>
    BY <2>2, PosFacts, BoardFacts DEF PosTypes, PositionBelowMax
  <2> QED BY <2>1, <2>2 DEF GetMaxPid
<1>4. OnPostHasPosition' /\ EditedIsOwn' /\ CommentsAreOfPost'
  BY <1>2, ScreenKinds DEF OnPostHasPosition, EditedIsOwn, CommentsAreOfPost
<1>5. UNCHANGED <<listVars, sessionVars, boardVars, cinFailed, restarts, leaving>>
  BY DEF GetMaxPid
<1> QED BY <1>1, <1>2, <1>3, <1>4, <1>5, PostStep

\* Where the keys under a post lead, and what they do to the position.
LEMMA PromptLeads ==
    ASSUME ScreensIInv, NEW mine \in BOOLEAN, NEW otherwise \in {"STAY", "MAIN"},
           screen \in PostScreens, CurrentPid > 0, PostPrompt(mine, otherwise)
    PROVE  /\ CurrentPid' \in {-1} \cup 1 .. MaxPosts /\ CurrentPid' <= MaxPid' /\ MaxPid' = MaxPid
           /\ screen' \in Plain \cup OnPostScreens
           /\ screen' \in OnPostScreens => CurrentPid' = CurrentPid
           /\ screen' \in Editing => mine
<1>1. CurrentPid \in Int /\ MaxPid \in Int /\ CurrentPid <= MaxPid /\ MaxPid <= MaxPosts /\ MaxPosts \in Nat
  BY PosFacts DEF PosTypes
<1>2. MaxPid' = MaxPid
  BY DEF PostPrompt
<1>3. \/ CurrentPid' = CurrentPid + 1 /\ CurrentPid < MaxPid /\ screen' = "VIEW_NEXT_POST"
      \/ CurrentPid' = CurrentPid - 1 /\ CurrentPid > 1 /\ screen' = "VIEW_PREV_POST"
      \/ CurrentPid' = -1 /\ screen' = "MAIN"
      \/ /\ CurrentPid' = CurrentPid
         /\ \/ mine /\ screen' \in Editing
            \/ screen' \in {"LIKE_POST", "UNLIKE_POST", "ADD_COMMENT", "VIEW_NEXT_COMMENTS"}
            \/ screen' \in {screen, "MAIN"}
  BY DEF PostPrompt, can_edit, Goto, Editing
<1>4. /\ {"VIEW_NEXT_POST", "VIEW_PREV_POST", "MAIN"} \subseteq Plain
      /\ {"LIKE_POST", "UNLIKE_POST", "ADD_COMMENT", "VIEW_NEXT_COMMENTS"} \subseteq OnPostScreens
      /\ {"LIKE_POST", "UNLIKE_POST", "ADD_COMMENT", "VIEW_NEXT_COMMENTS"} \cap Editing = {}
      /\ screen \in Plain /\ Editing \subseteq OnPostScreens
      /\ Plain \cap OnPostScreens = {}
  BY ScreenKinds DEF Plain, OnPostScreens, CommentScreens, Editing
<1> QED BY <1>1, <1>2, <1>3, <1>4

LEMMA ViewPostKeeps == ASSUME ScreensIInv, handleViewPost PROVE ScreensIInv'
<1>1. /\ screen \in PostScreens /\ CurrentPid > 0
      /\ UNCHANGED <<listVars, sessionVars, boardVars, cinFailed, restarts, leaving>>
  BY DEF handleViewPost
<1>2. CASE /\ Shown(CurrentPid) /\ Delivered
           /\ MaxCid' = MaxCidOf(CurrentPid) /\ CurrentCid' = MaxCid'
           /\ PostPrompt(board[CurrentPid].poster = Username, "STAY")
  <2>1. /\ live /\ CurrentPid \in PostIds /\ board[CurrentPid] \in PostInfo
        /\ CurrentPid <= LastPostId
        /\ MaxCid' = board[CurrentPid].comments /\ CurrentCid' = board[CurrentPid].comments
    BY <1>2, BoardFacts DEF Shown, Exists, MaxCidOf
  <2>2. /\ CurrentPid' \in {-1} \cup 1 .. MaxPosts /\ CurrentPid' <= MaxPid' /\ MaxPid' = MaxPid
        /\ screen' \in Plain \cup OnPostScreens
        /\ screen' \in OnPostScreens => CurrentPid' = CurrentPid
        /\ screen' \in Editing => board[CurrentPid].poster = Username
    BY <1>1, <1>2, PromptLeads
  <2>3. PosTypes'
    BY <2>1, <2>2, PosFacts DEF PosTypes, PostInfo
  <2>4. PositionBelowMax' /\ OnPostHasPosition'
    BY <1>1, <2>2 DEF PositionBelowMax, OnPostHasPosition
  <2>5. EditedIsOwn'
    BY <1>1, <2>1, <2>2, ScreenKinds DEF EditedIsOwn, boardVars, sessionVars
  <2>6. CommentsAreOfPost'
    <3>1. board[CurrentPid].comments <= board[CurrentPid].comments
      BY <2>1 DEF PostInfo
    <3> QED BY <1>1, <2>1, <2>2, <3>1, ScreenKinds DEF CommentsAreOfPost, boardVars
  <2> QED BY <1>1, <1>2, <2>2, <2>3, <2>4, <2>5, <2>6, PostStep
<1>3. CASE /\ ~Shown(CurrentPid) /\ Delivered
           /\ LET next == Skip(screen = "VIEW_NEXT_POST", CurrentPid, MaxPid) IN
              IF next = 0 THEN Goto("MAIN") /\ UNCHANGED posVars
              ELSE /\ Goto("STAY") /\ CurrentPid' = next
                   /\ UNCHANGED <<MaxPid, CurrentCid, MaxCid>>
  <2>1. screen' \in Plain
    BY <1>1, <1>3, ScreenKinds DEF Goto, Plain
  <2>2. CurrentPid \in Int /\ MaxPid \in Int
    BY PosFacts DEF PosTypes
  <2>3. PosTypes' /\ PositionBelowMax'
    BY <1>3, <2>2, PosFacts DEF PosTypes, PositionBelowMax, Skip, posVars
  <2>4. OnPostHasPosition' /\ EditedIsOwn' /\ CommentsAreOfPost'
    BY <2>1, ScreenKinds DEF OnPostHasPosition, EditedIsOwn, CommentsAreOfPost
  <2> QED BY <1>1, <1>3, <2>1, <2>3, <2>4, PostStep
<1>4. CASE Fault /\ PostPrompt(FALSE, "MAIN") /\ UNCHANGED <<CurrentCid, MaxCid>>
  <2>1. /\ CurrentPid' \in {-1} \cup 1 .. MaxPosts /\ CurrentPid' <= MaxPid' /\ MaxPid' = MaxPid
        /\ screen' \in Plain \cup OnPostScreens
        /\ screen' \in OnPostScreens => CurrentPid' = CurrentPid
        /\ screen' \notin Editing
    BY <1>1, <1>4, PromptLeads
  <2>2. PosTypes'
    BY <1>4, <2>1, PosFacts DEF PosTypes
  <2>3. PositionBelowMax' /\ OnPostHasPosition' /\ EditedIsOwn' /\ CommentsAreOfPost'
    BY <1>1, <1>4, <2>1, FaultTypes
       DEF PositionBelowMax, OnPostHasPosition, EditedIsOwn, CommentsAreOfPost
  <2> QED BY <1>1, <1>4, <2>1, <2>2, <2>3, PostStep
<1> QED BY <1>2, <1>3, <1>4 DEF handleViewPost

LEMMA EditPostKeeps == ASSUME ScreensIInv, handleEditPost PROVE ScreensIInv'
<1>1. UNCHANGED <<posVars, listVars, sessionVars, cinFailed, restarts, leaving>>
  BY DEF handleEditPost
<1>2. CASE Goto("STAY") /\ UNCHANGED <<boardVars, faults>>
  BY <1>1, <1>2, MoveKeeps, BoardSame, FlagTypes DEF Goto, sessionVars, Delivered
<1>3. CASE /\ Goto("VIEW_NEXT_POST")
           /\ \E open \in BOOLEAN :
                 PostRequest(live /\ Exists(CurrentPid), [board[CurrentPid] EXCEPT !.open = open])
  <2>1. PICK open \in BOOLEAN :
           PostRequest(live /\ Exists(CurrentPid), [board[CurrentPid] EXCEPT !.open = open])
    BY <1>3
  <2> DEFINE p == [board[CurrentPid] EXCEPT !.open = open]
  <2>2. ASSUME Exists(CurrentPid)
        PROVE  /\ p \in PostInfo /\ p.poster = board[CurrentPid].poster
               /\ board[CurrentPid].comments <= p.comments
    <3>1. board[CurrentPid] \in PostInfo
      BY <2>2, BoardFacts DEF Exists
    <3> QED BY <3>1, BoardFacts DEF PostInfo
  <2> HIDE DEF p
  <2>3. BoardMoves /\ (Delivered \/ Fault)
    BY <2>1, <2>2, PostRequestMoves DEF p
  <2> QED BY <1>1, <1>3, <2>3, MoveKeeps, FlagTypes DEF Goto, sessionVars, Plain
<1> QED BY <1>2, <1>3 DEF handleEditPost

LEMMA RemovePostKeeps == ASSUME ScreensIInv, handleRemovePost PROVE ScreensIInv'
<1> DEFINE mine == live /\ Exists(CurrentPid) /\ board[CurrentPid].poster = Username
<1>1. /\ UNCHANGED <<listVars, sessionVars, cinFailed, restarts, leaving>>
      /\ screen' = "VIEW_NEXT_POST" /\ screen' \in Plain
  BY DEF handleRemovePost, Goto, Plain
<1>2. CASE UNCHANGED <<posVars, boardVars, faults>>
  BY <1>1, <1>2, MoveKeeps, BoardSame, FlagTypes DEF sessionVars, Delivered
<1>3. CASE PostRequest(mine, NoPost) /\ UNCHANGED posVars
  <2>1. BoardMoves /\ (Delivered \/ Fault)
    BY <1>3, PostRequestMoves
  <2> QED BY <1>1, <1>3, <2>1, MoveKeeps, FlagTypes DEF sessionVars
<1>4. CASE /\ PostRequest(mine, NoPost)
           /\ CurrentPid' = -1 /\ MaxPid' = -1 /\ UNCHANGED <<CurrentCid, MaxCid>>
  <2>1. BoardMoves /\ (Delivered \/ Fault)
    BY <1>4, PostRequestMoves
  <2>2. BoardIsPast' /\ PositionBelowMax' /\ LiveIsSomebody'
    BY <1>1, <1>4, <2>1 DEF ScreensIInv, BoardMoves, BoardIsPast, PositionBelowMax, LiveIsSomebody,
       sessionVars
  <2>3. faults' \in 0 .. MaxFaults /\ OrphansNeedFault'
    BY <1>1, <2>1, FaultTypes DEF sessionVars
  <2>4. LastPostId' \in 0 .. MaxPosts /\ board' \in [PostIds -> PostInfo \cup {NoPost}]
    BY <2>1, BoardFacts DEF BoardMoves
  <2>5. PosTypes'
    BY <1>4, PosFacts DEF PosTypes
  <2>6. ScreensTypeOK'
    BY <1>1, <2>3, <2>4, <2>5, ScreenKinds
       DEF ScreensIInv, ScreensTypeOK, PosTypes, listVars, sessionVars
  <2> QED BY <1>1, <2>2, <2>3, <2>6, PlainKeeps
<1> QED BY <1>2, <1>3, <1>4 DEF handleRemovePost

LEMMA AddCommentKeeps == ASSUME ScreensIInv, handleAddComment PROVE ScreensIInv'
<1> DEFINE p == [board[CurrentPid] EXCEPT !.comments = @ + 1]
           taken == Shown(CurrentPid) /\ board[CurrentPid].comments < MaxComments
<1>1. /\ UNCHANGED <<posVars, listVars, sessionVars, cinFailed, restarts, leaving>>
      /\ screen' \in Plain /\ PostRequest(taken, p)
  BY DEF handleAddComment, Goto, Plain
<1>2. ASSUME taken
      PROVE  /\ Exists(CurrentPid)
             /\ p \in PostInfo /\ p.poster = board[CurrentPid].poster
             /\ board[CurrentPid].comments <= p.comments
  <2>1. Exists(CurrentPid) /\ board[CurrentPid] \in PostInfo
        /\ board[CurrentPid].comments < MaxComments
    BY <1>2, BoardFacts DEF Shown, Exists
  <2>2. board[CurrentPid].comments + 1 \in 0 .. MaxComments
    BY <2>1, BoardFacts
  <2> QED BY <2>1, <2>2, BoardFacts DEF PostInfo
<1> HIDE DEF p, taken
<1>3. BoardMoves /\ (Delivered \/ Fault)
  BY <1>1, <1>2, PostRequestMoves
<1> QED BY <1>1, <1>3, MoveKeeps, FlagTypes DEF sessionVars

LEMMA LikeKeeps == ASSUME ScreensIInv, handleLike PROVE ScreensIInv'
BY MoveKeeps, BoardSame, FlagTypes DEF handleLike, Goto, sessionVars, Plain

LEMMA CommentPromptLeads ==
    ASSUME ScreensIInv, NEW otherwise \in {"VIEW_NEXT_POST", "MAIN"},
           screen \in CommentScreens, CommentPrompt(otherwise)
    PROVE  CurrentCid' \in {-1} \cup 0 .. MaxComments /\ screen' \in Plain \cup CommentScreens
<1>1. /\ CurrentCid \in {-1} \cup 0 .. MaxComments /\ MaxCid \in {-1} \cup 0 .. MaxComments
      /\ MaxComments \in Nat
  BY PosFacts DEF PosTypes
<1>2. \/ CurrentCid' = CurrentCid + 1 /\ CurrentCid < MaxCid /\ screen' = "VIEW_NEXT_COMMENTS"
      \/ CurrentCid' = CurrentCid - 1 /\ CurrentCid > 1 /\ screen' = "VIEW_PREV_COMMENTS"
      \/ CurrentCid' = CurrentCid /\ screen' \in {"VIEW_NEXT_POST", "MAIN", screen}
  BY DEF CommentPrompt, Goto
<1>3. {"VIEW_NEXT_POST", "MAIN"} \subseteq Plain
      /\ CommentScreens = {"VIEW_NEXT_COMMENTS", "VIEW_PREV_COMMENTS"}
  BY DEF Plain, CommentScreens
<1>4. CurrentCid' \in {-1} \cup 0 .. MaxComments
  BY <1>1, <1>2
<1> QED BY <1>2, <1>3, <1>4

LEMMA ViewCommentKeeps == ASSUME ScreensIInv, handleViewComment PROVE ScreensIInv'
<1>1. /\ screen \in CommentScreens /\ (Delivered \/ Fault)
      /\ UNCHANGED <<CurrentPid, MaxPid, MaxCid>>
      /\ UNCHANGED <<listVars, sessionVars, boardVars, cinFailed, restarts, leaving>>
  BY DEF handleViewComment
<1>2. CurrentCid' \in {-1} \cup 0 .. MaxComments /\ screen' \in Plain \cup CommentScreens
  <2>1. CASE CommentPrompt("VIEW_NEXT_POST") \/ CommentPrompt("MAIN")
    BY <1>1, <2>1, CommentPromptLeads
  <2>2. CASE LET next == Skip(screen = "VIEW_NEXT_COMMENTS", CurrentCid, MaxCid)
             IN IF next = 0 THEN Goto("MAIN") /\ UNCHANGED CurrentCid
                            ELSE Goto("STAY") /\ CurrentCid' = next
    <3>1. CurrentCid' \in {-1} \cup 0 .. MaxComments
      BY <2>2, PosFacts DEF PosTypes, Skip
    <3>2. screen' \in Plain \cup CommentScreens
      BY <1>1, <2>2 DEF Goto, Plain
    <3> QED BY <3>1, <3>2
  <2> QED BY <2>1, <2>2 DEF handleViewComment
<1>3. PosTypes' /\ PositionBelowMax'
  BY <1>1, <1>2, PosFacts DEF PosTypes, PositionBelowMax
<1>4. screen' \in Plain \cup OnPostScreens /\ OnPostHasPosition' /\ EditedIsOwn'
  BY <1>1, <1>2, ScreenKinds DEF ScreensIInv, OnPostHasPosition, EditedIsOwn
<1>5. CommentsAreOfPost'
  <2> SUFFICES ASSUME faults' = 0, live' PROVE CommentsAreOfPost'
    BY DEF CommentsAreOfPost
  <2>1. faults = 0 /\ live
    BY <1>1, FaultTypes DEF sessionVars, Delivered
  <2> QED BY <1>1, <2>1 DEF ScreensIInv, CommentsAreOfPost, Exists, boardVars
<1> QED BY <1>1, <1>3, <1>4, <1>5, PostStep

-----------------------------------------------------------------------------
(* The channels, and everybody else.                                       *)

LEMMA ViewChannelsKeeps == ASSUME ScreensIInv, handleViewChannels PROVE ScreensIInv'
<1>1. CASE NoList("MSG_ENTRY")
  BY <1>1, NoListKeeps DEF handleViewChannels, Plain
<1>2. CASE ~NoList("MSG_ENTRY")
  <2>1. PICK types \in ChannelLists : Channels' = [of |-> Username, types |-> types]
    BY <1>2 DEF handleViewChannels
  <2>2. types \in Seq({"GROUP", "PRIVATE"})
    BY ScreensAssumption DEF ChannelLists
  <2>3. /\ Delivered /\ UNCHANGED <<posVars, sessionVars, boardVars, cinFailed, restarts, leaving>>
        /\ UNCHANGED PendingFriends
        /\ screen' \in {"MSG_JOIN_CHANNEL", "MSG_LEAVE_GROUP", "MSG_ENTRY"}
    BY <1>2 DEF handleViewChannels, Goto
  <2> QED BY <2>1, <2>2, <2>3, ListKeeps, ListTypes DEF Plain, Choosing, ListIsOwn, sessionVars
<1> QED BY <1>1, <1>2

LEMMA JoinChannelKeeps == ASSUME ScreensIInv, handleJoinChannel PROVE ScreensIInv'
<1>1. /\ Delivered /\ cinFailed' \in BOOLEAN /\ UNCHANGED boardVars
      /\ screen' = screen \/ screen' = "MSG_MAIN_WINDOW"
  BY FlagTypes DEF handleJoinChannel, OutOfRange, Goto
<1> QED BY <1>1, MoveKeeps, BoardSame, FlagTypes DEF handleJoinChannel, sessionVars, Plain

LEMMA LeaveGroupKeeps == ASSUME ScreensIInv, handleLeaveGroup PROVE ScreensIInv'
<1>1. /\ Delivered \/ Fault
      /\ cinFailed' \in BOOLEAN /\ UNCHANGED boardVars
      /\ screen' = screen \/ screen' \in {"MSG_VIEW_CHANNELS", "MSG_ENTRY"}
  BY FlagTypes DEF handleLeaveGroup, OutOfRange, Goto
<1> QED BY <1>1, MoveKeeps, BoardSame, FlagTypes DEF handleLeaveGroup, sessionVars, Plain

LEMMA MsgMainWindowKeeps == ASSUME ScreensIInv, handleMsgMainWindow PROVE ScreensIInv'
BY MoveKeeps, BoardSame, FlagTypes DEF handleMsgMainWindow, Goto, sessionVars, Plain, Delivered

LEMMA OtherClientsKeep == ASSUME ScreensIInv, OtherClients PROVE ScreensIInv'
<1>1. BoardMoves
  <2>1. CASE OtherPosts
    BY <2>1, PostedMoves DEF OtherPosts
  <2>2. CASE OtherChanges
    <3>1. PICK i \in PostIds :
             /\ board[i] # NoPost
             /\ \/ board' = [board EXCEPT ![i] = NoPost]
                \/ \E open \in BOOLEAN \ {board[i].open} : board' = [board EXCEPT ![i].open = open]
                \/ /\ board[i].comments < MaxComments
                   /\ board' = [board EXCEPT ![i].comments = @ + 1]
      BY <2>2 DEF OtherChanges
    <3>2. board[i] \in PostInfo /\ LastPostId' = LastPostId
      BY <2>2, <3>1, BoardFacts DEF OtherChanges
    <3>3. CASE board' = [board EXCEPT ![i] = NoPost]
      BY <3>1, <3>2, <3>3, PostChanges
    <3>4. CASE \E open \in BOOLEAN \ {board[i].open} : board' = [board EXCEPT ![i].open = open]
      <4>1. PICK open \in BOOLEAN : board' = [board EXCEPT ![i].open = open]
        BY <3>4
      <4> DEFINE p == [board[i] EXCEPT !.open = open]
      <4>2. /\ p \in PostInfo /\ p.poster = board[i].poster /\ board[i].comments <= p.comments
            /\ board' = [board EXCEPT ![i] = p]
        BY <3>2, <4>1, BoardFacts DEF PostInfo
      <4> HIDE DEF p
      <4> QED BY <3>1, <3>2, <4>2, PostChanges
    <3>5. CASE /\ board[i].comments < MaxComments
               /\ board' = [board EXCEPT ![i].comments = @ + 1]
      <4> DEFINE p == [board[i] EXCEPT !.comments = @ + 1]
      <4>1. board[i].comments + 1 \in 0 .. MaxComments
        BY <3>2, <3>5, BoardFacts
      <4>2. /\ p \in PostInfo /\ p.poster = board[i].poster /\ board[i].comments <= p.comments
            /\ board' = [board EXCEPT ![i] = p]
        BY <3>2, <3>5, <4>1, BoardFacts DEF PostInfo
      <4> HIDE DEF p
      <4> QED BY <3>1, <3>2, <4>2, PostChanges
    <3> QED BY <3>1, <3>3, <3>4, <3>5
  <2> QED BY <2>1, <2>2 DEF OtherClients
<1> QED BY <1>1, MoveKeeps, FlagTypes DEF OtherClients, sessionVars, Delivered

LEMMA ServerRestartsKeeps == ASSUME ScreensIInv, ServerRestarts PROVE ScreensIInv'
<1>1. /\ restarts' \in 0 .. MaxRestarts /\ live' = FALSE /\ orphans' = 0 /\ faults' = faults
      /\ UNCHANGED <<screen, posVars, listVars, Username, cinFailed, leaving>>
  BY FlagTypes, ScreensAssumption DEF ServerRestarts
<1>2. BoardIsPast' /\ LastPostId' \in 0 .. MaxPosts /\ board' \in [PostIds -> PostInfo \cup {NoPost}]
  BY BoardFacts DEF ServerRestarts, BoardIsPast, boardVars
<1>3. OrphansNeedFault' /\ faults \in 0 .. MaxFaults /\ faults <= faults'
  BY <1>1, ScreensAssumption DEF ScreensIInv, ScreensTypeOK, OrphansNeedFault
<1>4. orphans' \in Nat /\ live' \in BOOLEAN
  BY <1>1
<1>5. ScreensTypeOK'
  BY <1>1, <1>2, <1>3, <1>4 DEF ScreensIInv, ScreensTypeOK, posVars, listVars
<1> QED BY <1>1, <1>2, <1>3, <1>5, StayKeeps

LEMMA DecideToLeaveKeeps == ASSUME ScreensIInv, DecideToLeave PROVE ScreensIInv'
BY MoveKeeps, BoardSame, FlagTypes DEF DecideToLeave, sessionVars, Delivered

-----------------------------------------------------------------------------
LEMMA ScreensIInvStep == ScreensIInv /\ [LeaveNext]_vars => ScreensIInv'
<1> SUFFICES ASSUME ScreensIInv, [LeaveNext]_vars PROVE ScreensIInv'
  OBVIOUS
<1>1. CASE ClientStep
  BY <1>1, PressKeyKeeps, FillInKeeps, GroupNameTakenKeeps, NoGroupNameKeeps, RegisterKeeps, LoginKeeps, LogoutKeeps,
     GetProfileKeeps, ViewFriendsKeeps, ViewPendingKeeps, ConfirmKeeps, GetMaxPidKeeps,
     ViewPostKeeps, EditPostKeeps, RemovePostKeeps, AddCommentKeeps, LikeKeeps, ViewCommentKeeps,
     ViewChannelsKeeps, JoinChannelKeeps, LeaveGroupKeeps, MsgMainWindowKeeps DEF ClientStep
<1>2. CASE OtherClients
  BY <1>2, OtherClientsKeep
<1>3. CASE ServerRestarts
  BY <1>3, ServerRestartsKeeps
<1>4. CASE DecideToLeave
  BY <1>4, DecideToLeaveKeeps
<1>5. CASE UNCHANGED vars
  <2>1. /\ UNCHANGED <<screen, posVars, listVars, sessionVars, boardVars, cinFailed, faults,
                       restarts, leaving>>
    BY <1>5 DEF vars
  <2> QED BY <2>1, MoveKeeps, BoardSame, FlagTypes DEF sessionVars, Delivered
<1> QED BY <1>1, <1>2, <1>3, <1>4, <1>5 DEF LeaveNext, ScreensNext

\* The inductive invariant holds however long the client is walked through, whether or
\* not its user is in a hurry to leave: the scheduling plays no part.
THEOREM ScreensInvariant == LeaveSpec => []ScreensIInv
<1>1. InitScreens => ScreensIInv
  BY ScreensInitIInv
<1>2. ScreensIInv /\ [LeaveNext]_vars => ScreensIInv'
  BY ScreensIInvStep
<1> QED BY <1>1, <1>2, PTL DEF LeaveSpec

\* Every global of client/Context.cpp keeps to its type, and the current post and comment
\* numbers never pass what the server can have: -1 stands for none.
THEOREM ScreensTypesAlways == LeaveSpec => []ScreensTypeOK
<1>1. ScreensIInv => ScreensTypeOK
  BY DEF ScreensIInv
<1> QED BY <1>1, ScreensInvariant, PTL

\* No request about a post or a comment carries a number out of the range the client was
\* given (client/Post.cpp:62), through any walk, removal, logout and login.
THEOREM PositionAlwaysInRange == LeaveSpec => []PositionInRange
<1>1. ScreensIInv => PositionInRange
  <2> SUFFICES ASSUME ScreensIInv, screen \in OnPostScreens
               PROVE  1 <= CurrentPid /\ CurrentPid <= MaxPid
    BY DEF PositionInRange
  <2>1. CurrentPid \in Int /\ CurrentPid <= MaxPid
    BY PosFacts DEF PosTypes
  <2> QED BY <2>1 DEF ScreensIInv, OnPostHasPosition
<1> QED BY <1>1, ScreensInvariant, PTL

\* can_edit, worked out on one screen, is still right on the next one where it is used
\* (client/Post.cpp:147, 231, 240), whatever the other clients and restarts do in between.
THEOREM EditIsAlwaysOwn == LeaveSpec => []EditIsOwn
<1>1. ScreensIInv => EditIsOwn
  BY DEF ScreensIInv, EditedIsOwn, EditIsOwn, Editing
<1> QED BY <1>1, ScreensInvariant, PTL

\* Where comments are walked, MaxCid is never the maximum of another post
\* (client/Post.cpp:156), as long as the transport has lost nothing.
THEOREM CommentsAlwaysOfThisPost == LeaveSpec => []CommentsOfThisPost
<1>1. ScreensIInv => CommentsOfThisPost
  BY DEF ScreensIInv, CommentsAreOfPost, CommentsOfThisPost
<1> QED BY <1>1, ScreensInvariant, PTL

\* The number typed at CONFIRM, JOIN and LEAVE indexes a list of its own kind, read by
\* who is logged in now (client/Account.cpp:428, 553; client/Message.cpp:183).
THEOREM ListIsAlwaysOwn == LeaveSpec => []ListIsOwn
<1>1. ScreensIInv => ListIsOwn
  BY DEF ScreensIInv
<1> QED BY <1>1, ScreensInvariant, PTL

\* Out of the program, and back at its entry, no session is left behind at the server
\* without a fault of the transport (client/Account.cpp:58, 108).
THEOREM SessionLeftAlwaysNeedsFault == LeaveSpec => []SessionLeftNeedsFault
<1>1. ScreensIInv => SessionLeftNeedsFault
  BY DEF ScreensIInv, OutsideIsDead, OrphansNeedFault, SessionLeftNeedsFault, Outside
<1> QED BY <1>1, ScreensInvariant, PTL
=============================================================================
