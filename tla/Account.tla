------------------------------- MODULE Account -------------------------------
(***************************************************************************)
(* server/Account.cpp: accounts, profiles and friendships, on top of the   *)
(* sessions of Session.tla.  One action per /account/ route, plus the ways *)
(* the process can end and come back.  The server is one thread that       *)
(* answers a request before it reads the next one, so a handler is one     *)
(* step; which request comes next, from whom and with which token, is      *)
(* arbitrary, which covers lost, duplicated, reordered and late datagrams. *)
(*                                                                         *)
(* Only payloads that pass the flatbuffers verifier with every field set,  *)
(* as the client builds them, and names without '/' are enumerated, the    *)
(* empty name included, which a client whose input has ended sends; a      *)
(* payload that fails the verifier is PayloadInvalid.                      *)
(***************************************************************************)
EXTENDS Session

CONSTANTS
    Passwords,  \* passwords a client can send; EmptyString may be one of them
    Nicknames,  \* nicknames a client can choose
    Birthdays,  \* formatted birthdays a client can choose
    Queries,    \* search strings
    Finds,      \* the pairs <<text, query>> for which text.find(query) succeeds
    EmptyString,
    NoAccount,  \* "bad path" in AccountProfiles
    NotSet,     \* "N/A", the birthday of a profile that has none
    MaxAsks     \* bound: /friend/add calls answered OK, per pair of users

\* A user's subtree without its friends/ children.
Profile == [password : Passwords,
            nickname : Users \cup Nicknames,
            birthday : Birthdays \cup {NotSet}]

ASSUME AccountAssumption ==
    /\ MaxAsks \in Nat
    /\ NoAccount \notin Profile
    /\ EmptyString \notin Users

\* The names a friend request can be addressed to.
Addressees == Users \cup {EmptyString}

VARIABLES
    AccountProfiles,        \* user -> Profile, the ptree loaded from the file
    Friends,                \* u -> v -> how many children "v" u's friends/ has
    PendingFriendRequests,  \* addressee -> users whose request is not answered
    accountFile,            \* what loadAccountFile would read; memory-like record
    asks,                   \* history: u -> v -> /friend/add of v by u, answered OK
    response                \* the last response, and the request it answers

accountVars == <<AccountProfiles, Friends, PendingFriendRequests, accountFile, asks>>
vars == <<sessionVars, accountVars, response>>

HasAccount(u) == AccountProfiles[u] # NoAccount

NoProfiles == [u \in Users |-> NoAccount]
NobodysFriends == [u \in Users |-> [v \in Users |-> 0]]

\* A missing file, an unreadable one and a truncated one all load as an empty
\* tree: loadAccountFile clears the tree first and read_json assigns it last.
EmptyFile == [profiles |-> NoProfiles, friends |-> NobodysFriends]

AccountTypeOK ==
    /\ SessionTypeOK
    /\ AccountProfiles \in [Users -> Profile \cup {NoAccount}]
    /\ Friends \in [Users -> [Users -> Nat]]
    /\ PendingFriendRequests \in [Addressees -> SUBSET Users]
    /\ accountFile \in [profiles : [Users -> Profile \cup {NoAccount}],
                        friends : [Users -> [Users -> Nat]]]
    /\ asks \in [Users -> [Users -> Nat]]

-----------------------------------------------------------------------------
(* Responses.                                                              *)

Respond(op, t, status, arg) ==
    response' = [op |-> op, session |-> t, status |-> status, arg |-> arg]

\* A handler that only answers.
AnswerOnly(op, t, status, arg) ==
    Respond(op, t, status, arg) /\ UNCHANGED <<sessionVars, accountVars>>

\* What every handler but register, login and logout checks first, and what it
\* answers when the check fails.
Authenticated(t) == IsSessionExist(t)

AuthError(op, t) == ~Authenticated(t) /\ AnswerOnly(op, t, "AUTH_ERROR", EmptyString)

InitAccount ==
    /\ InitSession
    /\ AccountProfiles = NoProfiles
    /\ Friends = NobodysFriends
    /\ PendingFriendRequests = [v \in Addressees |-> {}]
    /\ accountFile = EmptyFile
    /\ asks = NobodysFriends
    /\ response = [op |-> "none", session |-> NoUuid, status |-> "OK", arg |-> EmptyString]

\* Any handler, when the flatbuffers verifier refuses the payload.
PayloadInvalid(op) == AnswerOnly(op, NoUuid, "PAYLOAD_FORMAT_INVALID", EmptyString)

-----------------------------------------------------------------------------
(* The handlers.                                                           *)

\* The account that registering stores.
NewProfile(u, p) == [password |-> p, nickname |-> u, birthday |-> NotSet]

\* Mutant NameTakenNever: registering overwrites an account of that name.
NameTakenNever(u) == FALSE

NameTaken(u) == HasAccount(u)

handleRegister(u, p, a) ==
    \/ /\ u = EmptyString \/ p = EmptyString
       /\ AnswerOnly("register", NoUuid, "REGISTER_INFO_INVALID", EmptyString)
    \/ /\ u # EmptyString /\ p # EmptyString
       /\ NameTaken(u)
       /\ AnswerOnly("register", NoUuid, "USER_EXIST", EmptyString)
    \/ /\ u # EmptyString /\ p # EmptyString
       /\ ~NameTaken(u)
       /\ AccountProfiles' = [AccountProfiles EXCEPT ![u] = NewProfile(u, p)]
       /\ NewSession(u, a)
       /\ Respond("register", Draw(1), "OK", p)
       /\ UNCHANGED <<Friends, PendingFriendRequests, accountFile, asks>>

PasswordCorrect(u, p) ==
    /\ u \in Users /\ HasAccount(u)
    /\ AccountProfiles[u].password # EmptyString
    /\ AccountProfiles[u].password = p

\* An unknown name and a wrong password get the same answer.
handleLogin(u, p, a) ==
    \/ /\ ~PasswordCorrect(u, p)
       /\ AnswerOnly("login", NoUuid, "AUTH_ERROR", EmptyString)
    \/ /\ PasswordCorrect(u, p)
       /\ NewSession(u, a)
       /\ Respond("login", Draw(1), "OK", p)
       /\ UNCHANGED accountVars

\* GetStringValue throws for a dead token, and the handler answers
\* UNKNOWN_ERROR instead of AUTH_ERROR.
handleLogout(t) ==
    \/ /\ ~IsSessionExist(t)
       /\ AnswerOnly("logout", t, "UNKNOWN_ERROR", EmptyString)
    \/ /\ RemoveSession(t)
       /\ Respond("logout", t, "OK", EmptyString)
       /\ UNCHANGED accountVars

\* get_child of the session's own account throws ptree_bad_path without one.
OwnAccountStatus(u) == IF HasAccount(u) THEN "OK" ELSE "INVALID_REQUEST_ARGUMENT"

handleGetProfile(t) ==
    \/ AuthError("profile", t)
    \/ /\ Authenticated(t)
       /\ LET me == SessionUser(t) IN
          AnswerOnly("profile", t, OwnAccountStatus(me),
                     IF HasAccount(me)
                     THEN <<AccountProfiles[me].nickname, AccountProfiles[me].birthday>>
                     ELSE EmptyString)

\* n and b: the new nickname and birthday, NotSet for one the request leaves alone.
Edited(profile, n, b) ==
    [profile EXCEPT !.nickname = IF n = NotSet THEN @ ELSE n,
                    !.birthday = IF b = NotSet THEN @ ELSE b]

handleEditProfile(t, n, b) ==
    \/ AuthError("profile/edit", t)
    \/ /\ Authenticated(t)
       /\ LET me == SessionUser(t) IN
          /\ AccountProfiles' = IF ~HasAccount(me) THEN AccountProfiles ELSE
                [AccountProfiles EXCEPT ![me] = Edited(@, n, b)]
          /\ Respond("profile/edit", t, OwnAccountStatus(me), EmptyString)
       /\ UNCHANGED <<sessionVars, Friends, PendingFriendRequests, accountFile, asks>>

Found(u, q) ==
    HasAccount(u) /\ (<<u, q>> \in Finds \/ <<AccountProfiles[u].nickname, q>> \in Finds)

handleSearchAccount(t, q) ==
    \/ AuthError("search", t)
    \/ Authenticated(t) /\ AnswerOnly("search", t, "OK", {u \in Users : Found(u, q)})

\* A child "v" is added under u's friends and a child "u" under v's: add appends
\* even when such a child is there, and twice to the same tree if u = v.
\* Mutant BefriendMine: the other account is forgotten.
BefriendMine(u, v) == Friends' = [Friends EXCEPT ![u][v] = @ + 1]

Befriend(u, v) ==
    Friends' = [x \in Users |-> [y \in Users |->
        Friends[x][y] + (IF x = u /\ y = v THEN 1 ELSE 0)
                      + (IF x = v /\ y = u THEN 1 ELSE 0)]]

\* History: one more call of u about v was answered OK.
Asked(u, v) == asks[u][v] < MaxAsks /\ asks' = [asks EXCEPT ![u][v] = @ + 1]

\* f's request waits for an answer of me.
HasAsked(me, f) == f \in PendingFriendRequests[me]

\* Mutant EraseNothing: an answered request stays in the set.
EraseNothing(me, f) == UNCHANGED PendingFriendRequests

EraseRequest(me, f) ==
    PendingFriendRequests' = [PendingFriendRequests EXCEPT ![me] = @ \ {f}]

InsertRequest(me, f) ==
    PendingFriendRequests' = [PendingFriendRequests EXCEPT ![f] = @ \cup {me}]

\* get_child of the empty path is the root of the tree: it does not throw.
AddresseeExists(f) == f # EmptyString => HasAccount(f)

\* A first call is a request, the call in the other direction its confirmation.
\* Friends already may ask again: nothing looks at Friends.  Nobody is named
\* EmptyString, so a request to it waits until the process ends.
handleAddFriends(t, f) ==
    \/ AuthError("friend/add", t)
    \/ /\ Authenticated(t)
       /\ LET me == SessionUser(t) IN
          \/ /\ ~AddresseeExists(f) \/ (HasAsked(me, f) /\ ~HasAccount(me))
             /\ AnswerOnly("friend/add", t, "INVALID_REQUEST_ARGUMENT", f)
          \/ /\ AddresseeExists(f) /\ HasAccount(me)
             /\ HasAsked(me, f)
             /\ Befriend(me, f)
             /\ Asked(me, f)
             /\ EraseRequest(me, f)
             /\ Respond("friend/add", t, "OK", f)
             /\ UNCHANGED <<sessionVars, AccountProfiles, accountFile>>
          \/ /\ AddresseeExists(f)
             /\ ~HasAsked(me, f)
             /\ IF f = EmptyString THEN UNCHANGED asks ELSE Asked(me, f)
             /\ InsertRequest(me, f)
             /\ Respond("friend/add", t, "OK", f)
             /\ UNCHANGED <<sessionVars, AccountProfiles, Friends, accountFile>>

\* The names under friends/, one per child.
handleShowFriends(t) ==
    \/ AuthError("friend", t)
    \/ /\ Authenticated(t)
       /\ LET me == SessionUser(t) IN
          AnswerOnly("friend", t, OwnAccountStatus(me),
                     IF HasAccount(me) THEN Friends[me] ELSE EmptyString)

\* operator[] leaves an empty set behind for a user without requests, which no
\* lookup tells from a missing one.
handleShowFriendRequests(t) ==
    \/ AuthError("friend/pending", t)
    \/ /\ Authenticated(t)
       /\ AnswerOnly("friend/pending", t, "OK", PendingFriendRequests[SessionUser(t)])

-----------------------------------------------------------------------------
(* The end of the process and the start of the next one, in one step:       *)
(* requests sent in between are lost.  Sessions and pending requests are     *)
(* only in memory.  A signal is taken while the server waits for a request.  *)

\* What the next process starts from, f being what it can read.
\* Mutant StartFromKeepsRequests: pending requests outlive the process.
StartFromKeepsRequests(f) ==
    /\ AccountProfiles' = f.profiles
    /\ Friends' = f.friends
    /\ accountFile' = f
    /\ ForgetSessions
    /\ UNCHANGED <<PendingFriendRequests, asks>>
    /\ response' = [op |-> "restart", session |-> NoUuid, status |-> "OK", arg |-> EmptyString]

StartFrom(f) ==
    /\ AccountProfiles' = f.profiles
    /\ Friends' = f.friends
    /\ PendingFriendRequests' = [v \in Addressees |-> {}]
    /\ accountFile' = f
    /\ ForgetSessions
    /\ UNCHANGED asks
    /\ response' = [op |-> "restart", session |-> NoUuid, status |-> "OK", arg |-> EmptyString]

Saved == [profiles |-> AccountProfiles, friends |-> Friends]

\* SIGTERM or SIGINT: DoFinalize runs write_json on the whole tree.
StopAndRestart == StartFrom(Saved)

\* SIGKILL or a crash: nothing is written; or it hits write_json in the middle.
CrashAndRestart == StartFrom(accountFile)
CrashInWriteAndRestart == StartFrom(EmptyFile)

-----------------------------------------------------------------------------
Ops == {"register", "login", "logout", "profile", "profile/edit", "search",
        "friend", "friend/pending", "friend/add"}

Credential == \E u \in Users \cup {EmptyString}, p \in Passwords, a \in Addrs :
    handleRegister(u, p, a) \/ handleLogin(u, p, a)

Request(t) ==
    \/ handleLogout(t)
    \/ handleGetProfile(t)
    \/ \E n \in Nicknames \cup {NotSet}, b \in Birthdays \cup {NotSet} :
          handleEditProfile(t, n, b)
    \/ \E q \in Queries : handleSearchAccount(t, q)
    \/ \E f \in Addressees : handleAddFriends(t, f)
    \/ handleShowFriends(t)
    \/ handleShowFriendRequests(t)

AccountNext ==
    \/ Credential
    \/ \E t \in Uuids : Request(t)
    \/ \E op \in Ops : PayloadInvalid(op)
    \/ StopAndRestart
    \/ CrashAndRestart
    \/ CrashInWriteAndRestart

AccountSpec == InitAccount /\ [][AccountNext]_vars

-----------------------------------------------------------------------------
(* Properties.                                                             *)

\* handleAddFriends (Account.cpp:395-396) writes a friendship into two account
\* trees: neither in memory nor in the file does one side ever have it without
\* the other, or have it more often.
FriendshipSymmetric ==
    \A u, v \in Users :
        /\ Friends[u][v] = Friends[v][u]
        /\ accountFile.friends[u][v] = accountFile.friends[v][u]

\* Two users never wait for each other: whoever asks second confirms
\* (Account.cpp:382-399), in whatever order their calls arrive.
NoCrossedRequests ==
    \A u, v \in Users : u # v =>
        ~(u \in PendingFriendRequests[v] /\ v \in PendingFriendRequests[u])

\* Each of u's entries for v, and the request of u that v has yet to answer,
\* cost u one call of /friend/add: nobody gets a friend he did not ask for, and
\* a repeated or duplicated call of one side alone never makes a friendship,
\* whatever was lost in restarts.
FriendshipNeedsBothSides ==
    \A u, v \in Users :
        Friends[u][v] + (IF u \in PendingFriendRequests[v] THEN 1 ELSE 0) <= asks[u][v]

\* Whoever is named by a live session, a pending request or a friendship has an
\* account, so no get_child of a handler fails half way (Account.cpp:389-390).
\* The one exception is the addressee of a request to the empty name, which
\* handleAddFriends accepts (Account.cpp:380, 401-402); whoever made it has an
\* account all the same.
NoDanglingUsers ==
    \A u, v \in Users :
        /\ \A t \in Uuids : IsSessionExist(t) => HasAccount(SessionUser(t))
        /\ u \in PendingFriendRequests[v] => HasAccount(u) /\ HasAccount(v)
        /\ u \in PendingFriendRequests[EmptyString] => HasAccount(u)
        /\ Friends[u][v] > 0 => HasAccount(u) /\ HasAccount(v)
        /\ accountFile.friends[u][v] > 0 =>
              accountFile.profiles[u] # NoAccount /\ accountFile.profiles[v] # NoAccount

\* The file is an earlier state of the memory: it has no account, password or
\* friendship that memory lacks, so a crash loses what was acknowledged since
\* the last start but never brings back something else.
FileIsPast ==
    \A u, v \in Users :
        /\ accountFile.profiles[u] # NoAccount =>
               /\ HasAccount(u)
               /\ accountFile.profiles[u].password = AccountProfiles[u].password
        /\ accountFile.friends[u][v] <= Friends[u][v]

\* A name belongs to whoever registered it: as long as the account exists,
\* through restarts and crashes, its password does not change.
NameKeepsPassword ==
    [][\A u \in Users : HasAccount(u) /\ HasAccount(u)' =>
          AccountProfiles'[u].password = AccountProfiles[u].password]_vars

\* A session of u is opened only by a call that carries u's password
\* (handleRegister, handleLogin).
SessionNeedsPassword ==
    [][\A t \in Uuids : (~IsSessionExist(t) /\ IsSessionExist(t)') =>
          /\ response'.arg # EmptyString
          /\ response'.arg = AccountProfiles'[SessionValueMap'[t].username].password]_vars

\* Between restarts u's profile changes, and u asks for a friend, only in answer
\* to a live session of u.
OnlyOwnSession ==
    [][response'.op # "restart" =>
         \A u \in Users :
            \/ response'.status = "OK" /\ response'.session \in Uuids
               /\ SessionValueMap'[response'.session] # NoSession
               /\ SessionValueMap'[response'.session].username = u
            \/ /\ AccountProfiles'[u] = AccountProfiles[u]
               /\ \A v \in Addressees :
                     u \in PendingFriendRequests'[v] => u \in PendingFriendRequests[v]]_vars
=============================================================================
