------------------------------- MODULE Social -------------------------------
(***************************************************************************)
(* One server process: the account service and the post service on the     *)
(* sessions they share.  A post keeps its poster's name, and nothing in    *)
(* server/Post.cpp asks the account tree whether that name exists or whose *)
(* friend it is.  The two services save to two files, the post file first  *)
(* (server/Main.cpp:82-83 adds the callbacks, and Utils.cpp:18 puts a new  *)
(* one in front of the others); Lifecycle has the steps, here a stop is    *)
(* one step that may be cut short.                                         *)
(***************************************************************************)
EXTENDS Session, Integers, Sequences

CONSTANTS
    Passwords, Nicknames, Birthdays, Queries, Finds, EmptyString, NoAccount, NotSet, MaxAsks,
    Contents, Masks, MaxPosts, MaxComments, LikeCounts, MaxGranted, NoPost, NoComment

VARIABLES
    AccountProfiles, Friends, PendingFriendRequests, accountFile, asks, accountResponse,
    Posts, lastPostId, postFile, named, postResponse,
    halfSaved   \* history: a stop was cut short after the post file was written

A == INSTANCE Account WITH response <- accountResponse
P == INSTANCE Post WITH response <- postResponse

\* What the two services assume.
ASSUME SocialAssumption ==
    /\ MaxAsks \in Nat
    /\ NoAccount \notin A!Profile
    /\ EmptyString \notin Users
    /\ MaxPosts \in Nat /\ MaxComments \in Nat /\ MaxGranted \in Nat
    /\ LikeCounts \subseteq Int
    /\ \A m \in Masks : m \subseteq P!PermissionTypes
    /\ NoComment \notin P!Comment /\ NoPost \notin P!PostTree

accountVars == <<AccountProfiles, Friends, PendingFriendRequests, accountFile, asks, accountResponse>>
postVars == <<Posts, lastPostId, postFile, named, postResponse>>
socialVars == <<sessionVars, accountVars, postVars, halfSaved>>

InitSocial == A!InitAccount /\ P!InitPost /\ halfSaved = FALSE

\* The router hands a request to one of the services.
AccountRequest ==
    /\ A!Credential \/ \E t \in Uuids : A!Request(t)
    /\ UNCHANGED <<postVars, halfSaved>>

PostRequest ==
    /\ \E t \in P!Tokens : P!Request(t)
    /\ UNCHANGED <<accountVars, halfSaved>>

\* SIGTERM or SIGINT. Mutant SavePostsOnly: the account service has no callback.
SavePostsOnly == P!StopAndRestart /\ A!CrashAndRestart
SaveBoth == P!StopAndRestart /\ A!StopAndRestart

StopServices == SaveBoth /\ UNCHANGED halfSaved

KillServices == P!CrashAndRestart /\ A!CrashAndRestart /\ UNCHANGED halfSaved

\* The process is killed while it writes the one file or the other.
KillInStop ==
    \/ P!CrashInWriteAndRestart /\ A!CrashAndRestart /\ UNCHANGED halfSaved
    \/ P!StopAndRestart /\ (A!CrashAndRestart \/ A!CrashInWriteAndRestart) /\ halfSaved' = TRUE

SocialNext == AccountRequest \/ PostRequest \/ StopServices \/ KillServices \/ KillInStop

SocialSpec == InitSocial /\ [][SocialNext]_socialVars

-----------------------------------------------------------------------------
(* Properties.                                                             *)

\* A post in memory or on file has a poster with an account there, so nobody can
\* register the name and take the post over (server/Post.cpp:101), unless a stop
\* was cut short between the two files.
PostersHaveAccounts ==
    ~halfSaved => \A i \in P!PostIds :
        /\ P!PostExists(i) => A!HasAccount(Posts[i].poster)
        /\ postFile.posts[i] # NoPost => accountFile.profiles[postFile.posts[i].poster] # NoAccount

\* A comment keeps its number and its text as long as its post is there, whatever is
\* asked of the account service meanwhile (handleAddComment).
CommentsStay == P!CommentsStay
=============================================================================
