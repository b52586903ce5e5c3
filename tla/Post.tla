-------------------------------- MODULE Post --------------------------------
(***************************************************************************)
(* server/Post.cpp: posts, who may see them, likes and comments.  Posts    *)
(* are numbered by lastPostId, comments of a post by its lastCommentId;    *)
(* all of it is one ptree that a graceful stop writes to the post file.    *)
(* The poster's nickname and address and the time are copied once and only *)
(* shown, and are left out.                                                *)
(***************************************************************************)
EXTENDS Session, Integers, Sequences

CONSTANTS
    Contents,       \* texts of posts and comments
    Masks,          \* permission masks a client can send, as sets of bits
    MaxPosts,       \* bound: how many post ids may be given out
    MaxComments,    \* bound: comments of one post
    LikeCounts,     \* bound: the like numbers of a post
    MaxGranted,     \* bound: entries in the granted list of one post
    NoPost, NoComment   \* "bad path" in the ptree

PermissionTypes == {"ANY", "FRIENDS", "POSTER_DEFINED"}

PostIds == 1 .. MaxPosts
CommentIds == 1 .. MaxComments
Comment == [user : Users, content : Contents]

PostTree == [poster : Users,
             mask : Masks,
             granted : Seq(Users),
             content : Contents,
             likes : Int,
             lastCommentId : 0 .. MaxComments,
             comments : [CommentIds -> Comment \cup {NoComment}]]

ASSUME PostAssumption ==
    /\ MaxPosts \in Nat /\ MaxComments \in Nat /\ MaxGranted \in Nat
    /\ LikeCounts \subseteq Int
    /\ \A m \in Masks : m \subseteq PermissionTypes
    /\ NoComment \notin Comment /\ NoPost \notin PostTree

VARIABLES
    Posts,      \* post id -> PostTree, or NoPost
    lastPostId,
    postFile,   \* what loadPostFile would read: [posts, lastPostId]
    named,      \* history: post id -> the users some accepted request granted it to
    response    \* the last response, and the request it answers

postVars == <<Posts, lastPostId, postFile, named>>
vars == <<sessionVars, postVars, response>>

PostExists(i) == Posts[i] # NoPost

NoPosts == [i \in PostIds |-> NoPost]
NoNames == [i \in PostIds |-> {}]

PostTypeOK ==
    /\ SessionTypeOK
    /\ \A i \in PostIds : PostExists(i) => Posts[i] \in PostTree
    /\ lastPostId \in 0 .. MaxPosts
    /\ \A i \in PostIds : postFile.posts[i] # NoPost => postFile.posts[i] \in PostTree
    /\ postFile.lastPostId \in 0 .. MaxPosts
    /\ named \in [PostIds -> SUBSET Users]

\* The session, post and user list count only where the request got through.
Respond(op, status, t, i, list) ==
    response' = [op |-> op, status |-> status, session |-> t, post |-> i, list |-> list]

Refuse(status) ==
    Respond("refused", status, NoUuid, 0, <<>>) /\ UNCHANGED <<sessionVars, postVars>>

Answer(op, t, i) == Respond(op, "OK", t, i, <<>>) /\ UNCHANGED <<sessionVars, postVars>>

AuthError(t) == ~IsSessionExist(t) /\ Refuse("AUTH_ERROR")

\* Any handler, when the flatbuffers verifier refuses the payload.
PayloadInvalid == Refuse("PAYLOAD_FORMAT_INVALID")

\* get_child throws ptree_bad_path for an id that is not there.
NotFound(t, i) == IsSessionExist(t) /\ ~PostExists(i) /\ Refuse("INVALID_REQUEST_ARGUMENT")

Denied == Refuse("PERMISSION_DENIED")

EmptyPostFile == [posts |-> NoPosts, lastPostId |-> 0]

InitPost ==
    /\ InitSession
    /\ Posts = NoPosts
    /\ lastPostId = 0
    /\ postFile = EmptyPostFile
    /\ named = NoNames
    /\ response = [op |-> "none", status |-> "OK", session |-> NoUuid, post |-> 0, list |-> <<>>]

-----------------------------------------------------------------------------
(* Who may see what.                                                       *)

Members(list) == {list[k] : k \in 1 .. Len(list)}

\* The FRIENDS bit is in the enumeration and in the client's menu, and is looked
\* at nowhere. Mutant canViewMasked: the bits are compared as a whole.
canViewMasked(i, u) ==
    \/ Posts[i].poster = u
    \/ Posts[i].mask # {}
    \/ u \in Members(Posts[i].granted)

canViewPost(i, u) ==
    \/ Posts[i].poster = u
    \/ "ANY" \in Posts[i].mask
    \/ "POSTER_DEFINED" \in Posts[i].mask /\ u \in Members(Posts[i].granted)

\* The granted nodes after a new list: put overwrites the first node, or makes
\* one, and add appends the rest; an empty list touches nothing.
GrantedAfter(old, list) ==
    IF list = <<>> THEN old
    ELSE IF old = <<>> THEN list
    ELSE <<Head(list)>> \o Tail(old) \o Tail(list)

-----------------------------------------------------------------------------
(* The handlers.                                                           *)

\* The id of a new post. Mutant NextFreeId: the first id that is not in use.
NextFreeId == CHOOSE i \in PostIds : ~PostExists(i)

NextPostId == lastPostId + 1

NewPost(u, content, mask, list) ==
    [poster |-> u, mask |-> mask, granted |-> list, content |-> content, likes |-> 0,
     lastCommentId |-> 0, comments |-> [k \in CommentIds |-> NoComment]]

handleNewPost(t, content, mask, list) ==
    \/ AuthError(t)
    \/ /\ IsSessionExist(t)
       /\ lastPostId < MaxPosts
       /\ lastPostId' = lastPostId + 1
       /\ Posts' = [Posts EXCEPT ![NextPostId] = NewPost(SessionUser(t), content, mask, list)]
       /\ named' = [named EXCEPT ![NextPostId] = Members(list)]
       /\ Respond("new", "OK", t, NextPostId, list)
       /\ UNCHANGED <<sessionVars, postFile>>

handleGetMaxPid(t) == AuthError(t) \/ (IsSessionExist(t) /\ Answer("view/maxPid", t, 0))

handleViewPost(t, i) ==
    \/ AuthError(t)
    \/ NotFound(t, i)
    \/ /\ IsSessionExist(t) /\ PostExists(i)
       /\ IF canViewPost(i, SessionUser(t)) THEN Answer("view", t, i) ELSE Denied

\* Nobody asks whether the caller can see the post, or has liked it before.
handleLike(t, i, n) ==
    \/ AuthError(t)
    \/ NotFound(t, i)
    \/ /\ IsSessionExist(t) /\ PostExists(i)
       /\ Posts[i].likes + n \in LikeCounts
       /\ Posts' = [Posts EXCEPT ![i].likes = @ + n]
       /\ Respond("like", "OK", t, i, <<>>)
       /\ UNCHANGED <<sessionVars, lastPostId, postFile, named>>

\* Mutant IsViewer: whoever can see a post can edit and remove it.
IsViewer(i, u) == canViewPost(i, u)

IsPoster(i, u) == Posts[i].poster = u

handleEditPost(t, i, content) ==
    \/ AuthError(t)
    \/ NotFound(t, i)
    \/ IsSessionExist(t) /\ PostExists(i) /\ ~IsPoster(i, SessionUser(t)) /\ Denied
    \/ /\ IsSessionExist(t) /\ PostExists(i)
       /\ IsPoster(i, SessionUser(t))
       /\ Posts' = [Posts EXCEPT ![i].content = content]
       /\ Respond("edit", "OK", t, i, <<>>)
       /\ UNCHANGED <<sessionVars, lastPostId, postFile, named>>

\* Any session may change the permission of any post.
handleEditPostPerm(t, i, mask, list) ==
    \/ AuthError(t)
    \/ NotFound(t, i)
    \/ /\ IsSessionExist(t) /\ PostExists(i)
       /\ LET granted == GrantedAfter(Posts[i].granted, list) IN
          /\ Len(granted) <= MaxGranted
          /\ Posts' = [Posts EXCEPT ![i].mask = mask, ![i].granted = granted]
       /\ named' = [named EXCEPT ![i] = @ \cup Members(list)]
       /\ Respond("edit/perm", "OK", t, i, list)
       /\ UNCHANGED <<sessionVars, lastPostId, postFile>>

\* lastPostId stays, so the id is gone for good.
handleRemovePost(t, i) ==
    \/ AuthError(t)
    \/ NotFound(t, i)
    \/ IsSessionExist(t) /\ PostExists(i) /\ ~IsPoster(i, SessionUser(t)) /\ Denied
    \/ /\ IsSessionExist(t) /\ PostExists(i)
       /\ IsPoster(i, SessionUser(t))
       /\ Posts' = [Posts EXCEPT ![i] = NoPost]
       /\ Respond("remove", "OK", t, i, <<>>)
       /\ UNCHANGED <<sessionVars, lastPostId, postFile, named>>

\* Mutant SameCommentId: the id is increased for the first comment only.
SameCommentId(i) == 1
NextCommentId(i) == Posts[i].lastCommentId + 1

handleAddComment(t, i, content) ==
    \/ AuthError(t)
    \/ NotFound(t, i)
    \/ IsSessionExist(t) /\ PostExists(i) /\ ~canViewPost(i, SessionUser(t)) /\ Denied
    \/ /\ IsSessionExist(t) /\ PostExists(i)
       /\ canViewPost(i, SessionUser(t))
       /\ NextCommentId(i) <= MaxComments
       /\ Posts' = [Posts EXCEPT ![i].lastCommentId = NextCommentId(i),
                                 ![i].comments[NextCommentId(i)] =
                                    [user |-> SessionUser(t), content |-> content]]
       /\ Respond("comment/add", "OK", t, i, <<>>)
       /\ UNCHANGED <<sessionVars, lastPostId, postFile, named>>

handleViewComment(t, i, k) ==
    \/ AuthError(t)
    \/ NotFound(t, i)
    \/ /\ IsSessionExist(t) /\ PostExists(i)
       /\ IF ~canViewPost(i, SessionUser(t)) THEN Denied
          ELSE IF Posts[i].comments[k] = NoComment THEN Refuse("INVALID_REQUEST_ARGUMENT")
          ELSE Answer("comment/view", t, i)

-----------------------------------------------------------------------------
(* The other ways the state changes: clients come and go, processes too.     *)

LoginOrRegister(u, a) ==
    /\ NewSession(u, a)
    /\ Respond("login", "OK", Draw(1), 0, <<>>)
    /\ UNCHANGED postVars

Logout(t) ==
    /\ RemoveSession(t)
    /\ Respond("logout", "OK", t, 0, <<>>)
    /\ UNCHANGED postVars

\* The next process reads the post file. Mutant CountFromPosts: counting goes on
\* after the last post that is left.
CountFromPosts(f) == Cardinality({i \in PostIds : f.posts[i] # NoPost})

LastPostIdOf(f) == f.lastPostId

StartFrom(f) ==
    /\ Posts' = f.posts
    /\ lastPostId' = LastPostIdOf(f)
    /\ postFile' = f
    /\ ForgetSessions
    /\ UNCHANGED named
    /\ Respond("restart", "OK", NoUuid, 0, <<>>)

\* SIGTERM or SIGINT: DoFinalize runs write_json on the whole tree.
StopAndRestart == StartFrom([posts |-> Posts, lastPostId |-> lastPostId])

\* SIGKILL or a crash: nothing is written; or it hits write_json in the middle.
CrashAndRestart == StartFrom(postFile)
CrashInWriteAndRestart == StartFrom(EmptyPostFile)

\* The lists and masks of a client: it asks for names only with POSTER_DEFINED.
UserLists == UNION {[1 .. n -> Users] : n \in 0 .. MaxGranted}

Permission(mask, list) == "POSTER_DEFINED" \in mask \/ list = <<>>

\* A dead token is refused before the rest of the payload is looked at, so one
\* payload of each kind stands for all of them.
Inputs(t, S) == IF IsSessionExist(t) \/ S = {} THEN S ELSE {CHOOSE x \in S : TRUE}

\* For the same reason one dead token stands for all.
DeadTokens == {t \in Uuids : ~IsSessionExist(t)}
Tokens == (Uuids \ DeadTokens) \cup
          (IF DeadTokens = {} THEN {} ELSE {CHOOSE t \in DeadTokens : TRUE})

Request(t) ==
    \/ \E mask \in Masks, list \in Inputs(t, UserLists) :
          /\ Permission(mask, list)
          /\ \/ \E c \in Contents : handleNewPost(t, c, mask, list)
             \/ \E i \in Inputs(t, PostIds) : handleEditPostPerm(t, i, mask, list)
    \/ handleGetMaxPid(t)
    \/ \E i \in Inputs(t, PostIds) :
          \/ handleViewPost(t, i)
          \/ \E n \in {-1, 1} : handleLike(t, i, n)
          \/ \E c \in Contents : handleEditPost(t, i, c) \/ handleAddComment(t, i, c)
          \/ handleRemovePost(t, i)
          \/ \E k \in CommentIds : handleViewComment(t, i, k)

PostNext ==
    \/ \E u \in Users, a \in Addrs : LoginOrRegister(u, a)
    \/ \E t \in Uuids : Logout(t)
    \/ \E t \in Tokens : Request(t)
    \/ PayloadInvalid
    \/ StopAndRestart
    \/ CrashAndRestart
    \/ CrashInWriteAndRestart

PostSpec == InitPost /\ [][PostNext]_vars

-----------------------------------------------------------------------------
(* Properties.                                                             *)

\* A post id in the file and in memory is the same post of the same poster, and
\* memory has no post the file's counter covers and the file lacks: an id that
\* was removed is not given out again (handleNewPost, handleRemovePost), and a
\* restart never mixes two posts under one id. No post is out of the reach of
\* a client that counts down from /view/maxPid.
IdNamesOnePost ==
    \A i \in PostIds : PostExists(i) =>
        /\ i <= lastPostId
        /\ i <= postFile.lastPostId =>
              postFile.posts[i] # NoPost /\ postFile.posts[i].poster = Posts[i].poster

\* An id that a process has passed is not given out by it, however posts are
\* removed in between and whatever it was started from.
IdsAreNotReused ==
    [][response'.op # "restart" =>
         \A i \in PostIds : PostExists(i)' /\ ~PostExists(i) => i > lastPostId]_vars

\* While a process runs, a post goes or gets another text only at the request
\* of its poster, and the poster stays the same (handleEditPost,
\* handleRemovePost).
OnlyPosterChanges ==
    [][response'.op # "restart" =>
         \A i \in PostIds : PostExists(i) =>
            \/ /\ PostExists(i)'
               /\ Posts'[i].poster = Posts[i].poster
               /\ Posts'[i].content = Posts[i].content
            \/ /\ SessionUser(response'.session) = Posts[i].poster
               /\ PostExists(i)' => Posts'[i].poster = Posts[i].poster]_vars

\* The comments of a post are numbered from 1 to its lastCommentId without a
\* gap, in memory and in the file, so a client that asks for all numbers up to
\* the answered maximum is refused none (handleAddComment, handleViewComment).
CommentsAreDense ==
    \A i \in PostIds, k \in CommentIds :
        /\ PostExists(i) =>
              ((Posts[i].comments[k] # NoComment) <=> (k <= Posts[i].lastCommentId))
        /\ postFile.posts[i] # NoPost =>
              ((postFile.posts[i].comments[k] # NoComment) <=> (k <= postFile.posts[i].lastCommentId))

\* A comment keeps its number and its text as long as the post is there and the
\* process runs, whoever comments after it (handleAddComment).
CommentsStay ==
    [][response'.op # "restart" =>
         \A i \in PostIds, k \in CommentIds :
            (PostExists(i) /\ PostExists(i)' /\ Posts[i].comments[k] # NoComment) =>
               Posts'[i].comments[k] = Posts[i].comments[k]]_vars

\* Who reads or comments on a post that is not open to all is its poster or was
\* named in an accepted request for that very post, not for another one that
\* had its id before (canViewPost; handleEditPostPerm, handleNewPost).
ReadersWereNamed ==
    [][response'.op \in {"view", "comment/view", "comment/add"} =>
         LET i == response'.post
             u == SessionUser(response'.session)
         IN \/ u = Posts[i].poster
            \/ "ANY" \in Posts[i].mask
            \/ "POSTER_DEFINED" \in Posts[i].mask /\ u \in named[i]]_vars

\* However the nodes of earlier lists are overwritten and appended to, every user
\* of the list just accepted is granted, and nobody is granted who was in none
\* of the lists for this post (handleEditPostPerm, handleNewPost).
ListIsGranted ==
    [][response'.op \in {"new", "edit/perm"} =>
         LET i == response'.post IN
         /\ Members(response'.list) \subseteq Members(Posts'[i].granted)
         /\ Members(Posts'[i].granted) \subseteq named'[i]]_vars
=============================================================================
