----------------------------- MODULE PostProofs -----------------------------
(***************************************************************************)
(* Proofs about Post, for any users, texts, masks and numbers of posts,    *)
(* comments and sessions.  A restart puts the file in the place of memory, *)
(* so the invariant says of the file what it says of memory, and that the  *)
(* file's counter is never ahead.                                          *)
(***************************************************************************)
EXTENDS Post, SessionProofs

Tree == [PostIds -> PostTree \cup {NoPost}]

PostTypes ==
    /\ Posts \in Tree
    /\ lastPostId \in 0 .. MaxPosts
    /\ postFile \in [posts : Tree, lastPostId : 0 .. MaxPosts]
    /\ named \in [PostIds -> SUBSET Users]

\* The file's counter covers the file's posts, and memory has counted at least as far.
FileIsBehind ==
    /\ postFile.lastPostId <= lastPostId
    /\ \A i \in PostIds : postFile.posts[i] # NoPost => i <= postFile.lastPostId

\* Whoever is granted, in memory or in the file, was named in a request for that id
\* since it was given out.
GrantedWereNamed ==
    \A i \in PostIds :
        /\ PostExists(i) => Members(Posts[i].granted) \subseteq named[i]
        /\ postFile.posts[i] # NoPost => Members(postFile.posts[i].granted) \subseteq named[i]

PostIInv ==
    /\ SessionIInv
    /\ PostTypes
    /\ IdNamesOnePost
    /\ FileIsBehind
    /\ CommentsAreDense
    /\ GrantedWereNamed

IsDense(p) == \A k \in CommentIds : (p.comments[k] # NoComment) <=> (k <= p.lastCommentId)

\* A server that finds no post file starts in the invariant.
LEMMA PostInitIInv == InitPost => PostIInv
<1> SUFFICES ASSUME InitPost PROVE PostIInv
  OBVIOUS
<1>1. SessionIInv
  BY SessionInit DEF InitPost
<1> QED
  BY <1>1, PostAssumption
     DEF InitPost, NoPosts, NoNames, EmptyPostFile, PostIInv, PostTypes, Tree, PostIds,
         IdNamesOnePost, FileIsBehind, CommentsAreDense, GrantedWereNamed, PostExists

\* One payload of each kind is still a payload of that kind.
LEMMA InputsAmong == ASSUME NEW t, NEW S PROVE Inputs(t, S) \subseteq S
BY DEF Inputs

LEMMA TokensAmong == Tokens \subseteq Uuids
BY DEF Tokens, DeadTokens

LEMMA UserListsAreSeqs == UserLists \subseteq Seq(Users)
BY PostAssumption DEF UserLists

LEMMA UserOfSession ==
    ASSUME SessionIInv, NEW t \in Uuids, IsSessionExist(t)
    PROVE  SessionUser(t) \in Users
BY DEF SessionIInv, SessionTypeOK, IsSessionExist, SessionUser, SessionValue

\* Post touches the three maps of the sessions only through their operations.
LEMMA PostStepIsSessionStep == [PostNext]_vars => [SessionNext]_sessionVars
<1> SUFFICES ASSUME [PostNext]_vars PROVE [SessionNext]_sessionVars
  OBVIOUS
<1>1. ASSUME NEW u \in Users, NEW a \in Addrs, LoginOrRegister(u, a)
      PROVE  [SessionNext]_sessionVars
  BY <1>1 DEF LoginOrRegister, SessionNext
<1>2. ASSUME NEW t \in Uuids, Logout(t) PROVE [SessionNext]_sessionVars
  BY <1>2 DEF Logout, SessionNext
<1>3. ASSUME NEW t \in Uuids, Request(t) PROVE UNCHANGED sessionVars
  BY ZenonT(40), <1>3 DEF Request, handleNewPost, handleGetMaxPid, handleViewPost, handleLike,
     handleEditPost, handleEditPostPerm, handleRemovePost, handleAddComment,
     handleViewComment, AuthError, NotFound, Denied, Refuse, Answer
<1>4. CASE PayloadInvalid
  BY <1>4 DEF PayloadInvalid, Refuse
<1>5. CASE StopAndRestart \/ CrashAndRestart \/ CrashInWriteAndRestart
  BY <1>5 DEF StopAndRestart, CrashAndRestart, CrashInWriteAndRestart, StartFrom, SessionNext
<1>6. CASE UNCHANGED vars
  BY <1>6 DEF vars
<1> QED BY <1>1, <1>2, <1>3, <1>4, <1>5, <1>6, TokensAmong DEF PostNext

-----------------------------------------------------------------------------
(* One lemma per kind of change.                                           *)

\* A step that leaves posts, counter, file and history alone.
LEMMA NothingChangedKeeps ==
    ASSUME PostIInv, SessionIInv', UNCHANGED postVars PROVE PostIInv'
BY DEF PostIInv, postVars, PostTypes, IdNamesOnePost, FileIsBehind, CommentsAreDense,
   GrantedWereNamed, PostExists

\* A new post under the next id.
LEMMA NewPostKeeps ==
    ASSUME PostIInv, SessionIInv', NEW u \in Users, NEW c \in Contents, NEW mask \in Masks,
           NEW list \in Seq(Users),
           lastPostId < MaxPosts, lastPostId' = lastPostId + 1,
           Posts' = [Posts EXCEPT ![lastPostId + 1] = NewPost(u, c, mask, list)],
           named' = [named EXCEPT ![lastPostId + 1] = Members(list)],
           UNCHANGED postFile
    PROVE  PostIInv'
<1> DEFINE p == NewPost(u, c, mask, list)
           i == lastPostId + 1
<1>0. PostTypes /\ IdNamesOnePost /\ FileIsBehind /\ CommentsAreDense /\ GrantedWereNamed
  BY DEF PostIInv
<1>1. /\ lastPostId \in Nat /\ i \in PostIds
      /\ postFile.lastPostId \in Nat /\ postFile.lastPostId < i
  BY <1>0, PostAssumption DEF PostTypes, PostIds, FileIsBehind
<1>2. p \in PostTree /\ p.granted = list /\ IsDense(p)
  BY PostAssumption DEF NewPost, PostTree, IsDense, CommentIds
<1>3. p # NoPost
  BY <1>2, PostAssumption
<1>4. /\ Posts'[i] = p /\ named'[i] = Members(list)
      /\ \A j \in PostIds \ {i} : Posts'[j] = Posts[j] /\ named'[j] = named[j]
  BY <1>0, <1>1 DEF PostTypes, Tree
<1>5. postFile.posts[i] = NoPost
  BY <1>0, <1>1 DEF FileIsBehind
<1> HIDE DEF p, i
<1>6. Members(list) \subseteq Users
  BY DEF Members
<1>7. PostTypes'
  <2>1. Posts' \in Tree
    BY <1>0, <1>1, <1>2 DEF PostTypes, Tree, i, p
  <2>2. named' \in [PostIds -> SUBSET Users]
    BY <1>0, <1>1, <1>6 DEF PostTypes, i
  <2>3. lastPostId' \in 0 .. MaxPosts
    BY <1>1, PostAssumption
  <2> QED
    BY <1>0, <2>1, <2>2, <2>3 DEF PostTypes
<1>8. IdNamesOnePost'
  BY <1>0, <1>1, <1>4, <1>3 DEF IdNamesOnePost, PostExists, PostIds, i
<1>9. FileIsBehind'
  BY <1>0, <1>1 DEF FileIsBehind
<1>10. CommentsAreDense'
  BY <1>0, <1>2, <1>4 DEF CommentsAreDense, IsDense, PostExists
<1>11. GrantedWereNamed'
  BY <1>0, <1>2, <1>4, <1>5 DEF GrantedWereNamed, PostExists
<1> QED
  BY <1>7, <1>8, <1>9, <1>10, <1>11 DEF PostIInv

\* A change of one post that keeps its poster, its dense comments and its named readers.
LEMMA ChangeKeeps ==
    ASSUME PostIInv, SessionIInv', NEW i \in PostIds, PostExists(i),
           NEW p \in PostTree, p.poster = Posts[i].poster, IsDense(p),
           Posts' = [Posts EXCEPT ![i] = p],
           named' \in [PostIds -> SUBSET Users],
           \A j \in PostIds : named[j] \subseteq named'[j],
           Members(p.granted) \subseteq named'[i],
           UNCHANGED <<lastPostId, postFile>>
    PROVE  PostIInv'
<1>0. PostTypes /\ IdNamesOnePost /\ FileIsBehind /\ CommentsAreDense /\ GrantedWereNamed
  BY DEF PostIInv
<1>1. /\ Posts'[i] = p
      /\ \A j \in PostIds \ {i} : Posts'[j] = Posts[j]
  BY <1>0 DEF PostTypes, Tree
<1>2. p # NoPost
  BY PostAssumption
<1>3. PostTypes'
  BY <1>0 DEF PostTypes, Tree
<1>4. IdNamesOnePost'
  BY <1>0, <1>1, <1>2 DEF IdNamesOnePost, PostExists
<1>5. FileIsBehind'
  BY <1>0 DEF FileIsBehind
<1>6. CommentsAreDense'
  BY <1>0, <1>1 DEF CommentsAreDense, IsDense, PostExists
<1>7. GrantedWereNamed'
  BY <1>0, <1>1, <1>2 DEF GrantedWereNamed, PostExists
<1> QED
  BY <1>3, <1>4, <1>5, <1>6, <1>7 DEF PostIInv

\* A post that is removed.
LEMMA RemoveKeeps ==
    ASSUME PostIInv, SessionIInv', NEW i \in PostIds,
           Posts' = [Posts EXCEPT ![i] = NoPost],
           UNCHANGED <<lastPostId, postFile, named>>
    PROVE  PostIInv'
<1>0. PostTypes /\ IdNamesOnePost /\ FileIsBehind /\ CommentsAreDense /\ GrantedWereNamed
  BY DEF PostIInv
<1>1. /\ Posts'[i] = NoPost
      /\ \A j \in PostIds \ {i} : Posts'[j] = Posts[j]
  BY <1>0 DEF PostTypes, Tree
<1> QED
  BY <1>0, <1>1 DEF PostIInv, PostTypes, Tree, IdNamesOnePost, FileIsBehind,
     CommentsAreDense, GrantedWereNamed, PostExists

\* The next process reads the file, be it what memory was, what it was, or empty.
LEMMA RestartKeeps ==
    ASSUME PostIInv, SessionIInv', StopAndRestart \/ CrashAndRestart \/ CrashInWriteAndRestart
    PROVE  PostIInv'
<1>0. PostTypes /\ IdNamesOnePost /\ FileIsBehind /\ CommentsAreDense /\ GrantedWereNamed
  BY DEF PostIInv
<1> USE DEF StartFrom, LastPostIdOf, PostIInv, PostTypes, Tree, IdNamesOnePost, FileIsBehind,
            CommentsAreDense, GrantedWereNamed, PostExists
<1>1. CASE StopAndRestart
  BY <1>0, <1>1, PostAssumption DEF StopAndRestart
<1>2. CASE CrashAndRestart
  BY <1>0, <1>2, PostAssumption DEF CrashAndRestart
<1>3. CASE CrashInWriteAndRestart
  BY <1>0, <1>3, PostAssumption DEF CrashInWriteAndRestart, EmptyPostFile, NoPosts, PostIds
<1> QED BY <1>1, <1>2, <1>3

-----------------------------------------------------------------------------
(* The handlers.                                                           *)

\* What a list does to the granted nodes: everybody on it is granted, and nobody
\* who was on neither (Post.cpp:362-371).
LEMMA GrantedAfterMembers ==
    ASSUME NEW old \in Seq(Users), NEW list \in Seq(Users)
    PROVE  /\ GrantedAfter(old, list) \in Seq(Users)
           /\ Members(list) \subseteq Members(GrantedAfter(old, list))
           /\ Members(GrantedAfter(old, list)) \subseteq Members(old) \cup Members(list)
<1>1. CASE list = <<>> \/ old = <<>>
  BY <1>1 DEF GrantedAfter, Members
<1>2. CASE list # <<>> /\ old # <<>>
  <2> DEFINE g == <<Head(list)>> \o Tail(old) \o Tail(list)
  <2>1. GrantedAfter(old, list) = g
    BY <1>2 DEF GrantedAfter
  <2>2. /\ Len(list) \in Nat \ {0} /\ Len(old) \in Nat \ {0}
        /\ Len(Tail(list)) = Len(list) - 1 /\ Len(Tail(old)) = Len(old) - 1
        /\ Head(list) = list[1]
        /\ \A k \in 1 .. Len(list) - 1 : Tail(list)[k] = list[k + 1]
        /\ \A k \in 1 .. Len(old) - 1 : Tail(old)[k] = old[k + 1]
    BY <1>2
  <2>3. /\ g \in Seq(Users) /\ Len(g) = Len(old) + Len(list) - 1
        /\ g[1] = list[1]
        /\ \A k \in 2 .. Len(old) : g[k] = old[k]
        /\ \A k \in Len(old) + 1 .. Len(old) + Len(list) - 1 : g[k] = list[k + 1 - Len(old)]
    BY <1>2, <2>2
  <2> HIDE DEF g
  <2>4. ASSUME NEW k \in 1 .. Len(list) PROVE \E m \in 1 .. Len(g) : g[m] = list[k]
    <3>1. CASE k = 1
      BY <3>1, <2>2, <2>3
    <3>2. CASE k > 1
      <4>1. Len(old) + k - 1 \in Len(old) + 1 .. Len(old) + Len(list) - 1
        BY <3>2, <2>2
      <4>2. g[Len(old) + k - 1] = list[k]
        BY SMTT(30), <4>1, <2>2, <2>3
      <4> QED BY <4>1, <4>2, <2>2, <2>3
    <3> QED BY <3>1, <3>2
  <2>5. ASSUME NEW m \in 1 .. Len(g)
        PROVE  \/ \E k \in 1 .. Len(list) : g[m] = list[k]
               \/ \E k \in 1 .. Len(old) : g[m] = old[k]
    <3>1. CASE m = 1
      BY <3>1, <2>2, <2>3
    <3>2. CASE m \in 2 .. Len(old)
      BY <3>2, <2>2, <2>3
    <3>3. CASE m > Len(old)
      <4>1. m + 1 - Len(old) \in 1 .. Len(list) /\ g[m] = list[m + 1 - Len(old)]
        BY <3>3, <2>2, <2>3
      <4> QED BY <4>1
    <3> QED BY <3>1, <3>2, <3>3, <2>2
  <2>6. Members(list) \subseteq Members(g)
    BY <2>4 DEF Members
  <2>7. Members(g) \subseteq Members(old) \cup Members(list)
    BY <2>5 DEF Members
  <2> QED BY <2>1, <2>3, <2>6, <2>7
<1> QED BY <1>1, <1>2

LEMMA HandlerNewPost ==
    ASSUME PostIInv, SessionIInv', NEW t \in Uuids, NEW c \in Contents, NEW mask \in Masks,
           NEW list \in Seq(Users), handleNewPost(t, c, mask, list)
    PROVE  PostIInv'
<1>1. CASE UNCHANGED postVars
  BY <1>1, NothingChangedKeeps
<1>2. CASE IsSessionExist(t) /\ ~AuthError(t)
  <2>1. SessionUser(t) \in Users
    BY <1>2, UserOfSession DEF PostIInv
  <2> QED BY <1>2, <2>1, NewPostKeeps DEF handleNewPost, NextPostId
<1> QED BY <1>1, <1>2 DEF handleNewPost, AuthError, Refuse

LEMMA HandlerLike ==
    ASSUME PostIInv, SessionIInv', NEW t \in Uuids, NEW i \in PostIds, NEW n \in {-1, 1},
           handleLike(t, i, n)
    PROVE  PostIInv'
<1>1. CASE UNCHANGED postVars
  BY <1>1, NothingChangedKeeps
<1>2. CASE PostExists(i) /\ Posts' = [Posts EXCEPT ![i].likes = @ + n]
           /\ UNCHANGED <<lastPostId, postFile, named>>
  <2> DEFINE p == [Posts[i] EXCEPT !.likes = @ + n]
  <2>1. Posts[i] \in PostTree /\ named \in [PostIds -> SUBSET Users]
    BY <1>2 DEF PostIInv, PostTypes, Tree, PostExists
  <2>2. p \in PostTree /\ p.poster = Posts[i].poster /\ p.granted = Posts[i].granted
        /\ p.comments = Posts[i].comments /\ p.lastCommentId = Posts[i].lastCommentId
    BY SMTT(30), <2>1 DEF PostTree
  <2>3. IsDense(p) /\ Members(p.granted) \subseteq named[i]
    BY <1>2, <2>2 DEF IsDense, PostIInv, CommentsAreDense, GrantedWereNamed
  <2>4. Posts' = [Posts EXCEPT ![i] = p]
    BY <1>2
  <2> HIDE DEF p
  <2> QED BY <1>2, <2>1, <2>2, <2>3, <2>4, ChangeKeeps
<1> QED BY <1>1, <1>2 DEF handleLike, AuthError, NotFound, Refuse

LEMMA HandlerEditPost ==
    ASSUME PostIInv, SessionIInv', NEW t \in Uuids, NEW i \in PostIds, NEW c \in Contents,
           handleEditPost(t, i, c)
    PROVE  PostIInv'
<1>1. CASE UNCHANGED postVars
  BY <1>1, NothingChangedKeeps
<1>2. CASE PostExists(i) /\ Posts' = [Posts EXCEPT ![i].content = c]
           /\ UNCHANGED <<lastPostId, postFile, named>>
  <2> DEFINE p == [Posts[i] EXCEPT !.content = c]
  <2>1. Posts[i] \in PostTree /\ named \in [PostIds -> SUBSET Users]
    BY <1>2 DEF PostIInv, PostTypes, Tree, PostExists
  <2>2. p \in PostTree /\ p.poster = Posts[i].poster /\ p.granted = Posts[i].granted
        /\ p.comments = Posts[i].comments /\ p.lastCommentId = Posts[i].lastCommentId
    BY <2>1 DEF PostTree
  <2>3. IsDense(p) /\ Members(p.granted) \subseteq named[i]
    BY <1>2, <2>2 DEF IsDense, PostIInv, CommentsAreDense, GrantedWereNamed
  <2>4. Posts' = [Posts EXCEPT ![i] = p]
    BY <1>2
  <2> HIDE DEF p
  <2> QED BY <1>2, <2>1, <2>2, <2>3, <2>4, ChangeKeeps
<1> QED BY <1>1, <1>2 DEF handleEditPost, AuthError, NotFound, Denied, Refuse

LEMMA HandlerEditPostPerm ==
    ASSUME PostIInv, SessionIInv', NEW t \in Uuids, NEW i \in PostIds, NEW mask \in Masks,
           NEW list \in Seq(Users), handleEditPostPerm(t, i, mask, list)
    PROVE  PostIInv'
<1> DEFINE g == GrantedAfter(Posts[i].granted, list)
<1>1. CASE UNCHANGED postVars
  BY <1>1, NothingChangedKeeps
<1>2. CASE PostExists(i) /\ Posts' = [Posts EXCEPT ![i].mask = mask, ![i].granted = g]
           /\ named' = [named EXCEPT ![i] = @ \cup Members(list)]
           /\ UNCHANGED <<lastPostId, postFile>>
  <2> DEFINE p == [Posts[i] EXCEPT !.mask = mask, !.granted = g]
  <2>1. Posts[i] \in PostTree /\ named \in [PostIds -> SUBSET Users]
    BY <1>2 DEF PostIInv, PostTypes, Tree, PostExists
  <2>2. Posts[i].granted \in Seq(Users)
    BY <2>1 DEF PostTree
  <2>3. g \in Seq(Users) /\ Members(g) \subseteq Members(Posts[i].granted) \cup Members(list)
    BY <2>2, GrantedAfterMembers
  <2>4. Members(list) \subseteq Users
    BY DEF Members
  <2>5. Posts' = [Posts EXCEPT ![i] = p]
    BY <1>2
  <2> HIDE DEF g
  <2>6. p \in PostTree /\ p.poster = Posts[i].poster /\ p.granted = g
        /\ p.comments = Posts[i].comments /\ p.lastCommentId = Posts[i].lastCommentId
    BY <2>1, <2>3 DEF PostTree
  <2>7. /\ named' \in [PostIds -> SUBSET Users]
        /\ \A j \in PostIds : named[j] \subseteq named'[j]
        /\ named'[i] = named[i] \cup Members(list)
    BY <1>2, <2>1, <2>4
  <2>8. IsDense(p)
    BY <1>2, <2>6 DEF IsDense, PostIInv, CommentsAreDense
  <2>9. Members(p.granted) \subseteq named'[i]
    BY <1>2, <2>3, <2>6, <2>7 DEF PostIInv, GrantedWereNamed
  <2> HIDE DEF p
  <2> QED BY <1>2, <2>5, <2>6, <2>7, <2>8, <2>9, ChangeKeeps
<1> QED BY <1>1, <1>2 DEF handleEditPostPerm, AuthError, NotFound, Refuse

LEMMA HandlerRemovePost ==
    ASSUME PostIInv, SessionIInv', NEW t \in Uuids, NEW i \in PostIds, handleRemovePost(t, i)
    PROVE  PostIInv'
<1>1. CASE UNCHANGED postVars
  BY <1>1, NothingChangedKeeps
<1>2. CASE Posts' = [Posts EXCEPT ![i] = NoPost] /\ UNCHANGED <<lastPostId, postFile, named>>
  BY <1>2, RemoveKeeps
<1> QED BY <1>1, <1>2 DEF handleRemovePost, AuthError, NotFound, Denied, Refuse

LEMMA HandlerAddComment ==
    ASSUME PostIInv, SessionIInv', NEW t \in Uuids, NEW i \in PostIds, NEW c \in Contents,
           handleAddComment(t, i, c)
    PROVE  PostIInv'
<1> DEFINE k == NextCommentId(i)
           r == [user |-> SessionUser(t), content |-> c]
<1>1. CASE UNCHANGED postVars
  BY <1>1, NothingChangedKeeps
<1>2. CASE /\ IsSessionExist(t) /\ PostExists(i) /\ k <= MaxComments
           /\ Posts' = [Posts EXCEPT ![i].lastCommentId = k, ![i].comments[k] = r]
           /\ UNCHANGED <<lastPostId, postFile, named>>
  <2> DEFINE p == [Posts[i] EXCEPT !.lastCommentId = k, !.comments[k] = r]
  <2>1. Posts[i] \in PostTree /\ named \in [PostIds -> SUBSET Users]
    BY <1>2 DEF PostIInv, PostTypes, Tree, PostExists
  <2>2. Posts[i].lastCommentId \in 0 .. MaxComments /\ k = Posts[i].lastCommentId + 1
        /\ Posts[i].comments \in [CommentIds -> Comment \cup {NoComment}]
    BY <2>1 DEF PostTree, NextCommentId
  <2>3. r \in Comment /\ r # NoComment
    BY <1>2, UserOfSession, PostAssumption DEF PostIInv, Comment
  <2> HIDE DEF r, k
  <2>4. k \in CommentIds /\ k \in 0 .. MaxComments
    BY <1>2, <2>2, PostAssumption DEF CommentIds
  <2>5. p.comments = [Posts[i].comments EXCEPT ![k] = r] /\ p.lastCommentId = k
        /\ p.poster = Posts[i].poster /\ p.granted = Posts[i].granted
    BY <2>1 DEF PostTree
  <2>6. p \in PostTree
    BY <2>1, <2>2, <2>3, <2>4 DEF PostTree
  <2>7. IsDense(p)
    <3> SUFFICES ASSUME NEW m \in CommentIds
                 PROVE  (p.comments[m] # NoComment) <=> (m <= p.lastCommentId)
      BY DEF IsDense
    <3>1. (Posts[i].comments[m] # NoComment) <=> (m <= Posts[i].lastCommentId)
      BY <1>2 DEF PostIInv, CommentsAreDense
    <3>2. CASE m = k
      BY <2>2, <2>3, <2>4, <2>5, <3>2
    <3>3. CASE m # k
      <4>1. p.comments[m] = Posts[i].comments[m]
        BY <2>2, <2>5, <3>3
      <4>2. (m <= k) <=> (m <= Posts[i].lastCommentId)
        BY <2>2, <3>3 DEF CommentIds
      <4> QED BY <2>5, <3>1, <4>1, <4>2
    <3> QED BY <3>2, <3>3
  <2>8. Members(p.granted) \subseteq named[i]
    BY <1>2, <2>5 DEF PostIInv, GrantedWereNamed
  <2>9. Posts' = [Posts EXCEPT ![i] = p]
    BY <1>2
  <2> HIDE DEF p
  <2> QED BY <1>2, <2>1, <2>5, <2>6, <2>7, <2>8, <2>9, ChangeKeeps
<1> QED BY <1>1, <1>2 DEF handleAddComment, AuthError, NotFound, Denied, Refuse

LEMMA PostStepIInv == PostIInv /\ [PostNext]_vars => PostIInv'
<1> SUFFICES ASSUME PostIInv, [PostNext]_vars PROVE PostIInv'
  OBVIOUS
<1>0. SessionIInv'
  BY SessionStep, PostStepIsSessionStep DEF PostIInv
<1>1. CASE UNCHANGED postVars
  BY <1>0, <1>1, NothingChangedKeeps
<1>2. ASSUME NEW t \in Uuids, Request(t) PROVE PostIInv'
  <2>1. ASSUME NEW mask \in Masks, NEW list \in Inputs(t, UserLists), NEW c \in Contents,
               handleNewPost(t, c, mask, list)
        PROVE  PostIInv'
    BY <1>0, <2>1, HandlerNewPost, InputsAmong, UserListsAreSeqs
  <2>2. ASSUME NEW mask \in Masks, NEW list \in Inputs(t, UserLists),
               NEW i \in Inputs(t, PostIds), handleEditPostPerm(t, i, mask, list)
        PROVE  PostIInv'
    BY <1>0, <2>2, HandlerEditPostPerm, InputsAmong, UserListsAreSeqs
  <2>3. CASE handleGetMaxPid(t)
    BY <1>1, <2>3 DEF handleGetMaxPid, AuthError, Refuse, Answer
  <2>4. ASSUME NEW i \in Inputs(t, PostIds), NEW n \in {-1, 1}, handleLike(t, i, n)
        PROVE  PostIInv'
    BY <1>0, <2>4, HandlerLike, InputsAmong
  <2>5. ASSUME NEW i \in Inputs(t, PostIds), NEW c \in Contents,
               handleEditPost(t, i, c) \/ handleAddComment(t, i, c)
        PROVE  PostIInv'
    BY <1>0, <2>5, HandlerEditPost, HandlerAddComment, InputsAmong
  <2>6. ASSUME NEW i \in Inputs(t, PostIds), handleRemovePost(t, i) PROVE PostIInv'
    BY <1>0, <2>6, HandlerRemovePost, InputsAmong
  <2>7. ASSUME NEW i, NEW k, handleViewPost(t, i) \/ handleViewComment(t, i, k)
        PROVE  PostIInv'
    BY <1>1, <2>7 DEF handleViewPost, handleViewComment, AuthError, NotFound, Denied,
       Refuse, Answer
  <2> QED BY <1>2, <2>1, <2>2, <2>3, <2>4, <2>5, <2>6, <2>7 DEF Request
<1>3. CASE PayloadInvalid \/ UNCHANGED vars
  BY <1>1, <1>3 DEF PayloadInvalid, Refuse, vars
<1>4. ASSUME (\E u \in Users, a \in Addrs : LoginOrRegister(u, a)) \/ \E t \in Uuids : Logout(t)
      PROVE  PostIInv'
  BY <1>1, <1>4 DEF LoginOrRegister, Logout
<1>5. CASE StopAndRestart \/ CrashAndRestart \/ CrashInWriteAndRestart
  BY <1>0, <1>5, RestartKeeps
<1> QED BY <1>2, <1>3, <1>4, <1>5, TokensAmong DEF PostNext

LEMMA PostIInvAlways == PostSpec => []PostIInv
BY PostInitIInv, PostStepIInv, PTL DEF PostSpec

-----------------------------------------------------------------------------
(* What follows.                                                           *)

\* Posts, file and counters keep their types (Post.cpp:17-42).
THEOREM PostTypesAlways == PostSpec => []PostTypeOK
<1>1. PostIInv => PostTypeOK
  BY DEF PostIInv, PostTypes, Tree, PostTypeOK, SessionIInv, PostExists
<1> QED BY <1>1, PostIInvAlways, PTL

\* An id names one post, in memory and in the file, through removals, graceful
\* stops and crashes (Post.cpp:44-52, 107-109, 413, 554-562).
THEOREM IdNamesOnePostAlways == PostSpec => []IdNamesOnePost
<1>1. PostIInv => IdNamesOnePost
  BY DEF PostIInv
<1> QED BY <1>1, PostIInvAlways, PTL

\* Comments are numbered from 1 on without a gap (Post.cpp:454-455).
THEOREM CommentsAreDenseAlways == PostSpec => []CommentsAreDense
<1>1. PostIInv => CommentsAreDense
  BY DEF PostIInv
<1> QED BY <1>1, PostIInvAlways, PTL

-----------------------------------------------------------------------------
(* What a step of a running process does to the posts that are there.      *)

StaysHis(i) ==
    \/ /\ PostExists(i)'
       /\ Posts'[i].poster = Posts[i].poster
       /\ Posts'[i].content = Posts[i].content
    \/ /\ SessionUser(response'.session) = Posts[i].poster
       /\ PostExists(i)' => Posts'[i].poster = Posts[i].poster

KeepsComments(i) ==
    PostExists(i)' =>
        \A k \in CommentIds : Posts[i].comments[k] # NoComment =>
            Posts'[i].comments[k] = Posts[i].comments[k]

PostedBySession(i) ==
    /\ response'.session \in Uuids /\ IsSessionExist(response'.session)
    /\ Posts'[i].poster = SessionUser(response'.session)

Orderly ==
    \A i \in PostIds :
        /\ PostExists(i)' /\ ~PostExists(i) => i > lastPostId /\ PostedBySession(i)
        /\ PostExists(i) => StaysHis(i) /\ KeepsComments(i)

LEMMA UnchangedIsOrderly == ASSUME UNCHANGED Posts PROVE Orderly
BY DEF Orderly, StaysHis, KeepsComments, PostExists

LEMMA ChangeIsOrderly ==
    ASSUME PostTypes, NEW i \in PostIds, PostExists(i), NEW p \in PostTree \cup {NoPost},
           Posts' = [Posts EXCEPT ![i] = p],
           p # NoPost => /\ p.poster = Posts[i].poster
                         /\ \A k \in CommentIds : Posts[i].comments[k] # NoComment =>
                               p.comments[k] = Posts[i].comments[k],
           \/ p # NoPost /\ p.content = Posts[i].content
           \/ SessionUser(response'.session) = Posts[i].poster
    PROVE  Orderly
<1>1. /\ Posts'[i] = p
      /\ \A j \in PostIds \ {i} : Posts'[j] = Posts[j]
  BY DEF PostTypes, Tree
<1> QED BY <1>1 DEF Orderly, StaysHis, KeepsComments, PostExists

\* The request of a living session, which is the one the response names.
LEMMA RequestIsOrderly ==
    ASSUME PostIInv, NEW t \in Uuids, Request(t) PROVE Orderly
<1>0. PostTypes /\ IdNamesOnePost /\ CommentsAreDense
  BY DEF PostIInv
<1>1. CASE UNCHANGED Posts
  BY <1>1, UnchangedIsOrderly
<1>2. ASSUME NEW c \in Contents, NEW mask \in Masks, NEW list, handleNewPost(t, c, mask, list)
      PROVE  Orderly
  <2>1. CASE UNCHANGED postVars
    BY <1>1, <2>1 DEF postVars
  <2>2. ASSUME lastPostId < MaxPosts, IsSessionExist(t), response'.session = t,
               Posts' = [Posts EXCEPT ![NextPostId] = NewPost(SessionUser(t), c, mask, list)]
        PROVE  Orderly
    <3>1. \A j \in PostIds : j # lastPostId + 1 => Posts'[j] = Posts[j]
      BY <1>0, <2>2 DEF NextPostId, PostTypes, Tree
    <3>2. \A j \in PostIds : PostExists(j) => j # lastPostId + 1
      BY <1>0, PostAssumption DEF IdNamesOnePost, PostTypes
    <3>3. lastPostId + 1 > lastPostId
      BY <1>0, PostAssumption DEF PostTypes
    <3>4. \A j \in PostIds : j = lastPostId + 1 => PostedBySession(j)
      BY <1>0, <2>2 DEF NextPostId, NewPost, PostedBySession, PostTypes, Tree
    <3> QED BY <3>1, <3>2, <3>3, <3>4 DEF Orderly, StaysHis, KeepsComments, PostExists
  <2> QED BY <1>2, <2>1, <2>2 DEF handleNewPost, AuthError, Refuse, Respond
<1>3. ASSUME NEW i \in PostIds, PostExists(i), NEW n \in {-1, 1},
             Posts' = [Posts EXCEPT ![i].likes = @ + n]
      PROVE  Orderly
  <2> DEFINE p == [Posts[i] EXCEPT !.likes = @ + n]
  <2>1. Posts[i] \in PostTree
    BY <1>0, <1>3 DEF PostTypes, Tree, PostExists
  <2>2. p \in PostTree /\ p.poster = Posts[i].poster /\ p.comments = Posts[i].comments
        /\ p.content = Posts[i].content
    BY <2>1 DEF PostTree
  <2>3. Posts' = [Posts EXCEPT ![i] = p] /\ p # NoPost
    BY <1>3, <2>2, PostAssumption
  <2> HIDE DEF p
  <2> QED BY <1>0, <1>3, <2>2, <2>3, ChangeIsOrderly
<1>4. ASSUME NEW i \in PostIds, PostExists(i), NEW c \in Contents, IsPoster(i, SessionUser(t)),
             response'.session = t, Posts' = [Posts EXCEPT ![i].content = c]
      PROVE  Orderly
  <2> DEFINE p == [Posts[i] EXCEPT !.content = c]
  <2>1. Posts[i] \in PostTree
    BY <1>0, <1>4 DEF PostTypes, Tree, PostExists
  <2>2. p \in PostTree /\ p.poster = Posts[i].poster /\ p.comments = Posts[i].comments
    BY <2>1 DEF PostTree
  <2>3. Posts' = [Posts EXCEPT ![i] = p] /\ SessionUser(response'.session) = Posts[i].poster
    BY <1>4 DEF IsPoster
  <2> HIDE DEF p
  <2> QED BY <1>0, <1>4, <2>2, <2>3, ChangeIsOrderly
<1>5. ASSUME NEW i \in PostIds, PostExists(i), NEW mask \in Masks, NEW list \in Seq(Users),
             Posts' = [Posts EXCEPT ![i].mask = mask,
                                    ![i].granted = GrantedAfter(Posts[i].granted, list)]
      PROVE  Orderly
  <2> DEFINE g == GrantedAfter(Posts[i].granted, list)
             p == [Posts[i] EXCEPT !.mask = mask, !.granted = g]
  <2>1. Posts[i] \in PostTree
    BY <1>0, <1>5 DEF PostTypes, Tree, PostExists
  <2>2. g \in Seq(Users)
    BY <2>1, GrantedAfterMembers DEF PostTree
  <2>3. Posts' = [Posts EXCEPT ![i] = p]
    BY <1>5
  <2> HIDE DEF g
  <2>4. p \in PostTree /\ p.poster = Posts[i].poster /\ p.comments = Posts[i].comments
        /\ p.content = Posts[i].content
    BY <2>1, <2>2 DEF PostTree
  <2>5. p # NoPost
    BY <2>4, PostAssumption
  <2> HIDE DEF p
  <2> QED BY <1>0, <1>5, <2>3, <2>4, <2>5, ChangeIsOrderly
<1>6. ASSUME NEW i \in PostIds, PostExists(i), IsPoster(i, SessionUser(t)),
             response'.session = t, Posts' = [Posts EXCEPT ![i] = NoPost]
      PROVE  Orderly
  BY <1>0, <1>6, ChangeIsOrderly DEF IsPoster
<1>7. ASSUME NEW i \in PostIds, PostExists(i), NEW r, NextCommentId(i) <= MaxComments,
             r \in Comment,
             Posts' = [Posts EXCEPT ![i].lastCommentId = NextCommentId(i),
                                    ![i].comments[NextCommentId(i)] = r]
      PROVE  Orderly
  <2> DEFINE k == NextCommentId(i)
             p == [Posts[i] EXCEPT !.lastCommentId = k, !.comments[k] = r]
  <2>1. Posts[i] \in PostTree
    BY <1>0, <1>7 DEF PostTypes, Tree, PostExists
  <2>2. Posts[i].lastCommentId \in Nat /\ k = Posts[i].lastCommentId + 1 /\ k \in 1 .. MaxComments
        /\ Posts[i].comments \in [CommentIds -> Comment \cup {NoComment}]
    BY <1>7, <2>1, PostAssumption DEF PostTree, NextCommentId
  <2>3. Posts' = [Posts EXCEPT ![i] = p]
    BY <1>7
  <2> HIDE DEF k
  <2>4. /\ p.poster = Posts[i].poster /\ p.content = Posts[i].content
        /\ p.comments = [Posts[i].comments EXCEPT ![k] = r]
    BY <2>1 DEF PostTree
  <2>5. p \in PostTree
    <3>1. k \in CommentIds /\ k \in 0 .. MaxComments
      BY <2>2, PostAssumption DEF CommentIds
    <3> QED BY <1>7, <2>1, <2>2, <3>1 DEF PostTree
  <2>6. Posts[i].comments[k] = NoComment
    BY <1>0, <1>7, <2>2 DEF CommentsAreDense, CommentIds
  <2>7. \A m \in CommentIds : Posts[i].comments[m] # NoComment => p.comments[m] = Posts[i].comments[m]
    BY <2>2, <2>4, <2>6
  <2>8. p # NoPost
    BY <2>5, PostAssumption
  <2> HIDE DEF p
  <2> QED BY <1>0, <1>7, <2>3, <2>4, <2>7, <2>8, <2>5, ChangeIsOrderly
<1>8. CASE \E mask \in Masks, list \in Inputs(t, UserLists), c \in Contents :
              handleNewPost(t, c, mask, list)
  BY <1>8, <1>2
<1>9. CASE \E mask \in Masks, list \in Inputs(t, UserLists), i \in Inputs(t, PostIds) :
              handleEditPostPerm(t, i, mask, list)
  BY <1>1, <1>5, <1>9, InputsAmong, UserListsAreSeqs
     DEF handleEditPostPerm, AuthError, NotFound, Refuse, postVars
<1>10. CASE \E i \in Inputs(t, PostIds), n \in {-1, 1} : handleLike(t, i, n)
  BY <1>1, <1>3, <1>10, InputsAmong DEF handleLike, AuthError, NotFound, Refuse, postVars
<1>11. CASE \E i \in Inputs(t, PostIds), c \in Contents : handleEditPost(t, i, c)
  BY <1>1, <1>4, <1>11, InputsAmong
     DEF handleEditPost, AuthError, NotFound, Denied, Refuse, Respond, postVars
<1>12. CASE \E i \in Inputs(t, PostIds), c \in Contents : handleAddComment(t, i, c)
  <2>1. PICK i \in PostIds, c \in Contents : handleAddComment(t, i, c)
    BY <1>12, InputsAmong
  <2>2. IsSessionExist(t) => [user |-> SessionUser(t), content |-> c] \in Comment
    BY UserOfSession DEF PostIInv, Comment
  <2> QED BY <1>1, <1>7, <2>1, <2>2
          DEF handleAddComment, AuthError, NotFound, Denied, Refuse, postVars
<1>13. CASE \E i \in Inputs(t, PostIds) : handleRemovePost(t, i)
  BY <1>1, <1>6, <1>13, InputsAmong
     DEF handleRemovePost, AuthError, NotFound, Denied, Refuse, Respond, postVars
<1>14. ASSUME handleGetMaxPid(t) \/ \E i, k : handleViewPost(t, i) \/ handleViewComment(t, i, k)
       PROVE  Orderly
  BY <1>1, <1>14 DEF handleGetMaxPid, handleViewPost, handleViewComment, AuthError, NotFound,
     Denied, Refuse, Answer, postVars
<1> QED BY <1>8, <1>9, <1>10, <1>11, <1>12, <1>13, <1>14 DEF Request

LEMMA StepIsOrderly == PostIInv /\ [PostNext]_vars /\ response'.op # "restart" => Orderly
<1> SUFFICES ASSUME PostIInv, [PostNext]_vars, response'.op # "restart" PROVE Orderly
  OBVIOUS
<1>1. CASE \E t \in Uuids : Request(t)
  BY <1>1, RequestIsOrderly
<1>2. CASE StopAndRestart \/ CrashAndRestart \/ CrashInWriteAndRestart
  BY <1>2 DEF StopAndRestart, CrashAndRestart, CrashInWriteAndRestart, StartFrom, Respond
<1>3. CASE UNCHANGED Posts
  BY <1>3, UnchangedIsOrderly
<1> QED BY <1>1, <1>2, <1>3, TokensAmong DEF PostNext, LoginOrRegister, Logout, PayloadInvalid, Refuse,
        postVars, vars

\* While a process runs it gives no id out twice (Post.cpp:107-109, 413).
THEOREM IdsAreNeverReused == PostSpec => IdsAreNotReused
<1>1. PostIInv /\ [PostNext]_vars =>
        [response'.op # "restart" =>
           \A i \in PostIds : PostExists(i)' /\ ~PostExists(i) => i > lastPostId]_vars
  BY StepIsOrderly DEF Orderly
<1> QED BY PostIInvAlways, <1>1, PTL DEF PostSpec, IdsAreNotReused

\* Only its poster removes a post or changes its text (Post.cpp:316-321, 405-413).
THEOREM OnlyPosterChangesPosts == PostSpec => OnlyPosterChanges
<1>1. PostIInv /\ [PostNext]_vars =>
        [response'.op # "restart" =>
           \A i \in PostIds : PostExists(i) =>
              \/ /\ PostExists(i)'
                 /\ Posts'[i].poster = Posts[i].poster
                 /\ Posts'[i].content = Posts[i].content
              \/ /\ SessionUser(response'.session) = Posts[i].poster
                 /\ PostExists(i)' => Posts'[i].poster = Posts[i].poster]_vars
  BY StepIsOrderly DEF Orderly, StaysHis
<1> QED BY PostIInvAlways, <1>1, PTL DEF PostSpec, OnlyPosterChanges

\* A comment keeps its number and its text (Post.cpp:431-481).
THEOREM CommentsAlwaysStay == PostSpec => CommentsStay
<1>1. PostIInv /\ [PostNext]_vars =>
        [response'.op # "restart" =>
           \A i \in PostIds, k \in CommentIds :
              (PostExists(i) /\ PostExists(i)' /\ Posts[i].comments[k] # NoComment) =>
                 Posts'[i].comments[k] = Posts[i].comments[k]]_vars
  BY StepIsOrderly DEF Orderly, KeepsComments
<1> QED BY PostIInvAlways, <1>1, PTL DEF PostSpec, CommentsStay

-----------------------------------------------------------------------------
(* Who reads.                                                              *)

\* Which handler gives which answer.
LEMMA Answers ==
    ASSUME NEW t
    PROVE  /\ \A c, mask, list : handleNewPost(t, c, mask, list) => response'.op \in {"refused", "new"}
           /\ \A i, mask, list : handleEditPostPerm(t, i, mask, list) =>
                                   response'.op \in {"refused", "edit/perm"}
           /\ handleGetMaxPid(t) => response'.op \in {"refused", "view/maxPid"}
           /\ \A i : handleViewPost(t, i) => response'.op \in {"refused", "view"}
           /\ \A i, n : handleLike(t, i, n) => response'.op \in {"refused", "like"}
           /\ \A i, c : handleEditPost(t, i, c) => response'.op \in {"refused", "edit"}
           /\ \A i, c : handleAddComment(t, i, c) => response'.op \in {"refused", "comment/add"}
           /\ \A i : handleRemovePost(t, i) => response'.op \in {"refused", "remove"}
           /\ \A i, k : handleViewComment(t, i, k) => response'.op \in {"refused", "comment/view"}
BY DEF handleNewPost, handleEditPostPerm, handleGetMaxPid, handleViewPost, handleLike,
   handleEditPost, handleAddComment, handleRemovePost, handleViewComment,
   Respond, AuthError, NotFound, Denied, Refuse, Answer

\* Only a request that passed canViewPost answers as one that shows the post.
LEMMA ReadPassedCheck ==
    ASSUME PostNext, response'.op \in {"view", "comment/view", "comment/add"}
    PROVE  /\ response'.post \in PostIds /\ PostExists(response'.post)
           /\ canViewPost(response'.post, SessionUser(response'.session))
<1> USE DEF Respond, AuthError, NotFound, Denied, Refuse, Answer
<1>1. ASSUME NEW t \in Uuids, Request(t)
      PROVE  \E i \in PostIds : \/ handleViewPost(t, i)
                                \/ \E c \in Contents : handleAddComment(t, i, c)
                                \/ \E k \in CommentIds : handleViewComment(t, i, k)
  <2> USE Answers, InputsAmong
  <2>1. CASE \E mask, list : \/ \E c : handleNewPost(t, c, mask, list)
                             \/ \E i : handleEditPostPerm(t, i, mask, list)
    BY <2>1
  <2>2. CASE handleGetMaxPid(t) \/ \E i : \/ \E n : handleLike(t, i, n)
                                        \/ \E c : handleEditPost(t, i, c)
                                        \/ handleRemovePost(t, i)
    BY <2>2
  <2> QED BY <1>1, <2>1, <2>2 DEF Request
<1>2. ASSUME NEW t \in Uuids, NEW i \in PostIds, handleViewPost(t, i)
      PROVE  response'.post = i /\ response'.session = t /\ PostExists(i)
             /\ canViewPost(i, SessionUser(t))
  BY <1>2 DEF handleViewPost
<1>3. ASSUME NEW t \in Uuids, NEW i \in PostIds, NEW c \in Contents, handleAddComment(t, i, c)
      PROVE  response'.post = i /\ response'.session = t /\ PostExists(i)
             /\ canViewPost(i, SessionUser(t))
  BY <1>3 DEF handleAddComment
<1>4. ASSUME NEW t \in Uuids, NEW i \in PostIds, NEW k \in CommentIds, handleViewComment(t, i, k)
      PROVE  response'.post = i /\ response'.session = t /\ PostExists(i)
             /\ canViewPost(i, SessionUser(t))
  BY <1>4 DEF handleViewComment
<1>5. \E t \in Uuids : Request(t)
  BY TokensAmong DEF PostNext, LoginOrRegister, Logout, PayloadInvalid, StopAndRestart, CrashAndRestart,
     CrashInWriteAndRestart, StartFrom
<1> QED BY <1>1, <1>2, <1>3, <1>4, <1>5

\* Who reads a post that is not open to all is its poster or was named for it
\* (Post.cpp:54-84).
THEOREM ReadersWereAlwaysNamed == PostSpec => ReadersWereNamed
<1>1. PostIInv /\ [PostNext]_vars =>
        [response'.op \in {"view", "comment/view", "comment/add"} =>
           LET i == response'.post
               u == SessionUser(response'.session)
           IN \/ u = Posts[i].poster
              \/ "ANY" \in Posts[i].mask
              \/ "POSTER_DEFINED" \in Posts[i].mask /\ u \in named[i]]_vars
  <2> SUFFICES ASSUME PostIInv, PostNext,
                      response'.op \in {"view", "comment/view", "comment/add"}
               PROVE  LET i == response'.post
                          u == SessionUser(response'.session)
                      IN \/ u = Posts[i].poster
                         \/ "ANY" \in Posts[i].mask
                         \/ "POSTER_DEFINED" \in Posts[i].mask /\ u \in named[i]
    OBVIOUS
  <2> QED BY ReadPassedCheck DEF canViewPost, PostIInv, GrantedWereNamed
<1> QED BY PostIInvAlways, <1>1, PTL DEF PostSpec, ReadersWereNamed

\* After an accepted list those on it are granted, and nobody who was never named
\* (Post.cpp:116-128, 362-371).
THEOREM ListIsAlwaysGranted == PostSpec => ListIsGranted
<1>1. PostIInv /\ PostIInv' /\ [PostNext]_vars =>
        [response'.op \in {"new", "edit/perm"} =>
           LET i == response'.post IN
           /\ Members(response'.list) \subseteq Members(Posts'[i].granted)
           /\ Members(Posts'[i].granted) \subseteq named'[i]]_vars
  <2> SUFFICES ASSUME PostIInv, PostIInv', PostNext, response'.op \in {"new", "edit/perm"}
               PROVE  /\ Members(response'.list) \subseteq Members(Posts'[response'.post].granted)
                      /\ Members(Posts'[response'.post].granted) \subseteq named'[response'.post]
    OBVIOUS
  <2> USE DEF Respond, AuthError, NotFound, Denied, Refuse, Answer
  <2>1. ASSUME NEW t \in Uuids, NEW c \in Contents, NEW mask \in Masks, NEW list \in Seq(Users),
               handleNewPost(t, c, mask, list)
        PROVE  /\ response'.list = list /\ response'.post \in PostIds
               /\ Posts'[response'.post] # NoPost
               /\ Posts'[response'.post].granted = list
    <3>1. /\ IsSessionExist(t) /\ lastPostId < MaxPosts
          /\ Posts' = [Posts EXCEPT ![lastPostId + 1] = NewPost(SessionUser(t), c, mask, list)]
          /\ response'.list = list /\ response'.post = lastPostId + 1
      BY <2>1 DEF handleNewPost, NextPostId
    <3>2. lastPostId + 1 \in PostIds
      BY <3>1, PostAssumption DEF PostIInv, PostTypes, PostIds
    <3>3. SessionUser(t) \in Users
      BY <3>1, UserOfSession DEF PostIInv
    <3>4. NewPost(SessionUser(t), c, mask, list) \in PostTree
      BY <3>3, PostAssumption DEF NewPost, PostTree, CommentIds
    <3>5. NewPost(SessionUser(t), c, mask, list).granted = list
      BY DEF NewPost
    <3>6. Posts'[lastPostId + 1] = NewPost(SessionUser(t), c, mask, list)
      BY <3>1, <3>2 DEF PostIInv, PostTypes, Tree
    <3> QED BY <3>1, <3>2, <3>4, <3>5, <3>6, PostAssumption
  <2>2. ASSUME NEW t \in Uuids, NEW i \in PostIds, NEW mask \in Masks, NEW list \in Seq(Users),
               handleEditPostPerm(t, i, mask, list)
        PROVE  /\ response'.list = list /\ response'.post \in PostIds
               /\ Posts'[response'.post] # NoPost
               /\ Members(list) \subseteq Members(Posts'[response'.post].granted)
    <3> DEFINE g == GrantedAfter(Posts[i].granted, list)
    <3>1. /\ PostExists(i) /\ response'.list = list /\ response'.post = i
          /\ Posts' = [Posts EXCEPT ![i].mask = mask, ![i].granted = g]
      BY <2>2 DEF handleEditPostPerm
    <3>2. Posts \in Tree /\ Posts[i] \in PostTree
      BY <3>1 DEF PostIInv, PostTypes, Tree, PostExists
    <3>3. g \in Seq(Users) /\ Members(list) \subseteq Members(g)
      BY <3>2, GrantedAfterMembers DEF PostTree
    <3> HIDE DEF g
    <3>4. Posts'[i].granted = g /\ Posts'[i] \in PostTree
      BY <3>1, <3>2, <3>3 DEF PostTree, Tree
    <3> QED BY <3>1, <3>3, <3>4, PostAssumption
  <2>3. ASSUME NEW t \in Uuids, Request(t)
        PROVE  \E mask \in Masks, list \in Seq(Users) :
                  \/ \E c \in Contents : handleNewPost(t, c, mask, list)
                  \/ \E i \in PostIds : handleEditPostPerm(t, i, mask, list)
    <3>1. CASE handleGetMaxPid(t) \/ \E i : \/ \E n : handleLike(t, i, n)
                                          \/ \E c : handleEditPost(t, i, c) \/ handleAddComment(t, i, c)
                                          \/ handleViewPost(t, i) \/ handleRemovePost(t, i)
                                          \/ \E k : handleViewComment(t, i, k)
      BY <3>1, Answers
    <3> QED BY <2>3, <3>1, InputsAmong, UserListsAreSeqs DEF Request
  <2>4. \E t \in Uuids : Request(t)
    BY TokensAmong DEF PostNext, LoginOrRegister, Logout, PayloadInvalid, StopAndRestart, CrashAndRestart,
       CrashInWriteAndRestart, StartFrom
  <2> QED BY <2>1, <2>2, <2>3, <2>4 DEF PostIInv, GrantedWereNamed, PostExists
<1> QED BY PostIInvAlways, <1>1, PTL DEF PostSpec, ListIsGranted
=============================================================================
