---------------------------- MODULE AccountProofs ----------------------------
(***************************************************************************)
(* Proofs about Account, for any users, passwords, number of sessions and  *)
(* number of requests.  The inductive invariant is the conjunction of the  *)
(* invariants themselves with the one of the sessions: none of them is     *)
(* inductive alone.                                                        *)
(***************************************************************************)
EXTENDS Account, SessionProofs

AccountIInv ==
    /\ SessionIInv
    /\ AccountTypeOK
    /\ FriendshipSymmetric
    /\ NoCrossedRequests
    /\ FriendshipNeedsBothSides
    /\ NoDanglingUsers
    /\ FileIsPast

\* The server that finds no account file starts in the invariant.
LEMMA AccountInitIInv == InitAccount => AccountIInv
<1> SUFFICES ASSUME InitAccount PROVE AccountIInv
  OBVIOUS
<1>1. SessionIInv /\ SessionTypeOK
  BY SessionInit DEF InitAccount, SessionIInv
<1>2. \A t \in Uuids : ~IsSessionExist(t)
  BY DEF InitAccount, InitSession, IsSessionExist
<1>3. AccountTypeOK
  BY <1>1 DEF InitAccount, AccountTypeOK, NoProfiles, NobodysFriends, EmptyFile
<1> QED
  BY <1>1, <1>2, <1>3, AccountAssumption
     DEF InitAccount, AccountIInv, FriendshipSymmetric, NoCrossedRequests,
         FriendshipNeedsBothSides, NoDanglingUsers, FileIsPast, HasAccount, Addressees,
         NoProfiles, NobodysFriends, EmptyFile

\* Every step of Account is a step of Session, or leaves the sessions alone:
\* the handlers touch the three maps only through NewSession and RemoveSession.
LEMMA AccountStepIsSessionStep == [AccountNext]_vars => [SessionNext]_sessionVars
<1> SUFFICES ASSUME [AccountNext]_vars PROVE [SessionNext]_sessionVars
  OBVIOUS
<1> USE DEF AnswerOnly, AuthError
<1>1. ASSUME NEW u \in Users \cup {EmptyString}, NEW p \in Passwords, NEW a \in Addrs,
             handleRegister(u, p, a) \/ handleLogin(u, p, a)
      PROVE  [SessionNext]_sessionVars
  <2>1. CASE UNCHANGED sessionVars
    BY <2>1
  <2>2. CASE u \in Users /\ NewSession(u, a)
    BY <2>2 DEF SessionNext
  <2>3. UNCHANGED sessionVars \/ (u \in Users /\ NewSession(u, a))
    BY <1>1 DEF handleRegister, handleLogin, PasswordCorrect
  <2> QED BY <2>1, <2>2, <2>3
<1>2. ASSUME NEW t \in Uuids, Request(t) PROVE [SessionNext]_sessionVars
  <2>1. CASE handleLogout(t)
    BY <2>1 DEF handleLogout, SessionNext
  <2>2. CASE ~handleLogout(t)
    BY <1>2, <2>2 DEF Request, handleGetProfile, handleEditProfile, handleSearchAccount,
       handleAddFriends, handleShowFriends, handleShowFriendRequests
  <2> QED BY <2>1, <2>2
<1>3. CASE \E op \in Ops : PayloadInvalid(op)
  BY <1>3 DEF PayloadInvalid
<1>4. CASE StopAndRestart \/ CrashAndRestart \/ CrashInWriteAndRestart
  BY <1>4 DEF StopAndRestart, CrashAndRestart, CrashInWriteAndRestart, StartFrom, SessionNext
<1>5. CASE UNCHANGED vars
  BY <1>5 DEF vars
<1> QED BY <1>1, <1>2, <1>3, <1>4, <1>5 DEF AccountNext, Credential

-----------------------------------------------------------------------------
(* One lemma per kind of change.                                           *)

\* A handler that only answers keeps the invariant.
LEMMA AnswerKeeps ==
    ASSUME AccountIInv, UNCHANGED <<sessionVars, accountVars>>
    PROVE  AccountIInv'
BY DEF AccountIInv, sessionVars, accountVars, SessionIInv, SessionTypeOK, DrawnOnly,
   LiveSessionsHaveAddress, IndexIsNewest, IsSessionExist, GetClientAddr, GetHashByUsername,
   SessionUser, AccountTypeOK, FriendshipSymmetric, NoCrossedRequests,
   FriendshipNeedsBothSides, NoDanglingUsers, FileIsPast, HasAccount

\* After NewSession a live session is the new one, or lived before for the same user.
LEMMA NewSessionUsers ==
    ASSUME SessionIInv, NEW u \in Users, NEW a \in Addrs, NewSession(u, a),
           NEW t \in Uuids, IsSessionExist(t)'
    PROVE  SessionUser(t)' = u \/ (IsSessionExist(t) /\ SessionUser(t)' = SessionUser(t))
BY DEF SessionIInv, SessionTypeOK, NewSession, Draw, Uuids, IsSessionExist, SessionUser

\* A session belongs to a name a client can send.
LEMMA SessionUserInUsers ==
    ASSUME SessionTypeOK, NEW t \in Uuids, IsSessionExist(t)
    PROVE  SessionUser(t) \in Users
BY DEF SessionTypeOK, IsSessionExist, SessionUser, SessionValue

\* Registering a name that is free keeps the invariant.
LEMMA RegisterKeeps ==
    ASSUME AccountIInv, SessionIInv', NEW u \in Users, NEW p \in Passwords, NEW a \in Addrs,
           ~HasAccount(u), NewSession(u, a),
           AccountProfiles' = [AccountProfiles EXCEPT ![u] = NewProfile(u, p)],
           UNCHANGED <<Friends, PendingFriendRequests, accountFile, asks>>
    PROVE  AccountIInv'
<1> USE AccountAssumption DEF AccountIInv
<1>1. NewProfile(u, p) \in Profile
  BY DEF Profile, NewProfile
<1>2. AccountTypeOK'
  BY <1>1 DEF AccountTypeOK, SessionIInv
<1>3. /\ HasAccount(u)'
      /\ \A v \in Users \ {u} : AccountProfiles'[v] = AccountProfiles[v]
  BY <1>1 DEF AccountTypeOK, HasAccount
<1>4. \A v \in Users : HasAccount(v) => HasAccount(v)'
  BY <1>3 DEF HasAccount
<1>5. NoDanglingUsers'
  <2>1. \A t \in Uuids : IsSessionExist(t)' => HasAccount(SessionUser(t))'
    <3> SUFFICES ASSUME NEW t \in Uuids, IsSessionExist(t)' PROVE HasAccount(SessionUser(t))'
      OBVIOUS
    <3>1. CASE SessionUser(t)' = u
      BY <3>1, <1>3 DEF HasAccount
    <3>2. CASE IsSessionExist(t) /\ SessionUser(t)' = SessionUser(t)
      <4>1. HasAccount(SessionUser(t)) /\ SessionUser(t) \in Users
        BY <3>2, SessionUserInUsers DEF NoDanglingUsers, AccountTypeOK
      <4> QED BY <4>1, <3>2, <1>4 DEF HasAccount
    <3> QED BY <3>1, <3>2, NewSessionUsers
  <2> QED BY <2>1, <1>4 DEF NoDanglingUsers
<1>6. FileIsPast'
  <2> SUFFICES ASSUME NEW v \in Users, accountFile.profiles[v] # NoAccount
               PROVE  /\ HasAccount(v)'
                      /\ accountFile.profiles[v].password = AccountProfiles'[v].password
    BY DEF FileIsPast
  <2>1. HasAccount(v) /\ accountFile.profiles[v].password = AccountProfiles[v].password
    BY DEF FileIsPast
  <2>2. v # u
    BY <2>1
  <2> QED BY <2>1, <2>2, <1>3, <1>4
<1>7. FriendshipSymmetric' /\ NoCrossedRequests' /\ FriendshipNeedsBothSides'
  BY DEF FriendshipSymmetric, NoCrossedRequests, FriendshipNeedsBothSides
<1> QED BY <1>2, <1>5, <1>6, <1>7

\* Logging in with the password on file keeps the invariant.
LEMMA LoginKeeps ==
    ASSUME AccountIInv, SessionIInv', NEW u \in Users, NEW a \in Addrs,
           HasAccount(u), NewSession(u, a), UNCHANGED accountVars
    PROVE  AccountIInv'
<1> USE DEF AccountIInv, accountVars
<1>1. AccountTypeOK'
  BY DEF AccountTypeOK, SessionIInv
<1>2. \A v \in Users : HasAccount(v)' = HasAccount(v)
  BY DEF HasAccount
<1>3. \A t \in Uuids : IsSessionExist(t)' => HasAccount(SessionUser(t))'
  <2> SUFFICES ASSUME NEW t \in Uuids, IsSessionExist(t)' PROVE HasAccount(SessionUser(t))'
    OBVIOUS
  <2>1. CASE SessionUser(t)' = u
    BY <2>1, <1>2 DEF HasAccount
  <2>2. CASE IsSessionExist(t) /\ SessionUser(t)' = SessionUser(t)
    BY <2>2, SessionUserInUsers DEF NoDanglingUsers, HasAccount
  <2> QED BY <2>1, <2>2, NewSessionUsers
<1>4. NoDanglingUsers'
  BY <1>2, <1>3 DEF NoDanglingUsers
<1>5. FriendshipSymmetric' /\ NoCrossedRequests' /\ FriendshipNeedsBothSides' /\ FileIsPast'
  BY DEF FriendshipSymmetric, NoCrossedRequests, FriendshipNeedsBothSides, FileIsPast, HasAccount
<1> QED BY <1>1, <1>4, <1>5

\* Logging out keeps the invariant.
LEMMA LogoutKeeps ==
    ASSUME AccountIInv, SessionIInv', NEW s \in Uuids, RemoveSession(s), UNCHANGED accountVars
    PROVE  AccountIInv'
<1> USE DEF AccountIInv, accountVars
<1>1. AccountTypeOK'
  BY DEF AccountTypeOK, SessionIInv
<1>2. \A t \in Uuids : IsSessionExist(t)' =>
          IsSessionExist(t) /\ SessionValueMap'[t] = SessionValueMap[t]
  BY DEF RemoveSession, SessionIInv, SessionTypeOK, IsSessionExist
<1>3. NoDanglingUsers'
  BY <1>2 DEF NoDanglingUsers, HasAccount, SessionUser
<1>4. FriendshipSymmetric' /\ NoCrossedRequests' /\ FriendshipNeedsBothSides' /\ FileIsPast'
  BY DEF FriendshipSymmetric, NoCrossedRequests, FriendshipNeedsBothSides, FileIsPast, HasAccount
<1> QED BY <1>1, <1>3, <1>4

\* Editing the profile of an account keeps the invariant.
LEMMA EditKeeps ==
    ASSUME AccountIInv, NEW me \in Users, HasAccount(me),
           NEW n \in Nicknames \cup {NotSet}, NEW b \in Birthdays \cup {NotSet},
           AccountProfiles' = [AccountProfiles EXCEPT ![me] = Edited(@, n, b)],
           UNCHANGED <<sessionVars, Friends, PendingFriendRequests, accountFile, asks>>
    PROVE  AccountIInv'
<1> USE AccountAssumption DEF AccountIInv
<1> DEFINE old == AccountProfiles[me]
           new == Edited(old, n, b)
<1>1. old \in Profile
  BY DEF AccountTypeOK, HasAccount
<1>2. new \in Profile /\ new.password = old.password
  BY <1>1 DEF Profile, Edited
<1>3. /\ AccountProfiles'[me] = new
      /\ \A v \in Users \ {me} : AccountProfiles'[v] = AccountProfiles[v]
      /\ AccountProfiles' \in [Users -> Profile \cup {NoAccount}]
  BY <1>2 DEF AccountTypeOK
<1>4. /\ SessionIInv' /\ SessionTypeOK'
      /\ \A t \in Uuids : IsSessionExist(t)' = IsSessionExist(t) /\ SessionUser(t)' = SessionUser(t)
  BY SessionStep DEF sessionVars, IsSessionExist, SessionUser, SessionIInv
<1>5. AccountTypeOK'
  BY <1>3, <1>4 DEF AccountTypeOK
<1>6. \A v \in Users : HasAccount(v)' = HasAccount(v)
                    /\ AccountProfiles'[v].password = AccountProfiles[v].password
  <2> SUFFICES ASSUME NEW v \in Users
               PROVE  HasAccount(v)' = HasAccount(v)
                      /\ AccountProfiles'[v].password = AccountProfiles[v].password
    OBVIOUS
  <2>1. CASE v = me
    <3>1. HasAccount(v)'
      BY <2>1, <1>2, <1>3 DEF HasAccount
    <3>2. AccountProfiles'[v].password = AccountProfiles[v].password
      BY <2>1, <1>2, <1>3 DEF old
    <3> QED BY <2>1, <3>1, <3>2
  <2>2. CASE v # me
    BY <2>2, <1>3 DEF HasAccount
  <2> QED BY <2>1, <2>2
<1>7. \A t \in Uuids : IsSessionExist(t)' => HasAccount(SessionUser(t))'
  <2> SUFFICES ASSUME NEW t \in Uuids, IsSessionExist(t)' PROVE HasAccount(SessionUser(t))'
    OBVIOUS
  <2>1. HasAccount(SessionUser(t)) /\ SessionUser(t) \in Users /\ SessionUser(t)' = SessionUser(t)
    BY <1>4, SessionUserInUsers DEF NoDanglingUsers, AccountTypeOK
  <2> QED BY <2>1, <1>6 DEF HasAccount
<1>8. NoDanglingUsers'
  BY <1>6, <1>7 DEF NoDanglingUsers
<1>9. FileIsPast'
  BY <1>6 DEF FileIsPast
<1>10. FriendshipSymmetric' /\ NoCrossedRequests' /\ FriendshipNeedsBothSides'
  BY DEF FriendshipSymmetric, NoCrossedRequests, FriendshipNeedsBothSides
<1> QED BY <1>4, <1>5, <1>8, <1>9, <1>10

\* Adding the friendship to both accounts keeps it symmetric, and nothing else
\* happens to the table.
LEMMA BefriendEffect ==
    ASSUME Friends \in [Users -> [Users -> Nat]], NEW me \in Users, NEW f \in Users,
           Befriend(me, f)
    PROVE  /\ Friends' \in [Users -> [Users -> Nat]]
           /\ \A x, y \in Users :
                 Friends'[x][y] = Friends[x][y] + (IF x = me /\ y = f THEN 1 ELSE 0)
                                                + (IF x = f /\ y = me THEN 1 ELSE 0)
BY DEF Befriend

\* The history counts one more call, of one user about one other.
LEMMA AskedEffect ==
    ASSUME asks \in [Users -> [Users -> Nat]], NEW me \in Users, NEW f \in Users, Asked(me, f)
    PROVE  /\ asks' \in [Users -> [Users -> Nat]]
           /\ \A x, y \in Users :
                 asks'[x][y] = asks[x][y] + (IF x = me /\ y = f THEN 1 ELSE 0)
BY DEF Asked

\* Confirming f's request keeps the invariant: the friendship is paid for by
\* f's request, which was counted when he made it, and by this call.
LEMMA ConfirmKeeps ==
    ASSUME AccountIInv, NEW me \in Users, NEW f \in Users,
           HasAccount(me), HasAccount(f), HasAsked(me, f), Befriend(me, f), Asked(me, f),
           EraseRequest(me, f),
           UNCHANGED <<sessionVars, AccountProfiles, accountFile>>
    PROVE  AccountIInv'
<1> USE AccountAssumption DEF AccountIInv
<1>1. /\ SessionIInv' /\ SessionTypeOK'
      /\ \A t \in Uuids : IsSessionExist(t)' = IsSessionExist(t) /\ SessionUser(t)' = SessionUser(t)
  BY SessionStep DEF sessionVars, IsSessionExist, SessionUser, SessionIInv
<1>2. /\ Friends' \in [Users -> [Users -> Nat]]
      /\ \A x, y \in Users :
            Friends'[x][y] = Friends[x][y] + (IF x = me /\ y = f THEN 1 ELSE 0)
                                           + (IF x = f /\ y = me THEN 1 ELSE 0)
  BY BefriendEffect DEF AccountTypeOK
<1>3. /\ asks' \in [Users -> [Users -> Nat]]
      /\ \A x, y \in Users : asks'[x][y] = asks[x][y] + (IF x = me /\ y = f THEN 1 ELSE 0)
  BY AskedEffect DEF AccountTypeOK
<1>4. /\ PendingFriendRequests' \in [Addressees -> SUBSET Users]
      /\ \A x \in Users, y \in Addressees : x \in PendingFriendRequests'[y] <=>
            x \in PendingFriendRequests[y] /\ ~(x = f /\ y = me)
  BY DEF AccountTypeOK, EraseRequest, Addressees
<1>5. /\ \A x, y \in Users : /\ Friends[x][y] \in Nat /\ asks[x][y] \in Nat
                            /\ accountFile.friends[x][y] \in Nat
      /\ f \in PendingFriendRequests[me]
  BY DEF AccountTypeOK, HasAsked
<1>6. AccountTypeOK'
  BY <1>1, <1>2, <1>3, <1>4 DEF AccountTypeOK
<1>7. FriendshipSymmetric'
  BY <1>2, <1>5 DEF FriendshipSymmetric
<1>8. NoCrossedRequests'
  BY <1>4 DEF NoCrossedRequests, Addressees
<1>9. FriendshipNeedsBothSides'
  <2> SUFFICES ASSUME NEW x \in Users, NEW y \in Users
               PROVE  Friends'[x][y] + (IF x \in PendingFriendRequests'[y] THEN 1 ELSE 0)
                        <= asks'[x][y]
    BY DEF FriendshipNeedsBothSides
  <2>1. /\ Friends[x][y] + (IF x \in PendingFriendRequests[y] THEN 1 ELSE 0) <= asks[x][y]
        /\ Friends[x][y] \in Nat /\ asks[x][y] \in Nat
    BY <1>5 DEF FriendshipNeedsBothSides
  <2>2. CASE x = me /\ y = f
    <3>1. me # f => me \notin PendingFriendRequests[f]
      BY <1>5 DEF NoCrossedRequests
    <3>2. CASE me = f
      BY <2>1, <2>2, <3>2, <1>2, <1>3, <1>4, <1>5 DEF Addressees
    <3>3. CASE me # f
      BY <2>1, <2>2, <3>1, <3>3, <1>2, <1>3, <1>4, <1>5 DEF Addressees
    <3> QED BY <3>2, <3>3
  <2>3. CASE x = f /\ y = me /\ f # me
    BY <2>1, <2>3, <1>2, <1>3, <1>4, <1>5 DEF Addressees
  <2>4. CASE ~(x = me /\ y = f) /\ ~(x = f /\ y = me)
    BY <2>1, <2>4, <1>2, <1>3, <1>4 DEF Addressees
  <2> QED BY <2>2, <2>3, <2>4
<1>10. NoDanglingUsers'
  BY <1>1, <1>2, <1>4, <1>5 DEF NoDanglingUsers, HasAccount, Addressees
<1>11. FileIsPast'
  BY <1>2, <1>5 DEF FileIsPast, HasAccount
<1> QED BY <1>1, <1>6, <1>7, <1>8, <1>9, <1>10, <1>11

\* A new request keeps the invariant: f has no request waiting for me.
LEMMA AskKeeps ==
    ASSUME AccountIInv, NEW me \in Users, NEW f \in Users,
           HasAccount(me), HasAccount(f), ~HasAsked(me, f), Asked(me, f),
           InsertRequest(me, f),
           UNCHANGED <<sessionVars, AccountProfiles, Friends, accountFile>>
    PROVE  AccountIInv'
<1> USE AccountAssumption DEF AccountIInv
<1>1. /\ SessionIInv' /\ SessionTypeOK'
      /\ \A t \in Uuids : IsSessionExist(t)' = IsSessionExist(t) /\ SessionUser(t)' = SessionUser(t)
  BY SessionStep DEF sessionVars, IsSessionExist, SessionUser, SessionIInv
<1>2. /\ asks' \in [Users -> [Users -> Nat]]
      /\ \A x, y \in Users : asks'[x][y] = asks[x][y] + (IF x = me /\ y = f THEN 1 ELSE 0)
  BY AskedEffect DEF AccountTypeOK
<1>3. /\ PendingFriendRequests' \in [Addressees -> SUBSET Users]
      /\ \A x \in Users, y \in Addressees : x \in PendingFriendRequests'[y] <=>
            x \in PendingFriendRequests[y] \/ (x = me /\ y = f)
  BY DEF AccountTypeOK, InsertRequest, Addressees
<1>4. /\ \A x, y \in Users : Friends[x][y] \in Nat /\ asks[x][y] \in Nat
      /\ f \notin PendingFriendRequests[me]
  BY DEF AccountTypeOK, HasAsked
<1>5. AccountTypeOK'
  BY <1>1, <1>2, <1>3 DEF AccountTypeOK
<1>6. NoCrossedRequests'
  BY <1>3, <1>4 DEF NoCrossedRequests, Addressees
<1>7. FriendshipNeedsBothSides'
  <2>1. me = f => me \notin PendingFriendRequests[f]
    BY <1>4
  <2>2. \A x, y \in Users :
          Friends[x][y] + (IF x \in PendingFriendRequests[y] THEN 1 ELSE 0) <= asks[x][y]
    BY DEF FriendshipNeedsBothSides
  <2>3. Friends[me][f] <= asks[me][f]
    BY <2>2, <1>4
  <2> SUFFICES ASSUME NEW x \in Users, NEW y \in Users
               PROVE  Friends[x][y] + (IF x \in PendingFriendRequests'[y] THEN 1 ELSE 0)
                        <= asks'[x][y]
    BY DEF FriendshipNeedsBothSides
  <2>4. CASE x = me /\ y = f
    BY <2>3, <2>4, <1>2, <1>3, <1>4 DEF Addressees
  <2>5. CASE ~(x = me /\ y = f)
    BY <2>2, <2>5, <1>2, <1>3, <1>4 DEF Addressees
  <2> QED BY <2>4, <2>5
<1>8. NoDanglingUsers'
  BY <1>1, <1>3 DEF NoDanglingUsers, HasAccount, Addressees
<1>9. FriendshipSymmetric' /\ FileIsPast'
  BY DEF FriendshipSymmetric, FileIsPast, HasAccount
<1> QED BY <1>1, <1>5, <1>6, <1>7, <1>8, <1>9

\* A request to the empty name keeps the invariant: nobody can ever answer it.
LEMMA AskNobodyKeeps ==
    ASSUME AccountIInv, NEW me \in Users, HasAccount(me), InsertRequest(me, EmptyString),
           UNCHANGED <<sessionVars, AccountProfiles, Friends, accountFile, asks>>
    PROVE  AccountIInv'
<1> USE AccountAssumption DEF AccountIInv
<1>1. /\ SessionIInv' /\ SessionTypeOK'
      /\ \A t \in Uuids : IsSessionExist(t)' = IsSessionExist(t) /\ SessionUser(t)' = SessionUser(t)
  BY SessionStep DEF sessionVars, IsSessionExist, SessionUser, SessionIInv
<1>2. /\ PendingFriendRequests' \in [Addressees -> SUBSET Users]
      /\ \A y \in Users : PendingFriendRequests'[y] = PendingFriendRequests[y]
      /\ PendingFriendRequests'[EmptyString] = PendingFriendRequests[EmptyString] \cup {me}
  BY DEF AccountTypeOK, InsertRequest, Addressees
<1>3. AccountTypeOK'
  BY <1>1, <1>2 DEF AccountTypeOK
<1>4. NoCrossedRequests' /\ FriendshipNeedsBothSides'
  BY <1>2 DEF NoCrossedRequests, FriendshipNeedsBothSides
<1>5. NoDanglingUsers'
  BY <1>1, <1>2 DEF NoDanglingUsers, HasAccount
<1>6. FriendshipSymmetric' /\ FileIsPast'
  BY DEF FriendshipSymmetric, FileIsPast, HasAccount
<1> QED BY <1>1, <1>3, <1>4, <1>5, <1>6

\* The next process starts from a file that is symmetric, closed and in the past.
LEMMA RestartKeeps ==
    ASSUME AccountIInv, NEW f,
           f \in [profiles : [Users -> Profile \cup {NoAccount}], friends : [Users -> [Users -> Nat]]],
           \A u, v \in Users :
               /\ f.friends[u][v] = f.friends[v][u]
               /\ f.friends[u][v] <= asks[u][v]
               /\ f.friends[u][v] > 0 => f.profiles[u] # NoAccount /\ f.profiles[v] # NoAccount,
           StartFrom(f)
    PROVE  AccountIInv'
<1> USE DEF AccountIInv, StartFrom
<1>1. SessionIInv' /\ SessionTypeOK'
  BY SessionStep DEF SessionNext, SessionIInv
<1>2. AccountTypeOK'
  BY <1>1 DEF AccountTypeOK
<1>3. \A t \in Uuids : ~IsSessionExist(t)'
  BY DEF ForgetSessions, IsSessionExist
<1>4. \A u, v \in Users : f.friends[u][v] \in Nat
  OBVIOUS
<1>5. FriendshipSymmetric' /\ NoCrossedRequests'
  BY DEF FriendshipSymmetric, NoCrossedRequests, Addressees
<1>6. FriendshipNeedsBothSides'
  BY <1>4 DEF FriendshipNeedsBothSides, Addressees
<1>7. NoDanglingUsers'
  BY <1>3 DEF NoDanglingUsers, HasAccount, Addressees
<1>8. FileIsPast'
  BY <1>4 DEF FileIsPast, HasAccount
<1> QED BY <1>1, <1>2, <1>5, <1>6, <1>7, <1>8

\* What each kind of restart can read satisfies what RestartKeeps asks of it.
LEMMA RestartsKeep ==
    ASSUME AccountIInv, StopAndRestart \/ CrashAndRestart \/ CrashInWriteAndRestart
    PROVE  AccountIInv'
<1> USE DEF AccountIInv
<1>1. \A u, v \in Users : /\ Friends[u][v] \in Nat /\ asks[u][v] \in Nat
                        /\ accountFile.friends[u][v] \in Nat
  BY DEF AccountTypeOK
<1>2. \A u, v \in Users : Friends[u][v] <= asks[u][v]
  BY <1>1 DEF FriendshipNeedsBothSides
<1>3. \A u, v \in Users : accountFile.friends[u][v] <= asks[u][v]
  BY <1>1, <1>2 DEF FileIsPast
<1>4. CASE StopAndRestart
  <2>1. Saved \in [profiles : [Users -> Profile \cup {NoAccount}], friends : [Users -> [Users -> Nat]]]
    BY DEF Saved, AccountTypeOK
  <2>2. \A u, v \in Users :
          /\ Saved.friends[u][v] = Saved.friends[v][u]
          /\ Saved.friends[u][v] <= asks[u][v]
          /\ Saved.friends[u][v] > 0 => Saved.profiles[u] # NoAccount /\ Saved.profiles[v] # NoAccount
    BY <1>2 DEF Saved, FriendshipSymmetric, NoDanglingUsers, HasAccount
  <2> HIDE DEF AccountIInv
  <2> QED BY <1>4, <2>1, <2>2, RestartKeeps DEF StopAndRestart
<1>5. CASE CrashAndRestart
  <2>1. accountFile \in [profiles : [Users -> Profile \cup {NoAccount}], friends : [Users -> [Users -> Nat]]]
    BY DEF AccountTypeOK
  <2>2. \A u, v \in Users :
          /\ accountFile.friends[u][v] = accountFile.friends[v][u]
          /\ accountFile.friends[u][v] <= asks[u][v]
          /\ accountFile.friends[u][v] > 0 =>
                accountFile.profiles[u] # NoAccount /\ accountFile.profiles[v] # NoAccount
    BY <1>3 DEF FriendshipSymmetric, NoDanglingUsers
  <2> HIDE DEF AccountIInv
  <2> QED BY <1>5, <2>1, <2>2, RestartKeeps DEF CrashAndRestart
<1>6. CASE CrashInWriteAndRestart
  <2>1. EmptyFile \in [profiles : [Users -> Profile \cup {NoAccount}], friends : [Users -> [Users -> Nat]]]
    BY DEF EmptyFile, NoProfiles, NobodysFriends
  <2>2. \A u, v \in Users :
          /\ EmptyFile.friends[u][v] = EmptyFile.friends[v][u]
          /\ EmptyFile.friends[u][v] <= asks[u][v]
          /\ EmptyFile.friends[u][v] > 0 =>
                EmptyFile.profiles[u] # NoAccount /\ EmptyFile.profiles[v] # NoAccount
    BY <1>1 DEF EmptyFile, NobodysFriends
  <2> HIDE DEF AccountIInv
  <2> QED BY <1>6, <2>1, <2>2, RestartKeeps DEF CrashInWriteAndRestart
<1> QED BY <1>4, <1>5, <1>6

-----------------------------------------------------------------------------
\* Every handler and every restart keeps the invariant.
THEOREM AccountStepIInv == AccountIInv /\ [AccountNext]_vars => AccountIInv'
<1> SUFFICES ASSUME AccountIInv, [AccountNext]_vars PROVE AccountIInv'
  OBVIOUS
<1>1. SessionIInv'
  BY SessionStep, AccountStepIsSessionStep DEF AccountIInv
<1>2. ASSUME UNCHANGED <<sessionVars, accountVars>> PROVE AccountIInv'
  BY <1>2, AnswerKeeps
<1>3. ASSUME NEW u \in Users \cup {EmptyString}, NEW p \in Passwords, NEW a \in Addrs,
             handleRegister(u, p, a)
      PROVE  AccountIInv'
  BY <1>1, <1>2, <1>3, RegisterKeeps DEF handleRegister, AnswerOnly, NameTaken
<1>4. ASSUME NEW u \in Users \cup {EmptyString}, NEW p \in Passwords, NEW a \in Addrs,
             handleLogin(u, p, a)
      PROVE  AccountIInv'
  BY <1>1, <1>2, <1>4, LoginKeeps DEF handleLogin, AnswerOnly, PasswordCorrect
<1>5. ASSUME NEW t \in Uuids, Request(t) PROVE AccountIInv'
  <2>1. CASE handleLogout(t)
    BY <1>1, <1>2, <2>1, LogoutKeeps DEF handleLogout, AnswerOnly
  <2>2. Authenticated(t) =>
          /\ SessionUser(t) \in Users
          /\ HasAccount(SessionUser(t))
    BY SessionUserInUsers DEF Authenticated, AccountIInv, SessionIInv, NoDanglingUsers
  <2>3. ASSUME NEW n \in Nicknames \cup {NotSet}, NEW b \in Birthdays \cup {NotSet},
               handleEditProfile(t, n, b)
        PROVE  AccountIInv'
    <3>1. CASE AuthError("profile/edit", t)
      BY <3>1, <1>2 DEF AuthError, AnswerOnly
    <3>2. CASE ~AuthError("profile/edit", t)
      BY <2>2, <2>3, <3>2, EditKeeps DEF handleEditProfile
    <3> QED BY <3>1, <3>2
  <2>4. ASSUME NEW f \in Addressees, handleAddFriends(t, f) PROVE AccountIInv'
    <3> DEFINE me == SessionUser(t)
    <3>1. CASE UNCHANGED <<sessionVars, accountVars>>
      BY <3>1, <1>2
    <3>2. CASE ~UNCHANGED <<sessionVars, accountVars>>
      <4>1. /\ Authenticated(t)
            /\ f # EmptyString => HasAccount(f)
            /\ UNCHANGED <<sessionVars, AccountProfiles, accountFile>>
            /\ \/ /\ HasAsked(me, f)
                  /\ Asked(me, f)
                  /\ Befriend(me, f)
                  /\ EraseRequest(me, f)
               \/ /\ ~HasAsked(me, f)
                  /\ IF f = EmptyString THEN UNCHANGED asks ELSE Asked(me, f)
                  /\ InsertRequest(me, f)
                  /\ UNCHANGED Friends
        BY <2>4, <3>2 DEF handleAddFriends, AuthError, AnswerOnly, AddresseeExists
      <4> HIDE DEF me
      <4>2. me \in Users /\ HasAccount(me)
        BY <4>1, <2>2 DEF me
      <4>3. CASE f = EmptyString
        <5>1. ~HasAsked(me, f)
          BY <4>2, <4>3, AccountAssumption DEF HasAsked, AccountIInv, AccountTypeOK, Addressees
        <5> QED BY <4>1, <4>2, <4>3, <5>1, AskNobodyKeeps
      <4>4. CASE f # EmptyString
        <5>1. f \in Users
          BY <4>4 DEF Addressees
        <5> QED BY <4>1, <4>2, <4>4, <5>1, ConfirmKeeps, AskKeeps
      <4> QED BY <4>3, <4>4
    <3> QED BY <3>1, <3>2
  <2>5. CASE \/ handleGetProfile(t) \/ handleShowFriends(t) \/ handleShowFriendRequests(t)
             \/ \E q \in Queries : handleSearchAccount(t, q)
    BY <1>2, <2>5 DEF handleGetProfile, handleShowFriends, handleShowFriendRequests,
       handleSearchAccount, AuthError, AnswerOnly
  <2> QED BY <1>5, <2>1, <2>3, <2>4, <2>5 DEF Request
<1>6. CASE \E op \in Ops : PayloadInvalid(op)
  BY <1>2, <1>6 DEF PayloadInvalid, AnswerOnly
<1>7. CASE StopAndRestart \/ CrashAndRestart \/ CrashInWriteAndRestart
  BY <1>7, RestartsKeep
<1>8. CASE UNCHANGED vars
  BY <1>2, <1>8 DEF vars
<1> QED BY <1>3, <1>4, <1>5, <1>6, <1>7, <1>8 DEF AccountNext, Credential

\* The inductive invariant holds for any number of users, sessions, requests and
\* restarts.
THEOREM AccountIInvAlways == AccountSpec => []AccountIInv
BY AccountInitIInv, AccountStepIInv, PTL DEF AccountSpec

\* Friendship is on both sides or on none, in memory and in the file
\* (Account.cpp:389-396, 544-553).
THEOREM FriendshipSymmetricAlways == AccountSpec => []FriendshipSymmetric
<1>1. AccountIInv => FriendshipSymmetric
  BY DEF AccountIInv
<1> QED BY AccountIInvAlways, <1>1, PTL

\* Two users never wait for each other's answer (Account.cpp:382-399).
THEOREM RequestsNeverCross == AccountSpec => []NoCrossedRequests
<1>1. AccountIInv => NoCrossedRequests
  BY DEF AccountIInv
<1> QED BY AccountIInvAlways, <1>1, PTL

\* A friendship is never made by one side alone (Account.cpp:382-403).
THEOREM FriendshipByConsent == AccountSpec => []FriendshipNeedsBothSides
<1>1. AccountIInv => FriendshipNeedsBothSides
  BY DEF AccountIInv
<1> QED BY AccountIInvAlways, <1>1, PTL

\* No handler meets a user without an account half way through its work
\* (Account.cpp:214, 389-390): sessions, friendships and pending requests, those to
\* the empty name included, are of users with an account, and only that empty name
\* is waited for without one.
THEOREM NothingDangles == AccountSpec => []NoDanglingUsers
<1>1. AccountIInv => NoDanglingUsers
  BY DEF AccountIInv
<1> QED BY AccountIInvAlways, <1>1, PTL

\* The file never holds anything that memory contradicts (Account.cpp:34-42, 544-553).
THEOREM FileIsAlwaysPast == AccountSpec => []FileIsPast
<1>1. AccountIInv => FileIsPast
  BY DEF AccountIInv
<1> QED BY AccountIInvAlways, <1>1, PTL

\* The two halves of a user's subtree, the requests and the file keep their types.
THEOREM AccountTypesAlways == AccountSpec => []AccountTypeOK
<1>1. AccountIInv => AccountTypeOK
  BY DEF AccountIInv
<1> QED BY AccountIInvAlways, <1>1, PTL

\* The account server drives the session maps only as Session.tla says, so what
\* holds of every behaviour of Session holds here.
THEOREM AccountImplementsSession == AccountSpec => SessionSpec
<1>1. InitAccount => InitSession
  BY DEF InitAccount
<1> QED BY <1>1, AccountStepIsSessionStep, PTL DEF AccountSpec, SessionSpec

\* Dead tokens stay dead and live ones keep their owner in the whole server.
THEOREM AccountDeadStaysDead == AccountSpec => DeadStaysDead
BY AccountImplementsSession, DeadTokensStayDead, PTL

-----------------------------------------------------------------------------
\* No route takes an account away or writes the file (Account.cpp:44-403).
LEMMA RequestsKeepAccounts ==
    ASSUME AccountIInv, Credential \/ \E t \in Uuids : Request(t)
    PROVE  /\ UNCHANGED accountFile
           /\ \A u \in Users : HasAccount(u) => HasAccount(u)'
<1> USE DEF AnswerOnly, AuthError, accountVars
<1>0. AccountProfiles \in [Users -> Profile \cup {NoAccount}]
  BY DEF AccountIInv, AccountTypeOK
<1>1. UNCHANGED accountFile
  BY ZenonT(40) DEF Credential, Request, handleRegister, handleLogin, handleLogout, handleGetProfile,
     handleEditProfile, handleSearchAccount, handleAddFriends, handleShowFriends,
     handleShowFriendRequests
<1>2. ASSUME UNCHANGED AccountProfiles PROVE \A u \in Users : HasAccount(u) => HasAccount(u)'
  BY <1>2 DEF HasAccount
<1>3. ASSUME NEW u \in Users \cup {EmptyString}, NEW p \in Passwords, NEW a \in Addrs,
             handleRegister(u, p, a) \/ handleLogin(u, p, a)
      PROVE  \A w \in Users : HasAccount(w) => HasAccount(w)'
  <2>1. CASE UNCHANGED AccountProfiles
    BY <1>2, <2>1
  <2>2. CASE u \in Users /\ AccountProfiles' = [AccountProfiles EXCEPT ![u] = NewProfile(u, p)]
    <3>1. NewProfile(u, p) # NoAccount
      BY <2>2, AccountAssumption DEF NewProfile, Profile
    <3> QED BY <1>0, <2>2, <3>1 DEF HasAccount
  <2> QED BY <1>3, <2>1, <2>2 DEF handleRegister, handleLogin
<1>4. ASSUME NEW t \in Uuids, Request(t) PROVE \A w \in Users : HasAccount(w) => HasAccount(w)'
  <2>1. CASE UNCHANGED AccountProfiles
    BY <1>2, <2>1
  <2>2. ASSUME NEW n \in Nicknames \cup {NotSet}, NEW b \in Birthdays \cup {NotSet},
               NEW me, HasAccount(me), AccountProfiles' = [AccountProfiles EXCEPT ![me] = Edited(@, n, b)]
        PROVE  \A w \in Users : HasAccount(w) => HasAccount(w)'
    <3>1. \A x \in Profile : Edited(x, n, b) \in Profile
      BY DEF Profile, Edited
    <3> QED BY <1>0, <2>2, <3>1, AccountAssumption DEF HasAccount
  <2> QED BY <1>4, <2>1, <2>2 DEF Request, handleLogout, handleGetProfile, handleEditProfile,
          handleSearchAccount, handleAddFriends, handleShowFriends, handleShowFriendRequests
<1> QED BY <1>1, <1>3, <1>4 DEF Credential

-----------------------------------------------------------------------------
\* As long as an account exists its password stays: registering needs a free
\* name, and a restart reads a file that agrees with memory (Account.cpp:59-75).
THEOREM NamesKeepPasswords == AccountSpec => NameKeepsPassword
<1> DEFINE Kept == \A u \in Users : HasAccount(u) /\ HasAccount(u)' =>
                      AccountProfiles'[u].password = AccountProfiles[u].password
<1>1. AccountIInv /\ [AccountNext]_vars => Kept
  <2> SUFFICES ASSUME AccountIInv, [AccountNext]_vars,
                      NEW w \in Users, HasAccount(w), HasAccount(w)'
               PROVE  AccountProfiles'[w].password = AccountProfiles[w].password
    OBVIOUS
  <2>0. AccountProfiles \in [Users -> Profile \cup {NoAccount}]
    BY DEF AccountIInv, AccountTypeOK
  <2>1. CASE AccountProfiles' = AccountProfiles
    BY <2>1
  <2>2. ASSUME NEW u \in Users \cup {EmptyString}, NEW p \in Passwords, NEW a \in Addrs,
               handleRegister(u, p, a) \/ handleLogin(u, p, a)
        PROVE  AccountProfiles'[w].password = AccountProfiles[w].password
    BY <2>0, <2>1, <2>2 DEF handleRegister, handleLogin, AnswerOnly, accountVars, NameTaken, HasAccount
  <2>3. ASSUME NEW t \in Uuids, Request(t)
        PROVE  AccountProfiles'[w].password = AccountProfiles[w].password
    <3>1. ASSUME NEW n \in Nicknames \cup {NotSet}, NEW b \in Birthdays \cup {NotSet},
                 handleEditProfile(t, n, b)
          PROVE  AccountProfiles'[w].password = AccountProfiles[w].password
      <4>1. CASE AccountProfiles' # AccountProfiles
        <5>1. PICK me : /\ AccountProfiles' = [AccountProfiles EXCEPT ![me] = Edited(@, n, b)]
                        /\ HasAccount(me) /\ me \in Users
          BY <3>1, <4>1, SessionUserInUsers
             DEF handleEditProfile, AuthError, AnswerOnly, accountVars, Authenticated,
                 AccountIInv, SessionIInv
        <5>2. AccountProfiles[me] \in Profile
          BY <2>0, <5>1 DEF HasAccount
        <5>3. Edited(AccountProfiles[me], n, b).password = AccountProfiles[me].password
          BY <5>2 DEF Edited, Profile
        <5> QED BY <2>0, <5>1, <5>3
      <4> QED BY <2>1, <4>1
    <3>2. CASE AccountProfiles' = AccountProfiles
      BY <3>2
    <3>3. AccountProfiles' = AccountProfiles
          \/ \E n \in Nicknames \cup {NotSet}, b \in Birthdays \cup {NotSet} :
                handleEditProfile(t, n, b)
      BY <2>3 DEF Request, handleLogout, handleGetProfile, handleSearchAccount, handleAddFriends,
         handleShowFriends, handleShowFriendRequests, AuthError, AnswerOnly, accountVars
    <3> QED BY <3>1, <3>2, <3>3
  <2>4. CASE \E op \in Ops : PayloadInvalid(op)
    BY <2>1, <2>4 DEF PayloadInvalid, AnswerOnly, accountVars
  <2>5. CASE StopAndRestart \/ CrashAndRestart \/ CrashInWriteAndRestart
    BY <2>5 DEF StopAndRestart, CrashAndRestart, CrashInWriteAndRestart, StartFrom, Saved,
       EmptyFile, NoProfiles, HasAccount, AccountIInv, FileIsPast
  <2>6. CASE UNCHANGED vars
    BY <2>1, <2>6 DEF vars, accountVars
  <2> QED BY <2>2, <2>3, <2>4, <2>5, <2>6 DEF AccountNext, Credential
<1>2. AccountIInv /\ [AccountNext]_vars => [Kept]_vars
  BY <1>1
<1> QED BY AccountIInvAlways, <1>2, PTL DEF AccountSpec, NameKeepsPassword

-----------------------------------------------------------------------------
\* A session is opened only by a call that carries the password of the account it
\* is for (Account.cpp:60-79, 106-117).
THEOREM SessionsNeedPasswords == AccountSpec => SessionNeedsPassword
<1> DEFINE Paid == \A t \in Uuids : (~IsSessionExist(t) /\ IsSessionExist(t)') =>
                      /\ response'.arg # EmptyString
                      /\ response'.arg = AccountProfiles'[SessionValueMap'[t].username].password
<1>1. AccountIInv /\ [AccountNext]_vars => Paid
  <2> SUFFICES ASSUME AccountIInv, [AccountNext]_vars,
                      NEW s \in Uuids, ~IsSessionExist(s), IsSessionExist(s)'
               PROVE  /\ response'.arg # EmptyString
                      /\ response'.arg = AccountProfiles'[SessionValueMap'[s].username].password
    OBVIOUS
  <2>0. /\ AccountProfiles \in [Users -> Profile \cup {NoAccount}]
        /\ SessionTypeOK
    BY DEF AccountIInv, AccountTypeOK, SessionIInv
  <2>1. CASE UNCHANGED sessionVars
    BY <2>1 DEF sessionVars, IsSessionExist
  <2>2. ASSUME NEW u \in Users, NEW a \in Addrs, NewSession(u, a)
        PROVE  SessionValueMap'[s].username = u
    BY <2>0, <2>2 DEF SessionTypeOK, NewSession, IsSessionExist, Draw
  <2>3. ASSUME NEW u \in Users \cup {EmptyString}, NEW p \in Passwords, NEW a \in Addrs,
               handleRegister(u, p, a)
        PROVE  /\ response'.arg # EmptyString
               /\ response'.arg = AccountProfiles'[SessionValueMap'[s].username].password
    <3>1. CASE UNCHANGED sessionVars
      BY <2>1, <3>1
    <3>2. CASE /\ u \in Users /\ p # EmptyString /\ response'.arg = p /\ NewSession(u, a)
               /\ AccountProfiles' = [AccountProfiles EXCEPT ![u] = NewProfile(u, p)]
      BY <2>0, <2>2, <3>2 DEF NewProfile
    <3> QED BY <2>3, <3>1, <3>2 DEF handleRegister, AnswerOnly, Respond
  <2>4. ASSUME NEW u \in Users \cup {EmptyString}, NEW p \in Passwords, NEW a \in Addrs,
               handleLogin(u, p, a)
        PROVE  /\ response'.arg # EmptyString
               /\ response'.arg = AccountProfiles'[SessionValueMap'[s].username].password
    <3>1. CASE UNCHANGED sessionVars
      BY <2>1, <3>1
    <3>2. CASE /\ PasswordCorrect(u, p) /\ response'.arg = p /\ NewSession(u, a)
               /\ AccountProfiles' = AccountProfiles
      BY <2>2, <3>2 DEF PasswordCorrect
    <3> QED BY <2>4, <3>1, <3>2 DEF handleLogin, AnswerOnly, Respond, accountVars
  <2>5. ASSUME NEW t \in Uuids, Request(t) PROVE FALSE
    <3>1. CASE UNCHANGED sessionVars
      BY <3>1 DEF sessionVars, IsSessionExist
    <3>2. CASE RemoveSession(t)
      BY <2>0, <3>2 DEF RemoveSession, IsSessionExist, SessionTypeOK
    <3> QED BY <2>5, <3>1, <3>2 DEF Request, handleLogout, handleGetProfile, handleEditProfile,
            handleSearchAccount, handleAddFriends, handleShowFriends, handleShowFriendRequests,
            AuthError, AnswerOnly
  <2>6. ASSUME StopAndRestart \/ CrashAndRestart \/ CrashInWriteAndRestart PROVE FALSE
    BY <2>6 DEF StopAndRestart, CrashAndRestart, CrashInWriteAndRestart, StartFrom,
       ForgetSessions, IsSessionExist
  <2> QED BY <2>1, <2>3, <2>4, <2>5, <2>6
          DEF AccountNext, Credential, PayloadInvalid, AnswerOnly, vars
<1>2. AccountIInv /\ [AccountNext]_vars => [Paid]_vars
  BY <1>1
<1> QED BY AccountIInvAlways, <1>2, PTL DEF AccountSpec, SessionNeedsPassword

\* A profile changes, and a friend is asked for, only in the name of a live session
\* of that user (Account.cpp:248-273, 366-403), or when he registers.
THEOREM OnlyOwnSessionActs == AccountSpec => OnlyOwnSession
<1> DEFINE Mine(u) == /\ response'.status = "OK" /\ response'.session \in Uuids
                      /\ SessionValueMap'[response'.session] # NoSession
                      /\ SessionValueMap'[response'.session].username = u
           Same(u) == /\ AccountProfiles'[u] = AccountProfiles[u]
                      /\ \A v \in Addressees :
                            u \in PendingFriendRequests'[v] => u \in PendingFriendRequests[v]
           Own == response'.op # "restart" => \A u \in Users : Mine(u) \/ Same(u)
<1>1. AccountIInv /\ [AccountNext]_vars => Own
  <2> SUFFICES ASSUME AccountIInv, [AccountNext]_vars, response'.op # "restart",
                      NEW w \in Users
               PROVE  Mine(w) \/ Same(w)
    OBVIOUS
  <2>0. /\ AccountProfiles \in [Users -> Profile \cup {NoAccount}]
        /\ PendingFriendRequests \in [Addressees -> SUBSET Users]
        /\ SessionTypeOK
    BY DEF AccountIInv, AccountTypeOK, SessionIInv
  <2>1. CASE UNCHANGED <<AccountProfiles, PendingFriendRequests>>
    BY <2>1
  <2>2. ASSUME NEW u \in Users \cup {EmptyString}, NEW p \in Passwords, NEW a \in Addrs,
               handleRegister(u, p, a) \/ handleLogin(u, p, a)
        PROVE  Mine(w) \/ Same(w)
    <3>1. CASE /\ u \in Users /\ NewSession(u, a)
               /\ response'.status = "OK" /\ response'.session = Draw(1)
               /\ AccountProfiles' = [AccountProfiles EXCEPT ![u] = NewProfile(u, p)]
               /\ UNCHANGED PendingFriendRequests
      <4>1. Draw(1) \in Uuids /\ SessionValueMap'[Draw(1)] = [username |-> u, addr |-> Draw(2)]
            /\ [username |-> u, addr |-> Draw(2)] # NoSession
        BY <2>0, <3>1, SessionAssumption DEF SessionTypeOK, NewSession, Draw, Uuids, SessionValue
      <4>2. CASE w = u
        BY <3>1, <4>1, <4>2
      <4>3. CASE w # u
        BY <2>0, <3>1, <4>3
      <4> QED BY <4>2, <4>3
    <3> QED BY <2>1, <2>2, <3>1 DEF handleRegister, handleLogin, AnswerOnly, Respond, accountVars
  <2>3. ASSUME NEW t \in Uuids, Request(t) PROVE Mine(w) \/ Same(w)
    <3>1. CASE UNCHANGED <<AccountProfiles, PendingFriendRequests>>
      BY <2>1, <3>1
    <3>2. ASSUME NEW n \in Nicknames \cup {NotSet}, NEW b \in Birthdays \cup {NotSet},
                 handleEditProfile(t, n, b)
          PROVE  Mine(w) \/ Same(w)
      <4>1. CASE /\ IsSessionExist(t) /\ HasAccount(SessionUser(t))
                 /\ AccountProfiles' = [AccountProfiles EXCEPT ![SessionUser(t)] = Edited(@, n, b)]
                 /\ response'.status = "OK" /\ response'.session = t
                 /\ UNCHANGED <<sessionVars, PendingFriendRequests>>
        BY <2>0, <4>1 DEF sessionVars, IsSessionExist, SessionUser
      <4> QED BY <3>1, <3>2, <4>1 DEF handleEditProfile, AuthError, AnswerOnly, Respond,
              Authenticated, OwnAccountStatus, accountVars
    <3>3. ASSUME NEW f \in Addressees, handleAddFriends(t, f) PROVE Mine(w) \/ Same(w)
      <4>1. CASE /\ IsSessionExist(t) /\ UNCHANGED <<sessionVars, AccountProfiles>>
                 /\ EraseRequest(SessionUser(t), f) \/ InsertRequest(SessionUser(t), f)
                 /\ response'.status = "OK" /\ response'.session = t
        BY <2>0, <4>1 DEF sessionVars, IsSessionExist, SessionUser, EraseRequest, InsertRequest
      <4> QED BY <3>1, <3>3, <4>1 DEF handleAddFriends, AuthError, AnswerOnly, Respond,
              Authenticated, accountVars
    <3> QED BY <2>3, <3>1, <3>2, <3>3 DEF Request, handleLogout, handleGetProfile,
            handleSearchAccount, handleShowFriends, handleShowFriendRequests, AuthError,
            AnswerOnly, accountVars
  <2>4. CASE StopAndRestart \/ CrashAndRestart \/ CrashInWriteAndRestart
    BY <2>4 DEF StopAndRestart, CrashAndRestart, CrashInWriteAndRestart, StartFrom
  <2> QED BY <2>1, <2>2, <2>3, <2>4
          DEF AccountNext, Credential, PayloadInvalid, AnswerOnly, accountVars, vars
<1>2. AccountIInv /\ [AccountNext]_vars =>
        [response'.op # "restart" =>
           \A u \in Users :
              \/ response'.status = "OK" /\ response'.session \in Uuids
                 /\ SessionValueMap'[response'.session] # NoSession
                 /\ SessionValueMap'[response'.session].username = u
              \/ /\ AccountProfiles'[u] = AccountProfiles[u]
                 /\ \A v \in Addressees :
                       u \in PendingFriendRequests'[v] => u \in PendingFriendRequests[v]]_vars
  BY <1>1
<1> QED BY AccountIInvAlways, <1>2, PTL DEF AccountSpec, OnlyOwnSession
=============================================================================
