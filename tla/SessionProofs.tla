---------------------------- MODULE SessionProofs ----------------------------
(***************************************************************************)
(* Proofs about Session, for any users, addresses and number of uuids.     *)
(***************************************************************************)
EXTENDS Session, TLAPS

\* Nothing is known about a uuid before it is drawn, an index by user never
\* points before a live session of that user, and every entry made by one
\* NewSession points only at what the same call drew.
DrawnOnly ==
    /\ \A t \in Uuids : t > drawn =>
          SessionValueMap[t] = NoSession /\ SessionClientAddrMap[t] = NoAddr
    /\ \A u \in Users : SessionHashUserMap[u] <= drawn
    /\ \A t \in Uuids : IsSessionExist(t) => SessionValueMap[t].addr = t + 1

SessionIInv ==
    /\ SessionTypeOK
    /\ DrawnOnly
    /\ LiveSessionsHaveAddress
    /\ IndexIsNewest

\* A process that has just started knows no session (Session.cpp:8-11).
THEOREM SessionInit == InitSession => SessionIInv
BY SessionAssumption DEF InitSession, SessionIInv, SessionTypeOK, DrawnOnly,
   LiveSessionsHaveAddress, IndexIsNewest, IsSessionExist, Uuids, NoUuid

\* Logging in, logging out and restarting keep the inductive invariant.
THEOREM SessionStep == SessionIInv /\ [SessionNext]_sessionVars => SessionIInv'
<1> SUFFICES ASSUME SessionIInv, [SessionNext]_sessionVars PROVE SessionIInv'
  OBVIOUS
<1> USE SessionAssumption DEF SessionIInv, Uuids, NoUuid, SessionValue
<1>1. ASSUME NEW u \in Users, NEW a \in Addrs, NewSession(u, a) PROVE SessionIInv'
  <2> DEFINE t1 == drawn + 1
             t2 == drawn + 2
  <2>1. /\ t1 \in Uuids /\ t2 \in Uuids /\ drawn' = drawn + 2
        /\ drawn \in Nat /\ drawn + 2 <= MaxUuids
    BY <1>1 DEF NewSession, SessionTypeOK
  <2>2. /\ SessionValueMap' = [SessionValueMap EXCEPT ![t1] = [username |-> u, addr |-> t2]]
        /\ SessionClientAddrMap' = [SessionClientAddrMap EXCEPT ![t2] = a]
        /\ SessionHashUserMap' = [SessionHashUserMap EXCEPT ![u] = t1]
    BY <1>1 DEF NewSession, Draw
  <2>3. SessionTypeOK'
    BY <2>1, <2>2 DEF SessionTypeOK
  <2>4. /\ SessionValueMap'[t1] # NoSession /\ SessionValueMap'[t1] = [username |-> u, addr |-> t2]
        /\ \A t \in Uuids \ {t1} : SessionValueMap'[t] = SessionValueMap[t]
        /\ \A h \in Uuids \ {t2} : SessionClientAddrMap'[h] = SessionClientAddrMap[h]
        /\ SessionClientAddrMap'[t2] = a
    <3>1. [username |-> u, addr |-> t2] \in SessionValue
      BY <2>1
    <3>2. [username |-> u, addr |-> t2] # NoSession
      BY <3>1
    <3>3. /\ SessionValueMap'[t1] = [username |-> u, addr |-> t2]
          /\ \A t \in Uuids \ {t1} : SessionValueMap'[t] = SessionValueMap[t]
      BY <2>1, <2>2 DEF SessionTypeOK
    <3>4. /\ \A h \in Uuids \ {t2} : SessionClientAddrMap'[h] = SessionClientAddrMap[h]
          /\ SessionClientAddrMap'[t2] = a
      BY <2>1, <2>2 DEF SessionTypeOK
    <3> QED BY <3>2, <3>3, <3>4 DEF IsSessionExist
  <2>5. \A t \in Uuids : IsSessionExist(t)' => t <= drawn \/ t = t1
    BY <2>1, <2>4 DEF DrawnOnly, IsSessionExist
  <2>6. DrawnOnly'
    <3>1. \A t \in Uuids : t > drawn' =>
             SessionValueMap'[t] = NoSession /\ SessionClientAddrMap'[t] = NoAddr
      BY <2>1, <2>4 DEF DrawnOnly
    <3>2. \A v \in Users : SessionHashUserMap'[v] <= drawn'
      BY SMTT(30), <2>1, <2>2 DEF DrawnOnly, SessionTypeOK
    <3>3. \A t \in Uuids : IsSessionExist(t)' => SessionValueMap'[t].addr = t + 1
      BY <2>1, <2>4 DEF DrawnOnly, IsSessionExist
    <3> QED BY <3>1, <3>2, <3>3 DEF DrawnOnly
  <2>7. LiveSessionsHaveAddress'
    <3>1. \A t \in Uuids : IsSessionExist(t)' => SessionClientAddrMap'[SessionValueMap'[t].addr] # NoAddr
      BY <2>1, <2>4 DEF DrawnOnly, IsSessionExist, LiveSessionsHaveAddress, GetClientAddr, SessionTypeOK
    <3> QED BY <2>6, <3>1 DEF DrawnOnly, LiveSessionsHaveAddress, GetClientAddr
  <2>8. IndexIsNewest'
    <3> SUFFICES ASSUME NEW t \in Uuids, IsSessionExist(t)'
                 PROVE /\ t <= GetHashByUsername(SessionUser(t))'
                       /\ \A v \in Users : GetHashByUsername(v)' = t => SessionUser(t)' = v
      BY DEF IndexIsNewest
    <3>1. CASE t = t1
      <4>1. SessionHashUserMap'[u] = t1 /\ \A v \in Users \ {u} : SessionHashUserMap'[v] <= drawn
        BY <2>1, <2>2 DEF SessionTypeOK, DrawnOnly
      <4> QED BY <3>1, <4>1, <2>1, <2>4 DEF GetHashByUsername, SessionUser, SessionTypeOK
    <3>2. CASE t # t1
      <4>1. SessionValueMap'[t] = SessionValueMap[t] /\ IsSessionExist(t) /\ t <= drawn
        BY <3>2, <2>4, <2>5 DEF IsSessionExist
      <4>2. SessionUser(t) \in Users
        BY <4>1 DEF SessionTypeOK, SessionUser, IsSessionExist
      <4>3. SessionHashUserMap'[SessionUser(t)] >= SessionHashUserMap[SessionUser(t)]
        <5>1. SessionHashUserMap[SessionUser(t)] <= drawn /\ SessionHashUserMap[SessionUser(t)] \in Nat
          BY <4>2 DEF SessionTypeOK, DrawnOnly
        <5>2. CASE SessionUser(t) = u
          BY <5>1, <5>2, <2>1, <2>2, <4>2 DEF SessionTypeOK
        <5>3. CASE SessionUser(t) # u
          BY <5>1, <5>3, <2>2, <4>2 DEF SessionTypeOK
        <5> QED BY <5>2, <5>3
      <4>4. t <= SessionHashUserMap[SessionUser(t)]
        BY <4>1 DEF IndexIsNewest, GetHashByUsername
      <4>5. \A v \in Users : SessionHashUserMap'[v] = t => SessionHashUserMap[v] = t
        BY <2>1, <2>2, <3>2 DEF SessionTypeOK
      <4>6. t <= SessionHashUserMap'[SessionUser(t)]
        BY <4>2, <4>3, <4>4, <2>3 DEF SessionTypeOK
      <4> QED BY <4>1, <4>5, <4>6 DEF IndexIsNewest, GetHashByUsername, SessionUser
    <3> QED BY <3>1, <3>2
  <2> QED BY <2>3, <2>6, <2>7, <2>8
<1>2. ASSUME NEW s \in Uuids, RemoveSession(s) PROVE SessionIInv'
  <2>1. /\ \A t \in Uuids : IsSessionExist(t)' =>
              IsSessionExist(t) /\ SessionValueMap'[t] = SessionValueMap[t]
        /\ \A t \in Uuids : SessionValueMap[t] = NoSession => SessionValueMap'[t] = NoSession
        /\ SessionTypeOK'
    BY <1>2 DEF RemoveSession, SessionTypeOK, IsSessionExist
  <2>2. UNCHANGED <<SessionHashUserMap, SessionClientAddrMap, drawn>>
    BY <1>2 DEF RemoveSession
  <2>3. DrawnOnly'
    BY <2>1, <2>2 DEF DrawnOnly
  <2>4. LiveSessionsHaveAddress'
    BY <2>1, <2>2 DEF LiveSessionsHaveAddress, GetClientAddr
  <2>5. IndexIsNewest'
    BY <2>1, <2>2 DEF IndexIsNewest, GetHashByUsername, SessionUser
  <2> QED BY <2>1, <2>3, <2>4, <2>5
<1>3. ASSUME ForgetSessions PROVE SessionIInv'
  BY <1>3 DEF ForgetSessions, SessionTypeOK, DrawnOnly, LiveSessionsHaveAddress,
     IndexIsNewest, IsSessionExist
<1>4. CASE UNCHANGED sessionVars
  BY <1>4 DEF sessionVars, SessionTypeOK, DrawnOnly, LiveSessionsHaveAddress,
     IndexIsNewest, IsSessionExist, GetClientAddr, GetHashByUsername, SessionUser
<1> QED BY <1>1, <1>2, <1>3, <1>4 DEF SessionNext

LEMMA SessionIInvAlways == SessionSpec => []SessionIInv
BY SessionInit, SessionStep, PTL DEF SessionSpec

\* The index by user never lags behind his latest session (Session.cpp:23-44).
THEOREM IndexIsAlwaysNewest == SessionSpec => []IndexIsNewest
<1>1. SessionIInv => IndexIsNewest
  BY DEF SessionIInv
<1> QED BY SessionIInvAlways, <1>1, PTL

\* Every live session finds the address it was opened from (Session.cpp:23-44, 70-82).
THEOREM LiveSessionsAlwaysHaveAddress == SessionSpec => []LiveSessionsHaveAddress
<1>1. SessionIInv => LiveSessionsHaveAddress
  BY DEF SessionIInv
<1> QED BY SessionIInvAlways, <1>1, PTL

\* The three maps keep their types.
THEOREM SessionTypesAlways == SessionSpec => []SessionTypeOK
<1>1. SessionIInv => SessionTypeOK
  BY DEF SessionIInv
<1> QED BY SessionIInvAlways, <1>1, PTL

\* One step never revives a dead token nor gives a live one to another user
\* (NewSession takes a fresh uuid, RemoveSession erases).
LEMMA TokenStep ==
    ASSUME SessionIInv, [SessionNext]_sessionVars, NEW t \in Uuids
    PROVE  /\ (t <= drawn /\ ~IsSessionExist(t)) => ~IsSessionExist(t)'
           /\ (IsSessionExist(t) /\ IsSessionExist(t)') =>
                 SessionValueMap'[t] = SessionValueMap[t]
<1> USE SessionAssumption DEF SessionIInv, SessionTypeOK, DrawnOnly, Uuids, IsSessionExist
<1>1. ASSUME NEW u \in Users, NEW a \in Addrs, NewSession(u, a)
      PROVE  \A x \in Uuids : x <= drawn => SessionValueMap'[x] = SessionValueMap[x]
  BY <1>1 DEF NewSession, Draw
<1>2. CASE \E u \in Users, a \in Addrs : NewSession(u, a)
  BY <1>1, <1>2
<1>3. CASE \E s \in Uuids : RemoveSession(s)
  BY <1>3 DEF RemoveSession
<1>4. CASE ForgetSessions
  BY <1>4 DEF ForgetSessions
<1>5. CASE UNCHANGED sessionVars
  BY <1>5 DEF sessionVars
<1> QED BY <1>2, <1>3, <1>4, <1>5 DEF SessionNext

\* A dead token is dead for good, whatever logs in, logs out or restarts.
THEOREM DeadTokensStayDead == SessionSpec => DeadStaysDead
<1>1. SessionIInv /\ [SessionNext]_sessionVars =>
        [\A t \in Uuids :
           /\ (t <= drawn /\ ~IsSessionExist(t)) => ~IsSessionExist(t)'
           /\ (IsSessionExist(t) /\ IsSessionExist(t)') =>
                 SessionValueMap'[t] = SessionValueMap[t]]_sessionVars
  BY TokenStep
<1> QED BY SessionInit, SessionStep, <1>1, PTL DEF SessionSpec, DeadStaysDead
=============================================================================
