------------------------------- MODULE Session -------------------------------
(***************************************************************************)
(* server/Session.cpp: the three process-wide maps that say which session  *)
(* tokens are alive, whose they are and from which address they came.      *)
(*                                                                         *)
(* boost::uuids::random_generator never repeats a value in practice; a     *)
(* uuid is the number of its draw.  The code only ever compares uuids for  *)
(* equality, so the order of the numbers carries no behaviour, and         *)
(* properties may use it to speak of older and newer sessions.             *)
(***************************************************************************)
EXTENDS Naturals, FiniteSets

CONSTANTS
    Users,      \* account names a client can send
    Addrs,      \* client socket addresses (Request::SocketAddrIn)
    MaxUuids,   \* bound: how many uuids the processes may draw
    NoSession,  \* "key not found" in SessionValueMap
    NoAddr      \* "key not found" in SessionClientAddrMap

Uuids == 1 .. MaxUuids
NoUuid == 0     \* "key not found" where the value is a uuid

\* A value_map_type: the keys "username" and "client-addr".  "last-active-time"
\* is written once and read nowhere.
SessionValue == [username : Users, addr : Uuids]

ASSUME SessionAssumption ==
    /\ MaxUuids \in Nat
    /\ NoSession \notin SessionValue
    /\ NoAddr \notin Addrs

VARIABLES
    SessionValueMap,        \* token -> value map
    SessionHashUserMap,     \* user name -> token of the latest session
    SessionClientAddrMap,   \* address hash -> address
    drawn                   \* how many uuids have been drawn so far

sessionVars == <<SessionValueMap, SessionHashUserMap, SessionClientAddrMap, drawn>>

SessionTypeOK ==
    /\ SessionValueMap \in [Uuids -> SessionValue \cup {NoSession}]
    /\ SessionHashUserMap \in [Users -> Uuids \cup {NoUuid}]
    /\ SessionClientAddrMap \in [Uuids -> Addrs \cup {NoAddr}]
    /\ drawn \in 0 .. MaxUuids

-----------------------------------------------------------------------------
(* Lookups. A token is whatever the client put in the packet.              *)

IsSessionExist(t) == SessionValueMap[t] # NoSession

SessionUser(t) == SessionValueMap[t].username     \* GetStringValue(t, "username")

GetHashByUsername(u) == SessionHashUserMap[u]     \* NoUuid where the code throws

GetClientAddr(t) == SessionClientAddrMap[SessionValueMap[t].addr]

-----------------------------------------------------------------------------
(* Operations.                                                             *)

InitSession ==
    /\ SessionValueMap = [t \in Uuids |-> NoSession]
    /\ SessionHashUserMap = [u \in Users |-> NoUuid]
    /\ SessionClientAddrMap = [h \in Uuids |-> NoAddr]
    /\ drawn = 0

\* The uuid of the k-th draw from now.
Draw(k) == drawn + k

\* Two draws: the token and the key of the address.
\* Mutant NewSessionStaleIndex: the index by user keeps its first token.
NewSessionStaleIndex(u, a) ==
    /\ drawn + 2 <= MaxUuids
    /\ drawn' = drawn + 2
    /\ SessionValueMap' =
          [SessionValueMap EXCEPT ![Draw(1)] = [username |-> u, addr |-> Draw(2)]]
    /\ SessionClientAddrMap' = [SessionClientAddrMap EXCEPT ![Draw(2)] = a]
    /\ SessionHashUserMap' =
          [SessionHashUserMap EXCEPT ![u] = IF @ = NoUuid THEN Draw(1) ELSE @]

NewSession(u, a) ==
    /\ drawn + 2 <= MaxUuids
    /\ drawn' = drawn + 2
    /\ SessionValueMap' =
          [SessionValueMap EXCEPT ![Draw(1)] = [username |-> u, addr |-> Draw(2)]]
    /\ SessionClientAddrMap' = [SessionClientAddrMap EXCEPT ![Draw(2)] = a]
    /\ SessionHashUserMap' = [SessionHashUserMap EXCEPT ![u] = Draw(1)]

\* Only the value map loses its entry: the index by user and the address stay.
RemoveSession(t) ==
    /\ IsSessionExist(t)
    /\ SessionValueMap' = [SessionValueMap EXCEPT ![t] = NoSession]
    /\ UNCHANGED <<SessionHashUserMap, SessionClientAddrMap, drawn>>

\* The process ends, for whatever reason, and another one starts: sessions are
\* kept in memory only. Uuids of the old process do not come back.
ForgetSessions ==
    /\ SessionValueMap' = [t \in Uuids |-> NoSession]
    /\ SessionHashUserMap' = [u \in Users |-> NoUuid]
    /\ SessionClientAddrMap' = [h \in Uuids |-> NoAddr]
    /\ UNCHANGED drawn

-----------------------------------------------------------------------------
SessionNext ==
    \/ \E u \in Users, a \in Addrs : NewSession(u, a)
    \/ \E t \in Uuids : RemoveSession(t)
    \/ ForgetSessions

SessionSpec == InitSession /\ [][SessionNext]_sessionVars

-----------------------------------------------------------------------------
(* Properties.                                                             *)

\* Every live session has an address of its own on file, so GetClientAddr
\* (Session.cpp:70) never throws for a live token, however sessions of the
\* same user overlap and end.
LiveSessionsHaveAddress ==
    \A t \in Uuids : IsSessionExist(t) =>
        /\ GetClientAddr(t) # NoAddr
        /\ \A s \in Uuids \ {t} :
              IsSessionExist(s) => SessionValueMap[s].addr # SessionValueMap[t].addr

\* GetHashByUsername (Session.cpp:46) answers with the newest session of the
\* user: no live session of u is newer than the one the index names, and the
\* index never names a session of somebody else.  The session it names may be closed
\* while an older one lives: RemoveSession leaves the index alone.
IndexIsNewest ==
    \A t \in Uuids : IsSessionExist(t) =>
        /\ t <= GetHashByUsername(SessionUser(t))
        /\ \A u \in Users : GetHashByUsername(u) = t => SessionUser(t) = u

\* A token that was drawn and is dead stays dead, across restarts too, and a
\* live one never changes hands: a client that still holds an old token can
\* never act for anybody with it.
DeadStaysDead ==
    [][\A t \in Uuids :
         /\ (t <= drawn /\ ~IsSessionExist(t)) => ~IsSessionExist(t)'
         /\ (IsSessionExist(t) /\ IsSessionExist(t)') =>
               SessionValueMap'[t] = SessionValueMap[t]]_sessionVars
=============================================================================
