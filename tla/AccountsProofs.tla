--------------------------- MODULE AccountsProofs ---------------------------
(***************************************************************************)
(* Proofs about Accounts for every set of users, sessions, requests and    *)
(* roles: no demotion, disablement or deletion removes the last enabled    *)
(* administrator, a reset ends the sessions that exist, and a refused      *)
(* session stays refused.                                                  *)
(***************************************************************************)
EXTENDS Accounts, FiniteSetTheorems, TLAPS

(***************************************************************************)
(* Why LastAdmin needs help: CreateUser on an empty table would break it.  *)
(* That cannot happen because a request past its login belongs to a user   *)
(* row, which in turn rests on every session row belonging to one.         *)
(***************************************************************************)
Owned ==
  /\ \A s \in Session : session[s].status # "free" => session[s].user \in users
  /\ \A q \in Request : req[q].pc # "idle" => req[q].user \in users
  /\ \A q \in Request, s \in Session :
       req[q].session = s => session[s].status # "free"

Inv == TypeOK /\ Owned /\ LastAdmin /\ ResetEndsSessions

-----------------------------------------------------------------------------
\* Two users hold role-admin as soon as UpdateUser counts more than one.
LEMMA AnotherAdmin ==
  ASSUME NEW S, IsFiniteSet(S), NEW u \in S, ~(Cardinality(S) <= 1)
  PROVE  \E v \in S : v # u
<1> SUFFICES ASSUME S = {u} PROVE FALSE
  OBVIOUS
<1>1. Cardinality({u}) = 1
  BY FS_Singleton
<1> QED
  BY <1>1

\* UPDATE sessions in Revoked changes nothing but the status of live rows.
LEMMA RevokedRows ==
  ASSUME TypeOK, NEW u \in User
  PROVE  /\ Revoked(u) \in [Session -> SessionRow]
         /\ \A s \in Session :
              /\ Revoked(u)[s].user = session[s].user
              /\ Revoked(u)[s].born = session[s].born
              /\ Revoked(u)[s].expiry = session[s].expiry
              /\ Revoked(u)[s].status = "free" <=> session[s].status = "free"
              /\ Revoked(u)[s].status = "live" =>
                   session[s].status = "live" /\ session[s].user # u
  BY DEF TypeOK, Revoked, SessionRow

\* logout writes no column but revoked_at.
LEMMA LogoutRows ==
  ASSUME TypeOK, NEW q \in Request, Logout(q)
  PROVE  /\ session' \in [Session -> SessionRow]
         /\ \A s \in Session :
              /\ session'[s].user = session[s].user
              /\ session'[s].born = session[s].born
              /\ session'[s].expiry = session[s].expiry
              /\ session'[s] = session[s] \/ session'[s].status = "revoked"
<1>1. ASSUME NEW s \in Session
      PROVE  session'[s] = session[s] \/ session'[s] = [session[s] EXCEPT !.status = "revoked"]
  BY <1>1 DEF Logout, TypeOK
<1>2. session \in [Session -> SessionRow] /\ DOMAIN session' = Session
  BY DEF Logout, TypeOK
<1>3. ASSUME NEW s \in Session
      PROVE  [session[s] EXCEPT !.status = "revoked"] \in SessionRow
  BY <1>2 DEF SessionRow
<1>4. session' \in [Session -> SessionRow]
  BY <1>1, <1>2, <1>3 DEF Logout, TypeOK
<1> QED
  BY <1>1, <1>2, <1>4 DEF SessionRow

LEMMA InitInv == Init => Inv
<1> SUFFICES ASSUME Init PROVE Inv
  OBVIOUS
<1>1. TypeOK
  BY RoleAssumption, BoundAssumption
  DEF Init, TypeOK, NoRow, Idle, SessionRow, Expiry, RequestState
<1>2. Owned /\ LastAdmin /\ ResetEndsSessions
  BY SessionAssumption DEF Init, Owned, LastAdmin, ResetEndsSessions, NoRow, Idle
<1> QED
  BY <1>1, <1>2 DEF Inv

-----------------------------------------------------------------------------
LEMMA TypeStep == Inv /\ [Next]_vars => TypeOK'
<1> SUFFICES ASSUME Inv, [Next]_vars PROVE TypeOK'
  OBVIOUS
<1> USE BoundAssumption DEF Inv, TypeOK
<1>1. ASSUME NEW q \in Request, NEW u \in User, Authenticate(q, u) PROVE TypeOK'
  BY <1>1 DEF Authenticate, Idle, RequestState
<1>2. ASSUME NEW q \in Request, NEW s \in Session, CreateSession(q, s) PROVE TypeOK'
  <2>1. req[q].user \in users /\ req[q] \in RequestState
    BY <1>2 DEF CreateSession, Owned
  <2>2. session' \in [Session -> SessionRow]
    BY <1>2, <2>1 DEF CreateSession, SessionRow, Expiry, RequestState
  <2> QED
    BY <1>2, <2>2 DEF CreateSession, Finish, Idle, RequestState
<1>3. ASSUME NEW q \in Request, NEW s \in Session, ResolveSession(q, s) PROVE TypeOK'
  BY <1>3 DEF ResolveSession, Idle, RequestState, SessionRow
<1>4. ASSUME NEW q \in Request, GetUser(q) PROVE TypeOK'
  BY <1>4 DEF GetUser, RequestState
<1>5. ASSUME NEW q \in Request, RequirePermission(q) PROVE TypeOK'
  BY <1>5 DEF RequirePermission, RequestState
<1>6. ASSUME NEW q \in Request, Logout(q) PROVE TypeOK'
  <2>1. session' \in [Session -> SessionRow]
    BY <1>6, LogoutRows
  <2>2. req' \in [Request -> RequestState]
    BY <1>6 DEF Logout, Finish, Idle, RequestState
  <2> QED
    BY <1>6, <2>1, <2>2 DEF Logout
<1>7. ASSUME NEW q \in Request, Reject(q) PROVE TypeOK'
  BY <1>7 DEF Reject, Finish, Idle, RequestState
<1>8. ASSUME NEW q \in Request, NEW u \in User, NEW on \in BOOLEAN,
             NEW rs \in SUBSET Role, CreateUser(q, u, on, rs) PROVE TypeOK'
  BY <1>8 DEF CreateUser, Finish, Idle, RequestState
<1>9. ASSUME NEW q \in Request, NEW u \in User, NEW on \in BOOLEAN, NEW pw \in BOOLEAN,
             NEW rs \in SUBSET Role, UpdateUser(q, u, on, rs, pw) PROVE TypeOK'
  <2>1. hash' \in [User -> 0..MaxHash] /\ enabled' \subseteq users'
    BY <1>9 DEF UpdateUser
  <2>2. session' \in [Session -> SessionRow]
    BY <1>9, RevokedRows DEF UpdateUser
  <2> QED
    BY <1>9, <2>1, <2>2 DEF UpdateUser, Finish, Idle, RequestState
<1>10. ASSUME NEW q \in Request, NEW u \in User, RevokeUserSessions(q, u) PROVE TypeOK'
  BY <1>10, RevokedRows DEF RevokeUserSessions, Finish, Idle, RequestState
<1>11. ASSUME NEW q \in Request, NEW r \in Role, CreateRole(q, r) PROVE TypeOK'
  BY <1>11 DEF CreateRole, Finish, Idle, RequestState
<1>12. ASSUME NEW q \in Request, NEW r \in Role, DeleteRole(q, r) PROVE TypeOK'
  BY <1>12 DEF DeleteRole, Finish, Idle, RequestState
<1>13. ASSUME NEW u \in User, BootstrapAdmin(u) PROVE TypeOK'
  BY <1>13, RoleAssumption DEF BootstrapAdmin
<1>14. ASSUME NEW u \in User, RecoverPassword(u) PROVE TypeOK'
  BY <1>14, RevokedRows DEF RecoverPassword
<1>15. CASE Restart
  BY <1>15, RoleAssumption DEF Restart, Idle, RequestState
<1>16. ASSUME NEW s \in Session, Expire(s) PROVE TypeOK'
  BY <1>16 DEF Expire, SessionRow, Expiry
<1>17. CASE UNCHANGED vars
  BY <1>17 DEF vars
<1> QED
  BY <1>1, <1>2, <1>3, <1>4, <1>5, <1>6, <1>7, <1>8, <1>9, <1>10, <1>11, <1>12,
     <1>13, <1>14, <1>15, <1>16, <1>17 DEF Next, Handler, Host

LEMMA OwnedStep == Inv /\ [Next]_vars => Owned'
<1> SUFFICES ASSUME Inv, [Next]_vars PROVE Owned'
  OBVIOUS
<1> USE SessionAssumption DEF Inv, Owned
<1>1. ASSUME NEW q \in Request, NEW u \in User, Authenticate(q, u) PROVE Owned'
  BY <1>1 DEF Authenticate, TypeOK
<1>2. ASSUME NEW q \in Request, NEW s \in Session, CreateSession(q, s) PROVE Owned'
  BY <1>2 DEF CreateSession, Finish, Idle, TypeOK
<1>3. ASSUME NEW q \in Request, NEW s \in Session, ResolveSession(q, s) PROVE Owned'
  BY <1>3 DEF ResolveSession, TypeOK
<1>4. ASSUME NEW q \in Request, GetUser(q) PROVE Owned'
  BY <1>4 DEF GetUser, TypeOK, RequestState
<1>5. ASSUME NEW q \in Request, RequirePermission(q) PROVE Owned'
  BY <1>5 DEF RequirePermission, TypeOK, RequestState
<1>6. ASSUME NEW q \in Request, Logout(q) PROVE Owned'
  <2>1. \A s \in Session : session'[s].status # "free" => session'[s].user \in users
    <3> SUFFICES ASSUME NEW s \in Session, session'[s].status # "free"
                 PROVE  session'[s].user \in users
      OBVIOUS
    <3>1. session'[s] = session[s] \/ s = req[q].session
      BY <1>6 DEF Logout, TypeOK
    <3>2. CASE s = req[q].session
      <4>1. session[s].status # "free"
        BY <1>6, <3>2 DEF Logout
      <4> QED
        BY <1>6, <4>1, LogoutRows
    <3> QED
      BY <3>1, <3>2
  <2> QED
    BY <1>6, <2>1 DEF Logout, Finish, Idle, TypeOK
<1>7. ASSUME NEW q \in Request, Reject(q) PROVE Owned'
  BY <1>7 DEF Reject, Finish, Idle, TypeOK
<1>8. ASSUME NEW q \in Request, NEW u \in User, NEW on \in BOOLEAN,
             NEW rs \in SUBSET Role, CreateUser(q, u, on, rs) PROVE Owned'
  BY <1>8 DEF CreateUser, Finish, Idle, TypeOK
<1>9. ASSUME NEW q \in Request, NEW u \in User, NEW on \in BOOLEAN, NEW pw \in BOOLEAN,
             NEW rs \in SUBSET Role, UpdateUser(q, u, on, rs, pw) PROVE Owned'
  BY <1>9, RevokedRows DEF UpdateUser, Finish, Idle, TypeOK
<1>10. ASSUME NEW q \in Request, NEW u \in User, RevokeUserSessions(q, u) PROVE Owned'
  <2>1. \A s \in Session : /\ session'[s].user = session[s].user
                           /\ session'[s].status = "free" <=> session[s].status = "free"
    BY <1>10, RevokedRows DEF RevokeUserSessions
  <2> QED
    BY <1>10, <2>1 DEF RevokeUserSessions, Finish, Idle, TypeOK
<1>11. ASSUME NEW q \in Request, NEW r \in Role, CreateRole(q, r) PROVE Owned'
  BY <1>11 DEF CreateRole, Finish, Idle, TypeOK
<1>12. ASSUME NEW q \in Request, NEW r \in Role, DeleteRole(q, r) PROVE Owned'
  BY <1>12 DEF DeleteRole, Finish, Idle, TypeOK
<1>13. ASSUME NEW u \in User, BootstrapAdmin(u) PROVE Owned'
  BY <1>13 DEF BootstrapAdmin
<1>14. ASSUME NEW u \in User, RecoverPassword(u) PROVE Owned'
  BY <1>14, RevokedRows DEF RecoverPassword
<1>15. CASE Restart
  BY <1>15 DEF Restart, Idle
<1>16. ASSUME NEW s \in Session, Expire(s) PROVE Owned'
  BY <1>16 DEF Expire, TypeOK, SessionRow, Expiry
<1>17. CASE UNCHANGED vars
  BY <1>17 DEF vars
<1> QED
  BY <1>1, <1>2, <1>3, <1>4, <1>5, <1>6, <1>7, <1>8, <1>9, <1>10, <1>11, <1>12,
     <1>13, <1>14, <1>15, <1>16, <1>17 DEF Next, Handler, Host

-----------------------------------------------------------------------------
\* The transaction of UpdateUser leaves an enabled administrator.
LEMMA UpdateUserKeepsAdmin ==
  ASSUME Inv, NEW q \in Request, NEW u \in User, NEW on \in BOOLEAN,
         NEW pw \in BOOLEAN, NEW rs \in SUBSET Role, UpdateUser(q, u, on, rs, pw)
  PROVE  LastAdmin'
<1> USE DEF Inv, TypeOK
<1>1. \A v \in User : v # u => (v \in EnabledAdmins' <=> v \in EnabledAdmins)
  BY DEF UpdateUser, EnabledAdmins
<1>2. u \in users /\ EnabledAdmins # {} /\ EnabledAdmins \subseteq User
  BY DEF UpdateUser, LastAdmin, EnabledAdmins
<1>3. CASE u \in EnabledAdmins /\ (~on \/ AdminRole \notin rs)
  <2>1. ~(Cardinality(EnabledAdmins) <= 1)
    BY <1>3 DEF UpdateUser, DropsLastAdmin
  <2>2. IsFiniteSet(EnabledAdmins)
    BY <1>2, UserAssumption, FS_Subset
  <2>3. PICK v \in EnabledAdmins : v # u
    BY <1>3, <2>1, <2>2, AnotherAdmin
  <2> QED
    BY <1>1, <1>2, <2>3 DEF LastAdmin
<1>4. CASE u \in EnabledAdmins /\ on /\ AdminRole \in rs
  <2>1. u \in EnabledAdmins'
    BY <1>4 DEF UpdateUser, EnabledAdmins
  <2> QED
    BY <2>1 DEF LastAdmin
<1>5. CASE u \notin EnabledAdmins
  BY <1>1, <1>2, <1>5 DEF LastAdmin
<1> QED
  BY <1>3, <1>4, <1>5

LEMMA LastAdminStep == Inv /\ [Next]_vars => LastAdmin'
<1> SUFFICES ASSUME Inv, [Next]_vars PROVE LastAdmin'
  OBVIOUS
<1> USE DEF Inv
<1>1. ASSUME users' = users, enabled' = enabled, userRoles' = userRoles PROVE LastAdmin'
  BY <1>1 DEF LastAdmin, EnabledAdmins
<1>2. ASSUME NEW q \in Request, NEW u \in User, NEW on \in BOOLEAN,
             NEW rs \in SUBSET Role, CreateUser(q, u, on, rs) PROVE LastAdmin'
  <2>1. PICK v \in EnabledAdmins : TRUE
    BY <1>2 DEF CreateUser, Owned, LastAdmin
  <2>2. v # u /\ v \in EnabledAdmins'
    BY <1>2, <2>1 DEF CreateUser, EnabledAdmins, TypeOK
  <2> QED
    BY <2>2 DEF LastAdmin
<1>3. ASSUME NEW q \in Request, NEW u \in User, NEW on \in BOOLEAN, NEW pw \in BOOLEAN,
             NEW rs \in SUBSET Role, UpdateUser(q, u, on, rs, pw) PROVE LastAdmin'
  BY <1>3, UpdateUserKeepsAdmin
<1>4. ASSUME NEW q \in Request, NEW r \in Role, DeleteRole(q, r) PROVE LastAdmin'
  <2>1. EnabledAdmins' = EnabledAdmins
    BY <1>4, RoleAssumption DEF DeleteRole, EnabledAdmins, TypeOK
  <2> QED
    BY <1>4, <2>1 DEF DeleteRole, LastAdmin
<1>5. ASSUME NEW u \in User, BootstrapAdmin(u) PROVE LastAdmin'
  <2>1. u \in EnabledAdmins'
    BY <1>5 DEF BootstrapAdmin, EnabledAdmins, TypeOK
  <2> QED
    BY <2>1 DEF LastAdmin
<1> QED
  BY <1>1, <1>2, <1>3, <1>4, <1>5 DEF Next, Handler, Host, vars, Authenticate,
     CreateSession, ResolveSession, GetUser, RequirePermission, Logout, Reject,
     RevokeUserSessions, CreateRole, RecoverPassword, Restart, Expire

-----------------------------------------------------------------------------
LEMMA ResetStep == Inv /\ [Next]_vars => ResetEndsSessions'
<1> SUFFICES ASSUME Inv, [Next]_vars PROVE ResetEndsSessions'
  OBVIOUS
<1> USE DEF Inv, TypeOK
<1>1. ASSUME session' = session, hash' = hash PROVE ResetEndsSessions'
  BY <1>1 DEF ResetEndsSessions
<1>2. ASSUME NEW q \in Request, NEW s \in Session, CreateSession(q, s)
      PROVE  ResetEndsSessions'
  BY <1>2 DEF CreateSession, ResetEndsSessions
<1>3. ASSUME NEW q \in Request, Logout(q) PROVE ResetEndsSessions'
  <2>1. hash' = hash /\ \A s \in Session : session'[s] = session[s] \/ session'[s].status = "revoked"
    BY <1>3, LogoutRows DEF Logout
  <2> QED
    BY <2>1 DEF ResetEndsSessions
<1>4. ASSUME NEW q \in Request, NEW u \in User, NEW on \in BOOLEAN,
             NEW rs \in SUBSET Role, CreateUser(q, u, on, rs) PROVE ResetEndsSessions'
  BY <1>4 DEF CreateUser, Owned, ResetEndsSessions
<1>5. ASSUME NEW u \in User, session' = Revoked(u), \A v \in User : v # u => hash'[v] = hash[v]
      PROVE  ResetEndsSessions'
  <2> SUFFICES ASSUME NEW s \in Session, session'[s].status = "live"
               PROVE  session'[s].born = hash'[session'[s].user]
    BY DEF ResetEndsSessions
  <2>1. /\ session'[s].user = session[s].user
        /\ session'[s].born = session[s].born
        /\ session[s].status = "live" /\ session[s].user # u
    BY <1>5, RevokedRows
  <2> QED
    BY <1>5, <2>1 DEF Owned, ResetEndsSessions
<1>6. ASSUME NEW q \in Request, NEW u \in User, NEW on \in BOOLEAN, NEW pw \in BOOLEAN,
             NEW rs \in SUBSET Role, UpdateUser(q, u, on, rs, pw) PROVE ResetEndsSessions'
  BY <1>1, <1>5, <1>6 DEF UpdateUser
<1>7. ASSUME NEW q \in Request, NEW u \in User, RevokeUserSessions(q, u)
      PROVE  ResetEndsSessions'
  BY <1>5, <1>7 DEF RevokeUserSessions
<1>8. ASSUME NEW u \in User, BootstrapAdmin(u) PROVE ResetEndsSessions'
  BY <1>8 DEF BootstrapAdmin, Owned, ResetEndsSessions
<1>9. ASSUME NEW u \in User, RecoverPassword(u) PROVE ResetEndsSessions'
  BY <1>5, <1>9 DEF RecoverPassword
<1>10. ASSUME NEW s \in Session, Expire(s) PROVE ResetEndsSessions'
  BY <1>10 DEF Expire, ResetEndsSessions, SessionRow, Expiry
<1> QED
  BY <1>1, <1>2, <1>3, <1>4, <1>6, <1>7, <1>8, <1>9, <1>10
  DEF Next, Handler, Host, vars, Authenticate, ResolveSession, GetUser,
      RequirePermission, Reject, CreateRole, DeleteRole, Restart

-----------------------------------------------------------------------------
LEMMA InvStep == Inv /\ [Next]_vars => Inv'
  BY TypeStep, OwnedStep, LastAdminStep, ResetStep DEF Inv

LEMMA Invariance == Spec => []Inv
  BY InitInv, InvStep, PTL DEF Spec

\* Every reachable state of the store and of the handlers is well typed.
THEOREM TypeCorrect == Spec => []TypeOK
<1>1. Inv => TypeOK
  BY DEF Inv
<1> QED
  BY <1>1, Invariance, PTL

\* The rule behind ErrLastAdmin: an enabled administrator always remains.
THEOREM LastAdminAlways == Spec => []LastAdmin
<1>1. Inv => LastAdmin
  BY DEF Inv
<1> QED
  BY <1>1, Invariance, PTL

\* UpdateUser with a password, and RecoverPassword, leave no older session live.
THEOREM ResetEndsSessionsAlways == Spec => []ResetEndsSessions
<1>1. Inv => ResetEndsSessions
  BY DEF Inv
<1> QED
  BY <1>1, Invariance, PTL

-----------------------------------------------------------------------------
LEMMA RefusalStep == Inv /\ [Next]_vars => \A s \in Session : RefusedStays(s)
<1> SUFFICES ASSUME Inv, [Next]_vars, NEW s \in Session PROVE RefusedStays(s)
  OBVIOUS
<1> USE DEF Inv, TypeOK, RefusedStays, Resolvable
<1>0. session[s].expiry \in {"valid", "cut", "past"}
  BY DEF SessionRow, Expiry
\* A step that leaves the row's owner alone and revives no status, nor an
\* expiry whose second is over.
<1>1. ASSUME session'[s].user = session[s].user,
             session'[s].status = "live" => session[s].status = "live",
             session[s].expiry = "past" => session'[s].expiry = "past"
      PROVE  RefusedStays(s)
  BY <1>0, <1>1
<1>2. ASSUME session' = session PROVE RefusedStays(s)
  BY <1>1, <1>2
<1>3. ASSUME NEW q \in Request, NEW t \in Session, CreateSession(q, t) PROVE RefusedStays(s)
  BY <1>3 DEF CreateSession
<1>4. ASSUME NEW q \in Request, Logout(q) PROVE RefusedStays(s)
  BY <1>1, <1>4, LogoutRows
<1>5. ASSUME NEW u \in User, session' = Revoked(u) PROVE RefusedStays(s)
  BY <1>1, <1>5, RevokedRows
<1>6. ASSUME NEW q \in Request, NEW u \in User, NEW on \in BOOLEAN, NEW pw \in BOOLEAN,
             NEW rs \in SUBSET Role, UpdateUser(q, u, on, rs, pw) PROVE RefusedStays(s)
  BY <1>2, <1>5, <1>6 DEF UpdateUser
<1>7. ASSUME NEW t \in Session, Expire(t) PROVE RefusedStays(s)
  <2>1. /\ session'[s].user = session[s].user
        /\ session'[s].status = session[s].status
        /\ session[s].expiry = "past" => session'[s].expiry = "past"
    BY <1>7 DEF Expire, SessionRow, Expiry
  <2> QED
    BY <1>1, <2>1
<1> QED
  BY <1>2, <1>3, <1>4, <1>5, <1>6, <1>7
  DEF Next, Handler, Host, vars, Authenticate, ResolveSession, GetUser, CreateUser,
      RequirePermission, Reject, CreateRole, DeleteRole, RevokeUserSessions,
      BootstrapAdmin, RecoverPassword, Restart

(***************************************************************************)
(* A session that ResolveSession refuses stays refused, after logout,      *)
(* revocation, a reset or expiry, for any number of users and requests:    *)
(* only enabling its user revives it, or the clock while it is still in    *)
(* the second of expires_at.                                               *)
(***************************************************************************)
THEOREM RefusalIsFinalAlways == Spec => RefusalIsFinal
<1>1. Inv /\ [Next]_vars => [\A s \in Session : RefusedStays(s)]_vars
  BY RefusalStep
<1> QED
  BY <1>1, Invariance, PTL DEF Spec, RefusalIsFinal

-----------------------------------------------------------------------------
\* Logins that verified a password which has been replaced since.
InFlight(u) == {q \in Request : /\ req[q].pc = "verified"
                                /\ req[q].user = u
                                /\ req[q].hash < hash[u]}

(***************************************************************************)
(* StaleLoginsBounded is not inductive: a login in flight may add a stale  *)
(* session to any number of them.  What a reset leaves is shared between   *)
(* the stale sessions and the logins that may still become one.            *)
(***************************************************************************)
StaleOrInFlight(u) ==
  /\ IsFiniteSet(Stale(u))
  /\ Cardinality(Stale(u)) + Cardinality(InFlight(u)) <= Cardinality(Request)

StaleInv == \A u \in User : StaleOrInFlight(u)

LEMMA InFlightCount ==
  ASSUME NEW u
  PROVE  /\ IsFiniteSet(InFlight(u)) /\ Cardinality(InFlight(u)) \in Nat
         /\ Cardinality(InFlight(u)) <= Cardinality(Request)
         /\ IsFiniteSet(InFlight(u)') /\ Cardinality(InFlight(u)') \in Nat
         /\ Cardinality(InFlight(u)') <= Cardinality(Request)
<1>1. InFlight(u) \in SUBSET Request /\ InFlight(u)' \in SUBSET Request
  BY DEF InFlight
<1> QED
  BY <1>1, RequestAssumption, FS_Subset, FS_CardinalityType

\* A reset: no live session of the user is left.
LEMMA StaleReset ==
  ASSUME NEW u \in User,
         \A s \in Session : ~(session'[s].status = "live" /\ session'[s].user = u)
  PROVE  StaleOrInFlight(u)'
<1>1. Stale(u)' = {}
  BY DEF Stale
<1>2. IsFiniteSet({}) /\ Cardinality({}) = 0
  BY FS_EmptySet
<1> QED
  BY <1>1, <1>2, InFlightCount DEF StaleOrInFlight

\* No session row is added and no login comes with an old hash.
NoRowAdded ==
  \A s \in Session : session'[s].status = "live" =>
    /\ session[s].status = "live" /\ session'[s].user = session[s].user
    /\ session'[s].hash = session[s].hash
NoOldLogin ==
  \A q \in Request : req'[q].pc = "verified" =>
    \/ req'[q] = req[q]
    \/ req'[q].user \in User /\ req'[q].hash = hash[req'[q].user]

LEMMA StaleKept ==
  ASSUME TypeOK, NEW u \in User, StaleOrInFlight(u), hash'[u] = hash[u], NoRowAdded, NoOldLogin
  PROVE  StaleOrInFlight(u)'
<1>1. Stale(u)' \subseteq Stale(u)
  BY DEF Stale, NoRowAdded
<1>2. hash[u] \in Nat
  BY BoundAssumption DEF TypeOK
<1>3. InFlight(u)' \subseteq InFlight(u)
  BY <1>2 DEF InFlight, NoOldLogin
<1>4. /\ IsFiniteSet(Stale(u)') /\ Cardinality(Stale(u)') <= Cardinality(Stale(u))
      /\ Cardinality(Stale(u)') \in Nat /\ Cardinality(Stale(u)) \in Nat
  BY <1>1, FS_Subset, FS_CardinalityType DEF StaleOrInFlight
<1>5. Cardinality(InFlight(u)') <= Cardinality(InFlight(u))
  BY <1>3, InFlightCount, FS_Subset
<1>6. Cardinality(Request) \in Nat
  BY RequestAssumption, FS_CardinalityType
<1> QED
  BY <1>4, <1>5, <1>6, InFlightCount DEF StaleOrInFlight

\* A login in flight becomes a stale session, or one that is not.
LEMMA StaleLogin ==
  ASSUME Inv, NEW q \in Request, NEW s \in Session, CreateSession(q, s),
         NEW u \in User, StaleOrInFlight(u)
  PROVE  StaleOrInFlight(u)'
<1>1. /\ session \in [Session -> SessionRow] /\ req \in [Request -> RequestState]
      /\ hash' = hash /\ hash[u] \in Nat
      /\ req[q].pc = "verified" /\ session[s].status = "free"
  BY BoundAssumption DEF Inv, TypeOK, CreateSession
<1>2. /\ \A t \in Session \ {s} : session'[t] = session[t]
      /\ session'[s].status = "live" /\ session'[s].user = req[q].user
      /\ session'[s].hash = req[q].hash
  BY <1>1 DEF CreateSession
<1>3. (\A p \in Request \ {q} : req'[p] = req[p]) /\ req'[q].pc = "idle"
  BY <1>1 DEF CreateSession, Finish, Idle
<1>4. s \notin Stale(u) /\ IsFiniteSet(Stale(u)) /\ Cardinality(Stale(u)) \in Nat
  BY <1>1, FS_CardinalityType DEF Stale, StaleOrInFlight
<1>5. CASE q \in InFlight(u)
  <2>1. Stale(u)' = Stale(u) \cup {s}
    BY <1>1, <1>2, <1>5 DEF Stale, InFlight
  <2>2. InFlight(u)' = InFlight(u) \ {q}
    BY <1>1, <1>3 DEF InFlight
  <2>3. IsFiniteSet(Stale(u)') /\ Cardinality(Stale(u)') = Cardinality(Stale(u)) + 1
    BY <1>4, <2>1, FS_AddElement
  <2>4. Cardinality(InFlight(u)') = Cardinality(InFlight(u)) - 1
    BY <1>5, <2>2, InFlightCount, FS_RemoveElement
  <2> QED
    BY <1>4, <2>3, <2>4, InFlightCount DEF StaleOrInFlight
<1>6. CASE q \notin InFlight(u)
  <2>1. Stale(u)' = Stale(u)
    BY <1>1, <1>2, <1>4, <1>6 DEF Stale, InFlight
  <2>2. InFlight(u)' = InFlight(u)
    BY <1>1, <1>3, <1>6 DEF InFlight
  <2> QED
    BY <2>1, <2>2 DEF StaleOrInFlight
<1> QED
  BY <1>5, <1>6

LEMMA StaleStep == Inv /\ StaleInv /\ [Next]_vars => StaleInv'
<1> SUFFICES ASSUME Inv, StaleInv, [Next]_vars, NEW u \in User PROVE StaleOrInFlight(u)'
  BY DEF StaleInv
<1> USE DEF Inv
<1>1. ASSUME hash'[u] = hash[u], NoRowAdded, NoOldLogin PROVE StaleOrInFlight(u)'
  BY <1>1, StaleKept DEF StaleInv
<1>2. ASSUME NEW v \in User
      PROVE  \A s \in Session : Revoked(v)[s].status = "live" =>
               Revoked(v)[s] = session[s] /\ session[s].user # v
  BY <1>2 DEF Revoked, TypeOK, SessionRow
\* What leaves the rows alone, and what leaves the logins alone.
<1>r. session' = session => NoRowAdded
  BY DEF NoRowAdded
<1>q. ASSUME NEW q \in Request, Finish(q) PROVE NoOldLogin
  BY <1>q DEF Finish, Idle, NoOldLogin, TypeOK
<1>3. ASSUME NEW q \in Request, NEW v \in User, Authenticate(q, v) PROVE StaleOrInFlight(u)'
  <2>1. NoOldLogin
    BY <1>3 DEF Authenticate, NoOldLogin, TypeOK
  <2> QED
    BY <1>1, <1>3, <1>r, <2>1 DEF Authenticate
<1>4. ASSUME NEW q \in Request, NEW s \in Session, CreateSession(q, s)
      PROVE  StaleOrInFlight(u)'
  BY <1>4, StaleLogin DEF StaleInv
<1>5. ASSUME NEW q \in Request, NEW s \in Session, ResolveSession(q, s)
      PROVE  StaleOrInFlight(u)'
  <2>1. NoOldLogin
    BY <1>5 DEF ResolveSession, NoOldLogin, TypeOK
  <2> QED
    BY <1>1, <1>5, <1>r, <2>1 DEF ResolveSession
<1>6. ASSUME NEW q \in Request, GetUser(q) \/ RequirePermission(q) PROVE StaleOrInFlight(u)'
  <2>1. \A p \in Request : req'[p] = req[p] \/ req'[p].pc \in {"user", "permitted"}
    BY <1>6 DEF GetUser, RequirePermission, TypeOK, RequestState
  <2>2. NoOldLogin
    BY <2>1 DEF NoOldLogin
  <2> QED
    BY <1>1, <1>6, <1>r, <2>2 DEF GetUser, RequirePermission
<1>7. ASSUME NEW q \in Request, Logout(q) PROVE StaleOrInFlight(u)'
  <2>1. NoRowAdded
    BY <1>7, LogoutRows DEF NoRowAdded
  <2> QED
    BY <1>1, <1>7, <1>q, <2>1 DEF Logout
<1>8. ASSUME NEW q \in Request,
             Reject(q) \/ \E r \in Role : CreateRole(q, r) \/ DeleteRole(q, r)
      PROVE  StaleOrInFlight(u)'
  BY <1>1, <1>8, <1>r, <1>q DEF Reject, CreateRole, DeleteRole
<1>9. ASSUME NEW q \in Request, NEW v \in User, NEW on \in BOOLEAN,
             NEW rs \in SUBSET Role, CreateUser(q, v, on, rs) PROVE StaleOrInFlight(u)'
  <2>1. CASE u = v
    BY <1>9, <2>1, StaleReset DEF CreateUser, Owned
  <2>2. CASE u # v
    BY <1>1, <1>9, <1>r, <1>q, <2>2 DEF CreateUser, TypeOK
  <2> QED
    BY <2>1, <2>2
<1>10. ASSUME NEW v \in User, session' = Revoked(v), NoOldLogin,
              \A w \in User \ {v} : hash'[w] = hash[w]
       PROVE  StaleOrInFlight(u)'
  <2>1. CASE u = v
    BY <1>2, <1>10, <2>1, StaleReset
  <2>2. CASE u # v
    <3>1. NoRowAdded
      BY <1>2, <1>10 DEF NoRowAdded
    <3> QED
      BY <1>1, <1>10, <2>2, <3>1
  <2> QED
    BY <2>1, <2>2
<1>11. ASSUME NEW q \in Request, NEW v \in User, NEW on \in BOOLEAN, NEW pw \in BOOLEAN,
              NEW rs \in SUBSET Role, UpdateUser(q, v, on, rs, pw) PROVE StaleOrInFlight(u)'
  <2>1. CASE pw
    BY <1>10, <1>11, <1>q, <2>1 DEF UpdateUser, TypeOK
  <2>2. CASE ~pw
    BY <1>1, <1>11, <1>r, <1>q, <2>2 DEF UpdateUser
  <2> QED
    BY <2>1, <2>2
<1>12. ASSUME NEW q \in Request, NEW v \in User, RevokeUserSessions(q, v)
       PROVE  StaleOrInFlight(u)'
  BY <1>10, <1>12, <1>q DEF RevokeUserSessions
<1>13. ASSUME NEW v \in User, BootstrapAdmin(v) PROVE StaleOrInFlight(u)'
  <2>1. \A s \in Session : session'[s].status # "live"
    BY <1>13 DEF BootstrapAdmin, Owned
  <2> QED
    BY <2>1, StaleReset
<1>14. ASSUME NEW v \in User, RecoverPassword(v) PROVE StaleOrInFlight(u)'
  <2>1. NoOldLogin
    BY <1>14 DEF RecoverPassword, NoOldLogin
  <2> QED
    BY <1>10, <1>14, <2>1 DEF RecoverPassword, TypeOK
<1>15. ASSUME NEW s \in Session, Expire(s) PROVE StaleOrInFlight(u)'
  <2>1. NoRowAdded
    BY <1>15 DEF Expire, NoRowAdded, TypeOK, SessionRow, Expiry
  <2>2. NoOldLogin
    BY <1>15 DEF Expire, NoOldLogin
  <2> QED
    BY <1>1, <1>15, <2>1, <2>2 DEF Expire
<1>16. CASE Restart
  <2>1. NoOldLogin
    BY <1>16 DEF Restart, Idle, NoOldLogin
  <2> QED
    BY <1>1, <1>16, <1>r, <2>1 DEF Restart
<1>17. CASE UNCHANGED vars
  <2>1. NoOldLogin
    BY <1>17 DEF vars, NoOldLogin
  <2> QED
    BY <1>1, <1>17, <1>r, <2>1 DEF vars
<1> QED
  BY <1>3, <1>4, <1>5, <1>6, <1>7, <1>8, <1>9, <1>11, <1>12, <1>13, <1>14, <1>15, <1>16, <1>17
  DEF Next, Handler, Host

(***************************************************************************)
(* However many resets run against logins, a user never has more live      *)
(* sessions opened with a replaced password than there are requests: only  *)
(* logins between Authenticate and CreateSession at the reset add one.     *)
(***************************************************************************)
THEOREM StaleLoginsBoundedAlways == Spec => []StaleLoginsBounded
<1>1. Init => StaleInv
  <2> SUFFICES ASSUME Init, NEW u \in User PROVE StaleOrInFlight(u)
    BY DEF StaleInv
  <2>1. Stale(u) = {} /\ IsFiniteSet({}) /\ Cardinality({}) = 0
    BY FS_EmptySet DEF Init, Stale, NoRow
  <2> QED
    BY <2>1, InFlightCount DEF StaleOrInFlight
<1>2. StaleInv => StaleLoginsBounded
  <2> SUFFICES ASSUME StaleInv, NEW u \in User
               PROVE  Cardinality(Stale(u)) <= Cardinality(Request)
    BY DEF StaleLoginsBounded
  <2>1. Cardinality(Stale(u)) \in Nat /\ Cardinality(Request) \in Nat
    BY RequestAssumption, FS_CardinalityType DEF StaleInv, StaleOrInFlight
  <2> QED
    BY <2>1, InFlightCount DEF StaleInv, StaleOrInFlight
<1> QED
  BY <1>1, <1>2, Invariance, StaleStep, PTL DEF Spec
=============================================================================
