------------------------------ MODULE Accounts ------------------------------
(***************************************************************************)
(* Users, role assignments and login sessions of the DockerView server:    *)
(* the tables users, user_roles, roles and sessions of                     *)
(* internal/database/database.go, and the HTTP handlers of                 *)
(* internal/api/server.go that read and write them.                        *)
(*                                                                         *)
(* The store has a single SQLite connection (SetMaxOpenConns(1)), so one   *)
(* statement, or one transaction, is one step.  A handler runs several     *)
(* statements and other handlers run between them: each request is a       *)
(* process with a pc.                                                      *)
(*                                                                         *)
(* A stored password hash is a version number: HashPassword draws a fresh  *)
(* salt, so each one written is a value that never occurred before.        *)
(* Which permission a role carries is RoleStore's matter: any role may be  *)
(* given user.manage there, so here every role a user holds may carry it.  *)
(***************************************************************************)
EXTENDS Naturals, FiniteSets

CONSTANTS User,        \* user ids
          Session,     \* session tokens
          Request,     \* concurrent HTTP requests
          Role,        \* role ids
          BuiltinRole, \* the roles seed() creates with builtin=1
          AdminRole,   \* 'role-admin'
          None,        \* no user, no session
          MaxHash      \* bound: password hashes written per user

ASSUME UserAssumption == IsFiniteSet(User) /\ None \notin User
ASSUME RoleAssumption == AdminRole \in BuiltinRole /\ BuiltinRole \subseteq Role
ASSUME SessionAssumption == None \notin Session
ASSUME RequestAssumption == IsFiniteSet(Request)
ASSUME BoundAssumption == MaxHash \in Nat

VARIABLES users,     \* ids of the rows of table users
          enabled,   \* users with enabled=1
          hash,      \* version of users.password_hash
          roles,     \* ids of the rows of table roles
          userRoles, \* table user_roles
          session,   \* table sessions
          req        \* the requests being handled

vars == <<users, enabled, hash, roles, userRoles, session, req>>

(***************************************************************************)
(* A row of table sessions.  'hash' is the password version the login      *)
(* verified and 'born' the version stored when the row was inserted: both  *)
(* are history, the code stores neither.  'expiry' is what the comparison  *)
(* of expires_at with now() says: "valid"; "cut", refused while the clock  *)
(* is in the very second of expires_at; "past", refused after it.          *)
(***************************************************************************)
Expiry == {"valid", "cut", "past"}

SessionRow == [status: {"free", "live", "revoked"}, user: User \cup {None},
               expiry: Expiry, hash: 0..MaxHash, born: 0..MaxHash]

NoRow == [status |-> "free", user |-> None, expiry |-> "valid",
          hash |-> 0, born |-> 0]

RequestState == [pc: {"idle", "verified", "session", "user", "permitted"},
                 user: User \cup {None}, session: Session \cup {None},
                 hash: 0..MaxHash]

Idle == [pc |-> "idle", user |-> None, session |-> None, hash |-> 0]

TypeOK ==
  /\ users \subseteq User
  /\ enabled \subseteq users
  /\ hash \in [User -> 0..MaxHash]
  /\ roles \subseteq Role
  /\ userRoles \in [User -> SUBSET Role]
  /\ session \in [Session -> SessionRow]
  /\ req \in [Request -> RequestState]

\* A fresh database after Open and seed(): the built-in roles and no user.
Init ==
  /\ users = {}
  /\ enabled = {}
  /\ hash = [u \in User |-> 0]
  /\ roles = BuiltinRole
  /\ userRoles = [u \in User |-> {}]
  /\ session = [s \in Session |-> NoRow]
  /\ req = [q \in Request |-> Idle]

-----------------------------------------------------------------------------
EnabledAdmins == {u \in enabled : AdminRole \in userRoles[u]}

\* Mutant of Revoked: the sessions are left alone.
RevokedNone(u) == session

\* UPDATE sessions SET revoked_at=? WHERE user_id=? AND revoked_at IS NULL
Revoked(u) ==
  [s \in Session |-> IF session[s].status = "live" /\ session[s].user = u
                     THEN [session[s] EXCEPT !.status = "revoked"]
                     ELSE session[s]]

Finish(q) == req' = [req EXCEPT ![q] = Idle]

-----------------------------------------------------------------------------
(***************************************************************************)
(* Login: Authenticate reads the row and verifies the password against it; *)
(* CreateSession inserts the session later, without looking again.         *)
(***************************************************************************)
Authenticate(q, u) ==
  /\ req[q].pc = "idle"
  /\ u \in enabled
  /\ req' = [req EXCEPT ![q] = [pc |-> "verified", user |-> u,
                                 session |-> None, hash |-> hash[u]]]
  /\ UNCHANGED <<users, enabled, hash, roles, userRoles, session>>

\* Mutant of CreateSession: the row of an ended session is written over.
CreateSessionOver(q, s) ==
  /\ req[q].pc = "verified"
  /\ session[s].status # "live"
  /\ session' = [session EXCEPT ![s] =
       [status |-> "live", user |-> req[q].user, expiry |-> "valid",
        hash |-> req[q].hash, born |-> hash[req[q].user]]]
  /\ Finish(q)
  /\ UNCHANGED <<users, enabled, hash, roles, userRoles>>

CreateSession(q, s) ==
  /\ req[q].pc = "verified"
  /\ session[s].status = "free"
  /\ session' = [session EXCEPT ![s] =
       [status |-> "live", user |-> req[q].user, expiry |-> "valid",
        hash |-> req[q].hash, born |-> hash[req[q].user]]]
  /\ Finish(q)
  /\ UNCHANGED <<users, enabled, hash, roles, userRoles>>

(***************************************************************************)
(* requireSession and requirePermission: ResolveSession reads the session  *)
(* row, GetUser the user row and then the roles, one statement each.       *)
(***************************************************************************)
ResolveSession(q, s) ==
  /\ req[q].pc = "idle"
  /\ session[s].status = "live"
  /\ session[s].expiry = "valid"
  /\ req' = [req EXCEPT ![q] = [pc |-> "session", user |-> session[s].user,
                                 session |-> s, hash |-> 0]]
  /\ UNCHANGED <<users, enabled, hash, roles, userRoles, session>>

GetUser(q) ==
  /\ req[q].pc = "session"
  /\ req[q].user \in enabled
  /\ req' = [req EXCEPT ![q].pc = "user"]
  /\ UNCHANGED <<users, enabled, hash, roles, userRoles, session>>

RequirePermission(q) ==
  /\ req[q].pc = "user"
  /\ userRoles[req[q].user] # {}
  /\ req' = [req EXCEPT ![q].pc = "permitted"]
  /\ UNCHANGED <<users, enabled, hash, roles, userRoles, session>>

\* logout needs a session and no permission; it revokes the cookie's row.
Logout(q) ==
  /\ req[q].pc = "user"
  /\ session' = [session EXCEPT ![req[q].session].status = "revoked"]
  /\ Finish(q)
  /\ UNCHANGED <<users, enabled, hash, roles, userRoles>>

(***************************************************************************)
(* The request ends without a change: a failed check (401, 403, 404, 409,  *)
(* 429), a rejected password, an unknown role (the transaction rolls       *)
(* back), a client that went away.                                         *)
(***************************************************************************)
Reject(q) ==
  /\ req[q].pc # "idle"
  /\ Finish(q)
  /\ UNCHANGED <<users, enabled, hash, roles, userRoles, session>>

-----------------------------------------------------------------------------
CreateUser(q, u, on, rs) ==
  /\ req[q].pc = "permitted"
  /\ u \notin users
  /\ rs \subseteq roles
  /\ MaxHash > 0
  /\ users' = users \cup {u}
  /\ enabled' = IF on THEN enabled \cup {u} ELSE enabled
  /\ hash' = [hash EXCEPT ![u] = 1]
  /\ userRoles' = [userRoles EXCEPT ![u] = rs]
  /\ Finish(q)
  /\ UNCHANGED <<roles, session>>

\* Mutant of DropsLastAdmin: off by one.
DropsLastAdminLate(u, on, newRoles) ==
  /\ u \in EnabledAdmins
  /\ ~on \/ AdminRole \notin newRoles
  /\ Cardinality(EnabledAdmins) < 1

\* The rule of UpdateUser: the last enabled administrator is kept.
DropsLastAdmin(u, on, newRoles) ==
  /\ u \in EnabledAdmins
  /\ ~on \/ AdminRole \notin newRoles
  /\ Cardinality(EnabledAdmins) <= 1

\* Mutant of UpdateUser: the lookup of the user is dropped.
UpdateUserUnseen(q, u, on, rs, pw) ==
  /\ req[q].pc = "permitted"
  /\ rs = userRoles[u] \/ rs \subseteq roles
  /\ ~DropsLastAdmin(u, on, rs)
  /\ pw => hash[u] < MaxHash
  /\ enabled' = IF on THEN enabled \cup {u} ELSE enabled \ {u}
  /\ hash' = IF pw THEN [hash EXCEPT ![u] = @ + 1] ELSE hash
  /\ session' = IF pw THEN Revoked(u) ELSE session
  /\ userRoles' = [userRoles EXCEPT ![u] = rs]
  /\ Finish(q)
  /\ UNCHANGED <<users, roles>>

(***************************************************************************)
(* UpdateUser, one transaction: 'on' and 'rs' are the flag and the roles   *)
(* after it (the stored ones where the request leaves a field out), 'pw'   *)
(* says that the request carries a password.                               *)
(***************************************************************************)
UpdateUser(q, u, on, rs, pw) ==
  /\ req[q].pc = "permitted"
  /\ u \in users
  /\ rs = userRoles[u] \/ rs \subseteq roles
  /\ ~DropsLastAdmin(u, on, rs)
  /\ pw => hash[u] < MaxHash
  /\ enabled' = IF on THEN enabled \cup {u} ELSE enabled \ {u}
  /\ hash' = IF pw THEN [hash EXCEPT ![u] = @ + 1] ELSE hash
  /\ session' = IF pw THEN Revoked(u) ELSE session
  /\ userRoles' = [userRoles EXCEPT ![u] = rs]
  /\ Finish(q)
  /\ UNCHANGED <<users, roles>>

RevokeUserSessions(q, u) ==
  /\ req[q].pc = "permitted"
  /\ session' = Revoked(u)
  /\ Finish(q)
  /\ UNCHANGED <<users, enabled, hash, roles, userRoles>>

\* The INSERT of SaveRole; its permissions are RoleStore's matter.
CreateRole(q, r) ==
  /\ req[q].pc = "permitted"
  /\ r \notin roles
  /\ roles' = roles \cup {r}
  /\ Finish(q)
  /\ UNCHANGED <<users, enabled, hash, userRoles, session>>

\* DELETE ... WHERE builtin=0, cascading to user_roles.
DeleteRole(q, r) ==
  /\ req[q].pc = "permitted"
  /\ r \in roles \ BuiltinRole
  /\ roles' = roles \ {r}
  /\ userRoles' = [u \in User |-> userRoles[u] \ {r}]
  /\ Finish(q)
  /\ UNCHANGED <<users, enabled, hash, session>>

-----------------------------------------------------------------------------
(***************************************************************************)
(* The host commands run in a process of their own on the same database.   *)
(* BootstrapAdmin inserts WHERE NOT EXISTS(SELECT 1 FROM users).           *)
(***************************************************************************)
BootstrapAdmin(u) ==
  /\ users = {}
  /\ MaxHash > 0
  /\ users' = {u}
  /\ enabled' = {u}
  /\ hash' = [hash EXCEPT ![u] = 1]
  /\ userRoles' = [userRoles EXCEPT ![u] = {AdminRole}]
  /\ UNCHANGED <<roles, session, req>>

RecoverPassword(u) ==
  /\ u \in enabled
  /\ hash[u] < MaxHash
  /\ hash' = [hash EXCEPT ![u] = @ + 1]
  /\ session' = Revoked(u)
  /\ UNCHANGED <<users, enabled, roles, userRoles, req>>

(***************************************************************************)
(* Time passes.  ResolveSession compares texts, expires_at > now(), and    *)
(* within one second their order is not that of the instants (Timestamps): *)
(* until the second is over a refused session may be valid again.          *)
(***************************************************************************)
Expire(s) ==
  /\ session[s].status # "free"
  /\ session[s].expiry # "past"
  /\ \E e \in Expiry \ {session[s].expiry} :
       session' = [session EXCEPT ![s].expiry = e]
  /\ UNCHANGED <<users, enabled, hash, roles, userRoles, req>>

\* The server stops and starts again: requests are lost, tables stay, and
\* seed() finds its roles present.
Restart ==
  /\ roles' = roles \cup BuiltinRole
  /\ req' = [q \in Request |-> Idle]
  /\ UNCHANGED <<users, enabled, hash, userRoles, session>>

-----------------------------------------------------------------------------
Handler(q) ==
  \/ \E u \in User : Authenticate(q, u)
  \/ \E s \in Session : CreateSession(q, s)
  \/ \E s \in Session : ResolveSession(q, s)
  \/ GetUser(q)
  \/ RequirePermission(q)
  \/ Logout(q)
  \/ Reject(q)
  \/ \E u \in User, on \in BOOLEAN, rs \in SUBSET Role : CreateUser(q, u, on, rs)
  \/ \E u \in User, on, pw \in BOOLEAN, rs \in SUBSET Role :
       UpdateUser(q, u, on, rs, pw)
  \/ \E u \in User : RevokeUserSessions(q, u)
  \/ \E r \in Role : CreateRole(q, r)
  \/ \E r \in Role : DeleteRole(q, r)

Host ==
  \/ \E u \in User : BootstrapAdmin(u)
  \/ \E u \in User : RecoverPassword(u)
  \/ Restart

Next ==
  \/ \E q \in Request : Handler(q)
  \/ Host
  \/ \E s \in Session : Expire(s)

Spec == Init /\ [][Next]_vars

-----------------------------------------------------------------------------
(***************************************************************************)
(* The rule behind ErrLastAdmin: once a user exists there is an enabled    *)
(* user who holds role-admin, whatever requests demote, disable or delete  *)
(* concurrently (UpdateUser counts and writes in one transaction).         *)
(***************************************************************************)
LastAdmin == users # {} => EnabledAdmins # {}

(***************************************************************************)
(* A password reset, by an administrator or from the host, revokes every   *)
(* session row that existed: a row still live was inserted after the last  *)
(* reset of its user.                                                      *)
(***************************************************************************)
ResetEndsSessions ==
  \A s \in Session : session[s].status = "live" =>
                        session[s].born = hash[session[s].user]

Stale(u) == {s \in Session : /\ session[s].status = "live"
                             /\ session[s].user = u
                             /\ session[s].hash < hash[u]}

(***************************************************************************)
(* A login reads the hash in one statement and inserts the session in a    *)
(* later one, so a reset between the two leaves a live session that was    *)
(* opened with the old password.  Only requests in flight at the reset can *)
(* do that: there are never more such sessions than requests.              *)
(***************************************************************************)
StaleLoginsBounded ==
  \A u \in User : Cardinality(Stale(u)) <= Cardinality(Request)

Resolvable(s) == /\ session[s].status = "live"
                 /\ session[s].expiry = "valid"
                 /\ session[s].user \in enabled

RefusedStays(s) ==
  (session[s].status # "free" /\ Resolvable(s)') =>
     /\ session'[s].user = session[s].user
     /\ ~Resolvable(s) => \/ session[s].user \in enabled' \ enabled
                          \/ session[s].expiry = "cut"

(***************************************************************************)
(* A session that ResolveSession refuses is accepted again in two cases    *)
(* only: its user was disabled and an administrator enables the user, or   *)
(* it was refused within the very second of its expires_at.  Logout,       *)
(* revocation and a reset are final, expiry is once its second is over,    *)
(* and a token never changes its owner.                                    *)
(***************************************************************************)
RefusalIsFinal == [][\A s \in Session : RefusedStays(s)]_vars
=============================================================================
