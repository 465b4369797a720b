----------------------------- MODULE RoleStore -----------------------------
(***************************************************************************)
(* Roles and their permissions: the tables roles and role_permissions of   *)
(* internal/database/database.go, the handlers saveRole and deleteRole of  *)
(* internal/api/server.go, and seed(), which every Open runs.              *)
(*                                                                         *)
(* SaveRole is not one transaction: the role row is inserted, or looked up *)
(* and updated, in statements of their own; only the permissions are       *)
(* replaced in a transaction.  The audit event is written after that.      *)
(***************************************************************************)
EXTENDS Naturals, FiniteSets

CONSTANTS Role, Name, Perm, Request, Absent,
          Builtin,     \* role ids of seed()
          BuiltinName, \* their names
          Default      \* the permissions seed() gives them

ASSUME BuiltinAssumption ==
  /\ Builtin \subseteq Role
  /\ BuiltinName \in [Builtin -> Name]
  /\ \A r, s \in Builtin : BuiltinName[r] = BuiltinName[s] => r = s
  /\ Default \in [Builtin -> SUBSET Perm]
ASSUME AbsentAssumption == Absent \notin Role /\ Absent \notin Name

VARIABLES name,   \* table roles: the name of each row, Absent without a row
          perms,  \* table role_permissions
          req,    \* the requests being handled
          missed  \* history: requests that changed a table and ended in an
                  \* error answer, for which no audit event is written

roleVars == <<name, perms, req, missed>>

\* 'bad': the body lists a permission outside the catalogue, or one twice.
RequestState ==
  [pc: {"idle", "update", "perms", "audit"}, role: Role \cup {Absent},
   name: Name \cup {Absent}, perms: SUBSET Perm, bad: BOOLEAN, wrote: BOOLEAN]

Idle == [pc |-> "idle", role |-> Absent, name |-> Absent, perms |-> {},
         bad |-> FALSE, wrote |-> FALSE]

RoleTypeOK ==
  /\ name \in [Role -> Name \cup {Absent}]
  /\ perms \in [Role -> SUBSET Perm]
  /\ req \in [Request -> RequestState]
  /\ missed \subseteq Request

Exists(r) == name[r] # Absent

\* Mutant of Seeded: the permissions of built-in roles are set to the defaults.
SeededReset(p) == [r \in Role |-> IF r \in Builtin THEN Default[r] ELSE p[r]]

\* INSERT OR IGNORE of the built-in roles and of their default permissions.
Seeded(p) == [r \in Role |-> IF r \in Builtin THEN p[r] \cup Default[r] ELSE p[r]]

RoleInit ==
  /\ name = [r \in Role |-> IF r \in Builtin THEN BuiltinName[r] ELSE Absent]
  /\ perms = Seeded([r \in Role |-> {}])
  /\ req = [q \in Request |-> Idle]
  /\ missed = {}

-----------------------------------------------------------------------------
Taken(n, r) == \E s \in Role \ {r} : name[s] = n

\* The handler answers 400: no audit event, whatever was written before.
Refuse(q) ==
  /\ req' = [req EXCEPT ![q] = Idle]
  /\ missed' = IF req[q].wrote THEN missed \cup {q} ELSE missed

\* POST /roles: INSERT INTO roles.
InsertRole(q, r, n, ps, bad) ==
  /\ req[q].pc = "idle"
  /\ ~Exists(r) /\ ~Taken(n, r)
  /\ name' = [name EXCEPT ![r] = n]
  /\ req' = [req EXCEPT ![q] = [pc |-> "perms", role |-> r, name |-> n,
                                perms |-> ps, bad |-> bad, wrote |-> TRUE]]
  /\ UNCHANGED <<perms, missed>>

\* Mutant of LookupRole: a built-in role may be renamed.
LookupRoleAny(q, r, n, ps, bad) ==
  /\ req[q].pc = "idle"
  /\ Exists(r)
  /\ req' = [req EXCEPT ![q] = [pc |-> "update", role |-> r, name |-> n,
                                perms |-> ps, bad |-> bad, wrote |-> FALSE]]
  /\ UNCHANGED <<name, perms, missed>>

\* PUT /roles/{id}: SELECT name,builtin; a built-in role keeps its name.
LookupRole(q, r, n, ps, bad) ==
  /\ req[q].pc = "idle"
  /\ Exists(r)
  /\ r \in Builtin => n = name[r]
  /\ req' = [req EXCEPT ![q] = [pc |-> "update", role |-> r, name |-> n,
                                perms |-> ps, bad |-> bad, wrote |-> FALSE]]
  /\ UNCHANGED <<name, perms, missed>>

\* UPDATE roles SET name=?: a name in use is an error; a row that has been
\* deleted meanwhile is not, the statement matches nothing.
UpdateRole(q) ==
  LET r == req[q].role
  IN  /\ req[q].pc = "update"
      /\ UNCHANGED perms
      /\ \/ /\ Exists(r) /\ ~Taken(req[q].name, r)
            /\ name' = [name EXCEPT ![r] = req[q].name]
            /\ req' = [req EXCEPT ![q].pc = "perms", ![q].wrote = name[r] # req[q].name]
            /\ UNCHANGED missed
         \/ /\ ~Exists(r)
            /\ req' = [req EXCEPT ![q].pc = "perms"]
            /\ UNCHANGED <<name, missed>>
         \/ /\ Exists(r) /\ Taken(req[q].name, r)
            /\ Refuse(q)
            /\ UNCHANGED name

\* Mutant of ReplacePerms: the foreign key is not enforced.
ReplacePermsUnbound(q) ==
  LET r == req[q].role
  IN  /\ req[q].pc = "perms"
      /\ UNCHANGED name
      /\ \/ /\ ~req[q].bad
            /\ perms' = [perms EXCEPT ![r] = req[q].perms]
            /\ req' = [req EXCEPT ![q].pc = "audit"]
            /\ UNCHANGED missed
         \/ /\ req[q].bad
            /\ Refuse(q)
            /\ UNCHANGED perms

\* DELETE and INSERT of role_permissions in one transaction, rolled back on
\* a bad permission or when the foreign key finds no role.
ReplacePerms(q) ==
  LET r == req[q].role
      fails == req[q].bad \/ (~Exists(r) /\ req[q].perms # {})
  IN  /\ req[q].pc = "perms"
      /\ UNCHANGED name
      /\ \/ /\ ~fails
            /\ perms' = [perms EXCEPT ![r] = req[q].perms]
            /\ req' = [req EXCEPT ![q].pc = "audit"]
            /\ UNCHANGED missed
         \/ /\ fails
            /\ Refuse(q)
            /\ UNCHANGED perms

\* DELETE FROM roles WHERE id=? AND builtin=0, cascading.
DeleteRole(q, r) ==
  /\ req[q].pc = "idle"
  /\ Exists(r) /\ r \notin Builtin
  /\ name' = [name EXCEPT ![r] = Absent]
  /\ perms' = [perms EXCEPT ![r] = {}]
  /\ req' = [req EXCEPT ![q] = [Idle EXCEPT !.pc = "audit", !.role = r]]
  /\ UNCHANGED missed

\* ROLE_CREATE, ROLE_UPDATE or ROLE_DELETE.
Audit(q) ==
  /\ req[q].pc = "audit"
  /\ req' = [req EXCEPT ![q] = Idle]
  /\ UNCHANGED <<name, perms, missed>>

\* The client goes away: the statements of SaveRole fail with its context.
Cancel(q) ==
  /\ req[q].pc \in {"update", "perms"}
  /\ Refuse(q)
  /\ UNCHANGED <<name, perms>>

-----------------------------------------------------------------------------
\* A host command (bootstrap, reset-password) opens the same database.
OpenByHost ==
  /\ perms' = Seeded(perms)
  /\ UNCHANGED <<name, req, missed>>

\* The server stops and opens the database again.
RestartStore ==
  /\ perms' = Seeded(perms)
  /\ req' = [q \in Request |-> Idle]
  /\ UNCHANGED <<name, missed>>

RoleNext ==
  \/ \E q \in Request, r \in Role, n \in Name, ps \in SUBSET Perm, bad \in BOOLEAN :
       InsertRole(q, r, n, ps, bad) \/ LookupRole(q, r, n, ps, bad)
  \/ \E q \in Request : UpdateRole(q) \/ ReplacePerms(q) \/ Audit(q) \/ Cancel(q)
  \/ \E q \in Request, r \in Role : DeleteRole(q, r)
  \/ OpenByHost
  \/ RestartStore

RoleSpec == RoleInit /\ [][RoleNext]_roleVars

-----------------------------------------------------------------------------
(***************************************************************************)
(* docs/authorization.md: "Built-in role names cannot be changed or        *)
(* deleted".  SaveRole checks in one statement and writes in another; no   *)
(* update or deletion in between breaks the rule, and no other role takes  *)
(* a built-in name.                                                        *)
(***************************************************************************)
BuiltinKept ==
  \A r \in Role, b \in Builtin : name[r] = BuiltinName[b] <=> r = b

(***************************************************************************)
(* The cascade of DeleteRole and the foreign key of ReplacePerms meet in   *)
(* every order: no permission belongs to a role that is gone, so an id     *)
(* never comes with permissions nobody gave it.                            *)
(***************************************************************************)
NoOrphanPermissions == \A r \in Role : perms[r] # {} => Exists(r)

ReplacedOrDeleted(r) ==
  \E q \in Request : (req[q].role = r /\ ReplacePerms(q)) \/ DeleteRole(q, r)

(***************************************************************************)
(* seed() runs on every Open and knows nothing of edits.  What an          *)
(* administrator added to a role, built-in or not, survives every restart  *)
(* and every host command: a permission is only lost when a request        *)
(* replaces those of its role or deletes the role.                         *)
(***************************************************************************)
AdditionsLast ==
  [][\A r \in Role : perms[r] \ perms'[r] # {} => ReplacedOrDeleted(r)]_roleVars

-----------------------------------------------------------------------------
(***************************************************************************)
(* docs/audit.md lists "User, role, policy, and settings mutations" among  *)
(* the recorded events.  The code records none when the permissions are    *)
(* refused after the role row was inserted or renamed.                     *)
(***************************************************************************)
MutationsRecorded == missed = {}

(***************************************************************************)
(* docs/authorization.md on the built-in roles: "their permission          *)
(* assignments can be edited".  A removal does not last: seed() inserts    *)
(* the default permissions again, so the next start of the server, or of a *)
(* host command beside it, gives back what an administrator took away.     *)
(***************************************************************************)
EditsLast ==
  [][\A r \in Role : perms'[r] # perms[r] => ReplacedOrDeleted(r)]_roleVars
=============================================================================
