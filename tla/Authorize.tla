----------------------------- MODULE Authorize -----------------------------
(***************************************************************************)
(* The authorization of a request on a container: requireSession loads the *)
(* user, authorizeResource of internal/api/server.go lists the policies    *)
(* and policies.Evaluate decides.  The tables are read in several          *)
(* statements, the user first, then the policies, then the rules of each   *)
(* policy, while administrators change them.                               *)
(*                                                                         *)
(* One user and one request are modelled: requests only read these tables, *)
(* so several do not disturb each other.  A rule carries the set of        *)
(* containers its pattern or label matches; a malformed pattern, or a name *)
(* pattern with a slash, matches none.                                     *)
(***************************************************************************)
EXTENDS Naturals

CONSTANTS Role,
          Builtin,   \* roles that cannot be deleted
          Policy,
          Container,
          Guarded,   \* containers labelled dockerview.system or .protected
          Action,
          Immutable, \* container.exec and container.restart
          Draft,     \* the rule sets an administrator may save
          None       \* a rule without subject_role_id concerns every user

Rule == [effect: {"allow", "deny"}, action: Action,
         role: Role \cup {None}, scope: SUBSET Container]

ASSUME RoleAssumption == Builtin \subseteq Role /\ None \notin Role
ASSUME DraftAssumption == Draft \subseteq SUBSET Rule

VARIABLES roles,     \* table roles
          userRoles, \* table user_roles, for the user
          grants,    \* table role_permissions
          policies,  \* tables policies and policy_rules
          req,       \* the request
          stood,     \* history: policies that denied it ever since it began
          calm       \* history: no table has changed since it began

tables == <<roles, userRoles, grants, policies>>
vars == <<roles, userRoles, grants, policies, req, stood, calm>>

PolicyRow == [stored: BOOLEAN, enabled: BOOLEAN, rules: SUBSET Rule]

NoPolicy == [stored |-> FALSE, enabled |-> FALSE, rules |-> {}]

RequestState ==
  [pc: {"idle", "user", "permitted", "listing", "granted", "refused"},
   action: Action \cup {None}, container: Container \cup {None},
   roles: SUBSET Role, perms: SUBSET Action,
   todo: SUBSET Policy, seen: [Policy -> PolicyRow]]

Idle == [pc |-> "idle", action |-> None, container |-> None, roles |-> {},
         perms |-> {}, todo |-> {}, seen |-> [p \in Policy |-> NoPolicy]]

TypeOK ==
  /\ roles \subseteq Role
  /\ userRoles \subseteq roles
  /\ grants \in [Role -> SUBSET Action]
  /\ policies \in [Policy -> PolicyRow]
  /\ req \in RequestState
  /\ stood \subseteq Policy
  /\ calm \in BOOLEAN

\* Any assignment of the built-in roles and their permissions; no policies.
Init ==
  /\ roles = Builtin
  /\ userRoles \in SUBSET Builtin
  /\ grants \in [Role -> SUBSET Action]
  /\ \A r \in Role \ Builtin : grants[r] = {}
  /\ policies = [p \in Policy |-> NoPolicy]
  /\ req = Idle
  /\ stood = {}
  /\ calm = TRUE

-----------------------------------------------------------------------------
Perms(rs) == UNION {grants[r] : r \in rs}

\* The tests of the inner loop of Evaluate, matches included.
Applies(rule, rs, a, c) ==
  /\ rule.action = a
  /\ rule.role = None \/ rule.role \in rs
  /\ c \in rule.scope

Denies(row, rs, a, c) ==
  row.enabled /\ \E rule \in row.rules : rule.effect = "deny" /\ Applies(rule, rs, a, c)

\* Mutant of Evaluate: a matching allow rule overrides the denials.
EvaluateAllowFirst(rs, ps, a, c, all) ==
  /\ ~(c \in Guarded /\ a \in Immutable)
  /\ \/ \A p \in Policy : ~Denies(all[p], rs, a, c)
     \/ \E p \in Policy : /\ all[p].enabled
                          /\ \E rule \in all[p].rules :
                               rule.effect = "allow" /\ Applies(rule, rs, a, c)
  /\ a \in ps

(***************************************************************************)
(* Decision.Allowed: first the immutable containers, then the denials, and *)
(* the permission last.  explicitAllow only changes the reason.            *)
(***************************************************************************)
Evaluate(rs, ps, a, c, all) ==
  /\ ~(c \in Guarded /\ a \in Immutable)
  /\ \A p \in Policy : ~Denies(all[p], rs, a, c)
  /\ a \in ps

-----------------------------------------------------------------------------
\* requireSession: GetUser reads roles and permissions in one statement.
LoadUser(a, c) ==
  /\ req.pc = "idle"
  /\ req' = [Idle EXCEPT !.pc = "user", !.action = a, !.container = c,
                         !.roles = userRoles, !.perms = Perms(userRoles)]
  /\ stood' = {p \in Policy : Denies(policies[p], userRoles, a, c)}
  /\ calm' = TRUE
  /\ UNCHANGED tables

\* requirePermission, on every route but the terminal's WebSocket.
RequirePermission ==
  /\ req.pc = "user"
  /\ req' = [req EXCEPT !.pc = IF req.action \in req.perms THEN "permitted" ELSE "refused"]
  /\ UNCHANGED <<tables, stood, calm>>

\* inspectResource, whose labels never change, then the first statement of
\* ListPolicies.
ListPolicies ==
  /\ req.pc \in {"user", "permitted"}
  /\ req' = [req EXCEPT !.pc = "listing",
                        !.todo = {p \in Policy : policies[p].stored},
                        !.seen = [p \in Policy |-> [policies[p] EXCEPT !.rules = {}]]]
  /\ UNCHANGED <<tables, stood, calm>>

\* Mutant of ReadRules: the rules of the policy are skipped.
ReadRulesSkipped(p) ==
  /\ req.pc = "listing"
  /\ p \in req.todo
  /\ req' = [req EXCEPT !.todo = @ \ {p}]
  /\ UNCHANGED <<tables, stood, calm>>

\* One turn of the second loop of ListPolicies.
ReadRules(p) ==
  /\ req.pc = "listing"
  /\ p \in req.todo
  /\ req' = [req EXCEPT !.todo = @ \ {p}, !.seen[p].rules = policies[p].rules]
  /\ UNCHANGED <<tables, stood, calm>>

Decide ==
  /\ req.pc = "listing"
  /\ req.todo = {}
  /\ req' = [req EXCEPT !.pc =
       IF Evaluate(req.roles, req.perms, req.action, req.container, req.seen)
       THEN "granted" ELSE "refused"]
  /\ UNCHANGED <<tables, stood, calm>>

\* The request ends: done, refused, an unknown container, an error.
End ==
  /\ req.pc # "idle"
  /\ req' = Idle
  /\ stood' = {}
  /\ calm' = TRUE
  /\ UNCHANGED tables

-----------------------------------------------------------------------------
\* What a change of the tables does to the history of the request.
Changed ==
  /\ stood' = {p \in stood : Denies(policies'[p], req.roles, req.action, req.container)}
  /\ calm' = (req.pc = "idle")
  /\ UNCHANGED req

\* One transaction; the foreign key refuses a rule for an unknown role.
SavePolicy(p, on, rules) ==
  /\ \A rule \in rules : rule.role \in roles \cup {None}
  /\ policies' = [policies EXCEPT ![p] = [stored |-> TRUE, enabled |-> on, rules |-> rules]]
  /\ UNCHANGED <<roles, userRoles, grants>>
  /\ Changed

DeletePolicy(p) ==
  /\ policies[p].stored
  /\ policies' = [policies EXCEPT ![p] = NoPolicy]
  /\ UNCHANGED <<roles, userRoles, grants>>
  /\ Changed

\* The INSERT of SaveRole.
CreateRole(r) ==
  /\ r \notin roles
  /\ roles' = roles \cup {r}
  /\ UNCHANGED <<userRoles, grants, policies>>
  /\ Changed

\* The transaction of SaveRole.
ReplacePerms(r, as) ==
  /\ r \in roles
  /\ grants' = [grants EXCEPT ![r] = as]
  /\ UNCHANGED <<roles, userRoles, policies>>
  /\ Changed

\* Mutant of DeleteRole: the assignments to users stay behind.
DeleteRoleHeld(r) ==
  /\ r \in roles \ Builtin
  /\ roles' = roles \ {r}
  /\ grants' = [grants EXCEPT ![r] = {}]
  /\ policies' = [p \in Policy |-> [policies[p] EXCEPT !.rules = {x \in @ : x.role # r}]]
  /\ UNCHANGED userRoles
  /\ Changed

\* The deletion cascades to user_roles, role_permissions and policy_rules.
DeleteRole(r) ==
  /\ r \in roles \ Builtin
  /\ roles' = roles \ {r}
  /\ userRoles' = userRoles \ {r}
  /\ grants' = [grants EXCEPT ![r] = {}]
  /\ policies' = [p \in Policy |-> [policies[p] EXCEPT !.rules = {x \in @ : x.role # r}]]
  /\ Changed

\* The roles of UpdateUser.
UpdateUser(rs) ==
  /\ rs \subseteq roles
  /\ userRoles' = rs
  /\ UNCHANGED <<roles, grants, policies>>
  /\ Changed

Request ==
  \/ \E a \in Action, c \in Container : LoadUser(a, c)
  \/ RequirePermission
  \/ ListPolicies
  \/ \E p \in Policy : ReadRules(p)
  \/ Decide
  \/ End

Administrator ==
  \/ \E p \in Policy, on \in BOOLEAN, rules \in Draft : SavePolicy(p, on, rules)
  \/ \E p \in Policy : DeletePolicy(p)
  \/ \E r \in Role : CreateRole(r) \/ DeleteRole(r)
  \/ \E r \in Role, as \in SUBSET Action : ReplacePerms(r, as)
  \/ \E rs \in SUBSET Role : UpdateUser(rs)

Next == Request \/ Administrator

Spec == Init /\ [][Next]_vars

-----------------------------------------------------------------------------
(***************************************************************************)
(* docs/policies.md: "Explicit deny always wins."  A policy that denies    *)
(* the request from the moment its user is loaded until the decision wins, *)
(* whatever administrators change meanwhile, in it or in other policies.   *)
(* (A denial moved from one policy to another between two statements of    *)
(* ListPolicies, or deleted with its role, may be missed by both.)         *)
(***************************************************************************)
StandingDenyWins == req.pc = "granted" => stood = {}

(***************************************************************************)
(* While the tables do not change, what the request pieces together from   *)
(* its statements and decides is what the tables say: a grant exactly for  *)
(* a held permission, on a container that is not guarded, with no enabled  *)
(* policy denying it.                                                      *)
(***************************************************************************)
DecisionIsCurrent ==
  calm /\ req.pc \in {"granted", "refused"} =>
    (req.pc = "granted" <=>
       /\ req.action \in Perms(userRoles)
       /\ req.container \in Guarded => req.action \notin Immutable
       /\ \A p \in Policy, rule \in Rule :
            ~ /\ policies[p].enabled /\ rule \in policies[p].rules
              /\ rule.effect = "deny" /\ rule.action = req.action
              /\ rule.role \in userRoles \cup {None} /\ req.container \in rule.scope)
=============================================================================
