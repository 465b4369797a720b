-------------------------- MODULE AuthorizeProofs --------------------------
(***************************************************************************)
(* Proofs about Authorize, for any roles, policies, containers and rules.  *)
(***************************************************************************)
EXTENDS Authorize, TLAPS

\* A policy that has no row has no rules, and its flag is off.
Absent ==
  \A p \in Policy :
    ~policies[p].stored => ~policies[p].enabled /\ policies[p].rules = {}

\* 'stood' is what it says: its members deny the request now.
StoodDenies ==
  \A p \in stood : Denies(policies[p], req.roles, req.action, req.container)

\* While the policies are listed, a policy that denied all the time is still
\* to be read, with its flag seen on, or was read with its denial.
StoodSeen ==
  req.pc = "listing" =>
    \A p \in stood :
      /\ req.seen[p].enabled
      /\ p \in req.todo \/ Denies(req.seen[p], req.roles, req.action, req.container)

\* With calm tables the user that was loaded is the user that is stored ...
LoadedCurrent ==
  calm /\ req.pc # "idle" => req.roles = userRoles /\ req.perms = Perms(userRoles)

\* ... and so is what was listed.
SeenCurrent ==
  calm /\ req.pc = "listing" =>
    \A p \in Policy :
      /\ req.seen[p].enabled = policies[p].enabled
      /\ p \notin req.todo => req.seen[p].rules = policies[p].rules

Inv ==
  /\ TypeOK /\ Absent
  /\ StoodDenies /\ StoodSeen /\ StandingDenyWins
  /\ LoadedCurrent /\ SeenCurrent /\ DecisionIsCurrent

LEMMA InitInv == Init => Inv
<1> SUFFICES ASSUME Init PROVE Inv
  OBVIOUS
<1>1. TypeOK
  BY RoleAssumption DEF Init, TypeOK, Idle, NoPolicy, RequestState, PolicyRow, Rule
<1>2. Absent
  BY DEF Init, Absent, NoPolicy
<1>3. req.pc = "idle" /\ stood = {}
  BY DEF Init, Idle
<1>4. QED
  BY <1>1, <1>2, <1>3 DEF Inv, StoodDenies, StoodSeen, StandingDenyWins, LoadedCurrent,
    SeenCurrent, DecisionIsCurrent

-----------------------------------------------------------------------------
(***************************************************************************)
(* A change of the tables leaves the request alone, can only take policies *)
(* out of 'stood', and ends the calm.                                      *)
(***************************************************************************)
LEMMA ChangedInv ==
  ASSUME Inv, Changed, TypeOK', Absent'
  PROVE  Inv'
<1>1. stood' \subseteq stood /\ req' = req
  BY DEF Changed
<1>2. StoodDenies'
  BY DEF Changed, StoodDenies, Denies, Applies
<1>3. StoodSeen'
  BY <1>1 DEF Inv, StoodSeen, Denies, Applies
<1>4. StandingDenyWins'
  BY <1>1 DEF Inv, StandingDenyWins
<1>5. calm' => req'.pc = "idle"
  BY DEF Changed
<1>6. LoadedCurrent' /\ SeenCurrent' /\ DecisionIsCurrent'
  BY <1>5 DEF LoadedCurrent, SeenCurrent, DecisionIsCurrent
<1>7. QED
  BY <1>2, <1>3, <1>4, <1>6 DEF Inv

LEMMA AdministratorInv ==
  ASSUME Inv, Administrator
  PROVE  Inv'
<1> USE DEF Inv
<1>1. ASSUME NEW p \in Policy, NEW on \in BOOLEAN, NEW rules \in Draft,
             SavePolicy(p, on, rules)
      PROVE  Inv'
  <2>1. TypeOK'
    BY <1>1, DraftAssumption DEF SavePolicy, Changed, TypeOK, PolicyRow
  <2>2. Absent'
    BY <1>1 DEF SavePolicy, TypeOK, Absent, NoPolicy
  <2>3. QED
    BY <1>1, <2>1, <2>2, ChangedInv DEF SavePolicy
<1>2. ASSUME NEW p \in Policy, DeletePolicy(p)
      PROVE  Inv'
  <2>1. TypeOK'
    BY <1>2 DEF DeletePolicy, Changed, TypeOK, PolicyRow, NoPolicy
  <2>2. Absent'
    BY <1>2 DEF DeletePolicy, TypeOK, Absent, NoPolicy
  <2>3. QED
    BY <1>2, <2>1, <2>2, ChangedInv DEF DeletePolicy
<1>3. ASSUME NEW r \in Role, CreateRole(r)
      PROVE  Inv'
  <2>1. TypeOK' /\ Absent'
    BY <1>3 DEF CreateRole, Changed, TypeOK, Absent
  <2>2. QED
    BY <1>3, <2>1, ChangedInv DEF CreateRole
<1>4. ASSUME NEW r \in Role, DeleteRole(r)
      PROVE  Inv'
  <2>1. policies' \in [Policy -> PolicyRow]
    BY <1>4 DEF DeleteRole, TypeOK, PolicyRow
  <2>2. TypeOK'
    BY <1>4, <2>1 DEF DeleteRole, Changed, TypeOK
  <2>3. Absent'
    BY <1>4 DEF DeleteRole, TypeOK, PolicyRow, Absent, NoPolicy
  <2>4. QED
    BY <1>4, <2>2, <2>3, ChangedInv DEF DeleteRole
<1>5. ASSUME NEW r \in Role, NEW as \in SUBSET Action, ReplacePerms(r, as)
      PROVE  Inv'
  <2>1. TypeOK' /\ Absent'
    BY <1>5 DEF ReplacePerms, Changed, TypeOK, Absent
  <2>2. QED
    BY <1>5, <2>1, ChangedInv DEF ReplacePerms
<1>6. ASSUME NEW rs \in SUBSET Role, UpdateUser(rs)
      PROVE  Inv'
  <2>1. TypeOK' /\ Absent'
    BY <1>6 DEF UpdateUser, Changed, TypeOK, Absent
  <2>2. QED
    BY <1>6, <2>1, ChangedInv DEF UpdateUser
<1>7. QED
  BY <1>1, <1>2, <1>3, <1>4, <1>5, <1>6 DEF Administrator

-----------------------------------------------------------------------------
LEMMA IdleType == Idle \in RequestState
  BY DEF Idle, RequestState, NoPolicy, PolicyRow

LEMMA LoadUserInv ==
  ASSUME Inv, NEW a \in Action, NEW c \in Container, LoadUser(a, c)
  PROVE  Inv'
<1> USE DEF Inv
<1>1. Perms(userRoles) \subseteq Action /\ userRoles \subseteq Role
  BY DEF Perms, TypeOK
<1>2. /\ req'.pc = "user" /\ req'.action = a /\ req'.container = c
      /\ req'.roles = userRoles /\ req'.perms = Perms(userRoles)
  BY DEF LoadUser, Idle
<1>3. TypeOK'
  <2>1. req' \in RequestState
    BY <1>1, IdleType DEF LoadUser, RequestState
  <2>2. QED
    BY <2>1 DEF LoadUser, TypeOK, tables
<1>4. Absent'
  BY DEF LoadUser, Absent, tables
<1>5. StoodDenies'
  BY <1>2 DEF LoadUser, StoodDenies, tables, Denies, Applies
<1>6. StoodSeen' /\ StandingDenyWins' /\ SeenCurrent' /\ DecisionIsCurrent'
  BY <1>2 DEF StoodSeen, StandingDenyWins, SeenCurrent, DecisionIsCurrent
<1>7. LoadedCurrent'
  BY <1>2 DEF LoadUser, LoadedCurrent, tables, Perms
<1>8. QED
  BY <1>3, <1>4, <1>5, <1>6, <1>7

(***************************************************************************)
(* The later steps of a request keep the tables, the histories and what    *)
(* was loaded: those parts of the invariant carry over.                    *)
(***************************************************************************)
LEMMA LaterStep ==
  ASSUME Inv, UNCHANGED <<tables, stood, calm>>, req' \in RequestState, req.pc # "idle",
         req'.roles = req.roles, req'.perms = req.perms,
         req'.action = req.action, req'.container = req.container
  PROVE  (TypeOK /\ Absent /\ StoodDenies /\ LoadedCurrent)'
<1> USE DEF Inv, tables
<1>1. TypeOK' /\ Absent'
  BY DEF TypeOK, Absent
<1>2. StoodDenies'
  BY DEF StoodDenies, Denies, Applies
<1>3. LoadedCurrent'
  BY DEF LoadedCurrent, Perms
<1>4. QED
  BY <1>1, <1>2, <1>3

LEMMA RequirePermissionInv ==
  ASSUME Inv, RequirePermission
  PROVE  Inv'
<1> USE DEF Inv
<1>1. req' \in RequestState
  BY DEF RequirePermission, TypeOK, RequestState
<1>2. /\ req'.roles = req.roles /\ req'.perms = req.perms /\ req.pc = "user"
      /\ req'.action = req.action /\ req'.container = req.container
      /\ req'.pc = IF req.action \in req.perms THEN "permitted" ELSE "refused"
  BY DEF RequirePermission, TypeOK, RequestState
<1>3. (TypeOK /\ Absent /\ StoodDenies /\ LoadedCurrent)'
  BY <1>1, <1>2, LaterStep DEF RequirePermission
<1>4. StoodSeen' /\ StandingDenyWins' /\ SeenCurrent'
  BY <1>2 DEF StoodSeen, StandingDenyWins, SeenCurrent
<1>5. DecisionIsCurrent'
  <2>1. SUFFICES ASSUME calm', req'.pc = "refused"
                 PROVE  req'.action \notin Perms(userRoles)'
    BY <1>2 DEF DecisionIsCurrent
  <2>2. QED
    BY <1>2, <1>3, <2>1 DEF LoadedCurrent
<1>6. QED
  BY <1>3, <1>4, <1>5

LEMMA ListPoliciesInv ==
  ASSUME Inv, ListPolicies
  PROVE  Inv'
<1> USE DEF Inv
<1>1. /\ req' \in RequestState /\ req.pc # "idle" /\ req'.pc = "listing"
      /\ req'.roles = req.roles /\ req'.perms = req.perms
      /\ req'.action = req.action /\ req'.container = req.container
      /\ req'.todo = {p \in Policy : policies[p].stored}
      /\ req'.seen = [p \in Policy |-> [policies[p] EXCEPT !.rules = {}]]
  BY DEF ListPolicies, TypeOK, RequestState, PolicyRow
<1>2. (TypeOK /\ Absent /\ StoodDenies /\ LoadedCurrent)'
  BY <1>1, LaterStep DEF ListPolicies
<1>3. \A p \in Policy : /\ req'.seen[p].enabled = policies[p].enabled
                        /\ req'.seen[p].rules = {}
  BY <1>1 DEF TypeOK, PolicyRow
<1>4. StoodSeen'
  <2>1. SUFFICES ASSUME NEW p \in stood
                 PROVE  req'.seen[p].enabled /\ p \in req'.todo
    BY DEF StoodSeen, ListPolicies
  <2>2. p \in Policy /\ policies[p].enabled
    BY DEF TypeOK, StoodDenies, Denies
  <2>3. QED
    BY <1>1, <1>3, <2>2 DEF Absent
<1>5. SeenCurrent'
  BY <1>1, <1>3 DEF SeenCurrent, Absent, ListPolicies, tables
<1>6. StandingDenyWins' /\ DecisionIsCurrent'
  BY <1>1 DEF StandingDenyWins, DecisionIsCurrent
<1>7. QED
  BY <1>2, <1>4, <1>5, <1>6

LEMMA ReadRulesInv ==
  ASSUME Inv, NEW p \in Policy, ReadRules(p)
  PROVE  Inv'
<1> USE DEF Inv
<1>0. [req.seen EXCEPT ![p].rules = policies[p].rules] \in [Policy -> PolicyRow]
  <2>1. req.seen \in [Policy -> PolicyRow] /\ policies[p].rules \subseteq Rule
    BY DEF TypeOK, RequestState, PolicyRow
  <2>2. QED
    BY <2>1 DEF PolicyRow
<1>1. /\ req' \in RequestState /\ req.pc = "listing" /\ req'.pc = "listing"
      /\ req'.roles = req.roles /\ req'.perms = req.perms
      /\ req'.action = req.action /\ req'.container = req.container
      /\ req'.todo = req.todo \ {p}
      /\ req'.seen = [req.seen EXCEPT ![p].rules = policies[p].rules]
  BY <1>0 DEF ReadRules, TypeOK, RequestState
<1>2. (TypeOK /\ Absent /\ StoodDenies /\ LoadedCurrent)'
  BY <1>1, LaterStep DEF ReadRules
<1>3. /\ req'.seen[p].enabled = req.seen[p].enabled
      /\ req'.seen[p].rules = policies[p].rules
      /\ \A o \in Policy \ {p} : req'.seen[o] = req.seen[o]
  BY <1>1 DEF TypeOK, RequestState, PolicyRow
<1>4. StoodSeen'
  <2>1. SUFFICES ASSUME NEW o \in stood
                 PROVE  /\ req'.seen[o].enabled
                        /\ \/ o \in req'.todo
                           \/ Denies(req'.seen[o], req.roles, req.action, req.container)
    BY <1>1 DEF StoodSeen, ReadRules, Denies, Applies
  <2>2. o \in Policy /\ req.seen[o].enabled
    BY <1>1 DEF TypeOK, StoodSeen
  <2>3. CASE o = p
    BY <1>3, <2>2, <2>3 DEF StoodDenies, Denies
  <2>4. CASE o # p
    BY <1>1, <1>3, <2>2, <2>4 DEF StoodSeen
  <2>5. QED
    BY <2>3, <2>4
<1>5. SeenCurrent'
  BY <1>1, <1>3 DEF SeenCurrent, ReadRules, tables
<1>6. StandingDenyWins' /\ DecisionIsCurrent'
  BY <1>1 DEF StandingDenyWins, DecisionIsCurrent
<1>7. QED
  BY <1>2, <1>4, <1>5, <1>6

(***************************************************************************)
(* The decision.  If it is a grant, no policy seen denies, so none stood;  *)
(* if the tables are calm, what was seen is what is stored.                *)
(***************************************************************************)
LEMMA DecideInv ==
  ASSUME Inv, Decide
  PROVE  Inv'
<1> USE DEF Inv
<1> DEFINE ok == Evaluate(req.roles, req.perms, req.action, req.container, req.seen)
<1>1. /\ req' \in RequestState /\ req.pc = "listing" /\ req.todo = {}
      /\ req'.pc = IF ok THEN "granted" ELSE "refused"
      /\ req'.roles = req.roles /\ req'.perms = req.perms
      /\ req'.action = req.action /\ req'.container = req.container
  BY DEF Decide, TypeOK, RequestState
<1>2. (TypeOK /\ Absent /\ StoodDenies /\ LoadedCurrent)'
  BY <1>1, LaterStep DEF Decide
<1>3. StoodSeen' /\ SeenCurrent'
  BY <1>1 DEF StoodSeen, SeenCurrent
<1>4. StandingDenyWins'
  <2>1. \A p \in stood : Denies(req.seen[p], req.roles, req.action, req.container)
    BY <1>1 DEF StoodSeen
  <2>2. ok => stood = {}
    BY <2>1 DEF Evaluate, TypeOK
  <2>3. QED
    BY <1>1, <2>2 DEF StandingDenyWins, Decide
<1>5. DecisionIsCurrent'
  <2>1. SUFFICES ASSUME calm
                 PROVE  ok <=>
                   /\ req.action \in Perms(userRoles)
                   /\ req.container \in Guarded => req.action \notin Immutable
                   /\ \A p \in Policy, rule \in Rule :
                        ~ /\ policies[p].enabled /\ rule \in policies[p].rules
                          /\ rule.effect = "deny" /\ rule.action = req.action
                          /\ rule.role \in userRoles \cup {None}
                          /\ req.container \in rule.scope
    BY <1>1 DEF DecisionIsCurrent, Decide, tables, Perms
  <2>2. req.roles = userRoles /\ req.perms = Perms(userRoles)
    BY <1>1, <2>1 DEF LoadedCurrent
  <2>3. \A p \in Policy : /\ req.seen[p].enabled = policies[p].enabled
                          /\ req.seen[p].rules = policies[p].rules
    BY <1>1, <2>1 DEF SeenCurrent
  <2>4. \A p \in Policy : policies[p].rules \subseteq Rule
    BY DEF TypeOK, PolicyRow
  <2>5. \A p \in Policy :
          Denies(req.seen[p], req.roles, req.action, req.container) <=>
            \E rule \in Rule :
              /\ policies[p].enabled /\ rule \in policies[p].rules
              /\ rule.effect = "deny" /\ rule.action = req.action
              /\ rule.role \in userRoles \cup {None}
              /\ req.container \in rule.scope
    BY <2>2, <2>3, <2>4 DEF Denies, Applies
  <2>6. QED
    BY <2>2, <2>5 DEF Evaluate
<1>6. QED
  BY <1>2, <1>3, <1>4, <1>5

LEMMA EndInv ==
  ASSUME Inv, End
  PROVE  Inv'
<1> USE DEF Inv
<1>1. req'.pc = "idle" /\ stood' = {} /\ calm' = TRUE /\ UNCHANGED tables
  BY DEF End, Idle
<1>2. TypeOK' /\ Absent'
  BY <1>1, IdleType DEF End, TypeOK, Absent, tables
<1>3. QED
  BY <1>1, <1>2 DEF StoodDenies, StoodSeen, StandingDenyWins, LoadedCurrent,
    SeenCurrent, DecisionIsCurrent

LEMMA NextInv == Inv /\ [Next]_vars => Inv'
<1> SUFFICES ASSUME Inv, [Next]_vars PROVE Inv'
  OBVIOUS
<1>1. CASE Request
  BY <1>1, LoadUserInv, RequirePermissionInv, ListPoliciesInv, ReadRulesInv, DecideInv,
    EndInv DEF Request
<1>2. CASE Administrator
  BY <1>2, AdministratorInv
<1>3. CASE UNCHANGED vars
  BY <1>3 DEF vars, Inv, TypeOK, Absent, StoodDenies, StoodSeen, StandingDenyWins,
    LoadedCurrent, SeenCurrent, DecisionIsCurrent, Denies, Applies, Perms
<1>4. QED
  BY <1>1, <1>2, <1>3 DEF Next

-----------------------------------------------------------------------------
\* The tables and the request always have their types, and every role the
\* user holds exists (UpdateUser and the cascade of DeleteRole).
THEOREM TypeCorrect == Spec => []TypeOK
  BY InitInv, NextInv, PTL DEF Spec, Inv

\* A policy that denies from the load of the user to the decision of Evaluate
\* refuses the request, however ListPolicies and the administrators interleave.
THEOREM StandingDenyWinsAlways == Spec => []StandingDenyWins
  BY InitInv, NextInv, PTL DEF Spec, Inv

\* On tables that do not change, authorizeResource decides what they say.
THEOREM DecisionIsCurrentAlways == Spec => []DecisionIsCurrent
  BY InitInv, NextInv, PTL DEF Spec, Inv
=============================================================================
