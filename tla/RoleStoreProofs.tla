-------------------------- MODULE RoleStoreProofs --------------------------
(***************************************************************************)
(* Proofs about RoleStore for any roles, names, permissions and requests:  *)
(* however the statements of SaveRole and DeleteRole interleave, built-in  *)
(* names are kept, no permission belongs to a role that is gone, and       *)
(* seeding takes nothing away.                                             *)
(***************************************************************************)
EXTENDS RoleStore, TLAPS

(***************************************************************************)
(* What a request holds between its statements: the role it works on, a    *)
(* name for it, and for a built-in role the name LookupRole found, which   *)
(* UpdateRole later writes without looking again.                          *)
(***************************************************************************)
Held ==
  \A q \in Request :
    /\ req[q].pc \in {"update", "perms"} => req[q].role \in Role
    /\ req[q].pc = "update" =>
         /\ req[q].name \in Name
         /\ req[q].role \in Builtin => req[q].name = BuiltinName[req[q].role]

Inv == RoleTypeOK /\ Held /\ BuiltinKept /\ NoOrphanPermissions

-----------------------------------------------------------------------------
LEMMA IdleType == Idle \in RequestState
BY DEF Idle, RequestState

LEMMA SeededType ==
  ASSUME NEW p \in [Role -> SUBSET Perm]
  PROVE  Seeded(p) \in [Role -> SUBSET Perm]
BY BuiltinAssumption DEF Seeded

\* An error answer leaves the tables and the other requests alone.
LEMMA RefuseType ==
  ASSUME RoleTypeOK, Held, NEW q \in Request, Refuse(q)
  PROVE  /\ req' \in [Request -> RequestState]
         /\ missed' \subseteq Request
         /\ Held'
BY IdleType DEF Refuse, RoleTypeOK, Held, Idle

LEMMA InitInv == RoleInit => Inv
<1> SUFFICES ASSUME RoleInit PROVE Inv
  OBVIOUS
<1>1. RoleTypeOK
  BY IdleType, SeededType, BuiltinAssumption DEF RoleInit, RoleTypeOK
<1>2. Held
  BY DEF RoleInit, Held, Idle
<1>3. BuiltinKept
  BY BuiltinAssumption, AbsentAssumption DEF RoleInit, BuiltinKept
<1>4. NoOrphanPermissions
  BY BuiltinAssumption, AbsentAssumption DEF RoleInit, NoOrphanPermissions, Exists, Seeded
<1> QED
  BY <1>1, <1>2, <1>3, <1>4 DEF Inv

\* A built-in role is in the table.
LEMMA BuiltinExists == Inv => \A b \in Builtin : Exists(b)
BY BuiltinAssumption, AbsentAssumption DEF Inv, BuiltinKept, Exists

LEMMA InvStep == Inv /\ [RoleNext]_roleVars => Inv'
<1> SUFFICES ASSUME Inv, [RoleNext]_roleVars PROVE Inv'
  OBVIOUS
<1>b. \A b \in Builtin : Exists(b)
  BY BuiltinExists
<1> USE DEF Inv
<1>1. ASSUME NEW q \in Request, NEW r \in Role, NEW n \in Name,
             NEW ps \in SUBSET Perm, NEW bad \in BOOLEAN, InsertRole(q, r, n, ps, bad)
      PROVE  Inv'
  <2>1. r \notin Builtin
    BY <1>1, <1>b DEF InsertRole
  <2>2. RoleTypeOK'
    BY <1>1 DEF InsertRole, RoleTypeOK, RequestState
  <2>3. Held'
    BY <1>1 DEF InsertRole, Held, RoleTypeOK
  <2>4. BuiltinKept'
    BY <1>1, <2>1, BuiltinAssumption DEF InsertRole, BuiltinKept, RoleTypeOK, Taken
  <2>5. NoOrphanPermissions'
    BY <1>1, AbsentAssumption DEF InsertRole, NoOrphanPermissions, RoleTypeOK, Exists
  <2> QED
    BY <2>2, <2>3, <2>4, <2>5
<1>2. ASSUME NEW q \in Request, NEW r \in Role, NEW n \in Name,
             NEW ps \in SUBSET Perm, NEW bad \in BOOLEAN, LookupRole(q, r, n, ps, bad)
      PROVE  Inv'
  <2>1. RoleTypeOK'
    BY <1>2 DEF LookupRole, RoleTypeOK, RequestState
  <2>2. r \in Builtin => n = BuiltinName[r]
    BY <1>2 DEF LookupRole, BuiltinKept
  <2>3. Held'
    BY <1>2, <2>2 DEF LookupRole, Held, RoleTypeOK
  <2> QED
    BY <1>2, <2>1, <2>3 DEF LookupRole, BuiltinKept, NoOrphanPermissions, Exists
<1>3. ASSUME NEW q \in Request, UpdateRole(q) PROVE Inv'
  <2> DEFINE r == req[q].role
  <2>1. r \in Role /\ req[q].name \in Name
        /\ (r \in Builtin => req[q].name = BuiltinName[r])
    BY <1>3 DEF UpdateRole, Held
  <2>2. CASE Exists(r) /\ ~Taken(req[q].name, r)
    <3>1. /\ name' = [name EXCEPT ![r] = req[q].name]
          /\ req' = [req EXCEPT ![q].pc = "perms", ![q].wrote = name[r] # req[q].name]
          /\ UNCHANGED <<perms, missed>>
      BY <1>3, <2>2 DEF UpdateRole
    <3>2. req' \in [Request -> RequestState]
      <4>1. PICK w \in BOOLEAN : req' = [req EXCEPT ![q].pc = "perms", ![q].wrote = w]
        BY <3>1
      <4>2. req[q] \in RequestState
        BY DEF RoleTypeOK
      <4>3. [req[q] EXCEPT !.pc = "perms", !.wrote = w] \in RequestState
        BY <4>2 DEF RequestState
      <4> QED
        BY <4>1, <4>3 DEF RoleTypeOK
    <3>3. RoleTypeOK'
      BY <2>1, <3>1, <3>2 DEF RoleTypeOK
    <3>4. Held'
      BY <2>1, <3>1 DEF Held, RoleTypeOK
    <3>5. BuiltinKept'
      BY <2>1, <2>2, <3>1, BuiltinAssumption DEF BuiltinKept, RoleTypeOK, Taken
    <3>6. NoOrphanPermissions'
      BY <2>1, <3>1, AbsentAssumption DEF NoOrphanPermissions, Exists, RoleTypeOK
    <3> QED
      BY <3>3, <3>4, <3>5, <3>6
  <2>3. CASE ~Exists(r)
    <3>1. req' = [req EXCEPT ![q].pc = "perms"] /\ UNCHANGED <<name, perms, missed>>
      BY <1>3, <2>3 DEF UpdateRole
    <3>2. RoleTypeOK'
      BY <3>1 DEF RoleTypeOK, RequestState
    <3>3. Held'
      BY <2>1, <3>1 DEF Held, RoleTypeOK
    <3> QED
      BY <3>1, <3>2, <3>3 DEF BuiltinKept, NoOrphanPermissions, Exists
  <2>4. CASE Exists(r) /\ Taken(req[q].name, r)
    <3>1. Refuse(q) /\ UNCHANGED <<name, perms>>
      BY <1>3, <2>4 DEF UpdateRole
    <3> QED
      BY <3>1, RefuseType DEF RoleTypeOK, BuiltinKept, NoOrphanPermissions, Exists
  <2> QED
    BY <2>2, <2>3, <2>4
<1>4. ASSUME NEW q \in Request, ReplacePerms(q) PROVE Inv'
  <2> DEFINE r == req[q].role
             fails == req[q].bad \/ (~Exists(r) /\ req[q].perms # {})
  <2>1. r \in Role /\ req[q].perms \subseteq Perm
    BY <1>4 DEF ReplacePerms, Held, RoleTypeOK, RequestState
  <2>2. CASE ~fails
    <3>1. /\ perms' = [perms EXCEPT ![r] = req[q].perms]
          /\ req' = [req EXCEPT ![q].pc = "audit"]
          /\ UNCHANGED <<name, missed>>
      BY <1>4, <2>2 DEF ReplacePerms
    <3>2. RoleTypeOK'
      BY <2>1, <3>1 DEF RoleTypeOK, RequestState
    <3>3. Held'
      BY <3>1 DEF Held, RoleTypeOK
    <3>4. NoOrphanPermissions'
      BY <2>1, <2>2, <3>1 DEF NoOrphanPermissions, Exists, RoleTypeOK
    <3> QED
      BY <3>1, <3>2, <3>3, <3>4 DEF BuiltinKept
  <2>3. CASE fails
    <3>1. Refuse(q) /\ UNCHANGED <<name, perms>>
      BY <1>4, <2>3 DEF ReplacePerms
    <3> QED
      BY <3>1, RefuseType DEF RoleTypeOK, BuiltinKept, NoOrphanPermissions, Exists
  <2> QED
    BY <2>2, <2>3
<1>5. ASSUME NEW q \in Request, Audit(q) PROVE Inv'
  BY <1>5, IdleType DEF Audit, RoleTypeOK, Held, Idle, BuiltinKept, NoOrphanPermissions, Exists
<1>6. ASSUME NEW q \in Request, Cancel(q) PROVE Inv'
  BY <1>6, RefuseType DEF Cancel, RoleTypeOK, BuiltinKept, NoOrphanPermissions, Exists
<1>7. ASSUME NEW q \in Request, NEW r \in Role, DeleteRole(q, r) PROVE Inv'
  <2>1. req'[q] \in RequestState
    BY <1>7 DEF DeleteRole, RoleTypeOK, Idle, RequestState
  <2>2. RoleTypeOK'
    BY <1>7, <2>1 DEF DeleteRole, RoleTypeOK
  <2>3. Held'
    BY <1>7 DEF DeleteRole, Held, RoleTypeOK, Idle
  <2>4. BuiltinKept'
    BY <1>7, BuiltinAssumption, AbsentAssumption DEF DeleteRole, BuiltinKept, RoleTypeOK
  <2>5. NoOrphanPermissions'
    BY <1>7 DEF DeleteRole, NoOrphanPermissions, RoleTypeOK, Exists
  <2> QED
    BY <2>2, <2>3, <2>4, <2>5
<1>8. CASE OpenByHost
  <2>1. NoOrphanPermissions'
    BY <1>8, <1>b DEF OpenByHost, NoOrphanPermissions, Exists, Seeded
  <2> QED
    BY <1>8, <2>1, SeededType DEF OpenByHost, RoleTypeOK, Held, BuiltinKept
<1>9. CASE RestartStore
  <2>1. NoOrphanPermissions'
    BY <1>9, <1>b DEF RestartStore, NoOrphanPermissions, Exists, Seeded
  <2> QED
    BY <1>9, <2>1, SeededType, IdleType DEF RestartStore, RoleTypeOK, Held, BuiltinKept, Idle
<1>10. CASE UNCHANGED roleVars
  BY <1>10 DEF roleVars, RoleTypeOK, Held, BuiltinKept, NoOrphanPermissions, Exists
<1> QED
  BY <1>1, <1>2, <1>3, <1>4, <1>5, <1>6, <1>7, <1>8, <1>9, <1>10 DEF RoleNext

LEMMA InvAlways == RoleSpec => []Inv
<1> QED
  BY InitInv, InvStep, PTL DEF RoleSpec

-----------------------------------------------------------------------------
(***************************************************************************)
(* The tables and the requests being handled keep their types.             *)
(***************************************************************************)
THEOREM TypeCorrect == RoleSpec => []RoleTypeOK
<1>1. Inv => RoleTypeOK
  BY DEF Inv
<1> QED
  BY <1>1, InvAlways, PTL

(***************************************************************************)
(* SaveRole checks the name of a built-in role in one statement and writes *)
(* it in another; whatever runs in between, each built-in name belongs to  *)
(* its role and to no other.                                               *)
(***************************************************************************)
THEOREM BuiltinNames == RoleSpec => []BuiltinKept
<1>1. Inv => BuiltinKept
  BY DEF Inv
<1> QED
  BY <1>1, InvAlways, PTL

(***************************************************************************)
(* DeleteRole and the replacement of permissions, in any order and any     *)
(* number, leave no permission of a role that is gone.                     *)
(***************************************************************************)
THEOREM NoOrphans == RoleSpec => []NoOrphanPermissions
<1>1. Inv => NoOrphanPermissions
  BY DEF Inv
<1> QED
  BY <1>1, InvAlways, PTL

(***************************************************************************)
(* A role loses a permission by a request that replaces those of the role  *)
(* or by its deletion, never by seed(), for any default permissions: an    *)
(* administrator's additions outlive every Open.                           *)
(***************************************************************************)
THEOREM SeedingOnlyAdds == RoleSpec => AdditionsLast
<1> DEFINE Kept == \A r \in Role : perms[r] \ perms'[r] # {} => ReplacedOrDeleted(r)
<1>1. Inv /\ [RoleNext]_roleVars => [Kept]_roleVars
  <2> SUFFICES ASSUME Inv, RoleNext PROVE Kept
    OBVIOUS
  <2> USE DEF Inv, RoleTypeOK
  <2>1. CASE UNCHANGED perms
    BY <2>1
  <2>2. ASSUME NEW q \in Request, ReplacePerms(q) PROVE Kept
    <3>1. \A r \in Role : perms'[r] # perms[r] => req[q].role = r
      BY <2>2 DEF ReplacePerms
    <3> QED
      BY <2>2, <3>1 DEF ReplacedOrDeleted
  <2>3. ASSUME NEW q \in Request, NEW s \in Role, DeleteRole(q, s) PROVE Kept
    <3>1. \A r \in Role : perms'[r] # perms[r] => r = s
      BY <2>3 DEF DeleteRole
    <3> QED
      BY <2>3, <3>1 DEF ReplacedOrDeleted
  <2>4. CASE OpenByHost \/ RestartStore
    BY <2>4 DEF OpenByHost, RestartStore, Seeded
  <2> QED
    BY <2>1, <2>2, <2>3, <2>4
    DEF RoleNext, InsertRole, LookupRole, UpdateRole, Audit, Cancel
<1> QED
  BY <1>1, InvAlways, PTL DEF RoleSpec, AdditionsLast
=============================================================================
