----------------------------- MODULE MCAccounts -----------------------------
(***************************************************************************)
(* Accounts on a small instance, for TLC.  Two users, two sessions and one *)
(* reset of each password are enough for everything but the sessions that  *)
(* outlive resets: those pile up over several resets, and one user shows   *)
(* it, without expiry, which only takes sessions away.                     *)
(***************************************************************************)
EXTENDS Accounts, TLC

Few ==
  /\ Cardinality({s \in Session : session[s].status # "free"}) <= 2
  /\ \A u \in User : hash[u] <= 2

Alone ==
  /\ Cardinality(users) <= 1 /\ roles = BuiltinRole
  /\ \A s \in Session : session[s].expiry = "valid"

BoundedSpec == Init /\ [][Next /\ (Few \/ Alone)']_vars

Symmetry == Permutations(User) \cup Permutations(Session) \cup Permutations(Request)
=============================================================================
