------------------------------ MODULE MCClock ------------------------------
(***************************************************************************)
(* LoginThrottle, Limiter and AuditTrail on one clock, for TLC.  They      *)
(* share no state but the clock, so a behaviour exercises one of them,     *)
(* chosen at the start, and leaves the others alone.                       *)
(***************************************************************************)
EXTENDS LoginThrottle, Limiter, AuditTrail, TLC

VARIABLE part

trailOnly == <<auditVars, expires, due>>

Init ==
  /\ LoginInit /\ LimiterInit /\ TrailInit
  /\ part \in {"login", "limiter", "trail"}

Login == part = "login" /\ LoginNext /\ UNCHANGED <<part, limiterVars, trailOnly>>

Calling == part = "limiter" /\ LimiterNext /\ UNCHANGED <<part, loginVars, trailOnly>>

Trail == part = "trail" /\ TrailNext /\ UNCHANGED <<part, loginVars, limiterVars>>

Tick ==
  /\ part # "trail" /\ Advance
  /\ UNCHANGED <<part, loginVars, limiterVars, trailOnly>>

Next == Login \/ Calling \/ Trail \/ Tick

Spec == Init /\ [][Next]_<<part, loginVars, limiterVars, trailVars>>

Symmetry == Permutations(Event) \cup Permutations(Writer)
=============================================================================
