------------------------------- MODULE Clock -------------------------------
(***************************************************************************)
(* The clock that time.Now reads, in internal/api/ratelimit.go and         *)
(* internal/database/database.go.  Time 0 is the zero time.Time, which     *)
(* lies before every instant.                                              *)
(***************************************************************************)
EXTENDS Integers

CONSTANT MaxTime \* bound on the clock

ASSUME TimeAssumption == MaxTime \in Nat \ {0}

VARIABLE now

ClockInit == now = 1

Advance ==
  /\ now < MaxTime
  /\ now' = now + 1
=============================================================================
