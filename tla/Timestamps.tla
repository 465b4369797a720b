----------------------------- MODULE Timestamps -----------------------------
(***************************************************************************)
(* The timestamps of internal/database/database.go.  Every instant is      *)
(* stored as the text of time.RFC3339Nano in UTC, and SQLite compares and  *)
(* sorts these columns as text.  The layout ".999999999" leaves out the    *)
(* trailing zeros of the fraction, and the whole fraction with its dot     *)
(* when it is zero, so texts are not all of one length and a 'Z' is        *)
(* compared with a digit or with the dot: within one second the order of   *)
(* the texts is not the order of the instants.                             *)
(*                                                                         *)
(* A text is the sequence of its characters' codes.  The date and the time *)
(* down to the second have a fixed width, so they are one leading code.    *)
(***************************************************************************)
EXTENDS Integers, Sequences

CONSTANTS Base,   \* the radix of the fraction's digits
          Places  \* their largest number, nine in the code

ASSUME FractionAssumption == Base \in Nat \ {0, 1} /\ Places \in Nat \ {0}

\* What the provers have to know of '^'.
ASSUME PowerAssumption == \A k \in 0 .. Places : Base ^ k \in Nat \ {0}

Second == Base ^ Places

\* In ASCII '.' comes before the digits and 'Z' after them.
Dot == -1
Zulu == Base

\* The i-th digit of the fraction of instant t.
Digit(t, i) == (t \div Base ^ (Places - i)) % Base

\* How many digits are left when trailing zeros are cut.
Significant(t) ==
  CHOOSE n \in 0 .. Places :
    /\ \A i \in n + 1 .. Places : Digit(t, i) = 0
    /\ n = 0 \/ Digit(t, n) # 0

Fraction(t) ==
  IF Significant(t) = 0
  THEN << >>
  ELSE <<Dot>> \o [i \in 1 .. Significant(t) |-> Digit(t, i)]

\* t.UTC().Format(time.RFC3339Nano)
Text(t) == <<t \div Second>> \o Fraction(t) \o <<Zulu>>

\* SQLite's comparison of two texts; no Text is a proper prefix of another.
TextLess(s, u) ==
  \E i \in DOMAIN s \cap DOMAIN u :
    s[i] < u[i] /\ \A j \in 1 .. i - 1 : s[j] = u[j]
=============================================================================
