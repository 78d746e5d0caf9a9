------------------------------ MODULE Backoff ------------------------------
(***************************************************************************)
(* The retry delay of the delivery sidecar (go/delivery/backoff.go): full  *)
(* jitter under a ceiling that doubles from base to capDelay.              *)
(*                                                                         *)
(* A time.Duration is a signed integer of Width bits, and the doubling     *)
(* wraps; the loop is a recursive function of the number of doublings.     *)
(* The arguments stay within MaxDuration: with a cap beyond half the range *)
(* (146 years) the last doubling could overflow.                           *)
(***************************************************************************)
EXTENDS Integers, Sums

CONSTANTS Width,         \* bits of a time.Duration
          MaxDuration,   \* the largest base or cap
          MaxAttempt     \* bound: attempts asked for

ASSUME WidthAssumption == Width \in Nat \ {0, 1} /\ MaxAttempt \in Nat
ASSUME CapAssumption == MaxDuration \in 1..Power(2, Width - 2)

VARIABLES base, capDelay,   \* the fields of the Backoff
          attempt,          \* the argument of the last call
          delay             \* what it returned

backoffVars == <<base, capDelay, attempt, delay>>

-----------------------------------------------------------------------------
Millisecond == 1

\* A Width-bit result of an integer computation.
Wrap(n) == ((n + Power(2, Width - 1)) % Power(2, Width)) - Power(2, Width - 1)

\* NewBackoff: a base that is not positive becomes one, a cap below it becomes it.
NewBackoff(b, c) ==
    /\ base = IF b <= 0 THEN Millisecond ELSE b
    /\ capDelay = IF c < base THEN base ELSE c

BackoffInit ==
    /\ \E b, c \in (-1)..MaxDuration : NewBackoff(b, c)
    /\ attempt = 0 /\ delay = 0

\* Doubles until the cap or the attempt is reached.
Scaled(n) ==
    LET s[i \in 0..n] == IF i = 0 THEN base
                         ELSE IF s[i - 1] < capDelay THEN Wrap(2 * s[i - 1]) ELSE s[i - 1]
    IN  s[n]

CeilingShifted(n) ==
    LET shifted == Wrap(base * Power(2, n))
    IN  IF shifted < capDelay THEN shifted ELSE capDelay

\* The ceiling of the delay before retry n.
Ceiling(n) ==
    CASE n > 0 -> IF Scaled(n) < capDelay THEN Scaled(n) ELSE capDelay
      [] OTHER -> IF base < capDelay THEN base ELSE capDelay

\* Delay(attempt): any duration up to the ceiling.
Delay(n) ==
    /\ attempt' = n
    /\ delay' \in IF Ceiling(n) <= 0 THEN {0} ELSE 0..Ceiling(n)
    /\ UNCHANGED <<base, capDelay>>

BackoffNext == \E n \in 0..MaxAttempt : Delay(n)

BackoffSpec == BackoffInit /\ [][BackoffNext]_backoffVars

-----------------------------------------------------------------------------
(* Properties.                                                             *)

\* Every variable keeps its type; no delay exceeds the cap.
BackoffTypeOK ==
    /\ base \in 1..MaxDuration /\ capDelay \in base..MaxDuration
    /\ attempt \in 0..MaxAttempt
    /\ delay \in 0..capDelay

\* The comment on Backoff: the delay for attempt n is drawn from [0, min(base *
\* 2^n, cap)], computed over the integers.  No attempt count overflows it into a
\* small or negative duration, and so it never shrinks as attempts grow.
CeilingIsCappedPower ==
    /\ BackoffTypeOK
    /\ Ceiling(attempt) = LET exact == base * Power(2, attempt)
                          IN  IF exact < capDelay THEN exact ELSE capDelay
=============================================================================
