-------------------------------- MODULE Sums --------------------------------
(***************************************************************************)
(* Sums and powers, by recursion on the number of terms or factors: the    *)
(* loops of the code that accumulate, and the reference definitions they   *)
(* are compared with.                                                      *)
(***************************************************************************)
EXTENDS Integers

\* f[1] + ... + f[n]
SumTo(f, n) ==
    LET sum[i \in 0..n] == IF i = 0 THEN 0 ELSE sum[i - 1] + f[i]
    IN  sum[n]

\* b multiplied by itself n times.
Power(b, n) ==
    LET power[i \in 0..n] == IF i = 0 THEN 1 ELSE b * power[i - 1]
    IN  power[n]
=============================================================================
