------------------------------- MODULE Cusum -------------------------------
(***************************************************************************)
(* CusumDetector::update_and_check (include/detect/cusum.hpp), for one     *)
(* stream.  The running mean and variance are floating-point and abstract: *)
(* a sample enters the two sums through its residual, any integer of       *)
(* Residuals (0 while the variance is 0).  What is modelled is the         *)
(* control: the seed, the warm-up, the two one-sided sums and their reset. *)
(***************************************************************************)
EXTENDS Integers, Sequences, Sums

CONSTANTS MaxResidual,   \* bound: the standardised residuals that occur
          k_, h_,        \* the slack and the threshold
          warmup_n_,
          MaxSamples     \* bound: samples seen

ASSUME CusumAssumption ==
    /\ MaxResidual \in Nat /\ k_ \in Nat /\ h_ \in Nat
    /\ warmup_n_ \in Nat /\ MaxSamples \in Nat

VARIABLES
    samples,        \* samples seen
    s_pos, s_neg,
    fired,          \* what the last call returned
    since           \* the residuals evaluated since the alarm before this call

cusumVars == <<samples, s_pos, s_neg, fired, since>>

-----------------------------------------------------------------------------
Residuals == (-MaxResidual)..MaxResidual

Larger(a, b) == IF a > b THEN a ELSE b
Smaller(a, b) == IF a < b THEN a ELSE b

CusumInit == samples = 0 /\ s_pos = 0 /\ s_neg = 0 /\ fired = FALSE /\ since = << >>

\* The first sample: initializes the mean.
Seed ==
    /\ samples = 0
    /\ s_pos' = 0 /\ s_neg' = 0
    /\ samples' = 1
    /\ fired' = FALSE
    /\ UNCHANGED since

\* Only the estimate is refined.
WarmUp ==
    /\ samples > 0 /\ samples < warmup_n_
    /\ samples' = samples + 1
    /\ fired' = FALSE
    /\ UNCHANGED <<s_pos, s_neg, since>>

EvaluateNeverResets(r) ==
    /\ samples >= 1 /\ samples >= warmup_n_
    /\ samples < MaxSamples
    /\ LET pos == Larger(0, s_pos + r - k_)
           neg == Smaller(0, s_neg + r + k_)
       IN  /\ fired' = (pos > h_ \/ neg < -h_)
           /\ s_pos' = pos
           /\ s_neg' = neg
    /\ since' = Append(IF fired THEN << >> ELSE since, r)
    /\ samples' = samples + 1

\* The two sums take the residual r; either beyond h_ fires, and both restart.
Evaluate(r) ==
    /\ samples >= 1 /\ samples >= warmup_n_
    /\ samples < MaxSamples
    /\ LET pos == Larger(0, s_pos + r - k_)
           neg == Smaller(0, s_neg + r + k_)
       IN  /\ fired' = (pos > h_ \/ neg < -h_)
           /\ s_pos' = IF fired' THEN 0 ELSE pos
           /\ s_neg' = IF fired' THEN 0 ELSE neg
    /\ since' = Append(IF fired THEN << >> ELSE since, r)
    /\ samples' = samples + 1

CusumNext == Seed \/ WarmUp \/ \E r \in Residuals : Evaluate(r)

CusumSpec == CusumInit /\ [][CusumNext]_cusumVars

-----------------------------------------------------------------------------
(* Properties.                                                             *)

\* The sum of the residuals of s from position i on, each moved by d.
Excess(s, i, d) ==
    SumTo([j \in 1..Len(s) |-> IF j < i THEN 0 ELSE s[j] + d], Len(s))

\* Every variable keeps its type; neither sum is past the threshold at rest.
CusumTypeOK ==
    /\ samples \in Nat
    /\ s_pos \in 0..h_ /\ s_neg \in (-h_)..0
    /\ fired \in BOOLEAN
    /\ since \in Seq(Residuals)

\* A call returns true exactly when some run of samples that ends with it and
\* lies after the last alarm and the warm-up exceeds the threshold: an alarm in
\* one direction leaves nothing behind that raises or delays the next one in
\* the other.
AlarmIffRunExceeds ==
    /\ CusumTypeOK
    /\ fired <=> \E i \in 1..Len(since) :
                    Excess(since, i, -k_) > h_ \/ Excess(since, i, k_) < -h_
=============================================================================
