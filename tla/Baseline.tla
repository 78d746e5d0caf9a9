------------------------------ MODULE Baseline ------------------------------
(***************************************************************************)
(* EwmaBaseline (include/detect/baseline.hpp) of one stream, as the        *)
(* daemon's consumer calls it for each message: zscore, then update.  The  *)
(* conformal layer that the score goes to next is in Conformal.            *)
(*                                                                         *)
(* The fractions are exact where the code has doubles: alpha is WeightOver *)
(* / WeightUnder, and after n ticks mean is the mean times WeightUnder^n   *)
(* and var the variance times WeightUnder^(2n).  A z-score is then the     *)
(* pair <<d, v>> for d / sqrt(v).  What is modelled is the order of the    *)
(* calls and of the assignments, the case of no variance, and NaN: a price *)
(* that reads "nan" passes parse_decimal, and it makes both moments NaN,   *)
(* which poisoned records.  Rounding, which decides how small a variance   *)
(* gets on a stream that hardly moves, is not.                             *)
(***************************************************************************)
EXTENDS Integers, Sequences, Sums

CONSTANTS WeightOver, WeightUnder,
          Prices,       \* the values that occur
          MaxTicks      \* bound: ticks

ASSUME WeightAssumption ==
    /\ WeightUnder \in Nat /\ WeightOver \in 1..WeightUnder
    /\ Prices \subseteq Int /\ MaxTicks \in Nat

VARIABLES
    ticks,      \* the values so far, oldest first: <<x>> or NotANumber
    mean, var,  \* the moments, scaled
    poisoned,   \* whether they are NaN
    score       \* of the last tick

baselineVars == <<ticks, mean, var, poisoned, score>>

-----------------------------------------------------------------------------
NotANumber == << >>   \* as a value and as a score
Zero == <<0, 1>>

Scale(n) == Power(WeightUnder, n)

BaselineInit ==
    /\ ticks = << >> /\ mean = 0 /\ var = 0 /\ poisoned = FALSE
    /\ score = Zero

\* value - mean, scaled as the mean is.
Diff(value) == Scale(Len(ticks)) * value[1] - mean

\* zscore(): 0 for a stream without a variance, of which an unknown one is a case.
Zscore(value) ==
    IF poisoned THEN NotANumber
    ELSE IF var = 0 THEN Zero
    ELSE IF value = NotANumber THEN NotANumber
    ELSE <<Diff(value), var>>

\* update(): the squared difference is that from the mean before the update.
UpdateMoments(value) ==
    \/ /\ poisoned \/ value = NotANumber
       /\ poisoned' = TRUE
       /\ UNCHANGED <<mean, var>>
    \/ /\ ~poisoned /\ value # NotANumber
       /\ mean' = (WeightUnder - WeightOver) * mean + WeightOver * Scale(Len(ticks)) * value[1]
       /\ var' = WeightUnder * ((WeightUnder - WeightOver) * var
                               + WeightOver * Diff(value) * Diff(value))
       /\ UNCHANGED poisoned

ConsumeUpdatesFirst(value) ==
    /\ Len(ticks) < MaxTicks
    /\ UpdateMoments(value)
    /\ score' = IF poisoned' THEN NotANumber
                ELSE IF var' = 0 THEN Zero
                ELSE <<Scale(Len(ticks) + 1) * value[1] - mean', var'>>
    /\ ticks' = Append(ticks, value)

\* One message through the layer.
Consume(value) ==
    /\ Len(ticks) < MaxTicks
    /\ score' = Zscore(value)
    /\ UpdateMoments(value)
    /\ ticks' = Append(ticks, value)

BaselineNext == Consume(NotANumber) \/ \E x \in Prices : Consume(<<x>>)

BaselineSpec == BaselineInit /\ [][BaselineNext]_baselineVars

-----------------------------------------------------------------------------
(* Properties.                                                             *)

\* Every variable keeps its type; no variance is negative.
BaselineTypeOK ==
    /\ ticks \in Seq({NotANumber} \cup {<<x>> : x \in Prices}) /\ Len(ticks) <= MaxTicks
    /\ mean \in Int /\ var \in Nat /\ poisoned \in BOOLEAN
    /\ score \in {NotANumber} \cup Int \X (Nat \ {0})

\* No tick so far was NaN.
Clean == \A i \in 1..Len(ticks) : ticks[i] # NotANumber

\* The mean of the first n ticks as a weighted sum, and the deviation of tick
\* n + 1 from it, both scaled.
WeightedMean(n) ==
    SumTo([i \in 1..n |-> Power(WeightUnder - WeightOver, n - i) * WeightOver
                            * Scale(i - 1) * ticks[i][1]], n)

Deviation(n) == Scale(n - 1) * ticks[n][1] - WeightedMean(n - 1)

\* The variance of the first n ticks: the weighted mean of their squared
\* deviations, each from the mean of the ticks before it.
WeightedVar(n) ==
    SumTo([i \in 1..n |-> Power(WeightUnder - WeightOver, n - i) * WeightOver
                            * Scale(n - i + 1) * Deviation(i) * Deviation(i)], n)

\* A tick is scored against the ticks before it only, never against moments it
\* has already pulled towards itself, and those are the exponentially weighted
\* ones that the comment of update() promises.
ScoreIsOutOfSample ==
    LET n == Len(ticks)
    IN  /\ BaselineTypeOK
        /\ Clean /\ n > 0 =>
           score = IF WeightedVar(n - 1) = 0 THEN Zero
                   ELSE <<Deviation(n), WeightedVar(n - 1)>>

\* zscore() "never" returns NaN (include/detect/baseline.hpp:37).
ScoreIsNumber == score # NotANumber
=============================================================================
