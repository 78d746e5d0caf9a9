----------------------------- MODULE Conformal -----------------------------
(***************************************************************************)
(* ConformalThreshold (include/detect/conformal.hpp), for one stream (each *)
(* has a state of its own), as the daemon's consumer calls it: a score is  *)
(* first compared with the threshold of the window, then added to it.      *)
(*                                                                         *)
(* Scores are integers, alpha is a fraction.  The rank is computed exactly *)
(* here and in doubles in the code, where (1 - alpha) * n may come out     *)
(* just above an integer and the rank one higher; the threshold can only   *)
(* rise by that.                                                           *)
(***************************************************************************)
EXTENDS Integers, Sequences, FiniteSets

CONSTANTS Capacities,     \* the values of window_capacity, of which 0 is legal
          Scores,         \* the scores that occur
          AlphaOver,      \* alpha = AlphaOver / AlphaUnder
          AlphaUnder,
          Infinity,       \* no score is larger
          MaxUpdates      \* bound: scores seen

ASSUME WindowAssumption ==
    Capacities \subseteq Nat /\ Infinity \in Nat /\ Scores \subseteq 0..Infinity /\ MaxUpdates \in Nat
ASSUME AlphaAssumption == AlphaUnder \in Nat \ {0} /\ AlphaOver \in 0..(AlphaUnder - 1)

VARIABLES
    capacity_,          \* the window's, fixed at construction
    buf, head, count,   \* the ring of the stream
    history,            \* every score so far, oldest first
    alarm               \* whether the last score was anomalous

conformalVars == <<capacity_, buf, head, count, history, alarm>>

-----------------------------------------------------------------------------
Slots == 0..(capacity_ - 1)

ConformalInit ==
    /\ capacity_ \in Capacities
    /\ buf = [i \in Slots |-> 0]
    /\ head = 0 /\ count = 0
    /\ history = << >> /\ alarm = FALSE

\* The scores of the window, oldest first.
Window == [i \in 1..count |-> buf[(head + i - 1) % capacity_]]

Above(s) == Cardinality({i \in 1..count : Window[i] > s})
Below(s) == Cardinality({i \in 1..count : Window[i] < s})

\* The k-th smallest score of the window, counted from 0 (scratch_[k], sorted).
Sorted(k) ==
    CHOOSE s \in {Window[i] : i \in 1..count} : Below(s) <= k /\ k < count - Above(s)

\* ceil((1 - alpha) * n) - 1
Rank == ((AlphaUnder - AlphaOver) * count + AlphaUnder - 1) \div AlphaUnder - 1

\* threshold(): the score of that rank, clamped to the window.
Threshold ==
    IF count = 0 THEN Infinity
    ELSE Sorted(IF Rank < 0 THEN 0 ELSE IF Rank > count - 1 THEN count - 1 ELSE Rank)

\* update(): into the next slot, or over the oldest score of a full window.
Update(score) ==
    \/ /\ capacity_ = 0
       /\ UNCHANGED <<buf, head, count>>
    \/ /\ count < capacity_
       /\ buf' = [buf EXCEPT ![(head + count) % capacity_] = score]
       /\ count' = count + 1
       /\ UNCHANGED head
    \/ /\ capacity_ > 0 /\ count = capacity_
       /\ buf' = [buf EXCEPT ![head] = score]
       /\ head' = (head + 1) % capacity_
       /\ UNCHANGED count

ObserveUpdatesFirst(score) ==
    /\ Len(history) < MaxUpdates
    /\ Update(score)
    /\ UNCHANGED capacity_
    /\ alarm' = (score > Threshold')
    /\ history' = Append(history, score)

\* The consumer: is_anomalous(score), then update(score).
Observe(score) ==
    /\ Len(history) < MaxUpdates
    /\ alarm' = (score > Threshold)
    /\ Update(score)
    /\ history' = Append(history, score)
    /\ UNCHANGED capacity_

ConformalNext == \E score \in Scores : Observe(score)

ConformalSpec == ConformalInit /\ [][ConformalNext]_conformalVars

-----------------------------------------------------------------------------
(* Properties.                                                             *)

\* Every variable keeps its type.
ConformalTypeOK ==
    /\ buf \in [Slots -> Scores \cup {0}]
    /\ head \in Slots \cup {0}
    /\ count \in 0..capacity_
    /\ alarm \in BOOLEAN

\* The scores a threshold may rest on: the last capacity_ of them, or all while
\* there are fewer, however often the ring has wrapped.
Recent ==
    SubSeq(history, IF Len(history) < capacity_ THEN 1 ELSE Len(history) - capacity_ + 1,
           Len(history))

\* An alarm is a conformal test of the score against the most recent scores
\* before it, and never one against scores that it is already one of: it is
\* raised exactly when there are such scores and at most a fraction alpha of
\* them is as large as this one.
AlarmIsOutOfSample ==
    [][LET score == history'[Len(history')]
           AsLarge == {i \in 1..Len(Recent) : Recent[i] >= score}
       IN  /\ ConformalTypeOK'
           /\ alarm' <=> /\ Recent # << >>
                         /\ Cardinality(AsLarge) * AlphaUnder <= AlphaOver * Len(Recent)]_conformalVars
=============================================================================
