----------------------------- MODULE Gridradar -----------------------------
(***************************************************************************)
(* GridradarHandler (include/feed/gridradar.hpp): the grid frequency, one  *)
(* sample a second, polled in overlapping windows.  The handler drops what *)
(* it has already accepted, numbers what it accepts, and reports a hole in *)
(* time instead of a hole in a sequence number, which the feed does not    *)
(* have.                                                                   *)
(*                                                                         *)
(* A response is a sequence of samples, in any order and with repeats; the *)
(* timestamp of a sample is a number of cadences (kCadenceNs).             *)
(***************************************************************************)
EXTENDS Integers, Sequences

CONSTANTS MaxTime,    \* bound: the last timestamp the feed has
          MaxBatch,   \* bound: samples in a response
          Start       \* timestamps start here (any instant, 1970 included)

ASSUME TimeAssumption == MaxTime \in Nat /\ Start \in 0..MaxTime /\ MaxBatch \in Nat

VARIABLES
    response,   \* what is left of the response being parsed
    seq_,       \* samples accepted in the handler's lifetime
    last_ts,    \* last_ts_ns_
    has_last_,
    emitted,    \* the messages passed to emit, oldest first
    gaps        \* the pairs passed to on_gap_

gridVars == <<response, seq_, last_ts, has_last_, emitted, gaps>>

-----------------------------------------------------------------------------
Times == Start..MaxTime

\* A sample whose ts or value is missing, mistyped or cannot be parsed.
Bad == -1

Messages == [ts : Times, seq : 1..(MaxTime - Start + 1)]

GridInit ==
    /\ response = << >>
    /\ seq_ = 0 /\ last_ts = 0 /\ has_last_ = FALSE
    /\ emitted = << >> /\ gaps = {}

\* The next poll answers; a response that is no JSON, or has no "data", has no
\* samples.
Poll ==
    /\ response = << >>
    /\ \E n \in 1..MaxBatch : response' \in [1..n -> Times \cup {Bad}]
    /\ UNCHANGED <<seq_, last_ts, has_last_, emitted, gaps>>

\* A sample that parse_response skips: malformed, or not newer than the last.
Stale(ts) == has_last_ /\ ts <= last_ts

Skip ==
    /\ response # << >>
    /\ Head(response) = Bad \/ Stale(Head(response))
    /\ response' = Tail(response)
    /\ UNCHANGED <<seq_, last_ts, has_last_, emitted, gaps>>

IsGapInclusive(ts) == has_last_ /\ ts - last_ts > 2

\* More than one cadence since the last accepted sample.
IsGap(ts) == has_last_ /\ ts - last_ts > 1

\* The gap callback, then the message.
Accept(ts) ==
    /\ response # << >>
    /\ Head(response) = ts
    /\ ts # Bad /\ ~Stale(ts)
    /\ gaps' = IF IsGap(ts) THEN gaps \cup {<<last_ts, ts>>} ELSE gaps
    /\ seq_' = seq_ + 1
    /\ emitted' = Append(emitted, [ts |-> ts, seq |-> seq_ + 1])
    /\ last_ts' = ts /\ has_last_' = TRUE
    /\ response' = Tail(response)

GridNext == Poll \/ Skip \/ \E ts \in Times : Accept(ts)

GridSpec == GridInit /\ [][GridNext]_gridVars

-----------------------------------------------------------------------------
(* Properties.                                                             *)

\* Every variable keeps its type.
GridTypeOK ==
    /\ response \in Seq(Times \cup {Bad})
    /\ seq_ \in 0..(MaxTime - Start + 1)
    /\ last_ts \in Times \cup {0}
    /\ has_last_ \in BOOLEAN
    /\ emitted \in Seq(Messages)
    /\ gaps \in SUBSET (Times \X Times)

\* What the handler passes on is one ordered stream over its whole lifetime,
\* however the polled windows overlap, repeat or go back: timestamps strictly
\* increase and the sequence numbers are 1, 2, 3 with none missing.
OneOrderedStream ==
    \A i \in 1..Len(emitted) :
       /\ emitted[i].seq = i
       /\ i > 1 => emitted[i - 1].ts < emitted[i].ts

Emitted(t) == \E i \in 1..Len(emitted) : emitted[i].ts = t

Inside(t, g) == g[1] < t /\ t < g[2]

\* Every second between the first and the last emitted sample was emitted or
\* lies inside exactly one reported gap, and no reported gap covers a second
\* that was emitted.
EverySecondAccounted ==
    /\ \A t \in Times :
          (has_last_ /\ emitted[1].ts < t /\ t < last_ts) =>
              (Emitted(t) <=> ~\E g \in gaps : Inside(t, g))
    /\ \A g \in gaps : Emitted(g[1]) /\ Emitted(g[2])
    /\ \A g, h \in gaps : g # h => ~\E t \in Times : Inside(t, g) /\ Inside(t, h)

\* Overlapping polls become one gapless account of the seconds: an ordered stream
\* (OneOrderedStream) and gaps that are exactly what it lacks.
StreamAccountsForTime == GridTypeOK /\ OneOrderedStream /\ EverySecondAccounted
=============================================================================
