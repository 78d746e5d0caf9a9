-------------------------------- MODULE Adsb --------------------------------
(***************************************************************************)
(* AdsbHandler (include/feed/adsb.hpp): snapshots of the aircraft in sight *)
(* are polled, every aircraft becomes a stream of its own the first time   *)
(* it is seen, and its samples are numbered and passed on when they are    *)
(* newer than the last.                                                    *)
(*                                                                         *)
(* An aircraft in a response is its hex and the time of its own last       *)
(* message (now minus seen), which depends on the receiver and may go back *)
(* from one poll to the next.  The sequence number of a message is its     *)
(* field seq; out keeps the messages of each stream id, oldest first.      *)
(***************************************************************************)
EXTENDS Integers, Sequences, FiniteSets

CONSTANTS Hexes,            \* aircraft
          MaxInstant,       \* bound: the last timestamp
          MaxAircraft,      \* bound: aircraft in a response
          max_streams_,     \* the cap on the registry
          base_stream_id_,
          Word              \* stream ids are modulo Word (uint32_t)

ASSUME CapAssumption == max_streams_ \in Nat /\ Word \in Nat \ {0} /\ max_streams_ <= Word
ASSUME IdAssumption == base_stream_id_ \in 0..(Word - 1)
ASSUME InstantAssumption == MaxInstant \in Nat /\ MaxAircraft \in Nat

VARIABLES
    aircraft,   \* what is left of the response being parsed
    streams_,   \* the registry: hex -> stream_id, last_ts and seq, or NoStream
    out,        \* stream id -> the messages emitted for it
    offered,    \* hex -> the timestamps of its complete samples so far
    arrivals    \* the hexes in the order of their first complete sample

adsbVars == <<aircraft, streams_, out, offered, arrivals>>

-----------------------------------------------------------------------------
Instants == 1..MaxInstant
Ids == 0..(Word - 1)
Sightings == [hex : Hexes, ts : Instants]

\* An aircraft without a hex, a position, an age, or a value for the metric.
Incomplete == [hex |-> "none"]

NoStream == [stream_id |-> -1]

Registered == {hex \in Hexes : streams_[hex] # NoStream}

AdsbInit ==
    /\ aircraft = << >>
    /\ streams_ = [hex \in Hexes |-> NoStream]
    /\ out = [id \in Ids |-> << >>]
    /\ offered = [hex \in Hexes |-> {}]
    /\ arrivals = << >>

\* The next poll answers; a response that is no JSON, or has no "now" or "ac",
\* has no aircraft.
PollAircraft ==
    /\ aircraft = << >>
    /\ \E n \in 1..MaxAircraft : aircraft' \in [1..n -> Sightings \cup {Incomplete}]
    /\ UNCHANGED <<streams_, out, offered, arrivals>>

\* accept() is called with the next aircraft of the response, a complete one.
Offer(a) ==
    /\ aircraft # << >>
    /\ Head(aircraft) = a
    /\ aircraft' = Tail(aircraft)
    /\ offered' = [offered EXCEPT ![a.hex] = @ \cup {a.ts}]
    /\ arrivals' = IF offered[a.hex] = {} THEN Append(arrivals, a.hex) ELSE arrivals

\* ++seq, and the message is emitted.
Emit(st) ==
    out' = [out EXCEPT ![st.stream_id] = Append(@, [ts |-> st.last_ts, seq |-> st.seq])]

SkipIncomplete ==
    /\ aircraft # << >>
    /\ Head(aircraft) = Incomplete
    /\ aircraft' = Tail(aircraft)
    /\ UNCHANGED <<streams_, out, offered, arrivals>>

AtCap == Cardinality(Registered) >= max_streams_

\* A new hex when the registry is at its cap.
IgnoreNew(a) ==
    /\ Offer(a)
    /\ a.hex \notin Registered
    /\ AtCap
    /\ UNCHANGED <<streams_, out>>

RegisterByTime(a) ==
    /\ Offer(a)
    /\ a.hex \notin Registered
    /\ ~AtCap
    /\ LET st == [stream_id |-> (base_stream_id_ + a.ts) % Word, last_ts |-> a.ts, seq |-> 1]
       IN  streams_' = [streams_ EXCEPT ![a.hex] = st] /\ Emit(st)

\* A new hex: the next stream id, and its first sample is number 1.
Register(a) ==
    /\ Offer(a)
    /\ a.hex \notin Registered
    /\ ~AtCap
    /\ LET st == [stream_id |-> (base_stream_id_ + Cardinality(Registered)) % Word,
                  last_ts |-> a.ts, seq |-> 1]
       IN  streams_' = [streams_ EXCEPT ![a.hex] = st] /\ Emit(st)

\* Not newer than the last sample emitted for this hex.
StaleAircraft(a) == a.ts <= streams_[a.hex].last_ts

IgnoreStale(a) ==
    /\ Offer(a)
    /\ a.hex \in Registered
    /\ StaleAircraft(a)
    /\ UNCHANGED <<streams_, out>>

UpdateStream(a) ==
    /\ Offer(a)
    /\ a.hex \in Registered
    /\ ~StaleAircraft(a)
    /\ LET st == [streams_[a.hex] EXCEPT !.last_ts = a.ts, !.seq = @ + 1]
       IN  streams_' = [streams_ EXCEPT ![a.hex] = st] /\ Emit(st)

AcceptAircraft(a) == IgnoreNew(a) \/ Register(a) \/ IgnoreStale(a) \/ UpdateStream(a)

AdsbNext == PollAircraft \/ SkipIncomplete \/ \E a \in Sightings : AcceptAircraft(a)

AdsbSpec == AdsbInit /\ [][AdsbNext]_adsbVars

-----------------------------------------------------------------------------
(* Properties.                                                             *)

\* Every variable keeps its type; the registry keeps to its cap.
AdsbTypeOK ==
    /\ aircraft \in Seq(Sightings \cup {Incomplete})
    /\ streams_ \in [Hexes -> [stream_id : Ids, last_ts : Instants, seq : 1..MaxInstant] \cup {NoStream}]
    /\ Cardinality(Registered) <= max_streams_
    /\ out \in [Ids -> Seq([ts : Instants, seq : 1..MaxInstant])]
    /\ offered \in [Hexes -> SUBSET Instants]
    /\ arrivals \in Seq(Hexes)

\* The registry is first come, first served, for ever: the aircraft with a
\* stream are the first max_streams_ that sent a complete sample, and the n-th
\* of them has the n-th stream id, across the wrap of the id; so no two
\* aircraft ever share a stream and none changes its own.
FirstComeFirstServed ==
    /\ Registered = {arrivals[i] : i \in 1..Len(arrivals) \cap 1..max_streams_}
    /\ \A i \in 1..Len(arrivals) :
          i <= max_streams_ =>
              streams_[arrivals[i]].stream_id = (base_stream_id_ + i - 1) % Word

\* Within a stream id, the messages are numbered 1, 2, 3 and their timestamps
\* strictly increase, however late, repeated or out of order the polls are.
StreamsOrdered ==
    \A id \in Ids : \A i \in 1..Len(out[id]) :
       /\ out[id][i].seq = i
       /\ i > 1 => out[id][i - 1].ts < out[id][i].ts

\* No aircraft with a stream is left behind: the last message of its stream is
\* the newest sample ever polled for it.
StreamsCurrent ==
    \A hex \in Registered :
       LET stream == out[streams_[hex].stream_id]
       IN  stream # << >> /\ \A t \in offered[hex] : t <= stream[Len(stream)].ts

\* A stream belongs to one aircraft for good (FirstComeFirstServed) and follows
\* its polls in order (StreamsOrdered), never behind the newest sample
\* (StreamsCurrent), however the polls overlap.
StreamsFollowPolls == AdsbTypeOK /\ FirstComeFirstServed /\ StreamsOrdered /\ StreamsCurrent
=============================================================================
