---------------------------- MODULE FeedHandler ----------------------------
(***************************************************************************)
(* FeedHandler (include/feed/handler.hpp) with the Coinbase adapter        *)
(* (include/feed/coinbase.hpp) behind a WebSocket feed: the gap-detection  *)
(* state machine, the ring it pushes into, and reconnects.                 *)
(*                                                                         *)
(* The feed numbers the trades of a stream 1, 2, 3...; a ticker carries    *)
(* one trade's number, a heartbeat the newest one's.  Frames in flight can *)
(* be lost, duplicated and overtaken; a dropped connection loses them all. *)
(* The ring is the bounded FIFO that SpscRing implements.                  *)
(***************************************************************************)
EXTENDS Naturals, Integers, Sequences, FiniteSets

CONSTANTS Streams,        \* stream ids of the subscribed products
          RingCapacity,   \* capacity of the ring handle() pushes into
          MaxTrades,      \* bound: trades per stream
          MaxInFlight,    \* bound: frames in flight
          MaxConnections  \* bound: connections, the first included

ASSUME FeedAssumption ==
    /\ RingCapacity \in Nat \ {0}
    /\ MaxTrades \in Nat
    /\ MaxInFlight \in Nat
    /\ MaxConnections \in Nat \ {0}

VARIABLES
    trades,     \* per stream, the number of its newest trade
    wire,       \* frames in flight on the current connection
    last_seq_,  \* the map of handler.hpp:123: stream -> last accepted seq
    ring,       \* messages pushed and not yet popped, oldest first
    \* What happened on the current connection; the code does not keep it.
    conn,       \* number of the current connection
    base,       \* per stream, the seq that seeded its baseline
    accepted,   \* per stream, ticker seqs that accept_seq let through
    beaten,     \* per stream, seqs it accepted from a heartbeat
    missed      \* per stream, seqs inside the (from, to) of an on_gap call

feedVars == <<trades, wire>>
gateVars == <<last_seq_, base, accepted, beaten, missed>>
vars == <<feedVars, gateVars, ring, conn>>

-----------------------------------------------------------------------------
Seqs == 1..MaxTrades

\* What parse() makes of a frame: kOk, kHeartbeat, and for the rest (acks,
\* unmapped products, bad JSON or fields) kSkipped or kMalformed.
Frames ==
    [kind : {"ticker", "heartbeat"}, stream : Streams, seq : Seqs]
       \cup {[kind |-> "other"]}

\* The empty map.
NoBaselines == [s \in {} |-> 0]

Init ==
    /\ trades = [s \in Streams |-> 0]
    /\ wire = {}
    /\ last_seq_ = NoBaselines
    /\ ring = << >>
    /\ conn = 1
    /\ base = [s \in Streams |-> 0]
    /\ accepted = [s \in Streams |-> {}]
    /\ beaten = [s \in Streams |-> {}]
    /\ missed = [s \in Streams |-> {}]

-----------------------------------------------------------------------------
(* The feed.                                                               *)

Send(f) ==
    /\ Cardinality(wire) < MaxInFlight
    /\ wire' = wire \cup {f}
    /\ UNCHANGED <<gateVars, ring, conn>>

Trade(s) ==
    /\ trades[s] < MaxTrades
    /\ trades' = [trades EXCEPT ![s] = @ + 1]
    /\ Send([kind |-> "ticker", stream |-> s, seq |-> trades[s] + 1])

Beat(s) ==
    /\ trades[s] > 0
    /\ Send([kind |-> "heartbeat", stream |-> s, seq |-> trades[s]])
    /\ UNCHANGED trades

SendOther ==
    /\ Send([kind |-> "other"])
    /\ UNCHANGED trades

Lose(f) ==
    /\ wire' = wire \ {f}
    /\ UNCHANGED <<trades, gateVars, ring, conn>>

\* The frame f reaches the callback; a duplicate of it may still be in flight.
Arrives(f) ==
    /\ wire' \in {wire, wire \ {f}}
    /\ UNCHANGED <<trades, conn>>

-----------------------------------------------------------------------------
(* accept_seq.                                                             *)

AcceptsDuplicate(s, n) == s \in DOMAIN last_seq_ => n >= last_seq_[s]

\* Its result: the first message of a stream, or a newer one.
Accepts(s, n) == s \in DOMAIN last_seq_ => n > last_seq_[s]

GapIncludingTo(s, n) ==
    IF s \in DOMAIN last_seq_ /\ n > last_seq_[s] + 1
    THEN (last_seq_[s] + 1)..n ELSE {}

\* The seqs in (from, to) of the on_gap call it makes, none if it makes none.
GapReported(s, n) ==
    IF s \in DOMAIN last_seq_ /\ n > last_seq_[s] + 1
    THEN (last_seq_[s] + 1)..(n - 1) ELSE {}

AcceptSeqForgetsGap(s, n) ==
    /\ missed' = missed
    /\ base' = [base EXCEPT ![s] = IF s \in DOMAIN last_seq_ THEN @ ELSE n]
    /\ last_seq_' = [r \in DOMAIN last_seq_ \cup {s} |->
                        IF r = s THEN n ELSE last_seq_[r]]

\* Its effect when it returns true; when it returns false it has none.
AcceptSeq(s, n) ==
    /\ missed' = [missed EXCEPT ![s] = @ \cup GapReported(s, n)]
    /\ base' = [base EXCEPT ![s] = IF s \in DOMAIN last_seq_ THEN @ ELSE n]
    /\ last_seq_' = [r \in DOMAIN last_seq_ \cup {s} |->
                        IF r = s THEN n ELSE last_seq_[r]]

-----------------------------------------------------------------------------
(* handle(), one action per outcome.                                       *)

\* kOk, accepted, and the ring has room.
HandlePush(f) ==
    /\ f.kind = "ticker"
    /\ Accepts(f.stream, f.seq)
    /\ Len(ring) < RingCapacity
    /\ AcceptSeq(f.stream, f.seq)
    /\ accepted' = [accepted EXCEPT ![f.stream] = @ \cup {f.seq}]
    /\ ring' = Append(ring, [stream |-> f.stream, seq |-> f.seq, conn |-> conn])
    /\ UNCHANGED beaten
    /\ Arrives(f)

\* kOk, accepted, but try_push refuses: the tick is gone, its seq is not.
HandleRingFull(f) ==
    /\ f.kind = "ticker"
    /\ Accepts(f.stream, f.seq)
    /\ Len(ring) = RingCapacity
    /\ AcceptSeq(f.stream, f.seq)
    /\ accepted' = [accepted EXCEPT ![f.stream] = @ \cup {f.seq}]
    /\ UNCHANGED <<ring, beaten>>
    /\ Arrives(f)

\* kHeartbeat: gap-checked like a ticker, never pushed.
HandleHeartbeat(f) ==
    /\ f.kind = "heartbeat"
    /\ Accepts(f.stream, f.seq)
    /\ AcceptSeq(f.stream, f.seq)
    /\ beaten' = [beaten EXCEPT ![f.stream] = @ \cup {f.seq}]
    /\ UNCHANGED <<ring, accepted>>
    /\ Arrives(f)

\* A duplicate or older seq, or kSkipped / kMalformed: no effect.
HandleIgnored(f) ==
    /\ f.kind # "other" => ~Accepts(f.stream, f.seq)
    /\ UNCHANGED <<gateVars, ring>>
    /\ Arrives(f)

-----------------------------------------------------------------------------
\* Close or Error: on_disconnect(), on_reconnect() = reset().  The library
\* connects again by itself and the callback's Open case resubscribes.
Reconnect ==
    /\ conn < MaxConnections
    /\ conn' = conn + 1
    /\ wire' = {}
    /\ last_seq_' = NoBaselines
    /\ base' = [s \in Streams |-> 0]
    /\ accepted' = [s \in Streams |-> {}]
    /\ beaten' = [s \in Streams |-> {}]
    /\ missed' = [s \in Streams |-> {}]
    /\ UNCHANGED <<trades, ring>>

\* The consumer thread takes the oldest message.
Pop ==
    /\ ring # << >>
    /\ ring' = Tail(ring)
    /\ UNCHANGED <<feedVars, gateVars, conn>>

Next ==
    \/ \E s \in Streams : Trade(s) \/ Beat(s)
    \/ SendOther
    \/ \E f \in wire : \/ Lose(f) \/ HandlePush(f) \/ HandleRingFull(f)
                       \/ HandleHeartbeat(f) \/ HandleIgnored(f)
    \/ Reconnect
    \/ Pop

Spec == Init /\ [][Next]_vars

-----------------------------------------------------------------------------
(* Properties.                                                             *)

\* Every variable keeps its type; baselines exist exactly for the streams
\* heard of on this connection.
TypeOK ==
    /\ trades \in [Streams -> 0..MaxTrades]
    /\ wire \subseteq Frames
    /\ DOMAIN last_seq_ \subseteq Streams
    /\ \A s \in DOMAIN last_seq_ : last_seq_[s] \in Seqs
    /\ ring \in Seq([stream : Streams, seq : Seqs, conn : 1..MaxConnections])
    /\ Len(ring) <= RingCapacity
    /\ conn \in 1..MaxConnections
    /\ base \in [Streams -> 0..MaxTrades]
    /\ accepted \in [Streams -> SUBSET Seqs]
    /\ beaten \in [Streams -> SUBSET Seqs]
    /\ missed \in [Streams -> SUBSET Seqs]

\* Between the seq that seeded a stream and the newest accepted one, nothing
\* disappears unnoticed: every number was accepted from a ticker, accepted
\* from a heartbeat, or lies in a gap that on_gap reported.
EverySeqAccounted ==
    \A s \in DOMAIN last_seq_ :
       base[s]..last_seq_[s] \subseteq accepted[s] \cup beaten[s] \cup missed[s]

\* A gap report is final and never false: no seq inside a reported gap was or
\* will be accepted on this connection (a late ticker is dropped as older), and
\* no gap reaches back before the message that seeded the stream, so the first
\* message after a reconnect reports nothing.
GapsAreFinal ==
    \A s \in Streams :
       /\ missed[s] \cap (accepted[s] \cup beaten[s]) = {}
       /\ \A n \in missed[s] :
             s \in DOMAIN last_seq_ /\ base[s] < n /\ n < last_seq_[s]

\* What the consumer pops of one stream, within one connection, has strictly
\* increasing seqs, whatever the network duplicated or reordered.
RingOrdered ==
    \A i, j \in DOMAIN ring :
       i < j /\ ring[i].stream = ring[j].stream /\ ring[i].conn = ring[j].conn
          => ring[i].seq < ring[j].seq

\* last_seq_ is the one thing the code keeps, and it bounds all that happened
\* on the connection: what was accepted lies between the seed and it, an unheard
\* stream has no history, and no message in the ring is newer.
GateInv ==
    /\ \A s \in Streams \ DOMAIN last_seq_ :
          accepted[s] = {} /\ beaten[s] = {} /\ missed[s] = {}
    /\ \A s \in DOMAIN last_seq_ :
          /\ base[s] \in 1..last_seq_[s]
          /\ accepted[s] \cup beaten[s] \subseteq base[s]..last_seq_[s]
    /\ \A i \in DOMAIN ring :
          /\ ring[i].conn <= conn
          /\ ring[i].conn = conn =>
                ring[i].stream \in DOMAIN last_seq_ /\ ring[i].seq <= last_seq_[ring[i].stream]

\* Numbers after the seed that can no longer be accepted: passed over, and no
\* ticker of theirs is in flight.
Lost(s) ==
    {n \in (base[s] + 1)..last_seq_[s] :
        /\ n \notin accepted[s]
        /\ [kind |-> "ticker", stream |-> s, seq |-> n] \notin wire}

\* DECISIONS.md D-010: "heartbeats carry last_trade_id and let us detect missed
\* tickers between trades", that is, every ticker lost since the stream was
\* seeded and up to the newest accepted number lies in a gap on_gap reported.
LossDetected == \A s \in DOMAIN last_seq_ : Lost(s) \subseteq missed[s]
=============================================================================
