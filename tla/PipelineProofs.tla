--------------------------- MODULE PipelineProofs ---------------------------
(***************************************************************************)
(* Proofs about what an observation passes on its way to an alarm: the gap *)
(* detection of the handler (FeedHandler), the two polling adapters        *)
(* (Gridradar, Adsb), the calendar of the timestamps (Calendar), and the   *)
(* detection layers (Rules, Cusum, Baseline, Conformal).                   *)
(*                                                                         *)
(* Gap detection is sound for every set of streams, ring capacity and      *)
(* number of trades, frames and reconnects.                                *)
(***************************************************************************)
EXTENDS FeedHandler, Gridradar, Adsb, Calendar, Rules, Cusum, Baseline, Conformal,
        NumberLemmas, FiniteSetTheorems, SequenceTheorems, TLAPS

IInv ==
    /\ TypeOK
    /\ GateInv
    /\ EverySeqAccounted
    /\ GapsAreFinal
    /\ RingOrdered

LEMMA InitInv == Init => IInv
<1> SUFFICES ASSUME Init PROVE IInv
  OBVIOUS
<1>1. DOMAIN last_seq_ = {}
  BY DEF Init, NoBaselines
<1>2. TypeOK
  BY <1>1, FeedAssumption DEF Init, TypeOK, Seqs
<1>3. GateInv
  BY <1>1 DEF Init, GateInv
<1>4. EverySeqAccounted /\ GapsAreFinal /\ RingOrdered
  BY <1>1 DEF Init, EverySeqAccounted, GapsAreFinal, RingOrdered
<1> QED
  BY <1>2, <1>3, <1>4 DEF IInv

\* A step that leaves the gate, the ring and the connection alone.
LEMMA FeedStep ==
    ASSUME IInv, UNCHANGED <<gateVars, ring, conn>>,
           trades' \in [Streams -> 0..MaxTrades], wire' \subseteq Frames
    PROVE  IInv'
<1>1. TypeOK'
  BY DEF IInv, TypeOK, gateVars
<1>2. GateInv'
  BY DEF IInv, GateInv, gateVars
<1>3. EverySeqAccounted' /\ GapsAreFinal' /\ RingOrdered'
  BY DEF IInv, EverySeqAccounted, GapsAreFinal, RingOrdered, gateVars
<1> QED
  BY <1>1, <1>2, <1>3 DEF IInv

\* What accept_seq does to the record of the connection, for a seq n of stream
\* s that it accepts as a ticker (a = {n}, b = {}) or a heartbeat (the reverse).
LEMMA GateStep ==
    ASSUME IInv, NEW s \in Streams, NEW n \in Seqs, Accepts(s, n), AcceptSeq(s, n),
           NEW a \in SUBSET {n}, NEW b \in SUBSET {n}, a \cup b = {n},
           accepted' = [accepted EXCEPT ![s] = @ \cup a],
           beaten' = [beaten EXCEPT ![s] = @ \cup b]
    PROVE  /\ DOMAIN last_seq_' = DOMAIN last_seq_ \cup {s}
           /\ last_seq_'[s] = n
           /\ \A r \in DOMAIN last_seq_ : last_seq_[r] <= last_seq_'[r]
           /\ \A r \in DOMAIN last_seq_' : last_seq_'[r] \in Seqs
           /\ base' \in [Streams -> 0..MaxTrades]
           /\ accepted' \in [Streams -> SUBSET Seqs]
           /\ beaten' \in [Streams -> SUBSET Seqs]
           /\ missed' \in [Streams -> SUBSET Seqs]
           /\ EverySeqAccounted'
           /\ GapsAreFinal'
           /\ \A r \in Streams \ DOMAIN last_seq_' :
                 accepted'[r] = {} /\ beaten'[r] = {} /\ missed'[r] = {}
           /\ \A r \in DOMAIN last_seq_' :
                 /\ base'[r] \in 1..last_seq_'[r]
                 /\ accepted'[r] \cup beaten'[r] \subseteq base'[r]..last_seq_'[r]
<1> USE FeedAssumption DEF Seqs
<1>1. /\ DOMAIN last_seq_' = DOMAIN last_seq_ \cup {s}
      /\ last_seq_'[s] = n
      /\ \A r \in DOMAIN last_seq_ : r # s => last_seq_'[r] = last_seq_[r]
  BY DEF AcceptSeq
<1>2. \A r \in DOMAIN last_seq_ : last_seq_[r] \in Seqs /\ r \in Streams
  BY DEF IInv, TypeOK
<1>3. /\ \A r \in DOMAIN last_seq_ : last_seq_[r] <= last_seq_'[r]
      /\ \A r \in DOMAIN last_seq_' : last_seq_'[r] \in Seqs
  BY <1>1, <1>2 DEF Accepts
<1>4. GapReported(s, n) \in SUBSET Seqs
  BY <1>2 DEF GapReported
<1>5. /\ base' \in [Streams -> 0..MaxTrades]
      /\ accepted' \in [Streams -> SUBSET Seqs]
      /\ beaten' \in [Streams -> SUBSET Seqs]
      /\ missed' \in [Streams -> SUBSET Seqs]
  BY <1>4 DEF IInv, TypeOK, AcceptSeq
<1>6. \A r \in Streams \ {s} :
         /\ base'[r] = base[r] /\ accepted'[r] = accepted[r]
         /\ beaten'[r] = beaten[r] /\ missed'[r] = missed[r]
  BY DEF IInv, TypeOK, AcceptSeq
<1>7. /\ accepted'[s] \cup beaten'[s] = accepted[s] \cup beaten[s] \cup {n}
      /\ missed'[s] = missed[s] \cup GapReported(s, n)
      /\ base'[s] = IF s \in DOMAIN last_seq_ THEN base[s] ELSE n
  BY DEF IInv, TypeOK, AcceptSeq
<1>8. CASE s \notin DOMAIN last_seq_
  <2>1. /\ accepted'[s] \cup beaten'[s] = {n} /\ missed'[s] = {} /\ base'[s] = n
    BY <1>7, <1>8 DEF IInv, GateInv, GapReported
  <2>2. EverySeqAccounted'
    BY <1>1, <1>2, <1>6, <2>1 DEF IInv, EverySeqAccounted
  <2>3. GapsAreFinal'
    BY <1>1, <1>2, <1>6, <2>1 DEF IInv, GapsAreFinal
  <2>4. \A r \in DOMAIN last_seq_' :
           /\ base'[r] \in 1..last_seq_'[r]
           /\ accepted'[r] \cup beaten'[r] \subseteq base'[r]..last_seq_'[r]
    BY <1>1, <1>2, <1>6, <2>1 DEF IInv, GateInv
  <2>5. \A r \in Streams \ DOMAIN last_seq_' :
           accepted'[r] = {} /\ beaten'[r] = {} /\ missed'[r] = {}
    BY <1>1, <1>6 DEF IInv, GateInv
  <2> QED
    BY <1>1, <1>3, <1>5, <2>2, <2>3, <2>4, <2>5
<1>9. CASE s \in DOMAIN last_seq_
  <2> DEFINE last == last_seq_[s]
  <2>1. /\ last < n /\ last \in Nat /\ base'[s] = base[s] /\ base[s] \in 1..last
        /\ base[s]..last \subseteq accepted[s] \cup beaten[s] \cup missed[s]
        /\ accepted[s] \cup beaten[s] \subseteq base[s]..last
        /\ missed[s] \cap (accepted[s] \cup beaten[s]) = {}
        /\ \A x \in missed[s] : base[s] < x /\ x < last /\ x \in Nat
    BY <1>2, <1>7, <1>9 DEF IInv, GateInv, EverySeqAccounted, GapsAreFinal, Accepts, TypeOK
  <2>2. GapReported(s, n) = (last + 1)..(n - 1)
    BY <1>9, <2>1 DEF GapReported
  <2>3. base'[s]..n \subseteq accepted'[s] \cup beaten'[s] \cup missed'[s]
    BY <1>7, <2>1, <2>2
  <2>4. missed'[s] \cap (accepted'[s] \cup beaten'[s]) = {}
    BY <1>7, <2>1, <2>2
  <2>5. \A x \in missed'[s] : base'[s] < x /\ x < n
    BY <1>7, <2>1, <2>2
  <2>6. base'[s] \in 1..n /\ accepted'[s] \cup beaten'[s] \subseteq base'[s]..n
    BY <1>7, <2>1
  <2>7. EverySeqAccounted'
    BY <1>1, <1>2, <1>6, <2>3 DEF IInv, EverySeqAccounted
  <2>8. GapsAreFinal'
    BY <1>1, <1>2, <1>6, <2>4, <2>5 DEF IInv, GapsAreFinal
  <2>9. \A r \in DOMAIN last_seq_' :
           /\ base'[r] \in 1..last_seq_'[r]
           /\ accepted'[r] \cup beaten'[r] \subseteq base'[r]..last_seq_'[r]
    BY <1>1, <1>2, <1>6, <2>6 DEF IInv, GateInv
  <2>10. \A r \in Streams \ DOMAIN last_seq_' :
            accepted'[r] = {} /\ beaten'[r] = {} /\ missed'[r] = {}
    BY <1>1, <1>6 DEF IInv, GateInv
  <2> QED
    BY <1>1, <1>3, <1>5, <2>7, <2>8, <2>9, <2>10
<1> QED
  BY <1>8, <1>9

\* A frame that is not "other" names a stream and a seq.
LEMMA FrameFields ==
    ASSUME NEW f \in Frames, f.kind # "other"
    PROVE  f.stream \in Streams /\ f.seq \in Seqs
BY DEF Frames

\* A message the gate has let through may be pushed, or refused by a full ring.
LEMMA AcceptStep ==
    ASSUME IInv, NEW f \in Frames, f.kind # "other",
           Accepts(f.stream, f.seq), AcceptSeq(f.stream, f.seq), Arrives(f),
           NEW a \in SUBSET {f.seq}, NEW b \in SUBSET {f.seq}, a \cup b = {f.seq},
           accepted' = [accepted EXCEPT ![f.stream] = @ \cup a],
           beaten' = [beaten EXCEPT ![f.stream] = @ \cup b],
           \/ ring' = ring
           \/ /\ Len(ring) < RingCapacity
              /\ ring' = Append(ring, [stream |-> f.stream, seq |-> f.seq, conn |-> conn])
    PROVE  IInv'
<1> DEFINE s == f.stream
           n == f.seq
           m == [stream |-> s, seq |-> n, conn |-> conn]
           R == [stream : Streams, seq : Seqs, conn : 1..MaxConnections]
<1>1. s \in Streams /\ n \in Seqs
  BY FrameFields
<1>2. /\ DOMAIN last_seq_' = DOMAIN last_seq_ \cup {s}
      /\ last_seq_'[s] = n
      /\ \A r \in DOMAIN last_seq_ : last_seq_[r] <= last_seq_'[r]
      /\ \A r \in DOMAIN last_seq_' : last_seq_'[r] \in Seqs
  <2>1. /\ DOMAIN last_seq_' = DOMAIN last_seq_ \cup {s}
        /\ last_seq_'[s] = n
    BY DEF AcceptSeq
  <2>2. \A r \in DOMAIN last_seq_ : last_seq_[r] <= last_seq_'[r]
    BY <1>1, GateStep
  <2>3. \A r \in DOMAIN last_seq_' : last_seq_'[r] \in Seqs
    BY <1>1, GateStep
  <2> QED
    BY <2>1, <2>2, <2>3
<1>3. /\ base' \in [Streams -> 0..MaxTrades]
      /\ accepted' \in [Streams -> SUBSET Seqs]
      /\ beaten' \in [Streams -> SUBSET Seqs]
      /\ missed' \in [Streams -> SUBSET Seqs]
  BY <1>1, GateStep
<1>4. EverySeqAccounted' /\ GapsAreFinal'
  BY <1>1, GateStep
<1>5. /\ \A r \in Streams \ DOMAIN last_seq_' :
            accepted'[r] = {} /\ beaten'[r] = {} /\ missed'[r] = {}
      /\ \A r \in DOMAIN last_seq_' :
            /\ base'[r] \in 1..last_seq_'[r]
            /\ accepted'[r] \cup beaten'[r] \subseteq base'[r]..last_seq_'[r]
  BY <1>1, GateStep
<1>6. /\ ring \in Seq(R) /\ Len(ring) <= RingCapacity
      /\ conn' = conn /\ conn \in 1..MaxConnections /\ trades' = trades
      /\ wire' \subseteq Frames
  BY DEF IInv, TypeOK, Arrives
<1>7. m \in R /\ m.stream = s /\ m.seq = n /\ m.conn = conn
  BY <1>1, <1>6
<1> HIDE DEF m, R
<1>8. /\ ring' \in Seq(R) /\ Len(ring') <= RingCapacity
      /\ \A i \in DOMAIN ring' :
            \/ i \in DOMAIN ring /\ ring'[i] = ring[i]
            \/ i = Len(ring) + 1 /\ ring'[i] = m
  <2>1. CASE ring' = ring
    BY <1>6, <2>1
  <2>2. CASE Len(ring) < RingCapacity /\ ring' = Append(ring, m)
    BY <1>6, <1>7, <2>2, FeedAssumption
  <2> QED
    BY <2>1, <2>2 DEF m
<1>9. TypeOK'
  BY <1>1, <1>2, <1>3, <1>6, <1>8 DEF IInv, TypeOK, R
<1>10. \A i \in DOMAIN ring :
          /\ ring[i].conn <= conn
          /\ ring[i].conn = conn =>
                /\ ring[i].stream \in DOMAIN last_seq_
                /\ ring[i].seq <= last_seq_[ring[i].stream]
          /\ ring[i] \in R
  BY <1>6 DEF IInv, GateInv
<1>11. GateInv'
  <2>1. ASSUME NEW i \in DOMAIN ring'
        PROVE  /\ ring'[i].conn <= conn
               /\ ring'[i].conn = conn =>
                     /\ ring'[i].stream \in DOMAIN last_seq_'
                     /\ ring'[i].seq <= last_seq_'[ring'[i].stream]
    <3>1. CASE ring'[i] = m
      BY <1>1, <1>2, <1>6, <1>7, <3>1 DEF Seqs
    <3>2. CASE i \in DOMAIN ring /\ ring'[i] = ring[i]
      <4>1. ASSUME ring[i].conn = conn
            PROVE  /\ ring[i].stream \in DOMAIN last_seq_'
                   /\ ring[i].seq <= last_seq_'[ring[i].stream]
        <5> DEFINE r == ring[i].stream
        <5>1. /\ r \in DOMAIN last_seq_ /\ ring[i].seq \in Nat
              /\ ring[i].seq <= last_seq_[r] /\ last_seq_[r] <= last_seq_'[r]
          BY <1>2, <1>10, <3>2, <4>1 DEF R, Seqs
        <5>2. last_seq_[r] \in Nat /\ last_seq_'[r] \in Nat
          <6>1. last_seq_[r] \in Seqs
            BY <5>1 DEF IInv, TypeOK
          <6>2. last_seq_'[r] \in Seqs
            BY <1>2, <5>1
          <6> QED
            BY <6>1, <6>2, FeedAssumption DEF Seqs
        <5> QED
          BY <1>2, <5>1, <5>2
      <4> QED
        BY <1>10, <3>2, <4>1
    <3> QED
      BY <1>8, <3>1, <3>2
  <2> QED
    BY <1>5, <1>6, <2>1 DEF GateInv
<1>12. RingOrdered'
  <2>1. SUFFICES ASSUME NEW i \in DOMAIN ring', NEW j \in DOMAIN ring', i < j,
                        ring'[i].stream = ring'[j].stream,
                        ring'[i].conn = ring'[j].conn
                 PROVE  ring'[i].seq < ring'[j].seq
    BY DEF RingOrdered
  <2>2. i \in DOMAIN ring /\ ring'[i] = ring[i]
    <3>1. DOMAIN ring = 1..Len(ring) /\ DOMAIN ring' = 1..Len(ring') /\ Len(ring) \in Nat
      BY <1>6, <1>8
    <3>2. j \in 1..Len(ring) \/ j = Len(ring) + 1
      BY <1>8, <3>1, Zenon
    <3>3. i \in 1..Len(ring')
      BY <3>1
    <3>4. i # Len(ring) + 1
      <4> DEFINE k == Len(ring)
      <4>1. k \in Nat /\ i < j /\ (j \in 1..k \/ j = k + 1)
        BY <2>1, <3>1, <3>2
      <4> HIDE DEF k
      <4>2. i # k + 1
        BY <4>1, <3>3
      <4> QED
        BY <4>2 DEF k
    <3> QED
      BY <1>8, <3>4
  <2>3. CASE j \in DOMAIN ring /\ ring'[j] = ring[j]
    BY <2>1, <2>2, <2>3 DEF IInv, RingOrdered
  <2>4. CASE ring'[j] = m
    <3>1. ring[i].conn = conn /\ ring[i].stream = s
      BY <1>7, <2>1, <2>2, <2>4
    <3>2. s \in DOMAIN last_seq_ /\ ring[i].seq <= last_seq_[s] /\ ring[i].seq \in Nat
      BY <1>10, <2>2, <3>1 DEF R, Seqs
    <3>3. last_seq_[s] < n /\ last_seq_[s] \in Nat /\ n \in Nat
      <4>1. last_seq_[s] \in Seqs
        BY <3>2 DEF IInv, TypeOK
      <4>2. last_seq_[s] < n
        BY <3>2 DEF Accepts
      <4> QED
        BY <1>1, <4>1, <4>2, FeedAssumption DEF Seqs
    <3> QED
      BY <1>7, <2>2, <2>4, <3>2, <3>3
  <2> QED
    BY <1>8, <2>3, <2>4
<1> QED
  BY <1>4, <1>9, <1>11, <1>12 DEF IInv

\* Taking the oldest message keeps the rest as it was.
LEMMA PopStep == IInv /\ Pop => IInv'
<1> SUFFICES ASSUME IInv, Pop PROVE IInv'
  OBVIOUS
<1> DEFINE R == [stream : Streams, seq : Seqs, conn : 1..MaxConnections]
<1>1. ring \in Seq(R) /\ ring # << >> /\ Len(ring) <= RingCapacity
  BY DEF IInv, TypeOK, Pop
<1> HIDE DEF R
<1>2. /\ ring' \in Seq(R) /\ Len(ring') = Len(ring) - 1 /\ Len(ring') \in Nat
      /\ DOMAIN ring' = 1..(Len(ring) - 1) /\ DOMAIN ring = 1..Len(ring)
      /\ \A i \in DOMAIN ring' : i + 1 \in DOMAIN ring /\ ring'[i] = ring[i + 1] /\ i \in Int
  BY <1>1 DEF Pop
<1>3. Len(ring') <= RingCapacity
  BY <1>1, <1>2, FeedAssumption
<1>4. TypeOK'
  BY <1>2, <1>3 DEF IInv, TypeOK, Pop, feedVars, gateVars, R
<1>5. GateInv'
  BY <1>2 DEF IInv, GateInv, Pop, gateVars
<1>6. EverySeqAccounted' /\ GapsAreFinal'
  BY DEF IInv, EverySeqAccounted, GapsAreFinal, Pop, gateVars
<1>7. RingOrdered'
  <2> SUFFICES ASSUME NEW i \in DOMAIN ring', NEW j \in DOMAIN ring', i < j,
                      ring'[i].stream = ring'[j].stream,
                      ring'[i].conn = ring'[j].conn
               PROVE  ring'[i].seq < ring'[j].seq
    BY DEF RingOrdered
  <2>1. i + 1 < j + 1
    BY <1>2
  <2> QED
    BY <1>2, <2>1 DEF IInv, RingOrdered
<1> QED
  BY <1>4, <1>5, <1>6, <1>7 DEF IInv

\* A reconnect forgets the connection's record and keeps the ring.
LEMMA ReconnectStep == IInv /\ Reconnect => IInv'
<1> SUFFICES ASSUME IInv, Reconnect PROVE IInv'
  OBVIOUS
<1>1. DOMAIN last_seq_' = {}
  BY DEF Reconnect, NoBaselines
<1>2. conn' = conn + 1 /\ conn' \in 1..MaxConnections /\ conn \in Nat
  BY FeedAssumption DEF IInv, TypeOK, Reconnect
<1>3. /\ base' = [s \in Streams |-> 0] /\ accepted' = [s \in Streams |-> {}]
      /\ beaten' = [s \in Streams |-> {}] /\ missed' = [s \in Streams |-> {}]
      /\ ring' = ring /\ trades' = trades /\ wire' = {}
  BY DEF Reconnect
<1>4. TypeOK'
  BY <1>1, <1>2, <1>3, FeedAssumption DEF IInv, TypeOK
<1>5. GateInv'
  <2>1. \A i \in DOMAIN ring : ring[i].conn \in Nat /\ ring[i].conn <= conn
    <3> DEFINE R == [stream : Streams, seq : Seqs, conn : 1..MaxConnections]
    <3>1. ring \in Seq(R)
      BY DEF IInv, TypeOK
    <3>2. \A i \in DOMAIN ring : ring[i] \in R
      <4> HIDE DEF R
      <4> QED
        BY <3>1
    <3>3. \A i \in DOMAIN ring : ring[i].conn \in 1..MaxConnections
      BY <3>2
    <3> QED
      BY <3>3, FeedAssumption DEF IInv, GateInv
  <2> QED
    BY <1>1, <1>2, <1>3, <2>1 DEF GateInv
<1>6. EverySeqAccounted' /\ GapsAreFinal' /\ RingOrdered'
  BY <1>1, <1>3 DEF IInv, EverySeqAccounted, GapsAreFinal, RingOrdered
<1> QED
  BY <1>4, <1>5, <1>6 DEF IInv

LEMMA NextInv == IInv /\ [Next]_vars => IInv'
<1> SUFFICES ASSUME IInv, [Next]_vars PROVE IInv'
  OBVIOUS
<1>t. trades \in [Streams -> 0..MaxTrades] /\ wire \subseteq Frames
  BY DEF IInv, TypeOK
<1>1. ASSUME NEW s \in Streams, Trade(s) PROVE IInv'
  <2>1. trades' \in [Streams -> 0..MaxTrades] /\ trades[s] + 1 \in Seqs
    BY <1>t, <1>1, FeedAssumption DEF Trade, Seqs
  <2>2. wire' \subseteq Frames
    BY <1>t, <1>1, <2>1 DEF Trade, Send, Frames
  <2> QED
    BY <1>1, <2>1, <2>2, FeedStep DEF Trade, Send
<1>2. ASSUME NEW s \in Streams, Beat(s) PROVE IInv'
  <2>1. trades' = trades /\ trades[s] \in Seqs
    BY <1>t, <1>2, FeedAssumption DEF Beat, Seqs
  <2>2. wire' \subseteq Frames
    BY <1>t, <1>2, <2>1 DEF Beat, Send, Frames
  <2> QED
    BY <1>t, <1>2, <2>1, <2>2, FeedStep DEF Beat, Send
<1>3. CASE SendOther
  <2>1. wire' \subseteq Frames
    BY <1>t, <1>3 DEF SendOther, Send, Frames
  <2> QED
    BY <1>t, <1>3, <2>1, FeedStep DEF SendOther, Send
<1>4. ASSUME NEW f \in wire, Lose(f) PROVE IInv'
  BY <1>t, <1>4, FeedStep DEF Lose
<1>5. ASSUME NEW f \in wire, HandlePush(f) PROVE IInv'
  <2>1. /\ f \in Frames /\ f.kind # "other"
        /\ Accepts(f.stream, f.seq) /\ AcceptSeq(f.stream, f.seq) /\ Arrives(f)
        /\ accepted' = [accepted EXCEPT ![f.stream] = @ \cup {f.seq}]
        /\ Len(ring) < RingCapacity
        /\ ring' = Append(ring, [stream |-> f.stream, seq |-> f.seq, conn |-> conn])
    BY <1>t, <1>5 DEF HandlePush
  <2>2. beaten' = [beaten EXCEPT ![f.stream] = @ \cup {}]
    BY <1>5 DEF HandlePush, IInv, TypeOK
  <2>3. /\ {f.seq} \in SUBSET {f.seq} /\ {} \in SUBSET {f.seq}
        /\ {f.seq} \cup {} = {f.seq} /\ {} \cup {f.seq} = {f.seq}
    OBVIOUS
  <2> QED
    BY <2>1, <2>2, <2>3, AcceptStep, Zenon
<1>6. ASSUME NEW f \in wire, HandleRingFull(f) PROVE IInv'
  <2>1. /\ f \in Frames /\ f.kind # "other"
        /\ Accepts(f.stream, f.seq) /\ AcceptSeq(f.stream, f.seq) /\ Arrives(f)
        /\ accepted' = [accepted EXCEPT ![f.stream] = @ \cup {f.seq}]
        /\ ring' = ring
    BY <1>t, <1>6 DEF HandleRingFull
  <2>2. beaten' = [beaten EXCEPT ![f.stream] = @ \cup {}]
    BY <1>6 DEF HandleRingFull, IInv, TypeOK
  <2>3. /\ {f.seq} \in SUBSET {f.seq} /\ {} \in SUBSET {f.seq}
        /\ {f.seq} \cup {} = {f.seq} /\ {} \cup {f.seq} = {f.seq}
    OBVIOUS
  <2> QED
    BY <2>1, <2>2, <2>3, AcceptStep, Zenon
<1>7. ASSUME NEW f \in wire, HandleHeartbeat(f) PROVE IInv'
  <2>1. /\ f \in Frames /\ f.kind # "other"
        /\ Accepts(f.stream, f.seq) /\ AcceptSeq(f.stream, f.seq) /\ Arrives(f)
        /\ beaten' = [beaten EXCEPT ![f.stream] = @ \cup {f.seq}]
        /\ ring' = ring
    BY <1>t, <1>7 DEF HandleHeartbeat
  <2>2. accepted' = [accepted EXCEPT ![f.stream] = @ \cup {}]
    BY <1>7 DEF HandleHeartbeat, IInv, TypeOK
  <2>3. /\ {f.seq} \in SUBSET {f.seq} /\ {} \in SUBSET {f.seq}
        /\ {f.seq} \cup {} = {f.seq} /\ {} \cup {f.seq} = {f.seq}
    OBVIOUS
  <2> QED
    BY <2>1, <2>2, <2>3, AcceptStep, Zenon
<1>8. ASSUME NEW f \in wire, HandleIgnored(f) PROVE IInv'
  BY <1>t, <1>8, FeedStep DEF HandleIgnored, Arrives
<1>9. CASE Reconnect
  BY <1>9, ReconnectStep
<1>10. CASE Pop
  BY <1>10, PopStep
<1>11. CASE UNCHANGED vars
  BY <1>t, <1>11, FeedStep DEF vars, feedVars
<1> QED
  BY <1>1, <1>2, <1>3, <1>4, <1>5, <1>6, <1>7, <1>8, <1>9, <1>10, <1>11 DEF Next

LEMMA Invariance == Spec => []IInv
BY InitInv, NextInv, PTL DEF Spec

\* Between a stream's seed and its newest accepted number every number is
\* accepted from a ticker, accepted from a heartbeat, or reported missing.
THEOREM GapDetectionComplete == Spec => []EverySeqAccounted
BY Invariance, PTL DEF IInv

\* No reported number is ever accepted, and no report crosses a reconnect.
THEOREM GapDetectionSound == Spec => []GapsAreFinal
BY Invariance, PTL DEF IInv

\* The detection pipeline sees each stream in strictly increasing order within
\* a connection.
THEOREM ConsumerOrder == Spec => []RingOrdered
BY Invariance, PTL DEF IInv

\* The map last_seq_ and the ring agree with what happened on the connection.
THEOREM GateSafety == Spec => [](TypeOK /\ GateInv)
BY Invariance, PTL DEF IInv

-----------------------------------------------------------------------------
(* Gridradar.  The stream is strictly ordered as a whole, not only from    *)
(* one sample to the next; last_ts is its last sample, and every gap ends  *)
(* no later than that.                                                     *)

GridShape ==
    /\ Len(emitted) = seq_
    /\ \A i, j \in 1..Len(emitted) : i < j => emitted[i].ts < emitted[j].ts
    /\ \A i \in 1..Len(emitted) : emitted[i].seq = i /\ emitted[i].ts >= Start + i - 1
    /\ has_last_ => seq_ > 0 /\ last_ts = emitted[seq_].ts
    /\ ~has_last_ => seq_ = 0 /\ gaps = {}
    /\ \A g \in gaps : g[2] <= last_ts

GridIInv == GridTypeOK /\ GridShape /\ EverySecondAccounted

LEMMA GridInitial == GridInit => GridIInv
<1> SUFFICES ASSUME GridInit PROVE GridIInv
  OBVIOUS
<1>1. emitted = << >> /\ Len(emitted) = 0 /\ emitted \in Seq(Messages)
      /\ response \in Seq(Times \cup {Bad})
  BY DEF GridInit
<1>2. GridTypeOK
  <2>1. seq_ \in 0..(MaxTime - Start + 1)
    BY TimeAssumption DEF GridInit
  <2> QED  BY <1>1, <2>1 DEF GridInit, GridTypeOK
<1>3. GridShape /\ EverySecondAccounted
  BY <1>1 DEF GridInit, GridShape, EverySecondAccounted
<1> QED  BY <1>2, <1>3 DEF GridIInv

\* What the invariant says of numbers.
LEMMA GridNumbers ==
    ASSUME GridIInv
    PROVE  /\ Len(emitted) \in Nat /\ seq_ = Len(emitted) /\ emitted \in Seq(Messages)
           /\ \A i \in 1..Len(emitted) :
                 /\ emitted[i] \in Messages /\ emitted[i].ts \in Times /\ emitted[i].ts \in Nat
           /\ has_last_ => /\ Len(emitted) \in 1..Len(emitted) /\ last_ts = emitted[Len(emitted)].ts
                           /\ last_ts \in Times /\ last_ts \in Nat /\ 1 \in 1..Len(emitted)
           /\ has_last_ => \A i \in 1..Len(emitted) : emitted[i].ts <= last_ts
           /\ ~has_last_ => Len(emitted) = 0
<1>1. /\ emitted \in Seq(Messages) /\ Len(emitted) \in Nat /\ seq_ = Len(emitted)
      /\ \A i \in 1..Len(emitted) : emitted[i] \in Messages
  BY DEF GridIInv, GridTypeOK, GridShape
<1>2. \A m \in Messages : m.ts \in Times /\ m.ts \in Nat
  BY TimeAssumption DEF Messages, Times
<1>3. \A i \in 1..Len(emitted) : emitted[i].ts \in Times /\ emitted[i].ts \in Nat
  BY <1>1, <1>2, Zenon
<1>4. has_last_ => Len(emitted) > 0 /\ last_ts = emitted[Len(emitted)].ts
  BY <1>1 DEF GridIInv, GridShape
<1>5. ~has_last_ => Len(emitted) = 0
  BY <1>1 DEF GridIInv, GridShape
<1>6. has_last_ => Len(emitted) \in 1..Len(emitted) /\ 1 \in 1..Len(emitted)
  BY <1>1, <1>4
<1>7. ASSUME has_last_, NEW i \in 1..Len(emitted) PROVE emitted[i].ts <= last_ts
  <2>1. i < Len(emitted) \/ i = Len(emitted)
    BY <1>1
  <2>2. i < Len(emitted) => emitted[i].ts < emitted[Len(emitted)].ts
    BY <1>6, <1>7, Zenon DEF GridIInv, GridShape
  <2> QED  BY <1>3, <1>4, <1>6, <1>7, <2>1, <2>2
<1> QED  BY <1>1, <1>3, <1>4, <1>5, <1>6, <1>7

LEMMA GridRestStep ==
    ASSUME GridIInv, UNCHANGED <<seq_, last_ts, has_last_, emitted, gaps>>,
           response' \in Seq(Times \cup {Bad})
    PROVE  GridIInv'
BY DEF GridIInv, GridTypeOK, GridShape, EverySecondAccounted, Emitted

\* A sample is accepted.
LEMMA GridAcceptStep ==
    ASSUME GridIInv, NEW ts \in Times, Accept(ts) PROVE GridIInv'
<1> DEFINE n == Len(emitted)
           m == [ts |-> ts, seq |-> seq_ + 1]
<1>0. GridTypeOK /\ GridShape /\ EverySecondAccounted
  BY DEF GridIInv
<1>1. /\ n \in Nat /\ seq_ = n /\ emitted \in Seq(Messages) /\ ts \in Nat
      /\ \A i \in 1..n : emitted[i] \in Messages /\ emitted[i].ts \in Times /\ emitted[i].ts \in Nat
      /\ has_last_ => /\ n \in 1..n /\ last_ts = emitted[n].ts /\ 1 \in 1..n
                      /\ last_ts \in Times /\ last_ts \in Nat
      /\ has_last_ => \A i \in 1..n : emitted[i].ts <= last_ts
      /\ ~has_last_ => n = 0
  BY GridNumbers, TimeAssumption DEF Times
<1>2. has_last_ => last_ts < ts
  BY <1>1 DEF Accept, Stale
<1>3. ts >= Start + n
  <2>1. CASE has_last_
    <3>1. emitted[n].ts >= Start + n - 1
      BY <1>0, <1>1, <2>1, Zenon DEF GridShape
    <3> QED  BY <1>1, <1>2, <2>1, <3>1, TimeAssumption
  <2>2. CASE ~has_last_
    BY <1>1, <2>2, TimeAssumption DEF Times
  <2> QED  BY <2>1, <2>2
<1>4. n + 1 \in 1..(MaxTime - Start + 1)
  BY <1>1, <1>3, TimeAssumption DEF Times
<1>5. m \in Messages /\ m.ts = ts /\ m.seq = n + 1
  BY <1>1, <1>4 DEF Messages
<1>6. emitted' = Append(emitted, m) /\ seq_' = n + 1 /\ last_ts' = ts /\ has_last_' = TRUE
  BY <1>1 DEF Accept
<1> HIDE DEF m
<1>7. /\ emitted' \in Seq(Messages) /\ Len(emitted') = n + 1 /\ emitted'[n + 1] = m
      /\ \A i \in 1..n : emitted'[i] = emitted[i]
  BY <1>1, <1>5, <1>6
<1>8. \A i \in 1..(n + 1) : i \in 1..n \/ i = n + 1
  BY <1>1
<1>9. \A i \in 1..n : i \in 1..(n + 1) /\ i < n + 1
  BY <1>1
<1> HIDE DEF n
<1>t. GridTypeOK'
  <2>1. response' \in Seq(Times \cup {Bad})
    BY <1>0 DEF GridTypeOK, Accept
  <2>2. gaps' \in SUBSET (Times \X Times)
    <3>1. CASE IsGap(ts)
      BY <1>0, <1>1, <3>1 DEF GridTypeOK, Accept, IsGap
    <3>2. CASE ~IsGap(ts)
      BY <1>0, <3>2 DEF GridTypeOK, Accept
    <3> QED  BY <3>1, <3>2
  <2>3. seq_' \in 0..(MaxTime - Start + 1)
    BY <1>1, <1>4, <1>6, TimeAssumption
  <2> QED  BY <1>6, <1>7, <2>1, <2>2, <2>3 DEF GridTypeOK
<1>o. \A i \in 1..n : emitted[i].ts < ts
  BY <1>1, <1>2
<1>g. \A g \in gaps : has_last_ /\ g[2] <= last_ts /\ g[1] \in Nat /\ g[2] \in Nat
  BY <1>0, TimeAssumption DEF GridShape, GridTypeOK, Times
<1>h. \A g \in gaps' : g \in gaps \/ (IsGap(ts) /\ g = <<last_ts, ts>>)
  BY Zenon DEF Accept
<1>s. GridShape'
  <2>1. ASSUME NEW i \in 1..(n + 1), NEW j \in 1..(n + 1), i < j
        PROVE  emitted'[i].ts < emitted'[j].ts
    <3>1. i \in 1..n
      BY <1>1, <2>1
    <3>2. CASE j \in 1..n
      BY <1>0, <1>7, <2>1, <3>1, <3>2 DEF GridShape, n
    <3>3. CASE j = n + 1
      BY <1>5, <1>7, <1>o, <3>1, <3>3
    <3> QED  BY <1>8, <3>2, <3>3
  <2>2. ASSUME NEW i \in 1..(n + 1)
        PROVE  emitted'[i].seq = i /\ emitted'[i].ts >= Start + i - 1
    <3>1. CASE i \in 1..n
      BY <1>0, <1>7, <3>1 DEF GridShape, n
    <3>2. CASE i = n + 1
      <4>1. emitted'[i].seq = n + 1 /\ emitted'[i].ts = ts
        BY <1>5, <1>7, <3>2, Zenon
      <4> QED  BY <1>1, <1>3, <3>2, <4>1, TimeAssumption
    <3> QED  BY <1>8, <3>1, <3>2
  <2>3. last_ts' = emitted'[n + 1].ts /\ n + 1 > 0
    BY <1>1, <1>5, <1>6, <1>7
  <2>4. \A g \in gaps' : g[2] <= last_ts'
    BY <1>1, <1>2, <1>6, <1>g, <1>h
  <2> QED  BY <1>6, <1>7, <2>1, <2>2, <2>3, <2>4 DEF GridShape
<1>e. \A t : Emitted(t)' <=> (Emitted(t) \/ t = ts)
  <2>1. n + 1 \in 1..(n + 1)
    BY <1>1
  <2> SUFFICES ASSUME NEW t PROVE Emitted(t)' <=> (Emitted(t) \/ t = ts)
    OBVIOUS
  <2>2. Emitted(t)' <=> \E i \in 1..(n + 1) : emitted'[i].ts = t
    BY <1>7 DEF Emitted
  <2>3. Emitted(t) <=> \E i \in 1..n : emitted[i].ts = t
    BY DEF Emitted, n
  <2>4. emitted'[n + 1].ts = ts
    BY <1>5, <1>7
  <2> QED  BY <1>7, <1>8, <1>9, <2>1, <2>2, <2>3, <2>4, Zenon
<1>f. \A t : Emitted(t) => has_last_ /\ t \in Nat /\ t <= last_ts
  <2>1. \A i \in 1..n : has_last_
    BY <1>1
  <2> QED  BY <1>1, <2>1, Zenon DEF Emitted, n
<1>l. has_last_ => Emitted(last_ts) /\ emitted'[1] = emitted[1]
  BY <1>1, <1>7, Zenon DEF Emitted, n
<1>a. EverySecondAccounted'
  <2>1. ASSUME NEW t \in Times, emitted'[1].ts < t, t < ts
        PROVE  Emitted(t)' <=> ~\E g \in gaps' : Inside(t, g)
    <3>0. t \in Nat
      BY TimeAssumption DEF Times
    <3>1. has_last_
      <4> SUFFICES ASSUME ~has_last_ PROVE FALSE
        OBVIOUS
      <4>1. n = 0 /\ n + 1 = 1
        BY <1>1
      <4>2. emitted'[1].ts = ts
        BY <1>5, <1>7, <4>1
      <4> QED  BY <1>1, <2>1, <3>0, <4>2
    <3>2. \A g \in gaps : Inside(t, g) => t < last_ts
      BY <1>g, <1>1, <3>0, <3>1 DEF Inside
    <3>3. CASE t < last_ts
      <4>1. Emitted(t) <=> ~\E g \in gaps : Inside(t, g)
        BY <1>0, <1>l, <2>1, <3>1, <3>3 DEF EverySecondAccounted
      <4>2. ~Inside(t, <<last_ts, ts>>)
        BY <1>1, <3>0, <3>1, <3>3 DEF Inside
      <4>3. (\E g \in gaps' : Inside(t, g)) <=> (\E g \in gaps : Inside(t, g))
        BY <4>2, Zenon DEF Accept
      <4>4. t # ts
        BY <1>1, <2>1, <3>0
      <4> QED  BY <1>e, <4>1, <4>3, <4>4
    <3>4. CASE t = last_ts
      <4>1. \A g \in gaps : ~Inside(t, g)
        BY <1>1, <3>0, <3>1, <3>2, <3>4
      <4>2. ~Inside(t, <<last_ts, ts>>)
        BY <1>1, <3>1, <3>4 DEF Inside
      <4>3. \A g \in gaps' : ~Inside(t, g)
        BY <1>h, <4>1, <4>2, Zenon
      <4> QED  BY <1>e, <1>l, <3>1, <3>4, <4>3, Zenon
    <3>5. CASE t > last_ts
      <4>1. IsGap(ts) /\ Inside(t, <<last_ts, ts>>)
        BY <1>1, <2>1, <3>0, <3>1, <3>5 DEF IsGap, Inside
      <4>2. <<last_ts, ts>> \in gaps'
        BY <4>1 DEF Accept
      <4>3. ~Emitted(t) /\ t # ts
        BY <1>1, <1>f, <2>1, <3>0, <3>1, <3>5
      <4> QED  BY <1>e, <4>1, <4>2, <4>3, Zenon
    <3> QED  BY <1>1, <3>0, <3>1, <3>3, <3>4, <3>5
  <2>2. ASSUME NEW g \in gaps' PROVE Emitted(g[1])' /\ Emitted(g[2])'
    <3>1. CASE g \in gaps
      BY <1>0, <1>e, <3>1 DEF EverySecondAccounted
    <3>2. CASE IsGap(ts) /\ g = <<last_ts, ts>>
      <4>1. g[1] = last_ts /\ g[2] = ts /\ has_last_
        BY <3>2 DEF IsGap
      <4> QED  BY <1>e, <1>l, <4>1, Zenon
    <3> QED  BY <1>h, <3>1, <3>2
  <2>3. ASSUME NEW g \in gaps', NEW h \in gaps', g # h, NEW t \in Times, Inside(t, g), Inside(t, h)
        PROVE  FALSE
    <3>0. t \in Nat
      BY TimeAssumption DEF Times
    <3>1. \A k \in gaps : ~(Inside(t, k) /\ Inside(t, <<last_ts, ts>>))
      BY <1>1, <1>g, <3>0 DEF Inside
    <3>2. CASE g \in gaps /\ h \in gaps
      BY <1>0, <2>3, <3>2 DEF EverySecondAccounted
    <3> QED  BY <1>h, <2>3, <3>1, <3>2, Zenon
  <2> QED  BY <1>6, <2>1, <2>2, <2>3, Zenon DEF EverySecondAccounted
<1> QED  BY <1>t, <1>s, <1>a DEF GridIInv

LEMMA GridStep == GridIInv /\ [GridNext]_gridVars => GridIInv'
<1> SUFFICES ASSUME GridIInv, [GridNext]_gridVars PROVE GridIInv'
  OBVIOUS
<1>0. response \in Seq(Times \cup {Bad})
  BY DEF GridIInv, GridTypeOK
<1>1. CASE Poll
  <2>1. PICK k \in 1..MaxBatch : response' \in [1..k -> Times \cup {Bad}]
    BY <1>1 DEF Poll
  <2>2. k \in Nat
    BY TimeAssumption
  <2>3. response' \in Seq(Times \cup {Bad})
    BY <2>1, <2>2, FunctionIsSeq
  <2> QED  BY <1>1, <2>3, GridRestStep DEF Poll
<1>2. CASE Skip
  <2>1. response' \in Seq(Times \cup {Bad})
    BY <1>0, <1>2 DEF Skip
  <2> QED  BY <1>2, <2>1, GridRestStep DEF Skip
<1>3. CASE UNCHANGED gridVars
  BY <1>0, <1>3, GridRestStep DEF gridVars
<1> QED  BY <1>1, <1>2, <1>3, GridAcceptStep DEF GridNext

\* GridradarHandler::parse_response, for any feed and any polls: the stream is
\* numbered and strictly ordered, and the reported gaps are exactly the seconds it
\* lacks, each inside one of them.
THEOREM GridAccounted == GridSpec => []StreamAccountsForTime
<1>1. GridIInv => StreamAccountsForTime
  <2> SUFFICES ASSUME GridIInv PROVE OneOrderedStream
    BY DEF GridIInv, StreamAccountsForTime
  <2>1. \A i \in 1..Len(emitted) : emitted[i].seq = i
    BY DEF GridIInv, GridShape
  <2>2. ASSUME NEW i \in 1..Len(emitted), i > 1 PROVE emitted[i - 1].ts < emitted[i].ts
    <3>1. i - 1 \in 1..Len(emitted) /\ i - 1 < i
      BY <2>2, GridNumbers
    <3> QED  BY <3>1 DEF GridIInv, GridShape
  <2> QED  BY <2>1, <2>2 DEF OneOrderedStream
<1> QED  BY <1>1, GridInitial, GridStep, PTL DEF GridSpec

-----------------------------------------------------------------------------
(* Adsb.  The registry grows in the order of arrival until it is at its    *)
(* cap, and the id of a stream is its place in that order; the cap is at   *)
(* most the number of ids, so no id is given twice.                        *)

StreamRecords == [stream_id : Ids, last_ts : Instants, seq : 1..MaxInstant]

\* arrivals lists the aircraft that sent a complete sample, each once.
ArrivedOnce ==
    /\ \A i, j \in 1..Len(arrivals) : arrivals[i] = arrivals[j] => i = j
    /\ \A hex \in Hexes :
          offered[hex] # {} <=> \E i \in 1..Len(arrivals) : arrivals[i] = hex

\* The registry has a stream per arrival, up to its cap.
RegistryCounted ==
    /\ IsFiniteSet(Registered)
    /\ Cardinality(Registered) =
          IF Len(arrivals) < max_streams_ THEN Len(arrivals) ELSE max_streams_

\* The record of a stream agrees with what was emitted for it and polled.
RecordsAgree ==
    \A hex \in Registered :
       /\ Len(out[streams_[hex].stream_id]) = streams_[hex].seq
       /\ out[streams_[hex].stream_id][streams_[hex].seq].ts = streams_[hex].last_ts
       /\ streams_[hex].seq <= streams_[hex].last_ts
       /\ \A t \in offered[hex] : t <= streams_[hex].last_ts

\* Nothing was emitted under an id that no aircraft has.
UnusedSilent ==
    \A id \in Ids :
       (\A hex \in Registered : streams_[hex].stream_id # id) => out[id] = << >>

AdsbIInv ==
    /\ AdsbTypeOK /\ FirstComeFirstServed /\ StreamsOrdered
    /\ ArrivedOnce /\ RegistryCounted /\ RecordsAgree /\ UnusedSilent

-----------------------------------------------------------------------------
LEMMA AdsbInitial == AdsbInit => AdsbIInv
<1> SUFFICES ASSUME AdsbInit PROVE AdsbIInv
  OBVIOUS
<1>1. Registered = {} /\ Len(arrivals) = 0 /\ arrivals = << >>
  BY DEF AdsbInit, Registered
<1>2. IsFiniteSet(Registered) /\ Cardinality(Registered) = 0
  BY <1>1, FS_EmptySet
<1>3. AdsbTypeOK
  BY <1>1, <1>2, CapAssumption DEF AdsbInit, AdsbTypeOK
<1>4. RegistryCounted
  BY <1>1, <1>2, CapAssumption DEF RegistryCounted
<1>5. /\ FirstComeFirstServed /\ StreamsOrdered /\ ArrivedOnce /\ RecordsAgree /\ UnusedSilent
  <2>1. 1..Len(arrivals) = {}
    BY <1>1
  <2>2. \A id \in Ids : out[id] = << >> /\ 1..Len(out[id]) = {}
    BY DEF AdsbInit
  <2>3. \A hex \in Hexes : offered[hex] = {}
    BY DEF AdsbInit
  <2> QED  BY <1>1, <2>1, <2>2, <2>3
           DEF FirstComeFirstServed, StreamsOrdered, ArrivedOnce, RecordsAgree, UnusedSilent
<1> QED  BY <1>3, <1>4, <1>5 DEF AdsbIInv

\* The id of the i-th arrival.
IdOf(i) == (base_stream_id_ + i - 1) % Word

LEMMA IdsDiffer ==
    ASSUME NEW i \in 1..max_streams_, NEW j \in 1..max_streams_, i # j
    PROVE  IdOf(i) # IdOf(j)
<1>1. /\ base_stream_id_ + i - 1 \in Nat /\ base_stream_id_ + j - 1 \in Nat
      /\ Word \in Nat \ {0}
  BY CapAssumption, IdAssumption
<1>2. ASSUME NEW k \in 1..max_streams_, NEW l \in 1..max_streams_, k < l
      PROVE  IdOf(k) # IdOf(l)
  <2> DEFINE x == base_stream_id_ + k - 1
             y == base_stream_id_ + l - 1
  <2>1. x \in Nat /\ y \in Nat /\ Word \in Nat \ {0} /\ x < y /\ y < x + Word
    BY <1>2, CapAssumption, IdAssumption
  <2> HIDE DEF x, y
  <2>2. x % Word # y % Word
    BY <2>1, RemaindersDiffer
  <2> QED  BY <2>2 DEF x, y, IdOf
<1>3. i < j \/ j < i
  BY CapAssumption
<1> QED  BY <1>2, <1>3

LEMMA IdInRange == ASSUME NEW i \in Nat \ {0} PROVE IdOf(i) \in Ids
<1>1. base_stream_id_ + i - 1 \in Nat /\ Word \in Nat \ {0}
  BY CapAssumption, IdAssumption
<1> DEFINE x == base_stream_id_ + i - 1
<1> HIDE DEF x
<1>2. x % Word \in 0..(Word - 1)
  BY <1>1, DivMod DEF x
<1> QED  BY <1>2 DEF IdOf, Ids, x

\* What the registry holds is the beginning of arrivals.
LEMMA RegistryIsPrefix ==
    ASSUME AdsbIInv
    PROVE  /\ Len(arrivals) \in Nat /\ max_streams_ \in Nat
           /\ \A i \in 1..Len(arrivals) : arrivals[i] \in Hexes
           /\ \A hex : hex \in Registered <=>
                 \E i \in 1..Len(arrivals) : i \in 1..max_streams_ /\ arrivals[i] = hex
           /\ \A i \in 1..Len(arrivals) :
                 i \in 1..max_streams_ => streams_[arrivals[i]].stream_id = IdOf(i)
           /\ \A hex \in Registered : hex \in Hexes /\ streams_[hex] \in StreamRecords
<1>1. arrivals \in Seq(Hexes) /\ Len(arrivals) \in Nat /\ max_streams_ \in Nat
      /\ \A i \in 1..Len(arrivals) : arrivals[i] \in Hexes
  BY CapAssumption DEF AdsbIInv, AdsbTypeOK
<1>2. \A hex : hex \in Registered <=>
         \E i \in 1..Len(arrivals) : i \in 1..max_streams_ /\ arrivals[i] = hex
  BY Zenon DEF AdsbIInv, FirstComeFirstServed
<1>3. \A i \in 1..Len(arrivals) :
         i \in 1..max_streams_ => streams_[arrivals[i]].stream_id = IdOf(i)
  BY <1>1 DEF AdsbIInv, FirstComeFirstServed, IdOf
<1>4. \A hex \in Registered : hex \in Hexes /\ streams_[hex] \in StreamRecords
  BY DEF Registered, AdsbIInv, AdsbTypeOK, StreamRecords
<1> QED  BY <1>1, <1>2, <1>3, <1>4

\* No two aircraft share a stream.
LEMMA StreamsDistinct ==
    ASSUME AdsbIInv, NEW g \in Registered, NEW h \in Registered, g # h
    PROVE  streams_[g].stream_id # streams_[h].stream_id
<1>1. PICK i \in 1..Len(arrivals) : i \in 1..max_streams_ /\ arrivals[i] = g
  BY RegistryIsPrefix
<1>2. PICK j \in 1..Len(arrivals) : j \in 1..max_streams_ /\ arrivals[j] = h
  BY RegistryIsPrefix
<1>3. i # j
  BY <1>1, <1>2
<1>4. IdOf(i) # IdOf(j)
  BY <1>1, <1>2, <1>3, IdsDiffer
<1> QED  BY <1>1, <1>2, <1>4, RegistryIsPrefix

-----------------------------------------------------------------------------
\* A sample of a known aircraft, or of a new one: what the history variables do.
LEMMA Offered ==
    ASSUME AdsbIInv, NEW a \in Sightings, Offer(a)
    PROVE  /\ a.hex \in Hexes /\ a.ts \in Instants
           /\ aircraft' \in Seq(Sightings \cup {Incomplete})
           /\ offered' \in [Hexes -> SUBSET Instants]
           /\ offered'[a.hex] = offered[a.hex] \cup {a.ts}
           /\ \A h \in Hexes \ {a.hex} : offered'[h] = offered[h]
           /\ arrivals' \in Seq(Hexes)
           /\ arrivals' = (IF offered[a.hex] = {} THEN Append(arrivals, a.hex) ELSE arrivals)
           /\ ArrivedOnce'
<1>0. AdsbTypeOK /\ ArrivedOnce
  BY DEF AdsbIInv
<1>1. a.hex \in Hexes /\ a.ts \in Instants
  BY DEF Sightings
<1>2. aircraft' \in Seq(Sightings \cup {Incomplete})
  BY <1>0 DEF AdsbTypeOK, Offer
<1>3. /\ offered' \in [Hexes -> SUBSET Instants]
      /\ offered'[a.hex] = offered[a.hex] \cup {a.ts}
      /\ \A h \in Hexes \ {a.hex} : offered'[h] = offered[h]
  BY <1>0, <1>1 DEF AdsbTypeOK, Offer
<1>4. /\ arrivals \in Seq(Hexes) /\ Len(arrivals) \in Nat
      /\ arrivals' = (IF offered[a.hex] = {} THEN Append(arrivals, a.hex) ELSE arrivals)
  BY <1>0 DEF AdsbTypeOK, Offer
<1>5. CASE offered[a.hex] # {}
  <2>1. arrivals' = arrivals
    BY <1>4, <1>5
  <2>2. ArrivedOnce'
    BY <1>0, <1>1, <1>3, <1>5, <2>1 DEF ArrivedOnce
  <2> QED  BY <1>1, <1>2, <1>3, <1>4, <2>1, <2>2
<1>6. CASE offered[a.hex] = {}
  <2> DEFINE n == Len(arrivals)
  <2>1. /\ arrivals' = Append(arrivals, a.hex) /\ arrivals' \in Seq(Hexes)
        /\ Len(arrivals') = n + 1 /\ arrivals'[n + 1] = a.hex
        /\ \A k \in 1..n : arrivals'[k] = arrivals[k]
    BY <1>1, <1>4, <1>6
  <2>2. /\ \A k \in 1..(n + 1) : k \in 1..n \/ k = n + 1
        /\ \A k \in 1..n : k \in 1..(n + 1)
        /\ n + 1 \in 1..(n + 1)
    BY <1>4
  <2>3. \A k \in 1..n : arrivals[k] # a.hex
    BY <1>0, <1>1, <1>6, Zenon DEF ArrivedOnce
  <2>4. \A k, l \in 1..n : arrivals[k] = arrivals[l] => k = l
    BY <1>0 DEF ArrivedOnce
  <2>5. \A h \in Hexes : offered[h] # {} <=> \E k \in 1..n : arrivals[k] = h
    BY <1>0, Zenon DEF ArrivedOnce
  <2> HIDE DEF n
  <2>6. \A k, l \in 1..(n + 1) : arrivals'[k] = arrivals'[l] => k = l
    BY <2>1, <2>2, <2>3, <2>4, Zenon
  <2>7. ASSUME NEW h \in Hexes
        PROVE  offered'[h] # {} <=> \E k \in 1..(n + 1) : arrivals'[k] = h
    <3>1. CASE h = a.hex
      BY <1>3, <2>1, <2>2, <3>1
    <3>2. CASE h # a.hex
      BY <1>3, <2>1, <2>2, <2>5, <3>2, Zenon
    <3> QED  BY <3>1, <3>2
  <2>8. ArrivedOnce'
    BY <2>1, <2>6, <2>7 DEF ArrivedOnce
  <2> QED  BY <1>1, <1>2, <1>3, <1>4, <2>1, <2>8
<1> QED  BY <1>5, <1>6

\* A sample is emitted for the aircraft of a, whose record becomes st.
LEMMA Emits ==
    ASSUME AdsbIInv, NEW a \in Sightings, Offer(a),
           NEW st \in StreamRecords, st.last_ts = a.ts, st.seq <= st.last_ts,
           streams_' = [streams_ EXCEPT ![a.hex] = st], Emit(st),
           \A g \in Registered \ {a.hex} : streams_[g].stream_id # st.stream_id,
           a.hex \in Registered => streams_[a.hex].stream_id = st.stream_id,
           Len(out[st.stream_id]) + 1 = st.seq,
           st.seq > 1 => out[st.stream_id][st.seq - 1].ts < a.ts,
           \A t \in offered[a.hex] : t <= a.ts
    PROVE  /\ Registered' = Registered \cup {a.hex}
           /\ streams_'[a.hex] = st
           /\ \A g \in Hexes \ {a.hex} : streams_'[g] = streams_[g]
           /\ streams_' \in [Hexes -> StreamRecords \cup {NoStream}]
           /\ out' \in [Ids -> Seq([ts : Instants, seq : 1..MaxInstant])]
           /\ StreamsOrdered' /\ RecordsAgree' /\ UnusedSilent'
<1> DEFINE id == st.stream_id
           m == [ts |-> st.last_ts, seq |-> st.seq]
           M == [ts : Instants, seq : 1..MaxInstant]
<1>0. AdsbTypeOK /\ StreamsOrdered /\ RecordsAgree /\ UnusedSilent /\ a.hex \in Hexes
  BY DEF AdsbIInv, Sightings
<1>1. id \in Ids /\ m \in M /\ m.ts = a.ts /\ m.seq = st.seq /\ st.seq \in Nat /\ a.ts \in Nat
      /\ a.ts \in Instants
  BY InstantAssumption DEF StreamRecords, Sightings, Instants
<1>2. st # NoStream
  BY <1>1, CapAssumption DEF StreamRecords, NoStream, Ids
<1>3. /\ streams_'[a.hex] = st
      /\ \A g \in Hexes \ {a.hex} : streams_'[g] = streams_[g]
      /\ streams_' \in [Hexes -> StreamRecords \cup {NoStream}]
  BY <1>0 DEF AdsbTypeOK, StreamRecords
<1>4. Registered' = Registered \cup {a.hex}
  BY <1>0, <1>2, <1>3, Zenon DEF Registered
<1>5. out \in [Ids -> Seq(M)] /\ out' = [out EXCEPT ![id] = Append(out[id], m)]
  BY <1>0 DEF AdsbTypeOK, Emit
<1> HIDE DEF m, M
<1>6. /\ out' \in [Ids -> Seq(M)] /\ out'[id] = Append(out[id], m)
      /\ \A k \in Ids \ {id} : out'[k] = out[k]
  BY <1>1, <1>5
<1>7. /\ Len(out[id]) \in Nat /\ Len(out'[id]) = st.seq /\ out'[id][st.seq] = m
      /\ \A k \in 1..Len(out[id]) : out'[id][k] = out[id][k]
  <2> DEFINE o == out[id]
  <2>1. o \in Seq(M)
    BY <1>1, <1>5
  <2> HIDE DEF o
  <2>2. /\ Len(o) \in Nat /\ Len(Append(o, m)) = Len(o) + 1 /\ Append(o, m)[Len(o) + 1] = m
        /\ \A k \in 1..Len(o) : Append(o, m)[k] = o[k]
    BY <1>1, <2>1
  <2> QED  BY <1>6, <2>2 DEF o
<1> HIDE DEF id
<1>8. \A g \in Registered \ {a.hex} : /\ streams_[g].stream_id \in Ids
                                      /\ streams_[g].stream_id # id
                                      /\ g \in Hexes
  BY RegistryIsPrefix DEF StreamRecords, id
<1>9. StreamsOrdered'
  <2>1. ASSUME NEW k \in 1..Len(out'[id])
        PROVE  /\ out'[id][k].seq = k
               /\ k > 1 => out'[id][k - 1].ts < out'[id][k].ts
    <3>1. CASE k = st.seq
      <4>1. out'[id][k] = m
        BY <1>7, <3>1
      <4>2. ASSUME k > 1 PROVE out'[id][k - 1].ts < out'[id][k].ts
        <5>1. k - 1 \in 1..Len(out[id])
          BY <1>1, <1>7, <3>1, <4>2 DEF id
        <5>2. out'[id][k - 1] = out[id][k - 1]
          BY <1>7, <5>1
        <5>3. out[id][k - 1].ts < a.ts
          BY <3>1, <4>2 DEF id
        <5> QED  BY <1>1, <4>1, <5>2, <5>3
      <4> QED  BY <1>1, <3>1, <4>1, <4>2
    <3>2. CASE k # st.seq
      <4>1. k \in 1..Len(out[id]) /\ (k > 1 => k - 1 \in 1..Len(out[id]))
        BY <1>1, <1>7, <3>2 DEF id
      <4>2. out[id][k].seq = k /\ (k > 1 => out[id][k - 1].ts < out[id][k].ts)
        BY <1>0, <1>1, <4>1, Zenon DEF StreamsOrdered, id
      <4> QED  BY <1>7, <4>1, <4>2
    <3> QED  BY <3>1, <3>2
  <2>2. ASSUME NEW j \in Ids, j # id, NEW k \in 1..Len(out'[j])
        PROVE  /\ out'[j][k].seq = k
               /\ k > 1 => out'[j][k - 1].ts < out'[j][k].ts
    <3>1. out'[j] = out[j]
      BY <1>6, <2>2
    <3> QED  BY <1>0, <3>1 DEF StreamsOrdered
  <2> QED  BY <2>1, <2>2, Zenon DEF StreamsOrdered
<1>10. RecordsAgree'
  <2> SUFFICES ASSUME NEW h \in Registered'
               PROVE  /\ Len(out'[streams_'[h].stream_id]) = streams_'[h].seq
                      /\ out'[streams_'[h].stream_id][streams_'[h].seq].ts = streams_'[h].last_ts
                      /\ streams_'[h].seq <= streams_'[h].last_ts
                      /\ \A t \in offered'[h] : t <= streams_'[h].last_ts
    BY DEF RecordsAgree
  <2>1. CASE h = a.hex
    <3>1. \A t \in offered'[a.hex] : t <= a.ts
      BY <1>1, Offered
    <3> QED  BY <1>1, <1>3, <1>7, <2>1, <3>1 DEF id
  <2>2. CASE h # a.hex
    <3>1. h \in Registered /\ h \in Hexes /\ streams_'[h] = streams_[h] /\ offered'[h] = offered[h]
      BY <1>3, <1>4, <1>8, <2>2, Offered
    <3>2. out'[streams_[h].stream_id] = out[streams_[h].stream_id]
      BY <1>6, <1>8, <2>2, <3>1
    <3> QED  BY <1>0, <3>1, <3>2 DEF RecordsAgree
  <2> QED  BY <2>1, <2>2
<1>11. UnusedSilent'
  <2> SUFFICES ASSUME NEW j \in Ids, \A h \in Registered' : streams_'[h].stream_id # j
               PROVE  out'[j] = << >>
    BY DEF UnusedSilent
  <2>1. j # id
    BY <1>3, <1>4 DEF id
  <2>2. \A h \in Registered : streams_[h].stream_id # j
    <3> SUFFICES ASSUME NEW h \in Registered PROVE streams_[h].stream_id # j
      OBVIOUS
    <3>1. CASE h = a.hex
      BY <2>1, <3>1 DEF id
    <3>2. CASE h # a.hex
      BY <1>3, <1>4, <1>8, <3>2
    <3> QED  BY <3>1, <3>2
  <2> QED  BY <1>0, <1>6, <2>1, <2>2 DEF UnusedSilent
<1> QED  BY <1>3, <1>4, <1>6, <1>9, <1>10, <1>11 DEF M

\* A sample that is not emitted leaves the registry as it was.
LEMMA Ignored ==
    ASSUME AdsbIInv, NEW a \in Sightings, Offer(a), UNCHANGED <<streams_, out>>,
           offered[a.hex] # {} \/ max_streams_ <= Len(arrivals),
           a.hex \in Registered => a.ts <= streams_[a.hex].last_ts
    PROVE  AdsbIInv'
<1>0. /\ AdsbTypeOK /\ FirstComeFirstServed /\ StreamsOrdered
      /\ ArrivedOnce /\ RegistryCounted /\ RecordsAgree /\ UnusedSilent
  BY DEF AdsbIInv
<1>1. streams_' = streams_ /\ out' = out /\ Registered' = Registered
  BY DEF Registered
<1>2. AdsbTypeOK'
  BY <1>0, <1>1, Offered DEF AdsbTypeOK
<1>3. /\ Len(arrivals) \in Nat /\ Len(arrivals') \in Nat /\ Len(arrivals) <= Len(arrivals')
      /\ \A i \in 1..Len(arrivals) : arrivals'[i] = arrivals[i]
      /\ Len(arrivals') = Len(arrivals) \/ max_streams_ <= Len(arrivals)
  <2>1. arrivals \in Seq(Hexes) /\ a.hex \in Hexes
    BY <1>0, Offered DEF AdsbTypeOK
  <2>2. CASE arrivals' = arrivals
    BY <2>1, <2>2
  <2>3. CASE arrivals' = Append(arrivals, a.hex) /\ max_streams_ <= Len(arrivals)
    BY <2>1, <2>3
  <2> QED  BY <2>2, <2>3, Offered
<1>4. max_streams_ \in Nat
  BY CapAssumption
<1>5. \A i \in Nat : i \in 1..Len(arrivals') /\ i \in 1..max_streams_
                        <=> i \in 1..Len(arrivals) /\ i \in 1..max_streams_
  BY <1>3, <1>4
<1>6. FirstComeFirstServed'
  <2>1. {arrivals'[i] : i \in 1..Len(arrivals') \cap 1..max_streams_}
           = {arrivals[i] : i \in 1..Len(arrivals) \cap 1..max_streams_}
    <3>1. 1..Len(arrivals') \cap 1..max_streams_ = 1..Len(arrivals) \cap 1..max_streams_
      BY <1>3, <1>4
    <3> QED  BY <1>3, <3>1
  <2>2. ASSUME NEW i \in 1..Len(arrivals'), i <= max_streams_
        PROVE  streams_'[arrivals'[i]].stream_id = (base_stream_id_ + i - 1) % Word
    <3>1. i \in 1..Len(arrivals)
      BY <1>3, <1>4, <2>2
    <3> QED  BY <1>0, <1>1, <1>3, <2>2, <3>1 DEF FirstComeFirstServed
  <2>3. Registered = {arrivals[i] : i \in 1..Len(arrivals) \cap 1..max_streams_}
    BY <1>0 DEF FirstComeFirstServed
  <2>4. Registered' = {arrivals'[i] : i \in 1..Len(arrivals') \cap 1..max_streams_}
    BY <1>1, <2>1, <2>3
  <2> QED  BY <2>2, <2>4 DEF FirstComeFirstServed
<1>7. StreamsOrdered' /\ UnusedSilent'
  BY <1>0, <1>1 DEF StreamsOrdered, UnusedSilent
<1>8. RegistryCounted'
  BY <1>0, <1>1, <1>3, <1>4 DEF RegistryCounted
<1>9. RecordsAgree'
  <2> SUFFICES ASSUME NEW hex \in Registered
               PROVE  /\ Len(out[streams_[hex].stream_id]) = streams_[hex].seq
                      /\ out[streams_[hex].stream_id][streams_[hex].seq].ts = streams_[hex].last_ts
                      /\ streams_[hex].seq <= streams_[hex].last_ts
                      /\ \A t \in offered'[hex] : t <= streams_[hex].last_ts
    BY <1>1 DEF RecordsAgree
  <2>1. \A t \in offered[hex] : t <= streams_[hex].last_ts
    BY <1>0 DEF RecordsAgree
  <2>2. hex \in Hexes
    BY DEF Registered
  <2>3. \A t \in offered'[hex] : t <= streams_[hex].last_ts
    BY <2>1, <2>2, Offered
  <2> QED  BY <1>0, <2>3 DEF RecordsAgree
<1> QED  BY <1>2, <1>6, <1>7, <1>8, <1>9, Offered DEF AdsbIInv

LEMMA IgnoreNewKeeps ==
    ASSUME AdsbIInv, NEW a \in Sightings, IgnoreNew(a) PROVE AdsbIInv'
<1>1. Offer(a) /\ a.hex \notin Registered /\ AtCap /\ UNCHANGED <<streams_, out>>
  BY DEF IgnoreNew
<1>2. Len(arrivals) \in Nat /\ max_streams_ \in Nat
  BY RegistryIsPrefix
<1>3. max_streams_ <= Len(arrivals)
  BY <1>1, <1>2 DEF AtCap, AdsbIInv, RegistryCounted
<1> QED  BY <1>1, <1>3, Ignored

\* An aircraft with a stream has been offered, and never arrives again.
LEMMA RegisteredArrived ==
    ASSUME AdsbIInv, NEW h \in Registered PROVE h \in Hexes /\ offered[h] # {}
<1>1. PICK i \in 1..Len(arrivals) : arrivals[i] = h
  BY RegistryIsPrefix
<1>2. h \in Hexes
  BY DEF Registered
<1> QED  BY <1>1, <1>2, Zenon DEF AdsbIInv, ArrivedOnce

LEMMA IgnoreStaleKeeps ==
    ASSUME AdsbIInv, NEW a \in Sightings, IgnoreStale(a) PROVE AdsbIInv'
<1>1. Offer(a) /\ a.hex \in Registered /\ UNCHANGED <<streams_, out>>
      /\ a.ts <= streams_[a.hex].last_ts
  BY DEF IgnoreStale, StaleAircraft
<1>2. offered[a.hex] # {}
  BY <1>1, RegisteredArrived
<1> QED  BY <1>1, <1>2, Ignored

LEMMA UpdateStreamKeeps ==
    ASSUME AdsbIInv, NEW a \in Sightings, UpdateStream(a) PROVE AdsbIInv'
<1> DEFINE old == streams_[a.hex]
           st == [old EXCEPT !.last_ts = a.ts, !.seq = @ + 1]
<1>0. /\ AdsbTypeOK /\ FirstComeFirstServed /\ StreamsOrdered
      /\ ArrivedOnce /\ RegistryCounted /\ RecordsAgree /\ UnusedSilent
  BY DEF AdsbIInv
<1>1. /\ Offer(a) /\ a.hex \in Registered /\ ~(a.ts <= old.last_ts)
      /\ streams_' = [streams_ EXCEPT ![a.hex] = st] /\ Emit(st)
  BY DEF UpdateStream, StaleAircraft
<1>2. old \in StreamRecords /\ a.hex \in Hexes /\ a.ts \in Instants
  BY <1>1, RegistryIsPrefix DEF Sightings
<1>3. /\ Len(out[old.stream_id]) = old.seq
      /\ out[old.stream_id][old.seq].ts = old.last_ts
      /\ old.seq <= old.last_ts
      /\ \A t \in offered[a.hex] : t <= old.last_ts
  BY <1>0, <1>1 DEF RecordsAgree
<1>4. \A g \in Registered \ {a.hex} : streams_[g].stream_id # old.stream_id
  BY <1>1, StreamsDistinct
<1>5. offered[a.hex] # {} /\ arrivals' = arrivals
  BY <1>1, RegisteredArrived, Offered
<1> HIDE DEF old
<1>6. /\ old.seq \in Nat \ {0} /\ old.last_ts \in Nat /\ a.ts \in Nat /\ old.last_ts < a.ts
      /\ a.ts <= MaxInstant /\ MaxInstant \in Nat /\ old.stream_id \in Ids
  BY <1>1, <1>2, InstantAssumption DEF StreamRecords, Instants
<1>7. st.last_ts = a.ts /\ st.seq = old.seq + 1 /\ st.stream_id = old.stream_id
  BY <1>2 DEF StreamRecords
<1>8. st \in StreamRecords
  <2>1. old.seq + 1 \in 1..MaxInstant
    BY <1>3, <1>6
  <2> QED  BY <1>2, <2>1 DEF StreamRecords
<1>9. /\ st.seq <= st.last_ts
      /\ Len(out[st.stream_id]) + 1 = st.seq
      /\ st.seq > 1 => out[st.stream_id][st.seq - 1].ts < a.ts
  <2>1. st.seq - 1 = old.seq
    BY <1>6, <1>7
  <2>2. st.seq <= st.last_ts
    <3>1. old.seq <= old.last_ts
      BY <1>3
    <3> QED  BY <1>6, <1>7, <3>1
  <2>3. Len(out[st.stream_id]) + 1 = st.seq
    BY <1>3, <1>7, Zenon
  <2>4. out[st.stream_id][st.seq - 1].ts < a.ts
    BY <1>3, <1>6, <1>7, <2>1, Zenon
  <2> QED  BY <2>2, <2>3, <2>4, Zenon
<1>10. \A t \in offered[a.hex] : t <= a.ts
  <2>1. \A t \in offered[a.hex] : t \in Nat
    BY <1>0, <1>2, InstantAssumption DEF AdsbTypeOK, Instants
  <2> QED  BY <1>3, <1>6, <2>1
<1> HIDE DEF st
<1>11. /\ Registered' = Registered \cup {a.hex}
       /\ streams_'[a.hex] = st
       /\ \A g \in Hexes \ {a.hex} : streams_'[g] = streams_[g]
       /\ streams_' \in [Hexes -> StreamRecords \cup {NoStream}]
       /\ out' \in [Ids -> Seq([ts : Instants, seq : 1..MaxInstant])]
       /\ StreamsOrdered' /\ RecordsAgree' /\ UnusedSilent'
  BY <1>1, <1>4, <1>7, <1>8, <1>9, <1>10, Emits DEF old
<1>12. Registered' = Registered
  BY <1>1, <1>11
<1>13. AdsbTypeOK'
  BY <1>0, <1>1, <1>11, <1>12, Offered DEF AdsbTypeOK, StreamRecords
<1>14. FirstComeFirstServed'
  <2>1. \A g \in Hexes : streams_'[g].stream_id = streams_[g].stream_id
    BY <1>7, <1>11 DEF old
  <2>2. \A i \in 1..Len(arrivals) : arrivals[i] \in Hexes
    BY RegistryIsPrefix
  <2> QED  BY <1>0, <1>5, <1>12, <2>1, <2>2 DEF FirstComeFirstServed
<1>15. RegistryCounted'
  BY <1>0, <1>5, <1>12 DEF RegistryCounted
<1> QED  BY <1>1, <1>11, <1>13, <1>14, <1>15, Offered DEF AdsbIInv

LEMMA RegisterKeeps ==
    ASSUME AdsbIInv, NEW a \in Sightings, Register(a) PROVE AdsbIInv'
<1> DEFINE n == Len(arrivals)
           st == [stream_id |-> (base_stream_id_ + Cardinality(Registered)) % Word,
                  last_ts |-> a.ts, seq |-> 1]
<1>0. /\ AdsbTypeOK /\ FirstComeFirstServed /\ StreamsOrdered
      /\ ArrivedOnce /\ RegistryCounted /\ RecordsAgree /\ UnusedSilent
  BY DEF AdsbIInv
<1>1. /\ Offer(a) /\ a.hex \notin Registered /\ ~AtCap
      /\ streams_' = [streams_ EXCEPT ![a.hex] = st] /\ Emit(st)
  BY DEF Register
<1>2. n \in Nat /\ max_streams_ \in Nat /\ a.hex \in Hexes /\ a.ts \in Instants
  BY RegistryIsPrefix DEF Sightings
<1>3. n < max_streams_ /\ Cardinality(Registered) = n
  BY <1>0, <1>1, <1>2 DEF AtCap, RegistryCounted
<1>4. offered[a.hex] = {}
  <2> SUFFICES ASSUME offered[a.hex] # {} PROVE FALSE
    OBVIOUS
  <2>1. PICK i \in 1..n : arrivals[i] = a.hex
    BY <1>0, <1>2, Zenon DEF ArrivedOnce
  <2>2. i \in 1..max_streams_
    BY <1>2, <1>3
  <2> QED  BY <1>1, <2>1, <2>2, RegistryIsPrefix
<1>5. /\ Len(arrivals') = n + 1 /\ arrivals'[n + 1] = a.hex
      /\ \A i \in 1..n : arrivals'[i] = arrivals[i]
  <2>1. arrivals' = Append(arrivals, a.hex) /\ arrivals \in Seq(Hexes)
    BY <1>0, <1>1, <1>4, Offered DEF AdsbTypeOK
  <2> QED  BY <1>2, <2>1
<1>6. /\ st.stream_id = IdOf(n + 1) /\ st.last_ts = a.ts /\ st.seq = 1
      /\ st.stream_id \in Ids
  <2>1. base_stream_id_ + n = base_stream_id_ + (n + 1) - 1
    BY <1>2, IdAssumption
  <2>2. st.stream_id = IdOf(n + 1)
    BY <1>3, <2>1 DEF IdOf
  <2>3. IdOf(n + 1) \in Ids
    BY <1>2, IdInRange
  <2> QED  BY <2>2, <2>3
<1>7. st \in StreamRecords
  <2>1. 1 \in 1..MaxInstant
    BY <1>2, InstantAssumption DEF Instants
  <2>2. (base_stream_id_ + Cardinality(Registered)) % Word \in Ids
    BY <1>6
  <2> QED  BY <1>2, <2>1, <2>2 DEF StreamRecords
<1> HIDE DEF st
<1>8. \A g \in Registered : streams_[g].stream_id # st.stream_id
  <2> SUFFICES ASSUME NEW g \in Registered PROVE streams_[g].stream_id # st.stream_id
    OBVIOUS
  <2>1. PICK i \in 1..n : i \in 1..max_streams_ /\ arrivals[i] = g
    BY RegistryIsPrefix
  <2>2. streams_[g].stream_id = IdOf(i)
    BY <2>1, RegistryIsPrefix
  <2>3. n + 1 \in 1..max_streams_ /\ i # n + 1
    BY <1>2, <1>3
  <2>4. IdOf(i) # IdOf(n + 1)
    BY <2>1, <2>3, IdsDiffer
  <2> QED  BY <1>6, <2>2, <2>4
<1>9. out[st.stream_id] = << >>
  BY <1>0, <1>6, <1>8 DEF UnusedSilent
<1>10. /\ st.seq <= st.last_ts /\ ~(st.seq > 1)
       /\ Len(out[st.stream_id]) + 1 = st.seq
       /\ \A t \in offered[a.hex] : t <= a.ts
  <2>1. Len(out[st.stream_id]) = 0
    BY <1>9
  <2> QED  BY <1>2, <1>4, <1>6, <2>1, InstantAssumption DEF Instants
<1>11. /\ Registered' = Registered \cup {a.hex}
       /\ streams_'[a.hex] = st
       /\ \A g \in Hexes \ {a.hex} : streams_'[g] = streams_[g]
       /\ streams_' \in [Hexes -> StreamRecords \cup {NoStream}]
       /\ out' \in [Ids -> Seq([ts : Instants, seq : 1..MaxInstant])]
       /\ StreamsOrdered' /\ RecordsAgree' /\ UnusedSilent'
  BY <1>1, <1>6, <1>7, <1>8, <1>10, Emits
<1>12. IsFiniteSet(Registered') /\ Cardinality(Registered') = n + 1
  <2>1. IsFiniteSet(Registered)
    BY <1>0 DEF RegistryCounted
  <2> QED  BY <1>1, <1>3, <1>11, <2>1, FS_AddElement
<1>13. RegistryCounted'
  BY <1>2, <1>3, <1>5, <1>12 DEF RegistryCounted
<1>14. AdsbTypeOK'
  <2>1. Cardinality(Registered') <= max_streams_
    BY <1>2, <1>3, <1>12
  <2> QED  BY <1>1, <1>11, <2>1, Offered DEF AdsbTypeOK, StreamRecords
<1>15. FirstComeFirstServed'
  <2>1. /\ 1..(n + 1) \cap 1..max_streams_ = (1..n \cap 1..max_streams_) \cup {n + 1}
        /\ \A i \in 1..(n + 1) : i = n + 1 \/ i \in 1..n
        /\ n + 1 \notin 1..n
    BY <1>2, <1>3
  <2>2. Registered = {arrivals[i] : i \in 1..n \cap 1..max_streams_}
    BY <1>0 DEF FirstComeFirstServed
  <2>3. Registered' = {arrivals'[i] : i \in 1..(n + 1) \cap 1..max_streams_}
    <3> HIDE DEF n
    <3>1. {arrivals'[i] : i \in (1..n \cap 1..max_streams_) \cup {n + 1}}
             = {arrivals[i] : i \in 1..n \cap 1..max_streams_} \cup {a.hex}
      BY <1>5
    <3> QED  BY <1>11, <2>1, <2>2, <3>1
  <2>4. ASSUME NEW i \in 1..(n + 1), i <= max_streams_
        PROVE  streams_'[arrivals'[i]].stream_id = (base_stream_id_ + i - 1) % Word
    <3>1. CASE i = n + 1
      BY <1>5, <1>6, <1>11, <3>1 DEF IdOf
    <3>2. CASE i \in 1..n
      <4>1. arrivals'[i] = arrivals[i] /\ i \in 1..max_streams_
        BY <1>2, <1>3, <1>5, <3>2
      <4>2. arrivals[i] \in Registered /\ arrivals[i] # a.hex /\ arrivals[i] \in Hexes
        BY <1>1, <3>2, <4>1, RegistryIsPrefix
      <4>3. streams_[arrivals[i]].stream_id = IdOf(i)
        BY <3>2, <4>1, RegistryIsPrefix
      <4> QED  BY <1>11, <4>1, <4>2, <4>3 DEF IdOf
    <3> QED  BY <2>1, <3>1, <3>2
  <2> QED  BY <1>5, <2>3, <2>4 DEF FirstComeFirstServed
<1> QED  BY <1>1, <1>11, <1>13, <1>14, <1>15, Offered DEF AdsbIInv

LEMMA AdsbStep == AdsbIInv /\ [AdsbNext]_adsbVars => AdsbIInv'
<1> SUFFICES ASSUME AdsbIInv, [AdsbNext]_adsbVars PROVE AdsbIInv'
  OBVIOUS
<1>1. ASSUME aircraft' \in Seq(Sightings \cup {Incomplete}),
             UNCHANGED <<streams_, out, offered, arrivals>>
      PROVE  AdsbIInv'
  <2>1. /\ streams_' = streams_ /\ out' = out /\ offered' = offered /\ arrivals' = arrivals
        /\ Registered' = Registered
    BY <1>1 DEF Registered
  <2>2. AdsbTypeOK'
    BY <1>1, <2>1 DEF AdsbIInv, AdsbTypeOK
  <2>3. FirstComeFirstServed' /\ StreamsOrdered' /\ ArrivedOnce'
    BY <2>1 DEF AdsbIInv, FirstComeFirstServed, StreamsOrdered, ArrivedOnce
  <2>4. RegistryCounted' /\ RecordsAgree' /\ UnusedSilent'
    BY <2>1 DEF AdsbIInv, RegistryCounted, RecordsAgree, UnusedSilent
  <2> QED  BY <2>2, <2>3, <2>4 DEF AdsbIInv
<1>2. aircraft \in Seq(Sightings \cup {Incomplete})
  BY DEF AdsbIInv, AdsbTypeOK
<1>3. CASE PollAircraft
  <2>1. PICK n \in 1..MaxAircraft : aircraft' \in [1..n -> Sightings \cup {Incomplete}]
    BY <1>3 DEF PollAircraft
  <2>2. n \in Nat
    BY <2>1, InstantAssumption
  <2>3. aircraft' \in Seq(Sightings \cup {Incomplete})
    BY <2>1, <2>2, FunctionIsSeq
  <2> QED  BY <1>1, <1>3, <2>3 DEF PollAircraft
<1>4. CASE SkipIncomplete
  <2>1. aircraft' \in Seq(Sightings \cup {Incomplete})
    BY <1>2, <1>4 DEF SkipIncomplete
  <2> QED  BY <1>1, <1>4, <2>1 DEF SkipIncomplete
<1>5. ASSUME NEW a \in Sightings, AcceptAircraft(a) PROVE AdsbIInv'
  BY <1>5, IgnoreNewKeeps, RegisterKeeps, IgnoreStaleKeeps, UpdateStreamKeeps
     DEF AcceptAircraft
<1>6. CASE UNCHANGED adsbVars
  BY <1>1, <1>2, <1>6 DEF adsbVars
<1> QED  BY <1>3, <1>4, <1>5, <1>6 DEF AdsbNext

\* However the polls overlap, repeat or go back in time, and however many
\* aircraft, ids and timestamps there are: accept() gives the first
\* max_streams_ aircraft one stream each for good, numbers and orders the
\* messages of each, and never leaves one behind its newest sample.
THEOREM StreamsFollow == AdsbSpec => []StreamsFollowPolls
<1>1. AdsbIInv => StreamsFollowPolls
  <2> SUFFICES ASSUME AdsbIInv PROVE StreamsCurrent
    BY DEF AdsbIInv, StreamsFollowPolls
  <2> SUFFICES ASSUME NEW hex \in Registered
               PROVE  /\ out[streams_[hex].stream_id] # << >>
                      /\ \A t \in offered[hex] :
                            t <= out[streams_[hex].stream_id]
                                    [Len(out[streams_[hex].stream_id])].ts
    BY DEF StreamsCurrent
  <2>1. /\ Len(out[streams_[hex].stream_id]) = streams_[hex].seq
        /\ out[streams_[hex].stream_id][streams_[hex].seq].ts = streams_[hex].last_ts
        /\ \A t \in offered[hex] : t <= streams_[hex].last_ts
    BY DEF AdsbIInv, RecordsAgree
  <2>2. streams_[hex].seq \in Nat \ {0}
    BY RegistryIsPrefix, InstantAssumption DEF StreamRecords
  <2>3. out[streams_[hex].stream_id] # << >>
    BY <2>1, <2>2
  <2> QED  BY <2>1, <2>3
<1> QED  BY <1>1, AdsbInitial, AdsbStep, PTL DEF AdsbSpec

-----------------------------------------------------------------------------
(* Calendar.  The days of a date are those of the years before it, counted *)
(* in eras of 400 years that start in March, and those since that March;   *)
(* the two only meet at the end of February.                               *)

\* The days before the year that starts in March of y.
DaysBefore(y) ==
    LET era == y \div 400
        yoe == y - era * 400
    IN  era * 146097 + yoe * 365 + yoe \div 4 - yoe \div 100

\* The days from the first of March to the first of month m.
MonthOffset(m) ==
    CASE m = 1 -> 306 [] m = 2 -> 337 [] m = 3 -> 0 [] m = 4 -> 31
      [] m = 5 -> 61 [] m = 6 -> 92 [] m = 7 -> 122 [] m = 8 -> 153
      [] m = 9 -> 184 [] m = 10 -> 214 [] m = 11 -> 245 [] m = 12 -> 275

MarchYear(y, m) == IF m <= 2 THEN y - 1 ELSE y

LEMMA DayOfYearIs ==
    ASSUME NEW m \in 1..12, NEW d \in Int
    PROVE  DayOfYear(m, d) = MonthOffset(m) + d - 1
<1>1. m = 1 \/ m = 2 \/ m = 3 \/ m = 4 \/ m = 5 \/ m = 6 \/ m = 7 \/ m = 8 \/ m = 9
      \/ m = 10 \/ m = 11 \/ m = 12
  OBVIOUS
<1>2. m > 2 => (m + (Unsigned - 3)) % Unsigned = m - 3
  BY DEF Unsigned
<1>3. m <= 2 => (m + 9) % Unsigned = m + 9
  BY DEF Unsigned
<1>4. CASE m <= 2
  <2>1. DayOfYear(m, d) = (153 * (m + 9) + 2) \div 5 + d - 1
    BY <1>3, <1>4 DEF DayOfYear
  <2>2. m = 1 \/ m = 2
    BY <1>4
  <2> QED  BY <2>1, <2>2 DEF MonthOffset
<1>5. CASE m > 2
  <2>1. DayOfYear(m, d) = (153 * (m - 3) + 2) \div 5 + d - 1
    BY <1>2, <1>5 DEF DayOfYear
  <2> QED  BY <1>1, <1>5, <2>1 DEF MonthOffset
<1> QED  BY <1>4, <1>5

LEMMA DaysAre ==
    ASSUME NEW y \in Nat, y > 0, NEW m \in 1..12, NEW d \in Int
    PROVE  /\ DaysFromCivil(y, m, d) = DaysBefore(MarchYear(y, m)) + MonthOffset(m) + d - 719469
           /\ GridDaysFromCivil(y, m, d) = DaysFromCivil(y, m, d)
<1>1. MarchYear(y, m) \in Nat
  BY DEF MarchYear
<1>2. DayOfYear(m, d) = MonthOffset(m) + d - 1
  BY DayOfYearIs
<1>3. DayOfYear(m, d) \in Int /\ MonthOffset(m) \in Int
  BY <1>2 DEF MonthOffset
<1>4. DaysBefore(MarchYear(y, m)) \in Int
  BY <1>1 DEF DaysBefore
<1>5. DaysFromCivil(y, m, d) = DaysBefore(MarchYear(y, m)) + DayOfYear(m, d) - 719468
  BY <1>1, <1>3 DEF DaysFromCivil, DaysBefore, MarchYear
<1>6. GridDaysFromCivil(y, m, d) = DaysFromCivil(y, m, d)
  BY DEF GridDaysFromCivil, DaysFromCivil
<1> QED  BY <1>2, <1>3, <1>4, <1>5, <1>6

\* A year that starts in March ends with the February of the next.
LEMMA YearLength ==
    ASSUME NEW y \in Nat, y > 0
    PROVE  DaysBefore(y) = DaysBefore(y - 1) + 365 + (IF Leap(y) THEN 1 ELSE 0)
<1>1. PICK e \in Nat, r \in 0..399 : y = 400 * e + r
  <2> DEFINE q == y \div 400
             m == y % 400
  <2>1. q \in Nat /\ m \in 0..399 /\ y = 400 * q + m
    OBVIOUS
  <2> HIDE DEF q, m
  <2> QED  BY <2>1
<1>2. y \div 400 = e
  BY <1>1
<1>3. DaysBefore(y) = e * 146097 + r * 365 + r \div 4 - r \div 100
  BY <1>1, <1>2 DEF DaysBefore
<1>4. y % 4 = r % 4 /\ y % 100 = r % 100 /\ y % 400 = r
  BY <1>1
<1>5. CASE r = 0
  <2>1. (y - 1) \div 400 = e - 1
    BY <1>1, <1>5
  <2>2. DaysBefore(y - 1) = (e - 1) * 146097 + 399 * 365 + 399 \div 4 - 399 \div 100
    BY <1>1, <1>5, <2>1 DEF DaysBefore
  <2>3. Leap(y)
    BY <1>4, <1>5 DEF Leap
  <2> QED  BY <1>3, <1>5, <2>2, <2>3
<1>6. CASE r > 0
  <2>1. (y - 1) \div 400 = e
    BY <1>1, <1>6
  <2>2. DaysBefore(y - 1) = e * 146097 + (r - 1) * 365 + (r - 1) \div 4 - (r - 1) \div 100
    BY <1>1, <1>6, <2>1 DEF DaysBefore
  <2>3. Leap(y) <=> r % 4 = 0 /\ r % 100 # 0
    BY <1>4, <1>6 DEF Leap
  <2>4. r \div 4 - (r - 1) \div 4 = IF r % 4 = 0 THEN 1 ELSE 0
    OBVIOUS
  <2>5. r \div 100 - (r - 1) \div 100 = IF r % 100 = 0 THEN 1 ELSE 0
    OBVIOUS
  <2>6. r % 100 = 0 => r % 4 = 0
    OBVIOUS
  <2> QED  BY <1>3, <2>2, <2>3, <2>4, <2>5, <2>6
<1> QED  BY <1>5, <1>6

\* The first day of a month follows the last of the month before.
LEMMA NextMonth ==
    ASSUME NEW y \in Nat, y > 0, NEW m \in 1..11
    PROVE  DaysFromCivil(y, m + 1, 1) = DaysFromCivil(y, m, MonthLength(y, m)) + 1
<1> DEFINE len == MonthLength(y, m)
<1>1. len \in Int /\ m + 1 \in 1..12 /\ m \in 1..12
  BY DEF MonthLength
<1>2. DaysFromCivil(y, m, len) = DaysBefore(MarchYear(y, m)) + MonthOffset(m) + len - 719469
  BY <1>1, DaysAre
<1>3. DaysFromCivil(y, m + 1, 1)
        = DaysBefore(MarchYear(y, m + 1)) + MonthOffset(m + 1) + 1 - 719469
  BY <1>1, DaysAre
<1>4. DaysBefore(y) \in Int /\ DaysBefore(y - 1) \in Int
  BY DEF DaysBefore
<1>5. CASE m = 2
  <2>1. len = 28 + (IF Leap(y) THEN 1 ELSE 0)
    BY <1>5 DEF MonthLength
  <2>2. MarchYear(y, m) = y - 1 /\ MarchYear(y, m + 1) = y
    BY <1>5 DEF MarchYear
  <2>3. MonthOffset(m) = 337 /\ MonthOffset(m + 1) = 0
    BY <1>5 DEF MonthOffset
  <2> QED  BY <1>2, <1>3, <1>4, <2>1, <2>2, <2>3, YearLength
<1>6. CASE m # 2
  <2>1. MarchYear(y, m) = MarchYear(y, m + 1)
    BY <1>6 DEF MarchYear
  <2>2. m = 1 \/ m = 3 \/ m = 4 \/ m = 5 \/ m = 6 \/ m = 7 \/ m = 8 \/ m = 9
        \/ m = 10 \/ m = 11
    BY <1>6
  <2>3. MonthOffset(m + 1) = MonthOffset(m) + len
    BY <2>2 DEF MonthOffset, MonthLength
  <2>4. DaysBefore(MarchYear(y, m)) \in Int /\ MonthOffset(m) \in Int
    BY <1>4 DEF MarchYear, MonthOffset
  <2> QED  BY <1>1, <1>2, <1>3, <2>1, <2>3, <2>4
<1> QED  BY <1>5, <1>6

\* The first of January follows the last of December.
LEMMA NextYear ==
    ASSUME NEW y \in Nat, y > 0
    PROVE  DaysFromCivil(y + 1, 1, 1) = DaysFromCivil(y, 12, 31) + 1
<1>1. DaysFromCivil(y, 12, 31) = DaysBefore(y) + 275 + 31 - 719469
  BY DaysAre DEF MarchYear, MonthOffset
<1>2. DaysFromCivil(y + 1, 1, 1) = DaysBefore(y) + 306 + 1 - 719469
  <2>1. y + 1 \in Nat /\ y + 1 > 0 /\ MarchYear(y + 1, 1) = y
    BY DEF MarchYear
  <2> QED  BY <2>1, DaysAre DEF MonthOffset
<1>3. DaysBefore(y) \in Int
  BY DEF DaysBefore
<1> QED  BY <1>1, <1>2, <1>3

-----------------------------------------------------------------------------
(* The fraction.  What has been read of it after i digits counts in units  *)
(* of the i-th.                                                            *)

Digit(s, i) == IF i <= Len(s) THEN s[i] ELSE 0
Reading(s) ==
    CHOOSE read : read = [i \in 0..9 |-> IF i = 0 THEN 0
                          ELSE read[i - 1] * 10 + (IF i <= Len(s) THEN s[i] ELSE 0)]

LEMMA FracNsIs == ASSUME NEW s PROVE FracNs(s) = Reading(s)[9]
BY DEF FracNs, Reading

LEMMA DigitType == ASSUME NEW s \in Seq(Int), NEW i \in 1..9 PROVE Digit(s, i) \in Int
BY DEF Digit

LEMMA ReadingExists ==
    ASSUME NEW s \in Seq(Int)
    PROVE  /\ Reading(s) \in [0..9 -> Int] /\ Reading(s)[0] = 0
           /\ \A i \in 1..9 : Reading(s)[i] = Reading(s)[i - 1] * 10 + Digit(s, i)
<1> DEFINE c == [i \in 1..9 |-> Digit(s, i)]
           h == [i \in Nat |-> [v \in Int |-> IF i \in 1..9 THEN v * 10 + c[i] ELSE 0]]
<1>0. \A i \in 1..9 : c[i] \in Int /\ c[i] = Digit(s, i)
  BY DigitType
<1> HIDE DEF c
<1>1. h \in StepsOn(Int)
  <2>1. \A i \in Nat : \A v \in Int : i \in 1..9 => v * 10 + c[i] \in Int
    <3> SUFFICES ASSUME NEW i \in 1..9, NEW v \in Int PROVE v * 10 + c[i] \in Int
      OBVIOUS
    <3>1. c[i] \in Int
      BY <1>0, Zenon
    <3> QED  BY <3>1
  <2>2. \A i \in Nat : \A v \in Int : (IF i \in 1..9 THEN v * 10 + c[i] ELSE 0) \in Int
    BY <2>1
  <2>3. \A i \in Nat : [v \in Int |-> IF i \in 1..9 THEN v * 10 + c[i] ELSE 0] \in [Int -> Int]
    BY <2>2, Zenon
  <2> QED  BY <2>3, Zenon DEF StepsOn
<1>2. \A i \in 1..9 : \A v \in Int : h[i][v] = v * 10 + c[i]
  OBVIOUS
<1> HIDE DEF h
<1>3. PICK f \in Solutions(Int, 0, h, 9) : TRUE
  <2>1. 0 \in Int /\ 9 \in Nat
    OBVIOUS
  <2>2. Solutions(Int, 0, h, 9) # {}
    BY <1>1, <2>1, Recursion, Zenon
  <2> QED  BY <2>2, Zenon
<1>4. f \in [0..9 -> Int] /\ f[0] = 0 /\ \A i \in 1..9 : f[i] = f[i - 1] * 10 + c[i]
  <2>1. f \in [0..9 -> Int] /\ f[0] = 0 /\ \A i \in 1..9 : f[i] = h[i][f[i - 1]]
    BY <1>3 DEF Solutions
  <2>2. \A i \in 1..9 : i - 1 \in 0..9 /\ f[i - 1] \in Int
    <3>1. \A i \in 1..9 : i - 1 \in 0..9
      OBVIOUS
    <3> QED  BY <2>1, <3>1, Zenon
  <2>3. \A i \in 1..9 : f[i] = f[i - 1] * 10 + c[i]
    BY <1>2, <2>1, <2>2, Zenon
  <2> QED  BY <2>1, <2>3
<1>5. f = [i \in 0..9 |-> IF i = 0 THEN 0
                         ELSE f[i - 1] * 10 + (IF i <= Len(s) THEN s[i] ELSE 0)]
  <2>1. \A i \in 1..9 : c[i] = IF i <= Len(s) THEN s[i] ELSE 0
    BY <1>0, Zenon DEF Digit
  <2>2. \A i \in 0..9 : i = 0 \/ i \in 1..9
    OBVIOUS
  <2>3. ASSUME NEW i \in 1..9
        PROVE  f[i] = f[i - 1] * 10 + (IF i <= Len(s) THEN s[i] ELSE 0)
    BY <1>4, <2>1, Zenon
  <2>4. \A i \in 0..9 : f[i] = IF i = 0 THEN 0
                         ELSE f[i - 1] * 10 + (IF i <= Len(s) THEN s[i] ELSE 0)
    BY <1>4, <2>2, <2>3, Zenon
  <2>5. f = [i \in 0..9 |-> f[i]]
    BY <1>4
  <2> QED  BY <2>4, <2>5, Zenon
<1> DEFINE r == Reading(s)
<1>6. r = [i \in 0..9 |-> IF i = 0 THEN 0
                         ELSE r[i - 1] * 10 + (IF i <= Len(s) THEN s[i] ELSE 0)]
  BY <1>5, Zenon DEF Reading
<1> HIDE DEF r
<1>7. r[0] = 0 /\ \A i \in 1..9 : r[i] = r[i - 1] * 10 + Digit(s, i)
  BY <1>6 DEF Digit
<1>8. \A i \in 0..9 : r[i] \in Int
  <2> DEFINE S == {k \in Nat : k <= 9 => r[k] \in Int}
  <2>1. 0 \in S
    BY <1>7
  <2>2. ASSUME NEW k \in Nat, k \in S PROVE k + 1 \in S
    <3> SUFFICES ASSUME k + 1 <= 9 PROVE r[k + 1] \in Int
      OBVIOUS
    <3>1. k + 1 \in 1..9 /\ (k + 1) - 1 = k /\ r[k] \in Int
      BY <2>2
    <3>2. r[k + 1] = r[k] * 10 + Digit(s, k + 1)
      BY <1>7, <3>1
    <3>3. Digit(s, k + 1) \in Int
      BY <3>1, DigitType
    <3> QED  BY <3>1, <3>2, <3>3
  <2> HIDE DEF S
  <2>3. \A k \in Nat : k \in S
    BY <2>1, <2>2, Induct, Zenon
  <2> QED  BY <2>3 DEF S
<1>9. r \in [0..9 -> Int]
  BY <1>6, <1>8
<1> QED  BY <1>7, <1>9 DEF r

\* The digits read, weighed: fewer than nine are scaled up.
LEMMA FractionExact ==
    ASSUME CalendarTypeOK
    PROVE  FracNs(fraction) = Nanoseconds
<1> DEFINE L == Len(fraction)
           n == IF L < 9 THEN L ELSE 9
           term == [i \in 1..n |-> fraction[i] * Power(10, 9 - i)]
           r == Reading(fraction)
           upTo(k) == IF k < n THEN k ELSE n
           S == {k \in Nat : k <= 9 => r[k] * Power(10, 9 - k) = SumTo(term, upTo(k))}
<1>0. fraction \in Seq(Int) /\ L \in Nat /\ n \in 0..9
  <2>0. fraction \in Seq(Digits)
    BY DEF CalendarTypeOK
  <2>1. Digits \subseteq Int
    BY CalendarAssumption
  <2>2. L \in Nat
    BY <2>0
  <2>3. fraction \in [1..L -> Int]
    <3>1. fraction \in [1..L -> Digits]
      BY <2>0
    <3> QED  BY <2>1, <3>1, Zenon
  <2>4. fraction \in Seq(Int)
    BY <2>2, <2>3, FunctionIsSeq, Zenon
  <2> HIDE DEF L
  <2>5. n \in 0..9
    BY <2>2
  <2> QED  BY <2>2, <2>4, <2>5
<1>1. /\ r \in [0..9 -> Int] /\ r[0] = 0
      /\ \A i \in 1..9 : r[i] = r[i - 1] * 10 + Digit(fraction, i)
  BY <1>0, ReadingExists
<1>2. \A i \in 1..9 : Power(10, 9 - i) \in Int /\ Power(10, 10 - i) = 10 * Power(10, 9 - i)
  <2> SUFFICES ASSUME NEW i \in 1..9
               PROVE  Power(10, 9 - i) \in Int /\ Power(10, 10 - i) = 10 * Power(10, 9 - i)
    OBVIOUS
  <2>1. 9 - i \in Nat /\ (9 - i) + 1 = 10 - i /\ 10 \in Int
    OBVIOUS
  <2>2. Power(10, 9 - i) \in Int
    BY <2>1, PowerType, Zenon
  <2>3. Power(10, (9 - i) + 1) = 10 * Power(10, 9 - i)
    BY <2>1, PowerStep, Zenon
  <2> QED  BY <2>1, <2>2, <2>3
<1>3. \A i \in 1..n : term[i] \in Int /\ term[i] = fraction[i] * Power(10, 9 - i)
  <2>1. \A i \in 1..n : term[i] = fraction[i] * Power(10, 9 - i)
    OBVIOUS
  <2>2. \A i \in 1..n : fraction[i] \in Int /\ i \in 1..9
    BY <1>0
  <2> HIDE DEF n, term
  <2>3. ASSUME NEW i \in 1..n PROVE term[i] \in Int
    <3>1. fraction[i] \in Int /\ Power(10, 9 - i) \in Int
      BY <1>2, <2>2, Zenon
    <3> QED  BY <2>1, <3>1
  <2> QED  BY <2>1, <2>3, Zenon
<1>4. \A i \in 1..n : i \in 1..9 /\ Digit(fraction, i) = fraction[i]
  BY <1>0 DEF Digit
<1>5. \A i \in 1..9 : i > n => Digit(fraction, i) = 0
  BY <1>0 DEF Digit
<1>6. FracNs(fraction) = r[9] /\ Nanoseconds = SumTo(term, n)
  BY FracNsIs DEF Nanoseconds
<1> HIDE DEF r, term, L, n
<1>7. 0 \in S
  <2>1. upTo(0) = 0
    BY <1>0
  <2>2. SumTo(term, 0) = 0
    BY SumEmpty
  <2>3. Power(10, 9) \in Int
    <3>1. 10 \in Int /\ 9 \in Nat
      OBVIOUS
    <3> QED  BY <3>1, PowerType, Zenon
  <2> QED  BY <1>1, <2>1, <2>2, <2>3
<1>8. \A k \in Nat : k \in S => k + 1 \in S
  <2> SUFFICES ASSUME NEW k \in Nat, k + 1 <= 9,
                      r[k] * Power(10, 9 - k) = SumTo(term, upTo(k))
               PROVE  r[k + 1] * Power(10, 9 - (k + 1)) = SumTo(term, upTo(k + 1))
    OBVIOUS
  <2>1. k + 1 \in 1..9 /\ (k + 1) - 1 = k /\ 10 - (k + 1) = 9 - k /\ k \in 0..9
    OBVIOUS
  <2>2. PICK p \in Int : p = Power(10, 9 - (k + 1)) /\ Power(10, 9 - k) = 10 * p
    BY <1>2, <2>1
  <2>3. PICK v \in Int, c \in Int : v = r[k] /\ c = Digit(fraction, k + 1)
                                 /\ r[k + 1] = v * 10 + c
    <3>1. r[k] \in Int
      BY <1>1, <2>1
    <3>2. Digit(fraction, k + 1) \in Int
      BY <1>0, <2>1, DigitType
    <3>3. r[k + 1] = r[k] * 10 + Digit(fraction, k + 1)
      BY <1>1, <2>1
    <3> QED  BY <3>1, <3>2, <3>3, Zenon
  <2>4. r[k + 1] * p = SumTo(term, upTo(k)) + c * p
    <3>1. v * (10 * p) = SumTo(term, upTo(k))
      BY <2>2, <2>3
    <3>2. p * (v * 10 + c) = p * (v * 10) + p * c
      BY Distributes
    <3>3. (v * 10 + c) * p = v * (10 * p) + c * p
      BY <3>2
    <3> QED  BY <2>3, <3>1, <3>3
  <2>5. CASE k < n
    <3>1. upTo(k) = k /\ upTo(k + 1) = k + 1 /\ k + 1 \in 1..n
      BY <1>0, <2>5
    <3>2. SumTo(term, k + 1) = SumTo(term, k) + term[k + 1]
      <4>1. \A i \in 1..(k + 1) : term[i] \in Int
        BY <1>0, <1>3, <3>1
      <4> QED  BY <4>1, SumStep
    <3>3. term[k + 1] = c * p
      <4>1. term[k + 1] = fraction[k + 1] * Power(10, 9 - (k + 1))
        BY <1>3, <3>1
      <4>2. c = fraction[k + 1]
        BY <1>4, <2>3, <3>1
      <4> QED  BY <2>2, <4>1, <4>2
    <3> QED  BY <2>2, <2>4, <3>1, <3>2, <3>3
  <2>6. CASE k >= n
    <3>1. upTo(k) = n /\ upTo(k + 1) = n /\ k + 1 > n
      BY <1>0, <2>6
    <3>3. c = 0
      BY <1>5, <2>1, <2>3, <3>1, Zenon
    <3>2. SumTo(term, n) \in Int
      BY <1>0, <1>3, SumType
    <3> QED  BY <2>2, <2>4, <3>1, <3>2, <3>3
  <2> QED  BY <1>0, <2>5, <2>6
<1>9. r[9] * Power(10, 9 - 9) = SumTo(term, upTo(9))
  <2> HIDE DEF S
  <2>1. 9 \in Nat /\ 9 <= 9
    OBVIOUS
  <2>2. 9 \in S
    BY <1>7, <1>8, <2>1, Induct, Zenon
  <2> QED  BY <2>1, <2>2 DEF S
<1>10. Power(10, 9 - 9) = 1 /\ upTo(9) = n
  BY <1>0, PowerZero
<1> QED  BY <1>1, <1>6, <1>9, <1>10

\* The walk: every date so far was as many days after the epoch as it took.
CalendarIInv == CalendarTypeOK /\ DaysFromCivil(year, mon, day) = elapsed

LEMMA CalendarInductive == CalendarSpec => []CalendarIInv
<1>1. CalendarInit => CalendarIInv
  <2> SUFFICES ASSUME CalendarInit PROVE CalendarIInv
    OBVIOUS
  <2>1. CalendarTypeOK
    BY CalendarAssumption DEF CalendarInit, CalendarTypeOK, MonthLength
  <2>2. DaysFromCivil(1970, 1, 1) = DaysBefore(1969) + 306 + 1 - 719469
    BY DaysAre DEF MarchYear, MonthOffset
  <2>3. DaysBefore(1969) = 719162
    BY DEF DaysBefore
  <2> QED  BY <2>1, <2>2, <2>3 DEF CalendarInit, CalendarIInv
<1>2. CalendarIInv /\ [CalendarNext]_calendarVars => CalendarIInv'
  <2> SUFFICES ASSUME CalendarIInv, [CalendarNext]_calendarVars PROVE CalendarIInv'
    OBVIOUS
  <2>0. /\ year \in Nat /\ year >= 1970 /\ year <= LastYear /\ mon \in 1..12 /\ day \in Nat
        /\ day >= 1 /\ day <= MonthLength(year, mon) /\ MonthLength(year, mon) \in Nat
        /\ LastYear \in Nat /\ elapsed \in Nat
    BY CalendarAssumption DEF CalendarIInv, CalendarTypeOK, MonthLength
  <2>1. ASSUME NextDay PROVE CalendarIInv'
    <3>1. fraction' = fraction /\ elapsed' = elapsed + 1
      BY <2>1 DEF NextDay
    <3>2. CASE day < MonthLength(year, mon) /\ day' = day + 1 /\ mon' = mon /\ year' = year
      <4>1. CalendarTypeOK'
        BY <2>0, <3>1, <3>2 DEF CalendarIInv, CalendarTypeOK, MonthLength, Leap
      <4>2. DaysFromCivil(year, mon, day + 1) = DaysFromCivil(year, mon, day) + 1
        <5>1. DaysFromCivil(year, mon, day)
                = DaysBefore(MarchYear(year, mon)) + MonthOffset(mon) + day - 719469
          BY <2>0, DaysAre
        <5>2. DaysFromCivil(year, mon, day + 1)
                = DaysBefore(MarchYear(year, mon)) + MonthOffset(mon) + (day + 1) - 719469
          <6>1. day + 1 \in Int
            BY <2>0
          <6> QED  BY <2>0, <6>1, DaysAre
        <5>3. DaysBefore(MarchYear(year, mon)) \in Int /\ MonthOffset(mon) \in Int
          BY <2>0 DEF DaysBefore, MarchYear, MonthOffset
        <5> QED  BY <2>0, <5>1, <5>2, <5>3
      <4> QED  BY <3>1, <3>2, <4>1, <4>2 DEF CalendarIInv
    <3>3. CASE day = MonthLength(year, mon) /\ mon < 12
               /\ day' = 1 /\ mon' = mon + 1 /\ year' = year
      <4>1. CalendarTypeOK'
        BY <2>0, <3>1, <3>3 DEF CalendarIInv, CalendarTypeOK, MonthLength, Leap
      <4>2. DaysFromCivil(year, mon + 1, 1) = DaysFromCivil(year, mon, day) + 1
        <5>1. mon \in 1..11 /\ year > 0
          BY <2>0, <3>3
        <5> QED  BY <2>0, <3>3, <5>1, NextMonth
      <4> QED  BY <3>1, <3>3, <4>1, <4>2 DEF CalendarIInv
    <3>4. CASE day = 31 /\ mon = 12 /\ year < LastYear
               /\ day' = 1 /\ mon' = 1 /\ year' = year + 1
      <4>1. CalendarTypeOK'
        BY <2>0, <3>1, <3>4 DEF CalendarIInv, CalendarTypeOK, MonthLength, Leap
      <4>2. DaysFromCivil(year + 1, 1, 1) = DaysFromCivil(year, mon, day) + 1
        BY <2>0, <3>4, NextYear
      <4> QED  BY <3>1, <3>4, <4>1, <4>2 DEF CalendarIInv
    <3> QED  BY <2>1, <3>2, <3>3, <3>4 DEF NextDay
  <2>2. ASSUME NEW digit \in Digits, AnotherDigit(digit) PROVE CalendarIInv'
    <3>1. year' = year /\ mon' = mon /\ day' = day /\ elapsed' = elapsed
      BY <2>2 DEF AnotherDigit
    <3>2. fraction' \in Seq(Digits) /\ Len(fraction') <= MaxDigits
      BY <2>2, CalendarAssumption DEF AnotherDigit, CalendarIInv, CalendarTypeOK
    <3> QED  BY <3>1, <3>2 DEF CalendarIInv, CalendarTypeOK, MonthLength, Leap
  <2>3. ASSUME UNCHANGED calendarVars PROVE CalendarIInv'
    BY <2>3 DEF CalendarIInv, CalendarTypeOK, MonthLength, Leap, calendarVars
  <2> QED  BY <2>1, <2>2, <2>3 DEF CalendarNext
<1> QED  BY <1>1, <1>2, PTL DEF CalendarSpec

\* days_from_civil and parse_rfc3339_ns, up to any year, in both copies: every date is as many days after 1970-01-01
\* as the calendar has days in between, and every fraction of a second counts.
THEOREM CalendarExact == CalendarSpec => []InstantIsExact
<1>1. CalendarIInv => InstantIsExact
  <2> SUFFICES ASSUME CalendarIInv PROVE InstantIsExact
    OBVIOUS
  <2>0. /\ CalendarTypeOK /\ year \in Nat /\ year > 0 /\ mon \in 1..12 /\ day \in 1..31
        /\ day \in Int /\ 31 \in Int /\ elapsed \in Nat
    BY CalendarAssumption DEF CalendarIInv, CalendarTypeOK, MonthLength
  <2>1. GridDaysFromCivil(year, mon, day) = elapsed /\ DaysFromCivil(year, mon, day) = elapsed
    BY <2>0, DaysAre DEF CalendarIInv
  <2>2. FracNs(fraction) = Nanoseconds
    BY <2>0, FractionExact
  <2>3. DaysFromCivil(year, mon, 31) = elapsed + 31 - day
    <3>1. DaysFromCivil(year, mon, day)
            = DaysBefore(MarchYear(year, mon)) + MonthOffset(mon) + day - 719469
      BY <2>0, DaysAre
    <3>2. DaysFromCivil(year, mon, 31)
            = DaysBefore(MarchYear(year, mon)) + MonthOffset(mon) + 31 - 719469
      BY <2>0, DaysAre
    <3>3. DaysBefore(MarchYear(year, mon)) \in Int /\ MonthOffset(mon) \in Int
      BY <2>0 DEF DaysBefore, MarchYear, MonthOffset
    <3> QED  BY <2>0, <2>1, <3>1, <3>2, <3>3
  <2> QED  BY <2>0, <2>1, <2>2, <2>3 DEF InstantIsExact, AcceptsDate, ParseInstant, GridParseInstant
<1> QED  BY <1>1, CalendarInductive, PTL

-----------------------------------------------------------------------------
(* Rules.  The rule of a stream is the configuration of the last file that *)
(* names it, and the files are all loaded before the first sample.         *)

Keys == {"stream_id", "min", "max", "max_rate_of_change"}
FieldValues == StreamIds \cup Mins \cup Maxs \cup Rates \cup {Absent}
Configs == [Keys -> FieldValues]

\* File i is the last one, of the files in l, that names stream s.
NamesLast(l, i, s) ==
    /\ i \in 1..Len(l) /\ l[i].stream_id = s
    /\ \A j \in 1..Len(l) : l[j].stream_id = s => j <= i

StartupTypes ==
    /\ fields \in Configs
    /\ loaded \in Seq(Configs)

\* Nothing is loaded before the arguments are parsed, nothing checked before
\* all files are loaded.
StartupOrder ==
    /\ phase = "args" => loaded = << >>
    /\ phase # "running" => checks = << >>
    /\ phase \in {"open", "running"} => Len(loaded) = paths

LastFileInForce ==
    /\ \A s \in DOMAIN rules_ : \E i \in 1..Len(loaded) :
          NamesLast(loaded, i, s) /\ rules_[s].cfg = loaded[i]
    /\ \A i \in 1..Len(loaded) : loaded[i].stream_id \in DOMAIN rules_

\* What a check of stream s must report, given the files in l.
Bounded(l, c, verdict) ==
    verdict = "kOutOfBounds" <=>
        \E f \in 1..Len(l) : /\ NamesLast(l, f, c.stream_id)
                             /\ Less(c.value, l[f].min) \/ Less(l[f].max, c.value)

ChecksBounded == \A i \in 1..Len(checks) : Bounded(loaded, checks[i], checks[i].result)

RulesIInv ==
    RulesTypeOK /\ StartupTypes /\ StartupOrder /\ LastFileInForce
    /\ checks \in Seq([stream_id : ProductIds \cup {10, 11}, value : Values,
                       ts_ns : 1..MaxStamp, result : {"kOk", "kOutOfBounds", "kRateViolation"}])
    /\ ChecksBounded

\* LastFile is the file that NamesLast describes.
LEMMA LastFileIs ==
    ASSUME loaded \in Seq(Configs), NEW s
    PROVE  /\ \A i : NamesLast(loaded, i, s) => LastFile(s) = i
           /\ LastFile(s) > 0 => NamesLast(loaded, LastFile(s), s)
           /\ LastFile(s) \in Nat
<1> DEFINE named == {i \in 1..Len(loaded) : loaded[i].stream_id = s}
<1>1. Len(loaded) \in Nat
  OBVIOUS
<1>2. named \in SUBSET Nat /\ \A i \in named : i \in Nat /\ i <= Len(loaded)
  BY <1>1
<1>3. CASE named = {}
  <2>1. LastFile(s) = 0
    BY <1>3 DEF LastFile
  <2>2. \A i : ~NamesLast(loaded, i, s)
    BY <1>3 DEF NamesLast
  <2> QED  BY <2>1, <2>2
<1>4. CASE named # {}
  <2> DEFINE P(i) == \A j \in named : j <= i
             last == CHOOSE i \in named : P(i)
  <2>1. \E m \in named : \A i \in named : i <= m
    <3> HIDE DEF named
    <3> QED  BY <1>1, <1>2, <1>4, Largest
  <2>2. last \in named /\ P(last)
    BY <2>1, Zenon
  <2>3. LastFile(s) = last
    BY <1>4, Zenon DEF LastFile
  <2> HIDE DEF last
  <2>4. NamesLast(loaded, last, s) /\ last \in Nat
    BY <1>2, <2>2 DEF NamesLast
  <2>5. ASSUME NEW i, NamesLast(loaded, i, s) PROVE last = i
    <3>1. i \in named /\ last \in named /\ i \in Nat /\ last \in Nat
      BY <1>2, <2>2, <2>5 DEF NamesLast
    <3>2. i <= last /\ last <= i
      BY <2>2, <2>5, <3>1 DEF NamesLast
    <3> QED  BY <3>1, <3>2
  <2> QED  BY <2>3, <2>4, <2>5
<1> QED  BY <1>3, <1>4

LEMMA FieldKeys == DOMAIN Field = Keys
BY DEF Field, Keys

LEMMA RulesInitial == RulesInit => RulesIInv
<1> SUFFICES ASSUME RulesInit PROVE RulesIInv
  OBVIOUS
<1>1. /\ phase = "args" /\ args = 0 /\ products = {} /\ paths = 0
      /\ fields = [key \in Keys |-> Absent] /\ DOMAIN rules_ = {}
      /\ loaded = << >> /\ Len(loaded) = 0 /\ checks = << >> /\ Len(checks) = 0
  BY FieldKeys DEF RulesInit, Unset
<1>2. fields \in Configs /\ \A key \in DOMAIN Field : fields[key] = Absent
  BY <1>1, FieldKeys DEF Configs, FieldValues
<1>3. RulesTypeOK
  BY <1>1, <1>2, RulesAssumption DEF RulesTypeOK
<1>4. 1..Len(loaded) = {} /\ 1..Len(checks) = {}
  BY <1>1
<1> QED  BY <1>1, <1>2, <1>3, <1>4
         DEF RulesIInv, StartupTypes, StartupOrder, LastFileInForce, ChecksBounded

\* A step of the startup that loads nothing and checks nothing.
LEMMA StartupKeeps ==
    ASSUME RulesIInv, UNCHANGED <<rules_, loaded, checks>>,
           phase' \in {"args", "rules", "open", "running", "exit"},
           phase' = "args" => phase = "args",
           checks = << >>,
           phase' \in {"open", "running"} => Len(loaded) = paths',
           args' \in 0..MaxArgs, paths' \in 0..args', paths <= paths',
           products' \subseteq {"BTC-USD", "ETH-USD"} \X (ProductIds \cup {10, 11}),
           fields' \in Configs,
           \A key \in DOMAIN Field : fields'[key] \in Field[key] \cup {Absent}
    PROVE  RulesIInv'
<1>0. /\ RulesTypeOK /\ StartupTypes /\ StartupOrder /\ LastFileInForce /\ ChecksBounded
  BY DEF RulesIInv
<1>1. rules_' = rules_ /\ loaded' = loaded /\ checks' = checks
  OBVIOUS
<1>2. Len(loaded) \in Nat /\ paths \in Nat /\ paths' \in Nat /\ Len(loaded) <= paths
  BY <1>0, RulesAssumption DEF RulesTypeOK, StartupTypes
<1>3. RulesTypeOK'
  <2>1. Len(loaded) <= paths'
    BY <1>2
  <2> QED  BY <1>0, <1>1, <2>1 DEF RulesTypeOK
<1>4. StartupTypes' /\ StartupOrder'
  BY <1>0, <1>1 DEF StartupTypes, StartupOrder
<1>5. LastFileInForce' /\ ChecksBounded'
  BY <1>0, <1>1 DEF LastFileInForce, ChecksBounded
<1> QED  BY <1>1, <1>3, <1>4, <1>5 DEF RulesIInv

\* Every step before the daemon runs but the end of an accepted file.
LEMMA StartupSteps ==
    ASSUME RulesIInv,
           \/ RulesArg \/ OtherArg \/ BadArg \/ ArgsDone
           \/ \E id \in ProductIds : ProductArg("BTC-USD", id)
           \/ \E key \in DOMAIN Field : \E val \in Field[key] : ReadLine(key, val)
           \/ LoadFails \/ (Loading /\ Fail) \/ RulesDone \/ OpenAlerts
    PROVE  RulesIInv'
<1>0. RulesTypeOK /\ StartupTypes /\ StartupOrder
  BY DEF RulesIInv
<1>1. /\ args \in 0..MaxArgs /\ args \in Nat /\ paths \in 0..args /\ paths \in Nat /\ MaxArgs \in Nat
      /\ products \subseteq {"BTC-USD", "ETH-USD"} \X (ProductIds \cup {10, 11})
      /\ fields \in Configs
      /\ \A key \in DOMAIN Field : fields[key] \in Field[key] \cup {Absent}
  BY <1>0, RulesAssumption DEF RulesTypeOK, StartupTypes
<1>2. ASSUME phase # "running" PROVE checks = << >>
  BY <1>0, <1>2 DEF StartupOrder
<1>3. ASSUME Fail, phase # "running" PROVE RulesIInv'
  BY <1>1, <1>2, <1>3, StartupKeeps DEF Fail
<1>4. ASSUME Argument, phase' = phase, paths' \in {paths, paths + 1}, paths' <= paths + 1,
             UNCHANGED <<fields, rules_, loaded, checks>>,
             products' \subseteq {"BTC-USD", "ETH-USD"} \X (ProductIds \cup {10, 11})
      PROVE  RulesIInv'
  <2>1. phase = "args" /\ args' \in 0..MaxArgs /\ paths' \in 0..args' /\ paths <= paths'
    BY <1>1, <1>4 DEF Argument
  <2> QED  BY <1>1, <1>2, <1>4, <2>1, StartupKeeps
<1>5. CASE RulesArg
  <2>1. paths' \in {paths, paths + 1} /\ paths' <= paths + 1
    BY <1>1, <1>5 DEF RulesArg
  <2> QED  BY <1>1, <1>4, <1>5, <2>1 DEF RulesArg
<1>6. CASE OtherArg
  <2>1. paths' \in {paths, paths + 1} /\ paths' <= paths + 1
    BY <1>1, <1>6 DEF OtherArg
  <2> QED  BY <1>1, <1>4, <1>6, <2>1 DEF OtherArg
<1>7. ASSUME NEW id \in ProductIds, ProductArg("BTC-USD", id) PROVE RulesIInv'
  <2>1. paths' \in {paths, paths + 1} /\ paths' <= paths + 1
    BY <1>1, <1>7 DEF ProductArg
  <2>2. products' = {entry \in products : entry[1] # "BTC-USD"} \cup {<<"BTC-USD", id>>}
    BY <1>7 DEF ProductArg
  <2>3. products' \subseteq {"BTC-USD", "ETH-USD"} \X (ProductIds \cup {10, 11})
    BY <1>1, <2>2
  <2> QED  BY <1>4, <1>7, <2>1, <2>3 DEF ProductArg
<1>8. CASE BadArg \/ LoadFails \/ (Loading /\ Fail)
  BY <1>3, <1>8 DEF BadArg, LoadFails, Loading
<1>9. CASE ArgsDone
  <2>1. products' \subseteq {"BTC-USD", "ETH-USD"} \X (ProductIds \cup {10, 11})
    BY <1>1, <1>9 DEF ArgsDone, DefaultProducts
  <2>2. phase = "args" /\ phase' = "rules" /\ UNCHANGED <<args, paths, fields, rules_, loaded, checks>>
    BY <1>9 DEF ArgsDone
  <2> QED  BY <1>1, <1>2, <2>1, <2>2, StartupKeeps
<1>10. ASSUME NEW key \in DOMAIN Field, NEW val \in Field[key], ReadLine(key, val) PROVE RulesIInv'
  <2>1. /\ phase = "rules" /\ phase' = phase /\ fields' = [fields EXCEPT ![key] = val]
        /\ UNCHANGED <<args, products, paths, rules_, loaded, checks>>
    BY <1>10 DEF ReadLine, Loading
  <2>2. key \in Keys /\ val \in FieldValues
    BY FieldKeys DEF Field, FieldValues
  <2>3. fields' \in Configs
    BY <1>1, <2>1, <2>2 DEF Configs
  <2>4. \A k \in DOMAIN Field : fields'[k] \in Field[k] \cup {Absent}
    BY <1>1, <2>1, FieldKeys DEF Configs
  <2> QED  BY <1>1, <1>2, <2>1, <2>3, <2>4, StartupKeeps
<1>11. CASE RulesDone
  <2>1. /\ phase = "rules" /\ phase' = "open" /\ Len(loaded) = paths
        /\ UNCHANGED <<args, products, paths, fields, rules_, loaded, checks>>
    BY <1>11 DEF RulesDone
  <2> QED  BY <1>1, <1>2, <2>1, StartupKeeps
<1>12. CASE OpenAlerts
  <2>1. CASE Fail
    BY <1>3, <1>12, <2>1 DEF OpenAlerts
  <2>2. CASE ~Fail
    <3>1. /\ phase = "open" /\ phase' = "running"
          /\ UNCHANGED <<args, products, paths, fields, rules_, loaded, checks>>
      BY <1>12, <2>2 DEF OpenAlerts
    <3>2. Len(loaded) = paths
      BY <1>0, <3>1 DEF StartupOrder
    <3> QED  BY <1>1, <1>2, <3>1, <3>2, StartupKeeps
  <2> QED  BY <2>1, <2>2
<1> QED  BY <1>5, <1>6, <1>7, <1>8, <1>9, <1>10, <1>11, <1>12

\* add_rule() at the end of a file: it is now the last one for its stream.
LEMMA FileLoaded ==
    ASSUME RulesIInv, Loading, rules_' = AddRule(fields), loaded' = Append(loaded, fields),
           fields' = Unset, UNCHANGED <<phase, args, products, paths, checks>>
    PROVE  RulesIInv'
<1> DEFINE n == Len(loaded)
           s == fields.stream_id
<1>0. /\ RulesTypeOK /\ StartupTypes /\ StartupOrder /\ LastFileInForce
  BY DEF RulesIInv
<1>1. /\ n \in Nat /\ paths \in Nat /\ n < paths /\ phase = "rules" /\ checks = << >>
      /\ fields \in Configs /\ loaded \in Seq(Configs)
  BY <1>0, RulesAssumption DEF RulesTypeOK, StartupTypes, StartupOrder, Loading
<1>2. /\ Len(loaded') = n + 1 /\ loaded' \in Seq(Configs) /\ loaded'[n + 1] = fields
      /\ \A i \in 1..n : loaded'[i] = loaded[i]
  BY <1>1
<1>3. /\ DOMAIN rules_' = DOMAIN rules_ \cup {s}
      /\ rules_'[s].cfg = fields
      /\ \A t \in DOMAIN rules_ : t # s => rules_'[t] = rules_[t]
  BY DEF AddRule, State
<1>4. fields' \in Configs /\ \A key \in DOMAIN Field : fields'[key] = Absent
  BY FieldKeys DEF Unset, Configs, FieldValues
<1>5. RulesTypeOK'
  <2>1. ASSUME NEW t \in DOMAIN rules_' PROVE rules_'[t].cfg.stream_id = t
    BY <1>0, <1>3 DEF RulesTypeOK
  <2>2. Len(loaded') <= paths
    BY <1>1, <1>2
  <2> QED  BY <1>0, <1>4, <2>1, <2>2 DEF RulesTypeOK
<1>6. StartupTypes' /\ StartupOrder'
  BY <1>1, <1>2, <1>4 DEF StartupTypes, StartupOrder
<1>7. \A i \in 1..(n + 1) : i \in Nat /\ i <= n + 1 /\ (i \in 1..n \/ i = n + 1)
  BY <1>1
<1>8. \A i \in 1..n : i \in 1..(n + 1)
  BY <1>1
<1> HIDE DEF n
<1>9. NamesLast(loaded', n + 1, s)
  BY <1>1, <1>2, <1>7 DEF NamesLast
<1>10. ASSUME NEW t \in DOMAIN rules_, t # s, NEW i \in 1..n, NamesLast(loaded, i, t)
       PROVE  NamesLast(loaded', i, t)
  BY <1>2, <1>7, <1>8, <1>10 DEF NamesLast, n
<1>11. LastFileInForce'
  <2>1. ASSUME NEW t \in DOMAIN rules_'
        PROVE  \E i \in 1..Len(loaded') : NamesLast(loaded', i, t) /\ rules_'[t].cfg = loaded'[i]
    <3>1. CASE t = s
      BY <1>1, <1>2, <1>3, <1>9, <3>1
    <3>2. CASE t # s
      <4>1. t \in DOMAIN rules_ /\ rules_'[t] = rules_[t]
        BY <1>3, <3>2
      <4>2. PICK i \in 1..n : NamesLast(loaded, i, t) /\ rules_[t].cfg = loaded[i]
        BY <1>0, <4>1 DEF LastFileInForce, n
      <4>3. i \in 1..Len(loaded') /\ loaded'[i] = loaded[i]
        BY <1>2, <1>8, <4>2
      <4> QED  BY <1>10, <3>2, <4>1, <4>2, <4>3
    <3> QED  BY <3>1, <3>2
  <2>2. ASSUME NEW i \in 1..Len(loaded') PROVE loaded'[i].stream_id \in DOMAIN rules_'
    <3>1. CASE i \in 1..n
      BY <1>0, <1>2, <1>3, <3>1 DEF LastFileInForce, n
    <3>2. CASE i = n + 1
      BY <1>2, <1>3, <3>2
    <3> QED  BY <1>2, <1>7, <3>1, <3>2
  <2> QED  BY <2>1, <2>2 DEF LastFileInForce
<1>12. checks' = << >> /\ 1..Len(checks') = {}
  BY <1>1
<1>13. ChecksBounded'
  BY <1>12 DEF ChecksBounded
<1> QED  BY <1>5, <1>6, <1>11, <1>12, <1>13 DEF RulesIInv

\* check() reports what the last file for the stream demands.
LEMMA CheckKeeps ==
    ASSUME RulesIInv, NEW s \in ProductIds \cup {10, 11}, NEW v \in Values,
           NEW t \in 1..MaxStamp, Check(s, v, t)
    PROVE  RulesIInv'
<1> DEFINE Recs == [stream_id : ProductIds \cup {10, 11}, value : Values, ts_ns : 1..MaxStamp,
                    result : {"kOk", "kOutOfBounds", "kRateViolation"}]
           Rec(res) == [stream_id |-> s, value |-> v, ts_ns |-> t, result |-> res]
           n == Len(checks)
<1>0. /\ RulesTypeOK /\ StartupTypes /\ StartupOrder /\ LastFileInForce /\ ChecksBounded
      /\ checks \in Seq(Recs)
  BY DEF RulesIInv
<1>1. /\ phase = "running" /\ n < MaxChecks /\ n \in Nat /\ MaxChecks \in Nat
      /\ UNCHANGED <<phase, args, products, paths, fields, loaded>>
  BY <1>0, RulesAssumption DEF Check
<1>2. loaded \in Seq(Configs)
  BY <1>0 DEF StartupTypes
<1>3. \E res \in {"kOk", "kOutOfBounds", "kRateViolation"} :
         checks' = Append(checks, Rec(res)) /\ Bounded(loaded, Rec(res), res)
  <2>1. CASE s \notin DOMAIN rules_
    <3>1. checks' = Append(checks, Rec("kOk"))
      BY <2>1 DEF Check
    <3>2. \A f \in 1..Len(loaded) : ~NamesLast(loaded, f, s)
      BY <1>0, <2>1 DEF LastFileInForce, NamesLast
    <3>3. Bounded(loaded, Rec("kOk"), "kOk")
      BY <3>2 DEF Bounded
    <3> QED  BY <3>1, <3>3
  <2>2. CASE s \in DOMAIN rules_
    <3> DEFINE res == RuleResult(rules_[s], v, t)
    <3>1. checks' = Append(checks, Rec(res))
      BY <2>2 DEF Check
    <3>2. PICK i \in 1..Len(loaded) : NamesLast(loaded, i, s) /\ rules_[s].cfg = loaded[i]
      BY <1>0, <2>2 DEF LastFileInForce
    <3>3. /\ res \in {"kOk", "kOutOfBounds", "kRateViolation"}
          /\ res = "kOutOfBounds" <=> Less(v, loaded[i].min) \/ Less(loaded[i].max, v)
      BY <3>2 DEF RuleResult
    <3>4. \A f \in 1..Len(loaded) : NamesLast(loaded, f, s) => f = i
      BY <3>2 DEF NamesLast
    <3> HIDE DEF res
    <3>5. Bounded(loaded, Rec(res), res)
      BY <3>2, <3>3, <3>4, Zenon DEF Bounded
    <3> QED  BY <3>1, <3>3, <3>5
  <2> QED  BY <2>1, <2>2
<1>4. PICK res \in {"kOk", "kOutOfBounds", "kRateViolation"} :
         checks' = Append(checks, Rec(res)) /\ Bounded(loaded, Rec(res), res)
  BY <1>3
<1>5. Rec(res) \in Recs /\ Rec(res).result = res
  OBVIOUS
<1> HIDE DEF Rec, Recs
<1>6. /\ checks' \in Seq(Recs) /\ Len(checks') = n + 1 /\ checks'[n + 1] = Rec(res)
      /\ \A i \in 1..n : checks'[i] = checks[i]
  BY <1>0, <1>4, <1>5
<1>7. DOMAIN rules_' = DOMAIN rules_ /\ \A u \in DOMAIN rules_ : rules_'[u].cfg = rules_[u].cfg
  <2>1. CASE s \notin DOMAIN rules_
    BY <2>1 DEF Check
  <2>2. CASE s \in DOMAIN rules_
    <3>1. rules_' = [rules_ EXCEPT ![s] = NextState(rules_[s], v, t)]
      BY <2>2 DEF Check
    <3> QED  BY <3>1 DEF NextState
  <2> QED  BY <2>1, <2>2
<1>8. RulesTypeOK'
  <2>1. \A u \in DOMAIN rules_' : rules_'[u].cfg.stream_id = u
    BY <1>0, <1>7 DEF RulesTypeOK
  <2>2. Len(checks') <= MaxChecks
    BY <1>1, <1>6
  <2> QED  BY <1>0, <1>1, <2>1, <2>2 DEF RulesTypeOK
<1>9. StartupTypes' /\ StartupOrder'
  BY <1>0, <1>1 DEF StartupTypes, StartupOrder
<1>10. LastFileInForce'
  BY <1>0, <1>1, <1>7 DEF LastFileInForce
<1>11. ChecksBounded'
  <2> SUFFICES ASSUME NEW i \in 1..(n + 1)
               PROVE  Bounded(loaded, checks'[i], checks'[i].result)
    BY <1>1, <1>6 DEF ChecksBounded
  <2>1. CASE i = n + 1
    BY <1>4, <1>5, <1>6, <2>1
  <2>2. CASE i # n + 1
    <3>1. i \in 1..n
      BY <1>1, <2>2
    <3> QED  BY <1>0, <1>6, <3>1 DEF ChecksBounded
  <2> QED  BY <2>1, <2>2
<1> QED  BY <1>6, <1>8, <1>9, <1>10, <1>11 DEF RulesIInv, Recs

LEMMA RulesStep == RulesIInv /\ [RulesNext]_rulesVars => RulesIInv'
<1> SUFFICES ASSUME RulesIInv, [RulesNext]_rulesVars PROVE RulesIInv'
  OBVIOUS
<1>1. CASE UNCHANGED rulesVars
  <2>1. /\ phase' = phase /\ args' = args /\ products' = products /\ paths' = paths
        /\ fields' = fields /\ rules_' = rules_ /\ loaded' = loaded /\ checks' = checks
    BY <1>1 DEF rulesVars
  <2> QED  BY <2>1 DEF RulesIInv, RulesTypeOK, StartupTypes, StartupOrder,
                       LastFileInForce, ChecksBounded
<1>2. CASE EndOfFile
  <2>1. CASE Loading /\ Fail
    BY <2>1, StartupSteps
  <2>2. CASE ~(Loading /\ Fail)
    BY <1>2, <2>2, FileLoaded DEF EndOfFile
  <2> QED  BY <2>1, <2>2
<1>3. ASSUME NEW entry \in products, NEW v \in Values, NEW t \in 1..MaxStamp,
             Check(entry[2], v, t)
      PROVE  RulesIInv'
  <2>1. entry[2] \in ProductIds \cup {10, 11}
    BY DEF RulesIInv, RulesTypeOK
  <2> QED  BY <1>3, <2>1, CheckKeeps
<1> QED  BY <1>1, <1>2, <1>3, StartupSteps DEF RulesNext

\* For any command line, rules files and samples: a daemon that runs has loaded
\* every file, and check() reports a sample out of bounds exactly when the last
\* file that names its stream says so.
THEOREM RulesLoaded == RulesSpec => []RulesInForce
<1>1. RulesIInv => RulesInForce
  <2> SUFFICES ASSUME RulesIInv PROVE RulesInForce
    OBVIOUS
  <2>0. loaded \in Seq(Configs)
    BY DEF RulesIInv, StartupTypes
  <2>1. ASSUME NEW i \in 1..Len(checks)
        PROVE  checks[i].result = "kOutOfBounds"
                  <=> LET f == LastFile(checks[i].stream_id)
                      IN  /\ f > 0
                          /\ Less(checks[i].value, loaded[f].min) \/ Less(loaded[f].max, checks[i].value)
    <3> DEFINE c == checks[i]
               f == LastFile(c.stream_id)
    <3>1. Bounded(loaded, c, c.result)
      BY DEF RulesIInv, ChecksBounded
    <3>2. /\ \A j : NamesLast(loaded, j, c.stream_id) => f = j
          /\ f > 0 => NamesLast(loaded, f, c.stream_id)
      BY <2>0, LastFileIs
    <3> HIDE DEF f, c
    <3>3. \A j : NamesLast(loaded, j, c.stream_id) => j \in 1..Len(loaded) /\ j > 0
      BY <2>0 DEF NamesLast
    <3>4. c.result = "kOutOfBounds"
             <=> f > 0 /\ (Less(c.value, loaded[f].min) \/ Less(loaded[f].max, c.value))
      BY <3>1, <3>2, <3>3, Zenon DEF Bounded
    <3> QED  BY <3>4 DEF f, c
  <2>2. phase = "running" => Len(loaded) = paths
    BY DEF RulesIInv, StartupOrder
  <2>3. RulesTypeOK
    BY DEF RulesIInv
  <2> QED  BY <2>1, <2>2, <2>3, Zenon DEF RulesInForce
<1> QED  BY <1>1, RulesInitial, RulesStep, PTL DEF RulesSpec

-----------------------------------------------------------------------------
(* Rules, the rate.  A stream remembers its last sample, so a quiet        *)
(* stretch that reaches the last sample is extended by the next.           *)

RatesAreNumbers == \A s \in DOMAIN rules_ : rules_[s].cfg.max_rate_of_change \in Int \cup {NaN}

\* m is the position of the last sample of stream s.
LastOf(s, m) == m \in OfStream(s) /\ \A l \in OfStream(s) : l <= m

LastRemembered ==
    \A s \in DOMAIN rules_ : \A m \in OfStream(s) : LastOf(s, m) =>
        /\ rules_[s].has_prev /\ rules_[s].prev_value = checks[m].value
        /\ rules_[s].prev_ts_ns = checks[m].ts_ns

RateIInv == RatesAreNumbers /\ LastRemembered /\ QuietRunIsSlow

\* The rate rule along two stretches holds along both together.
LEMMA SlowTogether ==
    ASSUME NEW r \in Int, NEW a \in Int, NEW b \in Int, NEW c \in Int,
           NEW d \in Int, NEW e \in Int,
           ~(Abs(b - a) > r * d), ~(Abs(c - b) > r * e)
    PROVE  ~(Abs(c - a) > r * (d + e))
<1>1. r * (d + e) = r * d + r * e /\ r * d \in Int /\ r * e \in Int
  OBVIOUS
<1> DEFINE x == r * d
           y == r * e
<1>2. x \in Int /\ y \in Int /\ ~(Abs(b - a) > x) /\ ~(Abs(c - b) > y) /\ r * (d + e) = x + y
  BY <1>1
<1> HIDE DEF x, y
<1>3. ~(Abs(c - a) > x + y)
  BY <1>2 DEF Abs
<1> QED  BY <1>2, <1>3

\* A step that neither loads a file nor checks a sample.
LEMMA RateUnchanged ==
    ASSUME RateIInv, UNCHANGED <<rules_, checks>> PROVE RateIInv'
<1>1. rules_' = rules_ /\ checks' = checks
  OBVIOUS
<1> QED  BY <1>1 DEF RateIInv, RatesAreNumbers, LastRemembered, LastOf, QuietRunIsSlow, Quiet, OfStream

\* While nothing has been checked.
LEMMA NoSamples ==
    ASSUME checks = << >>, RatesAreNumbers PROVE RateIInv
<1>1. \A s : OfStream(s) = {}
  BY DEF OfStream
<1> QED  BY <1>1, Zenon DEF RateIInv, LastRemembered, QuietRunIsSlow

LEMMA FileLoadedRates ==
    ASSUME RulesIInv, RateIInv, Loading, Accepted, rules_' = AddRule(fields), UNCHANGED checks
    PROVE  RateIInv'
<1>1. checks' = << >>
  BY DEF RulesIInv, StartupOrder, Loading
<1>2. fields.max_rate_of_change \in Int \cup {NaN}
  <2>1. fields \in Configs /\ "max_rate_of_change" \in DOMAIN Field
    BY FieldKeys DEF RulesIInv, StartupTypes, Keys
  <2>2. fields["max_rate_of_change"] \in Field["max_rate_of_change"] \cup {Absent}
    BY <2>1 DEF RulesIInv, RulesTypeOK
  <2>3. Field["max_rate_of_change"] = Rates
    BY DEF Field
  <2>4. fields["max_rate_of_change"] # Absent
    BY <2>1 DEF Accepted, Configs, Keys
  <2>5. Rates \subseteq Int \cup {NaN}
    BY RulesAssumption
  <2> QED  BY <2>2, <2>3, <2>4, <2>5
<1>3. RatesAreNumbers'
  <2> SUFFICES ASSUME NEW s \in DOMAIN rules_'
               PROVE  rules_'[s].cfg.max_rate_of_change \in Int \cup {NaN}
    BY DEF RatesAreNumbers
  <2>1. CASE s = fields.stream_id
    BY <1>2, <2>1 DEF AddRule, State
  <2>2. CASE s # fields.stream_id
    <3>1. s \in DOMAIN rules_ /\ rules_'[s] = rules_[s]
      BY <2>2 DEF AddRule
    <3> QED  BY <3>1 DEF RateIInv, RatesAreNumbers
  <2> QED  BY <2>1, <2>2
<1>4. \A s : OfStream(s)' = {}
  BY <1>1 DEF OfStream
<1> QED  BY <1>3, <1>4, Zenon DEF RateIInv, LastRemembered, QuietRunIsSlow

\* The samples of a state before and after a sample of stream s is added to them.
LEMMA SampleAdded ==
    ASSUME RulesIInv, NEW s, NEW v, NEW t, Check(s, v, t)
    PROVE  LET n == Len(checks)
           IN  /\ n \in Nat /\ Len(checks') = n + 1
               /\ checks'[n + 1].stream_id = s /\ checks'[n + 1].value = v
               /\ checks'[n + 1].ts_ns = t
               /\ s \in DOMAIN rules_ => checks'[n + 1].result = RuleResult(rules_[s], v, t)
               /\ \A i \in 1..n : checks'[i] = checks[i]
               /\ \A u : u # s => OfStream(u)' = OfStream(u)
               /\ OfStream(s)' = OfStream(s) \cup {n + 1}
               /\ \A u : \A i \in OfStream(u) : i \in 1..n
<1> DEFINE n == Len(checks)
           Rec(res) == [stream_id |-> s, value |-> v, ts_ns |-> t, result |-> res]
<1>1. n \in Nat /\ \E S : checks \in Seq(S)
  BY DEF RulesIInv
<1>2. PICK res : /\ checks' = Append(checks, Rec(res))
                 /\ s \in DOMAIN rules_ => res = RuleResult(rules_[s], v, t)
  BY DEF Check
<1>3. /\ Len(checks') = n + 1 /\ checks'[n + 1] = Rec(res)
      /\ \A i \in 1..n : checks'[i] = checks[i]
  BY <1>1, <1>2
<1>4. \A i : i \in 1..(n + 1) <=> i \in 1..n \/ i = n + 1
  BY <1>1
<1>5. n + 1 \notin 1..n
  BY <1>1
<1>6. checks'[n + 1].stream_id = s
  BY <1>3
<1> HIDE DEF n
<1>7. \A u : OfStream(u)' = {i \in 1..(n + 1) : checks'[i].stream_id = u}
  BY <1>3 DEF OfStream
<1>8. \A u : OfStream(u) = {i \in 1..n : checks[i].stream_id = u}
  BY DEF OfStream, n
<1>9. \A u : u # s => OfStream(u)' = OfStream(u)
  BY <1>3, <1>4, <1>5, <1>6, <1>7, <1>8
<1>10. OfStream(s)' = OfStream(s) \cup {n + 1}
  BY <1>3, <1>4, <1>5, <1>6, <1>7, <1>8
<1>11. \A u : \A i \in OfStream(u) : i \in 1..n
  BY <1>8
<1> QED  BY <1>1, <1>2, <1>3, <1>9, <1>10, <1>11 DEF n

\* A quiet stretch that ends before the new sample was quiet before.
LEMMA QuietBefore ==
    ASSUME NEW n \in Nat, NEW u, \A i \in OfStream(u) : i \in 1..n,
           \A i \in 1..n : checks'[i] = checks[i],
           OfStream(u) \subseteq OfStream(u)',
           NEW i \in 1..n, NEW j \in Nat, NEW m \in 1..n, m <= j, Quiet(u, i, j)'
    PROVE  Quiet(u, i, m)
<1> SUFFICES ASSUME NEW l \in OfStream(u), i < l, l <= m
             PROVE  /\ checks[l].result = "kOk" /\ checks[l].value # NaN
                    /\ \A k \in OfStream(u) : i <= k /\ k < l => checks[k].ts_ns < checks[l].ts_ns
  BY DEF Quiet
<1>1. l \in OfStream(u)' /\ l \in 1..n /\ l <= j /\ checks'[l] = checks[l]
  OBVIOUS
<1>2. /\ checks'[l].result = "kOk" /\ checks'[l].value # NaN
      /\ \A k \in OfStream(u)' : i <= k /\ k < l => checks'[k].ts_ns < checks'[l].ts_ns
  BY <1>1, Zenon DEF Quiet
<1>3. \A k \in OfStream(u) : k \in OfStream(u)' /\ checks'[k] = checks[k]
  OBVIOUS
<1> QED  BY <1>1, <1>2, <1>3

\* check() of a stream that has a rule.
LEMMA CheckRates ==
    ASSUME RulesIInv, RateIInv, NEW s, NEW v \in Values, NEW t \in 1..MaxStamp, Check(s, v, t)
    PROVE  RateIInv'
<1> DEFINE n == Len(checks)
<1>0. /\ n \in Nat /\ n + 1 \notin 1..n
      /\ checks'[n + 1].stream_id = s /\ checks'[n + 1].value = v
      /\ checks'[n + 1].ts_ns = t
      /\ s \in DOMAIN rules_ => checks'[n + 1].result = RuleResult(rules_[s], v, t)
      /\ \A i \in 1..n : checks'[i] = checks[i]
      /\ \A u : u # s => OfStream(u)' = OfStream(u)
      /\ OfStream(s)' = OfStream(s) \cup {n + 1}
      /\ \A u : \A i \in OfStream(u) : i \in 1..n
  BY SampleAdded
<1>9. ASSUME NEW i \in 1..n PROVE checks[i].ts_ns \in Int /\ checks[i].value \in Int \cup {NaN}
  <2>1. checks[i].ts_ns \in 1..MaxStamp /\ checks[i].value \in Values
    <3> DEFINE Recs == [stream_id : ProductIds \cup {10, 11}, value : Values, ts_ns : 1..MaxStamp,
                        result : {"kOk", "kOutOfBounds", "kRateViolation"}]
    <3>1. checks \in Seq(Recs)
      BY DEF RulesIInv
    <3> HIDE DEF Recs
    <3>2. checks[i] \in Recs
      BY <3>1
    <3> QED  BY <3>2 DEF Recs
  <2> QED  BY <2>1, RulesAssumption
<1>v. v \in Int \cup {NaN} /\ t \in Int
  BY RulesAssumption
<1> HIDE DEF n
<1>1. /\ DOMAIN rules_' = DOMAIN rules_
      /\ \A u \in DOMAIN rules_ : rules_'[u].cfg = rules_[u].cfg /\ (u # s => rules_'[u] = rules_[u])
      /\ s \in DOMAIN rules_ => rules_'[s] = NextState(rules_[s], v, t)
  <2>1. CASE s \notin DOMAIN rules_
    BY <2>1 DEF Check
  <2>2. CASE s \in DOMAIN rules_
    <3>1. rules_' = [rules_ EXCEPT ![s] = NextState(rules_[s], v, t)]
      BY <2>2 DEF Check
    <3> QED  BY <3>1 DEF NextState
  <2> QED  BY <2>1, <2>2
<1>2. RatesAreNumbers'
  BY <1>1 DEF RateIInv, RatesAreNumbers
<1>3. LastRemembered'
  <2> SUFFICES ASSUME NEW u \in DOMAIN rules_, NEW m \in OfStream(u)', LastOf(u, m)'
               PROVE  /\ rules_'[u].has_prev /\ rules_'[u].prev_value = checks'[m].value
                      /\ rules_'[u].prev_ts_ns = checks'[m].ts_ns
    BY <1>1 DEF LastRemembered
  <2>1. CASE u = s
    <3>1. m = n + 1
      <4>1. n + 1 <= m
        BY <1>0, <2>1 DEF LastOf
      <4>2. m \in 1..n \/ m = n + 1
        BY <1>0, <2>1
      <4> QED  BY <1>0, <4>1, <4>2
    <3> QED  BY <1>0, <1>1, <2>1, <3>1 DEF NextState
  <2>2. CASE u # s
    <3>1. m \in OfStream(u) /\ LastOf(u, m) /\ checks'[m] = checks[m] /\ rules_'[u] = rules_[u]
      BY <1>0, <1>1, <2>2 DEF LastOf
    <3> QED  BY <3>1, Zenon DEF RateIInv, LastRemembered
  <2> QED  BY <2>1, <2>2
<1>4. QuietRunIsSlow'
  <2> SUFFICES ASSUME NEW u \in DOMAIN rules_, NEW i \in OfStream(u)', NEW j \in OfStream(u)',
                      i <= j, Quiet(u, i, j)'
               PROVE  ~TooFast(rules_[u].cfg, checks'[i].value, checks'[j].value,
                               checks'[j].ts_ns - checks'[i].ts_ns)
    BY <1>1 DEF QuietRunIsSlow
  <2> DEFINE r == rules_[u].cfg.max_rate_of_change
  <2>r. r \in Int \cup {NaN}
    BY DEF RateIInv, RatesAreNumbers
  <2> HIDE DEF r
  <2>u. OfStream(u) \subseteq OfStream(u)'
    BY <1>0
  <2>1. CASE j \in 1..n
    <3>1. i \in 1..n /\ i \in OfStream(u) /\ j \in OfStream(u)
      BY <1>0, <2>1
    <3>2. Quiet(u, i, j)
      BY <1>0, <2>1, <2>u, <3>1, QuietBefore
    <3>3. ~TooFast(rules_[u].cfg, checks[i].value, checks[j].value, checks[j].ts_ns - checks[i].ts_ns)
      BY <3>1, <3>2 DEF RateIInv, QuietRunIsSlow
    <3> QED  BY <1>0, <2>1, <3>1, <3>3
  <2>2. CASE j \notin 1..n
    <3>1. u = s /\ j = n + 1
      BY <1>0, <2>2
    <3>2. CASE i = j
      <4>1. checks'[i].value \in Int \cup {NaN} /\ checks'[i].ts_ns \in Int
        BY <1>0, <1>v, <3>1, <3>2
      <4> DEFINE x == checks'[i].value
                 y == checks'[i].ts_ns
      <4>2. x \in Int \cup {NaN} /\ y \in Int
        BY <4>1
      <4> HIDE DEF x, y
      <4>3. ASSUME r # NaN, x # NaN PROVE ~(Abs(x - x) > r * (y - y))
        <5>1. r \in Int /\ x \in Int /\ y - y = 0 /\ x - x = 0
          BY <2>r, <4>2, <4>3
        <5>2. r * 0 = 0
          BY <5>1
        <5> QED  BY <5>1, <5>2 DEF Abs
      <4> QED  BY <3>2, <4>3 DEF TooFast, r, x, y
    <3>3. CASE i # j
      <4>1. i \in 1..n /\ i \in OfStream(s)
        BY <1>0, <3>1, <3>3
      <4>2. PICK m \in OfStream(s) : LastOf(s, m)
        <5>1. OfStream(s) \in SUBSET Nat /\ OfStream(s) # {} /\ \A k \in OfStream(s) : k <= n
          BY <1>0, <4>1
        <5>2. \E m \in OfStream(s) : \A k \in OfStream(s) : k <= m
          BY <1>0, <5>1, Largest, Zenon
        <5> QED  BY <5>2, Zenon DEF LastOf
      <4>3. /\ m \in 1..n /\ i <= m /\ m <= j /\ m \in OfStream(s)'
            /\ checks'[m] = checks[m] /\ checks'[i] = checks[i]
        <5>1. m \in 1..n /\ m \in OfStream(s)'
          BY <1>0, <4>2
        <5>2. i <= m
          BY <4>1, <4>2 DEF LastOf
        <5>3. m <= j
          BY <1>0, <3>1, <5>1
        <5> QED  BY <1>0, <4>1, <5>1, <5>2, <5>3
      <4>4. /\ checks'[j].result = "kOk" /\ checks'[j].value # NaN
            /\ checks'[m].ts_ns < checks'[j].ts_ns
        <5>1. i < j /\ j <= j /\ m < j
          BY <1>0, <3>1, <4>1, <4>3
        <5> QED  BY <3>1, <4>3, <5>1 DEF Quiet
      <4>5. Quiet(s, i, m)
        <5>1. j \in Nat
          BY <1>0, <3>1
        <5> QED  BY <1>0, <2>u, <3>1, <4>1, <4>3, <5>1, QuietBefore
      <4>6. ~TooFast(rules_[s].cfg, checks[i].value, checks[m].value, checks[m].ts_ns - checks[i].ts_ns)
        BY <3>1, <4>1, <4>2, <4>3, <4>5 DEF RateIInv, QuietRunIsSlow
      <4>7. ~TooFast(rules_[s].cfg, checks[m].value, v, t - checks[m].ts_ns)
        <5>1. /\ rules_[s].has_prev /\ rules_[s].prev_value = checks[m].value
              /\ rules_[s].prev_ts_ns = checks[m].ts_ns
          BY <3>1, <4>2 DEF RateIInv, LastRemembered
        <5>2. RuleResult(rules_[s], v, t) = "kOk" /\ t > checks[m].ts_ns
          BY <1>0, <1>9, <1>v, <3>1, <4>3, <4>4
        <5> QED  BY <5>1, <5>2 DEF RuleResult
      <4>8. checks[m].value # NaN \/ m = i
        <5>1. CASE i < m
          <6>1. m <= m
            BY <4>3
          <6> QED  BY <4>2, <4>5, <5>1, <6>1, Zenon DEF Quiet
        <5>2. i \in Int /\ m \in Int /\ i <= m
          BY <4>1, <4>3
        <5> QED  BY <5>1, <5>2
      <4> DEFINE a == checks[i].value
                 b == checks[m].value
                 d == checks[m].ts_ns - checks[i].ts_ns
                 e == t - checks[m].ts_ns
      <4>9. /\ a \in Int \cup {NaN} /\ b \in Int \cup {NaN} /\ d \in Int /\ e \in Int
            /\ d + e = t - checks[i].ts_ns
        BY <1>9, <1>v, <4>1, <4>3
      <4>10. b = NaN => a = NaN
        BY <4>8
      <4>11. /\ r # NaN /\ a # NaN /\ b # NaN => ~(Abs(b - a) > r * d)
             /\ r # NaN /\ b # NaN /\ v # NaN => ~(Abs(v - b) > r * e)
        BY <3>1, <4>6, <4>7 DEF TooFast, r
      <4> HIDE DEF a, b, d, e
      <4>12. ASSUME r # NaN, a # NaN, v # NaN PROVE ~(Abs(v - a) > r * (d + e))
        <5>1. r \in Int /\ a \in Int /\ b \in Int /\ v \in Int /\ b # NaN
          BY <1>v, <2>r, <4>9, <4>10, <4>12
        <5> QED  BY <4>9, <4>11, <4>12, <5>1, SlowTogether
      <4>13. /\ checks'[j].value = v /\ checks'[j].ts_ns = t
             /\ checks'[i].value = a /\ t - checks'[i].ts_ns = d + e
        BY <1>0, <3>1, <4>3, <4>9 DEF a
      <4> QED  BY <3>1, <4>12, <4>13 DEF TooFast, r
    <3> QED  BY <3>2, <3>3
  <2> QED  BY <2>1, <2>2
<1> QED  BY <1>2, <1>3, <1>4 DEF RateIInv

\* RuleChecker::check, for any rules and any samples: where a stream raises
\* nothing, its value moves no faster than its rule allows, over any distance.
THEOREM QuietIsSlow == RulesSpec => []QuietRunIsSlow
<1>1. RulesInit => RateIInv
  <2> SUFFICES ASSUME RulesInit PROVE RateIInv
    OBVIOUS
  <2>1. checks = << >> /\ DOMAIN rules_ = {}
    BY DEF RulesInit
  <2>2. RatesAreNumbers
    BY <2>1 DEF RatesAreNumbers
  <2> QED  BY <2>1, <2>2, NoSamples
<1>2. RulesIInv /\ RateIInv /\ [RulesNext]_rulesVars => RateIInv'
  <2> SUFFICES ASSUME RulesIInv, RateIInv, [RulesNext]_rulesVars PROVE RateIInv'
    OBVIOUS
  <2>1. CASE UNCHANGED <<rules_, checks>>
    BY <2>1, RateUnchanged
  <2>2. CASE Loading /\ Accepted /\ rules_' = AddRule(fields) /\ UNCHANGED checks
    BY <2>2, FileLoadedRates
  <2>3. ASSUME NEW entry \in products, NEW v \in Values, NEW t \in 1..MaxStamp,
               Check(entry[2], v, t)
        PROVE  RateIInv'
    BY <2>3, CheckRates
  <2> QED
    BY <2>1, <2>2, <2>3
       DEF RulesNext, rulesVars, RulesArg, OtherArg, BadArg, ArgsDone, ProductArg, ReadLine,
           LoadFails, EndOfFile, RulesDone, OpenAlerts, Fail
<1>3. RateIInv => QuietRunIsSlow
  BY DEF RateIInv
<1> QED  BY <1>1, <1>2, <1>3, RulesInitial, RulesStep, PTL DEF RulesSpec

-----------------------------------------------------------------------------
(* Cusum.  Each sum is the largest excess of a run that ends with the last *)
(* sample, or 0 when no run has one.                                       *)

\* pos and neg are the sums for the residuals s.
Tracks(s, pos, neg) ==
    /\ \A i \in 1..Len(s) : Excess(s, i, -k_) <= pos /\ Excess(s, i, k_) >= neg
    /\ pos = 0 \/ \E i \in 1..Len(s) : Excess(s, i, -k_) = pos
    /\ neg = 0 \/ \E i \in 1..Len(s) : Excess(s, i, k_) = neg

RunExceeds(s) == \E i \in 1..Len(s) : Excess(s, i, -k_) > h_ \/ Excess(s, i, k_) < -h_

\* Nothing has been evaluated.
AtRest == since = << >> /\ ~fired /\ s_pos = 0 /\ s_neg = 0

CusumIInv ==
    /\ CusumTypeOK
    /\ fired => s_pos = 0 /\ s_neg = 0 /\ RunExceeds(since)
    /\ ~fired => Tracks(since, s_pos, s_neg)
    /\ samples <= 1 \/ samples <= warmup_n_ => AtRest

LEMMA ExcessType ==
    ASSUME NEW s \in Seq(Int), NEW i \in Nat, NEW d \in Int
    PROVE  Excess(s, i, d) \in Int
<1> DEFINE f == [j \in 1..Len(s) |-> IF j < i THEN 0 ELSE s[j] + d]
<1>1. Len(s) \in Nat /\ \A j \in 1..Len(s) : f[j] \in Int
  OBVIOUS
<1> HIDE DEF f
<1>2. SumTo(f, Len(s)) \in Int
  BY <1>1, SumType
<1> QED  BY <1>2 DEF Excess, f

\* Another residual moves the excess of every run, and starts a run of its own.
LEMMA ExcessStep ==
    ASSUME NEW s \in Seq(Int), NEW r \in Int, NEW d \in Int
    PROVE  /\ \A i \in 1..Len(s) : Excess(Append(s, r), i, d) = Excess(s, i, d) + r + d
           /\ Excess(Append(s, r), Len(s) + 1, d) = r + d
<1> DEFINE n == Len(s)
           t == Append(s, r)
           f(i) == [j \in 1..n |-> IF j < i THEN 0 ELSE s[j] + d]
           g(i) == [j \in 1..(n + 1) |-> IF j < i THEN 0 ELSE t[j] + d]
<1>1. n \in Nat /\ Len(t) = n + 1 /\ t[n + 1] = r /\ \A j \in 1..n : t[j] = s[j]
  OBVIOUS
<1>2. \A j \in 1..n : s[j] \in Int
  OBVIOUS
<1>3. \A i \in Nat : Excess(s, i, d) = SumTo(f(i), n)
  BY DEF Excess
<1>4. \A i \in Nat : Excess(t, i, d) = SumTo(g(i), n + 1)
  BY <1>1 DEF Excess
<1> HIDE DEF n, t
<1>5. ASSUME NEW i \in 1..(n + 1)
      PROVE  Excess(t, i, d) = SumTo(g(i), n) + r + d
  <2>1. \A j \in 1..(n + 1) : g(i)[j] \in Int
    BY <1>1, <1>2
  <2>2. g(i)[n + 1] = r + d
    BY <1>1
  <2> DEFINE gi == g(i)
  <2> HIDE DEF gi
  <2>3. SumTo(gi, n + 1) = SumTo(gi, n) + gi[n + 1]
    BY <1>1, <2>1, SumStep DEF gi
  <2>4. SumTo(gi, n) \in Int
    <3>1. \A j \in 1..n : gi[j] \in Int
      BY <1>1, <2>1 DEF gi
    <3> QED  BY <1>1, <3>1, SumType
  <2>5. i \in Nat
    BY <1>1
  <2>6. Excess(t, i, d) = SumTo(gi, n + 1)
    BY <1>4, <2>5 DEF gi
  <2> QED  BY <2>2, <2>3, <2>4, <2>6 DEF gi
<1>6. ASSUME NEW i \in 1..n PROVE Excess(t, i, d) = Excess(s, i, d) + r + d
  <2>1. \A j \in 1..n : f(i)[j] \in Int /\ g(i)[j] = f(i)[j]
    BY <1>1, <1>2
  <2> DEFINE fi == f(i)
             gi == g(i)
  <2> HIDE DEF fi, gi
  <2>2. SumTo(gi, n) = SumTo(fi, n)
    BY <1>1, <2>1, SumEqual DEF fi, gi
  <2>3. i \in Nat /\ i \in 1..(n + 1)
    BY <1>1
  <2> QED  BY <1>3, <1>5, <2>2, <2>3 DEF fi, gi
<1>7. Excess(t, n + 1, d) = r + d
  <2> DEFINE gi == g(n + 1)
             z == [j \in 1..n |-> 0]
  <2>1. \A j \in 1..n : z[j] \in Int /\ gi[j] = z[j]
    BY <1>1
  <2>2. \A j \in 1..n : z[j] = 0 * z[j]
    OBVIOUS
  <2> HIDE DEF gi, z
  <2>3. SumTo(gi, n) = SumTo(z, n)
    BY <1>1, <2>1, SumEqual
  <2>4. SumTo(z, n) = 0 * SumTo(z, n) /\ SumTo(z, n) \in Int
    <3>1. SumTo(z, n) \in Int
      BY <1>1, <2>1, SumType
    <3>2. 0 \in Int /\ \A j \in 1..n : z[j] \in Int /\ z[j] = 0 * z[j]
      BY <2>1, <2>2
    <3>3. SumTo(z, n) = 0 * SumTo(z, n)
      BY <1>1, <3>2, SumScaled, Zenon
    <3> QED  BY <3>1, <3>3
  <2>5. SumTo(gi, n) = 0
    BY <2>3, <2>4
  <2>6. n + 1 \in 1..(n + 1)
    BY <1>1
  <2>7. Excess(t, n + 1, d) = SumTo(gi, n) + r + d
    BY <1>5, <2>6 DEF gi
  <2> QED  BY <2>5, <2>7
<1> QED  BY <1>6, <1>7 DEF n, t

\* One residual more: the sums the code keeps are still the largest excesses.
LEMMA TracksStep ==
    ASSUME NEW s \in Seq(Residuals), NEW pos \in Nat, NEW neg \in Int, neg <= 0,
           Tracks(s, pos, neg), NEW r \in Residuals
    PROVE  Tracks(Append(s, r), Larger(0, pos + r - k_), Smaller(0, neg + r + k_))
<1> DEFINE n == Len(s)
           t == Append(s, r)
           k == Larger(0, pos + r - k_)
           q == Smaller(0, neg + r + k_)
<1>0. /\ s \in Seq(Int) /\ r \in Int /\ k_ \in Int /\ -k_ \in Int
      /\ n \in Nat /\ Len(t) = n + 1
  BY CusumAssumption DEF Residuals
<1>1. ASSUME NEW i \in 1..n
      PROVE  /\ Excess(s, i, -k_) \in Int /\ Excess(s, i, k_) \in Int
             /\ Excess(s, i, -k_) <= pos /\ Excess(s, i, k_) >= neg
             /\ Excess(t, i, -k_) = Excess(s, i, -k_) + r + (-k_)
             /\ Excess(t, i, k_) = Excess(s, i, k_) + r + k_
  <2>1. Excess(s, i, -k_) \in Int /\ Excess(s, i, k_) \in Int
    <3>1. i \in Nat
      BY <1>0
    <3> QED  BY <1>0, <3>1, ExcessType, Zenon
  <2>2. Excess(s, i, -k_) <= pos /\ Excess(s, i, k_) >= neg
    BY DEF Tracks
  <2>3. /\ Excess(t, i, -k_) = Excess(s, i, -k_) + r + (-k_)
        /\ Excess(t, i, k_) = Excess(s, i, k_) + r + k_
    <3>1. \A j \in 1..n : Excess(t, j, -k_) = Excess(s, j, -k_) + r + (-k_)
      BY <1>0, ExcessStep
    <3>2. \A j \in 1..n : Excess(t, j, k_) = Excess(s, j, k_) + r + k_
      BY <1>0, ExcessStep
    <3> QED  BY <3>1, <3>2, Zenon
  <2> QED  BY <2>1, <2>2, <2>3
<1>2. Excess(t, n + 1, -k_) = r + (-k_) /\ Excess(t, n + 1, k_) = r + k_
  BY <1>0, ExcessStep, Zenon
<1>3. (pos = 0 \/ \E i \in 1..n : Excess(s, i, -k_) = pos)
      /\ (neg = 0 \/ \E i \in 1..n : Excess(s, i, k_) = neg)
  BY DEF Tracks
<1>4. k \in Nat /\ q \in Int /\ k >= pos + r - k_ /\ q <= neg + r + k_
      /\ (k = 0 \/ k = pos + r - k_) /\ (q = 0 \/ q = neg + r + k_)
  BY <1>0 DEF Larger, Smaller
<1> HIDE DEF n, t, k, q
<1>5. ASSUME NEW i \in 1..(n + 1) PROVE Excess(t, i, -k_) <= k /\ Excess(t, i, k_) >= q
  <2>1. CASE i \in 1..n
    <3> DEFINE x == Excess(s, i, -k_)
               y == Excess(s, i, k_)
    <3>1. /\ x \in Int /\ y \in Int /\ x <= pos /\ y >= neg
          /\ Excess(t, i, -k_) = x + r + (-k_) /\ Excess(t, i, k_) = y + r + k_
      BY <1>1, <2>1
    <3> HIDE DEF x, y
    <3> QED  BY <1>0, <1>4, <3>1
  <2>2. CASE i = n + 1
    BY <1>0, <1>2, <1>4, <2>2
  <2> QED  BY <1>0, <2>1, <2>2
<1>6. k = 0 \/ \E i \in 1..(n + 1) : Excess(t, i, -k_) = k
  <2> SUFFICES ASSUME k # 0 PROVE \E i \in 1..(n + 1) : Excess(t, i, -k_) = k
    OBVIOUS
  <2>1. CASE pos = 0
    <3>1. n + 1 \in 1..(n + 1)
      BY <1>0
    <3>2. r + (-k_) = k
      BY <1>0, <1>4, <2>1
    <3> QED  BY <1>2, <3>1, <3>2, Zenon
  <2>2. CASE pos # 0
    <3>1. PICK i \in 1..n : Excess(s, i, -k_) = pos
      BY <1>3, <2>2
    <3>2. Excess(t, i, -k_) = k
      <4>1. Excess(t, i, -k_) = pos + r + (-k_)
        BY <1>1, <3>1
      <4> QED  BY <1>0, <1>4, <4>1
    <3>3. i \in 1..(n + 1)
      BY <1>0
    <3> QED  BY <3>2, <3>3, Zenon
  <2> QED  BY <2>1, <2>2
<1>7. q = 0 \/ \E i \in 1..(n + 1) : Excess(t, i, k_) = q
  <2> SUFFICES ASSUME q # 0 PROVE \E i \in 1..(n + 1) : Excess(t, i, k_) = q
    OBVIOUS
  <2>1. CASE neg = 0
    <3>1. n + 1 \in 1..(n + 1)
      BY <1>0
    <3>2. r + k_ = q
      BY <1>0, <1>4, <2>1
    <3> QED  BY <1>2, <3>1, <3>2, Zenon
  <2>2. CASE neg # 0
    <3>1. PICK i \in 1..n : Excess(s, i, k_) = neg
      BY <1>3, <2>2
    <3>2. Excess(t, i, k_) = q
      <4>1. Excess(t, i, k_) = neg + r + k_
        BY <1>1, <3>1
      <4> QED  BY <1>0, <1>4, <4>1
    <3>3. i \in 1..(n + 1)
      BY <1>0
    <3> QED  BY <3>2, <3>3, Zenon
  <2> QED  BY <2>1, <2>2
<1>8. Tracks(t, k, q)
  BY <1>0, <1>5, <1>6, <1>7 DEF Tracks
<1> QED  BY <1>8 DEF t, k, q

\* Some run exceeds the threshold exactly when one of the sums does.
LEMMA TracksExceeds ==
    ASSUME NEW s \in Seq(Residuals), NEW pos \in Nat, NEW neg \in Int, Tracks(s, pos, neg)
    PROVE  RunExceeds(s) <=> pos > h_ \/ neg < -h_
<1>0. Len(s) \in Nat /\ h_ \in Nat /\ k_ \in Int /\ -k_ \in Int /\ s \in Seq(Int)
  BY CusumAssumption DEF Residuals
<1>1. ASSUME NEW i \in 1..Len(s)
      PROVE  /\ Excess(s, i, -k_) \in Int /\ Excess(s, i, k_) \in Int
             /\ Excess(s, i, -k_) <= pos /\ Excess(s, i, k_) >= neg
  <2>1. Excess(s, i, -k_) \in Int /\ Excess(s, i, k_) \in Int
    <3>1. i \in Nat
      BY <1>0
    <3> QED  BY <1>0, <3>1, ExcessType, Zenon
  <2> QED  BY <2>1 DEF Tracks
<1>2. ASSUME RunExceeds(s) PROVE pos > h_ \/ neg < -h_
  <2>1. PICK i \in 1..Len(s) : Excess(s, i, -k_) > h_ \/ Excess(s, i, k_) < -h_
    BY <1>2 DEF RunExceeds
  <2> QED  BY <1>0, <1>1, <2>1
<1>3. ASSUME pos > h_ PROVE RunExceeds(s)
  <2>1. pos # 0
    BY <1>0, <1>3
  <2> QED  BY <1>3, <2>1 DEF Tracks, RunExceeds
<1>4. ASSUME neg < -h_ PROVE RunExceeds(s)
  <2>1. neg # 0
    BY <1>0, <1>4
  <2> QED  BY <1>4, <2>1 DEF Tracks, RunExceeds
<1> QED  BY <1>2, <1>3, <1>4

LEMMA CusumTypes ==
    ASSUME CusumTypeOK
    PROVE  s_pos \in Nat /\ s_neg \in Int /\ s_neg <= 0 /\ since \in Seq(Residuals)
BY CusumAssumption DEF CusumTypeOK

LEMMA NothingTracked == Tracks(<< >>, 0, 0)
BY DEF Tracks

LEMMA EvaluateKeeps ==
    ASSUME CusumIInv, NEW r \in Residuals, Evaluate(r) PROVE CusumIInv'
<1> DEFINE root == IF fired THEN << >> ELSE since
           pos == Larger(0, s_pos + r - k_)
           neg == Smaller(0, s_neg + r + k_)
<1>0. /\ s_pos \in Nat /\ s_neg \in Int /\ s_neg <= 0 /\ since \in Seq(Residuals)
      /\ fired \in BOOLEAN /\ samples \in Nat
      /\ h_ \in Nat /\ k_ \in Nat /\ r \in Int
  BY CusumTypes, CusumAssumption DEF CusumIInv, CusumTypeOK, Residuals
<1>1. root \in Seq(Residuals) /\ Tracks(root, s_pos, s_neg)
  <2>1. CASE fired
    BY <2>1, NothingTracked DEF CusumIInv
  <2>2. CASE ~fired
    BY <1>0, <2>2 DEF CusumIInv
  <2> QED  BY <2>1, <2>2
<1>2. pos \in Nat /\ neg \in Int /\ neg <= 0
  BY <1>0 DEF Larger, Smaller
<1>3. /\ fired' = (pos > h_ \/ neg < -h_) /\ since' = Append(root, r) /\ samples' = samples + 1
      /\ s_pos' = IF fired' THEN 0 ELSE pos
      /\ s_neg' = IF fired' THEN 0 ELSE neg
  BY DEF Evaluate
<1> HIDE DEF root
<1>4. Tracks(Append(root, r), pos, neg)
  BY <1>0, <1>1, TracksStep
<1>5. Append(root, r) \in Seq(Residuals)
  BY <1>1
<1> HIDE DEF pos, neg
<1>6. RunExceeds(Append(root, r)) <=> pos > h_ \/ neg < -h_
  BY <1>2, <1>4, <1>5, TracksExceeds
<1>7. CusumTypeOK'
  <2>1. fired' \in BOOLEAN /\ samples' \in Nat /\ since' \in Seq(Residuals)
    BY <1>0, <1>3, <1>5
  <2>2. CASE fired'
    <3>1. s_pos' = 0 /\ s_neg' = 0 /\ 0 \in 0..h_ /\ 0 \in (-h_)..0
      BY <1>0, <1>3, <2>2
    <3> QED  BY <2>1, <3>1 DEF CusumTypeOK
  <2>3. CASE ~fired'
    <3>1. s_pos' = pos /\ s_neg' = neg /\ ~(pos > h_) /\ ~(neg < -h_)
      BY <1>3, <2>3
    <3>2. s_pos' \in 0..h_ /\ s_neg' \in (-h_)..0
      BY <1>0, <1>2, <3>1
    <3> QED  BY <2>1, <3>2 DEF CusumTypeOK
  <2> QED  BY <2>2, <2>3
<1>8. fired' => s_pos' = 0 /\ s_neg' = 0 /\ RunExceeds(since')
  BY <1>3, <1>6
<1>9. ~fired' => Tracks(since', s_pos', s_neg')
  BY <1>3, <1>4
<1>10. ~(samples' <= 1 \/ samples' <= warmup_n_)
  <2>1. samples >= 1 /\ samples >= warmup_n_
    BY DEF Evaluate
  <2> QED  BY <1>0, <1>3, <2>1, CusumAssumption
<1> QED  BY <1>7, <1>8, <1>9, <1>10 DEF CusumIInv, RunExceeds, Tracks

\* For every slack, threshold and warm-up, and any residuals: update_and_check()
\* returns true exactly when some run of samples since the last alarm exceeds
\* the threshold.
THEOREM CusumExact == CusumSpec => []AlarmIffRunExceeds
<1>1. CusumInit => CusumIInv
  <2> SUFFICES ASSUME CusumInit PROVE CusumIInv
    OBVIOUS
  <2>1. Tracks(since, s_pos, s_neg) /\ ~fired
    BY NothingTracked DEF CusumInit
  <2>2. CusumTypeOK
    <3>1. 0 \in 0..h_ /\ 0 \in (-h_)..0 /\ 0 \in Nat
      BY CusumAssumption
    <3>2. << >> \in Seq(Residuals)
      OBVIOUS
    <3> QED  BY <3>1, <3>2, Zenon DEF CusumInit, CusumTypeOK
  <2>3. AtRest
    BY DEF CusumInit, AtRest
  <2> QED  BY <2>1, <2>2, <2>3 DEF CusumIInv
<1>2. CusumIInv /\ [CusumNext]_cusumVars => CusumIInv'
  <2> SUFFICES ASSUME CusumIInv, [CusumNext]_cusumVars PROVE CusumIInv'
    OBVIOUS
  <2>0. ASSUME samples' = samples + 1, fired' = FALSE, AtRest, UNCHANGED <<s_pos, s_neg, since>>
        PROVE  CusumIInv'
    <3>1. CusumTypeOK' /\ AtRest'
      <4>1. samples + 1 \in Nat
        BY DEF CusumIInv, CusumTypeOK
      <4> QED  BY <2>0, <4>1, Zenon DEF CusumIInv, CusumTypeOK, AtRest
    <3>2. Tracks(since', s_pos', s_neg')
      BY <2>0, NothingTracked DEF AtRest
    <3> QED  BY <2>0, <3>1, <3>2 DEF CusumIInv, Tracks
  <2>a. samples \in Nat
    BY DEF CusumIInv, CusumTypeOK
  <2>1. CASE Seed
    <3>1. samples = 0 /\ samples' = samples + 1 /\ s_pos' = 0 /\ s_neg' = 0 /\ fired' = FALSE /\ since' = since
      BY <2>1 DEF Seed
    <3>2. AtRest
      BY <2>a, <3>1 DEF CusumIInv
    <3> QED  BY <2>0, <3>1, <3>2 DEF AtRest
  <2>2. CASE WarmUp
    <3>1. /\ samples < warmup_n_ /\ samples' = samples + 1 /\ fired' = FALSE
          /\ UNCHANGED <<s_pos, s_neg, since>>
      BY <2>2 DEF WarmUp
    <3>2. AtRest
      BY <2>a, <3>1, CusumAssumption DEF CusumIInv
    <3> QED  BY <2>0, <3>1, <3>2
  <2>3. ASSUME NEW r \in Residuals, Evaluate(r) PROVE CusumIInv'
    BY <2>3, EvaluateKeeps
  <2>4. CASE UNCHANGED cusumVars
    BY <2>4 DEF cusumVars, CusumIInv, CusumTypeOK, Tracks, RunExceeds, AtRest
  <2> QED  BY <2>1, <2>2, <2>3, <2>4 DEF CusumNext
<1>3. CusumIInv => AlarmIffRunExceeds
  <2> SUFFICES ASSUME CusumIInv PROVE AlarmIffRunExceeds
    OBVIOUS
  <2>1. CusumTypeOK /\ (fired => RunExceeds(since))
    BY DEF CusumIInv
  <2>2. ASSUME ~fired PROVE ~RunExceeds(since)
    <3>1. ~(s_pos > h_ \/ s_neg < -h_)
      BY <2>1, CusumAssumption DEF CusumTypeOK
    <3> QED  BY <2>1, <2>2, <3>1, CusumTypes, TracksExceeds DEF CusumIInv
  <2> QED  BY <2>1, <2>2 DEF AlarmIffRunExceeds, RunExceeds, CusumTypeOK
<1> QED  BY <1>1, <1>2, <1>3, PTL DEF CusumSpec

-----------------------------------------------------------------------------
(* Baseline.  The moments are the weighted sums of the ticks so far: each  *)
(* tick multiplies every earlier term by the same factor and adds one.     *)

Keep == WeightUnder - WeightOver
Tick == {NotANumber} \cup {<<x>> : x \in Prices}
Numbers == {<<x>> : x \in Prices}

\* The weighted moments of the ticks s.
MeanTerm(s, n) == [i \in 1..n |-> Power(Keep, n - i) * WeightOver * Scale(i - 1) * s[i][1]]
MeanOf(s, n) == SumTo(MeanTerm(s, n), n)
DeviationOf(s, n) == Scale(n - 1) * s[n][1] - MeanOf(s, n - 1)
VarTerm(s, n) == [i \in 1..n |-> Power(Keep, n - i) * WeightOver * Scale(n - i + 1)
                                   * DeviationOf(s, i) * DeviationOf(s, i)]
VarOf(s, n) == SumTo(VarTerm(s, n), n)

LEMMA MomentsAre ==
    \A n : WeightedMean(n) = MeanOf(ticks, n) /\ Deviation(n) = DeviationOf(ticks, n)
           /\ WeightedVar(n) = VarOf(ticks, n)
<1>1. \A n : WeightedMean(n) = MeanOf(ticks, n)
  BY DEF WeightedMean, MeanOf, MeanTerm, Keep
<1>2. \A n : Deviation(n) = DeviationOf(ticks, n)
  BY <1>1 DEF Deviation, DeviationOf
<1>3. \A n : WeightedVar(n) = VarOf(ticks, n)
  BY <1>2 DEF WeightedVar, VarOf, VarTerm, Keep
<1> QED  BY <1>1, <1>2, <1>3

LEMMA WeightFacts ==
    /\ WeightUnder \in Nat /\ WeightUnder > 0 /\ WeightOver \in Nat /\ WeightOver > 0
    /\ Keep \in Nat
BY WeightAssumption DEF Keep

LEMMA ScaleFacts ==
    ASSUME NEW n \in Nat
    PROVE  /\ Scale(n) \in Int /\ Scale(n + 1) = WeightUnder * Scale(n) /\ Scale(0) = 1
<1>1. WeightUnder \in Int
  BY WeightFacts
<1> QED  BY <1>1, PowerType, PowerStep, PowerZero DEF Scale

\* Ticks that are numbers.
Clear(s) == s \in Seq(Numbers)

LEMMA ClearFacts ==
    ASSUME NEW s, Clear(s), NEW i \in 1..Len(s)
    PROVE  s[i][1] \in Int /\ s[i] = <<s[i][1]>> /\ Len(s) \in Nat
<1>1. s[i] \in Numbers /\ Len(s) \in Nat
  BY DEF Clear
<1>2. PICK x \in Prices : s[i] = <<x>>
  BY <1>1, Zenon DEF Numbers
<1>3. x \in Int
  BY WeightAssumption
<1> QED  BY <1>1, <1>2, <1>3

LEMMA MeanTermType ==
    ASSUME NEW s, Clear(s), NEW n \in 0..Len(s)
    PROVE  \A i \in 1..n : MeanTerm(s, n)[i] \in Int
<1> SUFFICES ASSUME NEW i \in 1..n PROVE MeanTerm(s, n)[i] \in Int
  OBVIOUS
<1>1. Len(s) \in Nat
  BY DEF Clear
<1>2. n - i \in Nat /\ i - 1 \in Nat /\ i \in 1..Len(s)
  BY <1>1
<1>3. PICK a \in Int : a = Power(Keep, n - i)
  <2>1. Keep \in Int
    BY WeightFacts
  <2> QED  BY <1>2, <2>1, PowerType
<1>4. PICK b \in Int : b = Scale(i - 1)
  BY <1>2, ScaleFacts
<1>5. PICK c \in Int : c = s[i][1]
  BY <1>2, ClearFacts
<1>6. MeanTerm(s, n)[i] = a * WeightOver * b * c
  BY <1>3, <1>4, <1>5 DEF MeanTerm
<1> QED  BY <1>6, WeightFacts

LEMMA MeanType ==
    ASSUME NEW s, Clear(s), NEW n \in 0..Len(s)
    PROVE  MeanOf(s, n) \in Int
<1>1. n \in Nat
  BY DEF Clear
<1> QED  BY <1>1, MeanTermType, SumType DEF MeanOf

LEMMA MeanStep ==
    ASSUME NEW s, Clear(s), NEW n \in Nat, n < Len(s)
    PROVE  MeanOf(s, n + 1) = Keep * MeanOf(s, n) + WeightOver * Scale(n) * s[n + 1][1]
<1> DEFINE f == MeanTerm(s, n)
           g == MeanTerm(s, n + 1)
<1>0. Len(s) \in Nat /\ n \in 0..Len(s) /\ n + 1 \in 0..Len(s) /\ n + 1 \in 1..Len(s)
  BY DEF Clear
<1>1. \A i \in 1..(n + 1) : g[i] \in Int
  BY <1>0, MeanTermType
<1>2. \A i \in 1..n : f[i] \in Int
  BY <1>0, MeanTermType
<1>3. ASSUME NEW i \in 1..n PROVE g[i] = Keep * f[i]
  <2>1. n - i \in Nat /\ (n + 1) - i = (n - i) + 1 /\ i - 1 \in Nat /\ i \in 1..Len(s)
        /\ i \in 1..(n + 1)
    BY <1>0
  <2>2. PICK k \in Int : k = Keep
    BY WeightFacts
  <2>3. PICK a \in Int : a = Power(Keep, n - i) /\ Power(Keep, (n + 1) - i) = k * a
    <3>1. Power(k, n - i) \in Int
      BY <2>1, PowerType
    <3>2. Power(k, (n - i) + 1) = k * Power(k, n - i)
      BY <2>1, PowerStep
    <3> QED  BY <2>1, <2>2, <3>1, <3>2
  <2>4. PICK b \in Int : b = Scale(i - 1)
    BY <2>1, ScaleFacts
  <2>5. PICK c \in Int : c = s[i][1]
    BY <2>1, ClearFacts
  <2>6. f[i] = a * WeightOver * b * c
    BY <2>3, <2>4, <2>5 DEF MeanTerm
  <2>7. g[i] = k * a * WeightOver * b * c
    BY <2>1, <2>3, <2>4, <2>5 DEF MeanTerm
  <2>8. PICK w \in Int : w = WeightOver
    BY WeightFacts
  <2>9. k * a * w * b * c = k * (a * w * b * c)
    OBVIOUS
  <2> QED  BY <2>2, <2>6, <2>7, <2>8, <2>9
<1>4. g[n + 1] = WeightOver * Scale(n) * s[n + 1][1]
  <2>1. (n + 1) - (n + 1) = 0 /\ (n + 1) - 1 = n /\ n + 1 \in 1..(n + 1)
    OBVIOUS
  <2>2. g[n + 1] = Power(Keep, 0) * WeightOver * Scale(n) * s[n + 1][1]
    BY <2>1 DEF MeanTerm
  <2>3. Power(Keep, 0) = 1
    BY WeightFacts, PowerZero
  <2> QED  BY <2>2, <2>3, WeightFacts
<1> HIDE DEF f, g
<1>5. SumTo(g, n) = Keep * SumTo(f, n)
  <2>1. Keep \in Int
    BY WeightFacts
  <2> QED  BY <1>2, <1>3, <2>1, SumScaled
<1>6. SumTo(g, n + 1) = SumTo(g, n) + g[n + 1]
  BY <1>1, SumStep
<1> QED  BY <1>4, <1>5, <1>6 DEF f, g, MeanOf

LEMMA DeviationType ==
    ASSUME NEW s, Clear(s), NEW n \in 1..Len(s)
    PROVE  DeviationOf(s, n) \in Int
<1>1. Len(s) \in Nat /\ n - 1 \in Nat /\ n - 1 \in 0..Len(s)
  BY DEF Clear
<1>2. Scale(n - 1) \in Int /\ MeanOf(s, n - 1) \in Int /\ s[n][1] \in Int
  BY <1>1, ScaleFacts, MeanType, ClearFacts
<1> QED  BY <1>2 DEF DeviationOf

LEMMA VarTermType ==
    ASSUME NEW s, Clear(s), NEW n \in 0..Len(s)
    PROVE  \A i \in 1..n : VarTerm(s, n)[i] \in Int
<1> SUFFICES ASSUME NEW i \in 1..n PROVE VarTerm(s, n)[i] \in Int
  OBVIOUS
<1>1. Len(s) \in Nat
  BY DEF Clear
<1>2. n - i \in Nat /\ n - i + 1 \in Nat /\ i \in 1..Len(s)
  BY <1>1
<1>3. PICK a \in Int : a = Power(Keep, n - i)
  <2>1. Keep \in Int
    BY WeightFacts
  <2> QED  BY <1>2, <2>1, PowerType
<1>4. PICK b \in Int : b = Scale(n - i + 1)
  BY <1>2, ScaleFacts
<1>5. PICK c \in Int : c = DeviationOf(s, i)
  BY <1>2, DeviationType
<1>6. VarTerm(s, n)[i] = a * WeightOver * b * c * c
  BY <1>3, <1>4, <1>5 DEF VarTerm
<1> QED  BY <1>6, WeightFacts

LEMMA VarStep ==
    ASSUME NEW s, Clear(s), NEW n \in Nat, n < Len(s)
    PROVE  VarOf(s, n + 1)
             = WeightUnder * (Keep * VarOf(s, n)
                              + WeightOver * DeviationOf(s, n + 1) * DeviationOf(s, n + 1))
<1> DEFINE f == VarTerm(s, n)
           g == VarTerm(s, n + 1)
<1>0. Len(s) \in Nat /\ n \in 0..Len(s) /\ n + 1 \in 0..Len(s) /\ n + 1 \in 1..Len(s)
  BY DEF Clear
<1>1. \A i \in 1..(n + 1) : g[i] \in Int
  BY <1>0, VarTermType
<1>2. \A i \in 1..n : f[i] \in Int
  BY <1>0, VarTermType
<1>u. PICK u \in Int, w \in Int, k \in Int : u = WeightUnder /\ w = WeightOver /\ k = Keep
  BY WeightFacts
<1>3. ASSUME NEW i \in 1..n PROVE g[i] = (u * k) * f[i]
  <2>1. n - i \in Nat /\ (n + 1) - i = (n - i) + 1 /\ n - i + 1 \in Nat
        /\ (n + 1) - i + 1 = (n - i + 1) + 1 /\ i \in 1..Len(s) /\ i \in 1..(n + 1)
    BY <1>0
  <2>3. PICK a \in Int : a = Power(Keep, n - i) /\ Power(Keep, (n + 1) - i) = k * a
    <3>1. Power(k, n - i) \in Int
      BY <2>1, PowerType
    <3>2. Power(k, (n - i) + 1) = k * Power(k, n - i)
      BY <2>1, PowerStep
    <3> QED  BY <1>u, <2>1, <3>1, <3>2
  <2>4. PICK b \in Int : b = Scale(n - i + 1) /\ Scale((n + 1) - i + 1) = u * b
    <3>1. Scale(n - i + 1) \in Int /\ Scale((n - i + 1) + 1) = u * Scale(n - i + 1)
      BY <1>u, <2>1, ScaleFacts
    <3> QED  BY <2>1, <3>1
  <2>5. PICK c \in Int : c = DeviationOf(s, i)
    BY <2>1, DeviationType
  <2>6. f[i] = a * w * b * c * c
    BY <1>u, <2>3, <2>4, <2>5 DEF VarTerm
  <2>7. g[i] = k * a * w * (u * b) * c * c
    BY <1>u, <2>1, <2>3, <2>4, <2>5 DEF VarTerm
  <2>9. k * a * w * (u * b) * c * c = (u * k) * (a * w * b * c * c)
    OBVIOUS
  <2> QED  BY <2>6, <2>7, <2>9
<1>4. PICK d \in Int : d = DeviationOf(s, n + 1) /\ g[n + 1] = w * u * d * d
  <2>1. (n + 1) - (n + 1) = 0 /\ n + 1 \in 1..(n + 1) /\ (n + 1) - (n + 1) + 1 = 1
    OBVIOUS
  <2>2. g[n + 1] = Power(Keep, 0) * WeightOver * Scale(1)
                     * DeviationOf(s, n + 1) * DeviationOf(s, n + 1)
    BY <2>1 DEF VarTerm
  <2>3. Power(Keep, 0) = 1
    BY WeightFacts, PowerZero
  <2>4. Scale(1) = u
    <3>1. Scale(0 + 1) = WeightUnder * Scale(0) /\ Scale(0) = 1 /\ 0 + 1 = 1
      BY ScaleFacts
    <3> QED  BY <1>u, <3>1
  <2>5. DeviationOf(s, n + 1) \in Int
    BY <1>0, DeviationType
  <2> QED  BY <1>u, <2>2, <2>3, <2>4, <2>5
<1> HIDE DEF f, g
<1>5. SumTo(g, n) = (u * k) * SumTo(f, n)
  <2>1. PICK z \in Int : z = u * k
    OBVIOUS
  <2>2. \A i \in 1..n : f[i] \in Int /\ g[i] = z * f[i]
    BY <1>2, <1>3, <2>1, Zenon
  <2>3. SumTo(g, n) = z * SumTo(f, n)
    BY <2>1, <2>2, SumScaled, SMTT(30)
  <2> QED  BY <2>1, <2>3, Zenon
<1>6. SumTo(g, n + 1) = SumTo(g, n) + g[n + 1]
  BY <1>1, SumStep
<1>7. PICK v \in Int : v = SumTo(f, n)
  BY <1>2, SumType
<1>8. SumTo(g, n + 1) = u * (k * v + w * d * d)
  <2>1. u * (k * v + w * d * d) = (u * k) * v + w * u * d * d
    OBVIOUS
  <2> QED  BY <1>4, <1>5, <1>6, <1>7, <2>1
<1> QED  BY <1>u, <1>4, <1>7, <1>8 DEF f, g, VarOf

\* The moments of a prefix are those of the prefix alone.
LEMMA PrefixMean ==
    ASSUME NEW s, Clear(s), NEW t, \A i \in 1..Len(s) : t[i] = s[i], NEW n \in 0..Len(s)
    PROVE  MeanOf(t, n) = MeanOf(s, n)
<1>1. Len(s) \in Nat /\ n \in Nat
  BY DEF Clear
<1>2. \A i \in 1..n : MeanTerm(s, n)[i] \in Int /\ MeanTerm(t, n)[i] = MeanTerm(s, n)[i]
  <2>1. \A i \in 1..n : t[i] = s[i]
    BY <1>1
  <2>2. MeanTerm(t, n) = MeanTerm(s, n)
    BY <2>1, Zenon DEF MeanTerm
  <2> QED  BY <2>2, MeanTermType
<1> QED  BY <1>1, <1>2, SumEqual DEF MeanOf

LEMMA PrefixVar ==
    ASSUME NEW s, Clear(s), NEW t, \A i \in 1..Len(s) : t[i] = s[i], NEW n \in 0..Len(s)
    PROVE  VarOf(t, n) = VarOf(s, n)
<1>1. Len(s) \in Nat /\ n \in Nat
  BY DEF Clear
<1>2. ASSUME NEW i \in 1..n PROVE DeviationOf(t, i) = DeviationOf(s, i)
  <2>1. i - 1 \in 0..Len(s) /\ t[i] = s[i]
    BY <1>1
  <2>2. MeanOf(t, i - 1) = MeanOf(s, i - 1)
    BY <2>1, PrefixMean
  <2> QED  BY <2>1, <2>2 DEF DeviationOf
<1>3. VarTerm(t, n) = VarTerm(s, n)
  BY <1>2, Zenon DEF VarTerm
<1>4. \A i \in 1..n : VarTerm(s, n)[i] \in Int /\ VarTerm(t, n)[i] = VarTerm(s, n)[i]
  BY <1>3, VarTermType
<1> QED  BY <1>1, <1>4, SumEqual DEF VarOf

-----------------------------------------------------------------------------
\* The moments are those of the ticks, and the score is out of sample.
Sampled(s, m, v, z) ==
    /\ m = MeanOf(s, Len(s)) /\ v = VarOf(s, Len(s))
    /\ Len(s) > 0 => z = IF VarOf(s, Len(s) - 1) = 0 THEN Zero
                         ELSE <<DeviationOf(s, Len(s)), VarOf(s, Len(s) - 1)>>

\* c times the scale, less the mean: what Diff(<<c>>) is.
Gap(c) == Scale(Len(ticks)) * c - mean

BaselineIInv ==
    /\ BaselineTypeOK
    /\ poisoned = FALSE <=> Clear(ticks)
    /\ Clear(ticks) => Sampled(ticks, mean, var, score)

LEMMA Squares == ASSUME NEW d \in Int PROVE d * d \in Nat /\ (d # 0 => d * d > 0)
<1>1. CASE d >= 0
  BY <1>1
<1>2. CASE d < 0
  <2>1. PICK e \in Nat : d = -e /\ e > 0
    BY <1>2
  <2>2. d * d = e * e
    BY <2>1
  <2> QED  BY <2>1, <2>2
<1> QED  BY <1>1, <1>2

LEMMA Products == ASSUME NEW a \in Nat, NEW b \in Nat
                  PROVE a * b \in Nat /\ (a > 0 /\ b > 0 => a * b > 0)
OBVIOUS

LEMMA ClearIsClean == ASSUME BaselineTypeOK PROVE Clean <=> Clear(ticks)
<1>1. ticks \in Seq(Tick) /\ Len(ticks) \in Nat
  BY DEF BaselineTypeOK, Tick
<1>2. ASSUME Clear(ticks), NEW i \in 1..Len(ticks) PROVE ticks[i] # NotANumber
  <2>1. ticks[i] = <<ticks[i][1]>>
    BY <1>2, ClearFacts
  <2> QED  BY <2>1 DEF NotANumber
<1>3. ASSUME Clean PROVE Clear(ticks)
  <2>1. \A i \in 1..Len(ticks) : ticks[i] \in Tick
    BY <1>1
  <2>2. \A i \in 1..Len(ticks) : ticks[i] \in Numbers
    BY <1>3, <2>1, Zenon DEF Clean, Tick, Numbers
  <2>3. ticks \in [1..Len(ticks) -> Numbers]
    BY <1>1, <2>2
  <2> QED  BY <1>1, <2>3, FunctionIsSeq, Zenon DEF Clear
<1> QED  BY <1>2, <1>3 DEF Clean

\* A tick that is a number, on a stream of such ticks.
LEMMA NumberTick ==
    ASSUME BaselineIInv, NEW x \in Prices, Consume(<<x>>), Clear(ticks)
    PROVE  /\ Clear(ticks') /\ poisoned' = FALSE
           /\ Sampled(ticks', mean', var', score')
           /\ mean' = Keep * mean + WeightOver * Scale(Len(ticks)) * x
           /\ var' = WeightUnder * (Keep * var + WeightOver * (Gap(x) * Gap(x)))
           /\ score' = IF var = 0 THEN Zero ELSE <<Gap(x), var>>
           /\ Gap(x) \in Int /\ mean' \in Int /\ var' \in Nat
<1> DEFINE n == Len(ticks)
           t == ticks'
<1>0. /\ ticks \in Seq(Numbers) /\ n \in Nat /\ <<x>> \in Numbers /\ x \in Int
      /\ mean \in Int /\ var \in Nat /\ poisoned = FALSE
  BY WeightAssumption DEF BaselineIInv, BaselineTypeOK, Clear, Numbers
<1>1. t = Append(ticks, <<x>>)
  BY DEF Consume
<1>2. /\ t \in Seq(Numbers) /\ Len(t) = n + 1 /\ t[n + 1] = <<x>> /\ n < Len(t)
      /\ \A i \in 1..n : t[i] = ticks[i]
  BY <1>0, <1>1
<1>3. <<x>> # NotANumber
  BY DEF NotANumber
<1>4. /\ poisoned' = FALSE
      /\ mean' = (WeightUnder - WeightOver) * mean + WeightOver * Scale(n) * x
      /\ var' = WeightUnder * ((WeightUnder - WeightOver) * var
                               + WeightOver * Diff(<<x>>) * Diff(<<x>>))
  BY <1>0, <1>3 DEF Consume, UpdateMoments
<1>5. score' = IF var = 0 THEN Zero ELSE <<Diff(<<x>>), var>>
  BY <1>0, <1>3 DEF Consume, Zscore
<1>6. Diff(<<x>>) = Gap(x)
  BY DEF Diff, Gap
<1>7. PICK g \in Int : g = Gap(x)
  <2>1. Scale(n) \in Int
    BY <1>0, ScaleFacts
  <2> QED  BY <1>0, <2>1 DEF Gap
<1>8. PICK u \in Nat, w \in Nat, k \in Nat : u = WeightUnder /\ w = WeightOver /\ k = Keep
                                           /\ k = WeightUnder - WeightOver
  BY WeightFacts DEF Keep
<1>9. PICK sc \in Int : sc = Scale(n)
  BY <1>0, ScaleFacts
<1>10. mean' = k * mean + w * sc * x /\ mean' \in Int
  BY <1>0, <1>4, <1>8, <1>9
<1>11. var' = u * (k * var + w * (g * g)) /\ var' \in Nat
  <2>1. w * g * g = w * (g * g)
    OBVIOUS
  <2>2. var' = u * (k * var + w * (g * g))
    BY <1>4, <1>6, <1>7, <1>8, <2>1
  <2>3. g * g \in Nat /\ k * var \in Nat
    BY <1>0, Squares, Products
  <2>4. w * (g * g) \in Nat
    BY <2>3, Products
  <2>5. k * var + w * (g * g) \in Nat
    BY <2>3, <2>4
  <2> QED  BY <2>2, <2>5, Products
<1>12. mean = MeanOf(ticks, n) /\ var = VarOf(ticks, n)
  BY DEF BaselineIInv, Sampled
<1>13. /\ MeanOf(t, n) = MeanOf(ticks, n) /\ VarOf(t, n) = VarOf(ticks, n)
  <2>1. n \in 0..Len(ticks)
    BY <1>0
  <2> QED  BY <1>2, <2>1, PrefixMean, PrefixVar
<1>14. Clear(t)
  BY <1>2 DEF Clear
<1> HIDE DEF t
<1>15. (n + 1) - 1 = n /\ t[n + 1][1] = x
  BY <1>0, <1>2
<1>16. DeviationOf(t, n + 1) = g
  BY <1>7, <1>12, <1>13, <1>15 DEF DeviationOf, Gap
<1>17. MeanOf(t, n + 1) = k * mean + w * sc * x
  <2>1. MeanOf(t, n + 1) = Keep * MeanOf(t, n) + WeightOver * Scale(n) * t[n + 1][1]
    BY <1>0, <1>2, <1>14, MeanStep
  <2> QED  BY <1>8, <1>9, <1>12, <1>13, <1>15, <2>1
<1>18. VarOf(t, n + 1) = u * (k * var + w * (g * g))
  <2>1. VarOf(t, n + 1)
             = WeightUnder * (Keep * VarOf(t, n)
                              + WeightOver * DeviationOf(t, n + 1) * DeviationOf(t, n + 1))
    BY <1>0, <1>2, <1>14, VarStep
  <2>2. w * g * g = w * (g * g)
    OBVIOUS
  <2> QED  BY <1>8, <1>12, <1>13, <1>16, <2>1, <2>2
<1>19. score' = IF VarOf(t, Len(t) - 1) = 0 THEN Zero
                ELSE <<DeviationOf(t, Len(t)), VarOf(t, Len(t) - 1)>>
  BY <1>2, <1>5, <1>6, <1>7, <1>12, <1>13, <1>15, <1>16
<1>20. Sampled(t, mean', var', score')
  BY <1>2, <1>10, <1>11, <1>17, <1>18, <1>19, Zenon DEF Sampled
<1> QED
  BY <1>4, <1>5, <1>6, <1>7, <1>8, <1>9, <1>10, <1>11, <1>14, <1>20 DEF t

LEMMA BaselineInductive == BaselineSpec => []BaselineIInv
<1>1. BaselineInit => BaselineIInv
  <2> SUFFICES ASSUME BaselineInit PROVE BaselineIInv
    OBVIOUS
  <2>1. /\ ticks = << >> /\ mean = 0 /\ var = 0 /\ poisoned = FALSE
        /\ score = Zero /\ Len(ticks) = 0
    BY DEF BaselineInit
  <2>2. BaselineTypeOK
    <3>1. ticks \in Seq({NotANumber} \cup {<<y>> : y \in Prices})
      BY <2>1
    <3>2. Len(ticks) <= MaxTicks /\ mean \in Int /\ var \in Nat
      BY <2>1, WeightAssumption
    <3>3. score \in {NotANumber} \cup Int \X (Nat \ {0})
      BY <2>1 DEF Zero
    <3> QED  BY <2>1, <3>1, <3>2, <3>3 DEF BaselineTypeOK
  <2>3. Clear(ticks)
    BY <2>1 DEF Clear
  <2>4. MeanOf(ticks, 0) = 0 /\ VarOf(ticks, 0) = 0
    BY SumEmpty DEF MeanOf, VarOf
  <2>5. Sampled(ticks, mean, var, score)
    BY <2>1, <2>4 DEF Sampled
  <2> QED  BY <2>1, <2>2, <2>3, <2>5 DEF BaselineIInv
<1>2. BaselineIInv /\ [BaselineNext]_baselineVars => BaselineIInv'
  <2> SUFFICES ASSUME BaselineIInv, [BaselineNext]_baselineVars PROVE BaselineIInv'
    OBVIOUS
  <2>0. /\ ticks \in Seq(Tick) /\ Len(ticks) \in Nat /\ mean \in Int /\ var \in Nat
        /\ poisoned \in BOOLEAN /\ MaxTicks \in Nat
    BY WeightAssumption DEF BaselineIInv, BaselineTypeOK, Tick
  <2>1. ASSUME NEW tick \in Tick, Consume(tick)
        PROVE  /\ ticks' \in Seq(Tick) /\ Len(ticks') = Len(ticks) + 1 /\ Len(ticks') <= MaxTicks
               /\ ticks'[Len(ticks) + 1] = tick
               /\ \A i \in 1..Len(ticks) : ticks'[i] = ticks[i]
    <3>1. ticks' = Append(ticks, tick) /\ Len(ticks) < MaxTicks
      BY <2>1 DEF Consume
    <3> QED  BY <2>0, <3>1
  <2>2. ASSUME NEW tick \in Tick, Consume(tick), poisoned \/ tick = NotANumber
        PROVE  BaselineIInv'
    <3>1. poisoned' = TRUE /\ mean' = mean /\ var' = var
      BY <2>2, <2>0 DEF Consume, UpdateMoments
    <3>2. score' \in {NotANumber, Zero}
      BY <2>2 DEF Consume, Zscore
    <3>3. BaselineTypeOK'
      BY <2>0, <2>1, <2>2, <3>1, <3>2 DEF BaselineTypeOK, Tick, Zero
    <3>4. ~Clear(ticks')
      <4>1. CASE tick = NotANumber
        <5> SUFFICES ASSUME Clear(ticks') PROVE FALSE
          OBVIOUS
        <5>1. Len(ticks) + 1 \in 1..Len(ticks')
          BY <2>0, <2>1, <2>2
        <5>2. ticks'[Len(ticks) + 1] = <<ticks'[Len(ticks) + 1][1]>>
          BY <5>1, ClearFacts
        <5> QED  BY <2>1, <2>2, <4>1, <5>2 DEF NotANumber
      <4>2. CASE poisoned
        <5> SUFFICES ASSUME Clear(ticks') PROVE FALSE
          OBVIOUS
        <5>1. \A i \in 1..Len(ticks) : ticks[i] \in Numbers
          <6>1. \A i \in 1..Len(ticks) : i \in 1..Len(ticks')
            BY <2>0, <2>1, <2>2
          <6>2. \A i \in 1..Len(ticks') : ticks'[i] \in Numbers
            BY DEF Clear
          <6> QED  BY <2>1, <2>2, <6>1, <6>2
        <5>2. ticks \in [1..Len(ticks) -> Numbers]
          BY <2>0, <5>1
        <5>3. Clear(ticks)
          BY <2>0, <5>2, FunctionIsSeq, Zenon DEF Clear
        <5> QED  BY <4>2, <5>3 DEF BaselineIInv
      <4> QED  BY <2>2, <4>1, <4>2
    <3> QED  BY <2>1, <2>2, <3>1, <3>3, <3>4 DEF BaselineIInv
  <2>3. ASSUME NEW x \in Prices, Consume(<<x>>), poisoned = FALSE
        PROVE  BaselineIInv'
    <3>0. <<x>> \in Tick /\ Clear(ticks)
      BY <2>3 DEF Tick, BaselineIInv
    <3>1. /\ Clear(ticks') /\ poisoned' = FALSE /\ Sampled(ticks', mean', var', score')
          /\ score' = IF var = 0 THEN Zero ELSE <<Gap(x), var>>
          /\ Gap(x) \in Int /\ mean' \in Int /\ var' \in Nat
      BY <2>3, <3>0, NumberTick
    <3>2. score' \in Int \X (Nat \ {0})
      BY <2>0, <3>1 DEF Zero
    <3>3. BaselineTypeOK'
      BY <2>0, <2>1, <2>3, <3>0, <3>1, <3>2 DEF BaselineTypeOK, Tick
    <3> QED  BY <3>1, <3>3 DEF BaselineIInv
  <2>4. ASSUME UNCHANGED baselineVars PROVE BaselineIInv'
    BY <2>4 DEF BaselineIInv, BaselineTypeOK, baselineVars
  <2>5. ASSUME BaselineNext PROVE BaselineIInv'
    <3>1. ASSUME Consume(NotANumber) PROVE BaselineIInv'
      <4>1. NotANumber \in Tick
        BY DEF Tick
      <4> QED  BY <2>2, <3>1, <4>1
    <3>2. ASSUME NEW x \in Prices, Consume(<<x>>) PROVE BaselineIInv'
      <4>1. <<x>> \in Tick
        BY DEF Tick
      <4> QED  BY <2>0, <2>2, <2>3, <3>2, <4>1
    <3> QED  BY <2>5, <3>1, <3>2 DEF BaselineNext
  <2> QED  BY <2>4, <2>5
<1> QED  BY <1>1, <1>2, PTL DEF BaselineSpec

\* The EWMA layer's zscore and update, for every alpha in (0, 1] and every stream
\* of ticks without NaN: a tick is scored by the weighted mean and variance of the
\* ticks before it.
THEOREM ScoreOutOfSample == BaselineSpec => []ScoreIsOutOfSample
<1>1. BaselineIInv => ScoreIsOutOfSample
  <2> SUFFICES ASSUME BaselineIInv PROVE ScoreIsOutOfSample
    OBVIOUS
  <2>1. BaselineTypeOK /\ (Clean <=> Clear(ticks))
    BY ClearIsClean DEF BaselineIInv
  <2>2. Clear(ticks) => Sampled(ticks, mean, var, score)
    BY DEF BaselineIInv
  <2> QED  BY <2>1, <2>2, MomentsAre DEF ScoreIsOutOfSample, Sampled
<1> QED  BY <1>1, BaselineInductive, PTL

-----------------------------------------------------------------------------
(* Conformal.  The ring holds the most recent scores, oldest first; the    *)
(* score of rank k parts them so that at most k are below it and more than *)
(* k are not above it.                                                     *)

\* The positions of w whose scores are below x, and those that are not.
LowerIn(w, n, x) == {i \in 1..n : w[i] < x}
HigherIn(w, n, x) == {i \in 1..n : w[i] > x}
AtLeastIn(w, n, x) == {i \in 1..n : w[i] >= x}
AtMostIn(w, n, x) == {i \in 1..n : w[i] <= x}

\* A part of the positions and its complement.
LEMMA Complement ==
    ASSUME NEW n \in Nat, NEW A, NEW B, A \subseteq 1..n, B = (1..n) \ A
    PROVE  /\ IsFiniteSet(A) /\ IsFiniteSet(B) /\ Cardinality(A) \in Nat /\ Cardinality(B) \in Nat
           /\ Cardinality(A) + Cardinality(B) = n
<1>1. IsFiniteSet(1..n) /\ Cardinality(1..n) = n
  <2>1. 1 \in Int /\ n \in Int
    OBVIOUS
  <2>2. IsFiniteSet(1..n) /\ Cardinality(1..n) = IF 1 > n THEN 0 ELSE n - 1 + 1
    BY <2>1, FS_Interval
  <2> QED  BY <2>2
<1>2. IsFiniteSet(A) /\ IsFiniteSet(B)
  <2>1. B \subseteq 1..n
    OBVIOUS
  <2> QED  BY <1>1, <2>1, FS_Subset
<1>3. Cardinality(A) \in Nat /\ Cardinality(B) \in Nat
  BY <1>2, FS_CardinalityType
<1>4. Cardinality(B) = n - Cardinality(A)
  <2>1. (1..n) \cap A = A
    OBVIOUS
  <2>2. Cardinality((1..n) \ A) = Cardinality(1..n) - Cardinality((1..n) \cap A)
    BY <1>1, FS_Difference, Zenon
  <2> QED  BY <1>1, <2>1, <2>2
<1> QED  BY <1>2, <1>3, <1>4

LEMMA Counts ==
    ASSUME NEW n \in Nat, NEW w, \A i \in 1..n : w[i] \in Nat, NEW x \in Nat
    PROVE  /\ Cardinality(LowerIn(w, n, x)) \in Nat /\ Cardinality(HigherIn(w, n, x)) \in Nat
           /\ Cardinality(AtLeastIn(w, n, x)) = n - Cardinality(LowerIn(w, n, x))
           /\ Cardinality(AtMostIn(w, n, x)) = n - Cardinality(HigherIn(w, n, x))
           /\ Cardinality(AtLeastIn(w, n, x)) \in Nat
<1>1. LowerIn(w, n, x) \subseteq 1..n /\ AtLeastIn(w, n, x) = (1..n) \ LowerIn(w, n, x)
  BY DEF LowerIn, AtLeastIn
<1>2. HigherIn(w, n, x) \subseteq 1..n /\ AtMostIn(w, n, x) = (1..n) \ HigherIn(w, n, x)
  BY DEF HigherIn, AtMostIn
<1> DEFINE a == Cardinality(LowerIn(w, n, x))
           b == Cardinality(AtLeastIn(w, n, x))
           c == Cardinality(HigherIn(w, n, x))
           d == Cardinality(AtMostIn(w, n, x))
<1>3. a \in Nat /\ b \in Nat /\ a + b = n
  BY <1>1, Complement
<1>4. c \in Nat /\ d \in Nat /\ c + d = n
  BY <1>2, Complement
<1> HIDE DEF a, b, c, d
<1>5. b = n - a /\ d = n - c
  BY <1>3, <1>4
<1> QED  BY <1>3, <1>4, <1>5 DEF a, b, c, d

LEMMA Fewer ==
    ASSUME NEW n \in Nat, NEW A, NEW B, A \subseteq B, B \subseteq 1..n
    PROVE  Cardinality(A) <= Cardinality(B)
<1>1. IsFiniteSet(1..n)
  <2>1. 1 \in Int /\ n \in Int
    OBVIOUS
  <2> QED  BY <2>1, FS_Interval
<1>2. IsFiniteSet(B)
  BY <1>1, FS_Subset
<1> QED  BY <1>2, FS_Subset

\* s is the score of rank k of the first n of w.
Parts(w, n, k, s) ==
    Cardinality(LowerIn(w, n, s)) <= k /\ k < n - Cardinality(HigherIn(w, n, s))

\* There is a score of every rank.
LEMMA RankExists ==
    ASSUME NEW n \in Nat, NEW w, \A i \in 1..n : w[i] \in Nat, NEW k \in 0..(n - 1)
    PROVE  \E s \in {w[i] : i \in 1..n} : Parts(w, n, k, s)
<1> DEFINE V == {w[i] : i \in 1..n}
           Enough == {s \in V : k < n - Cardinality(HigherIn(w, n, s))}
<1>0. V \in SUBSET Nat /\ Enough \in SUBSET Nat
  OBVIOUS
<1>1. Enough # {}
  <2> SUFFICES ASSUME Enough = {} PROVE FALSE
    OBVIOUS
  \* otherwise every score has another above it, and none is the largest
  <2> DEFINE T == {j \in Nat : j <= n /\ \E x \in Nat : Cardinality(HigherIn(w, n, x)) = j
                                             /\ x \in V}
  <2>1. PICK i \in 1..n : TRUE
    OBVIOUS
  <2>2. w[i] \in V
    BY <2>1
  <2>3. T \in SUBSET Nat /\ T # {}
    <3>1. w[i] \in Nat /\ Cardinality(HigherIn(w, n, w[i])) \in Nat
          /\ Cardinality(HigherIn(w, n, w[i])) <= n
      <4>1. w[i] \in Nat
        BY <2>1
      <4>2. HigherIn(w, n, w[i]) \subseteq 1..n
        BY DEF HigherIn
      <4>3. PICK c \in Nat, d \in Nat : c = Cardinality(HigherIn(w, n, w[i])) /\ c + d = n
        <5> DEFINE A == HigherIn(w, n, w[i])
        <5> HIDE DEF A
        <5>1. Cardinality(A) \in Nat /\ Cardinality((1..n) \ A) \in Nat
              /\ Cardinality(A) + Cardinality((1..n) \ A) = n
          BY <4>2, Complement DEF A
        <5> QED  BY <5>1 DEF A
      <4> QED  BY <4>1, <4>3
    <3>2. Cardinality(HigherIn(w, n, w[i])) \in T
      BY <2>2, <3>1
    <3> QED  BY <3>2
  <2>4. PICK j \in T : \A l \in T : j <= l
    BY <2>3, Least
  <2>5. PICK x \in V : Cardinality(HigherIn(w, n, x)) = j
    BY <2>4
  <2>6. j > 0
    <3>1. ~(k < n - j)
      BY <2>5
    <3> QED  BY <2>4, <3>1
  <2>7. HigherIn(w, n, x) # {}
    BY <2>5, <2>6, FS_EmptySet
  <2>8. PICK h \in 1..n : w[h] > x
    BY <2>7 DEF HigherIn
  <2>9. w[h] \in V /\ w[h] \in Nat /\ x \in Nat
    BY <1>0, <2>5, <2>8
  <2>10. HigherIn(w, n, w[h]) \subseteq HigherIn(w, n, x) \ {h} /\ h \in HigherIn(w, n, x)
    BY <2>8, <2>9 DEF HigherIn
  <2>11. Cardinality(HigherIn(w, n, w[h])) < j
    <3>1. HigherIn(w, n, x) \subseteq 1..n /\ HigherIn(w, n, x) \ {h} \subseteq 1..n
      BY DEF HigherIn
    <3>2. IsFiniteSet(HigherIn(w, n, x))
      BY <3>1, Complement
    <3>3. Cardinality(HigherIn(w, n, x) \ {h}) = j - 1
      BY <2>5, <2>10, <3>2, FS_RemoveElement
    <3>4. Cardinality(HigherIn(w, n, w[h])) <= j - 1
      <4>1. Cardinality(HigherIn(w, n, w[h])) <= Cardinality(HigherIn(w, n, x) \ {h})
        BY <2>10, <3>1, Fewer
      <4> QED  BY <3>3, <4>1
    <3>5. Cardinality(HigherIn(w, n, w[h])) \in Nat
      BY <2>9, Counts
    <3> QED  BY <2>4, <3>4, <3>5
  <2>12. Cardinality(HigherIn(w, n, w[h])) \in Nat
    BY <2>9, Counts
  <2>13. Cardinality(HigherIn(w, n, w[h])) \in T
    BY <2>4, <2>9, <2>11, <2>12
  <2> QED  BY <2>4, <2>11, <2>12, <2>13
<1>2. PICK s \in Enough : \A t \in Enough : s <= t
  BY <1>0, <1>1, Least
<1>3. SUFFICES ASSUME Cardinality(LowerIn(w, n, s)) > k PROVE FALSE
  <2>1. s \in V /\ s \in Nat /\ k < n - Cardinality(HigherIn(w, n, s))
    BY <1>0, <1>2
  <2>2. Cardinality(LowerIn(w, n, s)) \in Nat
    BY <2>1, Counts
  <2> QED  BY <1>3, <2>1, <2>2 DEF Parts
<1>4. s \in Nat
  BY <1>0, <1>2
<1> DEFINE L == {w[i] : i \in LowerIn(w, n, s)}
<1>5. L \in SUBSET Nat /\ L \subseteq V /\ \A t \in L : t < s
  BY <1>4 DEF LowerIn
<1>6. L # {}
  <2>1. LowerIn(w, n, s) # {}
    <3>1. Cardinality({}) = 0
      BY FS_EmptySet
    <3>2. ~(0 > k)
      OBVIOUS
    <3> QED  BY <1>3, <3>1, <3>2
  <2> QED  BY <2>1
<1>7. PICK t \in L : \A y \in L : y <= t
  <2> HIDE DEF L
  <2>1. \A y \in L : y <= s
    BY <1>4, <1>5
  <2>2. L \in SUBSET Nat
    BY <1>5
  <2>3. \E t \in L : \A y \in L : y <= t
    BY <1>4, <1>6, <2>1, <2>2, Largest
  <2> QED  BY <2>3
<1>8. t \in Nat /\ t \in V /\ t < s
  BY <1>5, <1>7
<1>9. LowerIn(w, n, s) = AtMostIn(w, n, t)
  <2>1. \A i \in 1..n : w[i] < s => w[i] <= t
    <3> SUFFICES ASSUME NEW i \in 1..n, w[i] < s PROVE w[i] <= t
      OBVIOUS
    <3>1. w[i] \in L
      BY DEF LowerIn
    <3> QED  BY <1>7, <3>1
  <2>2. \A i \in 1..n : w[i] <= t => w[i] < s
    BY <1>4, <1>8
  <2> QED  BY <2>1, <2>2 DEF LowerIn, AtMostIn
<1>10. k < n - Cardinality(HigherIn(w, n, t))
  <2>1. Cardinality(AtMostIn(w, n, t)) = n - Cardinality(HigherIn(w, n, t))
    BY <1>8, Counts
  <2> QED  BY <1>3, <1>9, <2>1
<1>11. t \in Enough
  BY <1>8, <1>10
<1> QED  BY <1>2, <1>4, <1>8, <1>11

\* A score is above that of rank k exactly if at most n - k - 1 are as large.
LEMMA AboveRank ==
    ASSUME NEW n \in Nat, NEW w, \A i \in 1..n : w[i] \in Nat, NEW k \in 0..(n - 1),
           NEW s \in Nat, Parts(w, n, k, s), NEW x \in Nat
    PROVE  x > s <=> Cardinality(AtLeastIn(w, n, x)) <= n - k - 1
<1> DEFINE a == Cardinality(AtLeastIn(w, n, x))
           b == Cardinality(LowerIn(w, n, x))
           lo == Cardinality(LowerIn(w, n, s))
           hi == Cardinality(HigherIn(w, n, s))
<1>1. a \in Nat /\ b \in Nat /\ lo \in Nat /\ hi \in Nat /\ a = n - b
  BY Counts
<1>2. lo <= k /\ k < n - hi
  BY DEF Parts
<1>3. x > s => a <= hi
  <2> SUFFICES ASSUME x > s PROVE a <= hi
    OBVIOUS
  <2>1. AtLeastIn(w, n, x) \subseteq HigherIn(w, n, s) /\ HigherIn(w, n, s) \subseteq 1..n
    BY DEF AtLeastIn, HigherIn
  <2> QED  BY <2>1, Fewer
<1>4. x <= s => b <= lo
  <2> SUFFICES ASSUME x <= s PROVE b <= lo
    OBVIOUS
  <2>1. LowerIn(w, n, x) \subseteq LowerIn(w, n, s) /\ LowerIn(w, n, s) \subseteq 1..n
    BY DEF LowerIn
  <2> QED  BY <2>1, Fewer
<1> HIDE DEF a, b, lo, hi
<1>5. x > s <=> a <= n - k - 1
  BY <1>1, <1>2, <1>3, <1>4
<1> QED  BY <1>5 DEF a

-----------------------------------------------------------------------------
\* The rank is within the window, and what it leaves above is alpha of it.
LEMMA RankFacts ==
    ASSUME NEW n \in Nat, n > 0, NEW r,
           r = ((AlphaUnder - AlphaOver) * n + AlphaUnder - 1) \div AlphaUnder - 1
    PROVE  /\ r \in 0..(n - 1)
           /\ \A a \in Nat : a <= n - r - 1 <=> a * AlphaUnder <= AlphaOver * n
<1>1. PICK u \in Nat, o \in Nat : u = AlphaUnder /\ o = AlphaOver /\ u > 0 /\ o < u
  BY AlphaAssumption
<1>2. PICK q \in Nat : q = (u - o) * n /\ q > 0
  <2>1. u - o \in Nat /\ u - o > 0
    BY <1>1
  <2>2. \A y \in Nat : y > 0 => y * n \in Nat /\ y * n > 0
    OBVIOUS
  <2> QED  BY <2>1, <2>2
<1>3. q + u - 1 \in Nat
  BY <1>1, <1>2
<1>4. PICK c \in Nat, m \in 0..(u - 1) : c = (q + u - 1) \div u /\ q + u - 1 = u * c + m
  <2> DEFINE x == q + u - 1
  <2> HIDE DEF x
  <2>1. x \in Nat /\ u \in Nat \ {0}
    BY <1>1, <1>3 DEF x
  <2>2. /\ x \div u \in Nat
        /\ x % u \in 0..(u - 1)
        /\ x = u * (x \div u) + (x % u)
    BY <2>1, DivMod, Zenon
  <2> QED  BY <2>2, Zenon DEF x
<1>5. r = c - 1
  BY <1>1, <1>2, <1>4
<1>6. PICK un \in Nat, on \in Nat : un = u * n /\ on = o * n /\ q = un - on
  <2>1. (u - o) * n = u * n - o * n
    OBVIOUS
  <2>2. u * n \in Nat /\ o * n \in Nat
    OBVIOUS
  <2> QED  BY <1>2, <2>1, <2>2
<1>7. PICK uc \in Nat : uc = u * c
  OBVIOUS
<1>8. q <= uc /\ uc < q + u
  BY <1>1, <1>2, <1>4, <1>7
<1>9. c >= 1
  <2> SUFFICES ASSUME c = 0 PROVE FALSE
    BY <1>4
  <2>1. uc = 0
    BY <1>7
  <2> QED  BY <1>2, <1>8, <2>1
<1>10. c <= n
  <2> SUFFICES ASSUME c > n PROVE FALSE
    BY <1>4
  <2>1. u * n + u <= u * c
    <3>1. u \in Nat \ {0} /\ n \in Int /\ c \in Int /\ n < c
      BY <1>1
    <3> QED  BY <3>1, MultiplesApart
  <2> QED  BY <1>6, <1>7, <1>8, <2>1
<1>11. ASSUME NEW a \in Nat PROVE a <= n - c <=> a * u <= on
  <2>1. PICK ua \in Nat : ua = u * a /\ ua = a * u
    OBVIOUS
  <2>2. CASE a <= n - c
    <3>1. u * (a + c) <= u * n
      <4>1. a + c = n \/ a + c < n
        BY <2>2
      <4>2. CASE a + c = n
        BY <4>2
      <4>3. CASE a + c < n
        <5>1. u \in Nat \ {0} /\ n \in Int /\ a + c \in Int
          BY <1>1
        <5>2. u * (a + c) + u <= u * n
          BY <4>3, <5>1, MultiplesApart
        <5>3. u * (a + c) \in Int /\ u * n \in Int
          OBVIOUS
        <5> QED  BY <5>2, <5>3
      <4> QED  BY <4>1, <4>2, <4>3
    <3>2. u * (a + c) = ua + uc
      BY <1>7, <2>1
    <3>3. ua + uc <= un
      BY <1>6, <3>1, <3>2
    <3>4. ua <= on
      BY <1>6, <1>8, <3>3
    <3> QED  BY <2>1, <2>2, <3>4
  <2>3. CASE a > n - c
    <3>1. u * n + u <= u * (a + c)
      <4>1. u \in Nat \ {0} /\ n \in Int /\ a + c \in Int /\ n < a + c
        BY <1>1, <2>3
      <4> QED  BY <4>1, MultiplesApart
    <3>2. u * (a + c) = ua + uc
      BY <1>7, <2>1
    <3>3. un + u <= ua + uc
      BY <1>6, <3>1, <3>2
    <3>4. ~(ua <= on)
      BY <1>6, <1>8, <3>3
    <3> QED  BY <2>1, <2>3, <3>4
  <2> QED  BY <2>2, <2>3
<1>12. r \in 0..(n - 1) /\ n - r - 1 = n - c
  BY <1>4, <1>5, <1>9, <1>10
<1>13. \A a \in Nat : a <= n - r - 1 <=> a * u <= on
  BY <1>11, <1>12
<1> QED  BY <1>1, <1>6, <1>12, <1>13

\* A position of the ring, after at most one turn.
LEMMA Turn ==
    ASSUME NEW m \in Nat \ {0}, NEW x \in 0..(2 * m - 1)
    PROVE  x % m = IF x < m THEN x ELSE x - m
<1>1. CASE x < m
  <2>1. x \in Nat /\ x \in 0..(m - 1) /\ 0 \in Int /\ x = m * 0 + x
    BY <1>1
  <2>2. x % m = x
    BY <2>1, RemainderUnique
  <2> QED  BY <1>1, <2>2
<1>2. CASE x >= m
  <2>1. x \in Nat /\ x - m \in 0..(m - 1) /\ 1 \in Int /\ x = m * 1 + (x - m)
    BY <1>2
  <2>2. x % m = x - m
    BY <2>1, RemainderUnique
  <2> QED  BY <1>2, <2>1, <2>2
<1> QED  BY <1>1, <1>2

\* The ring holds the last of the scores.
ConformalIInv ==
    /\ ConformalTypeOK
    /\ capacity_ \in Nat /\ history \in Seq(Scores)
    /\ count = IF Len(history) < capacity_ THEN Len(history) ELSE capacity_
    /\ count < capacity_ => head = 0
    /\ \A i \in 1..count : buf[(head + i - 1) % capacity_] = history[Len(history) - count + i]

LEMMA ConformalStep ==
    ASSUME ConformalIInv, NEW sc \in Scores, Observe(sc)
    PROVE  ConformalIInv'
<1> DEFINE n == Len(history)
           c == capacity_
<1>0. /\ c \in Nat /\ n \in Nat /\ history \in Seq(Scores) /\ count \in 0..c /\ head \in Nat
      /\ head \in Slots \cup {0} /\ buf \in [Slots -> Scores \cup {0}]
      /\ count = IF n < c THEN n ELSE c
      /\ count < c => head = 0
  BY DEF ConformalIInv, ConformalTypeOK, Slots
<1>1. \A i \in 1..count : buf[(head + i - 1) % c] = history[n - count + i]
  BY DEF ConformalIInv
<1>2. /\ capacity_' = c /\ history' = Append(history, sc) /\ alarm' \in BOOLEAN
  BY DEF Observe
<1>3. /\ history' \in Seq(Scores) /\ Len(history') = n + 1 /\ history'[n + 1] = sc
      /\ \A i \in 1..n : history'[i] = history[i]
  BY <1>0, <1>2
<1>4. Slots' = Slots
  BY <1>2 DEF Slots
<1>5. CASE c = 0 /\ buf' = buf /\ head' = head /\ count' = count
  <2>1. count = 0
    BY <1>0, <1>5
  <2>2. ConformalTypeOK'
    BY <1>0, <1>2, <1>4, <1>5 DEF ConformalTypeOK
  <2>3. count' = IF Len(history') < c THEN Len(history') ELSE c
    BY <1>0, <1>3, <1>5, <2>1
  <2>4. 1..count' = {} /\ ~(count' < c)
    BY <1>5, <2>1
  <2> QED  BY <1>0, <1>2, <1>3, <2>2, <2>3, <2>4 DEF ConformalIInv
<1>6. CASE count < c /\ buf' = [buf EXCEPT ![(head + count) % c] = sc]
           /\ count' = count + 1 /\ head' = head
  <2>1. head = 0 /\ count = n /\ n < c /\ c \in Nat \ {0}
    BY <1>0, <1>6
  <2>2. \A x \in 0..(c - 1) : x % c = x
    <3> SUFFICES ASSUME NEW x \in 0..(c - 1) PROVE x % c = x
      OBVIOUS
    <3>1. x \in 0..(2 * c - 1) /\ x < c
      BY <2>1
    <3> QED  BY <2>1, <3>1, Turn
  <2>3. (head + count) % c = n /\ n \in Slots
    <3>1. head + count = n /\ n \in 0..(c - 1)
      BY <1>0, <2>1
    <3> QED  BY <2>2, <3>1 DEF Slots
  <2>4. buf' = [buf EXCEPT ![n] = sc]
    BY <1>6, <2>3
  <2>5. ConformalTypeOK'
    <3>1. buf' \in [Slots -> Scores \cup {0}]
      BY <1>0, <2>4
    <3>2. count' \in 0..c
      BY <1>0, <1>6
    <3> QED  BY <1>0, <1>2, <1>4, <1>6, <3>1, <3>2 DEF ConformalTypeOK
  <2>6. count' = IF Len(history') < c THEN Len(history') ELSE c
    BY <1>0, <1>3, <1>6, <2>1
  <2>7. ASSUME NEW i \in 1..count'
        PROVE  buf'[(head' + i - 1) % c] = history'[Len(history') - count' + i]
    <3>1. i \in 1..(n + 1) /\ head' + i - 1 = i - 1 /\ Len(history') - count' + i = i
          /\ i - 1 \in 0..(c - 1)
      BY <1>0, <1>3, <1>6, <2>1, <2>7
    <3>2. (head' + i - 1) % c = i - 1
      BY <2>2, <3>1
    <3>3. CASE i = n + 1
      <4>1. buf'[n] = sc
        BY <1>0, <2>3, <2>4
      <4>2. i - 1 = n
        BY <1>0, <3>3
      <4> QED  BY <1>3, <3>1, <3>2, <3>3, <4>1, <4>2
    <3>4. CASE i \in 1..n
      <4>1. i - 1 \in Slots /\ i - 1 # n
        BY <1>0, <2>1, <3>4 DEF Slots
      <4>2. buf'[i - 1] = buf[i - 1]
        BY <1>0, <2>4, <4>1
      <4>3. buf[i - 1] = history[i]
        <5>1. i \in 1..count /\ head + i - 1 = i - 1 /\ n - count + i = i
          BY <1>0, <2>1, <3>4
        <5> QED  BY <1>1, <2>2, <3>1, <5>1
      <4> QED  BY <1>3, <3>1, <3>2, <3>4, <4>2, <4>3
    <3> QED  BY <1>0, <3>1, <3>3, <3>4
  <2>8. count' < c => head' = 0
    BY <1>6, <2>1
  <2> QED  BY <1>0, <1>2, <1>3, <2>5, <2>6, <2>7, <2>8 DEF ConformalIInv
<1>7. CASE c > 0 /\ count = c /\ buf' = [buf EXCEPT ![head] = sc]
           /\ head' = (head + 1) % c /\ count' = count
  <2>1. head \in 0..(c - 1) /\ head \in Slots /\ c \in Nat \ {0} /\ n >= c
    BY <1>0, <1>7 DEF Slots
  <2>2. head' = IF head + 1 < c THEN head + 1 ELSE 0
    <3>1. head + 1 \in 0..(2 * c - 1)
      BY <2>1
    <3>2. (head + 1) % c = IF head + 1 < c THEN head + 1 ELSE head + 1 - c
      <4>1. PICK x \in 0..(2 * c - 1) : x = head + 1
        BY <3>1
      <4>2. x % c = IF x < c THEN x ELSE x - c
        BY <2>1, <4>1, Turn
      <4> QED  BY <2>1, <3>1, <4>1, <4>2
    <3> QED  BY <1>7, <2>1, <3>2
  <2>3. ConformalTypeOK'
    <3>1. buf' \in [Slots -> Scores \cup {0}]
      BY <1>0, <1>7, <2>1
    <3>2. head' \in Slots
      BY <2>1, <2>2 DEF Slots
    <3> QED  BY <1>0, <1>2, <1>4, <1>7, <3>1, <3>2 DEF ConformalTypeOK
  <2>4. count' = IF Len(history') < c THEN Len(history') ELSE c
    BY <1>0, <1>3, <1>7, <2>1
  <2>5. ASSUME NEW i \in 1..count'
        PROVE  buf'[(head' + i - 1) % c] = history'[Len(history') - count' + i]
    <3>0. i \in 1..c /\ Len(history') - count' + i = n + 1 - c + i
      BY <1>0, <1>3, <1>7, <2>5
    <3>1. head' + i - 1 \in 0..(2 * c - 1) /\ head + (i + 1) - 1 \in 0..(2 * c - 1)
          /\ head + i \in 0..(2 * c - 1)
      BY <2>1, <2>2, <3>0
    <3>2. PICK x \in 0..(2 * c - 1) : x = head' + i - 1
      BY <3>1
    <3>7. x % c = IF x < c THEN x ELSE x - c
      BY <2>1, <3>2, Turn
    <3>8. (head' + i - 1) % c = x % c
      BY <3>2, Zenon
    <3>3. (head + i) % c = IF head + i < c THEN head + i ELSE head + i - c
      <4>1. PICK y \in 0..(2 * c - 1) : y = head + i
        BY <3>1
      <4>2. y % c = IF y < c THEN y ELSE y - c
        BY <2>1, <4>1, Turn
      <4> QED  BY <2>1, <3>1, <4>1, <4>2
    <3>4. (head' + i - 1) % c = IF head + i < c THEN head + i ELSE head + i - c
      BY <2>1, <2>2, <3>0, <3>2, <3>7, <3>8
    <3>5. CASE i = c
      <4>1. (head' + i - 1) % c = head
        BY <2>1, <3>4, <3>5
      <4>2. n + 1 - c + i = n + 1
        BY <1>0, <3>5
      <4>3. buf'[head] = sc
        BY <1>0, <1>7, <2>1
      <4> QED  BY <1>3, <3>0, <4>1, <4>2, <4>3
    <3>6. CASE i < c
      <4>0. i \in Nat /\ i >= 1 /\ n \in Nat /\ c \in Nat /\ head \in Nat /\ count = c
        BY <1>0, <1>7, <3>0
      <4> HIDE DEF n, c
      <4>1. i + 1 \in 1..count /\ head + (i + 1) - 1 = head + i /\ n - count + (i + 1) = n + 1 - c + i
            /\ n + 1 - c + i \in 1..n
        BY <2>1, <3>6, <4>0
      <4>2. buf[(head + i) % c] = history[n + 1 - c + i]
        BY <1>1, <4>1
      <4>3. (head + i) % c \in Slots /\ (head + i) % c # head
        BY <2>1, <3>3, <3>6, <4>0 DEF Slots, c
      <4>4. buf'[(head + i) % c] = buf[(head + i) % c]
        BY <1>0, <1>7, <4>3
      <4> QED  BY <1>3, <3>0, <3>3, <3>4, <4>1, <4>2, <4>4
    <3> QED  BY <1>0, <3>0, <3>5, <3>6
  <2>6. ~(count' < c)
    BY <1>0, <1>7
  <2> QED  BY <1>0, <1>2, <1>3, <2>3, <2>4, <2>5, <2>6 DEF ConformalIInv
<1> QED  BY <1>0, <1>5, <1>6, <1>7 DEF Observe, Update

LEMMA ConformalInductive == ConformalSpec => []ConformalIInv
<1>1. ConformalInit => ConformalIInv
  <2> SUFFICES ASSUME ConformalInit PROVE ConformalIInv
    OBVIOUS
  <2>1. /\ capacity_ \in Nat /\ head = 0 /\ count = 0 /\ history = << >> /\ alarm = FALSE
        /\ buf = [i \in Slots |-> 0] /\ Len(history) = 0 /\ history \in Seq(Scores)
    BY WindowAssumption DEF ConformalInit
  <2>2. ConformalTypeOK
    <3>1. buf \in [Slots -> Scores \cup {0}]
      BY <2>1
    <3>2. head \in Slots \cup {0} /\ count \in 0..capacity_
      BY <2>1
    <3> QED  BY <2>1, <3>1, <3>2, Zenon DEF ConformalTypeOK
  <2> QED  BY <2>1, <2>2 DEF ConformalIInv
<1>2. ASSUME ConformalIInv, [ConformalNext]_conformalVars PROVE ConformalIInv'
  <2>1. ASSUME NEW sc \in Scores, Observe(sc) PROVE ConformalIInv'
    BY <1>2, <2>1, ConformalStep
  <2>2. ASSUME UNCHANGED conformalVars PROVE ConformalIInv'
    BY <1>2, <2>2 DEF ConformalIInv, ConformalTypeOK, Slots, conformalVars
  <2> QED  BY <1>2, <2>1, <2>2 DEF ConformalNext
<1> QED  BY <1>1, <1>2, PTL DEF ConformalSpec

\* The window is the recent scores.
LEMMA WindowIsRecent ==
    ASSUME ConformalIInv
    PROVE  /\ count \in Nat /\ Len(Recent) = count /\ Recent \in Seq(Scores)
           /\ \A i \in 1..count : Window[i] \in Nat /\ Recent[i] = Window[i]
<1> DEFINE n == Len(history)
           c == capacity_
           from == IF n < c THEN 1 ELSE n - c + 1
<1>0. /\ c \in Nat /\ n \in Nat /\ history \in Seq(Scores) /\ count \in Nat /\ count <= n
      /\ count = IF n < c THEN n ELSE c
  BY DEF ConformalIInv, ConformalTypeOK
<1>1. \A i \in 1..count : buf[(head + i - 1) % c] = history[n - count + i]
  BY DEF ConformalIInv
<1>2. from \in Nat /\ from >= 1 /\ from = n - count + 1
  BY <1>0
<1>3. Recent = SubSeq(history, from, n)
  BY DEF Recent
<1> HIDE DEF from
<1>4. /\ SubSeq(history, from, n) \in Seq(Scores)
      /\ Len(SubSeq(history, from, n)) = count
      /\ \A i \in 1..count : SubSeq(history, from, n)[i] = history[n - count + i]
  <2>1. /\ SubSeq(history, from, n) \in Seq(Scores)
        /\ Len(SubSeq(history, from, n)) = IF from <= n THEN n - from + 1 ELSE 0
        /\ \A i \in 1..(n - from + 1) : SubSeq(history, from, n)[i] = history[from + i - 1]
    <3>1. \A i \in from..n : i \in 1..n
      BY <1>0, <1>2
    <3>2. from \in Int /\ n \in Int /\ \A i \in from..n : history[i] \in Scores
      BY <1>0, <1>2, <3>1
    <3> HIDE DEF n
    <3> QED  BY <3>2, SubSeqProperties
  <2>2. n - from + 1 = count /\ (from <= n <=> count > 0)
    BY <1>0, <1>2
  <2>3. \A i \in 1..count : from + i - 1 = n - count + i
    BY <1>0, <1>2
  <2>4. Len(SubSeq(history, from, n)) = count
    BY <1>0, <1>2, <2>1, <2>2
  <2>5. \A i \in 1..count : SubSeq(history, from, n)[i] = history[n - count + i]
    BY <2>1, <2>2, <2>3, Zenon
  <2> QED  BY <2>1, <2>4, <2>5
<1>5. \A i \in 1..count : Window[i] = history[n - count + i]
  BY <1>1 DEF Window
<1>6. \A i \in 1..count : history[n - count + i] \in Nat
  <2> SUFFICES ASSUME NEW i \in 1..count PROVE history[n - count + i] \in Nat
    OBVIOUS
  <2>1. PICK j \in 1..n : j = n - count + i
    <3>1. n \in Nat /\ count \in Nat /\ count <= n /\ i \in Nat /\ 1 <= i /\ i <= count
      BY <1>0
    <3> HIDE DEF n
    <3>2. n - count + i \in 1..n
      BY <3>1
    <3> QED  BY <3>2, Zenon
  <2>2. history[j] \in Scores
    <3>1. history \in Seq(Scores)
      BY <1>0
    <3> QED  BY <2>1, <3>1
  <2>3. history[j] \in Nat
    <3>1. Scores \subseteq Nat
      BY WindowAssumption
    <3> QED  BY <2>2, <3>1, Zenon
  <2> QED  BY <2>1, <2>3, Zenon
<1> QED  BY <1>0, <1>3, <1>4, <1>5, <1>6

\* The comparison with the threshold.
LEMMA ThresholdIs ==
    ASSUME ConformalIInv, NEW x \in Scores
    PROVE  x > Threshold <=>
             /\ count > 0
             /\ Cardinality(AtLeastIn(Window, count, x)) * AlphaUnder <= AlphaOver * count
<1>0. count \in Nat /\ x \in Nat /\ x <= Infinity /\ Infinity \in Nat
  BY WindowIsRecent, WindowAssumption
<1>1. CASE count = 0
  BY <1>0, <1>1 DEF Threshold
<1>2. CASE count > 0
  <2> DEFINE n == count
             w == Window
             r == Rank
  <2>1. \A i \in 1..n : w[i] \in Nat
    BY WindowIsRecent
  <2>2. r = ((AlphaUnder - AlphaOver) * n + AlphaUnder - 1) \div AlphaUnder - 1
    BY DEF Rank
  <2>3. \A s : Below(s) = Cardinality(LowerIn(w, n, s)) /\ Above(s) = Cardinality(HigherIn(w, n, s))
    BY DEF Below, Above, LowerIn, HigherIn
  <2>4. \A k : Sorted(k) = CHOOSE s \in {w[i] : i \in 1..n} : Parts(w, n, k, s)
    BY <2>3 DEF Sorted, Parts
  <2> HIDE DEF w, r, n
  <2>n. n \in Nat /\ n > 0 /\ count = n
    BY <1>0, <1>2 DEF n
  <2>5. /\ r \in 0..(n - 1)
        /\ \A a \in Nat : a <= n - r - 1 <=> a * AlphaUnder <= AlphaOver * n
    BY <2>2, <2>n, RankFacts
  <2>6. Threshold = Sorted(r)
    <3>1. Threshold = Sorted(IF r < 0 THEN 0 ELSE IF r > n - 1 THEN n - 1 ELSE r)
      BY <1>2 DEF Threshold, r, n
    <3>2. ~(r < 0) /\ ~(r > n - 1)
      BY <2>5, <2>n
    <3> QED  BY <3>1, <3>2
  <2>7. Sorted(r) \in {w[i] : i \in 1..n} /\ Parts(w, n, r, Sorted(r))
    <3>1. \E s \in {w[i] : i \in 1..n} : Parts(w, n, r, s)
      BY <2>1, <2>5, <2>n, RankExists
    <3>2. Sorted(r) = CHOOSE s \in {w[i] : i \in 1..n} : Parts(w, n, r, s)
      BY <2>4, Zenon
    <3> QED  BY <3>1, <3>2, Zenon
  <2>8. PICK s \in Nat : s = Sorted(r) /\ Parts(w, n, r, s)
    BY <2>1, <2>7
  <2>9. x > s <=> Cardinality(AtLeastIn(w, n, x)) <= n - r - 1
    BY <1>0, <2>1, <2>5, <2>8, <2>n, AboveRank
  <2>10. Cardinality(AtLeastIn(w, n, x)) \in Nat
    BY <1>0, <2>1, <2>n, Counts
  <2>11. x > Threshold <=> Cardinality(AtLeastIn(w, n, x)) * AlphaUnder <= AlphaOver * n
    BY <2>5, <2>6, <2>8, <2>9, <2>10, Zenon
  <2> QED  BY <1>2, <2>11, <2>n DEF w
<1> QED  BY <1>0, <1>1, <1>2

\* ConformalThreshold::is_anomalous and update, for every capacity, alpha and
\* sequence of scores: a score is compared with the scores before it only, the last
\* capacity of them, and is an alarm exactly if too few of those are as large.
THEOREM AlarmOutOfSample == ConformalSpec => AlarmIsOutOfSample
<1> DEFINE sc == history'[Len(history')]
           AsLarge == {i \in 1..Len(Recent) : Recent[i] >= sc}
           Test == /\ ConformalTypeOK'
                   /\ alarm' <=> /\ Recent # << >>
                                 /\ Cardinality(AsLarge) * AlphaUnder <= AlphaOver * Len(Recent)
<1>1. ConformalIInv /\ [ConformalNext]_conformalVars => [Test]_conformalVars
  <2> SUFFICES ASSUME ConformalIInv, NEW x \in Scores, Observe(x) PROVE Test
    BY DEF ConformalNext
  <2>1. ConformalTypeOK'
    BY ConformalStep DEF ConformalIInv
  <2>2. sc = x
    BY DEF Observe, ConformalIInv
  <2>3. alarm' <=> x > Threshold
    BY DEF Observe
  <2> HIDE DEF sc
  <2>4. /\ count \in Nat /\ Len(Recent) = count /\ Recent \in Seq(Scores)
        /\ \A i \in 1..count : Window[i] \in Nat /\ Recent[i] = Window[i]
    BY WindowIsRecent
  <2>5. AsLarge = AtLeastIn(Window, count, x)
    BY <2>2, <2>4 DEF AtLeastIn
  <2>6. Recent # << >> <=> count > 0
    BY <2>4
  <2>7. x > Threshold <=>
             /\ count > 0
             /\ Cardinality(AtLeastIn(Window, count, x)) * AlphaUnder <= AlphaOver * count
    BY ThresholdIs
  <2> QED  BY <2>1, <2>3, <2>4, <2>5, <2>6, <2>7, Zenon
<1>2. ConformalSpec => [][Test]_conformalVars
  BY <1>1, ConformalInductive, PTL DEF ConformalSpec
<1> QED  BY <1>2, PTL DEF AlarmIsOutOfSample
=============================================================================
