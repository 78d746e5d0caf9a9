--------------------------- MODULE DeliveryProofs ---------------------------
(***************************************************************************)
(* The delivery sidecar's books and its dedupe window, for every number of *)
(* subscribers, attempts and alerts and every capacity of the dedupe set.  *)
(*                                                                         *)
(* Neither property is inductive by itself.  The counters and dead-letter  *)
(* lines need to know where in its walk over the subscribers a delivery    *)
(* stands (WalkInv); the window needs the dedupe set to hold exactly the   *)
(* keys accepted last (DedupeInv).                                         *)
(***************************************************************************)
EXTENDS Delivery, FiniteSetTheorems, TLAPS

\* The walk of delivery d: subscribers behind it are settled, those ahead are
\* untouched, and the one being served has been tried as often as the loop
\* counter, or the dead-letter line to be written, says.
Walk(d) ==
    /\ pc[d] = "free" => sub[d] = 1
    /\ pc[d] = "done" <=> sub[d] = Subscribers + 1
    /\ \A s \in Subs : s < sub[d] => outcome[d][s] # "none"
    /\ \A s \in Subs : s > sub[d] => outcome[d][s] = "none" /\ tries[d][s] = 0
    /\ pc[d] = "record" => /\ outcome[d][sub[d]] = "dead"
                           /\ tries[d][sub[d]] = note[d]
    /\ pc[d] \notin {"record", "done"} => outcome[d][sub[d]] = "none"
    /\ pc[d] \in {"free", "attempt", "backoff"} => tries[d][sub[d]] = attempt[d]
    /\ pc[d] \in Results => tries[d][sub[d]] = attempt[d] + 1

WalkInv == \A d \in Deliveries : Walk(d)

\* The deliveries started are those of the alerts accepted.
StartedInv ==
    /\ Len(accepted) <= MaxAccepted
    /\ \A d \in Deliveries : pc[d] = "free" <=> d > Len(accepted)

\* The dedupe set holds the keys accepted last, oldest first.
DedupeInv ==
    /\ Len(order) = IF Len(accepted) < DedupeMax THEN Len(accepted) ELSE DedupeMax
    /\ \A i \in 1..Len(order) : order[i] = accepted[Len(accepted) - Len(order) + i]
    /\ ids = {order[i] : i \in 1..Len(order)}
    /\ \A i, j \in 1..Len(accepted) :
          i < j /\ accepted[i] = accepted[j] => j - i > DedupeMax

TalliesInv ==
    /\ delivered = Cardinality(Settled("delivered"))
    /\ deadLettered = Cardinality(Settled("dead"))

IInv == TypeOK /\ WalkInv /\ StartedInv /\ DedupeInv /\ TalliesInv /\ RecordsTruthful

-----------------------------------------------------------------------------
(* Dedupe.                                                                 *)

\* Append, Tail and Head at the positions the dedupe set uses.
LEMMA AppendFacts ==
    ASSUME NEW S, NEW q \in Seq(S), NEW e \in S
    PROVE  /\ Append(q, e) \in Seq(S)
           /\ Len(Append(q, e)) = Len(q) + 1
           /\ Append(q, e)[Len(q) + 1] = e
           /\ \A i \in 1..Len(q) : Append(q, e)[i] = q[i]
OBVIOUS

LEMMA TailFacts ==
    ASSUME NEW S, NEW q \in Seq(S), Len(q) > 0
    PROVE  /\ Tail(q) \in Seq(S)
           /\ Len(Tail(q)) = Len(q) - 1
           /\ \A i \in 1..(Len(q) - 1) : Tail(q)[i] = q[i + 1]
           /\ Head(q) = q[1]
OBVIOUS

\* No key is held twice.
LEMMA OrderInjective ==
    ASSUME order \in Seq(Keys), accepted \in Seq(Keys), DedupeInv
    PROVE  \A i, j \in 1..Len(order) : order[i] = order[j] => i = j
<1> DEFINE n == Len(accepted)
           m == Len(order)
<1>0. n \in Nat /\ m \in Nat /\ DedupeMax \in Nat \ {0}
  BY DeliveryAssumption
<1>a. m = IF n < DedupeMax THEN n ELSE DedupeMax
  BY DEF DedupeInv
<1>b. \A i \in 1..m : order[i] = accepted[n - m + i]
  BY DEF DedupeInv
<1>c. \A i, j \in 1..n : i < j /\ accepted[i] = accepted[j] => j - i > DedupeMax
  BY DEF DedupeInv
<1> HIDE DEF n, m
<1>1. ASSUME NEW i \in 1..m, NEW j \in 1..m, i < j
      PROVE  order[i] # order[j]
  <2> SUFFICES ASSUME order[i] = order[j] PROVE FALSE
    OBVIOUS
  <2> DEFINE x == n - m + i
             y == n - m + j
  <2>1. x \in 1..n /\ y \in 1..n /\ x < y /\ y - x = j - i
    BY <1>0, <1>a, <1>1
  <2>2. accepted[x] = accepted[y]
    BY <1>b
  <2>3. y - x > DedupeMax
    <3> HIDE DEF x, y
    <3> QED  BY <1>c, <2>1, <2>2
  <2> HIDE DEF x, y
  <2> QED
    BY <1>0, <1>a, <2>1, <2>3
<1>2. \A i, j \in 1..m : i < j \/ j < i \/ i = j
  BY <1>0
<1>3. \A i, j \in 1..m : order[i] = order[j] => i = j
  BY <1>1, <1>2, Zenon
<1> QED
  BY <1>3 DEF m

\* So the map and the eviction order agree, and the window is respected.
LEMMA WindowHolds == TypeOK /\ DedupeInv => DedupeWindow
<1> SUFFICES ASSUME TypeOK, DedupeInv PROVE DedupeWindow
  OBVIOUS
<1> DEFINE m == Len(order)
<1>1. /\ order \in Seq(Keys) /\ accepted \in Seq(Keys) /\ m \in Nat
      /\ DedupeMax \in Nat \ {0} /\ Len(accepted) \in Nat
  BY DeliveryAssumption DEF TypeOK
<1>2. DOMAIN order = 1..m /\ DOMAIN accepted = 1..Len(accepted)
  BY <1>1
<1>3. order \in Bijection(1..m, ids)
  <2>1. order \in [1..m -> ids]
    BY <1>1, <1>2 DEF DedupeInv
  <2>2. \A x \in ids : \E i \in 1..m : order[i] = x
    BY DEF DedupeInv
  <2>3. \A i, j \in 1..m : order[i] = order[j] => i = j
    BY <1>1, OrderInjective
  <2> HIDE DEF m
  <2> QED
    BY <2>1, <2>2, <2>3, Zenon DEF Bijection, Injection, Surjection, IsInjective
<1>4. IsFiniteSet(1..m) /\ Cardinality(1..m) = m
  <2>1. m \in Nat /\ 1 \in Int /\ m \in Int
    BY <1>1
  <2> HIDE DEF m
  <2>2. IsFiniteSet(1..m) /\ Cardinality(1..m) = IF 1 > m THEN 0 ELSE m - 1 + 1
    BY <2>1, FS_Interval, Zenon
  <2> QED  BY <2>1, <2>2
<1>5. Cardinality(ids) = m
  <2> HIDE DEF m
  <2>1. ExistsBijection(1..m, ids)
    BY <1>3, Zenon DEF ExistsBijection
  <2> QED  BY <1>4, <2>1, FS_Bijection, Zenon
<1>6. Len(order) <= DedupeMax
  BY <1>1 DEF DedupeInv
<1> QED
  BY <1>2, <1>5, <1>6 DEF DedupeInv, DedupeWindow

\* Dedupe.Check of a key it does not hold: the oldest key makes room if it has
\* to, and the set is again the keys accepted last.
LEMMA RememberKeepsDedupe ==
    ASSUME ids \subseteq Keys, order \in Seq(Keys), accepted \in Seq(Keys), DedupeInv,
           NEW k \in Keys, k \notin ids, Remember(k), accepted' = Append(accepted, k)
    PROVE  /\ DedupeInv'
           /\ ids' \subseteq Keys /\ order' \in Seq(Keys) /\ accepted' \in Seq(Keys)
           /\ Len(accepted') = Len(accepted) + 1
<1> DEFINE n == Len(accepted)
           m == Len(order)
<1>0. n \in Nat /\ m \in Nat /\ DedupeMax \in Nat \ {0}
  BY DeliveryAssumption
<1>a. m = IF n < DedupeMax THEN n ELSE DedupeMax
  BY DEF DedupeInv
<1>b. \A i \in 1..m : order[i] = accepted[n - m + i]
  BY DEF DedupeInv
<1>1. /\ n \in Nat /\ m \in Nat /\ m <= n /\ m <= DedupeMax
      /\ DedupeMax \in Nat \ {0}
      /\ m < DedupeMax => m = n
      /\ \A i \in 1..m : order[i] = accepted[n - m + i]
  <2> HIDE DEF n, m
  <2> QED  BY <1>0, <1>a, <1>b
<1>2. /\ accepted' \in Seq(Keys) /\ Len(accepted') = n + 1
      /\ accepted'[n + 1] = k
      /\ \A i \in 1..n : accepted'[i] = accepted[i]
  BY AppendFacts
<1>3. ASSUME NEW i \in 1..(n + 1), NEW j \in 1..(n + 1), i < j,
             accepted'[i] = accepted'[j]
      PROVE  j - i > DedupeMax
  <2>1. CASE j = n + 1
    <3>1. i \in 1..n /\ accepted[i] = k
      BY <1>1, <1>2, <1>3, <2>1
    <3>2. ASSUME i > n - m PROVE FALSE
      <4>1. i - (n - m) \in 1..m /\ n - m + (i - (n - m)) = i
        BY <1>1, <3>1, <3>2
      <4>2. order[i - (n - m)] = k
        BY <1>1, <3>1, <4>1
      <4> QED
        BY <4>1, <4>2 DEF DedupeInv
    <3> QED
      BY <1>1, <2>1, <3>1, <3>2
  <2>2. CASE j # n + 1
    <3>0. i \in 1..n /\ j \in 1..n
      <4> HIDE DEF n
      <4> QED  BY <1>0, <1>3, <2>2
    <3>1. i \in 1..n /\ j \in 1..n /\ accepted[i] = accepted[j]
      BY <1>2, <1>3, <3>0, Zenon
    <3> QED
      BY <1>3, <3>1 DEF DedupeInv
  <2> QED
    BY <2>1, <2>2
<1>4. CASE m >= DedupeMax
  <2> DEFINE t == Tail(order)
  <2>1. /\ t \in Seq(Keys) /\ Len(t) = m - 1
        /\ \A i \in 1..(m - 1) : t[i] = order[i + 1]
        /\ Head(order) = order[1]
    BY <1>1, <1>4, TailFacts
  <2>2. /\ ids' = (ids \ {order[1]}) \cup {k} /\ order' = Append(t, k)
    BY <1>4, <2>1 DEF Remember
  <2> HIDE DEF t
  <2>3. /\ order' \in Seq(Keys) /\ Len(order') = m
        /\ order'[m] = k
        /\ \A i \in 1..(m - 1) : order'[i] = order[i + 1]
    <3>1. /\ Append(t, k) \in Seq(Keys)
          /\ Len(Append(t, k)) = Len(t) + 1
          /\ Append(t, k)[Len(t) + 1] = k
          /\ \A i \in 1..Len(t) : Append(t, k)[i] = t[i]
      BY <2>1, AppendFacts
    <3> QED
      BY <1>1, <2>1, <2>2, <3>1
  <2>4. ASSUME NEW i \in 1..m
        PROVE  order'[i] = accepted'[(n + 1) - m + i]
    <3>1. CASE i = m
      BY <1>1, <1>2, <2>3, <3>1
    <3>2. CASE i # m
      <4>1. i + 1 \in 1..m /\ n - m + (i + 1) \in 1..n /\ i \in 1..(m - 1)
        BY <1>1, <3>2
      <4>2. order'[i] = accepted[n - m + (i + 1)]
        BY <1>1, <2>3, <4>1
      <4>3. n - m + (i + 1) = (n + 1) - m + i
        BY <1>1
      <4> QED
        BY <1>2, <4>1, <4>2, <4>3
    <3> QED
      BY <3>1, <3>2
  <2>5. \A i, j \in 1..m : order[i] = order[j] => i = j
    BY OrderInjective
  <2>6. ids' = {order'[i] : i \in 1..m}
    <3>1. ASSUME NEW x \in ids' PROVE \E i \in 1..m : x = order'[i]
      <4>1. CASE x = k
        BY <1>1, <1>4, <2>3, <4>1
      <4>2. CASE x # k
        <5>1. PICK i \in 1..m : x = order[i] /\ i # 1
          BY <2>2, <4>2 DEF DedupeInv
        <5>2. i - 1 \in 1..(m - 1) /\ (i - 1) + 1 = i
          BY <1>1, <5>1
        <5>3. order'[i - 1] = x
          BY <2>3, <5>1, <5>2
        <5> QED
          BY <1>1, <5>2, <5>3
      <4> QED
        BY <4>1, <4>2
    <3>2. ASSUME NEW i \in 1..m PROVE order'[i] \in ids'
      <4>1. CASE i = m
        BY <2>2, <2>3, <4>1
      <4>2. CASE i # m
        <5>1. i \in 1..(m - 1) /\ i + 1 \in 1..m /\ 1 \in 1..m /\ i + 1 # 1
          BY <1>1, <4>2
        <5>2. order[i + 1] \in ids /\ order[i + 1] # order[1]
          BY <2>5, <5>1 DEF DedupeInv
        <5> QED
          BY <2>2, <2>3, <5>1, <5>2
      <4> QED
        BY <4>1, <4>2
    <3> QED
      BY <3>1, <3>2
  <2>7. Len(order') = IF n + 1 < DedupeMax THEN n + 1 ELSE DedupeMax
    BY <1>1, <1>4, <2>3
  <2>8. ids' \subseteq Keys
    BY <2>2
  <2> QED
    BY <1>2, <1>3, <2>3, <2>4, <2>6, <2>7, <2>8 DEF DedupeInv
<1>5. CASE m < DedupeMax
  <2>1. m = n /\ ids' = ids \cup {k} /\ order' = Append(order, k)
    BY <1>1, <1>5 DEF Remember
  <2>2. /\ order' \in Seq(Keys) /\ Len(order') = m + 1
        /\ order'[m + 1] = k
        /\ \A i \in 1..m : order'[i] = order[i]
    BY <2>1, AppendFacts
  <2>3. \A i \in 1..(m + 1) : order'[i] = accepted'[(n + 1) - (m + 1) + i]
    BY <1>1, <1>2, <2>1, <2>2
  <2>4. ids' = {order'[i] : i \in 1..(m + 1)}
    BY <1>1, <2>1, <2>2 DEF DedupeInv
  <2>5. Len(order') = IF n + 1 < DedupeMax THEN n + 1 ELSE DedupeMax
    BY <1>1, <1>5, <2>1, <2>2
  <2>6. ids' \subseteq Keys
    BY <2>1
  <2> QED
    BY <1>2, <1>3, <2>2, <2>3, <2>4, <2>5, <2>6 DEF DedupeInv
<1> QED
  BY <1>1, <1>4, <1>5

-----------------------------------------------------------------------------
(* Counters.                                                               *)

Pairs == Deliveries \X Subs

LEMMA PairsFinite == IsFiniteSet(Pairs)
<1>1. IsFiniteSet(Deliveries) /\ IsFiniteSet(Subs)
  BY FS_Interval, DeliveryAssumption DEF Deliveries, Subs
<1> QED
  BY <1>1, FS_Product DEF Pairs

\* Settling a subscriber not settled before adds one to the tally of how, and
\* leaves the others alone.
LEMMA SettleTallies ==
    ASSUME TypeOK, NEW d \in Deliveries, sub[d] \in Subs,
           outcome[d][sub[d]] = "none", NEW how, how # "none", Settle(d, how)
    PROVE  /\ Cardinality(Settled(how)') = Cardinality(Settled(how)) + 1
           /\ Cardinality(Settled(how)') \in Nat
           /\ \A h : h \notin {how, "none"} => Settled(h)' = Settled(h)
<1> DEFINE p == <<d, sub[d]>>
<1>1. p \in Pairs /\ p[1] = d /\ p[2] = sub[d]
  BY DEF Pairs
<1>2. ASSUME NEW q \in Pairs
      PROVE  outcome'[q[1]][q[2]] = IF q = p THEN how ELSE outcome[q[1]][q[2]]
  <2>1. PICK e \in Deliveries, s \in Subs : q = <<e, s>>
    BY DEF Pairs
  <2>2. outcome'[e][s] = IF e = d /\ s = sub[d] THEN how ELSE outcome[e][s]
    BY DEF Settle, TypeOK
  <2> QED
    BY <2>1, <2>2
<1>3. p \notin Settled(how)
  BY <1>1 DEF Settled
<1>4. Settled(how)' = Settled(how) \cup {p}
  BY <1>1, <1>2 DEF Settled, Pairs
<1>5. ASSUME NEW h, h \notin {how, "none"}
      PROVE  Settled(h)' = Settled(h)
  BY <1>1, <1>2, <1>5 DEF Settled, Pairs
<1>6. IsFiniteSet(Settled(how))
  <2>1. Settled(how) \in SUBSET Pairs
    BY DEF Settled, Pairs
  <2> QED
    BY <2>1, PairsFinite, FS_Subset
<1>7. Cardinality(Settled(how)) \in Nat
  BY <1>6, FS_CardinalityType
<1>8. Cardinality(Settled(how) \cup {p}) = Cardinality(Settled(how)) + 1
  BY <1>3, <1>6, FS_AddElement
<1> QED
  BY <1>4, <1>5, <1>7, <1>8

-----------------------------------------------------------------------------
(* The walk of one delivery.                                               *)

\* The lines of one delivery and subscriber are what RecordsTruthful says.
Truthful(d, s) ==
    {l \in records \cup unwritten : l.delivery = d /\ l.sub = s} =
       IF outcome[d][s] = "dead" /\ PastRecord(d, s)
       THEN {[delivery |-> d, sub |-> s, attempts |-> tries[d][s]]}
       ELSE {}

LEMMA TruthfulAll == RecordsTruthful <=> \A d \in Deliveries, s \in Subs : Truthful(d, s)
BY DEF RecordsTruthful, Truthful

\* A delivery that has not ended serves one of the subscribers.
LEMMA ServesOne ==
    ASSUME TypeOK, WalkInv, NEW d \in Deliveries, pc[d] # "done"
    PROVE  sub[d] \in Subs /\ Walk(d)
<1>1. Walk(d) /\ sub[d] \in 1..(Subscribers + 1)
  BY DEF WalkInv, TypeOK
<1>2. sub[d] # Subscribers + 1
  BY <1>1 DEF Walk
<1> QED
  BY <1>1, <1>2, DeliveryAssumption DEF Subs

\* Nothing about delivery e changes but, perhaps, its context.
Rests(e) ==
    /\ pc'[e] = pc[e] /\ sub'[e] = sub[e] /\ attempt'[e] = attempt[e]
    /\ note'[e] = note[e] /\ outcome'[e] = outcome[e] /\ tries'[e] = tries[e]

LEMMA WalkRests ==
    ASSUME NEW e \in Deliveries, Rests(e), Walk(e)
    PROVE  Walk(e)'
BY DEF Rests, Walk

LEMMA TruthfulRests ==
    ASSUME NEW e \in Deliveries, NEW s \in Subs, Rests(e), Truthful(e, s),
           {l \in records \cup unwritten : l.delivery = e /\ l.sub = s}' =
           {l \in records \cup unwritten : l.delivery = e /\ l.sub = s}
    PROVE  Truthful(e, s)'
BY DEF Rests, Truthful, PastRecord

\* What a step of delivery d has to show: only d moves, and nothing of the
\* dedupe set; d walks on; the tallies and the lines of d are right.
LEMMA OneMoves ==
    ASSUME IInv, TypeOK', NEW d \in Deliveries,
           \A e \in Deliveries \ {d} : Rests(e),
           UNCHANGED dedupeVars, pc[d] # "free", pc'[d] # "free",
           Walk(d)', TalliesInv',
           \A s \in Subs : Truthful(d, s)',
           \A e \in Deliveries \ {d}, s \in Subs :
              {l \in records \cup unwritten : l.delivery = e /\ l.sub = s}' =
              {l \in records \cup unwritten : l.delivery = e /\ l.sub = s}
    PROVE  IInv'
<1>1. WalkInv'
  BY WalkRests DEF IInv, WalkInv
<1>2. StartedInv'
  BY DEF IInv, StartedInv, dedupeVars, Rests
<1>3. DedupeInv'
  BY DEF IInv, DedupeInv, dedupeVars
<1>4. RecordsTruthful'
  <2>1. \A e \in Deliveries \ {d}, s \in Subs : Truthful(e, s)'
    BY TruthfulRests, TruthfulAll DEF IInv
  <2>2. (\A e \in Deliveries, s \in Subs : Truthful(e, s))'
    BY <2>1
  <2> QED
    BY <2>2 DEF RecordsTruthful, Truthful
<1> QED
  BY <1>1, <1>2, <1>3, <1>4 DEF IInv

\* A step that leaves the dead-letter lines alone.
LEMMA LinesRest ==
    ASSUME UNCHANGED fileVars
    PROVE  \A e \in Deliveries, s \in Subs :
              {l \in records \cup unwritten : l.delivery = e /\ l.sub = s}' =
              {l \in records \cup unwritten : l.delivery = e /\ l.sub = s}
BY DEF fileVars

\* A step that settles nothing and counts nothing delivered or given up.
LEMMA TalliesRest ==
    ASSUME TalliesInv, UNCHANGED <<delivered, deadLettered, outcome>>
    PROVE  TalliesInv'
BY DEF TalliesInv, Settled

-----------------------------------------------------------------------------
(* One step per action.                                                    *)

LEMMA AttemptReturnsStep ==
    ASSUME IInv, NEW d \in Deliveries, NEW r \in Results, AttemptReturns(d, r)
    PROVE  IInv'
<1> USE DEF AttemptReturns, At, Goto
<1>1. sub[d] \in Subs /\ Walk(d) /\ pc[d] = "attempt" /\ TypeOK
  BY ServesOne DEF IInv
<1>2. tries[d][sub[d]] = attempt[d] /\ outcome[d][sub[d]] = "none"
  BY <1>1 DEF Walk
<1>3. attempt[d] \in 0..(MaxAttempts - 1) /\ attempt[d] + 1 \in 0..MaxAttempts
  BY <1>1, DeliveryAssumption DEF TypeOK
<1>4. TypeOK'
  BY <1>1, <1>2, <1>3
     DEF TypeOK, dedupeVars, loopVars, counterVars, fileVars, Results, Lines
<1>5. /\ pc'[d] = r /\ tries'[d][sub[d]] = attempt[d] + 1
      /\ \A s \in Subs \ {sub[d]} : tries'[d][s] = tries[d][s]
      /\ \A e \in Deliveries \ {d} : Rests(e)
      /\ UNCHANGED <<sub, attempt, note, outcome, delivered, deadLettered>>
      /\ UNCHANGED fileVars /\ UNCHANGED dedupeVars
  BY <1>1, <1>2 DEF TypeOK, Rests, loopVars, counterVars
<1>6. Walk(d)'
  BY <1>1, <1>2, <1>5 DEF Walk, Results, TypeOK, Subs
<1>7. \A s \in Subs : Truthful(d, s)'
  <2> SUFFICES ASSUME NEW s \in Subs PROVE Truthful(d, s)'
    OBVIOUS
  <2>1. Truthful(d, s)
    BY TruthfulAll DEF IInv
  <2>2. PastRecord(d, s) /\ PastRecord(d, s)'
    BY <1>1, <1>5 DEF PastRecord, Results
  <2> QED
    BY <1>1, <1>2, <1>5, <2>1, <2>2, LinesRest DEF Truthful
<1> QED
  BY <1>1, <1>4, <1>5, <1>6, <1>7, OneMoves, LinesRest, TalliesRest DEF Results, IInv

\* deliverOne returns: a subscriber that is settled is left behind, and the
\* next one, if any, is still untouched.
LEMMA NextSubscriberWalks ==
    ASSUME TypeOK, NEW d \in Deliveries, sub[d] \in Subs, Walk(d), NextSubscriber(d),
           tries' = tries,
           \A s \in Subs \ {sub[d]} : outcome'[d][s] = outcome[d][s],
           outcome'[d][sub[d]] # "none"
    PROVE  /\ sub' \in [Deliveries -> 1..(Subscribers + 1)]
           /\ attempt' \in [Deliveries -> 0..(MaxAttempts - 1)]
           /\ note' = note
           /\ pc' \in [Deliveries ->
                  Results \cup {"free", "attempt", "backoff", "record", "done"}]
           /\ sub'[d] = sub[d] + 1
           /\ pc'[d] \in {"attempt", "done"}
           /\ \A e \in Deliveries \ {d} :
                 pc'[e] = pc[e] /\ sub'[e] = sub[e] /\ attempt'[e] = attempt[e]
           /\ Walk(d)'
<1> USE DeliveryAssumption
<1>1. sub[d] \in Nat /\ sub[d] \in 1..Subscribers /\ Subscribers \in Nat
  BY DEF Subs
<1>2. /\ sub'[d] = sub[d] + 1 /\ attempt'[d] = 0
      /\ pc'[d] = (IF sub[d] < Subscribers THEN "attempt" ELSE "done")
  BY DEF NextSubscriber, Goto, TypeOK
<1>3. /\ sub' \in [Deliveries -> 1..(Subscribers + 1)]
      /\ attempt' \in [Deliveries -> 0..(MaxAttempts - 1)]
      /\ note' = note
      /\ pc' \in [Deliveries ->
             Results \cup {"free", "attempt", "backoff", "record", "done"}]
      /\ \A e \in Deliveries \ {d} :
            pc'[e] = pc[e] /\ sub'[e] = sub[e] /\ attempt'[e] = attempt[e]
  BY <1>1 DEF NextSubscriber, Goto, TypeOK
<1>4. \A s \in Subs : s < sub[d] + 1 => outcome'[d][s] # "none"
  BY <1>1 DEF Walk, Subs
<1>5. \A s \in Subs : s > sub[d] => outcome'[d][s] = "none" /\ tries'[d][s] = 0
  BY <1>1 DEF Walk, Subs
<1>6. pc'[d] = "attempt" => sub[d] + 1 \in Subs
  BY <1>1, <1>2 DEF Subs
<1>7. pc'[d] = "done" <=> sub'[d] = Subscribers + 1
  BY <1>1, <1>2
<1>8. \A s \in Subs : s > sub[d] + 1 => s > sub[d]
  BY <1>1 DEF Subs
<1>9. pc'[d] = "attempt" => outcome'[d][sub[d] + 1] = "none" /\ tries'[d][sub[d] + 1] = 0
  <2>1. sub[d] + 1 > sub[d]
    BY <1>1
  <2> QED
    BY <1>5, <1>6, <2>1
<1>10. Walk(d)'
  BY <1>2, <1>4, <1>5, <1>7, <1>8, <1>9 DEF Walk, Results
<1> QED
  BY <1>2, <1>3, <1>10

LEMMA DeliveredStep ==
    ASSUME IInv, NEW d \in Deliveries, Delivered(d)
    PROVE  IInv'
<1>1. sub[d] \in Subs /\ Walk(d) /\ pc[d] = "ok" /\ TypeOK
  BY ServesOne DEF IInv, Delivered, At
<1>2. outcome[d][sub[d]] = "none"
  BY <1>1 DEF Walk
<1>3. /\ outcome' \in [Deliveries -> [Subs -> {"none", "delivered", "dead"}]]
      /\ outcome'[d][sub[d]] = "delivered"
      /\ \A s \in Subs \ {sub[d]} : outcome'[d][s] = outcome[d][s]
      /\ \A e \in Deliveries \ {d} : outcome'[e] = outcome[e]
  BY <1>1 DEF Delivered, Settle, TypeOK
<1>4. /\ NextSubscriber(d) /\ Settle(d, "delivered") /\ tries' = tries
      /\ delivered' = delivered + 1 /\ deadLettered' = deadLettered
      /\ UNCHANGED <<process, expired, retried>>
      /\ UNCHANGED dedupeVars /\ UNCHANGED fileVars
  BY DEF Delivered
<1>5. /\ sub' \in [Deliveries -> 1..(Subscribers + 1)]
      /\ attempt' \in [Deliveries -> 0..(MaxAttempts - 1)]
      /\ note' = note
      /\ pc' \in [Deliveries ->
             Results \cup {"free", "attempt", "backoff", "record", "done"}]
      /\ sub'[d] = sub[d] + 1
      /\ pc'[d] \in {"attempt", "done"}
      /\ \A e \in Deliveries \ {d} :
            pc'[e] = pc[e] /\ sub'[e] = sub[e] /\ attempt'[e] = attempt[e]
      /\ Walk(d)'
  BY <1>1, <1>3, <1>4, NextSubscriberWalks
<1>6. TypeOK'
  BY <1>1, <1>3, <1>4, <1>5 DEF TypeOK, dedupeVars, fileVars
<1>7. TalliesInv'
  BY <1>1, <1>2, <1>4, SettleTallies DEF IInv, TalliesInv
<1>8. \A s \in Subs : Truthful(d, s)'
  <2> SUFFICES ASSUME NEW s \in Subs PROVE Truthful(d, s)'
    OBVIOUS
  <2>1. Truthful(d, s)
    BY TruthfulAll DEF IInv
  <2>2. PastRecord(d, s) /\ PastRecord(d, s)'
    BY <1>1, <1>5 DEF PastRecord
  <2> QED
    BY <1>1, <1>2, <1>3, <1>4, <2>1, <2>2, LinesRest DEF Truthful
<1>9. \A e \in Deliveries \ {d} : Rests(e)
  BY <1>3, <1>4, <1>5 DEF Rests
<1> QED
  BY <1>1, <1>4, <1>5, <1>6, <1>7, <1>8, <1>9, OneMoves, LinesRest DEF IInv

\* Whatever makes deliverOne give up, the number it passes is the number of
\* attempts made.
LEMMA DeadLetterStep ==
    ASSUME IInv, NEW d \in Deliveries,
           pc[d] \in Results \cup {"backoff"},
           NEW n, n = tries[d][sub[d]], DeadLetter(d, n)
    PROVE  IInv'
<1>1. sub[d] \in Subs /\ Walk(d) /\ TypeOK
  BY ServesOne DEF IInv, Results
<1>2. outcome[d][sub[d]] = "none" /\ n \in 0..MaxAttempts
  BY <1>1 DEF Walk, Results, TypeOK
<1>3. /\ outcome' \in [Deliveries -> [Subs -> {"none", "delivered", "dead"}]]
      /\ outcome'[d][sub[d]] = "dead"
      /\ \A s \in Subs \ {sub[d]} : outcome'[d][s] = outcome[d][s]
      /\ \A e \in Deliveries \ {d} : outcome'[e] = outcome[e]
  BY <1>1 DEF DeadLetter, Settle, TypeOK
<1>4. /\ Settle(d, "dead") /\ tries' = tries /\ sub' = sub /\ attempt' = attempt
      /\ deadLettered' = deadLettered + 1 /\ delivered' = delivered
      /\ UNCHANGED <<process, expired, retried>>
      /\ UNCHANGED dedupeVars /\ UNCHANGED fileVars
  BY DEF DeadLetter
<1>5. /\ pc' \in [Deliveries ->
             Results \cup {"free", "attempt", "backoff", "record", "done"}]
      /\ note' \in [Deliveries -> 0..MaxAttempts]
      /\ pc'[d] = "record" /\ note'[d] = n
      /\ \A e \in Deliveries \ {d} : pc'[e] = pc[e] /\ note'[e] = note[e]
  BY <1>1, <1>2 DEF DeadLetter, Goto, TypeOK
<1>6. TypeOK'
  BY <1>1, <1>3, <1>4, <1>5 DEF TypeOK, dedupeVars, fileVars
<1>7. TalliesInv'
  BY <1>1, <1>2, <1>4, SettleTallies DEF IInv, TalliesInv
<1>8. Walk(d)'
  <2>1. sub'[d] = sub[d] /\ sub[d] # Subscribers + 1 /\ sub[d] \in Nat
    BY <1>1, <1>4, DeliveryAssumption DEF Subs
  <2>2. \A s \in Subs : s < sub[d] => outcome'[d][s] # "none"
    BY <1>1, <1>3, <2>1 DEF Walk, Subs
  <2>3. \A s \in Subs : s > sub[d] => outcome'[d][s] = "none" /\ tries'[d][s] = 0
    BY <1>1, <1>3, <1>4, <2>1 DEF Walk, Subs
  <2>4. outcome'[d][sub[d]] = "dead" /\ tries'[d][sub[d]] = note'[d]
    BY <1>3, <1>4, <1>5
  <2> QED
    BY <1>5, <2>1, <2>2, <2>3, <2>4 DEF Walk, Results
<1>9. \A s \in Subs : Truthful(d, s)'
  <2> SUFFICES ASSUME NEW s \in Subs PROVE Truthful(d, s)'
    OBVIOUS
  <2>1. Truthful(d, s)
    BY TruthfulAll DEF IInv
  <2>2. PastRecord(d, s) /\ (s # sub[d] => PastRecord(d, s)')
        /\ (s = sub[d] => ~PastRecord(d, s)')
    BY <1>1, <1>4, <1>5 DEF PastRecord, Results
  <2> QED
    BY <1>1, <1>2, <1>3, <1>4, <2>1, <2>2, LinesRest DEF Truthful
<1>10. \A e \in Deliveries \ {d} : Rests(e)
  BY <1>3, <1>4, <1>5 DEF Rests
<1> QED
  <2>1. pc[d] # "free" /\ pc'[d] # "free"
    BY <1>5 DEF Results
  <2> QED
    BY <1>4, <1>6, <1>7, <1>8, <1>9, <1>10, <2>1, OneMoves, LinesRest

\* The loop goes round, or the backoff ends.
LEMMA LoopStep ==
    ASSUME IInv, NEW d \in Deliveries, Retry(d) \/ BackoffElapsed(d)
    PROVE  IInv'
<1>1. sub[d] \in Subs /\ Walk(d) /\ TypeOK /\ pc[d] \in {"retryable", "error", "backoff"}
  BY ServesOne DEF IInv, Retry, MayRetry, BackoffElapsed, At
<1>2. /\ UNCHANGED <<process, sub, note, outcome, tries, expired, delivered, deadLettered>>
      /\ UNCHANGED fileVars /\ UNCHANGED dedupeVars
  BY DEF Retry, BackoffElapsed, loopVars, ghostVars, counterVars
<1>3. outcome[d][sub[d]] = "none"
  BY <1>1 DEF Walk
<1>4. /\ attempt' \in [Deliveries -> 0..(MaxAttempts - 1)] /\ retried' \in Nat
      /\ pc' \in [Deliveries ->
             Results \cup {"free", "attempt", "backoff", "record", "done"}]
      /\ \A e \in Deliveries \ {d} : pc'[e] = pc[e] /\ attempt'[e] = attempt[e]
      /\ pc'[d] \in {"attempt", "backoff"} /\ tries[d][sub[d]] = attempt'[d]
  <2>1. CASE Retry(d)
    <3>1. pc[d] \in Results /\ attempt[d] + 1 < MaxAttempts
      BY <2>1 DEF Retry, MayRetry, At, Results
    <3>2. attempt[d] + 1 \in 0..(MaxAttempts - 1)
      BY <1>1, <3>1, DeliveryAssumption DEF TypeOK
    <3>3. tries[d][sub[d]] = attempt[d] + 1
      BY <1>1, <3>1 DEF Walk
    <3> QED
      BY <1>1, <2>1, <3>2, <3>3 DEF Retry, Goto, TypeOK
  <2>2. CASE BackoffElapsed(d)
    <3>1. pc[d] = "backoff" /\ tries[d][sub[d]] = attempt[d]
      BY <1>1, <2>2 DEF BackoffElapsed, At, Walk
    <3> QED
      BY <1>1, <2>2, <3>1 DEF BackoffElapsed, Goto, TypeOK, loopVars, counterVars
  <2> QED
    BY <2>1, <2>2
<1>5. TypeOK'
  BY <1>1, <1>2, <1>4 DEF TypeOK, dedupeVars, fileVars
<1>6. Walk(d)'
  <2>1. sub[d] # Subscribers + 1
    BY <1>1, DeliveryAssumption DEF Subs
  <2> QED
    BY <1>1, <1>2, <1>3, <1>4, <2>1 DEF Walk, Results
<1>7. \A s \in Subs : Truthful(d, s)'
  <2> SUFFICES ASSUME NEW s \in Subs PROVE Truthful(d, s)'
    OBVIOUS
  <2>1. Truthful(d, s)
    BY TruthfulAll DEF IInv
  <2>2. PastRecord(d, s) /\ PastRecord(d, s)'
    BY <1>1, <1>4 DEF PastRecord
  <2> QED
    BY <1>2, <2>1, <2>2, LinesRest DEF Truthful
<1>8. \A e \in Deliveries \ {d} : Rests(e)
  BY <1>2, <1>4 DEF Rests
<1>9. TalliesInv'
  BY <1>2, TalliesRest DEF IInv
<1> QED
  BY <1>1, <1>2, <1>4, <1>5, <1>6, <1>7, <1>8, <1>9, OneMoves, LinesRest

\* The line is written, or lost with its write: either way it is the only one
\* of this delivery and subscriber, and says what was done.
LEMMA RecordStep ==
    ASSUME IInv, NEW d \in Deliveries, Record(d) \/ RecordFails(d)
    PROVE  IInv'
<1>1. sub[d] \in Subs /\ Walk(d) /\ TypeOK /\ pc[d] = "record"
  BY ServesOne DEF IInv, Record, RecordFails, At
<1>2. /\ NextSubscriber(d) /\ tries' = tries /\ outcome' = outcome
      /\ UNCHANGED <<process, expired, delivered, retried, deadLettered>>
      /\ UNCHANGED dedupeVars
  BY DEF Record, RecordFails, ghostVars, counterVars
<1>3. outcome[d][sub[d]] = "dead" /\ tries[d][sub[d]] = note[d]
  BY <1>1 DEF Walk
<1>4. /\ sub' \in [Deliveries -> 1..(Subscribers + 1)]
      /\ attempt' \in [Deliveries -> 0..(MaxAttempts - 1)]
      /\ note' = note
      /\ pc' \in [Deliveries ->
             Results \cup {"free", "attempt", "backoff", "record", "done"}]
      /\ sub'[d] = sub[d] + 1
      /\ pc'[d] \in {"attempt", "done"}
      /\ \A e \in Deliveries \ {d} :
            pc'[e] = pc[e] /\ sub'[e] = sub[e] /\ attempt'[e] = attempt[e]
      /\ Walk(d)'
  BY <1>1, <1>2, <1>3, NextSubscriberWalks
<1>5. Line(d) \in Lines /\ Line(d) = [delivery |-> d, sub |-> sub[d], attempts |-> note[d]]
  BY <1>1 DEF Line, Lines, TypeOK
<1>6. /\ records' \cup unwritten' = (records \cup unwritten) \cup {Line(d)}
      /\ records' \subseteq Lines /\ unwritten' \subseteq Lines
  BY <1>1, <1>5 DEF Record, RecordFails, TypeOK
<1>7. TypeOK'
  BY <1>1, <1>2, <1>4, <1>6 DEF TypeOK, dedupeVars
<1>8. \A e \in Deliveries, s \in Subs :
         {l \in records \cup unwritten : l.delivery = e /\ l.sub = s}' =
         {l \in records \cup unwritten : l.delivery = e /\ l.sub = s}
            \cup (IF e = d /\ s = sub[d] THEN {Line(d)} ELSE {})
  BY <1>5, <1>6
<1>9. \A s \in Subs : Truthful(d, s)'
  <2> SUFFICES ASSUME NEW s \in Subs PROVE Truthful(d, s)'
    OBVIOUS
  <2>1. Truthful(d, s)
    BY TruthfulAll DEF IInv
  <2>2. PastRecord(d, s)' /\ (PastRecord(d, s) <=> s # sub[d])
    BY <1>1, <1>4 DEF PastRecord
  <2>3. CASE s = sub[d]
    <3>1. {l \in records \cup unwritten : l.delivery = d /\ l.sub = s} = {}
      BY <2>1, <2>2, <2>3 DEF Truthful
    <3>2. {l \in records \cup unwritten : l.delivery = d /\ l.sub = s}' = {Line(d)}
      BY <1>8, <2>3, <3>1
    <3> QED
      BY <1>2, <1>3, <1>5, <2>2, <2>3, <3>2 DEF Truthful
  <2>4. CASE s # sub[d]
    <3>1. {l \in records \cup unwritten : l.delivery = d /\ l.sub = s}' =
          {l \in records \cup unwritten : l.delivery = d /\ l.sub = s}
      BY <1>8, <2>4
    <3> QED
      BY <1>2, <2>1, <2>2, <2>4, <3>1 DEF Truthful
  <2> QED
    BY <2>3, <2>4
<1>10. \A e \in Deliveries \ {d} : Rests(e)
  BY <1>2, <1>4 DEF Rests
<1>11. TalliesInv'
  BY <1>2, TalliesRest DEF IInv
<1>12. \A e \in Deliveries \ {d}, s \in Subs :
          {l \in records \cup unwritten : l.delivery = e /\ l.sub = s}' =
          {l \in records \cup unwritten : l.delivery = e /\ l.sub = s}
  BY <1>8
<1> QED
  BY <1>1, <1>2, <1>4, <1>7, <1>9, <1>10, <1>11, <1>12, OneMoves

\* A new alert: its delivery is the first one not started.
LEMMA AcceptStep ==
    ASSUME IInv, NEW k \in Keys, Accept(k)
    PROVE  IInv'
<1> DEFINE n == Len(accepted)
<1>1. TypeOK /\ n \in Nat /\ n < MaxAccepted /\ MaxAccepted \in Nat
  BY DeliveryAssumption DEF IInv, TypeOK, Accept
<1>2. PICK d \in Deliveries : d = n + 1
  BY <1>1 DEF Deliveries
<1>a. pc[d] = "free"
  <2>1. d > n
    BY <1>1, <1>2
  <2> QED
    BY <2>1 DEF IInv, StartedInv
<1>3. /\ DedupeInv' /\ ids' \subseteq Keys /\ order' \in Seq(Keys)
      /\ accepted' \in Seq(Keys) /\ Len(accepted') = n + 1
  BY <1>1, RememberKeepsDedupe DEF IInv, TypeOK, Accept
<1>4. /\ UNCHANGED <<process, duplicate, sub, attempt, note, expired, delivered, retried,
                     deadLettered, outcome, tries>>
      /\ UNCHANGED fileVars
  BY DEF Accept, loopVars, counterVars, ghostVars
<1>5. /\ pc' \in [Deliveries ->
             Results \cup {"free", "attempt", "backoff", "record", "done"}]
      /\ pc'[d] = "attempt" /\ \A e \in Deliveries \ {d} : pc'[e] = pc[e]
  BY <1>1, <1>2 DEF Accept, TypeOK
<1>6. TypeOK'
  BY <1>1, <1>3, <1>4, <1>5 DEF TypeOK, fileVars
<1>7. \A e \in Deliveries \ {d} : Rests(e)
  BY <1>4, <1>5 DEF Rests
<1>8. Walk(d)'
  <2>1. sub[d] \in Subs /\ Walk(d)
    BY <1>1, <1>a, ServesOne DEF IInv
  <2>2. sub[d] # Subscribers + 1
    BY <2>1, DeliveryAssumption DEF Subs
  <2> QED
    BY <1>a, <1>4, <1>5, <2>1, <2>2 DEF Walk, Results
<1>9. WalkInv'
  BY <1>7, <1>8, WalkRests DEF IInv, WalkInv
<1>10. StartedInv'
  <2>1. ASSUME NEW e \in Deliveries
        PROVE  pc'[e] = "free" <=> e > n + 1
    <3>1. e \in Nat /\ (pc[e] = "free" <=> e > n)
      BY <1>1 DEF IInv, StartedInv, Deliveries
    <3>2. CASE e = d
      BY <1>1, <1>2, <1>5, <3>1, <3>2
    <3>3. CASE e # d
      BY <1>1, <1>2, <1>5, <3>1, <3>3
    <3> QED
      BY <3>2, <3>3
  <2> QED
    BY <1>1, <1>3, <2>1 DEF StartedInv
<1>11. TalliesInv'
  BY <1>4, TalliesRest DEF IInv
<1>12. RecordsTruthful'
  <2>1. ASSUME NEW e \in Deliveries, NEW s \in Subs PROVE PastRecord(e, s)' = PastRecord(e, s)
    BY <1>a, <1>4, <1>5 DEF PastRecord
  <2> QED
    BY <1>4, <2>1 DEF IInv, RecordsTruthful, fileVars
<1> QED
  BY <1>3, <1>6, <1>9, <1>10, <1>11, <1>12 DEF IInv

\* Steps that concern neither the dedupe set nor a delivery's walk.
LEMMA QuietStep ==
    ASSUME IInv, UNCHANGED <<ids, order, accepted, pc, loopVars, counterVars, fileVars, ghostVars>>,
           process' \in {"serving", "draining", "exited"},
           expired' \in [Deliveries -> BOOLEAN], duplicate' \in Nat
    PROVE  IInv'
<1> USE DEF loopVars, counterVars, fileVars, ghostVars
<1>1. TypeOK'
  BY DEF IInv, TypeOK
<1>2. WalkInv'
  BY DEF IInv, WalkInv, Walk
<1>3. StartedInv' /\ DedupeInv'
  BY DEF IInv, StartedInv, DedupeInv
<1>4. TalliesInv'
  BY TalliesRest DEF IInv
<1>5. RecordsTruthful'
  BY DEF IInv, RecordsTruthful, PastRecord
<1> QED
  BY <1>1, <1>2, <1>3, <1>4, <1>5 DEF IInv

LEMMA DeliverOneStep ==
    ASSUME IInv, NEW d \in Deliveries, DeliverOne(d)
    PROVE  IInv'
<1>1. CASE \E r \in Results : AttemptReturns(d, r)
  BY <1>1, AttemptReturnsStep
<1>2. CASE Delivered(d)
  BY <1>2, DeliveredStep
<1>3. CASE Retry(d) \/ BackoffElapsed(d)
  BY <1>3, LoopStep
<1>4. CASE Record(d) \/ RecordFails(d)
  BY <1>4, RecordStep
<1>5. TypeOK /\ attempt[d] \in 0..(MaxAttempts - 1) /\ MaxAttempts \in Nat \ {0}
  BY DeliveryAssumption DEF IInv, TypeOK
<1>6. CASE Permanent(d) \/ Cancelled(d)
  <2>1. pc[d] \in Results /\ DeadLetter(d, attempt[d] + 1)
    BY <1>6 DEF Permanent, Cancelled, At, Results
  <2>2. tries[d][sub[d]] = attempt[d] + 1
    BY <2>1 DEF IInv, WalkInv, Walk
  <2> QED
    BY <2>1, <2>2, DeadLetterStep
<1>7. CASE Exhausted(d)
  <2>1. pc[d] \in Results /\ DeadLetter(d, MaxAttempts) /\ attempt[d] + 1 >= MaxAttempts
    BY <1>7 DEF Exhausted, MayRetry, At, Results
  <2>2. tries[d][sub[d]] = attempt[d] + 1
    BY <2>1 DEF IInv, WalkInv, Walk
  <2>3. attempt[d] + 1 = MaxAttempts
    BY <1>5, <2>1
  <2> QED
    BY <2>1, <2>2, <2>3, DeadLetterStep
<1>8. CASE BackoffCut(d)
  <2>1. pc[d] = "backoff" /\ DeadLetter(d, attempt[d])
    BY <1>8 DEF BackoffCut, At
  <2>2. tries[d][sub[d]] = attempt[d]
    BY <2>1 DEF IInv, WalkInv, Walk
  <2> QED
    BY <2>1, <2>2, DeadLetterStep
<1> QED
  BY <1>1, <1>2, <1>3, <1>4, <1>6, <1>7, <1>8 DEF DeliverOne

LEMMA NextInv == IInv /\ [Next]_vars => IInv'
<1> SUFFICES ASSUME IInv, [Next]_vars PROVE IInv'
  OBVIOUS
<1>0. TypeOK
  BY DEF IInv
<1>1. ASSUME NEW k \in Keys, Accept(k) PROVE IInv'
  BY <1>1, AcceptStep
<1>2. ASSUME NEW k \in Keys, AnswerDuplicate(k) PROVE IInv'
  BY <1>0, <1>2, QuietStep DEF AnswerDuplicate, TypeOK
<1>3. ASSUME NEW d \in Deliveries, DeliverOne(d) PROVE IInv'
  BY <1>3, DeliverOneStep
<1>4. ASSUME NEW d \in Deliveries, Expire(d) PROVE IInv'
  BY <1>0, <1>4, QuietStep DEF Expire, TypeOK, dedupeVars
<1>5. CASE Signal \/ Exit
  BY <1>0, <1>5, QuietStep DEF Signal, Exit, TypeOK, dedupeVars
<1>6. CASE UNCHANGED vars
  BY <1>0, <1>6, QuietStep DEF vars, TypeOK, dedupeVars
<1> QED
  BY <1>1, <1>2, <1>3, <1>4, <1>5, <1>6 DEF Next

LEMMA InitInv == Init => IInv
<1> SUFFICES ASSUME Init PROVE IInv
  OBVIOUS
<1> USE DeliveryAssumption
<1>1. 1 \in 1..(Subscribers + 1) /\ 1 \in Subs /\ 0 \in 0..(MaxAttempts - 1) /\ 0 \in 0..MaxAttempts
  BY DEF Subs
<1>2. TypeOK
  BY <1>1 DEF Init, TypeOK
<1>3. \A d \in Deliveries, s \in Subs :
         /\ pc[d] = "free" /\ sub[d] = 1 /\ attempt[d] = 0
         /\ outcome[d][s] = "none" /\ tries[d][s] = 0
  BY DEF Init
<1>4. WalkInv
  <2> SUFFICES ASSUME NEW d \in Deliveries PROVE Walk(d)
    BY DEF WalkInv
  <2>1. \A s \in Subs : ~(s < 1)
    BY DEF Subs
  <2>2. 1 # Subscribers + 1
    OBVIOUS
  <2> QED
    BY <1>1, <1>3, <2>1, <2>2 DEF Walk, Results
<1>5. StartedInv
  BY <1>3 DEF StartedInv, Init, Deliveries
<1>6. DedupeInv
  BY DEF Init, DedupeInv
<1>7. TalliesInv
  <2>1. Settled("delivered") = {} /\ Settled("dead") = {}
    BY <1>3 DEF Settled
  <2> QED
    BY <2>1, FS_EmptySet DEF Init, TalliesInv
<1>8. RecordsTruthful
  BY <1>3 DEF Init, RecordsTruthful
<1> QED
  BY <1>2, <1>4, <1>5, <1>6, <1>7, <1>8 DEF IInv

-----------------------------------------------------------------------------
(* Theorems.                                                               *)

LEMMA Inductive == Spec => []IInv
BY InitInv, NextInv, PTL DEF Spec

LEMMA InvLedger == IInv => LedgerInv
<1> SUFFICES ASSUME IInv PROVE LedgerInv
  OBVIOUS
<1>1. ASSUME NEW d \in Deliveries, NEW s \in Subs, s # sub[d]
      PROVE  outcome[d][s] # "none" <=> s < sub[d]
  <2>1. Walk(d) /\ s \in Nat /\ sub[d] \in Nat
    BY DeliveryAssumption DEF IInv, WalkInv, TypeOK, Subs
  <2>2. s < sub[d] \/ s > sub[d]
    BY <1>1, <2>1
  <2> QED
    BY <2>1, <2>2 DEF Walk
<1>2. \A d \in Deliveries : pc[d] = "done" <=> sub[d] = Subscribers + 1
  BY DEF IInv, WalkInv, Walk
<1> QED
  BY <1>1, <1>2 DEF IInv, LedgerInv, CountersBalance, TalliesInv

\* The books of deliverOne and deadLetter always balance, whatever order the
\* answers, deadlines, backoffs and failed writes of concurrent deliveries take.
THEOREM LedgerSafety == Spec => []LedgerInv
BY Inductive, InvLedger, PTL

\* Dedupe.Check lets a key through again only after DedupeMax others.
THEOREM WindowSafety == Spec => []DedupeWindow
<1>1. IInv => DedupeWindow
  BY WindowHolds DEF IInv
<1> QED
  BY <1>1, Inductive, PTL

\* A step changes the outcome or the count of attempts only of the subscriber
\* being served, and only while that one is not settled.
LEMMA SettledStep ==
    ASSUME IInv, [Next]_vars, NEW d \in Deliveries, NEW s \in Subs, outcome[d][s] # "none"
    PROVE  outcome'[d][s] = outcome[d][s] /\ tries'[d][s] = tries[d][s]
<1>0. TypeOK
  BY DEF IInv
<1>1. CASE UNCHANGED <<outcome, tries>>
  BY <1>1
<1>2. ASSUME NEW e \in Deliveries, pc[e] \in Results \cup {"attempt", "backoff"},
             \/ \E how : Settle(e, how) /\ tries' = tries
             \/ tries' = [tries EXCEPT ![e][sub[e]] = @ + 1] /\ outcome' = outcome
      PROVE  outcome'[d][s] = outcome[d][s] /\ tries'[d][s] = tries[d][s]
  <2>1. sub[e] \in Subs /\ outcome[e][sub[e]] = "none"
    BY <1>0, <1>2, ServesOne DEF IInv, Walk, Results
  <2>2. ~(e = d /\ sub[e] = s)
    BY <2>1
  <2> QED
    BY <1>0, <1>2, <2>1, <2>2 DEF TypeOK, Settle
<1>3. ASSUME NEW k \in Keys, Accept(k) \/ AnswerDuplicate(k) PROVE UNCHANGED <<outcome, tries>>
  BY <1>3 DEF Accept, AnswerDuplicate, ghostVars
<1>4. ASSUME NEW e \in Deliveries, DeliverOne(e)
      PROVE  \/ UNCHANGED <<outcome, tries>>
             \/ /\ pc[e] \in Results \cup {"attempt", "backoff"}
                /\ \/ \E how : Settle(e, how) /\ tries' = tries
                   \/ tries' = [tries EXCEPT ![e][sub[e]] = @ + 1] /\ outcome' = outcome
  <2>1. CASE \E r \in Results : AttemptReturns(e, r)
    BY <2>1 DEF AttemptReturns, At
  <2>2. CASE Delivered(e)
    BY <2>2 DEF Delivered, At, Results
  <2>3. CASE Permanent(e) \/ Cancelled(e) \/ Exhausted(e) \/ BackoffCut(e)
    BY <2>3 DEF Permanent, Cancelled, Exhausted, BackoffCut, DeadLetter, MayRetry, At, Results
  <2>4. CASE Retry(e) \/ BackoffElapsed(e) \/ Record(e) \/ RecordFails(e)
    BY <2>4 DEF Retry, BackoffElapsed, Record, RecordFails, ghostVars
  <2> QED
    BY <1>4, <2>1, <2>2, <2>3, <2>4 DEF DeliverOne
<1>5. CASE (\E e \in Deliveries : Expire(e)) \/ Signal \/ Exit \/ UNCHANGED vars
  BY <1>5 DEF Expire, Signal, Exit, vars, ghostVars
<1> QED
  BY <1>1, <1>2, <1>3, <1>4, <1>5 DEF Next

\* What is delivered is never sent again, and what is given up never retried.
THEOREM SettlementIsFinal == Spec => SettledForGood
<1>1. IInv /\ [Next]_vars =>
         [\A d \in Deliveries, s \in Subs :
             outcome[d][s] # "none" =>
                outcome'[d][s] = outcome[d][s] /\ tries'[d][s] = tries[d][s]]_vars
  BY SettledStep
<1> QED
  BY <1>1, Inductive, PTL DEF Spec, SettledForGood
=============================================================================
