--------------------------- MODULE MpscRingProofs ---------------------------
(***************************************************************************)
(* The MPSC ring buffer is race free and implements a bounded FIFO, for    *)
(* any set of producers, any number of pushes and every Capacity of at     *)
(* least two.  At Capacity one it does not: the sequence number published  *)
(* for a position is then the one that offers the slot to the next, so the *)
(* hypothesis is part of every theorem.                                    *)
(***************************************************************************)
EXTENDS MpscRing, NumberLemmas, TLAPS

\* The oldest position whose slot has not been handed back.
Base == IF cpc = "advance" THEN read_cursor_ + 1 ELSE read_cursor_

\* Claimed, and not yet published.
Owned(x) == \E p \in Producers : Owns(p) /\ pos[p] = x

\* The claimed positions are a stretch of at most Capacity from Base on.
Claimed == write_cursor_ \in Base..(Base + Capacity)

\* Every slot serves one of the Capacity positions from Base on; its sequence
\* number says whether that position is still to be published.
Published ==
    \A x \in Base..(Base + Capacity - 1) :
       sequence[Slot(x)] = IF x < write_cursor_ /\ ~Owned(x) THEN x + 1 ELSE x

\* A claimed position has one owner; a slot once seen free for a position stays
\* within reach of it until the position is claimed.
Owners ==
    /\ \A p \in Producers : Owns(p) => pos[p] \in Base..(write_cursor_ - 1)
    /\ \A p, q \in Producers : Owns(p) /\ Owns(q) /\ pos[p] = pos[q] => p = q
    /\ \A p \in Producers : pc[p] = "cas" => pos[p] < Base + Capacity
    /\ \A p \in Producers : pc[p] # "idle" => item[p] \in Msgs

\* What the consumer copies out has been published.
Reading == cpc \in {"read", "recycle"} => read_cursor_ < write_cursor_ /\ ~Owned(read_cursor_)

IInv == TypeOK /\ Claimed /\ Published /\ Owners /\ Reading

-----------------------------------------------------------------------------
(* Slots.                                                                  *)

LEMMA SlotType ==
    ASSUME NEW x \in Nat
    PROVE  Slot(x) \in Slots
BY DivMod, CapacityAssumption DEF Slot, Slots

\* Positions less than Capacity apart never share a slot.
LEMMA SlotsDiffer ==
    ASSUME NEW x \in Nat, NEW y \in Nat, x # y, y < x + Capacity, x < y + Capacity
    PROVE  Slot(x) # Slot(y)
<1>1. CASE x < y
  BY <1>1, RemaindersDiffer, CapacityAssumption DEF Slot
<1>2. CASE y < x
  BY <1>2, RemaindersDiffer, CapacityAssumption DEF Slot
<1> QED
  BY <1>1, <1>2

\* A lap later it is the same slot.
LEMMA SlotLap ==
    ASSUME NEW x \in Nat
    PROVE  Slot(x + Capacity) = Slot(x)
<1>0. Capacity \in Nat \ {0} /\ x + Capacity \in Nat
  BY CapacityAssumption
<1>1. PICK q \in Nat, r \in 0..(Capacity - 1) : r = x % Capacity /\ x = Capacity * q + r
  BY <1>0, Division
<1>2. Capacity * (q + 1) = Capacity * q + Capacity /\ Capacity * q \in Int /\ q + 1 \in Int
  BY <1>0
<1>3. x + Capacity = Capacity * (q + 1) + r
  BY <1>0, <1>1, <1>2
<1>4. (x + Capacity) % Capacity = r
  BY <1>0, <1>2, <1>3, RemainderUnique
<1> QED
  BY <1>1, <1>4 DEF Slot

\* The types of the cursors, and what follows from the invariant at once.
LEMMA CursorTypes ==
    ASSUME TypeOK, Claimed
    PROVE  /\ Capacity \in Nat \ {0} /\ write_cursor_ \in Nat /\ read_cursor_ \in Nat
           /\ Base \in Nat /\ read_cursor_ <= Base /\ Base <= read_cursor_ + 1
           /\ Base <= write_cursor_ /\ write_cursor_ <= Base + Capacity
           /\ cpc # "advance" => Base = read_cursor_
           /\ cpc = "advance" => Base = read_cursor_ + 1
           /\ \A p \in Producers : pos[p] \in Nat /\ pos[p] <= write_cursor_
<1>1. /\ Capacity \in Nat \ {0} /\ write_cursor_ \in Nat /\ read_cursor_ \in Nat
      /\ \A p \in Producers : pos[p] \in 0..write_cursor_
  BY CapacityAssumption DEF TypeOK
<1>2. /\ cpc # "advance" => Base = read_cursor_
      /\ cpc = "advance" => Base = read_cursor_ + 1
  BY DEF Base
<1>3. Base \in Nat /\ read_cursor_ <= Base /\ Base <= read_cursor_ + 1
  BY <1>1, <1>2
<1>4. Base <= write_cursor_ /\ write_cursor_ <= Base + Capacity
  BY <1>1, <1>3 DEF Claimed
<1> QED
  BY <1>1, <1>2, <1>3, <1>4

-----------------------------------------------------------------------------
(* What a load of a slot's sequence number tells.                          *)

\* Seen free: the position lies within Capacity of Base.  Here Capacity 1
\* would fail: the number published for Base is Base + Capacity.
LEMMA SeenFree ==
    ASSUME Capacity # 1, IInv, NEW p \in Producers, pos[p] \in SequenceLoads(Slot(pos[p]))
    PROVE  pos[p] < Base + Capacity
<1> DEFINE x == pos[p]
<1>1. /\ Capacity \in Nat \ {0} /\ Base \in Nat /\ x \in Nat /\ x <= write_cursor_
      /\ Base <= write_cursor_ /\ write_cursor_ <= Base + Capacity /\ write_cursor_ \in Nat
  BY CursorTypes DEF IInv
<1>2. x <= sequence[Slot(x)]
  BY DEF SequenceLoads
<1>3. SUFFICES ASSUME x = Base + Capacity PROVE FALSE
  BY <1>1
<1>4. Slot(x) = Slot(Base)
  BY <1>1, <1>3, SlotLap
<1>5. sequence[Slot(Base)] \in {Base, Base + 1}
  <2>1. Base \in Base..(Base + Capacity - 1)
    BY <1>1
  <2> QED
    BY <2>1 DEF IInv, Published
<1> QED
  BY <1>1, <1>2, <1>3, <1>4, <1>5

\* Seen ready: the position is claimed and published.
LEMMA SeenReady ==
    ASSUME IInv, cpc = "idle", read_cursor_ + 1 \in SequenceLoads(Slot(read_cursor_))
    PROVE  read_cursor_ < write_cursor_ /\ ~Owned(read_cursor_)
<1>1. /\ Capacity \in Nat \ {0} /\ Base = read_cursor_ /\ read_cursor_ \in Nat
      /\ write_cursor_ \in Nat /\ read_cursor_ <= write_cursor_
  BY CursorTypes DEF IInv
<1>2. read_cursor_ + 1 <= sequence[Slot(read_cursor_)]
  BY DEF SequenceLoads
<1>3. read_cursor_ \in Base..(Base + Capacity - 1)
  BY <1>1
<1>4. SUFFICES ASSUME ~(read_cursor_ < write_cursor_ /\ ~Owned(read_cursor_)) PROVE FALSE
  OBVIOUS
<1>5. sequence[Slot(read_cursor_)] = read_cursor_
  BY <1>3, <1>4 DEF IInv, Published
<1> QED
  BY <1>1, <1>2, <1>5

-----------------------------------------------------------------------------
(* One step per action.                                                    *)

\* Producer p loops before its claim: nobody sees it.
Loops(p) ==
    /\ UNCHANGED <<write_cursor_, sequence, data, read_cursor_, cpc, out>>
    /\ pc[p] \in {"idle", "check", "cas"} /\ pc'[p] \in {"idle", "check", "cas"}
    /\ \A q \in Producers \ {p} : pc'[q] = pc[q] /\ pos'[q] = pos[q] /\ item'[q] = item[q]

LEMMA LoopingStep ==
    ASSUME IInv, TypeOK', NEW p \in Producers, Loops(p),
           pc'[p] = "cas" => pos'[p] < Base + Capacity,
           pc'[p] # "idle" => item'[p] \in Msgs
    PROVE  IInv'
<1>1. Base' = Base
  BY DEF Loops, Base
<1>2. \A q \in Producers : Owns(q)' <=> Owns(q)
  BY DEF Loops, Owns
<1>3. \A q \in Producers : Owns(q) => pos'[q] = pos[q]
  BY DEF Loops, Owns
<1>4. \A x : Owned(x)' <=> Owned(x)
  BY <1>2, <1>3 DEF Owned
<1>5. Claimed'
  BY <1>1 DEF IInv, Claimed, Loops
<1>6. Published'
  BY <1>1, <1>4 DEF IInv, Published, Loops, Slot
<1>7. Owners'
  <2>1. (\A q \in Producers : Owns(q) => pos[q] \in Base..(write_cursor_ - 1))'
    BY <1>1, <1>2, <1>3 DEF IInv, Owners, Loops
  <2>2. (\A q, z \in Producers : Owns(q) /\ Owns(z) /\ pos[q] = pos[z] => q = z)'
    BY <1>2, <1>3 DEF IInv, Owners
  <2>3. (\A q \in Producers : pc[q] = "cas" => pos[q] < Base + Capacity)'
    BY <1>1 DEF IInv, Owners, Loops
  <2>4. (\A q \in Producers : pc[q] # "idle" => item[q] \in Msgs)'
    BY DEF IInv, Owners, Loops
  <2> QED
    BY <2>1, <2>2, <2>3, <2>4 DEF Owners
<1>8. Reading'
  BY <1>4 DEF IInv, Reading, Loops
<1> QED
  BY <1>5, <1>6, <1>7, <1>8 DEF IInv

LEMMA LoadsInRange ==
    ASSUME TypeOK, NEW p \in Producers, NEW w \in CursorLoads(p)
    PROVE  w \in 0..write_cursor_
BY DEF TypeOK, CursorLoads

LEMMA LoopSteps ==
    ASSUME Capacity # 1, IInv, NEW p \in Producers,
           \/ \E m \in Msgs, w \in CursorLoads(p) : PushStart(p, m, w)
           \/ \E v \in SequenceLoads(Slot(pos[p])) :
                 \/ PushSeesFree(p, v)
                 \/ PushRefused(p, v)
                 \/ \E w \in CursorLoads(p) : PushReload(p, v, w)
           \/ \E w \in CursorLoads(p) : PushClaimFails(p, w)
    PROVE  IInv' /\ Loops(p)
<1> USE DEF slotVars, consumerVars, Goto
<1>0. TypeOK
  BY DEF IInv
<1>1. Loops(p)
  BY <1>0 DEF PushStart, PushSeesFree, PushRefused, PushReload, PushClaimFails, Loops, TypeOK
<1>2. TypeOK'
  BY <1>0, LoadsInRange
     DEF PushStart, PushSeesFree, PushRefused, PushReload, PushClaimFails, TypeOK
<1>3. pc'[p] = "cas" => pos'[p] < Base + Capacity
  <2> SUFFICES ASSUME pc'[p] = "cas" PROVE pos'[p] < Base + Capacity
    OBVIOUS
  <2>1. PICK v \in SequenceLoads(Slot(pos[p])) :
         \/ PushSeesFree(p, v)
         \/ pc[p] = "cas" /\ pos' = pos
    BY <1>0 DEF PushStart, PushSeesFree, PushRefused, PushReload, PushClaimFails, TypeOK
  <2>2. CASE PushSeesFree(p, v)
    BY <2>2, SeenFree DEF PushSeesFree
  <2>3. CASE pc[p] = "cas" /\ pos' = pos
    BY <2>3 DEF IInv, Owners
  <2> QED
    BY <2>1, <2>2, <2>3
<1>4. pc'[p] # "idle" => item'[p] \in Msgs
  BY <1>0 DEF PushStart, PushSeesFree, PushRefused, PushReload, PushClaimFails, TypeOK, IInv, Owners
<1> QED
  BY <1>1, <1>2, <1>3, <1>4, LoopingStep

\* The compare-and-swap hands the next position to p alone.
LEMMA ClaimStep ==
    ASSUME IInv, NEW p \in Producers, PushClaim(p)
    PROVE  IInv'
<1> USE DEF slotVars, consumerVars, Goto
<1>0. TypeOK
  BY DEF IInv
<1>1. /\ Capacity \in Nat \ {0} /\ Base \in Nat /\ write_cursor_ \in Nat
      /\ Base <= write_cursor_ /\ pos[p] = write_cursor_ /\ pc[p] = "cas"
      /\ write_cursor_ < Base + Capacity /\ write_cursor_' = write_cursor_ + 1
      /\ Base' = Base
      /\ UNCHANGED <<sequence, data, item, pos, read_cursor_, cpc, out>>
  BY CursorTypes DEF IInv, Owners, PushClaim, Base
<1>2. pc'[p] = "write" /\ \A q \in Producers \ {p} : pc'[q] = pc[q]
  BY <1>0 DEF PushClaim, TypeOK
<1>3. TypeOK'
  BY <1>0, <1>1 DEF PushClaim, TypeOK
<1>4. Claimed'
  BY <1>1 DEF Claimed
<1>5. \A q \in Producers : Owns(q)' <=> (Owns(q) \/ q = p)
  BY <1>1, <1>2 DEF Owns
<1>6. \A x : Owned(x)' <=> (Owned(x) \/ x = write_cursor_)
  BY <1>1, <1>5 DEF Owned
<1>7. ~Owned(write_cursor_)
  BY <1>1 DEF IInv, Owners, Owned
<1>8. Published'
  <2> SUFFICES ASSUME NEW x \in Base..(Base + Capacity - 1)
               PROVE  sequence[Slot(x)] = IF x < write_cursor_ + 1 /\ ~Owned(x)' THEN x + 1 ELSE x
    BY <1>1 DEF Published, Slot
  <2>1. sequence[Slot(x)] = IF x < write_cursor_ /\ ~Owned(x) THEN x + 1 ELSE x
    BY DEF IInv, Published
  <2>2. CASE x = write_cursor_
    BY <1>1, <1>6, <2>1, <2>2
  <2>3. CASE x # write_cursor_
    BY <1>1, <1>6, <2>1, <2>3
  <2> QED
    BY <2>2, <2>3
<1>9. Owners'
  <2>1. (\A q \in Producers : Owns(q) => pos[q] \in Base..(write_cursor_ - 1))'
    BY <1>1, <1>5 DEF IInv, Owners
  <2>2. (\A q, z \in Producers : Owns(q) /\ Owns(z) /\ pos[q] = pos[z] => q = z)'
    BY <1>1, <1>5 DEF IInv, Owners
  <2>3. (\A q \in Producers : pc[q] = "cas" => pos[q] < Base + Capacity)'
    BY <1>1, <1>2 DEF IInv, Owners
  <2>4. (\A q \in Producers : pc[q] # "idle" => item[q] \in Msgs)'
    BY <1>1, <1>2 DEF IInv, Owners
  <2> QED
    BY <2>1, <2>2, <2>3, <2>4 DEF Owners
<1>10. Reading'
  BY <1>1, <1>6, CursorTypes DEF IInv, Reading
<1> QED
  BY <1>3, <1>4, <1>8, <1>9, <1>10 DEF IInv

LEMMA WriteStep ==
    ASSUME IInv, NEW p \in Producers, PushWrite(p)
    PROVE  IInv'
<1> USE DEF consumerVars, Goto
<1>0. TypeOK
  BY DEF IInv
<1>1. /\ pc[p] = "write" /\ pc'[p] = "publish"
      /\ \A q \in Producers \ {p} : pc'[q] = pc[q]
      /\ UNCHANGED <<write_cursor_, sequence, item, pos, read_cursor_, cpc, out>>
      /\ Base' = Base
  BY <1>0 DEF PushWrite, TypeOK, Base
<1>2. Slot(pos[p]) \in Slots
  BY CursorTypes, SlotType DEF IInv
<1>3. TypeOK'
  BY <1>0, <1>2 DEF PushWrite, TypeOK
<1>4. (\A q \in Producers : Owns(q)' <=> Owns(q)) /\ \A x : Owned(x)' <=> Owned(x)
  BY <1>1 DEF Owns, Owned
<1>5. Claimed' /\ Reading'
  BY <1>1, <1>4 DEF IInv, Claimed, Reading
<1>6. Published'
  BY <1>1, <1>4 DEF IInv, Published, Slot
<1>7. Owners'
  BY <1>1, <1>4 DEF IInv, Owners
<1> QED
  BY <1>3, <1>5, <1>6, <1>7 DEF IInv

\* Publishing changes the sequence number of p's own slot only.
LEMMA PublishStep ==
    ASSUME IInv, NEW p \in Producers, PushPublish(p)
    PROVE  IInv'
<1> USE DEF consumerVars, Goto
<1>0. TypeOK
  BY DEF IInv
<1>1. /\ pc[p] = "publish" /\ pc'[p] = "idle" /\ pos'[p] = pos[p] + 1
      /\ \A q \in Producers \ {p} : pc'[q] = pc[q] /\ pos'[q] = pos[q]
      /\ UNCHANGED <<write_cursor_, data, item, read_cursor_, cpc, out>>
      /\ Base' = Base
      /\ sequence' = [sequence EXCEPT ![Slot(pos[p])] = pos[p] + 1]
  BY <1>0 DEF PushPublish, TypeOK, Base
<1>2. PICK y \in Nat : y = pos[p]
  BY CursorTypes DEF IInv
<1>3. /\ Capacity \in Nat \ {0} /\ Base \in Nat /\ write_cursor_ \in Nat
      /\ Base <= y /\ y < write_cursor_ /\ write_cursor_ <= Base + Capacity
  BY <1>1, <1>2, CursorTypes DEF IInv, Owners, Owns
<1>4. Slot(y) \in Slots
  BY SlotType
<1>5. TypeOK'
  BY <1>0, <1>2, <1>3, <1>4 DEF PushPublish, TypeOK
<1>6. \A q \in Producers : Owns(q)' <=> (Owns(q) /\ q # p)
  BY <1>1 DEF Owns
<1>7. \A x : Owned(x)' <=> (Owned(x) /\ x # y)
  BY <1>1, <1>2, <1>6 DEF Owned, IInv, Owners, Owns
<1>8. Claimed' /\ Reading'
  BY <1>1, <1>7 DEF IInv, Claimed, Reading
<1>9. Published'
  <2> SUFFICES ASSUME NEW x \in Base..(Base + Capacity - 1)
               PROVE  sequence'[Slot(x)] = IF x < write_cursor_ /\ ~Owned(x)' THEN x + 1 ELSE x
    BY <1>1 DEF Published, Slot
  <2>1. sequence[Slot(x)] = IF x < write_cursor_ /\ ~Owned(x) THEN x + 1 ELSE x
    BY DEF IInv, Published
  <2>2. CASE x = y
    BY <1>0, <1>1, <1>2, <1>3, <1>4, <1>7, <2>2 DEF TypeOK
  <2>3. CASE x # y
    <3>1. x \in Nat /\ y < x + Capacity /\ x < y + Capacity
      BY <1>3
    <3>2. Slot(x) # Slot(y) /\ Slot(x) \in Slots
      BY <2>3, <3>1, SlotsDiffer, SlotType
    <3>3. sequence'[Slot(x)] = sequence[Slot(x)]
      BY <1>0, <1>1, <1>2, <1>4, <3>2 DEF TypeOK
    <3> QED
      BY <1>7, <2>1, <2>3, <3>3
  <2> QED
    BY <2>2, <2>3
<1>10. Owners'
  BY <1>1, <1>6 DEF IInv, Owners, Owns
<1> QED
  BY <1>5, <1>8, <1>9, <1>10 DEF IInv

\* The consumer's steps that touch no slot.
LEMMA ConsumerLocalStep ==
    ASSUME IInv,
           \/ \E v \in SequenceLoads(Slot(read_cursor_)) : PopSeesReady(v) \/ PopNotReady(v)
           \/ PopRead \/ PopAdvance \/ UNCHANGED vars
    PROVE  IInv' /\ Base' = Base
<1> USE DEF slotVars, producerVars, consumerVars, vars
<1>0. TypeOK
  BY DEF IInv
<1>1. /\ UNCHANGED <<write_cursor_, sequence, data, pc, item, pos>>
      /\ \A x : Owned(x)' <=> Owned(x)
      /\ \A q \in Producers : Owns(q)' <=> Owns(q)
  BY DEF PopSeesReady, PopNotReady, PopRead, PopAdvance, Owned, Owns
<1>2. Base' = Base
  BY <1>0 DEF PopSeesReady, PopNotReady, PopRead, PopAdvance, Base, TypeOK
<1>3. TypeOK'
  <2>1. Slot(read_cursor_) \in Slots
    BY CursorTypes, SlotType DEF IInv
  <2>2. cpc = "advance" => read_cursor_ + 1 \in 0..write_cursor_
    BY CursorTypes DEF IInv
  <2> QED
    BY <1>0, <1>1, <2>1, <2>2 DEF PopSeesReady, PopNotReady, PopRead, PopAdvance, TypeOK
<1>4. Claimed' /\ Owners'
  BY <1>1, <1>2 DEF IInv, Claimed, Owners
<1>5. Published'
  BY <1>1, <1>2 DEF IInv, Published, Slot
<1>6. Reading'
  <2>1. CASE \E v \in SequenceLoads(Slot(read_cursor_)) : PopSeesReady(v)
    <3>1. /\ cpc = "idle" /\ read_cursor_ + 1 \in SequenceLoads(Slot(read_cursor_))
          /\ read_cursor_' = read_cursor_
      BY <2>1 DEF PopSeesReady
    <3> QED
      BY <1>1, <3>1, SeenReady DEF Reading
  <2>2. CASE \/ \E v \in SequenceLoads(Slot(read_cursor_)) : PopNotReady(v)
             \/ PopRead \/ PopAdvance \/ UNCHANGED vars
    BY <1>1, <2>2 DEF IInv, Reading, PopNotReady, PopRead, PopAdvance
  <2> QED
    BY <2>1, <2>2
<1> QED
  BY <1>2, <1>3, <1>4, <1>5, <1>6 DEF IInv

\* Handing the slot back opens the position one lap ahead.
LEMMA RecycleStep ==
    ASSUME IInv, PopRecycle
    PROVE  IInv'
<1> USE DEF producerVars
<1>0. TypeOK
  BY DEF IInv
<1>1. PICK r \in Nat : r = read_cursor_
  BY CursorTypes DEF IInv
<1>2. /\ UNCHANGED <<write_cursor_, data, pc, item, pos, read_cursor_, out>>
      /\ sequence' = [sequence EXCEPT ![Slot(r)] = r + Capacity]
      /\ cpc = "recycle" /\ cpc' = "advance" /\ Base = r /\ Base' = r + 1
      /\ \A x : Owned(x)' <=> Owned(x)
      /\ \A q \in Producers : Owns(q)' <=> Owns(q)
  BY <1>1 DEF PopRecycle, Owned, Owns, Base
<1>3. /\ Capacity \in Nat \ {0} /\ write_cursor_ \in Nat
      /\ r < write_cursor_ /\ write_cursor_ <= r + Capacity /\ ~Owned(r)
  BY <1>1, <1>2, CursorTypes DEF IInv, Reading
<1>4. Slot(r) \in Slots
  BY SlotType
<1>5. TypeOK'
  BY <1>0, <1>1, <1>2, <1>3, <1>4 DEF TypeOK
<1>6. Claimed' /\ Reading'
  BY <1>2, <1>3 DEF Claimed, Reading
<1>7. Published'
  <2> SUFFICES ASSUME NEW x \in (r + 1)..(r + Capacity)
               PROVE  sequence'[Slot(x)] = IF x < write_cursor_ /\ ~Owned(x) THEN x + 1 ELSE x
    <3>1. (r + 1)..((r + 1) + Capacity - 1) = (r + 1)..(r + Capacity)
      BY <1>3
    <3> QED
      BY <1>2, <3>1 DEF Published, Slot
  <2>1. CASE x = r + Capacity
    <3>1. Slot(x) = Slot(r)
      BY <2>1, SlotLap
    <3> QED
      BY <1>0, <1>2, <1>3, <1>4, <2>1, <3>1 DEF TypeOK
  <2>2. CASE x # r + Capacity
    <3>1. /\ x \in Nat /\ x # r /\ x < r + Capacity /\ r < x + Capacity
          /\ x \in r..(r + Capacity - 1)
      BY <1>3, <2>2
    <3>2. Slot(x) # Slot(r) /\ Slot(x) \in Slots
      BY <3>1, SlotsDiffer, SlotType
    <3>3. sequence[Slot(x)] = IF x < write_cursor_ /\ ~Owned(x) THEN x + 1 ELSE x
      BY <1>2, <3>1 DEF IInv, Published
    <3> QED
      BY <1>0, <1>2, <1>4, <3>2, <3>3 DEF TypeOK
  <2> QED
    BY <2>1, <2>2
<1>8. Owners'
  <2>1. ASSUME NEW q \in Producers, Owns(q) PROVE pos[q] \in (r + 1)..(write_cursor_ - 1)
    <3>1. pos[q] \in r..(write_cursor_ - 1) /\ pos[q] # r
      BY <1>2, <1>3, <2>1 DEF IInv, Owners, Owned
    <3> QED
      BY <1>3, <3>1
  <2>2. ASSUME NEW q \in Producers, pc[q] = "cas" PROVE pos[q] < (r + 1) + Capacity
    <3>1. pos[q] \in Nat /\ pos[q] < r + Capacity
      BY <1>2, <2>2, CursorTypes DEF IInv, Owners
    <3> QED
      BY <1>3, <3>1
  <2> QED
    BY <1>2, <2>1, <2>2 DEF IInv, Owners
<1> QED
  BY <1>5, <1>6, <1>7, <1>8 DEF IInv

LEMMA NextInv == Capacity # 1 /\ IInv /\ [Next]_vars => IInv'
<1> SUFFICES ASSUME Capacity # 1, IInv, [Next]_vars PROVE IInv'
  OBVIOUS
<1>1. ASSUME NEW p \in Producers, Producer(p) PROVE IInv'
  BY <1>1, LoopSteps, ClaimStep, WriteStep, PublishStep DEF Producer
<1>2. CASE Consumer \/ UNCHANGED vars
  BY <1>2, ConsumerLocalStep, RecycleStep DEF Consumer
<1> QED
  BY <1>1, <1>2 DEF Next

LEMMA InitInv == Init => IInv
<1> SUFFICES ASSUME Init PROVE IInv
  OBVIOUS
<1>1. Capacity \in Nat \ {0} /\ Base = 0 /\ write_cursor_ = 0
  BY CapacityAssumption DEF Init, Base
<1>2. TypeOK
  BY DEF Init, TypeOK, Slots
<1>3. Claimed /\ Owners /\ Reading
  BY <1>1 DEF Init, Claimed, Owners, Reading, Owns
<1>4. Published
  <2>1. ASSUME NEW x \in 0..(Capacity - 1) PROVE Slot(x) = x
    BY <1>1 DEF Slot
  <2> QED
    BY <1>1, <2>1 DEF Init, Published, Slots
<1> QED
  BY <1>2, <1>3, <1>4 DEF IInv

LEMMA Inductive == Capacity # 1 => (Spec => []IInv)
<1> SUFFICES ASSUME Capacity # 1 PROVE Spec => []IInv
  OBVIOUS
<1>1. IInv /\ [Next]_vars => IInv'
  BY NextInv
<1> QED
  BY <1>1, InitInv, PTL DEF Spec

LEMMA InvRing == IInv => RingInv
<1> SUFFICES ASSUME IInv PROVE RingInv
  OBVIOUS
<1>0. /\ Capacity \in Nat \ {0} /\ Base \in Nat /\ write_cursor_ \in Nat
      /\ read_cursor_ \in Nat /\ write_cursor_ <= Base + Capacity
      /\ cpc # "advance" => Base = read_cursor_
  BY CursorTypes DEF IInv
<1>1. ASSUME NEW p \in Producers, Owns(p)
      PROVE  pos[p] \in Nat /\ Base <= pos[p] /\ pos[p] < Base + Capacity
  <2>1. pos[p] \in Base..(write_cursor_ - 1)
    BY <1>1 DEF IInv, Owners
  <2> QED
    BY <1>0, <2>1
<1>2. ASSUME NEW p \in Producers, NEW q \in Producers, p # q, Owns(p), Owns(q)
      PROVE  Slot(pos[p]) # Slot(pos[q])
  <2>1. pos[p] # pos[q]
    BY <1>2 DEF IInv, Owners
  <2>2. /\ pos[p] \in Nat /\ pos[q] \in Nat
        /\ pos[p] < pos[q] + Capacity /\ pos[q] < pos[p] + Capacity
    BY <1>0, <1>1, <1>2
  <2> QED
    BY <2>1, <2>2, SlotsDiffer
<1>3. ASSUME NEW p \in Producers, Owns(p), cpc \in {"read", "recycle"}
      PROVE  Slot(pos[p]) # Slot(read_cursor_)
  <2>1. pos[p] # read_cursor_
    BY <1>3 DEF IInv, Reading, Owned
  <2>2. /\ pos[p] \in Nat
        /\ pos[p] < read_cursor_ + Capacity /\ read_cursor_ < pos[p] + Capacity
    BY <1>0, <1>1, <1>3
  <2> QED
    BY <1>0, <2>1, <2>2, SlotsDiffer
<1>4. WithinCapacity
  BY CursorTypes DEF IInv, WithinCapacity, Front, Base
<1> QED
  BY <1>2, <1>3, <1>4 DEF IInv, RingInv, NoSlotRace

\* Two copies never meet in a slot and no more than Capacity messages are held,
\* however many producers claim, stall and publish in whatever order.
THEOREM RingSafety == Capacity # 1 => (Spec => []RingInv)
<1> SUFFICES ASSUME Capacity # 1 PROVE Spec => []RingInv
  OBVIOUS
<1>1. Spec => []IInv
  BY Inductive
<1> QED
  BY <1>1, InvRing, PTL

-----------------------------------------------------------------------------
(* Refinement.                                                             *)

\* MessageAt as a function of the state it reads, for use in two states at once.
Content(at, claim, arg, slot, x) ==
    IF \E p \in Producers : at[p] = "write" /\ claim[p] = x
    THEN arg[CHOOSE p \in Producers : at[p] = "write" /\ claim[p] = x]
    ELSE slot[Slot(x)]

\* Whoever is copying into position x holds its message; otherwise the slot does.
LEMMA ContentFacts ==
    ASSUME NEW at, NEW claim, NEW arg, NEW slot, NEW x,
           \A p, q \in Producers :
              at[p] = "write" /\ at[q] = "write" /\ claim[p] = claim[q] => p = q
    PROVE  /\ \A p \in Producers :
                 at[p] = "write" /\ claim[p] = x => Content(at, claim, arg, slot, x) = arg[p]
           /\ (\A p \in Producers : ~(at[p] = "write" /\ claim[p] = x))
                 => Content(at, claim, arg, slot, x) = slot[Slot(x)]
<1>1. ASSUME NEW p \in Producers, at[p] = "write", claim[p] = x
      PROVE  Content(at, claim, arg, slot, x) = arg[p]
  <2> DEFINE c == CHOOSE q \in Producers : at[q] = "write" /\ claim[q] = x
  <2>1. c \in Producers /\ at[c] = "write" /\ claim[c] = x
    BY <1>1, Zenon
  <2>2. Content(at, claim, arg, slot, x) = arg[c]
    BY <1>1, Zenon DEF Content
  <2>3. c = p
    <3> HIDE DEF c
    <3> QED  BY <1>1, <2>1, Zenon
  <2> QED
    BY <2>2, <2>3
<1>2. ASSUME \A p \in Producers : ~(at[p] = "write" /\ claim[p] = x)
      PROVE  Content(at, claim, arg, slot, x) = slot[Slot(x)]
  BY <1>2, Zenon DEF Content
<1> QED
  BY <1>1, <1>2, Zenon

\* A position at whose writer, argument and slot nothing changes.
LEMMA SameContent ==
    ASSUME NEW at, NEW claim, NEW arg, NEW slot, NEW at2, NEW claim2, NEW arg2, NEW slot2, NEW x,
           \A p, q \in Producers :
              at[p] = "write" /\ at[q] = "write" /\ claim[p] = claim[q] => p = q,
           \A p, q \in Producers :
              at2[p] = "write" /\ at2[q] = "write" /\ claim2[p] = claim2[q] => p = q,
           \A p \in Producers :
              /\ (at[p] = "write" /\ claim[p] = x) <=> (at2[p] = "write" /\ claim2[p] = x)
              /\ (at[p] = "write" /\ claim[p] = x) => arg2[p] = arg[p],
           (\A p \in Producers : ~(at[p] = "write" /\ claim[p] = x))
              => slot2[Slot(x)] = slot[Slot(x)]
    PROVE  Content(at2, claim2, arg2, slot2, x) = Content(at, claim, arg, slot, x)
<1>1. CASE \E p \in Producers : at[p] = "write" /\ claim[p] = x
  <2>1. PICK p \in Producers : at[p] = "write" /\ claim[p] = x
    BY <1>1
  <2>2. Content(at, claim, arg, slot, x) = arg[p]
    BY <2>1, ContentFacts
  <2>3. Content(at2, claim2, arg2, slot2, x) = arg2[p]
    BY <2>1, ContentFacts
  <2> QED
    BY <2>1, <2>2, <2>3
<1>2. CASE \A p \in Producers : ~(at[p] = "write" /\ claim[p] = x)
  <2>1. Content(at, claim, arg, slot, x) = slot[Slot(x)]
    BY <1>2, ContentFacts
  <2>2. Content(at2, claim2, arg2, slot2, x) = slot2[Slot(x)]
    BY <1>2, ContentFacts
  <2> QED
    BY <1>2, <2>1, <2>2
<1> QED
  BY <1>1, <1>2

LEMMA OneWriter ==
    Owners => \A p, q \in Producers :
                 pc[p] = "write" /\ pc[q] = "write" /\ pos[p] = pos[q] => p = q
BY DEF Owners, Owns

LEMMA OneWriterNext ==
    Owners' => \A p, q \in Producers :
                  pc'[p] = "write" /\ pc'[q] = "write" /\ pos'[p] = pos'[q] => p = q
BY DEF Owners, Owns

PendingShape ==
    /\ Front \in Nat /\ Base <= Front /\ Front <= write_cursor_ /\ write_cursor_ \in Nat
    /\ Pending \in Seq(Msgs \cup {NoMsg})
    /\ Len(Pending) = write_cursor_ - Front
    /\ \A i \in 1..(write_cursor_ - Front) :
          Pending[i] = Content(pc, pos, item, data, Front + i - 1)

LEMMA PendingContents == IInv => PendingShape
<1> SUFFICES ASSUME IInv PROVE PendingShape
  OBVIOUS
<1>0. TypeOK /\ Owners
  BY DEF IInv
<1>1. /\ Front \in Nat /\ Base <= Front /\ Front <= write_cursor_ /\ write_cursor_ \in Nat
  BY CursorTypes DEF IInv, Reading, Front, Base, TypeOK
<1>2. ASSUME NEW x \in Nat PROVE Content(pc, pos, item, data, x) \in Msgs \cup {NoMsg}
  <2>1. CASE \E p \in Producers : pc[p] = "write" /\ pos[p] = x
    <3>1. PICK p \in Producers : pc[p] = "write" /\ pos[p] = x
      BY <2>1
    <3>2. Content(pc, pos, item, data, x) = item[p]
      BY <1>0, <3>1, OneWriter, ContentFacts
    <3> QED
      BY <1>0, <3>2 DEF TypeOK
  <2>2. CASE \A p \in Producers : ~(pc[p] = "write" /\ pos[p] = x)
    <3>1. Content(pc, pos, item, data, x) = data[Slot(x)]
      BY <1>0, <2>2, OneWriter, ContentFacts
    <3> QED
      BY <1>0, <3>1, SlotType DEF TypeOK
  <2> QED
    BY <2>1, <2>2, Zenon
<1> DEFINE n == write_cursor_ - Front
<1>3. n \in Nat
  BY <1>1
<1>4. ASSUME NEW i \in 1..n PROVE Content(pc, pos, item, data, Front + i - 1) \in Msgs \cup {NoMsg}
  <2>1. Front + i - 1 \in Nat
    BY <1>1
  <2> QED
    BY <1>2, <2>1
<1>5. Pending = [i \in 1..n |-> Content(pc, pos, item, data, Front + i - 1)]
  BY DEF Pending, MessageAt, Content
<1>6. /\ Pending \in [1..n -> Msgs \cup {NoMsg}]
      /\ \A i \in 1..n : Pending[i] = Content(pc, pos, item, data, Front + i - 1)
  BY <1>4, <1>5, Zenon
<1>7. Pending \in Seq(Msgs \cup {NoMsg}) /\ Len(Pending) = n
  BY <1>3, <1>6, FunctionIsSeq, Zenon
<1> QED
  BY <1>1, <1>6, <1>7 DEF PendingShape

LEMMA PendingContentsNext == IInv' => PendingShape'
BY PendingContents, PTL

\* Equal sequences.
LEMMA SameSequence ==
    ASSUME NEW S, NEW q \in Seq(S), NEW r \in Seq(S), Len(r) = Len(q),
           \A i \in 1..Len(q) : r[i] = q[i]
    PROVE  r = q
OBVIOUS

\* A step that claims and removes nothing and keeps every pending message is
\* invisible.
LEMMA InvisibleStep ==
    ASSUME IInv, IInv', Front' = Front, write_cursor_' = write_cursor_,
           \A x \in Nat : x >= Front /\ x < write_cursor_ =>
              Content(pc', pos', item', data', x) = Content(pc, pos, item, data, x)
    PROVE  Pending' = Pending
<1>1. PendingShape /\ PendingShape'
  BY PendingContents, PendingContentsNext
<1> DEFINE n == write_cursor_ - Front
<1>2. /\ Pending \in Seq(Msgs \cup {NoMsg}) /\ Pending' \in Seq(Msgs \cup {NoMsg})
      /\ Len(Pending) = n /\ Len(Pending') = n /\ n \in Nat
      /\ Front \in Nat /\ write_cursor_ \in Nat
  BY <1>1 DEF PendingShape
<1>3. ASSUME NEW i \in 1..n PROVE Pending'[i] = Pending[i]
  <2>1. /\ Pending[i] = Content(pc, pos, item, data, Front + i - 1)
        /\ Pending'[i] = Content(pc', pos', item', data', Front + i - 1)
    BY <1>1 DEF PendingShape
  <2>2. Front + i - 1 \in Nat /\ Front + i - 1 >= Front /\ Front + i - 1 < write_cursor_
    BY <1>2
  <2> QED
    BY <2>1, <2>2
<1> QED
  BY <1>2, <1>3, SameSequence

LEMMA RefineInit == Init => Fifo!Init
<1> SUFFICES ASSUME Init PROVE Pending = << >> /\ out = NoMsg
  BY DEF Fifo!Init
<1>0. write_cursor_ = 0 /\ Front = 0
  BY Zenon DEF Init, Front
<1>1. write_cursor_ - Front = 0
  BY <1>0
<1> QED
  BY <1>1 DEF Pending, Init

\* Steps at which no producer starts or ends its copy.
LEMMA WritersRest ==
    ASSUME IInv, IInv', Front' = Front, write_cursor_' = write_cursor_, data' = data,
           \A p \in Producers :
              /\ pc'[p] = "write" <=> pc[p] = "write"
              /\ pc[p] = "write" => pos'[p] = pos[p] /\ item'[p] = item[p]
    PROVE  Pending' = Pending
<1>1. ASSUME NEW x \in Nat
      PROVE  Content(pc', pos', item', data', x) = Content(pc, pos, item, data, x)
  <2>1. Owners /\ Owners'
    BY DEF IInv
  <2> QED
    BY <2>1, OneWriter, OneWriterNext, SameContent
<1> QED
  BY <1>1, InvisibleStep

\* slot.data = item moves the message from the argument to the slot.
LEMMA RefineWrite ==
    ASSUME IInv, IInv', NEW p \in Producers, PushWrite(p)
    PROVE  UNCHANGED <<Pending, out>>
<1>0. TypeOK /\ Owners /\ Owners' /\ PendingShape
  BY PendingContents DEF IInv
<1>1. /\ pc[p] = "write" /\ pc'[p] = "publish"
      /\ \A q \in Producers \ {p} : pc'[q] = pc[q]
      /\ UNCHANGED <<write_cursor_, sequence, item, pos, read_cursor_, cpc, out>>
      /\ Front' = Front
      /\ data' = [data EXCEPT ![Slot(pos[p])] = item[p]]
  BY <1>0 DEF PushWrite, TypeOK, Front, consumerVars, Goto
<1>2. PICK y \in Nat : y = pos[p]
  BY CursorTypes DEF IInv
<1>3. /\ Capacity \in Nat \ {0} /\ Base \in Nat /\ write_cursor_ \in Nat
      /\ Base <= y /\ y < write_cursor_ /\ write_cursor_ <= Base + Capacity
      /\ Front \in Nat /\ Base <= Front
  <2>1. y \in Base..(write_cursor_ - 1)
    BY <1>0, <1>1, <1>2 DEF Owners, Owns
  <2>2. Front \in Nat /\ Base <= Front
    BY <1>0 DEF PendingShape
  <2> QED
    BY <2>1, <2>2, CursorTypes DEF IInv
<1>4. Slot(y) \in Slots
  BY SlotType
<1>5. ASSUME NEW x \in Nat, x >= Front, x < write_cursor_
      PROVE  Content(pc', pos', item', data', x) = Content(pc, pos, item, data, x)
  <2>1. CASE x = y
    <3>1. Content(pc, pos, item, data, x) = item[p]
      BY <1>0, <1>1, <1>2, <2>1, OneWriter, ContentFacts
    <3>2. \A q \in Producers : ~(pc'[q] = "write" /\ pos'[q] = x)
      BY <1>0, <1>1, <1>2, <2>1, OneWriter
    <3>3. Content(pc', pos', item', data', x) = data'[Slot(x)]
      BY <1>0, <3>2, OneWriterNext, ContentFacts
    <3>4. data'[Slot(x)] = item[p]
      BY <1>0, <1>1, <1>2, <1>4, <2>1 DEF TypeOK
    <3> QED
      BY <3>1, <3>3, <3>4
  <2>2. CASE x # y
    <3>1. y < x + Capacity /\ x < y + Capacity
      BY <1>3, <1>5
    <3>2. Slot(x) # Slot(y) /\ Slot(x) \in Slots
      BY <2>2, <3>1, SlotsDiffer, SlotType
    <3>3. data'[Slot(x)] = data[Slot(x)]
      BY <1>0, <1>1, <1>2, <1>4, <3>2 DEF TypeOK
    <3>4. \A q \in Producers :
             /\ (pc[q] = "write" /\ pos[q] = x) <=> (pc'[q] = "write" /\ pos'[q] = x)
             /\ (pc[q] = "write" /\ pos[q] = x) => item'[q] = item[q]
      BY <1>1, <1>2, <2>2
    <3> QED
      BY <1>0, <3>3, <3>4, OneWriter, OneWriterNext, SameContent
  <2> QED
    BY <2>1, <2>2
<1>6. Pending' = Pending
  BY <1>1, <1>5, InvisibleStep
<1> QED
  BY <1>1, <1>6

\* The successful compare-and-swap is the push.
LEMMA RefineClaim ==
    ASSUME IInv, IInv', NEW p \in Producers, PushClaim(p)
    PROVE  Fifo!Push(item[p]) /\ item[p] \in Msgs
<1>0. TypeOK /\ Owners /\ Owners' /\ PendingShape /\ PendingShape'
  BY PendingContents, PendingContentsNext DEF IInv
<1>1. /\ pc[p] = "cas" /\ pc'[p] = "write" /\ pos[p] = write_cursor_
      /\ \A q \in Producers \ {p} : pc'[q] = pc[q]
      /\ UNCHANGED <<sequence, data, item, pos, read_cursor_, cpc, out>>
      /\ Front' = Front /\ write_cursor_' = write_cursor_ + 1
      /\ item[p] \in Msgs
  BY <1>0 DEF PushClaim, TypeOK, Front, consumerVars, slotVars, Goto, Owners
<1> DEFINE n == Len(Pending)
<1>2. /\ Pending \in Seq(Msgs \cup {NoMsg}) /\ Pending' \in Seq(Msgs \cup {NoMsg})
      /\ n = write_cursor_ - Front /\ n \in Nat /\ Len(Pending') = n + 1
      /\ Front \in Nat /\ write_cursor_ \in Nat
  BY <1>0, <1>1 DEF PendingShape
<1>3. n < Capacity
  <2>1. Capacity \in Nat /\ Base \in Nat
    BY CursorTypes DEF IInv
  <2>2. pos[p] < Base + Capacity /\ Base <= Front
    BY <1>0, <1>1 DEF Owners, PendingShape
  <2> QED  BY <1>1, <1>2, <2>1, <2>2
<1>4. \A i \in 1..(n + 1) : Pending'[i] = Content(pc', pos', item', data', Front + i - 1)
  BY <1>0, <1>1, <1>2 DEF PendingShape
<1>5. ASSUME NEW i \in 1..n PROVE Pending'[i] = Pending[i]
  <2> DEFINE x == Front + i - 1
  <2>1. x \in Nat /\ x < write_cursor_ /\ i \in 1..(n + 1)
    BY <1>2
  <2>2. Pending[i] = Content(pc, pos, item, data, x) /\ Pending'[i] = Content(pc', pos', item', data', x)
    BY <1>0, <1>2, <1>4, <2>1 DEF PendingShape
  <2> HIDE DEF x
  <2>3. x # pos[p]
    BY <1>1, <1>2, <2>1
  <2>4. \A q \in Producers :
           /\ (pc[q] = "write" /\ pos[q] = x) <=> (pc'[q] = "write" /\ pos'[q] = x)
           /\ (pc[q] = "write" /\ pos[q] = x) => item'[q] = item[q]
    BY <1>1, <2>3
  <2> QED
    BY <1>0, <1>1, <2>2, <2>4, OneWriter, OneWriterNext, SameContent
<1>6. Pending'[n + 1] = item[p]
  <2>1. Front + (n + 1) - 1 = write_cursor_ /\ n + 1 \in 1..(n + 1)
    BY <1>2
  <2>2. Content(pc', pos', item', data', write_cursor_) = item'[p]
    BY <1>0, <1>1, OneWriterNext, ContentFacts
  <2> QED
    BY <1>1, <1>4, <2>1, <2>2
<1>7. Pending' = Append(Pending, item[p])
  <2>1. item[p] \in Msgs \cup {NoMsg}
    BY <1>1
  <2> QED
    BY <1>2, <1>5, <1>6, <2>1, AppendNext
<1> QED
  BY <1>1, <1>3, <1>7 DEF Fifo!Push

\* out = slot.data is the pop.
LEMMA RefineRead ==
    ASSUME IInv, IInv', PopRead
    PROVE  Fifo!Pop
<1>0. TypeOK /\ Owners /\ PendingShape /\ PendingShape'
  BY PendingContents, PendingContentsNext DEF IInv
<1>1. /\ UNCHANGED <<write_cursor_, sequence, data, pc, item, pos, read_cursor_>>
      /\ Front = read_cursor_ /\ Front' = read_cursor_ + 1
      /\ out' = data[Slot(read_cursor_)] /\ read_cursor_ \in Nat
      /\ ~Owned(read_cursor_)
  BY CursorTypes DEF PopRead, Front, slotVars, producerVars, IInv, Reading
<1> DEFINE n == Len(Pending')
           r == read_cursor_
<1>2. /\ Pending \in Seq(Msgs \cup {NoMsg}) /\ Pending' \in Seq(Msgs \cup {NoMsg})
      /\ n = write_cursor_ - (r + 1) /\ n \in Nat /\ Len(Pending) = n + 1
      /\ write_cursor_ \in Nat
  BY <1>0, <1>1 DEF PendingShape
<1>3. ASSUME NEW i \in 1..n PROVE Pending'[i] = Pending[i + 1]
  <2>1. Pending'[i] = Content(pc, pos, item, data, (r + 1) + i - 1)
    BY <1>0, <1>1, <1>2 DEF PendingShape
  <2>2. Pending[i + 1] = Content(pc, pos, item, data, r + (i + 1) - 1)
    BY <1>0, <1>1, <1>2 DEF PendingShape
  <2>3. (r + 1) + i - 1 = r + (i + 1) - 1
    BY <1>1, <1>2
  <2> QED
    BY <2>1, <2>2, <2>3
<1>4. Pending # << >> /\ Pending' = Tail(Pending)
  BY <1>2, <1>3, TailNext
<1>5. Head(Pending) = data[Slot(r)]
  <2>1. r + 1 - 1 = r /\ 1 \in 1..(write_cursor_ - r)
    BY <1>1, <1>2
  <2>2. Pending[1] = Content(pc, pos, item, data, r)
    BY <1>0, <1>1, <2>1 DEF PendingShape
  <2>3. Content(pc, pos, item, data, r) = data[Slot(r)]
    BY <1>0, <1>1, OneWriter, ContentFacts DEF Owned, Owns
  <2>4. Head(Pending) = Pending[1]
    BY <1>2, <1>4
  <2> QED
    BY <2>2, <2>3, <2>4
<1> QED
  BY <1>1, <1>4, <1>5 DEF Fifo!Pop

LEMMA RefineStep ==
    ASSUME Capacity # 1, IInv, IInv', [Next]_vars
    PROVE  [Fifo!Next]_<<Pending, out>>
<1>0. TypeOK
  BY DEF IInv
<1>1. ASSUME NEW p \in Producers, Producer(p)
      PROVE  [Fifo!Next]_<<Pending, out>>
  <2>1. CASE Loops(p)
    <3>1. Front' = Front /\ out' = out
      BY <2>1 DEF Loops, Front
    <3>2. Pending' = Pending
      BY <2>1, <3>1, WritersRest DEF Loops
    <3> QED
      BY <3>1, <3>2
  <2>2. CASE PushClaim(p)
    BY <2>2, RefineClaim DEF Fifo!Next
  <2>3. CASE PushWrite(p)
    BY <2>3, RefineWrite
  <2>4. CASE PushPublish(p)
    <3>1. /\ Front' = Front /\ out' = out /\ write_cursor_' = write_cursor_ /\ data' = data
          /\ item' = item /\ pc[p] = "publish" /\ pc'[p] = "idle"
          /\ \A q \in Producers \ {p} : pc'[q] = pc[q] /\ pos'[q] = pos[q]
      BY <1>0, <2>4 DEF PushPublish, Front, consumerVars, Goto, TypeOK
    <3>2. Pending' = Pending
      BY <3>1, WritersRest
    <3> QED
      BY <3>1, <3>2
  <2> QED
    BY <1>1, <2>1, <2>2, <2>3, <2>4, LoopSteps DEF Producer
<1>2. CASE PopRead
  BY <1>2, RefineRead DEF Fifo!Next
<1>3. CASE \/ \E v \in SequenceLoads(Slot(read_cursor_)) : PopSeesReady(v) \/ PopNotReady(v)
           \/ PopRecycle \/ PopAdvance \/ UNCHANGED vars
  <2>1. /\ Front' = Front
        /\ UNCHANGED <<write_cursor_, data, pc, item, pos, out>>
    BY <1>0, <1>3 DEF PopSeesReady, PopNotReady, PopRecycle, PopAdvance, Front, TypeOK,
       vars, slotVars, producerVars, consumerVars
  <2>2. Pending' = Pending
    BY <2>1, WritersRest
  <2> QED
    BY <2>1, <2>2
<1> QED
  BY <1>1, <1>2, <1>3 DEF Next, Consumer

\* The ring buffer implements the bounded FIFO for all producers together: a
\* push that returns true is popped at most once, intact and in claim order.
THEOREM Refinement == Capacity # 1 => (Spec => RefinesFifo)
<1> SUFFICES ASSUME Capacity # 1 PROVE Spec => RefinesFifo
  OBVIOUS
<1>1. Spec => []IInv
  BY Inductive
<1>2. IInv /\ IInv' /\ [Next]_vars => [Fifo!Next]_<<Pending, out>>
  BY RefineStep
<1> QED
  BY <1>1, <1>2, RefineInit, PTL DEF Spec, RefinesFifo, Fifo!Spec
=============================================================================
