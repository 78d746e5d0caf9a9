--------------------------- MODULE SpscRingProofs ---------------------------
(***************************************************************************)
(* The SPSC ring buffer is race free and implements a bounded FIFO, for    *)
(* every Capacity, every word size it divides, every message set and any   *)
(* number of pushes.                                                       *)
(***************************************************************************)
EXTENDS SpscRing, NumberLemmas, TLAPS

\* The mask of the wrapped cursor picks the slot of the position itself.
LEMMA SlotIsPosition ==
    ASSUME NEW x \in Nat
    PROVE  Slot(x) = x % Capacity /\ Slot(x) \in Slots
<1>2. Capacity \in Nat \ {0} /\ WordSize \in Nat \ {0}
  BY CapacityAssumption
<1>3. (x % WordSize) % Capacity = x % Capacity
  BY <1>2, DividesAssumption, MaskOfWord
<1>4. x % Capacity \in 0..(Capacity - 1)
  BY <1>2, DivMod
<1> QED
  BY <1>3, <1>4 DEF Slot, Word, Slots

\* Live positions, less than Capacity apart, never share a slot.
LEMMA SlotsDiffer ==
    ASSUME NEW x \in Nat, NEW y \in Nat, x < y, y < x + Capacity
    PROVE  Slot(x) # Slot(y)
BY SlotIsPosition, RemaindersDiffer, CapacityAssumption

\* The wrapped comparisons of try_push and try_pop decide what they mean to.
LEMMA FullAndEmpty ==
    ASSUME NEW x \in Nat, NEW y \in Nat, x <= y, y <= x + Capacity
    PROVE  /\ Full(y, x) <=> y - x >= Capacity
           /\ Empty(x, y) <=> x = y
<1>1. y < x + WordSize /\ WordSize \in Nat \ {0}
  BY CapacityAssumption
<1>2. ((y % WordSize) - (x % WordSize)) % WordSize = y - x
  BY <1>1, WrappedDifference
<1>3. x # y => x % WordSize # y % WordSize
  <2>1. x # y => x < y
    OBVIOUS
  <2> QED
    BY <1>1, <2>1, RemaindersDiffer, Zenon
<1> QED
  BY <1>2, <1>3 DEF Full, Empty, Word

-----------------------------------------------------------------------------
IInv == TypeOK /\ CursorInv

\* What a load of the other side's cursor decides, in every state the
\* invariant allows and for every stale value the load may return.
LEMMA LoadsDecide ==
    ASSUME IInv
    PROVE  /\ \A h \in seenHead..head_ : Full(tail_, h) <=> tail_ - h >= Capacity
           /\ \A t \in seenTail..tail_ : Empty(head_, t) <=> head_ = t
<1>1. ASSUME NEW h \in seenHead..head_
      PROVE  h \in Nat /\ h <= tail_ /\ tail_ <= h + Capacity /\ tail_ \in Nat
  BY CapacityAssumption DEF IInv, TypeOK, CursorInv
<1>2. ASSUME NEW t \in seenTail..tail_
      PROVE  t \in Nat /\ head_ <= t /\ t <= head_ + Capacity /\ head_ \in Nat
  BY CapacityAssumption DEF IInv, TypeOK, CursorInv
<1> QED
  BY <1>1, <1>2, FullAndEmpty

LEMMA InitInv == Init => IInv
<1> SUFFICES ASSUME Init PROVE IInv
  OBVIOUS
<1> QED
  BY CapacityAssumption, BoundAssumption DEF Init, IInv, TypeOK, CursorInv, Slots

\* The slots both sides touch are slots of the array.
LEMMA OwnSlots ==
    ASSUME IInv
    PROVE  Slot(head_) \in Slots /\ Slot(tail_) \in Slots
<1>1. head_ \in Nat /\ tail_ \in Nat
  BY CapacityAssumption DEF IInv, TypeOK
<1> QED
  BY <1>1, SlotIsPosition

LEMMA NextInv == IInv /\ [Next]_vars => IInv'
<1> SUFFICES ASSUME IInv, [Next]_vars PROVE IInv'
  OBVIOUS
<1> USE CapacityAssumption, BoundAssumption DEF IInv
<1>1. ASSUME NEW m \in Msgs, NEW h \in seenHead..head_, PushLoad(m, h)
      PROVE  IInv'
  <2>1. tail_ - h < Capacity
    <3>1. ~(tail_ - h >= Capacity)
      BY <1>1, LoadsDecide DEF PushLoad
    <3> QED
      BY <3>1 DEF TypeOK
  <2>2. TypeOK'
    BY <1>1 DEF PushLoad, TypeOK, consumerVars
  <2>3. CursorInv'
    BY <1>1, <2>1 DEF PushLoad, TypeOK, CursorInv, consumerVars
  <2> QED
    BY <2>2, <2>3
<1>2. ASSUME NEW h \in seenHead..head_, PushRefused(h)
      PROVE  IInv'
  <2>1. TypeOK'
    BY <1>2 DEF PushRefused, TypeOK, consumerVars
  <2>2. CursorInv'
    BY <1>2 DEF PushRefused, TypeOK, CursorInv, consumerVars
  <2> QED
    BY <2>1, <2>2
<1>3. CASE PushWrite
  <2>1. TypeOK'
    BY <1>3, OwnSlots DEF PushWrite, TypeOK, consumerVars
  <2>2. storage_'[Slot(tail_)] = item
    BY <1>3, OwnSlots DEF PushWrite, TypeOK
  <2>3. CursorInv'
    <3>1. Slot(tail_)' = Slot(tail_)
      BY <1>3 DEF PushWrite, Slot, Word
    <3> QED
      BY <1>3, <2>2, <3>1 DEF PushWrite, TypeOK, CursorInv, consumerVars
  <2> QED
    BY <2>1, <2>3
<1>4. CASE PushStore
  <2>1. TypeOK'
    BY <1>4 DEF PushStore, TypeOK, CursorInv, consumerVars
  <2>2. CursorInv'
    BY <1>4 DEF PushStore, TypeOK, CursorInv, consumerVars
  <2> QED
    BY <2>1, <2>2
<1>5. ASSUME NEW t \in seenTail..tail_, PopLoad(t)
      PROVE  IInv'
  <2>1. head_ < t
    <3>1. head_ # t
      BY <1>5, LoadsDecide DEF PopLoad
    <3> QED
      BY <3>1 DEF TypeOK, CursorInv
  <2>2. TypeOK'
    BY <1>5 DEF PopLoad, TypeOK, producerVars
  <2>3. CursorInv'
    <3>1. Slot(tail_)' = Slot(tail_)
      BY <1>5 DEF PopLoad, Slot, Word
    <3> QED
      BY <1>5, <2>1, <3>1 DEF PopLoad, TypeOK, CursorInv, producerVars
  <2> QED
    BY <2>2, <2>3
<1>6. ASSUME NEW t \in seenTail..tail_, PopEmpty(t)
      PROVE  IInv'
  <2>1. TypeOK'
    BY <1>6 DEF PopEmpty, TypeOK, producerVars
  <2>2. CursorInv'
    <3>1. Slot(tail_)' = Slot(tail_)
      BY <1>6 DEF PopEmpty, Slot, Word
    <3> QED
      BY <1>6, <3>1 DEF PopEmpty, TypeOK, CursorInv, producerVars
  <2> QED
    BY <2>1, <2>2
<1>7. CASE PopRead
  <2>1. TypeOK'
    BY <1>7, OwnSlots DEF PopRead, TypeOK, producerVars
  <2>2. CursorInv'
    <3>1. Slot(tail_)' = Slot(tail_)
      BY <1>7 DEF PopRead, Slot, Word
    <3> QED
      BY <1>7, <3>1 DEF PopRead, TypeOK, CursorInv, producerVars
  <2> QED
    BY <2>1, <2>2
<1>8. CASE PopStore
  <2>1. TypeOK'
    BY <1>8 DEF PopStore, TypeOK, CursorInv, producerVars
  <2>2. CursorInv'
    <3>1. Slot(tail_)' = Slot(tail_)
      BY <1>8 DEF PopStore, Slot, Word
    <3> QED
      BY <1>8, <3>1 DEF PopStore, TypeOK, CursorInv, producerVars
  <2> QED
    BY <2>1, <2>2
<1>9. CASE UNCHANGED vars
  BY <1>9 DEF vars, producerVars, consumerVars, TypeOK, CursorInv, Slot, Word
<1> QED
  BY <1>1, <1>2, <1>3, <1>4, <1>5, <1>6, <1>7, <1>8, <1>9
     DEF Next, Producer, Consumer

\* Every reachable state of the buffer, for every capacity and word size: the
\* cursors stay within Capacity of each other and of what the threads have
\* seen, and a slot is filled before it is published.
THEOREM CursorSafety == Spec => [](TypeOK /\ CursorInv)
<1>1. Spec => []IInv
  BY InitInv, NextInv, PTL DEF Spec
<1> QED
  BY <1>1, PTL DEF IInv

LEMMA InvRaceFree == IInv => NoSlotRace
<1> SUFFICES ASSUME IInv, ppc # "idle", cpc # "idle"
             PROVE  Slot(tail_) # Slot(head_)
  BY DEF NoSlotRace
<1>1. /\ head_ \in Nat /\ tail_ \in Nat
      /\ head_ < tail_ /\ tail_ < head_ + Capacity
  BY CapacityAssumption DEF IInv, TypeOK, CursorInv
<1> QED
  BY <1>1, SlotsDiffer

\* try_push and try_pop never touch one slot at the same time.
THEOREM RaceFree == Spec => []NoSlotRace
<1>1. Spec => []IInv
  BY InitInv, NextInv, PTL DEF Spec
<1> QED
  BY <1>1, InvRaceFree, PTL

-----------------------------------------------------------------------------
(* Refinement.                                                             *)

\* The messages in the slots from position x up to position y.
Run(st, x, y) == [i \in 1..(y - x) |-> st[Slot(x + i - 1)]]

LEMMA RunContents ==
    ASSUME NEW S, NEW st \in [Slots -> S], NEW x \in Nat, NEW y \in Nat, x <= y
    PROVE  /\ Run(st, x, y) \in Seq(S)
           /\ Len(Run(st, x, y)) = y - x
           /\ \A i \in 1..(y - x) : Run(st, x, y)[i] = st[Slot(x + i - 1)]
<1>1. ASSUME NEW i \in 1..(y - x) PROVE Slot(x + i - 1) \in Slots
  <2>1. x + i - 1 \in Nat
    OBVIOUS
  <2> QED
    BY <2>1, SlotIsPosition
<1>2. Run(st, x, y) \in [1..(y - x) -> S]
  BY <1>1 DEF Run
<1>3. y - x \in Nat
  OBVIOUS
<1>4. Run(st, x, y) \in Seq(S) /\ Len(Run(st, x, y)) = y - x
  BY <1>2, <1>3, FunctionIsSeq, Zenon
<1> QED
  BY <1>4 DEF Run

\* The pending messages are the slots from Front up to tail_.
LEMMA PendingContents ==
    IInv => /\ Front \in Nat /\ head_ <= Front /\ Front <= tail_
            /\ tail_ \in Nat
            /\ Pending \in Seq(Msgs \cup {NoMsg})
            /\ Len(Pending) = tail_ - Front
            /\ \A i \in 1..(tail_ - Front) :
                  Pending[i] = storage_[Slot(Front + i - 1)]
<1> SUFFICES ASSUME IInv PROVE PendingContents!2
  OBVIOUS
<1>1. Front \in Nat /\ head_ <= Front /\ Front <= tail_ /\ tail_ \in Nat
  BY CapacityAssumption DEF IInv, TypeOK, CursorInv, Front
<1>2. storage_ \in [Slots -> Msgs \cup {NoMsg}]
  BY DEF IInv, TypeOK
<1>3. Pending = Run(storage_, Front, tail_)
  BY DEF Pending, Run
<1> DEFINE r == Run(storage_, Front, tail_)
<1>4. r \in Seq(Msgs \cup {NoMsg}) /\ Len(r) = tail_ - Front
  BY <1>1, <1>2, RunContents, Zenon
<1>5. \A i \in 1..(tail_ - Front) : r[i] = storage_[Slot(Front + i - 1)]
  BY DEF Run
<1> QED
  BY <1>1, <1>3, <1>4, <1>5, Zenon

\* The same of the next state.
LEMMA PendingContentsNext ==
    IInv' => /\ Front' \in Nat /\ Front' <= tail_' /\ tail_' \in Nat
             /\ Pending' \in Seq(Msgs \cup {NoMsg})
             /\ Len(Pending') = tail_' - Front'
             /\ \A i \in 1..(tail_' - Front') :
                   Pending'[i] = storage_'[Slot(Front' + i - 1)]
<1> SUFFICES ASSUME IInv' PROVE PendingContentsNext!2
  OBVIOUS
<1>1. Front' \in Nat /\ Front' <= tail_' /\ tail_' \in Nat
  <2>1. /\ head_' \in Nat /\ tail_' \in head_'..(head_' + Capacity)
        /\ seenTail' \in 0..tail_' /\ (cpc' # "idle" => head_' < seenTail')
    BY DEF IInv, TypeOK, CursorInv
  <2>2. /\ cpc' = "store" => Front' = head_' + 1
        /\ cpc' # "store" => Front' = head_'
    BY DEF Front
  <2> QED
    BY <2>1, <2>2, CapacityAssumption
<1>2. storage_' \in [Slots -> Msgs \cup {NoMsg}]
  BY DEF IInv, TypeOK
<1>3. Pending' = Run(storage_', Front', tail_')
  BY DEF Pending, Run, Slot, Word
<1> DEFINE r == Run(storage_', Front', tail_')
<1>4. r \in Seq(Msgs \cup {NoMsg}) /\ Len(r) = tail_' - Front'
  BY <1>1, <1>2, RunContents, Zenon
<1>5. \A i \in 1..(tail_' - Front') : r[i] = storage_'[Slot(Front' + i - 1)]
  BY DEF Run
<1> QED
  BY <1>1, <1>3, <1>4, <1>5, Zenon

\* A step that moves neither Front nor tail_ and no live slot is invisible.
LEMMA InvisibleStep ==
    ASSUME Front' = Front, tail_' = tail_, storage_' = storage_
    PROVE  Pending' = Pending
BY DEF Pending, Slot, Word

LEMMA RefineInit == Init => Fifo!Init
<1> SUFFICES ASSUME Init PROVE Pending = << >> /\ out = NoMsg
  BY DEF Fifo!Init
<1>1. tail_ - Front = 0
  BY DEF Init, Front
<1> QED
  BY <1>1 DEF Pending, Init

LEMMA RefineStep ==
    ASSUME IInv, IInv', [Next]_vars
    PROVE  [Fifo!Next]_<<Pending, out>>
<1>1. ASSUME NEW m \in Msgs, NEW h \in seenHead..head_, PushLoad(m, h)
      PROVE  UNCHANGED <<Pending, out>>
  BY <1>1, InvisibleStep DEF PushLoad, consumerVars, Front
<1>2. ASSUME NEW h \in seenHead..head_, PushRefused(h)
      PROVE  UNCHANGED <<Pending, out>>
  BY <1>2, InvisibleStep DEF PushRefused, consumerVars, Front
<1>3. CASE PushWrite
  <2>1. /\ Front' = Front /\ tail_' = tail_ /\ out' = out
        /\ tail_ < head_ + Capacity
    BY <1>3, CapacityAssumption
       DEF PushWrite, consumerVars, Front, IInv, TypeOK, CursorInv
  <2>2. ASSUME NEW i \in 1..(tail_ - Front)
        PROVE  storage_'[Slot(Front + i - 1)] = storage_[Slot(Front + i - 1)]
    <3> DEFINE x == Front + i - 1
    <3>1. x \in Nat /\ x < tail_ /\ tail_ < x + Capacity /\ tail_ \in Nat
      <4>1. Front \in Nat /\ head_ <= Front /\ tail_ \in Nat /\ head_ \in Nat /\ Capacity \in Nat
        BY PendingContents, CapacityAssumption DEF IInv, TypeOK
      <4> QED  BY <2>1, <4>1
    <3>2. Slot(x) # Slot(tail_) /\ Slot(x) \in Slots
      BY <3>1, SlotsDiffer, SlotIsPosition
    <3> QED
      BY <1>3, <3>2 DEF PushWrite, IInv, TypeOK
  <2>3. Pending' = [i \in 1..(tail_ - Front) |-> storage_'[Slot(Front + i - 1)]]
    BY <2>1 DEF Pending, Slot, Word
  <2> QED
    BY <2>1, <2>2, <2>3 DEF Pending
<1>4. CASE PushStore
  <2>1. /\ Front' = Front /\ tail_' = tail_ + 1 /\ storage_' = storage_
        /\ out' = out /\ item \in Msgs /\ storage_[Slot(tail_)] = item
        /\ tail_ < head_ + Capacity
    BY <1>4, CapacityAssumption
       DEF PushStore, consumerVars, Front, IInv, TypeOK, CursorInv
  <2> DEFINE n == Len(Pending)
  <2>2. /\ Pending \in Seq(Msgs \cup {NoMsg}) /\ Pending' \in Seq(Msgs \cup {NoMsg})
        /\ n = tail_ - Front /\ n \in Nat /\ Len(Pending)' = n + 1
        /\ Front \in Nat /\ tail_ \in Nat
    BY <2>1, PendingContents, PendingContentsNext
  <2>3. \A i \in 1..(n + 1) : Pending'[i] = storage_[Slot(Front + i - 1)]
    BY <2>1, <2>2, PendingContentsNext
  <2>4. \A i \in 1..n : Pending'[i] = Pending[i]
    BY <2>2, <2>3, PendingContents
  <2>5. Pending'[n + 1] = item
    <3>1. Front + (n + 1) - 1 = tail_
      BY <2>2
    <3> QED
      BY <2>1, <2>2, <2>3, <3>1
  <2>6. Pending' = Append(Pending, item)
    BY <2>1, <2>2, <2>4, <2>5, AppendNext
  <2>7. Len(Pending) < Capacity
    BY <2>1, <2>2, PendingContents, CapacityAssumption DEF IInv, TypeOK
  <2> QED
    BY <2>1, <2>6, <2>7 DEF Fifo!Next, Fifo!Push
<1>5. ASSUME NEW t \in seenTail..tail_, PopLoad(t)
      PROVE  UNCHANGED <<Pending, out>>
  BY <1>5, InvisibleStep DEF PopLoad, producerVars, Front
<1>6. ASSUME NEW t \in seenTail..tail_, PopEmpty(t)
      PROVE  UNCHANGED <<Pending, out>>
  BY <1>6, InvisibleStep DEF PopEmpty, producerVars, Front
<1>7. CASE PopRead
  <2>1. /\ Front = head_ /\ Front' = head_ + 1 /\ tail_' = tail_
        /\ storage_' = storage_ /\ out' = storage_[Slot(head_)] /\ head_ \in Nat
    BY <1>7 DEF PopRead, Front, IInv, TypeOK
  <2> DEFINE n == Len(Pending)'
  <2>2. /\ Pending \in Seq(Msgs \cup {NoMsg}) /\ Pending' \in Seq(Msgs \cup {NoMsg})
        /\ n = tail_ - (head_ + 1) /\ n \in Nat /\ Len(Pending) = n + 1
        /\ tail_ \in Nat
    BY <2>1, PendingContents, PendingContentsNext
  <2>3. ASSUME NEW i \in 1..n
        PROVE  Pending'[i] = Pending[i + 1]
    <3>1. Pending'[i] = storage_[Slot((head_ + 1) + i - 1)]
      BY <2>1, <2>2, PendingContentsNext
    <3>2. Pending[i + 1] = storage_[Slot(head_ + (i + 1) - 1)]
      BY <2>1, <2>2, PendingContents
    <3>3. (head_ + 1) + i - 1 = head_ + (i + 1) - 1
      BY <2>1, <2>2
    <3> QED
      BY <3>1, <3>2, <3>3
  <2>4. Pending # << >> /\ Pending' = Tail(Pending)
    BY <2>2, <2>3, TailNext
  <2>5. Head(Pending) = storage_[Slot(head_)]
    <3>1. head_ + 1 - 1 = head_
      BY <2>1
    <3>2. Pending[1] = storage_[Slot(head_)]
      BY <2>1, <2>2, <3>1, PendingContents
    <3> QED
      BY <2>2, <3>2
  <2> QED
    BY <2>1, <2>4, <2>5 DEF Fifo!Next, Fifo!Pop
<1>8. CASE PopStore
  BY <1>8, InvisibleStep DEF PopStore, producerVars, Front
<1>9. CASE UNCHANGED vars
  BY <1>9, InvisibleStep DEF vars, producerVars, consumerVars, Front
<1> QED
  BY <1>1, <1>2, <1>3, <1>4, <1>5, <1>6, <1>7, <1>8, <1>9
     DEF Next, Producer, Consumer

\* The ring buffer implements the bounded FIFO: every push that returns true
\* is popped at most once, intact and in order, and at most Capacity are held.
THEOREM Refinement == Spec => RefinesFifo
<1>1. Spec => []IInv
  BY InitInv, NextInv, PTL DEF Spec
<1>2. IInv /\ IInv' /\ [Next]_vars => [Fifo!Next]_<<Pending, out>>
  BY RefineStep
<1> QED
  BY <1>1, <1>2, RefineInit, PTL DEF Spec, RefinesFifo, Fifo!Spec
=============================================================================
