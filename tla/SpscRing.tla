------------------------------ MODULE SpscRing ------------------------------
(***************************************************************************)
(* SpscRingBuffer<T, Capacity> of include/core/ring_buffer.hpp: one        *)
(* producer thread calling try_push, one consumer thread calling try_pop,  *)
(* no lock.  Each call is three steps, so that the copy into or out of a   *)
(* slot is visible as an interval: load the cursors, copy, store the own   *)
(* cursor.                                                                 *)
(*                                                                         *)
(* Cursors are kept as the position they stand for; the code only ever     *)
(* sees Word(position), the size_t that wraps at WordSize.                 *)
(*                                                                         *)
(* A thread's acquire load of the OTHER thread's cursor may return any     *)
(* value that cursor has had since the last one this thread saw            *)
(* (read-read coherence), not only the newest: seenHead and seenTail.      *)
(***************************************************************************)
EXTENDS Naturals, Integers, Sequences

CONSTANTS Capacity,   \* number of slots
          WordSize,   \* number of values of std::size_t
          Msgs,       \* the items pushed
          NoMsg,      \* content of an uninitialised slot or out variable
          MaxPushes   \* bound: how many pushes may be accepted

\* static_assert: a power of two above zero, so it divides 2^64 (lines 31-33);
\* what the algorithm needs of "power of two" is that it divides WordSize.
ASSUME CapacityAssumption ==
    /\ Capacity \in Nat \ {0}
    /\ WordSize \in Nat
    /\ WordSize > Capacity

ASSUME DividesAssumption == \E k \in 1..WordSize : WordSize = Capacity * k

ASSUME BoundAssumption == MaxPushes \in Nat

ASSUME MsgAssumption == NoMsg \notin Msgs

VARIABLES head_, tail_,    \* the two atomics, as positions
          storage_,        \* the slots
          ppc, item,       \* producer: where in try_push, and its argument
          seenHead,        \* producer: newest head_ it has loaded
          cpc, out,        \* consumer: where in try_pop, and its out argument
          seenTail         \* consumer: newest tail_ it has loaded

producerVars == <<ppc, item, seenHead>>
consumerVars == <<cpc, out, seenTail>>
vars == <<head_, tail_, storage_, producerVars, consumerVars>>

-----------------------------------------------------------------------------
Slots == 0..(Capacity - 1)

\* The size_t value of a cursor at a position.
Word(pos) == pos % WordSize

\* storage_[pos & kMask]
Slot(pos) == Word(pos) % Capacity

\* tail - head >= Capacity, the subtraction in size_t.
Full(tail, head) == (Word(tail) - Word(head)) % WordSize >= Capacity

Empty(head, tail) == Word(head) = Word(tail)

Init ==
    /\ head_ = 0 /\ tail_ = 0
    /\ storage_ = [i \in Slots |-> NoMsg]
    /\ ppc = "idle" /\ item = NoMsg /\ seenHead = 0
    /\ cpc = "idle" /\ out = NoMsg /\ seenTail = 0

-----------------------------------------------------------------------------
(* try_push, by the producer thread.                                       *)

\* Loads both cursors (head_ comes back as h) and finds room.
PushLoad(m, h) ==
    /\ ppc = "idle"
    /\ tail_ < MaxPushes
    /\ ~Full(tail_, h)
    /\ seenHead' = h
    /\ item' = m
    /\ ppc' = "write"
    /\ UNCHANGED <<head_, tail_, storage_, consumerVars>>

\* Loads both cursors, finds the buffer full and returns false.
PushRefused(h) ==
    /\ ppc = "idle"
    /\ tail_ < MaxPushes
    /\ Full(tail_, h)
    /\ seenHead' = h
    /\ UNCHANGED <<head_, tail_, storage_, ppc, item, consumerVars>>

PushWriteNoCopy ==
    /\ ppc = "write"
    /\ ppc' = "store"
    /\ UNCHANGED <<head_, tail_, storage_, item, seenHead, consumerVars>>

\* Copies the item into its slot.
PushWrite ==
    /\ ppc = "write"
    /\ storage_' = [storage_ EXCEPT ![Slot(tail_)] = item]
    /\ ppc' = "store"
    /\ UNCHANGED <<head_, tail_, item, seenHead, consumerVars>>

\* Publishes: release store of tail + 1, return true.
PushStore ==
    /\ ppc = "store"
    /\ tail_' = tail_ + 1
    /\ ppc' = "idle"
    /\ UNCHANGED <<head_, storage_, item, seenHead, consumerVars>>

-----------------------------------------------------------------------------
(* try_pop, by the consumer thread.                                        *)

PopLoadCached(t) ==
    /\ cpc = "idle"
    /\ ~Empty(head_, seenTail)
    /\ cpc' = "read"
    /\ UNCHANGED <<head_, tail_, storage_, producerVars, out, seenTail>>

PopLoadReleasesFirst(t) ==
    /\ cpc = "idle"
    /\ ~Empty(head_, t)
    /\ seenTail' = t
    /\ head_' = head_ + 1
    /\ cpc' = "read"
    /\ UNCHANGED <<tail_, storage_, producerVars, out>>

\* Loads both cursors (tail_ comes back as t) and finds a message.
PopLoad(t) ==
    /\ cpc = "idle"
    /\ ~Empty(head_, t)
    /\ seenTail' = t
    /\ cpc' = "read"
    /\ UNCHANGED <<head_, tail_, storage_, producerVars, out>>

\* Loads both cursors, finds the buffer empty and returns false.
PopEmpty(t) ==
    /\ cpc = "idle"
    /\ Empty(head_, t)
    /\ seenTail' = t
    /\ UNCHANGED <<head_, tail_, storage_, producerVars, cpc, out>>

\* Copies the oldest slot out.
PopRead ==
    /\ cpc = "read"
    /\ out' = storage_[Slot(head_)]
    /\ cpc' = "store"
    /\ UNCHANGED <<head_, tail_, storage_, producerVars, seenTail>>

\* Hands the slot back: release store of head + 1, return true.
PopStore ==
    /\ cpc = "store"
    /\ head_' = head_ + 1
    /\ cpc' = "idle"
    /\ UNCHANGED <<tail_, storage_, producerVars, out, seenTail>>

-----------------------------------------------------------------------------
Producer ==
    \/ \E m \in Msgs, h \in seenHead..head_ : PushLoad(m, h)
    \/ \E h \in seenHead..head_ : PushRefused(h)
    \/ PushWrite
    \/ PushStore

Consumer ==
    \/ \E t \in seenTail..tail_ : PopLoad(t) \/ PopEmpty(t)
    \/ PopRead
    \/ PopStore

Next == Producer \/ Consumer

(***************************************************************************)
(* The consumer thread polls for ever (coinbase_daemon_main.cpp's loop),   *)
(* a store becomes visible to loads after finitely many of them, and a     *)
(* try_push that was started is finished.  Nothing makes anyone start one. *)
(***************************************************************************)
Fairness ==
    /\ WF_vars(PopLoad(tail_))
    /\ WF_vars(PopRead) /\ WF_vars(PopStore)
    /\ WF_vars(PushWrite) /\ WF_vars(PushStore)

Spec == Init /\ [][Next]_vars /\ Fairness

-----------------------------------------------------------------------------
(* Properties.                                                             *)

\* Every variable keeps its type, and the cursors keep their order: the
\* consumer never passes the producer, the producer is never more than
\* Capacity ahead, and nobody has seen a cursor value from the future.
TypeOK ==
    /\ head_ \in Nat
    /\ tail_ \in head_..(head_ + Capacity)
    /\ tail_ <= MaxPushes
    /\ storage_ \in [Slots -> Msgs \cup {NoMsg}]
    /\ ppc \in {"idle", "write", "store"}
    /\ item \in Msgs \cup {NoMsg}
    /\ seenHead \in 0..head_
    /\ cpc \in {"idle", "read", "store"}
    /\ out \in Msgs \cup {NoMsg}
    /\ seenTail \in 0..tail_

\* The two plain (non-atomic) copies of a slot, storage_[tail & kMask] = item
\* and out = storage_[head & kMask], never overlap in time: that would be a
\* data race.  Both sides have only seen a possibly old value of the other's
\* cursor, and the cursors may have wrapped.
NoSlotRace ==
    ~ /\ ppc \in {"write", "store"}
      /\ cpc \in {"read", "store"}
      /\ Slot(tail_) = Slot(head_)

\* What each side may rely on although the other moves on: the producer's view
\* of head_ leaves it Capacity slots, a push past its check owns a slot, a pop
\* past its check owns a message, and the slot is filled before tail_ moves.
\* With TypeOK it is inductive.
CursorInv ==
    /\ tail_ <= seenHead + Capacity
    /\ head_ <= seenTail
    /\ ppc # "idle" => tail_ < seenHead + Capacity /\ tail_ < MaxPushes /\ item \in Msgs
    /\ cpc # "idle" => head_ < seenTail
    /\ ppc = "store" => storage_[Slot(tail_)] = item

\* The position of the oldest message not yet copied out.
Front == IF cpc = "store" THEN head_ + 1 ELSE head_

\* The messages a client would say are in the buffer, oldest first.
Pending == [i \in 1..(tail_ - Front) |-> storage_[Slot(Front + i - 1)]]

Fifo == INSTANCE BoundedFifo WITH queue <- Pending

\* try_push and try_pop together are a bounded FIFO: every accepted message is
\* popped once, unchanged, in push order, and at most Capacity are held.  A
\* push takes effect at the store of tail_, a pop when the slot is copied.
RefinesFifo == Fifo!Spec

\* A message whose push returned true is eventually popped by a consumer that
\* keeps polling, however stale its loads of tail_ may be in between.
EveryPushPopped == \A n \in 1..MaxPushes : (tail_ >= n) ~> (head_ >= n)
=============================================================================
