------------------------------ MODULE MpscRing ------------------------------
(***************************************************************************)
(* MpscRingBuffer<T, Capacity> of include/core/ring_buffer.hpp: several    *)
(* producer threads claim positions by compare-and-swap, fill the slot and *)
(* publish it through the slot's own sequence number; one consumer takes   *)
(* the positions in order and hands each slot back by advancing the        *)
(* sequence number one lap.                                                *)
(*                                                                         *)
(* Every atomic access and every copy of the payload is a step.  A load    *)
(* may return an old value of the variable; the compare-and-swap acts on   *)
(* the newest, and the weak form may fail for no reason.  Cursors are      *)
(* positions; the wrap of size_t after 2^64 of them is not modelled here.  *)
(***************************************************************************)
EXTENDS Naturals, Integers, Sequences, FiniteSets

CONSTANTS Capacity,   \* number of slots
          Producers,  \* the threads that call try_push
          Msgs,       \* the items pushed
          NoMsg,      \* content of an uninitialised slot or variable
          MaxPushes   \* bound: how many pushes may be started

\* static_assert: a power of two above zero (lines 104-106).
ASSUME CapacityAssumption == Capacity \in Nat \ {0}

ASSUME BoundAssumption == MaxPushes \in Nat

ASSUME MsgAssumption == NoMsg \notin Msgs

VARIABLES write_cursor_, read_cursor_,
          sequence, data,   \* the two members of each Slot
          pc, item,         \* per producer: where in try_push, its argument
          pos,              \* per producer: newest write_cursor_ it has seen;
                            \* inside try_push, its local variable pos
          cpc, out          \* consumer: where in try_pop, its argument

slotVars == <<sequence, data>>
producerVars == <<pc, item, pos>>
consumerVars == <<read_cursor_, cpc, out>>
vars == <<write_cursor_, slotVars, producerVars, consumerVars>>

-----------------------------------------------------------------------------
Slots == 0..(Capacity - 1)

\* slots_[pos & kMask]
Slot(x) == x % Capacity

\* What an acquire load of slot i's sequence may return: a value stored there
\* so far.  Slot i is set to i, then each lap published (+1) and recycled.
SequenceLoads(i) ==
    {v \in i..sequence[i] : (v - i) % Capacity \in {0, 1 % Capacity}}

\* What a load of write_cursor_ by p may return: nothing older than p has seen.
CursorLoads(p) == pos[p]..write_cursor_

Init ==
    /\ write_cursor_ = 0 /\ read_cursor_ = 0
    /\ sequence = [i \in Slots |-> i]
    /\ data = [i \in Slots |-> NoMsg]
    /\ pc = [p \in Producers |-> "idle"]
    /\ item = [p \in Producers |-> NoMsg]
    /\ pos = [p \in Producers |-> 0]
    /\ cpc = "idle" /\ out = NoMsg

-----------------------------------------------------------------------------
(* try_push, by producer p.                                                *)

Goto(p, label) == pc' = [pc EXCEPT ![p] = label]

Undecided == {p \in Producers : pc[p] \in {"check", "cas"}}

\* Call with item m; the first load of write_cursor_ returns w.
PushStart(p, m, w) ==
    /\ pc[p] = "idle"
    /\ write_cursor_ + Cardinality(Undecided) < MaxPushes
    /\ item' = [item EXCEPT ![p] = m]
    /\ pos' = [pos EXCEPT ![p] = w]
    /\ Goto(p, "check")
    /\ UNCHANGED <<write_cursor_, slotVars, consumerVars>>

\* diff == 0: the slot is free for this position.
PushSeesFree(p, v) ==
    /\ pc[p] = "check"
    /\ v = pos[p]
    /\ Goto(p, "cas")
    /\ UNCHANGED <<write_cursor_, slotVars, item, pos, consumerVars>>

\* diff < 0: not yet consumed, return false.
PushRefused(p, v) ==
    /\ pc[p] = "check"
    /\ v < pos[p]
    /\ Goto(p, "idle")
    /\ UNCHANGED <<write_cursor_, slotVars, item, pos, consumerVars>>

\* diff > 0: someone moved on; load the cursor again (w) and go round.
PushReload(p, v, w) ==
    /\ pc[p] = "check"
    /\ v > pos[p]
    /\ pos' = [pos EXCEPT ![p] = w]
    /\ UNCHANGED <<write_cursor_, slotVars, pc, item, consumerVars>>

PushClaimUnchecked(p) ==
    /\ pc[p] = "cas"
    /\ write_cursor_' = pos[p] + 1
    /\ Goto(p, "write")
    /\ UNCHANGED <<slotVars, item, pos, consumerVars>>

\* The compare-and-swap succeeds: position pos[p] belongs to p.
PushClaim(p) ==
    /\ pc[p] = "cas"
    /\ write_cursor_ = pos[p]
    /\ write_cursor_' = pos[p] + 1
    /\ Goto(p, "write")
    /\ UNCHANGED <<slotVars, item, pos, consumerVars>>

\* It fails, on a newer cursor value w or spuriously; w becomes the new pos.
PushClaimFails(p, w) ==
    /\ pc[p] = "cas"
    /\ pos' = [pos EXCEPT ![p] = w]
    /\ Goto(p, "check")
    /\ UNCHANGED <<write_cursor_, slotVars, item, consumerVars>>

\* slot.data = item
PushWrite(p) ==
    /\ pc[p] = "write"
    /\ data' = [data EXCEPT ![Slot(pos[p])] = item[p]]
    /\ Goto(p, "publish")
    /\ UNCHANGED <<write_cursor_, sequence, item, pos, consumerVars>>

PushPublishOldSequence(p) ==
    /\ pc[p] = "publish"
    /\ pos' = [pos EXCEPT ![p] = @ + 1]
    /\ Goto(p, "idle")
    /\ UNCHANGED <<write_cursor_, sequence, data, item, consumerVars>>

\* Release store of pos + 1 into the slot's sequence; return true.  The newest
\* cursor value p has seen is the pos + 1 its own swap wrote.
PushPublish(p) ==
    /\ pc[p] = "publish"
    /\ sequence' = [sequence EXCEPT ![Slot(pos[p])] = pos[p] + 1]
    /\ pos' = [pos EXCEPT ![p] = @ + 1]
    /\ Goto(p, "idle")
    /\ UNCHANGED <<write_cursor_, data, item, consumerVars>>

-----------------------------------------------------------------------------
(* try_pop, by the consumer.                                               *)

PopSeesClaimed(v) ==
    /\ cpc = "idle"
    /\ read_cursor_ < write_cursor_
    /\ cpc' = "read"
    /\ UNCHANGED <<write_cursor_, slotVars, producerVars, read_cursor_, out>>

\* The slot's sequence, loaded as v, is the published one.
PopSeesReady(v) ==
    /\ cpc = "idle"
    /\ v = read_cursor_ + 1
    /\ cpc' = "read"
    /\ UNCHANGED <<write_cursor_, slotVars, producerVars, read_cursor_, out>>

\* Not published yet, or nothing claimed: return false.
PopNotReady(v) ==
    /\ cpc = "idle"
    /\ v # read_cursor_ + 1
    /\ UNCHANGED vars

PopRead ==
    /\ cpc = "read"
    /\ out' = data[Slot(read_cursor_)]
    /\ cpc' = "recycle"
    /\ UNCHANGED <<write_cursor_, slotVars, producerVars, read_cursor_>>

\* Release store that lets position pos + Capacity claim the slot.
PopRecycle ==
    /\ cpc = "recycle"
    /\ sequence' = [sequence EXCEPT ![Slot(read_cursor_)] = read_cursor_ + Capacity]
    /\ cpc' = "advance"
    /\ UNCHANGED <<write_cursor_, data, producerVars, read_cursor_, out>>

PopAdvance ==
    /\ cpc = "advance"
    /\ read_cursor_' = read_cursor_ + 1
    /\ cpc' = "idle"
    /\ UNCHANGED <<write_cursor_, slotVars, producerVars, out>>

-----------------------------------------------------------------------------
Producer(p) ==
    \/ \E m \in Msgs, w \in CursorLoads(p) : PushStart(p, m, w)
    \/ \E v \in SequenceLoads(Slot(pos[p])) :
          \/ PushSeesFree(p, v)
          \/ PushRefused(p, v)
          \/ \E w \in CursorLoads(p) : PushReload(p, v, w)
    \/ PushClaim(p)
    \/ \E w \in CursorLoads(p) : PushClaimFails(p, w)
    \/ PushWrite(p)
    \/ PushPublish(p)

Consumer ==
    \/ \E v \in SequenceLoads(Slot(read_cursor_)) :
          PopSeesReady(v) \/ PopNotReady(v)
    \/ PopRead
    \/ PopRecycle
    \/ PopAdvance

Next == (\E p \in Producers : Producer(p)) \/ Consumer

(***************************************************************************)
(* The consumer polls for ever and a published sequence number becomes     *)
(* visible to it; a producer that has claimed a position fills and         *)
(* publishes it.  Nothing is assumed of producers that are still looping.  *)
(***************************************************************************)
Fairness ==
    /\ WF_vars(PopSeesReady(sequence[Slot(read_cursor_)]))
    /\ WF_vars(PopRead) /\ WF_vars(PopRecycle) /\ WF_vars(PopAdvance)
    /\ \A p \in Producers : WF_vars(PushWrite(p)) /\ WF_vars(PushPublish(p))

Spec == Init /\ [][Next]_vars /\ Fairness

-----------------------------------------------------------------------------
(* Properties.                                                             *)

Owns(p) == pc[p] \in {"write", "publish"}

\* Every variable keeps its type; a producer's view of the cursor and the
\* consumer are never ahead of the cursor.
TypeOK ==
    /\ write_cursor_ \in Nat
    /\ read_cursor_ \in 0..write_cursor_
    /\ sequence \in [Slots -> Nat]
    /\ data \in [Slots -> Msgs \cup {NoMsg}]
    /\ pc \in [Producers -> {"idle", "check", "cas", "write", "publish"}]
    /\ item \in [Producers -> Msgs \cup {NoMsg}]
    /\ pos \in [Producers -> 0..write_cursor_]
    /\ cpc \in {"idle", "read", "recycle", "advance"}
    /\ out \in Msgs \cup {NoMsg}

\* The plain copies slot.data = item and out = slot.data never overlap on one
\* slot: not two producers' (each must own its position alone) and not a
\* producer's with the consumer's (only a recycled slot may be claimed).
NoSlotRace ==
    /\ \A p, q \in Producers :
          p # q /\ Owns(p) /\ Owns(q) => Slot(pos[p]) # Slot(pos[q])
    /\ \A p \in Producers :
          Owns(p) /\ cpc \in {"read", "recycle"}
             => Slot(pos[p]) # Slot(read_cursor_)

\* The position of the oldest message not yet copied out.
Front == IF cpc \in {"recycle", "advance"} THEN read_cursor_ + 1 ELSE read_cursor_

\* "Full occupancy (Capacity items)" is the limit: never more than Capacity
\* positions are claimed and not yet copied out.
WithinCapacity == write_cursor_ <= Front + Capacity

\* Whatever the producers do between reading a sequence number and publishing,
\* the slots stay theirs alone: no racing copies (NoSlotRace), no claim beyond
\* Capacity (WithinCapacity), no view ahead of the cursors (TypeOK).
RingInv == TypeOK /\ NoSlotRace /\ WithinCapacity

\* The message of claimed position x: its claimer's argument until it is copied.
MessageAt(x) ==
    IF \E p \in Producers : pc[p] = "write" /\ pos[p] = x
    THEN item[CHOOSE p \in Producers : pc[p] = "write" /\ pos[p] = x]
    ELSE data[Slot(x)]

Pending == [i \in 1..(write_cursor_ - Front) |-> MessageAt(Front + i - 1)]

Fifo == INSTANCE BoundedFifo WITH queue <- Pending

\* All producers together and the consumer see one bounded FIFO: a push takes
\* effect when its compare-and-swap succeeds, a pop when the slot is copied
\* out; nothing is lost, duplicated, torn or reordered in between.
RefinesFifo == Fifo!Spec

\* A claimed position is eventually popped: no slot is left in a state that
\* the consumer waits on for ever.
EveryPushPopped ==
    \A n \in 1..MaxPushes : (write_cursor_ >= n) ~> (read_cursor_ >= n)
=============================================================================
