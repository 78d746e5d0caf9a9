---------------------------- MODULE BoundedFifo ----------------------------
(***************************************************************************)
(* What both ring buffers of include/core/ring_buffer.hpp promise to the   *)
(* threads that use them: a first-in first-out queue of at most Capacity   *)
(* messages, from which every accepted message is delivered once, whole    *)
(* and in order.  A refused try_push and an empty try_pop change nothing,  *)
(* so both are stuttering steps here; when they may be refused is a        *)
(* matter of the implementations.                                          *)
(***************************************************************************)
EXTENDS Naturals, Sequences

CONSTANTS Capacity,  \* the template parameter Capacity
          Msgs,      \* the messages producers hand to try_push
          NoMsg      \* what the consumer's out variable holds before a pop

VARIABLES queue,     \* accepted and not yet delivered, oldest first
          out        \* the message delivered last

Init == queue = << >> /\ out = NoMsg

Push(m) ==
    /\ Len(queue) < Capacity
    /\ queue' = Append(queue, m)
    /\ UNCHANGED out

Pop ==
    /\ queue # << >>
    /\ out' = Head(queue)
    /\ queue' = Tail(queue)

Next == (\E m \in Msgs : Push(m)) \/ Pop

Spec == Init /\ [][Next]_<<queue, out>>
=============================================================================
