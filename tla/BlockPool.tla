----------------------------- MODULE BlockPool -----------------------------
(***************************************************************************)
(* What a fixed-size pool promises its callers: allocate hands out a block *)
(* that nobody holds, as long as there is one, and refuses only when every *)
(* block is held.  Which block it picks is its own business.               *)
(***************************************************************************)
CONSTANT Nothing   \* the answer of an exhausted pool

VARIABLES pool,    \* the blocks there are
          held,    \* the blocks the callers hold
          answer,  \* what the last allocate returned
          odd      \* whether an odd number of answers were given

vars == <<pool, held, answer, odd>>

Init == held = {} /\ answer = Nothing /\ odd = FALSE

Allocate ==
    /\ \E b \in pool \ held : answer' = b /\ held' = held \cup {b}
    /\ odd' = ~odd /\ UNCHANGED pool

Refuse ==
    /\ held = pool
    /\ answer' = Nothing /\ odd' = ~odd
    /\ UNCHANGED <<pool, held>>

Deallocate ==
    /\ \E b \in held : held' = held \ {b}
    /\ UNCHANGED <<pool, answer, odd>>

Next == Allocate \/ Refuse \/ Deallocate

Spec == Init /\ [][Next]_vars
=============================================================================
