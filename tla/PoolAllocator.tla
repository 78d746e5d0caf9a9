--------------------------- MODULE PoolAllocator ---------------------------
(***************************************************************************)
(* PoolAllocator (include/core/pool_allocator.hpp): a pool of equal blocks *)
(* in one allocation, whose free blocks are a linked list threaded through *)
(* the blocks themselves.                                                  *)
(*                                                                         *)
(* A pointer is an offset into the storage.  The first word of a block is  *)
(* the link while the block is free, and its owner's to overwrite while it *)
(* is held: the list is sound only if no link of a held block is followed. *)
(* The pool is single-threaded, and a caller only gives back what it holds *)
(* (anything else is undefined by the contract of deallocate).             *)
(***************************************************************************)
EXTENDS Integers

CONSTANTS block_size, block_count,
          kAlign,       \* alignof(std::max_align_t)
          PointerSize   \* sizeof(void*)

ASSUME SizeAssumption ==
    /\ block_size \in Nat /\ block_count \in Nat
    /\ kAlign \in Nat \ {0} /\ PointerSize \in Nat \ {0}

VARIABLES
    storage_,     \* whether the one allocation succeeded
    free_head_,   \* the first free block, or Null
    word,         \* the first word of every block
    held,         \* the blocks the callers hold
    p,            \* what the last allocate returned
    odd           \* whether allocate was called an odd number of times: two equal
                  \* answers in a row are still two answers

poolVars == <<storage_, free_head_, word, held, p, odd>>

-----------------------------------------------------------------------------
Null == -1

\* block_size, room for a pointer at least, rounded up to the alignment.
Stride ==
    LET min_size == IF block_size < PointerSize THEN PointerSize ELSE block_size
    IN  ((min_size + kAlign - 1) \div kAlign) * kAlign

Block(i) == i * Stride

Blocks == {Block(i) : i \in 0..(block_count - 1)}

\* The constructor links every block to the one after it.  Without memory (or
\* without blocks) the pool is empty.
PoolInit ==
    /\ storage_ \in BOOLEAN
    /\ free_head_ = IF storage_ /\ block_count > 0 THEN Block(0) ELSE Null
    /\ word = [b \in Blocks |-> IF b = Block(block_count - 1) THEN Null ELSE b + Stride]
    /\ held = {}
    /\ p = Null /\ odd = FALSE

-----------------------------------------------------------------------------
AllocateKeepsHead ==
    /\ free_head_ # Null
    /\ p' = free_head_ /\ odd' = ~odd
    /\ held' = held \cup {free_head_}
    /\ UNCHANGED <<storage_, free_head_, word>>

\* allocate(): pops the head.
Allocate ==
    /\ free_head_ # Null
    /\ p' = free_head_ /\ odd' = ~odd
    /\ held' = held \cup {free_head_}
    /\ free_head_' = word[free_head_]
    /\ UNCHANGED <<storage_, word>>

AllocateExhausted ==
    /\ free_head_ = Null
    /\ p' = Null /\ odd' = ~odd
    /\ UNCHANGED <<storage_, free_head_, word, held>>

DeallocateUnlinked(b) ==
    /\ b \in held
    /\ free_head_' = b
    /\ held' = held \ {b}
    /\ UNCHANGED <<storage_, word, p, odd>>

\* deallocate(b): pushes it; a null pointer is ignored, and nothing changes.
Deallocate(b) ==
    /\ b \in held
    /\ word' = [word EXCEPT ![b] = free_head_]
    /\ free_head_' = b
    /\ held' = held \ {b}
    /\ UNCHANGED <<storage_, p, odd>>

\* The owner of a block writes what it likes into it.
OwnerWrites(b) ==
    /\ b \in held
    /\ \E w \in Blocks \cup {Null} : word' = [word EXCEPT ![b] = w]
    /\ UNCHANGED <<storage_, free_head_, held, p, odd>>

PoolNext ==
    \/ Allocate \/ AllocateExhausted
    \/ \E b \in Blocks : Deallocate(b) \/ OwnerWrites(b)

PoolSpec == PoolInit /\ [][PoolNext]_poolVars

-----------------------------------------------------------------------------
(* Properties.                                                             *)

\* Every variable keeps its type.
PoolTypeOK ==
    /\ storage_ \in BOOLEAN
    /\ free_head_ \in Blocks \cup {Null}
    /\ word \in [Blocks -> Blocks \cup {Null}]
    /\ held \in SUBSET Blocks
    /\ p \in Blocks \cup {Null}
    /\ odd \in BOOLEAN

\* The blocks of the pool: none without memory.
Pool == IF storage_ THEN Blocks ELSE {}

\* c is the free list: the blocks that free_head_ and the links lead through.
IsFreeList(n, c) ==
    /\ c \in [1..n -> Blocks]
    /\ free_head_ = IF n = 0 THEN Null ELSE c[1]
    /\ \A i \in 1..n : word[c[i]] = IF i = n THEN Null ELSE c[i + 1]
    /\ \A i, j \in 1..n : c[i] = c[j] => i = j
    /\ {c[i] : i \in 1..n} = Pool \ held

\* The free list ends, visits no block twice, and holds exactly the blocks that
\* nobody holds, whatever the owners wrote into theirs: no block is leaked and
\* none is on the list and in use.
FreeListSound == \E n \in 0..block_count : \E c \in [1..n -> Blocks] : IsFreeList(n, c)

\* Two blocks that are held do not overlap, are aligned, and lie in the storage.
HeldBlocksDisjoint ==
    \A b \in held :
       /\ b % kAlign = 0 /\ b + block_size <= Stride * block_count
       /\ \A d \in held \ {b} : b + block_size <= d \/ d + block_size <= b

\* The pool is sound: no block is lost or twice in use (FreeListSound), and those
\* in use are apart (HeldBlocksDisjoint).
PoolSound == FreeListSound /\ HeldBlocksDisjoint

Abstract == INSTANCE BlockPool WITH Nothing <- Null, pool <- Pool, answer <- p

\* The allocator is a pool: a block is only handed out when nobody holds it,
\* and refused only when all of them are held.
RefinesPool == Abstract!Spec
=============================================================================
