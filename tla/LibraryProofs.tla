--------------------------- MODULE LibraryProofs ---------------------------
(***************************************************************************)
(* Proofs about the pool allocator (PoolAllocator), the metrics exporter   *)
(* (Exporter), the fault injector (FaultInjector) and recordings (Replay). *)
(*                                                                         *)
(* The pool.  The arithmetic of the stride comes first: blocks are a       *)
(* stride apart, and a stride holds a block and is a multiple of the       *)
(* alignment.  The inductive invariant is that some duplicate-free         *)
(* sequence is the free list; its length is bounded by the number of       *)
(* blocks only afterwards.                                                 *)
(***************************************************************************)
EXTENDS PoolAllocator, Exporter, FaultInjector, Replay,
        NumberLemmas, FiniteSetTheorems, SequenceTheorems, TLAPS

-----------------------------------------------------------------------------
(* The stride.                                                             *)

\* The stride is a multiple of the alignment that holds a block and is not 0.
LEMMA StrideFacts ==
    /\ Stride \in Nat \ {0}
    /\ block_size <= Stride
    /\ \E q \in Nat : Stride = kAlign * q
<1> DEFINE min_size == IF block_size < PointerSize THEN PointerSize ELSE block_size
           x == min_size + kAlign - 1
<1>1. /\ kAlign \in Nat \ {0}
      /\ min_size \in Nat \ {0} /\ block_size <= min_size
      /\ x \in Nat
  BY SizeAssumption
<1>2. Stride = (x \div kAlign) * kAlign
  BY DEF Stride
<1> HIDE DEF min_size
<1>3. /\ x \div kAlign \in Nat
      /\ x % kAlign \in 0..(kAlign - 1)
      /\ x = kAlign * (x \div kAlign) + (x % kAlign)
  <2> HIDE DEF x
  <2> QED  BY <1>1, DivMod, Zenon
<1> DEFINE q == x \div kAlign
           r == x % kAlign
<1>4. /\ q \in Nat /\ r \in 0..(kAlign - 1)
      /\ min_size + kAlign - 1 = kAlign * q + r
  BY <1>3
<1>5. Stride = q * kAlign
  BY <1>2
<1> HIDE DEF q, r
<1>6. Stride = kAlign * q /\ Stride \in Nat
  BY <1>1, <1>4, <1>5
<1>7. min_size <= Stride
  BY <1>1, <1>4, <1>6
<1>8. Stride \in Nat \ {0} /\ block_size <= Stride
  <2> HIDE DEF Stride
  <2> QED  BY <1>1, <1>6, <1>7, SizeAssumption
<1>9. \E k \in Nat : Stride = kAlign * k
  BY <1>4, <1>6, Zenon
<1> QED
  BY <1>8, <1>9, Zenon

\* Two different blocks are at least a stride apart.
LEMMA BlocksApart ==
    ASSUME NEW i \in Int, NEW j \in Int, i < j
    PROVE  Block(i) + Stride <= Block(j)
<1>1. Stride \in Nat \ {0}
  BY StrideFacts
<1>2. Stride * i + Stride <= Stride * j
  <2> HIDE DEF Stride
  <2> QED  BY <1>1, MultiplesApart
<1>3. Block(i) = Stride * i /\ Block(j) = Stride * j
  <2> HIDE DEF Stride
  <2> QED  BY <1>1 DEF Block
<1> QED
  BY <1>2, <1>3

\* A block is a natural number, and no two blocks are the same.
LEMMA BlockFacts ==
    /\ \A i \in Nat : Block(i) \in Nat
    /\ \A i, j \in Int : Block(i) = Block(j) => i = j
    /\ \A i \in Int : Block(i) \in Int /\ Block(i) + Stride = Block(i + 1)
<1>1. Stride \in Nat \ {0}
  BY StrideFacts
<1>2. \A i \in Nat : Block(i) \in Nat
  <2> HIDE DEF Stride
  <2> QED  BY <1>1 DEF Block
<1>3. \A i \in Int : Block(i) \in Int /\ Block(i) + Stride = Block(i + 1)
  <2> HIDE DEF Stride
  <2> QED  BY <1>1 DEF Block
<1>4. ASSUME NEW i \in Int, NEW j \in Int, Block(i) = Block(j)
      PROVE  i = j
  <2>1. CASE i < j
    <3>1. Block(i) + Stride <= Block(j)
      BY <2>1, BlocksApart
    <3> HIDE DEF Stride, Block
    <3> QED  BY <3>1, <1>1, <1>3, <1>4
  <2>2. CASE j < i
    <3>1. Block(j) + Stride <= Block(i)
      BY <2>2, BlocksApart
    <3> HIDE DEF Stride, Block
    <3> QED  BY <3>1, <1>1, <1>3, <1>4
  <2> QED
    BY <2>1, <2>2
<1> QED
  BY <1>2, <1>3, <1>4

\* The null pointer is no block.
LEMMA NullIsNoBlock == Null \notin Blocks
  BY BlockFacts, SizeAssumption DEF Null, Blocks

-----------------------------------------------------------------------------
(* The inductive invariant.                                                *)

\* Some sequence is the free list, of whatever length.
ListExists == \E n \in Nat : \E c \in [1..n -> Blocks] : IsFreeList(n, c)

\* Only blocks of the pool are ever handed out.
HeldInPool == held \subseteq Pool

PoolIInv == PoolTypeOK /\ HeldInPool /\ ListExists

\* The constructor leaves all blocks on the list, in order of address.
LEMMA InitIInv == PoolInit => PoolIInv
<1> SUFFICES ASSUME PoolInit PROVE PoolIInv
  OBVIOUS
<1> USE SizeAssumption
<1>1. Block(0) \in Blocks \/ block_count = 0
  BY DEF Blocks
<1>2. ASSUME NEW b \in Blocks, b # Block(block_count - 1)
      PROVE  b + Stride \in Blocks
  <2>1. PICK i \in 0..(block_count - 1) : b = Block(i)
    BY DEF Blocks
  <2>2. i + 1 \in 0..(block_count - 1)
    BY <1>2, <2>1
  <2>3. b + Stride = Block(i + 1)
    BY <2>1, BlockFacts
  <2> QED
    BY <2>2, <2>3 DEF Blocks
<1>3. PoolTypeOK
  <2>1. free_head_ \in Blocks \cup {Null}
    BY <1>1 DEF PoolInit
  <2>2. word \in [Blocks -> Blocks \cup {Null}]
    BY <1>2 DEF PoolInit
  <2> QED
    BY <2>1, <2>2 DEF PoolInit, PoolTypeOK
<1>4. HeldInPool
  BY DEF PoolInit, HeldInPool
<1>5. ListExists
  <2>1. CASE ~storage_ \/ block_count = 0
    <3> DEFINE c == [i \in 1..0 |-> Block(0)]
    <3>1. c \in [1..0 -> Blocks]
      OBVIOUS
    <3>2. Pool = {}
      BY <2>1 DEF Pool, Blocks
    <3>3. IsFreeList(0, c)
      BY <2>1, <3>1, <3>2 DEF PoolInit, IsFreeList
    <3> QED
      BY <3>1, <3>3 DEF ListExists
  <2>2. CASE storage_ /\ block_count # 0
    <3> DEFINE n == block_count
               c == [i \in 1..n |-> Block(i - 1)]
    <3>1. n \in Nat \ {0} /\ \A i \in 1..n : i - 1 \in 0..(n - 1)
      BY <2>2
    <3>2. c \in [1..n -> Blocks]
      BY <3>1 DEF Blocks
    <3>3. free_head_ = c[1]
      BY <2>2, <3>1 DEF PoolInit
    <3>4. ASSUME NEW i \in 1..n
          PROVE  word[c[i]] = IF i = n THEN Null ELSE c[i + 1]
      <4>1. c[i] = Block(i - 1) /\ c[i] \in Blocks
        BY <3>2
      <4>2. word[c[i]] = IF c[i] = Block(n - 1) THEN Null ELSE c[i] + Stride
        BY <4>1 DEF PoolInit
      <4>3. c[i] = Block(n - 1) <=> i = n
        <5>1. i - 1 \in 0..(n - 1) /\ n - 1 \in 0..(n - 1)
          BY <3>1
        <5>2. Block(i - 1) = Block(n - 1) => i - 1 = n - 1
          BY <5>1, BlockFacts
        <5> QED
          BY <4>1, <3>1, <5>2
      <4>4. i # n => c[i + 1] = Block(i) /\ c[i] + Stride = Block(i)
        BY <4>1, <3>1, BlockFacts
      <4> QED
        BY <4>2, <4>3, <4>4
    <3>5. \A i, j \in 1..n : c[i] = c[j] => i = j
      BY <3>1, BlockFacts
    <3>6. {c[i] : i \in 1..n} = Pool \ held
      <4>1. Pool \ held = Blocks
        BY <2>2 DEF PoolInit, Pool
      <4>2. ASSUME NEW b \in Blocks PROVE b \in {c[i] : i \in 1..n}
        <5>1. PICK k \in 0..(n - 1) : b = Block(k)
          BY DEF Blocks
        <5>2. k + 1 \in 1..n /\ c[k + 1] = b
          BY <5>1, <3>1
        <5> QED
          BY <5>2
      <4> QED
        BY <4>1, <4>2, <3>2
    <3>7. IsFreeList(n, c)
      <4> HIDE DEF c
      <4> QED  BY <3>1, <3>2, <3>3, <3>4, <3>5, <3>6 DEF IsFreeList
    <3> QED
      BY <3>1, <3>2, <3>7 DEF ListExists
  <2> QED
    BY <2>1, <2>2
<1> QED
  BY <1>3, <1>4, <1>5 DEF PoolIInv

-----------------------------------------------------------------------------
(* One lemma per action.                                                   *)

\* What a free list says of its first block.
LEMMA HeadIsFree ==
    ASSUME PoolTypeOK, free_head_ # Null, NEW n \in Nat, NEW c \in [1..n -> Blocks],
           IsFreeList(n, c)
    PROVE  /\ n > 0 /\ free_head_ = c[1]
           /\ free_head_ \in Pool \ held /\ free_head_ \in Blocks
<1>1. n > 0 /\ free_head_ = c[1]
  BY DEF IsFreeList
<1>2. c[1] \in {c[i] : i \in 1..n}
  BY <1>1
<1> QED
  BY <1>1, <1>2 DEF IsFreeList, PoolTypeOK

\* allocate() leaves the rest of the list.
LEMMA AllocateIInv == PoolIInv /\ Allocate => PoolIInv'
<1> SUFFICES ASSUME PoolIInv, Allocate PROVE PoolIInv'
  OBVIOUS
<1> USE DEF PoolIInv
<1>1. PICK n \in Nat : \E c \in [1..n -> Blocks] : IsFreeList(n, c)
  BY DEF ListExists
<1>2. PICK c \in [1..n -> Blocks] : IsFreeList(n, c)
  BY <1>1
<1>3. /\ n > 0 /\ free_head_ = c[1]
      /\ free_head_ \in Pool \ held /\ free_head_ \in Blocks
  BY <1>2, HeadIsFree DEF Allocate
<1>4. PoolTypeOK'
  BY <1>3 DEF Allocate, PoolTypeOK
<1>5. Pool' = Pool /\ HeldInPool'
  BY <1>3 DEF Allocate, HeldInPool, Pool
<1> DEFINE m == n - 1
           d == [i \in 1..m |-> c[i + 1]]
<1>6. m \in Nat /\ \A i \in 1..m : i \in 1..n /\ i + 1 \in 1..n
  BY <1>3
<1>7. d \in [1..m -> Blocks]
  BY <1>6
<1>8. free_head_' = IF m = 0 THEN Null ELSE d[1]
  BY <1>2, <1>3, <1>6 DEF Allocate, IsFreeList
<1>9. ASSUME NEW i \in 1..m PROVE word'[d[i]] = IF i = m THEN Null ELSE d[i + 1]
  BY <1>2, <1>6 DEF Allocate, IsFreeList
<1>10. \A i, j \in 1..m : d[i] = d[j] => i = j
  BY <1>2, <1>6 DEF IsFreeList
<1>11. {d[i] : i \in 1..m} = Pool' \ held'
  <2>1. ASSUME NEW b \in Pool' \ held' PROVE b \in {d[i] : i \in 1..m}
    <3>1. b \in Pool \ held /\ b # c[1]
      BY <1>3, <1>5, <2>1 DEF Allocate
    <3>2. PICK k \in 1..n : b = c[k]
      BY <3>1, <1>2 DEF IsFreeList
    <3>3. k - 1 \in 1..m /\ d[k - 1] = b
      BY <3>1, <3>2, <1>3
    <3> QED
      BY <3>3
  <2>2. ASSUME NEW i \in 1..m PROVE d[i] \in Pool' \ held'
    <3>1. c[i + 1] \in Pool \ held
      BY <1>2, <1>6 DEF IsFreeList
    <3>2. c[i + 1] # c[1]
      BY <1>2, <1>6, <1>3 DEF IsFreeList
    <3> QED
      BY <3>1, <3>2, <1>3, <1>5 DEF Allocate
  <2> QED
    BY <2>1, <2>2
<1>12. IsFreeList(m, d)'
  <2> HIDE DEF m, d
  <2> QED  BY <1>7, <1>8, <1>9, <1>10, <1>11 DEF IsFreeList
<1>13. ListExists'
  <2> HIDE DEF m, d
  <2> QED  BY <1>6, <1>7, <1>12 DEF ListExists
<1> QED
  BY <1>4, <1>5, <1>13

\* deallocate(b) puts b in front of the list.
LEMMA DeallocateIInv ==
    ASSUME NEW b \in Blocks, PoolIInv, Deallocate(b)
    PROVE  PoolIInv'
<1> USE DEF PoolIInv
<1>1. PICK n \in Nat : \E c \in [1..n -> Blocks] : IsFreeList(n, c)
  BY DEF ListExists
<1>2. PICK c \in [1..n -> Blocks] : IsFreeList(n, c)
  BY <1>1
<1>3. b \in held /\ b \in Pool
  BY DEF Deallocate, HeldInPool
<1>4. PoolTypeOK'
  BY DEF Deallocate, PoolTypeOK
<1>5. Pool' = Pool /\ HeldInPool'
  BY DEF Deallocate, HeldInPool, Pool
<1> DEFINE m == n + 1
           d == [i \in 1..m |-> IF i = 1 THEN b ELSE c[i - 1]]
<1>6. m \in Nat /\ \A i \in 1..m : i # 1 => i - 1 \in 1..n
  OBVIOUS
<1>7. d \in [1..m -> Blocks]
  BY <1>6
<1>8. free_head_' = IF m = 0 THEN Null ELSE d[1]
  BY DEF Deallocate
<1>9. \A i \in 1..n : c[i] \in Pool \ held /\ c[i] # b
  BY <1>2, <1>3 DEF IsFreeList
<1>10. ASSUME NEW i \in 1..m PROVE word'[d[i]] = IF i = m THEN Null ELSE d[i + 1]
  <2>1. CASE i = 1
    <3>1. word'[d[i]] = free_head_
      BY <2>1 DEF Deallocate, PoolTypeOK
    <3>2. free_head_ = IF n = 0 THEN Null ELSE c[1]
      BY <1>2 DEF IsFreeList
    <3> QED
      BY <2>1, <3>1, <3>2
  <2>2. CASE i # 1
    <3>1. i - 1 \in 1..n /\ d[i] = c[i - 1] /\ d[i] # b
      BY <2>2, <1>6, <1>9
    <3>2. word'[d[i]] = word[c[i - 1]]
      BY <3>1 DEF Deallocate, PoolTypeOK
    <3>3. word[c[i - 1]] = IF i - 1 = n THEN Null ELSE c[(i - 1) + 1]
      BY <3>1, <1>2 DEF IsFreeList
    <3> QED
      BY <2>2, <3>2, <3>3
  <2> QED
    BY <2>1, <2>2
<1>11. ASSUME NEW i \in 1..m, NEW j \in 1..m, d[i] = d[j] PROVE i = j
  <2>1. (i = 1) <=> (j = 1)
    BY <1>6, <1>9, <1>11
  <2>2. CASE i # 1
    <3>1. i - 1 \in 1..n /\ j - 1 \in 1..n /\ c[i - 1] = c[j - 1]
      BY <2>1, <2>2, <1>6, <1>11
    <3>2. i - 1 = j - 1
      BY <3>1, <1>2 DEF IsFreeList
    <3> QED
      BY <3>2
  <2> QED
    BY <2>1, <2>2
<1>12. {d[i] : i \in 1..m} = Pool' \ held'
  <2>1. ASSUME NEW e \in Pool' \ held' PROVE e \in {d[i] : i \in 1..m}
    <3>1. CASE e = b
      <4>1. 1 \in 1..m /\ d[1] = e
        BY <3>1
      <4> QED
        BY <4>1
    <3>2. CASE e # b
      <4>1. e \in Pool \ held
        BY <3>2, <1>5, <2>1 DEF Deallocate
      <4>2. PICK k \in 1..n : e = c[k]
        BY <4>1, <1>2 DEF IsFreeList
      <4>3. k + 1 \in 1..m /\ d[k + 1] = e
        BY <4>2
      <4> QED
        BY <4>3
    <3> QED
      BY <3>1, <3>2
  <2>2. ASSUME NEW i \in 1..m PROVE d[i] \in Pool' \ held'
    <3>1. d[i] = b \/ d[i] \in Pool \ held
      BY <1>6, <1>9
    <3> QED
      BY <3>1, <1>3, <1>5 DEF Deallocate
  <2> QED
    BY <2>1, <2>2
<1>13. IsFreeList(m, d)'
  <2> HIDE DEF m, d
  <2> QED  BY <1>7, <1>8, <1>10, <1>11, <1>12 DEF IsFreeList
<1>14. ListExists'
  <2> HIDE DEF m, d
  <2> QED  BY <1>6, <1>7, <1>13 DEF ListExists
<1> QED
  BY <1>4, <1>5, <1>14

\* What an owner writes is never on the list.
LEMMA OwnerIInv ==
    ASSUME NEW b \in Blocks, PoolIInv, OwnerWrites(b)
    PROVE  PoolIInv'
<1> USE DEF PoolIInv
<1>1. PICK n \in Nat : \E c \in [1..n -> Blocks] : IsFreeList(n, c)
  BY DEF ListExists
<1>2. PICK c \in [1..n -> Blocks] : IsFreeList(n, c)
  BY <1>1
<1>3. PoolTypeOK'
  BY DEF OwnerWrites, PoolTypeOK
<1>4. Pool' = Pool /\ HeldInPool'
  BY DEF OwnerWrites, HeldInPool, Pool
<1>5. \A i \in 1..n : word'[c[i]] = word[c[i]]
  <2>1. \A i \in 1..n : c[i] # b
    BY <1>2 DEF IsFreeList, OwnerWrites
  <2> QED
    BY <2>1 DEF OwnerWrites, PoolTypeOK
<1>6. IsFreeList(n, c)'
  BY <1>2, <1>4, <1>5 DEF IsFreeList, OwnerWrites
<1> QED
  BY <1>3, <1>4, <1>6 DEF ListExists

\* Every step keeps the invariant.
LEMMA NextIInv == PoolIInv /\ [PoolNext]_poolVars => PoolIInv'
<1> SUFFICES ASSUME PoolIInv, [PoolNext]_poolVars PROVE PoolIInv'
  OBVIOUS
<1>1. CASE Allocate
  BY <1>1, AllocateIInv
<1>2. CASE AllocateExhausted
  BY <1>2 DEF AllocateExhausted, PoolIInv, PoolTypeOK, HeldInPool, ListExists, IsFreeList, Pool
<1>3. ASSUME NEW b \in Blocks, Deallocate(b) PROVE PoolIInv'
  BY <1>3, DeallocateIInv
<1>4. ASSUME NEW b \in Blocks, OwnerWrites(b) PROVE PoolIInv'
  BY <1>4, OwnerIInv
<1>5. CASE UNCHANGED poolVars
  BY <1>5 DEF poolVars, PoolIInv, PoolTypeOK, HeldInPool, ListExists, IsFreeList, Pool
<1> QED
  BY <1>1, <1>2, <1>3, <1>4, <1>5 DEF PoolNext

\* The invariant holds of every reachable state.
LEMMA Invariance == PoolSpec => []PoolIInv
  BY InitIInv, NextIInv, PTL DEF PoolSpec

-----------------------------------------------------------------------------
(* What follows from it.                                                   *)

\* A free list is no longer than the pool has blocks.
LEMMA ListIsBounded ==
    ASSUME NEW n \in Nat, NEW c \in [1..n -> Blocks], IsFreeList(n, c)
    PROVE  n <= block_count
<1> DEFINE f == [i \in 0..(block_count - 1) |-> Block(i)]
<1>1. IsFiniteSet(0..(block_count - 1)) /\ Cardinality(0..(block_count - 1)) = block_count
  BY FS_Interval, SizeAssumption
<1>2. f \in Surjection(0..(block_count - 1), Blocks)
  <2>1. f \in [0..(block_count - 1) -> Blocks]
    BY DEF Blocks
  <2>2. \A b \in Blocks : \E i \in 0..(block_count - 1) : f[i] = b
    BY DEF Blocks
  <2> QED
    BY <2>1, <2>2 DEF Surjection
<1>3. IsFiniteSet(Blocks) /\ Cardinality(Blocks) <= block_count
  <2> HIDE DEF f
  <2> QED  BY <1>1, <1>2, FS_Surjection
<1>4. c \in Injection(1..n, Blocks)
  BY DEF IsFreeList, Injection, IsInjective
<1>5. Cardinality(1..n) <= Cardinality(Blocks)
  BY <1>3, <1>4, FS_Injection
<1>6. Cardinality(1..n) = n
  BY FS_Interval
<1>7. Cardinality(Blocks) \in Nat
  BY <1>3, FS_CardinalityType
<1> QED
  BY <1>3, <1>5, <1>6, <1>7, SizeAssumption

\* The free list of PoolAllocator ends, has no block twice, and holds exactly
\* the blocks that nobody holds, whatever owners write into theirs: allocate()
\* never hands out a block in use, and none is lost.
THEOREM FreeListSafety == PoolSpec => []FreeListSound
<1>1. PoolIInv => FreeListSound
  <2> SUFFICES ASSUME PoolIInv PROVE FreeListSound
    OBVIOUS
  <2>1. PICK n \in Nat : \E c \in [1..n -> Blocks] : IsFreeList(n, c)
    BY DEF PoolIInv, ListExists
  <2>2. PICK c \in [1..n -> Blocks] : IsFreeList(n, c)
    BY <2>1
  <2>3. n \in 0..block_count
    BY <2>2, ListIsBounded, SizeAssumption
  <2> QED
    BY <2>2, <2>3 DEF FreeListSound
<1> QED
  BY <1>1, Invariance, PTL

\* Held blocks of PoolAllocator are aligned, lie in the storage and are disjoint.
THEOREM BlocksDisjoint == PoolSpec => []HeldBlocksDisjoint
<1>1. PoolIInv => HeldBlocksDisjoint
  <2> SUFFICES ASSUME PoolIInv, NEW b \in held
               PROVE  /\ b % kAlign = 0 /\ b + block_size <= Stride * block_count
                      /\ \A d \in held \ {b} : b + block_size <= d \/ d + block_size <= b
    BY DEF HeldBlocksDisjoint
  <2>0. held \subseteq Blocks
    BY DEF PoolIInv, PoolTypeOK
  <2>1. PICK i \in 0..(block_count - 1) : b = Block(i)
    BY <2>0 DEF Blocks
  <2>2. PICK q \in Nat : Stride = kAlign * q
    BY StrideFacts
  <2>3. /\ i \in Nat /\ block_count \in Nat /\ i < block_count /\ block_size \in Nat
        /\ Stride \in Nat \ {0} /\ block_size <= Stride /\ kAlign \in Nat \ {0}
    BY StrideFacts, SizeAssumption
  <2>4. b % kAlign = 0
    <3>1. b = kAlign * (i * q) + 0 /\ b \in Nat /\ i * q \in Int
      <4>1. b = i * (kAlign * q)
        BY <2>1, <2>2 DEF Block
      <4> QED
        BY <4>1, <2>3
    <3>2. 0 \in 0..(kAlign - 1)
      BY <2>3
    <3> QED
      BY <3>1, <3>2, <2>3, RemainderUnique
  <2>5. b + block_size <= Stride * block_count
    <3>1. Block(i) + Stride <= Block(block_count)
      BY <2>3, BlocksApart
    <3>2. Block(block_count) = Stride * block_count /\ Block(i) \in Int
      <4> HIDE DEF Stride
      <4> QED  BY <2>3 DEF Block
    <3> HIDE DEF Stride, Block
    <3> QED  BY <3>1, <3>2, <2>1, <2>3
  <2>6. ASSUME NEW d \in held \ {b} PROVE b + block_size <= d \/ d + block_size <= b
    <3>1. PICK j \in 0..(block_count - 1) : d = Block(j)
      BY <2>0 DEF Blocks
    <3>2. j \in Int /\ i \in Int /\ (i < j \/ j < i)
      BY <3>1, <2>1
    <3>3. Block(i) \in Int /\ Block(j) \in Int
      BY <3>2, BlockFacts
    <3>4. Block(i) + Stride <= Block(j) \/ Block(j) + Stride <= Block(i)
      BY <3>2, BlocksApart
    <3> HIDE DEF Stride, Block
    <3> QED  BY <3>1, <3>3, <3>4, <2>1, <2>3
  <2> QED
    BY <2>4, <2>5, <2>6
<1> QED
  BY <1>1, Invariance, PTL

\* The pool of PoolAllocator is sound after any calls of allocate and deallocate.
THEOREM PoolSafety == PoolSpec => []PoolSound
  BY FreeListSafety, BlocksDisjoint, PTL DEF PoolSound

\* PoolAllocator implements the abstract pool: allocate() hands out a block that
\* nobody holds, and returns null only when every block is held.
THEOREM PoolRefinement == PoolSpec => RefinesPool
<1>1. PoolInit => Abstract!Init
  BY DEF PoolInit, Abstract!Init
<1>2. PoolIInv /\ [PoolNext]_poolVars => [Abstract!Next]_(Abstract!vars)
  <2> SUFFICES ASSUME PoolIInv, [PoolNext]_poolVars
               PROVE  Abstract!Next \/ UNCHANGED Abstract!vars
    OBVIOUS
  <2>1. PICK n \in Nat : \E c \in [1..n -> Blocks] : IsFreeList(n, c)
    BY DEF PoolIInv, ListExists
  <2>2. PICK c \in [1..n -> Blocks] : IsFreeList(n, c)
    BY <2>1
  <2>3. CASE Allocate
    <3>1. free_head_ \in Pool \ held
      BY <2>2, <2>3, HeadIsFree DEF Allocate, PoolIInv
    <3>2. Abstract!Allocate
      BY <2>3, <3>1 DEF Allocate, Pool, Abstract!Allocate
    <3> QED
      BY <3>2 DEF Abstract!Next
  <2>4. CASE AllocateExhausted
    <3>1. n = 0
      <4>1. CASE n # 0
        <5>1. c[1] \in Blocks /\ free_head_ = c[1]
          BY <4>1, <2>2 DEF IsFreeList
        <5> QED
          BY <5>1, <2>4, NullIsNoBlock DEF AllocateExhausted
      <4> QED
        BY <4>1
    <3>2. Pool \ held = {}
      BY <3>1, <2>2 DEF IsFreeList
    <3>3. held = Pool
      BY <3>2 DEF PoolIInv, HeldInPool
    <3>4. Abstract!Refuse
      BY <2>4, <3>3 DEF AllocateExhausted, Pool, Abstract!Refuse
    <3> QED
      BY <3>4 DEF Abstract!Next
  <2>5. ASSUME NEW b \in Blocks, Deallocate(b) PROVE Abstract!Next
    <3>1. Abstract!Deallocate
      BY <2>5 DEF Deallocate, Pool, Abstract!Deallocate
    <3> QED
      BY <3>1 DEF Abstract!Next
  <2>6. ASSUME NEW b \in Blocks, OwnerWrites(b) PROVE UNCHANGED Abstract!vars
    BY <2>6 DEF OwnerWrites, Pool, Abstract!vars
  <2>7. CASE UNCHANGED poolVars
    BY <2>7 DEF poolVars, Pool, Abstract!vars
  <2> QED
    BY <2>3, <2>4, <2>5, <2>6, <2>7 DEF PoolNext
<1> QED
  BY <1>1, <1>2, Invariance, PTL DEF PoolSpec, RefinesPool, Abstract!Spec

-----------------------------------------------------------------------------
(* Exporter, the counters.  A sample follows an earlier one when it is     *)
(* from the same life and has counted on, or from a later life, all of     *)
(* whose count came afterwards.                                            *)

Follows(s, t) ==
    /\ s.life <= t.life
    /\ s.life = t.life => s.value <= t.value /\ t.total - s.total = t.value - s.value
    /\ s.life # t.life => s.total + t.value <= t.total

\* What stats.json would say now.
Now == [value |-> counter, life |-> restarts, total |-> total]

\* The last sample, stats.json and the daemon follow each other in this order.
SamplesInOrder ==
    /\ counter <= total
    /\ stats # Unreadable => Follows(stats, Now)
    /\ _previous # NoSample => Follows(_previous, Now)
    /\ stats # Unreadable /\ _previous # NoSample => Follows(_previous, stats)

\* The deltas sent, against the first and the last sample.
DeltasBounded ==
    /\ baseline = NoSample <=> _previous = NoSample
    /\ baseline = NoSample => sent = 0
    /\ baseline # NoSample =>
          /\ baseline.life <= _previous.life
          /\ baseline.total <= _previous.total
          /\ sent <= _previous.total - baseline.total
          /\ baseline.life = _previous.life => sent = _previous.total - baseline.total

CounterTypes ==
    /\ counter \in 0..MaxCount /\ total \in 0..MaxCount /\ restarts \in 0..MaxRestarts
    /\ stats \in Samples \cup {Unreadable}
    /\ _previous \in Samples \cup {NoSample} /\ baseline \in Samples \cup {NoSample}
    /\ sent \in 0..MaxCount

DeltaIInv == CounterTypes /\ SamplesInOrder /\ DeltasBounded

LEMMA SampleFields ==
    ASSUME NEW s \in Samples
    PROVE  /\ s.value \in Nat /\ s.life \in Nat /\ s.total \in Nat
           /\ s.value <= MaxCount /\ s.life <= MaxRestarts /\ s.total <= MaxCount
           /\ s # NoSample /\ s # Unreadable
BY BoundAssumption DEF Samples, NoSample, Unreadable

LEMMA FollowsTrans ==
    ASSUME NEW s \in Samples, NEW t \in Samples, NEW u \in Samples,
           Follows(s, t), Follows(t, u)
    PROVE  Follows(s, u)
<1>1. /\ s.value \in Nat /\ s.life \in Nat /\ s.total \in Nat
      /\ t.value \in Nat /\ t.life \in Nat /\ t.total \in Nat
      /\ u.value \in Nat /\ u.life \in Nat /\ u.total \in Nat
  BY SampleFields
<1> QED  BY <1>1 DEF Follows

LEMMA NowSample == DeltaIInv => Now \in Samples
BY DEF DeltaIInv, CounterTypes, Now, Samples

LEMMA DeltaInitial == ExporterInit => DeltaIInv
BY BoundAssumption DEF ExporterInit, DeltaIInv, CounterTypes, SamplesInOrder, DeltasBounded

\* The daemon moves on, by a count or into its next life.
LEMMA DaemonMoves ==
    ASSUME DeltaIInv, UNCHANGED <<stats, deltaVars>>,
           counter' \in 0..MaxCount, total' \in 0..MaxCount, restarts' \in 0..MaxRestarts,
           counter' <= total', Follows(Now, Now')
    PROVE  DeltaIInv'
<1>1. CounterTypes /\ SamplesInOrder /\ DeltasBounded /\ Now \in Samples
  BY NowSample DEF DeltaIInv
<1>2. Now' \in Samples
  BY DEF Now, Samples
<1>3. stats' = stats /\ _previous' = _previous /\ baseline' = baseline /\ sent' = sent
  BY DEF deltaVars
<1>4. CounterTypes'
  BY <1>1, <1>3 DEF CounterTypes
<1>5. ASSUME NEW s \in Samples, Follows(s, Now) PROVE Follows(s, Now')
  BY <1>1, <1>2, <1>5, FollowsTrans
<1>6. /\ stats # Unreadable => stats \in Samples
      /\ _previous # NoSample => _previous \in Samples
  BY <1>1 DEF CounterTypes
<1>7. SamplesInOrder'
  <2>1. stats' # Unreadable => Follows(stats', Now')
    BY <1>1, <1>3, <1>5, <1>6 DEF SamplesInOrder
  <2>2. _previous' # NoSample => Follows(_previous', Now')
    BY <1>1, <1>3, <1>5, <1>6 DEF SamplesInOrder
  <2>3. stats' # Unreadable /\ _previous' # NoSample => Follows(_previous', stats')
    BY <1>1, <1>3 DEF SamplesInOrder
  <2> QED  BY <2>1, <2>2, <2>3 DEF SamplesInOrder
<1>8. DeltasBounded'
  BY <1>1, <1>3 DEF DeltasBounded
<1> QED  BY <1>4, <1>7, <1>8 DEF DeltaIInv

LEMMA CountKeeps == ASSUME DeltaIInv, Count PROVE DeltaIInv'
<1>1. /\ counter \in Nat /\ total \in Nat /\ restarts \in Nat /\ counter <= total
      /\ total < MaxCount /\ MaxCount \in Nat /\ restarts \in 0..MaxRestarts
      /\ counter' = counter + 1 /\ total' = total + 1 /\ restarts' = restarts
  BY BoundAssumption DEF Count, DeltaIInv, CounterTypes, SamplesInOrder
<1>2. /\ counter' \in 0..MaxCount /\ total' \in 0..MaxCount /\ counter' <= total'
  BY <1>1
<1>3. Follows(Now, Now')
  BY <1>1 DEF Follows, Now
<1> QED  BY <1>1, <1>2, <1>3, DaemonMoves DEF Count

LEMMA RestartKeeps == ASSUME DeltaIInv, DaemonRestart PROVE DeltaIInv'
<1>1. /\ counter \in Nat /\ total \in Nat /\ restarts \in Nat /\ counter <= total
      /\ total \in 0..MaxCount /\ MaxCount \in Nat /\ MaxRestarts \in Nat
      /\ restarts < MaxRestarts
      /\ counter' = 0 /\ total' = total /\ restarts' = restarts + 1
  BY BoundAssumption DEF DaemonRestart, DeltaIInv, CounterTypes, SamplesInOrder
<1>2. /\ counter' \in 0..MaxCount /\ restarts' \in 0..MaxRestarts /\ counter' <= total'
  BY <1>1
<1>3. Follows(Now, Now')
  BY <1>1 DEF Follows, Now
<1> QED  BY <1>1, <1>2, <1>3, DaemonMoves DEF DaemonRestart

LEMMA WritesStatsKeeps == ASSUME DeltaIInv, DaemonWritesStats PROVE DeltaIInv'
<1>1. CounterTypes /\ SamplesInOrder /\ DeltasBounded /\ Now \in Samples
  BY NowSample DEF DeltaIInv
<1>2. /\ stats' = Now /\ Now' = Now
      /\ counter' = counter /\ total' = total /\ restarts' = restarts
      /\ _previous' = _previous /\ baseline' = baseline /\ sent' = sent
  BY DEF DaemonWritesStats, Now, deltaVars
<1>3. Follows(Now, Now)
  BY <1>1, SampleFields DEF Follows
<1>4. CounterTypes' /\ DeltasBounded'
  BY <1>1, <1>2 DEF CounterTypes, DeltasBounded
<1>5. SamplesInOrder'
  BY <1>1, <1>2, <1>3 DEF SamplesInOrder
<1> QED  BY <1>4, <1>5 DEF DeltaIInv

\* _delta makes up for what it cannot see: the next sum of deltas is bounded by
\* the next sample.
LEMMA TickKeeps == ASSUME DeltaIInv, TickCounters PROVE DeltaIInv'
<1>1. CounterTypes /\ SamplesInOrder /\ DeltasBounded /\ stats \in Samples
  BY DEF DeltaIInv, CounterTypes, TickCounters
<1>2. /\ _previous' = stats /\ stats' = stats /\ Now' = Now
      /\ counter' = counter /\ total' = total /\ restarts' = restarts
      /\ sent' = sent + Delta(stats.value)
      /\ baseline' = IF baseline = NoSample THEN stats ELSE baseline
  BY DEF TickCounters, Now, counterVars
<1>3. /\ stats.value \in Nat /\ stats.life \in Nat /\ stats.total \in Nat
      /\ stats.total <= MaxCount /\ MaxCount \in Nat /\ stats # NoSample /\ stats # Unreadable
      /\ sent \in Nat
  BY <1>1, SampleFields, BoundAssumption DEF CounterTypes
<1>4. Follows(stats, stats)
  BY <1>3 DEF Follows
<1>5. SamplesInOrder'
  BY <1>1, <1>2, <1>3, <1>4 DEF SamplesInOrder
<1>6. DeltasBounded' /\ baseline' \in Samples /\ sent' \in 0..MaxCount
  <2>1. CASE baseline = NoSample
    <3>1. _previous = NoSample /\ sent = 0
      BY <1>1, <2>1 DEF DeltasBounded
    <3>2. Delta(stats.value) = 0 /\ baseline' = stats /\ sent' = 0
      BY <1>2, <2>1, <3>1 DEF Delta
    <3> QED  BY <1>1, <1>2, <1>3, <3>2 DEF DeltasBounded
  <2>2. CASE baseline # NoSample
    <3>1. _previous # NoSample /\ _previous \in Samples /\ baseline \in Samples
          /\ baseline' = baseline
      BY <1>1, <1>2, <2>2 DEF DeltasBounded, CounterTypes
    <3>2. Follows(_previous, stats)
      BY <1>1, <1>3, <3>1 DEF SamplesInOrder
    <3>3. PICK b \in Nat, c \in Nat, v \in Nat, l \in Nat, t \in Nat :
             /\ b = baseline.total /\ c = baseline.life
             /\ v = _previous.value /\ l = _previous.life /\ t = _previous.total
      BY <3>1, SampleFields
    <3>4. PICK w \in Nat, m \in Nat, u \in Nat :
             w = stats.value /\ m = stats.life /\ u = stats.total
      BY <1>3
    <3>5. /\ c <= l /\ b <= t /\ sent <= t - b /\ (c = l => sent = t - b)
      BY <1>1, <2>2, <3>3 DEF DeltasBounded
    <3>6. /\ l <= m /\ (l = m => v <= w /\ u - t = w - v) /\ (l # m => t + w <= u)
      BY <3>2, <3>3, <3>4 DEF Follows
    <3>7. sent' = IF w < v THEN sent + w ELSE sent + (w - v)
      BY <1>2, <3>1, <3>3, <3>4 DEF Delta
    <3>8. /\ c <= m /\ b <= u /\ sent' <= u - b /\ (c = m => sent' = u - b) /\ sent' \in Nat
      <4>1. CASE l = m
        BY <1>3, <3>5, <3>6, <3>7, <4>1
      <4>2. CASE l # m
        BY <1>3, <3>5, <3>6, <3>7, <4>2
      <4> QED  BY <4>1, <4>2
    <3>9. sent' \in 0..MaxCount
      BY <1>3, <3>4, <3>8
    <3>10. DeltasBounded'
      BY <1>2, <1>3, <2>2, <3>1, <3>3, <3>4, <3>8 DEF DeltasBounded
    <3> QED  BY <3>1, <3>9, <3>10
  <2> QED  BY <2>1, <2>2
<1>7. CounterTypes'
  BY <1>1, <1>2, <1>6 DEF CounterTypes
<1> QED  BY <1>5, <1>6, <1>7 DEF DeltaIInv

LEMMA DeltaStep == DeltaIInv /\ [ExporterNext]_exporterVars => DeltaIInv'
<1> SUFFICES ASSUME DeltaIInv, [ExporterNext]_exporterVars PROVE DeltaIInv'
  OBVIOUS
<1>1. ASSUME UNCHANGED <<counterVars, deltaVars>> PROVE DeltaIInv'
  <2>1. /\ counter' = counter /\ total' = total /\ restarts' = restarts /\ stats' = stats
        /\ _previous' = _previous /\ baseline' = baseline /\ sent' = sent /\ Now' = Now
    BY <1>1 DEF counterVars, deltaVars, Now
  <2> QED  BY <2>1 DEF DeltaIInv, CounterTypes, SamplesInOrder, DeltasBounded
<1>2. CASE DaemonLosesStats
  <2>1. /\ counter' = counter /\ total' = total /\ restarts' = restarts /\ stats' = Unreadable
        /\ _previous' = _previous /\ baseline' = baseline /\ sent' = sent /\ Now' = Now
    BY <1>2 DEF DaemonLosesStats, deltaVars, Now
  <2> QED  BY <2>1 DEF DeltaIInv, CounterTypes, SamplesInOrder, DeltasBounded
<1>3. CASE ExporterStart
  <2>1. /\ counter' = counter /\ total' = total /\ restarts' = restarts /\ stats' = stats
        /\ _previous' = NoSample /\ baseline' = NoSample /\ sent' = 0 /\ Now' = Now
    BY <1>3 DEF ExporterStart, counterVars, Now
  <2> QED  BY <2>1, BoundAssumption DEF DeltaIInv, CounterTypes, SamplesInOrder, DeltasBounded
<1>4. CASE WriteHead \/ WriteTail \/ Truncate \/ ExporterStop \/ DrainAlerts
           \/ DrainUnreadable \/ DrainShrunk \/ UNCHANGED exporterVars
  BY <1>1, <1>4 DEF WriteHead, WriteTail, Truncate, ExporterStop, DrainAlerts, Drained,
                    DrainUnreadable, DrainShrunk, exporterVars
<1> QED  BY <1>2, <1>3, <1>4, CountKeeps, RestartKeeps, WritesStatsKeeps, TickKeeps
         DEF ExporterNext

-----------------------------------------------------------------------------
(* Exporter, the alerts.  The operators on the file, as operators of any   *)
(* file f.                                                                 *)

PieceSet == [alert : Alerts, part : {"head", "tail"}]

NewlinesOf(f, from, to) == {i \in (from + 1)..to : f[i].part = "tail"}

WholeAlert(f, from, i, n) ==
    /\ f[i] = Piece(n, "tail")
    /\ i - 1 > from
    /\ f[i - 1] = Piece(n, "head")
    /\ i - 2 > from => f[i - 2].part = "tail"

AlertsOf(f, from, to) ==
    {n \in Alerts : \E i \in NewlinesOf(f, from, to) : WholeAlert(f, from, i, n)}

MalformedOf(f, from, to) ==
    {i \in NewlinesOf(f, from, to) : \A n \in Alerts : ~WholeAlert(f, from, i, n)}

LEMMA OperatorsOfFile ==
    ASSUME NEW from, NEW to
    PROVE  /\ AlertsIn(from, to) = AlertsOf(file, from, to)
           /\ MalformedIn(from, to) = MalformedOf(file, from, to)
           /\ Newlines(from, to) = NewlinesOf(file, from, to)
BY DEF AlertsIn, AlertsOf, MalformedIn, MalformedOf, Newlines, NewlinesOf, IsAlert, WholeAlert

LEMMA PieceFields ==
    ASSUME NEW n, NEW m, NEW x, NEW y
    PROVE  /\ Piece(n, x).alert = n /\ Piece(n, x).part = x
           /\ Piece(n, x) = Piece(m, y) <=> n = m /\ x = y
BY DEF Piece

\* What lies before an offset does not change when the file grows.
LEMMA GrowthKeepsLines ==
    ASSUME NEW f, NEW g, NEW from \in Nat, NEW to \in Nat,
           \A i \in 1..to : g[i] = f[i]
    PROVE  AlertsOf(g, from, to) = AlertsOf(f, from, to)
           /\ MalformedOf(g, from, to) = MalformedOf(f, from, to)
<1>1. NewlinesOf(g, from, to) = NewlinesOf(f, from, to)
  <2>1. \A i \in (from + 1)..to : i \in 1..to
    OBVIOUS
  <2> QED  BY <2>1 DEF NewlinesOf
<1>2. ASSUME NEW i \in NewlinesOf(f, from, to), NEW n
      PROVE  WholeAlert(g, from, i, n) <=> WholeAlert(f, from, i, n)
  <2>1. i \in 1..to /\ i \in Int /\ from < i
    BY DEF NewlinesOf
  <2>2. /\ i - 1 > from => i - 1 \in 1..to
        /\ i - 2 > from => i - 2 \in 1..to
    BY <2>1
  <2> QED  BY <2>1, <2>2 DEF WholeAlert
<1> QED  BY <1>1, <1>2, Zenon DEF AlertsOf, MalformedOf

\* Lines read from the start of a line are the lines of the whole: reading in
\* two chunks counts what reading in one would.
LEMMA ChunksAddUp ==
    ASSUME NEW f, NEW from \in Nat, NEW mid \in Nat, NEW to \in Nat,
           from <= mid, mid <= to, mid = from \/ f[mid].part = "tail"
    PROVE  /\ AlertsOf(f, from, to) = AlertsOf(f, from, mid) \cup AlertsOf(f, mid, to)
           /\ MalformedOf(f, from, to) = MalformedOf(f, from, mid) \cup MalformedOf(f, mid, to)
           /\ MalformedOf(f, from, mid) \cap MalformedOf(f, mid, to) = {}
<1>1. /\ NewlinesOf(f, from, to) = NewlinesOf(f, from, mid) \cup NewlinesOf(f, mid, to)
      /\ NewlinesOf(f, from, mid) \cap NewlinesOf(f, mid, to) = {}
  BY DEF NewlinesOf
<1>2. ASSUME NEW i \in NewlinesOf(f, mid, to), NEW n
      PROVE  WholeAlert(f, from, i, n) <=> WholeAlert(f, mid, i, n)
  <2>1. i \in Nat /\ mid < i
    BY DEF NewlinesOf
  <2>2. CASE mid = from
    BY <2>2
  <2>3. CASE from < mid /\ f[mid].part = "tail"
    <3>1. ASSUME f[i - 1] = Piece(n, "head") PROVE i - 1 # mid
      BY <2>3, <3>1, PieceFields
    <3>2. (f[i - 1] = Piece(n, "head")) => i - 1 > mid
      BY <2>1, <3>1
    <3>3. i - 1 > mid => i - 1 > from /\ (i - 2 = mid \/ i - 2 > mid)
      BY <2>1
    <3>4. i - 2 > mid => i - 2 > from
      BY <2>1
    <3> QED  BY <2>3, <3>2, <3>3, <3>4 DEF WholeAlert
  <2> QED  BY <2>2, <2>3
<1> QED  BY <1>1, <1>2, Zenon DEF AlertsOf, MalformedOf

LEMMA MalformedFinite ==
    ASSUME NEW f, NEW from \in Nat, NEW to \in Nat
    PROVE  IsFiniteSet(MalformedOf(f, from, to)) /\ Cardinality(MalformedOf(f, from, to)) \in Nat
<1>1. IsFiniteSet(from + 1 .. to)
  BY FS_Interval
<1>2. MalformedOf(f, from, to) \subseteq from + 1 .. to
  BY DEF MalformedOf, NewlinesOf
<1> QED  BY <1>1, <1>2, FS_Subset, FS_CardinalityType

\* The end of the last whole line.
LEMMA LastNewlineFacts ==
    ASSUME _alerts_offset \in Nat, Len(file) \in Nat, _alerts_offset <= Len(file)
    PROVE  /\ LastNewline \in Nat
           /\ _alerts_offset <= LastNewline /\ LastNewline <= Len(file)
           /\ LastNewline = _alerts_offset \/ file[LastNewline].part = "tail"
<1> DEFINE ends == Newlines(_alerts_offset, Len(file))
<1>1. \A i \in ends : /\ i \in Nat /\ _alerts_offset < i /\ i <= Len(file)
                      /\ file[i].part = "tail"
  BY DEF Newlines
<1>2. CASE ends = {}
  BY <1>2 DEF LastNewline
<1>3. CASE ends # {}
  <2>1. ends \in SUBSET Nat /\ \A i \in ends : i <= Len(file)
    BY <1>1
  <2> HIDE DEF ends
  <2>2. \E m \in ends : \A i \in ends : i <= m
    BY <1>3, <2>1, Largest
  <2>3. (CHOOSE i \in ends : \A j \in ends : j <= i) \in ends
    BY <2>2, Zenon
  <2>4. LastNewline \in ends
    BY <1>3, <2>3, Zenon DEF LastNewline, ends
  <2> QED  BY <1>1, <2>4
<1> QED  BY <1>2, <1>3

-----------------------------------------------------------------------------
TailTypes ==
    /\ file \in Seq(PieceSet)
    /\ written \in 0..MaxAlerts /\ writing \in BOOLEAN
    /\ ticking \in {"down", "idle", "drain"}
    /\ truncated \in BOOLEAN
    /\ first \in Nat /\ _alerts_offset \in Nat
    /\ ~truncated => first <= _alerts_offset /\ _alerts_offset <= Len(file)
    /\ alerts \in [Alerts -> Nat] /\ malformed \in Nat

\* The daemon has written each piece once and has the tail of no alert that it
\* is still writing.
WrittenOnce ==
    /\ \A i, j \in 1..Len(file) : file[i] = file[j] => i = j
    /\ \A i \in 1..Len(file) : /\ file[i].alert <= written
                               /\ writing => file[i] # Piece(written, "tail")
    /\ writing => written > 0

\* The newline of an alert that was counted has been written, and is not in
\* what is still to be read, not even after the file was truncated.
CountedIsRead ==
    \A n \in Alerts :
       /\ alerts[n] <= 1
       /\ alerts[n] = 1 => /\ n <= written
                           /\ writing => n # written
                           /\ \A i \in 1..Len(file) :
                                 file[i] = Piece(n, "tail") => i <= _alerts_offset

OffsetAtLine ==
    ~truncated => _alerts_offset = first \/ file[_alerts_offset].part = "tail"

CountsWhatIsRead ==
    ~truncated =>
        /\ \A n \in Alerts : alerts[n] = 1 <=> n \in AlertsOf(file, first, _alerts_offset)
        /\ malformed = Cardinality(MalformedOf(file, first, _alerts_offset))

TailIInv == TailTypes /\ WrittenOnce /\ CountedIsRead /\ OffsetAtLine /\ CountsWhatIsRead

LEMMA NothingBetween ==
    ASSUME NEW f, NEW k \in Nat
    PROVE  /\ AlertsOf(f, k, k) = {} /\ MalformedOf(f, k, k) = {}
           /\ Cardinality(MalformedOf(f, k, k)) = 0
<1>1. NewlinesOf(f, k, k) = {}
  BY DEF NewlinesOf
<1>2. AlertsOf(f, k, k) = {} /\ MalformedOf(f, k, k) = {}
  BY <1>1 DEF AlertsOf, MalformedOf
<1> QED  BY <1>2, FS_EmptySet

LEMMA TailInitial == ExporterInit => TailIInv
<1> SUFFICES ASSUME ExporterInit PROVE TailIInv
  OBVIOUS
<1>1. /\ file = << >> /\ Len(file) = 0 /\ 1..Len(file) = {} /\ file \in Seq(PieceSet)
      /\ written = 0 /\ writing = FALSE /\ truncated = FALSE /\ ticking = "down"
      /\ _alerts_offset = 0 /\ first = 0 /\ malformed = 0
      /\ alerts \in [Alerts -> Nat] /\ \A n \in Alerts : alerts[n] = 0
  BY DEF ExporterInit
<1>2. TailTypes /\ WrittenOnce /\ CountedIsRead /\ OffsetAtLine
  <2>0. 0 \in 0..MaxAlerts
    BY BoundAssumption
  <2>1. TailTypes
    <3>1. /\ written \in 0..MaxAlerts /\ first \in Nat /\ _alerts_offset \in Nat /\ malformed \in Nat
          /\ first <= _alerts_offset /\ _alerts_offset <= Len(file)
      BY <1>1, <2>0
    <3>2. ticking \in {"down", "idle", "drain"}
      BY <1>1
    <3> QED  BY <1>1, <3>1, <3>2, Zenon DEF TailTypes
  <2>2. WrittenOnce /\ OffsetAtLine
    BY <1>1 DEF WrittenOnce, OffsetAtLine
  <2>3. \A n \in Alerts : alerts[n] <= 1 /\ alerts[n] # 1
    BY <1>1
  <2> QED  BY <2>1, <2>2, <2>3 DEF CountedIsRead
<1>3. CountsWhatIsRead
  BY <1>1, NothingBetween DEF CountsWhatIsRead
<1> QED  BY <1>2, <1>3 DEF TailIInv

\* The daemon appends a piece that is not in the file yet.
LEMMA AppendKeeps ==
    ASSUME TailIInv, NEW e \in PieceSet, file' = Append(file, e),
           UNCHANGED <<truncated, ticking, drainVars>>,
           written' \in 0..MaxAlerts, writing' \in BOOLEAN, written <= written',
           \A i \in 1..Len(file) : file[i] # e,
           e.alert <= written',
           writing' => written' > written,
           writing' => e # Piece(written', "tail"),
           \A n \in Alerts : alerts[n] = 1 => e # Piece(n, "tail")
    PROVE  TailIInv'
<1> DEFINE l == Len(file)
<1>0. TailTypes /\ WrittenOnce /\ CountedIsRead /\ OffsetAtLine /\ CountsWhatIsRead
  BY DEF TailIInv
<1>1. /\ truncated' = truncated /\ ticking' = ticking /\ _alerts_offset' = _alerts_offset
      /\ first' = first /\ alerts' = alerts /\ malformed' = malformed
  BY DEF drainVars
<1>2. /\ l \in Nat /\ Len(file') = l + 1 /\ file' \in Seq(PieceSet) /\ file'[l + 1] = e
      /\ \A i \in 1..l : file'[i] = file[i]
  BY <1>0 DEF TailTypes
<1>3. written \in Nat /\ written' \in Nat /\ _alerts_offset \in Nat /\ first \in Nat
  BY <1>0, BoundAssumption DEF TailTypes
<1>4. \A i \in 1..Len(file') : i \in 1..l \/ i = l + 1
  BY <1>2
<1>5. TailTypes'
  <2>1. ~truncated => first <= _alerts_offset /\ _alerts_offset <= l + 1
    BY <1>0, <1>2, <1>3 DEF TailTypes
  <2> QED  BY <1>0, <1>1, <1>2, <2>1 DEF TailTypes
<1>6. WrittenOnce'
  <2>1. \A i, j \in 1..Len(file') : file'[i] = file'[j] => i = j
    <3>1. \A i, j \in 1..l : file[i] = file[j] => i = j
      BY <1>0 DEF WrittenOnce
    <3>2. \A i \in 1..l : file'[i] = file[i] /\ file'[i] # e
      BY <1>2
    <3>3. \A i \in 1..Len(file') : i \in 1..l \/ (i = l + 1 /\ file'[i] = e)
      BY <1>2, <1>4
    <3> HIDE DEF l
    <3> SUFFICES ASSUME NEW i \in 1..Len(file'), NEW j \in 1..Len(file'), file'[i] = file'[j]
                 PROVE  i = j
      OBVIOUS
    <3>4. CASE i \in 1..l /\ j \in 1..l
      BY <3>1, <3>2, <3>4
    <3>5. CASE ~(i \in 1..l /\ j \in 1..l)
      BY <3>2, <3>3, <3>5
    <3> QED  BY <3>4, <3>5
  <2>2. ASSUME NEW i \in 1..Len(file')
        PROVE  file'[i].alert <= written' /\ (writing' => file'[i] # Piece(written', "tail"))
    <3>1. CASE i = l + 1
      BY <1>2, <3>1
    <3>2. CASE i \in 1..l
      <4>0. file[i] \in PieceSet
        BY <1>0, <3>2 DEF TailTypes
      <4>1. file'[i] = file[i] /\ file[i].alert \in Nat /\ file[i].alert <= written
        <5>1. file[i].alert \in Nat
          BY <4>0 DEF PieceSet, Alerts
        <5>2. file[i].alert <= written
          BY <1>0, <3>2 DEF WrittenOnce
        <5> QED  BY <1>2, <3>2, <5>1, <5>2
      <4>2. file[i].alert <= written'
        BY <1>3, <4>1
      <4>3. ASSUME writing' PROVE file[i] # Piece(written', "tail")
        BY <1>3, <4>1, <4>3, PieceFields
      <4> QED  BY <4>1, <4>2, <4>3
    <3> QED  BY <1>4, <3>1, <3>2
  <2>3. writing' => written' > 0
    BY <1>3
  <2> QED  BY <2>1, <2>2, <2>3 DEF WrittenOnce
<1>7. CountedIsRead'
  <2> SUFFICES ASSUME NEW n \in Alerts
               PROVE  /\ alerts[n] <= 1
                      /\ alerts[n] = 1 => /\ n <= written'
                                          /\ writing' => n # written'
                                          /\ \A i \in 1..Len(file') :
                                                file'[i] = Piece(n, "tail") => i <= _alerts_offset
    BY <1>1 DEF CountedIsRead
  <2>1. alerts[n] <= 1
    BY <1>0 DEF CountedIsRead
  <2>2. n \in Nat
    BY DEF Alerts
  <2>3. ASSUME alerts[n] = 1
        PROVE  /\ n <= written' /\ (writing' => n # written')
               /\ \A i \in 1..Len(file') : file'[i] = Piece(n, "tail") => i <= _alerts_offset
    <3>1. /\ n <= written
          /\ \A i \in 1..l : file[i] = Piece(n, "tail") => i <= _alerts_offset
      BY <1>0, <2>3 DEF CountedIsRead
    <3>2. n <= written' /\ (writing' => n # written')
      BY <1>3, <2>2, <3>1
    <3>3. e # Piece(n, "tail")
      BY <2>3
    <3> QED  BY <1>2, <1>4, <3>1, <3>2, <3>3
  <2> QED  BY <2>1, <2>3
<1>8. ASSUME ~truncated
      PROVE  /\ _alerts_offset = first \/ file'[_alerts_offset].part = "tail"
             /\ AlertsOf(file', first, _alerts_offset) = AlertsOf(file, first, _alerts_offset)
             /\ MalformedOf(file', first, _alerts_offset) = MalformedOf(file, first, _alerts_offset)
  <2>1. first <= _alerts_offset /\ _alerts_offset <= l
    BY <1>0, <1>8 DEF TailTypes
  <2>2. \A i \in 1.._alerts_offset : file'[i] = file[i]
    BY <1>2, <1>3, <2>1
  <2>3. _alerts_offset = first \/ _alerts_offset \in 1.._alerts_offset
    BY <1>3, <2>1
  <2>4. _alerts_offset = first \/ file'[_alerts_offset].part = "tail"
    BY <1>0, <1>8, <2>2, <2>3 DEF OffsetAtLine
  <2>5. /\ AlertsOf(file', first, _alerts_offset) = AlertsOf(file, first, _alerts_offset)
        /\ MalformedOf(file', first, _alerts_offset) = MalformedOf(file, first, _alerts_offset)
    <3>1. first \in Nat /\ _alerts_offset \in Nat
      BY <1>3
    <3> QED  BY <2>2, <3>1, GrowthKeepsLines
  <2> QED  BY <2>4, <2>5
<1>9. OffsetAtLine' /\ CountsWhatIsRead'
  <2>1. CASE truncated
    BY <1>1, <2>1 DEF OffsetAtLine, CountsWhatIsRead
  <2>2. CASE ~truncated
    <3>1. OffsetAtLine'
      BY <1>1, <1>8, <2>2 DEF OffsetAtLine
    <3>2. CountsWhatIsRead'
      BY <1>0, <1>1, <1>8, <2>2 DEF CountsWhatIsRead
    <3> QED  BY <3>1, <3>2
  <2> QED  BY <2>1, <2>2
<1> QED  BY <1>5, <1>6, <1>7, <1>9 DEF TailIInv

LEMMA WriteHeadKeeps == ASSUME TailIInv, WriteHead PROVE TailIInv'
<1> DEFINE e == Piece(written + 1, "head")
<1>0. TailTypes /\ WrittenOnce /\ CountedIsRead
  BY DEF TailIInv
<1>1. /\ written \in Nat /\ written < MaxAlerts /\ MaxAlerts \in Nat
      /\ written' = written + 1 /\ writing' = TRUE /\ file' = Append(file, e)
      /\ UNCHANGED <<truncated, ticking, drainVars>>
  BY <1>0, BoundAssumption DEF WriteHead, TailTypes
<1>2. e \in PieceSet /\ e.alert = written + 1 /\ \A n : e # Piece(n, "tail")
  BY <1>1 DEF PieceSet, Alerts, Piece
<1>3. \A i \in 1..Len(file) : file[i] # e
  BY <1>0, <1>1, <1>2 DEF WrittenOnce
<1> HIDE DEF e
<1>4. /\ written' \in 0..MaxAlerts /\ written <= written' /\ written' > written
      /\ e.alert <= written'
  BY <1>1, <1>2
<1> QED  BY <1>1, <1>2, <1>3, <1>4, AppendKeeps

LEMMA WriteTailKeeps == ASSUME TailIInv, WriteTail PROVE TailIInv'
<1> DEFINE e == Piece(written, "tail")
<1>0. TailTypes /\ WrittenOnce /\ CountedIsRead
  BY DEF TailIInv
<1>1. /\ written \in 0..MaxAlerts /\ written \in Nat /\ written > 0 /\ MaxAlerts \in Nat
      /\ written' = written /\ writing /\ writing' = FALSE /\ file' = Append(file, e)
      /\ UNCHANGED <<truncated, ticking, drainVars>>
  BY <1>0, BoundAssumption DEF WriteTail, TailTypes, WrittenOnce
<1>2. e \in PieceSet /\ e.alert = written
  BY <1>1 DEF PieceSet, Alerts, Piece
<1>3. \A i \in 1..Len(file) : file[i] # e
  BY <1>0, <1>1 DEF WrittenOnce
<1>4. \A n \in Alerts : alerts[n] = 1 => e # Piece(n, "tail")
  <2>1. \A n \in Alerts : alerts[n] = 1 => n # written
    BY <1>0, <1>1 DEF CountedIsRead
  <2> QED  BY <2>1, PieceFields
<1> HIDE DEF e
<1>5. written <= written' /\ e.alert <= written'
  BY <1>1, <1>2
<1> QED  BY <1>1, <1>2, <1>3, <1>4, <1>5, AppendKeeps

LEMMA TruncateKeeps == ASSUME TailIInv, Truncate PROVE TailIInv'
<1>0. TailTypes /\ WrittenOnce /\ CountedIsRead
  BY DEF TailIInv
<1>1. /\ file' = << >> /\ truncated' = TRUE /\ 1..Len(file') = {} /\ file' \in Seq(PieceSet)
      /\ written' = written /\ writing' = writing /\ ticking' = ticking
      /\ _alerts_offset' = _alerts_offset /\ first' = first
      /\ alerts' = alerts /\ malformed' = malformed
  BY DEF Truncate, drainVars
<1>2. TailTypes'
  BY <1>0, <1>1 DEF TailTypes
<1>3. WrittenOnce' /\ CountedIsRead'
  BY <1>0, <1>1 DEF WrittenOnce, CountedIsRead
<1>4. OffsetAtLine' /\ CountsWhatIsRead'
  BY <1>1 DEF OffsetAtLine, CountsWhatIsRead
<1> QED  BY <1>2, <1>3, <1>4 DEF TailIInv

\* A restart of the daemon leaves the file as it is.
LEMMA RestartKeepsTail == ASSUME TailIInv, DaemonRestart PROVE TailIInv'
<1>0. TailTypes /\ WrittenOnce /\ CountedIsRead /\ OffsetAtLine /\ CountsWhatIsRead
  BY DEF TailIInv
<1>1. /\ file' = file /\ truncated' = truncated /\ written' = written /\ writing' = FALSE
      /\ ticking' = ticking /\ _alerts_offset' = _alerts_offset /\ first' = first
      /\ alerts' = alerts /\ malformed' = malformed
  BY DEF DaemonRestart, drainVars
<1>2. TailTypes'
  BY <1>0, <1>1 DEF TailTypes
<1>3. WrittenOnce' /\ CountedIsRead'
  BY <1>0, <1>1 DEF WrittenOnce, CountedIsRead
<1>4. OffsetAtLine' /\ CountsWhatIsRead'
  BY <1>0, <1>1 DEF OffsetAtLine, CountsWhatIsRead
<1> QED  BY <1>2, <1>3, <1>4 DEF TailIInv

LEMMA StartKeeps == ASSUME TailIInv, ExporterStart PROVE TailIInv'
<1>0. TailTypes /\ WrittenOnce
  BY DEF TailIInv
<1>1. /\ file' = file /\ truncated' = truncated /\ written' = written /\ writing' = writing
      /\ ticking' = "idle" /\ _alerts_offset' = Len(file) /\ first' = Len(file)
      /\ alerts' = [n \in Alerts |-> 0] /\ malformed' = 0 /\ Len(file) \in Nat
  BY <1>0 DEF ExporterStart, alertFileVars, TailTypes
<1>2. TailTypes'
  BY <1>0, <1>1 DEF TailTypes
<1>3. WrittenOnce' /\ CountedIsRead'
  BY <1>0, <1>1 DEF WrittenOnce, CountedIsRead
<1>4. OffsetAtLine'
  BY <1>1 DEF OffsetAtLine
<1>5. CountsWhatIsRead'
  <2>1. /\ AlertsOf(file', Len(file), Len(file)) = {}
        /\ Cardinality(MalformedOf(file', Len(file), Len(file))) = 0
    BY <1>1, NothingBetween
  <2> QED  BY <1>1, <2>1 DEF CountsWhatIsRead
<1> QED  BY <1>2, <1>3, <1>4, <1>5 DEF TailIInv

LEMMA ShrunkKeeps == ASSUME TailIInv, DrainShrunk PROVE TailIInv'
<1>0. TailTypes /\ WrittenOnce /\ CountedIsRead
  BY DEF TailIInv
<1>1. /\ file' = file /\ truncated' = truncated /\ written' = written /\ writing' = writing
      /\ ticking' = "idle" /\ _alerts_offset' = Len(file) /\ first' = first
      /\ alerts' = alerts /\ malformed' = malformed
      /\ Len(file) \in Nat /\ Len(file) < _alerts_offset /\ _alerts_offset \in Nat
  BY <1>0 DEF DrainShrunk, alertFileVars, TailTypes
<1>2. truncated
  BY <1>0, <1>1 DEF TailTypes
<1>3. TailTypes'
  BY <1>0, <1>1, <1>2 DEF TailTypes
<1>4. WrittenOnce' /\ CountedIsRead'
  BY <1>0, <1>1 DEF WrittenOnce, CountedIsRead
<1>5. OffsetAtLine' /\ CountsWhatIsRead'
  BY <1>1, <1>2 DEF OffsetAtLine, CountsWhatIsRead
<1> QED  BY <1>3, <1>4, <1>5 DEF TailIInv

\* The alerts of the next chunk have not been counted yet.
LEMMA DrainKeeps == ASSUME TailIInv, DrainAlerts PROVE TailIInv'
<1> DEFINE off == _alerts_offset
           to == LastNewline
           new == AlertsOf(file, off, to)
           bad == MalformedOf(file, off, to)
<1>0. TailTypes /\ WrittenOnce /\ CountedIsRead /\ OffsetAtLine /\ CountsWhatIsRead
  BY DEF TailIInv
<1>1. /\ file' = file /\ truncated' = truncated /\ written' = written /\ writing' = writing
      /\ ticking' = "idle" /\ _alerts_offset' = to /\ first' = first
      /\ Len(file) >= off
  BY DEF DrainAlerts, Drained, alertFileVars
<1>2. /\ alerts' = [n \in Alerts |-> IF n \in new THEN alerts[n] + 1 ELSE alerts[n]]
      /\ malformed' = malformed + Cardinality(bad)
  BY OperatorsOfFile DEF DrainAlerts, Drained
<1>3. /\ off \in Nat /\ first \in Nat /\ Len(file) \in Nat /\ off <= Len(file)
      /\ malformed \in Nat /\ alerts \in [Alerts -> Nat] /\ file \in Seq(PieceSet)
      /\ written \in Nat
  BY <1>0, <1>1, BoundAssumption DEF TailTypes
<1>4. to \in Nat /\ off <= to /\ to <= Len(file) /\ (to = off \/ file[to].part = "tail")
  BY <1>3, LastNewlineFacts
<1> HIDE DEF to
<1>5. ASSUME NEW n \in new
      PROVE  \E i \in 1..Len(file) : off < i /\ i <= to /\ file[i] = Piece(n, "tail")
  <2>1. PICK i \in NewlinesOf(file, off, to) : WholeAlert(file, off, i, n)
    BY DEF AlertsOf
  <2>2. i \in 1..Len(file) /\ off < i /\ i <= to
    BY <1>3, <1>4 DEF NewlinesOf
  <2> QED  BY <2>1, <2>2 DEF WholeAlert
<1>6. \A n \in new : n \in Alerts /\ alerts[n] = 0
  <2> SUFFICES ASSUME NEW n \in new PROVE n \in Alerts /\ alerts[n] = 0
    OBVIOUS
  <2>1. n \in Alerts
    BY DEF AlertsOf
  <2>2. PICK i \in 1..Len(file) : off < i /\ file[i] = Piece(n, "tail")
    BY <1>5
  <2>3. alerts[n] # 1
    BY <1>0, <1>3, <2>1, <2>2 DEF CountedIsRead
  <2>4. alerts[n] \in Nat /\ alerts[n] <= 1
    BY <1>0, <1>3, <2>1 DEF CountedIsRead
  <2> QED  BY <2>1, <2>3, <2>4
<1> HIDE DEF new
<1>7. \A n \in Alerts : alerts'[n] = IF n \in new THEN 1 ELSE alerts[n]
  BY <1>2, <1>6
<1>8. Cardinality(bad) \in Nat /\ IsFiniteSet(bad)
  BY <1>3, <1>4, MalformedFinite
<1>9. TailTypes'
  <2>1. alerts' \in [Alerts -> Nat]
    BY <1>2, <1>3
  <2>2. malformed' \in Nat
    BY <1>2, <1>3, <1>8
  <2>3. ~truncated => first <= to /\ to <= Len(file)
    BY <1>0, <1>3, <1>4 DEF TailTypes
  <2> QED  BY <1>0, <1>1, <1>4, <2>1, <2>2, <2>3 DEF TailTypes
<1>10. WrittenOnce'
  BY <1>0, <1>1 DEF WrittenOnce
<1>11. CountedIsRead'
  <2> SUFFICES ASSUME NEW n \in Alerts
               PROVE  /\ alerts'[n] <= 1
                      /\ alerts'[n] = 1 => /\ n <= written
                                           /\ writing => n # written
                                           /\ \A i \in 1..Len(file) :
                                                 file[i] = Piece(n, "tail") => i <= to
    BY <1>1 DEF CountedIsRead
  <2>1. CASE n \in new
    <3>1. alerts'[n] = 1
      BY <1>7, <2>1
    <3>2. PICK i \in 1..Len(file) : off < i /\ i <= to /\ file[i] = Piece(n, "tail")
      BY <1>5, <2>1
    <3>3. n <= written /\ (writing => n # written)
      <4>1. file[i].alert <= written /\ (writing => file[i] # Piece(written, "tail"))
        BY <1>0, <3>2 DEF WrittenOnce
      <4>2. file[i].alert = n /\ (file[i] = Piece(written, "tail") <=> n = written)
        BY <3>2, PieceFields
      <4> QED  BY <4>1, <4>2
    <3>4. \A j \in 1..Len(file) : file[j] = Piece(n, "tail") => j <= to
      BY <1>0, <3>2 DEF WrittenOnce
    <3> QED  BY <3>1, <3>3, <3>4
  <2>2. CASE n \notin new
    <3>1. alerts'[n] = alerts[n]
      BY <1>7, <2>2
    <3>2. \A i \in 1..Len(file) : i <= off => i <= to
      BY <1>3, <1>4
    <3> QED  BY <1>0, <3>1, <3>2 DEF CountedIsRead
  <2> QED  BY <2>1, <2>2
<1>12. ASSUME ~truncated
       PROVE  /\ to = first \/ file[to].part = "tail"
              /\ \A n \in Alerts : alerts'[n] = 1 <=> n \in AlertsOf(file, first, to)
              /\ malformed' = Cardinality(MalformedOf(file, first, to))
  <2>1. first <= off /\ (off = first \/ file[off].part = "tail")
    BY <1>0, <1>12 DEF TailTypes, OffsetAtLine
  <2>2. /\ \A n \in Alerts : alerts[n] = 1 <=> n \in AlertsOf(file, first, off)
        /\ malformed = Cardinality(MalformedOf(file, first, off))
    BY <1>0, <1>12 DEF CountsWhatIsRead
  <2>3. to = first \/ file[to].part = "tail"
    BY <1>4, <2>1
  <2>4. /\ AlertsOf(file, first, to) = AlertsOf(file, first, off) \cup new
        /\ MalformedOf(file, first, to) = MalformedOf(file, first, off) \cup bad
        /\ MalformedOf(file, first, off) \cap bad = {}
    <3>1. off \in Nat /\ first \in Nat
      BY <1>3
    <3> QED  BY <1>4, <2>1, <3>1, ChunksAddUp DEF new
  <2>5. \A n \in Alerts : alerts'[n] = 1 <=> n \in AlertsOf(file, first, to)
    BY <1>7, <2>2, <2>4
  <2>6. malformed' = Cardinality(MalformedOf(file, first, to))
    <3> DEFINE old == MalformedOf(file, first, off)
    <3>1. IsFiniteSet(old) /\ Cardinality(old) \in Nat
      BY <1>3, MalformedFinite
    <3> HIDE DEF old, bad
    <3>2. Cardinality(old \cup bad) = Cardinality(old) + Cardinality(bad) - Cardinality(old \cap bad)
      BY <1>8, <3>1, FS_Union
    <3>3. old \cap bad = {} /\ Cardinality(old \cap bad) = 0
      BY <2>4, FS_EmptySet DEF old
    <3>4. Cardinality(old \cup bad) = Cardinality(old) + Cardinality(bad)
      BY <1>8, <3>1, <3>2, <3>3
    <3> QED  BY <1>2, <2>2, <2>4, <3>4 DEF old
  <2> QED  BY <2>3, <2>5, <2>6
<1>13. OffsetAtLine' /\ CountsWhatIsRead'
  <2>1. CASE truncated
    BY <1>1, <2>1 DEF OffsetAtLine, CountsWhatIsRead
  <2>2. CASE ~truncated
    BY <1>1, <1>12, <2>2 DEF OffsetAtLine, CountsWhatIsRead
  <2> QED  BY <2>1, <2>2
<1> QED  BY <1>9, <1>10, <1>11, <1>13 DEF TailIInv

LEMMA TailStep == TailIInv /\ [ExporterNext]_exporterVars => TailIInv'
<1> SUFFICES ASSUME TailIInv, [ExporterNext]_exporterVars PROVE TailIInv'
  OBVIOUS
<1>1. ASSUME UNCHANGED <<alertFileVars, drainVars>>, ticking' \in {"down", "idle", "drain"}
      PROVE  TailIInv'
  <2>1. /\ file' = file /\ truncated' = truncated /\ written' = written /\ writing' = writing
        /\ _alerts_offset' = _alerts_offset /\ first' = first
        /\ alerts' = alerts /\ malformed' = malformed
    BY <1>1 DEF alertFileVars, drainVars
  <2>2. TailTypes'
    BY <1>1, <2>1 DEF TailIInv, TailTypes
  <2>3. WrittenOnce' /\ CountedIsRead'
    BY <2>1 DEF TailIInv, WrittenOnce, CountedIsRead
  <2>4. OffsetAtLine' /\ CountsWhatIsRead'
    BY <2>1 DEF TailIInv, OffsetAtLine, CountsWhatIsRead
  <2> QED  BY <2>2, <2>3, <2>4 DEF TailIInv
<1>2. ticking \in {"down", "idle", "drain"}
  BY DEF TailIInv, TailTypes
<1>3. CASE Count \/ DaemonWritesStats \/ DaemonLosesStats \/ UNCHANGED exporterVars
  BY <1>1, <1>2, <1>3 DEF Count, DaemonWritesStats, DaemonLosesStats, exporterVars
<1>4. CASE ExporterStop \/ TickCounters \/ DrainUnreadable
  BY <1>1, <1>4 DEF ExporterStop, TickCounters, DrainUnreadable
<1> QED  BY <1>3, <1>4, WriteHeadKeeps, WriteTailKeeps, TruncateKeeps, RestartKeepsTail,
            StartKeeps, ShrunkKeeps, DrainKeeps DEF ExporterNext

\* For any number of restarts of the daemon between two ticks: the deltas sent
\* for a counter never add up to more than the daemon counted between the first
\* and the last sample, and to exactly that within one life of it.
THEOREM DeltasExact == ExporterSpec => []DeltasAddUp
<1>1. DeltaIInv /\ TailIInv => DeltasAddUp
  <2> SUFFICES ASSUME DeltaIInv, TailIInv PROVE DeltasAddUp
    OBVIOUS
  <2>1. ExporterTypeOK
    BY DEF DeltaIInv, TailIInv, CounterTypes, TailTypes, ExporterTypeOK, PieceSet
  <2> QED  BY <2>1 DEF DeltaIInv, DeltasBounded, DeltasAddUp
<1> QED  BY <1>1, DeltaInitial, DeltaStep, TailInitial, TailStep, PTL DEF ExporterSpec

\* _drain_alerts counts each alert whose line it has passed exactly once, and
\* each other line as malformed, over torn and glued lines and restarts of both
\* sides; after a truncation no alert is counted twice.
THEOREM AlertsCountedOnce == ExporterSpec => []EachAlertCountedOnce
<1>1. TailIInv => EachAlertCountedOnce
  <2> SUFFICES ASSUME TailIInv PROVE EachAlertCountedOnce
    OBVIOUS
  <2>1. \A n \in Alerts : alerts[n] <= 1
    BY DEF TailIInv, CountedIsRead
  <2>2. /\ AlertsIn(first, _alerts_offset) = AlertsOf(file, first, _alerts_offset)
        /\ MalformedIn(first, _alerts_offset) = MalformedOf(file, first, _alerts_offset)
    BY OperatorsOfFile
  <2> QED  BY <2>1, <2>2, Zenon DEF TailIInv, CountsWhatIsRead, EachAlertCountedOnce
<1> QED  BY <1>1, TailInitial, TailStep, PTL DEF ExporterSpec

-----------------------------------------------------------------------------
(* FaultInjector.  Within a stream, messages and indexes count each other: *)
(* IndexOf grows with the message, and Idx is its inverse.                 *)

\* The messages of stream s among the first g.
Among(s, g) == {h \in 1..g : input[h] = s}
CountTo(s, g) == Cardinality(Among(s, g))

Inputs == {a \in Seq(Streams) : Len(a) <= MaxMessages}

LEMMA AmongFinite ==
    ASSUME NEW s, NEW g \in Nat
    PROVE  IsFiniteSet(Among(s, g)) /\ CountTo(s, g) \in Nat
<1>1. IsFiniteSet(1..g)
  <2>1. 1 \in Int /\ g \in Int
    OBVIOUS
  <2> QED  BY <2>1, FS_Interval
<1>2. Among(s, g) \subseteq 1..g
  BY DEF Among
<1>3. IsFiniteSet(Among(s, g))
  BY <1>1, <1>2, FS_Subset
<1> QED  BY <1>3, FS_CardinalityType DEF CountTo

LEMMA CountStep ==
    ASSUME NEW s, NEW g \in Nat
    PROVE  CountTo(s, g + 1) = CountTo(s, g) + (IF input[g + 1] = s THEN 1 ELSE 0)
<1>1. CASE input[g + 1] = s
  <2>1. Among(s, g + 1) = Among(s, g) \cup {g + 1} /\ g + 1 \notin Among(s, g)
    BY <1>1 DEF Among
  <2>2. Cardinality(Among(s, g) \cup {g + 1}) = Cardinality(Among(s, g)) + 1
    BY <2>1, AmongFinite, FS_AddElement
  <2> QED  BY <1>1, <2>1, <2>2 DEF CountTo
<1>2. CASE input[g + 1] # s
  <2>1. Among(s, g + 1) = Among(s, g)
    BY <1>2 DEF Among
  <2> QED  BY <1>2, <2>1, AmongFinite DEF CountTo
<1> QED  BY <1>1, <1>2

LEMMA CountGrows ==
    ASSUME NEW s, NEW g \in Nat, NEW h \in Nat, g <= h
    PROVE  CountTo(s, g) <= CountTo(s, h)
<1>1. Among(s, g) \subseteq Among(s, h)
  BY DEF Among
<1>2. IsFiniteSet(Among(s, h))
  BY AmongFinite
<1> QED  BY <1>1, <1>2, FS_Subset DEF CountTo

LEMMA CountNone == ASSUME NEW s PROVE CountTo(s, 0) = 0
<1>1. Among(s, 0) = {}
  BY DEF Among
<1> QED  BY <1>1, FS_EmptySet DEF CountTo

\* The model's counts.
LEMMA IndexIsCount ==
    ASSUME input \in Inputs
    PROVE  /\ \A g : IndexOf(g) = CountTo(input[g], g - 1)
           /\ \A s : Length(s) = CountTo(s, Len(input))
           /\ DOMAIN input = 1..Len(input) /\ Len(input) \in Nat
<1>1. DOMAIN input = 1..Len(input) /\ Len(input) \in Nat
  BY DEF Inputs
<1> QED  BY <1>1 DEF IndexOf, Length, CountTo, Among

LEMMA IndexBound ==
    ASSUME input \in Inputs, NEW g \in DOMAIN input
    PROVE  IndexOf(g) \in Nat /\ IndexOf(g) < Length(input[g])
<1> DEFINE s == input[g]
           n == Len(input)
<1>1. n \in Nat /\ g \in 1..n /\ g - 1 \in Nat /\ g \in Nat /\ (g - 1) + 1 = g
  BY IndexIsCount
<1>2. IndexOf(g) = CountTo(s, g - 1) /\ Length(s) = CountTo(s, n)
  BY IndexIsCount
<1>3. CountTo(s, (g - 1) + 1) = CountTo(s, g - 1) + (IF input[(g - 1) + 1] = s THEN 1 ELSE 0)
  BY <1>1, CountStep
<1>4. CountTo(s, g) <= CountTo(s, n)
  BY <1>1, CountGrows
<1>5. CountTo(s, g) \in Nat /\ CountTo(s, g - 1) \in Nat /\ CountTo(s, n) \in Nat
  BY <1>1, AmongFinite
<1>6. CountTo(s, g) = CountTo(s, g - 1) + 1
  BY <1>1, <1>3
<1> QED  BY <1>2, <1>4, <1>5, <1>6

\* Later messages of a stream have higher indexes.
LEMMA IndexGrows ==
    ASSUME input \in Inputs, NEW g \in DOMAIN input, NEW h \in DOMAIN input,
           input[g] = input[h]
    PROVE  g <= h <=> IndexOf(g) <= IndexOf(h)
<1>1. \A x \in DOMAIN input, y \in DOMAIN input :
         input[x] = input[y] /\ x < y => IndexOf(x) < IndexOf(y)
  <2> SUFFICES ASSUME NEW x \in DOMAIN input, NEW y \in DOMAIN input,
                      input[x] = input[y], x < y
               PROVE  IndexOf(x) < IndexOf(y)
    OBVIOUS
  <2> DEFINE s == input[x]
  <2>1. x \in Nat /\ y \in Nat /\ x - 1 \in Nat /\ y - 1 \in Nat /\ x <= y - 1 /\ (x - 1) + 1 = x
    BY IndexIsCount
  <2>2. IndexOf(x) = CountTo(s, x - 1) /\ IndexOf(y) = CountTo(s, y - 1)
    BY IndexIsCount
  <2>3. CountTo(s, (x - 1) + 1) = CountTo(s, x - 1) + (IF input[(x - 1) + 1] = s THEN 1 ELSE 0)
    BY <2>1, CountStep
  <2>4. CountTo(s, x) <= CountTo(s, y - 1)
    BY <2>1, CountGrows
  <2>5. CountTo(s, x) \in Nat /\ CountTo(s, x - 1) \in Nat /\ CountTo(s, y - 1) \in Nat
    BY <2>1, AmongFinite
  <2>6. CountTo(s, x) = CountTo(s, x - 1) + 1
    BY <2>1, <2>3
  <2> QED  BY <2>2, <2>4, <2>5, <2>6
<1>2. g \in Nat /\ h \in Nat /\ IndexOf(g) \in Nat /\ IndexOf(h) \in Nat
  BY IndexIsCount, IndexBound
<1>3. g < h => IndexOf(g) < IndexOf(h)
  BY <1>1
<1>4. h < g => IndexOf(h) < IndexOf(g)
  BY <1>1
<1>5. g = h => IndexOf(g) = IndexOf(h)
  OBVIOUS
<1> QED  BY <1>2, <1>3, <1>4, <1>5

\* Every index below the length is that of a message.
LEMMA IdxExists ==
    ASSUME input \in Inputs, NEW s, NEW j \in Nat, j < Length(s)
    PROVE  Idx(s, j) \in DOMAIN input /\ input[Idx(s, j)] = s /\ IndexOf(Idx(s, j)) = j
<1> DEFINE n == Len(input)
           T == {g \in Nat : CountTo(s, g) >= j + 1}
<1>1. n \in Nat /\ Length(s) = CountTo(s, n) /\ DOMAIN input = 1..n
  BY IndexIsCount
<1>2. CountTo(s, n) \in Nat
  BY <1>1, AmongFinite
<1>3. n \in T
  BY <1>1, <1>2
<1>4. PICK g \in T : \A h \in T : g <= h
  BY <1>3, Least
<1>5. g <= n /\ g \in Nat /\ CountTo(s, g) >= j + 1
  BY <1>3, <1>4
<1>6. g # 0
  <2>1. CountTo(s, 0) = 0
    BY CountNone
  <2> QED  BY <1>5, <2>1
<1>7. g - 1 \in Nat /\ (g - 1) + 1 = g
  BY <1>5, <1>6
<1>8. g - 1 \notin T
  BY <1>4, <1>5, <1>7
<1>9. CountTo(s, g - 1) \in Nat /\ CountTo(s, g - 1) < j + 1
  BY <1>7, <1>8, AmongFinite
<1>10. CountTo(s, (g - 1) + 1) = CountTo(s, g - 1) + (IF input[(g - 1) + 1] = s THEN 1 ELSE 0)
  BY <1>7, CountStep
<1>11. input[g] = s /\ CountTo(s, g - 1) = j
  <2>1. CountTo(s, g) = CountTo(s, g - 1) + (IF input[g] = s THEN 1 ELSE 0)
    BY <1>7, <1>10
  <2> QED  BY <1>5, <1>9, <2>1
<1>12. g \in DOMAIN input /\ IndexOf(g) = j
  <2>1. IndexOf(g) = CountTo(s, g - 1)
    BY <1>11, IndexIsCount
  <2>2. g \in 1..n
    BY <1>1, <1>5, <1>6
  <2> QED  BY <1>1, <1>11, <2>1, <2>2
<1>13. \E x \in DOMAIN input : input[x] = s /\ IndexOf(x) = j
  BY <1>11, <1>12
<1> QED  BY <1>13, Zenon DEF Idx

-----------------------------------------------------------------------------
(* The faults applied so far say what every message is.                    *)

\* A fault that had an effect, with its onset.
Faults == [type : Types, stream_id : Streams, onset_index : Nat, duration : Nat \ {0}]
Labels == [stream_id : Streams, type : Types, start : Nat, end : Nat]

\* Label l brackets the samples of fault f.
Brackets(l, f) ==
    /\ l.stream_id = f.stream_id
    /\ \A g \in DOMAIN input :
          input[g] = l.stream_id =>
             (IndexOf(g) - f.onset_index \in 0..(f.duration - 1) <=> g \in l.start..l.end)

AppliedIInv ==
    /\ input \in Inputs
    /\ applied \in Seq(Faults)
    /\ \A k \in 1..Len(applied) : applied[k].onset_index < Length(applied[k].stream_id)
    /\ taken \in 0..MaxSpecs /\ Len(applied) <= taken
    /\ labels \in Seq(Labels) /\ Len(labels) = Len(applied)
    /\ \A k \in 1..Len(labels) : Brackets(labels[k], applied[k])
    /\ DOMAIN value = DOMAIN input
    /\ ValuesMatchReference

\* What a fault of type t with this onset and duration makes of message g.
Made(t, s, onset, duration, g) ==
    CASE t = "spike" -> Value("spike", g, 1, 1)
      [] t = "drift" -> Value("drift", g, IndexOf(g) - onset + 1, duration)
      [] OTHER -> Original(Idx(s, onset))

LEMMA CoveredIndex ==
    ASSUME input \in Inputs, NEW f \in Faults, f.onset_index < Length(f.stream_id),
           NEW g \in DOMAIN input, input[g] = f.stream_id
    PROVE  IndexOf(g) \in f.onset_index..LastIndex(f, f.onset_index)
              <=> IndexOf(g) - f.onset_index \in 0..(f.duration - 1)
<1>1. IndexOf(g) \in Nat /\ IndexOf(g) < Length(f.stream_id)
  BY IndexBound
<1>2. f.onset_index \in Nat /\ f.duration \in Nat /\ Length(f.stream_id) \in Nat
  <2>1. Len(input) \in Nat /\ Length(f.stream_id) = CountTo(f.stream_id, Len(input))
    BY IndexIsCount
  <2> QED  BY <2>1, AmongFinite DEF Faults
<1> QED  BY <1>1, <1>2 DEF LastIndex

LEMMA LabelBrackets ==
    ASSUME input \in Inputs, NEW f \in Faults, f.onset_index < Length(f.stream_id),
           NEW l, l = [stream_id |-> f.stream_id, type |-> f.type,
                       start |-> Idx(f.stream_id, f.onset_index),
                       end |-> Idx(f.stream_id, LastIndex(f, f.onset_index))]
    PROVE  l \in Labels /\ Brackets(l, f)
<1> DEFINE s == f.stream_id
           on == f.onset_index
           last == LastIndex(f, on)
           a == Idx(s, on)
           b == Idx(s, last)
<1>1. on \in Nat /\ f.duration \in Nat \ {0} /\ Length(s) \in Nat /\ on < Length(s)
      /\ s \in Streams /\ f.type \in Types
  <2>1. Len(input) \in Nat /\ Length(s) = CountTo(s, Len(input))
    BY IndexIsCount
  <2> QED  BY <2>1, AmongFinite DEF Faults
<1>2. last \in Nat /\ last < Length(s)
  BY <1>1 DEF LastIndex
<1> HIDE DEF last, on
<1>3. a \in DOMAIN input /\ input[a] = s /\ IndexOf(a) = on
  BY <1>1, IdxExists
<1>4. b \in DOMAIN input /\ input[b] = s /\ IndexOf(b) = last
  BY <1>2, IdxExists
<1>5. \A g \in DOMAIN input : g \in Nat
  BY IndexIsCount
<1> HIDE DEF a, b, s
<1>6. l = [stream_id |-> s, type |-> f.type, start |-> a, end |-> b]
  BY DEF s, a, b, on, last
<1>7. l.stream_id = s /\ l.start = a /\ l.end = b
  BY <1>6
<1>8. l \in Labels
  BY <1>1, <1>3, <1>4, <1>5, <1>6 DEF Labels
<1>9. ASSUME NEW g \in DOMAIN input, input[g] = s
      PROVE  IndexOf(g) - on \in 0..(f.duration - 1) <=> g \in a..b
  <2>1. IndexOf(g) \in on..last <=> IndexOf(g) - on \in 0..(f.duration - 1)
    BY <1>1, <1>9, CoveredIndex DEF s, on, last
  <2>2. a <= g <=> on <= IndexOf(g)
    BY <1>3, <1>9, IndexGrows
  <2>3. g <= b <=> IndexOf(g) <= last
    BY <1>4, <1>9, IndexGrows
  <2>4. IndexOf(g) \in Nat /\ g \in Nat /\ a \in Nat /\ b \in Nat
    BY <1>3, <1>4, <1>5, IndexBound
  <2> QED  BY <1>1, <1>2, <2>1, <2>2, <2>3, <2>4
<1> QED  BY <1>7, <1>8, <1>9 DEF Brackets, s, on

\* The reference, unfolded: without a changing fault, and with the last of them.
LEMMA ReferenceNone ==
    ASSUME NEW g, Changing(g) = {}
    PROVE  Reference(g) = Original(g)
BY DEF Reference

LEMMA ReferenceLast ==
    ASSUME NEW g, NEW k \in Changing(g), \A l \in Changing(g) : l <= k,
           \A l \in Changing(g) : l \in Nat
    PROVE  Reference(g) = Made(applied[k].type, input[g], applied[k].onset_index,
                               applied[k].duration, g)
<1>1. (CHOOSE j \in Changing(g) : \A l \in Changing(g) : l <= j) = k
  <2> DEFINE j == CHOOSE j \in Changing(g) : \A l \in Changing(g) : l <= j
  <2>1. j \in Changing(g) /\ \A l \in Changing(g) : l <= j
    BY Zenon
  <2> HIDE DEF j
  <2>2. j <= k /\ k <= j /\ j \in Nat /\ k \in Nat
    BY <2>1
  <2>3. j = k
    BY <2>2
  <2> QED  BY <2>3 DEF j
<1>2. Changing(g) # {}
  OBVIOUS
<1> QED  BY <1>1, <1>2, Zenon DEF Reference, Made

\* The same, as a formula that holds in every state.
LastDecides ==
    \A g : /\ Changing(g) = {} => Reference(g) = Original(g)
          /\ \A k \in Changing(g) :
                (\A l \in Changing(g) : l \in Nat /\ l <= k) =>
                   Reference(g) = Made(applied[k].type, input[g], applied[k].onset_index,
                                       applied[k].duration, g)

LEMMA LastDecidesNow == LastDecides
<1> SUFFICES ASSUME NEW g
             PROVE  /\ Changing(g) = {} => Reference(g) = Original(g)
                    /\ \A k \in Changing(g) :
                          (\A l \in Changing(g) : l \in Nat /\ l <= k) =>
                             Reference(g) = Made(applied[k].type, input[g],
                                                 applied[k].onset_index, applied[k].duration, g)
  BY Zenon DEF LastDecides
<1>1. Changing(g) = {} => Reference(g) = Original(g)
  BY ReferenceNone, Zenon
<1>2. ASSUME NEW k \in Changing(g), \A l \in Changing(g) : l \in Nat /\ l <= k
      PROVE  Reference(g) = Made(applied[k].type, input[g], applied[k].onset_index,
                                 applied[k].duration, g)
  BY <1>2, ReferenceLast, Zenon
<1> QED  BY <1>1, <1>2, Zenon

LEMMA LastDecidesNext == LastDecides'
BY LastDecidesNow, PTL

\* What is derived from the input alone keeps its value while the input does.
LEMMA InputFrame ==
    ASSUME input' = input
    PROVE  /\ \A g : IndexOf(g)' = IndexOf(g)
           /\ \A s : Length(s)' = Length(s)
           /\ \A s, j : Idx(s, j)' = Idx(s, j)
<1>1. \A g : IndexOf(g)' = IndexOf(g)
  BY DEF IndexOf
<1>2. \A s : Length(s)' = Length(s)
  BY DEF Length
<1>3. \A s, j : Idx(s, j)' = Idx(s, j)
  BY DEF Idx, IndexOf
<1> QED  BY <1>1, <1>2, <1>3

LEMMA ApplyStep ==
    ASSUME AppliedIInv, InjectAssumption,
           NEW spec \in Specs, NEW onset \in Onsets(spec), ApplySpec(spec, onset)
    PROVE  AppliedIInv'
<1> DEFINE s == spec.stream_id
           f == [spec EXCEPT !.onset_index = onset]
           reached == {g \in DOMAIN input :
                          input[g] = s /\ IndexOf(g) \in onset..LastIndex(spec, onset)}
           covered(g) == input[g] = s /\ IndexOf(g) - onset \in 0..(spec.duration - 1)
<1>0. /\ input \in Inputs /\ applied \in Seq(Faults) /\ Len(applied) \in Nat
      /\ DOMAIN applied = 1..Len(applied) /\ labels \in Seq(Labels) /\ Len(labels) = Len(applied)
      /\ taken \in 0..MaxSpecs /\ Len(applied) <= taken /\ MaxSpecs \in Nat
      /\ DOMAIN value = DOMAIN input
  BY DEF AppliedIInv, InjectAssumption
<1>k. PICK K \in Nat : K = Len(applied) + 1
  BY <1>0
<1> USE <1>k
<1>1. input' = input /\ taken' = taken + 1 /\ taken < MaxSpecs /\ applied' = Append(applied, f)
  BY DEF ApplySpec
<1>2. /\ labels' = Append(labels, [stream_id |-> s, type |-> spec.type,
                                  start |-> Idx(s, onset),
                                  end |-> Idx(s, LastIndex(spec, onset))])
      /\ value' = [g \in DOMAIN input |->
                      IF g \in reached THEN Faulty(spec, onset, g) ELSE value[g]]
      /\ dropped' = IF spec.type = "dropout" THEN dropped \cup reached ELSE dropped
  BY DEF ApplySpec
<1>3. HasEffect(spec, onset)
  BY DEF ApplySpec
<1>4. /\ spec.type \in Types /\ s \in Streams /\ spec.duration \in Nat
      /\ spec.onset_index \in Int
      /\ DOMAIN spec = {"type", "stream_id", "onset_index", "duration"}
  BY DEF Specs, kAutoOnset, InjectAssumption
<1>5. onset \in Nat
  <2>1. CASE spec.onset_index # kAutoOnset
    <3>1. onset = spec.onset_index
      BY <2>1 DEF Onsets
    <3>2. spec.onset_index \in kAutoOnset..(MaxMessages - 1)
      BY DEF Specs
    <3> QED  BY <2>1, <3>1, <3>2 DEF kAutoOnset, InjectAssumption
  <2>2. CASE spec.onset_index = kAutoOnset
    <3>1. \E m : onset \in 0..m
      BY <2>2 DEF Onsets
    <3> QED  BY <3>1
  <2> QED  BY <2>1, <2>2
<1>6. /\ f \in Faults /\ f.type = spec.type /\ f.stream_id = s /\ f.onset_index = onset
      /\ f.duration = spec.duration
  <2>1. spec.duration > 0
    BY <1>3 DEF HasEffect
  <2>2. spec \in [type : Types, stream_id : Streams,
                  onset_index : kAutoOnset..(MaxMessages - 1), duration : 0..MaxDuration]
    BY DEF Specs
  <2>3. f = [type |-> spec.type, stream_id |-> s, onset_index |-> onset,
             duration |-> spec.duration]
    BY <2>2
  <2> HIDE DEF f
  <2> QED  BY <1>4, <1>5, <2>1, <2>3 DEF Faults
<1>7. f.onset_index < Length(f.stream_id)
  BY <1>3, <1>6 DEF HasEffect
<1>8. LastIndex(spec, onset) = LastIndex(f, f.onset_index)
  BY <1>6 DEF LastIndex
<1> HIDE DEF f
<1>9. \A g \in DOMAIN input : g \in reached <=> covered(g)
  <2> SUFFICES ASSUME NEW g \in DOMAIN input, input[g] = s
               PROVE  IndexOf(g) \in onset..LastIndex(spec, onset)
                         <=> IndexOf(g) - onset \in 0..(spec.duration - 1)
    OBVIOUS
  <2> QED  BY <1>0, <1>6, <1>7, <1>8, CoveredIndex
<1> HIDE DEF reached
<1>10. /\ applied' \in Seq(Faults) /\ Len(applied') = K /\ applied'[K] = f
       /\ \A k \in 1..Len(applied) : applied'[k] = applied[k]
       /\ DOMAIN applied' = 1..K
  BY <1>0, <1>1, <1>6
<1>11. /\ \A g : IndexOf(g)' = IndexOf(g)
       /\ \A t : Length(t)' = Length(t)
       /\ \A t, j : Idx(t, j)' = Idx(t, j)
  BY <1>1, InputFrame
<1>12. PICK l \in Labels : /\ labels' = Append(labels, l) /\ Brackets(l, f)
  <2> DEFINE l == [stream_id |-> s, type |-> spec.type, start |-> Idx(s, onset),
                   end |-> Idx(s, LastIndex(spec, onset))]
  <2>1. l = [stream_id |-> f.stream_id, type |-> f.type,
             start |-> Idx(f.stream_id, f.onset_index),
             end |-> Idx(f.stream_id, LastIndex(f, f.onset_index))]
    BY <1>6, <1>8
  <2> HIDE DEF l
  <2>2. l \in Labels /\ Brackets(l, f)
    BY <1>0, <1>6, <1>7, <2>1, LabelBrackets
  <2>3. labels' = Append(labels, l)
    BY <1>2 DEF l
  <2> QED  BY <2>2, <2>3
<1>13. /\ labels' \in Seq(Labels) /\ Len(labels') = K /\ labels'[K] = l
       /\ \A k \in 1..Len(applied) : labels'[k] = labels[k]
  BY <1>0, <1>12
<1>14. \A k \in 1..Len(labels') : Brackets(labels[k], applied[k])'
  <2> SUFFICES ASSUME NEW k \in 1..K PROVE Brackets(labels[k], applied[k])'
    BY <1>13
  <2>1. CASE k = K
    <3>1. labels'[k] = l /\ applied'[k] = f
      BY <1>10, <1>13, <2>1
    <3> QED  BY <1>1, <1>11, <1>12, <3>1 DEF Brackets
  <2>2. CASE k \in 1..Len(applied)
    <3>1. labels'[k] = labels[k] /\ applied'[k] = applied[k]
      BY <1>10, <1>13, <2>2
    <3>2. Brackets(labels[k], applied[k])
      BY <1>0, <2>2 DEF AppliedIInv
    <3> QED  BY <1>1, <1>11, <3>1, <3>2 DEF Brackets
  <2> QED  BY <1>0, <2>1, <2>2
<1>15. \A k \in 1..Len(applied') : applied'[k].onset_index < Length(applied[k].stream_id)'
  <2> SUFFICES ASSUME NEW k \in 1..K
               PROVE  applied'[k].onset_index < Length(applied'[k].stream_id)
    BY <1>10, <1>11
  <2>1. CASE k = K
    BY <1>7, <1>10, <2>1
  <2>2. CASE k \in 1..Len(applied)
    BY <1>10, <2>2 DEF AppliedIInv
  <2> QED  BY <1>0, <2>1, <2>2
<1>16. \A k \in 1..Len(applied) : \A g : Covers(k, g)' <=> Covers(k, g)
  BY <1>1, <1>10, <1>11 DEF Covers
<1>17. \A g : Covers(K, g)' <=> covered(g)
  <2>1. \A g : Covers(K, g)' <=> f.stream_id = input[g]
                               /\ IndexOf(g) - f.onset_index \in 0..(f.duration - 1)
    BY <1>1, <1>10, <1>11 DEF Covers
  <2> QED  BY <1>6, <2>1
<1>18. ASSUME NEW g \in DOMAIN input PROVE value'[g] = Reference(g)'
  <2>0. value[g] = Reference(g)
    BY <1>18 DEF AppliedIInv, ValuesMatchReference
  <2>1. CASE g \in reached /\ spec.type # "dropout"
    <3>1. value'[g] = Faulty(spec, onset, g)
      BY <1>2, <1>18, <2>1
    <3>2. Faulty(spec, onset, g) = Made(spec.type, s, onset, spec.duration, g)
      BY <1>4, <2>1 DEF Faulty, Made, Types
    <3>3. K \in Changing(g)'
      BY <1>0, <1>6, <1>9, <1>10, <1>17, <1>18, <2>1 DEF Changing
    <3>4. \A j \in Changing(g)' : j \in Nat /\ j <= K
      BY <1>0, <1>10 DEF Changing
    <3>5. Reference(g)' = Made(applied[K].type, input[g], applied[K].onset_index,
                               applied[K].duration, g)'
      BY <3>3, <3>4, LastDecidesNext DEF LastDecides
    <3>6. Made(applied[K].type, input[g], applied[K].onset_index, applied[K].duration, g)'
            = Made(spec.type, s, onset, spec.duration, g)
      <4>1. input[g] = s
        BY <1>9, <1>18, <2>1
      <4> QED  BY <1>1, <1>6, <1>10, <1>11, <4>1 DEF Made
    <3> QED  BY <3>1, <3>2, <3>5, <3>6
  <2>2. CASE ~(g \in reached /\ spec.type # "dropout")
    <3>1. value'[g] = value[g]
      <4>1. CASE g \notin reached
        BY <1>2, <1>18, <4>1
      <4>2. CASE g \in reached /\ spec.type = "dropout"
        <5>1. Faulty(spec, onset, g) = value[g]
          BY <4>2 DEF Faulty
        <5> QED  BY <1>2, <1>18, <4>2, <5>1
      <4> QED  BY <2>2, <4>1, <4>2
    <3>2. Changing(g)' = Changing(g)
      <4>1. \A k \in 1..Len(applied) : k \in Changing(g)' <=> k \in Changing(g)
        BY <1>0, <1>10, <1>16 DEF Changing
      <4>2. K \notin Changing(g)' /\ K \notin Changing(g)
        BY <1>0, <1>6, <1>9, <1>10, <1>17, <1>18, <2>2 DEF Changing
      <4>3. Changing(g)' \subseteq 1..K /\ Changing(g) \subseteq 1..Len(applied)
        BY <1>0, <1>10 DEF Changing
      <4>4. \A k \in 1..K : k = K \/ k \in 1..Len(applied)
        BY <1>0
      <4> QED  BY <4>1, <4>2, <4>3, <4>4, Zenon
    <3>3. CASE Changing(g) = {}
      <4>1. Reference(g)' = Original(g) /\ Reference(g) = Original(g)
        BY <3>2, <3>3, LastDecidesNow, LastDecidesNext DEF LastDecides, Original, Value
      <4> QED  BY <2>0, <3>1, <4>1
    <3>4. CASE Changing(g) # {}
      <4>1. Changing(g) \in SUBSET Nat /\ \A k \in Changing(g) : k <= Len(applied)
            /\ k \in 1..Len(applied)
        BY <1>0 DEF Changing
      <4>2. PICK k \in Changing(g) : \A j \in Changing(g) : j <= k
        BY <1>0, <3>4, <4>1, Largest
      <4>3. \A j \in Changing(g) : j \in Nat /\ j <= k
        BY <4>1, <4>2
      <4>4. Reference(g) = Made(applied[k].type, input[g], applied[k].onset_index,
                                applied[k].duration, g)
        BY <4>2, <4>3, LastDecidesNow, Zenon DEF LastDecides
      <4>5. Reference(g)' = Made(applied[k].type, input[g], applied[k].onset_index,
                                 applied[k].duration, g)'
        BY <3>2, <4>2, <4>3, LastDecidesNext, Zenon DEF LastDecides
      <4>6. applied'[k] = applied[k]
        BY <1>10, <4>1, <4>2
      <4>7. Made(applied[k].type, input[g], applied[k].onset_index, applied[k].duration, g)'
              = Made(applied[k].type, input[g], applied[k].onset_index, applied[k].duration, g)
        BY <1>1, <1>11, <4>6 DEF Made
      <4> QED  BY <2>0, <3>1, <4>4, <4>5, <4>7
    <3> QED  BY <3>3, <3>4
  <2> QED  BY <2>1, <2>2
<1>19. dropped' = {g \in DOMAIN input :
                     \E k \in DOMAIN applied' : Covers(k, g)' /\ applied'[k].type = "dropout"}
  <2> DEFINE Gone(g) == \E k \in 1..Len(applied) : Covers(k, g) /\ applied[k].type = "dropout"
  <2>1. dropped = {g \in DOMAIN input : Gone(g)}
    BY <1>0 DEF AppliedIInv, ValuesMatchReference
  <2>2. ASSUME NEW g \in DOMAIN input
        PROVE  (\E k \in DOMAIN applied' : Covers(k, g)' /\ applied'[k].type = "dropout")
                  <=> Gone(g) \/ (g \in reached /\ spec.type = "dropout")
    <3>1. \A k \in 1..Len(applied) :
             Covers(k, g)' /\ applied'[k].type = "dropout"
                <=> Covers(k, g) /\ applied[k].type = "dropout"
      BY <1>10, <1>16
    <3>2. Covers(K, g)' /\ applied'[K].type = "dropout"
             <=> g \in reached /\ spec.type = "dropout"
      BY <1>6, <1>9, <1>10, <1>17, <2>2
    <3>3. \A k : k \in DOMAIN applied' <=> k \in 1..Len(applied) \/ k = K
      BY <1>0, <1>10
    <3> QED  BY <3>1, <3>2, <3>3, Zenon
  <2> HIDE DEF Gone
  <2>3. reached \subseteq DOMAIN input
    BY DEF reached
  <2> QED  BY <1>2, <2>1, <2>2, <2>3
<1>20. ValuesMatchReference'
  BY <1>1, <1>18, <1>19 DEF ValuesMatchReference
<1>21. DOMAIN value' = DOMAIN input'
  BY <1>1, <1>2
<1>22. taken' \in 0..MaxSpecs /\ Len(applied') <= taken'
  BY <1>0, <1>1, <1>10
<1> QED
  BY <1>0, <1>1, <1>10, <1>13, <1>14, <1>15, <1>20, <1>21, <1>22 DEF AppliedIInv

\* The steps that leave the memory alone keep what it says; so does a skipped spec.
LEMMA MemoryFrame ==
    ASSUME AppliedIInv, input' = input, applied' = applied, value' = value,
           dropped' = dropped, labels' = labels,
           taken' \in 0..MaxSpecs, Len(applied) <= taken'
    PROVE  AppliedIInv'
<1>1. /\ \A g : IndexOf(g)' = IndexOf(g)
      /\ \A s : Length(s)' = Length(s)
      /\ \A s, j : Idx(s, j)' = Idx(s, j)
  BY InputFrame
<1>2. \A k, g : Covers(k, g)' <=> Covers(k, g)
  BY <1>1 DEF Covers
<1>3. \A g : Changing(g)' = Changing(g)
  BY <1>2 DEF Changing
<1>4. \A g : Reference(g)' = Reference(g)
  BY DEF Reference, Changing, Covers, IndexOf, Idx, Original, Value
<1>5. ValuesMatchReference'
  BY <1>2, <1>4 DEF AppliedIInv, ValuesMatchReference
<1>6. \A l, f : Brackets(l, f)' <=> Brackets(l, f)
  BY <1>1 DEF Brackets
<1> QED  BY <1>1, <1>5, <1>6 DEF AppliedIInv

\* Before the first spec nothing covers a message.
LEMMA ReadStep ==
    ASSUME InjectAssumption, Read, applied = << >>, taken = 0, dropped = {}, labels = << >>
    PROVE  AppliedIInv'
<1>1. PICK n \in 0..MaxMessages : input' \in [1..n -> Streams]
  BY DEF Read
<1>2. n \in Nat /\ n <= MaxMessages
  BY <1>1 DEF InjectAssumption
<1>3. input' \in Inputs
  BY <1>1, <1>2, FunctionIsSeq DEF Inputs
<1>4. /\ applied' = << >> /\ taken' = 0 /\ dropped' = {} /\ labels' = << >>
      /\ value' = [g \in DOMAIN input' |-> Original(g)]
  BY DEF Read
<1>5. \A g : Changing(g)' = {}
  BY <1>4 DEF Changing
<1>6. \A g : Reference(g)' = Original(g)
  BY <1>5, LastDecidesNext DEF LastDecides, Original, Value
<1>7. ValuesMatchReference'
  BY <1>4, <1>6 DEF ValuesMatchReference
<1>8. /\ applied' \in Seq(Faults) /\ Len(applied') = 0 /\ labels' \in Seq(Labels)
      /\ Len(labels') = 0
  BY <1>4
<1>9. taken' \in 0..MaxSpecs /\ DOMAIN value' = DOMAIN input'
  BY <1>4 DEF InjectAssumption
<1> QED  BY <1>3, <1>4, <1>7, <1>8, <1>9 DEF AppliedIInv

-----------------------------------------------------------------------------
(* The files: the output is written before the labels, and a labels file   *)
(* that breaks off reads as a prefix with at most one torn line.           *)

\* No message kept is the record that stands for an old file.
LEMMA KeptIsNew == OldOutput # Kept /\ \A n : OldOutput # KeptUpTo(n)
<1>1. ASSUME NEW m \in Kept PROVE "value" \in DOMAIN m
  BY <1>1 DEF Kept
<1>2. "value" \notin DOMAIN [at |-> 0]
  OBVIOUS
<1>3. [at |-> 0] \in OldOutput
  BY DEF OldOutput
<1>4. [at |-> 0] \notin Kept
  BY <1>1, <1>2, Zenon
<1>5. \A n : [at |-> 0] \notin KeptUpTo(n)
  BY <1>4 DEF KeptUpTo
<1> QED  BY <1>3, <1>4, <1>5, Zenon

\* Kept is all of the input's messages that it can have.
LEMMA KeptIsAll == ASSUME AppliedIInv PROVE KeptUpTo(Len(input)) = Kept /\ Len(input) \in Nat
<1>1. input \in Seq(Streams)
  BY DEF AppliedIInv, Inputs
<1>2. \A m \in Kept : m.at <= Len(input)
  BY <1>1 DEF Kept
<1> QED  BY <1>1, <1>2 DEF KeptUpTo

\* Kept is what the reference makes of the input.
LEMMA KeptIsReference ==
    ASSUME AppliedIInv, NEW n PROVE KeptUpTo(n) = ReferenceOutput(n)
<1> DEFINE Gone(g) == \E k \in DOMAIN applied : Covers(k, g) /\ applied[k].type = "dropout"
           In(g) == [at |-> g, value |-> Reference(g)]
<1>1. /\ \A g \in DOMAIN input : value[g] = Reference(g)
      /\ dropped = {g \in DOMAIN input : Gone(g)}
  BY DEF AppliedIInv, ValuesMatchReference
<1>2. \A g : (\A k \in DOMAIN applied : Covers(k, g) => applied[k].type # "dropout") <=> ~Gone(g)
  OBVIOUS
<1>3. ReferenceOutput(n) = {In(g) : g \in {h \in DOMAIN input : h <= n /\ ~Gone(h)}}
  BY <1>2 DEF ReferenceOutput
<1> HIDE DEF Gone
<1>4. Kept = {In(g) : g \in {h \in DOMAIN input : ~Gone(h)}}
  BY <1>1 DEF Kept
<1>5. \A g : In(g).at = g
  OBVIOUS
<1> HIDE DEF In
<1> QED  BY <1>3, <1>4, <1>5 DEF KeptUpTo

\* What the output file holds once inject has turned to writing it.
OutputHolds ==
    /\ output = OldOutput \/ \E n \in 0..Len(input) : output = KeptUpTo(n)
    /\ (stage = "labels" \/ labelled # OldLabels \/ result) => lost \/ output = Kept

\* What the labels file holds once inject has returned.
FileHolds ==
    \/ labelled = labels
    \/ result = FALSE /\ \E n \in 0..Len(labels) : labelled = SubSeq(labels, 1, n)
    \/ result = FALSE /\ \E k \in DOMAIN labels : \E line \in TornLines(labels[k]) :
          labelled = Append(SubSeq(labels, 1, k - 1), line)

InjectIInv ==
    /\ AppliedIInv
    /\ stage \in {"read", "apply", "labels", "done"} /\ result \in BOOLEAN
    /\ stage = "read" => applied = << >> /\ taken = 0 /\ dropped = {} /\ labels = << >>
    /\ lost \in BOOLEAN /\ OutputHolds
    /\ stage \in {"read", "apply"} => output = OldOutput
    /\ stage = "labels" => output # OldOutput
    /\ stage # "done" => labelled = OldLabels /\ result = FALSE
    /\ labelled # OldLabels => output # OldOutput
    /\ stage = "done" /\ labelled # OldLabels => FileHolds

LEMMA InjectInitially == ASSUME InjectAssumption, InjectInit PROVE InjectIInv
<1>1. /\ stage = "read" /\ input = << >> /\ applied = << >> /\ taken = 0
      /\ value = << >> /\ dropped = {} /\ labels = << >>
      /\ output = OldOutput /\ labelled = OldLabels /\ result = FALSE /\ lost = FALSE
  BY DEF InjectInit
<1>2. ValuesMatchReference
  BY <1>1 DEF ValuesMatchReference
<1>3. input \in Inputs /\ applied \in Seq(Faults) /\ labels \in Seq(Labels)
      /\ Len(applied) = 0 /\ Len(labels) = 0 /\ taken \in 0..MaxSpecs
  BY <1>1 DEF Inputs, InjectAssumption
<1>4. AppliedIInv
  BY <1>1, <1>2, <1>3 DEF AppliedIInv
<1> QED  BY <1>1, <1>4 DEF InjectIInv, OutputHolds

LEMMA InjectKept ==
    ASSUME InjectAssumption, InjectIInv, [InjectNext]_injectVars PROVE InjectIInv'
<1>0. AppliedIInv /\ taken \in 0..MaxSpecs /\ Len(applied) <= taken
  BY DEF InjectIInv, AppliedIInv
<1>1. ASSUME UNCHANGED memory PROVE AppliedIInv'
  <2>1. /\ input' = input /\ applied' = applied /\ value' = value
        /\ dropped' = dropped /\ labels' = labels /\ taken' = taken
    BY <1>1 DEF memory
  <2> QED  BY <1>0, <2>1, MemoryFrame
<1>2. CASE Read
  <2>1. AppliedIInv'
    BY <1>2, ReadStep DEF InjectIInv, Read
  <2>2. stage' = "apply" /\ stage = "read" /\ output' = output /\ labelled' = labelled
        /\ result' = result /\ lost' = lost
    BY <1>2 DEF Read
  <2> QED  BY <2>1, <2>2 DEF InjectIInv, OutputHolds
<1>3. CASE Throws
  <2>1. AppliedIInv'
    BY <1>1, <1>3 DEF Throws
  <2>2. stage' = "done" /\ stage # "done" /\ result' = FALSE /\ output' = output
        /\ labelled' = labelled /\ lost' = lost /\ stage \in {"read", "apply"}
    BY <1>3 DEF Throws, Return
  <2> QED  BY <2>1, <2>2 DEF InjectIInv, OutputHolds
<1>4. CASE Apply
  <2>1. PICK spec \in Specs : \E onset \in Onsets(spec) :
             SkipSpec(spec, onset) \/ ApplySpec(spec, onset)
    BY <1>4, Zenon DEF Apply
  <2>2. PICK onset \in Onsets(spec) : SkipSpec(spec, onset) \/ ApplySpec(spec, onset)
    BY <2>1
  <2>3. AppliedIInv'
    <3>1. CASE SkipSpec(spec, onset)
      <4>1. /\ input' = input /\ applied' = applied /\ value' = value
            /\ dropped' = dropped /\ labels' = labels
            /\ taken' = taken + 1 /\ taken < MaxSpecs
        BY <3>1 DEF SkipSpec
      <4>2. Len(applied) \in Nat /\ MaxSpecs \in Nat
        BY DEF InjectIInv, AppliedIInv, InjectAssumption
      <4>3. taken' \in 0..MaxSpecs /\ Len(applied) <= taken'
        BY <1>0, <4>1, <4>2
      <4> QED  BY <1>0, <4>1, <4>3, MemoryFrame
    <3>2. CASE ApplySpec(spec, onset)
      BY <1>0, <3>2, ApplyStep
    <3> QED  BY <2>2, <3>1, <3>2
  <2>4. stage' = "apply" /\ stage = "apply" /\ output' = output /\ labelled' = labelled
        /\ result' = result /\ lost' = lost
    BY <2>2 DEF SkipSpec, ApplySpec
  <2> QED  BY <2>3, <2>4 DEF InjectIInv, OutputHolds
<1>5. CASE WriteOutput \/ FlushFails
  <2>1. AppliedIInv'
    BY <1>1, <1>5 DEF WriteOutput, FlushFails
  <2>2. stage' = "labels" /\ stage = "apply" /\ labelled' = labelled /\ result' = result
        /\ output' # OldOutput
    BY <1>5, KeptIsNew DEF WriteOutput, FlushFails
  <2>3. lost' \in BOOLEAN /\ OutputHolds'
    <3>1. input' = input /\ Kept' = Kept /\ \A n : KeptUpTo(n)' = KeptUpTo(n)
      BY <1>5 DEF WriteOutput, FlushFails, memory, Kept, KeptUpTo
    <3>2. CASE WriteOutput
      <4>1. output' = Kept /\ lost' = lost
        BY <3>2 DEF WriteOutput
      <4>2. output' = KeptUpTo(Len(input)) /\ Len(input) \in 0..Len(input)
        BY <1>0, <4>1, KeptIsAll
      <4> QED  BY <3>1, <4>1, <4>2 DEF OutputHolds, InjectIInv
    <3>3. CASE FlushFails
      BY <3>1, <3>3 DEF FlushFails, OutputHolds
    <3> QED  BY <1>5, <3>2, <3>3
  <2>4. result' = FALSE
    BY <2>2 DEF InjectIInv
  <2> QED  BY <2>1, <2>2, <2>3, <2>4 DEF InjectIInv
<1>6. CASE WriteFails
  <2>1. AppliedIInv'
    BY <1>1, <1>6 DEF WriteFails
  <2>2. stage' = "done" /\ stage = "apply" /\ labelled' = labelled /\ result' = FALSE
        /\ lost' = lost
    BY <1>6 DEF WriteFails, Return
  <2>3. OutputHolds'
    <3>1. input' = input /\ \A n : KeptUpTo(n)' = KeptUpTo(n)
      BY <1>6 DEF WriteFails, memory, Kept, KeptUpTo
    <3>2. output' = OldOutput \/ \E n \in 0..Len(input) : output' = KeptUpTo(n)
      BY <1>6 DEF WriteFails, InjectIInv
    <3>3. labelled' = OldLabels
      BY <2>2 DEF InjectIInv
    <3> QED  BY <2>2, <3>1, <3>2, <3>3 DEF OutputHolds
  <2> QED  BY <2>1, <2>2, <2>3 DEF InjectIInv
<1>7. CASE WriteLabels \/ LabelsFail
  <2>1. AppliedIInv'
    BY <1>1, <1>7 DEF WriteLabels, LabelsFail
  <2>2. stage' = "done" /\ stage = "labels" /\ result' \in BOOLEAN /\ output' = output
        /\ labels' = labels /\ lost' = lost
    BY <1>7 DEF WriteLabels, LabelsFail, Return, memory
  <2>3. labelled' # OldLabels => FileHolds'
    <3>1. CASE WriteLabels
      BY <2>2, <3>1 DEF WriteLabels, FileHolds
    <3>2. CASE LabelsFail
      <4>1. result' = FALSE
        BY <3>2 DEF LabelsFail, Return
      <4>2. labelled = OldLabels
        BY <2>2 DEF InjectIInv
      <4> QED  BY <2>2, <3>2, <4>1, <4>2 DEF LabelsFail, FileHolds, TornLines
    <3> QED  BY <1>7, <3>1, <3>2
  <2>4. OutputHolds'
    <3>1. input' = input /\ Kept' = Kept /\ \A n : KeptUpTo(n)' = KeptUpTo(n)
      BY <1>7 DEF WriteLabels, LabelsFail, memory, Kept, KeptUpTo
    <3> QED  BY <2>2, <3>1 DEF OutputHolds, InjectIInv
  <2> QED  BY <2>1, <2>2, <2>3, <2>4 DEF InjectIInv
<1>8. CASE UNCHANGED injectVars
  <2>1. AppliedIInv'
    BY <1>1, <1>8 DEF injectVars
  <2>2. stage' = stage /\ output' = output /\ labelled' = labelled /\ result' = result
        /\ labels' = labels /\ applied' = applied /\ taken' = taken /\ dropped' = dropped
        /\ lost' = lost
    BY <1>8 DEF injectVars, memory
  <2>3. FileHolds' <=> FileHolds
    BY <2>2 DEF FileHolds, TornLines
  <2>4. OutputHolds' <=> OutputHolds
    BY <1>8, <2>2 DEF injectVars, memory, OutputHolds, Kept, KeptUpTo
  <2> QED  BY <2>1, <2>2, <2>3, <2>4 DEF InjectIInv
<1> QED  BY <1>2, <1>3, <1>4, <1>5, <1>6, <1>7, <1>8 DEF InjectNext

\* read_labels over a file whose lines but the last can be read.
LEMMA ReadsPrefix ==
    ASSUME NEW S, labelled \in Seq(S),
           \A k \in 1..(Len(labelled) - 1) : labelled[k] # UnreadableLine
    PROVE  ReadLabels = IF labelled = << >> \/ labelled[Len(labelled)] # UnreadableLine
                        THEN labelled ELSE SubSeq(labelled, 1, Len(labelled) - 1)
<1>1. PICK n \in Nat : n = Len(labelled) /\ DOMAIN labelled = 1..n
  OBVIOUS
<1> DEFINE Upto(k) == IF k > 0 /\ labelled[k] = UnreadableLine THEN SubSeq(labelled, 1, k - 1)
                      ELSE SubSeq(labelled, 1, k)
           F(f) == [k \in 0..n |->
                      IF k = 0 THEN << >>
                      ELSE IF labelled[k] = UnreadableLine THEN f[k - 1]
                      ELSE Append(f[k - 1], labelled[k])]
           r == CHOOSE f : f = F(f)
<1>2. \A k \in 1..(n - 1) : Upto(k) = SubSeq(labelled, 1, k)
  BY <1>1
<1>3. Upto(0) = << >>
  BY <1>1
<1>4. \A k \in 1..n : Upto(k - 1) = SubSeq(labelled, 1, k - 1)
  BY <1>1, <1>2
<1>5. \A k \in 1..n : SubSeq(labelled, 1, k) = Append(SubSeq(labelled, 1, k - 1), labelled[k])
  BY <1>1
<1>6. \A k \in 1..n : Upto(k) = IF labelled[k] = UnreadableLine THEN Upto(k - 1)
                               ELSE Append(Upto(k - 1), labelled[k])
  <2> SUFFICES ASSUME NEW k \in 1..n
               PROVE  Upto(k) = IF labelled[k] = UnreadableLine THEN Upto(k - 1)
                                ELSE Append(Upto(k - 1), labelled[k])
    OBVIOUS
  <2>1. Upto(k) = IF labelled[k] = UnreadableLine THEN SubSeq(labelled, 1, k - 1)
                  ELSE SubSeq(labelled, 1, k)
    BY <1>1
  <2> HIDE DEF Upto
  <2> QED  BY <1>4, <1>5, <2>1, Zenon
<1>7. \E f : f = F(f)
  <2> DEFINE f == [k \in 0..n |-> Upto(k)]
  <2>1. \A k \in 1..n : f[k] = Upto(k) /\ f[k - 1] = Upto(k - 1)
    BY <1>1
  <2>2. f[0] = << >>
    BY <1>1, <1>3
  <2> HIDE DEF Upto
  <2>3. f = F(f)
    BY <1>1, <1>3, <1>6, <2>1
  <2> QED  BY <2>3
<1>8. r = F(r)
  BY <1>7, Zenon
<1> HIDE DEF r, Upto
<1>9. \A k \in 0..n : r[k] = Upto(k)
  <2> DEFINE G == {k \in Nat : k <= n => r[k] = Upto(k)}
  <2>1. 0 \in G
    BY <1>1, <1>3, <1>8
  <2>2. ASSUME NEW k \in Nat, k \in G PROVE k + 1 \in G
    <3> SUFFICES ASSUME k + 1 <= n PROVE r[k + 1] = Upto(k + 1)
      OBVIOUS
    <3>1. k + 1 \in 1..n /\ k + 1 \in 0..n /\ (k + 1) - 1 = k /\ k + 1 # 0 /\ k <= n
      BY <1>1
    <3>2. r[k] = Upto(k)
      BY <2>2, <3>1
    <3>3. r[k + 1] = IF labelled[k + 1] = UnreadableLine THEN r[k] ELSE Append(r[k], labelled[k + 1])
      BY <1>8, <3>1
    <3> QED  BY <1>6, <3>1, <3>2, <3>3
  <2> HIDE DEF G
  <2>3. \A k \in Nat : k \in G
    BY <2>1, <2>2, Induct
  <2> QED  BY <1>1, <2>3 DEF G
<1>10. ReadLabels = r[n]
  BY <1>1, Zenon DEF ReadLabels, r
<1>11. SubSeq(labelled, 1, n) = labelled
  BY <1>1
<1>12. labelled = << >> <=> n = 0
  BY <1>1
<1>13. ReadLabels = Upto(n)
  BY <1>1, <1>9, <1>10
<1>14. Upto(n) = IF n > 0 /\ labelled[n] = UnreadableLine THEN SubSeq(labelled, 1, n - 1)
                 ELSE labelled
  BY <1>11 DEF Upto
<1>15. n > 0 <=> n # 0
  BY <1>1
<1> QED  BY <1>1, <1>12, <1>13, <1>14, <1>15, Zenon

\* A label, torn in its last number or not, can be read.
LEMMA LabelsAreReadable ==
    ASSUME NEW l \in Labels
    PROVE  /\ l # UnreadableLine
           /\ \A line \in TornLines(l) : line = UnreadableLine \/ line \in Labels
<1>1. \A m \in Labels : m # UnreadableLine
  <2> SUFFICES ASSUME NEW m \in Labels, m = UnreadableLine PROVE FALSE
    OBVIOUS
  <2>1. "end" \in DOMAIN m
    BY DEF Labels
  <2>2. DOMAIN m = {"at"}
    BY DEF UnreadableLine
  <2> QED  BY <2>1, <2>2
<1>2. ASSUME NEW k \in 0..(l.end - 1) PROVE [l EXCEPT !.end = k] \in Labels
  BY DEF Labels
<1> QED  BY <1>1, <1>2 DEF TornLines

LEMMA ReadsBack == ASSUME InjectIInv PROVE LabelsReadBack
<1> SUFFICES ASSUME stage = "done", labelled # OldLabels
             PROVE  /\ result => ReadLabels = labels
                    /\ Len(ReadLabels) <= Len(labels)
                    /\ \A k \in DOMAIN ReadLabels :
                          \/ ReadLabels[k] = labels[k]
                          \/ k = Len(ReadLabels) /\ ReadLabels[k] \in TornLines(labels[k])
  BY DEF LabelsReadBack
<1>1. labels \in Seq(Labels) /\ FileHolds
  BY DEF InjectIInv, AppliedIInv
<1>2. PICK n \in Nat : n = Len(labels) /\ DOMAIN labels = 1..n
  BY <1>1
<1>3. \A k \in 1..n : labels[k] \in Labels /\ labels[k] # UnreadableLine
  BY <1>1, <1>2, LabelsAreReadable
<1>4. ASSUME NEW k \in 0..n
      PROVE  /\ SubSeq(labels, 1, k) \in Seq(Labels) /\ Len(SubSeq(labels, 1, k)) = k
             /\ \A i \in 1..k : SubSeq(labels, 1, k)[i] = labels[i]
  BY <1>1, <1>2
<1>5. ASSUME NEW k \in 0..n, labelled = SubSeq(labels, 1, k)
      PROVE  ReadLabels = labelled
  <2>1. labelled \in Seq(Labels) /\ Len(labelled) = k /\ \A i \in 1..k : labelled[i] # UnreadableLine
    BY <1>2, <1>3, <1>4, <1>5
  <2>2. labelled = << >> \/ labelled[Len(labelled)] # UnreadableLine
    BY <2>1
  <2>3. \A i \in 1..(Len(labelled) - 1) : labelled[i] # UnreadableLine
    BY <2>1
  <2> QED  BY <2>1, <2>2, <2>3, ReadsPrefix
<1>6. CASE labelled = labels
  <2>1. labelled = SubSeq(labels, 1, n) /\ n \in 0..n
    BY <1>1, <1>2, <1>6
  <2>2. ReadLabels = labels
    BY <1>5, <1>6, <2>1
  <2> QED  BY <1>2, <2>2
<1>7. CASE result = FALSE /\ \E k \in 0..Len(labels) : labelled = SubSeq(labels, 1, k)
  <2>1. PICK k \in 0..n : labelled = SubSeq(labels, 1, k)
    BY <1>2, <1>7
  <2>2. ReadLabels = SubSeq(labels, 1, k)
    BY <1>5, <2>1
  <2> QED  BY <1>2, <1>4, <1>7, <2>2
<1>8. CASE result = FALSE /\ \E k \in DOMAIN labels : \E line \in TornLines(labels[k]) :
              labelled = Append(SubSeq(labels, 1, k - 1), line)
  <2>1. PICK k \in 1..n : \E line \in TornLines(labels[k]) :
              labelled = Append(SubSeq(labels, 1, k - 1), line)
    BY <1>2, <1>8
  <2>2. PICK line \in TornLines(labels[k]) : labelled = Append(SubSeq(labels, 1, k - 1), line)
    BY <2>1
  <2>3. line = UnreadableLine \/ line \in Labels
    BY <1>3, LabelsAreReadable
  <2>4. PICK q \in Seq(Labels) : /\ q = SubSeq(labels, 1, k - 1) /\ Len(q) = k - 1
                                 /\ \A i \in 1..(k - 1) : q[i] = labels[i]
    <3>1. k - 1 \in 0..n
      BY <1>2
    <3> QED  BY <1>4, <3>1
  <2>5. labelled = Append(q, line)
    BY <2>2, <2>4
  <2>6. /\ labelled \in Seq(Labels \cup {UnreadableLine}) /\ Len(labelled) = k /\ labelled[k] = line
        /\ \A i \in 1..(k - 1) : labelled[i] = q[i]
    <3>1. q \in Seq(Labels \cup {UnreadableLine}) /\ line \in Labels \cup {UnreadableLine}
      BY <2>3, <2>4
    <3> QED  BY <1>2, <2>4, <2>5, <3>1
  <2>7. \A i \in 1..(Len(labelled) - 1) : labelled[i] # UnreadableLine
    BY <1>2, <1>3, <2>4, <2>6
  <2>8. labelled # << >> /\ SubSeq(labelled, 1, Len(labelled) - 1) = q
    BY <1>2, <2>4, <2>5, <2>6
  <2>9. ReadLabels = IF line # UnreadableLine THEN labelled ELSE q
    BY <2>6, <2>7, <2>8, ReadsPrefix
  <2>10. CASE line = UnreadableLine
    <3>1. ReadLabels = q
      BY <2>9, <2>10
    <3> QED  BY <1>2, <1>8, <2>4, <3>1
  <2>11. CASE line # UnreadableLine
    <3>1. ReadLabels = labelled
      BY <2>9, <2>11
    <3>2. \A i \in 1..k : labelled[i] = labels[i] \/ (i = k /\ labelled[i] \in TornLines(labels[i]))
      BY <1>2, <2>2, <2>4, <2>6
    <3>3. DOMAIN labelled = 1..k /\ k <= n
      BY <1>2, <2>6
    <3> QED  BY <1>2, <1>8, <2>6, <3>1, <3>2, <3>3
  <2> QED  BY <2>10, <2>11
<1> QED  BY <1>1, <1>6, <1>7, <1>8 DEF FileHolds

\* What the reference makes of a message has the type of a value.
LEMMA ReferenceType ==
    ASSUME AppliedIInv, NEW g \in DOMAIN input
    PROVE  Reference(g).of \in DOMAIN input /\ Reference(g).step \in 0..Reference(g).dur
<1>0. input \in Inputs /\ applied \in Seq(Faults) /\ Len(applied) \in Nat
      /\ DOMAIN applied = 1..Len(applied)
  BY DEF AppliedIInv
<1>1. CASE Changing(g) = {}
  BY <1>1, ReferenceNone DEF Original, Value
<1>2. CASE Changing(g) # {}
  <2>1. Changing(g) \in SUBSET Nat /\ \A k \in Changing(g) : k <= Len(applied)
        /\ k \in 1..Len(applied)
    BY <1>0 DEF Changing
  <2>2. PICK k \in Changing(g) : \A j \in Changing(g) : j <= k
    BY <1>0, <1>2, <2>1, Largest
  <2>3. Reference(g) = Made(applied[k].type, input[g], applied[k].onset_index,
                            applied[k].duration, g)
    BY <2>1, <2>2, ReferenceLast
  <2>4. PICK f \in Faults : f = applied[k]
    BY <1>0, <2>1, <2>2
  <2>5. f.onset_index < Length(f.stream_id) /\ f.stream_id = input[g]
        /\ IndexOf(g) - f.onset_index \in 0..(f.duration - 1)
    BY <2>1, <2>2, <2>4 DEF AppliedIInv, Changing, Covers
  <2>6. f.onset_index \in Nat /\ f.duration \in Nat /\ f.type \in Types
    BY DEF Faults
  <2>7. Idx(input[g], f.onset_index) \in DOMAIN input
    BY <1>0, <2>5, <2>6, IdxExists
  <2>8. IndexOf(g) \in Nat
    BY <1>0, IndexBound
  <2>9. Reference(g) = Made(f.type, input[g], f.onset_index, f.duration, g)
    BY <2>3, <2>4
  <2>10. CASE f.type = "spike"
    BY <2>9, <2>10 DEF Made, Value
  <2>11. CASE f.type = "drift"
    <3>1. IndexOf(g) - f.onset_index + 1 \in 0..f.duration
      BY <2>5, <2>6, <2>8
    <3> QED  BY <2>9, <2>11, <3>1 DEF Made, Value
  <2>12. CASE f.type # "spike" /\ f.type # "drift"
    BY <2>7, <2>9, <2>12 DEF Made, Original, Value
  <2> QED  BY <2>10, <2>11, <2>12
<1> QED  BY <1>1, <1>2

LEMMA InjectMeans == ASSUME InjectAssumption, InjectIInv PROVE InjectionIsLabelled
<1>0. AppliedIInv
  BY DEF InjectIInv
<1>1. InjectTypeOK
  <2>1. \A g \in DOMAIN value : value[g] = Reference(g) /\ g \in DOMAIN input
    BY <1>0 DEF AppliedIInv, ValuesMatchReference
  <2>2. \A g \in DOMAIN value : value[g].of \in DOMAIN input /\ value[g].step \in 0..value[g].dur
    BY <1>0, <2>1, ReferenceType
  <2>3. dropped \subseteq DOMAIN input
    BY <1>0 DEF AppliedIInv, ValuesMatchReference
  <2>4. DOMAIN input \subseteq 1..MaxMessages
    BY <1>0 DEF AppliedIInv, Inputs, InjectAssumption
  <2> QED  BY <1>0, <2>2, <2>3, <2>4 DEF InjectTypeOK, InjectIInv, AppliedIInv
<1>2. ValuesMatchReference
  BY <1>0 DEF AppliedIInv
<1>3. LabelsAreTrue
  <2>1. ASSUME NEW k \in DOMAIN labels, NEW g \in DOMAIN input, input[g] = labels[k].stream_id
        PROVE  Covers(k, g) <=> g \in labels[k].start..labels[k].end
    <3>1. k \in 1..Len(labels) /\ Brackets(labels[k], applied[k])
      BY <1>0 DEF AppliedIInv
    <3> QED  BY <2>1, <3>1 DEF Brackets, Covers
  <2> QED  BY <2>1 DEF LabelsAreTrue, InjectIInv
<1>4. LabelsReadBack
  BY ReadsBack
<1>5. OutputMatchesReference
  <2>1. /\ \A n : KeptUpTo(n) = ReferenceOutput(n)
        /\ Kept = ReferenceOutput(Len(input))
    BY <1>0, KeptIsAll, KeptIsReference
  <2> QED  BY <2>1 DEF InjectIInv, OutputHolds, OutputMatchesReference
<1> QED  BY <1>1, <1>2, <1>3, <1>4, <1>5 DEF InjectionIsLabelled

\* An injection is what its labels say: every sample is what the applied faults
\* make of the original, in memory and in the output file, every label brackets
\* exactly its fault's samples, and read_labels gives the labels back, whichever
\* of inject's writes fails.
THEOREM InjectionLabelled == InjectSpec => []InjectionIsLabelled
<1> USE InjectAssumption
<1>1. InjectInit => InjectIInv
  BY InjectInitially
<1>2. InjectIInv /\ [InjectNext]_injectVars => InjectIInv'
  BY InjectKept
<1>3. InjectIInv => InjectionIsLabelled
  BY InjectMeans
<1> QED  BY <1>1, <1>2, <1>3, PTL DEF InjectSpec

-----------------------------------------------------------------------------
(* Replay.  A field's bytes and its number determine each other.           *)

Bytes == {n \in Nat : n < 4}
Halves == {n \in Nat : n < 256}
Words == {n \in Nat : n < 65536}

LEMMA PowersOfByte ==
    /\ Power(Byte, 0) = 1 /\ Power(Byte, 1) = 4 /\ Power(Byte, 2) = 16 /\ Power(Byte, 3) = 64
    /\ Power(Byte, 4) = 256 /\ Power(Byte, 5) = 1024 /\ Power(Byte, 6) = 4096
    /\ Power(Byte, 7) = 16384 /\ Power(Byte, 8) = 65536
<1>0. Byte = 4 /\ Byte \in Int
  BY DEF Byte
<1>1. Power(Byte, 0) = 1
  BY <1>0, PowerZero
<1>2. \A n \in Nat : Power(Byte, n + 1) = 4 * Power(Byte, n)
  BY <1>0, PowerStep
<1>3. Power(Byte, 1) = 4
  BY <1>1, <1>2
<1>4. Power(Byte, 2) = 16
  BY <1>2, <1>3
<1>5. Power(Byte, 3) = 64
  BY <1>2, <1>4
<1>6. Power(Byte, 4) = 256
  BY <1>2, <1>5
<1>7. Power(Byte, 5) = 1024
  BY <1>2, <1>6
<1>8. Power(Byte, 6) = 4096
  BY <1>2, <1>7
<1>9. Power(Byte, 7) = 16384
  BY <1>2, <1>8
<1>10. Power(Byte, 8) = 65536
  BY <1>2, <1>9
<1> QED  BY <1>1, <1>3, <1>4, <1>5, <1>6, <1>7, <1>8, <1>9, <1>10

\* The widths, as numbers.
LEMMA Widths == Max32 = 256 /\ Max64 = 65536 /\ Byte = 4
BY PowersOfByte DEF Max32, Max64, Byte

\* A sum of four terms, and of eight.
LEMMA SumOfFour ==
    ASSUME NEW f, \A i \in 1..4 : f[i] \in Int
    PROVE  SumTo(f, 4) = f[1] + f[2] + f[3] + f[4]
<1>1. \A n \in 0..3 : SumTo(f, n + 1) = SumTo(f, n) + f[n + 1]
  <2> SUFFICES ASSUME NEW n \in 0..3 PROVE SumTo(f, n + 1) = SumTo(f, n) + f[n + 1]
    OBVIOUS
  <2>1. n \in Nat /\ \A i \in 1..(n + 1) : f[i] \in Int
    OBVIOUS
  <2> QED  BY <2>1, SumStep
<1>2. SumTo(f, 0) = 0
  BY SumEmpty
<1>3. f[1] \in Int /\ f[2] \in Int /\ f[3] \in Int /\ f[4] \in Int
  OBVIOUS
<1>4. SumTo(f, 1) = f[1]
  BY <1>1, <1>2, <1>3
<1>5. SumTo(f, 2) = f[1] + f[2]
  BY <1>1, <1>4
<1>6. SumTo(f, 3) = f[1] + f[2] + f[3]
  BY <1>1, <1>5
<1> QED  BY <1>1, <1>6

LEMMA SumOfEight ==
    ASSUME NEW f, \A i \in 1..8 : f[i] \in Int
    PROVE  SumTo(f, 8) = f[1] + f[2] + f[3] + f[4] + f[5] + f[6] + f[7] + f[8]
<1>1. \A n \in 4..7 : SumTo(f, n + 1) = SumTo(f, n) + f[n + 1]
  <2> SUFFICES ASSUME NEW n \in 4..7 PROVE SumTo(f, n + 1) = SumTo(f, n) + f[n + 1]
    OBVIOUS
  <2>1. n \in Nat /\ \A i \in 1..(n + 1) : f[i] \in Int
    OBVIOUS
  <2> QED  BY <2>1, SumStep
<1>2. SumTo(f, 4) = f[1] + f[2] + f[3] + f[4]
  BY SumOfFour
<1>3. SumTo(f, 5) = f[1] + f[2] + f[3] + f[4] + f[5]
  BY <1>1, <1>2
<1>4. SumTo(f, 6) = f[1] + f[2] + f[3] + f[4] + f[5] + f[6]
  BY <1>1, <1>3
<1>5. SumTo(f, 7) = f[1] + f[2] + f[3] + f[4] + f[5] + f[6] + f[7]
  BY <1>1, <1>4
<1> QED  BY <1>1, <1>5

\* What get_u32 and get_u64 read.
LEMMA GetFour ==
    ASSUME NEW bs, NEW at \in Nat, \A i \in 1..4 : bs[at + i] \in Bytes
    PROVE  GetUint(bs, at, 4) = bs[at + 1] + 4 * bs[at + 2] + 16 * bs[at + 3]
                                   + 64 * bs[at + 4]
<1> DEFINE f == [i \in 1..4 |-> bs[at + i] * Power(Byte, i - 1)]
<1>1. /\ bs[at + 1] \in Int /\ bs[at + 2] \in Int /\ bs[at + 3] \in Int /\ bs[at + 4] \in Int
  BY DEF Bytes
<1>2. /\ f[1] = bs[at + 1] /\ f[2] = 4 * bs[at + 2] /\ f[3] = 16 * bs[at + 3]
      /\ f[4] = 64 * bs[at + 4]
  BY <1>1, PowersOfByte
<1>3. GetUint(bs, at, 4) = SumTo(f, 4)
  BY DEF GetUint
<1> HIDE DEF f
<1>4. \A i \in 1..4 : f[i] \in Int
  <2>1. f[1] \in Int /\ f[2] \in Int /\ f[3] \in Int /\ f[4] \in Int
    BY <1>1, <1>2
  <2> QED  BY <2>1
<1> QED  BY <1>2, <1>3, <1>4, SumOfFour

LEMMA GetEight ==
    ASSUME NEW bs, NEW at \in Nat, \A i \in 1..8 : bs[at + i] \in Bytes
    PROVE  GetUint(bs, at, 8) = bs[at + 1] + 4 * bs[at + 2] + 16 * bs[at + 3]
                                   + 64 * bs[at + 4] + 256 * bs[at + 5] + 1024 * bs[at + 6]
                                   + 4096 * bs[at + 7] + 16384 * bs[at + 8]
<1> DEFINE f == [i \in 1..8 |-> bs[at + i] * Power(Byte, i - 1)]
<1>1. /\ bs[at + 1] \in Int /\ bs[at + 2] \in Int /\ bs[at + 3] \in Int /\ bs[at + 4] \in Int
      /\ bs[at + 5] \in Int /\ bs[at + 6] \in Int /\ bs[at + 7] \in Int /\ bs[at + 8] \in Int
  BY DEF Bytes
<1>2. /\ f[1] = bs[at + 1] /\ f[2] = 4 * bs[at + 2] /\ f[3] = 16 * bs[at + 3]
      /\ f[4] = 64 * bs[at + 4] /\ f[5] = 256 * bs[at + 5] /\ f[6] = 1024 * bs[at + 6]
      /\ f[7] = 4096 * bs[at + 7] /\ f[8] = 16384 * bs[at + 8]
  BY <1>1, PowersOfByte
<1>3. GetUint(bs, at, 8) = SumTo(f, 8)
  BY DEF GetUint
<1> HIDE DEF f
<1>4. \A i \in 1..8 : f[i] \in Int
  <2>1. /\ f[1] \in Int /\ f[2] \in Int /\ f[3] \in Int /\ f[4] \in Int
        /\ f[5] \in Int /\ f[6] \in Int /\ f[7] \in Int /\ f[8] \in Int
    BY <1>1, <1>2
  <2> QED  BY <2>1
<1> QED  BY <1>2, <1>3, <1>4, SumOfEight

\* What put_u32 and put_u64 write.
LEMMA PutFour ==
    ASSUME NEW v \in Nat
    PROVE  /\ PutUint(v, 4) \in Seq(Bytes) /\ Len(PutUint(v, 4)) = 4
           /\ PutUint(v, 4)[1] = v % 4 /\ PutUint(v, 4)[2] = (v \div 4) % 4
           /\ PutUint(v, 4)[3] = (v \div 16) % 4 /\ PutUint(v, 4)[4] = (v \div 64) % 4
<1> DEFINE part == PutUint(v, 4)
<1>1. part = [i \in 1..4 |-> (v \div Power(Byte, i - 1)) % 4]
  BY Widths DEF PutUint
<1>2. /\ part[1] = v % 4 /\ part[2] = (v \div 4) % 4 /\ part[3] = (v \div 16) % 4 /\ part[4] = (v \div 64) % 4
  BY <1>1, PowersOfByte
<1>3. part[1] \in Bytes /\ part[2] \in Bytes /\ part[3] \in Bytes /\ part[4] \in Bytes
  BY <1>2 DEF Bytes
<1>4. part \in [1..4 -> Bytes]
  <2>1. \A i \in 1..4 : part[i] \in Bytes
    BY <1>3
  <2> QED  BY <1>1, <2>1
<1> HIDE DEF part
<1>5. part \in Seq(Bytes) /\ Len(part) = 4
  BY <1>4, FunctionIsSeq
<1> QED  BY <1>2, <1>5 DEF part

LEMMA EightDigits ==
    ASSUME NEW v \in Nat
    PROVE  /\ PutUint(v, 8)[1] = v % 4 /\ PutUint(v, 8)[2] = (v \div 4) % 4
           /\ PutUint(v, 8)[3] = (v \div 16) % 4 /\ PutUint(v, 8)[4] = (v \div 64) % 4
           /\ PutUint(v, 8)[5] = (v \div 256) % 4 /\ PutUint(v, 8)[6] = (v \div 1024) % 4
           /\ PutUint(v, 8)[7] = (v \div 4096) % 4 /\ PutUint(v, 8)[8] = (v \div 16384) % 4
<1> DEFINE part == PutUint(v, 8)
<1>1. part = [i \in 1..8 |-> (v \div Power(Byte, i - 1)) % 4]
  BY Widths DEF PutUint
<1>2. /\ part[1] = v % 4 /\ part[2] = (v \div 4) % 4 /\ part[3] = (v \div 16) % 4 /\ part[4] = (v \div 64) % 4
      /\ part[5] = (v \div 256) % 4 /\ part[6] = (v \div 1024) % 4
      /\ part[7] = (v \div 4096) % 4 /\ part[8] = (v \div 16384) % 4
  BY <1>1, PowersOfByte
<1> QED  BY <1>2

LEMMA EightBytes ==
    ASSUME NEW v \in Nat
    PROVE  PutUint(v, 8) \in Seq(Bytes) /\ Len(PutUint(v, 8)) = 8
<1> DEFINE part == PutUint(v, 8)
<1>1. part = [i \in 1..8 |-> (v \div Power(Byte, i - 1)) % 4]
  BY Widths DEF PutUint
<1>2. /\ part[1] = v % 4 /\ part[2] = (v \div 4) % 4 /\ part[3] = (v \div 16) % 4 /\ part[4] = (v \div 64) % 4
      /\ part[5] = (v \div 256) % 4 /\ part[6] = (v \div 1024) % 4
      /\ part[7] = (v \div 4096) % 4 /\ part[8] = (v \div 16384) % 4
  BY <1>1, PowersOfByte
<1>3. /\ part[1] \in Bytes /\ part[2] \in Bytes /\ part[3] \in Bytes /\ part[4] \in Bytes
      /\ part[5] \in Bytes /\ part[6] \in Bytes /\ part[7] \in Bytes /\ part[8] \in Bytes
  BY <1>2 DEF Bytes
<1>4. part \in [1..8 -> Bytes]
  <2>1. \A i \in 1..8 : part[i] \in Bytes
    BY <1>3
  <2> QED  BY <1>1, <2>1
<1> HIDE DEF part
<1>5. part \in Seq(Bytes) /\ Len(part) = 8
  BY <1>4, FunctionIsSeq
<1> QED  BY <1>5 DEF part

\* The bytes of bs from offset at on are those of part; they are bytes at all.
Holds(bs, at, part, n) == \A i \in Nat : 1 <= i /\ i <= n => bs[at + i] = part[i]
IsBytes(bs, at, n) == \A i \in Nat : 1 <= i /\ i <= n => bs[at + i] \in Bytes

\* get after put: the number comes back.
LEMMA NumberBackFour ==
    ASSUME NEW v \in Halves, NEW bs, NEW at \in Nat, Holds(bs, at, PutUint(v, 4), 4)
    PROVE  GetUint(bs, at, 4) = v
<1>0. v \in Nat /\ v < 256
  BY DEF Halves
<1> DEFINE part == PutUint(v, 4)
<1>1. /\ part \in Seq(Bytes) /\ Len(part) = 4
      /\ part[1] = v % 4 /\ part[2] = (v \div 4) % 4 /\ part[3] = (v \div 16) % 4 /\ part[4] = (v \div 64) % 4
  BY <1>0, PutFour
<1>2. Holds(bs, at, part, 4)
  OBVIOUS
<1> HIDE DEF part
<1>3. \A i \in 1..4 : bs[at + i] = part[i] /\ part[i] \in Bytes
  <2>1. part \in Seq(Bytes)
    BY <1>1
  <2>2. \A i \in 1..Len(part) : part[i] \in Bytes
    BY <2>1
  <2>3. \A i \in 1..4 : i \in Nat /\ 1 <= i /\ i <= 4
    OBVIOUS
  <2>4. Len(part) = 4
    BY <1>1
  <2> QED  BY <1>2, <2>2, <2>3, <2>4, Zenon DEF Holds
<1>4. GetUint(bs, at, 4) = part[1] + 4 * part[2] + 16 * part[3] + 64 * part[4]
  <2>1. GetUint(bs, at, 4) = bs[at + 1] + 4 * bs[at + 2] + 16 * bs[at + 3]
                                + 64 * bs[at + 4]
    BY <1>3, GetFour
  <2> QED  BY <1>3, <2>1
<1>5. v = (v % 4) + 4 * ((v \div 4) % 4) + 16 * ((v \div 16) % 4) + 64 * ((v \div 64) % 4)
  BY <1>0
<1> QED  BY <1>1, <1>4, <1>5

\* A number of 16 bits, from its digits.
LEMMA WordDigits ==
    ASSUME NEW v \in Nat, v < 65536
    PROVE  v = (v % 4) + 4 * ((v \div 4) % 4) + 16 * ((v \div 16) % 4) + 64 * ((v \div 64) % 4)
                 + 256 * ((v \div 256) % 4) + 1024 * ((v \div 1024) % 4)
                 + 4096 * ((v \div 4096) % 4) + 16384 * ((v \div 16384) % 4)
<1>1. v = 4 * (v \div 4) + (v % 4) /\ v \div 4 = 4 * (v \div 16) + ((v \div 4) % 4)
  OBVIOUS
<1>2. /\ v \div 16 = 4 * (v \div 64) + ((v \div 16) % 4)
      /\ v \div 64 = 4 * (v \div 256) + ((v \div 64) % 4)
  OBVIOUS
<1>3. /\ v \div 256 = 4 * (v \div 1024) + ((v \div 256) % 4)
      /\ v \div 1024 = 4 * (v \div 4096) + ((v \div 1024) % 4)
  OBVIOUS
<1>4. /\ v \div 4096 = 4 * (v \div 16384) + ((v \div 4096) % 4)
      /\ v \div 16384 = (v \div 16384) % 4
  OBVIOUS
<1> QED  BY <1>1, <1>2, <1>3, <1>4

LEMMA NumberBackEight ==
    ASSUME NEW v \in Words, NEW bs, NEW at \in Nat, Holds(bs, at, PutUint(v, 8), 8)
    PROVE  GetUint(bs, at, 8) = v
<1>0. v \in Nat /\ v < 65536
  BY DEF Words
<1> DEFINE part == PutUint(v, 8)
<1>1. /\ part[1] = v % 4 /\ part[2] = (v \div 4) % 4 /\ part[3] = (v \div 16) % 4 /\ part[4] = (v \div 64) % 4
      /\ part[5] = (v \div 256) % 4 /\ part[6] = (v \div 1024) % 4
      /\ part[7] = (v \div 4096) % 4 /\ part[8] = (v \div 16384) % 4
  BY <1>0, EightDigits
<1>2. part \in Seq(Bytes)
  BY <1>0, EightBytes
<1>3. Len(part) = 8
  BY <1>0, EightBytes
<1>4. Holds(bs, at, part, 8)
  OBVIOUS
<1> HIDE DEF part
<1>5. \A i \in 1..8 : bs[at + i] = part[i] /\ part[i] \in Bytes
  <2>1. \A i \in 1..Len(part) : part[i] \in Bytes
    BY <1>2
  <2>2. \A i \in 1..8 : i \in Nat /\ 1 <= i /\ i <= 8
    OBVIOUS
  <2> QED  BY <1>3, <1>4, <2>1, <2>2, Zenon DEF Holds
<1>6. GetUint(bs, at, 8) = part[1] + 4 * part[2] + 16 * part[3] + 64 * part[4] + 256 * part[5]
                              + 1024 * part[6] + 4096 * part[7] + 16384 * part[8]
  <2>1. GetUint(bs, at, 8) = bs[at + 1] + 4 * bs[at + 2] + 16 * bs[at + 3]
                                + 64 * bs[at + 4] + 256 * bs[at + 5] + 1024 * bs[at + 6]
                                + 4096 * bs[at + 7] + 16384 * bs[at + 8]
    BY <1>5, GetEight
  <2> QED  BY <1>5, <2>1
<1>7. v = (v % 4) + 4 * ((v \div 4) % 4) + 16 * ((v \div 16) % 4) + 64 * ((v \div 64) % 4)
            + 256 * ((v \div 256) % 4) + 1024 * ((v \div 1024) % 4)
            + 4096 * ((v \div 4096) % 4) + 16384 * ((v \div 16384) % 4)
  BY <1>0, WordDigits
<1> QED  BY <1>1, <1>6, <1>7

\* put after get: the bytes come back.
LEMMA BytesBackFour ==
    ASSUME NEW bs, NEW at \in Nat, IsBytes(bs, at, 4)
    PROVE  /\ GetUint(bs, at, 4) \in Halves
           /\ Holds(bs, at, PutUint(GetUint(bs, at, 4), 4), 4)
<1>0. \A i \in 1..4 : bs[at + i] \in Bytes
  BY DEF IsBytes
<1>1. PICK a \in Bytes, b \in Bytes, c \in Bytes, d \in Bytes :
        a = bs[at + 1] /\ b = bs[at + 2] /\ c = bs[at + 3] /\ d = bs[at + 4]
  BY <1>0
<1>2. PICK v : v = a + 4 * b + 16 * c + 64 * d
  OBVIOUS
<1>3. GetUint(bs, at, 4) = v
  <2>1. GetUint(bs, at, 4) = bs[at + 1] + 4 * bs[at + 2] + 16 * bs[at + 3]
                                + 64 * bs[at + 4]
    BY <1>0, GetFour
  <2> QED  BY <1>1, <1>2, <2>1
<1>4. /\ v \in Nat /\ v < 256
      /\ v % 4 = a /\ (v \div 4) % 4 = b /\ (v \div 16) % 4 = c /\ (v \div 64) % 4 = d
  <2>1. /\ a \in Nat /\ b \in Nat /\ c \in Nat /\ d \in Nat
        /\ a < 4 /\ b < 4 /\ c < 4 /\ d < 4
    BY <1>1 DEF Bytes
  <2>2. v \in Nat /\ v < 256
    BY <1>2, <2>1
  <2>3. v % 4 = a /\ (v \div 4) % 4 = b
    BY <1>2, <2>1
  <2>4. (v \div 16) % 4 = c /\ (v \div 64) % 4 = d
    BY <1>2, <2>1
  <2> QED  BY <2>2, <2>3, <2>4
<1> DEFINE part == PutUint(v, 4)
<1>5. part[1] = a /\ part[2] = b /\ part[3] = c /\ part[4] = d
  BY <1>4, PutFour
<1> HIDE DEF part
<1>6. \A i \in Nat : 1 <= i /\ i <= 4 => i = 1 \/ i = 2 \/ i = 3 \/ i = 4
  OBVIOUS
<1>7. Holds(bs, at, part, 4)
  BY <1>1, <1>5, <1>6 DEF Holds
<1> QED  BY <1>3, <1>4, <1>7 DEF part, Halves

LEMMA BytesBackEight ==
    ASSUME NEW bs, NEW at \in Nat, IsBytes(bs, at, 8)
    PROVE  /\ GetUint(bs, at, 8) \in Words
           /\ Holds(bs, at, PutUint(GetUint(bs, at, 8), 8), 8)
<1>0. \A i \in 1..8 : bs[at + i] \in Bytes
  BY DEF IsBytes
<1>1. PICK a \in Bytes, b \in Bytes, c \in Bytes, d \in Bytes :
        a = bs[at + 1] /\ b = bs[at + 2] /\ c = bs[at + 3] /\ d = bs[at + 4]
  BY <1>0
<1>2. PICK e \in Bytes, f \in Bytes, g \in Bytes, h \in Bytes :
        e = bs[at + 5] /\ f = bs[at + 6] /\ g = bs[at + 7] /\ h = bs[at + 8]
  BY <1>0
<1>3. PICK u : u = a + 4 * b + 16 * c + 64 * d
  OBVIOUS
<1>4. PICK w : w = e + 4 * f + 16 * g + 64 * h
  OBVIOUS
<1>5. /\ u \in Nat /\ u < 256
      /\ u % 4 = a /\ (u \div 4) % 4 = b /\ (u \div 16) % 4 = c /\ (u \div 64) % 4 = d
  <2>1. /\ a \in Nat /\ b \in Nat /\ c \in Nat /\ d \in Nat
        /\ a < 4 /\ b < 4 /\ c < 4 /\ d < 4
    BY <1>1 DEF Bytes
  <2>2. u \in Nat /\ u < 256
    BY <1>3, <2>1
  <2>3. u % 4 = a /\ (u \div 4) % 4 = b
    BY <1>3, <2>1
  <2>4. (u \div 16) % 4 = c /\ (u \div 64) % 4 = d
    BY <1>3, <2>1
  <2> QED  BY <2>2, <2>3, <2>4
<1>6. /\ w \in Nat /\ w < 256
      /\ w % 4 = e /\ (w \div 4) % 4 = f /\ (w \div 16) % 4 = g /\ (w \div 64) % 4 = h
  <2>1. /\ e \in Nat /\ f \in Nat /\ g \in Nat /\ h \in Nat
        /\ e < 4 /\ f < 4 /\ g < 4 /\ h < 4
    BY <1>2 DEF Bytes
  <2>2. w \in Nat /\ w < 256
    BY <1>4, <2>1
  <2>3. w % 4 = e /\ (w \div 4) % 4 = f
    BY <1>4, <2>1
  <2>4. (w \div 16) % 4 = g /\ (w \div 64) % 4 = h
    BY <1>4, <2>1
  <2> QED  BY <2>2, <2>3, <2>4
<1>7. PICK v : v = u + 256 * w
  OBVIOUS
<1>8. v \in Nat /\ v < 65536
  BY <1>5, <1>6, <1>7
<1>9. GetUint(bs, at, 8) = v
  <2>1. GetUint(bs, at, 8) = bs[at + 1] + 4 * bs[at + 2] + 16 * bs[at + 3]
                                + 64 * bs[at + 4] + 256 * bs[at + 5] + 1024 * bs[at + 6]
                                + 4096 * bs[at + 7] + 16384 * bs[at + 8]
    BY <1>0, GetEight
  <2>2. GetUint(bs, at, 8) = a + 4 * b + 16 * c + 64 * d + 256 * e + 1024 * f + 4096 * g
                                + 16384 * h
    BY <1>1, <1>2, <2>1
  <2>3. v = a + 4 * b + 16 * c + 64 * d + 256 * e + 1024 * f + 4096 * g + 16384 * h
    <3>1. /\ a \in Int /\ b \in Int /\ c \in Int /\ d \in Int
          /\ e \in Int /\ f \in Int /\ g \in Int /\ h \in Int
      BY <1>1, <1>2 DEF Bytes
    <3> QED  BY <1>3, <1>4, <1>7, <3>1
  <2> QED  BY <2>2, <2>3
<1>10. /\ v % 4 = u % 4 /\ (v \div 4) % 4 = (u \div 4) % 4
       /\ (v \div 16) % 4 = (u \div 16) % 4 /\ (v \div 64) % 4 = (u \div 64) % 4
  BY <1>5, <1>6, <1>7
<1>11. /\ (v \div 256) % 4 = w % 4 /\ (v \div 1024) % 4 = (w \div 4) % 4
       /\ (v \div 4096) % 4 = (w \div 16) % 4 /\ (v \div 16384) % 4 = (w \div 64) % 4
  BY <1>5, <1>6, <1>7
<1> DEFINE part == PutUint(v, 8)
<1>12. /\ part[1] = v % 4 /\ part[2] = (v \div 4) % 4 /\ part[3] = (v \div 16) % 4 /\ part[4] = (v \div 64) % 4
       /\ part[5] = (v \div 256) % 4 /\ part[6] = (v \div 1024) % 4
       /\ part[7] = (v \div 4096) % 4 /\ part[8] = (v \div 16384) % 4
  <2>1. part = [i \in 1..8 |-> (v \div Power(Byte, i - 1)) % 4]
    BY Widths DEF PutUint
  <2> HIDE DEF part
  <2> QED  BY <1>8, <2>1, PowersOfByte
<1> HIDE DEF part
<1>13. part[1] = a /\ part[2] = b /\ part[3] = c /\ part[4] = d /\ part[5] = e /\ part[6] = f /\ part[7] = g /\ part[8] = h
  BY <1>5, <1>6, <1>10, <1>11, <1>12
<1>14. \A i \in Nat : 1 <= i /\ i <= 8 =>
         i = 1 \/ i = 2 \/ i = 3 \/ i = 4 \/ i = 5 \/ i = 6 \/ i = 7 \/ i = 8
  OBVIOUS
<1>15. Holds(bs, at, part, 8)
  BY <1>1, <1>2, <1>13, <1>14 DEF Holds
<1> QED  BY <1>7, <1>8, <1>9, <1>15 DEF part, Words

-----------------------------------------------------------------------------
(* Where the fields are, in a record and in what the checksum sees.        *)

\* The messages that a record can hold.
Messages == [stream_id : Halves, ts_ns : {n \in Int : -32768 <= n /\ n < 32768},
             value : Words, seq : Words]

\* The fields of m are at these offsets of bs.
FieldsAt(bs, m, a, b, c, d) ==
    /\ Holds(bs, a, PutUint(m.stream_id, 4), 4)
    /\ Holds(bs, b, PutUint(m.ts_ns % Max64, 8), 8)
    /\ Holds(bs, c, PutUint(m.value, 8), 8)
    /\ Holds(bs, d, PutUint(m.seq, 8), 8)

\* Sequence a is n bytes; b is put after a.
Part(a, n) == a \in Seq(Bytes) /\ Len(a) = n
Join(a, b) == a \o b

LEMMA Joined ==
    ASSUME NEW a, NEW b, NEW k \in Nat, NEW l \in Nat, Part(a, k), Part(b, l)
    PROVE  /\ Part(Join(a, b), k + l)
           /\ Holds(Join(a, b), k, b, l)
           /\ \A part : \A at, n \in Nat :
                 at + n <= k /\ Holds(a, at, part, n) => Holds(Join(a, b), at, part, n)
<1> DEFINE c == Join(a, b)
<1>0. a \in Seq(Bytes) /\ b \in Seq(Bytes) /\ Len(a) = k /\ Len(b) = l
  BY DEF Part
<1>1. c \in Seq(Bytes) /\ Len(c) = k + l
  BY <1>0 DEF Join
<1>2. \A i \in 1..k : c[i] = a[i]
  BY <1>0 DEF Join
<1>3. \A i \in 1..l : c[k + i] = b[i]
  BY <1>0 DEF Join
<1> HIDE DEF c
<1>4. Holds(c, k, b, l)
  BY <1>3 DEF Holds
<1>5. ASSUME NEW at \in Nat, NEW part, NEW n \in Nat, at + n <= k, Holds(a, at, part, n)
      PROVE  Holds(c, at, part, n)
  <2> SUFFICES ASSUME NEW i \in Nat, 1 <= i, i <= n PROVE c[at + i] = part[i]
    BY DEF Holds
  <2>1. at + i \in 1..k
    BY <1>5
  <2>2. a[at + i] = part[i]
    BY <1>5 DEF Holds
  <2> QED  BY <1>2, <2>1, <2>2
<1>6. Part(c, k + l)
  BY <1>1 DEF Part
<1> QED  BY <1>4, <1>5, <1>6 DEF c

LEMMA ZerosAreBytes == ASSUME NEW n \in Nat PROVE Zeros(n) \in Seq(Bytes) /\ Len(Zeros(n)) = n
<1>1. Zeros(n) \in [1..n -> Bytes]
  BY DEF Zeros, Bytes
<1> QED  BY <1>1, FunctionIsSeq

LEMMA HoldsAll == ASSUME NEW a \in Seq(Bytes) PROVE Holds(a, 0, a, Len(a))
<1>1. \A i \in Nat : 0 + i = i
  OBVIOUS
<1> QED  BY <1>1 DEF Holds

\* The fields of a message, as numbers.
LEMMA FieldNumbers ==
    ASSUME NEW m \in Messages
    PROVE  /\ m.stream_id \in Nat /\ m.value \in Nat /\ m.seq \in Nat
           /\ m.stream_id \in Halves /\ m.value \in Words /\ m.seq \in Words
           /\ m.ts_ns % Max64 \in Nat /\ m.ts_ns % Max64 \in Words
           /\ m.ts_ns = IF m.ts_ns % Max64 >= Max64 \div 2 THEN (m.ts_ns % Max64) - Max64
                        ELSE m.ts_ns % Max64
<1>1. /\ m.stream_id \in Halves /\ m.value \in Words /\ m.seq \in Words
  BY DEF Messages
<1>2. m.ts_ns \in Int /\ -32768 <= m.ts_ns /\ m.ts_ns < 32768
  BY DEF Messages
<1>3. PICK t : t = m.ts_ns
  OBVIOUS
<1>4. t \in Int /\ -32768 <= t /\ t < 32768
  BY <1>2, <1>3
<1>5. /\ t % 65536 \in Nat /\ t % 65536 < 65536
      /\ t = IF t % 65536 >= 32768 THEN (t % 65536) - 65536 ELSE t % 65536
  BY <1>4
<1>6. Max64 \div 2 = 32768
  BY Widths
<1>7. t % 65536 \in Words
  BY <1>5 DEF Words
<1>8. m.stream_id \in Nat /\ m.value \in Nat /\ m.seq \in Nat
  BY <1>1 DEF Halves, Words
<1> QED  BY <1>1, <1>3, <1>5, <1>6, <1>7, <1>8, Widths

\* encode_record puts the fields at 0, 8, 16 and 24.
LEMMA EncodeLayout ==
    ASSUME NEW m \in Messages
    PROVE  /\ EncodeRecord(m) \in Seq(Bytes) /\ Len(EncodeRecord(m)) = kRecordBytes
           /\ FieldsAt(EncodeRecord(m), m, 0, 8, 16, 24)
<1>0. /\ m.stream_id \in Nat /\ m.value \in Nat /\ m.seq \in Nat /\ m.ts_ns % Max64 \in Nat
  BY FieldNumbers
<1>1. PICK s : s = PutUint(m.stream_id, 4) /\ Part(s, 4) /\ Holds(s, 0, s, 4)
  <2>1. PICK a : a = PutUint(m.stream_id, 4) /\ a \in Seq(Bytes) /\ Len(a) = 4
    BY <1>0, PutFour
  <2>2. Holds(a, 0, a, Len(a))
    BY <2>1, HoldsAll
  <2> QED  BY <2>1, <2>2, Zenon DEF Part
<1>2. PICK t : t = PutUint(m.ts_ns % Max64, 8) /\ Part(t, 8)
  BY <1>0, EightBytes DEF Part
<1>3. PICK v : v = PutUint(m.value, 8) /\ Part(v, 8)
  BY <1>0, EightBytes DEF Part
<1>4. PICK q : q = PutUint(m.seq, 8) /\ Part(q, 8)
  BY <1>0, EightBytes DEF Part
<1>5. PICK y : y = Zeros(4) /\ Part(y, 4)
  BY ZerosAreBytes DEF Part
<1>6. PICK z : z = Zeros(32) /\ Part(z, 32)
  BY ZerosAreBytes DEF Part
<1>7. EncodeRecord(m) = Join(Join(Join(Join(Join(s, y), t), v), q), z)
  BY <1>1, <1>2, <1>3, <1>4, <1>5, <1>6, Zenon DEF EncodeRecord, Join
<1>8. PICK b : /\ b = Join(s, y) /\ Part(b, 8)
               /\ Holds(b, 0, s, 4)
  <2> DEFINE b == Join(s, y)
  <2>1. /\ Part(b, 4 + 4) /\ Holds(b, 4, y, 4)
        /\ \A part : \A at, n \in Nat :
              at + n <= 4 /\ Holds(s, at, part, n) => Holds(b, at, part, n)
    BY <1>1, <1>5, Joined
  <2> HIDE DEF b
  <2>2. Part(b, 8)
    BY <2>1
  <2>3. Holds(b, 0, s, 4)
    <3>1. 0 \in Nat /\ 4 \in Nat /\ 0 + 4 <= 4
      OBVIOUS
    <3> QED  BY <1>1, <1>5, <2>1, <3>1, Zenon
  <2> QED  BY <2>1, <2>2, <2>3 DEF b
<1>9. PICK c : /\ c = Join(b, t) /\ Part(c, 16)
               /\ Holds(c, 0, s, 4) /\ Holds(c, 8, t, 8)
  <2> DEFINE c == Join(b, t)
  <2>1. /\ Part(c, 8 + 8) /\ Holds(c, 8, t, 8)
        /\ \A part : \A at, n \in Nat :
              at + n <= 8 /\ Holds(b, at, part, n) => Holds(c, at, part, n)
    BY <1>2, <1>8, Joined
  <2> HIDE DEF c
  <2>2. Part(c, 16)
    BY <2>1
  <2>3. Holds(c, 0, s, 4)
    <3>1. 0 \in Nat /\ 4 \in Nat /\ 0 + 4 <= 8
      OBVIOUS
    <3> QED  BY <1>2, <1>8, <2>1, <3>1, Zenon
  <2> QED  BY <2>1, <2>2, <2>3 DEF c
<1>10. PICK d : /\ d = Join(c, v) /\ Part(d, 24)
               /\ Holds(d, 0, s, 4) /\ Holds(d, 8, t, 8) /\ Holds(d, 16, v, 8)
  <2> DEFINE d == Join(c, v)
  <2>1. /\ Part(d, 16 + 8) /\ Holds(d, 16, v, 8)
        /\ \A part : \A at, n \in Nat :
              at + n <= 16 /\ Holds(c, at, part, n) => Holds(d, at, part, n)
    BY <1>3, <1>9, Joined
  <2> HIDE DEF d
  <2>2. Part(d, 24)
    BY <2>1
  <2>3. Holds(d, 0, s, 4) /\ Holds(d, 8, t, 8)
    <3>1. 0 \in Nat /\ 4 \in Nat /\ 8 \in Nat /\ 0 + 4 <= 16 /\ 8 + 8 <= 16
      OBVIOUS
    <3> QED  BY <1>3, <1>9, <2>1, <3>1, Zenon
  <2> QED  BY <2>1, <2>2, <2>3 DEF d
<1>11. PICK e : /\ e = Join(d, q) /\ Part(e, 32)
               /\ Holds(e, 0, s, 4) /\ Holds(e, 8, t, 8) /\ Holds(e, 16, v, 8) /\ Holds(e, 24, q, 8)
  <2> DEFINE e == Join(d, q)
  <2>1. /\ Part(e, 24 + 8) /\ Holds(e, 24, q, 8)
        /\ \A part : \A at, n \in Nat :
              at + n <= 24 /\ Holds(d, at, part, n) => Holds(e, at, part, n)
    BY <1>4, <1>10, Joined
  <2> HIDE DEF e
  <2>2. Part(e, 32)
    BY <2>1
  <2>3. Holds(e, 0, s, 4) /\ Holds(e, 8, t, 8) /\ Holds(e, 16, v, 8)
    <3>1. 0 \in Nat /\ 4 \in Nat /\ 8 \in Nat /\ 16 \in Nat /\ 0 + 4 <= 24 /\ 8 + 8 <= 24 /\ 16 + 8 <= 24
      OBVIOUS
    <3> QED  BY <1>4, <1>10, <2>1, <3>1, Zenon
  <2> QED  BY <2>1, <2>2, <2>3 DEF e
<1>12. PICK f : /\ f = Join(e, z) /\ Part(f, 64)
               /\ Holds(f, 0, s, 4) /\ Holds(f, 8, t, 8) /\ Holds(f, 16, v, 8) /\ Holds(f, 24, q, 8)
  <2> DEFINE f == Join(e, z)
  <2>1. /\ Part(f, 32 + 32) /\ Holds(f, 32, z, 32)
        /\ \A part : \A at, n \in Nat :
              at + n <= 32 /\ Holds(e, at, part, n) => Holds(f, at, part, n)
    BY <1>6, <1>11, Joined
  <2> HIDE DEF f
  <2>2. Part(f, 64)
    BY <2>1
  <2>3. Holds(f, 0, s, 4) /\ Holds(f, 8, t, 8) /\ Holds(f, 16, v, 8) /\ Holds(f, 24, q, 8)
    <3>1. 0 \in Nat /\ 4 \in Nat /\ 8 \in Nat /\ 16 \in Nat /\ 24 \in Nat /\ 0 + 4 <= 32 /\ 8 + 8 <= 32 /\ 16 + 8 <= 32 /\ 24 + 8 <= 32
      OBVIOUS
    <3> QED  BY <1>6, <1>11, <2>1, <3>1, Zenon
  <2> QED  BY <2>1, <2>2, <2>3 DEF f
<1>13. EncodeRecord(m) = f
  BY <1>7, <1>8, <1>9, <1>10, <1>11, <1>12
<1>14. FieldsAt(f, m, 0, 8, 16, 24)
  BY <1>1, <1>2, <1>3, <1>4, <1>12 DEF FieldsAt
<1> QED  BY <1>12, <1>13, <1>14 DEF kRecordBytes, Part

\* What the checksum sees has them at 0, 4, 12 and 20.
LEMMA ContentLayout ==
    ASSUME NEW m \in Messages
    PROVE  /\ ContentBytes(m) \in Seq(Bytes) /\ Len(ContentBytes(m)) = 28
           /\ FieldsAt(ContentBytes(m), m, 0, 4, 12, 20)
<1>0. /\ m.stream_id \in Nat /\ m.value \in Nat /\ m.seq \in Nat /\ m.ts_ns % Max64 \in Nat
  BY FieldNumbers
<1>1. PICK s : s = PutUint(m.stream_id, 4) /\ Part(s, 4) /\ Holds(s, 0, s, 4)
  <2>1. PICK a : a = PutUint(m.stream_id, 4) /\ a \in Seq(Bytes) /\ Len(a) = 4
    BY <1>0, PutFour
  <2>2. Holds(a, 0, a, Len(a))
    BY <2>1, HoldsAll
  <2> QED  BY <2>1, <2>2, Zenon DEF Part
<1>2. PICK t : t = PutUint(m.ts_ns % Max64, 8) /\ Part(t, 8)
  BY <1>0, EightBytes DEF Part
<1>3. PICK v : v = PutUint(m.value, 8) /\ Part(v, 8)
  BY <1>0, EightBytes DEF Part
<1>4. PICK q : q = PutUint(m.seq, 8) /\ Part(q, 8)
  BY <1>0, EightBytes DEF Part
<1>5. ContentBytes(m) = Join(Join(Join(s, t), v), q)
  BY <1>1, <1>2, <1>3, <1>4, Zenon DEF ContentBytes, Join
<1>6. PICK c : /\ c = Join(s, t) /\ Part(c, 12)
               /\ Holds(c, 0, s, 4) /\ Holds(c, 4, t, 8)
  <2> DEFINE c == Join(s, t)
  <2>1. /\ Part(c, 4 + 8) /\ Holds(c, 4, t, 8)
        /\ \A part : \A at, n \in Nat :
              at + n <= 4 /\ Holds(s, at, part, n) => Holds(c, at, part, n)
    BY <1>1, <1>2, Joined
  <2> HIDE DEF c
  <2>2. Part(c, 12)
    BY <2>1
  <2>3. Holds(c, 0, s, 4)
    <3>1. 0 \in Nat /\ 4 \in Nat /\ 0 + 4 <= 4
      OBVIOUS
    <3> QED  BY <1>1, <1>2, <2>1, <3>1, Zenon
  <2> QED  BY <2>1, <2>2, <2>3 DEF c
<1>7. PICK d : /\ d = Join(c, v) /\ Part(d, 20)
               /\ Holds(d, 0, s, 4) /\ Holds(d, 4, t, 8) /\ Holds(d, 12, v, 8)
  <2> DEFINE d == Join(c, v)
  <2>1. /\ Part(d, 12 + 8) /\ Holds(d, 12, v, 8)
        /\ \A part : \A at, n \in Nat :
              at + n <= 12 /\ Holds(c, at, part, n) => Holds(d, at, part, n)
    BY <1>3, <1>6, Joined
  <2> HIDE DEF d
  <2>2. Part(d, 20)
    BY <2>1
  <2>3. Holds(d, 0, s, 4) /\ Holds(d, 4, t, 8)
    <3>1. 0 \in Nat /\ 4 \in Nat /\ 8 \in Nat /\ 0 + 4 <= 12 /\ 4 + 8 <= 12
      OBVIOUS
    <3> QED  BY <1>3, <1>6, <2>1, <3>1, Zenon
  <2> QED  BY <2>1, <2>2, <2>3 DEF d
<1>8. PICK e : /\ e = Join(d, q) /\ Part(e, 28)
               /\ Holds(e, 0, s, 4) /\ Holds(e, 4, t, 8) /\ Holds(e, 12, v, 8) /\ Holds(e, 20, q, 8)
  <2> DEFINE e == Join(d, q)
  <2>1. /\ Part(e, 20 + 8) /\ Holds(e, 20, q, 8)
        /\ \A part : \A at, n \in Nat :
              at + n <= 20 /\ Holds(d, at, part, n) => Holds(e, at, part, n)
    BY <1>4, <1>7, Joined
  <2> HIDE DEF e
  <2>2. Part(e, 28)
    BY <2>1
  <2>3. Holds(e, 0, s, 4) /\ Holds(e, 4, t, 8) /\ Holds(e, 12, v, 8)
    <3>1. 0 \in Nat /\ 4 \in Nat /\ 8 \in Nat /\ 12 \in Nat /\ 0 + 4 <= 20 /\ 4 + 8 <= 20 /\ 12 + 8 <= 20
      OBVIOUS
    <3> QED  BY <1>4, <1>7, <2>1, <3>1, Zenon
  <2> QED  BY <2>1, <2>2, <2>3 DEF e
<1>9. ContentBytes(m) = e
  BY <1>5, <1>6, <1>7, <1>8
<1>10. FieldsAt(e, m, 0, 4, 12, 20)
  BY <1>1, <1>2, <1>3, <1>4, <1>8 DEF FieldsAt
<1> QED  BY <1>8, <1>9, <1>10 DEF Part

\* decode_record gives back the message whose fields the record holds ...
LEMMA DecodeGivesBack ==
    ASSUME NEW m \in Messages, NEW bs, FieldsAt(bs, m, 0, 8, 16, 24)
    PROVE  DecodeRecord(bs) = m
<1>1. /\ m.stream_id \in Halves /\ m.value \in Words /\ m.seq \in Words
      /\ m.ts_ns % Max64 \in Words
      /\ m.ts_ns = IF m.ts_ns % Max64 >= Max64 \div 2 THEN (m.ts_ns % Max64) - Max64
                   ELSE m.ts_ns % Max64
  BY FieldNumbers
<1>2. GetUint(bs, 0, 4) = m.stream_id
  <2>1. Holds(bs, 0, PutUint(m.stream_id, 4), 4) /\ 0 \in Nat
    BY DEF FieldsAt
  <2> QED  BY <1>1, <2>1, NumberBackFour
<1>3. GetUint(bs, 8, 8) = m.ts_ns % Max64
  <2>1. Holds(bs, 8, PutUint(m.ts_ns % Max64, 8), 8) /\ 8 \in Nat
    BY DEF FieldsAt
  <2> QED  BY <1>1, <2>1, NumberBackEight
<1>4. GetUint(bs, 16, 8) = m.value
  <2>1. Holds(bs, 16, PutUint(m.value, 8), 8) /\ 16 \in Nat
    BY DEF FieldsAt
  <2> QED  BY <1>1, <2>1, NumberBackEight
<1>5. GetUint(bs, 24, 8) = m.seq
  <2>1. Holds(bs, 24, PutUint(m.seq, 8), 8) /\ 24 \in Nat
    BY DEF FieldsAt
  <2> QED  BY <1>1, <2>1, NumberBackEight
<1>6. DecodeRecord(bs) = [stream_id |-> m.stream_id, ts_ns |-> m.ts_ns, value |-> m.value,
                           seq |-> m.seq]
  BY <1>1, <1>2, <1>3, <1>4, <1>5, Zenon DEF DecodeRecord
<1>7. m = [stream_id |-> m.stream_id, ts_ns |-> m.ts_ns, value |-> m.value, seq |-> m.seq]
  BY DEF Messages
<1> QED  BY <1>6, <1>7, Zenon

\* ... and of any bytes makes a message that has them as its fields.
LEMMA DecodeHolds ==
    ASSUME NEW bs, IsBytes(bs, 0, 64)
    PROVE  /\ DecodeRecord(bs) \in Messages
           /\ FieldsAt(bs, DecodeRecord(bs), 0, 8, 16, 24)
<1> DEFINE d == DecodeRecord(bs)
<1>1. IsBytes(bs, 0, 4)
  BY DEF IsBytes
<1>2. ASSUME NEW at \in Nat, at + 8 <= 64 PROVE IsBytes(bs, at, 8)
  <2> SUFFICES ASSUME NEW i \in Nat, 1 <= i, i <= 8 PROVE bs[at + i] \in Bytes
    BY DEF IsBytes
  <2>1. at + i \in Nat /\ 1 <= at + i /\ at + i <= 64 /\ 0 + (at + i) = at + i
    BY <1>2
  <2> QED  BY <2>1 DEF IsBytes
<1>3. PICK s \in Halves : s = GetUint(bs, 0, 4) /\ Holds(bs, 0, PutUint(s, 4), 4)
  BY <1>1, BytesBackFour
<1>4. PICK t \in Words : t = GetUint(bs, 8, 8) /\ Holds(bs, 8, PutUint(t, 8), 8)
  <2>1. IsBytes(bs, 8, 8)
    BY <1>2
  <2> QED  BY <2>1, BytesBackEight
<1>5. PICK v \in Words : v = GetUint(bs, 16, 8) /\ Holds(bs, 16, PutUint(v, 8), 8)
  <2>1. IsBytes(bs, 16, 8)
    BY <1>2
  <2> QED  BY <2>1, BytesBackEight
<1>6. PICK q \in Words : q = GetUint(bs, 24, 8) /\ Holds(bs, 24, PutUint(q, 8), 8)
  <2>1. IsBytes(bs, 24, 8)
    BY <1>2
  <2> QED  BY <2>1, BytesBackEight
<1>7. PICK r : r = IF t >= 32768 THEN t - 65536 ELSE t
  OBVIOUS
<1>8. r \in Int /\ -32768 <= r /\ r < 32768 /\ r % 65536 = t
  <2>1. t \in Nat /\ t < 65536
    BY <1>4 DEF Words
  <2> QED  BY <1>7, <2>1
<1>9. Max64 = 65536 /\ Max64 \div 2 = 32768
  BY Widths
<1>10. d = [stream_id |-> s, ts_ns |-> r, value |-> v, seq |-> q]
  BY <1>3, <1>4, <1>5, <1>6, <1>7, <1>9 DEF DecodeRecord
<1> HIDE DEF d
<1>11. d \in Messages
  BY <1>3, <1>5, <1>6, <1>8, <1>10 DEF Messages
<1>12. d.stream_id = s /\ d.ts_ns % Max64 = t /\ d.value = v /\ d.seq = q
  BY <1>8, <1>9, <1>10
<1>13. FieldsAt(bs, d, 0, 8, 16, 24)
  BY <1>3, <1>4, <1>5, <1>6, <1>12 DEF FieldsAt
<1> QED  BY <1>11, <1>13 DEF d

\* The place in the record of the k-th byte that the checksum sees.
Place(k) == IF k <= 4 THEN k ELSE k + 4

LEMMA ContentIsTheFields ==
    ASSUME NEW m \in Messages, NEW bs, FieldsAt(bs, m, 0, 8, 16, 24),
           NEW k \in Nat, 1 <= k, k <= 28
    PROVE  ContentBytes(m)[k] = bs[Place(k)]
<1> DEFINE c == ContentBytes(m)
<1>1. FieldsAt(c, m, 0, 4, 12, 20)
  BY ContentLayout
<1> HIDE DEF c
<1>2. CASE k <= 4
  <2>1. PICK part : part = PutUint(m.stream_id, 4) /\ Holds(c, 0, part, 4) /\ Holds(bs, 0, part, 4)
    BY <1>1 DEF FieldsAt
  <2>2. c[0 + k] = part[k] /\ bs[0 + k] = part[k] /\ 0 + k = k
    BY <1>2, <2>1 DEF Holds
  <2> QED  BY <1>2, <2>2 DEF Place, c
<1>3. CASE 4 < k /\ k <= 12
  <2>1. PICK part : part = PutUint(m.ts_ns % Max64, 8) /\ Holds(c, 4, part, 8) /\ Holds(bs, 8, part, 8)
    BY <1>1 DEF FieldsAt
  <2>2. PICK i \in Nat : i = k - 4 /\ 1 <= i /\ i <= 8 /\ 4 + i = k /\ 8 + i = k + 4
    BY <1>3
  <2>3. c[4 + i] = part[i] /\ bs[8 + i] = part[i]
    BY <2>1, <2>2 DEF Holds
  <2> QED  BY <1>3, <2>2, <2>3 DEF Place, c
<1>4. CASE 12 < k /\ k <= 20
  <2>1. PICK part : part = PutUint(m.value, 8) /\ Holds(c, 12, part, 8) /\ Holds(bs, 16, part, 8)
    BY <1>1 DEF FieldsAt
  <2>2. PICK i \in Nat : i = k - 12 /\ 1 <= i /\ i <= 8 /\ 12 + i = k /\ 16 + i = k + 4
    BY <1>4
  <2>3. c[12 + i] = part[i] /\ bs[16 + i] = part[i]
    BY <2>1, <2>2 DEF Holds
  <2> QED  BY <1>4, <2>2, <2>3 DEF Place, c
<1>5. CASE 20 < k
  <2>1. PICK part : part = PutUint(m.seq, 8) /\ Holds(c, 20, part, 8) /\ Holds(bs, 24, part, 8)
    BY <1>1 DEF FieldsAt
  <2>2. PICK i \in Nat : i = k - 20 /\ 1 <= i /\ i <= 8 /\ 20 + i = k /\ 24 + i = k + 4
    BY <1>5
  <2>3. c[20 + i] = part[i] /\ bs[24 + i] = part[i]
    BY <2>1, <2>2 DEF Holds
  <2> QED  BY <1>5, <2>2, <2>3 DEF Place, c
<1> QED  BY <1>2, <1>3, <1>4, <1>5

-----------------------------------------------------------------------------
(* The checksum: every byte mixed in is a bijection of the hash, and every *)
(* hash a bijection of the byte.                                           *)

LEMMA XorType == ASSUME NEW h \in Words, NEW b \in Bytes PROVE Xor(h, b) \in Words
<1>1. h \in Nat /\ h < 65536 /\ b \in Nat /\ b < 4 /\ Byte = 4
  BY Widths DEF Words, Bytes
<1>2. PICK x : x = Xor(h, b)
  OBVIOUS
<1>3. x = (h \div 4) * 4 + ((h + b) % 2) + 2 * ((h \div 2 + b \div 2) % 2)
  BY <1>1, <1>2 DEF Xor
<1>4. x \in Nat /\ x < 65536
  BY <1>1, <1>3
<1> QED  BY <1>2, <1>4 DEF Words

LEMMA XorInjective ==
    ASSUME NEW h \in Words, NEW g \in Words, NEW b \in Bytes, NEW c \in Bytes,
           Xor(h, b) = Xor(g, c)
    PROVE  (b = c => h = g) /\ (h = g => b = c)
<1>1. /\ h \in Nat /\ h < 65536 /\ b \in Nat /\ b < 4 /\ Byte = 4
      /\ g \in Nat /\ g < 65536 /\ c \in Nat /\ c < 4
  BY Widths DEF Words, Bytes
<1>2. (h \div 4) * 4 + ((h + b) % 2) + 2 * ((h \div 2 + b \div 2) % 2)
        = (g \div 4) * 4 + ((g + c) % 2) + 2 * ((g \div 2 + c \div 2) % 2)
  BY <1>1 DEF Xor
<1>3. /\ h \div 4 = g \div 4 /\ (h + b) % 2 = (g + c) % 2
      /\ (h \div 2 + b \div 2) % 2 = (g \div 2 + c \div 2) % 2
  BY <1>1, <1>2
<1>4. ASSUME b = c PROVE h = g
  BY <1>1, <1>3, <1>4
<1>5. ASSUME h = g PROVE b = c
  BY <1>1, <1>3, <1>5
<1> QED  BY <1>4, <1>5

\* 435 * 38267 = 254 * 65536 + 1: the prime has an inverse.
LEMMA PrimeInvertible ==
    ASSUME NEW x \in Words, NEW y \in Words, (x * 435) % 65536 = (y * 435) % 65536
    PROVE  x = y
<1>1. x \in Nat /\ x < 65536 /\ y \in Nat /\ y < 65536
  BY DEF Words
<1> DEFINE part == (x * 435) \div 65536
           q == (y * 435) \div 65536
           r == (x * 435) % 65536
           z == 38267 * (part - q) - 254 * (x - y)
<1>2. x * 435 = 65536 * part + r /\ part \in Int /\ r \in Int
  BY <1>1
<1>3. y * 435 = 65536 * q + r /\ q \in Int
  BY <1>1
<1> HIDE DEF part, q, r
<1>4. x - y = 65536 * z
  BY <1>1, <1>2, <1>3
<1>5. z \in Int
  BY <1>1, <1>2, <1>3
<1> HIDE DEF z
<1> QED  BY <1>1, <1>4, <1>5

LEMMA MixType == ASSUME NEW h \in Words, NEW b \in Bytes PROVE Mix(h, b) \in Words
<1>1. PICK x \in Words : x = Xor(h, b)
  BY XorType
<1>2. x \in Nat
  BY <1>1 DEF Words
<1>3. (x * 435) % 65536 \in Nat /\ (x * 435) % 65536 < 65536
  BY <1>2
<1>4. Mix(h, b) = (x * 435) % 65536
  BY <1>1, Widths DEF Mix, kFnvPrime
<1> QED  BY <1>3, <1>4 DEF Words

LEMMA MixInjective ==
    ASSUME NEW h \in Words, NEW g \in Words, NEW b \in Bytes, NEW c \in Bytes,
           Mix(h, b) = Mix(g, c)
    PROVE  (b = c => h = g) /\ (h = g => b = c)
<1>1. PICK x \in Words : x = Xor(h, b)
  BY XorType
<1>2. PICK y \in Words : y = Xor(g, c)
  BY XorType
<1>3. (x * 435) % 65536 = (y * 435) % 65536
  BY <1>1, <1>2, Widths DEF Mix, kFnvPrime
<1>4. x = y
  BY <1>1, <1>2, <1>3, PrimeInvertible
<1>5. Xor(h, b) = Xor(g, c)
  BY <1>1, <1>2, <1>4
<1> QED  BY <1>5, XorInjective

\* The hashes of update, byte by byte.
Mixed(h, bytes) ==
    CHOOSE mixed : mixed = [i \in 0..Len(bytes) |->
                              IF i = 0 THEN h ELSE Mix(mixed[i - 1], bytes[i])]

LEMMA MixedExist ==
    ASSUME NEW h \in Words, NEW bytes \in Seq(Bytes), NEW n \in Nat, n = Len(bytes)
    PROVE  /\ Mixed(h, bytes)[0] = h
           /\ \A i \in 0..n : Mixed(h, bytes)[i] \in Words
           /\ \A i \in 1..n : Mixed(h, bytes)[i] = Mix(Mixed(h, bytes)[i - 1], bytes[i])
<1> DEFINE step == [i \in Nat |-> [v \in Words |-> IF i \in 1..n THEN Mix(v, bytes[i]) ELSE v]]
<1>0. \A i \in 1..n : bytes[i] \in Bytes
  OBVIOUS
<1>1. step \in StepsOn(Words)
  <2>1. \A i \in Nat : \A v \in Words : (IF i \in 1..n THEN Mix(v, bytes[i]) ELSE v) \in Words
    BY <1>0, MixType
  <2> QED  BY <2>1, Zenon DEF StepsOn
<1>2. \A i \in 1..n : \A v \in Words : step[i][v] = Mix(v, bytes[i])
  OBVIOUS
<1> HIDE DEF step
<1>3. PICK f \in [0..n -> Words] : f[0] = h /\ \A i \in 1..n : f[i] = step[i][f[i - 1]]
  <2>1. Solutions(Words, h, step, n) # {}
    BY <1>1, Recursion, Zenon
  <2> QED  BY <2>1 DEF Solutions
<1>4. ASSUME NEW i \in 1..n PROVE f[i] = Mix(f[i - 1], bytes[i])
  <2>1. f[i - 1] \in Words
    BY <1>3
  <2> QED  BY <1>2, <1>3, <2>1
<1>5. f = [i \in 0..n |-> IF i = 0 THEN h ELSE Mix(f[i - 1], bytes[i])]
  BY <1>3, <1>4
<1> DEFINE r == Mixed(h, bytes)
<1>6. r = [i \in 0..n |-> IF i = 0 THEN h ELSE Mix(r[i - 1], bytes[i])]
  BY <1>5, Zenon DEF Mixed
<1> HIDE DEF r
<1>7. r[0] = h /\ \A i \in 1..n : r[i] = Mix(r[i - 1], bytes[i])
  BY <1>6
<1> DEFINE S == {i \in Nat : i <= n => r[i] \in Words}
<1>8. 0 \in S /\ \A i \in Nat : i \in S => i + 1 \in S
  <2>1. ASSUME NEW i \in Nat, i \in S PROVE i + 1 \in S
    <3> SUFFICES ASSUME i + 1 <= n PROVE r[i + 1] \in Words
      OBVIOUS
    <3>1. i + 1 \in 1..n /\ r[i] \in Words /\ (i + 1) - 1 = i
      BY <2>1
    <3>2. r[i + 1] = Mix(r[i], bytes[i + 1]) /\ bytes[i + 1] \in Bytes
      BY <1>0, <1>7, <3>1
    <3> QED  BY <3>1, <3>2, MixType
  <2> QED  BY <1>7, <2>1
<1> HIDE DEF S
<1>9. \A i \in Nat : i \in S
  BY <1>8, Induct, Zenon
<1>10. \A i \in 0..n : r[i] \in Words
  BY <1>9 DEF S
<1> QED  BY <1>7, <1>10 DEF r

LEMMA UpdateIs == ASSUME NEW h, NEW m, NEW bytes, bytes = ContentBytes(m)
                  PROVE  UpdateHash(h, m) = Mixed(h, bytes)[Len(bytes)]
BY Zenon DEF UpdateHash, Mixed

\* Two runs over bytes that agree from k on stay apart once they are apart.
LEMMA BytesKeepApart ==
    ASSUME NEW n \in Nat, NEW b \in Seq(Bytes), NEW c \in Seq(Bytes), Len(b) = n, Len(c) = n,
           NEW h \in Words, NEW g \in Words, NEW k \in 0..n,
           Mixed(h, b)[k] # Mixed(g, c)[k],
           \A i \in 1..n : i > k => b[i] = c[i]
    PROVE  Mixed(h, b)[n] # Mixed(g, c)[n]
<1> DEFINE r == Mixed(h, b)
           s == Mixed(g, c)
<1>1. (\A i \in 0..n : r[i] \in Words) /\ \A i \in 1..n : r[i] = Mix(r[i - 1], b[i])
  BY MixedExist
<1>2. (\A i \in 0..n : s[i] \in Words) /\ \A i \in 1..n : s[i] = Mix(s[i - 1], c[i])
  BY MixedExist
<1>3. r[k] # s[k]
  OBVIOUS
<1> HIDE DEF r, s
<1> DEFINE S == {i \in Nat : k <= i /\ i <= n => r[i] # s[i]}
<1>4. 0 \in S
  BY <1>3
<1>5. ASSUME NEW i \in Nat, i \in S PROVE i + 1 \in S
  <2> SUFFICES ASSUME k <= i + 1, i + 1 <= n PROVE r[i + 1] # s[i + 1]
    OBVIOUS
  <2>1. CASE k = i + 1
    BY <1>3, <2>1
  <2>2. CASE k <= i
    <3>1. r[i] # s[i] /\ i + 1 \in 1..n /\ i \in 0..n /\ (i + 1) - 1 = i /\ i + 1 > k
      BY <1>5, <2>2
    <3>2. r[i + 1] = Mix(r[i], b[i + 1]) /\ s[i + 1] = Mix(s[i], c[i + 1])
      BY <1>1, <1>2, <3>1
    <3>3. b[i + 1] = c[i + 1] /\ b[i + 1] \in Bytes
      BY <3>1
    <3>4. r[i] \in Words /\ s[i] \in Words
      BY <1>1, <1>2, <3>1
    <3> QED  BY <3>1, <3>2, <3>3, <3>4, MixInjective
  <2> QED  BY <2>1, <2>2
<1> HIDE DEF S
<1>6. n \in S
  BY <1>4, <1>5, Induct, Zenon
<1> QED  BY <1>6 DEF S, r, s

\* Runs from the same hash over bytes that differ in one place end apart.
LEMMA BytesSeeChange ==
    ASSUME NEW n \in Nat, NEW b \in Seq(Bytes), NEW c \in Seq(Bytes), Len(b) = n, Len(c) = n,
           NEW h \in Words, NEW k \in 1..n, b[k] # c[k],
           \A i \in 1..n : i # k => b[i] = c[i]
    PROVE  Mixed(h, b)[n] # Mixed(h, c)[n]
<1> DEFINE r == Mixed(h, b)
           s == Mixed(h, c)
<1>5. r[0] = h /\ (\A i \in 0..n : r[i] \in Words) /\ \A i \in 1..n : r[i] = Mix(r[i - 1], b[i])
  BY MixedExist
<1>6. s[0] = h /\ (\A i \in 0..n : s[i] \in Words) /\ \A i \in 1..n : s[i] = Mix(s[i - 1], c[i])
  BY MixedExist
<1> HIDE DEF r, s
<1> DEFINE S == {i \in Nat : i < k => r[i] = s[i]}
<1>7. 0 \in S
  BY <1>5, <1>6
<1>8. ASSUME NEW i \in Nat, i \in S PROVE i + 1 \in S
  <2> SUFFICES ASSUME i + 1 < k PROVE r[i + 1] = s[i + 1]
    OBVIOUS
  <2>1. r[i] = s[i] /\ i + 1 \in 1..n /\ (i + 1) - 1 = i /\ i + 1 # k
    BY <1>8
  <2>2. r[i + 1] = Mix(r[i], b[i + 1]) /\ s[i + 1] = Mix(s[i], c[i + 1])
    BY <1>5, <1>6, <2>1
  <2>3. b[i + 1] = c[i + 1]
    BY <2>1
  <2> QED  BY <2>1, <2>2, <2>3
<1> HIDE DEF S
<1>9. \A i \in Nat : i \in S
  BY <1>7, <1>8, Induct, Zenon
<1>10. r[k - 1] = s[k - 1]
  <2>1. k - 1 \in Nat /\ k - 1 < k
    OBVIOUS
  <2> QED  BY <1>9, <2>1 DEF S
<1>11. r[k] # s[k]
  <2>1. r[k] = Mix(r[k - 1], b[k]) /\ s[k] = Mix(s[k - 1], c[k])
    BY <1>5, <1>6
  <2>2. b[k] \in Bytes /\ c[k] \in Bytes
    OBVIOUS
  <2>3. k - 1 \in 0..n
    OBVIOUS
  <2>4. r[k - 1] \in Words /\ s[k - 1] \in Words
    BY <1>5, <1>6, <2>3
  <2> QED  BY <1>10, <2>1, <2>2, <2>4, MixInjective
<1>12. k \in 0..n /\ \A i \in 1..n : i > k => b[i] = c[i]
  OBVIOUS
<1> QED  BY <1>11, <1>12, BytesKeepApart DEF r, s

\* update() keeps two hashes apart ...
LEMMA UpdateInjective ==
    ASSUME NEW m \in Messages, NEW h \in Words, NEW g \in Words, h # g
    PROVE  UpdateHash(h, m) # UpdateHash(g, m)
<1>1. PICK b \in Seq(Bytes) : b = ContentBytes(m)
  BY ContentLayout
<1>2. PICK n \in Nat : n = Len(b)
  OBVIOUS
<1>3. Mixed(h, b)[0] = h /\ Mixed(g, b)[0] = g /\ 0 \in 0..n
  BY <1>2, MixedExist
<1>4. Mixed(h, b)[0] # Mixed(g, b)[0]
  BY <1>3
<1>5. Mixed(h, b)[n] # Mixed(g, b)[n]
  BY <1>2, <1>3, <1>4, BytesKeepApart
<1> QED  BY <1>1, <1>2, <1>5, UpdateIs

\* ... and sees a change of one byte.
LEMMA UpdateSees ==
    ASSUME NEW m \in Messages, NEW d \in Messages, NEW h \in Words,
           NEW k \in Nat, 1 <= k, k <= 28, ContentBytes(m)[k] # ContentBytes(d)[k],
           \A i \in Nat : 1 <= i /\ i <= 28 /\ i # k => ContentBytes(m)[i] = ContentBytes(d)[i]
    PROVE  UpdateHash(h, m) # UpdateHash(h, d)
<1>1. PICK n \in Nat : n = 28
  OBVIOUS
<1>2. PICK b \in Seq(Bytes) : b = ContentBytes(m) /\ Len(b) = n
  BY <1>1, ContentLayout
<1>3. PICK c \in Seq(Bytes) : c = ContentBytes(d) /\ Len(c) = n
  BY <1>1, ContentLayout
<1>4. k \in 1..n /\ b[k] # c[k] /\ \A i \in 1..n : i # k => b[i] = c[i]
  <2>1. k \in 1..n
    BY <1>1
  <2>2. b[k] # c[k]
    BY <1>2, <1>3, Zenon
  <2>3. ASSUME NEW i \in 1..n, i # k PROVE b[i] = c[i]
    <3>1. i \in Nat /\ 1 <= i /\ i <= 28
      BY <1>1
    <3> QED  BY <1>2, <1>3, <2>3, <3>1, Zenon
  <2> QED  BY <2>1, <2>2, <2>3
<1>5. Mixed(h, b)[n] # Mixed(h, c)[n]
  BY <1>2, <1>3, <1>4, BytesSeeChange
<1>6. UpdateHash(h, m) = Mixed(h, b)[n] /\ UpdateHash(h, d) = Mixed(h, c)[n]
  BY <1>2, <1>3, UpdateIs
<1> QED  BY <1>5, <1>6

\* The hashes of a stream, message by message.
After(ms) ==
    CHOOSE after : after = [n \in 0..Len(ms) |->
                              IF n = 0 THEN kFnvOffsetBasis ELSE UpdateHash(after[n - 1], ms[n])]

LEMMA UpdateType == ASSUME NEW h \in Words, NEW m \in Messages PROVE UpdateHash(h, m) \in Words
<1>1. PICK b \in Seq(Bytes) : b = ContentBytes(m)
  BY ContentLayout
<1>2. PICK n \in Nat : n = Len(b) /\ n \in 0..n
  OBVIOUS
<1>3. Mixed(h, b)[n] \in Words
  BY <1>1, <1>2, MixedExist
<1> QED  BY <1>1, <1>2, <1>3, UpdateIs

LEMMA AfterExist ==
    ASSUME NEW ms \in Seq(Messages), NEW n \in Nat, n = Len(ms)
    PROVE  /\ \A i \in 0..n : After(ms)[i] \in Words
           /\ After(ms)[0] = kFnvOffsetBasis
           /\ \A i \in 1..n : After(ms)[i] = UpdateHash(After(ms)[i - 1], ms[i])
<1> DEFINE step == [i \in Nat |-> [v \in Words |-> IF i \in 1..n THEN UpdateHash(v, ms[i]) ELSE v]]
           h == kFnvOffsetBasis
<1>0. \A i \in 1..n : ms[i] \in Messages
  OBVIOUS
<1>1. step \in StepsOn(Words)
  <2>1. \A i \in Nat : \A v \in Words : (IF i \in 1..n THEN UpdateHash(v, ms[i]) ELSE v) \in Words
    BY <1>0, UpdateType
  <2> QED  BY <2>1, Zenon DEF StepsOn
<1>2. \A i \in 1..n : \A v \in Words : step[i][v] = UpdateHash(v, ms[i])
  OBVIOUS
<1> HIDE DEF step
<1>3. h \in Words
  BY DEF kFnvOffsetBasis, Words
<1> HIDE DEF h
<1>4. PICK f \in [0..n -> Words] : f[0] = h /\ \A i \in 1..n : f[i] = step[i][f[i - 1]]
  <2>1. Solutions(Words, h, step, n) # {}
    BY <1>1, <1>3, Recursion, Zenon
  <2> QED  BY <2>1 DEF Solutions
<1>5. ASSUME NEW i \in 1..n PROVE f[i] = UpdateHash(f[i - 1], ms[i])
  <2>1. f[i - 1] \in Words
    BY <1>4
  <2> QED  BY <1>2, <1>4, <2>1
<1>6. f = [i \in 0..n |-> IF i = 0 THEN h ELSE UpdateHash(f[i - 1], ms[i])]
  BY <1>4, <1>5
<1> DEFINE r == After(ms)
<1>7. r = [i \in 0..n |-> IF i = 0 THEN h ELSE UpdateHash(r[i - 1], ms[i])]
  BY <1>6, Zenon DEF After, h
<1> HIDE DEF r
<1>8. r[0] = h /\ \A i \in 1..n : r[i] = UpdateHash(r[i - 1], ms[i])
  BY <1>7
<1> DEFINE S == {i \in Nat : i <= n => r[i] \in Words}
<1>9. 0 \in S /\ \A i \in Nat : i \in S => i + 1 \in S
  <2>1. ASSUME NEW i \in Nat, i \in S PROVE i + 1 \in S
    <3> SUFFICES ASSUME i + 1 <= n PROVE r[i + 1] \in Words
      OBVIOUS
    <3>1. i + 1 \in 1..n /\ r[i] \in Words /\ (i + 1) - 1 = i
      BY <2>1
    <3>2. r[i + 1] = UpdateHash(r[i], ms[i + 1]) /\ ms[i + 1] \in Messages
      BY <1>0, <1>8, <3>1
    <3> QED  BY <3>1, <3>2, UpdateType
  <2> QED  BY <1>3, <1>8, <2>1
<1> HIDE DEF S
<1>10. \A i \in Nat : i \in S
  BY <1>9, Induct, Zenon
<1>11. \A i \in 0..n : r[i] \in Words
  BY <1>10 DEF S
<1> QED  BY <1>8, <1>11 DEF r, h

LEMMA DigestIs == ASSUME NEW ms PROVE Digest(ms) = After(ms)[Len(ms)]
BY Zenon DEF Digest, After

\* The digest sees a change of one byte of one message, whatever follows it.
LEMMA DigestSees ==
    ASSUME NEW n \in Nat, NEW ms \in Seq(Messages), NEW ds \in Seq(Messages),
           Len(ms) = n, Len(ds) = n, NEW k \in 1..n,
           \A i \in 1..n : i # k => ms[i] = ds[i],
           \A h \in Words : UpdateHash(h, ms[k]) # UpdateHash(h, ds[k])
    PROVE  Digest(ms) # Digest(ds)
<1> DEFINE r == After(ms)
           s == After(ds)
<1>1. /\ \A i \in 0..n : r[i] \in Words
      /\ r[0] = kFnvOffsetBasis /\ \A i \in 1..n : r[i] = UpdateHash(r[i - 1], ms[i])
  BY AfterExist
<1>2. /\ \A i \in 0..n : s[i] \in Words
      /\ s[0] = kFnvOffsetBasis /\ \A i \in 1..n : s[i] = UpdateHash(s[i - 1], ds[i])
  BY AfterExist
<1>3. Digest(ms) = r[n] /\ Digest(ds) = s[n]
  BY DigestIs
<1> HIDE DEF r, s
<1> DEFINE S == {i \in Nat : i <= n => (r[i] = s[i] <=> i < k)}
<1>4. 0 \in S
  BY <1>1, <1>2
<1>5. ASSUME NEW i \in Nat, i \in S PROVE i + 1 \in S
  <2> SUFFICES ASSUME i + 1 <= n PROVE r[i + 1] = s[i + 1] <=> i + 1 < k
    OBVIOUS
  <2>1. i + 1 \in 1..n /\ i \in 0..n /\ (i + 1) - 1 = i /\ (r[i] = s[i] <=> i < k)
    BY <1>5
  <2>2. r[i + 1] = UpdateHash(r[i], ms[i + 1]) /\ s[i + 1] = UpdateHash(s[i], ds[i + 1])
    BY <1>1, <1>2, <2>1
  <2>3. r[i] \in Words /\ s[i] \in Words
    BY <1>1, <1>2, <2>1
  <2>4. CASE i + 1 < k
    <3>1. r[i] = s[i] /\ ms[i + 1] = ds[i + 1]
      BY <2>1, <2>4
    <3> QED  BY <2>2, <2>4, <3>1
  <2>5. CASE i + 1 = k
    <3>1. r[i] = s[i] /\ ~(i + 1 < k)
      BY <2>1, <2>5
    <3>2. UpdateHash(r[i], ms[i + 1]) # UpdateHash(r[i], ds[i + 1])
      BY <2>3, <2>5
    <3> QED  BY <2>2, <3>1, <3>2
  <2>6. CASE i + 1 > k
    <3>1. r[i] # s[i] /\ ms[i + 1] = ds[i + 1] /\ ms[i + 1] \in Messages /\ ~(i + 1 < k)
      BY <2>1, <2>6
    <3>2. UpdateHash(r[i], ms[i + 1]) # UpdateHash(s[i], ms[i + 1])
      BY <2>3, <3>1, UpdateInjective
    <3> QED  BY <2>2, <3>1, <3>2
  <2> QED  BY <2>4, <2>5, <2>6
<1> HIDE DEF S
<1>6. n \in S
  BY <1>4, <1>5, Induct, Zenon
<1>7. r[n] # s[n]
  BY <1>6 DEF S
<1> QED  BY <1>3, <1>7

-----------------------------------------------------------------------------
(* The bytes of a record in the file, with what the storage did to them.   *)

Stored(m, n, harm) ==
    [i \in 1..kRecordBytes |-> IF harm = <<n, i>> THEN (EncodeRecord(m)[i] + 1) % Byte
                               ELSE EncodeRecord(m)[i]]

\* The places of a record that hold a field.
IsField(j) == (1 <= j /\ j <= 4) \/ (9 <= j /\ j <= 32)

LEMMA StoredBytes ==
    ASSUME NEW m \in Messages, NEW n, NEW harm
    PROVE  IsBytes(Stored(m, n, harm), 0, 64)
<1> DEFINE e == EncodeRecord(m)
<1>1. e \in Seq(Bytes)
  BY EncodeLayout
<1>2. Len(e) = kRecordBytes
  BY EncodeLayout
<1> HIDE DEF e
<1>3. kRecordBytes = 64
  BY DEF kRecordBytes
<1> SUFFICES ASSUME NEW i \in Nat, 1 <= i, i <= 64 PROVE Stored(m, n, harm)[0 + i] \in Bytes
  BY DEF IsBytes
<1>4. i \in 1..kRecordBytes
  BY <1>3
<1>5. e[i] \in Bytes
  BY <1>1, <1>2, <1>4
<1>6. (e[i] + 1) % 4 \in Bytes
  <2>1. e[i] \in Nat
    BY <1>5 DEF Bytes
  <2> QED  BY <2>1 DEF Bytes
<1>7. Stored(m, n, harm)[i] = e[i] \/ Stored(m, n, harm)[i] = (e[i] + 1) % 4
  BY <1>4, Widths DEF Stored, e
<1> QED  BY <1>5, <1>6, <1>7

\* A record whose fields are not harmed is read as the message it was ...
LEMMA UnharmedIsRead ==
    ASSUME NEW m \in Messages, NEW n, NEW harm, \A i \in Nat : IsField(i) => harm # <<n, i>>
    PROVE  DecodeRecord(Stored(m, n, harm)) = m
<1> DEFINE e == EncodeRecord(m)
           bs == Stored(m, n, harm)
<1>1. FieldsAt(e, m, 0, 8, 16, 24)
  BY EncodeLayout
<1>2. ASSUME NEW i \in Nat, IsField(i) PROVE bs[i] = e[i]
  <2>1. i \in 1..kRecordBytes
    BY <1>2 DEF IsField, kRecordBytes
  <2> QED  BY <1>2, <2>1 DEF Stored
<1> HIDE DEF e, bs
<1>3. ASSUME NEW at \in Nat, NEW part, NEW l \in Nat, Holds(e, at, part, l),
             \A i \in Nat : 1 <= i /\ i <= l => IsField(at + i)
      PROVE  Holds(bs, at, part, l)
  <2> SUFFICES ASSUME NEW i \in Nat, 1 <= i, i <= l PROVE bs[at + i] = part[i]
    BY DEF Holds
  <2>1. IsField(at + i) /\ at + i \in Nat
    BY <1>3
  <2>2. e[at + i] = part[i]
    BY <1>3 DEF Holds
  <2> QED  BY <1>2, <2>1, <2>2
<1>4. /\ \A i \in Nat : 1 <= i /\ i <= 4 => IsField(0 + i)
      /\ \A i \in Nat : 1 <= i /\ i <= 8 => IsField(8 + i) /\ IsField(16 + i) /\ IsField(24 + i)
  BY DEF IsField
<1>5. 0 \in Nat /\ 4 \in Nat /\ 8 \in Nat /\ 16 \in Nat /\ 24 \in Nat
  OBVIOUS
<1>6. FieldsAt(bs, m, 0, 8, 16, 24)
  <2>1. Holds(bs, 0, PutUint(m.stream_id, 4), 4)
    BY <1>1, <1>3, <1>4, <1>5, Zenon DEF FieldsAt
  <2>2. Holds(bs, 8, PutUint(m.ts_ns % Max64, 8), 8)
    BY <1>1, <1>3, <1>4, <1>5, Zenon DEF FieldsAt
  <2>3. Holds(bs, 16, PutUint(m.value, 8), 8)
    BY <1>1, <1>3, <1>4, <1>5, Zenon DEF FieldsAt
  <2>4. Holds(bs, 24, PutUint(m.seq, 8), 8)
    BY <1>1, <1>3, <1>4, <1>5, Zenon DEF FieldsAt
  <2> QED  BY <2>1, <2>2, <2>3, <2>4 DEF FieldsAt
<1> QED  BY <1>6, DecodeGivesBack DEF bs

\* ... and one with a harmed field as another message, which changes the hash.
LEMMA HarmIsSeen ==
    ASSUME NEW m \in Messages, NEW n, NEW j \in Nat, IsField(j), NEW h \in Words
    PROVE  /\ DecodeRecord(Stored(m, n, <<n, j>>)) \in Messages
           /\ UpdateHash(h, m) # UpdateHash(h, DecodeRecord(Stored(m, n, <<n, j>>)))
<1> DEFINE e == EncodeRecord(m)
           bs == Stored(m, n, <<n, j>>)
           d == DecodeRecord(bs)
<1>1. d \in Messages /\ FieldsAt(bs, d, 0, 8, 16, 24)
  BY StoredBytes, DecodeHolds
<1>2. FieldsAt(e, m, 0, 8, 16, 24)
  BY EncodeLayout
<1>3. ASSUME NEW i \in 1..kRecordBytes
      PROVE  e[i] \in Bytes /\ bs[i] = IF i = j THEN (e[i] + 1) % 4 ELSE e[i]
  <2>1. e \in Seq(Bytes) /\ Len(e) = kRecordBytes
    BY EncodeLayout
  <2>2. <<n, j>> = <<n, i>> <=> i = j
    OBVIOUS
  <2>3. bs[i] = IF <<n, j>> = <<n, i>> THEN (e[i] + 1) % 4 ELSE e[i]
    BY Widths DEF Stored
  <2> HIDE DEF e, bs
  <2>4. e[i] \in Bytes
    BY <2>1
  <2> QED  BY <2>2, <2>3, <2>4
<1> HIDE DEF e, bs, d
<1>4. ASSUME NEW k \in Nat, 1 <= k, k <= 28
      PROVE  /\ ContentBytes(m)[k] = e[Place(k)] /\ ContentBytes(d)[k] = bs[Place(k)]
             /\ Place(k) \in 1..kRecordBytes
  <2>1. ContentBytes(m)[k] = e[Place(k)]
    BY <1>2, <1>4, ContentIsTheFields
  <2>2. ContentBytes(d)[k] = bs[Place(k)]
    BY <1>1, <1>4, ContentIsTheFields
  <2>3. Place(k) \in 1..kRecordBytes
    BY <1>4 DEF Place, kRecordBytes
  <2> QED  BY <2>1, <2>2, <2>3
<1>5. PICK k \in Nat : 1 <= k /\ k <= 28 /\ Place(k) = j
  <2>1. CASE j <= 4
    BY <2>1 DEF IsField, Place
  <2>2. CASE j > 4
    <3>1. j - 4 \in Nat /\ 1 <= j - 4 /\ j - 4 <= 28 /\ Place(j - 4) = j
      BY <2>2 DEF IsField, Place
    <3> QED  BY <3>1
  <2> QED  BY <2>1, <2>2
<1>6. ContentBytes(m)[k] # ContentBytes(d)[k]
  <2>1. j \in 1..kRecordBytes /\ ContentBytes(m)[k] = e[j] /\ ContentBytes(d)[k] = bs[j]
    BY <1>4, <1>5
  <2>2. e[j] \in Bytes /\ bs[j] = (e[j] + 1) % 4
    BY <1>3, <2>1
  <2>3. e[j] # (e[j] + 1) % 4
    BY <2>2 DEF Bytes
  <2> QED  BY <2>1, <2>2, <2>3
<1>7. ASSUME NEW i \in Nat, 1 <= i, i <= 28, i # k
      PROVE  ContentBytes(m)[i] = ContentBytes(d)[i]
  <2>1. Place(i) # j /\ Place(i) \in 1..kRecordBytes
    BY <1>4, <1>5, <1>7 DEF Place
  <2>2. ContentBytes(m)[i] = e[Place(i)] /\ ContentBytes(d)[i] = bs[Place(i)]
    BY <1>4, <1>7
  <2> QED  BY <1>3, <2>1, <2>2
<1>8. UpdateHash(h, m) # UpdateHash(h, d)
  BY <1>1, <1>5, <1>6, <1>7, UpdateSees
<1> QED  BY <1>1, <1>8 DEF d, bs

-----------------------------------------------------------------------------
(* The recorder and the replayer.                                          *)

LEMMA RecordableMessages == Recordable \subseteq Messages
<1>1. Max32 = 256 /\ Max64 = 65536 /\ Max64 \div 2 = 32768
  BY Widths
<1>2. [stream_id |-> 255, ts_ns |-> -1, value |-> 27030, seq |-> 65535] \in Messages
  BY DEF Messages, Halves, Words
<1>3. [stream_id |-> 1, ts_ns |-> -32768, value |-> 0, seq |-> 256] \in Messages
  BY DEF Messages, Halves, Words
<1>4. Max32 - 1 = 255 /\ Max64 - 1 = 65535 /\ -(Max64 \div 2) = -32768
  BY <1>1
<1> QED  BY <1>2, <1>3, <1>4 DEF Recordable

LEMMA SizeIs == ASSUME NEW n \in Int PROVE Size(n) = 2 + 2 * n
BY DEF Size, kHeaderSize, kRecordSize

\* The record that starts after n others.
LEMMA RecordAtIs ==
    ASSUME NEW n \in Nat
    PROVE  RecordAt(Size(n)) = Stored(recorded[n + 1], n + 1, damage)
<1>1. (Size(n) - kHeaderSize) \div kRecordSize + 1 = n + 1
  BY SizeIs DEF kHeaderSize, kRecordSize
<1> QED  BY <1>1, Zenon DEF RecordAt, Stored

\* The file is ours or foreign, and no longer than what was written to it.
FileInv ==
    /\ recorder \in {"none", "open", "failed", "closed", "dead"}
    /\ recorded \in Seq(Recordable) /\ Len(recorded) <= MaxRecords
    /\ header \in {"ours"} \cup Foreign /\ length \in Nat
    /\ \/ damage = None
       \/ /\ recorder = "closed"
          /\ \E n \in 1..Len(recorded), at \in DamagedBytes : damage = <<n, at>>
    /\ recorder \in {"none", "failed"} => length = 0 /\ header = "ours"
    /\ header = "ours" => length <= Size(Len(recorded))
    /\ header = "ours" /\ recorder = "closed" => length = Size(Len(recorded))
    /\ header # "ours" => recorder = "closed" /\ length = Size(1)

\* The messages returned are those the file holds.
ContentInv ==
    /\ replayed \in Seq(Messages) /\ Len(replayed) <= Len(recorded)
    /\ \A i \in 1..Len(replayed) : replayed[i] = DecodeRecord(Stored(recorded[i], i, damage))

\* Where the replayer stands.
PositionInv ==
    /\ rpc \in {"none", "reading", "ended"} /\ truncated_ \in BOOLEAN
    /\ status_ \in {"kOk", "kFileNotFound", "kBadMagic", "kUnsupportedVersion"}
    /\ rpc = "none" => status_ # "kOk"
    /\ status_ # "kOk" => rpc # "reading" /\ position = 0 /\ replayed = << >>
    /\ status_ = "kOk" => /\ header = "ours" /\ recorder \notin {"none", "failed"}
                          /\ position \in Nat /\ position <= length
                          /\ Size(Len(replayed)) <= position
    /\ rpc = "reading" => position = Size(Len(replayed))
    /\ rpc = "ended" /\ status_ = "kOk" => /\ position < Size(Len(replayed)) + kRecordSize
                                           /\ truncated_ <=> position > Size(Len(replayed))

ReplayIInv == FileInv /\ ContentInv /\ PositionInv

LEMMA ReplayInitially == ASSUME RecordAssumption, ReplayInit PROVE ReplayIInv
<1>1. Len(recorded) = 0 /\ Len(replayed) = 0 /\ Size(Len(recorded)) = 2
  BY SizeIs DEF ReplayInit
<1>2. recorded \in Seq(Recordable) /\ replayed \in Seq(Messages)
  <2>1. \A S : << >> \in Seq(S)
    OBVIOUS
  <2> QED  BY <2>1, Zenon DEF ReplayInit
<1>3. FileInv
  <2>1. length \in Nat /\ length <= Size(Len(recorded)) /\ Len(recorded) <= MaxRecords
    BY <1>1 DEF ReplayInit, RecordAssumption
  <2>2. recorder = "none" /\ damage = None /\ length = 0 /\ header = "ours"
    BY DEF ReplayInit
  <2>3. recorder # "closed"
    BY <2>2
  <2> QED  BY <1>2, <2>1, <2>2, <2>3, Zenon DEF FileInv
<1>4. ContentInv
  BY <1>1, <1>2 DEF ReplayInit, ContentInv
<1>5. PositionInv
  BY <1>1 DEF ReplayInit, PositionInv
<1> QED  BY <1>3, <1>4, <1>5 DEF ReplayIInv

LEMMA ReplayKept ==
    ASSUME RecordAssumption, ReplayIInv, [ReplayNext]_streamVars PROVE ReplayIInv'
<1>0. /\ recorded \in Seq(Recordable) /\ Len(recorded) \in Nat /\ replayed \in Seq(Messages)
      /\ Len(replayed) \in Nat /\ Len(replayed) <= Len(recorded) /\ length \in Nat
      /\ MaxRecords \in Nat
  BY DEF ReplayIInv, FileInv, ContentInv, PositionInv, RecordAssumption
<1>s. /\ Size(Len(recorded)) = 2 + 2 * Len(recorded)
      /\ Size(Len(replayed)) = 2 + 2 * Len(replayed) /\ Size(1) = 4
  BY <1>0, SizeIs
<1>1. CASE Open
  BY <1>1 DEF Open, ReplayIInv, FileInv, ContentInv, PositionInv, replayerVars
<1>2. CASE Write
  <2>1. PICK m \in Recordable : recorded' = Append(recorded, m)
    BY <1>2 DEF Write
  <2>2. /\ recorded' \in Seq(Recordable) /\ Len(recorded') = Len(recorded) + 1
        /\ \A i \in 1..Len(recorded) : recorded'[i] = recorded[i]
    BY <1>0, <2>1
  <2>3. /\ recorder = "open" /\ recorder' = recorder /\ damage' = damage /\ length' = length
        /\ header' = header /\ Len(recorded) < MaxRecords
        /\ rpc' = rpc /\ status_' = status_ /\ position' = position /\ replayed' = replayed
        /\ truncated_' = truncated_
    BY <1>2 DEF Write, replayerVars, count_
  <2>4. damage = None /\ header = "ours"
    BY <2>3 DEF ReplayIInv, FileInv, ContentInv, PositionInv
  <2>5. Size(Len(recorded'))= 2 + 2 * Len(recorded') /\ Len(recorded') <= MaxRecords
        /\ Len(replayed) <= Len(recorded')
    <3>1. PICK n \in Nat : n = Len(recorded')
      BY <1>0, <2>2
    <3>2. Size(n) = 2 + 2 * n
      BY SizeIs
    <3>3. n <= MaxRecords /\ Len(replayed) <= n
      BY <1>0, <2>2, <2>3, <3>1
    <3> QED  BY <3>1, <3>2, <3>3
  <2>6. \A i \in 1..Len(replayed) : replayed[i] = DecodeRecord(Stored(recorded'[i], i, damage))
    <3>1. \A i \in 1..Len(replayed) : i \in 1..Len(recorded)
      BY <1>0
    <3> QED  BY <2>2, <3>1 DEF ReplayIInv, FileInv, ContentInv, PositionInv
  <2>7. length <= Size(Len(recorded')) /\ Size(Len(replayed))' = Size(Len(replayed))
    BY <1>0, <1>s, <2>2, <2>3, <2>4, <2>5 DEF ReplayIInv, FileInv, ContentInv, PositionInv
  <2>8. Size(Len(recorded))' = Size(Len(recorded'))
    BY DEF Size
  <2> QED
    <3>1. FileInv'
      BY <2>2, <2>3, <2>4, <2>5, <2>7, <2>8 DEF ReplayIInv, FileInv
    <3>2. ContentInv'
      BY <2>3, <2>5, <2>6 DEF ReplayIInv, ContentInv
    <3>3. PositionInv'
      BY <2>3, <2>7 DEF ReplayIInv, PositionInv
    <3> QED  BY <3>1, <3>2, <3>3 DEF ReplayIInv
<1>3. CASE Spill \/ Close \/ Die
  <2>1. /\ recorder = "open" /\ recorded' = recorded /\ damage' = damage /\ header' = header
        /\ rpc' = rpc /\ status_' = status_ /\ position' = position /\ replayed' = replayed
        /\ truncated_' = truncated_
    BY <1>3 DEF Spill, Close, Die, replayerVars
  <2>2. header = "ours" /\ length <= Size(Len(recorded)) /\ damage = None
    BY <2>1 DEF ReplayIInv, FileInv, ContentInv, PositionInv
  <2>3. length' \in Nat /\ length <= length' /\ length' <= Size(Len(recorded))
        /\ recorder' \in {"open", "closed", "dead"}
        /\ (recorder' = "closed" => length' = Size(Len(recorded)))
    BY <1>0, <1>3, <1>s, <2>1, <2>2 DEF Spill, Close, Die, count_
  <2>4. Size(Len(recorded))' = Size(Len(recorded)) /\ Size(Len(replayed))' = Size(Len(replayed))
    BY <2>1
  <2>5. status_ = "kOk" => position \in Nat /\ position <= length'
    BY <1>0, <2>3 DEF ReplayIInv, FileInv, ContentInv, PositionInv
  <2> QED  BY <2>1, <2>2, <2>3, <2>4, <2>5 DEF ReplayIInv, FileInv, ContentInv, PositionInv
<1>4. CASE ForeignFile
  <2>1. /\ recorder = "none" /\ header' \in Foreign /\ length' = Size(1) /\ recorder' = "closed"
        /\ recorded' = recorded /\ damage' = damage
        /\ rpc' = rpc /\ status_' = status_ /\ position' = position /\ replayed' = replayed
        /\ truncated_' = truncated_
    BY <1>4 DEF ForeignFile, replayerVars
  <2>2. status_ # "kOk" /\ damage = None /\ header' # "ours"
    BY <2>1 DEF ReplayIInv, FileInv, ContentInv, PositionInv, RecordAssumption
  <2>3. length' \in Nat /\ length' = Size(1)'
    BY <1>s, <2>1 DEF Size
  <2> QED  BY <2>1, <2>2, <2>3 DEF ReplayIInv, FileInv, ContentInv, PositionInv
<1>5. ASSUME NEW n \in 1..MaxRecords, NEW at \in DamagedBytes, Damage(n, at) PROVE ReplayIInv'
  <2>1. /\ recorder = "closed" /\ rpc = "none" /\ n <= Len(recorded) /\ damage' = <<n, at>>
        /\ recorder' = recorder /\ recorded' = recorded /\ length' = length /\ header' = header
        /\ rpc' = rpc /\ status_' = status_ /\ position' = position /\ replayed' = replayed
        /\ truncated_' = truncated_
    BY <1>5 DEF Damage, replayerVars, count_
  <2>2. n \in 1..Len(recorded)
    BY <1>0, <2>1
  <2>3. status_ # "kOk" /\ replayed = << >> /\ Len(replayed) = 0
    BY <2>1 DEF ReplayIInv, FileInv, ContentInv, PositionInv
  <2>4. Size(Len(recorded))' = Size(Len(recorded)) /\ Size(Len(replayed))' = Size(Len(replayed))
        /\ Size(1)' = Size(1)
    BY <2>1 DEF Size
  <2>5. \E k \in 1..Len(recorded), b \in DamagedBytes : damage' = <<k, b>>
    BY <2>1, <2>2
  <2> QED  BY <2>1, <2>3, <2>4, <2>5 DEF ReplayIInv, FileInv, ContentInv, PositionInv
<1>6. CASE OpenReplay
  <2>1. /\ recorder' = recorder /\ recorded' = recorded /\ length' = length /\ header' = header
        /\ damage' = damage /\ replayed' = replayed /\ truncated_' = truncated_
        /\ rpc = "none" /\ status_' = HeaderStatus
        /\ rpc' = (IF HeaderStatus = "kOk" THEN "reading" ELSE "ended")
        /\ position' = (IF HeaderStatus = "kOk" THEN kHeaderSize ELSE 0)
    BY <1>6 DEF OpenReplay, recorderVars
  <2>2. replayed = << >> /\ Len(replayed) = 0
    BY <2>1 DEF ReplayIInv, FileInv, ContentInv, PositionInv
  <2>3. Size(Len(recorded))' = Size(Len(recorded)) /\ Size(Len(replayed))' = Size(Len(replayed))
        /\ Size(1)' = Size(1)
    BY <2>1 DEF Size
  <2>4. HeaderStatus \in {"kOk", "kFileNotFound", "kBadMagic", "kUnsupportedVersion"}
    BY DEF HeaderStatus
  <2>5. HeaderStatus = "kOk" => /\ recorder \notin {"none", "failed"} /\ length >= 2
                                /\ header = "ours"
    BY <1>0 DEF HeaderStatus, HasFile, kHeaderSize, ReplayIInv, FileInv, ContentInv, PositionInv, RecordAssumption
  <2>6. Size(Len(replayed)) = 2 /\ kHeaderSize = 2
    BY <1>s, <2>2 DEF kHeaderSize
  <2> HIDE DEF HeaderStatus
  <2>7. CASE HeaderStatus = "kOk"
    BY <1>0, <2>1, <2>2, <2>3, <2>5, <2>6, <2>7 DEF ReplayIInv, FileInv, ContentInv, PositionInv
  <2>8. CASE HeaderStatus # "kOk"
    BY <2>1, <2>2, <2>3, <2>4, <2>8 DEF ReplayIInv, FileInv, ContentInv, PositionInv
  <2> QED  BY <2>7, <2>8
<1>7. CASE NextRecord
  <2>1. /\ recorder' = recorder /\ recorded' = recorded /\ length' = length /\ header' = header
        /\ damage' = damage /\ truncated_' = truncated_ /\ rpc' = rpc /\ status_' = status_
        /\ rpc = "reading" /\ length - position >= 2 /\ position' = position + 2
        /\ replayed' = Append(replayed, DecodeRecord(RecordAt(position)))
    BY <1>7 DEF NextRecord, recorderVars, kRecordSize
  <2>2. /\ status_ = "kOk" /\ header = "ours" /\ position = Size(Len(replayed))
        /\ position \in Nat /\ length <= Size(Len(recorded))
    BY <2>1 DEF ReplayIInv, FileInv, ContentInv, PositionInv
  <2>3. PICK n \in Nat : n = Len(replayed) + 1
    BY <1>0
  <2>4. n \in 1..Len(recorded)
    BY <1>0, <1>s, <2>1, <2>2, <2>3
  <2>5. PICK d \in Messages : d = DecodeRecord(Stored(recorded[n], n, damage))
    <3>1. recorded[n] \in Messages
      BY <1>0, <2>4, RecordableMessages
    <3> QED  BY <3>1, StoredBytes, DecodeHolds
  <2>6. replayed' = Append(replayed, d)
    <3>1. RecordAt(position) = Stored(recorded[n], n, damage)
      BY <1>0, <2>2, <2>3, RecordAtIs
    <3> QED  BY <2>1, <2>5, <3>1
  <2>7. /\ replayed' \in Seq(Messages) /\ Len(replayed') = n /\ replayed'[n] = d
        /\ \A i \in 1..Len(replayed) : replayed'[i] = replayed[i]
    BY <1>0, <2>3, <2>5, <2>6
  <2>8. \A i \in 1..Len(replayed') : replayed'[i] = DecodeRecord(Stored(recorded[i], i, damage))
    <3> SUFFICES ASSUME NEW i \in 1..n
                 PROVE  replayed'[i] = DecodeRecord(Stored(recorded[i], i, damage))
      BY <2>7
    <3>1. CASE i = n
      BY <2>5, <2>7, <3>1
    <3>2. CASE i \in 1..Len(replayed)
      BY <2>7, <3>2 DEF ReplayIInv, FileInv, ContentInv, PositionInv
    <3> QED  BY <1>0, <2>3, <3>1, <3>2
  <2>9. /\ Size(Len(recorded))' = Size(Len(recorded)) /\ Size(Len(replayed))' = 2 + 2 * n
        /\ Size(1)' = Size(1)
    <3>1. Size(n) = 2 + 2 * n
      BY SizeIs
    <3> QED  BY <2>1, <2>7, <3>1 DEF Size
  <2>10. position' \in Nat /\ position' <= length' /\ position' = 2 + 2 * n
    BY <1>0, <1>s, <2>1, <2>2, <2>3
  <2>11. Len(replayed') <= Len(recorded')
    BY <2>1, <2>4, <2>7
  <2>12. /\ recorder \notin {"none", "failed"}
         /\ \A i \in 1..Len(replayed') :
               replayed'[i] = DecodeRecord(Stored(recorded'[i], i, damage'))
    BY <2>1, <2>2, <2>8 DEF ReplayIInv, FileInv, ContentInv, PositionInv
  <2> QED
    <3>1. FileInv'
      BY <2>1, <2>9 DEF ReplayIInv, FileInv
    <3>2. ContentInv'
      BY <2>7, <2>11, <2>12 DEF ReplayIInv, ContentInv
    <3>3. PositionInv'
      <4>1. Size(Len(replayed))' <= position' /\ position' = Size(Len(replayed))'
        BY <2>9, <2>10
      <4>2. /\ rpc' = "reading" /\ status_' = "kOk" /\ header' = "ours"
            /\ recorder' \notin {"none", "failed"} /\ truncated_' \in BOOLEAN
        BY <2>1, <2>2, <2>12 DEF ReplayIInv, PositionInv
      <4> QED  BY <2>10, <4>1, <4>2, Zenon DEF PositionInv
    <3> QED  BY <3>1, <3>2, <3>3 DEF ReplayIInv
<1>8. CASE NextEnd
  <2>1. /\ recorder' = recorder /\ recorded' = recorded /\ length' = length /\ header' = header
        /\ damage' = damage /\ status_' = status_ /\ replayed' = replayed
        /\ rpc = "reading" /\ rpc' = "ended" /\ length - position < 2 /\ position' = length
        /\ truncated_' = (length > position)
    BY <1>8 DEF NextEnd, recorderVars, kRecordSize
  <2>2. /\ status_ = "kOk" /\ position = Size(Len(replayed))
        /\ position \in Nat /\ position <= length
    BY <2>1 DEF ReplayIInv, FileInv, ContentInv, PositionInv
  <2>3. Size(Len(recorded))' = Size(Len(recorded)) /\ Size(Len(replayed))' = Size(Len(replayed))
        /\ Size(1)' = Size(1) /\ kRecordSize = 2
    BY <2>1 DEF Size, kRecordSize
  <2>4. /\ position' \in Nat /\ position' <= length' /\ Size(Len(replayed)) <= position'
        /\ position' < Size(Len(replayed)) + 2
        /\ (truncated_' <=> position' > Size(Len(replayed))) /\ truncated_' \in BOOLEAN
    <3>1. PICK part \in Nat : part = position
      BY <2>2
    <3>2. /\ position' \in Nat /\ position' <= length' /\ Size(Len(replayed)) <= position'
          /\ position' < Size(Len(replayed)) + 2
      BY <1>0, <1>s, <2>1, <2>2, <3>1
    <3>3. (length > position) \in BOOLEAN
      OBVIOUS
    <3>4. (length > position) <=> position' > Size(Len(replayed))
      BY <2>1, <2>2
    <3> QED  BY <2>1, <3>2, <3>3, <3>4, Zenon
  <2> QED  BY <2>1, <2>2, <2>3, <2>4 DEF ReplayIInv, FileInv, ContentInv, PositionInv
<1>9. CASE UNCHANGED streamVars
  <2>1. /\ recorder' = recorder /\ recorded' = recorded /\ length' = length /\ header' = header
        /\ damage' = damage /\ status_' = status_ /\ replayed' = replayed
        /\ rpc' = rpc /\ position' = position /\ truncated_' = truncated_
    BY <1>9 DEF streamVars, recorderVars, replayerVars
  <2>2. Size(Len(recorded))' = Size(Len(recorded)) /\ Size(Len(replayed))' = Size(Len(replayed))
        /\ Size(1)' = Size(1)
    BY <2>1 DEF Size
  <2> QED  BY <2>1, <2>2 DEF ReplayIInv, FileInv, ContentInv, PositionInv
<1> QED  BY <1>1, <1>2, <1>3, <1>4, <1>5, <1>6, <1>7, <1>8, <1>9 DEF ReplayNext

\* Where nothing is harmed, the messages are those recorded.
LEMMA UnharmedStream ==
    ASSUME ReplayIInv, NEW i \in 1..Len(replayed),
           \A k \in Nat : IsField(k) => damage # <<i, k>>
    PROVE  replayed[i] = recorded[i]
<1>1. i \in 1..Len(recorded)
  BY DEF ReplayIInv, FileInv, ContentInv, PositionInv
<1>2. recorded[i] \in Messages
  BY <1>1, RecordableMessages DEF ReplayIInv, FileInv, ContentInv, PositionInv
<1>3. replayed[i] = DecodeRecord(Stored(recorded[i], i, damage))
  BY DEF ReplayIInv, FileInv, ContentInv, PositionInv
<1> QED  BY <1>2, <1>3, UnharmedIsRead

LEMMA ChecksumSees == ASSUME RecordAssumption, ReplayIInv PROVE ChecksumSeesDamage
<1> SUFFICES ASSUME replayed # << >>, Len(replayed) = Len(recorded)
             PROVE  Digest(replayed) = Digest(recorded) <=> damage[2] \notin (1..4 \cup 9..32)
  BY DEF ChecksumSeesDamage, count_
<1>1. PICK n \in Nat : n = Len(replayed) /\ n = Len(recorded)
  BY DEF ReplayIInv, FileInv, ContentInv, PositionInv
<1>2. replayed \in Seq(Messages) /\ recorded \in Seq(Messages)
  <2>1. recorded \in Seq(Recordable) /\ replayed \in Seq(Messages)
    BY DEF ReplayIInv, FileInv, ContentInv, PositionInv
  <2> QED  BY <2>1, RecordableMessages
<1>3. \A j \in Nat : j \in (1..4 \cup 9..32) <=> IsField(j)
  BY DEF IsField
<1>4. ASSUME \A i \in 1..n : \A k \in Nat : IsField(k) => damage # <<i, k>>
      PROVE  Digest(replayed) = Digest(recorded)
  <2>1. \A i \in 1..n : replayed[i] = recorded[i]
    BY <1>1, <1>4, UnharmedStream
  <2>2. replayed = recorded
    BY <1>1, <1>2, <2>1
  <2> QED  BY <2>2
<1>5. CASE damage = None
  <2>1. damage[2] = 0 /\ ~IsField(0)
    BY <1>5 DEF None, IsField
  <2>2. \A i \in 1..n : \A k \in Nat : IsField(k) => damage # <<i, k>>
    BY <1>5 DEF None
  <2> QED  BY <1>3, <1>4, <2>1, <2>2
<1>6. CASE \E k \in 1..Len(recorded), at \in DamagedBytes : damage = <<k, at>>
  <2>1. PICK k \in 1..n, j \in DamagedBytes : damage = <<k, j>>
    BY <1>1, <1>6
  <2>2. j \in Nat /\ damage[2] = j
    BY <2>1 DEF RecordAssumption
  <2>3. CASE ~IsField(j)
    <3>1. \A i \in 1..n : \A b \in Nat : IsField(b) => damage # <<i, b>>
      BY <2>1, <2>3
    <3> QED  BY <1>3, <1>4, <2>2, <2>3, <3>1
  <2>4. CASE IsField(j)
    <3>1. \A i \in 1..n : i # k => recorded[i] = replayed[i]
      <4> SUFFICES ASSUME NEW i \in 1..n, i # k PROVE replayed[i] = recorded[i]
        OBVIOUS
      <4>1. \A b \in Nat : damage # <<i, b>>
        BY <2>1
      <4> QED  BY <1>1, <4>1, UnharmedStream
    <3>2. replayed[k] = DecodeRecord(Stored(recorded[k], k, <<k, j>>))
      BY <1>1, <2>1 DEF ReplayIInv, FileInv, ContentInv, PositionInv
    <3>3. recorded[k] \in Messages
      BY <1>1, <1>2
    <3>4. \A h \in Words : UpdateHash(h, recorded[k]) # UpdateHash(h, replayed[k])
      BY <2>2, <2>4, <3>2, <3>3, HarmIsSeen
    <3>5. Digest(recorded) # Digest(replayed)
      BY <1>1, <1>2, <3>1, <3>4, DigestSees
    <3> QED  BY <1>3, <2>2, <2>4, <3>5
  <2> QED  BY <2>3, <2>4
<1> QED  BY <1>5, <1>6 DEF ReplayIInv, FileInv, ContentInv, PositionInv

LEMMA ReplayMeans == ASSUME RecordAssumption, ReplayIInv PROVE ReplayIsFaithful
<1>0. /\ Len(recorded) \in Nat /\ Len(replayed) \in Nat /\ length \in Nat /\ MaxRecords \in Nat
      /\ Len(replayed) <= Len(recorded) /\ Len(recorded) <= MaxRecords
  BY DEF ReplayIInv, FileInv, ContentInv, PositionInv, RecordAssumption
<1>s. /\ Size(Len(recorded)) = 2 + 2 * Len(recorded)
      /\ Size(Len(replayed)) = 2 + 2 * Len(replayed) /\ Size(1) = 4
      /\ Size(MaxRecords + 1) = 4 + 2 * MaxRecords /\ kRecordSize = 2
  <2>1. PICK n \in Nat : n = MaxRecords + 1
    BY <1>0
  <2>2. Size(n) = 4 + 2 * MaxRecords
    BY <1>0, <2>1, SizeIs
  <2>3. Size(Len(recorded)) = 2 + 2 * Len(recorded) /\ Size(Len(replayed)) = 2 + 2 * Len(replayed)
        /\ Size(1) = 4
    BY <1>0, SizeIs
  <2> QED  BY <2>1, <2>2, <2>3 DEF kRecordSize
<1>1. ReplayTypeOK
  <2>1. damage \in {None} \cup (1..MaxRecords) \X (1..kRecordBytes)
    <3>1. CASE damage = None
      BY <3>1
    <3>2. CASE \E n \in 1..Len(recorded), at \in DamagedBytes : damage = <<n, at>>
      <4>1. PICK n \in 1..Len(recorded), at \in DamagedBytes : damage = <<n, at>>
        BY <3>2
      <4>2. n \in 1..MaxRecords /\ at \in 1..kRecordBytes
        BY <1>0 DEF RecordAssumption
      <4> QED  BY <4>1, <4>2
    <3> QED  BY <3>1, <3>2 DEF ReplayIInv, FileInv, ContentInv, PositionInv
  <2>2. length \in 0..Size(MaxRecords + 1)
    BY <1>0, <1>s DEF ReplayIInv, FileInv, ContentInv, PositionInv
  <2>3. position \in 0..length
    BY <1>0 DEF ReplayIInv, FileInv, ContentInv, PositionInv
  <2>4. Len(replayed) <= MaxRecords
    BY <1>0
  <2> QED  BY <1>0, <2>1, <2>2, <2>3, <2>4 DEF ReplayTypeOK, ReplayIInv, FileInv, ContentInv, PositionInv, count_
<1>2. ReplayIsPrefix
  <2>1. replayed # << >> => header = "ours"
    BY DEF ReplayIInv, FileInv, ContentInv, PositionInv
  <2>2. ASSUME damage = None, NEW i \in 1..Len(replayed) PROVE replayed[i] = recorded[i]
    <3>1. \A k \in Nat : damage # <<i, k>>
      BY <1>0, <2>2 DEF None
    <3> QED  BY <3>1, UnharmedStream
  <2>3. status_ = "kOk" => Size(Len(replayed)) <= length
    BY <1>0, <1>s DEF ReplayIInv, FileInv, ContentInv, PositionInv
  <2> QED  BY <1>0, <2>1, <2>2, <2>3 DEF ReplayIsPrefix, count_
<1>3. EndIsExplained
  <2> SUFFICES ASSUME rpc = "ended", status_ = "kOk"
               PROVE  /\ truncated_ <=> position > Size(Len(replayed))
                      /\ (recorder = "closed" /\ position = length) =>
                            Len(replayed) = Len(recorded) /\ ~truncated_
                      /\ ~truncated_ => position = Size(Len(replayed))
    BY DEF EndIsExplained, count_
  <2>1. /\ header = "ours" /\ position \in Nat /\ Size(Len(replayed)) <= position
        /\ position < Size(Len(replayed)) + 2
        /\ (truncated_ <=> position > Size(Len(replayed)))
        /\ (recorder = "closed" => length = Size(Len(recorded)))
    BY <1>s DEF ReplayIInv, FileInv, ContentInv, PositionInv
  <2> QED  BY <1>0, <1>s, <2>1
<1>4. ChecksumSeesDamage
  BY ChecksumSees
<1> QED  BY <1>1, <1>2, <1>3, <1>4 DEF ReplayIsFaithful

\* A replay can be trusted: whatever was flushed when the recorder died, what it
\* returns was recorded, field by field; how it ended says what is missing; and
\* its checksum differs from the recording's exactly if a byte of a field was
\* damaged.
THEOREM ReplayFaithful == ReplaySpec => []ReplayIsFaithful
<1> USE RecordAssumption
<1>1. ReplayInit => ReplayIInv
  BY ReplayInitially
<1>2. ReplayIInv /\ [ReplayNext]_streamVars => ReplayIInv'
  BY ReplayKept
<1>3. ReplayIInv => ReplayIsFaithful
  BY ReplayMeans
<1> QED  BY <1>1, <1>2, <1>3, PTL DEF ReplaySpec
=============================================================================
