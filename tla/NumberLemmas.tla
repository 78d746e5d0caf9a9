---------------------------- MODULE NumberLemmas ----------------------------
(***************************************************************************)
(* Facts about numbers and sequences that several proofs rest on: what a   *)
(* masked index distinguishes and what survives the wrap of an unsigned    *)
(* word (the ring buffers, the stream ids), sequences given position by    *)
(* position, the least and the largest element of a set, and then          *)
(* induction, recursion, sums and powers.                                  *)
(*                                                                         *)
(* Induction is stated of a set of numbers, and follows from the           *)
(* well-foundedness of < alone; a recursive function is the solution of an *)
(* equation, which exists by induction on how far it is solved.            *)
(***************************************************************************)
EXTENDS Integers, Sequences, Sums, WellFoundedInduction, TLAPS

\* Division with remainder, for the positions of both ring buffers.
LEMMA DivMod ==
    ASSUME NEW x \in Nat, NEW n \in Nat \ {0}
    PROVE  /\ x \div n \in Nat
           /\ x % n \in 0..(n - 1)
           /\ x = n * (x \div n) + (x % n)
OBVIOUS

\* The same, naming quotient and remainder.
LEMMA Division ==
    ASSUME NEW x \in Nat, NEW n \in Nat \ {0}
    PROVE  \E q \in Nat, r \in 0..(n - 1) : r = x % n /\ x = n * q + r
BY DivMod

\* Multiples of n are at least n apart.
LEMMA MultiplesApart ==
    ASSUME NEW n \in Nat \ {0}, NEW q \in Int, NEW r \in Int, q < r
    PROVE  n * q + n <= n * r
<1>1. q + 1 <= r
  OBVIOUS
<1>2. n * (q + 1) <= n * r
  BY <1>1, SMTT(20)
<1>3. n * (q + 1) = n * q + n
  OBVIOUS
<1> QED
  BY <1>2, <1>3

\* A remainder is determined by any decomposition of the number.
LEMMA RemainderUnique ==
    ASSUME NEW x \in Nat, NEW n \in Nat \ {0}, NEW q \in Int,
           NEW s \in 0..(n - 1), x = n * q + s
    PROVE  x % n = s
<1>0. /\ x \div n \in Nat /\ x % n \in 0..(n - 1)
      /\ x = n * (x \div n) + (x % n)
  BY DivMod, Zenon
<1> DEFINE r == x \div n
           t == x % n
<1>1. r \in Int /\ t \in 0..(n - 1) /\ x = n * r + t
  BY <1>0
<1>2. n * q \in Int /\ n * r \in Int
  BY <1>1
<1> HIDE DEF r, t
<1>3. CASE q < r
  <2>1. n * q + n <= n * r
    BY <1>1, <1>3, MultiplesApart
  <2> QED
    BY <1>1, <1>2, <2>1
<1>4. CASE r < q
  <2>1. n * r + n <= n * q
    BY <1>1, <1>4, MultiplesApart
  <2> QED
    BY <1>1, <1>2, <2>1
<1>5. CASE q = r
  BY <1>1, <1>2, <1>5 DEF t
<1> QED
  BY <1>1, <1>3, <1>4, <1>5

\* Positions less than n apart have different remainders: two live positions
\* of a ring never share a slot.
LEMMA RemaindersDiffer ==
    ASSUME NEW x \in Nat, NEW y \in Nat, NEW n \in Nat \ {0},
           x < y, y < x + n
    PROVE  x % n # y % n
<1> DEFINE q == x \div n
           r == y \div n
           s == x % n
<1>1. SUFFICES ASSUME s = y % n PROVE FALSE
  OBVIOUS
<1>2. /\ q \in Int /\ r \in Int /\ s \in Int
      /\ x = n * q + s /\ y = n * r + s
  BY <1>1, DivMod
<1>3. n * q \in Int /\ n * r \in Int
  BY <1>2
<1> HIDE DEF q, r, s
<1>4. q < r => n * q + n <= n * r
  BY <1>2, MultiplesApart
<1>5. r < q => n * r + n <= n * q
  BY <1>2, MultiplesApart
<1> QED
  BY <1>2, <1>3, <1>4, <1>5

\* The difference of two wrapped counters is the difference of the counters,
\* as long as that is below the wrap.
LEMMA WrappedDifference ==
    ASSUME NEW x \in Nat, NEW y \in Nat, NEW n \in Nat \ {0},
           x <= y, y < x + n
    PROVE  ((y % n) - (x % n)) % n = y - x
<1> DEFINE q == x \div n
           r == y \div n
           s == x % n
           t == y % n
<1>1. /\ q \in Int /\ r \in Int /\ s \in 0..(n - 1) /\ t \in 0..(n - 1)
      /\ x = n * q + s /\ y = n * r + t
  BY DivMod
<1>2. n * q \in Int /\ n * r \in Int
  BY <1>1
<1> HIDE DEF q, r, s, t
<1>3. r = q \/ r = q + 1
  <2>1. r >= q
    <3>1. r < q => n * r + n <= n * q
      BY <1>1, MultiplesApart
    <3> QED
      BY <1>1, <1>2, <3>1
  <2>2. r <= q + 1
    <3>1. q + 1 < r => n * (q + 1) + n <= n * r
      BY <1>1, MultiplesApart
    <3>2. n * (q + 1) = n * q + n
      BY <1>1
    <3> QED
      BY <1>1, <1>2, <3>1, <3>2
  <2> QED
    BY <1>1, <2>1, <2>2
<1>4. CASE r = q
  <2>1. t - s = y - x /\ t - s \in 0..(n - 1)
    BY <1>1, <1>2, <1>4
  <2>2. (t - s) % n = t - s
    BY <1>1, <2>1
  <2> QED
    BY <2>1, <2>2 DEF s, t
<1>5. CASE r = q + 1
  <2>1. n * r = n * q + n
    BY <1>1, <1>5
  <2>2. t - s = (y - x) - n /\ y - x \in 0..(n - 1)
    BY <1>1, <1>2, <2>1
  <2>3. ((y - x) - n) % n = y - x
    BY <2>2
  <2> QED
    BY <2>2, <2>3 DEF s, t
<1> QED
  BY <1>3, <1>4, <1>5

\* Masking a wrapped counter is masking the counter, when the mask's range
\* divides the word's.
LEMMA MaskOfWord ==
    ASSUME NEW x \in Nat, NEW n \in Nat \ {0}, NEW w \in Nat \ {0},
           \E k \in 1..w : w = n * k
    PROVE  (x % w) % n = x % n
<1> PICK k \in 1..w : w = n * k
  OBVIOUS
<1>1. PICK q \in Nat, r \in 0..(w - 1) : r = x % w /\ x = w * q + r
  BY Division
<1>2. PICK v \in Nat, s \in 0..(n - 1) : s = r % n /\ r = n * v + s
  <2>1. r \in Nat
    OBVIOUS
  <2> QED
    BY <2>1, Division
<1>3. w * q = n * (k * q)
  <2>1. (n * k) * q = n * (k * q)
    BY SMTT(20)
  <2> QED
    BY <2>1
<1>4. PICK u \in Nat : u = k * q
  BY SMTT(20)
<1>5. n * (u + v) = n * u + n * v /\ n * u \in Int /\ n * v \in Int
  OBVIOUS
<1>6. x = n * (u + v) + s
  <2>1. x = n * u + r
    BY <1>1, <1>3, <1>4
  <2> QED
    BY <1>2, <1>5, <2>1
<1>7. x % n = s
  <2>1. u + v \in Int
    OBVIOUS
  <2> QED
    BY <1>6, <2>1, RemainderUnique
<1> QED
  BY <1>1, <1>2, <1>7

-----------------------------------------------------------------------------
(* Sequences.                                                              *)

\* Appending the element at the position after the last.
LEMMA AppendNext ==
    ASSUME NEW S, NEW q \in Seq(S), NEW r \in Seq(S), NEW e \in S,
           Len(r) = Len(q) + 1, r[Len(q) + 1] = e,
           \A i \in 1..Len(q) : r[i] = q[i]
    PROVE  r = Append(q, e)
OBVIOUS

\* Dropping the element at the first position.
LEMMA TailNext ==
    ASSUME NEW S, NEW q \in Seq(S), NEW r \in Seq(S),
           Len(q) = Len(r) + 1,
           \A i \in 1..Len(r) : r[i] = q[i + 1]
    PROVE  q # << >> /\ r = Tail(q)
OBVIOUS

\* A function on 1..n is a sequence of length n.
LEMMA FunctionIsSeq ==
    ASSUME NEW S, NEW n \in Nat, NEW q \in [1..n -> S]
    PROVE  q \in Seq(S) /\ Len(q) = n
<1>1. q \in Seq(S)
  OBVIOUS
<1>2. Len(q) = n
  OBVIOUS
<1> QED
  BY <1>1, <1>2

\* A nonempty set of numbers with a bound has a largest element: the last newline
\* of a chunk exists.
LEMMA Largest ==
    ASSUME NEW S \in SUBSET Nat, NEW n \in Nat, S # {}, \A i \in S : i <= n
    PROVE  \E m \in S : \A i \in S : i <= m
<1> DEFINE T == {k \in Nat : \E i \in S : k = n - i}
<1>1. T \subseteq Nat
  OBVIOUS
<1>2. T # {}
  <2>1. PICK i \in S : TRUE
    OBVIOUS
  <2>2. n - i \in Nat
    OBVIOUS
  <2> QED  BY <2>2
<1> HIDE DEF T
<1>3. PICK x \in T : \A y \in T : ~(<<y, x>> \in OpToRel(<, Nat))
  BY <1>1, <1>2, WFMin, NatLessThanWellFounded, Zenon
<1>4. \A y \in Nat : y < x => <<y, x>> \in OpToRel(<, Nat)
  BY <1>1, Zenon DEF OpToRel
<1>5. \A y \in T : ~(y < x)
  BY <1>1, <1>3, <1>4, Zenon
<1>6. PICK m \in S : x = n - m
  BY DEF T
<1>7. ASSUME NEW i \in S  PROVE i <= m
  <2>1. n - i \in T
    BY DEF T
  <2>2. ~(n - i < x)
    BY <1>5, <2>1
  <2> QED  BY <2>2, <1>6
<1> QED  BY <1>7

\* Every nonempty set of natural numbers has a least element.
LEMMA Least ==
    ASSUME NEW S \in SUBSET Nat, S # {}
    PROVE  \E m \in S : \A i \in S : m <= i
<1>1. PICK x \in S : \A y \in S : ~(<<y, x>> \in OpToRel(<, Nat))
  BY WFMin, NatLessThanWellFounded, Zenon
<1>2. \A y \in Nat : y < x => <<y, x>> \in OpToRel(<, Nat)
  BY Zenon DEF OpToRel
<1>3. \A y \in S : ~(y < x)
  BY <1>1, <1>2, Zenon
<1> QED  BY <1>3

-----------------------------------------------------------------------------
(* Induction.                                                              *)

\* Induction, for a set of natural numbers.
LEMMA Induct ==
    ASSUME NEW S, 0 \in S, \A n \in Nat : n \in S => n + 1 \in S
    PROVE  \A n \in Nat : n \in S
<1> SUFFICES ASSUME NEW n \in Nat, n \notin S PROVE FALSE
  OBVIOUS
<1> DEFINE T == {k \in Nat : k \notin S}
<1>1. PICK m \in T : \A i \in T : m <= i
  <2>1. T \in SUBSET Nat /\ T # {}
    OBVIOUS
  <2> HIDE DEF T
  <2> QED  BY <2>1, Least, Zenon
<1>2. m \in Nat /\ m # 0 /\ m - 1 \in Nat
  OBVIOUS
<1>3. m - 1 \in S
  BY <1>1, <1>2
<1> QED  BY <1>2, <1>3

-----------------------------------------------------------------------------
(* Recursion.                                                              *)

\* The functions that give, from a number and the value before it, the value at
\* that number; and the solutions of the recursion they describe, up to n.
StepsOn(V) == [Nat -> [V -> V]]
Solutions(V, b, h, n) ==
    {f \in [0..n -> V] : f[0] = b /\ \A i \in 1..n : f[i] = h[i][f[i - 1]]}

\* A recursion over the first n numbers has a solution.
LEMMA Recursion ==
    ASSUME NEW V, NEW b \in V, NEW h \in StepsOn(V), NEW n \in Nat
    PROVE  Solutions(V, b, h, n) # {}
<1> DEFINE Good(m) == Solutions(V, b, h, m)
           S == {m \in Nat : Good(m) # {}}
<1>1. 0 \in S
  <2>1. [i \in 0..0 |-> b] \in Good(0)
    BY DEF Solutions
  <2> QED  BY <2>1
<1>2. ASSUME NEW m \in Nat, m \in S PROVE m + 1 \in S
  <2>1. PICK f \in [0..m -> V] : f[0] = b /\ \A i \in 1..m : f[i] = h[i][f[i - 1]]
    BY <1>2 DEF Solutions
  <2> DEFINE e == h[m + 1][f[m]]
             g == [i \in 0..(m + 1) |-> IF i <= m THEN f[i] ELSE e]
  <2>2. e \in V
    BY DEF StepsOn
  <2> HIDE DEF e
  <2>3. g \in [0..(m + 1) -> V] /\ g[0] = b
    BY <2>1, <2>2
  <2>4. ASSUME NEW i \in 1..(m + 1) PROVE g[i] = h[i][g[i - 1]]
    <3>1. CASE i <= m
      <4>1. g[i] = f[i] /\ g[i - 1] = f[i - 1] /\ i \in 1..m
        BY <3>1
      <4> HIDE DEF g
      <4> QED  BY <2>1, <4>1
    <3>2. CASE i = m + 1
      <4>1. g[i] = e /\ g[i - 1] = f[m]
        BY <3>2
      <4> QED  BY <3>2, <4>1 DEF e
    <3> QED  BY <3>1, <3>2
  <2>5. g \in Good(m + 1)
    BY <2>3, <2>4, Zenon DEF Solutions
  <2> HIDE DEF g, Good
  <2> QED  BY <2>5
<1> HIDE DEF S
<1>3. n \in S
  BY <1>1, <1>2, Induct, Zenon
<1> QED  BY <1>3 DEF S

-----------------------------------------------------------------------------
(* Sums and powers.                                                        *)

\* The partial sums behind SumTo, and the powers behind Power.
PartialSums(f, n) == CHOOSE sum : sum = [i \in 0..n |-> IF i = 0 THEN 0 ELSE sum[i - 1] + f[i]]

LEMMA SumsExist ==
    ASSUME NEW n \in Nat, NEW f, \A i \in 1..n : f[i] \in Int
    PROVE  /\ PartialSums(f, n) \in [0..n -> Int] /\ PartialSums(f, n)[0] = 0
           /\ \A i \in 1..n : PartialSums(f, n)[i] = PartialSums(f, n)[i - 1] + f[i]
<1> DEFINE h == [i \in Nat |-> [v \in Int |-> IF i \in 1..n THEN v + f[i] ELSE 0]]
<1>1. h \in StepsOn(Int)
  BY DEF StepsOn
<1>2. \A i \in 1..n : \A v \in Int : h[i][v] = v + f[i]
  OBVIOUS
<1> HIDE DEF h
<1>3. PICK g \in [0..n -> Int] : g[0] = 0 /\ \A i \in 1..n : g[i] = h[i][g[i - 1]]
  <2>1. 0 \in Int
    OBVIOUS
  <2>2. Solutions(Int, 0, h, n) # {}
    BY <1>1, <2>1, Recursion, Zenon
  <2> QED  BY <2>2 DEF Solutions
<1>4. ASSUME NEW i \in 1..n PROVE g[i] = g[i - 1] + f[i]
  <2>1. g[i - 1] \in Int
    OBVIOUS
  <2> QED  BY <1>2, <1>3, <2>1
<1>5. g = [i \in 0..n |-> IF i = 0 THEN 0 ELSE g[i - 1] + f[i]]
  BY <1>3, <1>4
<1>6. PartialSums(f, n) = [i \in 0..n |-> IF i = 0 THEN 0 ELSE PartialSums(f, n)[i - 1] + f[i]]
  BY <1>5, Zenon DEF PartialSums
<1> DEFINE s == PartialSums(f, n)
<1> HIDE DEF s
<1>7. s = [i \in 0..n |-> IF i = 0 THEN 0 ELSE s[i - 1] + f[i]]
  BY <1>6 DEF s
<1>8. s[0] = 0 /\ \A i \in 1..n : s[i] = s[i - 1] + f[i]
  BY <1>7
<1> DEFINE S == {i \in Nat : i <= n => s[i] \in Int}
<1>9. 0 \in S /\ \A i \in Nat : i \in S => i + 1 \in S
  <2>1. ASSUME NEW i \in Nat, i \in S PROVE i + 1 \in S
    <3> SUFFICES ASSUME i + 1 <= n PROVE s[i + 1] \in Int
      OBVIOUS
    <3>1. i + 1 \in 1..n /\ s[i] \in Int /\ (i + 1) - 1 = i
      BY <2>1
    <3>2. s[i + 1] = s[i] + f[i + 1] /\ f[i + 1] \in Int
      BY <1>8, <3>1
    <3> QED  BY <3>1, <3>2
  <2> QED  BY <1>8, <2>1
<1> HIDE DEF S
<1>10. \A i \in Nat : i \in S
  BY <1>9, Induct, Zenon
<1>11. \A i \in 0..n : s[i] \in Int
  BY <1>10 DEF S
<1>12. s \in [0..n -> Int]
  BY <1>7, <1>11
<1> QED  BY <1>8, <1>12 DEF s

LEMMA SumToIs == ASSUME NEW f, NEW n PROVE SumTo(f, n) = PartialSums(f, n)[n]
BY DEF SumTo, PartialSums

\* Two sums of the same terms.
LEMMA SumSame ==
    ASSUME NEW n \in Nat, NEW f, NEW m \in Nat, NEW g,
           \A i \in 1..n : f[i] \in Int, \A i \in 1..m : g[i] \in Int,
           NEW k \in Nat, k <= n, k <= m, \A i \in 1..k : f[i] = g[i]
    PROVE  PartialSums(f, n)[k] = PartialSums(g, m)[k]
<1> DEFINE s == PartialSums(f, n)
           t == PartialSums(g, m)
<1>1. s[0] = 0 /\ \A i \in 1..n : s[i] = s[i - 1] + f[i]
  BY SumsExist
<1>2. t[0] = 0 /\ \A i \in 1..m : t[i] = t[i - 1] + g[i]
  BY SumsExist
<1> HIDE DEF s, t
<1> DEFINE S == {i \in Nat : i <= k => s[i] = t[i]}
<1>3. 0 \in S
  BY <1>1, <1>2
<1>4. ASSUME NEW i \in Nat, i \in S PROVE i + 1 \in S
  <2> SUFFICES ASSUME i + 1 <= k PROVE s[i + 1] = t[i + 1]
    OBVIOUS
  <2>1. i + 1 \in 1..n /\ i + 1 \in 1..m /\ i + 1 \in 1..k /\ (i + 1) - 1 = i /\ s[i] = t[i]
    BY <1>4
  <2> HIDE DEF S
  <2>2. s[i + 1] = s[i] + f[i + 1]
    BY <1>1, <2>1
  <2>3. t[i + 1] = t[i] + g[i + 1]
    BY <1>2, <2>1
  <2> QED  BY <2>1, <2>2, <2>3
<1> HIDE DEF S
<1>5. \A i \in Nat : i \in S
  BY <1>3, <1>4, Induct, Zenon
<1> QED  BY <1>5 DEF S, s, t

LEMMA SumType ==
    ASSUME NEW n \in Nat, NEW f, \A i \in 1..n : f[i] \in Int
    PROVE  SumTo(f, n) \in Int
<1>1. PartialSums(f, n) \in [0..n -> Int] /\ n \in 0..n
  BY SumsExist
<1> QED  BY <1>1, SumToIs

LEMMA SumEmpty == ASSUME NEW f PROVE SumTo(f, 0) = 0
<1>1. PartialSums(f, 0)[0] = 0
  BY SumsExist
<1> QED  BY <1>1, SumToIs

\* One more term.
LEMMA SumStep ==
    ASSUME NEW n \in Nat, NEW f, \A i \in 1..(n + 1) : f[i] \in Int
    PROVE  SumTo(f, n + 1) = SumTo(f, n) + f[n + 1]
<1>1. PartialSums(f, n + 1)[n + 1] = PartialSums(f, n + 1)[n] + f[n + 1]
  <2>1. n + 1 \in Nat /\ n + 1 \in 1..(n + 1) /\ (n + 1) - 1 = n
    OBVIOUS
  <2>2. \A i \in 1..(n + 1) : PartialSums(f, n + 1)[i] = PartialSums(f, n + 1)[i - 1] + f[i]
    BY <2>1, SumsExist
  <2> QED  BY <2>1, <2>2
<1>2. PartialSums(f, n + 1)[n] = PartialSums(f, n)[n]
  <2>1. n + 1 \in Nat /\ n <= n + 1 /\ n <= n /\ \A i \in 1..n : f[i] \in Int
    OBVIOUS
  <2> QED  BY <2>1, SumSame
<1> QED  BY <1>1, <1>2, SumToIs

\* The sum of other terms that are the same, and of terms that are c times as large.
LEMMA SumEqual ==
    ASSUME NEW n \in Nat, NEW f, NEW g, \A i \in 1..n : f[i] \in Int /\ g[i] = f[i]
    PROVE  SumTo(g, n) = SumTo(f, n)
<1>1. PartialSums(f, n)[n] = PartialSums(g, n)[n]
  BY SumSame
<1> QED  BY <1>1, SumToIs

LEMMA Distributes == ASSUME NEW c \in Int, NEW x \in Int, NEW y \in Int
                     PROVE c * (x + y) = c * x + c * y
OBVIOUS

LEMMA SumScaled ==
    ASSUME NEW n \in Nat, NEW c \in Int, NEW f, NEW g,
           \A i \in 1..n : f[i] \in Int /\ g[i] = c * f[i]
    PROVE  SumTo(g, n) = c * SumTo(f, n)
<1> DEFINE S == {k \in Nat : k <= n => SumTo(g, k) = c * SumTo(f, k)}
<1>0. \A i \in 1..n : f[i] \in Int /\ g[i] \in Int
  OBVIOUS
<1>1. 0 \in S
  BY SumEmpty
<1>2. ASSUME NEW k \in Nat, k \in S PROVE k + 1 \in S
  <2> SUFFICES ASSUME k + 1 <= n PROVE SumTo(g, k + 1) = c * SumTo(f, k + 1)
    OBVIOUS
  <2>1. SumTo(g, k) = c * SumTo(f, k)
    BY <1>2
  <2>2. \A i \in 1..(k + 1) : f[i] \in Int /\ g[i] \in Int
    BY <1>0
  <2>3. SumTo(f, k + 1) = SumTo(f, k) + f[k + 1] /\ SumTo(g, k + 1) = SumTo(g, k) + g[k + 1]
    BY <2>2, SumStep
  <2>4. SumTo(f, k) \in Int
    <3>1. \A i \in 1..k : f[i] \in Int
      BY <2>2
    <3> QED  BY <3>1, SumType
  <2>5. f[k + 1] \in Int /\ g[k + 1] = c * f[k + 1]
    OBVIOUS
  <2>6. c * (SumTo(f, k) + f[k + 1]) = c * SumTo(f, k) + c * f[k + 1]
    BY <2>4, <2>5, Distributes
  <2> QED  BY <2>1, <2>3, <2>5, <2>6
<1> HIDE DEF S
<1>3. n \in S
  BY <1>1, <1>2, Induct, Zenon
<1> QED  BY <1>3 DEF S

Powers(b, n) == CHOOSE power : power = [i \in 0..n |-> IF i = 0 THEN 1 ELSE b * power[i - 1]]

LEMMA PowersExist ==
    ASSUME NEW n \in Nat, NEW b \in Int
    PROVE  /\ Powers(b, n)[0] = 1
           /\ \A i \in 1..n : Powers(b, n)[i] = b * Powers(b, n)[i - 1]
<1> DEFINE h == [i \in Nat |-> [v \in Int |-> b * v]]
<1>1. h \in StepsOn(Int)
  BY DEF StepsOn
<1>2. \A i \in Nat : \A v \in Int : h[i][v] = b * v
  OBVIOUS
<1> HIDE DEF h
<1>3. PICK g \in [0..n -> Int] : g[0] = 1 /\ \A i \in 1..n : g[i] = h[i][g[i - 1]]
  <2>1. 1 \in Int
    OBVIOUS
  <2>2. Solutions(Int, 1, h, n) # {}
    BY <1>1, <2>1, Recursion, Zenon
  <2> QED  BY <2>2 DEF Solutions
<1>4. ASSUME NEW i \in 1..n PROVE g[i] = b * g[i - 1]
  <2>1. g[i - 1] \in Int /\ i \in Nat
    OBVIOUS
  <2>2. g[i] = h[i][g[i - 1]]
    BY <1>3
  <2> QED  BY <1>2, <2>1, <2>2
<1>5. g = [i \in 0..n |-> IF i = 0 THEN 1 ELSE b * g[i - 1]]
  BY <1>3, <1>4
<1>6. Powers(b, n) = [i \in 0..n |-> IF i = 0 THEN 1 ELSE b * Powers(b, n)[i - 1]]
  BY <1>5, Zenon DEF Powers
<1> QED  BY <1>6

\* No factor, and one more.
LEMMA PowerZero == ASSUME NEW b \in Int PROVE Power(b, 0) = 1
<1>1. Power(b, 0) = Powers(b, 0)[0]
  BY DEF Power, Powers
<1> QED  BY <1>1, PowersExist

LEMMA PowerStep ==
    ASSUME NEW b \in Int, NEW n \in Nat
    PROVE  Power(b, n + 1) = b * Power(b, n)
<1> DEFINE s == Powers(b, n + 1)
           t == Powers(b, n)
<1>1. Power(b, n + 1) = s[n + 1] /\ Power(b, n) = t[n]
  BY DEF Power, Powers
<1>2. s[0] = 1 /\ \A i \in 1..(n + 1) : s[i] = b * s[i - 1]
  <2>1. n + 1 \in Nat
    OBVIOUS
  <2> QED  BY <2>1, PowersExist
<1>3. t[0] = 1 /\ \A i \in 1..n : t[i] = b * t[i - 1]
  BY PowersExist
<1> HIDE DEF s, t
<1> DEFINE S == {i \in Nat : i <= n => s[i] = t[i]}
<1>4. 0 \in S
  BY <1>2, <1>3
<1>5. ASSUME NEW i \in Nat, i \in S PROVE i + 1 \in S
  <2> SUFFICES ASSUME i + 1 <= n PROVE s[i + 1] = t[i + 1]
    OBVIOUS
  <2>1. i + 1 \in 1..n /\ i + 1 \in 1..(n + 1) /\ (i + 1) - 1 = i /\ s[i] = t[i]
    BY <1>5
  <2> HIDE DEF S
  <2> QED  BY <1>2, <1>3, <2>1
<1> HIDE DEF S
<1>6. \A i \in Nat : i \in S
  BY <1>4, <1>5, Induct, Zenon
<1>7. s[n] = t[n]
  BY <1>6 DEF S
<1>8. s[n + 1] = b * s[n]
  <2>1. n + 1 \in 1..(n + 1) /\ (n + 1) - 1 = n
    OBVIOUS
  <2> QED  BY <1>2, <2>1
<1> QED  BY <1>1, <1>7, <1>8

LEMMA PowerType ==
    ASSUME NEW b \in Int, NEW n \in Nat
    PROVE  Power(b, n) \in Int /\ (b \in Nat => Power(b, n) \in Nat) /\ (b > 0 => Power(b, n) > 0)
<1> DEFINE Good(k) == /\ Power(b, k) \in Int /\ (b \in Nat => Power(b, k) \in Nat)
                      /\ (b > 0 => Power(b, k) > 0)
           S == {k \in Nat : Good(k)}
<1>1. 0 \in S
  BY PowerZero
<1>2. ASSUME NEW k \in Nat, k \in S PROVE k + 1 \in S
  <2>1. PICK p \in Int : p = Power(b, k) /\ (b \in Nat => p \in Nat) /\ (b > 0 => p > 0)
    BY <1>2
  <2>2. Power(b, k + 1) = b * p
    BY <2>1, PowerStep
  <2>3. b * p \in Int /\ (b \in Nat => b * p \in Nat) /\ (b > 0 => b * p > 0)
    BY <2>1
  <2>4. Good(k + 1)
    BY <2>2, <2>3
  <2> HIDE DEF Good
  <2> QED  BY <2>4
<1> HIDE DEF S
<1>3. n \in S
  BY <1>1, <1>2, Induct, Zenon
<1> QED  BY <1>3 DEF S
=============================================================================
