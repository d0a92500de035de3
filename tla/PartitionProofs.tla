--------------------------- MODULE PartitionProofs ---------------------------
(***************************************************************************)
(* No item of a range is passed to a body twice, and a call that nobody    *)
(* stopped passes on the whole of it (OnceEach); the fold of a scan meets  *)
(* the sums in the order of the ranges they stand for (ScansInOrder).      *)
(* First comes how each kind of call cuts its range, then who takes which  *)
(* block of the cut, then the invariant and the two theorems.              *)
(***************************************************************************)
EXTENDS Partition, FiniteSetTheorems, WellFoundedInduction, TLAPS

-----------------------------------------------------------------------------
(* Arithmetic.                                                             *)

LEMMA MinOfTwo ==
  ASSUME NEW x \in Int, NEW y \in Int
  PROVE  Min({x, y}) = IF x <= y THEN x ELSE y
<1>1. \E z \in {x, y} : \A w \in {x, y} : z <= w
  <2>1. CASE x <= y
    BY <2>1
  <2>2. CASE ~(x <= y)
    BY <2>2
  <2> QED BY <2>1, <2>2
<1>2. Min({x, y}) \in {x, y} /\ \A w \in {x, y} : Min({x, y}) <= w
  BY <1>1 DEF Min
<1> QED BY <1>2

LEMMA MaxOfTwo ==
  ASSUME NEW x \in Int, NEW y \in Int
  PROVE  Max({x, y}) = IF x >= y THEN x ELSE y
<1>1. \E z \in {x, y} : \A w \in {x, y} : z >= w
  <2>1. CASE x >= y
    BY <2>1
  <2>2. CASE ~(x >= y)
    BY <2>2
  <2> QED BY <2>1, <2>2
<1>2. Max({x, y}) \in {x, y} /\ \A w \in {x, y} : Max({x, y}) >= w
  BY <1>1 DEF Max
<1> QED BY <1>2

LEMMA Division ==
  ASSUME NEW a \in Nat, NEW c \in Nat \ {0}
  PROVE  /\ a \div c \in Nat /\ a % c \in 0 .. c - 1
         /\ a = (a \div c) * c + (a % c)
         /\ (a \div c) * c <= a /\ a < (a \div c) * c + c
OBVIOUS

LEMMA TimesSteps ==
  ASSUME NEW a \in Nat, NEW b \in Nat, NEW c \in Nat, a < b
  PROVE  a * c + c <= b * c /\ a * c \in Nat /\ b * c \in Nat
OBVIOUS

(* The quotient is what fits in. *)
LEMMA Quotient ==
  ASSUME NEW a \in Nat, NEW c \in Nat \ {0}, NEW k \in Nat
  PROVE  k <= a \div c <=> k * c <= a
<1> DEFINE q == a \div c
<1>1. q \in Nat /\ q * c <= a /\ a < q * c + c
  BY Division
<1>2. CASE k <= q
  <2>1. k * c <= q * c
    <3>1. CASE k = q
      BY <3>1, <1>1
    <3>2. CASE k < q
      BY <3>2, <1>1, TimesSteps
    <3> QED BY <1>2, <1>1, <3>1, <3>2
  <2>2. k * c \in Nat /\ q * c \in Nat
    BY <1>1
  <2> HIDE DEF q
  <2> QED BY <1>1, <1>2, <2>1, <2>2 DEF q
<1>3. CASE q < k
  <2>1. q * c + c <= k * c /\ k * c \in Nat /\ q * c \in Nat
    BY <1>1, <1>3, TimesSteps
  <2> HIDE DEF q
  <2> QED BY <1>1, <1>3, <2>1 DEF q
<1> QED BY <1>1, <1>2, <1>3

(* CeilDiv(n, c) blocks of c items: those that begin in front of n. *)
LEMMA CeilDivBlocks ==
  ASSUME NEW n \in Nat, NEW c \in Nat \ {0}
  PROVE  /\ CeilDiv(n, c) \in Nat
         /\ \A b \in Nat : b < CeilDiv(n, c) <=> b * c < n
         /\ n > 0 => CeilDiv(n, c) > 0
<1> DEFINE q == n \div c
<1>1. q \in Nat /\ n % c \in 0 .. c - 1 /\ n = q * c + (n % c)
  BY Division
<1>2. CeilDiv(n, c) = q + (IF n % c # 0 THEN 1 ELSE 0)
  BY DEF CeilDiv
<1> HIDE DEF q
<1>3. ASSUME NEW b \in Nat
      PROVE  b < CeilDiv(n, c) <=> b * c < n
  <2>1. CASE b < q
    <3>1. b * c + c <= q * c /\ b * c \in Nat /\ q * c \in Nat
      BY <2>1, <1>1, TimesSteps
    <3> QED BY <2>1, <3>1, <1>1, <1>2
  <2>2. CASE b = q
    BY <2>2, <1>1, <1>2
  <2>3. CASE q < b
    <3>1. q * c + c <= b * c /\ b * c \in Nat /\ q * c \in Nat
      BY <2>3, <1>1, TimesSteps
    <3>2. b * c > n
      BY <3>1, <1>1
    <3> QED BY <2>3, <3>1, <3>2, <1>1, <1>2
  <2> QED BY <1>1, <2>1, <2>2, <2>3
<1>4. CeilDiv(n, c) \in Nat
  BY <1>1, <1>2
<1>5. 0 * c = 0
  OBVIOUS
<1>6. n > 0 => CeilDiv(n, c) > 0
  BY <1>3, <1>4, <1>5
<1> QED BY <1>3, <1>4, <1>6

(* Two numbers with the same remainder are a multiple apart. *)
LEMMA SameRest ==
  ASSUME NEW a \in Nat, NEW b \in Nat, NEW m \in Nat \ {0}, a % m = b % m, a < b
  PROVE  a + m <= b
<1> DEFINE p == a \div m
           q == b \div m
<1>1. p \in Nat /\ q \in Nat /\ a = p * m + (a % m) /\ b = q * m + (b % m)
      /\ a % m \in 0 .. m - 1
  BY Division
<1>2. p * m \in Nat /\ q * m \in Nat
  BY <1>1
<1> HIDE DEF p, q
<1>3. p * m < q * m
  BY <1>1, <1>2
<1>4. p < q
  <2>1. CASE p = q
    BY <2>1, <1>3, <1>2
  <2>2. CASE q < p
    <3>1. q * m + m <= p * m
      BY <2>2, <1>1, TimesSteps
    <3> QED BY <3>1, <1>2, <1>3
  <2> QED BY <2>1, <2>2, <1>1
<1>5. p * m + m <= q * m
  BY <1>4, <1>1, TimesSteps
<1> QED BY <1>1, <1>2, <1>5

LEMMA RestPlus ==
  ASSUME NEW a \in Nat, NEW m \in Nat \ {0}
  PROVE  (a + m) % m = a % m
<1>0. \A z \in Nat : z \div m \in Nat /\ z = (z \div m) * m + (z % m) /\ z % m \in 0 .. m - 1
  BY Division
<1>1. a \div m \in Nat /\ a = (a \div m) * m + (a % m) /\ a % m \in 0 .. m - 1
  BY <1>0
<1>2. (a + m) \div m \in Nat /\ a + m = ((a + m) \div m) * m + ((a + m) % m)
      /\ (a + m) % m \in 0 .. m - 1
  <2>1. a + m \in Nat
    OBVIOUS
  <2> QED BY <2>1, <1>0
<1> DEFINE p == a \div m
           q == (a + m) \div m
           r == a % m
           t == (a + m) % m
<1> HIDE DEF p, q, r, t
<1>3. p \in Nat /\ q \in Nat /\ r \in 0 .. m - 1 /\ t \in 0 .. m - 1
      /\ p * m + r + m = q * m + t
  BY <1>1, <1>2 DEF p, q, r, t
<1>4. (p + 1) * m = p * m + m /\ p * m \in Nat /\ q * m \in Nat
  BY <1>3
<1>5. q = p + 1
  <2>1. CASE q < p + 1
    <3>1. q * m + m <= (p + 1) * m
      BY <2>1, <1>3, TimesSteps
    <3> QED BY <3>1, <1>3, <1>4
  <2>2. CASE p + 1 < q
    <3>1. (p + 1) * m + m <= q * m
      BY <2>2, <1>3, TimesSteps
    <3> QED BY <3>1, <1>3, <1>4
  <2> QED BY <1>3, <2>1, <2>2
<1> QED BY <1>3, <1>4, <1>5 DEF r, t

-----------------------------------------------------------------------------
(* Cuts.                                                                   *)

(* The even split of n in m parts: the parts lie in the range and do not   *)
(* overlap, and every item has its part.                                   *)
LEMMA SplitRight ==
  ASSUME NEW n \in Nat, NEW m \in Nat \ {0}
  PROVE  /\ \A k \in 0 .. m - 1 : /\ Split(n, k, m)[1] \in Nat /\ Split(n, k, m)[2] \in Nat
                                  /\ Split(n, k, m)[2] <= n
         /\ \A j, k \in 0 .. m - 1 : j < k => Split(n, j, m)[2] <= Split(n, k, m)[1]
         /\ \A x \in 0 .. n - 1 : \E k \in 0 .. m - 1 :
              Split(n, k, m)[1] <= x /\ x < Split(n, k, m)[2]
<1>1. ASSUME NEW k \in Nat
      PROVE  n * k \in Nat /\ (n * k) \div m \in Nat
             /\ \A x \in Nat : x <= (n * k) \div m <=> x * m <= n * k
  <2>1. n * k \in Nat
    OBVIOUS
  <2>2. ASSUME NEW a \in Nat PROVE a \div m \in Nat /\ \A x \in Nat : x <= a \div m <=> x * m <= a
    BY Division, Quotient
  <2> QED BY <2>1, <2>2
<1> DEFINE f(k) == (n * k) \div m
<1>2. \A k : Split(n, k, m)[1] = f(k) /\ Split(n, k, m)[2] = f(k + 1)
  BY DEF Split
<1>3. ASSUME NEW j \in Nat, NEW k \in Nat, j <= k
      PROVE  f(j) <= f(k)
  <2>1. n * j <= n * k
    <3>1. CASE j = k
      BY <3>1, <1>1
    <3>2. CASE j < k
      <4>1. j * n + n <= k * n /\ j * n \in Nat /\ k * n \in Nat
        BY <3>2, TimesSteps
      <4>2. j * n = n * j /\ k * n = n * k
        OBVIOUS
      <4> QED BY <4>1, <4>2
    <3> QED BY <1>3, <3>1, <3>2
  <2>2. f(j) * m <= n * j /\ f(j) \in Nat
    BY <1>1
  <2>3. f(j) * m \in Nat
    BY <2>2
  <2>4. f(j) * m <= n * k
    BY <2>1, <2>2, <2>3, <1>1
  <2> HIDE DEF f
  <2> QED BY <2>2, <2>4, <1>1 DEF f
<1>4. f(m) = n
  <2>1. n * m \in Nat /\ f(m) \in Nat
    BY <1>1
  <2>2. n <= f(m)
    BY <1>1
  <2>3. ~(n + 1 <= f(m))
    <3>1. n + 1 <= f(m) <=> (n + 1) * m <= n * m
      BY <1>1
    <3>2. (n + 1) * m = n * m + m
      OBVIOUS
    <3> QED BY <3>1, <3>2, <2>1
  <2> HIDE DEF f
  <2> QED BY <2>1, <2>2, <2>3
<1>5. ASSUME NEW x \in 0 .. n - 1
      PROVE  \E k \in 0 .. m - 1 : f(k) <= x /\ x < f(k + 1)
  <2> DEFINE a == (x + 1) * m - 1
             k == a \div n
  <2>1. (x + 1) * m \in Nat /\ (x + 1) * m > 0 /\ (x + 1) * m = x * m + m /\ x * m \in Nat
    OBVIOUS
  <2>2. a \in Nat /\ n \in Nat \ {0}
    BY <2>1
  <2>3. ASSUME NEW z \in Nat PROVE z \div n \in Nat /\ (z \div n) * n <= z /\ z < (z \div n) * n + n
    BY <2>2, Division
  <2> HIDE DEF a
  <2>4. k \in Nat /\ k * n <= a /\ a < k * n + n
    BY <2>2, <2>3
  <2> HIDE DEF k
  <2>5. n * k = k * n /\ n * (k + 1) = k * n + n /\ k * n \in Nat
    BY <2>4
  <2>6. k < m
    <3>1. (x + 1) * m <= n * m
      <4>1. CASE x + 1 = n
        BY <4>1
      <4>2. CASE x + 1 < n
        <5>1. (x + 1) * m + m <= n * m
          BY <4>2, TimesSteps
        <5> QED BY <5>1, <2>1
      <4> QED BY <4>1, <4>2
    <3>2. k * n < n * m
      BY <3>1, <2>1, <2>4, <2>5 DEF a
    <3>3. m * n = n * m /\ n * m \in Nat
      OBVIOUS
    <3>4. ASSUME m < k PROVE FALSE
      <4>1. m * n + n <= k * n
        BY <3>4, <2>4, TimesSteps
      <4> QED BY <4>1, <3>2, <3>3, <2>5
    <3>5. k # m
      BY <3>2, <3>3
    <3> QED BY <3>4, <3>5, <2>4
  <2>7. f(k) <= x
    <3>1. ~((x + 1) * m <= n * k)
      BY <2>1, <2>4, <2>5 DEF a
    <3>2. ~(x + 1 <= f(k)) /\ f(k) \in Nat
      BY <3>1, <1>1, <2>4
    <3> HIDE DEF f
    <3> QED BY <3>2
  <2>8. x < f(k + 1)
    <3>1. (x + 1) * m <= n * (k + 1)
      BY <2>1, <2>4, <2>5 DEF a
    <3>2. x + 1 <= f(k + 1) /\ f(k + 1) \in Nat
      BY <3>1, <1>1, <2>4
    <3> HIDE DEF f
    <3> QED BY <3>2
  <2> HIDE DEF f
  <2> QED BY <2>4, <2>6, <2>7, <2>8
<1>6. \A k \in 0 .. m - 1 : f(k) \in Nat /\ f(k + 1) \in Nat /\ f(k + 1) <= n
  <2>1. ASSUME NEW k \in 0 .. m - 1 PROVE f(k) \in Nat /\ f(k + 1) \in Nat /\ f(k + 1) <= n
    <3>1. k \in Nat /\ k + 1 \in Nat /\ k + 1 <= m /\ m \in Nat
      OBVIOUS
    <3>2. f(k) \in Nat /\ f(k + 1) \in Nat /\ f(k + 1) <= f(m)
      BY <3>1, <1>1, <1>3
    <3> QED BY <3>2, <1>4
  <2> QED BY <2>1
<1>7. \A j, k \in 0 .. m - 1 : j < k => f(j + 1) <= f(k)
  <2>1. ASSUME NEW j \in 0 .. m - 1, NEW k \in 0 .. m - 1, j < k PROVE f(j + 1) <= f(k)
    <3>1. j + 1 \in Nat /\ k \in Nat /\ j + 1 <= k
      BY <2>1
    <3> QED BY <3>1, <1>3
  <2> QED BY <2>1
<1> HIDE DEF f
<1> QED BY <1>2, <1>5, <1>6, <1>7

(* No end of a block wraps: behind the range there is room for a chunk,    *)
(* unless the call does not cut by chunks or runs as a whole.              *)
Fits ==
  \A p \in Pools, c \in Calls :
    \/ c.kind \in SlotKinds
    \/ c.kind \in ForKinds /\ BlocksIn(ItemsOf(c), ChunkOf(p, c)) <= 1
    \/ c.last + ChunkOf(p, c) <= Size

(* What a call in progress and its pool are. *)
Placed == pool \in Pools /\ call \in Calls

LEMMA PlacedTypes ==
  ASSUME Placed
  PROVE  /\ pool.slots \in Nat \ {0, 1} /\ Items \in Nat \ {0}
         /\ call.first \in Nat /\ call.last \in Nat /\ call.hint \in Nat
         /\ Items = call.last - call.first /\ call.first < call.last /\ call.last < Size
         /\ Size \in Nat \ {0}
         /\ call.kind \in Kinds /\ (call.kind \in SlotKinds => call.first = 0)
<1>1. PartitionAssumption
  BY PartitionAssumption
<1> USE DEF PartitionAssumption, Placed
<1>2. pool.slots \in Nat \ {0, 1}
  BY <1>1
<1>3. /\ call.first \in Nat /\ call.last \in Nat /\ call.hint \in Nat
      /\ call.first < call.last /\ call.last < Size /\ Size \in Nat
      /\ call.kind \in Kinds /\ (call.kind \in SlotKinds => call.first = 0)
  BY <1>1
<1> QED BY <1>2, <1>3 DEF Items, ItemsOf

LEMMA ChunkOfType ==
  ASSUME NEW p \in Pools, NEW c \in Calls
  PROVE  ItemsOf(c) \in Nat \ {0} /\ ChunkOf(p, c) \in Nat \ {0}
<1>1. ASSUME NEW n \in Nat \ {0}, NEW m \in Nat \ {0} PROVE CeilDiv(n, m) \in Nat \ {0}
  <2>1. CeilDiv(n, m) \in Nat /\ (n > 0 => CeilDiv(n, m) > 0)
    BY CeilDivBlocks
  <2> QED BY <2>1
<1>2. /\ ReduceMaxChunks \in Nat \ {0} /\ p.slots \in Nat \ {0} /\ 2 * p.slots \in Nat \ {0}
      /\ c.first \in Nat /\ c.last \in Nat /\ c.first < c.last /\ c.hint \in Nat
  <2>1. /\ ReduceMaxChunks \in Nat \ {0} /\ p.slots \in Nat /\ p.slots > 1
        /\ c.first \in Nat /\ c.last \in Nat /\ c.first < c.last /\ c.hint \in Nat
    BY PartitionAssumption DEF PartitionAssumption
  <2> QED BY <2>1
<1>3. ItemsOf(c) \in Nat \ {0}
  BY <1>2 DEF ItemsOf
<1>4. ReduceChunkSize(ItemsOf(c)) \in Nat \ {0}
  BY <1>1, <1>2, <1>3 DEF ReduceChunkSize
<1>5. CeilDiv(ItemsOf(c), p.slots) \in Nat \ {0} /\ CeilDiv(ItemsOf(c), 2 * p.slots) \in Nat \ {0}
  BY <1>1, <1>2, <1>3
<1>6. CASE c.hint # 0
  BY <1>2, <1>3, <1>6 DEF ChunkOf
<1>7. CASE c.hint = 0
  BY <1>3, <1>4, <1>5, <1>7 DEF ChunkOf
<1> QED BY <1>3, <1>6, <1>7

LEMMA ChunkType ==
  ASSUME Placed
  PROVE  /\ Chunk \in Nat \ {0} /\ BlockCount \in Nat \ {0}
         /\ \A b \in Nat : b < BlockCount <=> b * Chunk < Items
<1>1. Items \in Nat \ {0} /\ Chunk \in Nat \ {0}
  BY ChunkOfType DEF Placed, Items, Chunk
<1>2. /\ CeilDiv(Items, Chunk) \in Nat
      /\ \A b \in Nat : b < CeilDiv(Items, Chunk) <=> b * Chunk < Items
      /\ Items > 0 => CeilDiv(Items, Chunk) > 0
  BY <1>1, CeilDivBlocks
<1> QED BY <1>1, <1>2 DEF BlockCount, BlocksIn

Holds(range, i) == range[1] <= i /\ i < range[2]

(* Blocks of Chunk items each, the last one as the range ends. *)
LEMMA BlockCut ==
  ASSUME Placed, call.last + Chunk <= Size,
         NEW b \in Nat, b < BlockCount
  PROVE  /\ BlockRange(b)[1] = call.first + b * Chunk
         /\ BlockRange(b)[1] \in Nat /\ BlockRange(b)[1] < call.last
         /\ BlockRange(b)[2] \in Nat /\ BlockRange(b)[2] <= call.last
         /\ \A i \in Nat : Holds(BlockRange(b), i) <=>
              /\ call.first + b * Chunk <= i /\ i < call.first + b * Chunk + Chunk
              /\ i < call.last
<1> USE PlacedTypes, ChunkType
<1>1. b * Chunk \in Nat /\ b * Chunk < Items
  OBVIOUS
<1>2. \A x \in Nat : x < Size => Wrap(x) = x
  BY DEF Wrap
<1> DEFINE lo == call.first + b * Chunk
<1>3. lo \in Nat /\ lo < call.last /\ lo < Size /\ b * Chunk < Size
  BY <1>1
<1>4. Wrap(call.first + Wrap(b * Chunk)) = lo
  BY <1>1, <1>2, <1>3
<1>5. lo + Chunk \in Nat /\ lo + Chunk < Size
  BY <1>3
<1>6. Wrap(lo + Chunk) = lo + Chunk
  BY <1>2, <1>5
<1>7. BlockRange(b) = <<lo, Min({lo + Chunk, call.last})>>
  BY <1>4, <1>6 DEF BlockRange
<1>8. Min({lo + Chunk, call.last}) = IF lo + Chunk <= call.last THEN lo + Chunk ELSE call.last
  BY <1>5, MinOfTwo
<1> HIDE DEF lo
<1>9. BlockRange(b)[1] = lo /\ BlockRange(b)[2] = IF lo + Chunk <= call.last THEN lo + Chunk ELSE call.last
  BY <1>7, <1>8
<1>10. \A i \in Nat : Holds(BlockRange(b), i) <=> lo <= i /\ i < lo + Chunk /\ i < call.last
  BY <1>9, <1>3, <1>5 DEF Holds
<1>11. BlockRange(b)[2] \in Nat /\ BlockRange(b)[2] <= call.last
  BY <1>9, <1>3, <1>5
<1> QED BY <1>3, <1>9, <1>10, <1>11 DEF lo

LEMMA BlocksRight ==
  ASSUME Placed, call.last + Chunk <= Size
  PROVE  /\ \A b \in 0 .. BlockCount - 1 :
              /\ BlockRange(b)[1] \in Nat /\ BlockRange(b)[2] \in Nat
              /\ call.first <= BlockRange(b)[1] /\ BlockRange(b)[2] <= call.last
         /\ \A b, c \in 0 .. BlockCount - 1, i \in Nat :
              Holds(BlockRange(b), i) /\ Holds(BlockRange(c), i) => b = c
         /\ \A i \in call.first .. call.last - 1 :
              \E b \in 0 .. BlockCount - 1 : Holds(BlockRange(b), i)
<1> USE PlacedTypes, ChunkType
<1>1. ASSUME NEW b \in 0 .. BlockCount - 1
      PROVE  /\ b \in Nat /\ b < BlockCount /\ b * Chunk \in Nat
             /\ BlockRange(b)[1] \in Nat /\ BlockRange(b)[2] \in Nat
             /\ call.first <= BlockRange(b)[1] /\ BlockRange(b)[2] <= call.last
             /\ \A i \in Nat : Holds(BlockRange(b), i) <=>
                  /\ call.first + b * Chunk <= i /\ i < call.first + b * Chunk + Chunk
                  /\ i < call.last
  <2>1. b \in Nat /\ b < BlockCount
    OBVIOUS
  <2>2. b * Chunk \in Nat
    BY <2>1
  <2>3. /\ BlockRange(b)[1] = call.first + b * Chunk
        /\ BlockRange(b)[1] \in Nat /\ BlockRange(b)[1] < call.last
        /\ BlockRange(b)[2] \in Nat /\ BlockRange(b)[2] <= call.last
        /\ \A i \in Nat : Holds(BlockRange(b), i) <=>
             /\ call.first + b * Chunk <= i /\ i < call.first + b * Chunk + Chunk
             /\ i < call.last
    BY <2>1, BlockCut
  <2>4. call.first <= call.first + b * Chunk
    BY <2>2
  <2> QED BY <2>1, <2>2, <2>3, <2>4
<1>2. ASSUME NEW b \in 0 .. BlockCount - 1, NEW c \in 0 .. BlockCount - 1, NEW i \in Nat,
             Holds(BlockRange(b), i), Holds(BlockRange(c), i), b < c
      PROVE  FALSE
  <2>1. b * Chunk + Chunk <= c * Chunk
    BY <1>1, <1>2, TimesSteps
  <2>2. i < call.first + b * Chunk + Chunk /\ call.first + c * Chunk <= i
        /\ b * Chunk \in Nat /\ c * Chunk \in Nat
    BY <1>1, <1>2
  <2> QED BY <2>1, <2>2
<1>3. ASSUME NEW i \in call.first .. call.last - 1
      PROVE  \E b \in 0 .. BlockCount - 1 : Holds(BlockRange(b), i)
  <2> DEFINE a == i - call.first
             b == a \div Chunk
  <2>1. a \in Nat /\ a < Items /\ i = call.first + a /\ i \in Nat /\ i < call.last
    OBVIOUS
  <2> HIDE DEF a
  <2>2. b \in Nat /\ b * Chunk <= a /\ a < b * Chunk + Chunk
    BY <2>1, Division
  <2> HIDE DEF b
  <2>3. b * Chunk \in Nat
    BY <2>2
  <2>4. b < BlockCount /\ b \in 0 .. BlockCount - 1
    BY <2>1, <2>2, <2>3
  <2>5. Holds(BlockRange(b), i) <=>
          call.first + b * Chunk <= i /\ i < call.first + b * Chunk + Chunk /\ i < call.last
    BY <2>1, <2>2, <2>4, <1>1
  <2>6. Holds(BlockRange(b), i)
    BY <2>1, <2>2, <2>3, <2>5
  <2> QED BY <2>2, <2>4, <2>6
<1>4. \A b, c \in 0 .. BlockCount - 1, i \in Nat :
        Holds(BlockRange(b), i) /\ Holds(BlockRange(c), i) => b = c
  BY <1>2, <1>1
<1> QED BY <1>1, <1>3, <1>4

(* The members of a group of slots are counted through. *)
Rank(G, s) == Cardinality({t \in 0 .. s - 1 : t \in G})

LEMMA RanksRight ==
  ASSUME NEW n \in Nat, NEW G \in SUBSET (0 .. n - 1)
  PROVE  /\ Cardinality(G) \in Nat
         /\ \A s \in G : Rank(G, s) \in 0 .. Cardinality(G) - 1
         /\ \A s, u \in G : Rank(G, s) = Rank(G, u) => s = u
         /\ \A k \in 0 .. Cardinality(G) - 1 : \E s \in G : Rank(G, s) = k
<1> DEFINE Below(s) == {t \in 0 .. s - 1 : t \in G}
<1>1. IsFiniteSet(G) /\ Cardinality(G) \in Nat
  <2>1. IsFiniteSet(0 .. n - 1)
    BY FS_Interval
  <2> QED BY <2>1, FS_Subset, FS_CardinalityType
<1>2. ASSUME NEW S \in SUBSET G, NEW x \in G \ S
      PROVE  /\ IsFiniteSet(S) /\ Cardinality(S) \in Nat
             /\ IsFiniteSet(S \union {x}) /\ Cardinality(S \union {x}) = Cardinality(S) + 1
  <2>1. IsFiniteSet(S)
    BY <1>1, FS_Subset
  <2>2. Cardinality(S) \in Nat
    BY <2>1, FS_CardinalityType
  <2>3. IsFiniteSet(S \union {x}) /\ Cardinality(S \union {x}) = Cardinality(S) + 1
    BY <2>1, <1>2, FS_AddElement
  <2> QED BY <2>1, <2>2, <2>3
<1>3. ASSUME NEW s \in G, NEW T, IsFiniteSet(T), T \subseteq G, Below(s) \union {s} \subseteq T
      PROVE  Cardinality(Below(s)) \in Nat /\ Cardinality(Below(s)) < Cardinality(T)
             /\ Cardinality(T) \in Nat
  <2>1. Below(s) \in SUBSET G /\ s \in G \ Below(s)
    OBVIOUS
  <2> HIDE DEF Below
  <2>2. /\ IsFiniteSet(Below(s)) /\ Cardinality(Below(s)) \in Nat
        /\ Cardinality(Below(s) \union {s}) = Cardinality(Below(s)) + 1
    BY <2>1, <1>2
  <2>3. Cardinality(Below(s) \union {s}) <= Cardinality(T)
    BY <1>3, FS_Subset
  <2>4. Cardinality(T) \in Nat
    BY <1>3, FS_CardinalityType
  <2> QED BY <2>2, <2>3, <2>4
<1>4. ASSUME NEW s \in G
      PROVE  Rank(G, s) \in Nat /\ Rank(G, s) < Cardinality(G)
  <2>1. Below(s) \union {s} \subseteq G
    OBVIOUS
  <2>2. Cardinality(Below(s)) \in Nat /\ Cardinality(Below(s)) < Cardinality(G)
    BY <2>1, <1>1, <1>3
  <2> QED BY <2>2 DEF Rank
<1>5. ASSUME NEW s \in G, NEW u \in G, s < u
      PROVE  Rank(G, s) < Rank(G, u)
  <2>1. Below(u) \subseteq G /\ Below(s) \union {s} \subseteq Below(u)
    BY <1>5
  <2>2. IsFiniteSet(Below(u))
    BY <2>1, <1>1, FS_Subset
  <2>3. Cardinality(Below(s)) < Cardinality(Below(u))
    BY <2>1, <2>2, <1>3
  <2> QED BY <2>3 DEF Rank
<1>6. \A s, u \in G : Rank(G, s) = Rank(G, u) => s = u
  <2>1. ASSUME NEW s \in G, NEW u \in G, Rank(G, s) = Rank(G, u), s # u PROVE FALSE
    <3>1. s \in Int /\ u \in Int
      OBVIOUS
    <3>2. CASE s < u
      BY <3>2, <2>1, <1>4, <1>5
    <3>3. CASE u < s
      BY <3>3, <2>1, <1>4, <1>5
    <3> QED BY <2>1, <3>1, <3>2, <3>3
  <2> QED BY <2>1
<1>7. \A k \in 0 .. Cardinality(G) - 1 : \E s \in G : Rank(G, s) = k
  <2> DEFINE f == [s \in G |-> Rank(G, s)]
             T == 0 .. Cardinality(G) - 1
  <2>1. IsFiniteSet(T) /\ Cardinality(T) = Cardinality(G)
    <3>1. Cardinality(G) - 1 \in Int /\ 0 \in Int
      BY <1>1
    <3>2. IsFiniteSet(T)
          /\ Cardinality(T) = IF 0 > Cardinality(G) - 1 THEN 0 ELSE (Cardinality(G) - 1) - 0 + 1
      BY <3>1, FS_Interval
    <3> HIDE DEF T
    <3> QED BY <3>2, <1>1
  <2>2. f \in Injection(G, T)
    <3>1. f \in [G -> T]
      BY <1>4, <1>1
    <3>2. \A s, u \in G : f[s] = f[u] => s = u
      BY <1>6
    <3> HIDE DEF f, T
    <3> QED BY <3>1, <3>2 DEF Injection, IsInjective
  <2> HIDE DEF f, T
  <2>3. f \in Surjection(G, T)
    BY <2>1, <2>2, FS_Injection
  <2>4. \A k \in T : \E s \in G : f[s] = k
    BY <2>3 DEF Surjection
  <2> QED BY <2>4 DEF f, T
<1>8. \A s \in G : Rank(G, s) \in 0 .. Cardinality(G) - 1
  BY <1>1, <1>4
<1> QED BY <1>1, <1>6, <1>7, <1>8

(* A group of slots shares n items evenly. *)
LEMMA GroupRight ==
  ASSUME NEW m \in Nat, NEW G \in SUBSET (0 .. m - 1), G # {}, NEW n \in Nat
  PROVE  /\ Cardinality(G) \in Nat \ {0}
         /\ \A s \in G : LET part == Split(n, Rank(G, s), Cardinality(G))
                         IN  part[1] \in Nat /\ part[2] \in Nat /\ part[2] <= n
         /\ \A s, u \in G, i \in Nat :
              /\ Holds(Split(n, Rank(G, s), Cardinality(G)), i)
              /\ Holds(Split(n, Rank(G, u), Cardinality(G)), i)
              => s = u
         /\ \A i \in 0 .. n - 1 : \E s \in G : Holds(Split(n, Rank(G, s), Cardinality(G)), i)
<1> DEFINE c == Cardinality(G)
           part(s) == Split(n, Rank(G, s), c)
<1>1. /\ c \in Nat
      /\ \A s \in G : Rank(G, s) \in 0 .. c - 1
      /\ \A s, u \in G : Rank(G, s) = Rank(G, u) => s = u
      /\ \A k \in 0 .. c - 1 : \E s \in G : Rank(G, s) = k
  BY RanksRight
<1> HIDE DEF c
<1>2. c \in Nat \ {0}
  <2>1. PICK s \in G : TRUE
    OBVIOUS
  <2>2. Rank(G, s) \in 0 .. c - 1
    BY <1>1
  <2> QED BY <2>2, <1>1
<1>3. /\ \A k \in 0 .. c - 1 : /\ Split(n, k, c)[1] \in Nat /\ Split(n, k, c)[2] \in Nat
                               /\ Split(n, k, c)[2] <= n
      /\ \A j, k \in 0 .. c - 1 : j < k => Split(n, j, c)[2] <= Split(n, k, c)[1]
      /\ \A x \in 0 .. n - 1 : \E k \in 0 .. c - 1 :
           Split(n, k, c)[1] <= x /\ x < Split(n, k, c)[2]
  BY <1>2, SplitRight
<1>4. ASSUME NEW j \in 0 .. c - 1, NEW k \in 0 .. c - 1, NEW i \in Nat,
             Holds(Split(n, j, c), i), Holds(Split(n, k, c), i)
      PROVE  j = k
  <2>1. /\ Split(n, j, c)[1] \in Nat /\ Split(n, j, c)[2] \in Nat
        /\ Split(n, k, c)[1] \in Nat /\ Split(n, k, c)[2] \in Nat
    BY <1>3
  <2>2. CASE j < k
    <3>1. Split(n, j, c)[2] <= Split(n, k, c)[1]
      BY <2>2, <1>3
    <3> QED BY <3>1, <2>1, <1>4 DEF Holds
  <2>3. CASE k < j
    <3>1. Split(n, k, c)[2] <= Split(n, j, c)[1]
      BY <2>3, <1>3
    <3> QED BY <3>1, <2>1, <1>4 DEF Holds
  <2> QED BY <2>2, <2>3, <1>2
<1>5. \A s, u \in G, i \in Nat : Holds(part(s), i) /\ Holds(part(u), i) => s = u
  BY <1>1, <1>4
<1>6. \A i \in 0 .. n - 1 : \E s \in G : Holds(part(s), i)
  <2>1. ASSUME NEW i \in 0 .. n - 1 PROVE \E s \in G : Holds(part(s), i)
    <3>1. PICK k \in 0 .. c - 1 : Holds(Split(n, k, c), i)
      BY <1>3 DEF Holds
    <3>2. PICK s \in G : Rank(G, s) = k
      BY <1>1
    <3> QED BY <3>1, <3>2
  <2> QED BY <2>1
<1>7. \A s \in G : part(s)[1] \in Nat /\ part(s)[2] \in Nat /\ part(s)[2] <= n
  BY <1>1, <1>3
<1> HIDE DEF part
<1> QED BY <1>2, <1>5, <1>6, <1>7 DEF part, c

(* The parts B of a range from lo on: they lie in it, no two share an      *)
(* item, and every item has its part.                                      *)
Cut(B, range(_), lo, hi) ==
  /\ \A b \in B : /\ range(b)[1] \in Nat /\ range(b)[2] \in Nat
                  /\ lo <= range(b)[1] /\ range(b)[2] <= hi
  /\ \A b, c \in B, i \in Nat : Holds(range(b), i) /\ Holds(range(c), i) => b = c
  /\ \A i \in lo .. hi - 1 : \E b \in B : Holds(range(b), i)

LEMMA EvenCut ==
  ASSUME Placed
  PROVE  Cut(0 .. pool.slots - 1, LAMBDA s : Split(call.last, s, pool.slots), 0, call.last)
<1> DEFINE n == call.last
           m == pool.slots
<1>1. n \in Nat /\ m \in Nat \ {0}
  BY PlacedTypes
<1> HIDE DEF n, m
<1>2. /\ \A k \in 0 .. m - 1 : /\ Split(n, k, m)[1] \in Nat /\ Split(n, k, m)[2] \in Nat
                               /\ Split(n, k, m)[2] <= n
      /\ \A j, k \in 0 .. m - 1 : j < k => Split(n, j, m)[2] <= Split(n, k, m)[1]
      /\ \A x \in 0 .. n - 1 : \E k \in 0 .. m - 1 :
           Split(n, k, m)[1] <= x /\ x < Split(n, k, m)[2]
  BY <1>1, SplitRight
<1>3. ASSUME NEW j \in 0 .. m - 1, NEW k \in 0 .. m - 1, NEW i \in Nat,
             Holds(Split(n, j, m), i), Holds(Split(n, k, m), i)
      PROVE  j = k
  <2>1. /\ Split(n, j, m)[1] \in Nat /\ Split(n, j, m)[2] \in Nat
        /\ Split(n, k, m)[1] \in Nat /\ Split(n, k, m)[2] \in Nat
    BY <1>2
  <2>2. CASE j < k
    <3>1. Split(n, j, m)[2] <= Split(n, k, m)[1]
      BY <2>2, <1>2
    <3> QED BY <3>1, <2>1, <1>3 DEF Holds
  <2>3. CASE k < j
    <3>1. Split(n, k, m)[2] <= Split(n, j, m)[1]
      BY <2>3, <1>2
    <3> QED BY <3>1, <2>1, <1>3 DEF Holds
  <2> QED BY <2>2, <2>3, <1>1
<1>4. \A k \in 0 .. m - 1 : 0 <= Split(n, k, m)[1]
  BY <1>2
<1>5. \A i \in 0 .. n - 1 : \E k \in 0 .. m - 1 : Holds(Split(n, k, m), i)
  BY <1>2 DEF Holds
<1>6. Cut(0 .. m - 1, LAMBDA s : Split(n, s, m), 0, n)
  BY <1>2, <1>3, <1>4, <1>5 DEF Cut
<1> QED BY <1>6 DEF n, m

(* The scan's two groups. *)
Near == OnProducerCcd(pool.ccd)
Far == (0 .. pool.slots - 1) \ Near
NearPart == (call.last * pool.share) \div 16

LEMMA GroupsOfScan ==
  ASSUME Placed, pool.share # 0
  PROVE  /\ Near \in SUBSET (0 .. pool.slots - 1) /\ Near # {} /\ Far # {}
         /\ Cardinality(Far) = Max({1, pool.slots - Cardinality(Near)})
         /\ \A s \in Near : IndexInGroup(s) = Rank(Near, s)
         /\ \A s \in Far : IndexInGroup(s) = Rank(Far, s)
         /\ NearPart \in Nat /\ NearPart <= call.last
<1> DEFINE S == 0 .. pool.slots - 1
<1>1. pool.slots \in Nat /\ pool.slots > 1 /\ DOMAIN pool.ccd = S
      /\ pool.share \in 0 .. 15 /\ AcrossCcds(pool.ccd)
  BY PartitionAssumption DEF PartitionAssumption, Placed
<1>2. Near \in SUBSET S /\ 0 \in Near
  BY <1>1 DEF Near, OnProducerCcd
<1>3. Far # {} /\ Far \in SUBSET S
  BY <1>1, <1>2 DEF AcrossCcds, Far, Near
<1>4. ASSUME NEW s \in Near PROVE IndexInGroup(s) = Rank(Near, s)
  <2>1. {t \in 0 .. s - 1 : (t \in Near) <=> (s \in Near)} = {t \in 0 .. s - 1 : t \in Near}
    OBVIOUS
  <2> QED BY <2>1 DEF IndexInGroup, Rank, Near
<1>5. ASSUME NEW s \in Far PROVE IndexInGroup(s) = Rank(Far, s)
  <2>1. {t \in 0 .. s - 1 : (t \in Near) <=> (s \in Near)} = {t \in 0 .. s - 1 : t \in Far}
    BY <1>1 DEF Far
  <2> QED BY <2>1 DEF IndexInGroup, Rank, Near
<1>6. Cardinality(Far) = Max({1, pool.slots - Cardinality(Near)})
  <2> DEFINE a == Cardinality(Near)
             b == Cardinality(Far)
  <2>1. IsFiniteSet(S) /\ Cardinality(S) = pool.slots
    <3>1. 0 \in Int /\ pool.slots - 1 \in Int
      BY <1>1
    <3>2. IsFiniteSet(S)
          /\ Cardinality(S) = IF 0 > pool.slots - 1 THEN 0 ELSE (pool.slots - 1) - 0 + 1
      BY <3>1, FS_Interval
    <3> QED BY <3>2, <1>1
  <2>2. IsFiniteSet(Near) /\ IsFiniteSet(Far)
    BY <2>1, <1>2, <1>3, FS_Subset
  <2>3. a \in Nat /\ b \in Nat
    BY <2>2, FS_CardinalityType
  <2>4. b = pool.slots - a
    <3>1. S \cap Near = Near /\ Far = S \ Near
      BY <1>2 DEF Far
    <3>2. Cardinality(S \ Near) = Cardinality(S) - Cardinality(S \cap Near)
      BY <2>1, <2>2, FS_Difference
    <3> QED BY <3>1, <3>2, <2>1
  <2>5. b # 0
    BY <2>2, <1>3, FS_EmptySet
  <2> HIDE DEF a, b
  <2>6. Max({1, pool.slots - a}) = IF 1 >= pool.slots - a THEN 1 ELSE pool.slots - a
    <3>1. pool.slots - a \in Int /\ 1 \in Int
      BY <1>1, <2>3
    <3> QED BY <3>1, MaxOfTwo
  <2>7. Max({1, pool.slots - a}) = b
    BY <2>3, <2>4, <2>5, <2>6, <1>1
  <2> QED BY <2>7 DEF a, b
<1>7. NearPart \in Nat /\ NearPart <= call.last
  <2> DEFINE p == call.last * pool.share
  <2>1. call.last \in Nat /\ pool.share \in Nat /\ pool.share <= 15
    <3>1. call.last \in Nat
      BY PlacedTypes
    <3>2. \A x \in 0 .. 15 : x \in Nat /\ x <= 15
      OBVIOUS
    <3> QED BY <3>1, <3>2, <1>1
  <2>2. p \in Nat /\ p <= call.last * 16
    <3>1. call.last * pool.share <= call.last * 15
      <4>1. CASE pool.share = 15
        BY <4>1, <2>1
      <4>2. CASE pool.share < 15
        <5>1. pool.share * call.last + call.last <= 15 * call.last
          BY <4>2, <2>1, TimesSteps
        <5> QED BY <5>1, <2>1
      <4> QED BY <2>1, <4>1, <4>2
    <3> QED BY <3>1, <2>1
  <2> HIDE DEF p
  <2>3. p \div 16 \in Nat /\ (p \div 16) * 16 <= p
    BY <2>2, Division
  <2>4. p \div 16 <= call.last
    BY <2>1, <2>2, <2>3
  <2> QED BY <2>3, <2>4 DEF p, NearPart
<1> QED BY <1>2, <1>3, <1>4, <1>5, <1>6, <1>7

LEMMA ScanCut ==
  ASSUME Placed
  PROVE  Cut(0 .. pool.slots - 1, ScanRange, 0, call.last)
<1> DEFINE S == 0 .. pool.slots - 1
<1>1. CASE pool.share = 0
  <2>1. \A s \in S : ScanRange(s) = Split(call.last, s, pool.slots)
    BY <1>1 DEF ScanRange
  <2> QED BY <2>1, EvenCut DEF Cut
<1>2. CASE pool.share # 0
  <2> DEFINE rest == call.last - NearPart
             near(s) == Split(NearPart, Rank(Near, s), Cardinality(Near))
             far(s) == Split(rest, Rank(Far, s), Cardinality(Far))
  <2>1. call.last \in Nat /\ pool.slots \in Nat /\ NearPart \in Nat /\ rest \in Nat
        /\ rest + NearPart = call.last
    BY <1>2, PlacedTypes, GroupsOfScan
  <2>2. /\ Near \in SUBSET S /\ Far \in SUBSET S /\ S = Near \union Far
        /\ Near \cap Far = {} /\ Near # {} /\ Far # {}
    BY <1>2, GroupsOfScan DEF Far
  <2>3. ASSUME NEW s \in Near PROVE ScanRange(s) = near(s)
    <3>1. s \in OnProducerCcd(pool.ccd) /\ IndexInGroup(s) = Rank(Near, s)
      BY <2>3, <1>2, GroupsOfScan DEF Near
    <3> QED BY <3>1, <1>2 DEF ScanRange, Near, NearPart
  <2>4. ASSUME NEW s \in Far PROVE ScanRange(s) = <<NearPart + far(s)[1], NearPart + far(s)[2]>>
    <3>1. s \notin OnProducerCcd(pool.ccd) /\ IndexInGroup(s) = Rank(Far, s)
      BY <2>4, <1>2, GroupsOfScan DEF Near, Far
    <3>2. Max({1, pool.slots - Cardinality(OnProducerCcd(pool.ccd))}) = Cardinality(Far)
      BY <1>2, GroupsOfScan DEF Near
    <3> QED BY <3>1, <3>2, <1>2 DEF ScanRange, NearPart
  <2>5. /\ \A s \in Near : near(s)[1] \in Nat /\ near(s)[2] \in Nat /\ near(s)[2] <= NearPart
        /\ \A s, u \in Near, i \in Nat : Holds(near(s), i) /\ Holds(near(u), i) => s = u
        /\ \A i \in 0 .. NearPart - 1 : \E s \in Near : Holds(near(s), i)
    BY <2>1, <2>2, GroupRight
  <2>6. /\ \A s \in Far : far(s)[1] \in Nat /\ far(s)[2] \in Nat /\ far(s)[2] <= rest
        /\ \A s, u \in Far, i \in Nat : Holds(far(s), i) /\ Holds(far(u), i) => s = u
        /\ \A i \in 0 .. rest - 1 : \E s \in Far : Holds(far(s), i)
    <3> HIDE DEF rest
    <3>1. \A G \in SUBSET S : G # {} =>
            /\ \A s \in G : LET part == Split(rest, Rank(G, s), Cardinality(G))
                            IN  part[1] \in Nat /\ part[2] \in Nat /\ part[2] <= rest
            /\ \A s, u \in G, i \in Nat :
                 /\ Holds(Split(rest, Rank(G, s), Cardinality(G)), i)
                 /\ Holds(Split(rest, Rank(G, u), Cardinality(G)), i)
                 => s = u
            /\ \A i \in 0 .. rest - 1 : \E s \in G : Holds(Split(rest, Rank(G, s), Cardinality(G)), i)
      BY <2>1, GroupRight
    <3> QED BY <3>1, <2>2
  <2> HIDE DEF near, far, rest
  <2>7. \A s \in Near : /\ ScanRange(s)[1] \in Nat /\ ScanRange(s)[2] \in Nat
                        /\ 0 <= ScanRange(s)[1] /\ ScanRange(s)[2] <= NearPart
    BY <2>3, <2>5
  <2>8. \A s \in Far : /\ ScanRange(s)[1] \in Nat /\ ScanRange(s)[2] \in Nat
                       /\ NearPart <= ScanRange(s)[1] /\ ScanRange(s)[2] <= call.last
    BY <2>1, <2>4, <2>6
  <2>9. \A s \in Far, i \in Nat : Holds(ScanRange(s), i) => i >= NearPart /\ Holds(far(s), i - NearPart)
    BY <2>1, <2>4, <2>6 DEF Holds
  <2>10. ASSUME NEW s \in S, NEW u \in S, NEW i \in Nat,
                Holds(ScanRange(s), i), Holds(ScanRange(u), i)
         PROVE  s = u
    <3>1. CASE s \in Near /\ u \in Near
      BY <3>1, <2>3, <2>5, <2>10
    <3>2. CASE s \in Far /\ u \in Far
      <4>1. i - NearPart \in Nat /\ Holds(far(s), i - NearPart) /\ Holds(far(u), i - NearPart)
        BY <3>2, <2>1, <2>9, <2>10
      <4> QED BY <4>1, <3>2, <2>6
    <3>3. \A a \in Near, b \in Far : ~(Holds(ScanRange(a), i) /\ Holds(ScanRange(b), i))
      BY <2>1, <2>7, <2>8 DEF Holds
    <3> QED BY <3>1, <3>2, <3>3, <2>2, <2>10
  <2>11. ASSUME NEW i \in 0 .. call.last - 1 PROVE \E s \in S : Holds(ScanRange(s), i)
    <3>1. CASE i < NearPart
      <4>1. i \in 0 .. NearPart - 1
        BY <3>1, <2>1
      <4>2. PICK s \in Near : Holds(near(s), i)
        BY <4>1, <2>5
      <4> QED BY <4>2, <2>2, <2>3
    <3>2. CASE ~(i < NearPart)
      <4>1. i - NearPart \in 0 .. rest - 1
        BY <3>2, <2>1
      <4>2. PICK s \in Far : Holds(far(s), i - NearPart)
        BY <4>1, <2>6
      <4>3. Holds(ScanRange(s), i)
        BY <4>2, <2>1, <2>4, <2>6 DEF Holds
      <4> QED BY <4>3, <2>2
    <3> QED BY <3>1, <3>2
  <2>12. \A s \in S : /\ ScanRange(s)[1] \in Nat /\ ScanRange(s)[2] \in Nat
                      /\ 0 <= ScanRange(s)[1] /\ ScanRange(s)[2] <= call.last
    BY <2>1, <2>2, <2>7, <2>8
  <2> QED BY <2>10, <2>11, <2>12 DEF Cut
<1> QED BY <1>1, <1>2

(* The blocks of a call, whatever its kind. *)
Blocks == IF call.kind \in SlotKinds THEN 0 .. pool.slots - 1 ELSE 0 .. BlockCount - 1

LEMMA CutRight ==
  ASSUME Placed, Fits
  PROVE  Cut(Blocks, Bounds, call.first, call.last)
<1> USE PlacedTypes, ChunkType
<1>1. CASE Whole
  <2>1. call.kind \notin SlotKinds /\ BlockCount <= 1
    BY <1>1 DEF Whole, ForKinds, SlotKinds
  <2>2. BlockCount = 1
    BY <2>1
  <2>3. Blocks = 0 .. 0
    BY <2>1, <2>2 DEF Blocks
  <2>4. Bounds(0) = <<call.first, call.last>>
    BY <1>1, <2>1 DEF Bounds, SlotKinds
  <2> QED BY <2>3, <2>4 DEF Cut, Holds
<1>2. CASE call.kind = "slots"
  <2>1. ~Whole /\ Blocks = 0 .. pool.slots - 1 /\ call.first = 0
    BY <1>2 DEF Whole, Blocks, ForKinds, SlotKinds
  <2>2. \A s : Bounds(s) = Split(call.last, s, pool.slots)
    BY <1>2, <2>1 DEF Bounds
  <2>3. Cut(0 .. pool.slots - 1, Bounds, 0, call.last)
    BY <2>2, EvenCut DEF Cut
  <2> QED BY <2>1, <2>3 DEF Cut
<1>3. CASE call.kind = "scan"
  <2>1. ~Whole /\ Blocks = 0 .. pool.slots - 1 /\ call.first = 0
    BY <1>3 DEF Whole, Blocks, ForKinds, SlotKinds
  <2>2. \A s : Bounds(s) = ScanRange(s)
    BY <1>3, <2>1 DEF Bounds
  <2>3. Cut(0 .. pool.slots - 1, Bounds, 0, call.last)
    BY <2>2, ScanCut DEF Cut
  <2> QED BY <2>1, <2>3 DEF Cut
<1>4. CASE ~Whole /\ call.kind \notin SlotKinds
  <2>1. Blocks = 0 .. BlockCount - 1
    BY <1>4 DEF Blocks
  <2>2. \A b : Bounds(b) = BlockRange(b)
    BY <1>4 DEF Bounds, SlotKinds
  <2>3. call.last + Chunk <= Size
    BY <1>4 DEF Fits, Placed, Whole, Chunk, BlockCount, Items
  <2> QED BY <2>1, <2>2, <2>3, BlocksRight DEF Cut
<1> QED BY <1>1, <1>2, <1>3, <1>4 DEF SlotKinds

-----------------------------------------------------------------------------
(* Who runs which block.                                                   *)

Slots == 0 .. pool.slots - 1

(* Each block of a reduction is in the span of one rank. *)
LEMMA SpanCut ==
  ASSUME Placed
  PROVE  Cut(Slots, Span, 0, BlockCount)
<1> DEFINE m == pool.slots
           base == BlockCount \div m
           extra == BlockCount % m
           begin(r) == r * base + (IF r <= extra THEN r ELSE extra)
           end(r) == begin(r) + base + (IF r < extra THEN 1 ELSE 0)
<1>1. /\ m \in Nat \ {0} /\ base \in Nat /\ extra \in 0 .. m - 1 /\ BlockCount \in Nat
      /\ BlockCount = base * m + extra
  BY PlacedTypes, ChunkType, Division
<1> HIDE DEF base, extra
<1>2. ASSUME NEW r \in Slots PROVE Span(r)[1] = begin(r) /\ Span(r)[2] = end(r)
  <2>1. Min({r, extra}) = IF r <= extra THEN r ELSE extra
    BY <1>1, MinOfTwo DEF Slots
  <2> QED BY <2>1 DEF Span, base, extra
<1> HIDE DEF m
<1>3. ASSUME NEW r \in 0 .. m - 1
      PROVE  /\ r * base \in Nat /\ begin(r) \in Nat /\ end(r) \in Nat
             /\ end(r) = r * base + base + (IF r < extra THEN r + 1 ELSE extra)
             /\ end(r) <= BlockCount
  <2>1. r * base \in Nat /\ r * base + base <= m * base /\ m * base = base * m
        /\ base * m \in Nat
    BY <1>1, TimesSteps
  <2> QED BY <2>1, <1>1
<1>4. ASSUME NEW j \in 0 .. m - 1, NEW k \in 0 .. m - 1, j < k
      PROVE  end(j) <= begin(k)
  <2>1. j * base + base <= k * base
    BY <1>1, <1>4, TimesSteps
  <2> QED BY <2>1, <1>1, <1>3, <1>4
<1>5. ASSUME NEW x \in 0 .. BlockCount - 1
      PROVE  \E r \in 0 .. m - 1 : begin(r) <= x /\ x < end(r)
  <2>1. extra * (base + 1) = extra * base + extra /\ extra * base \in Nat
    BY <1>1
  <2>2. CASE x < extra * (base + 1)
    <3> DEFINE r == x \div (base + 1)
    <3>1. base + 1 \in Nat \ {0} /\ x \in Nat
      BY <1>1
    <3>2. r \in Nat /\ r * (base + 1) <= x /\ x < r * (base + 1) + (base + 1)
      BY <3>1, Division
    <3> HIDE DEF r
    <3>3. r * (base + 1) = r * base + r /\ r * base \in Nat
      BY <3>2, <1>1
    <3>4. r < extra
      <4>1. CASE extra < r
        <5>1. extra * (base + 1) + (base + 1) <= r * (base + 1)
          BY <4>1, <3>1, <3>2, <1>1, TimesSteps
        <5> QED BY <5>1, <2>1, <2>2, <3>2, <3>3, <1>1
      <4>2. CASE extra = r
        BY <4>2, <2>1, <2>2, <3>1, <3>2, <3>3
      <4> QED BY <4>1, <4>2, <3>2, <1>1
    <3> QED BY <3>2, <3>3, <3>4, <1>1
  <2>3. CASE ~(x < extra * (base + 1))
    <3> DEFINE y == x - extra * (base + 1)
               q == y \div base
    <3>1. y \in Nat /\ x = y + extra * base + extra
      BY <2>1, <2>3, <1>1
    <3>2. (m - extra) * base = m * base - extra * base /\ m * base = base * m
          /\ m * base \in Nat
      BY <1>1
    <3>3. y < (m - extra) * base
      BY <3>1, <3>2, <2>1, <1>1
    <3> HIDE DEF y
    <3>4. base \in Nat \ {0}
      <4>1. CASE base = 0
        <5>1. (m - extra) * base = 0
          BY <4>1, <1>1
        <5> QED BY <5>1, <3>1, <3>3
      <4> QED BY <4>1, <1>1
    <3>5. q \in Nat /\ q * base <= y /\ y < q * base + base
      BY <3>1, <3>4, <1>1, Division
    <3> HIDE DEF q
    <3>6. q < m - extra
      <4>1. m - extra \in Nat /\ q * base \in Nat
        BY <1>1, <3>5
      <4>2. CASE m - extra < q
        <5>1. (m - extra) * base + base <= q * base
          BY <4>1, <4>2, <3>5, <1>1, TimesSteps
        <5> QED BY <5>1, <4>1, <3>1, <3>2, <3>3, <3>5, <2>1, <1>1
      <4>3. CASE m - extra = q
        BY <4>1, <4>3, <3>1, <3>3, <3>5
      <4> QED BY <4>1, <4>2, <4>3, <3>5
    <3>7. (extra + q) * base = extra * base + q * base /\ q * base \in Nat
      BY <1>1, <3>5
    <3>8. extra + q \in 0 .. m - 1 /\ extra <= extra + q /\ ~(extra + q < extra)
      BY <1>1, <3>5, <3>6
    <3>9. begin(extra + q) = extra * base + q * base + extra
      BY <3>7, <3>8, <3>5, <1>1
    <3>10. end(extra + q) = extra * base + q * base + extra + base
      BY <3>9, <3>8, <2>1, <3>7, <1>1
    <3> HIDE DEF begin, end
    <3>11. begin(extra + q) <= x /\ x < end(extra + q)
      BY <3>1, <3>5, <3>7, <3>9, <3>10, <2>1, <1>1
    <3> QED BY <3>8, <3>11
  <2> QED BY <2>2, <2>3
<1> HIDE DEF begin, end
<1>6. Slots = 0 .. m - 1
  BY DEF Slots, m
<1>7. \A j, k \in Slots, i \in Nat : Holds(Span(j), i) /\ Holds(Span(k), i) => j = k
  <2>1. ASSUME NEW j \in Slots, NEW k \in Slots, NEW i \in Nat,
               Holds(Span(j), i), Holds(Span(k), i), j < k
        PROVE  FALSE
    <3>1. end(j) <= begin(k) /\ end(j) \in Nat /\ begin(k) \in Nat
      BY <2>1, <1>3, <1>4, <1>6
    <3> QED BY <3>1, <2>1, <1>2 DEF Holds
  <2>2. \A j, k \in Slots : j < k \/ j = k \/ k < j
    BY <1>1, <1>6
  <2> QED BY <2>1, <2>2
<1>8. \A r \in Slots : /\ Span(r)[1] \in Nat /\ Span(r)[2] \in Nat
                       /\ 0 <= Span(r)[1] /\ Span(r)[2] <= BlockCount
  BY <1>2, <1>3, <1>6
<1>9. \A i \in 0 .. BlockCount - 1 : \E r \in Slots : Holds(Span(r), i)
  <2>1. ASSUME NEW i \in 0 .. BlockCount - 1 PROVE \E r \in Slots : Holds(Span(r), i)
    <3>1. PICK r \in Slots : begin(r) <= i /\ i < end(r)
      BY <1>5, <1>6
    <3> QED BY <3>1, <1>2 DEF Holds
  <2> QED BY <2>1
<1> QED BY <1>7, <1>8, <1>9 DEF Cut

(* The blocks that have been run, by how the kind of call hands them out.  *)
Taken(b) ==
  \/ Alone /\ b <= at[0]
  \/ ~Alone /\ call.kind = "stage_blocks" /\ b < next
  \/ ~Alone /\ call.kind = "for_dynamic" /\ (IF b \in Slots THEN at[b] # NoBlock ELSE b < next)
  \/ ~Alone /\ call.kind = "reduce" /\ \E r \in Slots : Holds(Span(r), b) /\ b <= at[r]
  \/ ~Alone /\ call.kind \in {"for_static", "reduce_runtime"} /\ b <= at[b % pool.slots]
  \/ ~Alone /\ call.kind \in SlotKinds /\ at[b] # NoBlock

(* A rank of a reduction is in its span, one of a static call on its own   *)
(* residue, and the counter of a dynamic call is behind the ranks' blocks. *)
PlaceInv ==
  /\ at \in [Slots -> Nat \union {NoBlock}] /\ next \in Nat
  /\ call.kind = "for_dynamic" => next >= pool.slots
  /\ ~Alone /\ call.kind = "reduce" =>
       \A r \in Slots : at[r] # NoBlock => Holds(Span(r), at[r])
  /\ ~Alone /\ call.kind \in {"for_static", "reduce_runtime"} =>
       \A r \in Slots : at[r] # NoBlock => at[r] % pool.slots = r

(* What Run does to who has run what. *)
Advance(r) ==
  /\ Candidate(r) < Limit(r)
  /\ at' = [at EXCEPT ![r] = Candidate(r)]
  /\ next' = IF FromCounter(r) THEN next + 1 ELSE next
  /\ UNCHANGED <<pool, call>>

(* The block is one that has not been run, and now has. *)
TakesOne(b) ==
  /\ b \in Blocks /\ ~Taken(b) /\ PlaceInv'
  /\ \A c \in Blocks : Taken(c)' <=> Taken(c) \/ c = b

AllLeave == \A r \in Runners : Candidate(r) >= Limit(r)
AllTaken == \A b \in Blocks : Taken(b)

LEMMA ShapeFrame ==
  ASSUME UNCHANGED <<pool, call>>
  PROVE  /\ Slots' = Slots /\ Blocks' = Blocks /\ Alone' = Alone /\ Runners' = Runners
         /\ \A b : Bounds(b)' = Bounds(b)
         /\ \A r : Span(r)' = Span(r) /\ Limit(r)' = Limit(r)
         /\ Placed' = Placed
<1>1. Items' = Items /\ Chunk' = Chunk
  BY DEF Items, Chunk
<1>2. BlockCount' = BlockCount
  BY <1>1 DEF BlockCount
<1>3. Alone' = Alone /\ Whole' = Whole /\ Slots' = Slots /\ Blocks' = Blocks
  BY <1>2 DEF Alone, Whole, Slots, Blocks
<1>4. \A r : Span(r)' = Span(r)
  BY <1>2 DEF Span
<1>5. Runners' = Runners /\ \A r : Limit(r)' = Limit(r)
  BY <1>2, <1>3, <1>4 DEF Runners, Limit
<1>6. \A s : IndexInGroup(s)' = IndexInGroup(s)
  BY DEF IndexInGroup
<1>7. \A s : ScanRange(s)' = ScanRange(s)
  BY <1>6 DEF ScanRange
<1>8. \A b : BlockRange(b)' = BlockRange(b)
  BY <1>1 DEF BlockRange
<1>9. \A b : Bounds(b)' = Bounds(b)
  BY <1>3, <1>7, <1>8 DEF Bounds
<1> QED BY <1>3, <1>4, <1>5, <1>9 DEF Placed

(* One runner alone runs block after block. *)
LEMMA AloneRuns ==
  ASSUME Placed, PlaceInv, Alone
  PROVE  /\ \A r \in Runners : Advance(r) => TakesOne(Candidate(r))
         /\ AllLeave => AllTaken
<1>1. /\ Runners = {0} /\ 0 \in Slots /\ Blocks = 0 .. BlockCount - 1
      /\ Candidate(0) = at[0] + 1 /\ Limit(0) = BlockCount /\ ~FromCounter(0)
      /\ at[0] \in Nat \union {-1} /\ BlockCount \in Nat
  <2>1. call.kind \notin SlotKinds
    BY DEF Alone, InlineKinds, ForKinds, ReduceKinds, SlotKinds
  <2>2. Runners = {0} /\ Blocks = 0 .. BlockCount - 1 /\ ~FromCounter(0) /\ 0 \in Slots
    BY <2>1, PlacedTypes DEF Runners, Blocks, FromCounter, Slots
  <2>3. Limit(0) = BlockCount
    BY <2>1 DEF Limit
  <2>4. Candidate(0) = at[0] + 1
    BY <2>2 DEF Candidate
  <2>5. at[0] \in Nat \union {-1}
    BY <2>2 DEF PlaceInv, NoBlock
  <2> QED BY <2>2, <2>3, <2>4, <2>5, ChunkType
<1>2. \A b : Taken(b) <=> b <= at[0]
  BY DEF Taken
<1>3. ASSUME Advance(0) PROVE TakesOne(Candidate(0))
  <2>1. at' = [at EXCEPT ![0] = at[0] + 1] /\ next' = next /\ at[0] + 1 < BlockCount
    BY <1>1, <1>3 DEF Advance
  <2>2. Alone' /\ Slots' = Slots /\ Blocks' = Blocks /\ UNCHANGED <<pool, call>>
    BY <1>3, ShapeFrame DEF Advance
  <2>3. at' \in [Slots -> Nat \union {NoBlock}] /\ at'[0] = at[0] + 1
    BY <1>1, <2>1 DEF PlaceInv, NoBlock
  <2>4. PlaceInv'
    BY <2>1, <2>2, <2>3 DEF PlaceInv
  <2>5. \A b : Taken(b)' <=> b <= at[0] + 1
    BY <2>2, <2>3 DEF Taken
  <2> QED BY <1>1, <1>2, <2>1, <2>4, <2>5 DEF TakesOne
<1>4. ASSUME AllLeave PROVE AllTaken
  <2>1. at[0] + 1 >= BlockCount
    BY <1>1, <1>4 DEF AllLeave
  <2> QED BY <1>1, <1>2, <2>1 DEF AllTaken
<1> QED BY <1>1, <1>3, <1>4

(* The blocks of a stage come from the counter. *)
LEMMA StageRuns ==
  ASSUME Placed, PlaceInv, call.kind = "stage_blocks"
  PROVE  /\ \A r \in Runners : Advance(r) => TakesOne(Candidate(r))
         /\ AllLeave => AllTaken
<1>1. /\ ~Alone /\ Runners = Slots /\ 0 \in Slots /\ Blocks = 0 .. BlockCount - 1
      /\ BlockCount \in Nat /\ next \in Nat
  <2>1. ~Alone
    BY DEF Alone, InlineKinds, ForKinds, ReduceKinds
  <2>2. Runners = Slots /\ 0 \in Slots
    BY <2>1, PlacedTypes DEF Runners, Slots
  <2>3. Blocks = 0 .. BlockCount - 1
    BY DEF Blocks, SlotKinds
  <2>4. BlockCount \in Nat /\ next \in Nat
    BY ChunkType DEF PlaceInv
  <2> QED BY <2>1, <2>2, <2>3, <2>4
<1>2. ASSUME NEW r \in Slots
      PROVE  FromCounter(r) /\ Candidate(r) = next /\ Limit(r) = BlockCount
  <2>1. FromCounter(r)
    BY <1>1 DEF FromCounter
  <2> QED BY <1>1, <2>1 DEF Candidate, Limit, SlotKinds
<1>3. \A b : Taken(b) <=> b < next
  BY <1>1 DEF Taken, SlotKinds
<1>4. ASSUME NEW r \in Slots, Advance(r) PROVE TakesOne(Candidate(r))
  <2>1. at' = [at EXCEPT ![r] = next] /\ next' = next + 1 /\ next < BlockCount
    BY <1>2, <1>4 DEF Advance
  <2>2. ~Alone' /\ Slots' = Slots /\ Blocks' = Blocks /\ UNCHANGED <<pool, call>>
    BY <1>1, <1>4, ShapeFrame DEF Advance
  <2>3. at' \in [Slots -> Nat \union {NoBlock}] /\ next' \in Nat
    BY <1>1, <2>1 DEF PlaceInv
  <2>4. PlaceInv'
    BY <2>2, <2>3 DEF PlaceInv
  <2>5. \A b : Taken(b)' <=> b < next + 1
    BY <2>1, <2>2 DEF Taken, SlotKinds
  <2> QED BY <1>1, <1>2, <1>3, <2>1, <2>4, <2>5 DEF TakesOne
<1>5. ASSUME AllLeave PROVE AllTaken
  <2>1. next >= BlockCount
    BY <1>1, <1>2, <1>5 DEF AllLeave
  <2> QED BY <1>1, <1>3, <2>1 DEF AllTaken
<1> QED BY <1>1, <1>4, <1>5

(* Each slot of a chain, a plex and a scan has its range. *)
LEMMA SlotRuns ==
  ASSUME Placed, PlaceInv, call.kind \in SlotKinds
  PROVE  /\ \A r \in Runners : Advance(r) => TakesOne(Candidate(r))
         /\ AllLeave => AllTaken
<1>1. ~Alone /\ Runners = Slots /\ Blocks = Slots /\ pool.slots \in Nat
  <2>1. ~Alone
    BY DEF Alone, InlineKinds, ForKinds, ReduceKinds, SlotKinds
  <2> QED BY <2>1, PlacedTypes DEF Runners, Blocks, Slots
<1>2. ASSUME NEW r \in Slots
      PROVE  /\ ~FromCounter(r) /\ Limit(r) = pool.slots
             /\ Candidate(r) = IF at[r] = NoBlock THEN r ELSE pool.slots
  <2>1. ~FromCounter(r)
    BY DEF FromCounter, SlotKinds
  <2>2. Limit(r) = pool.slots
    BY DEF Limit, SlotKinds
  <2> QED BY <1>1, <2>1, <2>2 DEF Candidate, SlotKinds
<1>3. \A b : Taken(b) <=> at[b] # NoBlock
  BY <1>1 DEF Taken, SlotKinds
<1>4. ASSUME NEW r \in Slots, Advance(r) PROVE TakesOne(Candidate(r))
  <2>1. at[r] = NoBlock /\ Candidate(r) = r
    BY <1>1, <1>2, <1>4 DEF Advance
  <2>2. at' = [at EXCEPT ![r] = r] /\ next' = next
    BY <1>2, <1>4, <2>1 DEF Advance
  <2>3. ~Alone' /\ Slots' = Slots /\ Blocks' = Blocks /\ UNCHANGED <<pool, call>>
    BY <1>1, <1>4, ShapeFrame DEF Advance
  <2>4. at' \in [Slots -> Nat \union {NoBlock}] /\ next' \in Nat /\ r # NoBlock
    BY <2>2 DEF PlaceInv, Slots, NoBlock
  <2>5. PlaceInv'
    BY <2>3, <2>4 DEF PlaceInv, SlotKinds
  <2>6. \A b : Taken(b)' <=> at'[b] # NoBlock
    BY <2>3 DEF Taken, SlotKinds
  <2>7. \A b \in Slots : at'[b] # NoBlock <=> at[b] # NoBlock \/ b = r
    BY <2>2, <2>4 DEF PlaceInv
  <2>8. \A c \in Blocks : Taken(c)' <=> Taken(c) \/ c = r
    BY <1>1, <1>3, <2>6, <2>7
  <2>9. r \in Blocks /\ ~Taken(r)
    BY <1>1, <1>3, <2>1
  <2> QED BY <2>1, <2>5, <2>8, <2>9 DEF TakesOne
<1>5. ASSUME AllLeave PROVE AllTaken
  <2>1. ASSUME NEW b \in Slots, at[b] = NoBlock PROVE FALSE
    <3>1. Candidate(b) = b /\ Candidate(b) >= pool.slots
      BY <1>1, <1>2, <1>5, <2>1 DEF AllLeave
    <3> QED BY <3>1, <1>1 DEF Slots
  <2> QED BY <1>1, <1>3, <2>1 DEF AllTaken
<1> QED BY <1>1, <1>4, <1>5

(* A static call deals its blocks out to the ranks in turn. *)
LEMMA DealRuns ==
  ASSUME Placed, PlaceInv, ~Alone, call.kind \in {"for_static", "reduce_runtime"}
  PROVE  /\ \A r \in Runners : Advance(r) => TakesOne(Candidate(r))
         /\ AllLeave => AllTaken
<1> DEFINE m == pool.slots
<1>1. /\ Runners = Slots /\ Slots = 0 .. m - 1 /\ Blocks = 0 .. BlockCount - 1
      /\ m \in Nat \ {0} /\ BlockCount \in Nat
  <2>1. Blocks = 0 .. BlockCount - 1
    BY DEF Blocks, SlotKinds
  <2>2. Runners = Slots /\ Slots = 0 .. m - 1
    BY DEF Runners, Slots
  <2> QED BY <2>1, <2>2, PlacedTypes, ChunkType
<1>2. ASSUME NEW r \in Slots
      PROVE  /\ ~FromCounter(r) /\ Limit(r) = BlockCount
             /\ Candidate(r) = IF at[r] = NoBlock THEN r ELSE at[r] + m
  <2>1. ~FromCounter(r)
    BY DEF FromCounter
  <2>2. Limit(r) = BlockCount
    BY DEF Limit, SlotKinds
  <2> QED BY <2>1, <2>2 DEF Candidate
<1>3. \A b : Taken(b) <=> b <= at[b % m]
  BY DEF Taken, SlotKinds
<1>4. \A r \in Slots : /\ at[r] \in Nat \union {NoBlock}
                       /\ at[r] # NoBlock => at[r] % m = r
  BY DEF PlaceInv
<1> HIDE DEF m
<1>5. \A b \in Nat : b % m \in Slots
  BY <1>1, Division
<1>6. \A r \in Slots : r \in Nat /\ r % m = r /\ r # NoBlock
  BY <1>1 DEF NoBlock
(* What a rank ran last and its candidate enclose no block of its own. *)
<1>7. ASSUME NEW r \in Slots
      PROVE  /\ Candidate(r) \in Nat /\ Candidate(r) % m = r
             /\ at[r] < Candidate(r)
             /\ \A b \in Nat : b % m = r => (b <= at[r] <=> b < Candidate(r))
  <2>1. CASE at[r] = NoBlock
    <3>1. Candidate(r) = r /\ r \in Nat /\ r % m = r
      BY <1>2, <1>6, <2>1
    <3>2. ASSUME NEW b \in Nat, b % m = r PROVE ~(b <= at[r]) /\ ~(b < r)
      <4>1. b % m = r % m
        BY <3>1, <3>2
      <4>2. ~(b < r)
        <5>1. ASSUME b < r PROVE FALSE
          <6>1. b + m <= r
            BY <4>1, <5>1, <3>1, <1>1, SameRest
          <6> QED BY <6>1, <1>1
        <5> QED BY <5>1
      <4> QED BY <4>2, <2>1 DEF NoBlock
    <3> QED BY <2>1, <3>1, <3>2 DEF NoBlock
  <2>2. CASE at[r] # NoBlock
    <3>1. at[r] \in Nat /\ at[r] % m = r /\ Candidate(r) = at[r] + m
      BY <1>2, <1>4, <2>2
    <3>2. (at[r] + m) % m = r
      BY <3>1, <1>1, RestPlus
    <3>3. ASSUME NEW b \in Nat, b % m = r PROVE b <= at[r] <=> b < at[r] + m
      <4>1. CASE b <= at[r]
        BY <4>1, <3>1, <1>1
      <4>2. CASE at[r] < b
        <5>1. at[r] + m <= b
          BY <4>2, <3>1, <3>3, <1>1, SameRest
        <5> QED BY <4>2, <5>1, <3>1, <1>1
      <4> QED BY <4>1, <4>2, <3>1
    <3>4. Candidate(r) \in Nat /\ at[r] < Candidate(r)
      BY <3>1, <1>1
    <3> QED BY <3>1, <3>2, <3>3, <3>4
  <2> QED BY <2>1, <2>2
<1>8. ASSUME NEW r \in Slots, Advance(r) PROVE TakesOne(Candidate(r))
  <2> DEFINE k == Candidate(r)
  <2>1. k < BlockCount /\ at' = [at EXCEPT ![r] = k] /\ next' = next
    BY <1>2, <1>8 DEF Advance
  <2>2. ~Alone' /\ Slots' = Slots /\ Blocks' = Blocks /\ UNCHANGED <<pool, call>>
    BY <1>8, ShapeFrame DEF Advance
  <2>3. /\ k \in Nat /\ k % m = r /\ at[r] < k
        /\ \A b \in Nat : b % m = r => (b <= at[r] <=> b < k)
    BY <1>7
  <2> HIDE DEF k
  <2>4. /\ at' \in [Slots -> Nat \union {NoBlock}] /\ next' \in Nat
        /\ \A s \in Slots : at'[s] = IF s = r THEN k ELSE at[s]
    BY <2>1, <2>3 DEF PlaceInv
  <2>5. \A s \in Slots : at'[s] # NoBlock => at'[s] % m = s
    BY <1>4, <2>3, <2>4
  <2>6. PlaceInv'
    BY <2>2, <2>4, <2>5 DEF PlaceInv, m
  <2>7. \A b : Taken(b)' <=> b <= at'[b % m]
    BY <2>2 DEF Taken, SlotKinds, m
  <2>8. k \in Blocks /\ ~Taken(k)
    <3>1. ~(k <= at[r])
      BY <2>3
    <3> QED BY <3>1, <1>1, <1>3, <2>1, <2>3
  <2>9. ASSUME NEW c \in Blocks PROVE Taken(c)' <=> Taken(c) \/ c = k
    <3>0. c \in Nat
      BY <1>1
    <3>1. c \in Nat /\ c % m \in Slots
      BY <3>0, <1>5
    <3>2. CASE c % m = r
      <4>1. Taken(c)' <=> c <= k
        BY <3>1, <3>2, <2>4, <2>7
      <4>2. Taken(c) <=> c < k
        BY <3>1, <3>2, <1>3, <2>3
      <4> QED BY <4>1, <4>2, <3>1, <2>3
    <3>3. CASE c % m # r
      <4>1. at'[c % m] = at[c % m]
        BY <3>1, <3>3, <2>4
      <4> QED BY <4>1, <3>3, <1>3, <2>3, <2>7
    <3> QED BY <3>2, <3>3
  <2> QED BY <2>6, <2>8, <2>9 DEF TakesOne, k
<1>9. ASSUME AllLeave PROVE AllTaken
  <2>1. ASSUME NEW b \in Blocks PROVE Taken(b)
    <3>0. b \in Nat /\ b < BlockCount
      BY <1>1
    <3>1. b \in Nat /\ b < BlockCount /\ b % m \in Slots
      BY <3>0, <1>5
    <3>2. Candidate(b % m) >= BlockCount
      BY <1>1, <1>2, <1>9, <3>1 DEF AllLeave
    <3>3. b < Candidate(b % m)
      BY <1>1, <1>7, <3>1, <3>2
    <3> QED BY <1>3, <1>7, <3>1, <3>3
  <2> QED BY <2>1 DEF AllTaken
<1> QED BY <1>1, <1>8, <1>9

(* A dynamic call gives each rank its own block, then the counter's. *)
LEMMA DynamicRuns ==
  ASSUME Placed, PlaceInv, ~Alone, call.kind = "for_dynamic"
  PROVE  /\ \A r \in Runners : Advance(r) => TakesOne(Candidate(r))
         /\ AllLeave => AllTaken
<1> DEFINE m == pool.slots
<1>1. /\ Runners = Slots /\ Slots = 0 .. m - 1 /\ Blocks = 0 .. BlockCount - 1
      /\ m \in Nat \ {0} /\ BlockCount \in Nat /\ next \in Nat /\ next >= m
  <2>1. Blocks = 0 .. BlockCount - 1
    BY DEF Blocks, SlotKinds
  <2>2. Runners = Slots /\ Slots = 0 .. m - 1
    BY DEF Runners, Slots
  <2> QED BY <2>1, <2>2, PlacedTypes, ChunkType DEF PlaceInv
<1>2. ASSUME NEW r \in Slots
      PROVE  /\ FromCounter(r) <=> at[r] # NoBlock /\ BlockCount > m
             /\ Limit(r) = BlockCount
             /\ at[r] = NoBlock => Candidate(r) = r
             /\ at[r] # NoBlock => Candidate(r) = IF BlockCount > m THEN next ELSE BlockCount
  <2>1. FromCounter(r) <=> at[r] # NoBlock /\ BlockCount > m
    BY DEF FromCounter
  <2>2. Limit(r) = BlockCount
    BY DEF Limit, SlotKinds
  <2> QED BY <2>1, <2>2 DEF Candidate
<1>3. \A b : Taken(b) <=> IF b \in Slots THEN at[b] # NoBlock ELSE b < next
  BY DEF Taken, SlotKinds
<1> HIDE DEF m
<1>4. \A r \in Slots : r \in Nat /\ r < m /\ r # NoBlock
  BY <1>1 DEF NoBlock
<1>5. ASSUME NEW r \in Slots, Advance(r) PROVE TakesOne(Candidate(r))
  <2>1. /\ Candidate(r) < BlockCount /\ at' = [at EXCEPT ![r] = Candidate(r)]
        /\ next' = IF FromCounter(r) THEN next + 1 ELSE next
    BY <1>2, <1>5 DEF Advance
  <2>2. ~Alone' /\ Slots' = Slots /\ Blocks' = Blocks /\ UNCHANGED <<pool, call>>
    BY <1>5, ShapeFrame DEF Advance
  <2>3. \A b : Taken(b)' <=> IF b \in Slots THEN at'[b] # NoBlock ELSE b < next'
    BY <2>2 DEF Taken, SlotKinds
  <2>4. CASE at[r] = NoBlock
    <3>1. at' = [at EXCEPT ![r] = r] /\ next' = next /\ Candidate(r) = r /\ r < BlockCount
      BY <1>2, <2>1, <2>4
    <3>2. /\ at' \in [Slots -> Nat \union {NoBlock}]
          /\ \A s \in Slots : at'[s] = IF s = r THEN r ELSE at[s]
      BY <1>4, <3>1 DEF PlaceInv
    <3>3. PlaceInv'
      BY <1>1, <2>2, <3>1, <3>2 DEF PlaceInv, m
    <3>4. r \in Blocks /\ ~Taken(r)
      BY <1>1, <1>3, <1>4, <2>4, <3>1
    <3>5. \A c \in Blocks : Taken(c)' <=> Taken(c) \/ c = r
      BY <1>3, <1>4, <2>3, <3>1, <3>2
    <3> QED BY <3>1, <3>3, <3>4, <3>5 DEF TakesOne
  <2>5. CASE at[r] # NoBlock
    <3>0. BlockCount > m
      BY <1>1, <1>2, <2>1, <2>5
    <3>1. BlockCount > m /\ at' = [at EXCEPT ![r] = next] /\ next' = next + 1
          /\ Candidate(r) = next /\ next < BlockCount
      BY <1>2, <2>1, <2>5, <3>0
    <3>2. /\ at' \in [Slots -> Nat \union {NoBlock}] /\ next # NoBlock
          /\ \A s \in Slots : at'[s] = IF s = r THEN next ELSE at[s]
      BY <1>1, <3>1 DEF PlaceInv, NoBlock
    <3>3. PlaceInv'
      BY <1>1, <2>2, <3>1, <3>2 DEF PlaceInv, m
    <3>4. next \in Blocks /\ ~Taken(next) /\ next \notin Slots
      BY <1>1, <1>3, <1>4, <3>1
    <3>5. ASSUME NEW c \in Blocks PROVE Taken(c)' <=> Taken(c) \/ c = next
      <4>1. CASE c \in Slots
        <5>1. at'[c] # NoBlock <=> at[c] # NoBlock
          BY <4>1, <3>2, <2>5
        <5> QED BY <4>1, <5>1, <3>4, <1>3, <2>3
      <4>2. CASE c \notin Slots
        <5>1. c \in Nat
          BY <1>1
        <5>2. c < next + 1 <=> c < next \/ c = next
          BY <5>1, <1>1
        <5> QED BY <4>2, <5>2, <3>1, <1>3, <2>3
      <4> QED BY <4>1, <4>2
    <3> QED BY <3>1, <3>3, <3>4, <3>5 DEF TakesOne
  <2> QED BY <2>4, <2>5
<1>6. ASSUME AllLeave PROVE AllTaken
  <2>1. \A r \in Slots : Candidate(r) >= BlockCount
    BY <1>1, <1>2, <1>6 DEF AllLeave
  <2>2. ASSUME NEW b \in Blocks, b \in Slots PROVE at[b] # NoBlock
    <3>1. b \in Nat /\ b < BlockCount
      BY <1>1, <2>2
    <3> QED BY <3>1, <1>1, <1>2, <2>1, <2>2
  <2>3. ASSUME NEW b \in Blocks, b \notin Slots PROVE b < next
    <3>1. b \in Nat /\ b < BlockCount /\ m <= b
      BY <1>1, <2>3
    <3>2. BlockCount > m /\ 0 \in Blocks /\ 0 \in Slots
      BY <1>1, <3>1
    <3>3. at[0] # NoBlock
      BY <2>2, <3>2
    <3>4. next >= BlockCount
      BY <1>2, <2>1, <3>2, <3>3
    <3> QED BY <3>1, <3>4, <1>1
  <2> QED BY <1>3, <2>2, <2>3 DEF AllTaken
<1> QED BY <1>1, <1>5, <1>6

(* Each rank of a reduction runs its span from the front. *)
LEMMA SpanRuns ==
  ASSUME Placed, PlaceInv, ~Alone, call.kind = "reduce"
  PROVE  /\ \A r \in Runners : Advance(r) => TakesOne(Candidate(r))
         /\ AllLeave => AllTaken
<1>1. /\ Runners = Slots /\ Blocks = 0 .. BlockCount - 1 /\ BlockCount \in Nat
      /\ \A r \in Slots : at[r] \in Nat \union {NoBlock}
      /\ \A r \in Slots : at[r] # NoBlock => Holds(Span(r), at[r])
  <2>1. Runners = Slots /\ Blocks = 0 .. BlockCount - 1
    BY DEF Blocks, SlotKinds, Runners, Slots
  <2> QED BY <2>1, ChunkType DEF PlaceInv
<1>2. /\ \A r \in Slots : /\ Span(r)[1] \in Nat /\ Span(r)[2] \in Nat
                          /\ Span(r)[2] <= BlockCount
      /\ \A r, s \in Slots, i \in Nat : Holds(Span(r), i) /\ Holds(Span(s), i) => r = s
      /\ \A i \in 0 .. BlockCount - 1 : \E r \in Slots : Holds(Span(r), i)
  BY SpanCut DEF Cut
<1>3. ASSUME NEW r \in Slots
      PROVE  /\ ~FromCounter(r) /\ Limit(r) = Span(r)[2]
             /\ Candidate(r) = IF at[r] = NoBlock THEN Span(r)[1] ELSE at[r] + 1
  <2>1. ~FromCounter(r)
    BY DEF FromCounter
  <2>2. Limit(r) = Span(r)[2]
    BY DEF Limit, SlotKinds
  <2> QED BY <2>1, <2>2 DEF Candidate
<1>4. \A b : Taken(b) <=> \E r \in Slots : Holds(Span(r), b) /\ b <= at[r]
  BY DEF Taken, SlotKinds
<1>5. ASSUME NEW r \in Slots
      PROVE  /\ Candidate(r) \in Nat /\ Span(r)[1] <= Candidate(r) /\ at[r] < Candidate(r)
             /\ \A b \in Nat : Holds(Span(r), b) => (b <= at[r] <=> b < Candidate(r))
  <2>1. CASE at[r] = NoBlock
    BY <2>1, <1>2, <1>3 DEF NoBlock, Holds
  <2>2. CASE at[r] # NoBlock
    <3>1. at[r] \in Nat /\ Span(r)[1] <= at[r] /\ Candidate(r) = at[r] + 1
      BY <2>2, <1>1, <1>3 DEF Holds
    <3> QED BY <3>1, <1>2
  <2> QED BY <2>1, <2>2
<1>6. ASSUME NEW r \in Slots, Advance(r) PROVE TakesOne(Candidate(r))
  <2> DEFINE k == Candidate(r)
  <2>1. k < Span(r)[2] /\ at' = [at EXCEPT ![r] = k] /\ next' = next
    BY <1>3, <1>6 DEF Advance
  <2>2. ~Alone' /\ Slots' = Slots /\ Blocks' = Blocks /\ UNCHANGED <<pool, call>>
        /\ \A s : Span(s)' = Span(s)
    BY <1>6, ShapeFrame DEF Advance
  <2>3. /\ k \in Nat /\ Span(r)[1] <= k /\ at[r] < k
        /\ \A b \in Nat : Holds(Span(r), b) => (b <= at[r] <=> b < k)
    BY <1>5
  <2> HIDE DEF k
  <2>4. Holds(Span(r), k) /\ k \in Blocks
    BY <2>1, <2>3, <1>1, <1>2 DEF Holds
  <2>5. /\ at' \in [Slots -> Nat \union {NoBlock}] /\ next' \in Nat
        /\ \A s \in Slots : at'[s] = IF s = r THEN k ELSE at[s]
    BY <2>1, <2>3 DEF PlaceInv
  <2>6. \A s \in Slots : at'[s] # NoBlock => Holds(Span(s), at'[s])
    BY <1>1, <2>4, <2>5
  <2>7. PlaceInv'
    <3>1. \A s \in Slots : at'[s] # NoBlock => Holds(Span(s)', at'[s])
      BY <2>2, <2>6 DEF Holds
    <3> QED BY <2>2, <2>5, <3>1 DEF PlaceInv, Holds
  <2>8. \A b : Taken(b)' <=> \E s \in Slots : Holds(Span(s), b) /\ b <= at'[s]
    BY <2>2 DEF Taken, SlotKinds, Holds
  <2>9. ASSUME NEW c \in Blocks, NEW s \in Slots, Holds(Span(s), c)
        PROVE  /\ Taken(c) <=> c <= at[s]
               /\ Taken(c)' <=> c <= at'[s]
               /\ c \in Nat
    <3>1. c \in Nat /\ \A q \in Slots : Holds(Span(q), c) => q = s
      BY <1>1, <1>2, <2>9
    <3> QED BY <3>1, <2>9, <1>4, <2>8
  <2>10. ~Taken(k)
    <3>1. Taken(k) <=> k <= at[r]
      BY <2>4, <2>9
    <3>2. ~(k <= at[r])
      BY <2>3, <2>4
    <3> QED BY <3>1, <3>2
  <2>11. ASSUME NEW c \in Blocks PROVE Taken(c)' <=> Taken(c) \/ c = k
    <3>1. PICK s \in Slots : Holds(Span(s), c)
      BY <1>1, <1>2
    <3>2. /\ Taken(c) <=> c <= at[s]
          /\ Taken(c)' <=> c <= at'[s]
          /\ c \in Nat
      BY <2>9, <3>1
    <3>3. CASE s = r
      <4>1. Taken(c)' <=> c <= k
        BY <3>2, <3>3, <2>5
      <4>2. Taken(c) <=> c < k
        BY <3>1, <3>2, <3>3, <2>3
      <4> QED BY <4>1, <4>2, <3>2, <2>3
    <3>4. CASE s # r
      <4>1. c # k
        BY <3>1, <3>4, <2>3, <2>4, <1>2
      <4>2. at'[s] = at[s]
        BY <3>4, <2>5
      <4> QED BY <4>1, <4>2, <3>2
    <3> QED BY <3>3, <3>4
  <2> QED BY <2>4, <2>7, <2>10, <2>11 DEF TakesOne, k
<1>7. ASSUME AllLeave PROVE AllTaken
  <2>1. ASSUME NEW b \in Blocks PROVE Taken(b)
    <3>1. PICK s \in Slots : Holds(Span(s), b)
      BY <1>1, <1>2
    <3>2. b \in Nat /\ b < Span(s)[2] /\ Candidate(s) >= Span(s)[2]
      BY <3>1, <1>1, <1>3, <1>7 DEF AllLeave, Holds
    <3>3. b < Candidate(s)
      BY <3>2, <1>2, <1>5
    <3>4. b <= at[s]
      BY <3>1, <3>2, <3>3, <1>5
    <3> QED BY <3>1, <3>4, <1>4
  <2> QED BY <2>1 DEF AllTaken
<1> QED BY <1>1, <1>6, <1>7

LEMMA EachRuns ==
  ASSUME Placed, PlaceInv
  PROVE  /\ \A r \in Runners : Advance(r) => TakesOne(Candidate(r))
         /\ AllLeave => AllTaken
<1>1. call.kind \in Kinds
  BY PlacedTypes
<1>2. call.kind \in InlineKinds => Alone
  BY DEF Alone
<1> QED BY <1>1, <1>2, AloneRuns, StageRuns, SlotRuns, DealRuns, DynamicRuns, SpanRuns
        DEF Kinds, ForKinds, ReduceKinds, InlineKinds, SlotKinds

-----------------------------------------------------------------------------
(* The invariant.                                                          *)

(* An item has been passed on once if its block has been run, else never. *)
CountInv ==
  count = [i \in 0 .. Size - 1 |->
             IF \E b \in Blocks : Taken(b) /\ Holds(Bounds(b), i) THEN 1 ELSE 0]

LeaveInv ==
  /\ leaving \subseteq Runners
  /\ ~stopped => \A r \in leaving : Candidate(r) >= Limit(r)
  /\ result.done => leaving = Runners

PartInv ==
  /\ pool \in Pools
  /\ call = NoCall => /\ leaving = {} /\ ~stopped /\ ~result.done
                      /\ count = [i \in 0 .. Size - 1 |-> 0]
  /\ call # NoCall => call \in Calls /\ PlaceInv /\ CountInv /\ LeaveInv

LEMMA CallsAreCalls == \A c \in Calls : c # NoCall
<1>1. \A c \in Calls : c.kind \in Kinds
  BY PartitionAssumption DEF PartitionAssumption
<1>2. NoCall.kind \notin Kinds
  BY DEF NoCall, Kinds, ForKinds, ReduceKinds, SlotKinds
<1> QED BY <1>1, <1>2

LEMMA InitPart == Init => PartInv
  BY CallsAreCalls DEF Init, PartInv, Open

LEMMA PartStutter == PartInv /\ UNCHANGED vars => PartInv'
<1> SUFFICES ASSUME PartInv, UNCHANGED vars PROVE PartInv'
  OBVIOUS
<1>1. UNCHANGED <<pool, call, next, at, leaving, stopped, count, partials, result>>
  BY DEF vars
<1>2. CASE call = NoCall
  BY <1>1, <1>2 DEF PartInv
<1>3. CASE call # NoCall
  <2>1. Placed /\ PlaceInv /\ CountInv /\ LeaveInv
    BY <1>3 DEF PartInv, Placed
  <2>2. PlaceInv'
    BY <1>1, <2>1, ShapeFrame DEF PlaceInv, Holds
  <2>3. \A b : Taken(b)' = Taken(b)
    BY <1>1, ShapeFrame DEF Taken, Holds
  <2>4. CountInv'
    BY <1>1, <2>1, <2>3, ShapeFrame DEF CountInv, Holds
  <2>5. \A r : Candidate(r)' = Candidate(r)
    BY <1>1, ShapeFrame DEF Candidate, FromCounter, BlockCount, Items, Chunk
  <2>6. LeaveInv'
    BY <1>1, <2>1, <2>5, ShapeFrame DEF LeaveInv
  <2> QED BY <1>1, <1>3, <2>2, <2>4, <2>6 DEF PartInv
<1> QED BY <1>2, <1>3

LEMMA PartBegin == ASSUME PartInv, NEW c \in Calls, Begin(c) PROVE PartInv'
<1>1. /\ pool \in Pools /\ pool' = pool /\ call' = c /\ c # NoCall
      /\ next' = IF c.kind = "for_dynamic" THEN pool.slots ELSE 0
      /\ at' = [r \in 0 .. pool.slots - 1 |-> NoBlock]
      /\ leaving' = {} /\ ~result.done /\ result' = result
      /\ count' = [i \in 0 .. Size - 1 |-> 0]
  BY CallsAreCalls DEF Begin, PartInv
<1>2. pool.slots \in Nat \ {0} /\ c.kind \in Kinds
  BY <1>1, PartitionAssumption DEF PartitionAssumption
<1>3. Slots' = 0 .. pool.slots - 1 /\ Slots' = Slots
  BY <1>1 DEF Slots
<1>4. at' \in [Slots' -> {NoBlock}] /\ next' \in Nat /\ \A r \in Slots' : at'[r] = NoBlock
  BY <1>1, <1>2, <1>3
<1>5. PlaceInv'
  <2>1. call'.kind = "for_dynamic" => next' >= pool'.slots
    BY <1>1, <1>2
  <2>2. at' \in [Slots' -> Nat \union {NoBlock}]
    BY <1>4
  <2> QED BY <1>4, <2>1, <2>2 DEF PlaceInv
<1>6. Blocks' \subseteq Nat
  <2>1. ItemsOf(c) \in Nat \ {0} /\ ChunkOf(pool, c) \in Nat \ {0}
    BY <1>1, ChunkOfType
  <2>2. BlockCount' \in Nat
    BY <2>1, <1>1, CeilDivBlocks DEF BlockCount, BlocksIn, Items, Chunk
  <2> QED BY <1>1, <1>2, <2>2 DEF Blocks
<1>7. ASSUME NEW b \in Blocks' PROVE ~Taken(b)'
  <2>1. b \in Nat /\ 0 \in Slots' /\ NoBlock = -1
    BY <1>2, <1>3, <1>6 DEF NoBlock
  <2>2. \A r \in Slots' : ~(b <= at'[r])
    BY <1>4, <2>1
  <2>3. b % pool'.slots \in Slots'
    BY <1>1, <1>2, <1>3, <2>1, Division
  <2>4. call'.kind \in SlotKinds => b \in Slots'
    BY <1>1, <1>3, <1>7 DEF Blocks
  <2>5. call'.kind = "for_dynamic" /\ b \notin Slots' => ~(b < next')
    BY <1>1, <1>2, <1>3, <2>1
  <2>6. call'.kind = "stage_blocks" => ~(b < next')
    BY <1>1, <2>1
  <2> QED BY <1>4, <2>1, <2>2, <2>3, <2>4, <2>5, <2>6 DEF Taken
<1>8. CountInv'
  BY <1>1, <1>7 DEF CountInv
<1>9. LeaveInv'
  BY <1>1 DEF LeaveInv
<1> QED BY <1>1, <1>5, <1>8, <1>9 DEF PartInv

LEMMA PartRun ==
  ASSUME Fits, PartInv, call # NoCall, ~result.done, NEW r \in Runners \ leaving, Run(r)
  PROVE  PartInv'
<1> DEFINE k == Candidate(r)
<1>1. Placed /\ PlaceInv /\ CountInv /\ LeaveInv
  BY DEF PartInv, Placed
<1>2. Advance(r) /\ UNCHANGED <<pool, call, leaving, stopped, result>> /\ ~stopped
  BY DEF Run, Advance
<1>3. TakesOne(k)
  BY <1>1, <1>2, EachRuns
<1>4. /\ Slots' = Slots /\ Blocks' = Blocks /\ Alone' = Alone /\ Runners' = Runners
      /\ \A b : Bounds(b)' = Bounds(b)
      /\ \A q : Span(q)' = Span(q) /\ Limit(q)' = Limit(q)
  BY <1>2, ShapeFrame
<1>5. /\ \A b \in Blocks : Bounds(b)[1] \in Nat /\ Bounds(b)[2] \in Nat
      /\ \A b, c \in Blocks, i \in Nat : Holds(Bounds(b), i) /\ Holds(Bounds(c), i) => b = c
  BY <1>1, CutRight DEF Cut
<1>6. CountInv'
  <2> DEFINE On(i) == \E b \in Blocks : Taken(b) /\ Holds(Bounds(b), i)
             On2(i) == \E b \in Blocks : Taken(b)' /\ Holds(Bounds(b), i)
             I == 0 .. Size - 1
  <2>1. count = [i \in I |-> IF On(i) THEN 1 ELSE 0]
    BY <1>1 DEF CountInv
  <2>2. count' = [i \in DOMAIN count |-> count[i] + (IF Holds(Bounds(k), i) THEN 1 ELSE 0)]
    BY DEF Run, Holds
  <2>3. ASSUME NEW i \in I
        PROVE  /\ On2(i) <=> On(i) \/ Holds(Bounds(k), i)
               /\ ~(On(i) /\ Holds(Bounds(k), i))
    <3>1. k \in Blocks /\ ~Taken(k) /\ \A c \in Blocks : Taken(c)' <=> Taken(c) \/ c = k
      BY <1>3 DEF TakesOne
    <3>2. i \in Nat
      BY PlacedTypes, <1>1
    <3> HIDE DEF k
    <3>3. ~(On(i) /\ Holds(Bounds(k), i))
      BY <3>1, <3>2, <1>5
    <3>4. On2(i) <=> On(i) \/ Holds(Bounds(k), i)
      BY <3>1
    <3> QED BY <3>3, <3>4
  <2> HIDE DEF On, On2, k, I
  <2>4. count' = [i \in I |-> (IF On(i) THEN 1 ELSE 0) + (IF Holds(Bounds(k), i) THEN 1 ELSE 0)]
    BY <2>1, <2>2
  <2>5. count' = [i \in I |-> IF On2(i) THEN 1 ELSE 0]
    <3>1. \A i \in I : (IF On(i) THEN 1 ELSE 0) + (IF Holds(Bounds(k), i) THEN 1 ELSE 0)
                       = IF On2(i) THEN 1 ELSE 0
      BY <2>3
    <3> QED BY <3>1, <2>4
  <2> QED BY <2>5, <1>4 DEF CountInv, On2, I, Holds
<1>7. LeaveInv'
  <2>1. ASSUME NEW q \in leaving PROVE Candidate(q)' >= Limit(q)'
    <3>1. q # r /\ q \in Slots /\ Candidate(q) >= Limit(q)
      <4>1. Runners \subseteq Slots
        BY <1>1, PlacedTypes DEF Runners, Slots
      <4> QED BY <4>1, <1>1, <1>2 DEF LeaveInv
    <3>2. at'[q] = at[q] /\ next' >= next /\ next \in Nat /\ next' \in Nat
      BY <3>1, <1>1, <1>2 DEF Advance, PlaceInv
    <3>3. FromCounter(q)' <=> FromCounter(q)
      BY <3>2, <1>2, <1>4 DEF FromCounter, BlockCount, Items, Chunk
    <3>4. CASE FromCounter(q)
      <4>1. ~Alone /\ call.kind \in {"stage_blocks", "for_dynamic"}
        BY <3>4 DEF FromCounter
      <4>2. Candidate(q) = next
        BY <4>1, <3>4 DEF Candidate
      <4>3. Candidate(q)' = next'
        BY <4>1, <3>3, <3>4, <1>2, <1>4 DEF Candidate
      <4>4. Limit(q) \in Nat
        BY <4>1, <1>1, ChunkType DEF Limit, SlotKinds
      <4> QED BY <4>2, <4>3, <4>4, <3>1, <3>2, <1>4
    <3>5. CASE ~FromCounter(q)
      <4>1. Candidate(q)' = Candidate(q)
        BY <3>2, <3>3, <3>5, <1>2, <1>4 DEF Candidate
      <4> QED BY <4>1, <3>1, <1>4
    <3> QED BY <3>4, <3>5
  <2> QED BY <2>1, <1>1, <1>2, <1>4 DEF LeaveInv
<1> QED BY <1>2, <1>3, <1>6, <1>7 DEF PartInv, TakesOne

(* A step that runs nothing keeps who ran what. *)
LEMMA QuietFrame ==
  ASSUME PlaceInv, CountInv, UNCHANGED <<pool, call, next, at, count>>
  PROVE  /\ PlaceInv' /\ CountInv' /\ Runners' = Runners
         /\ \A r : Candidate(r)' = Candidate(r) /\ Limit(r)' = Limit(r)
<1>1. PlaceInv'
  BY ShapeFrame DEF PlaceInv, Holds
<1>2. \A b : Taken(b)' = Taken(b)
  BY ShapeFrame DEF Taken, Holds
<1>3. CountInv'
  BY <1>2, ShapeFrame DEF CountInv, Holds
<1>4. \A r : Candidate(r)' = Candidate(r)
  BY ShapeFrame DEF Candidate, FromCounter, BlockCount, Items, Chunk
<1> QED BY <1>1, <1>3, <1>4, ShapeFrame

LEMMA PartLeave ==
  ASSUME PartInv, call # NoCall, ~result.done, NEW r \in Runners \ leaving, Leave(r)
  PROVE  PartInv'
<1>1. PlaceInv /\ CountInv /\ LeaveInv
  BY DEF PartInv
<1>2. UNCHANGED <<pool, call, next, at, count, stopped, result>>
      /\ leaving' = leaving \union {r} /\ (stopped \/ Candidate(r) >= Limit(r))
  BY DEF Leave
<1>3. LeaveInv'
  BY <1>1, <1>2, QuietFrame DEF LeaveInv
<1> QED BY <1>1, <1>2, <1>3, QuietFrame DEF PartInv

LEMMA PartStop == ASSUME PartInv, Stop PROVE PartInv'
<1>1. PlaceInv /\ CountInv /\ LeaveInv
  BY DEF PartInv, Stop
<1>2. UNCHANGED <<pool, call, next, at, count, leaving, result>> /\ stopped' /\ ~result.done
  BY DEF Stop
<1>3. LeaveInv'
  BY <1>1, <1>2, QuietFrame DEF LeaveInv
<1> QED BY <1>1, <1>2, <1>3, QuietFrame DEF PartInv, Stop

LEMMA PartFinish == ASSUME PartInv, Finish PROVE PartInv'
<1>1. PlaceInv /\ CountInv /\ LeaveInv
  BY DEF PartInv, Finish
<1>2. UNCHANGED <<pool, call, next, at, count, leaving, stopped>> /\ leaving = Runners
  BY DEF Finish
<1>3. LeaveInv'
  BY <1>1, <1>2, QuietFrame DEF LeaveInv
<1> QED BY <1>1, <1>2, <1>3, QuietFrame DEF PartInv, Finish

LEMMA PartReturn == ASSUME PartInv, Return PROVE PartInv'
  BY DEF PartInv, Return, Open

LEMMA PartStep == ASSUME Fits, PartInv, [Next]_vars PROVE PartInv'
<1>1. CASE \E c \in Calls : Begin(c)
  BY <1>1, PartBegin
<1>2. CASE \E r \in 0 .. pool.slots - 1 : Take(r)
  BY <1>2, PartRun, PartLeave DEF Take
<1>3. CASE Stop
  BY <1>3, PartStop
<1>4. CASE Finish
  BY <1>4, PartFinish
<1>5. CASE Return
  BY <1>5, PartReturn
<1>6. CASE UNCHANGED vars
  BY <1>6, PartStutter
<1> QED BY <1>1, <1>2, <1>3, <1>4, <1>5, <1>6 DEF Next

LEMMA PartRunsOnce == ASSUME Fits, PartInv PROVE RunsOnce
<1>1. CASE call = NoCall
  <2>1. \A i \in DOMAIN count : count[i] = 0
    BY <1>1 DEF PartInv
  <2> QED BY <1>1, <2>1 DEF RunsOnce, PartInv
<1>2. CASE call # NoCall
  <2>1. Placed /\ PlaceInv /\ CountInv /\ LeaveInv
    BY <1>2 DEF PartInv, Placed
  <2> DEFINE first == call.first
             last == call.last
  <2>2. first \in Nat /\ last \in Nat /\ last < Size /\ Size \in Nat
    BY <2>1, PlacedTypes
  <2>3. /\ \A b \in Blocks : /\ Bounds(b)[1] \in Nat /\ Bounds(b)[2] \in Nat
                             /\ first <= Bounds(b)[1] /\ Bounds(b)[2] <= last
        /\ \A i \in first .. last - 1 : \E b \in Blocks : Holds(Bounds(b), i)
    BY <2>1, CutRight DEF Cut
  <2>4. /\ DOMAIN count = 0 .. Size - 1
        /\ \A i \in 0 .. Size - 1 :
             count[i] = IF \E b \in Blocks : Taken(b) /\ Holds(Bounds(b), i) THEN 1 ELSE 0
    BY <2>1 DEF CountInv
  <2> HIDE DEF first, last
  <2>5. ASSUME NEW i \in DOMAIN count
        PROVE  count[i] <= (IF first <= i /\ i < last THEN 1 ELSE 0)
    <3>1. CASE \E b \in Blocks : Taken(b) /\ Holds(Bounds(b), i)
      <4>1. PICK b \in Blocks : Holds(Bounds(b), i)
        BY <3>1
      <4>2. first <= i /\ i < last
        BY <4>1, <2>2, <2>3, <2>4 DEF Holds
      <4> QED BY <4>2, <2>4
    <3>2. CASE ~\E b \in Blocks : Taken(b) /\ Holds(Bounds(b), i)
      BY <3>2, <2>4
    <3> QED BY <3>1, <3>2
  <2>6. ASSUME result.done, ~stopped, NEW i \in first .. last - 1
        PROVE  count[i] = 1
    <3>1. AllLeave
      BY <2>1, <2>6 DEF AllLeave, LeaveInv
    <3>2. AllTaken
      BY <2>1, <3>1, EachRuns
    <3>3. PICK b \in Blocks : Holds(Bounds(b), i)
      BY <2>3
    <3>4. Taken(b) /\ i \in 0 .. Size - 1
      BY <3>2, <2>2 DEF AllTaken
    <3> QED BY <3>3, <3>4, <2>4
  <2> QED BY <2>5, <2>6 DEF RunsOnce, first, last
<1> QED BY <1>1, <1>2

(* Whatever the pool, the kind of call, the range and the hint, no item is *)
(* passed to the body twice or from outside the range, and a call that     *)
(* nobody stopped has passed every one: as long as the ends of the blocks  *)
(* do not wrap (fillBlockShape, BlockClaim, contiguousRankBlockSpan,       *)
(* ChainState::slotRange, ScanState::slotRange).                           *)
THEOREM OnceEach == ASSUME Fits PROVE Spec => []RunsOnce
<1>1. Init => PartInv
  BY InitPart
<1>2. PartInv /\ [Next]_vars => PartInv'
  BY PartStep
<1>3. PartInv => RunsOnce
  BY PartRunsOnce
<1> QED BY <1>1, <1>2, <1>3, PTL DEF Spec

-----------------------------------------------------------------------------
(* The order of a scan.                                                    *)

(* Partials are folded slot by slot, those of the producer's CCD first if  *)
(* a scan treats it apart.                                                 *)
FoldsInOrder ==
  \A p \in Pools :
    /\ p.order \in Bijection(1 .. p.slots, 0 .. p.slots - 1)
    /\ \A j, k \in 1 .. p.slots : j < k =>
         IF p.share = 0 \/ (p.order[j] \in OnProducerCcd(p.ccd)
                              <=> p.order[k] \in OnProducerCcd(p.ccd))
         THEN p.order[j] < p.order[k]
         ELSE p.order[j] \in OnProducerCcd(p.ccd)

LEMMA SplitEnds ==
  ASSUME NEW n \in Nat, NEW m \in Nat \ {0}
  PROVE  /\ Split(n, 0, m)[1] = 0 /\ Split(n, m - 1, m)[2] = n
         /\ \A k \in Nat : Split(n, k, m)[2] = Split(n, k + 1, m)[1]
<1>1. \A k : Split(n, k, m)[1] = (n * k) \div m /\ Split(n, k, m)[2] = (n * (k + 1)) \div m
  BY DEF Split
<1>2. (n * 0) \div m = 0
  <2>1. n * 0 = 0
    OBVIOUS
  <2>2. ~(1 <= 0 \div m) /\ 0 \div m \in Nat
    BY Division, Quotient
  <2> QED BY <2>1, <2>2
<1>3. (n * m) \div m = n
  <2> DEFINE q == (n * m) \div m
  <2>1. n * m \in Nat
    OBVIOUS
  <2>2. ASSUME NEW a \in Nat PROVE a \div m \in Nat /\ \A x \in Nat : x <= a \div m <=> x * m <= a
    BY Division, Quotient
  <2>3. q \in Nat /\ (n <= q <=> n * m <= n * m) /\ (n + 1 <= q <=> (n + 1) * m <= n * m)
    BY <2>1, <2>2
  <2>4. (n + 1) * m = n * m + m
    OBVIOUS
  <2> HIDE DEF q
  <2>5. n <= q /\ ~(n + 1 <= q)
    BY <2>1, <2>3, <2>4
  <2>6. q = n
    BY <2>3, <2>5
  <2> QED BY <2>6 DEF q
<1>4. (m - 1) + 1 = m
  OBVIOUS
<1> QED BY <1>1, <1>2, <1>3, <1>4

(* The slots behind place a and up to place b.  If they stand in order,    *)
(* their ranks do.                                                         *)
Places(o, a, b) == {o[j] : j \in a + 1 .. b}

LEMMA PlacesAreRanks ==
  ASSUME NEW n \in Nat, NEW o \in Bijection(1 .. n, 0 .. n - 1),
         NEW a \in Nat, NEW b \in Nat, a <= b, b <= n,
         \A j, k \in a + 1 .. b : j < k => o[j] < o[k]
  PROVE  /\ Cardinality(Places(o, a, b)) = b - a
         /\ \A k \in a + 1 .. b : Rank(Places(o, a, b), o[k]) = k - a - 1
<1> DEFINE G == Places(o, a, b)
<1>0. G = {o[j] : j \in a + 1 .. b}
  BY DEF Places
<1> HIDE DEF G
<1>1. /\ \A j \in 1 .. n : o[j] \in 0 .. n - 1
      /\ \A j, k \in 1 .. n : o[j] = o[k] => j = k
  BY DEF Bijection, Injection, IsInjective
<1> DEFINE Upto(c) == {o[j] : j \in a + 1 .. c}
<1>2. ASSUME NEW c \in a .. n PROVE Cardinality(Upto(c)) = c - a
  <2> DEFINE f == [j \in a + 1 .. c |-> o[j]]
             J == a + 1 .. c
             U == Upto(c)
  <2>1. J \subseteq 1 .. n
    OBVIOUS
  <2>2. f \in [J -> U]
    OBVIOUS
  <2>3. \A j, k \in J : f[j] = f[k] => j = k
    BY <1>1, <2>1
  <2>4. \A u \in U : \E j \in J : f[j] = u
    OBVIOUS
  <2>5. IsFiniteSet(J) /\ Cardinality(J) = c - a
    <3>1. a + 1 \in Int /\ c \in Int
      OBVIOUS
    <3>2. IsFiniteSet(J) /\ Cardinality(J) = IF a + 1 > c THEN 0 ELSE c - (a + 1) + 1
      BY <3>1, FS_Interval
    <3> HIDE DEF J
    <3> QED BY <3>2
  <2> HIDE DEF f, J, U
  <2>6. f \in Bijection(J, U)
    BY <2>2, <2>3, <2>4 DEF Bijection, Injection, IsInjective, Surjection
  <2>7. Cardinality(U) = Cardinality(J)
    BY <2>5, <2>6, FS_Bijection DEF ExistsBijection
  <2> QED BY <2>5, <2>7 DEF U
<1>3. ASSUME NEW k \in a + 1 .. b PROVE Rank(G, o[k]) = k - a - 1
  <2>1. {t \in 0 .. o[k] - 1 : t \in G} = Upto(k - 1)
    <3>1. ASSUME NEW t \in Upto(k - 1) PROVE t \in G /\ t \in 0 .. o[k] - 1
      <4>1. PICK j \in a + 1 .. k - 1 : t = o[j]
        BY <3>1
      <4>2. j \in a + 1 .. b /\ j < k /\ j \in 1 .. n /\ k \in 1 .. n
        OBVIOUS
      <4>3. o[j] < o[k] /\ o[j] \in 0 .. n - 1 /\ o[k] \in 0 .. n - 1
        BY <4>2, <1>1
      <4> QED BY <4>1, <4>2, <4>3, <1>0
    <3>2. ASSUME NEW t \in G, t \in 0 .. o[k] - 1 PROVE t \in Upto(k - 1)
      <4>1. PICK j \in a + 1 .. b : t = o[j]
        BY <3>2, <1>0
      <4>2. j \in 1 .. n /\ k \in 1 .. n /\ o[j] \in 0 .. n - 1 /\ o[k] \in 0 .. n - 1
        BY <1>1
      <4>3. ~(k < j) /\ k # j
        BY <3>2, <4>1, <4>2
      <4>4. j \in a + 1 .. k - 1
        BY <4>3
      <4> QED BY <4>1, <4>4
    <3> HIDE DEF Upto
    <3> QED BY <3>1, <3>2
  <2>2. k - 1 \in a .. n
    OBVIOUS
  <2>3. Cardinality(Upto(k - 1)) = (k - 1) - a
    BY <2>2, <1>2
  <2> HIDE DEF Upto
  <2>4. Rank(G, o[k]) = Cardinality(Upto(k - 1))
    BY <2>1 DEF Rank
  <2>5. (k - 1) - a = k - a - 1
    OBVIOUS
  <2> QED BY <2>3, <2>4, <2>5
<1>4. Cardinality(G) = b - a
  <2>1. b \in a .. n /\ G = Upto(b)
    BY <1>0
  <2> HIDE DEF Upto
  <2> QED BY <2>1, <1>2
<1> QED BY <1>3, <1>4 DEF G

LEMMA HasLeast ==
  ASSUME NEW S \in SUBSET Nat, S # {}
  PROVE  \E x \in S : \A y \in S : x <= y
<1>1. PICK x \in S : \A y \in S : ~(<<y, x>> \in OpToRel(<, Nat))
  BY NatLessThanWellFounded, WFMin
<1>2. ASSUME NEW y \in S, y < x PROVE FALSE
  <2>1. <<y, x>> \in OpToRel(<, Nat)
    BY <1>2 DEF OpToRel
  <2> QED BY <1>1, <2>1
<1>3. \A y \in S : x <= y
  BY <1>2
<1> QED BY <1>3

(* Without a split the places are the slots. *)
LEMMA AllInOrder ==
  ASSUME Placed, FoldsInOrder, pool.share = 0, NEW k \in 1 .. pool.slots
  PROVE  pool.order[k] = k - 1
<1> DEFINE n == pool.slots
           o == pool.order
<1>1. /\ n \in Nat /\ o \in Bijection(1 .. n, 0 .. n - 1)
      /\ \A i, j \in 1 .. n : i < j => o[i] < o[j]
  BY PlacedTypes DEF FoldsInOrder, Placed
<1> HIDE DEF n, o
<1>2. /\ o \in [1 .. n -> 0 .. n - 1]
      /\ \A t \in 0 .. n - 1 : \E j \in 1 .. n : o[j] = t
  BY <1>1 DEF Bijection, Injection, Surjection
<1>3. 0 .. n - 1 = Places(o, 0, n)
  BY <1>1, <1>2 DEF Places
<1>4. 0 \in Nat /\ 0 <= n /\ n <= n /\ \A i, j \in 0 + 1 .. n : i < j => o[i] < o[j]
  BY <1>1
<1>5. \A j \in 0 + 1 .. n : Rank(0 .. n - 1, o[j]) = j - 0 - 1
  <2>1. \A j \in 0 + 1 .. n : Rank(Places(o, 0, n), o[j]) = j - 0 - 1
    BY <1>1, <1>4, PlacesAreRanks
  <2> QED BY <2>1, <1>3
<1>6. k \in 0 + 1 .. n /\ k \in 1 .. n
  BY <1>1 DEF n
<1>7. o[k] \in 0 .. n - 1
  BY <1>2, <1>6
<1>8. {t \in 0 .. o[k] - 1 : t \in 0 .. n - 1} = 0 .. o[k] - 1
  BY <1>1, <1>7
<1>9. Cardinality(0 .. o[k] - 1) = o[k]
  <2>1. 0 \in Int /\ o[k] - 1 \in Int
    BY <1>1, <1>7
  <2>2. Cardinality(0 .. o[k] - 1) = IF 0 > o[k] - 1 THEN 0 ELSE (o[k] - 1) - 0 + 1
    BY <2>1, FS_Interval
  <2> QED BY <2>2, <1>1, <1>7
<1>10. Rank(0 .. n - 1, o[k]) = o[k]
  BY <1>8, <1>9 DEF Rank
<1>11. o[k] = k - 1
  BY <1>5, <1>6, <1>10
<1> QED BY <1>11 DEF o

(* With one, the producer's group has the first places. *)
LEMMA GroupsInOrder ==
  ASSUME Placed, FoldsInOrder, pool.share # 0
  PROVE  \E a \in 1 .. pool.slots - 1 :
           /\ Cardinality(Near) = a /\ Cardinality(Far) = pool.slots - a
           /\ \A k \in 1 .. a : pool.order[k] \in Near /\ Rank(Near, pool.order[k]) = k - 1
           /\ \A k \in a + 1 .. pool.slots :
                pool.order[k] \in Far /\ Rank(Far, pool.order[k]) = k - a - 1
<1> DEFINE n == pool.slots
           o == pool.order
<1>1. /\ n \in Nat /\ o \in Bijection(1 .. n, 0 .. n - 1)
      /\ \A i, j \in 1 .. n : i < j => IF o[i] \in Near <=> o[j] \in Near
                                       THEN o[i] < o[j] ELSE o[i] \in Near
  BY PlacedTypes DEF FoldsInOrder, Placed, Near
<1>2. Near \in SUBSET (0 .. n - 1) /\ Near # {} /\ Far # {} /\ Far = (0 .. n - 1) \ Near
  BY GroupsOfScan DEF Far
<1> HIDE DEF n, o
<1>3. /\ o \in [1 .. n -> 0 .. n - 1]
      /\ \A t \in 0 .. n - 1 : \E j \in 1 .. n : o[j] = t
  BY <1>1 DEF Bijection, Injection, Surjection
<1> DEFINE F == {j \in 1 .. n : o[j] \in Far}
<1>4. PICK f \in F : \A j \in F : f <= j
  <2>1. F # {}
    BY <1>2, <1>3
  <2>2. F \in SUBSET Nat
    BY <1>1
  <2> HIDE DEF F
  <2> QED BY <2>1, <2>2, HasLeast
<1>5. f \in 1 .. n /\ o[f] \in Far /\ f \in Nat
  BY <1>1, <1>4
<1>6. ASSUME NEW j \in 1 .. n PROVE o[j] \in Near <=> j < f
  <2>1. CASE j < f
    <3>1. j \notin F
      BY <2>1, <1>4, <1>5
    <3> QED BY <2>1, <3>1, <1>2, <1>3
  <2>2. CASE ~(j < f)
    <3>1. j = f \/ f < j
      BY <2>2, <1>1, <1>5
    <3>2. o[f] \notin Near
      BY <1>2, <1>5
    <3>3. CASE f < j
      BY <2>2, <3>2, <3>3, <1>1, <1>5
    <3> QED BY <2>2, <3>1, <3>2, <3>3
  <2> QED BY <2>1, <2>2
<1> HIDE DEF F
<1>7. f > 1
  <2>1. PICK t \in Near : TRUE
    BY <1>2
  <2>2. PICK j \in 1 .. n : o[j] = t
    BY <1>2, <1>3
  <2>3. j < f
    BY <2>2, <1>6
  <2> QED BY <2>3, <1>1, <1>5
<1> DEFINE a == f - 1
<1>8. a \in 0 .. n /\ a \in 1 .. n - 1 /\ n \in a .. n /\ a \in 0 .. n /\ f = a + 1 /\ 0 \in 0 .. n
  BY <1>1, <1>5, <1>7
<1> HIDE DEF a
<1>9. Near = Places(o, 0, a)
  <2>1. ASSUME NEW t \in Near PROVE \E j \in 0 + 1 .. a : t = o[j]
    <3>1. PICK j \in 1 .. n : o[j] = t
      BY <1>2, <1>3
    <3>2. j < f
      BY <3>1, <1>6
    <3>3. j \in 0 + 1 .. a
      BY <3>2, <1>1, <1>8
    <3> QED BY <3>1, <3>3
  <2>2. ASSUME NEW j \in 0 + 1 .. a PROVE o[j] \in Near
    <3>1. j \in 1 .. n /\ j < f
      BY <1>1, <1>8
    <3> QED BY <3>1, <1>6
  <2> QED BY <2>1, <2>2 DEF Places
<1>10. Far = Places(o, a, n)
  <2>1. ASSUME NEW t \in Far PROVE \E j \in a + 1 .. n : t = o[j]
    <3>1. PICK j \in 1 .. n : o[j] = t
      BY <1>2, <1>3
    <3>2. ~(j < f)
      BY <3>1, <1>2, <1>6
    <3>3. j \in a + 1 .. n
      BY <3>2, <1>1, <1>8
    <3> QED BY <3>1, <3>3
  <2>2. ASSUME NEW j \in a + 1 .. n PROVE o[j] \in Far
    <3>1. j \in 1 .. n /\ ~(j < f)
      BY <1>1, <1>8
    <3> QED BY <3>1, <1>2, <1>3, <1>6
  <2> QED BY <2>1, <2>2 DEF Places
<1>11. \A i, j \in 0 + 1 .. a : i < j => o[i] < o[j]
  <2>1. ASSUME NEW i \in 0 + 1 .. a, NEW j \in 0 + 1 .. a, i < j PROVE o[i] < o[j]
    <3>1. i \in 1 .. n /\ j \in 1 .. n /\ i < f /\ j < f
      BY <1>1, <1>8
    <3> QED BY <2>1, <3>1, <1>1, <1>6
  <2> QED BY <2>1
<1>12. \A i, j \in a + 1 .. n : i < j => o[i] < o[j]
  <2>1. ASSUME NEW i \in a + 1 .. n, NEW j \in a + 1 .. n, i < j PROVE o[i] < o[j]
    <3>1. i \in 1 .. n /\ j \in 1 .. n /\ ~(i < f) /\ ~(j < f)
      BY <1>1, <1>8
    <3> QED BY <2>1, <3>1, <1>1, <1>6
  <2> QED BY <2>1
<1>13. /\ Cardinality(Near) = a - 0
       /\ \A k \in 0 + 1 .. a : Rank(Near, o[k]) = k - 0 - 1
  <2>1. a \in Nat /\ 0 \in Nat /\ 0 <= a /\ a <= n
    BY <1>1, <1>8
  <2>2. /\ Cardinality(Places(o, 0, a)) = a - 0
        /\ \A k \in 0 + 1 .. a : Rank(Places(o, 0, a), o[k]) = k - 0 - 1
    BY <2>1, <1>1, <1>11, PlacesAreRanks
  <2> QED BY <2>2, <1>9
<1>14. /\ Cardinality(Far) = n - a
       /\ \A k \in a + 1 .. n : Rank(Far, o[k]) = k - a - 1
  <2>1. a \in Nat /\ n \in Nat /\ a <= n /\ n <= n
    BY <1>1, <1>8
  <2>2. /\ Cardinality(Places(o, a, n)) = n - a
        /\ \A k \in a + 1 .. n : Rank(Places(o, a, n), o[k]) = k - a - 1
    BY <2>1, <1>1, <1>12, PlacesAreRanks
  <2> QED BY <2>2, <1>10
<1>15. /\ Cardinality(Near) = a
       /\ \A k \in 1 .. a : o[k] \in Near /\ Rank(Near, o[k]) = k - 1
  <2>1. ASSUME NEW k \in 1 .. a PROVE o[k] \in Near /\ Rank(Near, o[k]) = k - 1
    <3>1. k \in 0 + 1 .. a
      OBVIOUS
    <3>2. o[k] \in Near
      BY <3>1, <1>9 DEF Places
    <3>3. k - 0 - 1 = k - 1
      BY <1>8
    <3> QED BY <3>1, <3>2, <3>3, <1>13
  <2> QED BY <2>1, <1>8, <1>13
<1>16. \A k \in a + 1 .. n : o[k] \in Far
  BY <1>10 DEF Places
<1> QED BY <1>8, <1>14, <1>15, <1>16 DEF n, o

LEMMA ScansFold ==
  ASSUME Placed, FoldsInOrder, call.kind = "scan"
  PROVE  ScanInOrder
<1> DEFINE n == pool.slots
           last == call.last
           range(k) == ScanRange(pool.order[k])
<1>1. n \in Nat /\ n > 1 /\ last \in Nat
  BY PlacedTypes
<1>2. SUFFICES /\ range(1)[1] = 0 /\ range(n)[2] = last
               /\ \A k \in 1 .. n - 1 : range(k)[2] = range(k + 1)[1]
  BY DEF ScanInOrder
<1>3. CASE pool.share = 0
  <2>1. ASSUME NEW k \in 1 .. n PROVE range(k) = Split(last, k - 1, n)
    <3>1. pool.order[k] = k - 1
      BY <1>3, AllInOrder
    <3> QED BY <3>1, <1>3 DEF ScanRange
  <2> HIDE DEF range, n, last
  <2>2. /\ Split(last, 0, n)[1] = 0 /\ Split(last, n - 1, n)[2] = last
        /\ \A k \in Nat : Split(last, k, n)[2] = Split(last, k + 1, n)[1]
    BY <1>1, SplitEnds
  <2>3. range(1) = Split(last, 0, n) /\ range(n) = Split(last, n - 1, n)
    <3>1. 1 \in 1 .. n /\ n \in 1 .. n /\ 1 - 1 = 0
      BY <1>1
    <3>2. range(1) = Split(last, 1 - 1, n)
      BY <3>1, <2>1
    <3> QED BY <3>1, <3>2, <2>1
  <2>4. ASSUME NEW k \in 1 .. n - 1 PROVE range(k)[2] = range(k + 1)[1]
    <3>1. k \in 1 .. n /\ k + 1 \in 1 .. n /\ (k + 1) - 1 = (k - 1) + 1 /\ k - 1 \in Nat
      BY <1>1
    <3>2. range(k) = Split(last, k - 1, n) /\ range(k + 1) = Split(last, (k - 1) + 1, n)
      <4>1. range(k + 1) = Split(last, (k + 1) - 1, n)
        BY <3>1, <2>1
      <4> QED BY <3>1, <4>1, <2>1
    <3> QED BY <3>1, <3>2, <2>2
  <2> QED BY <2>2, <2>3, <2>4
<1>4. CASE pool.share # 0
  <2>1. PICK a \in 1 .. n - 1 :
           /\ Cardinality(Near) = a /\ Cardinality(Far) = n - a
           /\ \A k \in 1 .. a : pool.order[k] \in Near /\ Rank(Near, pool.order[k]) = k - 1
           /\ \A k \in a + 1 .. n :
                pool.order[k] \in Far /\ Rank(Far, pool.order[k]) = k - a - 1
    BY <1>4, GroupsInOrder
  <2> DEFINE rest == last - NearPart
             m == n - a
  <2>2. /\ NearPart \in Nat /\ rest \in Nat /\ NearPart + rest = last
        /\ a \in Nat \ {0} /\ m \in Nat \ {0}
    BY <1>1, <1>4, <2>1, GroupsOfScan
  <2>3. ASSUME NEW k \in 1 .. a PROVE range(k) = Split(NearPart, k - 1, a)
    <3>1. pool.order[k] \in Near /\ IndexInGroup(pool.order[k]) = k - 1
      BY <1>4, <2>1, GroupsOfScan
    <3> QED BY <3>1, <1>4, <2>1 DEF ScanRange, Near, NearPart
  <2>4. ASSUME NEW k \in a + 1 .. n
        PROVE  range(k) = <<NearPart + Split(rest, k - a - 1, m)[1], NearPart + Split(rest, k - a - 1, m)[2]>>
    <3>1. /\ pool.order[k] \in Far /\ IndexInGroup(pool.order[k]) = k - a - 1
          /\ Max({1, pool.slots - Cardinality(OnProducerCcd(pool.ccd))}) = m
      BY <1>4, <2>1, GroupsOfScan DEF Near
    <3>2. pool.order[k] \notin OnProducerCcd(pool.ccd)
      BY <3>1 DEF Far, Near
    <3> QED BY <3>1, <3>2, <1>4 DEF ScanRange, NearPart
  <2> HIDE DEF range, n, last, rest, m
  <2>5. /\ Split(NearPart, 0, a)[1] = 0 /\ Split(NearPart, a - 1, a)[2] = NearPart
        /\ \A k \in Nat : Split(NearPart, k, a)[2] = Split(NearPart, k + 1, a)[1]
    BY <2>2, SplitEnds
  <2>6. /\ Split(rest, 0, m)[1] = 0 /\ Split(rest, m - 1, m)[2] = rest
        /\ \A k \in Nat : Split(rest, k, m)[2] = Split(rest, k + 1, m)[1]
    BY <2>2, SplitEnds
  <2>7. m = n - a /\ n \in Nat /\ a \in Nat /\ a >= 1 /\ a < n
    BY <1>1, <2>1, <2>2 DEF m
  <2>8. range(1)[1] = 0
    <3>1. 1 \in 1 .. a /\ 1 - 1 = 0
      BY <2>7
    <3>2. range(1) = Split(NearPart, 1 - 1, a)
      BY <3>1, <2>3
    <3> QED BY <3>1, <3>2, <2>5
  <2>9. range(n)[2] = last
    <3>1. n \in a + 1 .. n /\ n - a - 1 = m - 1
      BY <2>7
    <3>2. range(n)[2] = NearPart + Split(rest, n - a - 1, m)[2]
      BY <3>1, <2>4
    <3> QED BY <3>1, <3>2, <2>2, <2>6
  <2>10. ASSUME NEW k \in 1 .. n - 1 PROVE range(k)[2] = range(k + 1)[1]
    <3>1. CASE k < a
      <4>1. k \in 1 .. a /\ k + 1 \in 1 .. a /\ (k + 1) - 1 = (k - 1) + 1 /\ k - 1 \in Nat
        BY <3>1, <2>7
      <4>2. range(k) = Split(NearPart, k - 1, a) /\ range(k + 1) = Split(NearPart, (k + 1) - 1, a)
        BY <4>1, <2>3
      <4>3. Split(NearPart, k - 1, a)[2] = Split(NearPart, (k - 1) + 1, a)[1]
        BY <4>1, <2>5
      <4> QED BY <4>1, <4>2, <4>3
    <3>2. CASE k = a
      <4>1. a \in 1 .. a /\ a + 1 \in a + 1 .. n /\ (a + 1) - a - 1 = 0
        BY <2>7
      <4>2. range(a) = Split(NearPart, a - 1, a)
        BY <4>1, <2>3
      <4>3. range(a + 1)[1] = NearPart + Split(rest, (a + 1) - a - 1, m)[1]
        BY <4>1, <2>4
      <4>4. range(a + 1)[1] = NearPart
        BY <4>1, <4>3, <2>2, <2>6
      <4> QED BY <3>2, <4>2, <4>4, <2>5
    <3>3. CASE a < k
      <4>1. /\ k \in a + 1 .. n /\ k + 1 \in a + 1 .. n
            /\ (k + 1) - a - 1 = (k - a - 1) + 1 /\ k - a - 1 \in Nat
        BY <3>3, <2>7
      <4>2. /\ range(k)[2] = NearPart + Split(rest, k - a - 1, m)[2]
            /\ range(k + 1)[1] = NearPart + Split(rest, (k + 1) - a - 1, m)[1]
        BY <4>1, <2>4
      <4>3. Split(rest, k - a - 1, m)[2] = Split(rest, (k - a - 1) + 1, m)[1]
        BY <4>1, <2>6
      <4> QED BY <4>1, <4>2, <4>3
    <3> QED BY <3>1, <3>2, <3>3, <2>7
  <2> QED BY <2>8, <2>9, <2>10
<1> QED BY <1>3, <1>4

(* The chunks of a scan's slots follow one another in the order in which   *)
(* their partials are folded, for any pool whose order is FoldsInOrder     *)
(* (ScanState::slotRange, runScanParallel).                                *)
THEOREM ScansInOrder == ASSUME FoldsInOrder PROVE Spec => []ScanInOrder
<1> DEFINE Inv == pool \in Pools /\ (call = NoCall \/ call \in Calls)
<1>1. Init => Inv
  BY DEF Init
<1>2. Inv /\ [Next]_vars => Inv'
  BY DEF Next, Begin, Take, Run, Leave, Stop, Finish, Return, vars
<1>3. Inv => ScanInOrder
  <2>1. call = NoCall => ScanInOrder
    BY DEF ScanInOrder, NoCall
  <2>2. Placed /\ call.kind = "scan" => ScanInOrder
    BY ScansFold
  <2>3. call.kind # "scan" => ScanInOrder
    BY DEF ScanInOrder
  <2> QED BY <2>1, <2>2, <2>3 DEF Placed
<1> QED BY <1>1, <1>2, <1>3, PTL DEF Spec
=============================================================================
