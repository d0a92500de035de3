--------------------------- MODULE ChaseLevProofs ---------------------------
(***************************************************************************)
(* The theorems of module ChaseLev, for any thieves, any capacity, any     *)
(* reservations and any number of pushes: the deque implements a line of   *)
(* tasks (module TaskDeque), every task that was pushed is in the line or  *)
(* was handed out once, a pop that finds nothing finds the line empty, no  *)
(* thief loads from an array that was given back, and every variable has   *)
(* its type.                                                               *)
(*                                                                         *)
(* The invariant says what is true of the ring and of the store buffer at  *)
(* every instant: the stores to the slots wait in the order of their       *)
(* indices and above every bottom the memory has or will have, an index    *)
(* nobody waits for is in its slot of the array the thieves load and of    *)
(* the array the owner uses, and a thief that may still win holds the      *)
(* array, or the task, of the index it is after.                           *)
(***************************************************************************)
EXTENDS ChaseLev, FiniteSetTheorems, WellFoundedInduction, TLAPS

-----------------------------------------------------------------------------
(***************************************************************************)
(* Sequences, remainders, rings.                                           *)
(***************************************************************************)
(* The greatest of a set. *)
LEMMA GreatestIs ==
  ASSUME NEW S \in SUBSET Int, NEW x \in S, \A y \in S : y <= x
  PROVE  Max(S) = x
<1> DEFINE P(u) == u \in S /\ \A z \in S : u >= z
<1>1. P(x)
  OBVIOUS
<1>2. Max(S) = CHOOSE u \in S : \A z \in S : u >= z
  BY DEF Max
<1>3. (CHOOSE u \in S : \A z \in S : u >= z) = CHOOSE u : P(u)
  OBVIOUS
<1>4. P(CHOOSE u : P(u))
  <2> HIDE DEF P
  <2> QED BY <1>1
<1>5. Max(S) \in S /\ Max(S) >= x
  BY <1>2, <1>3, <1>4
<1>6. \A u \in S : u \in Int /\ u <= x
  OBVIOUS
<1> QED
  <2> DEFINE g == Max(S)
  <2>1. g \in S /\ g >= x /\ x \in Int
    BY <1>5
  <2> HIDE DEF g
  <2>2. g = x
    BY <2>1, <1>6
  <2> QED
    BY <2>2 DEF g

(* A set of positions that is not empty has a greatest element. *)
LEMMA GreatestIn ==
  ASSUME NEW n \in Nat, NEW S \in SUBSET (1 .. n), S # {}
  PROVE  \E x \in S : Max(S) = x /\ \A y \in S : y <= x
<1> DEFINE Above == {n - s : s \in S}
<1>1. Above \subseteq Nat /\ Above # {}
  <2>1. \A s \in S : s \in 1 .. n /\ n - s \in Nat
    OBVIOUS
  <2>2. \E s \in S : n - s \in Above
    OBVIOUS
  <2> QED
    BY <2>1, <2>2
<1>2. PICK m \in Above : \A y \in Above : ~(<<y, m>> \in OpToRel(<, Nat))
  BY <1>1, NatLessThanWellFounded, WFMin
<1>3. PICK x \in S : m = n - x
  OBVIOUS
<1>4. \A y \in S : y <= x
  <2> SUFFICES ASSUME NEW y \in S, x < y PROVE FALSE
    OBVIOUS
  <2>1. n - y \in Above /\ n - y < m /\ n - y \in Nat /\ m \in Nat
    BY <1>3
  <2>2. <<n - y, m>> \in OpToRel(<, Nat)
    BY <2>1 DEF OpToRel
  <2> QED
    BY <1>2, <2>1, <2>2
<1>5. S \in SUBSET Int
  OBVIOUS
<1> QED
  BY <1>4, <1>5, GreatestIs

(* What the owner reads after one more store, and after the oldest left. *)
LatestOf(b, v, m) ==
  LET mine == {i \in 1 .. Len(b) : b[i].var = v}
  IN  IF mine = {} THEN m ELSE b[Max(mine)].val

(* A store at the end of the buffer is the latest to its variable. *)
LEMMA LatestAppend ==
  ASSUME NEW R, NEW b \in Seq(R), NEW s \in R, NEW v, NEW m
  PROVE  LatestOf(Append(b, s), v, m) = IF s.var = v THEN s.val ELSE LatestOf(b, v, m)
<1> DEFINE c == Append(b, s)
           n == Len(b)
           Old == {i \in 1 .. n : b[i].var = v}
           New == {i \in 1 .. Len(c) : c[i].var = v}
<1>1. n \in Nat /\ Len(c) = n + 1 /\ c[n + 1] = s /\ \A i \in 1 .. n : c[i] = b[i]
  OBVIOUS
<1>2. LatestOf(c, v, m) = IF New = {} THEN m ELSE c[Max(New)].val
  BY DEF LatestOf
<1>3. LatestOf(b, v, m) = IF Old = {} THEN m ELSE b[Max(Old)].val
  BY DEF LatestOf
<1> HIDE DEF c, n
<1>4. CASE s.var = v
  <2>1. n + 1 \in New /\ New \in SUBSET Int /\ \A y \in New : y <= n + 1
    BY <1>1, <1>4
  <2>2. Max(New) = n + 1
    <3> HIDE DEF New
    <3> QED BY <2>1, GreatestIs
  <2> QED
    BY <2>1, <2>2, <1>1, <1>2, <1>4 DEF c
<1>5. CASE s.var # v
  <2>1. New = Old
    BY <1>1, <1>5
  <2>2. CASE Old = {}
    BY <2>1, <2>2, <1>2, <1>3, <1>5 DEF c
  <2>3. CASE Old # {}
    <3>1. Old \in SUBSET (1 .. n)
      OBVIOUS
    <3>2. Max(Old) \in 1 .. n
      <4> HIDE DEF Old
      <4> QED BY <3>1, <2>3, <1>1, GreatestIn
    <3> QED
      BY <3>2, <2>1, <2>3, <1>1, <1>2, <1>3, <1>5 DEF c
  <2> QED
    BY <2>2, <2>3
<1> QED
  BY <1>4, <1>5

(* The oldest store in memory reads as it did in the buffer. *)
LEMMA LatestTail ==
  ASSUME NEW R, NEW b \in Seq(R), b # <<>>, NEW v, NEW m
  PROVE  LatestOf(Tail(b), v, IF Head(b).var = v THEN Head(b).val ELSE m) = LatestOf(b, v, m)
<1> DEFINE c == Tail(b)
           n == Len(b)
           h == IF Head(b).var = v THEN Head(b).val ELSE m
           Old == {i \in 1 .. n : b[i].var = v}
           New == {i \in 1 .. Len(c) : c[i].var = v}
<1>1. n \in Nat \ {0} /\ Len(c) = n - 1 /\ Head(b) = b[1] /\ \A i \in 1 .. n - 1 : c[i] = b[i + 1]
  OBVIOUS
<1>2. LatestOf(c, v, h) = IF New = {} THEN h ELSE c[Max(New)].val
  BY DEF LatestOf
<1>3. LatestOf(b, v, m) = IF Old = {} THEN m ELSE b[Max(Old)].val
  BY DEF LatestOf
<1>h. h = IF b[1].var = v THEN b[1].val ELSE m
  BY <1>1
<1>4. LatestOf(c, v, h) = LatestOf(b, v, m)
  <2> HIDE DEF c, n, h
  <2>1. CASE New = {}
    <3>1. \A i \in Old : i = 1
      <4> SUFFICES ASSUME NEW i \in Old, i # 1 PROVE FALSE
        OBVIOUS
      <4>1. i - 1 \in 1 .. n - 1 /\ b[i].var = v /\ i \in 1 .. n
        BY <1>1
      <4>2. c[i - 1] = b[i]
        BY <4>1, <1>1
      <4> QED BY <4>1, <4>2, <1>1, <2>1
    <3>2. CASE b[1].var = v
      <4>1. 1 \in Old /\ Old \in SUBSET Int /\ \A y \in Old : y <= 1
        BY <3>1, <3>2, <1>1
      <4>2. Max(Old) = 1
        <5> HIDE DEF Old
        <5> QED BY <4>1, GreatestIs
      <4> QED BY <4>1, <4>2, <3>2, <2>1, <1>2, <1>3, <1>h
    <3>3. CASE b[1].var # v
      <4>1. Old = {}
        BY <3>1, <3>3
      <4> QED BY <4>1, <3>3, <2>1, <1>2, <1>3, <1>h
    <3> QED BY <3>2, <3>3
  <2>2. CASE New # {}
    <3>1. New \in SUBSET (1 .. Len(c)) /\ Len(c) \in Nat
      BY <1>1
    <3>2. PICK x \in New : Max(New) = x /\ \A y \in New : y <= x
      <4> HIDE DEF New
      <4> QED BY <3>1, <2>2, GreatestIn
    <3>3. x \in 1 .. n - 1 /\ c[x].var = v /\ c[x] = b[x + 1]
      BY <1>1
    <3>4. x + 1 \in Old /\ Old \in SUBSET Int
      BY <3>3, <1>1
    <3>5. \A y \in Old : y <= x + 1
      <4> SUFFICES ASSUME NEW y \in Old, y > x + 1 PROVE FALSE
        BY <3>3
      <4>1. y \in 1 .. n /\ b[y].var = v /\ y - 1 \in 1 .. n - 1
        BY <1>1, <3>3
      <4>2. c[y - 1] = b[y]
        BY <4>1, <1>1
      <4>3. y - 1 \in New
        BY <4>1, <4>2, <1>1
      <4> QED BY <4>3, <4>1, <3>2, <3>3
    <3>6. Max(Old) = x + 1
      <4> HIDE DEF Old
      <4> QED BY <3>4, <3>5, GreatestIs
    <3> QED BY <3>2, <3>3, <3>4, <3>6, <2>2, <1>2, <1>3
  <2> QED BY <2>1, <2>2
<1> QED
  BY <1>4

(* The arrays: slots from 0 on, and the stores to a variable or a slot. *)
Rings == UNION {[0 .. c - 1 -> Int] : c \in Nat \ {0}}
Stores == [var : {"bottom", "array", "slot"}, at : Int, val : Int]

TypeInv ==
  /\ top \in Nat /\ bottom \in Int /\ array \in Nat
  /\ arrays \in Seq(Rings)
  /\ buf \in Seq(Stores)
  /\ pc \in {"idle", "grow", "retire", "retireReserve", "push", "pop", "last", "gone"}
  /\ pushed \in 0 .. MaxPush /\ rt \in Nat /\ rb \in Int
  /\ tpc \in [Thieves -> {"idle", "bottom", "array", "slot", "swap"}]
  /\ tt \in [Thieves -> Nat]
  /\ tarr \in [Thieves -> Nat]
  /\ tval \in [Thieves -> Int]
  /\ out \in [Tasks -> Nat]

(* What the owner's store buffer holds. *)
Waits(k, v) == k \in 1 .. Len(buf) /\ buf[k].var = v
Pending(i) == \E k \in 1 .. Len(buf) : Waits(k, "slot") /\ buf[k].at = i
Switching == \E k \in 1 .. Len(buf) : Waits(k, "array")

(* The array the thieves load, and the one the owner uses. *)
Shown == arrays[array]
Newest == arrays[Len(arrays)]

(* The address of a new array leaves the buffer last: the owner waits for  *)
(* it before it goes on. While it waits, the thieves load the array        *)
(* before it.                                                              *)
SwitchInv ==
  /\ array >= 1
  /\ array = Len(arrays) \/ (array = Len(arrays) - 1 /\ Switching)
  /\ \A k \in 1 .. Len(buf) :
       Waits(k, "array") => /\ k = Len(buf) /\ pc \in {"retire", "retireReserve"}
                            /\ buf[k].val = Len(arrays) /\ array = Len(arrays) - 1

(* The slots are stored in the order of their indices, and no bottom       *)
(* stored before a slot lets a thief see it.                               *)
OrderInv ==
  \A k \in 1 .. Len(buf) :
    Waits(k, "slot") =>
      \A l \in 1 .. k - 1 : /\ Waits(l, "bottom") => buf[l].val <= buf[k].at
                            /\ Waits(l, "slot") => buf[l].at < buf[k].at

(* Neither the memory nor the buffer has a bottom above the line, and      *)
(* what waits for a slot is a task of the line that no thief can see.      *)
WithinInv ==
  /\ bottom <= LogicalBottom /\ top <= LogicalBottom
  /\ \A k \in 1 .. Len(buf) :
       /\ Waits(k, "bottom") => buf[k].val <= LogicalBottom
       /\ Waits(k, "slot") => /\ top <= buf[k].at /\ bottom <= buf[k].at
                              /\ buf[k].at < LogicalBottom

(* The line fits both arrays with a slot to spare. *)
RoomInv ==
  /\ LogicalBottom - top < Cap(Shown)
  /\ LogicalBottom - top < Cap(Newest)

Base == TypeInv /\ SwitchInv /\ OrderInv

(* The capacity of an array is the number of its slots. *)
LEMMA CapOf ==
  ASSUME NEW c \in Nat \ {0}, NEW a, DOMAIN a = 0 .. c - 1
  PROVE  Cap(a) = c
<1>1. Cardinality(0 .. c - 1) = c
  BY FS_Interval
<1> QED
  BY <1>1 DEF Cap

(* An array is a function on its slots. *)
LEMMA RingCap ==
  ASSUME NEW a \in Rings
  PROVE  Cap(a) \in Nat \ {0} /\ a \in [0 .. Cap(a) - 1 -> Int]
<1>1. PICK c \in Nat \ {0} : a \in [0 .. c - 1 -> Int]
  BY DEF Rings
<1>2. Cap(a) = c
  BY <1>1, CapOf
<1> QED
  BY <1>1, <1>2

(* A remainder is less than the capacity. *)
LEMMA ModLess ==
  ASSUME NEW i \in Int, NEW c \in Nat \ {0}
  PROVE  i % c \in 0 .. c - 1
OBVIOUS

(* Two indices less than a capacity apart have slots of their own. *)
LEMMA ModInj ==
  ASSUME NEW i \in Int, NEW j \in Int, NEW c \in Nat \ {0}, i <= j, j - i < c, i % c = j % c
  PROVE  i = j
<1> DEFINE p == i \div c
           q == j \div c
           r == i % c
<1>1. p \in Int /\ q \in Int /\ r \in Int /\ i = c * p + r /\ j = c * q + r
  OBVIOUS
<1> HIDE DEF p, q, r
<1>2. j - i = c * (q - p)
  BY <1>1
<1>3. q >= p
  BY <1>1, <1>2
<1>4. q - p < 1
  BY <1>1, <1>2
<1>5. q = p
  BY <1>1, <1>3, <1>4
<1> QED
  BY <1>1, <1>5

(* The slots of a ring. *)
LEMMA SlotIn ==
  ASSUME NEW a \in Rings, NEW i \in Int
  PROVE  Slot(a, i) \in DOMAIN a /\ a[Slot(a, i)] \in Int
<1>1. Slot(a, i) \in 0 .. Cap(a) - 1
  BY RingCap, ModLess DEF Slot
<1> QED
  BY <1>1, RingCap

(* Two tasks of the line have slots of their own. *)
LEMMA SlotsApart ==
  ASSUME NEW a \in Rings, NEW i \in Int, NEW j \in Int,
         i # j, i - j < Cap(a), j - i < Cap(a)
  PROVE  Slot(a, i) # Slot(a, j)
<1>1. Cap(a) \in Nat \ {0}
  BY RingCap
<1>2. CASE i <= j
  BY <1>1, <1>2, ModInj DEF Slot
<1>3. CASE j <= i
  BY <1>1, <1>3, ModInj DEF Slot
<1> QED
  BY <1>2, <1>3

(* The owner reads the newest array, and of an index what waits for it. *)
ReadsInv ==
  /\ Len(arrays) \in Nat /\ array \in 1 .. Len(arrays) 
  /\ Shown \in Rings /\ Newest \in Rings
  /\ OwnArray = Len(arrays)
  /\ \A i \in Int : ~Pending(i) => OwnSlot(i) = Newest[Slot(Newest, i)]
  /\ \A k \in 1 .. Len(buf) : \A i \in Int :
       Waits(k, "slot") /\ buf[k].at = i => OwnSlot(i) = buf[k].val
  /\ \A i \in Int : OwnSlot(i) \in Int
  /\ OwnBottom \in Int /\ LogicalBottom \in Int
  /\ ~Switching => array = Len(arrays)
  /\ Len(buf) \in Nat
  /\ \A k \in 1 .. Len(buf) : buf[k] \in Stores /\ buf[k].at \in Int /\ buf[k].val \in Int

(* What the owner reads, from what the buffer holds. *)
LEMMA Reads == Base => ReadsInv
<1> SUFFICES ASSUME Base PROVE ReadsInv
  OBVIOUS
<1> DEFINE n == Len(buf)
<1>1. /\ Len(arrays) \in Nat /\ n \in Nat /\ array \in Int
      /\ \A k \in 1 .. Len(arrays) : arrays[k] \in Rings
      /\ \A k \in 1 .. n : /\ buf[k] \in Stores /\ buf[k].at \in Int /\ buf[k].val \in Int
                           /\ buf[k].var \in {"bottom", "array", "slot"}
  <2>1. /\ array \in Nat /\ arrays \in Seq(Rings) /\ buf \in Seq(Stores)
    BY DEF Base, TypeInv
  <2>2. /\ Len(arrays) \in Nat /\ \A k \in 1 .. Len(arrays) : arrays[k] \in Rings
    BY <2>1
  <2>3. Len(buf) \in Nat /\ \A k \in 1 .. Len(buf) : buf[k] \in Stores
    BY <2>1
  <2>4. \A s \in Stores : s.at \in Int /\ s.val \in Int /\ s.var \in {"bottom", "array", "slot"}
    BY DEF Stores
  <2> QED
    BY <2>1, <2>2, <2>3, <2>4
<1>2. array \in 1 .. Len(arrays) /\ Len(arrays) \in 1 .. Len(arrays)
  BY <1>1 DEF Base, SwitchInv
<1>3. Shown \in Rings /\ Newest \in Rings
  BY <1>1, <1>2 DEF Shown, Newest
<1> HIDE DEF n
<1>4. OwnArray = Len(arrays)
  <2> DEFINE mine == {k \in 1 .. n : buf[k].var = "array"}
  <2>1. OwnArray = IF mine = {} THEN array ELSE buf[Max(mine)].val
    BY DEF OwnArray, Latest, n
  <2>2. CASE mine = {}
    <3>1. ~Switching
      BY <2>2 DEF Switching, Waits, n
    <3> QED
      BY <3>1, <2>1, <2>2, <1>2, <1>1 DEF Base, SwitchInv
  <2>3. CASE mine # {}
    <3>1. PICK k \in mine : TRUE
      BY <2>3
    <3>2. \A j \in mine : Waits(j, "array") /\ j \in 1 .. Len(buf)
      BY DEF Waits, n
    <3>3. \A j \in mine : j = n /\ buf[j].val = Len(arrays)
      BY <3>2 DEF Base, SwitchInv, n
    <3>4. n \in mine /\ mine \in SUBSET Int /\ \A j \in mine : j <= n
      BY <3>1, <3>3, <1>1
    <3>5. Max(mine) = n
      <4> HIDE DEF mine
      <4> QED BY <3>4, GreatestIs
    <3> QED
      BY <3>3, <3>4, <3>5, <2>1, <2>3
  <2> QED
    BY <2>2, <2>3
<1>5. \A i \in Int : ~Pending(i) => OwnSlot(i) = Newest[Slot(Newest, i)]
  <2> SUFFICES ASSUME NEW i \in Int, ~Pending(i) PROVE OwnSlot(i) = Newest[Slot(Newest, i)]
    OBVIOUS
  <2> DEFINE mine == {k \in 1 .. Len(buf) : buf[k].var = "slot" /\ buf[k].at = i}
  <2>1. OwnSlot(i) = IF mine = {} THEN arrays[OwnArray][Slot(arrays[OwnArray], i)]
                                  ELSE buf[Max(mine)].val
    BY DEF OwnSlot
  <2>2. mine = {}
    BY DEF Pending, Waits
  <2> QED
    BY <2>1, <2>2, <1>4 DEF Newest
<1>6. \A k \in 1 .. Len(buf) : \A i \in Int :
        Waits(k, "slot") /\ buf[k].at = i => OwnSlot(i) = buf[k].val
  <2> SUFFICES ASSUME NEW k \in 1 .. Len(buf), NEW i \in Int, Waits(k, "slot"), buf[k].at = i
               PROVE OwnSlot(i) = buf[k].val
    OBVIOUS
  <2> DEFINE mine == {l \in 1 .. n : buf[l].var = "slot" /\ buf[l].at = i}
  <2>1. OwnSlot(i) = IF mine = {} THEN arrays[OwnArray][Slot(arrays[OwnArray], i)]
                                  ELSE buf[Max(mine)].val
    BY DEF OwnSlot, n
  <2>2. k \in mine /\ mine \in SUBSET Int
    BY <1>1 DEF Waits, n
  <2>3. \A l \in mine : l <= k
    <3> SUFFICES ASSUME NEW l \in mine, k < l PROVE FALSE
      BY <2>2
    <3>1. l \in 1 .. Len(buf) /\ Waits(l, "slot") /\ k \in 1 .. l - 1 /\ buf[l].at = i
      BY <1>1 DEF Waits, n
    <3>2. buf[k].at < buf[l].at
      BY <3>1 DEF Base, OrderInv
    <3> QED
      BY <3>1, <3>2
  <2>4. Max(mine) = k
    <3> HIDE DEF mine
    <3> QED BY <2>2, <2>3, GreatestIs
  <2> QED
    BY <2>1, <2>2, <2>4
<1>7. \A i \in Int : OwnSlot(i) \in Int
  <2> SUFFICES ASSUME NEW i \in Int PROVE OwnSlot(i) \in Int
    OBVIOUS
  <2>1. CASE Pending(i)
    <3>1. PICK k \in 1 .. Len(buf) : Waits(k, "slot") /\ buf[k].at = i
      BY <2>1 DEF Pending
    <3> QED
      BY <3>1, <1>6, <1>1 DEF n
  <2>2. CASE ~Pending(i)
    BY <2>2, <1>3, <1>5, SlotIn
  <2> QED
    BY <2>1, <2>2
<1>8. OwnBottom \in Int
  <2> DEFINE mine == {k \in 1 .. n : buf[k].var = "bottom"}
  <2>1. OwnBottom = IF mine = {} THEN bottom ELSE buf[Max(mine)].val
    BY DEF OwnBottom, Latest, n
  <2>2. CASE mine = {}
    BY <2>1, <2>2 DEF Base, TypeInv
  <2>3. CASE mine # {}
    <3>1. mine \in SUBSET (1 .. n)
      OBVIOUS
    <3>2. Max(mine) \in 1 .. n
      <4> HIDE DEF mine
      <4> QED BY <3>1, <2>3, <1>1, GreatestIn
    <3> QED
      BY <3>2, <2>1, <2>3, <1>1
  <2> QED
    BY <2>2, <2>3
<1>9. LogicalBottom \in Int
  BY <1>8 DEF LogicalBottom, Base, TypeInv
<1>10. ~Switching => array = Len(arrays)
  BY DEF Base, SwitchInv
<1>11. /\ Len(buf) \in Nat
       /\ \A k \in 1 .. Len(buf) : buf[k] \in Stores /\ buf[k].at \in Int /\ buf[k].val \in Int
  BY <1>1 DEF n
<1> QED
  BY <1>1, <1>2, <1>3, <1>4, <1>5, <1>6, <1>7, <1>8, <1>9, <1>10, <1>11 DEF ReadsInv

(* The same of the state after a step. *)
LEMMA ReadsAfter == Base' => ReadsInv'
BY Reads, PTL

(* Where the owner is: it pushes into an array with room, it has stored    *)
(* what it is about to pop, and it swaps with an empty buffer.             *)
OwnerInv ==
  /\ pc \in {"grow", "retire", "push"} => pushed < MaxPush /\ rt <= top /\ rb = OwnBottom
  /\ pc = "grow" => rb - rt < Cap(Newest)
  /\ pc \in {"retire", "push"} => rb - rt < Cap(Newest) - 1
  /\ pc = "pop" => OwnBottom = rb
  /\ pc = "last" => buf = <<>> /\ bottom = rb /\ rt = rb /\ rt <= top

(* While the address of the new array waits, a task is in its slot of the  *)
(* old array, or waits for it, and it is in its slot of the new one.       *)
CopiedInv ==
  Switching =>
    \A i \in top .. LogicalBottom - 1 :
      /\ ~Pending(i) => Shown[Slot(Shown, i)] = OwnSlot(i)
      /\ Newest[Slot(Newest, i)] = OwnSlot(i)

(* A thief that may still win: its task is the first of the line, and the  *)
(* array or the task it has loaded is that of this index.                  *)
Loaded(h) == arrays[tarr[h]]
ThiefAt(h) ==
  /\ tt[h] <= top
  /\ tpc[h] = "slot" => tarr[h] \in 1 .. Len(arrays)
  /\ tpc[h] \in {"array", "slot", "swap"} /\ tt[h] = top =>
       /\ top < LogicalBottom /\ ~Pending(top)
       /\ tpc[h] = "slot" => Loaded(h)[Slot(Loaded(h), top)] = OwnSlot(top)
       /\ tpc[h] = "swap" => tval[h] = OwnSlot(top)
ThiefInv == \A h \in Thieves : ThiefAt(h)

(* Nothing is given back before the end, and no thief is left by then. *)
EndInv ==
  /\ freed # {} => pc = "gone"
  /\ pc = "gone" => \A h \in Thieves : tpc[h] = "idle"

(* The inductive invariant. *)
RingInv == WithinInv /\ RoomInv /\ CopiedInv
IInv == Base /\ RingInv /\ OwnerInv /\ ThiefInv /\ EndInv

(* A step that stores nothing and drains nothing. *)
Still == UNCHANGED <<bottom, array, arrays, buf>>
StillReads ==
  /\ \A k, v : Waits(k, v)' <=> Waits(k, v)
  /\ \A i \in Int : Pending(i)' <=> Pending(i)
  /\ Switching' <=> Switching
  /\ Shown' = Shown /\ Newest' = Newest
  /\ OwnBottom' = OwnBottom
  /\ \A i \in Int : OwnSlot(i)' = OwnSlot(i)

(* A step that neither stores nor drains changes nothing the owner reads. *)
LEMMA StillSame == ASSUME Still PROVE StillReads
<1>1. \A k, v : Waits(k, v)' <=> Waits(k, v)
  BY DEF Waits, Still
<1>2. \A i \in Int : Pending(i)' <=> Pending(i)
  BY DEF Pending, Waits, Still
<1>3. Switching' <=> Switching
  BY DEF Switching, Waits, Still
<1>4. Shown' = Shown /\ Newest' = Newest
  BY DEF Shown, Newest, Still
<1>5. OwnBottom' = OwnBottom /\ OwnArray' = OwnArray
  BY DEF OwnBottom, OwnArray, Latest, Still
<1>6. \A i \in Int : OwnSlot(i)' = OwnSlot(i)
  BY <1>5 DEF OwnSlot, Still
<1> QED
  BY <1>1, <1>2, <1>3, <1>4, <1>5, <1>6 DEF StillReads

(* ... nor the order of the stores ... *)
LEMMA StillBase ==
  ASSUME Base, Still, TypeInv', Switching => pc' \in {"retire", "retireReserve"}
  PROVE  Base'
<1>1. StillReads
  BY StillSame
<1>2. SwitchInv'
  <2>1. \A k \in 1 .. Len(buf) : Waits(k, "array") => Switching
    BY DEF Switching
  <2> QED
    BY <1>1, <2>1 DEF StillReads, SwitchInv, Base, Still
<1>3. OrderInv'
  BY <1>1 DEF StillReads, OrderInv, Base, Still
<1> QED
  BY <1>2, <1>3 DEF Base

(* ... nor what the rings hold. *)
LEMMA StillRing ==
  ASSUME Base, Still, RingInv, top' = top, LogicalBottom' = LogicalBottom
  PROVE  RingInv'
<1>1. StillReads /\ ReadsInv
  BY StillSame, Reads
<1>2. WithinInv'
  BY <1>1 DEF RingInv, WithinInv, StillReads, Still
<1>3. RoomInv'
  BY <1>1 DEF RingInv, RoomInv, StillReads
<1>4. CopiedInv'
  <2> SUFFICES ASSUME Switching', NEW i \in (top .. LogicalBottom - 1)'
               PROVE  (/\ ~Pending(i) => Shown[Slot(Shown, i)] = OwnSlot(i)
                       /\ Newest[Slot(Newest, i)] = OwnSlot(i))'
    BY DEF CopiedInv
  <2>1. Switching /\ i \in top .. LogicalBottom - 1 /\ i \in Int
    BY <1>1 DEF StillReads, Base, TypeInv, ReadsInv
  <2>2. /\ ~Pending(i) => Shown[Slot(Shown, i)] = OwnSlot(i)
        /\ Newest[Slot(Newest, i)] = OwnSlot(i)
    BY <2>1 DEF RingInv, CopiedInv
  <2>3. /\ Pending(i)' <=> Pending(i)
        /\ OwnSlot(i)' = OwnSlot(i)
        /\ Shown' = Shown /\ Newest' = Newest
    BY <2>1, <1>1 DEF StillReads
  <2> QED
    BY <2>2, <2>3
<1> QED
  BY <1>2, <1>3, <1>4 DEF RingInv

(* A thief that keeps what it knows, while nothing it looks at moves. *)
LEMMA StillThief ==
  ASSUME Base, Still, top' = top, LogicalBottom' = LogicalBottom,
         NEW h, ThiefAt(h), tt'[h] = tt[h], tpc'[h] = tpc[h], tarr'[h] = tarr[h],
         tval'[h] = tval[h]
  PROVE  ThiefAt(h)'
<1>1. StillReads /\ ReadsInv /\ top \in Int
  BY StillSame, Reads DEF Base, TypeInv
<1>2. /\ Pending(top)' <=> Pending(top)
      /\ OwnSlot(top)' = OwnSlot(top)
  <2>1. Pending(top)' <=> Pending(top)
    BY DEF Still, Pending, Waits
  <2>2. OwnArray' = OwnArray
    BY DEF OwnArray, Latest, Still
  <2>3. OwnSlot(top)' = OwnSlot(top)
    BY <2>2 DEF OwnSlot, Still
  <2> QED BY <2>1, <2>3
<1>3. Loaded(h)' = Loaded(h)
  BY DEF Loaded, Still
<1> QED
  BY <1>2, <1>3 DEF ThiefAt, Still

(* ... and the owner stays where it is. *)
LEMMA StillOwner ==
  ASSUME Base, Still, OwnerInv, top' >= top, top' \in Nat, UNCHANGED ownVars
  PROVE  OwnerInv'
<1>1. StillReads /\ top \in Nat /\ rt \in Nat /\ rb \in Int
  BY StillSame DEF Base, TypeInv
<1> QED
  BY <1>1 DEF StillReads, OwnerInv, Still, ownVars

-----------------------------------------------------------------------------
(* The thieves. *)
Quiet(h) == StealTop(h) \/ StealBottom(h) \/ StealArray(h) \/ StealSlot(h) \/ StealLose(h)

(* What a step of a thief that wins nothing leaves alone. *)
LEMMA QuietTypes ==
  ASSUME IInv, NEW h \in Thieves, Quiet(h)
  PROVE  /\ TypeInv' /\ Still /\ UNCHANGED <<top, ownVars, retired, freed, out>>
         /\ LogicalBottom' = LogicalBottom
         /\ \A g \in Thieves : g # h => /\ tt'[g] = tt[g] /\ tpc'[g] = tpc[g] /\ tarr'[g] = tarr[g]
                                         /\ tval'[g] = tval[g]
<1>1. Still /\ UNCHANGED <<top, ownVars, retired, freed, out>>
  BY DEF Quiet, StealTop, StealBottom, StealArray, StealSlot, StealLose, Still, memVars, Forget
<1>2. LogicalBottom' = LogicalBottom
  BY <1>1, StillSame DEF StillReads, LogicalBottom, ownVars
<1>r. ReadsInv
  BY Reads DEF IInv
<1>3. /\ tpc' \in [Thieves -> {"idle", "bottom", "array", "slot", "swap"}]
      /\ tt' \in [Thieves -> Nat]
      /\ tarr' \in [Thieves -> Nat]
      /\ tval' \in [Thieves -> Int]
      /\ \A g \in Thieves : g # h => /\ tt'[g] = tt[g] /\ tpc'[g] = tpc[g] /\ tarr'[g] = tarr[g]
                                      /\ tval'[g] = tval[g]
  <2>1. /\ tpc \in [Thieves -> {"idle", "bottom", "array", "slot", "swap"}]
        /\ tt \in [Thieves -> Nat] /\ tarr \in [Thieves -> Nat] /\ tval \in [Thieves -> Int]
        /\ top \in Nat /\ array \in Nat
    BY DEF IInv, Base, TypeInv
  <2>2. CASE StealTop(h)
    BY <2>1, <2>2 DEF StealTop, Goto
  <2>3. CASE StealBottom(h)
    BY <2>1, <2>3 DEF StealBottom, Goto, Forget, None
  <2>4. CASE StealArray(h)
    BY <2>1, <2>4 DEF StealArray, Goto
  <2>5. CASE StealSlot(h)
    <3>1. tarr[h] \in 1 .. Len(arrays) /\ tt[h] \in Int
      BY <2>5, <2>1 DEF StealSlot, IInv, ThiefInv, ThiefAt
    <3>2. Loaded(h) \in Rings
      BY <3>1 DEF Loaded, IInv, Base, TypeInv
    <3>3. Loaded(h)[Slot(Loaded(h), tt[h])] \in Int
      BY <3>1, <3>2, SlotIn
    <3>4. /\ tval' = [tval EXCEPT ![h] = Loaded(h)[Slot(Loaded(h), tt[h])]]
          /\ tpc' = [tpc EXCEPT ![h] = "swap"] /\ UNCHANGED <<tt, tarr>>
      BY <2>5 DEF StealSlot, Loaded, Goto
    <3> QED
      BY <3>3, <3>4, <2>1
  <2>6. CASE StealLose(h)
    BY <2>1, <2>6 DEF StealLose, Goto, Forget, None
  <2> QED
    BY <2>2, <2>3, <2>4, <2>5, <2>6 DEF Quiet
<1>4. TypeInv'
  BY <1>1, <1>3 DEF IInv, Base, TypeInv, Still, ownVars
<1> QED
  BY <1>1, <1>2, <1>3, <1>4

(* A thief that looks on learns what is true. *)
LEMMA QuietThief ==
  ASSUME IInv, NEW h \in Thieves, Quiet(h)
  PROVE  ThiefAt(h)'
<1>1. /\ TypeInv' /\ Still /\ UNCHANGED <<top, ownVars>> /\ LogicalBottom' = LogicalBottom
  BY QuietTypes
<1>2. StillReads /\ ReadsInv /\ top \in Nat /\ bottom \in Int
  BY <1>1, StillSame, Reads DEF IInv, Base, TypeInv
<1>3. /\ Pending(top)' <=> Pending(top)
      /\ OwnSlot(top)' = OwnSlot(top)
  <2>1. Pending(top)' <=> Pending(top)
    BY <1>1 DEF Still, Pending, Waits
  <2>2. OwnArray' = OwnArray
    BY <1>1 DEF OwnArray, Latest, Still
  <2>3. OwnSlot(top)' = OwnSlot(top)
    BY <1>1, <2>2 DEF OwnSlot, Still
  <2> QED BY <2>1, <2>3
<1>4. /\ tpc \in [Thieves -> {"idle", "bottom", "array", "slot", "swap"}]
      /\ tt \in [Thieves -> Nat] /\ tarr \in [Thieves -> Nat] /\ tval \in [Thieves -> Int]
  BY DEF IInv, Base, TypeInv
<1>5. ThiefAt(h)
  BY DEF IInv, ThiefInv
<1>6. CASE StealTop(h)
  <2>1. tpc'[h] = "bottom" /\ tt'[h] = top
    BY <1>6, <1>4 DEF StealTop, Goto
  <2> QED
    BY <2>1, <1>1, <1>2 DEF ThiefAt
<1>7. CASE StealBottom(h)
  <2>1. CASE SeesTask(tt[h])
    <3>1. tpc'[h] = "array" /\ tt'[h] = tt[h] /\ tt[h] < bottom
      BY <1>7, <2>1, <1>4 DEF StealBottom, Goto, SeesTask
    <3>2. tt[h] = top => top < LogicalBottom /\ ~Pending(top)
      <4> SUFFICES ASSUME tt[h] = top PROVE top < LogicalBottom /\ ~Pending(top)
        OBVIOUS
      <4>1. bottom <= LogicalBottom /\ LogicalBottom \in Int
        BY <1>2 DEF IInv, RingInv, WithinInv, ReadsInv
      <4>2. ~Pending(top)
        <5> SUFFICES ASSUME Pending(top) PROVE FALSE
          OBVIOUS
        <5>1. PICK k \in 1 .. Len(buf) : Waits(k, "slot") /\ buf[k].at = top
          BY DEF Pending
        <5>2. bottom <= top
          BY <5>1 DEF IInv, RingInv, WithinInv
        <5> QED BY <5>2, <3>1, <1>2
      <4>3. top < LogicalBottom
        <5>1. top < bottom
          BY <3>1
        <5> QED
          BY <5>1, <4>1, <1>2
      <4> QED
        BY <4>2, <4>3
    <3> QED
      BY <3>1, <3>2, <1>1, <1>3, <1>5 DEF ThiefAt
  <2>2. CASE ~SeesTask(tt[h])
    <3>1. tpc'[h] = "idle" /\ tt'[h] = 0
      BY <1>7, <2>2, <1>4 DEF StealBottom, Goto, Forget
    <3> QED
      BY <3>1, <1>1, <1>2 DEF ThiefAt
  <2> QED
    BY <2>1, <2>2
<1>8. CASE StealArray(h)
  <2>1. /\ tpc'[h] = "slot" /\ tt'[h] = tt[h] /\ tarr'[h] = array /\ tpc[h] = "array"
    BY <1>8, <1>4 DEF StealArray, Goto
  <2>2. array \in 1 .. Len(arrays) /\ arrays' = arrays
    BY <1>2, <1>1 DEF ReadsInv, Still
  <2>3. Loaded(h)' = Shown
    BY <2>1, <2>2 DEF Loaded, Shown
  <2>4. tt[h] = top => /\ top < LogicalBottom /\ ~Pending(top)
                       /\ Shown[Slot(Shown, top)] = OwnSlot(top)
    <3> SUFFICES ASSUME tt[h] = top PROVE /\ top < LogicalBottom /\ ~Pending(top)
                                          /\ Shown[Slot(Shown, top)] = OwnSlot(top)
      OBVIOUS
    <3>1. top < LogicalBottom /\ ~Pending(top)
      BY <1>5, <2>1 DEF ThiefAt
    <3>2. CASE Switching
      <4>1. top \in top .. LogicalBottom - 1
        BY <3>1, <1>2 DEF ReadsInv
      <4> QED
        BY <4>1, <3>1, <3>2 DEF IInv, RingInv, CopiedInv
    <3>3. CASE ~Switching
      <4>1. Shown = Newest
        BY <3>3, <1>2 DEF ReadsInv, Shown, Newest
      <4>2. \A i \in Int : ~Pending(i) => OwnSlot(i) = Newest[Slot(Newest, i)]
        BY <1>2 DEF ReadsInv
      <4>3. top \in Int
        BY <1>2
      <4>4. OwnSlot(top) = Newest[Slot(Newest, top)]
        BY <4>2, <4>3, <3>1
      <4> QED
        BY <4>1, <4>4, <3>1
    <3> QED
      BY <3>1, <3>2, <3>3
  <2> QED
    BY <2>1, <2>2, <2>3, <2>4, <1>1, <1>3, <1>5 DEF ThiefAt
<1>9. CASE StealSlot(h)
  <2>1. /\ tpc'[h] = "swap" /\ tt'[h] = tt[h] /\ tpc[h] = "slot"
        /\ tval'[h] = Loaded(h)[Slot(Loaded(h), tt[h])]
    BY <1>9, <1>4 DEF StealSlot, Goto, Loaded
  <2> QED
    BY <2>1, <1>1, <1>3, <1>5 DEF ThiefAt
<1>10. CASE StealLose(h)
  <2>1. tpc'[h] = "idle" /\ tt'[h] = 0
    BY <1>10, <1>4 DEF StealLose, Goto, Forget
  <2> QED
    BY <2>1, <1>1, <1>2 DEF ThiefAt
<1> QED
  BY <1>6, <1>7, <1>8, <1>9, <1>10 DEF Quiet

(* A thief that wins nothing keeps the invariant. *)
LEMMA QuietStep ==
  ASSUME IInv, NEW h \in Thieves, Quiet(h)
  PROVE  IInv'
<1>1. /\ TypeInv' /\ Still /\ UNCHANGED <<top, ownVars, retired, freed, out>>
      /\ LogicalBottom' = LogicalBottom
      /\ \A g \in Thieves : g # h => /\ tt'[g] = tt[g] /\ tpc'[g] = tpc[g] /\ tarr'[g] = tarr[g]
                                      /\ tval'[g] = tval[g]
  BY QuietTypes
<1>2. pc' = pc /\ top' = top /\ freed' = freed /\ top \in Nat
  BY <1>1 DEF ownVars, IInv, Base, TypeInv
<1>3. Base'
  <2>1. Switching => pc' \in {"retire", "retireReserve"}
    BY <1>2 DEF Switching, IInv, Base, SwitchInv
  <2> QED
    BY <1>1, <2>1, StillBase DEF IInv
<1>4. RingInv'
  BY <1>1, <1>2, StillRing DEF IInv
<1>5. OwnerInv'
  BY <1>1, <1>2, StillOwner DEF IInv
<1>6. ThiefInv'
  <2> SUFFICES ASSUME NEW g \in Thieves PROVE ThiefAt(g)'
    BY DEF ThiefInv
  <2>1. CASE g = h
    BY <2>1, QuietThief
  <2>2. CASE g # h
    BY <2>2, <1>1, <1>2, StillThief DEF IInv, ThiefInv
  <2> QED
    BY <2>1, <2>2
<1>7. EndInv'
  <2>1. pc # "gone"
    BY DEF Quiet, StealTop, StealBottom, StealArray, StealSlot, StealLose, IInv, EndInv
  <2> QED
    BY <2>1, <1>2 DEF IInv, EndInv
<1> QED
  BY <1>3, <1>4, <1>5, <1>6, <1>7 DEF IInv

(* What a step does to the line of tasks. *)
SameIn(lo, hi) == \A i \in lo .. hi : OwnSlot(i)' = OwnSlot(i)
Kept ==
  /\ LogicalBottom' = LogicalBottom /\ top' = top
  /\ SameIn(top, LogicalBottom - 1)
  /\ UNCHANGED <<out, pushed>>
PutIn ==
  /\ LogicalBottom' = LogicalBottom + 1 /\ top' = top
  /\ SameIn(top, LogicalBottom - 1)
  /\ pushed < MaxPush /\ pushed' = pushed + 1 /\ UNCHANGED out
  /\ \A i \in Int : i = LogicalBottom => OwnSlot(i)' = pushed + 1
PoppedOff ==
  /\ LogicalBottom' = LogicalBottom - 1 /\ top' = top /\ top < LogicalBottom
  /\ SameIn(top, LogicalBottom - 2)
  /\ HandOut(OwnSlot(LogicalBottom - 1)) /\ UNCHANGED pushed
StolenOff ==
  /\ LogicalBottom' = LogicalBottom /\ top' = top + 1 /\ top < LogicalBottom
  /\ SameIn(top + 1, LogicalBottom - 1)
  /\ HandOut(OwnSlot(top)) /\ UNCHANGED pushed

(* Handing out counts. *)
LEMMA HandOutType ==
  ASSUME out \in [Tasks -> Nat], NEW t, HandOut(t)
  PROVE  out' \in [Tasks -> Nat]
<1>1. out' = [x \in Tasks |-> IF x = t THEN out[x] + 1 ELSE out[x]]
  BY DEF HandOut
<1>2. \A x \in Tasks : (IF x = t THEN out[x] + 1 ELSE out[x]) \in Nat
  OBVIOUS
<1> QED
  BY <1>1, <1>2

(* A step that neither stores nor drains keeps the line. *)
LEMMA StillKept ==
  ASSUME Base, Still, UNCHANGED <<top, out, pushed>>, LogicalBottom' = LogicalBottom
  PROVE  Kept
<1>1. StillReads /\ ReadsInv /\ top \in Int
  BY StillSame, Reads DEF Base, TypeInv
<1>2. SameIn(top, LogicalBottom - 1)
  BY <1>1 DEF SameIn, StillReads, ReadsInv
<1> QED
  BY <1>2 DEF Kept

(* A thief that wins nothing keeps the line. *)
LEMMA QuietKept ==
  ASSUME IInv, NEW h \in Thieves, Quiet(h)
  PROVE  Kept
BY QuietTypes, StillKept DEF IInv, ownVars

(* An empty buffer. *)
LEMMA Empties ==
  ASSUME Base, Fenced
  PROVE  /\ \A k \in 1 .. Len(buf) : FALSE
         /\ ~Switching /\ \A i \in Int : ~Pending(i)
         /\ OwnBottom = bottom
<1>1. Len(buf) = 0
  BY DEF Fenced
<1>2. \A k \in 1 .. Len(buf) : FALSE
  BY <1>1
<1>3. {i \in 1 .. Len(buf) : buf[i].var = "bottom"} = {}
  BY <1>2
<1>4. OwnBottom = bottom
  BY <1>3 DEF OwnBottom, Latest
<1> QED
  BY <1>2, <1>4 DEF Switching, Pending

-----------------------------------------------------------------------------
(* The owner, where it only moves on. *)
Moves == PushBegin \/ Retire \/ PopLast \/ Destroy

(* What the owner leaves alone where it only moves on. *)
LEMMA MovesTypes ==
  ASSUME IInv, Moves
  PROVE  /\ TypeInv' /\ Still /\ UNCHANGED <<top, pushed, thiefVars, out>>
         /\ LogicalBottom' = LogicalBottom
<1>1. Still /\ UNCHANGED <<top, pushed, thiefVars, out>>
  BY DEF Moves, PushBegin, Retire, PopLast, Destroy, Still, memVars
<1>2. StillReads /\ ReadsInv /\ TypeInv /\ OwnerInv
  BY <1>1, StillSame, Reads DEF IInv, Base
<1>3. /\ rt' \in Nat /\ rb' \in Int
      /\ pc' \in {"idle", "grow", "retire", "retireReserve", "push", "pop", "last", "gone"}
  BY <1>2 DEF Moves, PushBegin, Retire, PopLast, Destroy, TypeInv, ReadsInv
<1>4. TypeInv'
  BY <1>1, <1>2, <1>3 DEF TypeInv, Still, thiefVars
<1>5. LogicalBottom' = LogicalBottom
  <2>1. OwnBottom' = OwnBottom
    BY <1>2 DEF StillReads
  <2> QED
    BY <2>1, <1>2 DEF Moves, PushBegin, Retire, PopLast, Destroy, LogicalBottom
<1> QED
  BY <1>1, <1>4, <1>5

(* It moves on to a place it may be at. *)
LEMMA MovesOwner ==
  ASSUME IInv, Moves
  PROVE  OwnerInv'
<1>1. Still /\ UNCHANGED <<top, pushed, thiefVars, out>>
  BY MovesTypes
<1>2. StillReads /\ ReadsInv /\ OwnerInv
  BY <1>1, StillSame, Reads DEF IInv, Base
<1>t. top \in Nat /\ pushed \in Nat /\ rt \in Nat /\ rb \in Int /\ bottom \in Int
  BY DEF IInv, Base, TypeInv
<1>u. top' = top /\ pushed' = pushed /\ buf' = buf /\ bottom' = bottom
  BY <1>1 DEF Still
<1>o. OwnBottom' = OwnBottom /\ Newest' = Newest /\ OwnBottom \in Int /\ Newest \in Rings
  BY <1>2 DEF StillReads, ReadsInv
<1>3. CASE PushBegin
  <2>1. LogicalBottom = OwnBottom /\ arrays[OwnArray] = Newest
    BY <1>3, <1>2 DEF PushBegin, LogicalBottom, ReadsInv, Newest
  <2>2. OwnBottom - top < Cap(Newest) /\ Cap(Newest) \in Int
    BY <2>1, <1>o, RingCap DEF IInv, RingInv, RoomInv
  <2>3. /\ rb' = OwnBottom /\ rt' = top /\ pushed < MaxPush
        /\ pc' = IF OwnBottom - top >= Cap(Newest) - 1 THEN "grow" ELSE "push"
    BY <1>3, <2>1 DEF PushBegin, MustGrow
  <2> QED
    BY <2>2, <2>3, <1>t, <1>u, <1>o DEF OwnerInv
<1>4. CASE Retire
  <2>1. pc' = (IF pc = "retire" THEN "push" ELSE "idle") /\ UNCHANGED <<rb, rt>>
    BY <1>4 DEF Retire
  <2>2. CASE pc = "retire"
    <3>1. pushed < MaxPush /\ rt <= top /\ rb = OwnBottom /\ rb - rt < Cap(Newest) - 1
      BY <2>2, <1>2 DEF OwnerInv
    <3>2. pc' = "push" /\ rb' = rb /\ rt' = rt
      BY <2>1, <2>2
    <3> QED
      BY <3>1, <3>2, <1>u, <1>o DEF OwnerInv
  <2>3. CASE pc # "retire"
    <3>1. pc' = "idle"
      BY <2>1, <2>3
    <3> QED
      BY <3>1 DEF OwnerInv
  <2> QED
    BY <2>2, <2>3
<1>5. CASE PopLast
  <2>1. pc = "pop" /\ buf = <<>> /\ rt' = top
        /\ pc' = "last" /\ rb' = rb /\ ~(top > rb) /\ ~(top # rb)
    BY <1>5 DEF PopLast, PopFence, Fenced, NothingLeft, Uncontended
  <2>2. OwnBottom = bottom
    BY <2>1, Empties DEF Fenced, IInv
  <2>3. OwnBottom = rb
    BY <2>1, <1>2 DEF OwnerInv
  <2>4. top = rb
    BY <2>1
  <2>5. /\ pc' = "last" /\ buf' = <<>> /\ bottom' = rb' /\ rt' = rb' /\ rt' = top'
        /\ top' \in Nat
    BY <2>1, <2>2, <2>3, <2>4, <1>t, <1>u
  <2> QED
    BY <2>5 DEF OwnerInv
<1>6. CASE Destroy
  <2>1. pc' = "gone"
    BY <1>6 DEF Destroy
  <2> QED
    BY <2>1 DEF OwnerInv
<1> QED
  BY <1>3, <1>4, <1>5, <1>6 DEF Moves

(* Where the owner only moves on, the invariant and the line stay. *)
LEMMA MovesStep ==
  ASSUME IInv, Moves
  PROVE  IInv' /\ Kept
<1>1. /\ TypeInv' /\ Still /\ UNCHANGED <<top, pushed, thiefVars, out>>
      /\ LogicalBottom' = LogicalBottom
  BY MovesTypes
<1>2. Base'
  <2>1. Switching => pc' \in {"retire", "retireReserve"}
    <3> SUFFICES ASSUME Switching PROVE FALSE
      OBVIOUS
    <3>1. pc \in {"retire", "retireReserve"}
      BY DEF Switching, IInv, Base, SwitchInv
    <3>2. Fenced
      BY <3>1 DEF Moves, PushBegin, Retire, PopLast, Destroy
    <3> QED
      BY <3>2, Empties DEF IInv
  <2> QED
    BY <1>1, <2>1, StillBase DEF IInv
<1>3. RingInv'
  BY <1>1, StillRing DEF IInv
<1>4. ThiefInv'
  <2> SUFFICES ASSUME NEW g \in Thieves PROVE ThiefAt(g)'
    BY DEF ThiefInv
  <2> QED
    BY <1>1, StillThief DEF IInv, ThiefInv, thiefVars
<1>5. EndInv'
  <2>1. CASE Destroy
    BY <2>1, <1>1 DEF Destroy, EndInv, thiefVars
  <2>2. CASE PushBegin \/ Retire \/ PopLast
    <3>1. freed' = freed /\ pc # "gone" /\ pc' # "gone"
      BY <2>2 DEF PushBegin, Retire, PopLast, Reclaimed
    <3> QED
      BY <3>1 DEF IInv, EndInv
  <2> QED
    BY <2>1, <2>2 DEF Moves
<1>6. Kept
  BY <1>1, StillKept DEF IInv
<1> QED
  BY <1>2, <1>3, <1>4, <1>5, <1>6, MovesOwner DEF IInv

(* The owner takes a task nobody else is after. *)
LEMMA PopOwnStep ==
  ASSUME IInv, PopOwn
  PROVE  IInv' /\ PoppedOff
<1>1. /\ Still /\ UNCHANGED <<top, pushed, rt, rb, retired, freed, thiefVars>>
      /\ pc = "pop" /\ pc' = "idle" /\ Fenced /\ top < rb
  <2>1. top \in Int /\ rb \in Int
    BY DEF IInv, Base, TypeInv
  <2> QED
    BY <2>1 DEF PopOwn, PopFence, NothingLeft, Uncontended, Still, memVars
<1>2. StillReads /\ ReadsInv /\ top \in Nat /\ rb \in Int
  BY <1>1, StillSame, Reads DEF IInv, Base, TypeInv
<1>3. /\ \A k \in 1 .. Len(buf) : FALSE
      /\ ~Switching /\ \A i \in Int : ~Pending(i)
      /\ OwnBottom = bottom
  BY <1>1, Empties DEF IInv
<1>4. OwnBottom = rb /\ OwnBottom' = rb /\ LogicalBottom = rb + 1 /\ LogicalBottom' = rb
  BY <1>1, <1>2 DEF IInv, OwnerInv, StillReads, LogicalBottom
<1>5. TypeInv'
  <2>1. out' \in [Tasks -> Nat]
    BY HandOutType DEF PopOwn, IInv, Base, TypeInv
  <2> QED
    BY <2>1, <1>1 DEF IInv, Base, TypeInv, Still, thiefVars
<1>6. Base'
  BY <1>1, <1>3, <1>5, StillBase DEF IInv
<1>7. RingInv'
  <2>1. WithinInv'
    BY <1>1, <1>2, <1>3, <1>4 DEF WithinInv, Still
  <2>2. RoomInv'
    <3>1. /\ Shown' = Shown /\ Newest' = Newest /\ Shown \in Rings /\ Newest \in Rings
      BY <1>2 DEF StillReads, ReadsInv
    <3>2. Cap(Shown) \in Nat /\ Cap(Newest) \in Nat
      BY <3>1, RingCap
    <3>a. LogicalBottom - top < Cap(Shown) /\ LogicalBottom - top < Cap(Newest)
      BY DEF IInv, RingInv, RoomInv
    <3>b. LogicalBottom = rb + 1
      BY <1>4
    <3>3. rb + 1 - top < Cap(Shown) /\ rb + 1 - top < Cap(Newest)
      BY <3>a, <3>b, <3>2, <1>2
    <3> QED
      BY <1>1, <3>1, <3>2, <3>3, <1>2, <1>4 DEF RoomInv
  <2>3. CopiedInv'
    BY <1>2, <1>3 DEF CopiedInv, StillReads
  <2> QED
    BY <2>1, <2>2, <2>3 DEF RingInv
<1>8. OwnerInv'
  BY <1>1 DEF OwnerInv
<1>9. ThiefInv'
  <2> SUFFICES ASSUME NEW g \in Thieves PROVE ThiefAt(g)'
    BY DEF ThiefInv
  <2>1. ThiefAt(g) /\ Loaded(g)' = Loaded(g) /\ top' = top
    BY <1>1 DEF IInv, ThiefInv, Loaded, Still, thiefVars
  <2>2. PICK t \in Int : t = top
    BY <1>2
  <2>3. OwnSlot(t)' = OwnSlot(t) /\ (Pending(t)' <=> Pending(t))
    BY <1>2 DEF StillReads
  <2>4. OwnSlot(top)' = OwnSlot(top) /\ (Pending(top)' <=> Pending(top))
    BY <2>1, <2>2, <2>3
  <2> QED
    BY <2>1, <2>4, <1>1, <1>2, <1>4 DEF ThiefAt, Still, thiefVars
<1>10. EndInv'
  BY <1>1 DEF IInv, EndInv
<1>11. PoppedOff
  <2>1. SameIn(top, LogicalBottom - 2)
    BY <1>2, <1>4 DEF SameIn, StillReads
  <2>2. HandOut(OwnSlot(LogicalBottom - 1))
    <3>1. LogicalBottom - 1 = rb
      BY <1>4, <1>2
    <3> QED
      BY <3>1 DEF PopOwn
  <2> QED
    BY <2>1, <2>2, <1>1, <1>2, <1>4 DEF PoppedOff
<1> QED
  BY <1>6, <1>7, <1>8, <1>9, <1>10, <1>11 DEF IInv

(* A thief wins its task. *)
LEMMA StealWinStep ==
  ASSUME IInv, NEW h \in Thieves, StealWin(h)
  PROVE  IInv' /\ StolenOff
<1>1. /\ Still /\ UNCHANGED <<ownVars, retired, freed>> /\ UNCHANGED <<pc, pushed, rt, rb>>
      /\ tpc[h] = "swap" /\ top = tt[h] /\ top' = top + 1 /\ HandOut(tval[h])
      /\ tpc' = [tpc EXCEPT ![h] = "idle"] /\ tt' = [tt EXCEPT ![h] = 0]
      /\ tarr' = [tarr EXCEPT ![h] = 0] /\ tval' = [tval EXCEPT ![h] = 0]
  BY DEF StealWin, Still, Forget, Goto, None, ownVars
<1>2. /\ StillReads /\ ReadsInv /\ top \in Nat
      /\ tpc \in [Thieves -> {"idle", "bottom", "array", "slot", "swap"}]
      /\ tt \in [Thieves -> Nat] /\ tarr \in [Thieves -> Nat] /\ tval \in [Thieves -> Int]
  BY <1>1, StillSame, Reads DEF IInv, Base, TypeInv
<1>3. LogicalBottom' = LogicalBottom /\ LogicalBottom \in Int
  BY <1>1, <1>2 DEF LogicalBottom, StillReads, ReadsInv
<1>4. top < LogicalBottom /\ ~Pending(top) /\ tval[h] = OwnSlot(top)
  BY <1>1 DEF IInv, ThiefInv, ThiefAt
<1>5. TypeInv'
  <2>1. out' \in [Tasks -> Nat]
    BY <1>1, HandOutType DEF IInv, Base, TypeInv
  <2>2. /\ tpc' \in [Thieves -> {"idle", "bottom", "array", "slot", "swap"}]
        /\ tt' \in [Thieves -> Nat] /\ tarr' \in [Thieves -> Nat] /\ tval' \in [Thieves -> Int]
    BY <1>1, <1>2
  <2> QED
    BY <2>1, <2>2, <1>1, <1>2 DEF IInv, Base, TypeInv, Still
<1>6. Base'
  <2>1. Switching => pc' \in {"retire", "retireReserve"}
    BY <1>1 DEF Switching, IInv, Base, SwitchInv
  <2> QED
    BY <2>1, <1>1, <1>5, StillBase DEF IInv
<1>7. WithinInv'
  <2>1. \A k \in 1 .. Len(buf) : Waits(k, "slot") => top + 1 <= buf[k].at
    <3> SUFFICES ASSUME NEW k \in 1 .. Len(buf), Waits(k, "slot") PROVE top + 1 <= buf[k].at
      OBVIOUS
    <3>1. top <= buf[k].at
      BY DEF IInv, RingInv, WithinInv
    <3>2. buf[k].at # top
      BY <1>4 DEF Pending
    <3>3. buf[k].at \in Int
      BY <1>2 DEF ReadsInv
    <3> QED
      BY <3>1, <3>2, <3>3, <1>2
  <2>2. top + 1 <= LogicalBottom
    BY <1>2, <1>3, <1>4
  <2> QED
    BY <2>1, <2>2, <1>1, <1>2, <1>3 DEF IInv, RingInv, WithinInv, StillReads, Still
<1>8. RoomInv'
  <2>1. /\ Shown' = Shown /\ Newest' = Newest /\ Shown \in Rings /\ Newest \in Rings
    BY <1>2 DEF StillReads, ReadsInv
  <2>2. Cap(Shown) \in Nat /\ Cap(Newest) \in Nat
    BY <2>1, RingCap
  <2>3. LogicalBottom - top < Cap(Shown) /\ LogicalBottom - top < Cap(Newest)
    BY DEF IInv, RingInv, RoomInv
  <2>4. LogicalBottom - (top + 1) < Cap(Shown) /\ LogicalBottom - (top + 1) < Cap(Newest)
    BY <2>2, <2>3, <1>2, <1>3
  <2> QED
    BY <2>1, <2>4, <1>1, <1>3 DEF RoomInv
<1>9. CopiedInv'
  <2> SUFFICES ASSUME Switching', NEW i \in (top .. LogicalBottom - 1)'
               PROVE  (/\ ~Pending(i) => Shown[Slot(Shown, i)] = OwnSlot(i)
                       /\ Newest[Slot(Newest, i)] = OwnSlot(i))'
    BY DEF CopiedInv
  <2>1. i \in top + 1 .. LogicalBottom - 1
    BY <1>1, <1>3
  <2>2. Switching /\ i \in top .. LogicalBottom - 1 /\ i \in Int
    BY <2>1, <1>2, <1>3 DEF StillReads
  <2>3. /\ ~Pending(i) => Shown[Slot(Shown, i)] = OwnSlot(i)
        /\ Newest[Slot(Newest, i)] = OwnSlot(i)
    BY <2>2 DEF IInv, RingInv, CopiedInv
  <2>4. /\ Pending(i)' <=> Pending(i)
        /\ OwnSlot(i)' = OwnSlot(i)
        /\ Shown' = Shown /\ Newest' = Newest
    BY <2>2, <1>2 DEF StillReads
  <2> QED
    BY <2>3, <2>4
<1>10. OwnerInv'
  <2>1. top' >= top /\ top' \in Nat
    BY <1>1, <1>2
  <2> QED
    BY <2>1, <1>1, StillOwner DEF IInv
<1>11. ThiefInv'
  <2> SUFFICES ASSUME NEW g \in Thieves PROVE ThiefAt(g)'
    BY DEF ThiefInv
  <2>1. tt[g] <= top /\ tt[g] \in Nat /\ (tpc[g] = "slot" => tarr[g] \in 1 .. Len(arrays))
    BY <1>2 DEF IInv, ThiefInv, ThiefAt
  <2>2. CASE g = h
    <3>1. tt'[g] = 0 /\ tpc'[g] = "idle"
      BY <2>2, <1>1, <1>2
    <3> QED
      BY <3>1, <1>1, <1>2 DEF ThiefAt
  <2>3. CASE g # h
    <3>1. tt'[g] = tt[g] /\ tpc'[g] = tpc[g] /\ tarr'[g] = tarr[g] /\ arrays' = arrays
      BY <2>3, <1>1, <1>2 DEF Still
    <3>2. tt'[g] < top'
      BY <3>1, <2>1, <1>1, <1>2
    <3>3. tt'[g] <= top' /\ tt'[g] # top'
      BY <3>1, <2>1, <1>1, <1>2
    <3> QED
      BY <3>1, <3>3, <2>1 DEF ThiefAt
  <2> QED
    BY <2>2, <2>3
<1>12. EndInv'
  <2>1. pc # "gone"
    BY <1>1 DEF IInv, EndInv
  <2> QED
    BY <2>1, <1>1 DEF IInv, EndInv
<1>13. StolenOff
  <2>1. SameIn(top + 1, LogicalBottom - 1)
    BY <1>2, <1>3 DEF SameIn, StillReads
  <2>2. HandOut(OwnSlot(top))
    BY <1>1, <1>4
  <2> QED
    BY <2>1, <2>2, <1>1, <1>3, <1>4 DEF StolenOff
<1> QED
  BY <1>6, <1>7, <1>8, <1>9, <1>10, <1>11, <1>12, <1>13 DEF IInv, RingInv

-----------------------------------------------------------------------------
(* One more store in the buffer. *)
Added(s) ==
  /\ Len(buf) \in Nat /\ Len(buf') = Len(buf) + 1
  /\ \A k \in 1 .. Len(buf) : buf'[k] = buf[k]
  /\ buf'[Len(buf) + 1] = s
  /\ \A k, v : Waits(k, v)' <=> (Waits(k, v) \/ (k = Len(buf) + 1 /\ s.var = v))
  /\ \A i \in Int : Pending(i)' <=> (Pending(i) \/ (s.var = "slot" /\ s.at = i))
  /\ Switching' <=> (Switching \/ s.var = "array")
  /\ OwnBottom' = IF s.var = "bottom" THEN s.val ELSE OwnBottom

(* The facts of one more store. *)
LEMMA AddStore ==
  ASSUME Base, NEW s \in Stores, buf' = Append(buf, s), bottom' = bottom
  PROVE  Added(s) /\ buf' \in Seq(Stores)
<1>1. buf \in Seq(Stores)
  BY DEF Base, TypeInv
<1>2. /\ Len(buf) \in Nat /\ Len(buf') = Len(buf) + 1
      /\ \A k \in 1 .. Len(buf) : buf'[k] = buf[k]
      /\ buf'[Len(buf) + 1] = s
      /\ buf' \in Seq(Stores)
  BY <1>1
<1>3. \A k, v : Waits(k, v)' <=> (Waits(k, v) \/ (k = Len(buf) + 1 /\ s.var = v))
  BY <1>2 DEF Waits
<1>4. \A i \in Int : Pending(i)' <=> (Pending(i) \/ (s.var = "slot" /\ s.at = i))
  BY <1>2 DEF Pending, Waits
<1>5. Switching' <=> (Switching \/ s.var = "array")
  BY <1>2 DEF Switching, Waits
<1>6. OwnBottom' = IF s.var = "bottom" THEN s.val ELSE OwnBottom
  <2>1. OwnBottom = LatestOf(buf, "bottom", bottom) /\ OwnBottom' = LatestOf(buf', "bottom", bottom)
    BY DEF OwnBottom, Latest, LatestOf
  <2> QED
    BY <2>1, <1>1, LatestAppend
<1> QED
  BY <1>2, <1>3, <1>4, <1>5, <1>6 DEF Added

(* It is no array, so no array waits. *)
LEMMA AddSwitch ==
  ASSUME Base, ~Switching, NEW s, Added(s), s.var # "array", UNCHANGED <<array, arrays>>
  PROVE  SwitchInv'
<1>1. ~Switching'
  BY DEF Added
<1>2. \A k \in 1 .. Len(buf') : ~Waits(k, "array")'
  BY <1>1 DEF Switching
<1> QED
  BY <1>1, <1>2 DEF SwitchInv, Base

(* It is in order if it is above what waits. *)
LEMMA AddOrder ==
  ASSUME Base, NEW s, Added(s),
         s.var = "slot" => \A l \in 1 .. Len(buf) : /\ Waits(l, "bottom") => buf[l].val <= s.at
                                                    /\ Waits(l, "slot") => buf[l].at < s.at
  PROVE  OrderInv'
<1> SUFFICES ASSUME NEW k \in 1 .. Len(buf'), Waits(k, "slot")', NEW l \in 1 .. k - 1
             PROVE  /\ Waits(l, "bottom")' => buf'[l].val <= buf'[k].at
                    /\ Waits(l, "slot")' => buf'[l].at < buf'[k].at
  BY DEF OrderInv
<1>1. /\ Len(buf) \in Nat /\ k \in 1 .. Len(buf) + 1 /\ l \in 1 .. Len(buf) /\ buf'[l] = buf[l]
      /\ \A v : Waits(l, v)' <=> Waits(l, v)
  BY DEF Added
<1>2. CASE k = Len(buf) + 1
  <2>1. buf'[k] = s /\ s.var = "slot"
    BY <1>2, <1>1 DEF Added, Waits
  <2> QED
    BY <2>1, <1>1
<1>3. CASE k # Len(buf) + 1
  <2>1. k \in 1 .. Len(buf) /\ buf'[k] = buf[k] /\ Waits(k, "slot")
    BY <1>3, <1>1 DEF Added
  <2> QED
    BY <2>1, <1>1 DEF Base, OrderInv
<1> QED
  BY <1>2, <1>3

(* The other indices read as before. *)
LEMMA AddSlots ==
  ASSUME Base, Base', NEW s, Added(s), Newest' = Newest,
         NEW i \in Int, s.var = "slot" => i # s.at
  PROVE  OwnSlot(i)' = OwnSlot(i)
<1>1. ReadsInv /\ ReadsInv'
  BY Reads, ReadsAfter
<1>2. CASE Pending(i)
  <2>1. PICK k \in 1 .. Len(buf) : Waits(k, "slot") /\ buf[k].at = i
    BY <1>2 DEF Pending
  <2>2. OwnSlot(i) = buf[k].val
    BY <2>1, <1>1 DEF ReadsInv
  <2>3. k \in 1 .. Len(buf') /\ Waits(k, "slot")' /\ buf'[k] = buf[k]
    BY <2>1 DEF Added
  <2>4. OwnSlot(i)' = buf'[k].val
    BY <2>1, <2>3, <1>1 DEF ReadsInv
  <2> QED
    BY <2>2, <2>3, <2>4
<1>3. CASE ~Pending(i)
  <2>1. ~Pending(i)'
    BY <1>3 DEF Added
  <2>2. OwnSlot(i)' = Newest'[Slot(Newest', i)]
    BY <2>1, <1>1 DEF ReadsInv
  <2>3. OwnSlot(i) = Newest[Slot(Newest, i)]
    BY <1>3, <1>1 DEF ReadsInv
  <2> QED
    BY <2>2, <2>3
<1> QED
  BY <1>2, <1>3

(* A thief, while others move. *)
LEMMA ThiefKept ==
  ASSUME NEW g, ThiefAt(g), UNCHANGED thiefVars, top' = top, top \in Int,
         top < LogicalBottom => top < LogicalBottom',
         \A i \in Int : i = top /\ top < LogicalBottom /\ ~Pending(i)
                          => ~Pending(i)' /\ OwnSlot(i)' = OwnSlot(i),
         tpc[g] = "slot" => tarr[g] \in 1 .. Len(arrays'),
         tpc[g] = "slot" /\ tt[g] = top /\ top < LogicalBottom
           => Loaded(g)'[Slot(Loaded(g)', top)] = Loaded(g)[Slot(Loaded(g), top)]
  PROVE  ThiefAt(g)'
<1>1. tpc'[g] = tpc[g] /\ tt'[g] = tt[g] /\ tarr'[g] = tarr[g] /\ tval'[g] = tval[g]
  BY DEF thiefVars
<1>2. PICK i \in Int : i = top
  OBVIOUS
<1>3. top < LogicalBottom /\ ~Pending(i) => ~Pending(i)' /\ OwnSlot(i)' = OwnSlot(i)
  BY <1>2
<1>4. i = top' /\ i = top
  BY <1>2
<1>5. top < LogicalBottom /\ ~Pending(top) => ~Pending(top)' /\ OwnSlot(top)' = OwnSlot(top)
  BY <1>3, <1>4
<1> QED
  BY <1>1, <1>5 DEF ThiefAt

(* A thief whose task is gone can only lose. *)
LEMMA ThiefBehind ==
  ASSUME NEW g, ThiefAt(g), UNCHANGED thiefVars, top' = top + 1, top \in Int, tt[g] \in Int,
         tpc[g] = "slot" => tarr[g] \in 1 .. Len(arrays')
  PROVE  ThiefAt(g)'
<1>1. tpc'[g] = tpc[g] /\ tt'[g] = tt[g] /\ tarr'[g] = tarr[g] /\ tt[g] <= top
  BY DEF thiefVars, ThiefAt
<1>2. tt'[g] <= top' /\ tt'[g] # top'
  BY <1>1
<1> QED
  BY <1>1, <1>2 DEF ThiefAt

(* A store to bottom enters the buffer. *)
LEMMA BottomStored ==
  ASSUME IInv, pc \notin {"retire", "retireReserve"}, NEW v \in Int,
         buf' = Append(buf, Store("bottom", v)), UNCHANGED <<bottom, array, arrays>>,
         TypeInv', LogicalBottom' = LogicalBottom, v <= LogicalBottom,
         top' \in Int, top' <= LogicalBottom,
         top' = top \/ (buf = <<>> /\ top' = top + 1)
  PROVE  /\ Base' /\ RingInv' /\ OwnBottom' = v
         /\ \A i \in Int : OwnSlot(i)' = OwnSlot(i) /\ (Pending(i)' <=> Pending(i))
<1> DEFINE s == Store("bottom", v)
<1>1. s \in Stores /\ s.var = "bottom" /\ s.val = v
  BY DEF Store, Stores
<1> HIDE DEF s
<1>2. Added(s)
  BY <1>1, AddStore DEF IInv, s
<1>3. ~Switching /\ ~Switching'
  BY <1>1, <1>2 DEF IInv, Base, SwitchInv, Switching, Added
<1>4. Base'
  BY <1>1, <1>2, <1>3, AddSwitch, AddOrder DEF IInv, Base
<1>5. Shown' = Shown /\ Newest' = Newest
  BY DEF Shown, Newest
<1>6. \A i \in Int : OwnSlot(i)' = OwnSlot(i) /\ (Pending(i)' <=> Pending(i))
  <2> SUFFICES ASSUME NEW i \in Int PROVE OwnSlot(i)' = OwnSlot(i) /\ (Pending(i)' <=> Pending(i))
    OBVIOUS
  <2>1. OwnSlot(i)' = OwnSlot(i)
    BY <1>1, <1>2, <1>4, <1>5, AddSlots DEF IInv
  <2>2. Pending(i)' <=> Pending(i)
    BY <1>1, <1>2 DEF Added
  <2> QED
    BY <2>1, <2>2
<1>7. ReadsInv /\ top \in Nat
  BY Reads DEF IInv, Base, TypeInv
<1>8. WithinInv'
  <2>1. bottom <= LogicalBottom
    BY DEF IInv, RingInv, WithinInv
  <2>2. ASSUME NEW k \in 1 .. Len(buf')
        PROVE  /\ Waits(k, "bottom")' => buf'[k].val <= LogicalBottom
               /\ Waits(k, "slot")' => /\ top' <= buf'[k].at /\ bottom <= buf'[k].at
                                       /\ buf'[k].at < LogicalBottom
    <3>1. CASE k = Len(buf) + 1
      <4>1. buf'[k] = s
        BY <3>1, <1>2 DEF Added
      <4>2. ~Waits(k, "slot")'
        BY <4>1, <1>1 DEF Waits
      <4> QED
        BY <4>1, <4>2, <1>1
    <3>2. CASE k # Len(buf) + 1
      <4>1. k \in 1 .. Len(buf) /\ buf'[k] = buf[k] /\ (\A w : Waits(k, w)' <=> Waits(k, w))
        BY <3>2, <1>2 DEF Added
      <4>2. top' = top
        BY <4>1
      <4> QED
        BY <4>1, <4>2 DEF IInv, RingInv, WithinInv
    <3> QED
      BY <3>1, <3>2
  <2> QED
    BY <2>1, <2>2 DEF WithinInv
<1>9. RoomInv'
  <2>1. Cap(Shown) \in Nat /\ Cap(Newest) \in Nat
    BY <1>7, RingCap DEF ReadsInv
  <2>2. LogicalBottom - top < Cap(Shown) /\ LogicalBottom - top < Cap(Newest)
    BY DEF IInv, RingInv, RoomInv
  <2>3. LogicalBottom \in Int
    BY <1>7 DEF ReadsInv
  <2>4. LogicalBottom - top' < Cap(Shown) /\ LogicalBottom - top' < Cap(Newest)
    BY <2>1, <2>2, <2>3, <1>7
  <2> QED
    BY <2>4, <1>5 DEF RoomInv
<1>10. CopiedInv'
  BY <1>3 DEF CopiedInv
<1>11. OwnBottom' = v
  BY <1>1, <1>2 DEF Added
<1> QED
  BY <1>4, <1>6, <1>8, <1>9, <1>10, <1>11 DEF RingInv

(* The owner claims the last task. *)
LEMMA PopBeginStep ==
  ASSUME IInv, PopBegin
  PROVE  IInv' /\ Kept
<1>1. /\ pc = "idle" /\ pc' = "pop" /\ rb' = OwnBottom - 1
      /\ buf' = Append(buf, Store("bottom", OwnBottom - 1))
      /\ UNCHANGED <<top, bottom, array, arrays, retired, freed, pushed, rt, thiefVars, out>>
  BY DEF PopBegin, memVars
<1>2. ReadsInv /\ top \in Nat /\ OwnBottom \in Int /\ OwnBottom - 1 \in Int
  <2>1. ReadsInv /\ top \in Nat
    BY Reads DEF IInv, Base, TypeInv
  <2>2. OwnBottom \in Int
    BY <2>1 DEF ReadsInv
  <2> QED
    BY <2>1, <2>2
<1>3. LogicalBottom = OwnBottom /\ LogicalBottom' = OwnBottom
  BY <1>1, <1>2 DEF LogicalBottom
<1>4. TypeInv'
  <2>1. Store("bottom", OwnBottom - 1) \in Stores
    BY <1>2 DEF Store, Stores
  <2>2. buf' \in Seq(Stores)
    <3>1. buf \in Seq(Stores)
      BY DEF IInv, Base, TypeInv
    <3> QED
      BY <3>1, <2>1, <1>1
  <2> QED
    BY <2>2, <1>1, <1>2 DEF IInv, Base, TypeInv, thiefVars
<1>5. top <= LogicalBottom
  BY DEF IInv, RingInv, WithinInv
<1>6. /\ Base' /\ RingInv' /\ OwnBottom' = OwnBottom - 1
      /\ \A i \in Int : OwnSlot(i)' = OwnSlot(i) /\ (Pending(i)' <=> Pending(i))
  <2>1. UNCHANGED <<bottom, array, arrays>> /\ top' = top /\ top' \in Int
    BY <1>1, <1>2
  <2>2. pc \notin {"retire", "retireReserve"} /\ OwnBottom - 1 <= LogicalBottom
        /\ LogicalBottom' = LogicalBottom /\ top' <= LogicalBottom
    BY <1>1, <1>2, <1>3, <1>5
  <2> QED
    BY <1>1, <1>2, <1>4, <2>1, <2>2, BottomStored
<1>7. OwnerInv'
  BY <1>1, <1>6 DEF OwnerInv
<1>8. ThiefInv'
  <2> SUFFICES ASSUME NEW g \in Thieves PROVE ThiefAt(g)'
    BY DEF ThiefInv
  <2>1. ThiefAt(g) /\ Loaded(g)' = Loaded(g) /\ top \in Int
    BY <1>1, <1>2 DEF IInv, ThiefInv, Loaded, thiefVars
  <2>2. tpc[g] = "slot" => tarr[g] \in 1 .. Len(arrays')
    BY <2>1, <1>1 DEF ThiefAt
  <2> QED
    BY <2>1, <2>2, <1>1, <1>3, <1>6, ThiefKept
<1>9. EndInv'
  BY <1>1 DEF IInv, EndInv
<1>10. Kept
  <2>1. SameIn(top, LogicalBottom - 1)
    BY <1>2, <1>3, <1>6 DEF SameIn
  <2> QED
    BY <2>1, <1>1, <1>3 DEF Kept
<1> QED
  BY <1>6, <1>7, <1>8, <1>9, <1>10 DEF IInv

(* The owner finds nothing and puts the bottom back. *)
LEMMA PopEmptyStep ==
  ASSUME IInv, PopEmpty
  PROVE  IInv' /\ Kept /\ top' = LogicalBottom'
<1>1. /\ pc = "pop" /\ pc' = "idle" /\ top > rb
      /\ buf' = Append(buf, Store("bottom", rb + 1))
      /\ UNCHANGED <<top, bottom, array, arrays, retired, freed, pushed, rt, rb, thiefVars, out>>
  BY DEF PopEmpty, memVars, NothingLeft
<1>2. ReadsInv /\ top \in Nat /\ rb \in Int
  BY Reads DEF IInv, Base, TypeInv
<1>3. LogicalBottom = rb + 1
  BY <1>1 DEF LogicalBottom
<1>4. TypeInv'
  <2>1. Store("bottom", rb + 1) \in Stores
    BY <1>2 DEF Store, Stores
  <2>2. buf' \in Seq(Stores)
    <3>1. buf \in Seq(Stores)
      BY DEF IInv, Base, TypeInv
    <3> QED
      BY <3>1, <2>1, <1>1
  <2> QED
    BY <2>2, <1>1, <1>2 DEF IInv, Base, TypeInv, thiefVars
<1>5. top = LogicalBottom
  <2>1. top <= LogicalBottom
    BY DEF IInv, RingInv, WithinInv
  <2> QED
    BY <2>1, <1>1, <1>2, <1>3
<1>6. LogicalBottom' = rb + 1
  <2>1. Store("bottom", rb + 1) \in Stores /\ Store("bottom", rb + 1).var = "bottom"
        /\ Store("bottom", rb + 1).val = rb + 1
    BY <1>2 DEF Store, Stores
  <2>2. Added(Store("bottom", rb + 1))
    BY <2>1, <1>1, AddStore DEF IInv
  <2>3. OwnBottom' = rb + 1
    BY <2>1, <2>2 DEF Added
  <2> QED
    BY <2>3, <1>1 DEF LogicalBottom
<1>7. /\ Base' /\ RingInv'
      /\ \A i \in Int : OwnSlot(i)' = OwnSlot(i) /\ (Pending(i)' <=> Pending(i))
  <2>1. UNCHANGED <<bottom, array, arrays>> /\ top' = top /\ top' \in Int
    BY <1>1, <1>2
  <2>2. pc \notin {"retire", "retireReserve"} /\ rb + 1 <= LogicalBottom /\ rb + 1 \in Int
        /\ LogicalBottom' = LogicalBottom /\ top' <= LogicalBottom
    BY <1>1, <1>2, <1>3, <1>5, <1>6
  <2> QED
    BY <1>1, <1>2, <1>4, <2>1, <2>2, BottomStored
<1>8. OwnerInv'
  BY <1>1 DEF OwnerInv
<1>9. ThiefInv'
  <2> SUFFICES ASSUME NEW g \in Thieves PROVE ThiefAt(g)'
    BY DEF ThiefInv
  <2>1. ThiefAt(g) /\ Loaded(g)' = Loaded(g) /\ top \in Int
    BY <1>1, <1>2 DEF IInv, ThiefInv, Loaded, thiefVars
  <2>2. tpc[g] = "slot" => tarr[g] \in 1 .. Len(arrays')
    BY <2>1, <1>1 DEF ThiefAt
  <2>3. LogicalBottom' = LogicalBottom
    BY <1>3, <1>6
  <2> QED
    BY <2>1, <2>2, <2>3, <1>1, <1>7, ThiefKept
<1>10. EndInv'
  BY <1>1 DEF IInv, EndInv
<1>11. Kept /\ top' = LogicalBottom'
  <2>1. SameIn(top, LogicalBottom - 1)
    BY <1>2, <1>3, <1>7 DEF SameIn
  <2> QED
    BY <2>1, <1>1, <1>3, <1>5, <1>6 DEF Kept
<1> QED
  BY <1>7, <1>8, <1>9, <1>10, <1>11 DEF IInv

(* The owner and a thief are after the same task. *)
LEMMA PopSwapStep ==
  ASSUME IInv, PopSwap
  PROVE  IInv' /\ (Kept \/ StolenOff) /\ top' = LogicalBottom'
<1>1. /\ pc = "last" /\ pc' = "idle" /\ buf = <<>>
      /\ buf' = Append(buf, Store("bottom", rb + 1))
      /\ UNCHANGED <<bottom, array, arrays, retired, freed, pushed, rt, rb, thiefVars>>
      /\ (top = rt /\ top' = rt + 1 /\ HandOut(OwnSlot(rb))) \/ (top # rt /\ UNCHANGED <<top, out>>)
  BY DEF PopSwap, Fenced
<1>2. /\ ReadsInv /\ top \in Nat /\ rb \in Int /\ rt \in Nat
      /\ rt = rb /\ rt <= top /\ LogicalBottom = rb + 1 /\ top <= LogicalBottom
  BY <1>1, Reads DEF IInv, Base, TypeInv, OwnerInv, LogicalBottom, RingInv, WithinInv
<1>3. top' = LogicalBottom /\ top' \in Nat
  BY <1>1, <1>2
<1>4. TypeInv'
  <2>1. Store("bottom", rb + 1) \in Stores
    BY <1>2 DEF Store, Stores
  <2>2. buf' \in Seq(Stores)
    <3>1. buf \in Seq(Stores)
      BY DEF IInv, Base, TypeInv
    <3> QED
      BY <3>1, <2>1, <1>1
  <2>3. out' \in [Tasks -> Nat]
    <3>1. out \in [Tasks -> Nat]
      BY DEF IInv, Base, TypeInv
    <3> QED
      BY <3>1, <1>1, HandOutType
  <2> QED
    BY <2>2, <2>3, <1>1, <1>2, <1>3 DEF IInv, Base, TypeInv, thiefVars
<1>5. LogicalBottom' = rb + 1
  <2>1. Store("bottom", rb + 1) \in Stores /\ Store("bottom", rb + 1).var = "bottom"
        /\ Store("bottom", rb + 1).val = rb + 1
    BY <1>2 DEF Store, Stores
  <2>2. Added(Store("bottom", rb + 1))
    BY <2>1, <1>1, AddStore DEF IInv
  <2>3. OwnBottom' = rb + 1
    BY <2>1, <2>2 DEF Added
  <2> QED
    BY <2>3, <1>1 DEF LogicalBottom
<1>6. /\ Base' /\ RingInv'
      /\ \A i \in Int : OwnSlot(i)' = OwnSlot(i) /\ (Pending(i)' <=> Pending(i))
  <2>1. UNCHANGED <<bottom, array, arrays>> /\ top' \in Int
        /\ (top' = top \/ (buf = <<>> /\ top' = top + 1))
    BY <1>1, <1>2
  <2>2. pc \notin {"retire", "retireReserve"} /\ rb + 1 <= LogicalBottom /\ rb + 1 \in Int
        /\ LogicalBottom' = LogicalBottom /\ top' <= LogicalBottom
    BY <1>1, <1>2, <1>3, <1>5
  <2> QED
    BY <1>1, <1>2, <1>4, <2>1, <2>2, BottomStored
<1>7. OwnerInv'
  BY <1>1 DEF OwnerInv
<1>8. ThiefInv'
  <2> SUFFICES ASSUME NEW g \in Thieves PROVE ThiefAt(g)'
    BY DEF ThiefInv
  <2>1. ThiefAt(g) /\ Loaded(g)' = Loaded(g) /\ top \in Int /\ tt[g] \in Int
    BY <1>1, <1>2 DEF IInv, Base, TypeInv, ThiefInv, Loaded, thiefVars
  <2>2. tpc[g] = "slot" => tarr[g] \in 1 .. Len(arrays')
    BY <2>1, <1>1 DEF ThiefAt
  <2>3. LogicalBottom' = LogicalBottom
    BY <1>2, <1>5
  <2>4. CASE top' = top
    BY <2>1, <2>2, <2>3, <2>4, <1>1, <1>6, ThiefKept
  <2>5. CASE top' = top + 1
    BY <2>1, <2>2, <2>5, <1>1, ThiefBehind
  <2> QED
    BY <2>4, <2>5, <1>1
<1>9. EndInv'
  BY <1>1 DEF IInv, EndInv
<1>10. Kept \/ StolenOff
  <2>1. CASE top # rt
    <3>1. SameIn(top, LogicalBottom - 1)
      BY <1>2, <1>6 DEF SameIn
    <3> QED
      BY <3>1, <2>1, <1>1, <1>2, <1>5 DEF Kept
  <2>2. CASE top = rt
    <3>1. SameIn(top + 1, LogicalBottom - 1)
      BY <1>2, <1>6 DEF SameIn
    <3>2. top' = top + 1 /\ HandOut(OwnSlot(top)) /\ top < LogicalBottom
      <4>1. top = rb
        BY <2>2, <1>2
      <4> QED
        BY <2>2, <4>1, <1>1, <1>2
    <3> QED
      BY <3>1, <3>2, <1>1, <1>2, <1>5 DEF StolenOff
  <2> QED
    BY <2>1, <2>2
<1>11. top' = LogicalBottom'
  BY <1>2, <1>3, <1>5
<1> QED
  BY <1>6, <1>7, <1>8, <1>9, <1>10, <1>11 DEF IInv

(* The owner stores a task and the bottom above it. *)
LEMMA PushStep ==
  ASSUME IInv, Push
  PROVE  IInv' /\ PutIn
<1> DEFINE s == SlotStore(rb, pushed + 1)
           z == Store("bottom", rb + 1)
<1>n. PICK n \in Nat : n = Len(buf)
  <2>1. Len(buf) \in Nat
    BY DEF IInv, Base, TypeInv
  <2> QED
    BY <2>1
<1>1. /\ pc = "push" /\ pc' = "idle" /\ pushed' = pushed + 1
      /\ buf' = buf \o <<s, z>>
      /\ UNCHANGED <<top, bottom, array, arrays, retired, freed, rt, rb, thiefVars, out>>
  BY DEF Push, PushStores, memVars
<1>2. /\ ReadsInv /\ top \in Nat /\ rb \in Int /\ rt \in Nat /\ pushed \in 0 .. MaxPush
      /\ buf \in Seq(Stores)
  BY Reads DEF IInv, Base, TypeInv
<1>3. pushed < MaxPush /\ rt <= top /\ rb = OwnBottom /\ rb - rt < Cap(Newest) - 1
  BY <1>1 DEF IInv, OwnerInv
<1>4. /\ s \in Stores /\ s.var = "slot" /\ s.at = rb /\ s.val = pushed + 1
      /\ z \in Stores /\ z.var = "bottom" /\ z.val = rb + 1
  BY <1>2, <1>3 DEF SlotStore, Store, Stores
<1>5. LogicalBottom = rb
  BY <1>1, <1>3 DEF LogicalBottom
<1> HIDE DEF s, z
<1>6. /\ n \in Nat /\ Len(buf') = n + 2 /\ buf'[n + 1] = s /\ buf'[n + 2] = z
      /\ \A k \in 1 .. n : buf'[k] = buf[k]
      /\ buf' \in Seq(Stores)
      /\ buf' = Append(Append(buf, s), z) /\ n = Len(buf)
  BY <1>1, <1>2, <1>4, <1>n
<1>s. Waits(n + 1, "slot")' /\ n + 1 \in 1 .. Len(buf') /\ buf'[n + 1].at = rb
  BY <1>4, <1>6 DEF Waits
<1>7. \A k, v : Waits(k, v)' <=> \/ Waits(k, v)
                                 \/ k = n + 1 /\ v = "slot"
                                 \/ k = n + 2 /\ v = "bottom"
  BY <1>4, <1>6 DEF Waits
<1>8. \A i \in Int : Pending(i)' <=> (Pending(i) \/ i = rb)
  <2> SUFFICES ASSUME NEW i \in Int PROVE Pending(i)' <=> (Pending(i) \/ i = rb)
    OBVIOUS
  <2>1. Pending(i)' => Pending(i) \/ i = rb
    <3> SUFFICES ASSUME Pending(i)' PROVE Pending(i) \/ i = rb
      OBVIOUS
    <3>1. PICK k \in 1 .. n + 2 : Waits(k, "slot")' /\ buf'[k].at = i
      BY <1>6 DEF Pending
    <3>2. CASE k \in 1 .. n
      BY <3>1, <3>2, <1>6, <1>7 DEF Pending, Waits
    <3>3. CASE k = n + 1
      BY <3>1, <3>3, <1>4, <1>6
    <3>4. CASE k = n + 2
      BY <3>1, <3>4, <1>4, <1>6 DEF Waits
    <3> QED
      BY <3>2, <3>3, <3>4, <1>6
  <2>2. ASSUME Pending(i) PROVE Pending(i)'
    <3>1. PICK k \in 1 .. n : Waits(k, "slot") /\ buf[k].at = i
      BY <2>2, <1>6 DEF Pending
    <3> QED
      BY <3>1, <1>6, <1>7 DEF Pending
  <2>3. ASSUME i = rb PROVE Pending(i)'
    <3>1. buf'[n + 1].at = i
      BY <2>3, <1>s
    <3> QED
      BY <3>1, <1>s DEF Pending
  <2> QED
    BY <2>1, <2>2, <2>3
<1>9. OwnBottom' = rb + 1
  <2>1. OwnBottom' = LatestOf(buf', "bottom", bottom)
    BY <1>1 DEF OwnBottom, Latest, LatestOf
  <2>2. Append(buf, s) \in Seq(Stores)
    BY <1>2, <1>4
  <2>3. LatestOf(Append(Append(buf, s), z), "bottom", bottom)
          = IF z.var = "bottom" THEN z.val ELSE LatestOf(Append(buf, s), "bottom", bottom)
    <3> DEFINE b == Append(buf, s)
    <3>1. b \in Seq(Stores)
      BY <2>2
    <3> HIDE DEF b
    <3>2. LatestOf(Append(b, z), "bottom", bottom)
            = IF z.var = "bottom" THEN z.val ELSE LatestOf(b, "bottom", bottom)
      BY <3>1, <1>4, LatestAppend
    <3> QED
      BY <3>2 DEF b
  <2> QED
    BY <2>1, <2>3, <1>4, <1>6
<1>10. LogicalBottom' = rb + 1
  BY <1>1, <1>9 DEF LogicalBottom
<1>11. ~Switching /\ ~Switching' /\ Shown' = Shown /\ Newest' = Newest /\ Shown = Newest
  <2>1. ~Switching
    BY <1>1 DEF IInv, Base, SwitchInv, Switching
  <2>2. ~Switching'
    <3>1. \A k \in 1 .. Len(buf) : ~Waits(k, "array")
      BY <2>1 DEF Switching
    <3>2. \A k : Waits(k, "array") => k \in 1 .. Len(buf)
      BY DEF Waits
    <3>3. \A k : Waits(k, "array")' => Waits(k, "array")
      BY <1>7
    <3> QED
      BY <3>1, <3>2, <3>3 DEF Switching
  <2>3. Shown' = Shown /\ Newest' = Newest
    BY <1>1 DEF Shown, Newest
  <2>4. Shown = Newest
    BY <2>1, <1>2 DEF ReadsInv, Shown, Newest
  <2> QED
    BY <2>1, <2>2, <2>3, <2>4
<1>12. TypeInv'
  <2>1. pushed' \in 0 .. MaxPush
    BY <1>1, <1>2, <1>3, ChaseLevAssumption DEF ChaseLevAssumption
  <2> QED
    BY <2>1, <1>1, <1>2, <1>6 DEF IInv, Base, TypeInv, thiefVars
<1>13. \A k \in 1 .. Len(buf) : /\ Waits(k, "bottom") => buf[k].val <= rb
                                /\ Waits(k, "slot") => /\ top <= buf[k].at /\ bottom <= buf[k].at
                                                       /\ buf[k].at < rb
  BY <1>5 DEF IInv, RingInv, WithinInv
<1>14. Base'
  <2>1. SwitchInv'
    BY <1>1, <1>11 DEF IInv, Base, SwitchInv, Switching
  <2>2. OrderInv'
    <3> SUFFICES ASSUME NEW k \in 1 .. n + 2, Waits(k, "slot")', NEW l \in 1 .. k - 1
                 PROVE  /\ Waits(l, "bottom")' => buf'[l].val <= buf'[k].at
                        /\ Waits(l, "slot")' => buf'[l].at < buf'[k].at
      BY <1>6 DEF OrderInv
    <3>1. k # n + 2
      BY <1>4, <1>6 DEF Waits
    <3>2. l \in 1 .. n /\ l # n + 1 /\ l # n + 2 /\ k \in 1 .. n + 1
      BY <3>1, <1>6
    <3>3. buf'[l] = buf[l] /\ (Waits(l, "bottom")' <=> Waits(l, "bottom"))
          /\ (Waits(l, "slot")' <=> Waits(l, "slot"))
      BY <3>2, <1>6, <1>7
    <3>4. CASE k = n + 1
      BY <3>2, <3>3, <3>4, <1>4, <1>6, <1>13
    <3>5. CASE k \in 1 .. n
      <4>1. buf'[k] = buf[k] /\ Waits(k, "slot")
        BY <3>5, <1>6, <1>7
      <4> QED
        BY <4>1, <3>3, <3>5, <1>n DEF IInv, Base, OrderInv
    <3> QED
      BY <3>2, <3>4, <3>5, <1>6
  <2> QED
    BY <2>1, <2>2, <1>12 DEF Base
<1>15. ReadsInv'
  BY <1>14, ReadsAfter
<1>16. \A i \in Int : i # rb => OwnSlot(i)' = OwnSlot(i)
  <2> SUFFICES ASSUME NEW i \in Int, i # rb PROVE OwnSlot(i)' = OwnSlot(i)
    OBVIOUS
  <2>1. CASE Pending(i)
    <3>1. PICK k \in 1 .. n : Waits(k, "slot") /\ buf[k].at = i
      BY <2>1, <1>6 DEF Pending
    <3>2. k \in 1 .. Len(buf') /\ Waits(k, "slot")' /\ buf'[k] = buf[k]
      BY <3>1, <1>6, <1>7
    <3>3. OwnSlot(i) = buf[k].val
      BY <3>1, <1>2, <1>n DEF ReadsInv
    <3>4. OwnSlot(i)' = buf'[k].val
      BY <3>1, <3>2, <1>15 DEF ReadsInv
    <3> QED
      BY <3>2, <3>3, <3>4
  <2>2. CASE ~Pending(i)
    <3>1. ~Pending(i)'
      BY <2>2, <1>8
    <3>2. OwnSlot(i)' = Newest'[Slot(Newest', i)]
      BY <3>1, <1>15 DEF ReadsInv
    <3>3. OwnSlot(i) = Newest[Slot(Newest, i)]
      BY <2>2, <1>2 DEF ReadsInv
    <3> QED
      BY <3>2, <3>3, <1>11
  <2> QED
    BY <2>1, <2>2
<1>17. \A i \in Int : i = rb => OwnSlot(i)' = pushed + 1
  <2> SUFFICES ASSUME NEW i \in Int, i = rb PROVE OwnSlot(i)' = pushed + 1
    OBVIOUS
  <2>1. n + 1 \in 1 .. Len(buf') /\ Waits(n + 1, "slot")' /\ buf'[n + 1].at = i
    BY <1>s
  <2>2. OwnSlot(i)' = buf'[n + 1].val
    BY <2>1, <1>15 DEF ReadsInv
  <2> QED
    BY <2>2, <1>4, <1>6
<1>18. RingInv'
  <2>1. top <= rb /\ bottom <= rb /\ bottom \in Int
    BY <1>5 DEF IInv, Base, TypeInv, RingInv, WithinInv
  <2>2. WithinInv'
    <3>1. ASSUME NEW k \in 1 .. n + 2
          PROVE  /\ Waits(k, "bottom")' => buf'[k].val <= rb + 1
                 /\ Waits(k, "slot")' => /\ top <= buf'[k].at /\ bottom <= buf'[k].at
                                         /\ buf'[k].at < rb + 1
      <4>1. CASE k \in 1 .. n
        <5>1. buf'[k] = buf[k] /\ (Waits(k, "bottom")' <=> Waits(k, "bottom"))
              /\ (Waits(k, "slot")' <=> Waits(k, "slot"))
          BY <4>1, <1>6, <1>7
        <5>2. buf[k].val \in Int /\ buf[k].at \in Int
          BY <4>1, <1>2, <1>n DEF ReadsInv
        <5>3. /\ Waits(k, "bottom") => buf[k].val <= rb
              /\ Waits(k, "slot") => /\ top <= buf[k].at /\ bottom <= buf[k].at
                                     /\ buf[k].at < rb
          BY <1>13, <4>1, <1>n
        <5> QED
          BY <5>1, <5>2, <5>3, <1>2
      <4>2. CASE k = n + 1
        <5>1. ~Waits(k, "bottom")' /\ buf'[k].at = rb
          BY <4>2, <1>4, <1>6 DEF Waits
        <5> QED
          BY <5>1, <2>1, <1>2
      <4>3. CASE k = n + 2
        <5>1. ~Waits(k, "slot")' /\ buf'[k].val = rb + 1
          BY <4>3, <1>4, <1>6 DEF Waits
        <5> QED
          BY <5>1, <1>2
      <4> QED
        BY <4>1, <4>2, <4>3, <1>6
    <3>2. bottom <= rb + 1 /\ top <= rb + 1
      BY <2>1, <1>2
    <3> QED
      BY <3>1, <3>2, <1>1, <1>6, <1>10 DEF WithinInv
  <2>3. RoomInv'
    <3>1. Cap(Newest) \in Nat
      BY <1>2, RingCap DEF ReadsInv
    <3>2. rb + 1 - top < Cap(Newest)
      BY <3>1, <1>2, <1>3
    <3>3. LogicalBottom' - top' = rb + 1 - top
      <4>1. top' = top
        BY <1>1
      <4> QED
        BY <4>1, <1>10, <1>2
    <3> QED
      BY <3>2, <3>3, <1>11 DEF RoomInv
  <2>4. CopiedInv'
    BY <1>11 DEF CopiedInv
  <2> QED
    BY <2>2, <2>3, <2>4 DEF RingInv
<1>19. OwnerInv'
  BY <1>1 DEF OwnerInv
<1>20. ThiefInv'
  <2> SUFFICES ASSUME NEW g \in Thieves PROVE ThiefAt(g)'
    BY DEF ThiefInv
  <2>1. ThiefAt(g) /\ Loaded(g)' = Loaded(g) /\ top \in Int
    BY <1>1, <1>2 DEF IInv, ThiefInv, Loaded, thiefVars
  <2>2. tpc[g] = "slot" => tarr[g] \in 1 .. Len(arrays')
    BY <2>1, <1>1 DEF ThiefAt
  <2>3. top < LogicalBottom => top < LogicalBottom'
    BY <1>2, <1>5, <1>10
  <2>4. \A i \in Int : i = top /\ top < LogicalBottom /\ ~Pending(i)
                          => ~Pending(i)' /\ OwnSlot(i)' = OwnSlot(i)
    <3> SUFFICES ASSUME NEW i \in Int, i = top, top < LogicalBottom, ~Pending(i)
                 PROVE  ~Pending(i)' /\ OwnSlot(i)' = OwnSlot(i)
      OBVIOUS
    <3>1. i # rb
      BY <1>2, <1>5
    <3> QED
      BY <3>1, <1>8, <1>16
  <2> QED
    BY <2>1, <2>2, <2>3, <2>4, <1>1, ThiefKept
<1>21. EndInv'
  BY <1>1 DEF IInv, EndInv
<1>22. PutIn
  <2>1. SameIn(top, LogicalBottom - 1)
    BY <1>2, <1>5, <1>16 DEF SameIn
  <2> QED
    BY <2>1, <1>1, <1>3, <1>5, <1>10, <1>17 DEF PutIn
<1> QED
  BY <1>14, <1>18, <1>19, <1>20, <1>21, <1>22 DEF IInv

(* The copy holds the elements, an index in its slot. *)
LEMMA CopyHolds ==
  ASSUME ReadsInv, NEW c \in Nat \ {0}, NEW t \in Nat, NEW b \in Int, b - t < c
  PROVE  /\ Copied(c, t, b) \in [0 .. c - 1 -> Int]
         /\ \A i \in t .. b - 1 : Copied(c, t, b)[i % c] = OwnSlot(i)
<1> DEFINE Live(s) == {i \in t .. b - 1 : i % c = s}
<1>1. Copied(c, t, b) = [s \in 0 .. c - 1 |-> IF Live(s) = {} THEN None ELSE OwnSlot(Max(Live(s)))]
  BY DEF Copied
<1>2. \A s : \A i \in Live(s) : Max(Live(s)) = i
  <2> SUFFICES ASSUME NEW s, NEW i \in Live(s) PROVE Max(Live(s)) = i
    OBVIOUS
  <2>1. \A j \in Live(s) : j = i
    <3> SUFFICES ASSUME NEW j \in Live(s) PROVE j = i
      OBVIOUS
    <3>1. i \in Int /\ j \in Int /\ i % c = j % c /\ i - j < c /\ j - i < c
      OBVIOUS
    <3>2. CASE i <= j
      BY <3>1, <3>2, ModInj
    <3>3. CASE j <= i
      BY <3>1, <3>3, ModInj
    <3> QED
      BY <3>1, <3>2, <3>3
  <2>2. i \in Int /\ Live(s) \in SUBSET Int
    OBVIOUS
  <2> HIDE DEF Live
  <2>3. \A j \in Live(s) : j <= i
    <3> SUFFICES ASSUME NEW j \in Live(s) PROVE j <= i
      OBVIOUS
    <3>1. j = i
      BY <2>1
    <3> QED
      BY <3>1, <2>2
  <2> QED
    BY <2>2, <2>3, GreatestIs
<1>3. \A s : \A i \in Live(s) : i \in Int /\ OwnSlot(i) \in Int
  BY DEF ReadsInv
<1>4. ASSUME NEW s \in 0 .. c - 1
      PROVE  (IF Live(s) = {} THEN None ELSE OwnSlot(Max(Live(s)))) \in Int
  <2>1. CASE Live(s) = {}
    BY <2>1 DEF None
  <2>2. CASE Live(s) # {}
    <3>1. PICK i \in Live(s) : TRUE
      BY <2>2
    <3> HIDE DEF Live
    <3> QED
      BY <3>1, <2>2, <1>2, <1>3
  <2> QED
    BY <2>1, <2>2
<1>5. ASSUME NEW i \in t .. b - 1
      PROVE  Copied(c, t, b)[i % c] = OwnSlot(i)
  <2>1. i % c \in 0 .. c - 1 /\ i \in Live(i % c)
    BY ModLess
  <2> HIDE DEF Live
  <2>2. Max(Live(i % c)) = i
    BY <2>1, <1>2
  <2> QED
    BY <1>1, <2>1, <2>2
<1>6. Copied(c, t, b) \in [0 .. c - 1 -> Int]
  <2> HIDE DEF Live
  <2> QED
    BY <1>1, <1>4
<1> QED
  BY <1>5, <1>6

(* A larger array takes over. *)
LEMMA Grown ==
  ASSUME IInv, ~Switching, NEW c \in Nat \ {0}, NEW t \in Nat, NEW b \in Int,
         NewArray(c, t, b), b = LogicalBottom, t <= top, b - t < c,
         UNCHANGED <<top, bottom, array, retired, freed, pushed, thiefVars, out>>,
         rt' \in Nat, rb' \in Int, LogicalBottom = OwnBottom,
         pc' \in {"retire", "retireReserve"}
  PROVE  /\ Base' /\ RingInv' /\ ThiefInv' /\ Kept
         /\ Newest' \in Rings /\ Cap(Newest') = c /\ OwnBottom' = OwnBottom
<1> DEFINE a == Copied(c, t, b)
           s == Store("array", Len(arrays) + 1)
<1>1. /\ ReadsInv /\ top \in Nat /\ bottom \in Int /\ buf \in Seq(Stores) /\ arrays \in Seq(Rings)
      /\ Len(arrays) \in Nat
  BY Reads DEF IInv, Base, TypeInv
<1>2. s \in Stores /\ s.var = "array" /\ s.val = Len(arrays) + 1
  BY <1>1 DEF Store, Stores
<1>3. a \in [0 .. c - 1 -> Int] /\ \A i \in t .. b - 1 : a[i % c] = OwnSlot(i)
  BY <1>1, CopyHolds
<1>4. arrays' = Append(arrays, a) /\ buf' = Append(buf, s)
  BY DEF NewArray
<1> HIDE DEF a, s
<1>5. a \in Rings /\ Cap(a) = c
  <2>1. a \in Rings
    BY <1>3 DEF Rings
  <2>2. DOMAIN a = 0 .. c - 1
    BY <1>3
  <2> QED
    BY <2>1, <2>2, CapOf
<1>6. Added(s) /\ buf' \in Seq(Stores)
  BY <1>2, <1>4, AddStore DEF IInv
<1>7. /\ arrays' \in Seq(Rings) /\ Len(arrays') = Len(arrays) + 1
      /\ \A k \in 1 .. Len(arrays) : arrays'[k] = arrays[k]
      /\ arrays'[Len(arrays) + 1] = a
  BY <1>1, <1>4, <1>5
<1>8. Newest' = a
  BY <1>7 DEF Newest
<1>9. array = Len(arrays) /\ array >= 1 /\ Shown' = Shown /\ Shown = Newest
  <2>1. array = Len(arrays) /\ array >= 1
    BY DEF IInv, Base, SwitchInv
  <2>2. array \in 1 .. Len(arrays)
    BY <2>1, <1>1
  <2> QED
    BY <2>1, <2>2, <1>7 DEF Shown, Newest
<1>10. TypeInv'
  BY <1>6, <1>7 DEF IInv, Base, TypeInv, thiefVars
<1>11. \A k \in 1 .. Len(buf) : ~Waits(k, "array")
  BY DEF Switching
<1>12. SwitchInv'
  <2>1. Switching'
    BY <1>2, <1>6 DEF Added
  <2>2. ASSUME NEW k \in 1 .. Len(buf'), Waits(k, "array")'
        PROVE  k = Len(buf') /\ buf'[k].val = Len(arrays')
    <3>1. k = Len(buf) + 1
      BY <2>2, <1>6, <1>11 DEF Added, Waits
    <3> QED
      BY <3>1, <1>2, <1>6, <1>7 DEF Added
  <2>3. array' = Len(arrays') - 1
    BY <1>1, <1>7, <1>9
  <2> QED
    BY <2>1, <2>2, <2>3, <1>9 DEF SwitchInv
<1>13. Base'
  <2>1. OrderInv'
    BY <1>2, <1>6, AddOrder DEF IInv
  <2> QED
    BY <2>1, <1>10, <1>12 DEF Base
<1>14. ReadsInv'
  BY <1>13, ReadsAfter
<1>15. OwnBottom' = OwnBottom /\ LogicalBottom' = LogicalBottom
  <2>1. OwnBottom' = OwnBottom
    BY <1>2, <1>6 DEF Added
  <2> QED
    BY <2>1 DEF LogicalBottom
<1>16. \A i \in Int : Pending(i)' <=> Pending(i)
  BY <1>2, <1>6 DEF Added
<1>17. LogicalBottom \in Int /\ top <= LogicalBottom
  BY <1>1 DEF ReadsInv, IInv, RingInv, WithinInv
<1>18. \A i \in top .. LogicalBottom - 1 : /\ i \in Int
                                           /\ OwnSlot(i)' = OwnSlot(i)
                                           /\ a[Slot(a, i)] = OwnSlot(i)
  <2> SUFFICES ASSUME NEW i \in top .. LogicalBottom - 1
               PROVE  i \in Int /\ OwnSlot(i)' = OwnSlot(i) /\ a[Slot(a, i)] = OwnSlot(i)
    OBVIOUS
  <2>1. i \in Int /\ i \in t .. b - 1
    BY <1>1, <1>17
  <2>2. a[Slot(a, i)] = OwnSlot(i)
    BY <2>1, <1>3, <1>5 DEF Slot
  <2>3. CASE Pending(i)
    <3>1. PICK k \in 1 .. Len(buf) : Waits(k, "slot") /\ buf[k].at = i
      BY <2>3 DEF Pending
    <3>2. OwnSlot(i) = buf[k].val
      BY <2>1, <3>1, <1>1 DEF ReadsInv
    <3>3. k \in 1 .. Len(buf') /\ Waits(k, "slot")' /\ buf'[k] = buf[k]
      BY <3>1, <1>6 DEF Added
    <3>4. OwnSlot(i)' = buf'[k].val
      BY <2>1, <3>1, <3>3, <1>14 DEF ReadsInv
    <3> QED
      BY <2>1, <2>2, <3>2, <3>3, <3>4
  <2>4. CASE ~Pending(i)
    <3>1. ~Pending(i)'
      BY <2>1, <2>4, <1>16
    <3>2. OwnSlot(i)' = Newest'[Slot(Newest', i)]
      BY <2>1, <3>1, <1>14 DEF ReadsInv
    <3> QED
      BY <2>1, <2>2, <3>2, <1>8
  <2> QED
    BY <2>3, <2>4
<1>19. RingInv'
  <2>1. WithinInv'
    <3>1. ASSUME NEW k \in 1 .. Len(buf')
          PROVE  /\ Waits(k, "bottom")' => buf'[k].val <= LogicalBottom
                 /\ Waits(k, "slot")' => /\ top <= buf'[k].at /\ bottom <= buf'[k].at
                                         /\ buf'[k].at < LogicalBottom
      <4>1. CASE k = Len(buf) + 1
        BY <4>1, <1>2, <1>6 DEF Added, Waits
      <4>2. CASE k # Len(buf) + 1
        <5>1. k \in 1 .. Len(buf) /\ buf'[k] = buf[k] /\ (\A w : Waits(k, w)' <=> Waits(k, w))
          BY <4>2, <1>6 DEF Added
        <5> QED
          BY <5>1 DEF IInv, RingInv, WithinInv
      <4> QED
        BY <4>1, <4>2
    <3>2. bottom <= LogicalBottom
      BY DEF IInv, RingInv, WithinInv
    <3> QED
      BY <3>1, <3>2, <1>15, <1>17 DEF WithinInv
  <2>2. RoomInv'
    <3>1. LogicalBottom - top < Cap(Shown)
      BY DEF IInv, RingInv, RoomInv
    <3>2. LogicalBottom - top < c
      BY <1>1, <1>17
    <3>3. top' = top
      OBVIOUS
    <3> QED
      BY <3>1, <3>2, <3>3, <1>5, <1>8, <1>9, <1>15 DEF RoomInv
  <2>3. CopiedInv'
    <3> SUFFICES ASSUME NEW i \in top .. LogicalBottom - 1
                 PROVE  (/\ ~Pending(i) => Shown[Slot(Shown, i)] = OwnSlot(i)
                         /\ Newest[Slot(Newest, i)] = OwnSlot(i))'
      BY <1>15 DEF CopiedInv
    <3>1. i \in Int /\ OwnSlot(i)' = OwnSlot(i) /\ a[Slot(a, i)] = OwnSlot(i)
      BY <1>18
    <3>2. Newest'[Slot(Newest', i)] = OwnSlot(i)'
      BY <3>1, <1>8
    <3>3. ~Pending(i)' => Shown'[Slot(Shown', i)] = OwnSlot(i)'
      <4> SUFFICES ASSUME ~Pending(i)' PROVE Shown'[Slot(Shown', i)] = OwnSlot(i)'
        OBVIOUS
      <4>1. ~Pending(i)
        BY <3>1, <1>16
      <4>2. OwnSlot(i) = Newest[Slot(Newest, i)]
        BY <3>1, <4>1, <1>1 DEF ReadsInv
      <4> QED
        BY <3>1, <4>2, <1>9
    <3> QED
      BY <3>2, <3>3
  <2> QED
    BY <2>1, <2>2, <2>3 DEF RingInv
<1>20. ThiefInv'
  <2> SUFFICES ASSUME NEW g \in Thieves PROVE ThiefAt(g)'
    BY DEF ThiefInv
  <2>1. ThiefAt(g) /\ top \in Int
    BY <1>1 DEF IInv, ThiefInv
  <2>2. tpc[g] = "slot" => tarr[g] \in 1 .. Len(arrays) /\ tarr[g] \in 1 .. Len(arrays')
    BY <2>1, <1>1, <1>7 DEF ThiefAt
  <2>3. tpc[g] = "slot" => Loaded(g)' = Loaded(g)
    BY <2>2, <1>7 DEF Loaded, thiefVars
  <2>4. \A i \in Int : i = top /\ top < LogicalBottom /\ ~Pending(i)
                          => ~Pending(i)' /\ OwnSlot(i)' = OwnSlot(i)
    <3> SUFFICES ASSUME NEW i \in Int, i = top, top < LogicalBottom, ~Pending(i)
                 PROVE  ~Pending(i)' /\ OwnSlot(i)' = OwnSlot(i)
      OBVIOUS
    <3>1. i \in top .. LogicalBottom - 1
      BY <1>17
    <3> QED
      BY <3>1, <1>16, <1>18
  <2> QED
    BY <2>1, <2>2, <2>3, <2>4, <1>15, ThiefKept
<1>21. Kept
  <2>1. SameIn(top, LogicalBottom - 1)
    BY <1>18 DEF SameIn
  <2> QED
    BY <2>1, <1>15 DEF Kept
<1> QED
  BY <1>5, <1>8, <1>13, <1>15, <1>19, <1>20, <1>21

(* The owner doubles the array. *)
LEMMA GrowStep ==
  ASSUME IInv, Grow
  PROVE  IInv' /\ Kept
<1>1. /\ pc = "grow" /\ pc' = "retire" /\ NewArray(2 * Cap(arrays[OwnArray]), rt, rb)
      /\ UNCHANGED <<top, bottom, array, retired, freed, pushed, rt, rb, thiefVars, out>>
  BY DEF Grow
<1>2. ReadsInv /\ top \in Nat /\ rt \in Nat /\ rb \in Int /\ Newest \in Rings
      /\ arrays[OwnArray] = Newest
  <2>1. ReadsInv /\ top \in Nat /\ rt \in Nat /\ rb \in Int
    BY Reads DEF IInv, Base, TypeInv
  <2> QED
    BY <2>1 DEF ReadsInv, Newest
<1>3. pushed < MaxPush /\ rt <= top /\ rb = OwnBottom /\ rb - rt < Cap(Newest)
  BY <1>1 DEF IInv, OwnerInv
<1>4. PICK c \in Nat \ {0} : c = 2 * Cap(Newest) /\ rb - rt < c - 1
  <2>1. Cap(Newest) \in Nat \ {0}
    BY <1>2, RingCap
  <2> QED
    BY <2>1, <1>2, <1>3
<1>5. PICK t \in Nat, b \in Int : t = rt /\ b = rb
  BY <1>2
<1>6. NewArray(c, t, b)
  BY <1>1, <1>2, <1>4, <1>5
<1>7. ~Switching
  BY <1>1 DEF IInv, Base, SwitchInv, Switching
<1>8. LogicalBottom = OwnBottom
  BY <1>1 DEF LogicalBottom
<1>9. b = LogicalBottom /\ t <= top /\ b - t < c /\ pc' \in {"retire", "retireReserve"}
      /\ rt' \in Nat /\ rb' \in Int
  BY <1>1, <1>2, <1>3, <1>4, <1>5, <1>8
<1>10. /\ Base' /\ RingInv' /\ ThiefInv' /\ Kept
       /\ Newest' \in Rings /\ Cap(Newest') = c /\ OwnBottom' = OwnBottom
  BY <1>1, <1>6, <1>7, <1>8, <1>9, Grown
<1>11. OwnerInv'
  <2>1. /\ pushed' < MaxPush /\ rt' <= top' /\ rb' = OwnBottom' /\ rb' - rt' < Cap(Newest') - 1
    <3>1. pushed' = pushed /\ rt' = rt /\ top' = top /\ rb' = rb
      BY <1>1
    <3> QED
      BY <3>1, <1>3, <1>4, <1>10
  <2> QED
    BY <2>1, <1>1 DEF OwnerInv
<1>12. EndInv'
  BY <1>1 DEF IInv, EndInv
<1> QED
  BY <1>10, <1>11, <1>12 DEF IInv

(* The owner makes room for the pushes to come. *)
LEMMA ReserveStep ==
  ASSUME IInv, NEW n \in Reserves, Reserve(n)
  PROVE  IInv' /\ Kept
<1>1. /\ pc = "idle" /\ pc' = "retireReserve" /\ n + 1 > Cap(arrays[OwnArray])
      /\ rb' = OwnBottom /\ rt' = top
      /\ \E c \in Doublings(n) : NewArray(c, top, OwnBottom)
      /\ UNCHANGED <<top, bottom, array, retired, freed, pushed, thiefVars, out>>
  BY DEF Reserve
<1>2. /\ ReadsInv /\ top \in Nat /\ OwnBottom \in Int /\ Newest \in Rings
      /\ arrays[OwnArray] = Newest
  <2>1. ReadsInv /\ top \in Nat
    BY Reads DEF IInv, Base, TypeInv
  <2> QED
    BY <2>1 DEF ReadsInv, Newest
<1>3. n \in Nat
  BY ChaseLevAssumption DEF ChaseLevAssumption
<1>4. PICK c \in Doublings(n) : NewArray(c, top, OwnBottom)
  BY <1>1
<1>5. c \in n + 1 .. 2 * n + 1
  BY <1>4 DEF Doublings
<1>6. PICK t \in Nat, b \in Int : t = top /\ b = OwnBottom
  BY <1>2
<1>7. NewArray(c, t, b)
  BY <1>4, <1>6
<1>8. ~Switching
  BY <1>1 DEF IInv, Base, SwitchInv, Switching
<1>9. LogicalBottom = OwnBottom
  BY <1>1 DEF LogicalBottom
<1>10. c \in Nat \ {0} /\ b - t < c
  <2>1. LogicalBottom - top < Cap(Newest)
    BY DEF IInv, RingInv, RoomInv
  <2>2. OwnBottom - top < Cap(Newest) /\ n + 1 > Cap(Newest) /\ Cap(Newest) \in Nat
    BY <2>1, <1>1, <1>2, <1>9, RingCap
  <2>3. b - t < Cap(Newest)
    BY <2>2, <1>6
  <2> QED
    BY <2>2, <2>3, <1>3, <1>5, <1>6
<1>11. b = LogicalBottom /\ t <= top /\ pc' \in {"retire", "retireReserve"}
      /\ rt' \in Nat /\ rb' \in Int
  BY <1>1, <1>2, <1>6, <1>9
<1>12. Base' /\ RingInv' /\ ThiefInv' /\ Kept
  BY <1>1, <1>7, <1>8, <1>9, <1>10, <1>11, Grown
<1>13. OwnerInv'
  BY <1>1 DEF OwnerInv
<1>14. EndInv'
  BY <1>1 DEF IInv, EndInv
<1> QED
  BY <1>12, <1>13, <1>14 DEF IInv

(* The oldest store leaves the buffer. *)
Drained(s) ==
  /\ Len(buf) \in Nat \ {0} /\ Len(buf') = Len(buf) - 1 /\ buf' \in Seq(Stores)
  /\ s \in Stores /\ buf[1] = s
  /\ \A k \in 1 .. Len(buf) - 1 : buf'[k] = buf[k + 1]
  /\ \A k \in Int : \A v : Waits(k, v)' <=> (k >= 1 /\ Waits(k + 1, v))
  /\ bottom' = IF s.var = "bottom" THEN s.val ELSE bottom
  /\ array' = IF s.var = "array" THEN s.val ELSE array
  /\ arrays' = IF s.var = "slot"
               THEN [arrays EXCEPT ![array][Slot(arrays[array], s.at)] = s.val]
               ELSE arrays
  /\ UNCHANGED <<top, retired, freed, ownVars, thiefVars, out>>
  /\ UNCHANGED <<pc, pushed, rt, rb>>
  /\ OwnBottom' = OwnBottom /\ LogicalBottom' = LogicalBottom

(* The facts of a drain. *)
LEMMA DrainFacts ==
  ASSUME IInv, Drain
  PROVE  \E s \in Stores : Drained(s)
<1>1. buf \in Seq(Stores) /\ buf # <<>> /\ buf' = Tail(buf)
  BY DEF IInv, Base, TypeInv, Drain
<1>2. /\ Len(buf) \in Nat \ {0} /\ Len(buf') = Len(buf) - 1 /\ buf' \in Seq(Stores)
      /\ Head(buf) = buf[1] /\ buf[1] \in Stores
      /\ \A k \in 1 .. Len(buf) - 1 : buf'[k] = buf[k + 1]
  BY <1>1
<1>3. PICK s \in Stores : s = Head(buf)
  BY <1>2
<1>4. /\ bottom' = IF s.var = "bottom" THEN s.val ELSE bottom
      /\ array' = IF s.var = "array" THEN s.val ELSE array
      /\ arrays' = IF s.var = "slot"
                   THEN [arrays EXCEPT ![array][Slot(arrays[array], s.at)] = s.val]
                   ELSE arrays
      /\ UNCHANGED <<top, retired, freed, ownVars, thiefVars, out>>
  BY <1>3 DEF Drain
<1>5. UNCHANGED <<pc, pushed, rt, rb>>
  BY <1>4 DEF ownVars
<1>6. \A k \in Int : \A v : Waits(k, v)' <=> (k >= 1 /\ Waits(k + 1, v))
  BY <1>2 DEF Waits
<1>7. OwnBottom' = OwnBottom
  <2>1. OwnBottom = LatestOf(buf, "bottom", bottom)
        /\ OwnBottom' = LatestOf(buf', "bottom", bottom')
    BY DEF OwnBottom, Latest, LatestOf
  <2>2. bottom' = IF Head(buf).var = "bottom" THEN Head(buf).val ELSE bottom
    BY <1>3, <1>4
  <2>3. LatestOf(Tail(buf), "bottom", IF Head(buf).var = "bottom" THEN Head(buf).val ELSE bottom)
          = LatestOf(buf, "bottom", bottom)
    BY <1>1, LatestTail
  <2> QED
    BY <2>1, <2>2, <2>3, <1>1
<1>8. LogicalBottom' = LogicalBottom
  BY <1>5, <1>7 DEF LogicalBottom
<1>9. buf[1] = s
  BY <1>2, <1>3
<1> QED
  BY <1>2, <1>4, <1>5, <1>6, <1>7, <1>8, <1>9 DEF Drained

(* What is left is in order. *)
LEMMA DrainOrder ==
  ASSUME IInv, NEW s, Drained(s)
  PROVE  OrderInv'
<1> SUFFICES ASSUME NEW k \in 1 .. Len(buf'), Waits(k, "slot")', NEW l \in 1 .. k - 1
             PROVE  /\ Waits(l, "bottom")' => buf'[l].val <= buf'[k].at
                    /\ Waits(l, "slot")' => buf'[l].at < buf'[k].at
  BY DEF OrderInv
<1>1. /\ k \in 1 .. Len(buf) - 1 /\ l \in 1 .. Len(buf) - 1 /\ k + 1 \in 1 .. Len(buf)
      /\ l + 1 \in 1 .. (k + 1) - 1
  BY DEF Drained
<1>2. buf'[k] = buf[k + 1] /\ buf'[l] = buf[l + 1]
  BY <1>1 DEF Drained
<1>3. Waits(k + 1, "slot") /\ (Waits(l, "slot")' <=> Waits(l + 1, "slot"))
      /\ (Waits(l, "bottom")' <=> Waits(l + 1, "bottom"))
  BY <1>1 DEF Drained
<1>4. /\ Waits(l + 1, "bottom") => buf[l + 1].val <= buf[k + 1].at
      /\ Waits(l + 1, "slot") => buf[l + 1].at < buf[k + 1].at
  BY <1>1, <1>3 DEF IInv, Base, OrderInv
<1> QED
  BY <1>2, <1>3, <1>4

(* A bottom that reaches the memory is within the line and below what      *)
(* still waits for a slot.                                                 *)
LEMMA DrainWithin ==
  ASSUME IInv, NEW s, Drained(s)
  PROVE  WithinInv'
<1>1. /\ bottom <= LogicalBottom /\ top <= LogicalBottom
      /\ \A k \in 1 .. Len(buf) :
           /\ Waits(k, "bottom") => buf[k].val <= LogicalBottom
           /\ Waits(k, "slot") => /\ top <= buf[k].at /\ bottom <= buf[k].at
                                  /\ buf[k].at < LogicalBottom
  BY DEF IInv, RingInv, WithinInv
<1>2. 1 \in 1 .. Len(buf) /\ (s.var = "bottom" => Waits(1, "bottom")) /\ buf[1] = s
  BY DEF Drained, Waits
<1>3. bottom' <= LogicalBottom
  BY <1>1, <1>2 DEF Drained
<1>4. ASSUME NEW k \in 1 .. Len(buf')
      PROVE  /\ Waits(k, "bottom")' => buf'[k].val <= LogicalBottom
             /\ Waits(k, "slot")' => /\ top <= buf'[k].at /\ bottom' <= buf'[k].at
                                     /\ buf'[k].at < LogicalBottom
  <2>1. /\ k \in 1 .. Len(buf) - 1 /\ k + 1 \in 1 .. Len(buf) /\ buf'[k] = buf[k + 1]
        /\ (Waits(k, "slot")' <=> Waits(k + 1, "slot"))
        /\ (Waits(k, "bottom")' <=> Waits(k + 1, "bottom"))
    BY DEF Drained
  <2>2. Waits(k + 1, "slot") => bottom' <= buf[k + 1].at
    <3> SUFFICES ASSUME Waits(k + 1, "slot") PROVE bottom' <= buf[k + 1].at
      OBVIOUS
    <3>1. CASE s.var = "bottom"
      <4>1. 1 \in 1 .. (k + 1) - 1 /\ Waits(1, "bottom")
        BY <2>1, <3>1, <1>2
      <4>2. buf[1].val <= buf[k + 1].at
        BY <2>1, <4>1 DEF IInv, Base, OrderInv
      <4> QED
        BY <3>1, <4>2, <1>2 DEF Drained
    <3>2. CASE s.var # "bottom"
      BY <2>1, <3>2, <1>1 DEF Drained
    <3> QED
      BY <3>1, <3>2
  <2> QED
    BY <2>1, <2>2, <1>1
<1>5. top' = top /\ LogicalBottom' = LogicalBottom
  BY DEF Drained
<1> QED
  BY <1>1, <1>3, <1>4, <1>5 DEF WithinInv

(* What is left waits for its index as before. *)
LEMMA DrainPending ==
  ASSUME IInv, NEW s, Drained(s), NEW i \in Int
  PROVE  /\ Pending(i)' <=> (Pending(i) /\ ~(s.var = "slot" /\ s.at = i))
         /\ Base' /\ Pending(i)' => OwnSlot(i)' = OwnSlot(i)
<1>1. 1 \in 1 .. Len(buf) /\ (s.var = "slot" <=> Waits(1, "slot")) /\ buf[1] = s
  BY DEF Drained, Waits
<1>2. ASSUME NEW k \in 1 .. Len(buf'), Waits(k, "slot")', buf'[k].at = i
      PROVE  /\ k + 1 \in 1 .. Len(buf) /\ Waits(k + 1, "slot") /\ buf[k + 1].at = i
             /\ buf'[k] = buf[k + 1] /\ Pending(i) /\ ~(s.var = "slot" /\ s.at = i)
  <2>1. k + 1 \in 1 .. Len(buf) /\ Waits(k + 1, "slot")
        /\ buf'[k] = buf[k + 1] /\ 1 \in 1 .. (k + 1) - 1
    BY <1>2 DEF Drained
  <2>2. s.var = "slot" => s.at < buf[k + 1].at
    BY <2>1, <1>1 DEF IInv, Base, OrderInv
  <2>3. s.var = "slot" => s.at # i
    BY <2>1, <2>2, <1>2
  <2> QED
    BY <2>1, <2>3, <1>2 DEF Pending
<1>3. Pending(i)' => Pending(i) /\ ~(s.var = "slot" /\ s.at = i)
  BY <1>2 DEF Pending
<1>4. ASSUME Pending(i), ~(s.var = "slot" /\ s.at = i)
      PROVE  Pending(i)'
  <2>1. PICK k \in 1 .. Len(buf) : Waits(k, "slot") /\ buf[k].at = i
    BY <1>4 DEF Pending
  <2>2. k # 1
    BY <2>1, <1>1, <1>4
  <2>3. PICK l \in Int : l = k - 1
    BY <2>1
  <2>4. l \in 1 .. Len(buf') /\ l \in 1 .. Len(buf) - 1 /\ l + 1 = k
    BY <2>1, <2>2, <2>3 DEF Drained
  <2>5. Waits(l, "slot")' /\ buf'[l].at = i
    BY <2>1, <2>4 DEF Drained
  <2> QED
    BY <2>4, <2>5 DEF Pending
<1>5. ASSUME Base', Pending(i)' PROVE OwnSlot(i)' = OwnSlot(i)
  <2>1. PICK k \in 1 .. Len(buf') : Waits(k, "slot")' /\ buf'[k].at = i
    BY <1>5 DEF Pending
  <2>2. k + 1 \in 1 .. Len(buf) /\ Waits(k + 1, "slot") /\ buf[k + 1].at = i /\ buf'[k] = buf[k + 1]
    BY <2>1, <1>2
  <2>3. OwnSlot(i)' = buf'[k].val
    BY <2>1, <1>5, ReadsAfter DEF ReadsInv
  <2>4. OwnSlot(i) = buf[k + 1].val
    BY <2>2, Reads DEF ReadsInv, IInv
  <2> QED
    BY <2>2, <2>3, <2>4
<1> QED
  BY <1>3, <1>4, <1>5

(* The owner does not notice. *)
LEMMA DrainOwner ==
  ASSUME IInv, NEW s, Drained(s), Cap(Newest') = Cap(Newest)
  PROVE  OwnerInv' /\ EndInv'
<1>1. /\ UNCHANGED <<pc, pushed, rt, rb, top, freed, thiefVars>> /\ OwnBottom' = OwnBottom
      /\ buf # <<>>
  BY DEF Drained
<1>2. pc # "last" /\ tpc' = tpc
  BY <1>1 DEF IInv, OwnerInv, thiefVars
<1>3. OwnerInv'
  BY <1>1, <1>2 DEF IInv, OwnerInv
<1>4. EndInv'
  BY <1>1, <1>2 DEF IInv, EndInv
<1> QED
  BY <1>3, <1>4

(* The types. *)
LEMMA DrainTypes ==
  ASSUME IInv, NEW s, Drained(s), array' \in Nat, arrays' \in Seq(Rings)
  PROVE  TypeInv'
<1>1. s \in Stores /\ bottom \in Int
  BY DEF Drained, IInv, Base, TypeInv
<1>2. bottom' \in Int
  <2>1. s.val \in Int
    BY <1>1 DEF Stores
  <2> QED
    BY <2>1, <1>1 DEF Drained
<1> QED
  BY <1>2 DEF Drained, IInv, Base, TypeInv, thiefVars

(* No array was drained, so an array waits as before. *)
LEMMA DrainSwitch ==
  ASSUME IInv, NEW s, Drained(s), s.var # "array", array' = array, Len(arrays') = Len(arrays)
  PROVE  SwitchInv' /\ (Switching' <=> Switching)
<1>1. \A k \in 1 .. Len(buf) : Waits(k, "array") =>
        /\ k = Len(buf) /\ pc \in {"retire", "retireReserve"}
        /\ buf[k].val = Len(arrays) /\ array = Len(arrays) - 1
  BY DEF IInv, Base, SwitchInv
<1>2. ASSUME NEW k \in 1 .. Len(buf'), Waits(k, "array")'
      PROVE  /\ k = Len(buf') /\ pc \in {"retire", "retireReserve"}
             /\ buf'[k].val = Len(arrays) /\ array = Len(arrays) - 1 /\ Switching
  <2>1. k + 1 \in 1 .. Len(buf) /\ Waits(k + 1, "array") /\ buf'[k] = buf[k + 1]
        /\ Len(buf') = Len(buf) - 1 /\ Len(buf) \in Nat
    BY <1>2 DEF Drained
  <2> QED
    BY <2>1, <1>1 DEF Switching
<1>3. Switching' => Switching
  BY <1>2 DEF Switching
<1>4. ASSUME Switching PROVE Switching'
  <2>1. PICK k \in 1 .. Len(buf) : Waits(k, "array")
    BY <1>4 DEF Switching
  <2>2. k # 1
    BY <2>1 DEF Waits, Drained
  <2>3. PICK l \in Int : l = k - 1
    BY <2>1
  <2>4. l \in 1 .. Len(buf') /\ l + 1 = k
    BY <2>1, <2>2, <2>3 DEF Drained
  <2>5. Waits(l, "array")'
    BY <2>1, <2>4 DEF Drained
  <2> QED
    BY <2>4, <2>5 DEF Switching
<1>5. pc' = pc
  BY DEF Drained
<1>6. SwitchInv'
  BY <1>2, <1>3, <1>4, <1>5 DEF SwitchInv, IInv, Base
<1> QED
  BY <1>3, <1>4, <1>6

(* The bottom reaches the memory. *)
LEMMA DrainBottom ==
  ASSUME IInv, NEW s, Drained(s), s.var = "bottom"
  PROVE  IInv' /\ Kept
<1>1. UNCHANGED <<array, arrays, top, thiefVars, pushed, out>> /\ LogicalBottom' = LogicalBottom
  BY DEF Drained
<1>2. ReadsInv /\ top \in Nat /\ array \in Nat /\ arrays \in Seq(Rings)
  BY Reads DEF IInv, Base, TypeInv
<1>3. Shown' = Shown /\ Newest' = Newest
  BY <1>1 DEF Shown, Newest
<1>4. SwitchInv' /\ (Switching' <=> Switching)
  BY <1>1, DrainSwitch
<1>5. TypeInv'
  BY <1>1, <1>2, DrainTypes
<1>6. Base'
  BY <1>4, <1>5, DrainOrder DEF Base
<1>7. \A i \in Int : OwnSlot(i)' = OwnSlot(i) /\ (Pending(i)' <=> Pending(i))
  <2> SUFFICES ASSUME NEW i \in Int PROVE OwnSlot(i)' = OwnSlot(i) /\ (Pending(i)' <=> Pending(i))
    OBVIOUS
  <2>1. Pending(i)' <=> Pending(i)
    BY DrainPending
  <2>2. CASE Pending(i)
    BY <2>1, <2>2, <1>6, DrainPending
  <2>3. CASE ~Pending(i)
    <3>1. OwnSlot(i)' = Newest'[Slot(Newest', i)]
      BY <2>1, <2>3, <1>6, ReadsAfter DEF ReadsInv
    <3>2. OwnSlot(i) = Newest[Slot(Newest, i)]
      BY <2>3, <1>2 DEF ReadsInv
    <3> QED
      BY <2>1, <3>1, <3>2, <1>3
  <2> QED
    BY <2>1, <2>2, <2>3
<1>8. RingInv'
  <2>1. RoomInv'
    BY <1>1, <1>3 DEF RoomInv, IInv, RingInv
  <2>2. CopiedInv'
    <3> SUFFICES ASSUME Switching, NEW i \in top .. LogicalBottom - 1
                 PROVE  (/\ ~Pending(i) => Shown[Slot(Shown, i)] = OwnSlot(i)
                         /\ Newest[Slot(Newest, i)] = OwnSlot(i))'
      BY <1>1, <1>4 DEF CopiedInv
    <3>1. /\ ~Pending(i) => Shown[Slot(Shown, i)] = OwnSlot(i)
          /\ Newest[Slot(Newest, i)] = OwnSlot(i)
      BY DEF IInv, RingInv, CopiedInv
    <3>2. i \in Int
      BY <1>2 DEF ReadsInv
    <3> QED
      BY <3>1, <3>2, <1>3, <1>7
  <2> QED
    BY <2>1, <2>2, DrainWithin DEF RingInv
<1>9. ThiefInv'
  <2> SUFFICES ASSUME NEW g \in Thieves PROVE ThiefAt(g)'
    BY DEF ThiefInv
  <2>1. ThiefAt(g) /\ Loaded(g)' = Loaded(g) /\ top \in Int
    BY <1>1, <1>2 DEF IInv, ThiefInv, Loaded, thiefVars
  <2>2. tpc[g] = "slot" => tarr[g] \in 1 .. Len(arrays')
    BY <2>1, <1>1 DEF ThiefAt
  <2> QED
    BY <2>1, <2>2, <1>1, <1>7, ThiefKept
<1>10. OwnerInv' /\ EndInv'
  BY <1>3, DrainOwner
<1>11. Kept
  <2>1. SameIn(top, LogicalBottom - 1)
    BY <1>2, <1>7 DEF SameIn, ReadsInv
  <2> QED
    BY <2>1, <1>1 DEF Kept
<1> QED
  BY <1>6, <1>8, <1>9, <1>10, <1>11 DEF IInv

(* The new array reaches the memory: nothing is left behind it. *)
LEMMA DrainArray ==
  ASSUME IInv, NEW s, Drained(s), s.var = "array"
  PROVE  IInv' /\ Kept
<1>1. UNCHANGED <<arrays, bottom, top, thiefVars, pushed, out>> /\ LogicalBottom' = LogicalBottom
      /\ array' = s.val
  BY DEF Drained
<1>2. ReadsInv /\ top \in Nat /\ arrays \in Seq(Rings)
  BY Reads DEF IInv, Base, TypeInv
<1>3. 1 \in 1 .. Len(buf) /\ Waits(1, "array") /\ buf[1] = s
  BY DEF Drained, Waits
<1>4. Len(buf) = 1 /\ s.val = Len(arrays)
  BY <1>3 DEF IInv, Base, SwitchInv
<1>5. Len(buf') = 0 /\ array' = Len(arrays) /\ Len(arrays) >= 1
  BY <1>1, <1>2, <1>4 DEF Drained, ReadsInv
<1>6. Shown' = Newest /\ Newest' = Newest
  BY <1>1, <1>5 DEF Shown, Newest
<1>7. \A k \in 1 .. Len(buf') : FALSE
  BY <1>5
<1>8. ~Switching' /\ \A i \in Int : ~Pending(i)'
  BY <1>7 DEF Switching, Pending
<1>9. \A i \in Int : ~Pending(i)
  <2> SUFFICES ASSUME NEW i \in Int, Pending(i) PROVE FALSE
    OBVIOUS
  <2>1. PICK k \in 1 .. Len(buf) : Waits(k, "slot")
    BY DEF Pending
  <2>2. k = 1
    BY <2>1, <1>4
  <2> QED
    BY <2>1, <2>2, <1>3 DEF Waits
<1>10. Base'
  <2>1. SwitchInv'
    BY <1>1, <1>5, <1>7 DEF SwitchInv
  <2>2. TypeInv'
    <3>1. array' \in Nat
      BY <1>2, <1>5 DEF ReadsInv
    <3> QED
      BY <3>1, <1>1, <1>2, DrainTypes
  <2> QED
    BY <2>1, <2>2, DrainOrder DEF Base
<1>11. \A i \in Int : OwnSlot(i)' = OwnSlot(i)
  <2> SUFFICES ASSUME NEW i \in Int PROVE OwnSlot(i)' = OwnSlot(i)
    OBVIOUS
  <2>1. OwnSlot(i)' = Newest'[Slot(Newest', i)]
    BY <1>8, <1>10, ReadsAfter DEF ReadsInv
  <2>2. OwnSlot(i) = Newest[Slot(Newest, i)]
    BY <1>9, <1>2 DEF ReadsInv
  <2> QED
    BY <2>1, <2>2, <1>6
<1>12. RingInv'
  <2>1. RoomInv'
    BY <1>1, <1>6 DEF RoomInv, IInv, RingInv
  <2>2. CopiedInv'
    BY <1>8 DEF CopiedInv
  <2> QED
    BY <2>1, <2>2, DrainWithin DEF RingInv
<1>13. ThiefInv'
  <2> SUFFICES ASSUME NEW g \in Thieves PROVE ThiefAt(g)'
    BY DEF ThiefInv
  <2>1. ThiefAt(g) /\ Loaded(g)' = Loaded(g) /\ top \in Int
    BY <1>1, <1>2 DEF IInv, ThiefInv, Loaded, thiefVars
  <2>2. tpc[g] = "slot" => tarr[g] \in 1 .. Len(arrays')
    BY <2>1, <1>1 DEF ThiefAt
  <2> QED
    BY <2>1, <2>2, <1>1, <1>8, <1>11, ThiefKept
<1>14. OwnerInv' /\ EndInv'
  BY <1>6, DrainOwner
<1>15. Kept
  <2>1. SameIn(top, LogicalBottom - 1)
    BY <1>2, <1>11 DEF SameIn, ReadsInv
  <2> QED
    BY <2>1, <1>1 DEF Kept
<1> QED
  BY <1>10, <1>12, <1>13, <1>14, <1>15 DEF IInv

(* A task reaches its slot of the array in memory. *)
LEMMA DrainSlot ==
  ASSUME IInv, NEW s, Drained(s), s.var = "slot"
  PROVE  IInv' /\ Kept
<1>1. UNCHANGED <<array, bottom, top, thiefVars, pushed, out>> /\ LogicalBottom' = LogicalBottom
      /\ arrays' = [arrays EXCEPT ![array][Slot(arrays[array], s.at)] = s.val]
  BY DEF Drained
<1>2. ReadsInv /\ top \in Nat /\ array \in Nat /\ arrays \in Seq(Rings) /\ LogicalBottom \in Int
  <2>1. ReadsInv /\ top \in Nat /\ array \in Nat /\ arrays \in Seq(Rings)
    BY Reads DEF IInv, Base, TypeInv
  <2> QED
    BY <2>1 DEF ReadsInv
<1>3. 1 \in 1 .. Len(buf) /\ Waits(1, "slot") /\ buf[1] = s
  BY DEF Drained, Waits
<1>4. PICK j \in Int : j = s.at
  BY <1>2, <1>3 DEF ReadsInv
<1>5. top <= j /\ j < LogicalBottom /\ s.val \in Int /\ OwnSlot(j) = s.val /\ Pending(j)
  <2>1. buf[1].at = j /\ buf[1].val \in Int
    BY <1>2, <1>3, <1>4 DEF ReadsInv
  <2>2. OwnSlot(j) = buf[1].val
    BY <2>1, <1>2, <1>3 DEF ReadsInv
  <2>3. Pending(j)
    BY <2>1, <1>3 DEF Pending
  <2>4. top <= buf[1].at /\ buf[1].at < LogicalBottom
    BY <1>3 DEF IInv, RingInv, WithinInv
  <2> QED
    BY <2>1, <2>2, <2>3, <2>4, <1>3
<1>6. PICK c \in Nat \ {0} : c = Cap(Shown) /\ Shown \in [0 .. c - 1 -> Int]
  BY <1>2, RingCap DEF ReadsInv
<1>7. Slot(Shown, j) \in 0 .. c - 1
  BY <1>6, ModLess DEF Slot
<1>8. array \in 1 .. Len(arrays) /\ Len(arrays) \in Nat /\ Shown \in Rings
  BY <1>2 DEF ReadsInv
<1>9. /\ Shown' = [Shown EXCEPT ![Slot(Shown, j)] = s.val]
      /\ \A k \in 1 .. Len(arrays) : k # array => arrays'[k] = arrays[k]
      /\ DOMAIN arrays' = DOMAIN arrays
      /\ arrays' = [arrays EXCEPT ![array] = [Shown EXCEPT ![Slot(Shown, j)] = s.val]]
  <2>1. arrays' = [arrays EXCEPT ![array] = [Shown EXCEPT ![Slot(Shown, j)] = s.val]]
    BY <1>1, <1>4 DEF Shown
  <2>2. DOMAIN arrays = 1 .. Len(arrays)
    BY <1>2
  <2> QED
    BY <2>1, <2>2, <1>1, <1>8 DEF Shown
<1>10. Shown' \in [0 .. c - 1 -> Int] /\ Shown' \in Rings /\ Cap(Shown') = c
  <2>1. Shown' \in [0 .. c - 1 -> Int]
    BY <1>5, <1>6, <1>7, <1>9
  <2>2. DOMAIN Shown' = 0 .. c - 1
    BY <2>1
  <2> QED
    BY <2>1, <2>2, CapOf DEF Rings
<1>11. /\ Shown'[Slot(Shown', j)] = s.val
       /\ \A i \in Int : i # j /\ i - j < c /\ j - i < c
                            => Shown'[Slot(Shown', i)] = Shown[Slot(Shown, i)]
  <2>1. \A i \in Int : Slot(Shown', i) = Slot(Shown, i) /\ Slot(Shown, i) \in 0 .. c - 1
    BY <1>6, <1>10, ModLess DEF Slot
  <2>2. Shown'[Slot(Shown, j)] = s.val
    BY <1>6, <1>7, <1>9
  <2>3. ASSUME NEW i \in Int, i # j, i - j < c, j - i < c
        PROVE  Shown'[Slot(Shown', i)] = Shown[Slot(Shown, i)]
    <3>1. Slot(Shown, i) # Slot(Shown, j)
      BY <2>3, <1>6, <1>8, SlotsApart
    <3> QED
      BY <2>1, <3>1, <1>6, <1>9
  <2> QED
    BY <2>1, <2>2, <2>3
<1>12. Len(arrays') = Len(arrays) /\ arrays' \in Seq(Rings)
  <2> DEFINE r == [Shown EXCEPT ![Slot(Shown, j)] = s.val]
  <2>1. r \in Rings
    BY <1>9, <1>10
  <2>2. arrays' = [arrays EXCEPT ![array] = r]
    BY <1>9
  <2> HIDE DEF r
  <2> QED
    BY <2>1, <2>2, <1>2, <1>8
<1>13. SwitchInv' /\ (Switching' <=> Switching)
  BY <1>1, <1>12, DrainSwitch
<1>14. Base'
  <2>1. TypeInv'
    BY <1>1, <1>2, <1>12, DrainTypes
  <2> QED
    BY <2>1, <1>13, DrainOrder DEF Base
<1>15. ReadsInv'
  BY <1>14, ReadsAfter
<1>16. /\ Switching => Newest' = Newest /\ array # Len(arrays)
       /\ ~Switching => Newest' = Shown' /\ Newest = Shown
  <2>1. Switching => array # Len(arrays) /\ Len(arrays) \in 1 .. Len(arrays)
    BY <1>8 DEF IInv, Base, SwitchInv, Switching
  <2>2. ~Switching => array = Len(arrays) /\ array' = Len(arrays')
    BY <1>1, <1>2, <1>12 DEF ReadsInv
  <2> QED
    BY <2>1, <2>2, <1>9, <1>12 DEF Newest, Shown
<1>17. Cap(Newest') = Cap(Newest)
  BY <1>16, <1>6, <1>10
<1>18. LogicalBottom - top < c
  BY <1>6 DEF IInv, RingInv, RoomInv
<1>19. \A i \in top .. LogicalBottom - 1 : i \in Int /\ i - j < c /\ j - i < c
  BY <1>2, <1>5, <1>18
<1>20. \A i \in Int : Pending(i)' <=> (Pending(i) /\ i # j)
  BY <1>4, DrainPending
<1>21. \A i \in top .. LogicalBottom - 1 : OwnSlot(i)' = OwnSlot(i)
  <2> SUFFICES ASSUME NEW i \in top .. LogicalBottom - 1 PROVE OwnSlot(i)' = OwnSlot(i)
    OBVIOUS
  <2>1. i \in Int /\ i - j < c /\ j - i < c
    BY <1>19
  <2>2. CASE Pending(i)'
    BY <2>1, <2>2, <1>14, DrainPending
  <2>3. CASE ~Pending(i)'
    <3>1. OwnSlot(i)' = Newest'[Slot(Newest', i)]
      BY <2>1, <2>3, <1>15 DEF ReadsInv
    <3>2. CASE Switching
      <4>1. Newest[Slot(Newest, i)] = OwnSlot(i)
        BY <3>2 DEF IInv, RingInv, CopiedInv
      <4> QED
        BY <3>1, <3>2, <4>1, <1>16
    <3>3. CASE ~Switching /\ i = j
      BY <3>1, <3>3, <1>5, <1>11, <1>16
    <3>4. CASE ~Switching /\ i # j
      <4>1. ~Pending(i)
        BY <2>1, <2>3, <3>4, <1>20
      <4>2. OwnSlot(i) = Newest[Slot(Newest, i)]
        BY <2>1, <4>1, <1>2 DEF ReadsInv
      <4>3. Shown'[Slot(Shown', i)] = Shown[Slot(Shown, i)]
        BY <2>1, <3>4, <1>11
      <4> QED
        BY <3>1, <3>4, <4>2, <4>3, <1>16
    <3> QED
      BY <3>2, <3>3, <3>4
  <2> QED
    BY <2>2, <2>3
<1>22. RingInv'
  <2>1. RoomInv'
    <3>1. LogicalBottom - top < Cap(Newest)
      BY DEF IInv, RingInv, RoomInv
    <3> QED
      BY <3>1, <1>1, <1>10, <1>17, <1>18 DEF RoomInv
  <2>2. CopiedInv'
    <3> SUFFICES ASSUME Switching, NEW i \in top .. LogicalBottom - 1
                 PROVE  (/\ ~Pending(i) => Shown[Slot(Shown, i)] = OwnSlot(i)
                         /\ Newest[Slot(Newest, i)] = OwnSlot(i))'
      BY <1>1, <1>13 DEF CopiedInv
    <3>1. /\ ~Pending(i) => Shown[Slot(Shown, i)] = OwnSlot(i)
          /\ Newest[Slot(Newest, i)] = OwnSlot(i)
      BY DEF IInv, RingInv, CopiedInv
    <3>2. i \in Int /\ i - j < c /\ j - i < c /\ OwnSlot(i)' = OwnSlot(i)
      BY <1>19, <1>21
    <3>3. Newest'[Slot(Newest', i)] = OwnSlot(i)'
      BY <3>1, <3>2, <1>16
    <3>4. ~Pending(i)' => Shown'[Slot(Shown', i)] = OwnSlot(i)'
      <4> SUFFICES ASSUME ~Pending(i)' PROVE Shown'[Slot(Shown', i)] = OwnSlot(i)'
        OBVIOUS
      <4>1. CASE i = j
        BY <3>2, <4>1, <1>5, <1>11
      <4>2. CASE i # j
        <5>1. ~Pending(i)
          BY <3>2, <4>2, <1>20
        <5> QED
          BY <3>1, <3>2, <4>2, <5>1, <1>11
      <4> QED
        BY <4>1, <4>2
    <3> QED
      BY <3>3, <3>4
  <2> QED
    BY <2>1, <2>2, DrainWithin DEF RingInv
<1>23. ThiefInv'
  <2> SUFFICES ASSUME NEW g \in Thieves PROVE ThiefAt(g)'
    BY DEF ThiefInv
  <2>1. ThiefAt(g) /\ top \in Int
    BY <1>2 DEF IInv, ThiefInv
  <2>2. tpc[g] = "slot" => tarr[g] \in 1 .. Len(arrays')
    BY <2>1, <1>12 DEF ThiefAt
  <2>3. \A i \in Int : i = top /\ top < LogicalBottom /\ ~Pending(i)
                          => ~Pending(i)' /\ OwnSlot(i)' = OwnSlot(i)
    <3> SUFFICES ASSUME NEW i \in Int, i = top, top < LogicalBottom, ~Pending(i)
                 PROVE  ~Pending(i)' /\ OwnSlot(i)' = OwnSlot(i)
      OBVIOUS
    <3>1. i \in top .. LogicalBottom - 1
      BY <1>2
    <3> QED
      BY <3>1, <1>20, <1>21
  <2>4. tpc[g] = "slot" /\ tt[g] = top /\ top < LogicalBottom
          => Loaded(g)'[Slot(Loaded(g)', top)] = Loaded(g)[Slot(Loaded(g), top)]
    <3> SUFFICES ASSUME tpc[g] = "slot", tt[g] = top, top < LogicalBottom
                 PROVE  Loaded(g)'[Slot(Loaded(g)', top)] = Loaded(g)[Slot(Loaded(g), top)]
      OBVIOUS
    <3>1. ~Pending(top) /\ tarr[g] \in 1 .. Len(arrays) /\ tarr' = tarr
      BY <2>1, <1>1 DEF ThiefAt, thiefVars
    <3>2. CASE tarr[g] = array
      <4>1. Loaded(g) = Shown /\ Loaded(g)' = Shown'
        BY <3>1, <3>2, <1>1 DEF Loaded, Shown
      <4>2. PICK i \in Int : i = top
        BY <2>1
      <4>3. i # j
        <5>1. Pending(j)
          BY <1>5
        <5> QED
          BY <5>1, <3>1, <4>2
      <4>4. i - j < c /\ j - i < c
        BY <4>2, <1>2, <1>5, <1>18
      <4>5. Shown'[Slot(Shown', i)] = Shown[Slot(Shown, i)]
        BY <4>3, <4>4, <1>11
      <4> QED
        BY <4>1, <4>2, <4>5
    <3>3. CASE tarr[g] # array
      <4>1. Loaded(g)' = Loaded(g)
        BY <3>1, <3>3, <1>9 DEF Loaded
      <4> QED
        BY <4>1
    <3> QED
      BY <3>2, <3>3
  <2> QED
    BY <2>1, <2>2, <2>3, <2>4, <1>1, ThiefKept
<1>24. OwnerInv' /\ EndInv'
  BY <1>17, DrainOwner
<1>25. Kept
  BY <1>1, <1>21 DEF Kept, SameIn
<1> QED
  BY <1>14, <1>22, <1>23, <1>24, <1>25 DEF IInv

(* A drain keeps the invariant and the line. *)
LEMMA DrainStep ==
  ASSUME IInv, Drain
  PROVE  IInv' /\ Kept
<1>1. PICK s \in Stores : Drained(s)
  BY DrainFacts
<1>2. s.var \in {"bottom", "array", "slot"}
  BY DEF Stores
<1> QED
  BY <1>1, <1>2, DrainBottom, DrainArray, DrainSlot

(* The start has the invariant. *)
LEMMA InitHolds == Init => IInv
<1> SUFFICES ASSUME Init PROVE IInv
  OBVIOUS
<1>1. InitCap \in Nat \ {0} /\ MaxPush \in Nat
  BY ChaseLevAssumption DEF ChaseLevAssumption, PowerOfTwo
<1> DEFINE a == Empty(InitCap)
<1>2. a \in [0 .. InitCap - 1 -> Int] /\ DOMAIN a = 0 .. InitCap - 1
  BY <1>1 DEF Empty, None
<1>3. a \in Rings
  BY <1>1, <1>2 DEF Rings
<1>4. Cap(a) = InitCap
  BY <1>1, <1>2, CapOf
<1>5. /\ top = 0 /\ bottom = 0 /\ arrays = <<a>> /\ array = 1 /\ retired = {} /\ freed = {}
      /\ buf = <<>> /\ pc = "idle" /\ pushed = 0 /\ rt = 0 /\ rb = 0
      /\ tpc = [h \in Thieves |-> "idle"] /\ tt = [h \in Thieves |-> 0]
      /\ tarr = [h \in Thieves |-> 0] /\ tval = [h \in Thieves |-> 0]
      /\ out = [t \in Tasks |-> 0]
  BY DEF Init, None
<1> HIDE DEF a
<1>6. Len(arrays) = 1 /\ arrays \in Seq(Rings) /\ arrays[1] = a
      /\ Len(buf) = 0 /\ buf \in Seq(Stores)
  BY <1>3, <1>5
<1>7. TypeInv
  BY <1>1, <1>5, <1>6 DEF TypeInv
<1>8. \A k \in 1 .. Len(buf) : FALSE
  BY <1>6
<1>9. Base
  BY <1>5, <1>6, <1>7, <1>8 DEF Base, SwitchInv, OrderInv
<1>10. ~Switching /\ OwnBottom = 0
  BY <1>5, <1>9, Empties DEF Fenced
<1>11. LogicalBottom = 0
  BY <1>5, <1>10 DEF LogicalBottom
<1>12. Shown = a /\ Newest = a
  BY <1>5, <1>6 DEF Shown, Newest
<1>13. RingInv
  BY <1>1, <1>4, <1>5, <1>8, <1>10, <1>11, <1>12 DEF RingInv, WithinInv, RoomInv, CopiedInv
<1>14. OwnerInv /\ EndInv
  BY <1>5 DEF OwnerInv, EndInv
<1>15. ThiefInv
  BY <1>5 DEF ThiefInv, ThiefAt
<1> QED
  BY <1>9, <1>13, <1>14, <1>15 DEF IInv

(* So has a step that changes nothing. *)
LEMMA StutterStep ==
  ASSUME IInv, UNCHANGED vars
  PROVE  IInv' /\ Kept
<1>1. /\ Still /\ UNCHANGED <<top, pushed, out, ownVars, thiefVars, freed, pc, rt, rb>>
  BY DEF vars, memVars, ownVars, Still
<1>2. LogicalBottom' = LogicalBottom
  BY <1>1, StillSame DEF StillReads, LogicalBottom
<1>3. Base'
  <2>1. TypeInv'
    BY <1>1 DEF IInv, Base, TypeInv, Still, thiefVars
  <2>2. Switching => pc' \in {"retire", "retireReserve"}
    BY <1>1 DEF Switching, IInv, Base, SwitchInv
  <2> QED
    BY <1>1, <2>1, <2>2, StillBase DEF IInv
<1>4. RingInv'
  BY <1>1, <1>2, StillRing DEF IInv
<1>5. OwnerInv'
  <2>1. top' >= top /\ top' \in Nat
    BY <1>1 DEF IInv, Base, TypeInv
  <2> QED
    BY <1>1, <2>1, StillOwner DEF IInv
<1>6. ThiefInv'
  <2> SUFFICES ASSUME NEW g \in Thieves PROVE ThiefAt(g)'
    BY DEF ThiefInv
  <2> QED
    BY <1>1, <1>2, StillThief DEF IInv, ThiefInv, thiefVars
<1>7. EndInv'
  BY <1>1 DEF IInv, EndInv, thiefVars
<1>8. Kept
  BY <1>1, <1>2, StillKept DEF IInv
<1> QED
  BY <1>3, <1>4, <1>5, <1>6, <1>7, <1>8 DEF IInv

(* What any step does to the line. *)
Effect == Kept \/ PutIn \/ PoppedOff \/ StolenOff

(* Every step keeps the invariant and does one of these. *)
LEMMA StepHolds == IInv /\ [Next]_vars => IInv' /\ Effect
<1> SUFFICES ASSUME IInv, [Next]_vars PROVE IInv' /\ Effect
  OBVIOUS
<1>1. CASE Drain
  BY <1>1, DrainStep DEF Effect
<1>2. CASE Owner
  <2>1. CASE Moves
    BY <2>1, MovesStep DEF Effect
  <2>2. CASE Grow
    BY <2>2, GrowStep DEF Effect
  <2>3. CASE Push
    BY <2>3, PushStep DEF Effect
  <2>4. CASE PopBegin
    BY <2>4, PopBeginStep DEF Effect
  <2>5. CASE PopEmpty
    BY <2>5, PopEmptyStep DEF Effect
  <2>6. CASE PopOwn
    BY <2>6, PopOwnStep DEF Effect
  <2>7. CASE PopSwap
    BY <2>7, PopSwapStep DEF Effect
  <2>8. ASSUME NEW n \in Reserves, Reserve(n) PROVE IInv' /\ Effect
    BY <2>8, ReserveStep DEF Effect
  <2> QED
    BY <1>2, <2>1, <2>2, <2>3, <2>4, <2>5, <2>6, <2>7, <2>8 DEF Owner, Moves
<1>3. ASSUME NEW h \in Thieves, Thief(h) PROVE IInv' /\ Effect
  <2>1. CASE Quiet(h)
    BY <2>1, QuietStep, QuietKept DEF Effect
  <2>2. CASE StealWin(h)
    BY <2>2, StealWinStep DEF Effect
  <2> QED
    BY <1>3, <2>1, <2>2 DEF Thief, Quiet
<1>4. CASE Gone \/ UNCHANGED vars
  BY <1>4, StutterStep DEF Gone, Effect
<1> QED
  BY <1>1, <1>2, <1>3, <1>4 DEF Next

(* The invariant holds in every behaviour of the deque (Init and every     *)
(* action of module ChaseLev, so push, pop, steal, grow and reserveOwner   *)
(* of ChaseLevDeque).                                                      *)
THEOREM ChaseLevInvariance == Spec => []IInv
BY InitHolds, StepHolds, PTL DEF Spec

(* A thief loads from an array that is still allocated: a superseded       *)
(* array is on the list until the destructor (grow and reserveOwner of     *)
(* ChaseLevDeque).                                                         *)
THEOREM ArraysStayLive == Spec => []ArraysLive
<1>1. IInv => ArraysLive
  BY DEF IInv, EndInv, ArraysLive
<1> QED
  BY <1>1, ChaseLevInvariance, PTL

-----------------------------------------------------------------------------
(* The line of tasks. *)
LineIs ==
  /\ Contents \in Seq(Int) /\ Len(Contents) = LogicalBottom - top
  /\ top \in Nat /\ LogicalBottom \in Int /\ top <= LogicalBottom
  /\ \A k \in 1 .. LogicalBottom - top : \A i \in Int :
       i = top + k - 1 => Contents[k] = OwnSlot(i)

(* It is a sequence: as long as the indices from top to bottom, the tasks  *)
(* in their order.                                                         *)
LEMMA LineOf == IInv => LineIs
<1> SUFFICES ASSUME IInv PROVE LineIs
  OBVIOUS
<1>1. ReadsInv /\ top \in Nat /\ top <= LogicalBottom
  BY Reads DEF IInv, Base, TypeInv, RingInv, WithinInv
<1>2. LogicalBottom \in Int /\ \A i \in Int : OwnSlot(i) \in Int
  BY <1>1 DEF ReadsInv
<1>3. PICK n \in Nat : n = LogicalBottom - top
  BY <1>1, <1>2
<1>4. Contents = [k \in 1 .. n |-> OwnSlot(top + k - 1)]
  BY <1>3 DEF Contents
<1>5. \A k \in 1 .. n : OwnSlot(top + k - 1) \in Int
  BY <1>1, <1>2
<1>6. Contents \in Seq(Int) /\ Len(Contents) = n
  BY <1>4, <1>5
<1>7. \A k \in 1 .. n : \A i \in Int : i = top + k - 1 => Contents[k] = OwnSlot(i)
  BY <1>4
<1> QED
  BY <1>1, <1>2, <1>3, <1>6, <1>7 DEF LineIs

(* The same of the state after a step. *)
LEMMA LineAfter == IInv' => LineIs'
BY LineOf, PTL

(* What a step does to the line is what a step of the promise does to it. *)
LEMMA KeptLine ==
  ASSUME IInv, IInv', Kept
  PROVE  Contents' = Contents /\ out' = out
<1>1. LineIs /\ LineIs'
  BY LineOf, LineAfter
<1>2. LogicalBottom' = LogicalBottom /\ top' = top /\ top \in Nat /\ LogicalBottom \in Int
  BY <1>1 DEF Kept, LineIs
<1>3. PICK n \in Int : n = LogicalBottom - top
  BY <1>2
<1>4. /\ Contents \in Seq(Int) /\ Len(Contents) = n
      /\ Contents' \in Seq(Int) /\ Len(Contents') = n
  BY <1>1, <1>2, <1>3 DEF LineIs
<1>5. ASSUME NEW k \in 1 .. n PROVE Contents'[k] = Contents[k]
  <2>1. PICK i \in Int : i = top + k - 1
    BY <1>2
  <2>2. Contents[k] = OwnSlot(i) /\ Contents'[k] = OwnSlot(i)'
    BY <2>1, <1>1, <1>2, <1>3 DEF LineIs
  <2>3. i \in top .. LogicalBottom - 1
    BY <2>1, <1>2, <1>3
  <2> QED
    BY <2>2, <2>3 DEF Kept, SameIn
<1>6. Contents' = Contents
  BY <1>4, <1>5
<1> QED
  BY <1>6 DEF Kept

(* A push puts its task at the end. *)
LEMMA PutLine ==
  ASSUME IInv, IInv', PutIn
  PROVE  Contents' = Append(Contents, pushed + 1) /\ UNCHANGED out /\ pushed + 1 \in Tasks
<1>1. LineIs /\ LineIs' /\ pushed \in 0 .. MaxPush
  BY LineOf, LineAfter DEF IInv, Base, TypeInv
<1>2. LogicalBottom' = LogicalBottom + 1 /\ top' = top /\ top \in Nat /\ LogicalBottom \in Int
      /\ top <= LogicalBottom /\ pushed < MaxPush
  BY <1>1 DEF PutIn, LineIs
<1>3. PICK n \in Nat : n = LogicalBottom - top
  BY <1>2
<1>4. /\ Contents \in Seq(Int) /\ Len(Contents) = n
      /\ Contents' \in Seq(Int) /\ Len(Contents') = n + 1
  BY <1>1, <1>2, <1>3 DEF LineIs
<1>5. ASSUME NEW k \in 1 .. n PROVE Contents'[k] = Contents[k]
  <2>1. PICK i \in Int : i = top + k - 1
    BY <1>2
  <2>2. Contents[k] = OwnSlot(i) /\ Contents'[k] = OwnSlot(i)'
    BY <2>1, <1>1, <1>2, <1>3, SMTT(30) DEF LineIs
  <2>3. i \in top .. LogicalBottom - 1
    BY <2>1, <1>2, <1>3
  <2> QED
    BY <2>2, <2>3 DEF PutIn, SameIn
<1>6. Contents'[n + 1] = pushed + 1
  <2>1. PICK i \in Int : i = LogicalBottom
    BY <1>2
  <2>2. Contents'[n + 1] = OwnSlot(i)'
    BY <2>1, <1>1, <1>2, <1>3 DEF LineIs
  <2> QED
    BY <2>1, <2>2 DEF PutIn
<1>7. pushed + 1 \in Int /\ pushed + 1 \in Tasks
  BY <1>1, <1>2, ChaseLevAssumption DEF ChaseLevAssumption, Tasks
<1>8. Contents' = Append(Contents, pushed + 1)
  BY <1>3, <1>4, <1>5, <1>6, <1>7
<1> QED
  BY <1>7, <1>8 DEF PutIn

(* A pop takes the last task. *)
LEMMA PopLine ==
  ASSUME IInv, IInv', PoppedOff
  PROVE  /\ Contents # <<>> /\ Contents' = SubSeq(Contents, 1, Len(Contents) - 1)
         /\ HandOut(Contents[Len(Contents)])
<1>1. LineIs /\ LineIs'
  BY LineOf, LineAfter
<1>2. LogicalBottom' = LogicalBottom - 1 /\ top' = top /\ top \in Nat /\ LogicalBottom \in Int
      /\ top < LogicalBottom
  BY <1>1 DEF PoppedOff, LineIs
<1>3. PICK n \in Nat : n = LogicalBottom - top /\ n >= 1
  BY <1>2
<1>4. /\ Contents \in Seq(Int) /\ Len(Contents) = n
      /\ Contents' \in Seq(Int) /\ Len(Contents') = n - 1
  BY <1>1, <1>2, <1>3 DEF LineIs
<1>5. ASSUME NEW k \in 1 .. n - 1 PROVE Contents'[k] = Contents[k]
  <2>1. PICK i \in Int : i = top + k - 1
    BY <1>2
  <2>2. Contents[k] = OwnSlot(i) /\ Contents'[k] = OwnSlot(i)'
    BY <2>1, <1>1, <1>2, <1>3 DEF LineIs
  <2>3. i \in top .. LogicalBottom - 2
    BY <2>1, <1>2, <1>3
  <2> QED
    BY <2>2, <2>3 DEF PoppedOff, SameIn
<1>6. Contents[n] = OwnSlot(LogicalBottom - 1)
  <2>1. PICK i \in Int : i = LogicalBottom - 1
    BY <1>2
  <2>2. Contents[n] = OwnSlot(i)
    BY <2>1, <1>1, <1>2, <1>3 DEF LineIs
  <2> QED
    BY <2>1, <2>2
<1>7. Contents' = SubSeq(Contents, 1, n - 1)
  BY <1>3, <1>4, <1>5
<1> QED
  BY <1>3, <1>4, <1>6, <1>7 DEF PoppedOff

(* A steal takes the first. *)
LEMMA StealLine ==
  ASSUME IInv, IInv', StolenOff
  PROVE  Contents # <<>> /\ Contents' = Tail(Contents) /\ HandOut(Head(Contents))
<1>1. LineIs /\ LineIs'
  BY LineOf, LineAfter
<1>2. LogicalBottom' = LogicalBottom /\ top' = top + 1 /\ top \in Nat /\ LogicalBottom \in Int
      /\ top < LogicalBottom
  BY <1>1 DEF StolenOff, LineIs
<1>3. PICK n \in Nat : n = LogicalBottom - top /\ n >= 1
  BY <1>2
<1>4. /\ Contents \in Seq(Int) /\ Len(Contents) = n
      /\ Contents' \in Seq(Int) /\ Len(Contents') = n - 1
  BY <1>1, <1>2, <1>3 DEF LineIs
<1>5. ASSUME NEW k \in 1 .. n - 1 PROVE Contents'[k] = Contents[k + 1]
  <2>1. PICK i \in Int : i = top + k
    BY <1>2
  <2>2. Contents[k + 1] = OwnSlot(i)
    <3>1. k + 1 \in 1 .. LogicalBottom - top /\ i = top + (k + 1) - 1
      BY <2>1, <1>2, <1>3
    <3> QED
      BY <3>1, <2>1, <1>1 DEF LineIs
  <2>3. Contents'[k] = OwnSlot(i)'
    <3>1. k \in 1 .. LogicalBottom' - top' /\ i = top' + k - 1
      BY <2>1, <1>2, <1>3
    <3> QED
      BY <3>1, <2>1, <1>1 DEF LineIs
  <2>4. i \in top + 1 .. LogicalBottom - 1
    BY <2>1, <1>2, <1>3
  <2> QED
    BY <2>2, <2>3, <2>4 DEF StolenOff, SameIn
<1>6. Contents[1] = OwnSlot(top)
  <2>1. PICK i \in Int : i = top
    BY <1>2
  <2>2. Contents[1] = OwnSlot(i)
    BY <2>1, <1>1, <1>2, <1>3 DEF LineIs
  <2> QED
    BY <2>1, <2>2
<1>7. Contents' = Tail(Contents)
  BY <1>3, <1>4, <1>5, SMTT(30)
<1>8. Contents # <<>> /\ Head(Contents) = Contents[1]
  BY <1>3, <1>4
<1> QED
  BY <1>6, <1>7, <1>8 DEF StolenOff

(* The deque implements the line of tasks of module TaskDeque: pop takes   *)
(* the last one, steal the first, also when both are after the same one,   *)
(* when the ring wraps round, and while the owner replaces the array       *)
(* (ChaseLevDeque).                                                        *)
THEOREM DequeIsALine == Spec => ImplementsTaskDeque
<1>1. Init => Line!Init
  <2> SUFFICES ASSUME Init PROVE Contents = <<>> /\ out = [t \in Tasks |-> 0]
    BY DEF Line!Init
  <2>1. LineIs /\ top = 0 /\ bottom = 0 /\ pc = "idle" /\ Base /\ Fenced
    BY InitHolds, LineOf DEF Init, IInv, Fenced
  <2>2. LogicalBottom = 0
    BY <2>1, Empties DEF LogicalBottom
  <2>3. Contents \in Seq(Int) /\ Len(Contents) = 0
    BY <2>1, <2>2 DEF LineIs
  <2> QED
    BY <2>3 DEF Init
<1>2. IInv /\ IInv' /\ [Next]_vars => [Line!Next]_(Line!vars)
  <2> SUFFICES ASSUME IInv, IInv', [Next]_vars PROVE [Line!Next]_(Line!vars)
    OBVIOUS
  <2>1. Effect
    BY StepHolds
  <2>2. CASE Kept
    BY <2>2, KeptLine DEF Line!vars
  <2>3. CASE PutIn
    BY <2>3, PutLine DEF Line!Next, Line!Push
  <2>4. CASE PoppedOff
    BY <2>4, PopLine DEF Line!Next, Line!Pop, Line!TakeOut, HandOut
  <2>5. CASE StolenOff
    BY <2>5, StealLine DEF Line!Next, Line!Steal, Line!TakeOut, HandOut
  <2> QED
    BY <2>1, <2>2, <2>3, <2>4, <2>5 DEF Effect
<1> QED
  BY <1>1, <1>2, ChaseLevInvariance, PTL DEF Spec, ImplementsTaskDeque, Line!Spec

(* Every task that was pushed is in the line, in the order of the pushes,  *)
(* or was handed out once; a task that was not pushed was not handed out.  *)
InLine(t) == \E k \in 1 .. Len(Contents) : Contents[k] = t
InOrder ==
  \A k \in 1 .. Len(Contents) :
    /\ Contents[k] \in 1 .. pushed
    /\ \A j \in 1 .. k - 1 : Contents[j] < Contents[k]
Accounted ==
  \A t \in Tasks : out[t] = IF t <= pushed /\ ~InLine(t) THEN 1 ELSE 0
OnceInv == InOrder /\ Accounted

(* At the start nothing was pushed. *)
LEMMA OnceInit == Init => OnceInv
<1> SUFFICES ASSUME Init PROVE OnceInv
  OBVIOUS
<1>1. LineIs /\ top = 0 /\ bottom = 0 /\ pc = "idle" /\ Base /\ Fenced /\ pushed = 0
      /\ out = [t \in Tasks |-> 0]
  BY InitHolds, LineOf DEF Init, IInv, Fenced
<1>2. LogicalBottom = 0
  BY <1>1, Empties DEF LogicalBottom
<1>3. Len(Contents) = 0
  BY <1>1, <1>2 DEF LineIs
<1>4. \A t \in Tasks : t \in Int /\ t > 0
  BY DEF Tasks
<1> QED
  BY <1>1, <1>3, <1>4 DEF OnceInv, InOrder, Accounted

(* Handing out the task that leaves the line. *)
LEMMA TakenOut ==
  ASSUME OnceInv, NEW t \in Tasks, InLine(t), HandOut(t), pushed' = pushed,
         InOrder', out \in [Tasks -> Nat],
         \A u \in Tasks : InLine(u)' <=> (InLine(u) /\ u # t), InOrder, t <= pushed
  PROVE  OnceInv'
<1>1. \A u \in Tasks : out'[u] = IF u = t THEN out[u] + 1 ELSE out[u]
  BY DEF HandOut
<1>2. out[t] = 0
  BY DEF OnceInv, Accounted
<1>3. Accounted'
  <2> SUFFICES ASSUME NEW u \in Tasks
               PROVE  out'[u] = IF u <= pushed /\ ~InLine(u)' THEN 1 ELSE 0
    BY DEF Accounted
  <2>1. CASE u = t
    BY <2>1, <1>1, <1>2
  <2>2. CASE u # t
    BY <2>2, <1>1 DEF OnceInv, Accounted
  <2> QED
    BY <2>1, <2>2
<1> QED
  BY <1>3 DEF OnceInv

(* Every step keeps the account. *)
LEMMA OnceStep == IInv /\ IInv' /\ OnceInv /\ Effect => OnceInv'
<1> SUFFICES ASSUME IInv, IInv', OnceInv, Effect PROVE OnceInv'
  OBVIOUS
<1>1. /\ Contents \in Seq(Int) /\ pushed \in 0 .. MaxPush /\ out \in [Tasks -> Nat]
      /\ MaxPush \in Nat
  BY LineOf, ChaseLevAssumption DEF LineIs, IInv, Base, TypeInv, ChaseLevAssumption
<1>2. PICK n \in Nat : n = Len(Contents)
  BY <1>1
<1>3. \A k \in 1 .. n : /\ Contents[k] \in 1 .. pushed /\ Contents[k] \in Tasks
                        /\ \A j \in 1 .. k - 1 : Contents[j] < Contents[k]
  BY <1>1, <1>2 DEF OnceInv, InOrder, Tasks
<1>4. CASE Kept
  <2>1. Contents' = Contents /\ out' = out /\ pushed' = pushed
    BY <1>4, KeptLine DEF Kept
  <2> QED
    BY <2>1 DEF OnceInv, InOrder, Accounted, InLine
<1>5. CASE PutIn
  <2>1. Contents' = Append(Contents, pushed + 1) /\ out' = out /\ pushed' = pushed + 1
        /\ pushed + 1 \in Tasks
    BY <1>5, PutLine DEF PutIn
  <2>2. /\ Len(Contents') = n + 1 /\ Contents'[n + 1] = pushed + 1
        /\ \A k \in 1 .. n : Contents'[k] = Contents[k]
    BY <2>1, <1>1, <1>2
  <2>3. InOrder'
    <3> SUFFICES ASSUME NEW k \in 1 .. n + 1
                 PROVE  /\ Contents'[k] \in 1 .. pushed + 1
                        /\ \A j \in 1 .. k - 1 : Contents'[j] < Contents'[k]
      BY <2>1, <2>2 DEF InOrder
    <3>1. CASE k = n + 1
      BY <3>1, <2>2, <1>1, <1>3
    <3>2. CASE k # n + 1
      BY <3>2, <2>2, <1>1, <1>3
    <3> QED
      BY <3>1, <3>2
  <2>4. Accounted'
    <3> SUFFICES ASSUME NEW t \in Tasks
                 PROVE  out[t] = IF t <= pushed + 1 /\ ~InLine(t)' THEN 1 ELSE 0
      BY <2>1 DEF Accounted
    <3>1. InLine(t)' <=> (InLine(t) \/ t = pushed + 1)
      BY <2>2, <1>2 DEF InLine
    <3>2. out[t] = IF t <= pushed /\ ~InLine(t) THEN 1 ELSE 0
      BY DEF OnceInv, Accounted
    <3>3. t \in Int
      BY DEF Tasks
    <3>4. CASE t = pushed + 1
      BY <3>1, <3>2, <3>4, <1>1
    <3>5. CASE t # pushed + 1
      <4>1. t <= pushed + 1 <=> t <= pushed
        BY <3>3, <3>5, <1>1
      <4> QED
        BY <3>1, <3>2, <3>5, <4>1
    <3> QED
      BY <3>4, <3>5
  <2> QED
    BY <2>3, <2>4 DEF OnceInv
<1>6. CASE PoppedOff
  <2>1. /\ Contents # <<>> /\ Contents' = SubSeq(Contents, 1, n - 1)
        /\ HandOut(Contents[n]) /\ pushed' = pushed
    BY <1>2, <1>6, PopLine DEF PoppedOff
  <2>2. n >= 1 /\ Len(Contents') = n - 1 /\ \A k \in 1 .. n - 1 : Contents'[k] = Contents[k]
    BY <2>1, <1>1, <1>2
  <2>3. PICK t \in Tasks : t = Contents[n] /\ t <= pushed
    BY <2>2, <1>1, <1>3
  <2>4. InLine(t)
    BY <2>2, <2>3, <1>2 DEF InLine
  <2>5. \A u \in Tasks : InLine(u)' <=> (InLine(u) /\ u # t)
    <3> SUFFICES ASSUME NEW u \in Tasks PROVE InLine(u)' <=> (InLine(u) /\ u # t)
      OBVIOUS
    <3>1. InLine(u)' => InLine(u) /\ u # t
      <4> SUFFICES ASSUME InLine(u)' PROVE InLine(u) /\ u # t
        OBVIOUS
      <4>1. PICK k \in 1 .. n - 1 : Contents'[k] = u
        BY <2>2 DEF InLine
      <4>2. Contents[k] = u /\ k \in 1 .. n
        BY <4>1, <2>2
      <4>3. u < t /\ u \in Int /\ t \in Int
        BY <4>1, <4>2, <2>2, <2>3, <1>3
      <4> QED
        BY <4>2, <4>3, <1>2 DEF InLine
    <3>2. InLine(u) /\ u # t => InLine(u)'
      BY <2>2, <2>3, <1>2 DEF InLine
    <3> QED
      BY <3>1, <3>2
  <2>6. InOrder'
    BY <2>1, <2>2, <1>3 DEF InOrder
  <2> QED
    BY <2>1, <2>3, <2>4, <2>5, <2>6, <1>1, TakenOut DEF OnceInv
<1>7. CASE StolenOff
  <2>1. Contents # <<>> /\ Contents' = Tail(Contents) /\ HandOut(Head(Contents)) /\ pushed' = pushed
    BY <1>7, StealLine DEF StolenOff
  <2>2. /\ n >= 1 /\ Len(Contents') = n - 1 /\ \A k \in 1 .. n - 1 : Contents'[k] = Contents[k + 1]
        /\ Head(Contents) = Contents[1]
    BY <2>1, <1>1, <1>2
  <2>3. PICK t \in Tasks : t = Contents[1] /\ t <= pushed
    BY <2>2, <1>1, <1>3
  <2>4. InLine(t)
    BY <2>2, <2>3, <1>2 DEF InLine
  <2>5. \A u \in Tasks : InLine(u)' <=> (InLine(u) /\ u # t)
    <3> SUFFICES ASSUME NEW u \in Tasks PROVE InLine(u)' <=> (InLine(u) /\ u # t)
      OBVIOUS
    <3>1. InLine(u)' => InLine(u) /\ u # t
      <4> SUFFICES ASSUME InLine(u)' PROVE InLine(u) /\ u # t
        OBVIOUS
      <4>1. PICK k \in 1 .. n - 1 : Contents'[k] = u
        BY <2>2 DEF InLine
      <4>2. Contents[k + 1] = u /\ k + 1 \in 1 .. n /\ 1 \in 1 .. (k + 1) - 1
        BY <4>1, <2>2
      <4>3. t < u /\ u \in Int /\ t \in Int
        BY <4>2, <2>3, <1>3
      <4> QED
        BY <4>2, <4>3, <1>2 DEF InLine
    <3>2. ASSUME InLine(u), u # t PROVE InLine(u)'
      <4>1. PICK k \in 1 .. n : Contents[k] = u
        BY <3>2, <1>2 DEF InLine
      <4>2. k # 1
        BY <4>1, <3>2, <2>3
      <4>3. PICK l \in Int : l = k - 1
        BY <4>1
      <4>4. l \in 1 .. n - 1 /\ l + 1 = k
        BY <4>1, <4>2, <4>3
      <4>5. Contents'[l] = u /\ l \in 1 .. Len(Contents')
        BY <4>1, <4>4, <2>2
      <4> QED
        BY <4>5 DEF InLine
    <3> QED
      BY <3>1, <3>2
  <2>6. InOrder'
    <3> SUFFICES ASSUME NEW k \in 1 .. n - 1
                 PROVE  /\ Contents'[k] \in 1 .. pushed
                        /\ \A j \in 1 .. k - 1 : Contents'[j] < Contents'[k]
      BY <2>1, <2>2 DEF InOrder
    <3>1. k + 1 \in 1 .. n /\ \A j \in 1 .. k - 1 : j \in 1 .. n - 1 /\ j + 1 \in 1 .. (k + 1) - 1
      OBVIOUS
    <3> QED
      BY <3>1, <2>2, <1>3
  <2> QED
    BY <2>1, <2>2, <2>3, <2>4, <2>5, <2>6, <1>1, TakenOut DEF OnceInv
<1> QED
  BY <1>4, <1>5, <1>6, <1>7 DEF Effect

(* No task is handed out twice and none is lost: a task that was pushed    *)
(* is in the line or was handed out once, and the line is in the order of  *)
(* the pushes (push, pop and steal of ChaseLevDeque).                      *)
THEOREM HandedOutOnce == Spec => []OnceInv
<1>1. IInv /\ IInv' /\ OnceInv /\ [Next]_vars => OnceInv'
  BY StepHolds, OnceStep
<1> QED
  BY <1>1, OnceInit, ChaseLevInvariance, PTL DEF Spec

(* A pop that comes back with nothing leaves an empty line behind: there   *)
(* was nothing to take (pop of ChaseLevDeque).                             *)
THEOREM PopMissesNothing == Spec => MissesNothing
<1> DEFINE Missing == (pc \in {"pop", "last"} /\ pc' = "idle" /\ out' = out) => Contents' = <<>>
<1>1. IInv /\ IInv' /\ OnceInv /\ [Next]_vars => [Missing]_vars
  <2> SUFFICES ASSUME IInv, IInv', OnceInv, Next, pc \in {"pop", "last"}, pc' = "idle", out' = out
               PROVE  Contents' = <<>>
    OBVIOUS
  <2>1. LineIs' /\ LineIs
    BY LineAfter, LineOf
  <2>2. top' = LogicalBottom' => Contents' = <<>>
    <3> SUFFICES ASSUME top' = LogicalBottom' PROVE Contents' = <<>>
      OBVIOUS
    <3>1. Contents' \in Seq(Int) /\ Len(Contents') = LogicalBottom' - top' /\ top' \in Int
      BY <2>1 DEF LineIs
    <3>2. PICK i \in Int : i = top' /\ i = LogicalBottom'
      BY <3>1
    <3>3. Len(Contents') = i - i
      BY <3>1, <3>2
    <3> QED
      BY <3>1, <3>3
  <2>3. CASE PopEmpty
    BY <2>2, <2>3, PopEmptyStep
  <2>4. CASE PopSwap
    BY <2>2, <2>4, PopSwapStep
  <2>5. CASE PopOwn
    <3>1. PoppedOff
      BY <2>5, PopOwnStep
    <3>2. Contents # <<>> /\ HandOut(Contents[Len(Contents)]) /\ Contents \in Seq(Int)
      BY <3>1, <2>1, PopLine DEF LineIs
    <3>3. PICK t \in Int : t = Contents[Len(Contents)]
      BY <3>2
    <3>4. t \in Tasks
      <4>1. Len(Contents) \in 1 .. Len(Contents)
        BY <3>2
      <4>2. t \in 1 .. pushed /\ pushed \in 0 .. MaxPush /\ MaxPush \in Nat
        BY <3>3, <4>1, ChaseLevAssumption
           DEF OnceInv, InOrder, IInv, Base, TypeInv, ChaseLevAssumption
      <4> QED
        BY <4>2 DEF Tasks
    <3>5. out \in [Tasks -> Nat] /\ out' = [out EXCEPT ![t] = @ + 1]
      BY <3>2, <3>3 DEF HandOut, IInv, Base, TypeInv
    <3>6. out'[t] = out[t] + 1 /\ out[t] \in Nat
      BY <3>4, <3>5
    <3> QED
      BY <3>6
  <2>6. CASE Drain \/ Gone
    <3>1. pc' = pc
      BY <2>6 DEF Drain, Gone, vars, ownVars
    <3> QED
      BY <3>1
  <2>7. ASSUME NEW h \in Thieves, Thief(h) PROVE FALSE
    <3>1. pc' = pc
      BY <2>7 DEF Thief, StealTop, StealBottom, StealArray, StealSlot, StealWin, StealLose, ownVars
    <3> QED
      BY <3>1
  <2>8. CASE PushBegin \/ Grow \/ Retire \/ Push \/ PopBegin \/ PopLast \/ Destroy
    BY <2>8 DEF PushBegin, Grow, Retire, Push, PopBegin, PopLast, Destroy
  <2>9. ASSUME NEW n \in Reserves, Reserve(n) PROVE FALSE
    BY <2>9 DEF Reserve
  <2> QED
    BY <2>3, <2>4, <2>5, <2>6, <2>7, <2>8, <2>9 DEF Next, Owner
<1> QED
  BY <1>1, ChaseLevInvariance, HandedOutOnce, PTL DEF Spec, MissesNothing

-----------------------------------------------------------------------------
(***************************************************************************)
(* TypeInv.                                                                  *)
(***************************************************************************)
(* The capacities, and what slots, stores and thieves hold: tasks, of      *)
(* arrays that there are.                                                  *)
Held == Tasks \union {None}
HoldsTasks(a) == PowerOfTwo(Cap(a)) /\ \A i \in DOMAIN a : a[i] \in Held
ArraysInv == \A k \in 1 .. Len(arrays) : HoldsTasks(arrays[k])
ListInv ==
  /\ retired \subseteq 1 .. Len(arrays) /\ freed \subseteq 1 .. Len(arrays)
  /\ pc \in {"retire", "retireReserve"} => Len(arrays) >= 2
BufInv == \A k \in 1 .. Len(buf) : Waits(k, "slot") => buf[k].val \in Held
LoadInv == \A h \in Thieves : tarr[h] \in 0 .. Len(arrays) /\ tval[h] \in Held
ContentInv == ArraysInv /\ ListInv /\ BufInv /\ LoadInv

(* Twice a power of two is one. *)
LEMMA Doubled ==
  ASSUME NEW c, PowerOfTwo(c)
  PROVE  PowerOfTwo(2 * c)
<1>1. c \in Nat \ {0} /\ \A d \in 2 .. c : c % d = 0 => d % 2 = 0
  BY DEF PowerOfTwo
<1>2. ASSUME NEW d \in 2 .. 2 * c, (2 * c) % d = 0, d % 2 # 0
      PROVE  FALSE
  <2>1. PICK q \in Int : 2 * c = d * q
    <3>1. d \in Int /\ d > 0 /\ 2 * c \in Int
      BY <1>1
    <3> DEFINE e == (2 * c) \div d
    <3>2. 2 * c = d * e + ((2 * c) % d) /\ e \in Int
      BY <3>1
    <3> HIDE DEF e
    <3>3. 2 * c = d * e + 0
      BY <3>2, <1>2
    <3>4. PICK u \in Int : u = e
      BY <3>2
    <3>5. d * u = 2 * c
      BY <3>1, <3>3, <3>4
    <3> QED
      BY <3>5
  <2>2. PICK m \in Int : d = 2 * m + 1
    <3>1. d = 2 * (d \div 2) + (d % 2) /\ d % 2 \in 0 .. 1 /\ d \div 2 \in Int
      OBVIOUS
    <3> QED
      BY <3>1, <1>2
  <2>3. PICK p \in Int : q = 2 * p
    <3>1. PICK n \in Int : n = m * q
      OBVIOUS
    <3>2. d * q = 2 * n + q
      <4>1. (2 * m + 1) * q = 2 * (m * q) + q
        OBVIOUS
      <4> QED
        BY <4>1, <3>1, <2>2
    <3>3. q = 2 * (c - n) /\ c - n \in Int
      BY <2>1, <3>1, <3>2, <1>1
    <3> QED
      BY <3>3
  <2>4. c = d * p
    <3>1. d * (2 * p) = 2 * (d * p)
      OBVIOUS
    <3>2. PICK n \in Int : n = d * p
      OBVIOUS
    <3> QED
      BY <2>1, <2>3, <3>1, <3>2, <1>1
  <2>5. d <= c
    BY <2>4, <1>1
  <2>6. c % d = 0
    BY <2>4, <1>1
  <2> QED
    BY <2>5, <2>6, <1>1, <1>2
<1> QED
  BY <1>1, <1>2 DEF PowerOfTwo

(* What the owner reads of an index is a task, or nothing. *)
LEMMA SlotHeld ==
  ASSUME ReadsInv, ArraysInv, BufInv, NEW i \in Int
  PROVE  OwnSlot(i) \in Held
<1>1. CASE ~Pending(i)
  <2>1. OwnSlot(i) = Newest[Slot(Newest, i)] /\ Slot(Newest, i) \in DOMAIN Newest
    BY <1>1, SlotIn DEF ReadsInv
  <2>2. Len(arrays) \in 1 .. Len(arrays)
    BY DEF ReadsInv
  <2>3. HoldsTasks(Newest)
    BY <2>2 DEF ArraysInv, Newest
  <2> QED
    BY <2>1, <2>3 DEF HoldsTasks
<1>2. CASE Pending(i)
  <2>1. PICK k \in 1 .. Len(buf) : Waits(k, "slot") /\ buf[k].at = i
    BY <1>2 DEF Pending
  <2> QED
    BY <2>1 DEF ReadsInv, BufInv
<1> QED
  BY <1>1, <1>2

(* So a new array holds nothing else. *)
LEMMA CopyHeld ==
  ASSUME ReadsInv, ArraysInv, BufInv, NEW c \in Nat \ {0}, PowerOfTwo(c),
         NEW t \in Nat, NEW b \in Int, b - t < c
  PROVE  HoldsTasks(Copied(c, t, b))
<1> DEFINE Live(s) == {i \in t .. b - 1 : i % c = s}
           a == Copied(c, t, b)
<1>1. a = [s \in 0 .. c - 1 |-> IF Live(s) = {} THEN None ELSE OwnSlot(Max(Live(s)))]
  BY DEF Copied
<1>2. a \in [0 .. c - 1 -> Int] /\ \A i \in t .. b - 1 : a[i % c] = OwnSlot(i)
  BY CopyHolds
<1>3. DOMAIN a = 0 .. c - 1 /\ Cap(a) = c
  BY <1>2, CapOf
<1>4. ASSUME NEW s \in 0 .. c - 1 PROVE a[s] \in Held
  <2>1. CASE Live(s) = {}
    BY <2>1, <1>1 DEF Held
  <2>2. CASE Live(s) # {}
    <3>1. PICK i \in t .. b - 1 : i % c = s
      BY <2>2
    <3>2. a[s] = OwnSlot(i)
      BY <3>1, <1>2
    <3> QED
      BY <3>2, SlotHeld
  <2> QED
    BY <2>1, <2>2
<1> QED
  BY <1>3, <1>4 DEF HoldsTasks

(* A new array, and a store that is none to a slot. *)
LEMMA NewHeld ==
  ASSUME IInv, ContentInv, NEW c \in Nat \ {0}, PowerOfTwo(c),
         NEW t \in Nat, NEW b \in Int, b - t < c,
         NewArray(c, t, b), UNCHANGED <<retired, freed, tarr, tval>>
  PROVE  ContentInv'
<1>1. ReadsInv /\ arrays \in Seq(Rings) /\ Len(arrays) \in Nat /\ buf \in Seq(Stores)
  BY Reads DEF IInv, Base, TypeInv
<1>2. HoldsTasks(Copied(c, t, b)) /\ Copied(c, t, b) \in Rings
  <2>1. Copied(c, t, b) \in [0 .. c - 1 -> Int]
    BY <1>1, CopyHolds
  <2> QED
    BY <1>1, <2>1, CopyHeld DEF ContentInv, Rings
<1> DEFINE a == Copied(c, t, b)
           s == Store("array", Len(arrays) + 1)
<1>3. arrays' = Append(arrays, a) /\ buf' = Append(buf, s) /\ s.var = "array" /\ s \in Stores
  BY <1>1 DEF NewArray, Store, Stores
<1> HIDE DEF a, s
<1>4. /\ Len(arrays') = Len(arrays) + 1
      /\ \A k \in 1 .. Len(arrays) : arrays'[k] = arrays[k]
      /\ arrays'[Len(arrays) + 1] = a
  BY <1>1, <1>2, <1>3 DEF a
<1>5. ArraysInv'
  <2> SUFFICES ASSUME NEW k \in 1 .. Len(arrays') PROVE HoldsTasks(arrays'[k])
    BY DEF ArraysInv, HoldsTasks, Cap
  <2>1. CASE k = Len(arrays) + 1
    BY <2>1, <1>2, <1>4 DEF a
  <2>2. CASE k # Len(arrays) + 1
    <3>1. k \in 1 .. Len(arrays)
      BY <2>2, <1>1, <1>4
    <3> QED
      BY <3>1, <1>4 DEF ContentInv, ArraysInv
  <2> QED
    BY <2>1, <2>2
<1>6. ListInv'
  <2>1. Len(arrays) >= 1
    BY <1>1 DEF ReadsInv
  <2> QED
    BY <2>1, <1>1, <1>4 DEF ContentInv, ListInv
<1>7. BufInv'
  <2> SUFFICES ASSUME NEW k \in 1 .. Len(buf'), Waits(k, "slot")' PROVE buf'[k].val \in Held
    BY DEF BufInv
  <2>1. Len(buf') = Len(buf) + 1 /\ Len(buf) \in Nat /\ buf'[Len(buf) + 1] = s
        /\ \A l \in 1 .. Len(buf) : buf'[l] = buf[l]
    BY <1>1, <1>3
  <2>2. k # Len(buf) + 1
    BY <2>1, <1>3 DEF Waits
  <2>3. k \in 1 .. Len(buf)
    BY <2>1, <2>2
  <2> QED
    BY <2>1, <2>3 DEF ContentInv, BufInv, Waits
<1>8. LoadInv'
  BY <1>1, <1>4 DEF ContentInv, LoadInv
<1> QED
  BY <1>5, <1>6, <1>7, <1>8 DEF ContentInv

(* A step that makes no array and stores to no slot. *)
LEMMA SameHeld ==
  ASSUME ContentInv, arrays' = arrays, BufInv',
         \/ UNCHANGED <<retired, freed>> /\ pc' \in {pc, "idle", "grow", "push", "pop", "last"}
         \/ ListInv',
         UNCHANGED <<tarr, tval>> \/ LoadInv'
  PROVE  ContentInv'
<1>1. ArraysInv'
  BY DEF ContentInv, ArraysInv, HoldsTasks, Cap
<1>2. ListInv'
  BY DEF ContentInv, ListInv
<1>3. LoadInv'
  BY DEF ContentInv, LoadInv
<1> QED
  BY <1>1, <1>2, <1>3 DEF ContentInv

(* A store at the end of the buffer, of a task if it is to a slot. *)
LEMMA AddHeld ==
  ASSUME IInv, BufInv, NEW s \in Stores, s.var = "slot" => s.val \in Held,
         buf' = Append(buf, s)
  PROVE  BufInv'
<1>1. buf \in Seq(Stores)
  BY DEF IInv, Base, TypeInv
<1>2. Len(buf') = Len(buf) + 1 /\ Len(buf) \in Nat /\ buf'[Len(buf) + 1] = s
      /\ \A l \in 1 .. Len(buf) : buf'[l] = buf[l]
  BY <1>1
<1> SUFFICES ASSUME NEW k \in 1 .. Len(buf'), Waits(k, "slot")' PROVE buf'[k].val \in Held
  BY DEF BufInv
<1>3. CASE k = Len(buf) + 1
  BY <1>2, <1>3 DEF Waits
<1>4. CASE k # Len(buf) + 1
  <2>1. k \in 1 .. Len(buf)
    BY <1>2, <1>4
  <2> QED
    BY <2>1, <1>2 DEF BufInv, Waits
<1> QED
  BY <1>3, <1>4

(* A bottom is no slot. *)
LEMMA BottomHeld ==
  ASSUME IInv, ContentInv, NEW v \in Int, buf' = Append(buf, Store("bottom", v)),
         UNCHANGED <<arrays, retired, freed, tarr, tval>>, pc' \in {"idle", "pop"}
  PROVE  ContentInv'
<1> DEFINE s == Store("bottom", v)
<1>1. s \in Stores /\ s.var = "bottom" /\ buf' = Append(buf, s)
  BY DEF Store, Stores
<1> HIDE DEF s
<1>2. BufInv'
  BY <1>1, AddHeld DEF ContentInv
<1> QED
  BY <1>2, SameHeld

(* The owner stores the number of the push, then the bottom. *)
LEMMA PushHeld ==
  ASSUME IInv, ContentInv, Push
  PROVE  ContentInv'
<1>1. buf \in Seq(Stores) /\ rb \in Int /\ pushed \in 0 .. MaxPush /\ pushed < MaxPush
      /\ MaxPush \in Nat
  BY ChaseLevAssumption DEF IInv, Base, TypeInv, OwnerInv, Push, ChaseLevAssumption
<1>2. pushed + 1 \in Held /\ pushed + 1 \in Int
  BY <1>1 DEF Held, Tasks
<1> DEFINE s == SlotStore(rb, pushed + 1)
           z == Store("bottom", rb + 1)
<1>3. s \in Stores /\ z \in Stores /\ s.val = pushed + 1 /\ z.var = "bottom"
  BY <1>1 DEF SlotStore, Store, Stores
<1>4. buf' = buf \o <<s, z>>
  BY DEF Push, PushStores
<1> HIDE DEF s, z
<1>5. Len(buf') = Len(buf) + 2 /\ Len(buf) \in Nat /\ buf'[Len(buf) + 1] = s
      /\ buf'[Len(buf) + 2] = z /\ \A l \in 1 .. Len(buf) : buf'[l] = buf[l]
  BY <1>1, <1>3, <1>4
<1>6. BufInv'
  <2> SUFFICES ASSUME NEW k \in 1 .. Len(buf'), Waits(k, "slot")' PROVE buf'[k].val \in Held
    BY DEF BufInv
  <2>1. CASE k = Len(buf) + 1
    BY <2>1, <1>2, <1>3, <1>5
  <2>2. CASE k = Len(buf) + 2
    BY <2>2, <1>3, <1>5 DEF Waits
  <2>3. CASE k # Len(buf) + 1 /\ k # Len(buf) + 2
    <3>1. k \in 1 .. Len(buf)
      BY <2>3, <1>5
    <3> QED
      BY <3>1, <1>5 DEF ContentInv, BufInv, Waits
  <2> QED
    BY <2>1, <2>2, <2>3
<1> QED
  BY <1>6, SameHeld DEF Push, memVars, thiefVars

(* A drain moves what the buffer held. *)
LEMMA DrainHeld ==
  ASSUME IInv, ContentInv, Drain
  PROVE  ContentInv'
<1>1. PICK s \in Stores : Drained(s)
  BY DrainFacts
<1>2. ReadsInv /\ arrays \in Seq(Rings)
  BY Reads DEF IInv, Base, TypeInv
<1>3. UNCHANGED <<retired, freed, tarr, tval, pc>>
  BY <1>1 DEF Drained, thiefVars, ownVars
<1>4. BufInv'
  <2> SUFFICES ASSUME NEW k \in 1 .. Len(buf'), Waits(k, "slot")' PROVE buf'[k].val \in Held
    BY DEF BufInv
  <2>1. k \in 1 .. Len(buf) - 1 /\ k + 1 \in 1 .. Len(buf) /\ Waits(k + 1, "slot")
    BY <1>1 DEF Drained
  <2>2. buf'[k] = buf[k + 1]
    BY <1>1, <2>1 DEF Drained
  <2> QED
    BY <2>1, <2>2 DEF ContentInv, BufInv
<1>5. CASE s.var # "slot"
  <2>1. arrays' = arrays
    BY <1>1, <1>5 DEF Drained
  <2> QED
    BY <2>1, <1>3, <1>4, SameHeld
<1>6. CASE s.var = "slot"
  <2>1. s.val \in Held /\ s.at \in Int
    <3>1. 1 \in 1 .. Len(buf) /\ Waits(1, "slot") /\ buf[1] = s
      BY <1>1, <1>6 DEF Drained, Waits
    <3> QED
      BY <3>1, <1>2 DEF ContentInv, BufInv, ReadsInv
  <2>2. array \in 1 .. Len(arrays) /\ Shown \in Rings /\ DOMAIN arrays = 1 .. Len(arrays)
    BY <1>2 DEF ReadsInv
  <2> DEFINE x == Slot(Shown, s.at)
             a == [Shown EXCEPT ![x] = s.val]
  <2>3. arrays' = [arrays EXCEPT ![array] = a]
    BY <1>1, <1>6 DEF Drained, Shown
  <2>4. DOMAIN a = DOMAIN Shown /\ \A i \in DOMAIN a : a[i] = Shown[i] \/ a[i] = s.val
    OBVIOUS
  <2>5. HoldsTasks(a)
    <3>1. HoldsTasks(Shown)
      BY <2>2 DEF ContentInv, ArraysInv, Shown
    <3>2. Cap(a) = Cap(Shown)
      BY <2>4 DEF Cap
    <3> HIDE DEF a
    <3> QED
      BY <3>1, <3>2, <2>1, <2>4 DEF HoldsTasks
  <2> HIDE DEF a, x
  <2>6. a \in Rings
    <3>1. PICK c \in Nat \ {0} : Shown \in [0 .. c - 1 -> Int]
      BY <2>2 DEF Rings
    <3>2. s.val \in Int
      BY DEF Stores
    <3>3. a \in [0 .. c - 1 -> Int]
      BY <3>1, <3>2 DEF a
    <3> QED
      BY <3>3 DEF Rings
  <2>7. Len(arrays') = Len(arrays) /\ arrays'[array] = a
        /\ \A k \in 1 .. Len(arrays) : k # array => arrays'[k] = arrays[k]
    BY <2>2, <2>3, <2>6, <1>2
  <2>8. ArraysInv'
    <3> SUFFICES ASSUME NEW k \in 1 .. Len(arrays') PROVE HoldsTasks(arrays'[k])
      BY DEF ArraysInv, HoldsTasks, Cap
    <3> QED
      BY <2>5, <2>7 DEF ContentInv, ArraysInv
  <2>9. ListInv' /\ LoadInv'
    BY <2>7, <1>3 DEF ContentInv, ListInv, LoadInv
  <2> QED
    BY <2>8, <2>9, <1>4 DEF ContentInv
<1> QED
  BY <1>5, <1>6

(* A thief loads an array that there is, and what is in its slot. *)
LEMMA ThiefHeld ==
  ASSUME IInv, ContentInv, NEW h \in Thieves, Thief(h)
  PROVE  ContentInv'
<1>1. UNCHANGED <<arrays, retired, freed, buf, pc>>
  BY DEF Thief, StealTop, StealBottom, StealArray, StealSlot, StealWin, StealLose, memVars, ownVars
<1>2. BufInv'
  BY <1>1 DEF ContentInv, BufInv, Waits
<1>3. ReadsInv /\ tarr \in [Thieves -> Nat] /\ tval \in [Thieves -> Int] /\ tt \in [Thieves -> Nat]
      /\ arrays \in Seq(Rings)
  BY Reads DEF IInv, Base, TypeInv
<1>4. LoadInv => \A x \in 0 .. Len(arrays), y \in Held :
        LET a == [tarr EXCEPT ![h] = x]
            v == [tval EXCEPT ![h] = y]
        IN  \A g \in Thieves : a[g] \in 0 .. Len(arrays) /\ v[g] \in Held
  BY <1>3 DEF LoadInv
<1>5. CASE StealTop(h)
  BY <1>1, <1>2, <1>5, SameHeld DEF StealTop
<1>6. Forget(h) => LoadInv'
  <2> SUFFICES ASSUME Forget(h) PROVE LoadInv'
    OBVIOUS
  <2>1. 0 \in 0 .. Len(arrays) /\ None \in Held
    BY <1>3 DEF ReadsInv, Held
  <2> QED
    BY <2>1, <1>1, <1>4 DEF ContentInv, LoadInv, Forget
<1>7. CASE StealBottom(h)
  BY <1>1, <1>2, <1>6, <1>7, SameHeld DEF StealBottom
<1>8. CASE StealWin(h) \/ StealLose(h)
  BY <1>1, <1>2, <1>6, <1>8, SameHeld DEF StealWin, StealLose
<1>9. CASE StealArray(h)
  <2>1. array \in 0 .. Len(arrays) /\ tarr' = [tarr EXCEPT ![h] = array] /\ tval' = tval
    BY <1>3, <1>9 DEF ReadsInv, StealArray
  <2>2. LoadInv'
    BY <2>1, <1>1, <1>3 DEF ContentInv, LoadInv
  <2> QED
    BY <2>2, <1>1, <1>2, SameHeld
<1>10. CASE StealSlot(h)
  <2>1. tarr[h] \in 1 .. Len(arrays) /\ tarr' = tarr
    BY <1>10 DEF IInv, ThiefInv, ThiefAt, StealSlot
  <2> DEFINE a == arrays[tarr[h]]
             y == a[Slot(a, tt[h])]
  <2>2. a \in Rings /\ HoldsTasks(a) /\ tt[h] \in Int
    BY <2>1, <1>3 DEF ContentInv, ArraysInv
  <2>3. y \in Held
    <3> HIDE DEF a
    <3> QED
      BY <2>2, SlotIn DEF HoldsTasks
  <2>4. tval' = [tval EXCEPT ![h] = y]
    BY <1>10 DEF StealSlot
  <2> HIDE DEF y
  <2>5. LoadInv'
    BY <2>1, <2>3, <2>4, <1>1, <1>3 DEF ContentInv, LoadInv
  <2> QED
    BY <2>5, <1>1, <1>2, SameHeld
<1> QED
  BY <1>5, <1>7, <1>8, <1>9, <1>10 DEF Thief

(* The start holds nothing. *)
LEMMA HeldInit == Init => ContentInv
<1> SUFFICES ASSUME Init PROVE ContentInv
  OBVIOUS
<1>1. InitCap \in Nat \ {0} /\ PowerOfTwo(InitCap)
  BY ChaseLevAssumption DEF ChaseLevAssumption, PowerOfTwo
<1>2. DOMAIN Empty(InitCap) = 0 .. InitCap - 1
      /\ \A i \in 0 .. InitCap - 1 : Empty(InitCap)[i] = None
  BY DEF Empty
<1>3. HoldsTasks(Empty(InitCap))
  BY <1>1, <1>2, CapOf DEF HoldsTasks, Held
<1> DEFINE a == Empty(InitCap)
<1>4. arrays = <<a>> /\ buf = <<>> /\ pc = "idle" /\ retired = {} /\ freed = {}
      /\ tarr = [h \in Thieves |-> 0] /\ tval = [h \in Thieves |-> None]
  BY DEF Init
<1> HIDE DEF a
<1>5. Len(arrays) = 1 /\ arrays[1] = a /\ Len(buf) = 0
  BY <1>4
<1>6. ArraysInv /\ ListInv /\ BufInv
  BY <1>3, <1>4, <1>5 DEF ArraysInv, ListInv, BufInv, a
<1>7. LoadInv
  BY <1>4, <1>5 DEF LoadInv, Held
<1> QED
  BY <1>6, <1>7 DEF ContentInv

(* Every step keeps what is held. *)
LEMMA HeldStep == IInv /\ ContentInv /\ [Next]_vars => ContentInv'
<1> SUFFICES ASSUME IInv, ContentInv, [Next]_vars PROVE ContentInv'
  OBVIOUS
<1>1. ReadsInv /\ top \in Nat /\ rt \in Nat /\ rb \in Int
      /\ arrays \in Seq(Rings) /\ Newest \in Rings
      /\ OwnBottom \in Int
  <2>1. ReadsInv /\ top \in Nat /\ rt \in Nat /\ rb \in Int /\ arrays \in Seq(Rings)
    BY Reads DEF IInv, Base, TypeInv
  <2> QED
    BY <2>1 DEF ReadsInv
<1>2. Cap(Newest) \in Nat \ {0} /\ arrays[OwnArray] = Newest /\ PowerOfTwo(Cap(Newest))
  <2>1. Len(arrays) \in 1 .. Len(arrays)
    BY <1>1 DEF ReadsInv
  <2> QED
    BY <1>1, <2>1, RingCap DEF ReadsInv, Newest, ContentInv, ArraysInv, HoldsTasks
<1>3. CASE /\ UNCHANGED <<arrays, retired, freed, buf, tarr, tval>>
           /\ pc' \in {pc, "idle", "grow", "push", "pop", "last"}
  <2>1. BufInv'
    BY <1>3 DEF ContentInv, BufInv, Waits
  <2> QED
    BY <2>1, <1>3, SameHeld
<1>4. CASE PushBegin \/ PopOwn \/ PopLast \/ Gone \/ UNCHANGED vars
  BY <1>3, <1>4 DEF PushBegin, PopOwn, PopLast, Gone, vars, memVars, thiefVars, ownVars
<1>5. CASE Grow
  <2>1. NewArray(2 * Cap(Newest), rt, rb) /\ UNCHANGED <<retired, freed, tarr, tval>>
    BY <1>2, <1>5 DEF Grow, thiefVars
  <2>2. rb - rt < Cap(Newest)
    BY <1>5 DEF Grow, IInv, OwnerInv
  <2>3. PICK c \in Nat \ {0} : c = 2 * Cap(Newest) /\ rb - rt < c
    BY <1>1, <1>2, <2>2
  <2>4. PowerOfTwo(c)
    BY <1>2, <2>3, Doubled
  <2>5. NewArray(c, rt, rb)
    BY <2>1, <2>3
  <2> QED
    BY <1>1, <2>1, <2>3, <2>4, <2>5, NewHeld
<1>6. ASSUME NEW n \in Reserves, Reserve(n) PROVE ContentInv'
  <2>1. PICK c \in Doublings(n) : NewArray(c, top, OwnBottom)
    BY <1>6 DEF Reserve
  <2>2. pc = "idle" /\ n + 1 > Cap(Newest) /\ UNCHANGED <<retired, freed, tarr, tval>> /\ n \in Nat
    BY <1>2, <1>6, ChaseLevAssumption DEF Reserve, thiefVars, ChaseLevAssumption
  <2>3. c \in n + 1 .. 2 * n + 1 /\ PowerOfTwo(c)
    BY <2>1 DEF Doublings
  <2>4. OwnBottom - top < Cap(Newest)
    <3>1. LogicalBottom = OwnBottom
      BY <2>2 DEF LogicalBottom
    <3>2. LogicalBottom - top < Cap(Newest)
      BY DEF IInv, RingInv, RoomInv
    <3> QED
      BY <3>1, <3>2
  <2>5. c \in Nat \ {0} /\ OwnBottom - top < c
    BY <1>1, <1>2, <2>2, <2>3, <2>4
  <2> QED
    BY <1>1, <2>1, <2>2, <2>3, <2>5, NewHeld
<1>7. CASE Retire
  <2>1. UNCHANGED <<arrays, buf, tarr, tval>> /\ retired' = retired \union {Superseded}
        /\ freed' = freed /\ pc \in {"retire", "retireReserve"} /\ buf = <<>>
    BY <1>7 DEF Retire, memVars, thiefVars, Reclaimed, Fenced
  <2>2. Superseded \in 1 .. Len(arrays)
    BY <2>1, <1>1 DEF ContentInv, ListInv, Superseded
  <2>3. ListInv'
    BY <2>1, <2>2 DEF ContentInv, ListInv
  <2>4. BufInv'
    BY <2>1 DEF ContentInv, BufInv, Waits
  <2> QED
    BY <2>1, <2>3, <2>4, SameHeld
<1>8. CASE Push
  BY <1>8, PushHeld
<1>9. CASE PopBegin
  <2>1. OwnBottom - 1 \in Int
    BY <1>1
  <2> QED
    BY <1>9, <2>1, BottomHeld DEF PopBegin, memVars, thiefVars
<1>10. CASE PopEmpty \/ PopSwap
  <2>1. rb + 1 \in Int
    BY <1>1
  <2> QED
    BY <1>10, <2>1, BottomHeld DEF PopEmpty, PopSwap, memVars, thiefVars
<1>11. CASE Destroy
  <2>1. UNCHANGED <<arrays, buf, tarr, tval, retired>> /\ freed' = retired \union {array}
        /\ pc' = "gone"
    BY <1>11 DEF Destroy, memVars, thiefVars
  <2>2. ListInv'
    BY <2>1, <1>1 DEF ContentInv, ListInv, ReadsInv
  <2>3. BufInv'
    BY <2>1 DEF ContentInv, BufInv, Waits
  <2> QED
    BY <2>1, <2>2, <2>3, SameHeld
<1>12. CASE Drain
  BY <1>12, DrainHeld
<1>13. ASSUME NEW h \in Thieves, Thief(h) PROVE ContentInv'
  BY <1>13, ThiefHeld
<1> QED
  BY <1>4, <1>5, <1>6, <1>7, <1>8, <1>9, <1>10, <1>11, <1>12, <1>13 DEF Next, Owner

(* Every variable has its type, and every capacity is a power of two, so   *)
(* that the mask of an index picks its slot (ChaseLevDeque, roundUpPow2,   *)
(* grow, reserveOwner).                                                    *)
THEOREM DequeTypes == Spec => []TypeOK
<1>1. IInv /\ ContentInv => TypeOK
  <2> SUFFICES ASSUME IInv, ContentInv PROVE TypeOK
    OBVIOUS
  <2>1. TypeInv /\ ReadsInv
    BY Reads DEF IInv, Base
  <2>2. array \in 1 .. Len(arrays)
    BY <2>1 DEF ReadsInv
  <2>3. ASSUME NEW k \in 1 .. Len(arrays)
        PROVE  /\ DOMAIN arrays[k] = 0 .. Cap(arrays[k]) - 1
               /\ PowerOfTwo(Cap(arrays[k]))
               /\ \A i \in DOMAIN arrays[k] : arrays[k][i] \in Tasks \union {None}
    <3>1. arrays[k] \in Rings
      BY <2>1 DEF TypeInv
    <3>2. DOMAIN arrays[k] = 0 .. Cap(arrays[k]) - 1
      BY <3>1, RingCap
    <3> QED
      BY <3>2 DEF ContentInv, ArraysInv, HoldsTasks, Held
  <2>4. \A k \in 1 .. Len(buf) : buf[k].var \in {"bottom", "array", "slot"}
    <3>1. \A k \in 1 .. Len(buf) : buf[k] \in Stores
      BY <2>1 DEF ReadsInv
    <3> QED
      BY <3>1 DEF Stores
  <2>5. tarr \in [Thieves -> 0 .. Len(arrays)] /\ tval \in [Thieves -> Tasks \union {None}]
    BY <2>1 DEF TypeInv, ContentInv, LoadInv, Held
  <2> QED
    BY <2>1, <2>2, <2>3, <2>4, <2>5 DEF TypeOK, TypeInv, ContentInv, ListInv
<1> QED
  BY <1>1, HeldInit, HeldStep, ChaseLevInvariance, PTL DEF Spec
=============================================================================
