----------------------------- MODULE Partition -----------------------------
(***************************************************************************)
(* How a call of citor::ThreadPool cuts its range: the blocks of           *)
(* parallelFor and of the reducers and who runs which, the ranges of the   *)
(* slots of a chain, a plex and a scan, and the tree that combines the     *)
(* partials of a reduction.                                                *)
(*                                                                         *)
(* Sources: thread_pool.h (ceilDiv, fillBlockShape, reduceChunkSize,       *)
(* runInlineChunked, runReduceInlineImpl, runReduceParallel,               *)
(* runReduceParallelRuntime), detail/dispatch_static.h (BlockClaim,        *)
(* contiguousRankBlockSpan), detail/chain_state.h, detail/scan_state.h,    *)
(* detail/reduce_tree.h.                                                   *)
(*                                                                         *)
(* One call at a time, its runners interleaved block by block.  Sizes are  *)
(* of type size_t, here Width bits wide.  A body only notes the range it   *)
(* is given; what a dispatch does besides is module Dispatch's.            *)
(***************************************************************************)
EXTENDS Topology, Functions

CONSTANTS Width,           (* bits of a size                             *)
          ReduceMaxChunks, (* kReduceMaxChunks, 64 in the code           *)
          Pools,           (* what Built makes of the machines at hand   *)
          Calls            (* the calls to try                           *)

Size == 2 ^ Width
Wrap(x) == x % Size

(* The kinds of call.  An inline one is the caller's alone; "slots" stands *)
(* for a chain and a plex, which cut alike.                                *)
ForKinds    == {"for_static", "for_dynamic", "for_inline"}
ReduceKinds == {"reduce", "reduce_runtime", "reduce_inline"}
InlineKinds == {"for_inline", "reduce_inline"}
SlotKinds   == {"slots", "scan"}
Kinds == ForKinds \union ReduceKinds \union SlotKinds \union {"stage_blocks"}

(* The CCDs of a scan's pool share unless it has but one; a chain, a plex  *)
(* and a scan count from zero.                                             *)
PartitionAssumption ==
  /\ Width \in Nat \ {0} /\ Size \in Nat /\ ReduceMaxChunks \in Nat \ {0}
  /\ \A p \in Pools : /\ p.slots \in Nat /\ p.slots > 1 /\ DOMAIN p.ccd = 0 .. p.slots - 1
                      /\ p.share \in 0 .. 15 /\ (p.share # 0 => AcrossCcds(p.ccd))
  /\ \A c \in Calls : /\ c.kind \in Kinds /\ (c.kind \in SlotKinds => c.first = 0)
                      /\ c.first \in Nat /\ c.last \in Nat /\ c.hint \in Nat
                      /\ c.first < c.last /\ c.last < Size /\ c.hint < Size

ASSUME PartitionAssumption

(* The pool the constructor makes, as far as it matters here: with a split *)
(* between CCDs a scan gives the producer's CCD share sixteenths.          *)
Built(topo, ask, bias, clustering) ==
  LET cpu == SlotCpus(topo, ask)
      ccd == [s \in DOMAIN cpu |-> topo.ccdOfCpu[cpu[s]]]
  IN  [slots |-> Cardinality(DOMAIN cpu),
       ccd   |-> ccd,
       order |-> IF ask.arena # NoCpu THEN Ascending(DOMAIN cpu)
                 ELSE FoldOrder(ccd, clustering),
       share |-> IF AcrossCcds(ccd) THEN AsymmetricNum(ccd, bias) ELSE 0]

VARIABLES
  pool,      (* the pool, for good                                       *)
  call,      (* the call in progress, NoCall between calls               *)
  next,      (* JobDescriptor::nextBlock, a chain stage's counter        *)
  at,        (* the block each runner ran last                           *)
  leaving,   (* the runners that found no block left                     *)
  stopped,   (* the token                                                *)
  count,     (* how often each item was passed to the body               *)
  partials,  (* the range behind each partial                            *)
  result     (* whether the call is over; what a reduction returns or    *)
             (* throws, as the tree of its chunks                        *)

vars == <<pool, call, next, at, leaving, stopped, count, partials, result>>

NoCall == [kind |-> "none", first |-> 0, last |-> 0, hint |-> 0]
NoBlock == -1
Open == [done |-> FALSE, threw |-> FALSE, tree |-> <<>>, chunks |-> <<>>]

-----------------------------------------------------------------------------
(* The shape of a call.                                                    *)

ItemsOf(c) == c.last - c.first
Items == ItemsOf(call)
CeilDiv(a, b) == (a \div b) + (IF a % b # 0 THEN 1 ELSE 0)

(* A hint wins.  Otherwise a dynamic call and a dynamic chain cut twice as *)
(* many blocks as there are slots, and a reduction cuts by the input only. *)
ChunkPerSlot(n) == CeilDiv(n, pool.slots)
ReduceChunkSize(n) == IF n <= ReduceMaxChunks THEN 1 ELSE CeilDiv(n, ReduceMaxChunks)
ChunkOf(p, c) ==
  CASE c.hint # 0 -> c.hint
    [] c.hint = 0 /\ c.kind \in ReduceKinds -> ReduceChunkSize(ItemsOf(c))
    [] c.hint = 0 /\ c.kind = "for_static" -> CeilDiv(ItemsOf(c), p.slots)
    [] c.hint = 0 /\ c.kind = "for_inline" -> ItemsOf(c)
    [] OTHER -> CeilDiv(ItemsOf(c), 2 * p.slots)
Chunk == ChunkOf(pool, call)

WholeChunks(n, chunk) == n \div chunk
BlocksIn(n, chunk) == CeilDiv(n, chunk)
BlockCount == BlocksIn(Items, Chunk)

(* A single block is not dispatched; parallelFor then passes on the range. *)
Alone == \/ call.kind \in InlineKinds
         \/ call.kind \in ForKinds \union ReduceKinds /\ BlockCount <= 1
Whole == call.kind \in ForKinds /\ BlockCount <= 1

Runners == IF Alone THEN {0} ELSE 0 .. pool.slots - 1

BlockRange(b) ==
  LET lo == Wrap(call.first + Wrap(b * Chunk))
  IN  <<lo, Min({Wrap(lo + Chunk), call.last})>>

(* The even split, in 128 bits. *)
Split(n, k, of) == <<(n * k) \div of, (n * (k + 1)) \div of>>

(* With slots on several CCDs those of the producer's share the front of a *)
(* scan, the others the rest, each group in the order of its slots.        *)
IndexInPool(s) == s
IndexInGroup(s) ==
  Cardinality({t \in 0 .. s - 1 : (t \in OnProducerCcd(pool.ccd))
                                    <=> (s \in OnProducerCcd(pool.ccd))})
ScanRange(s) ==
  LET near   == OnProducerCcd(pool.ccd)
      front  == (call.last * pool.share) \div 16
      across == Split(call.last - front, IndexInGroup(s),
                      Max({1, pool.slots - Cardinality(near)}))
  IN  CASE pool.share = 0 -> Split(call.last, s, pool.slots)
        [] pool.share # 0 /\ s \in near ->
             Split(front, IndexInGroup(s), Cardinality(near))
        [] OTHER -> <<front + across[1], front + across[2]>>

Bounds(b) ==
  CASE Whole -> <<call.first, call.last>>
    [] call.kind = "slots" -> Split(call.last, b, pool.slots)
    [] call.kind = "scan" -> ScanRange(b)
    [] OTHER -> BlockRange(b)

-----------------------------------------------------------------------------
(* Who runs which block.                                                   *)

(* A reduction gives each rank a run of blocks, the first ranks one more.  *)
Span(r) ==
  LET base  == BlockCount \div pool.slots
      extra == BlockCount % pool.slots
      begin == r * base + Min({r, extra})
  IN  <<begin, begin + base + (IF r < extra THEN 1 ELSE 0)>>

(* A dynamic call hands out one block a rank, then the counter's.          *)
FromCounter(r) ==
  /\ ~Alone
  /\ \/ call.kind = "stage_blocks"
     \/ call.kind = "for_dynamic" /\ at[r] # NoBlock /\ BlockCount > pool.slots

Limit(r) ==
  CASE call.kind \in SlotKinds -> pool.slots
    [] call.kind = "reduce" /\ ~Alone -> Span(r)[2]
    [] OTHER -> BlockCount

Candidate(r) ==
  CASE Alone -> at[r] + 1
    [] FromCounter(r) -> next
    [] ~Alone /\ call.kind = "reduce" ->
         IF at[r] = NoBlock THEN Span(r)[1] ELSE at[r] + 1
    [] ~Alone /\ call.kind \in {"for_static", "reduce_runtime"} ->
         IF at[r] = NoBlock THEN r ELSE at[r] + pool.slots
    [] OTHER -> IF at[r] = NoBlock THEN r ELSE Limit(r)

(* The partial of a chunk is filed under the block, or, where the body is  *)
(* only told its range, under what the range says.                         *)
Index(b) == IF call.kind = "reduce_runtime" /\ ~Alone
            THEN (Bounds(b)[1] - call.first) \div Chunk ELSE b

-----------------------------------------------------------------------------
(* The combining tree: neighbours, then neighbouring pairs, and so on, in  *)
(* place; what has no right neighbour waits for a later round.             *)

Leaf(range) == [tree |-> <<range>>, chunks |-> <<range>>]
Node(l, r) == [tree |-> <<l.tree, r.tree>>, chunks |-> l.chunks \o r.chunks]

Round(s, step) ==
  [i \in DOMAIN s |->
     IF (i - 1) % (2 * step) = 0 /\ i + step <= Len(s)
     THEN Node(s[i], s[i + step]) ELSE s[i]]
RoundSteps(n) == Ascending({2 ^ k : k \in 0 .. Width} \cap 0 .. n - 1)
PairwiseTree(s) == FoldLeft(Round, s, RoundSteps(Len(s)))[1]

(* The partials that were filed, in order; a missing one makes it throw.   *)
Combined ==
  LET filed == [i \in 1 .. Cardinality(DOMAIN partials) |->
                  Leaf(partials[Ascending(DOMAIN partials)[i]])]
      threw == Len(filed) < BlockCount
  IN  IF filed = <<>> THEN [Open EXCEPT !.done = TRUE, !.threw = TRUE]
      ELSE [done |-> TRUE, threw |-> threw, tree |-> PairwiseTree(filed).tree,
            chunks |-> PairwiseTree(filed).chunks]

-----------------------------------------------------------------------------
Init ==
  /\ pool \in Pools
  /\ call = NoCall /\ next = 0 /\ at = <<>> /\ leaving = {}
  /\ stopped = FALSE /\ count = [i \in 0 .. Size - 1 |-> 0]
  /\ partials = <<>> /\ result = Open

(* The counter of a dynamic call starts behind the blocks the ranks own.   *)
Begin(c) ==
  /\ call = NoCall
  /\ call' = c
  /\ next' = IF c.kind = "for_dynamic" THEN pool.slots ELSE 0
  /\ at' = [r \in 0 .. pool.slots - 1 |-> NoBlock]
  /\ UNCHANGED <<pool, leaving, stopped, count, partials, result>>

(* A runner that is called to stop leaves, also with a block in hand.      *)
Run(r) ==
  LET b == Candidate(r)
      lo == Bounds(b)[1]
      hi == Bounds(b)[2]
  IN  /\ ~stopped /\ b < Limit(r)
      /\ at' = [at EXCEPT ![r] = b]
      /\ next' = IF FromCounter(r) THEN next + 1 ELSE next
      /\ count' = [i \in DOMAIN count |->
                     count[i] + (IF lo <= i /\ i < hi THEN 1 ELSE 0)]
      /\ partials' = IF call.kind \notin ReduceKinds THEN partials
                     ELSE (Index(b) :> <<lo, hi>>) @@ partials
      /\ UNCHANGED <<pool, call, leaving, stopped, result>>

Leave(r) ==
  /\ stopped \/ Candidate(r) >= Limit(r)
  /\ leaving' = leaving \union {r}
  /\ UNCHANGED <<pool, call, next, at, stopped, count, partials, result>>

Take(r) ==
  /\ call # NoCall /\ ~result.done
  /\ r \in Runners \ leaving
  /\ Run(r) \/ Leave(r)

Stop ==
  /\ call # NoCall /\ ~result.done /\ ~stopped
  /\ stopped' = TRUE
  /\ UNCHANGED <<pool, call, next, at, leaving, count, partials, result>>

(* The join is over; a reduction combines what it has.                     *)
Finish ==
  /\ call # NoCall /\ ~result.done /\ leaving = Runners
  /\ result' = IF call.kind \in ReduceKinds THEN Combined
               ELSE [Open EXCEPT !.done = TRUE]
  /\ UNCHANGED <<pool, call, next, at, leaving, stopped, count, partials>>

Return ==
  /\ result.done
  /\ call' = NoCall /\ next' = 0 /\ at' = <<>> /\ leaving' = {}
  /\ stopped' = FALSE /\ count' = [i \in 0 .. Size - 1 |-> 0]
  /\ partials' = <<>> /\ result' = Open
  /\ UNCHANGED pool

Next ==
  \/ \E c \in Calls : Begin(c)
  \/ \E r \in 0 .. pool.slots - 1 : Take(r)
  \/ Stop
  \/ Finish
  \/ Return

Spec == Init /\ [][Next]_vars

-----------------------------------------------------------------------------
(* Properties *)

(* Whatever the kind of call, the range and the hint, no item is passed to *)
(* the body twice or from outside the range, and a call that nobody        *)
(* stopped has passed every one (fillBlockShape, BlockClaim, slotRange).   *)
RunsOnce ==
  /\ \A i \in DOMAIN count :
       count[i] <= (IF call.first <= i /\ i < call.last THEN 1 ELSE 0)
  /\ result.done /\ ~stopped =>
       \A i \in call.first .. call.last - 1 : count[i] = 1

(* The reference: the chunks a reduction has by its range and hint alone,  *)
(* and the tree over them that splits at the largest power of two.         *)
ChunksOf(c) ==
  LET n    == c.last - c.first
      size == IF c.hint # 0 THEN c.hint
              ELSE Min({k \in 1 .. n : k * ReduceMaxChunks >= n})
      cuts == {i \in 0 .. n - 1 : i % size = 0}
  IN  [k \in 1 .. Cardinality(cuts) |->
         <<c.first + (k - 1) * size, Min({c.first + k * size, c.last})>>]
TreeOf(chunks) ==
  LET L == Len(chunks)
      Half(n) == Max({2 ^ k : k \in 0 .. Width} \cap 1 .. n - 1)
      T[p \in (1 .. L) \X (1 .. L)] ==
        IF p[2] = 1 THEN <<chunks[p[1]]>>
        ELSE <<T[<<p[1], Half(p[2])>>],
               T[<<p[1] + Half(p[2]), p[2] - Half(p[2])>>]>>
  IN  T[<<1, L>>]

(* A reduction combines the chunks that ran, from left to right.  It       *)
(* throws if one is missing, which takes a stopped token, and otherwise    *)
(* returns the same tree whatever the pool and wherever it ran             *)
(* (runReduceParallel, runReduceInlineImpl, pairwiseTreeCombine).          *)
ReductionRight ==
  call.kind \in ReduceKinds /\ result.done =>
    LET Ran(range) == range \in Range(partials)
    IN  /\ result.chunks = SelectSeq(ChunksOf(call), Ran)
        /\ result.threw => stopped
        /\ ~result.threw => result.tree = TreeOf(ChunksOf(call))

(* The chunks a scan gives its slots follow one another in the order in    *)
(* which their partials are folded, so that a slot's prefix is the sum of  *)
(* what lies to its left (ScanState::slotRange, runScanParallel).          *)
ScanInOrder ==
  call.kind = "scan" =>
    LET range(k) == ScanRange(pool.order[k])
    IN  /\ range(1)[1] = 0 /\ range(pool.slots)[2] = call.last
        /\ \A k \in 1 .. pool.slots - 1 : range(k)[2] = range(k + 1)[1]
=============================================================================
