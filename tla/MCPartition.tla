---------------------------- MODULE MCPartition ----------------------------
(***************************************************************************)
(* Instances of Partition.                                                 *)
(***************************************************************************)
EXTENDS Partition

(* Two CCDs of two cores, with or without a sibling each (the CPUs from 4  *)
(* on), the first CCD's cache stacked or not.                              *)
TwoCcds(smt, kib) ==
  LET cpus == 0 .. (IF smt THEN 7 ELSE 3)
  IN  [core |-> [c \in cpus |-> c % 4],
       l3   |-> [c \in cpus |-> (c % 4) \div 2],
       kib  |-> [g \in {0, 1} |-> IF g = 0 THEN kib ELSE 2],
       allowed |-> cpus]

(* Three CCDs of one, two and one core. *)
ThreeCcds ==
  [core |-> [c \in 0 .. 3 |-> c], l3 |-> (0 :> 0) @@ (1 :> 1) @@ (2 :> 1) @@ (3 :> 2),
   kib |-> [g \in 0 .. 2 |-> 2], allowed |-> 0 .. 3]

PoolsOf(machine, asks) ==
  UNION {UNION {{Built(topo, ask, bias, cl) :
                   bias \in {1, 2}, cl \in Clusterings(m, topo, cpu)} :
                cpu \in {SlotCpus(topo, ask)}} :
         m \in {machine}, topo \in {Detected(machine)}, ask \in asks}

Plain == Standalone(4, FALSE)
Small == Standalone(3, FALSE)
Pair  == Standalone(2, TRUE)

SomePools ==
  PoolsOf(TwoCcds(TRUE, 2), {Plain, Small, Pair, Arena(1)})
    \union PoolsOf(TwoCcds(TRUE, 6), {Plain, Small, Pair})
    \union PoolsOf(TwoCcds(FALSE, 2), {Plain})
    \union PoolsOf([TwoCcds(TRUE, 2) EXCEPT !.allowed = {1, 2, 4, 5, 7}], {Small})
    \union PoolsOf(ThreeCcds, {Plain, Small})

(* More participants than cores, siblings and all, and the cache that is   *)
(* preferred is the first CCD's.                                           *)
OversubscribedPools == PoolsOf(TwoCcds(TRUE, 6), {Standalone(8, TRUE)})

CallOf(k, f, l, h) == [kind |-> k, first |-> f, last |-> l, hint |-> h]
BlockKinds == ForKinds \union ReduceKinds
SomeCalls ==
  {CallOf(k, 3, l, h) : k \in BlockKinds, l \in {4, 8, 10}, h \in {0, 1, 2, 3}}
    \union {CallOf("stage_blocks", 0, l, h) : l \in {1, 5, 8}, h \in {0, 1, 3}}
    \union {CallOf(k, 0, l, 0) : k \in SlotKinds, l \in {1, 3, 8, 11, 15}}
ScanCalls == {CallOf("scan", 0, l, 0) : l \in {8, 15}}
=============================================================================
