------------------------------ MODULE Lookback ------------------------------
(***************************************************************************)
(* inclusiveScan: the slots claim tiles in their order, publish the total  *)
(* of each, walk back over the totals of the tiles before until one has    *)
(* its prefix, publish their own and correct the tile by it.               *)
(*                                                                         *)
(* Sources: thread_pool.h (runInclusiveScanLookback),                      *)
(* detail/lookback_scan.h.                                                 *)
(*                                                                         *)
(* A look-back scan is [kind |-> "lookback", stages |-> its tiles, ...].   *)
(* A value is the sequence of the tiles it is made of.                     *)
(***************************************************************************)
EXTENDS Staged

VARIABLES tile,      (* LookbackTile: flag, aggregate, prefix               *)
          nextTile,  (* clusterNextTile                                    *)
          acc        (* per slot: the walk's accumulator, then its prefix   *)

lookbackVars == <<tile, nextTile, acc>>

NoTile == [flag |-> 0, aggregate |-> Unset, prefix |-> Unset]

LookbackInit ==
  /\ tile = <<>>
  /\ nextTile = [k \in Slots |-> 0]
  /\ acc = [s \in Slots |-> Identity]

(* The clusters get their tiles by their share of the slots, rounded up    *)
(* and capped; the last one gets the rest.  Behind it, and for a cluster   *)
(* without a slot, nothing is left.                                        *)
CeilDiv(a, b) == (a + b - 1) \div b
Share(n, k) == CeilDiv(n * Cardinality(Members(k)), Cardinality(Slots))
Capped(n, x) == IF x > n THEN n ELSE x
LastCluster == CHOOSE k \in Clusters : \A l \in Clusters : l <= k
FirstTiles(n) == CHOOSE f \in [0 .. LastCluster -> 0 .. n] :
                   /\ f[0] = 0
                   /\ \A k \in 1 .. LastCluster : f[k] = Capped(n, f[k - 1] + Share(n, k - 1))
FirstTile(n, k) == FirstTiles(n)[k]
LastTile(n, k) == IF k = LastCluster THEN n ELSE FirstTile(n, k + 1)

LookbackClose ==
  /\ tile' = <<>>
  /\ nextTile' = [k \in Slots |-> 0]
  /\ acc' = [s \in Slots |-> Identity]

LookbackOpen(c) ==
  /\ tile' = [t \in 0 .. c.stages - 1 |-> NoTile]
  /\ nextTile' = [k \in Slots |-> IF k \in Clusters THEN FirstTile(c.stages, k) ELSE 0]
  /\ acc' = [s \in Slots |-> Identity]

LocalScan == 1
Walk == 2
Correction == 3

-----------------------------------------------------------------------------
(* at[s] is the tile in hand. *)
ClaimTile(s) ==
  LET k == layout[s]
      t == nextTile[k]
      over == t >= LastTile(call.stages, k)
  IN  /\ At(s, "wait")
      /\ nextTile' = [nextTile EXCEPT ![k] = @ + 1]
      /\ Goto(s, IF over THEN "out" ELSE "taken")
      /\ at' = [at EXCEPT ![s] = IF over THEN 0 ELSE t]
      /\ UNCHANGED <<poolVars, item, done, cancelled, exc, stopped, history, tile, acc>>

(* A tile taken after a throw is not scanned. *)
StartTile(s) ==
  /\ At(s, "taken")
  /\ IF exc # None
     THEN Goto(s, "identity") /\ UNCHANGED <<item, history>>
     ELSE Run(s, <<LocalScan, at[s]>>)
  /\ UNCHANGED <<poolVars, at, done, cancelled, exc, stopped, lookbackVars>>

LocalOver(s) ==
  /\ Stage(s) = LocalScan
  /\ Complete(s, "aggregate")
  /\ tile' = [tile EXCEPT ![at[s]].aggregate = <<at[s]>>]
  /\ UNCHANGED <<nextTile, acc>>

PublishAggregate(s) ==
  /\ At(s, "aggregate")
  /\ tile' = [tile EXCEPT ![at[s]].flag = 1]
  /\ acc' = [acc EXCEPT ![s] = Identity]
  /\ Run(s, <<Walk, at[s]>>)
  /\ UNCHANGED <<poolVars, at, done, cancelled, exc, stopped, nextTile>>

(* lookbackWalk: one predecessor.  The accumulator holds the totals of the *)
(* tiles from the cursor to one's own.                                     *)
Cursor(s) == at[s] - Len(acc[s])
Reversed(s, v) == acc[s] \o v                        \* mutant
Stitched(s, v) == v \o acc[s]

WalkBack(s) ==
  LET peer == tile[Cursor(s) - 1]
  IN  /\ At(s, "body") /\ Stage(s) = Walk
      /\ Cursor(s) > 0 /\ peer.flag = 1
      /\ acc' = [acc EXCEPT ![s] = Stitched(s, peer.aggregate)]
      /\ UNCHANGED <<stagedVars, tile, nextTile>>

WalkOver(s) ==
  LET peer == tile[Cursor(s) - 1]
  IN  /\ Stage(s) = Walk
      /\ \/ Cursor(s) = 0 /\ UNCHANGED acc
         \/ /\ Cursor(s) > 0 /\ peer.flag = 2
            /\ acc' = [acc EXCEPT ![s] = Stitched(s, peer.prefix \o peer.aggregate)]
      /\ Complete(s, "prefix")
      /\ UNCHANGED <<tile, nextTile>>

PublishPrefix(s) ==
  /\ At(s, "prefix")
  /\ tile' = [tile EXCEPT ![at[s]].prefix = acc[s], ![at[s]].flag = 2]
  /\ IF at[s] = 0
     THEN Goto(s, "wait") /\ UNCHANGED <<item, history>>
     ELSE Run(s, <<Correction, at[s]>>)
  /\ UNCHANGED <<poolVars, at, done, cancelled, exc, stopped, nextTile, acc>>

CorrectionOver(s) ==
  /\ Stage(s) = Correction
  /\ Complete(s, "wait")
  /\ UNCHANGED lookbackVars

TileThrow(s) == Throw(s) /\ UNCHANGED lookbackVars

(* After a throw, its own or another's, a tile gets the identity for its   *)
(* prefix, so that nobody waits for it.                                    *)
ReleaseTile(s) ==
  /\ At(s, "identity") \/ At(s, "flag")
  /\ tile' = [tile EXCEPT ![at[s]].prefix = Identity, ![at[s]].flag = 2]
  /\ Go(s, "wait")
  /\ UNCHANGED <<nextTile, acc>>

LookbackBegin(s) == Begin(s, 0) /\ UNCHANGED lookbackVars

LookbackSlot(s) ==
  /\ Kind = "lookback"
  /\ \/ LookbackBegin(s) \/ ClaimTile(s) \/ StartTile(s) \/ LocalOver(s)
     \/ PublishAggregate(s) \/ WalkBack(s) \/ WalkOver(s) \/ PublishPrefix(s)
     \/ CorrectionOver(s) \/ TileThrow(s) \/ ReleaseTile(s)

-----------------------------------------------------------------------------
LookbackUnits(c) == {u \in {LocalScan, Walk, Correction} \X (0 .. c.stages - 1) :
                       u # <<Correction, 0>>}

LookbackNeeds(c, u) == {v \in LookbackUnits(c) : v[1] < u[1] /\ v[2] = u[2]}

(* A tile is corrected by all tiles on its left, in their order, and the   *)
(* call returns all tiles, unless a throw has spoilt the result: whatever  *)
(* mixture of totals and prefixes the walks have met, and also across the  *)
(* border of two clusters (lookbackWalk, the end of                        *)
(* runInclusiveScanLookback).                                              *)
LookbackIsRight ==
  Kind = "lookback" /\ exc = None =>
    /\ \A s \in Slots : At(s, "body") /\ Stage(s) = Correction => acc[s] = FirstNats(at[s])
    /\ LET last == tile[call.stages - 1]
       IN  Through => last.prefix \o last.aggregate = FirstNats(call.stages)
=============================================================================
