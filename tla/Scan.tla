-------------------------------- MODULE Scan --------------------------------
(***************************************************************************)
(* parallelScan: a pass over every slot's chunk, the fold of the partial   *)
(* results into prefixes, and a second pass that starts from them.  Flat,  *)
(* slot 0 folds; on a pool of several clusters each leader folds its own,  *)
(* slot 0 the clusters' totals, and each leader puts the two together.     *)
(*                                                                         *)
(* Sources: thread_pool.h (runScanParallel), detail/scan_state.h.          *)
(*                                                                         *)
(* A value is the sequence of the chunks it is made of, the identity the   *)
(* empty one; the prefix function puts two together, or throws.            *)
(***************************************************************************)
EXTENDS Staged, SequencesExt

VARIABLES partial,    (* partials[slot].value                              *)
          published,  (* prefixesPublished                                 *)
          cluster     (* per cluster: clusterDoneStamps, clusterTotals and  *)
                      (* clusterPrefixes; and the inclusive total, of all   *)

scanVars == <<partial, published, cluster>>

(* The leader of a slot's cluster. *)
Leads(y, s) == CHOOSE l \in In(y, y[s]) : \A t \in In(y, y[s]) : l <= t
IsLeader(s) == s = Leads(layout, s)

NoCluster == [stamp |-> 0, total |-> Identity, prefix |-> Identity]

ScanInit ==
  /\ partial = [s \in Slots |-> Unset]
  /\ published = FALSE
  /\ cluster = [k \in Slots |-> NoCluster]

ScanOpen ==
  /\ partial' = [s \in Slots |-> Unset]
  /\ published' = FALSE
  /\ cluster' = [k \in Slots |-> NoCluster]

(* The units: first pass, a fold (of all partials or of a cluster's), the  *)
(* fold of the totals, the combination of the two, second pass.            *)
Pass1 == 1
Fold == 2
Cross == 3
Combine == 4
Pass2 == 5

(* The prefixes that a fold of the chunks of S, in their order, leaves.    *)
Ordered(S) == SetToSortSeq(S, LAMBDA s, t : s < t)
InOrder(f, S) == FoldLeft(LAMBDA v, s : v \o f[s], Identity, Ordered(S))
Below(S, s) == {t \in S : t < s}
PrefixesIn(S) == [s \in Slots |-> IF s \in S THEN InOrder(partial, Below(S, s))
                                             ELSE partial[s]]

-----------------------------------------------------------------------------
First(s) ==
  /\ At(s, "wait")
  /\ Run(s, <<Pass1, s>>)
  /\ UNCHANGED <<poolVars, at, done, cancelled, exc, stopped, scanVars>>

FirstOver(s) ==
  /\ Stage(s) = Pass1
  /\ Complete(s, "first")
  /\ partial' = [partial EXCEPT ![s] = <<s>>]
  /\ UNCHANGED <<published, cluster>>

FirstStamp(s) ==
  /\ At(s, "first")
  /\ StampAndGo(s, 1, IF Hierarchical
                      THEN IF IsLeader(s) THEN "gather" ELSE "member"
                      ELSE IF s = 0 THEN "gather" ELSE "published")
  /\ UNCHANGED scanVars

ScanThrow(s) == Throw(s) /\ UNCHANGED scanVars

(* recordFailure, and where each of the catch blocks goes on. *)
ScanFlag(s) ==
  /\ Flag(s, CASE Stage(s) \in {Pass1, Pass2} -> "second"
               [] Stage(s) = Fold    -> IF Hierarchical THEN "total" ELSE "publish"
               [] Stage(s) = Cross   -> "publish"
               [] Stage(s) = Combine -> "ready")
  /\ UNCHANGED scanVars

-----------------------------------------------------------------------------
(* Slot 0, flat: unless a slot has thrown, fold all partials. *)
GatherAll(s) ==
  /\ ~Hierarchical /\ At(s, "gather")
  /\ \A t \in Others(s) : Reached(t, 1)
  /\ IF exc # None
     THEN Goto(s, "publish") /\ UNCHANGED <<item, history>>
     ELSE Run(s, <<Fold, s>>)
  /\ UNCHANGED <<poolVars, at, done, cancelled, exc, stopped, scanVars>>

(* A leader folds its cluster, whatever has become of the members. *)
GatherCluster(s) ==
  /\ Hierarchical /\ At(s, "gather")
  /\ \A t \in Members(layout[s]) \ {s} : Reached(t, 1)
  /\ Run(s, <<Fold, s>>)
  /\ UNCHANGED <<poolVars, at, done, cancelled, exc, stopped, scanVars>>

FoldOver(s) ==
  LET S == IF Hierarchical THEN Members(layout[s]) ELSE Slots
  IN  /\ Stage(s) = Fold
      /\ Complete(s, IF Hierarchical THEN "total" ELSE "publish")
      /\ partial' = PrefixesIn(S)
      /\ cluster' = [cluster EXCEPT ![layout[s]].total = InOrder(partial, S)]
      /\ UNCHANGED published

PublishTotal(s) ==
  /\ At(s, "total")
  /\ cluster' = [cluster EXCEPT ![layout[s]].stamp = 1]
  /\ Go(s, IF s = 0 THEN "cross" ELSE "published")
  /\ UNCHANGED <<partial, published>>

(* Slot 0: the totals of the clusters. *)
GatherTotals(s) ==
  /\ At(s, "cross")
  /\ \A k \in Clusters \ {0} : cluster[k].stamp >= 1
  /\ Run(s, <<Cross, s>>)
  /\ UNCHANGED <<poolVars, at, done, cancelled, exc, stopped, scanVars>>

Totals == [k \in Slots |-> cluster[k].total]

CrossOver(s) ==
  /\ Stage(s) = Cross
  /\ Complete(s, "publish")
  /\ cluster' = [k \in Slots |-> [cluster[k] EXCEPT !.prefix = InOrder(Totals, Below(Clusters, k))]]
  /\ UNCHANGED <<partial, published>>

Publish(s) ==
  /\ At(s, "publish")
  /\ published' = TRUE
  /\ Go(s, IF Hierarchical THEN "combine" ELSE "pass2")
  /\ UNCHANGED <<partial, cluster>>

SeePublished(s) ==
  /\ At(s, "published") /\ published
  /\ Go(s, IF Hierarchical THEN "combine" ELSE "pass2")
  /\ UNCHANGED scanVars

StartCombine(s) ==
  /\ At(s, "combine")
  /\ Run(s, <<Combine, s>>)
  /\ UNCHANGED <<poolVars, at, done, cancelled, exc, stopped, scanVars>>

Swapped(k, v) == v \o cluster[k].prefix              \* mutant
OnTheLeft(k, v) == cluster[k].prefix \o v

CombineOver(s) ==
  /\ Stage(s) = Combine
  /\ Complete(s, "ready")
  /\ partial' = [t \in Slots |-> IF layout[t] = layout[s] THEN OnTheLeft(layout[s], partial[t])
                                                          ELSE partial[t]]
  /\ UNCHANGED <<published, cluster>>

Ready(s) ==
  /\ At(s, "ready")
  /\ cluster' = [cluster EXCEPT ![layout[s]].stamp = 2]
  /\ Go(s, "pass2")
  /\ UNCHANGED <<partial, published>>

SeeReady(s) ==
  /\ At(s, "member") /\ cluster[layout[s]].stamp >= 2
  /\ Go(s, "pass2")
  /\ UNCHANGED scanVars

-----------------------------------------------------------------------------
Second(s) ==
  /\ At(s, "pass2")
  /\ RunOrLeave(s, <<Pass2, s>>, "second")
  /\ UNCHANGED scanVars

SecondOver(s) ==
  /\ Stage(s) = Pass2
  /\ Complete(s, "second")
  /\ UNCHANGED scanVars

(* The last stamp, also of a slot whose first pass has thrown; slot 0      *)
(* then releases those who wait for the prefixes, and waits for all.       *)
SecondStamp(s) ==
  /\ At(s, "second")
  /\ StampAndGo(s, 2, IF s = 0 /\ <<Pass1, s>> \in failed THEN "release" ELSE "out")
  /\ UNCHANGED scanVars

Release(s) ==
  /\ At(s, "release")
  /\ published' = TRUE
  /\ Go(s, "drain")
  /\ UNCHANGED <<partial, cluster>>

Drain(s) ==
  /\ At(s, "drain")
  /\ \A t \in Others(s) : Reached(t, 2)
  /\ Go(s, "out")
  /\ UNCHANGED scanVars

ScanBegin(s) == Begin(s, 0) /\ UNCHANGED scanVars

ScanSlot(s) ==
  /\ Kind = "scan"
  /\ \/ ScanBegin(s) \/ First(s) \/ FirstOver(s) \/ FirstStamp(s) \/ ScanThrow(s)
     \/ ScanFlag(s) \/ GatherAll(s) \/ GatherCluster(s) \/ FoldOver(s)
     \/ PublishTotal(s) \/ GatherTotals(s) \/ CrossOver(s) \/ Publish(s)
     \/ SeePublished(s) \/ StartCombine(s) \/ CombineOver(s) \/ Ready(s)
     \/ SeeReady(s) \/ Second(s) \/ SecondOver(s) \/ SecondStamp(s)
     \/ Release(s) \/ Drain(s)

-----------------------------------------------------------------------------
ScanUnits(y) ==
  ({Pass1, Pass2} \X Slots) \union
  (IF IsSplit(y) THEN ({Fold, Combine} \X {Leads(y, s) : s \in Slots}) \union {<<Cross, 0>>}
                 ELSE {<<Fold, 0>>})

(* A fold reads what the first passes have written, of all slots or of its *)
(* cluster's; the second pass of a slot builds on all that goes into its   *)
(* prefix and on every first pass.                                         *)
ScanNeeds(y, u) ==
  {v \in ScanUnits(y) :
     \/ u[1] = Pass2 /\ v[1] \in {Pass1, Fold, Cross}
     \/ u[1] = Pass2 /\ v = <<Combine, Leads(y, u[2])>>
     \/ u[1] = Fold /\ v[1] = Pass1 /\ y[v[2]] = y[u[2]]}

(* On clusters the folds wait for each other, but the prefix function may  *)
(* have thrown in those they wait for.                                     *)
ScanAfter(y, u) ==
  {v \in ScanUnits(y) :
     \/ u[1] = Cross /\ v[1] = Fold
     \/ u[1] = Combine /\ v[1] = Cross}

(* A second pass starts from all chunks on the left of its own, in their   *)
(* order, and the call returns all of them, unless it rethrows.            *)
InclusiveTotal == IF Hierarchical THEN InOrder(Totals, Clusters) ELSE cluster[0].total

ScanIsRight ==
  Kind = "scan" =>
    /\ \A s \in Slots : At(s, "body") /\ Stage(s) = Pass2 => partial[s] = FirstNats(s)
    /\ Through /\ exc = None => InclusiveTotal = FirstNats(Cardinality(Slots))
=============================================================================
