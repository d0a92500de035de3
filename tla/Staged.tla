------------------------------- MODULE Staged -------------------------------
(***************************************************************************)
(* What parallelChain, runPlex, parallelScan and inclusiveScan share: a    *)
(* call hands one share of the work to every slot, the slots run it to the *)
(* end on their own, and on the way meet at done lines that the pool keeps *)
(* from call to call, compared with epochs that only grow.                 *)
(*                                                                         *)
(* Sources: thread_pool.h (the part every implementation repeats: lease,   *)
(* epoch interval, state, one static block a slot, captureFirstException,  *)
(* rethrowIfCaptured), detail/chain_state.h, plex_state.h, scan_state.h.   *)
(*                                                                         *)
(* The calls are one at a time (module DispatchGate), every slot gets its  *)
(* share exactly once and the call waits for all of them (Dispatch).       *)
(* Modules Chain, Plex, Scan and Lookback say what a slot does with its    *)
(* share, module Primitives puts the four together.                        *)
(***************************************************************************)
EXTENDS Integers, FiniteSets, Sequences

CONSTANTS Slots,     (* 0 .. participants - 1; slot 0 is the producer       *)
          NoCall,
          Pools,     (* pools: their clusters (slot -> cluster), and the    *)
                     (* calls that are made on them, in turn                *)
          MaxThrows, (* bound on the units of a call that throw             *)
          WrapAt     (* UINT64_MAX - 1024: epochs above it start over       *)

StagedAssumption ==
  /\ Slots \subseteq Nat /\ 0 \in Slots /\ IsFiniteSet(Slots)
  /\ \A p \in Pools : p.clusters \in [Slots -> Slots] /\ p.clusters[0] = 0
  /\ MaxThrows \in Nat /\ WrapAt \in Nat

ASSUME StagedAssumption

VARIABLES
  layout,     (* m_scanClusterIdOfSlot; one cluster: not hierarchical        *)
  calls,      (* the calls still to be made                                  *)
  call,       (* the call in progress                                        *)
  job,        (* the slots whose share has not begun                         *)
  pc, at,     (* per slot: the place in its share, and the stage or tile      *)
  item,       (* per slot: the unit whose body it runs or ran last           *)
  done,       (* m_chainDoneSlots, m_plexDoneSlots                           *)
  epoch,      (* m_chainEpochBase, m_plexEpochBase                           *)
  epochBase,  (* the state's epochBase: the interval of this call            *)
  cancelled,  (* chainCancelled, phaseCancelled, scanCancelled               *)
  exc,        (* firstException: the unit that threw it                      *)
  stopped,    (* the token of the call                                       *)
  began, ended, failed,    (* the units of this call (history)               *)
  outcome     (* what the last call has rethrown, or None                    *)

history == <<began, ended, failed>>
poolVars == <<layout, calls, call, job, epoch, epochBase, outcome>>
stagedVars == <<poolVars, pc, at, item, done, cancelled, exc, stopped, history>>

None == <<0, -1>>                        \* no unit
Stage(s) == item[s][1]
Kind == IF call = NoCall THEN "none" ELSE call.kind
Others(s) == Slots \ {s}

(* The done lines a kind of call meets at, and the stamps it may need. *)
Lines == {"chain", "plex"}
Line == IF Kind = "plex" THEN "plex" ELSE "chain"
Interval(c) == IF c.kind = "scan" THEN 3 ELSE c.stages + 1

At(s, place) == pc[s] = place
Goto(s, place) == pc' = [pc EXCEPT ![s] = place]
Stamp(s, x) == done' = [done EXCEPT ![Line][s] = epochBase + x]
Reached(s, x) == done[Line][s] >= epochBase + x

StagedInit ==
  /\ \E p \in Pools : layout = p.clusters /\ calls = p.calls
  /\ call = NoCall /\ job = {}
  /\ pc = [s \in Slots |-> "idle"]
  /\ at = [s \in Slots |-> 0]
  /\ item = [s \in Slots |-> None]
  /\ done = [l \in Lines |-> [s \in Slots |-> 0]]
  /\ epoch = [l \in Lines |-> 0]
  /\ epochBase = 0
  /\ cancelled = FALSE /\ exc = None /\ stopped = FALSE
  /\ began = {} /\ ended = {} /\ failed = {}
  /\ outcome = None

-----------------------------------------------------------------------------
(* The lease is taken; the call reserves its epochs and starts its job. A  *)
(* look-back scan has no epochs.                                           *)
Fresh(l, c) == [epoch EXCEPT ![l] = @ + Interval(c)]
NoReset(l) == done                       \* mutant: the old stamps stay
Reset(l) == [done EXCEPT ![l] = [s \in Slots |-> 0]]

Reserve(c) ==
  LET l == IF c.kind = "plex" THEN "plex" ELSE "chain"
  IN  IF c.kind = "lookback"
      THEN epochBase' = 0 /\ UNCHANGED <<epoch, done>>
      ELSE IF epoch[l] > WrapAt
           THEN /\ done' = Reset(l)
                /\ epochBase' = 0
                /\ epoch' = [epoch EXCEPT ![l] = Interval(c)]
           ELSE /\ epochBase' = epoch[l]
                /\ epoch' = Fresh(l, c)
                /\ UNCHANGED done

Open(c) ==
  /\ call = NoCall /\ c = Head(calls)
  /\ call' = c /\ calls' = Tail(calls)
  /\ job' = Slots
  /\ Reserve(c)
  /\ UNCHANGED <<layout, pc, at, item, cancelled, exc, stopped, history, outcome>>

(* The dispatch reaches a slot (one block, [slot, slot + 1)). *)
Begin(s, first) ==
  /\ s \in job
  /\ job' = job \ {s}
  /\ Goto(s, "wait")
  /\ at' = [at EXCEPT ![s] = first]
  /\ UNCHANGED <<layout, calls, call, epoch, epochBase, item, done, cancelled,
                 exc, stopped, history, outcome>>

(* Every slot is through; what was captured is rethrown. *)
Through == call # NoCall /\ job = {} /\ \A s \in Slots : At(s, "out")

Return ==
  /\ Through
  /\ outcome' = exc
  /\ call' = NoCall
  /\ pc' = [s \in Slots |-> "idle"]
  /\ at' = [s \in Slots |-> 0]
  /\ item' = [s \in Slots |-> None]
  /\ cancelled' = FALSE /\ exc' = None /\ stopped' = FALSE
  /\ began' = {} /\ ended' = {} /\ failed' = {}
  /\ epochBase' = 0
  /\ UNCHANGED <<layout, calls, job, epoch, done>>

(* Whoever holds the source stops the token at any time. *)
Stop ==
  /\ call # NoCall /\ call.token /\ ~stopped
  /\ stopped' = TRUE
  /\ UNCHANGED <<poolVars, pc, at, item, done, cancelled, exc, history>>

-----------------------------------------------------------------------------
(* A slot runs the body of a unit: it begins, ends, or throws. *)
Run(s, u) ==
  /\ Goto(s, "body")
  /\ item' = [item EXCEPT ![s] = u]
  /\ began' = began \union {u}
  /\ UNCHANGED <<ended, failed>>

Complete(s, place) ==
  /\ At(s, "body")
  /\ Goto(s, place)
  /\ ended' = ended \union {item[s]}
  /\ UNCHANGED <<poolVars, at, item, done, cancelled, exc, stopped, began, failed>>

(* captureFirstException: the first one wins.  What the caller passes may   *)
(* be noexcept in some stages: those are quiet.                            *)
Throw(s) ==
  /\ At(s, "body") /\ Stage(s) \notin call.quiet
  /\ Cardinality(failed) < MaxThrows
  /\ failed' = failed \union {item[s]}
  /\ exc' = IF exc = None THEN item[s] ELSE exc
  /\ Goto(s, "flag")
  /\ UNCHANGED <<poolVars, at, item, done, cancelled, stopped, began, ended>>

(* The release store of the cancellation flag, after the capture. *)
Flag(s, place) ==
  /\ At(s, "flag")
  /\ cancelled' = TRUE
  /\ Goto(s, place)
  /\ UNCHANGED <<poolVars, at, item, done, exc, stopped, history>>

(* A slot that sees a stopped token passes it on. *)
Cancelling == cancelled \/ stopped

(* A step that only stamps, and one that only moves on. *)
StampAndGo(s, x, place) ==
  /\ Stamp(s, x)
  /\ Goto(s, place)
  /\ UNCHANGED <<poolVars, at, item, cancelled, exc, stopped, history>>

Go(s, place) ==
  /\ Goto(s, place)
  /\ UNCHANGED <<poolVars, at, item, done, cancelled, exc, stopped, history>>

(* A unit, unless the call is being cancelled. *)
RunOrLeave(s, u, place) ==
  /\ IF Cancelling
     THEN Goto(s, place) /\ UNCHANGED <<item, history>>
     ELSE Run(s, u)
  /\ cancelled' = Cancelling
  /\ UNCHANGED <<poolVars, at, done, exc, stopped>>

-----------------------------------------------------------------------------
(* The two scans: the clusters of the pool, and values as the sequences of *)
(* what they are made of.                                                  *)
Identity == <<>>
Unset == <<-1>>          (* a T of its own making *)

IsSplit(y) == \E s \in Slots : y[s] # y[0]
In(y, k) == {s \in Slots : y[s] = k}
Hierarchical == IsSplit(layout)
Clusters == {layout[s] : s \in Slots}
Members(k) == In(layout, k)

FirstNats(n) == [i \in 1 .. n |-> i - 1]
=============================================================================
