----------------------------- MODULE Primitives -----------------------------
(***************************************************************************)
(* The calls in several stages on one pool, one after the other:           *)
(* parallelChain, runPlex, parallelScan and inclusiveScan.  parallelChain  *)
(* and parallelScan meet at the same done lines.                           *)
(***************************************************************************)
EXTENDS Chain, Plex, Scan, Lookback

(* A call and the clusters of the pool it is made on. *)
Plan(c, y) == [of |-> c, on |-> y]
Plans == UNION {{Plan(p.calls[i], p.clusters) : i \in DOMAIN p.calls} : p \in Pools}

(* What calls there are.  A barrier of a chain stands behind each stage,   *)
(* also the last, which nobody waits for.                                  *)
IsCall(c) ==
  /\ c.kind \in {"chain", "plex", "scan", "lookback"}
  /\ c.stages \in Nat \ {0} /\ c.token \in BOOLEAN /\ c.quiet \subseteq Nat
  /\ c.kind = "chain" => /\ c.barriers \in [1 .. c.stages -> {"none", "all", "serial"}]
                         /\ c.blocks \in Nat

PrimitivesAssumption ==
  /\ \A p \in Pools : p.calls \in Seq(Range(p.calls)) /\ \A c \in Range(p.calls) : IsCall(c)
  /\ NoCall \notin Plans /\ \A p \in Pools : NoCall \notin Range(p.calls)

ASSUME PrimitivesAssumption

chainVars == claimed
plexVars == phase
vars == <<stagedVars, chainVars, plexVars, scanVars, lookbackVars>>

Init == StagedInit /\ ChainInit /\ PlexInit /\ ScanInit /\ LookbackInit

(* A call's state is on its caller's stack and new in every call. *)
OpenCall ==
  /\ calls # <<>>
  /\ LET c == Head(calls)
     IN  Open(c) /\ ChainOpen(c) /\ PlexOpen /\ ScanOpen /\ LookbackOpen(c)

ReturnCall == Return /\ ChainClose /\ PlexOpen /\ ScanOpen /\ LookbackClose
StopToken == Stop /\ UNCHANGED <<chainVars, plexVars, scanVars, lookbackVars>>

Slot(s) ==
  \/ ChainSlot(s) /\ UNCHANGED <<plexVars, scanVars, lookbackVars>>
  \/ PlexSlot(s) /\ UNCHANGED <<chainVars, scanVars, lookbackVars>>
  \/ ScanSlot(s) /\ UNCHANGED <<chainVars, plexVars, lookbackVars>>
  \/ LookbackSlot(s) /\ UNCHANGED <<chainVars, plexVars, scanVars>>

AllCallsMade == calls = <<>> /\ call = NoCall /\ UNCHANGED vars

Next == \/ OpenCall
        \/ ReturnCall \/ StopToken \/ AllCallsMade
        \/ \E s \in Slots : Slot(s)

(* Every slot goes on running, and the producer comes back; nobody has to  *)
(* call, or to stop a token.                                               *)
Fairness == WF_vars(ReturnCall) /\ \A s \in Slots : WF_vars(Slot(s))

Spec == Init /\ [][Next]_vars /\ Fairness

-----------------------------------------------------------------------------
(***************************************************************************)
(* Properties.                                                             *)
(***************************************************************************)
UnitsOf(p) == CASE p.of.kind = "chain" -> ChainUnits(p.of)
                [] p.of.kind = "plex" -> PlexUnits(p.of)
                [] p.of.kind = "scan" -> ScanUnits(p.on)
                [] p.of.kind = "lookback" -> LookbackUnits(p.of)

NeedsOf(p, u) == CASE p.of.kind = "chain" -> ChainNeeds(p.of, u)
                   [] p.of.kind = "plex" -> PlexNeeds(p.of, u)
                   [] p.of.kind = "scan" -> ScanNeeds(p.on, u)
                   [] p.of.kind = "lookback" -> LookbackNeeds(p.of, u)

AfterOf(p, u) == IF p.of.kind = "scan" THEN ScanAfter(p.on, u) ELSE {}

Stages == IF call = NoCall THEN 0 ELSE call.stages

TypeOK ==
  /\ call # NoCall => Plan(call, layout) \in Plans
  /\ job \subseteq Slots
  /\ at \in [Slots -> 0 .. Stages]
  /\ \A l \in Lines : /\ epoch[l] = 0 \/ \E p \in Plans : epoch[l] \in 0 .. WrapAt + Interval(p.of)
                      /\ \A s \in Slots : done[l][s] \in 0 .. epoch[l]
  /\ epochBase \in 0 .. WrapAt
  /\ cancelled \in BOOLEAN /\ stopped \in BOOLEAN /\ published \in BOOLEAN
  /\ exc \in failed \union {None}
  /\ call # NoCall => /\ began \subseteq UnitsOf(Plan(call, layout))
                      /\ ended \subseteq began /\ failed \subseteq began \ ended
  /\ phase \in 0 .. Stages

(* A stage, phase or pass begins only when what it builds on is completed, *)
(* whichever slot is late or early and whatever stamps the lines still     *)
(* carry from the calls before, also after the epochs have started over;   *)
(* nothing runs twice, nothing still runs when the call returns, nothing   *)
(* is left out unless a unit has thrown or the token is stopped, and the   *)
(* call rethrows exactly if one has thrown (chain.h, hints.h BarrierKind,  *)
(* thread_pool.h on runPlex, parallelScan).                                *)
Region == INSTANCE StagedRegion WITH
            Calls <- Plans, Quiet <- None,
            call <- IF call = NoCall THEN NoCall ELSE Plan(call, layout),
            Units <- UnitsOf, Needs <- NeedsOf, After <- AfterOf
ImplementsStagedRegion == Region!Spec

(* Every call returns: a slot that gives up, for a throw or a stopped      *)
(* token, leaves nobody waiting for it at a barrier of a later stage.      *)
CallsReturn == call # NoCall ~> call = NoCall
=============================================================================
